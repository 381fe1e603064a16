-------------------------- MODULE NotificationPolicy --------------------------
(***************************************************************************)
(* The pure part of the crate notifications: by what an item is recognised *)
(* when it comes again, and whether the settings of its feed let it make a *)
(* notification.  An item is                                               *)
(*   guid   the id its feed gives it, or NULL                              *)
(*   url    [page, fragment], or NULL                                      *)
(*   body   its title, author, summary, text, HTML and date                *)
(*   raw    the hash the parser made of it                                 *)
(*   words  those of its title, summary, text and HTML, in lower case      *)
(* and settings are                                                        *)
(*   enabled, digest, priority                                             *)
(*   quiet    [enabled, start, end], in minutes of the local day           *)
(*   interval the least time between notifications                         *)
(*   include, exclude  keywords, in lower case                             *)
(***************************************************************************)
EXTENDS Integers

CONSTANT NULL

\* One string: the URL without its fragment, else the id, else the hash, of which only
\* the latter two say what they are.
CanonicalIdentityKey(item) ==
    IF item.url # NULL THEN <<"url", item.url.page>>
    ELSE IF item.guid # NULL THEN <<"external", item.guid>>
    ELSE <<"raw", item.raw>>

ContentFingerprint(item) == <<item.body, item.raw>>

Signature(item) == <<CanonicalIdentityKey(item), ContentFingerprint(item)>>

-----------------------------------------------------------------------------
\* Quiet hours may go past midnight, and those that end when they start never end.
QuietHoursActive(quiet, minute) ==
    /\ quiet.enabled
    /\ \/ quiet.start = quiet.end
       \/ quiet.start < quiet.end /\ quiet.start <= minute /\ minute < quiet.end
       \/ quiet.start > quiet.end /\ (quiet.start <= minute \/ minute < quiet.end)

MatchesKeywords(s, item) == s.include = {} \/ s.include \cap item.words # {}

IsExcluded(s, item) == s.exclude \cap item.words # {}

TooSoon(s, elapsed) == elapsed # NULL /\ elapsed < s.interval /\ ~s.priority

\* The reason to suppress an item, or NULL, in the order evaluate_candidate asks.
EvaluateCandidate(s, item, minute, isDuplicate, elapsed) ==
    IF ~s.enabled THEN "disabled"
    ELSE IF isDuplicate THEN "duplicate"
    ELSE IF ~MatchesKeywords(s, item) THEN "keyword_include_miss"
    ELSE IF IsExcluded(s, item) THEN "keyword_exclude_hit"
    ELSE IF TooSoon(s, elapsed) THEN "minimum_interval"
    ELSE IF QuietHoursActive(s.quiet, minute) /\ ~s.priority THEN "quiet_hours"
    ELSE NULL

=============================================================================
