---------------------------- MODULE MCNotification ----------------------------
(***************************************************************************)
(* Instances of NotificationPipeline that TLC checks.                      *)
(***************************************************************************)
EXTENDS NotificationPipeline, TLC

Page(fragment) == [page |-> "page", fragment |-> fragment]

Story == [guid |-> NULL, url |-> Page(""), body |-> "story", raw |-> 1, words |-> {"rust"}]

\* The story as two feeds carry it, and an item without a URL.
TheItems ==
    {Story, [Story EXCEPT !.guid = "another"],
     [guid |-> "second", url |-> NULL, body |-> "sequel", raw |-> 2, words |-> {"spoiler"}]}

TwoItems == {i \in TheItems : i.guid # "another"}

Never == [enabled |-> FALSE, start |-> 0, end |-> 0]
Plain == [enabled |-> TRUE, digest |-> FALSE, priority |-> FALSE, quiet |-> Never,
          interval |-> 1, include |-> {}, exclude |-> {}]

\* Off; loud through quiet hours past midnight; quiet; digests with keywords.
ThePolicies ==
    {[Plain EXCEPT !.enabled = FALSE],
     [Plain EXCEPT !.priority = TRUE, !.quiet = [enabled |-> TRUE, start |-> 2, end |-> 1]],
     [Plain EXCEPT !.quiet = [enabled |-> TRUE, start |-> 1, end |-> 2]],
     [Plain EXCEPT !.digest = TRUE, !.include = {"rust", "spoiler"}, !.exclude = {"spoiler"}]}

\* Nothing tells one feed from another.
FeedsAreAlike == Permutations(Feeds)

Loud == {[Plain EXCEPT !.priority = TRUE]}

=============================================================================
