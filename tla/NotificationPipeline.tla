------------------------- MODULE NotificationPipeline -------------------------
(***************************************************************************)
(* From a refreshed feed to a notification on the screen.  A refresher     *)
(* runs process_refresh_notifications over the items it parsed: dedup by   *)
(* signature, the feed's policy, an event in the queue.  The macOS shell   *)
(* polls the queue, shows what is pending and acknowledges it.  Every call *)
(* of storage is a step of its own: none of this runs in a transaction.    *)
(***************************************************************************)
EXTENDS NotificationPolicy, Sequences, FiniteSets

CONSTANTS
    Feeds,
    Items,        \* what feeds carry
    Policies,     \* the settings a feed may have
    Minutes,      \* of the day
    Refreshers,
    Pollers,      \* the syncPendingNotifications that may run at a time
    ListLimit,    \* limit of listPendingNotificationEvents
    LongInterval, \* the longest interval of a policy, in units of time
    MaxEvents,    \* bound: how many events are queued
    MaxCrashes,   \* bound: how often the program is killed
    MaxChanges    \* bound: how often users change settings

\* What an item is recognised by: canonical key and content fingerprint.
Contents == {Signature(i) : i \in Items}

Reasons == {"disabled", "duplicate", "keyword_include_miss", "keyword_exclude_hit",
            "minimum_interval", "quiet_hours"}

Ages == 0 .. LongInterval

ASSUME PipelineAssumptions ==
    /\ NULL \notin Feeds \cup Reasons \cup Nat
    /\ \A s \in Policies :
          s.interval \in 0 .. LongInterval /\ {s.quiet.start, s.quiet.end} \subseteq Nat
    /\ ListLimit \in Nat \ {0}
    /\ LongInterval \in Nat /\ Minutes \subseteq Nat
    /\ MaxEvents \in Nat /\ MaxCrashes \in Nat /\ MaxChanges \in Nat

VARIABLES
    settings,    \* effective notification settings of each feed
    minute,      \* of the local day
    owner,       \* notification_signatures: the feed that had the content first
    sinceNotified, \* and the time since their last_notification_at
    events,      \* notification_events that were sent or queued as digests
    suppressed,  \* the suppressed ones, as content and reason
    pc, feed, todo, item, duplicate, policy, last, drafts,  \* of each refresher
    poll, toShow, listed, asked,   \* of each poller; permission was asked for
    crashes, changes,
    shown,       \* history: the events that were put on the screen
    sinceSent    \* history: time since an event was queued for a feed

refreshVars == <<pc, feed, todo, item, duplicate, policy, last, drafts>>
pollVars == <<poll, toShow, listed, asked, shown>>
storeVars == <<owner, sinceNotified, events, suppressed>>
vars == <<settings, minute, storeVars, refreshVars, pollVars, crashes, changes, sinceSent>>

TypeOK ==
    /\ settings \in [Feeds -> Policies]
    /\ minute \in Minutes
    /\ owner \in [Contents -> Feeds \cup {NULL}]
    /\ sinceNotified \in [Contents -> Ages \cup {NULL}]
    /\ events \in Seq([feed : Feeds, contents : SUBSET Contents, delivered : BOOLEAN])
    /\ suppressed \subseteq Contents \X Reasons
    /\ pc \in [Refreshers -> {"idle", "next", "sign", "decide", "touch", "touchDigest"}]
    /\ \A w \in Refreshers : pc[w] # "idle" => feed[w] \in Feeds /\ policy[w] \in Policies
    /\ todo \in [Refreshers -> SUBSET Items]
    /\ drafts \in [Refreshers -> SUBSET Contents]
    /\ \A w \in Refreshers : pc[w] \in {"sign", "decide", "touch"} => item[w] \in Items
    /\ duplicate \in [Refreshers -> BOOLEAN]
    /\ last \in [Refreshers -> Ages \cup {NULL}]
    /\ poll \in [Pollers -> {"idle", "list", "show", "ack"}]
    /\ toShow \in [Pollers -> SUBSET DOMAIN events]
    /\ listed \in [Pollers -> SUBSET DOMAIN events]
    /\ asked \in BOOLEAN
    /\ crashes \in 0 .. MaxCrashes /\ changes \in 0 .. MaxChanges
    /\ shown \subseteq DOMAIN events
    /\ sinceSent \in [Feeds -> Ages \cup {NULL}]

Init ==
    /\ settings \in [Feeds -> Policies]
    /\ minute \in Minutes
    /\ owner = [c \in Contents |-> NULL]
    /\ sinceNotified = [c \in Contents |-> NULL]
    /\ events = <<>>
    /\ suppressed = {}
    /\ pc = [w \in Refreshers |-> "idle"]
    /\ feed = [w \in Refreshers |-> NULL]
    /\ todo = [w \in Refreshers |-> {}]
    /\ item = [w \in Refreshers |-> NULL]
    /\ duplicate = [w \in Refreshers |-> FALSE]
    /\ policy = [w \in Refreshers |-> NULL]
    /\ last = [w \in Refreshers |-> NULL]
    /\ drafts = [w \in Refreshers |-> {}]
    /\ poll = [p \in Pollers |-> "idle"]
    /\ toShow = [p \in Pollers |-> {}]
    /\ listed = [p \in Pollers |-> {}]
    /\ asked = FALSE
    /\ crashes = 0
    /\ changes = 0
    /\ shown = {}
    /\ sinceSent = [f \in Feeds |-> NULL]

-----------------------------------------------------------------------------
Signed(c) == owner[c] # NULL

\* get_latest_notification_at_for_feed, as the time since then.
LatestNotification(f) ==
    LET ages == {sinceNotified[c] : c \in {d \in Contents : owner[d] = f}} \ {NULL}
    IN  IF ages = {} THEN NULL ELSE CHOOSE a \in ages : \A b \in ages : a <= b

-----------------------------------------------------------------------------
Goto(w, step) == pc' = [pc EXCEPT ![w] = step]

\* A refresh of f parsed the items in S; settings and the time
\* of the last notification are read once.
StartRefresh(w, f, S) ==
    /\ pc[w] = "idle"
    /\ Len(events) < MaxEvents
    /\ feed' = [feed EXCEPT ![w] = f]
    /\ todo' = [todo EXCEPT ![w] = S]
    /\ policy' = [policy EXCEPT ![w] = settings[f]]
    /\ last' = [last EXCEPT ![w] = LatestNotification(f)]
    /\ Goto(w, "next")
    /\ UNCHANGED <<settings, minute, storeVars, item, duplicate, drafts, pollVars, crashes, changes, sinceSent>>

\* Mutants of CheckSignature: the item of the round before is kept; a signature
\* counts only for its feed; it counts once last_notification_at is set.
CheckSignatureKeepsItem(w) ==
    /\ pc[w] = "next"
    /\ \E i \in todo[w] :
          /\ todo' = [todo EXCEPT ![w] = @ \ {i}]
          /\ duplicate' = [duplicate EXCEPT ![w] = Signed(Signature(i))]
    /\ Goto(w, "sign")
    /\ UNCHANGED <<settings, minute, storeVars, feed, item, policy, last, drafts, pollVars, crashes, changes, sinceSent>>

CheckSignatureOfFeed(w) ==
    /\ pc[w] = "next"
    /\ \E i \in todo[w] :
          /\ item' = [item EXCEPT ![w] = i]
          /\ todo' = [todo EXCEPT ![w] = @ \ {i}]
          /\ duplicate' = [duplicate EXCEPT ![w] = owner[Signature(i)] = feed[w]]
    /\ Goto(w, "sign")
    /\ UNCHANGED <<settings, minute, storeVars, feed, policy, last, drafts, pollVars, crashes, changes, sinceSent>>

CheckNotified(w) ==
    /\ pc[w] = "next"
    /\ \E i \in todo[w] :
          /\ item' = [item EXCEPT ![w] = i]
          /\ todo' = [todo EXCEPT ![w] = @ \ {i}]
          /\ duplicate' = [duplicate EXCEPT ![w] = sinceNotified[Signature(i)] # NULL]
    /\ Goto(w, "sign")
    /\ UNCHANGED <<settings, minute, storeVars, feed, policy, last, drafts, pollVars, crashes, changes, sinceSent>>

\* The next item: has its signature been seen?
CheckSignature(w) ==
    /\ pc[w] = "next"
    /\ \E i \in todo[w] :
          /\ item' = [item EXCEPT ![w] = i]
          /\ todo' = [todo EXCEPT ![w] = @ \ {i}]
          /\ duplicate' = [duplicate EXCEPT ![w] = Signed(Signature(i))]
    /\ Goto(w, "sign")
    /\ UNCHANGED <<settings, minute, storeVars, feed, policy, last, drafts, pollVars, crashes, changes, sinceSent>>

Identity(w) == Signature(item[w])

\* INSERT OR IGNORE; whether it inserted is not looked at.
RecordSignature(w) ==
    /\ pc[w] = "sign"
    /\ owner' = [owner EXCEPT ![Identity(w)] = IF Signed(Identity(w)) THEN @ ELSE feed[w]]
    /\ Goto(w, "decide")
    /\ UNCHANGED <<settings, minute, sinceNotified, events, suppressed, feed, todo, item, duplicate, policy, last, drafts, pollVars, crashes, changes, sinceSent>>

QueueEvent(w, contents) ==
    /\ events' = Append(events, [feed |-> feed[w], contents |-> contents, delivered |-> FALSE])
    /\ sinceSent' = [sinceSent EXCEPT ![feed[w]] = 0]

Decision(w) == EvaluateCandidate(policy[w], item[w], minute, duplicate[w], last[w])

\* Mutant: what quiet hours hold back is not persisted.
SuppressQuietly(w) ==
    /\ pc[w] = "decide" /\ Decision(w) # NULL
    /\ suppressed' = IF Decision(w) = "quiet_hours" THEN suppressed
                     ELSE suppressed \cup {<<Identity(w), Decision(w)>>}
    /\ Goto(w, "next")
    /\ UNCHANGED <<settings, minute, owner, sinceNotified, events, feed, todo, item, duplicate, policy, last, drafts, pollVars, crashes, changes, sinceSent>>

Suppress(w) ==
    /\ pc[w] = "decide" /\ Decision(w) # NULL
    /\ suppressed' = suppressed \cup {<<Identity(w), Decision(w)>>}
    /\ Goto(w, "next")
    /\ UNCHANGED <<settings, minute, owner, sinceNotified, events, feed, todo, item, duplicate, policy, last, drafts, pollVars, crashes, changes, sinceSent>>

Send(w) ==
    /\ pc[w] = "decide" /\ Decision(w) = NULL /\ ~policy[w].digest
    /\ QueueEvent(w, {Identity(w)})
    /\ Goto(w, "touch")
    /\ UNCHANGED <<settings, minute, owner, sinceNotified, suppressed, feed, todo, item, duplicate, policy, last, drafts, pollVars, crashes, changes>>

\* Mutant: the interval is counted from the notifications of earlier batches.
TouchSignatureOnly(w) ==
    /\ pc[w] = "touch"
    /\ sinceNotified' = [sinceNotified EXCEPT ![Identity(w)] = 0]
    /\ Goto(w, "next")
    /\ UNCHANGED <<settings, minute, owner, events, suppressed, feed, todo, item, duplicate, policy, last, drafts, pollVars, crashes, changes, sinceSent>>

\* The interval is counted from this notification for the rest of the batch too.
TouchSignature(w) ==
    /\ pc[w] = "touch"
    /\ sinceNotified' = [sinceNotified EXCEPT ![Identity(w)] = 0]
    /\ last' = [last EXCEPT ![w] = 0]
    /\ Goto(w, "next")
    /\ UNCHANGED <<settings, minute, owner, events, suppressed, feed, todo, item, duplicate, policy, drafts, pollVars, crashes, changes, sinceSent>>

DraftForDigest(w) ==
    /\ pc[w] = "decide" /\ Decision(w) = NULL /\ policy[w].digest
    /\ drafts' = [drafts EXCEPT ![w] = @ \cup {Identity(w)}]
    /\ Goto(w, "next")
    /\ UNCHANGED <<settings, minute, storeVars, feed, todo, item, duplicate, policy, last, pollVars, crashes, changes, sinceSent>>

\* After the last item the drafts become one digest and one event.
QueueDigest(w) ==
    /\ pc[w] = "next" /\ todo[w] = {} /\ drafts[w] # {}
    /\ QueueEvent(w, drafts[w])
    /\ Goto(w, "touchDigest")
    /\ UNCHANGED <<settings, minute, owner, sinceNotified, suppressed, feed, todo, item, duplicate, policy, last, drafts, pollVars, crashes, changes>>

Forget(w) ==
    /\ pc' = [pc EXCEPT ![w] = "idle"]
    /\ feed' = [feed EXCEPT ![w] = NULL]
    /\ todo' = [todo EXCEPT ![w] = {}]
    /\ item' = [item EXCEPT ![w] = NULL]
    /\ duplicate' = [duplicate EXCEPT ![w] = FALSE]
    /\ policy' = [policy EXCEPT ![w] = NULL]
    /\ last' = [last EXCEPT ![w] = NULL]
    /\ drafts' = [drafts EXCEPT ![w] = {}]

TouchDigest(w) ==
    /\ pc[w] = "touchDigest"
    /\ sinceNotified' = [c \in Contents |-> IF c \in drafts[w] THEN 0 ELSE sinceNotified[c]]
    /\ Forget(w)
    /\ UNCHANGED <<settings, minute, owner, events, suppressed, pollVars, crashes, changes, sinceSent>>

EndRefresh(w) ==
    /\ pc[w] = "next" /\ todo[w] = {} /\ drafts[w] = {}
    /\ Forget(w)
    /\ UNCHANGED <<settings, minute, storeVars, pollVars, crashes, changes, sinceSent>>

-----------------------------------------------------------------------------
(***************************************************************************)
(* The shell.                                                              *)
(***************************************************************************)
\* Permission is asked for once; the poll that asks ends there if it is denied.
StartPoll(p) ==
    /\ poll[p] = "idle"
    /\ asked' = TRUE
    /\ poll' = [poll EXCEPT ![p] = "list"] \/ (~asked /\ UNCHANGED poll)
    /\ UNCHANGED <<settings, minute, storeVars, refreshVars, toShow, listed, shown, crashes, changes, sinceSent>>

PendingIds == {i \in DOMAIN events : ~events[i].delivered}

\* The oldest pending events.
ListPending(p) ==
    /\ poll[p] = "list"
    /\ LET oldest == {i \in PendingIds : Cardinality({j \in PendingIds : j < i}) < ListLimit}
       IN  /\ toShow' = [toShow EXCEPT ![p] = oldest]
           /\ listed' = [listed EXCEPT ![p] = oldest]
           /\ poll' = [poll EXCEPT ![p] = IF oldest = {} THEN "idle" ELSE "show"]
    /\ UNCHANGED <<settings, minute, storeVars, refreshVars, asked, shown, crashes, changes, sinceSent>>

\* The events listed are shown one after the other, the oldest first.
Deliver(p, i) ==
    /\ poll[p] = "show"
    /\ i \in toShow[p] /\ \A j \in toShow[p] : i <= j
    /\ shown' = shown \cup {i}
    /\ toShow' = [toShow EXCEPT ![p] = @ \ {i}]
    /\ poll' = [poll EXCEPT ![p] = IF toShow[p] = {i} THEN "ack" ELSE "show"]
    /\ UNCHANGED <<settings, minute, storeVars, refreshVars, listed, asked, crashes, changes, sinceSent>>

EndPoll(p) ==
    /\ toShow' = [toShow EXCEPT ![p] = {}]
    /\ listed' = [listed EXCEPT ![p] = {}]
    /\ poll' = [poll EXCEPT ![p] = "idle"]

\* The notification centre refuses one: the poll ends and acknowledges nothing.
DeliverFails(p) ==
    /\ poll[p] = "show"
    /\ EndPoll(p)
    /\ UNCHANGED <<settings, minute, storeVars, refreshVars, asked, shown, crashes, changes, sinceSent>>

\* Mutant: everything pending is acknowledged.
AcknowledgePending(p) ==
    /\ poll[p] = "ack"
    /\ events' = [i \in DOMAIN events |-> [events[i] EXCEPT !.delivered = TRUE]]
    /\ EndPoll(p)
    /\ UNCHANGED <<settings, minute, owner, sinceNotified, suppressed, refreshVars, asked, shown, crashes, changes, sinceSent>>

AcknowledgeEvents(p) ==
    /\ poll[p] = "ack"
    /\ events' = [i \in DOMAIN events |->
          [events[i] EXCEPT !.delivered = @ \/ i \in listed[p]]]
    /\ EndPoll(p)
    /\ UNCHANGED <<settings, minute, owner, sinceNotified, suppressed, refreshVars, asked, shown, crashes, changes, sinceSent>>

-----------------------------------------------------------------------------
Older(age) == IF age = NULL \/ age = LongInterval THEN age ELSE age + 1

\* A minute passes, in which no refresh is under way (a batch takes less).
Tick ==
    /\ \A w \in Refreshers : pc[w] = "idle"
    /\ minute' \in Minutes
    /\ sinceNotified' = [c \in Contents |-> Older(sinceNotified[c])]
    /\ sinceSent' = [f \in Feeds |-> Older(sinceSent[f])]
    /\ UNCHANGED <<settings, owner, events, suppressed, refreshVars, pollVars, crashes, changes>>

ChangeSettings(f, s) ==
    /\ changes < MaxChanges
    /\ changes' = changes + 1
    /\ settings' = [settings EXCEPT ![f] = s]
    /\ UNCHANGED <<minute, storeVars, refreshVars, pollVars, crashes, sinceSent>>

\* Refreshers and shell live in one process.
Crash ==
    /\ crashes < MaxCrashes
    /\ crashes' = crashes + 1
    /\ pc' = [w \in Refreshers |-> "idle"]
    /\ feed' = [w \in Refreshers |-> NULL]
    /\ todo' = [w \in Refreshers |-> {}]
    /\ item' = [w \in Refreshers |-> NULL]
    /\ duplicate' = [w \in Refreshers |-> FALSE]
    /\ policy' = [w \in Refreshers |-> NULL]
    /\ last' = [w \in Refreshers |-> NULL]
    /\ drafts' = [w \in Refreshers |-> {}]
    /\ poll' = [p \in Pollers |-> "idle"]
    /\ toShow' = [p \in Pollers |-> {}]
    /\ listed' = [p \in Pollers |-> {}]
    /\ asked' = FALSE
    /\ UNCHANGED <<settings, minute, storeVars, shown, changes, sinceSent>>

RefreshStep(w) ==
    \/ \E f \in Feeds, S \in SUBSET Items \ {{}} : StartRefresh(w, f, S)
    \/ CheckSignature(w) \/ RecordSignature(w) \/ Suppress(w) \/ Send(w) \/ TouchSignature(w)
    \/ DraftForDigest(w) \/ QueueDigest(w) \/ TouchDigest(w) \/ EndRefresh(w)

PollStep(p) == StartPoll(p) \/ ListPending(p) \/ AcknowledgeEvents(p)

Next ==
    \/ \E w \in Refreshers : RefreshStep(w)
    \/ \E p \in Pollers : PollStep(p) \/ DeliverFails(p) \/ \E i \in DOMAIN events : Deliver(p, i)
    \/ \E f \in Feeds, s \in Policies : ChangeSettings(f, s)
    \/ Tick
    \/ Crash

Spec == Init /\ [][Next]_vars

\* The shell polls for ever, and the notification centre refuses no event for ever.
FairSpec ==
    /\ Spec
    /\ \A p \in Pollers :
          /\ WF_vars(PollStep(p))
          /\ \A i \in 1 .. MaxEvents : SF_vars(Deliver(p, i))

-----------------------------------------------------------------------------
(***************************************************************************)
(* Properties                                                              *)
(***************************************************************************)
\* The same content never makes two notifications, in whichever feeds, batches and
\* modes it turns up again, and across restarts.
NotifiedAtMostOnce ==
    \A i, j \in DOMAIN events : i # j => events[i].contents \cap events[j].contents = {}

\* Two notifications of a feed are the minimum interval apart, unless the feed has
\* priority: within a batch, from one batch to the next, and with digests.
IntervalIsKept ==
    [][\A w \in Refreshers :
          (Send(w) \/ QueueDigest(w)) /\ ~policy[w].priority =>
              \/ sinceSent[feed[w]] = NULL
              \/ sinceSent[feed[w]] >= policy[w].interval]_vars

Decided(c) ==
    \/ \E i \in DOMAIN events : c \in events[i].contents
    \/ \E r \in Reasons \ {"duplicate"} : <<c, r>> \in suppressed
    \/ \E w \in Refreshers : c \in drafts[w]

\* Content suppressed as a duplicate was decided on before: it was queued, or
\* suppressed for another reason.  Otherwise it is lost without a trace.
DuplicatesWereDecided ==
    \A c \in Contents : <<c, "duplicate">> \in suppressed => Decided(c)

\* The events, as the queue of NotificationQueue.
QueueState ==
    [i \in 1 .. MaxEvents |->
        IF i \notin DOMAIN events THEN "none"
        ELSE IF events[i].delivered THEN "delivered"
        ELSE IF i \in shown THEN "shown" ELSE "pending"]

Queue == INSTANCE NotificationQueue WITH Ids <- 1 .. MaxEvents, state <- QueueState

\* Polling implements the queue: what is acknowledged was shown, nothing queued is
\* dropped, and every event is delivered in the end, through refusals, denied
\* permission, polls that overlap and restarts.
ImplementsQueue == Queue!Spec

=============================================================================
