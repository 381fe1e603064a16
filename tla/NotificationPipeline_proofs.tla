----------------------- MODULE NotificationPipeline_proofs -----------------------
(***************************************************************************)
(* What the policy of notifications decides, for all settings and items,   *)
(* and what becomes of its decisions: no content is notified twice or      *)
(* dropped without a trace, the interval is kept, and the shell implements *)
(* the queue, for any feeds, items, policies, polls and number of events.  *)
(***************************************************************************)
EXTENDS NotificationPipeline, SequenceTheorems, WellFoundedInduction, TLAPS

(***************************************************************************)
(* The policy.                                                             *)
(***************************************************************************)
Minute == 0 .. 1439

\* How many minutes after another a minute of the day comes round.
Since(start, m) == IF start <= m THEN m - start ELSE 1440 + m - start

\* The minutes that quiet hours from start to end hold, when they are enabled.
Within(start, end, m) ==
    \/ start = end
    \/ start < end /\ start <= m /\ m < end
    \/ start > end /\ (start <= m \/ m < end)

LEMMA ActiveIsWithin ==
    ASSUME NEW quiet, quiet.enabled, NEW m
    PROVE  QuietHoursActive(quiet, m) <=> Within(quiet.start, quiet.end, m)
  BY Zenon DEF QuietHoursActive, Within

LEMMA WithinWraps ==
    ASSUME NEW start \in Minute, NEW end \in Minute, start # end, NEW m \in Minute
    PROVE  Within(start, end, m) <=> Since(start, m) < Since(start, end)
<1>1. start \in Int /\ end \in Int /\ m \in Int
      /\ 0 <= start /\ start < 1440 /\ 0 <= end /\ end < 1440 /\ 0 <= m /\ m < 1440
  BY DEF Minute
<1>2. CASE start < end
  BY <1>1, <1>2 DEF Within, Since
<1>3. CASE end < start
  BY <1>1, <1>3 DEF Within, Since
<1> QED
  BY <1>1, <1>2, <1>3

LEMMA WithinSplits ==
    ASSUME NEW start \in Minute, NEW end \in Minute, start # end, NEW m \in Minute
    PROVE  Within(start, end, m) <=> ~Within(end, start, m)
<1>1. start \in Int /\ end \in Int /\ m \in Int
  BY DEF Minute
<1>2. CASE start < end
  BY <1>1, <1>2 DEF Within
<1>3. CASE end < start
  BY <1>1, <1>3 DEF Within
<1> QED
  BY <1>1, <1>2, <1>3

\* Quiet hours are the minutes from start up to end, over midnight where they go there:
\* quiet_hours_active splits on start < end, and has no gap or overlap at midnight.
THEOREM QuietHoursWrap ==
    ASSUME NEW quiet, quiet.enabled, quiet.start \in Minute, quiet.end \in Minute,
           quiet.start # quiet.end, NEW m \in Minute
    PROVE  QuietHoursActive(quiet, m)
              <=> Since(quiet.start, m) < Since(quiet.start, quiet.end)
<1>1. Within(quiet.start, quiet.end, m)
         <=> Since(quiet.start, m) < Since(quiet.start, quiet.end)
  BY WithinWraps
<1> QED
  BY <1>1, ActiveIsWithin, Zenon

\* Two settings with start and end exchanged split the day: each minute is quiet in one
\* of them and loud in the other.
THEOREM QuietHoursSplitTheDay ==
    ASSUME NEW quiet, NEW other, quiet.enabled, other.enabled,
           quiet.start \in Minute, quiet.end \in Minute, quiet.start # quiet.end,
           other.start = quiet.end, other.end = quiet.start, NEW m \in Minute
    PROVE  QuietHoursActive(quiet, m) <=> ~QuietHoursActive(other, m)
<1>1. Within(quiet.start, quiet.end, m) <=> ~Within(quiet.end, quiet.start, m)
  BY WithinSplits
<1>2. QuietHoursActive(quiet, m) <=> Within(quiet.start, quiet.end, m)
  BY ActiveIsWithin, Zenon
<1>3. QuietHoursActive(other, m) <=> Within(quiet.end, quiet.start, m)
  BY ActiveIsWithin, Zenon
<1> QED
  BY <1>1, <1>2, <1>3, Zenon

\* Priority lifts the interval and quiet hours and nothing else: what evaluate_candidate
\* suppresses for an ordinary feed and sends for a priority feed was too soon or quiet.
THEOREM PriorityLiftsTwoReasons ==
    ASSUME NEW s, NEW t, NEW i, NEW m, NEW dup \in BOOLEAN, NEW elapsed,
           t.priority, t.enabled = s.enabled, t.include = s.include,
           t.exclude = s.exclude,
           "minimum_interval" # NULL, "quiet_hours" # NULL,
           EvaluateCandidate(t, i, m, dup, elapsed) = NULL
    PROVE  EvaluateCandidate(s, i, m, dup, elapsed)
              \in {NULL, "minimum_interval", "quiet_hours"}
  BY DEF EvaluateCandidate, TooSoon, MatchesKeywords, IsExcluded

(***************************************************************************)
(* Types.                                                                  *)
(***************************************************************************)
QueuedEvent == [feed : Feeds, contents : SUBSET Contents, delivered : BOOLEAN]

TypeInv ==
    /\ TypeOK
    /\ feed \in [Refreshers -> Feeds \cup {NULL}]
    /\ item \in [Refreshers -> Items \cup {NULL}]
    /\ policy \in [Refreshers -> Policies \cup {NULL}]

LEMMA LeastExists ==
    ASSUME NEW S \in SUBSET Nat, S # {}
    PROVE  \E a \in S : \A b \in S : a <= b
<1> DEFINE R == OpToRel(<, Nat)
<1>1. IsWellFoundedOn(R, Nat)
  BY NatLessThanWellFounded
<1>2. PICK a \in S : \A b \in S : ~(<<b, a>> \in R)
  <2> HIDE DEF R
  <2> QED
    BY <1>1, WFMin
<1>3. \A b \in S : ~(b < a)
  BY <1>2 DEF OpToRel
<1> QED
  BY <1>3

\* get_latest_notification_at_for_feed is the latest of all contents that the feed owns.
LEMMA LatestIsLatest ==
    ASSUME TypeInv, NEW f \in Feeds
    PROVE  /\ LatestNotification(f) \in Ages \cup {NULL}
           /\ \A c \in Contents :
                 owner[c] = f /\ sinceNotified[c] # NULL =>
                    LatestNotification(f) # NULL /\ LatestNotification(f) <= sinceNotified[c]
<1> DEFINE ages == {sinceNotified[c] : c \in {d \in Contents : owner[d] = f}} \ {NULL}
<1>1. ages \subseteq Ages /\ ages \in SUBSET Nat
  BY PipelineAssumptions DEF TypeInv, TypeOK, Ages
<1>2. \A c \in Contents : owner[c] = f /\ sinceNotified[c] # NULL => sinceNotified[c] \in ages
  OBVIOUS
<1>3. LatestNotification(f) =
         IF ages = {} THEN NULL ELSE CHOOSE a \in ages : \A b \in ages : a <= b
  BY DEF LatestNotification
<1> HIDE DEF ages
<1>4. CASE ages = {}
  BY <1>2, <1>3, <1>4
<1>5. CASE ages # {}
  <2>1. \E a \in ages : \A b \in ages : a <= b
    BY <1>1, <1>5, LeastExists
  <2>2. LatestNotification(f) \in ages /\ \A b \in ages : LatestNotification(f) <= b
    BY <1>3, <1>5, <2>1
  <2> QED
    BY <1>1, <1>2, <2>2, PipelineAssumptions
<1> QED
  BY <1>4, <1>5

\* What an item is suppressed for is one of the reasons, and nothing that is a duplicate
\* or too soon is sent.
LEMMA DecisionType ==
    ASSUME NEW w \in Refreshers
    PROVE  /\ Decision(w) \in Reasons \cup {NULL}
           /\ Decision(w) = NULL => ~duplicate[w] /\ ~TooSoon(policy[w], last[w])
           /\ Decision(w) = "duplicate" => duplicate[w]
  BY PipelineAssumptions DEF Decision, EvaluateCandidate, Reasons

LEMMA IdentityType ==
    ASSUME TypeInv, NEW w \in Refreshers, pc[w] \in {"sign", "decide", "touch"}
    PROVE  Identity(w) \in Contents
  BY DEF TypeInv, TypeOK, Identity, Contents

LEMMA EventsType ==
    ASSUME TypeInv
    PROVE  /\ events \in Seq(QueuedEvent) /\ Len(events) \in Nat /\ DOMAIN events = 1 .. Len(events)
           /\ \A i \in DOMAIN events : events[i] \in QueuedEvent
<1>1. events \in Seq(QueuedEvent)
  BY DEF TypeInv, TypeOK, QueuedEvent
<1> QED
  BY <1>1, LenProperties, ElementOfSeq

\* A queue takes one event more, and only its flags are acknowledged.
LEMMA QueueType ==
    ASSUME TypeInv, NEW w \in Refreshers, pc[w] # "idle", NEW contents \in SUBSET Contents,
           QueueEvent(w, contents)
    PROVE  /\ events' \in Seq(QueuedEvent)
           /\ DOMAIN events' = DOMAIN events \cup {Len(events) + 1}
           /\ Len(events) + 1 \notin DOMAIN events
           /\ \A i \in DOMAIN events : events'[i] = events[i]
           /\ events'[Len(events) + 1] =
                 [feed |-> feed[w], contents |-> contents, delivered |-> FALSE]
           /\ sinceSent' \in [Feeds -> Ages \cup {NULL}]
<1> DEFINE new == [feed |-> feed[w], contents |-> contents, delivered |-> FALSE]
<1>1. feed[w] \in Feeds /\ new \in QueuedEvent
  BY DEF TypeInv, TypeOK, QueuedEvent
<1>2. events \in Seq(QueuedEvent) /\ events' = Append(events, new)
  BY DEF TypeInv, TypeOK, QueuedEvent, QueueEvent
<1>3. sinceSent' \in [Feeds -> Ages \cup {NULL}]
  BY <1>1, PipelineAssumptions DEF QueueEvent, TypeInv, TypeOK, Ages
<1> HIDE DEF new
<1>4. /\ events' \in Seq(QueuedEvent)
      /\ Len(events') = Len(events) + 1
      /\ \A i \in 1 .. Len(events) : events'[i] = events[i]
      /\ events'[Len(events) + 1] = new
  BY <1>1, <1>2, AppendProperties
<1>5. DOMAIN events = 1 .. Len(events) /\ DOMAIN events' = 1 .. Len(events')
      /\ Len(events) \in Nat
  BY <1>2, <1>4, LenProperties
<1> QED
  BY <1>3, <1>4, <1>5 DEF new

LEMMA AcknowledgeType ==
    ASSUME TypeInv, NEW p \in Pollers, AcknowledgeEvents(p)
    PROVE  /\ events' \in Seq(QueuedEvent)
           /\ DOMAIN events' = DOMAIN events
           /\ \A i \in DOMAIN events :
                 /\ events'[i].contents = events[i].contents
                 /\ events'[i].delivered = (events[i].delivered \/ i \in listed[p])
<1>1. events' = [i \in DOMAIN events |-> [events[i] EXCEPT !.delivered = @ \/ i \in listed[p]]]
  BY DEF AcknowledgeEvents
<1>3. Len(events) \in Nat /\ DOMAIN events = 1 .. Len(events)
      /\ \A i \in DOMAIN events : events[i] \in QueuedEvent
  BY EventsType
<1>4. \A i \in DOMAIN events :
         [events[i] EXCEPT !.delivered = @ \/ i \in listed[p]] \in QueuedEvent
  BY <1>3 DEF QueuedEvent
<1>5. events' \in [1 .. Len(events) -> QueuedEvent]
  BY <1>1, <1>3, <1>4
<1>6. events' \in Seq(QueuedEvent)
  BY <1>3, <1>5, SeqDef
<1>7. \A i \in DOMAIN events :
         /\ events'[i].contents = events[i].contents
         /\ events'[i].delivered = (events[i].delivered \/ i \in listed[p])
  BY <1>1, <1>3 DEF QueuedEvent
<1> QED
  BY <1>1, <1>6, <1>7

LEMMA InitTypeInv == Init => TypeInv
<1> SUFFICES ASSUME Init
             PROVE  TypeInv
  OBVIOUS
<1>1. events \in Seq([feed : Feeds, contents : SUBSET Contents, delivered : BOOLEAN])
  BY EmptySeq DEF Init
<1>2. crashes \in 0 .. MaxCrashes /\ changes \in 0 .. MaxChanges
  BY PipelineAssumptions DEF Init
<1> QED
  BY <1>1, <1>2 DEF Init, TypeInv, TypeOK

LEMMA ForgetType ==
    ASSUME TypeInv, NEW w \in Refreshers, Forget(w)
    PROVE  /\ pc' = [pc EXCEPT ![w] = "idle"]
           /\ pc' \in [Refreshers -> {"idle", "next", "sign", "decide", "touch", "touchDigest"}]
           /\ feed' \in [Refreshers -> Feeds \cup {NULL}]
           /\ item' \in [Refreshers -> Items \cup {NULL}]
           /\ policy' \in [Refreshers -> Policies \cup {NULL}]
           /\ todo' \in [Refreshers -> SUBSET Items]
           /\ drafts' \in [Refreshers -> SUBSET Contents]
           /\ duplicate' \in [Refreshers -> BOOLEAN]
           /\ last' \in [Refreshers -> Ages \cup {NULL}]
           /\ \A v \in Refreshers : pc'[v] # "idle" => feed'[v] \in Feeds /\ policy'[v] \in Policies
           /\ \A v \in Refreshers : pc'[v] \in {"sign", "decide", "touch"} => item'[v] \in Items
<1>1. /\ pc' \in [Refreshers -> {"idle", "next", "sign", "decide", "touch", "touchDigest"}]
      /\ feed' \in [Refreshers -> Feeds \cup {NULL}]
      /\ item' \in [Refreshers -> Items \cup {NULL}]
      /\ policy' \in [Refreshers -> Policies \cup {NULL}]
  BY DEF Forget, TypeInv, TypeOK
<1>2. /\ todo' \in [Refreshers -> SUBSET Items]
      /\ drafts' \in [Refreshers -> SUBSET Contents]
      /\ duplicate' \in [Refreshers -> BOOLEAN]
      /\ last' \in [Refreshers -> Ages \cup {NULL}]
  BY DEF Forget, TypeInv, TypeOK
<1>3. /\ \A v \in Refreshers : pc'[v] # "idle" => feed'[v] \in Feeds /\ policy'[v] \in Policies
      /\ \A v \in Refreshers : pc'[v] \in {"sign", "decide", "touch"} => item'[v] \in Items
  BY DEF Forget, TypeInv, TypeOK
<1> QED
  BY <1>1, <1>2, <1>3 DEF Forget

LEMMA EndPollType ==
    ASSUME TypeInv, NEW p \in Pollers, EndPoll(p)
    PROVE  /\ poll' \in [Pollers -> {"idle", "list", "show", "ack"}]
           /\ toShow' \in [Pollers -> SUBSET DOMAIN events]
           /\ listed' \in [Pollers -> SUBSET DOMAIN events]
  BY DEF EndPoll, TypeInv, TypeOK

LEMMA NextTypeInv == TypeInv /\ [Next]_vars => TypeInv'
<1> SUFFICES ASSUME TypeInv, [Next]_vars
             PROVE  TypeInv'
  OBVIOUS
<1> USE DEF TypeInv, TypeOK
<1>1. ASSUME NEW w \in Refreshers, NEW f \in Feeds, NEW S \in SUBSET Items \ {{}},
             StartRefresh(w, f, S)
      PROVE  TypeInv'
  <2>1. LatestNotification(f) \in Ages \cup {NULL}
    BY LatestIsLatest
  <2> QED
    BY <1>1, <2>1 DEF StartRefresh, Goto, storeVars, pollVars
<1>2. ASSUME NEW w \in Refreshers, CheckSignature(w)
      PROVE  TypeInv'
  <2>1. PICK i \in todo[w] :
           /\ item' = [item EXCEPT ![w] = i]
           /\ todo' = [todo EXCEPT ![w] = @ \ {i}]
           /\ duplicate' = [duplicate EXCEPT ![w] = Signed(Signature(i))]
    BY <1>2 DEF CheckSignature
  <2>2. i \in Items
    BY <2>1
  <2>3. duplicate' \in [Refreshers -> BOOLEAN]
    BY <2>1 DEF Signed
  <2> QED
    BY <1>2, <2>1, <2>2, <2>3 DEF CheckSignature, Goto, storeVars, pollVars
<1>3. ASSUME NEW w \in Refreshers, RecordSignature(w)
      PROVE  TypeInv'
  <2>1. Identity(w) \in Contents /\ feed[w] \in Feeds
    BY <1>3, IdentityType DEF RecordSignature
  <2> QED
    BY <1>3, <2>1 DEF RecordSignature, Goto, pollVars
<1>4. ASSUME NEW w \in Refreshers, Suppress(w)
      PROVE  TypeInv'
  <2>1. Identity(w) \in Contents /\ Decision(w) \in Reasons
    BY <1>4, IdentityType, DecisionType DEF Suppress
  <2> QED
    BY <1>4, <2>1 DEF Suppress, Goto, pollVars
<1>5. ASSUME NEW w \in Refreshers, Send(w)
      PROVE  TypeInv'
  <2>1. Identity(w) \in Contents
    BY <1>5, IdentityType DEF Send
  <2>2. QueueEvent(w, {Identity(w)}) /\ pc[w] = "decide"
    BY <1>5 DEF Send
  <2>3. /\ events' \in Seq(QueuedEvent)
        /\ DOMAIN events \subseteq DOMAIN events'
        /\ sinceSent' \in [Feeds -> Ages \cup {NULL}]
    BY <2>1, <2>2, QueueType
  <2> QED
    BY <1>5, <2>3 DEF Send, Goto, pollVars, QueuedEvent
<1>6. ASSUME NEW w \in Refreshers, TouchSignature(w)
      PROVE  TypeInv'
  <2>1. Identity(w) \in Contents /\ 0 \in Ages
    BY <1>6, IdentityType, PipelineAssumptions DEF TouchSignature, Ages
  <2> QED
    BY <1>6, <2>1 DEF TouchSignature, Goto, pollVars
<1>7. ASSUME NEW w \in Refreshers, DraftForDigest(w)
      PROVE  TypeInv'
  <2>1. Identity(w) \in Contents
    BY <1>7, IdentityType DEF DraftForDigest
  <2> QED
    BY <1>7, <2>1 DEF DraftForDigest, Goto, storeVars, pollVars
<1>8. ASSUME NEW w \in Refreshers, QueueDigest(w)
      PROVE  TypeInv'
  <2>1. QueueEvent(w, drafts[w]) /\ pc[w] = "next" /\ drafts[w] \in SUBSET Contents
    BY <1>8 DEF QueueDigest
  <2>2. /\ events' \in Seq(QueuedEvent)
        /\ DOMAIN events \subseteq DOMAIN events'
        /\ sinceSent' \in [Feeds -> Ages \cup {NULL}]
    BY <2>1, QueueType
  <2> QED
    BY <1>8, <2>2 DEF QueueDigest, Goto, pollVars, QueuedEvent
<1>9. ASSUME NEW w \in Refreshers, TouchDigest(w)
      PROVE  TypeInv'
  <2>1. sinceNotified' \in [Contents -> Ages \cup {NULL}]
    BY <1>9, PipelineAssumptions DEF TouchDigest, Ages
  <2>2. Forget(w)
    BY <1>9 DEF TouchDigest
  <2> QED
    BY <1>9, <2>1, <2>2, ForgetType DEF TouchDigest, pollVars
<1>10. ASSUME NEW w \in Refreshers, EndRefresh(w)
       PROVE  TypeInv'
  <2>1. Forget(w)
    BY <1>10 DEF EndRefresh
  <2> QED
    BY <1>10, <2>1, ForgetType DEF EndRefresh, storeVars, pollVars
<1>11. ASSUME NEW p \in Pollers, StartPoll(p)
       PROVE  TypeInv'
  <2>1. poll' \in [Pollers -> {"idle", "list", "show", "ack"}]
    BY <1>11 DEF StartPoll
  <2> QED
    BY <1>11, <2>1 DEF StartPoll, storeVars, refreshVars
<1>12. ASSUME NEW p \in Pollers, ListPending(p)
       PROVE  TypeInv'
  <2> DEFINE oldest == {i \in PendingIds : Cardinality({j \in PendingIds : j < i}) < ListLimit}
  <2>1. oldest \subseteq DOMAIN events
    BY DEF PendingIds
  <2>2. /\ toShow' = [toShow EXCEPT ![p] = oldest]
        /\ listed' = [listed EXCEPT ![p] = oldest]
        /\ poll' = [poll EXCEPT ![p] = IF oldest = {} THEN "idle" ELSE "show"]
    BY <1>12 DEF ListPending
  <2> HIDE DEF oldest
  <2> QED
    BY <1>12, <2>1, <2>2 DEF ListPending, storeVars, refreshVars
<1>13. ASSUME NEW p \in Pollers, NEW i \in DOMAIN events, Deliver(p, i)
       PROVE  TypeInv'
  BY <1>13 DEF Deliver, storeVars, refreshVars
<1>14. ASSUME NEW p \in Pollers, DeliverFails(p)
       PROVE  TypeInv'
  BY <1>14, EndPollType DEF DeliverFails, storeVars, refreshVars
<1>15. ASSUME NEW p \in Pollers, AcknowledgeEvents(p)
       PROVE  TypeInv'
  <2>1. EndPoll(p)
    BY <1>15 DEF AcknowledgeEvents
  <2> QED
    BY <1>15, <2>1, EndPollType, AcknowledgeType DEF AcknowledgeEvents, refreshVars, QueuedEvent
<1>16. CASE Tick
  <2>1. \A age \in Ages \cup {NULL} : Older(age) \in Ages \cup {NULL}
    BY PipelineAssumptions DEF Older, Ages
  <2>2. /\ sinceNotified' \in [Contents -> Ages \cup {NULL}]
        /\ sinceSent' \in [Feeds -> Ages \cup {NULL}]
    BY <1>16, <2>1 DEF Tick
  <2> QED
    BY <1>16, <2>2 DEF Tick, refreshVars, pollVars
<1>17. ASSUME NEW f \in Feeds, NEW s \in Policies, ChangeSettings(f, s)
       PROVE  TypeInv'
  BY <1>17, PipelineAssumptions DEF ChangeSettings, storeVars, refreshVars, pollVars
<1>18. CASE Crash
  <2>1. crashes' \in 0 .. MaxCrashes
    BY <1>18, PipelineAssumptions DEF Crash
  <2> QED
    BY <1>18, <2>1 DEF Crash, storeVars
<1>19. CASE UNCHANGED vars
  BY <1>19 DEF vars, storeVars, refreshVars, pollVars
<1> QED
  BY <1>1, <1>2, <1>3, <1>4, <1>5, <1>6, <1>7, <1>8, <1>9, <1>10, <1>11, <1>12, <1>13,
     <1>14, <1>15, <1>16, <1>17, <1>18, <1>19 DEF Next, RefreshStep, PollStep

\* Every variable keeps its type: a refresher that is under way has its feed and the
\* policy it read, an item that is decided on is one that was parsed, what is suppressed
\* has a reason, and polls list and show only events that are in the queue.
THEOREM TypeCorrect == Spec => []TypeOK
<1>1. TypeInv => TypeOK
  BY DEF TypeInv
<1> QED
  BY <1>1, InitTypeInv, NextTypeInv, PTL DEF Spec

(***************************************************************************)
(* The queue.                                                              *)
(***************************************************************************)
\* What a poll has listed and no longer holds was shown, and it acknowledges only when
\* nothing is left.
ShownInv ==
    \A p \in Pollers :
        /\ poll[p] \in {"show", "ack"} => listed[p] \ toShow[p] \subseteq shown
        /\ poll[p] = "ack" => toShow[p] = {}

LEMMA NextShownInv == TypeInv /\ ShownInv /\ [Next]_vars => ShownInv'
<1> SUFFICES ASSUME TypeInv, ShownInv, [Next]_vars
             PROVE  ShownInv'
  OBVIOUS
<1> USE DEF ShownInv
<1>t. TypeOK
  BY DEF TypeInv
<1>1. \* what is not a poll
      ASSUME UNCHANGED <<poll, toShow, listed, shown>>
      PROVE  ShownInv'
  BY <1>1
<1>2. ASSUME NEW w \in Refreshers, RefreshStep(w)
      PROVE  ShownInv'
  BY <1>1, <1>2
     DEF RefreshStep, StartRefresh, CheckSignature, RecordSignature, Suppress, Send,
         TouchSignature, DraftForDigest, QueueDigest, TouchDigest, EndRefresh, pollVars
<1>3. ASSUME NEW p \in Pollers, EndPoll(p), shown' = shown
      PROVE  ShownInv'
  BY <1>3, <1>t DEF EndPoll, TypeOK
<1>4. ASSUME NEW p \in Pollers, StartPoll(p)
      PROVE  ShownInv'
  <2>1. CASE poll' = [poll EXCEPT ![p] = "list"]
    BY <1>4, <2>1, <1>t DEF StartPoll, TypeOK
  <2>2. CASE UNCHANGED poll
    BY <1>1, <1>4, <2>2 DEF StartPoll
  <2> QED
    BY <1>4, <2>1, <2>2 DEF StartPoll
<1>5. ASSUME NEW p \in Pollers, ListPending(p)
      PROVE  ShownInv'
  <2>1. PICK oldest :
           /\ toShow' = [toShow EXCEPT ![p] = oldest]
           /\ listed' = [listed EXCEPT ![p] = oldest]
           /\ poll' = [poll EXCEPT ![p] = IF oldest = {} THEN "idle" ELSE "show"]
    BY <1>5 DEF ListPending
  <2> QED
    BY <1>5, <2>1, <1>t DEF ListPending, TypeOK
<1>6. ASSUME NEW p \in Pollers, NEW i \in DOMAIN events, Deliver(p, i)
      PROVE  ShownInv'
  BY <1>6, <1>t DEF Deliver, TypeOK
<1>7. ASSUME NEW p \in Pollers, DeliverFails(p) \/ AcknowledgeEvents(p)
      PROVE  ShownInv'
  BY <1>3, <1>7 DEF DeliverFails, AcknowledgeEvents
<1>8. CASE Crash
  BY <1>8 DEF Crash
<1>9. CASE Tick \/ \E f \in Feeds, s \in Policies : ChangeSettings(f, s)
  BY <1>1, <1>9 DEF Tick, ChangeSettings, pollVars
<1>10. CASE UNCHANGED vars
  BY <1>1, <1>10 DEF vars, pollVars
<1> QED
  BY <1>2, <1>4, <1>5, <1>6, <1>7, <1>8, <1>9, <1>10 DEF Next, PollStep

\* What moves no event of the queue.
LEMMA QueueStateFrame ==
    ASSUME DOMAIN events' = DOMAIN events,
           \A i \in DOMAIN events : events'[i].delivered = events[i].delivered,
           shown' = shown
    PROVE  QueueState' = QueueState
  BY DEF QueueState

LEMMA QueuedMaps ==
    ASSUME TypeInv, NEW w \in Refreshers, pc[w] # "idle", NEW contents \in SUBSET Contents,
           QueueEvent(w, contents), shown' = shown
    PROVE  Queue!Next \/ QueueState' = QueueState
<1> DEFINE n == Len(events) + 1
<1>1. /\ DOMAIN events' = DOMAIN events \cup {n}
      /\ n \notin DOMAIN events
      /\ \A i \in DOMAIN events : events'[i] = events[i]
      /\ events'[n] = [feed |-> feed[w], contents |-> contents, delivered |-> FALSE]
  BY QueueType
<1>2. n \notin shown
  BY <1>1 DEF TypeInv, TypeOK
<1> HIDE DEF n
<1>q. ~events'[n].delivered
  BY <1>1
<1>3. CASE n \in 1 .. MaxEvents
  <2>1. QueueState[n] = "none"
    BY <1>1, <1>3 DEF QueueState
  <2>2. QueueState' = [QueueState EXCEPT ![n] = "pending"]
    BY <1>1, <1>2, <1>3, <1>q DEF QueueState
  <2>3. Queue!Queue(n)
    BY <2>1, <2>2 DEF Queue!Queue, Queue!Move
  <2> QED
    BY <1>3, <2>3 DEF Queue!Next
<1>4. CASE n \notin 1 .. MaxEvents
  <2>1. QueueState' = QueueState
    BY <1>1, <1>4 DEF QueueState
  <2> QED
    BY <2>1
<1> QED
  BY <1>3, <1>4

\* Every step of the pipeline is one of the queue, or leaves the queue as it is.
LEMMA NextMaps == TypeInv /\ ShownInv /\ [Next]_vars => [Queue!Next]_QueueState
<1> SUFFICES ASSUME TypeInv, ShownInv, [Next]_vars
             PROVE  Queue!Next \/ QueueState' = QueueState
  OBVIOUS
<1>t. TypeOK
  BY DEF TypeInv
<1>1. \* what changes neither the events nor what is shown
      ASSUME UNCHANGED <<events, shown>>
      PROVE  QueueState' = QueueState
  BY <1>1 DEF QueueState
<1>2. ASSUME NEW w \in Refreshers, Send(w)
      PROVE  Queue!Next \/ QueueState' = QueueState
  <2>1. Identity(w) \in Contents
    BY <1>2, IdentityType DEF Send
  <2>2. pc[w] # "idle" /\ QueueEvent(w, {Identity(w)}) /\ shown' = shown
    BY <1>2 DEF Send, pollVars
  <2> QED
    BY <2>1, <2>2, QueuedMaps
<1>3. ASSUME NEW w \in Refreshers, QueueDigest(w)
      PROVE  Queue!Next \/ QueueState' = QueueState
  <2>1. pc[w] # "idle" /\ QueueEvent(w, drafts[w]) /\ shown' = shown
    BY <1>3 DEF QueueDigest, pollVars
  <2>2. drafts[w] \in SUBSET Contents
    BY <1>t DEF TypeOK
  <2> QED
    BY <2>1, <2>2, QueuedMaps
<1>4. ASSUME NEW w \in Refreshers, RefreshStep(w), ~Send(w), ~QueueDigest(w)
      PROVE  QueueState' = QueueState
  BY <1>1, <1>4
     DEF RefreshStep, StartRefresh, CheckSignature, RecordSignature, Suppress,
         TouchSignature, DraftForDigest, TouchDigest, EndRefresh, storeVars, pollVars
<1>5. ASSUME NEW p \in Pollers, StartPoll(p) \/ ListPending(p) \/ DeliverFails(p)
      PROVE  QueueState' = QueueState
  BY <1>1, <1>5 DEF StartPoll, ListPending, DeliverFails, storeVars
<1>6. ASSUME NEW p \in Pollers, NEW i \in DOMAIN events, Deliver(p, i)
      PROVE  Queue!Next \/ QueueState' = QueueState
  <2>1. events' = events /\ shown' = shown \cup {i}
    BY <1>6 DEF Deliver, storeVars
  <2>2. CASE i \in 1 .. MaxEvents /\ ~events[i].delivered /\ i \notin shown
    <3>1. QueueState[i] = "pending"
      BY <2>2 DEF QueueState
    <3>2. QueueState' = [QueueState EXCEPT ![i] = "shown"]
      BY <2>1, <2>2 DEF QueueState
    <3>3. Queue!Show(i)
      BY <3>1, <3>2 DEF Queue!Show, Queue!Move
    <3> QED
      BY <2>2, <3>3 DEF Queue!Next
  <2>3. CASE i \notin 1 .. MaxEvents \/ events[i].delivered \/ i \in shown
    <3>1. QueueState' = QueueState
      BY <2>1, <2>3 DEF QueueState
    <3> QED
      BY <3>1
  <2> QED
    BY <2>2, <2>3
<1>7. ASSUME NEW p \in Pollers, AcknowledgeEvents(p)
      PROVE  Queue!Next \/ QueueState' = QueueState
  <2> DEFINE S == {i \in 1 .. MaxEvents :
                      i \in DOMAIN events /\ i \in listed[p] /\ ~events[i].delivered}
  <2>1. /\ DOMAIN events' = DOMAIN events
        /\ \A i \in DOMAIN events :
              events'[i].delivered = (events[i].delivered \/ i \in listed[p])
    BY <1>7, AcknowledgeType
  <2>2. shown' = shown /\ listed[p] \subseteq shown
    BY <1>7 DEF AcknowledgeEvents, ShownInv
  <2>3. \A i \in S : QueueState[i] = "shown"
    BY <2>2 DEF QueueState
  <2>4. QueueState' = [i \in 1 .. MaxEvents |-> IF i \in S THEN "delivered" ELSE QueueState[i]]
    BY <2>1, <2>2 DEF QueueState
  <2>5. S \in SUBSET (1 .. MaxEvents)
    OBVIOUS
  <2> HIDE DEF S
  <2>6. CASE S = {}
    <3>1. QueueState' = QueueState
      BY <2>4, <2>6 DEF QueueState
    <3> QED
      BY <3>1
  <2>7. CASE S # {}
    <3>1. Queue!Acknowledge(S)
      BY <2>3, <2>4, <2>7 DEF Queue!Acknowledge
    <3> QED
      BY <2>5, <3>1 DEF Queue!Next
  <2> QED
    BY <2>6, <2>7
<1>8. CASE Crash \/ Tick \/ \E f \in Feeds, s \in Policies : ChangeSettings(f, s)
  BY <1>1, <1>8 DEF Crash, Tick, ChangeSettings, storeVars, pollVars
<1>9. CASE UNCHANGED vars
  BY <1>1, <1>9 DEF vars, storeVars, pollVars
<1> QED
  BY <1>2, <1>3, <1>4, <1>5, <1>6, <1>7, <1>8, <1>9 DEF Next, PollStep

\* The pipeline implements the safety of the queue, with any number of polls that overlap,
\* refusals and restarts: what is acknowledged was shown before, an event that was
\* queued is never dropped or taken back, and no poll delivers what it did not list.
THEOREM QueueIsRefined == Spec => Queue!Safety
<1>1. Init => Queue!Init
  BY DEF Init, Queue!Init, QueueState
<1>2. Init => ShownInv
  BY DEF Init, ShownInv
<1> QED
  BY <1>1, <1>2, InitTypeInv, NextTypeInv, NextShownInv, NextMaps, PTL DEF Spec, Queue!Safety

(***************************************************************************)
(* Duplicates.  Two refreshers may both find content new (the check of a   *)
(* signature and its insertion are apart), so what follows is about one.   *)
(***************************************************************************)
OneRefresher == \A v, w \in Refreshers : v = w

\* What is queued or drafted was signed before, a draft is in no event until its digest
\* is queued, and content found new is neither drafted nor queued.
NotifyInv ==
    /\ NotifiedAtMostOnce
    /\ \A i \in DOMAIN events : \A c \in events[i].contents : Signed(c)
    /\ \A w \in Refreshers :
          /\ \A c \in drafts[w] : Signed(c)
          /\ pc[w] # "touchDigest" =>
                \A i \in DOMAIN events : drafts[w] \cap events[i].contents = {}
          /\ pc[w] = "decide" => Signed(Identity(w))
          /\ pc[w] \in {"sign", "decide"} /\ ~duplicate[w] =>
                /\ Identity(w) \notin drafts[w]
                /\ \A i \in DOMAIN events : Identity(w) \notin events[i].contents

\* A step queues no event and signs no content.
SameEvents ==
    /\ DOMAIN events' = DOMAIN events
    /\ \A i \in DOMAIN events : events'[i].contents = events[i].contents

\* What is neither a refresh nor a crash leaves all that a refresher holds alone.
LEMMA OthersKeepBatches ==
    ASSUME TypeInv, [Next]_vars, ~Crash, \A w \in Refreshers : ~RefreshStep(w)
    PROVE  /\ SameEvents /\ UNCHANGED <<owner, suppressed, refreshVars>>
           /\ Tick \/ UNCHANGED <<sinceNotified, sinceSent>>
<1>1. ASSUME NEW p \in Pollers, AcknowledgeEvents(p)
      PROVE  SameEvents /\ UNCHANGED <<owner, suppressed, refreshVars, sinceNotified, sinceSent>>
  BY <1>1, AcknowledgeType DEF AcknowledgeEvents, SameEvents
<1>2. ASSUME NEW p \in Pollers,
             StartPoll(p) \/ ListPending(p) \/ DeliverFails(p) \/ \E i \in DOMAIN events : Deliver(p, i)
      PROVE  SameEvents /\ UNCHANGED <<owner, suppressed, refreshVars, sinceNotified, sinceSent>>
  BY <1>2 DEF StartPoll, ListPending, DeliverFails, Deliver, storeVars, SameEvents
<1>3. CASE Tick \/ \E f \in Feeds, s \in Policies : ChangeSettings(f, s)
  BY <1>3 DEF Tick, ChangeSettings, storeVars, SameEvents
<1>4. CASE UNCHANGED vars
  BY <1>4 DEF vars, storeVars, SameEvents
<1> QED
  BY <1>1, <1>2, <1>3, <1>4 DEF Next, PollStep

LEMMA NextNotifyInv ==
    ASSUME OneRefresher
    PROVE  TypeInv /\ NotifyInv /\ [Next]_vars => NotifyInv'
<1> SUFFICES ASSUME TypeInv, NotifyInv, [Next]_vars
             PROVE  NotifyInv'
  OBVIOUS
<1>t. TypeOK /\ item \in [Refreshers -> Items \cup {NULL}]
  BY DEF TypeInv
<1>1. \* what makes no draft, no event and no signature
      ASSUME SameEvents, UNCHANGED <<owner, drafts>>,
             \A v \in Refreshers :
                /\ pc'[v] = "touchDigest" <=> pc[v] = "touchDigest"
                /\ pc'[v] \in {"sign", "decide"} =>
                      pc'[v] = pc[v] /\ item'[v] = item[v] /\ duplicate'[v] = duplicate[v]
      PROVE  NotifyInv'
  BY <1>1 DEF NotifyInv, NotifiedAtMostOnce, SameEvents, Signed, Identity
<1>2. \* what drops a batch
      ASSUME UNCHANGED <<events, owner>>, \A v \in Refreshers : pc'[v] = "idle" /\ drafts'[v] = {}
      PROVE  NotifyInv'
  BY <1>2 DEF NotifyInv, NotifiedAtMostOnce, Signed
<1>3. ASSUME NEW w \in Refreshers, NEW f \in Feeds, NEW S \in SUBSET Items \ {{}},
             StartRefresh(w, f, S)
      PROVE  NotifyInv'
  BY <1>1, <1>3, <1>t DEF StartRefresh, Goto, TypeOK, storeVars, SameEvents
<1>4. ASSUME NEW w \in Refreshers, CheckSignature(w)
      PROVE  NotifyInv'
  <2>1. PICK i \in todo[w] :
           /\ item' = [item EXCEPT ![w] = i]
           /\ duplicate' = [duplicate EXCEPT ![w] = Signed(Signature(i))]
    BY <1>4 DEF CheckSignature
  <2>2. /\ pc'[w] = "sign" /\ pc[w] = "next" /\ UNCHANGED <<owner, events, drafts>>
        /\ Identity(w)' = Signature(i) /\ duplicate'[w] = Signed(Signature(i))
    BY <1>4, <1>t, <2>1 DEF CheckSignature, Goto, TypeOK, storeVars, Identity
  <2>3. \A v \in Refreshers : v = w
    BY DEF OneRefresher
  <2>4. ~duplicate'[w] =>
           /\ Identity(w)' \notin drafts[w]
           /\ \A k \in DOMAIN events : Identity(w)' \notin events[k].contents
    BY <2>2 DEF NotifyInv
  <2> QED
    BY <2>2, <2>3, <2>4 DEF NotifyInv, NotifiedAtMostOnce, Signed
<1>5. ASSUME NEW w \in Refreshers, RecordSignature(w)
      PROVE  NotifyInv'
  <2>1. Identity(w) \in Contents /\ feed[w] \in Feeds /\ pc[w] = "sign"
    BY <1>5, <1>t, IdentityType DEF RecordSignature, TypeOK
  <2>2. /\ pc'[w] = "decide" /\ Identity(w)' = Identity(w)
        /\ UNCHANGED <<events, drafts, duplicate>>
    BY <1>5, <1>t DEF RecordSignature, Goto, TypeOK, Identity
  <2>3. Signed(Identity(w))' /\ \A c \in Contents : Signed(c) => Signed(c)'
    BY <1>5, <1>t, <2>1, <2>2, PipelineAssumptions DEF RecordSignature, TypeOK, Signed
  <2>4. \A v \in Refreshers : v = w
    BY DEF OneRefresher
  <2>5. drafts[w] \subseteq Contents
    BY <1>t DEF TypeOK
  <2>6. \A i \in DOMAIN events : events[i].contents \subseteq Contents
    BY EventsType DEF QueuedEvent
  <2> QED
    BY <2>1, <2>2, <2>3, <2>4, <2>5, <2>6 DEF NotifyInv, NotifiedAtMostOnce
<1>6. ASSUME NEW w \in Refreshers, Suppress(w)
      PROVE  NotifyInv'
  BY <1>1, <1>6, <1>t DEF Suppress, Goto, TypeOK, SameEvents
<1>7. ASSUME NEW w \in Refreshers, Send(w)
      PROVE  NotifyInv'
  <2> DEFINE n == Len(events) + 1
  <2>1. Identity(w) \in Contents /\ pc[w] = "decide" /\ ~duplicate[w]
    BY <1>7, IdentityType, DecisionType DEF Send
  <2>2. QueueEvent(w, {Identity(w)})
    BY <1>7 DEF Send
  <2>3. /\ DOMAIN events' = DOMAIN events \cup {n}
        /\ n \notin DOMAIN events
        /\ \A i \in DOMAIN events : events'[i] = events[i]
        /\ events'[n] = [feed |-> feed[w], contents |-> {Identity(w)}, delivered |-> FALSE]
    BY <2>1, <2>2, QueueType
  <2> HIDE DEF n
  <2>4. events'[n].contents = {Identity(w)}
    BY <2>3
  <2>5. pc'[w] = "touch" /\ UNCHANGED <<owner, drafts>>
    BY <1>7, <1>t DEF Send, Goto, TypeOK
  <2>6. \A v \in Refreshers : v = w
    BY DEF OneRefresher
  <2> QED
    BY <2>1, <2>3, <2>4, <2>5, <2>6 DEF NotifyInv, NotifiedAtMostOnce, Signed
<1>8. ASSUME NEW w \in Refreshers, TouchSignature(w)
      PROVE  NotifyInv'
  BY <1>1, <1>8, <1>t DEF TouchSignature, Goto, TypeOK, SameEvents
<1>9. ASSUME NEW w \in Refreshers, DraftForDigest(w)
      PROVE  NotifyInv'
  <2>1. pc[w] = "decide" /\ ~duplicate[w]
    BY <1>9, DecisionType DEF DraftForDigest
  <2>2. /\ pc'[w] = "next" /\ drafts'[w] = drafts[w] \cup {Identity(w)}
        /\ UNCHANGED <<owner, events>>
    BY <1>9, <1>t DEF DraftForDigest, Goto, TypeOK, storeVars
  <2>3. \A v \in Refreshers : v = w
    BY DEF OneRefresher
  <2> QED
    BY <2>1, <2>2, <2>3 DEF NotifyInv, NotifiedAtMostOnce, Signed
<1>10. ASSUME NEW w \in Refreshers, QueueDigest(w)
       PROVE  NotifyInv'
  <2> DEFINE n == Len(events) + 1
  <2>1. QueueEvent(w, drafts[w]) /\ pc[w] = "next" /\ drafts[w] \in SUBSET Contents
    BY <1>10, <1>t DEF QueueDigest, TypeOK
  <2>2. /\ DOMAIN events' = DOMAIN events \cup {n}
        /\ n \notin DOMAIN events
        /\ \A i \in DOMAIN events : events'[i] = events[i]
        /\ events'[n] = [feed |-> feed[w], contents |-> drafts[w], delivered |-> FALSE]
    BY <2>1, QueueType
  <2> HIDE DEF n
  <2>3. events'[n].contents = drafts[w]
    BY <2>2
  <2>4. pc'[w] = "touchDigest" /\ UNCHANGED <<owner, drafts>>
    BY <1>10, <1>t DEF QueueDigest, Goto, TypeOK
  <2>5. \A v \in Refreshers : v = w
    BY DEF OneRefresher
  <2> QED
    BY <2>1, <2>2, <2>3, <2>4, <2>5 DEF NotifyInv, NotifiedAtMostOnce, Signed
<1>11. ASSUME NEW w \in Refreshers, TouchDigest(w) \/ EndRefresh(w)
       PROVE  NotifyInv'
  <2>1. pc'[w] = "idle" /\ drafts'[w] = {} /\ UNCHANGED <<events, owner>>
    BY <1>11, <1>t DEF TouchDigest, EndRefresh, Forget, TypeOK, storeVars
  <2>2. \A v \in Refreshers : v = w
    BY DEF OneRefresher
  <2> QED
    BY <1>2, <2>1, <2>2
<1>12. CASE Crash
  BY <1>2, <1>12 DEF Crash, storeVars
<1>13. CASE ~Crash /\ \A w \in Refreshers : ~RefreshStep(w)
  BY <1>1, <1>13, OthersKeepBatches DEF refreshVars
<1> QED
  BY <1>3, <1>4, <1>5, <1>6, <1>7, <1>8, <1>9, <1>10, <1>11, <1>12, <1>13 DEF RefreshStep

\* One refresher notifies no content twice, in whatever feeds and batches it comes again,
\* sent at once or in digests, and wherever the program is killed: process_refresh_
\* notifications signs an item before it decides and asks for the signature before that.
THEOREM ContentNotifiedOnce ==
    ASSUME OneRefresher
    PROVE  Spec => []NotifiedAtMostOnce
<1>1. Init => NotifyInv
  BY DEF Init, NotifyInv, NotifiedAtMostOnce
<1>2. NotifyInv => NotifiedAtMostOnce
  BY DEF NotifyInv
<1> QED
  BY <1>1, <1>2, InitTypeInv, NextTypeInv, NextNotifyInv, PTL DEF Spec

(***************************************************************************)
(* No content is lost without a trace.  A program killed between signature *)
(* and decision loses what it was about to decide, so none is killed here. *)
(***************************************************************************)
\* What is signed has been decided on, or is being decided; what is suppressed as a
\* duplicate has been; what a digest forgets is in its event.
DecidedInv ==
    /\ DuplicatesWereDecided
    /\ \A c \in Contents : Signed(c) =>
          \/ Decided(c)
          \/ \E w \in Refreshers : pc[w] = "decide" /\ ~duplicate[w] /\ Identity(w) = c
    /\ \A w \in Refreshers :
          /\ pc[w] \in {"sign", "decide"} /\ duplicate[w] => Decided(Identity(w))
          /\ pc[w] = "touchDigest" =>
                \A c \in drafts[w] : \E i \in DOMAIN events : c \in events[i].contents

\* What has been decided stays so while events and reasons stay and drafts are dropped
\* only when they are in an event.
LEMMA DecidedStays ==
    ASSUME DOMAIN events \subseteq DOMAIN events',
           \A i \in DOMAIN events : events'[i].contents = events[i].contents,
           suppressed \subseteq suppressed',
           \A w \in Refreshers : \A c \in drafts[w] \ drafts'[w] :
              \E i \in DOMAIN events : c \in events[i].contents
    PROVE  \A c : Decided(c) => Decided(c)'
  BY DEF Decided

LEMMA NextDecidedInv ==
    ASSUME OneRefresher, MaxCrashes = 0
    PROVE  TypeInv /\ DecidedInv /\ [Next]_vars => DecidedInv'
<1> SUFFICES ASSUME TypeInv, DecidedInv, [Next]_vars
             PROVE  DecidedInv'
  OBVIOUS
<1>t. TypeOK /\ item \in [Refreshers -> Items \cup {NULL}]
  BY DEF TypeInv
<1>o. \A v, w \in Refreshers : v = w
  BY DEF OneRefresher
<1>1. \* what decides nothing
      ASSUME SameEvents, UNCHANGED <<owner, suppressed, drafts>>,
             \A v \in Refreshers :
                /\ pc[v] = "decide" => pc'[v] = "decide"
                /\ pc'[v] = "touchDigest" => pc[v] = "touchDigest"
                /\ pc'[v] \in {"sign", "decide"} =>
                      pc'[v] = pc[v] /\ item'[v] = item[v] /\ duplicate'[v] = duplicate[v]
      PROVE  DecidedInv'
  <2>1. \A c : Decided(c)' <=> Decided(c)
    BY <1>1 DEF Decided, SameEvents
  <2> QED
    BY <1>1, <2>1 DEF DecidedInv, DuplicatesWereDecided, SameEvents, Signed, Identity
<1>2. ASSUME NEW w \in Refreshers, NEW f \in Feeds, NEW S \in SUBSET Items \ {{}},
             StartRefresh(w, f, S)
      PROVE  DecidedInv'
  BY <1>1, <1>2, <1>t DEF StartRefresh, Goto, TypeOK, storeVars, SameEvents
<1>3. ASSUME NEW w \in Refreshers, CheckSignature(w)
      PROVE  DecidedInv'
  <2>1. PICK i \in todo[w] :
           /\ item' = [item EXCEPT ![w] = i]
           /\ duplicate' = [duplicate EXCEPT ![w] = Signed(Signature(i))]
    BY <1>3 DEF CheckSignature
  <2>2. /\ pc'[w] = "sign" /\ pc[w] = "next" /\ UNCHANGED <<owner, events, suppressed, drafts>>
        /\ Identity(w)' = Signature(i) /\ duplicate'[w] = Signed(Signature(i))
    BY <1>3, <1>t, <2>1 DEF CheckSignature, Goto, TypeOK, storeVars, Identity
  <2>3. \A c : Decided(c)' <=> Decided(c)
    BY <2>2 DEF Decided
  <2>4. \A c \in Contents : Signed(c) => Decided(c)
    BY <1>o, <2>2 DEF DecidedInv
  <2>5. Signature(i) \in Contents
    BY <1>t, <2>1 DEF TypeOK, Contents
  <2> QED
    BY <1>o, <2>2, <2>3, <2>4, <2>5 DEF DecidedInv, DuplicatesWereDecided, Signed
<1>4. ASSUME NEW w \in Refreshers, RecordSignature(w)
      PROVE  DecidedInv'
  <2>1. Identity(w) \in Contents /\ pc[w] = "sign"
    BY <1>4, IdentityType DEF RecordSignature
  <2>2. /\ pc'[w] = "decide" /\ Identity(w)' = Identity(w)
        /\ UNCHANGED <<events, suppressed, drafts, duplicate>>
    BY <1>4, <1>t DEF RecordSignature, Goto, TypeOK, Identity
  <2>3. \A c \in Contents : Signed(c)' => Signed(c) \/ c = Identity(w)
    BY <1>4, <1>t, <2>1 DEF RecordSignature, TypeOK, Signed
  <2>4. \A c : Decided(c)' <=> Decided(c)
    BY <2>2 DEF Decided
  <2>5. \A c \in Contents : Signed(c) => Decided(c)
    BY <1>o, <2>1 DEF DecidedInv
  <2> QED
    BY <1>o, <2>1, <2>2, <2>3, <2>4, <2>5 DEF DecidedInv, DuplicatesWereDecided
<1>5. ASSUME NEW w \in Refreshers, Suppress(w)
      PROVE  DecidedInv'
  <2>0. PICK id, reason : id = Identity(w) /\ reason = Decision(w)
    OBVIOUS
  <2>1. /\ id \in Contents /\ pc[w] = "decide"
        /\ reason \in Reasons
        /\ reason = "duplicate" => duplicate[w]
    BY <1>5, <2>0, IdentityType, DecisionType DEF Suppress
  <2>2. /\ pc'[w] = "next" /\ UNCHANGED <<owner, events, drafts>>
        /\ suppressed' = suppressed \cup {<<id, reason>>}
    BY <1>5, <1>t, <2>0 DEF Suppress, Goto, TypeOK
  <2>3. \A c : Decided(c) => Decided(c)'
    BY <2>2, DecidedStays
  <2>4. Decided(id)'
    <3>1. CASE reason = "duplicate"
      BY <2>0, <2>1, <2>3, <3>1 DEF DecidedInv
    <3>2. CASE reason # "duplicate"
      BY <2>1, <2>2, <3>2 DEF Decided
    <3> QED
      BY <3>1, <3>2
  <2>5. DuplicatesWereDecided'
    BY <2>2, <2>3, <2>4 DEF DecidedInv, DuplicatesWereDecided
  <2>6. \A c \in Contents : Signed(c)' => Decided(c)'
    BY <1>o, <2>0, <2>2, <2>3, <2>4 DEF DecidedInv, Signed
  <2> QED
    BY <1>o, <2>2, <2>5, <2>6 DEF DecidedInv
<1>6. ASSUME NEW w \in Refreshers, pc[w] # "idle", NEW contents \in SUBSET Contents,
             QueueEvent(w, contents), UNCHANGED <<owner, suppressed, drafts>>
      PROVE  /\ \A c : Decided(c) => Decided(c)'
             /\ \A c \in contents : \E i \in DOMAIN events' : c \in events'[i].contents
  <2> DEFINE n == Len(events) + 1
  <2>1. /\ DOMAIN events' = DOMAIN events \cup {n}
        /\ \A i \in DOMAIN events : events'[i] = events[i]
        /\ events'[n] = [feed |-> feed[w], contents |-> contents, delivered |-> FALSE]
    BY <1>6, QueueType
  <2> HIDE DEF n
  <2>2. events'[n].contents = contents
    BY <2>1
  <2>3. \A c : Decided(c) => Decided(c)'
    BY <1>6, <2>1, DecidedStays
  <2> QED
    BY <2>1, <2>2, <2>3
<1>7. ASSUME NEW w \in Refreshers, Send(w)
      PROVE  DecidedInv'
  <2>0. PICK id : id = Identity(w)
    OBVIOUS
  <2>1. id \in Contents /\ pc[w] = "decide" /\ QueueEvent(w, {id})
    BY <1>7, <2>0, IdentityType DEF Send
  <2>2. pc'[w] = "touch" /\ UNCHANGED <<owner, suppressed, drafts>>
    BY <1>7, <1>t DEF Send, Goto, TypeOK
  <2>3. /\ \A c : Decided(c) => Decided(c)'
        /\ \E i \in DOMAIN events' : id \in events'[i].contents
    BY <1>6, <2>1, <2>2
  <2>4. Decided(id)'
    BY <2>3 DEF Decided
  <2>5. \A c \in Contents : Signed(c)' => Decided(c)'
    BY <1>o, <2>0, <2>2, <2>3, <2>4 DEF DecidedInv, Signed
  <2> QED
    BY <1>o, <2>2, <2>3, <2>5 DEF DecidedInv, DuplicatesWereDecided
<1>8. ASSUME NEW w \in Refreshers, TouchSignature(w)
      PROVE  DecidedInv'
  BY <1>1, <1>8, <1>t DEF TouchSignature, Goto, TypeOK, SameEvents
<1>9. ASSUME NEW w \in Refreshers, DraftForDigest(w)
      PROVE  DecidedInv'
  <2>0. PICK id : id = Identity(w)
    OBVIOUS
  <2>1. /\ pc'[w] = "next" /\ drafts'[w] = drafts[w] \cup {id}
        /\ pc[w] = "decide" /\ UNCHANGED <<owner, events, suppressed>>
    BY <1>9, <1>t, <2>0 DEF DraftForDigest, Goto, TypeOK, storeVars
  <2>2. \A c : Decided(c) => Decided(c)'
    BY <1>o, <2>1, DecidedStays
  <2>3. Decided(id)'
    BY <2>1 DEF Decided
  <2>4. \A c \in Contents : Signed(c)' => Decided(c)'
    BY <1>o, <2>0, <2>1, <2>2, <2>3 DEF DecidedInv, Signed
  <2> QED
    BY <1>o, <2>1, <2>2, <2>4 DEF DecidedInv, DuplicatesWereDecided
<1>10. ASSUME NEW w \in Refreshers, QueueDigest(w)
       PROVE  DecidedInv'
  <2>1. QueueEvent(w, drafts[w]) /\ pc[w] = "next" /\ drafts[w] \in SUBSET Contents
    BY <1>10, <1>t DEF QueueDigest, TypeOK
  <2>2. pc'[w] = "touchDigest" /\ UNCHANGED <<owner, suppressed, drafts>>
    BY <1>10, <1>t DEF QueueDigest, Goto, TypeOK
  <2>3. /\ \A c : Decided(c) => Decided(c)'
        /\ \A c \in drafts[w] : \E i \in DOMAIN events' : c \in events'[i].contents
    BY <1>6, <2>1, <2>2
  <2>4. \A c \in Contents : Signed(c)' => Decided(c)'
    BY <1>o, <2>1, <2>2, <2>3 DEF DecidedInv, Signed
  <2> QED
    BY <1>o, <2>2, <2>3, <2>4 DEF DecidedInv, DuplicatesWereDecided
<1>11. ASSUME NEW w \in Refreshers, TouchDigest(w) \/ EndRefresh(w)
       PROVE  DecidedInv'
  <2>1. /\ pc[w] \in {"next", "touchDigest"} /\ pc'[w] = "idle"
        /\ pc[w] = "next" => drafts[w] = {}
        /\ UNCHANGED <<events, owner, suppressed>>
    BY <1>11, <1>t DEF TouchDigest, EndRefresh, Forget, TypeOK, storeVars
  <2>2. \A c \in drafts[w] : \E i \in DOMAIN events : c \in events[i].contents
    BY <2>1 DEF DecidedInv
  <2>3. \A c : Decided(c) => Decided(c)'
    BY <1>o, <2>1, <2>2, DecidedStays
  <2>4. \A c \in Contents : Signed(c)' => Decided(c)'
    BY <1>o, <2>1, <2>3 DEF DecidedInv, Signed
  <2> QED
    BY <1>o, <2>1, <2>3, <2>4 DEF DecidedInv, DuplicatesWereDecided
<1>12. ~Crash
  BY <1>t DEF Crash, TypeOK
<1>13. CASE \A w \in Refreshers : ~RefreshStep(w)
  BY <1>1, <1>12, <1>13, OthersKeepBatches DEF refreshVars
<1> QED
  BY <1>2, <1>3, <1>4, <1>5, <1>7, <1>8, <1>9, <1>10, <1>11, <1>13 DEF RefreshStep

\* Content that one refresher suppresses as a duplicate was queued, or suppressed for a
\* reason of its own, or is in the digest under way, as long as the program is not killed.
THEOREM NothingLostAsDuplicate ==
    ASSUME OneRefresher, MaxCrashes = 0
    PROVE  Spec => []DuplicatesWereDecided
<1>1. Init => DecidedInv
  BY DEF Init, DecidedInv, DuplicatesWereDecided, Signed
<1>2. DecidedInv => DuplicatesWereDecided
  BY DEF DecidedInv
<1> QED
  BY <1>1, <1>2, InitTypeInv, NextTypeInv, NextDecidedInv, PTL DEF Spec

(***************************************************************************)
(* The interval.                                                           *)
(***************************************************************************)
\* A time b since something happened is accounted for by a time a that is no longer.
Accounts(a, b) == b = NULL \/ (a # NULL /\ a <= b)

\* The signatures a feed owns tell when it was last notified, but while a notification
\* that was just queued has not touched its signature yet; a batch counts from no earlier
\* a time, and what it has drafted was not too soon.
IntervalInv ==
    /\ \A w \in Refreshers :
          /\ pc[w] \in {"next", "sign", "decide"} => Accounts(last[w], sinceSent[feed[w]])
          /\ pc[w] = "sign" /\ ~duplicate[w] => ~Signed(Identity(w))
          /\ pc[w] = "decide" /\ ~duplicate[w] => owner[Identity(w)] = feed[w]
          /\ pc[w] = "touch" => ~policy[w].digest /\ owner[Identity(w)] = feed[w]
          /\ pc[w] = "touchDigest" => drafts[w] # {}
          /\ pc[w] = "idle" => drafts[w] = {}
          /\ \A c \in drafts[w] : owner[c] = feed[w]
          /\ drafts[w] # {} => policy[w].digest /\ ~TooSoon(policy[w], last[w])
    /\ \A f \in Feeds :
          \/ \E w \in Refreshers : pc[w] \in {"touch", "touchDigest"} /\ feed[w] = f
          \/ \E c \in Contents : owner[c] = f /\ Accounts(sinceNotified[c], sinceSent[f])
          \/ sinceSent[f] = NULL

LEMMA NextIntervalInv ==
    ASSUME OneRefresher, MaxCrashes = 0
    PROVE  TypeInv /\ IntervalInv /\ [Next]_vars => IntervalInv'
<1> SUFFICES ASSUME TypeInv, IntervalInv, [Next]_vars
             PROVE  IntervalInv'
  OBVIOUS
<1>t. /\ TypeOK /\ item \in [Refreshers -> Items \cup {NULL}]
      /\ feed \in [Refreshers -> Feeds \cup {NULL}] /\ policy \in [Refreshers -> Policies \cup {NULL}]
  BY DEF TypeInv
<1>o. \A v, w \in Refreshers : v = w
  BY DEF OneRefresher
<1>1. \* what sends, signs and drafts nothing and lets no time pass
      ASSUME NEW w \in Refreshers,
             UNCHANGED <<owner, sinceNotified, sinceSent, feed, item, duplicate, policy, last, drafts>>,
             \/ pc'[w] = pc[w]
             \/ pc[w] = "decide" /\ pc'[w] = "next"
      PROVE  IntervalInv'
  BY <1>o, <1>1 DEF IntervalInv, Accounts, TooSoon, Signed, Identity
<1>2. ASSUME NEW w \in Refreshers, NEW f \in Feeds, NEW S \in SUBSET Items \ {{}},
             StartRefresh(w, f, S)
      PROVE  IntervalInv'
  <2>1. /\ pc[w] = "idle" /\ pc'[w] = "next" /\ feed'[w] = f
        /\ last'[w] = LatestNotification(f)
        /\ UNCHANGED <<owner, sinceNotified, sinceSent, drafts>>
    BY <1>2, <1>t DEF StartRefresh, Goto, TypeOK, storeVars
  <2>2. Accounts(last'[w], sinceSent[f])
    <3>1. CASE sinceSent[f] = NULL
      BY <3>1 DEF Accounts
    <3>2. CASE sinceSent[f] # NULL
      <4>1. PICK c \in Contents : owner[c] = f /\ Accounts(sinceNotified[c], sinceSent[f])
        BY <1>o, <2>1, <3>2 DEF IntervalInv
      <4>2. sinceNotified[c] # NULL /\ sinceNotified[c] <= sinceSent[f]
        BY <3>2, <4>1 DEF Accounts
      <4>3. last'[w] # NULL /\ last'[w] <= sinceNotified[c]
        BY <2>1, <4>1, <4>2, LatestIsLatest
      <4>4. last'[w] \in Nat /\ sinceNotified[c] \in Nat /\ sinceSent[f] \in Nat
        BY <1>t, <2>1, <3>2, <4>2, <4>3, LatestIsLatest, PipelineAssumptions DEF TypeOK, Ages
      <4> QED
        BY <4>2, <4>3, <4>4 DEF Accounts
    <3> QED
      BY <3>1, <3>2
  <2>3. drafts'[w] = {}
    BY <2>1 DEF IntervalInv
  <2> HIDE <1>2
  <2> QED
    BY <1>o, <2>1, <2>2, <2>3 DEF IntervalInv
<1>3. ASSUME NEW w \in Refreshers, CheckSignature(w)
      PROVE  IntervalInv'
  <2>1. PICK i \in todo[w] :
           /\ item' = [item EXCEPT ![w] = i]
           /\ duplicate' = [duplicate EXCEPT ![w] = Signed(Signature(i))]
    BY <1>3 DEF CheckSignature
  <2>2. /\ pc'[w] = "sign" /\ pc[w] = "next"
        /\ UNCHANGED <<owner, sinceNotified, sinceSent, feed, policy, last, drafts>>
        /\ Identity(w)' = Signature(i) /\ duplicate'[w] = Signed(Signature(i))
    BY <1>3, <1>t, <2>1 DEF CheckSignature, Goto, TypeOK, storeVars, Identity
  <2> QED
    BY <1>o, <2>2 DEF IntervalInv, Signed
<1>4. ASSUME NEW w \in Refreshers, RecordSignature(w)
      PROVE  IntervalInv'
  <2>1. Identity(w) \in Contents /\ pc[w] = "sign" /\ feed[w] \in Feeds
    BY <1>4, <1>t, IdentityType DEF RecordSignature, TypeOK
  <2>2. /\ pc'[w] = "decide" /\ Identity(w)' = Identity(w)
        /\ UNCHANGED <<sinceNotified, sinceSent, feed, duplicate, policy, last, drafts>>
    BY <1>4, <1>t DEF RecordSignature, Goto, TypeOK, Identity
  <2>3. /\ \A c \in Contents : Signed(c) => owner'[c] = owner[c]
        /\ ~Signed(Identity(w)) => owner'[Identity(w)] = feed[w]
    BY <1>4, <1>t, <2>1 DEF RecordSignature, TypeOK, Signed
  <2>4. \A c \in Contents, f \in Feeds : owner[c] = f => owner'[c] = f
    BY <2>3, PipelineAssumptions DEF Signed
  <2>5. \A c \in drafts[w] : owner'[c] = feed[w]
    BY <1>t, <2>1, <2>4 DEF IntervalInv, TypeOK
  <2>6. ~duplicate[w] => owner'[Identity(w)] = feed[w]
    BY <2>1, <2>3 DEF IntervalInv
  <2>7. \A f \in Feeds :
           \/ \E c \in Contents : owner'[c] = f /\ Accounts(sinceNotified[c], sinceSent[f])
           \/ sinceSent[f] = NULL
    BY <1>o, <2>1, <2>4 DEF IntervalInv
  <2> QED
    BY <1>o, <2>1, <2>2, <2>5, <2>6, <2>7 DEF IntervalInv
<1>5. ASSUME NEW w \in Refreshers, Suppress(w)
      PROVE  IntervalInv'
  BY <1>1, <1>5, <1>t DEF Suppress, Goto, TypeOK
<1>6. ASSUME NEW w \in Refreshers, Send(w)
      PROVE  IntervalInv'
  <2>1. /\ pc[w] = "decide" /\ ~duplicate[w] /\ ~policy[w].digest
        /\ feed[w] \in Feeds
    BY <1>6, <1>t, DecisionType DEF Send, TypeOK
  <2>2. /\ pc'[w] = "touch" /\ Identity(w)' = Identity(w)
        /\ UNCHANGED <<owner, sinceNotified, feed, policy, last, drafts>>
        /\ sinceSent' = [sinceSent EXCEPT ![feed[w]] = 0]
    BY <1>6, <1>t DEF Send, QueueEvent, Goto, TypeOK, Identity
  <2>3. \A f \in Feeds \ {feed[w]} : sinceSent'[f] = sinceSent[f]
    BY <1>t, <2>2 DEF TypeOK
  <2>4. owner[Identity(w)] = feed[w]
    BY <2>1 DEF IntervalInv
  <2>5. \A f \in Feeds \ {feed[w]} :
           \/ \E c \in Contents : owner[c] = f /\ Accounts(sinceNotified[c], sinceSent[f])
           \/ sinceSent[f] = NULL
    BY <1>o, <2>1 DEF IntervalInv
  <2> QED
    BY <1>o, <2>1, <2>2, <2>3, <2>4, <2>5 DEF IntervalInv
<1>7. ASSUME NEW w \in Refreshers, TouchSignature(w)
      PROVE  IntervalInv'
  <2>0. PICK id : id = Identity(w)
    OBVIOUS
  <2>1. id \in Contents /\ pc[w] = "touch" /\ owner[id] = feed[w] /\ feed[w] \in Feeds
        /\ ~policy[w].digest
    BY <1>7, <1>t, <2>0, IdentityType DEF TouchSignature, IntervalInv, TypeOK
  <2>2. /\ pc'[w] = "next" /\ last'[w] = 0
        /\ UNCHANGED <<owner, sinceSent, feed, policy, drafts>>
        /\ sinceNotified'[id] = 0
        /\ \A c \in Contents \ {id} : sinceNotified'[c] = sinceNotified[c]
    BY <1>7, <1>t, <2>0, <2>1 DEF TouchSignature, Goto, TypeOK
  <2>3. drafts[w] = {}
    BY <2>1 DEF IntervalInv
  <2>4. \A f \in Feeds : Accounts(0, sinceSent[f])
    BY <1>t, PipelineAssumptions DEF Accounts, TypeOK, Ages
  <2>5. \A f \in Feeds :
           \/ \E c \in Contents : owner[c] = f /\ Accounts(sinceNotified'[c], sinceSent[f])
           \/ sinceSent[f] = NULL
    <3> SUFFICES ASSUME NEW f \in Feeds, sinceSent[f] # NULL
                 PROVE  \E c \in Contents : owner[c] = f /\ Accounts(sinceNotified'[c], sinceSent[f])
      OBVIOUS
    <3>1. CASE f = feed[w]
      BY <2>1, <2>2, <2>4, <3>1
    <3>2. CASE f # feed[w]
      <4>1. PICK c \in Contents : owner[c] = f /\ Accounts(sinceNotified[c], sinceSent[f])
        BY <1>o, <3>2 DEF IntervalInv
      <4> QED
        BY <2>1, <2>2, <3>2, <4>1
    <3> QED
      BY <3>1, <3>2
  <2> QED
    BY <1>o, <2>1, <2>2, <2>3, <2>4, <2>5 DEF IntervalInv
<1>8. ASSUME NEW w \in Refreshers, DraftForDigest(w)
      PROVE  IntervalInv'
  <2>0. PICK id : id = Identity(w)
    OBVIOUS
  <2>1. /\ pc[w] = "decide" /\ ~duplicate[w] /\ policy[w].digest
        /\ ~TooSoon(policy[w], last[w])
    BY <1>8, DecisionType DEF DraftForDigest
  <2>2. /\ pc'[w] = "next" /\ drafts'[w] = drafts[w] \cup {id}
        /\ UNCHANGED <<owner, sinceNotified, sinceSent, feed, policy, last>>
    BY <1>8, <1>t, <2>0 DEF DraftForDigest, Goto, TypeOK, storeVars
  <2>3. owner[id] = feed[w]
    BY <2>0, <2>1 DEF IntervalInv
  <2> QED
    BY <1>o, <2>1, <2>2, <2>3 DEF IntervalInv
<1>9. ASSUME NEW w \in Refreshers, QueueDigest(w)
      PROVE  IntervalInv'
  <2>1. pc[w] = "next" /\ drafts[w] # {} /\ feed[w] \in Feeds
    BY <1>9, <1>t DEF QueueDigest, TypeOK
  <2>2. /\ pc'[w] = "touchDigest"
        /\ UNCHANGED <<owner, sinceNotified, feed, policy, last, drafts>>
        /\ sinceSent' = [sinceSent EXCEPT ![feed[w]] = 0]
    BY <1>9, <1>t DEF QueueDigest, QueueEvent, Goto, TypeOK
  <2>3. \A f \in Feeds \ {feed[w]} : sinceSent'[f] = sinceSent[f]
    BY <1>t, <2>2 DEF TypeOK
  <2>4. \A f \in Feeds \ {feed[w]} :
           \/ \E c \in Contents : owner[c] = f /\ Accounts(sinceNotified[c], sinceSent[f])
           \/ sinceSent[f] = NULL
    BY <1>o, <2>1 DEF IntervalInv
  <2> QED
    BY <1>o, <2>1, <2>2, <2>3, <2>4 DEF IntervalInv
<1>10. ASSUME NEW w \in Refreshers, TouchDigest(w)
       PROVE  IntervalInv'
  <2>1. /\ pc[w] = "touchDigest" /\ pc'[w] = "idle" /\ drafts'[w] = {}
        /\ UNCHANGED <<owner, sinceSent>>
        /\ \A c \in Contents :
              sinceNotified'[c] = IF c \in drafts[w] THEN 0 ELSE sinceNotified[c]
    BY <1>10, <1>t DEF TouchDigest, Forget, TypeOK
  <2>2. /\ drafts[w] # {} /\ drafts[w] \subseteq Contents
        /\ \A c \in drafts[w] : owner[c] = feed[w]
    BY <1>t, <2>1 DEF IntervalInv, TypeOK
  <2>3. \A f \in Feeds : Accounts(0, sinceSent[f])
    BY <1>t, PipelineAssumptions DEF Accounts, TypeOK, Ages
  <2>4. \A f \in Feeds :
           \/ \E c \in Contents : owner[c] = f /\ Accounts(sinceNotified'[c], sinceSent[f])
           \/ sinceSent[f] = NULL
    <3> SUFFICES ASSUME NEW f \in Feeds, sinceSent[f] # NULL
                 PROVE  \E c \in Contents : owner[c] = f /\ Accounts(sinceNotified'[c], sinceSent[f])
      OBVIOUS
    <3>1. CASE f = feed[w]
      BY <2>1, <2>2, <2>3, <3>1
    <3>2. CASE f # feed[w]
      <4>1. PICK c \in Contents : owner[c] = f /\ Accounts(sinceNotified[c], sinceSent[f])
        BY <1>o, <3>2 DEF IntervalInv
      <4> QED
        BY <2>1, <2>2, <3>2, <4>1
    <3> QED
      BY <3>1, <3>2
  <2> QED
    BY <1>o, <2>1, <2>4 DEF IntervalInv
<1>11. ASSUME NEW w \in Refreshers, EndRefresh(w)
       PROVE  IntervalInv'
  <2>1. /\ pc[w] = "next" /\ pc'[w] = "idle" /\ drafts'[w] = {}
        /\ UNCHANGED <<owner, sinceNotified, sinceSent>>
    BY <1>11, <1>t DEF EndRefresh, Forget, TypeOK, storeVars
  <2> QED
    BY <1>o, <2>1 DEF IntervalInv
<1>12. CASE Tick
  <2>1. \A w \in Refreshers : pc[w] = "idle"
    BY <1>12 DEF Tick
  <2>2. /\ UNCHANGED <<owner, refreshVars>>
        /\ \A c \in Contents : sinceNotified'[c] = Older(sinceNotified[c])
        /\ \A f \in Feeds : sinceSent'[f] = Older(sinceSent[f])
    BY <1>12 DEF Tick
  <2>3. \A a \in Ages \cup {NULL}, b \in Ages \cup {NULL} :
           Accounts(a, b) => Accounts(Older(a), Older(b))
    BY PipelineAssumptions DEF Accounts, Older, Ages
  <2>4. Older(NULL) = NULL
    BY DEF Older
  <2>5. \A f \in Feeds :
           \/ \E c \in Contents : owner[c] = f /\ Accounts(sinceNotified'[c], sinceSent'[f])
           \/ sinceSent'[f] = NULL
    <3> SUFFICES ASSUME NEW f \in Feeds, sinceSent'[f] # NULL
                 PROVE  \E c \in Contents : owner[c] = f /\ Accounts(sinceNotified'[c], sinceSent'[f])
      OBVIOUS
    <3>1. PICK c \in Contents : owner[c] = f /\ Accounts(sinceNotified[c], sinceSent[f])
      BY <2>1, <2>2, <2>4 DEF IntervalInv
    <3>2. sinceNotified[c] \in Ages \cup {NULL} /\ sinceSent[f] \in Ages \cup {NULL}
      BY <1>t DEF TypeOK
    <3> QED
      BY <2>2, <2>3, <3>1, <3>2
  <2> QED
    BY <2>1, <2>2, <2>5 DEF IntervalInv, refreshVars
<1>13. ~Crash
  BY <1>t DEF Crash, TypeOK
<1>14. CASE ~Tick /\ \A w \in Refreshers : ~RefreshStep(w)
  <2>1. UNCHANGED <<owner, sinceNotified, sinceSent, refreshVars>>
    BY <1>13, <1>14, OthersKeepBatches
  <2> QED
    BY <2>1 DEF IntervalInv, refreshVars, Signed, Identity
<1> QED
  BY <1>2, <1>3, <1>4, <1>5, <1>6, <1>7, <1>8, <1>9, <1>10, <1>11, <1>12, <1>14 DEF RefreshStep

LEMMA NextKeepsInterval ==
    ASSUME TypeInv, IntervalInv, NEW w \in Refreshers, Send(w) \/ QueueDigest(w), ~policy[w].priority
    PROVE  sinceSent[feed[w]] = NULL \/ sinceSent[feed[w]] >= policy[w].interval
<1>1. pc[w] \in {"next", "decide"} /\ ~TooSoon(policy[w], last[w])
  BY DecisionType DEF Send, QueueDigest, IntervalInv
<1>2. Accounts(last[w], sinceSent[feed[w]])
  BY <1>1 DEF IntervalInv
<1>3. /\ policy[w].interval \in Nat
      /\ last[w] \in Nat \cup {NULL} /\ sinceSent[feed[w]] \in Nat \cup {NULL}
  BY <1>1, PipelineAssumptions DEF TypeInv, TypeOK, Ages
<1> QED
  BY <1>1, <1>2, <1>3 DEF Accounts, TooSoon

\* Notifications of a feed without priority are the minimum interval apart, for one
\* refresher that is not killed: within a batch, from one to the next, in digests, and
\* when the content of one feed is signed by another.
THEOREM NotificationsKeepInterval ==
    ASSUME OneRefresher, MaxCrashes = 0
    PROVE  Spec => IntervalIsKept
<1>1. Init => IntervalInv
  BY DEF Init, IntervalInv
<1>2. TypeInv /\ IntervalInv =>
         [\A w \in Refreshers :
             (Send(w) \/ QueueDigest(w)) /\ ~policy[w].priority =>
                 \/ sinceSent[feed[w]] = NULL
                 \/ sinceSent[feed[w]] >= policy[w].interval]_vars
  BY NextKeepsInterval
<1> QED
  BY <1>1, <1>2, InitTypeInv, NextTypeInv, NextIntervalInv, PTL DEF Spec, IntervalIsKept

=============================================================================
