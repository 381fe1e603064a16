------------------------- MODULE FeedSchedule_proofs -------------------------
(***************************************************************************)
(* The storage schedule, proved for any number of feeds and groups, any    *)
(* intervals and any length of the day.                                    *)
(***************************************************************************)
EXTENDS FeedSchedule, RefreshPolicy_proofs

\* Inheritance ends in a settings record whatever rows are missing.
LEMMA InheritType ==
    ASSUME NEW own \in Settings \cup {NULL}, NEW group \in Groups \cup {NULL},
           NEW perGroup \in [Groups -> Settings \cup {NULL}], NEW global \in Settings
    PROVE  Inherit(own, group, perGroup, global) \in Settings
  BY DEF Inherit

LEMMA EffectiveType ==
    ASSUME TypeOK, NEW f \in Feeds
    PROVE  ResolveEffective(f) \in Settings
  BY InheritType DEF TypeOK, ResolveEffective

LEMMA IntervalType ==
    ASSUME NEW s \in Settings
    PROVE  s.interval \in Nat \ {0} /\ s.enabled \in BOOLEAN
  BY FeedScheduleAssumptions DEF Settings

\* A stored schedule is NULL exactly when refreshing is off, and else one to
\* DayCap units away.
LEMMA ScheduleType ==
    ASSUME TypeOK, NEW f \in Feeds, NEW s \in Settings
    PROVE  /\ s.enabled => Schedule(f, s) \in 1 .. DayCap
           /\ ~s.enabled => Schedule(f, s) = NULL
<1>1. /\ (~fetched[f]) \in BOOLEAN
      /\ health[f] \in Health
      /\ failures[f] \in Nat
  BY FeedScheduleAssumptions DEF TypeOK
<1>2. ComputeNextScheduledFetch(~fetched[f], health[f], failures[f], s.interval) \in 1 .. DayCap
  BY <1>1, IntervalType, WaitBounded
<1> QED
  BY <1>2 DEF Schedule

\* Rescheduling some feeds keeps dueIn well typed when the settings it reads are.
LEMMA RecalculateType ==
    ASSUME TypeOK, NEW changed, Recalculate(changed),
           feedSettings' \in [Feeds -> Settings \cup {NULL}],
           memberOf' \in [Feeds -> Groups \cup {NULL}],
           groupSettings' \in [Groups -> Settings \cup {NULL}],
           globals' \in Settings
    PROVE  dueIn' \in [Feeds -> (-MaxLate .. DayCap) \cup {NULL}]
<1> DEFINE Now(f) == Inherit(feedSettings'[f], memberOf'[f], groupSettings', globals')
<1>1. ASSUME NEW f \in Feeds
      PROVE  Schedule(f, Now(f)) \in (-MaxLate .. DayCap) \cup {NULL}
  <2>1. Now(f) \in Settings
    BY InheritType
  <2>2. /\ Now(f).enabled => Schedule(f, Now(f)) \in 1 .. DayCap
        /\ ~Now(f).enabled => Schedule(f, Now(f)) = NULL
    BY <2>1, ScheduleType
  <2>3. 1 .. DayCap \subseteq -MaxLate .. DayCap
    BY FeedScheduleAssumptions, DayCapAssumption
  <2> HIDE DEF Now
  <2> QED
    BY <2>2, <2>3
<1>2. dueIn' = [f \in Feeds |-> IF f \in changed \cap live THEN Schedule(f, Now(f)) ELSE dueIn[f]]
  BY DEF Recalculate
<1>3. \A f \in Feeds : dueIn[f] \in (-MaxLate .. DayCap) \cup {NULL}
  BY DEF TypeOK
<1> HIDE DEF Now
<1> QED
  BY <1>1, <1>2, <1>3

-----------------------------------------------------------------------------
\* What record_fetch_result reads of a row, and what any such read makes it write,
\* is well typed.
Reading == [failures : 0 .. MaxFailures, isNew : BOOLEAN, settings : Settings]

LEMMA ReadType ==
    ASSUME TypeOK, NEW f \in Feeds
    PROVE  ReadForRecord(f) \in Reading
<1>1. failures[f] \in 0 .. MaxFailures /\ (~fetched[f]) \in BOOLEAN
  BY DEF TypeOK
<1> QED
  BY <1>1, EffectiveType DEF ReadForRecord, Reading

LEMMA WriteType ==
    ASSUME TypeOK, NEW f \in Feeds, NEW success \in BOOLEAN, NEW read \in Reading,
           WriteFetchResult(f, success, read)
    PROVE  TypeOK'
<1> DEFINE count == IF success THEN 0 ELSE AtMost(read.failures + 1, MaxFailures)
           s     == read.settings
           next  == ComputeNextScheduledFetch(read.isNew, HealthAfter(count), count, s.interval)
<1>1. count \in 0 .. MaxFailures /\ count \in Nat
  BY FeedScheduleAssumptions DEF AtMost, Reading
<1>2. s \in Settings
  BY DEF Reading
<1>3. HealthAfter(count) \in Health
  BY <1>1, HealthAfterType
<1>4. next \in -MaxLate .. DayCap
  <2>1. read.isNew \in BOOLEAN
    BY DEF Reading
  <2>2. next \in 1 .. DayCap
    <3> HIDE DEF count, s
    <3> QED  BY <1>1, <1>2, <1>3, <2>1, IntervalType, WaitBounded
  <2> HIDE DEF next
  <2> QED  BY <2>2, FeedScheduleAssumptions, DayCapAssumption
<1>5. /\ fetched' = [fetched EXCEPT ![f] = TRUE]
      /\ failures' = [failures EXCEPT ![f] = count]
      /\ health' = [health EXCEPT ![f] = HealthAfter(count)]
      /\ dueIn' = [dueIn EXCEPT ![f] = IF s.enabled THEN next ELSE NULL]
      /\ sinceFetch' = [sinceFetch EXCEPT ![f] = 0]
      /\ UNCHANGED <<live, settingsVars>>
  BY DEF WriteFetchResult
<1> HIDE DEF count, s, next
<1> QED
  BY <1>1, <1>3, <1>4, <1>5, DayCapAssumption DEF settingsVars, TypeOK

LEMMA NextTypeOK == TypeOK /\ [Next]_scheduleVars => TypeOK'
<1> SUFFICES ASSUME TypeOK, [Next]_scheduleVars PROVE TypeOK'
  OBVIOUS
<1> USE DEF TypeOK
<1>1. ASSUME NEW g \in Groups, CreateGroup(g) PROVE TypeOK'
  BY <1>1 DEF CreateGroup, rowVars
<1>2. ASSUME NEW g \in Groups, DeleteGroup(g) PROVE TypeOK'
  <2>1. /\ groups' \subseteq Groups
        /\ memberOf' \in [Feeds -> Groups \cup {NULL}]
        /\ groupSettings' \in [Groups -> Settings \cup {NULL}]
        /\ UNCHANGED <<feedSettings, globals, live, rowVars>>
    BY <1>2 DEF DeleteGroup
  <2>2. Recalculate(MembersOf(g))
    BY <1>2 DEF DeleteGroup
  <2> QED  BY <2>1, <2>2, RecalculateType DEF rowVars
<1>3. ASSUME NEW g \in Groups, DeleteGroupRefreshSettings(g) PROVE TypeOK'
  <2>1. /\ groupSettings' \in [Groups -> Settings \cup {NULL}]
        /\ UNCHANGED <<groups, memberOf, feedSettings, globals, live, rowVars>>
    BY <1>3 DEF DeleteGroupRefreshSettings
  <2>2. Recalculate(MembersOf(g))
    BY <1>3 DEF DeleteGroupRefreshSettings
  <2> QED  BY <2>1, <2>2, RecalculateType DEF rowVars
<1>4. ASSUME NEW f \in Feeds, NEW g \in Groups \cup {NULL}, SetFeedGroup(f, g) PROVE TypeOK'
  <2>1. /\ memberOf' \in [Feeds -> Groups \cup {NULL}]
        /\ UNCHANGED <<groups, feedSettings, groupSettings, globals, live, rowVars>>
    BY <1>4 DEF SetFeedGroup
  <2>2. Recalculate({f})
    BY <1>4 DEF SetFeedGroup
  <2> QED  BY <2>1, <2>2, RecalculateType DEF rowVars
<1>5. ASSUME NEW f \in Feeds, NEW s \in Settings, UpsertFeedRefreshSettings(f, s) PROVE TypeOK'
  <2>1. /\ feedSettings' \in [Feeds -> Settings \cup {NULL}]
        /\ UNCHANGED <<groups, memberOf, groupSettings, globals, live, rowVars>>
    BY <1>5 DEF UpsertFeedRefreshSettings
  <2>2. Recalculate({f})
    BY <1>5 DEF UpsertFeedRefreshSettings
  <2> QED  BY <2>1, <2>2, RecalculateType DEF rowVars
<1>6. ASSUME NEW f \in Feeds, DeleteFeedRefreshSettings(f) PROVE TypeOK'
  <2>1. /\ feedSettings' \in [Feeds -> Settings \cup {NULL}]
        /\ UNCHANGED <<groups, memberOf, groupSettings, globals, live, rowVars>>
    BY <1>6 DEF DeleteFeedRefreshSettings
  <2>2. Recalculate({f})
    BY <1>6 DEF DeleteFeedRefreshSettings
  <2> QED  BY <2>1, <2>2, RecalculateType DEF rowVars
<1>7. ASSUME NEW g \in Groups, NEW s \in Settings, UpsertGroupRefreshSettings(g, s) PROVE TypeOK'
  <2>1. /\ groupSettings' \in [Groups -> Settings \cup {NULL}]
        /\ UNCHANGED <<groups, memberOf, feedSettings, globals, live, rowVars>>
    BY <1>7 DEF UpsertGroupRefreshSettings
  <2>2. Recalculate(MembersOf(g))
    BY <1>7 DEF UpsertGroupRefreshSettings
  <2> QED  BY <2>1, <2>2, RecalculateType DEF rowVars
<1>8. ASSUME NEW s \in Settings, SetGlobalSettings(s) PROVE TypeOK'
  <2>1. /\ globals' \in Settings
        /\ UNCHANGED <<groups, memberOf, feedSettings, groupSettings, live, rowVars>>
    BY <1>8 DEF SetGlobalSettings
  <2>2. Recalculate(live)
    BY <1>8 DEF SetGlobalSettings
  <2> QED  BY <2>1, <2>2, RecalculateType DEF rowVars
<1>9. ASSUME NEW f \in Feeds, UpsertNewFeed(f) PROVE TypeOK'
  <2>1. globals.interval \in Nat \ {0}
    BY IntervalType
  <2> DEFINE w == ComputeNextScheduledFetch(TRUE, "Healthy", 0, globals.interval)
  <2>2. w \in 1 .. DayCap
    BY <2>1, NewWaitBounded DEF Health
  <2>3. dueIn' = [dueIn EXCEPT ![f] = w]
    BY <1>9 DEF UpsertNewFeed
  <2> HIDE DEF w
  <2>4. dueIn' \in [Feeds -> (-MaxLate .. DayCap) \cup {NULL}]
    BY <2>2, <2>3, FeedScheduleAssumptions, DayCapAssumption
  <2> QED  BY <1>9, <2>4 DEF UpsertNewFeed, rowVars, settingsVars
<1>10. ASSUME NEW f \in Feeds, DeleteFeed(f) PROVE TypeOK'
  BY <1>10, FeedScheduleAssumptions, DayCapAssumption DEF DeleteFeed, Health
<1>11. ASSUME NEW f \in Feeds, NEW success \in BOOLEAN, RecordFetchResult(f, success) PROVE TypeOK'
  BY <1>11, ReadType, WriteType DEF RecordFetchResult
<1>12. CASE Tick
  <2>1. dueIn' \in [Feeds -> (-MaxLate .. DayCap) \cup {NULL}]
    BY <1>12, FeedScheduleAssumptions, DayCapAssumption DEF Tick
  <2>2. sinceFetch' \in [Feeds -> 0 .. DayCap]
    BY <1>12, DayCapAssumption DEF Tick, AtMost
  <2> QED  BY <1>12, <2>1, <2>2 DEF Tick, settingsVars
<1>13. CASE UNCHANGED scheduleVars
  BY <1>13 DEF scheduleVars, rowVars, settingsVars
<1> QED
  BY <1>1, <1>2, <1>3, <1>4, <1>5, <1>6, <1>7, <1>8, <1>9, <1>10, <1>11, <1>12, <1>13
     DEF Next, SettingsStep, FeedStep

-----------------------------------------------------------------------------
\* Type correctness: every reachable state is well typed; in particular no
\* schedule is ever further away than a day.
THEOREM TypeCorrect == Spec => []TypeOK
<1>1. Init => TypeOK
  BY FeedScheduleAssumptions, DayCapAssumption DEF Init, TypeOK, Health
<1> QED
  BY <1>1, NextTypeOK, PTL DEF Spec

-----------------------------------------------------------------------------
(***************************************************************************)
(* The inductive invariant.  RowGood is what one row must satisfy, as a    *)
(* predicate of the values of its columns d, n, h, ... under the settings  *)
(* s in force for it; the three schedule properties say it of every row,   *)
(* together with HealthFollowsFailures, without which one wait cannot be   *)
(* compared with the next.                                                 *)
(***************************************************************************)
Wait(isNew, h, n, i) == ComputeNextScheduledFetch(isNew, h, n, i)

RowGood(s, ft, h, n, d, since) ==
    /\ h = HealthAfter(n)
    /\ ~ft => n = 0
    /\ s.enabled => d # NULL /\ d <= Wait(~ft, h, n, s.interval)
    /\ ft /\ s.enabled /\ d # NULL =>
          IF d > 0 THEN d + since >= Wait(TRUE, h, n, s.interval)
                   ELSE since >= Wait(TRUE, h, n, s.interval)
    /\ ~s.enabled /\ d # NULL => ~ft

Good(f) == RowGood(ResolveEffective(f), fetched[f], health[f], failures[f], dueIn[f], sinceFetch[f])

ScheduleInv ==
    /\ HealthFollowsFailures
    /\ WaitWithinPolicy
    /\ NeverDueEarly
    /\ QuietWhenDisabled

LEMMA InvIsRowGood == ScheduleInv <=> \A f \in live : Good(f)
  BY DEF ScheduleInv, HealthFollowsFailures, WaitWithinPolicy, NeverDueEarly,
         QuietWhenDisabled, Good, RowGood, Wait

\* A row just rescheduled from the settings in force is good.
LEMMA GoodAfterReschedule ==
    ASSUME NEW s \in Settings, NEW ft \in BOOLEAN, NEW n \in Nat, NEW since \in Nat,
           ~ft => n = 0, NEW d,
           d = IF s.enabled THEN Wait(~ft, HealthAfter(n), n, s.interval) ELSE NULL
    PROVE  RowGood(s, ft, HealthAfter(n), n, d, since)
<1> DEFINE h == HealthAfter(n)
           new == Wait(TRUE, h, n, s.interval)
           w == Wait(~ft, h, n, s.interval)
<1>1. h \in Health /\ (~ft) \in BOOLEAN /\ s.interval \in Nat \ {0}
  BY HealthAfterType, IntervalType
<1>2. w \in 1 .. DayCap
  <2> HIDE DEF h
  <2> QED  BY <1>1, WaitBounded DEF Wait
<1>3. new \in 1 .. DayCap
  <2> HIDE DEF h
  <2> QED  BY <1>1, NewWaitBounded DEF Wait
<1>4. new <= w
  <2> HIDE DEF h
  <2> QED  BY <1>1, NewWaitsLess DEF Wait
<1>5. w # NULL
  <2> HIDE DEF w
  <2> QED  BY <1>2, FeedScheduleAssumptions, DayCapAssumption
<1>6. s.enabled => d = w
  OBVIOUS
<1>7. ~s.enabled => d = NULL
  OBVIOUS
<1>8. s.enabled => d # NULL /\ d <= w
  <2> HIDE DEF w
  <2> QED  BY <1>2, <1>5, <1>6, DayCapAssumption
<1>9. ft /\ s.enabled /\ d # NULL => IF d > 0 THEN d + since >= new ELSE since >= new
  <2> HIDE DEF w, new
  <2> QED  BY <1>2, <1>3, <1>4, <1>6, DayCapAssumption
<1> HIDE DEF w, new, h
<1>10. /\ h = HealthAfter(n)
       /\ w = Wait(~ft, HealthAfter(n), n, s.interval)
       /\ new = Wait(TRUE, HealthAfter(n), n, s.interval)
  BY DEF h, w, new
<1> QED
  BY <1>7, <1>8, <1>9, <1>10 DEF RowGood

\* A row just written by record_fetch_result is good.
LEMMA GoodAfterRecord ==
    ASSUME NEW s \in Settings, NEW isNew \in BOOLEAN, NEW n \in Nat, NEW d,
           d = IF s.enabled THEN Wait(isNew, HealthAfter(n), n, s.interval) ELSE NULL
    PROVE  RowGood(s, TRUE, HealthAfter(n), n, d, 0)
<1> DEFINE h == HealthAfter(n)
           new == Wait(TRUE, h, n, s.interval)
           old == Wait(FALSE, h, n, s.interval)
           w == Wait(isNew, h, n, s.interval)
<1>1. h \in Health /\ s.interval \in Nat \ {0}
  BY HealthAfterType, IntervalType
<1>2. w \in 1 .. DayCap /\ new \in 1 .. DayCap /\ new <= w
  <2> HIDE DEF h
  <2> QED  BY <1>1, WaitBounded, NewWaitBounded, NewWaitsLess DEF Wait
<1>3. \A b \in BOOLEAN : new <= Wait(b, h, n, s.interval)
  <2> HIDE DEF h
  <2> QED  BY <1>1, NewWaitsLess DEF Wait
<1>4. w <= old /\ old \in Int
  <2>1. \A b \in BOOLEAN : Wait(b, h, n, s.interval) \in 1 .. DayCap
    <3> HIDE DEF h
    <3> QED  BY <1>1, WaitBounded DEF Wait
  <2>2. old \in 1 .. DayCap
    BY <2>1, Zenon
  <2>3. new <= old
    BY <1>3, Zenon
  <2>4. isNew = TRUE \/ isNew = FALSE
    OBVIOUS
  <2>5. w = new \/ w = old
    BY <2>4, Zenon
  <2> HIDE DEF new, old, w
  <2> QED  BY <2>2, <2>3, <2>5
<1>5. w # NULL
  <2> HIDE DEF w
  <2> QED  BY <1>2, FeedScheduleAssumptions, DayCapAssumption
<1>6. s.enabled => d = w
  OBVIOUS
<1>7. ~s.enabled => d = NULL
  OBVIOUS
<1>8. s.enabled => d # NULL /\ d <= old
  <2> HIDE DEF w, old
  <2> QED  BY <1>4, <1>5, <1>6
<1>9. s.enabled /\ d # NULL => IF d > 0 THEN d + 0 >= new ELSE 0 >= new
  <2> HIDE DEF w, new
  <2> QED  BY <1>2, <1>6, DayCapAssumption
<1>10. (~TRUE) = FALSE
  OBVIOUS
<1> HIDE DEF w, new, old, h
<1>11. /\ h = HealthAfter(n)
       /\ old = Wait(~TRUE, HealthAfter(n), n, s.interval)
       /\ new = Wait(TRUE, HealthAfter(n), n, s.interval)
  BY <1>10, Zenon DEF h, old, new
<1> QED
  BY <1>7, <1>8, <1>9, <1>11 DEF RowGood

\* The passage of one unit of time keeps a good row good.
LEMMA GoodAfterTick ==
    ASSUME NEW s \in Settings, NEW ft \in BOOLEAN, NEW h \in Health, NEW n \in Nat,
           NEW d \in (-MaxLate .. DayCap) \cup {NULL}, NEW since \in 0 .. DayCap,
           RowGood(s, ft, h, n, d, since),
           NEW d2, d2 = IF d = NULL \/ d = -MaxLate THEN d ELSE d - 1,
           NEW since2, since2 = IF ft THEN AtMost(since + 1, DayCap) ELSE 0
    PROVE  RowGood(s, ft, h, n, d2, since2)
<1> DEFINE new == Wait(TRUE, h, n, s.interval)
           w == Wait(~ft, h, n, s.interval)
<1>1. (~ft) \in BOOLEAN /\ s.interval \in Nat \ {0}
  BY IntervalType
<1>2. w \in 1 .. DayCap
  BY <1>1, WaitBounded DEF Wait
<1>3. new \in 1 .. DayCap
  BY <1>1, NewWaitBounded DEF Wait
<1>4. d2 = NULL <=> d = NULL
  BY FeedScheduleAssumptions
<1>5. s.enabled => d2 # NULL /\ d2 <= w
  <2>1. s.enabled => d # NULL /\ d <= w
    BY DEF RowGood
  <2> HIDE DEF w
  <2> QED  BY <1>2, <1>4, <2>1, FeedScheduleAssumptions, DayCapAssumption
<1>6. ft /\ s.enabled /\ d2 # NULL => IF d2 > 0 THEN d2 + since2 >= new ELSE since2 >= new
  <2> SUFFICES ASSUME ft, s.enabled, d2 # NULL
               PROVE  IF d2 > 0 THEN d2 + since2 >= new ELSE since2 >= new
    OBVIOUS
  <2>1. IF d > 0 THEN d + since >= new ELSE since >= new
    BY <1>4 DEF RowGood
  <2>2. d \in -MaxLate .. DayCap /\ MaxLate \in Nat /\ DayCap \in Nat
    BY <1>4, FeedScheduleAssumptions, DayCapAssumption
  <2>3. d2 = IF d = -MaxLate THEN d ELSE d - 1
    BY <1>4
  <2>4. since2 = IF since + 1 <= DayCap THEN since + 1 ELSE DayCap
    BY DEF AtMost
  <2> HIDE DEF new
  <2> QED  BY <1>3, <2>1, <2>2, <2>3, <2>4
<1>7. h = HealthAfter(n) /\ (~ft => n = 0) /\ (~s.enabled /\ d2 # NULL => ~ft)
  BY <1>4 DEF RowGood
<1> HIDE DEF new, w
<1>8. w = Wait(~ft, h, n, s.interval) /\ new = Wait(TRUE, h, n, s.interval)
  BY DEF w, new
<1> QED
  BY <1>5, <1>6, <1>7, <1>8 DEF RowGood

-----------------------------------------------------------------------------
\* An operation that changes settings keeps the invariant, provided it reschedules
\* every feed whose effective settings it changes.
LEMMA SettingsChangeKeepsInv ==
    ASSUME TypeOK, TypeOK', ScheduleInv, NEW changed, Recalculate(changed),
           UNCHANGED <<live, rowVars>>,
           \A f \in live \ changed : ResolveEffective(f)' = ResolveEffective(f)
    PROVE  ScheduleInv'
<1> SUFFICES ASSUME NEW f \in live PROVE Good(f)'
  <2>1. live' = live
    BY DEF rowVars
  <2>2. ScheduleInv' <=> \A f \in live' : Good(f)'
    BY DEF ScheduleInv, HealthFollowsFailures, WaitWithinPolicy, NeverDueEarly,
           QuietWhenDisabled, Good, RowGood, Wait
  <2> QED  BY <2>1, <2>2
<1>1. f \in Feeds /\ Good(f)
  BY InvIsRowGood DEF TypeOK
<1>2. /\ fetched'[f] = fetched[f]
      /\ health'[f] = health[f]
      /\ failures'[f] = failures[f]
      /\ sinceFetch'[f] = sinceFetch[f]
  BY DEF rowVars
<1>3. CASE f \in changed
  <2> DEFINE s == ResolveEffective(f)'
  <2>1. s \in Settings
    <3>1. s = Inherit(feedSettings'[f], memberOf'[f], groupSettings', globals')
      BY DEF ResolveEffective
    <3>2. /\ feedSettings'[f] \in Settings \cup {NULL}
          /\ memberOf'[f] \in Groups \cup {NULL}
          /\ groupSettings' \in [Groups -> Settings \cup {NULL}]
          /\ globals' \in Settings
      BY <1>1 DEF TypeOK
    <3> QED  BY <3>1, <3>2, InheritType
  <2>2. health[f] = HealthAfter(failures[f]) /\ (~fetched[f] => failures[f] = 0)
    BY <1>1 DEF Good, RowGood
  <2>3. fetched[f] \in BOOLEAN /\ failures[f] \in Nat /\ sinceFetch[f] \in Nat
    BY <1>1, FeedScheduleAssumptions, DayCapAssumption DEF TypeOK
  <2>4. dueIn'[f] = Schedule(f, s)
    BY <1>1, <1>3 DEF Recalculate, ResolveEffective
  <2>5. dueIn'[f] = IF s.enabled
                    THEN Wait(~fetched[f], HealthAfter(failures[f]), failures[f], s.interval)
                    ELSE NULL
    BY <2>2, <2>4 DEF Schedule, Wait
  <2> HIDE DEF s
  <2>6. RowGood(s, fetched[f], HealthAfter(failures[f]), failures[f], dueIn'[f], sinceFetch[f])
    BY <2>1, <2>2, <2>3, <2>5, GoodAfterReschedule
  <2>7. RowGood(s, fetched'[f], health'[f], failures'[f], dueIn'[f], sinceFetch'[f])
    BY <1>2, <2>2, <2>6
  <2> QED  BY <2>7 DEF Good, s
<1>4. CASE f \notin changed
  <2>1. dueIn'[f] = dueIn[f]
    BY <1>1, <1>4 DEF Recalculate
  <2>2. ResolveEffective(f)' = ResolveEffective(f)
    BY <1>4
  <2>3. RowGood(ResolveEffective(f), fetched[f], health[f], failures[f], dueIn[f], sinceFetch[f])
    BY <1>1 DEF Good
  <2>4. RowGood(ResolveEffective(f)', fetched'[f], health'[f], failures'[f], dueIn'[f], sinceFetch'[f])
    BY <1>2, <2>1, <2>2, <2>3
  <2> QED  BY <2>4 DEF Good
<1> QED
  BY <1>3, <1>4

\* A step that touches the row of one feed only keeps the invariant, provided it
\* leaves that row good or removes it.
LEMMA RowChangeKeepsInv ==
    ASSUME ScheduleInv, NEW f \in Feeds,
           live' \subseteq live \cup {f},
           f \in live' => Good(f)',
           \A k \in live \ {f} :
              /\ ResolveEffective(k)' = ResolveEffective(k)
              /\ fetched'[k] = fetched[k]
              /\ health'[k] = health[k]
              /\ failures'[k] = failures[k]
              /\ dueIn'[k] = dueIn[k]
              /\ sinceFetch'[k] = sinceFetch[k]
    PROVE  ScheduleInv'
<1>1. ASSUME NEW k \in live', k # f PROVE Good(k)'
  <2>1. k \in live \ {f} /\ Good(k)
    BY <1>1, InvIsRowGood
  <2>2. RowGood(ResolveEffective(k), fetched[k], health[k], failures[k], dueIn[k], sinceFetch[k])
    BY <2>1 DEF Good
  <2>3. RowGood(ResolveEffective(k)', fetched'[k], health'[k], failures'[k], dueIn'[k], sinceFetch'[k])
    BY <2>1, <2>2
  <2> QED  BY <2>3 DEF Good
<1>2. \A k \in live' : Good(k)'
  BY <1>1
<1> QED
  BY <1>2 DEF ScheduleInv, HealthFollowsFailures, WaitWithinPolicy, NeverDueEarly,
              QuietWhenDisabled, Good, RowGood, Wait

\* What every operation on settings or groups does: it reschedules some feeds, the
\* others keep their effective settings, and no row changes otherwise.
Reschedules ==
    /\ UNCHANGED <<live, rowVars>>
    /\ \E changed : /\ Recalculate(changed)
                    /\ \A f \in live \ changed : ResolveEffective(f)' = ResolveEffective(f)

LEMMA SettingsStepReschedules ==
    ASSUME TypeOK, SettingsStep PROVE Reschedules
<1>1. ASSUME NEW g \in Groups, CreateGroup(g) PROVE Reschedules
  <2>1. Recalculate({})
    BY <1>1 DEF CreateGroup, Recalculate, TypeOK
  <2>2. \A f \in live : ResolveEffective(f)' = ResolveEffective(f)
    BY <1>1 DEF CreateGroup, ResolveEffective
  <2> QED  BY <1>1, <2>1, <2>2 DEF CreateGroup, Reschedules
<1>2. ASSUME NEW g \in Groups, DeleteGroup(g) PROVE Reschedules
  <2>1. Recalculate(MembersOf(g)) /\ UNCHANGED <<live, rowVars>>
    BY <1>2 DEF DeleteGroup
  <2>2. ASSUME NEW f \in live \ MembersOf(g)
        PROVE  ResolveEffective(f)' = ResolveEffective(f)
    <3>1. f \in Feeds /\ memberOf[f] # g
      BY DEF MembersOf, TypeOK
    <3>2. memberOf'[f] = memberOf[f] /\ memberOf[f] \in Groups \cup {NULL}
      BY <1>2, <3>1 DEF DeleteGroup, TypeOK
    <3>3. memberOf[f] # NULL => groupSettings'[memberOf[f]] = groupSettings[memberOf[f]]
      BY <1>2, <3>1, <3>2 DEF DeleteGroup, TypeOK
    <3>4. feedSettings' = feedSettings /\ globals' = globals
      BY <1>2 DEF DeleteGroup
    <3> QED  BY <3>2, <3>3, <3>4 DEF ResolveEffective, Inherit
  <2> QED  BY <2>1, <2>2 DEF Reschedules
<1>3. ASSUME NEW g \in Groups, DeleteGroupRefreshSettings(g) PROVE Reschedules
  <2>1. Recalculate(MembersOf(g)) /\ UNCHANGED <<live, rowVars>>
    BY <1>3 DEF DeleteGroupRefreshSettings
  <2>2. ASSUME NEW f \in live \ MembersOf(g)
        PROVE  ResolveEffective(f)' = ResolveEffective(f)
    <3>1. f \in Feeds /\ memberOf[f] # g /\ memberOf[f] \in Groups \cup {NULL}
      BY DEF MembersOf, TypeOK
    <3>2. memberOf[f] # NULL => groupSettings'[memberOf[f]] = groupSettings[memberOf[f]]
      BY <1>3, <3>1 DEF DeleteGroupRefreshSettings, TypeOK
    <3>3. memberOf' = memberOf /\ feedSettings' = feedSettings /\ globals' = globals
      BY <1>3 DEF DeleteGroupRefreshSettings
    <3> QED  BY <3>2, <3>3 DEF ResolveEffective, Inherit
  <2> QED  BY <2>1, <2>2 DEF Reschedules
<1>4. ASSUME NEW f \in Feeds, NEW g \in Groups \cup {NULL}, SetFeedGroup(f, g) PROVE Reschedules
  <2>1. Recalculate({f}) /\ UNCHANGED <<live, rowVars>>
    BY <1>4 DEF SetFeedGroup
  <2>2. \A k \in live \ {f} : ResolveEffective(k)' = ResolveEffective(k)
    BY <1>4 DEF SetFeedGroup, ResolveEffective, Inherit, TypeOK
  <2> QED  BY <2>1, <2>2 DEF Reschedules
<1>5. ASSUME NEW f \in Feeds, NEW s \in Settings, UpsertFeedRefreshSettings(f, s)
      PROVE  Reschedules
  <2>1. Recalculate({f}) /\ UNCHANGED <<live, rowVars>>
    BY <1>5 DEF UpsertFeedRefreshSettings
  <2>2. \A k \in live \ {f} : ResolveEffective(k)' = ResolveEffective(k)
    BY <1>5 DEF UpsertFeedRefreshSettings, ResolveEffective, Inherit, TypeOK
  <2> QED  BY <2>1, <2>2 DEF Reschedules
<1>6. ASSUME NEW f \in Feeds, DeleteFeedRefreshSettings(f) PROVE Reschedules
  <2>1. Recalculate({f}) /\ UNCHANGED <<live, rowVars>>
    BY <1>6 DEF DeleteFeedRefreshSettings
  <2>2. \A k \in live \ {f} : ResolveEffective(k)' = ResolveEffective(k)
    BY <1>6 DEF DeleteFeedRefreshSettings, ResolveEffective, Inherit, TypeOK
  <2> QED  BY <2>1, <2>2 DEF Reschedules
<1>7. ASSUME NEW g \in Groups, NEW s \in Settings, UpsertGroupRefreshSettings(g, s)
      PROVE  Reschedules
  <2>1. Recalculate(MembersOf(g)) /\ UNCHANGED <<live, rowVars>>
    BY <1>7 DEF UpsertGroupRefreshSettings
  <2>2. ASSUME NEW f \in live \ MembersOf(g)
        PROVE  ResolveEffective(f)' = ResolveEffective(f)
    <3>1. f \in Feeds /\ memberOf[f] # g /\ memberOf[f] \in Groups \cup {NULL}
      BY DEF MembersOf, TypeOK
    <3>2. memberOf[f] # NULL => groupSettings'[memberOf[f]] = groupSettings[memberOf[f]]
      BY <1>7, <3>1 DEF UpsertGroupRefreshSettings, TypeOK
    <3>3. memberOf' = memberOf /\ feedSettings' = feedSettings /\ globals' = globals
      BY <1>7 DEF UpsertGroupRefreshSettings
    <3> QED  BY <3>2, <3>3 DEF ResolveEffective, Inherit
  <2> QED  BY <2>1, <2>2 DEF Reschedules
<1>8. ASSUME NEW s \in Settings, SetGlobalSettings(s) PROVE Reschedules
  <2>1. Recalculate(live) /\ UNCHANGED <<live, rowVars>>
    BY <1>8 DEF SetGlobalSettings
  <2> QED  BY <2>1 DEF Reschedules
<1> QED
  BY <1>1, <1>2, <1>3, <1>4, <1>5, <1>6, <1>7, <1>8 DEF SettingsStep

LEMMA InvInductive ==
    ASSUME TypeOK, TypeOK', AbsentFeedsBlank, ScheduleInv, [Next]_scheduleVars
    PROVE  ScheduleInv'
<1> USE DEF rowVars
<1>1. CASE SettingsStep
  BY <1>1, SettingsStepReschedules, SettingsChangeKeepsInv DEF Reschedules
<1>2. ASSUME NEW f \in Feeds, UpsertNewFeed(f) PROVE ScheduleInv'
  <2> DEFINE w == Wait(TRUE, "Healthy", 0, globals.interval)
  <2>1. /\ memberOf'[f] = NULL /\ feedSettings'[f] = NULL /\ globals' = globals
        /\ fetched'[f] = FALSE /\ failures'[f] = 0 /\ health'[f] = "Healthy"
        /\ dueIn'[f] = w
        /\ live' = live \cup {f}
    BY <1>2 DEF UpsertNewFeed, AbsentFeedsBlank, TypeOK, settingsVars, Wait
  <2>2. ResolveEffective(f)' = globals
    BY <2>1 DEF ResolveEffective, Inherit
  <2>3. w # NULL /\ w <= w
    <3>1. w \in 1 .. DayCap
      BY IntervalType, NewWaitBounded DEF TypeOK, Wait, Health
    <3> HIDE DEF w
    <3> QED  BY <3>1, FeedScheduleAssumptions, DayCapAssumption
  <2>4. (~FALSE) = TRUE
    OBVIOUS
  <2>5. w = Wait(~fetched'[f], health'[f], failures'[f], globals.interval)
    BY <2>1, <2>4, Zenon
  <2>6. "Healthy" = HealthAfter(0)
    BY DEF HealthAfter
  <2> HIDE DEF w
  <2>7. RowGood(globals, fetched'[f], health'[f], failures'[f], dueIn'[f], sinceFetch'[f])
    BY <2>1, <2>3, <2>5, <2>6 DEF RowGood
  <2>8. Good(f)'
    BY <2>2, <2>7 DEF Good
  <2>9. \A k \in live \ {f} :
           /\ ResolveEffective(k)' = ResolveEffective(k)
           /\ fetched'[k] = fetched[k]
           /\ health'[k] = health[k]
           /\ failures'[k] = failures[k]
           /\ dueIn'[k] = dueIn[k]
           /\ sinceFetch'[k] = sinceFetch[k]
    BY <1>2 DEF UpsertNewFeed, ResolveEffective, settingsVars, TypeOK
  <2> QED  BY <2>1, <2>8, <2>9, RowChangeKeepsInv
<1>3. ASSUME NEW f \in Feeds, DeleteFeed(f) PROVE ScheduleInv'
  <2>1. live' \subseteq live \cup {f} /\ f \notin live'
    BY <1>3 DEF DeleteFeed
  <2>2. \A k \in live \ {f} :
           /\ ResolveEffective(k)' = ResolveEffective(k)
           /\ fetched'[k] = fetched[k]
           /\ health'[k] = health[k]
           /\ failures'[k] = failures[k]
           /\ dueIn'[k] = dueIn[k]
           /\ sinceFetch'[k] = sinceFetch[k]
    BY <1>3 DEF DeleteFeed, ResolveEffective, Inherit, TypeOK
  <2> QED  BY <2>1, <2>2, RowChangeKeepsInv
<1>4. ASSUME NEW f \in Feeds, NEW success \in BOOLEAN, RecordFetchResult(f, success)
       PROVE  ScheduleInv'
  <2> DEFINE count == IF success THEN 0 ELSE AtMost(failures[f] + 1, MaxFailures)
             s     == ResolveEffective(f)
             isNew == ~fetched[f]
  <2>1. /\ fetched' = [fetched EXCEPT ![f] = TRUE]
        /\ failures' = [failures EXCEPT ![f] = count]
        /\ health' = [health EXCEPT ![f] = HealthAfter(count)]
        /\ dueIn' = [dueIn EXCEPT ![f] = IF s.enabled
                                         THEN Wait(isNew, HealthAfter(count), count, s.interval)
                                         ELSE NULL]
        /\ sinceFetch' = [sinceFetch EXCEPT ![f] = 0]
        /\ UNCHANGED <<live, settingsVars>>
    BY <1>4 DEF RecordFetchResult, WriteFetchResult, ReadForRecord, Wait
  <2>2. s \in Settings /\ isNew \in BOOLEAN
    BY EffectiveType
  <2>3. count \in Nat
    BY FeedScheduleAssumptions DEF AtMost, TypeOK
  <2>4. ResolveEffective(f)' = s /\ \A k \in live : ResolveEffective(k)' = ResolveEffective(k)
    BY <2>1 DEF settingsVars, ResolveEffective
  <2> HIDE DEF count, s, isNew
  <2>5. Good(f)'
    <3>1. /\ fetched'[f] = TRUE
          /\ failures'[f] = count
          /\ health'[f] = HealthAfter(count)
          /\ dueIn'[f] = IF s.enabled THEN Wait(isNew, HealthAfter(count), count, s.interval)
                                      ELSE NULL
          /\ sinceFetch'[f] = 0
      BY <2>1 DEF TypeOK
    <3>2. RowGood(s, TRUE, HealthAfter(count), count, dueIn'[f], 0)
      BY <2>2, <2>3, <3>1, GoodAfterRecord
    <3>3. RowGood(ResolveEffective(f)', fetched'[f], health'[f], failures'[f], dueIn'[f], sinceFetch'[f])
      BY <2>4, <3>1, <3>2, Zenon
    <3> QED  BY <3>3 DEF Good
  <2>6. \A k \in live \ {f} :
           /\ ResolveEffective(k)' = ResolveEffective(k)
           /\ fetched'[k] = fetched[k]
           /\ health'[k] = health[k]
           /\ failures'[k] = failures[k]
           /\ dueIn'[k] = dueIn[k]
           /\ sinceFetch'[k] = sinceFetch[k]
    BY <2>1, <2>4 DEF TypeOK
  <2> QED  BY <2>1, <2>5, <2>6, RowChangeKeepsInv
<1>5. CASE Tick
  <2>1. ASSUME NEW f \in live PROVE Good(f)'
    <3>1. f \in Feeds /\ Good(f) /\ ResolveEffective(f) \in Settings
      BY InvIsRowGood, EffectiveType DEF TypeOK
    <3>2. /\ fetched[f] \in BOOLEAN
          /\ health[f] \in Health
          /\ failures[f] \in Nat
          /\ dueIn[f] \in (-MaxLate .. DayCap) \cup {NULL}
          /\ sinceFetch[f] \in 0 .. DayCap
      BY <3>1, FeedScheduleAssumptions DEF TypeOK
    <3>3. /\ dueIn'[f] = IF dueIn[f] = NULL \/ dueIn[f] = -MaxLate THEN dueIn[f] ELSE dueIn[f] - 1
          /\ sinceFetch'[f] = IF fetched[f] THEN AtMost(sinceFetch[f] + 1, DayCap) ELSE 0
          /\ fetched' = fetched /\ health' = health /\ failures' = failures
          /\ ResolveEffective(f)' = ResolveEffective(f)
      BY <1>5, <3>1 DEF Tick, settingsVars, ResolveEffective
    <3>4. RowGood(ResolveEffective(f), fetched[f], health[f], failures[f], dueIn'[f], sinceFetch'[f])
      BY <3>1, <3>2, <3>3, GoodAfterTick DEF Good
    <3>5. RowGood(ResolveEffective(f)', fetched'[f], health'[f], failures'[f], dueIn'[f], sinceFetch'[f])
      BY <3>3, <3>4
    <3> QED  BY <3>5 DEF Good
  <2>2. \A f \in live' : Good(f)'
    BY <1>5, <2>1 DEF Tick
  <2> QED
    BY <2>2 DEF ScheduleInv, HealthFollowsFailures, WaitWithinPolicy, NeverDueEarly,
                QuietWhenDisabled, Good, RowGood, Wait
<1>6. CASE UNCHANGED scheduleVars
  BY <1>6 DEF scheduleVars, settingsVars, ScheduleInv, HealthFollowsFailures, WaitWithinPolicy,
               NeverDueEarly, QuietWhenDisabled, ResolveEffective
<1> QED
  BY <1>1, <1>2, <1>3, <1>4, <1>5, <1>6 DEF Next, FeedStep

\* Deleting a feed leaves nothing behind that refers to its id.
LEMMA BlankInductive ==
    ASSUME TypeOK, AbsentFeedsBlank, [Next]_scheduleVars
    PROVE  AbsentFeedsBlank'
<1> USE DEF AbsentFeedsBlank, TypeOK, rowVars, settingsVars
<1>1. CASE SettingsStep
  <2>1. ASSUME NEW g \in Groups, CreateGroup(g) \/ DeleteGroup(g) \/ DeleteGroupRefreshSettings(g)
        PROVE  AbsentFeedsBlank'
    BY <2>1 DEF CreateGroup, DeleteGroup, DeleteGroupRefreshSettings
  <2>2. ASSUME NEW f \in Feeds, NEW g \in Groups \cup {NULL}, SetFeedGroup(f, g)
        PROVE  AbsentFeedsBlank'
    BY <2>2 DEF SetFeedGroup
  <2>3. ASSUME NEW f \in Feeds, NEW s \in Settings, UpsertFeedRefreshSettings(f, s)
        PROVE  AbsentFeedsBlank'
    BY <2>3 DEF UpsertFeedRefreshSettings
  <2>4. ASSUME NEW f \in Feeds, DeleteFeedRefreshSettings(f)
        PROVE  AbsentFeedsBlank'
    BY <2>4 DEF DeleteFeedRefreshSettings
  <2>5. ASSUME NEW g \in Groups, NEW s \in Settings, UpsertGroupRefreshSettings(g, s)
        PROVE  AbsentFeedsBlank'
    BY <2>5 DEF UpsertGroupRefreshSettings
  <2>6. ASSUME NEW s \in Settings, SetGlobalSettings(s)
        PROVE  AbsentFeedsBlank'
    BY <2>6 DEF SetGlobalSettings
  <2> QED  BY <1>1, <2>1, <2>2, <2>3, <2>4, <2>5, <2>6 DEF SettingsStep
<1>2. CASE FeedStep
  <2>1. ASSUME NEW f \in Feeds, UpsertNewFeed(f) PROVE AbsentFeedsBlank'
    BY <2>1 DEF UpsertNewFeed
  <2>2. ASSUME NEW f \in Feeds, DeleteFeed(f) PROVE AbsentFeedsBlank'
    BY <2>2 DEF DeleteFeed
  <2>3. ASSUME NEW f \in Feeds, NEW success \in BOOLEAN, RecordFetchResult(f, success)
        PROVE  AbsentFeedsBlank'
    BY <2>3 DEF RecordFetchResult, WriteFetchResult
  <2> QED  BY <1>2, <2>1, <2>2, <2>3 DEF FeedStep
<1>3. CASE Tick
  BY <1>3 DEF Tick
<1>4. CASE UNCHANGED scheduleVars
  BY <1>4 DEF scheduleVars
<1> QED
  BY <1>1, <1>2, <1>3, <1>4 DEF Next

\* The inductive invariant holds in every reachable state.
THEOREM InvHolds == Spec => [](TypeOK /\ AbsentFeedsBlank /\ ScheduleInv)
<1>1. Init => AbsentFeedsBlank /\ ScheduleInv
  BY DEF Init, AbsentFeedsBlank, ScheduleInv, HealthFollowsFailures, WaitWithinPolicy,
         NeverDueEarly, QuietWhenDisabled
<1>2. TypeOK /\ TypeOK' /\ AbsentFeedsBlank /\ ScheduleInv /\ [Next]_scheduleVars
         => AbsentFeedsBlank' /\ ScheduleInv'
  BY BlankInductive, InvInductive
<1> QED
  BY <1>1, <1>2, TypeCorrect, PTL DEF Spec

\* However settings are inherited, changed and deleted at the three levels, a feed
\* that may be refreshed has a schedule and waits no longer than the settings now
\* in force, its health and its failures say.
THEOREM WaitsWithinPolicy == Spec => []WaitWithinPolicy
<1>1. ScheduleInv => WaitWithinPolicy
  BY DEF ScheduleInv
<1> QED
  BY <1>1, InvHolds, PTL

\* No sequence of settings changes makes a fetched feed due before the backoff
\* of its failures has passed since its last fetch.
THEOREM BackoffHonoured == Spec => []NeverDueEarly
<1>1. ScheduleInv => NeverDueEarly
  BY DEF ScheduleInv
<1> QED
  BY <1>1, InvHolds, PTL

\* A fetched feed whose refreshing is off holds no schedule.
THEOREM DisabledStaysQuiet == Spec => []QuietWhenDisabled
<1>1. ScheduleInv => QuietWhenDisabled
  BY DEF ScheduleInv
<1> QED
  BY <1>1, InvHolds, PTL

\* A failure is only ever counted by record_fetch_result.
LEMMA FailureIsRecorded ==
    ASSUME TypeOK, [Next]_scheduleVars, NEW f \in live, failures'[f] > failures[f]
    PROVE  RecordFetchResult(f, FALSE) /\ failures'[f] = failures[f] + 1
<1>1. f \in Feeds /\ failures[f] \in Nat /\ failures \in [Feeds -> 0 .. MaxFailures]
  BY FeedScheduleAssumptions DEF TypeOK
<1>2. failures' # failures
  BY <1>1
<1>3. ~SettingsStep /\ ~Tick /\ ~UNCHANGED scheduleVars
  BY <1>2 DEF SettingsStep, CreateGroup, DeleteGroup, DeleteGroupRefreshSettings, SetFeedGroup,
              UpsertFeedRefreshSettings, DeleteFeedRefreshSettings,
              UpsertGroupRefreshSettings, SetGlobalSettings, Tick, rowVars, scheduleVars
<1>4. PICK k \in Feeds : UpsertNewFeed(k) \/ DeleteFeed(k)
                           \/ \E success \in BOOLEAN : RecordFetchResult(k, success)
  BY <1>3 DEF Next, FeedStep
<1>5. ~UpsertNewFeed(k)
  BY <1>2 DEF UpsertNewFeed, rowVars
<1>6. ~DeleteFeed(k)
  BY <1>1 DEF DeleteFeed
<1>7. PICK success \in BOOLEAN : RecordFetchResult(k, success)
  BY <1>4, <1>5, <1>6
<1>8. failures' = [failures EXCEPT ![k] = IF success THEN 0 ELSE AtMost(failures[k] + 1, MaxFailures)]
  BY <1>7 DEF RecordFetchResult, WriteFetchResult, ReadForRecord
<1>9. k = f
  BY <1>1, <1>8
<1>10. ~success
  BY <1>1, <1>8, <1>9
<1>11. failures'[f] = failures[f] + 1
  BY <1>1, <1>8, <1>9, <1>10, FeedScheduleAssumptions DEF AtMost
<1>12. success = FALSE
  BY <1>10
<1> QED
  BY <1>7, <1>9, <1>11, <1>12

\* One more failure never brings the next fetch of a feed closer.
THEOREM BackoffGrows == Spec => BackoffNeverShrinks
<1>1. ASSUME TypeOK, ScheduleInv, [Next]_scheduleVars, NEW f \in live,
             failures'[f] > failures[f], dueIn[f] # NULL, dueIn'[f] # NULL
      PROVE  dueIn'[f] >= dueIn[f]
  <2> DEFINE n     == failures[f]
             s     == ResolveEffective(f)
             isNew == ~fetched[f]
             old   == Wait(isNew, HealthAfter(n), n, s.interval)
             new   == Wait(isNew, HealthAfter(n + 1), n + 1, s.interval)
  <2>1. f \in Feeds /\ n \in Nat /\ s \in Settings /\ isNew \in BOOLEAN
    BY <1>1, EffectiveType, FeedScheduleAssumptions DEF TypeOK
  <2>2. RecordFetchResult(f, FALSE) /\ failures'[f] = n + 1
    BY <1>1, FailureIsRecorded
  <2>3. dueIn'[f] = IF s.enabled THEN new ELSE NULL
    <3> DEFINE count == AtMost(n + 1, MaxFailures)
    <3>1. failures'[f] = count
      BY <1>1, <2>1, <2>2 DEF RecordFetchResult, WriteFetchResult, ReadForRecord, TypeOK
    <3>2. count = n + 1
      BY <2>2, <3>1
    <3>3. dueIn'[f] = IF s.enabled THEN Wait(isNew, HealthAfter(count), count, s.interval) ELSE NULL
      BY <1>1, <2>1, <2>2 DEF RecordFetchResult, WriteFetchResult, ReadForRecord, Wait, TypeOK
    <3> HIDE DEF count, s, isNew, n
    <3> QED  BY <3>2, <3>3
  <2>4. s.enabled
    BY <1>1, <2>3
  <2>5. health[f] = HealthAfter(n) /\ dueIn[f] <= Wait(isNew, health[f], n, s.interval)
    BY <1>1, <2>4, InvIsRowGood DEF Good, RowGood
  <2>6. old <= new
    <3> HIDE DEF n, s, isNew
    <3> QED  BY <2>1, IntervalType, WaitGrows DEF Wait
  <2>7. old \in 1 .. DayCap /\ new \in 1 .. DayCap
    <3>1. HealthAfter(n) \in Health /\ HealthAfter(n + 1) \in Health
      BY <2>1, HealthAfterType
    <3>2. n + 1 \in Nat /\ s.interval \in Nat \ {0}
      BY <2>1, IntervalType
    <3> HIDE DEF n, s, isNew
    <3>3. old \in 1 .. DayCap
      BY <2>1, <3>1, <3>2, WaitBounded DEF Wait
    <3>4. new \in 1 .. DayCap
      BY <2>1, <3>1, <3>2, WaitBounded DEF Wait
    <3> QED  BY <3>3, <3>4
  <2>8. dueIn'[f] = new /\ dueIn[f] <= old
    BY <2>3, <2>4, <2>5
  <2>9. dueIn[f] \in -MaxLate .. DayCap
    BY <1>1, <2>1 DEF TypeOK
  <2> HIDE DEF old, new
  <2> QED  BY <2>6, <2>7, <2>8, <2>9, FeedScheduleAssumptions, DayCapAssumption
<1>2. TypeOK /\ ScheduleInv /\ [Next]_scheduleVars =>
        [\A f \in live :
            failures'[f] > failures[f] /\ dueIn[f] # NULL /\ dueIn'[f] # NULL
               => dueIn'[f] >= dueIn[f]]_scheduleVars
  BY <1>1
<1> QED
  BY <1>2, InvHolds, PTL DEF Spec, BackoffNeverShrinks

=============================================================================
