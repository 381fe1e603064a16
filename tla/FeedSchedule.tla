----------------------------- MODULE FeedSchedule -----------------------------
(***************************************************************************)
(* The refresh schedule the storage crate keeps in SQLite: feeds with      *)
(* their failure counts and their next fetch, groups, and the three levels *)
(* of refresh settings (feed, group, global).  One action is one call of   *)
(* storage; each runs on one connection and is taken as one step here      *)
(* (RefreshLoop interleaves the steps of record_fetch_result).             *)
(*                                                                         *)
(* next_scheduled_fetch_at is kept as the time that is left: dueIn[f] is   *)
(* next_scheduled_fetch_at - now, NULL where the column is NULL.           *)
(***************************************************************************)
EXTENDS RefreshPolicy

CONSTANTS
    Feeds,         \* ids of feed rows
    Groups,        \* ids of group rows
    Intervals,     \* the refresh intervals users choose, in units of time
    NULL,          \* a missing row, or a NULL column
    MaxFailures,   \* bound: failure counts saturate here
    MaxLate        \* bound: a feed overdue by more than this counts as overdue by this

ASSUME FeedScheduleAssumptions ==
    /\ Intervals \subseteq Nat \ {0}
    /\ MaxFailures \in Nat /\ MaxFailures >= 3
    /\ MaxLate \in Nat
    /\ NULL \notin Int
    /\ NULL \notin Groups
    /\ NULL \notin [enabled : BOOLEAN, interval : Intervals]

VARIABLES
    live,           \* rows of feeds
    fetched,        \* last_fetch_at is set
    failures,       \* failure_count
    health,         \* health_state
    dueIn,          \* next_scheduled_fetch_at - now
    sinceFetch,     \* history: units since last_fetch_at, saturated at DayCap
    groups,         \* rows of feed_groups
    memberOf,       \* group_memberships, at most one per feed
    feedSettings,   \* rows of feed_refresh_settings
    groupSettings,  \* rows of group_refresh_settings
    globals         \* background refresh part of notification_globals

rowVars      == <<fetched, failures, health, sinceFetch>>
settingsVars == <<groups, memberOf, feedSettings, groupSettings, globals>>
scheduleVars == <<live, rowVars, dueIn, settingsVars>>

Settings == [enabled : BOOLEAN, interval : Intervals]

TypeOK ==
    /\ live \subseteq Feeds
    /\ fetched \in [Feeds -> BOOLEAN]
    /\ failures \in [Feeds -> 0 .. MaxFailures]
    /\ health \in [Feeds -> Health]
    /\ dueIn \in [Feeds -> (-MaxLate .. DayCap) \cup {NULL}]
    /\ sinceFetch \in [Feeds -> 0 .. DayCap]
    /\ groups \subseteq Groups
    /\ memberOf \in [Feeds -> Groups \cup {NULL}]
    /\ feedSettings \in [Feeds -> Settings \cup {NULL}]
    /\ groupSettings \in [Groups -> Settings \cup {NULL}]
    /\ globals \in Settings

Init ==
    /\ live = {}
    /\ fetched = [f \in Feeds |-> FALSE]
    /\ failures = [f \in Feeds |-> 0]
    /\ health = [f \in Feeds |-> "Healthy"]
    /\ dueIn = [f \in Feeds |-> NULL]
    /\ sinceFetch = [f \in Feeds |-> 0]
    /\ groups = {}
    /\ memberOf = [f \in Feeds |-> NULL]
    /\ feedSettings = [f \in Feeds |-> NULL]
    /\ groupSettings = [g \in Groups |-> NULL]
    /\ globals \in Settings

-----------------------------------------------------------------------------
(***************************************************************************)
(* Settings are inherited: the feed's own row, else its group's row, else  *)
(* the global settings.                                                    *)
(***************************************************************************)
Inherit(own, group, perGroup, global) ==
    IF own # NULL THEN own
    ELSE IF group # NULL THEN IF perGroup[group] # NULL THEN perGroup[group] ELSE global
    ELSE global

ResolveEffective(f) == Inherit(feedSettings[f], memberOf[f], groupSettings, globals)

\* Mutant: scheduled whether or not refreshing is enabled.
ScheduleAlways(f, s) ==
    ComputeNextScheduledFetch(~fetched[f], health[f], failures[f], s.interval)

\* The schedule stored for feed f under settings s.
Schedule(f, s) ==
    IF s.enabled
    THEN ComputeNextScheduledFetch(~fetched[f], health[f], failures[f], s.interval)
    ELSE NULL

\* Mutant: rescheduled from the settings before the change.
RecalculateFirst(changed) ==
    dueIn' = [f \in Feeds |->
        IF f \in changed \cap live THEN Schedule(f, ResolveEffective(f)) ELSE dueIn[f]]

\* Every operation that changes settings ends by rescheduling the feeds in
\* changed from the settings it leaves behind.
Recalculate(changed) ==
    dueIn' = [f \in Feeds |->
        IF f \in changed \cap live
        THEN Schedule(f, Inherit(feedSettings'[f], memberOf'[f], groupSettings', globals'))
        ELSE dueIn[f]]

MembersOf(g) == {f \in live : memberOf[f] = g}

IsDue(f) ==
    /\ f \in live
    /\ ResolveEffective(f).enabled
    /\ dueIn[f] # NULL => dueIn[f] <= 0

-----------------------------------------------------------------------------
\* upsert_feed on a URL with no row: the schedule follows the global interval
\* even when background refresh is off.  On a URL with a row it changes no
\* column of this module.
UpsertNewFeed(f) ==
    /\ f \notin live
    /\ live' = live \cup {f}
    /\ dueIn' = [dueIn EXCEPT ![f] =
                    ComputeNextScheduledFetch(TRUE, "Healthy", 0, globals.interval)]
    /\ UNCHANGED <<rowVars, settingsVars>>

\* The row goes, and with it the membership and settings that reference it.
DeleteFeed(f) ==
    /\ f \in live
    /\ live' = live \ {f}
    /\ fetched' = [fetched EXCEPT ![f] = FALSE]
    /\ failures' = [failures EXCEPT ![f] = 0]
    /\ health' = [health EXCEPT ![f] = "Healthy"]
    /\ dueIn' = [dueIn EXCEPT ![f] = NULL]
    /\ sinceFetch' = [sinceFetch EXCEPT ![f] = 0]
    /\ memberOf' = [memberOf EXCEPT ![f] = NULL]
    /\ feedSettings' = [feedSettings EXCEPT ![f] = NULL]
    /\ UNCHANGED <<groups, groupSettings, globals>>

\* What record_fetch_result reads before it writes.
ReadForRecord(f) ==
    [failures |-> failures[f], isNew |-> ~fetched[f], settings |-> ResolveEffective(f)]

\* Mutants of WriteFetchResult: the wait follows the count before this failure; a
\* success leaves the count; a failure leaves the schedule.
WriteOldBackoff(f, success, seen) ==
    LET count == IF success THEN 0 ELSE AtMost(seen.failures + 1, MaxFailures)
        next  == ComputeNextScheduledFetch(seen.isNew, HealthAfter(seen.failures), seen.failures,
                                           seen.settings.interval)
    IN  /\ fetched' = [fetched EXCEPT ![f] = TRUE]
        /\ failures' = [failures EXCEPT ![f] = count]
        /\ health' = [health EXCEPT ![f] = HealthAfter(count)]
        /\ dueIn' = [dueIn EXCEPT ![f] = IF seen.settings.enabled THEN next ELSE NULL]
        /\ sinceFetch' = [sinceFetch EXCEPT ![f] = 0]
        /\ UNCHANGED <<live, settingsVars>>

WriteKeepsCount(f, success, seen) ==
    LET count == IF success THEN seen.failures ELSE AtMost(seen.failures + 1, MaxFailures)
        next  == ComputeNextScheduledFetch(seen.isNew, HealthAfter(count), count,
                                           seen.settings.interval)
    IN  /\ fetched' = [fetched EXCEPT ![f] = TRUE]
        /\ failures' = [failures EXCEPT ![f] = count]
        /\ health' = [health EXCEPT ![f] = HealthAfter(count)]
        /\ dueIn' = [dueIn EXCEPT ![f] = IF seen.settings.enabled THEN next ELSE NULL]
        /\ sinceFetch' = [sinceFetch EXCEPT ![f] = 0]
        /\ UNCHANGED <<live, settingsVars>>

WriteKeepsSchedule(f, success, seen) ==
    LET count == IF success THEN 0 ELSE AtMost(seen.failures + 1, MaxFailures)
        next  == ComputeNextScheduledFetch(seen.isNew, HealthAfter(count), count,
                                           seen.settings.interval)
    IN  /\ fetched' = [fetched EXCEPT ![f] = TRUE]
        /\ failures' = [failures EXCEPT ![f] = count]
        /\ health' = [health EXCEPT ![f] = HealthAfter(count)]
        /\ dueIn' = [dueIn EXCEPT ![f] =
                        IF ~success THEN @ ELSE IF seen.settings.enabled THEN next ELSE NULL]
        /\ sinceFetch' = [sinceFetch EXCEPT ![f] = 0]
        /\ UNCHANGED <<live, settingsVars>>

\* What it then writes, computed from what it read.
WriteFetchResult(f, success, seen) ==
    LET count == IF success THEN 0 ELSE AtMost(seen.failures + 1, MaxFailures)
        next  == ComputeNextScheduledFetch(seen.isNew, HealthAfter(count), count,
                                           seen.settings.interval)
    IN  /\ fetched' = [fetched EXCEPT ![f] = TRUE]
        /\ failures' = [failures EXCEPT ![f] = count]
        /\ health' = [health EXCEPT ![f] = HealthAfter(count)]
        /\ dueIn' = [dueIn EXCEPT ![f] = IF seen.settings.enabled THEN next ELSE NULL]
        /\ sinceFetch' = [sinceFetch EXCEPT ![f] = 0]
        /\ UNCHANGED <<live, settingsVars>>

RecordFetchResult(f, success) ==
    /\ f \in live
    /\ WriteFetchResult(f, success, ReadForRecord(f))

-----------------------------------------------------------------------------
CreateGroup(g) ==
    /\ g \notin groups
    /\ groups' = groups \cup {g}
    /\ UNCHANGED <<live, rowVars, dueIn, memberOf, feedSettings, groupSettings, globals>>

\* The members are listed before the row and what references it are deleted.
DeleteGroup(g) ==
    /\ g \in groups
    /\ groups' = groups \ {g}
    /\ memberOf' = [f \in Feeds |-> IF memberOf[f] = g THEN NULL ELSE memberOf[f]]
    /\ groupSettings' = [groupSettings EXCEPT ![g] = NULL]
    /\ UNCHANGED <<feedSettings, globals>>
    /\ Recalculate(MembersOf(g))
    /\ UNCHANGED <<live, rowVars>>

SetFeedGroup(f, g) ==
    /\ f \in live
    /\ g \in groups \cup {NULL}
    /\ memberOf' = [memberOf EXCEPT ![f] = g]
    /\ UNCHANGED <<groups, feedSettings, groupSettings, globals>>
    /\ Recalculate({f})
    /\ UNCHANGED <<live, rowVars>>

UpsertFeedRefreshSettings(f, s) ==
    /\ f \in live
    /\ feedSettings' = [feedSettings EXCEPT ![f] = s]
    /\ UNCHANGED <<groups, memberOf, groupSettings, globals>>
    /\ Recalculate({f})
    /\ UNCHANGED <<live, rowVars>>

DeleteFeedRefreshSettings(f) ==
    /\ feedSettings[f] # NULL
    /\ feedSettings' = [feedSettings EXCEPT ![f] = NULL]
    /\ UNCHANGED <<groups, memberOf, groupSettings, globals>>
    /\ Recalculate({f})
    /\ UNCHANGED <<live, rowVars>>

UpsertGroupRefreshSettings(g, s) ==
    /\ g \in groups
    /\ groupSettings' = [groupSettings EXCEPT ![g] = s]
    /\ UNCHANGED <<groups, memberOf, feedSettings, globals>>
    /\ Recalculate(MembersOf(g))
    /\ UNCHANGED <<live, rowVars>>

DeleteGroupRefreshSettings(g) ==
    /\ groupSettings[g] # NULL
    /\ groupSettings' = [groupSettings EXCEPT ![g] = NULL]
    /\ UNCHANGED <<groups, memberOf, feedSettings, globals>>
    /\ Recalculate(MembersOf(g))
    /\ UNCHANGED <<live, rowVars>>

\* Mutant: the schedules are left as they are.
SetGlobalSettingsOnly(s) ==
    /\ globals' = s
    /\ UNCHANGED <<live, rowVars, dueIn, groups, memberOf, feedSettings, groupSettings>>

SetGlobalSettings(s) ==
    /\ globals' = s
    /\ UNCHANGED <<groups, memberOf, feedSettings, groupSettings>>
    /\ Recalculate(live)
    /\ UNCHANGED <<live, rowVars>>

\* A unit of time passes.
Tick ==
    /\ dueIn' = [f \in Feeds |->
          IF dueIn[f] = NULL \/ dueIn[f] = -MaxLate THEN dueIn[f] ELSE dueIn[f] - 1]
    /\ sinceFetch' = [f \in Feeds |->
          IF fetched[f] THEN AtMost(sinceFetch[f] + 1, DayCap) ELSE 0]
    /\ UNCHANGED <<live, fetched, failures, health, settingsVars>>

SettingsStep ==
    \/ \E g \in Groups : CreateGroup(g) \/ DeleteGroup(g) \/ DeleteGroupRefreshSettings(g)
    \/ \E f \in Feeds, g \in Groups \cup {NULL} : SetFeedGroup(f, g)
    \/ \E f \in Feeds, s \in Settings : UpsertFeedRefreshSettings(f, s)
    \/ \E f \in Feeds : DeleteFeedRefreshSettings(f)
    \/ \E g \in Groups, s \in Settings : UpsertGroupRefreshSettings(g, s)
    \/ \E s \in Settings : SetGlobalSettings(s)

FeedStep ==
    \E f \in Feeds :
        \/ UpsertNewFeed(f)
        \/ DeleteFeed(f)
        \/ \E success \in BOOLEAN : RecordFetchResult(f, success)

Next == SettingsStep \/ FeedStep \/ Tick

Spec == Init /\ [][Next]_scheduleVars

-----------------------------------------------------------------------------
(***************************************************************************)
(* Properties                                                              *)
(***************************************************************************)
\* Whatever sequence of subscriptions, fetches, regroupings, settings changes
\* and deletions came before: a feed whose effective settings allow refreshing
\* has a schedule, and it never waits longer than those settings, its health
\* and its failures say.  (Each operation that changes an effective setting must
\* find all the feeds it affects.)
WaitWithinPolicy ==
    \A f \in live :
        ResolveEffective(f).enabled =>
            /\ dueIn[f] # NULL
            /\ dueIn[f] <= ComputeNextScheduledFetch(~fetched[f], health[f], failures[f],
                                                     ResolveEffective(f).interval)

\* The backoff is honoured: a feed that has been fetched does not become due
\* again before its effective interval, doubled for each failure and capped at a
\* day, has passed since that fetch.  The interval is the one in force now, so
\* a change of settings may not make a failing feed due early either.
NeverDueEarly ==
    \A f \in live :
        fetched[f] /\ ResolveEffective(f).enabled /\ dueIn[f] # NULL =>
            LET wait == ComputeNextScheduledFetch(TRUE, health[f], failures[f],
                                                  ResolveEffective(f).interval)
            IN  IF dueIn[f] > 0
                THEN dueIn[f] + sinceFetch[f] >= wait
                ELSE sinceFetch[f] >= wait

\* A feed for which refreshing is switched off holds no schedule, except one that
\* has never been fetched (a new row is scheduled from the global interval even
\* while background refresh is off).
QuietWhenDisabled ==
    \A f \in live :
        ~ResolveEffective(f).enabled /\ dueIn[f] # NULL => ~fetched[f]

\* One more failure never brings the next fetch closer: the wait it stores is at
\* least what was left of the wait stored before, whichever settings that one
\* was computed from.
BackoffNeverShrinks ==
    [][\A f \in live :
          failures'[f] > failures[f] /\ dueIn[f] # NULL /\ dueIn'[f] # NULL
             => dueIn'[f] >= dueIn[f]]_scheduleVars

\* Not checked for its own sake: health_state and failure_count agree, and a feed
\* never fetched has no failures.  The proofs need it to compare one wait with
\* the next.
HealthFollowsFailures ==
    \A f \in live :
        /\ health[f] = HealthAfter(failures[f])
        /\ ~fetched[f] => failures[f] = 0

\* Likewise: an id without a row has nothing left that refers to it.
AbsentFeedsBlank ==
    \A f \in Feeds \ live :
        /\ memberOf[f] = NULL
        /\ feedSettings[f] = NULL
        /\ ~fetched[f] /\ failures[f] = 0 /\ health[f] = "Healthy"

=============================================================================
