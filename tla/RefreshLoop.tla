----------------------------- MODULE RefreshLoop -----------------------------
(***************************************************************************)
(* The two loops that refresh due feeds, over the schedule of              *)
(* FeedSchedule: the server's (app_server) and the one the shells call     *)
(* through the FFI bridge.  Both list the due feeds once and refresh them  *)
(* in order; they differ in what they do when a fetch fails.  Refreshers   *)
(* are interleaved with each other and with users who change settings; the *)
(* read and the write of record_fetch_result are separate steps, because   *)
(* every refresher and every user request has a connection of its own.     *)
(* Feeds are not deleted here (RefreshContent is about that).              *)
(***************************************************************************)
EXTENDS FeedSchedule, Sequences

CONSTANTS
    Server,      \* refreshers that run app_server's code
    Ffi,         \* refreshers that run ffi_bridge's code
    OnDemand,    \* those that serve requests to refresh one feed; the others
                 \* refresh batches of due feeds
    BatchLimit,  \* the limit passed to list_due_feeds
    MaxCrashes   \* bound: how many times a refresher is killed in mid-batch

ASSUME RefreshLoopAssumptions ==
    /\ BatchLimit \in Nat \ {0}
    /\ MaxCrashes \in Nat
    /\ Server \cap Ffi = {}
    /\ OnDemand \subseteq Server \cup Ffi

Refreshers == Server \cup Ffi

VARIABLES
    pc,          \* where each refresher is
    batch,       \* the feeds it has listed and not finished
    fetchOk,     \* how its current fetch ended
    seen,        \* what its record_fetch_result has read
    crashes,     \* how many refreshers have been killed
    streak       \* history: failures recorded since the last success recorded

loopVars == <<pc, batch, fetchOk, seen, crashes, streak>>
vars == <<scheduleVars, loopVars>>

LoopTypeOK ==
    /\ TypeOK
    /\ pc \in [Refreshers -> {"idle", "fetch", "read", "write", "attempt"}]
    /\ \A w \in Refreshers : batch[w] \in Seq(Feeds) /\ (pc[w] = "idle" <=> batch[w] = <<>>)
    /\ fetchOk \in [Refreshers -> BOOLEAN]
    /\ \A w \in Refreshers :
          seen[w] \in {NULL} \cup [failures : 0 .. MaxFailures, isNew : BOOLEAN, settings : Settings]
    /\ crashes \in 0 .. MaxCrashes
    /\ streak \in [Feeds -> 0 .. MaxFailures]

LoopInit ==
    /\ Init
    /\ pc = [w \in Refreshers |-> "idle"]
    /\ batch = [w \in Refreshers |-> <<>>]
    /\ fetchOk = [w \in Refreshers |-> FALSE]
    /\ seen = [w \in Refreshers |-> NULL]
    /\ crashes = 0
    /\ streak = [f \in Feeds |-> 0]

-----------------------------------------------------------------------------
Current(w) == Head(batch[w])

\* What list_due_feeds sorts by: next_scheduled_fetch_at, or else the time the row
\* was created, which is taken to be longer ago than any other feed is overdue.
SortKey(f) == IF dueIn[f] = NULL THEN -MaxLate - 1 ELSE dueIn[f]

DueFeeds == {f \in Feeds : IsDue(f)}

\* The lists list_due_feeds may return.  Feeds due in the same unit of time may
\* come in either order.
ListDueFeeds ==
    {s \in UNION {[1 .. n -> DueFeeds] : n \in 0 .. BatchLimit} :
        LET listed == {s[i] : i \in DOMAIN s}
        IN  /\ \A i, j \in DOMAIN s : i < j => s[i] # s[j] /\ SortKey(s[i]) <= SortKey(s[j])
            /\ \A f \in DueFeeds \ listed :
                  /\ Len(s) = BatchLimit
                  /\ \A g \in listed : SortKey(g) <= SortKey(f)}

Goto(w, step) == pc' = [pc EXCEPT ![w] = step]

\* The batch ends here, whatever was left of it.
Abandon(w) ==
    /\ Goto(w, "idle")
    /\ batch' = [batch EXCEPT ![w] = <<>>]
    /\ fetchOk' = [fetchOk EXCEPT ![w] = FALSE]

NextInBatch(w) ==
    /\ batch' = [batch EXCEPT ![w] = Tail(@)]
    /\ fetchOk' = [fetchOk EXCEPT ![w] = FALSE]
    /\ Goto(w, IF Len(batch[w]) = 1 THEN "idle" ELSE "fetch")

-----------------------------------------------------------------------------
\* A tick of the background task, POST /refresh/due, or a shell's refresh-due.
StartBatch(w) ==
    /\ w \notin OnDemand
    /\ pc[w] = "idle"
    /\ \E s \in ListDueFeeds \ {<<>>} : batch' = [batch EXCEPT ![w] = s]
    /\ Goto(w, "fetch")
    /\ UNCHANGED <<scheduleVars, fetchOk, seen, crashes, streak>>

\* The user asks for one feed to be refreshed now.
RefreshOne(w, f) ==
    /\ w \in OnDemand
    /\ pc[w] = "idle"
    /\ f \in live
    /\ batch' = [batch EXCEPT ![w] = <<f>>]
    /\ Goto(w, "fetch")
    /\ UNCHANGED <<scheduleVars, fetchOk, seen, crashes, streak>>

FetchSucceeds(w) ==
    /\ pc[w] = "fetch"
    /\ fetchOk' = [fetchOk EXCEPT ![w] = TRUE]
    /\ Goto(w, "read")
    /\ UNCHANGED <<scheduleVars, batch, seen, crashes, streak>>

\* The server goes on to record the failure.
ServerFetchFails(w) ==
    /\ w \in Server
    /\ pc[w] = "fetch"
    /\ Goto(w, "read")
    /\ UNCHANGED <<scheduleVars, batch, fetchOk, seen, crashes, streak>>

\* The bridge returns the error at once, and with it the whole batch.
FfiFetchFails(w) ==
    /\ w \in Ffi
    /\ pc[w] = "fetch"
    /\ Abandon(w)
    /\ UNCHANGED <<scheduleVars, seen, crashes, streak>>

\* record_fetch_result reads the row and the effective settings ...
RecordRead(w) ==
    /\ pc[w] = "read"
    /\ seen' = [seen EXCEPT ![w] = ReadForRecord(Current(w))]
    /\ Goto(w, "write")
    /\ UNCHANGED <<scheduleVars, batch, fetchOk, crashes, streak>>

\* ... and writes what follows from them.  Only the server goes on to record the
\* attempt.
RecordWrite(w) ==
    /\ pc[w] = "write"
    /\ WriteFetchResult(Current(w), fetchOk[w], seen[w])
    /\ streak' = [streak EXCEPT ![Current(w)] = IF fetchOk[w] THEN 0 ELSE AtMost(@ + 1, MaxFailures)]
    /\ seen' = [seen EXCEPT ![w] = NULL]
    /\ IF w \in Server THEN Goto(w, "attempt") /\ UNCHANGED <<batch, fetchOk>>
                       ELSE NextInBatch(w)
    /\ UNCHANGED crashes

\* The attempt is recorded (RefreshJobs) and a failed refresh ends the batch.
RecordAttempt(w) ==
    /\ pc[w] = "attempt"
    /\ IF fetchOk[w] THEN NextInBatch(w) ELSE Abandon(w)
    /\ UNCHANGED <<scheduleVars, seen, crashes, streak>>

\* The process stops between two steps and starts again.
Crash(w) ==
    /\ pc[w] # "idle" /\ crashes < MaxCrashes
    /\ crashes' = crashes + 1
    /\ Abandon(w)
    /\ seen' = [seen EXCEPT ![w] = NULL]
    /\ UNCHANGED <<scheduleVars, streak>>

\* Bound: the clock waits for a feed that is overdue by MaxLate, so that the order
\* of overdue feeds is never lost.
ClockTick ==
    /\ \A f \in DueFeeds : dueIn[f] # -MaxLate
    /\ Tick
    /\ UNCHANGED loopVars

UserStep ==
    /\ SettingsStep \/ \E f \in Feeds : UpsertNewFeed(f)
    /\ UNCHANGED loopVars

FetchStep(w) ==
    \/ StartBatch(w) \/ FetchSucceeds(w) \/ ServerFetchFails(w) \/ FfiFetchFails(w)
    \/ RecordRead(w) \/ RecordWrite(w)

RefreshStep(w) == FetchStep(w) \/ RecordAttempt(w)

Environment ==
    \/ \E w \in Refreshers : Crash(w) \/ \E f \in Feeds : RefreshOne(w, f)
    \/ UserStep
    \/ ClockTick

LoopNext == (\E w \in Refreshers : RefreshStep(w)) \/ Environment

\* A refresher that is running goes on running, and a timer or a shell starts
\* the next batch; nothing makes a fetch succeed, a user act or a clock stop.
LoopSpec ==
    /\ LoopInit /\ [][LoopNext]_vars
    /\ \A w \in Refreshers : WF_vars(RefreshStep(w))
    /\ WF_vars(ClockTick)

-----------------------------------------------------------------------------
(***************************************************************************)
(* Properties                                                              *)
(***************************************************************************)
\* Once users stop changing settings, no feed stays due for ever: whatever becomes
\* of other feeds and of its own fetches, each one that is due is fetched and
\* rescheduled.  A feed whose fetches keep failing must not keep its place at the
\* head of every batch.  (A user who changed a feed's settings during each of its
\* fetches could hold the others up: see OnlyRacesBreakPolicy.)
NoFeedStarves ==
    <>[][UNCHANGED settingsVars]_vars => \A f \in Feeds : []<>~IsDue(f)

\* failure_count is the "consecutive failure count": it is the number of failures
\* recorded since the last recorded success, through crashes and settings changes.
CountIsConsecutive == \A f \in live : failures[f] = streak[f]

WaitFollowsPolicy(f) ==
    f \in live /\ ResolveEffective(f).enabled =>
        /\ dueIn[f] # NULL
        /\ dueIn[f] <= ComputeNextScheduledFetch(~fetched[f], health[f], failures[f],
                                                 ResolveEffective(f).interval)

\* w is writing a schedule for f from settings or counts that have changed since
\* it read them.
WritesStale(w, f) == pc[w] = "write" /\ Current(w) = f /\ seen[w] # ReadForRecord(f)

\* Users change settings while feeds are being fetched.  A feed's schedule stops
\* following its settings only when a record_fetch_result writes what it had read
\* before such a change, and it follows them again after the next one that does
\* not, or after the next change of its settings.
OnlyRacesBreakPolicy ==
    [][\A f \in live :
          /\ WaitFollowsPolicy(f) =>
                WaitFollowsPolicy(f)' \/ \E w \in Refreshers : WritesStale(w, f)
          /\ sinceFetch'[f] < sinceFetch[f] /\ ~WaitFollowsPolicy(f)' =>
                \E w \in Refreshers : WritesStale(w, f)
          /\ ResolveEffective(f)' # ResolveEffective(f) => WaitFollowsPolicy(f)']_vars

=============================================================================
