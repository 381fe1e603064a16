--------------------------- MODULE RefreshJobs_proofs ---------------------------
(***************************************************************************)
(* What holds of the refresh loops and the job rows for all feeds,         *)
(* settings and refreshers.                                                *)
(***************************************************************************)
EXTENDS RefreshJobs, FeedSchedule_proofs, SequenceTheorems

-----------------------------------------------------------------------------
(***************************************************************************)
(* Types                                                                   *)
(***************************************************************************)
\* A refresher that is to write has read.
LoopInv ==
    /\ LoopTypeOK
    /\ batch \in [Refreshers -> Seq(Feeds)]
    /\ seen \in [Refreshers -> Reading \cup {NULL}]
    /\ \A w \in Refreshers : pc[w] = "write" => seen[w] \in Reading

LEMMA TailIsEmpty ==
    ASSUME NEW S, NEW s \in Seq(S), s # <<>>
    PROVE  Tail(s) = <<>> <=> Len(s) = 1
<1>1. /\ Tail(s) \in Seq(S)
      /\ Len(Tail(s)) = Len(s) - 1
      /\ Len(s) \in Nat \ {0}
  BY HeadTailProperties, EmptySeq
<1>2. Tail(s) = <<>> <=> Len(Tail(s)) = 0
  BY <1>1, EmptySeq
<1> QED
  BY <1>1, <1>2

LEMMA CurrentType ==
    ASSUME LoopInv, NEW w \in Refreshers, pc[w] # "idle"
    PROVE  /\ Current(w) \in Feeds
           /\ Tail(batch[w]) \in Seq(Feeds)
           /\ Tail(batch[w]) = <<>> <=> Len(batch[w]) = 1
<1>1. batch[w] \in Seq(Feeds) /\ batch[w] # <<>>
  BY DEF LoopInv, LoopTypeOK
<1>2. Head(batch[w]) \in Feeds /\ Tail(batch[w]) \in Seq(Feeds)
  BY <1>1, HeadTailProperties
<1>3. Tail(batch[w]) = <<>> <=> Len(batch[w]) = 1
  BY <1>1, TailIsEmpty
<1> QED
  BY <1>2, <1>3 DEF Current

\* Where refreshers are agrees with what is left of their batches.
BatchInv ==
    /\ pc \in [Refreshers -> {"idle", "fetch", "read", "write", "attempt"}]
    /\ batch \in [Refreshers -> Seq(Feeds)]
    /\ \A w \in Refreshers : pc[w] = "idle" <=> batch[w] = <<>>
    /\ fetchOk \in [Refreshers -> BOOLEAN]

LEMMA AbandonKeepsBatches ==
    ASSUME LoopInv, NEW w \in Refreshers, Abandon(w)
    PROVE  BatchInv' /\ \A v \in Refreshers : pc'[v] = "write" => pc[v] = "write" /\ v # w
<1>1. <<>> \in Seq(Feeds)
  BY EmptySeq
<1> QED
  BY <1>1 DEF LoopInv, LoopTypeOK, BatchInv, Abandon, Goto

LEMMA NextInBatchKeepsBatches ==
    ASSUME LoopInv, NEW w \in Refreshers, pc[w] # "idle", NextInBatch(w)
    PROVE  BatchInv' /\ \A v \in Refreshers : pc'[v] = "write" => pc[v] = "write" /\ v # w
<1> DEFINE rest == Tail(batch[w])
           ends == Len(batch[w]) = 1
<1>1. rest \in Seq(Feeds) /\ (rest = <<>> <=> ends)
  BY CurrentType
<1>2. batch' = [batch EXCEPT ![w] = rest] /\ pc' = [pc EXCEPT ![w] = IF ends THEN "idle" ELSE "fetch"]
      /\ fetchOk' = [fetchOk EXCEPT ![w] = FALSE]
  BY DEF NextInBatch, Goto
<1> HIDE DEF rest, ends
<1> QED
  BY <1>1, <1>2 DEF LoopInv, LoopTypeOK, BatchInv

LEMMA ListType ==
    ASSUME TypeOK, NEW s \in ListDueFeeds
    PROVE  s \in Seq(Feeds)
<1>1. DueFeeds \subseteq Feeds
  BY DEF DueFeeds
<1>2. PICK n \in 0 .. BatchLimit : s \in [1 .. n -> DueFeeds]
  BY DEF ListDueFeeds
<1> QED
  BY <1>1, <1>2, RefreshLoopAssumptions

LEMMA LoopInitInv == LoopInit => LoopInv
<1>1. Init => TypeOK
  BY FeedScheduleAssumptions, DayCapAssumption DEF Init, TypeOK, Health
<1> QED
  BY <1>1, FeedScheduleAssumptions, RefreshLoopAssumptions DEF LoopInit, LoopInv, LoopTypeOK

\* Users and the clock keep the types of the schedule, and so does a write computed from
\* what was read at any time before.
LEMMA LoopKeepsSchedule == LoopInv /\ [LoopNext]_vars => TypeOK'
<1> SUFFICES ASSUME LoopInv, [LoopNext]_vars PROVE TypeOK'
  OBVIOUS
<1>1. TypeOK
  BY DEF LoopInv, LoopTypeOK
<1>2. CASE UNCHANGED scheduleVars
  BY <1>1, <1>2, NextTypeOK
<1>3. CASE UserStep \/ ClockTick
  <2>1. Next
    BY <1>3 DEF UserStep, ClockTick, Next, FeedStep
  <2> QED  BY <1>1, <2>1, NextTypeOK
<1>4. ASSUME NEW w \in Refreshers, RecordWrite(w) PROVE TypeOK'
  <2>1. seen[w] \in Reading /\ fetchOk[w] \in BOOLEAN
    BY <1>4 DEF RecordWrite, LoopInv, LoopTypeOK
  <2> QED
    BY <1>1, <1>4, <2>1, CurrentType, WriteType DEF RecordWrite
<1>5. [LoopNext]_vars =>
        \/ UNCHANGED scheduleVars
        \/ UserStep \/ ClockTick
        \/ \E w \in Refreshers : RecordWrite(w)
  BY DEF LoopNext, RefreshStep, FetchStep, Environment, StartBatch, FetchSucceeds,
         ServerFetchFails, FfiFetchFails, RecordRead, RecordAttempt, Crash, RefreshOne, vars
<1> QED
  BY <1>2, <1>3, <1>4, <1>5

LEMMA LoopNextInv == LoopInv /\ [LoopNext]_vars => LoopInv'
<1> SUFFICES ASSUME LoopInv, [LoopNext]_vars PROVE LoopInv'
  OBVIOUS
<1>1. TypeOK /\ TypeOK'
  BY LoopKeepsSchedule DEF LoopInv, LoopTypeOK
<1> USE RefreshLoopAssumptions, FeedScheduleAssumptions, <1>1 DEF LoopInv, LoopTypeOK, Goto
<1>2. ASSUME NEW w \in Refreshers, StartBatch(w) PROVE LoopInv'
  <2>1. PICK s \in ListDueFeeds \ {<<>>} : batch' = [batch EXCEPT ![w] = s]
    BY <1>2 DEF StartBatch
  <2>2. s \in Seq(Feeds) /\ s # <<>>
    BY <2>1, ListType
  <2> QED
    BY <1>2, <2>1, <2>2 DEF StartBatch
<1>3. ASSUME NEW w \in Refreshers, NEW f \in Feeds, RefreshOne(w, f) PROVE LoopInv'
  <2>1. <<f>> \in Seq(Feeds) /\ <<f>> # <<>>
    OBVIOUS
  <2> QED
    BY <1>3, <2>1 DEF RefreshOne
<1>4. ASSUME NEW w \in Refreshers, FetchSucceeds(w) \/ ServerFetchFails(w) PROVE LoopInv'
  BY <1>4 DEF FetchSucceeds, ServerFetchFails
<1>5. ASSUME NEW w \in Refreshers, FfiFetchFails(w) \/ Crash(w) PROVE LoopInv'
  <2>1. Abandon(w)
    BY <1>5 DEF FfiFetchFails, Crash
  <2>2. BatchInv' /\ \A v \in Refreshers : pc'[v] = "write" => pc[v] = "write" /\ v # w
    BY <2>1, AbandonKeepsBatches
  <2>3. CASE FfiFetchFails(w)
    BY <2>2, <2>3 DEF FfiFetchFails, BatchInv
  <2>4. CASE Crash(w)
    BY <2>2, <2>4 DEF Crash, BatchInv
  <2> QED
    BY <1>5, <2>3, <2>4
<1>6. ASSUME NEW w \in Refreshers, RecordRead(w) PROVE LoopInv'
  <2>1. ReadForRecord(Current(w)) \in Reading
    BY <1>6, CurrentType, ReadType DEF RecordRead
  <2> QED
    BY <1>6, <2>1 DEF RecordRead, Reading
<1>7. ASSUME NEW w \in Refreshers, RecordWrite(w) PROVE LoopInv'
  <2>1. streak' \in [Feeds -> 0 .. MaxFailures]
    <3>1. \A n \in 0 .. MaxFailures : AtMost(n + 1, MaxFailures) \in 0 .. MaxFailures
      BY DEF AtMost
    <3> DEFINE f == Current(w)
               n == IF fetchOk[w] THEN 0 ELSE AtMost(streak[f] + 1, MaxFailures)
    <3>2. f \in Feeds
      BY <1>7, CurrentType DEF RecordWrite
    <3>3. n \in 0 .. MaxFailures
      BY <3>1, <3>2
    <3>4. streak' = [streak EXCEPT ![f] = n]
      BY <1>7 DEF RecordWrite
    <3> HIDE DEF f, n
    <3> QED
      BY <3>2, <3>3, <3>4
  <2>2. CASE w \in Server
    BY <1>7, <2>1, <2>2 DEF RecordWrite
  <2>3. CASE w \notin Server
    <3>1. BatchInv' /\ \A v \in Refreshers : pc'[v] = "write" => pc[v] = "write" /\ v # w
      BY <1>7, <2>3, NextInBatchKeepsBatches DEF RecordWrite
    <3> QED
      BY <1>7, <2>1, <3>1 DEF RecordWrite, BatchInv
  <2> QED
    BY <2>2, <2>3
<1>8. ASSUME NEW w \in Refreshers, RecordAttempt(w) PROVE LoopInv'
  <2>1. BatchInv' /\ \A v \in Refreshers : pc'[v] = "write" => pc[v] = "write" /\ v # w
    BY <1>8, AbandonKeepsBatches, NextInBatchKeepsBatches DEF RecordAttempt
  <2> QED
    BY <1>8, <2>1 DEF RecordAttempt, BatchInv
<1>9. CASE UserStep \/ ClockTick \/ UNCHANGED vars
  BY <1>9 DEF UserStep, ClockTick, loopVars, vars
<1> QED
  BY <1>2, <1>3, <1>4, <1>5, <1>6, <1>7, <1>8, <1>9
  DEF LoopNext, RefreshStep, FetchStep, Environment

\* The loops keep their types, with any number of refreshers of both kinds.
THEOREM LoopTypeCorrect == LoopSpec => []LoopTypeOK
<1>1. LoopInv => LoopTypeOK
  BY DEF LoopInv
<1> QED
  BY LoopInitInv, LoopNextInv, <1>1, PTL DEF LoopSpec

-----------------------------------------------------------------------------
(***************************************************************************)
(* Counts                                                                  *)
(***************************************************************************)
OneRefresher == \A v, w \in Refreshers : v = w

\* The counts agree, also with what a refresher has read of them.
CountInv ==
    /\ \A f \in Feeds : failures[f] = streak[f]
    /\ \A w \in Refreshers : pc[w] = "write" => seen[w].failures = failures[Current(w)]

LEMMA OnlyWritesCount ==
    ASSUME LoopInv, [LoopNext]_vars
    PROVE  \/ \E w \in Refreshers : RecordWrite(w)
           \/ UNCHANGED <<fetched, failures, streak>>
<1>1. ASSUME UserStep PROVE UNCHANGED <<fetched, failures, streak>>
  <2>1. CASE SettingsStep
    BY <1>1, <2>1, SettingsStepReschedules
    DEF UserStep, loopVars, Reschedules, rowVars, LoopInv, LoopTypeOK
  <2>2. CASE \E f \in Feeds : UpsertNewFeed(f)
    BY <1>1, <2>2 DEF UserStep, UpsertNewFeed, loopVars, rowVars
  <2> QED
    BY <1>1, <2>1, <2>2 DEF UserStep
<1>2. ASSUME ClockTick PROVE UNCHANGED <<fetched, failures, streak>>
  BY <1>2 DEF ClockTick, Tick, loopVars
<1> QED
  BY <1>1, <1>2
  DEF LoopNext, RefreshStep, FetchStep, Environment, StartBatch, FetchSucceeds, ServerFetchFails,
      FfiFetchFails, RecordRead, RecordAttempt, Crash, RefreshOne, vars, scheduleVars, rowVars,
      loopVars

LEMMA NextCountInv ==
    ASSUME OneRefresher PROVE LoopInv /\ CountInv /\ [LoopNext]_vars => CountInv'
<1> SUFFICES ASSUME LoopInv, CountInv, [LoopNext]_vars PROVE CountInv'
  OBVIOUS
<1>1. ASSUME NEW w \in Refreshers, RecordWrite(w) PROVE CountInv'
  <2> DEFINE f == Current(w)
             n == IF fetchOk[w] THEN 0 ELSE AtMost(failures[f] + 1, MaxFailures)
  <2>1. f \in Feeds
    BY <1>1, CurrentType DEF RecordWrite
  <2>2. seen[w].failures = failures[f] /\ failures[f] = streak[f]
    BY <1>1, <2>1 DEF CountInv, RecordWrite
  <2>3. failures' = [failures EXCEPT ![f] = n] /\ streak' = [streak EXCEPT ![f] = n]
    BY <1>1, <2>2 DEF RecordWrite, WriteFetchResult
  <2>4. \A k \in Feeds : failures'[k] = streak'[k]
    <3> HIDE DEF f, n
    <3> QED  BY <2>1, <2>3 DEF CountInv, LoopInv, LoopTypeOK, TypeOK
  <2>5. \A v \in Refreshers : pc'[v] # "write"
    BY <1>1 DEF RecordWrite, Goto, NextInBatch, LoopInv, LoopTypeOK, OneRefresher
  <2> QED
    BY <2>4, <2>5 DEF CountInv
<1>2. ASSUME NEW w \in Refreshers, RecordRead(w) PROVE CountInv'
  <2>1. seen'[w].failures = failures[Current(w)]
    BY <1>2 DEF RecordRead, ReadForRecord, LoopInv
  <2>2. \A v \in Refreshers : v = w
    BY DEF OneRefresher
  <2> QED
    BY <1>2, <2>1, <2>2 DEF RecordRead, CountInv, Current, scheduleVars, rowVars
<1>3. ASSUME UNCHANGED <<fetched, failures, streak>>,
             \A v \in Refreshers : pc'[v] = "write" =>
                pc[v] = "write" /\ seen'[v] = seen[v] /\ batch'[v] = batch[v]
      PROVE  CountInv'
  BY <1>3 DEF CountInv, Current
<1>4. ASSUME NEW w \in Refreshers, StartBatch(w) \/ FetchSucceeds(w) \/ ServerFetchFails(w)
             \/ FfiFetchFails(w) \/ RecordAttempt(w) \/ Crash(w) \/ \E f \in Feeds : RefreshOne(w, f)
      PROVE  CountInv'
  <2>1. UNCHANGED <<fetched, failures, streak>>
    BY <1>4 DEF StartBatch, FetchSucceeds, ServerFetchFails, FfiFetchFails, RecordAttempt, Crash,
                RefreshOne, scheduleVars, rowVars
  <2>2. \A v \in Refreshers : v = w
    BY DEF OneRefresher
  <2>3. pc'[w] # "write"
    BY <1>4 DEF StartBatch, FetchSucceeds, ServerFetchFails, FfiFetchFails, RecordAttempt, Crash,
                RefreshOne, Goto, NextInBatch, Abandon, LoopInv, LoopTypeOK
  <2> QED
    BY <1>3, <2>1, <2>2, <2>3
<1>5. CASE UserStep \/ ClockTick \/ UNCHANGED vars
  <2>1. UNCHANGED <<pc, seen, batch>>
    BY <1>5 DEF UserStep, ClockTick, loopVars, vars
  <2>2. UNCHANGED <<fetched, failures, streak>> \/ \E w \in Refreshers : RecordWrite(w)
    BY OnlyWritesCount
  <2> QED
    BY <1>1, <1>3, <2>1, <2>2
<1> QED
  BY <1>1, <1>2, <1>4, <1>5 DEF LoopNext, RefreshStep, FetchStep, Environment

-----------------------------------------------------------------------------
(***************************************************************************)
(* Job rows                                                                *)
(***************************************************************************)
\* The job rows are kept beside the loop: they never hold it up or change it.
LEMMA JobsFollowLoop == [JobNext]_jobVars => [LoopNext]_vars
  BY DEF JobNext, JobStep, RecordRefreshAttempt, LoopNext, RefreshStep, jobVars

LEMMA JobsNextType == JobTypeOK /\ LoopInv /\ [JobNext]_jobVars => JobTypeOK'
<1> SUFFICES ASSUME JobTypeOK, LoopInv, [JobNext]_jobVars PROVE JobTypeOK'
  OBVIOUS
<1>1. LoopTypeOK'
  BY JobsFollowLoop, LoopNextInv DEF LoopInv
<1>2. ASSUME NEW w \in Refreshers, RecordRefreshAttempt(w)
      PROVE  jobs' \in [Feeds -> [failures : 0 .. MaxFailures, succeeded : BOOLEAN] \cup {NULL}]
  <2> DEFINE f == Current(w)
             job == [failures |-> failures[f], succeeded |-> fetchOk[w]]
  <2>1. f \in Feeds
    BY <1>2, CurrentType DEF RecordRefreshAttempt, RecordAttempt
  <2>2. job \in [failures : 0 .. MaxFailures, succeeded : BOOLEAN]
    BY <2>1 DEF LoopInv, LoopTypeOK, TypeOK
  <2>3. jobs' = [jobs EXCEPT ![f] = job]
    BY <1>2 DEF RecordRefreshAttempt
  <2> HIDE DEF f, job
  <2> QED
    BY <2>1, <2>2, <2>3 DEF JobTypeOK
<1> QED
  BY <1>1, <1>2 DEF JobNext, JobStep, JobTypeOK, jobVars

\* The job rows are well typed too.
THEOREM JobTypeCorrect == JobSpec => []JobTypeOK
<1>1. JobInit => JobTypeOK /\ LoopInv
  BY LoopInitInv DEF JobInit, JobTypeOK, LoopInv
<1> QED
  BY <1>1, JobsNextType, JobsFollowLoop, LoopNextInv, PTL DEF JobSpec

\* Each feed's failure count is the number of failures since its last success, for any
\* feeds, batches, crashes and settings changes, as long as one refresher runs at a time.
THEOREM FailuresAreConsecutive ==
    ASSUME OneRefresher
    PROVE  (LoopSpec => []CountIsConsecutive) /\ (JobSpec => []CountIsConsecutive)
<1>1. LoopInit => LoopInv /\ CountInv
  BY LoopInitInv DEF LoopInit, Init, CountInv
<1>2. LoopInv /\ CountInv => CountIsConsecutive
  BY DEF CountInv, CountIsConsecutive, LoopInv, LoopTypeOK, TypeOK
<1>3. JobInit => LoopInit
  BY DEF JobInit
<1> QED
  BY LoopNextInv, JobsFollowLoop, <1>1, NextCountInv, <1>2, <1>3, PTL DEF LoopSpec, JobSpec

Agrees(f) ==
    IF fetched[f]
    THEN /\ jobs[f] # NULL
         /\ jobs[f].failures = failures[f]
         /\ jobs[f].succeeded <=> failures[f] = 0
    ELSE jobs[f] = NULL

\* Between its two writes a refresher knows whether the count it left is zero, and only
\* its feed's rows disagree.
JobInv ==
    /\ \A w \in Refreshers : pc[w] = "attempt" =>
          fetched[Current(w)] /\ (fetchOk[w] <=> failures[Current(w)] = 0)
    /\ crashes = 0 =>
          \A f \in Feeds :
              Agrees(f) \/ \E w \in Refreshers : pc[w] = "attempt" /\ Current(w) = f

LEMMA NextJobInv ==
    ASSUME OneRefresher, Ffi = {}
    PROVE  LoopInv /\ CountInv /\ JobTypeOK /\ JobInv /\ [JobNext]_jobVars => JobInv'
<1> SUFFICES ASSUME LoopInv, CountInv, JobTypeOK, JobInv, [JobNext]_jobVars PROVE JobInv'
  OBVIOUS
<1>1. \A v, w \in Refreshers : v = w
  BY DEF OneRefresher
<1>2. ASSUME NEW w \in Refreshers, RecordWrite(w), UNCHANGED jobs PROVE JobInv'
  <2> DEFINE f == Current(w)
             n == IF fetchOk[w] THEN 0 ELSE AtMost(failures[f] + 1, MaxFailures)
  <2>1. f \in Feeds /\ pc[w] = "write" /\ w \in Server
    BY <1>2, CurrentType DEF RecordWrite, Refreshers
  <2>2. /\ failures' = [failures EXCEPT ![f] = n]
        /\ fetched' = [fetched EXCEPT ![f] = TRUE]
        /\ seen[w].failures = failures[f]
        /\ UNCHANGED <<batch, fetchOk, crashes, jobs>>
    BY <1>2, <2>1 DEF RecordWrite, WriteFetchResult, CountInv
  <2>3. pc' = [pc EXCEPT ![w] = "attempt"]
    BY <1>2, <2>1 DEF RecordWrite, Goto
  <2>4. fetchOk[w] <=> n = 0
    BY <2>1, FeedScheduleAssumptions DEF LoopInv, LoopTypeOK, TypeOK, AtMost
  <2>5. pc'[w] = "attempt" /\ Current(w)' = f
    BY <2>2, <2>3 DEF LoopInv, LoopTypeOK, Current
  <2>6. failures'[f] = n /\ fetched'[f] = TRUE
    <3> HIDE DEF f, n
    <3> QED  BY <2>1, <2>2 DEF LoopInv, LoopTypeOK, TypeOK
  <2>7. crashes = 0 => \A k \in Feeds \ {f} : Agrees(k)
    BY <1>1, <2>1 DEF JobInv
  <2>8. \A k \in Feeds \ {f} : Agrees(k) => Agrees(k)'
    <3> HIDE DEF f, n
    <3> QED  BY <2>2 DEF Agrees, LoopInv, LoopTypeOK, TypeOK
  <2> HIDE DEF f, n
  <2> QED
    BY <1>1, <2>2, <2>4, <2>5, <2>6, <2>7, <2>8 DEF JobInv
<1>3. ASSUME NEW w \in Refreshers, RecordRefreshAttempt(w) PROVE JobInv'
  <2>0. PICK f \in Feeds : f = Current(w)
    BY <1>3, CurrentType DEF RecordRefreshAttempt, RecordAttempt
  <2> DEFINE job == [failures |-> failures[f], succeeded |-> fetchOk[w]]
  <2>1. pc[w] = "attempt" /\ jobs' = [jobs EXCEPT ![f] = job]
    BY <1>3, <2>0 DEF RecordRefreshAttempt, RecordAttempt
  <2>2. UNCHANGED <<fetched, failures, crashes>> /\ pc'[w] # "attempt"
    BY <1>3 DEF RecordRefreshAttempt, RecordAttempt, NextInBatch, Abandon, Goto, scheduleVars,
                rowVars, LoopInv, LoopTypeOK
  <2>3. jobs'[f] = job
    <3> HIDE DEF job
    <3> QED  BY <2>1 DEF JobTypeOK
  <2>4. job # NULL /\ fetched[f] /\ (job.succeeded <=> failures[f] = 0)
    <3>1. job \in [failures : Nat, succeeded : BOOLEAN]
      BY <2>1, FeedScheduleAssumptions DEF LoopInv, LoopTypeOK, TypeOK
    <3> QED
      BY <2>0, <2>1, <3>1, RefreshJobsAssumptions DEF JobInv
  <2>5. Agrees(f)'
    BY <2>2, <2>3, <2>4 DEF Agrees
  <2>6. crashes = 0 => \A k \in Feeds \ {f} : Agrees(k)
    BY <1>1, <2>0, <2>1 DEF JobInv
  <2>7. \A k \in Feeds \ {f} : Agrees(k) => Agrees(k)'
    <3> HIDE DEF job
    <3> QED  BY <2>1, <2>2 DEF Agrees, JobTypeOK
  <2> HIDE DEF job
  <2> QED
    BY <1>1, <2>2, <2>5, <2>6, <2>7 DEF JobInv
<1>4. ASSUME UNCHANGED <<fetched, failures, jobs>>,
             crashes' = 0 => crashes = 0,
             \A w \in Refreshers :
                /\ pc[w] = "attempt" /\ crashes' = 0 => pc'[w] = "attempt"
                /\ pc'[w] = "attempt" =>
                      pc[w] = "attempt" /\ batch'[w] = batch[w] /\ fetchOk'[w] = fetchOk[w]
      PROVE  JobInv'
  BY <1>4 DEF JobInv, Agrees, Current
<1>5. ASSUME NEW w \in Refreshers, StartBatch(w) \/ FetchSucceeds(w) \/ ServerFetchFails(w)
             \/ FfiFetchFails(w) \/ RecordRead(w) \/ Crash(w) \/ \E f \in Feeds : RefreshOne(w, f),
             UNCHANGED jobs
      PROVE  JobInv'
  <2>1. UNCHANGED <<fetched, failures>>
    BY <1>5 DEF StartBatch, FetchSucceeds, ServerFetchFails, FfiFetchFails, RecordRead, Crash,
                RefreshOne, scheduleVars, rowVars
  <2>2. pc'[w] # "attempt" /\ (crashes' = 0 => crashes = 0 /\ pc[w] # "attempt")
    BY <1>5, RefreshLoopAssumptions
    DEF StartBatch, FetchSucceeds, ServerFetchFails, FfiFetchFails, RecordRead, Crash,
        RefreshOne, Goto, Abandon, LoopInv, LoopTypeOK
  <2> QED
    BY <1>1, <1>4, <1>5, <2>1, <2>2
<1>6. CASE (UserStep \/ ClockTick \/ UNCHANGED vars) /\ UNCHANGED jobs
  <2>1. UNCHANGED <<pc, batch, fetchOk, crashes>>
    BY <1>6 DEF UserStep, ClockTick, loopVars, vars
  <2>2. UNCHANGED <<fetched, failures>> \/ \E w \in Refreshers : RecordWrite(w)
    BY JobsFollowLoop, OnlyWritesCount
  <2> QED
    BY <1>2, <1>4, <1>6, <2>1, <2>2
<1> QED
  BY <1>2, <1>3, <1>5, <1>6
  DEF JobNext, JobStep, FetchStep, Environment, jobVars

\* The server's job rows and feed rows tell the same story between refreshes, for any
\* feeds, batches and settings changes, when one refresher runs and none was killed.
THEOREM JobsAgree ==
    ASSUME OneRefresher, Ffi = {} PROVE JobSpec => []JobAgreesWithFeed
<1>1. JobInit => LoopInv /\ CountInv /\ JobTypeOK /\ JobInv
  <2>1. LoopInit => LoopInv
    BY LoopInitInv
  <2> QED
    BY <2>1 DEF JobInit, LoopInit, Init, LoopInv, JobTypeOK, CountInv, JobInv, Agrees
<1>2. LoopInv /\ CountInv /\ JobTypeOK /\ JobInv /\ [JobNext]_jobVars
         => LoopInv' /\ CountInv' /\ JobTypeOK' /\ JobInv'
  BY LoopNextInv, NextCountInv, JobsNextType, JobsFollowLoop, NextJobInv
<1>3. LoopInv /\ JobInv => JobAgreesWithFeed
  <2> SUFFICES ASSUME LoopInv, JobInv, NEW f \in live, crashes = 0,
                      \A w \in Refreshers : pc[w] = "idle" \/ Current(w) # f
               PROVE  Agrees(f)
    BY Zenon DEF JobAgreesWithFeed, Agrees
  <2>1. f \in Feeds
    BY DEF LoopInv, LoopTypeOK, TypeOK
  <2> QED
    BY <2>1 DEF JobInv
<1> QED
  BY <1>1, <1>2, <1>3, PTL DEF JobSpec

-----------------------------------------------------------------------------
(***************************************************************************)
(* Schedules and settings, with refreshers and users interleaved           *)
(***************************************************************************)
\* A feed that was never fetched counts no time.
SinceInv == \A f \in Feeds : ~fetched[f] => sinceFetch[f] = 0

LEMMA NextSinceInv == LoopInv /\ SinceInv /\ [LoopNext]_vars => SinceInv'
<1> SUFFICES ASSUME LoopInv, SinceInv, [LoopNext]_vars PROVE SinceInv'
  OBVIOUS
<1> USE DEF SinceInv, LoopInv, LoopTypeOK, TypeOK
<1>1. ASSUME NEW w \in Refreshers, RecordWrite(w) PROVE SinceInv'
  BY <1>1 DEF RecordWrite, WriteFetchResult
<1>2. CASE UserStep
  <2>1. CASE SettingsStep
    BY <2>1, SettingsStepReschedules DEF Reschedules, rowVars
  <2>2. CASE \E f \in Feeds : UpsertNewFeed(f)
    BY <2>2 DEF UpsertNewFeed, rowVars
  <2> QED
    BY <1>2, <2>1, <2>2 DEF UserStep
<1>3. CASE ClockTick
  BY <1>3 DEF ClockTick, Tick
<1>4. CASE UNCHANGED scheduleVars
  BY <1>4 DEF scheduleVars, rowVars
<1> QED
  BY <1>1, <1>2, <1>3, <1>4
  DEF LoopNext, RefreshStep, FetchStep, Environment, StartBatch, FetchSucceeds, ServerFetchFails,
      FfiFetchFails, RecordRead, RecordAttempt, Crash, RefreshOne, vars

\* What OnlyRacesBreakPolicy says of one feed.
KeepsPolicy(f) ==
    /\ WaitFollowsPolicy(f) =>
          WaitFollowsPolicy(f)' \/ \E w \in Refreshers : WritesStale(w, f)
    /\ sinceFetch'[f] < sinceFetch[f] /\ ~WaitFollowsPolicy(f)' =>
          \E w \in Refreshers : WritesStale(w, f)
    /\ ResolveEffective(f)' # ResolveEffective(f) => WaitFollowsPolicy(f)'

\* Nothing about the feed changes, or its schedule comes closer.
LEMMA CloserKeepsPolicy ==
    ASSUME TypeOK, TypeOK', NEW f \in live, f \in live',
           ResolveEffective(f)' = ResolveEffective(f),
           fetched'[f] = fetched[f], health'[f] = health[f], failures'[f] = failures[f],
           dueIn[f] # NULL => dueIn'[f] \in Int /\ dueIn'[f] <= dueIn[f],
           sinceFetch'[f] >= sinceFetch[f]
    PROVE  KeepsPolicy(f)
<1> DEFINE isNew == ~fetched[f]
           wait == ComputeNextScheduledFetch(isNew, health[f], failures[f],
                                             ResolveEffective(f).interval)
<1>1. f \in Feeds /\ sinceFetch[f] \in Int /\ dueIn[f] \in Int \cup {NULL}
  BY FeedScheduleAssumptions, DayCapAssumption DEF TypeOK
<1>2. wait \in Int
  <2>1. /\ isNew \in BOOLEAN /\ health[f] \in Health /\ failures[f] \in Nat
        /\ ResolveEffective(f) \in Settings
    BY <1>1, EffectiveType, FeedScheduleAssumptions DEF TypeOK
  <2>2. wait \in 1 .. DayCap
    <3> HIDE DEF isNew
    <3> QED  BY <2>1, IntervalType, WaitBounded
  <2> HIDE DEF wait
  <2> QED
    BY <2>2, DayCapAssumption
<1>3. WaitFollowsPolicy(f) <=>
         (ResolveEffective(f).enabled => dueIn[f] # NULL /\ dueIn[f] <= wait)
  BY DEF WaitFollowsPolicy
<1>4. wait' = wait
  OBVIOUS
<1>5. WaitFollowsPolicy(f)' <=>
         (ResolveEffective(f)'.enabled => dueIn'[f] # NULL /\ dueIn'[f] <= wait')
  BY DEF WaitFollowsPolicy
<1>6. WaitFollowsPolicy(f) => WaitFollowsPolicy(f)'
  <2> HIDE DEF wait
  <2> QED
    BY <1>1, <1>2, <1>3, <1>4, <1>5, FeedScheduleAssumptions
<1>7. ~(sinceFetch'[f] < sinceFetch[f])
  BY <1>1, DayCapAssumption DEF TypeOK
<1> QED
  BY <1>1, <1>6, <1>7 DEF KeepsPolicy

\* The feed has just been rescheduled from the settings in force.
LEMMA RescheduledFollowsPolicy ==
    ASSUME TypeOK, TypeOK', NEW f \in live, UNCHANGED <<live, rowVars>>,
           dueIn'[f] = Schedule(f, ResolveEffective(f)')
    PROVE  WaitFollowsPolicy(f)'
<1> DEFINE s == ResolveEffective(f)'
           wait == ComputeNextScheduledFetch(~fetched[f], health[f], failures[f], s.interval)
<1>1. f \in Feeds
  BY DEF TypeOK
<1>2. s \in Settings
  <2>1. s = Inherit(feedSettings'[f], memberOf'[f], groupSettings', globals')
    BY DEF ResolveEffective
  <2>2. /\ feedSettings'[f] \in Settings \cup {NULL}
        /\ memberOf'[f] \in Groups \cup {NULL}
        /\ groupSettings' \in [Groups -> Settings \cup {NULL}]
        /\ globals' \in Settings
    BY <1>1 DEF TypeOK
  <2> QED
    BY <2>1, <2>2, InheritType
<1>3. s.enabled => dueIn'[f] \in 1 .. DayCap /\ dueIn'[f] = wait
  BY <1>1, <1>2, ScheduleType DEF Schedule
<1>4. WaitFollowsPolicy(f)' <=> (s.enabled => dueIn'[f] # NULL /\ dueIn'[f] <= wait)
  BY DEF WaitFollowsPolicy, rowVars
<1> HIDE DEF s, wait
<1> QED
  BY <1>3, <1>4, FeedScheduleAssumptions, DayCapAssumption

\* record_fetch_result has just written what follows from the settings and the count
\* that are still in force.
LEMMA WrittenFollowsPolicy ==
    ASSUME TypeOK, NEW f \in live, NEW success \in BOOLEAN,
           WriteFetchResult(f, success, ReadForRecord(f))
    PROVE  WaitFollowsPolicy(f)'
<1> DEFINE s     == ResolveEffective(f)
           isNew == ~fetched[f]
           n     == IF success THEN 0 ELSE AtMost(failures[f] + 1, MaxFailures)
           d     == IF s.enabled THEN Wait(isNew, HealthAfter(n), n, s.interval) ELSE NULL
<1>1. f \in Feeds /\ s \in Settings /\ isNew \in BOOLEAN
  BY EffectiveType DEF TypeOK
<1>2. n \in Nat
  BY <1>1, FeedScheduleAssumptions DEF TypeOK, AtMost
<1>3. /\ fetched'[f] = TRUE
      /\ failures'[f] = n
      /\ health'[f] = HealthAfter(n)
      /\ dueIn'[f] = d
      /\ ResolveEffective(f)' = s
  BY <1>1 DEF WriteFetchResult, ReadForRecord, Wait, TypeOK, ResolveEffective, settingsVars
<1>4. RowGood(s, TRUE, HealthAfter(n), n, d, 0)
  <2> HIDE DEF s, isNew, n
  <2> QED  BY <1>1, <1>2, GoodAfterRecord
<1>5. s.enabled => d # NULL /\ d <= Wait(~TRUE, HealthAfter(n), n, s.interval)
  <2> HIDE DEF s, n, d
  <2> QED  BY <1>4 DEF RowGood
<1>6. WaitFollowsPolicy(f)' <=>
        (f \in live' /\ ResolveEffective(f)'.enabled =>
            dueIn'[f] # NULL /\ dueIn'[f] <= Wait(~fetched'[f], health'[f], failures'[f],
                                                   ResolveEffective(f)'.interval))
  BY Zenon DEF WaitFollowsPolicy, Wait
<1> HIDE DEF s, isNew, n, d
<1>7. Wait(~fetched'[f], health'[f], failures'[f], ResolveEffective(f)'.interval)
         = Wait(~TRUE, HealthAfter(n), n, s.interval)
  BY <1>3, Zenon
<1> QED
  BY <1>3, <1>5, <1>6, <1>7

LEMMA NextKeepsPolicy ==
    ASSUME LoopInv, SinceInv, [LoopNext]_vars, NEW f \in live
    PROVE  KeepsPolicy(f)
<1>1. TypeOK /\ TypeOK' /\ f \in Feeds
  BY LoopKeepsSchedule DEF LoopInv, LoopTypeOK, TypeOK
<1>2. dueIn[f] \in Int \cup {NULL} /\ sinceFetch[f] \in Int
  BY <1>1, FeedScheduleAssumptions, DayCapAssumption DEF TypeOK
<1>3. CASE UNCHANGED scheduleVars
  <2>1. ResolveEffective(f)' = ResolveEffective(f)
    BY <1>3 DEF scheduleVars, settingsVars, ResolveEffective
  <2> QED
    BY <1>1, <1>2, <1>3, <2>1, CloserKeepsPolicy DEF scheduleVars, rowVars
<1>4. CASE SettingsStep
  <2>1. PICK changed : /\ UNCHANGED <<live, rowVars>>
                       /\ Recalculate(changed)
                       /\ \A k \in live \ changed : ResolveEffective(k)' = ResolveEffective(k)
    BY <1>1, <1>4, SettingsStepReschedules DEF Reschedules
  <2>2. CASE f \in changed
    <3>1. dueIn'[f] = Schedule(f, ResolveEffective(f)')
      BY <1>1, <2>1, <2>2 DEF Recalculate, ResolveEffective
    <3>2. WaitFollowsPolicy(f)'
      BY <1>1, <2>1, <3>1, RescheduledFollowsPolicy
    <3>3. ~(sinceFetch'[f] < sinceFetch[f])
      BY <1>2, <2>1 DEF rowVars
    <3> QED
      BY <3>2, <3>3 DEF KeepsPolicy
  <2>3. CASE f \notin changed
    <3>1. dueIn'[f] = dueIn[f] /\ ResolveEffective(f)' = ResolveEffective(f)
      BY <1>1, <2>1, <2>3 DEF Recalculate
    <3> QED
      BY <1>1, <1>2, <2>1, <3>1, CloserKeepsPolicy DEF rowVars
  <2> QED
    BY <2>2, <2>3
<1>5. ASSUME NEW g \in Feeds, UpsertNewFeed(g) PROVE KeepsPolicy(f)
  <2>1. ResolveEffective(f)' = ResolveEffective(f)
    BY <1>5 DEF UpsertNewFeed, settingsVars, ResolveEffective
  <2>2. dueIn'[f] = dueIn[f] /\ f \in live' /\ UNCHANGED rowVars
    BY <1>1, <1>5 DEF UpsertNewFeed, TypeOK
  <2> QED
    BY <1>1, <1>2, <2>1, <2>2, CloserKeepsPolicy DEF rowVars
<1>6. CASE Tick
  <2>1. ResolveEffective(f)' = ResolveEffective(f)
    BY <1>6 DEF Tick, settingsVars, ResolveEffective
  <2>2. dueIn[f] # NULL => dueIn'[f] \in Int /\ dueIn'[f] <= dueIn[f]
    BY <1>1, <1>2, <1>6 DEF Tick
  <2>3. sinceFetch'[f] >= sinceFetch[f]
    <3>1. sinceFetch[f] \in 0 .. DayCap /\ (~fetched[f] => sinceFetch[f] = 0)
      BY <1>1 DEF SinceInv, TypeOK
    <3>2. sinceFetch'[f] = IF fetched[f] THEN AtMost(sinceFetch[f] + 1, DayCap) ELSE 0
      BY <1>1, <1>6 DEF Tick
    <3> QED
      BY <3>1, <3>2, DayCapAssumption DEF AtMost
  <2> QED
    BY <1>1, <1>6, <2>1, <2>2, <2>3, CloserKeepsPolicy DEF Tick
<1>7. ASSUME NEW w \in Refreshers, RecordWrite(w) PROVE KeepsPolicy(f)
  <2>1. pc[w] = "write" /\ WriteFetchResult(Current(w), fetchOk[w], seen[w]) /\ fetchOk[w] \in BOOLEAN
    BY <1>7 DEF RecordWrite, LoopInv, LoopTypeOK
  <2>2. ResolveEffective(f)' = ResolveEffective(f) /\ live' = live
    BY <2>1 DEF WriteFetchResult, settingsVars, ResolveEffective
  <2>3. CASE Current(w) # f
    <3>1. /\ fetched'[f] = fetched[f] /\ health'[f] = health[f] /\ failures'[f] = failures[f]
          /\ dueIn'[f] = dueIn[f] /\ sinceFetch'[f] = sinceFetch[f]
      BY <1>1, <2>1, <2>3 DEF WriteFetchResult, TypeOK
    <3> QED
      BY <1>1, <1>2, <2>2, <3>1, CloserKeepsPolicy
  <2>4. CASE Current(w) = f /\ seen[w] = ReadForRecord(f)
    <3>1. WaitFollowsPolicy(f)'
      BY <1>1, <2>1, <2>4, WrittenFollowsPolicy
    <3> QED
      BY <2>2, <3>1 DEF KeepsPolicy
  <2>5. CASE Current(w) = f /\ seen[w] # ReadForRecord(f)
    <3>1. WritesStale(w, f)
      BY <2>1, <2>5 DEF WritesStale
    <3> QED
      BY <2>2, <3>1 DEF KeepsPolicy
  <2> QED
    BY <2>3, <2>4, <2>5
<1> QED
  BY <1>3, <1>4, <1>5, <1>6, <1>7
  DEF LoopNext, RefreshStep, FetchStep, Environment, StartBatch, FetchSucceeds, ServerFetchFails,
      FfiFetchFails, RecordRead, RecordAttempt, Crash, RefreshOne, UserStep, ClockTick, vars

\* Only a record_fetch_result that writes what it read before a change can take a feed's
\* schedule off its settings, and any other one puts it back: for all feeds, groups,
\* settings and numbers of refreshers, in every interleaving with users and crashes.
THEOREM OnlyStaleWritesBreakPolicy == LoopSpec => OnlyRacesBreakPolicy
<1>1. LoopInit => SinceInv
  BY DEF LoopInit, Init, SinceInv
<1>2. LoopInv /\ SinceInv /\ [LoopNext]_vars =>
        [\A f \in live :
            /\ WaitFollowsPolicy(f) =>
                  WaitFollowsPolicy(f)' \/ \E w \in Refreshers : WritesStale(w, f)
            /\ sinceFetch'[f] < sinceFetch[f] /\ ~WaitFollowsPolicy(f)' =>
                  \E w \in Refreshers : WritesStale(w, f)
            /\ ResolveEffective(f)' # ResolveEffective(f) => WaitFollowsPolicy(f)']_vars
  BY NextKeepsPolicy DEF KeepsPolicy
<1> QED
  BY LoopInitInv, LoopNextInv, NextSinceInv, <1>1, <1>2, PTL DEF LoopSpec, OnlyRacesBreakPolicy

=============================================================================
