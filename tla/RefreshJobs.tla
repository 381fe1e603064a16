----------------------------- MODULE RefreshJobs -----------------------------
(***************************************************************************)
(* The refresh_jobs row the server keeps for each feed, beside the         *)
(* schedule of the feeds table: record_refresh_attempt runs after          *)
(* record_fetch_result and replaces the row.                               *)
(***************************************************************************)
EXTENDS RefreshLoop

ASSUME RefreshJobsAssumptions == NULL \notin [failures : Nat, succeeded : BOOLEAN]

VARIABLE jobs   \* per feed, failure_count and whether last_success_at is set

jobVars == <<vars, jobs>>

JobTypeOK ==
    /\ LoopTypeOK
    /\ jobs \in [Feeds -> [failures : 0 .. MaxFailures, succeeded : BOOLEAN] \cup {NULL}]

JobInit == LoopInit /\ jobs = [f \in Feeds |-> NULL]

\* Mutants: the failure is counted again; only successes are recorded.
CountAttemptAgain(w) ==
    /\ RecordAttempt(w)
    /\ jobs' = [jobs EXCEPT ![Current(w)] =
                   [failures |-> failures[Current(w)] + IF fetchOk[w] THEN 0 ELSE 1,
                    succeeded |-> fetchOk[w]]]

RecordSuccessOnly(w) ==
    /\ RecordAttempt(w)
    /\ jobs' = IF fetchOk[w]
               THEN [jobs EXCEPT ![Current(w)] = [failures |-> 0, succeeded |-> TRUE]]
               ELSE jobs

\* The row takes the failure count the feed has by now; last_success_at is set to
\* this attempt's time, or to NULL when it failed.
RecordRefreshAttempt(w) ==
    /\ RecordAttempt(w)
    /\ jobs' = [jobs EXCEPT ![Current(w)] =
                   [failures |-> failures[Current(w)], succeeded |-> fetchOk[w]]]

JobStep(w) == RecordRefreshAttempt(w) \/ (FetchStep(w) /\ UNCHANGED jobs)

JobNext ==
    \/ \E w \in Refreshers : JobStep(w)
    \/ Environment /\ UNCHANGED jobs

\* As LoopSpec.
JobSpec ==
    /\ JobInit /\ [][JobNext]_jobVars
    /\ \A w \in Refreshers : WF_jobVars(JobStep(w))
    /\ WF_jobVars(ClockTick /\ UNCHANGED jobs)

-----------------------------------------------------------------------------
\* Between two refreshes the job row and the feed row tell the same story, though
\* they are written one after the other: they have the same failure count, the last
\* attempt succeeded just when there is none, and a feed that has been fetched has a
\* job.  (A crash between the two writes leaves them apart until the next refresh.)
JobAgreesWithFeed ==
    \A f \in live :
        crashes = 0 /\ (\A w \in Refreshers : pc[w] = "idle" \/ Current(w) # f) =>
            IF fetched[f]
            THEN /\ jobs[f] # NULL
                 /\ jobs[f].failures = failures[f]
                 /\ jobs[f].succeeded <=> failures[f] = 0
            ELSE jobs[f] = NULL

=============================================================================
