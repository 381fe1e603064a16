--------------------------- MODULE SyncCoordinator ---------------------------
(***************************************************************************)
(* The CloudKit coordinator of the Apple shell over the journals of        *)
(* SyncJournal: syncNow uploads a device's pending events, acknowledges    *)
(* them, fetches what other devices uploaded since its watermark and       *)
(* applies it.  Every call it awaits is a step of its own; several         *)
(* syncNow may run on one device, and the app may be killed anywhere.      *)
(***************************************************************************)
EXTENDS SyncJournal

CONSTANTS
    Calls,           \* the syncNow calls that may run on one device at a time
    BatchLimit,      \* limit of listPendingSyncEvents
    MaxAttempts,     \* maxRetries
    Second,          \* units of created_at in a second
    RecordsMayFail,  \* whether CloudKit may refuse single records of an upload
    MaxCrashes       \* bound: how often a device is killed

ASSUME SyncCoordinatorAssumptions ==
    /\ BatchLimit \in Nat \ {0}
    /\ MaxAttempts \in Nat \ {0}
    /\ Second \in Nat \ {0}
    /\ RecordsMayFail \in BOOLEAN
    /\ MaxCrashes \in Nat

Syncs == Devices \X Calls
DeviceOf(c) == c[1]

VARIABLES
    cloud,        \* the records of the private database
    lastSyncAt,   \* status.lastSyncAt, 0 for nil
    savedSyncAt,  \* what UserDefaults holds of it
    pc, attempt,  \* where each syncNow is, and which attempt it is in
    batch,        \* the events it listed
    remote,       \* the events it fetched and has not applied
    newest,       \* created_at of the newest it fetched, 0 for none
    crashes,
    applied,      \* history: the events each device has applied
    late          \* history: events it has not applied that were uploaded after
                  \* its watermark, or a fetch that will move it, had passed them

callVars    == <<pc, attempt, batch, remote, newest>>
historyVars == <<applied, late>>
vars == <<journalVars, cloud, lastSyncAt, savedSyncAt, callVars, crashes, historyVars>>

TypeOK ==
    /\ JournalTypeOK
    /\ cloud \subseteq journal
    /\ lastSyncAt \in [Devices -> 0 .. MaxEvents]
    /\ savedSyncAt \in [Devices -> 0 .. MaxEvents]
    /\ pc \in [Syncs -> {"idle", "list", "upload", "ack", "fetch", "apply"}]
    /\ attempt \in [Syncs -> 0 .. MaxAttempts]
    /\ batch \in [Syncs -> SUBSET journal]
    /\ remote \in [Syncs -> SUBSET cloud]
    /\ newest \in [Syncs -> 0 .. MaxEvents]
    /\ crashes \in 0 .. MaxCrashes
    /\ applied \in [Devices -> SUBSET journal]
    /\ late \in [Devices -> SUBSET journal]

Init ==
    /\ JournalInit
    /\ cloud = {}
    /\ lastSyncAt = [d \in Devices |-> 0]
    /\ savedSyncAt = [d \in Devices |-> 0]
    /\ pc = [c \in Syncs |-> "idle"]
    /\ attempt = [c \in Syncs |-> 0]
    /\ batch = [c \in Syncs |-> {}]
    /\ remote = [c \in Syncs |-> {}]
    /\ newest = [c \in Syncs |-> 0]
    /\ crashes = 0
    /\ applied = [d \in Devices |-> {}]
    /\ late = [d \in Devices |-> {}]

-----------------------------------------------------------------------------
Goto(c, step) == pc' = [pc EXCEPT ![c] = step]

Drop(c) ==
    /\ batch' = [batch EXCEPT ![c] = {}]
    /\ remote' = [remote EXCEPT ![c] = {}]
    /\ newest' = [newest EXCEPT ![c] = 0]

\* Mutant: one attempt too many.
RetryOnceMore(c) ==
    /\ Drop(c)
    /\ IF attempt[c] <= MaxAttempts
       THEN Goto(c, "list") /\ attempt' = [attempt EXCEPT ![c] = @ + 1]
       ELSE Goto(c, "idle") /\ attempt' = [attempt EXCEPT ![c] = 0]

\* The catch of syncNow: after a pause it starts over, MaxAttempts times in all.
Retry(c) ==
    /\ Drop(c)
    /\ IF attempt[c] < MaxAttempts
       THEN Goto(c, "list") /\ attempt' = [attempt EXCEPT ![c] = @ + 1]
       ELSE Goto(c, "idle") /\ attempt' = [attempt EXCEPT ![c] = 0]

\* syncNow, enabled and with the account available (otherwise it only reports).
SyncNow(c) ==
    /\ pc[c] = "idle"
    /\ Goto(c, "list")
    /\ attempt' = [attempt EXCEPT ![c] = 1]
    /\ UNCHANGED <<journalVars, cloud, lastSyncAt, savedSyncAt, batch, remote, newest, crashes, historyVars>>

\* Mutant: acknowledged when they are listed.
ListAndAcknowledge(c) ==
    /\ pc[c] = "list"
    /\ LET pending == ListPending(DeviceOf(c), BatchLimit)
       IN  /\ batch' = [batch EXCEPT ![c] = pending]
           /\ Acknowledge(pending)
           /\ Goto(c, IF pending = {} THEN "fetch" ELSE "upload")
    /\ UNCHANGED <<data, journal, cloud, lastSyncAt, savedSyncAt, attempt, remote, newest, crashes, historyVars>>

List(c) ==
    /\ pc[c] = "list"
    /\ LET pending == ListPending(DeviceOf(c), BatchLimit)
       IN  /\ batch' = [batch EXCEPT ![c] = pending]
           /\ Goto(c, IF pending = {} THEN "fetch" ELSE "upload")
    /\ UNCHANGED <<journalVars, cloud, lastSyncAt, savedSyncAt, attempt, remote, newest, crashes, historyVars>>

\* The events that arrive in the cloud.  Saving a record again changes nothing.
Store(events) ==
    /\ cloud' = cloud \cup events
    /\ late' = [d \in Devices |-> late[d] \cup
          {e \in events \ (cloud \cup applied[d]) :
              \/ e.at <= lastSyncAt[d]
              \/ \E c \in Syncs : DeviceOf(c) = d /\ pc[c] = "apply"}]

\* modifyRecords returns; what it says of each record is not looked at.
Upload(c) ==
    /\ pc[c] = "upload"
    /\ \E saved \in SUBSET batch[c] :
          /\ saved = batch[c] \/ RecordsMayFail
          /\ Store(saved)
    /\ Goto(c, "ack")
    /\ UNCHANGED <<journalVars, lastSyncAt, savedSyncAt, attempt, batch, remote, newest, crashes, applied>>

\* The call throws, before or after the records were saved.
UploadFails(c) ==
    /\ pc[c] = "upload"
    /\ Store({}) \/ Store(batch[c])
    /\ Retry(c)
    /\ UNCHANGED <<journalVars, lastSyncAt, savedSyncAt, crashes, applied>>

\* Mutant: all that is pending by now is acknowledged.
AckPending(c) ==
    /\ pc[c] = "ack"
    /\ Acknowledge(Pending(DeviceOf(c)))
    /\ Goto(c, "fetch")
    /\ batch' = [batch EXCEPT ![c] = {}]
    /\ UNCHANGED <<data, journal, cloud, lastSyncAt, savedSyncAt, attempt, remote, newest, crashes, historyVars>>

Ack(c) ==
    /\ pc[c] = "ack"
    /\ Acknowledge(batch[c])
    /\ Goto(c, "fetch")
    /\ batch' = [batch EXCEPT ![c] = {}]
    /\ UNCHANGED <<data, journal, cloud, lastSyncAt, savedSyncAt, attempt, remote, newest, crashes, historyVars>>

\* The events are fetched, and so applied, in the order of their creation.
Earliest(events) == {e \in events : \A o \in events : e.at <= o.at}

FetchRemote(d) == {e \in cloud : e.at > lastSyncAt[d] /\ e.origin # d}

Fetch(c) ==
    /\ pc[c] = "fetch"
    /\ LET events == FetchRemote(DeviceOf(c))
       IN  /\ remote' = [remote EXCEPT ![c] = events]
           /\ newest' = [newest EXCEPT ![c] =
                            CHOOSE t \in 0 .. MaxEvents :
                                /\ \A e \in events : e.at <= t
                                /\ t = 0 \/ \E e \in events : e.at = t]
    /\ Goto(c, "apply")
    /\ UNCHANGED <<journalVars, cloud, lastSyncAt, savedSyncAt, attempt, batch, crashes, historyVars>>

\* Mutant: a failed fetch counts as one that found nothing.
FetchFailsQuietly(c) ==
    /\ pc[c] = "fetch"
    /\ Goto(c, "apply")
    /\ UNCHANGED <<journalVars, cloud, lastSyncAt, savedSyncAt, attempt, batch, remote, newest, crashes, historyVars>>

FetchFails(c) ==
    /\ pc[c] = "fetch"
    /\ Retry(c)
    /\ UNCHANGED <<journalVars, cloud, lastSyncAt, savedSyncAt, crashes, historyVars>>

\* apply_sync_events takes the events one by one, each in transactions of its own.
ApplyNext(c) ==
    LET d == DeviceOf(c)
    IN  /\ pc[c] = "apply"
        /\ \E e \in Earliest(remote[c]) :
              /\ Decodable(e)
              /\ data' = [data EXCEPT ![d] = Apply(@, e)]
              /\ applied' = [applied EXCEPT ![d] = @ \cup {e}]
              /\ late' = [late EXCEPT ![d] = @ \ {e}]
              /\ remote' = [remote EXCEPT ![c] = @ \ {e}]
        /\ UNCHANGED <<journal, processed, cloud, lastSyncAt, savedSyncAt, pc, attempt, batch, newest, crashes>>

\* An event it cannot read ends the batch with an error.
ApplyFails(c) ==
    /\ pc[c] = "apply"
    /\ \E e \in Earliest(remote[c]) : ~Decodable(e)
    /\ Retry(c)
    /\ UNCHANGED <<journalVars, cloud, lastSyncAt, savedSyncAt, crashes, historyVars>>

\* Mutant: the date is rounded up.
RoundedUp(t) == t + ((-t) % Second)

\* The date is stored without its fraction of a second.
Truncated(t) == t - (t % Second)

\* All is applied: the watermark goes to the newest event, or to the present when
\* there was none.
Finish(c) ==
    LET d    == DeviceOf(c)
        mark == IF newest[c] = 0 THEN Now ELSE newest[c]
    IN  /\ pc[c] = "apply" /\ remote[c] = {}
        /\ lastSyncAt' = [lastSyncAt EXCEPT ![d] = mark]
        /\ savedSyncAt' = [savedSyncAt EXCEPT ![d] = Truncated(mark)]
        /\ Goto(c, "idle")
        /\ attempt' = [attempt EXCEPT ![c] = 0]
        /\ Drop(c)
        /\ UNCHANGED <<journalVars, cloud, crashes, historyVars>>

\* The app is killed and launched again.
Restart(d) ==
    /\ crashes < MaxCrashes
    /\ crashes' = crashes + 1
    /\ lastSyncAt' = [lastSyncAt EXCEPT ![d] = savedSyncAt[d]]
    /\ pc' = [c \in Syncs |-> IF DeviceOf(c) = d THEN "idle" ELSE pc[c]]
    /\ attempt' = [c \in Syncs |-> IF DeviceOf(c) = d THEN 0 ELSE attempt[c]]
    /\ batch' = [c \in Syncs |-> IF DeviceOf(c) = d THEN {} ELSE batch[c]]
    /\ remote' = [c \in Syncs |-> IF DeviceOf(c) = d THEN {} ELSE remote[c]]
    /\ newest' = [c \in Syncs |-> IF DeviceOf(c) = d THEN 0 ELSE newest[c]]
    /\ UNCHANGED <<journalVars, cloud, savedSyncAt, historyVars>>

LocalStep(d) ==
    /\ LocalWrite(d)
    /\ UNCHANGED <<cloud, lastSyncAt, savedSyncAt, callVars, crashes, historyVars>>

Progress(c) == List(c) \/ Ack(c) \/ ApplyNext(c) \/ ApplyFails(c) \/ Finish(c)

Answer(c) == Upload(c) \/ Fetch(c)

Failure(c) == UploadFails(c) \/ FetchFails(c)

Next ==
    \/ \E c \in Syncs : SyncNow(c) \/ Progress(c) \/ Answer(c) \/ Failure(c)
    \/ \E d \in Devices : LocalStep(d) \/ Restart(d)

Spec == Init /\ [][Next]_vars

\* Users sync again and again, a call that runs goes on, and CloudKit does not fail
\* for ever.
FairSpec ==
    /\ Spec
    /\ \A c \in Syncs : WF_vars(SyncNow(c)) /\ WF_vars(Progress(c))
                        /\ SF_vars(Upload(c)) /\ SF_vars(Fetch(c))

-----------------------------------------------------------------------------
(***************************************************************************)
(* Properties                                                              *)
(***************************************************************************)
\* An event is marked processed only when the cloud has it, whatever uploads were
\* cut off, repeated or raced by another syncNow: once processed it is never
\* uploaded again.
ProcessedIsUploaded == processed \subseteq cloud

\* The watermark of a device never passes an event of another device that it has not
\* applied, except one that reached the cloud too late: after the watermark, or
\* the fetch that moved it.  (Two syncNow on one device may apply and move the
\* watermark in any order; a failure half-way must not move it.)
OnlyLateEventsAreMissed ==
    \A d \in Devices : \A e \in cloud :
        e.origin # d /\ e.at <= lastSyncAt[d] => e \in applied[d] \cup late[d]

\* Every journaled event reaches the cloud and is acknowledged, through failed uploads,
\* uploads whose answer is lost, and restarts, however few a batch holds.
PendingReachCloud ==
    \A d \in Devices : (Pending(d) # {}) ~> (Pending(d) = {})

\* The events other devices have journaled.
Others(d) == {e \in journal : e.origin # d}

CaughtUp(d) ==
    /\ Others(d) \subseteq applied[d]
    /\ \A e \in Others(d) : e.at <= lastSyncAt[d]
    /\ \A c \in Syncs : DeviceOf(c) = d => pc[c] # "apply"

\* What devices are to agree on.  The state of an article is left out: it is skipped
\* when it comes before the article.
Shared(t) == <<t.feeds, t.groups, t.memberOf, t.settings, t.perGroup, t.notes>>

\* Devices that have applied everything the others journaled hold the same feeds,
\* groups, memberships, settings and notes: replaying the events does what the
\* operations did, through interrupted batches and events fetched twice.
CaughtUpDevicesAgree ==
    \A d1, d2 \in Devices :
        CaughtUp(d1) /\ CaughtUp(d2) => Shared(data[d1]) = Shared(data[d2])

\* A tombstone can be replayed: no device comes to one that it cannot decode.
TombstonesAreReplayed ==
    \A c \in Syncs :
        pc[c] = "apply" => \A e \in Earliest(remote[c]) : e.type = "deleted" => Decodable(e)

=============================================================================
