------------------------ MODULE SyncCoordinator_proofs ------------------------
(***************************************************************************)
(* The CloudKit coordinator, proved for any devices, users, overlapping    *)
(* calls, batch and retry limits, and any number of events and restarts.   *)
(***************************************************************************)
EXTENDS SyncCoordinator, FiniteSetTheorems, WellFoundedInduction, TLAPS

(***************************************************************************)
(* The tables.                                                             *)
(***************************************************************************)
\* What an event says fits the table it is about, which its record type leaves open.
SoundEvent(e) ==
    /\ e.entity \in {"feed", "feed_membership", "feed_refresh_settings", "item_state"}
          => e.key \in Feeds
    /\ e.entity \in {"feed_group", "group_refresh_settings"} => e.key \in Groups
    /\ e.entity = "entry" => e.key \in Notes
    /\ e.entity = "feed_membership" => e.value \in Groups \cup {NULL}
    /\ e.entity \in {"feed_refresh_settings", "group_refresh_settings", "entry"}
          => e.value \in Values \cup {NULL}
    /\ e.entity = "item_state" => e.value \in BOOLEAN

\* The operations of storage leave tables behind.
LEMMA RowsType ==
    ASSUME NEW t \in Tables, NEW f \in Feeds, NEW g \in Groups
    PROVE  /\ UpsertFeed(t, f) \in Tables
           /\ DeleteFeedRow(t, f) \in Tables
           /\ CreateGroupRow(t, g) \in Tables
           /\ DeleteGroupRow(t, g) \in Tables
<1>1. UpsertFeed(t, f) \in Tables /\ CreateGroupRow(t, g) \in Tables
  BY DEF Tables, UpsertFeed, CreateGroupRow
<1>2. DeleteFeedRow(t, f) \in Tables
  BY DEF Tables, DeleteFeedRow
<1>3. DeleteGroupRow(t, g) \in Tables
  BY Zenon DEF Tables, DeleteGroupRow
<1> QED
  BY <1>1, <1>2, <1>3

\* So does a new value in any of their cells.
LEMMA CellsType ==
    ASSUME NEW t \in Tables, NEW f \in Feeds, NEW g \in Groups, NEW n \in Notes,
           NEW v \in Values \cup {NULL}, NEW h \in Groups \cup {NULL},
           NEW r \in BOOLEAN \cup {NULL}
    PROVE  /\ SetMembership(t, f, h) \in Tables
           /\ [t EXCEPT !.settings[f] = v] \in Tables
           /\ [t EXCEPT !.perGroup[g] = v] \in Tables
           /\ [t EXCEPT !.read[f] = r] \in Tables
           /\ [t EXCEPT !.notes[n] = v] \in Tables
<1>1. SetMembership(t, f, h) \in Tables
  BY DEF Tables, SetMembership
<1>2. [t EXCEPT !.settings[f] = v] \in Tables
  BY DEF Tables
<1>3. [t EXCEPT !.perGroup[g] = v] \in Tables
  BY DEF Tables
<1>4. [t EXCEPT !.read[f] = r] \in Tables
  BY DEF Tables
<1>5. [t EXCEPT !.notes[n] = v] \in Tables
  BY DEF Tables
<1> QED
  BY <1>1, <1>2, <1>3, <1>4, <1>5

\* Replaying an event that can be decoded leaves tables behind.
LEMMA ApplyType ==
    ASSUME NEW t \in Tables, NEW e \in Event, SoundEvent(e), Decodable(e)
    PROVE  Apply(t, e) \in Tables
<1>1. Apply(t, e) = ApplyChange(t, e)
  BY DEF Apply, Decodable
<1>2. CASE e.entity = "feed"
  <2>1. e.key \in Feeds
    BY <1>2 DEF SoundEvent
  <2>2. ApplyChange(t, e) = UpsertFeed(t, e.key)
    BY <1>2 DEF ApplyChange
  <2> QED
    BY <1>1, <2>1, <2>2 DEF UpsertFeed, Tables
<1>3. CASE e.entity = "feed_group"
  <2>1. e.key \in Groups
    BY <1>3 DEF SoundEvent
  <2>2. ApplyChange(t, e) = CreateGroupRow(t, e.key)
    BY <1>3 DEF ApplyChange
  <2> QED
    BY <1>1, <2>1, <2>2 DEF CreateGroupRow, Tables
<1>4. CASE e.entity = "feed_membership"
  <2> DEFINE known   == UpsertFeed(t, e.key)
             grouped == IF e.value = NULL THEN known ELSE CreateGroupRow(known, e.value)
  <2>1. e.key \in Feeds /\ e.value \in Groups \cup {NULL}
    BY <1>4 DEF SoundEvent
  <2>2. known \in Tables
    BY <2>1 DEF UpsertFeed, Tables
  <2>3. grouped \in Tables
    <3> HIDE DEF known
    <3>1. CASE e.value = NULL
      BY <2>2, <3>1
    <3>2. CASE e.value # NULL
      BY <2>1, <2>2, <3>2 DEF CreateGroupRow, Tables
    <3> QED
      BY <3>1, <3>2
  <2>4. ApplyChange(t, e) = SetMembership(grouped, e.key, e.value)
    BY <1>4 DEF ApplyChange
  <2> HIDE DEF grouped
  <2> QED
    BY <1>1, <2>1, <2>3, <2>4, SMTT(20) DEF SetMembership, Tables
<1>5. CASE e.entity = "feed_refresh_settings"
  <2> DEFINE known == UpsertFeed(t, e.key)
  <2>1. e.key \in Feeds /\ e.value \in Values \cup {NULL}
    BY <1>5 DEF SoundEvent
  <2>2. known \in Tables
    BY <2>1 DEF UpsertFeed, Tables
  <2>3. ApplyChange(t, e) = [known EXCEPT !.settings[e.key] = e.value]
    BY <1>5 DEF ApplyChange
  <2> HIDE DEF known
  <2> QED
    BY <1>1, <2>1, <2>2, <2>3, SMTT(20) DEF Tables
<1>6. CASE e.entity = "group_refresh_settings"
  <2> DEFINE known == CreateGroupRow(t, e.key)
  <2>1. e.key \in Groups /\ e.value \in Values \cup {NULL}
    BY <1>6 DEF SoundEvent
  <2>2. known \in Tables
    BY <2>1 DEF CreateGroupRow, Tables
  <2>3. ApplyChange(t, e) = [known EXCEPT !.perGroup[e.key] = e.value]
    BY <1>6 DEF ApplyChange
  <2> HIDE DEF known
  <2> QED
    BY <1>1, <2>1, <2>2, <2>3, SMTT(20) DEF Tables
<1>7. CASE e.entity = "item_state"
  <2>1. e.key \in Feeds /\ e.value \in BOOLEAN
    BY <1>7 DEF SoundEvent
  <2>2. ApplyChange(t, e) =
          IF t.read[e.key] = NULL THEN t ELSE [t EXCEPT !.read[e.key] = e.value]
    BY <1>7 DEF ApplyChange
  <2>3. [t EXCEPT !.read[e.key] = e.value] \in Tables
    BY <2>1 DEF Tables
  <2> QED
    BY <1>1, <2>2, <2>3
<1>8. CASE e.entity = "entry"
  <2>1. e.key \in Notes /\ e.value \in Values \cup {NULL}
    BY <1>8 DEF SoundEvent
  <2>2. ApplyChange(t, e) = [t EXCEPT !.notes[e.key] = e.value]
    BY <1>8 DEF ApplyChange
  <2> QED
    BY <1>1, <2>1, <2>2 DEF Tables
<1> QED
  BY <1>2, <1>3, <1>4, <1>5, <1>6, <1>7, <1>8 DEF Event

(***************************************************************************)
(* The journal.                                                            *)
(***************************************************************************)
\* The events are finitely many, each fits its table, and none is newer than the present.
JournalInv ==
    /\ JournalTypeOK
    /\ IsFiniteSet(journal)
    /\ Now \in 0 .. MaxEvents
    /\ \A e \in journal : SoundEvent(e) /\ e.at <= Now

\* What a user does on a device journals only what comes after all that was journaled.
Journals ==
    /\ JournalInv'
    /\ journal \subseteq journal'
    /\ processed' = processed
    /\ Now <= Now'
    /\ \A e \in journal' \ journal : e.at > Now

LEMMA WriteJournals ==
    ASSUME JournalInv, NEW d \in Devices, NEW tables \in Tables,
           NEW entity \in {"feed", "feed_group", "feed_membership", "feed_refresh_settings",
                           "group_refresh_settings", "item_state", "entry"},
           NEW type \in {"created", "updated", "deleted"},
           NEW key \in Feeds \cup Groups \cup Notes,
           NEW value \in Groups \cup Values \cup BOOLEAN \cup {NULL},
           Write(d, tables, entity, type, key, value),
           \A at \in 1 .. MaxEvents :
              SoundEvent([entity |-> entity, type |-> type, key |-> key, value |-> value,
                          at |-> at, origin |-> d])
    PROVE  Journals
<1> DEFINE at == Now + 1
           e  == [entity |-> entity, type |-> type, key |-> key, value |-> value,
                  at |-> at, origin |-> d]
<1>1. at \in 1 .. MaxEvents /\ Now \in Nat
  BY SyncJournalAssumptions DEF JournalInv, Write
<1>2. journal' = journal \cup {e} /\ processed' = processed
  BY DEF Write
<1>3. e \in Event /\ SoundEvent(e) /\ e.at = Now + 1
  <2> HIDE DEF at
  <2>1. e \in Event
    BY <1>1 DEF Event
  <2>2. SoundEvent(e)
    BY <1>1
  <2> QED
    BY <2>1, <2>2 DEF at
<1> HIDE DEF e, at
<1>4. e \notin journal
  BY <1>1, <1>3 DEF JournalInv
<1>5. IsFiniteSet(journal') /\ Now' = Now + 1
  BY <1>2, <1>4, FS_AddElement DEF JournalInv, Now
<1>6. JournalTypeOK'
  <2>1. data' \in [Devices -> Tables]
    BY DEF Write, JournalInv, JournalTypeOK
  <2> QED
    BY <1>2, <1>3, <2>1 DEF JournalInv, JournalTypeOK
<1>7. \A x \in journal' : SoundEvent(x) /\ x.at <= Now'
  <2>1. \A x \in journal : x.at \in Int
    BY SyncJournalAssumptions DEF JournalInv, JournalTypeOK, Event
  <2> QED
    BY <1>1, <1>2, <1>3, <1>5, <2>1 DEF JournalInv
<1>8. Now' \in 0 .. MaxEvents
  BY <1>1, <1>5 DEF at
<1> QED
  BY <1>1, <1>2, <1>3, <1>5, <1>6, <1>7, <1>8 DEF Journals, JournalInv

LEMMA UnjournaledJournals ==
    ASSUME JournalInv, NEW d \in Devices, NEW tables \in Tables, WriteUnjournaled(d, tables)
    PROVE  Journals
<1>1. journal' = journal /\ processed' = processed /\ Now' = Now
  BY DEF WriteUnjournaled, Now
<1>2. data' \in [Devices -> Tables]
  BY DEF WriteUnjournaled, JournalInv, JournalTypeOK
<1> QED
  BY <1>1, <1>2 DEF Journals, JournalInv, JournalTypeOK

LEMMA LocalWriteJournals ==
    ASSUME JournalInv, NEW d \in Devices, LocalWrite(d)
    PROVE  Journals
<1>1. data[d] \in Tables
  BY DEF JournalInv, JournalTypeOK
<1>2. ASSUME NEW f \in Feeds, Subscribe(d, f)
      PROVE  Journals
  <2>1. UpsertFeed(data[d], f) \in Tables
    BY <1>1 DEF UpsertFeed, Tables
  <2> QED
    BY <1>2, <2>1, WriteJournals DEF Subscribe, SoundEvent
<1>3. ASSUME NEW f \in Feeds, Refresh(d, f)
      PROVE  Journals
  <2>1. [data[d] EXCEPT !.read[f] = IF @ = NULL THEN FALSE ELSE @] \in Tables
    BY <1>1 DEF Tables
  <2> QED
    BY <1>3, <2>1, WriteJournals DEF Refresh, SoundEvent
<1>4. ASSUME NEW f \in Feeds, DeleteFeed(d, f)
      PROVE  Journals
  <2>1. DeleteFeedRow(data[d], f) \in Tables
    BY <1>1 DEF DeleteFeedRow, Tables
  <2> QED
    BY <1>4, <2>1, WriteJournals DEF DeleteFeed, SoundEvent
<1>5. ASSUME NEW f \in Feeds, DeleteFeedSettings(d, f)
      PROVE  Journals
  <2>1. [data[d] EXCEPT !.settings[f] = NULL] \in Tables
    BY <1>1 DEF Tables
  <2> QED
    BY <1>5, <2>1, WriteJournals DEF DeleteFeedSettings, SoundEvent
<1>6. ASSUME NEW f \in Feeds, NEW g \in Groups \cup {NULL}, SetFeedGroup(d, f, g)
      PROVE  Journals
  <2>1. SetMembership(data[d], f, g) \in Tables
    BY <1>1 DEF SetMembership, Tables
  <2> QED
    BY <1>6, <2>1, WriteJournals DEF SetFeedGroup, SoundEvent
<1>7. ASSUME NEW f \in Feeds, NEW v \in Values, UpsertFeedSettings(d, f, v)
      PROVE  Journals
  <2>1. [data[d] EXCEPT !.settings[f] = v] \in Tables
    BY <1>1 DEF Tables
  <2> QED
    BY <1>7, <2>1, WriteJournals DEF UpsertFeedSettings, SoundEvent
<1>8. ASSUME NEW f \in Feeds, NEW r \in BOOLEAN, PatchState(d, f, r)
      PROVE  Journals
  <2>1. [data[d] EXCEPT !.read[f] = r] \in Tables
    BY <1>1 DEF Tables
  <2> QED
    BY <1>8, <2>1, WriteJournals DEF PatchState, SoundEvent
<1>9. ASSUME NEW g \in Groups, CreateGroup(d, g)
      PROVE  Journals
  <2>1. CreateGroupRow(data[d], g) \in Tables
    BY <1>1 DEF CreateGroupRow, Tables
  <2> QED
    BY <1>9, <2>1, WriteJournals DEF CreateGroup, SoundEvent
<1>10. ASSUME NEW g \in Groups, DeleteGroup(d, g)
       PROVE  Journals
  <2>1. DeleteGroupRow(data[d], g) \in Tables
    BY <1>1, Zenon DEF DeleteGroupRow, Tables
  <2> QED
    BY <1>10, <2>1, UnjournaledJournals DEF DeleteGroup
<1>11. ASSUME NEW g \in Groups, DeleteGroupSettings(d, g)
       PROVE  Journals
  <2>1. [data[d] EXCEPT !.perGroup[g] = NULL] \in Tables
    BY <1>1 DEF Tables
  <2> QED
    BY <1>11, <2>1, WriteJournals DEF DeleteGroupSettings, SoundEvent
<1>12. ASSUME NEW g \in Groups, NEW v \in Values, UpsertGroupSettings(d, g, v)
       PROVE  Journals
  <2>1. [data[d] EXCEPT !.perGroup[g] = v] \in Tables
    BY <1>1 DEF Tables
  <2> QED
    BY <1>12, <2>1, UnjournaledJournals DEF UpsertGroupSettings
<1>13. ASSUME NEW n \in Notes, NEW v \in Values, UpsertNote(d, n, v)
       PROVE  Journals
  <2>1. [data[d] EXCEPT !.notes[n] = v] \in Tables
    BY <1>1 DEF Tables
  <2> QED
    BY <1>13, <2>1, WriteJournals DEF UpsertNote, SoundEvent
<1>14. ASSUME NEW n \in Notes, DeleteNote(d, n)
       PROVE  Journals
  <2>1. [data[d] EXCEPT !.notes[n] = NULL] \in Tables
    BY <1>1 DEF Tables
  <2> QED
    BY <1>14, <2>1, UnjournaledJournals DEF DeleteNote
<1> QED
  BY <1>2, <1>3, <1>4, <1>5, <1>6, <1>7, <1>8, <1>9, <1>10, <1>11, <1>12, <1>13, <1>14
     DEF LocalWrite

(***************************************************************************)
(* The helpers of the coordinator.                                         *)
(***************************************************************************)
\* The newest of the events fetched: a bounded set of dates has a greatest one, or is
\* empty and the answer is 0.
LEMMA NewestExists ==
    ASSUME NEW events, \A e \in events : e.at \in 1 .. MaxEvents
    PROVE  \E t \in 0 .. MaxEvents :
              /\ \A e \in events : e.at <= t
              /\ t = 0 \/ \E e \in events : e.at = t
<1> DEFINE T == {t \in 0 .. MaxEvents : \A e \in events : e.at <= t}
           R == OpToRel(<, Nat)
<1>1. T \subseteq Nat /\ MaxEvents \in T
  BY SyncJournalAssumptions
<1>2. IsWellFoundedOn(R, Nat)
  BY NatLessThanWellFounded
<1>3. PICK t \in T : \A u \in T : ~(<<u, t>> \in R)
  <2> HIDE DEF T, R
  <2> QED
    BY <1>1, <1>2, WFMin
<1>4. \A u \in T : ~(u < t)
  BY <1>1, <1>3 DEF OpToRel
<1>5. ASSUME t # 0
      PROVE  \E e \in events : e.at = t
  <2>1. t - 1 \in 0 .. MaxEvents /\ t - 1 < t
    BY <1>1, <1>5, SyncJournalAssumptions
  <2>2. PICK e \in events : ~(e.at <= t - 1)
    BY <1>4, <2>1
  <2>3. e.at <= t /\ e.at \in Int /\ t \in Int
    BY <2>2, <1>1, SyncJournalAssumptions
  <2> QED
    BY <2>2, <2>3
<1> QED
  BY <1>5, SyncJournalAssumptions

\* A watermark read back is not later than the one saved.
LEMMA TruncatedType ==
    ASSUME NEW t \in 0 .. MaxEvents
    PROVE  Truncated(t) \in 0 .. t
<1>1. t \in Nat /\ Second \in Nat \ {0}
  BY SyncJournalAssumptions, SyncCoordinatorAssumptions
<1>2. t % Second \in 0 .. t
  BY <1>1
<1> QED
  BY <1>1, <1>2 DEF Truncated

LEMMA DeviceType == \A c \in Syncs : DeviceOf(c) \in Devices
  BY DEF Syncs, DeviceOf

\* The catch of syncNow leaves the call well typed, with nothing fetched.
LEMMA RetryType ==
    ASSUME TypeOK, NEW c \in Syncs, Retry(c)
    PROVE  /\ pc' \in [Syncs -> {"idle", "list", "upload", "ack", "fetch", "apply"}]
           /\ attempt' \in [Syncs -> 0 .. MaxAttempts]
           /\ batch' \in [Syncs -> SUBSET journal]
           /\ remote' \in [Syncs -> SUBSET cloud]
           /\ newest' \in [Syncs -> 0 .. MaxEvents]
<1>1. /\ batch' \in [Syncs -> SUBSET journal]
      /\ remote' \in [Syncs -> SUBSET cloud]
      /\ newest' \in [Syncs -> 0 .. MaxEvents]
  BY SyncJournalAssumptions DEF TypeOK, Retry, Drop
<1>2. attempt' \in [Syncs -> 0 .. MaxAttempts]
  <2>1. attempt[c] \in 0 .. MaxAttempts /\ MaxAttempts \in Nat
    BY SyncCoordinatorAssumptions DEF TypeOK
  <2>2. CASE attempt[c] < MaxAttempts
    <3>1. attempt' = [attempt EXCEPT ![c] = @ + 1] /\ attempt[c] + 1 \in 0 .. MaxAttempts
      BY <2>1, <2>2 DEF Retry
    <3> QED
      BY <3>1 DEF TypeOK
  <2>3. CASE ~(attempt[c] < MaxAttempts)
    BY <2>1, <2>3 DEF TypeOK, Retry
  <2> QED
    BY <2>2, <2>3
<1>3. pc' \in [Syncs -> {"idle", "list", "upload", "ack", "fetch", "apply"}]
  BY DEF TypeOK, Retry, Goto
<1> QED
  BY <1>1, <1>2, <1>3

(***************************************************************************)
(* Types.                                                                  *)
(***************************************************************************)
TypeInv == TypeOK /\ JournalInv

LEMMA InitTypeInv == Init => TypeInv
<1> SUFFICES ASSUME Init
             PROVE  TypeInv
  OBVIOUS
<1>1. journal = {} /\ processed = {}
  BY DEF Init, JournalInit
<1>2. IsFiniteSet(journal) /\ Now = 0
  BY <1>1, FS_EmptySet DEF Now
<1>3. data \in [Devices -> Tables]
  <2>1. PICK known \in {{}, Synced} : data = [d \in Devices |->
          [feeds |-> Feeds \cap known, groups |-> Groups \cap known,
           memberOf |-> [f \in Feeds |-> NULL], settings |-> [f \in Feeds |-> NULL],
           perGroup |-> [g \in Groups |-> NULL], read |-> [f \in Feeds |-> NULL],
           notes |-> [n \in Notes |-> NULL]]]
    BY DEF Init, JournalInit
  <2> QED
    BY <2>1 DEF Tables
<1>4. JournalInv
  BY <1>1, <1>2, <1>3, SyncJournalAssumptions DEF JournalInv, JournalTypeOK
<1>5. TypeOK
  BY <1>4, SyncJournalAssumptions, SyncCoordinatorAssumptions DEF Init, TypeOK, JournalInv
<1> QED
  BY <1>4, <1>5 DEF TypeInv

\* The journal is left alone by all that a syncNow does but replay and acknowledge.
LEMMA JournalFrame ==
    ASSUME JournalInv, UNCHANGED <<data, journal>>, processed' \subseteq journal
    PROVE  JournalInv'
  BY DEF JournalInv, JournalTypeOK, Now

LEMMA NextTypeInv == TypeInv /\ [Next]_vars => TypeInv'
<1> SUFFICES ASSUME TypeInv, [Next]_vars
             PROVE  TypeInv'
  OBVIOUS
<1> USE DEF TypeInv
<1>j. /\ JournalInv /\ JournalTypeOK
      /\ journal \subseteq Event /\ processed \subseteq journal
      /\ \A e \in journal : e.at \in 1 .. MaxEvents
  BY DEF JournalInv, JournalTypeOK, Event
<1>n. Now \in 0 .. MaxEvents /\ 0 \in 0 .. MaxEvents
  BY SyncJournalAssumptions DEF JournalInv
<1>1. ASSUME NEW c \in Syncs, SyncNow(c)
      PROVE  TypeInv'
  <2>1. JournalInv'
    BY <1>1, <1>j, JournalFrame DEF SyncNow, journalVars
  <2> QED
    BY <1>1, <2>1, SyncCoordinatorAssumptions
       DEF SyncNow, Goto, TypeOK, JournalInv, journalVars, historyVars
<1>2. ASSUME NEW c \in Syncs, List(c)
      PROVE  TypeInv'
  <2>1. JournalInv'
    BY <1>2, <1>j, JournalFrame DEF List, journalVars
  <2>2. ListPending(DeviceOf(c), BatchLimit) \subseteq journal
    BY DEF ListPending, Pending
  <2> QED
    BY <1>2, <2>1, <2>2 DEF List, Goto, TypeOK, JournalInv, journalVars, historyVars
<1>3. ASSUME NEW c \in Syncs, Upload(c)
      PROVE  TypeInv'
  <2>1. JournalInv'
    BY <1>3, <1>j, JournalFrame DEF Upload, journalVars
  <2>2. PICK saved \in SUBSET batch[c] : Store(saved)
    BY <1>3 DEF Upload
  <2>3. cloud' \subseteq journal' /\ late' \in [Devices -> SUBSET journal'] /\ cloud \subseteq cloud'
    BY <1>3, <2>2 DEF Upload, Store, TypeOK, journalVars
  <2> QED
    BY <1>3, <2>1, <2>3 DEF Upload, Goto, TypeOK, JournalInv, journalVars
<1>4. ASSUME NEW c \in Syncs, UploadFails(c)
      PROVE  TypeInv'
  <2>1. JournalInv'
    BY <1>4, <1>j, JournalFrame DEF UploadFails, journalVars
  <2>2. PICK saved \in SUBSET batch[c] : Store(saved)
    BY <1>4 DEF UploadFails
  <2>3. cloud' \subseteq journal' /\ late' \in [Devices -> SUBSET journal'] /\ cloud \subseteq cloud'
    BY <1>4, <2>2 DEF UploadFails, Store, TypeOK, journalVars
  <2>4. remote' \in [Syncs -> SUBSET cloud']
    BY <1>4, <2>3, RetryType DEF UploadFails
  <2> QED
    BY <1>4, <2>1, <2>3, <2>4, RetryType DEF UploadFails, TypeOK, JournalInv, journalVars
<1>5. ASSUME NEW c \in Syncs, Ack(c)
      PROVE  TypeInv'
  <2>1. processed' \subseteq journal
    BY <1>5, <1>j DEF Ack, Acknowledge, TypeOK
  <2>2. JournalInv'
    BY <1>5, <1>j, <2>1, JournalFrame DEF Ack
  <2> QED
    BY <1>5, <2>2 DEF Ack, Goto, TypeOK, JournalInv, historyVars
<1>6. ASSUME NEW c \in Syncs, Fetch(c)
      PROVE  TypeInv'
  <2> DEFINE events == FetchRemote(DeviceOf(c))
  <2>1. JournalInv'
    BY <1>6, <1>j, JournalFrame DEF Fetch, journalVars
  <2>2. events \subseteq cloud
    BY DEF FetchRemote
  <2>3. \A e \in events : e.at \in 1 .. MaxEvents
    BY <2>2, <1>j DEF TypeOK
  <2>4. (CHOOSE t \in 0 .. MaxEvents :
            /\ \A e \in events : e.at <= t
            /\ t = 0 \/ \E e \in events : e.at = t) \in 0 .. MaxEvents
    <3> HIDE DEF events
    <3> QED
      BY <2>3, NewestExists
  <2>5. newest' \in [Syncs -> 0 .. MaxEvents] /\ remote' \in [Syncs -> SUBSET cloud]
    BY <1>6, <2>2, <2>4 DEF Fetch, TypeOK
  <2> QED
    BY <1>6, <2>1, <2>5 DEF Fetch, Goto, TypeOK, JournalInv, journalVars, historyVars
<1>7. ASSUME NEW c \in Syncs, FetchFails(c)
      PROVE  TypeInv'
  <2>1. JournalInv'
    BY <1>7, <1>j, JournalFrame DEF FetchFails, journalVars
  <2> QED
    BY <1>7, <2>1, RetryType DEF FetchFails, TypeOK, JournalInv, journalVars, historyVars
<1>8. ASSUME NEW c \in Syncs, ApplyNext(c)
      PROVE  TypeInv'
  <2> DEFINE d == DeviceOf(c)
  <2>1. d \in Devices
    BY DeviceType
  <2>2. PICK e \in Earliest(remote[c]) :
           /\ Decodable(e)
           /\ data' = [data EXCEPT ![d] = Apply(@, e)]
           /\ applied' = [applied EXCEPT ![d] = @ \cup {e}]
           /\ late' = [late EXCEPT ![d] = @ \ {e}]
           /\ remote' = [remote EXCEPT ![c] = @ \ {e}]
    BY <1>8 DEF ApplyNext
  <2>3. e \in cloud /\ e \in journal /\ e \in Event /\ SoundEvent(e)
    BY <1>j DEF Earliest, TypeOK, JournalInv
  <2>4. Apply(data[d], e) \in Tables
    BY <2>1, <2>2, <2>3, <1>j, ApplyType DEF JournalTypeOK
  <2>5. JournalInv'
    BY <1>8, <1>j, <2>1, <2>2, <2>4 DEF ApplyNext, JournalInv, JournalTypeOK, Now
  <2>6. /\ applied' \in [Devices -> SUBSET journal]
        /\ late' \in [Devices -> SUBSET journal]
        /\ remote' \in [Syncs -> SUBSET cloud]
    BY <2>1, <2>2, <2>3 DEF TypeOK
  <2> QED
    BY <1>8, <2>5, <2>6 DEF ApplyNext, TypeOK, JournalInv
<1>9. ASSUME NEW c \in Syncs, ApplyFails(c)
      PROVE  TypeInv'
  <2>1. JournalInv'
    BY <1>9, <1>j, JournalFrame DEF ApplyFails, journalVars
  <2> QED
    BY <1>9, <2>1, RetryType DEF ApplyFails, TypeOK, JournalInv, journalVars, historyVars
<1>10. ASSUME NEW c \in Syncs, Finish(c)
       PROVE  TypeInv'
  <2> DEFINE mark == IF newest[c] = 0 THEN Now ELSE newest[c]
  <2>1. JournalInv'
    BY <1>10, <1>j, JournalFrame DEF Finish, journalVars
  <2>2. mark \in 0 .. MaxEvents
    BY <1>n DEF TypeOK
  <2>3. Truncated(mark) \in 0 .. MaxEvents
    <3> HIDE DEF mark
    <3> QED
      BY <2>2, TruncatedType, SyncJournalAssumptions
  <2>4. /\ lastSyncAt' \in [Devices -> 0 .. MaxEvents]
        /\ savedSyncAt' \in [Devices -> 0 .. MaxEvents]
    BY <1>10, <2>2, <2>3, DeviceType DEF Finish, TypeOK
  <2> QED
    BY <1>10, <1>n, <2>1, <2>4, SyncCoordinatorAssumptions
       DEF Finish, Drop, Goto, TypeOK, JournalInv, journalVars, historyVars
<1>11. ASSUME NEW d \in Devices, Restart(d)
       PROVE  TypeInv'
  <2>1. JournalInv'
    BY <1>11, <1>j, JournalFrame DEF Restart, journalVars
  <2>2. crashes' \in 0 .. MaxCrashes
    BY <1>11, SyncCoordinatorAssumptions DEF Restart, TypeOK
  <2> QED
    BY <1>11, <1>n, <2>1, <2>2, SyncCoordinatorAssumptions
       DEF Restart, TypeOK, JournalInv, journalVars, historyVars
<1>12. ASSUME NEW d \in Devices, LocalStep(d)
       PROVE  TypeInv'
  <2>1. Journals
    BY <1>12, LocalWriteJournals DEF LocalStep
  <2> QED
    BY <1>12, <2>1 DEF LocalStep, Journals, TypeOK, JournalInv, callVars, historyVars
<1>13. CASE UNCHANGED vars
  <2>1. JournalInv'
    BY <1>13, <1>j, JournalFrame DEF vars, journalVars
  <2> QED
    BY <1>13, <2>1 DEF vars, TypeOK, JournalInv, journalVars, callVars, historyVars
<1> QED
  BY <1>1, <1>2, <1>3, <1>4, <1>5, <1>6, <1>7, <1>8, <1>9, <1>10, <1>11, <1>12, <1>13
     DEF Next, Progress, Answer, Failure

\* Every variable of the coordinator and the journals keeps its type: the tables hold
\* what tables hold whatever was replayed into them, a call makes no more attempts than
\* syncNow allows, what is fetched was uploaded, and what was uploaded is journaled.
THEOREM TypeCorrect == Spec => []TypeOK
<1>1. TypeInv => TypeOK
  BY DEF TypeInv
<1> QED
  BY <1>1, InitTypeInv, NextTypeInv, PTL DEF Spec

(***************************************************************************)
(* Uploads.                                                                *)
(***************************************************************************)
\* A call that is about to acknowledge its batch has uploaded all of it.
UploadInv ==
    /\ ProcessedIsUploaded
    /\ \A c \in Syncs : pc[c] = "ack" => batch[c] \subseteq cloud

LEMMA NextUploadInv ==
    ASSUME ~RecordsMayFail
    PROVE  TypeInv /\ UploadInv /\ [Next]_vars => UploadInv'
<1> SUFFICES ASSUME TypeInv, UploadInv, [Next]_vars
             PROVE  UploadInv'
  OBVIOUS
<1> USE DEF UploadInv, ProcessedIsUploaded
<1>1. \* what leaves the batches, the cloud and the acknowledgements alone
      ASSUME UNCHANGED <<processed, cloud>>,
             \A c \in Syncs : pc'[c] = "ack" => pc[c] = "ack" /\ batch'[c] = batch[c]
      PROVE  UploadInv'
  BY <1>1
<1>2. \* a call of its own starts over, whatever was stored
      ASSUME NEW c \in Syncs, Retry(c), processed' = processed, cloud \subseteq cloud'
      PROVE  UploadInv'
  <2>1. \A k \in Syncs : pc'[k] = "ack" => pc[k] = "ack" /\ batch'[k] = batch[k]
    BY <1>2 DEF Retry, Drop, Goto, TypeInv, TypeOK
  <2> QED
    BY <1>2, <2>1
<1>3. ASSUME NEW c \in Syncs, SyncNow(c)
      PROVE  UploadInv'
  BY <1>3, <1>1 DEF SyncNow, Goto, TypeInv, TypeOK, journalVars
<1>4. ASSUME NEW c \in Syncs, List(c)
      PROVE  UploadInv'
  BY <1>4, <1>1 DEF List, Goto, TypeInv, TypeOK, journalVars
<1>5. ASSUME NEW c \in Syncs, Upload(c)
      PROVE  UploadInv'
  <2>1. cloud' = cloud \cup batch[c]
    BY <1>5 DEF Upload, Store
  <2> QED
    BY <1>5, <2>1 DEF Upload, Goto, TypeInv, TypeOK, journalVars
<1>6. ASSUME NEW c \in Syncs, UploadFails(c)
      PROVE  UploadInv'
  BY <1>6, <1>2 DEF UploadFails, Store, journalVars
<1>7. ASSUME NEW c \in Syncs, Ack(c)
      PROVE  UploadInv'
  <2>1. processed' \subseteq cloud /\ cloud' = cloud
    BY <1>7 DEF Ack, Acknowledge
  <2>2. \A k \in Syncs : pc'[k] = "ack" => pc[k] = "ack" /\ batch'[k] = batch[k]
    BY <1>7 DEF Ack, Goto, TypeInv, TypeOK
  <2> QED
    BY <2>1, <2>2
<1>8. ASSUME NEW c \in Syncs, Fetch(c)
      PROVE  UploadInv'
  BY <1>8, <1>1 DEF Fetch, Goto, TypeInv, TypeOK, journalVars
<1>9. ASSUME NEW c \in Syncs, FetchFails(c) \/ ApplyFails(c)
      PROVE  UploadInv'
  BY <1>9, <1>2 DEF FetchFails, ApplyFails, journalVars
<1>10. ASSUME NEW c \in Syncs, ApplyNext(c)
       PROVE  UploadInv'
  BY <1>10, <1>1 DEF ApplyNext
<1>11. ASSUME NEW c \in Syncs, Finish(c)
       PROVE  UploadInv'
  BY <1>11, <1>1 DEF Finish, Drop, Goto, TypeInv, TypeOK, journalVars
<1>12. ASSUME NEW d \in Devices, Restart(d)
       PROVE  UploadInv'
  BY <1>12, <1>1 DEF Restart, journalVars
<1>13. ASSUME NEW d \in Devices, LocalStep(d)
       PROVE  UploadInv'
  <2>1. processed' = processed
    BY <1>13, LocalWriteJournals DEF LocalStep, Journals, TypeInv
  <2> QED
    BY <1>13, <2>1, <1>1 DEF LocalStep, callVars
<1>14. CASE UNCHANGED vars
  BY <1>14, <1>1 DEF vars, journalVars, callVars
<1> QED
  BY <1>3, <1>4, <1>5, <1>6, <1>7, <1>8, <1>9, <1>10, <1>11, <1>12, <1>13, <1>14
     DEF Next, Progress, Answer, Failure

\* While CloudKit takes whole batches or none, an event is marked processed only when the
\* cloud has it: acknowledge_sync_events gets the batch of a call that has seen its
\* upload return, and no failed upload, overlapping syncNow or restart brings another.
THEOREM AcknowledgedIsUploaded ==
    ASSUME ~RecordsMayFail
    PROVE  Spec => []ProcessedIsUploaded
<1>1. Init => UploadInv
  BY DEF Init, JournalInit, UploadInv, ProcessedIsUploaded
<1>2. UploadInv => ProcessedIsUploaded
  BY DEF UploadInv
<1> QED
  BY <1>1, <1>2, InitTypeInv, NextTypeInv, NextUploadInv, PTL DEF Spec

(***************************************************************************)
(* The watermark.                                                          *)
(***************************************************************************)
Covered(d) == applied[d] \cup late[d]

\* The watermark that a restart falls back to is not ahead of the one in memory, and a
\* call that has fetched holds, with what its device has applied, all the cloud has of
\* other devices, but for what arrived too late.
WatermarkInv ==
    /\ OnlyLateEventsAreMissed
    /\ \A d \in Devices : savedSyncAt[d] <= lastSyncAt[d]
    /\ \A c \in Syncs : pc[c] = "apply" =>
          \A e \in cloud : e.origin # DeviceOf(c) => e \in Covered(DeviceOf(c)) \cup remote[c]

\* The cloud takes events: whoever has passed them, or is about to, counts them as late.
LEMMA StoreKeepsWatermark ==
    ASSUME TypeInv, WatermarkInv, NEW events \in SUBSET journal, Store(events),
           UNCHANGED <<lastSyncAt, savedSyncAt, applied>>,
           \A c \in Syncs : pc'[c] = "apply" => pc[c] = "apply" /\ remote'[c] = remote[c]
    PROVE  WatermarkInv'
<1>1. cloud' = cloud \cup events
  BY DEF Store
<1>2. \A d \in Devices : late'[d] = late[d] \cup
          {e \in events \ (cloud \cup applied[d]) :
              \/ e.at <= lastSyncAt[d]
              \/ \E c \in Syncs : DeviceOf(c) = d /\ pc[c] = "apply"}
  BY DEF Store
<1>3. \A d \in Devices : Covered(d) \subseteq Covered(d)'
  BY <1>2 DEF Covered
<1>4. ASSUME NEW d \in Devices, NEW e \in cloud', e.origin # d, e.at <= lastSyncAt'[d]
      PROVE  e \in Covered(d)'
  <2>1. CASE e \in cloud
    BY <1>3, <1>4, <2>1 DEF WatermarkInv, OnlyLateEventsAreMissed, Covered
  <2>2. CASE e \notin cloud
    BY <1>1, <1>2, <1>4, <2>2 DEF Covered
  <2> QED
    BY <2>1, <2>2
<1>5. ASSUME NEW c \in Syncs, pc'[c] = "apply", NEW e \in cloud', e.origin # DeviceOf(c)
      PROVE  e \in Covered(DeviceOf(c))' \cup remote'[c]
  <2>1. CASE e \in cloud
    BY <1>3, <1>5, <2>1, DeviceType DEF WatermarkInv
  <2>2. CASE e \notin cloud
    BY <1>1, <1>2, <1>5, <2>2, DeviceType DEF Covered
  <2> QED
    BY <2>1, <2>2
<1> QED
  BY <1>4, <1>5 DEF WatermarkInv, OnlyLateEventsAreMissed, Covered

LEMMA NextWatermarkInv == TypeInv /\ WatermarkInv /\ [Next]_vars => WatermarkInv'
<1> SUFFICES ASSUME TypeInv, WatermarkInv, [Next]_vars
             PROVE  WatermarkInv'
  OBVIOUS
<1>t. TypeOK
  BY DEF TypeInv
<1>1. \* what moves no watermark, stores nothing and lets no call begin to apply
      ASSUME UNCHANGED <<cloud, lastSyncAt, savedSyncAt, applied, late>>,
             \A c \in Syncs : pc'[c] = "apply" => pc[c] = "apply" /\ remote'[c] = remote[c]
      PROVE  WatermarkInv'
  BY <1>1 DEF WatermarkInv, OnlyLateEventsAreMissed, Covered
<1>2. ASSUME NEW c \in Syncs, Retry(c)
      PROVE  \A k \in Syncs : pc'[k] = "apply" => pc[k] = "apply" /\ remote'[k] = remote[k]
  BY <1>2, <1>t DEF Retry, Drop, Goto, TypeOK
<1>3. ASSUME NEW c \in Syncs, SyncNow(c)
      PROVE  WatermarkInv'
  BY <1>1, <1>3, <1>t DEF SyncNow, Goto, TypeOK, historyVars
<1>4. ASSUME NEW c \in Syncs, List(c)
      PROVE  WatermarkInv'
  BY <1>1, <1>4, <1>t DEF List, Goto, TypeOK, historyVars
<1>5. ASSUME NEW c \in Syncs, Upload(c)
      PROVE  WatermarkInv'
  <2>1. PICK events \in SUBSET batch[c] : Store(events)
    BY <1>5 DEF Upload
  <2>2. events \in SUBSET journal
    BY <1>t DEF TypeOK
  <2>3. \A k \in Syncs : pc'[k] = "apply" => pc[k] = "apply" /\ remote'[k] = remote[k]
    BY <1>5, <1>t DEF Upload, Goto, TypeOK
  <2> QED
    BY <1>5, <2>1, <2>2, <2>3, StoreKeepsWatermark DEF Upload
<1>6. ASSUME NEW c \in Syncs, UploadFails(c)
      PROVE  WatermarkInv'
  <2>1. PICK events \in SUBSET batch[c] : Store(events)
    BY <1>6 DEF UploadFails
  <2>2. events \in SUBSET journal
    BY <1>t DEF TypeOK
  <2> QED
    BY <1>2, <1>6, <2>1, <2>2, StoreKeepsWatermark DEF UploadFails
<1>7. ASSUME NEW c \in Syncs, Ack(c)
      PROVE  WatermarkInv'
  BY <1>1, <1>7, <1>t DEF Ack, Goto, TypeOK, historyVars
<1>8. ASSUME NEW c \in Syncs, Fetch(c)
      PROVE  WatermarkInv'
  <2> DEFINE d == DeviceOf(c)
  <2>1. /\ d \in Devices
        /\ remote'[c] = FetchRemote(d)
        /\ \A k \in Syncs \ {c} : pc'[k] = pc[k] /\ remote'[k] = remote[k]
        /\ UNCHANGED <<cloud, lastSyncAt, savedSyncAt, applied, late>>
    BY <1>8, <1>t, DeviceType DEF Fetch, Goto, TypeOK, historyVars
  <2>2. ASSUME NEW e \in cloud, e.origin # d
        PROVE  e \in Covered(d) \cup FetchRemote(d)
    <3>1. e.at \in Int /\ lastSyncAt[d] \in Int
      BY <1>t, <2>1, SyncJournalAssumptions DEF TypeOK, JournalTypeOK, Event
    <3>2. CASE e.at > lastSyncAt[d]
      BY <2>2, <3>2 DEF FetchRemote
    <3>3. CASE e.at <= lastSyncAt[d]
      BY <2>1, <2>2, <3>3 DEF WatermarkInv, OnlyLateEventsAreMissed, Covered
    <3> QED
      BY <3>1, <3>2, <3>3
  <2> QED
    BY <2>1, <2>2 DEF WatermarkInv, OnlyLateEventsAreMissed, Covered
<1>9. ASSUME NEW c \in Syncs, FetchFails(c) \/ ApplyFails(c)
      PROVE  WatermarkInv'
  BY <1>1, <1>2, <1>9 DEF FetchFails, ApplyFails, historyVars
<1>10. ASSUME NEW c \in Syncs, ApplyNext(c)
       PROVE  WatermarkInv'
  <2> DEFINE d == DeviceOf(c)
  <2>1. PICK e \in Earliest(remote[c]) :
           /\ applied' = [applied EXCEPT ![d] = @ \cup {e}]
           /\ late' = [late EXCEPT ![d] = @ \ {e}]
           /\ remote' = [remote EXCEPT ![c] = @ \ {e}]
    BY <1>10 DEF ApplyNext
  <2>2. d \in Devices /\ UNCHANGED <<cloud, lastSyncAt, savedSyncAt, pc>>
    BY <1>10, DeviceType DEF ApplyNext
  <2>3. \A x \in Devices : Covered(x) \subseteq Covered(x)'
    BY <1>t, <2>1, <2>2 DEF Covered, TypeOK
  <2>4. \A k \in Syncs : remote[k] \subseteq remote'[k] \cup Covered(DeviceOf(k))'
    BY <1>t, <2>1, <2>2 DEF Covered, TypeOK
  <2>5. \A k \in Syncs : DeviceOf(k) \in Devices
    BY DeviceType
  <2>6. OnlyLateEventsAreMissed'
    BY <2>2, <2>3 DEF WatermarkInv, OnlyLateEventsAreMissed, Covered
  <2>7. ASSUME NEW k \in Syncs, pc'[k] = "apply", NEW x \in cloud', x.origin # DeviceOf(k)
        PROVE  x \in Covered(DeviceOf(k))' \cup remote'[k]
    <3>1. x \in Covered(DeviceOf(k)) \cup remote[k]
      BY <2>2, <2>7 DEF WatermarkInv
    <3> QED
      BY <2>3, <2>4, <2>5, <3>1
  <2> QED
    BY <2>2, <2>6, <2>7 DEF WatermarkInv, Covered
<1>11. ASSUME NEW c \in Syncs, Finish(c)
       PROVE  WatermarkInv'
  <2> DEFINE d    == DeviceOf(c)
             mark == IF newest[c] = 0 THEN Now ELSE newest[c]
  <2>1. /\ d \in Devices
        /\ pc[c] = "apply" /\ remote[c] = {}
        /\ lastSyncAt' = [lastSyncAt EXCEPT ![d] = mark]
        /\ savedSyncAt' = [savedSyncAt EXCEPT ![d] = Truncated(mark)]
        /\ UNCHANGED <<cloud, applied, late>>
    BY <1>11, DeviceType DEF Finish, historyVars
  <2>2. \A e \in cloud : e.origin # d => e \in Covered(d)
    BY <2>1 DEF WatermarkInv
  <2>3. \A k \in Syncs : pc'[k] = "apply" => pc[k] = "apply" /\ remote'[k] = remote[k]
    BY <1>11, <1>t DEF Finish, Drop, Goto, TypeOK
  <2>4. mark \in 0 .. MaxEvents
    BY <1>t DEF TypeInv, JournalInv, TypeOK
  <2>5. Truncated(mark) <= mark
    <3> HIDE DEF mark
    <3> QED
      BY <2>4, TruncatedType, SyncJournalAssumptions
  <2> HIDE DEF mark
  <2>6. \A x \in Devices : savedSyncAt'[x] <= lastSyncAt'[x]
    BY <1>t, <2>1, <2>5 DEF WatermarkInv, TypeOK
  <2>7. OnlyLateEventsAreMissed'
    BY <1>t, <2>1, <2>2 DEF WatermarkInv, OnlyLateEventsAreMissed, Covered, TypeOK
  <2> QED
    BY <2>1, <2>3, <2>6, <2>7 DEF WatermarkInv, Covered
<1>12. ASSUME NEW d \in Devices, Restart(d)
       PROVE  WatermarkInv'
  <2>1. /\ UNCHANGED <<cloud, savedSyncAt, applied, late>>
        /\ \A x \in Devices : lastSyncAt'[x] = IF x = d THEN savedSyncAt[x] ELSE lastSyncAt[x]
    BY <1>12, <1>t DEF Restart, TypeOK, historyVars
  <2>2. \A k \in Syncs : pc'[k] = "apply" => pc[k] = "apply" /\ remote'[k] = remote[k]
    BY <1>12 DEF Restart
  <2>3. \A x \in Devices : savedSyncAt[x] \in Int /\ lastSyncAt[x] \in Int
    BY <1>t, SyncJournalAssumptions DEF TypeOK
  <2>4. \A e \in cloud : e.at \in Int
    BY <1>t, SyncJournalAssumptions DEF TypeOK, JournalTypeOK, Event
  <2>5. OnlyLateEventsAreMissed'
    BY <2>1, <2>3, <2>4 DEF WatermarkInv, OnlyLateEventsAreMissed
  <2>6. \A x \in Devices : savedSyncAt'[x] <= lastSyncAt'[x]
    BY <2>1, <2>3 DEF WatermarkInv
  <2> QED
    BY <2>1, <2>2, <2>5, <2>6 DEF WatermarkInv, Covered
<1>13. ASSUME NEW d \in Devices, LocalStep(d)
       PROVE  WatermarkInv'
  BY <1>1, <1>13 DEF LocalStep, callVars, historyVars
<1>14. CASE UNCHANGED vars
  BY <1>1, <1>14 DEF vars, callVars, historyVars
<1> QED
  BY <1>3, <1>4, <1>5, <1>6, <1>7, <1>8, <1>9, <1>10, <1>11, <1>12, <1>13, <1>14
     DEF Next, Progress, Answer, Failure

\* No watermark passes an event of another device that was in the cloud in time, however
\* many syncNow overlap on a device, in whatever order they move its watermark, and
\* whatever a restart loses of it.
THEOREM WatermarkPassesOnlyLateEvents == Spec => []OnlyLateEventsAreMissed
<1>1. Init => WatermarkInv
  BY DEF Init, WatermarkInv, OnlyLateEventsAreMissed
<1>2. WatermarkInv => OnlyLateEventsAreMissed
  BY DEF WatermarkInv
<1> QED
  BY <1>1, <1>2, InitTypeInv, NextTypeInv, NextWatermarkInv, PTL DEF Spec

(***************************************************************************)
(* Convergence.  Tables are cells, which a write replaces, and the feeds   *)
(* and groups, which grow.  An event does to the tables of another device  *)
(* what the operation did that journaled it; what is left to show is in    *)
(* which order a device has applied them.                                  *)
(***************************************************************************)
\* The cells of the tables of which a new value takes the place of the old one, each named
\* by the entity and key of the events about it.
Cells ==
    ({"feed_membership", "feed_refresh_settings"} \X Feeds)
        \cup ({"group_refresh_settings"} \X Groups) \cup ({"entry"} \X Notes)

Cell(t, s) ==
    CASE s[1] = "feed_membership" -> t.memberOf[s[2]]
      [] s[1] = "feed_refresh_settings" -> t.settings[s[2]]
      [] s[1] = "group_refresh_settings" -> t.perGroup[s[2]]
      [] s[1] = "entry" -> t.notes[s[2]]

About(e, s) == e.entity = s[1] /\ e.key = s[2]

AddsFeed(e, f) ==
    e.entity \in {"feed", "feed_membership", "feed_refresh_settings"} /\ e.key = f

AddsGroup(e, g) ==
    \/ e.entity \in {"feed_group", "group_refresh_settings"} /\ e.key = g
    \/ e.entity = "feed_membership" /\ e.value = g

\* The tables after e are those before it with what it adds, and its value in its cell.
Effect(e, before, after) ==
    /\ \A f \in Feeds : f \in after.feeds <=> f \in before.feeds \/ AddsFeed(e, f)
    /\ \A g \in Groups : g \in after.groups <=> g \in before.groups \/ AddsGroup(e, g)
    /\ \A s \in Cells : Cell(after, s) = IF About(e, s) THEN e.value ELSE Cell(before, s)

NoTombstones == \A e \in journal : e.type # "deleted"

\* The last event about a cell.
Latest(m, s) ==
    /\ m \in journal /\ About(m, s)
    /\ \A e \in journal : About(e, s) => e.at <= m.at

\* The dates of the events tell them apart, so what was ever said of a cell has a last.
DatesInv ==
    /\ \A e, x \in journal : e.at = x.at => e = x
    /\ \A s \in Cells : (\A e \in journal : ~About(e, s)) \/ \E m \in journal : Latest(m, s)

\* What a device applies and fetches comes from others, through the cloud.
DeliveryInv ==
    /\ \A e \in journal : e.origin \in Writers
    /\ \A d \in Devices : \A e \in applied[d] : e \in cloud /\ e.origin # d /\ Decodable(e)
    /\ \A c \in Syncs : /\ \A e \in remote[c] : e.origin # DeviceOf(c)
                        /\ pc[c] # "apply" => remote[c] = {}

Seen(d) == applied[d] \cup {e \in journal : e.origin = d}

\* The feeds and groups of a device are those it started with, and what the events add that
\* it journaled or applied.
AddedInv(known) ==
    NoTombstones =>
        \A d \in Devices :
            /\ \A f \in Feeds : f \in data[d].feeds <=>
                    f \in known \/ \E e \in Seen(d) : AddsFeed(e, f)
            /\ \A g \in Groups : g \in data[d].groups <=>
                    g \in known \/ \E e \in Seen(d) : AddsGroup(e, g)

\* A call applies what it fetched in its order: what its device has applied beyond the
\* watermark, and the call not before it, comes before all that is left.
OrderInv ==
    \A c \in Syncs : pc[c] = "apply" =>
        LET d == DeviceOf(c)
        IN  \A e \in remote[c] :
                /\ e.at > lastSyncAt[d]
                /\ \A x \in applied[d] \ remote[c] : x.at > lastSyncAt[d] => x.at < e.at

Applying(d) == \E c \in Syncs : DeviceOf(c) = d /\ pc[c] = "apply"

ToApply(d) == UNION {remote[c] : c \in {k \in Syncs : DeviceOf(k) = d}}

Wrote(d, s) == \A e \in journal : About(e, s) => e.origin = d
DidNotWrite(d, s) == \A e \in journal : About(e, s) => e.origin # d

Holds(d, s) ==
    /\ (\A e \in journal : ~About(e, s)) => Cell(data[d], s) = NULL
    /\ \A m \in journal : Latest(m, s) => Cell(data[d], s) = m.value

\* The device is to apply m, again if it has done so: a call has it, or the next one fetches it.
Due(d, m) == m \in ToApply(d) \/ (m.at > lastSyncAt[d] /\ ~Applying(d))

Follows(d, s) ==
    /\ (\A e \in applied[d] : ~About(e, s)) => Cell(data[d], s) = NULL
    /\ \A m \in applied[d] : Latest(m, s) => Cell(data[d], s) = m.value \/ Due(d, m)

\* A device that wrote all that there is of a cell holds the last; one that wrote none of it
\* does, if it has applied it and is not to do so again.
CellInv(d, s) == (Wrote(d, s) => Holds(d, s)) /\ (DidNotWrite(d, s) => Follows(d, s))

CellsInv == NoTombstones => \A d \in Devices, s \in Cells : CellInv(d, s)

\* A device runs one syncNow at a time.
OneCall == \A b, c \in Calls : b = c

(***************************************************************************)
(* What a replay does.                                                     *)
(***************************************************************************)
\* An effect, table by table.
LEMMA EffectByTable ==
    ASSUME NEW e, NEW before, NEW after,
           \A f \in Feeds : f \in after.feeds <=> f \in before.feeds \/ AddsFeed(e, f),
           \A g \in Groups : g \in after.groups <=> g \in before.groups \/ AddsGroup(e, g),
           \A f \in Feeds : after.memberOf[f] =
              IF e.entity = "feed_membership" /\ e.key = f THEN e.value ELSE before.memberOf[f],
           \A f \in Feeds : after.settings[f] =
              IF e.entity = "feed_refresh_settings" /\ e.key = f THEN e.value ELSE before.settings[f],
           \A g \in Groups : after.perGroup[g] =
              IF e.entity = "group_refresh_settings" /\ e.key = g THEN e.value ELSE before.perGroup[g],
           \A n \in Notes : after.notes[n] =
              IF e.entity = "entry" /\ e.key = n THEN e.value ELSE before.notes[n]
    PROVE  Effect(e, before, after)
<1>1. ASSUME NEW s \in Cells
      PROVE  Cell(after, s) = IF About(e, s) THEN e.value ELSE Cell(before, s)
  <2>1. CASE s \in {"feed_membership"} \X Feeds
    <3>1. s[1] = "feed_membership" /\ s[2] \in Feeds
      BY <2>1
    <3>2. Cell(after, s) = after.memberOf[s[2]] /\ Cell(before, s) = before.memberOf[s[2]]
      BY <3>1 DEF Cell
    <3> QED
      BY <3>1, <3>2 DEF About
  <2>2. CASE s \in {"feed_refresh_settings"} \X Feeds
    <3>1. s[1] = "feed_refresh_settings" /\ s[2] \in Feeds
      BY <2>2
    <3>2. Cell(after, s) = after.settings[s[2]] /\ Cell(before, s) = before.settings[s[2]]
      BY <3>1 DEF Cell
    <3> QED
      BY <3>1, <3>2 DEF About
  <2>3. CASE s \in {"group_refresh_settings"} \X Groups
    <3>1. s[1] = "group_refresh_settings" /\ s[2] \in Groups
      BY <2>3
    <3>2. Cell(after, s) = after.perGroup[s[2]] /\ Cell(before, s) = before.perGroup[s[2]]
      BY <3>1 DEF Cell
    <3> QED
      BY <3>1, <3>2 DEF About
  <2>4. CASE s \in {"entry"} \X Notes
    <3>1. s[1] = "entry" /\ s[2] \in Notes
      BY <2>4
    <3>2. Cell(after, s) = after.notes[s[2]] /\ Cell(before, s) = before.notes[s[2]]
      BY <3>1 DEF Cell
    <3> QED
      BY <3>1, <3>2 DEF About
  <2>5. \/ s \in {"feed_membership"} \X Feeds
        \/ s \in {"feed_refresh_settings"} \X Feeds
        \/ s \in {"group_refresh_settings"} \X Groups
        \/ s \in {"entry"} \X Notes
    BY DEF Cells
  <2> QED
    BY <2>1, <2>2, <2>3, <2>4, <2>5
<1> QED
  BY <1>1 DEF Effect

\* apply_sync_events adds what the event is about and writes its value into the cell.
THEOREM ReplayHasEffect ==
    ASSUME NEW t \in Tables, NEW e \in Event, SoundEvent(e), Decodable(e)
    PROVE  Effect(e, t, Apply(t, e))
<1> DEFINE u == Apply(t, e)
<1>1. u = ApplyChange(t, e)
  BY DEF Apply, Decodable
<1>2. /\ t.memberOf \in [Feeds -> Groups \cup {NULL}] /\ t.settings \in [Feeds -> Values \cup {NULL}]
      /\ t.perGroup \in [Groups -> Values \cup {NULL}] /\ t.notes \in [Notes -> Values \cup {NULL}]
      /\ t = [feeds |-> t.feeds, groups |-> t.groups, memberOf |-> t.memberOf,
              settings |-> t.settings, perGroup |-> t.perGroup, read |-> t.read, notes |-> t.notes]
  BY DEF Tables
<1>3. CASE e.entity = "feed"
  <2>1. u = [t EXCEPT !.feeds = @ \cup {e.key}]
    BY <1>1, <1>3 DEF ApplyChange, UpsertFeed
  <2> QED
    BY <1>2, <1>3, <2>1, EffectByTable DEF AddsFeed, AddsGroup
<1>4. CASE e.entity = "feed_group"
  <2>1. u = [t EXCEPT !.groups = @ \cup {e.key}]
    BY <1>1, <1>4 DEF ApplyChange, CreateGroupRow
  <2> QED
    BY <1>2, <1>4, <2>1, EffectByTable DEF AddsFeed, AddsGroup
<1>5. CASE e.entity = "feed_membership"
  <2>1. e.key \in Feeds /\ e.value \in Groups \cup {NULL}
    BY <1>5 DEF SoundEvent
  <2> DEFINE known   == UpsertFeed(t, e.key)
             grouped == IF e.value = NULL THEN known ELSE CreateGroupRow(known, e.value)
  <2>2. u = [grouped EXCEPT !.memberOf[e.key] = e.value]
    BY <1>1, <1>5 DEF ApplyChange, SetMembership
  <2>3. /\ u.feeds = t.feeds \cup {e.key}
        /\ u.groups = IF e.value = NULL THEN t.groups ELSE t.groups \cup {e.value}
        /\ u.memberOf = [t.memberOf EXCEPT ![e.key] = e.value]
        /\ u.settings = t.settings /\ u.perGroup = t.perGroup /\ u.notes = t.notes
    <3>1. CASE e.value = NULL
      <4>1. grouped = [t EXCEPT !.feeds = @ \cup {e.key}]
        BY <3>1 DEF UpsertFeed
      <4> HIDE DEF grouped, u
      <4> QED
        BY <1>2, <2>2, <3>1, <4>1
    <3>2. CASE e.value # NULL
      <4>1. grouped = [t EXCEPT !.feeds = @ \cup {e.key}, !.groups = @ \cup {e.value}]
        BY <1>2, <3>2 DEF UpsertFeed, CreateGroupRow
      <4> HIDE DEF grouped, u
      <4> QED
        BY <1>2, <2>2, <3>2, <4>1
    <3> QED
      BY <3>1, <3>2
  <2> HIDE DEF u
  <2>4. NULL \notin Groups
    BY SyncJournalAssumptions
  <2>5. \A g \in Groups : g \in u.groups <=> g \in t.groups \/ AddsGroup(e, g)
    BY <1>5, <2>3, <2>4 DEF AddsGroup
  <2> QED
    BY <1>2, <1>5, <2>1, <2>3, <2>5, EffectByTable DEF AddsFeed, u
<1>6. CASE e.entity = "feed_refresh_settings"
  <2>1. e.key \in Feeds
    BY <1>6 DEF SoundEvent
  <2>2. u = [t EXCEPT !.feeds = @ \cup {e.key}, !.settings[e.key] = e.value]
    BY <1>1, <1>2, <1>6 DEF ApplyChange, UpsertFeed
  <2> QED
    BY <1>2, <1>6, <2>1, <2>2, EffectByTable DEF AddsFeed, AddsGroup
<1>7. CASE e.entity = "group_refresh_settings"
  <2>1. e.key \in Groups
    BY <1>7 DEF SoundEvent
  <2>2. u = [t EXCEPT !.groups = @ \cup {e.key}, !.perGroup[e.key] = e.value]
    BY <1>1, <1>2, <1>7 DEF ApplyChange, CreateGroupRow
  <2> QED
    BY <1>2, <1>7, <2>1, <2>2, EffectByTable DEF AddsFeed, AddsGroup
<1>8. CASE e.entity = "item_state"
  <2>1. u = t \/ u = [t EXCEPT !.read[e.key] = e.value]
    BY <1>1, <1>8 DEF ApplyChange
  <2>2. /\ u.feeds = t.feeds /\ u.groups = t.groups /\ u.memberOf = t.memberOf
        /\ u.settings = t.settings /\ u.perGroup = t.perGroup /\ u.notes = t.notes
    BY <1>2, <2>1
  <2> HIDE DEF u
  <2> QED
    BY <1>8, <2>2, EffectByTable DEF AddsFeed, AddsGroup, u
<1>9. CASE e.entity = "entry"
  <2>1. e.key \in Notes
    BY <1>9 DEF SoundEvent
  <2>2. u = [t EXCEPT !.notes[e.key] = e.value]
    BY <1>1, <1>9 DEF ApplyChange
  <2> QED
    BY <1>2, <1>9, <2>1, <2>2, EffectByTable DEF AddsFeed, AddsGroup
<1> QED
  BY <1>3, <1>4, <1>5, <1>6, <1>7, <1>8, <1>9 DEF Event

\* A user on d changed its tables, and e tells of it.
Tells(d, e) ==
    /\ d \in Writers
    /\ journal' = journal \cup {e}
    /\ e.origin = d /\ e.at = Now + 1
    /\ \A x \in Devices \ {d} : data'[x] = data[x]
    /\ e.type # "deleted" => Effect(e, data[d], data'[d])

LEMMA WriteTells ==
    ASSUME NEW d \in Devices, NEW tables, NEW entity, NEW type, NEW key, NEW value,
           data \in [Devices -> Tables], Write(d, tables, entity, type, key, value),
           \A at : type = "deleted" \/
              Effect([entity |-> entity, type |-> type, key |-> key, value |-> value,
                      at |-> at, origin |-> d], data[d], tables)
    PROVE  \E e : Tells(d, e)
<1> DEFINE e == [entity |-> entity, type |-> type, key |-> key, value |-> value,
                 at |-> Now + 1, origin |-> d]
<1>1. e.origin = d /\ e.at = Now + 1 /\ e.type = type
  OBVIOUS
<1>2. d \in Writers /\ journal' = journal \cup {e} /\ data' = [data EXCEPT ![d] = tables]
  BY DEF Write
<1>3. type = "deleted" \/ Effect(e, data[d], tables)
  OBVIOUS
<1> HIDE DEF e
<1>4. data'[d] = tables /\ \A x \in Devices \ {d} : data'[x] = data[x]
  BY <1>2
<1> QED
  BY <1>1, <1>2, <1>3, <1>4 DEF Tells

\* Every operation that is journaled, but for deletions, has the effect of its event.
THEOREM OperationTells ==
    ASSUME JournalInv, ~Unjournaled, NEW d \in Devices, LocalWrite(d)
    PROVE  \E e : Tells(d, e)
<1> DEFINE t == data[d]
<1>1. /\ data \in [Devices -> Tables]
      /\ t.feeds \in SUBSET Feeds /\ t.groups \in SUBSET Groups
      /\ t.memberOf \in [Feeds -> Groups \cup {NULL}] /\ t.settings \in [Feeds -> Values \cup {NULL}]
      /\ t.perGroup \in [Groups -> Values \cup {NULL}] /\ t.notes \in [Notes -> Values \cup {NULL}]
      /\ t = [feeds |-> t.feeds, groups |-> t.groups, memberOf |-> t.memberOf,
              settings |-> t.settings, perGroup |-> t.perGroup, read |-> t.read, notes |-> t.notes]
  BY DEF JournalInv, JournalTypeOK, Tables
<1>2. NULL \notin Groups
  BY SyncJournalAssumptions
<1> HIDE DEF t
<1>3. ASSUME NEW f \in Feeds, Subscribe(d, f)
      PROVE  \E e : Tells(d, e)
  <2> DEFINE type == IF f \in data[d].feeds THEN "updated" ELSE "created"
             u == [t EXCEPT !.feeds = @ \cup {f}]
  <2>1. Write(d, u, "feed", type, f, NULL)
    BY <1>3 DEF Subscribe, UpsertFeed, t
  <2>2. \A at : Effect([entity |-> "feed", type |-> type, key |-> f, value |-> NULL,
                        at |-> at, origin |-> d], t, u)
    <3> HIDE DEF type
    <3> QED
      BY <1>1, EffectByTable DEF AddsFeed, AddsGroup
  <2> QED
    <3> HIDE DEF type, u
    <3> QED
      BY <1>1, <2>1, <2>2, WriteTells DEF t
<1>4. ASSUME NEW f \in Feeds, Refresh(d, f)
      PROVE  \E e : Tells(d, e)
  <2> DEFINE u == [t EXCEPT !.read[f] = IF @ = NULL THEN FALSE ELSE @]
  <2>1. Write(d, u, "feed", "updated", f, NULL) /\ f \in t.feeds
    BY <1>4 DEF Refresh, t
  <2>2. \A at : Effect([entity |-> "feed", type |-> "updated", key |-> f, value |-> NULL,
                        at |-> at, origin |-> d], t, u)
    BY <1>1, <2>1, EffectByTable DEF AddsFeed, AddsGroup
  <2> QED
    <3> HIDE DEF u
    <3> QED
      BY <1>1, <2>1, <2>2, WriteTells DEF t
<1>5. ASSUME NEW f \in Feeds, DeleteFeed(d, f)
      PROVE  \E e : Tells(d, e)
  BY <1>1, <1>5, WriteTells DEF DeleteFeed
<1>6. ASSUME NEW f \in Feeds, DeleteFeedSettings(d, f)
      PROVE  \E e : Tells(d, e)
  BY <1>1, <1>6, WriteTells DEF DeleteFeedSettings
<1>7. ASSUME NEW f \in Feeds, NEW g \in Groups \cup {NULL}, SetFeedGroup(d, f, g)
      PROVE  \E e : Tells(d, e)
  <2> DEFINE u == [t EXCEPT !.memberOf[f] = g]
  <2>1. Write(d, u, "feed_membership", "updated", f, g) /\ f \in t.feeds /\ g \in t.groups \cup {NULL}
    BY <1>7 DEF SetFeedGroup, SetMembership, t
  <2>2. \A at : Effect([entity |-> "feed_membership", type |-> "updated", key |-> f, value |-> g,
                        at |-> at, origin |-> d], t, u)
    BY <1>1, <1>2, <2>1, EffectByTable DEF AddsFeed, AddsGroup
  <2> QED
    <3> HIDE DEF u
    <3> QED
      BY <1>1, <2>1, <2>2, WriteTells DEF t
<1>8. ASSUME NEW f \in Feeds, NEW v \in Values, UpsertFeedSettings(d, f, v)
      PROVE  \E e : Tells(d, e)
  <2> DEFINE u == [t EXCEPT !.settings[f] = v]
  <2>1. Write(d, u, "feed_refresh_settings", "updated", f, v) /\ f \in t.feeds
    BY <1>8 DEF UpsertFeedSettings, t
  <2>2. \A at : Effect([entity |-> "feed_refresh_settings", type |-> "updated", key |-> f,
                        value |-> v, at |-> at, origin |-> d], t, u)
    BY <1>1, <2>1, EffectByTable DEF AddsFeed, AddsGroup
  <2> QED
    <3> HIDE DEF u
    <3> QED
      BY <1>1, <2>1, <2>2, WriteTells DEF t
<1>9. ASSUME NEW f \in Feeds, NEW r \in BOOLEAN, PatchState(d, f, r)
      PROVE  \E e : Tells(d, e)
  <2> DEFINE u == [t EXCEPT !.read[f] = r]
  <2>1. Write(d, u, "item_state", "updated", f, r)
    BY <1>9 DEF PatchState, t
  <2>2. \A at : Effect([entity |-> "item_state", type |-> "updated", key |-> f, value |-> r,
                        at |-> at, origin |-> d], t, u)
    BY <1>1, EffectByTable DEF AddsFeed, AddsGroup
  <2> QED
    <3> HIDE DEF u
    <3> QED
      BY <1>1, <2>1, <2>2, WriteTells DEF t
<1>10. ASSUME NEW g \in Groups, CreateGroup(d, g)
       PROVE  \E e : Tells(d, e)
  <2> DEFINE u == [t EXCEPT !.groups = @ \cup {g}]
  <2>1. Write(d, u, "feed_group", "created", g, NULL)
    BY <1>10 DEF CreateGroup, CreateGroupRow, t
  <2>2. \A at : Effect([entity |-> "feed_group", type |-> "created", key |-> g, value |-> NULL,
                        at |-> at, origin |-> d], t, u)
    BY <1>1, EffectByTable DEF AddsFeed, AddsGroup
  <2> QED
    <3> HIDE DEF u
    <3> QED
      BY <1>1, <2>1, <2>2, WriteTells DEF t
<1>11. ASSUME NEW g \in Groups, DeleteGroupSettings(d, g)
       PROVE  \E e : Tells(d, e)
  BY <1>1, <1>11, WriteTells DEF DeleteGroupSettings
<1>12. ASSUME NEW n \in Notes, NEW v \in Values, UpsertNote(d, n, v)
       PROVE  \E e : Tells(d, e)
  <2> DEFINE type == IF data[d].notes[n] = NULL THEN "created" ELSE "updated"
             u == [t EXCEPT !.notes[n] = v]
  <2>1. Write(d, u, "entry", type, n, v)
    BY <1>12 DEF UpsertNote, t
  <2>2. \A at : Effect([entity |-> "entry", type |-> type, key |-> n, value |-> v,
                        at |-> at, origin |-> d], t, u)
    <3> HIDE DEF type
    <3> QED
      BY <1>1, EffectByTable DEF AddsFeed, AddsGroup
  <2> QED
    <3> HIDE DEF type, u
    <3> QED
      BY <1>1, <2>1, <2>2, WriteTells DEF t
\* Without these there is nothing that leaves no event.
<1>13. /\ \A g \in Groups : ~DeleteGroup(d, g)
       /\ \A g \in Groups, v \in Values : ~UpsertGroupSettings(d, g, v)
       /\ \A n \in Notes : ~DeleteNote(d, n)
  BY DEF DeleteGroup, UpsertGroupSettings, DeleteNote, WriteUnjournaled
<1> QED
  BY <1>3, <1>4, <1>5, <1>6, <1>7, <1>8, <1>9, <1>10, <1>11, <1>12, <1>13 DEF LocalWrite

(***************************************************************************)
(* Steps, as far as what is replicated can tell them apart.                *)
(***************************************************************************)
\* Nothing is written, fetched or applied; a call may give up, and a device may lose its
\* watermark with its calls.
Quiet ==
    /\ UNCHANGED <<data, journal, applied>> /\ cloud \subseteq cloud'
    /\ \A d \in Devices : lastSyncAt'[d] <= lastSyncAt[d]
    /\ \A c \in Syncs :
          \/ /\ pc'[c] = "apply" /\ pc[c] = "apply" /\ remote'[c] = remote[c]
             /\ lastSyncAt'[DeviceOf(c)] = lastSyncAt[DeviceOf(c)]
          \/ pc'[c] # "apply" /\ remote'[c] = {}

Change(d, e) ==
    /\ Tells(d, e)
    /\ UNCHANGED <<cloud, lastSyncAt, pc, remote, applied>>

\* What a call brings to the cloud, or its end, is quiet.
LEMMA CallIsQuiet ==
    ASSUME TypeInv, DeliveryInv, NEW c \in Syncs,
           data' = data, journal' = journal, applied' = applied, lastSyncAt' = lastSyncAt,
           cloud \subseteq cloud',
           \A k \in Syncs \ {c} : pc'[k] = pc[k] /\ remote'[k] = remote[k],
           pc'[c] # "apply", remote'[c] = {} \/ (pc[c] # "apply" /\ remote'[c] = remote[c])
    PROVE  Quiet
<1>1. \A k \in Syncs : pc[k] # "apply" => remote[k] = {}
  BY DEF DeliveryInv
<1>2. \A d \in Devices : lastSyncAt'[d] <= lastSyncAt[d]
  BY SyncJournalAssumptions DEF TypeInv, TypeOK
<1> QED
  BY <1>1, <1>2 DEF Quiet

LEMMA RetryCall ==
    ASSUME TypeInv, NEW c \in Syncs, Retry(c)
    PROVE  /\ \A k \in Syncs \ {c} : pc'[k] = pc[k] /\ remote'[k] = remote[k]
           /\ pc'[c] # "apply" /\ remote'[c] = {}
  BY DEF TypeInv, TypeOK, Retry, Drop, Goto

LEMMA StepKinds ==
    ASSUME TypeInv, WatermarkInv, DeliveryInv, ~Unjournaled, [Next]_vars
    PROVE  \/ Quiet
           \/ \E d \in Devices : \E e : Change(d, e)
           \/ \E c \in Syncs : Fetch(c) \/ ApplyNext(c) \/ Finish(c)
<1>1. TypeOK /\ JournalInv
  BY DEF TypeInv
<1>2. ASSUME NEW c \in Syncs, SyncNow(c) \/ List(c) \/ Ack(c)
      PROVE  Quiet
  BY <1>1, <1>2, CallIsQuiet DEF SyncNow, List, Ack, Goto, TypeOK, journalVars, historyVars
<1>3. ASSUME NEW c \in Syncs, Upload(c)
      PROVE  Quiet
  <2>1. cloud \subseteq cloud'
    BY <1>3 DEF Upload, Store
  <2> QED
    BY <1>1, <1>3, <2>1, CallIsQuiet DEF Upload, Goto, TypeOK, journalVars
<1>4. ASSUME NEW c \in Syncs, UploadFails(c)
      PROVE  Quiet
  <2>1. cloud \subseteq cloud'
    BY <1>4 DEF UploadFails, Store
  <2>2. Retry(c) /\ UNCHANGED <<data, journal, applied, lastSyncAt>>
    BY <1>4 DEF UploadFails, journalVars
  <2> QED
    BY <2>1, <2>2, RetryCall, CallIsQuiet
<1>5. ASSUME NEW c \in Syncs, FetchFails(c) \/ ApplyFails(c)
      PROVE  Quiet
  <2>1. Retry(c) /\ UNCHANGED <<data, journal, applied, lastSyncAt, cloud>>
    BY <1>5 DEF FetchFails, ApplyFails, journalVars, historyVars
  <2> QED
    BY <2>1, RetryCall, CallIsQuiet
<1>6. ASSUME NEW d \in Devices, Restart(d)
      PROVE  Quiet
  <2>1. \A x \in Devices : lastSyncAt[x] \in Int /\ savedSyncAt[x] <= lastSyncAt[x]
    BY <1>1, SyncJournalAssumptions DEF TypeOK, WatermarkInv
  <2>2. \A x \in Devices : lastSyncAt'[x] = IF x = d THEN savedSyncAt[x] ELSE lastSyncAt[x]
    BY <1>1, <1>6 DEF Restart, TypeOK
  <2>3. UNCHANGED <<data, journal, applied, cloud>>
    BY <1>6 DEF Restart, journalVars, historyVars
  <2>4. ASSUME NEW c \in Syncs
        PROVE  \/ /\ pc'[c] = "apply" /\ pc[c] = "apply" /\ remote'[c] = remote[c]
                  /\ lastSyncAt'[DeviceOf(c)] = lastSyncAt[DeviceOf(c)]
               \/ pc'[c] # "apply" /\ remote'[c] = {}
    <3>1. DeviceOf(c) \in Devices /\ (pc[c] # "apply" => remote[c] = {})
      BY DeviceType DEF DeliveryInv
    <3>2. /\ pc'[c] = IF DeviceOf(c) = d THEN "idle" ELSE pc[c]
          /\ remote'[c] = IF DeviceOf(c) = d THEN {} ELSE remote[c]
      BY <1>6 DEF Restart
    <3> QED
      BY <2>2, <3>1, <3>2
  <2>5. \A x \in Devices : lastSyncAt'[x] <= lastSyncAt[x]
    BY <2>1, <2>2
  <2> QED
    BY <2>3, <2>4, <2>5 DEF Quiet
<1>7. ASSUME NEW d \in Devices, LocalStep(d)
      PROVE  \E e : Change(d, e)
  <2>1. LocalWrite(d) /\ UNCHANGED <<cloud, lastSyncAt, pc, remote, applied>>
    BY <1>7 DEF LocalStep, callVars, historyVars
  <2>2. PICK e : Tells(d, e)
    BY <1>1, <2>1, OperationTells
  <2> QED
    BY <2>1, <2>2 DEF Change
<1>8. CASE UNCHANGED vars
  <2>1. UNCHANGED <<data, journal, applied, cloud, lastSyncAt, pc, remote>>
    BY <1>8 DEF vars, journalVars, callVars, historyVars
  <2>2. \A d \in Devices : lastSyncAt'[d] <= lastSyncAt[d]
    BY <1>1, <2>1, SyncJournalAssumptions DEF TypeOK
  <2> QED
    BY <2>1, <2>2 DEF Quiet, DeliveryInv
<1> QED
  BY <1>2, <1>3, <1>4, <1>5, <1>6, <1>7, <1>8 DEF Next, Progress, Answer, Failure

\* What Fetch, ApplyNext and Finish do, but for what nothing here depends on.
LEMMA FetchDoes ==
    ASSUME TypeInv, NEW c \in Syncs, Fetch(c)
    PROVE  /\ UNCHANGED <<data, journal, cloud, lastSyncAt, applied>>
           /\ pc[c] = "fetch" /\ pc'[c] = "apply"
           /\ remote'[c] = FetchRemote(DeviceOf(c))
           /\ \A k \in Syncs \ {c} : pc'[k] = pc[k] /\ remote'[k] = remote[k]
  BY DEF TypeInv, TypeOK, Fetch, Goto, journalVars, historyVars

LEMMA ApplyDoes ==
    ASSUME TypeInv, NEW c \in Syncs, ApplyNext(c)
    PROVE  \E e \in remote[c] :
              LET d == DeviceOf(c)
              IN  /\ \A x \in remote[c] : e.at <= x.at
                  /\ e \in cloud /\ Decodable(e)
                  /\ d \in Devices /\ pc[c] = "apply"
                  /\ Effect(e, data[d], data'[d])
                  /\ \A x \in Devices \ {d} : data'[x] = data[x] /\ applied'[x] = applied[x]
                  /\ applied'[d] = applied[d] \cup {e}
                  /\ remote'[c] = remote[c] \ {e}
                  /\ \A k \in Syncs \ {c} : remote'[k] = remote[k]
                  /\ UNCHANGED <<journal, cloud, lastSyncAt, pc>>
<1> DEFINE d == DeviceOf(c)
<1>1. d \in Devices
  BY DeviceType
<1>2. PICK e \in Earliest(remote[c]) :
         /\ Decodable(e)
         /\ data' = [data EXCEPT ![d] = Apply(@, e)]
         /\ applied' = [applied EXCEPT ![d] = @ \cup {e}]
         /\ remote' = [remote EXCEPT ![c] = @ \ {e}]
  BY DEF ApplyNext
<1>3. e \in remote[c] /\ \A x \in remote[c] : e.at <= x.at
  BY DEF Earliest
<1>4. e \in cloud /\ e \in Event /\ SoundEvent(e) /\ data[d] \in Tables
  BY <1>1, <1>3 DEF TypeInv, TypeOK, JournalInv, JournalTypeOK
<1>5. Effect(e, data[d], Apply(data[d], e))
  BY <1>2, <1>4, ReplayHasEffect
<1>6. /\ data'[d] = Apply(data[d], e) /\ applied'[d] = applied[d] \cup {e}
      /\ \A x \in Devices \ {d} : data'[x] = data[x] /\ applied'[x] = applied[x]
      /\ remote'[c] = remote[c] \ {e}
      /\ \A k \in Syncs \ {c} : remote'[k] = remote[k]
  BY <1>1, <1>2 DEF TypeInv, TypeOK, JournalInv, JournalTypeOK
<1>7. pc[c] = "apply" /\ UNCHANGED <<journal, cloud, lastSyncAt, pc>>
  BY DEF ApplyNext
<1> QED
  BY <1>1, <1>2, <1>3, <1>4, <1>5, <1>6, <1>7

LEMMA FinishDoes ==
    ASSUME TypeInv, NEW c \in Syncs, Finish(c)
    PROVE  /\ UNCHANGED <<data, journal, cloud, applied>>
           /\ pc[c] = "apply" /\ remote[c] = {}
           /\ pc'[c] # "apply" /\ remote'[c] = {}
           /\ \A k \in Syncs \ {c} : pc'[k] = pc[k] /\ remote'[k] = remote[k]
           /\ \A x \in Devices \ {DeviceOf(c)} : lastSyncAt'[x] = lastSyncAt[x]
  BY DEF TypeInv, TypeOK, Finish, Drop, Goto, journalVars, historyVars

(***************************************************************************)
(* What was last said of a cell, and where what is replayed comes from.    *)
(***************************************************************************)
LEMMA TellsLast ==
    ASSUME TypeInv, NEW d, NEW e, Tells(d, e)
    PROVE  /\ e \notin journal /\ e \in journal' /\ e.at \in Int
           /\ \A x \in journal : x.at \in Int /\ x.at < e.at
<1>1. Now \in Int /\ e.at = Now + 1 /\ journal' = journal \cup {e}
  BY SyncJournalAssumptions DEF TypeInv, JournalInv, Tells
<1>2. \A x \in journal : x.at \in Int /\ x.at <= Now
  BY SyncJournalAssumptions DEF TypeInv, JournalInv, JournalTypeOK, Event
<1> QED
  BY <1>1, <1>2

\* What is new is the last of its cell, and that of another cell stays.
LEMMA TellsLatest ==
    ASSUME TypeInv, NEW d, NEW e, Tells(d, e), NEW s
    PROVE  /\ About(e, s) => \A m : Latest(m, s)' <=> m = e
           /\ ~About(e, s) => \A m : Latest(m, s)' <=> Latest(m, s)
<1>1. /\ e \notin journal /\ journal' = journal \cup {e} /\ e.at \in Int
      /\ \A x \in journal : x.at \in Int /\ x.at < e.at
  BY TellsLast DEF Tells
<1>2. \A m : Latest(m, s)' <=> /\ m \in journal' /\ About(m, s)
                                /\ \A x \in journal' : About(x, s) => x.at <= m.at
  BY DEF Latest
<1>3. CASE About(e, s)
  <2>1. \A m : Latest(m, s)' => m = e
    BY <1>1, <1>2, <1>3
  <2>2. Latest(e, s)'
    BY <1>1, <1>2, <1>3
  <2> QED
    BY <1>3, <2>1, <2>2
<1>4. CASE ~About(e, s)
  BY <1>1, <1>2, <1>4 DEF Latest
<1> QED
  BY <1>3, <1>4

LEMMA LatestFrame ==
    ASSUME journal' = journal, NEW s
    PROVE  \A m : Latest(m, s)' <=> Latest(m, s)
  BY DEF Latest

LEMMA KeepsDates ==
    ASSUME TypeInv, DatesInv, journal' = journal \/ \E d, e : Tells(d, e)
    PROVE  DatesInv'
<1>1. CASE journal' = journal
  <2>1. \A s, m : Latest(m, s)' <=> Latest(m, s)
    BY <1>1, LatestFrame
  <2> QED
    BY <1>1, <2>1 DEF DatesInv
<1>2. CASE \E d, e : Tells(d, e)
  <2>1. PICK d, e : Tells(d, e)
    BY <1>2
  <2>2. /\ journal' = journal \cup {e} /\ e.at \in Int
        /\ \A x \in journal : x.at \in Int /\ x.at < e.at
    BY <2>1, TellsLast DEF Tells
  <2>3. \A x, y \in journal' : x.at = y.at => x = y
    BY <2>2 DEF DatesInv
  <2>4. ASSUME NEW s \in Cells
        PROVE  (\A x \in journal' : ~About(x, s)) \/ \E m \in journal' : Latest(m, s)'
    <3>1. CASE About(e, s)
      <4>1. Latest(e, s)'
        BY <2>1, <3>1, TellsLatest
      <4> QED
        BY <2>2, <4>1
    <3>2. CASE ~About(e, s)
      <4>1. \A m : Latest(m, s)' <=> Latest(m, s)
        BY <2>1, <3>2, TellsLatest
      <4> QED
        BY <2>2, <3>2, <4>1 DEF DatesInv
    <3> QED
      BY <3>1, <3>2
  <2> QED
    BY <2>3, <2>4 DEF DatesInv
<1> QED
  BY <1>1, <1>2

LEMMA NextDelivery ==
    ASSUME TypeInv, WatermarkInv, DatesInv, DeliveryInv, ~Unjournaled, [Next]_vars
    PROVE  DatesInv' /\ DeliveryInv'
<1>1. CASE Quiet
  <2>1. \A c \in Syncs : remote'[c] \subseteq remote[c] /\ (pc'[c] # "apply" => remote'[c] = {})
    BY <1>1 DEF Quiet
  <2>2. UNCHANGED <<journal, applied>> /\ cloud \subseteq cloud'
    BY <1>1 DEF Quiet
  <2>3. DeliveryInv'
    BY <2>1, <2>2 DEF DeliveryInv, Decodable
  <2> QED
    BY <2>2, <2>3, KeepsDates
<1>2. ASSUME NEW d \in Devices, NEW e, Change(d, e)
      PROVE  DatesInv' /\ DeliveryInv'
  <2>1. /\ UNCHANGED <<cloud, lastSyncAt, pc, remote, applied>> /\ Tells(d, e)
        /\ journal' = journal \cup {e} /\ e.origin = d /\ d \in Writers
    BY <1>2 DEF Change, Tells
  <2>2. DeliveryInv'
    BY <2>1 DEF DeliveryInv, Decodable
  <2> QED
    BY <2>1, <2>2, KeepsDates
<1>3. ASSUME NEW c \in Syncs, Fetch(c)
      PROVE  DatesInv' /\ DeliveryInv'
  <2>1. /\ journal' = journal /\ cloud' = cloud /\ applied' = applied
        /\ pc'[c] = "apply" /\ \A e \in remote'[c] : e.origin # DeviceOf(c)
        /\ \A k \in Syncs \ {c} : pc'[k] = pc[k] /\ remote'[k] = remote[k]
    BY <1>3, FetchDoes DEF FetchRemote
  <2>2. DeliveryInv'
    BY <2>1 DEF DeliveryInv, Decodable
  <2> QED
    BY <2>1, <2>2, KeepsDates
<1>4. ASSUME NEW c \in Syncs, ApplyNext(c)
      PROVE  DatesInv' /\ DeliveryInv'
  <2> DEFINE d == DeviceOf(c)
  <2>1. PICK e \in remote[c] :
          /\ e \in cloud /\ Decodable(e)
          /\ d \in Devices /\ pc[c] = "apply"
          /\ \A x \in Devices \ {d} : applied'[x] = applied[x]
          /\ applied'[d] = applied[d] \cup {e}
          /\ remote'[c] = remote[c] \ {e}
          /\ \A k \in Syncs \ {c} : remote'[k] = remote[k]
          /\ journal' = journal /\ cloud' = cloud /\ pc' = pc
    BY <1>4, ApplyDoes
  <2>2. e.origin # d
    BY DEF DeliveryInv
  <2>3. DeliveryInv'
    BY <2>1, <2>2 DEF DeliveryInv, Decodable
  <2> QED
    BY <2>1, <2>3, KeepsDates
<1>5. ASSUME NEW c \in Syncs, Finish(c)
      PROVE  DatesInv' /\ DeliveryInv'
  <2>1. /\ journal' = journal /\ cloud' = cloud /\ applied' = applied
        /\ remote'[c] = {}
        /\ \A k \in Syncs \ {c} : pc'[k] = pc[k] /\ remote'[k] = remote[k]
    BY <1>5, FinishDoes
  <2>2. DeliveryInv'
    BY <2>1 DEF DeliveryInv, Decodable
  <2> QED
    BY <2>1, <2>2, KeepsDates
<1> QED
  BY <1>1, <1>2, <1>3, <1>4, <1>5, StepKinds

(***************************************************************************)
(* The feeds and groups of a device.                                       *)
(***************************************************************************)
\* A device sees one more event, with its effect; the others see nothing new.
LEMMA SeesMore ==
    ASSUME NEW known, AddedInv(known), NEW d \in Devices, NEW e,
           NoTombstones' => NoTombstones,
           NoTombstones' => Effect(e, data[d], data'[d]),
           Seen(d)' = Seen(d) \cup {e},
           \A x \in Devices \ {d} : data'[x] = data[x] /\ Seen(x)' = Seen(x)
    PROVE  AddedInv(known)'
<1> SUFFICES ASSUME NoTombstones', NEW x \in Devices
             PROVE  /\ \A f \in Feeds : f \in data'[x].feeds <=>
                          f \in known \/ \E o \in Seen(x)' : AddsFeed(o, f)
                    /\ \A g \in Groups : g \in data'[x].groups <=>
                          g \in known \/ \E o \in Seen(x)' : AddsGroup(o, g)
  BY DEF AddedInv
<1>1. /\ \A f \in Feeds : f \in data[x].feeds <=>
            f \in known \/ \E o \in Seen(x) : AddsFeed(o, f)
      /\ \A g \in Groups : g \in data[x].groups <=>
            g \in known \/ \E o \in Seen(x) : AddsGroup(o, g)
  BY DEF AddedInv
<1>2. CASE x = d
  <2>1. /\ \A f \in Feeds : f \in data'[x].feeds <=> f \in data[x].feeds \/ AddsFeed(e, f)
        /\ \A g \in Groups : g \in data'[x].groups <=> g \in data[x].groups \/ AddsGroup(e, g)
    BY <1>2 DEF Effect
  <2>2. Seen(x)' = Seen(x) \cup {e}
    BY <1>2
  <2> QED
    BY <1>1, <2>1, <2>2
<1>3. CASE x # d
  <2>1. data'[x] = data[x] /\ Seen(x)' = Seen(x)
    BY <1>3
  <2> QED
    BY <1>1, <2>1
<1> QED
  BY <1>2, <1>3

LEMMA NextAdded ==
    ASSUME NEW known, TypeInv, WatermarkInv, DeliveryInv, AddedInv(known),
           ~Unjournaled, [Next]_vars
    PROVE  AddedInv(known)'
<1>1. ASSUME UNCHANGED <<data, journal, applied>>
      PROVE  AddedInv(known)'
  BY <1>1 DEF AddedInv, NoTombstones, Seen
<1>2. ASSUME NEW d \in Devices, NEW e, Change(d, e)
      PROVE  AddedInv(known)'
  <2>1. /\ applied' = applied /\ journal' = journal \cup {e} /\ e.origin = d
        /\ \A x \in Devices \ {d} : data'[x] = data[x]
        /\ e.type # "deleted" => Effect(e, data[d], data'[d])
    BY <1>2 DEF Change, Tells
  <2>2. NoTombstones' => NoTombstones /\ e.type # "deleted"
    BY <2>1 DEF NoTombstones
  <2>3. Seen(d)' = Seen(d) \cup {e}
    BY <2>1 DEF Seen
  <2>4. \A x \in Devices \ {d} : Seen(x)' = Seen(x)
    BY <2>1 DEF Seen
  <2> QED
    BY <2>1, <2>2, <2>3, <2>4, SeesMore
<1>3. ASSUME NEW c \in Syncs, ApplyNext(c)
      PROVE  AddedInv(known)'
  <2> DEFINE d == DeviceOf(c)
  <2>1. PICK e \in remote[c] :
          /\ d \in Devices /\ Effect(e, data[d], data'[d])
          /\ \A x \in Devices \ {d} : data'[x] = data[x] /\ applied'[x] = applied[x]
          /\ applied'[d] = applied[d] \cup {e}
          /\ journal' = journal
    BY <1>3, ApplyDoes
  <2>2. NoTombstones' => NoTombstones
    BY <2>1 DEF NoTombstones
  <2>3. Seen(d)' = Seen(d) \cup {e}
    BY <2>1 DEF Seen
  <2>4. \A x \in Devices \ {d} : Seen(x)' = Seen(x)
    BY <2>1 DEF Seen
  <2> HIDE DEF d
  <2> QED
    BY <2>1, <2>2, <2>3, <2>4, SeesMore
<1>4. ASSUME NEW c \in Syncs, Fetch(c) \/ Finish(c)
      PROVE  AddedInv(known)'
  BY <1>1, <1>4, FetchDoes, FinishDoes
<1> QED
  BY <1>1, <1>2, <1>3, <1>4, StepKinds DEF Quiet

LEMMA InitAdded == Init => \E known \in {{}, Synced} : AddedInv(known)
<1> SUFFICES ASSUME Init
             PROVE  \E known \in {{}, Synced} : AddedInv(known)
  OBVIOUS
<1>1. PICK known \in {{}, Synced} : data = [d \in Devices |->
        [feeds |-> Feeds \cap known, groups |-> Groups \cap known,
         memberOf |-> [f \in Feeds |-> NULL], settings |-> [f \in Feeds |-> NULL],
         perGroup |-> [g \in Groups |-> NULL], read |-> [f \in Feeds |-> NULL],
         notes |-> [n \in Notes |-> NULL]]]
  BY DEF Init, JournalInit
<1>2. \A d \in Devices : Seen(d) = {}
  BY DEF Init, JournalInit, Seen
<1>3. \A d \in Devices : data[d].feeds = Feeds \cap known /\ data[d].groups = Groups \cap known
  BY <1>1
<1>4. AddedInv(known)
  BY <1>2, <1>3 DEF AddedInv
<1> QED
  BY <1>4

(***************************************************************************)
(* The cells of a device, when it runs one syncNow at a time.              *)
(***************************************************************************)
LEMMA OneCallOfDevice ==
    ASSUME OneCall, NEW c \in Syncs
    PROVE  /\ \A k \in Syncs : DeviceOf(k) = DeviceOf(c) => k = c
           /\ ToApply(DeviceOf(c)) = remote[c]
           /\ Applying(DeviceOf(c)) <=> pc[c] = "apply"
           /\ ToApply(DeviceOf(c))' = remote'[c]
           /\ Applying(DeviceOf(c))' <=> pc'[c] = "apply"
<1>1. \A k \in Syncs : DeviceOf(k) = DeviceOf(c) => k = c
  BY DEF OneCall, Syncs, DeviceOf
<1>2. {k \in Syncs : DeviceOf(k) = DeviceOf(c)} = {c}
  BY <1>1
<1> QED
  BY <1>1, <1>2 DEF ToApply, Applying

LEMMA CallsFrame ==
    ASSUME NEW d, \A c \in Syncs : DeviceOf(c) = d => pc'[c] = pc[c] /\ remote'[c] = remote[c]
    PROVE  ToApply(d)' = ToApply(d) /\ (Applying(d)' <=> Applying(d))
  BY DEF ToApply, Applying

LEMMA DatesAreNumbers ==
    ASSUME TypeInv
    PROVE  /\ \A e \in journal : e.at \in Int
           /\ \A d \in Devices : lastSyncAt[d] \in Int
           /\ \A c \in Syncs : remote[c] \subseteq journal
           /\ \A d \in Devices : applied[d] \subseteq journal
           /\ cloud \subseteq journal
  BY SyncJournalAssumptions DEF TypeInv, TypeOK, JournalTypeOK, Event

LEMMA NextOrder ==
    ASSUME OneCall, TypeInv, WatermarkInv, DatesInv, DeliveryInv, OrderInv, ~Unjournaled, [Next]_vars
    PROVE  OrderInv'
<1>1. CASE Quiet
  BY <1>1 DEF Quiet, OrderInv
<1>2. ASSUME NEW d \in Devices, NEW e, Change(d, e)
      PROVE  OrderInv'
  BY <1>2 DEF Change, OrderInv
<1>3. ASSUME NEW c \in Syncs, Fetch(c)
      PROVE  OrderInv'
  <2> DEFINE d == DeviceOf(c)
  <2>1. /\ lastSyncAt' = lastSyncAt /\ applied' = applied
        /\ remote'[c] = FetchRemote(d)
        /\ \A k \in Syncs \ {c} : pc'[k] = pc[k] /\ remote'[k] = remote[k]
    BY <1>3, FetchDoes
  <2>2. \A x \in applied[d] : x.at > lastSyncAt[d] => x \in remote'[c]
    BY <2>1, DeviceType DEF DeliveryInv, FetchRemote
  <2>3. \A x \in remote'[c] : x.at > lastSyncAt[d]
    BY <2>1 DEF FetchRemote
  <2> QED
    BY <2>1, <2>2, <2>3 DEF OrderInv
<1>4. ASSUME NEW c \in Syncs, ApplyNext(c)
      PROVE  OrderInv'
  <2> DEFINE d == DeviceOf(c)
  <2>1. PICK e \in remote[c] :
          /\ \A x \in remote[c] : e.at <= x.at
          /\ d \in Devices /\ pc[c] = "apply"
          /\ \A x \in Devices \ {d} : applied'[x] = applied[x]
          /\ applied'[d] = applied[d] \cup {e}
          /\ remote'[c] = remote[c] \ {e}
          /\ \A k \in Syncs \ {c} : remote'[k] = remote[k]
          /\ lastSyncAt' = lastSyncAt /\ pc' = pc
    BY <1>4, ApplyDoes
  <2>2. \A o \in remote'[c] : e.at < o.at
    BY <2>1, DatesAreNumbers DEF DatesInv
  <2>3. \A o \in remote'[c] : /\ o.at > lastSyncAt[d]
                              /\ \A x \in applied'[d] \ remote'[c] : x.at > lastSyncAt[d] => x.at < o.at
    BY <2>1, <2>2 DEF OrderInv
  <2>4. \A k \in Syncs \ {c} : DeviceOf(k) \in Devices \ {d}
    BY OneCallOfDevice, DeviceType
  <2> HIDE DEF d
  <2>5. ASSUME NEW k \in Syncs \ {c}, pc[k] = "apply"
        PROVE  \A o \in remote'[k] :
                  /\ o.at > lastSyncAt'[DeviceOf(k)]
                  /\ \A x \in applied'[DeviceOf(k)] \ remote'[k] :
                        x.at > lastSyncAt'[DeviceOf(k)] => x.at < o.at
    <3>1. /\ applied'[DeviceOf(k)] = applied[DeviceOf(k)] /\ remote'[k] = remote[k]
          /\ lastSyncAt'[DeviceOf(k)] = lastSyncAt[DeviceOf(k)]
      BY <2>1, <2>4
    <3> QED
      BY <2>5, <3>1 DEF OrderInv
  <2> QED
    BY <2>1, <2>3, <2>5 DEF OrderInv, d
<1>5. ASSUME NEW c \in Syncs, Finish(c)
      PROVE  OrderInv'
  <2>1. /\ applied' = applied /\ pc'[c] # "apply"
        /\ \A k \in Syncs \ {c} : pc'[k] = pc[k] /\ remote'[k] = remote[k]
        /\ \A x \in Devices \ {DeviceOf(c)} : lastSyncAt'[x] = lastSyncAt[x]
    BY <1>5, FinishDoes
  <2>2. \A k \in Syncs \ {c} : lastSyncAt'[DeviceOf(k)] = lastSyncAt[DeviceOf(k)]
    BY <2>1, OneCallOfDevice, DeviceType
  <2> QED
    BY <2>1, <2>2 DEF OrderInv
<1> QED
  BY <1>1, <1>2, <1>3, <1>4, <1>5, StepKinds

\* Nothing is written to the cells of a device; what is due stays due.
LEMMA CellFrame ==
    ASSUME NEW d, NEW s, CellInv(d, s),
           journal' = journal, data'[d] = data[d], applied'[d] = applied[d],
           \A m \in applied[d] : Due(d, m) => Due(d, m)'
    PROVE  CellInv(d, s)'
<1>1. \A m : Latest(m, s)' <=> Latest(m, s)
  BY LatestFrame
<1>2. (Wrote(d, s)' <=> Wrote(d, s)) /\ (DidNotWrite(d, s)' <=> DidNotWrite(d, s))
  BY DEF Wrote, DidNotWrite
<1>3. Holds(d, s) => Holds(d, s)'
  BY <1>1 DEF Holds
<1>4. Follows(d, s) => Follows(d, s)'
  BY <1>1 DEF Follows
<1> QED
  BY <1>2, <1>3, <1>4 DEF CellInv

LEMMA QuietKeepsDue ==
    ASSUME OneCall, TypeInv, TypeInv', DeliveryInv, OrderInv, Quiet,
           NEW d \in Devices, NEW m \in applied[d], Due(d, m)
    PROVE  Due(d, m)'
<1>1. /\ m.at \in Int /\ lastSyncAt[d] \in Int /\ lastSyncAt'[d] \in Int /\ lastSyncAt'[d] <= lastSyncAt[d]
  <2>1. lastSyncAt'[d] \in Int
    BY SyncJournalAssumptions DEF TypeInv, TypeOK
  <2> QED
    BY <2>1, DatesAreNumbers DEF Quiet
<1>2. CASE m \in ToApply(d)
  <2>1. PICK c \in Syncs : DeviceOf(c) = d /\ m \in remote[c]
    BY <1>2 DEF ToApply
  <2>2. pc[c] = "apply" /\ m.at > lastSyncAt[d]
    BY <2>1 DEF DeliveryInv, OrderInv
  <2>3. ToApply(d)' = remote'[c] /\ (Applying(d)' <=> pc'[c] = "apply")
    BY <2>1, OneCallOfDevice
  <2>4. remote'[c] = remote[c] \/ pc'[c] # "apply"
    BY DEF Quiet
  <2> QED
    BY <1>1, <2>1, <2>2, <2>3, <2>4 DEF Due
<1>3. CASE m.at > lastSyncAt[d] /\ ~Applying(d)
  <2>1. ~Applying(d)'
    BY <1>3 DEF Quiet, Applying
  <2> QED
    BY <1>1, <1>3, <2>1 DEF Due
<1> QED
  BY <1>2, <1>3 DEF Due

\* A user writes: on that device the new event is the last of its cell, and elsewhere
\* it is not yet applied.
LEMMA ChangeKeepsCell ==
    ASSUME TypeInv, NEW w \in Devices, NEW e, Change(w, e), e.type # "deleted",
           NEW d \in Devices, NEW s \in Cells, CellInv(d, s)
    PROVE  CellInv(d, s)'
<1>1. /\ journal' = journal \cup {e} /\ e.origin = w /\ e \notin journal
      /\ applied' = applied /\ applied[d] \subseteq journal
      /\ \A x \in Devices \ {w} : data'[x] = data[x]
      /\ Effect(e, data[w], data'[w])
  BY TellsLast, DatesAreNumbers DEF Change, Tells
<1>2. /\ About(e, s) => \A m : Latest(m, s)' <=> m = e
      /\ ~About(e, s) => \A m : Latest(m, s)' <=> Latest(m, s)
  BY TellsLatest DEF Change
<1>3. \A m : Due(d, m)' <=> Due(d, m)
  BY CallsFrame DEF Change, Due
<1>4. (Wrote(d, s)' => Wrote(d, s)) /\ (DidNotWrite(d, s)' => DidNotWrite(d, s))
  BY <1>1 DEF Wrote, DidNotWrite
<1>5. About(e, s) => (Wrote(d, s)' => d = w) /\ (DidNotWrite(d, s)' => d # w)
  BY <1>1 DEF Wrote, DidNotWrite
<1>6. CASE d = w /\ About(e, s)
  <2>1. Cell(data'[d], s) = e.value
    BY <1>1, <1>6 DEF Effect
  <2>2. Holds(d, s)'
    BY <1>1, <1>2, <1>6, <2>1 DEF Holds
  <2> QED
    BY <1>5, <1>6, <2>2 DEF CellInv
<1>7. CASE d # w /\ About(e, s)
  <2>1. data'[d] = data[d] /\ \A m \in applied[d] : ~Latest(m, s)'
    BY <1>1, <1>2, <1>7
  <2>2. Follows(d, s) => Follows(d, s)'
    BY <1>1, <2>1 DEF Follows
  <2> QED
    BY <1>4, <1>5, <1>7, <2>2 DEF CellInv
<1>8. CASE ~About(e, s)
  <2>1. Cell(data'[d], s) = Cell(data[d], s)
    <3>1. CASE d = w
      BY <1>1, <1>8, <3>1 DEF Effect
    <3>2. CASE d # w
      BY <1>1, <3>2
    <3> QED
      BY <3>1, <3>2
  <2>2. Holds(d, s) => Holds(d, s)'
    <3>1. \A m : Latest(m, s) => m \in journal
      BY DEF Latest
    <3> QED
      BY <1>1, <1>2, <1>8, <2>1, <3>1 DEF Holds
  <2>3. Follows(d, s) => Follows(d, s)'
    BY <1>1, <1>2, <1>3, <1>8, <2>1 DEF Follows
  <2> QED
    BY <1>4, <2>2, <2>3 DEF CellInv
<1> QED
  BY <1>6, <1>7, <1>8

\* A replay: what is newer than e and was applied before it is left to be applied again.
LEMMA ApplyKeepsCell ==
    ASSUME OneCall, TypeInv, DatesInv, DeliveryInv, OrderInv, NEW c \in Syncs, ApplyNext(c),
           NEW s \in Cells, CellInv(DeviceOf(c), s)
    PROVE  CellInv(DeviceOf(c), s)'
<1> DEFINE d == DeviceOf(c)
<1>1. PICK e \in remote[c] :
        /\ d \in Devices /\ pc[c] = "apply"
        /\ Effect(e, data[d], data'[d])
        /\ applied'[d] = applied[d] \cup {e}
        /\ remote'[c] = remote[c] \ {e}
        /\ UNCHANGED <<journal, lastSyncAt, pc>>
  BY ApplyDoes
<1>2. /\ ToApply(d) = remote[c] /\ ToApply(d)' = remote[c] \ {e}
      /\ Applying(d)
  BY <1>1, OneCallOfDevice
<1>3. e \in journal /\ e.origin # d /\ e.at \in Int /\ lastSyncAt[d] \in Int
      /\ applied[d] \subseteq journal /\ \A x \in journal : x.at \in Int
  BY <1>1, DatesAreNumbers DEF DeliveryInv
<1>4. e.at > lastSyncAt[d] /\ \A x \in applied[d] \ remote[c] : x.at > lastSyncAt[d] => x.at < e.at
  BY <1>1 DEF OrderInv
<1> HIDE DEF d
<1>5. \A m : Latest(m, s)' <=> Latest(m, s)
  BY <1>1, LatestFrame
<1>6. (Wrote(d, s)' <=> Wrote(d, s)) /\ (DidNotWrite(d, s)' <=> DidNotWrite(d, s))
  BY <1>1 DEF Wrote, DidNotWrite
<1>7. Cell(data'[d], s) = IF About(e, s) THEN e.value ELSE Cell(data[d], s)
  BY <1>1 DEF Effect
<1>8. ASSUME Wrote(d, s)
      PROVE  Holds(d, s)'
  <2>1. ~About(e, s) /\ Holds(d, s)
    BY <1>3, <1>8 DEF Wrote, CellInv, d
  <2> QED
    BY <1>1, <1>5, <1>7, <2>1 DEF Holds
<1>9. ASSUME DidNotWrite(d, s)
      PROVE  Follows(d, s)'
  <2>1. Follows(d, s)
    BY <1>9 DEF CellInv, d
  <2>2. (\A x \in applied'[d] : ~About(x, s)) => Cell(data'[d], s) = NULL
    BY <1>1, <1>7, <2>1 DEF Follows
  <2>3. ASSUME NEW m \in applied'[d], Latest(m, s)
        PROVE  Cell(data'[d], s) = m.value \/ Due(d, m)'
    <3>1. CASE m = e
      BY <1>7, <2>3, <3>1 DEF Latest
    <3>2. CASE m # e /\ m \in remote[c]
      BY <1>2, <3>2 DEF Due
    <3>3. CASE m # e /\ m \notin remote[c]
      <4>1. m \in applied[d]
        BY <1>1, <3>3
      <4>2. ~About(e, s)
        BY <1>3, <1>4, <2>3, <3>3, <4>1 DEF Latest, DatesInv
      <4>3. ~Due(d, m)
        BY <1>2, <3>3 DEF Due
      <4> QED
        BY <1>7, <2>1, <2>3, <4>1, <4>2, <4>3 DEF Follows
    <3> QED
      BY <3>1, <3>2, <3>3
  <2> QED
    BY <1>5, <2>2, <2>3 DEF Follows
<1> QED
  BY <1>6, <1>8, <1>9 DEF CellInv, d

LEMMA NextCells ==
    ASSUME OneCall, TypeInv, TypeInv', WatermarkInv, DatesInv, DeliveryInv, OrderInv, CellsInv,
           ~Unjournaled, [Next]_vars
    PROVE  CellsInv'
<1> SUFFICES ASSUME NoTombstones', NEW d \in Devices, NEW s \in Cells
             PROVE  CellInv(d, s)'
  BY DEF CellsInv
<1>1. CASE Quiet
  <2>1. NoTombstones
    BY <1>1 DEF Quiet, NoTombstones
  <2>2. journal' = journal /\ data'[d] = data[d] /\ applied'[d] = applied[d]
    BY <1>1 DEF Quiet
  <2>3. \A m \in applied[d] : Due(d, m) => Due(d, m)'
    BY <1>1, QuietKeepsDue
  <2> QED
    BY <2>1, <2>2, <2>3, CellFrame DEF CellsInv
<1>2. ASSUME NEW w \in Devices, NEW e, Change(w, e)
      PROVE  CellInv(d, s)'
  <2>1. NoTombstones /\ e.type # "deleted"
    BY <1>2 DEF Change, Tells, NoTombstones
  <2> QED
    BY <1>2, <2>1, ChangeKeepsCell DEF CellsInv
<1>3. ASSUME NEW c \in Syncs, Fetch(c)
      PROVE  CellInv(d, s)'
  <2>1. /\ journal' = journal /\ data' = data /\ applied' = applied /\ lastSyncAt' = lastSyncAt
        /\ pc[c] = "fetch" /\ remote'[c] = FetchRemote(DeviceOf(c))
        /\ \A k \in Syncs \ {c} : pc'[k] = pc[k] /\ remote'[k] = remote[k]
    BY <1>3, FetchDoes
  <2>2. NoTombstones
    BY <2>1 DEF NoTombstones
  <2>3. ASSUME NEW m \in applied[d], Due(d, m)
        PROVE  Due(d, m)'
    <3>1. CASE d = DeviceOf(c)
      <4>1. ToApply(d) = remote[c] /\ ToApply(d)' = remote'[c]
        BY <3>1, OneCallOfDevice
      <4>2. m \notin remote[c] /\ m \in cloud /\ m.origin # d
        BY <2>1 DEF DeliveryInv
      <4> QED
        BY <2>1, <2>3, <3>1, <4>1, <4>2 DEF Due, FetchRemote
    <3>2. CASE d # DeviceOf(c)
      <4>1. ToApply(d)' = ToApply(d) /\ (Applying(d)' <=> Applying(d))
        BY <2>1, <3>2, CallsFrame
      <4> QED
        BY <2>1, <2>3, <4>1 DEF Due
    <3> QED
      BY <3>1, <3>2
  <2> QED
    BY <2>1, <2>2, <2>3, CellFrame DEF CellsInv
<1>4. ASSUME NEW c \in Syncs, ApplyNext(c)
      PROVE  CellInv(d, s)'
  <2>1. /\ \A x \in Devices \ {DeviceOf(c)} : data'[x] = data[x] /\ applied'[x] = applied[x]
        /\ \A k \in Syncs \ {c} : remote'[k] = remote[k]
        /\ UNCHANGED <<journal, lastSyncAt, pc>>
    BY <1>4, ApplyDoes
  <2>2. NoTombstones
    BY <2>1 DEF NoTombstones
  <2>3. CASE d = DeviceOf(c)
    BY <1>4, <2>2, <2>3, ApplyKeepsCell DEF CellsInv
  <2>4. CASE d # DeviceOf(c)
    <3>1. ToApply(d)' = ToApply(d) /\ (Applying(d)' <=> Applying(d))
      BY <2>1, <2>4, CallsFrame
    <3>2. \A m : Due(d, m) => Due(d, m)'
      BY <2>1, <3>1 DEF Due
    <3>3. journal' = journal /\ data'[d] = data[d] /\ applied'[d] = applied[d]
      BY <2>1, <2>4
    <3> QED
      BY <2>2, <3>2, <3>3, CellFrame DEF CellsInv
  <2> QED
    BY <2>3, <2>4
<1>5. ASSUME NEW c \in Syncs, Finish(c)
      PROVE  CellInv(d, s)'
  <2>1. /\ journal' = journal /\ data' = data /\ applied' = applied
        /\ pc[c] = "apply" /\ remote[c] = {}
        /\ \A k \in Syncs \ {c} : pc'[k] = pc[k] /\ remote'[k] = remote[k]
        /\ \A x \in Devices \ {DeviceOf(c)} : lastSyncAt'[x] = lastSyncAt[x]
    BY <1>5, FinishDoes
  <2>2. NoTombstones
    BY <2>1 DEF NoTombstones
  <2>3. ASSUME NEW m, Due(d, m)
        PROVE  Due(d, m)'
    <3>1. d # DeviceOf(c)
      BY <2>1, <2>3, OneCallOfDevice DEF Due
    <3>2. ToApply(d)' = ToApply(d) /\ (Applying(d)' <=> Applying(d))
      BY <2>1, <3>1, CallsFrame
    <3> QED
      BY <2>1, <2>3, <3>1, <3>2 DEF Due
  <2> QED
    BY <2>1, <2>2, <2>3, CellFrame DEF CellsInv
<1> QED
  BY <1>1, <1>2, <1>3, <1>4, <1>5, StepKinds

LEMMA InitCells == Init => DatesInv /\ DeliveryInv /\ OrderInv /\ CellsInv
<1> SUFFICES ASSUME Init
             PROVE  DatesInv /\ DeliveryInv /\ OrderInv /\ CellsInv
  OBVIOUS
<1>1. /\ journal = {} /\ \A d \in Devices : applied[d] = {}
      /\ \A c \in Syncs : remote[c] = {} /\ pc[c] = "idle"
  BY DEF Init, JournalInit
<1>2. DatesInv /\ DeliveryInv /\ OrderInv
  BY <1>1 DEF DatesInv, DeliveryInv, OrderInv
<1>3. PICK known \in {{}, Synced} : data = [d \in Devices |->
        [feeds |-> Feeds \cap known, groups |-> Groups \cap known,
         memberOf |-> [f \in Feeds |-> NULL], settings |-> [f \in Feeds |-> NULL],
         perGroup |-> [g \in Groups |-> NULL], read |-> [f \in Feeds |-> NULL],
         notes |-> [n \in Notes |-> NULL]]]
  BY DEF Init, JournalInit
<1>4. ASSUME NEW d \in Devices, NEW s \in Cells
      PROVE  Cell(data[d], s) = NULL
  <2>1. /\ data[d].memberOf = [f \in Feeds |-> NULL] /\ data[d].settings = [f \in Feeds |-> NULL]
        /\ data[d].perGroup = [g \in Groups |-> NULL] /\ data[d].notes = [n \in Notes |-> NULL]
    BY <1>3
  <2>2. \/ s[1] = "feed_membership" /\ s[2] \in Feeds
        \/ s[1] = "feed_refresh_settings" /\ s[2] \in Feeds
        \/ s[1] = "group_refresh_settings" /\ s[2] \in Groups
        \/ s[1] = "entry" /\ s[2] \in Notes
    BY DEF Cells
  <2> QED
    BY <2>1, <2>2 DEF Cell
<1>5. CellsInv
  BY <1>1, <1>4 DEF CellsInv, CellInv, Holds, Follows
<1> QED
  BY <1>2, <1>5

(***************************************************************************)
(* Devices that are caught up agree.                                       *)
(***************************************************************************)
ReplicaInv == TypeInv /\ WatermarkInv /\ DatesInv /\ DeliveryInv

LEMMA InitReplica == Init => ReplicaInv
BY InitTypeInv, InitCells DEF ReplicaInv, Init, WatermarkInv, OnlyLateEventsAreMissed

LEMMA NextReplica == ~Unjournaled /\ ReplicaInv /\ [Next]_vars => ReplicaInv'
BY NextTypeInv, NextWatermarkInv, NextDelivery DEF ReplicaInv

LEMMA CaughtUpSeesAll ==
    ASSUME NEW d, CaughtUp(d)
    PROVE  /\ journal \subseteq Seen(d)
           /\ \A m \in journal : m.origin # d => m \in applied[d] /\ m.at <= lastSyncAt[d]
           /\ ~\E c \in Syncs : DeviceOf(c) = d /\ pc[c] = "apply"
  BY DEF CaughtUp, Seen, Others

\* A tombstone is applied nowhere: as long as one is journaled, only the device it comes from
\* can be caught up.
LEMMA NoTombstonesApplied ==
    ASSUME ReplicaInv, NEW d1 \in Devices, NEW d2 \in Devices \ {d1}, CaughtUp(d1), CaughtUp(d2)
    PROVE  NoTombstones
<1> SUFFICES ASSUME NEW e \in journal
             PROVE  e.type # "deleted"
  BY DEF NoTombstones
<1>1. e.origin # d1 \/ e.origin # d2
  OBVIOUS
<1>2. e \in applied[d1] \/ e \in applied[d2]
  BY <1>1, CaughtUpSeesAll
<1> QED
  BY <1>2 DEF ReplicaInv, DeliveryInv, Decodable

\* Devices that are caught up hold the same feeds and groups.
CaughtUpFeedsAgree ==
    \A d1, d2 \in Devices :
        CaughtUp(d1) /\ CaughtUp(d2) =>
            data[d1].feeds = data[d2].feeds /\ data[d1].groups = data[d2].groups

AddedFromStart == \E known \in {{}, Synced} : AddedInv(known)

LEMMA AddedAgree ==
    ASSUME ReplicaInv, AddedFromStart
    PROVE  CaughtUpFeedsAgree
<1>1. PICK known \in {{}, Synced} : AddedInv(known)
  BY DEF AddedFromStart
<1> SUFFICES ASSUME NEW d1 \in Devices, NEW d2 \in Devices \ {d1}, CaughtUp(d1), CaughtUp(d2)
             PROVE  data[d1].feeds = data[d2].feeds /\ data[d1].groups = data[d2].groups
  BY DEF CaughtUpFeedsAgree
<1>2. NoTombstones
  BY NoTombstonesApplied
<1>3. \A d \in Devices : /\ applied[d] \subseteq journal
                         /\ data[d].feeds \subseteq Feeds /\ data[d].groups \subseteq Groups
  BY DatesAreNumbers DEF ReplicaInv, TypeInv, JournalInv, JournalTypeOK, Tables
<1>4. Seen(d1) = journal /\ Seen(d2) = journal
  BY <1>3, CaughtUpSeesAll DEF Seen
<1>5. \A f \in Feeds : f \in data[d1].feeds <=> f \in data[d2].feeds
  BY <1>1, <1>2, <1>4 DEF AddedInv
<1>6. \A g \in Groups : g \in data[d1].groups <=> g \in data[d2].groups
  BY <1>1, <1>2, <1>4 DEF AddedInv
<1> QED
  BY <1>3, <1>5, <1>6

\* A device that is caught up holds in each cell that it alone wrote, or did not write, the
\* value of the last event about it, and none when there is no event.
LastWriteHolds ==
    NoTombstones => \A d \in Devices, s \in Cells :
        CaughtUp(d) /\ (Wrote(d, s) \/ DidNotWrite(d, s)) => Holds(d, s)

LEMMA CellsHold ==
    ASSUME OneCall, ReplicaInv, CellsInv
    PROVE  LastWriteHolds
<1> SUFFICES ASSUME NoTombstones, NEW d \in Devices, NEW s \in Cells, CaughtUp(d),
                    ~Wrote(d, s), DidNotWrite(d, s)
             PROVE  Holds(d, s)
  BY DEF LastWriteHolds, CellsInv, CellInv
<1>1. Follows(d, s)
  BY DEF CellsInv, CellInv
<1>2. /\ \A m \in journal : m.at \in Int
      /\ lastSyncAt[d] \in Int /\ applied[d] \subseteq journal
  BY DatesAreNumbers DEF ReplicaInv
<1>3. ASSUME NEW m \in journal, Latest(m, s)
      PROVE  Cell(data[d], s) = m.value
  <2>1. m \in applied[d] /\ m.at <= lastSyncAt[d]
    BY <1>3, CaughtUpSeesAll DEF Latest, DidNotWrite
  <2>2. m \notin ToApply(d)
    BY CaughtUpSeesAll DEF ReplicaInv, DeliveryInv, ToApply
  <2> QED
    BY <1>1, <1>2, <1>3, <2>1, <2>2 DEF Follows, Due
<1> QED
  BY <1>1, <1>2, <1>3 DEF Holds, Follows

\* What is shared is the feeds, the groups and the cells.
LEMMA SharedByCells ==
    ASSUME NEW t \in Tables, NEW u \in Tables, t.feeds = u.feeds, t.groups = u.groups,
           \A s \in Cells : Cell(t, s) = Cell(u, s)
    PROVE  Shared(t) = Shared(u)
<1>1. /\ t.memberOf \in [Feeds -> Groups \cup {NULL}] /\ u.memberOf \in [Feeds -> Groups \cup {NULL}]
      /\ t.settings \in [Feeds -> Values \cup {NULL}] /\ u.settings \in [Feeds -> Values \cup {NULL}]
      /\ t.perGroup \in [Groups -> Values \cup {NULL}] /\ u.perGroup \in [Groups -> Values \cup {NULL}]
      /\ t.notes \in [Notes -> Values \cup {NULL}] /\ u.notes \in [Notes -> Values \cup {NULL}]
  BY DEF Tables
<1>2. ASSUME NEW f \in Feeds
      PROVE  t.memberOf[f] = u.memberOf[f]
  <2>1. <<"feed_membership", f>> \in Cells
    BY DEF Cells
  <2> QED
    BY <2>1 DEF Cell
<1>3. ASSUME NEW f \in Feeds
      PROVE  t.settings[f] = u.settings[f]
  <2> DEFINE s == <<"feed_refresh_settings", f>>
  <2>1. s \in Cells /\ s[1] = "feed_refresh_settings" /\ s[2] = f
    BY DEF Cells
  <2> HIDE DEF s
  <2> QED
    BY <2>1 DEF Cell
<1>4. ASSUME NEW g \in Groups
      PROVE  t.perGroup[g] = u.perGroup[g]
  <2> DEFINE s == <<"group_refresh_settings", g>>
  <2>1. s \in Cells /\ s[1] = "group_refresh_settings" /\ s[2] = g
    BY DEF Cells
  <2> HIDE DEF s
  <2> QED
    BY <2>1 DEF Cell
<1>5. ASSUME NEW n \in Notes
      PROVE  t.notes[n] = u.notes[n]
  <2> DEFINE s == <<"entry", n>>
  <2>1. s \in Cells /\ s[1] = "entry" /\ s[2] = n
    BY DEF Cells
  <2> HIDE DEF s
  <2> QED
    BY <2>1 DEF Cell
<1>6. /\ t.memberOf = u.memberOf /\ t.settings = u.settings
      /\ t.perGroup = u.perGroup /\ t.notes = u.notes
  BY <1>1, <1>2, <1>3, <1>4, <1>5
<1> QED
  BY <1>6 DEF Shared

\* No cell was written on two devices.
Undisputed == \A s \in Cells : \E w \in Devices : Wrote(w, s)

LEMMA ReplicasAgree ==
    ASSUME Undisputed, ReplicaInv, CaughtUpFeedsAgree, LastWriteHolds
    PROVE  CaughtUpDevicesAgree
<1> SUFFICES ASSUME NEW d1 \in Devices, NEW d2 \in Devices \ {d1},
                    CaughtUp(d1), CaughtUp(d2)
             PROVE  Shared(data[d1]) = Shared(data[d2])
  BY DEF CaughtUpDevicesAgree
<1>1. NoTombstones
  BY NoTombstonesApplied
<1>2. ASSUME NEW s \in Cells
      PROVE  Cell(data[d1], s) = Cell(data[d2], s)
  <2>1. Holds(d1, s) /\ Holds(d2, s)
    <3>1. /\ Wrote(d1, s) \/ DidNotWrite(d1, s)
          /\ Wrote(d2, s) \/ DidNotWrite(d2, s)
      BY DEF Undisputed, Wrote, DidNotWrite
    <3> QED
      BY <1>1, <3>1 DEF LastWriteHolds
  <2>2. CASE \A e \in journal : ~About(e, s)
    BY <2>1, <2>2 DEF Holds
  <2>3. CASE ~\A e \in journal : ~About(e, s)
    <3>1. PICK m \in journal : Latest(m, s)
      BY <2>3 DEF ReplicaInv, DatesInv
    <3> QED
      BY <2>1, <3>1 DEF Holds
  <2> QED
    BY <2>2, <2>3
<1>3. /\ data[d1].feeds = data[d2].feeds /\ data[d1].groups = data[d2].groups
      /\ data[d1] \in Tables /\ data[d2] \in Tables
  BY DEF CaughtUpFeedsAgree, ReplicaInv, TypeInv, JournalInv, JournalTypeOK
<1> QED
  BY <1>2, <1>3, SharedByCells

\* However many devices write and however many syncNow overlap on one, in batches that are
\* cut off, repeated or lost with a restart: devices that have applied each other's events
\* hold the same feeds and groups, when all that users did is journaled.
THEOREM FeedsConverge == ~Unjournaled => (Spec => []CaughtUpFeedsAgree)
<1> SUFFICES ASSUME ~Unjournaled
             PROVE  Spec => []CaughtUpFeedsAgree
  OBVIOUS
<1>1. Init => AddedFromStart
  BY InitAdded DEF AddedFromStart
<1>2. AddedFromStart /\ ReplicaInv /\ [Next]_vars => AddedFromStart'
  BY NextAdded DEF AddedFromStart, ReplicaInv
<1>3. AddedFromStart /\ ReplicaInv => CaughtUpFeedsAgree
  BY AddedAgree
<1> QED
  BY <1>1, <1>2, <1>3, InitReplica, NextReplica, PTL DEF Spec

\* The order in which calls replay is that of the events, so on a device that runs one
\* syncNow at a time an event that is fetched twice, or replayed again after a batch was cut
\* off, does not undo for good what came after it: who is caught up holds the last write.
THEOREM LastWriteSurvives == ~Unjournaled /\ OneCall => (Spec => []LastWriteHolds)
<1> SUFFICES ASSUME ~Unjournaled, OneCall
             PROVE  Spec => []LastWriteHolds
  OBVIOUS
<1>1. Init => OrderInv /\ CellsInv
  BY InitCells
<1>2. ReplicaInv /\ ReplicaInv' /\ OrderInv /\ CellsInv /\ [Next]_vars => OrderInv' /\ CellsInv'
  BY NextOrder, NextCells DEF ReplicaInv
<1>3. ReplicaInv /\ CellsInv => LastWriteHolds
  BY CellsHold
<1> QED
  BY <1>1, <1>2, <1>3, InitReplica, NextReplica, PTL DEF Spec

\* However many devices write, as long as no setting, membership or note is written on two
\* of them: devices that have applied each other's events hold the same feeds, groups,
\* memberships, settings and notes, through interrupted batches and events fetched twice.
THEOREM DevicesConverge ==
    ~Unjournaled /\ OneCall => (Spec => [](Undisputed => CaughtUpDevicesAgree))
<1> SUFFICES ASSUME ~Unjournaled, OneCall
             PROVE  Spec => [](Undisputed => CaughtUpDevicesAgree)
  OBVIOUS
<1>1. ReplicaInv /\ CaughtUpFeedsAgree /\ LastWriteHolds => (Undisputed => CaughtUpDevicesAgree)
  BY ReplicasAgree
<1> QED
  BY <1>1, FeedsConverge, LastWriteSurvives, InitReplica, NextReplica, PTL DEF Spec

\* So devices that follow the only one that is written on come to hold what it holds.
THEOREM FollowersConverge ==
    ~Unjournaled /\ OneCall /\ (\A v, w \in Writers : v = w) => (Spec => []CaughtUpDevicesAgree)
<1> SUFFICES ASSUME ~Unjournaled, OneCall, \A v, w \in Writers : v = w
             PROVE  Spec => []CaughtUpDevicesAgree
  OBVIOUS
<1>1. ReplicaInv => Undisputed \/ Devices = {}
  BY SyncJournalAssumptions DEF ReplicaInv, DeliveryInv, Undisputed, Wrote
<1>2. Devices = {} => CaughtUpDevicesAgree
  BY DEF CaughtUpDevicesAgree
<1> QED
  BY <1>1, <1>2, DevicesConverge, InitReplica, NextReplica, PTL DEF Spec

=============================================================================
