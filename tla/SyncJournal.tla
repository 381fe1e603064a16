----------------------------- MODULE SyncJournal -----------------------------
(***************************************************************************)
(* What devices replicate, and the journal each keeps of its own changes.  *)
(* A local operation of the storage crate changes the device's tables and  *)
(* appends an event to sync_events; apply_sync_events replays the events   *)
(* of other devices without journaling them again.  Feeds are known to all *)
(* devices by URL, groups by name, user entries (notes) by id; each feed   *)
(* has one article, known by the hash its id is made of.                   *)
(***************************************************************************)
EXTENDS Integers, FiniteSets

CONSTANTS
    Devices,
    Writers,     \* devices whose users change something; the others only sync
    Feeds,       \* feed URLs
    Groups,      \* group names
    Notes,       \* ids of user entries
    Values,      \* refresh settings, and contents of notes
    NULL,
    Synced,      \* feeds and groups that all devices may have from the start
    Unjournaled, \* whether users also do what leaves no event (see DeleteGroup)
    MaxEvents    \* bound: how many events are journaled

ASSUME SyncJournalAssumptions ==
    /\ Writers \subseteq Devices
    /\ Synced \subseteq Feeds \cup Groups
    /\ Unjournaled \in BOOLEAN
    /\ MaxEvents \in Nat
    /\ NULL \notin Groups \cup Values \cup BOOLEAN

VARIABLES
    data,        \* the replicated tables of each device
    journal,     \* the events of sync_events, of all devices
    processed    \* those with processed_at set

journalVars == <<data, journal, processed>>

Tables ==
    [feeds : SUBSET Feeds, groups : SUBSET Groups,
     memberOf : [Feeds -> Groups \cup {NULL}],       \* group_memberships
     settings : [Feeds -> Values \cup {NULL}],       \* feed_refresh_settings
     perGroup : [Groups -> Values \cup {NULL}],      \* group_refresh_settings
     read : [Feeds -> BOOLEAN \cup {NULL}],          \* state of the article, NULL before it is fetched
     notes : [Notes -> Values \cup {NULL}]]

Event ==
    [entity : {"feed", "feed_group", "feed_membership", "feed_refresh_settings",
               "group_refresh_settings", "item_state", "entry"},
     type : {"created", "updated", "deleted"},
     key : Feeds \cup Groups \cup Notes,
     value : Groups \cup Values \cup BOOLEAN \cup {NULL},
     at : 1 .. MaxEvents,
     origin : Devices]

JournalTypeOK ==
    /\ data \in [Devices -> Tables]
    /\ journal \subseteq Event
    /\ processed \subseteq journal

\* What was replicated before is everywhere, its events behind every watermark.
JournalInit ==
    /\ \E known \in {{}, Synced} : data = [d \in Devices |->
          [feeds |-> Feeds \cap known, groups |-> Groups \cap known,
           memberOf |-> [f \in Feeds |-> NULL], settings |-> [f \in Feeds |-> NULL],
           perGroup |-> [g \in Groups |-> NULL], read |-> [f \in Feeds |-> NULL],
           notes |-> [n \in Notes |-> NULL]]]
    /\ journal = {}
    /\ processed = {}

-----------------------------------------------------------------------------
(***************************************************************************)
(* The operations of storage on the tables.                                *)
(***************************************************************************)
UpsertFeed(t, f) == [t EXCEPT !.feeds = @ \cup {f}]

DeleteFeedRow(t, f) ==
    [t EXCEPT !.feeds = @ \ {f}, !.memberOf[f] = NULL, !.settings[f] = NULL, !.read[f] = NULL]

CreateGroupRow(t, g) == [t EXCEPT !.groups = @ \cup {g}]

DeleteGroupRow(t, g) ==
    [t EXCEPT !.groups = @ \ {g}, !.perGroup[g] = NULL,
              !.memberOf = [f \in Feeds |-> IF @[f] = g THEN NULL ELSE @[f]]]

SetMembership(t, f, g) == [t EXCEPT !.memberOf[f] = g]

\* serde_json finds every field the payload struct requires.  The tombstones are
\* written without feed_type, and without settings.
Decodable(e) == e.type # "deleted"

\* The branches of apply_sync_events for what was made or changed.  Feeds and
\* groups that are missing are made; the state of an article that is missing is
\* skipped.
ApplyChange(t, e) ==
    CASE e.entity = "feed" -> UpsertFeed(t, e.key)
      [] e.entity = "feed_group" -> CreateGroupRow(t, e.key)
      [] e.entity = "feed_membership" ->
            LET known   == UpsertFeed(t, e.key)
                grouped == IF e.value = NULL THEN known ELSE CreateGroupRow(known, e.value)
            IN  SetMembership(grouped, e.key, e.value)
      [] e.entity = "feed_refresh_settings" ->
            [UpsertFeed(t, e.key) EXCEPT !.settings[e.key] = e.value]
      [] e.entity = "group_refresh_settings" ->
            [CreateGroupRow(t, e.key) EXCEPT !.perGroup[e.key] = e.value]
      [] e.entity = "item_state" ->
            IF t.read[e.key] = NULL THEN t ELSE [t EXCEPT !.read[e.key] = e.value]
      [] e.entity = "entry" -> [t EXCEPT !.notes[e.key] = e.value]

ClearSettings(t, e) ==
    IF e.entity = "feed_refresh_settings" THEN [t EXCEPT !.settings[e.key] = NULL]
    ELSE [t EXCEPT !.perGroup[e.key] = NULL]

\* Its branches for tombstones.  None is reached: no tombstone that is journaled
\* can be decoded.
ApplyTombstone(t, e) ==
    CASE e.entity = "feed" -> IF e.key \in t.feeds THEN DeleteFeedRow(t, e.key) ELSE t
      [] e.entity = "feed_group" -> IF e.key \in t.groups THEN DeleteGroupRow(t, e.key) ELSE t
      [] e.entity = "entry" -> [t EXCEPT !.notes[e.key] = NULL]
      [] OTHER -> ClearSettings(t, e)

\* Mutant: refresh settings that exist are kept.
ApplyIfAbsent(t, e) ==
    IF e.entity = "feed_refresh_settings" /\ t.settings[e.key] # NULL
    THEN t ELSE ApplyChange(t, e)

Apply(t, e) == IF e.type = "deleted" THEN ApplyTombstone(t, e) ELSE ApplyChange(t, e)

-----------------------------------------------------------------------------
\* created_at orders the events of all devices (bound: no two are equal).
Now == Cardinality(journal)

\* A write of the tables followed by append_sync_event.
Write(d, tables, entity, type, key, value) ==
    /\ d \in Writers
    /\ Now < MaxEvents
    /\ data' = [data EXCEPT ![d] = tables]
    /\ journal' = journal \cup
          {[entity |-> entity, type |-> type, key |-> key, value |-> value,
            at |-> Now + 1, origin |-> d]}
    /\ UNCHANGED processed

Subscribe(d, f) ==
    LET type == IF f \in data[d].feeds THEN "updated" ELSE "created"
    IN  Write(d, UpsertFeed(data[d], f), "feed", type, f, NULL)

\* A refresh that finds new content stores the article and upserts the feed.
Refresh(d, f) ==
    /\ f \in data[d].feeds
    /\ Write(d, [data[d] EXCEPT !.read[f] = IF @ = NULL THEN FALSE ELSE @],
             "feed", "updated", f, NULL)

DeleteFeed(d, f) ==
    /\ f \in data[d].feeds
    /\ Write(d, DeleteFeedRow(data[d], f), "feed", "deleted", f, NULL)

\* create_group returns the row that exists and journals nothing then.
CreateGroup(d, g) ==
    /\ g \notin data[d].groups
    /\ Write(d, CreateGroupRow(data[d], g), "feed_group", "created", g, NULL)

SetFeedGroup(d, f, g) ==
    /\ f \in data[d].feeds
    /\ g \in data[d].groups \cup {NULL}
    /\ Write(d, SetMembership(data[d], f, g), "feed_membership", "updated", f, g)

UpsertFeedSettings(d, f, v) ==
    /\ f \in data[d].feeds
    /\ Write(d, [data[d] EXCEPT !.settings[f] = v], "feed_refresh_settings", "updated", f, v)

DeleteFeedSettings(d, f) ==
    /\ data[d].settings[f] # NULL
    /\ Write(d, [data[d] EXCEPT !.settings[f] = NULL], "feed_refresh_settings", "deleted", f, NULL)

DeleteGroupSettings(d, g) ==
    /\ data[d].perGroup[g] # NULL
    /\ Write(d, [data[d] EXCEPT !.perGroup[g] = NULL], "group_refresh_settings", "deleted", g, NULL)

\* patch_item_state journals only a state that changed.
PatchState(d, f, r) ==
    /\ data[d].read[f] \in BOOLEAN \ {r}
    /\ Write(d, [data[d] EXCEPT !.read[f] = r], "item_state", "updated", f, r)

UpsertNote(d, n, v) ==
    LET type == IF data[d].notes[n] = NULL THEN "created" ELSE "updated"
    IN  Write(d, [data[d] EXCEPT !.notes[n] = v], "entry", type, n, v)

-----------------------------------------------------------------------------
\* These change the tables and leave no event.
WriteUnjournaled(d, tables) ==
    /\ Unjournaled
    /\ d \in Writers
    /\ data' = [data EXCEPT ![d] = tables]
    /\ UNCHANGED <<journal, processed>>

DeleteGroup(d, g) ==
    /\ g \in data[d].groups
    /\ WriteUnjournaled(d, DeleteGroupRow(data[d], g))

UpsertGroupSettings(d, g, v) ==
    /\ g \in data[d].groups
    /\ WriteUnjournaled(d, [data[d] EXCEPT !.perGroup[g] = v])

DeleteNote(d, n) ==
    /\ data[d].notes[n] # NULL
    /\ WriteUnjournaled(d, [data[d] EXCEPT !.notes[n] = NULL])

LocalWrite(d) ==
    \/ \E f \in Feeds : Subscribe(d, f) \/ Refresh(d, f) \/ DeleteFeed(d, f) \/ DeleteFeedSettings(d, f)
    \/ \E f \in Feeds, g \in Groups \cup {NULL} : SetFeedGroup(d, f, g)
    \/ \E f \in Feeds, v \in Values : UpsertFeedSettings(d, f, v)
    \/ \E f \in Feeds, r \in BOOLEAN : PatchState(d, f, r)
    \/ \E g \in Groups : CreateGroup(d, g) \/ DeleteGroup(d, g) \/ DeleteGroupSettings(d, g)
    \/ \E g \in Groups, v \in Values : UpsertGroupSettings(d, g, v)
    \/ \E n \in Notes, v \in Values : UpsertNote(d, n, v)
    \/ \E n \in Notes : DeleteNote(d, n)

-----------------------------------------------------------------------------
\* list_pending_sync_events: the oldest events without processed_at.
Pending(d) == {e \in journal \ processed : e.origin = d}

\* Mutant: off by one.
ListFewerPending(d, limit) ==
    {e \in Pending(d) : Cardinality({p \in Pending(d) : p.at <= e.at}) < limit}

ListPending(d, limit) ==
    {e \in Pending(d) : Cardinality({p \in Pending(d) : p.at < e.at}) < limit}

\* acknowledge_sync_events.
Acknowledge(events) == processed' = processed \cup events

=============================================================================
