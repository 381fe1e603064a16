------------------------------ MODULE EntryStore ------------------------------
(***************************************************************************)
(* The entries of storage: articles that refreshes store, notes that the   *)
(* user or another device writes, their content, search index, state flags *)
(* and source.  A call of storage is one step up to its next transaction   *)
(* or statement, so calls of several clients, each with its connection,    *)
(* and the kill of a client come in between.                               *)
(*                                                                         *)
(* The flags are the set of those that are on.  Subscriptions are what     *)
(* RefreshContent has; here each feed has had its row from the start, and  *)
(* a feed that is deleted does not come back: a new row gets a new id.     *)
(***************************************************************************)
EXTENDS FeedItems, FiniteSetsExt

CONSTANTS
    Clients,     \* connections to the database: server, app, background task
    Feeds,       \* ids of feed rows
    Documents,   \* what the feeds serve, at any time
    Notes,       \* ids of notes
    NoteUrl,     \* the URL of a bookmark; a note has none
    Texts,       \* what notes and full texts say
    Patches,     \* [on, off]: the flags a caller sets and clears
    OldItems,    \* rows of an old database: [id, feed, external, url, text, flags]
    NULL,
    MaxCalls,    \* bound: how many calls are begun
    MaxCrashes   \* bound: how many clients are killed

Flags == {"read", "starred", "later", "archived"}

Batches == {ParseFeed(d) : d \in {e \in Documents : Parses(e)}}
Parsed == UNION {{batch[n] : n \in DOMAIN batch} : batch \in Batches}
Articles == {i.id : i \in Parsed} \cup {o.id : o \in OldItems}
Ids == Articles \cup Notes
User == "user"
AllTexts == Texts \cup {i.text : i \in Parsed} \cup {o.text : o \in OldItems}

\* What a row of entries may be.
Entries ==
    [kind : {"article", "note"},
     url : {i.url : i \in Parsed} \cup {o.url : o \in OldItems} \cup {Absent, NoteUrl},
     external : {i.external : i \in Parsed} \cup {o.external : o \in OldItems} \cup {Absent},
     pub : {i.pub : i \in Parsed} \cup {o.id : o \in OldItems} \cup Notes]

\* Texts are not absent.  The items of a document have an order.  Notes have ids of
\* their own, and the id of an old item is the key of its table.
ASSUME EntryStoreAssumptions ==
    /\ MaxCalls \in Nat /\ MaxCrashes \in Nat
    /\ \A p \in Patches :
          p.on \subseteq Flags /\ p.off \subseteq Flags /\ p.on \cap p.off = {}
    /\ \A o \in OldItems : o.feed \in Feeds /\ o.flags \subseteq Flags
    /\ \A o, p \in OldItems : o.id = p.id => o = p
    /\ \A d \in Documents : Parses(d) =>
          d.root \in {"rss", "atom", "json"} /\ DOMAIN d.items = 1 .. Len(d.items)
    /\ Absent \notin Texts
    /\ User \notin Feeds
    /\ Notes \cap Articles = {}

ASSUME NullAssumption ==
    /\ NULL \notin Feeds /\ NULL # User /\ NULL \notin AllTexts /\ NULL # Absent
    /\ NULL \notin Entries /\ NULL # "note" /\ \A set \in SUBSET Flags : set # NULL

\* Of the feeds: a guid that is not blank, or without one a URL, stands for one
\* publication, whichever feeds carry it.  Of the old database: its ids were made as
\* the parser makes them.
ASSUME IdentityAssumption ==
    /\ \A i, j \in Parsed : i.id = j.id /\ i.external # Blank => i.pub = j.pub
    /\ \A o \in OldItems :
          o.id = FirstOf(o.external, FirstOf(o.url, o.id))

VARIABLES
    live,     \* the feeds that have a row
    entry,    \* entries: [kind, url, external, pub] of each id, or NULL
    source,   \* entry_sources: a feed, User, or NULL
    content,  \* entry_contents: the text, Absent, or NULL without a row
    index,    \* entry_search: the text found, Absent, or NULL without a row
    flags,    \* entry_states: the flags that are on, or NULL
    old,      \* the rows of items, item_contents and item_states
    tables,   \* whether the entry tables are there
    op,       \* the call of each client
    calls, crashes,
    \* of the properties only:
    wanted,   \* flags that the patches of an entry add up to
    told,     \* flags that its last event of its state carried
    toldText, \* text that the last event of a note carried
    raced,    \* entries whose state two calls had in hand at once, or that a refresh
              \* stored before their old state was migrated
    late,     \* articles stored while, or after, their feed was deleted
    twice,    \* articles that one migration added while another was under way
    carried,  \* items of every document stored for a feed
    cut       \* entries and feeds whose write, or deletion, was killed halfway

tableVars == <<entry, source, content, index, flags>>
placeVars == <<late, twice, carried, cut>>
ghostVars == <<wanted, told, toldText, raced, placeVars>>
vars == <<live, tableVars, old, tables, op, calls, crashes, ghostVars>>

Idle == [at |-> "idle"]

TypeOK ==
    /\ live \subseteq Feeds
    /\ entry \in [Ids -> Entries \cup {NULL}]
    /\ source \in [Ids -> Feeds \cup {User, NULL}]
    /\ content \in [Ids -> AllTexts \cup {Absent, NULL}]
    /\ index \in [Ids -> AllTexts \cup {Absent, NULL}]
    /\ flags \in [Ids -> (SUBSET Flags) \cup {NULL}]
    /\ \A i \in Ids : entry[i] = NULL =>
          source[i] = NULL /\ content[i] = NULL /\ index[i] = NULL /\ flags[i] = NULL
    /\ old \subseteq OldItems
    /\ tables \in BOOLEAN
    /\ DOMAIN op = Clients
    /\ \A c \in Clients : op[c].at \in
          {"idle", "items", "patch", "state", "page", "text", "row",
           "entries", "contents", "states", "sources", "index"}
    /\ calls \in 0 .. MaxCalls /\ crashes \in 0 .. MaxCrashes

None == [i \in Ids |-> NULL]

Init ==
    /\ live = Feeds
    /\ entry = None /\ source = None /\ content = None /\ index = None /\ flags = None
    /\ old \in {{}, OldItems}
    /\ tables = (old = {})
    /\ op = [c \in Clients |-> Idle]
    /\ calls = 0 /\ crashes = 0
    /\ wanted = [i \in Ids |-> {}] /\ told = wanted /\ toldText = None
    /\ raced = {} /\ late = {} /\ twice = {} /\ cut = {}
    /\ carried = [f \in Feeds |-> {}]

-----------------------------------------------------------------------------
\* A call of an idle client.
Call(c) ==
    /\ op[c] = Idle
    /\ tables
    /\ calls < MaxCalls
    /\ calls' = calls + 1

Go(c, step) == op' = [op EXCEPT ![c] = step]

Return(c) == Go(c, Idle)

\* Whether a client has the state or the text of an entry in hand.
Held(i) == \E c \in Clients : op[c].at \in {"patch", "state", "text"} /\ op[c].id = i

Deleting(f) == \E c \in Clients : op[c].at = "row" /\ op[c].feed = f

Mark(i) == raced' = IF Held(i) THEN raced \cup {i} ELSE raced

\* is_syncable_user_entry: anything but an article of a feed.  An entry without a
\* source is an error, which has the same effect.
IsSyncable(i) == entry[i] # NULL /\ entry[i].kind # "article" /\ source[i] # NULL

-----------------------------------------------------------------------------
\* The flags that an entry whose state row is made should have.
OldFlags(i) == UNION {o.flags : o \in {p \in old : p.id = i}}
Expect(ids) ==
    /\ wanted' = [i \in Ids |-> IF i \in ids THEN OldFlags(i) ELSE wanted[i]]
    /\ told' = [i \in Ids |-> IF i \in ids THEN OldFlags(i) ELSE told[i]]

\* upsert_entries: rows of the ids in new, which gives the entry and the text of each,
\* are replaced, and the state is left as it is if there is one.
UpsertEntries(new, from) ==
    /\ entry' = [i \in Ids |-> IF i \in DOMAIN new THEN new[i].row ELSE entry[i]]
    /\ source' = [i \in Ids |-> IF i \in DOMAIN new THEN from ELSE source[i]]
    /\ content' = [i \in Ids |-> IF i \in DOMAIN new THEN new[i].text ELSE content[i]]
    /\ index' = [i \in Ids |-> IF i \in DOMAIN new THEN new[i].text ELSE index[i]]
    /\ flags' = [i \in Ids |->
          IF i \in DOMAIN new /\ flags[i] = NULL THEN {} ELSE flags[i]]
    /\ Expect({i \in DOMAIN new : flags[i] = NULL})

\* Mutant: the index gets what is given.
IndexTheText(i, text) ==
    /\ content' = [content EXCEPT ![i] = IF text # Absent \/ @ = NULL THEN text ELSE @]
    /\ index' = [index EXCEPT ![i] = text]

\* upsert_item_content: a text that is not given keeps the one there is, in the index too.
UpsertItemContent(i, text) ==
    LET kept == IF text # Absent \/ content[i] = NULL THEN text ELSE content[i]
    IN  /\ content' = [content EXCEPT ![i] = kept]
        /\ index' = [index EXCEPT ![i] = kept]

BeginRefresh(c, f, d) ==
    /\ Call(c)
    /\ f \in live /\ Parses(d)
    /\ Go(c, [at |-> "items", feed |-> f, items |-> ParseFeed(d)])
    /\ UNCHANGED <<live, tableVars, old, tables, crashes, ghostVars>>

\* Of two items with one id the last is stored.
ItemRows(items) ==
    [i \in {items[n].id : n \in DOMAIN items} |->
        LET item == items[Max({n \in DOMAIN items : items[n].id = i})]
        IN  [row |-> [kind |-> "article", url |-> item.url, external |-> item.external,
                      pub |-> item.pub],
             text |-> item.text]]

\* Whether the feed is still there is not looked at.
UpsertItems(c) ==
    /\ op[c].at = "items"
    /\ LET f == op[c].feed
           new == ItemRows(op[c].items)
       IN  /\ UpsertEntries(new, f)
           /\ late' = IF f \in live /\ ~Deleting(f)
                      THEN late \ DOMAIN new ELSE late \cup DOMAIN new
           /\ raced' = raced \cup
                 {o.id : o \in {p \in old : p.id \in DOMAIN new /\ flags[p.id] = NULL}}
           /\ carried' = [carried EXCEPT ![f] = @ \cup
                 {op[c].items[n] : n \in DOMAIN op[c].items}]
    /\ Return(c)
    /\ UNCHANGED <<live, old, tables, calls, crashes, toldText, twice, cut>>

Note(n, url, text) ==
    [i \in {n} |->
        [row |-> [kind |-> "note", url |-> url, external |-> Absent, pub |-> n],
         text |-> text]]

\* A new note or bookmark, or one whose id the caller gives.  The event comes after the
\* transaction.
CreateEntry(c, n, url, text) ==
    /\ Call(c)
    /\ UpsertEntries(Note(n, url, text), User)
    /\ Go(c, [at |-> "text", id |-> n, text |-> text])
    /\ Mark(n)
    /\ UNCHANGED <<live, old, tables, crashes, toldText, placeVars>>

\* The same from another device, which needs no telling.
ReplayEntry(c, n, url, text) ==
    /\ Call(c)
    /\ UpsertEntries(Note(n, url, text), User)
    /\ toldText' = [toldText EXCEPT ![n] = text]
    /\ Mark(n)
    /\ UNCHANGED <<live, old, tables, op, crashes, placeVars>>

\* The content of an entry that is not there violates a foreign key.
ReplayContent(c, n, text) ==
    /\ Call(c)
    /\ entry[n] # NULL
    /\ UpsertItemContent(n, text)
    /\ toldText' = [toldText EXCEPT ![n] = IF text = Absent THEN @ ELSE text]
    /\ Mark(n)
    /\ UNCHANGED <<live, entry, source, flags, old, tables, op, crashes, wanted, told,
                   placeVars>>

-----------------------------------------------------------------------------
Stored(i) == IF content[i] = NULL THEN Absent ELSE content[i]

\* get_item_detail: nothing for an entry that is not there or has no source.
GetItemDetail(i) ==
    IF entry[i] = NULL \/ source[i] = NULL THEN {}
    ELSE {[url |-> entry[i].url, text |-> Stored(i)]}

\* The detail of an entry is read, then its page is fetched.
FetchFulltext(c, i) ==
    /\ Call(c)
    /\ \E detail \in GetItemDetail(i) :
          /\ detail.url # Absent
          /\ Go(c, [at |-> "page", id |-> i, text |-> detail.text])
    /\ UNCHANGED <<live, tableVars, old, tables, crashes, ghostVars>>

StoreText(c, text) ==
    /\ LET i == op[c].id
       IN  IF entry[i] = NULL
           THEN Return(c) /\ UNCHANGED <<content, index, raced>>
           ELSE /\ UpsertItemContent(i, text)
                /\ IF IsSyncable(i)
                   THEN Go(c, [at |-> "text", id |-> i, text |-> text]) /\ Mark(i)
                   ELSE Return(c) /\ UNCHANGED raced
    /\ UNCHANGED <<live, entry, source, flags, old, tables, calls, crashes, wanted, told,
                   toldText, placeVars>>

\* What the page says is stored ...
StoreFulltext(c, text) ==
    /\ op[c].at = "page" /\ text \in Texts
    /\ StoreText(c, text)

\* ... or, on the server, the text read before, if that is Markdown.
StoreMarkdown(c) ==
    /\ op[c].at = "page" /\ op[c].text # Absent
    /\ StoreText(c, op[c].text)

FetchFails(c) ==
    /\ op[c].at \in {"items", "page"}
    /\ Return(c)
    /\ UNCHANGED <<live, tableVars, old, tables, calls, crashes, ghostVars>>

\* The event of an entry or of its content.
AppendText(c) ==
    /\ op[c].at = "text"
    /\ toldText' = [toldText EXCEPT ![op[c].id] = op[c].text]
    /\ Return(c)
    /\ UNCHANGED <<live, tableVars, old, tables, calls, crashes, wanted, told, raced, placeVars>>

-----------------------------------------------------------------------------
Patched(set, patch) == (set \cup patch.on) \ patch.off

\* get_item_state: nothing for an entry without a state.
GetItemState(i) == {flags[i]} \ {NULL}

\* patch_item_state reads the state and merges the patch; nothing is written if nothing
\* changes ...
PatchItemState(c, i, patch, quiet) ==
    /\ \E state \in GetItemState(i) :
          /\ Patched(state, patch) # state
          /\ Go(c, [at |-> "patch", id |-> i, flags |-> Patched(state, patch),
                    patch |-> patch, quiet |-> quiet])
    /\ Mark(i)
    /\ UNCHANGED <<live, tableVars, old, tables, crashes, wanted, told, toldText, placeVars>>

\* ... then writes every flag ...
UpdateState(c) ==
    /\ op[c].at = "patch"
    /\ LET i == op[c].id
       IN  IF flags[i] = NULL THEN UNCHANGED <<flags, wanted>>
           ELSE /\ flags' = [flags EXCEPT ![i] = op[c].flags]
                /\ wanted' = [wanted EXCEPT ![i] = Patched(@, op[c].patch)]
    /\ IF op[c].quiet
       THEN /\ Return(c)
            /\ told' = [told EXCEPT ![op[c].id] = op[c].flags]
       ELSE /\ Go(c, [at |-> "state", id |-> op[c].id, flags |-> op[c].flags])
            /\ UNCHANGED told
    /\ UNCHANGED <<live, entry, source, content, index, old, tables, calls, crashes, toldText,
                   raced, placeVars>>

\* Mutant: events are still suppressed.
AppendNothing(c) ==
    /\ op[c].at = "state"
    /\ Return(c)
    /\ UNCHANGED <<live, tableVars, old, tables, calls, crashes, ghostVars>>

\* ... and appends the event.
AppendState(c) ==
    /\ op[c].at = "state"
    /\ told' = [told EXCEPT ![op[c].id] = op[c].flags]
    /\ Return(c)
    /\ UNCHANGED <<live, tableVars, old, tables, calls, crashes, wanted, toldText, raced,
                   placeVars>>

Patch(c, i, patch) == Call(c) /\ PatchItemState(c, i, patch, FALSE)

\* The entry a state from another device is about: by id, else by URL, else by its
\* external id; any of several.
ResolveEntryId(item) ==
    LET byUrl == {i \in Ids : entry[i] # NULL /\ item.url # Absent /\ entry[i].url = item.url}
        byExternal == {i \in Ids : /\ entry[i] # NULL /\ item.external # Absent
                                   /\ entry[i].external = item.external}
    IN  IF entry[item.id] # NULL THEN {item.id}
        ELSE IF byUrl # {} THEN byUrl
        ELSE byExternal

\* All four flags of another device.  Those of an entry that is not there are skipped.
ReplayState(c, item, patch) ==
    /\ Call(c)
    /\ LET all == [on |-> patch.on, off |-> Flags \ patch.on]
       IN  \E i \in ResolveEntryId(item) : PatchItemState(c, i, all, TRUE)

-----------------------------------------------------------------------------
Without(table, ids) == [i \in Ids |-> IF i \in ids THEN NULL ELSE table[i]]

\* Mutants: starred articles are kept; the id of the feed is not compared.
Unstarred(f) == {i \in Ids : source[i] = f /\ "starred" \notin flags[i]}
FromFeeds(f) == {i \in Ids : source[i] \in Feeds}

EntriesOf(f) == {i \in Ids : source[i] = f}

\* delete_feed deletes the entries of the feed, with all their rows ...
DeleteEntries(c, f) ==
    /\ Call(c)
    /\ f \in live
    /\ LET ids == EntriesOf(f)
           missed == {o.id : o \in {p \in old : p.feed = f /\ entry[p.id] # NULL
                                                /\ source[p.id] = NULL}}
       IN  /\ entry' = Without(entry, ids) /\ source' = Without(source, ids)
           /\ content' = Without(content, ids) /\ index' = Without(index, ids)
           /\ flags' = Without(flags, ids)
           /\ raced' = raced \cup {i \in ids : Held(i)}
           /\ late' = (late \ ids) \cup missed
    /\ Go(c, [at |-> "row", feed |-> f])
    /\ UNCHANGED <<live, old, tables, crashes, wanted, told, toldText, twice, carried, cut>>

\* ... then its row, with its items of the old database.
DeleteRow(c) ==
    /\ op[c].at = "row"
    /\ live' = live \ {op[c].feed}
    /\ old' = {o \in old : o.feed # op[c].feed}
    /\ Return(c)
    /\ UNCHANGED <<tableVars, tables, calls, crashes, ghostVars>>

-----------------------------------------------------------------------------
\* migrate makes the tables that are missing, then fills each from the old ones by a
\* statement of its own, which adds the rows that are not there.
Migrate(c) ==
    /\ op[c] = Idle /\ calls < MaxCalls
    /\ calls' = calls + 1
    /\ old # {} \/ \E i \in Ids : entry[i] # NULL /\ index[i] = NULL
    /\ tables' = TRUE
    /\ Go(c, [at |-> "entries"])
    /\ UNCHANGED <<live, tableVars, old, crashes, ghostVars>>

\* Mutant: rows that are there are replaced.
AllRows(table) == old

Missing(table) == {o \in old : table[o.id] = NULL}
OldRow(i) == CHOOSE o \in old : o.id = i

Migrating(c) == op[c].at \in {"contents", "states", "sources", "index"}

MigrateEntries(c) ==
    /\ op[c].at = "entries"
    /\ entry' = [i \in Ids |->
          IF i \in {o.id : o \in Missing(entry)}
          THEN [kind |-> "article", url |-> OldRow(i).url,
                external |-> OldRow(i).external, pub |-> i]
          ELSE entry[i]]
    /\ late' = late \cup {o.id : o \in {p \in Missing(entry) : Deleting(p.feed)}}
    /\ twice' = IF \E d \in Clients \ {c} : Migrating(d)
                THEN twice \cup {o.id : o \in Missing(entry)} ELSE twice
    /\ Go(c, [at |-> "contents"])
    /\ UNCHANGED <<live, source, content, index, flags, old, tables, calls, crashes,
                   wanted, told, toldText, raced, carried, cut>>

\* Mutant: foreign keys are off.
NotEnforced(rows) == TRUE

\* A row without its entry violates a foreign key: nothing is added, and migrate stops.
Legal(rows) == \A o \in rows : entry[o.id] # NULL

Backfill(c, table, Value(_), next) ==
    LET rows == Missing(table)
    IN  /\ table' = [i \in Ids |-> IF Legal(rows) /\ i \in {o.id : o \in rows}
                                  THEN Value(OldRow(i)) ELSE table[i]]
        /\ Go(c, IF Legal(rows) THEN [at |-> next] ELSE Idle)

TextOf(o) == o.text
MigrateContents(c) ==
    /\ op[c].at = "contents"
    /\ Backfill(c, content, TextOf, "states")
    /\ UNCHANGED <<live, entry, source, index, flags, old, tables, calls, crashes, ghostVars>>

FlagsOf(o) == o.flags
MigrateStates(c) ==
    /\ op[c].at = "states"
    /\ Backfill(c, flags, FlagsOf, "sources")
    /\ Expect({i \in Ids : flags[i] = NULL /\ flags'[i] # NULL})
    /\ UNCHANGED <<live, entry, source, content, index, old, tables, calls, crashes,
                   toldText, raced, placeVars>>

FeedOf(o) == o.feed
MigrateSources(c) ==
    /\ op[c].at = "sources"
    /\ Backfill(c, source, FeedOf, "index")
    /\ UNCHANGED <<live, entry, content, index, flags, old, tables, calls, crashes, ghostVars>>

MigrateIndex(c) ==
    /\ op[c].at = "index"
    /\ index' = [i \in Ids |-> IF entry[i] # NULL /\ index[i] = NULL THEN Stored(i) ELSE index[i]]
    /\ Return(c)
    /\ UNCHANGED <<live, entry, source, content, flags, old, tables, calls, crashes, ghostVars>>

-----------------------------------------------------------------------------
Crash(c) ==
    /\ op[c] # Idle /\ crashes < MaxCrashes
    /\ crashes' = crashes + 1
    /\ cut' = CASE op[c].at \in {"state", "text"} -> cut \cup {op[c].id}
                [] op[c].at = "row" -> cut \cup {op[c].feed}
                [] OTHER -> cut
    /\ Return(c)
    /\ UNCHANGED <<live, tableVars, old, tables, calls, wanted, told, toldText,
                   raced, late, twice, carried>>

Refresh(c) == UpsertItems(c) \/ \E f \in Feeds, d \in Documents : BeginRefresh(c, f, d)

Write(c) ==
    \/ \E n \in Notes, text \in Texts, url \in {Absent, NoteUrl} :
          CreateEntry(c, n, url, text) \/ ReplayEntry(c, n, url, text)
    \/ \E n \in Notes, text \in Texts \cup {Absent} : ReplayContent(c, n, text)
    \/ \E i \in Ids : FetchFulltext(c, i)
    \/ \E text \in Texts : StoreFulltext(c, text)
    \/ StoreMarkdown(c) \/ FetchFails(c) \/ AppendText(c)

State(c) ==
    \/ \E i \in Ids, patch \in Patches : Patch(c, i, patch)
    \/ \E item \in Parsed, patch \in Patches : ReplayState(c, item, patch)
    \/ UpdateState(c) \/ AppendState(c)

Delete(c) == DeleteRow(c) \/ \E f \in Feeds : DeleteEntries(c, f)

Migration(c) ==
    \/ Migrate(c) \/ MigrateEntries(c) \/ MigrateContents(c) \/ MigrateStates(c)
    \/ MigrateSources(c) \/ MigrateIndex(c)

Next == \E c \in Clients :
    Refresh(c) \/ Write(c) \/ State(c) \/ Delete(c) \/ Migration(c) \/ Crash(c)

Spec == Init /\ [][Next]_vars

-----------------------------------------------------------------------------
(***************************************************************************)
(* What callers see                                                        *)
(***************************************************************************)
Has(i, flag) == flags[i] # NULL /\ flag \in flags[i]

\* The badges of the inbox: count_item_scopes.
ItemScopeCounts ==
    LET Count(P(_)) == Cardinality({i \in Ids : entry[i] # NULL /\ P(i)})
        All(i) == ~Has(i, "archived")
        Unread(i) == ~Has(i, "read") /\ ~Has(i, "archived")
        Starred(i) == Has(i, "starred") /\ ~Has(i, "archived")
        Later(i) == Has(i, "later") /\ ~Has(i, "archived")
        Notes_(i) == entry[i].kind = "note" /\ ~Has(i, "archived")
        Archive(i) == Has(i, "archived")
    IN  [all |-> Count(All), unread |-> Count(Unread), starred |-> Count(Starred),
         later |-> Count(Later), notes |-> Count(Notes_), archive |-> Count(Archive)]

\* Mutant: archived entries stay among the starred.
StarredAnyway(i, filter) ==
    \/ filter = "all" /\ ~Has(i, "archived")
    \/ filter = "unread" /\ ~Has(i, "read") /\ ~Has(i, "archived")
    \/ filter = "starred" /\ Has(i, "starred")
    \/ filter = "later" /\ Has(i, "later") /\ ~Has(i, "archived")
    \/ filter = "archive" /\ Has(i, "archived")

Matches(i, filter) ==
    \/ filter = "all" /\ ~Has(i, "archived")
    \/ filter = "unread" /\ ~Has(i, "read") /\ ~Has(i, "archived")
    \/ filter = "starred" /\ Has(i, "starred") /\ ~Has(i, "archived")
    \/ filter = "later" /\ Has(i, "later") /\ ~Has(i, "archived")
    \/ filter = "archive" /\ Has(i, "archived")

\* The entries query_items selects, without a limit: of one feed or all, by filter,
\* kind and search, each of which may be NULL.
QueryItems(feed, filter, kind, query) ==
    {i \in Ids :
        /\ entry[i] # NULL
        /\ feed = NULL \/ source[i] = feed
        /\ Matches(i, filter)
        /\ kind = NULL \/ entry[i].kind = kind
        /\ query = NULL \/ index[i] = query}

\* A row without a source cannot be read, and the list is an error.
Lists(rows) == \A i \in rows : source[i] # NULL

\* The list of a feed takes no filter.
ListItemsForFeed(feed, query) == QueryItems(feed, "all", NULL, query)

ListAllItems(filter, kind, query) == QueryItems(NULL, filter, kind, query)

\* The bridge's list of entries is either of them.
ListEntries(feed, filter, kind, query) ==
    IF feed # NULL THEN ListItemsForFeed(feed, query) ELSE ListAllItems(filter, kind, query)

-----------------------------------------------------------------------------
(***************************************************************************)
(* Properties                                                              *)
(***************************************************************************)
\* A search finds an entry by the text it shows, whichever of the writers wrote it last:
\* a refresh, the full text, another device, a migration killed between its statements.
\* Not so an article that is deleted and added again by another migration meanwhile.
IndexIsCurrent ==
    /\ \A i \in Ids : index[i] # NULL /\ i \notin twice => index[i] = Stored(i)
    /\ \A i \in Ids : entry[i] # NULL /\ index[i] = NULL => \E o \in OldItems : o.id = i

\* No flag that a caller set is lost, and none comes back, through refreshes,
\* migrations and other devices, but for calls that had the same entry in hand at once,
\* and for a refresh that comes before the states of an old database.
FlagsAreWanted ==
    \A i \in Ids : flags[i] # NULL /\ i \notin raced => flags[i] = wanted[i]

\* The last event of an entry's state, and of a note's text, carries what is stored, so
\* that other devices can agree: unless calls on the entry overlapped or one was
\* killed before its event.
PeersAreTold ==
    \A i \in Ids : ~Held(i) /\ i \notin raced \cup cut =>
        /\ flags[i] # NULL => told[i] = flags[i]
        /\ i \in Notes /\ entry[i] # NULL => toldText[i] = content[i]

\* What is left of a feed that is gone, which nothing lists by feed or deletes, came
\* from a refresh or a migration that overlapped the deletion.  An entry without a
\* source, for which every list is an error, is still to be migrated or came the same way.
OrphansAreLate ==
    \A i \in Ids : entry[i] # NULL /\ i \notin late =>
        \/ source[i] \in live \cup {User}
        \/ source[i] = NULL /\ \E o \in old : o.id = i

\* What a subscribed feed ever carried is in the store: an article leaves only with
\* another feed that carried it too and was deleted, or in a deletion that was cut.  An
\* item of an RSS feed with a blank guid has no entry of its own.
ArticlesLeaveWithTheirFeed ==
    \A f \in live \ cut : ~Deleting(f) =>
        \A item \in carried[f] :
            \/ entry[item.id] # NULL /\ entry[item.id].pub = item.pub
            \/ item.external = Blank
            \/ \E g \in Feeds \ {f} :
                  /\ g \notin live \/ g \in cut \/ Deleting(g)
                  /\ item.id \in {other.id : other \in carried[g]}

\* No two articles have one guid, or for want of a guid one URL, however often they are
\* edited and whichever feeds and old rows they came by.
NoDuplicateArticles ==
    \A i, j \in {k \in Ids : entry[k] # NULL /\ entry[k].kind = "article"} :
        entry[i].external = entry[j].external /\ i # j =>
            entry[i].external = Absent /\ (entry[i].url = Absent \/ entry[i].url # entry[j].url)

\* The badges count what the lists show, on every filter, and an archived entry is in
\* none but the archive.
ListsMatchCounts ==
    Lists(QueryItems(NULL, "all", NULL, NULL)) =>
        /\ \A scope \in {"all", "unread", "starred", "later", "archive"} :
              ItemScopeCounts[scope] = Cardinality(ListAllItems(scope, NULL, NULL))
        /\ ItemScopeCounts.notes = Cardinality(ListAllItems("all", "note", NULL))
        /\ \A f \in live : ListEntries(f, "all", NULL, NULL) \subseteq
              ListEntries(NULL, "all", NULL, NULL)

=============================================================================
