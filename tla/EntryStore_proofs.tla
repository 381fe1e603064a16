-------------------------- MODULE EntryStore_proofs ---------------------------
(***************************************************************************)
(* The invariants of the entry store, for any clients, feeds, documents,   *)
(* notes and old rows.                                                     *)
(***************************************************************************)
EXTENDS EntryStore, NaturalsInduction, WellFoundedInduction, TLAPS

(***************************************************************************)
(* Types: what each client has in hand, and the rest.                      *)
(***************************************************************************)
HandOK(call) ==
    /\ call.at \in {"idle", "items", "patch", "state", "page", "text", "row",
                    "entries", "contents", "states", "sources", "index"}
    /\ call.at = "idle" => call = Idle
    /\ call.at = "items" => call.feed \in Feeds /\ call.items \in Batches
    /\ call.at \in {"patch", "state"} => call.id \in Ids /\ call.flags \in SUBSET Flags
    /\ call.at = "patch" => call.quiet \in BOOLEAN /\ call.patch.on \subseteq Flags
    /\ call.at \in {"page", "text"} => call.id \in Ids /\ call.text \in AllTexts \cup {Absent}
    /\ call.at = "row" => call.feed \in Feeds

GhostsOK ==
    /\ wanted \in [Ids -> SUBSET Flags]
    /\ told \in [Ids -> SUBSET Flags]
    /\ toldText \in [Ids -> AllTexts \cup {Absent, NULL}]
    /\ carried \in [Feeds -> SUBSET Parsed]

TablesOK ==
    /\ entry \in [Ids -> Entries \cup {NULL}]
    /\ source \in [Ids -> Feeds \cup {User, NULL}]
    /\ content \in [Ids -> AllTexts \cup {Absent, NULL}]
    /\ index \in [Ids -> AllTexts \cup {Absent, NULL}]
    /\ flags \in [Ids -> (SUBSET Flags) \cup {NULL}]
    /\ \A i \in Ids : entry[i] = NULL =>
          source[i] = NULL /\ content[i] = NULL /\ index[i] = NULL /\ flags[i] = NULL

HandsOK ==
    /\ op = [c \in Clients |-> op[c]]
    /\ \A c \in Clients : HandOK(op[c])

BoundsOK ==
    /\ live \subseteq Feeds /\ old \subseteq OldItems /\ tables \in BOOLEAN
    /\ calls \in 0 .. MaxCalls /\ crashes \in 0 .. MaxCrashes

TypeInv == TablesOK /\ HandsOK /\ GhostsOK /\ BoundsOK

OldIds == {o.id : o \in old}

-----------------------------------------------------------------------------
(***************************************************************************)
(* What the parser gives                                                   *)
(***************************************************************************)
LEMMA MaxIsElement ==
    ASSUME NEW k \in Nat, NEW S \in SUBSET (1 .. k), S # {}
    PROVE  Max(S) \in S
<1> DEFINE T == {t \in Nat : \A y \in S : y <= t}
           R == OpToRel(<, Nat)
<1>1. T \subseteq Nat /\ k \in T
  OBVIOUS
<1>2. IsWellFoundedOn(R, Nat)
  BY NatLessThanWellFounded
<1>3. PICK t \in T : \A u \in T : ~(<<u, t>> \in R)
  <2> HIDE DEF T, R
  <2> QED
    BY <1>1, <1>2, WFMin
<1>4. \A u \in T : ~(u < t)
  BY <1>1, <1>3 DEF OpToRel
<1>5. t \in Nat /\ \A y \in S : y \in Nat /\ 1 <= y /\ y <= t
  OBVIOUS
<1>6. t - 1 \in Nat
  <2>1. PICK z \in S : TRUE
    OBVIOUS
  <2> QED
    BY <1>5, <2>1
<1>7. t - 1 \notin T
  BY <1>4, <1>5, <1>6
<1>8. PICK y \in S : ~(y <= t - 1)
  BY <1>6, <1>7
<1>9. y = t
  BY <1>5, <1>6, <1>8
<1>10. y \in S /\ \A z \in S : y >= z
  BY <1>5, <1>8, <1>9
<1> QED
  BY <1>10 DEF Max

\* The id of an item is its guid, else its URL.
LEMMA ItemIdentity ==
    ASSUME NEW batch \in Batches, NEW n \in DOMAIN batch
    PROVE  batch[n].id = FirstOf(batch[n].external, FirstOf(batch[n].url, batch[n].id))
<1>1. PICK d \in Documents : Parses(d) /\ batch = ParseFeed(d)
  BY DEF Batches
<1>2. d.root \in {"rss", "atom", "json"}
  BY <1>1, EntryStoreAssumptions
<1>3. \/ batch = [m \in DOMAIN d.items |-> Normalized(d.items[m].guid, d.items[m])]
      \/ batch = [m \in DOMAIN d.items |->
             Normalized(NonEmpty(d.items[m].guid), d.items[m])]
  BY <1>1, <1>2
     DEF ParseFeed, ParseRss, ParseAtom, ParseJsonFeed, MapItems, RssItem, AtomItem, JsonItem
<1> QED
  BY <1>3 DEF Normalized, ItemId, FirstOf

LEMMA BatchIsOrdered ==
    ASSUME NEW batch \in Batches
    PROVE  \E k \in Nat : DOMAIN batch = 1 .. k
<1>1. PICK d \in Documents : Parses(d) /\ batch = ParseFeed(d)
  BY DEF Batches
<1>2. d.root \in {"rss", "atom", "json"} /\ DOMAIN d.items = 1 .. Len(d.items)
  BY <1>1, EntryStoreAssumptions
<1>3. DOMAIN batch = DOMAIN d.items
  BY <1>1, <1>2
     DEF ParseFeed, ParseRss, ParseAtom, ParseJsonFeed, MapItems, RssItem, AtomItem, JsonItem
<1> QED
  BY <1>2, <1>3

LEMMA ItemFields ==
    ASSUME NEW item \in Parsed
    PROVE  /\ item.id \in Articles /\ item.id \in Ids
           /\ item.text \in AllTexts
           /\ [kind |-> "article", url |-> item.url, external |-> item.external,
               pub |-> item.pub] \in Entries
  BY DEF Articles, Ids, AllTexts, Entries

\* What is stored of a batch is, for each id, an item of the batch.
LEMMA RowsOfItems ==
    ASSUME NEW batch \in Batches
    PROVE  /\ DOMAIN ItemRows(batch) = {batch[n].id : n \in DOMAIN batch}
           /\ \A i \in DOMAIN ItemRows(batch) : \E n \in DOMAIN batch :
                 /\ batch[n] \in Parsed /\ batch[n].id = i
                 /\ ItemRows(batch)[i].row =
                       [kind |-> "article", url |-> batch[n].url,
                        external |-> batch[n].external, pub |-> batch[n].pub]
                 /\ ItemRows(batch)[i].text = batch[n].text
<1>1. DOMAIN ItemRows(batch) = {batch[n].id : n \in DOMAIN batch}
  BY DEF ItemRows
<1>2. ASSUME NEW i \in DOMAIN ItemRows(batch)
      PROVE  \E n \in DOMAIN batch :
                 /\ batch[n] \in Parsed /\ batch[n].id = i
                 /\ ItemRows(batch)[i].row =
                       [kind |-> "article", url |-> batch[n].url,
                        external |-> batch[n].external, pub |-> batch[n].pub]
                 /\ ItemRows(batch)[i].text = batch[n].text
  <2> DEFINE same == {n \in DOMAIN batch : batch[n].id = i}
  <2>1. same # {}
    BY <1>1
  <2>2. Max(same) \in same
    BY <2>1, BatchIsOrdered, MaxIsElement
  <2> DEFINE m == Max(same)
  <2>3. m \in DOMAIN batch /\ batch[m].id = i
    BY <2>2
  <2>4. ItemRows(batch)[i] =
            [row |-> [kind |-> "article", url |-> batch[m].url,
                      external |-> batch[m].external, pub |-> batch[m].pub],
             text |-> batch[m].text]
    BY <1>1, <1>2 DEF ItemRows
  <2> HIDE DEF m
  <2>5. batch[m] \in Parsed
    BY <2>3 DEF Parsed
  <2> QED
    BY <2>3, <2>4, <2>5
<1> QED
  BY <1>1, <1>2

LEMMA NullIsNothing ==
    /\ NULL \notin Feeds \cup {User} /\ NULL \notin AllTexts \cup {Absent}
    /\ NULL \notin Entries /\ NULL \notin SUBSET Flags
  BY NullAssumption

-----------------------------------------------------------------------------
(***************************************************************************)
(* Types                                                                   *)
(***************************************************************************)
LEMMA OldFlagsType ==
    ASSUME BoundsOK, NEW i
    PROVE  OldFlags(i) \in SUBSET Flags
  BY EntryStoreAssumptions DEF BoundsOK, OldFlags

LEMMA OldRowType ==
    ASSUME BoundsOK, NEW i \in OldIds
    PROVE  /\ OldRow(i) \in old /\ OldRow(i).id = i
           /\ OldRow(i) \in OldItems /\ OldRow(i).feed \in Feeds
           /\ OldRow(i).flags \in SUBSET Flags /\ OldRow(i).text \in AllTexts
           /\ i \in Ids
           /\ [kind |-> "article", url |-> OldRow(i).url, external |-> OldRow(i).external,
               pub |-> i] \in Entries
<1>1. OldRow(i) \in old /\ OldRow(i).id = i
  BY DEF OldRow, OldIds
<1>2. OldRow(i) \in OldItems
  BY <1>1 DEF BoundsOK
<1> QED
  BY <1>1, <1>2, EntryStoreAssumptions DEF AllTexts, Ids, Articles, Entries

LEMMA HandsStep ==
    ASSUME HandsOK, NEW c \in Clients, NEW step, HandOK(step), Go(c, step)
    PROVE  HandsOK'
<1>1. op' = [d \in Clients |-> IF d = c THEN step ELSE op[d]]
  BY DEF HandsOK, Go
<1>2. op' = [d \in Clients |-> op'[d]]
  BY <1>1
<1>3. ASSUME NEW d \in Clients
      PROVE  HandOK(op'[d])
  BY <1>1 DEF HandsOK
<1> QED
  BY <1>2, <1>3 DEF HandsOK, HandOK

LEMMA HandsReturn ==
    ASSUME HandsOK, NEW c \in Clients, Return(c)
    PROVE  HandsOK'
<1>1. HandOK(Idle)
  BY DEF HandOK, Idle
<1> QED
  BY <1>1, HandsStep DEF Return

LEMMA UpsertType ==
    ASSUME TablesOK, GhostsOK, BoundsOK,
           NEW new, DOMAIN new \subseteq Ids,
           \A i \in DOMAIN new : new[i].row \in Entries /\ new[i].text \in AllTexts \cup {Absent},
           NEW from \in Feeds \cup {User},
           UpsertEntries(new, from)
    PROVE  TablesOK' /\ wanted' \in [Ids -> SUBSET Flags] /\ told' \in [Ids -> SUBSET Flags]
<1>1. entry' \in [Ids -> Entries \cup {NULL}]
  BY DEF UpsertEntries, TablesOK
<1>2. source' \in [Ids -> Feeds \cup {User, NULL}]
  BY DEF UpsertEntries, TablesOK
<1>3. content' \in [Ids -> AllTexts \cup {Absent, NULL}]
  BY DEF UpsertEntries, TablesOK
<1>4. index' \in [Ids -> AllTexts \cup {Absent, NULL}]
  BY DEF UpsertEntries, TablesOK
<1>5. flags' \in [Ids -> (SUBSET Flags) \cup {NULL}]
  BY DEF UpsertEntries, TablesOK
<1>6. ASSUME NEW i \in Ids, entry'[i] = NULL
      PROVE  source'[i] = NULL /\ content'[i] = NULL /\ index'[i] = NULL /\ flags'[i] = NULL
  <2>1. i \notin DOMAIN new
    BY <1>6, NullIsNothing DEF UpsertEntries
  <2>2. /\ entry'[i] = entry[i] /\ source'[i] = source[i] /\ content'[i] = content[i]
        /\ index'[i] = index[i] /\ flags'[i] = flags[i]
    BY <2>1 DEF UpsertEntries
  <2> QED
    BY <1>6, <2>2 DEF TablesOK
<1>7. wanted' \in [Ids -> SUBSET Flags] /\ told' \in [Ids -> SUBSET Flags]
  BY OldFlagsType DEF UpsertEntries, Expect, GhostsOK
<1> QED
  BY <1>1, <1>2, <1>3, <1>4, <1>5, <1>6, <1>7 DEF TablesOK

LEMMA ContentType ==
    ASSUME TablesOK, NEW i \in Ids, entry[i] # NULL, NEW text \in AllTexts \cup {Absent},
           UpsertItemContent(i, text), UNCHANGED <<entry, source, flags>>
    PROVE  TablesOK'
<1> DEFINE kept == IF text # Absent \/ content[i] = NULL THEN text ELSE content[i]
<1>1. kept \in AllTexts \cup {Absent, NULL}
  BY DEF TablesOK
<1>2. content' = [content EXCEPT ![i] = kept] /\ index' = [index EXCEPT ![i] = kept]
  BY DEF UpsertItemContent
<1> HIDE DEF kept
<1>3. /\ content' \in [Ids -> AllTexts \cup {Absent, NULL}]
      /\ index' \in [Ids -> AllTexts \cup {Absent, NULL}]
  BY <1>1, <1>2 DEF TablesOK
<1>4. ASSUME NEW j \in Ids, entry'[j] = NULL
      PROVE  content'[j] = NULL /\ index'[j] = NULL
  <2>1. j # i /\ entry[j] = NULL
    BY <1>4
  <2>2. content'[j] = content[j] /\ index'[j] = index[j]
    BY <1>2, <2>1 DEF TablesOK
  <2> QED
    BY <2>1, <2>2 DEF TablesOK
<1> QED
  BY <1>3, <1>4 DEF TablesOK

LEMMA WithoutType ==
    ASSUME TablesOK, NEW ids,
           entry' = Without(entry, ids), source' = Without(source, ids),
           content' = Without(content, ids), index' = Without(index, ids),
           flags' = Without(flags, ids)
    PROVE  TablesOK'
<1>1. /\ entry' \in [Ids -> Entries \cup {NULL}]
      /\ source' \in [Ids -> Feeds \cup {User, NULL}]
  BY DEF Without, TablesOK
<1>2. /\ content' \in [Ids -> AllTexts \cup {Absent, NULL}]
      /\ index' \in [Ids -> AllTexts \cup {Absent, NULL}]
  BY DEF Without, TablesOK
<1>3. flags' \in [Ids -> (SUBSET Flags) \cup {NULL}]
  BY DEF Without, TablesOK
<1>4. ASSUME NEW i \in Ids, entry'[i] = NULL
      PROVE  source'[i] = NULL /\ content'[i] = NULL /\ index'[i] = NULL /\ flags'[i] = NULL
  BY <1>4 DEF Without, TablesOK
<1> QED
  BY <1>1, <1>2, <1>3, <1>4 DEF TablesOK

LEMMA StoredType ==
    ASSUME TablesOK, NEW i \in Ids
    PROVE  Stored(i) \in AllTexts \cup {Absent}
  BY DEF TablesOK, Stored

LEMMA PatchedType ==
    ASSUME NEW set \in SUBSET Flags, NEW patch, patch.on \subseteq Flags
    PROVE  Patched(set, patch) \in SUBSET Flags
  BY DEF Patched

LEMMA RefreshType ==
    ASSUME TypeInv, NEW c \in Clients, Refresh(c)
    PROVE  TypeInv'
<1>1. ASSUME NEW f \in Feeds, NEW d \in Documents, BeginRefresh(c, f, d)
      PROVE  TypeInv'
  <2>1. ParseFeed(d) \in Batches
    BY <1>1 DEF BeginRefresh, Batches
  <2>2. HandOK([at |-> "items", feed |-> f, items |-> ParseFeed(d)])
    BY <2>1 DEF HandOK
  <2>3. HandsOK'
    BY <1>1, <2>2, HandsStep DEF BeginRefresh, TypeInv
  <2>4. calls' \in 0 .. MaxCalls
    BY <1>1, EntryStoreAssumptions DEF BeginRefresh, Call, TypeInv, BoundsOK
  <2> QED
    BY <1>1, <2>3, <2>4
       DEF BeginRefresh, TypeInv, TablesOK, BoundsOK, GhostsOK, tableVars, ghostVars, placeVars
<1>2. ASSUME UpsertItems(c)
      PROVE  TypeInv'
  <2> DEFINE batch == op[c].items
             f == op[c].feed
             new == ItemRows(batch)
  <2>1. f \in Feeds /\ batch \in Batches
    BY <1>2 DEF UpsertItems, TypeInv, HandsOK, HandOK
  <2>2. UpsertEntries(new, f) /\ Return(c)
    BY <1>2 DEF UpsertItems
  <2>3. carried' = [carried EXCEPT ![f] = @ \cup {batch[n] : n \in DOMAIN batch}]
    BY <1>2 DEF UpsertItems
  <2>4. UNCHANGED <<live, old, tables, calls, crashes, toldText>>
    BY <1>2 DEF UpsertItems
  <2> HIDE DEF f, batch
  <2>5. ASSUME NEW i \in DOMAIN new
        PROVE  i \in Ids /\ new[i].row \in Entries /\ new[i].text \in AllTexts \cup {Absent}
    <3>1. PICK n \in DOMAIN batch :
             /\ batch[n] \in Parsed /\ batch[n].id = i
             /\ new[i].row =
                   [kind |-> "article", url |-> batch[n].url,
                    external |-> batch[n].external, pub |-> batch[n].pub]
             /\ new[i].text = batch[n].text
      BY <2>1, RowsOfItems
    <3> QED
      BY <3>1, ItemFields
  <2>6. {batch[n] : n \in DOMAIN batch} \subseteq Parsed
    BY <2>1 DEF Parsed
  <2> HIDE DEF new
  <2>7. TablesOK' /\ wanted' \in [Ids -> SUBSET Flags] /\ told' \in [Ids -> SUBSET Flags]
    BY <2>1, <2>2, <2>5, UpsertType DEF TypeInv
  <2>8. carried' \in [Feeds -> SUBSET Parsed]
    BY <2>1, <2>3, <2>6 DEF TypeInv, GhostsOK
  <2> QED
    BY <2>2, <2>4, <2>7, <2>8, HandsReturn DEF TypeInv, BoundsOK, GhostsOK
<1> QED
  BY <1>1, <1>2 DEF Refresh

LEMMA NoteRow ==
    ASSUME NEW n \in Notes, NEW url \in {Absent, NoteUrl}, NEW text \in Texts
    PROVE  /\ DOMAIN Note(n, url, text) = {n} /\ n \in Ids
           /\ Note(n, url, text)[n].row =
                 [kind |-> "note", url |-> url, external |-> Absent, pub |-> n]
           /\ Note(n, url, text)[n].row \in Entries
           /\ Note(n, url, text)[n].text = text /\ text \in AllTexts
  BY DEF Note, Ids, Entries, AllTexts

LEMMA UpsertNoteType ==
    ASSUME TypeInv, NEW n \in Notes, NEW url \in {Absent, NoteUrl}, NEW text \in Texts,
           UpsertEntries(Note(n, url, text), User)
    PROVE  TablesOK' /\ wanted' \in [Ids -> SUBSET Flags] /\ told' \in [Ids -> SUBSET Flags]
<1> DEFINE new == Note(n, url, text)
<1>1. /\ DOMAIN new = {n}
      /\ new[n].row \in Entries /\ new[n].text \in AllTexts /\ n \in Ids
  BY DEF Note, Ids, Entries, AllTexts
<1>2. UpsertEntries(new, User)
  OBVIOUS
<1> HIDE DEF new
<1> QED
  BY <1>1, <1>2, UpsertType DEF TypeInv

LEMMA StoreTextType ==
    ASSUME TypeInv, NEW c \in Clients, op[c].at = "page",
           NEW text \in AllTexts \cup {Absent}, StoreText(c, text)
    PROVE  TypeInv'
<1> DEFINE i == op[c].id
<1>1. i \in Ids
  BY DEF TypeInv, HandsOK, HandOK
<1>2. UNCHANGED <<live, entry, source, flags, old, tables, calls, crashes, wanted, told,
                  toldText, carried>>
  BY DEF StoreText, placeVars
<1>3. \/ Return(c) /\ UNCHANGED <<content, index>>
      \/ /\ entry[i] # NULL /\ UpsertItemContent(i, text)
         /\ Return(c) \/ Go(c, [at |-> "text", id |-> i, text |-> text])
  BY DEF StoreText
<1> HIDE DEF i
<1>4. HandOK([at |-> "text", id |-> i, text |-> text])
  BY <1>1 DEF HandOK
<1>5. HandsOK'
  BY <1>3, <1>4, HandsReturn, HandsStep DEF TypeInv
<1>6. TablesOK'
  <2>1. CASE UNCHANGED <<content, index>>
    BY <1>2, <2>1 DEF TypeInv, TablesOK
  <2>2. CASE entry[i] # NULL /\ UpsertItemContent(i, text)
    BY <1>1, <1>2, <2>2, ContentType DEF TypeInv
  <2> QED
    BY <1>3, <2>1, <2>2
<1> QED
  BY <1>2, <1>5, <1>6 DEF TypeInv, BoundsOK, GhostsOK

LEMMA WriteType ==
    ASSUME TypeInv, NEW c \in Clients, Write(c)
    PROVE  TypeInv'
<1>1. ASSUME NEW n \in Notes, NEW text \in Texts, NEW url \in {Absent, NoteUrl},
             CreateEntry(c, n, url, text)
      PROVE  TypeInv'
  <2>1. HandOK([at |-> "text", id |-> n, text |-> text])
    BY NoteRow DEF HandOK
  <2>2. HandsOK'
    BY <1>1, <2>1, HandsStep DEF CreateEntry, TypeInv
  <2>3. TablesOK' /\ wanted' \in [Ids -> SUBSET Flags] /\ told' \in [Ids -> SUBSET Flags]
    BY <1>1, UpsertNoteType DEF CreateEntry
  <2>4. calls' \in 0 .. MaxCalls
    BY <1>1, EntryStoreAssumptions DEF CreateEntry, Call, TypeInv, BoundsOK
  <2> QED
    BY <1>1, <2>2, <2>3, <2>4 DEF CreateEntry, placeVars, TypeInv, BoundsOK, GhostsOK
<1>2. ASSUME NEW n \in Notes, NEW text \in Texts, NEW url \in {Absent, NoteUrl},
             ReplayEntry(c, n, url, text)
      PROVE  TypeInv'
  <2>1. TablesOK' /\ wanted' \in [Ids -> SUBSET Flags] /\ told' \in [Ids -> SUBSET Flags]
    BY <1>2, UpsertNoteType DEF ReplayEntry
  <2>2. calls' \in 0 .. MaxCalls
    BY <1>2, EntryStoreAssumptions DEF ReplayEntry, Call, TypeInv, BoundsOK
  <2>3. toldText' \in [Ids -> AllTexts \cup {Absent, NULL}]
    BY <1>2, NoteRow DEF ReplayEntry, TypeInv, GhostsOK
  <2> QED
    BY <1>2, <2>1, <2>2, <2>3
       DEF ReplayEntry, placeVars, TypeInv, BoundsOK, GhostsOK, HandsOK
<1>3. ASSUME NEW n \in Notes, NEW text \in Texts \cup {Absent}, ReplayContent(c, n, text)
      PROVE  TypeInv'
  <2>1. n \in Ids /\ text \in AllTexts \cup {Absent}
    BY DEF Ids, AllTexts
  <2>2. TablesOK'
    BY <1>3, <2>1, ContentType DEF ReplayContent, TypeInv
  <2>3. calls' \in 0 .. MaxCalls
    BY <1>3, EntryStoreAssumptions DEF ReplayContent, Call, TypeInv, BoundsOK
  <2>4. toldText' \in [Ids -> AllTexts \cup {Absent, NULL}]
    BY <1>3, <2>1 DEF ReplayContent, TypeInv, GhostsOK
  <2> QED
    BY <1>3, <2>2, <2>3, <2>4
       DEF ReplayContent, placeVars, TypeInv, BoundsOK, GhostsOK, HandsOK
<1>4. ASSUME NEW i \in Ids, FetchFulltext(c, i)
      PROVE  TypeInv'
  <2>1. Go(c, [at |-> "page", id |-> i, text |-> Stored(i)])
    BY <1>4 DEF FetchFulltext, GetItemDetail
  <2>2. HandOK([at |-> "page", id |-> i, text |-> Stored(i)])
    BY StoredType DEF HandOK, TypeInv
  <2>3. HandsOK'
    BY <2>1, <2>2, HandsStep DEF TypeInv
  <2>4. calls' \in 0 .. MaxCalls
    BY <1>4, EntryStoreAssumptions DEF FetchFulltext, Call, TypeInv, BoundsOK
  <2> QED
    BY <1>4, <2>3, <2>4
       DEF FetchFulltext, TypeInv, TablesOK, BoundsOK, GhostsOK, tableVars, ghostVars, placeVars
<1>5. ASSUME NEW text \in Texts, StoreFulltext(c, text)
      PROVE  TypeInv'
  BY <1>5, StoreTextType DEF StoreFulltext, AllTexts
<1>6. ASSUME StoreMarkdown(c)
      PROVE  TypeInv'
  <2>1. op[c].text \in AllTexts \cup {Absent}
    BY <1>6 DEF StoreMarkdown, TypeInv, HandsOK, HandOK
  <2> QED
    BY <1>6, <2>1, StoreTextType DEF StoreMarkdown
<1>7. ASSUME FetchFails(c)
      PROVE  TypeInv'
  BY <1>7, HandsReturn
     DEF FetchFails, TypeInv, TablesOK, BoundsOK, GhostsOK, tableVars, ghostVars, placeVars
<1>8. ASSUME AppendText(c)
      PROVE  TypeInv'
  <2>1. op[c].id \in Ids /\ op[c].text \in AllTexts \cup {Absent}
    BY <1>8 DEF AppendText, TypeInv, HandsOK, HandOK
  <2>2. toldText' \in [Ids -> AllTexts \cup {Absent, NULL}]
    BY <1>8, <2>1 DEF AppendText, TypeInv, GhostsOK
  <2> QED
    BY <1>8, <2>2, HandsReturn
       DEF AppendText, placeVars, TypeInv, TablesOK, BoundsOK, GhostsOK, tableVars
<1> QED
  BY <1>1, <1>2, <1>3, <1>4, <1>5, <1>6, <1>7, <1>8 DEF Write

LEMMA StateType ==
    ASSUME TypeInv, NEW c \in Clients, State(c)
    PROVE  TypeInv'
<1>1. ASSUME NEW i \in Ids, NEW patch, patch.on \subseteq Flags, NEW quiet \in BOOLEAN,
             Call(c), PatchItemState(c, i, patch, quiet)
      PROVE  TypeInv'
  <2>1. PICK state \in GetItemState(i) :
           Go(c, [at |-> "patch", id |-> i, flags |-> Patched(state, patch),
                  patch |-> patch, quiet |-> quiet])
    BY <1>1 DEF PatchItemState
  <2>2. Patched(state, patch) \in SUBSET Flags
    BY <1>1, PatchedType DEF GetItemState, TypeInv, TablesOK
  <2>3. HandOK([at |-> "patch", id |-> i, flags |-> Patched(state, patch),
                patch |-> patch, quiet |-> quiet])
    BY <1>1, <2>2 DEF HandOK
  <2>4. HandsOK'
    BY <2>1, <2>3, HandsStep DEF TypeInv
  <2>5. calls' \in 0 .. MaxCalls
    BY <1>1, EntryStoreAssumptions DEF Call, TypeInv, BoundsOK
  <2> QED
    BY <1>1, <2>4, <2>5
       DEF PatchItemState, TypeInv, TablesOK, BoundsOK, GhostsOK, tableVars, placeVars
<1>2. ASSUME NEW i \in Ids, NEW patch \in Patches, Patch(c, i, patch)
      PROVE  TypeInv'
  BY <1>1, <1>2, EntryStoreAssumptions DEF Patch
<1>3. ASSUME NEW item \in Parsed, NEW patch \in Patches, ReplayState(c, item, patch)
      PROVE  TypeInv'
  <2> DEFINE all == [on |-> patch.on, off |-> Flags \ patch.on]
  <2>1. PICK i \in ResolveEntryId(item) : PatchItemState(c, i, all, TRUE)
    BY <1>3 DEF ReplayState
  <2>2. i \in Ids
    BY <2>1, ItemFields DEF ResolveEntryId
  <2>3. all.on \subseteq Flags
    BY EntryStoreAssumptions
  <2> HIDE DEF all
  <2> QED
    BY <1>1, <1>3, <2>1, <2>2, <2>3 DEF ReplayState
<1>4. ASSUME UpdateState(c)
      PROVE  TypeInv'
  <2> DEFINE i == op[c].id
  <2>1. i \in Ids /\ op[c].flags \in SUBSET Flags /\ op[c].patch.on \subseteq Flags
    BY <1>4 DEF UpdateState, TypeInv, HandsOK, HandOK
  <2>2. /\ UNCHANGED <<live, entry, source, content, index, old, tables, calls, crashes,
                       toldText, carried>>
        /\ \/ UNCHANGED <<flags, wanted>>
           \/ /\ flags[i] # NULL
              /\ flags' = [flags EXCEPT ![i] = op[c].flags]
              /\ wanted' = [wanted EXCEPT ![i] = (@ \cup op[c].patch.on) \ op[c].patch.off]
        /\ \/ Return(c) /\ told' = [told EXCEPT ![i] = op[c].flags]
           \/ Go(c, [at |-> "state", id |-> i, flags |-> op[c].flags]) /\ UNCHANGED told
    BY <1>4 DEF UpdateState, placeVars, Patched
  <2>3. HandOK([at |-> "state", id |-> i, flags |-> op[c].flags])
    BY <2>1 DEF HandOK
  <2>4. HandsOK'
    BY <2>2, <2>3, HandsStep, HandsReturn DEF TypeInv
  <2> HIDE DEF i
  <2>5. told' \in [Ids -> SUBSET Flags]
    BY <2>1, <2>2 DEF TypeInv, GhostsOK
  <2>6. TablesOK'
    <3>1. CASE UNCHANGED flags
      BY <2>2, <3>1 DEF TypeInv, TablesOK
    <3>2. CASE flags[i] # NULL /\ flags' = [flags EXCEPT ![i] = op[c].flags]
      <4>1. flags' \in [Ids -> (SUBSET Flags) \cup {NULL}]
        BY <2>1, <3>2 DEF TypeInv, TablesOK
      <4>2. ASSUME NEW j \in Ids, entry[j] = NULL
            PROVE  flags'[j] = NULL
        BY <2>1, <3>2, <4>2 DEF TypeInv, TablesOK
      <4> QED
        BY <2>2, <4>1, <4>2 DEF TypeInv, TablesOK
    <3> QED
      BY <2>2, <3>1, <3>2
  <2>7. wanted' \in [Ids -> SUBSET Flags]
    BY <2>1, <2>2 DEF TypeInv, GhostsOK
  <2> QED
    BY <2>2, <2>4, <2>5, <2>6, <2>7 DEF TypeInv, BoundsOK, GhostsOK
<1>5. ASSUME AppendState(c)
      PROVE  TypeInv'
  <2>1. op[c].id \in Ids /\ op[c].flags \in SUBSET Flags
    BY <1>5 DEF AppendState, TypeInv, HandsOK, HandOK
  <2>2. told' \in [Ids -> SUBSET Flags]
    BY <1>5, <2>1 DEF AppendState, TypeInv, GhostsOK
  <2> QED
    BY <1>5, <2>2, HandsReturn
       DEF AppendState, placeVars, TypeInv, TablesOK, BoundsOK, GhostsOK, tableVars
<1> QED
  BY <1>2, <1>3, <1>4, <1>5 DEF State

LEMMA DeleteType ==
    ASSUME TypeInv, NEW c \in Clients, Delete(c)
    PROVE  TypeInv'
<1>1. ASSUME NEW f \in Feeds, DeleteEntries(c, f)
      PROVE  TypeInv'
  <2>1. HandOK([at |-> "row", feed |-> f])
    BY DEF HandOK
  <2>2. HandsOK'
    BY <1>1, <2>1, HandsStep DEF DeleteEntries, TypeInv
  <2>3. TablesOK'
    BY <1>1, WithoutType DEF DeleteEntries, TypeInv
  <2>4. calls' \in 0 .. MaxCalls
    BY <1>1, EntryStoreAssumptions DEF DeleteEntries, Call, TypeInv, BoundsOK
  <2> QED
    BY <1>1, <2>2, <2>3, <2>4 DEF DeleteEntries, TypeInv, BoundsOK, GhostsOK
<1>2. ASSUME DeleteRow(c)
      PROVE  TypeInv'
  BY <1>2, HandsReturn
     DEF DeleteRow, TypeInv, TablesOK, BoundsOK, GhostsOK, tableVars, ghostVars, placeVars
<1> QED
  BY <1>1, <1>2 DEF Delete

\* What a statement of the migration adds to a table, if it is legal.
LEMMA MissingRows ==
    ASSUME TypeInv, NEW table, NEW i \in {o.id : o \in Missing(table)}
    PROVE  /\ i \in OldIds /\ i \in Ids /\ table[i] = NULL
           /\ Legal(Missing(table)) => entry[i] # NULL
<1>1. PICK o \in Missing(table) : i = o.id
  OBVIOUS
<1>2. o \in old /\ o.id \in Ids /\ table[o.id] = NULL
  BY <1>1 DEF Missing, TypeInv, BoundsOK, Ids, Articles
<1> QED
  BY <1>1, <1>2 DEF OldIds, Legal

LEMMA MigrationType ==
    ASSUME TypeInv, NEW c \in Clients, Migration(c)
    PROVE  TypeInv'
<1>0. \A at \in {"entries", "contents", "states", "sources", "index"} :
         HandOK([at |-> at]) /\ HandOK(Idle)
  BY DEF HandOK, Idle
<1>1. CASE Migrate(c)
  <2>1. HandsOK'
    BY <1>0, <1>1, HandsStep DEF Migrate, TypeInv
  <2>2. calls' \in 0 .. MaxCalls
    BY <1>1, EntryStoreAssumptions DEF Migrate, TypeInv, BoundsOK
  <2> QED
    BY <1>1, <2>1, <2>2
       DEF Migrate, TypeInv, TablesOK, BoundsOK, GhostsOK, tableVars, ghostVars, placeVars
<1>2. CASE MigrateEntries(c)
  <2>1. HandsOK'
    BY <1>0, <1>2, HandsStep DEF MigrateEntries, TypeInv
  <2>2. entry' \in [Ids -> Entries \cup {NULL}]
    <3>1. ASSUME NEW i \in Ids
          PROVE  (IF i \in {o.id : o \in Missing(entry)}
                  THEN [kind |-> "article", url |-> OldRow(i).url,
                        external |-> OldRow(i).external, pub |-> i]
                  ELSE entry[i]) \in Entries \cup {NULL}
      BY MissingRows, OldRowType DEF TypeInv, TablesOK
    <3> QED
      BY <1>2, <3>1 DEF MigrateEntries
  <2>3. ASSUME NEW i \in Ids, entry'[i] = NULL
        PROVE  entry[i] = NULL
    BY <1>2, <2>3, NullIsNothing, MissingRows, OldRowType DEF MigrateEntries, TypeInv
  <2> QED
    BY <1>2, <2>1, <2>2, <2>3
       DEF MigrateEntries, TypeInv, TablesOK, BoundsOK, GhostsOK
<1>3. ASSUME NEW table, NEW next \in {"states", "sources", "index"},
             Go(c, IF Legal(Missing(table)) THEN [at |-> next] ELSE Idle)
      PROVE  HandsOK'
  BY <1>0, <1>3, HandsStep DEF TypeInv
<1>4. CASE MigrateContents(c)
  <2>1. /\ content' = [i \in Ids |->
              IF Legal(Missing(content)) /\ i \in {o.id : o \in Missing(content)}
              THEN OldRow(i).text ELSE content[i]]
        /\ Go(c, IF Legal(Missing(content)) THEN [at |-> "states"] ELSE Idle)
    BY <1>4 DEF MigrateContents, Backfill, TextOf
  <2>2. content' \in [Ids -> AllTexts \cup {Absent, NULL}]
    <3>1. ASSUME NEW i \in Ids
          PROVE  (IF Legal(Missing(content)) /\ i \in {o.id : o \in Missing(content)}
                  THEN OldRow(i).text ELSE content[i]) \in AllTexts \cup {Absent, NULL}
      BY MissingRows, OldRowType DEF TypeInv, TablesOK
    <3> QED
      BY <2>1, <3>1
  <2>3. ASSUME NEW i \in Ids, entry[i] = NULL
        PROVE  content'[i] = NULL
    BY <2>1, <2>3, MissingRows DEF TypeInv, TablesOK
  <2> QED
    BY <1>3, <1>4, <2>1, <2>2, <2>3
       DEF MigrateContents, TypeInv, TablesOK, BoundsOK, GhostsOK, ghostVars, placeVars
<1>5. CASE MigrateStates(c)
  <2>1. /\ flags' = [i \in Ids |->
              IF Legal(Missing(flags)) /\ i \in {o.id : o \in Missing(flags)}
              THEN OldRow(i).flags ELSE flags[i]]
        /\ Go(c, IF Legal(Missing(flags)) THEN [at |-> "sources"] ELSE Idle)
    BY <1>5 DEF MigrateStates, Backfill, FlagsOf
  <2>2. flags' \in [Ids -> (SUBSET Flags) \cup {NULL}]
    <3>1. ASSUME NEW i \in Ids
          PROVE  (IF Legal(Missing(flags)) /\ i \in {o.id : o \in Missing(flags)}
                  THEN OldRow(i).flags ELSE flags[i]) \in (SUBSET Flags) \cup {NULL}
      BY MissingRows, OldRowType DEF TypeInv, TablesOK
    <3> QED
      BY <2>1, <3>1
  <2>3. ASSUME NEW i \in Ids, entry[i] = NULL
        PROVE  flags'[i] = NULL
    BY <2>1, <2>3, MissingRows DEF TypeInv, TablesOK
  <2>4. wanted' \in [Ids -> SUBSET Flags] /\ told' \in [Ids -> SUBSET Flags]
    BY <1>5, OldFlagsType DEF MigrateStates, Expect, TypeInv, GhostsOK
  <2> QED
    BY <1>3, <1>5, <2>1, <2>2, <2>3, <2>4
       DEF MigrateStates, TypeInv, TablesOK, BoundsOK, GhostsOK, placeVars
<1>6. CASE MigrateSources(c)
  <2>1. /\ source' = [i \in Ids |->
              IF Legal(Missing(source)) /\ i \in {o.id : o \in Missing(source)}
              THEN OldRow(i).feed ELSE source[i]]
        /\ Go(c, IF Legal(Missing(source)) THEN [at |-> "index"] ELSE Idle)
    BY <1>6 DEF MigrateSources, Backfill, FeedOf
  <2>2. source' \in [Ids -> Feeds \cup {User, NULL}]
    <3>1. ASSUME NEW i \in Ids
          PROVE  (IF Legal(Missing(source)) /\ i \in {o.id : o \in Missing(source)}
                  THEN OldRow(i).feed ELSE source[i]) \in Feeds \cup {User, NULL}
      BY MissingRows, OldRowType DEF TypeInv, TablesOK
    <3> QED
      BY <2>1, <3>1
  <2>3. ASSUME NEW i \in Ids, entry[i] = NULL
        PROVE  source'[i] = NULL
    BY <2>1, <2>3, MissingRows DEF TypeInv, TablesOK
  <2> QED
    BY <1>3, <1>6, <2>1, <2>2, <2>3
       DEF MigrateSources, TypeInv, TablesOK, BoundsOK, GhostsOK, ghostVars, placeVars
<1>7. CASE MigrateIndex(c)
  <2>1. index' = [i \in Ids |->
            IF entry[i] # NULL /\ index[i] = NULL THEN Stored(i) ELSE index[i]]
    BY <1>7 DEF MigrateIndex
  <2>2. index' \in [Ids -> AllTexts \cup {Absent, NULL}]
    BY <2>1, StoredType DEF TypeInv, TablesOK
  <2>3. ASSUME NEW i \in Ids, entry[i] = NULL
        PROVE  index'[i] = NULL
    BY <2>1, <2>3 DEF TypeInv, TablesOK
  <2> QED
    BY <1>7, <2>2, <2>3, HandsReturn
       DEF MigrateIndex, TypeInv, TablesOK, BoundsOK, GhostsOK, ghostVars, placeVars
<1> QED
  BY <1>1, <1>2, <1>4, <1>5, <1>6, <1>7 DEF Migration

LEMMA NextTypeInv == TypeInv /\ [Next]_vars => TypeInv'
<1> SUFFICES ASSUME TypeInv, [Next]_vars
             PROVE  TypeInv'
  OBVIOUS
<1>1. CASE UNCHANGED vars
  BY <1>1
     DEF vars, tableVars, ghostVars, placeVars, TypeInv, TablesOK, HandsOK, GhostsOK, BoundsOK
<1>2. ASSUME NEW c \in Clients, Crash(c)
      PROVE  TypeInv'
  <2>1. crashes' \in 0 .. MaxCrashes
    BY <1>2, EntryStoreAssumptions DEF Crash, TypeInv, BoundsOK
  <2> QED
    BY <1>2, <2>1, HandsReturn DEF Crash, TypeInv, TablesOK, BoundsOK, GhostsOK, tableVars
<1> QED
  BY <1>1, <1>2, RefreshType, WriteType, StateType, DeleteType, MigrationType DEF Next

LEMMA InitTypeInv == Init => TypeInv
<1> SUFFICES ASSUME Init
             PROVE  TypeInv
  OBVIOUS
<1>1. TablesOK
  BY DEF Init, None, TablesOK
<1>2. HandsOK
  BY DEF Init, HandsOK, HandOK, Idle
<1>3. GhostsOK
  BY DEF Init, None, GhostsOK
<1>4. BoundsOK
  BY EntryStoreAssumptions DEF Init, BoundsOK
<1> QED
  BY <1>1, <1>2, <1>3, <1>4 DEF TypeInv

LEMMA TypeInvHolds == Spec => []TypeInv
  BY InitTypeInv, NextTypeInv, PTL DEF Spec

\* Every reachable state is well typed, and there is no source, text, index or state of an
\* entry that is not there, whatever comes between the statements of a deletion or a
\* migration.
THEOREM TypeCorrect == Spec => []TypeOK
<1>1. TypeInv => TypeOK
  <2> SUFFICES ASSUME TypeInv
               PROVE  TypeOK
    OBVIOUS
  <2>1. DOMAIN op = Clients
    BY DEF TypeInv, HandsOK
  <2>2. \A c \in Clients : op[c].at \in
           {"idle", "items", "patch", "state", "page", "text", "row",
            "entries", "contents", "states", "sources", "index"}
    BY DEF TypeInv, HandsOK, HandOK
  <2> QED
    BY <2>1, <2>2 DEF TypeInv, TablesOK, BoundsOK, TypeOK
<1> QED
  BY <1>1, TypeInvHolds, PTL

LEMMA HandAfter ==
    ASSUME HandsOK, NEW c \in Clients, NEW step, Go(c, step), NEW d \in Clients
    PROVE  op'[d] = IF d = c THEN step ELSE op[d]
  BY DEF HandsOK, Go

LEMMA HandAfterReturn ==
    ASSUME HandsOK, NEW c \in Clients, Return(c), NEW d \in Clients
    PROVE  op'[d] = IF d = c THEN Idle ELSE op[d]
  BY HandAfter DEF Return

-----------------------------------------------------------------------------
(***************************************************************************)
(* The search index                                                        *)
(***************************************************************************)
Copied == {"states", "sources", "index"}

\* IndexIsCurrent, with what the copying of texts by a migration needs: an old article
\* that is indexed has its text, unless two migrations added it, so no later statement
\* brings a text that the index does not know; past that statement all old articles have
\* theirs.
IndexInv ==
    /\ IndexIsCurrent
    /\ \A i \in Ids : index[i] # NULL /\ i \notin twice =>
          content[i] # NULL \/ i \notin OldIds
    /\ \A c \in Clients : op[c].at \in Copied =>
          \A i \in OldIds : entry[i] # NULL /\ i \notin twice => content[i] # NULL

NoMigrationBeyond == \A d \in Clients : op'[d].at \in Copied => op[d].at \in Copied

LEMMA NoneBeyondStep ==
    ASSUME HandsOK, NEW c \in Clients, NEW step, step.at \notin Copied, Go(c, step)
    PROVE  NoMigrationBeyond
  BY HandAfter DEF NoMigrationBeyond

LEMMA NoneBeyondReturn ==
    ASSUME HandsOK, NEW c \in Clients, Return(c)
    PROVE  NoMigrationBeyond
  BY HandAfterReturn DEF NoMigrationBeyond, Idle, Copied

LEMMA IndexFrame ==
    ASSUME TypeInv, IndexInv, NoMigrationBeyond,
           UNCHANGED <<entry, content, index, twice>>, old' \subseteq old
    PROVE  IndexInv'
<1>1. OldIds' \subseteq OldIds
  BY DEF OldIds
<1> QED
  BY <1>1 DEF IndexInv, IndexIsCurrent, Stored, NoMigrationBeyond

LEMMA UpsertKeepsIndex ==
    ASSUME TypeInv, IndexInv, NoMigrationBeyond, NEW new, NEW from,
           DOMAIN new \subseteq Ids, \A i \in DOMAIN new : new[i].text \in AllTexts \cup {Absent},
           UpsertEntries(new, from), UNCHANGED <<old, twice>>
    PROVE  IndexInv'
<1>1. ASSUME NEW i \in Ids
      PROVE  /\ i \in DOMAIN new =>
                   /\ content'[i] = new[i].text /\ index'[i] = new[i].text
                   /\ new[i].text # NULL
             /\ i \notin DOMAIN new =>
                   /\ entry'[i] = entry[i]
                   /\ content'[i] = content[i] /\ index'[i] = index[i]
  BY NullIsNothing DEF UpsertEntries
<1>2. OldIds' = OldIds /\ OldIds \subseteq Ids
  BY OldRowType DEF OldIds, TypeInv
<1> QED
  BY <1>1, <1>2 DEF IndexInv, IndexIsCurrent, Stored, NoMigrationBeyond

LEMMA ContentKeepsIndex ==
    ASSUME TypeInv, IndexInv, NoMigrationBeyond,
           NEW i \in Ids, NEW text \in AllTexts \cup {Absent},
           UpsertItemContent(i, text), UNCHANGED <<entry, old, twice>>
    PROVE  IndexInv'
<1> DEFINE kept == IF text # Absent \/ content[i] = NULL THEN text ELSE content[i]
<1>1. kept # NULL
  BY NullIsNothing
<1>2. content' = [content EXCEPT ![i] = kept] /\ index' = [index EXCEPT ![i] = kept]
  BY DEF UpsertItemContent
<1> HIDE DEF kept
<1>3. ASSUME NEW j \in Ids
      PROVE  /\ content'[j] = IF j = i THEN kept ELSE content[j]
             /\ index'[j] = IF j = i THEN kept ELSE index[j]
  BY <1>2 DEF TypeInv, TablesOK
<1>4. OldIds' = OldIds /\ OldIds \subseteq Ids
  BY OldRowType DEF OldIds, TypeInv
<1> QED
  BY <1>1, <1>3, <1>4 DEF IndexInv, IndexIsCurrent, Stored, NoMigrationBeyond

LEMMA NewRows ==
    ASSUME NEW batch \in Batches
    PROVE  /\ DOMAIN ItemRows(batch) \subseteq Articles
           /\ \A i \in DOMAIN ItemRows(batch) : ItemRows(batch)[i].text \in AllTexts \cup {Absent}
<1>1. ASSUME NEW i \in DOMAIN ItemRows(batch)
      PROVE  i \in Articles /\ ItemRows(batch)[i].text \in AllTexts \cup {Absent}
  <2>1. PICK n \in DOMAIN batch :
           batch[n] \in Parsed /\ batch[n].id = i /\ ItemRows(batch)[i].text = batch[n].text
    BY RowsOfItems
  <2> QED
    BY <2>1, ItemFields
<1> QED
  BY <1>1

LEMMA RefreshKeepsIndex ==
    ASSUME TypeInv, IndexInv, NEW c \in Clients, Refresh(c)
    PROVE  IndexInv'
<1>1. ASSUME NEW f \in Feeds, NEW d \in Documents, BeginRefresh(c, f, d)
      PROVE  IndexInv'
  <2>1. NoMigrationBeyond
    BY <1>1, NoneBeyondStep DEF BeginRefresh, Copied, TypeInv
  <2> QED
    BY <1>1, <2>1, IndexFrame DEF BeginRefresh, tableVars, ghostVars, placeVars
<1>2. ASSUME UpsertItems(c)
      PROVE  IndexInv'
  <2> DEFINE new == ItemRows(op[c].items)
  <2>1. op[c].items \in Batches
    BY <1>2 DEF UpsertItems, TypeInv, HandsOK, HandOK
  <2>2. DOMAIN new \subseteq Ids /\ \A i \in DOMAIN new : new[i].text \in AllTexts \cup {Absent}
    BY <2>1, NewRows DEF Ids
  <2>3. UpsertEntries(new, op[c].feed) /\ UNCHANGED <<old, twice>>
    BY <1>2 DEF UpsertItems
  <2>4. NoMigrationBeyond
    BY <1>2, NoneBeyondReturn DEF UpsertItems, TypeInv
  <2> HIDE DEF new
  <2> QED
    BY <2>2, <2>3, <2>4, UpsertKeepsIndex
<1> QED
  BY <1>1, <1>2 DEF Refresh

LEMMA NoteKeepsIndex ==
    ASSUME TypeInv, IndexInv, NoMigrationBeyond,
           NEW n \in Notes, NEW url, NEW text \in Texts,
           UpsertEntries(Note(n, url, text), User), UNCHANGED <<old, twice>>
    PROVE  IndexInv'
<1> DEFINE new == Note(n, url, text)
<1>1. DOMAIN new = {n} /\ new[n].text \in AllTexts /\ n \in Ids
  BY DEF Note, Ids, AllTexts
<1>2. UpsertEntries(new, User)
  OBVIOUS
<1> HIDE DEF new
<1> QED
  BY <1>1, <1>2, UpsertKeepsIndex

LEMMA StoreTextKeepsIndex ==
    ASSUME TypeInv, IndexInv, NEW c \in Clients, op[c].at = "page",
           NEW text \in AllTexts \cup {Absent}, StoreText(c, text)
    PROVE  IndexInv'
<1>1. op[c].id \in Ids
  BY DEF TypeInv, HandsOK, HandOK
<1>2. UNCHANGED <<entry, old, twice>>
  BY DEF StoreText, placeVars
<1>3. NoMigrationBeyond
  <2>1. Return(c) \/ Go(c, [at |-> "text", id |-> op[c].id, text |-> text])
    BY DEF StoreText
  <2> QED
    BY <2>1, NoneBeyondReturn, NoneBeyondStep DEF Copied, TypeInv
<1>4. UpsertItemContent(op[c].id, text) \/ UNCHANGED <<content, index>>
  BY DEF StoreText
<1> QED
  BY <1>1, <1>2, <1>3, <1>4, ContentKeepsIndex, IndexFrame

LEMMA WriteKeepsIndex ==
    ASSUME TypeInv, IndexInv, NEW c \in Clients, Write(c)
    PROVE  IndexInv'
<1>0. UNCHANGED op => NoMigrationBeyond
  BY DEF NoMigrationBeyond
<1>1. ASSUME NEW n \in Notes, NEW text \in Texts, NEW url, CreateEntry(c, n, url, text)
      PROVE  IndexInv'
  <2>1. NoMigrationBeyond
    BY <1>1, NoneBeyondStep DEF CreateEntry, Copied, TypeInv
  <2> QED
    BY <1>1, <2>1, NoteKeepsIndex DEF CreateEntry, placeVars
<1>2. ASSUME NEW n \in Notes, NEW text \in Texts, NEW url, ReplayEntry(c, n, url, text)
      PROVE  IndexInv'
  BY <1>0, <1>2, NoteKeepsIndex DEF ReplayEntry, placeVars
<1>3. ASSUME NEW n \in Notes, NEW text \in Texts \cup {Absent}, ReplayContent(c, n, text)
      PROVE  IndexInv'
  BY <1>0, <1>3, ContentKeepsIndex DEF ReplayContent, placeVars, Ids, AllTexts
<1>4. ASSUME NEW i \in Ids, FetchFulltext(c, i)
      PROVE  IndexInv'
  <2>1. PICK detail : Go(c, [at |-> "page", id |-> i, text |-> detail.text])
    BY <1>4 DEF FetchFulltext
  <2>2. NoMigrationBeyond
    BY <2>1, NoneBeyondStep DEF Copied, TypeInv
  <2> QED
    BY <1>4, <2>2, IndexFrame DEF FetchFulltext, tableVars, ghostVars, placeVars
<1>5. ASSUME NEW text \in Texts, StoreFulltext(c, text)
      PROVE  IndexInv'
  BY <1>5, StoreTextKeepsIndex DEF StoreFulltext, AllTexts
<1>6. ASSUME StoreMarkdown(c)
      PROVE  IndexInv'
  <2>1. op[c].text \in AllTexts \cup {Absent}
    BY <1>6 DEF StoreMarkdown, TypeInv, HandsOK, HandOK
  <2> QED
    BY <1>6, <2>1, StoreTextKeepsIndex DEF StoreMarkdown
<1>7. ASSUME FetchFails(c) \/ AppendText(c)
      PROVE  IndexInv'
  <2>1. /\ Return(c)
        /\ UNCHANGED <<entry, content, index, twice, old>>
    BY <1>7 DEF FetchFails, AppendText, tableVars, ghostVars, placeVars
  <2>2. NoMigrationBeyond
    BY <2>1, NoneBeyondReturn DEF TypeInv
  <2> QED
    BY <2>1, <2>2, IndexFrame
<1> QED
  BY <1>1, <1>2, <1>3, <1>4, <1>5, <1>6, <1>7 DEF Write

LEMMA StateMoves ==
    ASSUME NEW c \in Clients, State(c)
    PROVE  /\ op[c].at \in {"idle", "patch", "state"}
           /\ Return(c) \/ \E step : step.at \in {"patch", "state"} /\ Go(c, step)
<1>1. ASSUME NEW i, NEW patch, NEW quiet, PatchItemState(c, i, patch, quiet)
      PROVE  \E step : step.at \in {"patch", "state"} /\ Go(c, step)
  <2>1. PICK state : Go(c, [at |-> "patch", id |-> i, flags |-> Patched(state, patch),
                           patch |-> patch, quiet |-> quiet])
    BY <1>1 DEF PatchItemState
  <2> QED
    BY <2>1
<1>2. ASSUME UpdateState(c)
      PROVE  Return(c) \/ \E step : step.at \in {"patch", "state"} /\ Go(c, step)
  <2>1. Return(c) \/ Go(c, [at |-> "state", id |-> op[c].id, flags |-> op[c].flags])
    BY <1>2 DEF UpdateState
  <2> QED
    BY <2>1
<1>3. Return(c) \/ \E step : step.at \in {"patch", "state"} /\ Go(c, step)
  BY <1>1, <1>2 DEF State, Patch, ReplayState, AppendState
<1>4. Call(c) \/ op[c].at \in {"patch", "state"}
  BY DEF State, Patch, ReplayState, UpdateState, AppendState
<1>5. op[c].at \in {"idle", "patch", "state"}
  BY <1>4 DEF Call, Idle
<1> QED
  BY <1>3, <1>5

LEMMA StateKeepsIndex ==
    ASSUME TypeInv, IndexInv, NEW c \in Clients, State(c)
    PROVE  IndexInv'
<1>1. UNCHANGED <<entry, content, index, twice, old>>
  BY DEF State, Patch, ReplayState, PatchItemState, UpdateState, AppendState,
         tableVars, ghostVars, placeVars
<1>2. Return(c) \/ \E step : step.at \in {"patch", "state"} /\ Go(c, step)
  BY StateMoves
<1>3. NoMigrationBeyond
  BY <1>2, NoneBeyondReturn, NoneBeyondStep DEF Copied, TypeInv
<1> QED
  BY <1>1, <1>3, IndexFrame

LEMMA DeleteKeepsIndex ==
    ASSUME TypeInv, IndexInv, NEW c \in Clients, Delete(c)
    PROVE  IndexInv'
<1>1. ASSUME NEW f \in Feeds, DeleteEntries(c, f)
      PROVE  IndexInv'
  <2>1. NoMigrationBeyond
    BY <1>1, NoneBeyondStep DEF DeleteEntries, Copied, TypeInv
  <2> DEFINE ids == EntriesOf(f)
  <2>2. ASSUME NEW i \in Ids
        PROVE  /\ entry'[i] = IF i \in ids THEN NULL ELSE entry[i]
               /\ content'[i] = IF i \in ids THEN NULL ELSE content[i]
               /\ index'[i] = IF i \in ids THEN NULL ELSE index[i]
    BY <1>1 DEF DeleteEntries, Without
  <2>3. UNCHANGED <<old, twice>> /\ OldIds' = OldIds /\ OldIds \subseteq Ids
    BY <1>1, OldRowType DEF DeleteEntries, OldIds, TypeInv
  <2> HIDE DEF ids
  <2> QED
    BY <2>1, <2>2, <2>3 DEF IndexInv, IndexIsCurrent, Stored, NoMigrationBeyond
<1>2. ASSUME DeleteRow(c)
      PROVE  IndexInv'
  <2>1. NoMigrationBeyond
    BY <1>2, NoneBeyondReturn DEF DeleteRow, TypeInv
  <2> QED
    BY <1>2, <2>1, IndexFrame DEF DeleteRow, tableVars, ghostVars, placeVars
<1> QED
  BY <1>1, <1>2 DEF Delete

LEMMA MigrationKeepsIndex ==
    ASSUME TypeInv, IndexInv, NEW c \in Clients, Migration(c)
    PROVE  IndexInv'
<1>0. OldIds \subseteq Ids
  BY OldRowType DEF OldIds, TypeInv
<1>1. CASE Migrate(c)
  <2>1. NoMigrationBeyond
    BY <1>1, NoneBeyondStep DEF Migrate, Copied, TypeInv
  <2> QED
    BY <1>1, <2>1, IndexFrame DEF Migrate, tableVars, ghostVars, placeVars
<1>2. CASE MigrateEntries(c)
  <2> DEFINE added == {o.id : o \in Missing(entry)}
  <2>1. NoMigrationBeyond
    BY <1>2, NoneBeyondStep DEF MigrateEntries, Copied, TypeInv
  <2>2. UNCHANGED <<content, index, old>> /\ OldIds' = OldIds
    BY <1>2 DEF MigrateEntries, OldIds
  <2>3. twice \subseteq twice'
    BY <1>2 DEF MigrateEntries
  <2>4. ASSUME NEW i \in Ids, i \notin added
        PROVE  entry'[i] = entry[i]
    BY <1>2, <2>4 DEF MigrateEntries
  <2>5. ASSUME NEW i \in added
        PROVE  i \in OldIds /\ index[i] = NULL /\ \E o \in OldItems : o.id = i
    BY MissingRows, OldRowType DEF TypeInv, TablesOK, OldIds
  <2>6. ASSUME NEW d \in Clients, op'[d].at \in Copied
        PROVE  op[d].at \in Copied /\ added \subseteq twice'
    <3>1. Go(c, [at |-> "contents"])
      BY <1>2 DEF MigrateEntries
    <3>2. d # c
      BY <2>6, <3>1, HandAfter DEF Copied, TypeInv
    <3>3. op[d].at \in Copied
      BY <2>1, <2>6 DEF NoMigrationBeyond
    <3>4. Migrating(d)
      BY <3>3 DEF Migrating, Copied
    <3> QED
      BY <1>2, <3>2, <3>3, <3>4 DEF MigrateEntries
  <2> HIDE DEF added
  <2>7. IndexIsCurrent'
    BY <2>2, <2>3, <2>4, <2>5 DEF IndexInv, IndexIsCurrent, Stored
  <2>8. ASSUME NEW i \in Ids, index'[i] # NULL, i \notin twice'
        PROVE  content'[i] # NULL \/ i \notin OldIds'
    BY <2>2, <2>3, <2>8 DEF IndexInv
  <2>9. ASSUME NEW d \in Clients, op'[d].at \in Copied,
               NEW i \in OldIds', entry'[i] # NULL, i \notin twice'
        PROVE  content'[i] # NULL
    BY <1>0, <2>2, <2>3, <2>4, <2>6, <2>9 DEF IndexInv
  <2> QED
    BY <2>7, <2>8, <2>9 DEF IndexInv
<1>3. CASE MigrateContents(c)
  <2> DEFINE added == {o.id : o \in Missing(content)}
  <2>1. /\ content' = [i \in Ids |->
              IF Legal(Missing(content)) /\ i \in added THEN OldRow(i).text ELSE content[i]]
        /\ Go(c, IF Legal(Missing(content)) THEN [at |-> "states"] ELSE Idle)
    BY <1>3 DEF MigrateContents, Backfill, TextOf
  <2>2. UNCHANGED <<entry, index, old, twice>> /\ OldIds' = OldIds
    BY <1>3 DEF MigrateContents, ghostVars, placeVars, OldIds
  <2>3. ASSUME NEW i \in added
        PROVE  i \in OldIds /\ i \in Ids /\ content[i] = NULL /\ OldRow(i).text # NULL
    <3>1. i \in OldIds /\ i \in Ids /\ content[i] = NULL
      BY MissingRows
    <3>2. OldRow(i).text \in AllTexts
      BY <3>1, OldRowType DEF TypeInv
    <3> QED
      BY <3>1, <3>2, NullIsNothing
  <2>4. ASSUME NEW i \in OldIds, content[i] = NULL
        PROVE  i \in added
    BY <2>4 DEF OldIds, Missing
  <2> HIDE DEF added
  <2>5. ASSUME NEW i \in Ids
        PROVE  content[i] # NULL => content'[i] = content[i]
    BY <2>1, <2>3
  <2>6. ASSUME NEW i \in Ids, index[i] # NULL, i \notin twice
        PROVE  content'[i] = content[i]
    BY <2>1, <2>3, <2>6 DEF IndexInv
  <2>7. IndexIsCurrent'
    BY <2>2, <2>6 DEF IndexInv, IndexIsCurrent, Stored
  <2>8. ASSUME NEW i \in Ids, index'[i] # NULL, i \notin twice'
        PROVE  content'[i] # NULL \/ i \notin OldIds'
    BY <2>2, <2>6, <2>8 DEF IndexInv
  <2>9. ASSUME NEW d \in Clients, op'[d].at \in Copied,
               NEW i \in OldIds', entry'[i] # NULL, i \notin twice'
        PROVE  content'[i] # NULL
    <3>1. i \in Ids
      BY <1>0, <2>2
    <3>2. CASE d = c
      <4>1. Legal(Missing(content))
        BY <2>1, <2>9, <3>2, HandAfter DEF Idle, Copied, TypeInv
      <4> QED
        BY <2>1, <2>2, <2>3, <2>4, <3>1, <4>1
    <3>3. CASE d # c
      <4>1. op[d].at \in Copied
        BY <2>1, <2>9, <3>3, HandAfter DEF TypeInv
      <4> QED
        BY <2>2, <2>5, <2>9, <3>1, <4>1 DEF IndexInv
    <3> QED
      BY <3>2, <3>3
  <2> QED
    BY <2>7, <2>8, <2>9 DEF IndexInv
<1>4. CASE MigrateStates(c) \/ MigrateSources(c)
  <2>1. /\ op[c].at \in Copied
        /\ UNCHANGED <<entry, content, index, twice, old>>
        /\ \E step : Go(c, step)
    BY <1>4
       DEF MigrateStates, MigrateSources, Backfill, Copied, ghostVars, placeVars
  <2>2. NoMigrationBeyond
    BY <2>1, HandAfter DEF NoMigrationBeyond, TypeInv
  <2> QED
    BY <2>1, <2>2, IndexFrame
<1>5. CASE MigrateIndex(c)
  <2>1. NoMigrationBeyond
    BY <1>5, NoneBeyondReturn DEF MigrateIndex, TypeInv
  <2>2. /\ index' = [i \in Ids |->
              IF entry[i] # NULL /\ index[i] = NULL THEN Stored(i) ELSE index[i]]
        /\ UNCHANGED <<entry, content, old, twice>> /\ OldIds' = OldIds
        /\ op[c].at \in Copied
    BY <1>5 DEF MigrateIndex, ghostVars, placeVars, OldIds, Copied
  <2>3. IndexIsCurrent'
    <3>1. ASSUME NEW i \in Ids
          PROVE  Stored(i)' = Stored(i) /\ Stored(i) # NULL
      BY <2>2, StoredType, NullIsNothing DEF Stored, TypeInv
    <3> QED
      BY <2>2, <3>1 DEF IndexInv, IndexIsCurrent
  <2>4. ASSUME NEW i \in Ids, index'[i] # NULL, i \notin twice'
        PROVE  content'[i] # NULL \/ i \notin OldIds'
    BY <2>2, <2>4 DEF IndexInv
  <2> QED
    BY <2>1, <2>2, <2>3, <2>4 DEF IndexInv, NoMigrationBeyond
<1> QED
  BY <1>1, <1>2, <1>3, <1>4, <1>5 DEF Migration

LEMMA NextIndexInv == TypeInv /\ IndexInv /\ [Next]_vars => IndexInv'
<1> SUFFICES ASSUME TypeInv, IndexInv, [Next]_vars
             PROVE  IndexInv'
  OBVIOUS
<1>1. CASE UNCHANGED vars
  <2>1. UNCHANGED <<entry, content, index, twice, old, op>>
    BY <1>1 DEF vars, tableVars, ghostVars, placeVars
  <2> QED
    BY <2>1, IndexFrame DEF NoMigrationBeyond
<1>2. ASSUME NEW c \in Clients, Crash(c)
      PROVE  IndexInv'
  <2>1. NoMigrationBeyond
    BY <1>2, NoneBeyondReturn DEF Crash, TypeInv
  <2> QED
    BY <1>2, <2>1, IndexFrame DEF Crash, tableVars
<1> QED
  BY <1>1, <1>2, RefreshKeepsIndex, WriteKeepsIndex, StateKeepsIndex, DeleteKeepsIndex,
     MigrationKeepsIndex DEF Next

\* A search finds an entry by the text it shows, whichever of refresh, full text, replay
\* and migration wrote it last and wherever a migration was killed, for any number of
\* clients and kills: but for articles that two migrations at once added.
THEOREM SearchFindsWhatIsShown == Spec => []IndexIsCurrent
<1>1. Init => IndexInv
  <2> SUFFICES ASSUME Init
               PROVE  IndexInv
    OBVIOUS
  <2>1. \A i \in Ids : index[i] = NULL /\ entry[i] = NULL
    BY DEF Init, None
  <2>2. \A c \in Clients : op[c].at = "idle"
    BY DEF Init, Idle
  <2> QED
    BY <2>1, <2>2 DEF IndexInv, IndexIsCurrent, Copied
<1>2. IndexInv => IndexIsCurrent
  BY DEF IndexInv
<1> QED
  BY <1>1, <1>2, TypeInvHolds, NextIndexInv, PTL DEF Spec

-----------------------------------------------------------------------------
(***************************************************************************)
(* The steps that store, move or delete entries                            *)
(***************************************************************************)
StoresNothing ==
    /\ UNCHANGED <<live, entry, source, old, late, carried>>
    /\ cut \subseteq cut'
    /\ \A d \in Clients : op'[d].at = "row" => op'[d] = op[d]
    /\ \A d \in Clients : op[d].at = "row" => op'[d] = op[d] \/ op[d].feed \in cut'

WritesNote(c) ==
    \E n \in Notes, text \in Texts, url \in {Absent, NoteUrl} :
        CreateEntry(c, n, url, text) \/ ReplayEntry(c, n, url, text)

LEMMA StoresNothingStep ==
    ASSUME HandsOK, UNCHANGED <<live, entry, source, old, late, carried, cut>>,
           NEW c \in Clients, op[c].at # "row", NEW step, step.at # "row",
           Go(c, step)
    PROVE  StoresNothing
  BY HandAfter DEF StoresNothing

LEMMA StoresNothingReturn ==
    ASSUME HandsOK, UNCHANGED <<live, entry, source, old, late, carried, cut>>,
           NEW c \in Clients, op[c].at # "row", Return(c)
    PROVE  StoresNothing
  BY StoresNothingStep DEF Return, Idle

LEMMA StepKinds ==
    ASSUME TypeInv, [Next]_vars
    PROVE  \/ StoresNothing
           \/ \E c \in Clients :
                 \/ UpsertItems(c) \/ WritesNote(c) \/ \E f \in Feeds : DeleteEntries(c, f)
                 \/ DeleteRow(c) \/ MigrateEntries(c) \/ MigrateSources(c)
<1>0. HandsOK
  BY DEF TypeInv
<1>1. CASE UNCHANGED vars
  BY <1>1 DEF vars, tableVars, ghostVars, placeVars, StoresNothing
<1>2. ASSUME NEW c \in Clients, NEW f \in Feeds, NEW d \in Documents, BeginRefresh(c, f, d)
      PROVE  StoresNothing
  <2>1. op[c].at # "row"
    BY <1>2 DEF BeginRefresh, Call, Idle
  <2> QED
    BY <1>0, <1>2, <2>1, StoresNothingStep
       DEF BeginRefresh, tableVars, ghostVars, placeVars
<1>3. ASSUME NEW c \in Clients, Write(c)
      PROVE  StoresNothing \/ WritesNote(c)
  <2>1. ASSUME NEW n \in Notes, NEW text, ReplayContent(c, n, text)
        PROVE  StoresNothing
    BY <2>1 DEF ReplayContent, placeVars, StoresNothing
  <2>2. ASSUME NEW i \in Ids, FetchFulltext(c, i)
        PROVE  StoresNothing
    <3>1. op[c].at # "row"
      BY <2>2 DEF FetchFulltext, Call, Idle
    <3>2. PICK detail : Go(c, [at |-> "page", id |-> i, text |-> detail.text])
      BY <2>2 DEF FetchFulltext
    <3> QED
      BY <1>0, <2>2, <3>1, <3>2, StoresNothingStep
         DEF FetchFulltext, tableVars, ghostVars, placeVars
  <2>3. ASSUME op[c].at = "page", NEW text, StoreText(c, text)
        PROVE  StoresNothing
    <3>1. Return(c) \/ Go(c, [at |-> "text", id |-> op[c].id, text |-> text])
      BY <2>3 DEF StoreText
    <3>2. UNCHANGED <<live, entry, source, old, late, carried, cut>>
      BY <2>3 DEF StoreText, placeVars
    <3> QED
      BY <1>0, <2>3, <3>1, <3>2, StoresNothingReturn, StoresNothingStep
  <2>4. ASSUME FetchFails(c) \/ AppendText(c)
        PROVE  StoresNothing
    <3>1. /\ op[c].at # "row" /\ Return(c)
          /\ UNCHANGED <<live, entry, source, old, late, carried, cut>>
      BY <2>4 DEF FetchFails, AppendText, tableVars, ghostVars, placeVars
    <3> QED
      BY <1>0, <3>1, StoresNothingReturn
  <2> QED
    BY <1>3, <2>1, <2>2, <2>3, <2>4 DEF Write, StoreFulltext, StoreMarkdown, WritesNote
<1>4. ASSUME NEW c \in Clients, State(c)
      PROVE  StoresNothing
  <2>1. UNCHANGED <<live, entry, source, old, late, carried, cut>>
    BY <1>4 DEF State, Patch, ReplayState, PatchItemState, UpdateState, AppendState,
                tableVars, ghostVars, placeVars
  <2>2. /\ op[c].at # "row"
        /\ Return(c) \/ \E step : step.at \in {"patch", "state"} /\ Go(c, step)
    BY <1>4, StateMoves
  <2> QED
    BY <1>0, <2>1, <2>2, StoresNothingReturn, StoresNothingStep
<1>5. ASSUME NEW c \in Clients, Migrate(c)
      PROVE  StoresNothing
  <2>1. op[c].at # "row"
    BY <1>5 DEF Migrate, Idle
  <2> QED
    BY <1>0, <1>5, <2>1, StoresNothingStep DEF Migrate, tableVars, ghostVars, placeVars
<1>6. ASSUME NEW c \in Clients, MigrateContents(c) \/ MigrateStates(c)
      PROVE  StoresNothing
  <2>1. /\ op[c].at # "row"
        /\ UNCHANGED <<live, entry, source, old, late, carried, cut>>
        /\ Return(c) \/ \E at \in {"states", "sources"} : Go(c, [at |-> at])
    BY <1>6 DEF MigrateContents, MigrateStates, Backfill, Return, ghostVars, placeVars
  <2> QED
    BY <1>0, <2>1, StoresNothingReturn, StoresNothingStep
<1>7. ASSUME NEW c \in Clients, MigrateIndex(c)
      PROVE  StoresNothing
  BY <1>0, <1>7, StoresNothingReturn DEF MigrateIndex, ghostVars, placeVars
<1>8. ASSUME NEW c \in Clients, Crash(c)
      PROVE  StoresNothing
  <2>1. UNCHANGED <<live, entry, source, old, late, carried>>
    BY <1>8 DEF Crash, tableVars
  <2>2. cut \subseteq cut' /\ (op[c].at = "row" => op[c].feed \in cut')
    BY <1>8 DEF Crash
  <2>3. \A d \in Clients : op'[d] = IF d = c THEN Idle ELSE op[d]
    BY <1>0, <1>8, HandAfterReturn DEF Crash
  <2> QED
    BY <2>1, <2>2, <2>3 DEF StoresNothing, Idle
<1> QED
  BY <1>1, <1>2, <1>3, <1>4, <1>5, <1>6, <1>7, <1>8
     DEF Next, Refresh, Delete, Migration

\* What each of them does to an entry.
LEMMA ItemsStored ==
    ASSUME TypeInv, NEW c \in Clients, UpsertItems(c)
    PROVE  /\ op[c].feed \in Feeds /\ op[c].items \in Batches
           /\ \A i \in Ids :
                 IF i \in DOMAIN ItemRows(op[c].items)
                 THEN entry'[i] = ItemRows(op[c].items)[i].row /\ source'[i] = op[c].feed
                 ELSE entry'[i] = entry[i] /\ source'[i] = source[i]
<1>1. op[c].feed \in Feeds /\ op[c].items \in Batches
  BY DEF UpsertItems, TypeInv, HandsOK, HandOK
<1> QED
  BY <1>1 DEF UpsertItems, UpsertEntries

LEMMA NoteWritten ==
    ASSUME TypeInv, NEW c \in Clients, WritesNote(c)
    PROVE  /\ \E n \in Notes :
                 /\ n \in Ids /\ n \notin Articles
                 /\ entry'[n] # NULL /\ entry'[n].kind = "note" /\ source'[n] = User
                 /\ \A i \in Ids \ {n} : entry'[i] = entry[i] /\ source'[i] = source[i]
           /\ UNCHANGED <<live, old, late, carried, cut>>
           /\ \A d \in Clients : op'[d].at = "row" => op'[d] = op[d]
           /\ \A d \in Clients : op[d].at = "row" => op'[d] = op[d]
<1>1. PICK n \in Notes, text \in Texts, url \in {Absent, NoteUrl} :
         CreateEntry(c, n, url, text) \/ ReplayEntry(c, n, url, text)
  BY DEF WritesNote
<1>2. n \in Ids /\ n \notin Articles
  BY EntryStoreAssumptions DEF Ids
<1>3. UpsertEntries(Note(n, url, text), User) /\ UNCHANGED <<live, old, late, carried, cut>>
  BY <1>1 DEF CreateEntry, ReplayEntry, placeVars
<1> DEFINE new == Note(n, url, text)
<1>4. DOMAIN new = {n} /\ new[n].row.kind = "note" /\ new[n].row \in Entries
  BY DEF Note, Entries
<1>5. /\ entry'[n] = new[n].row /\ source'[n] = User
      /\ \A i \in Ids \ {n} : entry'[i] = entry[i] /\ source'[i] = source[i]
  <2>1. UpsertEntries(new, User)
    BY <1>3
  <2> HIDE DEF new
  <2> QED
    BY <1>2, <1>4, <2>1 DEF UpsertEntries
<1>6. entry'[n] # NULL /\ entry'[n].kind = "note"
  BY <1>4, <1>5, NullIsNothing
<1>7. op[c] = Idle /\ (UNCHANGED op \/ Go(c, [at |-> "text", id |-> n, text |-> text]))
  BY <1>1 DEF CreateEntry, ReplayEntry, Call
<1>8. \A d \in Clients : (op'[d].at = "row" \/ op[d].at = "row") => op'[d] = op[d]
  BY <1>7, HandAfter DEF TypeInv, Idle
<1> HIDE DEF new
<1> QED
  BY <1>2, <1>3, <1>5, <1>6, <1>8

-----------------------------------------------------------------------------
(***************************************************************************)
(* The identity of articles                                                *)
(***************************************************************************)
\* The id of an article is its guid, else its URL.
IdentityInv ==
    \A i \in Ids : entry[i] # NULL /\ entry[i].kind = "article" =>
        i = FirstOf(entry[i].external, FirstOf(entry[i].url, i))

LEMMA NextIdentityInv == TypeInv /\ IdentityInv /\ [Next]_vars => IdentityInv'
<1> SUFFICES ASSUME TypeInv, IdentityInv, [Next]_vars
             PROVE  IdentityInv'
  OBVIOUS
<1>1. CASE StoresNothing
  BY <1>1 DEF StoresNothing, IdentityInv
<1>2. ASSUME NEW c \in Clients, UpsertItems(c)
      PROVE  IdentityInv'
  <2> DEFINE batch == op[c].items
             new == ItemRows(batch)
  <2>1. batch \in Batches
    BY <1>2, ItemsStored
  <2>2. ASSUME NEW i \in DOMAIN new
        PROVE  i = FirstOf(new[i].row.external, FirstOf(new[i].row.url, i))
    <3> HIDE DEF batch
    <3>1. PICK n \in DOMAIN batch :
             /\ batch[n].id = i
             /\ new[i].row =
                   [kind |-> "article", url |-> batch[n].url,
                    external |-> batch[n].external, pub |-> batch[n].pub]
      BY <2>1, RowsOfItems
    <3> QED
      BY <2>1, <3>1, ItemIdentity
  <2> QED
    BY <1>2, <2>2, ItemsStored DEF IdentityInv
<1>3. ASSUME NEW c \in Clients, WritesNote(c)
      PROVE  IdentityInv'
  <2>1. PICK n \in Notes :
           /\ entry'[n].kind = "note"
           /\ \A i \in Ids \ {n} : entry'[i] = entry[i]
    BY <1>3, NoteWritten
  <2> QED
    BY <2>1 DEF IdentityInv
<1>4. ASSUME NEW c \in Clients, NEW f \in Feeds, DeleteEntries(c, f)
      PROVE  IdentityInv'
  BY <1>4 DEF DeleteEntries, Without, IdentityInv
<1>5. ASSUME NEW c \in Clients, DeleteRow(c) \/ MigrateSources(c)
      PROVE  IdentityInv'
  BY <1>5 DEF DeleteRow, MigrateSources, tableVars, IdentityInv
<1>6. ASSUME NEW c \in Clients, MigrateEntries(c)
      PROVE  IdentityInv'
  <2>1. ASSUME NEW i \in Ids, entry'[i] # entry[i]
        PROVE  /\ i \in OldIds
               /\ entry'[i].url = OldRow(i).url /\ entry'[i].external = OldRow(i).external
    BY <1>6, <2>1, MissingRows DEF MigrateEntries
  <2>2. ASSUME NEW i \in OldIds
        PROVE  i = FirstOf(OldRow(i).external, FirstOf(OldRow(i).url, i))
    BY OldRowType, IdentityAssumption DEF TypeInv
  <2> QED
    BY <2>1, <2>2 DEF IdentityInv
<1> QED
  BY <1>1, <1>2, <1>3, <1>4, <1>5, <1>6, StepKinds

\* No two articles have one guid, or for want of a guid one URL: if the ids of the old
\* rows were made as the parser makes them.
THEOREM ArticlesAreDistinct == Spec => []NoDuplicateArticles
<1>1. Init => IdentityInv
  BY DEF Init, None, IdentityInv
<1>2. IdentityInv => NoDuplicateArticles
  BY DEF IdentityInv, NoDuplicateArticles, FirstOf
<1> QED
  BY <1>1, <1>2, TypeInvHolds, NextIdentityInv, PTL DEF Spec

-----------------------------------------------------------------------------
(***************************************************************************)
(* What a deletion leaves behind                                           *)
(***************************************************************************)
\* An entry that was not stored too late is the user's, or of a feed that is there and
\* that nobody is deleting, or waits for its source from an old row of such a feed.
Settled(i) ==
    entry[i] # NULL /\ i \notin late =>
        \/ source[i] = User
        \/ source[i] \in live /\ ~Deleting(source[i])
        \/ source[i] = NULL /\ \E o \in old : o.id = i /\ ~Deleting(o.feed)

OrphanInv ==
    /\ \A i \in Ids : Settled(i)
    /\ \A o \in old : o.feed \in live

LEMMA DeletingAfter ==
    ASSUME TypeInv, NEW c \in Clients, NEW step, Go(c, step), NEW f
    PROVE  /\ step.at # "row" => (Deleting(f)' => Deleting(f))
           /\ step.at # "row" /\ op[c].at # "row" => (Deleting(f)' <=> Deleting(f))
           /\ step = [at |-> "row", feed |-> f] => Deleting(f)'
           /\ op[c].at # "row" /\ Deleting(f) => Deleting(f)'
           /\ step.at = "row" /\ step.feed # f => (Deleting(f)' => Deleting(f))
  BY HandAfter DEF Deleting, TypeInv

LEMMA NextOrphanInv == TypeInv /\ OrphanInv /\ [Next]_vars => OrphanInv'
<1> SUFFICES ASSUME TypeInv, OrphanInv, [Next]_vars
             PROVE  OrphanInv'
  OBVIOUS
<1>1. CASE StoresNothing
  <2>1. \A f : Deleting(f)' => Deleting(f)
    BY <1>1 DEF StoresNothing, Deleting
  <2>2. \A i \in Ids : Settled(i)'
    BY <1>1, <2>1 DEF StoresNothing, OrphanInv, Settled
  <2> QED
    BY <1>1, <2>2 DEF StoresNothing, OrphanInv
<1>2. ASSUME NEW c \in Clients, UpsertItems(c)
      PROVE  OrphanInv'
  <2> DEFINE f == op[c].feed
             stored == DOMAIN ItemRows(op[c].items)
  <2>1. /\ Return(c) /\ op[c].at # "row" /\ UNCHANGED <<live, old>>
        /\ late' = IF f \in live /\ ~Deleting(f) THEN late \ stored ELSE late \cup stored
    BY <1>2 DEF UpsertItems
  <2>2. \A g : Deleting(g)' => Deleting(g)
    BY <2>1, DeletingAfter DEF Return, Idle
  <2>3. ASSUME NEW i \in Ids
        PROVE  Settled(i)'
    <3>1. CASE i \in stored
      <4>1. source'[i] = f
        BY <1>2, <3>1, ItemsStored
      <4> QED
        BY <2>1, <2>2, <3>1, <4>1 DEF Settled
    <3>2. CASE i \notin stored
      <4>1. entry'[i] = entry[i] /\ source'[i] = source[i]
        BY <1>2, <3>2, ItemsStored
      <4> QED
        BY <2>1, <2>2, <3>2, <4>1 DEF OrphanInv, Settled
    <3> QED
      BY <3>1, <3>2
  <2> QED
    BY <2>1, <2>3 DEF OrphanInv
<1>3. ASSUME NEW c \in Clients, WritesNote(c)
      PROVE  OrphanInv'
  <2>1. PICK n \in Notes :
           /\ source'[n] = User
           /\ \A i \in Ids \ {n} : entry'[i] = entry[i] /\ source'[i] = source[i]
    BY <1>3, NoteWritten
  <2>2. /\ UNCHANGED <<live, old, late>>
        /\ \A d \in Clients : op'[d].at = "row" => op'[d] = op[d]
    BY <1>3, NoteWritten
  <2>3. \A f : Deleting(f)' => Deleting(f)
    BY <2>2 DEF Deleting
  <2>4. \A i \in Ids : Settled(i)'
    BY <2>1, <2>2, <2>3 DEF OrphanInv, Settled
  <2> QED
    BY <2>2, <2>4 DEF OrphanInv
<1>4. ASSUME NEW c \in Clients, NEW f \in Feeds, DeleteEntries(c, f)
      PROVE  OrphanInv'
  <2> DEFINE missed == {o.id : o \in {p \in old : p.feed = f /\ entry[p.id] # NULL
                                                  /\ source[p.id] = NULL}}
  <2>1. /\ late' = (late \ EntriesOf(f)) \cup missed
        /\ UNCHANGED <<live, old>> /\ Go(c, [at |-> "row", feed |-> f])
    BY <1>4 DEF DeleteEntries
  <2>2. ASSUME NEW g, g # f
        PROVE  Deleting(g)' => Deleting(g)
    BY <2>1, <2>2, DeletingAfter
  <2>3. ASSUME NEW i \in Ids, entry'[i] # NULL
        PROVE  /\ source[i] # f
               /\ entry'[i] = entry[i] /\ source'[i] = source[i]
    BY <1>4, <2>3 DEF DeleteEntries, Without, EntriesOf
  <2>4. ASSUME NEW i \in Ids
        PROVE  Settled(i)'
    <3>1. SUFFICES ASSUME entry'[i] # NULL, i \notin late'
                   PROVE  \/ source'[i] = User
                          \/ source'[i] \in live' /\ ~Deleting(source[i])'
                          \/ source'[i] = NULL /\ \E o \in old' : o.id = i /\ ~Deleting(o.feed)'
      BY <2>3 DEF Settled
    <3>2. /\ entry[i] # NULL /\ source[i] # f /\ source'[i] = source[i]
          /\ i \notin late /\ i \notin missed
      BY <2>1, <2>3, <3>1 DEF EntriesOf
    <3>3. Settled(i)
      BY DEF OrphanInv
    <3>4. CASE source[i] = NULL
      <4>1. PICK o \in old : o.id = i /\ ~Deleting(o.feed)
        BY <3>2, <3>3, <3>4, NullIsNothing DEF Settled, TypeInv, BoundsOK
      <4>2. o.feed # f
        BY <3>2, <3>4, <4>1
      <4> QED
        BY <2>1, <2>2, <3>2, <3>4, <4>1, <4>2
    <3>5. CASE source[i] # NULL
      BY <2>1, <2>2, <3>2, <3>3, <3>5 DEF Settled
    <3> QED
      BY <3>4, <3>5
  <2> QED
    BY <2>1, <2>4 DEF OrphanInv
<1>5. ASSUME NEW c \in Clients, DeleteRow(c)
      PROVE  OrphanInv'
  <2> DEFINE f == op[c].feed
  <2>1. /\ live' = live \ {f} /\ old' = {o \in old : o.feed # f}
        /\ Return(c) /\ Deleting(f) /\ UNCHANGED <<entry, source, late>>
    BY <1>5 DEF DeleteRow, Deleting, tableVars, ghostVars, placeVars
  <2>2. \A g : Deleting(g)' => Deleting(g)
    BY <2>1, DeletingAfter DEF Return, Idle
  <2> HIDE DEF f
  <2>3. \A i \in Ids : Settled(i)'
    BY <2>1, <2>2 DEF OrphanInv, Settled
  <2> QED
    BY <2>1, <2>3 DEF OrphanInv
<1>6. ASSUME NEW c \in Clients, MigrateEntries(c)
      PROVE  OrphanInv'
  <2>1. /\ late' = late \cup {o.id : o \in {p \in Missing(entry) : Deleting(p.feed)}}
        /\ UNCHANGED <<live, source, old>> /\ Go(c, [at |-> "contents"])
    BY <1>6 DEF MigrateEntries
  <2>2. \A g : Deleting(g)' => Deleting(g)
    BY <2>1, DeletingAfter
  <2>3. ASSUME NEW i \in Ids
        PROVE  Settled(i)'
    <3>1. CASE i \in {o.id : o \in Missing(entry)}
      <4>1. PICK o \in Missing(entry) : o.id = i
        BY <3>1
      <4>2. o \in old /\ source[i] = NULL
        BY <4>1 DEF Missing, TypeInv, TablesOK
      <4>3. i \notin late' => ~Deleting(o.feed)
        BY <2>1, <4>1
      <4> QED
        BY <2>1, <2>2, <4>1, <4>2, <4>3 DEF Settled
    <3>2. CASE i \notin {o.id : o \in Missing(entry)}
      <4>1. entry'[i] = entry[i]
        BY <1>6, <3>2 DEF MigrateEntries
      <4> QED
        BY <2>1, <2>2, <4>1 DEF OrphanInv, Settled
    <3> QED
      BY <3>1, <3>2
  <2> QED
    BY <2>1, <2>3 DEF OrphanInv
<1>7. ASSUME NEW c \in Clients, MigrateSources(c)
      PROVE  OrphanInv'
  <2>1. /\ source' = [i \in Ids |->
              IF Legal(Missing(source)) /\ i \in {o.id : o \in Missing(source)}
              THEN OldRow(i).feed ELSE source[i]]
        /\ UNCHANGED <<live, entry, old, late>>
        /\ op[c].at # "row"
        /\ Go(c, IF Legal(Missing(source)) THEN [at |-> "index"] ELSE Idle)
    BY <1>7 DEF MigrateSources, Backfill, FeedOf, ghostVars, placeVars
  <2>2. \A g : Deleting(g)' => Deleting(g)
    BY <2>1, DeletingAfter DEF Idle
  <2>3. ASSUME NEW i \in Ids
        PROVE  Settled(i)'
    <3>1. CASE source'[i] = source[i]
      BY <2>1, <2>2, <3>1 DEF OrphanInv, Settled
    <3>2. CASE source'[i] # source[i]
      <4>1. i \in OldIds /\ source[i] = NULL /\ source'[i] = OldRow(i).feed
        BY <2>1, <3>2, MissingRows
      <4>2. OldRow(i) \in old /\ OldRow(i).id = i
        BY <4>1, OldRowType DEF TypeInv
      <4>3. ASSUME entry[i] # NULL, i \notin late
            PROVE  ~Deleting(OldRow(i).feed)
        <5>1. PICK o \in old : o.id = i /\ ~Deleting(o.feed)
          BY <4>1, <4>3, NullIsNothing DEF OrphanInv, Settled, TypeInv, BoundsOK
        <5>2. o = OldRow(i)
          BY <4>2, <5>1, EntryStoreAssumptions DEF TypeInv, BoundsOK
        <5> QED
          BY <5>1, <5>2
      <4> QED
        BY <2>1, <2>2, <4>1, <4>2, <4>3 DEF OrphanInv, Settled
    <3> QED
      BY <3>1, <3>2
  <2> QED
    BY <2>1, <2>3 DEF OrphanInv
<1> QED
  BY <1>1, <1>2, <1>3, <1>4, <1>5, <1>6, <1>7, StepKinds

\* What a deletion leaves behind, and an entry without a source, came from a refresh or a
\* migration that overlapped a deletion; or its old row is still there to be migrated.
THEOREM OnlyLateArticlesAreLeft == Spec => []OrphansAreLate
<1>1. Init => OrphanInv
  <2> SUFFICES ASSUME Init
               PROVE  OrphanInv
    OBVIOUS
  <2>1. live = Feeds /\ old \subseteq OldItems /\ \A i \in Ids : entry[i] = NULL
    BY DEF Init, None
  <2> QED
    BY <2>1, EntryStoreAssumptions DEF OrphanInv, Settled
<1>2. OrphanInv => OrphansAreLate
  BY DEF OrphanInv, Settled, OrphansAreLate
<1> QED
  BY <1>1, <1>2, TypeInvHolds, NextOrphanInv, PTL DEF Spec

-----------------------------------------------------------------------------
(***************************************************************************)
(* What feeds carried                                                      *)
(***************************************************************************)
CarriedIds(f) == {item.id : item \in carried[f]}

Gone(f) == f \notin live \/ f \in cut \/ Deleting(f)

\* In the store, and of a feed that carries it.
Kept(item) ==
    /\ entry[item.id] # NULL /\ entry[item.id].pub = item.pub
    /\ source[item.id] \in Feeds
    /\ item.id \in CarriedIds(source[item.id])

Excused(item, f) ==
    item.external = Blank \/ \E g \in Feeds \ {f} : Gone(g) /\ item.id \in CarriedIds(g)

\* An article is always in the store by a feed that carries it, so that it leaves with such
\* a feed; without the feed of the entry, ArticlesLeaveWithTheirFeed would not tell whose
\* deletion may take it.
CarriedInv ==
    \A f \in Feeds : ~Gone(f) => \A item \in carried[f] : Kept(item) \/ Excused(item, f)

\* A feed that is gone does not come back, and what it carried stays known: so it is
\* enough to look at what was kept before, or is stored now.
LEMMA CarriedStep ==
    ASSUME TypeInv, CarriedInv,
           \A f \in Feeds : Gone(f) => Gone(f)',
           \A f \in Feeds : carried[f] \subseteq carried'[f],
           \A f \in Feeds : ~Gone(f)' => \A item \in carried[f] :
               Kept(item) => Kept(item)' \/ Excused(item, f)',
           \A f \in Feeds : ~Gone(f)' => \A item \in carried'[f] \ carried[f] :
               Kept(item)' \/ Excused(item, f)'
    PROVE  CarriedInv'
<1> SUFFICES ASSUME NEW f \in Feeds, ~Gone(f)', NEW item \in carried'[f]
             PROVE  Kept(item)' \/ Excused(item, f)'
  BY DEF CarriedInv
<1>1. CASE item \notin carried[f]
  BY <1>1
<1>2. CASE item \in carried[f]
  <2>1. Kept(item) \/ Excused(item, f)
    BY <1>2 DEF CarriedInv
  <2>2. ASSUME Excused(item, f)
        PROVE  Excused(item, f)'
    <3>1. \A g \in Feeds : item.id \in CarriedIds(g) => item.id \in CarriedIds(g)'
      BY DEF CarriedIds
    <3> QED
      BY <2>2, <3>1 DEF Excused
  <2> QED
    BY <1>2, <2>1, <2>2
<1> QED
  BY <1>1, <1>2

LEMMA BatchItems ==
    ASSUME NEW batch \in Batches, NEW n \in DOMAIN batch
    PROVE  batch[n] \in Parsed /\ batch[n].id \in DOMAIN ItemRows(batch)
<1>1. DOMAIN ItemRows(batch) = {batch[m].id : m \in DOMAIN batch}
  BY RowsOfItems
<1> QED
  BY <1>1 DEF Parsed

\* What keeps its entry, source and carriers is kept.
LEMMA KeptStays ==
    ASSUME NEW item, Kept(item), \A f \in Feeds : carried[f] \subseteq carried'[f],
           entry'[item.id] = entry[item.id], source'[item.id] = source[item.id]
    PROVE  Kept(item)'
  BY DEF Kept, CarriedIds

LEMMA NextCarriedInv == TypeInv /\ CarriedInv /\ [Next]_vars => CarriedInv'
<1> SUFFICES ASSUME TypeInv, CarriedInv, [Next]_vars
             PROVE  CarriedInv'
  OBVIOUS
<1>0. ASSUME NEW f \in Feeds, NEW item \in carried[f]
      PROVE  item.id \in Articles /\ item.id \in Ids /\ item \in Parsed
  BY ItemFields DEF TypeInv, GhostsOK
<1>1. CASE StoresNothing
  <2>1. UNCHANGED <<entry, source, live, carried>> /\ cut \subseteq cut'
    BY <1>1 DEF StoresNothing
  <2>2. \A f \in Feeds : Gone(f) => Gone(f)'
    BY <1>1 DEF StoresNothing, Gone, Deleting
  <2>3. \A f \in Feeds : \A item \in carried[f] : Kept(item) => Kept(item)'
    BY <2>1, KeptStays
  <2> QED
    BY <2>1, <2>2, <2>3, CarriedStep
<1>2. ASSUME NEW c \in Clients, UpsertItems(c)
      PROVE  CarriedInv'
  <2> DEFINE g == op[c].feed
             batch == op[c].items
             now == {batch[n] : n \in DOMAIN batch}
             stored == DOMAIN ItemRows(batch)
  <2>1. g \in Feeds /\ batch \in Batches
    BY <1>2, ItemsStored
  <2>2. /\ Return(c) /\ op[c].at # "row" /\ UNCHANGED <<live, cut>>
        /\ carried' = [carried EXCEPT ![g] = @ \cup now]
    BY <1>2 DEF UpsertItems
  <2>3. \A f \in Feeds : Gone(f) => Gone(f)'
    BY <2>2, DeletingAfter DEF Gone, Return, Idle
  <2>4. ASSUME NEW f \in Feeds
        PROVE  carried'[f] = IF f = g THEN carried[f] \cup now ELSE carried[f]
    BY <2>1, <2>2 DEF TypeInv, GhostsOK
  <2>5. /\ \A i \in Ids : i \notin stored => entry'[i] = entry[i] /\ source'[i] = source[i]
        /\ \A i \in Ids : i \in stored =>
              entry'[i] = ItemRows(batch)[i].row /\ source'[i] = g
    BY <1>2, ItemsStored
  <2>6. ASSUME NEW item \in Parsed, item.id \in stored, item.external # Blank
        PROVE  Kept(item)'
    <3> HIDE DEF g, batch
    <3>1. PICK n \in DOMAIN batch :
             /\ batch[n] \in Parsed /\ batch[n].id = item.id
             /\ ItemRows(batch)[item.id].row =
                   [kind |-> "article", url |-> batch[n].url,
                    external |-> batch[n].external, pub |-> batch[n].pub]
      BY <2>1, <2>6, RowsOfItems
    <3>2. batch[n].pub = item.pub
      BY <2>6, <3>1, IdentityAssumption
    <3>3. ItemRows(batch)[item.id].row # NULL
      BY <3>1, ItemFields, NullIsNothing
    <3>4. /\ entry'[item.id] # NULL /\ entry'[item.id].pub = item.pub
          /\ source'[item.id] = g
      BY <2>5, <2>6, <3>1, <3>2, <3>3, ItemFields
    <3>5. batch[n] \in carried'[g]
      BY <2>1, <2>4
    <3>6. item.id \in {other.id : other \in carried'[g]}
      BY <3>1, <3>5
    <3> QED
      BY <2>1, <3>4, <3>6 DEF Kept, CarriedIds
  <2>7. ASSUME NEW f \in Feeds, NEW item \in carried[f], Kept(item)
        PROVE  Kept(item)' \/ Excused(item, f)'
    <3>1. CASE item.id \in stored
      BY <1>0, <2>6, <3>1 DEF Excused
    <3>2. CASE item.id \notin stored
      BY <1>0, <2>4, <2>5, <2>7, <3>2, KeptStays
    <3> QED
      BY <3>1, <3>2
  <2>8. ASSUME NEW f \in Feeds, NEW item \in carried'[f] \ carried[f]
        PROVE  Kept(item)' \/ Excused(item, f)'
    <3>1. item \in now
      <4> HIDE DEF now, g, batch
      <4> QED
        BY <2>4, <2>8
    <3>2. item \in Parsed /\ item.id \in stored
      <4> HIDE DEF batch
      <4> QED
        BY <2>1, <3>1, BatchItems
    <3> QED
      BY <2>6, <3>2 DEF Excused
  <2>9. \A f \in Feeds : carried[f] \subseteq carried'[f]
    BY <2>4
  <2> HIDE DEF g, batch
  <2> QED
    BY <2>3, <2>7, <2>8, <2>9, CarriedStep
<1>3. ASSUME NEW c \in Clients, WritesNote(c)
      PROVE  CarriedInv'
  <2>1. PICK n \in Notes :
           /\ n \notin Articles
           /\ \A i \in Ids \ {n} : entry'[i] = entry[i] /\ source'[i] = source[i]
    BY <1>3, NoteWritten
  <2>2. /\ UNCHANGED <<live, carried, cut>>
        /\ \A d \in Clients : op[d].at = "row" => op'[d] = op[d]
    BY <1>3, NoteWritten
  <2>3. \A f \in Feeds : Gone(f) => Gone(f)'
    BY <2>2 DEF Gone, Deleting
  <2>4. ASSUME NEW f \in Feeds, NEW item \in carried[f], Kept(item)
        PROVE  Kept(item)'
    <3>1. item.id \in Ids \ {n}
      BY <1>0, <2>1
    <3> QED
      BY <2>1, <2>2, <2>4, <3>1, KeptStays
  <2> QED
    BY <2>2, <2>3, <2>4, CarriedStep
<1>4. ASSUME NEW c \in Clients, NEW g \in Feeds, DeleteEntries(c, g)
      PROVE  CarriedInv'
  <2>1. /\ Go(c, [at |-> "row", feed |-> g]) /\ op[c] = Idle
        /\ UNCHANGED <<live, carried, cut>>
    BY <1>4 DEF DeleteEntries, Call
  <2>2. \A f \in Feeds : Gone(f) => Gone(f)'
    BY <2>1, DeletingAfter DEF Gone, Idle
  <2>3. Gone(g)'
    BY <2>1, DeletingAfter DEF Gone
  <2>4. ASSUME NEW i \in Ids, source[i] # g
        PROVE  entry'[i] = entry[i] /\ source'[i] = source[i]
    BY <1>4, <2>4 DEF DeleteEntries, Without, EntriesOf
  <2>5. ASSUME NEW f \in Feeds, ~Gone(f)', NEW item \in carried[f], Kept(item)
        PROVE  Kept(item)' \/ Excused(item, f)'
    <3>1. CASE source[item.id] = g
      <4>1. g # f
        BY <2>3, <2>5
      <4>2. item.id \in CarriedIds(g)'
        BY <2>1, <2>5, <3>1 DEF Kept, CarriedIds
      <4> QED
        BY <2>3, <4>1, <4>2 DEF Excused
    <3>2. CASE source[item.id] # g
      <4>1. entry'[item.id] = entry[item.id] /\ source'[item.id] = source[item.id]
        BY <1>0, <2>4, <3>2
      <4> QED
        BY <2>1, <2>5, <4>1, KeptStays
    <3> QED
      BY <3>1, <3>2
  <2> QED
    BY <2>1, <2>2, <2>5, CarriedStep
<1>5. ASSUME NEW c \in Clients, DeleteRow(c)
      PROVE  CarriedInv'
  <2> DEFINE g == op[c].feed
  <2>1. /\ live' = live \ {g} /\ Return(c)
        /\ UNCHANGED <<entry, source, carried, cut>>
    BY <1>5 DEF DeleteRow, tableVars, ghostVars, placeVars
  <2>2. ASSUME NEW f \in Feeds, Gone(f)
        PROVE  Gone(f)'
    <3>1. CASE f = g
      BY <2>1, <3>1 DEF Gone
    <3>2. CASE f # g
      <4>1. Deleting(f) => Deleting(f)'
        BY <2>1, <3>2, HandAfterReturn DEF Deleting, TypeInv
      <4> QED
        BY <2>1, <2>2, <4>1 DEF Gone
    <3> QED
      BY <3>1, <3>2
  <2>3. \A f \in Feeds : \A item \in carried[f] : Kept(item) => Kept(item)'
    BY <2>1, KeptStays
  <2> QED
    BY <2>1, <2>2, <2>3, CarriedStep
<1>6. ASSUME NEW c \in Clients, MigrateEntries(c) \/ MigrateSources(c)
      PROVE  CarriedInv'
  <2>1. /\ UNCHANGED <<live, carried, cut>> /\ op[c].at # "row"
        /\ \E step : Go(c, step)
    BY <1>6 DEF MigrateEntries, MigrateSources, Backfill, ghostVars, placeVars
  <2>2. \A f \in Feeds : Gone(f) => Gone(f)'
    BY <2>1, DeletingAfter DEF Gone
  <2>3. ASSUME NEW i \in Ids, entry[i] # NULL, source[i] # NULL
        PROVE  entry'[i] = entry[i] /\ source'[i] = source[i]
    BY <1>6, <2>3, MissingRows DEF MigrateEntries, MigrateSources, Backfill, ghostVars
  <2>4. ASSUME NEW f \in Feeds, NEW item \in carried[f], Kept(item)
        PROVE  Kept(item)'
    <3>1. entry[item.id] # NULL /\ source[item.id] # NULL
      BY <2>4, NullIsNothing DEF Kept
    <3>2. entry'[item.id] = entry[item.id] /\ source'[item.id] = source[item.id]
      BY <1>0, <2>3, <3>1
    <3> QED
      BY <2>1, <2>4, <3>2, KeptStays
  <2> QED
    BY <2>1, <2>2, <2>4, CarriedStep
<1> QED
  BY <1>1, <1>2, <1>3, <1>4, <1>5, <1>6, StepKinds

\* What a subscribed feed ever carried stays in the store, through refreshes of any feed,
\* deletions of others, migrations and kills, but for an article that another feed carried
\* too and that went with it: if a guid that is not blank stands for one publication.
THEOREM ArticlesStay == Spec => []ArticlesLeaveWithTheirFeed
<1>1. Init => CarriedInv
  BY DEF Init, CarriedInv
<1>2. TypeInv /\ CarriedInv => ArticlesLeaveWithTheirFeed
  <2> SUFFICES ASSUME TypeInv, CarriedInv, NEW f \in live \ cut, ~Deleting(f),
                      NEW item \in carried[f]
               PROVE  \/ entry[item.id] # NULL /\ entry[item.id].pub = item.pub
                      \/ item.external = Blank
                      \/ \E g \in Feeds \ {f} :
                            /\ g \notin live \/ g \in cut \/ Deleting(g)
                            /\ item.id \in {other.id : other \in carried[g]}
    BY DEF ArticlesLeaveWithTheirFeed
  <2>1. f \in Feeds /\ ~Gone(f)
    BY DEF Gone, TypeInv, BoundsOK
  <2> QED
    BY <2>1 DEF CarriedInv, Kept, Excused, Gone, CarriedIds
<1> QED
  BY <1>1, <1>2, TypeInvHolds, NextCarriedInv, PTL DEF Spec

-----------------------------------------------------------------------------
(***************************************************************************)
(* States, and what peers are told                                         *)
(***************************************************************************)
Holds(c, i) == op[c].at \in {"patch", "state", "text"} /\ op[c].id = i

\* Of an entry that no two calls had in hand at once: its flags are those wanted, and what
\* the call has in hand still follows from what is stored.
Undisturbed(i) ==
    /\ flags[i] # NULL => flags[i] = wanted[i]
    /\ \A c, d \in Clients : Holds(c, i) /\ Holds(d, i) => c = d
    /\ \A c \in Clients : Holds(c, i) =>
          /\ op[c].at = "patch" =>
                flags[i] # NULL /\ op[c].flags = Patched(flags[i], op[c].patch)
          /\ op[c].at = "state" => flags[i] = op[c].flags
          /\ op[c].at = "text" /\ i \in Notes => content[i] = op[c].text

\* The state is told but while its event is pending, and so is the text.
Told(i) ==
    /\ flags[i] # NULL /\ (\A c \in Clients : Holds(c, i) => op[c].at # "state") =>
          told[i] = flags[i]
    /\ /\ i \in Notes /\ entry[i] # NULL
       /\ \A c \in Clients : Holds(c, i) => op[c].at # "text"
       => toldText[i] = content[i]

NoteStays(i) ==
    i \in Notes /\ entry[i] # NULL =>
        entry[i].kind = "note" /\ source[i] = User /\ content[i] # NULL

RowInv(i) ==
    /\ i \notin raced => Undisturbed(i)
    /\ i \notin raced /\ i \notin cut => Told(i)
    /\ NoteStays(i)

StateInv == \A i \in Ids : RowInv(i)

\* A step that has nothing to do with the state of an entry.
SameRow(i) ==
    /\ flags'[i] = flags[i] /\ wanted'[i] = wanted[i] /\ told'[i] = told[i]
    /\ i \in Notes =>
          /\ entry'[i] = entry[i] /\ source'[i] = source[i]
          /\ content'[i] = content[i] /\ toldText'[i] = toldText[i]
    /\ raced \subseteq raced' /\ cut \subseteq cut'
    /\ \A d \in Clients : Holds(d, i) \/ Holds(d, i)' => op'[d] = op[d]

LEMMA RowFrame ==
    ASSUME NEW i \in Ids, RowInv(i), SameRow(i)
    PROVE  RowInv(i)'
<1>1. \A d \in Clients : Holds(d, i) <=> Holds(d, i)'
  BY DEF SameRow, Holds
<1>2. NoteStays(i)'
  BY DEF RowInv, NoteStays, SameRow
<1>3. ASSUME i \notin raced'
      PROVE  Undisturbed(i)'
  BY <1>1, <1>3 DEF RowInv, Undisturbed, SameRow
<1>4. ASSUME i \notin raced', i \notin cut'
      PROVE  Told(i)'
  BY <1>1, <1>4 DEF RowInv, Told, SameRow
<1> QED
  BY <1>2, <1>3, <1>4 DEF RowInv

\* Of the clients only c moves, and neither before nor after has it the entry in hand.
LEMMA HandsOff ==
    ASSUME HandsOK, NEW c \in Clients, NEW step, Go(c, step), NEW i,
           ~Holds(c, i), step.at \notin {"patch", "state", "text"} \/ step.id # i
    PROVE  \A d \in Clients : Holds(d, i) \/ Holds(d, i)' => op'[d] = op[d]
  BY HandAfter DEF Holds

LEMMA HandsOffReturn ==
    ASSUME HandsOK, NEW c \in Clients, Return(c), NEW i, ~Holds(c, i)
    PROVE  \A d \in Clients : Holds(d, i) \/ Holds(d, i)' => op'[d] = op[d]
  BY HandsOff DEF Return, Idle

LEMMA HeldIsMarked ==
    ASSUME NEW i, Mark(i)
    PROVE  /\ raced \subseteq raced'
           /\ i \notin raced' => i \notin raced /\ \A c \in Clients : ~Holds(c, i)
  BY DEF Mark, Held, Holds

LEMMA CallerHoldsNothing ==
    ASSUME NEW c \in Clients, Call(c), NEW i
    PROVE  ~Holds(c, i)
  BY DEF Call, Idle, Holds

LEMMA OldFlagsAre ==
    ASSUME BoundsOK, NEW i
    PROVE  /\ i \in OldIds => OldFlags(i) = OldRow(i).flags
           /\ i \notin OldIds => OldFlags(i) = {}
<1>1. ASSUME i \in OldIds
      PROVE  OldFlags(i) = OldRow(i).flags
  <2>1. OldRow(i) \in old /\ OldRow(i).id = i
    BY <1>1, OldRowType
  <2>2. \A p \in old : p.id = i => p = OldRow(i)
    BY <2>1, EntryStoreAssumptions DEF BoundsOK
  <2>3. {p \in old : p.id = i} = {OldRow(i)}
    BY <2>1, <2>2
  <2> QED
    BY <2>3 DEF OldFlags
<1>2. ASSUME i \notin OldIds
      PROVE  OldFlags(i) = {}
  BY <1>2 DEF OldFlags, OldIds
<1> QED
  BY <1>1, <1>2

\* An article that gets its first state: the flags of its old row, or none.
LEMMA FirstState ==
    ASSUME TypeInv, NEW i \in Ids, i \notin Notes, RowInv(i), flags[i] = NULL,
           flags'[i] # NULL, wanted'[i] = OldFlags(i), told'[i] = OldFlags(i),
           i \notin raced' => flags'[i] = OldFlags(i),
           raced \subseteq raced', cut \subseteq cut',
           \A d \in Clients : Holds(d, i) \/ Holds(d, i)' => op'[d] = op[d]
    PROVE  RowInv(i)'
<1>1. \A d \in Clients : Holds(d, i)' => Holds(d, i) /\ op'[d] = op[d]
  BY DEF Holds
<1>2. ASSUME i \notin raced', NEW d \in Clients, Holds(d, i)
      PROVE  op[d].at = "text"
  <2>1. Undisturbed(i)
    BY <1>2 DEF RowInv
  <2>2. op[d].at = "state" => op[d].flags # NULL
    BY NullIsNothing DEF TypeInv, HandsOK, HandOK
  <2> QED
    BY <1>2, <2>1, <2>2 DEF Undisturbed, Holds
<1>3. ASSUME i \notin raced'
      PROVE  Undisturbed(i)'
  <2>1. \A d, e \in Clients : Holds(d, i) /\ Holds(e, i) => d = e
    BY <1>3 DEF RowInv, Undisturbed
  <2> QED
    BY <1>1, <1>2, <1>3, <2>1 DEF Undisturbed
<1>4. i \notin raced' => Told(i)'
  BY DEF Told
<1> QED
  BY <1>3, <1>4 DEF RowInv, NoteStays


LEMMA NotesAreNotOld ==
    ASSUME BoundsOK, NEW n \in Notes
    PROVE  n \in Ids /\ n \notin OldIds /\ n \notin Articles
  BY EntryStoreAssumptions DEF BoundsOK, OldIds, Ids, Articles

\* A step of a client that has no state and no text in hand, before or after it.
LEMMA EmptyHanded ==
    ASSUME TypeInv, StateInv, NEW c \in Clients, NEW step, Go(c, step),
           op[c].at \notin {"patch", "state", "text"},
           step.at \notin {"patch", "state", "text"},
           UNCHANGED <<flags, wanted, told, toldText, raced, cut>>,
           \A n \in Notes : /\ entry'[n] = entry[n] /\ source'[n] = source[n]
                            /\ content'[n] = content[n]
    PROVE  StateInv'
<1>1. ASSUME NEW i \in Ids
      PROVE  RowInv(i)'
  <2>1. \A d \in Clients : Holds(d, i) \/ Holds(d, i)' => op'[d] = op[d]
    BY HandsOff DEF TypeInv, Holds
  <2>2. SameRow(i)
    BY <2>1 DEF SameRow
  <2> QED
    BY <2>2, RowFrame DEF StateInv
<1> QED
  BY <1>1 DEF StateInv

LEMMA RefreshKeepsStates ==
    ASSUME TypeInv, StateInv, NEW c \in Clients, Refresh(c)
    PROVE  StateInv'
<1>1. ASSUME NEW f \in Feeds, NEW d \in Documents, BeginRefresh(c, f, d)
      PROVE  StateInv'
  <2> DEFINE step == [at |-> "items", feed |-> f, items |-> ParseFeed(d)]
  <2>1. /\ Go(c, step) /\ op[c] = Idle
        /\ UNCHANGED <<tableVars, wanted, told, toldText, raced, cut>>
    BY <1>1 DEF BeginRefresh, Call, ghostVars, placeVars
  <2>2. op[c].at \notin {"patch", "state", "text"} /\ step.at \notin {"patch", "state", "text"}
    BY <2>1 DEF Idle
  <2> HIDE DEF step
  <2> QED
    BY <2>1, <2>2, EmptyHanded DEF tableVars
<1>2. ASSUME UpsertItems(c)
      PROVE  StateInv'
  <2> DEFINE new == ItemRows(op[c].items)
  <2>1. op[c].at = "items" /\ op[c].items \in Batches
    BY <1>2 DEF UpsertItems, TypeInv, HandsOK, HandOK
  <2>2. DOMAIN new \subseteq Articles
    BY <2>1, NewRows
  <2>3. /\ UpsertEntries(new, op[c].feed) /\ Return(c)
        /\ UNCHANGED <<toldText, cut>>
        /\ raced' = raced \cup
              {o.id : o \in {p \in old : p.id \in DOMAIN new /\ flags[p.id] = NULL}}
    BY <1>2 DEF UpsertItems
  <2> HIDE DEF new
  <2>4. ASSUME NEW i \in Ids
        PROVE  RowInv(i)'
    <3>1. \A d \in Clients : Holds(d, i) \/ Holds(d, i)' => op'[d] = op[d]
      BY <2>1, <2>3, HandsOffReturn DEF TypeInv, Holds
    <3>2. RowInv(i)
      BY DEF StateInv
    <3>3. CASE i \notin DOMAIN new \/ flags[i] # NULL
      <4>1. flags'[i] = flags[i] /\ wanted'[i] = wanted[i] /\ told'[i] = told[i]
        BY <2>3, <3>3 DEF UpsertEntries, Expect
      <4>2. i \in Notes => i \notin DOMAIN new
        BY <2>2, NotesAreNotOld DEF TypeInv
      <4>3. i \in Notes => /\ entry'[i] = entry[i] /\ source'[i] = source[i]
                           /\ content'[i] = content[i]
        BY <2>3, <4>2 DEF UpsertEntries
      <4>4. SameRow(i)
        BY <2>3, <3>1, <4>1, <4>3 DEF SameRow
      <4> QED
        BY <3>2, <4>4, RowFrame
    <3>4. CASE i \in DOMAIN new /\ flags[i] = NULL
      <4>1. i \notin Notes
        BY <2>2, <3>4, NotesAreNotOld DEF TypeInv
      <4>2. flags'[i] = {} /\ wanted'[i] = OldFlags(i) /\ told'[i] = OldFlags(i)
        BY <2>3, <3>4 DEF UpsertEntries, Expect
      <4>3. i \in OldIds => i \in raced'
        BY <2>3, <3>4 DEF OldIds
      <4>4. i \notin OldIds => OldFlags(i) = {}
        BY OldFlagsAre DEF TypeInv
      <4>5. raced \subseteq raced' /\ cut \subseteq cut' /\ flags'[i] # NULL
        BY <2>3, <4>2, NullIsNothing
      <4> QED
        BY <3>1, <3>2, <3>4, <4>1, <4>2, <4>3, <4>4, <4>5, FirstState
    <3> QED
      BY <3>3, <3>4
  <2> QED
    BY <2>4 DEF StateInv
<1> QED
  BY <1>1, <1>2 DEF Refresh

\* A note that is written: the row, its text, its first flags, and what is left of others.
LEMMA NoteUpserted ==
    ASSUME TypeInv, NEW n \in Notes, NEW text \in Texts, NEW url \in {Absent, NoteUrl},
           UpsertEntries(Note(n, url, text), User)
    PROVE  /\ n \in Ids /\ text # NULL
           /\ entry'[n] # NULL /\ entry'[n].kind = "note" /\ source'[n] = User
           /\ content'[n] = text
           /\ flags[n] = NULL => flags'[n] = {} /\ wanted'[n] = {} /\ told'[n] = {}
           /\ flags[n] # NULL => /\ flags'[n] = flags[n] /\ wanted'[n] = wanted[n]
                                 /\ told'[n] = told[n]
           /\ \A i \in Ids \ {n} :
                 /\ flags'[i] = flags[i] /\ wanted'[i] = wanted[i] /\ told'[i] = told[i]
                 /\ entry'[i] = entry[i] /\ source'[i] = source[i] /\ content'[i] = content[i]
<1> DEFINE new == Note(n, url, text)
<1>1. DOMAIN new = {n} /\ n \in Ids /\ new[n].text = text /\ text \in AllTexts
  BY DEF Note, Ids, AllTexts
<1>2. text # NULL /\ new[n].row # NULL /\ new[n].row.kind = "note"
  <2>1. new[n].row \in Entries /\ new[n].row.kind = "note"
    BY DEF Note, Entries
  <2> HIDE DEF new
  <2> QED
    BY <1>1, <2>1, NullIsNothing
<1>3. OldFlags(n) = {}
  BY OldFlagsAre, NotesAreNotOld DEF TypeInv
<1>4. UpsertEntries(new, User)
  OBVIOUS
<1> HIDE DEF new
<1>5. /\ entry'[n] = new[n].row /\ source'[n] = User /\ content'[n] = text
      /\ \A i \in Ids \ {n} :
            entry'[i] = entry[i] /\ source'[i] = source[i] /\ content'[i] = content[i]
  BY <1>1, <1>4 DEF UpsertEntries
<1>6. /\ flags'[n] = IF flags[n] = NULL THEN {} ELSE flags[n]
      /\ \A i \in Ids \ {n} : flags'[i] = flags[i]
  BY <1>1, <1>4 DEF UpsertEntries
<1>7. \A i \in Ids :
         /\ wanted'[i] = IF i = n /\ flags[n] = NULL THEN OldFlags(i) ELSE wanted[i]
         /\ told'[i] = IF i = n /\ flags[n] = NULL THEN OldFlags(i) ELSE told[i]
  BY <1>1, <1>4 DEF UpsertEntries, Expect
<1> QED
  BY <1>1, <1>2, <1>3, <1>5, <1>6, <1>7

LEMMA CreateKeepsStates ==
    ASSUME TypeInv, StateInv, NEW c \in Clients, NEW n \in Notes, NEW text \in Texts,
           NEW url \in {Absent, NoteUrl},
           CreateEntry(c, n, url, text) \/ ReplayEntry(c, n, url, text)
    PROVE  StateInv'
<1> DEFINE step == [at |-> "text", id |-> n, text |-> text]
<1>1. UpsertEntries(Note(n, url, text), User) /\ Mark(n) /\ Call(c) /\ cut' = cut
  BY DEF CreateEntry, ReplayEntry, placeVars
<1>2. \/ Go(c, step) /\ toldText' = toldText
      \/ op' = op /\ toldText' = [toldText EXCEPT ![n] = text]
  BY DEF CreateEntry, ReplayEntry
<1>3. step.at = "text" /\ step.id = n /\ step.text = text
  OBVIOUS
<1> HIDE DEF step
<1>4. \A i \in Ids : ~Holds(c, i)
  BY <1>1, CallerHoldsNothing
<1>5. raced \subseteq raced' /\ (n \notin raced' => n \notin raced /\ \A d \in Clients : ~Holds(d, n))
  BY <1>1, HeldIsMarked
<1>6. n \in Ids /\ RowInv(n)
  BY NotesAreNotOld DEF TypeInv, StateInv
<1>7. ASSUME NEW i \in Ids, i # n
      PROVE  RowInv(i)'
  <2>1. \A d \in Clients : Holds(d, i) \/ Holds(d, i)' => op'[d] = op[d]
    BY <1>2, <1>3, <1>4, <1>7, HandsOff DEF TypeInv
  <2>2. toldText'[i] = toldText[i]
    BY <1>2, <1>7 DEF TypeInv, GhostsOK
  <2>3. SameRow(i)
    BY <1>1, <1>5, <1>7, <2>1, <2>2, NoteUpserted DEF SameRow
  <2> QED
    BY <2>3, RowFrame DEF StateInv
<1>8. NoteStays(n)'
  BY <1>1, NoteUpserted DEF NoteStays
<1>9. ASSUME NEW d \in Clients, Holds(d, n)', n \notin raced'
      PROVE  Go(c, step) /\ d = c /\ op'[d] = step
  <2>1. ~Holds(d, n)
    BY <1>5, <1>9
  <2>2. op' # op
    BY <1>9, <2>1 DEF Holds
  <2>3. op'[d] = IF d = c THEN step ELSE op[d]
    BY <1>2, <2>2, HandAfter DEF TypeInv
  <2> QED
    BY <1>2, <1>9, <2>1, <2>2, <2>3 DEF Holds
<1>10. ASSUME n \notin raced'
       PROVE  Undisturbed(n)'
  <2>1. flags'[n] = wanted'[n]
    BY <1>1, <1>5, <1>6, <1>10, NoteUpserted DEF Undisturbed, RowInv
  <2>2. \A d, e \in Clients : Holds(d, n)' /\ Holds(e, n)' => d = e
    BY <1>9, <1>10
  <2>3. content'[n] = text
    BY <1>1, NoteUpserted
  <2>4. \A d \in Clients : Holds(d, n)' => op'[d].at = "text" /\ content'[n] = op'[d].text
    BY <1>3, <1>9, <1>10, <2>3
  <2> QED
    BY <2>1, <2>2, <2>4 DEF Undisturbed
<1>11. ASSUME n \notin raced', n \notin cut'
       PROVE  Told(n)'
  <2>1. flags'[n] = told'[n]
    BY <1>1, <1>5, <1>6, <1>11, NoteUpserted DEF RowInv, Told
  <2>2. ASSUME \A d \in Clients : Holds(d, n)' => op'[d].at # "text"
        PROVE  toldText'[n] = content'[n]
    <3>1. ~Go(c, step)
      BY <1>3, <2>2, HandAfter DEF Holds, TypeInv
    <3> QED
      BY <1>1, <1>2, <1>6, <3>1, NoteUpserted DEF TypeInv, GhostsOK
  <2> QED
    BY <2>1, <2>2 DEF Told
<1> QED
  BY <1>7, <1>8, <1>10, <1>11 DEF StateInv, RowInv

\* What is stored of a text: the text, or when none is given the one there is.
LEMMA TextStored ==
    ASSUME TypeInv, NEW i \in Ids, NEW text, UpsertItemContent(i, text)
    PROVE  /\ text # Absent => content'[i] = text
           /\ text = Absent /\ content[i] # NULL => content'[i] = content[i]
           /\ \A j \in Ids \ {i} : content'[j] = content[j]
  BY DEF UpsertItemContent, TypeInv, TablesOK

LEMMA ReplayContentKeepsStates ==
    ASSUME TypeInv, StateInv, NEW c \in Clients, NEW n \in Notes,
           NEW text \in Texts \cup {Absent}, ReplayContent(c, n, text)
    PROVE  StateInv'
<1>1. /\ UpsertItemContent(n, text) /\ Mark(n) /\ entry[n] # NULL
      /\ toldText' = [toldText EXCEPT ![n] = IF text = Absent THEN @ ELSE text]
      /\ UNCHANGED <<entry, source, flags, op, wanted, told, cut>>
  BY DEF ReplayContent, placeVars
<1>2. raced \subseteq raced' /\ (n \notin raced' => n \notin raced /\ \A d \in Clients : ~Holds(d, n))
  BY <1>1, HeldIsMarked
<1>3. n \in Ids /\ RowInv(n)
  BY NotesAreNotOld DEF TypeInv, StateInv
<1>4. text # NULL
  BY NullIsNothing DEF AllTexts
<1>5. ASSUME NEW i \in Ids, i # n
      PROVE  RowInv(i)'
  <2>1. toldText'[i] = toldText[i] /\ content'[i] = content[i]
    BY <1>1, <1>3, <1>5, TextStored DEF TypeInv, GhostsOK
  <2>2. SameRow(i)
    BY <1>1, <1>2, <2>1 DEF SameRow
  <2> QED
    BY <2>2, RowFrame DEF StateInv
<1>6. content[n] # NULL
  BY <1>1, <1>3 DEF RowInv, NoteStays
<1>7. NoteStays(n)'
  BY <1>1, <1>3, <1>4, <1>6, TextStored DEF RowInv, NoteStays
<1>8. n \notin raced' => Undisturbed(n)'
  BY <1>1, <1>2, <1>3 DEF RowInv, Undisturbed, Holds
<1>9. ASSUME n \notin raced', n \notin cut'
      PROVE  Told(n)'
  <2>1. Told(n) /\ \A d \in Clients : ~Holds(d, n)
    BY <1>1, <1>2, <1>3, <1>9 DEF RowInv
  <2>2. toldText'[n] = IF text = Absent THEN toldText[n] ELSE text
    BY <1>1, <1>3 DEF TypeInv, GhostsOK
  <2>3. toldText'[n] = content'[n]
    BY <1>1, <1>3, <1>6, <2>1, <2>2, TextStored DEF Told
  <2> QED
    BY <1>1, <2>1, <2>3 DEF Told, Holds
<1> QED
  BY <1>5, <1>7, <1>8, <1>9 DEF StateInv, RowInv

\* A client that gets an entry in hand that nobody had; others keep what they have.
LEMMA OneHolder ==
    ASSUME TypeInv, NEW c \in Clients, NEW step, Go(c, step), NEW i \in Ids,
           step.id = i, \A d \in Clients : ~Holds(d, i)
    PROVE  \A d \in Clients : Holds(d, i)' => d = c /\ op'[d] = step
  BY HandAfter DEF Holds, TypeInv

\* The only client that had an entry in hand lets it go.
LEMMA NoHolder ==
    ASSUME TypeInv, NEW c \in Clients, Return(c), NEW i \in Ids, Holds(c, i),
           \A d, e \in Clients : Holds(d, i) /\ Holds(e, i) => d = e
    PROVE  \A d \in Clients : ~Holds(d, i)'
  BY HandAfterReturn DEF Holds, TypeInv, Idle

LEMMA StoreTextKeepsStates ==
    ASSUME TypeInv, StateInv, NEW c \in Clients, op[c].at = "page",
           NEW text \in AllTexts, text # Absent, StoreText(c, text)
    PROVE  StateInv'
<1>0. PICK i \in Ids : i = op[c].id
  BY DEF TypeInv, HandsOK, HandOK
<1> DEFINE step == [at |-> "text", id |-> i, text |-> text]
<1>1. i \in Ids /\ text # NULL
  BY NullIsNothing
<1>2. UNCHANGED <<entry, source, flags, wanted, told, toldText, cut>>
  BY DEF StoreText, placeVars
<1>3. step.at = "text" /\ step.id = i /\ step.text = text
  OBVIOUS
<1>4. \/ entry[i] = NULL /\ Return(c) /\ UNCHANGED <<content, raced>>
      \/ UpsertItemContent(i, text) /\ ~IsSyncable(i) /\ Return(c) /\ raced' = raced
      \/ UpsertItemContent(i, text) /\ Go(c, step) /\ Mark(i)
  BY <1>0 DEF StoreText
<1> HIDE DEF step
<1>5. RowInv(i)
  BY <1>1 DEF StateInv
<1>6. \A j \in Ids : ~Holds(c, j)
  BY DEF Holds
<1>7. CASE entry[i] = NULL /\ Return(c) /\ UNCHANGED <<content, raced>>
  <2>1. Go(c, Idle) /\ Idle.at \notin {"patch", "state", "text"}
    BY <1>7 DEF Return, Idle
  <2> QED
    BY <1>2, <1>7, <2>1, EmptyHanded
<1>8. CASE UpsertItemContent(i, text) /\ ~IsSyncable(i) /\ Return(c) /\ raced' = raced
  <2>1. Go(c, Idle) /\ Idle.at \notin {"patch", "state", "text"}
    BY <1>8 DEF Return, Idle
  <2>2. i \in Notes => entry[i] = NULL
    BY <1>1, <1>5, <1>8, NullIsNothing DEF IsSyncable, RowInv, NoteStays
  <2>3. ASSUME NEW j \in Ids
        PROVE  RowInv(j)'
    <3>1. \A d \in Clients : Holds(d, j) \/ Holds(d, j)' => op'[d] = op[d]
      BY <1>6, <2>1, HandsOff DEF TypeInv
    <3>2. CASE j \notin Notes \/ j # i
      <4>1. j \in Notes => content'[j] = content[j]
        BY <1>1, <1>8, <3>2, TextStored
      <4>2. SameRow(j)
        BY <1>2, <1>8, <3>1, <4>1 DEF SameRow
      <4> QED
        BY <4>2, RowFrame DEF StateInv
    <3>3. CASE j \in Notes /\ j = i
      <4>1. flags[j] = NULL /\ entry[j] = NULL
        BY <2>2, <3>3 DEF TypeInv, TablesOK
      <4>2. \A d \in Clients : Holds(d, j)' => Holds(d, j) /\ op'[d] = op[d]
        BY <3>1 DEF Holds
      <4>3. NoteStays(j)' /\ Told(j)'
        BY <1>2, <4>1 DEF NoteStays, Told
      <4>4. ASSUME j \notin raced'
            PROVE  Undisturbed(j)'
        <5>1. Undisturbed(j)
          BY <1>8, <4>4 DEF StateInv, RowInv
        <5>2. \A d \in Clients : Holds(d, j) => op[d].at = "text"
          <6>1. \A d \in Clients : Holds(d, j) /\ op[d].at = "state" => op[d].flags # NULL
            BY NullIsNothing DEF TypeInv, HandsOK, HandOK
          <6> QED
            BY <4>1, <5>1, <6>1 DEF Undisturbed, Holds
        <5>3. \A d \in Clients : ~Holds(d, j)
          <6>1. \A d \in Clients : Holds(d, j) => op[d].text # NULL
            BY <5>2, NullIsNothing DEF TypeInv, HandsOK, HandOK
          <6>2. content[j] = NULL
            BY <4>1 DEF TypeInv, TablesOK
          <6> QED
            BY <3>3, <5>1, <5>2, <6>1, <6>2 DEF Undisturbed
        <5> QED
          BY <1>2, <4>1, <4>2, <5>3 DEF Undisturbed
      <4> QED
        BY <4>3, <4>4 DEF RowInv
    <3> QED
      BY <3>2, <3>3
  <2> QED
    BY <2>3 DEF StateInv
<1>9. CASE UpsertItemContent(i, text) /\ Go(c, step) /\ Mark(i)
  <2>1. raced \subseteq raced' /\ (i \notin raced' => i \notin raced /\ \A d \in Clients : ~Holds(d, i))
    BY <1>9, HeldIsMarked
  <2>2. ASSUME NEW j \in Ids, j # i
        PROVE  RowInv(j)'
    <3>1. \A d \in Clients : Holds(d, j) \/ Holds(d, j)' => op'[d] = op[d]
      BY <1>3, <1>6, <1>9, <2>2, HandsOff DEF TypeInv
    <3>2. content'[j] = content[j]
      BY <1>1, <1>9, <2>2, TextStored
    <3>3. SameRow(j)
      BY <1>2, <2>1, <3>1, <3>2 DEF SameRow
    <3> QED
      BY <3>3, RowFrame DEF StateInv
  <2>3. content'[i] = text
    BY <1>1, <1>9, TextStored
  <2>5. NoteStays(i)'
    BY <1>1, <1>2, <1>5, <2>3 DEF RowInv, NoteStays
  <2>4. op'[c] = step
    BY <1>9, HandAfter DEF TypeInv
  <2>6. ASSUME i \notin raced'
        PROVE  \A d \in Clients : Holds(d, i)' => d = c /\ op'[d] = step
    <3>1. \A d \in Clients : ~Holds(d, i)
      BY <2>1, <2>6
    <3> QED
      BY <1>1, <1>3, <1>9, <3>1, OneHolder
  <2>7. ASSUME i \notin raced'
        PROVE  Undisturbed(i)'
    <3>1. Undisturbed(i)
      BY <1>5, <2>1, <2>7 DEF RowInv
    <3> QED
      BY <1>2, <1>3, <2>3, <2>6, <2>7, <3>1 DEF Undisturbed
  <2>8. ASSUME i \notin raced', i \notin cut'
        PROVE  Told(i)'
    <3>1. Told(i) /\ \A d \in Clients : ~Holds(d, i)
      BY <1>2, <1>5, <2>1, <2>8 DEF RowInv
    <3>2. Holds(c, i)' /\ op'[c].at = "text"
      BY <1>3, <2>4 DEF Holds
    <3> QED
      BY <1>2, <3>1, <3>2 DEF Told
  <2> QED
    <3>1. RowInv(i)'
      BY <2>5, <2>7, <2>8 DEF RowInv
    <3> QED
      BY <2>2, <3>1 DEF StateInv
<1> QED
  BY <1>4, <1>7, <1>8, <1>9

LEMMA AppendTextKeepsStates ==
    ASSUME TypeInv, StateInv, NEW c \in Clients, AppendText(c)
    PROVE  StateInv'
<1>1. PICK i \in Ids : i = op[c].id /\ Holds(c, i)
  BY DEF AppendText, Holds, TypeInv, HandsOK, HandOK
<1>2. /\ op[c].at = "text" /\ Return(c)
      /\ toldText' = [toldText EXCEPT ![i] = op[c].text]
      /\ UNCHANGED <<entry, source, content, flags, wanted, told, raced, cut>>
  BY <1>1 DEF AppendText, tableVars, placeVars
<1>3. RowInv(i)
  BY DEF StateInv
<1>4. ASSUME NEW j \in Ids, j # i
      PROVE  RowInv(j)'
  <2>1. \A d \in Clients : Holds(d, j) \/ Holds(d, j)' => op'[d] = op[d]
    BY <1>1, <1>2, <1>4, HandsOffReturn DEF TypeInv, Holds
  <2>2. toldText'[j] = toldText[j]
    BY <1>2, <1>4 DEF TypeInv, GhostsOK
  <2>3. SameRow(j)
    BY <1>2, <2>1, <2>2 DEF SameRow
  <2> QED
    BY <2>3, RowFrame DEF StateInv
<1>5. NoteStays(i)'
  BY <1>2, <1>3 DEF RowInv, NoteStays
<1>6. ASSUME i \notin raced'
      PROVE  Undisturbed(i) /\ \A d \in Clients : ~Holds(d, i)'
  <2>1. Undisturbed(i)
    BY <1>2, <1>3, <1>6 DEF RowInv
  <2> QED
    BY <1>1, <1>2, <2>1, NoHolder DEF Undisturbed
<1>7. i \notin raced' => Undisturbed(i)'
  BY <1>2, <1>6 DEF Undisturbed
<1>8. ASSUME i \notin raced', i \notin cut'
      PROVE  Told(i)'
  <2>1. Told(i) /\ \A d \in Clients : Holds(d, i) => d = c
    BY <1>1, <1>2, <1>3, <1>6, <1>8 DEF RowInv, Undisturbed
  <2>2. flags'[i] # NULL => told'[i] = flags'[i]
    BY <1>2, <2>1 DEF Told
  <2>3. i \in Notes => toldText'[i] = content'[i]
    BY <1>1, <1>2, <1>6, <1>8 DEF Undisturbed, TypeInv, GhostsOK
  <2> QED
    BY <2>2, <2>3 DEF Told
<1>9. RowInv(i)'
  BY <1>5, <1>7, <1>8 DEF RowInv
<1> QED
  BY <1>4, <1>9 DEF StateInv

LEMMA WriteKeepsStates ==
    ASSUME TypeInv, StateInv, NEW c \in Clients, Write(c)
    PROVE  StateInv'
<1>1. ASSUME NEW i \in Ids, FetchFulltext(c, i)
      PROVE  StateInv'
  <2>1. PICK detail : Go(c, [at |-> "page", id |-> i, text |-> detail.text])
    BY <1>1 DEF FetchFulltext
  <2> DEFINE step == [at |-> "page", id |-> i, text |-> detail.text]
  <2>2. Go(c, step) /\ step.at = "page" /\ op[c].at = "idle"
    BY <1>1, <2>1 DEF FetchFulltext, Call, Idle
  <2> HIDE DEF step
  <2> QED
    BY <1>1, <2>2, EmptyHanded DEF FetchFulltext, tableVars, ghostVars, placeVars
<1>2. CASE FetchFails(c)
  <2>1. Go(c, Idle) /\ Idle.at = "idle"
    BY <1>2 DEF FetchFails, Return, Idle
  <2> QED
    BY <1>2, <2>1, EmptyHanded DEF FetchFails, tableVars, ghostVars, placeVars
<1>3. ASSUME NEW text \in Texts, StoreFulltext(c, text)
      PROVE  StateInv'
  BY <1>3, StoreTextKeepsStates, EntryStoreAssumptions DEF StoreFulltext, AllTexts
<1>4. CASE StoreMarkdown(c)
  <2>1. op[c].at = "page" /\ op[c].text # Absent /\ StoreText(c, op[c].text)
    BY <1>4 DEF StoreMarkdown
  <2>2. op[c].text \in AllTexts
    BY <2>1 DEF TypeInv, HandsOK, HandOK
  <2> QED
    BY <2>1, <2>2, StoreTextKeepsStates
<1> QED
  BY <1>1, <1>2, <1>3, <1>4, CreateKeepsStates, ReplayContentKeepsStates,
     AppendTextKeepsStates DEF Write

LEMMA PatchKeepsStates ==
    ASSUME TypeInv, StateInv, NEW c \in Clients, NEW i \in Ids, NEW patch, NEW quiet,
           Call(c), PatchItemState(c, i, patch, quiet)
    PROVE  StateInv'
<1>1. PICK state \in GetItemState(i) :
         Go(c, [at |-> "patch", id |-> i, flags |-> Patched(state, patch),
                patch |-> patch, quiet |-> quiet])
  BY DEF PatchItemState
<1> DEFINE step == [at |-> "patch", id |-> i, flags |-> Patched(state, patch),
                    patch |-> patch, quiet |-> quiet]
<1>2. state = flags[i] /\ flags[i] # NULL
  BY DEF GetItemState
<1>3. /\ Go(c, step) /\ step.at = "patch" /\ step.id = i /\ step.patch = patch
      /\ step.flags = Patched(flags[i], patch)
  BY <1>1, <1>2
<1> HIDE DEF step
<1>4. /\ Mark(i)
      /\ UNCHANGED <<entry, source, content, flags, wanted, told, toldText, cut>>
  BY DEF PatchItemState, tableVars, placeVars
<1>5. raced \subseteq raced' /\ (i \notin raced' => i \notin raced /\ \A d \in Clients : ~Holds(d, i))
  BY <1>4, HeldIsMarked
<1>6. ASSUME NEW j \in Ids, j # i
      PROVE  RowInv(j)'
  <2>1. \A d \in Clients : Holds(d, j) \/ Holds(d, j)' => op'[d] = op[d]
    BY <1>3, <1>6, CallerHoldsNothing, HandsOff DEF TypeInv
  <2>2. SameRow(j)
    BY <1>4, <1>5, <2>1 DEF SameRow
  <2> QED
    BY <2>2, RowFrame DEF StateInv
<1>7. RowInv(i)
  BY DEF StateInv
<1>8. ASSUME i \notin raced'
      PROVE  \A d \in Clients : Holds(d, i)' => d = c /\ op'[d] = step
  <2>1. \A d \in Clients : ~Holds(d, i)
    BY <1>5, <1>8
  <2> QED
    BY <1>3, <2>1, OneHolder
<1>9. ASSUME i \notin raced'
      PROVE  Undisturbed(i)'
  <2>1. Undisturbed(i)
    BY <1>5, <1>7, <1>9 DEF RowInv
  <2> QED
    BY <1>2, <1>3, <1>4, <1>8, <1>9, <2>1 DEF Undisturbed
<1>10. ASSUME i \notin raced', i \notin cut'
       PROVE  Told(i)'
  <2>1. Told(i) /\ \A d \in Clients : ~Holds(d, i)
    BY <1>4, <1>5, <1>7, <1>10 DEF RowInv
  <2> QED
    BY <1>4, <2>1 DEF Told
<1>11. RowInv(i)'
  BY <1>4, <1>7, <1>9, <1>10 DEF RowInv, NoteStays
<1> QED
  BY <1>6, <1>11 DEF StateInv

LEMMA UpdateKeepsStates ==
    ASSUME TypeInv, StateInv, NEW c \in Clients, UpdateState(c)
    PROVE  StateInv'
<1>1. PICK i \in Ids : i = op[c].id /\ Holds(c, i) /\ op[c].at = "patch"
  BY DEF UpdateState, Holds, TypeInv, HandsOK, HandOK
<1> DEFINE step == [at |-> "state", id |-> i, flags |-> op[c].flags]
<1>2. /\ UNCHANGED <<entry, source, content, toldText, raced, cut>>
      /\ \/ flags[i] = NULL /\ UNCHANGED <<flags, wanted>>
         \/ /\ flags[i] # NULL
            /\ flags' = [flags EXCEPT ![i] = op[c].flags]
            /\ wanted' = [wanted EXCEPT ![i] = Patched(@, op[c].patch)]
  BY <1>1 DEF UpdateState, placeVars
<1>3. \/ op[c].quiet /\ Return(c) /\ told' = [told EXCEPT ![i] = op[c].flags]
      \/ ~op[c].quiet /\ Go(c, step) /\ told' = told
  BY <1>1 DEF UpdateState
<1>4. step.at = "state" /\ step.id = i /\ step.flags = op[c].flags
  OBVIOUS
<1> HIDE DEF step
<1>5. RowInv(i)
  BY DEF StateInv
<1>6. ASSUME NEW j \in Ids, j # i
      PROVE  RowInv(j)'
  <2>1. \A d \in Clients : Holds(d, j) \/ Holds(d, j)' => op'[d] = op[d]
    <3>1. ~Holds(c, j)
      BY <1>1, <1>6 DEF Holds
    <3> QED
      BY <1>3, <1>4, <1>6, <3>1, HandsOff, HandsOffReturn DEF TypeInv
  <2>2. flags'[j] = flags[j] /\ wanted'[j] = wanted[j]
    BY <1>2, <1>6 DEF TypeInv, TablesOK, GhostsOK
  <2>3. told'[j] = told[j]
    BY <1>3, <1>6 DEF TypeInv, GhostsOK
  <2>4. SameRow(j)
    BY <1>2, <2>1, <2>2, <2>3 DEF SameRow
  <2> QED
    BY <2>4, RowFrame DEF StateInv
<1>7. ASSUME i \notin raced'
      PROVE  /\ flags[i] # NULL /\ flags[i] = wanted[i]
             /\ op[c].flags = Patched(flags[i], op[c].patch)
             /\ \A d \in Clients : Holds(d, i) => d = c
  BY <1>1, <1>2, <1>5, <1>7 DEF RowInv, Undisturbed
<1>8. ASSUME i \notin raced'
      PROVE  flags'[i] = op[c].flags /\ wanted'[i] = op[c].flags
  BY <1>2, <1>7, <1>8 DEF TypeInv, TablesOK, GhostsOK
<1>9. ASSUME i \notin raced', NEW d \in Clients, Holds(d, i)'
      PROVE  d = c /\ op'[d] = step /\ Go(c, step)
  <2>1. CASE Return(c)
    BY <1>7, <1>9, <2>1, HandAfterReturn DEF Holds, Idle, TypeInv
  <2>2. CASE Go(c, step)
    BY <1>7, <1>9, <2>2, HandAfter DEF Holds, TypeInv
  <2> QED
    BY <1>3, <2>1, <2>2
<1>10. i \notin raced' => Undisturbed(i)'
  BY <1>4, <1>8, <1>9 DEF Undisturbed
<1>11. ASSUME i \notin raced', i \notin cut'
       PROVE  Told(i)'
  <2>1. ASSUME \A d \in Clients : Holds(d, i)' => op'[d].at # "state"
        PROVE  told'[i] = flags'[i]
    <3>1. ~Go(c, step)
      BY <1>4, <2>1, HandAfter DEF Holds, TypeInv
    <3> QED
      BY <1>3, <1>8, <1>11, <3>1 DEF TypeInv, GhostsOK
  <2>2. i \in Notes /\ entry'[i] # NULL => toldText'[i] = content'[i]
    BY <1>1, <1>2, <1>5, <1>7, <1>11 DEF RowInv, Told
  <2> QED
    BY <2>1, <2>2 DEF Told
<1>12. RowInv(i)'
  BY <1>2, <1>5, <1>10, <1>11 DEF RowInv, NoteStays
<1> QED
  BY <1>6, <1>12 DEF StateInv

LEMMA AppendStateKeepsStates ==
    ASSUME TypeInv, StateInv, NEW c \in Clients, AppendState(c)
    PROVE  StateInv'
<1>1. PICK i \in Ids : i = op[c].id /\ Holds(c, i) /\ op[c].at = "state"
  BY DEF AppendState, Holds, TypeInv, HandsOK, HandOK
<1>2. /\ Return(c) /\ told' = [told EXCEPT ![i] = op[c].flags]
      /\ UNCHANGED <<entry, source, content, flags, wanted, toldText, raced, cut>>
  BY <1>1 DEF AppendState, tableVars, placeVars
<1>3. RowInv(i)
  BY DEF StateInv
<1>4. ASSUME NEW j \in Ids, j # i
      PROVE  RowInv(j)'
  <2>1. \A d \in Clients : Holds(d, j) \/ Holds(d, j)' => op'[d] = op[d]
    BY <1>1, <1>2, <1>4, HandsOffReturn DEF TypeInv, Holds
  <2>2. told'[j] = told[j]
    BY <1>2, <1>4 DEF TypeInv, GhostsOK
  <2>3. SameRow(j)
    BY <1>2, <2>1, <2>2 DEF SameRow
  <2> QED
    BY <2>3, RowFrame DEF StateInv
<1>5. ASSUME i \notin raced'
      PROVE  /\ Undisturbed(i) /\ \A d \in Clients : ~Holds(d, i)'
             /\ \A d \in Clients : Holds(d, i) => d = c
  <2>1. Undisturbed(i)
    BY <1>2, <1>3, <1>5 DEF RowInv
  <2> QED
    BY <1>1, <1>2, <2>1, NoHolder DEF Undisturbed
<1>6. i \notin raced' => Undisturbed(i)'
  BY <1>2, <1>5 DEF Undisturbed
<1>7. ASSUME i \notin raced', i \notin cut'
      PROVE  Told(i)'
  <2>1. told'[i] = flags'[i]
    BY <1>1, <1>2, <1>5, <1>7 DEF Undisturbed, TypeInv, GhostsOK
  <2>2. i \in Notes /\ entry'[i] # NULL => toldText'[i] = content'[i]
    BY <1>1, <1>2, <1>3, <1>5, <1>7 DEF RowInv, Told
  <2> QED
    BY <2>1, <2>2 DEF Told
<1>8. RowInv(i)'
  BY <1>2, <1>3, <1>6, <1>7 DEF RowInv, NoteStays
<1> QED
  BY <1>4, <1>8 DEF StateInv

LEMMA StateKeepsStates ==
    ASSUME TypeInv, StateInv, NEW c \in Clients, State(c)
    PROVE  StateInv'
<1>1. ASSUME NEW i \in Ids, NEW patch, Patch(c, i, patch)
      PROVE  StateInv'
  BY <1>1, PatchKeepsStates DEF Patch
<1>2. ASSUME NEW item \in Parsed, NEW patch, ReplayState(c, item, patch)
      PROVE  StateInv'
  <2> DEFINE all == [on |-> patch.on, off |-> Flags \ patch.on]
  <2>1. PICK i \in ResolveEntryId(item) : PatchItemState(c, i, all, TRUE)
    BY <1>2 DEF ReplayState
  <2>2. i \in Ids /\ Call(c)
    BY <1>2, <2>1, ItemFields DEF ReplayState, ResolveEntryId
  <2> HIDE DEF all
  <2> QED
    BY <2>1, <2>2, PatchKeepsStates
<1> QED
  BY <1>1, <1>2, UpdateKeepsStates, AppendStateKeepsStates DEF State

LEMMA DeleteKeepsStates ==
    ASSUME TypeInv, StateInv, NEW c \in Clients, Delete(c)
    PROVE  StateInv'
<1>1. ASSUME NEW f \in Feeds, DeleteEntries(c, f)
      PROVE  StateInv'
  <2> DEFINE step == [at |-> "row", feed |-> f]
             ids == EntriesOf(f)
  <2>1. Go(c, step) /\ step.at = "row" /\ op[c].at = "idle"
    BY <1>1 DEF DeleteEntries, Call, Idle
  <2>2. /\ UNCHANGED <<wanted, told, toldText, cut>>
        /\ raced' = raced \cup {i \in ids : Held(i)}
        /\ entry' = Without(entry, ids) /\ source' = Without(source, ids)
        /\ content' = Without(content, ids) /\ flags' = Without(flags, ids)
    BY <1>1 DEF DeleteEntries
  <2>3. \A i \in ids : i \in Ids /\ source[i] = f
    BY DEF EntriesOf
  <2> HIDE DEF step, ids
  <2>4. ASSUME NEW i \in Ids
        PROVE  /\ RowInv(i)
               /\ \A d \in Clients : Holds(d, i) \/ Holds(d, i)' => op'[d] = op[d]
    BY <2>1, HandsOff DEF StateInv, Holds, TypeInv
  <2>5. ASSUME NEW i \in Ids \ ids
        PROVE  RowInv(i)'
    <3>1. SameRow(i)
      BY <2>2, <2>4 DEF SameRow, Without
    <3> QED
      BY <2>4, <3>1, RowFrame
  <2>6. ASSUME NEW i \in ids
        PROVE  RowInv(i)'
    <3>1. flags'[i] = NULL /\ entry'[i] = NULL
      BY <2>2, <2>3 DEF Without
    <3>2. ASSUME i \notin raced', NEW d \in Clients
          PROVE  ~Holds(d, i)'
      <4>1. ~Holds(d, i)
        BY <2>2, <3>2 DEF Held, Holds
      <4> QED
        BY <2>3, <2>4, <4>1 DEF Holds
    <3> QED
      BY <3>1, <3>2 DEF RowInv, Undisturbed, Told, NoteStays
  <2> QED
    BY <2>5, <2>6 DEF StateInv
<1>2. CASE DeleteRow(c)
  <2>1. Go(c, Idle) /\ Idle.at = "idle"
    BY <1>2 DEF DeleteRow, Return, Idle
  <2> QED
    BY <1>2, <2>1, EmptyHanded DEF DeleteRow, tableVars, ghostVars, placeVars
<1> QED
  BY <1>1, <1>2 DEF Delete

LEMMA MigrationKeepsStates ==
    ASSUME TypeInv, StateInv, NEW c \in Clients, Migration(c)
    PROVE  StateInv'
<1> DEFINE Steps == {[at |-> at] : at \in {"entries", "contents", "states", "sources", "index"}}
                     \cup {Idle}
<1>1. \A step \in Steps : step.at \notin {"patch", "state", "text"}
  BY DEF Idle
<1>2. /\ \A at \in {"entries", "contents", "states", "sources", "index"} : [at |-> at] \in Steps
      /\ Idle \in Steps
  OBVIOUS
<1> HIDE DEF Steps
<1>3. op[c].at \notin {"patch", "state", "text"} /\ \E step \in Steps : Go(c, step)
  <2>1. op[c].at \notin {"patch", "state", "text"}
    BY DEF Migration, Migrate, MigrateEntries, MigrateContents, MigrateStates, MigrateSources,
           MigrateIndex, Idle
  <2>2. \E step \in Steps : Go(c, step)
    BY <1>2 DEF Migration, Migrate, MigrateEntries, MigrateContents, MigrateStates,
                MigrateSources, MigrateIndex, Backfill, Return
  <2> QED
    BY <2>1, <2>2
<1>4. ASSUME NEW n \in Notes, NEW table
      PROVE  n \notin {o.id : o \in Missing(table)}
  BY NotesAreNotOld, MissingRows DEF TypeInv
<1>5. CASE Migrate(c) \/ MigrateEntries(c) \/ MigrateContents(c) \/ MigrateSources(c)
              \/ MigrateIndex(c)
  <2>1. UNCHANGED <<flags, wanted, told, toldText, raced, cut>>
    BY <1>5 DEF Migrate, MigrateEntries, MigrateContents, MigrateSources, MigrateIndex,
                tableVars, ghostVars, placeVars
  <2>2. ASSUME NEW n \in Notes
        PROVE  /\ entry'[n] = entry[n] /\ source'[n] = source[n] /\ content'[n] = content[n]
    <3>1. n \in Ids
      BY DEF Ids
    <3>2. entry'[n] = entry[n]
      BY <1>4, <1>5, <3>1 DEF Migrate, MigrateEntries, MigrateContents, MigrateSources,
                              MigrateIndex, tableVars
    <3>3. source'[n] = source[n]
      BY <1>4, <1>5, <3>1 DEF Migrate, MigrateEntries, MigrateContents, MigrateSources,
                              MigrateIndex, Backfill, FeedOf, tableVars
    <3>4. content'[n] = content[n]
      BY <1>4, <1>5, <3>1 DEF Migrate, MigrateEntries, MigrateContents, MigrateSources,
                              MigrateIndex, Backfill, TextOf, tableVars
    <3> QED
      BY <3>2, <3>3, <3>4
  <2> QED
    BY <1>1, <1>3, <2>1, <2>2, EmptyHanded
<1>6. CASE MigrateStates(c)
  <2> DEFINE rows == Missing(flags)
  <2>1. /\ UNCHANGED <<entry, source, content, toldText, raced, cut>>
        /\ Expect({i \in Ids : flags[i] = NULL /\ flags'[i] # NULL})
        /\ flags' = [i \in Ids |-> IF Legal(rows) /\ i \in {o.id : o \in rows}
                                   THEN OldRow(i).flags ELSE flags[i]]
    BY <1>6 DEF MigrateStates, Backfill, FlagsOf, placeVars
  <2> HIDE DEF rows
  <2>2. ASSUME NEW i \in Ids
        PROVE  RowInv(i)'
    <3>1. RowInv(i) /\ \A d \in Clients : Holds(d, i) \/ Holds(d, i)' => op'[d] = op[d]
      BY <1>1, <1>3, HandsOff DEF StateInv, Holds, TypeInv
    <3>2. CASE flags[i] = NULL /\ flags'[i] # NULL
      <4>1. i \in {o.id : o \in rows} /\ flags'[i] = OldRow(i).flags
        BY <2>1, <3>2
      <4>2. i \in OldIds /\ i \notin Notes
        BY <1>4, <4>1, MissingRows DEF rows
      <4>3. flags'[i] = OldFlags(i)
        BY <4>1, <4>2, OldFlagsAre DEF TypeInv
      <4>4. wanted'[i] = OldFlags(i) /\ told'[i] = OldFlags(i)
        BY <2>1, <3>2 DEF Expect
      <4> QED
        BY <2>1, <3>1, <3>2, <4>2, <4>3, <4>4, FirstState
    <3>3. CASE ~(flags[i] = NULL /\ flags'[i] # NULL)
      <4>1. wanted'[i] = wanted[i] /\ told'[i] = told[i]
        BY <2>1, <3>3 DEF Expect
      <4>2. flags'[i] = flags[i]
        <5>1. i \in {o.id : o \in rows} => flags[i] = NULL
          BY MissingRows DEF rows
        <5> QED
          BY <2>1, <3>3, <5>1
      <4>3. SameRow(i)
        BY <2>1, <3>1, <4>1, <4>2 DEF SameRow
      <4> QED
        BY <3>1, <4>3, RowFrame
    <3> QED
      BY <3>2, <3>3
  <2> QED
    BY <2>2 DEF StateInv
<1> QED
  BY <1>5, <1>6 DEF Migration

LEMMA CrashKeepsStates ==
    ASSUME TypeInv, StateInv, NEW c \in Clients, Crash(c)
    PROVE  StateInv'
<1>1. /\ Return(c)
      /\ UNCHANGED <<entry, source, content, flags, wanted, told, toldText, raced>>
  BY DEF Crash, tableVars
<1>2. cut \subseteq cut' /\ (op[c].at \in {"state", "text"} => op[c].id \in cut')
  BY DEF Crash
<1>3. ASSUME NEW i \in Ids
      PROVE  RowInv(i)'
  <2>1. RowInv(i)
    BY DEF StateInv
  <2>2. CASE ~Holds(c, i)
    <3>1. SameRow(i)
      BY <1>1, <1>2, <2>2, HandsOffReturn DEF SameRow, TypeInv
    <3> QED
      BY <2>1, <3>1, RowFrame
  <2>3. CASE Holds(c, i)
    <3>1. ASSUME i \notin raced'
          PROVE  /\ Undisturbed(i) /\ \A d \in Clients : ~Holds(d, i)'
                 /\ \A d \in Clients : Holds(d, i) => d = c
      <4>1. Undisturbed(i)
        BY <1>1, <2>1, <3>1 DEF RowInv
      <4> QED
        BY <1>1, <2>3, <4>1, NoHolder DEF Undisturbed
    <3>2. i \notin raced' => Undisturbed(i)'
      BY <1>1, <3>1 DEF Undisturbed
    <3>3. ASSUME i \notin raced', i \notin cut'
          PROVE  Told(i)'
      <4>1. op[c].at = "patch" /\ Told(i)
        BY <1>1, <1>2, <2>1, <2>3, <3>3 DEF RowInv, Holds
      <4> QED
        BY <1>1, <3>1, <3>3, <4>1 DEF Told
    <3> QED
      BY <1>1, <2>1, <3>2, <3>3 DEF RowInv, NoteStays
  <2> QED
    BY <2>2, <2>3
<1> QED
  BY <1>3 DEF StateInv

LEMMA NextStateInv == TypeInv /\ StateInv /\ [Next]_vars => StateInv'
<1> SUFFICES ASSUME TypeInv, StateInv, [Next]_vars
             PROVE  StateInv'
  OBVIOUS
<1>1. CASE UNCHANGED vars
  BY <1>1 DEF vars, tableVars, ghostVars, placeVars, StateInv, RowInv, Undisturbed, Told,
              NoteStays, Holds
<1> QED
  BY <1>1, RefreshKeepsStates, WriteKeepsStates, StateKeepsStates, DeleteKeepsStates,
     MigrationKeepsStates, CrashKeepsStates DEF Next

LEMMA StateInvHolds == Spec => []StateInv
<1>1. Init => StateInv
  <2> SUFFICES ASSUME Init, NEW i \in Ids
               PROVE  RowInv(i)
    BY DEF StateInv
  <2>1. flags[i] = NULL /\ entry[i] = NULL
    BY DEF Init, None
  <2>2. \A c \in Clients : ~Holds(c, i)
    BY DEF Init, Idle, Holds
  <2> QED
    BY <2>1, <2>2 DEF RowInv, Undisturbed, Told, NoteStays
<1> QED
  BY <1>1, TypeInvHolds, NextStateInv, PTL DEF Spec

\* The flags of an entry are what its patches, from those of its old row if it had one, add
\* up to, whatever refreshes, migrations and other devices do meanwhile, unless two calls
\* had its state in hand at once or a refresh stored it before its old state was migrated.
THEOREM FlagsKept == Spec => []FlagsAreWanted
<1>1. StateInv => FlagsAreWanted
  BY DEF StateInv, RowInv, Undisturbed, FlagsAreWanted
<1> QED
  BY <1>1, StateInvHolds, PTL

\* When no call has an entry in hand, its last event of its state, and of its text if it is a
\* note, carries what is stored: unless two calls overlapped, or one was killed between its
\* transaction and its event.
THEOREM PeersHearTheLast == Spec => []PeersAreTold
<1>1. StateInv => PeersAreTold
  <2> SUFFICES ASSUME StateInv, NEW i \in Ids, ~Held(i), i \notin raced \cup cut
               PROVE  /\ flags[i] # NULL => told[i] = flags[i]
                      /\ i \in Notes /\ entry[i] # NULL => toldText[i] = content[i]
    BY DEF PeersAreTold
  <2>1. Told(i) /\ \A c \in Clients : ~Holds(c, i)
    BY DEF StateInv, RowInv, Held, Holds
  <2> QED
    BY <2>1 DEF Told
<1> QED
  BY <1>1, StateInvHolds, PTL

-----------------------------------------------------------------------------
(***************************************************************************)
(* Lists and counts                                                        *)
(***************************************************************************)
LEMMA ListedByFilter ==
    ASSUME NEW filter
    PROVE  ListAllItems(filter, NULL, NULL) = {i \in Ids : entry[i] # NULL /\ Matches(i, filter)}
  BY DEF ListAllItems, QueryItems

LEMMA CountedByFilter ==
    ASSUME NEW scope \in {"all", "unread", "starred", "later", "archive"}
    PROVE  ItemScopeCounts[scope] = Cardinality({i \in Ids : entry[i] # NULL /\ Matches(i, scope)})
<1>1. {i \in Ids : entry[i] # NULL /\ Matches(i, "all")} =
         {i \in Ids : entry[i] # NULL /\ ~Has(i, "archived")}
  BY DEF Matches
<1>2. {i \in Ids : entry[i] # NULL /\ Matches(i, "unread")} =
         {i \in Ids : entry[i] # NULL /\ ~Has(i, "read") /\ ~Has(i, "archived")}
  BY DEF Matches
<1>3. {i \in Ids : entry[i] # NULL /\ Matches(i, "starred")} =
         {i \in Ids : entry[i] # NULL /\ Has(i, "starred") /\ ~Has(i, "archived")}
  BY DEF Matches
<1>4. {i \in Ids : entry[i] # NULL /\ Matches(i, "later")} =
         {i \in Ids : entry[i] # NULL /\ Has(i, "later") /\ ~Has(i, "archived")}
  BY DEF Matches
<1>5. {i \in Ids : entry[i] # NULL /\ Matches(i, "archive")} =
         {i \in Ids : entry[i] # NULL /\ Has(i, "archived")}
  BY DEF Matches
<1>6. /\ ItemScopeCounts["all"] =
            Cardinality({i \in Ids : entry[i] # NULL /\ ~Has(i, "archived")})
      /\ ItemScopeCounts["unread"] =
            Cardinality({i \in Ids : entry[i] # NULL /\ ~Has(i, "read") /\ ~Has(i, "archived")})
      /\ ItemScopeCounts["starred"] =
            Cardinality({i \in Ids : entry[i] # NULL /\ Has(i, "starred") /\ ~Has(i, "archived")})
      /\ ItemScopeCounts["later"] =
            Cardinality({i \in Ids : entry[i] # NULL /\ Has(i, "later") /\ ~Has(i, "archived")})
      /\ ItemScopeCounts["archive"] =
            Cardinality({i \in Ids : entry[i] # NULL /\ Has(i, "archived")})
  BY DEF ItemScopeCounts
<1> QED
  BY <1>1, <1>2, <1>3, <1>4, <1>5, <1>6

\* In every state the badges count what the lists show, by filter and for the notes, and the
\* list of a feed is a part of the list of all.
THEOREM CountsMatchLists == Spec => []ListsMatchCounts
<1>1. ListsMatchCounts
  <2>1. \A scope \in {"all", "unread", "starred", "later", "archive"} :
           ItemScopeCounts[scope] = Cardinality(ListAllItems(scope, NULL, NULL))
    BY ListedByFilter, CountedByFilter
  <2>2. ItemScopeCounts.notes = Cardinality(ListAllItems("all", "note", NULL))
    <3>1. ListAllItems("all", "note", NULL) =
             {i \in Ids : entry[i] # NULL /\ entry[i].kind = "note" /\ ~Has(i, "archived")}
      BY NullAssumption DEF ListAllItems, QueryItems, Matches
    <3>2. ItemScopeCounts.notes = Cardinality(
             {i \in Ids : entry[i] # NULL /\ entry[i].kind = "note" /\ ~Has(i, "archived")})
      BY DEF ItemScopeCounts
    <3> QED
      BY <3>1, <3>2
  <2>3. \A f : ListEntries(f, "all", NULL, NULL) \subseteq ListEntries(NULL, "all", NULL, NULL)
    BY DEF ListEntries, ListItemsForFeed, ListAllItems, QueryItems
  <2> QED
    BY <2>1, <2>2, <2>3 DEF ListsMatchCounts
<1> QED
  BY <1>1, PTL
=============================================================================
