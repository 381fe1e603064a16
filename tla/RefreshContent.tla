---------------------------- MODULE RefreshContent ----------------------------
(***************************************************************************)
(* What a refresh does to the content of a feed: a conditional fetch, then *)
(* the article, the feed row and the validator are written by calls of     *)
(* storage that no transaction joins, in one order by app_server and in    *)
(* another by ffi_bridge.  Meanwhile the user may delete the feed and      *)
(* subscribe again.  One feed URL with one article; other URLs share       *)
(* nothing with it.                                                        *)
(***************************************************************************)
EXTENDS Naturals

CONSTANTS
    Server,      \* refreshers that run app_server's code
    Ffi,         \* those that run ffi_bridge's code, and every subscription's
    Overlap,     \* whether two refreshes of the feed may be under way at a time
    NULL,
    MaxVersion,  \* bound: how often the publisher changes the feed
    MaxRows,     \* bound: how many feed rows the URL gets
    MaxCrashes   \* bound: how many refreshers are killed

ASSUME RefreshContentAssumptions ==
    /\ Server \cap Ffi = {}
    /\ Overlap \in BOOLEAN
    /\ NULL \notin Nat /\ NULL \notin [source : Nat, version : Nat]
    /\ MaxVersion \in Nat \ {0} /\ MaxRows \in Nat \ {0} /\ MaxCrashes \in Nat

Refreshers == Server \cup Ffi
Versions == 1 .. MaxVersion
RowIds == 1 .. MaxRows

VARIABLES
    published,  \* the version the publisher serves; its ETag is the version
    row,        \* id of the URL's row in feeds, or NULL
    rows,       \* how many ids were given out
    etag,       \* etag of the row
    article,    \* the entry: source_id of its entry_sources row, and its version
    deleting,   \* the row a delete_feed under way is deleting
    pc, feed, validator, got,   \* of each refresher; feed is the id it works on
    crashes

storeVars == <<row, rows, etag, article>>
refreshVars == <<pc, feed, validator, got>>
vars == <<published, storeVars, deleting, refreshVars, crashes>>

TypeOK ==
    /\ published \in Versions
    /\ rows \in 0 .. MaxRows
    /\ row \in RowIds \cup {NULL}
    /\ etag \in Versions \cup {NULL}
    /\ row = NULL => etag = NULL
    /\ article \in [source : RowIds, version : Versions] \cup {NULL}
    /\ deleting \in RowIds \cup {NULL}
    /\ pc \in [Refreshers -> {"idle", "fetch", "store", "upsert", "record"}]
    /\ \A w \in Refreshers :
          \/ pc[w] = "idle" \/ feed[w] \in RowIds
          \/ w \in Ffi /\ pc[w] \in {"fetch", "upsert"}
    /\ validator \in [Refreshers -> Versions \cup {NULL}]
    /\ got \in [Refreshers -> Versions \cup {NULL}]

Init ==
    /\ published = 1
    /\ row = NULL /\ rows = 0 /\ etag = NULL /\ article = NULL /\ deleting = NULL
    /\ pc = [w \in Refreshers |-> "idle"]
    /\ feed = [w \in Refreshers |-> NULL]
    /\ validator = [w \in Refreshers |-> NULL]
    /\ got = [w \in Refreshers |-> NULL]
    /\ crashes = 0

-----------------------------------------------------------------------------
\* upsert_feed: the row of the URL, or a new one.
UpsertFeed ==
    \/ row # NULL /\ UNCHANGED <<row, rows>>
    \/ row = NULL /\ rows < MaxRows /\ row' = rows + 1 /\ rows' = rows + 1

\* An import, or a subscription to what discovery found: the row alone.
Subscribe ==
    /\ row = NULL
    /\ UpsertFeed
    /\ UNCHANGED <<published, etag, article, deleting, refreshVars, crashes>>

\* delete_feed deletes the articles of the feed ...
DeleteEntries ==
    /\ row # NULL /\ deleting = NULL
    /\ deleting' = row
    /\ article' = IF article # NULL /\ article.source = row THEN NULL ELSE article
    /\ UNCHANGED <<published, row, rows, etag, refreshVars, crashes>>

\* ... and then its row.
DeleteRow ==
    /\ deleting # NULL
    /\ row' = NULL
    /\ etag' = NULL
    /\ deleting' = NULL
    /\ UNCHANGED <<published, rows, article, refreshVars, crashes>>

Publish ==
    /\ published < MaxVersion
    /\ published' = published + 1
    /\ UNCHANGED <<storeVars, deleting, refreshVars, crashes>>

-----------------------------------------------------------------------------
Goto(w, step) == pc' = [pc EXCEPT ![w] = step]

MayStart(w) == pc[w] = "idle" /\ (Overlap \/ \A v \in Refreshers : pc[v] = "idle")

\* A subscription by URL fetches the feed unconditionally, and then goes on as the
\* bridge's refreshes do, whether or not the URL has a row.
AddSubscription(w) ==
    /\ w \in Ffi /\ MayStart(w)
    /\ Goto(w, "fetch")
    /\ UNCHANGED <<published, storeVars, deleting, feed, validator, got, crashes>>

Begin(w) ==
    /\ MayStart(w) /\ row # NULL
    /\ feed' = [feed EXCEPT ![w] = row]
    /\ validator' = [validator EXCEPT ![w] = etag]
    /\ Goto(w, "fetch")
    /\ UNCHANGED <<published, storeVars, deleting, got, crashes>>

NotModified(w) ==
    /\ pc[w] = "fetch" /\ validator[w] = published
    /\ Goto(w, "record")
    /\ UNCHANGED <<published, storeVars, deleting, feed, validator, got, crashes>>

\* The server stores the items first, the bridge upserts the feed first.
Updated(w) ==
    /\ pc[w] = "fetch" /\ validator[w] # published
    /\ got' = [got EXCEPT ![w] = published]
    /\ Goto(w, IF w \in Server THEN "store" ELSE "upsert")
    /\ UNCHANGED <<published, storeVars, deleting, feed, validator, crashes>>

\* The refresh is over, and what it knew is gone.
Leave(w) ==
    /\ Goto(w, "idle")
    /\ feed' = [feed EXCEPT ![w] = NULL]
    /\ validator' = [validator EXCEPT ![w] = NULL]
    /\ got' = [got EXCEPT ![w] = NULL]

\* What the server records of a failure is in FeedSchedule.
FetchFails(w) ==
    /\ pc[w] = "fetch"
    /\ Leave(w)
    /\ UNCHANGED <<published, storeVars, deleting, crashes>>

\* Mutant: the validator is written along with the feed row, before the items.
StoreValidatorFirst(w) ==
    /\ pc[w] = "upsert"
    /\ UpsertFeed
    /\ feed' = IF w \in Ffi THEN [feed EXCEPT ![w] = row'] ELSE feed
    /\ etag' = got[w]
    /\ Goto(w, IF w \in Server THEN "record" ELSE "store")
    /\ UNCHANGED <<published, article, deleting, validator, got, crashes>>

\* The bridge goes on with the row it finds or makes, the server with the row it
\* began with.
UpsertRow(w) ==
    /\ pc[w] = "upsert"
    /\ UpsertFeed
    /\ feed' = IF w \in Ffi THEN [feed EXCEPT ![w] = row'] ELSE feed
    /\ Goto(w, IF w \in Server THEN "record" ELSE "store")
    /\ UNCHANGED <<published, etag, article, deleting, validator, got, crashes>>

\* Mutant: an article that exists stays with its feed.
StoreKeepsSource(w) ==
    /\ pc[w] = "store"
    /\ article' = [source |-> IF article = NULL THEN feed[w] ELSE article.source,
                   version |-> got[w]]
    /\ Goto(w, IF w \in Server THEN "upsert" ELSE "record")
    /\ UNCHANGED <<published, row, rows, etag, deleting, feed, validator, got, crashes>>

\* upsert_items: the article and its source row are replaced, whether or not the
\* feed still has a row.
StoreItems(w) ==
    /\ pc[w] = "store"
    /\ article' = [source |-> feed[w], version |-> got[w]]
    /\ Goto(w, IF w \in Server THEN "upsert" ELSE "record")
    /\ UNCHANGED <<published, row, rows, etag, deleting, feed, validator, got, crashes>>

\* Mutant: whether the feed is still there is not looked at.
RecordAnyway(w) ==
    /\ pc[w] = "record"
    /\ etag' = IF got[w] = NULL THEN etag ELSE got[w]
    /\ Leave(w)
    /\ UNCHANGED <<published, row, rows, article, deleting, crashes>>

\* record_fetch_result: a feed that is gone is an error; a 304 may repeat the
\* validator or have none.
Record(w) ==
    /\ pc[w] = "record"
    /\ IF row # feed[w] THEN UNCHANGED etag
       ELSE IF got[w] = NULL THEN etag' \in {etag, validator[w]} ELSE etag' = got[w]
    /\ Leave(w)
    /\ UNCHANGED <<published, row, rows, article, deleting, crashes>>

Crash(w) ==
    /\ pc[w] # "idle" /\ crashes < MaxCrashes
    /\ crashes' = crashes + 1
    /\ Leave(w)
    /\ UNCHANGED <<published, storeVars, deleting>>

Work(w) == UpsertRow(w) \/ StoreItems(w) \/ Record(w)

Next ==
    \/ Subscribe \/ DeleteEntries \/ DeleteRow \/ Publish
    \/ \E w \in Refreshers :
          \/ AddSubscription(w) \/ Begin(w) \/ NotModified(w) \/ Updated(w)
          \/ FetchFails(w) \/ Work(w) \/ Crash(w)

Spec == Init /\ [][Next]_vars

\* Refreshes go on, a deletion that began ends, and fetches do not fail for ever.
FairSpec ==
    /\ Spec
    /\ WF_vars(DeleteRow)
    /\ WF_vars(\E w \in Refreshers : Begin(w))
    /\ \A w \in Refreshers : SF_vars(NotModified(w) \/ Updated(w)) /\ WF_vars(Work(w))

-----------------------------------------------------------------------------
(***************************************************************************)
(* Properties                                                              *)
(***************************************************************************)
\* The validator never runs ahead of the content: a publisher that is sent it and
\* answers 304 withholds nothing the reader lacks.  Through crashes between the
\* writes, and deletions and subscriptions in the middle of a refresh.
ValidatorMatchesContent ==
    etag # NULL /\ deleting = NULL => article # NULL /\ article.version >= etag

\* What a publisher goes on serving is there in the end, as an article of the feed the
\* user is subscribed to.
NewContentArrives ==
    <>[](row # NULL /\ deleting = NULL) =>
        []<>(article # NULL /\ article.version = published /\ article.source = row)

=============================================================================
