-------------------------- MODULE RefreshContent_proofs --------------------------
(***************************************************************************)
(* The validator of a feed never runs ahead of its content, whatever the   *)
(* numbers of refreshers, versions, rows and crashes.                      *)
(***************************************************************************)
EXTENDS RefreshContent, TLAPS

-----------------------------------------------------------------------------
(***************************************************************************)
(* The inductive invariant                                                 *)
(***************************************************************************)
\* What a refresher knows at each step.  Only a subscription that has found no row
\* yet has none, and it sends no validator.
KnowsItsRow ==
    /\ feed \in [Refreshers -> RowIds \cup {NULL}]
    /\ \A w \in Refreshers :
          /\ pc[w] = "idle" => feed[w] = NULL /\ validator[w] = NULL /\ got[w] = NULL
          /\ pc[w] = "fetch" => got[w] = NULL
          /\ feed[w] = NULL => validator[w] = NULL
          /\ pc[w] \in {"store", "upsert"} => got[w] # NULL
          /\ pc[w] \in {"store", "record"} => feed[w] # NULL
          /\ w \in Server /\ pc[w] # "idle" => feed[w] # NULL

\* A row that is deleted does not come back under its id.
IdsAreFresh ==
    /\ row # NULL => row <= rows
    /\ \A w \in Refreshers : feed[w] # NULL => feed[w] <= rows
    /\ deleting # NULL => row = deleting

OneAtATime ==
    \A v, w \in Refreshers : pc[v] # "idle" /\ pc[w] # "idle" => v = w

\* The versions that are known were published, and the row's is no newer than what a
\* refresh that is under way brings.
VersionsWerePublished ==
    /\ etag # NULL => etag <= published
    /\ \A w \in Refreshers :
          /\ validator[w] # NULL => validator[w] <= published
          /\ got[w] # NULL => got[w] <= published
          /\ got[w] # NULL /\ etag # NULL => etag <= got[w]

Has(version) == article # NULL /\ article.version >= version

\* What a refresh will write to its row is in the store, as long as the row is there.
RecordsWhatIsStored ==
    \A w \in Refreshers :
        row = feed[w] /\ deleting = NULL =>
            /\ got[w] = NULL /\ validator[w] # NULL => Has(validator[w])
            /\ got[w] # NULL /\ (pc[w] = "record" \/ (w \in Server /\ pc[w] = "upsert")) =>
                  Has(got[w])

TypeInv == TypeOK /\ KnowsItsRow

ContentInv ==
    /\ TypeInv
    /\ IdsAreFresh
    /\ OneAtATime
    /\ VersionsWerePublished
    /\ RecordsWhatIsStored
    /\ ValidatorMatchesContent

-----------------------------------------------------------------------------
(***************************************************************************)
(* Types                                                                   *)
(***************************************************************************)
LEMMA InitTypeInv == Init => TypeInv
  BY RefreshContentAssumptions
  DEF Init, TypeInv, TypeOK, KnowsItsRow, Versions, RowIds, Refreshers

LEMMA NextTypeInv == TypeInv /\ [Next]_vars => TypeInv'
<1> SUFFICES ASSUME TypeInv, [Next]_vars
             PROVE  TypeInv'
  OBVIOUS
<1> USE RefreshContentAssumptions DEF TypeInv, TypeOK, KnowsItsRow, Versions, RowIds
<1>1. ASSUME Subscribe PROVE TypeInv'
  BY <1>1 DEF Subscribe, UpsertFeed, refreshVars
<1>2. ASSUME DeleteEntries \/ DeleteRow \/ Publish PROVE TypeInv'
  BY <1>2 DEF DeleteEntries, DeleteRow, Publish, refreshVars, storeVars
<1>3. ASSUME NEW w \in Refreshers, AddSubscription(w) \/ Begin(w) PROVE TypeInv'
  BY <1>3 DEF AddSubscription, Begin, MayStart, Goto, refreshVars, storeVars
<1>4. ASSUME NEW w \in Refreshers, NotModified(w) \/ Updated(w) PROVE TypeInv'
  BY <1>4 DEF NotModified, Updated, Goto, refreshVars, storeVars, Refreshers
<1>5. ASSUME NEW w \in Refreshers, UpsertRow(w) PROVE TypeInv'
  BY <1>5 DEF UpsertRow, UpsertFeed, Goto, Refreshers
<1>6. ASSUME NEW w \in Refreshers, StoreItems(w) PROVE TypeInv'
  BY <1>6 DEF StoreItems, Goto, Refreshers
<1>7. ASSUME NEW w \in Refreshers, Record(w) PROVE TypeInv'
  BY <1>7 DEF Record, Leave, Goto
<1>8. ASSUME NEW w \in Refreshers, FetchFails(w) \/ Crash(w) PROVE TypeInv'
  BY <1>8 DEF FetchFails, Crash, Leave, Goto, storeVars
<1>9. ASSUME UNCHANGED vars PROVE TypeInv'
  BY <1>9 DEF vars, storeVars, refreshVars
<1> QED
  BY <1>1, <1>2, <1>3, <1>4, <1>5, <1>6, <1>7, <1>8, <1>9 DEF Next, Work

\* The variables keep their types, for every number of refreshers and whether or not
\* refreshes of the feed overlap.
THEOREM TypeCorrect == Spec => []TypeOK
<1>1. TypeInv => TypeOK
  BY DEF TypeInv
<1> QED
  BY InitTypeInv, NextTypeInv, <1>1, PTL DEF Spec

-----------------------------------------------------------------------------
(***************************************************************************)
(* Rows                                                                    *)
(***************************************************************************)
LEMMA NextIdsAreFresh == TypeInv /\ IdsAreFresh /\ [Next]_vars => IdsAreFresh'
<1> SUFFICES ASSUME TypeInv, IdsAreFresh, [Next]_vars
             PROVE  IdsAreFresh'
  OBVIOUS
<1> USE RefreshContentAssumptions
    DEF TypeInv, TypeOK, KnowsItsRow, IdsAreFresh, Versions, RowIds
<1>1. ASSUME Subscribe PROVE IdsAreFresh'
  BY <1>1 DEF Subscribe, UpsertFeed, refreshVars
<1>2. ASSUME DeleteEntries \/ DeleteRow \/ Publish PROVE IdsAreFresh'
  BY <1>2 DEF DeleteEntries, DeleteRow, Publish, refreshVars, storeVars
<1>3. ASSUME NEW w \in Refreshers, UpsertRow(w) PROVE IdsAreFresh'
  BY <1>3 DEF UpsertRow, UpsertFeed, Goto
<1>4. ASSUME NEW w \in Refreshers,
             AddSubscription(w) \/ Begin(w) \/ NotModified(w) \/ Updated(w) \/ FetchFails(w)
             \/ StoreItems(w) \/ Record(w) \/ Crash(w)
      PROVE IdsAreFresh'
  BY <1>4 DEF AddSubscription, Begin, NotModified, Updated, FetchFails, StoreItems, Record,
              Crash, Leave, Goto, refreshVars, storeVars
<1>5. ASSUME UNCHANGED vars PROVE IdsAreFresh'
  BY <1>5 DEF vars, storeVars, refreshVars
<1> QED
  BY <1>1, <1>2, <1>3, <1>4, <1>5 DEF Next, Work

LEMMA NextOneAtATime ==
    ASSUME ~Overlap PROVE TypeInv /\ OneAtATime /\ [Next]_vars => OneAtATime'
<1> SUFFICES ASSUME TypeInv, OneAtATime, [Next]_vars
             PROVE  OneAtATime'
  OBVIOUS
<1> USE DEF TypeInv, TypeOK, OneAtATime
<1>1. ASSUME NEW w \in Refreshers, AddSubscription(w) \/ Begin(w) PROVE OneAtATime'
  BY <1>1 DEF AddSubscription, Begin, MayStart, Goto
<1>2. ASSUME NEW w \in Refreshers,
             NotModified(w) \/ Updated(w) \/ FetchFails(w) \/ Work(w) \/ Crash(w)
      PROVE OneAtATime'
  BY <1>2 DEF NotModified, Updated, FetchFails, Work, UpsertRow, StoreItems, Record, Crash,
              Leave, Goto
<1>3. ASSUME Subscribe \/ DeleteEntries \/ DeleteRow \/ Publish \/ UNCHANGED vars
      PROVE OneAtATime'
  BY <1>3 DEF Subscribe, DeleteEntries, DeleteRow, Publish, vars, refreshVars
<1> QED
  BY <1>1, <1>2, <1>3 DEF Next

-----------------------------------------------------------------------------
(***************************************************************************)
(* Versions and content                                                    *)
(***************************************************************************)
Content == VersionsWerePublished /\ RecordsWhatIsStored /\ ValidatorMatchesContent

LEMMA NextContent == ContentInv /\ [Next]_vars => Content'
<1> SUFFICES ASSUME ContentInv, [Next]_vars
             PROVE  Content'
  OBVIOUS
<1> USE RefreshContentAssumptions
    DEF ContentInv, TypeInv, TypeOK, KnowsItsRow, IdsAreFresh, VersionsWerePublished,
        RecordsWhatIsStored, ValidatorMatchesContent, Content, Has, Versions, RowIds
<1>1. ASSUME Subscribe PROVE Content'
  BY <1>1 DEF Subscribe, UpsertFeed, refreshVars
<1>2. ASSUME DeleteEntries PROVE Content'
  BY <1>2 DEF DeleteEntries, refreshVars
<1>3. ASSUME DeleteRow \/ Publish PROVE Content'
  BY <1>3 DEF DeleteRow, Publish, refreshVars, storeVars
<1>4. ASSUME NEW w \in Refreshers, AddSubscription(w) \/ Begin(w) PROVE Content'
  BY <1>4 DEF AddSubscription, Begin, MayStart, Goto, refreshVars, storeVars
<1>5. ASSUME NEW w \in Refreshers, NotModified(w) \/ Updated(w) PROVE Content'
  BY <1>5 DEF NotModified, Updated, Goto, refreshVars, storeVars, Refreshers
<1>6. ASSUME NEW w \in Refreshers, UpsertRow(w) PROVE Content'
  BY <1>6 DEF UpsertRow, UpsertFeed, Goto, Refreshers
<1>7. ASSUME NEW w \in Refreshers, StoreItems(w) PROVE Content'
  <2>1. VersionsWerePublished'
    BY <1>7 DEF StoreItems
  <2>2. Has(got[w])' /\ \A v \in Refreshers \ {w} : pc'[v] = "idle"
    BY <1>7 DEF StoreItems, Goto, OneAtATime
  <2>3. RecordsWhatIsStored'
    BY <1>7, <2>2 DEF StoreItems, Goto, Refreshers
  <2>4. ValidatorMatchesContent'
    BY <1>7, <2>2 DEF StoreItems
  <2> QED
    BY <2>1, <2>3, <2>4
<1>8. ASSUME NEW w \in Refreshers, Record(w) PROVE Content'
  BY <1>8 DEF Record, Leave, Goto, OneAtATime
<1>9. ASSUME NEW w \in Refreshers, FetchFails(w) \/ Crash(w) PROVE Content'
  BY <1>9 DEF FetchFails, Crash, Leave, Goto, storeVars
<1>10. ASSUME UNCHANGED vars PROVE Content'
  BY <1>10 DEF vars, storeVars, refreshVars
<1> QED
  BY <1>1, <1>2, <1>3, <1>4, <1>5, <1>6, <1>7, <1>8, <1>9, <1>10 DEF Next, Work

\* A publisher that is sent the validator and answers 304 withholds nothing the reader
\* lacks, for every number of refreshers, versions, rows and crashes, as long as one
\* refresh of the feed ends before the next begins.
THEOREM ValidatorNeverAhead ==
    ASSUME ~Overlap PROVE Spec => []ValidatorMatchesContent
<1>1. Init => ContentInv
  <2>1. Init => TypeInv
    BY InitTypeInv
  <2> QED
    BY <2>1, RefreshContentAssumptions
    DEF Init, ContentInv, TypeInv, TypeOK, IdsAreFresh, OneAtATime, VersionsWerePublished,
        RecordsWhatIsStored, ValidatorMatchesContent
<1>2. ContentInv /\ [Next]_vars => ContentInv'
  BY NextTypeInv, NextIdsAreFresh, NextOneAtATime, NextContent DEF ContentInv, Content
<1>3. ContentInv => ValidatorMatchesContent
  BY DEF ContentInv
<1> QED
  BY <1>1, <1>2, <1>3, PTL DEF Spec

=============================================================================
