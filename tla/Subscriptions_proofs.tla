-------------------------- MODULE Subscriptions_proofs --------------------------
(***************************************************************************)
(* What discoveries and subscriptions keep, for any web, documents, names  *)
(* and clients: the ranking of candidates does not depend on the order in  *)
(* which probes come back; imports store every row, articles come with a   *)
(* subscription, groups stay distinct, and OPML reads back what it wrote.  *)
(***************************************************************************)
EXTENDS Subscriptions, FiniteSetTheorems, TLAPS

-----------------------------------------------------------------------------
(***************************************************************************)
(* Order                                                                   *)
(***************************************************************************)
\* upto says, of each element of S, which come no later in a total order.
Orders(upto, S) ==
    /\ upto \in [S -> SUBSET S]
    /\ \A x \in S : x \in upto[x]
    /\ \A x, y \in S : y \in upto[x] => upto[y] \subseteq upto[x]
    /\ \A x, y \in S : x \in upto[y] \/ y \in upto[x]
    /\ \A x, y \in S : x \in upto[y] /\ y \in upto[x] => x = y

\* An order lists every element once.
LEMMA InOrderLists ==
    ASSUME NEW S, IsFiniteSet(S), NEW upto, Orders(upto, S)
    PROVE  /\ Cardinality(S) \in Nat
           /\ InOrder(S, upto) \in [1 .. Cardinality(S) -> S]
           /\ \A i \in 1 .. Cardinality(S) : Cardinality(upto[InOrder(S, upto)[i]]) = i
           /\ \A x \in S : \E i \in 1 .. Cardinality(S) : InOrder(S, upto)[i] = x
<1> DEFINE N == Cardinality(S)
           rank == [x \in S |-> Cardinality(upto[x])]
<1>1. N \in Nat
  BY FS_CardinalityType
<1>2. ASSUME NEW x \in S
      PROVE  IsFiniteSet(upto[x]) /\ rank[x] \in 1 .. N
  <2>1. IsFiniteSet(upto[x]) /\ Cardinality(upto[x]) <= N
    BY FS_Subset DEF Orders
  <2>2. Cardinality(upto[x]) \in Nat /\ Cardinality(upto[x]) # 0
    BY <2>1, FS_CardinalityType, FS_EmptySet DEF Orders
  <2> QED
    BY <1>1, <2>1, <2>2
<1>3. ASSUME NEW x \in S, NEW y \in S, rank[x] = rank[y]
      PROVE  x = y
  <2>1. upto[x] \subseteq upto[y] \/ upto[y] \subseteq upto[x]
    BY DEF Orders
  <2>2. upto[x] = upto[y]
    BY <1>2, <1>3, <2>1, FS_Subset
  <2> QED
    BY <2>2 DEF Orders
<1>4. rank \in Injection(S, 1 .. N)
  BY <1>2, <1>3 DEF Injection, IsInjective
<1>5. IsFiniteSet(1 .. N) /\ Cardinality(1 .. N) = N
  BY <1>1, FS_Interval
<1>6. rank \in Surjection(S, 1 .. N)
  BY <1>4, <1>5, FS_Injection
<1>7. ASSUME NEW i \in 1 .. N
      PROVE  InOrder(S, upto)[i] \in S /\ rank[InOrder(S, upto)[i]] = i
  <2>1. \E x \in S : Cardinality(upto[x]) = i
    BY <1>6 DEF Surjection
  <2>2. InOrder(S, upto)[i] = CHOOSE x \in S : Cardinality(upto[x]) = i
    BY DEF InOrder
  <2> QED
    BY <2>1, <2>2
<1>8. ASSUME NEW x \in S
      PROVE  InOrder(S, upto)[rank[x]] = x
  BY <1>2, <1>3, <1>7
<1>9. InOrder(S, upto) \in [1 .. N -> S]
  BY <1>7 DEF InOrder
<1> QED
  BY <1>1, <1>2, <1>7, <1>8, <1>9

LEMMA UpToOrders ==
    ASSUME NEW S, S \subseteq Int
    PROVE  Orders([n \in S |-> {k \in S : k <= n}], S)
<1> DEFINE upto == [n \in S |-> {k \in S : k <= n}]
<1>1. upto \in [S -> SUBSET S] /\ \A n, k \in S : k \in upto[n] <=> k <= n
  OBVIOUS
<1> HIDE DEF upto
<1>2. ASSUME NEW n \in S, NEW k \in S, k \in upto[n], NEW j \in upto[k]
      PROVE  j \in upto[n]
  <2>1. j \in S
    BY <1>1, <1>2
  <2>2. j <= k /\ k <= n
    BY <1>1, <1>2, <2>1
  <2> QED
    BY <1>1, <2>1, <2>2
<1>3. \A n, k \in S : k \in upto[n] => upto[k] \subseteq upto[n]
  BY <1>2
<1>4. Orders(upto, S)
  BY <1>1, <1>3 DEF Orders
<1> QED
  BY <1>4 DEF upto

\* The last in an order.
LEMMA LastInOrder ==
    ASSUME NEW S, IsFiniteSet(S), S # {}, NEW upto, Orders(upto, S)
    PROVE  \E x \in S : upto[x] = S
<1> DEFINE N == Cardinality(S)
<1>1. N \in Nat /\ N # 0
  BY FS_CardinalityType, FS_EmptySet
<1>2. PICK x \in S : Cardinality(upto[x]) = N
  <2>1. N \in 1 .. N
    BY <1>1
  <2> QED
    BY <2>1, InOrderLists
<1>3. upto[x] \in SUBSET S
  BY DEF Orders
<1> QED
  BY <1>2, <1>3, FS_Subset

LEMMA HasMaximum ==
    ASSUME NEW S, S \subseteq Int, IsFiniteSet(S), S # {}
    PROVE  \E m \in S : \A n \in S : n <= m
<1>1. PICK m \in S : [n \in S |-> {k \in S : k <= n}][m] = S
  BY UpToOrders, LastInOrder
<1> QED
  BY <1>1

LEMMA HasMinimum ==
    ASSUME NEW S, S \subseteq Int, IsFiniteSet(S), S # {}
    PROVE  \E m \in S : \A n \in S : m <= n
<1> DEFINE downTo == [n \in S |-> {k \in S : n <= k}]
<1>1. downTo \in [S -> SUBSET S] /\ \A n, k \in S : k \in downTo[n] <=> n <= k
  OBVIOUS
<1> HIDE DEF downTo
<1>2. ASSUME NEW n \in S, NEW k \in S, k \in downTo[n], NEW j \in downTo[k]
      PROVE  j \in downTo[n]
  <2>1. j \in S
    BY <1>1, <1>2
  <2>2. k <= j /\ n <= k
    BY <1>1, <1>2, <2>1
  <2> QED
    BY <1>1, <2>1, <2>2
<1>3. Orders(downTo, S)
  <2>1. \A n, k \in S : k \in downTo[n] => downTo[k] \subseteq downTo[n]
    BY <1>2
  <2> QED
    BY <1>1, <2>1 DEF Orders
<1>4. PICK m \in S : downTo[m] = S
  BY <1>3, LastInOrder
<1> QED
  BY <1>1, <1>4

\* The values that a function has on a finite set.
LEMMA FiniteValues ==
    ASSUME NEW S, IsFiniteSet(S), NEW f, DOMAIN f = S
    PROVE  IsFiniteSet({f[x] : x \in S})
<1> DEFINE T == {f[x] : x \in S}
           g == [x \in S |-> f[x]]
<1>1. g \in Surjection(S, T)
  BY DEF Surjection
<1> QED
  BY <1>1, FS_Surjection

LEMMA SelectedIsList ==
    ASSUME NEW list, NEW positions, positions \subseteq DOMAIN list,
           Len(list) \in Nat, DOMAIN list = 1 .. Len(list)
    PROVE  /\ Cardinality(positions) \in Nat
           /\ DOMAIN Selected(list, positions) = 1 .. Cardinality(positions)
           /\ \A i \in 1 .. Cardinality(positions) :
                 \E n \in positions : Selected(list, positions)[i] = list[n]
<1> DEFINE upto == [n \in positions |-> {k \in positions : k <= n}]
<1>1. IsFiniteSet(1 .. Len(list)) /\ positions \in SUBSET (1 .. Len(list))
  BY FS_Interval
<1> HIDE DEF upto
<1>2. IsFiniteSet(positions) /\ Orders(upto, positions)
  BY <1>1, FS_Subset, UpToOrders DEF upto
<1>3. /\ Cardinality(positions) \in Nat
      /\ InOrder(positions, upto) \in [1 .. Cardinality(positions) -> positions]
  BY <1>2, InOrderLists
<1>4. Selected(list, positions) =
        [i \in 1 .. Cardinality(positions) |-> list[InOrder(positions, upto)[i]]]
  BY DEF Selected, upto
<1> QED
  BY <1>3, <1>4

-----------------------------------------------------------------------------
(***************************************************************************)
(* The ranking of a discovery                                              *)
(***************************************************************************)
\* A candidate, of which only the score is typed.
Ranked(k) ==
    /\ k = [url |-> k.url, title |-> k.title, source |-> k.source, feed |-> k.feed,
            score |-> k.score]
    /\ k.score \in Int

\* A map of candidates holds the best score of every URL in a set of answers.
Best(map, answers) ==
    /\ DOMAIN map = {k.url : k \in answers}
    /\ \A u \in DOMAIN map :
          /\ \E k \in answers : k.url = u /\ k.score = map[u].score
          /\ \A k \in answers : k.url = u => k.score <= map[u].score

DiscoveryIInv ==
    /\ DOMAIN found = Clients /\ DOMAIN answered = Clients /\ DOMAIN waiting = Clients
    /\ \A c \in Clients :
          /\ waiting[c] \subseteq Int
          /\ \A k \in answered[c] : Ranked(k)
          /\ \A u \in DOMAIN found[c] : Ranked(found[c][u])
          /\ Best(found[c], answered[c])

-----------------------------------------------------------------------------
LEMMA ScoreIsInt ==
    ASSUME NEW url, NEW title, NEW source, NEW order \in Int
    PROVE  FeedCandidateScore(url, title, source, order) \in Int
<1>1. SourceBaseScore(source) \in Int
  BY DEF SourceBaseScore
<1>2. WordPoints(url, title) \in Int
  BY DEF WordPoints
<1> QED
  BY <1>1, <1>2 DEF FeedCandidateScore

LEMMA CandidateIsRanked ==
    ASSUME NEW c, NEW n \in Int, NEW a
    PROVE  Ranked(Candidate(c, n, a))
<1> DEFINE title == IF a.feed # NULL /\ a.feed.title # NULL
                    THEN a.feed.title ELSE hints[c][n].title
           score == FeedCandidateScore(a.final, title, hints[c][n].source, n)
<1>1. score \in Int
  BY ScoreIsInt
<1>2. Candidate(c, n, a) = [url |-> a.final, title |-> title,
                            source |-> hints[c][n].source, feed |-> a.feed,
                            score |-> score]
  BY DEF Candidate
<1> HIDE DEF title, score
<1> QED
  BY <1>1, <1>2 DEF Ranked

\* Merging one more answer keeps the best score of every URL.
LEMMA UpsertKeepsBest ==
    ASSUME NEW map, NEW answers, NEW new,
           Ranked(new), \A k \in answers : Ranked(k),
           \A u \in DOMAIN map : Ranked(map[u]),
           Best(map, answers)
    PROVE  LET merged == UpsertScoredCandidate(map, new)
           IN  /\ \A u \in DOMAIN merged : Ranked(merged[u])
               /\ Best(merged, answers \cup {new})
<1> DEFINE merged == UpsertScoredCandidate(map, new)
<1>1. DOMAIN merged = DOMAIN map \cup {new.url}
  BY DEF UpsertScoredCandidate
<1>2. \A u \in DOMAIN map : u # new.url => merged[u] = map[u]
  BY DEF UpsertScoredCandidate
<1>3. CASE new.url \notin DOMAIN map \/ new.score > map[new.url].score
  <2>1. merged[new.url] = new
    BY <1>3 DEF UpsertScoredCandidate
  <2> HIDE DEF merged
  <2>2. \A u \in DOMAIN merged : Ranked(merged[u])
    BY <1>1, <1>2, <2>1
  <2>3. \A k \in answers : k.url = new.url => k.score <= new.score
    BY <1>3 DEF Best, Ranked
  <2>4. Best(merged, answers \cup {new})
    BY <1>1, <1>2, <2>1, <2>3 DEF Best, Ranked
  <2> QED
    BY <2>2, <2>4 DEF merged
<1>4. CASE ~(new.url \notin DOMAIN map \/ new.score > map[new.url].score)
  <2> DEFINE old == map[new.url]
             kept == [old EXCEPT !.title = new.title]
  <2>1. merged[new.url] \in {old, kept}
    BY <1>4 DEF UpsertScoredCandidate
  <2>2. Ranked(old) /\ new.score <= old.score
    BY <1>4 DEF Ranked
  <2>3. Ranked(kept) /\ kept.score = old.score
    <3> HIDE DEF old
    <3>1. old = [url |-> old.url, title |-> old.title, source |-> old.source,
                 feed |-> old.feed, score |-> old.score]
      BY <2>2 DEF Ranked
    <3>2. kept = [url |-> old.url, title |-> new.title, source |-> old.source,
                  feed |-> old.feed, score |-> old.score]
      BY <3>1
    <3> HIDE DEF kept
    <3> QED
      BY <2>2, <3>2 DEF Ranked
  <2>4. Ranked(merged[new.url]) /\ merged[new.url].score = old.score
    BY <2>1, <2>2, <2>3
  <2> HIDE DEF merged, kept
  <2>5. \A u \in DOMAIN merged : Ranked(merged[u])
    BY <1>1, <1>2, <2>4
  <2>6. Best(merged, answers \cup {new})
    <3>1. DOMAIN merged = {k.url : k \in answers \cup {new}}
      BY <1>1 DEF Best
    <3>2. \A u \in DOMAIN map : merged[u].score = map[u].score
      BY <1>2, <2>4
    <3>3. DOMAIN merged = DOMAIN map
      BY <1>1, <1>4
    <3>4. ASSUME NEW u \in DOMAIN merged
          PROVE  /\ \E k \in answers \cup {new} : k.url = u /\ k.score = merged[u].score
                 /\ \A k \in answers \cup {new} : k.url = u => k.score <= merged[u].score
      BY <3>2, <3>3, <2>2 DEF Best
    <3> QED
      BY <3>1, <3>4 DEF Best
  <2> QED
    BY <2>5, <2>6 DEF merged
<1> QED
  BY <1>3, <1>4

-----------------------------------------------------------------------------
LEMMA DiscoveryIInvInit == DiscoveryInit => DiscoveryIInv
  BY DEF DiscoveryInit, DiscoveryIInv, Best, NoCandidates

\* All that a step must show of the clients that it changes.
LEMMA DiscoveryIInvNext == DiscoveryIInv /\ [DiscoveryNext]_discoveryVars => DiscoveryIInv'
<1> SUFFICES ASSUME DiscoveryIInv, [DiscoveryNext]_discoveryVars
             PROVE  DiscoveryIInv'
  OBVIOUS
<1>1. ASSUME UNCHANGED <<found, answered>>, DOMAIN waiting' = Clients,
             \A c \in Clients : waiting'[c] \subseteq Int
      PROVE  DiscoveryIInv'
  BY <1>1 DEF DiscoveryIInv, Best, Ranked
<1>2. ASSUME NEW c \in Clients, NEW list, NEW next, Probe(c, list, next),
             UNCHANGED <<found, answered>>
      PROVE  DiscoveryIInv'
  BY <1>1, <1>2 DEF DiscoveryIInv, Probe
<1>3. ASSUME NEW c \in Clients, NEW n, Answers(c, n)
      PROVE  /\ DOMAIN waiting' = Clients
             /\ \A d \in Clients : waiting'[d] \subseteq Int
             /\ n \in Int
  BY <1>3 DEF DiscoveryIInv, Answers
<1>4. ASSUME NEW c \in Clients, NEW u \in Urls, DiscoverSite(c, u)
      PROVE  DiscoveryIInv'
  BY <1>1, <1>4 DEF DiscoverSite, DiscoveryIInv
<1>5. ASSUME NEW c \in Clients, ServerPage(c)
      PROVE  DiscoveryIInv'
  BY <1>2, <1>5 DEF ServerPage
<1>6. ASSUME NEW c \in Clients, BridgePage(c)
      PROVE  DiscoveryIInv'
  BY <1>2, <1>6 DEF BridgePage
<1>7. ASSUME NEW c \in Clients, BridgePageFails(c)
      PROVE  DiscoveryIInv'
  BY <1>1, <1>7 DEF BridgePageFails, DiscoveryIInv
<1>8. ASSUME NEW c \in Clients, TryPaths(c)
      PROVE  DiscoveryIInv'
  BY <1>2, <1>8 DEF TryPaths
<1>9. ASSUME NEW c \in Clients, NEW n, NEW a, ProbeSucceeds(c, n, a)
      PROVE  DiscoveryIInv'
  <2> DEFINE new == Candidate(c, n, a)
             merged == UpsertScoredCandidate(found[c], new)
  <2>1. Answers(c, n)
    BY <1>9 DEF ProbeSucceeds
  <2>2. Ranked(new)
    BY <1>3, <2>1, CandidateIsRanked
  <2>3. /\ \A u \in DOMAIN merged : Ranked(merged[u])
        /\ Best(merged, answered[c] \cup {new})
    BY <2>2, UpsertKeepsBest DEF DiscoveryIInv
  <2>4. /\ found' = [found EXCEPT ![c] = merged]
        /\ answered' = [answered EXCEPT ![c] = answered[c] \cup {new}]
    BY <1>9 DEF ProbeSucceeds
  <2> HIDE DEF new, merged
  <2>5. /\ DOMAIN found' = Clients /\ DOMAIN answered' = Clients
        /\ found'[c] = merged /\ answered'[c] = answered[c] \cup {new}
        /\ \A d \in Clients : d # c => found'[d] = found[d] /\ answered'[d] = answered[d]
    BY <2>4 DEF DiscoveryIInv
  <2>6. ASSUME NEW d \in Clients
        PROVE  /\ \A k \in answered'[d] : Ranked(k)
               /\ \A u \in DOMAIN found'[d] : Ranked(found'[d][u])
               /\ Best(found'[d], answered'[d])
    BY <2>2, <2>3, <2>5 DEF DiscoveryIInv
  <2> QED
    BY <1>3, <2>1, <2>5, <2>6 DEF DiscoveryIInv, Best, Ranked
<1>10. ASSUME NEW c \in Clients, NEW n, ProbeFails(c, n)
       PROVE  DiscoveryIInv'
  BY <1>1, <1>3, <1>10 DEF ProbeFails
<1>11. ASSUME NEW c \in Clients, Rank(c)
       PROVE  DiscoveryIInv'
  BY <1>1, <1>11 DEF Rank, DiscoveryIInv
<1>12. ASSUME NEW c \in Clients, EndDiscovery(c)
       PROVE  DiscoveryIInv'
  BY <1>12 DEF EndDiscovery, DiscoveryIInv, Best, NoCandidates, Ranked
<1>13. ASSUME UNCHANGED discoveryVars
       PROVE  DiscoveryIInv'
  BY <1>1, <1>13 DEF discoveryVars, DiscoveryIInv
<1> QED
  BY <1>4, <1>5, <1>6, <1>7, <1>8, <1>9, <1>10, <1>11, <1>12, <1>13
  DEF DiscoveryNext, Discovering

LEMMA BestIsRanking == DiscoveryIInv => RankingIsDeterministic
<1> SUFFICES ASSUME DiscoveryIInv, NEW c \in Clients
             PROVE  /\ DOMAIN found[c] = {k.url : k \in answered[c]}
                    /\ \A u \in DOMAIN found[c] :
                          LET scores == {k.score : k \in {l \in answered[c] : l.url = u}}
                          IN  /\ found[c][u].score \in scores
                              /\ \A s \in scores : s <= found[c][u].score
  BY DEF RankingIsDeterministic
<1> QED
  BY DEF DiscoveryIInv, Best

\* Of each final URL, the ranking has the best score its hints got, in whatever order the
\* probes came back and the answers were merged.
THEOREM RankingAlwaysDeterministic == DiscoverySpec => []RankingIsDeterministic
<1>1. DiscoverySpec => []DiscoveryIInv
  BY DiscoveryIInvInit, DiscoveryIInvNext, PTL DEF DiscoverySpec
<1> QED
  BY <1>1, BestIsRanking, PTL

-----------------------------------------------------------------------------
(***************************************************************************)
(* What discoveries are made of                                            *)
(***************************************************************************)
LinkTitles ==
    {NULL} \cup UNION {{a.links[n].title : n \in DOMAIN a.links} : a \in UNION {Web[u] : u \in Urls}}

Hints == [url : Urls, title : LinkTitles, source : Sources]

DiscoveryTypes ==
    /\ stage \in [Clients -> {"idle", "page", "probing", "paths", "ranked"}]
    /\ DOMAIN site = Clients /\ DOMAIN found = Clients
    /\ hints \in [Clients -> Seq(Hints)]
    /\ DOMAIN waiting = Clients
    /\ \A c \in Clients :
          /\ stage[c] # "idle" => site[c] \in Urls
          /\ waiting[c] \subseteq DOMAIN hints[c]
          /\ IsFiniteSet(DOMAIN found[c])
          /\ found[c] = [u \in DOMAIN found[c] |-> found[c][u]]
          /\ DOMAIN found[c] \subseteq Urls
          /\ \A u \in DOMAIN found[c] : found[c][u].url = u /\ found[c][u].source \in Sources

-----------------------------------------------------------------------------
(***************************************************************************)
(* The inductive invariant                                                 *)
(***************************************************************************)
TheRow(o) == o.all[o.done + 1]

\* A call that stores rows.
StoreShape(o) ==
    o = [at |-> o.at, all |-> o.all, done |-> o.done, id |-> o.id, group |-> o.group,
         snapshot |-> o.snapshot, icon |-> o.icon, moved |-> o.moved]

StoreTyped(o) ==
    /\ StoreShape(o)
    /\ Len(o.all) \in Nat \ {0} /\ DOMAIN o.all = 1 .. Len(o.all)
    /\ \A n \in DOMAIN o.all :
          /\ o.all[n].url \in Urls \cup {NULL}
          /\ o.all[n].group \in Names \cup {Blank, NULL}
          /\ o.snapshot => o.all[n].group = NULL
          /\ o.all[n].url = NULL =>
                Len(o.all) = 1 /\ o.at \in {"group", "newgroup", "member", "return", "failed"}
    /\ o.done \in 0 .. Len(o.all)
    /\ o.at # "return" => o.done < Len(o.all)
    /\ o.snapshot \in BOOLEAN /\ o.icon \in {"none", "url", "job"}
    /\ o.at = "write" => o.id \in 1 .. rows \cup {NULL}
    /\ o.at \in {"items", "finish"} => o.snapshot /\ o.id \in 1 .. rows
    /\ o.at \in {"group", "newgroup", "member"} =>
          /\ TheRow(o).group \in Names
          /\ TheRow(o).url = NULL \/ o.id \in 1 .. rows
    /\ o.at = "member" => o.group \in SameName(TheRow(o).group)

OpTyped(o) ==
    /\ o.at \in {"idle", "probe", "discovering", "row", "full"} \cup Steps
    /\ o.at = "idle" => o = Idle
    /\ o.at \in {"probe", "row", "full"} => o.url \in Urls
    /\ o.at \in {"row", "full"} => o.id \in 1 .. rows
    /\ o.at = "full" => o.full \in BOOLEAN
    /\ o.at \in Steps => StoreTyped(o)

TableTypes ==
    /\ rows \in Nat
    /\ DOMAIN feed = Urls
    /\ \A u \in Urls : feed[u] # NoRow =>
          /\ feed[u] = [id |-> feed[u].id, title |-> feed[u].title, group |-> feed[u].group,
                        full |-> feed[u].full, icon |-> feed[u].icon]
          /\ feed[u].id \in 1 .. rows
          /\ feed[u].group \in groups \cup {NULL}
          /\ feed[u].full \in BOOLEAN
          /\ feed[u].icon \in {NULL, "url", "asset"}
    /\ \A u, v \in Urls : feed[u] # NoRow /\ feed[v] # NoRow /\ feed[u].id = feed[v].id =>
          u = v
    /\ IsFiniteSet(Subscribed)
    /\ groups \subseteq Names
    /\ articles \subseteq 1 .. rows /\ jobs \subseteq 1 .. rows
    /\ cache \subseteq Urls
    /\ DOMAIN op = Clients
    /\ calls \in 0 .. MaxCalls /\ crashes \in 0 .. MaxCrashes

TypeInv ==
    /\ DiscoveryTypes
    /\ TableTypes
    /\ \A c \in Clients : OpTyped(op[c])
    /\ \A c \in Clients : op[c].at # "discovering" => stage[c] = "idle"

\* No call is about to make a group of whose name there is one, but for twins.
GroupsInv ==
    /\ GroupsAreDistinct
    /\ \A c \in Clients : op[c].at = "newgroup" =>
          \/ Lower[Current(c).group] \in twins
          \/ SameName(Current(c).group) = {}

\* The articles of a feed are stored, or it is being deleted or was halfway.
Stocked(id) ==
    \/ id \in articles \cup cut
    \/ \E c \in Clients : op[c].at = "row" /\ op[c].id = id

ArticlesInv ==
    /\ promised \subseteq 1 .. rows
    /\ \A u \in Urls : feed[u] # NoRow => Stocked(feed[u].id) \/ feed[u].id \notin promised
    /\ \A c \in Clients : op[c].at = "finish" =>
          Stocked(op[c].id) \/ ~Live(Current(c).url, op[c].id)
    /\ \A c \in Clients : op[c].at = "row" =>
          \A u \in Urls : Live(u, op[c].id) => u = op[c].url

\* How far a call that stores rows has come, unless others got in between.
Reached(o) == IF o.at \in {"select", "write", "return"} THEN o.done ELSE o.done + 1

Overwritten(o, n, last) ==
    {o.all[k] : k \in {j \in n + 1 .. last : o.all[j].url = o.all[n].url}}

RowStored(o, n) ==
    /\ feed[o.all[n].url] # NoRow
    /\ \/ o.all[n].title \in {NULL, feed[o.all[n].url].title}
       \/ \E r \in Overwritten(o, n, Reached(o)) : r.title # NULL
    /\ \/ o.all[n].group \in {NULL, Blank}
       \/ feed[o.all[n].url].group \in SameName(o.all[n].group)
       \/ \E r \in Overwritten(o, n, o.done) : r.group \notin {NULL, Blank}

RowKept(o, n) ==
    \/ o.all[n].url \in o.moved
    \/ o.all[n].url = NULL /\ SameName(o.all[n].group) # {}
    \/ o.all[n].url # NULL /\ RowStored(o, n)

\* What the step that comes next relies on.
StepReady(o) ==
    /\ o.at = "write" =>
          \/ TheRow(o).url \in o.moved
          \/ IF o.id = NULL THEN feed[TheRow(o).url] = NoRow ELSE Live(TheRow(o).url, o.id)
    /\ o.at \in {"items", "finish", "group", "newgroup", "member"} =>
          \/ TheRow(o).url \in o.moved \cup {NULL}
          \/ /\ Live(TheRow(o).url, o.id)
             /\ TheRow(o).title \in {NULL, feed[TheRow(o).url].title}
    /\ o.at = "newgroup" => TheRow(o).group \notin groups \ o.moved
    /\ o.at = "failed" => {TheRow(o).url, TheRow(o).group} \cap o.moved # {}

ImportInv ==
    \A c \in Clients : op[c].at \in Steps =>
        /\ \A n \in 1 .. op[c].done : RowKept(op[c], n)
        /\ StepReady(op[c])

-----------------------------------------------------------------------------
\* Numbered hints are a list.
LEMMA NumberedHints ==
    ASSUME NEW k \in Nat, NEW list, DOMAIN list = 1 .. k, list = [n \in 1 .. k |-> list[n]],
           \A n \in 1 .. k : list[n] \in Hints
    PROVE  list \in Seq(Hints)
  OBVIOUS

LEMMA AHint ==
    ASSUME NEW u \in Urls, NEW title \in LinkTitles \cup {NULL}, NEW source \in Sources
    PROVE  [url |-> u, title |-> title, source |-> source] \in Hints
<1>1. title \in LinkTitles
  BY DEF LinkTitles
<1> QED
  BY <1>1 DEF Hints

LEMMA HintsOfPage ==
    ASSUME NEW u \in Urls, NEW a \in Web[u]
    PROVE  CollectHtmlFeedCandidates(a) \in Seq(Hints) /\ ExtractAutodiscoveryLinks(a) \in Seq(Hints)
<1> DEFINE typed == {n \in DOMAIN a.links : a.links[n].typed}
           looks == {n \in DOMAIN a.anchors : a.anchors[n].looks}
           links == Selected(a.links, typed)
           anchors == Selected(a.anchors, looks)
<1>1. /\ Len(a.links) \in Nat /\ DOMAIN a.links = 1 .. Len(a.links)
      /\ Len(a.anchors) \in Nat /\ DOMAIN a.anchors = 1 .. Len(a.anchors)
      /\ \A n \in DOMAIN a.links : a.links[n].url \in Urls
      /\ \A n \in DOMAIN a.anchors : a.anchors[n].url \in Urls
  BY WebAssumption
<1>2. \A n \in DOMAIN a.links : a.links[n].title \in LinkTitles
  BY DEF LinkTitles
<1>3. /\ Cardinality(typed) \in Nat /\ DOMAIN links = 1 .. Cardinality(typed)
      /\ \A i \in DOMAIN links : \E n \in typed : links[i] = a.links[n]
  <2>1. typed \subseteq DOMAIN a.links
    OBVIOUS
  <2> HIDE DEF typed
  <2> QED
    BY <1>1, <2>1, SelectedIsList
<1>4. /\ Cardinality(looks) \in Nat /\ DOMAIN anchors = 1 .. Cardinality(looks)
      /\ \A i \in DOMAIN anchors : \E n \in looks : anchors[i] = a.anchors[n]
  <2>1. looks \subseteq DOMAIN a.anchors
    OBVIOUS
  <2>2. Len(a.anchors) \in Nat /\ DOMAIN a.anchors = 1 .. Len(a.anchors)
    BY <1>1
  <2> HIDE DEF looks
  <2>3. /\ Cardinality(looks) \in Nat
        /\ DOMAIN anchors = 1 .. Cardinality(looks)
        /\ \A i \in 1 .. Cardinality(looks) : \E n \in looks : anchors[i] = a.anchors[n]
    BY <2>1, <2>2, SelectedIsList, SMTT(20)
  <2> QED
    BY <2>3
<1>5. ExtractAutodiscoveryLinks(a) =
        [n \in DOMAIN links |->
            [url |-> links[n].url, title |-> links[n].title, source |-> "autodiscovery"]]
  BY DEF ExtractAutodiscoveryLinks
<1>6. CollectHtmlFeedCandidates(a) = ExtractAutodiscoveryLinks(a) \o
        [n \in DOMAIN anchors |->
            [url |-> anchors[n].url, title |-> NULL, source |-> "heuristic_link"]]
  BY DEF CollectHtmlFeedCandidates
<1> HIDE DEF links, anchors
<1>7. \A i \in DOMAIN links : links[i].url \in Urls /\ links[i].title \in LinkTitles
  BY <1>1, <1>2, <1>3
<1>8. \A i \in DOMAIN anchors : anchors[i].url \in Urls
  BY <1>1, <1>4
<1>9. ExtractAutodiscoveryLinks(a) \in Seq(Hints)
  <2> DEFINE list == [n \in DOMAIN links |->
                        [url |-> links[n].url, title |-> links[n].title,
                         source |-> "autodiscovery"]]
  <2>1. \A n \in DOMAIN links : list[n] \in Hints
    BY <1>7, AHint DEF Sources
  <2>2. DOMAIN list = DOMAIN links
    OBVIOUS
  <2> QED
    BY <1>3, <1>5, <2>1, <2>2, NumberedHints
<1>10. [n \in DOMAIN anchors |->
            [url |-> anchors[n].url, title |-> NULL, source |-> "heuristic_link"]] \in Seq(Hints)
  <2> DEFINE list == [n \in DOMAIN anchors |->
                        [url |-> anchors[n].url, title |-> NULL,
                         source |-> "heuristic_link"]]
  <2>1. \A n \in DOMAIN anchors : list[n] \in Hints
    BY <1>8, AHint DEF Sources
  <2>2. DOMAIN list = DOMAIN anchors
    OBVIOUS
  <2> QED
    BY <1>4, <2>1, <2>2, NumberedHints
<1> QED
  BY <1>6, <1>9, <1>10

LEMMA HintsWithFallbacks ==
    ASSUME NEW list \in Seq(Hints), NEW paths \in Seq(Urls)
    PROVE  WithFallbacks(list, paths) \in Seq(Hints)
<1> DEFINE new == {n \in DOMAIN paths : /\ \A k \in DOMAIN list : list[k].url # paths[n]
                                        /\ \A k \in 1 .. n - 1 : paths[k] # paths[n]}
           added == Selected(paths, new)
           more == [n \in DOMAIN added |->
                       [url |-> added[n], title |-> NULL, source |-> "commonpath"]]
<1>1. /\ Cardinality(new) \in Nat /\ DOMAIN added = 1 .. Cardinality(new)
      /\ \A i \in DOMAIN added : \E n \in new : added[i] = paths[n]
  <2>1. Len(paths) \in Nat /\ DOMAIN paths = 1 .. Len(paths) /\ new \subseteq DOMAIN paths
    OBVIOUS
  <2> HIDE DEF new
  <2> QED
    BY <2>1, SelectedIsList
<1>2. \A n \in new : paths[n] \in Urls
  OBVIOUS
<1>3. WithFallbacks(list, paths) = list \o more
  BY DEF WithFallbacks
<1> HIDE DEF new, added
<1>4. \A i \in DOMAIN added : added[i] \in Urls
  BY <1>1, <1>2
<1>5. more \in Seq(Hints)
  <2>1. \A n \in DOMAIN added : more[n] \in Hints
    BY <1>4, AHint DEF Sources
  <2>2. DOMAIN more = DOMAIN added
    OBVIOUS
  <2> QED
    BY <1>1, <2>1, <2>2, NumberedHints
<1> QED
  BY <1>3, <1>5

LEMMA PathsAreHints ==
    ASSUME NEW paths \in Seq(Urls)
    PROVE  [n \in DOMAIN paths |-> [url |-> paths[n], title |-> NULL, source |-> "commonpath"]]
               \in Seq(Hints)
<1>1. /\ Len(paths) \in Nat /\ DOMAIN paths = 1 .. Len(paths)
      /\ \A n \in DOMAIN paths : paths[n] \in Urls
  OBVIOUS
<1> QED
  BY <1>1 DEF Hints, Sources, LinkTitles

\* What the server may get by any of the URLs that it tries.
LEMMA AnswersOfSite ==
    ASSUME NEW u \in Urls, NEW a \in FetchFirstSuccessful(u)
    PROVE  a.final \in Urls /\ \E v \in Urls : a \in Web[v]
  BY WebAssumption DEF FetchFirstSuccessful

LEMMA DiscoveryTypesInit == DiscoveryInit => DiscoveryTypes
  BY FS_EmptySet DEF DiscoveryInit, DiscoveryTypes, NoCandidates

LEMMA ProbeKeepsTypes ==
    ASSUME DiscoveryTypes, NEW c \in Clients, NEW list \in Seq(Hints),
           NEW next \in {"probing", "paths"}, Probe(c, list, next), UNCHANGED found,
           DOMAIN site' = Clients, site'[c] \in Urls,
           \A d \in Clients \ {c} : site'[d] = site[d]
    PROVE  DiscoveryTypes'
<1>1. DOMAIN list = 1 .. Len(list)
  OBVIOUS
<1> QED
  BY <1>1 DEF DiscoveryTypes, Probe

LEMMA DiscoveryTypesNext ==
    ASSUME DiscoveryTypes, [DiscoveryNext]_discoveryVars
    PROVE  DiscoveryTypes'
<1> USE WebAssumption
<1>1. ASSUME NEW c \in Clients, NEW u \in Urls, DiscoverSite(c, u)
      PROVE  DiscoveryTypes'
  BY <1>1 DEF DiscoverSite, DiscoveryTypes
<1>2. ASSUME NEW c \in Clients, ServerPage(c)
      PROVE  DiscoveryTypes'
  <2> DEFINE paths == ServerPaths[site[c]]
  <2>1. site[c] \in Urls /\ site' = site /\ found' = found
    BY <1>2 DEF ServerPage, DiscoveryTypes
  <2>2. paths \in Seq(Urls) /\ DOMAIN site = Clients
    BY <2>1 DEF DiscoveryTypes
  <2>3. CASE Probe(c, WithFallbacks(<<>>, paths), "probing")
    <3>1. WithFallbacks(<<>>, paths) \in Seq(Hints)
      <4>1. <<>> \in Seq(Hints)
        OBVIOUS
      <4> HIDE DEF paths
      <4> QED
        BY <2>2, <4>1, HintsWithFallbacks
    <3> QED
      BY <2>1, <2>2, <2>3, <3>1, ProbeKeepsTypes
  <2>4. CASE \E a \in FetchFirstSuccessful(site[c]) :
                Probe(c, WithFallbacks(WithFallbacks(CollectHtmlFeedCandidates(a), paths),
                                       ServerPaths[a.final]), "probing")
    <3>1. PICK a \in FetchFirstSuccessful(site[c]) :
                Probe(c, WithFallbacks(WithFallbacks(CollectHtmlFeedCandidates(a), paths),
                                       ServerPaths[a.final]), "probing")
      BY <2>4
    <3>2. ServerPaths[a.final] \in Seq(Urls) /\ CollectHtmlFeedCandidates(a) \in Seq(Hints)
      BY <2>1, AnswersOfSite, HintsOfPage
    <3>3. WithFallbacks(WithFallbacks(CollectHtmlFeedCandidates(a), paths),
                        ServerPaths[a.final]) \in Seq(Hints)
      BY <2>2, <3>2, HintsWithFallbacks
    <3> QED
      BY <2>1, <2>2, <3>1, <3>3, ProbeKeepsTypes
  <2> QED
    BY <1>2, <2>3, <2>4 DEF ServerPage
<1>3. ASSUME NEW c \in Clients, BridgePage(c)
      PROVE  DiscoveryTypes'
  <2>1. site[c] \in Urls /\ found' = found
    BY <1>3 DEF BridgePage, DiscoveryTypes
  <2>2. PICK a \in Web[site[c]] : /\ site' = [site EXCEPT ![c] = a.final]
                                  /\ Probe(c, ExtractAutodiscoveryLinks(a), "probing")
    BY <1>3 DEF BridgePage
  <2>3. a.final \in Urls /\ ExtractAutodiscoveryLinks(a) \in Seq(Hints)
    BY <2>1, HintsOfPage
  <2>4. /\ DOMAIN site' = Clients /\ site'[c] \in Urls
        /\ \A d \in Clients \ {c} : site'[d] = site[d]
    BY <2>2, <2>3 DEF DiscoveryTypes
  <2> QED
    BY <2>1, <2>2, <2>3, <2>4, ProbeKeepsTypes
<1>4. ASSUME NEW c \in Clients, BridgePageFails(c)
      PROVE  DiscoveryTypes'
  BY <1>4 DEF BridgePageFails, DiscoveryTypes
<1>5. ASSUME NEW c \in Clients, TryPaths(c)
      PROVE  DiscoveryTypes'
  <2>1. /\ site[c] \in Urls /\ site' = site /\ found' = found /\ DOMAIN site = Clients
    BY <1>5 DEF TryPaths, DiscoveryTypes
  <2> DEFINE list == [n \in DOMAIN BridgePaths[site[c]] |->
                         [url |-> BridgePaths[site[c]][n], title |-> NULL,
                          source |-> "commonpath"]]
  <2>2. list \in Seq(Hints)
    BY <2>1, PathsAreHints
  <2>3. Probe(c, list, "paths")
    BY <1>5 DEF TryPaths
  <2> QED
    BY <2>1, <2>2, <2>3, ProbeKeepsTypes
<1>6. ASSUME NEW c \in Clients, NEW n \in waiting[c], NEW a \in Web[hints[c][n].url],
             ProbeSucceeds(c, n, a)
      PROVE  DiscoveryTypes'
  <2> DEFINE new == Candidate(c, n, a)
             map == found[c]
             merged == UpsertScoredCandidate(map, new)
  <2>1. hints[c][n] \in Hints
    BY DEF DiscoveryTypes
  <2>2. a.final \in Urls
    BY <2>1 DEF Hints
  <2>3. new.url \in Urls /\ new.source \in Sources
    BY <2>1, <2>2 DEF Hints, Candidate
  <2>4. /\ IsFiniteSet(DOMAIN map) /\ DOMAIN map \subseteq Urls
        /\ \A u \in DOMAIN map : map[u].url = u /\ map[u].source \in Sources
    BY DEF DiscoveryTypes
  <2>5. found' = [found EXCEPT ![c] = merged]
    BY <1>6 DEF ProbeSucceeds
  <2>6. DOMAIN merged = DOMAIN map \cup {new.url}
    BY DEF UpsertScoredCandidate
  <2>7. IsFiniteSet(DOMAIN merged)
    <3> DEFINE known == DOMAIN map
    <3>1. IsFiniteSet(known) /\ DOMAIN merged = known \cup {new.url}
      BY <2>4, <2>6
    <3> HIDE DEF known, merged, new
    <3> QED
      BY <3>1, FS_AddElement
  <2> HIDE DEF new, map
  <2>8. ASSUME NEW u \in DOMAIN merged
        PROVE  merged[u].url = u /\ merged[u].source \in Sources
    <3>1. CASE u # new.url
      BY <2>4, <2>6, <3>1 DEF UpsertScoredCandidate
    <3>2. CASE u = new.url
      <4>1. merged[u] \in {new, map[u], [map[u] EXCEPT !.title = new.title]}
        BY <3>2 DEF UpsertScoredCandidate
      <4>2. CASE u \in DOMAIN map
        <5>1. map[u].url = u /\ map[u].source \in Sources
          BY <2>4, <4>2
        <5>2. [map[u] EXCEPT !.title = new.title].url = map[u].url
              /\ [map[u] EXCEPT !.title = new.title].source = map[u].source
          OBVIOUS
        <5> QED
          BY <2>3, <3>2, <4>1, <5>1, <5>2
      <4>3. CASE u \notin DOMAIN map
        BY <2>3, <3>2, <4>3 DEF UpsertScoredCandidate
      <4> QED
        BY <4>2, <4>3
    <3> QED
      BY <3>1, <3>2
  <2> HIDE DEF merged
  <2>9. found'[c] = merged /\ \A d \in Clients \ {c} : found'[d] = found[d]
    BY <2>5 DEF DiscoveryTypes
  <2>10. DOMAIN merged \subseteq Urls
    BY <2>3, <2>4, <2>6
  <2>11. /\ stage' = stage /\ site' = site /\ hints' = hints
         /\ waiting' = [waiting EXCEPT ![c] = @ \ {n}]
    BY <1>6 DEF ProbeSucceeds, Answers
  <2>12. \A d \in Clients : waiting'[d] \subseteq waiting[d]
    BY <2>11 DEF DiscoveryTypes
  <2>13. ASSUME NEW d \in Clients
         PROVE  /\ IsFiniteSet(DOMAIN found'[d])
                /\ found'[d] = [u \in DOMAIN found'[d] |-> found'[d][u]]
                /\ DOMAIN found'[d] \subseteq Urls
                /\ \A u \in DOMAIN found'[d] :
                      found'[d][u].url = u /\ found'[d][u].source \in Sources
    <3>1. CASE d = c
      <4>1. merged = [u \in DOMAIN merged |-> merged[u]]
        BY DEF merged, UpsertScoredCandidate
      <4> QED
        BY <2>7, <2>8, <2>9, <2>10, <3>1, <4>1
    <3>2. CASE d # c
      BY <2>9, <3>2 DEF DiscoveryTypes
    <3> QED
      BY <3>1, <3>2
  <2>14. DOMAIN found' = Clients /\ DOMAIN waiting' = Clients
    BY <2>5, <2>11 DEF DiscoveryTypes
  <2> QED
    BY <2>11, <2>12, <2>13, <2>14 DEF DiscoveryTypes
<1>7. ASSUME NEW c \in Clients, NEW n, ProbeFails(c, n)
      PROVE  DiscoveryTypes'
  BY <1>7 DEF ProbeFails, Answers, DiscoveryTypes
<1>8. ASSUME NEW c \in Clients, Rank(c)
      PROVE  DiscoveryTypes'
  BY <1>8 DEF Rank, DiscoveryTypes
<1>9. ASSUME NEW c \in Clients, EndDiscovery(c)
      PROVE  DiscoveryTypes'
  BY <1>9, FS_EmptySet DEF EndDiscovery, DiscoveryTypes, NoCandidates
<1>10. ASSUME UNCHANGED discoveryVars
       PROVE  DiscoveryTypes'
  BY <1>10 DEF discoveryVars, DiscoveryTypes
<1> QED
  BY <1>1, <1>2, <1>3, <1>4, <1>5, <1>6, <1>7, <1>8, <1>9, <1>10
  DEF DiscoveryNext, Discovering

-----------------------------------------------------------------------------
(***************************************************************************)
(* What a discovery offers can be chosen from                              *)
(***************************************************************************)
LEMMA ServerChoosesCandidate ==
    ASSUME NEW map, IsFiniteSet(DOMAIN map), DOMAIN map # {}, DOMAIN map \subseteq Int,
           \A u \in DOMAIN map : map[u].score \in Int
    PROVE  ServerChoice(map) \in DOMAIN map
<1> DEFINE f == [u \in DOMAIN map |-> map[u].score]
           scores == {f[u] : u \in DOMAIN map}
<1>1. DOMAIN f = DOMAIN map /\ \A u \in DOMAIN map : f[u] = map[u].score
  OBVIOUS
<1> HIDE DEF f
<1>2. IsFiniteSet(scores)
  BY <1>1, FiniteValues
<1>3. scores \subseteq Int /\ scores # {}
  BY <1>1
<1> HIDE DEF scores
<1>4. PICK best \in scores : \A s \in scores : s <= best
  BY <1>2, <1>3, HasMaximum
<1> DEFINE top == {u \in DOMAIN map : f[u] = best}
<1>5. top \in SUBSET DOMAIN map /\ top # {} /\ top \subseteq Int
  BY <1>4 DEF scores
<1>6. IsFiniteSet(top)
  BY <1>5, FS_Subset
<1> HIDE DEF top
<1>7. PICK u \in top : \A v \in top : v <= u
  BY <1>5, <1>6, HasMaximum
<1>8. ASSUME NEW v \in DOMAIN map
      PROVE  \/ map[u].score > map[v].score
             \/ map[u].score = map[v].score /\ u >= v
  <2>1. u \in DOMAIN map /\ map[u].score = best /\ map[v].score <= best
    BY <1>1, <1>4 DEF top, scores
  <2>2. CASE map[v].score = best
    BY <1>1, <1>5, <1>7, <2>1, <2>2 DEF top
  <2>3. CASE map[v].score # best
    BY <1>1, <1>3, <1>4, <2>1, <2>3
  <2> QED
    BY <2>2, <2>3
<1>9. u \in DOMAIN map
  BY <1>5
<1> QED
  BY <1>8, <1>9 DEF ServerChoice

LEMMA BridgeChoosesCandidate ==
    ASSUME NEW map, IsFiniteSet(DOMAIN map), DOMAIN map # {}, DOMAIN map \subseteq Int,
           \A u \in DOMAIN map : map[u].score \in Int
    PROVE  BridgeChoice(map) \in DOMAIN map
<1> DEFINE f == [u \in DOMAIN map |-> ConfidenceFromScore(map[u].score)]
           scores == {f[u] : u \in DOMAIN map}
<1>1. DOMAIN f = DOMAIN map /\ \A u \in DOMAIN map : f[u] = ConfidenceFromScore(map[u].score)
  OBVIOUS
<1>2. \A u \in DOMAIN map : f[u] \in Int
  BY <1>1 DEF ConfidenceFromScore
<1> HIDE DEF f
<1>3. IsFiniteSet(scores)
  BY <1>1, FiniteValues
<1>4. scores \subseteq Int /\ scores # {}
  BY <1>2
<1> HIDE DEF scores
<1>5. PICK best \in scores : \A s \in scores : s <= best
  BY <1>3, <1>4, HasMaximum
<1> DEFINE top == {u \in DOMAIN map : f[u] = best}
<1>6. top \in SUBSET DOMAIN map /\ top # {} /\ top \subseteq Int
  BY <1>5 DEF scores
<1>7. IsFiniteSet(top)
  BY <1>6, FS_Subset
<1> HIDE DEF top
<1>8. PICK u \in top : \A v \in top : u <= v
  BY <1>6, <1>7, HasMinimum
<1>9. u \in DOMAIN map /\ f[u] = best
  BY DEF top
<1>10. ASSUME NEW v \in DOMAIN map
       PROVE  f[u] > f[v] \/ (f[u] = f[v] /\ u <= v)
  <2>1. f[v] <= best /\ f[v] \in Int /\ best \in Int
    BY <1>2, <1>4, <1>5 DEF scores
  <2>2. CASE f[v] = best
    BY <1>8, <1>9, <2>2 DEF top
  <2>3. CASE f[v] # best
    BY <1>9, <2>1, <2>3
  <2> QED
    BY <2>2, <2>3
<1>11. \E w \in DOMAIN map : \A v \in DOMAIN map :
          LET left == ConfidenceFromScore(map[w].score)
              right == ConfidenceFromScore(map[v].score)
          IN  left > right \/ (left = right /\ w <= v)
  BY <1>1, <1>9, <1>10
<1> QED
  BY <1>11 DEF BridgeChoice

\* A discovery that found something offers candidates under URLs of the web.
LEMMA FoundAreCandidates ==
    ASSUME DiscoveryTypes, DiscoveryIInv, NEW c \in Clients, found[c] # NoCandidates
    PROVE  ServerChoice(found[c]) \in Urls /\ BridgeChoice(found[c]) \in Urls
<1> DEFINE map == found[c]
<1>1. /\ IsFiniteSet(DOMAIN map) /\ DOMAIN map \subseteq Urls
      /\ map = [u \in DOMAIN map |-> map[u]]
  BY DEF DiscoveryTypes
<1>2. DOMAIN map # {}
  <2>1. SUFFICES ASSUME DOMAIN map = {} PROVE map = NoCandidates
    OBVIOUS
  <2> QED
    BY <1>1, <2>1 DEF NoCandidates
<1>3. \A u \in DOMAIN map : map[u].score \in Int
  BY DEF DiscoveryIInv, Ranked
<1>4. DOMAIN map \subseteq Int
  <2>1. DOMAIN map \subseteq Urls
    BY <1>1
  <2>2. Urls \subseteq Int
    BY DiscoveryAssumptions
  <2> QED
    BY <2>1, <2>2
<1> HIDE DEF map
<1>5. ServerChoice(map) \in DOMAIN map /\ BridgeChoice(map) \in DOMAIN map
  BY <1>1, <1>2, <1>3, <1>4, ServerChoosesCandidate, BridgeChoosesCandidate
<1> QED
  BY <1>1, <1>5 DEF map

-----------------------------------------------------------------------------
(***************************************************************************)
(* Frames: what a step of one call leaves of the others                    *)
(***************************************************************************)
LEMMA GoFrame ==
    ASSUME NEW c \in Clients, NEW step, NEW touched, Go(c, step, touched)
    PROVE  /\ DOMAIN op' = Clients /\ op'[c] = step
           /\ \A d \in Clients \ {c} :
                 op'[d] = IF op[d].at \in Steps
                          THEN [op[d] EXCEPT !.moved = @ \cup (touched \cap Stores(d))]
                          ELSE op[d]
  BY DEF Go

\* A call notes what others touch and nothing else of it changes.
LEMMA NotedFields ==
    ASSUME NEW o, StoreShape(o), NEW m
    PROVE  LET p == [o EXCEPT !.moved = m]
           IN  /\ p.at = o.at /\ p.all = o.all /\ p.done = o.done /\ p.id = o.id
               /\ p.group = o.group /\ p.snapshot = o.snapshot /\ p.icon = o.icon
               /\ p.moved = m
               /\ StoreShape(p)
<1>1. o = [at |-> o.at, all |-> o.all, done |-> o.done, id |-> o.id, group |-> o.group,
           snapshot |-> o.snapshot, icon |-> o.icon, moved |-> o.moved]
  BY DEF StoreShape
<1> QED
  BY <1>1 DEF StoreShape

LEMMA OthersTyped ==
    ASSUME TypeInv, NEW c \in Clients, NEW step, NEW touched, Go(c, step, touched),
           rows' \in Nat, rows <= rows', groups \subseteq groups',
           NEW d \in Clients \ {c}
    PROVE  OpTyped(op[d])' /\ op'[d].at = op[d].at
<1> DEFINE o == op[d]
           p == op'[d]
<1>1. rows \in Nat /\ OpTyped(o)
  BY DEF TypeInv, TableTypes
<1>2. 1 .. rows \subseteq 1 .. rows'
  BY <1>1
<1>3. CASE o.at \in Steps
  <2>1. StoreTyped(o) /\ p = [o EXCEPT !.moved = @ \cup (touched \cap Stores(d))]
    BY <1>1, <1>3, GoFrame DEF OpTyped
  <2> DEFINE m == o.moved \cup (touched \cap Stores(d))
  <2>2. p = [o EXCEPT !.moved = m]
    BY <2>1
  <2> HIDE DEF m
  <2>3. /\ p.at = o.at /\ p.all = o.all /\ p.done = o.done /\ p.id = o.id
        /\ p.group = o.group /\ p.snapshot = o.snapshot /\ p.icon = o.icon
        /\ StoreShape(p)
    <3>1. StoreShape(o)
      BY <2>1 DEF StoreTyped
    <3> HIDE DEF o, p
    <3> QED
      BY <2>2, <3>1, NotedFields
  <2>4. StoreTyped(o)'
    <3> HIDE DEF p
    <3>1. TheRow(o)' = TheRow(o)
      BY <2>3 DEF TheRow, p
    <3>2. \A name : SameName(name) \subseteq SameName(name)'
      BY DEF SameName
    <3> QED
      BY <1>2, <2>1, <2>3, <3>1, <3>2, SMTT(20) DEF StoreTyped, TheRow, StoreShape, p
  <2> QED
    BY <1>3, <2>3, <2>4 DEF OpTyped, Idle, Steps
<1>4. CASE o.at \notin Steps
  <2>1. p = o
    BY <1>4, GoFrame
  <2> QED
    BY <1>1, <1>2, <1>4, <2>1 DEF OpTyped
<1> QED
  BY <1>3, <1>4

\* Of a step of one call it is enough to look at the tables and at that call.
LEMMA StepKeepsTypes ==
    ASSUME TypeInv, DiscoveryTypes', TableTypes', NEW c \in Clients, NEW step, NEW touched,
           Go(c, step, touched), rows <= rows', groups \subseteq groups',
           OpTyped(step)', step.at # "discovering" => stage'[c] = "idle",
           \A d \in Clients \ {c} : stage'[d] = stage[d]
    PROVE  TypeInv'
<1>1. rows' \in Nat
  BY DEF TableTypes
<1>2. \A d \in Clients \ {c} : OpTyped(op[d])' /\ op'[d].at = op[d].at
  BY <1>1, OthersTyped
<1>3. op'[c] = step
  BY GoFrame
<1>4. \A d \in Clients : OpTyped(op[d])'
  <2>1. OpTyped(op[c])'
    BY <1>3 DEF OpTyped, StoreTyped, StoreShape, TheRow, Steps, Idle, SameName
  <2> QED
    BY <1>2, <2>1
<1>5. \A d \in Clients : op'[d].at # "discovering" => stage'[d] = "idle"
  BY <1>2, <1>3 DEF TypeInv
<1> QED
  BY <1>4, <1>5 DEF TypeInv

-----------------------------------------------------------------------------
(***************************************************************************)
(* The calls that do not touch a feed                                      *)
(***************************************************************************)
\* Of discoveries, a step does what Discovery says, or nothing.
LEMMA StepIsDiscovery ==
    ASSUME TypeInv, [Next]_vars
    PROVE  [DiscoveryNext]_discoveryVars
<1>1. \A c \in Clients : op[c].at = "probe" => op[c].url \in Urls
  BY DEF TypeInv, OpTyped
<1>2. ASSUME NEW c \in Clients, NEW u \in Urls, DiscoverSite(c, u) \/ EndDiscovery(c)
                                                \/ Discovering(c)
      PROVE  DiscoveryNext
  BY <1>2 DEF DiscoveryNext
<1>3. ASSUME NEW c \in Clients, Subscribe(c)
      PROVE  [DiscoveryNext]_discoveryVars
  <2>1. ASSUME NEW u \in Inputs, BeginSubscribe(c, u) \/ BeginDiscover(c, u)
        PROVE  [DiscoveryNext]_discoveryVars
    <3>1. u \in Urls
      BY SubscriptionsAssumptions
    <3> QED
      BY <1>2, <2>1, <3>1 DEF BeginSubscribe, BeginDiscover
  <2>2. CASE SubscribeInput(c)
    <3>1. op[c].url \in Urls
      BY <1>1, <2>2 DEF SubscribeInput
    <3>2. \A a \in FetchFirstSuccessful(op[c].url) : a.final \in Urls
      BY <3>1, AnswersOfSite
    <3> QED
      BY <1>2, <2>2, <3>1, <3>2 DEF SubscribeInput
  <2>3. CASE BridgeSubscribeInput(c)
    <3>1. op[c].url \in Urls
      BY <1>1, <2>3 DEF BridgeSubscribeInput
    <3> QED
      BY <1>2, <2>3, <3>1 DEF BridgeSubscribeInput
  <2>4. CASE Discovers(c)
    BY <2>4 DEF Discovers, DiscoveryNext
  <2>5. CASE ReturnDiscovered(c) \/ NothingDiscovered(c) \/ SubscribeDiscovered(c)
             \/ BridgeSubscribeDiscovered(c) \/ CoreSubscribeDiscovered(c)
    BY <2>5 DEF ReturnDiscovered, NothingDiscovered, SubscribeDiscovered,
                BridgeSubscribeDiscovered, CoreSubscribeDiscovered, DiscoveryNext
  <2>6. CASE \/ \E u \in Inputs, title \in Titles \cup {NULL} : BeginAdd(c, u, title)
             \/ AddSubscription(c) \/ BridgeAddSubscription(c) \/ CoreAddSubscription(c)
             \/ ProbeIsRefused(c)
    BY <2>6 DEF BeginAdd, AddSubscription, BridgeAddSubscription, CoreAddSubscription,
                ProbeIsRefused
  <2> QED
    BY <1>3, <2>1, <2>2, <2>3, <2>4, <2>5, <2>6 DEF Subscribe
<1>4. ASSUME NEW c \in Clients, Store(c)
      PROVE  UNCHANGED discoveryVars
  BY <1>4, Zenon DEF Store, ImportSubscriptions, SelectFeed, UpdateRow, InsertRow, StoreItems,
              FinishSubscription, FindGroup, InsertGroup, AssignGroup, Respond
<1>5. ASSUME NEW c \in Clients, Manage(c) \/ Crash(c)
      PROVE  UNCHANGED discoveryVars
  BY <1>5 DEF Manage, Crash, CreateGroup, SetFeedGroup, UpdateFeedTitle,
              UpdateFeedAutoFullText, DeleteRow, DeleteEntries
<1>6. ASSUME NEW id, CacheSiteIcon(id) \/ NoSiteIcon(id)
      PROVE  UNCHANGED discoveryVars
  BY <1>6 DEF CacheSiteIcon, NoSiteIcon
<1> QED
  BY <1>3, <1>4, <1>5, <1>6 DEF Next, vars

\* The call of a client goes on and nothing of the tables changes; if it is one that
\* stores rows it has just begun.
Quiet(c, step) ==
    /\ op[c].at \in {"idle", "probe", "discovering"}
    /\ Go(c, step, {})
    /\ OpTyped(step)
    /\ \/ step.at \in {"idle", "probe", "discovering"}
       \/ step.at = "select" /\ step.done = 0
       \/ step.at = "group" /\ step.done = 0 /\ TheRow(step).url = NULL
    /\ UNCHANGED <<feed, groups, articles, jobs, rows, crashes, ghostVars>>
    /\ cache' \subseteq Urls /\ calls' \in 0 .. MaxCalls
    /\ step.at # "discovering" => stage'[c] = "idle"
    /\ \A d \in Clients \ {c} : stage'[d] = stage[d]

LEMMA OneRowTyped ==
    ASSUME NEW u \in Urls, NEW title, NEW snapshot \in BOOLEAN,
           NEW icon \in {"none", "url", "job"}
    PROVE  LET o == Storing(<<Row(u, title, NULL)>>, snapshot, icon)
           IN  OpTyped(o) /\ o.at = "select" /\ o.done = 0
<1> DEFINE all == <<Row(u, title, NULL)>>
           o == Storing(all, snapshot, icon)
<1>1. /\ Len(all) = 1 /\ DOMAIN all = 1 .. 1
      /\ all[1].url = u /\ all[1].group = NULL
  BY DEF Row
<1> HIDE DEF all
<1>2. /\ o.at = "select" /\ o.all = all /\ o.done = 0 /\ o.snapshot = snapshot
      /\ o.icon = icon
      /\ StoreShape(o)
  BY DEF Storing, StoreShape
<1>3. u # NULL
  BY DiscoveryAssumptions, NullAssumption
<1> HIDE DEF o
<1>4. StoreTyped(o)
  <2> DEFINE list == o.all
             number == Len(all)
  <2>1. list = all /\ number = 1 /\ DOMAIN all = 1 .. number
    BY <1>1, <1>2
  <2> HIDE DEF list, number
  <2>2. Len(list) = number /\ number \in Nat \ {0} /\ DOMAIN list = 1 .. Len(list)
    BY <2>1 DEF number
  <2>3. /\ \A n \in DOMAIN list : n = 1
        /\ 0 \in 0 .. Len(list) /\ 0 < Len(list)
    BY <2>1, <2>2
  <2> USE DEF list
  <2> QED
    BY <1>1, <1>2, <1>3, <2>1, <2>2, <2>3 DEF StoreTyped
<1> QED
  BY <1>2, <1>4 DEF OpTyped, Steps, o, all

\* Every call is an idle client's, and counted.
LEMMA CallFrame ==
    ASSUME TypeInv, NEW c \in Clients, Call(c)
    PROVE  op[c] = Idle /\ op[c].at = "idle" /\ stage[c] = "idle" /\ calls' \in 0 .. MaxCalls
<1>1. op[c] = Idle /\ op[c].at = "idle"
  BY DEF Call, Idle
<1>2. calls \in Nat /\ calls < MaxCalls /\ calls' = calls + 1 /\ MaxCalls \in Nat
  BY SubscriptionsAssumptions DEF TypeInv, TableTypes, Call
<1> QED
  BY <1>1, <1>2 DEF TypeInv

\* The answer of a probe begins to be stored.
LEMMA StoreAnswerIsQuiet ==
    ASSUME TypeInv, NEW c \in Clients, op[c].at = "probe", NEW a, a.final \in Urls,
           NEW icon \in {"none", "url", "job"}, StoreAnswer(c, a, icon),
           UNCHANGED <<discoveryVars, tableVars, calls, crashes, ghostVars>>
    PROVE  \E step : Quiet(c, step)
<1> DEFINE title == IF a.feed.title # NULL THEN a.feed.title ELSE op[c].title
           step == Storing(<<Row(a.final, title, NULL)>>, TRUE, icon)
<1>1. Go(c, step, {})
  BY DEF StoreAnswer
<1> HIDE DEF title
<1>2. OpTyped(step) /\ step.at = "select" /\ step.done = 0
  BY OneRowTyped
<1> HIDE DEF step
<1>3. cache \subseteq Urls /\ calls \in 0 .. MaxCalls /\ stage[c] = "idle"
  BY DEF TypeInv, TableTypes
<1>4. Quiet(c, step)
  BY <1>1, <1>2, <1>3 DEF Quiet, tableVars, discoveryVars
<1> QED
  BY <1>4

LEMMA SubscribeIsQuiet ==
    ASSUME TypeInv, DiscoveryIInv, NEW c \in Clients, Subscribe(c)
    PROVE  (\E step : Quiet(c, step)) \/ Discovers(c)
<1>1. /\ cache \subseteq Urls /\ calls \in 0 .. MaxCalls
      /\ op[c].at # "discovering" => stage[c] = "idle"
      /\ op[c].at = "probe" => op[c].url \in Urls
      /\ stage[c] # "idle" => site[c] \in Urls
      /\ stage \in [Clients -> {"idle", "page", "probing", "paths", "ranked"}]
  BY DEF TypeInv, TableTypes, OpTyped, DiscoveryTypes
<1>2. ASSUME NEW u \in Inputs, NEW title, NEW add \in BOOLEAN, Call(c),
             Go(c, [at |-> "probe", url |-> u, title |-> title, add |-> add], {}),
             UNCHANGED <<discoveryVars, tableVars, crashes, ghostVars>>
      PROVE  \E step : Quiet(c, step)
  <2> DEFINE step == [at |-> "probe", url |-> u, title |-> title, add |-> add]
  <2>1. OpTyped(step)
    BY SubscriptionsAssumptions DEF OpTyped, Steps
  <2>2. Quiet(c, step)
    BY <1>1, <1>2, <2>1, CallFrame DEF Quiet, tableVars, discoveryVars
  <2> QED
    BY <2>2
<1>3. ASSUME NEW u \in Inputs, BeginSubscribe(c, u)
      PROVE  \E step : Quiet(c, step)
  BY <1>2, <1>3 DEF BeginSubscribe
<1>4. ASSUME NEW u \in Inputs, NEW title, BeginAdd(c, u, title)
      PROVE  \E step : Quiet(c, step)
  BY <1>2, <1>4 DEF BeginAdd
\* A discovery begins, of a call or within one.
<1>5. ASSUME NEW u, DiscoverSite(c, u), NEW subscribe \in BOOLEAN,
             op[c].at \in {"idle", "probe"}, calls' \in 0 .. MaxCalls,
             Go(c, [at |-> "discovering", subscribe |-> subscribe], {}),
             UNCHANGED <<tableVars, crashes, ghostVars>>
      PROVE  \E step : Quiet(c, step)
  <2> DEFINE step == [at |-> "discovering", subscribe |-> subscribe]
  <2>1. OpTyped(step) /\ step.at = "discovering"
    BY DEF OpTyped, Steps
  <2>2. \A d \in Clients \ {c} : stage'[d] = stage[d]
    BY <1>1, <1>5 DEF DiscoverSite
  <2>3. Quiet(c, step)
    BY <1>1, <1>5, <2>1, <2>2 DEF Quiet, tableVars
  <2> QED
    BY <2>3
<1>6. ASSUME NEW u \in Inputs, BeginDiscover(c, u)
      PROVE  \E step : Quiet(c, step)
  BY <1>5, <1>6, CallFrame DEF BeginDiscover
<1>7. ASSUME AddSubscription(c) \/ BridgeAddSubscription(c) \/ CoreAddSubscription(c)
      PROVE  \E step : Quiet(c, step)
  <2>1. /\ op[c].at = "probe"
        /\ UNCHANGED <<discoveryVars, tableVars, calls, crashes, ghostVars>>
    BY <1>7 DEF AddSubscription, BridgeAddSubscription, CoreAddSubscription
  <2>2. PICK a \in Web[op[c].url], icon \in {"none", "url", "job"} : StoreAnswer(c, a, icon)
    BY <1>7 DEF AddSubscription, BridgeAddSubscription, CoreAddSubscription
  <2>3. a.final \in Urls
    BY <1>1, <2>1, WebAssumption
  <2> QED
    BY <2>1, <2>2, <2>3, StoreAnswerIsQuiet
<1>8. ASSUME ProbeIsRefused(c)
      PROVE  \E step : Quiet(c, step)
  <2>1. OpTyped(Idle) /\ Idle.at = "idle"
    BY DEF OpTyped, Idle, Steps
  <2>2. Quiet(c, Idle)
    BY <1>1, <1>8, <2>1 DEF Quiet, ProbeIsRefused, Return, tableVars, discoveryVars
  <2> QED
    BY <2>2
<1>9. ASSUME SubscribeInput(c)
      PROVE  \E step : Quiet(c, step)
  <2>1. op[c].at = "probe" /\ UNCHANGED <<tableVars, calls, crashes, ghostVars>>
    BY <1>9 DEF SubscribeInput
  <2>2. ASSUME NEW a \in FetchFirstSuccessful(op[c].url), StoreAnswer(c, a, "job"),
               UNCHANGED discoveryVars
        PROVE  \E step : Quiet(c, step)
    BY <1>1, <2>1, <2>2, AnswersOfSite, StoreAnswerIsQuiet
  <2>3. ASSUME NEW u, DiscoverSite(c, u),
               Go(c, [at |-> "discovering", subscribe |-> TRUE], {})
        PROVE  \E step : Quiet(c, step)
    BY <1>1, <1>5, <2>1, <2>3
  <2> QED
    BY <1>9, <2>2, <2>3 DEF SubscribeInput
<1>10. ASSUME BridgeSubscribeInput(c)
       PROVE  \E step : Quiet(c, step)
  <2>1. op[c].at = "probe" /\ UNCHANGED <<tableVars, calls, crashes, ghostVars>>
    BY <1>10 DEF BridgeSubscribeInput
  <2>2. ASSUME NEW a \in Web[op[c].url], StoreAnswer(c, a, "none"),
               UNCHANGED discoveryVars
        PROVE  \E step : Quiet(c, step)
    BY <1>1, <2>1, <2>2, WebAssumption, StoreAnswerIsQuiet
  <2>3. ASSUME NEW u, DiscoverSite(c, u),
               Go(c, [at |-> "discovering", subscribe |-> TRUE], {})
        PROVE  \E step : Quiet(c, step)
    BY <1>1, <1>5, <2>1, <2>3
  <2> QED
    BY <1>10, <2>2, <2>3 DEF BridgeSubscribeInput
\* A discovery ends.
<1>11. ASSUME EndDiscovery(c)
       PROVE  stage'[c] = "idle" /\ \A d \in Clients \ {c} : stage'[d] = stage[d]
  BY <1>1, <1>11 DEF EndDiscovery
<1>12. ASSUME ReturnDiscovered(c) \/ NothingDiscovered(c)
       PROVE  \E step : Quiet(c, step)
  <2>1. OpTyped(Idle) /\ Idle.at = "idle"
    BY DEF OpTyped, Idle, Steps
  <2>2. cache' \subseteq Urls
    BY <1>1, <1>12 DEF ReturnDiscovered, NothingDiscovered, tableVars
  <2>3. /\ op[c].at = "discovering" /\ EndDiscovery(c) /\ Go(c, Idle, {})
        /\ UNCHANGED <<feed, groups, articles, jobs, rows, calls, crashes, ghostVars>>
    BY <1>12 DEF ReturnDiscovered, NothingDiscovered, Return, tableVars
  <2>4. Quiet(c, Idle)
    BY <1>1, <1>11, <2>1, <2>2, <2>3 DEF Quiet
  <2> QED
    BY <2>4
<1>13. ASSUME op[c].at = "discovering", EndDiscovery(c), NEW u \in Urls, NEW title,
              NEW snapshot \in BOOLEAN, NEW icon \in {"none", "job"},
              Go(c, Storing(<<Row(u, title, NULL)>>, snapshot, icon), {}),
              UNCHANGED <<tableVars, calls, crashes, ghostVars>>
       PROVE  \E step : Quiet(c, step)
  <2> DEFINE step == Storing(<<Row(u, title, NULL)>>, snapshot, icon)
  <2>1. OpTyped(step) /\ step.at = "select" /\ step.done = 0
    BY OneRowTyped
  <2> HIDE DEF step
  <2>2. Go(c, step, {})
    BY <1>13 DEF step
  <2>3. Quiet(c, step)
    BY <1>1, <1>11, <1>13, <2>1, <2>2 DEF Quiet, tableVars
  <2> QED
    BY <2>3
<1>14. ASSUME SubscribeDiscovered(c) \/ BridgeSubscribeDiscovered(c)
              \/ CoreSubscribeDiscovered(c)
       PROVE  \E step : Quiet(c, step)
  <2>1. /\ op[c].at = "discovering" /\ EndDiscovery(c)
        /\ UNCHANGED <<tableVars, calls, crashes, ghostVars>>
    BY <1>14 DEF SubscribeDiscovered, BridgeSubscribeDiscovered, CoreSubscribeDiscovered
  <2>2. CASE SubscribeDiscovered(c)
    <3>1. ServerChoice(found[c]) \in Urls
      BY <2>2, FoundAreCandidates DEF SubscribeDiscovered, TypeInv
    <3> QED
      BY <1>13, <2>1, <2>2, <3>1 DEF SubscribeDiscovered
  <2>3. CASE BridgeSubscribeDiscovered(c)
    <3>1. BridgeChoice(found[c]) \in Urls
      BY <2>3, FoundAreCandidates DEF BridgeSubscribeDiscovered, TypeInv
    <3> QED
      BY <1>13, <2>1, <2>3, <3>1 DEF BridgeSubscribeDiscovered
  <2>4. CASE CoreSubscribeDiscovered(c)
    <3>1. DOMAIN found[c] \subseteq Urls
      BY DEF TypeInv, DiscoveryTypes
    <3> QED
      BY <1>13, <2>1, <2>4, <3>1 DEF CoreSubscribeDiscovered
  <2> QED
    BY <1>14, <2>2, <2>3, <2>4
<1> QED
  BY <1>3, <1>4, <1>6, <1>7, <1>8, <1>9, <1>10, <1>12, <1>14 DEF Subscribe

-----------------------------------------------------------------------------
(***************************************************************************)
(* OPML                                                                    *)
(***************************************************************************)
DocumentTyped(document) ==
    /\ Len(document) \in Nat /\ DOMAIN document = 1 .. Len(document)
    /\ \A n \in DOMAIN document : document[n].folders \in Seq(Names \cup {Blank, NULL})

\* The outline of a feed in a document that is exported.
LeafOf(u) ==
    Outline(u, feed[u].title, IF feed[u].group = NULL THEN <<>> ELSE <<feed[u].group>>)

LEMMA SequenceByNumber ==
    ASSUME NEW k \in Nat, NEW s, DOMAIN s = 1 .. k, s = [n \in 1 .. k |-> s[n]]
    PROVE  Len(s) = k
<1>1. s \in Seq({s[n] : n \in 1 .. k})
  OBVIOUS
<1>2. Len(s) \in Nat /\ DOMAIN s = 1 .. Len(s)
  BY <1>1
<1> QED
  BY <1>2

\* list_feeds has every feed, once.
LEMMA ListFeedsLists ==
    ASSUME TableTypes
    PROVE  /\ Cardinality(Subscribed) \in Nat
           /\ ListFeeds \in [1 .. Cardinality(Subscribed) -> Subscribed]
           /\ \A u \in Subscribed : \E i \in 1 .. Cardinality(Subscribed) : ListFeeds[i] = u
<1> DEFINE upto == [u \in Subscribed |-> {v \in Subscribed : feed[v].id <= feed[u].id}]
<1>1. IsFiniteSet(Subscribed)
  BY DEF TableTypes
<1>2. /\ \A u \in Subscribed : feed[u].id \in Int
      /\ \A u, v \in Subscribed : feed[u].id = feed[v].id => u = v
  <2>1. rows \in Nat
    BY DEF TableTypes
  <2>2. \A u \in Subscribed : u \in Urls /\ feed[u] # NoRow
    BY DEF Subscribed
  <2>3. \A u \in Subscribed : feed[u].id \in 1 .. rows
    BY <2>2 DEF TableTypes
  <2> QED
    BY <2>1, <2>2, <2>3 DEF TableTypes
<1>3. /\ upto \in [Subscribed -> SUBSET Subscribed]
      /\ \A u, v \in Subscribed : v \in upto[u] <=> feed[v].id <= feed[u].id
  OBVIOUS
<1>4. ListFeeds = InOrder(Subscribed, upto)
  BY DEF ListFeeds
<1> HIDE DEF upto
<1>5. ASSUME NEW u \in Subscribed, NEW v \in Subscribed, v \in upto[u], NEW w \in upto[v]
      PROVE  w \in upto[u]
  <2>1. w \in Subscribed
    BY <1>3, <1>5
  <2>2. feed[w].id <= feed[v].id /\ feed[v].id <= feed[u].id
    BY <1>3, <1>5, <2>1
  <2>3. feed[w].id <= feed[u].id
    BY <1>2, <2>1, <2>2
  <2> QED
    BY <1>3, <2>1, <2>3
<1>6. \A u, v \in Subscribed : v \in upto[u] => upto[v] \subseteq upto[u]
  BY <1>5
<1>7. \A u, v \in Subscribed : u \in upto[v] \/ v \in upto[u]
  BY <1>2, <1>3
<1>8. \A u, v \in Subscribed : u \in upto[v] /\ v \in upto[u] => u = v
  <2>1. ASSUME NEW u \in Subscribed, NEW v \in Subscribed, u \in upto[v], v \in upto[u]
        PROVE  u = v
    <3>1. feed[u].id <= feed[v].id /\ feed[v].id <= feed[u].id
      BY <1>3, <2>1
    <3>2. feed[u].id = feed[v].id
      BY <1>2, <3>1
    <3> QED
      BY <1>2, <3>2
  <2> QED
    BY <2>1
<1>9. \A u \in Subscribed : u \in upto[u]
  BY <1>2, <1>3
<1>10. Orders(upto, Subscribed)
  BY <1>3, <1>6, <1>7, <1>8, <1>9 DEF Orders
<1> QED
  BY <1>1, <1>4, <1>10, InOrderLists

\* export_opml has every row of a list, once.
ExportsInOrder(list, N) ==
    \E order \in [1 .. N -> 1 .. N] :
        /\ \A n \in 1 .. N : \E i \in 1 .. N : order[i] = n
        /\ ExportOpml(list) =
             [i \in 1 .. N |->
                 Outline(list[order[i]].url, list[order[i]].title,
                         IF list[order[i]].group = NULL THEN <<>>
                         ELSE <<list[order[i]].group>>)]

LEMMA ExportLists ==
    ASSUME NEW N \in Nat, NEW list, DOMAIN list = 1 .. N,
           \A n \in 1 .. N : list[n].group \in Names \cup {NULL}
    PROVE  ExportsInOrder(list, N)
<1> DEFINE place == [n \in 1 .. N |->
                        IF list[n].group = NULL THEN 0 ELSE Alphabet[list[n].group]]
           upto == [n \in 1 .. N |-> {k \in 1 .. N : \/ place[k] < place[n]
                                                     \/ place[k] = place[n] /\ k <= n}]
           order == InOrder(1 .. N, upto)
<1>1. \A n \in 1 .. N : place[n] \in Int
  BY SubscriptionsAssumptions
<1>2. \A n \in 1 .. N :
          place[n] = IF list[n].group = NULL THEN 0 ELSE Alphabet[list[n].group]
  OBVIOUS
<1> HIDE DEF place
<1>3. /\ upto \in [1 .. N -> SUBSET (1 .. N)]
      /\ \A n, k \in 1 .. N : k \in upto[n] <=>
            \/ place[k] < place[n]
            \/ place[k] = place[n] /\ k <= n
  OBVIOUS
<1>4. upto = [n \in DOMAIN list |->
                {k \in DOMAIN list :
                    LET Place(m) == IF list[m].group = NULL THEN 0 ELSE Alphabet[list[m].group]
                    IN  \/ Place(k) < Place(n)
                        \/ Place(k) = Place(n) /\ k <= n}]
  BY <1>2
<1>5. ExportOpml(list) =
          [i \in 1 .. N |->
              Outline(list[order[i]].url, list[order[i]].title,
                      IF list[order[i]].group = NULL THEN <<>>
                      ELSE <<list[order[i]].group>>)]
  BY <1>4, Zenon DEF ExportOpml
<1> HIDE DEF upto
<1>6. ASSUME NEW n \in 1 .. N, NEW k \in 1 .. N, k \in upto[n], NEW j \in upto[k]
      PROVE  j \in upto[n]
  <2>1. j \in 1 .. N
    BY <1>3, <1>6
  <2>2. place[k] < place[n] \/ (place[k] = place[n] /\ k <= n)
    BY <1>3, <1>6
  <2>3. place[j] < place[k] \/ (place[j] = place[k] /\ j <= k)
    BY <1>3, <1>6, <2>1
  <2>4. place[j] < place[n] \/ (place[j] = place[n] /\ j <= n)
    BY <1>1, <2>1, <2>2, <2>3
  <2> QED
    BY <1>3, <2>1, <2>4
<1>7. \A n, k \in 1 .. N : k \in upto[n] => upto[k] \subseteq upto[n]
  BY <1>6
<1>8. \A n, k \in 1 .. N : n \in upto[k] \/ k \in upto[n]
  BY <1>1, <1>3
<1>9. \A n, k \in 1 .. N : n \in upto[k] /\ k \in upto[n] => n = k
  <2>1. ASSUME NEW n \in 1 .. N, NEW k \in 1 .. N, n \in upto[k], k \in upto[n]
        PROVE  n = k
    <3>1. place[n] \in Int /\ place[k] \in Int
      BY <1>1
    <3>2. /\ place[n] < place[k] \/ (place[n] = place[k] /\ n <= k)
          /\ place[k] < place[n] \/ (place[k] = place[n] /\ k <= n)
      BY <1>3, <2>1
    <3> QED
      BY <3>1, <3>2
  <2> QED
    BY <2>1
<1>10. \A n \in 1 .. N : n \in upto[n]
  BY <1>3
<1>11. Orders(upto, 1 .. N)
  BY <1>3, <1>7, <1>8, <1>9, <1>10 DEF Orders
<1>12. IsFiniteSet(1 .. N) /\ Cardinality(1 .. N) = N
  BY FS_Interval
<1>13. /\ order \in [1 .. N -> 1 .. N]
       /\ \A n \in 1 .. N : \E i \in 1 .. N : order[i] = n
  <2>1. /\ order \in [1 .. Cardinality(1 .. N) -> 1 .. N]
        /\ \A n \in 1 .. N : \E i \in 1 .. Cardinality(1 .. N) : order[i] = n
    BY <1>11, <1>12, InOrderLists
  <2> QED
    BY <1>12, <2>1
<1> HIDE DEF order
<1> QED
  BY <1>5, <1>13 DEF ExportsInOrder

\* What is exported is an outline of every feed, once.
LEMMA ExportHasEveryFeed ==
    ASSUME TableTypes
    PROVE  LET document == ExportSubscriptions
               N == Cardinality(Subscribed)
           IN  /\ N \in Nat /\ Len(document) = N /\ DOMAIN document = 1 .. N
               /\ \A i \in 1 .. N : \E u \in Subscribed : document[i] = LeafOf(u)
               /\ \A u \in Subscribed : \E i \in 1 .. N : document[i] = LeafOf(u)
<1> DEFINE N == Cardinality(Subscribed)
           list == [n \in DOMAIN ListFeeds |->
                       Row(ListFeeds[n], feed[ListFeeds[n]].title, feed[ListFeeds[n]].group)]
           document == ExportOpml(list)
<1>1. /\ N \in Nat /\ ListFeeds \in [1 .. N -> Subscribed]
      /\ \A u \in Subscribed : \E i \in 1 .. N : ListFeeds[i] = u
  BY ListFeedsLists
<1> HIDE DEF N
<1>2. /\ DOMAIN list = 1 .. N
      /\ \A n \in 1 .. N : /\ ListFeeds[n] \in Subscribed
                           /\ list[n].url = ListFeeds[n]
                           /\ list[n].title = feed[ListFeeds[n]].title
                           /\ list[n].group = feed[ListFeeds[n]].group
  BY <1>1 DEF Row
<1>3. ExportSubscriptions = document
  BY DEF ExportSubscriptions
<1> HIDE DEF list
<1>4. \A n \in 1 .. N : list[n].group \in Names \cup {NULL}
  BY <1>2 DEF TableTypes, Subscribed
<1>5. PICK order \in [1 .. N -> 1 .. N] :
          /\ \A n \in 1 .. N : \E i \in 1 .. N : order[i] = n
          /\ document = [i \in 1 .. N |->
                Outline(list[order[i]].url, list[order[i]].title,
                        IF list[order[i]].group = NULL THEN <<>>
                        ELSE <<list[order[i]].group>>)]
  <2>1. N \in Nat /\ DOMAIN list = 1 .. N
    BY <1>1, <1>2
  <2>2. ExportsInOrder(list, N)
    BY <1>4, <2>1, ExportLists
  <2> QED
    BY <2>2 DEF ExportsInOrder
<1> HIDE DEF document
<1>6. ASSUME NEW i \in 1 .. N
      PROVE  document[i] = LeafOf(ListFeeds[order[i]]) /\ ListFeeds[order[i]] \in Subscribed
  <2>1. order[i] \in 1 .. N
    OBVIOUS
  <2> QED
    BY <1>2, <1>5, <2>1 DEF LeafOf
<1>7. DOMAIN document = 1 .. N /\ document = [i \in 1 .. N |-> document[i]]
  BY <1>5
<1>8. Len(document) = N
  BY <1>1, <1>7, SequenceByNumber
<1>9. ASSUME NEW u \in Subscribed
      PROVE  \E i \in 1 .. N : document[i] = LeafOf(u)
  <2>1. PICK n \in 1 .. N : ListFeeds[n] = u
    BY <1>1
  <2>2. PICK i \in 1 .. N : order[i] = n
    BY <1>5
  <2> QED
    BY <1>6, <2>1, <2>2
<1> QED
  BY <1>1, <1>3, <1>6, <1>7, <1>8, <1>9 DEF N

LEMMA LeafIsRead ==
    ASSUME NEW u \in Urls
    PROVE  CollectOutline(LeafOf(u)) = Row(u, feed[u].title, feed[u].group)
<1>1. CASE feed[u].group = NULL
  BY <1>1 DEF LeafOf, Outline, CollectOutline
<1>2. CASE feed[u].group # NULL
  <2> DEFINE folders == <<feed[u].group>>
  <2>1. folders # <<>> /\ Len(folders) = 1 /\ folders[1] = feed[u].group
    OBVIOUS
  <2> HIDE DEF folders
  <2>2. LeafOf(u) = Outline(u, feed[u].title, folders)
    BY <1>2 DEF LeafOf, folders
  <2> QED
    <3> DEFINE leaf == LeafOf(u)
    <3>1. leaf.xml = u /\ leaf.title = feed[u].title /\ leaf.folders = folders
      BY <2>2 DEF Outline
    <3> HIDE DEF leaf
    <3>2. CollectOutline(leaf) = Row(u, feed[u].title, feed[u].group)
      BY <2>1, <3>1 DEF CollectOutline
    <3> QED
      BY <3>2 DEF leaf
<1> QED
  BY <1>1, <1>2

\* An import reads back what an export wrote.
LEMMA ExportIsRead == TableTypes => RoundTrip
<1> SUFFICES ASSUME TableTypes
             PROVE  RoundTrip
  OBVIOUS
<1> DEFINE N == Cardinality(Subscribed)
           document == ExportSubscriptions
           list == ImportOpml(document)
           all == {Row(u, feed[u].title, feed[u].group) : u \in Subscribed}
<1>1. /\ N \in Nat /\ DOMAIN document = 1 .. N
      /\ \A i \in 1 .. N : \E u \in Subscribed : document[i] = LeafOf(u)
      /\ \A u \in Subscribed : \E i \in 1 .. N : document[i] = LeafOf(u)
  BY ExportHasEveryFeed
<1> HIDE DEF N, document
<1>2. list = [n \in 1 .. N |-> CollectOutline(document[n])]
  BY <1>1 DEF ImportOpml
<1> HIDE DEF list
<1>3. DOMAIN list = 1 .. N /\ list = [n \in 1 .. N |-> list[n]]
  BY <1>2
<1>4. Len(list) = N
  BY <1>1, <1>3, SequenceByNumber
<1>5. \A u \in Subscribed : u \in Urls
  BY DEF Subscribed
<1>6. ASSUME NEW n \in 1 .. N
      PROVE  list[n] \in all
  <2>1. PICK u \in Subscribed : document[n] = LeafOf(u)
    BY <1>1
  <2>2. list[n] = Row(u, feed[u].title, feed[u].group)
    BY <1>2, <1>5, <2>1, LeafIsRead
  <2> QED
    BY <2>2
<1>7. ASSUME NEW u \in Subscribed
      PROVE  \E n \in 1 .. N : list[n] = Row(u, feed[u].title, feed[u].group)
  <2>1. PICK n \in 1 .. N : document[n] = LeafOf(u)
    BY <1>1
  <2>2. list[n] = Row(u, feed[u].title, feed[u].group)
    BY <1>2, <1>5, <2>1, LeafIsRead
  <2> QED
    BY <2>2
<1>8. {list[n] : n \in DOMAIN list} = all
  BY <1>3, <1>6, <1>7
<1> QED
  BY <1>4, <1>8 DEF RoundTrip, N, list, document

-----------------------------------------------------------------------------
\* A document is read into rows of the web.
LEMMA ImportIsQuiet ==
    ASSUME TypeInv, NEW c \in Clients, NEW document, DocumentTyped(document),
           ImportSubscriptions(c, document)
    PROVE  \E step : Quiet(c, step)
<1> DEFINE list == ImportOpml(document)
<1>1. /\ op[c].at = "idle" /\ stage[c] = "idle" /\ calls' \in 0 .. MaxCalls
      /\ cache \subseteq Urls
  BY CallFrame DEF ImportSubscriptions, TypeInv, TableTypes
<1>2. UNCHANGED <<discoveryVars, tableVars, crashes, ghostVars>>
  BY DEF ImportSubscriptions
<1>3. CASE list = <<>> \/ ~ParseWebUrls(list)
  <2>1. Go(c, Idle, {})
    BY <1>3 DEF ImportSubscriptions
  <2>2. OpTyped(Idle) /\ Idle.at = "idle"
    BY DEF OpTyped, Idle, Steps
  <2>3. Quiet(c, Idle)
    BY <1>1, <1>2, <2>1, <2>2 DEF Quiet, tableVars, discoveryVars
  <2> QED
    BY <2>3
<1>4. CASE list # <<>> /\ ParseWebUrls(list)
  <2> DEFINE k == Len(document)
             step == Storing(list, FALSE, "none")
  <2>1. Go(c, step, {})
    BY <1>4 DEF ImportSubscriptions
  <2>2. k \in Nat /\ DOMAIN document = 1 .. k
    BY DEF DocumentTyped
  <2> HIDE DEF k
  <2>3. list = [n \in 1 .. k |-> CollectOutline(document[n])]
    BY <2>2 DEF ImportOpml
  <2>4. ASSUME NEW n \in 1 .. k
        PROVE  list[n].url \in Urls /\ list[n].group \in Names \cup {Blank, NULL}
    <3>1. list[n].url \in Urls
      BY <1>4, <2>3 DEF ParseWebUrls
    <3> DEFINE folders == document[n].folders
    <3>2. folders \in Seq(Names \cup {Blank, NULL})
      BY <2>2 DEF DocumentTyped
    <3>3. list[n].group = IF folders = <<>> THEN NULL ELSE folders[Len(folders)]
      BY <2>3 DEF CollectOutline, Row
    <3> HIDE DEF folders, list
    <3>4. folders # <<>> => folders[Len(folders)] \in Names \cup {Blank, NULL}
      BY <3>2
    <3> QED
      BY <3>1, <3>3, <3>4
  <2>5. DOMAIN list = 1 .. k /\ list = [n \in 1 .. k |-> list[n]]
    BY <2>3
  <2> HIDE DEF list
  <2>6. Len(list) = k
    BY <2>2, <2>5, SequenceByNumber
  <2>7. k # 0
    BY <1>4, <2>2, <2>5
  <2>8. /\ step.at = "select" /\ step.all = list /\ step.done = 0 /\ step.snapshot = FALSE
        /\ step.icon = "none" /\ StoreShape(step)
    BY DEF Storing, StoreShape
  <2> HIDE DEF step
  <2>9. \A n \in DOMAIN list : list[n].url # NULL
    <3>1. NULL \notin Urls
      BY DiscoveryAssumptions, NullAssumption
    <3> QED
      BY <2>4, <2>5, <3>1
  <2>10. StoreTyped(step)
    <3>1. Len(step.all) \in Nat \ {0} /\ DOMAIN step.all = 1 .. Len(step.all)
      BY <2>2, <2>5, <2>6, <2>7, <2>8
    <3>2. step.done \in 0 .. Len(step.all) /\ step.done < Len(step.all)
      BY <2>8, <3>1
    <3> QED
      BY <2>4, <2>5, <2>8, <2>9, <3>1, <3>2 DEF StoreTyped
  <2>11. OpTyped(step)
    BY <2>8, <2>10 DEF OpTyped, Steps
  <2>12. Quiet(c, step)
    BY <1>1, <1>2, <2>1, <2>8, <2>11 DEF Quiet, tableVars, discoveryVars
  <2> QED
    BY <2>12
<1> QED
  BY <1>3, <1>4

LEMMA DocumentsAreTyped ==
    ASSUME TableTypes, NEW document \in Documents \cup {ExportSubscriptions}
    PROVE  DocumentTyped(document)
<1>1. CASE document \in Documents
  BY <1>1, DocumentsAssumption DEF DocumentTyped
<1>2. CASE document = ExportSubscriptions
  <2> DEFINE N == Cardinality(Subscribed)
  <2>1. /\ N \in Nat /\ Len(document) = N /\ DOMAIN document = 1 .. N
        /\ \A i \in 1 .. N : \E u \in Subscribed : document[i] = LeafOf(u)
    BY <1>2, ExportHasEveryFeed
  <2>2. ASSUME NEW u \in Subscribed
        PROVE  LeafOf(u).folders \in Seq(Names \cup {Blank, NULL})
    <3>1. feed[u].group \in Names \cup {NULL}
      BY DEF TableTypes, Subscribed
    <3>2. LeafOf(u).folders = IF feed[u].group = NULL THEN <<>> ELSE <<feed[u].group>>
      BY DEF LeafOf, Outline
    <3> DEFINE group == feed[u].group
               values == Names \cup {Blank, NULL}
    <3>3. group \in values
      BY <3>1
    <3> HIDE DEF group, values
    <3>4. <<>> \in Seq(values) /\ <<group>> \in Seq(values)
      BY <3>3
    <3> QED
      BY <3>2, <3>4 DEF group, values
  <2> HIDE DEF N
  <2>3. \A i \in 1 .. N : document[i].folders \in Seq(Names \cup {Blank, NULL})
    BY <2>1, <2>2
  <2> QED
    BY <2>1, <2>3 DEF DocumentTyped
<1> QED
  BY <1>1, <1>2

\* A call that stores rows has moved on.
Changed(o, p, at, done, id, group) ==
    /\ StoreShape(p)
    /\ p.at = at /\ p.all = o.all /\ p.done = done /\ p.id = id /\ p.group = group
    /\ p.snapshot = o.snapshot /\ p.icon = o.icon /\ p.moved = o.moved

LEMMA OneFieldMovedOn ==
    ASSUME NEW o, StoreShape(o), NEW x
    PROVE  /\ Changed(o, [o EXCEPT !.at = x], x, o.done, o.id, o.group)
           /\ Changed(o, [o EXCEPT !.done = x], o.at, x, o.id, o.group)
           /\ Changed(o, [o EXCEPT !.id = x], o.at, o.done, x, o.group)
           /\ Changed(o, [o EXCEPT !.group = x], o.at, o.done, o.id, x)
<1>1. o = [at |-> o.at, all |-> o.all, done |-> o.done, id |-> o.id, group |-> o.group,
           snapshot |-> o.snapshot, icon |-> o.icon, moved |-> o.moved]
  BY DEF StoreShape
<1>2. Changed(o, [o EXCEPT !.at = x], x, o.done, o.id, o.group)
  BY <1>1 DEF Changed, StoreShape
<1>3. Changed(o, [o EXCEPT !.done = x], o.at, x, o.id, o.group)
  BY <1>1 DEF Changed, StoreShape
<1>4. Changed(o, [o EXCEPT !.id = x], o.at, o.done, x, o.group)
  BY <1>1 DEF Changed, StoreShape
<1>5. Changed(o, [o EXCEPT !.group = x], o.at, o.done, o.id, x)
  BY <1>1 DEF Changed, StoreShape
<1> QED
  BY <1>2, <1>3, <1>4, <1>5

LEMMA MovedOn ==
    ASSUME NEW o, StoreShape(o), NEW at, NEW x
    PROVE  /\ Changed(o, [o EXCEPT !.at = at, !.id = x], at, o.done, x, o.group)
           /\ Changed(o, [o EXCEPT !.at = at, !.group = x], at, o.done, o.id, x)
           /\ Changed(o, [o EXCEPT !.done = x, !.at = at], at, x, o.id, o.group)
<1> DEFINE p == [o EXCEPT !.at = at]
           q == [o EXCEPT !.done = x]
<1>1. /\ [o EXCEPT !.at = at, !.id = x] = [p EXCEPT !.id = x]
      /\ [o EXCEPT !.at = at, !.group = x] = [p EXCEPT !.group = x]
      /\ [o EXCEPT !.done = x, !.at = at] = [q EXCEPT !.at = at]
  OBVIOUS
<1>2. Changed(o, p, at, o.done, o.id, o.group) /\ Changed(o, q, o.at, x, o.id, o.group)
  BY OneFieldMovedOn
<1> HIDE DEF p, q
<1> StoreShape(p) /\ StoreShape(q)
  BY <1>2 DEF Changed
<1>3. Changed(p, [p EXCEPT !.id = x], p.at, p.done, x, p.group)
  BY OneFieldMovedOn
<1>4. Changed(p, [p EXCEPT !.group = x], p.at, p.done, p.id, x)
  BY OneFieldMovedOn
<1>5. Changed(q, [q EXCEPT !.at = at], at, q.done, q.id, q.group)
  BY OneFieldMovedOn
<1> QED
  BY <1>1, <1>2, <1>3, <1>4, <1>5 DEF Changed

LEMMA CreateGroupIsQuiet ==
    ASSUME TypeInv, NEW c \in Clients, NEW name \in Names, CreateGroup(c, name)
    PROVE  \E step : Quiet(c, step)
<1> DEFINE list == <<Row(NULL, NULL, name)>>
           base == Storing(list, FALSE, "none")
           step == [base EXCEPT !.at = "group"]
<1>1. /\ op[c].at = "idle" /\ stage[c] = "idle" /\ calls' \in 0 .. MaxCalls
      /\ cache \subseteq Urls
  BY CallFrame DEF CreateGroup, TypeInv, TableTypes
<1>2. UNCHANGED <<discoveryVars, tableVars, crashes, ghostVars>> /\ Go(c, step, {})
  BY DEF CreateGroup
<1>3. /\ Len(list) = 1 /\ DOMAIN list = 1 .. 1
      /\ list[1].url = NULL /\ list[1].group = name
  BY DEF Row
<1> HIDE DEF list
<1>4. /\ step.at = "group" /\ step.all = list /\ step.done = 0 /\ step.snapshot = FALSE
      /\ step.icon = "none" /\ StoreShape(step)
  <2>1. /\ base.all = list /\ base.done = 0 /\ base.snapshot = FALSE /\ base.icon = "none"
        /\ StoreShape(base)
    BY DEF Storing, StoreShape
  <2> HIDE DEF base
  <2>2. StoreShape(base)
    BY <2>1
  <2>3. Changed(base, step, "group", base.done, base.id, base.group)
    BY <2>2, OneFieldMovedOn
  <2> HIDE DEF step
  <2> QED
    BY <2>1, <2>3 DEF Changed
<1> HIDE DEF step
<1> DEFINE number == Len(list)
<1>5. number = 1 /\ DOMAIN list = 1 .. number
  BY <1>3
<1> HIDE DEF number
<1>6. /\ Len(step.all) = number /\ number \in Nat \ {0} /\ DOMAIN step.all = 1 .. number
      /\ step.done \in 0 .. number /\ step.done < number
      /\ \A n \in 1 .. number : n = 1
  BY <1>4, <1>5 DEF number
<1>7. TheRow(step).url = NULL /\ TheRow(step).group = name
  BY <1>3, <1>4 DEF TheRow
<1>8. StoreTyped(step)
  BY <1>3, <1>4, <1>5, <1>6, <1>7 DEF StoreTyped
<1>9. OpTyped(step)
  BY <1>4, <1>8 DEF OpTyped, Steps
<1>10. Quiet(c, step)
  BY <1>1, <1>2, <1>4, <1>7, <1>9 DEF Quiet, tableVars, discoveryVars
<1> QED
  BY <1>10

-----------------------------------------------------------------------------
(***************************************************************************)
(* The statements that store a row                                         *)
(***************************************************************************)
\* Where a call is when it has stored a row.
AfterRow(o) == IF o.done + 1 = Len(o.all) THEN "return" ELSE "select"

LEMMA RowDoneShape ==
    ASSUME NEW c, StoreShape(op[c])
    PROVE  Changed(op[c], RowDone(c), AfterRow(op[c]), op[c].done + 1, op[c].id, op[c].group)
<1> DEFINE o == op[c]
           at == AfterRow(o)
           x == o.done + 1
<1>1. RowDone(c) = [o EXCEPT !.done = x, !.at = at]
  BY DEF RowDone, AfterRow
<1> HIDE DEF o, at, x
<1>2. Changed(o, [o EXCEPT !.done = x, !.at = at], at, x, o.id, o.group)
  BY MovedOn, Zenon DEF o
<1> QED
  BY <1>1, <1>2 DEF o, at, x

LEMMA FailedShape ==
    ASSUME NEW c, StoreShape(op[c])
    PROVE  Changed(op[c], Failed(c), "failed", op[c].done, op[c].id, op[c].group)
  BY OneFieldMovedOn DEF Failed

LEMMA AfterFeedShape ==
    ASSUME NEW c, StoreShape(op[c]), NEW id
    PROVE  LET o == op[c]
               grouped == Current(c).group \notin {NULL, Blank}
           IN  \/ o.snapshot /\ Changed(o, AfterFeed(c, id), "items", o.done, id, o.group)
               \/ /\ ~o.snapshot /\ grouped
                  /\ Changed(o, AfterFeed(c, id), "group", o.done, id, o.group)
               \/ /\ ~o.snapshot /\ ~grouped
                  /\ Changed(o, AfterFeed(c, id), AfterRow(o), o.done + 1, id, o.group)
<1> DEFINE o == op[c]
           p == [o EXCEPT !.id = id]
           grouped == Current(c).group \notin {NULL, Blank}
           at == AfterRow(o)
           x == o.done + 1
<1>1. Changed(o, p, o.at, o.done, id, o.group)
  BY OneFieldMovedOn
<1>2. p.snapshot = o.snapshot /\ p.done = o.done /\ p.all = o.all /\ StoreShape(p)
  BY <1>1 DEF Changed
<1>3. AfterFeed(c, id) =
          IF o.snapshot THEN [p EXCEPT !.at = "items"]
          ELSE IF grouped THEN [p EXCEPT !.at = "group"]
          ELSE [p EXCEPT !.done = x, !.at = at]
  BY <1>2 DEF AfterFeed, AfterRow
<1> HIDE DEF p, grouped, at, x
<1>4. /\ Changed(p, [p EXCEPT !.at = "items"], "items", p.done, p.id, p.group)
      /\ Changed(p, [p EXCEPT !.at = "group"], "group", p.done, p.id, p.group)
      /\ Changed(p, [p EXCEPT !.done = x, !.at = at], at, x, p.id, p.group)
  BY <1>2, OneFieldMovedOn, MovedOn, Zenon
<1>5. /\ Changed(o, [p EXCEPT !.at = "items"], "items", o.done, id, o.group)
      /\ Changed(o, [p EXCEPT !.at = "group"], "group", o.done, id, o.group)
      /\ Changed(o, [p EXCEPT !.done = x, !.at = at], at, x, id, o.group)
  BY <1>1, <1>4 DEF Changed
<1>6. CASE o.snapshot
  BY <1>3, <1>5, <1>6
<1>7. CASE ~o.snapshot /\ grouped
  BY <1>3, <1>5, <1>7 DEF grouped
<1>8. CASE ~o.snapshot /\ ~grouped
  BY <1>3, <1>5, <1>8 DEF grouped, at, x
<1> QED
  BY <1>6, <1>7, <1>8

\* What a call that stores rows must meet where it goes on.
LEMMA ChangedTyped ==
    ASSUME NEW o, StoreTyped(o), rows \in Nat, rows' \in Nat, rows <= rows',
           groups \subseteq groups',
           NEW p, NEW at \in Steps, NEW done \in 0 .. Len(o.all), NEW id, NEW group,
           Changed(o, p, at, done, id, group),
           at # "return" => done < Len(o.all),
           at \in {"group", "newgroup", "member", "return", "failed"}
               \/ \A n \in DOMAIN o.all : o.all[n].url # NULL,
           at = "write" => id \in 1 .. rows \cup {NULL},
           at \in {"items", "finish"} => o.snapshot /\ id \in 1 .. rows',
           at \in {"group", "newgroup", "member"} =>
               /\ o.all[done + 1].group \in Names
               /\ o.all[done + 1].url = NULL \/ id \in 1 .. rows',
           at = "member" => group \in SameName(o.all[done + 1].group)'
    PROVE  OpTyped(p)'
<1>1. /\ StoreShape(p) /\ p.at = at /\ p.all = o.all /\ p.done = done /\ p.id = id
      /\ p.group = group /\ p.snapshot = o.snapshot /\ p.icon = o.icon
  BY DEF Changed
<1>2. at = "write" => id \in 1 .. rows' \cup {NULL}
  OBVIOUS
<1>3. StoreTyped(p)'
  <2>1. \A n \in DOMAIN p.all :
          /\ p.all[n].url \in Urls \cup {NULL}
          /\ p.all[n].group \in Names \cup {Blank, NULL}
          /\ p.snapshot => p.all[n].group = NULL
          /\ p.all[n].url = NULL =>
                Len(p.all) = 1 /\ p.at \in {"group", "newgroup", "member", "return", "failed"}
    BY <1>1 DEF StoreTyped
  <2>2. Len(p.all) \in Nat \ {0} /\ DOMAIN p.all = 1 .. Len(p.all)
    BY <1>1 DEF StoreTyped
  <2>3. p.snapshot \in BOOLEAN /\ p.icon \in {"none", "url", "job"}
    BY <1>1 DEF StoreTyped
  <2>4. TheRow(p)' = o.all[done + 1]
    BY <1>1 DEF TheRow
  <2> QED
    BY <1>1, <1>2, <2>1, <2>2, <2>3, <2>4 DEF StoreTyped, StoreShape
<1> QED
  BY <1>1, <1>3 DEF OpTyped, Idle, Steps

\* A call that stores rows, before a step of it.
LEMMA StoreBefore ==
    ASSUME TypeInv, NEW c \in Clients, op[c].at \in Steps
    PROVE  /\ StoreTyped(op[c]) /\ StoreShape(op[c]) /\ stage[c] = "idle"
           /\ rows \in Nat /\ Current(c) = TheRow(op[c])
           /\ op[c].at # "return" =>
                 /\ op[c].done + 1 \in DOMAIN op[c].all
                 /\ op[c].done \in 0 .. Len(op[c].all) /\ op[c].done < Len(op[c].all)
                 /\ op[c].done + 1 \in 0 .. Len(op[c].all)
           /\ op[c].at \in {"select", "write", "items", "finish"} => Current(c).url \in Urls
           /\ op[c].at \in {"select", "write", "items", "finish"} =>
                 \A n \in DOMAIN op[c].all : op[c].all[n].url # NULL
<1> DEFINE o == op[c]
<1>1. StoreTyped(o) /\ StoreShape(o) /\ stage[c] = "idle" /\ rows \in Nat
  BY DEF TypeInv, TableTypes, OpTyped, StoreTyped, Steps
<1>2. Current(c) = TheRow(o)
  BY DEF Current, TheRow
<1> HIDE DEF o
<1>3. o.at # "return" =>
          /\ o.done + 1 \in DOMAIN o.all
          /\ o.done \in 0 .. Len(o.all) /\ o.done < Len(o.all)
          /\ o.done + 1 \in 0 .. Len(o.all)
  BY <1>1 DEF StoreTyped
<1>4. o.at \in {"select", "write", "items", "finish"} =>
          \A n \in DOMAIN o.all : o.all[n].url # NULL /\ o.all[n].url \in Urls
  BY <1>1 DEF StoreTyped
<1>5. o.at \in {"select", "write", "items", "finish"} => TheRow(o).url \in Urls
  BY <1>3, <1>4 DEF TheRow
<1> QED
  BY <1>1, <1>2, <1>3, <1>4, <1>5 DEF o

\* A row is done: the next one, or the return.
LEMMA RowDoneTyped ==
    ASSUME NEW o, StoreTyped(o), o.at \in Steps, o.done < Len(o.all),
           rows \in Nat, rows' \in Nat, rows <= rows', groups \subseteq groups',
           o.all[o.done + 1].url # NULL \/ Len(o.all) = 1, NEW id,
           \A n \in DOMAIN o.all : o.all[n].url = NULL => Len(o.all) = 1,
           NEW p, Changed(o, p, AfterRow(o), o.done + 1, id, o.group)
    PROVE  OpTyped(p)'
<1>1. Len(o.all) \in Nat /\ o.done \in 0 .. Len(o.all) /\ DOMAIN o.all = 1 .. Len(o.all)
  BY DEF StoreTyped
<1>2. o.done + 1 \in 0 .. Len(o.all)
  BY <1>1
<1>3. AfterRow(o) \in {"return", "select"} /\ AfterRow(o) \in Steps
  BY DEF AfterRow, Steps
<1>4. AfterRow(o) = "select" => o.done + 1 < Len(o.all) /\ Len(o.all) # 1
  <2> DEFINE k == Len(o.all)
             j == o.done
  <2>1. k \in Nat /\ j \in 0 .. k /\ j < k
    BY <1>1
  <2> HIDE DEF k, j
  <2>2. j + 1 # k => j + 1 < k /\ k # 1
    BY <2>1
  <2> QED
    BY <2>2 DEF AfterRow, k, j
<1>5. AfterRow(o) = "return" \/ \A n \in DOMAIN o.all : o.all[n].url # NULL
  BY <1>3, <1>4
<1> QED
  BY <1>1, <1>2, <1>3, <1>4, <1>5, ChangedTyped

-----------------------------------------------------------------------------
(***************************************************************************)
(* Types                                                                   *)
(***************************************************************************)
LEMMA TypeInvInit == Init => TypeInv
<1> SUFFICES ASSUME Init
             PROVE  TypeInv
  OBVIOUS
<1>1. DiscoveryTypes
  BY DiscoveryTypesInit DEF Init
<1>2. Subscribed = {}
  BY DEF Init, Subscribed
<1>3. TableTypes
  BY <1>2, FS_EmptySet, SubscriptionsAssumptions DEF Init, TableTypes
<1>4. \A c \in Clients : op[c] = Idle /\ OpTyped(op[c]) /\ stage[c] = "idle"
  BY DEF Init, DiscoveryInit, OpTyped, Idle, Steps
<1> QED
  BY <1>1, <1>3, <1>4 DEF TypeInv

\* A step that leaves discoveries, groups and ids alone.
LEMMA QuietKeepsTypes ==
    ASSUME TypeInv, DiscoveryTypes', NEW c \in Clients, NEW step, Quiet(c, step)
    PROVE  TypeInv'
<1>1. TableTypes'
  BY GoFrame DEF TypeInv, TableTypes, Quiet, Subscribed
<1>2. OpTyped(step)' /\ rows <= rows'
  BY SMTT(20) DEF TypeInv, TableTypes, Quiet, OpTyped, StoreTyped, StoreShape, TheRow, SameName,
         Steps, Idle
<1> QED
  BY <1>1, <1>2, StepKeepsTypes DEF Quiet

\* One feed changes but for its id, or leaves.
LEMMA FeedChanges ==
    ASSUME TableTypes, NEW u \in Urls, NEW row, feed' = [feed EXCEPT ![u] = row],
           row # NoRow =>
               /\ feed[u] # NoRow
               /\ row = [id |-> feed[u].id, title |-> row.title, group |-> row.group,
                         full |-> row.full, icon |-> row.icon]
               /\ row.group \in groups' \cup {NULL} /\ row.full \in BOOLEAN
               /\ row.icon \in {NULL, "url", "asset"},
           DOMAIN op' = Clients, rows' = rows, groups \subseteq groups', groups' \subseteq Names,
           articles' \subseteq 1 .. rows, jobs' \subseteq 1 .. rows, cache' = cache,
           calls' \in 0 .. MaxCalls, crashes' \in 0 .. MaxCrashes
    PROVE  TableTypes'
<1>1. /\ rows \in Nat /\ DOMAIN feed = Urls /\ groups \subseteq Names
      /\ IsFiniteSet(Subscribed) /\ cache \subseteq Urls
  BY DEF TableTypes
<1>2. DOMAIN feed' = Urls /\ feed'[u] = row /\ \A v \in Urls \ {u} : feed'[v] = feed[v]
  BY <1>1
<1>3. row # NoRow => row.id = feed[u].id /\ feed[u] # NoRow
  <2>1. ASSUME row # NoRow
        PROVE  row.id = feed[u].id
    <3>1. row = [id |-> feed[u].id, title |-> row.title, group |-> row.group,
                 full |-> row.full, icon |-> row.icon]
      BY <2>1
    <3> DEFINE id == feed[u].id
    <3> HIDE DEF id
    <3>2. row = [id |-> id, title |-> row.title, group |-> row.group,
                 full |-> row.full, icon |-> row.icon]
      BY <3>1 DEF id
    <3>3. row.id = id
      BY <3>2
    <3> QED
      BY <3>3 DEF id
  <2> QED
    BY <2>1
<1>4. \A v \in Urls : feed'[v] # NoRow => feed[v] # NoRow /\ feed'[v].id = feed[v].id
  BY <1>2, <1>3
<1>5. IsFiniteSet(Subscribed')
  <2>1. Subscribed' \in SUBSET Subscribed
    BY <1>4 DEF Subscribed
  <2> QED
    BY <1>1, <2>1, FS_Subset
<1>6. ASSUME NEW v \in Urls, feed'[v] # NoRow
      PROVE  /\ feed'[v] = [id |-> feed'[v].id, title |-> feed'[v].title,
                            group |-> feed'[v].group, full |-> feed'[v].full,
                            icon |-> feed'[v].icon]
             /\ feed'[v].id \in 1 .. rows
             /\ feed'[v].group \in groups' \cup {NULL}
             /\ feed'[v].full \in BOOLEAN
             /\ feed'[v].icon \in {NULL, "url", "asset"}
  <2>1. CASE v = u
    <3>1. row = [id |-> row.id, title |-> row.title, group |-> row.group,
                 full |-> row.full, icon |-> row.icon]
      BY <1>2, <1>3, <1>6, <2>1
    <3>2. row.id \in 1 .. rows
      BY <1>2, <1>3, <1>6, <2>1 DEF TableTypes
    <3> QED
      BY <1>2, <1>6, <2>1, <3>1, <3>2
  <2>2. CASE v # u
    BY <1>2, <1>6, <2>2 DEF TableTypes
  <2> QED
    BY <2>1, <2>2
<1>7. \A v, w \in Urls : feed'[v] # NoRow /\ feed'[w] # NoRow /\ feed'[v].id = feed'[w].id =>
          v = w
  BY <1>4 DEF TableTypes
<1> QED
  BY <1>1, <1>2, <1>5, <1>6, <1>7 DEF TableTypes

\* No feed changes.
LEMMA TablesKeep ==
    ASSUME TableTypes, feed' = feed, rows' = rows, groups \subseteq groups',
           groups' \subseteq Names,
           DOMAIN op' = Clients, articles' \subseteq 1 .. rows, jobs' \subseteq 1 .. rows,
           cache' = cache, calls' \in 0 .. MaxCalls, crashes' \in 0 .. MaxCrashes
    PROVE  TableTypes'
<1>1. Subscribed' = Subscribed
  BY DEF Subscribed
<1> QED
  BY <1>1 DEF TableTypes


\* A call that stores rows moves on.
LEMMA ProceedKeepsTypes ==
    ASSUME TypeInv, TableTypes', UNCHANGED discoveryVars, NEW c \in Clients,
           op[c].at \in Steps, rows <= rows', groups \subseteq groups',
           NEW p, NEW touched, Go(c, p, touched),
           NEW at \in Steps, NEW done \in 0 .. Len(op[c].all), NEW id, NEW group,
           Changed(op[c], p, at, done, id, group),
           at # "return" => done < Len(op[c].all),
           at \in {"group", "newgroup", "member", "return", "failed"}
               \/ \A n \in DOMAIN op[c].all : op[c].all[n].url # NULL,
           at = "write" => id \in 1 .. rows \cup {NULL},
           at \in {"items", "finish"} => op[c].snapshot /\ id \in 1 .. rows',
           at \in {"group", "newgroup", "member"} =>
               /\ op[c].all[done + 1].group \in Names
               /\ op[c].all[done + 1].url = NULL \/ id \in 1 .. rows',
           at = "member" =>
               group \in {n \in groups' : Lower[n] = Lower[op[c].all[done + 1].group]}
    PROVE  TypeInv'
<1>1. PICK o : o = op[c]
  OBVIOUS
<1>2. StoreTyped(o) /\ rows \in Nat /\ stage[c] = "idle"
  BY <1>1, StoreBefore
<1>3. rows' \in Nat
  BY DEF TableTypes
<1>4. at = "member" => group \in SameName(o.all[done + 1].group)'
  BY <1>1 DEF SameName
<1>5. OpTyped(p)'
  BY <1>1, <1>2, <1>3, <1>4, ChangedTyped
<1>6. DiscoveryTypes' /\ stage' = stage
  BY DEF TypeInv, DiscoveryTypes, discoveryVars
<1>7. \A d \in Clients \ {c} : stage'[d] = stage[d]
  BY <1>6
<1> QED
  BY <1>2, <1>5, <1>6, <1>7, StepKeepsTypes

LEMMA RowDoneKeepsTypes ==
    ASSUME TypeInv, TableTypes', UNCHANGED discoveryVars, NEW c \in Clients,
           op[c].at \in Steps, op[c].at # "return", rows <= rows', groups \subseteq groups',
           NEW p, NEW touched, Go(c, p, touched), NEW id,
           Changed(op[c], p, AfterRow(op[c]), op[c].done + 1, id, op[c].group)
    PROVE  TypeInv'
<1>1. PICK o : o = op[c]
  OBVIOUS
<1>2. /\ StoreTyped(o) /\ rows \in Nat /\ stage[c] = "idle"
      /\ o.done + 1 \in DOMAIN o.all /\ o.done < Len(o.all)
  BY <1>1, StoreBefore
<1>3. rows' \in Nat
  BY DEF TableTypes
<1>4. \A n \in DOMAIN o.all : o.all[n].url = NULL => Len(o.all) = 1
  BY <1>2 DEF StoreTyped
<1>5. OpTyped(p)'
  BY <1>1, <1>2, <1>3, <1>4, RowDoneTyped
<1>6. DiscoveryTypes' /\ stage' = stage
  BY DEF TypeInv, DiscoveryTypes, discoveryVars
<1>7. \A d \in Clients \ {c} : stage'[d] = stage[d]
  BY <1>6
<1> QED
  BY <1>2, <1>5, <1>6, <1>7, StepKeepsTypes

LEMMA FailKeepsTypes ==
    ASSUME TypeInv, TableTypes', UNCHANGED discoveryVars, NEW c \in Clients,
           op[c].at \in Steps, op[c].at # "return", rows <= rows', groups \subseteq groups',
           NEW touched, Go(c, Failed(c), touched)
    PROVE  TypeInv'
<1> DEFINE o == op[c]
           p == Failed(c)
<1>1. StoreShape(o) /\ o.done \in 0 .. Len(o.all) /\ o.done < Len(o.all)
  BY StoreBefore
<1>2. Changed(o, p, "failed", o.done, o.id, o.group)
  BY <1>1, FailedShape
<1>3. "failed" \in Steps
  BY DEF Steps
<1> HIDE DEF p
<1> QED
  BY <1>1, <1>2, <1>3, ProceedKeepsTypes DEF p

LEMMA AfterFeedKeepsTypes ==
    ASSUME TypeInv, TableTypes', UNCHANGED discoveryVars, NEW c \in Clients,
           op[c].at = "write", rows <= rows', groups \subseteq groups',
           NEW id \in 1 .. rows', NEW touched, Go(c, AfterFeed(c, id), touched)
    PROVE  TypeInv'
<1> DEFINE o == op[c]
           p == AfterFeed(c, id)
<1>0. op[c].at \in Steps /\ {"items", "group"} \subseteq Steps
  BY DEF Steps
<1>1. /\ StoreTyped(o) /\ StoreShape(o) /\ Current(c) = TheRow(o)
      /\ o.done \in 0 .. Len(o.all) /\ o.done < Len(o.all) /\ o.done + 1 \in DOMAIN o.all
      /\ \A n \in DOMAIN o.all : o.all[n].url # NULL
  BY <1>0, StoreBefore
<1>2. Current(c).group \in Names \cup {Blank, NULL} /\ TheRow(o) = o.all[o.done + 1]
  BY <1>1 DEF StoreTyped, TheRow
<1>3. Go(c, p, touched)
  OBVIOUS
<1>4. \/ o.snapshot /\ Changed(o, p, "items", o.done, id, o.group)
      \/ /\ Current(c).group \notin {NULL, Blank}
         /\ Changed(o, p, "group", o.done, id, o.group)
      \/ Changed(o, p, AfterRow(o), o.done + 1, id, o.group)
  BY <1>1, AfterFeedShape
<1> HIDE DEF p
<1>5. CASE o.snapshot /\ Changed(o, p, "items", o.done, id, o.group)
  BY <1>0, <1>1, <1>3, <1>5, ProceedKeepsTypes
<1>6. CASE /\ Current(c).group \notin {NULL, Blank}
           /\ Changed(o, p, "group", o.done, id, o.group)
  <2>1. o.all[o.done + 1].group \in Names
    BY <1>1, <1>2, <1>6
  <2> QED
    BY <1>0, <1>1, <1>3, <1>6, <2>1, ProceedKeepsTypes
<1>7. CASE Changed(o, p, AfterRow(o), o.done + 1, id, o.group)
  BY <1>0, <1>3, <1>7, RowDoneKeepsTypes
<1> QED
  BY <1>4, <1>5, <1>6, <1>7

\* A call is over.
LEMMA ReturnKeepsTypes ==
    ASSUME TypeInv, TableTypes', UNCHANGED discoveryVars, NEW c \in Clients,
           op[c].at # "discovering", rows <= rows', groups \subseteq groups',
           NEW touched, Return(c, touched)
    PROVE  TypeInv'
<1>1. Go(c, Idle, touched) /\ OpTyped(Idle)'
  BY DEF Return, OpTyped, Idle, Steps
<1>2. DiscoveryTypes' /\ stage' = stage /\ stage[c] = "idle"
  BY DEF TypeInv, DiscoveryTypes, discoveryVars
<1>3. stage'[c] = "idle" /\ \A d \in Clients \ {c} : stage'[d] = stage[d]
  BY <1>2
<1> QED
  BY <1>1, <1>2, <1>3, StepKeepsTypes

LEMMA StoreKeepsTypes ==
    ASSUME TypeInv, NEW c \in Clients,
           \/ SelectFeed(c) \/ UpdateRow(c) \/ InsertRow(c) \/ StoreItems(c)
           \/ FinishSubscription(c) \/ FindGroup(c) \/ InsertGroup(c) \/ AssignGroup(c)
           \/ Respond(c)
    PROVE  TypeInv'
<1> DEFINE o == op[c]
           row == TheRow(o)
<1>1. /\ TableTypes /\ OpTyped(o) /\ groups \subseteq Names /\ rows \in Nat
      /\ DOMAIN feed = Urls /\ articles \subseteq 1 .. rows /\ jobs \subseteq 1 .. rows
      /\ calls \in 0 .. MaxCalls /\ crashes \in 0 .. MaxCrashes
  BY DEF TypeInv, TableTypes
<1>2. op[c].at \in Steps
  BY Zenon DEF SelectFeed, UpdateRow, InsertRow, StoreItems, FinishSubscription, FindGroup,
         InsertGroup, AssignGroup, Respond, Steps
<1>3. /\ StoreTyped(o) /\ StoreShape(o) /\ Current(c) = row
      /\ o.at # "return" => /\ o.done \in 0 .. Len(o.all) /\ o.done < Len(o.all)
                            /\ row = o.all[o.done + 1]
      /\ o.at \in {"select", "write", "items", "finish"} =>
            row.url \in Urls /\ \A n \in DOMAIN o.all : o.all[n].url # NULL
  BY <1>2, StoreBefore DEF TheRow
<1>4. /\ {"write", "items", "finish", "newgroup", "member", "group"} \subseteq Steps
      /\ rows <= rows /\ groups \subseteq groups
  BY <1>1 DEF Steps
<1>5. /\ UNCHANGED discoveryVars
      /\ DOMAIN op' = Clients
  BY Zenon DEF SelectFeed, UpdateRow, InsertRow, StoreItems, FinishSubscription, FindGroup,
         InsertGroup, AssignGroup, Respond, Go, Return
\* The tables are as they were.
<1>6. ASSUME UNCHANGED <<feed, groups, articles, jobs, cache, rows, calls, crashes>>
      PROVE  TableTypes'
  BY <1>1, <1>4, <1>5, <1>6, TablesKeep
<1>7. CASE SelectFeed(c)
  <2> DEFINE id == IF feed[row.url] = NoRow THEN NULL ELSE feed[row.url].id
             p == [o EXCEPT !.at = "write", !.id = id]
  <2>1. Go(c, p, {}) /\ o.at = "select" /\ UNCHANGED <<tableVars, calls, crashes>>
    BY <1>3, <1>7 DEF SelectFeed
  <2>2. id \in 1 .. rows \cup {NULL}
    BY <1>1, <1>3, <2>1 DEF TableTypes
  <2> HIDE DEF id, row
  <2>3. Changed(o, p, "write", o.done, id, o.group)
    BY <1>3, MovedOn, Zenon
  <2> HIDE DEF p
  <2>4. TableTypes'
    BY <1>6, <2>1 DEF tableVars
  <2>5. rows <= rows' /\ groups \subseteq groups'
    BY <1>1, <2>1 DEF tableVars
  <2> QED
    BY <1>2, <1>3, <1>4, <1>5, <2>1, <2>2, <2>3, <2>4, <2>5, ProceedKeepsTypes
<1>8. CASE UpdateRow(c)
  <2> DEFINE new == [feed[row.url] EXCEPT !.title = row.title]
  <2>1. /\ o.at = "write" /\ o.id # NULL /\ Go(c, AfterFeed(c, o.id), {row.url})
        /\ feed' = IF Live(row.url, o.id) /\ row.title # NULL
                   THEN [feed EXCEPT ![row.url].title = row.title] ELSE feed
        /\ UNCHANGED <<groups, articles, jobs, cache, rows, calls, crashes>>
    BY <1>3, <1>8 DEF UpdateRow
  <2>2. o.id \in 1 .. rows'
    BY <1>3, <2>1 DEF StoreTyped
  <2>3. TableTypes'
    <3>1. CASE feed' = feed
      BY <1>6, <2>1, <3>1
    <3>2. CASE feed' # feed
      <4>1. feed[row.url] # NoRow /\ feed' = [feed EXCEPT ![row.url] = new]
        BY <2>1, <3>2 DEF Live
      <4>2. /\ new = [id |-> feed[row.url].id, title |-> new.title, group |-> new.group,
                      full |-> new.full, icon |-> new.icon]
            /\ new.group = feed[row.url].group /\ new.full = feed[row.url].full
            /\ new.icon = feed[row.url].icon
        <5> DEFINE old == feed[row.url]
        <5>1. old = [id |-> old.id, title |-> old.title, group |-> old.group,
                     full |-> old.full, icon |-> old.icon]
          BY <1>1, <1>3, <2>1, <4>1 DEF TableTypes
        <5> HIDE DEF old, row
        <5>2. new = [old EXCEPT !.title = row.title]
          BY DEF old
        <5> HIDE DEF new
        <5>3. /\ new = [id |-> old.id, title |-> new.title, group |-> new.group,
                        full |-> new.full, icon |-> new.icon]
              /\ new.group = old.group /\ new.full = old.full /\ new.icon = old.icon
          BY <5>1, <5>2
        <5> QED
          BY <5>3 DEF old
      <4>3. /\ feed[row.url].group \in groups \cup {NULL} /\ feed[row.url].full \in BOOLEAN
            /\ feed[row.url].icon \in {NULL, "url", "asset"}
        BY <1>1, <1>3, <2>1, <4>1 DEF TableTypes
      <4> HIDE DEF new
      <4>4. row.url \in Urls
        BY <1>3, <2>1
      <4> HIDE DEF row
      <4> QED
        BY <1>1, <1>5, <2>1, <4>1, <4>2, <4>3, <4>4, FeedChanges
    <3> QED
      BY <3>1, <3>2
  <2>4. rows <= rows' /\ groups \subseteq groups'
    BY <1>1, <2>1
  <2> QED
    BY <1>5, <2>1, <2>2, <2>3, <2>4, AfterFeedKeepsTypes
<1>9. CASE InsertRow(c)
  <2>1. /\ o.at = "write"
        /\ UNCHANGED <<groups, articles, jobs, cache, calls, crashes>>
    BY <1>9 DEF InsertRow
  <2>2. CASE feed[row.url] # NoRow
    <3>1. Go(c, Failed(c), {}) /\ UNCHANGED <<feed, rows>>
      BY <1>3, <1>9, <2>2 DEF InsertRow
    <3>2. TableTypes' /\ rows <= rows' /\ groups \subseteq groups' /\ o.at # "return"
      BY <1>1, <1>6, <2>1, <3>1
    <3> QED
      BY <1>2, <1>5, <3>1, <3>2, FailKeepsTypes
  <2>3. CASE feed[row.url] = NoRow
    <3>1. /\ rows' = rows + 1
          /\ feed' = [feed EXCEPT ![row.url] =
                [id |-> rows + 1, title |-> row.title, group |-> NULL,
                 full |-> TRUE, icon |-> NULL]]
          /\ Go(c, AfterFeed(c, rows + 1), {row.url})
      BY <1>3, <1>9, <2>3 DEF InsertRow
    <3>2. row.url \in Urls
      BY <1>3, <2>1
    <3> DEFINE u == row.url
               new == [id |-> rows + 1, title |-> row.title, group |-> NULL,
                       full |-> TRUE, icon |-> NULL]
    <3> HIDE DEF row
    <3>3. /\ DOMAIN feed' = Urls /\ feed'[u] = new /\ \A v \in Urls \ {u} : feed'[v] = feed[v]
      BY <1>1, <3>1, <3>2
    <3>4. /\ rows' \in Nat /\ rows <= rows' /\ rows + 1 \in 1 .. rows'
          /\ 1 .. rows \subseteq 1 .. rows' /\ rows + 1 \notin 1 .. rows
      BY <1>1, <3>1
    <3>5. \A v \in Urls : feed[v] # NoRow => feed[v].id \in 1 .. rows
      BY <1>1 DEF TableTypes
    <3>6. IsFiniteSet(Subscribed')
      <4> DEFINE known == Subscribed
      <4>1. IsFiniteSet(known)
        BY <1>1 DEF TableTypes
      <4>2. Subscribed' \in SUBSET (known \cup {u})
        BY <3>3 DEF Subscribed
      <4> HIDE DEF known, u
      <4>3. IsFiniteSet(known \cup {u})
        BY <4>1, FS_AddElement
      <4> QED
        BY <4>2, <4>3, FS_Subset
    <3>7. TableTypes'
      <4>1. /\ new.id = rows + 1 /\ new.group = NULL /\ new.full = TRUE /\ new.icon = NULL
            /\ new = [id |-> new.id, title |-> new.title, group |-> new.group,
                      full |-> new.full, icon |-> new.icon]
        OBVIOUS
      <4> HIDE DEF new
      <4>2. ASSUME NEW v \in Urls, feed'[v] # NoRow
            PROVE  /\ feed'[v] = [id |-> feed'[v].id, title |-> feed'[v].title,
                                  group |-> feed'[v].group, full |-> feed'[v].full,
                                  icon |-> feed'[v].icon]
                   /\ feed'[v].id \in 1 .. rows'
                   /\ feed'[v].group \in groups' \cup {NULL}
                   /\ feed'[v].full \in BOOLEAN
                   /\ feed'[v].icon \in {NULL, "url", "asset"}
        <5>1. CASE v = u
          BY <3>3, <3>4, <4>1, <5>1
        <5>2. CASE v # u
          BY <1>1, <2>1, <3>3, <3>4, <4>2, <5>2 DEF TableTypes
        <5> QED
          BY <5>1, <5>2
      <4>3. \A v, w \in Urls :
              feed'[v] # NoRow /\ feed'[w] # NoRow /\ feed'[v].id = feed'[w].id => v = w
        <5>1. \A v \in Urls \ {u} : feed'[v] # NoRow => feed'[v].id # feed'[u].id
          BY <3>3, <3>4, <3>5, <4>1
        <5> QED
          BY <1>1, <3>2, <3>3, <5>1 DEF TableTypes, u
      <4>4. articles' \subseteq 1 .. rows' /\ jobs' \subseteq 1 .. rows' /\ groups' \subseteq Names
        BY <1>1, <2>1, <3>4
      <4> QED
        BY <1>1, <1>5, <2>1, <3>3, <3>4, <3>6, <4>2, <4>3, <4>4 DEF TableTypes
    <3>8. Go(c, AfterFeed(c, rows + 1), {u}) /\ groups \subseteq groups'
      BY <2>1, <3>1 DEF u
    <3> QED
      BY <1>5, <2>1, <3>4, <3>7, <3>8, AfterFeedKeepsTypes
  <2> QED
    BY <2>2, <2>3
<1>10. CASE StoreItems(c)
  <2> DEFINE p == [o EXCEPT !.at = "finish"]
  <2>1. /\ o.at = "items" /\ Go(c, p, {}) /\ articles' = articles \cup {o.id}
        /\ UNCHANGED <<feed, groups, jobs, cache, rows, calls, crashes>>
    BY <1>10 DEF StoreItems
  <2>2. Changed(o, p, "finish", o.done, o.id, o.group)
    BY <1>3, OneFieldMovedOn
  <2> HIDE DEF p
  <2>3. o.id \in 1 .. rows /\ o.snapshot
    BY <1>3, <2>1 DEF StoreTyped
  <2>4. articles' \subseteq 1 .. rows /\ rows <= rows' /\ groups \subseteq groups'
    BY <1>1, <2>1, <2>3
  <2>5. TableTypes'
    BY <1>1, <1>5, <2>1, <2>4, TablesKeep
  <2>6. o.id \in 1 .. rows' /\ o.at # "return"
    BY <2>1, <2>3
  <2> HIDE DEF row
  <2> QED
    BY <1>2, <1>3, <1>4, <1>5, <2>1, <2>2, <2>3, <2>4, <2>5, <2>6, ProceedKeepsTypes
<1>11. CASE FinishSubscription(c)
  <2> DEFINE u == row.url
  <2>1. o.at = "finish" /\ UNCHANGED <<groups, articles, cache, rows, calls, crashes>>
    BY <1>11 DEF FinishSubscription
  <2>2. rows <= rows' /\ groups \subseteq groups' /\ u \in Urls /\ o.id \in 1 .. rows
    BY <1>1, <1>3, <2>1 DEF StoreTyped
  <2>3. CASE ~Live(u, o.id)
    <3>1. Go(c, Failed(c), {}) /\ UNCHANGED <<feed, jobs>>
      BY <1>3, <1>11, <2>3 DEF FinishSubscription
    <3>2. TableTypes' /\ o.at # "return"
      BY <1>6, <2>1, <3>1
    <3> QED
      BY <1>2, <1>5, <2>2, <3>1, <3>2, FailKeepsTypes
  <2>4. CASE Live(u, o.id)
    <3> DEFINE new == [feed[u] EXCEPT !.icon = "url"]
    <3>1. /\ feed' = IF o.icon = "none" THEN feed ELSE [feed EXCEPT ![u].icon = "url"]
          /\ jobs' = IF o.icon = "job" THEN jobs \cup {o.id} ELSE jobs
          /\ Go(c, RowDone(c), {})
      BY <1>3, <1>11, <2>4 DEF FinishSubscription
    <3>2. jobs' \subseteq 1 .. rows
      BY <1>1, <2>2, <3>1
    <3>3. TableTypes'
      <4>1. CASE feed' = feed
        BY <1>1, <1>5, <2>1, <2>2, <3>2, <4>1, TablesKeep
      <4>2. CASE feed' = [feed EXCEPT ![u] = new]
        <5>1. /\ feed[u] # NoRow
              /\ feed[u] = [id |-> feed[u].id, title |-> feed[u].title,
                            group |-> feed[u].group, full |-> feed[u].full,
                            icon |-> feed[u].icon]
              /\ feed[u].group \in groups \cup {NULL} /\ feed[u].full \in BOOLEAN
          BY <1>1, <2>2, <2>4 DEF TableTypes, Live
        <5> DEFINE old == feed[u]
        <5>2. /\ new = [id |-> old.id, title |-> new.title, group |-> new.group,
                        full |-> new.full, icon |-> new.icon]
              /\ new.group = old.group /\ new.full = old.full /\ new.icon = "url"
          <6>1. old = [id |-> old.id, title |-> old.title, group |-> old.group,
                       full |-> old.full, icon |-> old.icon]
            BY <5>1
          <6>2. new = [old EXCEPT !.icon = "url"]
            OBVIOUS
          <6> HIDE DEF old, new
          <6> QED
            BY <6>1, <6>2
        <5> HIDE DEF new, row
        <5> QED
          BY <1>1, <1>5, <2>1, <2>2, <3>2, <4>2, <5>1, <5>2, FeedChanges
      <4> QED
        BY <3>1, <4>1, <4>2
    <3> DEFINE p == RowDone(c)
    <3>4. Changed(o, p, AfterRow(o), o.done + 1, o.id, o.group)
      BY <1>3, RowDoneShape
    <3>5. Go(c, p, {}) /\ o.at # "return"
      BY <2>1, <3>1
    <3> HIDE DEF p
    <3> QED
      BY <1>2, <1>5, <2>2, <3>3, <3>4, <3>5, RowDoneKeepsTypes
  <2> QED
    BY <2>3, <2>4
<1>12. CASE FindGroup(c)
  <2>1. o.at = "group" /\ UNCHANGED <<feed, groups, articles, jobs, cache, rows, calls, crashes>>
    BY <1>12 DEF FindGroup, tableVars
  <2>2. TableTypes' /\ rows <= rows' /\ groups \subseteq groups'
    BY <1>1, <1>6, <2>1
  <2>3. row.group \in Names /\ (row.url = NULL \/ o.id \in 1 .. rows')
    BY <1>3, <2>1 DEF StoreTyped
  <2>4. CASE Go(c, [o EXCEPT !.at = "newgroup"], {})
    <3> DEFINE p == [o EXCEPT !.at = "newgroup"]
    <3>1. Changed(o, p, "newgroup", o.done, o.id, o.group)
      BY <1>3, OneFieldMovedOn
    <3> HIDE DEF p
    <3>2. Go(c, p, {})
      BY <2>4 DEF p
    <3> HIDE DEF row
    <3> QED
      BY <1>2, <1>3, <1>4, <1>5, <2>1, <2>2, <2>3, <3>1, <3>2, ProceedKeepsTypes
  <2>5. ASSUME NEW n \in SameName(row.group),
               Go(c, [o EXCEPT !.at = "member", !.group = n], {})
        PROVE  TypeInv'
    <3> DEFINE p == [o EXCEPT !.at = "member", !.group = n]
    <3>1. Changed(o, p, "member", o.done, o.id, n)
      BY <1>3, MovedOn, Zenon
    <3>2. n \in {m \in groups' : Lower[m] = Lower[row.group]}
      BY <2>1 DEF SameName
    <3> HIDE DEF p
    <3>3. Go(c, p, {})
      BY <2>5 DEF p
    <3> HIDE DEF row
    <3> QED
      BY <1>2, <1>3, <1>4, <1>5, <2>1, <2>2, <2>3, <3>1, <3>2, <3>3, ProceedKeepsTypes
  <2> QED
    BY <1>3, <1>12, <2>4, <2>5, Zenon DEF FindGroup
<1>13. CASE InsertGroup(c)
  <2> DEFINE name == row.group
  <2>1. /\ o.at = "newgroup" /\ groups' = groups \cup {name}
        /\ UNCHANGED <<feed, articles, jobs, cache, rows, calls, crashes>>
        /\ IF name \in groups THEN Go(c, Failed(c), {})
           ELSE Go(c, [op[c] EXCEPT !.at = "member", !.group = name], {name})
    BY <1>3, <1>13 DEF InsertGroup
  <2>2. name \in Names /\ (row.url = NULL \/ o.id \in 1 .. rows)
    BY <1>3, <2>1 DEF StoreTyped
  <2>3. rows <= rows' /\ groups \subseteq groups' /\ groups' \subseteq Names
    BY <1>1, <2>1, <2>2
  <2>4. TableTypes'
    BY <1>1, <1>5, <2>1, <2>3, TablesKeep
  <2>5. CASE name \in groups
    <3>1. Go(c, Failed(c), {}) /\ o.at # "return"
      BY <2>1, <2>5
    <3> QED
      BY <1>2, <1>5, <2>3, <2>4, <3>1, FailKeepsTypes
  <2>6. CASE name \notin groups
    <3> DEFINE p == [o EXCEPT !.at = "member", !.group = name]
    <3>1. Changed(o, p, "member", o.done, o.id, name)
      BY <1>3, MovedOn, Zenon
    <3>2. Go(c, p, {name})
      BY <2>1, <2>6
    <3> HIDE DEF p
    <3>3. name \in {m \in groups' : Lower[m] = Lower[row.group]}
      BY <2>1
    <3> HIDE DEF row
    <3> QED
      BY <1>2, <1>3, <1>4, <1>5, <2>1, <2>2, <2>3, <2>4, <3>1, <3>2, <3>3, ProceedKeepsTypes
  <2> QED
    BY <2>5, <2>6
<1>14. CASE AssignGroup(c)
  <2> DEFINE u == row.url
  <2>1. o.at = "member" /\ UNCHANGED <<groups, articles, jobs, cache, rows, calls, crashes>>
    BY <1>14 DEF AssignGroup
  <2>2. rows <= rows' /\ groups \subseteq groups' /\ o.at # "return"
    BY <1>1, <2>1
  <2> DEFINE p == RowDone(c)
  <2>3. Changed(o, p, AfterRow(o), o.done + 1, o.id, o.group)
    BY <1>3, RowDoneShape
  <2>4. ASSUME NEW touched, Go(c, RowDone(c), touched), TableTypes'
        PROVE  TypeInv'
    <3>1. Go(c, p, touched)
      BY <2>4
    <3> HIDE DEF p
    <3> QED
      BY <1>2, <1>5, <2>2, <2>3, <2>4, <3>1, RowDoneKeepsTypes
  <2>5. CASE u = NULL
    <3>1. Go(c, RowDone(c), {}) /\ feed' = feed
      BY <1>3, <1>14, <2>5 DEF AssignGroup
    <3> QED
      BY <1>6, <2>1, <2>4, <3>1
  <2>6. CASE u # NULL /\ ~Live(u, o.id)
    <3>1. Go(c, Failed(c), {}) /\ feed' = feed
      BY <1>3, <1>14, <2>6 DEF AssignGroup
    <3>2. TableTypes'
      BY <1>6, <2>1, <3>1
    <3> QED
      BY <1>2, <1>5, <2>2, <3>1, <3>2, FailKeepsTypes
  <2>7. CASE u # NULL /\ Live(u, o.id)
    <3> DEFINE new == [feed[u] EXCEPT !.group = o.group]
    <3>1. Go(c, RowDone(c), {u}) /\ feed' = [feed EXCEPT ![u] = new]
      BY <1>3, <1>14, <2>7 DEF AssignGroup
    <3>2. u \in Urls
      <4>1. o.done + 1 \in DOMAIN o.all
        BY <1>2, <2>1, StoreBefore
      <4> QED
        BY <1>3, <2>1, <2>7, <4>1 DEF StoreTyped
    <3>3. o.group \in groups
      BY <1>3, <2>1 DEF StoreTyped, SameName
    <3>4. /\ feed[u] # NoRow
          /\ feed[u] = [id |-> feed[u].id, title |-> feed[u].title,
                        group |-> feed[u].group, full |-> feed[u].full,
                        icon |-> feed[u].icon]
          /\ feed[u].full \in BOOLEAN /\ feed[u].icon \in {NULL, "url", "asset"}
      BY <1>1, <2>7, <3>2 DEF TableTypes, Live
    <3> DEFINE old == feed[u]
    <3>5. /\ new = [id |-> old.id, title |-> new.title, group |-> new.group,
                    full |-> new.full, icon |-> new.icon]
          /\ new.group = o.group /\ new.full = old.full /\ new.icon = old.icon
      <4>1. old = [id |-> old.id, title |-> old.title, group |-> old.group,
                   full |-> old.full, icon |-> old.icon]
        BY <3>4
      <4>2. new = [old EXCEPT !.group = o.group]
        OBVIOUS
      <4> HIDE DEF old, new
      <4> QED
        BY <4>1, <4>2
    <3>6. TableTypes'
      <4> HIDE DEF new, row
      <4> QED
        BY <1>1, <1>5, <2>1, <2>2, <3>1, <3>2, <3>3, <3>4, <3>5, FeedChanges
    <3> QED
      BY <2>4, <3>1, <3>6
  <2> QED
    BY <2>5, <2>6, <2>7
<1>15. CASE Respond(c)
  <2>1. TableTypes' /\ rows <= rows' /\ groups \subseteq groups' /\ Return(c, {})
    BY <1>1, <1>6, <1>15 DEF Respond, tableVars
  <2>2. op[c].at # "discovering"
    BY <1>2 DEF Steps
  <2> QED
    BY <1>5, <2>1, <2>2, ReturnKeepsTypes
<1> QED
  BY <1>7, <1>8, <1>9, <1>10, <1>11, <1>12, <1>13, <1>14, <1>15

LEMMA ManageKeepsTypes ==
    ASSUME TypeInv, NEW c \in Clients,
           \/ \E u \in Urls, group \in groups \cup {NULL} : SetFeedGroup(c, u, group)
           \/ \E u \in Urls, title \in Titles, full \in {NULL, FALSE} :
                 UpdateFeedTitle(c, u, title, full)
           \/ UpdateFeedAutoFullText(c)
           \/ DeleteRow(c)
           \/ \E u \in Urls : DeleteEntries(c, u)
           \/ Crash(c)
    PROVE  TypeInv'
<1> DEFINE o == op[c]
<1>1. /\ TableTypes /\ OpTyped(o) /\ groups \subseteq Names /\ rows \in Nat
      /\ DOMAIN feed = Urls /\ articles \subseteq 1 .. rows /\ jobs \subseteq 1 .. rows
      /\ calls \in 0 .. MaxCalls /\ crashes \in 0 .. MaxCrashes
  BY DEF TypeInv, TableTypes
<1>2. /\ UNCHANGED discoveryVars /\ DOMAIN op' = Clients
      /\ UNCHANGED <<groups, jobs, cache, rows>>
  BY DEF SetFeedGroup, UpdateFeedTitle, UpdateFeedAutoFullText, DeleteRow, DeleteEntries,
         Crash, Go, Return, tableVars
<1>3. rows <= rows' /\ groups \subseteq groups' /\ groups' \subseteq Names
      /\ jobs' \subseteq 1 .. rows
  BY <1>1, <1>2
<1>4. \A u \in Urls : feed[u] # NoRow =>
        /\ feed[u] = [id |-> feed[u].id, title |-> feed[u].title, group |-> feed[u].group,
                      full |-> feed[u].full, icon |-> feed[u].icon]
        /\ feed[u].id \in 1 .. rows
        /\ feed[u].group \in groups \cup {NULL}
        /\ feed[u].full \in BOOLEAN
        /\ feed[u].icon \in {NULL, "url", "asset"}
  BY <1>1 DEF TableTypes
<1>5. Call(c) => calls' \in 0 .. MaxCalls /\ o.at = "idle" /\ stage[c] = "idle"
  BY CallFrame
<1>6. ASSUME NEW u \in Urls, NEW group \in groups \cup {NULL}, SetFeedGroup(c, u, group)
      PROVE  TypeInv'
  <2> DEFINE old == feed[u]
             new == [old EXCEPT !.group = group]
  <2>1. /\ Call(c) /\ old # NoRow /\ feed' = [feed EXCEPT ![u] = new] /\ Return(c, {u})
        /\ UNCHANGED <<articles, crashes>>
    BY <1>6 DEF SetFeedGroup
  <2>2. /\ old = [id |-> old.id, title |-> old.title, group |-> old.group,
                  full |-> old.full, icon |-> old.icon]
        /\ old.full \in BOOLEAN /\ old.icon \in {NULL, "url", "asset"}
    BY <1>4, <2>1
  <2>3. /\ new = [id |-> old.id, title |-> new.title, group |-> new.group,
                  full |-> new.full, icon |-> new.icon]
        /\ new.group = group /\ new.full = old.full /\ new.icon = old.icon
    <3> HIDE DEF old
    <3> QED
      BY <2>2
  <2>4. TableTypes'
    <3> HIDE DEF new
    <3> QED
      BY <1>1, <1>2, <1>3, <1>5, <2>1, <2>2, <2>3, FeedChanges
  <2> QED
    BY <1>2, <1>3, <1>5, <2>1, <2>4, ReturnKeepsTypes
<1>7. ASSUME NEW u \in Urls, NEW title \in Titles, NEW full \in {NULL, FALSE},
             UpdateFeedTitle(c, u, title, full)
      PROVE  TypeInv'
  <2> DEFINE old == feed[u]
             new == [old EXCEPT !.title = title]
             step == IF full = NULL THEN Idle
                     ELSE [at |-> "full", url |-> u, id |-> old.id, full |-> full]
  <2>1. /\ Call(c) /\ old # NoRow /\ feed' = [feed EXCEPT ![u] = new] /\ Go(c, step, {u})
        /\ UNCHANGED <<articles, crashes>>
    BY <1>7 DEF UpdateFeedTitle
  <2>2. /\ old = [id |-> old.id, title |-> old.title, group |-> old.group,
                  full |-> old.full, icon |-> old.icon]
        /\ old.full \in BOOLEAN /\ old.icon \in {NULL, "url", "asset"}
        /\ old.group \in groups \cup {NULL} /\ old.id \in 1 .. rows
    BY <1>4, <2>1
  <2>3. /\ new = [id |-> old.id, title |-> new.title, group |-> new.group,
                  full |-> new.full, icon |-> new.icon]
        /\ new.group = old.group /\ new.full = old.full /\ new.icon = old.icon
    <3> HIDE DEF old
    <3> QED
      BY <2>2
  <2>4. TableTypes'
    <3> HIDE DEF new
    <3> QED
      BY <1>1, <1>2, <1>3, <1>5, <2>1, <2>2, <2>3, FeedChanges
  <2>5. PICK rigid : rigid = step
    OBVIOUS
  <2>6. /\ rigid = Idle \/ /\ rigid.at = "full" /\ rigid.url = u
                           /\ rigid.id \in 1 .. rows /\ rigid.full \in BOOLEAN
        /\ Go(c, rigid, {u})
    BY <2>1, <2>2, <2>5
  <2>7. OpTyped(rigid)' /\ rigid.at # "discovering"
    BY <1>2, <2>6 DEF OpTyped, Idle, Steps
  <2>8. DiscoveryTypes' /\ stage' = stage /\ stage'[c] = "idle"
    BY <1>2, <1>5, <2>1 DEF TypeInv, DiscoveryTypes, discoveryVars
  <2>9. \A d \in Clients \ {c} : stage'[d] = stage[d]
    BY <2>8
  <2> QED
    BY <1>3, <2>4, <2>6, <2>7, <2>8, <2>9, StepKeepsTypes
\* What comes after the first statement of an update, and of a deletion.
<1>8. CASE UpdateFeedAutoFullText(c)
  <2> DEFINE u == o.url
             old == feed[u]
             new == [old EXCEPT !.full = o.full]
  <2>1. /\ o.at = "full" /\ Return(c, {}) /\ UNCHANGED <<articles, calls, crashes>>
        /\ feed' = IF Live(u, o.id) THEN [feed EXCEPT ![u].full = o.full] ELSE feed
        /\ u \in Urls
    BY <1>1, <1>8 DEF UpdateFeedAutoFullText, OpTyped
  <2>2. CASE ~Live(u, o.id)
    <3>1. TableTypes'
      BY <1>1, <1>2, <1>3, <2>1, <2>2, TablesKeep
    <3> QED
      BY <1>2, <1>3, <2>1, <3>1, ReturnKeepsTypes
  <2>3. CASE Live(u, o.id)
    <3>1. old # NoRow /\ feed' = [feed EXCEPT ![u] = new]
      BY <2>1, <2>3 DEF Live
    <3>2. /\ old = [id |-> old.id, title |-> old.title, group |-> old.group,
                    full |-> old.full, icon |-> old.icon]
          /\ old.full \in BOOLEAN /\ old.icon \in {NULL, "url", "asset"}
          /\ old.group \in groups \cup {NULL}
      BY <1>4, <2>1, <3>1
    <3>3. /\ new = [id |-> old.id, title |-> new.title, group |-> new.group,
                    full |-> new.full, icon |-> new.icon]
          /\ new.group = old.group /\ new.full = o.full /\ new.icon = old.icon
      <4> HIDE DEF old, o
      <4> QED
        BY <3>2
    <3>4. o.full \in BOOLEAN
      BY <1>1, <2>1 DEF OpTyped
    <3>5. TableTypes'
      <4> HIDE DEF new
      <4> QED
        BY <1>1, <1>2, <1>3, <2>1, <3>1, <3>2, <3>3, <3>4, FeedChanges
    <3> QED
      BY <1>2, <1>3, <2>1, <3>5, ReturnKeepsTypes
  <2> QED
    BY <2>2, <2>3
<1>9. CASE DeleteRow(c)
  <2>1. /\ o.at = "row" /\ Return(c, {o.url}) /\ UNCHANGED <<articles, calls, crashes>>
        /\ feed' = IF Live(o.url, o.id) THEN [feed EXCEPT ![o.url] = NoRow] ELSE feed
        /\ o.url \in Urls
    BY <1>1, <1>9 DEF DeleteRow, OpTyped
  <2>2. TableTypes'
    <3>1. CASE feed' = feed
      BY <1>1, <1>2, <1>3, <2>1, <3>1, TablesKeep
    <3>2. CASE feed' = [feed EXCEPT ![o.url] = NoRow]
      <4> DEFINE none == NoRow
      <4>1. none = NoRow /\ feed' = [feed EXCEPT ![o.url] = none]
        BY <3>2
      <4> HIDE DEF none
      <4> QED
        BY <1>1, <1>2, <1>3, <2>1, <4>1, FeedChanges
    <3> QED
      BY <2>1, <3>1, <3>2
  <2> QED
    BY <1>2, <1>3, <2>1, <2>2, ReturnKeepsTypes
<1>10. ASSUME NEW u \in Urls, DeleteEntries(c, u)
       PROVE  TypeInv'
  <2>1. /\ Call(c) /\ feed[u] # NoRow /\ articles' = articles \ {feed[u].id}
        /\ Go(c, [at |-> "row", url |-> u, id |-> feed[u].id], {u})
        /\ UNCHANGED <<feed, crashes>>
    BY <1>10 DEF DeleteEntries
  <2>2. TableTypes'
    BY <1>1, <1>2, <1>3, <1>5, <2>1, TablesKeep
  <2>3. PICK step : step = [at |-> "row", url |-> u, id |-> feed[u].id]
    OBVIOUS
  <2>4. Go(c, step, {u}) /\ step.at = "row" /\ step.url = u /\ step.id \in 1 .. rows
    BY <1>4, <2>1, <2>3
  <2>5. OpTyped(step)' /\ step.at # "discovering"
    BY <1>2, <2>4 DEF OpTyped, Steps
  <2>6. DiscoveryTypes' /\ stage' = stage /\ stage'[c] = "idle"
    BY <1>2, <1>5, <2>1 DEF TypeInv, DiscoveryTypes, discoveryVars
  <2>7. \A d \in Clients \ {c} : stage'[d] = stage[d]
    BY <2>6
  <2> QED
    BY <1>3, <2>2, <2>4, <2>5, <2>6, <2>7, StepKeepsTypes
<1>11. CASE Crash(c)
  <2>1. /\ o.at \in Steps \cup {"row", "full"} /\ Return(c, {})
        /\ crashes < MaxCrashes /\ crashes' = crashes + 1
        /\ UNCHANGED <<feed, articles, calls>>
    BY <1>11 DEF Crash, tableVars
  <2>2. crashes' \in 0 .. MaxCrashes
    BY <1>1, <2>1, SubscriptionsAssumptions
  <2>3. TableTypes' /\ o.at # "discovering"
    BY <1>1, <1>2, <1>3, <2>1, <2>2, TablesKeep DEF Steps
  <2> QED
    BY <1>2, <1>3, <2>1, <2>3, ReturnKeepsTypes
<1> QED
  BY <1>6, <1>7, <1>8, <1>9, <1>10, <1>11

LEMMA IconJobsKeepTypes ==
    ASSUME TypeInv, NEW id, CacheSiteIcon(id) \/ NoSiteIcon(id)
    PROVE  TypeInv'
<1>1. /\ UNCHANGED <<discoveryVars, groups, articles, cache, rows, op, calls, crashes>>
      /\ jobs' \subseteq jobs
      /\ \/ feed' = feed
         \/ feed' = [u \in Urls |-> IF Live(u, id) THEN [feed[u] EXCEPT !.icon = "asset"]
                                     ELSE feed[u]]
  BY DEF CacheSiteIcon, NoSiteIcon
<1>2. TableTypes /\ DOMAIN feed = Urls
  BY DEF TypeInv, TableTypes
<1>3. ASSUME NEW u \in Urls
      PROVE  feed'[u] # NoRow => /\ feed[u] # NoRow
                                   /\ feed'[u].id = feed[u].id
                                   /\ feed'[u].group = feed[u].group
                                   /\ feed'[u].full = feed[u].full
                                   /\ feed'[u].icon \in {NULL, "url", "asset"}
                                   /\ feed'[u] = [id |-> feed'[u].id, title |-> feed'[u].title,
                                                  group |-> feed'[u].group,
                                                  full |-> feed'[u].full,
                                                  icon |-> feed'[u].icon]
  <2> DEFINE old == feed[u]
             new == feed'[u]
  <2>1. old # NoRow =>
          /\ old = [id |-> old.id, title |-> old.title, group |-> old.group,
                    full |-> old.full, icon |-> old.icon]
          /\ old.icon \in {NULL, "url", "asset"}
    BY <1>2 DEF TableTypes
  <2>2. new = old \/ (old # NoRow /\ new = [old EXCEPT !.icon = "asset"])
    <3>1. CASE feed' = feed
      BY <3>1
    <3>2. CASE feed' = [v \in Urls |-> IF Live(v, id) THEN [feed[v] EXCEPT !.icon = "asset"]
                                        ELSE feed[v]]
      <4>1. new = IF Live(u, id) THEN [old EXCEPT !.icon = "asset"] ELSE old
        BY <3>2
      <4> QED
        BY <4>1 DEF Live
    <3> QED
      BY <1>1, <3>1, <3>2
  <2> HIDE DEF old, new
  <2>4. new # old => /\ old # NoRow /\ new.id = old.id /\ new.group = old.group
                     /\ new.full = old.full /\ new.icon = "asset"
                     /\ new = [id |-> new.id, title |-> new.title, group |-> new.group,
                               full |-> new.full, icon |-> new.icon]
    BY <2>1, <2>2
  <2>5. new # NoRow => old # NoRow
    BY <2>2
  <2>6. new = old => (new # NoRow =>
                        /\ new = [id |-> new.id, title |-> new.title, group |-> new.group,
                                  full |-> new.full, icon |-> new.icon]
                        /\ new.icon \in {NULL, "url", "asset"})
    BY <2>1
  <2> QED
    BY <2>4, <2>5, <2>6 DEF old, new
<1>4. IsFiniteSet(Subscribed')
  <2>1. Subscribed' \in SUBSET Subscribed
    BY <1>3 DEF Subscribed
  <2> QED
    BY <1>2, <2>1, FS_Subset DEF TableTypes
<1>5. DOMAIN feed' = Urls
  BY <1>1, <1>2
<1>6. \A u, v \in Urls : feed'[u] # NoRow /\ feed'[v] # NoRow /\ feed'[u].id = feed'[v].id =>
          u = v
  <2>1. \A u \in Urls : feed'[u] # NoRow => feed[u] # NoRow /\ feed'[u].id = feed[u].id
    BY <1>3
  <2>2. \A u, v \in Urls : feed[u] # NoRow /\ feed[v] # NoRow /\ feed[u].id = feed[v].id =>
            u = v
    BY <1>2 DEF TableTypes
  <2> QED
    BY <2>1, <2>2
<1>7. \A u \in Urls : feed'[u] # NoRow =>
          /\ feed'[u].id \in 1 .. rows
          /\ feed'[u].group \in groups \cup {NULL}
          /\ feed'[u].full \in BOOLEAN
  BY <1>2, <1>3 DEF TableTypes
<1>8. TableTypes'
  BY <1>1, <1>2, <1>3, <1>4, <1>5, <1>6, <1>7 DEF TableTypes
<1>9. ASSUME NEW c \in Clients
      PROVE  OpTyped(op[c])' /\ (op'[c].at # "discovering" => stage'[c] = "idle")
  <2>1. op' = op /\ stage' = stage /\ rows' = rows /\ groups' = groups
    BY <1>1 DEF discoveryVars
  <2> QED
    BY <2>1, SMTT(20) DEF TypeInv, OpTyped, StoreTyped, StoreShape, TheRow, SameName, Steps, Idle
<1>10. DiscoveryTypes'
  BY <1>1 DEF TypeInv, DiscoveryTypes, discoveryVars
<1> QED
  BY <1>8, <1>9, <1>10 DEF TypeInv

\* A discovery goes on, of which the tables and the calls know nothing.
LEMMA DiscoversKeepsTypes ==
    ASSUME TypeInv, DiscoveryTypes', NEW c \in Clients, Discovers(c)
    PROVE  TypeInv'
<1>1. UNCHANGED <<tableVars, op, calls, crashes>> /\ op[c].at = "discovering" /\ Discovering(c)
  BY DEF Discovers
<1>2. TableTypes'
  BY <1>1 DEF TypeInv, TableTypes, tableVars, Subscribed
<1>3. ASSUME NEW d \in Clients
      PROVE  OpTyped(op[d])'
  BY <1>1, SMTT(20) DEF TypeInv, OpTyped, StoreTyped, StoreShape, TheRow, SameName, Steps, Idle, tableVars
<1>4. \A d \in Clients \ {c} : stage'[d] = stage[d]
  BY <1>1 DEF Discovering, ServerPage, BridgePage, BridgePageFails, TryPaths, ProbeSucceeds,
              ProbeFails, Answers, Rank, Probe, TypeInv, DiscoveryTypes
<1> QED
  BY <1>1, <1>2, <1>3, <1>4 DEF TypeInv

LEMMA TypeInvNext == TypeInv /\ DiscoveryIInv /\ [Next]_vars => TypeInv'
<1> SUFFICES ASSUME TypeInv, DiscoveryIInv, [Next]_vars
             PROVE  TypeInv'
  OBVIOUS
<1>1. DiscoveryTypes'
  BY StepIsDiscovery, DiscoveryTypesNext DEF TypeInv
<1>2. ASSUME NEW c \in Clients, Subscribe(c)
      PROVE  TypeInv'
  BY <1>1, <1>2, SubscribeIsQuiet, QuietKeepsTypes, DiscoversKeepsTypes
<1>3. ASSUME NEW c \in Clients, Store(c)
      PROVE  TypeInv'
  <2>1. ASSUME NEW document \in Documents \cup {ExportSubscriptions},
               ImportSubscriptions(c, document)
        PROVE  TypeInv'
    BY <1>1, <2>1, DocumentsAreTyped, ImportIsQuiet, QuietKeepsTypes DEF TypeInv
  <2> QED
    BY <1>3, <2>1, StoreKeepsTypes DEF Store
<1>4. ASSUME NEW c \in Clients, Manage(c) \/ Crash(c)
      PROVE  TypeInv'
  <2>1. ASSUME NEW name \in Names, CreateGroup(c, name)
        PROVE  TypeInv'
    BY <1>1, <2>1, CreateGroupIsQuiet, QuietKeepsTypes
  <2> QED
    BY <1>4, <2>1, ManageKeepsTypes DEF Manage
<1>5. CASE UNCHANGED vars
  <2>1. UNCHANGED <<feed, groups, articles, jobs, cache, rows, op, calls, crashes, stage>>
    BY <1>5 DEF vars, tableVars, discoveryVars
  <2>2. TableTypes'
    BY <2>1 DEF TypeInv, TableTypes, Subscribed
  <2>3. \A c \in Clients : OpTyped(op[c])'
    BY <2>1, SMTT(20) DEF TypeInv, OpTyped, StoreTyped, StoreShape, TheRow, SameName, Steps, Idle
  <2> QED
    BY <1>1, <2>1, <2>2, <2>3 DEF TypeInv
<1> QED
  BY <1>2, <1>3, <1>4, <1>5, IconJobsKeepTypes DEF Next

LEMMA TypesAreOK == TypeInv => TypeOK
<1> SUFFICES ASSUME TypeInv
             PROVE  TypeOK
  OBVIOUS
<1>1. DiscoveryTypeOK
  BY DEF TypeInv, DiscoveryTypes, DiscoveryTypeOK
<1>2. ASSUME NEW c \in Clients
      PROVE  /\ op[c].at \in {"idle", "probe", "discovering", "row", "full"} \cup Steps
             /\ op[c].at \in Steps => op[c].done \in 0 .. Len(op[c].all)
             /\ op[c].at # "discovering" => stage[c] = "idle"
  BY DEF TypeInv, OpTyped, StoreTyped
<1>3. /\ \A u \in Urls : feed[u] # NoRow =>
            /\ feed[u].id \in 1 .. rows
            /\ feed[u].group \in groups \cup {NULL}
            /\ feed[u].full \in BOOLEAN
            /\ feed[u].icon \in {NULL, "url", "asset"}
      /\ \A u, v \in Urls : feed[u] # NoRow /\ feed[v] # NoRow /\ feed[u].id = feed[v].id =>
            u = v
  BY DEF TypeInv, TableTypes
<1> QED
  BY <1>1, <1>2, <1>3 DEF TypeInv, TableTypes, TypeOK

-----------------------------------------------------------------------------
(***************************************************************************)
(* What a step makes of each call                                          *)
(***************************************************************************)
\* A call of another may note what was touched, and no more.
LEMMA OthersNote ==
    ASSUME TypeInv, NEW c \in Clients, NEW step, NEW touched, Go(c, step, touched),
           NEW d \in Clients \ {c}
    PROVE  /\ op'[d].at = op[d].at
           /\ op[d].at \notin Steps => op'[d] = op[d]
           /\ op[d].at \in Steps =>
                 /\ op'[d].all = op[d].all /\ op'[d].done = op[d].done
                 /\ op'[d].id = op[d].id /\ op'[d].group = op[d].group
                 /\ op'[d].moved = op[d].moved \cup (touched \cap Stores(d))
                 /\ Current(d)' = Current(d)
<1> DEFINE o == op[d]
           p == op'[d]
<1>1. CASE o.at \in Steps
  <2> DEFINE m == o.moved \cup (touched \cap Stores(d))
  <2>1. StoreShape(o) /\ p = [o EXCEPT !.moved = @ \cup (touched \cap Stores(d))]
    BY <1>1, GoFrame DEF TypeInv, OpTyped, StoreTyped
  <2>2. p = [o EXCEPT !.moved = m]
    BY <2>1
  <2>3. StoreShape(o)
    BY <2>1
  <2> HIDE DEF m, o, p
  <2>4. /\ p.at = o.at /\ p.all = o.all /\ p.done = o.done /\ p.id = o.id
        /\ p.group = o.group /\ p.moved = m
    BY <2>2, <2>3, NotedFields
  <2> QED
    BY <1>1, <2>4 DEF Current, o, p, m
<1>2. CASE o.at \notin Steps
  BY <1>2, GoFrame
<1> QED
  BY <1>1, <1>2

\* Where the statements that store a row lead.
LEMMA StatementMoves ==
    ASSUME TypeInv, NEW c \in Clients,
           \/ SelectFeed(c) \/ UpdateRow(c) \/ InsertRow(c) \/ StoreItems(c)
           \/ FinishSubscription(c) \/ FindGroup(c) \/ InsertGroup(c) \/ AssignGroup(c)
           \/ Respond(c)
    PROVE  /\ op[c].at \in Steps /\ op'[c].at \notin {"row", "probe", "discovering", "full"}
           /\ \E step, touched : Go(c, step, touched)
           /\ op'[c].at = "newgroup" =>
                 /\ op[c].at = "group" /\ SameName(Current(c).group) = {}
                 /\ Current(c)' = Current(c) /\ UNCHANGED <<feed, groups>>
           /\ op'[c].at = "finish" =>
                 StoreItems(c) /\ op'[c].id = op[c].id /\ Current(c)' = Current(c)
<1> DEFINE o == op[c]
           p == op'[c]
<1>1. op[c].at \in Steps
  BY DEF SelectFeed, UpdateRow, InsertRow, StoreItems, FinishSubscription, FindGroup,
         InsertGroup, AssignGroup, Respond, Steps
<1>2. StoreShape(o)
  BY <1>1, StoreBefore
<1>3. CASE SelectFeed(c)
  <2> DEFINE id == IF feed[Current(c).url] = NoRow THEN NULL ELSE feed[Current(c).url].id
  <2>1. Go(c, [o EXCEPT !.at = "write", !.id = id], {})
    BY <1>3 DEF SelectFeed
  <2> HIDE DEF id
  <2>2. p = [o EXCEPT !.at = "write", !.id = id]
    BY <2>1, GoFrame
  <2> HIDE DEF o, p
  <2>3. Changed(o, p, "write", o.done, id, o.group)
    BY <1>2, <2>2, MovedOn, Zenon
  <2>4. p.at = "write"
    BY <2>3 DEF Changed
  <2> QED
    BY <1>1, <2>1, <2>4 DEF p
<1>4. ASSUME NEW id, NEW touched, Go(c, AfterFeed(c, id), touched)
      PROVE  p.at \in {"items", "group", "select", "return"} /\ \E step, t : Go(c, step, t)
  <2> DEFINE q == AfterFeed(c, id)
  <2>1. Go(c, q, touched)
    BY <1>4
  <2>2. q.at \in {"items", "group", AfterRow(o)}
    BY <1>2, AfterFeedShape DEF Changed
  <2> HIDE DEF q
  <2>3. p = q
    BY <2>1, GoFrame
  <2> QED
    BY <2>1, <2>2, <2>3 DEF AfterRow
<1>5. ASSUME NEW touched, Go(c, RowDone(c), touched)
      PROVE  p.at \in {"select", "return"} /\ \E step, t : Go(c, step, t)
  <2> DEFINE q == RowDone(c)
  <2>1. Go(c, q, touched)
    BY <1>5
  <2>2. q.at = AfterRow(o)
    BY <1>2, RowDoneShape DEF Changed
  <2> HIDE DEF q
  <2>3. p = q
    BY <2>1, GoFrame
  <2> QED
    BY <2>1, <2>2, <2>3 DEF AfterRow
<1>6. ASSUME NEW touched, Go(c, Failed(c), touched)
      PROVE  p.at = "failed" /\ \E step, t : Go(c, step, t)
  <2> DEFINE q == Failed(c)
  <2>1. Go(c, q, touched)
    BY <1>6
  <2>2. q.at = "failed"
    BY <1>2, FailedShape DEF Changed
  <2> HIDE DEF q
  <2>3. p = q
    BY <2>1, GoFrame
  <2> QED
    BY <2>1, <2>2, <2>3
<1>7. CASE UpdateRow(c) \/ InsertRow(c) \/ FinishSubscription(c) \/ AssignGroup(c)
  <2>1. \/ \E id, touched : Go(c, AfterFeed(c, id), touched)
        \/ \E touched : Go(c, RowDone(c), touched)
        \/ \E touched : Go(c, Failed(c), touched)
    BY <1>7 DEF UpdateRow, InsertRow, FinishSubscription, AssignGroup
  <2> QED
    BY <1>1, <1>4, <1>5, <1>6, <2>1
<1>8. CASE StoreItems(c)
  <2>1. Go(c, [o EXCEPT !.at = "finish"], {})
    BY <1>8 DEF StoreItems
  <2>2. p = [o EXCEPT !.at = "finish"]
    BY <2>1, GoFrame
  <2> HIDE DEF o, p
  <2>3. Changed(o, p, "finish", o.done, o.id, o.group)
    BY <1>2, <2>2, OneFieldMovedOn
  <2>4. p.at = "finish" /\ p.all = o.all /\ p.done = o.done /\ p.id = o.id
    BY <2>3 DEF Changed
  <2> QED
    BY <1>1, <1>8, <2>1, <2>4 DEF Current, o, p
<1>9. CASE FindGroup(c)
  <2>1. CASE Go(c, [o EXCEPT !.at = "newgroup"], {}) /\ SameName(Current(c).group) = {}
    <3>1. p = [o EXCEPT !.at = "newgroup"]
      BY <2>1, GoFrame
    <3> HIDE DEF o, p
    <3>2. Changed(o, p, "newgroup", o.done, o.id, o.group)
      BY <1>2, <3>1, OneFieldMovedOn
    <3>3. p.at = "newgroup" /\ p.all = o.all /\ p.done = o.done
      BY <3>2 DEF Changed
    <3> QED
      BY <1>1, <1>9, <2>1, <3>3 DEF Current, o, p, FindGroup, tableVars
  <2>2. ASSUME NEW n, Go(c, [o EXCEPT !.at = "member", !.group = n], {})
        PROVE  p.at = "member" /\ \E step, t : Go(c, step, t)
    <3>1. p = [o EXCEPT !.at = "member", !.group = n]
      BY <2>2, GoFrame
    <3> HIDE DEF o, p
    <3>2. Changed(o, p, "member", o.done, o.id, n)
      BY <1>2, <3>1, MovedOn, Zenon
    <3> QED
      BY <2>2, <3>2 DEF Changed
  <2> QED
    BY <1>1, <1>9, <2>1, <2>2, Zenon DEF FindGroup
<1>10. CASE InsertGroup(c)
  <2> DEFINE name == Current(c).group
  <2>1. ASSUME Go(c, [o EXCEPT !.at = "member", !.group = name], {name})
        PROVE  p.at = "member" /\ \E step, t : Go(c, step, t)
    <3>1. p = [o EXCEPT !.at = "member", !.group = name]
      BY <2>1, GoFrame
    <3> HIDE DEF o, p, name
    <3>2. Changed(o, p, "member", o.done, o.id, name)
      BY <1>2, <3>1, MovedOn, Zenon
    <3> QED
      BY <2>1, <3>2 DEF Changed
  <2> QED
    BY <1>1, <1>6, <1>10, <2>1 DEF InsertGroup
<1>11. CASE Respond(c)
  BY <1>1, <1>11, GoFrame DEF Respond, Return, Idle
<1> QED
  BY <1>3, <1>7, <1>8, <1>9, <1>10, <1>11

\* What the groups, and the articles of a feed, are owed to the calls: who is about to make
\* a group, who to return from a subscription and who is deleting.
Moves(d) ==
    /\ op'[d].at = "newgroup" =>
          /\ Current(d)' = Current(d)
          /\ \/ op[d].at = "newgroup"
             \/ SameName(Current(d).group) = {} /\ groups' = groups
    /\ op'[d].at = "finish" =>
          /\ Current(d)' = Current(d) /\ op'[d].id = op[d].id
          /\ op[d].at = "finish" \/ StoreItems(d)
    /\ op'[d].at = "row" =>
          \/ op'[d] = op[d]
          \/ \E u \in Urls : DeleteEntries(d, u) /\ op'[d].url = u /\ op'[d].id = feed[u].id
    /\ op[d].at = "row" => op'[d] = op[d] \/ DeleteRow(d) \/ Crash(d)

LEMMA OneMovesAllMove ==
    ASSUME TypeInv, NEW c \in Clients, NEW step, NEW touched, Go(c, step, touched), Moves(c),
           NEW d \in Clients
    PROVE  Moves(d)
<1>1. CASE d # c
  <2>1. /\ op'[d].at = op[d].at
        /\ op[d].at \notin Steps => op'[d] = op[d]
        /\ op[d].at \in Steps => op'[d].id = op[d].id /\ Current(d)' = Current(d)
    BY <1>1, OthersNote
  <2> QED
    BY <2>1 DEF Moves, Steps
<1> QED
  BY <1>1

LEMMA QuietMoves ==
    ASSUME NEW c \in Clients, NEW step, Quiet(c, step)
    PROVE  Moves(c) /\ Go(c, step, {})
<1>1. Go(c, step, {}) /\ op[c].at \in {"idle", "probe", "discovering"}
      /\ step.at \in {"idle", "probe", "discovering", "select", "group"}
  BY DEF Quiet
<1>2. op'[c] = step
  BY <1>1, GoFrame
<1> QED
  BY <1>1, <1>2 DEF Moves

LEMMA CallMoves ==
    ASSUME TypeInv, DiscoveryIInv, [Next]_vars, NEW d \in Clients
    PROVE  Moves(d)
<1>1. ASSUME op' = op
      PROVE  Moves(d)
  BY <1>1 DEF Moves, Current
<1>2. ASSUME NEW c \in Clients, NEW step, Quiet(c, step)
      PROVE  Moves(d)
  BY <1>2, QuietMoves, OneMovesAllMove
<1>3. ASSUME NEW c \in Clients, Subscribe(c)
      PROVE  Moves(d)
  BY <1>1, <1>2, <1>3, SubscribeIsQuiet DEF Discovers
<1>4. ASSUME NEW c \in Clients, Store(c)
      PROVE  Moves(d)
  <2>1. ASSUME NEW document \in Documents \cup {ExportSubscriptions},
               ImportSubscriptions(c, document)
        PROVE  Moves(d)
    BY <1>2, <2>1, DocumentsAreTyped, ImportIsQuiet DEF TypeInv
  <2>2. ASSUME \/ SelectFeed(c) \/ UpdateRow(c) \/ InsertRow(c) \/ StoreItems(c)
               \/ FinishSubscription(c) \/ FindGroup(c) \/ InsertGroup(c) \/ AssignGroup(c)
               \/ Respond(c)
        PROVE  Moves(d)
    <3>1. /\ op[c].at \in Steps /\ op'[c].at # "row"
          /\ op'[c].at = "newgroup" =>
                /\ SameName(Current(c).group) = {} /\ Current(c)' = Current(c)
                /\ groups' = groups
          /\ op'[c].at = "finish" =>
                StoreItems(c) /\ op'[c].id = op[c].id /\ Current(c)' = Current(c)
      BY <2>2, StatementMoves
    <3>2. Moves(c)
      BY <3>1 DEF Moves, Steps
    <3>3. \E step, touched : Go(c, step, touched)
      BY <2>2, StatementMoves
    <3> QED
      BY <3>2, <3>3, OneMovesAllMove
  <2> QED
    BY <1>4, <2>1, <2>2 DEF Store
<1>5. ASSUME NEW c \in Clients, Manage(c) \/ Crash(c)
      PROVE  Moves(d)
  <2>1. ASSUME NEW name \in Names, CreateGroup(c, name)
        PROVE  Moves(d)
    BY <1>2, <2>1, CreateGroupIsQuiet
  <2>2. ASSUME NEW touched, Return(c, touched),
               op[c].at = "row" => DeleteRow(c) \/ Crash(c)
        PROVE  Moves(d)
    <3>1. Go(c, Idle, touched) /\ op'[c].at = "idle"
      BY <2>2, GoFrame DEF Return, Idle
    <3>2. Moves(c)
      BY <2>2, <3>1 DEF Moves
    <3> QED
      BY <3>1, <3>2, OneMovesAllMove
  <2>3. ASSUME NEW u, NEW group, SetFeedGroup(c, u, group)
        PROVE  Moves(d)
    BY <2>2, <2>3, CallFrame DEF SetFeedGroup
  <2>4. CASE UpdateFeedAutoFullText(c) \/ DeleteRow(c) \/ Crash(c)
    BY <2>2, <2>4 DEF UpdateFeedAutoFullText, DeleteRow, Crash
  <2>5. ASSUME NEW u, NEW title, NEW full, UpdateFeedTitle(c, u, title, full)
        PROVE  Moves(d)
    <3> DEFINE step == IF full = NULL THEN Idle
                       ELSE [at |-> "full", url |-> u, id |-> feed[u].id, full |-> full]
    <3>1. Go(c, step, {u}) /\ op[c].at = "idle"
      BY <2>5, CallFrame DEF UpdateFeedTitle
    <3>2. step.at \in {"idle", "full"}
      BY DEF Idle
    <3> HIDE DEF step
    <3>3. op'[c] = step
      BY <3>1, GoFrame
    <3>4. Moves(c)
      BY <3>1, <3>2, <3>3 DEF Moves
    <3> QED
      BY <3>1, <3>4, OneMovesAllMove
  <2>6. ASSUME NEW u \in Urls, DeleteEntries(c, u)
        PROVE  Moves(d)
    <3> DEFINE step == [at |-> "row", url |-> u, id |-> feed[u].id]
    <3>1. Go(c, step, {u}) /\ op[c].at = "idle"
      BY <2>6, CallFrame DEF DeleteEntries
    <3>2. step.at = "row" /\ step.url = u /\ step.id = feed[u].id
      OBVIOUS
    <3> HIDE DEF step
    <3>3. op'[c] = step
      BY <3>1, GoFrame
    <3>4. Moves(c)
      BY <2>6, <3>1, <3>2, <3>3 DEF Moves
    <3> QED
      BY <3>1, <3>4, OneMovesAllMove
  <2> QED
    BY <1>5, <2>1, <2>3, <2>4, <2>5, <2>6 DEF Manage
<1>6. ASSUME NEW id, CacheSiteIcon(id) \/ NoSiteIcon(id)
      PROVE  Moves(d)
  BY <1>1, <1>6 DEF CacheSiteIcon, NoSiteIcon
<1> QED
  BY <1>1, <1>3, <1>4, <1>5, <1>6 DEF Next, vars

-----------------------------------------------------------------------------
(***************************************************************************)
(* Groups                                                                  *)
(***************************************************************************)
LEMMA GroupsInvInit == Init => GroupsInv
  BY DEF Init, GroupsInv, GroupsAreDistinct, Idle

\* Nothing but an insertion changes the groups.
LEMMA OnlyInsertionsMakeGroups ==
    ASSUME TypeInv, DiscoveryIInv, [Next]_vars
    PROVE  UNCHANGED <<groups, twins>> \/ \E c \in Clients : InsertGroup(c)
<1>1. ASSUME NEW c \in Clients, NEW step, Quiet(c, step)
      PROVE  UNCHANGED <<groups, twins>>
  BY <1>1 DEF Quiet, ghostVars
<1>2. ASSUME NEW c \in Clients, Subscribe(c)
      PROVE  UNCHANGED <<groups, twins>>
  BY <1>1, <1>2, SubscribeIsQuiet DEF Discovers, tableVars, ghostVars
<1>3. ASSUME NEW c \in Clients, Store(c)
      PROVE  UNCHANGED <<groups, twins>> \/ InsertGroup(c)
  BY <1>3, Zenon DEF Store, ImportSubscriptions, SelectFeed, UpdateRow, InsertRow, StoreItems,
              FinishSubscription, FindGroup, AssignGroup, Respond, tableVars, ghostVars
<1>4. ASSUME NEW c \in Clients, Manage(c) \/ Crash(c)
      PROVE  UNCHANGED <<groups, twins>>
  BY <1>4 DEF Manage, Crash, CreateGroup, SetFeedGroup, UpdateFeedTitle,
              UpdateFeedAutoFullText, DeleteRow, DeleteEntries, tableVars, ghostVars
<1>5. ASSUME NEW id, CacheSiteIcon(id) \/ NoSiteIcon(id)
      PROVE  UNCHANGED <<groups, twins>>
  BY <1>5 DEF CacheSiteIcon, NoSiteIcon, ghostVars
<1> QED
  BY <1>2, <1>3, <1>4, <1>5 DEF Next, vars, tableVars, ghostVars

LEMMA GroupsInvNext ==
    ASSUME TypeInv, DiscoveryIInv, GroupsInv, [Next]_vars
    PROVE  GroupsInv'
<1>1. ASSUME NEW d \in Clients
      PROVE  Moves(d)
  BY CallMoves
<1>2. CASE UNCHANGED <<groups, twins>>
  <2>1. \A d \in Clients : op'[d].at = "newgroup" =>
            \/ Lower[Current(d).group]' \in twins
            \/ SameName(Current(d).group)' = {}
    BY <1>1, <1>2 DEF Moves, GroupsInv, SameName
  <2> QED
    BY <1>2, <2>1 DEF GroupsInv, GroupsAreDistinct, SameName
<1>3. ASSUME NEW c \in Clients, InsertGroup(c)
      PROVE  GroupsInv'
  <2> DEFINE name == Current(c).group
             others == {d \in Clients \ {c} : op[d].at = "newgroup"
                                              /\ Lower[Current(d).group] = Lower[name]}
  <2>1. /\ op[c].at = "newgroup" /\ groups' = groups \cup {name}
        /\ twins' = IF others = {} THEN twins ELSE twins \cup {Lower[name]}
    BY <1>3 DEF InsertGroup
  <2>2. Lower[name] \in twins \/ {n \in groups : Lower[n] = Lower[name]} = {}
    BY <2>1 DEF GroupsInv, SameName
  <2>3. twins \subseteq twins'
    BY <2>1
  <2> HIDE DEF name
  <2>4. ASSUME NEW g \in groups', NEW h \in groups', Lower[g] = Lower[h]
        PROVE  g = h \/ Lower[g] \in twins'
    BY <2>1, <2>2, <2>3, <2>4 DEF GroupsInv, GroupsAreDistinct
  <2>5. ASSUME NEW d \in Clients, op'[d].at = "newgroup"
        PROVE  \/ Lower[Current(d)'.group] \in twins'
               \/ {n \in groups' : Lower[n] = Lower[Current(d)'.group]} = {}
    <3>1. d # c
      BY <1>3, <2>5, StatementMoves, <2>1
    <3>2. op[d].at = "newgroup" /\ Current(d)' = Current(d)
      <4>1. Moves(d)
        BY <1>1
      <4>2. PICK step, touched : Go(c, step, touched)
        BY <1>3, StatementMoves
      <4>3. op'[d].at = op[d].at
        BY <3>1, <4>2, OthersNote
      <4> QED
        BY <2>5, <4>1, <4>3 DEF Moves
    <3>3. CASE Lower[Current(d).group] = Lower[name]
      <4>1. d \in others
        BY <3>1, <3>2, <3>3 DEF name
      <4> QED
        BY <2>1, <3>2, <3>3, <4>1
    <3>4. CASE Lower[Current(d).group] # Lower[name]
      <4>1. \/ Lower[Current(d).group] \in twins
            \/ {n \in groups : Lower[n] = Lower[Current(d).group]} = {}
        BY <3>2 DEF GroupsInv, SameName
      <4> HIDE DEF others
      <4> QED
        BY <2>1, <2>3, <3>2, <3>4, <4>1
    <3> QED
      BY <3>3, <3>4
  <2> QED
    BY <2>4, <2>5 DEF GroupsInv, GroupsAreDistinct, SameName, Current
<1> QED
  BY <1>2, <1>3, OnlyInsertionsMakeGroups

-----------------------------------------------------------------------------
(***************************************************************************)
(* Articles                                                                *)
(***************************************************************************)
LEMMA ArticlesInvInit == Init => ArticlesInv
<1> SUFFICES ASSUME Init
             PROVE  ArticlesInv
  OBVIOUS
<1>1. /\ promised = {} /\ \A u \in Urls : feed[u] = NoRow
      /\ \A c \in Clients : op[c].at = "idle"
  BY DEF Init, Idle
<1> QED
  BY <1>1 DEF ArticlesInv

\* What a step does to feeds, articles and promises.
FeedsMove ==
    /\ \A u \in Urls : feed'[u] # NoRow =>
          \/ feed[u] # NoRow /\ feed'[u].id = feed[u].id
          \/ feed'[u].id = rows + 1
    /\ cut \subseteq cut'
    /\ \/ articles \subseteq articles'
       \/ \E c \in Clients, u \in Urls : DeleteEntries(c, u)
    /\ \/ promised' = promised
       \/ \E c \in Clients : /\ FinishSubscription(c) /\ Live(Current(c).url, op[c].id)
                             /\ promised' = promised \cup {op[c].id}

LEMMA OneFeedMoves ==
    ASSUME TableTypes, NEW u \in Urls, NEW row, feed' = [feed EXCEPT ![u] = row],
           row # NoRow => row.id = rows + 1 \/ (feed[u] # NoRow /\ row.id = feed[u].id),
           NEW v \in Urls, feed'[v] # NoRow
    PROVE  \/ feed[v] # NoRow /\ feed'[v].id = feed[v].id
           \/ feed'[v].id = rows + 1
<1>1. DOMAIN feed = Urls
  BY DEF TableTypes
<1>2. feed'[v] = IF v = u THEN row ELSE feed[v]
  BY <1>1
<1> QED
  BY <1>2

LEMMA UpdateKeepsId ==
    ASSUME TableTypes, NEW u \in Urls, feed[u] # NoRow, NEW x
    PROVE  /\ [feed[u] EXCEPT !.title = x].id = feed[u].id
           /\ [feed[u] EXCEPT !.group = x].id = feed[u].id
           /\ [feed[u] EXCEPT !.full = x].id = feed[u].id
           /\ [feed[u] EXCEPT !.icon = x].id = feed[u].id
<1> DEFINE old == feed[u]
<1>1. old = [id |-> old.id, title |-> old.title, group |-> old.group,
             full |-> old.full, icon |-> old.icon]
  BY DEF TableTypes
<1> HIDE DEF old
<1>2. /\ [old EXCEPT !.title = x].id = old.id /\ [old EXCEPT !.group = x].id = old.id
      /\ [old EXCEPT !.full = x].id = old.id /\ [old EXCEPT !.icon = x].id = old.id
  BY <1>1
<1> QED
  BY <1>2 DEF old

LEMMA StepMovesFeeds ==
    ASSUME TypeInv, DiscoveryIInv, [Next]_vars
    PROVE  FeedsMove
<1>0. TableTypes /\ \A c \in Clients : OpTyped(op[c])
  BY DEF TypeInv
<1>1. ASSUME UNCHANGED <<feed, articles, ghostVars>>
      PROVE  FeedsMove
  BY <1>1 DEF FeedsMove, ghostVars
<1>2. ASSUME NEW c \in Clients, Subscribe(c)
      PROVE  FeedsMove
  BY <1>1, <1>2, SubscribeIsQuiet DEF Quiet, Discovers, tableVars, ghostVars
\* A step that changes one feed.
<1>3. ASSUME NEW u \in Urls, NEW row, feed' = [feed EXCEPT ![u] = row],
             row # NoRow => row.id = rows + 1 \/ (feed[u] # NoRow /\ row.id = feed[u].id),
             UNCHANGED <<articles, ghostVars>>
      PROVE  FeedsMove
  BY <1>0, <1>3, OneFeedMoves DEF FeedsMove, ghostVars
<1>4. ASSUME NEW c \in Clients, op[c].at \in {"write", "finish", "items"}
      PROVE  Current(c).url \in Urls
  BY <1>4, StoreBefore DEF Steps
<1>5. ASSUME NEW c \in Clients, UpdateRow(c)
      PROVE  FeedsMove
  <2> DEFINE u == Current(c).url
             new == [feed[u] EXCEPT !.title = Current(c).title]
  <2>1. /\ u \in Urls /\ UNCHANGED <<articles, ghostVars>>
        /\ feed' = feed \/ (feed[u] # NoRow /\ feed' = [feed EXCEPT ![u] = new])
    BY <1>4, <1>5 DEF UpdateRow, Live
  <2>2. feed[u] # NoRow => new.id = feed[u].id
    BY <1>0, <2>1, UpdateKeepsId
  <2> HIDE DEF new, u
  <2> QED
    BY <1>1, <1>3, <2>1, <2>2
<1>6. ASSUME NEW c \in Clients, InsertRow(c)
      PROVE  FeedsMove
  <2> DEFINE u == Current(c).url
             new == [id |-> rows + 1, title |-> Current(c).title, group |-> NULL,
                     full |-> TRUE, icon |-> NULL]
  <2>1. /\ u \in Urls /\ UNCHANGED <<articles, ghostVars>>
        /\ feed' = feed \/ feed' = [feed EXCEPT ![u] = new]
    BY <1>4, <1>6 DEF InsertRow
  <2>2. new.id = rows + 1
    OBVIOUS
  <2> HIDE DEF new, u
  <2> QED
    BY <1>1, <1>3, <2>1, <2>2
<1>7. ASSUME NEW c \in Clients, StoreItems(c)
      PROVE  FeedsMove
  BY <1>7 DEF StoreItems, FeedsMove, ghostVars
<1>8. ASSUME NEW c \in Clients, FinishSubscription(c)
      PROVE  FeedsMove
  <2> DEFINE u == Current(c).url
             new == [feed[u] EXCEPT !.icon = "url"]
  <2>1. /\ u \in Urls /\ UNCHANGED <<articles, cut>>
        /\ feed' = feed \/ (feed[u] # NoRow /\ feed' = [feed EXCEPT ![u] = new])
        /\ promised' = promised
              \/ (Live(u, op[c].id) /\ promised' = promised \cup {op[c].id})
    BY <1>4, <1>8 DEF FinishSubscription, Live
  <2>2. feed[u] # NoRow => new.id = feed[u].id
    BY <1>0, <2>1, UpdateKeepsId
  <2>3. ASSUME NEW v \in Urls, feed'[v] # NoRow
        PROVE  \/ feed[v] # NoRow /\ feed'[v].id = feed[v].id
               \/ feed'[v].id = rows + 1
    <3> HIDE DEF new, u
    <3> QED
      BY <1>0, <2>1, <2>2, <2>3, OneFeedMoves
  <2> QED
    BY <1>8, <2>1, <2>3 DEF FeedsMove
<1>9. ASSUME NEW c \in Clients, AssignGroup(c)
      PROVE  FeedsMove
  <2> DEFINE u == Current(c).url
             new == [feed[u] EXCEPT !.group = op[c].group]
  <2>0. op[c].at = "member" /\ op[c].at \in Steps
    BY <1>9 DEF AssignGroup, Steps
  <2>1. /\ UNCHANGED <<articles, ghostVars>>
        /\ feed' = feed \/ (u # NULL /\ feed[u] # NoRow /\ feed' = [feed EXCEPT ![u] = new])
    BY <1>9 DEF AssignGroup, Live
  <2>2. u \in Urls \cup {NULL}
    <3>1. op[c].done + 1 \in DOMAIN op[c].all /\ StoreTyped(op[c])
      BY <2>0, StoreBefore
    <3> QED
      BY <3>1 DEF StoreTyped, Current
  <2>3. u # NULL /\ feed[u] # NoRow => new.id = feed[u].id
    BY <1>0, <2>2, UpdateKeepsId
  <2> HIDE DEF new, u
  <2> QED
    BY <1>1, <1>3, <2>1, <2>2, <2>3
<1>10. ASSUME NEW c \in Clients, Store(c)
       PROVE  FeedsMove
  <2>1. ASSUME \/ SelectFeed(c) \/ FindGroup(c) \/ InsertGroup(c) \/ Respond(c)
               \/ \E document \in Documents \cup {ExportSubscriptions} :
                     ImportSubscriptions(c, document)
        PROVE  FeedsMove
    <3>1. UNCHANGED <<feed, articles, promised, cut>>
      BY <2>1, Zenon DEF SelectFeed, FindGroup, InsertGroup, Respond, ImportSubscriptions,
                  tableVars, ghostVars
    <3> QED
      BY <3>1 DEF FeedsMove
  <2> QED
    BY <1>5, <1>6, <1>7, <1>8, <1>9, <1>10, <2>1 DEF Store
<1>11. ASSUME NEW c \in Clients, NEW u \in Urls, NEW group, SetFeedGroup(c, u, group)
       PROVE  FeedsMove
  <2> DEFINE new == [feed[u] EXCEPT !.group = group]
  <2>1. /\ UNCHANGED <<articles, ghostVars>> /\ feed[u] # NoRow
        /\ feed' = [feed EXCEPT ![u] = new]
    BY <1>11 DEF SetFeedGroup
  <2>2. new.id = feed[u].id
    BY <1>0, <2>1, UpdateKeepsId
  <2> HIDE DEF new
  <2> QED
    BY <1>3, <2>1, <2>2
<1>12. ASSUME NEW c \in Clients, NEW u \in Urls, NEW title, NEW full,
              UpdateFeedTitle(c, u, title, full)
       PROVE  FeedsMove
  <2> DEFINE new == [feed[u] EXCEPT !.title = title]
  <2>1. /\ UNCHANGED <<articles, ghostVars>> /\ feed[u] # NoRow
        /\ feed' = [feed EXCEPT ![u] = new]
    BY <1>12 DEF UpdateFeedTitle
  <2>2. new.id = feed[u].id
    BY <1>0, <2>1, UpdateKeepsId
  <2> HIDE DEF new
  <2> QED
    BY <1>3, <2>1, <2>2
<1>13. ASSUME NEW c \in Clients, UpdateFeedAutoFullText(c) \/ DeleteRow(c)
       PROVE  FeedsMove
  <2> DEFINE u == op[c].url
             new == [feed[u] EXCEPT !.full = op[c].full]
  <2>1. /\ UNCHANGED <<articles, ghostVars>> /\ u \in Urls
        /\ \/ feed' = feed
           \/ feed[u] # NoRow /\ feed' = [feed EXCEPT ![u] = new]
           \/ feed' = [feed EXCEPT ![u] = NoRow]
    BY <1>0, <1>13 DEF UpdateFeedAutoFullText, DeleteRow, Live, OpTyped
  <2>2. feed[u] # NoRow => new.id = feed[u].id
    BY <1>0, <2>1, UpdateKeepsId
  <2> HIDE DEF new, u
  <2> QED
    BY <1>1, <1>3, <2>1, <2>2
<1>14. ASSUME NEW c \in Clients, NEW u \in Urls, DeleteEntries(c, u)
       PROVE  FeedsMove
  BY <1>14 DEF DeleteEntries, FeedsMove, ghostVars
<1>15. ASSUME NEW c \in Clients, Crash(c)
       PROVE  FeedsMove
  BY <1>15 DEF Crash, FeedsMove, tableVars
<1>16. ASSUME NEW c \in Clients, Manage(c)
       PROVE  FeedsMove
  BY <1>1, <1>11, <1>12, <1>13, <1>14, <1>16 DEF Manage, CreateGroup, tableVars
<1>17. ASSUME NEW id, CacheSiteIcon(id) \/ NoSiteIcon(id)
       PROVE  FeedsMove
  <2>1. /\ UNCHANGED <<articles, ghostVars>>
        /\ \/ feed' = feed
           \/ feed' = [u \in Urls |-> IF Live(u, id) THEN [feed[u] EXCEPT !.icon = "asset"]
                                       ELSE feed[u]]
    BY <1>17 DEF CacheSiteIcon, NoSiteIcon
  <2>2. ASSUME NEW u \in Urls, feed'[u] # NoRow
        PROVE  feed[u] # NoRow /\ feed'[u].id = feed[u].id
    <3>1. CASE feed'[u] = feed[u]
      BY <2>2, <3>1
    <3>2. CASE feed[u] # NoRow /\ feed'[u] = [feed[u] EXCEPT !.icon = "asset"]
      BY <1>0, <3>2, UpdateKeepsId
    <3>3. feed'[u] = feed[u] \/ (feed[u] # NoRow /\ feed'[u] = [feed[u] EXCEPT !.icon = "asset"])
      BY <2>1 DEF Live
    <3> QED
      BY <3>1, <3>2, <3>3
  <2> QED
    BY <2>1, <2>2 DEF FeedsMove, ghostVars
<1> QED
  BY <1>1, <1>2, <1>10, <1>15, <1>16, <1>17 DEF Next, vars, tableVars

LEMMA RowsGrow ==
    ASSUME TypeInv, DiscoveryIInv, [Next]_vars
    PROVE  rows <= rows'
<1>1. rows \in Nat
  BY DEF TypeInv, TableTypes
<1>2. ASSUME NEW c \in Clients, Subscribe(c)
      PROVE  rows' = rows
  BY <1>2, SubscribeIsQuiet DEF Quiet, Discovers, tableVars
<1>3. ASSUME NEW c \in Clients, Store(c)
      PROVE  rows' \in {rows, rows + 1}
  BY <1>3, Zenon DEF Store, ImportSubscriptions, SelectFeed, UpdateRow, InsertRow, StoreItems,
              FinishSubscription, FindGroup, InsertGroup, AssignGroup, Respond, tableVars
<1>4. ASSUME NEW c \in Clients, Manage(c) \/ Crash(c)
      PROVE  rows' = rows
  BY <1>4 DEF Manage, Crash, CreateGroup, SetFeedGroup, UpdateFeedTitle,
              UpdateFeedAutoFullText, DeleteRow, DeleteEntries, tableVars
<1>5. ASSUME NEW id, CacheSiteIcon(id) \/ NoSiteIcon(id)
      PROVE  rows' = rows
  BY <1>5 DEF CacheSiteIcon, NoSiteIcon
<1>6. rows' \in {rows, rows + 1}
  BY <1>2, <1>3, <1>4, <1>5 DEF Next, vars, tableVars
<1> QED
  BY <1>1, <1>6

\* Articles stay with their feed unless it is deleted.
LEMMA StockedStays ==
    ASSUME TypeInv, DiscoveryIInv, ArticlesInv, [Next]_vars, NEW id, Stocked(id)
    PROVE  Stocked(id)' \/ \A u \in Urls : ~Live(u, id)'
<1>1. FeedsMove /\ \A c \in Clients : Moves(c)
  BY StepMovesFeeds, CallMoves
<1>2. CASE id \in articles
  <2>1. CASE articles \subseteq articles'
    BY <1>2, <2>1 DEF Stocked
  <2>2. ASSUME NEW c \in Clients, NEW u \in Urls, DeleteEntries(c, u)
        PROVE  Stocked(id)'
    <3> DEFINE step == [at |-> "row", url |-> u, id |-> feed[u].id]
    <3>1. Go(c, step, {u}) /\ articles' = articles \ {feed[u].id}
      BY <2>2 DEF DeleteEntries
    <3>2. step.at = "row" /\ step.id = feed[u].id
      OBVIOUS
    <3> HIDE DEF step
    <3>3. op'[c] = step
      BY <3>1, GoFrame
    <3> QED
      BY <1>2, <3>1, <3>2, <3>3 DEF Stocked
  <2> QED
    BY <1>1, <2>1, <2>2 DEF FeedsMove
<1>3. CASE id \in cut
  BY <1>1, <1>3 DEF FeedsMove, Stocked
<1>4. ASSUME NEW c \in Clients, op[c].at = "row", op[c].id = id
      PROVE  Stocked(id)' \/ \A u \in Urls : ~Live(u, id)'
  <2>1. CASE op'[c] = op[c]
    BY <1>4, <2>1 DEF Stocked
  <2>2. CASE DeleteRow(c)
    <3>1. /\ feed' = IF Live(op[c].url, id) THEN [feed EXCEPT ![op[c].url] = NoRow] ELSE feed
          /\ \A u \in Urls : Live(u, id) => u = op[c].url
          /\ DOMAIN feed = Urls
      BY <1>4, <2>2 DEF DeleteRow, ArticlesInv, TypeInv, TableTypes
    <3>2. ASSUME NEW u \in Urls
          PROVE  ~Live(u, id)'
      <4>1. CASE u = op[c].url /\ Live(u, id)
        <5>1. feed'[u] = NoRow
          BY <3>1, <4>1
        <5> QED
          BY <5>1 DEF Live
      <4>2. CASE ~Live(u, id)
        <5>1. feed'[u] = feed[u] \/ feed'[u] = NoRow
          BY <3>1
        <5> QED
          BY <4>2, <5>1 DEF Live
      <4> QED
        BY <3>1, <4>1, <4>2
    <3> QED
      BY <3>2
  <2>3. CASE Crash(c)
    BY <1>4, <2>3 DEF Crash, Stocked
  <2> QED
    BY <1>1, <1>4, <2>1, <2>2, <2>3 DEF Moves
<1> QED
  BY <1>2, <1>3, <1>4 DEF Stocked

LEMMA ArticlesInvNext ==
    ASSUME TypeInv, TypeInv', DiscoveryIInv, ArticlesInv, [Next]_vars
    PROVE  ArticlesInv'
<1>1. FeedsMove /\ \A c \in Clients : Moves(c)
  BY StepMovesFeeds, CallMoves
<1>2. /\ rows \in Nat /\ rows' \in Nat /\ rows + 1 \notin 1 .. rows
      /\ \A u \in Urls : feed[u] # NoRow => feed[u].id \in 1 .. rows
      /\ \A u \in Urls : feed'[u] # NoRow => feed'[u].id \in 1 .. rows'
      /\ \A c \in Clients : op[c].at \in {"finish", "row"} => op[c].id \in 1 .. rows
  BY DEF TypeInv, TableTypes, OpTyped, StoreTyped, Steps
<1>3. promised' \subseteq 1 .. rows
  <2>1. promised \subseteq 1 .. rows
    BY DEF ArticlesInv
  <2>2. ASSUME NEW c \in Clients, FinishSubscription(c), promised' = promised \cup {op[c].id}
        PROVE  promised' \subseteq 1 .. rows
    <3>1. op[c].id \in 1 .. rows
      BY <1>2, <2>2 DEF FinishSubscription
    <3> QED
      BY <2>1, <2>2, <3>1
  <2> QED
    BY <1>1, <2>1, <2>2 DEF FeedsMove
\* A feed that is there under an id that was given before was there before.
<1>4. ASSUME NEW u \in Urls, NEW id \in 1 .. rows, Live(u, id)'
      PROVE  Live(u, id)
  BY <1>1, <1>2, <1>4 DEF FeedsMove, Live
<1>5. promised' \subseteq 1 .. rows'
  BY <1>1, <1>2, <1>3, RowsGrow
<1>6. ASSUME NEW u \in Urls, feed'[u] # NoRow, feed'[u].id \in promised'
      PROVE  Stocked(feed[u].id)'
  <2>1. PICK id : id = feed'[u].id
    OBVIOUS
  <2>2. id \in 1 .. rows /\ Live(u, id)' /\ id \in promised'
    BY <1>3, <1>6, <2>1 DEF Live
  <2>3. Live(u, id)
    BY <1>4, <2>2
  <2>4. Stocked(id)
    <3>1. CASE id \in promised
      BY <2>3, <3>1 DEF ArticlesInv, Live
    <3>2. CASE id \notin promised
      <4>1. PICK c \in Clients : /\ FinishSubscription(c) /\ Live(Current(c).url, op[c].id)
                                 /\ promised' = promised \cup {op[c].id}
        BY <1>1, <2>2, <3>2 DEF FeedsMove
      <4>2. op[c].id = id /\ op[c].at = "finish"
        BY <2>2, <3>2, <4>1 DEF FinishSubscription
      <4> QED
        BY <4>1, <4>2 DEF ArticlesInv
    <3> QED
      BY <3>1, <3>2
  <2>5. Stocked(id)' \/ ~Live(u, id)'
    BY <2>4, StockedStays
  <2> QED
    BY <2>1, <2>2, <2>5 DEF Stocked, Live
<1>7. ASSUME NEW c \in Clients, op'[c].at = "finish"
      PROVE  Stocked(op[c].id)' \/ ~Live(Current(c).url, op[c].id)'
  <2>1. Current(c)' = Current(c) /\ op'[c].id = op[c].id
    BY <1>1, <1>7 DEF Moves
  <2>2. CASE StoreItems(c)
    BY <2>1, <2>2 DEF StoreItems, Stocked
  <2>3. CASE op[c].at = "finish"
    <3>1. op[c].id \in 1 .. rows /\ Current(c).url \in Urls
      BY <1>2, <2>3, StoreBefore DEF Steps
    <3>2. PICK id, u : id = op[c].id /\ u = Current(c).url
      OBVIOUS
    <3>3. Stocked(id) \/ ~Live(u, id)
      BY <2>3, <3>2 DEF ArticlesInv
    <3>4. Stocked(id)' \/ ~Live(u, id)'
      BY <1>4, <3>1, <3>2, <3>3, StockedStays
    <3> QED
      BY <2>1, <3>2, <3>4 DEF Stocked, Live
  <2> QED
    BY <1>1, <1>7, <2>2, <2>3 DEF Moves
<1>8. ASSUME NEW c \in Clients, op'[c].at = "row", NEW u \in Urls, Live(u, op[c].id)'
      PROVE  u = op'[c].url
  <2>1. CASE op'[c] = op[c]
    <3>1. PICK id : id = op[c].id
      OBVIOUS
    <3>2. id \in 1 .. rows /\ Live(u, id)' /\ op[c].at = "row"
      BY <1>2, <1>8, <2>1, <3>1 DEF Live
    <3>3. Live(u, op[c].id)
      BY <1>4, <3>1, <3>2
    <3> QED
      BY <2>1, <3>2, <3>3 DEF ArticlesInv
  <2>2. ASSUME NEW v \in Urls, DeleteEntries(c, v), op'[c].url = v, op'[c].id = feed[v].id
        PROVE  u = v
    BY <1>8, <2>2 DEF DeleteEntries, Live, TypeInv, TableTypes
  <2> QED
    BY <1>1, <1>8, <2>1, <2>2 DEF Moves
<1> QED
  BY <1>5, <1>6, <1>7, <1>8 DEF ArticlesInv

\* ArticlesInv says more than what is promised.
LEMMA ArticlesAreThere == ArticlesInv => ArticlesAtOnce
  BY DEF ArticlesInv, ArticlesAtOnce, Stocked

-----------------------------------------------------------------------------
(***************************************************************************)
(* Imports                                                                 *)
(***************************************************************************)
LEMMA ImportInvInit == Init => ImportInv
  BY DEF Init, ImportInv, Idle, Steps

\* How far a call is, counted in rows.
LEMMA ReachedIsNext ==
    ASSUME NEW o, o.done \in Nat
    PROVE  /\ Reached(o) \in {o.done, o.done + 1} /\ Reached(o) \in Nat
           /\ o.at \in {"select", "write", "return"} => Reached(o) = o.done
           /\ o.at \notin {"select", "write", "return"} => Reached(o) = o.done + 1
  BY DEF Reached

\* What is left of a feed where a row of it was stored.
SameFeed(u) ==
    /\ feed[u] # NoRow => feed'[u] # NoRow /\ feed'[u].id = feed[u].id
                          /\ feed'[u].title = feed[u].title /\ feed'[u].group = feed[u].group
    /\ feed[u] = NoRow => feed'[u] = NoRow

\* The feed of a row is as it was stored, or a later row of the same call wrote it.
StillThere(o, p, n) ==
    \/ o.all[n].url \in p.moved \cup {NULL}
    \/ feed[o.all[n].url] = NoRow
    \/ /\ feed'[o.all[n].url] # NoRow
       /\ \/ feed'[o.all[n].url].title = feed[o.all[n].url].title
          \/ \E r \in Overwritten(o, n, Reached(p)) : r.title # NULL
       /\ \/ feed'[o.all[n].url].group = feed[o.all[n].url].group
          \/ \E r \in Overwritten(o, n, p.done) : r.group \notin {NULL, Blank}

\* A row that was stored still is, unless a later one or another call wrote its feed.
LEMMA RowStaysKept ==
    ASSUME NEW o, NEW p, StoreTyped(o), p.all = o.all, o.moved \subseteq p.moved,
           p.done \in 0 .. Len(o.all), o.done <= p.done, Reached(o) <= Reached(p),
           groups \subseteq groups', NEW n \in 1 .. o.done, RowKept(o, n),
           StillThere(o, p, n)
    PROVE  RowKept(p, n)'
<1> DEFINE u == o.all[n].url
<1>1. /\ o.done \in Nat /\ p.done \in Nat /\ Reached(o) \in Nat /\ Reached(p) \in Nat
  <2>1. o.done \in Nat /\ p.done \in Nat
    BY DEF StoreTyped
  <2> QED
    BY <2>1, ReachedIsNext
<1>2. Overwritten(p, n, Reached(p)) = Overwritten(o, n, Reached(p))
      /\ Overwritten(p, n, p.done) = Overwritten(o, n, p.done)
  BY DEF Overwritten
<1>3. /\ Overwritten(o, n, Reached(o)) \subseteq Overwritten(o, n, Reached(p))
      /\ Overwritten(o, n, o.done) \subseteq Overwritten(o, n, p.done)
  <2> DEFINE from == Reached(o)
             to == Reached(p)
  <2>1. from \in Nat /\ to \in Nat /\ from <= to /\ n \in Nat
    BY <1>1
  <2> HIDE DEF from, to
  <2>2. n + 1 .. from \subseteq n + 1 .. to
    BY <2>1
  <2>3. n + 1 .. o.done \subseteq n + 1 .. p.done
    BY <1>1, <2>1
  <2> QED
    BY <2>2, <2>3 DEF Overwritten, from, to
<1>4. \A name : SameName(name) \subseteq SameName(name)'
  BY DEF SameName
<1>5. CASE u \in p.moved
  BY <1>5 DEF RowKept
<1>6. CASE u = NULL /\ u \notin p.moved
  BY <1>4, <1>6 DEF RowKept
<1>7. CASE u # NULL /\ u \notin p.moved
  <2>1. RowStored(o, n)
    BY <1>7 DEF RowKept
  <2> DEFINE row == o.all[n]
             over == Overwritten(p, n, Reached(p))
             grouped == Overwritten(p, n, p.done)
  <2>2. feed[u] # NoRow /\ feed'[u] # NoRow
    BY <1>7, <2>1 DEF RowStored, StillThere
  <2>3. \/ row.title \in {NULL, feed'[u].title}
        \/ \E r \in over : r.title # NULL
    BY <1>2, <1>3, <1>7, <2>1, <2>2 DEF RowStored, StillThere
  <2>4. \/ row.group \in {NULL, Blank}
        \/ feed'[u].group \in SameName(row.group)'
        \/ \E r \in grouped : r.group \notin {NULL, Blank}
    BY <1>2, <1>3, <1>4, <1>7, <2>1, <2>2 DEF RowStored, StillThere
  <2>5. over = Overwritten(p, n, Reached(p))' /\ grouped = Overwritten(p, n, p.done)'
    BY DEF Overwritten, Reached
  <2>6. RowStored(p, n)'
    <3> HIDE DEF over, grouped
    <3> QED
      BY <2>2, <2>3, <2>4, <2>5 DEF RowStored
  <2> QED
    BY <1>7, <2>6 DEF RowKept
<1> QED
  BY <1>5, <1>6, <1>7

LEMMA ReadyByValue ==
    ASSUME NEW d, NEW p, p = op'[d], \A n \in 1 .. p.done : RowKept(p, n)', StepReady(p)'
    PROVE  /\ \A n \in 1 .. op'[d].done : RowKept(op[d], n)'
           /\ StepReady(op[d])'
<1>1. ASSUME NEW n \in 1 .. op'[d].done
      PROVE  RowKept(op[d], n)'
  <2>1. RowKept(p, n)'
    OBVIOUS
  <2>2. /\ Overwritten(op[d], n, Reached(op[d]))' = Overwritten(p, n, Reached(p))'
        /\ Overwritten(op[d], n, op[d].done)' = Overwritten(p, n, p.done)'
    BY DEF Overwritten, Reached
  <2>3. RowStored(p, n)' => RowStored(op[d], n)'
    BY <2>2, Zenon DEF RowStored, SameName
  <2> QED
    BY <2>1, <2>3, Zenon DEF RowKept, SameName
<1>2. StepReady(op[d])'
  BY Zenon DEF StepReady, TheRow, Live
<1> QED
  BY <1>1, <1>2

\* The rows that others store, and what they are about to do, stand a step of c that
\* changes the feeds and groups in touched.
LEMMA OthersStayReady ==
    ASSUME TypeInv, ImportInv, NEW c \in Clients, NEW step, NEW touched,
           Go(c, step, touched), groups \subseteq groups', groups' \subseteq groups \cup touched,
           \A u \in Urls : u \in touched \/ SameFeed(u),
           NEW d \in Clients \ {c}, op[d].at \in Steps
    PROVE  /\ \A n \in 1 .. op'[d].done : RowKept(op[d], n)'
           /\ StepReady(op[d])'
<1> DEFINE noted == touched \cap Stores(d)
<1>1. PICK o, p : o = op[d] /\ p = op'[d]
  OBVIOUS
<1>2. /\ p.at = o.at /\ p.all = o.all /\ p.done = o.done /\ p.id = o.id /\ p.group = o.group
      /\ p.moved = o.moved \cup noted
  BY <1>1, OthersNote
<1>3. StoreTyped(o) /\ o.done \in 0 .. Len(o.all) /\ DOMAIN o.all = 1 .. Len(o.all)
      /\ Len(o.all) \in Nat
  BY <1>1 DEF TypeInv, OpTyped, StoreTyped
<1>4. \A n \in DOMAIN o.all : \A x \in {o.all[n].url, o.all[n].group} \cap touched : x \in p.moved
  BY <1>1, <1>2 DEF Stores
<1>5. \A n \in DOMAIN o.all : o.all[n].url \in p.moved \cup {NULL}
                              \/ (o.all[n].url \in Urls /\ SameFeed(o.all[n].url))
  BY <1>3, <1>4 DEF StoreTyped
<1>6. ASSUME NEW n \in 1 .. o.done
      PROVE  RowKept(p, n)'
  <2>1. RowKept(o, n)
    BY <1>1 DEF ImportInv
  <2>2. n \in DOMAIN o.all
    BY <1>3
  <2>3. StillThere(o, p, n)
    BY <1>5, <2>2 DEF SameFeed, StillThere
  <2>4. /\ Reached(p) = Reached(o) /\ Reached(o) <= Reached(p) /\ o.done <= p.done
        /\ o.moved \subseteq p.moved /\ p.done \in 0 .. Len(o.all)
    <3>1. o.done \in Nat
      BY <1>3
    <3>2. Reached(o) \in Nat /\ Reached(p) = Reached(o)
      BY <1>2, <3>1, ReachedIsNext DEF Reached
    <3> QED
      BY <1>2, <1>3, <3>1, <3>2
  <2> HIDE DEF noted
  <2> QED
    BY <1>2, <1>3, <2>1, <2>3, <2>4, RowStaysKept
<1>7. StepReady(p)'
  <2>1. StepReady(o)
    BY <1>1 DEF ImportInv
  <2>2. o.at # "return" => o.done + 1 \in DOMAIN o.all
    BY <1>3 DEF StoreTyped
  <2>3. TheRow(p) = TheRow(o) /\ TheRow(p)' = TheRow(o)
    BY <1>2 DEF TheRow
  <2> DEFINE u == TheRow(o).url
  <2>4. o.at # "return" => u \in p.moved \cup {NULL} \/ SameFeed(u)
    BY <1>5, <2>2 DEF TheRow
  <2>5. o.at # "return" => (TheRow(o).group \in touched => TheRow(o).group \in p.moved)
    BY <1>4, <2>2 DEF TheRow
  <2>6. o.at = "write" => u # NULL
    BY <1>3, <2>2 DEF StoreTyped, TheRow
  <2> HIDE DEF noted, u
  <2>7. p.at = "write" =>
          \/ u \in p.moved
          \/ IF p.id = NULL THEN feed'[u] = NoRow ELSE Live(u, p.id)'
    BY <1>2, <2>1, <2>4, <2>6 DEF StepReady, SameFeed, Live, u
  <2>8. p.at \in {"items", "finish", "group", "newgroup", "member"} =>
          \/ u \in p.moved \cup {NULL}
          \/ /\ Live(u, p.id)'
             /\ TheRow(o).title \in {NULL, feed'[u].title}
    BY <1>2, <2>1, <2>4 DEF StepReady, SameFeed, Live, u
  <2>9. p.at = "newgroup" => TheRow(o).group \notin groups' \ p.moved
    BY <1>2, <2>1, <2>5 DEF StepReady
  <2>10. p.at = "failed" => {u, TheRow(o).group} \cap p.moved # {}
    BY <1>2, <2>1 DEF StepReady, u
  <2> QED
    BY <2>3, <2>7, <2>8, <2>9, <2>10 DEF StepReady, u, Live
<1> QED
  BY <1>1, <1>2, <1>6, <1>7, ReadyByValue

\* A step of one call: what it makes of that call is left to show.
LEMMA ImportStep ==
    ASSUME TypeInv, ImportInv, NEW c \in Clients, NEW step, NEW touched,
           Go(c, step, touched), groups \subseteq groups', groups' \subseteq groups \cup touched,
           \A u \in Urls : u \in touched \/ SameFeed(u),
           step.at \in Steps =>
               (\A n \in 1 .. step.done : RowKept(step, n)') /\ StepReady(step)'
    PROVE  ImportInv'
<1>1. ASSUME NEW d \in Clients, op'[d].at \in Steps
      PROVE  /\ \A n \in 1 .. op'[d].done : RowKept(op[d], n)'
             /\ StepReady(op[d])'
  <2>1. CASE d = c
    <3>1. step = op'[d]
      BY <2>1, GoFrame
    <3> QED
      BY <1>1, <3>1, ReadyByValue
  <2>2. CASE d # c
    BY <1>1, <2>2, OthersNote, OthersStayReady
  <2> QED
    BY <2>1, <2>2
<1> QED
  BY <1>1 DEF ImportInv

LEMMA FeedIsSame ==
    ASSUME NEW u, feed'[u] = feed[u]
    PROVE  SameFeed(u)
  BY DEF SameFeed

\* A call that does not store rows, or has just begun to.
LEMMA QuietKeepsImports ==
    ASSUME TypeInv, ImportInv, NEW c \in Clients, NEW step, Quiet(c, step)
    PROVE  ImportInv'
<1>1. /\ Go(c, step, {}) /\ groups' = groups /\ feed' = feed
      /\ \/ step.at \in {"idle", "probe", "discovering"}
         \/ step.at = "select" /\ step.done = 0
         \/ step.at = "group" /\ step.done = 0 /\ TheRow(step).url = NULL
  BY DEF Quiet
<1>2. step.at \in Steps =>
          (\A n \in 1 .. step.done : RowKept(step, n)') /\ StepReady(step)'
  <2>1. step.at \in Steps => step.done = 0
    BY <1>1 DEF Steps
  <2>2. step.at \in Steps => StepReady(step)'
    BY <1>1 DEF StepReady, Steps, TheRow
  <2> QED
    BY <2>1, <2>2
<1>3. \A u \in Urls : SameFeed(u)
  BY <1>1, FeedIsSame
<1> QED
  BY <1>1, <1>2, <1>3, ImportStep

\* The calls that change or delete feeds.
LEMMA ManageKeepsImports ==
    ASSUME TypeInv, ImportInv, NEW c \in Clients,
           \/ \E u \in Urls, group \in groups \cup {NULL} : SetFeedGroup(c, u, group)
           \/ \E u \in Urls, title \in Titles, full \in {NULL, FALSE} :
                 UpdateFeedTitle(c, u, title, full)
           \/ UpdateFeedAutoFullText(c)
           \/ DeleteRow(c)
           \/ \E u \in Urls : DeleteEntries(c, u)
           \/ Crash(c)
    PROVE  ImportInv'
<1>1. TableTypes /\ DOMAIN feed = Urls /\ OpTyped(op[c]) /\ groups' = groups
  BY DEF TypeInv, TableTypes, SetFeedGroup, UpdateFeedTitle, UpdateFeedAutoFullText, DeleteRow,
         DeleteEntries, Crash, tableVars
<1>2. ASSUME NEW u \in Urls, NEW row, feed' = [feed EXCEPT ![u] = row],
             NEW step, Go(c, step, {u}), step.at \notin Steps
      PROVE  ImportInv'
  <2>1. \A v \in Urls \ {u} : SameFeed(v)
    BY <1>1, <1>2, FeedIsSame
  <2> QED
    BY <1>1, <1>2, <2>1, ImportStep
<1>3. Idle.at \notin Steps
  BY DEF Idle, Steps
<1>4. ASSUME NEW u \in Urls, NEW group, SetFeedGroup(c, u, group)
      PROVE  ImportInv'
  <2> DEFINE row == [feed[u] EXCEPT !.group = group]
  <2>1. Go(c, Idle, {u}) /\ feed' = [feed EXCEPT ![u] = row]
    BY <1>4 DEF SetFeedGroup, Return
  <2> HIDE DEF row
  <2> QED
    BY <1>2, <1>3, <2>1
<1>5. ASSUME NEW u \in Urls, NEW title, NEW full, UpdateFeedTitle(c, u, title, full)
      PROVE  ImportInv'
  <2> DEFINE row == [feed[u] EXCEPT !.title = title]
             step == IF full = NULL THEN Idle
                     ELSE [at |-> "full", url |-> u, id |-> feed[u].id, full |-> full]
  <2>1. Go(c, step, {u}) /\ feed' = [feed EXCEPT ![u] = row]
    BY <1>5 DEF UpdateFeedTitle
  <2>2. step.at \notin Steps
    BY DEF Steps, Idle
  <2> HIDE DEF row, step
  <2> QED
    BY <1>2, <2>1, <2>2
<1>6. ASSUME \A u \in Urls : SameFeed(u), NEW step, NEW touched, Go(c, step, touched),
             step.at \notin Steps
      PROVE  ImportInv'
  BY <1>1, <1>6, ImportStep
<1>7. CASE UpdateFeedAutoFullText(c)
  <2> DEFINE u == op[c].url
             old == feed[u]
             new == [old EXCEPT !.full = op[c].full]
  <2>1. /\ Go(c, Idle, {}) /\ u \in Urls
        /\ feed' = feed \/ (old # NoRow /\ feed' = [feed EXCEPT ![u] = new])
    BY <1>1, <1>7 DEF UpdateFeedAutoFullText, Return, Live, OpTyped
  <2>2. old # NoRow => /\ new.id = old.id /\ new.title = old.title /\ new.group = old.group
                       /\ new # NoRow
    <3>1. old # NoRow => /\ old = [id |-> old.id, title |-> old.title, group |-> old.group,
                                   full |-> old.full, icon |-> old.icon]
                         /\ old.id # 0
      BY <1>1, <2>1 DEF TableTypes
    <3> HIDE DEF u, old
    <3>2. old # NoRow => /\ new.id = old.id /\ new.title = old.title /\ new.group = old.group
                         /\ old.id # 0
      BY <3>1
    <3> HIDE DEF new
    <3> QED
      BY <3>2 DEF NoRow
  <2>3. \A v \in Urls : SameFeed(v)
    <3> HIDE DEF new
    <3>1. \A v \in Urls : feed'[v] = feed[v] \/ (v = u /\ old # NoRow /\ feed'[v] = new)
      BY <1>1, <2>1
    <3> QED
      BY <2>2, <3>1 DEF SameFeed
  <2> QED
    BY <1>3, <1>6, <2>1, <2>3
<1>8. CASE DeleteRow(c)
  <2> DEFINE none == NoRow
             u == op[c].url
  <2>1. /\ Go(c, Idle, {u}) /\ u \in Urls
        /\ feed' = feed \/ feed' = [feed EXCEPT ![u] = none]
    BY <1>1, <1>8 DEF DeleteRow, Return, OpTyped
  <2> HIDE DEF none, u
  <2>2. feed' = feed => \A v \in Urls : SameFeed(v)
    BY FeedIsSame
  <2> QED
    BY <1>2, <1>3, <1>6, <2>1, <2>2
<1>9. ASSUME NEW u \in Urls, DeleteEntries(c, u)
      PROVE  ImportInv'
  <2> DEFINE step == [at |-> "row", url |-> u, id |-> feed[u].id]
  <2>1. Go(c, step, {u}) /\ step.at \notin Steps /\ feed' = feed
    BY <1>9 DEF DeleteEntries, Steps
  <2> HIDE DEF step
  <2>2. \A v \in Urls : SameFeed(v)
    BY <2>1, FeedIsSame
  <2> QED
    BY <1>6, <2>1, <2>2
<1>10. CASE Crash(c)
  <2>1. Go(c, Idle, {}) /\ feed' = feed
    BY <1>10 DEF Crash, Return, tableVars
  <2>2. \A v \in Urls : SameFeed(v)
    BY <2>1, FeedIsSame
  <2> QED
    BY <1>3, <1>6, <2>1, <2>2
<1> QED
  BY <1>4, <1>5, <1>7, <1>8, <1>9, <1>10

\* A call that stores rows, before a statement of an import: what it has stored, and the row
\* in progress.
LEMMA ImportBefore ==
    ASSUME TypeInv, ImportInv, NEW c \in Clients, op[c].at \in Steps,
           op[c].at # "return", NEW o, o = op[c]
    PROVE  /\ StoreTyped(o) /\ StoreShape(o) /\ Current(c) = TheRow(o)
           /\ o.done \in Nat /\ o.done + 1 \in DOMAIN o.all /\ o.done \in 0 .. Len(o.all)
           /\ o.done + 1 \in 0 .. Len(o.all)
           /\ StepReady(o) /\ \A n \in 1 .. o.done : RowKept(o, n)
           /\ \A n \in 1 .. o.done : o.all[n].url \in Urls \cup {NULL}
           /\ TheRow(o) = o.all[o.done + 1] /\ TheRow(o).url \in Urls \cup {NULL}
           /\ o.at \in {"select", "write", "items", "finish"} => TheRow(o).url \in Urls
           /\ o.at \in {"items", "finish"} => TheRow(o).group = NULL
           /\ \A n \in 1 .. o.done : TheRow(o) \in
                 IF o.all[n].url = TheRow(o).url THEN Overwritten(o, n, o.done + 1)
                 ELSE {TheRow(o)}
<1>1. /\ StoreTyped(o) /\ StoreShape(o) /\ Current(c) = TheRow(o)
      /\ o.done + 1 \in DOMAIN o.all /\ o.done \in 0 .. Len(o.all)
      /\ o.done + 1 \in 0 .. Len(o.all)
      /\ o.at \in {"select", "write", "items", "finish"} => TheRow(o).url \in Urls
  <2>1. op[c].at \in {"select", "write", "items", "finish"} => Current(c).url \in Urls
    BY StoreBefore
  <2>2. /\ StoreTyped(op[c]) /\ StoreShape(op[c]) /\ Current(c) = TheRow(op[c])
        /\ op[c].done + 1 \in DOMAIN op[c].all /\ op[c].done \in 0 .. Len(op[c].all)
        /\ op[c].done + 1 \in 0 .. Len(op[c].all)
    BY StoreBefore
  <2> QED
    BY <2>1, <2>2
<1>2. StepReady(o) /\ \A n \in 1 .. o.done : RowKept(o, n)
  BY DEF ImportInv
<1>3. Len(o.all) \in Nat /\ o.done \in Nat /\ DOMAIN o.all = 1 .. Len(o.all)
  BY <1>1 DEF StoreTyped
<1>4. \A n \in DOMAIN o.all : o.all[n].url \in Urls \cup {NULL}
                              /\ (o.snapshot => o.all[n].group = NULL)
  BY <1>1 DEF StoreTyped
<1>5. \A n \in 1 .. o.done : n \in DOMAIN o.all
  BY <1>1, <1>3
<1>6. TheRow(o) = o.all[o.done + 1]
  BY DEF TheRow
<1>7. o.at \in {"items", "finish"} => TheRow(o).group = NULL
  BY <1>1, <1>4, <1>6 DEF StoreTyped
<1>8. ASSUME NEW n \in 1 .. o.done, o.all[n].url = TheRow(o).url
      PROVE  TheRow(o) \in Overwritten(o, n, o.done + 1)
  <2>1. o.done + 1 \in n + 1 .. o.done + 1
    BY <1>3
  <2> QED
    BY <1>6, <1>8, <2>1 DEF Overwritten
<1> QED
  BY <1>1, <1>2, <1>3, <1>4, <1>5, <1>6, <1>7, <1>8

\* The call moves on: what it stored is still there.
LEMMA ProceedKeepsRows ==
    ASSUME NEW o, StoreTyped(o), NEW p, NEW at, NEW done \in 0 .. Len(o.all), NEW id, NEW group,
           Changed(o, p, at, done, id, group), groups \subseteq groups',
           \/ done = o.done + 1
           \/ done = o.done /\ (o.at \in {"select", "write"} \/ at \notin {"select", "write", "return"}),
           \A n \in 1 .. o.done : RowKept(o, n) /\ StillThere(o, p, n),
           done = o.done + 1 => RowKept(p, o.done + 1)'
    PROVE  \A n \in 1 .. p.done : RowKept(p, n)'
<1>1. /\ p.all = o.all /\ p.done = done /\ p.moved = o.moved /\ p.at = at
  BY DEF Changed
<1>2. o.done \in Nat /\ done \in Nat /\ o.done <= p.done /\ p.done \in 0 .. Len(o.all)
  BY <1>1 DEF StoreTyped
<1>3. Reached(o) <= Reached(p)
  <2>1. /\ Reached(o) \in {o.done, o.done + 1} /\ Reached(p) \in {p.done, p.done + 1}
        /\ o.at \in {"select", "write"} => Reached(o) = o.done
        /\ at \notin {"select", "write", "return"} => Reached(p) = p.done + 1
    BY <1>1, <1>2, ReachedIsNext
  <2> DEFINE from == Reached(o)
             to == Reached(p)
  <2> HIDE DEF from, to
  <2>2. /\ from \in {o.done, o.done + 1} /\ to \in {done, done + 1}
        /\ o.at \in {"select", "write"} => from = o.done
        /\ at \notin {"select", "write", "return"} => to = done + 1
    BY <1>1, <2>1 DEF from, to
  <2>3. from <= to
    BY <1>2, <2>2
  <2> QED
    BY <2>3 DEF from, to
<1>4. ASSUME NEW n \in 1 .. o.done
      PROVE  RowKept(p, n)'
  BY <1>1, <1>2, <1>3, RowStaysKept
<1>5. \A n \in 1 .. p.done : n \in 1 .. o.done \/ (done = o.done + 1 /\ n = o.done + 1)
  BY <1>1, <1>2
<1> QED
  BY <1>4, <1>5

\* The feed of no row but the one in progress changes.
LEMMA OneRowChanges ==
    ASSUME NEW o, NEW p, p.moved = o.moved, NEW n, o.all[n].url \in Urls \cup {NULL},
           NEW u, \A v \in Urls \ {u} : feed'[v] = feed[v], o.all[n].url # u
    PROVE  StillThere(o, p, n)
  BY DEF StillThere

\* A call that fails knows of another that got in between.
LEMMA FailKeepsImports ==
    ASSUME TypeInv, ImportInv, NEW c \in Clients, op[c].at \in Steps, op[c].at # "return",
           Go(c, Failed(c), {}), feed' = feed, groups' = groups,
           {Current(c).url, Current(c).group} \cap op[c].moved # {}
    PROVE  ImportInv'
<1>1. PICK o, p : o = op[c] /\ p = Failed(c)
  OBVIOUS
<1>2. /\ StoreTyped(o) /\ StoreShape(o) /\ Current(c) = TheRow(o) /\ o.done \in 0 .. Len(o.all)
      /\ \A n \in 1 .. o.done : RowKept(o, n) /\ o.all[n].url \in Urls \cup {NULL}
  BY <1>1, ImportBefore
<1>3. Changed(o, p, "failed", o.done, o.id, o.group)
  BY <1>1, <1>2, FailedShape
<1>4. p.at = "failed" /\ p.moved = o.moved /\ p.done = o.done /\ p.all = o.all
  BY <1>3 DEF Changed
<1>5. \A n \in 1 .. o.done : StillThere(o, p, n)
  BY DEF StillThere
<1>6. o.done \in Nat /\ o.done # o.done + 1
  BY <1>2 DEF StoreTyped
<1>7. \A n \in 1 .. p.done : RowKept(p, n)'
  BY <1>2, <1>3, <1>5, <1>6, ProceedKeepsRows
<1>8. StepReady(p)'
  BY <1>1, <1>2, <1>4 DEF StepReady, TheRow
<1>9. \A u \in Urls : SameFeed(u)
  BY FeedIsSame
<1> QED
  BY <1>1, <1>7, <1>8, <1>9, ImportStep

\* upsert_feed has found the feed, written or inserted its row.
LEMMA AfterFeedKeepsImports ==
    ASSUME TypeInv, ImportInv, NEW c \in Clients, op[c].at = "write", NEW id, NEW u,
           u = Current(c).url, Go(c, AfterFeed(c, id), {u}), groups' = groups,
           \A v \in Urls \ {u} : feed'[v] = feed[v],
           u \in op[c].moved \/ (Live(u, id)' /\ Current(c).title \in {NULL, feed'[u].title}),
           \/ u \in op[c].moved
           \/ feed[u] = NoRow
           \/ /\ feed'[u] # NoRow /\ feed'[u].group = feed[u].group
              /\ feed'[u].title = feed[u].title \/ Current(c).title # NULL
    PROVE  ImportInv'
<1>1. PICK o, p : o = op[c] /\ p = AfterFeed(c, id)
  OBVIOUS
<1>2. op[c].at \in Steps /\ op[c].at # "return"
  BY DEF Steps
<1>3. /\ StoreTyped(o) /\ StoreShape(o) /\ Current(c) = TheRow(o)
      /\ o.done \in Nat /\ o.done \in 0 .. Len(o.all) /\ o.done + 1 \in 0 .. Len(o.all)
      /\ \A n \in 1 .. o.done : RowKept(o, n)
      /\ \A n \in 1 .. o.done : o.all[n].url \in Urls \cup {NULL}
      /\ TheRow(o) = o.all[o.done + 1] /\ o.at = "write" /\ TheRow(o).url \in Urls
      /\ \A n \in 1 .. o.done : o.all[n].url = TheRow(o).url =>
            TheRow(o) \in Overwritten(o, n, o.done + 1)
  BY <1>1, <1>2, ImportBefore
<1>4. PICK row : row = TheRow(o)
  OBVIOUS
<1>5. /\ row.url = u /\ u \in Urls /\ u # NULL
      /\ u \in o.moved \/ (Live(u, id)' /\ row.title \in {NULL, feed'[u].title})
      /\ \/ u \in o.moved
         \/ feed[u] = NoRow
         \/ /\ feed'[u] # NoRow /\ feed'[u].group = feed[u].group
            /\ feed'[u].title = feed[u].title \/ row.title # NULL
  BY <1>1, <1>3, <1>4, DiscoveryAssumptions, NullAssumption, Zenon
<1>6. ASSUME p.moved = o.moved, Reached(p) = o.done + 1, NEW n \in 1 .. o.done
      PROVE  StillThere(o, p, n)
  <2>1. CASE o.all[n].url = u
    <3>1. o.all[n].url = TheRow(o).url
      BY <1>4, <1>5, <2>1, Zenon
    <3>2. TheRow(o) \in Overwritten(o, n, o.done + 1)
      BY <1>3, <1>6, <3>1, Zenon
    <3>3. row \in Overwritten(o, n, Reached(p))
      BY <1>4, <1>6, <3>2, Zenon
    <3> QED
      BY <1>5, <1>6, <2>1, <3>3 DEF StillThere
  <2>2. CASE o.all[n].url # u
    BY <1>3, <1>6, <2>2, OneRowChanges, Zenon
  <2> QED
    BY <2>1, <2>2
<1>7. \A v \in Urls : v \in {u} \/ SameFeed(v)
  BY FeedIsSame
\* What the row in progress is, is known to the step that comes next.
<1>8. ASSUME NEW at \in {"items", "group"}, Changed(o, p, at, o.done, id, o.group)
      PROVE  ImportInv'
  <2>0. o.done # o.done + 1
    <3>1. o.done \in Nat
      BY <1>3, Zenon
    <3> QED
      BY <3>1
  <2>1. /\ p.at = at /\ p.all = o.all /\ p.done = o.done /\ p.moved = o.moved /\ p.id = id
    BY <1>8 DEF Changed
  <2>2. Reached(p) = o.done + 1
    BY <2>1 DEF Reached
  <2>3. \A n \in 1 .. p.done : RowKept(p, n)'
    BY <1>3, <1>6, <1>8, <2>0, <2>1, <2>2, ProceedKeepsRows, Zenon
  <2>4. TheRow(p)' = row
    BY <1>4, <2>1 DEF TheRow
  <2>5. StepReady(p)'
    BY <1>5, <2>1, <2>4 DEF StepReady, Live
  <2> QED
    BY <1>1, <1>7, <2>3, <2>5, ImportStep
\* The row had no group: it is done.
<1>9. ASSUME Current(c).group \in {NULL, Blank}, Changed(o, p, AfterRow(o), o.done + 1, id, o.group)
      PROVE  ImportInv'
  <2>1. /\ p.at = AfterRow(o) /\ p.all = o.all /\ p.done = o.done + 1 /\ p.moved = o.moved
        /\ p.at \in {"select", "return"} /\ row.group \in {NULL, Blank}
    BY <1>1, <1>3, <1>4, <1>9, Zenon DEF Changed, AfterRow
  <2>2. Reached(p) = o.done + 1
    BY <2>1 DEF Reached
  <2>3. RowKept(p, o.done + 1)'
    <3>1. p.all[o.done + 1] = row
      BY <1>3, <1>4, <2>1, Zenon
    <3> QED
      BY <1>5, <2>1, <3>1 DEF RowKept, RowStored, Live
  <2>4. \A n \in 1 .. p.done : RowKept(p, n)'
    BY <1>3, <1>6, <1>9, <2>1, <2>2, <2>3, ProceedKeepsRows, Zenon
  <2>5. StepReady(p)'
    BY <2>1 DEF StepReady
  <2> QED
    BY <1>1, <1>7, <2>4, <2>5, ImportStep
<1> QED
  <2>1. \/ Changed(o, p, "items", o.done, id, o.group)
        \/ Changed(o, p, "group", o.done, id, o.group)
        \/ /\ Current(c).group \in {NULL, Blank}
           /\ Changed(o, p, AfterRow(o), o.done + 1, id, o.group)
    <3>1. StoreShape(op[c])
      BY <1>1, <1>3, Zenon
    <3> QED
      BY <1>1, <3>1, AfterFeedShape
  <2> QED
    BY <1>8, <1>9, <2>1

\* A row is done, which was stored, and its feed is as it was or gets the group of the row.
LEMMA RowDoneKeepsImports ==
    ASSUME TypeInv, ImportInv, NEW c \in Clients, op[c].at \in {"finish", "member"},
           NEW touched, Go(c, RowDone(c), touched), groups' = groups,
           \A v \in Urls : v \in touched \/ SameFeed(v),
           NEW row, row = Current(c),
           \A v \in Urls \ {row.url} : SameFeed(v),
           \/ row.url \in op[c].moved
           \/ row.url = NULL /\ \E g \in groups : Lower[g] = Lower[row.group]
           \/ /\ row.url # NULL /\ feed'[row.url] # NoRow
              /\ feed'[row.url].title = feed[row.url].title
              /\ row.title \in {NULL, feed'[row.url].title}
              /\ \/ row.group = NULL /\ feed'[row.url].group = feed[row.url].group
                 \/ /\ row.group \in Names /\ feed'[row.url].group \in groups
                    /\ Lower[feed'[row.url].group] = Lower[row.group]
    PROVE  ImportInv'
<1>1. PICK o, p : o = op[c] /\ p = RowDone(c)
  OBVIOUS
<1>2. op[c].at \in Steps /\ op[c].at # "return"
  BY DEF Steps
<1>3. /\ StoreTyped(o) /\ StoreShape(o) /\ Current(c) = TheRow(o)
      /\ o.done \in Nat /\ o.done + 1 \in 0 .. Len(o.all)
      /\ \A n \in 1 .. o.done : RowKept(o, n)
      /\ \A n \in 1 .. o.done : o.all[n].url \in Urls \cup {NULL}
      /\ TheRow(o) = o.all[o.done + 1] /\ TheRow(o).url \in Urls \cup {NULL}
      /\ \A n \in 1 .. o.done : o.all[n].url = TheRow(o).url =>
            TheRow(o) \in Overwritten(o, n, o.done + 1)
  BY <1>1, <1>2, ImportBefore
<1>4. Changed(o, p, AfterRow(o), o.done + 1, o.id, o.group)
  BY <1>1, <1>3, RowDoneShape, Zenon
<1>5. /\ p.at = AfterRow(o) /\ p.all = o.all /\ p.done = o.done + 1 /\ p.moved = o.moved
      /\ p.at \in {"select", "return"} /\ row = TheRow(o)
  BY <1>1, <1>3, <1>4, Zenon DEF Changed, AfterRow
<1>6. Reached(p) = o.done + 1
  BY <1>5 DEF Reached
<1>7. NULL \notin Names /\ Blank \notin Names
  BY NullAssumption, SubscriptionsAssumptions
<1>8. ASSUME NEW n \in 1 .. o.done
      PROVE  StillThere(o, p, n)
  <2>1. CASE o.all[n].url = row.url
    <3>1. row \in Overwritten(o, n, p.done)
      BY <1>3, <1>5, <2>1, Zenon
    <3> QED
      BY <1>1, <1>5, <1>7, <2>1, <3>1 DEF StillThere
  <2>2. CASE o.all[n].url # row.url
    BY <1>3, <2>2, Zenon DEF StillThere, SameFeed
  <2> QED
    BY <2>1, <2>2
<1>9. RowKept(p, o.done + 1)'
  <2>1. p.all[o.done + 1] = row
    BY <1>3, <1>5, Zenon
  <2>2. CASE row.url \in op[c].moved
    BY <1>1, <1>5, <2>1, <2>2 DEF RowKept
  <2>3. CASE row.url = NULL /\ \E g \in groups : Lower[g] = Lower[row.group]
    BY <2>1, <2>3 DEF RowKept, SameName
  <2>4. CASE /\ row.url # NULL /\ feed'[row.url] # NoRow
             /\ row.title \in {NULL, feed'[row.url].title}
             /\ \/ row.group = NULL
                \/ /\ feed'[row.url].group \in groups
                   /\ Lower[feed'[row.url].group] = Lower[row.group]
    BY <2>1, <2>4 DEF RowKept, RowStored, SameName
  <2> QED
    BY <2>2, <2>3, <2>4
<1>10. \A n \in 1 .. p.done : RowKept(p, n)'
  BY <1>3, <1>4, <1>8, <1>9, ProceedKeepsRows, Zenon
<1>11. StepReady(p)'
  BY <1>5 DEF StepReady
<1> QED
  BY <1>1, <1>10, <1>11, ImportStep

LEMMA StatementKeepsImports ==
    ASSUME TypeInv, TypeInv', ImportInv, NEW c \in Clients,
           \/ SelectFeed(c) \/ UpdateRow(c) \/ InsertRow(c) \/ StoreItems(c)
           \/ FinishSubscription(c) \/ FindGroup(c) \/ InsertGroup(c) \/ AssignGroup(c)
           \/ Respond(c)
    PROVE  ImportInv'
<1>1. PICK o : o = op[c]
  OBVIOUS
<1>2. /\ DOMAIN feed = Urls /\ op[c].at \in Steps
      /\ \A u \in Urls : feed[u] # NoRow =>
            /\ feed[u].id \in 1 .. rows
            /\ feed[u] = [id |-> feed[u].id, title |-> feed[u].title, group |-> feed[u].group,
                          full |-> feed[u].full, icon |-> feed[u].icon]
      /\ groups \subseteq Names /\ NULL \notin Nat
  BY NullAssumption, Zenon
  DEF TypeInv, TableTypes, Steps, SelectFeed, UpdateRow, InsertRow, StoreItems,
      FinishSubscription, FindGroup, InsertGroup, AssignGroup, Respond
<1>3. op[c].at # "return" =>
      /\ StoreTyped(o) /\ StoreShape(o) /\ Current(c) = TheRow(o)
      /\ o.done \in Nat /\ o.done \in 0 .. Len(o.all) /\ StepReady(o)
      /\ \A n \in 1 .. o.done : RowKept(o, n)
      /\ \A n \in 1 .. o.done : o.all[n].url \in Urls \cup {NULL}
      /\ TheRow(o).url \in Urls \cup {NULL}
      /\ o.at \in {"select", "write", "items", "finish"} => TheRow(o).url \in Urls
      /\ o.at \in {"items", "finish"} => TheRow(o).group = NULL
  BY <1>1, <1>2, ImportBefore
<1>4. PICK row : row = TheRow(o)
  OBVIOUS
<1>5. NULL \notin Urls
  BY DiscoveryAssumptions, NullAssumption
\* Statements that change no feed and no group.
<1>6. ASSUME NEW p, NEW at, NEW id, NEW group, Go(c, p, {}), op[c].at # "return",
             Changed(o, p, at, o.done, id, group),
             o.at \in {"select", "write"} \/ at \notin {"select", "write", "return"},
             feed' = feed, groups' = groups,
             at = "write" =>
                 IF id = NULL THEN feed[row.url] = NoRow ELSE Live(row.url, id),
             at \in {"items", "finish", "group", "newgroup", "member"} =>
                 /\ o.at \in {"items", "finish", "group", "newgroup", "member"} /\ id = o.id,
             at = "newgroup" => row.group \notin groups,
             at # "failed"
      PROVE  ImportInv'
  <2>1. /\ p.at = at /\ p.all = o.all /\ p.done = o.done /\ p.moved = o.moved /\ p.id = id
    BY <1>6 DEF Changed
  <2>2. \A n \in 1 .. o.done : StillThere(o, p, n)
    BY <1>6 DEF StillThere
  <2>3. o.done # o.done + 1
    BY <1>1, <1>3, <1>6
  <2>4. \A n \in 1 .. p.done : RowKept(p, n)'
    BY <1>1, <1>3, <1>6, <2>2, <2>3, ProceedKeepsRows
  <2>5. TheRow(p)' = row
    BY <1>4, <2>1 DEF TheRow
  <2>6. StepReady(p)'
    BY <1>1, <1>3, <1>4, <1>6, <2>1, <2>5 DEF StepReady, Live
  <2>7. \A u \in Urls : SameFeed(u)
    BY <1>6, FeedIsSame
  <2> QED
    BY <1>6, <2>4, <2>6, <2>7, ImportStep
<1>7. CASE SelectFeed(c)
  <2> DEFINE id == IF feed[row.url] = NoRow THEN NULL ELSE feed[row.url].id
             p == [o EXCEPT !.at = "write", !.id = id]
  <2>1. o.at = "select" /\ op[c].at # "return"
    BY <1>1, <1>7 DEF SelectFeed
  <2>2. Go(c, p, {}) /\ feed' = feed /\ groups' = groups
    BY <1>1, <1>3, <1>4, <1>7, <2>1 DEF SelectFeed, tableVars
  <2>3. IF id = NULL THEN feed[row.url] = NoRow ELSE Live(row.url, id)
    BY <1>1, <1>2, <1>3, <1>4, <2>1 DEF Live, TypeInv, TableTypes
  <2> HIDE DEF id
  <2>4. Changed(o, p, "write", o.done, id, o.group)
    BY <1>3, <2>1, MovedOn, Zenon
  <2> HIDE DEF p
  <2> QED
    BY <1>6, <2>1, <2>2, <2>3, <2>4
<1>8. CASE UpdateRow(c)
  <2> DEFINE u == row.url
             new == [feed[u] EXCEPT !.title = row.title]
  <2>1. /\ o.at = "write" /\ op[c].at # "return" /\ o.id # NULL /\ op[c].at = "write"
    BY <1>1, <1>8 DEF UpdateRow
  <2>2. /\ u \in Urls /\ u = Current(c).url /\ Go(c, AfterFeed(c, o.id), {u})
        /\ groups' = groups
        /\ feed' = IF Live(u, o.id) /\ row.title # NULL
                   THEN [feed EXCEPT ![u] = new] ELSE feed
    BY <1>1, <1>3, <1>4, <1>8, <2>1 DEF UpdateRow
  <2>3. u \in op[c].moved \/ Live(u, o.id)
    BY <1>1, <1>3, <1>4, <2>1 DEF StepReady
  <2>4. feed[u] # NoRow => /\ new.id = feed[u].id /\ new.title = row.title
                           /\ new.group = feed[u].group /\ new # NoRow
    <3> DEFINE old == feed[u]
    <3>1. old # NoRow => /\ old = [id |-> old.id, title |-> old.title, group |-> old.group,
                                   full |-> old.full, icon |-> old.icon]
                         /\ old.id # 0
      BY <1>2, <2>2
    <3> HIDE DEF old
    <3>2. old # NoRow => /\ new.id = old.id /\ new.title = row.title /\ new.group = old.group
                         /\ old.id # 0
      BY <3>1 DEF old
    <3> HIDE DEF new
    <3> QED
      BY <3>2 DEF NoRow, old
  <2> HIDE DEF new
  <2>5. \A v \in Urls \ {u} : feed'[v] = feed[v]
    BY <1>2, <2>2
  <2>6. Live(u, o.id) =>
          /\ feed'[u] # NoRow /\ feed'[u].id = o.id /\ feed'[u].group = feed[u].group
          /\ row.title \in {NULL, feed'[u].title}
          /\ feed'[u].title = feed[u].title \/ row.title # NULL
    <3>1. CASE Live(u, o.id) /\ row.title # NULL
      BY <1>2, <2>2, <2>4, <3>1 DEF Live
    <3>2. CASE Live(u, o.id) /\ row.title = NULL
      BY <2>2, <3>2 DEF Live
    <3> QED
      BY <3>1, <3>2
  <2>7. u \in op[c].moved \/ (Live(u, o.id)' /\ row.title \in {NULL, feed'[u].title})
    BY <2>3, <2>6, <1>8 DEF Live
  <2>8. Current(c).title = row.title
    BY <1>3, <1>4, <2>1
  <2> HIDE DEF u
  <2> QED
    BY <2>1, <2>2, <2>3, <2>5, <2>6, <2>7, <2>8, AfterFeedKeepsImports
<1>9. CASE InsertRow(c)
  <2> DEFINE u == row.url
             new == [id |-> rows + 1, title |-> row.title, group |-> NULL,
                     full |-> TRUE, icon |-> NULL]
  <2>1. /\ o.at = "write" /\ op[c].at # "return" /\ o.id = NULL /\ op[c].at = "write"
        /\ groups' = groups
    BY <1>1, <1>9 DEF InsertRow
  <2>2. u \in Urls /\ u = Current(c).url /\ row = Current(c) /\ rows \in Nat
    BY <1>3, <1>4, <2>1 DEF TypeInv, TableTypes
  <2>3. u \in op[c].moved \/ feed[u] = NoRow
    BY <1>1, <1>3, <1>4, <2>1 DEF StepReady
  <2>4. CASE feed[u] # NoRow
    <3>1. Go(c, Failed(c), {}) /\ feed' = feed
      BY <1>9, <2>2, <2>4 DEF InsertRow
    <3> QED
      BY <1>2, <2>1, <2>2, <2>3, <2>4, <3>1, FailKeepsImports
  <2>5. CASE feed[u] = NoRow
    <3>1. Go(c, AfterFeed(c, rows + 1), {u}) /\ feed' = [feed EXCEPT ![u] = new]
      BY <1>9, <2>2, <2>5 DEF InsertRow
    <3>2. new.id = rows + 1 /\ new.title = row.title /\ new # NoRow
      <4>1. new.id = rows + 1 /\ new.title = row.title /\ rows + 1 # 0
        BY <2>2
      <4> HIDE DEF new
      <4> QED
        BY <4>1 DEF NoRow
    <3> HIDE DEF new
    <3>3. /\ feed'[u] = new /\ \A v \in Urls \ {u} : feed'[v] = feed[v]
      BY <1>2, <2>2, <3>1
    <3>4. PICK id : id = rows + 1
      OBVIOUS
    <3>5. Live(u, id)' /\ Current(c).title \in {NULL, feed'[u].title}
      <4>1. feed'[u] # NoRow /\ feed'[u].id = id
        BY <3>2, <3>3, <3>4
      <4>2. PICK v : v = u
        OBVIOUS
      <4> QED
        BY <1>4, <2>2, <3>2, <3>3, <4>1, <4>2 DEF Live
    <3>6. Go(c, AfterFeed(c, id), {u})
      BY <3>1, <3>4
    <3>7. feed[u] = NoRow
      BY <2>5
    <3> HIDE DEF u
    <3> QED
      BY <2>1, <2>2, <3>3, <3>5, <3>6, <3>7, AfterFeedKeepsImports
  <2> QED
    BY <2>4, <2>5
<1>10. CASE StoreItems(c)
  <2> DEFINE p == [o EXCEPT !.at = "finish"]
  <2>1. /\ o.at = "items" /\ op[c].at # "return" /\ feed' = feed /\ groups' = groups
        /\ Go(c, p, {})
    BY <1>1, <1>10 DEF StoreItems
  <2>2. Changed(o, p, "finish", o.done, o.id, o.group)
    BY <1>3, <2>1, OneFieldMovedOn
  <2> HIDE DEF p
  <2> QED
    BY <1>6, <2>1, <2>2
<1>11. CASE FinishSubscription(c)
  <2> DEFINE u == row.url
             new == [feed[u] EXCEPT !.icon = "url"]
  <2>1. /\ o.at = "finish" /\ op[c].at # "return" /\ groups' = groups
        /\ op[c].at \in {"finish", "member"}
    BY <1>1, <1>11 DEF FinishSubscription
  <2>2. /\ u \in Urls /\ u # NULL /\ row = Current(c) /\ row.group = NULL
    BY <1>3, <1>4, <1>5, <2>1
  <2>3. u \in op[c].moved \/ (Live(u, o.id) /\ row.title \in {NULL, feed[u].title})
    BY <1>1, <1>3, <1>4, <2>1, <2>2 DEF StepReady
  <2>4. CASE ~Live(u, o.id)
    <3>1. Go(c, Failed(c), {}) /\ feed' = feed
      BY <1>1, <1>11, <2>2, <2>4 DEF FinishSubscription
    <3> QED
      BY <1>2, <2>1, <2>2, <2>3, <2>4, <3>1, FailKeepsImports
  <2>5. CASE Live(u, o.id)
    <3>1. /\ Go(c, RowDone(c), {})
          /\ feed' = feed \/ feed' = [feed EXCEPT ![u] = new]
      BY <1>1, <1>11, <2>2, <2>5 DEF FinishSubscription
    <3>2. /\ new.id = feed[u].id /\ new.title = feed[u].title
          /\ new.group = feed[u].group /\ new # NoRow /\ feed[u] # NoRow
      <4> DEFINE old == feed[u]
      <4>1. /\ old = [id |-> old.id, title |-> old.title, group |-> old.group,
                      full |-> old.full, icon |-> old.icon]
            /\ old.id # 0 /\ old # NoRow
        BY <1>2, <2>2, <2>5 DEF Live
      <4> HIDE DEF old
      <4>2. /\ new.id = old.id /\ new.title = old.title /\ new.group = old.group
            /\ old.id # 0
        BY <4>1 DEF old
      <4> HIDE DEF new
      <4> QED
        BY <4>1, <4>2 DEF NoRow, old
    <3> HIDE DEF new
    <3>3. \A v \in Urls : SameFeed(v)
      <4>1. \A v \in Urls : feed'[v] = feed[v] \/ (v = u /\ feed'[v] = new)
        BY <1>2, <3>1
      <4> QED
        BY <3>2, <4>1 DEF SameFeed
    <3>4. /\ feed'[u] # NoRow /\ feed'[u].title = feed[u].title
          /\ feed'[u].group = feed[u].group
      BY <2>2, <3>2, <3>3 DEF SameFeed
    <3>5. u \in op[c].moved \/ row.title \in {NULL, feed'[u].title}
      BY <2>3, <3>4
    <3> QED
      BY <2>1, <2>2, <3>1, <3>3, <3>4, <3>5, RowDoneKeepsImports
  <2> QED
    BY <2>4, <2>5
<1>12. CASE FindGroup(c)
  <2>1. /\ o.at = "group" /\ op[c].at # "return" /\ feed' = feed /\ groups' = groups
    BY <1>1, <1>12 DEF FindGroup, tableVars
  <2>2. row = Current(c)
    BY <1>3, <1>4, <2>1
  <2>3. ASSUME Go(c, [o EXCEPT !.at = "newgroup"], {}), SameName(row.group) = {}
        PROVE  ImportInv'
    <3> DEFINE p == [o EXCEPT !.at = "newgroup"]
    <3>1. Changed(o, p, "newgroup", o.done, o.id, o.group)
      BY <1>3, <2>1, OneFieldMovedOn
    <3>2. Go(c, p, {}) /\ row.group \notin groups
      BY <2>3 DEF SameName
    <3> HIDE DEF p
    <3> QED
      BY <1>6, <2>1, <3>1, <3>2
  <2>4. ASSUME NEW n, Go(c, [o EXCEPT !.at = "member", !.group = n], {})
        PROVE  ImportInv'
    <3> DEFINE p == [o EXCEPT !.at = "member", !.group = n]
    <3>1. Changed(o, p, "member", o.done, o.id, n)
      BY <1>3, <2>1, MovedOn, Zenon
    <3>2. Go(c, p, {})
      BY <2>4
    <3> HIDE DEF p
    <3> QED
      BY <1>6, <2>1, <3>1, <3>2
  <2> QED
    BY <1>1, <1>12, <2>2, <2>3, <2>4, Zenon DEF FindGroup
<1>13. CASE InsertGroup(c)
  <2> DEFINE name == row.group
  <2>1. /\ o.at = "newgroup" /\ op[c].at # "return" /\ feed' = feed
    BY <1>1, <1>13 DEF InsertGroup
  <2>2. row = Current(c)
    BY <1>3, <1>4, <2>1
  <2>3. /\ groups' = groups \cup {name}
        /\ IF name \in groups THEN Go(c, Failed(c), {})
           ELSE Go(c, [o EXCEPT !.at = "member", !.group = name], {name})
    BY <1>1, <1>13, <2>2 DEF InsertGroup
  <2>4. \A u \in Urls : SameFeed(u)
    BY <2>1, FeedIsSame
  <2>5. CASE name \in groups
    <3>1. name \in op[c].moved
      BY <1>1, <1>3, <1>4, <2>1, <2>5 DEF StepReady
    <3>2. groups' = groups /\ Go(c, Failed(c), {})
      BY <2>3, <2>5
    <3> QED
      BY <1>2, <2>1, <2>2, <3>1, <3>2, FailKeepsImports
  <2>6. CASE name \notin groups
    <3> DEFINE r == [o EXCEPT !.at = "member", !.group = name]
    <3>1. PICK p : p = r
      OBVIOUS
    <3>2. Changed(o, r, "member", o.done, o.id, name)
      BY <1>3, <2>1, MovedOn, Zenon
    <3>3. Go(c, p, {name}) /\ Changed(o, p, "member", o.done, o.id, name)
      BY <2>3, <2>6, <3>1, <3>2
    <3>4. /\ p.at = "member" /\ p.all = o.all /\ p.done = o.done /\ p.moved = o.moved
          /\ p.id = o.id
      BY <3>3 DEF Changed
    <3>5. \A n \in 1 .. o.done : StillThere(o, p, n)
      BY <2>1 DEF StillThere
    <3>6. o.done # o.done + 1 /\ groups \subseteq groups' /\ groups' \subseteq groups \cup {name}
      BY <1>3, <2>1, <2>3
    <3>7. \A n \in 1 .. p.done : RowKept(p, n)'
      BY <1>3, <2>1, <3>3, <3>5, <3>6, ProceedKeepsRows
    <3>8. TheRow(p)' = row
      BY <1>4, <3>4 DEF TheRow
    <3>9. StepReady(p)'
      BY <1>3, <1>4, <2>1, <3>4, <3>8 DEF StepReady, Live
    <3> QED
      BY <2>4, <3>3, <3>6, <3>7, <3>9, ImportStep
  <2> QED
    BY <2>5, <2>6
<1>14. CASE AssignGroup(c)
  <2> DEFINE u == row.url
             new == [feed[u] EXCEPT !.group = o.group]
  <2>1. /\ o.at = "member" /\ op[c].at # "return" /\ groups' = groups
        /\ op[c].at \in {"finish", "member"}
    BY <1>1, <1>14 DEF AssignGroup
  <2>2. /\ u \in Urls \cup {NULL} /\ row = Current(c)
        /\ row.group \in Names /\ o.group \in groups /\ Lower[o.group] = Lower[row.group]
    BY <1>3, <1>4, <2>1 DEF StoreTyped, SameName
  <2>3. u \in op[c].moved \cup {NULL} \/ (Live(u, o.id) /\ row.title \in {NULL, feed[u].title})
    BY <1>1, <1>3, <1>4, <2>1 DEF StepReady
  <2>4. CASE u = NULL
    <3>1. Go(c, RowDone(c), {}) /\ feed' = feed
      BY <1>1, <1>14, <2>2, <2>4 DEF AssignGroup
    <3>2. \A v \in Urls : SameFeed(v)
      BY <3>1, FeedIsSame
    <3> QED
      BY <2>1, <2>2, <2>4, <3>1, <3>2, RowDoneKeepsImports
  <2>5. CASE u # NULL /\ ~Live(u, o.id)
    <3>1. Go(c, Failed(c), {}) /\ feed' = feed
      BY <1>1, <1>14, <2>2, <2>5 DEF AssignGroup
    <3> QED
      BY <1>2, <2>1, <2>2, <2>3, <2>5, <3>1, FailKeepsImports
  <2>6. CASE u # NULL /\ Live(u, o.id)
    <3>1. Go(c, RowDone(c), {u}) /\ feed' = [feed EXCEPT ![u] = new] /\ u \in Urls
      BY <1>1, <1>14, <2>2, <2>6 DEF AssignGroup
    <3>2. /\ new.title = feed[u].title /\ new.group = o.group /\ new # NoRow
      <4> DEFINE old == feed[u]
      <4>1. /\ old = [id |-> old.id, title |-> old.title, group |-> old.group,
                      full |-> old.full, icon |-> old.icon]
            /\ old.id # 0
        BY <1>2, <2>6, <3>1 DEF Live
      <4> HIDE DEF old
      <4>2. /\ new.id = old.id /\ new.title = old.title /\ new.group = o.group
            /\ old.id # 0
        BY <4>1 DEF old
      <4> HIDE DEF new
      <4> QED
        BY <4>2 DEF NoRow, old
    <3> HIDE DEF new
    <3>3. feed'[u] = new /\ \A v \in Urls \ {u} : feed'[v] = feed[v]
      BY <1>2, <3>1
    <3>4. \A v \in Urls \ {u} : SameFeed(v)
      BY <3>3, FeedIsSame
    <3>5. /\ feed'[u] # NoRow /\ feed'[u].title = feed[u].title
          /\ feed'[u].group \in groups /\ Lower[feed'[u].group] = Lower[row.group]
      BY <2>2, <3>2, <3>3
    <3>6. u \in op[c].moved \/ row.title \in {NULL, feed'[u].title}
      BY <2>3, <2>6, <3>5
    <3>7. \A v \in Urls : v \in {u} \/ SameFeed(v)
      BY <3>4
    <3> QED
      BY <2>1, <2>2, <2>6, <3>1, <3>4, <3>5, <3>6, <3>7, RowDoneKeepsImports
  <2> QED
    BY <2>4, <2>5, <2>6
<1>15. CASE Respond(c)
  <2>1. Go(c, Idle, {}) /\ feed' = feed /\ groups' = groups /\ Idle.at \notin Steps
    BY <1>15 DEF Respond, Return, tableVars, Idle, Steps
  <2>2. \A u \in Urls : SameFeed(u)
    BY <2>1, FeedIsSame
  <2> QED
    BY <2>1, <2>2, ImportStep
<1> QED
  BY <1>7, <1>8, <1>9, <1>10, <1>11, <1>12, <1>13, <1>14, <1>15

LEMMA ImportInvNext ==
    ASSUME TypeInv, TypeInv', DiscoveryIInv, ImportInv, [Next]_vars
    PROVE  ImportInv'
<1>1. ASSUME op' = op, groups' = groups,
             \A u \in Urls : feed'[u] # NoRow /\ feed[u] # NoRow => SameFeed(u),
             \A u \in Urls : feed'[u] = NoRow <=> feed[u] = NoRow
      PROVE  ImportInv'
  <2>1. \A u \in Urls : SameFeed(u)
    BY <1>1 DEF SameFeed
  <2>2. ASSUME NEW c \in Clients, op[c].at \in Steps
        PROVE  (\A n \in 1 .. op[c].done : RowKept(op[c], n)') /\ StepReady(op[c])'
    <3>1. PICK o : o = op[c]
      OBVIOUS
    <3>2. StoreTyped(o) /\ StepReady(o) /\ \A n \in 1 .. o.done : RowKept(o, n)
      BY <2>2, <3>1 DEF TypeInv, OpTyped, ImportInv
    <3>3. /\ o.done \in 0 .. Len(o.all) /\ o.done \in Nat /\ DOMAIN o.all = 1 .. Len(o.all)
          /\ Len(o.all) \in Nat
      BY <3>2 DEF StoreTyped
    <3>4. Reached(o) \in Nat /\ Reached(o) <= Reached(o) /\ o.done <= o.done
      BY <3>3, ReachedIsNext
    <3>5. ASSUME NEW n \in 1 .. o.done
          PROVE  RowKept(o, n)'
      <4>1. n \in DOMAIN o.all
        BY <3>3
      <4>2. o.all[n].url \in Urls \cup {NULL}
        BY <3>2, <4>1 DEF StoreTyped
      <4>3. StillThere(o, o, n)
        BY <2>1, <4>2 DEF StillThere, SameFeed
      <4> QED
        BY <1>1, <3>2, <3>3, <3>4, <4>3, RowStaysKept
    <3>6. StepReady(o)'
      <4>1. o.at # "return" => o.done + 1 \in DOMAIN o.all
        BY <3>2, <3>3 DEF StoreTyped
      <4>2. o.at # "return" => TheRow(o).url \in Urls \cup {NULL}
        BY <3>2, <4>1 DEF StoreTyped, TheRow
      <4>3. o.at # "return" => TheRow(o).url = NULL \/ SameFeed(TheRow(o).url)
        BY <2>1, <4>2
      <4>4. o.at = "write" => TheRow(o).url # NULL
        BY <3>2, <4>1 DEF StoreTyped, TheRow
      <4> QED
        BY <1>1, <3>2, <4>3, <4>4, SMTT(20) DEF StepReady, SameFeed, Live, TheRow
    <3>7. o = op'[c]
      BY <1>1, <3>1
    <3> QED
      BY <1>1, <3>5, <3>6, <3>7, ReadyByValue
  <2> QED
    BY <1>1, <2>2 DEF ImportInv
<1>2. ASSUME UNCHANGED <<op, groups, feed>>
      PROVE  ImportInv'
  BY <1>1, <1>2, FeedIsSame
<1>3. ASSUME NEW c \in Clients, Subscribe(c)
      PROVE  ImportInv'
  BY <1>2, <1>3, SubscribeIsQuiet, QuietKeepsImports DEF Discovers, tableVars
<1>4. ASSUME NEW c \in Clients, Store(c)
      PROVE  ImportInv'
  <2>1. ASSUME NEW document \in Documents \cup {ExportSubscriptions},
               ImportSubscriptions(c, document)
        PROVE  ImportInv'
    BY <2>1, DocumentsAreTyped, ImportIsQuiet, QuietKeepsImports DEF TypeInv
  <2> QED
    BY <1>4, <2>1, StatementKeepsImports DEF Store
<1>5. ASSUME NEW c \in Clients, Manage(c) \/ Crash(c)
      PROVE  ImportInv'
  BY <1>5, CreateGroupIsQuiet, QuietKeepsImports, ManageKeepsImports DEF Manage
<1>6. ASSUME NEW id, CacheSiteIcon(id) \/ NoSiteIcon(id)
      PROVE  ImportInv'
  <2>1. /\ UNCHANGED <<op, groups>>
        /\ \/ feed' = feed
           \/ feed' = [u \in Urls |-> IF Live(u, id) THEN [feed[u] EXCEPT !.icon = "asset"]
                                       ELSE feed[u]]
    BY <1>6 DEF CacheSiteIcon, NoSiteIcon
  <2>2. ASSUME NEW u \in Urls
        PROVE  SameFeed(u)
    <3> DEFINE old == feed[u]
               new == [old EXCEPT !.icon = "asset"]
    <3>1. feed'[u] = old \/ (old # NoRow /\ feed'[u] = new)
      BY <2>1 DEF Live
    <3>2. old # NoRow => /\ new.id = old.id /\ new.title = old.title /\ new.group = old.group
                         /\ new # NoRow
      <4>1. old # NoRow => /\ old = [id |-> old.id, title |-> old.title, group |-> old.group,
                                     full |-> old.full, icon |-> old.icon]
                           /\ old.id # 0
        BY DEF TypeInv, TableTypes
      <4> HIDE DEF old
      <4>2. old # NoRow => /\ new.id = old.id /\ new.title = old.title
                           /\ new.group = old.group /\ old.id # 0
        BY <4>1
      <4> HIDE DEF new
      <4> QED
        BY <4>2 DEF NoRow
    <3> HIDE DEF new
    <3> QED
      BY <3>1, <3>2 DEF SameFeed
  <2>3. \A u \in Urls : feed'[u] = NoRow <=> feed[u] = NoRow
    BY <2>2 DEF SameFeed
  <2> QED
    BY <1>1, <2>1, <2>2, <2>3
<1>7. CASE UNCHANGED vars
  BY <1>2, <1>7 DEF vars, tableVars
<1> QED
  BY <1>3, <1>4, <1>5, <1>6, <1>7 DEF Next

LEMMA ImportsAreKept == TypeInv /\ ImportInv => ImportsAreComplete
<1> SUFFICES ASSUME TypeInv, ImportInv
             PROVE  ImportsAreComplete
  OBVIOUS
<1>1. ASSUME NEW c \in Clients, op[c].at \in Steps, NEW n \in 1 .. op[c].done
      PROVE  \/ op[c].all[n].url \in op[c].moved
             \/ op[c].all[n].url = NULL /\ SameName(op[c].all[n].group) # {}
             \/ RowStored(op[c], n)
  BY <1>1 DEF ImportInv, RowKept
<1>2. ASSUME NEW c \in Clients, op[c].at = "failed"
      PROVE  {Current(c).url, Current(c).group} \cap op[c].moved # {}
  BY <1>2, SMTT(20) DEF ImportInv, StepReady, Current, TheRow, Steps
<1>3. ASSUME NEW c \in Clients, NEW n, RowStored(op[c], n)
      PROVE  LET o == op[c]
                 written == IF o.at \in {"select", "write", "return"} THEN o.done ELSE o.done + 1
                 Later(m, last) ==
                     {o.all[k] : k \in {j \in m + 1 .. last : o.all[j].url = o.all[m].url}}
                 row == o.all[n]
             IN  /\ feed[row.url] # NoRow
                 /\ row.title \in {NULL, feed[row.url].title}
                    \/ \E r \in Later(n, written) : r.title # NULL
                 /\ row.group \in {NULL, Blank}
                    \/ feed[row.url].group \in SameName(row.group)
                    \/ \E r \in Later(n, o.done) : r.group \notin {NULL, Blank}
  BY <1>3, Zenon DEF RowStored, Overwritten, Reached
<1> QED
  BY <1>1, <1>2, <1>3, SMTT(20) DEF ImportsAreComplete

-----------------------------------------------------------------------------
(***************************************************************************)
(* The theorems                                                            *)
(***************************************************************************)
IInv == TypeInv /\ DiscoveryIInv /\ GroupsInv /\ ArticlesInv /\ ImportInv

LEMMA IInvInit == Init => IInv
  BY TypeInvInit, DiscoveryIInvInit, GroupsInvInit, ArticlesInvInit, ImportInvInit
  DEF IInv, Init

LEMMA IInvNext == IInv /\ [Next]_vars => IInv'
<1> SUFFICES ASSUME IInv, [Next]_vars
             PROVE  IInv'
  OBVIOUS
<1>1. TypeInv /\ DiscoveryIInv /\ GroupsInv /\ ArticlesInv /\ ImportInv
  BY DEF IInv
<1>2. TypeInv'
  BY <1>1, TypeInvNext
<1>3. DiscoveryIInv'
  BY <1>1, StepIsDiscovery, DiscoveryIInvNext
<1>4. GroupsInv'
  BY <1>1, GroupsInvNext
<1>5. ArticlesInv'
  BY <1>1, <1>2, ArticlesInvNext
<1>6. ImportInv'
  BY <1>1, <1>2, ImportInvNext
<1> QED
  BY <1>2, <1>3, <1>4, <1>5, <1>6 DEF IInv

LEMMA AlwaysIInv == Spec => []IInv
  BY IInvInit, IInvNext, PTL DEF Spec

\* Every row has an id of its own and a group that exists, every call that stores rows is at
\* one of them, and only a call that discovers has a discovery.
THEOREM SubscriptionsAreTyped == Spec => []TypeOK
<1>1. IInv => TypeOK
  BY TypesAreOK DEF IInv
<1> QED
  BY <1>1, AlwaysIInv, PTL

\* Of the discoveries that subscriptions make, too: which candidate is kept and how it is
\* ranked is the same in whatever order the answers to the probes come.
THEOREM DiscoveredRankingIsDeterministic == Spec => []RankingIsDeterministic
<1>1. IInv => RankingIsDeterministic
  BY BestIsRanking DEF IInv
<1> QED
  BY <1>1, AlwaysIInv, PTL

\* create_group and set_feed_group by name look for the group in whatever case before they
\* make it: two that differ by case only come of two calls that looked before either wrote.
THEOREM GroupsStayDistinct == Spec => []GroupsAreDistinct
<1>1. IInv => GroupsAreDistinct
  BY DEF IInv, GroupsInv
<1> QED
  BY <1>1, AlwaysIInv, PTL

\* A subscription that returned has left the articles with the feed, under the id the feed
\* still has, until a call deletes it.
THEOREM SubscriptionsHaveArticles == Spec => []ArticlesAtOnce
<1>1. IInv => ArticlesAtOnce
  BY ArticlesAreThere DEF IInv
<1> QED
  BY <1>1, AlwaysIInv, PTL

\* Of the rows of an import or a subscription none is lost between its statements but by
\* another call that wrote the same feed or made the same group.
THEOREM ImportsStayComplete == Spec => []ImportsAreComplete
<1>1. IInv => ImportsAreComplete
  BY ImportsAreKept DEF IInv
<1> QED
  BY <1>1, AlwaysIInv, PTL

\* At any time an export, in the order of its folders, is read back as the feeds there are.
THEOREM ExportsAreReadBack == Spec => []RoundTrip
<1>1. IInv => RoundTrip
  BY ExportIsRead DEF IInv, TypeInv
<1> QED
  BY <1>1, AlwaysIInv, PTL
=============================================================================
