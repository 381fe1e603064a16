------------------------------- MODULE Discovery -------------------------------
(***************************************************************************)
(* Discovery of the feeds of a site.  The page of the site and the         *)
(* conventional paths give hints; each hint is probed, and the answers     *)
(* that are feeds are merged by their final URL and ranked.  The server    *)
(* sends all probes at once and merges the answers in the order they come; *)
(* the bridge (crate discovery) sends one at a time, and tries the paths   *)
(* only if no hint of the page leads to a feed.                            *)
(*                                                                         *)
(* URLs are numbers in their alphabetical order.  Web[u] is what a GET of  *)
(* u may bring, after redirects; besides, any GET may fail.                *)
(***************************************************************************)
EXTENDS Integers, Sequences, SequencesExt

CONSTANTS
    Clients,
    Bridge,         \* those of the bridge; the others are of the server
    Urls,
    Words,          \* for each URL, those of the words below that are in it
    CommentTitles,  \* the titles that say "comments"
    SiteUrls,       \* for each URL, what is tried for it: http, https, www
    ServerPaths,    \* for each URL, those of the conventional paths from it
    BridgePaths,
    Web,            \* for each URL, answers: [ok, final, hint, feed, links, anchors]
    NULL

ASSUME DiscoveryAssumptions ==
    /\ Bridge \subseteq Clients
    /\ Urls \subseteq Nat

\* Every URL that is tried or that an answer names is one of the web; pages are finite.
ASSUME WebAssumption ==
    /\ \A u \in Urls :
          SiteUrls[u] \subseteq Urls /\ {ServerPaths[u], BridgePaths[u]} \subseteq Seq(Urls)
    /\ \A u \in Urls : \A a \in Web[u] :
          /\ a.final \in Urls
          /\ \A list \in {a.links, a.anchors} :
                /\ Len(list) \in Nat /\ DOMAIN list = 1 .. Len(list)
                /\ \A n \in DOMAIN list : list[n].url \in Urls

VARIABLES
    stage,     \* of the discovery of each client
    site,      \* the URL discovered
    hints,     \* [url, title, source], in the order found
    waiting,   \* the hints whose probes have not come back
    found,     \* the candidate of each final URL
    answered   \* every candidate that came back (of the properties only)

discoveryVars == <<stage, site, hints, waiting, found, answered>>

Sources == {"autodiscovery", "heuristic_link", "commonpath"}
NoCandidates == [u \in {} |-> NULL]

DiscoveryTypeOK ==
    /\ stage \in [Clients -> {"idle", "page", "probing", "paths", "ranked"}]
    /\ \A c \in Clients : waiting[c] \subseteq DOMAIN hints[c]
    /\ \A c \in Clients : DOMAIN found[c] \subseteq Urls
    /\ \A c \in Clients : \A u \in DOMAIN found[c] :
          found[c][u].url = u /\ found[c][u].source \in Sources

DiscoveryInit ==
    /\ stage = [c \in Clients |-> "idle"]
    /\ site = [c \in Clients |-> NULL]
    /\ hints = [c \in Clients |-> <<>>]
    /\ waiting = [c \in Clients |-> {}]
    /\ found = [c \in Clients |-> NoCandidates]
    /\ answered = [c \in Clients |-> {}]

-----------------------------------------------------------------------------
(***************************************************************************)
(* Scores                                                                  *)
(***************************************************************************)
SourceBaseScore(source) ==
    CASE source = "autodiscovery" -> 50
      [] source = "heuristic_link" -> 15
      [] source = "commonpath" -> 10
      [] OTHER -> 0

\* Each rule that applies counts: a URL may end with "/feed" and have "rss" in it.
WordPoints(url, title) ==
    LET Points(word, n) == IF word \in Words[url] THEN n ELSE 0
    IN  Points("comments", -10) + Points("podcast", -10)
        + Points("rss", 5) + Points("/index.xml", 5)
        + Points("/feed/", 5) + Points("/feed", 4) + Points("json", 3)
        + (IF title \in CommentTitles THEN -10 ELSE 0)

\* The later a hint comes, the less it scores.
FeedCandidateScore(url, title, source, order) ==
    SourceBaseScore(source) - 5 * (order - 1) + WordPoints(url, title)

\* The confidence of a score, of which 1200 is all, between 0.15 and 0.99.
ConfidenceFromScore(score) ==
    LET n == 10 * (score + 30)
    IN  IF n < 180 THEN 180 ELSE IF n > 1188 THEN 1188 ELSE n

-----------------------------------------------------------------------------
(***************************************************************************)
(* Hints                                                                   *)
(***************************************************************************)
\* The elements of a finite set in an order, of which upto[x] are those up to x.
InOrder(set, upto) ==
    [i \in 1 .. Cardinality(set) |-> CHOOSE x \in set : Cardinality(upto[x]) = i]

\* What a list has at some of its positions.
Selected(list, positions) ==
    LET order == InOrder(positions, [n \in positions |-> {k \in positions : k <= n}])
    IN  [i \in 1 .. Cardinality(positions) |-> list[order[i]]]

\* Paths that are no hint yet are added, each once.
WithFallbacks(list, paths) ==
    LET new == {n \in DOMAIN paths : /\ \A k \in DOMAIN list : list[k].url # paths[n]
                                    /\ \A k \in 1 .. n - 1 : paths[k] # paths[n]}
        added == Selected(paths, new)
    IN  list \o [n \in DOMAIN added |->
                    [url |-> added[n], title |-> NULL, source |-> "commonpath"]]

\* The links of rel alternate that have the type of a feed ...
ExtractAutodiscoveryLinks(page) ==
    LET links == Selected(page.links, {n \in DOMAIN page.links : page.links[n].typed})
    IN  [n \in DOMAIN links |->
            [url |-> links[n].url, title |-> links[n].title, source |-> "autodiscovery"]]

\* ... and, on the server, the anchors that look like feeds.
CollectHtmlFeedCandidates(page) ==
    LET anchors == Selected(page.anchors, {n \in DOMAIN page.anchors : page.anchors[n].looks})
    IN  ExtractAutodiscoveryLinks(page) \o
        [n \in DOMAIN anchors |->
            [url |-> anchors[n].url, title |-> NULL, source |-> "heuristic_link"]]

\* The answers fetch_first_successful_response may return: any URL may be the first to
\* answer, as those before it may fail.
FetchFirstSuccessful(u) == {a \in UNION {Web[v] : v \in SiteUrls[u]} : a.ok}

\* All probes of the list are sent.
Probe(c, list, next) ==
    /\ hints' = [hints EXCEPT ![c] = list]
    /\ waiting' = [waiting EXCEPT ![c] = 1 .. Len(list)]
    /\ stage' = [stage EXCEPT ![c] = next]

DiscoverSite(c, u) ==
    /\ stage[c] = "idle"
    /\ stage' = [stage EXCEPT ![c] = "page"]
    /\ site' = [site EXCEPT ![c] = u]
    /\ UNCHANGED <<hints, waiting, found, answered>>

\* The server does without the page if it cannot be fetched, the bridge does not.
ServerPage(c) ==
    /\ c \notin Bridge /\ stage[c] = "page"
    /\ LET paths == ServerPaths[site[c]]
       IN  \/ Probe(c, WithFallbacks(<<>>, paths), "probing")
           \/ \E a \in FetchFirstSuccessful(site[c]) :
                 Probe(c, WithFallbacks(WithFallbacks(CollectHtmlFeedCandidates(a), paths),
                                        ServerPaths[a.final]), "probing")
    /\ UNCHANGED <<site, found, answered>>

\* An answer that is an error is read like a page.
BridgePage(c) ==
    /\ c \in Bridge /\ stage[c] = "page"
    /\ \E a \in Web[site[c]] :
          /\ site' = [site EXCEPT ![c] = a.final]
          /\ Probe(c, ExtractAutodiscoveryLinks(a), "probing")
    /\ UNCHANGED <<found, answered>>

BridgePageFails(c) ==
    /\ c \in Bridge /\ stage[c] = "page"
    /\ stage' = [stage EXCEPT ![c] = "ranked"]
    /\ UNCHANGED <<site, hints, waiting, found, answered>>

\* discover: the paths are tried only if nothing was found.
TryPaths(c) ==
    /\ c \in Bridge /\ stage[c] = "probing" /\ waiting[c] = {}
    /\ found[c] = NoCandidates
    /\ Probe(c, [n \in DOMAIN BridgePaths[site[c]] |->
                    [url |-> BridgePaths[site[c]][n], title |-> NULL,
                     source |-> "commonpath"]], "paths")
    /\ UNCHANGED <<site, found, answered>>

-----------------------------------------------------------------------------
(***************************************************************************)
(* Probes                                                                  *)
(***************************************************************************)
\* Server: the answer must parse.
ProbeDiscoveredFeedCandidate(a) == a.ok /\ a.feed # NULL

\* Bridge: what the content type says is enough.
ValidateCandidate(a) == a.ok /\ (a.hint \/ a.feed # NULL)

\* The feed's own title, else the one of the hint.
Candidate(c, n, a) ==
    LET hint == hints[c][n]
        title == IF a.feed # NULL /\ a.feed.title # NULL THEN a.feed.title ELSE hint.title
    IN  [url |-> a.final, title |-> title, source |-> hint.source, feed |-> a.feed,
         score |-> FeedCandidateScore(a.final, title, hint.source, n)]

\* Mutant: the last to answer stays.
LastAnswer(map, new) ==
    [u \in DOMAIN map \cup {new.url} |-> IF u = new.url THEN new ELSE map[u]]

\* A higher score replaces the candidate, its title too; otherwise the first that
\* answered stays, and takes a title if it has none.
UpsertScoredCandidate(map, new) ==
    [u \in DOMAIN map \cup {new.url} |->
        IF u # new.url THEN map[u]
        ELSE IF u \notin DOMAIN map \/ new.score > map[u].score THEN new
        ELSE IF map[u].title = NULL THEN [map[u] EXCEPT !.title = new.title]
        ELSE map[u]]

\* The server takes any answer that comes, the bridge asks for one after the other.
Answers(c, n) ==
    /\ stage[c] \in {"probing", "paths"}
    /\ n \in waiting[c]
    /\ c \in Bridge => \A k \in waiting[c] : n <= k
    /\ waiting' = [waiting EXCEPT ![c] = @ \ {n}]

ProbeSucceeds(c, n, a) ==
    /\ Answers(c, n)
    /\ IF c \in Bridge THEN ValidateCandidate(a) ELSE ProbeDiscoveredFeedCandidate(a)
    /\ found' = [found EXCEPT ![c] = UpsertScoredCandidate(@, Candidate(c, n, a))]
    /\ answered' = [answered EXCEPT ![c] = @ \cup {Candidate(c, n, a)}]
    /\ UNCHANGED <<stage, site, hints>>

ProbeFails(c, n) ==
    /\ Answers(c, n)
    /\ UNCHANGED <<stage, site, hints, found, answered>>

Rank(c) ==
    /\ stage[c] \in {"probing", "paths"} /\ waiting[c] = {}
    /\ c \in Bridge => stage[c] = "paths" \/ found[c] # NoCandidates
    /\ stage' = [stage EXCEPT ![c] = "ranked"]
    /\ UNCHANGED <<site, hints, waiting, found, answered>>

EndDiscovery(c) ==
    /\ stage' = [stage EXCEPT ![c] = "idle"]
    /\ site' = [site EXCEPT ![c] = NULL]
    /\ hints' = [hints EXCEPT ![c] = <<>>]
    /\ waiting' = [waiting EXCEPT ![c] = {}]
    /\ found' = [found EXCEPT ![c] = NoCandidates]
    /\ answered' = [answered EXCEPT ![c] = {}]

\* What a discovery does between its call and its return.
Discovering(c) ==
    \/ ServerPage(c) \/ BridgePage(c) \/ BridgePageFails(c) \/ TryPaths(c)
    \/ \E n \in waiting[c] :
          \/ \E a \in Web[hints[c][n].url] : ProbeSucceeds(c, n, a)
          \/ ProbeFails(c, n)
    \/ Rank(c)

DiscoveryNext ==
    \E c \in Clients :
        \/ Discovering(c)
        \/ EndDiscovery(c)
        \/ \E u \in Urls : DiscoverSite(c, u)

DiscoverySpec == DiscoveryInit /\ [][DiscoveryNext]_discoveryVars

-----------------------------------------------------------------------------
(***************************************************************************)
(* Which of the candidates is subscribed to                                *)
(***************************************************************************)
\* Server: max_by returns the last of several, which is the last by URL.
ServerChoice(map) ==
    CHOOSE u \in DOMAIN map : \A v \in DOMAIN map :
        \/ map[u].score > map[v].score
        \/ map[u].score = map[v].score /\ u >= v

\* Bridge: the first by confidence, which is the first by URL.
BridgeChoice(map) ==
    CHOOSE u \in DOMAIN map : \A v \in DOMAIN map :
        LET left == ConfidenceFromScore(map[u].score)
            right == ConfidenceFromScore(map[v].score)
        IN  left > right \/ (left = right /\ u <= v)

-----------------------------------------------------------------------------
(***************************************************************************)
(* Properties                                                              *)
(***************************************************************************)
\* The ranking depends on what the probes answered and not on the order they answered in
\* (docs/discovery.md, steps 10 and 11): each final URL has the best of the scores that
\* its hints got.
RankingIsDeterministic ==
    \A c \in Clients :
        /\ DOMAIN found[c] = {k.url : k \in answered[c]}
        /\ \A u \in DOMAIN found[c] :
              LET scores == {k.score : k \in {l \in answered[c] : l.url = u}}
              IN  found[c][u].score \in scores /\ \A s \in scores : s <= found[c][u].score

=============================================================================
