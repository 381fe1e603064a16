----------------------------- MODULE Subscriptions -----------------------------
(***************************************************************************)
(* Subscriptions: how feeds and groups get into the tables, and what a     *)
(* user does with them.  Calls of the server and of the bridge subscribe   *)
(* to a feed, directly or by Discovery, import and export OPML, make       *)
(* groups, rename, move and delete feeds.  Every call has a connection of  *)
(* its own, and its statements are steps.                                  *)
(*                                                                         *)
(* Every call that stores feeds is a list of rows to store: one for a      *)
(* subscription, any number for an import.  What record_fetch_result and   *)
(* the schedule of a feed are is in FeedSchedule and RefreshContent, what  *)
(* its articles are in EntryStore: here a feed has them or not.            *)
(***************************************************************************)
EXTENDS Discovery, FiniteSetsExt

CONSTANTS
    Inputs,      \* the URLs that users enter
    Titles,      \* that a user gives
    Names,       \* of groups, trimmed
    Lower,       \* the lower case of each
    Blank,       \* a name of spaces
    Alphabet,    \* the place of each in alphabetical order
    Documents,   \* OPML: sequences of outlines [xml, title, folders]
    MaxCalls,    \* bound: how many calls are begun
    MaxCrashes   \* bound: how many of them are killed

ASSUME SubscriptionsAssumptions ==
    /\ MaxCalls \in Nat /\ MaxCrashes \in Nat
    /\ Blank \notin Names
    /\ Inputs \subseteq Urls
    /\ DOMAIN Lower = Names
    /\ Alphabet \in [Names -> Nat \ {0}]
    /\ \A g, h \in Names : Alphabet[g] = Alphabet[h] => g = h

ASSUME DocumentsAssumption ==
    \A document \in Documents :
        /\ Len(document) \in Nat /\ DOMAIN document = 1 .. Len(document)
        /\ \A n \in DOMAIN document : document[n].folders \in Seq(Names \cup {Blank, NULL})

\* No other value is taken for the one that says there is none.
ASSUME NullAssumption ==
    NULL \notin Nat \cup Names \cup {Blank}

VARIABLES
    feed,      \* the row of each URL, or NoRow: [id, title, group, full, icon]
    groups,    \* names of groups
    articles,  \* ids of feeds whose articles are stored
    jobs,      \* ids of feeds whose icon is fetched in the background
    cache,     \* the sites that discovery_cache has, which nothing reads
    rows,      \* how many ids were given
    op,        \* the call of each client
    calls, crashes,
    \* of the properties only:
    promised,  \* feeds of which a subscription returned with its articles stored
    cut,       \* feeds whose deletion was killed halfway
    twins      \* lower case of names that two calls were about to make at once

tableVars == <<feed, groups, articles, jobs, cache, rows>>
ghostVars == <<promised, cut, twins>>
vars == <<discoveryVars, tableVars, op, calls, crashes, ghostVars>>

Idle == [at |-> "idle"]

\* Of a URL that is no feed: ids begin at one.
NoRow == [id |-> 0]

\* The steps of a call that stores rows.
Steps == {"select", "write", "items", "finish", "group", "newgroup", "member",
          "return", "failed"}

TypeOK ==
    /\ DiscoveryTypeOK
    /\ DOMAIN feed = Urls
    /\ \A u \in Urls : feed[u] # NoRow =>
          /\ feed[u].id \in 1 .. rows
          /\ feed[u].group \in groups \cup {NULL}
          /\ feed[u].full \in BOOLEAN
          /\ feed[u].icon \in {NULL, "url", "asset"}
    /\ \A u, v \in Urls : feed[u] # NoRow /\ feed[v] # NoRow /\ feed[u].id = feed[v].id =>
          u = v
    /\ groups \subseteq Names
    /\ articles \subseteq 1 .. rows /\ jobs \subseteq 1 .. rows
    /\ cache \subseteq Urls
    /\ DOMAIN op = Clients
    /\ \A c \in Clients :
          /\ op[c].at \in {"idle", "probe", "discovering", "row", "full"} \cup Steps
          /\ op[c].at \in Steps => op[c].done \in 0 .. Len(op[c].all)
          /\ op[c].at # "discovering" => stage[c] = "idle"
    /\ calls \in 0 .. MaxCalls /\ crashes \in 0 .. MaxCrashes

Init ==
    /\ DiscoveryInit
    /\ feed = [u \in Urls |-> NoRow]
    /\ groups = {} /\ articles = {} /\ jobs = {} /\ cache = {} /\ rows = 0
    /\ op = [c \in Clients |-> Idle]
    /\ calls = 0 /\ crashes = 0
    /\ promised = {} /\ cut = {} /\ twins = {}

-----------------------------------------------------------------------------
Call(c) ==
    /\ op[c] = Idle
    /\ calls < MaxCalls
    /\ calls' = calls + 1

\* The feeds and groups of the rows that a call stores.
Stores(d) == UNION {{op[d].all[n].url, op[d].all[n].group} : n \in DOMAIN op[d].all}

\* A client goes on, having changed the feeds and groups in touched, which the calls of
\* the others that store rows take note of.
Go(c, step, touched) ==
    op' = [d \in Clients |->
              IF d = c THEN step
              ELSE IF op[d].at \in Steps
              THEN [op[d] EXCEPT !.moved = @ \cup (touched \cap Stores(d))]
              ELSE op[d]]

Return(c, touched) == Go(c, Idle, touched)

Live(u, id) == feed[u] # NoRow /\ feed[u].id = id

\* To store rows [url, title, group]: with the articles of a snapshot or without, and
\* with or without an icon.
Storing(all, snapshot, icon) ==
    [at |-> "select", all |-> all, done |-> 0, id |-> NULL, group |-> NULL,
     snapshot |-> snapshot, icon |-> icon, moved |-> {}]

Row(u, title, group) == [url |-> u, title |-> title, group |-> group]

Current(c) == op[c].all[op[c].done + 1]

-----------------------------------------------------------------------------
(***************************************************************************)
(* Subscription by URL                                                     *)
(***************************************************************************)
\* add_subscription: the URL must be a feed; title is the user's, in case it has none.
BeginAdd(c, u, title) ==
    /\ Call(c)
    /\ Go(c, [at |-> "probe", url |-> u, title |-> title, add |-> TRUE], {})
    /\ UNCHANGED <<discoveryVars, tableVars, crashes, ghostVars>>

BeginSubscribe(c, u) ==
    /\ Call(c)
    /\ Go(c, [at |-> "probe", url |-> u, title |-> NULL, add |-> FALSE], {})
    /\ UNCHANGED <<discoveryVars, tableVars, crashes, ghostVars>>

\* The answer is a feed, whose articles are stored under its final URL.
IsFeed(a) == a.ok /\ a.feed # NULL

StoreAnswer(c, a, icon) ==
    LET title == IF a.feed.title # NULL THEN a.feed.title ELSE op[c].title
    IN  Go(c, Storing(<<Row(a.final, title, NULL)>>, TRUE, icon), {})

AddSubscription(c) ==
    /\ op[c].at = "probe" /\ op[c].add /\ c \notin Bridge
    /\ \E a \in Web[op[c].url] : IsFeed(a) /\ StoreAnswer(c, a, "job")
    /\ UNCHANGED <<discoveryVars, tableVars, calls, crashes, ghostVars>>

BridgeAddSubscription(c) ==
    /\ op[c].at = "probe" /\ op[c].add /\ c \in Bridge
    /\ \E a \in Web[op[c].url] : IsFeed(a) /\ StoreAnswer(c, a, "url")
    /\ UNCHANGED <<discoveryVars, tableVars, calls, crashes, ghostVars>>

\* subscribe_input of the server tries the other forms of the URL too.  What is not a
\* feed is discovered, from where it led, and what nothing answered as well.
SubscribeInput(c) ==
    /\ op[c].at = "probe" /\ ~op[c].add /\ c \notin Bridge
    /\ \/ \E a \in FetchFirstSuccessful(op[c].url) :
             /\ IsFeed(a)
             /\ StoreAnswer(c, a, "job")
             /\ UNCHANGED discoveryVars
       \/ /\ \/ DiscoverSite(c, op[c].url)
             \/ \E a \in FetchFirstSuccessful(op[c].url) :
                   ~IsFeed(a) /\ DiscoverSite(c, a.final)
          /\ Go(c, [at |-> "discovering", subscribe |-> TRUE], {})
    /\ UNCHANGED <<tableVars, calls, crashes, ghostVars>>

\* probe_direct_feed of the bridge: an error status or a page leads to discovery, a failure
\* of the network to an error.
BridgeSubscribeInput(c) ==
    /\ op[c].at = "probe" /\ ~op[c].add /\ c \in Bridge
    /\ \E a \in Web[op[c].url] :
          IF IsFeed(a)
          THEN StoreAnswer(c, a, "none") /\ UNCHANGED discoveryVars
          ELSE /\ DiscoverSite(c, op[c].url)
               /\ Go(c, [at |-> "discovering", subscribe |-> TRUE], {})
    /\ UNCHANGED <<tableVars, calls, crashes, ghostVars>>

\* add_subscription_by_feed_url of the facade leaves the icon to its caller.
CoreAddSubscription(c) ==
    /\ op[c].at = "probe" /\ op[c].add /\ op[c].title = NULL
    /\ \E a \in Web[op[c].url] : IsFeed(a) /\ StoreAnswer(c, a, "none")
    /\ UNCHANGED <<discoveryVars, tableVars, calls, crashes, ghostVars>>

ProbeIsRefused(c) ==
    /\ op[c].at = "probe"
    /\ op[c].add \/ c \in Bridge
    /\ Return(c, {})
    /\ UNCHANGED <<discoveryVars, tableVars, calls, crashes, ghostVars>>

\* discover_site, whose result the user picks from with add_subscription.
BeginDiscover(c, u) ==
    /\ Call(c)
    /\ DiscoverSite(c, u)
    /\ Go(c, [at |-> "discovering", subscribe |-> FALSE], {})
    /\ UNCHANGED <<tableVars, crashes, ghostVars>>

Discovers(c) ==
    /\ op[c].at = "discovering"
    /\ Discovering(c)
    /\ UNCHANGED <<tableVars, op, calls, crashes, ghostVars>>

\* The server keeps what a discovery found.
ReturnDiscovered(c) ==
    /\ op[c].at = "discovering" /\ ~op[c].subscribe
    /\ stage[c] = "ranked"
    /\ cache' = IF c \in Bridge THEN cache ELSE cache \cup {site[c]}
    /\ EndDiscovery(c)
    /\ Return(c, {})
    /\ UNCHANGED <<feed, groups, articles, jobs, rows, calls, crashes, ghostVars>>

\* subscribe_discovered_feed of the facade: the row of any candidate.
CoreSubscribeDiscovered(c) ==
    /\ op[c].at = "discovering" /\ ~op[c].subscribe
    /\ stage[c] = "ranked"
    /\ \E u \in DOMAIN found[c] :
          Go(c, Storing(<<Row(u, found[c][u].title, NULL)>>, FALSE, "none"), {})
    /\ EndDiscovery(c)
    /\ UNCHANGED <<tableVars, calls, crashes, ghostVars>>

NothingDiscovered(c) ==
    /\ op[c].at = "discovering" /\ op[c].subscribe
    /\ stage[c] = "ranked" /\ found[c] = NoCandidates
    /\ EndDiscovery(c)
    /\ Return(c, {})
    /\ UNCHANGED <<tableVars, calls, crashes, ghostVars>>

\* The server stores the articles that the probe brought ...
SubscribeDiscovered(c) ==
    /\ op[c].at = "discovering" /\ op[c].subscribe /\ c \notin Bridge
    /\ stage[c] = "ranked" /\ found[c] # NoCandidates
    /\ LET u == ServerChoice(found[c])
       IN  Go(c, Storing(<<Row(u, found[c][u].title, NULL)>>, TRUE, "job"), {})
    /\ EndDiscovery(c)
    /\ UNCHANGED <<tableVars, calls, crashes, ghostVars>>

\* ... the bridge only the feed.
BridgeSubscribeDiscovered(c) ==
    /\ op[c].at = "discovering" /\ op[c].subscribe /\ c \in Bridge
    /\ stage[c] = "ranked" /\ found[c] # NoCandidates
    /\ LET u == BridgeChoice(found[c])
       IN  Go(c, Storing(<<Row(u, found[c][u].title, NULL)>>, FALSE, "none"), {})
    /\ EndDiscovery(c)
    /\ UNCHANGED <<tableVars, calls, crashes, ghostVars>>

-----------------------------------------------------------------------------
(***************************************************************************)
(* OPML                                                                    *)
(***************************************************************************)
\* A document is its feeds in their order, each with the titles of the folders it is in,
\* from the outermost: what of the tree of outlines an import sees.
Outline(u, title, folders) == [xml |-> u, title |-> title, folders |-> folders]

\* Mutant: the folder around the innermost is the group.
CollectOuter(outline) ==
    Row(outline.xml, outline.title,
        IF Len(outline.folders) < 2 THEN NULL ELSE outline.folders[Len(outline.folders) - 1])

\* The innermost folder is the group, and a folder without a name is none.
CollectOutline(outline) ==
    Row(outline.xml, outline.title,
        IF outline.folders = <<>> THEN NULL ELSE outline.folders[Len(outline.folders)])

ImportOpml(document) == [n \in DOMAIN document |-> CollectOutline(document[n])]

\* Every URL is one of the web, or the whole document is refused.
ParseWebUrls(list) == \A n \in DOMAIN list : list[n].url \in Urls

\* Feeds without a group come first, then a folder for each group.
ExportOpml(list) ==
    LET Place(n) == IF list[n].group = NULL THEN 0 ELSE Alphabet[list[n].group]
        order == InOrder(DOMAIN list,
                    [n \in DOMAIN list |->
                        {k \in DOMAIN list : \/ Place(k) < Place(n)
                                             \/ Place(k) = Place(n) /\ k <= n}])
        Leaf(row) == Outline(row.url, row.title,
                             IF row.group = NULL THEN <<>> ELSE <<row.group>>)
    IN  [i \in DOMAIN list |-> Leaf(list[order[i]])]

Subscribed == {u \in Urls : feed[u] # NoRow}

\* In the order in which they were made.
ListFeeds ==
    InOrder(Subscribed,
            [u \in Subscribed |-> {v \in Subscribed : feed[v].id <= feed[u].id}])

ExportSubscriptions ==
    LET listed == ListFeeds
    IN  ExportOpml([n \in DOMAIN listed |->
            Row(listed[n], feed[listed[n]].title, feed[listed[n]].group)])

ImportSubscriptions(c, document) ==
    /\ Call(c)
    /\ LET list == ImportOpml(document)
       IN  Go(c, IF list = <<>> \/ ~ParseWebUrls(list) THEN Idle
                 ELSE Storing(list, FALSE, "none"), {})
    /\ UNCHANGED <<discoveryVars, tableVars, crashes, ghostVars>>

-----------------------------------------------------------------------------
(***************************************************************************)
(* The statements that store a row                                         *)
(***************************************************************************)
\* After upsert_feed come the articles, or the group if the row has one.
AfterFeed(c, id) ==
    LET o == [op[c] EXCEPT !.id = id]
    IN  IF o.snapshot THEN [o EXCEPT !.at = "items"]
        ELSE IF Current(c).group \notin {NULL, Blank} THEN [o EXCEPT !.at = "group"]
        ELSE [o EXCEPT !.done = @ + 1,
                       !.at = IF op[c].done + 1 = Len(o.all) THEN "return" ELSE "select"]

RowDone(c) ==
    [op[c] EXCEPT !.done = @ + 1,
                  !.at = IF op[c].done + 1 = Len(op[c].all) THEN "return" ELSE "select"]

Failed(c) == [op[c] EXCEPT !.at = "failed"]

\* upsert_feed looks for the feed ...
SelectFeed(c) ==
    /\ op[c].at = "select"
    /\ LET u == Current(c).url
       IN  Go(c, [op[c] EXCEPT !.at = "write",
                               !.id = IF feed[u] = NoRow THEN NULL ELSE feed[u].id], {})
    /\ UNCHANGED <<discoveryVars, tableVars, calls, crashes, ghostVars>>

\* Mutant: a title that is there stays.
KeepTitle(c) ==
    /\ op[c].at = "write" /\ op[c].id # NULL
    /\ Go(c, AfterFeed(c, op[c].id), {Current(c).url})
    /\ UNCHANGED <<discoveryVars, tableVars, calls, crashes, ghostVars>>

\* ... and updates its row, which may be gone meanwhile ...
UpdateRow(c) ==
    /\ op[c].at = "write" /\ op[c].id # NULL
    /\ LET row == Current(c)
       IN  /\ feed' = IF Live(row.url, op[c].id) /\ row.title # NULL
                      THEN [feed EXCEPT ![row.url].title = row.title] ELSE feed
           /\ Go(c, AfterFeed(c, op[c].id), {row.url})
    /\ UNCHANGED <<discoveryVars, groups, articles, jobs, cache, rows, calls, crashes,
                   ghostVars>>

\* ... or inserts one, which may be there meanwhile: feed_url is unique.
InsertRow(c) ==
    /\ op[c].at = "write" /\ op[c].id = NULL
    /\ LET row == Current(c)
       IN  IF feed[row.url] # NoRow
           THEN Go(c, Failed(c), {}) /\ UNCHANGED <<feed, rows>>
           ELSE /\ rows' = rows + 1
                /\ feed' = [feed EXCEPT ![row.url] =
                      [id |-> rows + 1, title |-> row.title, group |-> NULL,
                       full |-> TRUE, icon |-> NULL]]
                /\ Go(c, AfterFeed(c, rows + 1), {row.url})
    /\ UNCHANGED <<discoveryVars, groups, articles, jobs, cache, calls, crashes, ghostVars>>

\* Mutant: the items keep the id they were parsed under.
StoreUnbound(c) ==
    /\ op[c].at = "items"
    /\ Go(c, [op[c] EXCEPT !.at = "finish"], {})
    /\ UNCHANGED <<discoveryVars, tableVars, calls, crashes, ghostVars>>

\* persist_parsed_feed_snapshot: the articles, whether the row is still there or not ...
StoreItems(c) ==
    /\ op[c].at = "items"
    /\ articles' = articles \cup {op[c].id}
    /\ Go(c, [op[c] EXCEPT !.at = "finish"], {})
    /\ UNCHANGED <<discoveryVars, feed, groups, jobs, cache, rows, calls, crashes, ghostVars>>

\* ... and the fetch result, an error if the row is gone; then the icon by its URL.
FinishSubscription(c) ==
    /\ op[c].at = "finish"
    /\ LET u == Current(c).url
           id == op[c].id
       IN  IF ~Live(u, id)
           THEN Go(c, Failed(c), {}) /\ UNCHANGED <<feed, jobs, promised>>
           ELSE /\ feed' = IF op[c].icon = "none" THEN feed
                           ELSE [feed EXCEPT ![u].icon = "url"]
                /\ jobs' = IF op[c].icon = "job" THEN jobs \cup {id} ELSE jobs
                /\ promised' = promised \cup {id}
                /\ Go(c, RowDone(c), {})
    /\ UNCHANGED <<discoveryVars, groups, articles, cache, rows, calls, crashes, cut, twins>>

\* Mutant: the name is compared as it is spelled.
SameSpelling(name) == groups \cap {name}

SameName(name) == {n \in groups : Lower[n] = Lower[name]}

\* create_group takes any group of that name in whatever case ...
FindGroup(c) ==
    /\ op[c].at = "group"
    /\ LET same == SameName(Current(c).group)
       IN  IF same = {} THEN Go(c, [op[c] EXCEPT !.at = "newgroup"], {})
           ELSE \E n \in same : Go(c, [op[c] EXCEPT !.at = "member", !.group = n], {})
    /\ UNCHANGED <<discoveryVars, tableVars, calls, crashes, ghostVars>>

\* ... or makes one: names are unique as they are spelled.
InsertGroup(c) ==
    /\ op[c].at = "newgroup"
    /\ LET name == Current(c).group
           others == {d \in Clients \ {c} : op[d].at = "newgroup"
                                            /\ Lower[Current(d).group] = Lower[name]}
       IN  /\ IF name \in groups THEN Go(c, Failed(c), {})
              ELSE Go(c, [op[c] EXCEPT !.at = "member", !.group = name], {name})
           /\ groups' = groups \cup {name}
           /\ twins' = IF others = {} THEN twins ELSE twins \cup {Lower[name]}
    /\ UNCHANGED <<discoveryVars, feed, articles, jobs, cache, rows, calls, crashes,
                   promised, cut>>

\* Mutant: the feed gets the name given, not the group found.
AssignName(c) ==
    /\ op[c].at = "member"
    /\ LET row == Current(c)
       IN  IF row.url = NULL THEN Go(c, RowDone(c), {}) /\ UNCHANGED feed
           ELSE IF ~Live(row.url, op[c].id) THEN Go(c, Failed(c), {}) /\ UNCHANGED feed
           ELSE /\ feed' = [feed EXCEPT ![row.url].group = row.group]
                /\ Go(c, RowDone(c), {row.url})
    /\ UNCHANGED <<discoveryVars, groups, articles, jobs, cache, rows, calls, crashes,
                   ghostVars>>

\* set_feed_group: a membership of a feed that is gone violates a foreign key.
AssignGroup(c) ==
    /\ op[c].at = "member"
    /\ LET u == Current(c).url
       IN  IF u = NULL THEN Go(c, RowDone(c), {}) /\ UNCHANGED feed
           ELSE IF ~Live(u, op[c].id) THEN Go(c, Failed(c), {}) /\ UNCHANGED feed
           ELSE /\ feed' = [feed EXCEPT ![u].group = op[c].group]
                /\ Go(c, RowDone(c), {u})
    /\ UNCHANGED <<discoveryVars, groups, articles, jobs, cache, rows, calls, crashes,
                   ghostVars>>

Respond(c) ==
    /\ op[c].at \in {"return", "failed"}
    /\ Return(c, {})
    /\ UNCHANGED <<discoveryVars, tableVars, calls, crashes, ghostVars>>

-----------------------------------------------------------------------------
(***************************************************************************)
(* What users do with feeds and groups                                     *)
(***************************************************************************)
CreateGroup(c, name) ==
    /\ Call(c)
    /\ Go(c, [Storing(<<Row(NULL, NULL, name)>>, FALSE, "none") EXCEPT !.at = "group"], {})
    /\ UNCHANGED <<discoveryVars, tableVars, crashes, ghostVars>>

SetFeedGroup(c, u, group) ==
    /\ Call(c)
    /\ feed[u] # NoRow
    /\ feed' = [feed EXCEPT ![u].group = group]
    /\ Return(c, {u})
    /\ UNCHANGED <<discoveryVars, groups, articles, jobs, cache, rows, crashes, ghostVars>>

\* update_feed sets the title, then whether full text is fetched, each if given.
UpdateFeedTitle(c, u, title, full) ==
    /\ Call(c)
    /\ feed[u] # NoRow
    /\ feed' = [feed EXCEPT ![u].title = title]
    /\ Go(c, IF full = NULL THEN Idle
             ELSE [at |-> "full", url |-> u, id |-> feed[u].id, full |-> full], {u})
    /\ UNCHANGED <<discoveryVars, groups, articles, jobs, cache, rows, crashes, ghostVars>>

UpdateFeedAutoFullText(c) ==
    /\ op[c].at = "full"
    /\ feed' = IF Live(op[c].url, op[c].id)
               THEN [feed EXCEPT ![op[c].url].full = op[c].full] ELSE feed
    /\ Return(c, {})
    /\ UNCHANGED <<discoveryVars, groups, articles, jobs, cache, rows, calls, crashes,
                   ghostVars>>

DeleteEntries(c, u) ==
    /\ Call(c)
    /\ feed[u] # NoRow
    /\ articles' = articles \ {feed[u].id}
    /\ Go(c, [at |-> "row", url |-> u, id |-> feed[u].id], {u})
    /\ UNCHANGED <<discoveryVars, feed, groups, jobs, cache, rows, crashes, ghostVars>>

DeleteRow(c) ==
    /\ op[c].at = "row"
    /\ feed' = IF Live(op[c].url, op[c].id) THEN [feed EXCEPT ![op[c].url] = NoRow] ELSE feed
    /\ Return(c, {op[c].url})
    /\ UNCHANGED <<discoveryVars, groups, articles, jobs, cache, rows, calls, crashes,
                   ghostVars>>

-----------------------------------------------------------------------------
\* The page of the site is read for icons and the first that is an image is stored; the
\* icon of a feed that is gone violates a foreign key, which is ignored.  Of several
\* jobs for one feed, which bring the same, the last is modelled.
CacheSiteIcon(id) ==
    /\ id \in jobs
    /\ feed' = [u \in Urls |-> IF Live(u, id) THEN [feed[u] EXCEPT !.icon = "asset"]
                                ELSE feed[u]]
    /\ jobs' = jobs \ {id}
    /\ UNCHANGED <<discoveryVars, groups, articles, cache, rows, op, calls, crashes, ghostVars>>

\* No image, or an error: a candidate that cannot be reached ends the job as well.
NoSiteIcon(id) ==
    /\ id \in jobs
    /\ jobs' = jobs \ {id}
    /\ UNCHANGED <<discoveryVars, feed, groups, articles, cache, rows, op, calls, crashes,
                   ghostVars>>

\* A call killed before its first statement leaves what one that is refused leaves.
Crash(c) ==
    /\ op[c].at \in Steps \cup {"row", "full"} /\ crashes < MaxCrashes
    /\ crashes' = crashes + 1
    /\ cut' = IF op[c].at = "row" THEN cut \cup {op[c].id} ELSE cut
    /\ Return(c, {})
    /\ UNCHANGED <<discoveryVars, tableVars, calls, promised, twins>>

Subscribe(c) ==
    \/ \E u \in Inputs : BeginSubscribe(c, u) \/ BeginDiscover(c, u)
    \/ \E u \in Inputs, title \in Titles \cup {NULL} : BeginAdd(c, u, title)
    \/ AddSubscription(c) \/ BridgeAddSubscription(c) \/ CoreAddSubscription(c)
    \/ ProbeIsRefused(c)
    \/ SubscribeInput(c) \/ BridgeSubscribeInput(c)
    \/ Discovers(c) \/ ReturnDiscovered(c) \/ NothingDiscovered(c)
    \/ SubscribeDiscovered(c) \/ BridgeSubscribeDiscovered(c) \/ CoreSubscribeDiscovered(c)

Store(c) ==
    \/ \E document \in Documents \cup {ExportSubscriptions} : ImportSubscriptions(c, document)
    \/ SelectFeed(c) \/ UpdateRow(c) \/ InsertRow(c) \/ StoreItems(c)
    \/ FinishSubscription(c) \/ FindGroup(c) \/ InsertGroup(c) \/ AssignGroup(c) \/ Respond(c)

Manage(c) ==
    \/ \E name \in Names : CreateGroup(c, name)
    \/ \E u \in Urls, group \in groups \cup {NULL} : SetFeedGroup(c, u, group)
    \/ \E u \in Urls, title \in Titles, full \in {NULL, FALSE} :
          UpdateFeedTitle(c, u, title, full)
    \/ UpdateFeedAutoFullText(c)
    \/ DeleteRow(c) \/ \E u \in Urls : DeleteEntries(c, u)

Next ==
    \/ \E c \in Clients : Subscribe(c) \/ Store(c) \/ Manage(c) \/ Crash(c)
    \/ \E id \in jobs : CacheSiteIcon(id) \/ NoSiteIcon(id)

Spec == Init /\ [][Next]_vars

-----------------------------------------------------------------------------
(***************************************************************************)
(* Properties                                                              *)
(***************************************************************************)
\* Each row that an import has stored, or a subscription, is there with its title and its
\* group, of several with one URL the last that was written, unless another call changed that feed
\* meanwhile; and storing a row fails only if another call got in between its statements.
ImportsAreComplete ==
    \A c \in {d \in Clients : op[d].at \in Steps} :
        LET o == op[c]
            written == IF o.at \in {"select", "write", "return"} THEN o.done ELSE o.done + 1
            Later(n, last) ==
                {o.all[k] : k \in {j \in n + 1 .. last : o.all[j].url = o.all[n].url}}
            Stored(n) ==
                LET row == o.all[n]
                IN  /\ feed[row.url] # NoRow
                    /\ row.title \in {NULL, feed[row.url].title}
                       \/ \E r \in Later(n, written) : r.title # NULL
                    /\ row.group \in {NULL, Blank}
                       \/ feed[row.url].group \in SameName(row.group)
                       \/ \E r \in Later(n, o.done) : r.group \notin {NULL, Blank}
        IN  /\ \A n \in 1 .. o.done :
                  \/ o.all[n].url \in o.moved
                  \/ o.all[n].url = NULL /\ SameName(o.all[n].group) # {}
                  \/ Stored(n)
            /\ o.at = "failed" => {Current(c).url, Current(c).group} \cap o.moved # {}

\* A feed whose subscription returned from the server, or directly from the bridge, has
\* its articles from then on (docs/discovery.md, "initial article list is available
\* immediately"), whoever subscribes again, imports or groups it, until it is deleted.
ArticlesAtOnce ==
    \A u \in Urls : feed[u] # NoRow =>
        \/ feed[u].id \in articles
        \/ feed[u].id \notin promised \ cut
        \/ \E c \in Clients : op[c].at = "row" /\ op[c].id = feed[u].id

\* No two groups differ by case only, though the table allows it, unless two calls made
\* them at once.
GroupsAreDistinct ==
    \A g, h \in groups : Lower[g] = Lower[h] => g = h \/ Lower[g] \in twins

\* What is exported is what an import reads back: every feed, once, with its title and
\* its group.
RoundTrip ==
    LET list == ImportOpml(ExportSubscriptions)
    IN  /\ {list[n] : n \in DOMAIN list} =
              {Row(u, feed[u].title, feed[u].group) : u \in Subscribed}
        /\ Len(list) = Cardinality(Subscribed)

=============================================================================
