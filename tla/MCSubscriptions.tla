--------------------------- MODULE MCSubscriptions ----------------------------
(***************************************************************************)
(* The instance of Subscriptions that TLC checks.  1 is a site, 2 its      *)
(* feed, 3 a page that is served as a feed and is none.                    *)
(***************************************************************************)
EXTENDS Subscriptions

\* 16 stands for the largest number of 32 bits.
INSTANCE Icons WITH U32 <- 16

CONSTANTS News, LowerNews   \* "News" and "news"

Answer(u, parsed) ==
    [ok |-> TRUE, final |-> u, hint |-> u # 1, feed |-> parsed,
     links |-> <<>>, anchors |-> <<>>]

\* The feed has no title of its own; two links of the site lead to it.
Site ==
    [Answer(1, NULL) EXCEPT
        !.links = <<[url |-> 3, title |-> "titled", typed |-> TRUE],
                    [url |-> 1, title |-> NULL, typed |-> FALSE],
                    [url |-> 2, title |-> NULL, typed |-> TRUE]>>,
        !.anchors = <<[url |-> 3, looks |-> FALSE], [url |-> 2, looks |-> TRUE]>>]

TheWeb ==
    [u \in Urls |->
        CASE u = 1 -> {Site}
          [] u = 2 -> {Answer(2, [title |-> NULL])}
          [] u = 3 -> {Answer(3, NULL)}]

TheWords == [u \in Urls |-> IF u = 2 THEN {"rss"} ELSE {}]
TheSiteUrls == [u \in Urls |-> {u}]
ThePaths == [u \in Urls |-> IF u = 1 THEN <<2>> ELSE <<>>]

TheLower == [n \in Names |-> LowerNews]

TheAlphabet == [n \in Names |-> IF n = News THEN 1 ELSE 2]

\* A folder in a folder, a folder without a name, the same feed in two folders with the
\* same name and with two titles, and a document with a URL that is none.
TheDocuments ==
    {<<Outline(2, "titled", <<LowerNews, News>>), Outline(2, "other", <<LowerNews>>)>>,
     <<Outline(3, "titled", <<NULL>>), Outline(2, NULL, <<Blank>>)>>,
     <<Outline(2, NULL, <<>>), Outline(0, NULL, <<>>)>>}

-----------------------------------------------------------------------------
(***************************************************************************)
(* The ranking of icons against its definition, on all pages of up to two  *)
(* links and an image: TLC evaluates the assumption.                       *)
(***************************************************************************)
Links == [url : {"a", "b"}, rel : {"apple", "icon", "stylesheet"},
          size : {NULL, <<0, 0>>, <<4, 5>>, <<6, 6>>, <<9, 1>>}]
IconPages == [links : SeqOf(Links, 2), images : {<<>>, <<"a">>, <<"c", "c">>}]
Replies == [{"a", "b", "c"} -> {"image", "unfit", "unreachable"}]

\* The candidates of a page are its URLs, each once; no candidate ranks before an earlier
\* one, and of two that rank alike the one first met in the page stays first.
RanksIcons(page, feedImage) ==
    LET list == ExtractIconCandidates(page, feedImage)
        icons == SelectSeq(page.links, LAMBDA link : link.rel # "stylesheet")
        met == (IF feedImage = NULL THEN <<>> ELSE <<feedImage>>)
               \o [n \in DOMAIN icons |-> icons[n].url] \o page.images
        First(u) == CHOOSE n \in DOMAIN met :
                        met[n] = u /\ \A k \in DOMAIN met : met[k] = u => n <= k
    IN  /\ {list[n].url : n \in DOMAIN list} = {met[n] : n \in DOMAIN met}
        /\ \A n, k \in DOMAIN list : n < k =>
              /\ list[n].url # list[k].url
              /\ \/ RanksBefore(list[n], list[k])
                 \/ /\ ~RanksBefore(list[k], list[n])
                    /\ First(list[n].url) < First(list[k].url)

\* The icon of a site is an image, and of the candidates before it each is unfit.
PicksIcon(page, reply) ==
    LET list == ExtractIconCandidates(page, NULL)
        icon == SiteIcon(list, "c", reply)
    IN  icon # NULL =>
            /\ reply[icon] = "image"
            /\ \A n \in DOMAIN list :
                  (\A k \in 1 .. n : list[k].url # icon) => reply[list[n].url] = "unfit"

ASSUME IconsAreRanked ==
    \A page \in IconPages :
        /\ \A feedImage \in {NULL, "b"} : RanksIcons(page, feedImage)
        /\ \A reply \in Replies : PicksIcon(page, reply)

=============================================================================
