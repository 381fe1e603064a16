--------------------------------- MODULE Icons --------------------------------
(***************************************************************************)
(* Which image becomes the icon of a site: the ranking of the crate icon,  *)
(* and the choice that the server makes by fetching one after the other.   *)
(* A page is                                                               *)
(*   links   [url, rel, size], rel "apple" or "icon" if its rel says so,   *)
(*           size the width and height of its sizes, or NULL               *)
(*   images  the URLs of its og:image                                      *)
(***************************************************************************)
EXTENDS Integers, Sequences, SequencesExt

CONSTANTS
    U32,    \* the largest number of 32 bits
    NULL

\* saturating_mul of two numbers of 32 bits.
Saturating(w, h) == IF w # 0 /\ h > U32 \div w THEN U32 ELSE w * h

\* A hint that is too far from a square counts for nothing; one of no width or height
\* divides by zero, and its ratio is not within 5:4 either.
CandidateSizeScore(size) ==
    IF size = NULL THEN 0
    ELSE LET w == size[1]
             h == size[2]
         IN  IF 4 * w <= 5 * h /\ 4 * h <= 5 * w THEN Saturating(w, h) ELSE 0

SourcePriority(source) ==
    CASE source = "feed" -> 4 [] source = "icon" -> 3
      [] source = "apple" -> 2 [] source = "og" -> 1

RanksBefore(a, b) ==
    \/ SourcePriority(a.source) > SourcePriority(b.source)
    \/ /\ SourcePriority(a.source) = SourcePriority(b.source)
       /\ CandidateSizeScore(a.size) > CandidateSizeScore(b.size)

\* A stable sort: each comes before the first that it ranks before.
Insert(sorted, k) ==
    LET later == {n \in DOMAIN sorted : RanksBefore(k, sorted[n])}
        place == IF later = {} THEN Len(sorted) + 1
                 ELSE CHOOSE n \in later : \A l \in later : n <= l
    IN  InsertAt(sorted, place, k)

SortCandidates(candidates) == FoldLeft(Insert, <<>>, candidates)

\* The image of the feed, the links and the images of the page, each URL once.
ExtractIconCandidates(page, feedImage) ==
    LET Icon(url, source, size) == [url |-> url, source |-> source, size |-> size]
        links == SelectSeq(page.links, LAMBDA link : link.rel \in {"apple", "icon"})
        all == (IF feedImage = NULL THEN <<>> ELSE <<Icon(feedImage, "feed", NULL)>>)
               \o [n \in DOMAIN links |-> Icon(links[n].url, links[n].rel, links[n].size)]
               \o [n \in DOMAIN page.images |-> Icon(page.images[n], "og", NULL)]
    IN  SortCandidates(
            FoldLeft(LAMBDA seen, k :
                        IF \E n \in DOMAIN seen : seen[n].url = k.url THEN seen
                        ELSE Append(seen, k),
                     <<>>, all))

\* reply[u] is "image", "unfit" (an error status, too large or no image) or "unreachable",
\* which ends the search.  favicon is tried if every candidate is unfit.
SiteIcon(candidates, favicon, reply) ==
    LET urls == Append([n \in DOMAIN candidates |-> candidates[n].url], favicon)
        ended == {n \in DOMAIN urls : reply[urls[n]] # "unfit"}
        first == CHOOSE n \in ended : \A k \in ended : n <= k
    IN  IF ended = {} \/ reply[urls[first]] # "image" THEN NULL ELSE urls[first]

=============================================================================
