------------------------------- MODULE FeedItems ------------------------------
(***************************************************************************)
(* What the parser makes of a feed document: which format it takes it for, *)
(* and what each item becomes, its identity above all.  A document is      *)
(*   hint   the format its content type names, or Absent                   *)
(*   root   the format it is well-formed in, or Absent                     *)
(*   looks  what its first bytes look like, or Absent                      *)
(*   items  its items, in order                                            *)
(* and an item is                                                          *)
(*   pub     the publication it is about (no part of the document)         *)
(*   guid    its guid or id, Blank or Absent                               *)
(*   url     its URL, or Absent                                            *)
(*   hashed  what its title, URL, summary and HTML hash to                 *)
(*   text    the text it shows, or Absent                                  *)
(* An id is the hash of a string: of the guid, of the URL or of a title    *)
(* with a hash, all in one space and none with the feed in it.             *)
(***************************************************************************)
EXTENDS Sequences

Absent == "(absent)"
Blank == "(blank)"

NonEmpty(value) == IF value = Blank THEN Absent ELSE value

FirstOf(value, otherwise) == IF value = Absent THEN otherwise ELSE value

\* Mutant: the hash counts before the URL.
HashFirst(external, item) == FirstOf(external, item.hashed)

\* The id that the guid, else the URL, else the content gives.
ItemId(external, item) == FirstOf(external, FirstOf(item.url, item.hashed))

Normalized(external, item) ==
    [id |-> ItemId(external, item), pub |-> item.pub, external |-> external,
     url |-> item.url, text |-> NonEmpty(item.text)]

MapItems(Op(_), items) == [n \in DOMAIN items |-> Op(items[n])]

\* An RSS guid counts though it is blank.
RssItem(item) == Normalized(item.guid, item)
ParseRss(document) == MapItems(RssItem, document.items)

AtomItem(item) == Normalized(NonEmpty(item.guid), item)
ParseAtom(document) == MapItems(AtomItem, document.items)

JsonItem(item) == Normalized(NonEmpty(item.guid), item)
ParseJsonFeed(document) == MapItems(JsonItem, document.items)

\* The content type decides, then the first bytes.
DetectFeedType(document) == FirstOf(document.hint, document.looks)

\* One parser, or each in turn; what it cannot read is an error.
Parses(document) ==
    LET type == DetectFeedType(document)
    IN  document.root # Absent /\ type \in {Absent, document.root}

ParseFeed(document) ==
    CASE document.root = "rss" -> ParseRss(document)
      [] document.root = "atom" -> ParseAtom(document)
      [] document.root = "json" -> ParseJsonFeed(document)

=============================================================================
