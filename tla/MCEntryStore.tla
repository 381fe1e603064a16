---------------------------- MODULE MCEntryStore ------------------------------
(***************************************************************************)
(* The instance of EntryStore that TLC checks.                             *)
(***************************************************************************)
EXTENDS EntryStore

Item(pub, guid, url, hashed, text) ==
    [pub |-> pub, guid |-> guid, url |-> url, hashed |-> hashed, text |-> text]

\* An article in an RSS feed, its edited form in an Atom feed beside an article that
\* has a URL only and is edited in a JSON feed, two RSS items with blank guids, and an
\* answer that is no feed.
TheDocuments ==
    {[hint |-> "rss", root |-> "rss", looks |-> "rss",
      items |-> <<Item("p", "guid", "url", "hp1", "one")>>],
     [hint |-> Absent, root |-> "atom", looks |-> "atom",
      items |-> <<Item("p", "guid", "url", "hp2", "two"),
                  Item("q", Absent, "url2", "hq1", "one")>>],
     [hint |-> Absent, root |-> "rss", looks |-> Absent,
      items |-> <<Item("q", Blank, Absent, "hq1", Blank),
                  Item("p", Blank, "url", "hp1", "one")>>],
     [hint |-> Absent, root |-> "json", looks |-> "json",
      items |-> <<Item("q", Blank, "url2", "hq2", "two")>>],
     [hint |-> "json", root |-> Absent, looks |-> Absent, items |-> <<>>]}

ThePatches == {[on |-> {"read"}, off |-> {}], [on |-> {"archived"}, off |-> {"read"}]}

TheOldItems ==
    {[id |-> "guid", feed |-> "f", external |-> "guid", url |-> "url",
      text |-> "one", flags |-> {"starred"}]}

=============================================================================
