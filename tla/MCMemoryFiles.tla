---------------------------- MODULE MCMemoryFiles ----------------------------
(***************************************************************************)
(* MemoryFiles with a person whose account may be linked, and a stranger.  *)
(* A run starts with a tree that older versions left.                      *)
(***************************************************************************)
EXTENDS MemorySearch

Accounts == {"discord:1", "discord:2"}
Sorted   == <<"discord:1", "discord:2">>

Own ==
  [a \in Accounts |-> <<Users, "discord", IF a = "discord:1" THEN "1" ELSE "2">>]
Jake == <<Users, "jake">>
Directory == [a \in Accounts |-> IF a = "discord:2" THEN Own[a] ELSE Jake]

\* The file itself, other spellings of it, somebody else's, tobee's own, and
\* the folder of the person.
Paths ==
  {<<"list.md">>, <<"LIST", "a.md">>,
   <<"b", "..", "..", "2", "list.md">>,
   <<"b", "..", Reserved, Talks, "0900.md">>,
   <<Talks, "a.md">>, <<".">>}

Segments ==
  {"list.md", "LIST", "a.md", "b", "2", "0900.md", "0900-2.md", "0900-3.md", "0900-4.md",
   "0214.md", "deep", Reserved, Talks, LessonsFile}

\* Stems: what is not named here is a spelling of its own.
DirStems  == [g \in Segments |-> IF g = "LIST" THEN "list" ELSE g]
FileStems == [g \in Segments |->
  CASE g \in {"list.md", "LIST"} -> "list" [] g = Reserved -> "" [] OTHER -> g]

Sessions == {"s1", "s2"}
Owners   == [s \in Sessions |-> "discord:1"]
Began    == [s \in Sessions |-> <<"0900.md", "0900-2.md", "0900-3.md", "0900-4.md">>]
Taught   == [s \in Sessions |-> IF s = "s1" THEN <<"l1", "l2">> ELSE <<"l2 again", "l3", "l4">>]

Keys ==
  [l \in {"l1", "l2", "l2 again", "l3", "l4", "old", "n", "s1", "s2", "t1", "t2"} |->
     CASE l = "l1" -> 1 [] l \in {"l2", "l2 again"} -> 2 [] l = "l3" -> 3 [] l = "l4" -> 4
       [] l = "old" -> 5 [] OTHER -> 6]
Sizes == [l \in DOMAIN Keys |-> IF l \in {"l3", "old"} THEN 2 ELSE 1]

Trees ==
  {\* that of TestMigrateReservedMovesOldPaths (server_test.go:430)
   [p \in {Jake \o <<Talks, "0214.md">>, Jake \o <<LessonsFile>>, Jake \o <<"list.md">>,
           Own["discord:1"] \o <<Talks, "0214.md">>,
           Jake \o <<"deep", Talks, "a.md">>} |->
      IF Last(p) = LessonsFile THEN <<"old", "l1", "old">>
      ELSE IF Last(p) = "list.md" THEN <<"n">>
      ELSE IF p[2] = "jake" THEN <<"t1">> ELSE <<"t2">>],
   \* lessons in the old place and in the new
   [p \in {Own["discord:1"] \o <<LessonsFile>>, LessonsPath(Own["discord:1"]),
           Own["discord:2"] \o <<"list.md">>} |->
      IF Last(p) = LessonsFile THEN <<"l1">> ELSE <<"n">>]}

\* A directory lists tobee's own area first.
Listing ==
  <<Reserved, "0214.md", "0900-2.md", "0900-3.md", "0900-4.md", "0900.md", "1", "2", "LIST", "a.md",
    "b", Talks, "deep", "discord", "jake", LessonsFile, "list.md", "shared", Users>>

Entry == [g \in Range(Listing) |-> CHOOSE i \in DOMAIN Listing : Listing[i] = g]

Walked(p) ==
  LET at(i) == IF i <= Len(p) /\ p[i] \in DOMAIN Entry THEN Entry[p[i]] ELSE 0 IN
  (((((at(1) * 20 + at(2)) * 20 + at(3)) * 20 + at(4)) * 20 + at(5)) * 20 + at(6)) * 20 + at(7)

Searched ==
  {[dir |-> <<>>, history |-> h, around |-> n, limit |-> m] :
     <<h, n, m>> \in {<<FALSE, 0, 2>>, <<TRUE, 1, 3>>}}
=============================================================================
