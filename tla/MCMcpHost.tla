------------------------------ MODULE MCMcpHost ------------------------------
(***************************************************************************)
(* McpHost with a built-in server, two external ones of whose tools one    *)
(* gets the same catalog name, and a third that is given a name twice.     *)
(***************************************************************************)
EXTENDS McpHost

CONSTANTS core, ab, a, again

InOrder == <<core, ab, a, again>>
Names   == [c \in {core, ab, a, again} |-> CASE c = core -> "m" [] c = ab -> "a_b" [] OTHER -> "a"]

Tools == {"c", "b_c", "d"}

Catalog ==
  [x \in {"m", "a_b", "a"} \X Tools |->
     IF x \in {<<"a_b", "c">>, <<"a", "b_c">>} THEN <<"a_b_c">> ELSE x]

ToolLists ==
  [c \in {core, ab, a, again} |->
     CASE c \in {core, ab} -> << <<"c">> >>
       [] c = a -> << <<"b_c", "d">>, <<"d", "d">> >>
       [] c = again -> << <<"c">> >>]

Resources == {"r1", "r2"}
Servers   == [u \in Resources |-> ab]
Contents  == [u \in Resources |-> IF u = "r1" THEN <<"v1", "v2", "v1">> ELSE <<"v1">>]
=============================================================================
