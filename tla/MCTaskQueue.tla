----------------------------- MODULE MCTaskQueue -----------------------------
(***************************************************************************)
(* TaskQueue on small instances: two people, one of them with an account   *)
(* on each of two connectors, or a single account where the question is    *)
(* about files and crashes only.                                           *)
(***************************************************************************)
EXTENDS TaskQueue

CONSTANTS ann, annMail, bob

\* ann writes from two accounts the directory links; an account that is not in
\* it is a person of its own.
Linked == [a \in Actor |-> IF a = bob THEN "bob" ELSE "ann"]

Alone == [a \in Actor |-> "ann"]
=============================================================================
