--------------------------- MODULE MCSessionStore ---------------------------
(* SessionStore on small instances. *)
EXTENDS SessionStore

\* A file for everybody.
OwnFile == [p \in Person |-> p]

\* Two accounts whose names differ only in characters that path maps to "_",
\* like "email:a.b@c" and "email:a_b@c".
SharedFile == [p \in Person |-> CHOOSE f \in File : TRUE]
=============================================================================
