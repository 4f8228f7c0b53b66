---------------------------- MODULE DurableQueue ----------------------------
(***************************************************************************)
(* What internal/taskqueue promises: a task that is owed is served, oldest *)
(* first, until it is settled or has been tried MaxAttempts times.  There  *)
(* is no memory and no process here.  A crash can only interrupt the task  *)
(* being served, which is owed as before.                                  *)
(***************************************************************************)
EXTENDS Integers

CONSTANTS MaxTasks, MaxAttempts

VARIABLES
  owed,     \* tasks accepted and not settled
  tries,    \* how often each was served
  serving   \* the task being served, or 0

Task == 1..MaxTasks
vars == <<owed, tries, serving>>

Init == owed = {} /\ tries = [t \in Task |-> 0] /\ serving = 0

\* Tasks are accepted in the order of their numbers, some of which go unused.
Accept(t) ==
  /\ \A u \in owed : u < t
  /\ tries[t] = 0
  /\ owed' = owed \cup {t}
  /\ UNCHANGED <<tries, serving>>

Serve(t) ==
  /\ serving = 0
  /\ t \in owed /\ \A u \in owed : t <= u
  /\ tries[t] < MaxAttempts
  /\ serving' = t
  /\ tries' = [tries EXCEPT ![t] = @ + 1]
  /\ UNCHANGED owed

Settle ==
  /\ serving \in owed
  /\ owed' = owed \ {serving}
  /\ serving' = 0
  /\ UNCHANGED tries

Interrupt == serving # 0 /\ serving' = 0 /\ UNCHANGED <<owed, tries>>

\* Every task that was tried often enough is given up at once.
GiveUp ==
  /\ serving = 0
  /\ owed' = {t \in owed : tries[t] < MaxAttempts}
  /\ UNCHANGED <<tries, serving>>

Next ==
  \/ \E t \in Task : Accept(t) \/ Serve(t)
  \/ Settle \/ Interrupt \/ GiveUp

Spec == Init /\ [][Next]_vars
=============================================================================
