-------------------------- MODULE SessionStoreProofs --------------------------
(***************************************************************************)
(* Proofs about SessionStore: what History hands to a turn is not stale,   *)
(* no exchange gets a second transcript without a restart, a live          *)
(* conversation is in its file and no recorded exchange is lost.  The      *)
(* first two hold however file names are chosen; the others need a file    *)
(* for each person, which path gives when it maps no two people to the     *)
(* same name.                                                              *)
(***************************************************************************)
EXTENDS SessionStore, TLAPS

-----------------------------------------------------------------------------
(* The shape of the state *)

\* What a person's session becomes when an exchange is recorded is a session.
LEMMA GrownType ==
  ASSUME TypeOK, NEW p \in Person, NEW e \in Exchange
  PROVE  /\ Grown(p, e) \in Session /\ e \in Grown(p, e).exchanges
         /\ Grown(p, e).person = p /\ ~Grown(p, e).idle
         /\ sessions[p] # None => Grown(p, e).exchanges = {e} \cup sessions[p].exchanges
         /\ sessions[p] = None => Grown(p, e).exchanges = {e}
<1>1. sessions[p] \in Session \cup {None}
  BY DEF TypeOK
<1>. QED  BY <1>1 DEF Grown, Session

\* What a restart reads from a file is a session that is not idle.
LEMMA LoadedType ==
  ASSUME TypeOK, NEW p \in Person
  PROVE  /\ Loaded(p) \in Session \cup {None}
         /\ Loaded(p) # None =>
              /\ files[FileOf[p]] # None /\ files[FileOf[p]].person = p
              /\ Loaded(p).person = p /\ Loaded(p).exchanges = files[FileOf[p]].exchanges
         /\ files[FileOf[p]] # None /\ files[FileOf[p]].person = p => Loaded(p) # None
<1>1. files[FileOf[p]] \in Session \cup {None}
  BY SessionConstants DEF TypeOK
<1>. QED  BY <1>1, SessionConstants DEF Loaded, Session

\* Closing takes sessions, and puts them where they are archived.
LEMMA TakeType ==
  ASSUME TypeOK, NEW c \in Closer, NEW P \in SUBSET Person, Take(c, Idle(P))
  PROVE  /\ batch' \in [Closer -> SUBSET Session]
         /\ sessions' \in [Person -> Session \cup {None}]
<1>1. {sessions[p] : p \in Idle(P)} \in SUBSET Session
  BY DEF TypeOK, Idle
<1>. QED  BY <1>1 DEF Take, TypeOK

\* A session goes back, or its exchanges are displaced.
LEMMA PutBackType ==
  ASSUME TypeOK, NEW s \in Session, PutBack(s)
  PROVE  /\ sessions' \in [Person -> Session \cup {None}]
         /\ displaced' \subseteq Exchange /\ returned' \subseteq Person
<1>1. s.person \in Person /\ s.exchanges \subseteq Exchange
  BY DEF Session
<1>. QED  BY <1>1 DEF PutBack, TypeOK

\* The worker knows whose turn it is, and it saves what it has recorded.
Turning ==
  /\ pc["worker"] # "off" => turn # None
  /\ pc["worker"] = "saving" => recorded > 0
  /\ saving # None => pc["worker"] = "saving"

\* The worker begins with a person and forgets him at the end.
LEMMA TurningStep == TypeOK /\ Turning /\ [Next]_vars => Turning'
<1>. SUFFICES ASSUME TypeOK, Turning, [Next]_vars PROVE Turning'
  OBVIOUS
<1>1. CASE UNCHANGED vars
  BY <1>1 DEF vars, working, Turning
<1>2. ASSUME NEW p \in Person, BeginTurn(p) PROVE Turning'
  BY <1>2, SessionConstants DEF BeginTurn, Turning
<1>3. ASSUME NEW p \in Person, Age(p) PROVE Turning'
  BY <1>3 DEF Age, working, Turning
<1>4. ASSUME NEW c \in Closer, Remove(c) PROVE Turning'
  BY <1>4 DEF Remove, working, Turning
<1>5. ASSUME NEW c \in Closer, NEW s \in batch[c], Archive(c, s) \/ ArchiveFail(c, s) PROVE Turning'
  BY <1>5 DEF Archive, ArchiveFail, working, Turning
<1>6. CASE Sweep \/ SweepEnd
  BY <1>6 DEF Sweep, SweepEnd, Expiring, working, Turning, TypeOK, Closer
<1>7. CASE History \/ EndTurn \/ Record \/ Save
  BY <1>7, SessionConstants DEF History, EndTurn, Record, Save, Expiring, Turning, TypeOK, Closer
<1>8. CASE Crash \/ Open
  BY <1>8 DEF Crash, Open, working, Turning, TypeOK, Closer
<1>. QED
  BY <1>1, <1>2, <1>3, <1>4, <1>5, <1>6, <1>7, <1>8 DEF Next, Step

\* Every step keeps the shape.
LEMMA TypeStep == TypeOK /\ Turning /\ [Next]_vars => TypeOK'
<1>. SUFFICES ASSUME TypeOK, Turning, [Next]_vars PROVE TypeOK'
  OBVIOUS
<1>. USE DEF Fault, NoFault, Closer
<1>0. CASE UNCHANGED vars
  BY <1>0 DEF vars, disk, store, closing, working, bounds, past, TypeOK
<1>w. Next => clobbered' \subseteq Person
  BY DEF Next, Watch, TypeOK
<1>. SUFFICES ASSUME Step, clobbered' \subseteq Person PROVE TypeOK'
  BY <1>0, <1>w DEF Next
<1>1. CASE Sweep
  <2>1. /\ batch' \in [Closer -> SUBSET Session] /\ sessions' \in [Person -> Session \cup {None}]
    BY <1>1, TakeType DEF Sweep
  <2>. QED  BY <1>1, <2>1 DEF Sweep, disk, working, bounds, past, TypeOK
<1>2. CASE SweepEnd
  BY <1>2 DEF SweepEnd, disk, store, closing, working, bounds, past, TypeOK
<1>3. ASSUME NEW p \in Person, BeginTurn(p) PROVE TypeOK'
  <2>1. /\ batch' \in [Closer -> SUBSET Session] /\ sessions' \in [Person -> Session \cup {None}]
    BY <1>3, TakeType DEF BeginTurn
  <2>. QED  BY <1>3, <2>1 DEF BeginTurn, disk, bounds, past, TypeOK
<1>4. ASSUME NEW p \in Person, Age(p) PROVE TypeOK'
  <2>1. sessions' \in [Person -> Session \cup {None}]
    <3>1. sessions[p] \in Session
      BY <1>4 DEF Age, TypeOK
    <3>2. [sessions[p] EXCEPT !.idle = TRUE] \in Session
      BY <3>1 DEF Session
    <3>. QED  BY <1>4, <3>2 DEF Age, TypeOK
  <2>. QED  BY <1>4, <2>1 DEF Age, disk, closing, working, bounds, past, TypeOK
<1>5. ASSUME NEW c \in Closer, Remove(c) PROVE TypeOK'
  <2>1. /\ removing' \in [Closer -> Session \cup {None}] /\ faults' \in 0..MaxFaults
        /\ stops' = stops
    BY <1>5, SessionConstants DEF Remove, bounds, TypeOK
  <2>2. files' \in [File -> Session \cup {None}]
    BY <1>5 DEF Remove, RemoveFile, TypeOK
  <2>. QED  BY <1>5, <2>1, <2>2 DEF Remove, store, working, TypeOK
<1>6. ASSUME NEW c \in Closer, NEW s \in batch[c], Archive(c, s) PROVE TypeOK'
  <2>1. s \in Session /\ batch' \in [Closer -> SUBSET Session]
        /\ removing' \in [Closer -> Session \cup {None}]
    BY <1>6 DEF Archive, TypeOK
  <2>2. archives' \in [Exchange -> Nat]
    BY <1>6 DEF Archive, Archived, TypeOK
  <2>. QED  BY <1>6, <2>1, <2>2 DEF Archive, disk, store, working, bounds, TypeOK
<1>7. ASSUME NEW c \in Closer, NEW s \in batch[c], ArchiveFail(c, s) PROVE TypeOK'
  <2>1. s \in Session /\ batch' \in [Closer -> SUBSET Session]
    BY <1>7 DEF ArchiveFail, TypeOK
  <2>2. /\ sessions' \in [Person -> Session \cup {None}]
        /\ displaced' \subseteq Exchange /\ returned' \subseteq Person
    BY <1>7, <2>1, PutBackType DEF ArchiveFail
  <2>3. faults' \in 0..MaxFaults /\ stops' = stops
    BY <1>7, SessionConstants DEF ArchiveFail, TypeOK
  <2>. QED  BY <1>7, <2>1, <2>2, <2>3 DEF ArchiveFail, disk, working, TypeOK
<1>8. CASE History
  <2>1. turn \in Person
    BY <1>8 DEF History, Expiring, Turning, TypeOK
  <2>2. history' \in Session \cup {None} /\ pc' \in [Closer -> {"off", "expiring", "turn", "saving"}]
    BY <1>8, <2>1 DEF History, TypeOK
  <2>. QED  BY <1>8, <2>2 DEF History, disk, store, closing, bounds, past, TypeOK
<1>9. CASE EndTurn
  BY <1>9 DEF EndTurn, disk, store, closing, bounds, past, TypeOK
<1>10. CASE Record
  <2>1. turn \in Person /\ recorded + 1 \in Exchange /\ recorded' = recorded + 1
    BY <1>10, SessionConstants DEF Record, Turning, Exchange, TypeOK
  <2>2. Grown(turn, recorded + 1) \in Session
    BY <2>1, GrownType
  <2>3. /\ sessions' \in [Person -> Session \cup {None}] /\ saving' \in Session \cup {None}
        /\ owner' \in [Exchange -> Person \cup {None}]
        /\ pc' \in [Closer -> {"off", "expiring", "turn", "saving"}]
    BY <1>10, <2>1, <2>2 DEF Record, TypeOK
  <2>4. recorded' \in 0..MaxExchanges
    BY <2>1 DEF Exchange, TypeOK
  <2>. QED  BY <1>10, <2>3, <2>4 DEF Record, disk, closing, bounds, TypeOK
<1>11. CASE Save
  <2>1. turn \in Person /\ saving \in Session \cup {None}
    BY <1>11 DEF Save, Turning, TypeOK
  <2>2. files' \in [File -> Session \cup {None}]
    BY <1>11, <2>1 DEF Save, TypeOK
  <2>3. faults' \in 0..MaxFaults /\ stops' = stops
    BY <1>11, SessionConstants DEF Save, bounds, TypeOK
  <2>4. unsaved' \subseteq Exchange
    <3>1. CASE unsaved' = unsaved \ saving.exchanges
      BY <3>1 DEF TypeOK
    <3>2. CASE unsaved' = unsaved \cup {recorded}
      BY <1>11, <3>2 DEF Save, Turning, Exchange, TypeOK
    <3>. QED  BY <1>11, <3>1, <3>2 DEF Save
  <2>. QED  BY <1>11, <2>2, <2>3, <2>4 DEF Save, store, closing, TypeOK
<1>12. CASE Crash
  <2>1. unsaved' \subseteq Exchange
    <3>1. {e \in {recorded} : saving # None} \subseteq Exchange
      BY DEF Turning, Exchange, TypeOK
    <3>2. unsaved' = unsaved \cup {e \in {recorded} : saving # None}
      BY <1>12 DEF Crash
    <3>. QED  BY <3>1, <3>2 DEF TypeOK
  <2>2. stops' \in 0..MaxStops /\ faults' = faults
    BY <1>12, SessionConstants DEF Crash, TypeOK
  <2>3. /\ sessions' \in [Person -> Session \cup {None}] /\ batch' \in [Closer -> SUBSET Session]
        /\ removing' \in [Closer -> Session \cup {None}]
        /\ pc' \in [Closer -> {"off", "expiring", "turn", "saving"}]
        /\ turn' = None /\ history' = None /\ saving' = None /\ up' = FALSE
    BY <1>12 DEF Crash
  <2>. QED  BY <1>12, <2>1, <2>2, <2>3 DEF Crash, disk, TypeOK
<1>13. CASE Open
  <2>1. sessions' \in [Person -> Session \cup {None}]
    BY <1>13, LoadedType DEF Open
  <2>. QED  BY <1>13, <2>1 DEF Open, disk, closing, working, bounds, TypeOK
<1>. QED
  BY <1>1, <1>2, <1>3, <1>4, <1>5, <1>6, <1>7, <1>8, <1>9, <1>10, <1>11, <1>12, <1>13 DEF Step

-----------------------------------------------------------------------------
(* Where the goroutines are *)

\* Between its calls a goroutine closes nothing, a turn has a history only
\* after expire, and a stopped process holds nothing.
Resting ==
  /\ \A c \in Closer : pc[c] # "expiring" => batch[c] = {} /\ removing[c] = None
  /\ pc["sweeper"] \in {"off", "expiring"}
  /\ pc["worker"] \in {"off", "expiring"} => history = None
  /\ ~up => /\ stops > 0
            /\ \A c \in Closer : pc[c] = "off"
            /\ \A p \in Person : sessions[p] = None

Shape == TypeOK /\ Turning /\ Resting

\* Every step keeps Resting, ...
LEMMA RestingStep == TypeOK /\ Resting /\ [Next]_vars => Resting'
<1>. SUFFICES ASSUME TypeOK, Resting, [Next]_vars PROVE Resting'
  OBVIOUS
<1>. USE DEF Closer
<1>1. CASE UNCHANGED vars
  BY <1>1 DEF vars, store, closing, working, bounds, Resting
<1>2. CASE Sweep \/ SweepEnd
  BY <1>2 DEF Sweep, SweepEnd, Take, Expiring, store, closing, working, Resting, TypeOK
<1>3. ASSUME NEW p \in Person, BeginTurn(p) PROVE Resting'
  BY <1>3 DEF BeginTurn, Take, Resting, TypeOK
<1>4. ASSUME NEW p \in Person, Age(p) PROVE Resting'
  BY <1>4 DEF Age, closing, working, Resting
<1>5. ASSUME NEW c \in Closer, Remove(c) PROVE Resting'
  BY <1>5 DEF Remove, store, working, Resting, TypeOK
<1>6. ASSUME NEW c \in Closer, NEW s \in batch[c], Archive(c, s) \/ ArchiveFail(c, s) PROVE Resting'
  BY <1>6 DEF Archive, ArchiveFail, Expiring, store, working, Resting, TypeOK
<1>7. CASE History \/ EndTurn
  BY <1>7 DEF History, EndTurn, Expiring, store, closing, Resting, TypeOK
<1>8. CASE Record \/ Save
  BY <1>8 DEF Record, Save, store, closing, Resting, TypeOK
<1>9. CASE Crash
  BY <1>9 DEF Crash, Resting, TypeOK
<1>10. CASE Open
  BY <1>10 DEF Open, closing, working, Resting
<1>. QED
  BY <1>1, <1>2, <1>3, <1>4, <1>5, <1>6, <1>7, <1>8, <1>9, <1>10 DEF Next, Step

\* A run starts in shape.
LEMMA InitShape == Init => Shape
<1>. SUFFICES ASSUME Init PROVE Shape
  OBVIOUS
<1>1. TypeOK
  <2>1. /\ files \in [File -> Session \cup {None}] /\ sessions \in [Person -> Session \cup {None}]
        /\ batch \in [Closer -> SUBSET Session] /\ removing \in [Closer -> Session \cup {None}]
        /\ pc \in [Closer -> {"off", "expiring", "turn", "saving"}]
        /\ owner \in [Exchange -> Person \cup {None}] /\ archives \in [Exchange -> Nat]
    BY DEF Init
  <2>2. up \in BOOLEAN
    BY Zenon DEF Init
  <2>3. recorded \in 0..MaxExchanges /\ stops \in 0..MaxStops /\ faults \in 0..MaxFaults
    BY SessionConstants DEF Init
  <2>4. /\ turn = None /\ history = None /\ saving = None
        /\ unsaved = {} /\ displaced = {} /\ clobbered = {} /\ returned = {} /\ reread = {}
    BY DEF Init
  <2>. QED  BY <2>1, <2>2, <2>3, <2>4 DEF TypeOK
<1>2. Turning /\ Resting
  BY DEF Init, Turning, Resting, Closer
<1>. QED  BY <1>1, <1>2 DEF Shape

\* ... and stays so.
LEMMA ShapeStep == Shape /\ [Next]_vars => Shape'
BY TypeStep, TurningStep, RestingStep DEF Shape

\* The state of the store has its shape.
THEOREM TypeCorrect == Spec => []TypeOK
<1>1. Shape => TypeOK
  BY DEF Shape
<1>. QED  BY <1>1, InitShape, ShapeStep, PTL DEF Spec

-----------------------------------------------------------------------------
(* No stale history *)

\* While the worker closes, its person has no idle session, unless an archive
\* failed and put it back.
Fresh ==
  /\ pc["worker"] = "expiring" /\ sessions[turn] # None /\ sessions[turn].idle => turn \in returned
  /\ NoStaleHistory

\* ... Fresh, ...
LEMMA FreshStep == Shape /\ Fresh /\ [Next]_vars => Fresh'
<1>. SUFFICES ASSUME TypeOK, Turning, Resting, Fresh, [Next]_vars PROVE Fresh'
  BY DEF Shape
<1>. USE DEF Closer, Fresh, NoStaleHistory
<1>1. CASE UNCHANGED vars
  BY <1>1 DEF vars, store, working, past
<1>2. CASE Sweep
  BY <1>2 DEF Sweep, Take, working, past, Turning, TypeOK
<1>3. ASSUME NEW p \in Person, BeginTurn(p) PROVE Fresh'
  BY <1>3 DEF BeginTurn, Take, Idle, past, Resting, TypeOK
<1>4. ASSUME NEW p \in Person, Age(p) PROVE Fresh'
  BY <1>4 DEF Age, working, past, TypeOK
<1>5. ASSUME NEW c \in Closer, Remove(c) PROVE Fresh'
  BY <1>5 DEF Remove, store, working
<1>6. ASSUME NEW c \in Closer, NEW s \in batch[c], Archive(c, s) PROVE Fresh'
  BY <1>6 DEF Archive, store, working
<1>7. ASSUME NEW c \in Closer, NEW s \in batch[c], ArchiveFail(c, s) PROVE Fresh'
  BY <1>7 DEF ArchiveFail, PutBack, working, Turning, TypeOK, Session
<1>8. CASE History \/ EndTurn \/ SweepEnd
  BY <1>8 DEF History, EndTurn, SweepEnd, Expiring, store, working, past, Turning, TypeOK
<1>9. CASE Record \/ Save
  BY <1>9 DEF Record, Save, store, TypeOK
<1>10. CASE Crash \/ Open
  BY <1>10 DEF Crash, Open, working, Resting
<1>. QED
  BY <1>1, <1>2, <1>3, <1>4, <1>5, <1>6, <1>7, <1>8, <1>9, <1>10 DEF Next, Step

\* "a stale conversation never leaks into a new one" (session.go:121), unless
\* archiving it failed and put it back.
THEOREM HistoryIsFresh == Spec => []NoStaleHistory
<1>1. Init => Fresh
  BY DEF Init, Fresh, NoStaleHistory, Closer
<1>2. Fresh => NoStaleHistory
  BY DEF Fresh
<1>. QED  BY <1>1, <1>2, InitShape, ShapeStep, FreshStep, PTL DEF Spec

-----------------------------------------------------------------------------
(* Whose exchanges are where *)

\* The exchanges of a session are recorded, and its person's.
Owned(s) == s.exchanges \subseteq {e \in 1..recorded : owner[e] = s.person}

\* A session is filed under its person's name, in the map and on disk, ...
Belongs ==
  /\ \A f \in File : files[f] # None => Owned(files[f]) /\ FileOf[files[f].person] = f
  /\ \A p \in Person : sessions[p] # None => Owned(sessions[p]) /\ sessions[p].person = p
  /\ \A c \in Closer : \A s \in batch[c] : Owned(s)

\* ... and what Record is about to write is what the map holds.
Saving ==
  pc["worker"] = "saving" =>
    /\ saving # None /\ saving = sessions[turn] /\ saving.person = turn
    /\ recorded \in saving.exchanges /\ ~saving.idle

\* A new exchange changes nobody's earlier ones.
LEMMA OwnedStays ==
  ASSUME TypeOK, NEW s, Owned(s),
         \/ UNCHANGED <<recorded, owner>>
         \/ /\ recorded' = recorded + 1
            /\ \E p \in Person : owner' = [owner EXCEPT ![recorded + 1] = p]
  PROVE  s.exchanges \subseteq {e \in 1..recorded' : owner'[e] = s.person}
<1>1. CASE UNCHANGED <<recorded, owner>>
  BY <1>1 DEF Owned
<1>2. ASSUME NEW p \in Person, recorded' = recorded + 1, owner' = [owner EXCEPT ![recorded + 1] = p]
      PROVE  s.exchanges \subseteq {e \in 1..recorded' : owner'[e] = s.person}
  <2>1. recorded \in 0..MaxExchanges /\ MaxExchanges \in Nat
    BY SessionConstants DEF TypeOK
  <2>2. \A e \in 1..recorded : e \in 1..recorded' /\ owner'[e] = owner[e]
    BY <1>2, <2>1 DEF TypeOK, Exchange
  <2>. QED  BY <2>2 DEF Owned
<1>. QED  BY <1>1, <1>2

\* ... Saving ...
LEMMA SavingStep == Shape /\ Saving /\ [Next]_vars => Saving'
<1>. SUFFICES ASSUME TypeOK, Turning, Resting, Saving, [Next]_vars PROVE Saving'
  BY DEF Shape
<1>. USE DEF Closer, Saving
<1>1. CASE UNCHANGED vars
  BY <1>1 DEF vars, store, working
<1>2. CASE Sweep
  BY <1>2 DEF Sweep, Take, Idle, working, Turning, TypeOK
<1>3. ASSUME NEW p \in Person, BeginTurn(p) PROVE Saving'
  BY <1>3 DEF BeginTurn, TypeOK
<1>4. ASSUME NEW p \in Person, Age(p) PROVE Saving'
  BY <1>4 DEF Age, working, TypeOK
<1>5. ASSUME NEW c \in Closer, Remove(c) PROVE Saving'
  BY <1>5 DEF Remove, store, working
<1>6. ASSUME NEW c \in Closer, NEW s \in batch[c], Archive(c, s) PROVE Saving'
  BY <1>6 DEF Archive, store, working
<1>7. ASSUME NEW c \in Closer, NEW s \in batch[c], ArchiveFail(c, s) PROVE Saving'
  BY <1>7 DEF ArchiveFail, PutBack, working, Turning, TypeOK, Session
<1>8. CASE History \/ EndTurn \/ SweepEnd
  BY <1>8 DEF History, EndTurn, SweepEnd, Expiring, store, working, TypeOK
<1>9. CASE Record
  <2>1. /\ turn \in Person /\ recorded + 1 \in Exchange /\ recorded' = recorded + 1
        /\ turn' = turn
    BY <1>9, SessionConstants DEF Record, Turning, Exchange, TypeOK
  <2>2. sessions' = [sessions EXCEPT ![turn] = Grown(turn, recorded + 1)] /\ saving' = sessions'[turn]
    BY <1>9, <2>1 DEF Record, TypeOK
  <2>. QED  BY <2>1, <2>2, GrownType, SessionConstants DEF TypeOK
<1>10. CASE Save \/ Crash \/ Open
  BY <1>10 DEF Save, Crash, Open, working, Resting, TypeOK
<1>. QED
  BY <1>1, <1>2, <1>3, <1>4, <1>5, <1>6, <1>7, <1>8, <1>9, <1>10 DEF Next, Step

\* ... and Belongs.
LEMMA BelongsStep == Shape /\ Saving /\ Belongs /\ [Next]_vars => Belongs'
<1>. SUFFICES ASSUME TypeOK, Turning, Resting, Saving, Belongs, [Next]_vars PROVE Belongs'
  BY DEF Shape
<1>. USE DEF Closer
<1>1. CASE UNCHANGED vars
  BY <1>1 DEF vars, disk, store, closing, working, past, Belongs, Owned
<1>2. CASE Sweep
  <2>1. UNCHANGED <<recorded, owner, files>> /\ Take("sweeper", Idle(Person))
    BY <1>2 DEF Sweep, disk, working, past
  <2>. QED  BY <2>1 DEF Take, Idle, Belongs, Owned, TypeOK
<1>3. ASSUME NEW p \in Person, BeginTurn(p) PROVE Belongs'
  <2>1. UNCHANGED <<recorded, owner, files>> /\ Take("worker", Idle({p}))
    BY <1>3 DEF BeginTurn, disk, past
  <2>. QED  BY <2>1 DEF Take, Idle, Belongs, Owned, TypeOK
<1>4. ASSUME NEW p \in Person, Age(p) PROVE Belongs'
  <2>1. UNCHANGED <<recorded, owner, files, batch>>
    BY <1>4 DEF Age, disk, closing, working, past
  <2>2. /\ \A q \in Person \ {p} : sessions'[q] = sessions[q]
        /\ sessions[p] # None /\ sessions'[p].exchanges = sessions[p].exchanges
        /\ sessions'[p].person = sessions[p].person
    BY <1>4 DEF Age, TypeOK, Session
  <2>. QED  BY <2>1, <2>2 DEF Belongs, Owned
<1>5. ASSUME NEW c \in Closer, Remove(c) PROVE Belongs'
  <2>1. UNCHANGED <<recorded, owner, sessions, batch>>
    BY <1>5 DEF Remove, store, working
  <2>2. \A f \in File : files'[f] = files[f] \/ files'[f] = None
    BY <1>5 DEF Remove, RemoveFile, TypeOK
  <2>. QED  BY <2>1, <2>2 DEF Belongs, Owned
<1>6. ASSUME NEW c \in Closer, NEW s \in batch[c], Archive(c, s) PROVE Belongs'
  BY <1>6 DEF Archive, disk, store, working, Belongs, Owned, TypeOK
<1>7. ASSUME NEW c \in Closer, NEW s \in batch[c], ArchiveFail(c, s) PROVE Belongs'
  <2>1. UNCHANGED <<recorded, owner, files>> /\ \A d \in Closer : batch'[d] \subseteq batch[d]
    BY <1>7 DEF ArchiveFail, disk, working, TypeOK
  <2>2. \A p \in Person : sessions'[p] = sessions[p] \/ (sessions'[p] = s /\ s.person = p)
    BY <1>7 DEF ArchiveFail, PutBack, TypeOK
  <2>. QED  BY <2>1, <2>2 DEF Belongs, Owned
<1>8. CASE History \/ EndTurn \/ SweepEnd
  BY <1>8 DEF History, EndTurn, SweepEnd, disk, store, closing, working, past, Belongs, Owned
<1>9. CASE Record
  <2>1. /\ turn \in Person /\ recorded + 1 \in Exchange /\ recorded' = recorded + 1
        /\ owner' = [owner EXCEPT ![recorded + 1] = turn] /\ UNCHANGED <<files, batch>>
        /\ sessions' = [sessions EXCEPT ![turn] = Grown(turn, recorded + 1)]
    BY <1>9, SessionConstants DEF Record, disk, closing, Turning, Exchange, TypeOK
  <2>2. \A s : Owned(s) => s.exchanges \subseteq {e \in 1..recorded' : owner'[e] = s.person}
    BY <2>1, OwnedStays
  <2>3. /\ sessions'[turn].person = turn
        /\ sessions'[turn].exchanges \subseteq {e \in 1..recorded' : owner'[e] = turn}
    <3>1. /\ sessions'[turn] = Grown(turn, recorded + 1) /\ owner'[recorded + 1] = turn
          /\ recorded + 1 \in 1..recorded'
      BY <2>1 DEF TypeOK, Exchange
    <3>. QED  BY <2>1, <2>2, <3>1, GrownType DEF Belongs
  <2>4. \A p \in Person \ {turn} : sessions'[p] = sessions[p]
    BY <2>1 DEF TypeOK
  <2>. QED  BY <2>1, <2>2, <2>3, <2>4 DEF Belongs, Owned
<1>10. CASE Save
  <2>1. UNCHANGED <<recorded, owner, sessions, batch>> /\ turn \in Person
    BY <1>10 DEF Save, store, closing, Turning, TypeOK
  <2>2. /\ Owned(saving) /\ saving.person = turn
        /\ \A f \in File : files'[f] = files[f] \/ (files'[f] = saving /\ f = FileOf[turn])
    BY <1>10, <2>1 DEF Save, Saving, Belongs, TypeOK
  <2>. QED  BY <2>1, <2>2 DEF Belongs, Owned
<1>11. CASE Crash
  BY <1>11 DEF Crash, disk, Belongs, Owned
<1>12. CASE Open
  <2>1. UNCHANGED <<recorded, owner, files, batch>>
    BY <1>12 DEF Open, disk, closing, working
  <2>2. \A p \in Person : sessions'[p] # None =>
          /\ files[FileOf[p]] # None /\ sessions'[p].person = p
          /\ files[FileOf[p]].person = p /\ sessions'[p].exchanges = files[FileOf[p]].exchanges
    BY <1>12, LoadedType DEF Open
  <2>3. \A p \in Person : FileOf[p] \in File
    BY SessionConstants
  <2>. QED  BY <2>1, <2>2, <2>3 DEF Belongs, Owned
<1>. QED
  BY <1>1, <1>2, <1>3, <1>4, <1>5, <1>6, <1>7, <1>8, <1>9, <1>10, <1>11, <1>12 DEF Next, Step

-----------------------------------------------------------------------------
(* One transcript *)

\* An exchange is in one session in memory, ...
OnePlace ==
  /\ \A c \in Closer : \A s \in batch[c] : \A p \in Person :
       sessions[p] # None => s.exchanges \cap sessions[p].exchanges = {}
  /\ \A c, d \in Closer : \A s \in batch[c], t \in batch[d] :
       s.exchanges \cap t.exchanges # {} => c = d /\ s = t

\* ... and in none once it is archived, unless a restart read it again.
Once ==
  /\ \A e \in Exchange : archives[e] > 0 => e <= recorded /\ (InMemory(e) => e \in reread)
  /\ ArchivedOnce

\* No two people's sessions share an exchange.
LEMMA OwnersDiffer ==
  ASSUME TypeOK, Belongs, NEW p \in Person, NEW q \in Person, sessions[p] # None,
         sessions[q] # None, sessions[p].exchanges \cap sessions[q].exchanges # {}
  PROVE  p = q
BY DEF Belongs, Owned

\* What an expire takes was in the map, and is there no more.
LEMMA TakeMoves ==
  ASSUME TypeOK, Belongs, OnePlace, NEW c \in Closer, NEW P \in SUBSET Person,
         batch[c] = {}, Take(c, Idle(P))
  PROVE  /\ OnePlace'
         /\ \A e \in Exchange : InMemory(e)' <=> InMemory(e)
<1>1. /\ \A s \in batch'[c] : \E p \in Idle(P) : s = sessions[p] /\ s # None
      /\ \A p \in Idle(P) : sessions[p] \in batch'[c] /\ sessions'[p] = None
      /\ \A p \in Person \ Idle(P) : sessions'[p] = sessions[p]
      /\ \A d \in Closer \ {c} : batch'[d] = batch[d]
  BY DEF Take, Idle, TypeOK
<1>2. Idle(P) \subseteq Person
  BY DEF Idle
<1>3. OnePlace'
  BY <1>1, <1>2, OwnersDiffer DEF OnePlace
<1>4. \A e \in Exchange : InMemory(e)' <=> InMemory(e)
  BY <1>1, <1>2 DEF InMemory
<1>. QED  BY <1>3, <1>4

\* Recording puts the new exchange into the person's session.
LEMMA RecordAdds ==
  ASSUME Shape, Belongs, OnePlace, Record
  PROVE  /\ turn \in Person /\ recorded + 1 \in Exchange /\ recorded' = recorded + 1
         /\ OnePlace' /\ ~InMemory(recorded + 1)
         /\ \A e \in Exchange : InMemory(e)' <=> InMemory(e) \/ e = recorded'
<1>1. /\ turn \in Person /\ recorded + 1 \in Exchange /\ recorded' = recorded + 1
      /\ sessions' = [sessions EXCEPT ![turn] = Grown(turn, recorded + 1)] /\ UNCHANGED batch
  BY SessionConstants DEF Record, closing, Shape, Turning, Exchange, TypeOK
<1>2. TypeOK
  BY DEF Shape
<1>3. /\ sessions'[turn] # None /\ recorded' \in sessions'[turn].exchanges
      /\ sessions'[turn].exchanges =
           {recorded'} \cup IF sessions[turn] = None THEN {} ELSE sessions[turn].exchanges
      /\ \A p \in Person \ {turn} : sessions'[p] = sessions[p]
  BY <1>1, <1>2, GrownType, SessionConstants DEF TypeOK
<1>4. /\ \A p \in Person : sessions[p] # None => recorded + 1 \notin sessions[p].exchanges
      /\ \A c \in Closer : \A s \in batch[c] : recorded + 1 \notin s.exchanges
  BY <1>1, <1>2 DEF Belongs, Owned, TypeOK
<1>5. OnePlace'
  BY <1>1, <1>3, <1>4 DEF OnePlace
<1>6. ~InMemory(recorded + 1) /\ \A e \in Exchange : InMemory(e)' <=> InMemory(e) \/ e = recorded'
  BY <1>1, <1>3, <1>4 DEF InMemory
<1>. QED  BY <1>1, <1>5, <1>6

\* A restart puts back what is in the files.
LEMMA OpenReads ==
  ASSUME Shape, Belongs, Open
  PROVE  /\ OnePlace'
         /\ \A e \in Exchange : InMemory(e)' <=> OnFile(e)
<1>1. TypeOK /\ Resting /\ UNCHANGED <<files, batch>> /\ ~up
  BY DEF Open, disk, closing, Shape
<1>2. \A c \in Closer : batch'[c] = {}
  BY <1>1 DEF Resting, Closer
<1>3. \A p \in Person : FileOf[p] \in File /\ sessions'[p] = Loaded(p)
  BY SessionConstants DEF Open
<1>4. \A e \in Exchange : InMemory(e)' => OnFile(e)
  BY <1>1, <1>2, <1>3, LoadedType DEF InMemory, OnFile
<1>5. ASSUME NEW e \in Exchange, NEW f \in File, files[f] # None, e \in files[f].exchanges
      PROVE  InMemory(e)'
  <2>1. files[f].person \in Person /\ FileOf[files[f].person] = f
    BY <1>1, <1>5 DEF Belongs, TypeOK, Session
  <2>2. Loaded(files[f].person) # None /\ Loaded(files[f].person).exchanges = files[f].exchanges
    BY <1>1, <1>5, <2>1, LoadedType
  <2>. QED  BY <1>3, <1>5, <2>1, <2>2 DEF InMemory
<1>6. OnePlace'
  BY <1>2 DEF OnePlace
<1>. QED  BY <1>4, <1>5, <1>6 DEF OnFile

\* An archive takes a session's exchanges out of memory.
LEMMA ArchiveRemoves ==
  ASSUME Shape, OnePlace, NEW c \in Closer, NEW s \in batch[c], Archive(c, s)
  PROVE  /\ OnePlace'
         /\ \A e \in Exchange : InMemory(e)' <=> InMemory(e) /\ e \notin s.exchanges
<1>1. /\ batch'[c] = batch[c] \ {s} /\ \A d \in Closer \ {c} : batch'[d] = batch[d]
      /\ UNCHANGED sessions
  BY DEF Archive, store, Shape, TypeOK
<1>2. OnePlace'
  BY <1>1 DEF OnePlace
<1>3. ASSUME NEW e \in Exchange, InMemory(e), e \notin s.exchanges PROVE InMemory(e)'
  BY <1>1, <1>3 DEF InMemory
<1>4. ASSUME NEW e \in Exchange, InMemory(e)' PROVE InMemory(e) /\ e \notin s.exchanges
  BY <1>1, <1>4 DEF InMemory, OnePlace
<1>. QED  BY <1>2, <1>3, <1>4

\* A session that could not be archived stays in memory, or is displaced.
LEMMA FailureMoves ==
  ASSUME Shape, OnePlace, NEW c \in Closer, NEW s \in batch[c], ArchiveFail(c, s)
  PROVE  /\ OnePlace'
         /\ \A e \in Exchange : InMemory(e)' => InMemory(e)
         /\ \A e \in Exchange : InMemory(e) => InMemory(e)' \/ e \in displaced'
<1>1. /\ batch'[c] = batch[c] \ {s} /\ \A d \in Closer \ {c} : batch'[d] = batch[d]
      /\ s \in Session /\ s.person \in Person
  BY DEF ArchiveFail, Shape, TypeOK, Session
<1>2. CASE sessions[s.person] # None
  <2>1. UNCHANGED sessions /\ displaced' = displaced \cup s.exchanges
    BY <1>2 DEF ArchiveFail, PutBack
  <2>. QED  BY <1>1, <2>1 DEF OnePlace, InMemory
<1>3. CASE sessions[s.person] = None
  <2>1. /\ sessions'[s.person] = s /\ \A p \in Person \ {s.person} : sessions'[p] = sessions[p]
        /\ s # None
    BY <1>1, <1>3, SessionConstants DEF ArchiveFail, PutBack, Shape, TypeOK
  <2>2. OnePlace'
    BY <1>1, <1>3, <2>1 DEF OnePlace
  <2>3. \A e \in Exchange : InMemory(e)' <=> InMemory(e)
    BY <1>1, <1>3, <2>1 DEF InMemory
  <2>. QED  BY <2>2, <2>3
<1>. QED  BY <1>2, <1>3

\* The other steps move no session, and only time and crashes touch one.
Elsewhere ==
  \/ SweepEnd \/ History \/ EndTurn \/ Save
  \/ \E p \in Person : Age(p)
  \/ \E c \in Closer : Remove(c)
  \/ UNCHANGED vars

\* They leave every exchange in the place it has.
LEMMA ElsewhereMoves ==
  ASSUME Shape, OnePlace, Elsewhere
  PROVE  /\ OnePlace'
         /\ \A e \in Exchange : InMemory(e)' <=> InMemory(e)
<1>1. ASSUME UNCHANGED <<sessions, batch>>
      PROVE  OnePlace' /\ \A e \in Exchange : InMemory(e)' <=> InMemory(e)
  BY <1>1 DEF OnePlace, InMemory
<1>2. CASE SweepEnd \/ History \/ EndTurn \/ Save \/ UNCHANGED vars
  BY <1>1, <1>2 DEF SweepEnd, History, EndTurn, Save, vars, store, closing
<1>3. ASSUME NEW c \in Closer, Remove(c) PROVE UNCHANGED <<sessions, batch>>
  BY <1>3 DEF Remove, store
<1>4. ASSUME NEW p \in Person, Age(p)
      PROVE  OnePlace' /\ \A e \in Exchange : InMemory(e)' <=> InMemory(e)
  <2>1. /\ \A q \in Person \ {p} : sessions'[q] = sessions[q]
        /\ sessions[p] # None /\ sessions'[p].exchanges = sessions[p].exchanges
        /\ sessions'[p] # None /\ UNCHANGED batch
    <3>1. sessions \in [Person -> Session \cup {None}]
      BY DEF Shape, TypeOK
    <3>2. /\ sessions[p] # None /\ sessions' = [sessions EXCEPT ![p].idle = TRUE]
          /\ UNCHANGED batch
      BY <1>4 DEF Age, closing
    <3>3. sessions'[p] = [sessions[p] EXCEPT !.idle = TRUE] /\ sessions[p] \in Session
      BY <3>1, <3>2
    <3>4. sessions'[p] \in Session /\ sessions'[p].exchanges = sessions[p].exchanges
      BY <3>3 DEF Session
    <3>. QED  BY <3>1, <3>2, <3>4, SessionConstants
  <2>a. \A q \in Person : /\ sessions'[q] # None <=> sessions[q] # None
                            /\ sessions'[q].exchanges = sessions[q].exchanges
    BY <2>1
  <2>2. OnePlace'
    BY <2>1, <2>a DEF OnePlace
  <2>3. \A e \in Exchange : InMemory(e)' <=> InMemory(e)
    BY <2>1, <2>a DEF InMemory
  <2>. QED  BY <2>2, <2>3
<1>. QED  BY <1>1, <1>2, <1>3, <1>4 DEF Elsewhere

\* A step archives the sessions it takes out of memory, and no others.
LEMMA OnceStep ==
  Shape /\ Belongs /\ OnePlace /\ Once /\ [Next]_vars => OnePlace' /\ Once'
<1>. SUFFICES ASSUME Shape, Belongs, OnePlace, Once, [Next]_vars PROVE OnePlace' /\ Once'
  OBVIOUS
<1>t. TypeOK /\ Resting
  BY DEF Shape
<1>1. ASSUME UNCHANGED <<archives, reread>>, recorded' = recorded,
             \A e \in Exchange : InMemory(e)' => InMemory(e)
      PROVE  Once'
  BY <1>1 DEF Once, ArchivedOnce
<1>2. CASE Elsewhere
  <2>1. UNCHANGED <<archives, reread, recorded>>
    BY <1>2 DEF Elsewhere, SweepEnd, History, EndTurn, Save, Age, Remove, vars, working, past
  <2>. QED  BY <1>1, <1>2, <2>1, ElsewhereMoves
<1>3. CASE Sweep
  <2>1. /\ batch["sweeper"] = {} /\ Take("sweeper", Idle(Person))
        /\ UNCHANGED <<archives, reread, recorded>>
    BY <1>3, <1>t DEF Sweep, working, past, Resting, Closer
  <2>. QED  BY <1>1, <1>t, <2>1, TakeMoves DEF Closer
<1>4. ASSUME NEW p \in Person, BeginTurn(p) PROVE OnePlace' /\ Once'
  <2>1. /\ batch["worker"] = {} /\ Take("worker", Idle({p}))
        /\ UNCHANGED <<archives, reread, recorded>>
    BY <1>4, <1>t DEF BeginTurn, past, Resting, Closer
  <2>. QED  BY <1>1, <1>t, <2>1, TakeMoves DEF Closer
<1>5. ASSUME NEW c \in Closer, NEW s \in batch[c], Archive(c, s) PROVE OnePlace' /\ Once'
  <2>1. /\ \A e \in Exchange : archives'[e] = IF e \in s.exchanges THEN archives[e] + 1 ELSE archives[e]
        /\ UNCHANGED <<reread, recorded>>
    BY <1>5 DEF Archive, Archived, working
  <2>2. \A e \in s.exchanges : e \in Exchange /\ e \in 1..recorded /\ InMemory(e) /\ archives[e] \in Nat
    BY <1>5, <1>t DEF Belongs, Owned, InMemory, TypeOK, Session
  <2>3. OnePlace' /\ \A e \in Exchange : InMemory(e)' => InMemory(e) /\ e \notin s.exchanges
    BY <1>5, ArchiveRemoves
  <2>. QED  BY <2>1, <2>2, <2>3 DEF Once, ArchivedOnce
<1>6. ASSUME NEW c \in Closer, NEW s \in batch[c], ArchiveFail(c, s) PROVE OnePlace' /\ Once'
  <2>1. UNCHANGED <<archives, reread, recorded>>
    BY <1>6 DEF ArchiveFail, working
  <2>. QED  BY <1>1, <1>6, <2>1, FailureMoves
<1>7. CASE Record
  <2>1. UNCHANGED <<archives, reread>> /\ recorded \in Nat
    BY <1>7, <1>t DEF Record, TypeOK
  <2>2. /\ OnePlace' /\ recorded' = recorded + 1 /\ recorded + 1 \in Exchange
        /\ \A e \in Exchange : InMemory(e)' => InMemory(e) \/ e = recorded + 1
    BY <1>7, RecordAdds
  <2>3. ~(archives[recorded + 1] > 0)
    BY <2>1, <2>2 DEF Once
  <2>4. \A e \in Exchange : e <= recorded => e <= recorded'
    BY <2>1, <2>2 DEF Exchange
  <2>. QED  BY <2>1, <2>2, <2>3, <2>4 DEF Once, ArchivedOnce
<1>8. CASE Crash
  <2>1. /\ UNCHANGED <<archives, reread, recorded>> /\ \A c \in Closer : batch'[c] = {}
        /\ \A p \in Person : sessions'[p] = None
    BY <1>8 DEF Crash
  <2>2. OnePlace' /\ \A e \in Exchange : ~InMemory(e)'
    BY <2>1 DEF OnePlace, InMemory
  <2>. QED  BY <1>1, <2>1, <2>2
<1>9. CASE Open
  <2>1. /\ UNCHANGED <<archives, recorded>> /\ reread \subseteq reread'
        /\ \A e \in Exchange : archives[e] > 0 /\ OnFile(e) => e \in reread'
    BY <1>9 DEF Open, working, OnFile
  <2>. QED  BY <1>9, <2>1, OpenReads DEF Once, ArchivedOnce
<1>. QED
  BY <1>2, <1>3, <1>4, <1>5, <1>6, <1>7, <1>8, <1>9 DEF Next, Step, Elsewhere

\* What every state has: its shape, and every session where it belongs.
Whole == Shape /\ Saving /\ Belongs /\ OnePlace /\ Once

\* Whole holds at first ...
LEMMA InitWhole == Init => Whole
<1>. SUFFICES ASSUME Init PROVE Saving /\ Belongs /\ OnePlace /\ Once
  BY InitShape DEF Whole
<1>. QED
  BY DEF Init, Saving, Belongs, OnePlace, Once, ArchivedOnce, Closer

\* ... and after every step.
LEMMA WholeStep == Whole /\ [Next]_vars => Whole'
BY ShapeStep, SavingStep, BelongsStep, OnceStep DEF Whole

\* The sweeper and the worker never archive the same exchange: a second
\* transcript of it needs a restart between the archive and the deletion of
\* the file (session.go:213-233).
THEOREM OneTranscript == Spec => []ArchivedOnce
<1>1. Whole => ArchivedOnce
  BY DEF Whole, Once
<1>. QED  BY <1>1, InitWhole, WholeStep, PTL DEF Spec

-----------------------------------------------------------------------------
(* Nothing is lost *)

\* No two people's conversations are kept under the same file name.
OwnNames == \A p, q \in Person : FileOf[p] = FileOf[q] => p = q

\* An exchange is in the person's file.
Filed(p, e) == files[FileOf[p]] # None /\ e \in files[FileOf[p]].exchanges

\* A person has at most one session that is being closed, ...
Alone ==
  /\ \A c, d \in Closer : \A s \in batch[c], t \in batch[d] :
       s.person = t.person /\ s.person \notin clobbered => c = d /\ s = t
  /\ \A c, d \in Closer : \A t \in batch[d] :
       removing[c] # None /\ removing[c].person = t.person => t.person \in clobbered

\* ... and what is in memory is on disk, but for the exchange Save is about to
\* write: both unless a session was live when an expire was about to delete
\* the file.
Written ==
  /\ \A p \in Person \ clobbered : sessions[p] # None =>
       \A e \in sessions[p].exchanges \ unsaved :
         Filed(p, e) \/ (pc["worker"] = "saving" /\ turn = p /\ e = recorded)
  /\ \A c \in Closer : \A s \in batch[c] : s.person \notin clobbered =>
       \A e \in s.exchanges \ unsaved : Filed(s.person, e)

\* Whoever has a live session while an expire is to delete the file is noted.
LEMMA Watched ==
  ASSUME Shape, Watch
  PROVE  /\ clobbered \subseteq clobbered'
         /\ \A p \in Person, c \in Closer : sessions[p] # None =>
              /\ \A s \in batch[c] : s.person = p => p \in clobbered'
              /\ removing[c] # None /\ removing[c].person = p => p \in clobbered'
BY DEF Watch

\* Taking sessions gives nobody a second one that is being closed.
LEMMA TakeAlone ==
  ASSUME Whole, Alone, Written, Watch, NEW c \in Closer, NEW P \in SUBSET Person,
         batch[c] = {}, Take(c, Idle(P)), UNCHANGED <<files, removing, unsaved>>,
         pc["worker"] = "saving" => pc'["worker"] = "saving" /\ UNCHANGED <<turn, recorded>>
  PROVE  Alone' /\ Written'
<1>t. TypeOK /\ Belongs /\ Saving /\ Shape
  BY DEF Whole, Shape
<1>1. /\ \A s \in batch'[c] : \E p \in Idle(P) : s = sessions[p] /\ s # None /\ s.person = p
      /\ \A p \in Person : sessions'[p] # None => p \notin Idle(P) /\ sessions'[p] = sessions[p]
      /\ \A d \in Closer \ {c} : batch'[d] = batch[d]
  BY <1>t DEF Take, Idle, Belongs, TypeOK
<1>2. Idle(P) \subseteq Person /\ \A p \in Idle(P) : sessions[p].idle
  BY DEF Idle
<1>3. Alone'
  BY <1>t, <1>1, <1>2, Watched DEF Alone
<1>4. \A p \in Person : sessions'[p] # None /\ p \in Person \ clobbered' => p \in Person \ clobbered
  BY <1>t, Watched
<1>5. Written'
  BY <1>t, <1>1, <1>2, <1>4, Watched DEF Written, Filed, Saving
<1>. QED  BY <1>3, <1>5

\* What is closed is closed alone, and a file is deleted or replaced with what
\* memory holds.
LEMMA WrittenStep ==
  ASSUME OwnNames, Whole, Alone, Written, [Next]_vars
  PROVE  Alone' /\ Written'
<1>t. TypeOK /\ Resting /\ Shape /\ Saving /\ Belongs /\ OnePlace /\ Turning
  BY DEF Whole, Shape
<1>0. CASE UNCHANGED vars
  BY <1>0 DEF vars, disk, store, closing, working, past, Alone, Written, Filed
<1>. SUFFICES ASSUME Step, Watch PROVE Alone' /\ Written'
  BY <1>0 DEF Next
<1>w. clobbered \subseteq clobbered'
  BY <1>t, Watched
<1>1. ASSUME \A c \in Closer : batch'[c] \subseteq batch[c] /\ removing'[c] \in {removing[c], None}
      PROVE  Alone'
  BY <1>w, <1>1 DEF Alone
<1>2. CASE SweepEnd \/ History \/ EndTurn
  <2>1. UNCHANGED <<files, sessions, batch, removing, unsaved, recorded>>
    BY <1>2 DEF SweepEnd, History, EndTurn, disk, store, closing, working, past
  <2>2. pc["worker"] = "saving" => pc'["worker"] = "saving" /\ turn' = turn
    BY <1>2, <1>t DEF SweepEnd, History, EndTurn, Expiring, working, TypeOK, Closer
  <2>. QED  BY <1>1, <1>w, <2>1, <2>2 DEF Written, Filed
<1>3. CASE Sweep
  <2>1. /\ batch["sweeper"] = {} /\ Take("sweeper", Idle(Person))
        /\ UNCHANGED <<files, removing, unsaved, turn, recorded>>
        /\ pc'["worker"] = pc["worker"]
    BY <1>3, <1>t DEF Sweep, disk, working, past, Resting, Closer, TypeOK
  <2>. QED  BY <2>1, TakeAlone DEF Closer
<1>4. ASSUME NEW p \in Person, BeginTurn(p) PROVE Alone' /\ Written'
  <2>1. /\ batch["worker"] = {} /\ Take("worker", Idle({p}))
        /\ UNCHANGED <<files, removing, unsaved>> /\ pc["worker"] # "saving"
    BY <1>4, <1>t DEF BeginTurn, disk, past, Resting, Closer
  <2>. QED  BY <2>1, TakeAlone DEF Closer
<1>5. ASSUME NEW p \in Person, Age(p) PROVE Alone' /\ Written'
  <2>1. /\ \A q \in Person \ {p} : sessions'[q] = sessions[q]
        /\ sessions[p] # None /\ sessions'[p].exchanges = sessions[p].exchanges
        /\ UNCHANGED <<files, batch, removing, unsaved, pc, turn, recorded>>
    BY <1>5, <1>t DEF Age, disk, closing, working, past, TypeOK, Session
  <2>. QED  BY <1>1, <1>w, <2>1 DEF Written, Filed
<1>6. ASSUME NEW c \in Closer, Remove(c) PROVE Alone' /\ Written'
  <2>1. /\ removing[c] \in Session /\ removing[c] # None /\ removing[c].person \in Person
        /\ UNCHANGED <<sessions, batch, unsaved, pc, turn, recorded>>
        /\ removing' = [removing EXCEPT ![c] = None]
    BY <1>6, <1>t DEF Remove, store, working, TypeOK, Session
  <2>2. \A p \in Person : p # removing[c].person => files'[FileOf[p]] = files[FileOf[p]]
    BY <1>6, <1>t, <2>1, SessionConstants DEF Remove, RemoveFile, OwnNames, TypeOK
  <2>3. /\ sessions[removing[c].person] # None => removing[c].person \in clobbered'
        /\ \A d \in Closer : \A s \in batch[d] : s.person = removing[c].person => s.person \in clobbered'
    BY <1>t, <1>w, <2>1, Watched DEF Alone
  <2>4. \A d \in Closer : \A s \in batch[d] : s.person \in Person
    BY <1>t DEF TypeOK, Session
  <2>5. Alone'
    BY <1>1, <1>t, <2>1 DEF TypeOK
  <2>6. Written'
    BY <1>w, <2>1, <2>2, <2>3, <2>4 DEF Written, Filed
  <2>. QED  BY <2>5, <2>6
<1>7. ASSUME NEW c \in Closer, NEW s \in batch[c], Archive(c, s) PROVE Alone' /\ Written'
  <2>1. /\ batch'[c] = batch[c] \ {s} /\ \A d \in Closer \ {c} : batch'[d] = batch[d]
        /\ removing'[c] = s /\ \A d \in Closer \ {c} : removing'[d] = removing[d]
        /\ UNCHANGED <<files, sessions, unsaved, pc, turn, recorded>>
    BY <1>7, <1>t DEF Archive, disk, store, working, TypeOK
  <2>2. Alone'
    BY <1>w, <2>1 DEF Alone
  <2>3. Written'
    BY <1>w, <2>1 DEF Written, Filed
  <2>. QED  BY <2>2, <2>3
<1>8. ASSUME NEW c \in Closer, NEW s \in batch[c], ArchiveFail(c, s) PROVE Alone' /\ Written'
  <2>1. /\ \A d \in Closer : batch'[d] \subseteq batch[d]
        /\ UNCHANGED <<files, removing, unsaved, pc, turn, recorded>>
    BY <1>8, <1>t DEF ArchiveFail, disk, working, TypeOK
  <2>2. \A p \in Person : sessions'[p] = sessions[p] \/ (sessions'[p] = s /\ s.person = p)
    BY <1>8, <1>t DEF ArchiveFail, PutBack, TypeOK
  <2>3. Alone'
    BY <1>1, <2>1
  <2>4. Written'
    BY <1>w, <2>1, <2>2 DEF Written, Filed
  <2>. QED  BY <2>3, <2>4
<1>9. CASE Record
  <2>1. /\ turn \in Person /\ recorded' = recorded + 1 /\ pc["worker"] = "turn"
        /\ sessions' = [sessions EXCEPT ![turn] = Grown(turn, recorded + 1)]
        /\ pc'["worker"] = "saving" /\ UNCHANGED <<files, batch, removing, unsaved, turn>>
        /\ recorded + 1 \in Exchange
    BY <1>9, <1>t, SessionConstants DEF Record, disk, closing, Turning, Exchange, TypeOK, Closer
  <2>2. /\ \A p \in Person \ {turn} : sessions'[p] = sessions[p]
        /\ sessions'[turn].exchanges \subseteq
             {recorded'} \cup IF sessions[turn] = None THEN {} ELSE sessions[turn].exchanges
    BY <1>t, <2>1, GrownType DEF TypeOK
  <2>3. Alone'
    BY <1>1, <2>1
  <2>4. Written'
    BY <1>w, <2>1, <2>2 DEF Written, Filed
  <2>. QED  BY <2>3, <2>4
<1>10. CASE Save
  <2>1. /\ turn \in Person /\ UNCHANGED <<sessions, batch, removing, recorded>>
        /\ saving # None /\ saving = sessions[turn] /\ pc["worker"] = "saving"
    BY <1>10, <1>t DEF Save, store, closing, Turning, Saving, TypeOK
  <2>2. Alone'
    BY <1>1, <2>1
  <2>3. \A c \in Closer : \A s \in batch[c] : s.person \in Person /\ s.exchanges \subseteq Exchange
    BY <1>t DEF TypeOK, Session
  <2>4. CASE files' = files /\ unsaved' = unsaved \cup {recorded}
    <3>1. /\ \A p \in Person \ clobbered' : sessions[p] # None =>
               \A e \in sessions[p].exchanges \ unsaved' : Filed(p, e)
          /\ \A c \in Closer : \A s \in batch[c] : s.person \notin clobbered' =>
               \A e \in s.exchanges \ unsaved' : Filed(s.person, e)
      BY <1>w, <2>4 DEF Written
    <3>. QED  BY <2>1, <2>2, <2>4, <3>1 DEF Written, Filed
  <2>5. CASE files' = [files EXCEPT ![FileOf[turn]] = saving] /\ unsaved' = unsaved \ saving.exchanges
    <3>1. /\ files'[FileOf[turn]] = saving
          /\ \A p \in Person \ {turn} : files'[FileOf[p]] = files[FileOf[p]]
      BY <1>t, <2>1, <2>5, SessionConstants DEF OwnNames, TypeOK
    <3>2. \A p \in Person \ {turn} : sessions[p] # None =>
            sessions[p].exchanges \cap saving.exchanges = {}
      BY <1>t, <2>1, OwnersDiffer
    <3>3. \A c \in Closer : \A s \in batch[c] :
            s.exchanges \cap saving.exchanges = {} /\ (s.person = turn => turn \in clobbered')
      BY <1>t, <2>1, Watched DEF OnePlace
    <3>4. ASSUME NEW p \in Person, p \notin clobbered', sessions[p] # None,
                 NEW e \in sessions[p].exchanges \ unsaved'
          PROVE  Filed(p, e)'
      <4>1. CASE p = turn
        BY <2>1, <3>1, <4>1 DEF Filed
      <4>2. CASE p # turn
        <5>1. e \notin unsaved /\ Filed(p, e)
          BY <1>w, <2>1, <2>5, <3>2, <3>4, <4>2 DEF Written
        <5>. QED  BY <3>1, <4>2, <5>1 DEF Filed
      <4>. QED  BY <4>1, <4>2
    <3>5. ASSUME NEW c \in Closer, NEW s \in batch[c], s.person \notin clobbered',
                 NEW e \in s.exchanges \ unsaved'
          PROVE  Filed(s.person, e)'
      <4>1. s.person \in Person /\ s.person # turn /\ e \notin unsaved /\ Filed(s.person, e)
        BY <1>w, <2>3, <2>5, <3>3, <3>5 DEF Written
      <4>. QED  BY <3>1, <4>1 DEF Filed
    <3>. QED  BY <2>1, <2>2, <3>4, <3>5 DEF Written, Filed
  <2>. QED  BY <1>10, <2>2, <2>4, <2>5 DEF Save
<1>11. CASE Crash
  BY <1>11 DEF Crash, Alone, Written
<1>12. CASE Open
  <2>1. /\ UNCHANGED <<files, batch, removing, unsaved>> /\ \A c \in Closer : batch[c] = {}
        /\ \A p \in Person : sessions'[p] = Loaded(p)
    BY <1>12, <1>t DEF Open, disk, closing, past, Resting, Closer
  <2>2. Alone'
    BY <1>1, <2>1
  <2>3. Written'
    BY <1>t, <2>1, LoadedType DEF Written, Filed
  <2>. QED  BY <2>2, <2>3
<1>. QED
  BY <1>2, <1>3, <1>4, <1>5, <1>6, <1>7, <1>8, <1>9, <1>10, <1>11, <1>12 DEF Step

\* So do Alone and Written at first.
LEMMA InitWritten == Init => Alone /\ Written
BY DEF Init, Alone, Written

\* A live session is in its file as far as it was recorded, whatever became of
\* the person's earlier sessions meanwhile, unless an expire was about to
\* delete the file when it began (session.go:167-189, session.go:207-235).
THEOREM LiveSessionOnDisk ==
  ASSUME OwnNames
  PROVE  Spec => []LiveOnDisk
<1>1. Written => LiveOnDisk
  BY DEF Written, Filed, LiveOnDisk
<1>2. Whole /\ Alone /\ Written /\ [Next]_vars => Alone' /\ Written'
  BY WrittenStep
<1>. QED  BY <1>1, <1>2, InitWhole, InitWritten, WholeStep, PTL DEF Spec

\* A crash loses what is not in its file, and that is all it loses.
LEMMA CrashKeeps ==
  ASSUME Whole, Written, NothingForgotten, Watch, Crash
  PROVE  NothingForgotten'
<1>t. TypeOK /\ Belongs /\ Saving /\ Shape /\ clobbered \subseteq clobbered'
  BY Watched DEF Whole, Shape
<1>1. /\ up /\ ~up' /\ stops' > 0 /\ unsaved \subseteq unsaved'
      /\ pc["worker"] = "saving" => recorded \in unsaved'
      /\ UNCHANGED <<files, recorded, owner, archives, displaced>>
  BY <1>t DEF Crash, disk, Saving, TypeOK
<1>2. ASSUME NEW e \in 1..recorded, InMemory(e), e \notin unsaved', owner[e] \notin clobbered'
      PROVE  OnFile(e)
  <2>1. PICK q \in Person : Filed(q, e)
    <3>1. CASE \E p \in Person : sessions[p] # None /\ e \in sessions[p].exchanges
      BY <1>t, <1>1, <1>2, <3>1 DEF Written, Belongs, Owned
    <3>2. CASE \E c \in Closer : \E s \in batch[c] : e \in s.exchanges
      <4>1. PICK c \in Closer : \E s \in batch[c] : e \in s.exchanges
        BY <3>2
      <4>2. PICK s \in batch[c] : e \in s.exchanges
        BY <4>1
      <4>3. s.person \in Person /\ owner[e] = s.person
        BY <1>t, <4>2 DEF Belongs, Owned, TypeOK, Session
      <4>. QED  BY <1>t, <1>1, <1>2, <4>2, <4>3 DEF Written
    <3>. QED  BY <1>2, <3>1, <3>2 DEF InMemory
  <2>. QED  BY <2>1, SessionConstants DEF Filed, OnFile
<1>3. \A e \in 1..recorded : OnFile(e)' <=> OnFile(e)
  BY <1>1 DEF OnFile
<1>. QED  BY <1>t, <1>1, <1>2, <1>3 DEF NothingForgotten

\* No step loses an exchange that the step before had.
LEMMA KeptStep ==
  ASSUME Whole, Written, NothingForgotten, [Next]_vars
  PROVE  NothingForgotten'
<1>t. TypeOK /\ Resting /\ Shape /\ Saving /\ Belongs /\ OnePlace /\ Turning
  BY DEF Whole, Shape
<1>e. 1..recorded \subseteq Exchange
  BY <1>t, SessionConstants DEF TypeOK, Exchange
<1>1. ASSUME UNCHANGED <<up, recorded, owner, archives, displaced, stops>>, up,
             \A e \in Exchange : InMemory(e) => InMemory(e)',
             unsaved \subseteq unsaved', clobbered \subseteq clobbered'
      PROVE  NothingForgotten'
  BY <1>1, <1>e DEF NothingForgotten
<1>2. CASE UNCHANGED vars
  <2>1. /\ UNCHANGED <<up, recorded, owner, archives, displaced, stops, unsaved, clobbered>>
        /\ UNCHANGED <<files, sessions, batch>>
    BY <1>2 DEF vars, disk, store, closing, working, bounds, past
  <2>. QED  BY <2>1 DEF NothingForgotten, InMemory, OnFile
<1>. SUFFICES ASSUME Step, Watch, clobbered \subseteq clobbered' PROVE NothingForgotten'
  BY <1>2, <1>t, Watched DEF Next
<1>3. CASE SweepEnd \/ History \/ EndTurn \/ (\E p \in Person : Age(p)) \/ \E c \in Closer : Remove(c)
  <2>1. UNCHANGED <<up, recorded, owner, archives, displaced, stops, unsaved>> /\ up
    BY <1>3 DEF SweepEnd, History, EndTurn, Age, Remove, Expiring, store, working, bounds, past,
                Fault, NoFault
  <2>. QED  BY <1>1, <1>3, <1>t, <2>1, ElsewhereMoves DEF Elsewhere
<1>4. CASE Sweep
  <2>1. /\ batch["sweeper"] = {} /\ Take("sweeper", Idle(Person))
        /\ UNCHANGED <<up, recorded, owner, archives, displaced, stops, unsaved>> /\ up
    BY <1>4, <1>t DEF Sweep, working, bounds, past, Resting, Closer
  <2>. QED  BY <1>1, <1>t, <2>1, TakeMoves DEF Closer
<1>5. ASSUME NEW p \in Person, BeginTurn(p) PROVE NothingForgotten'
  <2>1. /\ batch["worker"] = {} /\ Take("worker", Idle({p}))
        /\ UNCHANGED <<up, recorded, owner, archives, displaced, stops, unsaved>> /\ up
    BY <1>5, <1>t DEF BeginTurn, bounds, past, Resting, Closer
  <2>. QED  BY <1>1, <1>t, <2>1, TakeMoves DEF Closer
<1>6. ASSUME NEW c \in Closer, NEW s \in batch[c], Archive(c, s) PROVE NothingForgotten'
  <2>1. /\ \A e \in Exchange : archives'[e] = IF e \in s.exchanges THEN archives[e] + 1 ELSE archives[e]
        /\ \A e \in Exchange : archives[e] \in Nat
        /\ UNCHANGED <<up, recorded, owner, displaced, stops, unsaved>> /\ up
    BY <1>6, <1>t DEF Archive, Archived, Expiring, store, working, bounds, NoFault, TypeOK
  <2>2. \A e \in Exchange : InMemory(e) => InMemory(e)' \/ e \in s.exchanges
    BY <1>6, <1>t, ArchiveRemoves
  <2>. QED  BY <1>e, <2>1, <2>2 DEF NothingForgotten
<1>7. ASSUME NEW c \in Closer, NEW s \in batch[c], ArchiveFail(c, s) PROVE NothingForgotten'
  <2>1. /\ UNCHANGED <<up, recorded, owner, archives, stops, unsaved>> /\ up
        /\ displaced \subseteq displaced'
    BY <1>7 DEF ArchiveFail, PutBack, Expiring, working, Fault
  <2>2. \A e \in Exchange : InMemory(e) => InMemory(e)' \/ e \in displaced'
    BY <1>7, <1>t, FailureMoves
  <2>. QED  BY <1>e, <2>1, <2>2 DEF NothingForgotten
<1>8. CASE Record
  <2>1. /\ UNCHANGED <<up, archives, displaced, stops, unsaved>> /\ up
        /\ owner' = [owner EXCEPT ![recorded + 1] = turn] /\ recorded \in Nat
    BY <1>8, <1>t DEF Record, bounds, TypeOK
  <2>2. /\ recorded' = recorded + 1
        /\ \A e \in Exchange : InMemory(e)' <=> InMemory(e) \/ e = recorded'
    BY <1>8, <1>t, RecordAdds
  <2>3. \A e \in 1..recorded : e # recorded + 1 /\ owner'[e] = owner[e]
    BY <1>e, <1>t, <2>1 DEF TypeOK
  <2>4. \A e \in 1..recorded' : e \in 1..recorded \/ e = recorded'
    BY <2>1, <2>2
  <2>5. recorded' \in Exchange
    BY <1>8, <1>t, <2>2, RecordAdds
  <2>. QED  BY <1>e, <2>1, <2>2, <2>3, <2>4, <2>5 DEF NothingForgotten
<1>9. CASE Save
  <2>1. /\ UNCHANGED <<up, recorded, owner, archives, displaced, stops>> /\ up
        /\ turn \in Person /\ saving = sessions[turn] /\ saving # None
        /\ unsaved \ saving.exchanges \subseteq unsaved'
    BY <1>9, <1>t DEF Save, store, past, bounds, Turning, Saving, Fault, NoFault, TypeOK
  <2>2. \A e \in Exchange : e \in saving.exchanges => InMemory(e)
    BY <2>1 DEF InMemory
  <2>3. \A e \in Exchange : InMemory(e)' <=> InMemory(e)
    BY <1>9, <1>t, ElsewhereMoves DEF Elsewhere
  <2>. QED  BY <1>e, <2>1, <2>2, <2>3 DEF NothingForgotten
<1>10. CASE Crash
  BY <1>10, CrashKeeps
<1>11. CASE Open
  <2>1. UNCHANGED <<recorded, owner, archives, displaced, stops, unsaved>> /\ ~up /\ up'
    BY <1>11 DEF Open, working, bounds
  <2>. QED  BY <1>e, <1>11, <1>t, <2>1, OpenReads DEF NothingForgotten
<1>. QED
  BY <1>3, <1>4, <1>5, <1>6, <1>7, <1>8, <1>9, <1>10, <1>11 DEF Step

\* "After 10 idle minutes it's saved to memory as a transcript" (README.md:10):
\* what was recorded is archived, in memory or on disk, but for an archive that
\* failed while a new session began, a failed write and a file deleted under a
\* live session.
THEOREM RecordedIsKept ==
  ASSUME OwnNames
  PROVE  Spec => []NothingForgotten
<1>1. Init => NothingForgotten
  BY DEF Init, NothingForgotten
<1>2. Whole /\ Alone /\ Written /\ [Next]_vars => Alone' /\ Written'
  BY WrittenStep
<1>3. Whole /\ Written /\ NothingForgotten /\ [Next]_vars => NothingForgotten'
  BY KeptStep
<1>. QED  BY <1>1, <1>2, <1>3, InitWhole, InitWritten, WholeStep, PTL DEF Spec
===============================================================================
