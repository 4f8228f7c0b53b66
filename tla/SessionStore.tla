----------------------------- MODULE SessionStore -----------------------------
(***************************************************************************)
(* internal/session: one live conversation per person, in a map under a    *)
(* mutex and in one file each.  Two goroutines close idle conversations:   *)
(* the sweeper (Run) all of them, and the worker, when a turn asks for the *)
(* history of one person.  Closing takes the conversation out of the map,  *)
(* archives it and deletes the file, and only the first of the three is    *)
(* under the mutex; archiving may take a call of the language model.       *)
(*                                                                         *)
(* Exchanges are numbered as they are recorded; a conversation is the set  *)
(* of its exchanges.                                                       *)
(***************************************************************************)
EXTENDS Integers, FiniteSets

CONSTANTS
  Person,
  File,         \* file names
  FileOf,       \* Store.path: the file of each person
  MaxExchanges, \* bound: exchanges recorded
  MaxStops,     \* bound: crashes
  MaxFaults,    \* bound: failed archives and file operations
  None

Exchange == 1..MaxExchanges
Session  == [person : Person, exchanges : SUBSET Exchange, idle : BOOLEAN]
Closer   == {"sweeper", "worker"}

ASSUME SessionConstants ==
  /\ FileOf \in [Person -> File]
  /\ MaxExchanges \in Nat /\ MaxStops \in Nat /\ MaxFaults \in Nat
  /\ None \notin Session /\ None \notin Person

VARIABLES
  files,     \* the session in each file, or None
  sessions,  \* Store.sessions: each person's session, or None
  up,
  batch,     \* sessions that each running expire has taken and not archived
  removing,  \* the archived session whose file each expire is to delete
  pc,        \* each goroutine: "off" between its calls
  turn,      \* the person of the worker's turn
  history,   \* what History returned to the turn, exchanges and idleness
  saving,    \* Record's marshalled session, until it is written
  recorded, stops, faults,
  \* history of the run
  owner,     \* the person of each exchange
  archives,  \* how often each exchange was archived
  unsaved,   \* exchanges whose file was not written when they were recorded
  displaced, \* sessions that failed to be archived and were replaced meanwhile
  clobbered, \* people recorded while an expire was about to delete their file
  returned,  \* people whose idle session an archive failure put back
  reread     \* archived exchanges that a restart found in their file

disk    == <<files>>
store   == <<sessions, up>>
closing == <<batch, removing>>
working == <<turn, history, saving, recorded>>
bounds  == <<stops, faults>>
past    == <<owner, archives, unsaved, displaced, returned, reread>>
vars == <<disk, store, closing, pc, working, bounds, past, clobbered>>

Fault   == faults < MaxFaults /\ faults' = faults + 1 /\ UNCHANGED stops
NoFault == UNCHANGED bounds

Init ==
  /\ files = [f \in File |-> None] /\ sessions = [p \in Person |-> None] /\ up = TRUE
  /\ batch = [c \in Closer |-> {}] /\ removing = [c \in Closer |-> None]
  /\ pc = [c \in Closer |-> "off"]
  /\ turn = None /\ history = None /\ saving = None
  /\ recorded = 0 /\ stops = 0 /\ faults = 0
  /\ owner = [e \in Exchange |-> None] /\ archives = [e \in Exchange |-> 0]
  /\ unsaved = {} /\ displaced = {} /\ clobbered = {} /\ returned = {} /\ reread = {}

-----------------------------------------------------------------------------
(* expire *)

\* Mutant: the comparison is the wrong way round.
IdleReversed(P) == {p \in P : sessions[p] # None /\ ~sessions[p].idle}

Idle(P) == {p \in P : sessions[p] # None /\ sessions[p].idle}

\* Mutant: the sessions stay in the map until they are archived.
TakeLate(c, P) == batch' = [batch EXCEPT ![c] = {sessions[p] : p \in P}] /\ UNCHANGED sessions

\* Under the mutex the idle sessions leave the map.
Take(c, P) ==
  /\ batch' = [batch EXCEPT ![c] = {sessions[p] : p \in P}]
  /\ sessions' = [p \in Person |-> IF p \in P THEN None ELSE sessions[p]]

\* The sweeper's tick takes everybody's.
Sweep ==
  /\ up /\ pc["sweeper"] = "off"
  /\ Take("sweeper", Idle(Person))
  /\ pc' = [pc EXCEPT !["sweeper"] = "expiring"]
  /\ UNCHANGED <<disk, up, removing, working, bounds, past>>

\* The worker begins a turn of p: History closes p's idle session first.
BeginTurn(p) ==
  /\ up /\ pc["worker"] = "off" /\ turn = None
  /\ Take("worker", Idle({p}))
  /\ pc' = [pc EXCEPT !["worker"] = "expiring"]
  /\ turn' = p
  /\ UNCHANGED <<disk, up, removing, history, saving, recorded, bounds, past>>

Expiring(c) == up /\ pc[c] = "expiring" /\ removing[c] = None

Archived(s) == [e \in Exchange |-> IF e \in s.exchanges THEN archives[e] + 1 ELSE archives[e]]

Archive(c, s) ==
  /\ Expiring(c) /\ s \in batch[c]
  /\ batch' = [batch EXCEPT ![c] = @ \ {s}]
  /\ removing' = [removing EXCEPT ![c] = s]
  /\ archives' = Archived(s)
  /\ NoFault
  /\ UNCHANGED <<disk, store, pc, working, owner, unsaved, displaced, returned, reread>>

\* Mutant: a session that was not archived is dropped.
PutBackNever(s) == UNCHANGED sessions /\ displaced' = displaced /\ returned' = returned

\* Under the mutex, a session that could not be archived goes back, unless
\* the person has started another one.
PutBack(s) ==
  \/ /\ sessions[s.person] = None
     /\ sessions' = [sessions EXCEPT ![s.person] = s]
     /\ returned' = returned \cup {s.person}
     /\ UNCHANGED displaced
  \/ /\ sessions[s.person] # None
     /\ displaced' = displaced \cup s.exchanges
     /\ UNCHANGED <<sessions, returned>>

ArchiveFail(c, s) ==
  /\ Expiring(c) /\ s \in batch[c]
  /\ batch' = [batch EXCEPT ![c] = @ \ {s}]
  /\ Fault
  /\ PutBack(s)
  /\ UNCHANGED <<disk, up, removing, pc, working, owner, archives, unsaved, reread>>

\* Mutant: the directory is emptied.
RemoveEveryFile(s) == files' = [f \in File |-> None]

RemoveFile(s) == files' = [files EXCEPT ![FileOf[s.person]] = None]

\* Without the mutex, the archived session's file is deleted.
Remove(c) ==
  /\ up /\ removing[c] # None
  /\ removing' = [removing EXCEPT ![c] = None]
  /\ \/ /\ RemoveFile(removing[c]) /\ NoFault
     \/ Fault /\ UNCHANGED files
  /\ UNCHANGED <<store, batch, pc, working, owner, archives, unsaved, displaced, returned, reread>>

SweepEnd ==
  /\ Expiring("sweeper") /\ batch["sweeper"] = {}
  /\ pc' = [pc EXCEPT !["sweeper"] = "off"]
  /\ UNCHANGED <<disk, store, closing, working, bounds, past>>

-----------------------------------------------------------------------------
(* History and Record *)

\* The second half of History: the session there is now.
History ==
  /\ Expiring("worker") /\ batch["worker"] = {}
  /\ history' = sessions[turn]
  /\ pc' = [pc EXCEPT !["worker"] = "turn"]
  /\ UNCHANGED <<disk, store, closing, turn, saving, recorded, bounds, past>>

\* A turn that parks records nothing.
EndTurn ==
  /\ up /\ pc["worker"] = "turn"
  /\ pc' = [pc EXCEPT !["worker"] = "off"]
  /\ turn' = None /\ history' = None
  /\ UNCHANGED <<disk, store, closing, saving, recorded, bounds, past>>

Grown(p, e) ==
  [person |-> p, idle |-> FALSE,
   exchanges |-> {e} \cup IF sessions[p] = None THEN {} ELSE sessions[p].exchanges]

\* The first half of Record: the exchange goes into the map, and the session
\* as it is then is what will be written.
Record ==
  /\ up /\ pc["worker"] = "turn" /\ recorded < MaxExchanges
  /\ recorded' = recorded + 1
  /\ sessions' = [sessions EXCEPT ![turn] = Grown(turn, recorded + 1)]
  /\ saving' = Grown(turn, recorded + 1)
  /\ owner' = [owner EXCEPT ![recorded + 1] = turn]
  /\ pc' = [pc EXCEPT !["worker"] = "saving"]
  /\ UNCHANGED <<disk, up, closing, turn, history, bounds, archives, unsaved,
                 displaced, returned, reread>>

\* The file is written without the mutex; a failure is only logged.
Save ==
  /\ up /\ pc["worker"] = "saving"
  /\ \/ /\ files' = [files EXCEPT ![FileOf[turn]] = saving] /\ NoFault
        /\ unsaved' = unsaved \ saving.exchanges
     \/ Fault /\ unsaved' = unsaved \cup {recorded} /\ UNCHANGED files
  /\ saving' = None /\ turn' = None /\ history' = None
  /\ pc' = [pc EXCEPT !["worker"] = "off"]
  /\ UNCHANGED <<store, closing, recorded, owner, archives, displaced, returned, reread>>

-----------------------------------------------------------------------------
(* Time, crashes, restarts *)

\* The idle timeout passes.  It is minutes: no session goes idle between the
\* two halves of Record, or of a History that found it live.
Age(p) ==
  /\ up /\ sessions[p] # None /\ ~sessions[p].idle
  /\ pc["worker"] \in {"expiring", "saving"} => turn # p
  /\ sessions' = [sessions EXCEPT ![p].idle = TRUE]
  /\ UNCHANGED <<disk, up, closing, pc, working, bounds, past>>

\* The process ends: on a signal nobody waits for the sweeper or the worker.
Crash ==
  /\ up /\ stops < MaxStops
  /\ stops' = stops + 1
  /\ up' = FALSE
  /\ sessions' = [p \in Person |-> None]
  /\ batch' = [c \in Closer |-> {}] /\ removing' = [c \in Closer |-> None]
  /\ pc' = [c \in Closer |-> "off"]
  /\ turn' = None /\ history' = None /\ saving' = None
  /\ unsaved' = unsaved \cup {e \in {recorded} : saving # None}
  /\ UNCHANGED <<disk, recorded, faults, owner, archives, displaced, returned, reread>>

\* A file's session goes to the person it names.
Loaded(p) ==
  IF files[FileOf[p]] # None /\ files[FileOf[p]].person = p
  THEN [files[FileOf[p]] EXCEPT !.idle = FALSE] ELSE None

Open ==
  /\ ~up /\ up' = TRUE
  /\ sessions' = [p \in Person |-> Loaded(p)]
  /\ reread' = reread \cup
       {e \in Exchange : archives[e] > 0 /\ \E f \in File : files[f] # None /\ e \in files[f].exchanges}
  /\ UNCHANGED <<disk, closing, pc, working, bounds, owner, archives, unsaved,
                 displaced, returned>>

\* History: a session is live in the map while an expire is on its way to
\* delete the file of the same person.
Watch == clobbered' = clobbered \cup {p \in Person :
           \E c \in Closer, q \in Person :
             /\ FileOf[q] = FileOf[p]
             /\ sessions[p] # None
             /\ \/ removing[c] # None /\ removing[c].person = q
                \/ \E s \in batch[c] : s.person = q}

\* The goroutines that close sessions, the worker and the rest of the world.
Step ==
  \/ Sweep \/ SweepEnd
  \/ \E p \in Person : BeginTurn(p) \/ Age(p)
  \/ \E c \in Closer :
       \/ Remove(c)
       \/ \E s \in batch[c] : Archive(c, s) \/ ArchiveFail(c, s)
  \/ History \/ EndTurn \/ Record \/ Save
  \/ Crash \/ Open

Next == Step /\ Watch

Spec == Init /\ [][Next]_vars

\* The sweeper ticks and both goroutines run on; a stopped process is started
\* again.  Time passes whatever turns begin and end meanwhile: strong fairness.
\* Nobody has to write a message.
Fairness ==
  /\ WF_vars(Sweep /\ Watch) /\ WF_vars(SweepEnd /\ Watch)
  /\ \A c \in Closer :
       /\ WF_vars(Remove(c) /\ Watch)
       /\ WF_vars((\E s \in batch[c] : Archive(c, s) \/ ArchiveFail(c, s)) /\ Watch)
  /\ WF_vars((History \/ EndTurn \/ Save) /\ Watch)
  /\ \A p \in Person : SF_vars(Age(p) /\ Watch)
  /\ WF_vars(Open /\ Watch)

FairSpec == Spec /\ Fairness

-----------------------------------------------------------------------------
(* Properties *)

\* The shape of the state.
TypeOK ==
  /\ files \in [File -> Session \cup {None}] /\ sessions \in [Person -> Session \cup {None}]
  /\ up \in BOOLEAN
  /\ batch \in [Closer -> SUBSET Session] /\ removing \in [Closer -> Session \cup {None}]
  /\ pc \in [Closer -> {"off", "expiring", "turn", "saving"}]
  /\ turn \in Person \cup {None} /\ history \in Session \cup {None}
  /\ saving \in Session \cup {None}
  /\ recorded \in 0..MaxExchanges /\ stops \in 0..MaxStops /\ faults \in 0..MaxFaults
  /\ owner \in [Exchange -> Person \cup {None}] /\ archives \in [Exchange -> Nat]
  /\ unsaved \subseteq Exchange /\ displaced \subseteq Exchange
  /\ clobbered \subseteq Person /\ returned \subseteq Person /\ reread \subseteq Exchange

InMemory(e) ==
  \/ \E p \in Person : sessions[p] # None /\ e \in sessions[p].exchanges
  \/ \E c \in Closer : \E s \in batch[c] : e \in s.exchanges

OnFile(e) == \E f \in File : files[f] # None /\ e \in files[f].exchanges

\* "After 10 idle minutes it's saved to memory as a transcript" (README.md:10):
\* an exchange that was recorded is archived or on its way there, in memory
\* while the process is up and on disk while it is not.  The exceptions are an
\* archive that failed while a new session began, a failed write, and a file
\* deleted under a live session; the last two only matter once memory is lost.
NothingForgotten ==
  \A e \in 1..recorded :
    \/ archives[e] > 0
    \/ IF up THEN InMemory(e) ELSE OnFile(e)
    \/ e \in displaced
    \/ stops > 0 /\ (e \in unsaved \/ owner[e] \in clobbered)

\* A live session is in its file as far as it was recorded, whatever became of
\* the person's earlier sessions meanwhile.
LiveOnDisk ==
  \A p \in Person \ clobbered :
    sessions[p] # None /\ ~(pc["worker"] = "saving" /\ turn = p) =>
      \A e \in sessions[p].exchanges \ unsaved :
        files[FileOf[p]] # None /\ e \in files[FileOf[p]].exchanges

\* The two closers never archive the same exchange: a second transcript of it
\* needs a restart between the archive and the deletion of the file.
ArchivedOnce == \A e \in Exchange : archives[e] > 1 => e \in reread

\* "a stale conversation never leaks into a new one" (session.go:121), unless
\* archiving it failed and put it back.
NoStaleHistory ==
  history # None /\ history.idle => turn \in returned

\* What History returns is the person's own, even when path gives two people
\* the same file name.
OwnHistory ==
  history # None => history.person = turn /\ \A e \in history.exchanges : owner[e] = turn

\* Every exchange ends up in a transcript, with the same exceptions as above.
EveryExchangeArchived ==
  \A e \in Exchange :
    owner[e] # None ~> \/ archives[e] > 0
                       \/ e \in displaced \cup unsaved
                       \/ owner[e] \in clobbered

\* "An error keeps the session on disk so the next sweep retries" (session.go:84).
FailureIsRetried ==
  \A e \in 1..recorded : up /\ archives[e] = 0 /\ pc["worker"] # "saving" => InMemory(e)

\* Sessions survive a restart (session_test.go:47), and a failed save is the
\* only case Record knows in which "history is in memory only" (session.go:187).
RecordedIsSaved ==
  \A p \in Person :
    sessions[p] # None /\ pc["worker"] # "saving" =>
      \A e \in sessions[p].exchanges \ unsaved : OnFile(e)

\* "An idle session is archived first, so a stale conversation never leaks into
\* a new one" (session.go:120).
IdleNeverReturned == history # None => ~history.idle
=============================================================================
