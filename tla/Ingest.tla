------------------------------- MODULE Ingest -------------------------------
(***************************************************************************)
(* internal/ingest and the mail poller of internal/connectors/email: how   *)
(* what arrives becomes a task.  The poller fetches unread mail, marks it  *)
(* read, and only then hands it on, message by message; a chat connector   *)
(* hands on what its gateway delivers, at the same time and from another   *)
(* goroutine.  The engine remembers what it has seen in a short FIFO, in   *)
(* memory, and offers the rest to the queue, which may refuse it.          *)
(***************************************************************************)
EXTENDS Integers, Sequences, FiniteSets, SequencesExt

CONSTANTS
  MaxMails,      \* bound: mails, named in the order of their UIDs
  Readable,      \* mails with a text/plain part
  Chat,          \* chat messages
  Admitted,      \* chat messages whose author the allowlist admits
  MaxPerPoll,    \* maxPerPoll (20)
  DedupSize,     \* dedupSize (1024)
  MaxBackoff,    \* maxBackoff, in units of minBackoff (60)
  MaxDeliveries, \* bound: chat messages delivered, repeats included
  MaxStops,      \* bound: crashes and stops
  MaxFaults,     \* bound: flags not stored, events refused, sources that end
  None

Mail  == 1..MaxMails
Event == Mail \cup Chat
Source == {"email", "chat"}

ASSUME IngestConstants ==
  /\ Readable \subseteq Mail /\ Admitted \subseteq Chat /\ Chat \cap Int = {}
  /\ None \notin Mail \cup Chat
  /\ MaxPerPoll \in Nat \ {0} /\ DedupSize \in Nat \ {0} /\ MaxBackoff \in Nat \ {0}
  /\ MaxMails \in Nat /\ MaxDeliveries \in Nat /\ MaxStops \in Nat /\ MaxFaults \in Nat

VARIABLES
  mailbox,   \* each mail: not "there" yet, "unread", "read"
  poll,      \* the poller: "idle", to "store" flags, to "emit"
  fetched,   \* the mails it has and has not emitted
  emitting,  \* the event each source's emit has remembered and not enqueued
  order,     \* Engine.order; Engine.seen is its range
  sup,       \* supervise, of each source: "run", "wait", "ended"
  backoff, healthy, \* its local, and whether Run has lasted healthyRun
  up, stopping,
  tasks,     \* how many tasks each event has become
  delivered, stops, faults,
  \* history
  offered,   \* events the queue was offered
  forgot,    \* events whose entry left the FIFO, by age or with the process
  cut        \* read mail that was in hand when the process crashed

engine == <<emitting, order>>
poller == <<poll, fetched>>
supervision == <<sup, backoff, healthy>>
bounds == <<delivered, stops, faults>>
past   == <<offered, forgot, cut>>
vars == <<mailbox, poller, engine, supervision, up, stopping, tasks, bounds, past>>

Fault   == faults < MaxFaults /\ faults' = faults + 1 /\ UNCHANGED <<delivered, stops>>
NoFault == UNCHANGED bounds

Init ==
  /\ mailbox = [m \in Mail |-> "there"] /\ poll = "idle" /\ fetched = {}
  /\ emitting = [s \in Source |-> None] /\ order = <<>>
  /\ sup = [s \in Source |-> "run"] /\ backoff = [s \in Source |-> 1]
  /\ healthy = [s \in Source |-> FALSE]
  /\ up = TRUE /\ stopping = FALSE
  /\ tasks = [e \in Event |-> 0]
  /\ delivered = 0 /\ stops = 0 /\ faults = 0
  /\ offered = {} /\ forgot = {} /\ cut = {}

-----------------------------------------------------------------------------
(* The mail poller *)

\* A mail arrives, from a sender the connector reads.
Arrive(m) ==
  /\ mailbox[m] = "there" /\ \A n \in 1..(m - 1) : mailbox[n] # "there"
  /\ mailbox' = [mailbox EXCEPT ![m] = "unread"]
  /\ UNCHANGED <<poller, engine, supervision, up, stopping, tasks, bounds, past>>

Unread == {m \in Mail : mailbox[m] = "unread"}
Older(m) == {n \in Unread : n < m}

\* Mutant: one mail less.
WantedFewer == {m \in Unread : Cardinality(Older(m)) < MaxPerPoll - 1}

\* The oldest unread mails, as many as one poll takes.
Wanted == {m \in Unread : Cardinality(Older(m)) < MaxPerPoll}

IsReadable(m) == m \in Readable

\* A poll searches and fetches; what has no text is skipped.
Poll ==
  /\ up /\ sup["email"] = "run" /\ poll = "idle"
  /\ Wanted # {}
  /\ fetched' = {m \in Wanted : IsReadable(m)}
  /\ poll' = IF fetched' = {} THEN "idle" ELSE "store"
  /\ UNCHANGED <<mailbox, engine, supervision, up, stopping, tasks, bounds, past>>

Marked == fetched

\* The flags are stored, or that fails and is only logged.
Store ==
  /\ up /\ poll = "store"
  /\ \/ /\ mailbox' = [m \in Mail |-> IF m \in Marked THEN "read" ELSE mailbox[m]]
        /\ NoFault
     \/ Fault /\ UNCHANGED mailbox
  /\ poll' = "emit"
  /\ UNCHANGED <<fetched, engine, supervision, up, stopping, tasks, past>>

-----------------------------------------------------------------------------
(* Engine.admit *)

Seen == ToSet(order)

\* remember: the oldest entry leaves when there are too many.
Remembered(e) ==
  IF Len(order) = DedupSize THEN Append(Tail(order), e) ELSE Append(order, e)

Allowed(e) == e \in Mail \cup Admitted

\* Mutant: the event is remembered once it has become a task.
AdmitUnseen(s, e) ==
  /\ up /\ emitting[s] = None
  /\ emitting' = [emitting EXCEPT ![s] = IF e \notin Seen /\ Allowed(e) THEN e ELSE None]
  /\ UNCHANGED <<order, forgot>>

\* Under the mutex: a duplicate is dropped, the rest is remembered, and then
\* dropped if its author is not admitted.
Admit(s, e) ==
  /\ up /\ emitting[s] = None
  /\ IF e \in Seen
     THEN UNCHANGED <<engine, forgot>>
     ELSE /\ order' = Remembered(e)
          /\ forgot' = forgot \cup (Seen \ ToSet(order'))
          /\ emitting' = [emitting EXCEPT ![s] = IF Allowed(e) THEN e ELSE None]

\* The poller emits its batch one by one, in the order the server sent it.
EmitMail ==
  /\ poll = "emit"
  /\ \E m \in fetched : Admit("email", m) /\ fetched' = fetched \ {m}
  /\ UNCHANGED <<mailbox, poll, supervision, up, stopping, tasks, bounds, offered, cut>>

\* The gateway delivers a message, for the first time or again.
EmitChat(c) ==
  /\ sup["chat"] = "run" /\ delivered < MaxDeliveries
  /\ delivered' = delivered + 1
  /\ Admit("chat", c)
  /\ UNCHANGED <<mailbox, poller, supervision, up, stopping, tasks, stops, faults, offered, cut>>

\* Without the mutex: the queue takes the event or refuses it.
Enqueue(s) ==
  /\ up /\ emitting[s] # None
  /\ offered' = offered \cup {emitting[s]}
  /\ emitting' = [emitting EXCEPT ![s] = None]
  /\ \/ tasks' = [tasks EXCEPT ![emitting[s]] = @ + 1] /\ NoFault
     \/ Fault /\ UNCHANGED tasks
  /\ UNCHANGED <<mailbox, poller, order, supervision, up, stopping, forgot, cut>>

PollEnd ==
  /\ up /\ poll = "emit" /\ fetched = {} /\ emitting["email"] = None
  /\ poll' = "idle"
  /\ UNCHANGED <<mailbox, fetched, engine, supervision, up, stopping, tasks, bounds, past>>

-----------------------------------------------------------------------------
(* Engine.supervise *)

\* A source keeps running for healthyRun.
Healthy(s) ==
  /\ up /\ sup[s] = "run" /\ ~healthy[s]
  /\ healthy' = [healthy EXCEPT ![s] = TRUE]
  /\ UNCHANGED <<mailbox, poller, engine, sup, backoff, up, stopping, tasks, bounds, past>>

\* The backoff after a run that has ended.
AfterRun(s) == IF healthy[s] THEN 1 ELSE backoff[s]

\* Run returns although nobody asked it to.  Only a source like chat does.
SourceEnds ==
  /\ up /\ sup["chat"] = "run" /\ ~stopping
  /\ Fault
  /\ sup' = [sup EXCEPT !["chat"] = "wait"]
  /\ backoff' = [backoff EXCEPT !["chat"] = AfterRun("chat")]
  /\ UNCHANGED <<mailbox, poller, engine, healthy, up, stopping, tasks, past>>

NextBackoff(s) == Min({2 * backoff[s], MaxBackoff})

SourceRestarts ==
  /\ up /\ sup["chat"] = "wait" /\ ~stopping
  /\ sup' = [sup EXCEPT !["chat"] = "run"]
  /\ backoff' = [backoff EXCEPT !["chat"] = NextBackoff("chat")]
  /\ healthy' = [healthy EXCEPT !["chat"] = FALSE]
  /\ UNCHANGED <<mailbox, poller, engine, up, stopping, tasks, bounds, past>>

\* The context is cancelled, and Run returns: the poller's between two polls.
SourceStops(s) ==
  /\ up /\ stopping /\ sup[s] # "ended"
  /\ s = "email" => poll = "idle"
  /\ sup' = [sup EXCEPT ![s] = "ended"]
  /\ UNCHANGED <<mailbox, poller, engine, backoff, healthy, up, stopping, tasks, bounds, past>>

-----------------------------------------------------------------------------
(* main *)

Cancel ==
  /\ up /\ ~stopping /\ stops < MaxStops
  /\ stopping' = TRUE /\ stops' = stops + 1
  /\ UNCHANGED <<mailbox, poller, engine, supervision, up, tasks, delivered, faults, past>>

\* Mail that was marked read and has not got as far as the queue.
InHand == {m \in Mail : mailbox[m] = "read" /\ (m \in fetched \/ emitting["email"] = m)}

LoseMemory ==
  /\ up' = FALSE /\ stopping' = FALSE
  /\ poll' = "idle" /\ fetched' = {}
  /\ emitting' = [s \in Source |-> None] /\ order' = <<>>
  /\ forgot' = forgot \cup Seen
  /\ UNCHANGED <<mailbox, supervision, tasks, delivered, faults, offered>>

Crash ==
  /\ up /\ stops < MaxStops /\ stops' = stops + 1
  /\ cut' = cut \cup InHand
  /\ LoseMemory

\* Mutant: the process does not wait for its sources.
WaitNot == TRUE

\* Engine.Wait.
Wait == \A s \in Source : sup[s] = "ended"

Exit ==
  /\ up /\ stopping /\ Wait
  /\ LoseMemory /\ UNCHANGED <<stops, cut>>

Boot ==
  /\ ~up /\ up' = TRUE
  /\ sup' = [s \in Source |-> "run"] /\ backoff' = [s \in Source |-> 1]
  /\ healthy' = [s \in Source |-> FALSE]
  /\ UNCHANGED <<mailbox, poller, engine, stopping, tasks, bounds, past>>

Next ==
  \/ \E m \in Mail : Arrive(m)
  \/ Poll \/ Store \/ EmitMail \/ PollEnd
  \/ \E c \in Chat : EmitChat(c)
  \/ \E s \in Source : Enqueue(s) \/ Healthy(s) \/ SourceStops(s)
  \/ SourceEnds \/ SourceRestarts
  \/ Cancel \/ Crash \/ Exit \/ Boot

Spec == Init /\ [][Next]_vars

\* The poller ticks and runs on, the engine admits, a process that was told to
\* stop does and is started again.  The mail server can be reached in the end.
FairSpec ==
  /\ Spec
  /\ WF_vars(Poll) /\ WF_vars(Store) /\ WF_vars(EmitMail) /\ WF_vars(PollEnd)
  /\ WF_vars(Enqueue("email"))
  /\ \A s \in Source : WF_vars(SourceStops(s))
  /\ WF_vars(Exit) /\ WF_vars(Boot)

-----------------------------------------------------------------------------
(* Properties *)

\* The shape of the state.
TypeOK ==
  /\ mailbox \in [Mail -> {"there", "unread", "read"}]
  /\ poll \in {"idle", "store", "emit"} /\ fetched \subseteq Mail
  /\ emitting \in [Source -> Event \cup {None}]
  /\ order \in Seq(Event) /\ Len(order) <= DedupSize
  /\ sup \in [Source -> {"run", "wait", "ended"}] /\ healthy \in [Source -> BOOLEAN]
  /\ backoff \in [Source -> 1..MaxBackoff]
  /\ up \in BOOLEAN /\ stopping \in BOOLEAN
  /\ tasks \in [Event -> Nat]
  /\ delivered \in 0..MaxDeliveries /\ stops \in 0..MaxStops /\ faults \in 0..MaxFaults

\* An event that is emitted again, by a poll that could not mark it or a
\* gateway that repeats itself, becomes one task, as long as the FIFO holds it.
OneTaskEach == \A e \in Event : tasks[e] > 1 => e \in forgot

\* Mail that was marked read has been offered to the queue or is on its way
\* there, unless the process crashed in between: one that is stopped finishes
\* the poll under way first.
ReadIsOffered ==
  \A m \in Mail : mailbox[m] = "read" => m \in offered \cup InHand \cup cut

\* Mail that can be read gets to the queue, or was cut off by a crash, if no
\* poll is filled by mail that cannot.
EveryMailOffered ==
  Cardinality(Mail \ Readable) < MaxPerPoll =>
    \A m \in Readable : mailbox[m] = "unread" ~> m \in offered \cup cut

\* "the rest wait" (imap.go:15): mail beyond maxPerPoll is fetched later.
RestIsFetched == \A m \in Readable : mailbox[m] = "unread" ~> m \in offered \cup cut

\* "Ingest dedup absorbs the repeat on the next poll." (imap.go:138)
RepeatAbsorbed == \A m \in Mail : tasks[m] <= 1
=============================================================================
