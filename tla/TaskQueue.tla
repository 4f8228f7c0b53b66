------------------------------ MODULE TaskQueue ------------------------------
(***************************************************************************)
(* internal/taskqueue: the durable FIFO between the ingest engine and the  *)
(* single agent worker, and the questions ("parked" records) that wait for *)
(* the user's answer.  Two directories are the durable state, a slice and  *)
(* a map under one mutex are the volatile state, and a process that may    *)
(* crash, or be stopped and started again, sits between them.              *)
(*                                                                         *)
(* A task is named by the order in which it was created, which is also the *)
(* order of its Enqueued time.  A question is named by the order in which  *)
(* it was asked, and time only matters through ParkTTL: every question     *)
(* asked up to `horizon' is older than that.                               *)
(***************************************************************************)
EXTENDS Integers, Sequences, FiniteSets

CONSTANTS
  Actor,        \* accounts that can write to the assistant
  PersonOf,     \* the person behind each account (identity directory), or None
  Capacity,     \* Open's capacity (256 in main.go)
  MaxAttempts,  \* maxAttempts (2)
  MaxTasks,     \* bound: tasks created
  MaxAsks,      \* bound: questions asked
  MaxStops,     \* bound: crashes and stop requests
  MaxFaults,    \* bound: failed file operations
  None          \* no person, no record

TaskId == 1..MaxTasks
AskId  == 1..MaxAsks
NoTask == 0

ASSUME ConstantsOK ==
  /\ Capacity \in Nat \ {0}
  /\ MaxAttempts \in Nat \ {0}
  /\ MaxTasks \in Nat /\ MaxAsks \in Nat
  /\ MaxStops \in Nat /\ MaxFaults \in Nat
  /\ Actor # {}

\* A message can answer a question, and may name the one it replies to; a
\* timer or a notification cannot.
Event == [kind : {"message"}, actor : Actor, inReplyTo : AskId \cup {0}]
           \cup [kind : {"timer"}, actor : Actor, inReplyTo : {0}]

ReplyKey(q)  == <<"reply", q>>
ActorKey(a)  == <<"actor", a>>
PersonKey(p) == <<"person", p>>
Key == {ReplyKey(q) : q \in AskId} \cup {ActorKey(a) : a \in Actor}
         \cup {PersonKey(PersonOf[a]) : a \in Actor}

\* Mutant: the actor's key is looked up before the reply's.
ResumeKeysUnordered(ev) ==
  IF ev.kind # "message" THEN <<>>
  ELSE <<ActorKey(ev.actor)>>
         \o (IF ev.inReplyTo = 0 THEN <<>> ELSE <<ReplyKey(ev.inReplyTo)>>)

\* Mutant: timers answer questions too.
ResumeKeysOfAnyKind(ev) == <<ReplyKey(ev.inReplyTo), ActorKey(ev.actor)>>

\* Event.ResumeKeys: most specific first.
ResumeKeys(ev) ==
  IF ev.kind # "message" THEN <<>>
  ELSE (IF ev.inReplyTo = 0 THEN <<>> ELSE <<ReplyKey(ev.inReplyTo)>>)
         \o <<ActorKey(ev.actor)>>
         \o (IF PersonOf[ev.actor] = None THEN <<>>
             ELSE <<PersonKey(PersonOf[ev.actor])>>)

\* The keys a question carries: askApproval and the user server build the same
\* list.  `sent' says the connector returned an id for the question's message.
AskKeys(ev, q, sent) ==
  {ActorKey(ev.actor)}
    \cup {PersonKey(p) : p \in {PersonOf[ev.actor]} \ {None}}
    \cup {ReplyKey(n) : n \in IF sent THEN {q} ELSE {}}

\* What a parked file holds.  `request' is the task whose message is the
\* request; the question's wording adds nothing to the order it was asked in.
Parked == [task : TaskId, request : TaskId, keys : SUBSET Key, asked : AskId]

\* "No record" is not a record.
ASSUME NoRecord == None \notin Parked

VARIABLES
  \* disk
  pendingFiles, \* ids with a file in pending/
  attempts,     \* the Attempts field of that file
  parkedFiles,  \* the records in parked/
  \* memory
  pending,      \* Queue.pending
  parked,       \* Queue.parked
  notify,       \* the notify channel holds its one token
  enqueuing,    \* Enqueue holds mu for this task, between match and write
  \* the worker and the process
  pc,           \* where the worker is
  current,      \* the task it holds
  asking,       \* Park's record, until it is in the map
  cancelled,    \* the main context is cancelled
  \* what tasks are
  event,        \* Task.Event
  resume,       \* Task.Resume
  created,      \* number of tasks created
  asks,         \* number of questions asked
  horizon,      \* questions up to this one are older than ParkTTL
  stops, faults,
  \* history
  fate,         \* what became of each task
  runs,         \* how often Next handed it out
  unsaved,      \* how often its attempt count was not persisted
  leaked,       \* settled tasks whose file was not removed
  orphaned,     \* answered questions whose file was not removed
  torn          \* tasks that a stop caught between asking and being removed

disk    == <<pendingFiles, attempts, parkedFiles>>
memory  == <<pending, parked, notify, enqueuing>>
process == <<pc, current, asking, cancelled>>
content == <<event, resume, created>>
time    == <<asks, horizon>>
history == <<fate, runs, unsaved, leaked, orphaned, torn>>
vars == <<disk, memory, process, content, time, stops, faults, history>>

Up == pc # "down"

\* A file operation that fails: it uses one of the MaxFaults faults.
Fault   == faults < MaxFaults /\ faults' = faults + 1
NoFault == UNCHANGED faults

Fresh(p) == p.asked > horizon

\* Mutant: the file is only rewritten, never created.
WriteTaskIfThere(id, n) ==
  attempts' = [attempts EXCEPT ![id] = n] /\ UNCHANGED pendingFiles

\* writeJSON(pendingPath(t), t), when it succeeds.
WriteTask(id, n) ==
  /\ pendingFiles' = pendingFiles \cup {id}
  /\ attempts' = [attempts EXCEPT ![id] = n]

\* Mutant: the length is tested before the task is appended.
SignalLate == notify' = (notify \/ pending # <<>>)

\* signal: the token is put into the channel unless it is there already.
Signal == notify' = TRUE

Init ==
  /\ pendingFiles = {} /\ parkedFiles = {}
  /\ attempts = [t \in TaskId |-> 0]
  /\ pending = <<>> /\ parked = {} /\ notify = FALSE /\ enqueuing = NoTask
  /\ pc = "idle" /\ current = NoTask /\ asking = None /\ cancelled = FALSE
  /\ event = [t \in TaskId |-> None]
  /\ resume = [t \in TaskId |-> None]
  /\ created = 0 /\ asks = 0 /\ horizon = 0 /\ stops = 0 /\ faults = 0
  /\ fate = [t \in TaskId |-> "unborn"]
  /\ runs = [t \in TaskId |-> 0]
  /\ unsaved = [t \in TaskId |-> 0]
  /\ leaked = {} /\ orphaned = {} /\ torn = {}

-----------------------------------------------------------------------------
(* Enqueue *)

\* The questions a user can have seen: the running turn sends its question
\* before Park makes the record.
Sent == IF pc = "running" THEN asks + 1 ELSE asks

\* matchParked: the first of the event's keys that any question carries
\* decides, and among the questions that carry it the latest wins.
Matches(ev, p) ==
  LET keys    == ResumeKeys(ev)
      hits(i) == {r \in parked : Fresh(r) /\ keys[i] \in r.keys}
  IN  \E i \in DOMAIN keys :
        /\ p \in hits(i)
        /\ \A j \in 1..(i - 1) : hits(j) = {}
        /\ \A r \in hits(i) : r.asked <= p.asked

\* The tasks whose expired question the scan deletes: it walks over all of
\* them as soon as the event has a key to look up.
Swept(ev) == {p.task : p \in {r \in parked : ResumeKeys(ev) # <<>> /\ ~Fresh(r)}}

\* Mutant: nothing is deleted.
WithoutNone(records, ids) == records

\* A record is deleted by its task's id, in the map and in the directory.
Without(records, ids) == {r \in records : r.task \notin ids}

Full == Len(pending) >= Capacity

\* The first half of Enqueue, up to the write of the task's file: with room in
\* the queue, make the task and take the question it answers, memory and file.
EnqueueMatch(ev) ==
  /\ Up /\ enqueuing = NoTask
  /\ ~Full
  /\ created < MaxTasks
  /\ ev.inReplyTo <= Sent
  /\ LET id == created + 1 IN
       /\ created' = id
       /\ enqueuing' = id
       /\ event' = [event EXCEPT ![id] = ev]
       /\ fate' = [fate EXCEPT ![id] = "enqueuing"]
       /\ \/ /\ \A p \in parked : ~Matches(ev, p)
             /\ parked' = Without(parked, Swept(ev))
             /\ parkedFiles' = Without(parkedFiles, Swept(ev))
             /\ NoFault
             /\ UNCHANGED <<resume, orphaned>>
          \/ \E p \in parked :
             /\ Matches(ev, p)
             /\ resume' = [resume EXCEPT ![id] = p]
             /\ parked' = Without(parked, Swept(ev) \cup {p.task})
             /\ \/ /\ parkedFiles' = Without(parkedFiles, Swept(ev) \cup {p.task})
                   /\ NoFault
                   /\ UNCHANGED orphaned
                \/ /\ parkedFiles' = Without(parkedFiles, Swept(ev))
                   /\ Fault
                   /\ orphaned' = orphaned \cup {p.asked}
  /\ UNCHANGED <<pendingFiles, attempts, pending, notify, process, time, stops,
                 runs, unsaved, leaked, torn>>

\* The rest of Enqueue: the file is written, the task is queued, the worker
\* is signalled, mu is released.
EnqueueWrite ==
  /\ Up /\ enqueuing # NoTask
  /\ WriteTask(enqueuing, 0)
  /\ pending' = Append(pending, enqueuing)
  /\ Signal
  /\ fate' = [fate EXCEPT ![enqueuing] = "accepted"]
  /\ enqueuing' = NoTask
  /\ UNCHANGED <<parkedFiles, parked, process, content, time, stops, faults,
                 runs, unsaved, leaked, orphaned, torn>>

\* ... or the write fails and Enqueue returns the error.
EnqueueFail ==
  /\ Up /\ enqueuing # NoTask
  /\ Fault
  /\ fate' = [fate EXCEPT ![enqueuing] = "refused"]
  /\ enqueuing' = NoTask
  /\ UNCHANGED <<disk, pending, parked, notify, process, content, time, stops,
                 runs, unsaved, leaked, orphaned, torn>>

-----------------------------------------------------------------------------
(* Next, called by the worker in a loop *)

\* Next finds a task.  The attempt is counted in its file; a failed write of
\* the count is only logged.
NextTake ==
  /\ pc = "idle" /\ enqueuing = NoTask /\ pending # <<>>
  /\ LET id == Head(pending) IN
       /\ current' = id
       /\ runs' = [runs EXCEPT ![id] = @ + 1]
       /\ \/ /\ WriteTask(id, attempts[id] + 1)
             /\ NoFault
             /\ UNCHANGED unsaved
          \/ /\ Fault
             /\ unsaved' = [unsaved EXCEPT ![id] = @ + 1]
             /\ UNCHANGED <<pendingFiles, attempts>>
  /\ pending' = Tail(pending)
  /\ pc' = "running"
  /\ UNCHANGED <<parkedFiles, parked, notify, enqueuing, asking, cancelled, content,
                 time, stops, fate, leaked, orphaned, torn>>

\* Next finds nothing, releases mu and blocks in the select.
NextEmpty ==
  /\ pc = "idle" /\ enqueuing = NoTask /\ pending = <<>>
  /\ pc' = "waiting"
  /\ UNCHANGED <<disk, memory, current, asking, cancelled, content, time,
                 stops, faults, history>>

NextWake ==
  /\ pc = "waiting" /\ notify
  /\ notify' = FALSE
  /\ pc' = "idle"
  /\ UNCHANGED <<disk, pending, parked, enqueuing, current, asking, cancelled,
                 content, time, stops, faults, history>>

\* The other branch of the select: the worker's goroutine returns.
NextStop ==
  /\ pc = "waiting" /\ cancelled
  /\ pc' = "stopped"
  /\ UNCHANGED <<disk, memory, current, asking, cancelled, content, time,
                 stops, faults, history>>

-----------------------------------------------------------------------------
(* Park and Done, called when the turn is over *)

\* Mutant: a follow-up question points at the answer that led to it.
RequestLatest(t) == t

\* The task whose message is the request t works on.
RequestOf(t) == IF resume[t] = None THEN t ELSE resume[t].request

\* Park builds the record and writes its file, replacing one the same task
\* left there before.
ParkWrite(sent) ==
  /\ pc = "running" /\ asks < MaxAsks
  /\ asks' = asks + 1
  /\ asking' = [task |-> current, request |-> RequestOf(current),
                 keys |-> AskKeys(event[current], asks + 1, sent), asked |-> asks + 1]
  /\ parkedFiles' = Without(parkedFiles, {current}) \cup {asking'}
  /\ pc' = "parking"
  /\ UNCHANGED <<pendingFiles, attempts, memory, current, cancelled, content, horizon,
                 stops, faults, history>>

\* The write fails: the runtime logs it and calls Done.
ParkFail ==
  /\ pc = "running" /\ asks < MaxAsks
  /\ asks' = asks + 1
  /\ Fault
  /\ pc' = "settling"
  /\ UNCHANGED <<disk, memory, current, asking, cancelled, content, horizon, stops,
                 history>>

\* Mutant: Park returns without Done.
ParkInsertOnly ==
  /\ pc = "parking" /\ enqueuing = NoTask
  /\ parked' = Without(parked, {current}) \cup {asking}
  /\ asking' = None /\ current' = NoTask /\ pc' = "idle"
  /\ UNCHANGED <<disk, pending, notify, enqueuing, cancelled, content, time, stops,
                 faults, history>>

\* Under mu, the record becomes visible to Enqueue.
ParkInsert ==
  /\ pc = "parking" /\ enqueuing = NoTask
  /\ parked' = Without(parked, {current}) \cup {asking}
  /\ asking' = None
  /\ pc' = "settling"
  /\ UNCHANGED <<disk, pending, notify, enqueuing, current, cancelled, content, time,
                 stops, faults, history>>

\* Done, at the end of a turn that did not park or as the last step of Park.
\* A failed removal is only logged.
Done ==
  /\ pc \in {"running", "settling"}
  /\ fate' = [fate EXCEPT ![current] = "settled"]
  /\ \/ /\ pendingFiles' = pendingFiles \ {current}
        /\ NoFault
        /\ leaked' = leaked \ {current}
     \/ /\ Fault
        /\ leaked' = leaked \cup {current}
        /\ UNCHANGED pendingFiles
  /\ current' = NoTask
  /\ pc' = "idle"
  /\ UNCHANGED <<attempts, parkedFiles, memory, asking, cancelled, content, time,
                 stops, runs, unsaved, orphaned, torn>>

-----------------------------------------------------------------------------
(* Time, crashes, restarts *)

Expire ==
  /\ \E h \in (horizon + 1)..asks : horizon' = h
  /\ UNCHANGED <<disk, memory, process, content, asks, stops, faults, history>>

\* Everything that is not on disk is gone; a task whose Enqueue had not
\* returned was never accepted.
LoseMemory ==
  /\ pending' = <<>> /\ parked' = {} /\ notify' = FALSE /\ enqueuing' = NoTask
  /\ pc' = "down" /\ current' = NoTask /\ asking' = None /\ cancelled' = FALSE
  /\ fate' = [t \in TaskId |-> IF fate[t] = "enqueuing" THEN "refused" ELSE fate[t]]
  /\ torn' = torn \cup ({f.task : f \in parkedFiles} \cap pendingFiles)
  /\ UNCHANGED <<disk, content, time, faults, runs, unsaved, leaked, orphaned>>

Crash == Up /\ stops < MaxStops /\ stops' = stops + 1 /\ LoseMemory

\* main cancels the context on SIGTERM and exits some time later, without
\* waiting for the worker.
Cancel ==
  /\ Up /\ ~cancelled /\ stops < MaxStops
  /\ cancelled' = TRUE
  /\ stops' = stops + 1
  /\ UNCHANGED <<disk, memory, pc, current, asking, content, time, faults, history>>

Exit == Up /\ cancelled /\ UNCHANGED stops /\ LoseMemory

\* Mutant: the files are queued as the directory lists them.
AnyOrder(S) ==
  {s \in [1..Cardinality(S) -> S] : \A t \in S : \E i \in DOMAIN s : s[i] = t}

\* Mutant: load stops at the capacity.
OldestThatFit(S) ==
  {SubSeq(s, 1, Capacity) : s \in {r \in AnyOrder(S) : Len(r) > Capacity}}
    \cup {s \in AnyOrder(S) : Len(s) <= Capacity}

\* sort.Slice by Enqueued: the files of S, oldest first.
OldestFirst(S) ==
  {s \in [1..Cardinality(S) -> S] :
     /\ \A t \in S : \E i \in DOMAIN s : s[i] = t
     /\ \A i, j \in DOMAIN s : i < j => s[i] < s[j]}

\* Mutant: one attempt too many.
ExhaustedAbove(t) == attempts[t] > MaxAttempts

Exhausted(t) == attempts[t] >= MaxAttempts

\* Open and load: tasks tried too often are dropped, the others are queued in
\* the order they came; expired questions are removed, the others are kept.
Open ==
  /\ pc = "down"
  /\ LET poison == {t \in pendingFiles : Exhausted(t)} IN
       /\ pendingFiles' = pendingFiles \ poison
       /\ \E s \in OldestFirst(pendingFiles \ poison) : pending' = s
       /\ notify' = (pendingFiles \ poison # {})
       /\ fate' = [t \in TaskId |-> IF t \in poison /\ fate[t] = "accepted"
                                    THEN "dropped" ELSE fate[t]]
       /\ leaked' = leaked \ poison
  /\ parkedFiles' = {f \in parkedFiles : Fresh(f)}
  /\ parked' = parkedFiles'
  /\ pc' = "idle"
  /\ UNCHANGED <<attempts, enqueuing, current, asking, cancelled, content, time,
                 stops, faults, runs, unsaved, orphaned, torn>>

Next ==
  \/ \E ev \in Event : EnqueueMatch(ev)
  \/ EnqueueWrite \/ EnqueueFail
  \/ NextTake \/ NextEmpty \/ NextWake \/ NextStop
  \/ \E sent \in BOOLEAN : ParkWrite(sent)
  \/ ParkFail \/ ParkInsert \/ Done
  \/ Expire \/ Crash \/ Cancel \/ Exit \/ Open

Spec == Init /\ [][Next]_vars

-----------------------------------------------------------------------------
(* Properties *)

Fates == {"unborn", "enqueuing", "refused", "accepted", "settled", "dropped"}

Queued == {pending[i] : i \in DOMAIN pending}

\* The shape of the state.
TypeOK ==
  /\ pendingFiles \subseteq TaskId /\ attempts \in [TaskId -> Nat]
  /\ parkedFiles \subseteq Parked /\ parked \subseteq Parked
  /\ pending \in Seq(TaskId) /\ notify \in BOOLEAN
  /\ enqueuing \in TaskId \cup {NoTask} /\ current \in TaskId \cup {NoTask}
  /\ pc \in {"idle", "waiting", "running", "parking", "settling", "stopped", "down"}
  /\ asking \in Parked \cup {None} /\ cancelled \in BOOLEAN
  /\ event \in [TaskId -> Event \cup {None}]
  /\ resume \in [TaskId -> Parked \cup {None}]
  /\ created \in 0..MaxTasks /\ asks \in 0..MaxAsks /\ horizon \in 0..MaxAsks
  /\ stops \in 0..MaxStops /\ faults \in 0..MaxFaults
  /\ fate \in [TaskId -> Fates]
  /\ runs \in [TaskId -> Nat] /\ unsaved \in [TaskId -> Nat]
  /\ leaked \subseteq TaskId /\ orphaned \subseteq AskId /\ torn \subseteq TaskId

\* A task Enqueue accepted stays on disk until its turn is over, whatever
\* crashes, restarts and failed writes come in between ("Next leaves the task
\* on disk until Done or Park", queue.go:181).
AcceptedOnDisk == \A t \in TaskId : fate[t] = "accepted" => t \in pendingFiles

\* ... and while the process is up it is never merely on disk: the worker
\* holds it or will find it in the queue without another restart.
NotStranded ==
  Up => \A t \in TaskId : fate[t] = "accepted" => t = current \/ t \in Queued

\* maxAttempts bounds how often a turn that takes the process down is tried:
\* only an attempt whose count could not be written comes on top, and a task
\* given up at load really was tried that often (queue.go:25).
AttemptsBounded ==
  \A t \in TaskId :
    /\ runs[t] <= MaxAttempts + unsaved[t]
    /\ fate[t] = "dropped" => runs[t] >= MaxAttempts

\* The worker parked in its select with tasks queued has a token to wake it:
\* the one-slot channel loses no wakeup between the unlock and the select.
NoLostWakeup == pc = "waiting" /\ pending # <<>> => notify

\* One question is answered by one task, even across a restart, unless the
\* file of the answered question could not be removed.
OneAnswer ==
  \A t, u \in TaskId :
    /\ t # u /\ resume[t] # None /\ resume[u] # None
    /\ resume[t].asked = resume[u].asked
    => resume[t].asked \in orphaned

\* However many follow-up questions a conversation takes, the request each
\* one carries is the message that opened it, never one of the answers
\* ("A follow-up question keeps pointing at what the user first asked").
RequestIsOriginal == \A p \in parked \cup parkedFiles : resume[p.request] = None

\* A request waits in one place, as a question or as a task, and a question the
\* user can still answer survives a restart.  The exception to both is a stop
\* between Park's write and the removal of the task (the task's second turn
\* shares its file with the first one's question, and an answer to that one
\* deletes it); and to the first a removal that failed.
OneHome ==
  \A p \in parked \ {q \in parked : q.task \in torn} :
    /\ p.task \in pendingFiles =>
         p.task \in leaked \/ (p.task = current /\ pc = "settling")
    /\ Fresh(p) => p \in parkedFiles

\* Only the person asked answers a question, from any of their accounts, or
\* whoever replies to the question's own message; a timer answers nothing.
StrangersDontAnswer ==
  \A t \in TaskId :
    resume[t] # None =>
      LET asker == event[resume[t].task].actor
          by    == event[t].actor
      IN  /\ event[t].kind = "message"
          /\ \/ by = asker
             \/ PersonOf[by] = PersonOf[asker] /\ PersonOf[by] # None
             \/ event[t].inReplyTo = resume[t].asked

\* A reply to the message of a question that still waits answers that question
\* whatever else the same person was asked since ("Reply keys win over actor
\* keys; among actor matches the most recent question wins", queue.go:157), and
\* without a reply it is the latest question put to the account that counts.
AnswerFindsQuestion ==
  [][\A t \in TaskId, p \in parked :
       (enqueuing' = t /\ enqueuing # t /\ event'[t].kind = "message" /\ Fresh(p)) =>
         LET toAccount(r) == event[r.task].actor = event'[t].actor IN
         /\ ReplyKey(event'[t].inReplyTo) \in p.keys => resume'[t] = p
         /\ (event'[t].inReplyTo = 0 /\ toAccount(p)) =>
              /\ resume'[t] # None
              /\ toAccount(resume'[t]) /\ resume'[t].asked >= p.asked]_vars

\* Tasks are handed out in the order they came, restarts included: no accepted
\* task is ever passed over for a younger one.
NoOvertaking ==
  [][current' \notin {NoTask, current} =>
       \A t \in TaskId : fate[t] = "accepted" => current' <= t]_vars

\* An event the queue refuses takes no question with it: "Enqueue consumes the
\* parked record the event answers, if any, into t.Resume" (queue.go:135).
RefusedLeavesQuestion ==
  \A t \in TaskId :
    fate[t] = "refused" /\ resume[t] # None /\ Fresh(resume[t]) => resume[t] \in parked

\* Every accepted task is answered, parked or given up, although the process
\* may crash and be stopped in between.
EveryTaskSettles ==
  \A t \in TaskId : fate[t] = "accepted" ~> fate[t] \in {"settled", "dropped"}

-----------------------------------------------------------------------------
\* What the queue promises its callers, with the directories as the only state.
Durable == INSTANCE DurableQueue
  WITH owed <- pendingFiles, tries <- attempts, serving <- current

\* The queue with its crashes and restarts implements that promise as long as
\* the file system does what it is asked.
ImplementsDurableQueue == Durable!Spec
=============================================================================
