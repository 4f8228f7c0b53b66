-------------------------- MODULE AgentRuntimeProofs --------------------------
(***************************************************************************)
(* Proofs about the queue and the worker that serves it, TaskQueue and     *)
(* AgentRuntime.  The first part is about TaskQueue alone, for every       *)
(* number of accounts, tasks, questions, stops and faults, and every       *)
(* capacity and attempt limit: of the tasks, then of the questions they    *)
(* ask.  The second is about AgentRuntime: it takes no step that the       *)
(* queue's specification does not allow, so what is shown of the queue     *)
(* holds for the two together; and no task leaves the queue before its     *)
(* user was answered or asked.                                             *)
(***************************************************************************)
EXTENDS AgentRuntime, FiniteSetTheorems, SequenceTheorems, WellFoundedInduction, TLAPS

-----------------------------------------------------------------------------
(* The inductive invariant *)

\* What the worker's position says about what it holds.
Shape ==
  /\ pc \in {"running", "parking", "settling"} <=> current # NoTask
  /\ pc = "parking" => asking \in Parked
  /\ pc = "down" => pending = <<>> /\ enqueuing = NoTask

\* Tasks are born in order, with an event, and at most one is being enqueued.
Births ==
  /\ \A t \in TaskId : t > created => fate[t] = "unborn"
  /\ \A t \in TaskId : fate[t] # "unborn" => event[t] \in Event
  /\ enqueuing # NoTask => fate[enqueuing] = "enqueuing"
  /\ \A t \in TaskId : fate[t] = "enqueuing" => t = enqueuing

\* What memory holds is on disk, once.
Files ==
  /\ \A t \in pendingFiles : fate[t] \in {"accepted", "settled"}
  /\ Queued \subseteq pendingFiles
  /\ current # NoTask => current \in pendingFiles /\ current \notin Queued
  /\ \A i, j \in DOMAIN pending : pending[i] = pending[j] => i = j

IInv == TypeOK /\ Shape /\ Births /\ Files /\ AcceptedOnDisk /\ NotStranded /\ NoLostWakeup

-----------------------------------------------------------------------------
(* Lemmas about the operators *)

\* What load puts into the queue: every file of S, once, in a sequence
\* (the sort of queue.go:114 neither loses nor repeats a task).
LEMMA OldestFirstEnumerates ==
  ASSUME NEW S \in SUBSET TaskId, NEW s \in OldestFirst(S)
  PROVE  /\ s \in Seq(TaskId)
         /\ {s[i] : i \in DOMAIN s} = S
         /\ \A i, j \in DOMAIN s : s[i] = s[j] => i = j
         /\ s = <<>> <=> S = {}
<1>1. Cardinality(S) \in Nat
  <2>1. IsFiniteSet(TaskId)
    BY FS_Interval, ConstantsOK DEF TaskId
  <2>2. IsFiniteSet(S)
    BY <2>1, FS_Subset
  <2>. QED  BY <2>2, FS_CardinalityType
<1>2. s \in [1..Cardinality(S) -> S]
  BY DEF OldestFirst
<1>3. s \in Seq(TaskId) /\ DOMAIN s = 1..Cardinality(S) /\ Len(s) = Cardinality(S)
  <2>1. s \in Seq(S)
    BY <1>1, <1>2
  <2>. QED  BY <1>1, <1>2, <2>1
<1>4. \A t \in S : \E i \in DOMAIN s : s[i] = t
  BY DEF OldestFirst
<1>5. \A i, j \in DOMAIN s : i < j => s[i] < s[j]
  BY DEF OldestFirst
<1>6. {s[i] : i \in DOMAIN s} = S
  BY <1>2, <1>4
<1>7. \A i, j \in DOMAIN s : s[i] = s[j] => i = j
  <2>. SUFFICES ASSUME NEW i \in DOMAIN s, NEW j \in DOMAIN s, s[i] = s[j], i # j
                PROVE  FALSE
    OBVIOUS
  <2>1. i \in Int /\ j \in Int
    BY <1>1, <1>3
  <2>2. s[i] \in Int
    <3>1. s[i] \in TaskId
      BY <1>2, <1>3
    <3>. QED  BY <3>1 DEF TaskId
  <2>3. CASE i < j
    BY <1>5, <2>2, <2>3
  <2>4. CASE j < i
    BY <1>5, <2>2, <2>4
  <2>. QED  BY <2>1, <2>3, <2>4
<1>8. s = <<>> <=> S = {}
  <2>1. ASSUME s = <<>> PROVE S = {}
    BY <1>6, <2>1
  <2>2. ASSUME S = {} PROVE s = <<>>
    BY <1>3, <2>2, FS_EmptySet, EmptySeq
  <2>. QED  BY <2>1, <2>2
<1>. QED  BY <1>3, <1>6, <1>7, <1>8

\* Appending a task that is not queued, and taking the first of the queue,
\* keep the queue a sequence of distinct tasks.
LEMMA AppendDistinct ==
  ASSUME NEW s \in Seq(TaskId), NEW t \in TaskId,
         \A i, j \in DOMAIN s : s[i] = s[j] => i = j,
         t \notin {s[i] : i \in DOMAIN s}
  PROVE  /\ Append(s, t) \in Seq(TaskId)
         /\ LET u == Append(s, t) IN
              /\ {u[i] : i \in DOMAIN u} = {s[i] : i \in DOMAIN s} \cup {t}
              /\ \A i, j \in DOMAIN u : u[i] = u[j] => i = j
<1> DEFINE u == Append(s, t)
<1>1. u \in Seq(TaskId) /\ DOMAIN u = 1..(Len(s) + 1) /\ DOMAIN s = 1..Len(s) /\ Len(s) \in Nat
  OBVIOUS
<1>2. \A i \in 1..Len(s) : u[i] = s[i]
  OBVIOUS
<1>3. u[Len(s) + 1] = t
  OBVIOUS
<1>. HIDE DEF u
<1>4. {u[i] : i \in DOMAIN u} = {s[i] : i \in DOMAIN s} \cup {t}
  <2>1. ASSUME NEW i \in DOMAIN u PROVE u[i] \in {s[k] : k \in DOMAIN s} \cup {t}
    BY <1>1, <1>2, <1>3
  <2>2. ASSUME NEW i \in DOMAIN s PROVE s[i] \in {u[k] : k \in DOMAIN u}
    BY <1>1, <1>2
  <2>3. t \in {u[k] : k \in DOMAIN u}
    BY <1>1, <1>3
  <2>. QED  BY <2>1, <2>2, <2>3
<1>5. \A i, j \in DOMAIN u : u[i] = u[j] => i = j
  BY <1>1, <1>2, <1>3
<1>. QED  BY <1>1, <1>4, <1>5 DEF u

\* Taking the first task leaves distinct tasks, none of them the one taken.
LEMMA TailDistinct ==
  ASSUME NEW s \in Seq(TaskId), s # <<>>,
         \A i, j \in DOMAIN s : s[i] = s[j] => i = j
  PROVE  /\ Head(s) \in TaskId /\ Tail(s) \in Seq(TaskId)
         /\ LET u == Tail(s) IN
              /\ {u[i] : i \in DOMAIN u} = {s[i] : i \in DOMAIN s} \ {Head(s)}
              /\ \A i, j \in DOMAIN u : u[i] = u[j] => i = j
<1> DEFINE u == Tail(s)
<1>1. /\ u \in Seq(TaskId) /\ Head(s) = s[1] /\ s[1] \in TaskId
      /\ DOMAIN s = 1..Len(s) /\ Len(s) \in Nat \ {0}
      /\ DOMAIN u = 1..(Len(s) - 1)
  OBVIOUS
<1>2. \A i \in 1..(Len(s) - 1) : u[i] = s[i + 1]
  OBVIOUS
<1>. HIDE DEF u
<1>3. {u[i] : i \in DOMAIN u} = {s[i] : i \in DOMAIN s} \ {Head(s)}
  <2>1. ASSUME NEW i \in DOMAIN u PROVE u[i] \in {s[k] : k \in DOMAIN s} \ {s[1]}
    BY <1>1, <1>2
  <2>2. ASSUME NEW i \in DOMAIN s, s[i] # s[1] PROVE s[i] \in {u[k] : k \in DOMAIN u}
    <3>1. i \in 2..Len(s)
      BY <1>1, <2>2
    <3>2. i - 1 \in DOMAIN u /\ u[i - 1] = s[i]
      BY <1>1, <1>2, <3>1
    <3>. QED  BY <3>2
  <2>. QED  BY <1>1, <2>1, <2>2
<1>4. \A i, j \in DOMAIN u : u[i] = u[j] => i = j
  <2>. SUFFICES ASSUME NEW i \in DOMAIN u, NEW j \in DOMAIN u, u[i] = u[j]
                PROVE  i = j
    OBVIOUS
  <2>1. i \in 1..(Len(s) - 1) /\ j \in 1..(Len(s) - 1)
    BY <1>1
  <2>2. s[i + 1] = s[j + 1] /\ i + 1 \in DOMAIN s /\ j + 1 \in DOMAIN s
    BY <1>1, <1>2, <2>1
  <2>3. i + 1 = j + 1
    BY <2>2
  <2>. QED  BY <2>1, <2>3
<1>. QED  BY <1>1, <1>3, <1>4 DEF u

\* The keys of a question, and the record Park builds, are well formed.
LEMMA AskKeysType ==
  ASSUME NEW ev \in Event, NEW q \in AskId, NEW sent \in BOOLEAN
  PROVE  AskKeys(ev, q, sent) \subseteq Key
BY DEF AskKeys, Key, Event, ReplyKey, ActorKey, PersonKey

\* The request of a task is a task.
LEMMA RequestOfType ==
  ASSUME TypeOK, NEW t \in TaskId
  PROVE  RequestOf(t) \in TaskId
BY DEF TypeOK, RequestOf, Parked

-----------------------------------------------------------------------------
(* Every step preserves the invariant *)

USE DEF disk, memory, process, content, time, history

\* The bound on failed file operations is kept.
LEMMA FaultsType ==
  ASSUME TypeOK, Fault \/ NoFault
  PROVE  faults' \in 0..MaxFaults
BY ConstantsOK DEF TypeOK, Fault, NoFault

\* Counting one task's runs or attempts up keeps the counter well formed.
LEMMA CountUp ==
  ASSUME NEW f \in [TaskId -> Nat], NEW t \in TaskId
  PROVE  [f EXCEPT ![t] = f[t] + 1] \in [TaskId -> Nat]
OBVIOUS

\* What the three actions that change the queue do to it.
LEMMA QueueAfterWrite ==
  ASSUME IInv, EnqueueWrite
  PROVE  /\ enqueuing \in TaskId /\ fate[enqueuing] = "enqueuing"
         /\ enqueuing \notin pendingFiles /\ enqueuing \notin Queued /\ enqueuing # current
         /\ pending' \in Seq(TaskId) /\ Queued' = Queued \cup {enqueuing}
         /\ \A i, j \in DOMAIN pending' : pending'[i] = pending'[j] => i = j
<1>. USE DEF IInv, EnqueueWrite
<1>1. /\ enqueuing \in TaskId /\ fate[enqueuing] = "enqueuing"
      /\ enqueuing \notin pendingFiles /\ enqueuing \notin Queued /\ enqueuing # current
  BY DEF TypeOK, Births, Files, NoTask
<1>2. pending \in Seq(TaskId) /\ pending' = Append(pending, enqueuing)
  BY DEF TypeOK
<1>. QED  BY <1>1, <1>2, AppendDistinct DEF Queued, Files

\* Next's effect on the queue: the task it hands out was queued and leaves it.
LEMMA QueueAfterTake ==
  ASSUME IInv, NextTake
  PROVE  /\ Head(pending) \in TaskId /\ pending' \in Seq(TaskId)
         /\ Queued' = Queued \ {Head(pending)} /\ Head(pending) \in Queued
         /\ \A i, j \in DOMAIN pending' : pending'[i] = pending'[j] => i = j
<1>. USE DEF IInv, NextTake
<1>1. pending \in Seq(TaskId) /\ pending # <<>> /\ pending' = Tail(pending)
  BY DEF TypeOK
<1>2. Head(pending) \in Queued
  BY <1>1 DEF Queued
<1>3. /\ Head(pending) \in TaskId /\ Tail(pending) \in Seq(TaskId)
      /\ LET u == Tail(pending) IN
           /\ {u[i] : i \in DOMAIN u} = {pending[i] : i \in DOMAIN pending} \ {Head(pending)}
           /\ \A i, j \in DOMAIN u : u[i] = u[j] => i = j
  BY <1>1, TailDistinct DEF Files
<1>4. Queued' = {Tail(pending)[i] : i \in DOMAIN Tail(pending)}
  BY <1>1 DEF Queued
<1>. QED  BY <1>1, <1>2, <1>3, <1>4 DEF Queued

\* Open's effect on the queue: exactly the files that are kept are queued.
LEMMA QueueAfterOpen ==
  ASSUME IInv, Open
  PROVE  LET kept == pendingFiles \ {t \in pendingFiles : Exhausted(t)} IN
         /\ pending' \in Seq(TaskId) /\ Queued' = kept
         /\ \A i, j \in DOMAIN pending' : pending'[i] = pending'[j] => i = j
         /\ pending' = <<>> <=> kept = {}
<1>. DEFINE kept == pendingFiles \ {t \in pendingFiles : Exhausted(t)}
<1>1. kept \in SUBSET TaskId
  BY DEF IInv, TypeOK
<1>2. PICK s \in OldestFirst(kept) : pending' = s
  BY DEF Open
<1>. QED  BY <1>1, <1>2, OldestFirstEnumerates DEF Queued

\* The match half of Enqueue: the new task is neither on disk nor queued yet.
LEMMA EnqueueMatchStep ==
  ASSUME IInv, NEW ev \in Event, EnqueueMatch(ev)
  PROVE  IInv'
<1>. USE DEF EnqueueMatch, IInv
<1>. DEFINE id == created + 1
<1>a. /\ id \in TaskId /\ fate[id] = "unborn" /\ id \notin pendingFiles
      /\ id # current /\ id \notin Queued
  <2>1. id \in TaskId /\ id > created
    BY ConstantsOK DEF TypeOK, TaskId
  <2>. QED  BY <2>1 DEF Births, Files, NoTask, TypeOK, TaskId
<1>1. TypeOK'
  <2>1. /\ parked' \subseteq Parked /\ parkedFiles' \subseteq Parked
        /\ resume' \in [TaskId -> Parked \cup {None}]
        /\ faults' \in 0..MaxFaults /\ orphaned' \subseteq AskId
    <3>. DEFINE Goal == /\ parked' \subseteq Parked /\ parkedFiles' \subseteq Parked
                        /\ resume' \in [TaskId -> Parked \cup {None}]
                        /\ faults' \in 0..MaxFaults /\ orphaned' \subseteq AskId
    <3>1. CASE \A p \in parked : ~Matches(ev, p)
      BY <3>1, FaultsType DEF TypeOK, Without
    <3>2. ASSUME NEW p \in parked, Matches(ev, p),
                 /\ resume' = [resume EXCEPT ![id] = p]
                 /\ parked' = Without(parked, Swept(ev) \cup {p.task})
                 /\ \/ /\ parkedFiles' = Without(parkedFiles, Swept(ev) \cup {p.task})
                       /\ NoFault
                       /\ UNCHANGED orphaned
                    \/ /\ parkedFiles' = Without(parkedFiles, Swept(ev))
                       /\ Fault
                       /\ orphaned' = orphaned \cup {p.asked}
          PROVE  Goal
      <4>1. p \in Parked /\ p.asked \in AskId
        BY DEF TypeOK, Parked
      <4>2. parked' \subseteq Parked /\ parkedFiles' \subseteq Parked
        BY <3>2 DEF TypeOK, Without
      <4>3. resume' \in [TaskId -> Parked \cup {None}]
        BY <3>2, <4>1, <1>a DEF TypeOK
      <4>4. faults' \in 0..MaxFaults /\ orphaned' \subseteq AskId
        BY <3>2, <4>1, FaultsType DEF TypeOK
      <4>. QED  BY <4>2, <4>3, <4>4
    <3>. QED  BY <3>1, <3>2
  <2>2. created' \in 0..MaxTasks /\ enqueuing' \in TaskId /\ event' \in [TaskId -> Event \cup {None}]
    BY <1>a, ConstantsOK DEF TypeOK, TaskId
  <2>3. fate' \in [TaskId -> Fates]
    BY <1>a DEF TypeOK, Fates
  <2>. QED  BY <2>1, <2>2, <2>3 DEF TypeOK
<1>2. Shape'
  BY DEF TypeOK, Shape, Up
<1>3. Births'
  <2>1. \A t \in TaskId : t > created' => t > created /\ t # id
    BY DEF TypeOK, TaskId
  <2>2. fate' = [fate EXCEPT ![id] = "enqueuing"] /\ event' = [event EXCEPT ![id] = ev]
    OBVIOUS
  <2>3. \A t \in TaskId : t > created' => fate'[t] = "unborn"
    BY <2>1, <2>2 DEF TypeOK, Births
  <2>4. \A t \in TaskId : fate'[t] # "unborn" => event'[t] \in Event
    BY <1>a, <2>2 DEF TypeOK, Births
  <2>5. \A t \in TaskId : fate'[t] = "enqueuing" => t = enqueuing'
    BY <1>a, <2>2 DEF TypeOK, Births, NoTask, TaskId
  <2>6. fate'[enqueuing'] = "enqueuing"
    BY <1>a, <2>2 DEF TypeOK
  <2>. QED  BY <2>3, <2>4, <2>5, <2>6 DEF Births
<1>4. Files'
  <2>1. \A t \in pendingFiles' : fate'[t] = fate[t]
    BY <1>a DEF TypeOK
  <2>2. Queued' = Queued /\ pending' = pending /\ pendingFiles' = pendingFiles /\ current' = current
    BY DEF Queued
  <2>. QED  BY <2>1, <2>2 DEF Files
<1>5. AcceptedOnDisk'
  BY DEF TypeOK, AcceptedOnDisk, Files, Births
<1>6. NotStranded'
  BY DEF TypeOK, NotStranded, Up, Queued, Files, Births
<1>7. NoLostWakeup'
  BY DEF TypeOK, NoLostWakeup, Shape
<1>. QED  BY <1>1, <1>2, <1>3, <1>4, <1>5, <1>6, <1>7

\* The write half of Enqueue: file, queue and token change together.
LEMMA EnqueueWriteStep ==
  ASSUME IInv, EnqueueWrite
  PROVE  IInv'
<1>. USE DEF EnqueueWrite, IInv, WriteTask, Signal
<1>a. /\ enqueuing \in TaskId /\ fate[enqueuing] = "enqueuing"
      /\ enqueuing \notin pendingFiles /\ enqueuing \notin Queued /\ enqueuing # current
  BY QueueAfterWrite
<1>b. /\ pending' \in Seq(TaskId) /\ Queued' = Queued \cup {enqueuing}
      /\ \A i, j \in DOMAIN pending' : pending'[i] = pending'[j] => i = j
  BY QueueAfterWrite
<1>1. TypeOK'
  <2>1. fate' \in [TaskId -> Fates]
    BY <1>a DEF TypeOK, Fates
  <2>2. attempts' \in [TaskId -> Nat] /\ pendingFiles' \subseteq TaskId
    BY <1>a DEF TypeOK
  <2>. QED  BY <1>b, <2>1, <2>2 DEF TypeOK
<1>2. Shape'
  BY DEF TypeOK, Shape, Up
<1>3. Births'
  BY DEF TypeOK, Births, Shape
<1>4. Files'
  <2>1. \A t \in pendingFiles' : fate'[t] \in {"accepted", "settled"}
    BY <1>a DEF TypeOK, Files
  <2>2. Queued' \subseteq pendingFiles'
    BY <1>b DEF Files
  <2>3. current' # NoTask => current' \in pendingFiles' /\ current' \notin Queued'
    BY <1>a, <1>b DEF Files
  <2>. QED  BY <1>b, <2>1, <2>2, <2>3 DEF Files
<1>5. AcceptedOnDisk'
  BY <1>a DEF TypeOK, AcceptedOnDisk
<1>6. NotStranded'
  BY <1>a, <1>b DEF TypeOK, NotStranded, Up
<1>7. NoLostWakeup'
  BY DEF NoLostWakeup
<1>. QED  BY <1>1, <1>2, <1>3, <1>4, <1>5, <1>6, <1>7

\* A failed write leaves an event that was never accepted.
LEMMA EnqueueFailStep ==
  ASSUME IInv, EnqueueFail
  PROVE  IInv'
<1>. USE DEF EnqueueFail, IInv
<1>1. TypeOK'
  <2>1. fate' \in [TaskId -> Fates] /\ enqueuing' \in TaskId \cup {NoTask}
    BY DEF TypeOK, Fates
  <2>2. faults' \in 0..MaxFaults
    BY FaultsType
  <2>. QED  BY <2>1, <2>2 DEF TypeOK
<1>2. Shape'
  BY DEF TypeOK, Shape, Up
<1>3. Births'
  BY DEF TypeOK, Births, Shape
<1>4. Files'
  BY DEF TypeOK, Files, Births, Shape, Queued
<1>5. AcceptedOnDisk'
  BY DEF TypeOK, AcceptedOnDisk, Files, Births
<1>6. NotStranded'
  BY DEF TypeOK, NotStranded, Up, Queued, Files, Births
<1>7. NoLostWakeup'
  BY DEF TypeOK, NoLostWakeup, Shape
<1>. QED  BY <1>1, <1>2, <1>3, <1>4, <1>5, <1>6, <1>7

\* Next moves a task from the queue to the worker and leaves its file.
LEMMA NextTakeStep ==
  ASSUME IInv, NextTake
  PROVE  IInv'
<1>. USE DEF NextTake, IInv, WriteTask
<1>a. /\ Head(pending) \in TaskId /\ pending' \in Seq(TaskId)
      /\ Queued' = Queued \ {Head(pending)} /\ Head(pending) \in Queued
      /\ \A i, j \in DOMAIN pending' : pending'[i] = pending'[j] => i = j
  BY QueueAfterTake
<1>b. Head(pending) \in pendingFiles /\ pendingFiles' = pendingFiles
  <2>1. Queued \subseteq pendingFiles
    BY DEF Files
  <2>2. pendingFiles' = pendingFiles \/ pendingFiles' = pendingFiles \cup {Head(pending)}
    OBVIOUS
  <2>. QED  BY ONLY <1>a, <2>1, <2>2
<1>c. current' = Head(pending) /\ current = NoTask /\ Head(pending) # NoTask
  BY <1>a DEF Shape, TypeOK, TaskId, NoTask
<1>1. TypeOK'
  <2>1. runs' \in [TaskId -> Nat]
    <3>1. runs' = [runs EXCEPT ![Head(pending)] = runs[Head(pending)] + 1]
      OBVIOUS
    <3>2. runs \in [TaskId -> Nat]
      BY DEF TypeOK
    <3>. QED  BY ONLY <1>a, <3>1, <3>2, CountUp
  <2>2. unsaved' \in [TaskId -> Nat]
    <3>1. UNCHANGED unsaved \/ unsaved' = [unsaved EXCEPT ![Head(pending)] = @ + 1]
      OBVIOUS
    <3>2. unsaved \in [TaskId -> Nat]
      BY DEF TypeOK
    <3>. QED  BY <1>a, <3>1, <3>2, CountUp
  <2>3. attempts' \in [TaskId -> Nat]
    <3>1. \/ UNCHANGED attempts
          \/ attempts' = [attempts EXCEPT ![Head(pending)] = attempts[Head(pending)] + 1]
      OBVIOUS
    <3>2. attempts \in [TaskId -> Nat]
      BY DEF TypeOK
    <3>. QED  BY <1>a, <3>1, <3>2, CountUp
  <2>4. faults' \in 0..MaxFaults
    BY FaultsType
  <2>. QED  BY <1>a, <1>b, <1>c, <2>1, <2>2, <2>3, <2>4 DEF TypeOK
<1>2. Shape'
  BY <1>c DEF Shape
<1>3. Births'
  BY DEF TypeOK, Births, Shape
<1>4. Files'
  BY <1>a, <1>b, <1>c DEF Files
<1>5. AcceptedOnDisk'
  BY <1>b DEF AcceptedOnDisk
<1>6. NotStranded'
  BY <1>a, <1>c DEF NotStranded, Up, TypeOK, TaskId, NoTask
<1>7. NoLostWakeup'
  BY DEF TypeOK, NoLostWakeup, Shape
<1>. QED  BY <1>1, <1>2, <1>3, <1>4, <1>5, <1>6, <1>7

\* Next blocks only after it saw the queue empty under the mutex.
LEMMA NextEmptyStep ==
  ASSUME IInv, NextEmpty
  PROVE  IInv'
<1>. USE DEF NextEmpty, IInv
<1>1. TypeOK'
  BY DEF TypeOK
<1>2. Shape'
  BY DEF TypeOK, Shape, Up
<1>3. Births'
  BY DEF TypeOK, Births, Shape
<1>4. Files'
  BY DEF TypeOK, Files, Births, Shape, Queued
<1>5. AcceptedOnDisk'
  BY DEF TypeOK, AcceptedOnDisk, Files, Births
<1>6. NotStranded'
  BY DEF TypeOK, NotStranded, Up, Queued, Files, Births
<1>7. NoLostWakeup'
  BY DEF TypeOK, NoLostWakeup, Shape
<1>. QED  BY <1>1, <1>2, <1>3, <1>4, <1>5, <1>6, <1>7

\* Taking the token: the worker looks at the queue again before it blocks.
LEMMA NextWakeStep ==
  ASSUME IInv, NextWake
  PROVE  IInv'
<1>. USE DEF NextWake, IInv
<1>1. TypeOK'
  BY DEF TypeOK
<1>2. Shape'
  BY DEF TypeOK, Shape, Up
<1>3. Births'
  BY DEF TypeOK, Births, Shape
<1>4. Files'
  BY DEF TypeOK, Files, Births, Shape, Queued
<1>5. AcceptedOnDisk'
  BY DEF TypeOK, AcceptedOnDisk, Files, Births
<1>6. NotStranded'
  BY DEF TypeOK, NotStranded, Up, Queued, Files, Births
<1>7. NoLostWakeup'
  BY DEF TypeOK, NoLostWakeup, Shape
<1>. QED  BY <1>1, <1>2, <1>3, <1>4, <1>5, <1>6, <1>7

\* The worker's goroutine returns with nothing in its hands.
LEMMA NextStopStep ==
  ASSUME IInv, NextStop
  PROVE  IInv'
<1>. USE DEF NextStop, IInv
<1>1. TypeOK'
  BY DEF TypeOK
<1>2. Shape'
  BY DEF TypeOK, Shape, Up
<1>3. Births'
  BY DEF TypeOK, Births, Shape
<1>4. Files'
  BY DEF TypeOK, Files, Births, Shape, Queued
<1>5. AcceptedOnDisk'
  BY DEF TypeOK, AcceptedOnDisk, Files, Births
<1>6. NotStranded'
  BY DEF TypeOK, NotStranded, Up, Queued, Files, Births
<1>7. NoLostWakeup'
  BY DEF TypeOK, NoLostWakeup, Shape
<1>. QED  BY <1>1, <1>2, <1>3, <1>4, <1>5, <1>6, <1>7

\* Park's write touches the questions only; the task stays on disk.
LEMMA ParkWriteStep ==
  ASSUME IInv, NEW sent \in BOOLEAN, ParkWrite(sent)
  PROVE  IInv'
<1>. USE DEF ParkWrite, IInv
<1>a. current \in TaskId /\ event[current] \in Event /\ asks + 1 \in AskId
  <2>1. current \in TaskId /\ current \in pendingFiles
    BY DEF TypeOK, Shape, Files
  <2>2. asks + 1 \in AskId
    BY ConstantsOK DEF TypeOK, AskId
  <2>. QED  BY <2>1, <2>2 DEF Files, Births
<1>b. asking' \in Parked
  BY <1>a, AskKeysType, RequestOfType DEF Parked
<1>1. TypeOK'
  <2>1. parkedFiles' \subseteq Parked
    BY <1>b DEF TypeOK, Without
  <2>2. asks' \in 0..MaxAsks
    BY ConstantsOK DEF TypeOK
  <2>. QED  BY <1>b, <2>1, <2>2 DEF TypeOK
<1>2. Shape'
  BY <1>b DEF Shape
<1>3. Births'
  BY DEF TypeOK, Births, Shape
<1>4. Files'
  BY DEF TypeOK, Files, Births, Shape, Queued
<1>5. AcceptedOnDisk'
  BY DEF TypeOK, AcceptedOnDisk, Files, Births
<1>6. NotStranded'
  BY DEF TypeOK, NotStranded, Up, Queued, Files, Births
<1>7. NoLostWakeup'
  BY DEF TypeOK, NoLostWakeup, Shape
<1>. QED  BY <1>1, <1>2, <1>3, <1>4, <1>5, <1>6, <1>7

\* Park's failed write leaves the task with the worker.
LEMMA ParkFailStep ==
  ASSUME IInv, ParkFail
  PROVE  IInv'
<1>. USE DEF ParkFail, IInv
<1>1. TypeOK'
  <2>1. asks' \in 0..MaxAsks
    BY ConstantsOK DEF TypeOK
  <2>. QED  BY <2>1, FaultsType DEF TypeOK
<1>2. Shape'
  BY DEF TypeOK, Shape, Up
<1>3. Births'
  BY DEF TypeOK, Births, Shape
<1>4. Files'
  BY DEF TypeOK, Files, Births, Shape, Queued
<1>5. AcceptedOnDisk'
  BY DEF TypeOK, AcceptedOnDisk, Files, Births
<1>6. NotStranded'
  BY DEF TypeOK, NotStranded, Up, Queued, Files, Births
<1>7. NoLostWakeup'
  BY DEF TypeOK, NoLostWakeup, Shape
<1>. QED  BY <1>1, <1>2, <1>3, <1>4, <1>5, <1>6, <1>7

\* The question becomes visible while its task is still with the worker.
LEMMA ParkInsertStep ==
  ASSUME IInv, ParkInsert
  PROVE  IInv'
<1>. USE DEF ParkInsert, IInv
<1>1. TypeOK'
  <2>1. parked' \subseteq Parked
    BY DEF TypeOK, Shape, Without
  <2>. QED  BY <2>1 DEF TypeOK
<1>2. Shape'
  BY DEF TypeOK, Shape, Up
<1>3. Births'
  BY DEF TypeOK, Births, Shape
<1>4. Files'
  BY DEF TypeOK, Files, Births, Shape, Queued
<1>5. AcceptedOnDisk'
  BY DEF TypeOK, AcceptedOnDisk, Files, Births
<1>6. NotStranded'
  BY DEF TypeOK, NotStranded, Up, Queued, Files, Births
<1>7. NoLostWakeup'
  BY DEF TypeOK, NoLostWakeup, Shape
<1>. QED  BY <1>1, <1>2, <1>3, <1>4, <1>5, <1>6, <1>7

\* Done removes only the file of the task in the worker's hands.
LEMMA DoneStep ==
  ASSUME IInv, Done
  PROVE  IInv'
<1>. USE DEF Done, IInv
<1>a. current \in TaskId /\ current \in pendingFiles /\ current \notin Queued
  BY DEF TypeOK, Shape, Files
<1>1. TypeOK'
  <2>1. fate' \in [TaskId -> Fates]
    BY <1>a DEF TypeOK, Fates
  <2>2. pendingFiles' \subseteq TaskId /\ leaked' \subseteq TaskId
    BY <1>a DEF TypeOK
  <2>. QED  BY <2>1, <2>2, FaultsType DEF TypeOK
<1>2. Shape'
  BY DEF TypeOK, Shape, Up
<1>3. Births'
  <2>1. fate[current] # "unborn" /\ fate[current] # "enqueuing"
    BY <1>a DEF Files
  <2>. QED  BY <1>a, <2>1 DEF TypeOK, Births
<1>4. Files'
  <2>1. /\ Queued' = Queued /\ pending' = pending /\ current' = NoTask
        /\ pendingFiles' = pendingFiles \ {current} \/ pendingFiles' = pendingFiles
        /\ fate' = [fate EXCEPT ![current] = "settled"]
    BY DEF memory, Queued
  <2>2. \A t \in pendingFiles : fate'[t] \in {"accepted", "settled"}
    BY <2>1 DEF TypeOK, Files
  <2>. QED  BY <1>a, <2>1, <2>2 DEF Files
<1>5. AcceptedOnDisk'
  BY DEF TypeOK, AcceptedOnDisk, Files, Births
<1>6. NotStranded'
  BY DEF TypeOK, NotStranded, Up, Queued, Files, Births
<1>7. NoLostWakeup'
  BY DEF TypeOK, NoLostWakeup, Shape
<1>. QED  BY <1>1, <1>2, <1>3, <1>4, <1>5, <1>6, <1>7

\* The passing of time touches no task.
LEMMA ExpireStep ==
  ASSUME IInv, Expire
  PROVE  IInv'
<1>. USE DEF Expire, IInv
<1>1. TypeOK'
  <2>1. horizon' \in 0..MaxAsks
    <3>1. asks \in 0..MaxAsks /\ horizon \in 0..MaxAsks
      BY DEF TypeOK
    <3>2. PICK h \in (horizon + 1)..asks : horizon' = h
      OBVIOUS
    <3>. QED  BY <3>1, <3>2, ConstantsOK
  <2>. QED  BY <2>1 DEF TypeOK
<1>2. Shape'
  BY DEF TypeOK, Shape, Up
<1>3. Births'
  BY DEF TypeOK, Births, Shape
<1>4. Files'
  BY DEF TypeOK, Files, Births, Shape, Queued
<1>5. AcceptedOnDisk'
  BY DEF TypeOK, AcceptedOnDisk, Files, Births
<1>6. NotStranded'
  BY DEF TypeOK, NotStranded, Up, Queued, Files, Births
<1>7. NoLostWakeup'
  BY DEF TypeOK, NoLostWakeup, Shape
<1>. QED  BY <1>1, <1>2, <1>3, <1>4, <1>5, <1>6, <1>7

\* A crash loses memory only: what was accepted is still on disk.
LEMMA LoseMemoryStep ==
  ASSUME IInv, stops' \in 0..MaxStops, LoseMemory
  PROVE  IInv'
<1>. USE DEF LoseMemory, IInv
<1>1. TypeOK'
  <2>1. fate' \in [TaskId -> Fates]
    BY DEF TypeOK, Fates
  <2>2. torn' \subseteq TaskId
    BY DEF TypeOK
  <2>3. pending' \in Seq(TaskId) /\ parked' \subseteq Parked
    OBVIOUS
  <2>. QED  BY <2>1, <2>2, <2>3 DEF TypeOK
<1>2. Shape'
  BY DEF TypeOK, Shape, Up
<1>3. Births'
  BY DEF TypeOK, Births, Shape
<1>4. Files'
  BY DEF TypeOK, Files, Births, Shape, Queued
<1>5. AcceptedOnDisk'
  BY DEF TypeOK, AcceptedOnDisk, Files, Births
<1>6. NotStranded'
  BY DEF TypeOK, NotStranded, Up, Queued, Files, Births
<1>7. NoLostWakeup'
  BY DEF TypeOK, NoLostWakeup, Shape
<1>. QED  BY <1>1, <1>2, <1>3, <1>4, <1>5, <1>6, <1>7

\* Cancelling the context changes nothing yet.
LEMMA CancelStep ==
  ASSUME IInv, Cancel
  PROVE  IInv'
<1>. USE DEF Cancel, IInv
<1>1. TypeOK'
  <2>1. stops' \in 0..MaxStops
    BY ConstantsOK DEF TypeOK
  <2>. QED  BY <2>1 DEF TypeOK
<1>2. Shape'
  BY DEF TypeOK, Shape, Up
<1>3. Births'
  BY DEF TypeOK, Births, Shape
<1>4. Files'
  BY DEF TypeOK, Files, Births, Shape, Queued
<1>5. AcceptedOnDisk'
  BY DEF TypeOK, AcceptedOnDisk, Files, Births
<1>6. NotStranded'
  BY DEF TypeOK, NotStranded, Up, Queued, Files, Births
<1>7. NoLostWakeup'
  BY DEF TypeOK, NoLostWakeup, Shape
<1>. QED  BY <1>1, <1>2, <1>3, <1>4, <1>5, <1>6, <1>7

\* Open rebuilds the queue from the files: what it does not queue it has given up.
LEMMA OpenStep ==
  ASSUME IInv, Open
  PROVE  IInv'
<1>. USE DEF Open, IInv
<1>. DEFINE poison == {t \in pendingFiles : Exhausted(t)}
            kept   == pendingFiles \ poison
<1>a. kept \in SUBSET TaskId
  BY DEF TypeOK
<1>b. /\ pending' \in Seq(TaskId) /\ Queued' = kept
      /\ \A i, j \in DOMAIN pending' : pending'[i] = pending'[j] => i = j
      /\ pending' = <<>> <=> kept = {}
  BY QueueAfterOpen
<1>c. /\ pendingFiles' = kept /\ current' = NoTask /\ enqueuing' = NoTask
      /\ fate' = [t \in TaskId |-> IF t \in poison /\ fate[t] = "accepted"
                                   THEN "dropped" ELSE fate[t]]
  BY DEF Shape
<1>. HIDE DEF poison, kept
<1>1. TypeOK'
  <2>1. fate' \in [TaskId -> Fates]
    BY <1>c DEF TypeOK, Fates
  <2>2. parkedFiles' \subseteq Parked /\ parked' \subseteq Parked
    BY DEF TypeOK
  <2>3. leaked' \subseteq TaskId
    BY DEF TypeOK
  <2>4. notify' \in BOOLEAN
    OBVIOUS
  <2>. QED  BY <1>a, <1>b, <1>c, <2>1, <2>2, <2>3, <2>4 DEF TypeOK
<1>2. Shape'
  BY DEF TypeOK, Shape, Up
<1>3. Births'
  BY <1>c DEF TypeOK, Births, Shape
<1>4. Files'
  BY <1>b, <1>c DEF TypeOK, Files, kept
<1>5. AcceptedOnDisk'
  BY <1>c DEF TypeOK, AcceptedOnDisk, kept
<1>6. NotStranded'
  BY <1>b, <1>c DEF AcceptedOnDisk, NotStranded, kept
<1>7. NoLostWakeup'
  BY DEF NoLostWakeup
<1>. QED  BY <1>1, <1>2, <1>3, <1>4, <1>5, <1>6, <1>7

\* The invariant holds of an empty data directory.
LEMMA InitIInv == Init => IInv
<1>. SUFFICES ASSUME Init PROVE IInv
  OBVIOUS
<1>1. TypeOK
  <2>1. /\ pendingFiles = {} /\ attempts \in [TaskId -> Nat] /\ parkedFiles = {} /\ parked = {}
        /\ pending = <<>> /\ notify \in BOOLEAN /\ enqueuing = NoTask
        /\ current = NoTask /\ pc = "idle" /\ asking = None /\ cancelled \in BOOLEAN
    BY DEF Init
  <2>2. /\ event \in [TaskId -> Event \cup {None}] /\ resume \in [TaskId -> Parked \cup {None}]
        /\ fate \in [TaskId -> Fates] /\ runs \in [TaskId -> Nat] /\ unsaved \in [TaskId -> Nat]
    BY DEF Init, Fates
  <2>3. /\ created \in 0..MaxTasks /\ asks \in 0..MaxAsks /\ horizon \in 0..MaxAsks
        /\ stops \in 0..MaxStops /\ faults \in 0..MaxFaults
    BY ConstantsOK DEF Init
  <2>4. leaked = {} /\ orphaned = {} /\ torn = {}
    BY DEF Init
  <2>. QED  BY <2>1, <2>2, <2>3, <2>4 DEF TypeOK
<1>2. Shape /\ Births /\ Files
  BY DEF Init, Shape, Births, Files, Queued
<1>3. AcceptedOnDisk /\ NotStranded /\ NoLostWakeup
  BY DEF Init, AcceptedOnDisk, NotStranded, NoLostWakeup
<1>. QED  BY <1>1, <1>2, <1>3 DEF IInv

\* The invariant depends on the variables alone.
LEMMA StutterIInv == IInv /\ UNCHANGED vars => IInv'
BY DEF vars, IInv, TypeOK, Shape, Births, Files, AcceptedOnDisk, NotStranded, NoLostWakeup,
       Queued, Up

\* Every step preserves the invariant, action by action.
LEMMA NextIInv == IInv /\ [Next]_vars => IInv'
<1>. SUFFICES ASSUME IInv, Next PROVE IInv'
  BY StutterIInv
<1>1. ASSUME NEW ev \in Event, EnqueueMatch(ev) PROVE IInv'
  BY <1>1, EnqueueMatchStep
<1>2. CASE EnqueueWrite
  BY <1>2, EnqueueWriteStep
<1>3. CASE EnqueueFail
  BY <1>3, EnqueueFailStep
<1>4. CASE NextTake
  BY <1>4, NextTakeStep
<1>5. CASE NextEmpty \/ NextWake \/ NextStop
  BY <1>5, NextEmptyStep, NextWakeStep, NextStopStep
<1>6. ASSUME NEW sent \in BOOLEAN, ParkWrite(sent) PROVE IInv'
  BY <1>6, ParkWriteStep
<1>7. CASE ParkFail \/ ParkInsert
  BY <1>7, ParkFailStep, ParkInsertStep
<1>8. CASE Done
  BY <1>8, DoneStep
<1>9. CASE Expire \/ Cancel
  BY <1>9, ExpireStep, CancelStep
<1>10. CASE Crash \/ Exit
  <2>1. stops' \in 0..MaxStops /\ LoseMemory
    BY <1>10, ConstantsOK DEF Crash, Exit, IInv, TypeOK
  <2>. QED  BY <2>1, LoseMemoryStep
<1>11. CASE Open
  BY <1>11, OpenStep
<1>. QED
  BY <1>1, <1>2, <1>3, <1>4, <1>5, <1>6, <1>7, <1>8, <1>9, <1>10, <1>11 DEF Next

-----------------------------------------------------------------------------
(* Theorems *)

\* Every state of the queue has the shape TypeOK says.
THEOREM TypeCorrect == Spec => []TypeOK
<1>1. IInv => TypeOK
  BY DEF IInv
<1>. QED  BY <1>1, InitIInv, NextIInv, PTL DEF Spec

\* A task Enqueue accepted stays on disk until its turn is over, however the
\* process crashes, is stopped and restarted, and whichever writes fail.
THEOREM AcceptedStayOnDisk == Spec => []AcceptedOnDisk
<1>1. IInv => AcceptedOnDisk
  BY DEF IInv
<1>. QED  BY <1>1, InitIInv, NextIInv, PTL DEF Spec

\* While the process is up, every accepted task is held by the worker or in
\* the queue in memory: none waits for another restart.
THEOREM NothingStranded == Spec => []NotStranded
<1>1. IInv => NotStranded
  BY DEF IInv
<1>. QED  BY <1>1, InitIInv, NextIInv, PTL DEF Spec

\* The one-slot notify channel never leaves the worker asleep over a task.
THEOREM WakeupNeverLost == Spec => []NoLostWakeup
<1>1. IInv => NoLostWakeup
  BY DEF IInv
<1>. QED  BY <1>1, InitIInv, NextIInv, PTL DEF Spec

-----------------------------------------------------------------------------
(* Attempts *)

\* The file of a task counts every run but those whose count was not written,
\* and no queued task has used up its attempts.
Counts ==
  /\ \A t \in TaskId : runs[t] = attempts[t] + unsaved[t]
  /\ \A t \in TaskId : attempts[t] <= MaxAttempts
  /\ \A t \in Queued : attempts[t] < MaxAttempts
  /\ \A t \in TaskId : fate[t] \in {"unborn", "enqueuing", "refused"} => runs[t] = 0
  /\ \A t \in TaskId : fate[t] = "dropped" => attempts[t] >= MaxAttempts

\* Every step keeps the accounting of runs, attempts and unsaved counts.
LEMMA CountsStep == IInv /\ Counts /\ [Next]_vars => Counts'
<1>. SUFFICES ASSUME IInv, Counts, [Next]_vars PROVE Counts'
  OBVIOUS
<1>. USE DEF IInv
<1>1. CASE UNCHANGED vars
  BY <1>1 DEF vars, Counts, Queued
<1>2. ASSUME NEW ev \in Event, EnqueueMatch(ev) PROVE Counts'
  <2>1. Queued' = Queued /\ UNCHANGED <<attempts, runs, unsaved>>
    BY <1>2 DEF EnqueueMatch, Queued
  <2>2. fate[created + 1] = "unborn" /\ fate' = [fate EXCEPT ![created + 1] = "enqueuing"]
    BY <1>2, ConstantsOK DEF EnqueueMatch, TypeOK, TaskId, Births
  <2>. QED  BY <2>1, <2>2 DEF Counts, TypeOK
<1>3. CASE EnqueueWrite
  <2>. DEFINE e == enqueuing
  <2>1. /\ e \in TaskId /\ fate[e] = "enqueuing" /\ runs[e] = 0
        /\ attempts' = [attempts EXCEPT ![e] = 0]
        /\ fate' = [fate EXCEPT ![e] = "accepted"]
        /\ UNCHANGED <<runs, unsaved>>
    BY <1>3 DEF EnqueueWrite, WriteTask, TypeOK, Births, Counts
  <2>2. unsaved[e] = 0 /\ attempts[e] = 0
    <3>1. attempts[e] \in Nat /\ unsaved[e] \in Nat /\ runs[e] = attempts[e] + unsaved[e]
      BY <2>1 DEF Counts, TypeOK
    <3>. QED  BY <2>1, <3>1
  <2>3. Queued' = Queued \cup {e}
    BY <1>3, QueueAfterWrite
  <2>4. attempts' = attempts
    BY <2>1, <2>2 DEF TypeOK
  <2>. HIDE DEF e
  <2>5. \A t \in Queued' : attempts'[t] < MaxAttempts
    BY <2>1, <2>2, <2>3, <2>4, ConstantsOK DEF Counts
  <2>6. \A t \in TaskId : fate'[t] \in {"unborn", "enqueuing", "refused"} => runs'[t] = 0
    BY <2>1 DEF Counts, TypeOK
  <2>7. \A t \in TaskId : fate'[t] = "dropped" => attempts'[t] >= MaxAttempts
    BY <2>1, <2>4 DEF Counts, TypeOK
  <2>. QED  BY <2>1, <2>4, <2>5, <2>6, <2>7 DEF Counts
<1>4. CASE EnqueueFail
  <2>1. runs[enqueuing] = 0
    BY <1>4 DEF EnqueueFail, Counts, TypeOK, Births
  <2>. QED  BY <1>4, <2>1 DEF EnqueueFail, Counts, TypeOK, Queued, Births
<1>5. CASE NextTake
  <2>. DEFINE h == Head(pending)
  <2>2. h \in TaskId /\ Queued' = Queued \ {h}
    BY <1>5, QueueAfterTake
  <2>3. h \in Queued
    BY <1>5, QueueAfterTake
  <2>4. attempts[h] < MaxAttempts /\ fate[h] \in {"accepted", "settled"}
    BY <2>3 DEF Counts, Files
  <2>5. runs' = [runs EXCEPT ![h] = runs[h] + 1] /\ fate' = fate
    BY <1>5 DEF NextTake
  <2>6. \/ attempts' = [attempts EXCEPT ![h] = attempts[h] + 1] /\ unsaved' = unsaved
        \/ unsaved' = [unsaved EXCEPT ![h] = unsaved[h] + 1] /\ attempts' = attempts
    BY <1>5 DEF NextTake, WriteTask
  <2>. HIDE DEF h
  <2>7. \A t \in TaskId : /\ attempts[t] \in Nat /\ runs[t] \in Nat /\ unsaved[t] \in Nat
                          /\ attempts'[t] \in Nat /\ runs'[t] \in Nat /\ unsaved'[t] \in Nat
    BY <2>2, <2>5, <2>6 DEF TypeOK
  <2>8. \A t \in TaskId : t # h => /\ attempts'[t] = attempts[t] /\ runs'[t] = runs[t]
                                   /\ unsaved'[t] = unsaved[t]
    BY <2>5, <2>6 DEF TypeOK
  <2>9. /\ runs'[h] = runs[h] + 1
        /\ \/ attempts'[h] = attempts[h] + 1 /\ unsaved'[h] = unsaved[h]
           \/ attempts'[h] = attempts[h] /\ unsaved'[h] = unsaved[h] + 1
    BY <2>2, <2>5, <2>6 DEF TypeOK
  <2>10. \A t \in TaskId : runs'[t] = attempts'[t] + unsaved'[t]
    BY <2>2, <2>7, <2>8, <2>9 DEF Counts
  <2>11. \A t \in TaskId : attempts'[t] <= MaxAttempts
    BY <2>2, <2>4, <2>7, <2>8, <2>9, ConstantsOK DEF Counts
  <2>12. \A t \in Queued' : attempts'[t] < MaxAttempts
    BY <2>2, <2>8 DEF Counts, Files, TypeOK
  <2>13. /\ \A t \in TaskId : fate'[t] \in {"unborn", "enqueuing", "refused"} => runs'[t] = 0
         /\ \A t \in TaskId : fate'[t] = "dropped" => attempts'[t] >= MaxAttempts
    BY <2>4, <2>5, <2>8 DEF Counts
  <2>. QED  BY <2>10, <2>11, <2>12, <2>13 DEF Counts
<1>6. CASE NextEmpty \/ NextWake \/ NextStop \/ Expire \/ Cancel
  BY <1>6 DEF NextEmpty, NextWake, NextStop, Expire, Cancel, Counts, Queued
<1>7. CASE (\E sent \in BOOLEAN : ParkWrite(sent)) \/ ParkFail \/ ParkInsert
  BY <1>7 DEF ParkWrite, ParkFail, ParkInsert, Counts, Queued
<1>8. CASE Done
  BY <1>8 DEF Done, Counts, Queued, TypeOK
<1>9. CASE Crash \/ Exit
  <2>1. LoseMemory
    BY <1>9 DEF Crash, Exit
  <2>2. Queued' = {} /\ UNCHANGED <<attempts, runs, unsaved>>
    BY <2>1 DEF LoseMemory, Queued
  <2>3. fate' = [t \in TaskId |-> IF fate[t] = "enqueuing" THEN "refused" ELSE fate[t]]
    BY <2>1 DEF LoseMemory
  <2>. QED  BY <2>2, <2>3 DEF Counts, TypeOK
<1>10. CASE Open
  <2>. DEFINE poison == {t \in pendingFiles : Exhausted(t)}
              kept   == pendingFiles \ poison
  <2>2. Queued' = kept
    BY <1>10, QueueAfterOpen
  <2>3. \A t \in kept : attempts[t] < MaxAttempts
    BY ConstantsOK DEF TypeOK, Exhausted
  <2>4. fate' = [t \in TaskId |-> IF t \in poison /\ fate[t] = "accepted"
                                  THEN "dropped" ELSE fate[t]]
    BY <1>10 DEF Open
  <2>5. UNCHANGED <<attempts, runs, unsaved>>
    BY <1>10 DEF Open
  <2>. QED  BY <2>2, <2>3, <2>4, <2>5 DEF Counts, TypeOK, Exhausted
<1>. QED
  BY <1>1, <1>2, <1>3, <1>4, <1>5, <1>6, <1>7, <1>8, <1>9, <1>10 DEF Next

\* A task is tried at most maxAttempts times, plus once for every count that
\* could not be written, and one given up at load has used them all.
THEOREM AttemptsAreBounded == Spec => []AttemptsBounded
<1>1. Init => Counts
  BY ConstantsOK DEF Init, Counts, Queued
<1>2. IInv /\ Counts => AttemptsBounded
  BY ConstantsOK DEF IInv, TypeOK, Counts, AttemptsBounded
<1>. QED  BY <1>1, <1>2, InitIInv, NextIInv, CountsStep, PTL DEF Spec

-----------------------------------------------------------------------------
(* The order of service *)

\* The queue is in the order of creation, and the task being enqueued is the
\* youngest.
Sorted ==
  /\ \A i, j \in DOMAIN pending : i < j => pending[i] < pending[j]
  /\ enqueuing # NoTask => enqueuing = created

\* Every step keeps the queue in the order of creation.
LEMMA SortedStep == IInv /\ Sorted /\ [Next]_vars => Sorted'
<1>. SUFFICES ASSUME IInv, Sorted, [Next]_vars PROVE Sorted'
  OBVIOUS
<1>. USE DEF IInv
<1>1. CASE UNCHANGED <<pending, enqueuing, created>>
  BY <1>1 DEF Sorted
<1>2. ASSUME NEW ev \in Event, EnqueueMatch(ev) PROVE Sorted'
  BY <1>2 DEF EnqueueMatch, Sorted
<1>3. CASE EnqueueWrite
  <2>1. /\ pending \in Seq(TaskId) /\ pending' = Append(pending, enqueuing)
        /\ enqueuing \in TaskId /\ enqueuing = created /\ enqueuing' = NoTask
    BY <1>3 DEF EnqueueWrite, TypeOK, Sorted
  <2>2. ASSUME NEW i \in DOMAIN pending PROVE pending[i] < enqueuing
    <3>1. pending[i] \in TaskId /\ pending[i] \in pendingFiles
      BY <2>1 DEF Files, Queued
    <3>2. pending[i] # enqueuing
      BY <1>3, <3>1 DEF Files, Births, EnqueueWrite
    <3>3. ~(pending[i] > created)
      BY <3>1 DEF Files, Births
    <3>. QED  BY <2>1, <3>1, <3>2, <3>3 DEF TaskId
  <2>3. ASSUME NEW i \in DOMAIN pending', NEW j \in DOMAIN pending', i < j
        PROVE  pending'[i] < pending'[j]
    <3>1. i \in DOMAIN pending /\ pending'[i] = pending[i]
      BY <2>1, <2>3
    <3>2. CASE j \in DOMAIN pending
      BY <2>1, <2>3, <3>1, <3>2 DEF Sorted
    <3>3. CASE j \notin DOMAIN pending
      BY <2>1, <2>2, <3>1, <3>3
    <3>. QED  BY <3>2, <3>3
  <2>. QED  BY <2>1, <2>3 DEF Sorted
<1>4. CASE EnqueueFail
  BY <1>4 DEF EnqueueFail, Sorted
<1>5. CASE NextTake
  <2>1. pending \in Seq(TaskId) /\ pending # <<>> /\ pending' = Tail(pending) /\ enqueuing' = NoTask
    BY <1>5 DEF NextTake, TypeOK
  <2>2. ASSUME NEW i \in DOMAIN pending', NEW j \in DOMAIN pending', i < j
        PROVE  pending'[i] < pending'[j]
    <3>1. /\ i \in 1..(Len(pending) - 1) /\ j \in 1..(Len(pending) - 1)
          /\ pending'[i] = pending[i + 1] /\ pending'[j] = pending[j + 1]
      BY <2>1
    <3>2. i + 1 \in DOMAIN pending /\ j + 1 \in DOMAIN pending /\ i + 1 < j + 1
      BY <2>1, <2>2, <3>1
    <3>. QED  BY <3>1, <3>2 DEF Sorted
  <2>. QED  BY <2>1, <2>2 DEF Sorted
<1>6. CASE Crash \/ Exit
  BY <1>6 DEF Crash, Exit, LoseMemory, Sorted
<1>7. CASE Open
  <2>1. enqueuing' = NoTask
    BY <1>7 DEF Open, Shape
  <2>2. \A i, j \in DOMAIN pending' : i < j => pending'[i] < pending'[j]
    BY <1>7 DEF Open, OldestFirst
  <2>. QED  BY <2>1, <2>2 DEF Sorted
<1>. QED
  <2>1. CASE NextEmpty \/ NextWake \/ NextStop \/ Expire \/ Cancel
    BY <1>1, <2>1 DEF NextEmpty, NextWake, NextStop, Expire, Cancel
  <2>2. CASE (\E sent \in BOOLEAN : ParkWrite(sent)) \/ ParkFail \/ ParkInsert \/ Done
    BY <1>1, <2>2 DEF ParkWrite, ParkFail, ParkInsert, Done
  <2>3. CASE UNCHANGED vars
    BY <1>1, <2>3 DEF vars
  <2>. QED
    BY <1>2, <1>3, <1>4, <1>5, <1>6, <1>7, <2>1, <2>2, <2>3 DEF Next

\* Next hands out the oldest accepted task there is, before and after restarts.
THEOREM ServedInOrder == Spec => NoOvertaking
<1> DEFINE Step == current' \notin {NoTask, current} =>
                     \A t \in TaskId : fate[t] = "accepted" => current' <= t
<1>1. Init => Sorted
  BY DEF Init, Sorted
<1>2. ASSUME IInv, Sorted, NextTake PROVE Step
  <2>. SUFFICES ASSUME NEW t \in TaskId, fate[t] = "accepted" PROVE current' <= t
    OBVIOUS
  <2>. USE DEF IInv
  <2>1. pending \in Seq(TaskId) /\ pending # <<>> /\ current' = pending[1] /\ Up /\ current = NoTask
    BY <1>2 DEF NextTake, TypeOK, Up, Shape
  <2>2. PICK i \in DOMAIN pending : pending[i] = t
    <3>1. t # current
      BY <2>1 DEF NoTask, TaskId
    <3>2. t \in Queued
      BY <1>2, <2>1, <3>1 DEF NotStranded
    <3>. QED  BY <3>2 DEF Queued
  <2>3. i \in 1..Len(pending) /\ 1 \in DOMAIN pending /\ pending[1] \in TaskId
    BY <2>1
  <2>4. CASE i = 1
    BY <2>1, <2>2, <2>3, <2>4 DEF TaskId
  <2>5. CASE 1 < i
    <3>1. pending[1] < pending[i]
      BY <2>2, <2>3, <2>5, <1>2 DEF Sorted
    <3>. QED  BY <2>1, <2>2, <2>3, <3>1 DEF TaskId
  <2>. QED  BY <2>3, <2>4, <2>5
<1>3. IInv /\ Sorted /\ [Next]_vars => [Step]_vars
  <2>. SUFFICES ASSUME IInv, Sorted, Next PROVE Step
    OBVIOUS
  <2>1. CASE NextTake
    BY <1>2, <2>1
  <2>2. ASSUME NEW ev \in Event, EnqueueMatch(ev) PROVE Step
    BY <2>2 DEF EnqueueMatch
  <2>3. CASE EnqueueWrite \/ EnqueueFail \/ NextEmpty \/ NextWake \/ NextStop \/ Expire \/ Cancel
    BY <2>3 DEF EnqueueWrite, EnqueueFail, NextEmpty, NextWake, NextStop, Expire, Cancel
  <2>4. CASE (\E sent \in BOOLEAN : ParkWrite(sent)) \/ ParkFail \/ ParkInsert \/ Open
    BY <2>4 DEF ParkWrite, ParkFail, ParkInsert, Open
  <2>5. CASE Done \/ Crash \/ Exit
    BY <2>5 DEF Done, Crash, Exit, LoseMemory
  <2>. QED  BY <2>1, <2>2, <2>3, <2>4, <2>5 DEF Next
<1>. QED
  BY <1>1, <1>3, InitIInv, NextIInv, SortedStep, PTL DEF Spec, NoOvertaking

-----------------------------------------------------------------------------
(* The promise *)

\* As long as no file operation fails, what is on disk while the process is up
\* is what is queued and what the worker holds.
Synced == Up => pendingFiles = Queued \cup ({current} \ {NoTask})

\* Without faults a task leaves the disk with the worker's hands.
LEMMA SyncedStep == ASSUME MaxFaults = 0 PROVE IInv /\ Synced /\ [Next]_vars => Synced'
<1>. SUFFICES ASSUME IInv, Synced, [Next]_vars PROVE Synced'
  OBVIOUS
<1>. USE DEF IInv
<1>0. ~Fault
  BY DEF Fault, TypeOK
<1>1. CASE UNCHANGED <<pc, pendingFiles, pending, current>>
  BY <1>1 DEF Synced, Up, Queued
<1>2. CASE (\E ev \in Event : EnqueueMatch(ev)) \/ EnqueueFail \/ Expire \/ Cancel \/ UNCHANGED vars
  BY <1>1, <1>2 DEF EnqueueMatch, EnqueueFail, Expire, Cancel, vars
<1>3. CASE EnqueueWrite
  <2>1. Queued' = Queued \cup {enqueuing} /\ pendingFiles' = pendingFiles \cup {enqueuing}
        /\ UNCHANGED <<pc, current>>
    BY <1>3, QueueAfterWrite DEF EnqueueWrite, WriteTask
  <2>. QED  BY <2>1 DEF Synced, Up
<1>4. CASE NextTake
  <2>1. /\ Head(pending) \in TaskId /\ Queued' = Queued \ {Head(pending)} /\ Head(pending) \in Queued
        /\ pendingFiles' = pendingFiles \cup {Head(pending)}
        /\ current = NoTask /\ current' = Head(pending) /\ Up
    BY <1>0, <1>4, QueueAfterTake DEF NextTake, WriteTask, Shape, Up
  <2>. QED  BY <2>1 DEF Synced, TaskId, NoTask
<1>5. CASE NextEmpty \/ NextWake \/ NextStop \/ (\E sent \in BOOLEAN : ParkWrite(sent)) \/ ParkFail
           \/ ParkInsert
  <2>1. Up /\ UNCHANGED <<pendingFiles, pending, current>>
    BY <1>5 DEF NextEmpty, NextWake, NextStop, ParkWrite, ParkFail, ParkInsert, Up
  <2>. QED  BY <2>1 DEF Synced, Up, Queued
<1>6. CASE Done
  <2>1. /\ pendingFiles' = pendingFiles \ {current} /\ current' = NoTask /\ Up
        /\ pending' = pending /\ current \notin Queued
    BY <1>0, <1>6 DEF Done, Shape, Files, Up
  <2>. QED  BY <2>1 DEF Synced, Queued
<1>7. CASE Crash \/ Exit
  BY <1>7 DEF Crash, Exit, LoseMemory, Synced, Up
<1>8. CASE Open
  <2>1. Queued' = pendingFiles' /\ current' = NoTask
    BY <1>8, QueueAfterOpen DEF Open, Shape
  <2>. QED  BY <2>1 DEF Synced
<1>. QED
  BY <1>2, <1>3, <1>4, <1>5, <1>6, <1>7, <1>8 DEF Next

\* The two directories keep the promise of DurableQueue over crashes and
\* restarts: tasks are served oldest first, one at a time, each until it is
\* settled or was tried MaxAttempts times.
THEOREM KeepsPromise == ASSUME MaxFaults = 0 PROVE Spec => ImplementsDurableQueue
<1>1. Init => Durable!Init /\ Counts /\ Sorted /\ Synced
  BY ConstantsOK DEF Init, Durable!Init, Durable!Task, TaskId, Counts, Sorted, Synced, Queued, NoTask
<1>2. IInv /\ Counts /\ Sorted /\ Synced /\ [Next]_vars => [Durable!Next]_(Durable!vars)
  <2>. SUFFICES ASSUME IInv, Counts, Sorted, Synced, [Next]_vars
                PROVE  Durable!Next \/ UNCHANGED <<pendingFiles, attempts, current>>
    BY DEF Durable!vars
  <2>. USE DEF IInv
  <2>0. ~Fault /\ TaskId = Durable!Task
    BY DEF Fault, TypeOK, TaskId, Durable!Task
  <2>1. CASE EnqueueWrite
    <3>. DEFINE e == enqueuing
    <3>1. /\ e \in TaskId /\ fate[e] = "enqueuing" /\ e \notin pendingFiles
          /\ attempts \in [TaskId -> Nat] /\ attempts' = [attempts EXCEPT ![e] = 0]
          /\ pendingFiles' = pendingFiles \cup {e} /\ current' = current
      BY <2>1, QueueAfterWrite DEF EnqueueWrite, WriteTask, TypeOK
    <3>2. attempts[e] = 0
      <4>1. runs[e] = 0 /\ runs[e] = attempts[e] + unsaved[e]
            /\ attempts[e] \in Nat /\ unsaved[e] \in Nat
        BY <3>1 DEF Counts, TypeOK
      <4>. QED  BY <4>1
    <3>3. \A u \in pendingFiles : u < e
      <4>1. e = created
        BY <2>1 DEF EnqueueWrite, Sorted
      <4>2. \A u \in pendingFiles : u \in TaskId /\ ~(u > created) /\ u # e
        BY <3>1 DEF TypeOK, Births, Files
      <4>. QED  BY <3>1, <4>1, <4>2 DEF TaskId
    <3>4. attempts' = attempts
      BY <3>1, <3>2
    <3>. HIDE DEF e
    <3>5. Durable!Accept(e)
      BY <3>1, <3>2, <3>3, <3>4 DEF Durable!Accept
    <3>. QED  BY <2>0, <3>1, <3>5 DEF Durable!Next
  <2>2. CASE NextTake
    <3>. DEFINE h == Head(pending)
    <3>1. /\ h \in TaskId /\ h \in Queued /\ current' = h /\ current = NoTask /\ Up
          /\ attempts' = [attempts EXCEPT ![h] = attempts[h] + 1]
          /\ pendingFiles' = pendingFiles \cup {h}
          /\ pending \in Seq(TaskId) /\ pending # <<>> /\ h = pending[1]
      <4>1. h \in TaskId /\ h \in Queued
        BY <2>2, QueueAfterTake
      <4>2. /\ pc = "idle" /\ pending # <<>> /\ current' = h
            /\ attempts' = [attempts EXCEPT ![h] = attempts[h] + 1]
            /\ pendingFiles' = pendingFiles \cup {h}
        BY <2>0, <2>2 DEF NextTake, WriteTask
      <4>3. pending \in Seq(TaskId)
        BY DEF TypeOK
      <4>4. h = pending[1]
        BY <4>2, <4>3
      <4>5. current = NoTask
        BY <4>2 DEF Shape
      <4>. QED  BY <4>1, <4>2, <4>3, <4>4, <4>5 DEF Up
    <3>2. pendingFiles = Queued /\ pendingFiles' = pendingFiles
      BY <3>1 DEF Synced
    <3>3. \A u \in Queued : h <= u
      <4>. SUFFICES ASSUME NEW i \in DOMAIN pending PROVE h <= pending[i]
        BY DEF Queued
      <4>1. i \in 1..Len(pending) /\ 1 \in DOMAIN pending /\ pending[i] \in TaskId
        BY <3>1
      <4>2. i = 1 \/ pending[1] < pending[i]
        BY <3>1, <4>1 DEF Sorted
      <4>. QED  BY <3>1, <4>1, <4>2 DEF TaskId
    <3>4. attempts[h] < MaxAttempts
      BY <3>1 DEF Counts
    <3>. HIDE DEF h
    <3>5. Durable!Serve(h)
      BY <3>1, <3>2, <3>3, <3>4 DEF Durable!Serve, NoTask
    <3>. QED  BY <2>0, <3>1, <3>5 DEF Durable!Next
  <2>3. CASE Done
    <3>1. /\ current \in pendingFiles /\ pendingFiles' = pendingFiles \ {current}
          /\ current' = NoTask /\ attempts' = attempts
      BY <2>0, <2>3 DEF Done, Shape, Files
    <3>. QED  BY <3>1 DEF Durable!Settle, Durable!Next, NoTask
  <2>4. CASE Crash \/ Exit
    <3>1. current' = NoTask /\ UNCHANGED <<pendingFiles, attempts>>
      BY <2>4 DEF Crash, Exit, LoseMemory
    <3>. QED  BY <3>1 DEF Durable!Interrupt, Durable!Next, NoTask
  <2>5. CASE Open
    <3>1. /\ current = NoTask /\ UNCHANGED <<current, attempts>>
          /\ pendingFiles' = pendingFiles \ {t \in pendingFiles : Exhausted(t)}
      BY <2>5 DEF Open, Shape
    <3>2. \A t \in pendingFiles : attempts[t] \in Nat
      BY DEF TypeOK
    <3>3. pendingFiles' = {t \in pendingFiles : attempts[t] < MaxAttempts}
      BY <3>1, <3>2, ConstantsOK DEF Exhausted
    <3>. QED  BY <3>1, <3>3 DEF Durable!GiveUp, Durable!Next, NoTask
  <2>6. CASE UNCHANGED <<pendingFiles, attempts, current>>
    BY <2>6
  <2>7. CASE (\E ev \in Event : EnqueueMatch(ev)) \/ EnqueueFail \/ Expire \/ Cancel \/ UNCHANGED vars
    BY <2>6, <2>7 DEF EnqueueMatch, EnqueueFail, Expire, Cancel, vars
  <2>8. CASE NextEmpty \/ NextWake \/ NextStop \/ (\E sent \in BOOLEAN : ParkWrite(sent)) \/ ParkFail
             \/ ParkInsert
    BY <2>6, <2>8 DEF NextEmpty, NextWake, NextStop, ParkWrite, ParkFail, ParkInsert
  <2>. QED
    BY <2>1, <2>2, <2>3, <2>4, <2>5, <2>7, <2>8 DEF Next
<1>. QED
  BY <1>1, <1>2, InitIInv, NextIInv, CountsStep, SortedStep, SyncedStep,
     PTL DEF Spec, ImplementsDurableQueue, Durable!Spec

-----------------------------------------------------------------------------
(* Questions: each is answered once, by somebody who was asked, and keeps *)
(* the request it is about                                               *)

Answered(t) == resume[t] # None

\* Every record of a question there is: the map, the directory, and the one
\* Park has written and not yet inserted.
Records == parked \cup parkedFiles \cup {r \in {asking} : pc = "parking"}

\* Records with the same number are the same question, the one being parked is
\* the latest, and an answered question has a record left only if its file
\* could not be removed.
AskedOnce ==
  /\ \A p \in Records : p.asked <= asks
  /\ \A t \in TaskId : Answered(t) => resume[t].asked <= asks
  /\ pc = "parking" =>
       /\ asking.asked = asks
       /\ \A p \in parked : p.asked < asks
  /\ \A p, q \in Records : p.asked = q.asked => p = q
  /\ \A p \in Records, t \in TaskId :
       Answered(t) /\ p.asked = resume[t].asked => p.asked \in orphaned

\* Every record, and every record that was answered, points at a request that
\* answers nothing itself.
Origins ==
  /\ \A t \in TaskId : Answered(t) =>
       /\ t <= created
       /\ resume[t].request <= created /\ ~Answered(resume[t].request)
  /\ \A p \in Records : p.request <= created /\ ~Answered(p.request)

\* A record's keys are those of the account that was asked.
KeyedBy(p) == \E sent \in BOOLEAN : p.keys = AskKeys(event[p.task], p.asked, sent)

\* ... and whatever answered it carries one of them.
Keyed ==
  /\ \A p \in Records : p.task <= created /\ KeyedBy(p)
  /\ \A t \in TaskId : Answered(t) =>
       /\ resume[t].task <= created /\ KeyedBy(resume[t])
       /\ LET keys == ResumeKeys(event[t]) IN
          \E i \in DOMAIN keys : keys[i] \in resume[t].keys

Questions == AskedOnce /\ OneAnswer /\ Origins /\ Keyed

-----------------------------------------------------------------------------
(* Lemmas about questions *)

\* Records are well formed.
LEMMA RecordsType ==
  ASSUME IInv
  PROVE  Records \subseteq Parked
BY DEF IInv, TypeOK, Shape, Records

\* A step that makes no record, answers nothing and moves no event keeps what
\* is known of the questions, however many it asks without a record.
LEMMA RecordsShrink ==
  ASSUME IInv, Questions,
         Records' \subseteq Records, UNCHANGED <<resume, event, created>>,
         asks' \in Int, asks <= asks', orphaned \subseteq orphaned',
         pc' = "parking" => /\ pc = "parking" /\ UNCHANGED <<asking, asks>>
                            /\ parked' \subseteq parked
  PROVE  Questions'
<1>. USE DEF Questions
<1>0. /\ \A p \in Records : p.asked \in Int
      /\ \A t \in TaskId : Answered(t) => resume[t].asked \in Int
      /\ asks \in Int
  BY RecordsType DEF IInv, TypeOK, Parked, AskId, Answered
<1>1. AskedOnce'
  BY <1>0 DEF AskedOnce, Answered
<1>2. OneAnswer'
  BY DEF OneAnswer
<1>3. Origins'
  BY DEF Origins, Answered
<1>4. Keyed'
  BY DEF Keyed, Answered, KeyedBy
<1>. QED  BY <1>1, <1>2, <1>3, <1>4

\* Park's record is new, points at the request of its task and carries the
\* keys of the task's account.
LEMMA ParkWriteQuestions ==
  ASSUME IInv, Questions, NEW sent \in BOOLEAN, ParkWrite(sent)
  PROVE  Questions'
<1>. USE DEF Questions
<1>0. /\ \A p \in Records : p.asked \in Int
      /\ \A t \in TaskId : Answered(t) => resume[t].asked \in Int
      /\ asks \in Int
  BY RecordsType DEF IInv, TypeOK, Parked, AskId, Answered
<1>1. /\ current \in TaskId /\ current <= created
      /\ created \in Int
  <2>1. current \in TaskId /\ fate[current] # "unborn"
    BY DEF ParkWrite, IInv, TypeOK, Shape, Files
  <2>2. ~(current > created) /\ created \in Int
    BY <2>1 DEF IInv, Births, TypeOK
  <2>. QED  BY <2>1, <2>2 DEF TaskId
<1>2. /\ asking'.task = current /\ asking'.request = RequestOf(current)
      /\ asking'.asked = asks + 1 /\ asks' = asks + 1
      /\ asking'.keys = AskKeys(event[current], asks + 1, sent)
      /\ parked' = parked /\ pc' = "parking"
      /\ UNCHANGED <<resume, event, created, orphaned>>
  BY DEF ParkWrite
<1>3. Records' \subseteq Records \cup {asking'}
  BY DEF ParkWrite, Records, Without
<1>4. AskedOnce'
  <2>1. \A p \in Records' : p.asked <= asks'
    BY <1>0, <1>2, <1>3 DEF AskedOnce
  <2>2. \A t \in TaskId : Answered(t)' => resume'[t].asked <= asks'
    BY <1>0, <1>2 DEF AskedOnce, Answered
  <2>3. asking'.asked = asks' /\ \A p \in parked' : p.asked < asks'
    BY <1>0, <1>2 DEF AskedOnce, Records
  <2>4. \A p, q \in Records' : p.asked = q.asked => p = q
    BY <1>0, <1>2, <1>3 DEF AskedOnce
  <2>5. \A p \in Records', t \in TaskId :
          Answered(t)' /\ p.asked = resume'[t].asked => p.asked \in orphaned'
    BY <1>0, <1>2, <1>3 DEF AskedOnce, Answered
  <2>. QED  BY <2>1, <2>2, <2>3, <2>4, <2>5 DEF AskedOnce
<1>5. OneAnswer'
  BY <1>2 DEF OneAnswer
<1>6. Origins'
  <2>1. RequestOf(current) <= created /\ ~Answered(RequestOf(current))
    BY <1>1 DEF RequestOf, Answered, Origins
  <2>. QED  BY <1>2, <1>3, <2>1 DEF Origins, Answered
<1>7. Keyed'
  <2>1. asking'.task <= created /\ KeyedBy(asking')
    BY <1>1, <1>2 DEF KeyedBy
  <2>2. \A p \in Records' : p.task <= created /\ KeyedBy(p)
    BY <1>3, <2>1 DEF Keyed
  <2>3. \A p \in Records' : p.task <= created' /\ KeyedBy(p)'
    BY <1>2, <2>2 DEF KeyedBy
  <2>4. \A t \in TaskId : Answered(t) =>
          resume'[t].task <= created' /\ KeyedBy(resume[t])'
    BY <1>2 DEF Keyed, KeyedBy
  <2>. QED  BY <1>2, <2>3, <2>4 DEF Keyed, Answered
<1>. QED  BY <1>4, <1>5, <1>6, <1>7

\* What the match half of Enqueue does to the questions: it answers the one it
\* matches, if any, and one of its keys is among that question's.
LEMMA EnqueueMatchEffect ==
  ASSUME IInv, NEW ev \in Event, EnqueueMatch(ev)
  PROVE  /\ created + 1 \in TaskId /\ created' = created + 1 /\ created \in Nat
         /\ event' = [event EXCEPT ![created + 1] = ev]
         /\ parked' \subseteq parked /\ parkedFiles' \subseteq parkedFiles
         /\ UNCHANGED <<pc, asking, asks>>
         /\ \/ UNCHANGED <<resume, orphaned>>
            \/ \E p \in parked :
                 /\ resume' = [resume EXCEPT ![created + 1] = p]
                 /\ \E i \in DOMAIN ResumeKeys(ev) : ResumeKeys(ev)[i] \in p.keys
                 /\ p \notin parked'
                 /\ \/ p \notin parkedFiles' /\ orphaned' = orphaned
                    \/ orphaned' = orphaned \cup {p.asked}
<1>1. /\ created + 1 \in TaskId /\ created' = created + 1 /\ created \in Nat
      /\ event' = [event EXCEPT ![created + 1] = ev]
      /\ UNCHANGED <<pc, asking, asks>>
  BY ConstantsOK DEF EnqueueMatch, IInv, TypeOK, TaskId
<1>2. CASE /\ \A p \in parked : ~Matches(ev, p)
           /\ parked' = Without(parked, Swept(ev))
           /\ parkedFiles' = Without(parkedFiles, Swept(ev))
           /\ UNCHANGED <<resume, orphaned>>
  BY <1>1, <1>2 DEF Without
<1>3. CASE \E p \in parked :
             /\ Matches(ev, p)
             /\ resume' = [resume EXCEPT ![created + 1] = p]
             /\ parked' = Without(parked, Swept(ev) \cup {p.task})
             /\ \/ /\ parkedFiles' = Without(parkedFiles, Swept(ev) \cup {p.task})
                   /\ UNCHANGED orphaned
                \/ /\ parkedFiles' = Without(parkedFiles, Swept(ev))
                   /\ orphaned' = orphaned \cup {p.asked}
  <2>1. PICK p \in parked :
             /\ Matches(ev, p)
             /\ resume' = [resume EXCEPT ![created + 1] = p]
             /\ parked' = Without(parked, Swept(ev) \cup {p.task})
             /\ \/ /\ parkedFiles' = Without(parkedFiles, Swept(ev) \cup {p.task})
                   /\ UNCHANGED orphaned
                \/ /\ parkedFiles' = Without(parkedFiles, Swept(ev))
                   /\ orphaned' = orphaned \cup {p.asked}
    BY <1>3
  <2>2. \E i \in DOMAIN ResumeKeys(ev) : ResumeKeys(ev)[i] \in p.keys
    BY <2>1 DEF Matches
  <2>3. parked' \subseteq parked /\ parkedFiles' \subseteq parkedFiles /\ p \notin parked'
    BY <2>1 DEF Without
  <2>4. \/ p \notin parkedFiles' /\ orphaned' = orphaned
        \/ orphaned' = orphaned \cup {p.asked}
    BY <2>1 DEF Without
  <2>. QED  BY <1>1, <2>1, <2>2, <2>3, <2>4
<1>. QED  BY <1>2, <1>3 DEF EnqueueMatch

\* A message that answers a question takes it out of the map, and out of the
\* directory or else into orphaned; nobody else can answer it afterwards.
LEMMA EnqueueMatchQuestions ==
  ASSUME IInv, Questions, NEW ev \in Event, EnqueueMatch(ev)
  PROVE  Questions'
<1>. DEFINE id == created + 1
<1>1. /\ id \in TaskId /\ created' = id /\ created \in Nat
      /\ event' = [event EXCEPT ![id] = ev]
      /\ parked' \subseteq parked /\ parkedFiles' \subseteq parkedFiles
      /\ UNCHANGED <<pc, asking, asks>>
  BY EnqueueMatchEffect
<1>2. Records' \subseteq Records
  BY <1>1 DEF Records
<1>3. event \in [TaskId -> Event \cup {None}] /\ resume \in [TaskId -> Parked \cup {None}]
  BY DEF IInv, TypeOK
<1>4. \A t \in TaskId : t <= created => event'[t] = event[t]
  BY <1>1, <1>3 DEF TaskId
<1>5. ~Answered(id)
  BY <1>1 DEF Questions, Origins, TaskId
<1>6. \A p : p.task \in TaskId /\ p.task <= created /\ KeyedBy(p) => KeyedBy(p)'
  BY <1>4 DEF KeyedBy
<1>7. Records \subseteq Parked /\ asks \in Int
  BY RecordsType DEF IInv, TypeOK
<1>8. \A p \in Parked : p.task \in TaskId /\ p.request \in TaskId /\ p.asked \in Int
  BY DEF Parked, AskId
<1>9. CASE UNCHANGED <<resume, orphaned>>
  <2>1. AskedOnce'
    BY <1>1, <1>2, <1>9 DEF Questions, AskedOnce, Answered
  <2>2. OneAnswer'
    BY <1>9 DEF Questions, OneAnswer
  <2>3. Origins'
    <3>1. \A t \in TaskId : Answered(t)' <=> Answered(t)
      BY <1>9 DEF Answered
    <3>2. \A t \in TaskId : Answered(t) =>
            /\ t <= id /\ resume[t].request <= id /\ ~Answered(resume[t].request)
      <4>. SUFFICES ASSUME NEW t \in TaskId, Answered(t)
                    PROVE  t <= id /\ resume[t].request <= id /\ ~Answered(resume[t].request)
        OBVIOUS
      <4>1. resume[t] \in Parked
        BY <1>3 DEF Answered
      <4>2. t <= created /\ resume[t].request <= created /\ ~Answered(resume[t].request)
        BY DEF Questions, Origins
      <4>. QED  BY <1>1, <1>8, <4>1, <4>2 DEF TaskId
    <3>3. \A p \in Records' : p.request <= id /\ ~Answered(p.request)
      BY <1>1, <1>2, <1>7, <1>8 DEF Questions, Origins, TaskId
    <3>. QED  BY <1>1, <1>9, <3>1, <3>2, <3>3 DEF Origins, Answered
  <2>4. Keyed'
    <3>1. \A p \in Records' : p.task <= id /\ KeyedBy(p)'
      BY <1>1, <1>2, <1>6, <1>7, <1>8 DEF Questions, Keyed, TaskId
    <3>2. ASSUME NEW t \in TaskId, Answered(t)'
          PROVE  /\ resume'[t].task <= id /\ KeyedBy(resume[t])'
                 /\ LET keys == ResumeKeys(event'[t]) IN
                    \E i \in DOMAIN keys : keys[i] \in resume'[t].keys
      <4>1. Answered(t) /\ resume'[t] = resume[t] /\ resume[t] \in Parked
        BY <1>3, <1>9, <3>2 DEF Answered
      <4>2. t <= created /\ resume[t].task <= created /\ KeyedBy(resume[t])
        BY <4>1 DEF Questions, Origins, Keyed
      <4>3. KeyedBy(resume[t])'
        BY <1>4, <1>8, <4>1, <4>2 DEF KeyedBy
      <4>4. event'[t] = event[t]
        BY <1>4, <4>2
      <4>5. resume'[t].task <= id
        BY <1>1, <1>8, <4>1, <4>2 DEF TaskId
      <4>. QED  BY <4>1, <4>3, <4>4, <4>5 DEF Questions, Keyed
    <3>. QED  BY <1>1, <3>1, <3>2 DEF Keyed
  <2>. QED  BY <2>1, <2>2, <2>3, <2>4 DEF Questions
<1>10. ASSUME NEW p \in parked,
              resume' = [resume EXCEPT ![id] = p],
              \E i \in DOMAIN ResumeKeys(ev) : ResumeKeys(ev)[i] \in p.keys,
              p \notin parked',
              \/ p \notin parkedFiles' /\ orphaned' = orphaned
              \/ orphaned' = orphaned \cup {p.asked}
       PROVE  Questions'
  <2>1. p \in Records /\ p \in Parked
    BY <1>7 DEF Records
  <2>2. resume'[id] = p /\ \A t \in TaskId : t # id => resume'[t] = resume[t]
    BY <1>1, <1>3, <1>10
  <2>3. \A q \in Records' : q.asked = p.asked => p.asked \in orphaned'
    <3>. SUFFICES ASSUME NEW q \in Records', q.asked = p.asked
                  PROVE  p.asked \in orphaned'
      OBVIOUS
    <3>1. q = p
      BY <1>2, <2>1 DEF Questions, AskedOnce
    <3>2. pc = "parking" => p.asked < asks /\ asking.asked = asks
      BY DEF Questions, AskedOnce
    <3>3. p \notin parked' /\ (pc = "parking" => p # asking)
      BY <1>7, <1>8, <1>10, <2>1, <3>2
    <3>4. p \in parkedFiles'
      BY <1>1, <3>1, <3>3 DEF Records
    <3>. QED  BY <1>10, <3>4
  <2>4. AskedOnce'
    <3>1. \A t \in TaskId : Answered(t)' => resume'[t].asked <= asks
      BY <2>1, <2>2 DEF Questions, AskedOnce, Answered
    <3>2. \A q \in Records', t \in TaskId :
            Answered(t)' /\ q.asked = resume'[t].asked => q.asked \in orphaned'
      BY <1>2, <1>10, <2>2, <2>3 DEF Questions, AskedOnce, Answered
    <3>. QED  BY <1>1, <1>2, <3>1, <3>2 DEF Questions, AskedOnce
  <2>5. OneAnswer'
    <3>. SUFFICES ASSUME NEW t \in TaskId, NEW u \in TaskId,
                         t # u, Answered(t)', Answered(u)',
                         resume'[t].asked = resume'[u].asked
                  PROVE  resume'[t].asked \in orphaned'
      BY DEF OneAnswer, Answered
    <3>1. CASE t # id /\ u # id
      BY <1>10, <2>2, <3>1 DEF Questions, OneAnswer, Answered
    <3>2. CASE t = id
      <4>1. Answered(u) /\ p.asked = resume[u].asked
        BY <2>2, <3>2 DEF Answered
      <4>2. p.asked \in orphaned
        BY <2>1, <4>1 DEF Questions, AskedOnce
      <4>. QED  BY <1>10, <2>2, <3>2, <4>2
    <3>3. CASE u = id
      <4>1. Answered(t) /\ p.asked = resume[t].asked
        BY <2>2, <3>3 DEF Answered
      <4>2. p.asked \in orphaned
        BY <2>1, <4>1 DEF Questions, AskedOnce
      <4>. QED  BY <1>10, <2>2, <3>3, <4>2
    <3>. QED  BY <3>1, <3>2, <3>3
  <2>6. Origins'
    <3>1. \A t \in TaskId : t # id => (Answered(t)' <=> Answered(t))
      BY <2>2 DEF Answered
    <3>2. \A r \in Parked : r.request <= created /\ ~Answered(r.request)
                              => r.request <= id /\ ~Answered(r.request)'
      BY <1>1, <1>8, <3>1 DEF TaskId
    <3>3. \A r \in Records' : r.request <= id /\ ~Answered(r.request)'
      BY <1>2, <1>7, <3>2 DEF Questions, Origins
    <3>4. ASSUME NEW t \in TaskId, Answered(t)'
          PROVE  /\ t <= id /\ resume'[t] \in Parked
                 /\ resume'[t].request <= created /\ ~Answered(resume'[t].request)
      <4>1. CASE t = id
        BY <1>1, <2>1, <2>2, <4>1 DEF Questions, Origins, TaskId
      <4>2. CASE t # id
        BY <1>1, <1>3, <2>2, <3>4, <4>2 DEF Questions, Origins, TaskId, Answered
      <4>. QED  BY <4>1, <4>2
    <3>5. \A t \in TaskId : Answered(t)' =>
            /\ t <= id /\ resume'[t].request <= id
            /\ resume'[resume'[t].request] = None
      <4>. SUFFICES ASSUME NEW t \in TaskId, Answered(t)'
                    PROVE  /\ t <= id /\ resume'[t].request <= id
                           /\ resume'[resume'[t].request] = None
        OBVIOUS
      <4>1. /\ t <= id /\ resume'[t].request \in TaskId
            /\ resume'[t].request <= created /\ resume[resume'[t].request] = None
        BY <1>8, <3>4 DEF Answered
      <4>. QED  BY <1>1, <2>2, <4>1 DEF TaskId
    <3>. QED  BY <1>1, <3>3, <3>5 DEF Origins, Answered
  <2>7. Keyed'
    <3>1. \A q \in Records' : q.task <= id /\ KeyedBy(q)'
      BY <1>1, <1>2, <1>6, <1>7, <1>8 DEF Questions, Keyed, TaskId
    <3>2. ASSUME NEW t \in TaskId, Answered(t)'
          PROVE  /\ resume'[t].task <= id /\ KeyedBy(resume[t])'
                 /\ LET keys == ResumeKeys(event'[t]) IN
                    \E i \in DOMAIN keys : keys[i] \in resume'[t].keys
      <4>1. CASE t = id
        <5>1. resume'[t] = p /\ event'[t] = ev
          BY <1>1, <1>3, <2>2, <4>1
        <5>2. p.task <= created /\ KeyedBy(p) /\ p.task \in TaskId
          BY <1>8, <2>1 DEF Questions, Keyed
        <5>3. KeyedBy(resume[t])'
          BY <1>4, <5>1, <5>2 DEF KeyedBy
        <5>4. resume'[t].task <= id
          BY <1>1, <5>1, <5>2 DEF TaskId
        <5>. QED  BY <1>10, <5>1, <5>3, <5>4
      <4>2. CASE t # id
        <5>1. Answered(t) /\ resume'[t] = resume[t] /\ resume[t] \in Parked
          BY <1>3, <2>2, <3>2, <4>2 DEF Answered
        <5>2. t <= created /\ resume[t].task <= created /\ KeyedBy(resume[t])
          BY <5>1 DEF Questions, Origins, Keyed
        <5>3. KeyedBy(resume[t])'
          BY <1>4, <1>8, <5>1, <5>2 DEF KeyedBy
        <5>4. event'[t] = event[t]
          BY <1>4, <5>2
        <5>5. resume'[t].task <= id
          BY <1>1, <1>8, <5>1, <5>2 DEF TaskId
        <5>. QED  BY <5>1, <5>3, <5>4, <5>5 DEF Questions, Keyed
      <4>. QED  BY <4>1, <4>2
    <3>. QED  BY <1>1, <3>1, <3>2 DEF Keyed
  <2>. QED  BY <2>4, <2>5, <2>6, <2>7 DEF Questions
<1>. QED  BY EnqueueMatchEffect, <1>9, <1>10

\* Every other step makes no record, or drops some.
LEMMA QuestionsStep == IInv /\ Questions /\ [Next]_vars => Questions'
<1>. SUFFICES ASSUME IInv, Questions, [Next]_vars PROVE Questions'
  OBVIOUS
<1>0. asks \in Int /\ asks <= asks
  BY DEF IInv, TypeOK
<1>1. CASE UNCHANGED <<parked, parkedFiles, asking, pc, resume, event, created, asks, orphaned>>
  <2>1. Records' = Records
    BY <1>1 DEF Records
  <2>. QED  BY <1>0, <1>1, <2>1, RecordsShrink
<1>2. ASSUME NEW ev \in Event, EnqueueMatch(ev) PROVE Questions'
  BY <1>2, EnqueueMatchQuestions
<1>3. CASE \E sent \in BOOLEAN : ParkWrite(sent)
  BY <1>3, ParkWriteQuestions
<1>4. CASE ParkFail
  <2>1. Records' \subseteq Records /\ asks <= asks' /\ asks' \in Int
    BY <1>0, <1>4 DEF ParkFail, Records
  <2>. QED  BY <1>4, <2>1, RecordsShrink DEF ParkFail
<1>5. CASE ParkInsert
  <2>1. Records' \subseteq Records
    BY <1>5 DEF ParkInsert, Records, Without
  <2>. QED  BY <1>0, <1>5, <2>1, RecordsShrink DEF ParkInsert
<1>6. CASE NextTake \/ NextEmpty \/ NextWake \/ NextStop \/ Done
  <2>1. Records' \subseteq Records
    BY <1>6 DEF NextTake, NextEmpty, NextWake, NextStop, Done, Records
  <2>. QED  BY <1>0, <1>6, <2>1, RecordsShrink DEF NextTake, NextEmpty, NextWake, NextStop, Done
<1>7. CASE Crash \/ Exit
  <2>1. LoseMemory
    BY <1>7 DEF Crash, Exit
  <2>2. Records' \subseteq Records
    BY <2>1 DEF LoseMemory, Records
  <2>. QED  BY <1>0, <2>1, <2>2, RecordsShrink DEF LoseMemory
<1>8. CASE Open
  <2>1. Records' \subseteq Records
    BY <1>8 DEF Open, Records
  <2>. QED  BY <1>0, <1>8, <2>1, RecordsShrink DEF Open
<1>. QED
  <2>1. CASE EnqueueWrite \/ EnqueueFail \/ Expire \/ Cancel
    BY <1>1, <2>1 DEF EnqueueWrite, EnqueueFail, Expire, Cancel
  <2>2. CASE UNCHANGED vars
    BY <1>1, <2>2 DEF vars
  <2>. QED  BY <1>2, <1>3, <1>4, <1>5, <1>6, <1>7, <1>8, <2>1, <2>2 DEF Next

\* There are no questions at the start.
LEMMA InitQuestions == Init => Questions
<1>. SUFFICES ASSUME Init PROVE Questions
  OBVIOUS
<1>1. Records = {} /\ \A t \in TaskId : ~Answered(t)
  BY DEF Init, Records, Answered
<1>. QED
  BY <1>1 DEF Init, Questions, AskedOnce, OneAnswer, Origins, Keyed, Answered

-----------------------------------------------------------------------------
(* Theorems about questions *)

\* One question is answered by one task, over crashes and restarts, unless the
\* file of the answered question could not be removed.
THEOREM AnsweredByOne == Spec => []OneAnswer
<1>1. Questions => OneAnswer
  BY DEF Questions
<1>. QED  BY <1>1, InitIInv, NextIInv, InitQuestions, QuestionsStep, PTL DEF Spec

\* The request a question carries is a message that answers nothing, however
\* many follow-up questions its conversation took.
THEOREM RequestsAreOriginal == Spec => []RequestIsOriginal
<1>1. Questions => RequestIsOriginal
  BY DEF Questions, Origins, Records, RequestIsOriginal, Answered
<1>. QED  BY <1>1, InitIInv, NextIInv, InitQuestions, QuestionsStep, PTL DEF Spec

\* The keys of a question and those of an event that answers it agree on the
\* person asked or on the question's own message.
THEOREM OnlyTheAskedAnswer == Spec => []StrangersDontAnswer
<1>1. IInv /\ Questions => StrangersDontAnswer
  <2>. SUFFICES ASSUME IInv, Questions, NEW t \in TaskId, Answered(t)
                PROVE  LET asker == event[resume[t].task].actor
                           by    == event[t].actor
                       IN  /\ event[t].kind = "message"
                           /\ \/ by = asker
                              \/ PersonOf[by] = PersonOf[asker] /\ PersonOf[by] # None
                              \/ event[t].inReplyTo = resume[t].asked
    BY DEF StrangersDontAnswer, Answered
  <2>. DEFINE ev == event[t]
              to == event[resume[t].task]
              q  == resume[t].asked
  <2>1. KeyedBy(resume[t]) /\ \E i \in DOMAIN ResumeKeys(ev) : ResumeKeys(ev)[i] \in resume[t].keys
    BY DEF Questions, Keyed
  <2>2. PICK sent \in BOOLEAN : resume[t].keys = AskKeys(to, q, sent)
    BY <2>1 DEF KeyedBy
  <2>3. PICK i \in DOMAIN ResumeKeys(ev) : ResumeKeys(ev)[i] \in AskKeys(to, q, sent)
    BY <2>1, <2>2
  <2>4. ev.kind = "message"
    BY <2>3 DEF ResumeKeys
  <2>. DEFINE key == ResumeKeys(ev)[i]
  <2>. HIDE DEF ev, to, q
  <2>5. \/ key = ReplyKey(ev.inReplyTo)
        \/ key = ActorKey(ev.actor)
        \/ key = PersonKey(PersonOf[ev.actor]) /\ PersonOf[ev.actor] # None
    BY <2>3, <2>4 DEF ResumeKeys
  <2>6. \/ key = ReplyKey(q)
        \/ key = ActorKey(to.actor)
        \/ key = PersonKey(PersonOf[to.actor]) /\ PersonOf[to.actor] # None
    BY <2>3 DEF AskKeys
  <2>. HIDE DEF key
  <2>7. \/ ev.actor = to.actor
        \/ PersonOf[ev.actor] = PersonOf[to.actor] /\ PersonOf[ev.actor] # None
        \/ ev.inReplyTo = q
    BY <2>5, <2>6 DEF ReplyKey, ActorKey, PersonKey
  <2>. QED  BY <2>4, <2>7 DEF ev, to, q
<1>. QED  BY <1>1, InitIInv, NextIInv, InitQuestions, QuestionsStep, PTL DEF Spec

-----------------------------------------------------------------------------
(* Where a request waits *)

\* A question's task was accepted once and is neither queued nor worked on,
\* except by the Park that is about to remove it.  Tasks that a stop tore are
\* exempt, and a stop leaves no other task both parked and pending.
Homes ==
  /\ \A p \in Records : fate[p.task] \in {"accepted", "settled", "dropped"}
  /\ pc = "down" => /\ parked = {}
                    /\ \A f \in parkedFiles : f.task \in pendingFiles => f.task \in torn
  /\ pc = "parking" => /\ asking.task = current
                       /\ current \in torn \/ asking \in parkedFiles
  /\ \A p \in parked : p.task \notin torn =>
       /\ p.task \notin Queued
       /\ p.task = current => pc = "settling"

\* Both halves of the place invariant.
Placed == Homes /\ OneHome

\* The match half of Enqueue takes a question from both places or from the map
\* alone, and never the one being parked, unless it was torn.
LEMMA EnqueueMatchHomes ==
  ASSUME IInv, Placed, NEW ev \in Event, EnqueueMatch(ev)
  PROVE  Placed'
<1>. USE DEF Placed
<1>1. PICK S, T : /\ parked' = Without(parked, S) /\ parkedFiles' = Without(parkedFiles, T)
                  /\ T \subseteq S /\ T \subseteq {p.task : p \in parked}
  <2>1. Swept(ev) \subseteq {p.task : p \in parked}
    BY DEF Swept
  <2>2. CASE /\ parked' = Without(parked, Swept(ev))
             /\ parkedFiles' = Without(parkedFiles, Swept(ev))
    BY <2>1, <2>2
  <2>3. ASSUME NEW p \in parked,
               parked' = Without(parked, Swept(ev) \cup {p.task}),
               \/ parkedFiles' = Without(parkedFiles, Swept(ev) \cup {p.task})
               \/ parkedFiles' = Without(parkedFiles, Swept(ev))
        PROVE  \E S, T : /\ parked' = Without(parked, S) /\ parkedFiles' = Without(parkedFiles, T)
                         /\ T \subseteq S /\ T \subseteq {q.task : q \in parked}
    <3>1. Swept(ev) \cup {p.task} \subseteq {q.task : q \in parked}
      BY <2>1
    <3>2. CASE parkedFiles' = Without(parkedFiles, Swept(ev) \cup {p.task})
      BY <2>3, <3>1, <3>2
    <3>3. CASE parkedFiles' = Without(parkedFiles, Swept(ev))
      BY <2>1, <2>3, <3>3
    <3>. QED  BY <2>3, <3>2, <3>3
  <2>. QED  BY <2>2, <2>3 DEF EnqueueMatch
<1>2. /\ created + 1 \in TaskId /\ fate[created + 1] = "unborn"
      /\ fate' = [fate EXCEPT ![created + 1] = "enqueuing"]
      /\ UNCHANGED <<pendingFiles, pending, pc, current, asking, horizon, torn, leaked>>
      /\ pc # "down"
  BY ConstantsOK DEF EnqueueMatch, IInv, TypeOK, TaskId, Births, Up
<1>3. /\ Records' \subseteq Records /\ parked' \subseteq parked /\ Queued' = Queued
      /\ \A p \in parked' : p.task \notin T
  BY <1>1, <1>2 DEF Records, Without, Queued
<1>4. \A p \in Records' : fate'[p.task] = fate[p.task]
  <2>1. Records \subseteq Parked /\ fate \in [TaskId -> Fates]
    BY RecordsType DEF IInv, TypeOK
  <2>. QED  BY <1>2, <1>3, <2>1 DEF Homes, Parked
<1>5. pc = "parking" => current \in torn \/ asking \in parkedFiles'
  <2>. SUFFICES ASSUME pc = "parking", current \notin torn PROVE asking \in parkedFiles'
    OBVIOUS
  <2>1. asking.task = current /\ asking \in parkedFiles
    BY DEF Homes
  <2>2. current \notin T
    BY <1>1 DEF Homes
  <2>. QED  BY <1>1, <2>1, <2>2 DEF Without
<1>6. Homes'
  BY <1>2, <1>3, <1>4, <1>5 DEF Homes
<1>7. OneHome'
  <2>. SUFFICES ASSUME NEW p \in parked', p.task \notin torn
                PROVE  /\ p.task \in pendingFiles =>
                            p.task \in leaked \/ (p.task = current /\ pc = "settling")
                       /\ Fresh(p) => p \in parkedFiles'
    BY <1>2 DEF OneHome, Fresh
  <2>1. p \in parked /\ p.task \notin T
    BY <1>3
  <2>. QED  BY <1>1, <2>1 DEF OneHome, Without
<1>. QED  BY <1>6, <1>7

\* The rest of Enqueue touches a task no question is about.
LEMMA EnqueueEndHomes ==
  ASSUME IInv, Placed, EnqueueWrite \/ EnqueueFail
  PROVE  Placed'
<1>. USE DEF Placed
<1>1. /\ enqueuing \in TaskId /\ fate[enqueuing] = "enqueuing" /\ pc # "down"
      /\ fate \in [TaskId -> Fates]
      /\ UNCHANGED <<parkedFiles, parked, pc, current, asking, horizon, torn, leaked>>
  BY DEF EnqueueWrite, EnqueueFail, IInv, TypeOK, Births, Up
<1>2. /\ pendingFiles' \subseteq pendingFiles \cup {enqueuing}
      /\ Queued' \subseteq Queued \cup {enqueuing}
      /\ \/ fate' = [fate EXCEPT ![enqueuing] = "accepted"]
         \/ fate' = [fate EXCEPT ![enqueuing] = "refused"]
  BY QueueAfterWrite DEF EnqueueWrite, EnqueueFail, WriteTask, Queued
<1>3. Records' = Records /\ \A p \in Records : p.task \in TaskId /\ p.task # enqueuing
  <2>1. Records' = Records
    BY <1>1 DEF Records
  <2>. QED  BY <1>1, <2>1, RecordsType DEF Homes, Parked
<1>4. parked \subseteq Records
  BY DEF Records
<1>5. Homes'
  BY <1>1, <1>2, <1>3, <1>4 DEF Homes
<1>6. OneHome'
  BY <1>1, <1>2, <1>3, <1>4 DEF OneHome, Fresh
<1>. QED  BY <1>5, <1>6

\* The task Next hands out was queued, so no untorn question is about it.
LEMMA NextTakeHomes ==
  ASSUME IInv, Placed, NextTake
  PROVE  Placed'
<1>. USE DEF Placed
<1>1. /\ pc = "idle" /\ pc' = "running" /\ current' = Head(pending)
      /\ Head(pending) \in Queued /\ Queued' \subseteq Queued
      /\ pendingFiles' = pendingFiles
      /\ UNCHANGED <<parkedFiles, parked, asking, horizon, torn, leaked, fate>>
  <2>1. Head(pending) \in Queued /\ Queued' \subseteq Queued
    BY QueueAfterTake
  <2>. QED  BY <2>1 DEF NextTake, WriteTask, IInv, Files
<1>2. Records' \subseteq Records
  BY <1>1 DEF Records
<1>3. Homes'
  BY <1>1, <1>2 DEF Homes
<1>4. OneHome'
  BY <1>1 DEF OneHome, Fresh
<1>. QED  BY <1>3, <1>4

\* Park's write replaces a file of the current task, which no untorn question
\* in the map is about.
LEMMA ParkWriteHomes ==
  ASSUME IInv, Placed, NEW sent \in BOOLEAN, ParkWrite(sent)
  PROVE  Placed'
<1>. USE DEF Placed
<1>1. /\ pc = "running" /\ pc' = "parking"
      /\ asking'.task = current /\ asking' \in parkedFiles'
      /\ parkedFiles' = Without(parkedFiles, {current}) \cup {asking'}
      /\ UNCHANGED <<pendingFiles, pending, parked, current, horizon, fate, torn, leaked>>
  BY DEF ParkWrite
<1>2. fate[current] \in {"accepted", "settled", "dropped"}
  BY <1>1 DEF IInv, Shape, Files
<1>3. Records' \subseteq Records \cup {asking'} /\ Queued' = Queued
  BY <1>1 DEF Records, Without, Queued
<1>4. Homes'
  BY <1>1, <1>2, <1>3 DEF Homes
<1>5. OneHome'
  BY <1>1 DEF OneHome, Homes, Fresh, Without
<1>. QED  BY <1>4, <1>5

\* Park's insertion: the record is on disk already, and its task is with the
\* worker that is about to call Done.
LEMMA ParkInsertHomes ==
  ASSUME IInv, Placed, ParkInsert
  PROVE  Placed'
<1>. USE DEF Placed
<1>1. /\ pc = "parking" /\ pc' = "settling" /\ asking.task = current
      /\ parked' = Without(parked, {current}) \cup {asking}
      /\ UNCHANGED <<pendingFiles, pending, parkedFiles, current, horizon, fate, torn, leaked>>
      /\ current \notin Queued
  BY DEF ParkInsert, Homes, IInv, Shape, Files
<1>2. Records' \subseteq Records /\ parked' \subseteq parked \cup {asking} /\ Queued' = Queued
  BY <1>1 DEF Records, Without, Queued
<1>3. Homes'
  BY <1>1, <1>2 DEF Homes
<1>4. OneHome'
  BY <1>1, <1>2 DEF OneHome, Homes, Fresh
<1>. QED  BY <1>3, <1>4

\* Done removes the task, or marks it leaked; a turn that did not park has no
\* untorn question about its task.
LEMMA DoneHomes ==
  ASSUME IInv, Placed, Done
  PROVE  Placed'
<1>. USE DEF Placed
<1>1. /\ pc \in {"running", "settling"} /\ pc' = "idle" /\ current' = NoTask
      /\ current \in TaskId
      /\ fate \in [TaskId -> Fates]
      /\ fate' = [fate EXCEPT ![current] = "settled"]
      /\ \/ pendingFiles' = pendingFiles \ {current} /\ leaked' = leaked \ {current}
         \/ pendingFiles' = pendingFiles /\ leaked' = leaked \cup {current}
      /\ UNCHANGED <<pending, parkedFiles, parked, asking, horizon, torn>>
  BY DEF Done, IInv, TypeOK, Shape
<1>2. Records' \subseteq Records /\ Queued' = Queued
  BY <1>1 DEF Records, Queued
<1>3. \A p \in parked : p.task \in TaskId /\ p.task # NoTask
  BY DEF IInv, TypeOK, Parked, TaskId, NoTask
<1>4. Records \subseteq Parked
  BY RecordsType
<1>5. Homes'
  <2>1. \A p \in Records' : fate'[p.task] \in {"accepted", "settled", "dropped"}
    BY <1>1, <1>2, <1>4 DEF Homes, Parked
  <2>. QED  BY <1>1, <1>2, <1>3, <2>1 DEF Homes
<1>6. OneHome'
  BY <1>1 DEF OneHome, Fresh
<1>. QED  BY <1>5, <1>6

\* A stop empties the map and counts as torn whatever it catches in both
\* directories.
LEMMA LoseMemoryHomes ==
  ASSUME IInv, Placed, LoseMemory
  PROVE  Placed'
<1>. USE DEF Placed
<1>1. /\ pc' = "down" /\ parked' = {} /\ pendingFiles' = pendingFiles
      /\ parkedFiles' = parkedFiles
      /\ torn' = torn \cup ({f.task : f \in parkedFiles} \cap pendingFiles)
      /\ fate' = [t \in TaskId |-> IF fate[t] = "enqueuing" THEN "refused" ELSE fate[t]]
  BY DEF LoseMemory
<1>2. Records' \subseteq Records
  BY <1>1 DEF Records
<1>3. Records \subseteq Parked
  BY RecordsType
<1>4. Homes'
  BY <1>1, <1>2, <1>3 DEF Homes, Parked
<1>5. OneHome'
  BY <1>1 DEF OneHome
<1>. QED  BY <1>4, <1>5

\* Open takes the map from the directory; a task that is in both is torn.
LEMMA OpenHomes ==
  ASSUME IInv, Placed, Open
  PROVE  Placed'
<1>. USE DEF Placed
<1>. DEFINE kept == pendingFiles \ {t \in pendingFiles : Exhausted(t)}
<1>1. /\ pc = "down" /\ pc' = "idle" /\ current' = NoTask
      /\ pendingFiles' = kept /\ Queued' = kept
      /\ parked' = parkedFiles' /\ parkedFiles' \subseteq parkedFiles
      /\ torn' = torn
  BY QueueAfterOpen DEF Open, IInv, Shape
<1>2. fate' = [t \in TaskId |->
                 IF t \in {u \in pendingFiles : Exhausted(u)} /\ fate[t] = "accepted"
                 THEN "dropped" ELSE fate[t]]
  BY DEF Open
<1>3. Records' \subseteq Records /\ Records \subseteq Parked
  BY <1>1, RecordsType DEF Records
<1>4. \A p \in Records' : fate'[p.task] \in {"accepted", "settled", "dropped"}
  BY <1>2, <1>3 DEF Homes, Parked
<1>5. \A p \in parked' : p.task \in TaskId /\ p.task # NoTask
  BY <1>1 DEF IInv, TypeOK, Parked, TaskId, NoTask
<1>6. Homes'
  BY <1>1, <1>4, <1>5 DEF Homes
<1>7. OneHome'
  BY <1>1 DEF Homes, OneHome
<1>. QED  BY <1>6, <1>7

\* The other steps move no question and no task.
LEMMA PlacedStep == IInv /\ Placed /\ [Next]_vars => Placed'
<1>. SUFFICES ASSUME IInv, Placed, [Next]_vars PROVE Placed'
  OBVIOUS
<1>1. CASE UNCHANGED <<pendingFiles, pending, parkedFiles, parked, asking, pc, current, fate,
                       leaked, torn>>
           /\ horizon' \in Int /\ horizon <= horizon'
  <2>1. Records' = Records /\ Queued' = Queued
    BY <1>1 DEF Records, Queued
  <2>2. \A p \in parked : Fresh(p)' => Fresh(p)
    <3>1. horizon \in Int /\ \A p \in parked : p.asked \in Int
      BY DEF IInv, TypeOK, Parked, AskId
    <3>. QED  BY <1>1, <3>1 DEF Fresh
  <2>. QED  BY <1>1, <2>1, <2>2 DEF Placed, Homes, OneHome
<1>2. ASSUME NEW ev \in Event, EnqueueMatch(ev) PROVE Placed'
  BY <1>2, EnqueueMatchHomes
<1>3. CASE \E sent \in BOOLEAN : ParkWrite(sent)
  BY <1>3, ParkWriteHomes
<1>4. CASE NextEmpty \/ NextWake \/ NextStop \/ ParkFail
  <2>1. /\ pc \notin {"down", "settling", "parking"} /\ pc' \notin {"down", "parking"}
        /\ UNCHANGED <<pendingFiles, pending, parkedFiles, parked, current, fate, leaked,
                       torn, horizon>>
    BY <1>4 DEF NextEmpty, NextWake, NextStop, ParkFail
  <2>2. Records' \subseteq Records /\ Queued' = Queued
    BY <2>1 DEF Records, Queued
  <2>. QED  BY <2>1, <2>2 DEF Placed, Homes, OneHome, Fresh
<1>5. CASE ParkInsert
  BY <1>5, ParkInsertHomes
<1>6. CASE Crash \/ Exit
  BY <1>6, LoseMemoryHomes DEF Crash, Exit
<1>7. CASE Expire \/ Cancel \/ UNCHANGED vars
  <2>1. horizon' \in Int /\ horizon <= horizon'
    BY <1>7 DEF Expire, Cancel, vars, IInv, TypeOK
  <2>. QED  BY <1>1, <1>7, <2>1 DEF Expire, Cancel, vars
<1>. QED
  BY <1>2, <1>3, <1>4, <1>5, <1>6, <1>7, EnqueueEndHomes, NextTakeHomes, DoneHomes, OpenHomes
     DEF Next

\* A request waits in one place, as a question or as a task, and a question that
\* can still be answered survives a restart, unless a stop came between Park's
\* write and the removal of its task.
THEOREM RequestsHaveOneHome == Spec => []OneHome
<1>1. Init => Placed
  BY DEF Init, Placed, Homes, OneHome, Records
<1>2. Placed => OneHome
  BY DEF Placed
<1>. QED  BY <1>1, <1>2, InitIInv, NextIInv, PlacedStep, PTL DEF Spec

-----------------------------------------------------------------------------
(* Which question an event answers *)

\* Among questions there is always a latest one.
LEMMA LatestExists ==
  ASSUME NEW S \in SUBSET Parked, S # {}
  PROVE  \E p \in S : \A r \in S : r.asked <= p.asked
<1>. DEFINE ages == {MaxAsks - r.asked : r \in S}
<1>1. \A r \in S : MaxAsks - r.asked \in Nat /\ r.asked \in Int /\ MaxAsks \in Int
  BY ConstantsOK DEF Parked, AskId
<1>2. ages \subseteq Nat /\ ages # {}
  BY <1>1
<1>3. PICK m \in ages : \A k \in ages : m <= k
  <2>1. \E m \in ages : \A k \in ages : <<k, m>> \notin OpToRel(<, Nat)
    BY <1>2, NatLessThanWellFounded, WFMin
  <2>2. \A k, m \in Nat : <<k, m>> \notin OpToRel(<, Nat) => m <= k
    BY DEF OpToRel
  <2>. QED  BY <1>2, <2>1, <2>2
<1>4. PICK p \in S : m = MaxAsks - p.asked
  OBVIOUS
<1>5. ASSUME NEW r \in S PROVE r.asked <= p.asked
  <2>1. m <= MaxAsks - r.asked
    BY <1>3
  <2>. QED  BY <1>1, <1>4, <2>1
<1>. QED  BY <1>5

\* What AskKeys says of the key of each kind.
LEMMA KeysTell ==
  ASSUME IInv, Questions, NEW p \in parked
  PROVE  /\ \A n : ReplyKey(n) \in p.keys => n = p.asked
         /\ \A a : ActorKey(a) \in p.keys <=> a = event[p.task].actor
         /\ p.asked \in AskId /\ p \in Parked
<1>1. p \in Records /\ p \in Parked
  BY RecordsType DEF Records
<1>2. PICK sent \in BOOLEAN : p.keys = AskKeys(event[p.task], p.asked, sent)
  BY <1>1 DEF Questions, Keyed, KeyedBy
<1>3. \A n : ReplyKey(n) \in p.keys => n = p.asked
  BY <1>2 DEF AskKeys, ReplyKey, ActorKey, PersonKey
<1>4. \A a : ActorKey(a) \in p.keys <=> a = event[p.task].actor
  BY <1>2 DEF AskKeys, ReplyKey, ActorKey, PersonKey
<1>. QED  BY <1>1, <1>3, <1>4 DEF Parked

\* The first key of a message is that of the message it replies to, if any.
LEMMA FirstKey ==
  ASSUME NEW ev \in Event, ev.kind = "message"
  PROVE  LET keys == ResumeKeys(ev) IN
         /\ DOMAIN keys \subseteq Nat \ {0} /\ 1 \in DOMAIN keys
         /\ keys[1] = IF ev.inReplyTo = 0 THEN ActorKey(ev.actor) ELSE ReplyKey(ev.inReplyTo)
<1>. DEFINE person == IF PersonOf[ev.actor] = None THEN <<>> ELSE <<PersonKey(PersonOf[ev.actor])>>
<1>1. CASE ev.inReplyTo = 0
  <2>1. ResumeKeys(ev) = <<ActorKey(ev.actor)>> \o person
    BY <1>1 DEF ResumeKeys
  <2>. QED  BY <1>1, <2>1
<1>2. CASE ev.inReplyTo # 0
  <2>1. ResumeKeys(ev) = <<ReplyKey(ev.inReplyTo)>> \o <<ActorKey(ev.actor)>> \o person
    BY <1>2 DEF ResumeKeys
  <2>. QED  BY <1>2, <2>1
<1>. QED  BY <1>1, <1>2

\* A message with a fresh question under its first key takes the latest of them.
LEMMA FirstKeyDecides ==
  ASSUME IInv, Questions, NEW ev \in Event, EnqueueMatch(ev), ev.kind = "message",
         NEW p \in parked, Fresh(p), ResumeKeys(ev)[1] \in p.keys
  PROVE  \E q \in parked : /\ resume'[created + 1] = q /\ Fresh(q)
                           /\ ResumeKeys(ev)[1] \in q.keys /\ p.asked <= q.asked
<1>. DEFINE hits(i) == {r \in parked : Fresh(r) /\ ResumeKeys(ev)[i] \in r.keys}
<1>1. hits(1) \in SUBSET Parked /\ p \in hits(1)
  BY DEF IInv, TypeOK
<1>2. PICK top \in hits(1) : \A r \in hits(1) : r.asked <= top.asked
  BY <1>1, LatestExists
<1>3. Matches(ev, top)
  <2>0. 1 \in DOMAIN ResumeKeys(ev)
    BY FirstKey
  <2>1. \A j \in 1..(1 - 1) : hits(j) = {}
    OBVIOUS
  <2>. QED  BY <1>2, <2>0, <2>1 DEF Matches
<1>4. ~\A q \in parked : ~Matches(ev, q)
  BY <1>2, <1>3
<1>5. PICK q \in parked : Matches(ev, q) /\ resume' = [resume EXCEPT ![created + 1] = q]
  BY <1>4 DEF EnqueueMatch
<1>6. resume'[created + 1] = q
  BY <1>5, EnqueueMatchEffect DEF IInv, TypeOK
<1>7. PICK i \in DOMAIN ResumeKeys(ev) :
         q \in hits(i) /\ (\A j \in 1..(i - 1) : hits(j) = {}) /\ \A r \in hits(i) : r.asked <= q.asked
  BY <1>5 DEF Matches
<1>8. i = 1
  <2>1. i \in Nat \ {0}
    BY FirstKey
  <2>2. ~(1 \in 1..(i - 1))
    BY <1>1, <1>7
  <2>. QED  BY <2>1, <2>2
<1>. QED  BY <1>1, <1>6, <1>7, <1>8

\* A reply to the message of a question that still waits answers that question,
\* and without a reply the latest question put to the account is answered
\* (queue.go:157).
THEOREM AnswersFindQuestions == Spec => AnswerFindsQuestion
<1>. DEFINE toAccount(r, t) == event[r.task].actor = event'[t].actor
            Found(t, p) ==
              (enqueuing' = t /\ enqueuing # t /\ event'[t].kind = "message" /\ Fresh(p)) =>
                /\ ReplyKey(event'[t].inReplyTo) \in p.keys => resume'[t] = p
                /\ (event'[t].inReplyTo = 0 /\ toAccount(p, t)) =>
                     /\ resume'[t] # None
                     /\ toAccount(resume'[t], t) /\ resume'[t].asked >= p.asked
            Step == \A t \in TaskId, p \in parked : Found(t, p)
<1>1. ASSUME IInv, Questions, NEW ev \in Event, EnqueueMatch(ev),
             NEW t \in TaskId, NEW p \in parked
      PROVE  Found(t, p)
  <2>. SUFFICES ASSUME t = created + 1, ev.kind = "message", Fresh(p), event'[t] = ev
                PROVE  /\ ReplyKey(ev.inReplyTo) \in p.keys => resume'[t] = p
                       /\ (ev.inReplyTo = 0 /\ event[p.task].actor = ev.actor) =>
                            /\ resume'[t] # None
                            /\ event[resume'[t].task].actor = ev.actor
                            /\ resume'[t].asked >= p.asked
    <3>1. enqueuing' = created + 1 /\ created + 1 \in TaskId /\ event'[created + 1] = ev
      BY <1>1, EnqueueMatchEffect DEF EnqueueMatch, IInv, TypeOK
    <3>. QED  BY <3>1
  <2>1. \A r \in parked : /\ \A n : ReplyKey(n) \in r.keys => n = r.asked
                          /\ \A a : ActorKey(a) \in r.keys <=> a = event[r.task].actor
                          /\ r.asked \in AskId /\ r \in Parked
    BY <1>1, KeysTell
  <2>2. ASSUME ReplyKey(ev.inReplyTo) \in p.keys PROVE resume'[t] = p
    <3>1. ev.inReplyTo = p.asked /\ ev.inReplyTo # 0
      BY <2>1, <2>2 DEF AskId
    <3>2. ResumeKeys(ev)[1] = ReplyKey(p.asked)
      BY <3>1, FirstKey
    <3>3. PICK q \in parked : resume'[t] = q /\ ResumeKeys(ev)[1] \in q.keys
      BY <1>1, <2>2, <3>1, <3>2, FirstKeyDecides
    <3>4. p.asked = q.asked
      BY <2>1, <3>2, <3>3
    <3>5. p \in Records /\ q \in Records
      BY DEF Records
    <3>. QED  BY <1>1, <3>3, <3>4, <3>5 DEF Questions, AskedOnce
  <2>3. ASSUME ev.inReplyTo = 0, event[p.task].actor = ev.actor
        PROVE  /\ resume'[t] # None /\ event[resume'[t].task].actor = ev.actor
               /\ resume'[t].asked >= p.asked
    <3>1. ResumeKeys(ev)[1] = ActorKey(ev.actor) /\ ActorKey(ev.actor) \in p.keys
      BY <2>1, <2>3, FirstKey
    <3>2. PICK q \in parked : /\ resume'[t] = q /\ ResumeKeys(ev)[1] \in q.keys
                              /\ p.asked <= q.asked
      BY <1>1, <3>1, FirstKeyDecides
    <3>3. q \in Parked /\ q.asked \in Int /\ p.asked \in Int
      BY <2>1 DEF AskId
    <3>. QED  BY <2>1, <3>1, <3>2, <3>3, NoRecord
  <2>. QED  BY <2>2, <2>3
<1>2. IInv /\ Questions /\ [Next]_vars => [Step]_vars
  <2>. SUFFICES ASSUME IInv, Questions, Next, NEW t \in TaskId, NEW p \in parked
                PROVE  Found(t, p)
    OBVIOUS
  <2>1. ASSUME NEW ev \in Event, EnqueueMatch(ev) PROVE Found(t, p)
    BY <1>1, <2>1
  <2>2. CASE enqueuing' \in {enqueuing, NoTask}
    BY <2>2 DEF TaskId, NoTask
  <2>3. CASE EnqueueWrite \/ EnqueueFail \/ NextTake \/ NextEmpty \/ NextWake \/ NextStop
    BY <2>2, <2>3 DEF EnqueueWrite, EnqueueFail, NextTake, NextEmpty, NextWake, NextStop
  <2>4. CASE (\E sent \in BOOLEAN : ParkWrite(sent)) \/ ParkFail \/ ParkInsert \/ Done
    BY <2>2, <2>4 DEF ParkWrite, ParkFail, ParkInsert, Done
  <2>5. CASE Expire \/ Crash \/ Cancel \/ Exit \/ Open
    BY <2>2, <2>5 DEF Expire, Crash, Cancel, Exit, LoseMemory, Open
  <2>. QED  BY <2>1, <2>3, <2>4, <2>5 DEF Next
<1>. QED
  BY <1>2, InitIInv, NextIInv, InitQuestions, QuestionsStep, PTL DEF Spec, AnswerFindsQuestion

-----------------------------------------------------------------------------
(* The runtime as a client of the queue *)

\* Every step of a turn is a step of the queue or leaves the queue alone.
LEMMA StepsOfTheQueue ==
  ASSUME [RuntimeNext]_runtimeVars
  PROVE  [Next]_vars
<1>1. CASE UNCHANGED runtimeVars
  BY <1>1 DEF runtimeVars
<1>2. CASE BeginTurn
  BY <1>2 DEF BeginTurn, Next
<1>3. ASSUME NEW r \in {"text", ""}, Finish(r) PROVE UNCHANGED vars
  BY <1>3 DEF Finish, vars
<1>4. CASE Question \/ Deliver \/ Record
  BY <1>4 DEF Question, Deliver, Record, vars
<1>5. CASE EndTurn
  BY <1>5 DEF EndTurn, Next
<1>6. CASE ParkTurn
  BY <1>6 DEF ParkTurn, Next
<1>7. ASSUME NEW ev \in Event, Write(ev) PROVE Next
  BY <1>7 DEF Write, Next
<1>8. CASE Around
  BY <1>8 DEF Around, Next
<1>9. CASE End
  BY <1>9 DEF End, Next
<1>. QED
  BY <1>1, <1>2, <1>3, <1>4, <1>5, <1>6, <1>7, <1>8, <1>9 DEF RuntimeNext

\* The runtime keeps to the protocol of the queue: Next, then one Done or one
\* Park, in runtime.go's run (runtime.go:100-109).
THEOREM RuntimeKeepsProtocol == RuntimeSpec => ImplementsTaskQueue
<1>1. RuntimeInit => Init
  BY DEF RuntimeInit
<1>. QED
  BY <1>1, StepsOfTheQueue, PTL DEF RuntimeSpec, Spec, ImplementsTaskQueue

\* So with the runtime as the worker an accepted task is on disk until its
\* turn is over ("Next leaves the task on disk until Done or Park",
\* queue.go:181).
THEOREM RuntimeKeepsTasks == RuntimeSpec => [](AcceptedOnDisk /\ NotStranded)
BY RuntimeKeepsProtocol, AcceptedStayOnDisk, NothingStranded, PTL DEF ImplementsTaskQueue

\* And a question is answered once, by somebody who was asked, and about the
\* request it was asked for (askApproval, Park and Enqueue).
THEOREM RuntimeKeepsQuestions ==
  RuntimeSpec => [](OneAnswer /\ RequestIsOriginal /\ StrangersDontAnswer /\ OneHome)
BY RuntimeKeepsProtocol, AnsweredByOne, RequestsAreOriginal, OnlyTheAskedAnswer,
   RequestsHaveOneHome, PTL DEF ImplementsTaskQueue

-----------------------------------------------------------------------------
(* Nobody is left without a word *)

\* What is known of the task in hand, by how far its turn is.
TurnSoFar ==
  /\ replies \in [TaskId -> Nat] /\ recorded \in [TaskId -> Nat]
  /\ phase # "none" => pc = "running"
  /\ phase = "asked" => current \in questioned
  /\ pc \in {"parking", "settling"} => current \in questioned
  /\ pc = "parking" => asking.task \in questioned
  /\ phase \in {"delivered", "recorded"} =>
       replies[current] > 0 \/ current \in silent \cup unsent
  /\ phase = "recorded" => recorded[current] > 0

Told == TurnSoFar /\ SettledIsAnswered /\ WaitingWasAsked

\* A counter that is kept, or counted up for one task, loses nothing.
LEMMA CountedUp ==
  ASSUME NEW f \in [TaskId -> Nat], NEW t \in TaskId, NEW g,
         g = f \/ g = [f EXCEPT ![t] = f[t] + 1]
  PROVE  /\ g \in [TaskId -> Nat]
         /\ \A u \in TaskId : f[u] > 0 => g[u] > 0
         /\ g = [f EXCEPT ![t] = f[t] + 1] => g[t] > 0
<1>1. CASE g = f
  BY <1>1
<1>2. CASE g = [f EXCEPT ![t] = f[t] + 1]
  <2>1. g \in [TaskId -> Nat] /\ g[t] = f[t] + 1 /\ f[t] \in Nat
    BY <1>2
  <2>2. \A u \in TaskId \ {t} : g[u] = f[u]
    BY <1>2
  <2>. QED  BY <2>1, <2>2
<1>3. g = [f EXCEPT ![t] = f[t] + 1] => g[t] > 0
  BY <1>2
<1>. QED  BY <1>1, <1>2, <1>3

USE DEF vars, disk, memory, process, content, time, history, turn, outcomes

\* The steps inside a turn.
LEMMA TurnStep ==
  ASSUME IInv, Told,
         \/ Question \/ Deliver \/ Record
         \/ \E r \in {"text", ""} : Finish(r)
  PROVE  Told'
<1>1. pc = "running" /\ current \in TaskId /\ UNCHANGED vars
  BY DEF Question, Deliver, Record, Finish, IInv, TypeOK, Shape
<1>2. /\ replies' \in [TaskId -> Nat] /\ recorded' \in [TaskId -> Nat]
      /\ \A t \in TaskId : /\ replies[t] > 0 => replies'[t] > 0
                           /\ recorded[t] > 0 => recorded'[t] > 0
      /\ replies' = [replies EXCEPT ![current] = replies[current] + 1] => replies'[current] > 0
  <2>1. replies' = replies \/ replies' = [replies EXCEPT ![current] = replies[current] + 1]
    BY DEF Question, Deliver, Record, Finish
  <2>2. recorded' = recorded \/ recorded' = [recorded EXCEPT ![current] = recorded[current] + 1]
    BY DEF Question, Deliver, Record, Finish
  <2>3. replies \in [TaskId -> Nat] /\ recorded \in [TaskId -> Nat]
    BY DEF Told, TurnSoFar
  <2>. QED  BY <1>1, <2>1, <2>2, <2>3, CountedUp
<1>3. SettledIsAnswered' /\ WaitingWasAsked'
  <2>1. questioned \subseteq questioned' /\ silent \cup unsent \subseteq silent' \cup unsent'
    BY DEF Question, Deliver, Record, Finish
  <2>2. fate' = fate /\ parked' = parked /\ parkedFiles' = parkedFiles
    BY <1>1
  <2>3. SettledIsAnswered'
    BY <1>2, <2>1, <2>2 DEF Told, SettledIsAnswered
  <2>4. WaitingWasAsked'
    BY <2>1, <2>2 DEF Told, WaitingWasAsked
  <2>. QED  BY <2>3, <2>4
<1>4. TurnSoFar'
  <2>1. CASE Question
    BY <1>1, <1>2, <2>1 DEF Question, Told, TurnSoFar
  <2>2. CASE Deliver
    <3>1. /\ phase' = "delivered" /\ UNCHANGED <<vars, recorded, questioned>>
      BY <2>2 DEF Deliver
    <3>2. replies'[current] > 0 \/ current \in silent' \cup unsent'
      BY <1>2, <2>2 DEF Deliver
    <3>. QED  BY <1>1, <1>2, <3>1, <3>2 DEF Told, TurnSoFar
  <2>3. CASE Record
    BY <1>1, <1>2, <2>3 DEF Record, Told, TurnSoFar
  <2>4. ASSUME NEW r \in {"text", ""}, Finish(r) PROVE TurnSoFar'
    BY <1>1, <1>2, <2>4 DEF Finish, Told, TurnSoFar
  <2>. QED  BY <2>1, <2>2, <2>3, <2>4
<1>. QED  BY <1>3, <1>4 DEF Told

\* Done ends a turn only when the exchange is recorded, or Park has failed
\* after the question was sent.
LEMMA EndTurnStep ==
  ASSUME IInv, Told, EndTurn
  PROVE  Told'
<1>1. /\ current \in TaskId /\ fate' = [fate EXCEPT ![current] = "settled"]
      /\ pc' = "idle" /\ phase' = "none" /\ UNCHANGED <<parkedFiles, parked, outcomes>>
  BY DEF EndTurn, Done, IInv, TypeOK, Shape
<1>2. current \in questioned
        \/ (recorded[current] > 0 /\ (replies[current] > 0 \/ current \in silent \cup unsent))
  BY DEF EndTurn, Told, TurnSoFar
<1>3. SettledIsAnswered'
  BY <1>1, <1>2 DEF Told, SettledIsAnswered, IInv, TypeOK
<1>4. TurnSoFar' /\ WaitingWasAsked'
  BY <1>1 DEF Told, TurnSoFar, WaitingWasAsked
<1>. QED  BY <1>3, <1>4 DEF Told

\* Park writes a record of the question that was sent, and nothing else.
LEMMA ParkTurnStep ==
  ASSUME IInv, Told, ParkTurn
  PROVE  Told'
<1>1. current \in questioned /\ phase' = "none"
  BY DEF ParkTurn, Told, TurnSoFar
<1>2. UNCHANGED <<current, fate, parked, outcomes>>
  BY DEF ParkTurn, ParkFail, ParkWrite
<1>3. CASE ParkFail
  BY <1>1, <1>2, <1>3 DEF ParkFail, Told, TurnSoFar, SettledIsAnswered, WaitingWasAsked
<1>4. ASSUME NEW sent \in BOOLEAN, ParkWrite(sent) PROVE Told'
  <2>1. /\ asking'.task = current /\ pc' = "parking"
        /\ parkedFiles' = Without(parkedFiles, {current}) \cup {asking'}
    BY <1>4 DEF ParkWrite
  <2>. QED
    BY <1>1, <1>2, <2>1
    DEF Told, TurnSoFar, SettledIsAnswered, WaitingWasAsked, Without
<1>. QED  BY <1>3, <1>4 DEF ParkTurn

\* The next turn begins with nothing said.
LEMMA BeginTurnStep ==
  ASSUME IInv, Told, BeginTurn
  PROVE  Told'
BY DEF BeginTurn, NextTake, Told, TurnSoFar, SettledIsAnswered, WaitingWasAsked

\* A message that comes in settles nothing and asks nothing.
LEMMA WriteStep ==
  ASSUME IInv, Told, NEW ev \in Event, Write(ev)
  PROVE  Told'
<1>1. /\ UNCHANGED <<process, turn, outcomes>>
      /\ fate' = [fate EXCEPT ![created + 1] = "enqueuing"]
  BY DEF Write, EnqueueMatch
<1>2. parked' \subseteq parked /\ parkedFiles' \subseteq parkedFiles
  BY DEF Write, EnqueueMatch, Without
<1>. QED
  BY <1>1, <1>2 DEF Told, TurnSoFar, SettledIsAnswered, WaitingWasAsked, IInv, TypeOK

\* Nor does anything else that goes on around a turn.
LEMMA AroundStep ==
  ASSUME IInv, Told, Around
  PROVE  Told'
<1>. USE DEF Told, TurnSoFar, SettledIsAnswered, WaitingWasAsked
<1>1. CASE EnqueueWrite \/ EnqueueFail
  <2>1. UNCHANGED <<process, turn, outcomes, parked, parkedFiles>>
    BY <1>1 DEF Around, EnqueueWrite, EnqueueFail
  <2>2. \A t \in TaskId : fate'[t] = "settled" => fate[t] = "settled"
    BY <1>1 DEF EnqueueWrite, EnqueueFail, IInv, TypeOK
  <2>. QED  BY <2>1, <2>2
<1>2. CASE NextEmpty \/ NextWake \/ NextStop \/ Expire \/ Cancel
  <2>1. /\ UNCHANGED <<current, asking, turn, outcomes, parked, parkedFiles, fate>>
        /\ pc' = pc \/ (phase = "none" /\ pc' \in {"idle", "waiting", "stopped"})
    BY <1>2 DEF Around, NextEmpty, NextWake, NextStop, Expire, Cancel
  <2>. QED  BY <2>1
<1>3. CASE ParkInsert
  BY <1>3 DEF Around, ParkInsert, Without
<1>4. CASE Open
  <2>1. /\ UNCHANGED <<current, asking, turn, outcomes>>
        /\ parked' \subseteq parkedFiles /\ parkedFiles' \subseteq parkedFiles
        /\ pc = "down" /\ pc' = "idle"
    BY <1>4 DEF Around, Open
  <2>2. \A t \in TaskId : fate'[t] = "settled" => fate[t] = "settled"
    BY <1>4 DEF Open
  <2>. QED  BY <2>1, <2>2
<1>. QED  BY <1>1, <1>2, <1>3, <1>4 DEF Around

\* The end of the process ends the turn and changes nothing that was said.
LEMMA EndStep ==
  ASSUME IInv, Told, End
  PROVE  Told'
<1>1. /\ parked' = {} /\ UNCHANGED parkedFiles /\ pc' = "down" /\ phase' = "none"
      /\ fate' = [t \in TaskId |-> IF fate[t] = "enqueuing" THEN "refused" ELSE fate[t]]
      /\ UNCHANGED <<replies, recorded, questioned, silent, unsent>>
  BY DEF End, Crash, Exit, LoseMemory
<1>. QED
  BY <1>1 DEF Told, TurnSoFar, SettledIsAnswered, WaitingWasAsked

-----------------------------------------------------------------------------

\* The two invariants together are inductive.
LEMMA ToldInductive ==
  ASSUME IInv, Told, [RuntimeNext]_runtimeVars
  PROVE  Told'
<1>1. CASE UNCHANGED runtimeVars
  BY <1>1 DEF runtimeVars, Told, TurnSoFar, SettledIsAnswered, WaitingWasAsked
<1>. QED
  BY <1>1, TurnStep, EndTurnStep, ParkTurnStep, BeginTurnStep, WriteStep, AroundStep, EndStep
  DEF RuntimeNext

\* At the start nothing is settled and nothing waits.
LEMMA ToldInitially == RuntimeInit => Told
BY DEF RuntimeInit, Init, Told, TurnSoFar, SettledIsAnswered, WaitingWasAsked

\* No task is settled in silence, and no question waits that was not sent
\* (runtime.go:100-109).
THEOREM NobodyLeftWithoutAWord == RuntimeSpec => []NobodyLeftOut
<1>1. RuntimeInit => Init
  BY DEF RuntimeInit
<1>2. Told => NobodyLeftOut
  BY DEF Told, NobodyLeftOut
<1>. QED
  BY <1>1, <1>2, ToldInitially, ToldInductive, StepsOfTheQueue, InitIInv, NextIInv, PTL
  DEF RuntimeSpec

-----------------------------------------------------------------------------
(* The answer is read once *)

\* A turn sends at most one reply; a task that waits for a turn, in the queue
\* or on the disk of a process that ended, has a reply already only if such an
\* end exposed it.
OnceEach ==
  /\ phase # "none" => pc = "running"
  /\ replies \in [TaskId -> Nat]
  /\ phase \in {"working", "asked", "finished"} =>
       /\ replies[current] < runs[current]
       /\ replies[current] > 0 => current \in exposed
  /\ \A t \in Queued : replies[t] > 0 => t \in exposed
  /\ pc = "down" => \A t \in pendingFiles : replies[t] > 0 => t \in exposed

\* The runs and replies of a task are numbers.
LEMMA NumbersOfTasks ==
  ASSUME IInv, OnceEach
  PROVE  \A t \in TaskId : runs[t] \in Nat /\ replies[t] \in Nat
BY DEF IInv, TypeOK, OnceEach

\* A reply goes out in its turn only.
LEMMA DeliverOnce ==
  ASSUME IInv, OnceEach, AnsweredOnce, Deliver
  PROVE  OnceEach' /\ AnsweredOnce'
<1>1. /\ pc = "running" /\ phase = "finished" /\ phase' = "delivered" /\ current \in TaskId
      /\ current \notin Queued
      /\ UNCHANGED <<vars, exposed>>
  BY DEF Deliver, IInv, TypeOK, Shape, Files
<1>2. replies' = replies \/ replies' = [replies EXCEPT ![current] = replies[current] + 1]
  BY DEF Deliver
<1>3. \A t \in TaskId : runs[t] \in Nat /\ replies[t] \in Nat
  BY NumbersOfTasks
<1>4. Queued' = Queued
  BY <1>1 DEF Queued
<1>5. CASE replies' = replies
  BY <1>1, <1>4, <1>5 DEF OnceEach, AnsweredOnce
<1>6. CASE replies' = [replies EXCEPT ![current] = replies[current] + 1]
  <2>1. /\ replies' \in [TaskId -> Nat] /\ replies'[current] = replies[current] + 1
        /\ \A t \in TaskId : t # current => replies'[t] = replies[t]
    BY <1>1, <1>3, <1>6 DEF OnceEach
  <2>2. replies[current] < runs[current] /\ (replies[current] > 0 => current \in exposed)
    BY <1>1 DEF OnceEach
  <2>3. AnsweredOnce'
    <3>. SUFFICES ASSUME NEW t \in TaskId
                  PROVE  replies'[t] <= runs[t] /\ (replies'[t] > 1 => t \in exposed)
      BY <1>1 DEF AnsweredOnce
    <3>1. CASE t = current
      BY <1>1, <1>3, <2>1, <2>2, <3>1
    <3>2. CASE t # current
      BY <2>1, <3>2 DEF AnsweredOnce
    <3>. QED  BY <3>1, <3>2
  <2>4. \A t \in Queued : replies'[t] = replies[t]
    BY <1>1, <2>1 DEF IInv, Files, TypeOK
  <2>5. OnceEach'
    BY <1>1, <1>4, <2>1, <2>4 DEF OnceEach
  <2>. QED  BY <2>3, <2>5
<1>. QED  BY <1>2, <1>5, <1>6

\* A new turn is one more that may reply.
LEMMA BeginTurnOnce ==
  ASSUME IInv, OnceEach, AnsweredOnce, BeginTurn
  PROVE  OnceEach' /\ AnsweredOnce'
<1>. DEFINE h == Head(pending)
<1>1. h \in TaskId /\ h \in Queued /\ Queued' = Queued \ {h}
  BY QueueAfterTake DEF BeginTurn
<1>2. /\ pc' = "running" /\ phase' = "working" /\ current' = h
      /\ runs' = [runs EXCEPT ![h] = runs[h] + 1]
      /\ UNCHANGED outcomes
  BY DEF BeginTurn, NextTake
<1>. HIDE DEF h
<1>3. \A t \in TaskId : runs[t] \in Nat /\ replies[t] \in Nat
  BY NumbersOfTasks
<1>4. runs'[h] = runs[h] + 1 /\ \A t \in TaskId : t # h => runs'[t] = runs[t]
  BY <1>1, <1>2 DEF IInv, TypeOK
<1>5. AnsweredOnce'
  <2>. SUFFICES ASSUME NEW t \in TaskId
                PROVE  replies[t] <= runs'[t] /\ (replies[t] > 1 => t \in exposed)
    BY <1>2 DEF AnsweredOnce
  <2>1. replies[t] <= runs[t] /\ (replies[t] > 1 => t \in exposed)
    BY DEF AnsweredOnce
  <2>2. runs'[t] = runs[t] \/ runs'[t] = runs[t] + 1
    BY <1>4
  <2>. QED  BY <1>3, <2>1, <2>2
<1>6. OnceEach'
  <2>1. replies[h] < runs'[h]
    BY <1>1, <1>3, <1>4 DEF AnsweredOnce
  <2>2. replies[h] > 0 => h \in exposed
    BY <1>1 DEF OnceEach
  <2>. QED  BY <1>1, <1>2, <2>1, <2>2 DEF OnceEach
<1>. QED  BY <1>5, <1>6

\* A task that enters the queue by Enqueue never had a turn, and one that
\* enters it by Open was on the disk of a process that ended.
LEMMA AroundOnce ==
  ASSUME IInv, Counts, OnceEach, AnsweredOnce, Around
  PROVE  OnceEach' /\ AnsweredOnce'
<1>1. UNCHANGED <<runs, turn, outcomes>>
  BY DEF Around, EnqueueWrite, EnqueueFail, NextEmpty, NextWake, NextStop, ParkInsert, Expire,
         Cancel, Open
<1>2. AnsweredOnce'
  BY <1>1 DEF AnsweredOnce
<1>3. CASE EnqueueWrite
  <2>1. /\ enqueuing \in TaskId /\ fate[enqueuing] = "enqueuing"
        /\ Queued' = Queued \cup {enqueuing} /\ pc # "down" /\ UNCHANGED <<pc, current>>
    BY <1>3, QueueAfterWrite DEF EnqueueWrite, Up
  <2>2. ~(replies[enqueuing] > 0)
    <3>1. runs[enqueuing] = 0 /\ replies[enqueuing] \in Nat
      BY <2>1, NumbersOfTasks DEF Counts
    <3>2. replies[enqueuing] <= runs[enqueuing]
      BY <2>1 DEF AnsweredOnce
    <3>. QED  BY <3>1, <3>2
  <2>. QED  BY <1>1, <1>2, <2>1, <2>2 DEF OnceEach
<1>4. CASE Open
  <2>1. /\ Queued' = pendingFiles' /\ pendingFiles' \subseteq pendingFiles
        /\ pc = "down" /\ pc' = "idle"
    BY <1>4, QueueAfterOpen DEF Open
  <2>. QED  BY <1>1, <1>2, <2>1 DEF OnceEach
<1>5. CASE EnqueueFail \/ NextEmpty \/ NextWake \/ NextStop \/ ParkInsert \/ Expire \/ Cancel
  <2>1. /\ UNCHANGED <<pendingFiles, pending, current>>
        /\ pc' = pc \/ (pc # "running" /\ pc' # "down")
    BY <1>5 DEF EnqueueFail, NextEmpty, NextWake, NextStop, ParkInsert, Expire, Cancel
  <2>2. Queued' = Queued
    BY <2>1 DEF Queued
  <2>. QED  BY <1>1, <1>2, <2>1, <2>2 DEF OnceEach
<1>. QED  BY <1>3, <1>4, <1>5 DEF Around

\* The other steps send no reply and queue no task.
LEMMA OnceInductive ==
  ASSUME IInv, Counts, OnceEach, AnsweredOnce, [RuntimeNext]_runtimeVars
  PROVE  OnceEach' /\ AnsweredOnce'
<1>1. CASE UNCHANGED runtimeVars
  BY <1>1 DEF runtimeVars, OnceEach, AnsweredOnce, Queued
<1>2. CASE (\E r \in {"text", ""} : Finish(r)) \/ Question \/ Record
  <2>1. /\ phase \in {"working", "delivered"} /\ UNCHANGED <<vars, replies, exposed>>
        /\ phase = "delivered" => phase' = "recorded"
        /\ phase' # "none" => pc' = "running"
    BY <1>2 DEF Finish, Question, Record
  <2>2. Queued' = Queued
    BY <2>1 DEF Queued
  <2>. QED  BY <2>1, <2>2 DEF OnceEach, AnsweredOnce
<1>3. CASE EndTurn \/ ParkTurn
  <2>1. /\ pc # "down" /\ pc' # "down" /\ phase' = "none"
        /\ UNCHANGED <<pending, runs, outcomes>>
    BY <1>3 DEF EndTurn, Done, ParkTurn, ParkFail, ParkWrite
  <2>2. Queued' = Queued
    BY <2>1 DEF Queued
  <2>. QED  BY <2>1, <2>2 DEF OnceEach, AnsweredOnce
<1>4. ASSUME NEW ev \in Event, Write(ev) PROVE OnceEach' /\ AnsweredOnce'
  <2>1. UNCHANGED <<pendingFiles, pending, process, runs, turn, outcomes>>
    BY <1>4 DEF Write, EnqueueMatch
  <2>2. Queued' = Queued
    BY <2>1 DEF Queued
  <2>. QED  BY <2>1, <2>2 DEF OnceEach, AnsweredOnce
<1>5. CASE End
  <2>1. /\ Queued' = {} /\ phase' = "none" /\ pc' = "down"
        /\ UNCHANGED <<pendingFiles, runs, replies>>
        /\ exposed' = exposed \cup {t \in pendingFiles : replies[t] > 0}
    BY <1>5 DEF End, Crash, Exit, LoseMemory, Queued
  <2>. QED  BY <2>1 DEF OnceEach, AnsweredOnce
<1>. QED
  BY <1>1, <1>2, <1>3, <1>4, <1>5, DeliverOnce, BeginTurnOnce, AroundOnce DEF RuntimeNext

\* The user reads the answer to a message once, unless a process ended between
\* the reply and Done, and never more often than the task had turns
\* (runtime.go:100-109).
THEOREM AnswersAreReadOnce == RuntimeSpec => []AnsweredOnce
<1>1. RuntimeInit => Init /\ Counts /\ OnceEach /\ AnsweredOnce
  BY ConstantsOK DEF RuntimeInit, Init, Counts, OnceEach, AnsweredOnce, Queued
<1>. QED
  BY <1>1, OnceInductive, StepsOfTheQueue, InitIInv, NextIInv, CountsStep, PTL DEF RuntimeSpec
===============================================================================
