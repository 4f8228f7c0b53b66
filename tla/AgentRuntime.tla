---------------------------- MODULE AgentRuntime ----------------------------
(***************************************************************************)
(* internal/agent, runtime.go: what the worker does with the tasks of the  *)
(* queue.  A turn either sends a question and parks, or comes to a reply,  *)
(* which is delivered, recorded in the session and only then taken off the *)
(* queue's disk.  The process may end between any two of these steps, and  *)
(* users may write between any two of them.                                *)
(*                                                                         *)
(* TaskQueue is the queue; what a turn does before it comes to a reply or  *)
(* a question is AgentLoop's.                                              *)
(***************************************************************************)
EXTENDS TaskQueue

VARIABLES
  phase,       \* how far run is with the task in hand
  reply,       \* Turn.Reply: "text", or "" for the empty one
  doomed,      \* the main context was cancelled before the turn began
  \* history
  replies,     \* replies that were sent, by task
  recorded,    \* exchanges that were recorded, by task
  questioned,  \* tasks that have sent a question
  silent,      \* tasks that a turn with an empty reply has finished
  cancelledBy, \* ... because the process was stopping
  unsent,      \* tasks whose reply could not be sent
  exposed      \* tasks on disk at the end of a process that had sent a reply to them

turn    == <<phase, reply, doomed>>
outcomes == <<replies, recorded, questioned, silent, cancelledBy, unsent, exposed>>
runtimeVars == <<vars, turn, outcomes>>

RuntimeInit ==
  /\ Init
  /\ phase = "none" /\ reply = None /\ doomed = FALSE
  /\ replies = [t \in TaskId |-> 0] /\ recorded = [t \in TaskId |-> 0]
  /\ questioned = {} /\ silent = {} /\ cancelledBy = {} /\ unsent = {} /\ exposed = {}

-----------------------------------------------------------------------------
(* run, called by the worker with each task *)

\* Next hands a task out, and its turn begins: also when the main context has
\* been cancelled, for Next looks at the queue first.
BeginTurn ==
  /\ NextTake
  /\ phase' = "working" /\ doomed' = cancelled
  /\ UNCHANGED <<reply, outcomes>>

\* strategy.Handle comes to a reply or to none.  With a cancelled context the
\* model cannot be asked and there is none.
Finish(r) ==
  /\ pc = "running" /\ phase = "working"
  /\ r = "text" => ~doomed
  /\ reply' = r
  /\ phase' = "finished"
  /\ UNCHANGED <<vars, doomed, outcomes>>

\* strategy.Handle has sent a question: Await is set.
Question ==
  /\ pc = "running" /\ phase = "working" /\ ~doomed /\ asks < MaxAsks
  /\ phase' = "asked"
  /\ questioned' = questioned \cup {current}
  /\ UNCHANGED <<vars, reply, doomed, replies, recorded, silent, cancelledBy, unsent, exposed>>

\* Mutant: a send is tried again when it has worked.
DeliverAgain ==
  /\ pc = "running" /\ phase = "finished"
  /\ reply = "text" /\ replies[current] < 2
  /\ replies' = [replies EXCEPT ![current] = @ + 1]
  /\ phase' \in {"finished", "delivered"}
  /\ UNCHANGED <<vars, reply, doomed, recorded, questioned, silent, cancelledBy, unsent, exposed>>

\* deliver: a reply is sent, once, and a failure is only logged.  An empty
\* reply leaves a mark on the user's message.
Deliver ==
  /\ pc = "running" /\ phase = "finished"
  /\ phase' = "delivered"
  /\ \/ /\ reply = "text"
        /\ replies' = [replies EXCEPT ![current] = @ + 1]
        /\ UNCHANGED <<silent, cancelledBy, unsent>>
     \/ /\ reply = "text"
        /\ unsent' = unsent \cup {current}
        /\ UNCHANGED <<replies, silent, cancelledBy>>
     \/ /\ reply = ""
        /\ silent' = silent \cup {current}
        /\ cancelledBy' = cancelledBy \cup {t \in {current} : cancelled}
        /\ UNCHANGED <<replies, unsent>>
  /\ UNCHANGED vars
  /\ UNCHANGED <<reply, doomed, recorded, questioned, exposed>>

\* Mutant: the task's file goes with the record, before Done.
RecordAndRemove ==
  /\ pc = "running" /\ phase = "delivered"
  /\ phase' = "recorded"
  /\ recorded' = [recorded EXCEPT ![current] = @ + 1]
  /\ pendingFiles' = pendingFiles \ {current}
  /\ UNCHANGED <<attempts, parkedFiles, memory, process, content, time, stops, faults, history>>
  /\ UNCHANGED <<reply, doomed, replies, questioned, silent, cancelledBy, unsent, exposed>>

\* The exchange goes into the person's session.
Record ==
  /\ pc = "running" /\ phase = "delivered"
  /\ phase' = "recorded"
  /\ recorded' = [recorded EXCEPT ![current] = @ + 1]
  /\ UNCHANGED <<vars, reply, doomed, replies, questioned, silent, cancelledBy, unsent, exposed>>

\* Mutant: the task is done before the reply goes out.
EndTurnEarly ==
  /\ pc = "running" /\ phase \in {"finished", "recorded"} /\ Done
  /\ phase' = "none" /\ reply' = None /\ doomed' = FALSE
  /\ UNCHANGED outcomes

\* Done, after all of it, or after the write of Park that failed.
EndTurn ==
  /\ \/ pc = "running" /\ phase = "recorded"
     \/ pc = "settling"
  /\ Done
  /\ phase' = "none" /\ reply' = None /\ doomed' = FALSE
  /\ UNCHANGED outcomes

\* park, when the question has been sent.
ParkTurn ==
  /\ pc = "running" /\ phase = "asked"
  /\ ParkFail \/ \E sent \in BOOLEAN : ParkWrite(sent)
  /\ phase' = "none"
  /\ UNCHANGED <<reply, doomed, outcomes>>

-----------------------------------------------------------------------------
(* The rest of the queue and of the world *)

\* A user can reply to a question from the moment it is sent.
Write(ev) ==
  /\ ev.inReplyTo <= IF phase = "asked" THEN asks + 1 ELSE asks
  /\ EnqueueMatch(ev)
  /\ UNCHANGED <<turn, outcomes>>

\* What leaves a turn alone.
Around ==
  /\ \/ EnqueueWrite \/ EnqueueFail \/ NextEmpty \/ NextWake \/ NextStop
     \/ ParkInsert \/ Expire \/ Cancel \/ Open
  /\ UNCHANGED <<turn, outcomes>>

\* The process ends, and the turn in it.
End ==
  /\ Crash \/ Exit
  /\ phase' = "none" /\ reply' = None /\ doomed' = FALSE
  /\ exposed' = exposed \cup {t \in pendingFiles : replies[t] > 0}
  /\ UNCHANGED <<replies, recorded, questioned, silent, cancelledBy, unsent>>

RuntimeNext ==
  \/ BeginTurn \/ Question \/ Deliver \/ Record \/ EndTurn \/ ParkTurn
  \/ \E r \in {"text", ""} : Finish(r)
  \/ \E ev \in Event : Write(ev)
  \/ Around \/ End

RuntimeSpec == RuntimeInit /\ [][RuntimeNext]_runtimeVars

\* The worker and an Enqueue under way run on: a turn has a deadline.  A
\* cancelled process exits and the container is restarted (docker-compose.yml:
\* restart: unless-stopped).  Nothing makes a user write, a file operation fail
\* or the process crash.
Fairness ==
  /\ WF_runtimeVars(EnqueueWrite /\ Around)
  /\ WF_runtimeVars(BeginTurn) /\ WF_runtimeVars(\E r \in {"text", ""} : Finish(r))
  /\ WF_runtimeVars(Deliver) /\ WF_runtimeVars(Record)
  /\ WF_runtimeVars(EndTurn) /\ WF_runtimeVars(ParkTurn)
  /\ WF_runtimeVars((NextEmpty \/ NextWake \/ ParkInsert) /\ Around)
  /\ WF_runtimeVars(Exit /\ End) /\ WF_runtimeVars(Open /\ Around)

FairRuntimeSpec == RuntimeSpec /\ Fairness

-----------------------------------------------------------------------------
(* Properties *)

\* The shape of the state, and which phases go with which of the worker's.
RuntimeTypeOK ==
  /\ TypeOK
  /\ phase \in {"none", "working", "asked", "finished", "delivered", "recorded"}
  /\ phase # "none" <=> pc = "running"
  /\ reply \in {None, "text", ""} /\ doomed \in BOOLEAN
  /\ reply # None <=> phase \in {"finished", "delivered", "recorded"}
  /\ replies \in [TaskId -> Nat] /\ recorded \in [TaskId -> Nat]
  /\ questioned \subseteq TaskId /\ silent \subseteq TaskId /\ cancelledBy \subseteq silent
  /\ unsent \subseteq TaskId /\ exposed \subseteq TaskId

\* A task is settled only when the user has heard of it, by a reply or a
\* question or, if the turn failed, by its mark, and the exchange is in the
\* session; except for a reply that could not be sent.
SettledIsAnswered ==
  \A t \in TaskId :
    fate[t] = "settled" =>
      t \in questioned \/ (recorded[t] > 0 /\ (replies[t] > 0 \/ t \in silent \cup unsent))

\* The user reads the answer to a message once.  A second one takes a process
\* that ended, with the task still on disk, after the first was sent; and there
\* are never more than the task had turns.
AnsweredOnce ==
  \A t \in TaskId : replies[t] <= runs[t] /\ (replies[t] > 1 => t \in exposed)

\* Every question that waits was sent to its user.
WaitingWasAsked == \A p \in parked \cup parkedFiles : p.task \in questioned

\* The two together: nobody is left without a word, and nobody is waited for
\* who does not know it (runtime.go:100-109).
NobodyLeftOut == SettledIsAnswered /\ WaitingWasAsked

\* The worker uses the queue as the queue's specification allows.
ImplementsTaskQueue == Spec

\* "resumes when the user answers" (servers/user/server.go:68): a question is
\* not left waiting by the reply to its own message.
ReplyResumes ==
  \A p \in parked, t \in TaskId :
    fate[t] \in {"accepted", "settled"} => event[t].inReplyTo # p.asked

\* "Persist memory, scheduled jobs, and queued tasks across restarts."
\* (docker-compose.yml:8): stopping the process does not use up a task.
StopKeepsTasks ==
  \A t \in cancelledBy : fate[t] # "settled"
=============================================================================
