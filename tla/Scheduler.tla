------------------------------ MODULE Scheduler ------------------------------
(***************************************************************************)
(* internal/scheduler: reminders (one-shots on a timer) and recurring jobs *)
(* (on the cron runner), kept in a map under one mutex and in one file per *)
(* job.  Three parties meet there: the agent's tool calls, one at a time;  *)
(* the goroutine of each timer that goes off; and the source's Run, which  *)
(* loads the files at boot.  None of them holds the mutex from end to end. *)
(*                                                                         *)
(* A job is its version, the number of the edit that made it, and the time *)
(* it is set for.  Recurring jobs, set for no time, may go off whenever    *)
(* the cron runner runs.                                                   *)
(***************************************************************************)
EXTENDS Integers, Sequences, FiniteSets

CONSTANTS
  Id,          \* job ids
  MaxTime,     \* bound: latest time a job can be set for
  MaxVersions, \* bound: edits of one job
  MaxRings,    \* bound: fires of one job when recurring
  MaxStops,    \* bound: crashes and shutdowns
  MaxFaults,   \* bound: failed file operations
  None

Recurring == 0
Job  == [at : 0..MaxTime, version : 1..MaxVersions]
Late == MaxTime + 2  \* the clock stops here

\* A fire call and a call of the agent that are under way.
Fire == [id : Id, step : {"read", "emit", "clean", "delete"},
         job : Job \cup {None}, cron : BOOLEAN]
Call == [kind : {"create", "update", "cancel"}, id : Id,
         job : Job \cup {None}, step : {"save", "schedule", "undo", "delete"}]

ASSUME SchedulerConstants ==
  /\ MaxTime \in Nat /\ MaxVersions \in Nat \ {0} /\ MaxRings \in Nat
  /\ MaxStops \in Nat /\ MaxFaults \in Nat
  /\ None \notin Job \cup Call \cup 0..MaxTime

VARIABLES
  files,    \* the job in each id's file, or None
  jobs,     \* JobManager.jobs
  entries,  \* JobManager.entries: the time of the entry, or None
  armed,    \* timers and cron entries that can still go off
  source,   \* "down", "booting", "loading", "on" (emit is set), "off"
  loading,  \* what LoadAll read and Load has not been through
  loadedAt, \* Load's `now'
  fires,    \* fire calls under way
  op,       \* the agent's call under way
  now, stops, faults,
  \* history
  versions, \* edits of each job so far
  told,     \* the job the agent was last told stands
  cancelled,\* jobs Cancel reported gone
  rings,    \* what each job emitted, and when
  missed,   \* one-shots that came due while the source was stopped
  halfway,  \* jobs whose last call failed or was cut off between two steps
  crossed,  \* jobs edited while a fire of theirs was under way
  raced     \* jobs edited or cancelled between LoadAll and their turn in Load

store   == <<files>>
manager == <<jobs, entries, armed>>
run     == <<source, loading, loadedAt>>
history == <<versions, told, cancelled, rings, missed, halfway>>
watched == <<crossed, raced>>
vars == <<store, manager, run, fires, op, now, stops, faults, history, watched>>

Up == source # "down"

Fault   == faults < MaxFaults /\ faults' = faults + 1
NoFault == UNCHANGED faults

SaveFile(id, j) == files' = [files EXCEPT ![id] = j]
DeleteFile(id)  == files' = [files EXCEPT ![id] = None]

Init ==
  /\ files = [i \in Id |-> None]
  /\ jobs = [i \in Id |-> None] /\ entries = [i \in Id |-> None] /\ armed = {}
  /\ source = "booting" /\ loading = {} /\ loadedAt = 0
  /\ fires = {} /\ op = None /\ now = 1 /\ stops = 0 /\ faults = 0
  /\ versions = [i \in Id |-> 0] /\ told = [i \in Id |-> None]
  /\ cancelled = {} /\ rings = [i \in Id |-> <<>>] /\ missed = {}
  /\ halfway = {} /\ crossed = {} /\ raced = {}

-----------------------------------------------------------------------------
(* schedule *)

\* prev.cancel(): stops a timer that has not gone off; a fire under way goes on.
Disarmed(id) == {e \in armed : e.id # id}

\* Mutant: a time that has passed is as good as any.
PassedNever(j, t) == FALSE

Passed(j, t) == j.at # Recurring /\ j.at < t

\* schedule, which takes the previous entry away before it looks at the time.
ScheduleOk(id, j) ==
  /\ ~Passed(j, now)
  /\ armed' = Disarmed(id) \cup {[id |-> id, at |-> j.at]}
  /\ entries' = [entries EXCEPT ![id] = j.at]
  /\ jobs' = [jobs EXCEPT ![id] = j]

ScheduleRefused(id, j) ==
  /\ Passed(j, now)
  /\ armed' = Disarmed(id)
  /\ entries' = [entries EXCEPT ![id] = None]
  /\ UNCHANGED jobs

-----------------------------------------------------------------------------
(* The agent's calls *)

Begin(kind, id, j, step) == op' = [kind |-> kind, id |-> id, job |-> j, step |-> step]
At(kind, step) == Up /\ op # None /\ op.kind = kind /\ op.step = step
Return == op' = None

\* The record of each job that says what was promised.
Tell(id, j) == told' = [told EXCEPT ![id] = j]

\* Create: validate, then Save.  A failed Save is the error returned.
Create(id, at) ==
  /\ Up /\ op = None
  /\ versions[id] = 0
  /\ versions' = [versions EXCEPT ![id] = 1]
  /\ LET j == [at |-> at, version |-> 1] IN
       \/ SaveFile(id, j) /\ NoFault /\ Begin("create", id, j, "schedule")
       \/ Fault /\ UNCHANGED <<files, op>>
  /\ UNCHANGED <<manager, run, fires, now, stops, told, cancelled, rings, missed, halfway>>

CreateSchedule ==
  /\ At("create", "schedule")
  /\ \/ /\ ScheduleOk(op.id, op.job)
        /\ Tell(op.id, op.job)
        /\ Return
     \/ /\ ScheduleRefused(op.id, op.job)
        /\ Begin("create", op.id, op.job, "undo")
        /\ UNCHANGED told
  /\ UNCHANGED <<store, run, fires, now, stops, faults, versions, cancelled, rings, missed, halfway>>

CreateUndo ==
  /\ At("create", "undo")
  /\ \/ DeleteFile(op.id) /\ NoFault
     \/ Fault /\ UNCHANGED files
  /\ Return
  /\ UNCHANGED <<manager, run, fires, now, stops, history>>

\* Update reads the job under the lock and releases it.
Update(id, at) ==
  /\ Up /\ op = None
  /\ jobs[id] # None /\ versions[id] < MaxVersions
  /\ versions' = [versions EXCEPT ![id] = @ + 1]
  /\ Begin("update", id, [at |-> at, version |-> versions[id] + 1], "save")
  /\ UNCHANGED <<store, manager, run, fires, now, stops, faults, told, cancelled, rings, missed, halfway>>

\* Mutant: the change is made in memory only.
UpdateUnsaved ==
  /\ At("update", "save")
  /\ Begin("update", op.id, op.job, "schedule")
  /\ UNCHANGED <<store, manager, run, fires, now, stops, faults, history>>

\* Mutant: only the file is changed.
UpdateSaveOnly ==
  /\ At("update", "save")
  /\ SaveFile(op.id, op.job) /\ Tell(op.id, op.job)
  /\ Return
  /\ UNCHANGED <<manager, run, fires, now, stops, faults, versions, cancelled, rings, missed, halfway>>

UpdateSave ==
  /\ At("update", "save")
  /\ \/ /\ SaveFile(op.id, op.job) /\ NoFault
        /\ Begin("update", op.id, op.job, "schedule")
     \/ Fault /\ Return /\ UNCHANGED files
  /\ UNCHANGED <<manager, run, fires, now, stops, history>>

UpdateSchedule ==
  /\ At("update", "schedule")
  /\ \/ ScheduleOk(op.id, op.job) /\ Tell(op.id, op.job) /\ UNCHANGED halfway
     \/ /\ ScheduleRefused(op.id, op.job)
        /\ halfway' = halfway \cup {op.id}
        /\ UNCHANGED told
  /\ Return
  /\ UNCHANGED <<store, run, fires, now, stops, faults, versions, cancelled, rings, missed>>

\* Mutant: only the timer is stopped.
ForgottenNot(id) == jobs

Forgotten(id) == [jobs EXCEPT ![id] = None]

\* Cancel takes the job out of memory when it has an entry ...
Cancel(id) ==
  /\ Up /\ op = None
  /\ versions[id] > 0 /\ id \notin cancelled
  /\ \/ /\ entries[id] # None
        /\ armed' = Disarmed(id)
        /\ entries' = [entries EXCEPT ![id] = None]
        /\ jobs' = Forgotten(id)
     \/ entries[id] = None /\ UNCHANGED manager
  /\ Begin("cancel", id, None, "delete")
  /\ UNCHANGED <<store, run, fires, now, stops, faults, history>>

\* ... and then deletes its file, in any case.
CancelDelete ==
  /\ At("cancel", "delete")
  /\ \/ /\ DeleteFile(op.id) /\ NoFault
        /\ Tell(op.id, None)
        /\ cancelled' = cancelled \cup {op.id}
        /\ UNCHANGED halfway
     \/ /\ Fault
        /\ halfway' = halfway \cup {op.id}
        /\ UNCHANGED <<files, told, cancelled>>
  /\ Return
  /\ UNCHANGED <<manager, run, fires, now, stops, versions, rings, missed>>

-----------------------------------------------------------------------------
(* fire *)

\* A timer that is due starts its goroutine and is spent; the cron runner
\* starts one as often as it likes, from when Run starts it.
GoOff(e) ==
  /\ Up
  /\ [id |-> e.id, step |-> "read", job |-> None, cron |-> e.at = Recurring] \notin fires
  /\ \/ /\ e.at = Recurring /\ source = "on"
        /\ Len(rings[e.id]) < MaxRings
        /\ UNCHANGED armed
     \/ e.at # Recurring /\ e.at < now /\ armed' = armed \ {e}
  /\ fires' = fires \cup {[id |-> e.id, step |-> "read", job |-> None, cron |-> e.at = Recurring]}
  /\ UNCHANGED <<store, jobs, entries, run, op, now, stops, faults, history>>

Move(f, step, j) == fires' = (fires \ {f}) \cup {[f EXCEPT !.step = step, !.job = j]}
End(f) == fires' = fires \ {f}

\* fire reads the job and emit under the lock.
FireRead(f) ==
  /\ f.step = "read"
  /\ \/ jobs[f.id] = None /\ End(f) /\ UNCHANGED missed
     \/ jobs[f.id] # None /\ source = "on" /\ Move(f, "emit", jobs[f.id]) /\ UNCHANGED missed
     \/ /\ jobs[f.id] # None /\ source # "on"
        /\ End(f)
        /\ missed' = missed \cup {f.id}
  /\ UNCHANGED <<store, manager, run, op, now, stops, faults, versions, told,
                 cancelled, rings, halfway>>

\* It emits the copy without the lock.
FireEmit(f) ==
  /\ f.step = "emit"
  /\ rings' = [rings EXCEPT ![f.id] = Append(@, [job |-> f.job, time |-> now])]
  /\ told' = [told EXCEPT ![f.id] = IF @ = f.job /\ f.job.at # Recurring THEN None ELSE @]
  /\ Move(f, "clean", f.job)
  /\ UNCHANGED <<store, manager, run, op, now, stops, faults, versions, cancelled,
                 missed, halfway>>

Spent(j) == j.at # Recurring

\* A one-shot's id leaves memory, whatever is there by now ...
FireClean(f) ==
  /\ f.step = "clean"
  /\ \/ ~Spent(f.job) /\ End(f) /\ UNCHANGED manager
     \/ /\ Spent(f.job)
        /\ armed' = Disarmed(f.id)
        /\ entries' = [entries EXCEPT ![f.id] = None]
        /\ jobs' = Forgotten(f.id)
        /\ Move(f, "delete", f.job)
  /\ UNCHANGED <<store, run, op, now, stops, faults, history>>

\* ... and then its file goes.
FireDelete(f) ==
  /\ f.step = "delete"
  /\ End(f)
  /\ \/ DeleteFile(f.id) /\ NoFault
     \/ Fault /\ UNCHANGED files
  /\ UNCHANGED <<manager, run, op, now, stops, history>>

-----------------------------------------------------------------------------
(* Run and Load, crashes and restarts *)

LoadAll ==
  /\ source = "booting"
  /\ loading' = {[id |-> i, job |-> files[i]] : i \in {k \in Id : files[k] # None}}
  /\ loadedAt' = now
  /\ source' = "loading"
  /\ UNCHANGED <<store, manager, fires, op, now, stops, faults, history>>

\* Load's loop: a missed one-shot is deleted, anything else is scheduled; when
\* that is refused its file stays.
LoadOne(x) ==
  /\ source = "loading"
  /\ loading' = loading \ {x}
  /\ \/ /\ Passed(x.job, loadedAt)
        /\ missed' = missed \cup {x.id}
        /\ \/ DeleteFile(x.id) /\ NoFault
           \/ Fault /\ UNCHANGED files
        /\ UNCHANGED manager
     \/ /\ ~Passed(x.job, loadedAt)
        /\ \/ ScheduleOk(x.id, x.job) /\ UNCHANGED missed
           \/ ScheduleRefused(x.id, x.job) /\ missed' = missed \cup {x.id}
        /\ UNCHANGED <<files, faults>>
  /\ UNCHANGED <<source, loadedAt, fires, op, now, stops, versions, told,
                 cancelled, rings, halfway>>

\* Run sets emit and starts the cron runner.
Start ==
  /\ source = "loading" /\ loading = {}
  /\ source' = "on"
  /\ UNCHANGED <<store, manager, loading, loadedAt, fires, op, now, stops, faults, history>>

\* The context is cancelled: cron.Stop waits for the jobs it runs, then emit
\* is taken away.
Stop ==
  /\ source = "on" /\ stops < MaxStops
  /\ \A f \in fires : ~f.cron
  /\ source' = "off"
  /\ stops' = stops + 1
  /\ UNCHANGED <<store, manager, loading, loadedAt, fires, op, now, faults, history>>

\* The process ends, at the end of a shutdown or any other time.
Crash ==
  /\ Up
  /\ \/ source = "off" /\ UNCHANGED stops
     \/ stops < MaxStops /\ stops' = stops + 1
  /\ source' = "down"
  /\ jobs' = [i \in Id |-> None] /\ entries' = [i \in Id |-> None] /\ armed' = {}
  /\ loading' = {} /\ fires' = {} /\ op' = None
  /\ halfway' = halfway \cup {i \in Id : op # None /\ op.id = i}
  /\ UNCHANGED <<store, loadedAt, now, faults, versions, told, cancelled, rings, missed>>

\* The container is started again, which takes time.
Boot ==
  /\ source = "down"
  /\ source' = "booting"
  /\ now' = IF now < Late THEN now + 1 ELSE now
  /\ UNCHANGED <<store, manager, loading, loadedAt, fires, op, stops, faults, history>>

Tick ==
  /\ now < Late /\ now' = now + 1
  /\ UNCHANGED <<store, manager, run, fires, op, stops, faults, history>>

\* History: a fire that will delete, or may still read, the job that a call is
\* editing; and a call on a job that Load holds an older copy of.
Watch ==
  /\ crossed' = crossed \cup {i \in Id :
       /\ op # None /\ op.kind = "update" /\ op.id = i
       /\ \E f \in fires : f.id = i /\ (f.step = "read" \/ f.job.at # Recurring)}
  /\ raced' = raced \cup {i \in Id :
       /\ op # None /\ op.id = i
       /\ \E x \in loading : x.id = i}

Next ==
  /\ \/ \E i \in Id, at \in 0..MaxTime : Create(i, at) \/ Update(i, at)
     \/ CreateSchedule \/ CreateUndo \/ UpdateSave \/ UpdateSchedule
     \/ \E i \in Id : Cancel(i)
     \/ CancelDelete
     \/ \E e \in armed : GoOff(e)
     \/ \E f \in fires : FireRead(f) \/ FireEmit(f) \/ FireClean(f) \/ FireDelete(f)
     \/ LoadAll \/ (\E x \in loading : LoadOne(x)) \/ Start
     \/ Stop \/ Crash \/ Boot \/ Tick
  /\ Watch

Spec == Init /\ [][Next]_vars

\* Time passes, timers go off, goroutines and calls run on, a stopped process
\* is started again.  Nobody has to call anything.
Fairness ==
  /\ WF_vars(Tick /\ Watch)
  /\ WF_vars((CreateSchedule \/ CreateUndo \/ UpdateSave \/ UpdateSchedule \/ CancelDelete) /\ Watch)
  /\ \A i \in Id :
       /\ WF_vars((\E e \in armed : e.id = i /\ e.at # Recurring /\ GoOff(e)) /\ Watch)
       /\ WF_vars((\E f \in fires : f.id = i /\ (FireRead(f) \/ FireEmit(f) \/ FireClean(f) \/ FireDelete(f))) /\ Watch)
  /\ WF_vars((LoadAll \/ (\E x \in loading : LoadOne(x)) \/ Start \/ Boot) /\ Watch)
  /\ WF_vars(source = "off" /\ Crash /\ Watch)

FairSpec == Spec /\ Fairness

-----------------------------------------------------------------------------
(* Properties *)

\* The shape of the state.
TypeOK ==
  /\ files \in [Id -> Job \cup {None}] /\ jobs \in [Id -> Job \cup {None}]
  /\ entries \in [Id -> 0..MaxTime \cup {None}]
  /\ armed \subseteq [id : Id, at : 0..MaxTime]
  /\ source \in {"down", "booting", "loading", "on", "off"}
  /\ loading \subseteq [id : Id, job : Job] /\ loadedAt \in 0..Late
  /\ fires \subseteq Fire /\ op \in Call \cup {None}
  /\ now \in 1..Late /\ stops \in 0..MaxStops /\ faults \in 0..MaxFaults
  /\ versions \in [Id -> 0..MaxVersions] /\ told \in [Id -> Job \cup {None}]
  /\ cancelled \subseteq Id
  /\ rings \in [Id -> Seq([job : Job, time : 1..Late])]
  /\ missed \subseteq Id /\ halfway \subseteq Id /\ crossed \subseteq Id /\ raced \subseteq Id

\* The agent is not in the middle of a call about i.
Settled(i) == op = None \/ op.id # i

\* The jobs whose edits overlapped neither a fire of theirs nor Load, and those
\* of them that no failure or stopped source caught either.  Each exception is
\* needed: the race or failure it names does break the properties below.
Orderly == Id \ (crossed \cup raced)
Smooth  == Orderly \ (halfway \cup missed)

\* What the agent was told stands is on disk, so that it survives a restart;
\* and while the source runs it is in memory too, with a timer that will go off
\* or a fire that has not got to it yet.
PromiseKept ==
  \A i \in Smooth :
    Settled(i) /\ told[i] # None =>
      /\ files[i] = told[i]
      /\ source = "on" =>
           /\ jobs[i] = told[i]
           /\ \/ [id |-> i, at |-> told[i].at] \in armed
              \/ \E f \in fires : f.id = i /\ f.step \in {"read", "emit"}

\* A one-shot is emitted once, although the process may end between the
\* emission and the removal of its file and read that file again; and not
\* early, although a change may replace a timer that goes off at that moment.
RingsOnceInTime ==
  \A i \in Orderly : \A n \in DOMAIN rings[i] :
    rings[i][n].job.at # Recurring =>
      /\ rings[i][n].job.at < rings[i][n].time
      /\ \A m \in DOMAIN rings[i] \ {n} : rings[i][m].job # rings[i][n].job

\* What Cancel reported gone does not come back, in memory or from disk
\* (Cancel forgets only a job that has an entry: hence Smooth).
CancelIsFinal ==
  \A i \in cancelled \cap Smooth : jobs[i] = None /\ files[i] = None

\* Every reminder that stands goes off, is changed or cancelled, or comes to
\* grief in one of the ways the history names.
EveryReminderRings ==
  \A i \in Id : \A j \in Job :
    told[i] = j /\ j.at # Recurring
      ~> told[i] # j \/ i \notin Smooth

\* "Update edits a pending job in place, keeping its id so the reminder the
\* user already knows about stays the same reminder" (jobs.go:163): once
\* Update has returned it, it is there until it goes off.
UpdateStays ==
  \A i \in Id \ (halfway \cup raced \cup missed) :
    source = "on" /\ Settled(i) /\ told[i] # None => jobs[i] = told[i]

\* "a bad change must leave the existing reminder running rather than drop it"
\* (jobs.go:175).
BadChangeHarmless ==
  \A i \in Id \ (crossed \cup raced \cup missed) :
    source = "on" /\ stops = 0 /\ faults = 0 /\ Settled(i) /\ told[i] # None =>
      \/ [id |-> i, at |-> told[i].at] \in armed
      \/ \E f \in fires : f.id = i

\* "cancelled <id>" (servers/reminders/server.go:292) is what the user reads.
CancelledIsGone == \A i \in cancelled : jobs[i] = None
=============================================================================
