---------------------------- MODULE SchedulerProofs ----------------------------
(***************************************************************************)
(* Proofs about Scheduler: jobs ring once and in time, what was promised   *)
(* stands, what was cancelled is gone.  The first part says what each step *)
(* does (the Effect lemmas) and what that is for one job (the Here lemmas);*)
(* the second is the invariant, one operator per part, each of one job;    *)
(* the third shows each part kept by every step, and draws the theorems.   *)
(***************************************************************************)
EXTENDS Scheduler, SequenceTheorems, TLAPS

-----------------------------------------------------------------------------
(* The shape of the state *)

\* The agent is in a call of one of these kinds about i.
OnOp(i, kinds) == op # None /\ op.id = i /\ op.kind \in kinds
Edits == {"create", "update"}
OneShot(j) == j.at # Recurring

\* Calls and fires hold a job where their step needs one; what a stopped
\* process held is gone, and before Run is on nothing is emitted.
Shapes ==
  /\ \A f \in fires : (f.step = "read" <=> f.job = None) /\ (f.step = "delete" => OneShot(f.job))
  /\ op # None =>
       /\ op.kind = "create" => op.step \in {"schedule", "undo"}
       /\ op.kind = "update" => op.step \in {"save", "schedule"}
       /\ op.kind = "cancel" => op.step = "delete"
       /\ op.kind \in Edits => op.job # None /\ op.job.version = versions[op.id]
  /\ ~Up => fires = {} /\ op = None /\ armed = {} /\ \A i \in Id : jobs[i] = None
  /\ source # "loading" => loading = {}
  /\ source \in {"booting", "loading"} => \A f \in fires : f.step = "read" /\ ~f.cron
  /\ loadedAt <= now
  /\ \A x, y \in loading : x.id = y.id => x = y

\* What Begin makes is a call, ...
LEMMA BeginType ==
  ASSUME NEW kind \in {"create", "update", "cancel"}, NEW i \in Id, NEW j \in Job \cup {None},
         NEW step \in {"save", "schedule", "undo", "delete"}, Begin(kind, i, j, step)
  PROVE  /\ op' \in Call /\ op' # None
         /\ op'.kind = kind /\ op'.id = i /\ op'.job = j /\ op'.step = step
BY SchedulerConstants DEF Begin, Call

\* ... and what Move makes is a fire.
LEMMA MoveEffect ==
  ASSUME NEW f \in Fire, NEW step \in {"read", "emit", "clean", "delete"}, NEW j \in Job \cup {None},
         Move(f, step, j)
  PROVE  \E g \in Fire : /\ fires' = (fires \ {f}) \cup {g}
                         /\ g.id = f.id /\ g.step = step /\ g.job = j /\ g.cron = f.cron
<1>. DEFINE g == [f EXCEPT !.step = step, !.job = j]
<1>1. g \in Fire /\ g.id = f.id /\ g.step = step /\ g.job = j /\ g.cron = f.cron
  BY DEF Fire
<1>2. fires' = (fires \ {f}) \cup {g}
  BY DEF Move
<1>. QED  BY <1>1, <1>2

-----------------------------------------------------------------------------
(* What the steps do *)

\* Whose job is scheduled has that entry, and no other.
LEMMA ScheduleOkEffect ==
  ASSUME TypeOK, NEW i \in Id, NEW j \in Job, ScheduleOk(i, j)
  PROVE  /\ OneShot(j) => now <= j.at
         /\ jobs' = [jobs EXCEPT ![i] = j] /\ entries' = [entries EXCEPT ![i] = j.at]
         /\ jobs' \in [Id -> Job \cup {None}] /\ entries' \in [Id -> 0..MaxTime \cup {None}]
         /\ armed' \subseteq [id : Id, at : 0..MaxTime]
         /\ [id |-> i, at |-> j.at] \in armed'
         /\ \A e \in armed' : (e.id = i /\ e.at = j.at) \/ (e.id # i /\ e \in armed)
         /\ \A e \in armed : e.id # i => e \in armed'
<1>1. j.at \in 0..MaxTime /\ now \in Int /\ MaxTime \in Int
  BY SchedulerConstants DEF Job, TypeOK, Late
<1>2. [id |-> i, at |-> j.at] \in [id : Id, at : 0..MaxTime]
  BY <1>1
<1>. QED  BY <1>1, <1>2 DEF ScheduleOk, Passed, Disarmed, OneShot, TypeOK

\* Whose job is refused has none.
LEMMA ScheduleRefusedEffect ==
  ASSUME TypeOK, NEW i \in Id, NEW j \in Job, ScheduleRefused(i, j)
  PROVE  /\ OneShot(j) /\ j.at < now /\ UNCHANGED jobs
         /\ entries' = [entries EXCEPT ![i] = None]
         /\ entries' \in [Id -> 0..MaxTime \cup {None}]
         /\ armed' \subseteq armed
         /\ \A e \in armed' : e.id # i
         /\ \A e \in armed : e.id # i => e \in armed'
BY DEF ScheduleRefused, Passed, Disarmed, OneShot, TypeOK

\* The agent's calls.
LEMMA CreateEffect ==
  ASSUME TypeOK, NEW i \in Id, NEW at \in 0..MaxTime, Create(i, at)
  PROVE  /\ Up /\ op = None /\ versions[i] = 0
         /\ UNCHANGED <<jobs, entries, armed, source, loading, loadedAt, fires, now, stops, told,
                        cancelled, rings, missed, halfway>>
         /\ versions' = [versions EXCEPT ![i] = 1]
         /\ \/ /\ op' \in Call /\ op' # None /\ op'.kind = "create" /\ op'.step = "schedule"
               /\ op'.id = i /\ op'.job \in Job /\ op'.job.version = 1
               /\ files' = [files EXCEPT ![i] = op'.job]
            \/ UNCHANGED <<files, op>>
         /\ faults' \in 0..MaxFaults
<1>1. [at |-> at, version |-> 1] \in Job
  BY SchedulerConstants DEF Job
<1>2. Begin("create", i, [at |-> at, version |-> 1], "schedule") =>
        /\ op' \in Call /\ op' # None /\ op'.kind = "create" /\ op'.step = "schedule"
        /\ op'.id = i /\ op'.job = [at |-> at, version |-> 1]
  BY <1>1, BeginType
<1>3. faults' \in 0..MaxFaults
  BY SchedulerConstants DEF Create, Fault, NoFault, TypeOK
<1>. QED  BY <1>1, <1>2, <1>3 DEF Create, SaveFile, manager, run

\* Create schedules what it saved, or goes on to undo it.
LEMMA CreateScheduleEffect ==
  ASSUME TypeOK, Shapes, CreateSchedule
  PROVE  /\ OnOp(op.id, {"create"}) /\ op.step = "schedule" /\ op.id \in Id /\ op.job \in Job
         /\ op.job.version = versions[op.id] /\ Up
         /\ UNCHANGED <<files, source, loading, loadedAt, fires, now, stops, faults, versions,
                        cancelled, rings, missed, halfway>>
         /\ \/ /\ ScheduleOk(op.id, op.job) /\ told' = [told EXCEPT ![op.id] = op.job]
               /\ op' = None
            \/ /\ ScheduleRefused(op.id, op.job) /\ told' = told
               /\ op' \in Call /\ op' # None /\ op'.kind = "create" /\ op'.step = "undo"
               /\ op'.id = op.id /\ op'.job = op.job
<1>1. /\ op # None /\ op.kind = "create" /\ op.step = "schedule" /\ op \in Call /\ Up
  BY DEF CreateSchedule, At, TypeOK
<1>2. op.id \in Id /\ op.job \in Job /\ op.job.version = versions[op.id]
  BY <1>1 DEF Call, Shapes, Edits
<1>3. Begin("create", op.id, op.job, "undo") =>
        /\ op' \in Call /\ op' # None /\ op'.kind = "create" /\ op'.step = "undo"
        /\ op'.id = op.id /\ op'.job = op.job
  BY <1>2, BeginType
<1>. QED
  BY <1>1, <1>2, <1>3 DEF CreateSchedule, Tell, Return, store, run, OnOp

\* The undo removes the file, or fails to.
LEMMA CreateUndoEffect ==
  ASSUME TypeOK, Shapes, CreateUndo
  PROVE  /\ OnOp(op.id, {"create"}) /\ op.step = "undo" /\ op.id \in Id /\ op' = None /\ Up
         /\ UNCHANGED <<jobs, entries, armed, source, loading, loadedAt, fires, now, stops, versions,
                        told, cancelled, rings, missed, halfway>>
         /\ files' = files \/ files' = [files EXCEPT ![op.id] = None]
         /\ faults' \in 0..MaxFaults
<1>1. /\ op # None /\ op.kind = "create" /\ op.step = "undo" /\ op.id \in Id /\ Up
  BY DEF CreateUndo, At, TypeOK, Call
<1>2. faults' \in 0..MaxFaults
  BY SchedulerConstants DEF CreateUndo, Fault, NoFault, TypeOK
<1>. QED
  BY <1>1, <1>2 DEF CreateUndo, DeleteFile, Return, manager, run, history, OnOp

\* Update makes the next version of a job that is in memory.
LEMMA UpdateEffect ==
  ASSUME TypeOK, NEW i \in Id, NEW at \in 0..MaxTime, Update(i, at)
  PROVE  /\ op = None /\ jobs[i] # None /\ Up
         /\ versions' = [versions EXCEPT ![i] = @ + 1] /\ versions[i] + 1 \in 1..MaxVersions
         /\ op' \in Call /\ op' # None /\ op'.kind = "update" /\ op'.step = "save" /\ op'.id = i
         /\ op'.job \in Job /\ op'.job.version = versions[i] + 1
         /\ UNCHANGED <<files, jobs, entries, armed, source, loading, loadedAt, fires, now, stops,
                        faults, told, cancelled, rings, missed, halfway>>
<1>1. versions[i] + 1 \in 1..MaxVersions
  BY SchedulerConstants DEF Update, TypeOK
<1>2. [at |-> at, version |-> versions[i] + 1] \in Job
  BY <1>1 DEF Job
<1>3. Begin("update", i, [at |-> at, version |-> versions[i] + 1], "save") =>
        /\ op' \in Call /\ op' # None /\ op'.kind = "update" /\ op'.step = "save"
        /\ op'.id = i /\ op'.job = [at |-> at, version |-> versions[i] + 1]
  BY <1>2, BeginType
<1>. QED  BY <1>1, <1>2, <1>3 DEF Update, store, manager, run

\* It is saved, or the call fails with the job as it was.
LEMMA UpdateSaveEffect ==
  ASSUME TypeOK, Shapes, UpdateSave
  PROVE  /\ OnOp(op.id, {"update"}) /\ op.step = "save" /\ op.id \in Id /\ op.job \in Job /\ Up
         /\ op.job.version = versions[op.id]
         /\ \/ /\ files' = [files EXCEPT ![op.id] = op.job]
               /\ op' \in Call /\ op' # None /\ op'.kind = "update" /\ op'.step = "schedule"
               /\ op'.id = op.id /\ op'.job = op.job
            \/ files' = files /\ op' = None
         /\ UNCHANGED <<jobs, entries, armed, source, loading, loadedAt, fires, now, stops, versions,
                        told, cancelled, rings, missed, halfway>>
         /\ faults' \in 0..MaxFaults
<1>1. /\ op # None /\ op.kind = "update" /\ op.step = "save" /\ op \in Call /\ Up
  BY DEF UpdateSave, At, TypeOK
<1>2. op.id \in Id /\ op.job \in Job /\ op.job.version = versions[op.id]
  BY <1>1 DEF Call, Shapes, Edits
<1>3. Begin("update", op.id, op.job, "schedule") =>
        /\ op' \in Call /\ op' # None /\ op'.kind = "update" /\ op'.step = "schedule"
        /\ op'.id = op.id /\ op'.job = op.job
  BY <1>2, BeginType
<1>4. faults' \in 0..MaxFaults
  BY SchedulerConstants DEF UpdateSave, Fault, NoFault, TypeOK
<1>. QED
  BY <1>1, <1>2, <1>3, <1>4 DEF UpdateSave, SaveFile, Return, manager, run, history, OnOp

\* It is scheduled, or refused when its file has changed already.
LEMMA UpdateScheduleEffect ==
  ASSUME TypeOK, Shapes, UpdateSchedule
  PROVE  /\ OnOp(op.id, {"update"}) /\ op.step = "schedule" /\ op.id \in Id /\ op.job \in Job /\ Up
         /\ op.job.version = versions[op.id] /\ op' = None
         /\ UNCHANGED <<files, source, loading, loadedAt, fires, now, stops, faults, versions,
                        cancelled, rings, missed>>
         /\ \/ /\ ScheduleOk(op.id, op.job) /\ told' = [told EXCEPT ![op.id] = op.job]
               /\ halfway' = halfway
            \/ /\ ScheduleRefused(op.id, op.job) /\ told' = told
               /\ halfway' = halfway \cup {op.id}
<1>1. /\ op # None /\ op.kind = "update" /\ op.step = "schedule" /\ op \in Call /\ Up
  BY DEF UpdateSchedule, At, TypeOK
<1>2. op.id \in Id /\ op.job \in Job /\ op.job.version = versions[op.id]
  BY <1>1 DEF Call, Shapes, Edits
<1>. QED
  BY <1>1, <1>2 DEF UpdateSchedule, Tell, Return, store, run, OnOp

\* Cancel forgets a job that has an entry, ...
LEMMA CancelEffect ==
  ASSUME TypeOK, NEW i \in Id, Cancel(i)
  PROVE  /\ op = None /\ versions[i] > 0 /\ i \notin cancelled /\ Up
         /\ op' \in Call /\ op' # None /\ op'.kind = "cancel" /\ op'.step = "delete" /\ op'.id = i
         /\ UNCHANGED <<files, source, loading, loadedAt, fires, now, stops, faults, versions, told,
                        cancelled, rings, missed, halfway>>
         /\ \/ /\ entries' = [entries EXCEPT ![i] = None] /\ jobs' = [jobs EXCEPT ![i] = None]
               /\ armed' = {e \in armed : e.id # i}
            \/ entries[i] = None /\ UNCHANGED <<jobs, entries, armed>>
<1>1. Begin("cancel", i, None, "delete") =>
        /\ op' \in Call /\ op' # None /\ op'.kind = "cancel" /\ op'.step = "delete" /\ op'.id = i
  BY BeginType
<1>. QED  BY <1>1 DEF Cancel, Disarmed, Forgotten, store, manager, run, history

\* ... and removes its file.
LEMMA CancelDeleteEffect ==
  ASSUME TypeOK, Shapes, CancelDelete
  PROVE  /\ OnOp(op.id, {"cancel"}) /\ op.id \in Id /\ op' = None /\ Up
         /\ UNCHANGED <<jobs, entries, armed, source, loading, loadedAt, fires, now, stops, versions,
                        rings, missed>>
         /\ \/ /\ files' = [files EXCEPT ![op.id] = None] /\ told' = [told EXCEPT ![op.id] = None]
               /\ cancelled' = cancelled \cup {op.id} /\ halfway' = halfway
            \/ UNCHANGED <<files, told, cancelled>> /\ halfway' = halfway \cup {op.id}
         /\ faults' \in 0..MaxFaults
<1>1. /\ op # None /\ op.kind = "cancel" /\ op.id \in Id /\ Up
  BY DEF CancelDelete, At, TypeOK, Call
<1>2. faults' \in 0..MaxFaults
  BY SchedulerConstants DEF CancelDelete, Fault, NoFault, TypeOK
<1>. QED
  BY <1>1, <1>2 DEF CancelDelete, DeleteFile, Tell, Return, manager, run, OnOp

\* A timer that goes off is spent; a fire call starts.
LEMMA GoOffEffect ==
  ASSUME TypeOK, NEW e \in armed, GoOff(e)
  PROVE  /\ e.id \in Id /\ e.at \in 0..MaxTime /\ Up
         /\ \/ e.at = Recurring /\ source = "on" /\ armed' = armed
            \/ e.at # Recurring /\ e.at < now /\ armed' = armed \ {e}
         /\ \E r \in Fire : /\ fires' = fires \cup {r} /\ r \notin fires
                            /\ r.id = e.id /\ r.step = "read" /\ r.job = None
                            /\ r.cron <=> e.at = Recurring
         /\ UNCHANGED <<files, jobs, entries, source, loading, loadedAt, op, now, stops, faults,
                        versions, told, cancelled, rings, missed, halfway>>
<1>1. e.id \in Id /\ e.at \in 0..MaxTime
  BY DEF TypeOK
<1>. DEFINE r == [id |-> e.id, step |-> "read", job |-> None, cron |-> e.at = Recurring]
<1>2. (e.at = Recurring) \in BOOLEAN
  OBVIOUS
<1>3. r \in Fire
  BY <1>1, <1>2 DEF Fire
<1>4. r.id = e.id /\ r.step = "read" /\ r.job = None
  OBVIOUS
<1>5. r.cron <=> e.at = Recurring
  OBVIOUS
<1>6. fires' = fires \cup {r} /\ r \notin fires
  BY DEF GoOff
<1>7. \E q \in Fire : /\ fires' = fires \cup {q} /\ q \notin fires
                      /\ q.id = e.id /\ q.step = "read" /\ q.job = None
                      /\ q.cron <=> e.at = Recurring
  <2>. WITNESS r \in Fire
  <2>. QED  BY <1>4, <1>5, <1>6
<1>8. /\ UNCHANGED <<files, jobs, entries, source, loading, loadedAt, op, now, stops, faults,
                     versions, told, cancelled, rings, missed, halfway>>
      /\ Up
      /\ \/ e.at = Recurring /\ source = "on" /\ armed' = armed
         \/ e.at # Recurring /\ e.at < now /\ armed' = armed \ {e}
  BY DEF GoOff, store, run, history
<1>. QED  BY <1>1, <1>7, <1>8

\* It ends when there is no job or nobody to emit to, else it holds a copy.
LEMMA FireReadEffect ==
  ASSUME TypeOK, Shapes, NEW f \in fires, FireRead(f)
  PROVE  /\ f \in Fire /\ f.id \in Id /\ f.step = "read" /\ Up
         /\ UNCHANGED <<files, jobs, entries, armed, source, loading, loadedAt, op, now, stops, faults,
                        versions, told, cancelled, rings, halfway>>
         /\ \/ jobs[f.id] = None /\ fires' = fires \ {f} /\ missed' = missed
            \/ /\ jobs[f.id] \in Job /\ source # "on" /\ fires' = fires \ {f}
               /\ missed' = missed \cup {f.id}
            \/ /\ jobs[f.id] \in Job /\ source = "on" /\ missed' = missed
               /\ \E g \in Fire : /\ fires' = (fires \ {f}) \cup {g}
                                  /\ g.id = f.id /\ g.step = "emit" /\ g.job = jobs[f.id]
                                  /\ g.cron = f.cron
<1>1. f \in Fire /\ f.id \in Id /\ Up
  BY DEF TypeOK, Shapes, Fire
<1>2. jobs[f.id] \in Job \cup {None}
  BY <1>1 DEF TypeOK
<1>3. CASE jobs[f.id] = None
  BY <1>1, <1>3 DEF FireRead, End, store, manager, run
<1>4. CASE jobs[f.id] # None /\ source # "on"
  BY <1>1, <1>2, <1>4 DEF FireRead, End, store, manager, run
<1>5. CASE jobs[f.id] # None /\ source = "on"
  <2>1. Move(f, "emit", jobs[f.id]) /\ missed' = missed
    BY <1>5 DEF FireRead
  <2>2. \E g \in Fire : /\ fires' = (fires \ {f}) \cup {g}
                        /\ g.id = f.id /\ g.step = "emit" /\ g.job = jobs[f.id] /\ g.cron = f.cron
    BY <1>1, <1>2, <2>1, MoveEffect
  <2>. QED  BY <1>1, <1>2, <1>5, <2>1, <2>2 DEF FireRead, store, manager, run
<1>. QED  BY <1>3, <1>4, <1>5

\* The copy is emitted, ...
LEMMA FireEmitEffect ==
  ASSUME TypeOK, Shapes, NEW f \in fires, FireEmit(f)
  PROVE  /\ f \in Fire /\ f.id \in Id /\ f.step = "emit" /\ f.job \in Job /\ Up
         /\ rings' = [rings EXCEPT ![f.id] = Append(@, [job |-> f.job, time |-> now])]
         /\ told' = [told EXCEPT ![f.id] = IF @ = f.job /\ OneShot(f.job) THEN None ELSE @]
         /\ \E g \in Fire : /\ fires' = (fires \ {f}) \cup {g}
                            /\ g.id = f.id /\ g.step = "clean" /\ g.job = f.job
                            /\ g.cron = f.cron
         /\ UNCHANGED <<files, jobs, entries, armed, source, loading, loadedAt, op, now, stops, faults,
                        versions, cancelled, missed, halfway>>
<1>1. f \in Fire /\ f.id \in Id /\ Up
  BY DEF TypeOK, Shapes, Fire
<1>2. f.step = "emit" /\ f.job \in Job
  BY <1>1 DEF FireEmit, Fire, Shapes
<1>3. \E g \in Fire : /\ fires' = (fires \ {f}) \cup {g}
                      /\ g.id = f.id /\ g.step = "clean" /\ g.job = f.job /\ g.cron = f.cron
  BY <1>1, <1>2, MoveEffect DEF FireEmit
<1>. QED
  BY <1>1, <1>2, <1>3 DEF FireEmit, OneShot, store, manager, run

\* ... a one-shot leaves memory, ...
LEMMA FireCleanEffect ==
  ASSUME TypeOK, Shapes, NEW f \in fires, FireClean(f)
  PROVE  /\ f \in Fire /\ f.id \in Id /\ f.step = "clean" /\ f.job \in Job /\ Up
         /\ \/ ~OneShot(f.job) /\ fires' = fires \ {f} /\ UNCHANGED <<jobs, entries, armed>>
            \/ /\ OneShot(f.job)
               /\ armed' = {e \in armed : e.id # f.id}
               /\ entries' = [entries EXCEPT ![f.id] = None] /\ jobs' = [jobs EXCEPT ![f.id] = None]
               /\ \E g \in Fire : /\ fires' = (fires \ {f}) \cup {g}
                                  /\ g.id = f.id /\ g.step = "delete" /\ g.job = f.job
                                  /\ g.cron = f.cron
         /\ UNCHANGED <<files, source, loading, loadedAt, op, now, stops, faults, versions, told,
                        cancelled, rings, missed, halfway>>
<1>1. f \in Fire /\ f.id \in Id /\ Up
  BY DEF TypeOK, Shapes, Fire
<1>2. f.step = "clean" /\ f.job \in Job
  BY <1>1 DEF FireClean, Fire, Shapes
<1>3. Move(f, "delete", f.job) =>
        \E g \in Fire : /\ fires' = (fires \ {f}) \cup {g}
                        /\ g.id = f.id /\ g.step = "delete" /\ g.job = f.job /\ g.cron = f.cron
  BY <1>1, <1>2, MoveEffect
<1>. QED
  BY <1>1, <1>2, <1>3 DEF FireClean, End, Spent, OneShot, Disarmed, Forgotten, store, manager, run,
                          history

\* ... and its file goes.
LEMMA FireDeleteEffect ==
  ASSUME TypeOK, Shapes, NEW f \in fires, FireDelete(f)
  PROVE  /\ f \in Fire /\ f.id \in Id /\ f.step = "delete" /\ f.job \in Job /\ OneShot(f.job) /\ Up
         /\ fires' = fires \ {f}
         /\ files' = files \/ files' = [files EXCEPT ![f.id] = None]
         /\ UNCHANGED <<jobs, entries, armed, source, loading, loadedAt, op, now, stops, versions, told,
                        cancelled, rings, missed, halfway>>
         /\ faults' \in 0..MaxFaults
<1>1. f \in Fire /\ f.id \in Id /\ Up
  BY DEF TypeOK, Shapes, Fire
<1>2. f.step = "delete" /\ f.job \in Job /\ OneShot(f.job)
  BY <1>1 DEF FireDelete, Fire, Shapes
<1>3. faults' \in 0..MaxFaults
  BY SchedulerConstants DEF FireDelete, Fault, NoFault, TypeOK
<1>. QED
  BY <1>1, <1>2, <1>3 DEF FireDelete, End, DeleteFile, manager, run, history

\* LoadAll reads every file.
LEMMA LoadAllEffect ==
  ASSUME TypeOK, LoadAll
  PROVE  /\ source = "booting" /\ source' = "loading" /\ loadedAt' = now
         /\ loading' \subseteq [id : Id, job : Job]
         /\ \A x \in loading' : x.id \in Id /\ files[x.id] # None /\ x.job = files[x.id]
         /\ \A i \in Id : files[i] # None => \E x \in loading' : x.id = i
         /\ UNCHANGED <<files, jobs, entries, armed, fires, op, now, stops, faults, versions, told,
                        cancelled, rings, missed, halfway>>
<1>1. \A i \in Id : files[i] # None => [id |-> i, job |-> files[i]] \in [id : Id, job : Job]
  BY DEF TypeOK
<1>2. loading' = {[id |-> i, job |-> files[i]] : i \in {k \in Id : files[k] # None}}
  BY DEF LoadAll
<1>3. loading' \subseteq [id : Id, job : Job]
  BY <1>1, <1>2
<1>4. \A x \in loading' : x.id \in Id /\ files[x.id] # None /\ x.job = files[x.id]
  BY <1>2
<1>5. ASSUME NEW i \in Id, files[i] # None PROVE \E x \in loading' : x.id = i
  <2>1. [id |-> i, job |-> files[i]] \in loading' /\ [id |-> i, job |-> files[i]].id = i
    BY <1>2, <1>5
  <2>. QED  BY <2>1
<1>6. /\ source = "booting" /\ source' = "loading" /\ loadedAt' = now
      /\ UNCHANGED <<files, jobs, entries, armed, fires, op, now, stops, faults, versions, told,
                     cancelled, rings, missed, halfway>>
  BY DEF LoadAll, store, manager, history
<1>. QED  BY <1>3, <1>4, <1>5, <1>6

\* Load misses a job, schedules it or gives it up.
LEMMA LoadOneEffect ==
  ASSUME TypeOK, NEW x \in loading, LoadOne(x)
  PROVE  /\ x.id \in Id /\ x.job \in Job /\ source = "loading" /\ loading' = loading \ {x}
         /\ \/ /\ OneShot(x.job) /\ x.job.at < loadedAt
               /\ missed' = missed \cup {x.id} /\ UNCHANGED <<jobs, entries, armed>>
               /\ files' = files \/ files' = [files EXCEPT ![x.id] = None]
            \/ /\ OneShot(x.job) => loadedAt <= x.job.at
               /\ ScheduleOk(x.id, x.job) /\ UNCHANGED <<missed, files>>
            \/ /\ ScheduleRefused(x.id, x.job)
               /\ missed' = missed \cup {x.id} /\ UNCHANGED files
         /\ UNCHANGED <<source, loadedAt, fires, op, now, stops, versions, told, cancelled, rings,
                        halfway>>
         /\ faults' \in 0..MaxFaults
<1>1. /\ x.id \in Id /\ x.job \in Job /\ x.job.at \in Int /\ loadedAt \in Int
  BY SchedulerConstants DEF TypeOK, Job, Late
<1>2. faults' \in 0..MaxFaults
  BY SchedulerConstants DEF LoadOne, Fault, NoFault, TypeOK
<1>. QED
  BY <1>1, <1>2 DEF LoadOne, Passed, DeleteFile, OneShot, NoFault, store, manager

-----------------------------------------------------------------------------
(* Shapes *)

\* Every step keeps the shape.
LEMMA TypeStep == TypeOK /\ Shapes /\ [Next]_vars => TypeOK'
<1>. SUFFICES ASSUME TypeOK, Shapes, [Next]_vars PROVE TypeOK'
  OBVIOUS
<1>0. CASE UNCHANGED vars
  BY <1>0 DEF vars, store, manager, run, history, watched, TypeOK
<1>w. Next => crossed' \subseteq Id /\ raced' \subseteq Id
  BY DEF Next, Watch, TypeOK
<1>. SUFFICES ASSUME Next, crossed' \subseteq Id, raced' \subseteq Id PROVE TypeOK'
  BY <1>0, <1>w
<1>t. TypeOK /\ Shapes /\ crossed' \subseteq Id /\ raced' \subseteq Id
  OBVIOUS
<1>1. ASSUME NEW i \in Id, NEW at \in 0..MaxTime, Create(i, at) PROVE TypeOK'
  <2>1. files' \in [Id -> Job \cup {None}] /\ op' \in Call \cup {None}
    BY <1>1, <1>t, CreateEffect DEF TypeOK
  <2>2. versions' \in [Id -> 0..MaxVersions]
    <3>1. versions \in [Id -> 0..MaxVersions] /\ versions' = [versions EXCEPT ![i] = 1]
      BY <1>1, <1>t, CreateEffect DEF TypeOK
    <3>. QED  BY <3>1, SchedulerConstants
  <2>. QED  BY <1>1, <1>t, <2>1, <2>2, CreateEffect DEF TypeOK
<1>2. CASE CreateSchedule
  <2>1. /\ op.id \in Id /\ op.job \in Job /\ op' \in Call \cup {None}
        /\ UNCHANGED <<files, source, loading, loadedAt, fires, now, stops, faults, versions,
                       cancelled, rings, missed, halfway>>
    BY <1>2, <1>t, CreateScheduleEffect
  <2>2. ScheduleOk(op.id, op.job) \/ ScheduleRefused(op.id, op.job)
    BY <1>2, <1>t, CreateScheduleEffect
  <2>3. /\ jobs' \in [Id -> Job \cup {None}] /\ entries' \in [Id -> 0..MaxTime \cup {None}]
        /\ armed' \subseteq [id : Id, at : 0..MaxTime]
    BY <1>t, <2>1, <2>2, ScheduleOkEffect, ScheduleRefusedEffect DEF TypeOK
  <2>4. told' \in [Id -> Job \cup {None}]
    BY <1>2, <1>t, <2>1, CreateScheduleEffect DEF TypeOK
  <2>. QED  BY <1>t, <2>1, <2>3, <2>4 DEF TypeOK
<1>3. CASE CreateUndo
  BY <1>3, <1>t, CreateUndoEffect DEF TypeOK
<1>4. ASSUME NEW i \in Id, NEW at \in 0..MaxTime, Update(i, at) PROVE TypeOK'
  <2>1. versions' \in [Id -> 0..MaxVersions]
    <3>1. /\ versions \in [Id -> 0..MaxVersions] /\ versions' = [versions EXCEPT ![i] = @ + 1]
          /\ versions[i] + 1 \in 1..MaxVersions
      BY <1>4, <1>t, UpdateEffect DEF TypeOK
    <3>. QED  BY <3>1, SchedulerConstants
  <2>. QED  BY <1>4, <1>t, <2>1, UpdateEffect DEF TypeOK
<1>5. CASE UpdateSave
  <2>1. op.id \in Id /\ op.job \in Job /\ op' \in Call \cup {None}
    BY <1>5, <1>t, UpdateSaveEffect
  <2>2. files' \in [Id -> Job \cup {None}]
    BY <1>5, <1>t, <2>1, UpdateSaveEffect DEF TypeOK
  <2>. QED  BY <1>5, <1>t, <2>1, <2>2, UpdateSaveEffect DEF TypeOK
<1>6. CASE UpdateSchedule
  BY <1>6, <1>t, UpdateScheduleEffect, ScheduleOkEffect, ScheduleRefusedEffect DEF TypeOK
<1>7. ASSUME NEW i \in Id, Cancel(i) PROVE TypeOK'
  BY <1>7, <1>t, CancelEffect DEF TypeOK
<1>8. CASE CancelDelete
  BY <1>8, <1>t, CancelDeleteEffect DEF TypeOK
<1>9. ASSUME NEW e \in armed, GoOff(e) PROVE TypeOK'
  BY <1>9, <1>t, GoOffEffect DEF TypeOK
<1>10. ASSUME NEW f \in fires, FireRead(f) PROVE TypeOK'
  BY <1>10, <1>t, FireReadEffect DEF TypeOK
<1>11. ASSUME NEW f \in fires, FireEmit(f) PROVE TypeOK'
  <2>1. f.id \in Id /\ f.job \in Job /\ fires' \subseteq Fire
    <3>1. /\ f.id \in Id /\ f.job \in Job
          /\ \E g \in Fire : fires' = (fires \ {f}) \cup {g}
      BY <1>11, <1>t, FireEmitEffect
    <3>. QED  BY <1>t, <3>1 DEF TypeOK
  <2>2. told' \in [Id -> Job \cup {None}]
    <3>1. told' = [told EXCEPT ![f.id] = IF @ = f.job /\ OneShot(f.job) THEN None ELSE @]
      BY <1>11, <1>t, FireEmitEffect
    <3>2. told \in [Id -> Job \cup {None}]
      BY <1>t DEF TypeOK
    <3>. QED  BY <2>1, <3>1, <3>2
  <2>3. rings' \in [Id -> Seq([job : Job, time : 1..Late])]
    <3>1. [job |-> f.job, time |-> now] \in [job : Job, time : 1..Late]
      BY <1>t, <2>1 DEF TypeOK
    <3>2. Append(rings[f.id], [job |-> f.job, time |-> now]) \in Seq([job : Job, time : 1..Late])
      <4>1. rings[f.id] \in Seq([job : Job, time : 1..Late])
        BY <1>t, <2>1 DEF TypeOK
      <4>. QED  BY <3>1, <4>1
    <3>3. rings' = [rings EXCEPT ![f.id] = Append(@, [job |-> f.job, time |-> now])]
      BY <1>11, <1>t, FireEmitEffect
    <3>4. rings \in [Id -> Seq([job : Job, time : 1..Late])]
      BY <1>t DEF TypeOK
    <3>. QED  BY <2>1, <3>2, <3>3, <3>4
  <2>. QED  BY <1>11, <1>t, <2>1, <2>2, <2>3, FireEmitEffect DEF TypeOK
<1>12. ASSUME NEW f \in fires, FireClean(f) PROVE TypeOK'
  <2>1. f \in Fire /\ f.id \in Id
    BY <1>12, <1>t, FireCleanEffect
  <2>2. fires' \subseteq Fire
    <3>1. CASE fires' = fires \ {f}
      BY <1>t, <3>1 DEF TypeOK
    <3>2. CASE \E g \in Fire : fires' = (fires \ {f}) \cup {g}
      BY <1>t, <3>2 DEF TypeOK
    <3>. QED  BY <1>12, <1>t, <3>1, <3>2, FireCleanEffect
  <2>3. /\ jobs' \in [Id -> Job \cup {None}] /\ entries' \in [Id -> 0..MaxTime \cup {None}]
        /\ armed' \subseteq [id : Id, at : 0..MaxTime]
    BY <1>12, <1>t, <2>1, FireCleanEffect DEF TypeOK
  <2>. QED  BY <1>12, <1>t, <2>2, <2>3, FireCleanEffect DEF TypeOK
<1>13. ASSUME NEW f \in fires, FireDelete(f) PROVE TypeOK'
  <2>1. fires' \subseteq Fire /\ f.id \in Id
    BY <1>13, <1>t, FireDeleteEffect DEF TypeOK
  <2>2. files' \in [Id -> Job \cup {None}]
    BY <1>13, <1>t, <2>1, FireDeleteEffect DEF TypeOK
  <2>. QED  BY <1>13, <1>t, <2>1, <2>2, FireDeleteEffect DEF TypeOK
<1>14. CASE LoadAll
  <2>1. loadedAt' \in 0..Late
    <3>1. now \in 1..Late /\ loadedAt' = now
      BY <1>14, <1>t, LoadAllEffect DEF TypeOK
    <3>. QED  BY <3>1, SchedulerConstants DEF Late
  <2>. QED  BY <1>14, <1>t, <2>1, LoadAllEffect DEF TypeOK
<1>15. ASSUME NEW x \in loading, LoadOne(x) PROVE TypeOK'
  <2>1. x.id \in Id /\ x.job \in Job
    BY <1>15, <1>t, LoadOneEffect
  <2>2. /\ jobs' \in [Id -> Job \cup {None}] /\ entries' \in [Id -> 0..MaxTime \cup {None}]
        /\ armed' \subseteq [id : Id, at : 0..MaxTime]
    BY <1>15, <1>t, <2>1, LoadOneEffect, ScheduleOkEffect, ScheduleRefusedEffect DEF TypeOK
  <2>3. files' \in [Id -> Job \cup {None}] /\ loading' \subseteq [id : Id, job : Job] /\ missed' \subseteq Id
    BY <1>15, <1>t, <2>1, LoadOneEffect DEF TypeOK
  <2>. QED  BY <1>15, <1>t, <2>2, <2>3, LoadOneEffect DEF TypeOK
<1>16. CASE Start \/ Stop
  <2>1. source' \in {"down", "booting", "loading", "on", "off"} /\ stops' \in 0..MaxStops
    BY <1>16, <1>t, SchedulerConstants DEF Start, Stop, TypeOK
  <2>. QED  BY <1>16, <1>t, <2>1 DEF Start, Stop, store, manager, history, TypeOK
<1>17. CASE Crash
  <2>1. stops' \in 0..MaxStops /\ halfway' \subseteq Id
    BY <1>17, <1>t, SchedulerConstants DEF Crash, TypeOK
  <2>2. /\ jobs' \in [Id -> Job \cup {None}] /\ entries' \in [Id -> 0..MaxTime \cup {None}]
        /\ armed' = {} /\ loading' = {} /\ fires' = {} /\ op' = None /\ source' = "down"
        /\ UNCHANGED <<files, loadedAt, now, faults, versions, told, cancelled, rings, missed>>
    BY <1>17 DEF Crash, store
  <2>. QED  BY <1>t, <2>1, <2>2 DEF TypeOK
<1>18. CASE Boot \/ Tick
  <2>1. now' \in 1..Late /\ source' \in {"down", "booting", "loading", "on", "off"}
    BY <1>18, <1>t, SchedulerConstants DEF Boot, Tick, run, Late, TypeOK
  <2>. QED  BY <1>18, <1>t, <2>1 DEF Boot, Tick, store, manager, run, history, TypeOK
<1>. QED
  BY <1>1, <1>2, <1>3, <1>4, <1>5, <1>6, <1>7, <1>8, <1>9, <1>10, <1>11, <1>12, <1>13, <1>14, <1>15, <1>16, <1>17, <1>18 DEF Next

-----------------------------------------------------------------------------
(* One job at a time *)

\* A step that leaves everything about i alone, but for the time ...
Still(i) ==
  /\ files'[i] = files[i] /\ jobs'[i] = jobs[i] /\ entries'[i] = entries[i] /\ told'[i] = told[i]
  /\ versions'[i] = versions[i] /\ rings'[i] = rings[i]
  /\ \A f \in fires : f.id = i => f \in fires'
  /\ \A f \in fires' : f.id = i => f \in fires
  /\ \A e \in armed : e.id = i => e \in armed'
  /\ \A e \in armed' : e.id = i => e \in armed
  /\ \A x \in loading : x.id = i => x \in loading'
  /\ \A x \in loading' : x.id = i => x \in loading
  /\ op # None /\ op.id = i => op' = op
  /\ op' # None /\ op'.id = i => op' = op
  /\ i \in cancelled' <=> i \in cancelled
  /\ now <= now' /\ loadedAt' = loadedAt

\* ... and one that is about i, or about the whole process.
About(i) ==
  \/ \E at \in 0..MaxTime : Create(i, at) \/ Update(i, at)
  \/ op.id = i /\ (CreateSchedule \/ CreateUndo \/ UpdateSave \/ UpdateSchedule \/ CancelDelete)
  \/ Cancel(i)
  \/ \E e \in armed : e.id = i /\ GoOff(e)
  \/ \E f \in fires : f.id = i /\ (FireRead(f) \/ FireEmit(f) \/ FireClean(f) \/ FireDelete(f))
  \/ \E x \in loading : x.id = i /\ LoadOne(x)
  \/ LoadAll \/ Crash

\* Scheduling one job leaves the others as they are.
LEMMA ScheduleElsewhere ==
  ASSUME TypeOK, NEW i \in Id, NEW k \in Id \ {i}, NEW j \in Job,
         ScheduleOk(k, j) \/ ScheduleRefused(k, j)
  PROVE  /\ jobs'[i] = jobs[i] /\ entries'[i] = entries[i]
         /\ \A e \in armed : e.id = i => e \in armed'
         /\ \A e \in armed' : e.id = i => e \in armed
<1>d. DOMAIN jobs = Id /\ DOMAIN entries = Id
  BY DEF TypeOK
<1>. QED  BY <1>d DEF ScheduleOk, ScheduleRefused, Disarmed

\* There is no other step.
LEMMA StillOrAbout ==
  ASSUME TypeOK, Shapes, NEW i \in Id, [Next]_vars
  PROVE  \/ Still(i) /\ (source' = source \/ Start \/ Stop \/ Boot)
         \/ About(i) /\ Next
<1>d. /\ DOMAIN files = Id /\ DOMAIN jobs = Id /\ DOMAIN entries = Id /\ DOMAIN told = Id
      /\ DOMAIN versions = Id /\ DOMAIN rings = Id /\ now \in Int
  BY DEF TypeOK, Late
<1>0. CASE UNCHANGED vars
  BY <1>0, <1>d DEF vars, store, manager, run, history, watched, Still
<1>1. ASSUME NEW k \in Id, NEW at \in 0..MaxTime, Create(k, at), k # i PROVE Still(i) /\ source' = source
  BY <1>1, <1>d, CreateEffect DEF Still
<1>2. ASSUME CreateSchedule, op.id # i PROVE Still(i) /\ source' = source
  <2>1. op.id \in Id \ {i} /\ op.job \in Job /\ (ScheduleOk(op.id, op.job) \/ ScheduleRefused(op.id, op.job))
    BY <1>2, CreateScheduleEffect
  <2>2. /\ jobs'[i] = jobs[i] /\ entries'[i] = entries[i]
        /\ \A e \in armed : e.id = i => e \in armed'
        /\ \A e \in armed' : e.id = i => e \in armed
    BY <2>1, ScheduleElsewhere
  <2>. QED  BY <1>2, <1>d, <2>1, <2>2, CreateScheduleEffect DEF Still
<1>3. ASSUME CreateUndo, op.id # i PROVE Still(i) /\ source' = source
  BY <1>3, <1>d, CreateUndoEffect DEF Still
<1>4. ASSUME NEW k \in Id, NEW at \in 0..MaxTime, Update(k, at), k # i PROVE Still(i) /\ source' = source
  BY <1>4, <1>d, UpdateEffect DEF Still
<1>5. ASSUME UpdateSave, op.id # i PROVE Still(i) /\ source' = source
  BY <1>5, <1>d, UpdateSaveEffect DEF Still
<1>6. ASSUME UpdateSchedule, op.id # i PROVE Still(i) /\ source' = source
  <2>1. op.id \in Id \ {i} /\ op.job \in Job /\ (ScheduleOk(op.id, op.job) \/ ScheduleRefused(op.id, op.job))
    BY <1>6, UpdateScheduleEffect
  <2>2. /\ jobs'[i] = jobs[i] /\ entries'[i] = entries[i]
        /\ \A e \in armed : e.id = i => e \in armed'
        /\ \A e \in armed' : e.id = i => e \in armed
    BY <2>1, ScheduleElsewhere
  <2>. QED  BY <1>6, <1>d, <2>1, <2>2, UpdateScheduleEffect DEF Still
<1>7. ASSUME NEW k \in Id, Cancel(k), k # i PROVE Still(i) /\ source' = source
  BY <1>7, <1>d, CancelEffect DEF Still
<1>8. ASSUME CancelDelete, op.id # i PROVE Still(i) /\ source' = source
  BY <1>8, <1>d, CancelDeleteEffect DEF Still
<1>9. ASSUME NEW e \in armed, GoOff(e), e.id # i PROVE Still(i) /\ source' = source
  BY <1>9, <1>d, GoOffEffect DEF Still
<1>10. ASSUME NEW f \in fires, FireRead(f), f.id # i PROVE Still(i) /\ source' = source
  BY <1>10, <1>d, FireReadEffect DEF Still
<1>11. ASSUME NEW f \in fires, FireEmit(f), f.id # i PROVE Still(i) /\ source' = source
  <2>1. f.id \in Id /\ rings'[i] = rings[i] /\ told'[i] = told[i]
    BY <1>11, <1>d, FireEmitEffect
  <2>2. /\ \A g \in fires : g.id = i => g \in fires'
        /\ \A g \in fires' : g.id = i => g \in fires
    BY <1>11, FireEmitEffect
  <2>3. UNCHANGED <<files, jobs, entries, armed, source, loading, loadedAt, op, now, versions, cancelled>>
    BY <1>11, FireEmitEffect
  <2>. QED  BY <1>d, <2>1, <2>2, <2>3 DEF Still
<1>12. ASSUME NEW f \in fires, FireClean(f), f.id # i PROVE Still(i) /\ source' = source
  BY <1>12, <1>d, FireCleanEffect DEF Still
<1>13. ASSUME NEW f \in fires, FireDelete(f), f.id # i PROVE Still(i) /\ source' = source
  BY <1>13, <1>d, FireDeleteEffect DEF Still
<1>14. ASSUME NEW x \in loading, LoadOne(x), x.id # i PROVE Still(i) /\ source' = source
  <2>1. x.id \in Id \ {i} /\ x.job \in Job
    BY <1>14, LoadOneEffect
  <2>2. /\ jobs'[i] = jobs[i] /\ entries'[i] = entries[i]
        /\ \A e \in armed : e.id = i => e \in armed'
        /\ \A e \in armed' : e.id = i => e \in armed
    BY <1>14, <2>1, LoadOneEffect, ScheduleElsewhere
  <2>. QED  BY <1>14, <1>d, <2>1, <2>2, LoadOneEffect DEF Still
<1>15. CASE Start \/ Stop \/ Boot
  BY <1>15, <1>d DEF Start, Stop, Boot, store, manager, history, Still
<1>16. CASE Tick
  BY <1>16, <1>d DEF Tick, store, manager, run, history, Still
<1>. QED
  BY <1>0, <1>1, <1>2, <1>3, <1>4, <1>5, <1>6, <1>7, <1>8, <1>9, <1>10, <1>11, <1>12, <1>13, <1>14,
     <1>15, <1>16 DEF Next, About

\* The types of what the state says about one job ...
Typed(i) ==
  /\ DOMAIN files = Id /\ DOMAIN jobs = Id /\ DOMAIN entries = Id /\ DOMAIN told = Id
  /\ DOMAIN versions = Id /\ DOMAIN rings = Id
  /\ now \in Int /\ now' \in Int /\ loadedAt \in Int /\ loadedAt' \in Int /\ versions[i] \in Int /\ None \notin Job
  /\ \A j \in Job : j.at \in Int /\ j.version \in Int /\ j.at # None /\ j.version >= 1
  /\ files[i] \in Job \cup {None} /\ jobs[i] \in Job \cup {None} /\ told[i] \in Job \cup {None}
  /\ fires \subseteq Fire /\ loading \subseteq [id : Id, job : Job] /\ loading' \subseteq [id : Id, job : Job]
  /\ \A f \in fires : f.job \in Job \cup {None}
  /\ rings[i] \in Seq([job : Job, time : 1..Late])
  /\ \A n \in DOMAIN rings[i] : rings[i][n].job \in Job /\ rings[i][n].time \in Int

\* ... and what a step does to the history of one.
Closes(i) ==
  /\ i \notin raced' => i \notin raced
  /\ i \in Orderly' => i \in Orderly /\ i \notin raced'
  /\ i \in Smooth' => i \in Smooth /\ i \in Orderly' /\ i \notin halfway' /\ i \notin missed'
  /\ Next /\ i \notin raced' /\ op # None /\ op.id = i => \A x \in loading : x.id # i
  /\ Next /\ i \in Orderly' /\ OnOp(i, {"update"}) => \A f \in fires : f.id = i => f.step # "read" /\ ~OneShot(f.job)

\* Typed follows from TypeOK.
LEMMA PointTypes ==
  ASSUME TypeOK, TypeOK', NEW i \in Id
  PROVE  Typed(i)
<1>1. /\ DOMAIN files = Id /\ DOMAIN jobs = Id /\ DOMAIN entries = Id /\ DOMAIN told = Id
      /\ DOMAIN versions = Id /\ DOMAIN rings = Id
      /\ now \in Int /\ now' \in Int /\ loadedAt \in Int /\ loadedAt' \in Int /\ versions[i] \in Int /\ None \notin Job
  BY SchedulerConstants DEF TypeOK, Late
<1>2. \A j \in Job : j.at \in Int /\ j.version \in Int /\ j.at # None /\ j.version >= 1
  BY SchedulerConstants DEF Job, OneShot
<1>3. /\ files[i] \in Job \cup {None} /\ jobs[i] \in Job \cup {None} /\ told[i] \in Job \cup {None}
      /\ fires \subseteq Fire /\ loading \subseteq [id : Id, job : Job] /\ loading' \subseteq [id : Id, job : Job]
  BY DEF TypeOK
<1>4. \A f \in fires : f.job \in Job \cup {None}
  BY <1>3 DEF Fire
<1>5. rings[i] \in Seq([job : Job, time : 1..Late])
  BY DEF TypeOK
<1>6. \A n \in DOMAIN rings[i] : rings[i][n].job \in Job /\ rings[i][n].time \in Int
  <2>1. \A n \in DOMAIN rings[i] : rings[i][n] \in [job : Job, time : 1..Late]
    <3>1. DOMAIN rings[i] = 1..Len(rings[i])
      BY <1>5
    <3>. QED  BY <1>5, <3>1, ElementOfSeq
  <2>2. \A t \in 1..Late : t \in Int
    BY SchedulerConstants DEF Late
  <2>. QED  BY <2>1, <2>2
<1>. QED  BY <1>1, <1>2, <1>3, <1>4, <1>5, <1>6 DEF Typed

\* The history only grows, and names what overlaps: no edit of an orderly job
\* has met a fire of its own, nor Load.
LEMMA OrderlyStep ==
  ASSUME TypeOK, [Next]_vars, NEW i \in Id
  PROVE  Closes(i)
<1>1. raced \subseteq raced' /\ crossed \subseteq crossed'
  BY DEF Next, Watch, vars, watched
<1>2. halfway \subseteq halfway' /\ missed \subseteq missed'
  BY DEF Next, vars, history, Create, CreateSchedule, CreateUndo, Update, UpdateSave, UpdateSchedule, Cancel,
     CancelDelete, GoOff, FireRead, FireEmit, FireClean, FireDelete, LoadAll, LoadOne, Start, Stop, Crash,
     Boot, Tick
<1>3. ASSUME Next, i \notin raced', op # None, op.id = i PROVE \A x \in loading : x.id # i
  BY <1>3 DEF Next, Watch
<1>4. ASSUME Next, i \notin crossed', OnOp(i, {"update"})
      PROVE  \A f \in fires : f.id = i => f.step # "read" /\ ~OneShot(f.job)
  BY <1>4 DEF Next, Watch, OnOp, OneShot
<1>. QED  BY <1>1, <1>2, <1>3, <1>4 DEF Orderly, Smooth, Closes

-----------------------------------------------------------------------------
(* The invariant *)

\* Every step keeps these facts about calls, fires and the source.
LEMMA ShapesStep == TypeOK /\ Shapes /\ Next => Shapes'
<1>. SUFFICES ASSUME TypeOK, Shapes, Next PROVE Shapes'
  OBVIOUS
<1>t. TypeOK /\ Shapes
  OBVIOUS
<1>d. /\ DOMAIN jobs = Id /\ DOMAIN versions = Id /\ now \in Int /\ loadedAt \in Int
      /\ fires \subseteq Fire /\ loading \subseteq [id : Id, job : Job] /\ None \notin Job
  BY SchedulerConstants DEF TypeOK, Late
<1>1. ASSUME NEW i \in Id, NEW at \in 0..MaxTime, Create(i, at) PROVE Shapes'
  BY <1>1, <1>t, <1>d, CreateEffect DEF Shapes, Up, OnOp, Edits
<1>2. CASE CreateSchedule
  BY <1>2, <1>t, <1>d, CreateScheduleEffect, ScheduleOkEffect, ScheduleRefusedEffect DEF Shapes, Up, OnOp, Edits
<1>3. CASE CreateUndo
  BY <1>3, <1>t, <1>d, CreateUndoEffect DEF Shapes, Up, OnOp, Edits
<1>4. ASSUME NEW i \in Id, NEW at \in 0..MaxTime, Update(i, at) PROVE Shapes'
  BY <1>4, <1>t, <1>d, UpdateEffect DEF Shapes, Up, OnOp, Edits
<1>5. CASE UpdateSave
  BY <1>5, <1>t, <1>d, UpdateSaveEffect DEF Shapes, Up, OnOp, Edits
<1>6. CASE UpdateSchedule
  BY <1>6, <1>t, <1>d, UpdateScheduleEffect, ScheduleOkEffect, ScheduleRefusedEffect DEF Shapes, Up, OnOp, Edits
<1>7. ASSUME NEW i \in Id, Cancel(i) PROVE Shapes'
  BY <1>7, <1>t, <1>d, CancelEffect DEF Shapes, Up, OnOp, Edits
<1>8. CASE CancelDelete
  BY <1>8, <1>t, <1>d, CancelDeleteEffect DEF Shapes, Up, OnOp, Edits
<1>9. ASSUME NEW e \in armed, GoOff(e) PROVE Shapes'
  BY <1>9, <1>t, <1>d, GoOffEffect DEF Shapes, Up, OnOp, Edits
<1>10. ASSUME NEW f \in fires, FireRead(f) PROVE Shapes'
  BY <1>10, <1>t, <1>d, FireReadEffect DEF Shapes, Up, OnOp, Edits
<1>11. ASSUME NEW f \in fires, FireEmit(f) PROVE Shapes'
  <2>1. /\ f.step = "emit" /\ f.job # None /\ Up
        /\ UNCHANGED <<jobs, armed, source, loading, loadedAt, op, now, versions>>
    BY <1>11, <1>t, <1>d, FireEmitEffect
  <2>2. \E g \in Fire : fires' = (fires \ {f}) \cup {g} /\ g.step = "clean" /\ g.job = f.job
    BY <1>11, <1>t, FireEmitEffect
  <2>3. source \notin {"booting", "loading"}
    BY <1>t, <2>1 DEF Shapes
  <2>. QED  BY <1>t, <2>1, <2>2, <2>3 DEF Shapes, Up
<1>12. ASSUME NEW f \in fires, FireClean(f) PROVE Shapes'
  BY <1>12, <1>t, <1>d, FireCleanEffect DEF Shapes, Up, OnOp, Edits
<1>13. ASSUME NEW f \in fires, FireDelete(f) PROVE Shapes'
  BY <1>13, <1>t, <1>d, FireDeleteEffect DEF Shapes, Up, OnOp, Edits
<1>14. CASE LoadAll
  BY <1>14, <1>t, <1>d, LoadAllEffect DEF Shapes, Up, OnOp, Edits
<1>15. ASSUME NEW x \in loading, LoadOne(x) PROVE Shapes'
  BY <1>15, <1>t, <1>d, LoadOneEffect, ScheduleOkEffect, ScheduleRefusedEffect DEF Shapes, Up, OnOp, Edits
<1>16. CASE Start \/ Stop
  BY <1>16, <1>t, <1>d DEF Start, Stop, store, manager, history, Shapes, Up, OnOp, Edits
<1>17. CASE Crash
  BY <1>17, <1>t, <1>d DEF Crash, store, Shapes, Up, OnOp, Edits
<1>18. CASE Boot \/ Tick
  BY <1>18, <1>t, <1>d DEF Boot, Tick, store, manager, run, history, Shapes, Up, OnOp, Edits
<1>. QED
  BY <1>1, <1>2, <1>3, <1>4, <1>5, <1>6, <1>7, <1>8, <1>9, <1>10, <1>11, <1>12, <1>13, <1>14, <1>15, <1>16, <1>17, <1>18 DEF Next

\* What scheduling a job does to it.
Scheduled(i, j) ==
  /\ OneShot(j) => now <= j.at
  /\ jobs'[i] = j /\ j # None /\ entries'[i] = j.at
  /\ [id |-> i, at |-> j.at] \in armed' /\ \A e \in armed' : e.id = i => e.at = j.at
Refused(i, j) ==
  /\ OneShot(j) /\ j.at < now
  /\ jobs'[i] = jobs[i] /\ entries'[i] = None /\ \A e \in armed' : e.id # i

\* The effect of schedule on the job it is called for.
LEMMA ScheduleHere ==
  ASSUME TypeOK, NEW i \in Id, NEW j \in Job
  PROVE  /\ ScheduleOk(i, j) => Scheduled(i, j)
         /\ ScheduleRefused(i, j) => Refused(i, j)
<1>d. DOMAIN jobs = Id /\ DOMAIN entries = Id
  BY DEF TypeOK
<1>1. ASSUME ScheduleOk(i, j) PROVE Scheduled(i, j)
  <2>1. jobs'[i] = j /\ entries'[i] = j.at
    BY <1>1, <1>d DEF ScheduleOk
  <2>3. OneShot(j) => now <= j.at
    BY <1>1, ScheduleOkEffect
  <2>2. [id |-> i, at |-> j.at] \in armed' /\ \A e \in armed' : e.id = i => e.at = j.at
    BY <1>1, ScheduleOkEffect
  <2>. QED  BY <2>1, <2>2, <2>3, SchedulerConstants DEF Scheduled
<1>2. ASSUME ScheduleRefused(i, j) PROVE Refused(i, j)
  BY <1>2, <1>d, ScheduleRefusedEffect DEF Refused
<1>. QED  BY <1>1, <1>2

\* The same for Create's second step, ...
LEMMA CreateScheduleHere ==
  ASSUME TypeOK, Shapes, NEW i \in Id, CreateSchedule, op.id = i
  PROVE  /\ OnOp(i, {"create"}) /\ op.step = "schedule" /\ op.job \in Job
         /\ op.job.version = versions[i] /\ Up
         /\ UNCHANGED <<files, source, loading, loadedAt, fires, now, versions, cancelled, rings, missed,
                        halfway>>
         /\ \/ Scheduled(i, op.job) /\ told'[i] = op.job /\ op' = None
            \/ /\ Refused(i, op.job) /\ told'[i] = told[i]
               /\ op' # None /\ op'.kind = "create" /\ op'.step = "undo" /\ op'.id = i
<1>d. DOMAIN told = Id
  BY DEF TypeOK
<1>1. op.job \in Job
  BY CreateScheduleEffect
<1>2. /\ ScheduleOk(i, op.job) => Scheduled(i, op.job)
      /\ ScheduleRefused(i, op.job) => Refused(i, op.job)
  BY <1>1, ScheduleHere
<1>. QED  BY <1>d, <1>2, CreateScheduleEffect

\* ... and for Update's third.
LEMMA UpdateScheduleHere ==
  ASSUME TypeOK, Shapes, NEW i \in Id, UpdateSchedule, op.id = i
  PROVE  /\ OnOp(i, {"update"}) /\ op.step = "schedule" /\ op.job \in Job
         /\ op.job.version = versions[i] /\ Up /\ op' = None
         /\ UNCHANGED <<files, source, loading, loadedAt, fires, now, versions, cancelled, rings, missed>>
         /\ \/ Scheduled(i, op.job) /\ told'[i] = op.job /\ halfway' = halfway
            \/ Refused(i, op.job) /\ told'[i] = told[i] /\ i \in halfway'
<1>d. DOMAIN told = Id
  BY DEF TypeOK
<1>1. op.job \in Job
  BY UpdateScheduleEffect
<1>2. /\ ScheduleOk(i, op.job) => Scheduled(i, op.job)
      /\ ScheduleRefused(i, op.job) => Refused(i, op.job)
  BY <1>1, ScheduleHere
<1>. QED  BY <1>d, <1>2, UpdateScheduleEffect

\* What Load does to a job: misses it, schedules it or gives it up.
LEMMA LoadOneHere ==
  ASSUME TypeOK, NEW i \in Id, NEW x \in loading, x.id = i, LoadOne(x)
  PROVE  /\ x.job \in Job /\ source = "loading" /\ loading' = loading \ {x}
         /\ \/ /\ OneShot(x.job) /\ x.job.at < loadedAt /\ i \in missed'
               /\ UNCHANGED <<jobs, entries, armed>>
               /\ files'[i] = files[i] \/ files'[i] = None
            \/ Scheduled(i, x.job) /\ (OneShot(x.job) => loadedAt <= x.job.at) /\ UNCHANGED <<missed, files>>
            \/ Refused(i, x.job) /\ i \in missed' /\ UNCHANGED files
         /\ UNCHANGED <<source, loadedAt, fires, op, now, versions, told, cancelled, rings, halfway>>
<1>d. DOMAIN files = Id
  BY DEF TypeOK
<1>1. x.job \in Job
  BY LoadOneEffect
<1>2. /\ ScheduleOk(i, x.job) => Scheduled(i, x.job)
      /\ ScheduleRefused(i, x.job) => Refused(i, x.job)
  BY <1>1, ScheduleHere
<1>. QED  BY <1>d, <1>2, LoadOneEffect

\* What an emission does to the rings of a job.
LEMMA FireEmitHere ==
  ASSUME TypeOK, Shapes, NEW i \in Id, NEW f \in fires, f.id = i, FireEmit(f)
  PROVE  /\ f \in Fire /\ f.step = "emit" /\ f.job \in Job /\ Up
         /\ rings[i] \in Seq([job : Job, time : 1..Late])
         /\ DOMAIN rings'[i] = 1..(Len(rings[i]) + 1) /\ DOMAIN rings[i] = 1..Len(rings[i])
         /\ Len(rings[i]) \in Nat
         /\ \A n \in DOMAIN rings[i] : rings'[i][n] = rings[i][n]
         /\ rings'[i][Len(rings[i]) + 1].job = f.job /\ rings'[i][Len(rings[i]) + 1].time = now
         /\ told'[i] = IF told[i] = f.job /\ OneShot(f.job) THEN None ELSE told[i]
         /\ \E g \in Fire : /\ fires' = (fires \ {f}) \cup {g}
                            /\ g.id = i /\ g.step = "clean" /\ g.job = f.job /\ g.cron = f.cron
         /\ UNCHANGED <<files, jobs, entries, armed, source, loading, loadedAt, op, now, versions,
                        cancelled, missed, halfway>>
<1>d. DOMAIN told = Id /\ DOMAIN rings = Id /\ rings[i] \in Seq([job : Job, time : 1..Late])
  BY DEF TypeOK
<1>1. f.job \in Job
  BY FireEmitEffect
<1>2. [job |-> f.job, time |-> now] \in [job : Job, time : 1..Late]
  BY <1>1 DEF TypeOK
<1>3. rings'[i] = Append(rings[i], [job |-> f.job, time |-> now])
  BY <1>d, FireEmitEffect
<1>4. /\ DOMAIN rings'[i] = 1..(Len(rings[i]) + 1) /\ DOMAIN rings[i] = 1..Len(rings[i])
      /\ Len(rings[i]) \in Nat
      /\ \A n \in DOMAIN rings[i] : rings'[i][n] = rings[i][n]
      /\ rings'[i][Len(rings[i]) + 1] = [job |-> f.job, time |-> now]
  BY <1>d, <1>2, <1>3
<1>5. told'[i] = IF told[i] = f.job /\ OneShot(f.job) THEN None ELSE told[i]
  BY <1>d, FireEmitEffect
<1>6. /\ f \in Fire /\ f.step = "emit" /\ Up
      /\ \E g \in Fire : /\ fires' = (fires \ {f}) \cup {g}
                         /\ g.id = i /\ g.step = "clean" /\ g.job = f.job /\ g.cron = f.cron
      /\ UNCHANGED <<files, jobs, entries, armed, source, loading, loadedAt, op, now, versions,
                     cancelled, missed, halfway>>
  BY FireEmitEffect
<1>. QED  BY <1>d, <1>1, <1>4, <1>5, <1>6

-----------------------------------------------------------------------------
(* The invariant, for one job *)

\* A timer or cron entry is that of the job in memory.
Entered(i) ==
  \A e \in armed : e.id = i => jobs[i] # None /\ jobs[i].at = e.at /\ entries[i] = e.at

\* No copy of a job is newer than its last edit, and none is from before its
\* creation.
Numbered(i) ==
  /\ jobs[i] # None => jobs[i].version <= versions[i]
  /\ files[i] # None => files[i].version <= versions[i]
  /\ told[i] # None => told[i].version <= versions[i]
  /\ \A n \in DOMAIN rings[i] : rings[i][n].job.version <= versions[i] /\ rings[i][n].time <= now
  /\ \A f \in fires : f.id = i => versions[i] > 0 /\ (f.job # None => f.job.version <= versions[i])
  /\ \A x \in loading : x.id = i => versions[i] > 0 /\ x.job.version <= versions[i]
  /\ i \in cancelled \/ OnOp(i, {"cancel"}) => versions[i] > 0

\* The job of the edit under way is newer than every copy but the one in its
\* file.
Newest(i) ==
  i \notin raced /\ OnOp(i, Edits) =>
    /\ op.kind = "create" => versions[i] = 1
    /\ jobs[i] # None => jobs[i].version < versions[i]
    /\ told[i] # None => told[i].version < versions[i]
    /\ \A n \in DOMAIN rings[i] : rings[i][n].job.version < versions[i]
    /\ \A f \in fires : f.id = i => op.kind # "create" /\ (f.job # None => f.job.version < versions[i])

\* What Load holds, and what an edit has saved, is what the file says.
Current(i) ==
  /\ i \notin raced => \A x \in loading : x.id = i => files[i] = x.job
  /\ i \in Orderly /\ OnOp(i, Edits) /\ op.step = "schedule" => files[i] = op.job

\* A fire that will delete the job, or may still read it.
Crossing(f) == f.step = "read" \/ OneShot(f.job)

\* There is one at a time, and while there is one no timer.
OneFire(i) ==
  i \in Orderly =>
    /\ \A f, g \in fires : f.id = i /\ g.id = i /\ Crossing(f) /\ Crossing(g) => f = g
    /\ \A e \in armed, f \in fires : e.id = i /\ f.id = i /\ Crossing(f) =>
         f.step = "read" /\ e.at = Recurring

\* A file holds no other job than the one that has a timer.
SameFile(i) ==
  \A e \in armed : e.id = i /\ i \in Orderly /\ ~(OnOp(i, {"update"}) /\ op.step = "schedule") =>
    files[i] \in {None, jobs[i]}

\* A fire comes when the job it will read is due, and has not been emitted.
Due(i) ==
  i \in Orderly => \A f \in fires : f.id = i =>
    /\ f.step = "read" /\ jobs[i] # None =>
         IF f.cron THEN ~OneShot(jobs[i]) ELSE OneShot(jobs[i]) /\ jobs[i].at < now
    /\ f.step = "read" /\ ~f.cron /\ files[i] # None /\ ~OnOp(i, {"update"}) =>
         OneShot(files[i]) /\ files[i].at < now
    /\ f.step = "emit" /\ OneShot(f.job) =>
         f.job.at < now /\ \A n \in DOMAIN rings[i] : rings[i][n].job # f.job

\* A one-shot that was emitted is in memory only until its fire has cleaned
\* up, and if its file survives it, Load finds that its time has passed.
Rung(i) ==
  i \in Orderly => \A n \in DOMAIN rings[i] : OneShot(rings[i][n].job) =>
    /\ jobs[i] = rings[i][n].job => \E f \in fires : f.id = i /\ f.step = "clean" /\ f.job = jobs[i]
    /\ \A x \in loading : x.id = i /\ x.job = rings[i][n].job => x.job.at < loadedAt

\* Emitted one-shots were due, and each was emitted once.
InTime(i) ==
  i \in Orderly => \A n \in DOMAIN rings[i] : OneShot(rings[i][n].job) =>
    /\ rings[i][n].job.at < rings[i][n].time
    /\ \A m \in DOMAIN rings[i] \ {n} : rings[i][m].job # rings[i][n].job

\* Cancel will find a job that is in memory.
HasEntry(i) == i \in Smooth /\ jobs[i] # None => entries[i] # None

\* A cancelled job is out of memory before its file goes, and then nothing
\* brings it back.
Gone(i) ==
  i \in Smooth =>
    /\ OnOp(i, {"cancel"}) => jobs[i] = None
    /\ i \in cancelled =>
         jobs[i] = None /\ files[i] = None /\ Settled(i) /\ \A x \in loading : x.id # i

\* What the agent was told stands is on disk, also while a change to it waits
\* to be saved; and once Load has been through it, it is in memory with a timer
\* or with the fire that will deliver it.
Promise(i) ==
  i \in Smooth /\ told[i] # None /\ (Settled(i) \/ (op.kind = "update" /\ op.step = "save")) =>
    /\ files[i] = told[i]
    /\ source = "on" \/ (source = "loading" /\ \A x \in loading : x.id # i) =>
         /\ jobs[i] = told[i]
         /\ \/ [id |-> i, at |-> told[i].at] \in armed
            \/ /\ OneShot(told[i])
               /\ \E f \in fires : f.id = i /\ (f.step = "read" \/ (f.step = "emit" /\ f.job = told[i]))

\* A fire that holds a one-shot holds the one that stands, until it has emitted
\* it.
Delivered(i) ==
  i \in Smooth => \A f \in fires : f.id = i /\ f.step # "read" /\ OneShot(f.job) =>
    told[i] = None \/ (f.step = "emit" /\ told[i] = f.job)

\* A timer is set with its job, and goes with it.
LEMMA EnteredStep ==
  ASSUME TypeOK, TypeOK', Shapes, [Next]_vars, NEW i \in Id, Entered(i)
  PROVE  Entered(i)'
<1>t. TypeOK /\ Shapes /\ Entered(i)
  OBVIOUS
<1>0. CASE Still(i)
  BY <1>0, <1>t DEF Still, Entered
<1>1. ASSUME NEW at \in 0..MaxTime, Create(i, at), Next PROVE Entered(i)'
  BY <1>1, <1>t, CreateEffect DEF Entered
<1>2. CASE CreateSchedule /\ op.id = i /\ Next
  <2>1. Scheduled(i, op.job) \/ Refused(i, op.job)
    BY <1>2, <1>t, CreateScheduleHere
  <2>. QED  BY <2>1, <1>t DEF Scheduled, Refused, Entered
<1>3. CASE CreateUndo /\ op.id = i /\ Next
  BY <1>3, <1>t, CreateUndoEffect DEF Entered
<1>4. ASSUME NEW at \in 0..MaxTime, Update(i, at), Next PROVE Entered(i)'
  BY <1>4, <1>t, UpdateEffect DEF Entered
<1>5. CASE UpdateSave /\ op.id = i /\ Next
  BY <1>5, <1>t, UpdateSaveEffect DEF Entered
<1>6. CASE UpdateSchedule /\ op.id = i /\ Next
  <2>1. Scheduled(i, op.job) \/ Refused(i, op.job)
    BY <1>6, <1>t, UpdateScheduleHere
  <2>. QED  BY <2>1, <1>t DEF Scheduled, Refused, Entered
<1>7. CASE Cancel(i) /\ Next
  BY <1>7, <1>t, CancelEffect DEF Entered
<1>8. CASE CancelDelete /\ op.id = i /\ Next
  BY <1>8, <1>t, CancelDeleteEffect DEF Entered
<1>9. ASSUME NEW e \in armed, GoOff(e), e.id = i, Next PROVE Entered(i)'
  BY <1>9, <1>t, GoOffEffect DEF Entered
<1>10. ASSUME NEW f \in fires, FireRead(f), f.id = i, Next PROVE Entered(i)'
  BY <1>10, <1>t, FireReadEffect DEF Entered
<1>11. ASSUME NEW f \in fires, FireEmit(f), f.id = i, Next PROVE Entered(i)'
  BY <1>11, <1>t, FireEmitHere DEF Entered
<1>12. ASSUME NEW f \in fires, FireClean(f), f.id = i, Next PROVE Entered(i)'
  BY <1>12, <1>t, FireCleanEffect DEF Entered
<1>13. ASSUME NEW f \in fires, FireDelete(f), f.id = i, Next PROVE Entered(i)'
  BY <1>13, <1>t, FireDeleteEffect DEF Entered
<1>14. CASE LoadAll /\ Next
  BY <1>14, <1>t, LoadAllEffect DEF Entered
<1>15. ASSUME NEW x \in loading, LoadOne(x), x.id = i, Next PROVE Entered(i)'
  <2>1. Scheduled(i, x.job) \/ Refused(i, x.job) \/ UNCHANGED <<jobs, entries, armed>>
    BY <1>15, <1>t, LoadOneHere
  <2>. QED  BY <2>1, <1>t DEF Scheduled, Refused, Entered
<1>16. CASE Crash /\ Next
  BY <1>16, <1>t DEF Crash, store, Entered
<1>. QED
  BY <1>0, <1>1, <1>2, <1>3, <1>4, <1>5, <1>6, <1>7, <1>8, <1>9, <1>10, <1>11, <1>12, <1>13, <1>14, <1>15, <1>16, StillOrAbout DEF About

\* A new version is made by Create and Update only, and never a smaller one.
LEMMA NumberedStep ==
  ASSUME TypeOK, TypeOK', Shapes, [Next]_vars, NEW i \in Id, Entered(i), Numbered(i)
  PROVE  Numbered(i)'
<1>t. TypeOK /\ Shapes /\ Numbered(i) /\ Entered(i)
  OBVIOUS
<1>d. /\ now \in Int /\ now' \in Int /\ versions[i] \in Int /\ DOMAIN versions = Id
      /\ DOMAIN jobs = Id /\ DOMAIN told = Id /\ DOMAIN files = Id
      /\ \A j \in Job : j.version \in Int /\ j.version >= 1
      /\ files[i] \in Job \cup {None} /\ jobs[i] \in Job \cup {None} /\ told[i] \in Job \cup {None}
      /\ \A f \in fires : f.job \in Job \cup {None}
      /\ \A n \in DOMAIN rings[i] : rings[i][n].job \in Job /\ rings[i][n].time \in Int
  BY PointTypes DEF Typed
<1>0. CASE Still(i)
  BY <1>0, <1>t, <1>d DEF Still, Numbered, OnOp
<1>1. ASSUME NEW at \in 0..MaxTime, Create(i, at), Next PROVE Numbered(i)'
  BY <1>1, <1>t, <1>d, CreateEffect DEF Numbered, OnOp
<1>2. CASE CreateSchedule /\ op.id = i /\ Next
  <2>1. /\ jobs'[i] \in {jobs[i], op.job} /\ told'[i] \in {told[i], op.job}
        /\ op.job \in Job /\ op.job.version = versions[i]
        /\ UNCHANGED <<files, loading, fires, now, versions, cancelled, rings>>
        /\ op' = None \/ op'.kind = "create"
    BY <1>2, <1>t, CreateScheduleHere DEF Scheduled, Refused
  <2>. QED  BY <1>t, <1>d, <2>1 DEF Numbered, OnOp
<1>3. CASE CreateUndo /\ op.id = i /\ Next
  BY <1>3, <1>t, <1>d, CreateUndoEffect DEF Numbered, OnOp
<1>4. ASSUME NEW at \in 0..MaxTime, Update(i, at), Next PROVE Numbered(i)'
  <2>1. /\ versions'[i] = versions[i] + 1 /\ op'.kind = "update"
        /\ UNCHANGED <<files, jobs, loading, fires, now, told, cancelled, rings>>
    BY <1>4, <1>t, <1>d, UpdateEffect
  <2>2. \A x \in loading : x.job.version \in Int
    BY <1>d, PointTypes DEF Typed
  <2>. QED  BY <1>t, <1>d, <2>1, <2>2 DEF Numbered, OnOp
<1>5. CASE UpdateSave /\ op.id = i /\ Next
  BY <1>5, <1>t, <1>d, UpdateSaveEffect DEF Numbered, OnOp
<1>6. CASE UpdateSchedule /\ op.id = i /\ Next
  <2>1. /\ jobs'[i] \in {jobs[i], op.job} /\ told'[i] \in {told[i], op.job}
        /\ op.job \in Job /\ op.job.version = versions[i]
        /\ UNCHANGED <<files, loading, fires, now, versions, cancelled, rings>>
        /\ op' = None \/ op'.kind = "create"
    BY <1>6, <1>t, UpdateScheduleHere DEF Scheduled, Refused
  <2>. QED  BY <1>t, <1>d, <2>1 DEF Numbered, OnOp
<1>7. CASE Cancel(i) /\ Next
  BY <1>7, <1>t, <1>d, CancelEffect DEF Numbered, OnOp
<1>8. CASE CancelDelete /\ op.id = i /\ Next
  BY <1>8, <1>t, <1>d, CancelDeleteEffect DEF Numbered, OnOp
<1>9. ASSUME NEW e \in armed, GoOff(e), e.id = i, Next PROVE Numbered(i)'
  <2>1. versions[i] > 0
    BY <1>9, <1>t, <1>d DEF Entered, Numbered
  <2>2. /\ UNCHANGED <<files, jobs, loading, op, now, versions, told, cancelled, rings>>
        /\ \A f \in fires' : f \in fires \/ f.job = None
    BY <1>9, <1>t, GoOffEffect
  <2>. QED  BY <1>t, <1>d, <2>1, <2>2 DEF Numbered, OnOp
<1>10. ASSUME NEW f \in fires, FireRead(f), f.id = i, Next PROVE Numbered(i)'
  BY <1>10, <1>t, <1>d, FireReadEffect DEF Numbered, OnOp
<1>11. ASSUME NEW f \in fires, FireEmit(f), f.id = i, Next PROVE Numbered(i)'
  <2>1. /\ UNCHANGED <<files, jobs, loading, op, now, versions, cancelled>>
        /\ told'[i] \in {told[i], None} /\ f.job \in Job
        /\ \A g \in fires' : g \in fires \/ g.job = f.job
    BY <1>11, <1>t, FireEmitHere
  <2>2. \A n \in DOMAIN rings'[i] : \/ n \in DOMAIN rings[i] /\ rings'[i][n] = rings[i][n]
                                    \/ rings'[i][n].job = f.job /\ rings'[i][n].time = now
    BY <1>11, <1>t, FireEmitHere
  <2>3. f.job.version <= versions[i] /\ versions[i] > 0
    BY <1>11, <1>t, <2>1, SchedulerConstants DEF Numbered
  <2>4. \A n \in DOMAIN rings'[i] : rings'[i][n].job.version <= versions'[i] /\ rings'[i][n].time <= now'
    BY <1>t, <1>d, <2>1, <2>2, <2>3 DEF Numbered
  <2>. QED  BY <1>t, <1>d, <2>1, <2>3, <2>4 DEF Numbered, OnOp
<1>12. ASSUME NEW f \in fires, FireClean(f), f.id = i, Next PROVE Numbered(i)'
  BY <1>12, <1>t, <1>d, FireCleanEffect DEF Numbered, OnOp
<1>13. ASSUME NEW f \in fires, FireDelete(f), f.id = i, Next PROVE Numbered(i)'
  BY <1>13, <1>t, <1>d, FireDeleteEffect DEF Numbered, OnOp
<1>14. CASE LoadAll /\ Next
  BY <1>14, <1>t, <1>d, LoadAllEffect DEF Numbered, OnOp
<1>15. ASSUME NEW x \in loading, LoadOne(x), x.id = i, Next PROVE Numbered(i)'
  <2>1. /\ jobs'[i] \in {jobs[i], x.job} /\ files'[i] \in {files[i], None} /\ x.job \in Job
        /\ UNCHANGED <<fires, op, now, versions, told, cancelled, rings>>
        /\ loading' = loading \ {x}
    BY <1>15, <1>t, LoadOneHere DEF Scheduled, Refused
  <2>. QED  BY <1>15, <1>t, <1>d, <2>1 DEF Numbered, OnOp
<1>16. CASE Crash /\ Next
  BY <1>16, <1>t, <1>d DEF Crash, store, Numbered, OnOp
<1>. QED
  BY <1>0, <1>1, <1>2, <1>3, <1>4, <1>5, <1>6, <1>7, <1>8, <1>9, <1>10, <1>11, <1>12, <1>13, <1>14, <1>15, <1>16, StillOrAbout DEF About

\* While an edit is under way, copies are taken of the older job only: but for
\* Load, which the history names.
LEMMA NewestStep ==
  ASSUME TypeOK, TypeOK', Shapes, [Next]_vars, NEW i \in Id, Entered(i), Numbered(i), Newest(i)
  PROVE  Newest(i)'
<1>t. TypeOK /\ Shapes /\ Newest(i) /\ Entered(i) /\ Numbered(i)
  OBVIOUS
<1>d. /\ versions[i] \in Int /\ DOMAIN versions = Id /\ DOMAIN jobs = Id
      /\ \A j \in Job : j.version \in Int /\ j.version >= 1
      /\ jobs[i] \in Job \cup {None} /\ told[i] \in Job \cup {None}
      /\ \A f \in fires : f.job \in Job \cup {None}
      /\ \A n \in DOMAIN rings[i] : rings[i][n].job \in Job
  BY PointTypes DEF Typed
<1>o. /\ i \notin raced' => i \notin raced
      /\ Next /\ i \notin raced' /\ op # None /\ op.id = i => \A x \in loading : x.id # i
  BY OrderlyStep DEF Closes
<1>0. CASE Still(i)
  BY <1>0, <1>t, <1>d, <1>o DEF Still, Newest, OnOp, Edits
<1>1. ASSUME NEW at \in 0..MaxTime, Create(i, at), Next PROVE Newest(i)'
  <2>1. /\ versions[i] = 0 /\ versions'[i] = 1 /\ op = None
        /\ UNCHANGED <<jobs, fires, told, rings>>
        /\ op' = None \/ op'.kind = "create"
    BY <1>1, <1>t, <1>d, CreateEffect
  <2>2. /\ jobs[i] = None /\ told[i] = None /\ DOMAIN rings[i] = {} /\ \A f \in fires : f.id # i
    BY <1>t, <1>d, <2>1 DEF Numbered
  <2>. QED  BY <2>1, <2>2 DEF Newest
<1>2. CASE CreateSchedule /\ op.id = i /\ Next
  BY <1>2, <1>t, <1>d, <1>o, CreateScheduleHere DEF Scheduled, Refused, Newest, OnOp, Edits
<1>3. CASE CreateUndo /\ op.id = i /\ Next
  BY <1>3, <1>t, <1>d, <1>o, CreateUndoEffect DEF Newest, OnOp, Edits
<1>4. ASSUME NEW at \in 0..MaxTime, Update(i, at), Next PROVE Newest(i)'
  <2>1. /\ versions'[i] = versions[i] + 1 /\ op'.kind = "update"
        /\ UNCHANGED <<jobs, fires, told, rings>>
    BY <1>4, <1>t, <1>d, UpdateEffect
  <2>. QED  BY <1>t, <1>d, <2>1 DEF Newest, Numbered
<1>5. CASE UpdateSave /\ op.id = i /\ Next
  BY <1>5, <1>t, <1>d, <1>o, UpdateSaveEffect DEF Newest, OnOp, Edits
<1>6. CASE UpdateSchedule /\ op.id = i /\ Next
  BY <1>6, <1>t, <1>d, <1>o, UpdateScheduleHere DEF Scheduled, Refused, Newest, OnOp, Edits
<1>7. CASE Cancel(i) /\ Next
  BY <1>7, <1>t, <1>d, <1>o, CancelEffect DEF Newest, OnOp, Edits
<1>8. CASE CancelDelete /\ op.id = i /\ Next
  BY <1>8, <1>t, <1>d, <1>o, CancelDeleteEffect DEF Newest, OnOp, Edits
<1>9. ASSUME NEW e \in armed, GoOff(e), e.id = i, Next PROVE Newest(i)'
  <2>1. /\ UNCHANGED <<jobs, op, versions, told, rings>> /\ jobs[i] # None
        /\ \A f \in fires' : f \in fires \/ f.job = None
    BY <1>9, <1>t, GoOffEffect DEF Entered
  <2>2. i \notin raced' /\ OnOp(i, Edits) => jobs[i].version < versions[i] /\ jobs[i].version >= 1
    BY <1>t, <1>d, <1>o, <2>1 DEF Newest
  <2>3. i \notin raced' /\ OnOp(i, Edits) => op.kind # "create"
    BY <1>t, <1>d, <1>o, <2>1, <2>2 DEF Newest
  <2>. QED  BY <1>t, <1>d, <1>o, <2>1, <2>3 DEF Newest, OnOp
<1>10. ASSUME NEW f \in fires, FireRead(f), f.id = i, Next PROVE Newest(i)'
  BY <1>10, <1>t, <1>d, <1>o, FireReadEffect DEF Newest, OnOp, Edits
<1>11. ASSUME NEW f \in fires, FireEmit(f), f.id = i, Next PROVE Newest(i)'
  <2>1. /\ UNCHANGED <<jobs, op, versions>> /\ told'[i] \in {told[i], None} /\ f.job \in Job
        /\ \A g \in fires' : g \in fires \/ g.job = f.job
    BY <1>11, <1>t, FireEmitHere
  <2>2. \A n \in DOMAIN rings'[i] : \/ n \in DOMAIN rings[i] /\ rings'[i][n] = rings[i][n]
                                    \/ rings'[i][n].job = f.job
    BY <1>11, <1>t, FireEmitHere
  <2>3. i \notin raced /\ OnOp(i, Edits) => f.job.version < versions[i] /\ op.kind # "create"
    BY <1>11, <1>t, <2>1, SchedulerConstants DEF Newest
  <2>4. i \notin raced /\ OnOp(i, Edits) => \A n \in DOMAIN rings'[i] : rings'[i][n].job.version < versions[i]
    BY <1>t, <2>2, <2>3 DEF Newest
  <2>. QED  BY <1>t, <1>o, <2>1, <2>3, <2>4 DEF Newest, OnOp
<1>12. ASSUME NEW f \in fires, FireClean(f), f.id = i, Next PROVE Newest(i)'
  BY <1>12, <1>t, <1>d, <1>o, FireCleanEffect DEF Newest, OnOp, Edits
<1>13. ASSUME NEW f \in fires, FireDelete(f), f.id = i, Next PROVE Newest(i)'
  BY <1>13, <1>t, <1>d, <1>o, FireDeleteEffect DEF Newest, OnOp, Edits
<1>14. CASE LoadAll /\ Next
  BY <1>14, <1>t, <1>d, <1>o, LoadAllEffect DEF Newest, OnOp, Edits
<1>15. ASSUME NEW x \in loading, LoadOne(x), x.id = i, Next PROVE Newest(i)'
  BY <1>15, <1>t, <1>d, <1>o, LoadOneHere DEF Scheduled, Refused, Newest, OnOp, Edits
<1>16. CASE Crash /\ Next
  BY <1>16, <1>t, <1>d, <1>o DEF Crash, store, Newest, OnOp, Edits
<1>. QED
  BY <1>0, <1>1, <1>2, <1>3, <1>4, <1>5, <1>6, <1>7, <1>8, <1>9, <1>10, <1>11, <1>12, <1>13, <1>14, <1>15, <1>16, StillOrAbout DEF About

\* Nobody but the agent's calls writes a file that Load has read; no fire
\* deletes one that a call has just saved.
LEMMA CurrentStep ==
  ASSUME TypeOK, TypeOK', Shapes, [Next]_vars, NEW i \in Id, Numbered(i), Newest(i), Current(i)
  PROVE  Current(i)'
<1>t. TypeOK /\ Shapes /\ Current(i) /\ Numbered(i) /\ Newest(i)
  OBVIOUS
<1>d. DOMAIN files = Id
  BY PointTypes DEF Typed
<1>o. /\ i \notin raced' => i \notin raced
      /\ i \in Orderly' => i \in Orderly /\ i \notin raced'
      /\ Next /\ i \notin raced' /\ op # None /\ op.id = i => \A x \in loading : x.id # i
      /\ Next /\ i \in Orderly' /\ OnOp(i, {"update"}) =>
           \A f \in fires : f.id = i => f.step # "read" /\ ~OneShot(f.job)
  BY OrderlyStep DEF Closes
<1>0. CASE Still(i)
  BY <1>0, <1>t, <1>d, <1>o DEF Still, Current, OnOp, Edits
<1>1. ASSUME NEW at \in 0..MaxTime, Create(i, at), Next PROVE Current(i)'
  <2>1. /\ versions[i] = 0 /\ op = None /\ UNCHANGED loading
        /\ op' = None \/ files'[i] = op'.job
    BY <1>1, <1>t, <1>d, CreateEffect
  <2>2. \A x \in loading : x.id # i
    BY <1>t, <2>1 DEF Numbered
  <2>. QED  BY <2>1, <2>2 DEF Current, OnOp
<1>2. CASE CreateSchedule /\ op.id = i /\ Next
  BY <1>2, <1>t, <1>d, <1>o, CreateScheduleHere DEF Scheduled, Refused, Current, OnOp, Edits
<1>3. CASE CreateUndo /\ op.id = i /\ Next
  BY <1>3, <1>t, <1>d, <1>o, CreateUndoEffect DEF Current, OnOp, Edits
<1>4. ASSUME NEW at \in 0..MaxTime, Update(i, at), Next PROVE Current(i)'
  BY <1>4, <1>t, <1>d, <1>o, UpdateEffect DEF Current, OnOp, Edits
<1>5. CASE UpdateSave /\ op.id = i /\ Next
  BY <1>5, <1>t, <1>d, <1>o, UpdateSaveEffect DEF Current, OnOp, Edits
<1>6. CASE UpdateSchedule /\ op.id = i /\ Next
  BY <1>6, <1>t, <1>d, <1>o, UpdateScheduleHere DEF Scheduled, Refused, Current, OnOp, Edits
<1>7. CASE Cancel(i) /\ Next
  BY <1>7, <1>t, <1>d, <1>o, CancelEffect DEF Current, OnOp, Edits
<1>8. CASE CancelDelete /\ op.id = i /\ Next
  BY <1>8, <1>t, <1>d, <1>o, CancelDeleteEffect DEF Current, OnOp, Edits
<1>9. ASSUME NEW e \in armed, GoOff(e), e.id = i, Next PROVE Current(i)'
  BY <1>9, <1>t, <1>d, <1>o, GoOffEffect DEF Current, OnOp, Edits
<1>10. ASSUME NEW f \in fires, FireRead(f), f.id = i, Next PROVE Current(i)'
  BY <1>10, <1>t, <1>d, <1>o, FireReadEffect DEF Current, OnOp, Edits
<1>11. ASSUME NEW f \in fires, FireEmit(f), f.id = i, Next PROVE Current(i)'
  BY <1>11, <1>t, <1>d, <1>o, FireEmitHere DEF Current, OnOp, Edits
<1>12. ASSUME NEW f \in fires, FireClean(f), f.id = i, Next PROVE Current(i)'
  BY <1>12, <1>t, <1>d, <1>o, FireCleanEffect DEF Current, OnOp, Edits
<1>13. ASSUME NEW f \in fires, FireDelete(f), f.id = i, Next PROVE Current(i)'
  <2>1. loading = {} /\ loading' = {} /\ op' = op /\ f.step = "delete" /\ OneShot(f.job)
    BY <1>13, <1>t, FireDeleteEffect DEF Shapes
  <2>2. i \in Orderly' /\ OnOp(i, Edits) => FALSE
    BY <1>13, <1>t, <1>o, <2>1 DEF Newest, OnOp, Edits
  <2>. QED  BY <2>1, <2>2 DEF Current, OnOp
<1>14. CASE LoadAll /\ Next
  BY <1>14, <1>t, <1>d, <1>o, LoadAllEffect DEF Current, OnOp, Edits
<1>15. ASSUME NEW x \in loading, LoadOne(x), x.id = i, Next PROVE Current(i)'
  <2>1. loading' = loading \ {x} /\ op' = op
    BY <1>15, <1>t, LoadOneHere
  <2>2. \A y \in loading' : y.id # i
    BY <1>15, <1>t, <2>1 DEF Shapes
  <2>3. i \in Orderly' /\ OnOp(i, Edits) => FALSE
    BY <1>15, <1>o DEF OnOp
  <2>. QED  BY <2>1, <2>2, <2>3 DEF Current, OnOp
<1>16. CASE Crash /\ Next
  BY <1>16, <1>t, <1>d, <1>o DEF Crash, store, Current, OnOp, Edits
<1>. QED
  BY <1>0, <1>1, <1>2, <1>3, <1>4, <1>5, <1>6, <1>7, <1>8, <1>9, <1>10, <1>11, <1>12, <1>13, <1>14, <1>15, <1>16, StillOrAbout DEF About

\* A job is scheduled after it was saved.
LEMMA SameFileStep ==
  ASSUME TypeOK, TypeOK', Shapes, [Next]_vars, NEW i \in Id, Entered(i), Numbered(i), Current(i), SameFile(i)
  PROVE  SameFile(i)'
<1>t. TypeOK /\ Shapes /\ SameFile(i) /\ Entered(i) /\ Numbered(i) /\ Current(i)
  OBVIOUS
<1>d. /\ DOMAIN files = Id /\ DOMAIN jobs = Id /\ None \notin Job
      /\ jobs[i] \in Job \cup {None}
      /\ \A j \in Job : j.version \in Int /\ j.version >= 1
  BY PointTypes DEF Typed
<1>o. /\ i \in Orderly' => i \in Orderly /\ i \notin raced'
      /\ i \notin raced' => i \notin raced
  BY OrderlyStep DEF Closes
<1>0. CASE Still(i)
  BY <1>0, <1>t, <1>d, <1>o DEF Still, SameFile, OnOp, Edits
<1>1. ASSUME NEW at \in 0..MaxTime, Create(i, at), Next PROVE SameFile(i)'
  <2>1. jobs[i] = None /\ UNCHANGED armed
    BY <1>1, <1>t, <1>d, CreateEffect DEF Numbered
  <2>. QED  BY <1>t, <2>1 DEF SameFile, Entered
<1>2. CASE CreateSchedule /\ op.id = i /\ Next
  <2>1. /\ op # None /\ op.id = i /\ op.kind \in Edits /\ op.step = "schedule" /\ files' = files
        /\ Scheduled(i, op.job) \/ Refused(i, op.job)
    BY <1>2, <1>t, CreateScheduleHere DEF OnOp, Edits
  <2>2. i \in Orderly' => files[i] = op.job
    BY <1>t, <1>o, <2>1 DEF Current, OnOp
  <2>. QED  BY <2>1, <2>2 DEF SameFile, Scheduled, Refused
<1>3. CASE CreateUndo /\ op.id = i /\ Next
  BY <1>3, <1>t, <1>d, <1>o, CreateUndoEffect DEF SameFile, OnOp, Edits
<1>4. ASSUME NEW at \in 0..MaxTime, Update(i, at), Next PROVE SameFile(i)'
  BY <1>4, <1>t, <1>d, <1>o, UpdateEffect DEF SameFile, OnOp, Edits
<1>5. CASE UpdateSave /\ op.id = i /\ Next
  BY <1>5, <1>t, <1>d, <1>o, UpdateSaveEffect DEF SameFile, OnOp, Edits
<1>6. CASE UpdateSchedule /\ op.id = i /\ Next
  <2>1. /\ op # None /\ op.id = i /\ op.kind \in Edits /\ op.step = "schedule" /\ files' = files
        /\ Scheduled(i, op.job) \/ Refused(i, op.job)
    BY <1>6, <1>t, UpdateScheduleHere DEF OnOp, Edits
  <2>2. i \in Orderly' => files[i] = op.job
    BY <1>t, <1>o, <2>1 DEF Current, OnOp
  <2>. QED  BY <2>1, <2>2 DEF SameFile, Scheduled, Refused
<1>7. CASE Cancel(i) /\ Next
  BY <1>7, <1>t, <1>d, <1>o, CancelEffect DEF SameFile, OnOp, Edits
<1>8. CASE CancelDelete /\ op.id = i /\ Next
  BY <1>8, <1>t, <1>d, <1>o, CancelDeleteEffect DEF SameFile, OnOp, Edits
<1>9. ASSUME NEW e \in armed, GoOff(e), e.id = i, Next PROVE SameFile(i)'
  BY <1>9, <1>t, <1>d, <1>o, GoOffEffect DEF SameFile, OnOp, Edits
<1>10. ASSUME NEW f \in fires, FireRead(f), f.id = i, Next PROVE SameFile(i)'
  BY <1>10, <1>t, <1>d, <1>o, FireReadEffect DEF SameFile, OnOp, Edits
<1>11. ASSUME NEW f \in fires, FireEmit(f), f.id = i, Next PROVE SameFile(i)'
  BY <1>11, <1>t, <1>d, <1>o, FireEmitHere DEF SameFile, OnOp, Edits
<1>12. ASSUME NEW f \in fires, FireClean(f), f.id = i, Next PROVE SameFile(i)'
  BY <1>12, <1>t, <1>d, <1>o, FireCleanEffect DEF SameFile, OnOp, Edits
<1>13. ASSUME NEW f \in fires, FireDelete(f), f.id = i, Next PROVE SameFile(i)'
  BY <1>13, <1>t, <1>d, <1>o, FireDeleteEffect DEF SameFile, OnOp, Edits
<1>14. CASE LoadAll /\ Next
  BY <1>14, <1>t, <1>d, <1>o, LoadAllEffect DEF SameFile, OnOp, Edits
<1>15. ASSUME NEW x \in loading, LoadOne(x), x.id = i, Next PROVE SameFile(i)'
  <2>1. i \in Orderly' => files[i] = x.job
    BY <1>15, <1>t, <1>o DEF Current
  <2>2. /\ op' = op
        /\ \/ UNCHANGED <<jobs, armed>> /\ files'[i] \in {files[i], None}
           \/ Scheduled(i, x.job) /\ files' = files
           \/ Refused(i, x.job)
    BY <1>15, <1>t, LoadOneHere
  <2>. QED  BY <1>t, <1>o, <2>1, <2>2 DEF SameFile, Scheduled, Refused, OnOp
<1>16. CASE Crash /\ Next
  BY <1>16, <1>t, <1>d, <1>o DEF Crash, store, SameFile, OnOp, Edits
<1>. QED
  BY <1>0, <1>1, <1>2, <1>3, <1>4, <1>5, <1>6, <1>7, <1>8, <1>9, <1>10, <1>11, <1>12, <1>13, <1>14, <1>15, <1>16, StillOrAbout DEF About

\* What is emitted was due and new.
LEMMA InTimeStep ==
  ASSUME TypeOK, TypeOK', Shapes, [Next]_vars, NEW i \in Id, Numbered(i), Due(i), InTime(i)
  PROVE  InTime(i)'
<1>t. TypeOK /\ Shapes /\ InTime(i) /\ Numbered(i) /\ Due(i)
  OBVIOUS
<1>d. /\ now \in Int /\ \A j \in Job : j.at \in Int
  BY PointTypes DEF Typed
<1>o. /\ i \in Orderly' => i \in Orderly
  BY OrderlyStep DEF Closes
<1>0. CASE Still(i)
  BY <1>0, <1>t, <1>d, <1>o DEF Still, InTime
<1>1. ASSUME NEW at \in 0..MaxTime, Create(i, at), Next PROVE InTime(i)'
  BY <1>1, <1>t, <1>d, <1>o, CreateEffect DEF InTime
<1>2. CASE CreateSchedule /\ op.id = i /\ Next
  <2>1. rings' = rings
    BY <1>2, <1>t, CreateScheduleHere
  <2>. QED  BY <1>t, <1>o, <2>1 DEF InTime
<1>3. CASE CreateUndo /\ op.id = i /\ Next
  BY <1>3, <1>t, <1>d, <1>o, CreateUndoEffect DEF InTime
<1>4. ASSUME NEW at \in 0..MaxTime, Update(i, at), Next PROVE InTime(i)'
  BY <1>4, <1>t, <1>d, <1>o, UpdateEffect DEF InTime
<1>5. CASE UpdateSave /\ op.id = i /\ Next
  BY <1>5, <1>t, <1>d, <1>o, UpdateSaveEffect DEF InTime
<1>6. CASE UpdateSchedule /\ op.id = i /\ Next
  <2>1. rings' = rings
    BY <1>6, <1>t, UpdateScheduleHere
  <2>. QED  BY <1>t, <1>o, <2>1 DEF InTime
<1>7. CASE Cancel(i) /\ Next
  BY <1>7, <1>t, <1>d, <1>o, CancelEffect DEF InTime
<1>8. CASE CancelDelete /\ op.id = i /\ Next
  BY <1>8, <1>t, <1>d, <1>o, CancelDeleteEffect DEF InTime
<1>9. ASSUME NEW e \in armed, GoOff(e), e.id = i, Next PROVE InTime(i)'
  BY <1>9, <1>t, <1>d, <1>o, GoOffEffect DEF InTime
<1>10. ASSUME NEW f \in fires, FireRead(f), f.id = i, Next PROVE InTime(i)'
  BY <1>10, <1>t, <1>d, <1>o, FireReadEffect DEF InTime
<1>11. ASSUME NEW f \in fires, FireEmit(f), f.id = i, Next PROVE InTime(i)'
  <2>1. /\ f.step = "emit" /\ f.job \in Job
        /\ DOMAIN rings'[i] = 1..(Len(rings[i]) + 1) /\ DOMAIN rings[i] = 1..Len(rings[i])
        /\ Len(rings[i]) \in Nat
        /\ \A n \in DOMAIN rings[i] : rings'[i][n] = rings[i][n]
        /\ rings'[i][Len(rings[i]) + 1].job = f.job /\ rings'[i][Len(rings[i]) + 1].time = now
    BY <1>11, <1>t, FireEmitHere
  <2>. SUFFICES ASSUME i \in Orderly, NEW n \in DOMAIN rings'[i], OneShot(rings'[i][n].job)
                PROVE  /\ rings'[i][n].job.at < rings'[i][n].time
                       /\ \A m \in DOMAIN rings'[i] \ {n} : rings'[i][m].job # rings'[i][n].job
    BY <1>o DEF InTime
  <2>2. OneShot(f.job) => f.job.at < now /\ \A m \in DOMAIN rings[i] : rings[i][m].job # f.job
    BY <1>11, <1>t, <2>1 DEF Due
  <2>3. CASE n = Len(rings[i]) + 1
    BY <2>1, <2>2, <2>3
  <2>4. CASE n \in DOMAIN rings[i]
    <3>1. rings'[i][n] = rings[i][n] /\ OneShot(rings[i][n].job)
      BY <2>1, <2>4
    <3>2. /\ rings[i][n].job.at < rings[i][n].time
          /\ \A m \in DOMAIN rings[i] \ {n} : rings[i][m].job # rings[i][n].job
      BY <1>t, <2>4, <3>1 DEF InTime
    <3>3. f.job # rings[i][n].job
      BY <2>2, <2>4, <3>1
    <3>. QED  BY <2>1, <3>1, <3>2, <3>3
  <2>. QED  BY <2>1, <2>3, <2>4
<1>12. ASSUME NEW f \in fires, FireClean(f), f.id = i, Next PROVE InTime(i)'
  BY <1>12, <1>t, <1>d, <1>o, FireCleanEffect DEF InTime
<1>13. ASSUME NEW f \in fires, FireDelete(f), f.id = i, Next PROVE InTime(i)'
  BY <1>13, <1>t, <1>d, <1>o, FireDeleteEffect DEF InTime
<1>14. CASE LoadAll /\ Next
  BY <1>14, <1>t, <1>d, <1>o, LoadAllEffect DEF InTime
<1>15. ASSUME NEW x \in loading, LoadOne(x), x.id = i, Next PROVE InTime(i)'
  <2>1. rings' = rings
    BY <1>15, <1>t, LoadOneHere
  <2>. QED  BY <1>t, <1>o, <2>1 DEF InTime
<1>16. CASE Crash /\ Next
  BY <1>16, <1>t, <1>d, <1>o DEF Crash, store, InTime
<1>. QED
  BY <1>0, <1>1, <1>2, <1>3, <1>4, <1>5, <1>6, <1>7, <1>8, <1>9, <1>10, <1>11, <1>12, <1>13, <1>14, <1>15, <1>16, StillOrAbout DEF About

\* A timer that goes off is spent, and the fire it starts takes the job away
\* before another can be set.
LEMMA OneFireStep ==
  ASSUME TypeOK, TypeOK', Shapes, [Next]_vars, NEW i \in Id, Entered(i), Numbered(i), Newest(i), Current(i), Due(i), OneFire(i)
  PROVE  OneFire(i)'
<1>t. TypeOK /\ Shapes /\ OneFire(i) /\ Entered(i) /\ Numbered(i) /\ Newest(i) /\ Current(i) /\ Due(i)
  OBVIOUS
<1>d. /\ DOMAIN files = Id /\ DOMAIN jobs = Id /\ None \notin Job /\ now \in Int
      /\ jobs[i] \in Job \cup {None}
      /\ \A j \in Job : j.at \in Int
  BY PointTypes DEF Typed
<1>o. /\ i \in Orderly' => i \in Orderly /\ i \notin raced'
      /\ i \notin raced' => i \notin raced
      /\ Next /\ i \notin raced' /\ op # None /\ op.id = i => \A x \in loading : x.id # i
      /\ Next /\ i \in Orderly' /\ OnOp(i, {"update"}) =>
           \A f \in fires : f.id = i => f.step # "read" /\ ~OneShot(f.job)
  BY OrderlyStep DEF Closes
<1>0. CASE Still(i)
  BY <1>0, <1>t, <1>d, <1>o DEF Still, OneFire, OnOp, Edits, Crossing
<1>1. ASSUME NEW at \in 0..MaxTime, Create(i, at), Next PROVE OneFire(i)'
  BY <1>1, <1>t, <1>d, <1>o, CreateEffect DEF OneFire, OnOp, Edits, Crossing
<1>2. CASE CreateSchedule /\ op.id = i /\ Next
  <2>1. /\ op # None /\ op.id = i /\ op.kind = "create" /\ fires' = fires
    BY <1>2, <1>t, CreateScheduleHere DEF OnOp
  <2>2. i \in Orderly' => \A f \in fires' : f.id # i
    BY <1>t, <1>o, <2>1 DEF Newest, OnOp, Edits
  <2>. QED  BY <2>2 DEF OneFire
<1>3. CASE CreateUndo /\ op.id = i /\ Next
  BY <1>3, <1>t, <1>d, <1>o, CreateUndoEffect DEF OneFire, OnOp, Edits, Crossing
<1>4. ASSUME NEW at \in 0..MaxTime, Update(i, at), Next PROVE OneFire(i)'
  BY <1>4, <1>t, <1>d, <1>o, UpdateEffect DEF OneFire, OnOp, Edits, Crossing
<1>5. CASE UpdateSave /\ op.id = i /\ Next
  BY <1>5, <1>t, <1>d, <1>o, UpdateSaveEffect DEF OneFire, OnOp, Edits, Crossing
<1>6. CASE UpdateSchedule /\ op.id = i /\ Next
  BY <1>6, <1>t, <1>d, <1>o, UpdateScheduleHere DEF Scheduled, Refused, OneFire, OnOp, Edits, Crossing
<1>7. CASE Cancel(i) /\ Next
  BY <1>7, <1>t, <1>d, <1>o, CancelEffect DEF OneFire, OnOp, Edits, Crossing
<1>8. CASE CancelDelete /\ op.id = i /\ Next
  BY <1>8, <1>t, <1>d, <1>o, CancelDeleteEffect DEF OneFire, OnOp, Edits, Crossing
<1>9. ASSUME NEW e \in armed, GoOff(e), e.id = i, Next PROVE OneFire(i)'
  <2>1. jobs[i] # None /\ jobs[i].at = e.at /\ \A a \in armed : a.id = i => a.at = e.at
    BY <1>9, <1>t DEF Entered
  <2>2. \A a \in armed : a.id = i => a = e
    <3>1. armed \subseteq [id : Id, at : 0..MaxTime]
      BY <1>t DEF TypeOK
    <3>2. ASSUME NEW a \in [id : Id, at : 0..MaxTime], NEW b \in [id : Id, at : 0..MaxTime],
                 a.id = b.id, a.at = b.at
          PROVE  a = b
      BY <3>2
    <3>. QED  BY <1>9, <2>1, <3>1, <3>2
  <2>3. \/ e.at = Recurring /\ armed' = armed
        \/ e.at # Recurring /\ armed' = armed \ {e}
    BY <1>9, <1>t, GoOffEffect
  <2>4. PICK r \in Fire : /\ fires' = fires \cup {r} /\ r \notin fires
                          /\ r.id = i /\ r.step = "read" /\ r.job = None
                          /\ r.cron <=> e.at = Recurring
    BY <1>9, <1>t, GoOffEffect
  <2>5. ASSUME i \in Orderly, NEW g \in fires, g.id = i, Crossing(g) PROVE FALSE
    <3>1. g.step = "read" /\ e.at = Recurring /\ g.job = None /\ g \in Fire
      BY <1>9, <1>t, <2>5 DEF OneFire, Shapes, TypeOK
    <3>2. g.cron
      BY <1>t, <2>1, <2>5, <3>1 DEF Due, OneShot
    <3>3. g = r
      BY <2>4, <2>5, <3>1, <3>2 DEF Fire
    <3>. QED  BY <2>4, <3>3
  <2>. QED  BY <1>o, <2>1, <2>2, <2>3, <2>4, <2>5 DEF OneFire, Crossing
<1>10. ASSUME NEW f \in fires, FireRead(f), f.id = i, Next PROVE OneFire(i)'
  <2>1. armed' = armed /\ \A a \in armed : a.id = i => jobs[i] # None /\ jobs[i].at = a.at
    BY <1>10, <1>t, FireReadEffect DEF Entered
  <2>2. CASE fires' = fires \ {f}
    BY <1>t, <1>o, <2>1, <2>2 DEF OneFire
  <2>3. CASE \E g \in Fire : fires' = (fires \ {f}) \cup {g} /\ g.id = i /\ g.step = "emit" /\ g.job = jobs[i]
    <3>1. PICK g \in Fire : fires' = (fires \ {f}) \cup {g} /\ g.id = i /\ g.step = "emit" /\ g.job = jobs[i]
      BY <2>3
    <3>2. i \in Orderly => \A q \in fires : q.id = i /\ Crossing(q) => q = f
      BY <1>10, <1>t, FireReadEffect DEF OneFire, Crossing
    <3>3. i \in Orderly => \A a \in armed : a.id = i => a.at = Recurring /\ ~Crossing(g)
      BY <1>10, <1>t, <2>1, <3>1, FireReadEffect DEF OneFire, Crossing, OneShot
    <3>. QED  BY <1>10, <1>o, <2>1, <3>1, <3>2, <3>3 DEF OneFire
  <2>. QED  BY <1>10, <1>t, <2>2, <2>3, FireReadEffect
<1>11. ASSUME NEW f \in fires, FireEmit(f), f.id = i, Next PROVE OneFire(i)'
  BY <1>11, <1>t, <1>d, <1>o, FireEmitHere DEF OneFire, OnOp, Edits, Crossing
<1>12. ASSUME NEW f \in fires, FireClean(f), f.id = i, Next PROVE OneFire(i)'
  BY <1>12, <1>t, <1>d, <1>o, FireCleanEffect DEF OneFire, OnOp, Edits, Crossing
<1>13. ASSUME NEW f \in fires, FireDelete(f), f.id = i, Next PROVE OneFire(i)'
  BY <1>13, <1>t, <1>d, <1>o, FireDeleteEffect DEF OneFire, OnOp, Edits, Crossing
<1>14. CASE LoadAll /\ Next
  BY <1>14, <1>t, <1>d, <1>o, LoadAllEffect DEF OneFire, OnOp, Edits, Crossing
<1>15. ASSUME NEW x \in loading, LoadOne(x), x.id = i, Next PROVE OneFire(i)'
  <2>1. fires' = fires /\ op' = op /\ x.job \in Job /\ source = "loading"
    BY <1>15, <1>t, LoadOneHere
  <2>2. CASE Scheduled(i, x.job)
    <3>1. ASSUME i \in Orderly, i \notin raced', NEW f \in fires, f.id = i PROVE FALSE
      <4>1. f.step = "read" /\ ~f.cron
        BY <1>t, <2>1, <3>1 DEF Shapes
      <4>2. files[i] = x.job /\ ~OnOp(i, {"update"})
        BY <1>15, <1>t, <1>o, <3>1 DEF Current, OnOp
      <4>3. OneShot(x.job) /\ x.job.at < now
        BY <1>t, <1>d, <2>1, <3>1, <4>1, <4>2 DEF Due
      <4>. QED  BY <1>d, <2>1, <2>2, <4>3 DEF Scheduled
    <3>. QED  BY <1>o, <2>1, <3>1 DEF OneFire
  <2>3. CASE UNCHANGED armed \/ Refused(i, x.job)
    BY <1>t, <1>o, <2>1, <2>3 DEF OneFire, Refused
  <2>. QED  BY <1>15, <1>t, <2>2, <2>3, LoadOneHere
<1>16. CASE Crash /\ Next
  BY <1>16, <1>t, <1>d, <1>o DEF Crash, store, OneFire, OnOp, Edits, Crossing
<1>. QED
  BY <1>0, <1>1, <1>2, <1>3, <1>4, <1>5, <1>6, <1>7, <1>8, <1>9, <1>10, <1>11, <1>12, <1>13, <1>14, <1>15, <1>16, StillOrAbout DEF About

\* A fire finds the job it was started for.
LEMMA DueStep ==
  ASSUME TypeOK, TypeOK', Shapes, [Next]_vars, NEW i \in Id, Entered(i), Numbered(i), Newest(i), Current(i), OneFire(i), SameFile(i), Rung(i), Due(i)
  PROVE  Due(i)'
<1>t. TypeOK /\ Shapes /\ Due(i) /\ Entered(i) /\ Numbered(i) /\ Newest(i) /\ Current(i) /\ OneFire(i) /\ SameFile(i) /\ Rung(i)
  OBVIOUS
<1>d. /\ DOMAIN files = Id /\ DOMAIN jobs = Id /\ None \notin Job /\ now \in Int /\ now' \in Int
      /\ jobs[i] \in Job \cup {None} /\ files[i] \in Job \cup {None}
      /\ \A f \in fires : f.job \in Job \cup {None}
      /\ \A j \in Job : j.at \in Int
  BY PointTypes DEF Typed
<1>o. /\ i \in Orderly' => i \in Orderly /\ i \notin raced'
      /\ i \notin raced' => i \notin raced
      /\ Next /\ i \notin raced' /\ op # None /\ op.id = i => \A x \in loading : x.id # i
      /\ Next /\ i \in Orderly' /\ OnOp(i, {"update"}) =>
           \A f \in fires : f.id = i => f.step # "read" /\ ~OneShot(f.job)
  BY OrderlyStep DEF Closes
<1>0. CASE Still(i)
  <2>. SUFFICES ASSUME i \in Orderly, NEW f \in fires', f.id = i
                PROVE  /\ f.step = "read" /\ jobs'[i] # None =>
                            IF f.cron THEN ~OneShot(jobs'[i]) ELSE OneShot(jobs'[i]) /\ jobs'[i].at < now'
                       /\ f.step = "read" /\ ~f.cron /\ files'[i] # None /\ ~OnOp(i, {"update"})' =>
                            OneShot(files'[i]) /\ files'[i].at < now'
                       /\ f.step = "emit" /\ OneShot(f.job) =>
                            f.job.at < now' /\ \A n \in DOMAIN rings'[i] : rings'[i][n].job # f.job
    BY <1>o DEF Due
  <2>1. f \in fires /\ files'[i] = files[i] /\ jobs'[i] = jobs[i] /\ rings'[i] = rings[i] /\ now <= now'
    BY <1>0 DEF Still
  <2>2. \A a \in Int : a < now => a < now'
    BY <1>d, <2>1
  <2>3. OnOp(i, {"update"}) => OnOp(i, {"update"})'
    BY <1>0 DEF Still, OnOp
  <2>4. f.step = "emit" => f.job \in Job
    BY <1>t, <1>d, <2>1 DEF Shapes
  <2>5. f.step = "read" /\ jobs[i] # None => IF f.cron THEN ~OneShot(jobs[i]) ELSE OneShot(jobs[i]) /\ jobs[i].at < now'
    BY <1>t, <1>d, <2>1, <2>2 DEF Due
  <2>6. f.step = "read" /\ ~f.cron /\ files[i] # None /\ ~OnOp(i, {"update"}) => OneShot(files[i]) /\ files[i].at < now'
    BY <1>t, <1>d, <2>1, <2>2 DEF Due
  <2>7. f.step = "emit" /\ OneShot(f.job) => f.job.at < now' /\ \A n \in DOMAIN rings[i] : rings[i][n].job # f.job
    BY <1>t, <1>d, <2>1, <2>2, <2>4 DEF Due
  <2>. QED  BY <2>1, <2>3, <2>5, <2>6, <2>7
<1>1. ASSUME NEW at \in 0..MaxTime, Create(i, at), Next PROVE Due(i)'
  <2>1. fires' = fires /\ \A f \in fires : f.id # i
    BY <1>1, <1>t, CreateEffect DEF Numbered
  <2>. QED  BY <2>1 DEF Due
<1>2. CASE CreateSchedule /\ op.id = i /\ Next
  <2>1. op # None /\ op.id = i /\ op.kind = "create" /\ fires' = fires
    BY <1>2, <1>t, CreateScheduleHere DEF OnOp
  <2>2. i \in Orderly' => \A f \in fires' : f.id # i
    BY <1>t, <1>o, <2>1 DEF Newest, OnOp, Edits
  <2>. QED  BY <2>2 DEF Due
<1>3. CASE CreateUndo /\ op.id = i /\ Next
  BY <1>3, <1>t, <1>d, <1>o, CreateUndoEffect DEF Due, OnOp, Edits
<1>4. ASSUME NEW at \in 0..MaxTime, Update(i, at), Next PROVE Due(i)'
  BY <1>4, <1>t, <1>d, <1>o, UpdateEffect DEF Due, OnOp, Edits
<1>5. CASE UpdateSave /\ op.id = i /\ Next
  BY <1>5, <1>t, <1>d, <1>o, UpdateSaveEffect DEF Due, OnOp, Edits
<1>6. CASE UpdateSchedule /\ op.id = i /\ Next
  BY <1>6, <1>t, <1>d, <1>o, UpdateScheduleHere DEF Scheduled, Refused, Due, OnOp, Edits
<1>7. CASE Cancel(i) /\ Next
  BY <1>7, <1>t, <1>d, <1>o, CancelEffect DEF Due, OnOp, Edits
<1>8. CASE CancelDelete /\ op.id = i /\ Next
  BY <1>8, <1>t, <1>d, <1>o, CancelDeleteEffect DEF Due, OnOp, Edits
<1>9. ASSUME NEW e \in armed, GoOff(e), e.id = i, Next PROVE Due(i)'
  <2>1. /\ jobs[i] # None /\ jobs[i].at = e.at
        /\ i \in Orderly /\ ~OnOp(i, {"update"}) => files[i] \in {None, jobs[i]}
    BY <1>9, <1>t DEF Entered, SameFile
  <2>2. /\ e.at = Recurring \/ e.at < now
        /\ UNCHANGED <<files, jobs, op, now, rings>>
    BY <1>9, <1>t, GoOffEffect
  <2>3. PICK r \in Fire : fires' = fires \cup {r} /\ r.step = "read" /\ (r.cron <=> e.at = Recurring)
    BY <1>9, <1>t, GoOffEffect
  <2>4. IF r.cron THEN ~OneShot(jobs[i]) ELSE OneShot(jobs[i]) /\ jobs[i].at < now
    BY <2>1, <2>2, <2>3 DEF OneShot
  <2>. QED  BY <1>t, <1>o, <2>1, <2>2, <2>3, <2>4 DEF Due, OnOp
<1>10. ASSUME NEW f \in fires, FireRead(f), f.id = i, Next PROVE Due(i)'
  <2>1. f.step = "read" /\ UNCHANGED <<files, jobs, op, now, rings>>
    BY <1>10, <1>t, FireReadEffect
  <2>2. CASE fires' = fires \ {f}
    BY <1>t, <1>o, <2>1, <2>2 DEF Due, OnOp
  <2>3. CASE \E g \in Fire : /\ fires' = (fires \ {f}) \cup {g} /\ jobs[i] \in Job
                             /\ g.id = i /\ g.step = "emit" /\ g.job = jobs[i]
    <3>1. PICK g \in Fire : /\ fires' = (fires \ {f}) \cup {g} /\ jobs[i] \in Job
                            /\ g.id = i /\ g.step = "emit" /\ g.job = jobs[i]
      BY <2>3
    <3>2. i \in Orderly /\ OneShot(g.job) => g.job.at < now
      BY <1>10, <1>t, <1>d, <2>1, <3>1 DEF Due
    <3>3. ASSUME i \in Orderly, OneShot(g.job), NEW n \in DOMAIN rings[i], rings[i][n].job = g.job PROVE FALSE
      <4>1. \E c \in fires : c.id = i /\ c.step = "clean" /\ c.job = g.job
        BY <1>t, <3>1, <3>3 DEF Rung
      <4>. QED  BY <1>10, <1>t, <2>1, <3>3, <4>1 DEF OneFire, Crossing
    <3>. QED  BY <1>t, <1>o, <2>1, <3>1, <3>2, <3>3 DEF Due, OnOp
  <2>. QED  BY <1>10, <1>t, <2>2, <2>3, FireReadEffect
<1>11. ASSUME NEW f \in fires, FireEmit(f), f.id = i, Next PROVE Due(i)'
  <2>1. UNCHANGED <<files, jobs, op, now>> /\ f.job \in Job
    BY <1>11, <1>t, FireEmitHere
  <2>2. PICK g \in Fire : fires' = (fires \ {f}) \cup {g} /\ g.step = "clean"
    BY <1>11, <1>t, FireEmitHere
  <2>3. \A n \in DOMAIN rings'[i] : \/ n \in DOMAIN rings[i] /\ rings'[i][n] = rings[i][n]
                                    \/ rings'[i][n].job = f.job
    BY <1>11, <1>t, FireEmitHere
  <2>4. ASSUME i \in Orderly, NEW q \in fires \ {f}, q.id = i, q.step = "emit", OneShot(q.job)
        PROVE  q.job # f.job /\ q.job.at < now /\ \A n \in DOMAIN rings[i] : rings[i][n].job # q.job
    BY <1>11, <1>t, <2>4 DEF Due, OneFire, Crossing
  <2>. QED  BY <1>t, <1>o, <2>1, <2>2, <2>3, <2>4 DEF Due, OnOp
<1>12. ASSUME NEW f \in fires, FireClean(f), f.id = i, Next PROVE Due(i)'
  BY <1>12, <1>t, <1>d, <1>o, FireCleanEffect DEF Due, OnOp, Edits
<1>13. ASSUME NEW f \in fires, FireDelete(f), f.id = i, Next PROVE Due(i)'
  BY <1>13, <1>t, <1>d, <1>o, FireDeleteEffect DEF Due, OnOp, Edits
<1>14. CASE LoadAll /\ Next
  BY <1>14, <1>t, <1>d, <1>o, LoadAllEffect DEF Due, OnOp, Edits
<1>15. ASSUME NEW x \in loading, LoadOne(x), x.id = i, Next PROVE Due(i)'
  <2>1. /\ UNCHANGED <<fires, op, now, rings>> /\ x.job \in Job /\ source = "loading"
        /\ files'[i] \in {files[i], None}
    BY <1>15, <1>t, LoadOneHere
  <2>2. \A f \in fires : f.step = "read" /\ ~f.cron
    BY <1>t, <2>1 DEF Shapes
  <2>3. CASE Scheduled(i, x.job)
    <3>1. ASSUME i \in Orderly, i \notin raced', NEW f \in fires, f.id = i PROVE FALSE
      <4>1. files[i] = x.job /\ ~OnOp(i, {"update"})
        BY <1>15, <1>t, <1>o, <3>1 DEF Current, OnOp
      <4>2. OneShot(x.job) /\ x.job.at < now
        BY <1>t, <1>d, <2>1, <2>2, <3>1, <4>1 DEF Due
      <4>. QED  BY <1>d, <2>1, <2>3, <4>2 DEF Scheduled
    <3>. QED  BY <1>o, <2>1, <3>1 DEF Due
  <2>4. CASE jobs'[i] = jobs[i]
    BY <1>t, <1>o, <2>1, <2>2, <2>4 DEF Due, OnOp
  <2>. QED  BY <1>15, <1>t, <2>3, <2>4, LoadOneHere DEF Refused
<1>16. CASE Crash /\ Next
  BY <1>16, <1>t, <1>d, <1>o DEF Crash, store, Due, OnOp, Edits
<1>. QED
  BY <1>0, <1>1, <1>2, <1>3, <1>4, <1>5, <1>6, <1>7, <1>8, <1>9, <1>10, <1>11, <1>12, <1>13, <1>14, <1>15, <1>16, StillOrAbout DEF About

\* The job of an emission is not scheduled again.
LEMMA RungStep ==
  ASSUME TypeOK, TypeOK', Shapes, [Next]_vars, NEW i \in Id, Numbered(i), Newest(i), InTime(i), Rung(i)
  PROVE  Rung(i)'
<1>t. TypeOK /\ Shapes /\ Rung(i) /\ Numbered(i) /\ Newest(i) /\ InTime(i)
  OBVIOUS
<1>d. /\ DOMAIN jobs = Id /\ None \notin Job /\ now \in Int /\ loadedAt \in Int
      /\ \A j \in Job : j.at \in Int /\ j.version \in Int
      /\ \A n \in DOMAIN rings[i] : rings[i][n].job \in Job /\ rings[i][n].time \in Int
  BY PointTypes DEF Typed
<1>o. /\ i \in Orderly' => i \in Orderly /\ i \notin raced'
      /\ i \notin raced' => i \notin raced
  BY OrderlyStep DEF Closes
<1>0. CASE Still(i)
  BY <1>0, <1>t, <1>d, <1>o DEF Still, Rung
<1>1. ASSUME NEW at \in 0..MaxTime, Create(i, at), Next PROVE Rung(i)'
  BY <1>1, <1>t, <1>d, <1>o, CreateEffect DEF Rung
<1>2. CASE CreateSchedule /\ op.id = i /\ Next
  <2>1. /\ op # None /\ op.id = i /\ op.kind \in Edits /\ op.job \in Job /\ op.job.version = versions[i]
        /\ UNCHANGED <<fires, loading, loadedAt, rings>> /\ jobs'[i] \in {jobs[i], op.job}
    BY <1>2, <1>t, CreateScheduleHere DEF OnOp, Edits, Scheduled, Refused
  <2>2. i \in Orderly' => \A n \in DOMAIN rings[i] : rings[i][n].job # op.job
    BY <1>t, <1>d, <1>o, <2>1 DEF Newest, OnOp
  <2>. QED  BY <1>t, <1>o, <2>1, <2>2 DEF Rung
<1>3. CASE CreateUndo /\ op.id = i /\ Next
  BY <1>3, <1>t, <1>d, <1>o, CreateUndoEffect DEF Rung
<1>4. ASSUME NEW at \in 0..MaxTime, Update(i, at), Next PROVE Rung(i)'
  BY <1>4, <1>t, <1>d, <1>o, UpdateEffect DEF Rung
<1>5. CASE UpdateSave /\ op.id = i /\ Next
  BY <1>5, <1>t, <1>d, <1>o, UpdateSaveEffect DEF Rung
<1>6. CASE UpdateSchedule /\ op.id = i /\ Next
  <2>1. /\ op # None /\ op.id = i /\ op.kind \in Edits /\ op.job \in Job /\ op.job.version = versions[i]
        /\ UNCHANGED <<fires, loading, loadedAt, rings>> /\ jobs'[i] \in {jobs[i], op.job}
    BY <1>6, <1>t, UpdateScheduleHere DEF OnOp, Edits, Scheduled, Refused
  <2>2. i \in Orderly' => \A n \in DOMAIN rings[i] : rings[i][n].job # op.job
    BY <1>t, <1>d, <1>o, <2>1 DEF Newest, OnOp
  <2>. QED  BY <1>t, <1>o, <2>1, <2>2 DEF Rung
<1>7. CASE Cancel(i) /\ Next
  BY <1>7, <1>t, <1>d, <1>o, CancelEffect DEF Rung
<1>8. CASE CancelDelete /\ op.id = i /\ Next
  BY <1>8, <1>t, <1>d, <1>o, CancelDeleteEffect DEF Rung
<1>9. ASSUME NEW e \in armed, GoOff(e), e.id = i, Next PROVE Rung(i)'
  BY <1>9, <1>t, <1>d, <1>o, GoOffEffect DEF Rung
<1>10. ASSUME NEW f \in fires, FireRead(f), f.id = i, Next PROVE Rung(i)'
  BY <1>10, <1>t, <1>d, <1>o, FireReadEffect DEF Rung
<1>11. ASSUME NEW f \in fires, FireEmit(f), f.id = i, Next PROVE Rung(i)'
  <2>1. UNCHANGED <<jobs, source, loadedAt>> /\ f.step = "emit" /\ f.job \in Job
    BY <1>11, <1>t, FireEmitHere
  <2>2. PICK g \in Fire : fires' = (fires \ {f}) \cup {g} /\ g.id = i /\ g.step = "clean" /\ g.job = f.job
    BY <1>11, <1>t, FireEmitHere
  <2>3. \A n \in DOMAIN rings'[i] : \/ n \in DOMAIN rings[i] /\ rings'[i][n] = rings[i][n]
                                    \/ rings'[i][n].job = f.job
    BY <1>11, <1>t, FireEmitHere
  <2>4. loading' = {}
    <3>1. source # "loading" /\ loading' = loading
      BY <1>11, <1>t, <2>1, FireEmitHere DEF Shapes
    <3>. QED  BY <1>t, <3>1 DEF Shapes
  <2>. QED  BY <1>t, <1>o, <2>1, <2>2, <2>3, <2>4 DEF Rung
<1>12. ASSUME NEW f \in fires, FireClean(f), f.id = i, Next PROVE Rung(i)'
  BY <1>12, <1>t, <1>d, <1>o, FireCleanEffect DEF Rung
<1>13. ASSUME NEW f \in fires, FireDelete(f), f.id = i, Next PROVE Rung(i)'
  BY <1>13, <1>t, <1>d, <1>o, FireDeleteEffect DEF Rung
<1>14. CASE LoadAll /\ Next
  <2>1. /\ UNCHANGED <<jobs, fires, rings>> /\ loadedAt' = now /\ loading = {}
        /\ \A x \in loading' : x.job = files[x.id]
    BY <1>14, <1>t, LoadAllEffect DEF Shapes
  <2>2. i \in Orderly => \A n \in DOMAIN rings[i] : OneShot(rings[i][n].job) => rings[i][n].job.at < now
    BY <1>t, <1>d DEF InTime, Numbered
  <2>. QED  BY <1>t, <1>o, <2>1, <2>2 DEF Rung
<1>15. ASSUME NEW x \in loading, LoadOne(x), x.id = i, Next PROVE Rung(i)'
  <2>1. /\ UNCHANGED <<fires, loadedAt, rings>> /\ loading' = loading \ {x} /\ x.job \in Job
        /\ \/ jobs'[i] = jobs[i]
           \/ jobs'[i] = x.job /\ (OneShot(x.job) => loadedAt <= x.job.at)
    BY <1>15, <1>t, LoadOneHere DEF Scheduled, Refused
  <2>2. i \in Orderly => \A n \in DOMAIN rings[i] :
          OneShot(rings[i][n].job) /\ rings[i][n].job = x.job => x.job.at < loadedAt
    BY <1>15, <1>t DEF Rung
  <2>. QED  BY <1>t, <1>d, <1>o, <2>1, <2>2 DEF Rung
<1>16. CASE Crash /\ Next
  BY <1>16, <1>t, <1>d, <1>o DEF Crash, store, Rung
<1>. QED
  BY <1>0, <1>1, <1>2, <1>3, <1>4, <1>5, <1>6, <1>7, <1>8, <1>9, <1>10, <1>11, <1>12, <1>13, <1>14, <1>15, <1>16, StillOrAbout DEF About

\* The entry is lost alone only when schedule refuses a new time, which the
\* history names.
LEMMA HasEntryStep ==
  ASSUME TypeOK, TypeOK', Shapes, [Next]_vars, NEW i \in Id, Newest(i), HasEntry(i)
  PROVE  HasEntry(i)'
<1>t. TypeOK /\ Shapes /\ HasEntry(i) /\ Newest(i)
  OBVIOUS
<1>d. /\ DOMAIN jobs = Id /\ DOMAIN entries = Id /\ jobs[i] \in Job \cup {None}
      /\ \A j \in Job : j.version \in Int /\ j.version >= 1 /\ j.at # None
  BY PointTypes DEF Typed
<1>o. /\ i \notin raced' => i \notin raced
      /\ i \in Orderly' => i \notin raced'
      /\ i \in Smooth' => i \in Smooth /\ i \in Orderly' /\ i \notin halfway' /\ i \notin missed'
  BY OrderlyStep DEF Closes
<1>0. CASE Still(i)
  BY <1>0, <1>t, <1>d, <1>o DEF Still, HasEntry
<1>1. ASSUME NEW at \in 0..MaxTime, Create(i, at), Next PROVE HasEntry(i)'
  BY <1>1, <1>t, <1>d, <1>o, CreateEffect DEF HasEntry
<1>2. CASE CreateSchedule /\ op.id = i /\ Next
  <2>1. op # None /\ op.id = i /\ op.kind = "create" /\ op.job \in Job /\ (Scheduled(i, op.job) \/ Refused(i, op.job))
    BY <1>2, <1>t, CreateScheduleHere DEF OnOp
  <2>2. i \in Smooth' => jobs[i] = None
    BY <1>t, <1>d, <1>o, <2>1 DEF Newest, OnOp, Edits
  <2>. QED  BY <1>d, <2>1, <2>2 DEF HasEntry, Scheduled, Refused
<1>3. CASE CreateUndo /\ op.id = i /\ Next
  BY <1>3, <1>t, <1>d, <1>o, CreateUndoEffect DEF HasEntry
<1>4. ASSUME NEW at \in 0..MaxTime, Update(i, at), Next PROVE HasEntry(i)'
  BY <1>4, <1>t, <1>d, <1>o, UpdateEffect DEF HasEntry
<1>5. CASE UpdateSave /\ op.id = i /\ Next
  BY <1>5, <1>t, <1>d, <1>o, UpdateSaveEffect DEF HasEntry
<1>6. CASE UpdateSchedule /\ op.id = i /\ Next
  <2>1. (Scheduled(i, op.job) /\ op.job \in Job) \/ i \in halfway'
    BY <1>6, <1>t, UpdateScheduleHere
  <2>. QED  BY <1>d, <1>o, <2>1 DEF HasEntry, Scheduled
<1>7. CASE Cancel(i) /\ Next
  BY <1>7, <1>t, <1>d, <1>o, CancelEffect DEF HasEntry
<1>8. CASE CancelDelete /\ op.id = i /\ Next
  BY <1>8, <1>t, <1>d, <1>o, CancelDeleteEffect DEF HasEntry
<1>9. ASSUME NEW e \in armed, GoOff(e), e.id = i, Next PROVE HasEntry(i)'
  BY <1>9, <1>t, <1>d, <1>o, GoOffEffect DEF HasEntry
<1>10. ASSUME NEW f \in fires, FireRead(f), f.id = i, Next PROVE HasEntry(i)'
  BY <1>10, <1>t, <1>d, <1>o, FireReadEffect DEF HasEntry
<1>11. ASSUME NEW f \in fires, FireEmit(f), f.id = i, Next PROVE HasEntry(i)'
  BY <1>11, <1>t, <1>d, <1>o, FireEmitHere DEF HasEntry
<1>12. ASSUME NEW f \in fires, FireClean(f), f.id = i, Next PROVE HasEntry(i)'
  BY <1>12, <1>t, <1>d, <1>o, FireCleanEffect DEF HasEntry
<1>13. ASSUME NEW f \in fires, FireDelete(f), f.id = i, Next PROVE HasEntry(i)'
  BY <1>13, <1>t, <1>d, <1>o, FireDeleteEffect DEF HasEntry
<1>14. CASE LoadAll /\ Next
  BY <1>14, <1>t, <1>d, <1>o, LoadAllEffect DEF HasEntry
<1>15. ASSUME NEW x \in loading, LoadOne(x), x.id = i, Next PROVE HasEntry(i)'
  <2>1. (Scheduled(i, x.job) /\ x.job \in Job) \/ i \in missed'
    BY <1>15, <1>t, LoadOneHere
  <2>. QED  BY <1>d, <1>o, <2>1 DEF HasEntry, Scheduled
<1>16. CASE Crash /\ Next
  BY <1>16, <1>t, <1>d, <1>o DEF Crash, store, HasEntry
<1>. QED
  BY <1>0, <1>1, <1>2, <1>3, <1>4, <1>5, <1>6, <1>7, <1>8, <1>9, <1>10, <1>11, <1>12, <1>13, <1>14, <1>15, <1>16, StillOrAbout DEF About

\* No step brings a cancelled job back.
LEMMA GoneStep ==
  ASSUME TypeOK, TypeOK', Shapes, [Next]_vars, NEW i \in Id, Numbered(i), HasEntry(i), Gone(i)
  PROVE  Gone(i)'
<1>t. TypeOK /\ Shapes /\ Gone(i) /\ Numbered(i) /\ HasEntry(i)
  OBVIOUS
<1>d. /\ DOMAIN jobs = Id /\ DOMAIN files = Id
  BY PointTypes DEF Typed
<1>o. /\ i \in Smooth' => i \in Smooth /\ i \in Orderly' /\ i \notin halfway' /\ i \notin missed'
      /\ i \in Orderly' => i \notin raced'
      /\ Next /\ i \notin raced' /\ op # None /\ op.id = i => \A x \in loading : x.id # i
  BY OrderlyStep DEF Closes
<1>0. CASE Still(i)
  BY <1>0, <1>t, <1>d, <1>o DEF Still, Gone, OnOp, Settled
<1>1. ASSUME NEW at \in 0..MaxTime, Create(i, at), Next PROVE Gone(i)'
  <2>1. i \notin cancelled' /\ (op' = None \/ op'.kind = "create")
    BY <1>1, <1>t, CreateEffect DEF Numbered
  <2>. QED  BY <2>1 DEF Gone, OnOp
<1>2. CASE CreateSchedule /\ op.id = i /\ Next
  BY <1>2, <1>t, <1>d, <1>o, CreateScheduleHere DEF Scheduled, Refused, Gone, OnOp, Settled
<1>3. CASE CreateUndo /\ op.id = i /\ Next
  BY <1>3, <1>t, <1>d, <1>o, CreateUndoEffect DEF Gone, OnOp, Settled
<1>4. ASSUME NEW at \in 0..MaxTime, Update(i, at), Next PROVE Gone(i)'
  BY <1>4, <1>t, <1>d, <1>o, UpdateEffect DEF Gone, OnOp, Settled
<1>5. CASE UpdateSave /\ op.id = i /\ Next
  BY <1>5, <1>t, <1>d, <1>o, UpdateSaveEffect DEF Gone, OnOp, Settled
<1>6. CASE UpdateSchedule /\ op.id = i /\ Next
  BY <1>6, <1>t, <1>d, <1>o, UpdateScheduleHere DEF Scheduled, Refused, Gone, OnOp, Settled
<1>7. CASE Cancel(i) /\ Next
  <2>1. i \notin cancelled'
    BY <1>7, <1>t, CancelEffect
  <2>2. jobs'[i] = None \/ (entries[i] = None /\ jobs' = jobs)
    BY <1>7, <1>d DEF Cancel, Forgotten, manager
  <2>. QED  BY <1>t, <1>o, <2>1, <2>2 DEF Gone, HasEntry
<1>8. CASE CancelDelete /\ op.id = i /\ Next
  BY <1>8, <1>t, <1>d, <1>o, CancelDeleteEffect DEF Gone, OnOp, Settled
<1>9. ASSUME NEW e \in armed, GoOff(e), e.id = i, Next PROVE Gone(i)'
  BY <1>9, <1>t, <1>d, <1>o, GoOffEffect DEF Gone, OnOp, Settled
<1>10. ASSUME NEW f \in fires, FireRead(f), f.id = i, Next PROVE Gone(i)'
  BY <1>10, <1>t, <1>d, <1>o, FireReadEffect DEF Gone, OnOp, Settled
<1>11. ASSUME NEW f \in fires, FireEmit(f), f.id = i, Next PROVE Gone(i)'
  BY <1>11, <1>t, <1>d, <1>o, FireEmitHere DEF Gone, OnOp, Settled
<1>12. ASSUME NEW f \in fires, FireClean(f), f.id = i, Next PROVE Gone(i)'
  BY <1>12, <1>t, <1>d, <1>o, FireCleanEffect DEF Gone, OnOp, Settled
<1>13. ASSUME NEW f \in fires, FireDelete(f), f.id = i, Next PROVE Gone(i)'
  BY <1>13, <1>t, <1>d, <1>o, FireDeleteEffect DEF Gone, OnOp, Settled
<1>14. CASE LoadAll /\ Next
  BY <1>14, <1>t, <1>d, <1>o, LoadAllEffect DEF Gone, OnOp, Settled
<1>15. ASSUME NEW x \in loading, LoadOne(x), x.id = i, Next PROVE Gone(i)'
  BY <1>15, <1>t, <1>d, <1>o, LoadOneHere DEF Scheduled, Refused, Gone, OnOp, Settled
<1>16. CASE Crash /\ Next
  BY <1>16, <1>t, <1>d, <1>o DEF Crash, store, Gone, OnOp, Settled
<1>. QED
  BY <1>0, <1>1, <1>2, <1>3, <1>4, <1>5, <1>6, <1>7, <1>8, <1>9, <1>10, <1>11, <1>12, <1>13, <1>14, <1>15, <1>16, StillOrAbout DEF About

\* No step takes away what was promised, but to deliver it.
LEMMA PromiseStep ==
  ASSUME TypeOK, TypeOK', Shapes, [Next]_vars, NEW i \in Id, Entered(i), Numbered(i), Newest(i), Current(i), Delivered(i), Promise(i)
  PROVE  Promise(i)'
<1>t. TypeOK /\ Shapes /\ Promise(i) /\ Entered(i) /\ Numbered(i) /\ Newest(i) /\ Current(i) /\ Delivered(i)
  OBVIOUS
<1>d. /\ DOMAIN files = Id /\ DOMAIN told = Id /\ DOMAIN jobs = Id /\ None \notin Job
      /\ told[i] \in Job \cup {None} /\ files[i] \in Job \cup {None}
  BY PointTypes DEF Typed
<1>o. /\ i \in Smooth' => i \in Smooth /\ i \in Orderly' /\ i \notin halfway' /\ i \notin missed'
      /\ i \in Orderly' => i \notin raced' /\ i \in Orderly
      /\ i \notin raced' => i \notin raced
      /\ Next /\ i \notin raced' /\ op # None /\ op.id = i => \A x \in loading : x.id # i
      /\ Next /\ i \in Orderly' /\ OnOp(i, {"update"}) =>
           \A f \in fires : f.id = i => f.step # "read" /\ ~OneShot(f.job)
  BY OrderlyStep DEF Closes
<1>0. CASE Still(i) /\ (source' = source \/ Start \/ Stop \/ Boot)
  <2>2. Settled(i)' \/ (op'.kind = "update" /\ op'.step = "save") =>
          Settled(i) \/ (op.kind = "update" /\ op.step = "save")
    BY <1>0 DEF Still, Settled
  <2>3. source' = "on" \/ (source' = "loading" /\ \A x \in loading' : x.id # i) =>
          source = "on" \/ (source = "loading" /\ \A x \in loading : x.id # i)
    BY <1>0 DEF Still, Start, Stop, Boot
  <2>4. /\ files'[i] = files[i] /\ jobs'[i] = jobs[i] /\ told'[i] = told[i]
        /\ [id |-> i, at |-> told[i].at] \in armed => [id |-> i, at |-> told[i].at] \in armed'
        /\ \A f \in fires : f.id = i => f \in fires'
    BY <1>0 DEF Still
  <2>. QED  BY <1>t, <1>o, <2>2, <2>3, <2>4 DEF Promise
<1>1. ASSUME NEW at \in 0..MaxTime, Create(i, at), Next PROVE Promise(i)'
  BY <1>1, <1>t, <1>d, <1>o, CreateEffect DEF Promise, Settled
<1>2. CASE CreateSchedule /\ op.id = i /\ Next
  <2>1. /\ op # None /\ op.id = i /\ op.kind = "create" /\ op.step = "schedule" /\ op.job \in Job
        /\ UNCHANGED files
        /\ \/ Scheduled(i, op.job) /\ told'[i] = op.job
           \/ op' # None /\ op'.kind = "create" /\ op'.id = i
    BY <1>2, <1>t, CreateScheduleHere DEF OnOp
  <2>2. i \in Smooth' => files[i] = op.job
    BY <1>t, <1>o, <2>1 DEF Current, OnOp, Edits
  <2>. QED  BY <2>1, <2>2 DEF Promise, Settled, Scheduled
<1>3. CASE CreateUndo /\ op.id = i /\ Next
  <2>1. op # None /\ op.id = i /\ op.kind = "create" /\ UNCHANGED told
    BY <1>3, <1>t, CreateUndoEffect DEF OnOp
  <2>2. i \in Smooth' => told[i] = None
    <3>1. \A j \in Job : j.version \in Int /\ j.version >= 1
      BY PointTypes DEF Typed
    <3>. QED  BY <1>t, <1>d, <1>o, <2>1, <3>1 DEF Newest, OnOp, Edits
  <2>. QED  BY <2>1, <2>2 DEF Promise
<1>4. ASSUME NEW at \in 0..MaxTime, Update(i, at), Next PROVE Promise(i)'
  BY <1>4, <1>t, <1>d, <1>o, UpdateEffect DEF Promise, Settled
<1>5. CASE UpdateSave /\ op.id = i /\ Next
  <2>1. /\ op # None /\ op.id = i /\ op.kind = "update" /\ op.step = "save"
        /\ UNCHANGED <<jobs, armed, source, loading, fires, told>>
        /\ \/ files' = files
           \/ op' # None /\ op'.id = i /\ op'.step = "schedule"
    BY <1>5, <1>t, UpdateSaveEffect DEF OnOp
  <2>. QED  BY <1>t, <1>o, <2>1 DEF Promise, Settled
<1>6. CASE UpdateSchedule /\ op.id = i /\ Next
  <2>1. /\ op # None /\ op.id = i /\ op.kind = "update" /\ op.step = "schedule" /\ UNCHANGED files
        /\ \/ Scheduled(i, op.job) /\ told'[i] = op.job
           \/ i \in halfway'
    BY <1>6, <1>t, UpdateScheduleHere DEF OnOp
  <2>2. i \in Smooth' => files[i] = op.job
    BY <1>t, <1>o, <2>1 DEF Current, OnOp, Edits
  <2>. QED  BY <1>o, <2>1, <2>2 DEF Promise, Scheduled
<1>7. CASE Cancel(i) /\ Next
  BY <1>7, <1>t, <1>d, <1>o, CancelEffect DEF Promise, Settled
<1>8. CASE CancelDelete /\ op.id = i /\ Next
  BY <1>8, <1>t, <1>d, <1>o, CancelDeleteEffect DEF Promise, Settled
<1>9. ASSUME NEW e \in armed, GoOff(e), e.id = i, Next PROVE Promise(i)'
  <2>1. /\ UNCHANGED <<files, jobs, source, loading, op, told>> /\ jobs[i].at = e.at
        /\ \/ armed' = armed
           \/ e.at # Recurring
    BY <1>9, <1>t, GoOffEffect DEF Entered
  <2>2. PICK r \in Fire : fires' = fires \cup {r} /\ r.id = i /\ r.step = "read"
    BY <1>9, <1>t, GoOffEffect
  <2>3. e.at # Recurring => OneShot(jobs[i]) /\ r \in fires'
    BY <2>1, <2>2 DEF OneShot
  <2>. QED  BY <1>t, <1>o, <2>1, <2>2, <2>3 DEF Promise, Settled
<1>10. ASSUME NEW f \in fires, FireRead(f), f.id = i, Next PROVE Promise(i)'
  BY <1>10, <1>t, <1>d, <1>o, FireReadEffect DEF Promise, Settled
<1>11. ASSUME NEW f \in fires, FireEmit(f), f.id = i, Next PROVE Promise(i)'
  BY <1>11, <1>t, <1>d, <1>o, FireEmitHere DEF Promise, Settled
<1>12. ASSUME NEW f \in fires, FireClean(f), f.id = i, Next PROVE Promise(i)'
  <2>1. f.step = "clean" /\ UNCHANGED <<files, source, loading, op, told>>
    BY <1>12, <1>t, FireCleanEffect
  <2>2. CASE OneShot(f.job)
    <3>1. i \in Smooth => told[i] = None
      BY <1>12, <1>t, <2>1, <2>2 DEF Delivered
    <3>. QED  BY <1>o, <2>1, <3>1 DEF Promise
  <2>3. CASE ~OneShot(f.job)
    <3>1. fires' = fires \ {f} /\ UNCHANGED <<jobs, armed>>
      BY <1>12, <1>t, <2>3, FireCleanEffect
    <3>. QED  BY <1>t, <1>o, <2>1, <3>1 DEF Promise, Settled
  <2>. QED  BY <2>2, <2>3
<1>13. ASSUME NEW f \in fires, FireDelete(f), f.id = i, Next PROVE Promise(i)'
  <2>1. f.step = "delete" /\ OneShot(f.job) /\ UNCHANGED told
    BY <1>13, <1>t, FireDeleteEffect
  <2>2. i \in Smooth => told[i] = None
    BY <1>13, <1>t, <2>1 DEF Delivered
  <2>. QED  BY <1>o, <2>1, <2>2 DEF Promise
<1>14. CASE LoadAll /\ Next
  BY <1>14, <1>t, <1>d, <1>o, LoadAllEffect DEF Promise, Settled
<1>15. ASSUME NEW x \in loading, LoadOne(x), x.id = i, Next PROVE Promise(i)'
  <2>1. /\ UNCHANGED <<op, told>>
        /\ \/ Scheduled(i, x.job) /\ files' = files
           \/ i \in missed'
    BY <1>15, <1>t, LoadOneHere
  <2>2. i \in Smooth' => files[i] = x.job
    BY <1>15, <1>t, <1>o DEF Current
  <2>3. i \in Smooth' => Settled(i)
    BY <1>15, <1>o DEF Settled
  <2>. QED  BY <1>t, <1>o, <2>1, <2>2, <2>3 DEF Promise, Settled, Scheduled
<1>16. CASE Crash /\ Next
  <2>1. /\ UNCHANGED <<files, told>> /\ source' = "down"
        /\ i \in halfway' \/ Settled(i)
    BY <1>16 DEF Crash, store, Settled
  <2>. QED  BY <1>t, <1>o, <2>1 DEF Promise
<1>. QED
  BY <1>0, <1>1, <1>2, <1>3, <1>4, <1>5, <1>6, <1>7, <1>8, <1>9, <1>10, <1>11, <1>12, <1>13, <1>14, <1>15, <1>16, StillOrAbout DEF About

\* A fire reads the job that was promised.
LEMMA DeliveredStep ==
  ASSUME TypeOK, TypeOK', Shapes, [Next]_vars, NEW i \in Id, Newest(i), OneFire(i), Gone(i), Promise(i), Delivered(i)
  PROVE  Delivered(i)'
<1>t. TypeOK /\ Shapes /\ Delivered(i) /\ Newest(i) /\ OneFire(i) /\ Gone(i) /\ Promise(i)
  OBVIOUS
<1>d. /\ DOMAIN told = Id /\ None \notin Job
  BY PointTypes DEF Typed
<1>o. /\ i \in Smooth' => i \in Smooth /\ i \in Orderly' /\ i \notin halfway' /\ i \notin missed'
      /\ i \in Orderly' => i \notin raced' /\ i \in Orderly
      /\ i \notin raced' => i \notin raced
      /\ Next /\ i \in Orderly' /\ OnOp(i, {"update"}) =>
           \A f \in fires : f.id = i => f.step # "read" /\ ~OneShot(f.job)
  BY OrderlyStep DEF Closes
<1>0. CASE Still(i)
  BY <1>0, <1>t, <1>d, <1>o DEF Still, Delivered, OnOp, Edits, Settled
<1>1. ASSUME NEW at \in 0..MaxTime, Create(i, at), Next PROVE Delivered(i)'
  BY <1>1, <1>t, <1>d, <1>o, CreateEffect DEF Delivered, OnOp, Edits, Settled
<1>2. CASE CreateSchedule /\ op.id = i /\ Next
  <2>1. /\ op # None /\ op.id = i /\ op.kind = "create" /\ UNCHANGED fires
    BY <1>2, <1>t, CreateScheduleHere DEF OnOp
  <2>2. i \in Smooth' => \A f \in fires' : f.id # i
    BY <1>t, <1>o, <2>1 DEF Newest, OnOp, Edits
  <2>. QED  BY <2>2 DEF Delivered
<1>3. CASE CreateUndo /\ op.id = i /\ Next
  BY <1>3, <1>t, <1>d, <1>o, CreateUndoEffect DEF Delivered, OnOp, Edits, Settled
<1>4. ASSUME NEW at \in 0..MaxTime, Update(i, at), Next PROVE Delivered(i)'
  BY <1>4, <1>t, <1>d, <1>o, UpdateEffect DEF Delivered, OnOp, Edits, Settled
<1>5. CASE UpdateSave /\ op.id = i /\ Next
  BY <1>5, <1>t, <1>d, <1>o, UpdateSaveEffect DEF Delivered, OnOp, Edits, Settled
<1>6. CASE UpdateSchedule /\ op.id = i /\ Next
  BY <1>6, <1>t, <1>d, <1>o, UpdateScheduleHere DEF Scheduled, Refused, Delivered, OnOp, Edits, Settled
<1>7. CASE Cancel(i) /\ Next
  BY <1>7, <1>t, <1>d, <1>o, CancelEffect DEF Delivered, OnOp, Edits, Settled
<1>8. CASE CancelDelete /\ op.id = i /\ Next
  BY <1>8, <1>t, <1>d, <1>o, CancelDeleteEffect DEF Delivered, OnOp, Edits, Settled
<1>9. ASSUME NEW e \in armed, GoOff(e), e.id = i, Next PROVE Delivered(i)'
  BY <1>9, <1>t, <1>d, <1>o, GoOffEffect DEF Delivered, OnOp, Edits, Settled
<1>10. ASSUME NEW f \in fires, FireRead(f), f.id = i, Next PROVE Delivered(i)'
  <2>1. f.step = "read" /\ UNCHANGED <<op, told>>
    BY <1>10, <1>t, FireReadEffect
  <2>2. CASE fires' = fires \ {f}
    BY <1>t, <1>o, <2>1, <2>2 DEF Delivered
  <2>3. CASE \E g \in Fire : /\ fires' = (fires \ {f}) \cup {g} /\ jobs[i] # None /\ source = "on"
                             /\ g.id = i /\ g.step = "emit" /\ g.job = jobs[i]
    <3>1. PICK g \in Fire : /\ fires' = (fires \ {f}) \cup {g} /\ jobs[i] # None /\ source = "on"
                            /\ g.id = i /\ g.step = "emit" /\ g.job = jobs[i]
      BY <2>3
    <3>2. i \in Smooth' => Settled(i)
      <4>1. i \in Smooth' => ~OnOp(i, {"update"})
        BY <1>10, <1>o, <2>1
      <4>2. i \in Smooth' => ~OnOp(i, {"create"})
        BY <1>10, <1>t, <1>o DEF Newest, OnOp, Edits
      <4>3. i \in Smooth' => ~OnOp(i, {"cancel"})
        BY <1>t, <1>o, <3>1 DEF Gone
      <4>4. op # None => op.kind \in {"create", "update", "cancel"}
        BY <1>t DEF TypeOK, Call
      <4>. QED  BY <4>1, <4>2, <4>3, <4>4 DEF OnOp, Settled
    <3>3. i \in Smooth' => told[i] = None \/ told[i] = jobs[i]
      BY <1>t, <1>o, <3>1, <3>2 DEF Promise
    <3>. QED  BY <1>t, <1>o, <2>1, <3>1, <3>3 DEF Delivered
  <2>. QED
    <3>1. jobs[i] \in Job => jobs[i] # None
      BY <1>d
    <3>. QED  BY <1>10, <1>t, <2>2, <2>3, <3>1, FireReadEffect
<1>11. ASSUME NEW f \in fires, FireEmit(f), f.id = i, Next PROVE Delivered(i)'
  BY <1>11, <1>t, <1>d, <1>o, FireEmitHere DEF Delivered, OnOp, Edits, Settled
<1>12. ASSUME NEW f \in fires, FireClean(f), f.id = i, Next PROVE Delivered(i)'
  BY <1>12, <1>t, <1>d, <1>o, FireCleanEffect DEF Delivered, OnOp, Edits, Settled
<1>13. ASSUME NEW f \in fires, FireDelete(f), f.id = i, Next PROVE Delivered(i)'
  BY <1>13, <1>t, <1>d, <1>o, FireDeleteEffect DEF Delivered, OnOp, Edits, Settled
<1>14. CASE LoadAll /\ Next
  BY <1>14, <1>t, <1>d, <1>o, LoadAllEffect DEF Delivered, OnOp, Edits, Settled
<1>15. ASSUME NEW x \in loading, LoadOne(x), x.id = i, Next PROVE Delivered(i)'
  <2>1. UNCHANGED <<told, fires>>
    BY <1>15, LoadOneHere
  <2>2. i \in Smooth' => i \in Smooth
    BY <1>15, <1>o
  <2>. QED  BY <1>t, <2>1, <2>2 DEF Delivered
<1>16. CASE Crash /\ Next
  BY <1>16, <1>t, <1>d, <1>o DEF Crash, store, Delivered, OnOp, Edits, Settled
<1>. QED
  BY <1>0, <1>1, <1>2, <1>3, <1>4, <1>5, <1>6, <1>7, <1>8, <1>9, <1>10, <1>11, <1>12, <1>13, <1>14, <1>15, <1>16, StillOrAbout DEF About

-----------------------------------------------------------------------------
(* The theorems *)

Tidy(i) ==
  /\ Entered(i) /\ Numbered(i) /\ Newest(i) /\ Current(i)
  /\ OneFire(i) /\ SameFile(i) /\ Due(i) /\ Rung(i) /\ InTime(i)
  /\ HasEntry(i) /\ Gone(i) /\ Promise(i) /\ Delivered(i)

IInv == TypeOK /\ Shapes /\ \A i \in Id : Tidy(i)

\* The invariant holds at first, ...
LEMMA TidyInit == Init => IInv
<1>. SUFFICES ASSUME Init PROVE IInv
  OBVIOUS
<1>0. <<>> \in Seq([job : Job, time : 1..Late])
  OBVIOUS
<1>1. TypeOK
  BY <1>0, SchedulerConstants DEF Init, TypeOK, Late
<1>2. Shapes
  BY DEF Init, Shapes, Up
<1>3. ASSUME NEW i \in Id PROVE Tidy(i)
  <2>1. /\ files[i] = None /\ jobs[i] = None /\ told[i] = None /\ rings[i] = <<>>
        /\ armed = {} /\ loading = {} /\ fires = {} /\ op = None /\ cancelled = {}
    BY <1>3 DEF Init
  <2>2. DOMAIN rings[i] = {}
    BY <2>1
  <2>3. Entered(i) /\ Numbered(i) /\ Newest(i) /\ Current(i)
    BY <2>1, <2>2 DEF Entered, Numbered, Newest, Current, OnOp
  <2>4. OneFire(i) /\ SameFile(i) /\ Due(i) /\ Rung(i) /\ InTime(i)
    BY <2>1, <2>2 DEF OneFire, SameFile, Due, Rung, InTime
  <2>5. HasEntry(i) /\ Gone(i) /\ Promise(i) /\ Delivered(i)
    BY <2>1 DEF HasEntry, Gone, OnOp, Promise, Delivered
  <2>. QED  BY <2>3, <2>4, <2>5 DEF Tidy
<1>. QED  BY <1>1, <1>2, <1>3 DEF IInv

\* ... every step keeps it, ...
LEMMA TidyStep == IInv /\ [Next]_vars => IInv'
<1>. SUFFICES ASSUME IInv, [Next]_vars PROVE IInv'
  OBVIOUS
<1>t. TypeOK /\ Shapes
  BY DEF IInv
<1>1. TypeOK'
  BY <1>t, TypeStep
<1>2. Shapes'
  <2>1. CASE UNCHANGED vars
    BY <1>t, <2>1 DEF vars, store, manager, run, history, watched, Shapes, Up
  <2>. QED  BY <1>t, <2>1, ShapesStep
<1>3. ASSUME NEW i \in Id PROVE Tidy(i)'
  <2>1. /\ Entered(i) /\ Numbered(i) /\ Newest(i) /\ Current(i)
        /\ OneFire(i) /\ SameFile(i) /\ Due(i) /\ Rung(i) /\ InTime(i)
        /\ HasEntry(i) /\ Gone(i) /\ Promise(i) /\ Delivered(i)
    BY DEF IInv, Tidy
  <2>2. Entered(i)' /\ Numbered(i)' /\ Newest(i)' /\ Current(i)'
    BY <1>t, <1>1, <2>1, EnteredStep, NumberedStep, NewestStep, CurrentStep
  <2>3. OneFire(i)' /\ SameFile(i)' /\ Due(i)' /\ Rung(i)' /\ InTime(i)'
    BY <1>t, <1>1, <2>1, OneFireStep, SameFileStep, DueStep, RungStep, InTimeStep
  <2>4. HasEntry(i)' /\ Gone(i)' /\ Promise(i)' /\ Delivered(i)'
    BY <1>t, <1>1, <2>1, HasEntryStep, GoneStep, PromiseStep, DeliveredStep
  <2>. QED  BY <2>2, <2>3, <2>4 DEF Tidy
<1>. QED  BY <1>1, <1>2, <1>3 DEF IInv

\* ... so it always holds.
LEMMA TidyAlways == Spec => []IInv
<1>1. Init => IInv
  BY TidyInit
<1>2. IInv /\ [Next]_vars => IInv'
  BY TidyStep
<1>. QED  BY <1>1, <1>2, PTL DEF Spec

\* The shape of the state, whatever the ids and the bounds.
THEOREM TypeCorrect == Spec => []TypeOK
<1>1. IInv => TypeOK
  BY DEF IInv
<1>. QED  BY <1>1, TidyAlways, PTL

\* fire emits a one-shot whose time has passed, and no other fire emits it
\* again, whatever restarts, failed file operations and edits come between; for
\* every job no edit of which overlapped a fire of its own or Load.
THEOREM OneShotsRingOnce == Spec => []RingsOnceInTime
<1>1. IInv => RingsOnceInTime
  <2>. SUFFICES ASSUME IInv, NEW i \in Orderly PROVE
         \A n \in DOMAIN rings[i] : rings[i][n].job.at # Recurring =>
           /\ rings[i][n].job.at < rings[i][n].time
           /\ \A m \in DOMAIN rings[i] \ {n} : rings[i][m].job # rings[i][n].job
    BY DEF RingsOnceInTime
  <2>1. InTime(i)
    BY DEF IInv, Tidy, Orderly
  <2>. QED  BY <2>1 DEF InTime, OneShot
<1>. QED  BY <1>1, TidyAlways, PTL

\* What Cancel reported gone stays out of memory and off the disk, restarts and
\* Load's older copies included.
THEOREM CancelledStaysGone == Spec => []CancelIsFinal
<1>1. IInv => CancelIsFinal
  BY DEF IInv, Tidy, CancelIsFinal, Gone, Smooth, Orderly
<1>. QED  BY <1>1, TidyAlways, PTL

\* What Create and Update said stands is on disk, and while the source runs in
\* memory with a timer or a fire that delivers it.
THEOREM PromisesHold == Spec => []PromiseKept
<1>1. IInv => PromiseKept
  <2>. SUFFICES ASSUME IInv, NEW i \in Smooth, Settled(i), told[i] # None PROVE
         /\ files[i] = told[i]
         /\ source = "on" =>
              /\ jobs[i] = told[i]
              /\ \/ [id |-> i, at |-> told[i].at] \in armed
                 \/ \E f \in fires : f.id = i /\ f.step \in {"read", "emit"}
    BY DEF PromiseKept
  <2>1. Promise(i)
    BY DEF IInv, Tidy, Smooth, Orderly
  <2>. QED  BY <2>1 DEF Promise
<1>. QED  BY <1>1, TidyAlways, PTL
===============================================================================
