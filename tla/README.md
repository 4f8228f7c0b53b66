# tobee in TLA+

tobee is a personal assistant. Connectors (Discord, email) and timers produce
events; a durable queue holds them; one worker turns each into a *turn* of a
language model with tools; the answer goes back to where the event came from.
This directory models the parts of it that keep state, checks them with TLC on
small instances, and proves with TLAPS most of the safety properties the runs
check, for instances of every size.

Paths below are relative to the repository; `queue.go` is
`internal/taskqueue/queue.go`, `jobs.go` is `internal/scheduler/jobs.go`,
`session.go` is `internal/session/session.go`, `engine.go` is
`internal/ingest/engine.go`, `imap.go` is `internal/connectors/email/imap.go`,
`host.go` is `internal/mcphost/host.go`, `server.go` without a directory is
`internal/servers/memory/server.go`, `fs.go` and `grep.go` are in
`internal/sandboxfs`, `bot.go` and `split.go` in `internal/connectors/discord`, and
`loop.go`, `turn.go`, `reply.go`, `runtime.go` are in `internal/agent`.

## 1. The system

```
 Discord gateway --.                                  .--> delivery router --> Discord, SMTP
 IMAP poll --------+--> ingest engine --> task queue --+--> worker: run(task)
 scheduler (cron,  |    dedup, allowlist  pending/     |      agent loop <--> mcp host <--> servers
 one-shot timers)--'    supervise         parked/      |      question -> Park,  reply -> Done
 resource updates -'                        ^          '--> session store --> memory (transcripts)
                                            '--- restart: the files are read again
```

All of it is one process. `main` (`cmd/tobee/main.go`) starts a goroutine per
source, one worker and one sweeper, cancels their context on a signal, waits
for the sources but not for the worker or the sweeper, and exits.
`docker-compose.yml:13` starts it again (`restart: unless-stopped`).

### Inventory

| component | state | operations | what is hard | what makes it correct |
|---|---|---|---|---|
| task queue (`internal/taskqueue`) | `pending/`, `parked/`; a slice, a map, a one-slot channel, a mutex | `Open`, `Enqueue`, `Next`, `Park`, `Done` | the lock is released before the worker blocks; crash between any two file operations; failed operations that are only logged; which question an answer belongs to | accepted tasks stay on disk and in reach; order; bounded attempts; a question answered once, by the right person; no lost wakeup |
| agent runtime (`runtime.go`) | the task in hand | `run`: `Handle`, `deliver`, `record`, `Done` or `park` | reply, record and removal are three steps; a question is out before it is parked | nothing settled without a word to the user; one answer unless a stop comes in between |
| agent loop (`loop.go`, `turn.go`, `reply.go`) | one turn: problems, actions, verbatim blocks, repeat state | decide, use, approve, reply | the catalog changes under way; a model that never stops; many early returns | destructive calls only as approved; the turn ends; the reply says what happened |
| ingest engine (`internal/ingest`) | dedup FIFO; a goroutine and a backoff per source | `emit`, `supervise`, `Wait` | bounded memory of what was seen; stop while events are in hand | one task per event; nothing marked read and lost |
| email connector | the mailbox's flags | poll: search, fetch, mark read, emit | marks before it emits; skips what it cannot read | every mail gets its turn |
| scheduler (`internal/scheduler`) | a file per job, a map, timers, the cron runner | `Create`, `Update`, `Cancel`, `fire`, `Load` | none of them holds the lock throughout; a timer may have gone off already | what the user was told stands rings once, in time; what was cancelled does not |
| session store (`internal/session`) | a map under a mutex, a file per person | `History`, `Record`, `expire`, `save`, `load` | two goroutines archive; archiving calls the model outside the lock | no exchange lost, none archived twice, no stale history |
| mcp host (`internal/mcphost`) | catalog, connections, subscriptions | `Connect`, `refresh`, `Call`, `Disconnect` | lists fetched outside the lock; reconnects | the catalog is the latest list of the servers that are connected |
| reminders server | none of its own | tools over the scheduler, duplicate check | check, then create | no clashing reminders |
| memory server and the sandboxed file system below it | a tree of markdown files with a reserved area per home | write, append, delete, search; link and migrate at a start; archive, lessons | paths with `..`, names that differ by case; homes that change between two starts; a stop between two renames; one limit for everything a search finds | no call outside its homes, no file lost, no lesson list that grows, nothing missing in an answer that is not full |
| Discord connector | what a channel is, with the bot's membership, and its roles, cached; the gateway session | receive, send in parts | a goroutine per message; lookups without the lock while a send makes them out of date; failed lookups that are cached; where a text is cut | no answer older than the time to live; a thread the bot posts in is heard; every part within the limit, nothing lost |
| user server | none | `user_ask` | the question is sent before it is parked | an answer finds the question |
| workspace, identity, scope, delivery router, abilities, llm, telemetry, mcp server, prompts, read-only servers | configuration, or none | | | |

`PROJECT.json` lists each of them with its sources and what is left out.

## 2. The modules

| module | models | how |
|---|---|---|
| `TaskQueue` | `queue.go`, the keys of a question (`loop.go` askApproval, `servers/user/server.go`), `event` keys, the worker's calls and the stop order in `main.go` | one action per critical section or file operation |
| `DurableQueue` | no code: what the queue promises, without memory or process | the variables `owed`, `tries`, `serving` |
| `MCTaskQueue` | constants for TLC | who is behind which account |
| `AgentRuntime` | `run`, `deliver`, `park`, `record` of `runtime.go`; EXTENDS `TaskQueue` and composes its actions with the turn's phases | a turn is a sequence of phases between `Next` and `Done`/`Park` |
| `MCAgentRuntime` | constants for TLC | |
| `AgentRuntimeProofs` | proofs about `TaskQueue` and `AgentRuntime` | section 4 |
| `AgentLoop`, `AgentLoopProofs` | `loop.go`, `turn.go`, `reply.go`, and the three catalog lookups of `mcphost` that a call makes | one action per step between two points where the catalog or the clock can change |
| `Scheduler`, `SchedulerProofs` | `jobs.go`, `store.go`, `scheduler.go`, the reminder tools as its callers | one action per critical section or file operation |
| `SessionStore`, `MCSessionStore`, `SessionStoreProofs` | `session.go` with its two callers | the same |
| `Ingest`, `IngestProofs` | `engine.go`, the poll of `imap.go`, a chat connector's deliveries, the stop order of `main.go` | the same |
| `MemoryFiles`, `MCMemoryFiles` | `server.go`, `fs.go`, `internal/scope`, the reflector's writes, the start of `main.go` | one action per tool call, per file operation of a start, per write of a closing session |
| `MemorySearch` | `memory_grep` with `MatchNames`, `Grep` and the reading of its output; EXTENDS `MemoryFiles`, whose tree it searches | an operator: a search changes nothing, and its answer is a function of the tree |
| `MemoryFilesProofs` | proofs about `MemoryFiles` and `MemorySearch` | section 4 |
| `DiscordBot`, `MCDiscordBot`, `DiscordBotProofs` | `onMessageCreate` up to its `emit`, `channelInfo` and its cache, `Send` with `split.go` | one action per critical section or request to Discord |
| `McpHost`, `MCMcpHost`, `McpHostProofs` | `host.go`, `resources.go`, `resource_source.go` and the connections of `main.go` | one action per critical section, request to a server or notification |

They were written in this order: the queue first, because everything the user
is owed is in it; then the worker that uses it; then the other stores with
their own files and goroutines; then what one turn does; then what comes before
the queue; then the memory tree and the connections to the servers; then the
search in that tree and the connector most messages come through.
`AgentRuntime` is the composition of queue and worker.  `AgentLoop` refines what `AgentRuntime` has as one step (`Finish` or `Question`).

### Correspondence of state

* `TaskQueue`: `pendingFiles`/`attempts` are the files of `pending/`,
  `parkedFiles` those of `parked/`; `pending`, `parked`, `notify` are the
  fields of `Queue`; `enqueuing` is the task of an `Enqueue` that holds the
  mutex between its match and its write; `pc`, `current`, `asking` are where
  the worker is in `Next`, in the turn, or in `Park`.  A task is the number of
  its creation, which stands for its `Enqueued` time; a question is the number
  in which it was asked; `horizon` is the latest question older than ParkTTL.
* `AgentRuntime`: `phase`, `reply` and `doomed` are where `run` is, what the
  turn came to and whether the context was cancelled when it began.
* `AgentLoop`: variables have the names of `Turn`'s fields and of the locals of
  `Handle` and `use`.  Text is a model value; the conversation's size is the
  flag `big`; time is `far`, `late` (inside the final reserve) or `over`.
* `Scheduler`: `files`, `jobs`, `entries` are the store and the two maps;
  `armed` are the timers that can still go off; `fires` the goroutines of those
  that did; `op` the tool call under way.
* `SessionStore`: `files`, `sessions`; `batch` and `removing` are the locals of
  the two `expire` calls; `saving` is the JSON that `Record` made under the
  lock and writes after it.
* `Ingest`: `order` is the engine's FIFO (`seen` is its range), `emitting` the
  event between `admit` and the queue, `mailbox` the flags on the server,
  `fetched` the messages a poll has in hand, which it emits in the order the
  server sent them: any.
* `MemoryFiles`: a path is a sequence of segments and a file a sequence of
  lines; `files` and `dirs` are the tree; `phase`, `linked`, `todo` are where a
  start is; `homeOf`, `open`, `learning` the sessions that are still to be
  archived and learned from, with the home their transcript goes to.
* `MemorySearch`: no state of its own.  An answer has its `names`, its `rows`
  and what is `left` of the limit, which are the two builders and `remaining`
  of `grepHandler`.
* `DiscordBot`: `chans` is the map of that name, `rolesHad` whether `roles` has
  the guild; `handling` is where a goroutine of `onMessageCreate` is, with its
  local `info`; `sending` the locals of `Send`.  `member` is Discord's: the
  threads the bot is in.  `changed`, `failed` and `joined` are history, and so
  are `came`, `known` and `crossed` of a goroutine.
* `McpHost`: `conns`, `tools`, `byServer`, `watchers` are the maps of `Host`;
  `resources` the field of a connection; `boot` is where `main` is, `refreshes`
  the goroutines in `refresh`, `updates` the notifications and the goroutines
  that read a resource back; `version` and `rev` what the servers have.

Variables listed after "history" record what happened, for the properties.  A
guard reads one only to bound it (`rings`) or so that no call is made on a job
that was never created or is gone for good (`versions`, `cancelled`).  Definitions commented "Mutant:" are defective variants of the
definition they stand before.  They are no part of a specification: each shows
that a property fails when that definition is wrong.

## 3. What the runs check

Every run is `tlc -config <run>.cfg <module>`.  Bounds are the CONSTANTS whose
comment says "bound" and the model counts them in guards.

| run | question | bounds, and why they are enough |
|---|---|---|
| `queue_tasks` | Do tasks and questions survive a crash or a stop and failed file operations, in order and in one place? | one account, capacity 1, three tasks, two questions, one stop, two faults. Three tasks are a request, its answer and the answer to a follow-up question; two questions let a task that a stop caught between asking and being removed ask again; capacity 1 makes the queue full, and more than full after a restart. |
| `queue_people` | Who answers which question, and is this the queue that `DurableQueue` promises? | two accounts of one person and a stranger, capacity 2, three tasks, two questions waiting at once, replies, plain messages and timers, one stop; MaxAttempts 1, so that one stop exhausts it. No failed file operations: a removal that fails makes the queue serve a settled task again, which the abstract queue does not do and `queue_tasks` covers. |
| `runtime_turns` | Does the worker keep to the queue's protocol, is nobody left without a word, and does every accepted task come to an end? | two tasks, one question, one fault, one stop, any number of failed sends. After the stop a task has its second attempt, within MaxAttempts = 2 (`queue_people` is the run where a task is given up). Two tasks, since one must wait behind the other. |
| `sched_races` | What holds of a reminder, whatever calls, timers, loads and stops overlap, and does it ring? | one job, since jobs meet only through the single tool call `op` and the calls on other jobs touch nothing of it; two versions of it, so that an old timer can meet a new job; a time to be early, due and late; two rings, so that a second one is seen; one stop, one fault. |
| `session_races` | Is any exchange lost, archived twice, or shown when stale? | two people, three exchanges, so that one of them can have an archived session and a live one while the other has one; one stop, one fault. |
| `loop_turn` | Does a turn end, refuse exactly what is stale and report what it did? | a read, a tool that acts, a read and an acting tool that render, one argument, two answers, so that an answer can be the same as before or news. A stall takes maxStaleCalls = 3 repeats and maxSuppressed = 2 refusals: both are the code's own constants. The catalog does not change here (`Changing = {}`); it does in `loop_approval`. |
| `loop_approval` | Does a destructive tool run only as approved? | two tools, two arguments, two turns, so that an approval could be used for the other argument, in the wrong turn, or twice; the tool's entry changes at any time. |
| `ingest_mail` | Is an event one task, and is no mail lost? | three mails, one unreadable, two chat messages (one not admitted), polls of two, a FIFO of two, so that entries leave it; a stop and two failures. |
| `mcp_host` | Does the catalog keep up with the servers, and is every update of a subscribed resource announced? | four connections: a built-in one, two whose tools get one catalog name, and one more with a name that is taken; two lists of the server that changes, the second with a tool twice; a resource whose contents go and come back; one failed call and the stop. One list change is enough for two refreshes of a server to overlap: main's own and the notification's. |
| `memory_files` | Do a start's renames, closing sessions and tool calls keep to their homes, and is anything lost? | two accounts of which one may be linked to a person at a restart; six paths (the file, another spelling, somebody else's, two ways into the reserved area, the home itself); two sessions of the same minute; two trees to start from, one of them that of `TestMigrateReservedMovesOldPaths`; one tool call, one stop anywhere, also within a write. Every state in which the process is up is searched twice from every home: with a limit of two, and for history with lines around and a limit of three, the greatest; both run out in some trees and not in others. |
| `memory_migrate` | Is a migration finished when a start has done it? | the same; violated, see section 6. |
| `discord_bot` | Which messages does the bot take for its own, on how old an answer, and is a text posted whole? | one goroutine at a time, since what decides is its race with a Send, with Discord and with the clock, and two of them meet only in the entry that each overwrites; a thread of the configured channel, a channel that is not in scope and a direct message; time to live 2 and two ticks, so that an entry can be fresh, at the limit and stale; one move, one failed call; parts of four characters, and two texts: one with separators at the start, at the limit and spaces at a cut, one that ends in a line of its own. |

Properties with exceptions (`\ crossed`, `\in orphaned`, `\in forgot` and so
on) were first stated without them; TLC's counterexamples are where each
exception comes from, and each names one event of the code, not a class of
states.  Section 7 lists what the stronger statements would be.

CHECK_DEADLOCK is off throughout: all bounds used up is a legal end, a request
that is answered is another, and a stopped worker has nothing to do.

### Fairness

Only the program's own goroutines are assumed to run on, plus these: a process
that has exited is started again (`docker-compose.yml:13`); a turn ends, because
it runs under a deadline (`runtime.go`, the `context.WithTimeout` of a turn);
the clock advances.  Nothing makes a user write, a connector deliver, a file
operation fail or a process crash.  All of it is weak fairness except that a
session goes idle (`Age` in `SessionStore`), which is strong: time passes while
turns begin and end, and the action is disabled only for moments.  In
`AgentLoop` the handler's step and the clock are separate: the model may plan
for ever and the tools may always have news, and it is the clock that ends the
turn.  In `Ingest` a source's crash, a delivery and a mail's arrival are not
fair; the mail server is assumed to be reachable in the end.  In `McpHost` the
goroutines and the calls to the servers go on and end, failed ones (`Fault`) are
not asked for; the exception is the connection to an external server, which
`main` awaits without a deadline.  The queue's liveness is checked with the
real worker, under `FairRuntimeSpec`: the turn's phases are the runtime's own
code, and a turn's end is its deadline.

## 4. What is proved

Every theorem holds for all constants that satisfy the ASSUME of the module it
is about, which say what the code needs and no more: bounds are naturals,
`None` is none of the values it stands beside, limits are at least one.  Four
theorems have a hypothesis of their own, named with them.  The proofs have the
same plan everywhere: a lemma for what each helper or step does (its *effect*),
an inductive invariant made of named parts, a lemma per part that every step
keeps it, and a theorem that combines them.

### The queue (`AgentRuntimeProofs`, first part)

| theorem | statement |
|---|---|
| `TypeCorrect` | `Spec => []TypeOK` |
| `AcceptedStayOnDisk` | `Spec => []AcceptedOnDisk` |
| `NothingStranded` | `Spec => []NotStranded` |
| `WakeupNeverLost` | `Spec => []NoLostWakeup` |
| `AttemptsAreBounded` | `Spec => []AttemptsBounded` |
| `ServedInOrder` | `Spec => NoOvertaking` |
| `KeepsPromise` | `MaxFaults = 0` implies `Spec => ImplementsDurableQueue` |
| `AnsweredByOne` | `Spec => []OneAnswer` |
| `RequestsAreOriginal` | `Spec => []RequestIsOriginal` |
| `OnlyTheAskedAnswer` | `Spec => []StrangersDontAnswer` |
| `RequestsHaveOneHome` | `Spec => []OneHome` |
| `AnswersFindQuestions` | `Spec => AnswerFindsQuestion` |

The inductive invariant `IInv` is the conjunction of `TypeOK`; `Shape` (the
worker holds a task exactly in the positions where it should); `Births` (tasks
exist in the order of creation and only one is being enqueued); `Files` (what is
queued or held is on disk, once, and only accepted or settled tasks are on
disk); and the three safety properties.  `Births` and `Files` are what makes it
inductive: `AcceptedOnDisk` survives `Done` only because the task in hand is not
also queued, and survives `Open` only because load enumerates every file.  The
latter is the lemma `OldestFirstEnumerates`, a fact about the sort of load.
Two more invariants rest on `IInv`: `Counts` (runs = attempts on disk + counts
that could not be written, and what is queued has attempts left) for
`AttemptsAreBounded`, and `Sorted` (the queue is in the order of creation) for
`ServedInOrder`.

`KeepsPromise` is the refinement step by step: with `Synced` (what is on disk is
in memory or in hand while the process is up) every step of the queue is one of
`DurableQueue` or leaves its variables alone.  The hypothesis `MaxFaults = 0`
says that the file system does what it is asked: after a removal that failed a
restart serves a settled task again, which the abstract queue does not do.
Crashes and stops stay possible in any number.

The theorems about questions rest on `Questions`: records with one number are one
question and an answered one leaves a record only if its removal failed
(`AskedOnce`), every record points at a request that answers nothing (`Origins`),
its keys are those of the account asked and whatever answered it has one of
them (`Keyed`); and on `Homes`: the task of a question is accepted and not queued,
except by the Park that is about to remove it.  `OneHome` is about places: it
holds of a parked task only because `Births` keeps a task from being created twice.

### The worker (`AgentRuntimeProofs`, second part)

| theorem | statement |
|---|---|
| `RuntimeKeepsProtocol` | `RuntimeSpec => ImplementsTaskQueue`: every step of a turn is a step of the queue's specification or leaves the queue alone |
| `RuntimeKeepsTasks` | hence `AcceptedOnDisk` and `NotStranded` hold with the real worker |
| `RuntimeKeepsQuestions` | and so do `OneAnswer`, `RequestIsOriginal`, `StrangersDontAnswer` and `OneHome` |
| `NobodyLeftWithoutAWord` | `RuntimeSpec => []NobodyLeftOut`, from the invariant `TurnSoFar`, which says for each phase what has been sent and recorded |
| `AnswersAreReadOnce` | `RuntimeSpec => []AnsweredOnce`, from `OnceEach`: a task that waits for a turn has a reply only if an end of the process exposed it |

### A turn (`AgentLoopProofs`)

| theorem | statement |
|---|---|
| `TypeCorrect` | `Spec => []TypeOK` |
| `ApprovedRunsOnly` | `Spec => []OnlyApprovedRuns`, from `Licensed`: the call about to run was approved, or was not destructive when it was chosen, or its entry has changed since |
| `RefusedRepeatsOnly` | `Spec => RepeatsAreCurrent`, from `SeenIsCurrent`: what the loop remembers of the reads is what the history calls current |
| `RepliesAreHonest` | `Spec => []HonestReply`, from `Told`: whatever acted is among the turn's actions and whatever failed among the problems that will be shown |

All of them rest on `InHand`: what the loop's position says of the call in hand.

### The sessions (`SessionStoreProofs`)

| theorem | statement |
|---|---|
| `TypeCorrect` | `Spec => []TypeOK` |
| `HistoryIsFresh` | `Spec => []NoStaleHistory`, from `Fresh`: while the worker closes, its person has no idle session but one that was put back |
| `OneTranscript` | `Spec => []ArchivedOnce`, from `OnePlace` and `Once`: an exchange is in one session in memory, and in none once it is archived, unless it was reread |
| `LiveSessionOnDisk` | `OwnNames` implies `Spec => []LiveOnDisk` |
| `RecordedIsKept` | `OwnNames` implies `Spec => []NothingForgotten` |

`OwnNames` says that no two people's accounts give one file name.  Where they do
(`session.go:238` maps several characters to one) one person's file replaces the
other's, and both properties are false.  Under it the invariants are `Alone` (a
person has at most one session that is being closed) and `Written` (what is in
memory is on disk, but for the exchange about to be written).

### Reminders (`SchedulerProofs`)

| theorem | statement |
|---|---|
| `TypeCorrect` | `Spec => []TypeOK` |
| `OneShotsRingOnce` | `Spec => []RingsOnceInTime` |
| `CancelledStaysGone` | `Spec => []CancelIsFinal` |
| `PromisesHold` | `Spec => []PromiseKept` |

One inductive invariant serves all three: `TypeOK`, `Shapes` (what the tool call
under way has in hand) and, for each job, `Tidy`.  Its parts are about the copies
of a job that are around: in the file, in the map, in timers, in goroutines, in
the list that Load read, in what the user was told.  No copy is newer than the
last edit (`Numbered`), the edit under way is newer than all others (`Newest`),
the copies that count agree (`Current`, `SameFile`), a timer has its entry
(`Entered`, `HasEntry`), one goroutine at most has a version in hand (`OneFire`),
none before its time (`Due`, `InTime`), a version that rang has left no copy that
can ring again (`Rung`, `Delivered`), and what was cancelled has no copy at all
(`Gone`).  Nothing is said of a job whose edits raced with a fire or a load: the
history variables grow only, so the exceptions stay.  `StillOrAbout` splits every
step into one that leaves a given job alone and one that is about it, so that a
part is proved for one job at a time although the instances have any number.

### What arrives (`IngestProofs`)

| theorem | statement |
|---|---|
| `TypeCorrect` | `Spec => []TypeOK` |
| `OneTaskForEach` | `Spec => []OneTaskEach`, from `Once`: an event still remembered is on its way to its one task, from one source only, or has become it |
| `ReadMailIsOffered` | `Spec => []ReadIsOffered`, from `Batch` (a poll's mail is in hand only while it runs, and its source ends after it), `Kinds` (mail comes from the poller alone) and `Known` (mail remembered has been offered or is next) |

The second argument is where the order of `imap.go` is made good by `Engine.Wait`:
`Exit` loses nothing because a source that has ended has an empty poll.

### Which messages are the bot's (`DiscordBotProofs`)

| theorem | statement |
|---|---|
| `TypeCorrect` | `Spec => []TypeOK` |
| `CacheNeverStaler` | `Spec => []NeverStaler` |
| `PostedThreadsAreHeard` | `Spec => []PostingJoins` |
| `TextIsPosted` | `Spec => []AllIsPosted` |

An answer cannot be said to be right, only to have been right at its time
(`IsTrue`): a "member" no later than the bot was last one, a "no member" no later
than it last was none or a lookup failed.  `Noted` says so of the cache, `Handled`
of what a goroutine has in hand, with the age the answer had when the message
came (`Decides`).  Such a statement never becomes false: the times it compares
with only grow (`Later`, `TrueStays`), whoever moves the bot.  That is why it can
be read without the lock, and why two goroutines that overwrite each other's
entry, which the run leaves out, do no harm.  It would not survive an entry
whose age counts from when it is cached (the mutant `KeptNow`): a goroutine may
have had it in hand for any time.

`PostingJoins` is not a matter of age: `Posted` says that no entry of a thread
Send has joined denies it (`Knows`), and `Forget` is the step that makes it so,
by dropping the one that does.  Where a lookup has its answer by then, `crossed`
says it; without that part `Posted` is not inductive, which is `JoinedIsHeard`
in section 7.

`TextIsPosted` is about what the cutting computes, whatever the text, the limit
(`MaxLen`) and the faults.  A cut is within the limit and after the start
(`CutWithin`), and what it drops is spaces (`CutInTwo`), so that the characters
that can be seen (`Inks`) of what was posted, followed by those of what is left,
are those of the text, after each part (`PostedOneMore`).  `Inks` and
`FlattenSeq` are folds: each is unfolded to a function that takes the text
character by character (`InksRuns`, `FlattenRuns`), and climbed by the induction
over `0..n` that `Climb` states with a set in place of a predicate.

### The memory (`MemoryFilesProofs`)

| theorem | statement |
|---|---|
| `TypeCorrect` | `Spec => []TypeOK` |
| `NothingIsLost` | `Spec => NothingLost` |
| `CallsAreConfined` | `Spec => CallsStayHome` |
| `LessonsAreBounded` | `Spec => LessonsBounded` |
| `SearchIsComplete` | `Spec /\ []OwnPlaces => []SearchAnswers` |

They hold for any accounts, homes, paths a tool is called with, trees to start
from, lessons and limits that the assumptions of the two modules allow:
`MemoryConstants` (homes are paths without `..`), `HomesApart` (nobody's folder
is inside another's; a person named like a connector would break it), `OldTrees`
(a start finds a tree) and `NamesAreStrings`, which says of four literals what
the provers do not know.

The invariant `Inv` is `TypeOK` with `Migrating`: what a start has still to move
leads from a path to a path.  Its part about the disk is `Tree`: finite, every
directory on the way to a file or a directory is there, and nothing is both.  The
hard step is a rename of a directory: everything below it goes, and what was
there must still be a tree, with no two files at one path.  `MovedOnce` and
`MovedAside` say so, from the one check that the code makes (`MayMove`: neither
the target nor anything above it is a file, nor is the target a directory).
Each kind of step has one lemma about its effect on the tree: `PutEffect`,
`RenameEffect`, `RemovalEffect`.  `NothingIsLost` and `CallsAreConfined` then
say which of these a step may use and where: `Spared` (a start renames; anything
else leaves the reserved areas but for the lessons) and `Reached` (a path of
`joinScope` is below its root and has no `..` left, which `CleanIs` proves of
`path.Clean`, from the invariant of its loop `UpFirst`: a `..` comes first or
not at all).  `NotReserved` and `NotUnderReserved` relate the two tests of
the reserved area that the code has, `checkWritable` of a relative path and
`checkDeletable` of a whole one, to the area of any home.

For `LessonsAreBounded` the loop of `AppendLessons` keeps `Grown`: the old lines
are there first, and each new one has a key that none before it has.  `IsCut` is
what `trimToBytes` leaves, an end of that.  The folds are unfolded as above
(`FoldExists`, `Climb`).

`SearchIsComplete` has the hypothesis `OwnPlaces`: the listing that a walk follows
gives each file a place of its own, which directories do and a constant of the
model need not.  Each operator of a search has a lemma that says what it
keeps and what it leaves out, in the order of the code: `WalkIs`, `PrintedIs`,
`GrepIs`, `RenderedIs`, `NamesAre` and `RowsAre`, `IntoIs` for one root, `AnswerIs`
for both.  What each has in common is that it is cut at a number, and is the
whole of what came in when it is shorter than that (`FirstIs`, `UsedIs`); so an
answer with some of the limit left was cut nowhere.  Two conditions of
`SearchAnswers` were found by the proof, where the run had not met them: a limit
greater than grep's own (`grepMaxLimit`; the handler at `server.go:358` does not
clamp it, `grep.go:79` does) can have some left when grep's is used up; and where
the path of a file within its scope begins like the scope itself, `scopeRel`
(`server.go:497`) cuts it twice, and shows a file that is not there (`Mistaken`).

### The catalog of tools (`McpHostProofs`)

| theorem | statement |
|---|---|
| `TypeCorrect` | `Spec => []TypeOK` |
| `CatalogIsConsistent` | `Spec => []CatalogConsistent` |

`refresh` locks only to store what it listed before, so the theorem rests on what
is known of a refresh that runs: `Belongs` (it has found its connection, and that
is the one registered, unless it was disconnected meanwhile), `Starting` (main's
own refresh is the only one main waits for) and `Underway` (main has a
connection in hand, and the name of the one it registers is free).  They are
proved by the kinds of steps there are for refreshes (`StepKinds`); the catalog
changes in three of them only (`CatalogSteps`).  `Apply` keeps the two maps alike
because it takes out what its server had before it puts anything in: the
mutant `ClearedNothing` breaks the step at `ApplyEffect`.

### What is not proved

`TypeOK` of each module and `AttemptsBounded` are proved only; no run lists them,
since the first says nothing by itself and `ImplementsDurableQueue` would catch
what breaks the second.

Only model-checked are the liveness properties: the prover does not handle
fairness or ENABLED.  What a fold or a `FlattenSeq` computes is proved where a
property needs it, by the induction that `Climb` is; what a RECURSIVE operator
would compute is out of reach, and there is none.

## 5. Abstractions

* Contents: a message, a tool's answer, a session's text is a number, a model
  value or a set of exchanges.  Formatting, logging and prompts are left out.
* Files: a write is atomic, as `writeAtomic`'s rename makes it; a failed one
  leaves the old file.  A crash keeps what was written (no fsync is modelled,
  and the code does none).
* Time: an order of events, or an age.  ParkTTL, the idle timeout, the turn's
  deadline and a job's time are events that may come at any moment after their
  cause.
* In `Scheduler` a job id is used once (the code draws it at random), cron
  schedules go off whenever they like, and calls do not overlap each other,
  because there is one worker.
* In `SessionStore` a session does not go idle within the moments between two
  consecutive steps of one `History` or `Record`.
* In `Ingest` the queue accepts or refuses an event; `TaskQueue` says when.
* In `MemoryFiles` a line is a name with a size and a key of comparison, and a
  segment has its stems as constants; `path.Clean` is modelled by what it does.
  One tool call, one archive and one lesson block are one step each (the file
  operations within one are read, check, write, by one goroutine); reading and
  listing are left out, since they change nothing.  `os.WriteFile` is two
  steps: a stop can come after it has emptied the file.
* In `MemorySearch` what a pattern matches is given, so that its dialects (loose,
  regular expression, word, case) and counting are left out; the order of `List`
  (by path) and that of grep (as directories list) are one order, `Place`.  The
  run's searches name no directory: see `DirIsHonoured` in section 7.  A name
  matches by its whole path, the segments of the home included, as in the code.
  `scopeRel` takes whole segments off a path where the code takes characters, so
  that a segment which only begins like the scope's is `Mistaken` there as well.
* In `DiscordBot` a character is a byte: that a cut can fall within a character
  of several bytes (`split.go:39`) is not seen.  What a channel is does not
  change.  An emitted event is `Ingest`'s; two goroutines may emit in another
  order than their messages came in.  Mentions are not rewritten, which changes
  the text before it is cut and not how.
* In `McpHost` a list of tools is a number per server, and so are its resources
  and its templates together, although they are two requests; every server has
  both capabilities.  Configuration is constants.  `connect` reads `byServer`
  without the lock for a line of the log (`host.go:161`): if a refresh writes
  at that moment the Go runtime may end the process, which is the action
  `LogRaces`.
* In `AgentLoop` plans, progress messages and reflections are left out, since
  nothing else reads them; the model's answer is any answer.

## 6. What the checks found

* `memory_migrate`: which folder is a person's is concluded from files that are
  not protected yet (`server.go:907`).  Once a start has moved those, the next
  one takes `users/jake/deep/conversations/a.md`, a folder of the user's own,
  for the transcript of an account `deep` of a connector `jake`, and moves it
  into the reserved area.  `server.go:893` says "Idempotent", and that such a
  folder is left alone.

## 7. Claims that do not hold without their exceptions

The modules state these as definitions next to the checked properties, but no
run lists them.  Each is a sentence of the repository and fails in the model.
Where a checked property covers the same ground it has the exception.

| definition | module | the event that breaks it |
|---|---|---|
| `RefusedLeavesQuestion` | TaskQueue | `Enqueue` takes the parked question, memory and file, before the write of the task that can fail (`queue.go:149`) |
| `ReplyResumes` | AgentRuntime | a reply can come between the question's send and the moment Park has its record in the map (`queue.go:220`); it becomes a message of its own and the question waits on |
| `StopKeepsTasks` | AgentRuntime | a cancelled worker still takes tasks from the queue (`queue.go:184`), their turns cannot reach the model, and `Done` removes them (`docker-compose.yml:8` says queued tasks persist) |
| `UpdateStays` | Scheduler | a fire that has emitted removes the job by id, also when an Update has replaced it since (`jobs.go:324`) |
| `BadChangeHarmless` | Scheduler | Update saves the file and drops the old timer before the new time is found to be past (`jobs.go:265`) |
| `CancelledIsGone` | Scheduler | Load schedules from the list it read before a Cancel (`jobs.go:100`) |
| `FailureIsRetried` | SessionStore | a session whose archive failed is not put back when the person has a new one (`session.go:223`) |
| `RecordedIsSaved` | SessionStore | `expire` deletes the person's file outside the mutex (`session.go:230`), after an archive that may take a call of the model; when the person has written meanwhile that is the next session's file, which is in memory only until its next save |
| `IdleNeverReturned` | SessionStore | one that is put back is returned by the same History (`session.go:126`) |
| `NeverSilent` | AgentLoop | the paths that give up return without a reply (`loop.go:127`) |
| `EveryActionReported` | AgentLoop | actions of a turn that ends with a question are in no reply (`loop.go:160`) |
| `UnapprovedNeverRuns` | AgentLoop | the catalog changes between NeedsApproval and Call (`loop.go:155`) |
| `RepeatAbsorbed` | Ingest | the FIFO is in memory and bounded: a repeat after a restart, or a late one, is new (`imap.go:138`) |
| `RestIsFetched` | Ingest | mail without a text/plain part is skipped and stays unread (`imap.go:113`), so each poll wants it again and counts it; as many such mails as `maxPerPoll` keep every later mail from being fetched, where `imap.go:15` says "the rest wait" |
| `NoSecondHome` | MemoryFiles | `memory_append` has no clash check (`server.go:319`); it takes two calls, and the run has one |
| `HomesAreDirectories` | MemoryFiles | a write to "." makes a file of a home that is not there yet (`server.go:226`) |
| `NothingStranded` | MemoryFiles | a file that is at the new place already stays at the old one (`server.go:593`) |
| `NeverCrowdedOut` | MemorySearch | the rows of grep are cut at the limit before tobee's own are told from the user's (`grep.go:178`), and tobee's area is listed first; `server.go:419` says that it "can never crowd out a real file" |
| `DirIsHonoured` | MemorySearch | in a search of a directory the rows of grep start there, not at the root, and `scopeRel` does not put the rest back (`server.go:497`): the paths it shows are wrong, and a search of the reserved area itself is not recognised as one of history (`server.go:330`). It takes a search that names a directory, and the run has none |
| `JoinedIsHeard` | DiscordBot | a lookup that had its answer when Send dropped the entry caches it afterwards (`bot.go:349`), where `bot.go:339` says that the thread "is recognised immediately" |
| `NoGhostTools` | McpHost | a refresh that has its list when the server is disconnected puts the tools back (`host.go:241`; `host_test.go:139` tests the order without a refresh) |
| `EachUpdateIsNew` | McpHost | the identity of an event is its contents, so a resource that goes back to what it was is a repeat to the engine (`resource_source.go:73`) |
| `BootEnds` | McpHost | an external server that accepts the connection and does not answer holds `main` (`host.go:142`), where `main.go:171` says that one that is down "is not a reason to stay down" |
| `FreedNamesAreTaken` | McpHost | a tool that was skipped for a clash stays out until its own server changes its list, also when the other has given the name up; it takes a second list of the server `a_b`, and the run has one |

`OwnHistory` (SessionStore) is stated for two accounts whose names give one file
name (`SharedFile` of `MCSessionStore`, `session.go:238`).  It held when it was
checked; no run lists it.  And a text whose last part is only a line break makes
`Send` return an error after all of it that can be seen was posted
(`split.go:19` keeps the part, Discord refuses it): `AllIsPosted` has nothing
against it, since nothing is lost.

## 8. Not modelled, and the plan

Not modelled because there is nothing to interleave or persist: prompts,
telemetry, the abilities registry, the delivery router's map, the
read-only servers, the translation to model providers.

Next, in this order:

1. The reminders server's duplicate check, on top of `Scheduler`.
2. `Call`, the routing of a resource to its server and the pinned resources, on
   top of `McpHost`.
3. Searches of a directory, by pattern dialect and with counts, in
   `MemorySearch`; listing and the manifest.
4. The areas of the workspace server and its path operators.
5. The delivery router with the edits and the typing sign of the connectors.

Abstract specifications still worth stating: `AgentLoop` as an implementation
of the turn of `AgentRuntime`; a reminder as a promise that `Scheduler` keeps
outside its named races.

Theorems still worth proving: of `McpHost` that an update which is not missed is on
its way until it is seen, the safety half of `UpdatesAnnounced`; of `MemorySearch`
`DirIsHonoured`, once the code puts the scope back before the paths of grep.
