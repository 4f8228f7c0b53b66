------------------------------ MODULE AgentLoop ------------------------------
(***************************************************************************)
(* internal/agent, loop.go: what one request goes through.  In each turn   *)
(* the model picks one tool call after the other until it replies; a call  *)
(* that needs approval, or that asks the user, parks the turn, and the     *)
(* answer starts another one.  Repeated reads are refused, tools and then  *)
(* the whole turn are closed when they lead nowhere, and code, not the     *)
(* model, writes into the reply what was done and what went wrong.         *)
(*                                                                         *)
(* The model and the tools are nondeterministic.  The catalog they share,  *)
(* mcphost's, may change at any time.                                      *)
(***************************************************************************)
EXTENDS Integers, FiniteSets

CONSTANTS
  Tool,
  Reads,     \* readOnlyHint
  Verbatims, \* tools whose output code shows the user
  Asks,      \* tools that may ask the user and end the turn (user_ask)
  Changing,  \* tools whose entry in the catalog may change
  Arg,       \* arguments a tool can be called with
  Text,      \* what a tool can answer
  MaxTurns,  \* bound: turns of the request
  None

Error == "error"
Call  == [tool : Tool, arg : Arg]
Kind  == {"stalled", "unreadable", "model_error", "tool_error", "repeated", "declined"}
Problem == [kind : Kind, tool : Tool \cup {None}, recovered : BOOLEAN]

maxSuppressed == 2
maxStaleCalls == 3

ASSUME LoopConstants ==
  /\ Reads \subseteq Tool /\ Verbatims \subseteq Tool /\ Asks \subseteq Tool
  /\ Changing \subseteq Tool
  /\ None \notin Tool /\ None \notin Call /\ Error \notin Text
  /\ MaxTurns \in Nat \ {0}

VARIABLES
  catalog,    \* Host.tools: how each tool is listed
  pc, turns,
  clock,      \* the turn's deadline: far, "late" within the reserve, "over"
  big,        \* the conversation is over maxConversationBytes
  offered,    \* the tools of the decision schema
  call,       \* the call in hand
  resuming,   \* that call is the one a question was about
  \* Handle's and use's locals
  invalid, failures, seen, suppressed, closed, results, stale,
  \* Turn
  problems, actions, verbatim, await, pending, reply,
  \* history of the request
  approved,   \* calls the user said yes to that have not run
  unapproved, \* destructive calls that ran without
  flipped,    \* tools whose entry changed between NeedsApproval and Call
  current,    \* reads of this turn that nothing has changed the answer of
  failed,     \* tools of this turn that failed
  changed,    \* tools of this turn that were called and are not pure reads
  asked       \* ... of earlier turns, which ended with a question

env    == <<catalog, clock, big>>
where  == <<pc, turns, offered, call, resuming>>
locals == <<invalid, failures, seen, suppressed, closed, results, stale>>
turn   == <<problems, actions, verbatim, await, pending, reply>>
past   == <<approved, unapproved, current, failed, changed, asked>>
vars == <<env, where, locals, turn, past, flipped>>

Listed == {t \in Tool : catalog[t] # "absent"}

FreshLocals ==
  /\ seen' = {} /\ suppressed' = [t \in Tool |-> 0] /\ closed' = {}
  /\ results' = {} /\ stale' = 0

Init ==
  /\ catalog \in [Tool -> {"safe", "destructive"}]
  /\ \A t \in Reads \cup Asks : catalog[t] = "safe"
  /\ pc = "request" /\ turns = 1 /\ clock = "far" /\ big = FALSE
  /\ offered = {} /\ call = None /\ resuming = FALSE
  /\ invalid = 0 /\ failures = 0 /\ seen = {} /\ suppressed = [t \in Tool |-> 0]
  /\ closed = {} /\ results = {} /\ stale = 0
  /\ problems = {} /\ actions = {} /\ verbatim = {}
  /\ await = FALSE /\ pending = None /\ reply = None
  /\ approved = {} /\ unapproved = {} /\ flipped = {} /\ current = {} /\ failed = {}
  /\ changed = {} /\ asked = {}

-----------------------------------------------------------------------------
(* Turn *)

\* Mutant: one entry for a tool.
ReportedPerTool(P, k, t, r) ==
  {p \in P : p.tool # t} \cup {[kind |-> k, tool |-> t, recovered |-> r]}

\* Turn.problem: one entry for a kind and a tool; once shown, always shown.
Reported(P, k, t, r) ==
  {p \in P : p.kind # k \/ p.tool # t}
    \cup {[kind |-> k, tool |-> t,
           recovered |-> r /\ \A p \in P : p.kind = k /\ p.tool = t => p.recovered]}

Promoted(P) == {[p EXCEPT !.recovered = FALSE] : p \in P}

Shown(P) == {p \in P : ~p.recovered}

\* renderReply: the model's words, then what code knows.  None is the empty reply.
Render(spoken, A, P) ==
  IF ~spoken /\ verbatim = {} /\ A = {} /\ Shown(P) = {} THEN None
  ELSE [verbatim |-> verbatim, actions |-> A, problems |-> Shown(P)]

-----------------------------------------------------------------------------
(* Handle *)

\* A new request, or one that was resumed without a call waiting.
Begin ==
  /\ pc = "request" /\ pending = None
  /\ pc' = "directive"
  /\ UNCHANGED <<env, turns, offered, call, resuming, locals, turn, past, flipped>>

\* resolveApproval with an answer that is a plain yes.
Approve ==
  /\ pc = "request" /\ pending # None
  /\ call' = pending /\ resuming' = TRUE /\ pending' = None
  /\ approved' = approved \cup {pending}
  /\ pc' = "use"
  /\ UNCHANGED <<env, turns, offered, locals, problems, actions, verbatim, await, reply,
                 unapproved, flipped, current, failed, changed, asked>>

\* Mutant: the answer is not looked at.
DeclineNot ==
  /\ pc = "request" /\ pending # None
  /\ call' = pending /\ resuming' = TRUE /\ pending' = None
  /\ pc' = "use"
  /\ UNCHANGED <<env, turns, offered, locals, problems, actions, verbatim, await, reply,
                 past, flipped>>

\* ... and with any other.
Decline ==
  /\ pc = "request" /\ pending # None
  /\ actions' = actions \cup {[tool |-> pending.tool, ok |-> FALSE]}
  /\ problems' = Reported(problems, "declined", pending.tool, FALSE)
  /\ pending' = None
  /\ pc' = "directive"
  /\ UNCHANGED <<env, turns, offered, call, resuming, locals, verbatim, await, reply,
                 past, flipped>>

\* The turn's directive is appended; without its template the turn is over.
Directive ==
  /\ pc = "directive"
  /\ FreshLocals
  /\ pc' \in {"step", "ended"}
  /\ UNCHANGED <<env, turns, offered, call, resuming, invalid, failures, turn, past,
                 flipped>>

\* Mutant: time is not looked at.
StalledOnRepeats == stale >= maxStaleCalls \/ big

Stalled == stale >= maxStaleCalls \/ big \/ clock # "far"

\* The turn has come to nothing, grown too large or run out of time.
Stop ==
  /\ pc = "step" /\ Stalled
  /\ problems' = Promoted(Reported(problems, "stalled", None, FALSE))
  /\ pc' = "final"
  /\ UNCHANGED <<env, turns, offered, call, resuming, locals, actions, verbatim, await,
                 pending, reply, past, flipped>>

Offer == Listed \ closed

Ask ==
  /\ pc = "step" /\ ~Stalled
  /\ offered' = Offer
  /\ pc' = "thinking"
  /\ UNCHANGED <<env, turns, call, resuming, locals, turn, past, flipped>>

\* The model's answer is no tool call: once the step is tried again.
Unreadable ==
  /\ pc = "thinking"
  /\ invalid' = invalid + 1
  /\ problems' = Reported(problems, "unreadable", None, invalid = 0)
  /\ pc' = IF invalid = 0 THEN "step" ELSE "ended"
  /\ UNCHANGED <<env, turns, offered, call, resuming, failures, seen, suppressed, closed,
                 results, stale, actions, verbatim, await, pending, reply, past, flipped>>

\* The model's call failed: the same, unless there is no time left.
ModelError ==
  /\ pc = "thinking"
  /\ failures' = failures + 1
  /\ LET last == failures > 0 \/ clock = "over" IN
       /\ problems' = Reported(problems, "model_error", None, ~last)
       /\ pc' = IF last THEN "ended" ELSE "step"
  /\ UNCHANGED <<env, turns, offered, call, resuming, invalid, seen, suppressed, closed,
                 results, stale, actions, verbatim, await, pending, reply, past, flipped>>

Reply ==
  /\ pc = "thinking"
  /\ \/ \E spoken \in BOOLEAN : reply' = Render(spoken, actions, problems)
     \/ UNCHANGED reply   \* arguments that cannot be decoded
  /\ pc' = "ended"
  /\ UNCHANGED <<env, turns, offered, call, resuming, locals, problems, actions, verbatim,
                 await, pending, past, flipped>>

\* Planning changes what the user sees and nothing else here.
Plan ==
  /\ pc = "thinking"
  /\ pc' = "step"
  /\ UNCHANGED <<env, turns, offered, call, resuming, locals, turn, past, flipped>>

\* The question is sent and the turn parks, or it is not and the turn is over.
AskApproval(c) ==
  /\ pc = "thinking" /\ c.tool \in offered /\ catalog[c.tool] = "destructive"
  /\ \/ await' = TRUE /\ pending' = c
     \/ UNCHANGED <<await, pending>>
  /\ pc' = "ended"
  /\ UNCHANGED <<env, turns, offered, call, resuming, locals, problems, actions, verbatim,
                 reply, past, flipped>>

Choose(c) ==
  /\ pc = "thinking" /\ c.tool \in offered /\ catalog[c.tool] # "destructive"
  /\ call' = c
  /\ pc' = "use"
  /\ UNCHANGED <<env, turns, offered, resuming, locals, turn, past, flipped>>

-----------------------------------------------------------------------------
(* use *)

\* A call made before in this turn, and nothing has changed since.  The call
\* of an approval has no past: it starts from its own empty map.
Refuse ==
  /\ pc = "use" /\ call \in seen /\ ~resuming
  /\ LET n == suppressed[call.tool] + 1 IN
       /\ suppressed' = [suppressed EXCEPT ![call.tool] = n]
       /\ closed' = IF n >= maxSuppressed THEN closed \cup {call.tool} ELSE closed
  /\ stale' = stale + 1
  /\ problems' = Reported(problems, "repeated", call.tool, TRUE)
  /\ pc' = "step"
  /\ UNCHANGED <<env, turns, offered, call, resuming, invalid, failures, seen, results,
                 actions, verbatim, await, pending, reply, approved, unapproved, current,
                 failed, changed, asked, flipped>>

\* Host.Call looks the tool up and runs it.
Run ==
  /\ pc = "use" /\ (call \notin seen \/ resuming)
  /\ pc' = IF catalog[call.tool] = "absent" THEN "missing" ELSE "running"
  /\ IF catalog[call.tool] = "destructive" /\ call \notin approved
     THEN unapproved' = unapproved \cup {call} ELSE UNCHANGED unapproved
  /\ approved' = approved \ {call}
  /\ UNCHANGED <<env, turns, offered, call, resuming, locals, turn, flipped, current, failed,
                 changed, asked>>

\* Mutant: a change leaves what was read before.
RememberAll(read) == seen' = seen \cup {c \in {call} : read} /\ UNCHANGED suppressed

\* A read is remembered; anything else makes all that was read stale.
Remember(read) ==
  /\ seen' = IF read THEN seen \cup {call} ELSE {}
  /\ suppressed' = IF read THEN suppressed ELSE [t \in Tool |-> 0]

\* sawResult.
Saw(text) ==
  /\ results' = results \cup {text}
  /\ stale' = IF text \in results THEN stale + 1 ELSE 0

\* The repeat state of a call that was approved is its own, and is dropped.
Returned(text, read, shut) ==
  /\ pc' = IF resuming THEN "directive" ELSE "step"
  /\ resuming' = FALSE
  /\ call' = None
  /\ IF resuming THEN UNCHANGED <<seen, suppressed, results, stale, closed>>
     ELSE Remember(read) /\ Saw(text) /\ closed' = closed \cup shut
  /\ current' = IF read THEN current \cup {call} ELSE {}
  /\ changed' = IF read THEN changed ELSE changed \cup {call.tool}
  /\ big' \in {big, TRUE}

\* Category, asked for when the call is over.
IsRead == call.tool \in Reads \cap Listed

Acted(ok) ==
  actions' = IF IsRead THEN actions ELSE actions \cup {[tool |-> call.tool, ok |-> ok]}

ToolAnswers ==
  /\ pc = "running"
  /\ \E text \in Text : Returned(text, IsRead, {})
  /\ Acted(TRUE)
  /\ UNCHANGED <<catalog, clock, turns, offered, invalid, failures, problems, verbatim, await,
                 pending, reply, approved, unapproved, flipped, failed, asked>>

\* A tool that is not there any more, or an error of its own.
ToolFails ==
  /\ pc \in {"running", "missing"}
  /\ Returned(Error, IsRead, {})
  /\ Acted(FALSE)
  /\ problems' = Reported(problems, "tool_error", call.tool, FALSE)
  /\ failed' = failed \cup {call.tool}
  /\ UNCHANGED <<catalog, clock, turns, offered, invalid, failures, verbatim, await, pending,
                 reply, approved, unapproved, flipped, asked>>

\* VerbatimTools: one rendering is enough.
Shut == Verbatims \cap Listed

ToolRenders ==
  /\ pc = "running" /\ call.tool \in Verbatims
  /\ \E text \in Text : Returned(text, IsRead, Shut) /\ verbatim' = verbatim \cup {text}
  /\ Acted(TRUE)
  /\ UNCHANGED <<catalog, clock, turns, offered, invalid, failures, problems, await, pending,
                 reply, approved, unapproved, flipped, failed, asked>>

\* The user was asked: the turn ends and the runtime parks it.
ToolAsks ==
  /\ pc = "running" /\ call.tool \in Asks /\ ~resuming
  /\ await' = TRUE
  /\ call' = None
  /\ pc' = "ended"
  /\ UNCHANGED <<env, turns, offered, resuming, locals, problems, actions, verbatim, pending,
                 reply, past, flipped>>

\* One last call of the model, which can only reply.
Final ==
  /\ pc = "final"
  /\ \/ /\ \/ \E spoken \in BOOLEAN : reply' = Render(spoken, actions, problems)
           \/ UNCHANGED reply
        /\ UNCHANGED problems
     \/ /\ problems' = Reported(problems, "model_error", None, FALSE)
        /\ reply' = Render(FALSE, actions, problems')
  /\ pc' = "ended"
  /\ UNCHANGED <<env, turns, offered, call, resuming, locals, actions, verbatim, await, pending,
                 past, flipped>>

-----------------------------------------------------------------------------
(* The rest of the world *)

\* A question is answered, and the answer's task begins a turn of its own.
Resume ==
  /\ pc = "ended" /\ await /\ turns < MaxTurns
  /\ turns' = turns + 1
  /\ pc' = "request" /\ clock' = "far" /\ big' = FALSE /\ offered' = {} /\ call' = None
  /\ FreshLocals /\ invalid' = 0 /\ failures' = 0
  /\ problems' = {} /\ actions' = {} /\ verbatim' = {} /\ await' = FALSE /\ reply' = None
  /\ current' = {} /\ failed' = {}
  /\ asked' = asked \cup changed /\ changed' = {}
  /\ UNCHANGED <<catalog, resuming, pending, approved, unapproved, flipped>>

Late ==
  /\ pc # "ended" /\ clock # "over"
  /\ clock' = IF clock = "far" THEN "late" ELSE "over"
  /\ UNCHANGED <<catalog, big, where, locals, turn, past, flipped>>

\* Host.refresh installs another list.
Refresh ==
  /\ \E t \in Changing :
       /\ pc # "ended"
       /\ \E s \in {"absent", "safe", "destructive"} \ {catalog[t]} :
            /\ t \in Reads \cup Asks => s # "destructive"
            /\ catalog' = [catalog EXCEPT ![t] = s]
       /\ flipped' = IF pc = "use" THEN flipped \cup {t} ELSE flipped
  /\ UNCHANGED <<clock, big, where, locals, turn, past>>

Step ==
  \/ Begin \/ Approve \/ Decline \/ Directive \/ Stop \/ Ask
  \/ Unreadable \/ ModelError \/ Reply \/ Plan
  \/ \E c \in Call : AskApproval(c) \/ Choose(c)
  \/ Refuse \/ Run \/ ToolAnswers \/ ToolFails \/ ToolRenders \/ ToolAsks \/ Final

Next == Step \/ Resume \/ Late \/ Refresh

Spec == Init /\ [][Next]_vars

\* The handler runs on and time passes: the model and the tools are called with
\* the turn's context, so that neither holds a turn longer than its deadline.
FairSpec == Spec /\ WF_vars(Step) /\ WF_vars(Late)

-----------------------------------------------------------------------------
(* Properties *)

\* The shape of the state.
TypeOK ==
  /\ catalog \in [Tool -> {"absent", "safe", "destructive"}]
  /\ pc \in {"request", "directive", "step", "thinking", "use", "running", "missing", "final",
            "ended"}
  /\ turns \in 1..MaxTurns /\ clock \in {"far", "late", "over"}
  /\ big \in BOOLEAN /\ await \in BOOLEAN /\ resuming \in BOOLEAN
  /\ offered \subseteq Tool /\ call \in Call \cup {None} /\ pending \in Call \cup {None}
  /\ invalid \in 0..2 /\ failures \in 0..2
  /\ seen \subseteq Call /\ current \subseteq Call
  /\ suppressed \in [Tool -> Nat] /\ closed \subseteq Tool
  /\ results \subseteq Text \cup {Error} /\ stale \in Nat
  /\ problems \subseteq Problem /\ actions \subseteq [tool : Tool, ok : BOOLEAN]
  /\ verbatim \subseteq Text
  /\ reply \in {None} \cup [verbatim : SUBSET Text, actions : SUBSET [tool : Tool, ok : BOOLEAN],
                            problems : SUBSET Problem]
  /\ approved \subseteq Call /\ unapproved \subseteq Call

\* "the call runs only if the user says yes" (loop.go:413): a call that the
\* catalog calls destructive when it runs is the one a question proposed, with
\* its arguments, and was approved, and an approval is good for one run.  The
\* exception is an entry that changed between NeedsApproval and Call.
OnlyApprovedRuns == \A c \in unapproved : c.tool \in flipped

\* A call is refused as a repeat exactly if the same read has answered in this
\* turn and nothing that may change its answer was called since.
RepeatsAreCurrent ==
  [][pc = "use" /\ pc' # "use" /\ ~resuming =>
       (pc' = "step" <=> call \in current)]_vars

\* "what the user reads about the world matches what happened" (reply.go:41):
\* a reply names every tool that acted or failed in its turn.
HonestReply ==
  pc = "ended" /\ reply # None =>
    /\ \A t \in changed : \E a \in reply.actions : a.tool = t
    /\ \A t \in failed : \E p \in reply.problems : p.tool = t /\ p.kind = "tool_error"

\* Every turn ends, however long the model plans and the tools have news.
TurnEnds == pc # "ended" ~> pc = "ended"

\* "silence hides what went wrong" (loop.go:175): a turn that was to tell the
\* user of a problem, or acted, ends with a reply or a question.
NeverSilent ==
  pc = "ended" /\ ~await /\ (changed # {} \/ Shown(problems) # {}) => reply # None

\* The same for the whole request, the turns that ended with a question too.
EveryActionReported ==
  pc = "ended" /\ reply # None =>
    \A t \in changed \cup asked : \E a \in reply.actions : a.tool = t

\* "the call runs only if the user says yes", without the exception.
UnapprovedNeverRuns == unapproved = {}
=============================================================================
