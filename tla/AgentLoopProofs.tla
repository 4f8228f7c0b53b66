---------------------------- MODULE AgentLoopProofs ----------------------------
(***************************************************************************)
(* Proofs about AgentLoop, for every set of tools, arguments and answers   *)
(* of tools, however the catalog changes and however many turns a request  *)
(* takes: what runs was approved, what is refused would say nothing new,   *)
(* and what was done is in the reply.                                      *)
(***************************************************************************)
EXTENDS AgentLoop, TLAPS

USE DEF env, where, locals, turn, past

-----------------------------------------------------------------------------
(* The shape of a turn *)

\* What the loop's position says of the call in hand, and what of the catalog
\* a call that waits for approval depends on: a read is never destructive.
InHand ==
  /\ pc \in {"use", "running", "missing"} => call # None
  /\ resuming => pc \in {"use", "running", "missing"} /\ call.tool \notin Reads
  /\ pending # None => pending.tool \notin Reads
  /\ \A t \in Reads \cup Asks : catalog[t] # "destructive"
  /\ pc # "ended" => invalid < 2 /\ failures < 2 /\ reply = None /\ ~await

IInv == TypeOK /\ InHand

\* A problem that is reported is one, and the others stay as they are.
LEMMA ReportedType ==
  ASSUME NEW P \in SUBSET Problem, NEW k \in Kind, NEW t \in Tool \cup {None}, NEW r \in BOOLEAN
  PROVE  /\ Reported(P, k, t, r) \in SUBSET Problem
         /\ Promoted(P) \in SUBSET Problem /\ Shown(P) \in SUBSET Problem
<1>1. Reported(P, k, t, r) \in SUBSET Problem
  BY DEF Reported, Problem
<1>2. Promoted(P) \in SUBSET Problem
  BY DEF Promoted, Problem
<1>3. Shown(P) \in SUBSET Problem
  BY DEF Shown
<1>. QED  BY <1>1, <1>2, <1>3

\* What a reply holds.
LEMMA RenderType ==
  ASSUME TypeOK, NEW spoken \in BOOLEAN, NEW P \in SUBSET Problem
  PROVE  Render(spoken, actions, P) \in {None} \cup
           [verbatim : SUBSET Text, actions : SUBSET [tool : Tool, ok : BOOLEAN],
            problems : SUBSET Problem]
<1>1. Shown(P) \in SUBSET Problem
  BY DEF Shown
<1>. QED  BY <1>1 DEF Render, TypeOK

\* The start of a turn keeps the loop's own variables well formed.
LEMMA FreshType ==
  ASSUME FreshLocals
  PROVE  /\ seen' \subseteq Call /\ suppressed' \in [Tool -> Nat] /\ closed' \subseteq Tool
         /\ results' \subseteq Text \cup {Error} /\ stale' \in Nat
BY DEF FreshLocals

\* What a call that came back leaves of them.
LEMMA ReturnedType ==
  ASSUME TypeOK, NEW text \in Text \cup {Error}, NEW read \in BOOLEAN, NEW shut \in SUBSET Tool,
         call \in Call, Returned(text, read, shut)
  PROVE  /\ seen' \subseteq Call /\ suppressed' \in [Tool -> Nat] /\ closed' \subseteq Tool
         /\ results' \subseteq Text \cup {Error} /\ stale' \in Nat
         /\ current' \subseteq Call /\ big' \in BOOLEAN
         /\ pc' \in {"directive", "step"} /\ resuming' = FALSE /\ call' = None
<1>1. current' \subseteq Call /\ big' \in BOOLEAN
      /\ pc' \in {"directive", "step"} /\ resuming' = FALSE /\ call' = None
  BY DEF Returned, TypeOK
<1>2. CASE resuming
  BY <1>1, <1>2 DEF Returned, TypeOK
<1>3. CASE ~resuming
  <2>1. seen' \subseteq Call /\ suppressed' \in [Tool -> Nat]
    BY <1>3 DEF Returned, Remember, TypeOK
  <2>2. results' \subseteq Text \cup {Error} /\ stale' \in Nat /\ closed' \subseteq Tool
    BY <1>3 DEF Returned, Saw, TypeOK
  <2>. QED  BY <1>1, <2>1, <2>2
<1>. QED  BY <1>2, <1>3

\* The three ways a tool that was run comes back.
ToolReturns == ToolAnswers \/ ToolFails \/ ToolRenders

\* What they have in common.
LEMMA ToolReturnsEffect ==
  ASSUME IInv, ToolReturns
  PROVE  /\ call \in Call /\ call.tool \in Tool /\ pc \in {"running", "missing"}
         /\ \E text \in Text \cup {Error}, shut \in SUBSET Tool : Returned(text, IsRead, shut)
         /\ \E ok \in BOOLEAN : Acted(ok)
         /\ UNCHANGED <<catalog, clock, turns, offered, invalid, failures, await, pending, reply,
                        approved, unapproved, asked, flipped>>
         /\ \/ UNCHANGED <<problems, failed>>
            \/ /\ problems' = Reported(problems, "tool_error", call.tool, FALSE)
               /\ failed' = failed \cup {call.tool}
<1>1. call \in Call /\ call.tool \in Tool /\ pc \in {"running", "missing"}
  BY DEF ToolReturns, ToolAnswers, ToolFails, ToolRenders, IInv, InHand, TypeOK, Call
<1>2. Shut \in SUBSET Tool
  BY LoopConstants DEF Shut
<1>3. CASE ToolAnswers
  BY <1>1, <1>3 DEF ToolAnswers
<1>4. CASE ToolFails
  BY <1>1, <1>4 DEF ToolFails
<1>5. CASE ToolRenders
  BY <1>1, <1>2, <1>5 DEF ToolRenders
<1>. QED  BY <1>3, <1>4, <1>5 DEF ToolReturns

\* A tool's return keeps the shape.
LEMMA ToolReturnsShape ==
  ASSUME IInv, ToolReturns
  PROVE  IInv'
<1>1. /\ call \in Call /\ call.tool \in Tool /\ pc \in {"running", "missing"}
      /\ UNCHANGED <<catalog, clock, turns, offered, invalid, failures, await, pending, reply,
                     approved, unapproved, asked, flipped>>
  BY ToolReturnsEffect
<1>2. PICK text \in Text \cup {Error}, shut \in SUBSET Tool : Returned(text, IsRead, shut)
  BY ToolReturnsEffect
<1>3. IsRead \in BOOLEAN
  BY DEF IsRead
<1>4. /\ seen' \subseteq Call /\ suppressed' \in [Tool -> Nat] /\ closed' \subseteq Tool
      /\ results' \subseteq Text \cup {Error} /\ stale' \in Nat
      /\ current' \subseteq Call /\ big' \in BOOLEAN
      /\ pc' \in {"directive", "step"} /\ resuming' = FALSE /\ call' = None
  BY <1>1, <1>2, <1>3, ReturnedType DEF IInv
<1>5. actions' \subseteq [tool : Tool, ok : BOOLEAN]
  <2>1. PICK ok \in BOOLEAN : Acted(ok)
    BY ToolReturnsEffect
  <2>2. [tool |-> call.tool, ok |-> ok] \in [tool : Tool, ok : BOOLEAN]
    BY <1>1
  <2>. QED  BY <2>1, <2>2 DEF Acted, IInv, TypeOK
<1>6. problems' \subseteq Problem
  <2>1. problems \subseteq Problem /\ "tool_error" \in Kind
    BY DEF IInv, TypeOK, Kind
  <2>2. Reported(problems, "tool_error", call.tool, FALSE) \in SUBSET Problem
    BY <1>1, <2>1, ReportedType
  <2>3. problems' = problems \/ problems' = Reported(problems, "tool_error", call.tool, FALSE)
    BY ToolReturnsEffect
  <2>. QED  BY <2>1, <2>2, <2>3
<1>7. verbatim' \subseteq Text
  <2>1. verbatim \subseteq Text
    BY DEF IInv, TypeOK
  <2>2. verbatim' = verbatim \/ \E t \in Text : verbatim' = verbatim \cup {t}
    BY DEF ToolReturns, ToolAnswers, ToolFails, ToolRenders
  <2>. QED  BY <2>1, <2>2
<1>8. TypeOK'
  BY <1>1, <1>4, <1>5, <1>6, <1>7 DEF IInv, TypeOK
<1>9. InHand'
  BY <1>1, <1>4 DEF IInv, InHand
<1>. QED  BY <1>8, <1>9 DEF IInv

\* Every step keeps the shape.
LEMMA NextIInv == IInv /\ [Next]_vars => IInv'
<1>. SUFFICES ASSUME IInv, [Next]_vars PROVE IInv'
  OBVIOUS
<1>. USE DEF IInv
<1>k. {"stalled", "unreadable", "model_error", "repeated", "declined"} \subseteq Kind
  BY DEF Kind
<1>0. CASE UNCHANGED vars
  BY <1>0 DEF vars, TypeOK, InHand
<1>1. CASE Begin \/ Ask \/ Plan
  <2>1. offered' \subseteq Tool
    BY <1>1 DEF Begin, Ask, Plan, Offer, Listed, TypeOK
  <2>. QED  BY <1>1, <2>1 DEF Begin, Ask, Plan, TypeOK, InHand
<1>2. CASE Approve
  BY <1>2 DEF Approve, TypeOK, InHand
<1>3. CASE Decline
  <2>1. pending \in Call /\ pending.tool \in Tool
    BY <1>3 DEF Decline, TypeOK, Call
  <2>2. problems' \subseteq Problem
    BY <1>k, <1>3, <2>1, ReportedType DEF Decline, TypeOK
  <2>3. actions' \subseteq [tool : Tool, ok : BOOLEAN]
    <3>1. [tool |-> pending.tool, ok |-> FALSE] \in [tool : Tool, ok : BOOLEAN]
      BY <2>1
    <3>. QED  BY <1>3, <3>1 DEF Decline, TypeOK
  <2>. QED  BY <1>3, <2>2, <2>3 DEF Decline, TypeOK, InHand
<1>4. CASE Directive
  <2>1. /\ seen' \subseteq Call /\ suppressed' \in [Tool -> Nat] /\ closed' \subseteq Tool
        /\ results' \subseteq Text \cup {Error} /\ stale' \in Nat
    BY <1>4, FreshType DEF Directive
  <2>. QED  BY <1>4, <2>1 DEF Directive, TypeOK, InHand
<1>5. CASE Stop
  <2>1. problems' \subseteq Problem
    <3>1. Reported(problems, "stalled", None, FALSE) \in SUBSET Problem
      BY <1>k, ReportedType DEF TypeOK
    <3>. QED  BY <1>5, <3>1 DEF Stop, Promoted, Problem
  <2>. QED  BY <1>5, <2>1 DEF Stop, TypeOK, InHand
<1>6. CASE Unreadable
  <2>1. problems' \subseteq Problem
    BY <1>k, <1>6, ReportedType DEF Unreadable, TypeOK
  <2>2. invalid \in {0, 1}
    BY <1>6 DEF Unreadable, TypeOK, InHand
  <2>3. CASE invalid = 0
    BY <1>6, <2>1, <2>3 DEF Unreadable, TypeOK, InHand
  <2>4. CASE invalid = 1
    BY <1>6, <2>1, <2>4 DEF Unreadable, TypeOK, InHand
  <2>. QED  BY <2>2, <2>3, <2>4
<1>7. CASE ModelError
  <2>1. problems' \subseteq Problem
    BY <1>k, <1>7, ReportedType DEF ModelError, TypeOK
  <2>2. failures \in {0, 1}
    BY <1>7 DEF ModelError, TypeOK, InHand
  <2>3. CASE failures = 0
    BY <1>7, <2>1, <2>3 DEF ModelError, TypeOK, InHand
  <2>4. CASE failures = 1
    BY <1>7, <2>1, <2>4 DEF ModelError, TypeOK, InHand
  <2>. QED  BY <2>2, <2>3, <2>4
<1>8. CASE Reply
  <2>1. reply' = reply \/ \E spoken \in BOOLEAN : reply' = Render(spoken, actions, problems)
    BY <1>8 DEF Reply
  <2>2. reply' \in {None} \cup
           [verbatim : SUBSET Text, actions : SUBSET [tool : Tool, ok : BOOLEAN],
            problems : SUBSET Problem]
    BY <2>1, RenderType DEF TypeOK
  <2>. QED  BY <1>8, <2>2 DEF Reply, TypeOK, InHand
<1>9. ASSUME NEW c \in Call, AskApproval(c) PROVE IInv'
  <2>1. c.tool \notin Reads
    BY <1>9 DEF AskApproval, InHand
  <2>. QED  BY <1>9, <2>1 DEF AskApproval, TypeOK, InHand
<1>10. ASSUME NEW c \in Call, Choose(c) PROVE IInv'
  <2>1. c # None
    BY LoopConstants
  <2>. QED  BY <1>10, <2>1 DEF Choose, TypeOK, InHand
<1>11. CASE Refuse
  <2>1. call \in Call /\ call.tool \in Tool
    BY <1>11 DEF Refuse, TypeOK, Call
  <2>2. problems' \subseteq Problem
    BY <1>k, <1>11, <2>1, ReportedType DEF Refuse, TypeOK
  <2>3. suppressed' \in [Tool -> Nat] /\ closed' \subseteq Tool /\ stale' \in Nat
    BY <1>11, <2>1 DEF Refuse, TypeOK
  <2>. QED  BY <1>11, <2>2, <2>3 DEF Refuse, TypeOK, InHand
<1>12. CASE Run
  <2>1. unapproved' \subseteq Call /\ approved' \subseteq Call
    BY <1>12 DEF Run, TypeOK, InHand
  <2>. QED  BY <1>12, <2>1 DEF Run, TypeOK, InHand
<1>13. CASE ToolReturns
  BY <1>13, ToolReturnsShape
<1>14. CASE ToolAsks
  BY <1>14 DEF ToolAsks, TypeOK, InHand
<1>15. CASE Final
  <2>1. problems' \subseteq Problem
    <3>1. Reported(problems, "model_error", None, FALSE) \in SUBSET Problem
      BY <1>k, ReportedType DEF TypeOK
    <3>. QED  BY <1>15, <3>1 DEF Final, TypeOK
  <2>2. reply' = reply \/ \E spoken \in BOOLEAN : reply' = Render(spoken, actions, problems')
    BY <1>15 DEF Final
  <2>3. reply' \in {None} \cup
           [verbatim : SUBSET Text, actions : SUBSET [tool : Tool, ok : BOOLEAN],
            problems : SUBSET Problem]
    BY <2>1, <2>2, RenderType DEF TypeOK
  <2>. QED  BY <1>15, <2>1, <2>3 DEF Final, TypeOK, InHand
<1>16. CASE Resume
  <2>1. /\ seen' \subseteq Call /\ suppressed' \in [Tool -> Nat] /\ closed' \subseteq Tool
        /\ results' \subseteq Text \cup {Error} /\ stale' \in Nat
    BY <1>16, FreshType DEF Resume
  <2>2. turns' \in 1..MaxTurns
    BY <1>16, LoopConstants DEF Resume, TypeOK
  <2>3. /\ problems' = {} /\ actions' = {} /\ verbatim' = {} /\ current' = {} /\ offered' = {}
        /\ call' = None /\ reply' = None /\ invalid' = 0 /\ failures' = 0
        /\ big' = FALSE /\ await' = FALSE /\ clock' = "far" /\ pc' = "request"
        /\ UNCHANGED <<catalog, resuming, pending, approved, unapproved>>
    BY <1>16 DEF Resume
  <2>4. TypeOK'
    <3>1. /\ problems' \subseteq Problem /\ actions' \subseteq [tool : Tool, ok : BOOLEAN]
          /\ verbatim' \subseteq Text /\ offered' \subseteq Tool /\ current' \subseteq Call
          /\ call' \in Call \cup {None} /\ pending' \in Call \cup {None}
          /\ approved' \subseteq Call /\ unapproved' \subseteq Call
      BY <2>3 DEF TypeOK
    <3>2. reply' \in {None} \cup
             [verbatim : SUBSET Text, actions : SUBSET [tool : Tool, ok : BOOLEAN],
              problems : SUBSET Problem]
      BY <2>3
    <3>3. /\ invalid' \in 0..2 /\ failures' \in 0..2 /\ clock' \in {"far", "late", "over"}
          /\ pc' \in {"request", "directive", "step", "thinking", "use", "running", "missing",
                     "final", "ended"}
      <4>1. invalid' = 0 /\ failures' = 0
        BY <2>3
      <4>2. clock' = "far" /\ pc' = "request"
        BY <2>3
      <4>. QED  BY <4>1, <4>2
    <3>5. big' \in BOOLEAN /\ await' \in BOOLEAN
      <4>1. big' = FALSE /\ await' = FALSE
        BY <2>3
      <4>. QED  BY <4>1, Zenon
    <3>4. resuming' \in BOOLEAN /\ catalog' \in [Tool -> {"absent", "safe", "destructive"}]
      <4>1. resuming \in BOOLEAN /\ catalog \in [Tool -> {"absent", "safe", "destructive"}]
        BY DEF TypeOK
      <4>2. resuming' = resuming /\ catalog' = catalog
        BY <2>3
      <4>. QED  BY <4>1, <4>2
    <3>. QED  BY <2>1, <2>2, <3>1, <3>2, <3>3, <3>4, <3>5 DEF TypeOK
  <2>5. InHand'
    BY <1>16, <2>3 DEF Resume, InHand
  <2>. QED  BY <2>4, <2>5
<1>17. CASE Late
  BY <1>17 DEF Late, TypeOK, InHand
<1>18. CASE Refresh
  <2>1. PICK t \in Changing : \E s \in {"absent", "safe", "destructive"} \ {catalog[t]} :
            /\ t \in Reads \cup Asks => s # "destructive"
            /\ catalog' = [catalog EXCEPT ![t] = s]
    BY <1>18 DEF Refresh
  <2>2. t \in Tool /\ Reads \cup Asks \subseteq Tool
    BY LoopConstants
  <2>3. /\ catalog' \in [Tool -> {"absent", "safe", "destructive"}]
        /\ \A u \in Reads \cup Asks : catalog'[u] # "destructive"
    BY <2>1, <2>2 DEF TypeOK, InHand
  <2>. QED  BY <1>18, <2>3 DEF Refresh, TypeOK, InHand
<1>. QED
  BY <1>0, <1>1, <1>2, <1>3, <1>4, <1>5, <1>6, <1>7, <1>8, <1>9, <1>10, <1>11, <1>12, <1>13,
     <1>14, <1>15, <1>16, <1>17, <1>18 DEF Next, Step, ToolReturns

\* A request starts in shape.
LEMMA InitIInv == Init => IInv
<1>. SUFFICES ASSUME Init PROVE IInv
  OBVIOUS
<1>1. TypeOK
  <2>1. /\ catalog \in [Tool -> {"absent", "safe", "destructive"}]
        /\ suppressed \in [Tool -> Nat] /\ turns \in 1..MaxTurns
    BY LoopConstants DEF Init
  <2>2. /\ pc = "request" /\ clock = "far" /\ big = FALSE /\ resuming = FALSE /\ await = FALSE
        /\ offered = {} /\ call = None /\ pending = None /\ reply = None
        /\ invalid = 0 /\ failures = 0 /\ stale = 0
        /\ seen = {} /\ closed = {} /\ results = {} /\ problems = {} /\ actions = {}
        /\ verbatim = {} /\ current = {} /\ approved = {} /\ unapproved = {}
    BY DEF Init
  <2>3. /\ pc \in {"request", "directive", "step", "thinking", "use", "running", "missing",
                  "final", "ended"}
        /\ clock \in {"far", "late", "over"}
        /\ big \in BOOLEAN /\ await \in BOOLEAN /\ resuming \in BOOLEAN
    BY <2>2
  <2>4. /\ offered \subseteq Tool /\ call \in Call \cup {None} /\ pending \in Call \cup {None}
        /\ invalid \in 0..2 /\ failures \in 0..2 /\ stale \in Nat
        /\ seen \subseteq Call /\ current \subseteq Call /\ closed \subseteq Tool
        /\ results \subseteq Text \cup {Error}
    BY <2>2
  <2>5. /\ problems \subseteq Problem /\ actions \subseteq [tool : Tool, ok : BOOLEAN]
        /\ verbatim \subseteq Text /\ approved \subseteq Call /\ unapproved \subseteq Call
    BY <2>2
  <2>6. reply \in {None} \cup
           [verbatim : SUBSET Text, actions : SUBSET [tool : Tool, ok : BOOLEAN],
            problems : SUBSET Problem]
    BY <2>2
  <2>. QED  BY <2>1, <2>3, <2>4, <2>5, <2>6 DEF TypeOK
<1>2. InHand
  BY DEF Init, InHand
<1>. QED  BY <1>1, <1>2 DEF IInv

-----------------------------------------------------------------------------
(* Theorems *)

\* Every state of a request has the shape TypeOK says.
THEOREM TypeCorrect == Spec => []TypeOK
<1>1. IInv => TypeOK
  BY DEF IInv
<1>. QED  BY <1>1, InitIInv, NextIInv, PTL DEF Spec

-----------------------------------------------------------------------------
(* Approval *)

\* The call about to run is the one the user approved, or was not destructive
\* when it was chosen.
Licensed ==
  /\ pc = "use" /\ resuming => call \in approved
  /\ pc = "use" /\ ~resuming => catalog[call.tool] # "destructive" \/ call.tool \in flipped
  /\ OnlyApprovedRuns

\* Run spends an approval, and what it runs without one was listed as safe when
\* it was chosen.
LEMMA RunLicensed ==
  ASSUME IInv, Licensed, Run
  PROVE  Licensed'
<1>1. pc = "use" /\ pc' # "use" /\ flipped' = flipped
  BY DEF Run
<1>2. CASE catalog[call.tool] = "destructive" /\ call \notin approved
  <2>1. unapproved' = unapproved \cup {call} /\ call.tool \in flipped
    BY <1>1, <1>2 DEF Run, Licensed
  <2>. QED  BY <1>1, <2>1 DEF Licensed, OnlyApprovedRuns
<1>3. CASE ~(catalog[call.tool] = "destructive" /\ call \notin approved)
  <2>1. unapproved' = unapproved
    BY <1>3 DEF Run
  <2>. QED  BY <1>1, <2>1 DEF Licensed, OnlyApprovedRuns
<1>. QED  BY <1>2, <1>3

\* The catalog can change under a call that is about to run, and then says so.
LEMMA RefreshLicensed ==
  ASSUME IInv, Licensed, Refresh
  PROVE  Licensed'
<1>1. UNCHANGED <<pc, call, resuming, approved, unapproved>> /\ flipped \subseteq flipped'
  BY DEF Refresh
<1>2. ASSUME pc = "use", catalog[call.tool] # "destructive", catalog'[call.tool] = "destructive"
      PROVE  call.tool \in flipped'
  <2>1. PICK t \in Changing :
          /\ \E s : catalog' = [catalog EXCEPT ![t] = s]
          /\ flipped' = IF pc = "use" THEN flipped \cup {t} ELSE flipped
    BY DEF Refresh
  <2>2. call.tool = t
    BY <1>2, <2>1 DEF IInv, TypeOK
  <2>. QED  BY <1>2, <2>1, <2>2
<1>. QED  BY <1>1, <1>2 DEF Licensed, OnlyApprovedRuns

\* The other steps run nothing; Choose and Approve license what they pick.
LEMMA LicensedStep == IInv /\ Licensed /\ [Next]_vars => Licensed'
<1>. SUFFICES ASSUME IInv, Licensed, [Next]_vars PROVE Licensed'
  OBVIOUS
<1>1. CASE UNCHANGED <<unapproved, flipped>> /\ pc' # "use"
  BY <1>1 DEF Licensed, OnlyApprovedRuns
<1>2. CASE UNCHANGED <<unapproved, flipped, catalog, pc, call, resuming, approved>>
  BY <1>2 DEF Licensed, OnlyApprovedRuns
<1>3. CASE Begin \/ Decline \/ Directive \/ Stop \/ Ask \/ Unreadable \/ ModelError \/ Reply \/ Plan
  BY <1>1, <1>3 DEF Begin, Decline, Directive, Stop, Ask, Unreadable, ModelError, Reply, Plan
<1>4. CASE Approve
  BY <1>4 DEF Approve, Licensed, OnlyApprovedRuns
<1>5. ASSUME NEW c \in Call, AskApproval(c) PROVE Licensed'
  BY <1>1, <1>5 DEF AskApproval
<1>6. ASSUME NEW c \in Call, Choose(c) PROVE Licensed'
  BY <1>6 DEF Choose, Licensed, OnlyApprovedRuns, IInv, InHand
<1>7. CASE Refuse \/ ToolAsks \/ Final \/ Resume
  BY <1>1, <1>7 DEF Refuse, ToolAsks, Final, Resume
<1>8. CASE ToolReturns
  <2>1. UNCHANGED <<unapproved, flipped>> /\ pc' # "use"
    BY <1>8 DEF ToolReturns, ToolAnswers, ToolFails, ToolRenders, Returned
  <2>. QED  BY <1>1, <2>1
<1>9. CASE Late \/ UNCHANGED vars
  BY <1>2, <1>9 DEF Late, vars
<1>. QED
  BY <1>3, <1>4, <1>5, <1>6, <1>7, <1>8, <1>9, RunLicensed, RefreshLicensed
     DEF Next, Step, ToolReturns

\* A call that is destructive when it runs was approved, with its arguments and
\* for this one run, unless its entry in the catalog changed between
\* NeedsApproval and Call (loop.go:413).
THEOREM ApprovedRunsOnly == Spec => []OnlyApprovedRuns
<1>1. Init => Licensed
  BY DEF Init, Licensed, OnlyApprovedRuns
<1>2. Licensed => OnlyApprovedRuns
  BY DEF Licensed
<1>. QED  BY <1>1, <1>2, InitIInv, NextIInv, LicensedStep, PTL DEF Spec

-----------------------------------------------------------------------------
(* Repeats *)

\* What the loop remembers of the reads is what is current, and a turn that
\* resumes an approved call remembers nothing.
SeenIsCurrent ==
  /\ seen = current
  /\ pc \in {"request", "directive"} \/ resuming => seen = {}

\* Every step keeps the loop's memory and the truth together.
LEMMA SeenStep == IInv /\ SeenIsCurrent /\ [Next]_vars => SeenIsCurrent'
<1>. SUFFICES ASSUME IInv, SeenIsCurrent, [Next]_vars PROVE SeenIsCurrent'
  OBVIOUS
<1>. USE DEF SeenIsCurrent
<1>1. CASE ToolReturns
  <2>1. PICK text \in Text \cup {Error}, shut \in SUBSET Tool : Returned(text, IsRead, shut)
    BY <1>1, ToolReturnsEffect
  <2>2. CASE resuming
    <3>1. ~IsRead
      BY <2>2 DEF IInv, InHand, IsRead
    <3>. QED  BY <2>1, <2>2, <3>1 DEF Returned
  <2>3. CASE ~resuming
    BY <2>1, <2>3 DEF Returned, Remember
  <2>. QED  BY <2>2, <2>3
<1>2. CASE Begin \/ Approve \/ Decline
  BY <1>2 DEF Begin, Approve, Decline
<1>3. CASE Directive \/ Resume
  BY <1>3 DEF Directive, Resume, FreshLocals, IInv, InHand
<1>8. CASE UNCHANGED <<seen, current, resuming>> /\ pc' \notin {"request", "directive"}
  BY <1>8
<1>4. CASE Stop \/ Ask \/ Unreadable \/ ModelError \/ Reply \/ Plan \/ Final
  BY <1>4, <1>8 DEF Stop, Ask, Unreadable, ModelError, Reply, Plan, Final
<1>5. ASSUME NEW c \in Call, AskApproval(c) \/ Choose(c) PROVE SeenIsCurrent'
  BY <1>5, <1>8 DEF AskApproval, Choose
<1>6. CASE Refuse \/ Run \/ ToolAsks
  BY <1>6, <1>8 DEF Refuse, Run, ToolAsks
<1>7. CASE Late \/ Refresh \/ UNCHANGED vars
  BY <1>7 DEF Late, Refresh, vars
<1>. QED
  BY <1>1, <1>2, <1>3, <1>4, <1>5, <1>6, <1>7 DEF Next, Step, ToolReturns

\* A call is refused as a repeat exactly if the same read has answered in this
\* turn and nothing that may change its answer was called since.
THEOREM RefusedRepeatsOnly == Spec => RepeatsAreCurrent
<1>. DEFINE Step1 == pc = "use" /\ pc' # "use" /\ ~resuming => (pc' = "step" <=> call \in current)
<1>1. Init => SeenIsCurrent
  BY DEF Init, SeenIsCurrent
<1>2. IInv /\ SeenIsCurrent /\ [Next]_vars => [Step1]_vars
  <2>. SUFFICES ASSUME IInv, SeenIsCurrent, Next, pc = "use", pc' # "use", ~resuming
                PROVE  pc' = "step" <=> call \in current
    OBVIOUS
  <2>1. Refuse \/ Run
    <3>1. ~Late /\ ~Refresh /\ ~Resume
      BY DEF Late, Refresh, Resume
    <3>2. ~Begin /\ ~Approve /\ ~Decline /\ ~Directive /\ ~Stop /\ ~Ask
      BY DEF Begin, Approve, Decline, Directive, Stop, Ask
    <3>3. ~Unreadable /\ ~ModelError /\ ~Reply /\ ~Plan /\ ~ToolAsks /\ ~Final
      BY DEF Unreadable, ModelError, Reply, Plan, ToolAsks, Final
    <3>4. \A c \in Call : ~AskApproval(c) /\ ~Choose(c)
      BY DEF AskApproval, Choose
    <3>5. ~ToolAnswers /\ ~ToolFails /\ ~ToolRenders
      BY DEF ToolAnswers, ToolFails, ToolRenders
    <3>. QED  BY <3>1, <3>2, <3>3, <3>4, <3>5 DEF Next, Step
  <2>. QED  BY <2>1 DEF Refuse, Run, SeenIsCurrent
<1>. QED
  BY <1>1, <1>2, InitIInv, NextIInv, SeenStep, PTL DEF Spec, RepeatsAreCurrent

-----------------------------------------------------------------------------
(* Honesty *)

\* The tools of F that failed are among the problems of P that will be shown.
Owned(F, P) ==
  \A t \in F : \E p \in P : p.tool = t /\ p.kind = "tool_error" /\ ~p.recovered

\* While a turn runs, whatever acted is among its actions, and whatever failed
\* among the problems it will show.
Told ==
  /\ \A t \in changed : \E a \in actions : a.tool = t
  /\ Owned(failed, problems)
  /\ HonestReply

\* What failed, and will be shown, will still be shown after another report; and
\* a failure of a tool that is reported as such will be shown.
LEMMA ReportedKeepsErrors ==
  ASSUME NEW F, NEW P, NEW k, NEW t, NEW r,
         k # "tool_error" \/ ~r, Owned(F, P)
  PROVE  /\ Owned(F, Reported(P, k, t, r))
         /\ k = "tool_error" => Owned(F \cup {t}, Reported(P, k, t, r))
<1>. DEFINE q == [kind |-> k, tool |-> t,
                  recovered |-> r /\ \A o \in P : o.kind = k /\ o.tool = t => o.recovered]
<1>1. q \in Reported(P, k, t, r) /\ q.kind = k /\ q.tool = t /\ (~r => ~q.recovered)
  BY DEF Reported
<1>. HIDE DEF q
<1>2. ASSUME NEW u \in F
      PROVE  \E p \in Reported(P, k, t, r) : p.tool = u /\ p.kind = "tool_error" /\ ~p.recovered
  <2>1. PICK p \in P : p.tool = u /\ p.kind = "tool_error" /\ ~p.recovered
    BY DEF Owned
  <2>2. CASE p.kind # k \/ p.tool # t
    BY <2>1, <2>2 DEF Reported
  <2>3. CASE p.kind = k /\ p.tool = t
    BY <1>1, <2>1, <2>3
  <2>. QED  BY <2>2, <2>3
<1>3. ASSUME k = "tool_error"
      PROVE  \E p \in Reported(P, k, t, r) : p.tool = t /\ p.kind = "tool_error" /\ ~p.recovered
  BY <1>1, <1>3
<1>. QED  BY <1>2, <1>3 DEF Owned

\* Ending with a reply that was rendered from the turn's actions and problems
\* is honest.
LEMMA RenderedIsHonest ==
  ASSUME Told, NEW spoken \in BOOLEAN, UNCHANGED <<changed, failed>>,
         reply' = Render(spoken, actions, problems'),
         Owned(failed, problems')
  PROVE  HonestReply'
<1>. SUFFICES ASSUME reply' # None
              PROVE  /\ \A t \in changed : \E a \in reply'.actions : a.tool = t
                     /\ \A t \in failed : \E p \in reply'.problems :
                          p.tool = t /\ p.kind = "tool_error"
  BY DEF HonestReply
<1>1. reply'.actions = actions /\ reply'.problems = Shown(problems')
  BY DEF Render
<1>. QED  BY <1>1 DEF Told, Shown, Owned

\* Every step keeps the record of what was done.
LEMMA ToldStep == IInv /\ Told /\ [Next]_vars => Told'
<1>. SUFFICES ASSUME IInv, Told, [Next]_vars PROVE Told'
  OBVIOUS
<1>0. CASE UNCHANGED <<changed, failed, actions, problems, reply>> /\ (reply = None \/ pc = pc')
  BY <1>0 DEF Told, HonestReply
<1>1. CASE Begin \/ Approve \/ Directive \/ Ask \/ Plan \/ Run \/ ToolAsks
  BY <1>0, <1>1 DEF Begin, Approve, Directive, Ask, Plan, Run, ToolAsks, IInv, InHand
<1>2. ASSUME NEW c \in Call, AskApproval(c) \/ Choose(c) PROVE Told'
  BY <1>0, <1>2 DEF AskApproval, Choose, IInv, InHand
<1>3. CASE Late \/ Refresh \/ UNCHANGED vars
  BY <1>0, <1>3 DEF Late, Refresh, vars
<1>4. ASSUME NEW k \in Kind \ {"tool_error"}, NEW t, NEW r,
             problems' = Reported(problems, k, t, r), UNCHANGED <<changed, failed, reply>>,
             actions \subseteq actions', reply = None
      PROVE  Told'
  <2>1. Owned(failed, problems')
    BY <1>4, ReportedKeepsErrors DEF Told
  <2>. QED  BY <1>4, <2>1 DEF Told, HonestReply
<1>5. CASE Decline \/ Unreadable \/ ModelError \/ Refuse
  <2>1. {"unreadable", "model_error", "repeated", "declined"} \subseteq Kind \ {"tool_error"}
    BY DEF Kind
  <2>2. UNCHANGED <<changed, failed, reply>> /\ reply = None /\ actions \subseteq actions'
    BY <1>5 DEF Decline, Unreadable, ModelError, Refuse, IInv, InHand
  <2>3. \E k \in Kind \ {"tool_error"} : \E t, r : problems' = Reported(problems, k, t, r)
    <3>1. CASE Decline
      BY <2>1, <3>1 DEF Decline
    <3>2. CASE Unreadable
      BY <2>1, <3>2 DEF Unreadable
    <3>3. CASE ModelError
      <4>1. \E r : problems' = Reported(problems, "model_error", None, r)
        BY <3>3 DEF ModelError
      <4>. QED  BY <2>1, <4>1
    <3>4. CASE Refuse
      BY <2>1, <3>4 DEF Refuse
    <3>. QED  BY <1>5, <3>1, <3>2, <3>3, <3>4
  <2>. QED  BY <1>4, <2>2, <2>3
<1>6. CASE Stop
  <2>. DEFINE P == Reported(problems, "stalled", None, FALSE)
  <2>1. Owned(failed, P)
    BY ReportedKeepsErrors DEF Told
  <2>2. P \in SUBSET Problem
    BY ReportedType DEF IInv, TypeOK, Kind
  <2>. HIDE DEF P
  <2>3. \A p \in P : [p EXCEPT !.recovered = FALSE] \in Promoted(P)
    BY DEF Promoted
  <2>4. \A p \in P : LET q == [p EXCEPT !.recovered = FALSE] IN
                     q.tool = p.tool /\ q.kind = p.kind /\ ~q.recovered
    BY <2>2 DEF Problem
  <2>5. Owned(failed, Promoted(P))
    <3>. SUFFICES ASSUME NEW t \in failed
                  PROVE  \E q \in Promoted(P) : q.tool = t /\ q.kind = "tool_error" /\ ~q.recovered
      BY DEF Owned
    <3>1. PICK p \in P : p.tool = t /\ p.kind = "tool_error"
      BY <2>1 DEF Owned
    <3>. QED  BY <2>3, <2>4, <3>1
  <2>6. problems' = Promoted(P) /\ UNCHANGED <<changed, failed, actions, reply>> /\ reply = None
    BY <1>6 DEF Stop, P, IInv, InHand
  <2>. QED  BY <2>5, <2>6 DEF Told, HonestReply
<1>7. CASE Reply
  <2>1. UNCHANGED <<changed, failed, actions, problems>> /\ reply = None
    BY <1>7 DEF Reply, IInv, InHand
  <2>2. CASE reply' = reply
    BY <2>1, <2>2 DEF Told, HonestReply
  <2>3. ASSUME NEW spoken \in BOOLEAN, reply' = Render(spoken, actions, problems) PROVE Told'
    BY <2>1, <2>3, RenderedIsHonest DEF Told
  <2>. QED  BY <1>7, <2>2, <2>3 DEF Reply
<1>8. CASE Final
  <2>1. UNCHANGED <<changed, failed, actions>> /\ reply = None
    BY <1>8 DEF Final, IInv, InHand
  <2>2. problems' = problems \/ problems' = Reported(problems, "model_error", None, FALSE)
    BY <1>8 DEF Final
  <2>3. Owned(failed, problems')
    BY <2>2, ReportedKeepsErrors DEF Told
  <2>4. CASE reply' = reply
    BY <2>1, <2>3, <2>4 DEF Told, HonestReply
  <2>5. ASSUME NEW spoken \in BOOLEAN, reply' = Render(spoken, actions, problems') PROVE Told'
    BY <2>1, <2>3, <2>5, RenderedIsHonest DEF Told
  <2>. QED  BY <1>8, <2>4, <2>5 DEF Final
<1>9. CASE ToolReturns
  <2>1. /\ reply' = reply /\ reply = None
        /\ \/ UNCHANGED <<problems, failed>>
           \/ /\ problems' = Reported(problems, "tool_error", call.tool, FALSE)
              /\ failed' = failed \cup {call.tool}
    BY <1>9, ToolReturnsEffect DEF IInv, InHand
  <2>2. PICK ok \in BOOLEAN : Acted(ok)
    BY <1>9, ToolReturnsEffect
  <2>3. changed' = IF IsRead THEN changed ELSE changed \cup {call.tool}
    BY <1>9, ToolReturnsEffect DEF Returned
  <2>4. \A t \in changed' : \E a \in actions' : a.tool = t
    <3>1. [tool |-> call.tool, ok |-> ok].tool = call.tool
      OBVIOUS
    <3>. QED  BY <2>2, <2>3, <3>1 DEF Acted, Told
  <2>5. Owned(failed', problems')
    <3>1. Owned(failed \cup {call.tool}, Reported(problems, "tool_error", call.tool, FALSE))
      BY ReportedKeepsErrors DEF Told
    <3>. QED  BY <2>1, <3>1 DEF Told
  <2>. QED  BY <2>1, <2>4, <2>5 DEF Told, HonestReply
<1>10. CASE Resume
  BY <1>10 DEF Resume, Told, HonestReply, Owned
<1>. QED
  BY <1>1, <1>2, <1>3, <1>5, <1>6, <1>7, <1>8, <1>9, <1>10 DEF Next, Step, ToolReturns

\* A reply names every tool that acted and every tool that failed in its turn
\* (reply.go:41).
THEOREM RepliesAreHonest == Spec => []HonestReply
<1>1. Init => Told
  BY DEF Init, Told, HonestReply, Owned
<1>2. Told => HonestReply
  BY DEF Told
<1>. QED  BY <1>1, <1>2, InitIInv, NextIInv, ToldStep, PTL DEF Spec
===============================================================================
