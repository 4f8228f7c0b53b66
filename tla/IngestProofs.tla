----------------------------- MODULE IngestProofs -----------------------------
(***************************************************************************)
(* Proofs about Ingest: an event becomes one task while the FIFO holds it, *)
(* and mail marked read reaches the queue unless the process crashes.      *)
(***************************************************************************)
EXTENDS Ingest, SequenceTheorems, TLAPS

-----------------------------------------------------------------------------
(* The FIFO *)

\* remember puts the event in, throws out nothing but the oldest entry, and
\* never holds more than DedupSize.
LEMMA RememberedEffect ==
  ASSUME TypeOK, NEW e \in Event
  PROVE  /\ Remembered(e) \in Seq(Event) /\ Len(Remembered(e)) <= DedupSize
         /\ e \in ToSet(Remembered(e)) /\ ToSet(Remembered(e)) \subseteq Seen \cup {e}
<1>1. order \in Seq(Event) /\ Len(order) <= DedupSize /\ DedupSize \in Nat \ {0}
  BY IngestConstants DEF TypeOK
<1>. DEFINE base == IF Len(order) = DedupSize THEN Tail(order) ELSE order
<1>2. /\ base \in Seq(Event) /\ Len(base) < DedupSize
      /\ \A k \in 1..Len(base) : \E n \in 1..Len(order) : base[k] = order[n]
  <2>1. CASE Len(order) = DedupSize
    <3>1. order # <<>>
      BY <1>1, <2>1
    <3>2. /\ Tail(order) \in Seq(Event) /\ Len(Tail(order)) = Len(order) - 1
          /\ \A k \in 1..Len(Tail(order)) : Tail(order)[k] = order[k + 1]
      BY <1>1, <3>1, HeadTailProperties
    <3>3. \A k \in 1..Len(Tail(order)) : k + 1 \in 1..Len(order)
      BY <1>1, <3>2
    <3>. QED  BY <1>1, <2>1, <3>2, <3>3
  <2>2. CASE Len(order) # DedupSize
    BY <1>1, <2>2
  <2>. QED  BY <2>1, <2>2
<1>3. Remembered(e) = Append(base, e)
  BY DEF Remembered
<1>4. /\ Append(base, e) \in Seq(Event) /\ Len(Append(base, e)) = Len(base) + 1
      /\ \A k \in 1..Len(base) : Append(base, e)[k] = base[k]
      /\ Append(base, e)[Len(base) + 1] = e
  BY <1>2, AppendProperties
<1>. HIDE DEF base
<1>5. Len(base) \in Nat
  BY <1>2
<1>6. Remembered(e) \in Seq(Event) /\ Len(Remembered(e)) <= DedupSize
  BY <1>1, <1>2, <1>3, <1>4, <1>5
<1>7. DOMAIN Remembered(e) = 1..(Len(base) + 1) /\ DOMAIN order = 1..Len(order)
  BY <1>1, <1>3, <1>4
<1>8. e \in ToSet(Remembered(e))
  BY <1>3, <1>4, <1>5, <1>7 DEF ToSet
<1>9. ToSet(Remembered(e)) \subseteq Seen \cup {e}
  BY <1>2, <1>3, <1>4, <1>5, <1>7 DEF ToSet, Seen
<1>. QED  BY <1>6, <1>8, <1>9

\* What Admit does: it drops the event or remembers it, and what is forgotten
\* by that is noted.
LEMMA AdmitEffect ==
  ASSUME TypeOK, NEW s \in Source, NEW e \in Event, Admit(s, e)
  PROVE  /\ emitting[s] = None /\ up
         /\ order' \in Seq(Event) /\ Len(order') <= DedupSize
         /\ \/ e \in Seen /\ UNCHANGED <<emitting, order, forgot>>
            \/ /\ e \notin Seen /\ e \in Seen' /\ Seen' \subseteq Seen \cup {e}
               /\ forgot' = forgot \cup (Seen \ Seen')
               /\ \/ Allowed(e) /\ emitting' = [emitting EXCEPT ![s] = e]
                  \/ ~Allowed(e) /\ emitting' = [emitting EXCEPT ![s] = None]
<1>1. /\ Remembered(e) \in Seq(Event) /\ Len(Remembered(e)) <= DedupSize
      /\ e \in ToSet(Remembered(e)) /\ ToSet(Remembered(e)) \subseteq Seen \cup {e}
  BY RememberedEffect
<1>2. CASE e \in Seen
  BY <1>2 DEF Admit, engine, TypeOK
<1>3. CASE e \notin Seen
  BY <1>1, <1>3 DEF Admit, Seen
<1>. QED  BY <1>2, <1>3

-----------------------------------------------------------------------------
(* The shape of the state *)

\* The doubled backoff is a backoff: it is capped.
LEMMA BackoffBounded ==
  ASSUME TypeOK, NEW s \in Source
  PROVE  NextBackoff(s) \in 1..MaxBackoff
<1>1. backoff[s] \in 1..MaxBackoff /\ MaxBackoff \in Nat \ {0}
  BY IngestConstants DEF TypeOK
<1>2. \E x \in {2 * backoff[s], MaxBackoff} : \A y \in {2 * backoff[s], MaxBackoff} : x <= y
  BY <1>1
<1>3. NextBackoff(s) \in {2 * backoff[s], MaxBackoff} /\ NextBackoff(s) <= MaxBackoff
  BY <1>2 DEF NextBackoff, Min
<1>. QED  BY <1>1, <1>3

\* The shape is kept by every step.
LEMMA TypeStep == TypeOK /\ [Next]_vars => TypeOK'
<1>. SUFFICES ASSUME TypeOK, [Next]_vars PROVE TypeOK'
  OBVIOUS
<1>b. UNCHANGED bounds => /\ delivered' \in 0..MaxDeliveries /\ stops' \in 0..MaxStops
                          /\ faults' \in 0..MaxFaults
  BY DEF TypeOK, bounds
<1>f. Fault => /\ delivered' \in 0..MaxDeliveries /\ stops' \in 0..MaxStops /\ faults' \in 0..MaxFaults
  BY IngestConstants DEF TypeOK, Fault
<1>1. ASSUME NEW m \in Mail, Arrive(m) PROVE TypeOK'
  BY <1>1, <1>b DEF Arrive, poller, engine, supervision, TypeOK
<1>2. CASE Poll
  BY <1>2, <1>b DEF Poll, Wanted, Unread, engine, supervision, TypeOK
<1>3. CASE Store
  BY <1>3, <1>b, <1>f DEF Store, NoFault, engine, supervision, TypeOK
<1>4. CASE EmitMail
  <2>1. PICK m \in fetched : Admit("email", m) /\ fetched' = fetched \ {m}
    BY <1>4 DEF EmitMail
  <2>2. m \in Mail /\ m \in Event /\ fetched' \subseteq Mail
    BY <2>1 DEF TypeOK, Event
  <2>3. "email" \in Source /\ emitting \in [Source -> Event \cup {None}]
    BY DEF Source, TypeOK
  <2>4. /\ order' \in Seq(Event) /\ Len(order') <= DedupSize
        /\ \/ emitting' = emitting
           \/ emitting' = [emitting EXCEPT !["email"] = m]
           \/ emitting' = [emitting EXCEPT !["email"] = None]
    BY <2>1, <2>2, <2>3, AdmitEffect
  <2>5. emitting' \in [Source -> Event \cup {None}]
    BY <2>2, <2>3, <2>4
  <2>. QED  BY <1>4, <1>b, <2>2, <2>4, <2>5 DEF EmitMail, supervision, TypeOK
<1>5. CASE PollEnd
  BY <1>5, <1>b DEF PollEnd, engine, supervision, TypeOK
<1>6. ASSUME NEW c \in Chat, EmitChat(c) PROVE TypeOK'
  <2>1. c \in Event /\ Admit("chat", c)
    BY <1>6 DEF EmitChat, Event
  <2>2. /\ order' \in Seq(Event) /\ Len(order') <= DedupSize
        /\ emitting' \in [Source -> Event \cup {None}]
    BY <2>1, AdmitEffect DEF TypeOK, Source
  <2>3. delivered' \in 0..MaxDeliveries
    BY <1>6, IngestConstants DEF EmitChat, TypeOK
  <2>. QED  BY <1>6, <2>2, <2>3 DEF EmitChat, poller, supervision, TypeOK
<1>7. ASSUME NEW s \in Source, Enqueue(s) PROVE TypeOK'
  <2>1. /\ emitting' \in [Source -> Event \cup {None}]
        /\ delivered' \in 0..MaxDeliveries /\ stops' \in 0..MaxStops /\ faults' \in 0..MaxFaults
    BY <1>7, <1>b, <1>f DEF Enqueue, NoFault, TypeOK
  <2>2. tasks' \in [Event -> Nat]
    <3>1. tasks \in [Event -> Nat] /\ emitting[s] \in Event
      BY <1>7 DEF Enqueue, TypeOK
    <3>2. tasks' = tasks \/ tasks' = [tasks EXCEPT ![emitting[s]] = @ + 1]
      BY <1>7 DEF Enqueue
    <3>. QED  BY <3>1, <3>2
  <2>. QED  BY <1>7, <2>1, <2>2 DEF Enqueue, poller, supervision, TypeOK
<1>8. ASSUME NEW s \in Source, Healthy(s) PROVE TypeOK'
  BY <1>8, <1>b DEF Healthy, poller, engine, TypeOK
<1>9. ASSUME NEW s \in Source, SourceStops(s) PROVE TypeOK'
  BY <1>9, <1>b DEF SourceStops, poller, engine, TypeOK
<1>10. CASE SourceEnds
  <2>1. AfterRun("chat") \in 1..MaxBackoff
    BY IngestConstants DEF AfterRun, TypeOK, Source
  <2>. QED  BY <1>10, <1>f, <2>1 DEF SourceEnds, poller, engine, TypeOK
<1>11. CASE SourceRestarts
  <2>1. NextBackoff("chat") \in 1..MaxBackoff
    BY BackoffBounded DEF Source
  <2>. QED  BY <1>11, <1>b, <2>1 DEF SourceRestarts, poller, engine, TypeOK
<1>12. CASE Cancel
  <2>1. stops' \in 0..MaxStops
    BY <1>12, IngestConstants DEF Cancel, TypeOK
  <2>. QED  BY <1>12, <2>1 DEF Cancel, poller, engine, supervision, TypeOK
<1>13. CASE Crash \/ Exit
  <2>1. stops' \in 0..MaxStops
    BY <1>13, IngestConstants DEF Crash, Exit, TypeOK
  <2>2. LoseMemory
    BY <1>13 DEF Crash, Exit
  <2>3. order' \in Seq(Event) /\ Len(order') <= DedupSize
    <3>1. order' = <<>> /\ DedupSize \in Nat
      BY <2>2, IngestConstants DEF LoseMemory
    <3>. QED  BY <3>1
  <2>. QED  BY <2>1, <2>2, <2>3 DEF LoseMemory, supervision, TypeOK
<1>14. CASE Boot
  BY <1>14, <1>b, IngestConstants DEF Boot, poller, engine, TypeOK
<1>15. CASE UNCHANGED vars
  BY <1>15, <1>b DEF vars, poller, engine, supervision, TypeOK
<1>. QED
  BY <1>1, <1>2, <1>3, <1>4, <1>5, <1>6, <1>7, <1>8, <1>9, <1>10, <1>11, <1>12, <1>13, <1>14, <1>15 DEF Next

\* The program starts with it.
LEMMA TypeInit == Init => TypeOK
<1>1. <<>> \in Seq(Event) /\ Len(<<>>) = 0
  OBVIOUS
<1>2. ASSUME Init
      PROVE  /\ backoff \in [Source -> 1..MaxBackoff] /\ tasks \in [Event -> Nat]
             /\ delivered \in 0..MaxDeliveries /\ stops \in 0..MaxStops /\ faults \in 0..MaxFaults
  BY <1>2, IngestConstants DEF Init
<1>3. ASSUME Init
      PROVE  order \in Seq(Event) /\ Len(order) <= DedupSize
  BY <1>1, <1>3, IngestConstants DEF Init
<1>4. ASSUME Init
      PROVE  /\ mailbox \in [Mail -> {"there", "unread", "read"}]
             /\ poll \in {"idle", "store", "emit"} /\ fetched \subseteq Mail
             /\ emitting \in [Source -> Event \cup {None}]
             /\ sup \in [Source -> {"run", "wait", "ended"}] /\ healthy \in [Source -> BOOLEAN]
             /\ up \in BOOLEAN /\ stopping \in BOOLEAN
  BY <1>4 DEF Init
<1>. QED  BY <1>2, <1>3, <1>4 DEF TypeOK

\* The state has its shape, whatever the bounds.
THEOREM TypeCorrect == Spec => []TypeOK
<1>1. Init => TypeOK
  BY TypeInit
<1>2. TypeOK /\ [Next]_vars => TypeOK'
  BY TypeStep
<1>. QED  BY <1>1, <1>2, PTL DEF Spec

-----------------------------------------------------------------------------
(* One task for each event *)

\* An event still remembered is on its way to its one task, or has become it.
Once(e) ==
  e \notin forgot =>
    /\ tasks[e] <= 1
    /\ tasks[e] = 1 => e \in Seen
    /\ \A s \in Source : emitting[s] = e => e \in Seen /\ tasks[e] = 0
    /\ \A s, t \in Source : emitting[s] = e /\ emitting[t] = e => s = t

OnceEach == \A e \in Event : Once(e)

\* A poll holds mail only while it runs, and is over before its source ends.
Batch ==
  /\ poll = "idle" => fetched = {}
  /\ poll # "emit" => emitting["email"] = None
  /\ sup["email"] = "ended" => poll = "idle"

\* Mail comes from the poller and from nobody else.
Kinds == emitting["email"] \in Mail \cup {None} /\ emitting["chat"] \in Chat \cup {None}

\* What is remembered of the mail has been offered to the queue, or is next.
Known == \A m \in Mail : m \in Seen => m \in offered \/ emitting["email"] = m

\* Remembering an event keeps it and every other at one task.
LEMMA AdmitOnce ==
  ASSUME TypeOK, OnceEach, NEW s \in Source, NEW e \in Event, Admit(s, e), UNCHANGED tasks
  PROVE  OnceEach'
<1>. SUFFICES ASSUME NEW x \in Event, x \notin forgot' PROVE Once(x)'
  BY DEF OnceEach, Once
<1>1. /\ emitting[s] = None
      /\ \/ e \in Seen /\ UNCHANGED <<emitting, order, forgot>>
         \/ /\ e \notin Seen /\ e \in Seen' /\ Seen' \subseteq Seen \cup {e}
            /\ forgot' = forgot \cup (Seen \ Seen')
            /\ \/ emitting' = [emitting EXCEPT ![s] = e]
               \/ emitting' = [emitting EXCEPT ![s] = None]
  BY AdmitEffect
<1>2. Once(x)
  BY DEF OnceEach
<1>3. CASE e \in Seen /\ UNCHANGED <<emitting, order, forgot>>
  <2>1. Seen' = Seen
    BY <1>3 DEF Seen
  <2>. QED  BY <1>2, <1>3, <2>1 DEF Once
<1>4. CASE /\ e \notin Seen /\ e \in Seen' /\ Seen' \subseteq Seen \cup {e}
           /\ forgot' = forgot \cup (Seen \ Seen')
           /\ \/ emitting' = [emitting EXCEPT ![s] = e]
              \/ emitting' = [emitting EXCEPT ![s] = None]
  <2>1. x \notin forgot /\ (x \in Seen => x \in Seen')
    BY <1>4
  <2>2. /\ tasks[x] <= 1 /\ (tasks[x] = 1 => x \in Seen) /\ tasks[x] \in Nat
        /\ \A t \in Source : emitting[t] = x => x \in Seen /\ tasks[x] = 0
        /\ \A t, u \in Source : emitting[t] = x /\ emitting[u] = x => t = u
    BY <1>2, <2>1 DEF Once, TypeOK
  <2>3. x # None /\ emitting \in [Source -> Event \cup {None}]
    BY IngestConstants DEF Event, TypeOK
  <2>4. \A t \in Source : emitting'[t] = x => emitting[t] = x \/ (t = s /\ x = e)
    BY <1>4, <2>3
  <2>5. CASE x = e
    <3>1. tasks[x] = 0 /\ \A t \in Source : emitting[t] # x
      BY <1>4, <2>2, <2>5
    <3>. QED  BY <1>4, <2>4, <2>5, <3>1 DEF Once
  <2>6. CASE x # e
    BY <2>1, <2>2, <2>4, <2>6 DEF Once
  <2>. QED  BY <2>5, <2>6
<1>. QED  BY <1>1, <1>3, <1>4

\* Every step keeps every remembered event at one task.
LEMMA OnceStep == TypeOK /\ OnceEach /\ [Next]_vars => OnceEach'
<1>. SUFFICES ASSUME TypeOK, OnceEach, [Next]_vars PROVE OnceEach'
  OBVIOUS
<1>0. UNCHANGED <<tasks, emitting, order, forgot>> => OnceEach'
  BY DEF OnceEach, Once, Seen
<1>1. ASSUME NEW m \in Mail, Arrive(m) PROVE OnceEach'
  BY <1>0, <1>1 DEF Arrive, engine, past
<1>2. CASE Poll \/ Store \/ PollEnd
  BY <1>0, <1>2 DEF Poll, Store, PollEnd, engine, past
<1>3. CASE EmitMail
  <2>1. PICK m \in fetched : Admit("email", m)
    BY <1>3 DEF EmitMail
  <2>2. m \in Event /\ "email" \in Source /\ UNCHANGED tasks
    BY <1>3 DEF EmitMail, TypeOK, Event, Source
  <2>. QED  BY <2>1, <2>2, AdmitOnce
<1>4. ASSUME NEW c \in Chat, EmitChat(c) PROVE OnceEach'
  <2>1. c \in Event /\ "chat" \in Source /\ UNCHANGED tasks /\ Admit("chat", c)
    BY <1>4 DEF EmitChat, Event, Source
  <2>. QED  BY <2>1, AdmitOnce
<1>5. ASSUME NEW s \in Source, Enqueue(s) PROVE OnceEach'
  <2>. SUFFICES ASSUME NEW x \in Event, x \notin forgot' PROVE Once(x)'
    BY DEF OnceEach, Once
  <2>1. /\ emitting[s] # None /\ emitting' = [emitting EXCEPT ![s] = None]
        /\ UNCHANGED <<order, forgot>>
        /\ tasks' = tasks \/ tasks' = [tasks EXCEPT ![emitting[s]] = @ + 1]
    BY <1>5 DEF Enqueue
  <2>2. x # None /\ emitting \in [Source -> Event \cup {None}] /\ tasks \in [Event -> Nat]
    BY IngestConstants DEF Event, TypeOK
  <2>3. Seen' = Seen
    BY <2>1 DEF Seen
  <2>4. /\ tasks[x] <= 1 /\ (tasks[x] = 1 => x \in Seen) /\ tasks[x] \in Nat
        /\ \A t \in Source : emitting[t] = x => x \in Seen /\ tasks[x] = 0
        /\ \A t, u \in Source : emitting[t] = x /\ emitting[u] = x => t = u
    BY <2>1, <2>2 DEF OnceEach, Once
  <2>5. \A t \in Source : emitting'[t] = x => emitting[t] = x /\ t # s
    BY <2>1, <2>2
  <2>6. CASE emitting[s] = x
    <3>1. x \in Seen /\ tasks[x] = 0 /\ \A t \in Source : emitting'[t] # x
      BY <2>4, <2>5, <2>6
    <3>2. tasks'[x] \in {0, 1}
      BY <2>1, <2>2, <3>1
    <3>. QED  BY <2>3, <3>1, <3>2 DEF Once
  <2>7. CASE emitting[s] # x
    <3>1. tasks'[x] = tasks[x]
      BY <2>1, <2>2, <2>7
    <3>. QED  BY <2>3, <2>4, <2>5, <3>1 DEF Once
  <2>. QED  BY <2>6, <2>7
<1>6. ASSUME NEW s \in Source, Healthy(s) \/ SourceStops(s) PROVE OnceEach'
  BY <1>0, <1>6 DEF Healthy, SourceStops, engine, past
<1>7. CASE SourceEnds \/ SourceRestarts \/ Cancel \/ Boot
  BY <1>0, <1>7 DEF SourceEnds, SourceRestarts, Cancel, Boot, engine, past
<1>8. CASE Crash \/ Exit
  <2>. SUFFICES ASSUME NEW x \in Event, x \notin forgot' PROVE Once(x)'
    BY DEF OnceEach, Once
  <2>1. /\ emitting' = [s \in Source |-> None] /\ forgot' = forgot \cup Seen /\ tasks' = tasks
    BY <1>8 DEF Crash, Exit, LoseMemory
  <2>2. tasks[x] = 0
    BY <2>1 DEF OnceEach, Once, TypeOK
  <2>3. \A s \in Source : emitting'[s] # x
    BY <2>1, IngestConstants DEF Event
  <2>. QED  BY <2>1, <2>2, <2>3 DEF Once
<1>9. CASE UNCHANGED vars
  BY <1>0, <1>9 DEF vars, engine, past
<1>. QED
  BY <1>1, <1>2, <1>3, <1>4, <1>5, <1>6, <1>7, <1>8, <1>9 DEF Next

\* Engine.admit: an event that comes again becomes one task, as long as the
\* FIFO holds it, whichever source brings it and whenever.
THEOREM OneTaskForEach == Spec => []OneTaskEach
<1>1. Init => TypeOK /\ OnceEach
  <2>1. ASSUME Init PROVE OnceEach
    <3>1. \A e \in Event : tasks[e] = 0 /\ \A s \in Source : emitting[s] # e
      BY <2>1, IngestConstants DEF Init, Event
    <3>. QED  BY <3>1 DEF OnceEach, Once
  <2>. QED  BY <2>1, TypeInit
<1>2. TypeOK /\ OnceEach /\ [Next]_vars => (TypeOK /\ OnceEach)'
  BY TypeStep, OnceStep
<1>3. TypeOK /\ OnceEach => OneTaskEach
  BY DEF TypeOK, OnceEach, Once, OneTaskEach
<1>. QED  BY <1>1, <1>2, <1>3, PTL DEF Spec

-----------------------------------------------------------------------------
(* Mail that was marked read *)

\* Mail and chat messages are told apart.
LEMMA Apart == Mail \cap Chat = {} /\ None \notin Mail /\ None \notin Chat
<1>1. Mail \subseteq Int
  BY IngestConstants DEF Mail
<1>. QED  BY <1>1, IngestConstants

\* A poll and the source that runs it keep in step.
LEMMA BatchStep == TypeOK /\ Batch /\ [Next]_vars => Batch'
<1>. SUFFICES ASSUME TypeOK, Batch, [Next]_vars PROVE Batch'
  OBVIOUS
<1>0. UNCHANGED <<poll, fetched, emitting, sup>> => Batch'
  BY DEF Batch
<1>1. ASSUME NEW m \in Mail, Arrive(m) PROVE Batch'
  BY <1>0, <1>1 DEF Arrive, poller, engine, supervision
<1>2. CASE Poll
  BY <1>2 DEF Poll, Batch, engine, supervision
<1>3. CASE Store
  BY <1>3 DEF Store, Batch, engine, supervision
<1>4. CASE EmitMail
  BY <1>4 DEF EmitMail, Batch, supervision
<1>5. CASE PollEnd
  BY <1>5 DEF PollEnd, Batch, engine, supervision
<1>6. ASSUME NEW c \in Chat, EmitChat(c) PROVE Batch'
  <2>1. c \in Event /\ "chat" \in Source /\ Admit("chat", c) /\ UNCHANGED <<poll, fetched, sup>>
    BY <1>6 DEF EmitChat, Event, Source, poller, supervision
  <2>2. \/ emitting' = emitting
        \/ \E x \in {c, None} : emitting' = [emitting EXCEPT !["chat"] = x]
    BY <2>1, AdmitEffect
  <2>3. emitting'["email"] = emitting["email"]
    BY <2>2 DEF TypeOK, Source
  <2>. QED  BY <2>1, <2>3 DEF Batch
<1>7. ASSUME NEW s \in Source, Enqueue(s) PROVE Batch'
  <2>1. emitting' = [emitting EXCEPT ![s] = None] /\ UNCHANGED <<poll, fetched, sup>>
    BY <1>7 DEF Enqueue, poller, supervision
  <2>2. emitting'["email"] \in {emitting["email"], None}
    BY <2>1 DEF TypeOK, Source
  <2>. QED  BY <2>1, <2>2 DEF Batch
<1>8. ASSUME NEW s \in Source, Healthy(s) PROVE Batch'
  BY <1>0, <1>8 DEF Healthy, poller, engine
<1>9. ASSUME NEW s \in Source, SourceStops(s) PROVE Batch'
  BY <1>9 DEF SourceStops, poller, engine, Batch, TypeOK, Source
<1>10. CASE SourceEnds \/ SourceRestarts
  <2>1. sup'["email"] = sup["email"] /\ UNCHANGED <<poll, fetched, emitting>>
    BY <1>10 DEF SourceEnds, SourceRestarts, poller, engine, TypeOK, Source
  <2>. QED  BY <2>1 DEF Batch
<1>11. CASE Cancel
  BY <1>0, <1>11 DEF Cancel, poller, engine, supervision
<1>12. CASE Crash \/ Exit
  <2>1. /\ poll' = "idle" /\ fetched' = {}
        /\ emitting' = [s \in Source |-> None]
    BY <1>12 DEF Crash, Exit, LoseMemory
  <2>2. emitting'["email"] = None
    BY <2>1 DEF Source
  <2>. QED  BY <2>1, <2>2 DEF Batch
<1>13. CASE Boot
  BY <1>13 DEF Boot, poller, engine, Batch, Source
<1>14. CASE UNCHANGED vars
  BY <1>0, <1>14 DEF vars, poller, engine, supervision
<1>. QED
  BY <1>1, <1>2, <1>3, <1>4, <1>5, <1>6, <1>7, <1>8, <1>9, <1>10, <1>11, <1>12, <1>13, <1>14
     DEF Next

\* What a step does to the mail under way: nothing, or a mail is admitted, or
\* it comes to the queue, or the memory goes.
LEMMA MailStep ==
  ASSUME TypeOK, Kinds, Known, [Next]_vars
  PROVE  Kinds' /\ Known'
<1>k. /\ emitting \in [Source -> Event \cup {None}]
      /\ emitting["email"] \in Mail \cup {None} /\ emitting["chat"] \in Chat \cup {None}
      /\ Source = {"email", "chat"}
  BY DEF TypeOK, Kinds, Source
<1>0. UNCHANGED <<emitting, order, offered>> => Kinds' /\ Known'
  BY DEF Kinds, Known, Seen
<1>1. ASSUME NEW m \in Mail, Arrive(m) PROVE Kinds' /\ Known'
  BY <1>0, <1>1 DEF Arrive, engine, past
<1>2. CASE Poll \/ Store \/ PollEnd
  BY <1>0, <1>2 DEF Poll, Store, PollEnd, engine, past
<1>3. CASE EmitMail
  <2>1. PICK m \in fetched : Admit("email", m)
    BY <1>3 DEF EmitMail
  <2>2. m \in Mail /\ m \in Event /\ "email" \in Source /\ UNCHANGED offered /\ Allowed(m)
    BY <1>3 DEF EmitMail, TypeOK, Event, Source, Allowed
  <2>3. /\ emitting["email"] = None
        /\ \/ UNCHANGED <<emitting, order>>
           \/ Seen' \subseteq Seen \cup {m} /\ emitting' = [emitting EXCEPT !["email"] = m]
    BY <2>1, <2>2, AdmitEffect
  <2>4. CASE UNCHANGED <<emitting, order>>
    BY <1>0, <2>2, <2>4
  <2>5. CASE Seen' \subseteq Seen \cup {m} /\ emitting' = [emitting EXCEPT !["email"] = m]
    <3>1. emitting'["email"] = m /\ emitting'["chat"] = emitting["chat"]
      BY <1>k, <2>5
    <3>. QED  BY <1>k, <2>2, <2>3, <2>5, <3>1, Apart DEF Kinds, Known
  <2>. QED  BY <2>3, <2>4, <2>5
<1>4. ASSUME NEW c \in Chat, EmitChat(c) PROVE Kinds' /\ Known'
  <2>1. c \in Event /\ "chat" \in Source /\ UNCHANGED offered /\ Admit("chat", c)
    BY <1>4 DEF EmitChat, Event, Source
  <2>2. \/ UNCHANGED <<emitting, order>>
        \/ /\ Seen' \subseteq Seen \cup {c}
           /\ \E x \in {c, None} : emitting' = [emitting EXCEPT !["chat"] = x]
    BY <2>1, AdmitEffect
  <2>3. CASE UNCHANGED <<emitting, order>>
    BY <1>0, <2>1, <2>3
  <2>4. CASE /\ Seen' \subseteq Seen \cup {c}
             /\ \E x \in {c, None} : emitting' = [emitting EXCEPT !["chat"] = x]
    <3>1. emitting'["email"] = emitting["email"] /\ emitting'["chat"] \in Chat \cup {None}
      BY <1>k, <2>4
    <3>2. \A m \in Mail : m \in Seen' => m \in Seen
      BY <2>4, Apart
    <3>. QED  BY <1>k, <2>1, <3>1, <3>2 DEF Kinds, Known
  <2>. QED  BY <2>2, <2>3, <2>4
<1>5. ASSUME NEW s \in Source, Enqueue(s) PROVE Kinds' /\ Known'
  <2>1. /\ offered' = offered \cup {emitting[s]} /\ emitting' = [emitting EXCEPT ![s] = None]
        /\ UNCHANGED order
    BY <1>5 DEF Enqueue
  <2>2. Seen' = Seen
    BY <2>1 DEF Seen
  <2>3. /\ emitting'["email"] \in {emitting["email"], None}
        /\ emitting'["chat"] \in {emitting["chat"], None}
        /\ emitting'["email"] # emitting["email"] => emitting["email"] \in offered'
    BY <1>k, <2>1
  <2>. QED  BY <1>k, <2>1, <2>2, <2>3, Apart DEF Kinds, Known
<1>6. ASSUME NEW s \in Source, Healthy(s) \/ SourceStops(s) PROVE Kinds' /\ Known'
  BY <1>0, <1>6 DEF Healthy, SourceStops, engine, past
<1>7. CASE SourceEnds \/ SourceRestarts \/ Cancel \/ Boot
  BY <1>0, <1>7 DEF SourceEnds, SourceRestarts, Cancel, Boot, engine, past
<1>8. CASE Crash \/ Exit
  <2>1. emitting' = [s \in Source |-> None] /\ order' = <<>>
    BY <1>8 DEF Crash, Exit, LoseMemory
  <2>2. Seen' = {}
    BY <2>1 DEF Seen, ToSet
  <2>. QED  BY <1>k, <2>1, <2>2 DEF Kinds, Known
<1>9. CASE UNCHANGED vars
  BY <1>0, <1>9 DEF vars, engine, past
<1>. QED
  BY <1>1, <1>2, <1>3, <1>4, <1>5, <1>6, <1>7, <1>8, <1>9 DEF Next

\* Mail marked read is accounted for after every step.
LEMMA ReadStep ==
  ASSUME TypeOK, Batch, Kinds, Known, ReadIsOffered, [Next]_vars
  PROVE  ReadIsOffered'
<1>. SUFFICES ASSUME NEW m \in Mail, mailbox'[m] = "read"
              PROVE  \/ m \in offered' \/ m \in fetched' \/ emitting'["email"] = m
                     \/ m \in cut'
  BY DEF ReadIsOffered, InHand
<1>h. mailbox[m] = "read" => \/ m \in offered \/ m \in fetched \/ emitting["email"] = m
                             \/ m \in cut
  BY DEF ReadIsOffered, InHand
<1>. DEFINE Stays == /\ mailbox'[m] = "read" => mailbox[m] = "read"
                     /\ m \in offered => m \in offered'
                     /\ m \in fetched => m \in fetched'
                     /\ emitting["email"] = m => emitting'["email"] = m
                     /\ m \in cut => m \in cut'
            Goal == \/ m \in offered' \/ m \in fetched' \/ emitting'["email"] = m
                    \/ m \in cut'
<1>0. Stays => Goal
  BY <1>h
<1>1. ASSUME NEW n \in Mail, Arrive(n) PROVE Goal
  <2>1. mailbox'[m] = "read" => mailbox[m] = "read"
    BY <1>1 DEF Arrive, TypeOK
  <2>. QED  BY <1>0, <1>1, <2>1 DEF Arrive, poller, engine, past
<1>2. CASE Poll
  <2>1. fetched = {}
    BY <1>2 DEF Poll, Batch
  <2>. QED  BY <1>h, <1>2, <2>1 DEF Poll, engine, past
<1>3. CASE Store
  <2>1. mailbox'[m] = mailbox[m] \/ m \in fetched
    BY <1>3 DEF Store, Marked
  <2>. QED  BY <1>h, <1>3, <2>1 DEF Store, engine, past
<1>4. CASE EmitMail
  <2>1. PICK n \in fetched : Admit("email", n) /\ fetched' = fetched \ {n}
    BY <1>4 DEF EmitMail
  <2>2. /\ n \in Mail /\ n \in Event /\ "email" \in Source /\ Allowed(n)
        /\ UNCHANGED <<mailbox, offered, cut>>
    BY <1>4 DEF EmitMail, TypeOK, Event, Source, Allowed
  <2>3. /\ emitting["email"] = None
        /\ \/ n \in Seen /\ UNCHANGED emitting
           \/ emitting' = [emitting EXCEPT !["email"] = n]
    BY <2>1, <2>2, AdmitEffect
  <2>4. m # None
    BY Apart
  <2>5. n \in Seen => n \in offered
    BY <2>2, <2>3, Apart DEF Known
  <2>6. emitting' = [emitting EXCEPT !["email"] = n] => emitting'["email"] = n
    BY DEF TypeOK, Source
  <2>. QED  BY <1>h, <2>1, <2>2, <2>3, <2>4, <2>5, <2>6
<1>5. CASE PollEnd
  BY <1>h, <1>5 DEF PollEnd, engine, past
<1>6. ASSUME NEW c \in Chat, EmitChat(c) PROVE Goal
  <2>1. /\ c \in Event /\ "chat" \in Source /\ Admit("chat", c)
        /\ UNCHANGED <<mailbox, fetched, offered, cut>>
    BY <1>6 DEF EmitChat, Event, Source, poller
  <2>2. \/ emitting' = emitting
        \/ \E x \in {c, None} : emitting' = [emitting EXCEPT !["chat"] = x]
    BY <2>1, AdmitEffect
  <2>3. emitting'["email"] = emitting["email"]
    BY <2>2 DEF TypeOK, Source
  <2>. QED  BY <1>h, <2>1, <2>3
<1>7. ASSUME NEW s \in Source, Enqueue(s) PROVE Goal
  <2>1. /\ offered' = offered \cup {emitting[s]} /\ emitting' = [emitting EXCEPT ![s] = None]
        /\ UNCHANGED <<mailbox, fetched, cut>>
    BY <1>7 DEF Enqueue, poller
  <2>2. emitting["email"] = m => emitting'["email"] = m \/ m \in offered'
    BY <2>1 DEF TypeOK, Source
  <2>. QED  BY <1>h, <2>1, <2>2
<1>8. ASSUME NEW s \in Source, Healthy(s) \/ SourceStops(s) PROVE Goal
  BY <1>0, <1>8 DEF Healthy, SourceStops, poller, engine, past
<1>9. CASE SourceEnds \/ SourceRestarts \/ Cancel \/ Boot
  BY <1>0, <1>9 DEF SourceEnds, SourceRestarts, Cancel, Boot, poller, engine, past
<1>10. CASE Crash
  <2>1. cut' = cut \cup InHand /\ UNCHANGED <<mailbox, offered>>
    BY <1>10 DEF Crash, LoseMemory
  <2>. QED  BY <1>h, <2>1 DEF InHand
<1>11. CASE Exit
  <2>1. sup["email"] = "ended" /\ UNCHANGED <<mailbox, offered, cut>>
    BY <1>11 DEF Exit, Wait, LoseMemory, Source
  <2>2. fetched = {} /\ emitting["email"] = None
    BY <2>1 DEF Batch
  <2>3. m # None
    BY Apart
  <2>. QED  BY <1>h, <2>1, <2>2, <2>3
<1>12. CASE UNCHANGED vars
  BY <1>0, <1>12 DEF vars, poller, engine, past
<1>. QED
  BY <1>1, <1>2, <1>3, <1>4, <1>5, <1>6, <1>7, <1>8, <1>9, <1>10, <1>11, <1>12 DEF Next

\* Mailbox.poll marks mail read before it hands it on, and Engine.Wait makes up
\* for it: unless the process crashes, read mail has been offered to the queue
\* or is on its way there.
THEOREM ReadMailIsOffered == Spec => []ReadIsOffered
<1>. DEFINE IInv == TypeOK /\ Batch /\ Kinds /\ Known /\ ReadIsOffered
<1>1. Init => IInv
  <2>. SUFFICES ASSUME Init PROVE IInv
    OBVIOUS
  <2>1. /\ order = <<>> /\ fetched = {} /\ poll = "idle"
        /\ emitting["email"] = None /\ emitting["chat"] = None /\ sup["email"] = "run"
    BY DEF Init, Source
  <2>2. Seen = {}
    BY <2>1 DEF Seen, ToSet
  <2>3. \A m \in Mail : mailbox[m] # "read"
    BY DEF Init
  <2>4. Batch /\ Kinds /\ Known
    BY <2>1, <2>2 DEF Batch, Kinds, Known
  <2>5. ReadIsOffered
    BY <2>3 DEF ReadIsOffered
  <2>. QED  BY <2>4, <2>5, TypeInit
<1>2. IInv /\ [Next]_vars => IInv'
  BY TypeStep, BatchStep, MailStep, ReadStep
<1>. QED  BY <1>1, <1>2, PTL DEF Spec
===============================================================================
