--------------------------- MODULE DiscordBotProofs ---------------------------
(***************************************************************************)
(* Proofs about DiscordBot: how old the answer may be on which a message   *)
(* is taken for the bot's, that a thread it posted in is heard, and that   *)
(* nothing of a text gets lost when it is posted in chunks.                *)
(***************************************************************************)
EXTENDS DiscordBot, SequenceTheorems, WellFoundedInduction, TLAPS

-----------------------------------------------------------------------------
(* What an answer is worth *)

\* An answer was true of the channel at its time or later, or a lookup failed.
IsTrue(c, info) ==
  /\ info.at <= now
  /\ info.thread => c \in Thread
  /\ info.thread /\ info.botIn => info.at <= LastIn(c)
  /\ c \in Thread => \/ info.thread /\ info.botIn
                     \/ info.at <= LastOut(c)
                     \/ info.at <= failed[c]
  /\ c \in Thread /\ ~info.thread => info.at <= failed[c]

\* What is noted of a channel is not in the future, and what is cached is true.
Noted ==
  \A c \in Channel :
    /\ changed[c] <= now /\ failed[c] <= now
    /\ chans[c] # None => IsTrue(c, chans[c])

\* An answer a message is decided on: true, and not older than the time to live
\* was when the message came.
Decides(h) ==
  LET t == handling[h] IN
  /\ t.info # None /\ IsTrue(t.message.channel, t.info) /\ t.info.at > t.came - TTL

\* What a goroutine has in hand, by what it is at.
Handled(h) ==
  handling[h] # None =>
    LET t == handling[h]
        c == t.message.channel IN
    /\ t.came <= now
    /\ t.step = "member" => t.info # None /\ t.info.thread /\ c \in Thread
    /\ t.step \in {"member", "keep"} => t.info # None /\ t.came <= t.info.at /\ t.info.at <= now
    /\ t.step = "keep" => IsTrue(c, t.info)
    /\ t.asks = "thread" /\ t.step # "admitted" => ~Addressed(t.message)
    /\ t.asks = "scope" => t.step # "admitted" /\ Home # None /\ c \notin Private \cup {Home}
    /\ t.step = "drop" =>
         /\ Decides(h)
         /\ t.asks = "thread" => ~(t.info.thread /\ t.info.botIn)
         /\ t.asks = "scope" => ~(t.info.thread /\ c \in Under)
    /\ t.step = "admitted" =>
         \/ Addressed(t.message) \/ t.message.says = "role"
         \/ Decides(h) /\ t.info.thread /\ t.info.botIn

AllHandled == \A h \in Handler : Handled(h)

\* An answer about a thread that Send has joined says so, or has an excuse.
Knows(c, info) == \/ info.thread /\ info.botIn
                  \/ info.crossed
                  \/ info.at <= failed[c]

\* What a goroutine has in hand does not deny that the bot is in a thread it has
\* posted in.
Heard(h) ==
  handling[h] # None =>
    LET t == handling[h]
        c == t.message.channel IN
    /\ t.known => c \in joined
    /\ t.step = "keep" /\ c \in joined => Knows(c, t.info)
    /\ t.step = "drop" /\ t.asks = "thread" /\ t.known => Knows(c, t.info)

\* The bot is in the threads it has posted in, and no answer denies it.
Posted ==
  /\ joined \subseteq member
  /\ \A c \in joined : chans[c] # None => Knows(c, chans[c])
  /\ \A h \in Handler : Heard(h)

-----------------------------------------------------------------------------
(* What the steps do *)

\* Times are numbers, and a time to live is one.
LEMMA Times ==
  ASSUME TypeOK
  PROVE  /\ now \in Int /\ TTL \in Nat \ {0} /\ LongAgo \in Int
         /\ \A c \in Channel : changed[c] \in Int /\ failed[c] \in Int
         /\ \A i \in Info : i.at \in Int /\ i.at \in 0..MaxTime
         /\ \A t \in Handling : t.came \in Int
<1>1. TTL \in Nat \ {0} /\ LongAgo \in Int /\ MaxTime \in Nat
  BY DiscordConstants DEF LongAgo
<1>2. now \in Int
  BY <1>1 DEF TypeOK
<1>3. \A c \in Channel : changed[c] \in Int /\ failed[c] \in Int
  BY <1>1 DEF TypeOK
<1>4. \A i \in Info : i.at \in Int /\ i.at \in 0..MaxTime
  BY <1>1 DEF Info
<1>5. \A t \in Handling : t.came \in Int
  BY <1>1 DEF Handling
<1>. QED  BY <1>1, <1>2, <1>3, <1>4, <1>5

\* What a goroutine has in hand is of its kind, and about a channel there is.
LEMMA InHand ==
  ASSUME TypeOK, NEW h \in Handler, handling[h] # None
  PROVE  /\ handling[h] \in Handling /\ ChannelOf(h) \in Channel
         /\ handling[h].info # None => handling[h].info \in Info
<1>1. handling[h] \in Handling
  BY DEF TypeOK
<1>2. handling[h].message \in Messages /\ handling[h].info \in Info \cup {None}
  BY <1>1, DiscordConstants DEF Handling
<1>. QED  BY <1>1, <1>2 DEF ChannelOf, Messages

\* The rules that need no lookup of the thread admit a message, or hand it on
\* to that lookup if it does not address the bot.
LEMMA RulesEffect ==
  ASSUME TypeOK, NEW h \in Handler, NEW t, Rules(h, t)
  PROVE  /\ \E step \in {"look", "admitted"} :
              /\ handling' = [handling EXCEPT ![h] =
                   [t EXCEPT !.step = step, !.asks = "thread", !.info = None]]
              /\ step = "look" => ~Addressed(t.message)
              /\ step = "admitted" => Addressed(t.message) \/ t.message.says = "role"
         /\ rolesHad' \in BOOLEAN /\ faults' \in 0..MaxFaults
<1>1. rolesHad \in BOOLEAN /\ faults \in 0..MaxFaults /\ MaxFaults \in Nat
  BY DiscordConstants DEF TypeOK
<1>2. NoFault => faults' \in 0..MaxFaults
  BY <1>1 DEF NoFault
<1>3. Fault => faults' \in 0..MaxFaults
  BY <1>1 DEF Fault
<1>4. \A known \in BOOLEAN : OwnRole(known) => rolesHad' \in BOOLEAN /\ faults' \in 0..MaxFaults
  BY <1>1, <1>2, <1>3 DEF OwnRole
<1>5. CASE Addressed(t.message)
  BY <1>1, <1>2, <1>5 DEF Rules
<1>6. CASE ~Addressed(t.message) /\ t.message.says = "role"
  BY <1>4, <1>6 DEF Rules
<1>7. CASE ~Addressed(t.message) /\ t.message.says # "role"
  BY <1>1, <1>2, <1>7 DEF Rules
<1>. QED  BY <1>5, <1>6, <1>7

\* What is left of a goroutine's state when it has its answer.
Same(t, u) == u \in Handling /\ u.message = t.message /\ u.came = t.came /\ u.known = t.known

\* What a goroutine does with an answer.
LEMMA AnsweredEffect ==
  ASSUME TypeOK, NEW h \in Handler, handling[h] # None, NEW info \in Info, Answered(h, info)
  PROVE  /\ \E u \in Handling :
              /\ handling' = [handling EXCEPT ![h] = u]
              /\ Same(handling[h], u)
              /\ \/ /\ u.info = None /\ u.asks = "thread"
                    /\ \/ u.step = "look" /\ ~Addressed(u.message)
                       \/ u.step = "admitted" /\ (Addressed(u.message) \/ u.message.says = "role")
                 \/ /\ u.info = info /\ u.asks = handling[h].asks
                    /\ u.asks = "scope" => ~(info.thread /\ ChannelOf(h) \in Under)
                    /\ \/ u.step = "admitted" /\ u.asks = "thread" /\ info.thread /\ info.botIn
                       \/ u.step = "drop" /\ (u.asks = "thread" => ~(info.thread /\ info.botIn))
         /\ rolesHad' \in BOOLEAN /\ faults' \in 0..MaxFaults
<1>. DEFINE t == handling[h]
<1>1. t \in Handling
  BY InHand
<1>2. CASE t.asks = "scope" /\ info.thread /\ ChannelOf(h) \in Under
  <2>1. Rules(h, t)
    BY <1>2 DEF Answered
  <2>2. /\ rolesHad' \in BOOLEAN /\ faults' \in 0..MaxFaults
        /\ \E step \in {"look", "admitted"} :
              /\ handling' = [handling EXCEPT ![h] =
                   [t EXCEPT !.step = step, !.asks = "thread", !.info = None]]
              /\ step = "look" => ~Addressed(t.message)
              /\ step = "admitted" => Addressed(t.message) \/ t.message.says = "role"
    BY <1>1, <2>1, RulesEffect
  <2>3. PICK step \in {"look", "admitted"} :
              /\ handling' = [handling EXCEPT ![h] =
                   [t EXCEPT !.step = step, !.asks = "thread", !.info = None]]
              /\ step = "look" => ~Addressed(t.message)
              /\ step = "admitted" => Addressed(t.message) \/ t.message.says = "role"
    BY <2>2
  <2>. DEFINE u == [t EXCEPT !.step = step, !.asks = "thread", !.info = None]
  <2>4. /\ u \in Handling /\ u.message = t.message /\ u.came = t.came /\ u.known = t.known
        /\ u.step = step /\ u.asks = "thread" /\ u.info = None
    BY <1>1 DEF Handling
  <2>. QED  BY <2>2, <2>3, <2>4 DEF Same
<1>3. CASE ~(t.asks = "scope" /\ info.thread /\ ChannelOf(h) \in Under)
  <2>. DEFINE admits == t.asks = "thread" /\ info.thread /\ info.botIn
              u == [t EXCEPT !.step = IF admits THEN "admitted" ELSE "drop", !.info = info]
  <2>1. handling' = [handling EXCEPT ![h] = u] /\ UNCHANGED rolesHad /\ NoFault
    BY <1>3 DEF Answered
  <2>2. /\ u \in Handling /\ u.message = t.message /\ u.came = t.came /\ u.known = t.known
        /\ u.step = (IF admits THEN "admitted" ELSE "drop") /\ u.asks = t.asks /\ u.info = info
    BY <1>1 DEF Handling
  <2>3. rolesHad' \in BOOLEAN /\ faults' \in 0..MaxFaults
    BY <2>1 DEF TypeOK, NoFault
  <2>. HIDE DEF u
  <2>4. CASE admits
    BY <1>3, <2>1, <2>2, <2>3, <2>4 DEF Same
  <2>5. CASE ~admits
    BY <1>3, <2>1, <2>2, <2>3, <2>5 DEF Same
  <2>. QED  BY <2>4, <2>5
<1>. QED  BY <1>2, <1>3

\* A cached answer is taken.
LEMMA LookEffect ==
  ASSUME TypeOK, NEW h \in Handler, Look(h)
  PROVE  /\ At(h, "look") /\ Fresh(ChannelOf(h)) /\ chans[ChannelOf(h)] \in Info
         /\ Answered(h, chans[ChannelOf(h)])
         /\ UNCHANGED <<chans, sending, member, now, moves, changed, failed, joined>>
<1>1. ChannelOf(h) \in Channel
  BY InHand DEF Look, At
<1>. QED  BY <1>1 DEF Look, Fresh, TypeOK, discord, past

\* Discord says what the channel is, or does not.
LEMMA ShapeEffect ==
  ASSUME TypeOK, NEW h \in Handler, Shape(h)
  PROVE  /\ At(h, "look")
         /\ \E known \in BOOLEAN, u \in Handling :
              /\ handling' = [handling EXCEPT ![h] = u] /\ Same(handling[h], u)
              /\ u.asks = handling[h].asks
              /\ u.info # None /\ u.info.at = now /\ ~u.info.botIn
              /\ u.info.thread <=> known /\ ChannelOf(h) \in Thread
              /\ u.step = IF u.info.thread THEN "member" ELSE "keep"
              /\ failed' = IF known THEN failed ELSE [failed EXCEPT ![ChannelOf(h)] = now]
         /\ UNCHANGED <<chans, rolesHad, sending, member, now, moves, changed, joined>>
         /\ faults' \in 0..MaxFaults
<1>. DEFINE t == handling[h]
<1>1. At(h, "look") /\ t \in Handling
  BY InHand DEF Shape, At
<1>2. PICK known \in BOOLEAN :
        LET thread == known /\ ChannelOf(h) \in Thread IN
        /\ handling' = [handling EXCEPT
             ![h].step = IF thread THEN "member" ELSE "keep",
             ![h].info = [thread |-> thread, botIn |-> FALSE, at |-> now, crossed |-> FALSE]]
        /\ IF known THEN NoFault ELSE Fault
        /\ failed' = IF known THEN failed ELSE [failed EXCEPT ![ChannelOf(h)] = now]
  BY DEF Shape
<1>. DEFINE thread == known /\ ChannelOf(h) \in Thread
            info == [thread |-> thread, botIn |-> FALSE, at |-> now, crossed |-> FALSE]
            u == [t EXCEPT !.step = IF thread THEN "member" ELSE "keep", !.info = info]
<1>3. info \in Info /\ info # None
  <2>1. thread \in BOOLEAN /\ now \in 0..MaxTime
    BY DEF TypeOK
  <2>. HIDE DEF thread
  <2>2. info \in Info
    BY <2>1 DEF Info
  <2>. QED  BY <2>2, DiscordConstants
<1>4. /\ u \in Handling /\ u.message = t.message /\ u.came = t.came /\ u.known = t.known
      /\ u.step = (IF thread THEN "member" ELSE "keep") /\ u.asks = t.asks /\ u.info = info
  BY <1>1, <1>3 DEF Handling
<1>5. handling' = [handling EXCEPT ![h] = u]
  BY <1>2
<1>6. faults' \in 0..MaxFaults
  BY <1>2, DiscordConstants DEF TypeOK, NoFault, Fault
<1>7. /\ info.at = now /\ ~info.botIn /\ (info.thread <=> thread)
  OBVIOUS
<1>8. UNCHANGED <<chans, rolesHad, sending, member, now, moves, changed, joined>>
  BY DEF Shape, bot, discord
<1>9. failed' = IF known THEN failed ELSE [failed EXCEPT ![ChannelOf(h)] = now]
  BY <1>2
<1>. HIDE DEF u, info
<1>. QED  BY <1>1, <1>3, <1>4, <1>5, <1>6, <1>7, <1>8, <1>9 DEF Same

\* Discord says whether the bot is a member of the thread, or does not.
LEMMA ThreadMemberEffect ==
  ASSUME TypeOK, NEW h \in Handler, ThreadMember(h), handling[h].info # None
  PROVE  /\ At(h, "member")
         /\ \E known \in BOOLEAN, u \in Handling :
              /\ handling' = [handling EXCEPT ![h] = u] /\ Same(handling[h], u)
              /\ u.asks = handling[h].asks /\ u.step = "keep" /\ u.info # None
              /\ u.info.at = handling[h].info.at /\ u.info.thread = handling[h].info.thread
              /\ u.info.botIn <=> known /\ ChannelOf(h) \in member
              /\ failed' = IF known THEN failed ELSE [failed EXCEPT ![ChannelOf(h)] = now]
         /\ UNCHANGED <<chans, rolesHad, sending, member, now, moves, changed, joined>>
         /\ faults' \in 0..MaxFaults
<1>. DEFINE t == handling[h]
<1>1. At(h, "member") /\ t \in Handling /\ t.info \in Info
  BY InHand DEF ThreadMember, At
<1>2. PICK known \in BOOLEAN :
        /\ handling' = [handling EXCEPT ![h].step = "keep",
                                        ![h].info.botIn = known /\ ChannelOf(h) \in member]
        /\ IF known THEN NoFault ELSE Fault
        /\ failed' = IF known THEN failed ELSE [failed EXCEPT ![ChannelOf(h)] = now]
  BY DEF ThreadMember
<1>. DEFINE in == known /\ ChannelOf(h) \in member
            info == [t.info EXCEPT !.botIn = in]
            u == [t EXCEPT !.step = "keep", !.info = info]
<1>3. /\ info \in Info /\ info # None /\ info.at = t.info.at /\ info.thread = t.info.thread
      /\ info.botIn <=> in
  BY <1>1, DiscordConstants DEF Info
<1>4. /\ u \in Handling /\ u.message = t.message /\ u.came = t.came /\ u.known = t.known
      /\ u.step = "keep" /\ u.asks = t.asks /\ u.info = info
  BY <1>1, <1>3 DEF Handling
<1>5. handling' = [handling EXCEPT ![h] = u]
  BY <1>1, <1>2 DEF Handling, TypeOK
<1>6. faults' \in 0..MaxFaults
  BY <1>2, DiscordConstants DEF TypeOK, NoFault, Fault
<1>8. UNCHANGED <<chans, rolesHad, sending, member, now, moves, changed, joined>>
  BY DEF ThreadMember, bot, discord
<1>9. failed' = IF known THEN failed ELSE [failed EXCEPT ![ChannelOf(h)] = now]
  BY <1>2
<1>. HIDE DEF u, info
<1>. QED  BY <1>1, <1>3, <1>4, <1>5, <1>6, <1>8, <1>9 DEF Same

\* The answer is cached and taken.
LEMMA KeepEffect ==
  ASSUME TypeOK, NEW h \in Handler, Keep(h), handling[h].info # None
  PROVE  /\ At(h, "keep") /\ handling[h].info \in Info /\ Answered(h, handling[h].info)
         /\ chans' = [chans EXCEPT ![ChannelOf(h)] = handling[h].info]
         /\ UNCHANGED <<sending, member, now, moves, changed, failed, joined>>
BY InHand DEF Keep, Kept, At, discord, past

\* A goroutine begins with the rules, or with the scope of a channel that is
\* neither private nor configured.
LEMMA ArriveEffect ==
  ASSUME TypeOK, NEW h \in Handler, NEW m \in Message, Arrive(h, m)
  PROVE  /\ \E u \in Handling :
              /\ handling' = [handling EXCEPT ![h] = u]
              /\ u.message = m /\ u.came = now /\ u.info = None
              /\ u.known <=> m.channel \in joined
              /\ \/ u.step = "look" /\ u.asks = "thread" /\ ~Addressed(m)
                 \/ u.step = "look" /\ u.asks = "scope" /\ Home # None
                                    /\ m.channel \notin Private \cup {Home}
                 \/ u.step = "admitted" /\ u.asks = "thread"
                                        /\ (Addressed(m) \/ m.says = "role")
         /\ UNCHANGED <<chans, sending, member, now, moves, changed, failed, joined>>
         /\ rolesHad' \in BOOLEAN /\ faults' \in 0..MaxFaults
<1>0. UNCHANGED <<chans, sending, member, now, moves, changed, failed, joined>>
  BY DEF Arrive, discord, past
<1>1. now \in 0..MaxTime /\ m \in Message
  BY DEF TypeOK
<1>2. (m.channel \in joined) \in BOOLEAN
  OBVIOUS
<1>3. CASE Scope(m) = "rules"
  <2>. DEFINE t == Began(m, "thread")
              u(step) == [t EXCEPT !.step = step, !.asks = "thread", !.info = None]
  <2>1. Rules(h, t)
    BY <1>3 DEF Arrive
  <2>2. /\ t \in Handling /\ t.message = m /\ t.came = now
        /\ t.known <=> m.channel \in joined
    BY <1>1, <1>2 DEF Began, Handling
  <2>. HIDE DEF t
  <2>3. \A step \in {"look", "admitted"} :
          /\ u(step) \in Handling
          /\ u(step).message = m /\ u(step).came = now /\ u(step).info = None
          /\ u(step).known <=> m.channel \in joined
          /\ u(step).step = step /\ u(step).asks = "thread"
    BY <2>2 DEF Handling
  <2>4. /\ rolesHad' \in BOOLEAN /\ faults' \in 0..MaxFaults
        /\ \E step \in {"look", "admitted"} :
              /\ handling' = [handling EXCEPT ![h] = u(step)]
              /\ step = "look" => ~Addressed(m)
              /\ step = "admitted" => Addressed(m) \/ m.says = "role"
    <3>1. /\ rolesHad' \in BOOLEAN /\ faults' \in 0..MaxFaults
          /\ \E step \in {"look", "admitted"} :
                /\ handling' = [handling EXCEPT ![h] =
                     [t EXCEPT !.step = step, !.asks = "thread", !.info = None]]
                /\ step = "look" => ~Addressed(t.message)
                /\ step = "admitted" => Addressed(t.message) \/ t.message.says = "role"
      BY <2>1, RulesEffect
    <3>. QED  BY <2>2, <3>1
  <2>. HIDE DEF u
  <2>. QED  BY <1>0, <2>3, <2>4
<1>4. CASE Scope(m) = "look"
  <2>. DEFINE u == Began(m, "scope")
  <2>1. handling' = [handling EXCEPT ![h] = u] /\ UNCHANGED rolesHad /\ NoFault
    BY <1>4 DEF Arrive
  <2>2. /\ u \in Handling /\ u.message = m /\ u.came = now /\ u.info = None
        /\ u.known <=> m.channel \in joined
        /\ u.step = "look" /\ u.asks = "scope"
    BY <1>1, <1>2 DEF Began, Handling
  <2>3. Home # None /\ m.channel \notin Private \cup {Home}
    BY <1>4 DEF Scope
  <2>4. rolesHad' \in BOOLEAN /\ faults' \in 0..MaxFaults
    BY <2>1 DEF TypeOK, NoFault
  <2>. HIDE DEF u
  <2>. QED  BY <1>0, <2>1, <2>2, <2>3, <2>4
<1>. QED  BY <1>3, <1>4 DEF Scope

\* Posting makes the bot a member of a thread, and changes nothing else.
LEMMA JoinsEffect ==
  ASSUME TypeOK, NEW c, NEW in \in BOOLEAN, Joins(c, in)
  PROVE  /\ member' \subseteq Thread /\ changed' \in [Channel -> LongAgo..MaxTime]
         /\ in => member \subseteq member'
         /\ \A d \in Channel : \/ (d \in member' <=> d \in member) /\ changed'[d] \in {changed[d], now}
                               \/ changed'[d] = now
         /\ \A d \in Channel : d \in member' /\ d \notin member => changed'[d] = now
         /\ \A d \in Channel : d \in member /\ d \notin member' => changed'[d] = now
         /\ \A d \in Channel : d # c => (d \in member' <=> d \in member)
<1>1. member \subseteq Thread /\ changed \in [Channel -> LongAgo..MaxTime] /\ Thread \subseteq Channel
  BY DiscordConstants DEF TypeOK
<1>2. now \in LongAgo..MaxTime
  <2>1. now \in 0..MaxTime /\ LongAgo \in Int /\ LongAgo <= 0
    BY DiscordConstants DEF TypeOK, LongAgo
  <2>. QED  BY <2>1, DiscordConstants
<1>3. member' \subseteq Thread /\ (in => member \subseteq member')
      /\ \A d \in Channel : d # c => (d \in member' <=> d \in member)
  BY <1>1 DEF Joins
<1>4. changed' = changed \/ changed' = [changed EXCEPT ![c] = now]
  BY DEF Joins
<1>5. changed' \in [Channel -> LongAgo..MaxTime]
  BY <1>1, <1>2, <1>4
<1>6. \A d \in Channel : changed'[d] \in {changed[d], now}
  BY <1>1, <1>4
<1>7. ASSUME NEW d \in Channel, ~(d \in member' <=> d \in member)
      PROVE  changed'[d] = now
  <2>1. d = c /\ member' # member
    BY <1>3, <1>7
  <2>2. changed' = [changed EXCEPT ![c] = now]
    BY <2>1 DEF Joins
  <2>. QED  BY <1>1, <2>1, <2>2
<1>. QED  BY <1>3, <1>5, <1>6, <1>7

\* A goroutine stays where it is; only its history may change.
Alike(t, u) ==
  /\ u \in Handling /\ u.message = t.message /\ u.came = t.came
  /\ u.step = t.step /\ u.asks = t.asks
  /\ t.info = None => u.info = None
  /\ t.info # None => /\ u.info # None /\ u.info.at = t.info.at
                      /\ u.info.thread = t.info.thread /\ u.info.botIn = t.info.botIn
                      /\ t.info.crossed => u.info.crossed

\* What is at hand is like itself.
LEMMA AlikeItself == ASSUME NEW t \in Handling PROVE Alike(t, t)
BY DEF Alike

\* Send drops the entry, and a lookup that has its answer is not told.
LEMMA ForgetEffect ==
  ASSUME TypeOK, AllHandled, Forget
  PROVE  /\ chans' = [chans EXCEPT ![sending.to] = None] /\ sending' = None
         /\ joined' = joined \cup ({sending.to} \cap member)
         /\ handling' \in [Handler -> Handling \cup {None}]
         /\ \A h \in Handler : (handling'[h] = None) <=> (handling[h] = None)
         /\ \A h \in Handler : handling[h] # None =>
              /\ Alike(handling[h], handling'[h]) /\ handling'[h].known = handling[h].known
              /\ handling[h].step = "keep" /\ ChannelOf(h) = sending.to => handling'[h].info.crossed
         /\ UNCHANGED <<rolesHad, member, now, moves, faults, changed, failed>>
<1>1. ASSUME NEW h \in Handler
      PROVE  \/ handling[h] = None /\ handling'[h] = None
             \/ /\ handling[h] # None /\ handling'[h] # None /\ handling'[h] \in Handling
                /\ Alike(handling[h], handling'[h]) /\ handling'[h].known = handling[h].known
                /\ handling[h].step = "keep" /\ ChannelOf(h) = sending.to => handling'[h].info.crossed
  <2>1. handling'[h] = IF At(h, "keep") /\ ChannelOf(h) = sending.to
                       THEN [handling[h] EXCEPT !.info.crossed = TRUE] ELSE handling[h]
    BY DEF Forget
  <2>2. CASE At(h, "keep") /\ ChannelOf(h) = sending.to
    <3>. DEFINE t == handling[h]
                u == [t EXCEPT !.info = [t.info EXCEPT !.crossed = TRUE]]
    <3>1. t \in Handling /\ t.info \in Info /\ t.info # None /\ t # None
      BY <2>2, InHand DEF At, AllHandled, Handled
    <3>2. handling'[h] = u
      BY <2>1, <2>2, <3>1 DEF Handling
    <3>3. /\ [t.info EXCEPT !.crossed = TRUE] \in Info
          /\ [t.info EXCEPT !.crossed = TRUE].at = t.info.at
          /\ [t.info EXCEPT !.crossed = TRUE].thread = t.info.thread
          /\ [t.info EXCEPT !.crossed = TRUE].botIn = t.info.botIn
          /\ [t.info EXCEPT !.crossed = TRUE].crossed
      BY <3>1 DEF Info
    <3>4. /\ u \in Handling /\ u.message = t.message /\ u.came = t.came /\ u.known = t.known
          /\ u.step = t.step /\ u.asks = t.asks /\ u.info = [t.info EXCEPT !.crossed = TRUE]
      BY <3>1, <3>3 DEF Handling
    <3>5. u # None /\ u.info # None
      BY <3>3, <3>4, DiscordConstants
    <3>. HIDE DEF u
    <3>. QED  BY <3>1, <3>2, <3>3, <3>4, <3>5 DEF Alike
  <2>3. CASE ~(At(h, "keep") /\ ChannelOf(h) = sending.to)
    BY <2>1, <2>3, InHand DEF At, Alike
  <2>. QED  BY <2>2, <2>3
<1>2. DOMAIN handling' = Handler /\ handling' = [h \in Handler |-> handling'[h]]
  BY DEF Forget
<1>3. handling' \in [Handler -> Handling \cup {None}]
  BY <1>1, <1>2
<1>4. /\ chans' = [chans EXCEPT ![sending.to] = None] /\ sending' = None
      /\ joined' = joined \cup ({sending.to} \cap member)
      /\ UNCHANGED <<rolesHad, member, now, moves, faults, changed, failed>>
  BY DEF Forget, Forgotten, discord, NoFault
<1>. QED  BY <1>1, <1>3, <1>4

\* Somebody adds the bot to a thread or removes it; nobody knows any more.
LEMMA MovedEffect ==
  ASSUME TypeOK, NEW c \in Thread, Moved(c)
  PROVE  /\ Joins(c, c \notin member) /\ joined' = joined \ {c} /\ moves' \in 0..MaxMoves
         /\ handling' \in [Handler -> Handling \cup {None}]
         /\ \A h \in Handler : (handling'[h] = None) <=> (handling[h] = None)
         /\ \A h \in Handler : handling[h] # None =>
              /\ Alike(handling[h], handling'[h]) /\ handling'[h].info = handling[h].info
              /\ handling'[h].known => handling[h].known /\ ChannelOf(h) # c
         /\ UNCHANGED <<chans, rolesHad, sending, now, faults, failed>>
<1>1. ASSUME NEW h \in Handler
      PROVE  \/ handling[h] = None /\ handling'[h] = None
             \/ /\ handling[h] # None /\ handling'[h] # None /\ handling'[h] \in Handling
                /\ Alike(handling[h], handling'[h]) /\ handling'[h].info = handling[h].info
                /\ handling'[h].known => handling[h].known /\ ChannelOf(h) # c
  <2>1. handling'[h] = IF handling[h] # None /\ ChannelOf(h) = c
                       THEN [handling[h] EXCEPT !.known = FALSE] ELSE handling[h]
    BY DEF Moved
  <2>2. CASE handling[h] # None /\ ChannelOf(h) = c
    <3>. DEFINE t == handling[h]
                u == [t EXCEPT !.known = FALSE]
    <3>1. t \in Handling
      BY <2>2, InHand
    <3>2. /\ u \in Handling /\ u.message = t.message /\ u.came = t.came /\ ~u.known
          /\ u.step = t.step /\ u.asks = t.asks /\ u.info = t.info
      BY <3>1 DEF Handling
    <3>3. u # None
      BY <3>2, DiscordConstants
    <3>4. handling'[h] = u
      BY <2>1, <2>2
    <3>. HIDE DEF u
    <3>. QED  BY <2>2, <3>2, <3>3, <3>4 DEF Alike
  <2>3. CASE ~(handling[h] # None /\ ChannelOf(h) = c)
    BY <2>1, <2>3, InHand DEF Alike
  <2>. QED  BY <2>2, <2>3
<1>2. DOMAIN handling' = Handler /\ handling' = [h \in Handler |-> handling'[h]]
  BY DEF Moved
<1>3. handling' \in [Handler -> Handling \cup {None}]
  BY <1>1, <1>2
<1>4. /\ Joins(c, c \notin member) /\ joined' = joined \ {c}
      /\ UNCHANGED <<chans, rolesHad, sending, now, faults, failed>>
  BY DEF Moved, bot, NoFault
<1>5. moves' \in 0..MaxMoves
  BY DiscordConstants DEF Moved, TypeOK
<1>. QED  BY <1>1, <1>3, <1>4, <1>5

-----------------------------------------------------------------------------
(* The shape of the state *)

\* A goroutine's state is replaced by one of the kind, or by none.
LEMMA HandlingType ==
  ASSUME TypeOK, NEW h \in Handler, NEW u \in Handling \cup {None},
         handling' = [handling EXCEPT ![h] = u]
  PROVE  handling' \in [Handler -> Handling \cup {None}]
BY DEF TypeOK

\* The shape is kept by every step.
LEMMA TypeStep == TypeOK /\ AllHandled /\ [Next]_vars => TypeOK'
<1>. SUFFICES ASSUME TypeOK, AllHandled, [Next]_vars PROVE TypeOK'
  OBVIOUS
<1>f. /\ NoFault => faults' \in 0..MaxFaults
      /\ Fault => faults' \in 0..MaxFaults
  BY DiscordConstants DEF TypeOK, NoFault, Fault
<1>n. now \in LongAgo..MaxTime
  <2>1. now \in 0..MaxTime /\ LongAgo \in Int /\ LongAgo <= 0
    BY DiscordConstants DEF TypeOK, LongAgo
  <2>. QED  BY <2>1, DiscordConstants
<1>1. ASSUME NEW h \in Handler, NEW m \in Message, Arrive(h, m) PROVE TypeOK'
  <2>1. handling' \in [Handler -> Handling \cup {None}]
    BY <1>1, ArriveEffect, HandlingType
  <2>. QED  BY <1>1, <2>1, ArriveEffect DEF TypeOK
<1>2. ASSUME NEW h \in Handler, Look(h) PROVE TypeOK'
  <2>1. handling[h] # None
    BY <1>2 DEF Look, At
  <2>2. /\ handling' \in [Handler -> Handling \cup {None}]
        /\ rolesHad' \in BOOLEAN /\ faults' \in 0..MaxFaults
    BY <1>2, <2>1, LookEffect, AnsweredEffect, HandlingType
  <2>. QED  BY <1>2, <2>2, LookEffect DEF TypeOK
<1>3. ASSUME NEW h \in Handler, Shape(h) PROVE TypeOK'
  <2>1. handling' \in [Handler -> Handling \cup {None}]
    BY <1>3, ShapeEffect, HandlingType
  <2>2. failed' \in [Channel -> LongAgo..MaxTime]
    <3>1. failed' = failed \/ failed' = [failed EXCEPT ![ChannelOf(h)] = now]
      BY <1>3, ShapeEffect
    <3>. QED  BY <1>n, <3>1 DEF TypeOK
  <2>. QED  BY <1>3, <2>1, <2>2, ShapeEffect DEF TypeOK
<1>4. ASSUME NEW h \in Handler, ThreadMember(h) PROVE TypeOK'
  <2>0. handling[h].info # None
    BY <1>4 DEF ThreadMember, At, AllHandled, Handled
  <2>1. handling' \in [Handler -> Handling \cup {None}]
    BY <1>4, <2>0, ThreadMemberEffect, HandlingType
  <2>2. failed' \in [Channel -> LongAgo..MaxTime]
    <3>1. failed' = failed \/ failed' = [failed EXCEPT ![ChannelOf(h)] = now]
      BY <1>4, <2>0, ThreadMemberEffect
    <3>. QED  BY <1>n, <3>1 DEF TypeOK
  <2>. QED  BY <1>4, <2>0, <2>1, <2>2, ThreadMemberEffect DEF TypeOK
<1>5. ASSUME NEW h \in Handler, Keep(h) PROVE TypeOK'
  <2>0. handling[h].info # None /\ handling[h] # None
    BY <1>5 DEF Keep, At, AllHandled, Handled
  <2>1. /\ handling' \in [Handler -> Handling \cup {None}]
        /\ rolesHad' \in BOOLEAN /\ faults' \in 0..MaxFaults
    BY <1>5, <2>0, KeepEffect, AnsweredEffect, HandlingType
  <2>2. chans' \in [Channel -> Info \cup {None}]
    <3>1. handling[h].info \in Info /\ chans' = [chans EXCEPT ![ChannelOf(h)] = handling[h].info]
      BY <1>5, <2>0, KeepEffect
    <3>. QED  BY <3>1 DEF TypeOK
  <2>. QED  BY <1>5, <2>0, <2>1, <2>2, KeepEffect DEF TypeOK
<1>6. ASSUME NEW h \in Handler, Drop(h) \/ Emit(h) PROVE TypeOK'
  <2>1. handling' \in [Handler -> Handling \cup {None}]
    BY <1>6, HandlingType DEF Drop, Emit, End
  <2>. QED  BY <1>6, <1>f, <2>1 DEF Drop, Emit, SameBot, bot, discord, past, TypeOK
<1>7. ASSUME NEW o \in Outgoing, Send(o) PROVE TypeOK'
  BY <1>7, <1>f DEF Send, discord, past, TypeOK
<1>8. CASE Post
  <2>1. Joins(sending.to, TRUE)
    BY <1>8 DEF Post
  <2>2. /\ DOMAIN sending = {"to", "text", "rest", "posted"}
        /\ DOMAIN sending' = DOMAIN sending
    BY <1>8 DEF Post, TypeOK
  <2>3. member' \subseteq Thread /\ changed' \in [Channel -> LongAgo..MaxTime]
    BY <2>1, JoinsEffect
  <2>4. /\ UNCHANGED <<rolesHad, chans, handling, now, moves, failed, joined>>
        /\ faults' \in 0..MaxFaults
    BY <1>8, <1>f DEF Post
  <2>. QED  BY <2>2, <2>3, <2>4 DEF TypeOK
<1>9. CASE PostFails
  BY <1>9, <1>f DEF PostFails, discord, past, TypeOK
<1>10. CASE Forget
  <2>1. chans' \in [Channel -> Info \cup {None}]
    BY <1>10, ForgetEffect DEF TypeOK
  <2>2. joined' \subseteq Thread
    BY <1>10, ForgetEffect DEF TypeOK
  <2>. QED  BY <1>10, <2>1, <2>2, ForgetEffect DEF TypeOK
<1>11. ASSUME NEW c \in Thread, Moved(c) PROVE TypeOK'
  <2>1. Joins(c, c \notin member)
    BY <1>11, MovedEffect
  <2>2. member' \subseteq Thread /\ changed' \in [Channel -> LongAgo..MaxTime]
    BY <2>1, JoinsEffect
  <2>. QED  BY <1>11, <2>2, MovedEffect DEF TypeOK
<1>12. CASE Tick
  <2>1. now' \in 0..MaxTime
    BY <1>12, DiscordConstants DEF Tick, TypeOK
  <2>. QED  BY <1>12, <2>1 DEF Tick, bot, past, TypeOK
<1>13. CASE UNCHANGED vars
  BY <1>13 DEF vars, bot, discord, past, TypeOK
<1>. QED
  BY <1>1, <1>2, <1>3, <1>4, <1>5, <1>6, <1>7, <1>8, <1>9, <1>10, <1>11, <1>12, <1>13 DEF Next, Step

-----------------------------------------------------------------------------
(* Time *)

\* A channel's times only grow.
Later ==
  /\ now <= now'
  /\ \A c \in Channel :
       /\ LastIn(c) <= LastIn(c)' /\ LastOut(c) <= LastOut(c)' /\ failed[c] <= failed'[c]
       /\ changed'[c] <= now' /\ failed'[c] <= now'

\* They do: becoming a member or ceasing to be one is noted with its time.
LEMMA LaterStep == TypeOK /\ AllHandled /\ Noted /\ [Next]_vars => Later
<1>. SUFFICES ASSUME TypeOK, AllHandled, Noted, [Next]_vars PROVE Later
  OBVIOUS
<1>t. /\ now \in Int
      /\ \A c \in Channel : /\ changed[c] \in Int /\ failed[c] \in Int
                            /\ changed[c] <= now /\ failed[c] <= now
  BY Times DEF Noted
<1>0. ASSUME UNCHANGED <<member, changed, failed, now>> PROVE Later
  BY <1>0, <1>t DEF Later, LastIn, LastOut
<1>1. ASSUME UNCHANGED <<member, changed, now>>,
             NEW c, failed' = failed \/ failed' = [failed EXCEPT ![c] = now]
      PROVE  Later
  <2>1. \A d \in Channel : failed'[d] \in {failed[d], now}
    BY <1>1 DEF TypeOK
  <2>. QED  BY <1>1, <1>t, <2>1 DEF Later, LastIn, LastOut
<1>2. ASSUME UNCHANGED <<failed, now>>, NEW c, NEW in \in BOOLEAN, Joins(c, in)
      PROVE  Later
  <2>1. \A d \in Channel : \/ (d \in member' <=> d \in member) /\ changed'[d] \in {changed[d], now}
                           \/ changed'[d] = now
    BY <1>2, JoinsEffect
  <2>. QED  BY <1>2, <1>t, <2>1 DEF Later, LastIn, LastOut
<1>3. ASSUME NEW h \in Handler, NEW m \in Message, Arrive(h, m) PROVE Later
  BY <1>0, <1>3, ArriveEffect
<1>4. ASSUME NEW h \in Handler, Look(h) PROVE Later
  BY <1>0, <1>4, LookEffect
<1>5. ASSUME NEW h \in Handler, Shape(h) PROVE Later
  <2>1. /\ failed' = failed \/ failed' = [failed EXCEPT ![ChannelOf(h)] = now]
        /\ UNCHANGED <<member, changed, now>>
    BY <1>5, ShapeEffect
  <2>. QED  BY <1>1, <2>1
<1>6. ASSUME NEW h \in Handler, ThreadMember(h) PROVE Later
  <2>0. handling[h].info # None
    BY <1>6 DEF ThreadMember, At, AllHandled, Handled
  <2>1. /\ failed' = failed \/ failed' = [failed EXCEPT ![ChannelOf(h)] = now]
        /\ UNCHANGED <<member, changed, now>>
    BY <1>6, <2>0, ThreadMemberEffect
  <2>. QED  BY <1>1, <2>1
<1>7. ASSUME NEW h \in Handler, Keep(h) \/ Drop(h) \/ Emit(h) PROVE Later
  BY <1>0, <1>7 DEF Keep, Drop, Emit, SameBot, discord, past
<1>8. ASSUME NEW o \in Outgoing, Send(o) PROVE Later
  BY <1>0, <1>8 DEF Send, discord, past
<1>9. CASE Post
  <2>1. Joins(sending.to, TRUE) /\ UNCHANGED <<failed, now>>
    BY <1>9 DEF Post
  <2>. QED  BY <1>2, <2>1
<1>10. CASE PostFails
  BY <1>0, <1>10 DEF PostFails, discord, past
<1>11. CASE Forget
  BY <1>0, <1>11, ForgetEffect
<1>12. ASSUME NEW c \in Thread, Moved(c) PROVE Later
  <2>1. Joins(c, c \notin member) /\ UNCHANGED <<failed, now>>
    BY <1>12, MovedEffect
  <2>. QED  BY <1>2, <2>1
<1>13. CASE Tick
  <2>1. now' = now + 1 /\ UNCHANGED <<member, changed, failed>>
    BY <1>13 DEF Tick, past
  <2>. QED  BY <1>t, <2>1 DEF Later, LastIn, LastOut
<1>14. CASE UNCHANGED vars
  BY <1>0, <1>14 DEF vars, discord, past
<1>. QED
  BY <1>3, <1>4, <1>5, <1>6, <1>7, <1>8, <1>9, <1>10, <1>11, <1>12, <1>13, <1>14 DEF Next, Step

\* What was true stays true, of its time.
LEMMA TrueStays ==
  ASSUME TypeOK, TypeOK', Later, NEW c \in Channel, NEW i \in Info, NEW j \in Info,
         j.at = i.at, j.thread = i.thread, j.botIn = i.botIn, IsTrue(c, i)
  PROVE  /\ j.at <= now' /\ (j.thread => c \in Thread)
         /\ j.thread /\ j.botIn => j.at <= LastIn(c)'
         /\ c \in Thread => (j.thread /\ j.botIn) \/ j.at <= LastOut(c)' \/ j.at <= failed'[c]
         /\ c \in Thread /\ ~j.thread => j.at <= failed'[c]
<1>1. /\ now \in Int /\ now' \in Int /\ i.at \in Int
      /\ failed[c] \in Int /\ failed'[c] \in Int
      /\ changed[c] \in Int /\ changed'[c] \in Int
  <2>1. LongAgo \in Int /\ MaxTime \in Nat
    BY DiscordConstants DEF LongAgo
  <2>2. now \in Int /\ failed[c] \in Int /\ changed[c] \in Int /\ i.at \in Int
    BY Times
  <2>3. now' \in Int /\ failed'[c] \in Int /\ changed'[c] \in Int
    BY <2>1 DEF TypeOK, LongAgo
  <2>. QED  BY <2>2, <2>3
<1>2. /\ LastIn(c) \in Int /\ LastIn(c)' \in Int /\ LastOut(c) \in Int /\ LastOut(c)' \in Int
      /\ now <= now' /\ LastIn(c) <= LastIn(c)' /\ LastOut(c) <= LastOut(c)'
      /\ failed[c] <= failed'[c]
  BY <1>1 DEF Later, LastIn, LastOut
<1>. QED  BY <1>1, <1>2 DEF IsTrue

-----------------------------------------------------------------------------
(* How old an answer may be *)

\* What is cached stays true, and what is put there is.
LEMMA NotedStep ==
  ASSUME TypeOK, TypeOK', AllHandled, Noted, Later, [Next]_vars
  PROVE  Noted'
<1>1. \A c \in Channel : chans'[c] # None =>
        chans'[c] \in Info /\ IsTrue(c, chans'[c])
  <2>. SUFFICES ASSUME NEW c \in Channel, chans'[c] # None
                PROVE  IsTrue(c, chans'[c])
    BY DEF TypeOK
  <2>0. ASSUME chans'[c] = chans[c] PROVE IsTrue(c, chans'[c])
    BY <2>0 DEF Noted
  <2>1. ASSUME UNCHANGED chans PROVE IsTrue(c, chans'[c])
    BY <2>0, <2>1
  <2>2. ASSUME NEW h \in Handler, NEW m \in Message, Arrive(h, m) PROVE IsTrue(c, chans'[c])
    BY <2>1, <2>2, ArriveEffect
  <2>3. ASSUME NEW h \in Handler, Look(h) \/ Shape(h) \/ ThreadMember(h) \/ Drop(h) \/ Emit(h)
        PROVE  IsTrue(c, chans'[c])
    BY <2>1, <2>3 DEF Look, Shape, ThreadMember, Drop, Emit, SameBot, bot
  <2>4. ASSUME NEW h \in Handler, Keep(h) PROVE IsTrue(c, chans'[c])
    <3>1. /\ handling[h].info # None /\ IsTrue(ChannelOf(h), handling[h].info)
          /\ chans' = [chans EXCEPT ![ChannelOf(h)] = handling[h].info]
      BY <2>4 DEF Keep, Kept, At, AllHandled, Handled, ChannelOf
    <3>2. chans'[c] = chans[c] \/ (c = ChannelOf(h) /\ chans'[c] = handling[h].info)
      BY <3>1 DEF TypeOK
    <3>. QED  BY <2>0, <3>1, <3>2
  <2>5. ASSUME NEW o \in Outgoing, Send(o) PROVE IsTrue(c, chans'[c])
    BY <2>1, <2>5 DEF Send
  <2>6. CASE Post \/ PostFails \/ Tick
    BY <2>1, <2>6 DEF Post, PostFails, Tick, bot
  <2>7. CASE Forget
    <3>1. chans' = [chans EXCEPT ![sending.to] = None]
      BY <2>7, ForgetEffect
    <3>2. chans'[c] = chans[c]
      BY <3>1 DEF TypeOK
    <3>. QED  BY <2>0, <3>2
  <2>8. ASSUME NEW d \in Thread, Moved(d) PROVE IsTrue(c, chans'[c])
    BY <2>1, <2>8, MovedEffect
  <2>9. CASE UNCHANGED vars
    BY <2>1, <2>9 DEF vars, bot
  <2>. QED
    BY <2>2, <2>3, <2>4, <2>5, <2>6, <2>7, <2>8, <2>9 DEF Next, Step
<1>2. ASSUME NEW c \in Channel
      PROVE  (changed[c] <= now)' /\ (failed[c] <= now)'
  BY DEF Later
<1>3. ASSUME NEW c \in Channel, chans'[c] # None
      PROVE  IsTrue(c, chans[c])'
  <2>1. chans'[c] \in Info /\ IsTrue(c, chans'[c])
    BY <1>1, <1>3
  <2>2. PICK i \in Info : i = chans'[c]
    BY <2>1
  <2>3. IsTrue(c, i)
    BY <2>1, <2>2
  <2>4. /\ i.at <= now' /\ (i.thread => c \in Thread)
        /\ i.thread /\ i.botIn => i.at <= LastIn(c)'
        /\ c \in Thread => (i.thread /\ i.botIn) \/ i.at <= LastOut(c)' \/ i.at <= failed'[c]
        /\ c \in Thread /\ ~i.thread => i.at <= failed'[c]
    BY <2>3, TrueStays
  <2>. QED  BY <2>2, <2>4 DEF IsTrue
<1>. QED  BY <1>2, <1>3 DEF Noted

\* A goroutine that stays where it is has what it had in hand.
LEMMA HandledLike ==
  ASSUME TypeOK, TypeOK', Later, NEW h \in Handler, Handled(h),
         handling[h] # None, handling'[h] # None, Alike(handling[h], handling'[h])
  PROVE  Handled(h)'
<1>1. PICK t \in Handling : t = handling[h]
  BY InHand
<1>2. PICK u \in Handling : u = handling'[h]
  BY DEF Alike
<1>3. PICK c \in Channel : c = t.message.channel /\ c = u.message.channel
  BY <1>1, <1>2, InHand DEF ChannelOf, Alike
<1>4. /\ u.message = t.message /\ u.came = t.came /\ u.step = t.step /\ u.asks = t.asks
      /\ t.info # None => /\ u.info # None /\ u.info.at = t.info.at
                          /\ u.info.thread = t.info.thread /\ u.info.botIn = t.info.botIn
      /\ u.info \in Info \cup {None} /\ t.info \in Info \cup {None}
  BY <1>1, <1>2 DEF Alike, Handling
<1>5. t.came <= now /\ t.came \in Int /\ now \in Int /\ now' \in Int /\ now <= now'
      /\ TTL \in Nat /\ (t.info # None => t.info.at \in Int)
  <2>1. now' \in Int
    BY DEF TypeOK
  <2>. QED  BY <1>1, <1>4, <2>1, Times DEF Handled, Later
<1>6. t.info # None /\ IsTrue(c, t.info) =>
        /\ u.info.at <= now' /\ (u.info.thread => c \in Thread)
        /\ u.info.thread /\ u.info.botIn => u.info.at <= LastIn(c)'
        /\ c \in Thread => (u.info.thread /\ u.info.botIn) \/ u.info.at <= LastOut(c)'
                              \/ u.info.at <= failed'[c]
        /\ c \in Thread /\ ~u.info.thread => u.info.at <= failed'[c]
  BY <1>4, TrueStays
<1>7. t.info # None /\ IsTrue(c, t.info) => IsTrue(handling[h].message.channel, handling[h].info)'
  BY <1>2, <1>3, <1>6 DEF IsTrue
<1>8. /\ t.step = "member" => t.info # None /\ t.info.thread /\ c \in Thread
      /\ t.step \in {"member", "keep"} => t.info # None /\ t.came <= t.info.at /\ t.info.at <= now
      /\ t.step = "keep" => IsTrue(c, t.info)
      /\ t.asks = "thread" /\ t.step # "admitted" => ~Addressed(t.message)
      /\ t.asks = "scope" => t.step # "admitted" /\ Home # None /\ c \notin Private \cup {Home}
      /\ t.step = "drop" =>
           /\ t.info # None /\ IsTrue(c, t.info) /\ t.info.at > t.came - TTL
           /\ t.asks = "thread" => ~(t.info.thread /\ t.info.botIn)
           /\ t.asks = "scope" => ~(t.info.thread /\ c \in Under)
      /\ t.step = "admitted" =>
           \/ Addressed(t.message) \/ t.message.says = "role"
           \/ /\ t.info # None /\ IsTrue(c, t.info) /\ t.info.at > t.came - TTL
              /\ t.info.thread /\ t.info.botIn
  BY <1>1, <1>3 DEF Handled, Decides
<1>9. t.info # None /\ IsTrue(c, t.info) /\ t.info.at > t.came - TTL => Decides(h)'
  BY <1>2, <1>4, <1>7 DEF Decides
<1>. HIDE DEF Decides
<1>10. /\ u.came <= now'
       /\ u.step = "member" => u.info # None /\ u.info.thread /\ c \in Thread
       /\ u.step \in {"member", "keep"} => u.info # None /\ u.came <= u.info.at /\ u.info.at <= now'
       /\ u.step = "keep" => IsTrue(handling[h].message.channel, handling[h].info)'
       /\ u.asks = "thread" /\ u.step # "admitted" => ~Addressed(u.message)
       /\ u.asks = "scope" => u.step # "admitted" /\ Home # None /\ c \notin Private \cup {Home}
  BY <1>4, <1>5, <1>7, <1>8
<1>11. /\ u.step = "drop" =>
            /\ Decides(h)'
            /\ u.asks = "thread" => ~(u.info.thread /\ u.info.botIn)
            /\ u.asks = "scope" => ~(u.info.thread /\ c \in Under)
       /\ u.step = "admitted" =>
            \/ Addressed(u.message) \/ u.message.says = "role"
            \/ Decides(h)' /\ u.info.thread /\ u.info.botIn
  BY <1>4, <1>8, <1>9
<1>. QED  BY <1>2, <1>3, <1>10, <1>11 DEF Handled

\* A goroutine that takes a true answer, not older than the time to live was
\* when its message came, has been told right.
LEMMA AnsweredHandled ==
  ASSUME TypeOK, TypeOK', Later, NEW h \in Handler, handling[h] # None, Handled(h),
         handling[h].step # "admitted", NEW info \in Info, IsTrue(ChannelOf(h), info),
         info.at > handling[h].came - TTL, Answered(h, info)
  PROVE  Handled(h)'
<1>1. PICK u \in Handling :
        /\ handling' = [handling EXCEPT ![h] = u]
        /\ Same(handling[h], u)
        /\ \/ /\ u.info = None /\ u.asks = "thread"
              /\ \/ u.step = "look" /\ ~Addressed(u.message)
                 \/ u.step = "admitted" /\ (Addressed(u.message) \/ u.message.says = "role")
           \/ /\ u.info = info /\ u.asks = handling[h].asks
              /\ u.asks = "scope" => ~(info.thread /\ ChannelOf(h) \in Under)
              /\ \/ u.step = "admitted" /\ u.asks = "thread" /\ info.thread /\ info.botIn
                 \/ u.step = "drop" /\ (u.asks = "thread" => ~(info.thread /\ info.botIn))
  BY AnsweredEffect
<1>2. PICK t \in Handling : t = handling[h]
  BY InHand
<1>3. PICK c \in Channel : c = ChannelOf(h) /\ c = t.message.channel /\ c = u.message.channel
  BY <1>1, <1>2, InHand DEF ChannelOf, Same
<1>4. handling'[h] = u
  BY <1>1 DEF TypeOK
<1>5. /\ u.message = t.message /\ u.came = t.came /\ u.came <= now' /\ info # None
      /\ t.asks = "thread" => ~Addressed(t.message)
      /\ t.asks = "scope" => Home # None /\ c \notin Private \cup {Home}
  <2>1. now \in Int /\ now' \in Int /\ t.came \in Int /\ now <= now'
    BY <1>2, Times DEF TypeOK, Later
  <2>. QED  BY <1>1, <1>2, <1>3, <2>1, DiscordConstants DEF Same, Handled
<1>6. /\ info.at <= now' /\ (info.thread => c \in Thread)
      /\ info.thread /\ info.botIn => info.at <= LastIn(c)'
      /\ c \in Thread => (info.thread /\ info.botIn) \/ info.at <= LastOut(c)' \/ info.at <= failed'[c]
      /\ c \in Thread /\ ~info.thread => info.at <= failed'[c]
  BY <1>3, TrueStays
<1>7. CASE u.info = None
  BY <1>1, <1>3, <1>4, <1>5, <1>7 DEF Handled
<1>8. CASE u.info = info
  <2>1. Decides(h)'
    BY <1>2, <1>3, <1>4, <1>5, <1>6, <1>8 DEF Decides, IsTrue
  <2>2. /\ u.asks = t.asks
        /\ u.asks = "scope" => ~(info.thread /\ c \in Under)
        /\ \/ u.step = "admitted" /\ u.asks = "thread" /\ info.thread /\ info.botIn
           \/ u.step = "drop" /\ (u.asks = "thread" => ~(info.thread /\ info.botIn))
    BY <1>1, <1>2, <1>3, <1>5, <1>8
  <2>. HIDE DEF Decides
  <2>. QED  BY <1>3, <1>4, <1>5, <1>8, <2>1, <2>2 DEF Handled
<1>. QED  BY <1>1, <1>7, <1>8

\* Every step leaves every goroutine with what it should have in hand.
LEMMA HandledStep ==
  ASSUME TypeOK, TypeOK', AllHandled, Noted, Later, [Next]_vars
  PROVE  AllHandled'
<1>. SUFFICES ASSUME NEW k \in Handler, handling'[k] # None PROVE Handled(k)'
  BY DEF AllHandled, Handled
<1>t. /\ now \in Int /\ now' \in Int /\ TTL \in Nat \ {0}
      /\ \A t \in Handling : t.came \in Int
      /\ \A i \in Info : i.at \in Int
      /\ \A h \in Handler : handling[h] # None => handling[h].came <= now
  BY Times DEF TypeOK, AllHandled, Handled
<1>0. ASSUME handling'[k] = handling[k] PROVE Handled(k)'
  <2>1. handling[k] # None /\ Handled(k) /\ handling[k] \in Handling
    BY <1>0, InHand DEF AllHandled
  <2>2. Alike(handling[k], handling'[k])
    BY <1>0, <2>1, AlikeItself
  <2>. QED  BY <2>1, <2>2, HandledLike
<1>1. ASSUME NEW h \in Handler, NEW u, handling' = [handling EXCEPT ![h] = u], h # k
      PROVE  Handled(k)'
  <2>1. handling'[k] = handling[k]
    BY <1>1 DEF TypeOK
  <2>. QED  BY <1>0, <2>1
<1>2. ASSUME NEW h \in Handler, NEW m \in Message, Arrive(h, m) PROVE Handled(k)'
  <2>1. PICK u \in Handling :
              /\ handling' = [handling EXCEPT ![h] = u]
              /\ u.message = m /\ u.came = now /\ u.info = None
              /\ \/ u.step = "look" /\ u.asks = "thread" /\ ~Addressed(m)
                 \/ u.step = "look" /\ u.asks = "scope" /\ Home # None
                                    /\ m.channel \notin Private \cup {Home}
                 \/ u.step = "admitted" /\ u.asks = "thread"
                                        /\ (Addressed(m) \/ m.says = "role")
    BY <1>2, ArriveEffect
  <2>2. CASE h = k
    <3>1. handling'[k] = u /\ now' = now
      BY <1>2, <2>1, <2>2, ArriveEffect DEF TypeOK
    <3>. QED  BY <1>t, <2>1, <3>1 DEF Handled
  <2>. QED  BY <1>1, <2>1, <2>2
<1>3. ASSUME NEW h \in Handler, Look(h) PROVE Handled(k)'
  <2>1. /\ handling[h] # None /\ handling[h].step = "look" /\ handling[h] \in Handling
        /\ ChannelOf(h) \in Channel /\ chans[ChannelOf(h)] \in Info
        /\ Fresh(ChannelOf(h)) /\ Answered(h, chans[ChannelOf(h)])
    BY <1>3, LookEffect, InHand DEF At
  <2>2. IsTrue(ChannelOf(h), chans[ChannelOf(h)])
    BY <2>1, DiscordConstants DEF Noted
  <2>3. chans[ChannelOf(h)].at > handling[h].came - TTL
    BY <1>t, <2>1 DEF Fresh
  <2>4. Handled(h)'
    BY <2>1, <2>2, <2>3, AnsweredHandled DEF AllHandled
  <2>5. \E u : handling' = [handling EXCEPT ![h] = u]
    BY <2>1, AnsweredEffect
  <2>. QED  BY <1>1, <2>4, <2>5
<1>4. ASSUME NEW h \in Handler, Shape(h) PROVE Handled(k)'
  <2>1. PICK known \in BOOLEAN, u \in Handling :
              /\ handling' = [handling EXCEPT ![h] = u] /\ Same(handling[h], u)
              /\ u.asks = handling[h].asks
              /\ u.info # None /\ u.info.at = now /\ ~u.info.botIn
              /\ u.info.thread <=> known /\ ChannelOf(h) \in Thread
              /\ u.step = IF u.info.thread THEN "member" ELSE "keep"
              /\ failed' = IF known THEN failed ELSE [failed EXCEPT ![ChannelOf(h)] = now]
    BY <1>4, ShapeEffect
  <2>2. CASE h = k
    <3>1. /\ handling[h] # None /\ handling[h].step = "look" /\ handling[h] \in Handling
          /\ ChannelOf(h) \in Channel
      BY <1>4, InHand DEF Shape, At
    <3>2. PICK t \in Handling : t = handling[h]
      BY <3>1
    <3>3. PICK c \in Channel : c = ChannelOf(h) /\ c = t.message.channel /\ c = u.message.channel
      BY <2>1, <3>1, <3>2 DEF ChannelOf, Same
    <3>4. handling'[k] = u /\ now' = now
      BY <1>4, <2>1, <2>2, ShapeEffect DEF TypeOK
    <3>5. ~known => failed'[c] = now
      BY <2>1, <3>3 DEF TypeOK
    <3>6. /\ t.came <= now
          /\ t.asks = "thread" => ~Addressed(t.message)
          /\ t.asks = "scope" => Home # None /\ c \notin Private \cup {Home}
      BY <3>1, <3>2, <3>3 DEF AllHandled, Handled
    <3>7. /\ u.message = t.message /\ u.came = t.came /\ u.asks = t.asks
      BY <2>1, <3>2 DEF Same
    <3>8. ~u.info.thread => IsTrue(handling[k].message.channel, handling[k].info)'
      BY <1>t, <2>1, <3>3, <3>4, <3>5 DEF IsTrue
    <3>9. u.info.thread => c \in Thread
      BY <2>1, <3>3
    <3>. QED  BY <1>t, <2>1, <3>3, <3>4, <3>6, <3>7, <3>8, <3>9 DEF Handled
  <2>. QED  BY <1>1, <2>1, <2>2
<1>5. ASSUME NEW h \in Handler, ThreadMember(h) PROVE Handled(k)'
  <2>0. /\ handling[h] # None /\ handling[h].step = "member" /\ handling[h] \in Handling
        /\ ChannelOf(h) \in Channel /\ handling[h].info # None /\ handling[h].info \in Info
    BY <1>5, InHand DEF ThreadMember, At, AllHandled, Handled
  <2>1. PICK known \in BOOLEAN, u \in Handling :
              /\ handling' = [handling EXCEPT ![h] = u] /\ Same(handling[h], u)
              /\ u.asks = handling[h].asks /\ u.step = "keep" /\ u.info # None
              /\ u.info.at = handling[h].info.at /\ u.info.thread = handling[h].info.thread
              /\ u.info.botIn <=> known /\ ChannelOf(h) \in member
              /\ failed' = IF known THEN failed ELSE [failed EXCEPT ![ChannelOf(h)] = now]
    BY <1>5, <2>0, ThreadMemberEffect
  <2>2. CASE h = k
    <3>2. PICK t \in Handling : t = handling[h]
      BY <2>0
    <3>3. PICK c \in Channel : c = ChannelOf(h) /\ c = t.message.channel /\ c = u.message.channel
      BY <2>0, <2>1, <3>2 DEF ChannelOf, Same
    <3>4. handling'[k] = u /\ now' = now /\ member' = member
      BY <1>5, <2>0, <2>1, <2>2, ThreadMemberEffect DEF TypeOK
    <3>5. ~known => failed'[c] = now
      BY <2>1, <3>3 DEF TypeOK
    <3>6. /\ t.came <= t.info.at /\ t.info.at <= now /\ t.info.at \in Int /\ t.came \in Int
          /\ t.came <= now /\ t.info.thread /\ c \in Thread
          /\ t.asks = "thread" => ~Addressed(t.message)
          /\ t.asks = "scope" => Home # None /\ c \notin Private \cup {Home}
      BY <1>t, <2>0, <3>2, <3>3 DEF AllHandled, Handled
    <3>7. /\ u.message = t.message /\ u.came = t.came /\ u.asks = t.asks
          /\ u.info.at = t.info.at /\ u.info.thread
      BY <2>1, <3>2, <3>6 DEF Same
    <3>8. u.info.botIn => c \in member'
      BY <2>1, <3>3, <3>4
    <3>9. ~u.info.botIn => c \notin member' \/ failed'[c] = now
      BY <2>1, <3>3, <3>4, <3>5
    <3>10. IsTrue(handling[k].message.channel, handling[k].info)'
      BY <1>t, <3>3, <3>4, <3>6, <3>7, <3>8, <3>9 DEF IsTrue, LastIn, LastOut
    <3>. QED  BY <1>t, <2>1, <3>3, <3>4, <3>6, <3>7, <3>10 DEF Handled
  <2>. QED  BY <1>1, <2>1, <2>2
<1>6. ASSUME NEW h \in Handler, Keep(h) PROVE Handled(k)'
  <2>0. /\ handling[h] # None /\ handling[h].step = "keep" /\ handling[h] \in Handling
        /\ ChannelOf(h) \in Channel /\ handling[h].info # None
        /\ IsTrue(ChannelOf(h), handling[h].info) /\ handling[h].came <= handling[h].info.at
    BY <1>6, InHand DEF Keep, At, AllHandled, Handled, ChannelOf
  <2>1. handling[h].info \in Info /\ Answered(h, handling[h].info)
    BY <1>6, <2>0, KeepEffect
  <2>2. handling[h].info.at > handling[h].came - TTL
    BY <1>t, <2>0, <2>1
  <2>3. Handled(h)'
    BY <2>0, <2>1, <2>2, AnsweredHandled DEF AllHandled
  <2>4. \E u : handling' = [handling EXCEPT ![h] = u]
    BY <2>0, <2>1, AnsweredEffect
  <2>. QED  BY <1>1, <2>3, <2>4
<1>7. ASSUME NEW h \in Handler, Drop(h) \/ Emit(h) PROVE Handled(k)'
  <2>1. handling' = [handling EXCEPT ![h] = None]
    BY <1>7 DEF Drop, Emit, End
  <2>2. h # k
    BY <2>1 DEF TypeOK
  <2>. QED  BY <1>1, <2>1, <2>2
<1>8. ASSUME NEW o \in Outgoing, Send(o) PROVE Handled(k)'
  BY <1>0, <1>8 DEF Send
<1>9. CASE Post \/ PostFails \/ Tick
  BY <1>0, <1>9 DEF Post, PostFails, Tick
<1>10. CASE Forget
  <2>1. handling[k] # None /\ Alike(handling[k], handling'[k])
    BY <1>10, ForgetEffect
  <2>. QED  BY <2>1, HandledLike DEF AllHandled
<1>11. ASSUME NEW c \in Thread, Moved(c) PROVE Handled(k)'
  <2>1. handling[k] # None /\ Alike(handling[k], handling'[k])
    BY <1>11, MovedEffect
  <2>. QED  BY <2>1, HandledLike DEF AllHandled
<1>12. CASE UNCHANGED vars
  BY <1>0, <1>12 DEF vars
<1>. QED
  BY <1>2, <1>3, <1>4, <1>5, <1>6, <1>7, <1>8, <1>9, <1>10, <1>11, <1>12 DEF Next, Step

\* Everything is as it should be at first: nothing is noted, nothing in hand.
LEMMA InitHolds == Init => TypeOK /\ AllHandled /\ Noted /\ Posted
<1>. SUFFICES ASSUME Init PROVE TypeOK /\ AllHandled /\ Noted /\ Posted
  OBVIOUS
<1>1. LongAgo \in Int /\ LongAgo <= 0 /\ 0 \in 0..MaxTime /\ LongAgo \in LongAgo..MaxTime
      /\ 0 \in 0..MaxMoves /\ 0 \in 0..MaxFaults
  BY DiscordConstants DEF LongAgo
<1>2. TypeOK
  BY <1>1 DEF Init, TypeOK
<1>3. AllHandled
  BY DEF Init, AllHandled, Handled
<1>4. Noted
  BY <1>1 DEF Init, Noted
<1>5. Posted
  BY DEF Init, Posted, Heard
<1>. QED  BY <1>2, <1>3, <1>4, <1>5

\* What a message is decided on is of the time to live before it came, and so
\* are the times it tells of.
LEMMA NotStaler == TypeOK /\ AllHandled => NeverStaler
<1>. SUFFICES ASSUME TypeOK, AllHandled, NEW h \in Handler, handling[h] # None
              PROVE  /\ Admitted(h) /\ ~ByItself(h) /\ handling[h].message.says # "role" =>
                          Lately(h, LastIn(ChannelOf(h)))
                     /\ Ambient(h) /\ ChannelOf(h) \in Thread =>
                          Lately(h, LastOut(ChannelOf(h))) \/ Lately(h, failed[ChannelOf(h)])
                     /\ At(h, "drop") /\ InScope(ChannelOf(h)) /\ ByItself(h) =>
                          Lately(h, failed[ChannelOf(h)])
  BY DEF NeverStaler, Admitted, Ambient, At
<1>1. PICK t \in Handling : t = handling[h]
  BY InHand
<1>2. PICK c \in Channel : c = ChannelOf(h) /\ c = t.message.channel
  BY <1>1, InHand DEF ChannelOf
<1>3. /\ LastIn(c) \in Int /\ LastOut(c) \in Int /\ failed[c] \in Int
      /\ t.came \in Int /\ TTL \in Nat /\ t.came - TTL \in Int
      /\ t.info # None => t.info.at \in Int
  BY <1>1, Times, InHand DEF LastIn, LastOut
<1>4. Decides(h) => /\ t.info # None /\ IsTrue(c, t.info) /\ t.info.at > t.came - TTL
  BY <1>1, <1>2 DEF Decides
<1>5. /\ Lately(h, LastIn(c)) <=> LastIn(c) > t.came - TTL
      /\ Lately(h, LastOut(c)) <=> LastOut(c) > t.came - TTL
      /\ Lately(h, failed[c]) <=> failed[c] > t.came - TTL
  BY <1>1 DEF Lately
<1>6. ASSUME t.step = "admitted", ~Addressed(t.message), t.message.says # "role"
      PROVE  Lately(h, LastIn(c))
  <2>1. Decides(h) /\ t.info.thread /\ t.info.botIn
    BY <1>1, <1>2, <1>6 DEF AllHandled, Handled
  <2>. QED  BY <1>3, <1>4, <1>5, <2>1 DEF IsTrue
<1>7. ASSUME t.step = "drop", t.asks = "thread", c \in Thread
      PROVE  Lately(h, LastOut(c)) \/ Lately(h, failed[c])
  <2>1. Decides(h) /\ ~(t.info.thread /\ t.info.botIn)
    BY <1>1, <1>2, <1>7 DEF AllHandled, Handled
  <2>. QED  BY <1>3, <1>4, <1>5, <1>7, <2>1 DEF IsTrue
<1>8. ASSUME t.step = "drop", InScope(c), Addressed(t.message)
      PROVE  Lately(h, failed[c])
  <2>1. /\ Decides(h) /\ t.asks = "scope" /\ Home # None /\ c \notin Private \cup {Home}
        /\ ~(t.info.thread /\ c \in Under)
    BY <1>1, <1>2, <1>8 DEF AllHandled, Handled, Handling
  <2>2. c \in Thread /\ ~t.info.thread
    BY <1>8, <2>1, DiscordConstants DEF InScope
  <2>. QED  BY <1>3, <1>4, <1>5, <2>1, <2>2 DEF IsTrue
<1>. QED  BY <1>1, <1>2, <1>6, <1>7, <1>8 DEF Admitted, Ambient, At, ByItself

\* The shape of the state is kept, what is cached and in hand is true, and no
\* decision rests on anything older than the time to live.
THEOREM TypeCorrect == Spec => []TypeOK
<1>1. Init => TypeOK /\ AllHandled /\ Noted
  BY InitHolds
<1>2. TypeOK /\ AllHandled /\ Noted /\ [Next]_vars => (TypeOK /\ AllHandled /\ Noted)'
  BY TypeStep, LaterStep, NotedStep, HandledStep
<1>. QED  BY <1>1, <1>2, PTL DEF Spec

\* The cache is no staler than its time to live, for every number of goroutines,
\* channels and messages (channelInfo, bot.go:339).
THEOREM CacheNeverStaler == Spec => []NeverStaler
<1>1. Init => TypeOK /\ AllHandled /\ Noted
  BY InitHolds
<1>2. TypeOK /\ AllHandled /\ Noted /\ [Next]_vars => (TypeOK /\ AllHandled /\ Noted)'
  BY TypeStep, LaterStep, NotedStep, HandledStep
<1>3. TypeOK /\ AllHandled => NeverStaler
  BY NotStaler
<1>. QED  BY <1>1, <1>2, <1>3, PTL DEF Spec

-----------------------------------------------------------------------------
(* That a thread the bot posted in is heard *)

\* An answer that did not deny it does not begin to.
LEMMA KnowsStays ==
  ASSUME TypeOK, TypeOK', Later, NEW c \in Channel, NEW i \in Info, NEW j \in Info,
         j.at = i.at, j.thread = i.thread, j.botIn = i.botIn, i.crossed => j.crossed,
         Knows(c, i)
  PROVE  (j.thread /\ j.botIn) \/ j.crossed \/ j.at <= failed'[c]
<1>1. i.at \in Int /\ failed[c] \in Int /\ failed[c] <= failed'[c]
  BY Times DEF Later
<1>2. failed'[c] \in Int
  BY DiscordConstants DEF TypeOK, LongAgo
<1>. QED  BY <1>1, <1>2 DEF Knows

\* A goroutine that stays where it is does not begin to deny it, if the threads
\* it knows of and that of its channel are as before.
LEMMA HeardLike ==
  ASSUME TypeOK, TypeOK', Later, NEW h \in Handler, Heard(h), Handled(h),
         handling[h] # None, handling'[h] # None, Alike(handling[h], handling'[h]),
         handling'[h].known => handling[h].known /\ ChannelOf(h) \in joined',
         ChannelOf(h) \in joined' => \/ ChannelOf(h) \in joined
                                     \/ handling[h].step = "keep" => handling'[h].info.crossed
  PROVE  Heard(h)'
<1>1. PICK t \in Handling : t = handling[h]
  BY InHand
<1>2. PICK u \in Handling : u = handling'[h]
  BY DEF Alike
<1>3. PICK c \in Channel : c = ChannelOf(h) /\ c = t.message.channel /\ c = u.message.channel
  BY <1>1, <1>2, InHand DEF ChannelOf, Alike
<1>4. /\ u.step = t.step /\ u.asks = t.asks
      /\ t.info # None => /\ u.info # None /\ u.info.at = t.info.at
                          /\ u.info.thread = t.info.thread /\ u.info.botIn = t.info.botIn
                          /\ t.info.crossed => u.info.crossed
      /\ u.info \in Info \cup {None} /\ t.info \in Info \cup {None}
  BY <1>1, <1>2 DEF Alike, Handling
<1>5. t.info # None /\ Knows(c, t.info) => Knows(handling[h].message.channel, handling[h].info)'
  <2>1. t.info # None /\ Knows(c, t.info) =>
          (u.info.thread /\ u.info.botIn) \/ u.info.crossed \/ u.info.at <= failed'[c]
    BY <1>4, KnowsStays
  <2>. QED  BY <1>2, <1>3, <2>1 DEF Knows
<1>6. /\ t.known => c \in joined
      /\ t.step = "keep" /\ c \in joined => Knows(c, t.info)
      /\ t.step = "drop" /\ t.asks = "thread" /\ t.known => Knows(c, t.info)
  BY <1>1, <1>3 DEF Heard
<1>7. t.step \in {"keep", "drop"} => t.info # None
  BY <1>1 DEF Handled, Decides
<1>8. u.step = "keep" /\ c \in joined' => Knows(handling[h].message.channel, handling[h].info)'
  <2>1. u.info.crossed => Knows(handling[h].message.channel, handling[h].info)'
    BY <1>2 DEF Knows
  <2>. QED  BY <1>1, <1>2, <1>3, <1>4, <1>5, <1>6, <1>7, <2>1
<1>9. /\ u.known => t.known /\ c \in joined'
      /\ u.step = "drop" /\ u.asks = "thread" /\ u.known
           => Knows(handling[h].message.channel, handling[h].info)'
  BY <1>1, <1>2, <1>3, <1>4, <1>5, <1>6, <1>7
<1>. QED  BY <1>2, <1>3, <1>8, <1>9 DEF Heard

\* A goroutine that takes an answer that does not deny it does not.
LEMMA AnsweredHeard ==
  ASSUME TypeOK, TypeOK', Later, NEW h \in Handler, handling[h] # None, Heard(h),
         NEW info \in Info, ChannelOf(h) \in joined => Knows(ChannelOf(h), info),
         Answered(h, info), UNCHANGED joined
  PROVE  Heard(h)'
<1>1. PICK u \in Handling :
        /\ handling' = [handling EXCEPT ![h] = u]
        /\ Same(handling[h], u)
        /\ u.step # "keep" /\ (u.step = "drop" => u.info = info)
  BY AnsweredEffect
<1>2. PICK t \in Handling : t = handling[h]
  BY InHand
<1>3. PICK c \in Channel : c = ChannelOf(h) /\ c = t.message.channel /\ c = u.message.channel
  BY <1>1, <1>2, InHand DEF ChannelOf, Same
<1>4. handling'[h] = u
  BY <1>1 DEF TypeOK
<1>5. u.known => c \in joined
  BY <1>1, <1>2, <1>3 DEF Heard, Same
<1>6. c \in joined => (info.thread /\ info.botIn) \/ info.crossed \/ info.at <= failed'[c]
  BY <1>3, KnowsStays
<1>7. u.step = "drop" /\ u.known => Knows(handling[h].message.channel, handling[h].info)'
  BY <1>1, <1>3, <1>4, <1>5, <1>6 DEF Knows
<1>. QED  BY <1>1, <1>3, <1>4, <1>5, <1>7 DEF Heard

\* Every step leaves the bot in the threads it has posted in, unless somebody
\* removes it.
LEMMA JoinedStep ==
  ASSUME TypeOK, AllHandled, Posted, [Next]_vars
  PROVE  joined' \subseteq member'
<1>0. ASSUME UNCHANGED <<member, joined>> PROVE joined' \subseteq member'
  BY <1>0 DEF Posted
<1>1. ASSUME NEW h \in Handler, Step(h) \/ \E m \in Message : Arrive(h, m)
      PROVE  joined' \subseteq member'
  BY <1>0, <1>1 DEF Step, Arrive, Look, Shape, ThreadMember, Keep, Drop, Emit, SameBot,
                    discord, past
<1>2. ASSUME NEW o \in Outgoing, Send(o) PROVE joined' \subseteq member'
  BY <1>0, <1>2 DEF Send, discord, past
<1>3. CASE Post
  <2>1. Joins(sending.to, TRUE) /\ UNCHANGED joined
    BY <1>3 DEF Post
  <2>2. member \subseteq member'
    BY <2>1, JoinsEffect
  <2>. QED  BY <2>1, <2>2 DEF Posted
<1>4. CASE PostFails \/ Tick
  BY <1>0, <1>4 DEF PostFails, Tick, discord, past
<1>5. CASE Forget
  BY <1>5, ForgetEffect DEF Posted
<1>6. ASSUME NEW c \in Thread, Moved(c) PROVE joined' \subseteq member'
  <2>1. Joins(c, c \notin member) /\ joined' = joined \ {c}
    BY <1>6, MovedEffect
  <2>2. \A d \in Channel : d # c => (d \in member' <=> d \in member)
    BY <2>1, JoinsEffect
  <2>. QED  BY <2>1, <2>2, DiscordConstants DEF Posted, TypeOK
<1>7. CASE UNCHANGED vars
  BY <1>0, <1>7 DEF vars, discord, past
<1>. QED  BY <1>1, <1>2, <1>3, <1>4, <1>5, <1>6, <1>7 DEF Next

\* No step caches an answer that denies it.
LEMMA EntryStep ==
  ASSUME TypeOK, TypeOK', Later, AllHandled, Posted, [Next]_vars,
         NEW c \in Channel, c \in joined', chans'[c] # None
  PROVE  Knows(c, chans[c])'
<1>0. ASSUME chans'[c] = chans[c], c \in joined PROVE Knows(c, chans[c])'
  <2>1. PICK i \in Info : i = chans[c]
    BY <1>0 DEF TypeOK
  <2>2. Knows(c, i)
    BY <1>0, <2>1 DEF Posted
  <2>3. (i.thread /\ i.botIn) \/ i.crossed \/ i.at <= failed'[c]
    BY <2>2, KnowsStays
  <2>. QED  BY <1>0, <2>1, <2>3 DEF Knows
<1>1. ASSUME NEW h \in Handler,
             Look(h) \/ Shape(h) \/ ThreadMember(h) \/ Drop(h) \/ Emit(h)
               \/ \E m \in Message : Arrive(h, m)
      PROVE  Knows(c, chans[c])'
  BY <1>0, <1>1 DEF Look, Shape, ThreadMember, Drop, Emit, Arrive, SameBot, bot, past
<1>2. ASSUME NEW h \in Handler, Keep(h) PROVE Knows(c, chans[c])'
  <2>1. /\ handling[h] # None /\ handling[h].step = "keep" /\ handling[h].info # None
    BY <1>2 DEF Keep, At, AllHandled, Handled
  <2>2. /\ handling[h].info \in Info
        /\ chans' = [chans EXCEPT ![ChannelOf(h)] = handling[h].info] /\ UNCHANGED joined
    BY <1>2, <2>1, KeepEffect
  <2>3. CASE c = ChannelOf(h)
    <3>1. PICK i \in Info : i = handling[h].info
      BY <2>2
    <3>2. Knows(c, i)
      BY <2>1, <2>2, <2>3, <3>1 DEF Posted, Heard, ChannelOf
    <3>3. (i.thread /\ i.botIn) \/ i.crossed \/ i.at <= failed'[c]
      BY <3>2, KnowsStays
    <3>4. chans'[c] = i
      BY <2>2, <2>3, <3>1 DEF TypeOK
    <3>. QED  BY <3>3, <3>4 DEF Knows
  <2>4. CASE c # ChannelOf(h)
    <3>1. chans'[c] = chans[c] /\ c \in joined
      BY <2>2, <2>4 DEF TypeOK
    <3>. QED  BY <1>0, <3>1
  <2>. QED  BY <2>3, <2>4
<1>3. ASSUME NEW o \in Outgoing, Send(o) PROVE Knows(c, chans[c])'
  BY <1>0, <1>3 DEF Send, past
<1>4. CASE Post \/ PostFails \/ Tick
  BY <1>0, <1>4 DEF Post, PostFails, Tick, bot, past
<1>5. CASE Forget
  <2>1. chans' = [chans EXCEPT ![sending.to] = None]
        /\ joined' = joined \cup ({sending.to} \cap member)
    BY <1>5, ForgetEffect
  <2>2. c # sending.to
    BY <2>1 DEF TypeOK
  <2>3. chans'[c] = chans[c] /\ c \in joined
    BY <2>1, <2>2 DEF TypeOK
  <2>. QED  BY <1>0, <2>3
<1>6. ASSUME NEW d \in Thread, Moved(d) PROVE Knows(c, chans[c])'
  <2>1. chans' = chans /\ joined' = joined \ {d}
    BY <1>6, MovedEffect
  <2>. QED  BY <1>0, <2>1
<1>7. CASE UNCHANGED vars
  BY <1>0, <1>7 DEF vars, bot, past
<1>. QED  BY <1>1, <1>2, <1>3, <1>4, <1>5, <1>6, <1>7 DEF Next, Step

\* No step leaves a goroutine with an answer that denies it.
LEMMA HeardStep ==
  ASSUME TypeOK, TypeOK', Later, AllHandled, Posted, [Next]_vars
  PROVE  \A h \in Handler : Heard(h)'
<1>. SUFFICES ASSUME NEW k \in Handler, handling'[k] # None PROVE Heard(k)'
  BY DEF Heard
<1>h. /\ \A h \in Handler : Heard(h) /\ Handled(h)
      /\ joined \subseteq member
  BY DEF Posted, AllHandled
<1>0. ASSUME handling'[k] = handling[k], UNCHANGED joined PROVE Heard(k)'
  <2>1. handling[k] # None /\ handling[k] \in Handling /\ Heard(k) /\ Handled(k)
    BY <1>0, <1>h, InHand
  <2>2. Alike(handling[k], handling'[k])
    BY <1>0, <2>1, AlikeItself
  <2>3. handling'[k].known => handling[k].known /\ ChannelOf(k) \in joined'
    BY <1>0, <2>1 DEF Heard, ChannelOf
  <2>. QED  BY <1>0, <2>1, <2>2, <2>3, HeardLike
<1>1. ASSUME NEW h \in Handler, NEW u, handling' = [handling EXCEPT ![h] = u], h # k,
             UNCHANGED joined
      PROVE  Heard(k)'
  <2>1. handling'[k] = handling[k]
    BY <1>1 DEF TypeOK
  <2>. QED  BY <1>0, <1>1, <2>1
<1>2. ASSUME NEW h \in Handler, NEW m \in Message, Arrive(h, m) PROVE Heard(k)'
  <2>0. UNCHANGED joined
    BY <1>2, ArriveEffect
  <2>1. PICK u \in Handling :
              /\ handling' = [handling EXCEPT ![h] = u]
              /\ u.message = m /\ (u.known <=> m.channel \in joined)
              /\ u.step \in {"look", "admitted"}
    BY <1>2, ArriveEffect
  <2>2. CASE h = k
    <3>1. handling'[k] = u
      BY <2>1, <2>2 DEF TypeOK
    <3>. QED  BY <2>0, <2>1, <3>1 DEF Heard
  <2>. QED  BY <1>1, <2>0, <2>1, <2>2
<1>3. ASSUME NEW h \in Handler, Look(h) PROVE Heard(k)'
  <2>1. /\ handling[h] # None /\ ChannelOf(h) \in Channel /\ chans[ChannelOf(h)] \in Info
        /\ Answered(h, chans[ChannelOf(h)]) /\ UNCHANGED joined
    BY <1>3, LookEffect, InHand DEF At
  <2>2. ChannelOf(h) \in joined => Knows(ChannelOf(h), chans[ChannelOf(h)])
    BY <2>1, DiscordConstants DEF Posted
  <2>3. Heard(h)'
    BY <1>h, <2>1, <2>2, AnsweredHeard
  <2>4. \E u : handling' = [handling EXCEPT ![h] = u]
    BY <2>1, AnsweredEffect
  <2>. QED  BY <1>1, <2>1, <2>3, <2>4
<1>4. ASSUME NEW h \in Handler, Shape(h) PROVE Heard(k)'
  <2>0. UNCHANGED <<joined, now>>
    BY <1>4, ShapeEffect
  <2>1. PICK known \in BOOLEAN, u \in Handling :
              /\ handling' = [handling EXCEPT ![h] = u] /\ Same(handling[h], u)
              /\ u.info.at = now
              /\ u.info.thread <=> known /\ ChannelOf(h) \in Thread
              /\ u.step = IF u.info.thread THEN "member" ELSE "keep"
              /\ failed' = IF known THEN failed ELSE [failed EXCEPT ![ChannelOf(h)] = now]
    BY <1>4, ShapeEffect
  <2>2. CASE h = k
    <3>1. handling[h] # None /\ handling[h] \in Handling /\ ChannelOf(h) \in Channel
      BY <1>4, InHand DEF Shape, At
    <3>2. PICK c \in Channel : c = ChannelOf(h) /\ c = u.message.channel
      BY <2>1, <3>1 DEF ChannelOf, Same
    <3>3. handling'[k] = u
      BY <2>1, <2>2 DEF TypeOK
    <3>4. u.known => c \in joined
      BY <1>h, <2>1, <3>1, <3>2 DEF Heard, Same, ChannelOf
    <3>5. u.step = "keep" /\ c \in joined => failed'[c] = now
      BY <2>1, <3>2 DEF TypeOK
    <3>6. u.step = "keep" /\ c \in joined => Knows(handling[k].message.channel, handling[k].info)'
      BY <2>1, <3>2, <3>3, <3>5, Times DEF Knows
    <3>7. u.step # "drop"
      BY <2>1
    <3>. QED  BY <2>0, <3>2, <3>3, <3>4, <3>6, <3>7 DEF Heard
  <2>. QED  BY <1>1, <2>0, <2>1, <2>2
<1>5. ASSUME NEW h \in Handler, ThreadMember(h) PROVE Heard(k)'
  <2>0. /\ handling[h] # None /\ handling[h].step = "member" /\ handling[h] \in Handling
        /\ ChannelOf(h) \in Channel /\ handling[h].info # None /\ handling[h].info \in Info
        /\ handling[h].info.thread /\ handling[h].info.at <= now
    BY <1>5, <1>h, InHand DEF ThreadMember, At, Handled
  <2>1. PICK known \in BOOLEAN, u \in Handling :
              /\ handling' = [handling EXCEPT ![h] = u] /\ Same(handling[h], u)
              /\ u.step = "keep"
              /\ u.info.at = handling[h].info.at /\ u.info.thread = handling[h].info.thread
              /\ u.info.botIn <=> known /\ ChannelOf(h) \in member
              /\ failed' = IF known THEN failed ELSE [failed EXCEPT ![ChannelOf(h)] = now]
    BY <1>5, <2>0, ThreadMemberEffect
  <2>a. UNCHANGED joined
    BY <1>5, <2>0, ThreadMemberEffect
  <2>2. CASE h = k
    <3>2. PICK c \in Channel : c = ChannelOf(h) /\ c = u.message.channel
      BY <2>0, <2>1 DEF ChannelOf, Same
    <3>3. handling'[k] = u
      BY <2>1, <2>2 DEF TypeOK
    <3>4. u.known => c \in joined
      BY <1>h, <2>0, <2>1, <3>2 DEF Heard, Same, ChannelOf
    <3>5. ~known => failed'[c] = now
      BY <2>1, <3>2 DEF TypeOK
    <3>6. c \in joined => Knows(handling[k].message.channel, handling[k].info)'
      BY <1>h, <2>0, <2>1, <3>2, <3>3, <3>5 DEF Knows
    <3>. QED  BY <2>1, <2>a, <3>2, <3>3, <3>4, <3>6 DEF Heard
  <2>. QED  BY <1>1, <2>1, <2>2, <2>a
<1>6. ASSUME NEW h \in Handler, Keep(h) PROVE Heard(k)'
  <2>0. /\ handling[h] # None /\ handling[h].step = "keep" /\ handling[h].info # None
    BY <1>6, <1>h DEF Keep, At, Handled
  <2>1. handling[h].info \in Info /\ Answered(h, handling[h].info) /\ UNCHANGED joined
    BY <1>6, <2>0, KeepEffect
  <2>2. ChannelOf(h) \in joined => Knows(ChannelOf(h), handling[h].info)
    BY <1>h, <2>0 DEF Heard, ChannelOf
  <2>3. Heard(h)'
    BY <1>h, <2>0, <2>1, <2>2, AnsweredHeard
  <2>4. \E u : handling' = [handling EXCEPT ![h] = u]
    BY <2>0, <2>1, AnsweredEffect
  <2>. QED  BY <1>1, <2>1, <2>3, <2>4
<1>7. ASSUME NEW h \in Handler, Drop(h) \/ Emit(h) PROVE Heard(k)'
  <2>1. handling' = [handling EXCEPT ![h] = None] /\ UNCHANGED joined
    BY <1>7 DEF Drop, Emit, End, SameBot, past
  <2>2. h # k
    BY <2>1 DEF TypeOK
  <2>. QED  BY <1>1, <2>1, <2>2
<1>8. ASSUME NEW o \in Outgoing, Send(o) PROVE Heard(k)'
  BY <1>0, <1>8 DEF Send, past
<1>9. CASE Post \/ PostFails \/ Tick
  BY <1>0, <1>9 DEF Post, PostFails, Tick, past
<1>10. CASE Forget
  <2>1. /\ handling[k] # None /\ Alike(handling[k], handling'[k])
        /\ handling'[k].known = handling[k].known
        /\ handling[k].step = "keep" /\ ChannelOf(k) = sending.to => handling'[k].info.crossed
        /\ joined' = joined \cup ({sending.to} \cap member)
    BY <1>10, ForgetEffect
  <2>2. handling'[k].known => handling[k].known /\ ChannelOf(k) \in joined'
    BY <1>h, <2>1 DEF Heard, ChannelOf
  <2>3. ChannelOf(k) \in joined' => \/ ChannelOf(k) \in joined
                                    \/ handling[k].step = "keep" => handling'[k].info.crossed
    BY <2>1
  <2>. QED  BY <1>h, <2>1, <2>2, <2>3, HeardLike
<1>11. ASSUME NEW c \in Thread, Moved(c) PROVE Heard(k)'
  <2>1. /\ handling[k] # None /\ Alike(handling[k], handling'[k])
        /\ handling'[k].known => handling[k].known /\ ChannelOf(k) # c
        /\ joined' = joined \ {c}
    BY <1>11, MovedEffect
  <2>2. handling'[k].known => handling[k].known /\ ChannelOf(k) \in joined'
    BY <1>h, <2>1 DEF Heard, ChannelOf
  <2>3. ChannelOf(k) \in joined' => ChannelOf(k) \in joined
    BY <2>1
  <2>. QED  BY <1>h, <2>1, <2>2, <2>3, HeardLike
<1>12. CASE UNCHANGED vars
  BY <1>0, <1>12 DEF vars, past
<1>. QED
  BY <1>2, <1>3, <1>4, <1>5, <1>6, <1>7, <1>8, <1>9, <1>10, <1>11, <1>12 DEF Next, Step

\* So the bot stays in the threads it has posted in, and no answer denies it.
LEMMA PostedStep ==
  ASSUME TypeOK, TypeOK', Later, AllHandled, Posted, [Next]_vars
  PROVE  Posted'
<1>1. joined' \subseteq member'
  BY JoinedStep
<1>2. \A c \in Channel : c \in joined' /\ chans'[c] # None => Knows(c, chans[c])'
  BY EntryStep
<1>3. joined' \subseteq Channel
  BY DiscordConstants DEF TypeOK
<1>4. \A h \in Handler : Heard(h)'
  BY HeardStep
<1>. HIDE DEF Knows, Heard
<1>. QED  BY <1>1, <1>2, <1>3, <1>4 DEF Posted

\* A talk that is dropped was decided on an answer that knows of the thread, or
\* one that failed or was crossed.
LEMMA KnownIsHeard == TypeOK /\ AllHandled /\ Posted => PostingJoins
<1>. SUFFICES ASSUME TypeOK, AllHandled, Posted, NEW h \in Handler, Ambient(h), handling[h].known,
                     ~handling[h].info.crossed
              PROVE  Lately(h, failed[ChannelOf(h)])
  BY DEF PostingJoins
<1>1. PICK t \in Handling : t = handling[h] /\ t.step = "drop" /\ t.asks = "thread"
  BY InHand DEF Ambient, At
<1>2. PICK c \in Channel : c = ChannelOf(h) /\ c = t.message.channel
  BY <1>1, InHand DEF ChannelOf, Ambient, At
<1>3. handling[h] # None
  BY DEF Ambient, At
<1>4. t.info # None /\ t.info.at > t.came - TTL /\ ~(t.info.thread /\ t.info.botIn)
  BY <1>1, <1>3 DEF AllHandled, Handled, Decides
<1>5. Knows(c, t.info)
  BY <1>1, <1>2, <1>3 DEF Posted, Heard
<1>6. t.info.at <= failed[c]
  BY <1>1, <1>4, <1>5 DEF Knows
<1>7. t.info.at \in Int /\ failed[c] \in Int /\ t.came - TTL \in Int
  BY <1>1, <1>3, <1>4, Times, InHand
<1>. QED  BY <1>1, <1>2, <1>4, <1>6, <1>7 DEF Lately

\* A thread the bot has posted in is heard from then on, for every number of
\* goroutines, channels and messages, unless a lookup failed or crossed the Send
\* (Send and forgetChannel, bot.go).
THEOREM PostedThreadsAreHeard == Spec => []PostingJoins
<1>1. Init => TypeOK /\ AllHandled /\ Noted /\ Posted
  BY InitHolds
<1>2. TypeOK /\ AllHandled /\ Noted /\ Posted /\ [Next]_vars
        => (TypeOK /\ AllHandled /\ Noted /\ Posted)'
  BY TypeStep, LaterStep, NotedStep, HandledStep, PostedStep
<1>3. TypeOK /\ AllHandled /\ Posted => PostingJoins
  BY KnownIsHeard
<1>. QED  BY <1>1, <1>2, <1>3, PTL DEF Spec

-----------------------------------------------------------------------------
(* Texts: what folding over one gives *)

\* A set of numbers has a least one.
LEMMA LeastNumber ==
  ASSUME NEW S \in SUBSET Nat, S # {}
  PROVE  \E i \in S : \A j \in S : i <= j
<1>1. IsWellFoundedOn(OpToRel(<, Nat), Nat)
  BY NatLessThanWellFounded
<1>2. PICK i \in S : \A j \in S : ~(<<j, i>> \in OpToRel(<, Nat))
  BY <1>1, WFMin
<1>3. \A j \in S : ~(j < i)
  BY <1>2 DEF OpToRel
<1>. QED  BY <1>3

\* A set of numbers up to one has a greatest one.
LEMMA GreatestNumber ==
  ASSUME NEW n \in Nat, NEW S \in SUBSET (0..n), S # {}
  PROVE  \E i \in S : \A j \in S : j <= i
<1>. DEFINE up == {n - i : i \in S}
<1>1. \A i \in S : i \in Nat /\ i <= n /\ n - i \in Nat
  OBVIOUS
<1>2. up \in SUBSET Nat /\ up # {}
  BY <1>1
<1>3. PICK m \in up : \A j \in up : m <= j
  BY <1>2, LeastNumber
<1>4. PICK i \in S : m = n - i
  BY <1>3
<1>5. ASSUME NEW j \in S PROVE j <= i
  <2>1. n - j \in up
    OBVIOUS
  <2>2. n - i <= n - j
    BY <1>3, <1>4, <2>1
  <2>. QED  BY <1>1, <2>2
<1>. QED  BY <1>5

\* A set that has 0, and each number when it has the one before, has them all.
LEMMA Climb ==
  ASSUME NEW n \in Nat, NEW T, 0 \in T, \A k \in 1..n : k - 1 \in T => k \in T
  PROVE  0..n \subseteq T
<1>1. SUFFICES ASSUME (0..n) \ T # {} PROVE FALSE
  OBVIOUS
<1>2. (0..n) \ T \in SUBSET Nat
  OBVIOUS
<1>3. PICK i \in (0..n) \ T : \A j \in (0..n) \ T : i <= j
  BY <1>1, <1>2, LeastNumber
<1>4. i \in 0..n /\ i # 0
  OBVIOUS
<1>5. i \in 1..n /\ i - 1 \in 0..n /\ ~(i <= i - 1)
  BY <1>4
<1>6. i - 1 \in T
  BY <1>3, <1>5
<1>. QED  BY <1>5, <1>6

\* What is greatest is the Max.
LEMMA MaxIs ==
  ASSUME NEW S \in SUBSET Int, NEW m \in S, \A y \in S : m >= y
  PROVE  Max(S) = m
<1>1. \A x \in S : (\A y \in S : x >= y) => x = m
  OBVIOUS
<1>. QED  BY <1>1 DEF Max

\* One character more of a text without its spaces.
Ink(kept, x) == IF x = Space THEN kept ELSE Append(kept, x)

\* The fold over the first n characters, as FoldLeft goes through them.
IsInkFold(f, s, n) ==
  f = [S \in SUBSET (1..n) |-> IF S = {} THEN <<>> ELSE Ink(f[S \ {Max(S)}], s[Max(S)])]

\* There is such a fold.
LEMMA InkFoldExists ==
  ASSUME NEW s, NEW n \in Nat
  PROVE  \E f : IsInkFold(f, s, n)
<1>. DEFINE T == {k \in 0..n : \E f : IsInkFold(f, s, k)}
<1>1. 0 \in T
  <2>. DEFINE g == [S \in SUBSET (1..0) |-> <<>>]
  <2>1. g = [S \in SUBSET (1..0) |-> IF S = {} THEN <<>> ELSE Ink(g[S \ {Max(S)}], s[Max(S)])]
    OBVIOUS
  <2>2. IsInkFold(g, s, 0)
    BY <2>1 DEF IsInkFold
  <2>. QED  BY <2>2
<1>2. ASSUME NEW k \in 1..n, k - 1 \in T PROVE k \in T
  <2>1. PICK g : IsInkFold(g, s, k - 1)
    BY <1>2
  <2>. DEFINE h == [S \in SUBSET (1..k) |-> IF k \in S THEN Ink(g[S \ {k}], s[k]) ELSE g[S]]
  <2>2. ASSUME NEW S \in SUBSET (1..k)
        PROVE  h[S] = IF S = {} THEN <<>> ELSE Ink(h[S \ {Max(S)}], s[Max(S)])
    <3>1. CASE k \in S
      <4>1. Max(S) = k
        <5>1. S \in SUBSET Int /\ \A y \in S : k >= y
          OBVIOUS
        <5>. QED  BY <3>1, <5>1, MaxIs
      <4>2. S \ {k} \in SUBSET (1..(k - 1)) /\ S \ {k} \in SUBSET (1..k)
        OBVIOUS
      <4>3. h[S \ {k}] = g[S \ {k}]
        BY <4>2
      <4>4. h[S] = Ink(g[S \ {k}], s[k])
        BY <3>1
      <4>. HIDE DEF h
      <4>. QED  BY <3>1, <4>1, <4>3, <4>4
    <3>2. CASE k \notin S
      <4>1. S \in SUBSET (1..(k - 1)) /\ S \ {Max(S)} \in SUBSET (1..(k - 1))
            /\ S \ {Max(S)} \in SUBSET (1..k) /\ k \notin S \ {Max(S)}
        <5>1. \A x \in S : x \in 1..(k - 1) /\ x # k /\ x \in 1..k
          BY <3>2
        <5>2. \A x \in S \ {Max(S)} : x \in S
          OBVIOUS
        <5>. HIDE DEF h
        <5>. QED  BY <5>1, <5>2
      <4>2. g[S] = IF S = {} THEN <<>> ELSE Ink(g[S \ {Max(S)}], s[Max(S)])
        BY <2>1, <4>1, Zenon DEF IsInkFold
      <4>3. h[S] = g[S] /\ h[S \ {Max(S)}] = g[S \ {Max(S)}]
        BY <3>2, <4>1
      <4>. HIDE DEF h
      <4>. QED  BY <4>2, <4>3
    <3>. QED  BY <3>1, <3>2
  <2>3. h = [S \in SUBSET (1..k) |-> IF S = {} THEN <<>> ELSE Ink(h[S \ {Max(S)}], s[Max(S)])]
    <3>1. h = [S \in SUBSET (1..k) |-> h[S]]
      OBVIOUS
    <3>. HIDE DEF h
    <3>. QED  BY <2>2, <3>1, Zenon
  <2>4. IsInkFold(h, s, k)
    BY <2>3 DEF IsInkFold
  <2>. QED  BY <2>4
<1>3. n \in 0..n
  OBVIOUS
<1>. QED  BY <1>1, <1>2, <1>3, Climb

\* What is kept is a text, and grows at its end.
LEMMA InkType ==
  ASSUME NEW Char, NEW a \in Seq(Char), NEW x \in Char
  PROVE  Ink(a, x) \in Seq(Char)
  BY DEF Ink

\* One text after another.
IsJoined(c, a, b) == c = a \o b

\* One character more of the second of two texts is one more of both.
LEMMA InkJoined ==
  ASSUME NEW Char, NEW a \in Seq(Char), NEW b \in Seq(Char), NEW x \in Char,
         NEW c, IsJoined(c, a, b)
  PROVE  IsJoined(Ink(c, x), a, Ink(b, x))
<1>1. Append(a \o b, x) = a \o Append(b, x)
  OBVIOUS
<1>. QED  BY <1>1 DEF Ink, IsJoined

\* What is kept of a text, character by character.
Inking(s, f) == f[0] = <<>> /\ \A n \in 1..Len(s) : f[n] = Ink(f[n - 1], s[n])

\* Inks goes through the text from its start to its end.
LEMMA InksRuns ==
  ASSUME NEW Char, NEW s \in Seq(Char)
  PROVE  \E f : /\ Inking(s, f) /\ Inks(s) = f[Len(s)]
                /\ \A n \in 0..Len(s) : f[n] \in Seq(Char)
<1>1. DOMAIN s = 1..Len(s) /\ Len(s) \in Nat
  OBVIOUS
<1>2. PICK g : IsInkFold(g, s, Len(s))
  BY <1>1, InkFoldExists
<1>. DEFINE F == CHOOSE f : f = [S \in SUBSET DOMAIN s |-> IF S = {} THEN <<>> ELSE
          LET x == Max(S) IN IF s[x] = Space THEN f[S \ {x}] ELSE Append(f[S \ {x}], s[x])]
<1>3. Inks(s) = F[DOMAIN s]
  BY Zenon DEF Inks, FoldLeft, MapThenFoldSet
<1>4. g = [S \in SUBSET DOMAIN s |-> IF S = {} THEN <<>> ELSE
          LET x == Max(S) IN IF s[x] = Space THEN g[S \ {x}] ELSE Append(g[S \ {x}], s[x])]
  BY <1>1, <1>2, Zenon DEF IsInkFold, Ink
<1>5. F = [S \in SUBSET DOMAIN s |-> IF S = {} THEN <<>> ELSE
          LET x == Max(S) IN IF s[x] = Space THEN F[S \ {x}] ELSE Append(F[S \ {x}], s[x])]
  BY <1>4, Zenon
<1>6. IsInkFold(F, s, Len(s))
  BY <1>1, <1>5, Zenon DEF IsInkFold, Ink
<1>. HIDE DEF F
<1>. DEFINE f == [n \in 0..Len(s) |-> F[1..n]]
<1>7. f[0] = <<>>
  <2>1. 1..0 = {} /\ {} \in SUBSET (1..Len(s))
    OBVIOUS
  <2>2. F[{}] = <<>>
    BY <1>6, <2>1, Zenon DEF IsInkFold
  <2>. QED  BY <1>1, <2>1, <2>2
<1>8. ASSUME NEW n \in 1..Len(s) PROVE f[n] = Ink(f[n - 1], s[n])
  <2>1. 1..n \in SUBSET (1..Len(s)) /\ n \in 1..n
    BY <1>1
  <2>5. (1..n) \ {n} = 1..(n - 1)
    BY <1>1
  <2>2. Max(1..n) = n
    <3>1. 1..n \in SUBSET Int /\ n \in 1..n /\ \A y \in 1..n : n >= y
      OBVIOUS
    <3>. QED  BY <3>1, MaxIs
  <2>3. F[1..n] = Ink(F[(1..n) \ {Max(1..n)}], s[Max(1..n)])
    BY <1>6, <2>1, Zenon DEF IsInkFold
  <2>4. f[n] = F[1..n] /\ f[n - 1] = F[1..(n - 1)]
    BY <1>1
  <2>. HIDE DEF f
  <2>. QED  BY <2>2, <2>3, <2>4, <2>5
<1>9. ASSUME NEW n \in 0..Len(s) PROVE f[n] \in Seq(Char)
  <2>. DEFINE T == {k \in 0..Len(s) : f[k] \in Seq(Char)}
  <2>. HIDE DEF f
  <2>1. 0 \in T
    <3>1. f[0] \in Seq(Char)
      BY <1>7
    <3>. QED  BY <1>1, <3>1
  <2>2. ASSUME NEW k \in 1..Len(s), k - 1 \in T PROVE k \in T
    <3>1. s[k] \in Char
      OBVIOUS
    <3>2. f[k] \in Seq(Char)
      BY <1>8, <2>2, <3>1, InkType
    <3>. QED  BY <3>2
  <2>3. 0..Len(s) \subseteq T
    BY <1>1, <2>1, <2>2, Climb
  <2>. QED  BY <2>3
<1>10. Inks(s) = f[Len(s)]
  BY <1>1, <1>3
<1>. HIDE DEF f
<1>. QED  BY <1>7, <1>8, <1>9, <1>10 DEF Inking

\* Two texts begin the same.
BeginSame(s, t, n) == n <= Len(s) /\ n <= Len(t) /\ \A i \in 1..n : s[i] = t[i]

\* Of texts that begin the same, the same is kept of that.
LEMMA InkingAgrees ==
  ASSUME NEW Char, NEW s \in Seq(Char), NEW t \in Seq(Char), NEW f, NEW g, NEW n \in Nat,
         Inking(s, f), Inking(t, g), BeginSame(s, t, n)
  PROVE  f[n] = g[n]
<1>. DEFINE T == {k \in 0..n : f[k] = g[k]}
<1>1. 0 \in T
  BY DEF Inking
<1>2. ASSUME NEW k \in 1..n, k - 1 \in T PROVE k \in T
  <2>1. k \in 1..Len(s) /\ k \in 1..Len(t) /\ s[k] = t[k]
    BY DEF BeginSame
  <2>2. f[k] = Ink(f[k - 1], s[k]) /\ g[k] = Ink(g[k - 1], t[k])
    BY <2>1 DEF Inking
  <2>. QED  BY <1>2, <2>1, <2>2
<1>3. 0..n \subseteq T
  BY <1>1, <1>2, Climb
<1>. QED  BY <1>3

\* What is kept of two texts in a row is what is kept of the one and of the other.
LEMMA InksConcat ==
  ASSUME NEW Char, NEW s \in Seq(Char), NEW t \in Seq(Char)
  PROVE  Inks(s \o t) = Inks(s) \o Inks(t)
<1>. DEFINE u == s \o t
<1>1. u \in Seq(Char) /\ Len(u) = Len(s) + Len(t) /\ Len(s) \in Nat /\ Len(t) \in Nat
  OBVIOUS
<1>2. /\ BeginSame(u, s, Len(s))
      /\ \A i \in 1..Len(t) : u[Len(s) + i] = t[i]
  BY DEF BeginSame
<1>. HIDE DEF u
<1>3. PICK f : /\ Inking(s, f) /\ Inks(s) = f[Len(s)]
               /\ \A n \in 0..Len(s) : f[n] \in Seq(Char)
  BY InksRuns
<1>4. PICK g : /\ Inking(t, g) /\ Inks(t) = g[Len(t)]
               /\ \A n \in 0..Len(t) : g[n] \in Seq(Char)
  BY InksRuns
<1>5. PICK h : /\ Inking(u, h) /\ Inks(u) = h[Len(u)]
               /\ \A n \in 0..Len(u) : h[n] \in Seq(Char)
  BY <1>1, InksRuns
<1>. DEFINE T == {k \in 0..Len(t) : IsJoined(h[Len(s) + k], f[Len(s)], g[k])}
<1>6. 0 \in T
  <2>1. h[Len(s)] = f[Len(s)]
    BY <1>1, <1>2, <1>3, <1>5, InkingAgrees
  <2>2. g[0] = <<>> /\ f[Len(s)] \in Seq(Char)
    BY <1>1, <1>3, <1>4 DEF Inking
  <2>3. IsJoined(f[Len(s)], f[Len(s)], <<>>)
    BY <2>2, ConcatEmptySeq DEF IsJoined
  <2>4. IsJoined(h[Len(s) + 0], f[Len(s)], g[0])
    BY <1>1, <2>1, <2>2, <2>3
  <2>. QED  BY <1>1, <2>4
<1>7. ASSUME NEW k \in 1..Len(t), k - 1 \in T PROVE k \in T
  <2>1. h[Len(s) + k] = Ink(h[Len(s) + (k - 1)], t[k])
    <3>1. Len(s) + k \in 1..Len(u) /\ (Len(s) + k) - 1 = Len(s) + (k - 1)
      BY <1>1
    <3>2. h[Len(s) + k] = Ink(h[(Len(s) + k) - 1], u[Len(s) + k])
      BY <1>5, <3>1 DEF Inking
    <3>. QED  BY <1>2, <3>1, <3>2
  <2>2. g[k] = Ink(g[k - 1], t[k])
    BY <1>4 DEF Inking
  <2>3. f[Len(s)] \in Seq(Char) /\ g[k - 1] \in Seq(Char) /\ t[k] \in Char
    BY <1>1, <1>3, <1>4
  <2>4. IsJoined(h[Len(s) + (k - 1)], f[Len(s)], g[k - 1])
    BY <1>7
  <2>5. IsJoined(h[Len(s) + k], f[Len(s)], g[k])
    BY <2>1, <2>2, <2>3, <2>4, InkJoined
  <2>. QED  BY <1>1, <2>5
<1>8. 0..Len(t) \subseteq T
  BY <1>1, <1>6, <1>7, Climb
<1>9. IsJoined(h[Len(s) + Len(t)], f[Len(s)], g[Len(t)])
  BY <1>1, <1>8
<1>10. IsJoined(Inks(u), Inks(s), Inks(t))
  BY <1>1, <1>3, <1>4, <1>5, <1>9
<1>. QED  BY <1>10 DEF u, IsJoined

\* Nothing is kept of spaces.
LEMMA InksOfSpaces ==
  ASSUME NEW Char, NEW s \in Seq(Char), \A i \in 1..Len(s) : s[i] = Space
  PROVE  Inks(s) = <<>>
<1>1. PICK f : /\ Inking(s, f) /\ Inks(s) = f[Len(s)]
               /\ \A n \in 0..Len(s) : f[n] \in Seq(Char)
  BY InksRuns
<1>. DEFINE T == {k \in 0..Len(s) : f[k] = <<>>}
<1>2. 0 \in T
  BY <1>1 DEF Inking
<1>3. ASSUME NEW k \in 1..Len(s), k - 1 \in T PROVE k \in T
  BY <1>1, <1>3 DEF Inking, Ink
<1>4. Len(s) \in Nat /\ Len(s) \in 0..Len(s)
  OBVIOUS
<1>5. 0..Len(s) \subseteq T
  BY <1>2, <1>3, <1>4, Climb
<1>. QED  BY <1>1, <1>4, <1>5

\* The texts up to the n-th, one after another.
IsFlat(f, p, n) == f = [i \in 1..n |-> IF i = 1 THEN p[i] ELSE f[i - 1] \o p[i]]

\* There is such a function.
LEMMA FlatExists ==
  ASSUME NEW p, NEW n \in Nat
  PROVE  \E f : IsFlat(f, p, n)
<1>. DEFINE T == {k \in 0..n : \E f : IsFlat(f, p, k)}
<1>1. 0 \in T
  <2>. DEFINE value(f, i) == IF i = 1 THEN p[i] ELSE f[i - 1] \o p[i]
              g == [i \in 1..0 |-> <<>>]
  <2>. HIDE DEF value
  <2>1. g = [i \in 1..0 |-> value(g, i)]
    OBVIOUS
  <2>. HIDE DEF g
  <2>2. IsFlat(g, p, 0)
    BY <2>1, Zenon DEF IsFlat, value
  <2>3. 0 \in 0..n
    OBVIOUS
  <2>. QED  BY <2>2, <2>3
<1>2. ASSUME NEW k \in 1..n, k - 1 \in T PROVE k \in T
  <2>1. PICK g : IsFlat(g, p, k - 1)
    BY <1>2
  <2>. DEFINE value(f, i) == IF i = 1 THEN p[i] ELSE f[i - 1] \o p[i]
              h == [i \in 1..k |-> IF i = k THEN value(g, k) ELSE g[i]]
  <2>. HIDE DEF value
  <2>2. g = [i \in 1..(k - 1) |-> value(g, i)]
    BY <2>1, Zenon DEF IsFlat, value
  <2>3. ASSUME NEW i \in 1..k PROVE h[i] = value(h, i)
    <3>1. i # k => i \in 1..(k - 1) /\ g[i] = value(g, i)
      BY <2>2
    <3>2. h[i] = value(g, i)
      BY <3>1
    <3>3. i # 1 => i - 1 \in 1..k /\ i - 1 # k
      OBVIOUS
    <3>4. i # 1 => h[i - 1] = g[i - 1]
      BY <3>3
    <3>. HIDE DEF h
    <3>5. value(h, i) = value(g, i)
      BY <3>4 DEF value
    <3>. QED  BY <3>2, <3>5
  <2>4. h = [i \in 1..k |-> value(h, i)]
    <3>1. h = [i \in 1..k |-> h[i]]
      OBVIOUS
    <3>. HIDE DEF h
    <3>. QED  BY <2>3, <3>1, Zenon
  <2>5. IsFlat(h, p, k)
    BY <2>4, Zenon DEF IsFlat, value
  <2>. QED  BY <2>5
<1>3. n \in 0..n
  OBVIOUS
<1>. QED  BY <1>1, <1>2, <1>3, Climb

\* The texts put one after another, text by text.
Flattening(p, f) ==
  f[1] = p[1] /\ \A n \in 2..Len(p) : IsJoined(f[n], f[n - 1], p[n])

\* FlattenSeq goes through the texts from the first to the last.
LEMMA FlattenRuns ==
  ASSUME NEW Char, NEW p \in Seq(Seq(Char)), p # <<>>
  PROVE  \E f : /\ Flattening(p, f) /\ FlattenSeq(p) = f[Len(p)]
                /\ \A n \in 1..Len(p) : f[n] \in Seq(Char)
<1>1. Len(p) \in Nat /\ Len(p) # 0
  OBVIOUS
<1>2. PICK g : IsFlat(g, p, Len(p))
  BY <1>1, FlatExists
<1>. DEFINE f == CHOOSE f : f = [i \in 1..Len(p) |-> IF i = 1 THEN p[i] ELSE f[i - 1] \o p[i]]
<1>3. FlattenSeq(p) = f[Len(p)]
  BY <1>1, Zenon DEF FlattenSeq
<1>4. f = [i \in 1..Len(p) |-> IF i = 1 THEN p[i] ELSE f[i - 1] \o p[i]]
  BY <1>2, Zenon DEF IsFlat
<1>. HIDE DEF f
<1>5. ASSUME NEW n \in 1..Len(p)
      PROVE  f[n] = IF n = 1 THEN p[n] ELSE f[n - 1] \o p[n]
  BY <1>4, Zenon
<1>6. f[1] = p[1]
  BY <1>1, <1>5
<1>7. ASSUME NEW n \in 2..Len(p) PROVE IsJoined(f[n], f[n - 1], p[n])
  <2>1. n \in 1..Len(p) /\ n # 1
    OBVIOUS
  <2>. QED  BY <1>5, <2>1, Zenon DEF IsJoined
<1>8. \A n \in 1..Len(p) : f[n] \in Seq(Char)
  <2>. DEFINE T == {k \in 0..Len(p) : k # 0 => f[k] \in Seq(Char)}
  <2>1. 0 \in T
    BY <1>1
  <2>2. ASSUME NEW k \in 1..Len(p), k - 1 \in T PROVE k \in T
    <3>1. p[k] \in Seq(Char)
      OBVIOUS
    <3>2. CASE k = 1
      <4>1. f[k] \in Seq(Char)
        BY <1>6, <3>1, <3>2
      <4>. QED  BY <4>1
    <3>3. CASE k # 1
      <4>1. k \in 2..Len(p) /\ f[k - 1] \in Seq(Char)
        BY <2>2, <3>3
      <4>2. IsJoined(f[k], f[k - 1], p[k])
        BY <1>7, <4>1
      <4>3. f[k - 1] \o p[k] \in Seq(Char)
        BY <3>1, <4>1, ConcatProperties
      <4>4. f[k] \in Seq(Char)
        BY <4>2, <4>3, Zenon DEF IsJoined
      <4>. QED  BY <4>4
    <3>. QED  BY <3>2, <3>3
  <2>3. 0..Len(p) \subseteq T
    BY <1>1, <2>1, <2>2, Climb
  <2>4. \A n \in 1..Len(p) : n \in 0..Len(p) /\ n # 0
    OBVIOUS
  <2>. QED  BY <2>3, <2>4
<1>. QED  BY <1>3, <1>6, <1>7, <1>8 DEF Flattening

\* Of no texts, and with one more at the end.
LEMMA FlattenAppend ==
  ASSUME NEW Char, NEW p \in Seq(Seq(Char)), NEW c \in Seq(Char)
  PROVE  /\ FlattenSeq(p) \in Seq(Char)
         /\ FlattenSeq(Append(p, c)) = FlattenSeq(p) \o c
<1>. DEFINE q == Append(p, c)
<1>1. /\ q \in Seq(Seq(Char)) /\ q # <<>> /\ Len(q) = Len(p) + 1 /\ q[Len(p) + 1] = c
      /\ \A i \in 1..Len(p) : q[i] = p[i]
      /\ Len(p) \in Nat
  <2>1. Len(p) \in Nat /\ p \in Seq(Seq(Char)) /\ c \in Seq(Char)
    OBVIOUS
  <2>2. /\ q \in Seq(Seq(Char)) /\ Len(q) = Len(p) + 1 /\ q[Len(p) + 1] = c
        /\ \A i \in 1..Len(p) : q[i] = p[i]
    BY <2>1, AppendProperties
  <2>. HIDE DEF q
  <2>3. q # <<>>
    BY <2>1, <2>2
  <2>. QED  BY <2>1, <2>2, <2>3
<1>. HIDE DEF q
<1>2. PICK g : /\ Flattening(q, g) /\ FlattenSeq(q) = g[Len(q)]
               /\ \A n \in 1..Len(q) : g[n] \in Seq(Char)
  BY <1>1, FlattenRuns
<1>3. CASE p = <<>>
  <2>1. FlattenSeq(p) = <<>>
    BY <1>3 DEF FlattenSeq
  <2>2. FlattenSeq(q) = c
    BY <1>1, <1>2, <1>3 DEF Flattening
  <2>. QED  BY <2>1, <2>2 DEF q
<1>4. CASE p # <<>>
  <2>1. PICK f : /\ Flattening(p, f) /\ FlattenSeq(p) = f[Len(p)]
                 /\ \A n \in 1..Len(p) : f[n] \in Seq(Char)
    BY <1>4, FlattenRuns
  <2>2. Len(p) \in Nat \ {0}
    BY <1>4
  <2>. DEFINE T == {k \in 0..Len(p) : k # 0 => f[k] = g[k]}
  <2>3. 0 \in T
    BY <2>2
  <2>4. ASSUME NEW k \in 1..Len(p), k - 1 \in T PROVE k \in T
    <3>1. CASE k = 1
      BY <1>1, <1>2, <2>1, <2>2, <3>1 DEF Flattening
    <3>2. CASE k # 1
      <4>1. k \in 2..Len(p) /\ k \in 2..Len(q) /\ f[k - 1] = g[k - 1] /\ q[k] = p[k]
        BY <1>1, <2>4, <3>2
      <4>2. IsJoined(f[k], f[k - 1], p[k]) /\ IsJoined(g[k], g[k - 1], q[k])
        BY <1>2, <2>1, <4>1 DEF Flattening
      <4>3. f[k] = g[k]
        BY <4>1, <4>2, Zenon DEF IsJoined
      <4>. QED  BY <4>3
    <3>. QED  BY <3>1, <3>2
  <2>5. 0..Len(p) \subseteq T
    BY <2>2, <2>3, <2>4, Climb
  <2>6. f[Len(p)] = g[Len(p)]
    BY <2>2, <2>5
  <2>7. IsJoined(g[Len(p) + 1], g[Len(p)], q[Len(p) + 1])
    <3>1. Len(p) + 1 \in 2..Len(q) /\ (Len(p) + 1) - 1 = Len(p)
      BY <1>1, <2>2
    <3>. QED  BY <1>2, <3>1 DEF Flattening
  <2>8. IsJoined(FlattenSeq(q), FlattenSeq(p), c)
    BY <1>1, <1>2, <2>1, <2>6, <2>7
  <2>9. FlattenSeq(p) \in Seq(Char)
    BY <2>1, <2>2
  <2>. QED  BY <2>8, <2>9, Zenon DEF q, IsJoined
<1>. QED  BY <1>3, <1>4

-----------------------------------------------------------------------------
(* A long answer in parts *)

\* A place to cut is within the limit, and after the start.
LEMMA CutWithin ==
  ASSUME NEW Char, NEW s \in Seq(Char), Len(s) > MaxLen
  PROVE  BestSplit(s) \in 1..MaxLen
<1>1. MaxLen \in Nat \ {0}
  BY DiscordConstants
<1>2. ASSUME NEW sep, Len(sep) \in Nat, LastIndex(s, sep) > 0
      PROVE  LastIndex(s, sep) + Len(sep) \in 1..MaxLen
  <2>. DEFINE at == {i \in 0..MaxLen - Len(sep) : SubSeq(s, i + 1, i + Len(sep)) = sep}
  <2>1. at # {}
    BY <1>2 DEF LastIndex
  <2>2. at \in SUBSET (0..MaxLen - Len(sep))
    OBVIOUS
  <2>3. LastIndex(s, sep) = CHOOSE i \in at : \A j \in at : j <= i
    BY <2>1 DEF LastIndex
  <2>. HIDE DEF at
  <2>4. \E i \in at : \A j \in at : j <= i
    <3>1. 0..MaxLen - Len(sep) \subseteq 0..MaxLen
      BY <1>1, <1>2
    <3>2. at \in SUBSET (0..MaxLen)
      BY <2>2, <3>1
    <3>. QED  BY <1>1, <2>1, <3>2, GreatestNumber
  <2>5. LastIndex(s, sep) \in at
    BY <2>3, <2>4
  <2>. DEFINE room == MaxLen - Len(sep)
  <2>6. LastIndex(s, sep) \in 0..room
    BY <2>2, <2>5, Zenon
  <2>7. room \in Int
    BY <1>1, <1>2
  <2>. QED  BY <1>1, <1>2, <2>6, <2>7
<1>3. DOMAIN Candidates = 1..6 /\ \A k \in 1..6 : Len(Candidates[k]) \in Nat
  BY DEF Candidates
<1>. DEFINE good == {k \in DOMAIN Candidates : LastIndex(s, Candidates[k]) > 0}
<1>4. CASE good = {}
  BY <1>1, <1>4 DEF BestSplit
<1>5. CASE good # {}
  <2>1. good \in SUBSET Nat
    BY <1>3
  <2>2. \E k \in good : \A j \in good : k <= j
    BY <1>5, <2>1, LeastNumber
  <2>. DEFINE k == CHOOSE k \in good : \A j \in good : k <= j
  <2>3. k \in good
    BY <2>2
  <2>4. BestSplit(s) = LastIndex(s, Candidates[k]) + Len(Candidates[k])
    BY <1>5 DEF BestSplit
  <2>. HIDE DEF k
  <2>5. k \in 1..6 /\ LastIndex(s, Candidates[k]) > 0
    BY <1>3, <2>3
  <2>. QED  BY <1>2, <1>3, <2>4, <2>5
<1>. QED  BY <1>4, <1>5

\* Trimming on the right leaves a beginning, and takes off spaces.
LEMMA TrimmedRight ==
  ASSUME NEW Char, NEW t \in Seq(Char)
  PROVE  \E i \in 0..Len(t) : TrimRight(t) = SubSeq(t, 1, i)
                              /\ \A k \in (i + 1)..Len(t) : t[k] = Space
<1>1. Len(t) \in Nat /\ DOMAIN t = 1..Len(t)
  OBVIOUS
<1>2. Inked(t) \in SUBSET (0..Len(t)) /\ \A k \in 1..Len(t) : k \notin Inked(t) => t[k] = Space
  BY <1>1 DEF Inked
<1>3. CASE Inked(t) = {}
  <2>1. TrimRight(t) = <<>>
    BY <1>3 DEF TrimRight
  <2>2. SubSeq(t, 1, 0) = <<>>
    BY SubSeqEmpty
  <2>3. \A k \in (0 + 1)..Len(t) : t[k] = Space
    BY <1>2, <1>3
  <2>4. 0 \in 0..Len(t)
    BY <1>1
  <2>5. TrimRight(t) = SubSeq(t, 1, 0)
    BY <2>1, <2>2, Zenon
  <2>. QED  BY <2>3, <2>4, <2>5
<1>4. CASE Inked(t) # {}
  <2>. DEFINE i == CHOOSE i \in Inked(t) : \A j \in Inked(t) : j <= i
  <2>1. i \in Inked(t) /\ \A j \in Inked(t) : j <= i
    <3>1. \E k \in Inked(t) : \A j \in Inked(t) : j <= k
      BY <1>1, <1>2, <1>4, GreatestNumber
    <3>. QED  BY <3>1
  <2>2. TrimRight(t) = SubSeq(t, 1, i)
    BY <1>4, Zenon DEF TrimRight
  <2>. HIDE DEF i
  <2>3. \A k \in (i + 1)..Len(t) : k \in 1..Len(t) /\ ~(k <= i)
    BY <1>1, <1>2, <2>1
  <2>4. \A k \in (i + 1)..Len(t) : t[k] = Space
    BY <1>2, <2>1, <2>3
  <2>. QED  BY <1>2, <2>1, <2>2, <2>4
<1>. QED  BY <1>3, <1>4

\* Trimming on the left leaves an end, and takes off spaces.
LEMMA TrimmedLeft ==
  ASSUME NEW Char, NEW t \in Seq(Char)
  PROVE  \E i \in 1..(Len(t) + 1) : TrimLeft(t) = SubSeq(t, i, Len(t))
                                    /\ \A k \in 1..(i - 1) : t[k] = Space
<1>1. Len(t) \in Nat /\ DOMAIN t = 1..Len(t)
  OBVIOUS
<1>2. Inked(t) \in SUBSET (1..Len(t)) /\ \A k \in 1..Len(t) : k \notin Inked(t) => t[k] = Space
  BY <1>1 DEF Inked
<1>3. CASE Inked(t) = {}
  <2>1. TrimLeft(t) = <<>>
    BY <1>3 DEF TrimLeft
  <2>2. SubSeq(t, Len(t) + 1, Len(t)) = <<>>
    BY <1>1, SubSeqEmpty
  <2>3. \A k \in 1..((Len(t) + 1) - 1) : t[k] = Space
    BY <1>1, <1>2, <1>3
  <2>4. Len(t) + 1 \in 1..(Len(t) + 1)
    BY <1>1
  <2>5. TrimLeft(t) = SubSeq(t, Len(t) + 1, Len(t))
    BY <2>1, <2>2, Zenon
  <2>. QED  BY <2>3, <2>4, <2>5
<1>4. CASE Inked(t) # {}
  <2>. DEFINE i == CHOOSE i \in Inked(t) : \A j \in Inked(t) : i <= j
  <2>1. i \in Inked(t) /\ \A j \in Inked(t) : i <= j
    <3>1. Inked(t) \in SUBSET Nat
      BY <1>1, <1>2
    <3>2. \E k \in Inked(t) : \A j \in Inked(t) : k <= j
      BY <1>4, <3>1, LeastNumber
    <3>. QED  BY <3>2
  <2>2. TrimLeft(t) = SubSeq(t, i, Len(t))
    BY <1>4, Zenon DEF TrimLeft
  <2>. HIDE DEF i
  <2>3. \A k \in 1..(i - 1) : k \in 1..Len(t) /\ ~(i <= k)
    BY <1>1, <1>2, <2>1
  <2>4. \A k \in 1..(i - 1) : t[k] = Space
    BY <1>2, <2>1, <2>3
  <2>5. i \in 1..(Len(t) + 1)
    BY <1>1, <1>2, <2>1
  <2>. QED  BY <2>2, <2>4, <2>5
<1>. QED  BY <1>3, <1>4

\* A stretch of a text, from one place to another.
IsStretch(t, s, m, n) == t = SubSeq(s, m, n)

\* A stretch of a stretch is one of the text.
LEMMA StretchOfStretch ==
  ASSUME NEW Char, NEW s \in Seq(Char), NEW i \in 1..Len(s), NEW j \in 1..Len(s),
         NEW m \in 1..(j - i + 1), NEW n \in 1..(j - i + 1),
         NEW t, IsStretch(t, s, i, j), NEW p, p = i + m - 1, NEW q, q = i + n - 1
  PROVE  IsStretch(SubSeq(t, m, n), s, p, q)
<1>1. SubSeq(SubSeq(s, i, j), m, n) = SubSeq(s, i + m - 1, i + n - 1)
  BY SubSeqOfSubSeq
<1>. QED  BY <1>1, Zenon DEF IsStretch

\* Two stretches in a row are one.
LEMMA StretchAndNext ==
  ASSUME NEW Char, NEW s \in Seq(Char), NEW m \in 1..(Len(s) + 1),
         NEW k \in (m - 1)..Len(s), NEW n \in k..Len(s),
         NEW a, IsStretch(a, s, m, k), NEW b, NEW p, p = k + 1, IsStretch(b, s, p, n)
  PROVE  IsStretch(a \o b, s, m, n)
<1>1. SubSeq(s, m, k) \o SubSeq(s, k + 1, n) = SubSeq(s, m, n)
  BY ConcatAdjacentSubSeq
<1>. QED  BY <1>1, Zenon DEF IsStretch

\* A text cut in a chunk, its first j characters, and a rest, from the m-th on,
\* with nothing but spaces between the two.
IsCut(s, j, m) ==
  /\ j <= m /\ j <= MaxLen
  /\ Chunk(s) = SubSeq(s, 1, j) /\ Rest(s) = SubSeq(s, m + 1, Len(s))
  /\ \A i \in (j + 1)..m : s[i] = Space

\* splitMessage's loop: every text is cut that way.
LEMMA CutInTwo ==
  ASSUME NEW Char, NEW s \in Seq(Char)
  PROVE  \E j, m \in 0..Len(s) : IsCut(s, j, m)
<1>1. Len(s) \in Nat /\ MaxLen \in Nat \ {0} /\ \A k \in 1..Len(s) : s[k] \in Char
  BY DiscordConstants
<1>2. CASE Len(s) <= MaxLen
  <2>1. Chunk(s) = SubSeq(s, 1, Len(s))
    BY <1>2, SubSeqFull, Zenon DEF Chunk
  <2>2. SubSeq(s, Len(s) + 1, Len(s)) = <<>>
    BY <1>1, SubSeqEmpty
  <2>3. Rest(s) = SubSeq(s, Len(s) + 1, Len(s))
    BY <1>2, <2>2, Zenon DEF Rest
  <2>4. IsCut(s, Len(s), Len(s))
    BY <1>1, <1>2, <2>1, <2>3 DEF IsCut
  <2>. QED  BY <1>1, <2>4
<1>3. CASE Len(s) > MaxLen
  <2>. DEFINE b == BestSplit(s)
              t == SubSeq(s, 1, b)
              u == SubSeq(s, b + 1, Len(s))
  <2>1. b \in 1..MaxLen
    BY <1>3, CutWithin
  <2>2. Chunk(s) = TrimRight(t) /\ Rest(s) = TrimLeft(u)
    BY <1>1, <1>3 DEF Chunk, Rest
  <2>. HIDE DEF b
  <2>3. t \in Seq(Char) /\ Len(t) = b /\ \A i \in 1..b : t[i] = s[i]
    <3>1. \A i \in 1..b : i \in 1..Len(s)
      BY <1>1, <1>3, <2>1
    <3>2. /\ t \in Seq(Char) /\ Len(t) = IF 1 <= b THEN b - 1 + 1 ELSE 0
          /\ \A i \in 1..(b - 1 + 1) : t[i] = s[1 + i - 1]
      BY <1>1, <2>1, <3>1, SubSeqProperties
    <3>. HIDE DEF t
    <3>. QED  BY <2>1, <3>2
  <2>4. u \in Seq(Char) /\ Len(u) = Len(s) - b /\ \A i \in 1..(Len(s) - b) : u[i] = s[b + i]
    <3>1. \A i \in (b + 1)..Len(s) : i \in 1..Len(s)
      BY <1>1, <1>3, <2>1
    <3>2. /\ u \in Seq(Char) /\ Len(u) = IF b + 1 <= Len(s) THEN Len(s) - (b + 1) + 1 ELSE 0
          /\ \A i \in 1..(Len(s) - (b + 1) + 1) : u[i] = s[(b + 1) + i - 1]
      BY <1>1, <2>1, <3>1, SubSeqProperties
    <3>. HIDE DEF u
    <3>. QED  BY <1>1, <1>3, <2>1, <3>2
  <2>5. PICK j \in 0..Len(t) : TrimRight(t) = SubSeq(t, 1, j)
                               /\ \A k \in (j + 1)..Len(t) : t[k] = Space
    BY <2>3, TrimmedRight
  <2>6. PICK i \in 1..(Len(u) + 1) : TrimLeft(u) = SubSeq(u, i, Len(u))
                                     /\ \A k \in 1..(i - 1) : u[k] = Space
    BY <2>4, TrimmedLeft
  <2>7. SubSeq(t, 1, j) = SubSeq(s, 1, j)
    <3>1. CASE j = 0
      <4>1. SubSeq(t, 1, 0) = <<>> /\ SubSeq(s, 1, 0) = <<>>
        BY SubSeqEmpty
      <4>. QED  BY <3>1, <4>1, Zenon
    <3>2. CASE j # 0
      <4>1. /\ 1 \in 1..Len(s) /\ b \in 1..Len(s)
            /\ 1 \in 1..(b - 1 + 1) /\ j \in 1..(b - 1 + 1)
        BY <1>1, <1>3, <2>1, <2>3, <2>5, <3>2
      <4>2. IsStretch(t, s, 1, b)
        BY Zenon DEF IsStretch
      <4>3. 1 = 1 + 1 - 1 /\ j = 1 + j - 1
        BY <4>1
      <4>. HIDE DEF t
      <4>4. IsStretch(SubSeq(t, 1, j), s, 1, j)
        BY <4>1, <4>2, <4>3, StretchOfStretch
      <4>. QED  BY <4>4, Zenon DEF IsStretch
    <3>. QED  BY <3>1, <3>2
  <2>8. SubSeq(u, i, Len(u)) = SubSeq(s, (b + i - 1) + 1, Len(s))
    <3>1. CASE i = Len(u) + 1
      <4>1. Len(u) < i /\ Len(s) < (b + i - 1) + 1 /\ i \in Int /\ Len(u) \in Int
            /\ Len(s) \in Int /\ (b + i - 1) + 1 \in Int
        BY <1>1, <1>3, <2>1, <2>4, <3>1
      <4>2. SubSeq(u, i, Len(u)) = <<>> /\ SubSeq(s, (b + i - 1) + 1, Len(s)) = <<>>
        BY <4>1, SubSeqEmpty
      <4>. QED  BY <4>2, Zenon
    <3>2. CASE i # Len(u) + 1
      <4>1. IsStretch(u, s, b + 1, Len(s))
        BY Zenon DEF IsStretch
      <4>. HIDE DEF u
      <4>2. /\ b + 1 \in 1..Len(s) /\ Len(s) \in 1..Len(s)
            /\ i \in 1..(Len(s) - (b + 1) + 1) /\ Len(u) \in 1..(Len(s) - (b + 1) + 1)
        <5>1. Len(u) = Len(s) - b /\ Len(s) \in Nat /\ b \in Nat \ {0} /\ b < Len(s)
          BY <1>1, <1>3, <2>1, <2>4
        <5>2. i \in 1..(Len(s) - b + 1) /\ i # Len(s) - b + 1
          BY <3>2, <5>1
        <5>. QED  BY <5>1, <5>2
      <4>3. (b + i - 1) + 1 = (b + 1) + i - 1 /\ Len(s) = (b + 1) + Len(u) - 1
        BY <1>1, <2>1, <2>4, <4>2
      <4>4. IsStretch(SubSeq(u, i, Len(u)), s, (b + i - 1) + 1, Len(s))
        BY <4>1, <4>2, <4>3, StretchOfStretch
      <4>. QED  BY <4>4, Zenon DEF IsStretch
    <3>. QED  BY <3>1, <3>2
  <2>9. Chunk(s) = SubSeq(s, 1, j) /\ Rest(s) = SubSeq(s, (b + i - 1) + 1, Len(s))
    BY <2>2, <2>5, <2>6, <2>7, <2>8, Zenon
  <2>10. j \in 0..b /\ i \in 1..(Len(s) - b + 1)
    BY <2>3, <2>4, <2>5, <2>6
  <2>11. \A k \in (j + 1)..(b + i - 1) : s[k] = Space
    <3>1. TAKE k \in (j + 1)..(b + i - 1)
    <3>2. CASE k <= b
      <4>1. k \in (j + 1)..Len(t) /\ k \in 1..b
        BY <2>1, <2>3, <2>10, <3>2
      <4>. HIDE DEF t
      <4>. QED  BY <2>3, <2>5, <4>1
    <3>3. CASE k > b
      <4>1. k - b \in 1..(i - 1) /\ k - b \in 1..(Len(s) - b) /\ b + (k - b) = k
        BY <1>1, <2>1, <2>10, <3>3
      <4>. HIDE DEF u
      <4>2. u[k - b] = s[b + (k - b)]
        BY <2>4, <4>1
      <4>. QED  BY <2>6, <4>1, <4>2
    <3>. QED  BY <2>1, <2>10, <3>2, <3>3
  <2>. HIDE DEF t, u
  <2>12. j <= b + i - 1 /\ j <= MaxLen /\ j \in 0..Len(s) /\ b + i - 1 \in 0..Len(s)
    BY <1>1, <1>3, <2>1, <2>10
  <2>13. IsCut(s, j, b + i - 1)
    BY <2>9, <2>11, <2>12, Zenon DEF IsCut
  <2>. QED  BY <2>12, <2>13
<1>. QED  BY <1>1, <1>2, <1>3

\* What lies between two places of a text is a text.
LEMMA Stretch ==
  ASSUME NEW Char, NEW s \in Seq(Char), NEW a \in 0..Len(s), NEW b \in a..Len(s)
  PROVE  /\ SubSeq(s, a + 1, b) \in Seq(Char) /\ Len(SubSeq(s, a + 1, b)) = b - a
         /\ \A i \in 1..(b - a) : SubSeq(s, a + 1, b)[i] = s[a + i]
<1>1. Len(s) \in Nat /\ \A i \in (a + 1)..b : s[i] \in Char
  OBVIOUS
<1>. DEFINE t == SubSeq(s, a + 1, b)
<1>2. /\ t \in Seq(Char) /\ Len(t) = IF a + 1 <= b THEN b - (a + 1) + 1 ELSE 0
      /\ \A i \in 1..(b - (a + 1) + 1) : t[i] = s[(a + 1) + i - 1]
  BY <1>1, SubSeqProperties
<1>. HIDE DEF t
<1>3. t \in Seq(Char) /\ Len(t) = b - a /\ \A i \in 1..(b - a) : t[i] = s[a + i]
  BY <1>1, <1>2
<1>. QED  BY <1>3 DEF t

\* What a cut leaves out are spaces.
LEMMA CutKeepsInks ==
  ASSUME NEW Char, NEW s \in Seq(Char), NEW j \in 0..Len(s), NEW m \in 0..Len(s),
         IsCut(s, j, m)
  PROVE  Inks(s) = Inks(Chunk(s)) \o Inks(Rest(s))
<1>. DEFINE a == SubSeq(s, 1, j)
            b == SubSeq(s, j + 1, m)
            c == SubSeq(s, m + 1, Len(s))
            d == SubSeq(s, j + 1, Len(s))
<1>1. Len(s) \in Nat /\ j <= m /\ 0 \in 0..Len(s) /\ 0 + 1 = 1
  BY DEF IsCut
<1>2. a \in Seq(Char)
  <2>1. j \in 0..Len(s) /\ SubSeq(s, 0 + 1, j) \in Seq(Char)
    BY <1>1, Stretch
  <2>. QED  BY <1>1, <2>1, Zenon
<1>3. b \in Seq(Char) /\ c \in Seq(Char) /\ d \in Seq(Char)
  BY <1>1, Stretch
<1>4. \A i \in 1..Len(b) : b[i] = Space
  <2>1. Len(b) = m - j /\ \A i \in 1..(m - j) : b[i] = s[j + i]
    BY <1>1, Stretch
  <2>. HIDE DEF b
  <2>2. \A i \in 1..(m - j) : j + i \in (j + 1)..m
    BY <1>1
  <2>. QED  BY <2>1, <2>2 DEF IsCut
<1>5. a \o d = s
  <2>1. 1 \in 1..(Len(s) + 1) /\ j \in (1 - 1)..Len(s) /\ Len(s) \in j..Len(s)
    BY <1>1
  <2>2. IsStretch(a, s, 1, j) /\ IsStretch(d, s, j + 1, Len(s))
    BY Zenon DEF IsStretch
  <2>. HIDE DEF a, d
  <2>3. IsStretch(a \o d, s, 1, Len(s))
    BY <2>1, <2>2, StretchAndNext
  <2>. QED  BY <2>3, SubSeqFull, Zenon DEF IsStretch
<1>6. b \o c = d
  <2>1. j + 1 \in 1..(Len(s) + 1) /\ m \in (j + 1 - 1)..Len(s) /\ Len(s) \in m..Len(s)
    BY <1>1
  <2>2. IsStretch(b, s, j + 1, m) /\ IsStretch(c, s, m + 1, Len(s))
    BY Zenon DEF IsStretch
  <2>. HIDE DEF b, c
  <2>3. IsStretch(b \o c, s, j + 1, Len(s))
    BY <2>1, <2>2, StretchAndNext
  <2>. QED  BY <2>3, Zenon DEF IsStretch
<1>7. Chunk(s) = a /\ Rest(s) = c
  BY Zenon DEF IsCut
<1>. HIDE DEF a, b, c, d
<1>8. Inks(s) = Inks(a) \o Inks(d)
  BY <1>2, <1>3, <1>5, InksConcat, Zenon
<1>9. Inks(d) = Inks(b) \o Inks(c)
  BY <1>3, <1>6, InksConcat, Zenon
<1>10. Inks(b) = <<>>
  BY <1>3, <1>4, InksOfSpaces
<1>11. Inks(c) \in Seq(Char)
  BY <1>3, InksRuns
<1>12. Inks(d) = Inks(c)
  BY <1>9, <1>10, <1>11, ConcatEmptySeq, Zenon
<1>. QED  BY <1>7, <1>8, <1>12, Zenon

\* What is posted and what is left of a text that is being sent.
IsPosted(text, posted) ==
  \A i \in DOMAIN posted : LET chunk == posted[i] IN
    /\ Len(chunk) \in 1..MaxLen
    /\ \E n \in 0..Len(text) - Len(chunk) : SubSeq(text, n + 1, n + Len(chunk)) = chunk

IsLeft(text, rest) == \E n \in 0..Len(text) : IsStretch(rest, text, n + 1, Len(text))

IsAll(text, rest, posted) == Inks(FlattenSeq(posted)) \o Inks(rest) = Inks(text)

\* One chunk more.
LEMMA PostedStretch ==
  ASSUME NEW Char, NEW text \in Seq(Char), NEW rest \in Seq(Char), rest # <<>>,
         IsLeft(text, rest), ~Blank(Chunk(rest))
  PROVE  /\ Chunk(rest) \in Seq(Char) /\ Rest(rest) \in Seq(Char)
         /\ Len(Chunk(rest)) \in 1..MaxLen
         /\ \E n \in 0..Len(text) - Len(Chunk(rest)) :
              SubSeq(text, n + 1, n + Len(Chunk(rest))) = Chunk(rest)
         /\ IsLeft(text, Rest(rest))
         /\ Inks(rest) = Inks(Chunk(rest)) \o Inks(Rest(rest))
<1>1. PICK n \in 0..Len(text) : IsStretch(rest, text, n + 1, Len(text))
  BY DEF IsLeft
<1>2. Len(text) \in Nat /\ Len(rest) \in Nat \ {0} /\ MaxLen \in Nat
  BY DiscordConstants
<1>3. Len(rest) = Len(text) - n
  <2>1. Len(SubSeq(text, n + 1, Len(text))) = Len(text) - n
    BY <1>2, Stretch
  <2>. QED  BY <1>1, <2>1, Zenon DEF IsStretch
<1>4. PICK j \in 0..Len(rest), m \in 0..Len(rest) : IsCut(rest, j, m)
  BY CutInTwo
<1>. DEFINE c == Chunk(rest)
            r == Rest(rest)
<1>5. j <= m /\ j <= MaxLen /\ c = SubSeq(rest, 0 + 1, j) /\ r = SubSeq(rest, m + 1, Len(rest))
  BY <1>4 DEF IsCut
<1>6. c \in Seq(Char) /\ Len(c) = j
  <2>1. 0 \in 0..Len(rest) /\ j \in 0..Len(rest) /\ j - 0 = j
    BY <1>2
  <2>2. SubSeq(rest, 0 + 1, j) \in Seq(Char) /\ Len(SubSeq(rest, 0 + 1, j)) = j - 0
    BY <2>1, Stretch
  <2>. QED  BY <1>5, <2>1, <2>2, Zenon
<1>7. r \in Seq(Char)
  <2>1. SubSeq(rest, m + 1, Len(rest)) \in Seq(Char)
    BY <1>2, Stretch
  <2>. QED  BY <1>5, <2>1, Zenon
<1>8. Inks(rest) = Inks(c) \o Inks(r)
  BY <1>4, CutKeepsInks
<1>9. j \in 1..MaxLen
  <2>1. c # <<>>
    <3>1. DOMAIN <<>> = {}
      OBVIOUS
    <3>. QED  BY <3>1, Zenon DEF Blank
  <2>2. j # 0
    BY <1>6, <2>1, EmptySeq
  <2>. QED  BY <1>2, <1>5, <2>2
<1>10. /\ n + 1 \in 1..Len(text) /\ Len(text) \in 1..Len(text)
       /\ 1 \in 1..(Len(text) - (n + 1) + 1) /\ j \in 1..(Len(text) - (n + 1) + 1)
  BY <1>2, <1>3, <1>9
<1>. HIDE DEF c, r
<1>11. SubSeq(text, n + 1, n + j) = c
  <2>1. n + 1 = (n + 1) + 1 - 1 /\ n + j = (n + 1) + j - 1
    BY <1>9
  <2>2. IsStretch(SubSeq(rest, 1, j), text, n + 1, n + j)
    BY <1>1, <1>10, <2>1, StretchOfStretch
  <2>3. c = SubSeq(rest, 1, j)
    BY <1>5
  <2>. QED  BY <2>2, <2>3, Zenon DEF IsStretch
<1>12. n \in 0..Len(text) - j
  BY <1>2, <1>3
<1>13. IsLeft(text, r)
  <2>1. n + m \in 0..Len(text)
    BY <1>2, <1>3
  <2>2. IsStretch(r, text, (n + m) + 1, Len(text))
    <3>1. CASE m = Len(rest)
      <4>1. Len(rest) < m + 1 /\ Len(text) < (n + m) + 1
        BY <1>2, <1>3, <3>1
      <4>2. SubSeq(rest, m + 1, Len(rest)) = <<>> /\ SubSeq(text, (n + m) + 1, Len(text)) = <<>>
        BY <1>2, <4>1, SubSeqEmpty
      <4>. QED  BY <1>5, <4>2, Zenon DEF IsStretch
    <3>2. CASE m # Len(rest)
      <4>1. /\ m + 1 \in 1..(Len(text) - (n + 1) + 1) /\ Len(rest) \in 1..(Len(text) - (n + 1) + 1)
            /\ (n + m) + 1 = (n + 1) + (m + 1) - 1 /\ Len(text) = (n + 1) + Len(rest) - 1
        BY <1>2, <1>3, <3>2
      <4>2. IsStretch(SubSeq(rest, m + 1, Len(rest)), text, (n + m) + 1, Len(text))
        BY <1>1, <1>10, <4>1, StretchOfStretch
      <4>. QED  BY <1>5, <4>2, Zenon
    <3>. QED  BY <3>1, <3>2
  <2>. QED  BY <2>1, <2>2 DEF IsLeft
<1>14. \E k \in 0..Len(text) - j : SubSeq(text, k + 1, k + j) = c
  BY <1>11, <1>12, Zenon
<1>15. \E k \in 0..Len(text) - Len(c) : SubSeq(text, k + 1, k + Len(c)) = c
  BY <1>6, <1>14, Zenon
<1>16. Len(c) \in 1..MaxLen
  BY <1>6, <1>9
<1>. QED  BY <1>6, <1>7, <1>8, <1>13, <1>15, <1>16, Zenon DEF c, r

\* A text without its spaces is a text.
LEMMA InksType ==
  ASSUME NEW Char, NEW s \in Seq(Char)
  PROVE  Inks(s) \in Seq(Char)
<1>1. PICK f : /\ Inks(s) = f[Len(s)]
               /\ \A n \in 0..Len(s) : f[n] \in Seq(Char)
  BY InksRuns
<1>2. Len(s) \in 0..Len(s)
  OBVIOUS
<1>. QED  BY <1>1, <1>2

\* With one chunk more posted, it is all there still.
LEMMA PostedOneMore ==
  ASSUME NEW Char, NEW text \in Seq(Char), NEW rest \in Seq(Char), NEW posted \in Seq(Seq(Char)),
         rest # <<>>, ~Blank(Chunk(rest)),
         IsLeft(text, rest), IsPosted(text, posted), IsAll(text, rest, posted)
  PROVE  /\ Append(posted, Chunk(rest)) \in Seq(Seq(Char)) /\ Rest(rest) \in Seq(Char)
         /\ IsLeft(text, Rest(rest))
         /\ IsPosted(text, Append(posted, Chunk(rest)))
         /\ IsAll(text, Rest(rest), Append(posted, Chunk(rest)))
<1>. DEFINE c == Chunk(rest)
            r == Rest(rest)
            p == Append(posted, c)
            IsOf(chunk) == /\ Len(chunk) \in 1..MaxLen
                           /\ \E n \in 0..Len(text) - Len(chunk) :
                                SubSeq(text, n + 1, n + Len(chunk)) = chunk
<1>1. /\ c \in Seq(Char) /\ r \in Seq(Char) /\ IsOf(c) /\ IsLeft(text, r)
      /\ Inks(rest) = Inks(c) \o Inks(r)
  BY PostedStretch
<1>. HIDE DEF c, r
<1>2. /\ p \in Seq(Seq(Char)) /\ Len(p) = Len(posted) + 1 /\ p[Len(posted) + 1] = c
      /\ \A i \in 1..Len(posted) : p[i] = posted[i]
  BY <1>1, AppendProperties
<1>3. Len(posted) \in Nat /\ DOMAIN posted = 1..Len(posted) /\ DOMAIN p = 1..Len(p)
  BY <1>2, LenProperties
<1>4. FlattenSeq(posted) \in Seq(Char) /\ FlattenSeq(p) = FlattenSeq(posted) \o c
  BY <1>1, FlattenAppend
<1>. HIDE DEF p
<1>5. \A i \in DOMAIN posted : IsOf(posted[i])
  BY Zenon DEF IsPosted
<1>. HIDE DEF IsOf
<1>6. \A i \in DOMAIN p : IsOf(p[i])
  <2>1. TAKE i \in DOMAIN p
  <2>2. CASE i = Len(posted) + 1
    BY <1>1, <1>2, <2>2
  <2>3. CASE i # Len(posted) + 1
    <3>1. i \in 1..Len(posted)
      BY <1>2, <1>3, <2>3
    <3>. QED  BY <1>2, <1>3, <1>5, <3>1
  <2>. QED  BY <2>2, <2>3
<1>7. IsPosted(text, p)
  BY <1>6, Zenon DEF IsPosted, IsOf
<1>8. IsAll(text, r, p)
  <2>. DEFINE a == Inks(FlattenSeq(posted))
              b == Inks(c)
              d == Inks(r)
  <2>1. a \in Seq(Char) /\ b \in Seq(Char) /\ d \in Seq(Char)
    BY <1>1, <1>4, InksType
  <2>2. Inks(FlattenSeq(p)) = a \o b
    BY <1>1, <1>4, InksConcat, Zenon
  <2>3. a \o (b \o d) = Inks(text)
    BY <1>1, Zenon DEF IsAll
  <2>. HIDE DEF a, b, d
  <2>4. (a \o b) \o d = a \o (b \o d)
    BY <2>1, ConcatAssociative
  <2>. QED  BY <2>2, <2>3, <2>4, Zenon DEF IsAll, d
<1>. QED  BY <1>1, <1>2, <1>7, <1>8, Zenon DEF c, r, p

\* A text before any of it is posted.
LEMMA PostedNothing ==
  ASSUME NEW Char, NEW text \in Seq(Char)
  PROVE  /\ <<>> \in Seq(Seq(Char)) /\ IsLeft(text, text)
         /\ IsPosted(text, <<>>) /\ IsAll(text, text, <<>>)
<1>1. IsLeft(text, text)
  <2>1. 0 \in 0..Len(text) /\ 0 + 1 = 1
    OBVIOUS
  <2>2. IsStretch(text, text, 0 + 1, Len(text))
    BY <2>1, SubSeqFull, Zenon DEF IsStretch
  <2>. QED  BY <2>1, <2>2 DEF IsLeft
<1>2. IsPosted(text, <<>>)
  BY DEF IsPosted
<1>3. IsAll(text, text, <<>>)
  <2>1. FlattenSeq(<<>>) = <<>>
    BY DEF FlattenSeq
  <2>. DEFINE e == <<>>
  <2>2. e \in Seq(Char) /\ \A i \in 1..Len(e) : e[i] = Space
    OBVIOUS
  <2>. HIDE DEF e
  <2>3. Inks(e) = <<>>
    BY <2>2, InksOfSpaces
  <2>4. Inks(text) \in Seq(Char)
    BY InksType
  <2>. QED  BY <2>1, <2>3, <2>4, ConcatEmptySeq, Zenon DEF IsAll, e
<1>. QED  BY <1>1, <1>2, <1>3

\* What a Send under way has posted and what it has left.
Sending ==
  sending # None =>
    /\ sending \in [to : {o.to : o \in Outgoing}, text : Seq(STRING), rest : Seq(STRING),
                    posted : Seq(Seq(STRING))]
    /\ IsLeft(sending.text, sending.rest)
    /\ IsPosted(sending.text, sending.posted)
    /\ IsAll(sending.text, sending.rest, sending.posted)

\* Every step keeps that: Post by the lemmas above, any other has no part in it.
LEMMA SendingStep == Sending /\ [Next]_vars => Sending'
<1>. SUFFICES ASSUME Sending, [Next]_vars PROVE Sending'
  OBVIOUS
<1>1. ASSUME sending' = sending PROVE Sending'
  BY <1>1, Zenon DEF Sending
<1>2. ASSUME sending' = None PROVE Sending'
  BY <1>2, Zenon DEF Sending
<1>3. ASSUME NEW o \in Outgoing, Send(o) PROVE Sending'
  <2>. DEFINE text == o.text
  <2>1. text \in Seq(STRING)
    BY DiscordConstants
  <2>2. sending' = [to |-> o.to, text |-> text, rest |-> text, posted |-> <<>>]
    BY <1>3 DEF Send
  <2>. HIDE DEF text
  <2>3. /\ <<>> \in Seq(Seq(STRING)) /\ IsLeft(text, text)
        /\ IsPosted(text, <<>>) /\ IsAll(text, text, <<>>)
    BY <2>1, PostedNothing, Zenon
  <2>4. /\ sending'.to = o.to /\ sending'.text = text /\ sending'.rest = text
        /\ sending'.posted = <<>>
    BY <2>2
  <2>5. sending' \in [to : {q.to : q \in Outgoing}, text : Seq(STRING), rest : Seq(STRING),
                      posted : Seq(Seq(STRING))]
    BY <2>1, <2>2, <2>3
  <2>. QED  BY <2>3, <2>4, <2>5, Zenon DEF Sending
<1>4. ASSUME Post PROVE Sending'
  <2>. DEFINE text == sending.text
              rest == sending.rest
              posted == sending.posted
              r == Rest(rest)
              p == Append(posted, Chunk(rest))
  <2>1. /\ sending \in [to : {o.to : o \in Outgoing}, text : Seq(STRING), rest : Seq(STRING),
                        posted : Seq(Seq(STRING))]
        /\ IsLeft(text, rest) /\ IsPosted(text, posted) /\ IsAll(text, rest, posted)
        /\ rest # <<>> /\ ~Blank(Chunk(rest))
        /\ sending' = [sending EXCEPT !.rest = r, !.posted = p]
    BY <1>4, Zenon DEF Sending, Post
  <2>2. text \in Seq(STRING) /\ rest \in Seq(STRING) /\ posted \in Seq(Seq(STRING))
    BY <2>1
  <2>3. /\ p \in Seq(Seq(STRING)) /\ r \in Seq(STRING) /\ IsLeft(text, r)
        /\ IsPosted(text, p) /\ IsAll(text, r, p)
    BY <2>1, <2>2, PostedOneMore, Zenon
  <2>. HIDE DEF r, p
  <2>4. sending'.text = text /\ sending'.rest = r /\ sending'.posted = p
    BY <2>1
  <2>5. sending' \in [to : {o.to : o \in Outgoing}, text : Seq(STRING), rest : Seq(STRING),
                      posted : Seq(Seq(STRING))]
    BY <2>1, <2>3
  <2>. QED  BY <2>3, <2>4, <2>5, Zenon DEF Sending
<1>5. \/ sending' = sending \/ sending' = None \/ Post
      \/ \E o \in Outgoing : Send(o)
  BY Zenon DEF Next, Step, Look, Shape, ThreadMember, Keep, Drop, Emit, SameBot, Arrive,
        PostFails, Forget, Moved, Tick, vars
<1>. QED  BY <1>1, <1>2, <1>3, <1>4, <1>5, Zenon

\* splitMessage and Send: what is posted and what is left are always the whole
\* text but spaces, in its order, however long the texts are and wherever they
\* are cut, and each chunk is one that Discord takes.
THEOREM TextIsPosted == Spec => []AllIsPosted
<1>1. Init => Sending
  BY DEF Init, Sending
<1>2. Sending => AllIsPosted
  BY Zenon DEF Sending, AllIsPosted, IsPosted, IsAll
<1>. QED  BY <1>1, <1>2, SendingStep, PTL DEF Spec
===============================================================================
