------------------------------ MODULE DiscordBot ------------------------------
(***************************************************************************)
(* connectors/discord: which messages the bot takes for itself, and how it *)
(* posts.  discordgo calls onMessageCreate in a goroutine of its own for   *)
(* each message.  What decides about a message in a thread, whether the    *)
(* bot is a member, is looked up at Discord and cached; Send, on the       *)
(* agent's goroutine, makes the bot a member and drops the cached answer.  *)
(*                                                                         *)
(* Discord, outside, is modelled by what the bot asks of it: it delivers   *)
(* messages while the session is open, knows the threads and their         *)
(* members, and refuses a post that is blank.  A call may fail.            *)
(***************************************************************************)
EXTENDS Integers, Sequences, FiniteSets, SequencesExt

CONSTANTS
  Channel,    \* channels that messages come from
  Thread,     \* those that are threads ...
  Private,    \* ... and those that are direct messages
  Home,       \* DISCORD_CHANNEL_ID, or None
  Under,      \* the threads that hang off Home
  Message,    \* messages, see below
  Handler,    \* bound: messages handled at a time
  Outgoing,   \* what the agent sends: [to, text], texts are sequences
  MaxLen,     \* maxMessageLen
  TTL,        \* channelInfoTTL
  MaxTime,    \* bound: latest time
  MaxMoves,   \* bound: times that others add or remove the bot
  MaxFaults,  \* bound: calls that fail
  None

\* What a message says decides by which rule it is for the bot: "direct" is a
\* mention, a reply or the name, "role" a ping of a role the bot holds, "talk"
\* anything else and "blank" has no text at all, but a picture.
Messages == [channel : Channel, bot : BOOLEAN, says : {"direct", "role", "talk", "blank"}]

\* channelInfo, with the time it is from; "crossed" is history, see Forget.
Info == [thread : BOOLEAN, botIn : BOOLEAN, at : 0..MaxTime, crossed : BOOLEAN]

\* A goroutine in onMessageCreate, see Began.
Handling ==
  [message : Message, step : {"look", "member", "keep", "drop", "admitted"},
   asks : {"scope", "thread"}, info : Info \cup {None}, came : 0..MaxTime, known : BOOLEAN]

ASSUME DiscordConstants ==
  /\ Thread \cup Private \subseteq Channel /\ Thread \cap Private = {}
  /\ Under \subseteq Thread /\ None \notin Channel \cup Info \cup Handling
  /\ Message \subseteq Messages /\ \A o \in Outgoing : o.text \in Seq(STRING)
  /\ MaxLen \in Nat \ {0} /\ TTL \in Nat \ {0}
  /\ MaxTime \in Nat /\ MaxMoves \in Nat /\ MaxFaults \in Nat

VARIABLES
  chans,    \* Bot.chans
  rolesHad, \* Bot.roles has the guild
  handling, \* what each goroutine in onMessageCreate is at
  sending,  \* the Send under way
  member,   \* the threads the bot is a member of
  now, moves, faults,
  \* history
  changed,  \* when the bot last became a member or ceased to be one
  failed,   \* when a lookup of the channel failed last
  joined    \* threads that a Send has returned from, and nobody removed the bot

bot     == <<chans, rolesHad>>
discord == <<member, now, moves>>
past    == <<changed, failed, joined>>
vars    == <<bot, handling, sending, discord, faults, past>>

LongAgo == 0 - TTL
NoFault == UNCHANGED faults
Fault   == faults < MaxFaults /\ faults' = faults + 1

-----------------------------------------------------------------------------
(* onMessageCreate *)

At(h, step) == handling[h] # None /\ handling[h].step = step
ChannelOf(h) == handling[h].message.channel
End(h) == handling' = [handling EXCEPT ![h] = None]
SameBot == UNCHANGED <<bot, sending, discord, past>>

\* What a goroutine asks channelInfo for and what it has so far; for the
\* history, when its message came, whether a Send had made the bot a member by
\* then, and whether one dropped the entry while it had its answer.
Began(m, asks) ==
  [message |-> m, step |-> "look", asks |-> asks, info |-> None, came |-> now,
   known |-> m.channel \in joined]

\* The message is for the bot by a rule it answers by itself.
Addressed(m) == m.channel \in Private \/ m.says = "direct"

\* inScope, which looks up a channel that is neither private nor configured.
Scope(m) == IF Home = None \/ m.channel \in Private \cup {Home} THEN "rules" ELSE "look"

\* selfRoles: what discordgo has or was cached, or else what Discord says,
\* which is kept.  Roles that cannot be read are none.
OwnRole(known) ==
  \/ known /\ rolesHad' \in {rolesHad, TRUE} /\ NoFault
  \/ ~known /\ ~rolesHad /\ UNCHANGED rolesHad /\ Fault

\* isAddressed: the rules a message answers by itself, then those that take a
\* lookup, of which the thread's is the last.
Rules(h, before) ==
  LET m == before.message
      to(step) == handling' = [handling EXCEPT ![h] =
                    [before EXCEPT !.step = step, !.asks = "thread", !.info = None]] IN
  IF Addressed(m) THEN to("admitted") /\ UNCHANGED rolesHad /\ NoFault
  ELSE IF m.says = "role" THEN \E known \in BOOLEAN :
    OwnRole(known) /\ to(IF known THEN "admitted" ELSE "look")
  ELSE to("look") /\ UNCHANGED rolesHad /\ NoFault

\* Bots, itself among them, are not listened to.
Arrive(h, m) ==
  /\ handling[h] = None /\ ~m.bot
  /\ IF Scope(m) = "rules" THEN Rules(h, Began(m, "thread"))
     ELSE /\ handling' = [handling EXCEPT ![h] = Began(m, "scope")]
          /\ UNCHANGED rolesHad /\ NoFault
  /\ UNCHANGED <<chans, sending, discord, past>>

-----------------------------------------------------------------------------
(* channelInfo *)

Fresh(c) == chans[c] # None /\ now - chans[c].at < TTL

\* The caller has its answer.
Answered(h, info) ==
  IF handling[h].asks = "scope" /\ info.thread /\ ChannelOf(h) \in Under
  THEN Rules(h, handling[h])
  ELSE /\ handling' = [handling EXCEPT
            ![h].step = IF handling[h].asks = "thread" /\ info.thread /\ info.botIn
                        THEN "admitted" ELSE "drop",
            ![h].info = info]
       /\ UNCHANGED rolesHad /\ NoFault

\* A cached answer is taken.
Look(h) ==
  /\ At(h, "look") /\ Fresh(ChannelOf(h))
  /\ Answered(h, chans[ChannelOf(h)])
  /\ UNCHANGED <<chans, sending, discord, past>>

\* Without one, and without the lock, Discord is asked.  What a channel is does
\* not change, so that this is a step: one that cannot be read is taken for a
\* plain one.
Shape(h) ==
  /\ At(h, "look") /\ ~Fresh(ChannelOf(h))
  /\ \E known \in BOOLEAN :
       LET thread == known /\ ChannelOf(h) \in Thread IN
       /\ handling' = [handling EXCEPT
            ![h].step = IF thread THEN "member" ELSE "keep",
            ![h].info = [thread |-> thread, botIn |-> FALSE, at |-> now, crossed |-> FALSE]]
       /\ IF known THEN NoFault ELSE Fault
       /\ failed' = IF known THEN failed ELSE [failed EXCEPT ![ChannelOf(h)] = now]
  /\ UNCHANGED <<bot, sending, discord, changed, joined>>

\* "A 404 here is the normal 'not a member' answer", and so is any other error.
ThreadMember(h) ==
  /\ At(h, "member")
  /\ \E known \in BOOLEAN :
       /\ handling' = [handling EXCEPT ![h].step = "keep",
                                       ![h].info.botIn = known /\ ChannelOf(h) \in member]
       /\ IF known THEN NoFault ELSE Fault
       /\ failed' = IF known THEN failed ELSE [failed EXCEPT ![ChannelOf(h)] = now]
  /\ UNCHANGED <<bot, sending, discord, changed, joined>>

\* Mutant: the age of an entry counts from when it is cached.
KeptNow(h) == [handling[h].info EXCEPT !.at = now]

Kept(h) == handling[h].info

\* cacheChannel, whatever happened to the entry meanwhile.
Keep(h) ==
  /\ At(h, "keep")
  /\ chans' = [chans EXCEPT ![ChannelOf(h)] = Kept(h)]
  /\ Answered(h, Kept(h))
  /\ UNCHANGED <<sending, discord, past>>

\* Ambient, or out of scope.
Drop(h) == At(h, "drop") /\ End(h) /\ SameBot /\ NoFault

\* A message without text is dropped after all; any other is emitted, which is
\* what Ingest has of this connector.
Emit(h) == At(h, "admitted") /\ End(h) /\ SameBot /\ NoFault

-----------------------------------------------------------------------------
(* splitMessage *)

\* What trimming takes off.
Space == " "

\* Where a text may be cut, the best first; a fence is one character here.
Candidates ==
  << <<"fence", "\n">>, <<"\n", "\n">>, <<".", Space>>, <<"!", Space>>, <<"?", Space>>, <<"\n">> >>

\* Mutant: the last place, wherever it is.
LastIndexAnywhere(s, sep) ==
  LET at == {i \in 0..Len(s) - Len(sep) : SubSeq(s, i + 1, i + Len(sep)) = sep} IN
  IF at = {} THEN -1 ELSE CHOOSE i \in at : \A j \in at : j <= i

\* lastIndex, within the limit.
LastIndex(s, sep) ==
  LET at == {i \in 0..MaxLen - Len(sep) : SubSeq(s, i + 1, i + Len(sep)) = sep} IN
  IF at = {} THEN -1 ELSE CHOOSE i \in at : \A j \in at : j <= i

\* bestSplit: after the first candidate that is there and not at the start.
BestSplit(s) ==
  LET good == {k \in DOMAIN Candidates : LastIndex(s, Candidates[k]) > 0} IN
  IF good = {} THEN MaxLen
  ELSE LET k == CHOOSE k \in good : \A j \in good : k <= j IN
       LastIndex(s, Candidates[k]) + Len(Candidates[k])

Inked(s) == {i \in DOMAIN s : s[i] # Space}
TrimRight(s) == IF Inked(s) = {} THEN <<>> ELSE SubSeq(s, 1, CHOOSE i \in Inked(s) : \A j \in Inked(s) : j <= i)
TrimLeft(s) == IF Inked(s) = {} THEN <<>> ELSE SubSeq(s, CHOOSE i \in Inked(s) : \A j \in Inked(s) : i <= j, Len(s))

\* The next chunk, and what is left when it is cut off.
Chunk(s) == IF Len(s) <= MaxLen THEN s ELSE TrimRight(SubSeq(s, 1, BestSplit(s)))
Rest(s)  == IF Len(s) <= MaxLen THEN <<>> ELSE TrimLeft(SubSeq(s, BestSplit(s) + 1, Len(s)))

Blank(s) == \A i \in DOMAIN s : s[i] \in {Space, "\n"}

-----------------------------------------------------------------------------
(* Send *)

\* The bot is in a thread, or out of it; a plain channel has no members.
Joins(c, in) ==
  /\ member' = IF in THEN member \cup ({c} \cap Thread) ELSE member \ {c}
  /\ changed' = IF member' = member THEN changed ELSE [changed EXCEPT ![c] = now]

Send(o) ==
  /\ sending = None
  /\ sending' = [to |-> o.to, text |-> o.text, rest |-> o.text, posted |-> <<>>]
  /\ UNCHANGED <<rolesHad, chans, handling, discord, past>> /\ NoFault

\* One chunk after the other.  Posting to a thread joins it.
Post ==
  /\ sending # None /\ sending.rest # <<>> /\ ~Blank(Chunk(sending.rest))
  /\ sending' = [sending EXCEPT !.rest = Rest(@), !.posted = Append(@, Chunk(sending.rest))]
  /\ Joins(sending.to, TRUE)
  /\ UNCHANGED <<rolesHad, chans, handling, now, moves, failed, joined>> /\ NoFault

\* An error ends it, whatever was posted by then.
PostFails ==
  /\ sending # None /\ sending.rest # <<>>
  /\ IF Blank(Chunk(sending.rest)) THEN NoFault ELSE Fault
  /\ sending' = None
  /\ UNCHANGED <<rolesHad, chans, handling, discord, past>>

\* Mutant: what was cached stays.
ForgottenNot(c) == chans

Forgotten(c) == [chans EXCEPT ![c] = None]

\* forgetChannel, when all is posted.  A lookup that has its answer by now is
\* not told.
Forget ==
  /\ sending # None /\ sending.rest = <<>>
  /\ chans' = Forgotten(sending.to)
  /\ joined' = joined \cup ({sending.to} \cap member)
  /\ handling' = [h \in Handler |->
       IF At(h, "keep") /\ ChannelOf(h) = sending.to
       THEN [handling[h] EXCEPT !.info.crossed = TRUE] ELSE handling[h]]
  /\ sending' = None
  /\ UNCHANGED <<rolesHad, discord, changed, failed>> /\ NoFault

-----------------------------------------------------------------------------
(* Discord *)

\* Somebody adds the bot to a thread, or removes it.
Moved(c) ==
  /\ moves < MaxMoves /\ moves' = moves + 1
  /\ Joins(c, c \notin member)
  /\ joined' = joined \ {c}
  /\ handling' = [h \in Handler |->
       IF handling[h] # None /\ ChannelOf(h) = c
       THEN [handling[h] EXCEPT !.known = FALSE] ELSE handling[h]]
  /\ UNCHANGED <<bot, sending, now, failed>> /\ NoFault

Tick ==
  /\ now < MaxTime /\ now' = now + 1
  /\ UNCHANGED <<bot, handling, sending, member, moves, faults, past>>

-----------------------------------------------------------------------------
Init ==
  /\ chans = [c \in Channel |-> None] /\ rolesHad = FALSE
  /\ handling = [h \in Handler |-> None] /\ sending = None
  /\ member = {} /\ now = 0 /\ moves = 0 /\ faults = 0
  /\ changed = [c \in Channel |-> LongAgo] /\ failed = [c \in Channel |-> LongAgo]
  /\ joined = {}

Step(h) ==
  Look(h) \/ Shape(h) \/ ThreadMember(h) \/ Keep(h) \/ Drop(h) \/ Emit(h)

Next ==
  \/ \E h \in Handler : Step(h) \/ \E m \in Message : Arrive(h, m)
  \/ \E o \in Outgoing : Send(o)
  \/ Post \/ PostFails \/ Forget
  \/ \E c \in Thread : Moved(c)
  \/ Tick

Spec == Init /\ [][Next]_vars

-----------------------------------------------------------------------------
(* Properties *)

\* The shape of the state.
TypeOK ==
  /\ chans \in [Channel -> Info \cup {None}] /\ rolesHad \in BOOLEAN
  /\ handling \in [Handler -> Handling \cup {None}]
  /\ sending = None \/ {"to", "text", "rest", "posted"} = DOMAIN sending
  /\ member \subseteq Thread /\ joined \subseteq Thread
  /\ now \in 0..MaxTime /\ moves \in 0..MaxMoves /\ faults \in 0..MaxFaults
  /\ changed \in [Channel -> LongAgo..MaxTime] /\ failed \in [Channel -> LongAgo..MaxTime]

InScope(c) == Home = None \/ c \in Private \cup Under \cup {Home}

\* When the bot was last a member, and last was none.
LastIn(c)  == IF c \in member THEN now ELSE changed[c]
LastOut(c) == IF c \in member THEN changed[c] ELSE now

Admitted(h) == At(h, "admitted")
Ambient(h)  == At(h, "drop") /\ handling[h].asks = "thread"
ByItself(h) == Addressed(handling[h].message)
\* Since the time to live before the message came.
Lately(h, time) == time > handling[h].came - TTL

\* "One REST pair per channel per TTL at worst" (bot.go:339): the price is an
\* answer that is out of date, but never by more than that.  No talk is taken
\* up in a thread the bot left longer ago than the time to live, or never was
\* in; none is dropped in one it has been in for so long, unless a lookup
\* failed; and what is in scope ("DMs are never scoped out", README.md:97) and
\* addresses the bot by itself is dropped after a failed lookup only.
NeverStaler ==
  \A h \in Handler :
    /\ Admitted(h) /\ ~ByItself(h) /\ handling[h].message.says # "role" =>
         Lately(h, LastIn(ChannelOf(h)))
    /\ Ambient(h) /\ ChannelOf(h) \in Thread =>
         Lately(h, LastOut(ChannelOf(h))) \/ Lately(h, failed[ChannelOf(h)])
    /\ At(h, "drop") /\ InScope(ChannelOf(h)) /\ ByItself(h) =>
         Lately(h, failed[ChannelOf(h)])

\* A thread the bot has posted in is heard from then on, until somebody removes
\* it: no message of it is dropped as ambient, unless a lookup failed, or had
\* its answer from before and was not yet cached when Send dropped the entry.
PostingJoins ==
  \A h \in Handler :
    Ambient(h) /\ handling[h].known =>
      handling[h].info.crossed \/ Lately(h, failed[ChannelOf(h)])

\* The same without the race: "Send invalidates the entry so a thread the bot
\* just posted in is recognised immediately" (bot.go:339).
JoinedIsHeard ==
  \A h \in Handler :
    Ambient(h) /\ handling[h].known => Lately(h, failed[ChannelOf(h)])

\* A text without its spaces.
Inks(s) == FoldLeft(LAMBDA kept, x : IF x = Space THEN kept ELSE Append(kept, x), <<>>, s)

\* What is posted are stretches of the text that Discord takes, and with what
\* is left they are, in their order, all of it but spaces: when Send ends
\* without an error nothing of the text is missing.
AllIsPosted ==
  sending # None =>
    /\ \A i \in DOMAIN sending.posted : LET chunk == sending.posted[i] IN
         /\ Len(chunk) \in 1..MaxLen
         /\ \E n \in 0..Len(sending.text) - Len(chunk) : SubSeq(sending.text, n + 1, n + Len(chunk)) = chunk
    /\ Inks(FlattenSeq(sending.posted)) \o Inks(sending.rest) = Inks(sending.text)
=============================================================================
