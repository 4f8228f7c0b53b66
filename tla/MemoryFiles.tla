----------------------------- MODULE MemoryFiles -----------------------------
(***************************************************************************)
(* servers/memory and the sandboxfs tree below it: what everybody's memory *)
(* goes through.  Tools write, append to and delete a person's files; code *)
(* archives closed sessions and appends lessons in the reserved area of    *)
(* the same tree; and every start of the process moves folders (linked     *)
(* accounts) and files (those from before the reserved area) about.        *)
(*                                                                         *)
(* A path is a sequence of segments, a file's contents are a sequence of   *)
(* lines, of whatever length LineSize gives them.  The worker and the      *)
(* sweeper of the session store each do the file operations of one call    *)
(* in one go; between two calls anything may happen, and between two of    *)
(* the renames of a start the process may die.                             *)
(***************************************************************************)
EXTENDS Integers, Sequences, FiniteSets, SequencesExt

CONSTANTS
  Account,      \* connector accounts
  LegacyHome,   \* an account's own folder, users/<connector>/<account>
  LinkedHome,   \* where the directory puts it: users/<person>, or its own
  InOrder,      \* the accounts, sorted
  Relative,     \* paths tools are called with, as split at slashes
  Note,         \* what tools write
  DirStem,      \* a segment without case and separators ...
  FileStem,     \* ... and, for the last one, without its extension
  Session,      \* sessions that close
  OwnerOf,      \* their accounts
  Minute,       \* the names of when they began, bound: how many there are
  Lessons,      \* what is learned from them
  KeyOf,        \* a line as the comparison folds it; 0 for a blank one
  LineSize,     \* bytes of a line
  LessonsMax,   \* lessonsMaxBytes
  MaxFileSize,
  OldFiles,     \* bound: the trees a run may start from
  MaxCalls,     \* bound: tool calls
  MaxStops,     \* bound: ends of the process
  None

Users    == "users"
Shared   == <<"shared">>
Reserved == ".tobee"
Talks    == "conversations"
LessonsFile == "lessons.md"
lessonsMaxPerRun == 3

Empty == ""   \* the segment between two slashes
Up    == ".."

Path == Seq(STRING)
Line == DOMAIN LineSize
Home == {LegacyHome[a] : a \in Account} \cup {LinkedHome[a] : a \in Account}

ASSUME MemoryConstants ==
  /\ \A h \in Home : h \in Path /\ h # <<>> /\ Up \notin Range(h)
  /\ None \notin Home
  /\ InOrder \in Seq(Account) /\ OwnerOf \in [Session -> Account]
  /\ Relative \subseteq Path /\ \A s \in Session : Minute[s] \in Path
  /\ Note \cup Session \subseteq Line /\ \A s \in Session : Lessons[s] \in Seq(Line)
  /\ LessonsMax \in Nat /\ MaxFileSize \in Nat
  /\ MaxCalls \in Nat /\ MaxStops \in Nat

\* The provers do not know it of a literal.
ASSUME NamesAreStrings == Range(Shared) \cup {Reserved, Talks, LessonsFile} \subseteq STRING

\* Nobody's folder is inside another's: no person is named like a connector.
ASSUME HomesApart ==
  \A g, h \in Home \cup {Shared} : IsPrefix(g, h) => g = h

\* A file holds lines and no other files.
ASSUME OldTrees ==
  \A t \in OldFiles : IsFiniteSet(DOMAIN t) /\ \A p \in DOMAIN t :
    p \in Path /\ t[p] \in Seq(Line) /\ \A q \in DOMAIN t : IsPrefix(p, q) => p = q

VARIABLES
  files,    \* path -> contents
  dirs,     \* the directories
  phase,    \* "down", "linking", "migrating" or "up"
  linked,   \* the directory of this process links the accounts
  todo,     \* folders still to link, or files still to move
  homeOf,   \* the home of a session's person, from its first exchange on
  open,     \* sessions on the session store's disk
  learning, \* ... whose transcript this process has written
  calls, stops

tree == <<files, dirs>>
boot == <<phase, linked, todo>>
closing == <<homeOf, open, learning>>
vars == <<tree, boot, closing, calls, stops>>

-----------------------------------------------------------------------------
(* Paths *)

\* path.Clean: "." and empty segments go, ".." takes the one before it, and
\* what would leave a rooted path is dropped.
Cleaned(done, seg, rooted) ==
  CASE seg \in {Empty, "."} -> done
    [] seg = Up -> IF done # <<>> /\ Last(done) # Up THEN Front(done)
                   ELSE IF rooted THEN done ELSE Append(done, seg)
    [] OTHER -> Append(done, seg)

Rooted(raw) == raw # <<>> /\ raw[1] = Empty
Clean(raw)  == FoldLeft(LAMBDA done, seg : Cleaned(done, seg, Rooted(raw)), <<>>, raw)

\* Mutant: the path is not cleaned before it is looked at.
JoinUncleaned(root, raw) ==
  IF raw # <<>> /\ raw[1] = Up THEN None ELSE Clean(root \o raw)

\* joinScope, None for a path that leaves the scope.  The sandbox cleans what
\* comes out of it, which has been done here.
Join(root, raw) ==
  LET c == Clean(raw) IN
  IF c # <<>> /\ c[1] = Up THEN None ELSE root \o c

\* A path relative to the scope.
Rel(root, p) == SubSeq(p, Len(root) + 1, Len(p))

\* checkWritable: the area is the first segment within the scope ...
ReservedRel(root, p) == Rel(root, p) # <<>> /\ Rel(root, p)[1] = Reserved

\* ... and checkDeletable, any segment of the path.
UnderReserved(p) == Reserved \in Range(p)

Archive(h)     == h \o <<Reserved, Talks>>
LessonsPath(h) == h \o <<Reserved, LessonsFile>>

-----------------------------------------------------------------------------
(* sandboxfs *)

Above(p) == {SubSeq(p, 1, n) : n \in 0..(Len(p) - 1)}
Below(p, S) == {q \in S : IsPrefix(p, q)}

Size(lines) == FoldLeft(LAMBDA n, l : n + LineSize[l], 0, lines)

IsFile(p) == p \in DOMAIN files

\* Write and Append: the directories are created, and neither the path nor
\* anything above it may be what it must not be.
CanWrite(p, lines) ==
  /\ Size(lines) <= MaxFileSize
  /\ p \notin dirs /\ Above(p) \cap DOMAIN files = {}

Put(p, lines) ==
  /\ files' = [q \in DOMAIN files \cup {p} |-> IF q = p THEN lines ELSE files[q]]
  /\ dirs' = dirs \cup Above(p)

\* Rename, of a file or of a directory with all that is in it.
CanRename(p, q) ==
  /\ IsFile(p) \/ p \in dirs
  /\ ~IsFile(q) /\ q \notin dirs /\ Above(q) \cap DOMAIN files = {}

Rename(p, q) ==
  LET moved(r) == IF IsPrefix(p, r) THEN q \o SubSeq(r, Len(p) + 1, Len(r)) ELSE r
      was(r)   == CHOOSE s \in DOMAIN files : moved(s) = r
  IN  /\ files' = [r \in {moved(s) : s \in DOMAIN files} |-> files[was(r)]]
      /\ dirs' = {moved(d) : d \in dirs} \cup Above(q)

-----------------------------------------------------------------------------
(* The start of the process: LinkIdentities, then MigrateReserved *)

People == {LinkedHome[a] : a \in {b \in Account : LinkedHome[b] # LegacyHome[b]}}

\* Where in that order a person's memory may still be, and the first of these.
OldHomes(h) ==
  {i \in DOMAIN InOrder : LegacyHome[InOrder[i]] \in dirs /\ LinkedHome[InOrder[i]] = h}

OldHome(h) == LegacyHome[InOrder[CHOOSE i \in OldHomes(h) : \A j \in OldHomes(h) : i <= j]]

\* The accounts may have been linked while the process was down.
Start ==
  /\ phase = "down"
  /\ phase' = "linking"
  /\ linked' \in {linked, TRUE}
  /\ todo' = IF linked' THEN People ELSE {}
  /\ UNCHANGED <<tree, closing, calls, stops>>

\* A person who has no folder yet is given the first of the old ones.
LinkPerson(h) ==
  /\ phase = "linking" /\ h \in todo
  /\ todo' = todo \ {h}
  /\ IF h \notin dirs /\ OldHomes(h) # {} /\ CanRename(OldHome(h), h)
     THEN Rename(OldHome(h), h)
     ELSE UNCHANGED tree
  /\ UNCHANGED <<phase, linked, closing, calls, stops>>

\* legacyAt: a file of the code's own, right below a root of that depth.
LegacyAt(p, depth) ==
  /\ Len(p) > depth /\ p[1] = Users
  /\ \/ Len(p) = depth + 1 /\ p[depth + 1] = LessonsFile
     \/ Len(p) > depth + 1 /\ p[depth + 1] = Talks

\* Old files that are not yet in the reserved area, and the roots they say are
\* a person's.
Unprotected == {p \in DOMAIN files : ~UnderReserved(p)}
Shallow == {SubSeq(p, 1, 2) : p \in {q \in Unprotected : LegacyAt(q, 2)}}

\* How deep the root of an old file is; 0 for a file that is none.
RootDepth(p) ==
  IF LegacyAt(p, 2) THEN 2
  ELSE IF LegacyAt(p, 3) /\ SubSeq(p, 1, 2) \notin Shallow THEN 3
  ELSE 0

Protected(p, depth) ==
  SubSeq(p, 1, depth) \o <<Reserved>> \o SubSeq(p, depth + 1, Len(p))

\* What MigrateReserved wants to move, from the one listing it makes.
Moves ==
  {[from |-> p, to |-> Protected(p, RootDepth(p))] :
     p \in {q \in Unprotected : RootDepth(q) # 0}}

ListOld ==
  /\ phase = "linking" /\ todo = {}
  /\ phase' = "migrating" /\ todo' = Moves
  /\ UNCHANGED <<tree, linked, closing, calls, stops>>

\* Mutant: what is there already is not looked for.
MoveOver(m) ==
  /\ phase = "migrating" /\ m \in todo
  /\ todo' = todo \ {m}
  /\ files' = [p \in (DOMAIN files \ {m.from}) \cup {m.to} |->
                 IF p = m.to THEN files[m.from] ELSE files[p]]
  /\ dirs' = dirs \cup Above(m.to)
  /\ UNCHANGED <<phase, linked, closing, calls, stops>>

\* No two files have one target, so that their order makes no difference.
MoveOld(m) ==
  /\ phase = "migrating" /\ m \in todo
  /\ todo' = todo \ {m}
  /\ IF CanRename(m.from, m.to) THEN Rename(m.from, m.to) ELSE UNCHANGED tree
  /\ UNCHANGED <<phase, linked, closing, calls, stops>>

Started ==
  /\ phase = "migrating" /\ todo = {}
  /\ phase' = "up"
  /\ UNCHANGED <<tree, linked, todo, closing, calls, stops>>

-----------------------------------------------------------------------------
(* The tools *)

\* A task from before the accounts were linked keeps the person it was given.
HomesOf(a) == {LegacyHome[a]} \cup {h \in {LinkedHome[a]} : linked}

Call == phase = "up" /\ calls < MaxCalls /\ calls' = calls + 1 /\ UNCHANGED <<boot, closing, stops>>

\* normalizeStem, segment by segment.
Stem(p) == [i \in DOMAIN p |-> IF i = Len(p) THEN FileStem[p[i]] ELSE DirStem[p[i]]]

\* clashingPath: another file of the scope is plainly the same thing, or a
\* directory on the way to it.  A path that begins with two slashes matches none.
Clash(root, raw, p) ==
  /\ ~IsFile(p) /\ (raw = <<>> \/ raw[1] # Empty)
  /\ LET rel == Rel(root, p) IN
     \E n \in 1..Len(rel), f \in Below(root, DOMAIN files) :
       LET target == SubSeq(rel, 1, n) IN
       /\ Stem(target) # <<Empty>>
       /\ Rel(root, f) # target /\ Stem(Rel(root, f)) = Stem(target)

MayWrite(root, raw) ==
  Join(root, raw) # None /\ ~ReservedRel(root, Join(root, raw))

\* memory_write
MemoryWrite(root, raw, n) ==
  LET p == Join(root, raw) IN
  /\ MayWrite(root, raw) /\ ~Clash(root, raw, p) /\ CanWrite(p, <<n>>)
  /\ Put(p, <<n>>)

\* memory_append, which does not look for clashes.
MemoryAppend(root, raw, n) ==
  LET p     == Join(root, raw)
      lines == IF IsFile(p) THEN Append(files[p], n) ELSE <<n>> IN
  /\ MayWrite(root, raw) /\ CanWrite(p, lines)
  /\ Put(p, lines)

\* memory_delete: of the files it is given, one or two here, those that may be
\* deleted.
MemoryDelete(named) ==
  LET there == {p \in {Join(t[1], t[2]) : t \in named} \ {None} : IsFile(p) /\ ~UnderReserved(p)} IN
  \E gone \in SUBSET there :
    /\ Cardinality(gone) \in {1, 2}
    /\ files' = [p \in DOMAIN files \ gone |-> files[p]]
    /\ UNCHANGED dirs

\* A tool is called for a user, with that user's files and the shared ones.
ToolCall(a) ==
  /\ Call
  /\ \E h \in HomesOf(a) :
       \/ \E root \in {h, Shared}, raw \in Relative, n \in Note :
            MemoryWrite(root, raw, n) \/ MemoryAppend(root, raw, n)
       \/ MemoryDelete({h, Shared} \X (Relative \ {<<>>}))

-----------------------------------------------------------------------------
(* Closing a session *)

Begin(s) ==
  /\ phase = "up" /\ homeOf[s] = None
  /\ \E h \in HomesOf(OwnerOf[s]) : homeOf' = [homeOf EXCEPT ![s] = h]
  /\ open' = open \cup {s}
  /\ UNCHANGED <<tree, boot, learning, calls, stops>>

\* The name of the session's minute, or the first numbered one that is free.
Named(s, i) == Archive(homeOf[s]) \o <<Minute[s][i]>>
Free(s)     == {i \in DOMAIN Minute[s] : ~IsFile(Named(s, i))}
FreeName(s) == Named(s, CHOOSE i \in Free(s) : \A j \in Free(s) : i <= j)

\* ArchiveTranscript; when it fails the session stays open.
ArchiveTranscript(s) ==
  /\ phase = "up" /\ s \in open \ learning
  /\ Free(s) # {} /\ CanWrite(FreeName(s), <<s>>)
  /\ Put(FreeName(s), <<s>>)
  /\ learning' = learning \cup {s}
  /\ UNCHANGED <<boot, homeOf, open, calls, stops>>

\* Mutant: a lesson is compared with those of this session only.
LearnedAnew(old, new) ==
  LET step(lines, l) ==
        IF KeyOf[l] = 0 \/ \E i \in (Len(old) + 1)..Len(lines) : KeyOf[lines[i]] = KeyOf[l]
        THEN lines ELSE Append(lines, l)
  IN  FoldLeft(step, old, new)

\* At most lessonsMaxPerRun of them, and none that says what is there already.
LearnedToo(old, lines, l) ==
  IF \/ Len(lines) - Len(old) >= lessonsMaxPerRun
     \/ KeyOf[l] = 0
     \/ \E i \in DOMAIN lines : KeyOf[lines[i]] = KeyOf[l]
  THEN lines ELSE Append(lines, l)

Learned(old, new) == FoldLeft(LAMBDA lines, l : LearnedToo(old, lines, l), old, new)

\* trimToBytes: the newest lines that fit, and the newest in any case.
Trimmed(lines) ==
  LET fits == {k \in DOMAIN lines : \/ Size(SubSeq(lines, k, Len(lines))) <= LessonsMax
                                    \/ k = Len(lines)}
  IN  IF lines = <<>> THEN lines
      ELSE SubSeq(lines, CHOOSE k \in fits : \A j \in fits : k <= j, Len(lines))

\* splitLines: a file's lines but for the blank ones.  One that is missing is
\* empty.
Unblank(kept, l) == IF KeyOf[l] = 0 THEN kept ELSE Append(kept, l)
LinesOf(p) == IF IsFile(p) THEN FoldLeft(Unblank, <<>>, files[p]) ELSE <<>>

\* AppendLessons, which reads the file again.
AppendLessons(h, new) ==
  LET p     == LessonsPath(h)
      lines == Trimmed(Learned(LinesOf(p), new))
  IN  IF new # <<>> /\ CanWrite(p, lines) THEN Put(p, lines) ELSE UNCHANGED tree

\* The model is asked what the session teaches, and may have nothing to say;
\* then the session is over.
Reflect(s) ==
  /\ phase = "up" /\ s \in learning
  /\ AppendLessons(homeOf[s], Lessons[s]) \/ UNCHANGED tree
  /\ learning' = learning \ {s} /\ open' = open \ {s}
  /\ UNCHANGED <<boot, homeOf, calls, stops>>

-----------------------------------------------------------------------------
(* The end of the process *)

Die ==
  /\ phase # "down" /\ stops < MaxStops
  /\ stops' = stops + 1
  /\ phase' = "down" /\ todo' = {} /\ learning' = {}
  /\ UNCHANGED <<linked, homeOf, open, calls>>

Stop == Die /\ UNCHANGED tree

WritableRoots == (UNION {HomesOf(a) : a \in Account}) \cup {Shared}

\* os.WriteFile empties the file first.
StopInWrite ==
  /\ phase = "up" /\ Die
  /\ \E p \in {FreeName(s) : s \in {t \in open \ learning : Free(t) # {}}}
              \cup {LessonsPath(homeOf[s]) : s \in learning}
              \cup {Join(t[1], t[2]) : t \in {u \in WritableRoots \X Relative : MayWrite(u[1], u[2])}} :
       CanWrite(p, <<>>) /\ Put(p, <<>>)

Init ==
  /\ files \in OldFiles /\ dirs = UNION {Above(p) : p \in DOMAIN files}
  /\ phase = "down" /\ linked = FALSE /\ todo = {}
  /\ homeOf = [s \in Session |-> None] /\ open = {} /\ learning = {}
  /\ calls = 0 /\ stops = 0

Next ==
  \/ Start \/ \E h \in People : LinkPerson(h)
  \/ ListOld \/ (\E m \in todo : MoveOld(m)) \/ Started
  \/ \E a \in Account : ToolCall(a)
  \/ \E s \in Session : Begin(s) \/ ArchiveTranscript(s) \/ Reflect(s)
  \/ Stop \/ StopInWrite

Spec == Init /\ [][Next]_vars
-----------------------------------------------------------------------------
(* Properties *)

\* The shape of the state: a finite tree, in which nothing is both file and directory.
TypeOK ==
  /\ IsFiniteSet(DOMAIN files)
  /\ \A p \in DOMAIN files : p \in Path /\ files[p] \in Seq(Line) /\ Above(p) \subseteq dirs
  /\ dirs \cap DOMAIN files = {} /\ \A d \in dirs : d \in Path /\ Above(d) \subseteq dirs
  /\ phase \in {"down", "linking", "migrating", "up"} /\ linked \in BOOLEAN
  /\ homeOf \in [Session -> Home \cup {None}]
  /\ learning \subseteq open /\ open \subseteq Session /\ \A s \in open : homeOf[s] # None
  /\ calls \in 0..MaxCalls /\ stops \in 0..MaxStops

\* Paths whose contents a step took away or changed.
Disturbed == {p \in DOMAIN files : ~(p \in DOMAIN files' /\ files'[p] = files[p])}
New       == {p \in DOMAIN files' : ~(p \in DOMAIN files /\ files'[p] = files[p])}

\* The reserved area of a person, or of all.
InReserved(p) == \E root \in Home \cup {Shared} : IsPrefix(root, p) /\ ReservedRel(root, p)

\* A start moves files and loses none, whenever the one before it ended: each
\* that is gone from its path is at one where there was none.  Otherwise
\* nothing in a reserved area changes but the lessons ("the conversation
\* record and what it learned are not the model's to edit", server.go:24), so
\* that a transcript, once written, stays what it is.
NothingLost ==
  [][\A p \in Disturbed :
       IF phase = "up" THEN ~InReserved(p) \/ \E h \in Home : p = LessonsPath(h)
       ELSE \E q \in New : q \notin DOMAIN files /\ files'[q] = files[p]]_vars

\* A tool called for a user reaches that user's files and the shared ones, and
\* of those none that are tobee's own, whatever path it is given.
CallsStayHome ==
  [][calls' # calls =>
       \E a \in Account : \A p \in Disturbed \cup New :
         \E root \in HomesOf(a) \cup {Shared} :
           IsPrefix(root, p) /\ ~ReservedRel(root, p) /\ Up \notin Range(p)]_vars

Count(k, lines) == Cardinality({i \in DOMAIN lines : KeyOf[lines[i]] = k})

\* "a bounded block, not a growing one" (server.go:30) that repeats itself no
\* more than it did ("already learned", server.go:686), keeps the newest of its
\* lines, in their order, and takes none after them that it had.
LessonsBounded ==
  [][\A s \in learning : LET p == LessonsPath(homeOf[s]) IN
       (phase' = "up" /\ s \notin learning' /\ p \in New) =>
         LET old == LinesOf(p)
             new == files'[p] IN
         /\ Size(new) <= LessonsMax \/ Len(new) = 1
         /\ \A i \in DOMAIN new : Count(KeyOf[new[i]], new) <= 1
                                  \/ Count(KeyOf[new[i]], new) <= Count(KeyOf[new[i]], old)
         /\ \E n \in 0..Len(old) :
              /\ IsPrefix(SubSeq(old, Len(old) - n + 1, Len(old)), new)
              /\ \A i \in (n + 1)..Len(new) : Count(KeyOf[new[i]], old) = 0]_vars

\* "Idempotent, and it only touches paths directly under a person root so a
\* user's own conversations folder is left alone" (server.go:893): when a start
\* has moved the old files there is nothing left that another would move.
MigrationIdempotent ==
  phase = "migrating" /\ todo = {} => \A m \in Moves : IsFile(m.to)

\* "the user ends up with two shopping lists and no error" (server.go:286): no
\* two files of a scope that tools write are plainly the same thing.
NoSecondHome ==
  \A root \in Home \cup {Shared} : \A f, g \in Below(root, DOMAIN files) :
    ~ReservedRel(root, f) /\ f # g => Stem(Rel(root, f)) # Stem(Rel(root, g))

\* "users/<person>" is the folder everything of a person's goes into.
HomesAreDirectories == \A h \in Home \cup {Shared} : ~IsFile(h)

\* "so linking accounts never strands what was already remembered"
\* (server.go:593): once they are linked nothing is in the account's own folder.
NothingStranded ==
  phase = "up" /\ linked => \A a \in Account : LinkedHome[a] # LegacyHome[a] =>
    Below(LegacyHome[a], DOMAIN files) = {}
=============================================================================
