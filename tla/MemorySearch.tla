----------------------------- MODULE MemorySearch -----------------------------
(***************************************************************************)
(* memory_grep: what a search finds in the tree of MemoryFiles.  The files *)
(* whose name matches come first, then the lines that grep finds, of the   *)
(* shared files and then of the user's own, up to one limit for all of     *)
(* them; tobee's own files are left out unless the user asks for history.  *)
(*                                                                         *)
(* grep itself is outside: it goes through a directory in the order its    *)
(* entries are listed, and prints the lines that match with those around   *)
(* them.  What matches is given; the pattern's dialects are left out.      *)
(***************************************************************************)
EXTENDS MemoryFiles

CONSTANTS
  Place(_), \* of a path in a walk of the directories
  NameHas,  \* segments that contain the phrase, as normalizeName has both
  LineHas,  \* lines that the pattern matches
  MaxRows,  \* grepMaxLimit
  Query     \* searches: [dir, history, around, limit]

ASSUME SearchConstants ==
  /\ MaxRows \in Nat \ {0}
  /\ \A q \in Query : q.limit \in Nat \ {0} /\ q.history \in BOOLEAN /\ q.around \in Nat

First(n, s) == IF Len(s) <= n THEN s ELSE SubSeq(s, 1, n)

\* The k-th number of a set, and the elements of a sequence at its numbers.
Nth(I, k)    == CHOOSE i \in I : Cardinality({j \in I : j <= i}) = k
Chosen(s, I) == [k \in 1..Cardinality(I) |-> s[Nth(I, k)]]

-----------------------------------------------------------------------------
(* sandboxfs *)

\* A walk of the directories gives the files in their place.
Walk(S) ==
  LET places == {Place(p) : p \in S}
      at(n)  == CHOOSE p \in S : Place(p) = n
  IN  [k \in 1..Cardinality(S) |-> at(Nth(places, k))]

\* The name is the whole path, from the root of the tree.
NameMatches(p) == Range(p) \cap NameHas # {}
MatchNames(dir, limit) == First(limit, Walk({p \in Below(dir, DOMAIN files) : NameMatches(p)}))

Hits(p) == {i \in DOMAIN files[p] : files[p][i] \in LineHas}

\* What grep prints of a file: at most so many matches, and the lines around.
Printed(dir, p, around, limit) ==
  LET hits  == {i \in Hits(p) : Cardinality({j \in Hits(p) : j <= i}) <= limit}
      shown == {i \in DOMAIN files[p] : \E h \in hits : i - h \in (0 - around)..around}
      row(i) == [path |-> Rel(dir, p), line |-> i, context |-> i \notin hits]
  IN  [k \in 1..Cardinality(shown) |-> row(Nth(shown, k))]

\* Mutant: the parser stops one row early.
ParsedShort(rows, limit) == First(limit - 1, rows)

\* parseGrep: any row counts, also one around a match.
Parsed(rows, limit) == First(limit, rows)

\* Grep, from within the directory that is searched, so that the paths of its
\* rows start there.  No limit left means the greatest.
Grep(dir, around, wanted) ==
  LET limit == IF wanted \in 1..MaxRows THEN wanted ELSE MaxRows
      found == Walk({p \in Below(dir, DOMAIN files) : Hits(p) # {}}) IN
  IF dir \notin dirs THEN <<>>
  ELSE Parsed(FlattenSeq([k \in DOMAIN found |-> Printed(dir, found[k], around, limit)]), limit)

-----------------------------------------------------------------------------
(* memory_grep *)

\* scopeRel: a path that does not start at the root is taken for one that
\* starts at the scope.  The code takes characters off it, not segments.
ScopeRel(root, p) == IF IsPrefix(root, p) THEN Rel(root, p) ELSE p

Matched(rows) == Cardinality({k \in DOMAIN rows : ~rows[k].context})

IsTobees(root, r) == LET p == ScopeRel(root, r.path) IN p # <<>> /\ p[1] = Reserved

\* renderGrep: the archive last, if at all, and matches up to the limit.
Rendered(root, found, history, limit) ==
  LET tobees == {k \in DOMAIN found : IsTobees(root, found[k])}
      rows   == Chosen(found, DOMAIN found \ tobees) \o IF history THEN Chosen(found, tobees) ELSE <<>>
      used(k) == Cardinality({j \in 1..(k - 1) : ~rows[j].context})
  IN  [k \in {j \in DOMAIN rows : used(j) < limit} |-> [rows[k] EXCEPT !.path = root \o ScopeRel(root, @)]]

\* What a search has by now, and what is left of its limit, goes on to a root.
Into(ans, root, q) ==
  LET dir   == Join(root, q.dir)
      named == MatchNames(dir, ans.left)
      names == Chosen(named, {k \in DOMAIN named : q.history \/ ~ReservedRel(root, named[k])})
      left  == ans.left - Len(names)
      rows  == Rendered(root, Grep(dir, q.around, left), q.history, left)
  IN  IF ans.left <= 0 THEN ans
      ELSE [names |-> ans.names \o names, rows |-> ans.rows \o rows, left |-> left - Matched(rows)]

\* The shared files first.
Answer(h, q) ==
  Into(Into([names |-> <<>>, rows |-> <<>>, left |-> q.limit], Shared, q), h, q)

-----------------------------------------------------------------------------
(* Properties *)

Homes    == {IF linked THEN LinkedHome[a] ELSE LegacyHome[a] : a \in Account}
Searches == {s \in Homes \X Query : s[2].dir = <<>>}

\* The files a search is to find: the user's own and the shared ones ...
Mine(h) == Below(h, DOMAIN files) \cup Below(Shared, DOMAIN files)

\* ... those of tobee's own that it comes across ...
InTheWay(h) == {p \in Mine(h) : InReserved(p) /\ (NameMatches(p) \/ Hits(p) # {})}

\* ... and those that scopeRel takes for others, for their path within the scope
\* begins like the scope's own.
Mistaken(h) ==
  {p \in Mine(h) : \E root \in {h, Shared} : IsPrefix(root, p) /\ IsPrefix(root, Rel(root, p))}

\* A search shows lines of the user's files and the shared ones where they are,
\* no more than were asked for, and of tobee's own area none but for history;
\* and when it shows less than was asked for there is no more to be found
\* (grep.go:58, server.go:331), unless lines around a match, or files of tobee's
\* own that it does not show, had a share of the limit, or the limit was
\* greater than grep's.
SearchAnswers ==
  phase = "up" =>
  \A s \in Searches : LET h == s[1] q == s[2] ans == Answer(h, q) IN
    /\ Len(ans.names) + Matched(ans.rows) + ans.left = q.limit /\ ans.left >= 0
    /\ Mistaken(h) = {} =>
         \A r \in Range(ans.rows) :
           /\ r.path \in Mine(h) /\ r.line \in DOMAIN files[r.path]
           /\ r.context \/ r.line \in Hits(r.path)
           /\ InReserved(r.path) => q.history
    /\ /\ ans.left > 0 /\ q.limit <= MaxRows /\ q.around = 0
       /\ q.history \/ InTheWay(h) = {}
       /\ Mistaken(h) = {} /\ ~IsFile(h) /\ ~IsFile(Shared)
       => \A p \in Mine(h) :
            /\ NameMatches(p) => p \in Range(ans.names)
            /\ \A i \in Hits(p) : \E r \in Range(ans.rows) : r.path = p /\ r.line = i

\* "The archive goes last so it can never crowd out a real file" (server.go:419):
\* a search that shows a line of tobee's area shows all that the user's files have.
NeverCrowdedOut ==
  phase = "up" =>
  \A s \in Searches : LET h == s[1] shown == Range(Answer(h, s[2]).rows) IN
    (\E r \in shown : ReservedRel(h, r.path)) =>
      \A p \in Below(h, DOMAIN files) : ~ReservedRel(h, p) =>
        \A i \in Hits(p) : \E r \in shown : r.path = p /\ r.line = i

\* "the one access rule grep doesn't know about (the conversation archive is
\* opt-in)" (server.go:330), and rows that can be read, also in a directory.
DirIsHonoured ==
  phase = "up" =>
  \A h \in Home \cap dirs, q \in Query : \A r \in Range(Answer(h, q).rows) :
    /\ IsFile(r.path) /\ r.line \in DOMAIN files[r.path]
    /\ r.context \/ r.line \in Hits(r.path)
=============================================================================
