--------------------------- MODULE MemoryFilesProofs ---------------------------
(***************************************************************************)
(* Proofs about MemoryFiles and MemorySearch: the files stay a tree, a     *)
(* start loses none of them and nothing is taken from a reserved area, a   *)
(* tool called for a user reaches that user's files and the shared ones,   *)
(* the lessons stay a bounded block, and a search shows what it should and *)
(* misses nothing that it has room for.                                    *)
(*                                                                         *)
(* The lemmas about paths, about moving a tree and about folds are stated  *)
(* for sequences over any set.                                             *)
(***************************************************************************)
EXTENDS MemorySearch, SequenceTheorems, FiniteSetTheorems, WellFoundedInduction, TLAPS


-----------------------------------------------------------------------------
(* Paths: what is above and below what *)

\* A path is a prefix of another, segment by segment.
LEMMA PrefixIs ==
  ASSUME NEW Seg, NEW a \in Seq(Seg), NEW b \in Seq(Seg)
  PROVE  IsPrefix(a, b) <=> Len(a) <= Len(b) /\ \A i \in 1..Len(a) : a[i] = b[i]
<1>1. Len(a) \in Nat /\ Len(b) \in Nat
  OBVIOUS
<1>2. SubSeq(a, 1, Len(a)) = a
  BY SubSeqFull
<1>. SUFFICES ASSUME Len(a) <= Len(b)
              PROVE  a = SubSeq(b, 1, Len(a)) <=> \A i \in 1..Len(a) : a[i] = b[i]
  BY <1>2, Zenon DEF IsPrefix
<1>3. \A i \in 1..Len(a) : b[i] \in Seg
  <2>1. \A i \in 1..Len(a) : i \in 1..Len(b)
    BY <1>1
  <2>. QED  BY <2>1, ElementOfSeq
<1>. DEFINE c == SubSeq(b, 1, Len(a))
<1>4. c \in Seq(Seg) /\ Len(c) = Len(a) /\ \A i \in 1..Len(a) : c[i] = b[i]
  <2>1. /\ c \in Seq(Seg) /\ Len(c) = IF 1 <= Len(a) THEN Len(a) - 1 + 1 ELSE 0
        /\ \A i \in 1..(Len(a) - 1 + 1) : c[i] = b[1 + i - 1]
    BY <1>1, <1>3, SubSeqProperties
  <2>. HIDE DEF c
  <2>. QED  BY <1>1, <2>1
<1>. HIDE DEF c
<1>5. a = c <=> \A i \in 1..Len(a) : a[i] = c[i]
  BY <1>4, SeqEqual
<1>. QED  BY <1>4, <1>5 DEF c

\* The prefixes of a path are in a row.
LEMMA PrefixItself ==
  ASSUME NEW Seg, NEW a \in Seq(Seg)
  PROVE  IsPrefix(a, a)
  BY PrefixIs

\* Prefixes of prefixes are prefixes ...
LEMMA PrefixTransitive ==
  ASSUME NEW Seg, NEW a \in Seq(Seg), NEW b \in Seq(Seg), NEW c \in Seq(Seg),
         IsPrefix(a, b), IsPrefix(b, c)
  PROVE  IsPrefix(a, c)
<1>1. Len(a) <= Len(b) /\ \A i \in 1..Len(a) : a[i] = b[i]
  BY PrefixIs
<1>2. Len(b) <= Len(c) /\ \A i \in 1..Len(b) : b[i] = c[i]
  BY PrefixIs
<1>3. Len(a) \in Nat /\ Len(b) \in Nat /\ Len(c) \in Nat
  OBVIOUS
<1>4. Len(a) <= Len(c) /\ \A i \in 1..Len(a) : a[i] = c[i]
  BY <1>1, <1>2, <1>3
<1>. QED  BY <1>4, PrefixIs

\* ... two prefixes of a path, the shorter one of the longer ...
LEMMA PrefixesInRow ==
  ASSUME NEW Seg, NEW a \in Seq(Seg), NEW b \in Seq(Seg), NEW c \in Seq(Seg),
         IsPrefix(a, c), IsPrefix(b, c), Len(a) <= Len(b)
  PROVE  IsPrefix(a, b)
<1>1. Len(a) <= Len(c) /\ \A i \in 1..Len(a) : a[i] = c[i]
  BY PrefixIs
<1>2. Len(b) <= Len(c) /\ \A i \in 1..Len(b) : b[i] = c[i]
  BY PrefixIs
<1>3. Len(a) \in Nat /\ Len(b) \in Nat /\ Len(c) \in Nat
  OBVIOUS
<1>4. \A i \in 1..Len(a) : a[i] = b[i]
  BY <1>1, <1>2, <1>3
<1>. QED  BY <1>4, PrefixIs

\* ... one that is not shorter, the path itself ...
LEMMA PrefixSame ==
  ASSUME NEW Seg, NEW a \in Seq(Seg), NEW b \in Seq(Seg), IsPrefix(a, b), Len(b) <= Len(a)
  PROVE  a = b
<1>1. Len(a) <= Len(b) /\ \A i \in 1..Len(a) : a[i] = b[i]
  BY PrefixIs
<1>2. Len(a) \in Nat /\ Len(b) \in Nat
  OBVIOUS
<1>3. Len(a) = Len(b)
  BY <1>1, <1>2
<1>. QED  BY <1>1, <1>3, SeqEqual

\* ... and what something is appended to, of the whole.
LEMMA PrefixOfJoined ==
  ASSUME NEW Seg, NEW a \in Seq(Seg), NEW b \in Seq(Seg)
  PROVE  IsPrefix(a, a \o b)
<1>1. /\ a \o b \in Seq(Seg) /\ Len(a \o b) = Len(a) + Len(b)
      /\ \A i \in 1..(Len(a) + Len(b)) : (a \o b)[i] = IF i <= Len(a) THEN a[i] ELSE b[i - Len(a)]
  BY ConcatProperties
<1>2. Len(a) \in Nat /\ Len(b) \in Nat
  OBVIOUS
<1>. DEFINE c == a \o b
<1>. HIDE DEF c
<1>3. c \in Seq(Seg) /\ Len(a) <= Len(c) /\ \A i \in 1..Len(a) : a[i] = c[i]
  BY <1>1, <1>2 DEF c
<1>4. IsPrefix(a, c)
  BY <1>3, PrefixIs
<1>. QED  BY <1>4 DEF c

\* What is above a path are its prefixes but itself.
LEMMA AboveIs ==
  ASSUME NEW Seg, NEW a \in Seq(Seg), NEW b
  PROVE  b \in Above(a) <=> b \in Seq(Seg) /\ IsPrefix(b, a) /\ Len(b) < Len(a)
<1>1. Len(a) \in Nat
  OBVIOUS
<1>2. ASSUME NEW n \in 0..Len(a)
      PROVE  /\ SubSeq(a, 1, n) \in Seq(Seg) /\ Len(SubSeq(a, 1, n)) = n
             /\ \A i \in 1..n : SubSeq(a, 1, n)[i] = a[i]
  <2>1. \A i \in 1..n : a[i] \in Seg
    <3>1. \A i \in 1..n : i \in 1..Len(a)
      BY <1>1
    <3>. QED  BY <3>1, ElementOfSeq
  <2>. DEFINE c == SubSeq(a, 1, n)
  <2>2. /\ c \in Seq(Seg) /\ Len(c) = IF 1 <= n THEN n - 1 + 1 ELSE 0
        /\ \A i \in 1..(n - 1 + 1) : c[i] = a[1 + i - 1]
    BY <2>1, SubSeqProperties
  <2>. HIDE DEF c
  <2>3. c \in Seq(Seg) /\ Len(c) = n /\ \A i \in 1..n : c[i] = a[i]
    BY <2>2
  <2>. QED  BY <2>3 DEF c
<1>3. ASSUME b \in Above(a) PROVE b \in Seq(Seg) /\ IsPrefix(b, a) /\ Len(b) < Len(a)
  <2>1. PICK n \in 0..(Len(a) - 1) : b = SubSeq(a, 1, n)
    BY <1>3 DEF Above
  <2>2. n \in 0..Len(a) /\ n < Len(a)
    BY <1>1
  <2>3. b \in Seq(Seg) /\ Len(b) = n /\ \A i \in 1..n : b[i] = a[i]
    BY <1>2, <2>1, <2>2, Zenon
  <2>. QED  BY <1>1, <2>2, <2>3, PrefixIs
<1>4. ASSUME b \in Seq(Seg), IsPrefix(b, a), Len(b) < Len(a) PROVE b \in Above(a)
  <2>1. Len(b) \in 0..Len(a) /\ Len(b) \in 0..(Len(a) - 1)
    BY <1>1, <1>4
  <2>. DEFINE c == SubSeq(a, 1, Len(b))
  <2>2. c \in Seq(Seg) /\ Len(c) = Len(b) /\ \A i \in 1..Len(b) : c[i] = a[i]
    BY <1>2, <2>1
  <2>3. \A i \in 1..Len(b) : b[i] = a[i]
    BY <1>4, PrefixIs
  <2>. HIDE DEF c
  <2>4. b = c
    BY <1>4, <2>2, <2>3, SeqEqual
  <2>. QED  BY <2>1, <2>4, Zenon DEF Above, c
<1>. QED  BY <1>3, <1>4

\* What of a path is below another.
LEMMA RelIs ==
  ASSUME NEW Seg, NEW p \in Seq(Seg), NEW r \in Seq(Seg), IsPrefix(p, r)
  PROVE  /\ Rel(p, r) \in Seq(Seg) /\ Len(Rel(p, r)) = Len(r) - Len(p)
         /\ \A i \in 1..(Len(r) - Len(p)) : Rel(p, r)[i] = r[Len(p) + i]
<1>1. Len(p) <= Len(r) /\ Len(p) \in Nat /\ Len(r) \in Nat
  BY PrefixIs
<1>2. \A i \in (Len(p) + 1)..Len(r) : r[i] \in Seg
  <2>1. \A i \in (Len(p) + 1)..Len(r) : i \in 1..Len(r)
    BY <1>1
  <2>. QED  BY <2>1, ElementOfSeq
<1>. DEFINE c == SubSeq(r, Len(p) + 1, Len(r))
<1>3. /\ c \in Seq(Seg) /\ Len(c) = IF Len(p) + 1 <= Len(r) THEN Len(r) - (Len(p) + 1) + 1 ELSE 0
      /\ \A i \in 1..(Len(r) - (Len(p) + 1) + 1) : c[i] = r[(Len(p) + 1) + i - 1]
  BY <1>1, <1>2, SubSeqProperties
<1>. HIDE DEF c
<1>4. c \in Seq(Seg) /\ Len(c) = Len(r) - Len(p) /\ \A i \in 1..(Len(r) - Len(p)) : c[i] = r[Len(p) + i]
  BY <1>1, <1>3
<1>. QED  BY <1>4 DEF c, Rel

\* A beginning of a path.
LEMMA BeginningIs ==
  ASSUME NEW Seg, NEW r \in Seq(Seg), NEW n \in 0..Len(r)
  PROVE  SubSeq(r, 1, n) \in Seq(Seg) /\ Len(SubSeq(r, 1, n)) = n /\ IsPrefix(SubSeq(r, 1, n), r)
<1>1. CASE n = Len(r)
  <2>1. SubSeq(r, 1, n) = r
    BY <1>1, SubSeqFull
  <2>. QED  BY <1>1, <2>1, PrefixItself
<1>2. CASE n # Len(r)
  <2>1. n \in 0..(Len(r) - 1)
    BY <1>2
  <2>2. SubSeq(r, 1, n) \in Above(r)
    BY <2>1, Zenon DEF Above
  <2>3. SubSeq(r, 1, n) \in Seq(Seg) /\ IsPrefix(SubSeq(r, 1, n), r)
    BY <2>2, AboveIs
  <2>4. \A i \in 1..n : r[i] \in Seg
    <3>1. \A i \in 1..n : i \in 1..Len(r)
      BY <2>1
    <3>. QED  BY <3>1, ElementOfSeq
  <2>5. Len(SubSeq(r, 1, n)) = IF 1 <= n THEN n - 1 + 1 ELSE 0
    BY <2>4, SubSeqProperties
  <2>6. Len(SubSeq(r, 1, n)) = n
    BY <2>5
  <2>. QED  BY <2>3, <2>6
<1>. QED  BY <1>1, <1>2

\* Where a rename of p to q takes a path.
MovedTo(p, q, r) == IF IsPrefix(p, r) THEN q \o Rel(p, r) ELSE r

\* It takes what is below p along, segment by segment.
IsMoved(m, p, q, r) ==
  /\ IsPrefix(q, m) /\ Len(m) = Len(q) + (Len(r) - Len(p))
  /\ \A i \in 1..Len(q) : m[i] = q[i]
  /\ \A i \in 1..(Len(r) - Len(p)) : m[Len(q) + i] = r[Len(p) + i]

\* Where something below p goes when p is moved to q.
LEMMA MovedIs ==
  ASSUME NEW Seg, NEW p \in Seq(Seg), NEW q \in Seq(Seg), NEW r \in Seq(Seg), IsPrefix(p, r)
  PROVE  MovedTo(p, q, r) \in Seq(Seg) /\ IsMoved(MovedTo(p, q, r), p, q, r)
<1>. DEFINE b == Rel(p, r)
            m == q \o b
<1>1. /\ b \in Seq(Seg) /\ Len(b) = Len(r) - Len(p)
      /\ \A i \in 1..(Len(r) - Len(p)) : b[i] = r[Len(p) + i]
  BY RelIs
<1>2. Len(p) <= Len(r) /\ Len(p) \in Nat /\ Len(r) \in Nat /\ Len(q) \in Nat
  BY PrefixIs
<1>. HIDE DEF b
<1>3. /\ m \in Seq(Seg) /\ Len(m) = Len(q) + Len(b) /\ IsPrefix(q, m)
      /\ \A i \in 1..(Len(q) + Len(b)) : m[i] = IF i <= Len(q) THEN q[i] ELSE b[i - Len(q)]
  BY <1>1, ConcatProperties, PrefixOfJoined
<1>4. MovedTo(p, q, r) = m
  BY Zenon DEF MovedTo, b
<1>. HIDE DEF m
<1>5. \A i \in 1..Len(q) : m[i] = q[i]
  <2>1. \A i \in 1..Len(q) : i \in 1..(Len(q) + Len(b)) /\ i <= Len(q)
    BY <1>1, <1>2
  <2>. QED  BY <1>3, <2>1
<1>6. \A i \in 1..(Len(r) - Len(p)) : m[Len(q) + i] = r[Len(p) + i]
  <2>1. \A i \in 1..(Len(r) - Len(p)) : /\ Len(q) + i \in 1..(Len(q) + Len(b)) /\ ~(Len(q) + i <= Len(q))
                                        /\ (Len(q) + i) - Len(q) = i
    BY <1>1, <1>2
  <2>. QED  BY <1>1, <1>3, <2>1
<1>7. m \in Seq(Seg) /\ IsMoved(m, p, q, r)
  BY <1>1, <1>3, <1>5, <1>6 DEF IsMoved
<1>. QED  BY <1>4, <1>7

\* No two paths are taken to one.
LEMMA MovedApart ==
  ASSUME NEW Seg, NEW p \in Seq(Seg), NEW q \in Seq(Seg), NEW r \in Seq(Seg), NEW s \in Seq(Seg),
         IsPrefix(p, r), IsPrefix(p, s), MovedTo(p, q, r) = MovedTo(p, q, s)
  PROVE  r = s
<1>1. Len(p) <= Len(r) /\ \A i \in 1..Len(p) : p[i] = r[i]
  BY PrefixIs
<1>2. Len(p) <= Len(s) /\ \A i \in 1..Len(p) : p[i] = s[i]
  BY PrefixIs
<1>. DEFINE m == MovedTo(p, q, r)
<1>0. m \in Seq(Seg) /\ IsMoved(m, p, q, r)
  BY MovedIs
<1>9. IsMoved(m, p, q, s)
  BY MovedIs
<1>. HIDE DEF m
<1>3. /\ Len(m) = Len(q) + (Len(r) - Len(p))
      /\ \A i \in 1..(Len(r) - Len(p)) : m[Len(q) + i] = r[Len(p) + i]
  BY <1>0 DEF IsMoved
<1>4. /\ Len(m) = Len(q) + (Len(s) - Len(p))
      /\ \A i \in 1..(Len(s) - Len(p)) : m[Len(q) + i] = s[Len(p) + i]
  BY <1>9 DEF IsMoved
<1>5. Len(p) \in Nat /\ Len(q) \in Nat /\ Len(r) \in Nat /\ Len(s) \in Nat
  OBVIOUS
<1>6. Len(r) = Len(s)
  BY <1>3, <1>4, <1>5
<1>7. ASSUME NEW i \in 1..Len(r) PROVE r[i] = s[i]
  <2>1. CASE i <= Len(p)
    BY <1>1, <1>2, <1>5, <2>1
  <2>2. CASE i > Len(p)
    <3>1. i - Len(p) \in 1..(Len(r) - Len(p)) /\ Len(p) + (i - Len(p)) = i
      BY <1>5, <2>2
    <3>. QED  BY <1>3, <1>4, <1>6, <3>1
  <2>. QED  BY <1>5, <2>1, <2>2
<1>. QED  BY <1>6, <1>7, SeqEqual

\* What is above where a path was taken is above q, or was taken there from
\* above the path.
LEMMA MovedAbove ==
  ASSUME NEW Seg, NEW p \in Seq(Seg), NEW q \in Seq(Seg), NEW r \in Seq(Seg), IsPrefix(p, r),
         NEW d \in Above(MovedTo(p, q, r))
  PROVE  d \in Above(q) \/ \E e \in Above(r) : MovedTo(p, q, e) = d
<1>. DEFINE m == MovedTo(p, q, r)
<1>0. m \in Seq(Seg) /\ IsMoved(m, p, q, r)
  BY MovedIs
<1>9. d \in Above(m)
  OBVIOUS
<1>. HIDE DEF m
<1>1. /\ m \in Seq(Seg) /\ IsPrefix(q, m) /\ Len(m) = Len(q) + (Len(r) - Len(p))
      /\ \A i \in 1..Len(q) : m[i] = q[i]
      /\ \A i \in 1..(Len(r) - Len(p)) : m[Len(q) + i] = r[Len(p) + i]
  BY <1>0 DEF IsMoved
<1>2. d \in Seq(Seg) /\ IsPrefix(d, m) /\ Len(d) < Len(m)
  BY <1>0, <1>9, AboveIs
<1>3. Len(d) <= Len(m) /\ \A i \in 1..Len(d) : d[i] = m[i]
  BY <1>1, <1>2, PrefixIs
<1>4. /\ Len(p) \in Nat /\ Len(q) \in Nat /\ Len(r) \in Nat /\ Len(d) \in Nat
      /\ Len(p) <= Len(r) /\ \A i \in 1..Len(p) : p[i] = r[i]
  BY <1>2, PrefixIs
<1>5. CASE Len(d) < Len(q)
  <2>1. IsPrefix(d, q)
    BY <1>1, <1>2, <1>4, <1>5, PrefixesInRow
  <2>. QED  BY <1>2, <1>5, <2>1, AboveIs
<1>6. CASE Len(d) >= Len(q)
  <2>. DEFINE n == Len(p) + (Len(d) - Len(q))
              e == SubSeq(r, 1, n)
  <2>1. n \in 0..Len(r) /\ n < Len(r) /\ n >= Len(p)
    BY <1>1, <1>2, <1>4, <1>6
  <2>2. e \in Seq(Seg) /\ Len(e) = n /\ IsPrefix(e, r)
    BY <2>1, BeginningIs
  <2>. HIDE DEF e
  <2>3. e \in Above(r)
    BY <2>1, <2>2, AboveIs
  <2>4. IsPrefix(p, e)
    BY <2>1, <2>2, PrefixesInRow
  <2>. DEFINE f == MovedTo(p, q, e)
  <2>0. f \in Seq(Seg) /\ IsMoved(f, p, q, e)
    BY <2>2, <2>4, MovedIs
  <2>. HIDE DEF f
  <2>5. /\ f \in Seq(Seg) /\ Len(f) = Len(q) + (Len(e) - Len(p))
        /\ \A i \in 1..Len(q) : f[i] = q[i]
        /\ \A i \in 1..(Len(e) - Len(p)) : f[Len(q) + i] = e[Len(p) + i]
    BY <2>0 DEF IsMoved
  <2>6. Len(f) = Len(d)
    BY <1>4, <2>2, <2>5
  <2>7. \A i \in 1..Len(e) : e[i] = r[i]
    BY <2>2, PrefixIs
  <2>8. ASSUME NEW i \in 1..Len(d) PROVE f[i] = d[i]
    <3>1. CASE i <= Len(q)
      BY <1>1, <1>3, <1>4, <2>5, <3>1
    <3>2. CASE i > Len(q)
      <4>1. /\ i - Len(q) \in 1..(Len(e) - Len(p)) /\ i - Len(q) \in 1..(Len(r) - Len(p))
            /\ Len(q) + (i - Len(q)) = i /\ Len(p) + (i - Len(q)) \in 1..Len(e)
        BY <1>4, <2>1, <2>2, <3>2
      <4>2. f[i] = e[Len(p) + (i - Len(q))] /\ m[i] = r[Len(p) + (i - Len(q))]
        BY <1>1, <2>5, <4>1
      <4>. QED  BY <1>3, <2>7, <4>1, <4>2
    <3>. QED  BY <1>4, <3>1, <3>2
  <2>9. f = d
    BY <1>2, <2>5, <2>6, <2>8, SeqEqual
  <2>. QED  BY <2>3, <2>9 DEF f
<1>. QED  BY <1>4, <1>5, <1>6

\* Files and directories are a tree.
IsTree(F, D, P) ==
  /\ F \subseteq P /\ D \subseteq P /\ F \cap D = {}
  /\ \A r \in F \cup D : Above(r) \subseteq D

\* A rename to where there is nothing.
MayMove(F, D, q) == q \notin F \cup D /\ Above(q) \cap F = {}

\* ... takes no path to where another is.
LEMMA MovedAside ==
  ASSUME NEW Seg, NEW F, NEW D, IsTree(F, D, Seq(Seg)),
         NEW p \in Seq(Seg), NEW q \in Seq(Seg), MayMove(F, D, q),
         NEW r \in F \cup D, IsPrefix(p, r)
  PROVE  MovedTo(p, q, r) \notin F \cup D
<1>. DEFINE m == MovedTo(p, q, r)
<1>1. r \in Seq(Seg)
  BY DEF IsTree
<1>2. m \in Seq(Seg) /\ IsPrefix(q, m)
  BY <1>1, MovedIs DEF IsMoved
<1>. HIDE DEF m
<1>. SUFFICES ASSUME m \in F \cup D PROVE FALSE
  BY DEF m
<1>3. Above(m) \subseteq D
  BY Zenon DEF IsTree
<1>4. Len(q) \in Nat /\ Len(m) \in Nat
  BY <1>2
<1>5. CASE Len(q) < Len(m)
  <2>1. q \in Above(m)
    BY <1>2, <1>5, AboveIs
  <2>. QED  BY <1>3, <2>1, Zenon DEF MayMove
<1>6. CASE Len(m) <= Len(q)
  <2>1. q = m
    BY <1>2, <1>6, PrefixSame
  <2>. QED  BY <2>1, Zenon DEF MayMove
<1>. QED  BY <1>4, <1>5, <1>6

\* ... and no two paths to one.
LEMMA MovedOnce ==
  ASSUME NEW Seg, NEW F, NEW D, IsTree(F, D, Seq(Seg)),
         NEW p \in Seq(Seg), NEW q \in Seq(Seg), MayMove(F, D, q),
         NEW r \in F \cup D, NEW s \in F \cup D, MovedTo(p, q, r) = MovedTo(p, q, s)
  PROVE  r = s
<1>1. r \in Seq(Seg) /\ s \in Seq(Seg)
  BY DEF IsTree
<1>2. CASE IsPrefix(p, r) /\ IsPrefix(p, s)
  BY <1>1, <1>2, MovedApart
<1>3. CASE IsPrefix(p, r) /\ ~IsPrefix(p, s)
  <2>1. MovedTo(p, q, r) \notin F \cup D
    BY <1>3, MovedAside
  <2>. QED  BY <1>3, <2>1, Zenon DEF MovedTo
<1>4. CASE ~IsPrefix(p, r) /\ IsPrefix(p, s)
  <2>1. MovedTo(p, q, s) \notin F \cup D
    BY <1>4, MovedAside
  <2>. QED  BY <1>4, <2>1, Zenon DEF MovedTo
<1>5. CASE ~IsPrefix(p, r) /\ ~IsPrefix(p, s)
  BY <1>5, Zenon DEF MovedTo
<1>. QED  BY <1>2, <1>3, <1>4, <1>5

\* What is moved is a tree again.
LEMMA MovedTree ==
  ASSUME NEW Seg, NEW F, NEW D, IsTree(F, D, Seq(Seg)),
         NEW p \in Seq(Seg), NEW q \in Seq(Seg), MayMove(F, D, q)
  PROVE  IsTree({MovedTo(p, q, r) : r \in F}, {MovedTo(p, q, d) : d \in D} \cup Above(q), Seq(Seg))
<1>. DEFINE m(r) == MovedTo(p, q, r)
            F2 == {m(r) : r \in F}
            D2 == {m(d) : d \in D} \cup Above(q)
<1>1. \A r \in F \cup D : r \in Seq(Seg) /\ Above(r) \subseteq D
  BY Zenon DEF IsTree
<1>2. ASSUME NEW r \in F \cup D PROVE m(r) \in Seq(Seg)
  <2>1. CASE IsPrefix(p, r)
    BY <1>1, <2>1, MovedIs
  <2>2. CASE ~IsPrefix(p, r)
    BY <1>1, <2>2, Zenon DEF MovedTo
  <2>. QED  BY <2>1, <2>2
<1>3. \A d \in Above(q) : d \in Seq(Seg)
  BY AboveIs
<1>4. ASSUME NEW r \in F \cup D PROVE Above(m(r)) \subseteq D2
  <2>1. CASE IsPrefix(p, r)
    <3>1. ASSUME NEW d \in Above(m(r)) PROVE d \in D2
      <4>1. d \in Above(q) \/ \E e \in Above(r) : m(e) = d
        BY <1>1, <2>1, MovedAbove
      <4>2. \A e \in Above(r) : m(e) \in D2
        BY <1>1, Zenon
      <4>. QED  BY <4>1, <4>2, Zenon
    <3>. QED  BY <3>1
  <2>2. CASE ~IsPrefix(p, r)
    <3>1. m(r) = r
      BY <2>2, Zenon DEF MovedTo
    <3>2. ASSUME NEW d \in Above(r) PROVE d \in D2
      <4>1. d \in D /\ d \in Seq(Seg) /\ r \in Seq(Seg) /\ IsPrefix(d, r)
        BY <1>1, AboveIs
      <4>2. ~IsPrefix(p, d)
        BY <2>2, <4>1, PrefixTransitive
      <4>3. m(d) = d
        BY <4>2, Zenon DEF MovedTo
      <4>. QED  BY <4>1, <4>3, Zenon
    <3>. QED  BY <3>1, <3>2, Zenon
  <2>. QED  BY <2>1, <2>2
<1>5. ASSUME NEW d \in Above(q) PROVE Above(d) \subseteq D2
  <2>1. d \in Seq(Seg) /\ IsPrefix(d, q) /\ Len(d) < Len(q)
    BY AboveIs
  <2>2. ASSUME NEW e \in Above(d) PROVE e \in Above(q)
    <3>1. e \in Seq(Seg) /\ IsPrefix(e, d) /\ Len(e) < Len(d)
      BY <2>1, AboveIs
    <3>2. IsPrefix(e, q)
      BY <2>1, <3>1, PrefixTransitive
    <3>3. Len(e) < Len(q)
      BY <2>1, <3>1
    <3>. QED  BY <3>1, <3>2, <3>3, AboveIs
  <2>. QED  BY <2>2, Zenon
<1>6. F2 \cap D2 = {}
  <2>1. SUFFICES ASSUME NEW r \in F, m(r) \in D2 PROVE FALSE
    BY Zenon
  <2>2. ASSUME NEW d \in D, m(r) = m(d) PROVE FALSE
    <3>1. r = d
      BY <2>2, MovedOnce
    <3>. QED  BY <3>1, Zenon DEF IsTree
  <2>3. ASSUME m(r) \in Above(q) PROVE FALSE
    <3>1. CASE IsPrefix(p, r)
      <4>1. m(r) \in Seq(Seg) /\ IsPrefix(q, m(r))
        BY <1>1, <3>1, MovedIs DEF IsMoved
      <4>2. Len(m(r)) < Len(q)
        BY <2>3, AboveIs
      <4>3. Len(q) <= Len(m(r))
        BY <4>1, PrefixIs
      <4>4. Len(q) \in Nat /\ Len(m(r)) \in Nat
        BY <4>1
      <4>. HIDE DEF m
      <4>. QED  BY <4>2, <4>3, <4>4
    <3>2. CASE ~IsPrefix(p, r)
      <4>1. m(r) = r
        BY <3>2, Zenon DEF MovedTo
      <4>. QED  BY <2>3, <4>1, Zenon DEF MayMove
    <3>. QED  BY <3>1, <3>2
  <2>. QED  BY <2>1, <2>2, <2>3, Zenon
<1>7. F2 \subseteq Seq(Seg) /\ D2 \subseteq Seq(Seg)
  BY <1>2, <1>3, Zenon
<1>8. \A r \in F2 \cup D2 : Above(r) \subseteq D2
  BY <1>4, <1>5, Zenon
<1>. QED  BY <1>6, <1>7, <1>8, Zenon DEF IsTree

\* A file more, or a new one in its place, with what is above it.
LEMMA PutTree ==
  ASSUME NEW Seg, NEW F, NEW D, IsTree(F, D, Seq(Seg)),
         NEW p \in Seq(Seg), p \notin D, Above(p) \cap F = {}
  PROVE  IsTree(F \cup {p}, D \cup Above(p), Seq(Seg))
<1>1. \A d \in Above(p) : d \in Seq(Seg)
  BY AboveIs
<1>2. ASSUME NEW d \in Above(p) PROVE Above(d) \subseteq Above(p)
  <2>1. d \in Seq(Seg) /\ IsPrefix(d, p) /\ Len(d) < Len(p)
    BY AboveIs
  <2>2. ASSUME NEW e \in Above(d) PROVE e \in Above(p)
    <3>1. e \in Seq(Seg) /\ IsPrefix(e, d) /\ Len(e) < Len(d)
      BY <2>1, AboveIs
    <3>2. IsPrefix(e, p)
      BY <2>1, <3>1, PrefixTransitive
    <3>3. Len(e) < Len(p)
      BY <2>1, <3>1
    <3>. QED  BY <3>1, <3>2, <3>3, AboveIs
  <2>. QED  BY <2>2, Zenon
<1>3. p \notin Above(p)
  <2>1. Len(p) \in Nat
    OBVIOUS
  <2>2. ~(Len(p) < Len(p))
    BY <2>1
  <2>. QED  BY <2>2, AboveIs
<1>4. (F \cup {p}) \cap (D \cup Above(p)) = {}
  BY <1>3, Zenon DEF IsTree
<1>5. \A r \in (F \cup {p}) \cup (D \cup Above(p)) : Above(r) \subseteq D \cup Above(p)
  BY <1>2, Zenon DEF IsTree
<1>. QED  BY <1>1, <1>4, <1>5, Zenon DEF IsTree

-----------------------------------------------------------------------------
(* What a fold keeps *)

\* A set of numbers has a least one.
LEMMA LeastNumber ==
  ASSUME NEW S \in SUBSET Nat, S # {}
  PROVE  \E i \in S : \A j \in S : i <= j
<1>1. IsWellFoundedOn(OpToRel(<, Nat), Nat)
  BY NatLessThanWellFounded
<1>2. PICK i \in S : \A j \in S : ~(<<j, i>> \in OpToRel(<, Nat))
  BY <1>1, WFMin
<1>3. \A j \in S : ~(j < i)
  BY <1>2 DEF OpToRel
<1>. QED  BY <1>3

\* A set of numbers up to one has a greatest one.
LEMMA GreatestNumber ==
  ASSUME NEW n \in Nat, NEW S \in SUBSET (0..n), S # {}
  PROVE  \E i \in S : \A j \in S : j <= i
<1>. DEFINE up == {n - i : i \in S}
<1>1. \A i \in S : i \in Nat /\ i <= n /\ n - i \in Nat
  OBVIOUS
<1>2. up \in SUBSET Nat /\ up # {}
  BY <1>1
<1>3. PICK m \in up : \A j \in up : m <= j
  BY <1>2, LeastNumber
<1>4. PICK i \in S : m = n - i
  BY <1>3
<1>5. ASSUME NEW j \in S PROVE j <= i
  <2>1. n - j \in up
    OBVIOUS
  <2>2. n - i <= n - j
    BY <1>3, <1>4, <2>1
  <2>. QED  BY <1>1, <2>2
<1>. QED  BY <1>5

\* A set that has 0, and each number when it has the one before, has them all.
LEMMA Climb ==
  ASSUME NEW n \in Nat, NEW T, 0 \in T, \A k \in 1..n : k - 1 \in T => k \in T
  PROVE  0..n \subseteq T
<1>1. SUFFICES ASSUME (0..n) \ T # {} PROVE FALSE
  OBVIOUS
<1>2. (0..n) \ T \in SUBSET Nat
  OBVIOUS
<1>3. PICK i \in (0..n) \ T : \A j \in (0..n) \ T : i <= j
  BY <1>1, <1>2, LeastNumber
<1>4. i \in 0..n /\ i # 0
  OBVIOUS
<1>5. i \in 1..n /\ i - 1 \in 0..n /\ ~(i <= i - 1)
  BY <1>4
<1>6. i - 1 \in T
  BY <1>3, <1>5
<1>. QED  BY <1>5, <1>6

\* What is greatest is the Max.
LEMMA MaxIs ==
  ASSUME NEW S \in SUBSET Int, NEW m \in S, \A y \in S : m >= y
  PROVE  Max(S) = m
<1>1. \A x \in S : (\A y \in S : x >= y) => x = m
  OBVIOUS
<1>. QED  BY <1>1 DEF Max

\* A set of numbers between 1 and n that is not empty has a Max.
LEMMA MaxThere ==
  ASSUME NEW n \in Nat, NEW S \in SUBSET (1..n), S # {}
  PROVE  Max(S) \in S
<1>1. S \in SUBSET (0..n)
  OBVIOUS
<1>2. PICK m \in S : \A y \in S : y <= m
  <2>1. \E m \in S : \A y \in S : y <= m
    BY <1>1, GreatestNumber
  <2>. QED  BY <2>1
<1>3. S \in SUBSET Int /\ \A y \in S : m >= y
  BY <1>1, <1>2
<1>4. Max(S) = m
  BY <1>3, MaxIs
<1>. QED  BY <1>4

\* The first numbers, which FoldLeft takes one after another.
LEMMA FirstNumbers ==
  ASSUME NEW n \in Nat, NEW k \in 1..n
  PROVE  /\ 1..k \in SUBSET (1..n) /\ 1..k # {} /\ Max(1..k) = k
         /\ (1..k) \ {k} = 1..(k - 1) /\ 1..(k - 1) \in SUBSET (1..n)
<1>1. 1..k \in SUBSET (1..n) /\ 1..k # {} /\ (1..k) \ {k} = 1..(k - 1) /\ 1..(k - 1) \in SUBSET (1..n)
  OBVIOUS
<1>2. 1..k \in SUBSET Int /\ k \in 1..k /\ \A y \in 1..k : k >= y
  OBVIOUS
<1>3. Max(1..k) = k
  BY <1>2, MaxIs
<1>. QED  BY <1>1, <1>3

\* The fold of a step from values in A and elements of s to values in A, as
\* FoldLeft goes through them.
IsFold(f, step, base, s, n) ==
  f = [S \in SUBSET (1..n) |->
         IF S = {} THEN base ELSE step[<<f[S \ {Max(S)}], s[Max(S)]>>]]

IsStep(step, A, X) == step \in [A \X X -> A]
HasOnly(s, n, X)   == \A i \in 1..n : s[i] \in X
StaysIn(f, n, A)   == \A S \in SUBSET (1..n) : f[S] \in A

\* There is one, and its values are in A.
LEMMA FoldExists ==
  ASSUME NEW A, NEW X, NEW base \in A, NEW step, IsStep(step, A, X), NEW s, NEW n \in Nat,
         HasOnly(s, n, X)
  PROVE  \E f : IsFold(f, step, base, s, n) /\ StaysIn(f, n, A)
<1>0. step \in [A \X X -> A] /\ \A i \in 1..n : s[i] \in X
  BY DEF IsStep, HasOnly
<1>. DEFINE Good(f, k) == IsFold(f, step, base, s, k) /\ \A S \in SUBSET (1..k) : f[S] \in A
            T == {k \in 0..n : \E f : Good(f, k)}
<1>1. 0 \in T
  <2>. DEFINE g == [S \in SUBSET (1..0) |-> base]
  <2>1. g = [S \in SUBSET (1..0) |-> IF S = {} THEN base ELSE step[<<g[S \ {Max(S)}], s[Max(S)]>>]]
    OBVIOUS
  <2>2. IsFold(g, step, base, s, 0)
    BY <2>1 DEF IsFold
  <2>3. \A S \in SUBSET (1..0) : g[S] \in A
    OBVIOUS
  <2>. HIDE DEF g
  <2>. QED  BY <2>2, <2>3
<1>2. ASSUME NEW k \in 1..n, k - 1 \in T PROVE k \in T
  <2>1. PICK g : Good(g, k - 1)
    BY <1>2
  <2>. DEFINE h == [S \in SUBSET (1..k) |-> IF k \in S THEN step[<<g[S \ {k}], s[k]>>] ELSE g[S]]
  <2>2. ASSUME NEW S \in SUBSET (1..k)
        PROVE  /\ h[S] = IF S = {} THEN base ELSE step[<<h[S \ {Max(S)}], s[Max(S)]>>]
               /\ h[S] \in A
    <3>1. CASE k \in S
      <4>1. Max(S) = k
        <5>1. S \in SUBSET Int /\ \A y \in S : k >= y
          OBVIOUS
        <5>. QED  BY <3>1, <5>1, MaxIs
      <4>2. S \ {k} \in SUBSET (1..(k - 1)) /\ S \ {k} \in SUBSET (1..k)
        OBVIOUS
      <4>3. h[S \ {k}] = g[S \ {k}] /\ g[S \ {k}] \in A
        BY <2>1, <4>2
      <4>4. h[S] = step[<<g[S \ {k}], s[k]>>]
        BY <3>1
      <4>. HIDE DEF h
      <4>5. h[S] \in A
        BY <1>0, <4>3, <4>4
      <4>. QED  BY <3>1, <4>1, <4>3, <4>4, <4>5
    <3>2. CASE k \notin S
      <4>1. S \in SUBSET (1..(k - 1)) /\ S \ {Max(S)} \in SUBSET (1..(k - 1))
            /\ S \ {Max(S)} \in SUBSET (1..k) /\ k \notin S \ {Max(S)}
        <5>1. \A x \in S : x \in 1..(k - 1) /\ x # k /\ x \in 1..k
          BY <3>2
        <5>2. \A x \in S \ {Max(S)} : x \in S
          OBVIOUS
        <5>. HIDE DEF h
        <5>. QED  BY <5>1, <5>2
      <4>2. g[S] = IF S = {} THEN base ELSE step[<<g[S \ {Max(S)}], s[Max(S)]>>]
        BY <2>1, <4>1, Zenon DEF IsFold
      <4>3. h[S] = g[S] /\ h[S \ {Max(S)}] = g[S \ {Max(S)}] /\ g[S] \in A
        BY <2>1, <3>2, <4>1
      <4>. HIDE DEF h
      <4>. QED  BY <4>2, <4>3
    <3>. QED  BY <3>1, <3>2
  <2>3. h = [S \in SUBSET (1..k) |-> IF S = {} THEN base ELSE step[<<h[S \ {Max(S)}], s[Max(S)]>>]]
    <3>1. h = [S \in SUBSET (1..k) |-> h[S]]
      OBVIOUS
    <3>. HIDE DEF h
    <3>. QED  BY <2>2, <3>1, Zenon
  <2>. HIDE DEF h
  <2>4. Good(h, k)
    BY <2>2, <2>3, Zenon DEF IsFold
  <2>. QED  BY <2>4
<1>3. n \in 0..n
  OBVIOUS
<1>. QED  BY <1>1, <1>2, <1>3, Climb, Zenon DEF StaysIn

\* What is in A for no elements, and for one more when it was before, is in A.
LEMMA FoldStays ==
  ASSUME NEW A, NEW n \in Nat, NEW f, f[{}] \in A,
         \A k \in 1..n : f[1..(k - 1)] \in A => f[1..k] \in A
  PROVE  f[1..n] \in A
<1>. DEFINE T == {k \in 0..n : f[1..k] \in A}
<1>1. 0 \in T
  <2>1. 1..0 = {}
    OBVIOUS
  <2>. QED  BY <2>1
<1>2. ASSUME NEW k \in 1..n, k - 1 \in T PROVE k \in T
  BY <1>2
<1>3. 0..n \subseteq T
  BY <1>1, <1>2, Climb
<1>. QED  BY <1>3

\* What every step of cleaning a path keeps, Clean has.
LEMMA CleanKeeps ==
  ASSUME NEW A, NEW Seg, NEW raw \in Seq(Seg), <<>> \in A,
         \A a \in A, x \in Seg : Cleaned(a, x, Rooted(raw)) \in A
  PROVE  Clean(raw) \in A
<1>. DEFINE n == Len(raw)
            F == CHOOSE f : f = [S \in SUBSET DOMAIN raw |-> IF S = {} THEN <<>> ELSE
                   LET x == Max(S) IN Cleaned(f[S \ {x}], raw[x], Rooted(raw))]
            step == [q \in A \X Seg |-> Cleaned(q[1], q[2], Rooted(raw))]
<1>1. Clean(raw) = F[DOMAIN raw]
  BY Zenon DEF Clean, FoldLeft, MapThenFoldSet
<1>2. n \in Nat /\ DOMAIN raw = 1..n /\ \A i \in 1..n : raw[i] \in Seg
  BY ElementOfSeq
<1>3. step \in [A \X Seg -> A] /\ \A a \in A, x \in Seg : step[<<a, x>>] = Cleaned(a, x, Rooted(raw))
  OBVIOUS
<1>. HIDE DEF step
<1>4. PICK g : IsFold(g, step, <<>>, raw, n) /\ \A S \in SUBSET (1..n) : g[S] \in A
  <2>. DEFINE e == <<>>
  <2>1. e \in A /\ IsStep(step, A, Seg) /\ HasOnly(raw, n, Seg)
    BY <1>2, <1>3, Zenon DEF IsStep, HasOnly
  <2>. HIDE DEF e, n
  <2>2. \E g : IsFold(g, step, e, raw, n) /\ StaysIn(g, n, A)
    BY <1>2, <2>1, FoldExists
  <2>. QED  BY <2>2, Zenon DEF e, StaysIn
<1>5. ASSUME NEW S \in SUBSET (1..n)
      PROVE  g[S] = IF S = {} THEN <<>> ELSE Cleaned(g[S \ {Max(S)}], raw[Max(S)], Rooted(raw))
  <2>1. g[S] = IF S = {} THEN <<>> ELSE step[<<g[S \ {Max(S)}], raw[Max(S)]>>]
    BY <1>4, Zenon DEF IsFold
  <2>2. S # {} => Max(S) \in 1..n /\ S \ {Max(S)} \in SUBSET (1..n)
    BY <1>2, MaxThere
  <2>. QED  BY <1>2, <1>3, <1>4, <2>1, <2>2
<1>6. g = [S \in SUBSET DOMAIN raw |-> IF S = {} THEN <<>> ELSE
            LET x == Max(S) IN Cleaned(g[S \ {x}], raw[x], Rooted(raw))]
  <2>1. g = [S \in SUBSET (1..n) |-> g[S]]
    BY <1>4, Zenon DEF IsFold
  <2>. QED  BY <1>2, <1>5, <2>1, Zenon
<1>7. F = [S \in SUBSET DOMAIN raw |-> IF S = {} THEN <<>> ELSE
            LET x == Max(S) IN Cleaned(F[S \ {x}], raw[x], Rooted(raw))]
  BY <1>6, Zenon
<1>. HIDE DEF F
<1>8. F[{}] \in A
  <2>1. {} \in SUBSET DOMAIN raw
    OBVIOUS
  <2>2. F[{}] = <<>>
    BY <1>7, <2>1, Zenon
  <2>. QED  BY <2>2
<1>9. ASSUME NEW k \in 1..n, F[1..(k - 1)] \in A PROVE F[1..k] \in A
  <2>1. /\ 1..k \in SUBSET DOMAIN raw /\ 1..k # {} /\ Max(1..k) = k
        /\ (1..k) \ {k} = 1..(k - 1)
    BY <1>2, FirstNumbers
  <2>2. F[1..k] = Cleaned(F[(1..k) \ {k}], raw[k], Rooted(raw))
    BY <1>7, <2>1, Zenon
  <2>. QED  BY <1>2, <1>9, <2>1, <2>2
<1>. QED  BY <1>1, <1>2, <1>8, <1>9, FoldStays

\* ... unblanking the lines of a file ...
LEMMA UnblankKeeps ==
  ASSUME NEW A, NEW L, NEW lines \in Seq(L), <<>> \in A, \A a \in A, x \in L : Unblank(a, x) \in A
  PROVE  FoldLeft(Unblank, <<>>, lines) \in A
<1>. DEFINE n == Len(lines)
            F == CHOOSE f : f = [S \in SUBSET DOMAIN lines |-> IF S = {} THEN <<>> ELSE
                   LET x == Max(S) IN Unblank(f[S \ {x}], lines[x])]
            step == [q \in A \X L |-> Unblank(q[1], q[2])]
<1>1. FoldLeft(Unblank, <<>>, lines) = F[DOMAIN lines]
  BY Zenon DEF FoldLeft, MapThenFoldSet
<1>2. n \in Nat /\ DOMAIN lines = 1..n /\ \A i \in 1..n : lines[i] \in L
  BY ElementOfSeq
<1>3. step \in [A \X L -> A] /\ \A a \in A, x \in L : step[<<a, x>>] = Unblank(a, x)
  OBVIOUS
<1>. HIDE DEF step
<1>4. PICK g : IsFold(g, step, <<>>, lines, n) /\ \A S \in SUBSET (1..n) : g[S] \in A
  <2>. DEFINE e == <<>>
  <2>1. e \in A /\ IsStep(step, A, L) /\ HasOnly(lines, n, L)
    BY <1>2, <1>3, Zenon DEF IsStep, HasOnly
  <2>. HIDE DEF e, n
  <2>2. \E g : IsFold(g, step, e, lines, n) /\ StaysIn(g, n, A)
    BY <1>2, <2>1, FoldExists
  <2>. QED  BY <2>2, Zenon DEF e, StaysIn
<1>5. ASSUME NEW S \in SUBSET (1..n)
      PROVE  g[S] = IF S = {} THEN <<>> ELSE Unblank(g[S \ {Max(S)}], lines[Max(S)])
  <2>1. g[S] = IF S = {} THEN <<>> ELSE step[<<g[S \ {Max(S)}], lines[Max(S)]>>]
    BY <1>4, Zenon DEF IsFold
  <2>2. S # {} => Max(S) \in 1..n /\ S \ {Max(S)} \in SUBSET (1..n)
    BY <1>2, MaxThere
  <2>. QED  BY <1>2, <1>3, <1>4, <2>1, <2>2
<1>6. g = [S \in SUBSET DOMAIN lines |-> IF S = {} THEN <<>> ELSE
            LET x == Max(S) IN Unblank(g[S \ {x}], lines[x])]
  <2>1. g = [S \in SUBSET (1..n) |-> g[S]]
    BY <1>4, Zenon DEF IsFold
  <2>. QED  BY <1>2, <1>5, <2>1, Zenon
<1>7. F = [S \in SUBSET DOMAIN lines |-> IF S = {} THEN <<>> ELSE
            LET x == Max(S) IN Unblank(F[S \ {x}], lines[x])]
  BY <1>6, Zenon
<1>. HIDE DEF F
<1>8. F[{}] \in A
  <2>1. {} \in SUBSET DOMAIN lines
    OBVIOUS
  <2>2. F[{}] = <<>>
    BY <1>7, <2>1, Zenon
  <2>. QED  BY <2>2
<1>9. ASSUME NEW k \in 1..n, F[1..(k - 1)] \in A PROVE F[1..k] \in A
  <2>1. /\ 1..k \in SUBSET DOMAIN lines /\ 1..k # {} /\ Max(1..k) = k
        /\ (1..k) \ {k} = 1..(k - 1)
    BY <1>2, FirstNumbers
  <2>2. F[1..k] = Unblank(F[(1..k) \ {k}], lines[k])
    BY <1>7, <2>1, Zenon
  <2>. QED  BY <1>2, <1>9, <2>1, <2>2
<1>. QED  BY <1>1, <1>2, <1>8, <1>9, FoldStays

\* ... and learning.
LEMMA LearnedKeeps ==
  ASSUME NEW A, NEW L, NEW new \in Seq(L), NEW old \in A,
         \A a \in A, x \in L : LearnedToo(old, a, x) \in A
  PROVE  Learned(old, new) \in A
<1>. DEFINE n == Len(new)
            F == CHOOSE f : f = [S \in SUBSET DOMAIN new |-> IF S = {} THEN old ELSE
                   LET x == Max(S) IN LearnedToo(old, f[S \ {x}], new[x])]
            step == [q \in A \X L |-> LearnedToo(old, q[1], q[2])]
<1>1. Learned(old, new) = F[DOMAIN new]
  BY Zenon DEF Learned, FoldLeft, MapThenFoldSet
<1>2. n \in Nat /\ DOMAIN new = 1..n /\ \A i \in 1..n : new[i] \in L
  BY ElementOfSeq
<1>3. step \in [A \X L -> A] /\ \A a \in A, x \in L : step[<<a, x>>] = LearnedToo(old, a, x)
  OBVIOUS
<1>. HIDE DEF step
<1>4. PICK g : IsFold(g, step, old, new, n) /\ \A S \in SUBSET (1..n) : g[S] \in A
  <2>1. old \in A /\ IsStep(step, A, L) /\ HasOnly(new, n, L)
    BY <1>2, <1>3, Zenon DEF IsStep, HasOnly
  <2>. HIDE DEF n
  <2>2. \E g : IsFold(g, step, old, new, n) /\ StaysIn(g, n, A)
    BY <1>2, <2>1, FoldExists
  <2>. QED  BY <2>2, Zenon DEF StaysIn
<1>5. ASSUME NEW S \in SUBSET (1..n)
      PROVE  g[S] = IF S = {} THEN old ELSE LearnedToo(old, g[S \ {Max(S)}], new[Max(S)])
  <2>1. g[S] = IF S = {} THEN old ELSE step[<<g[S \ {Max(S)}], new[Max(S)]>>]
    BY <1>4, Zenon DEF IsFold
  <2>2. S # {} => Max(S) \in 1..n /\ S \ {Max(S)} \in SUBSET (1..n)
    BY <1>2, MaxThere
  <2>. QED  BY <1>2, <1>3, <1>4, <2>1, <2>2
<1>6. g = [S \in SUBSET DOMAIN new |-> IF S = {} THEN old ELSE
            LET x == Max(S) IN LearnedToo(old, g[S \ {x}], new[x])]
  <2>1. g = [S \in SUBSET (1..n) |-> g[S]]
    BY <1>4, Zenon DEF IsFold
  <2>. QED  BY <1>2, <1>5, <2>1, Zenon
<1>7. F = [S \in SUBSET DOMAIN new |-> IF S = {} THEN old ELSE
            LET x == Max(S) IN LearnedToo(old, F[S \ {x}], new[x])]
  BY <1>6, Zenon
<1>. HIDE DEF F
<1>8. F[{}] \in A
  <2>1. {} \in SUBSET DOMAIN new
    OBVIOUS
  <2>2. F[{}] = old
    BY <1>7, <2>1, Zenon
  <2>. QED  BY <2>2
<1>9. ASSUME NEW k \in 1..n, F[1..(k - 1)] \in A PROVE F[1..k] \in A
  <2>1. /\ 1..k \in SUBSET DOMAIN new /\ 1..k # {} /\ Max(1..k) = k
        /\ (1..k) \ {k} = 1..(k - 1)
    BY <1>2, FirstNumbers
  <2>2. F[1..k] = LearnedToo(old, F[(1..k) \ {k}], new[k])
    BY <1>7, <2>1, Zenon
  <2>. QED  BY <1>2, <1>9, <2>1, <2>2
<1>. QED  BY <1>1, <1>2, <1>8, <1>9, FoldStays

-----------------------------------------------------------------------------
(* What a path that a tool is given becomes *)

\* What leaves the scope does so at the start.
UpFirst(c) == \A i, j \in 1..Len(c) : i < j /\ c[j] = Up => c[i] = Up

\* A segment more leaves it so ...
LEMMA CleanedKeeps ==
  ASSUME NEW Seg, NEW c \in Seq(Seg), UpFirst(c), NEW x \in Seg, NEW rooted
  PROVE  Cleaned(c, x, rooted) \in Seq(Seg) /\ UpFirst(Cleaned(c, x, rooted))
<1>. DEFINE d == Append(c, x)
            f == Front(c)
<1>1. Len(c) \in Nat /\ (c # <<>> => Len(c) # 0)
  OBVIOUS
<1>2. d \in Seq(Seg) /\ Len(d) = Len(c) + 1 /\ d[Len(c) + 1] = x /\ \A i \in 1..Len(c) : d[i] = c[i]
  BY AppendProperties
<1>3. ASSUME c # <<>>
      PROVE  f \in Seq(Seg) /\ Len(f) = Len(c) - 1 /\ \A i \in 1..(Len(c) - 1) : f[i] = c[i]
  <2>1. Len(c) - 1 \in 0..Len(c)
    BY <1>1, <1>3
  <2>2. f \in Seq(Seg) /\ Len(f) = Len(c) - 1 /\ IsPrefix(f, c)
    BY <2>1, BeginningIs DEF Front
  <2>. HIDE DEF f
  <2>. QED  BY <2>2, PrefixIs
<1>. HIDE DEF d, f
<1>4. CASE Cleaned(c, x, rooted) = c
  BY <1>4
<1>5. CASE Cleaned(c, x, rooted) = f /\ c # <<>>
  <2>1. UpFirst(f)
    BY <1>1, <1>3, <1>5 DEF UpFirst
  <2>. QED  BY <1>3, <1>5, <2>1
<1>6. ASSUME x = Up => (c = <<>> \/ Last(c) = Up) PROVE UpFirst(d)
  <2>. SUFFICES ASSUME NEW i \in 1..Len(d), NEW j \in 1..Len(d), i < j, d[j] = Up
                PROVE  d[i] = Up
    BY DEF UpFirst
  <2>1. CASE j <= Len(c)
    <3>1. i \in 1..Len(c) /\ j \in 1..Len(c)
      BY <1>1, <1>2, <2>1
    <3>. QED  BY <1>2, <3>1 DEF UpFirst
  <2>2. CASE j = Len(c) + 1
    <3>1. i \in 1..Len(c) /\ Len(c) \in 1..Len(c)
      BY <1>1, <1>2, <2>2
    <3>2. x = Up /\ c[Len(c)] = Up
      BY <1>2, <1>6, <2>2, <3>1 DEF Last
    <3>3. c[i] = Up
      BY <3>1, <3>2 DEF UpFirst
    <3>. QED  BY <1>2, <3>1, <3>3
  <2>. QED  BY <1>1, <1>2, <2>1, <2>2
<1>7. CASE Cleaned(c, x, rooted) = d /\ (x = Up => (c = <<>> \/ Last(c) = Up))
  BY <1>2, <1>6, <1>7
<1>8. \/ Cleaned(c, x, rooted) = c
      \/ Cleaned(c, x, rooted) = f /\ c # <<>>
      \/ Cleaned(c, x, rooted) = d /\ (x = Up => (c = <<>> \/ Last(c) = Up))
  <2>1. CASE x \in {Empty, "."}
    <3>1. x # Up
      BY <2>1, Zenon DEF Up, Empty
    <3>. QED  BY <2>1, <3>1, Zenon DEF Cleaned
  <2>2. CASE x \notin {Empty, "."} /\ x = Up
    BY <2>2, Zenon DEF Cleaned, d, f
  <2>3. CASE x \notin {Empty, "."} /\ x # Up
    BY <2>3, Zenon DEF Cleaned, d, f
  <2>. QED  BY <2>1, <2>2, <2>3
<1>. QED  BY <1>4, <1>5, <1>7, <1>8

\* ... and so does all of path.Clean.
LEMMA CleanIs ==
  ASSUME NEW Seg, NEW raw \in Seq(Seg)
  PROVE  Clean(raw) \in Seq(Seg) /\ UpFirst(Clean(raw))
<1>. DEFINE A == {c \in Seq(Seg) : UpFirst(c)}
<1>1. <<>> \in A
  BY DEF UpFirst
<1>2. \A c \in A, x \in Seg : Cleaned(c, x, Rooted(raw)) \in A
  BY CleanedKeeps
<1>3. Clean(raw) \in A
  BY <1>1, <1>2, CleanKeeps
<1>. QED  BY <1>3

\* What joinScope lets through is in the scope.
LEMMA JoinIs ==
  ASSUME NEW Seg, NEW root \in Seq(Seg), NEW raw \in Seq(Seg), Join(root, raw) # None
  PROVE  /\ Join(root, raw) \in Seq(Seg) /\ IsPrefix(root, Join(root, raw))
         /\ Up \notin Range(root) => Up \notin Range(Join(root, raw))
<1>. DEFINE c == Clean(raw)
            p == root \o c
<1>1. c \in Seq(Seg) /\ UpFirst(c)
  BY CleanIs
<1>2. Join(root, raw) = p /\ ~(c # <<>> /\ c[1] = Up)
  BY Zenon DEF Join
<1>. HIDE DEF c
<1>3. /\ p \in Seq(Seg) /\ Len(p) = Len(root) + Len(c) /\ IsPrefix(root, p)
      /\ \A i \in 1..(Len(root) + Len(c)) : p[i] = IF i <= Len(root) THEN root[i] ELSE c[i - Len(root)]
  BY <1>1, ConcatProperties, PrefixOfJoined
<1>4. Len(root) \in Nat /\ Len(c) \in Nat
  BY <1>1
<1>. HIDE DEF p
<1>5. \A i \in 1..Len(c) : c[i] # Up
  <2>. SUFFICES ASSUME NEW i \in 1..Len(c), c[i] = Up PROVE FALSE
    OBVIOUS
  <2>1. c # <<>> /\ 1 \in 1..Len(c)
    BY <1>1, <1>4
  <2>2. c[1] = Up
    <3>1. CASE i = 1
      BY <3>1
    <3>2. CASE i # 1
      <4>1. 1 < i
        BY <3>2
      <4>. QED  BY <1>1, <2>1, <4>1, Zenon DEF UpFirst
    <3>. QED  BY <3>1, <3>2
  <2>. QED  BY <1>2, <2>1, <2>2
<1>6. ASSUME Up \notin Range(root) PROVE Up \notin Range(p)
  <2>. SUFFICES ASSUME NEW i \in DOMAIN p, p[i] = Up PROVE FALSE
    BY Zenon DEF Range
  <2>1. i \in 1..(Len(root) + Len(c))
    BY <1>3
  <2>2. CASE i <= Len(root)
    <3>1. i \in DOMAIN root /\ root[i] = Up
      BY <1>3, <1>4, <2>1, <2>2
    <3>. QED  BY <1>6, <3>1, Zenon DEF Range
  <2>3. CASE i > Len(root)
    <3>1. i - Len(root) \in 1..Len(c) /\ p[i] = c[i - Len(root)]
      BY <1>3, <1>4, <2>1, <2>3
    <3>. QED  BY <1>5, <3>1
  <2>. QED  BY <1>4, <2>1, <2>2, <2>3
<1>. QED  BY <1>2, <1>3, <1>6

-----------------------------------------------------------------------------
(* The tree of MemoryFiles *)

\* Files and directories are one, and a file's contents are lines.
Tree ==
  /\ IsFiniteSet(DOMAIN files) /\ IsTree(DOMAIN files, dirs, Path)
  /\ \A p \in DOMAIN files : files[p] \in Seq(Line)

\* A path of one segment.
LEMMA SingleSegment ==
  ASSUME NEW x
  PROVE  DOMAIN <<x>> = {1} /\ <<x>>[1] = x /\ \A Seg : x \in Seg => <<x>> \in Seq(Seg)
<1>1. (\A Seg : x \in Seg => <<x>> \in Seq(Seg)) /\ <<x>> \in Seq({x}) /\ Len(<<x>>) = 1 /\ <<x>>[1] = x
  OBVIOUS
<1>2. DOMAIN <<x>> = 1..1
  BY <1>1
<1>3. 1..1 = {1}
  OBVIOUS
<1>. QED  BY <1>1, <1>2, <1>3, Zenon

\* Everybody's home, and the shared one, is a path.
LEMMA HomeIs ==
  ASSUME NEW h \in Home \cup {Shared}
  PROVE  h \in Path /\ Up \notin Range(h)
<1>1. CASE h \in Home
  BY <1>1, MemoryConstants, Zenon
<1>2. CASE h = Shared
  <2>1. "shared" \in STRING
    <3>1. DOMAIN Shared = {1} /\ Shared[1] = "shared"
      BY SingleSegment, Zenon DEF Shared
    <3>. QED  BY <3>1, NamesAreStrings, Zenon DEF Range
  <2>2. Shared \in Path /\ DOMAIN Shared = {1} /\ Shared[1] = "shared"
    BY <2>1, SingleSegment, Zenon DEF Shared, Path
  <2>3. "shared" # Up
    BY DEF Up
  <2>4. ASSUME NEW i \in DOMAIN Shared PROVE Shared[i] # Up
    <3>1. i = 1
      BY <2>2, Zenon
    <3>. QED  BY <2>2, <2>3, <3>1, Zenon
  <2>. QED  BY <1>2, <2>2, <2>4, Zenon DEF Range
<1>. QED  BY <1>1, <1>2

\* A path in one of the roots that tools write to, where they may, is in nobody's
\* reserved area.
LEMMA NotReserved ==
  ASSUME NEW root \in Home \cup {Shared}, NEW p \in Path, IsPrefix(root, p), ~ReservedRel(root, p)
  PROVE  ~InReserved(p)
<1>. SUFFICES ASSUME NEW r \in Home \cup {Shared}, IsPrefix(r, p), ReservedRel(r, p) PROVE FALSE
  BY Zenon DEF InReserved
<1>1. root \in Seq(STRING) /\ r \in Seq(STRING) /\ p \in Seq(STRING)
  BY HomeIs, Zenon DEF Path
<1>2. Len(root) \in Nat /\ Len(r) \in Nat
  BY <1>1
<1>3. IsPrefix(root, r) \/ IsPrefix(r, root)
  <2>1. CASE Len(root) <= Len(r)
    BY <1>1, <2>1, PrefixesInRow, Zenon
  <2>2. CASE Len(r) <= Len(root)
    BY <1>1, <2>2, PrefixesInRow, Zenon
  <2>. QED  BY <1>2, <2>1, <2>2
<1>4. root = r
  BY <1>3, HomesApart, Zenon
<1>. QED  BY <1>4, Zenon

\* Nor is one that may be deleted.
LEMMA NotUnderReserved ==
  ASSUME NEW r \in Home \cup {Shared}, NEW p \in Path, IsPrefix(r, p), ~UnderReserved(p)
  PROVE  ~ReservedRel(r, p)
<1>. SUFFICES ASSUME ReservedRel(r, p) PROVE FALSE
  OBVIOUS
<1>1. r \in Seq(STRING) /\ p \in Seq(STRING)
  BY HomeIs, Zenon DEF Path
<1>. DEFINE b == Rel(r, p)
<1>2. /\ b \in Seq(STRING) /\ Len(b) = Len(p) - Len(r)
      /\ \A i \in 1..(Len(p) - Len(r)) : b[i] = p[Len(r) + i]
  BY <1>1, RelIs, Zenon
<1>3. b # <<>> /\ b[1] = Reserved
  BY Zenon DEF ReservedRel
<1>. HIDE DEF b
<1>4. Len(p) \in Nat /\ Len(r) \in Nat /\ DOMAIN p = 1..Len(p)
  BY <1>1
<1>5. Len(b) # 0
  BY <1>2, <1>3, EmptySeq
<1>6. 1 \in 1..(Len(p) - Len(r)) /\ Len(r) + 1 \in DOMAIN p
  BY <1>2, <1>4, <1>5
<1>7. p[Len(r) + 1] = Reserved
  BY <1>2, <1>3, <1>6
<1>. QED  BY <1>6, <1>7, Zenon DEF UnderReserved, Range

\* So that what may be deleted is in nobody's reserved area.
LEMMA DeletableIs ==
  ASSUME NEW p \in Path, ~UnderReserved(p)
  PROVE  ~InReserved(p)
  BY NotUnderReserved, Zenon DEF InReserved

\* Put: nothing is disturbed and nothing is new but the file it writes.
LEMMA PutEffect ==
  ASSUME Tree, NEW p \in Path, NEW lines \in Seq(Line), CanWrite(p, lines), Put(p, lines)
  PROVE  /\ Tree' /\ Disturbed \subseteq {p} \cap DOMAIN files /\ New \subseteq {p}
<1>1. /\ files' = [q \in DOMAIN files \cup {p} |-> IF q = p THEN lines ELSE files[q]]
      /\ dirs' = dirs \cup Above(p)
      /\ p \notin dirs /\ Above(p) \cap DOMAIN files = {}
  BY Zenon DEF Put, CanWrite
<1>2. /\ DOMAIN files' = DOMAIN files \cup {p} /\ files'[p] = lines
      /\ \A q \in DOMAIN files : q # p => files'[q] = files[q]
  BY <1>1, Zenon
<1>3. IsTree(DOMAIN files, dirs, Seq(STRING)) /\ p \in Seq(STRING)
  BY Zenon DEF Tree, Path
<1>4. IsTree(DOMAIN files \cup {p}, dirs \cup Above(p), Seq(STRING))
  BY <1>1, <1>3, PutTree, Zenon
<1>5. IsTree(DOMAIN files', dirs', Path)
  BY <1>1, <1>2, <1>4, Zenon DEF Path
<1>6. \A q \in DOMAIN files' : files'[q] \in Seq(Line)
  BY <1>2, Zenon DEF Tree
<1>0. IsFiniteSet(DOMAIN files')
  <2>1. IsFiniteSet(DOMAIN files \cup {p})
    BY FS_AddElement, Zenon DEF Tree
  <2>. QED  BY <1>2, <2>1, Zenon
<1>7. Tree'
  BY <1>0, <1>5, <1>6, Zenon DEF Tree
<1>8. Disturbed \subseteq {p} \cap DOMAIN files /\ New \subseteq {p}
  BY <1>2, Zenon DEF Disturbed, New
<1>. QED  BY <1>7, <1>8

\* Rename: what is gone from a path is at one where there was nothing.
LEMMA RenameEffect ==
  ASSUME Tree, NEW p \in Path, NEW q \in Path, CanRename(p, q), Rename(p, q)
  PROVE  /\ Tree'
         /\ \A d \in Disturbed : \E n \in New : n \notin DOMAIN files /\ files'[n] = files[d]
<1>. DEFINE F == DOMAIN files
            m(r) == MovedTo(p, q, r)
<1>1. IsTree(F, dirs, Seq(STRING)) /\ p \in Seq(STRING) /\ q \in Seq(STRING)
  BY Zenon DEF Tree, Path
<1>2. MayMove(F, dirs, q)
  BY Zenon DEF CanRename, MayMove, IsFile
<1>3. /\ files' = [r \in {m(s) : s \in F} |-> files[CHOOSE s \in F : m(s) = r]]
      /\ dirs' = {m(d) : d \in dirs} \cup Above(q)
  BY Zenon DEF Rename, MovedTo, Rel
<1>4. DOMAIN files' = {m(s) : s \in F}
  BY <1>3, Zenon
<1>5. ASSUME NEW s \in F PROVE m(s) \in DOMAIN files' /\ files'[m(s)] = files[s]
  <2>1. ASSUME NEW t \in F, m(t) = m(s) PROVE t = s
    <3>1. t \in F \cup dirs /\ s \in F \cup dirs
      OBVIOUS
    <3>2. MovedTo(p, q, t) = MovedTo(p, q, s)
      BY <2>1, Zenon
    <3>. HIDE DEF F, m
    <3>. QED  BY <1>1, <1>2, <3>1, <3>2, MovedOnce
  <2>2. (CHOOSE t \in F : m(t) = m(s)) = s
    BY <2>1, Zenon
  <2>. HIDE DEF m
  <2>. QED  BY <1>3, <1>4, <2>2, Zenon
<1>6. Tree'
  <2>1. IsTree({m(r) : r \in F}, {m(d) : d \in dirs} \cup Above(q), Seq(STRING))
    BY <1>1, <1>2, MovedTree, Zenon
  <2>2. IsTree(DOMAIN files', dirs', Path)
    BY <1>3, <1>4, <2>1, Zenon DEF Path
  <2>3. \A r \in DOMAIN files' : files'[r] \in Seq(Line)
    BY <1>4, <1>5, Zenon DEF Tree
  <2>4. IsFiniteSet(DOMAIN files')
    <3>. DEFINE g == [r \in F |-> m(r)]
                S == {m(r) : r \in F}
    <3>1. g \in Surjection(F, S)
      <4>. HIDE DEF m
      <4>. QED  BY DEF Surjection
    <3>2. IsFiniteSet(F)
      BY Zenon DEF Tree
    <3>. HIDE DEF g, S, F
    <3>3. IsFiniteSet(S)
      BY <3>1, <3>2, FS_Surjection
    <3>. QED  BY <1>4, <3>3, Zenon DEF S, F
  <2>. QED  BY <2>2, <2>3, <2>4, Zenon DEF Tree
<1>7. ASSUME NEW d \in Disturbed
      PROVE  \E n \in New : n \notin DOMAIN files /\ files'[n] = files[d]
  <2>1. d \in F /\ ~(d \in DOMAIN files' /\ files'[d] = files[d])
    BY Zenon DEF Disturbed
  <2>2. m(d) # d
    BY <1>5, <2>1, Zenon
  <2>3. IsPrefix(p, d)
    BY <2>2, Zenon DEF MovedTo
  <2>4. m(d) \notin F \cup dirs
    BY <1>1, <1>2, <2>1, <2>3, MovedAside, Zenon
  <2>5. m(d) \in New
    BY <1>5, <2>1, <2>4, Zenon DEF New
  <2>. QED  BY <1>5, <2>1, <2>4, <2>5, Zenon
<1>. QED  BY <1>6, <1>7

\* Removal.
Removal(gone) ==
  files' = [p \in DOMAIN files \ gone |-> files[p]] /\ UNCHANGED dirs

\* ... and what it takes away.
LEMMA RemovalEffect ==
  ASSUME Tree, NEW gone \in SUBSET DOMAIN files, Removal(gone)
  PROVE  Tree' /\ Disturbed \subseteq gone /\ New = {}
<1>1. /\ DOMAIN files' = DOMAIN files \ gone /\ dirs' = dirs
      /\ \A p \in DOMAIN files \ gone : files'[p] = files[p]
  BY Zenon DEF Removal
<1>2. IsTree(DOMAIN files', dirs', Path)
  BY <1>1, Zenon DEF Tree, IsTree
<1>0. IsFiniteSet(DOMAIN files')
  <2>1. IsFiniteSet(DOMAIN files \ gone)
    BY FS_Subset, Zenon DEF Tree
  <2>. QED  BY <1>1, <2>1, Zenon
<1>3. Tree'
  BY <1>0, <1>1, <1>2, Zenon DEF Tree
<1>. QED  BY <1>1, <1>3, Zenon DEF Disturbed, New

-----------------------------------------------------------------------------
(* The paths and the contents that code writes *)

\* An element of a sequence.
LEMMA ElementAt ==
  ASSUME NEW Seg, NEW p \in Seq(Seg), NEW i \in DOMAIN p
  PROVE  p[i] \in Seg
BY ElementOfSeq

\* Two segments below a path are a path.
LEMMA TwoBelow ==
  ASSUME NEW Seg, NEW p \in Seq(Seg), NEW x \in Seg, NEW y \in Seg
  PROVE  p \o <<x, y>> \in Seq(Seg) /\ p \o <<x>> \in Seq(Seg)
<1>1. <<x, y>> \in Seq(Seg) /\ <<x>> \in Seq(Seg)
  OBVIOUS
<1>. QED  BY <1>1, ConcatProperties

\* Archive and lessons of a person are at a path.
LEMMA ReservedPaths ==
  ASSUME NEW h \in Home
  PROVE  Archive(h) \in Path /\ LessonsPath(h) \in Path
<1>1. h \in Seq(STRING)
  BY HomeIs, Zenon DEF Path
<1>2. Reserved \in STRING /\ Talks \in STRING /\ LessonsFile \in STRING
  BY NamesAreStrings, Zenon
<1>. QED  BY <1>1, <1>2, TwoBelow, Zenon DEF Archive, LessonsPath, Path

\* So is a transcript, and the name it gets is one that is free.
LEMMA FreeNameIs ==
  ASSUME NEW s \in Session, homeOf[s] \in Home, Free(s) # {}
  PROVE  FreeName(s) \in Path /\ ~IsFile(FreeName(s))
<1>. DEFINE i == CHOOSE k \in Free(s) : \A j \in Free(s) : k <= j
<1>1. Minute[s] \in Seq(STRING)
  BY MemoryConstants, Zenon DEF Path
<1>2. Free(s) \in SUBSET Nat
  <2>1. DOMAIN Minute[s] \subseteq Nat
    BY <1>1, ElementOfSeq
  <2>. QED  BY <2>1 DEF Free
<1>3. \E k \in Free(s) : \A j \in Free(s) : k <= j
  BY <1>2, LeastNumber
<1>4. i \in Free(s)
  BY <1>3, Zenon
<1>. HIDE DEF i
<1>5. i \in DOMAIN Minute[s] /\ ~IsFile(Named(s, i))
  BY <1>4, Zenon DEF Free
<1>6. Minute[s][i] \in STRING
  BY <1>1, <1>5, ElementAt
<1>7. Archive(homeOf[s]) \in Seq(STRING)
  BY ReservedPaths, Zenon DEF Path
<1>8. Named(s, i) \in Seq(STRING)
  BY <1>6, <1>7, TwoBelow, Zenon DEF Named
<1>9. FreeName(s) = Named(s, i)
  BY Zenon DEF FreeName, i
<1>. QED  BY <1>5, <1>8, <1>9, Zenon DEF Path

\* The old folder of a person is the home of one of the accounts.
LEMMA OldHomeIs ==
  ASSUME NEW h, OldHomes(h) # {}
  PROVE  OldHome(h) \in Home
<1>. DEFINE i == CHOOSE k \in OldHomes(h) : \A j \in OldHomes(h) : k <= j
<1>1. InOrder \in Seq(Account)
  BY MemoryConstants, Zenon
<1>2. OldHomes(h) \in SUBSET Nat
  <2>1. DOMAIN InOrder \subseteq Nat
    BY <1>1, ElementOfSeq
  <2>. QED  BY <2>1 DEF OldHomes
<1>3. \E k \in OldHomes(h) : \A j \in OldHomes(h) : k <= j
  BY <1>2, LeastNumber
<1>4. i \in DOMAIN InOrder
  BY <1>3, Zenon DEF OldHomes
<1>. HIDE DEF i
<1>5. InOrder[i] \in Account
  BY <1>1, <1>4, ElementAt
<1>6. OldHome(h) = LegacyHome[InOrder[i]]
  BY Zenon DEF OldHome, i
<1>. QED  BY <1>5, <1>6, Zenon DEF Home

\* Everybody tools are called for has homes.
LEMMA HomesOfAre ==
  ASSUME NEW a \in Account
  PROVE  HomesOf(a) \subseteq Home
BY Zenon DEF HomesOf, Home

\* Where an old file is moved to is a path.
LEMMA ProtectedIs ==
  ASSUME NEW Seg, NEW p \in Seq(Seg), Reserved \in Seg, NEW d \in Nat, d < Len(p)
  PROVE  Protected(p, d) \in Seq(Seg)
<1>. DEFINE a == SubSeq(p, 1, d)
            b == SubSeq(p, d + 1, Len(p))
<1>1. Len(p) \in Nat /\ d \in 0..Len(p)
  BY LenProperties
<1>2. a \in Seq(Seg) /\ Len(a) = d /\ IsPrefix(a, p)
  BY <1>1, BeginningIs
<1>3. Rel(a, p) \in Seq(Seg)
  BY <1>2, RelIs, Zenon
<1>4. b \in Seq(Seg)
  BY <1>2, <1>3, Zenon DEF Rel
<1>5. <<Reserved>> \in Seq(Seg)
  OBVIOUS
<1>. HIDE DEF a, b
<1>6. a \o <<Reserved>> \in Seq(Seg)
  BY <1>2, <1>5, ConcatProperties
<1>7. (a \o <<Reserved>>) \o b \in Seq(Seg)
  BY <1>4, <1>6, ConcatProperties
<1>8. Protected(p, d) = (a \o <<Reserved>>) \o b
  BY Zenon DEF Protected, a, b
<1>. QED  BY <1>7, <1>8

\* What MigrateReserved wants to move goes from paths to paths.
LEMMA MovesAre ==
  ASSUME Tree, NEW m \in Moves
  PROVE  m.from \in Path /\ m.to \in Path
<1>1. PICK p \in DOMAIN files : RootDepth(p) # 0 /\ m = [from |-> p, to |-> Protected(p, RootDepth(p))]
  BY Zenon DEF Moves, Unprotected
<1>2. p \in Seq(STRING)
  BY Zenon DEF Tree, IsTree, Path
<1>3. RootDepth(p) \in Nat /\ RootDepth(p) < Len(p)
  <2>1. LegacyAt(p, 2) => 2 < Len(p)
    BY DEF LegacyAt
  <2>2. LegacyAt(p, 3) => 3 < Len(p)
    BY DEF LegacyAt
  <2>. QED  BY <1>1, <2>1, <2>2 DEF RootDepth
<1>4. Reserved \in STRING
  BY NamesAreStrings, Zenon
<1>5. Protected(p, RootDepth(p)) \in Seq(STRING)
  BY <1>2, <1>3, <1>4, ProtectedIs, Zenon
<1>. QED  BY <1>1, <1>2, <1>5, Zenon DEF Path

-----------------------------------------------------------------------------
(* The lessons of a person *)

\* The end of a file from line k on.
IsCut(new, lines, k) ==
  /\ Len(new) = Len(lines) - k + 1
  /\ \A i \in 1..Len(new) : new[i] = lines[k + i - 1]

\* There it is.
LEMMA CutIs ==
  ASSUME NEW L, NEW lines \in Seq(L), NEW k \in 1..(Len(lines) + 1)
  PROVE  SubSeq(lines, k, Len(lines)) \in Seq(L) /\ IsCut(SubSeq(lines, k, Len(lines)), lines, k)
<1>. DEFINE n == Len(lines)
            c == SubSeq(lines, k, n)
<1>1. n \in Nat
  BY LenProperties
<1>2. \A i \in k..n : lines[i] \in L
  <2>1. \A i \in k..n : i \in 1..Len(lines)
    BY <1>1
  <2>. QED  BY <2>1, ElementOfSeq
<1>3. /\ c \in Seq(L) /\ Len(c) = (IF k <= n THEN n - k + 1 ELSE 0)
      /\ \A i \in 1..(n - k + 1) : c[i] = lines[k + i - 1]
  BY <1>1, <1>2, SubSeqProperties
<1>. HIDE DEF c
<1>4. Len(c) = n - k + 1
  BY <1>1, <1>3
<1>5. c \in Seq(L) /\ IsCut(c, lines, k)
  BY <1>3, <1>4 DEF IsCut
<1>. QED  BY <1>5 DEF c

\* What is learned comes after what was there, and nothing that comes after it
\* was there before.
Grown(old, lines) ==
  /\ Len(old) <= Len(lines) /\ \A i \in 1..Len(old) : lines[i] = old[i]
  /\ \A i, j \in 1..Len(lines) : i < j /\ j > Len(old) => KeyOf[lines[i]] # KeyOf[lines[j]]

\* One more lesson.
LEMMA LearnedOneMore ==
  ASSUME NEW L, NEW old \in Seq(L), NEW lines \in Seq(L), Grown(old, lines), NEW l \in L
  PROVE  LearnedToo(old, lines, l) \in Seq(L) /\ Grown(old, LearnedToo(old, lines, l))
<1>1. CASE LearnedToo(old, lines, l) = lines
  BY <1>1
<1>2. CASE LearnedToo(old, lines, l) # lines
  <2>. DEFINE new == Append(lines, l)
  <2>1. LearnedToo(old, lines, l) = new /\ \A i \in DOMAIN lines : KeyOf[lines[i]] # KeyOf[l]
    BY <1>2, Zenon DEF LearnedToo
  <2>2. /\ new \in Seq(L) /\ Len(new) = Len(lines) + 1
        /\ \A i \in 1..Len(lines) : new[i] = lines[i]
        /\ new[Len(lines) + 1] = l
    BY AppendProperties
  <2>3. Len(old) \in Nat /\ Len(lines) \in Nat /\ DOMAIN lines = 1..Len(lines)
    BY LenProperties
  <2>. HIDE DEF new
  <2>4. Len(old) <= Len(new) /\ \A i \in 1..Len(old) : new[i] = old[i]
    BY <2>2, <2>3 DEF Grown
  <2>5. ASSUME NEW i \in 1..Len(new), NEW j \in 1..Len(new), i < j, j > Len(old)
        PROVE  KeyOf[new[i]] # KeyOf[new[j]]
    <3>1. i \in 1..Len(lines) /\ new[i] = lines[i]
      BY <2>2, <2>3, <2>5
    <3>2. CASE j \in 1..Len(lines)
      <4>1. new[j] = lines[j]
        BY <2>2, <3>2
      <4>. QED  BY <2>5, <3>1, <3>2, <4>1 DEF Grown
    <3>3. CASE j \notin 1..Len(lines)
      <4>1. new[j] = l
        BY <2>2, <2>3, <3>3
      <4>. QED  BY <2>1, <2>3, <3>1, <4>1
    <3>. QED  BY <3>2, <3>3
  <2>. QED  BY <2>1, <2>2, <2>4, <2>5 DEF Grown
<1>. QED  BY <1>1, <1>2

\* A session's lessons.
LEMMA LearnedIs ==
  ASSUME NEW L, NEW old \in Seq(L), NEW new \in Seq(L)
  PROVE  Learned(old, new) \in Seq(L) /\ Grown(old, Learned(old, new))
<1>. DEFINE A == {lines \in Seq(L) : Grown(old, lines)}
<1>1. old \in A
  <2>1. Len(old) \in Nat
    BY LenProperties
  <2>. QED  BY <2>1 DEF Grown
<1>2. \A a \in A, x \in L : LearnedToo(old, a, x) \in A
  BY LearnedOneMore
<1>3. Learned(old, new) \in A
  BY <1>1, <1>2, LearnedKeeps
<1>. QED  BY <1>3

\* splitLines.
LEMMA LinesOfAre ==
  ASSUME Tree, NEW p
  PROVE  LinesOf(p) \in Seq(Line)
<1>1. <<>> \in Seq(Line)
  BY EmptySeq
<1>2. CASE IsFile(p)
  <2>1. files[p] \in Seq(Line)
    BY <1>2, Zenon DEF IsFile, Tree
  <2>2. \A a \in Seq(Line), x \in Line : Unblank(a, x) \in Seq(Line)
    BY AppendProperties DEF Unblank
  <2>3. FoldLeft(Unblank, <<>>, files[p]) \in Seq(Line)
    BY <1>1, <2>1, <2>2, UnblankKeeps
  <2>. QED  BY <1>2, <2>3, Zenon DEF LinesOf
<1>. QED  BY <1>1, <1>2, Zenon DEF LinesOf

\* An empty file has no bytes.
LEMMA NoLinesNoSize ==
  Size(<<>>) = 0
<1>. DEFINE G == [S \in SUBSET {} |-> 0]
            step(n, l) == n + LineSize[l]
            Fold(f) == f = [S \in SUBSET {} |-> IF S = {} THEN 0 ELSE
                         LET x == Max(S) IN step(f[S \ {x}], <<>>[x])]
            F == CHOOSE f : Fold(f)
<1>1. DOMAIN <<>> = {}
  OBVIOUS
<1>2. Size(<<>>) = F[{}]
  BY <1>1, Zenon DEF Size, FoldLeft, MapThenFoldSet
<1>3. Fold(G)
  <2>1. \A S \in SUBSET {} : S = {}
    OBVIOUS
  <2>. QED  BY <2>1, Zenon
<1>4. Fold(F)
  BY <1>3, Zenon
<1>5. F[{}] = 0
  BY <1>4, Zenon
<1>. QED  BY <1>2, <1>5

\* trimToBytes.
LEMMA TrimmedIs ==
  ASSUME NEW L, NEW lines \in Seq(L)
  PROVE  \E k \in 1..(Len(lines) + 1) :
           /\ Trimmed(lines) \in Seq(L) /\ IsCut(Trimmed(lines), lines, k)
           /\ Size(Trimmed(lines)) <= LessonsMax \/ Len(Trimmed(lines)) = 1
<1>1. CASE lines = <<>>
  <2>1. Trimmed(lines) = lines /\ Len(lines) = 0 /\ 1 \in 1..(Len(lines) + 1)
    BY <1>1, EmptySeq DEF Trimmed
  <2>2. IsCut(lines, lines, 1)
    BY <2>1 DEF IsCut
  <2>3. Size(Trimmed(lines)) <= LessonsMax
    BY <1>1, <2>1, NoLinesNoSize, MemoryConstants
  <2>. QED  BY <2>1, <2>2, <2>3
<1>2. CASE lines # <<>>
  <2>. DEFINE n == Len(lines)
              c(k) == SubSeq(lines, k, n)
              fits == {k \in DOMAIN lines : Size(c(k)) <= LessonsMax \/ k = n}
              first == CHOOSE k \in fits : \A j \in fits : k <= j
  <2>1. n \in Nat \ {0} /\ DOMAIN lines = 1..n
    BY <1>2, EmptySeq, LenProperties
  <2>2. Trimmed(lines) = c(first)
    BY <1>2, Zenon DEF Trimmed
  <2>3. n \in fits /\ fits \in SUBSET Nat
    BY <2>1
  <2>4. \E k \in fits : \A j \in fits : k <= j
    <3>. HIDE DEF fits
    <3>. QED  BY <2>3, LeastNumber
  <2>5. first \in fits
    <3>. HIDE DEF fits
    <3>. QED  BY <2>4, Zenon
  <2>6. first \in 1..n /\ (Size(c(first)) <= LessonsMax \/ first = n)
    <3>. HIDE DEF first
    <3>. QED  BY <2>1, <2>5, Zenon
  <2>. HIDE DEF first, fits
  <2>7. first \in 1..(n + 1)
    <3>1. n \in Nat /\ first \in 1..n
      BY <2>1, <2>6, Zenon
    <3>. HIDE DEF n, c
    <3>. QED  BY <3>1
  <2>8. c(first) \in Seq(L) /\ IsCut(c(first), lines, first)
    BY <2>7, CutIs
  <2>9. first = n => Len(c(first)) = 1
    <3>. HIDE DEF c
    <3>. QED  BY <2>1, <2>8 DEF IsCut
  <2>. HIDE DEF c
  <2>. QED  BY <2>2, <2>6, <2>7, <2>8, <2>9
<1>. QED  BY <1>1, <1>2

\* Nothing is counted that is not there.
LEMMA CountNone ==
  ASSUME NEW lines, NEW k, \A i \in DOMAIN lines : KeyOf[lines[i]] # k
  PROVE  Count(k, lines) = 0
<1>1. {i \in DOMAIN lines : KeyOf[lines[i]] = k} = {}
  BY Zenon
<1>. QED  BY <1>1, FS_EmptySet, Zenon DEF Count

\* What learning and trimming leave of a file says nothing more often than the
\* file did, or once.
LEMMA LessonsOnce ==
  ASSUME NEW L, NEW old \in Seq(L), NEW lines \in Seq(L), Grown(old, lines),
         NEW k \in 1..(Len(lines) + 1), NEW new \in Seq(L), IsCut(new, lines, k),
         NEW i \in DOMAIN new
  PROVE  \/ Count(KeyOf[new[i]], new) <= 1
         \/ Count(KeyOf[new[i]], new) <= Count(KeyOf[new[i]], old)
<1>. DEFINE key == KeyOf[new[i]]
            S == {x \in DOMAIN new : KeyOf[new[x]] = key}
            T == {y \in DOMAIN old : KeyOf[old[y]] = key}
<1>1. /\ Len(new) \in Nat /\ Len(old) \in Nat /\ Len(lines) \in Nat
      /\ DOMAIN new = 1..Len(new) /\ DOMAIN old = 1..Len(old)
  BY LenProperties
<1>2. \A x \in DOMAIN new : new[x] = lines[k + x - 1] /\ k + x - 1 \in 1..Len(lines)
  BY <1>1 DEF IsCut
<1>3. Count(key, new) = Cardinality(S) /\ Count(key, old) = Cardinality(T)
  BY Zenon DEF Count
<1>. HIDE DEF key
<1>4. CASE \E x \in S : k + x - 1 > Len(old)
  <2>1. PICK x \in S : k + x - 1 > Len(old)
    BY <1>4
  <2>2. ASSUME NEW y \in S, y # x PROVE FALSE
    <3>1. x \in Nat /\ y \in Nat /\ k \in Nat
      BY <1>1
    <3>2. KeyOf[lines[k + x - 1]] = KeyOf[lines[k + y - 1]]
      BY <1>2
    <3>3. k + x - 1 \in 1..Len(lines) /\ k + y - 1 \in 1..Len(lines)
      BY <1>2
    <3>4. CASE x < y
      <4>1. k + x - 1 < k + y - 1 /\ k + y - 1 > Len(old)
        BY <1>1, <2>1, <3>1, <3>4
      <4>. QED  BY <3>2, <3>3, <4>1 DEF Grown
    <3>5. CASE y < x
      <4>1. k + y - 1 < k + x - 1
        BY <1>1, <2>1, <3>1, <3>5
      <4>. QED  BY <2>1, <3>2, <3>3, <4>1 DEF Grown
    <3>. QED  BY <2>2, <3>1, <3>4, <3>5
  <2>3. S = {x}
    <3>. HIDE DEF S
    <3>. QED  BY <2>1, <2>2, Zenon
  <2>4. Cardinality(S) = 1
    BY <2>3, FS_Singleton, Zenon
  <2>. QED  BY <1>3, <2>4 DEF key
<1>5. CASE \A x \in S : k + x - 1 <= Len(old)
  <2>. DEFINE g == [x \in S |-> k + x - 1]
  <2>1. ASSUME NEW x \in S PROVE g[x] \in T
    <3>1. k + x - 1 \in 1..Len(old) /\ new[x] = lines[k + x - 1]
      BY <1>1, <1>2, <1>5
    <3>2. lines[k + x - 1] = old[k + x - 1]
      BY <3>1 DEF Grown
    <3>3. KeyOf[old[k + x - 1]] = key
      BY <3>1, <3>2
    <3>. QED  BY <1>1, <3>1, <3>3
  <2>2. \A x, y \in S : g[x] = g[y] => x = y
    BY <1>1
  <2>3. g \in Injection(S, T)
    <3>1. g \in [S -> T]
      <4>. HIDE DEF T
      <4>. QED  BY <2>1
    <3>. HIDE DEF g, S, T
    <3>. QED  BY <2>2, <3>1 DEF Injection, IsInjective
  <2>4. IsFiniteSet(T)
    <3>1. IsFiniteSet(1..Len(old)) /\ T \in SUBSET (1..Len(old))
      BY <1>1, FS_Interval
    <3>. QED  BY <3>1, FS_Subset
  <2>5. Cardinality(S) <= Cardinality(T)
    <3>. HIDE DEF g, S, T
    <3>. QED  BY <2>3, <2>4, FS_Injection
  <2>. QED  BY <1>3, <2>5 DEF key
<1>6. \A x \in S : k + x - 1 \in Int
  BY <1>1
<1>. QED  BY <1>1, <1>4, <1>5, <1>6

\* ... and it is the newest of those lines, and after them others.
LEMMA LessonsNewest ==
  ASSUME NEW L, NEW old \in Seq(L), NEW lines \in Seq(L), Grown(old, lines),
         NEW k \in 1..(Len(lines) + 1), NEW new \in Seq(L), IsCut(new, lines, k)
  PROVE  \E n \in 0..Len(old) :
           /\ IsPrefix(SubSeq(old, Len(old) - n + 1, Len(old)), new)
           /\ \A i \in (n + 1)..Len(new) : Count(KeyOf[new[i]], old) = 0
<1>1. /\ Len(new) \in Nat /\ Len(old) \in Nat /\ Len(lines) \in Nat
      /\ DOMAIN new = 1..Len(new) /\ DOMAIN old = 1..Len(old)
  BY LenProperties
<1>2. /\ Len(new) = Len(lines) - k + 1 /\ Len(old) <= Len(lines)
      /\ \A x \in 1..Len(new) : new[x] = lines[k + x - 1] /\ k + x - 1 \in 1..Len(lines)
  BY <1>1 DEF IsCut, Grown
<1>. DEFINE n == IF k > Len(old) THEN 0 ELSE Len(old) - k + 1
            j == Len(old) - n + 1
            b == SubSeq(old, j, Len(old))
<1>a. k \in Nat /\ k >= 1 /\ k <= Len(lines) + 1
  BY <1>1
<1>b. /\ k > Len(old) => n = 0 /\ j = Len(old) + 1
      /\ k <= Len(old) => n = Len(old) - k + 1 /\ j = k
  <2>1. /\ k > Len(old) => n = 0
        /\ ~(k > Len(old)) => n = Len(old) - k + 1
    BY Zenon
  <2>2. j = Len(old) - n + 1
    BY Zenon
  <2>. HIDE DEF n, j
  <2>. QED  BY <1>1, <1>a, <2>1, <2>2
<1>c. n \in Int /\ j \in Int
  BY <1>1, <1>a
<1>3. n \in 0..Len(old) /\ j \in 1..(Len(old) + 1) /\ n <= Len(new)
  <2>. HIDE DEF n, j
  <2>1. CASE k > Len(old)
    BY <1>1, <1>2, <1>a, <1>b, <2>1
  <2>2. CASE k <= Len(old)
    BY <1>1, <1>2, <1>a, <1>b, <2>2
  <2>. QED  BY <1>1, <1>a, <2>1, <2>2
<1>4. \A i \in 1..n : i \in 1..Len(new) /\ k + i - 1 \in 1..Len(old) /\ j + i - 1 = k + i - 1
  <2>. HIDE DEF n, j
  <2>. SUFFICES ASSUME NEW i \in 1..n
                PROVE  i \in 1..Len(new) /\ k + i - 1 \in 1..Len(old) /\ j + i - 1 = k + i - 1
    OBVIOUS
  <2>1. n # 0
    BY <1>c
  <2>2. k <= Len(old)
    BY <1>1, <1>a, <1>b, <2>1
  <2>. QED  BY <1>1, <1>2, <1>a, <1>b, <2>2
<1>5. \A i \in (n + 1)..Len(new) : i \in 1..Len(new) /\ k + i - 1 > Len(old)
  BY <1>1, <1>2
<1>6. Len(old) - j + 1 = n
  BY <1>1
<1>. HIDE DEF n, j
<1>7. b \in Seq(L) /\ IsCut(b, old, j)
  BY <1>3, CutIs
<1>. HIDE DEF b
<1>8. IsPrefix(b, new)
  <2>1. Len(b) = n /\ \A i \in 1..n : b[i] = old[j + i - 1]
    BY <1>6, <1>7 DEF IsCut
  <2>2. \A i \in 1..n : b[i] = new[i]
    <3>. SUFFICES ASSUME NEW i \in 1..n PROVE b[i] = new[i]
      OBVIOUS
    <3>1. b[i] = old[k + i - 1] /\ new[i] = lines[k + i - 1]
      BY <1>2, <1>4, <2>1
    <3>. QED  BY <1>4, <3>1 DEF Grown
  <2>. QED  BY <1>3, <1>7, <2>1, <2>2, PrefixIs
<1>9. ASSUME NEW i \in (n + 1)..Len(new) PROVE Count(KeyOf[new[i]], old) = 0
  <2>1. i \in 1..Len(new) /\ k + i - 1 > Len(old)
    BY <1>5
  <2>2. new[i] = lines[k + i - 1] /\ k + i - 1 \in 1..Len(lines)
    BY <1>2, <2>1
  <2>3. ASSUME NEW y \in DOMAIN old PROVE KeyOf[old[y]] # KeyOf[new[i]]
    <3>1. y \in 1..Len(lines) /\ y < k + i - 1 /\ old[y] = lines[y]
      BY <1>1, <1>2, <2>1, <2>2 DEF Grown
    <3>. QED  BY <2>1, <2>2, <3>1 DEF Grown
  <2>. QED  BY <2>3, CountNone, Zenon
<1>. QED  BY <1>3, <1>8, <1>9 DEF b, j

-----------------------------------------------------------------------------
(* What the steps do to the tree *)

\* What MigrateReserved still wants to move goes from paths to paths.
Migrating == phase = "migrating" => \A m \in todo : m.from \in Path /\ m.to \in Path

\* The invariant.
Inv == TypeOK /\ Migrating

\* With the shape of the state the files are a tree.
LEMMA TypedTree ==
  ASSUME TypeOK
  PROVE  Tree
<1>1. /\ \A p \in DOMAIN files : p \in Path /\ files[p] \in Seq(Line) /\ Above(p) \subseteq dirs
      /\ dirs \cap DOMAIN files = {} /\ \A d \in dirs : d \in Path /\ Above(d) \subseteq dirs
  BY Zenon DEF TypeOK
<1>2. DOMAIN files \cap dirs = {}
  BY <1>1, Zenon
<1>3. IsFiniteSet(DOMAIN files)
  BY Zenon DEF TypeOK
<1>. QED  BY <1>1, <1>2, <1>3, Zenon DEF Tree, IsTree

\* What a step of the code may take from the tree.
Spared ==
  \A p \in Disturbed :
    IF phase = "up" THEN ~InReserved(p) \/ \E h \in Home : p = LessonsPath(h)
    ELSE \E q \in New : q \notin DOMAIN files /\ files'[q] = files[p]

\* A path that a tool, called for a, may reach.
Reached(a, p) ==
  \E root \in HomesOf(a) \cup {Shared} :
    IsPrefix(root, p) /\ ~ReservedRel(root, p) /\ Up \notin Range(p)

\* That is in no reserved area.
LEMMA ReachedIs ==
  ASSUME NEW a \in Account, NEW p \in Path, Reached(a, p)
  PROVE  ~InReserved(p)
<1>1. PICK root \in HomesOf(a) \cup {Shared} : IsPrefix(root, p) /\ ~ReservedRel(root, p)
  BY Zenon DEF Reached
<1>2. root \in Home \cup {Shared}
  BY HomesOfAre, Zenon
<1>. QED  BY <1>1, <1>2, NotReserved, Zenon

\* When nothing happens to the tree it is what it was.
LEMMA Unchanged ==
  ASSUME Tree, UNCHANGED tree
  PROVE  Tree' /\ Disturbed = {} /\ New = {}
<1>1. files' = files /\ dirs' = dirs
  BY Zenon DEF tree
<1>2. Tree'
  BY <1>1, Zenon DEF Tree, IsTree
<1>. QED  BY <1>1, <1>2, Zenon DEF Disturbed, New

\* A path that a tool is given.
LEMMA ToolPath ==
  ASSUME NEW root \in Home \cup {Shared}, NEW raw \in Relative, Join(root, raw) # None
  PROVE  /\ Join(root, raw) \in Path /\ IsPrefix(root, Join(root, raw))
         /\ Up \notin Range(Join(root, raw))
<1>1. root \in Seq(STRING) /\ Up \notin Range(root)
  BY HomeIs, Zenon DEF Path
<1>2. raw \in Seq(STRING)
  BY MemoryConstants, Zenon DEF Path
<1>. QED  BY <1>1, <1>2, JoinIs, Zenon DEF Path

\* What a tool writes.
LEMMA ToolWrites ==
  ASSUME Tree, NEW a \in Account, NEW h \in HomesOf(a), NEW root \in {h, Shared},
         NEW raw \in Relative, NEW n \in Note, MemoryWrite(root, raw, n) \/ MemoryAppend(root, raw, n)
  PROVE  Tree' /\ \A p \in Disturbed \cup New : Reached(a, p)
<1>. DEFINE p == Join(root, raw)
<1>1. n \in Line
  BY MemoryConstants, Zenon
<1>2. <<n>> \in Seq(Line)
  BY <1>1
<1>3. p # None /\ ~ReservedRel(root, p)
  BY Zenon DEF MemoryWrite, MemoryAppend, MayWrite
<1>4. root \in HomesOf(a) \cup {Shared} /\ root \in Home \cup {Shared}
  BY HomesOfAre, Zenon
<1>5. p \in Path /\ IsPrefix(root, p) /\ Up \notin Range(p)
  BY <1>3, <1>4, ToolPath, Zenon
<1>6. PICK lines \in Seq(Line) : CanWrite(p, lines) /\ Put(p, lines)
  <2>1. CASE MemoryWrite(root, raw, n)
    BY <1>2, <2>1, Zenon DEF MemoryWrite
  <2>2. CASE MemoryAppend(root, raw, n)
    <3>. DEFINE lines == IF IsFile(p) THEN Append(files[p], n) ELSE <<n>>
    <3>1. IsFile(p) => files[p] \in Seq(Line)
      BY Zenon DEF IsFile, Tree
    <3>2. IsFile(p) => Append(files[p], n) \in Seq(Line)
      <4>. HIDE DEF p
      <4>. QED  BY <1>1, <3>1, AppendProperties
    <3>3. lines \in Seq(Line)
      BY <1>2, <3>2, Zenon
    <3>. QED  BY <2>2, <3>3, Zenon DEF MemoryAppend
  <2>. QED  BY <2>1, <2>2, Zenon
<1>7. Tree' /\ Disturbed \subseteq {p} \cap DOMAIN files /\ New \subseteq {p}
  BY <1>5, <1>6, PutEffect, Zenon
<1>8. Reached(a, p)
  BY <1>3, <1>4, <1>5, Zenon DEF Reached
<1>. QED  BY <1>7, <1>8, Zenon

\* What a tool deletes.
LEMMA ToolDeletes ==
  ASSUME Tree, NEW a \in Account, NEW h \in HomesOf(a),
         MemoryDelete({h, Shared} \X (Relative \ {<<>>}))
  PROVE  Tree' /\ \A p \in Disturbed \cup New : Reached(a, p)
<1>. DEFINE named == {h, Shared} \X (Relative \ {<<>>})
            there == {p \in {Join(t[1], t[2]) : t \in named} \ {None} : IsFile(p) /\ ~UnderReserved(p)}
<1>1. PICK gone \in SUBSET there : Removal(gone)
  BY Zenon DEF MemoryDelete, Removal
<1>2. ASSUME NEW p \in gone PROVE p \in DOMAIN files /\ Reached(a, p)
  <2>1. IsFile(p) /\ ~UnderReserved(p) /\ p # None
    BY <1>1, <1>2, Zenon
  <2>2. PICK t \in named : p = Join(t[1], t[2])
    BY <1>1, <1>2, Zenon
  <2>3. t[1] \in {h, Shared} /\ t[2] \in Relative
    BY <2>2
  <2>4. t[1] \in HomesOf(a) \cup {Shared} /\ t[1] \in Home \cup {Shared}
    BY <2>3, HomesOfAre, Zenon
  <2>5. p \in Path /\ IsPrefix(t[1], p) /\ Up \notin Range(p)
    BY <2>1, <2>2, <2>3, <2>4, ToolPath, Zenon
  <2>6. ~ReservedRel(t[1], p)
    BY <2>1, <2>4, <2>5, NotUnderReserved, Zenon
  <2>. QED  BY <2>1, <2>4, <2>5, <2>6, Zenon DEF Reached, IsFile
<1>3. gone \in SUBSET DOMAIN files
  BY <1>2, Zenon
<1>4. Tree' /\ Disturbed \subseteq gone /\ New = {}
  BY <1>1, <1>3, RemovalEffect, Zenon
<1>. QED  BY <1>2, <1>4, Zenon

\* What a tool does.
LEMMA ToolCallReaches ==
  ASSUME Tree, NEW a \in Account, ToolCall(a)
  PROVE  Tree' /\ \A p \in Disturbed \cup New : Reached(a, p)
<1>1. PICK h \in HomesOf(a) :
        \/ \E root \in {h, Shared}, raw \in Relative, n \in Note :
             MemoryWrite(root, raw, n) \/ MemoryAppend(root, raw, n)
        \/ MemoryDelete({h, Shared} \X (Relative \ {<<>>}))
  BY Zenon DEF ToolCall
<1>2. CASE MemoryDelete({h, Shared} \X (Relative \ {<<>>}))
  BY <1>2, ToolDeletes, Zenon
<1>3. ASSUME NEW root \in {h, Shared}, NEW raw \in Relative, NEW n \in Note,
             MemoryWrite(root, raw, n) \/ MemoryAppend(root, raw, n)
      PROVE  Tree' /\ \A p \in Disturbed \cup New : Reached(a, p)
  BY <1>3, ToolWrites, Zenon
<1>. QED  BY <1>1, <1>2, <1>3, Zenon

\* A rename at the start.
LEMMA StartRenames ==
  ASSUME Tree, phase # "up", NEW p \in Path, NEW q \in Path, CanRename(p, q), Rename(p, q)
  PROVE  Tree' /\ Spared
BY RenameEffect, Zenon DEF Spared

\* A write of the code's own, or one that ends half-way.
LEMMA CodeWrites ==
  ASSUME Tree, phase = "up", NEW p \in Path, NEW lines \in Seq(Line), CanWrite(p, lines), Put(p, lines),
         ~IsFile(p) \/ ~InReserved(p) \/ \E h \in Home : p = LessonsPath(h)
  PROVE  Tree' /\ Spared
<1>1. Tree' /\ Disturbed \subseteq {p} \cap DOMAIN files
  BY PutEffect, Zenon
<1>. QED  BY <1>1, Zenon DEF Spared, IsFile

-----------------------------------------------------------------------------
(* Every step *)

\* A person is given the old folder.
LEMMA LinkPersonStep ==
  ASSUME Inv, NEW h \in People, LinkPerson(h)
  PROVE  Tree' /\ Spared
<1>1. Tree /\ phase # "up"
  BY TypedTree DEF Inv, LinkPerson
<1>2. CASE UNCHANGED tree
  BY <1>1, <1>2, Unchanged, Zenon DEF Spared
<1>3. CASE ~UNCHANGED tree
  <2>1. OldHomes(h) # {} /\ CanRename(OldHome(h), h) /\ Rename(OldHome(h), h)
    BY <1>3, Zenon DEF LinkPerson
  <2>2. OldHome(h) \in Path /\ h \in Path
    BY <2>1, OldHomeIs, HomeIs, Zenon DEF People, Home
  <2>. QED  BY <1>1, <2>1, <2>2, StartRenames, Zenon
<1>. QED  BY <1>2, <1>3

\* An old file is moved into the reserved area.
LEMMA MoveOldStep ==
  ASSUME Inv, NEW m \in todo, MoveOld(m)
  PROVE  Tree' /\ Spared
<1>1. Tree /\ phase = "migrating"
  BY TypedTree, Zenon DEF Inv, MoveOld
<1>2. phase # "up"
  BY <1>1
<1>3. CASE UNCHANGED tree
  BY <1>1, <1>3, Unchanged, Zenon DEF Spared
<1>4. CASE ~UNCHANGED tree
  <2>1. CanRename(m.from, m.to) /\ Rename(m.from, m.to)
    BY <1>4, Zenon DEF MoveOld
  <2>2. m.from \in Path /\ m.to \in Path
    BY <1>1, Zenon DEF Inv, Migrating
  <2>. QED  BY <1>1, <1>2, <2>1, <2>2, StartRenames, Zenon
<1>. QED  BY <1>3, <1>4

\* A session that is open has a home.
LEMMA OpenHas ==
  ASSUME TypeOK, NEW s \in open
  PROVE  s \in Session /\ homeOf[s] \in Home
BY Zenon DEF TypeOK

\* A transcript is written.
LEMMA ArchiveStep ==
  ASSUME Inv, NEW s \in Session, ArchiveTranscript(s)
  PROVE  Tree' /\ Spared
<1>1. /\ Tree /\ phase = "up" /\ s \in open /\ Free(s) # {}
      /\ CanWrite(FreeName(s), <<s>>) /\ Put(FreeName(s), <<s>>)
  BY TypedTree, Zenon DEF Inv, ArchiveTranscript
<1>2. s \in Line
  BY MemoryConstants, Zenon
<1>3. <<s>> \in Seq(Line)
  BY <1>2
<1>4. FreeName(s) \in Path /\ ~IsFile(FreeName(s))
  BY <1>1, OpenHas, FreeNameIs, Zenon DEF Inv
<1>. QED  BY <1>1, <1>3, <1>4, CodeWrites, Zenon

\* The lessons are written.
LEMMA ReflectStep ==
  ASSUME Inv, NEW s \in Session, Reflect(s)
  PROVE  Tree' /\ Spared
<1>. DEFINE p == LessonsPath(homeOf[s])
            lines == Trimmed(Learned(LinesOf(p), Lessons[s]))
<1>1. Tree /\ phase = "up" /\ s \in learning
  BY TypedTree, Zenon DEF Inv, Reflect
<1>2. CASE UNCHANGED tree
  BY <1>1, <1>2, Unchanged, Zenon DEF Spared
<1>3. CASE ~UNCHANGED tree
  <2>1. CanWrite(p, lines) /\ Put(p, lines)
    BY <1>3, Zenon DEF Reflect, AppendLessons
  <2>2. homeOf[s] \in Home
    BY <1>1, OpenHas, Zenon DEF Inv, TypeOK
  <2>3. p \in Path
    BY <2>2, ReservedPaths, Zenon
  <2>4. Lessons[s] \in Seq(Line) /\ LinesOf(p) \in Seq(Line)
    BY <1>1, MemoryConstants, LinesOfAre, Zenon
  <2>5. Learned(LinesOf(p), Lessons[s]) \in Seq(Line)
    BY <2>4, LearnedIs, Zenon
  <2>6. lines \in Seq(Line)
    BY <2>5, TrimmedIs, Zenon
  <2>. QED  BY <1>1, <2>1, <2>2, <2>3, <2>6, CodeWrites, Zenon
<1>. QED  BY <1>2, <1>3

\* The process ends in the middle of a write.
LEMMA StopInWriteStep ==
  ASSUME Inv, StopInWrite
  PROVE  Tree' /\ Spared
<1>1. Tree /\ phase = "up"
  BY TypedTree, Zenon DEF Inv, StopInWrite
<1>2. <<>> \in Seq(Line)
  BY EmptySeq
<1>3. PICK p \in {FreeName(s) : s \in {t \in open \ learning : Free(t) # {}}}
              \cup {LessonsPath(homeOf[s]) : s \in learning}
              \cup {Join(t[1], t[2]) : t \in {u \in WritableRoots \X Relative : MayWrite(u[1], u[2])}} :
        CanWrite(p, <<>>) /\ Put(p, <<>>)
  BY Zenon DEF StopInWrite
<1>4. CASE p \in {FreeName(s) : s \in {t \in open \ learning : Free(t) # {}}}
  <2>1. PICK s \in open : p = FreeName(s) /\ Free(s) # {}
    BY <1>4, Zenon
  <2>2. p \in Path /\ ~IsFile(p)
    BY <2>1, OpenHas, FreeNameIs, Zenon DEF Inv
  <2>. QED  BY <1>1, <1>2, <1>3, <2>2, CodeWrites, Zenon
<1>5. CASE p \in {LessonsPath(homeOf[s]) : s \in learning}
  <2>1. PICK s \in open : p = LessonsPath(homeOf[s])
    BY <1>5, Zenon DEF Inv, TypeOK
  <2>2. homeOf[s] \in Home
    BY <2>1, OpenHas, Zenon DEF Inv
  <2>3. p \in Path
    BY <2>1, <2>2, ReservedPaths, Zenon
  <2>. QED  BY <1>1, <1>2, <1>3, <2>1, <2>2, <2>3, CodeWrites, Zenon
<1>6. CASE p \in {Join(t[1], t[2]) : t \in {u \in WritableRoots \X Relative : MayWrite(u[1], u[2])}}
  <2>1. PICK t \in WritableRoots \X Relative : MayWrite(t[1], t[2]) /\ p = Join(t[1], t[2])
    BY <1>6, Zenon
  <2>2. t[1] \in WritableRoots /\ t[2] \in Relative
    BY <2>1
  <2>3. t[1] \in Home \cup {Shared}
    <3>1. \A r \in WritableRoots : r = Shared \/ \E a \in Account : r \in HomesOf(a)
      <4>. DEFINE U == UNION {HomesOf(a) : a \in Account}
      <4>1. WritableRoots = U \cup {Shared}
        BY Zenon DEF WritableRoots
      <4>. SUFFICES ASSUME NEW r \in WritableRoots, r # Shared PROVE \E a \in Account : r \in HomesOf(a)
        OBVIOUS
      <4>2. r \in U
        <5>. HIDE DEF U
        <5>. QED  BY <4>1, Zenon
      <4>3. PICK X \in {HomesOf(a) : a \in Account} : r \in X
        BY <4>2, Zenon
      <4>. QED  BY <4>3, Zenon
    <3>. QED  BY <2>2, <3>1, HomesOfAre, Zenon
  <2>4. p # None /\ ~ReservedRel(t[1], p)
    BY <2>1, Zenon DEF MayWrite
  <2>5. p \in Path /\ IsPrefix(t[1], p)
    BY <2>1, <2>2, <2>3, <2>4, ToolPath, Zenon
  <2>6. ~InReserved(p)
    BY <2>3, <2>4, <2>5, NotReserved, Zenon
  <2>. QED  BY <1>1, <1>2, <1>3, <2>5, <2>6, CodeWrites, Zenon
<1>. QED  BY <1>3, <1>4, <1>5, <1>6, Zenon

\* Every step keeps the tree, and takes from it no more than it may.
LEMMA TreeStep ==
  ASSUME Inv, [Next]_vars
  PROVE  Tree' /\ Spared
<1>. Tree
  BY TypedTree, Zenon DEF Inv
<1>1. CASE UNCHANGED tree
  BY <1>1, Unchanged, Zenon DEF Spared
<1>2. ASSUME NEW h \in People, LinkPerson(h) PROVE Tree' /\ Spared
  BY <1>2, LinkPersonStep, Zenon
<1>3. ASSUME NEW m \in todo, MoveOld(m) PROVE Tree' /\ Spared
  BY <1>3, MoveOldStep, Zenon
<1>4. ASSUME NEW a \in Account, ToolCall(a) PROVE Tree' /\ Spared
  <2>1. phase = "up"
    BY <1>4, Zenon DEF ToolCall, Call
  <2>2. Tree' /\ \A p \in Disturbed \cup New : Reached(a, p)
    BY <1>4, ToolCallReaches, Zenon
  <2>3. \A p \in Disturbed : p \in Path
    BY Zenon DEF Disturbed, Tree, IsTree
  <2>. QED  BY <2>1, <2>2, <2>3, ReachedIs, Zenon DEF Spared
<1>5. ASSUME NEW s \in Session, Begin(s) \/ ArchiveTranscript(s) \/ Reflect(s)
      PROVE  Tree' /\ Spared
  <2>1. Begin(s) => UNCHANGED tree
    BY Zenon DEF Begin
  <2>. QED  BY <1>1, <1>5, <2>1, ArchiveStep, ReflectStep, Zenon
<1>6. CASE StopInWrite
  BY <1>6, StopInWriteStep, Zenon
<1>7. Start \/ ListOld \/ Started \/ Stop \/ UNCHANGED vars => UNCHANGED tree
  BY Zenon DEF Start, ListOld, Started, Stop, vars
<1>. QED  BY <1>1, <1>2, <1>3, <1>4, <1>5, <1>6, <1>7, Zenon DEF Next

-----------------------------------------------------------------------------
(* The invariant, and what follows from it *)

\* The trees a run starts from are trees.
LEMMA InitTree ==
  ASSUME Init
  PROVE  Tree
<1>. DEFINE F == DOMAIN files
<1>1. files \in OldFiles /\ dirs = UNION {Above(p) : p \in F}
  BY Zenon DEF Init
<1>2. \A p \in F : p \in Seq(STRING) /\ files[p] \in Seq(Line) /\ \A q \in F : IsPrefix(p, q) => p = q
  BY <1>1, OldTrees, Zenon DEF Path
<1>3. ASSUME NEW d \in dirs PROVE d \in Seq(STRING) /\ d \notin F /\ Above(d) \subseteq dirs
  <2>1. PICK p \in F : d \in Above(p)
    BY <1>1, <1>3, Zenon
  <2>2. d \in Seq(STRING) /\ IsPrefix(d, p) /\ Len(d) < Len(p)
    BY <1>2, <2>1, AboveIs, Zenon
  <2>3. d # p
    BY <1>2, <2>2, LenProperties
  <2>4. d \notin F
    BY <1>2, <2>2, <2>3, Zenon
  <2>5. ASSUME NEW e \in Above(d) PROVE e \in dirs
    <3>1. e \in Seq(STRING) /\ IsPrefix(e, d) /\ Len(e) < Len(d)
      BY <2>2, <2>5, AboveIs, Zenon
    <3>2. IsPrefix(e, p)
      BY <1>2, <2>2, <3>1, PrefixTransitive, Zenon
    <3>3. Len(e) < Len(p)
      <4>1. Len(e) \in Nat /\ Len(d) \in Nat /\ Len(p) \in Nat
        BY <1>2, <2>2, <3>1, LenProperties, Zenon
      <4>. QED  BY <2>2, <3>1, <4>1
    <3>4. e \in Above(p)
      BY <1>2, <3>1, <3>2, <3>3, AboveIs, Zenon
    <3>. QED  BY <1>1, <3>4, Zenon
  <2>. QED  BY <2>2, <2>4, <2>5, Zenon
<1>4. \A p \in F : Above(p) \subseteq dirs
  BY <1>1, Zenon
<1>5. IsFiniteSet(F)
  BY <1>1, OldTrees, Zenon
<1>. QED  BY <1>2, <1>3, <1>4, <1>5, Zenon DEF Tree, IsTree, Path

\* The rest of the state.
Rest ==
  /\ phase \in {"down", "linking", "migrating", "up"} /\ linked \in BOOLEAN
  /\ homeOf \in [Session -> Home \cup {None}]
  /\ learning \subseteq open /\ open \subseteq Session /\ \A s \in open : homeOf[s] # None
  /\ calls \in 0..MaxCalls /\ stops \in 0..MaxStops

\* The shape of the state is these two.
LEMMA Typed ==
  TypeOK <=> Tree /\ Rest
<1>1. TypeOK => Tree /\ Rest
  BY TypedTree, Zenon DEF TypeOK, Rest
<1>2. ASSUME Tree, Rest PROVE TypeOK
  <2>1. \A p \in DOMAIN files : p \in Path /\ files[p] \in Seq(Line) /\ Above(p) \subseteq dirs
    BY <1>2, Zenon DEF Tree, IsTree
  <2>2. dirs \cap DOMAIN files = {} /\ \A d \in dirs : d \in Path /\ Above(d) \subseteq dirs
    BY <1>2, Zenon DEF Tree, IsTree
  <2>3. IsFiniteSet(DOMAIN files)
    BY <1>2, Zenon DEF Tree
  <2>. QED  BY <1>2, <2>1, <2>2, <2>3, Zenon DEF TypeOK, Rest
<1>. QED  BY <1>1, <1>2

\* The invariant holds when a run starts ...
LEMMA InitInv ==
  ASSUME Init
  PROVE  Inv
<1>1. Rest
  <2>1. 0 \in 0..MaxCalls /\ 0 \in 0..MaxStops
    BY MemoryConstants
  <2>2. /\ phase = "down" /\ linked = FALSE /\ homeOf = [s \in Session |-> None]
        /\ open = {} /\ learning = {} /\ calls = 0 /\ stops = 0
    BY Zenon DEF Init
  <2>. QED  BY <2>1, <2>2 DEF Rest
<1>2. Migrating
  BY DEF Init, Migrating
<1>. QED  BY <1>1, <1>2, InitTree, Typed DEF Inv

\* ... and after every step: what is left to move,
LEMMA BootStep ==
  ASSUME Inv, [Next]_vars
  PROVE  Migrating'
<1>1. CASE UNCHANGED boot
  BY <1>1 DEF Inv, Migrating, boot
<1>2. CASE Start \/ Started \/ Stop \/ StopInWrite
  <2>1. phase' # "migrating"
    BY <1>2 DEF Start, Started, Stop, StopInWrite, Die
  <2>. QED  BY <2>1 DEF Migrating
<1>3. CASE ListOld
  <2>1. todo' = Moves /\ Tree
    BY <1>3, TypedTree DEF ListOld, Inv
  <2>. QED  BY <2>1, MovesAre, Zenon DEF Migrating
<1>4. ASSUME NEW h \in People, LinkPerson(h) PROVE Migrating'
  <2>1. phase' # "migrating"
    BY <1>4 DEF LinkPerson
  <2>. QED  BY <2>1 DEF Migrating
<1>5. ASSUME NEW m \in todo, MoveOld(m) PROVE Migrating'
  <2>1. phase' = phase /\ todo' \subseteq todo
    BY <1>5 DEF MoveOld
  <2>. QED  BY <2>1, Zenon DEF Inv, Migrating
<1>6. ASSUME NEW a \in Account, ToolCall(a) PROVE UNCHANGED boot
  BY <1>6, Zenon DEF ToolCall, Call
<1>7. ASSUME NEW s \in Session, Begin(s) \/ ArchiveTranscript(s) \/ Reflect(s) PROVE UNCHANGED boot
  BY <1>7, Zenon DEF Begin, ArchiveTranscript, Reflect
<1>8. UNCHANGED vars => UNCHANGED boot
  BY Zenon DEF vars, boot
<1>. QED  BY <1>1, <1>2, <1>3, <1>4, <1>5, <1>6, <1>7, <1>8, Zenon DEF Next

\* the rest of the state,
LEMMA RestStep ==
  ASSUME Inv, [Next]_vars
  PROVE  Rest'
<1>. Rest
  BY Typed DEF Inv
<1>1. CASE UNCHANGED vars
  BY <1>1 DEF vars, boot, closing, Rest
<1>2. CASE Start
  <2>1. linked' \in BOOLEAN
    BY <1>2 DEF Start, Rest
  <2>. QED  BY <1>2, <2>1 DEF Start, Rest, closing
<1>3. ASSUME NEW h \in People, LinkPerson(h) PROVE Rest'
  BY <1>3 DEF LinkPerson, Rest, closing
<1>4. CASE ListOld
  BY <1>4 DEF ListOld, Rest, closing
<1>5. ASSUME NEW m \in todo, MoveOld(m) PROVE Rest'
  BY <1>5 DEF MoveOld, Rest, closing
<1>6. CASE Started
  BY <1>6 DEF Started, Rest, closing
<1>7. ASSUME NEW a \in Account, ToolCall(a) PROVE Rest'
  <2>1. Call
    BY <1>7, Zenon DEF ToolCall
  <2>. QED  BY <2>1, MemoryConstants DEF Call, Rest, boot, closing
<1>8. ASSUME NEW s \in Session, Begin(s) PROVE Rest'
  <2>1. PICK h \in Home : homeOf' = [homeOf EXCEPT ![s] = h]
    BY <1>8, HomesOfAre, MemoryConstants, Zenon DEF Begin
  <2>2. h # None
    BY MemoryConstants, Zenon
  <2>3. homeOf' \in [Session -> Home \cup {None}] /\ \A t \in open' : homeOf'[t] # None
    BY <1>8, <2>1, <2>2 DEF Begin, Rest
  <2>. QED  BY <1>8, <2>3 DEF Begin, Rest, boot
<1>9. ASSUME NEW s \in Session, ArchiveTranscript(s) PROVE Rest'
  BY <1>9 DEF ArchiveTranscript, Rest, boot
<1>10. ASSUME NEW s \in Session, Reflect(s) PROVE Rest'
  <2>1. /\ learning' = learning \ {s} /\ open' = open \ {s}
        /\ UNCHANGED <<boot, homeOf, calls, stops>>
    BY <1>10, Zenon DEF Reflect
  <2>. QED  BY <2>1 DEF Rest, boot
<1>11. CASE Stop \/ StopInWrite
  <2>1. Die
    BY <1>11, Zenon DEF Stop, StopInWrite
  <2>. QED  BY <2>1, MemoryConstants DEF Die, Rest
<1>. QED  BY <1>1, <1>2, <1>3, <1>4, <1>5, <1>6, <1>7, <1>8, <1>9, <1>10, <1>11, Zenon DEF Next

\* and all of it.
LEMMA InvStep ==
  ASSUME Inv, [Next]_vars
  PROVE  Inv'
<1>1. Tree' /\ Rest' /\ Migrating'
  BY TreeStep, RestStep, BootStep
<1>2. TypeOK' <=> Tree' /\ Rest'
  BY Typed, PTL
<1>. QED  BY <1>1, <1>2 DEF Inv

\* The state of the memory has its shape: the files are a tree.
THEOREM TypeCorrect == Spec => []TypeOK
<1>1. Inv => TypeOK
  BY DEF Inv
<1>. QED  BY <1>1, InitInv, InvStep, PTL DEF Spec

\* A start loses no file ...
THEOREM NothingIsLost == Spec => NothingLost
<1>1. Inv /\ [Next]_vars => Spared
  BY TreeStep
<1>2. Spared =>
        (\A p \in Disturbed :
           IF phase = "up" THEN ~InReserved(p) \/ \E h \in Home : p = LessonsPath(h)
           ELSE \E q \in New : q \notin DOMAIN files /\ files'[q] = files[p])
  BY DEF Spared
<1>. QED  BY <1>1, <1>2, InitInv, InvStep, PTL DEF Spec, NothingLost

\* Only a tool call is counted.
LEMMA CallStep ==
  ASSUME Inv, [Next]_vars, calls' # calls
  PROVE  \E a \in Account : ToolCall(a)
<1>1. calls' # calls /\ [Next]_vars
  OBVIOUS
<1>. QED  BY <1>1, Zenon DEF Next, vars, Start, LinkPerson, ListOld, MoveOld, Started,
               Begin, ArchiveTranscript, Reflect, Stop, StopInWrite, Die

\* ... and what it reaches.
Confined ==
  calls' # calls =>
    \E a \in Account : \A p \in Disturbed \cup New :
      \E root \in HomesOf(a) \cup {Shared} :
        IsPrefix(root, p) /\ ~ReservedRel(root, p) /\ Up \notin Range(p)

\* A tool called for a user reaches that user's files and the shared ones and
\* nothing in a reserved area, for every path it is given (server.go:226-237).
THEOREM CallsAreConfined == Spec => CallsStayHome
<1>1. ASSUME Inv, [Next]_vars PROVE Confined
  <2>. SUFFICES ASSUME calls' # calls
                PROVE  \E a \in Account : \A p \in Disturbed \cup New : Reached(a, p)
    BY Zenon DEF Confined, Reached
  <2>1. PICK a \in Account : ToolCall(a)
    BY <1>1, CallStep, Zenon
  <2>2. Tree
    BY <1>1, TypedTree, Zenon DEF Inv
  <2>. QED  BY <2>1, <2>2, ToolCallReaches, Zenon
<1>2. Confined =>
        (calls' # calls =>
           \E a \in Account : \A p \in Disturbed \cup New :
             \E root \in HomesOf(a) \cup {Shared} :
               IsPrefix(root, p) /\ ~ReservedRel(root, p) /\ Up \notin Range(p))
  BY DEF Confined
<1>. QED  BY <1>1, <1>2, InitInv, InvStep, PTL DEF Spec, CallsStayHome

\* Only a session's own reflection ends its learning while the process is up.
LEMMA LearningStep ==
  ASSUME Inv, [Next]_vars, NEW s \in learning, phase' = "up", s \notin learning'
  PROVE  s \in Session /\ Reflect(s)
<1>. s \in Session
  BY Zenon DEF Inv, TypeOK
<1>1. learning' # learning
  BY Zenon
<1>2. ASSUME Start \/ Stop \/ StopInWrite PROVE FALSE
  BY <1>2 DEF Start, Stop, StopInWrite, Die
<1>3. ASSUME \/ ListOld \/ Started \/ UNCHANGED vars
             \/ \E h \in People : LinkPerson(h)
             \/ \E m \in todo : MoveOld(m)
             \/ \E a \in Account : ToolCall(a)
             \/ \E t \in Session : Begin(t)
      PROVE  FALSE
  BY <1>1, <1>3, Zenon DEF ListOld, Started, vars, LinkPerson, MoveOld, ToolCall, Call, Begin, closing
<1>4. ASSUME NEW t \in Session, ArchiveTranscript(t) PROVE FALSE
  <2>1. learning' = learning \cup {t}
    BY <1>4, Zenon DEF ArchiveTranscript
  <2>. QED  BY <2>1
<1>5. ASSUME NEW t \in Session, Reflect(t) PROVE t = s
  <2>1. learning' = learning \ {t}
    BY <1>5, Zenon DEF Reflect
  <2>. QED  BY <2>1
<1>. QED  BY <1>2, <1>3, <1>4, <1>5, Zenon DEF Next

\* What a reflection leaves of a person's lessons.
Kept(old, new) ==
  /\ Size(new) <= LessonsMax \/ Len(new) = 1
  /\ \A i \in DOMAIN new : Count(KeyOf[new[i]], new) <= 1
                           \/ Count(KeyOf[new[i]], new) <= Count(KeyOf[new[i]], old)
  /\ \E n \in 0..Len(old) :
       /\ IsPrefix(SubSeq(old, Len(old) - n + 1, Len(old)), new)
       /\ \A i \in (n + 1)..Len(new) : Count(KeyOf[new[i]], old) = 0

\* That is what learning and trimming do.
LEMMA KeptIs ==
  ASSUME NEW L, NEW old \in Seq(L), NEW more \in Seq(L)
  PROVE  Kept(old, Trimmed(Learned(old, more)))
<1>. DEFINE lines == Learned(old, more)
            new == Trimmed(lines)
<1>1. lines \in Seq(L) /\ Grown(old, lines)
  BY LearnedIs, Zenon
<1>. HIDE DEF lines
<1>2. PICK k \in 1..(Len(lines) + 1) :
        /\ new \in Seq(L) /\ IsCut(new, lines, k)
        /\ Size(new) <= LessonsMax \/ Len(new) = 1
  BY <1>1, TrimmedIs, Zenon
<1>. HIDE DEF new
<1>3. \A i \in DOMAIN new : Count(KeyOf[new[i]], new) <= 1
                           \/ Count(KeyOf[new[i]], new) <= Count(KeyOf[new[i]], old)
  BY <1>1, <1>2, LessonsOnce, Zenon
<1>4. \E n \in 0..Len(old) :
       /\ IsPrefix(SubSeq(old, Len(old) - n + 1, Len(old)), new)
       /\ \A i \in (n + 1)..Len(new) : Count(KeyOf[new[i]], old) = 0
  BY <1>1, <1>2, LessonsNewest, Zenon
<1>. QED  BY <1>2, <1>3, <1>4, Zenon DEF Kept, new, lines

Bounded ==
  \A s \in learning : LET p == LessonsPath(homeOf[s]) IN
    (phase' = "up" /\ s \notin learning' /\ p \in New) => Kept(LinesOf(p), files'[p])

\* However much is learned, the lessons stay a bounded block that repeats
\* itself no more than it did and keeps the newest of its lines in their order
\* (server.go:656-694).
THEOREM LessonsAreBounded == Spec => LessonsBounded
<1>1. ASSUME Inv, [Next]_vars PROVE Bounded
  <2>. SUFFICES ASSUME NEW s \in learning, phase' = "up", s \notin learning',
                       LessonsPath(homeOf[s]) \in New
                PROVE  Kept(LinesOf(LessonsPath(homeOf[s])), files'[LessonsPath(homeOf[s])])
    BY Zenon DEF Bounded
  <2>. DEFINE p == LessonsPath(homeOf[s])
              lines == Trimmed(Learned(LinesOf(p), Lessons[s]))
  <2>1. s \in Session /\ Reflect(s)
    BY <1>1, LearningStep, Zenon
  <2>2. Tree
    BY <1>1, TypedTree, Zenon DEF Inv
  <2>3. ~UNCHANGED tree
    BY <2>2, Unchanged, Zenon
  <2>4. Put(p, lines)
    BY <2>1, <2>3, Zenon DEF Reflect, AppendLessons
  <2>5. files'[p] = lines
    <3>. HIDE DEF p, lines
    <3>. QED  BY <2>4, Zenon DEF Put
  <2>6. Lessons[s] \in Seq(Line) /\ LinesOf(p) \in Seq(Line)
    BY <2>1, <2>2, MemoryConstants, LinesOfAre, Zenon
  <2>7. Kept(LinesOf(p), lines)
    BY <2>6, KeptIs, Zenon
  <2>. QED  BY <2>5, <2>7, Zenon
<1>2. Bounded =>
        (\A s \in learning : LET p == LessonsPath(homeOf[s]) IN
           (phase' = "up" /\ s \notin learning' /\ p \in New) =>
             LET old == LinesOf(p)
                 new == files'[p] IN
             /\ Size(new) <= LessonsMax \/ Len(new) = 1
             /\ \A i \in DOMAIN new : Count(KeyOf[new[i]], new) <= 1
                                      \/ Count(KeyOf[new[i]], new) <= Count(KeyOf[new[i]], old)
             /\ \E n \in 0..Len(old) :
                  /\ IsPrefix(SubSeq(old, Len(old) - n + 1, Len(old)), new)
                  /\ \A i \in (n + 1)..Len(new) : Count(KeyOf[new[i]], old) = 0)
  BY Zenon DEF Bounded, Kept
<1>. QED  BY <1>1, <1>2, InitInv, InvStep, PTL DEF Spec, LessonsBounded

-----------------------------------------------------------------------------
(* Numbers in their order *)

\* How many of a set are up to a number.
Rank(I, i) == Cardinality({j \in I : j <= i})

\* Ranks go from 1 to the size of the set, each once.
LEMMA RankIs ==
  ASSUME NEW I \in SUBSET Int, IsFiniteSet(I)
  PROVE  /\ Cardinality(I) \in Nat
         /\ \A i \in I : Rank(I, i) \in 1..Cardinality(I)
         /\ \A i, k \in I : i < k => Rank(I, i) < Rank(I, k)
         /\ \A n \in 1..Cardinality(I) : \E i \in I : Rank(I, i) = n
<1>. DEFINE c == Cardinality(I)
            up(i) == {j \in I : j <= i}
<1>1. c \in Nat
  BY FS_CardinalityType
<1>2. ASSUME NEW i \in I
      PROVE  /\ IsFiniteSet(up(i)) /\ Cardinality(up(i)) \in Nat /\ Cardinality(up(i)) <= c
             /\ Cardinality(up(i)) # 0
  <2>1. up(i) \in SUBSET I /\ i \in up(i)
    OBVIOUS
  <2>. HIDE DEF up
  <2>2. IsFiniteSet(up(i)) /\ Cardinality(up(i)) <= c
    BY <2>1, FS_Subset
  <2>3. Cardinality(up(i)) \in Nat
    BY <2>2, FS_CardinalityType
  <2>4. up(i) # {}
    BY <2>1, Zenon
  <2>5. Cardinality(up(i)) # 0
    BY <2>2, <2>4, FS_EmptySet, Zenon
  <2>. QED  BY <2>2, <2>3, <2>5
<1>3. \A i \in I : Rank(I, i) = Cardinality(up(i))
  BY Zenon DEF Rank
<1>4. ASSUME NEW i \in I PROVE Rank(I, i) \in 1..c
  <2>. HIDE DEF up, c
  <2>. QED  BY <1>1, <1>2, <1>3
<1>5. ASSUME NEW i \in I, NEW k \in I, i < k PROVE Rank(I, i) < Rank(I, k)
  <2>0. i \in Int /\ k \in Int /\ \A j \in I : j \in Int
    OBVIOUS
  <2>1. up(i) \in SUBSET up(k) /\ k \in up(k) /\ k \notin up(i)
    <3>1. ASSUME NEW j \in up(i) PROVE j \in up(k)
      <4>1. j \in I /\ j <= i
        OBVIOUS
      <4>2. j <= k
        BY <1>5, <2>0, <4>1
      <4>. QED  BY <4>1, <4>2
    <3>2. k \in up(k) /\ ~(k <= i)
      BY <1>5, <2>0
    <3>. QED  BY <3>1, <3>2
  <2>. HIDE DEF up
  <2>2. up(i) # up(k)
    BY <2>1, Zenon
  <2>3. IsFiniteSet(up(k))
    BY <1>2
  <2>4. Cardinality(up(i)) <= Cardinality(up(k)) /\ Cardinality(up(i)) # Cardinality(up(k))
    BY <2>1, <2>2, <2>3, FS_Subset
  <2>. QED  BY <1>2, <1>3, <2>4
<1>6. ASSUME NEW n \in 1..c PROVE \E i \in I : Rank(I, i) = n
  <2>. DEFINE r == [i \in I |-> Rank(I, i)]
  <2>1. r \in Injection(I, 1..c)
    <3>1. r \in [I -> 1..c]
      BY <1>4, Zenon
    <3>2. ASSUME NEW i \in I, NEW k \in I, r[i] = r[k] PROVE i = k
      <4>1. Rank(I, i) = Rank(I, k)
        BY <3>2
      <4>2. Rank(I, i) \in Nat
        BY <1>4, <1>1
      <4>3. ~(i < k) /\ ~(k < i)
        BY <1>5, <4>1, <4>2
      <4>. QED  BY <4>3
    <3>. HIDE DEF r, c
    <3>. QED  BY <3>1, <3>2 DEF Injection, IsInjective
  <2>. HIDE DEF r
  <2>2. IsFiniteSet(1..c) /\ Cardinality(1..c) = c
    BY <1>1, FS_Interval
  <2>3. Cardinality(I) = Cardinality(1..c)
    BY <2>2
  <2>. HIDE DEF c
  <2>4. r \in Surjection(I, 1..c)
    BY <2>1, <2>2, <2>3, FS_Injection
  <2>5. \E i \in I : r[i] = n
    BY <2>4 DEF Surjection
  <2>. QED  BY <2>5 DEF r
<1>. QED  BY <1>1, <1>4, <1>5, <1>6

\* There is a k-th number for every k.
LEMMA NthIs ==
  ASSUME NEW I \in SUBSET Int, IsFiniteSet(I)
  PROVE  /\ \A k \in 1..Cardinality(I) : Nth(I, k) \in I /\ Rank(I, Nth(I, k)) = k
         /\ \A i \in I : Nth(I, Rank(I, i)) = i
<1>1. \A k \in 1..Cardinality(I) : \E i \in I : Rank(I, i) = k
  BY RankIs
<1>2. ASSUME NEW k \in 1..Cardinality(I) PROVE Nth(I, k) \in I /\ Rank(I, Nth(I, k)) = k
  <2>1. \E i \in I : Cardinality({j \in I : j <= i}) = k
    BY <1>1, Zenon DEF Rank
  <2>. QED  BY <2>1, Zenon DEF Nth, Rank
<1>3. ASSUME NEW i \in I PROVE Nth(I, Rank(I, i)) = i
  <2>. DEFINE n == Nth(I, Rank(I, i))
  <2>1. Rank(I, i) \in 1..Cardinality(I) /\ Cardinality(I) \in Nat
    BY RankIs
  <2>2. n \in I /\ Rank(I, n) = Rank(I, i)
    BY <1>2, <2>1
  <2>. HIDE DEF n
  <2>3. ~(i < n) /\ ~(n < i)
    BY <2>1, <2>2, RankIs
  <2>4. i = n
    BY <2>2, <2>3
  <2>. QED  BY <2>4 DEF n
<1>. QED  BY <1>2, <1>3

\* A function from 1 up is a sequence.
LEMMA NumberedIs ==
  ASSUME NEW X, NEW n \in Nat, NEW f \in [1..n -> X]
  PROVE  f \in Seq(X) /\ Len(f) = n /\ DOMAIN f = 1..n
OBVIOUS

\* What is chosen from a sequence is that, and all of that.
LEMMA ChosenIs ==
  ASSUME NEW X, NEW s \in Seq(X), NEW I \in SUBSET DOMAIN s
  PROVE  /\ Chosen(s, I) \in Seq(X) /\ Len(Chosen(s, I)) = Cardinality(I)
         /\ Cardinality(I) \in Nat /\ IsFiniteSet(I)
         /\ \A k \in DOMAIN Chosen(s, I) : \E i \in I : Chosen(s, I)[k] = s[i]
         /\ \A i \in I : \E k \in DOMAIN Chosen(s, I) : Chosen(s, I)[k] = s[i]
<1>1. Len(s) \in Nat /\ DOMAIN s = 1..Len(s) /\ \A i \in DOMAIN s : s[i] \in X
  BY ElementOfSeq, LenProperties
<1>2. I \in SUBSET Int /\ IsFiniteSet(I)
  <2>1. IsFiniteSet(1..Len(s))
    BY <1>1, FS_Interval
  <2>2. I \in SUBSET (1..Len(s))
    BY <1>1
  <2>3. IsFiniteSet(I)
    BY <2>1, <2>2, FS_Subset
  <2>. QED  BY <2>2, <2>3
<1>. DEFINE c == Chosen(s, I)
            n == Cardinality(I)
<1>3. n \in Nat
  BY <1>2, FS_CardinalityType
<1>4. c = [k \in 1..n |-> s[Nth(I, k)]]
  BY Zenon DEF Chosen
<1>. HIDE DEF c, n
<1>5. \A k \in 1..n : Nth(I, k) \in I
  BY <1>2, NthIs DEF n
<1>6. c \in [1..n -> X] /\ \A k \in 1..n : c[k] = s[Nth(I, k)]
  BY <1>1, <1>4, <1>5
<1>7. c \in Seq(X) /\ Len(c) = n /\ DOMAIN c = 1..n
  <2>1. c \in [1..n -> X]
    BY <1>6, Zenon
  <2>. QED  BY <1>3, <2>1, NumberedIs
<1>8. \A i \in I : \E k \in 1..n : Nth(I, k) = i
  BY <1>2, NthIs, RankIs DEF n
<1>9. \A k \in DOMAIN c : \E i \in I : c[k] = s[i]
  BY <1>5, <1>6, <1>7, Zenon
<1>10. \A i \in I : \E k \in DOMAIN c : c[k] = s[i]
  BY <1>6, <1>7, <1>8, Zenon
<1>. QED  BY <1>2, <1>3, <1>7, <1>9, <1>10 DEF c, n

\* All of a sequence is the sequence.
LEMMA ChosenAll ==
  ASSUME NEW X, NEW s \in Seq(X)
  PROVE  Len(Chosen(s, DOMAIN s)) = Len(s)
<1>1. Len(s) \in Nat /\ DOMAIN s = 1..Len(s)
  BY LenProperties
<1>2. Cardinality(1..Len(s)) = Len(s)
  BY <1>1, FS_Interval
<1>3. Len(Chosen(s, DOMAIN s)) = Cardinality(DOMAIN s)
  BY ChosenIs
<1>. QED  BY <1>1, <1>2, <1>3

-----------------------------------------------------------------------------
(* What a search reads *)

\* Each file has its own place in a walk.
Placed(S) == \A p, q \in S : Place(p) \in Nat /\ (Place(p) = Place(q) => p = q)

\* A walk goes to every file, and to nothing else.
LEMMA WalkIs ==
  ASSUME NEW S, IsFiniteSet(S), Placed(S)
  PROVE  /\ Walk(S) \in Seq(S)
         /\ \A p \in S : \E k \in DOMAIN Walk(S) : Walk(S)[k] = p
<1>. DEFINE places == {Place(p) : p \in S}
            at(n) == CHOOSE p \in S : Place(p) = n
            g == [p \in S |-> Place(p)]
            w == Walk(S)
<1>1. \A p \in S : Place(p) \in Nat
  BY Zenon DEF Placed
<1>2. \A p, q \in S : Place(p) = Place(q) => p = q
  BY Zenon DEF Placed
<1>3. places \in SUBSET Int
  BY <1>1
<1>4. g \in Surjection(S, places) /\ g \in Injection(S, places)
  BY <1>2 DEF Surjection, Injection, IsInjective
<1>5. IsFiniteSet(places) /\ Cardinality(places) = Cardinality(S)
  <2>. HIDE DEF g, places
  <2>. QED  BY <1>4, FS_Surjection
<1>6. Cardinality(S) \in Nat
  BY FS_CardinalityType
<1>7. w = [k \in 1..Cardinality(S) |-> at(Nth(places, k))]
  BY Zenon DEF Walk
<1>8. \A p \in S : at(Place(p)) = p
  BY <1>2, Zenon
<1>9. \A k \in 1..Cardinality(S) : Nth(places, k) \in places
  <2>. HIDE DEF places
  <2>. QED  BY <1>3, <1>5, NthIs
<1>10. \A p \in S : \E k \in 1..Cardinality(S) : Nth(places, k) = Place(p)
  <2>1. \A p \in S : Place(p) \in places
    OBVIOUS
  <2>. HIDE DEF places
  <2>. QED  BY <1>3, <1>5, <2>1, NthIs, RankIs
<1>. HIDE DEF w
<1>11. \A k \in 1..Cardinality(S) : at(Nth(places, k)) \in S
  <2>. SUFFICES ASSUME NEW k \in 1..Cardinality(S) PROVE at(Nth(places, k)) \in S
    OBVIOUS
  <2>1. PICK p \in S : Nth(places, k) = Place(p)
    BY <1>9
  <2>2. at(Place(p)) = p
    BY <1>8, Zenon
  <2>. HIDE DEF at, places
  <2>. QED  BY <2>1, <2>2, Zenon
<1>. HIDE DEF at, places
<1>12. w \in [1..Cardinality(S) -> S]
  BY <1>7, <1>11, Zenon
<1>13. w \in Seq(S) /\ DOMAIN w = 1..Cardinality(S)
  BY <1>6, <1>12, NumberedIs
<1>14. \A p \in S : \E k \in DOMAIN w : w[k] = p
  <2>. SUFFICES ASSUME NEW p \in S PROVE \E k \in DOMAIN w : w[k] = p
    OBVIOUS
  <2>1. PICK k \in 1..Cardinality(S) : Nth(places, k) = Place(p)
    BY <1>10, Zenon
  <2>2. w[k] = at(Place(p))
    BY <1>7, <2>1, Zenon
  <2>. QED  BY <1>8, <1>13, <2>1, <2>2, Zenon
<1>. QED  BY <1>13, <1>14 DEF w

\* The first rows of some.
LEMMA FirstIs ==
  ASSUME NEW X, NEW s \in Seq(X), NEW n \in Nat
  PROVE  /\ First(n, s) \in Seq(X) /\ Len(First(n, s)) <= n
         /\ \A k \in DOMAIN First(n, s) : k \in DOMAIN s /\ First(n, s)[k] = s[k]
         /\ Len(First(n, s)) < n => First(n, s) = s
<1>. DEFINE c == SubSeq(s, 1, n)
<1>1. Len(s) \in Nat /\ DOMAIN s = 1..Len(s)
  BY LenProperties
<1>2. CASE Len(s) <= n
  BY <1>1, <1>2, Zenon DEF First
<1>3. CASE n < Len(s)
  <2>1. First(n, s) = c
    <3>1. ~(Len(s) <= n)
      BY <1>1, <1>3
    <3>. QED  BY <3>1, Zenon DEF First
  <2>2. \A i \in 1..n : s[i] \in X
    <3>1. \A i \in 1..n : i \in 1..Len(s)
      BY <1>1, <1>3
    <3>. QED  BY <3>1, ElementOfSeq
  <2>3. c \in Seq(X) /\ Len(c) = (IF 1 <= n THEN n - 1 + 1 ELSE 0) /\ \A i \in 1..(n - 1 + 1) : c[i] = s[1 + i - 1]
    BY <2>2, SubSeqProperties
  <2>. HIDE DEF c
  <2>4. Len(c) = n /\ \A i \in 1..n : c[i] = s[i]
    BY <2>3
  <2>5. DOMAIN c = 1..n
    BY <2>3, <2>4, LenProperties
  <2>6. \A k \in DOMAIN c : k \in DOMAIN s /\ c[k] = s[k]
    BY <1>1, <1>3, <2>4, <2>5
  <2>. QED  BY <2>1, <2>3, <2>4, <2>6
<1>. QED  BY <1>1, <1>2, <1>3

\* Rows, and where they are from.
Row == [path : Path, line : Nat, context : BOOLEAN]

RowOf(r, dir, p) ==
  /\ r.path = Rel(dir, p) /\ r.line \in DOMAIN files[p]
  /\ r.context \/ r.line \in Hits(p)

\* What grep prints of a file.
LEMMA PrintedIs ==
  ASSUME Tree, NEW dir \in Path, NEW p \in DOMAIN files, IsPrefix(dir, p),
         NEW around \in Nat, NEW limit \in Nat
  PROVE  LET rows == Printed(dir, p, around, limit) IN
         /\ rows \in Seq(Row)
         /\ \A k \in DOMAIN rows : RowOf(rows[k], dir, p)
         /\ around = 0 => \A k \in DOMAIN rows : ~rows[k].context
         /\ around = 0 /\ Len(rows) < limit =>
              \A i \in Hits(p) : \E k \in DOMAIN rows : rows[k].line = i
<1>. DEFINE f == files[p]
            H == Hits(p)
            hits == {i \in H : Cardinality({j \in H : j <= i}) <= limit}
            shown == {i \in DOMAIN f : \E h \in hits : i - h \in (0 - around)..around}
            row(i) == [path |-> Rel(dir, p), line |-> i, context |-> i \notin hits]
            rows == Printed(dir, p, around, limit)
            n == Cardinality(shown)
<1>1. f \in Seq(Line) /\ p \in Seq(STRING) /\ dir \in Seq(STRING)
  BY Zenon DEF Tree, IsTree, Path
<1>2. Len(f) \in Nat /\ DOMAIN f = 1..Len(f)
  BY <1>1, LenProperties
<1>3. Rel(dir, p) \in Path
  BY <1>1, RelIs, Zenon DEF Path
<1>4. H \in SUBSET (1..Len(f)) /\ shown \in SUBSET (1..Len(f)) /\ hits \in SUBSET H
  BY <1>2 DEF Hits
<1>5. IsFiniteSet(1..Len(f))
  BY <1>2, FS_Interval
<1>6. rows = [k \in 1..n |-> row(Nth(shown, k))]
  BY Zenon DEF Printed
<1>a. \A k \in 1..Len(f) : k \in Int /\ k \in Nat
  BY <1>2
<1>7. around = 0 => shown = hits
  <2>. SUFFICES ASSUME around = 0 PROVE shown = hits
    OBVIOUS
  <2>1. ASSUME NEW i \in shown PROVE i \in hits
    <3>1. PICK h \in hits : i - h \in (0 - around)..around
      OBVIOUS
    <3>. HIDE DEF hits
    <3>2. i \in Int /\ h \in Int
      BY <1>4, <1>a
    <3>3. i = h
      BY <3>1, <3>2
    <3>. QED  BY <3>3
  <2>2. ASSUME NEW i \in hits PROVE i \in shown
    <3>. HIDE DEF hits
    <3>1. i \in Int /\ i \in DOMAIN f
      BY <1>2, <1>4, <1>a
    <3>2. i - i \in (0 - around)..around
      BY <3>1
    <3>. QED  BY <3>1, <3>2
  <2>. QED  BY <2>1, <2>2, Zenon
<1>b. hits = {i \in H : Rank(H, i) <= limit}
  BY Zenon DEF Rank
<1>c. H = Hits(p)
  OBVIOUS
<1>d. \A i \in hits : i \in Hits(p)
  BY <1>4, <1>c, Zenon
<1>. HIDE DEF shown, hits, H, n, rows
<1>8. IsFiniteSet(H) /\ IsFiniteSet(shown) /\ H \in SUBSET Int /\ shown \in SUBSET Int
  BY <1>4, <1>5, <1>a, FS_Subset
<1>9. n \in Nat
  BY <1>8, FS_CardinalityType DEF n
<1>10. \A k \in 1..n : Nth(shown, k) \in shown
  BY <1>8, NthIs DEF n
<1>11. \A i \in shown : row(i) \in Row /\ RowOf(row(i), dir, p)
  <2>. SUFFICES ASSUME NEW i \in shown PROVE row(i) \in Row /\ RowOf(row(i), dir, p)
    OBVIOUS
  <2>1. i \in Nat /\ i \in DOMAIN files[p]
    BY <1>2, <1>4, <1>a
  <2>2. row(i).path = Rel(dir, p) /\ row(i).line = i /\ row(i).context = (i \notin hits)
    OBVIOUS
  <2>3. row(i) \in Row
    BY <1>3, <2>1 DEF Row
  <2>4. i \notin hits \/ i \in Hits(p)
    BY <1>d
  <2>5. (i \notin hits) \in BOOLEAN
    OBVIOUS
  <2>6. RowOf(row(i), dir, p)
    <3>. HIDE DEF row
    <3>. QED  BY <2>1, <2>2, <2>4 DEF RowOf
  <2>. QED  BY <2>3, <2>6
<1>12. \A i \in shown : row(i).line = i /\ (i \in hits => ~row(i).context)
  OBVIOUS
<1>. HIDE DEF row
<1>13. rows \in [1..n -> Row] /\ \A k \in 1..n : rows[k] = row(Nth(shown, k))
  BY <1>6, <1>10, <1>11, Zenon
<1>14. rows \in Seq(Row) /\ Len(rows) = n /\ DOMAIN rows = 1..n
  <2>1. rows \in [1..n -> Row]
    BY <1>13
  <2>. QED  BY <1>9, <2>1, NumberedIs
<1>15. \A k \in DOMAIN rows : RowOf(rows[k], dir, p)
  BY <1>10, <1>11, <1>13, <1>14, Zenon
<1>16. around = 0 => \A k \in DOMAIN rows : ~rows[k].context
  BY <1>7, <1>10, <1>12, <1>13, <1>14, Zenon
<1>17. ASSUME around = 0, Len(rows) < limit, NEW i \in Hits(p)
       PROVE  \E k \in DOMAIN rows : rows[k].line = i
  <2>1. hits = H
    <3>. SUFFICES ASSUME NEW j \in H, Rank(H, j) > limit PROVE FALSE
      <4>1. \A j \in H : Rank(H, j) \in Int
        BY <1>8, RankIs
      <4>. QED  BY <1>b, <4>1
    <3>1. limit \in 1..Cardinality(H) \/ limit = 0
      <4>1. Rank(H, j) \in 1..Cardinality(H) /\ Cardinality(H) \in Nat
        BY <1>8, RankIs
      <4>. QED  BY <4>1
    <3>2. limit # 0
      BY <1>9, <1>14, <1>17
    <3>3. PICK m \in H : Rank(H, m) = limit
      BY <1>8, <3>1, <3>2, RankIs
    <3>4. \A x \in H : x <= m => x \in hits
      <4>. SUFFICES ASSUME NEW x \in H, x <= m PROVE x \in hits
        OBVIOUS
      <4>1. x \in Int /\ m \in Int
        BY <1>8
      <4>2. x < m \/ x = m
        BY <4>1
      <4>3. Rank(H, x) \in Int /\ (x < m => Rank(H, x) < Rank(H, m))
        BY <1>8, RankIs
      <4>4. Rank(H, x) <= limit
        BY <3>3, <4>2, <4>3
      <4>. QED  BY <1>b, <4>4
    <3>5. {x \in H : x <= m} \in SUBSET hits
      BY <3>4
    <3>6. IsFiniteSet(hits)
      BY <1>4, <1>8, FS_Subset
    <3>7. Cardinality({x \in H : x <= m}) <= Cardinality(hits)
      BY <3>5, <3>6, FS_Subset, Zenon
    <3>8. limit <= Cardinality(hits)
      BY <3>3, <3>7 DEF Rank
    <3>9. Cardinality(hits) = n
      BY <1>7, <1>17 DEF n
    <3>. QED  BY <1>9, <1>14, <1>17, <3>8, <3>9
  <2>2. i \in shown
    BY <1>7, <1>17, <1>c, <2>1
  <2>3. PICK k \in 1..n : Nth(shown, k) = i
    BY <1>8, <2>2, NthIs, RankIs DEF n
  <2>. QED  BY <1>12, <1>13, <1>14, <2>2, <2>3, Zenon
<1>. QED  BY <1>14, <1>15, <1>16, <1>17 DEF rows

-----------------------------------------------------------------------------
(* Sequences one after another *)

\* The sequences up to the n-th, one after another.
IsFlat(f, p, n) == f = [i \in 1..n |-> IF i = 1 THEN p[i] ELSE f[i - 1] \o p[i]]

\* There is such a function.
LEMMA FlatExists ==
  ASSUME NEW p, NEW n \in Nat
  PROVE  \E f : IsFlat(f, p, n)
<1>. DEFINE T == {k \in 0..n : \E f : IsFlat(f, p, k)}
<1>1. 0 \in T
  <2>. DEFINE value(f, i) == IF i = 1 THEN p[i] ELSE f[i - 1] \o p[i]
              g == [i \in 1..0 |-> <<>>]
  <2>. HIDE DEF value
  <2>1. g = [i \in 1..0 |-> value(g, i)]
    OBVIOUS
  <2>. HIDE DEF g
  <2>2. IsFlat(g, p, 0)
    BY <2>1, Zenon DEF IsFlat, value
  <2>3. 0 \in 0..n
    OBVIOUS
  <2>. QED  BY <2>2, <2>3
<1>2. ASSUME NEW k \in 1..n, k - 1 \in T PROVE k \in T
  <2>1. PICK g : IsFlat(g, p, k - 1)
    BY <1>2
  <2>. DEFINE value(f, i) == IF i = 1 THEN p[i] ELSE f[i - 1] \o p[i]
              h == [i \in 1..k |-> IF i = k THEN value(g, k) ELSE g[i]]
  <2>. HIDE DEF value
  <2>2. g = [i \in 1..(k - 1) |-> value(g, i)]
    BY <2>1, Zenon DEF IsFlat, value
  <2>3. ASSUME NEW i \in 1..k PROVE h[i] = value(h, i)
    <3>1. i # k => i \in 1..(k - 1) /\ g[i] = value(g, i)
      BY <2>2
    <3>2. h[i] = value(g, i)
      BY <3>1
    <3>3. i # 1 => i - 1 \in 1..k /\ i - 1 # k
      OBVIOUS
    <3>4. i # 1 => h[i - 1] = g[i - 1]
      BY <3>3
    <3>. HIDE DEF h
    <3>5. value(h, i) = value(g, i)
      BY <3>4 DEF value
    <3>. QED  BY <3>2, <3>5
  <2>4. h = [i \in 1..k |-> value(h, i)]
    <3>1. h = [i \in 1..k |-> h[i]]
      OBVIOUS
    <3>. HIDE DEF h
    <3>. QED  BY <2>3, <3>1, Zenon
  <2>5. IsFlat(h, p, k)
    BY <2>4, Zenon DEF IsFlat, value
  <2>. QED  BY <2>5
<1>3. n \in 0..n
  OBVIOUS
<1>. QED  BY <1>1, <1>2, <1>3, Climb

\* A sequence has all that the first n have, and nothing else.
Gathers(s, p, n) ==
  /\ \A j \in DOMAIN s : \E i \in 1..n : \E m \in DOMAIN p[i] : s[j] = p[i][m]
  /\ \A i \in 1..n :
       Len(p[i]) <= Len(s) /\ \A m \in DOMAIN p[i] : \E j \in DOMAIN s : s[j] = p[i][m]

\* One more at the end.
LEMMA GathersMore ==
  ASSUME NEW X, NEW p, NEW n \in Nat, p[n + 1] \in Seq(X), \A i \in 1..n : p[i] \in Seq(X),
         NEW s \in Seq(X), Gathers(s, p, n)
  PROVE  s \o p[n + 1] \in Seq(X) /\ Gathers(s \o p[n + 1], p, n + 1)
<1>. DEFINE t == p[n + 1]
            u == s \o t
<1>1. Len(s) \in Nat /\ Len(t) \in Nat /\ DOMAIN s = 1..Len(s) /\ DOMAIN t = 1..Len(t)
  BY LenProperties
<1>2. /\ u \in Seq(X) /\ Len(u) = Len(s) + Len(t)
      /\ \A i \in 1..(Len(s) + Len(t)) : u[i] = IF i <= Len(s) THEN s[i] ELSE t[i - Len(s)]
  BY ConcatProperties
<1>. HIDE DEF u, t
<1>3. DOMAIN u = 1..(Len(s) + Len(t))
  BY <1>2, LenProperties
<1>4. \A j \in DOMAIN s : j \in DOMAIN u /\ u[j] = s[j]
  BY <1>1, <1>2, <1>3
<1>5. \A m \in DOMAIN t : Len(s) + m \in DOMAIN u /\ u[Len(s) + m] = t[m]
  BY <1>1, <1>2, <1>3
<1>6. \A j \in DOMAIN u : \/ j \in DOMAIN s /\ u[j] = s[j]
                          \/ j - Len(s) \in DOMAIN t /\ u[j] = t[j - Len(s)]
  BY <1>1, <1>2, <1>3
<1>7. \A i \in 1..(n + 1) : i \in 1..n \/ i = n + 1
  OBVIOUS
<1>8. \A i \in 1..n : i \in 1..(n + 1)
  OBVIOUS
<1>9. n + 1 \in 1..(n + 1)
  OBVIOUS
<1>10. ASSUME NEW j \in DOMAIN u
       PROVE  \E i \in 1..(n + 1) : \E m \in DOMAIN p[i] : u[j] = p[i][m]
  <2>1. CASE j \in DOMAIN s /\ u[j] = s[j]
    <3>1. PICK i \in 1..n : \E m \in DOMAIN p[i] : s[j] = p[i][m]
      BY <2>1, Zenon DEF Gathers
    <3>2. \E m \in DOMAIN p[i] : u[j] = p[i][m]
      BY <2>1, <3>1, Zenon
    <3>. QED  BY <1>8, <3>2, Zenon
  <2>2. CASE j - Len(s) \in DOMAIN t /\ u[j] = t[j - Len(s)]
    BY <1>9, <2>2, Zenon DEF t
  <2>. QED  BY <1>6, <2>1, <2>2, Zenon
<1>11. ASSUME NEW i \in 1..(n + 1)
       PROVE  Len(p[i]) <= Len(u) /\ \A m \in DOMAIN p[i] : \E j \in DOMAIN u : u[j] = p[i][m]
  <2>1. CASE i \in 1..n
    <3>1. Len(p[i]) <= Len(s) /\ \A m \in DOMAIN p[i] : \E j \in DOMAIN s : s[j] = p[i][m]
      BY <2>1, Zenon DEF Gathers
    <3>2. \A m \in DOMAIN p[i] : \E j \in DOMAIN u : u[j] = p[i][m]
      BY <1>4, <3>1, Zenon
    <3>3. Len(p[i]) \in Nat
      BY <2>1, LenProperties
    <3>4. Len(p[i]) <= Len(u)
      BY <1>1, <1>2, <3>1, <3>3
    <3>. QED  BY <3>2, <3>4
  <2>2. CASE i = n + 1
    <3>1. Len(t) <= Len(u)
      BY <1>1, <1>2
    <3>. QED  BY <1>5, <2>2, <3>1, Zenon DEF t
  <2>. QED  BY <1>7, <2>1, <2>2, Zenon
<1>. QED  BY <1>2, <1>10, <1>11, Zenon DEF u, t, Gathers

\* FlattenSeq gathers them all.
LEMMA FlattenHas ==
  ASSUME NEW X, NEW p \in Seq(Seq(X))
  PROVE  FlattenSeq(p) \in Seq(X) /\ Gathers(FlattenSeq(p), p, Len(p))
<1>1. Len(p) \in Nat /\ DOMAIN p = 1..Len(p) /\ \A i \in 1..Len(p) : p[i] \in Seq(X)
  BY LenProperties, ElementOfSeq
<1>2. CASE Len(p) = 0
  <2>1. FlattenSeq(p) = p
    BY <1>2, Zenon DEF FlattenSeq
  <2>2. p = <<>>
    BY <1>1, <1>2
  <2>3. p \in Seq(X)
    BY <2>2, EmptySeq
  <2>4. Gathers(p, p, Len(p))
    BY <1>1, <1>2 DEF Gathers
  <2>. QED  BY <2>1, <2>3, <2>4
<1>3. CASE Len(p) # 0
  <2>1. PICK g : IsFlat(g, p, Len(p))
    BY <1>1, FlatExists
  <2>. DEFINE f == CHOOSE f : f = [i \in 1..Len(p) |-> IF i = 1 THEN p[i] ELSE f[i - 1] \o p[i]]
  <2>2. FlattenSeq(p) = f[Len(p)]
    BY <1>3, Zenon DEF FlattenSeq
  <2>3. f = [i \in 1..Len(p) |-> IF i = 1 THEN p[i] ELSE f[i - 1] \o p[i]]
    BY <2>1, Zenon DEF IsFlat
  <2>. HIDE DEF f
  <2>4. ASSUME NEW n \in 1..Len(p)
        PROVE  f[n] = IF n = 1 THEN p[n] ELSE f[n - 1] \o p[n]
    BY <2>3, Zenon
  <2>. DEFINE Good(k) == f[k] \in Seq(X) /\ Gathers(f[k], p, k)
              T == {k \in 0..Len(p) : k # 0 => Good(k)}
  <2>5. 0 \in T
    BY <1>1
  <2>6. ASSUME NEW k \in 1..Len(p), k - 1 \in T PROVE k \in T
    <3>1. CASE k = 1
      <4>1. f[1] = p[1] /\ p[1] \in Seq(X)
        BY <1>1, <1>3, <2>4
      <4>2. Gathers(p[1], p, 1)
        <5>1. Len(p[1]) <= Len(p[1])
          BY <4>1, LenProperties
        <5>2. \A i \in 1..1 : i = 1
          OBVIOUS
        <5>3. 1 \in 1..1
          OBVIOUS
        <5>. QED  BY <5>1, <5>2, <5>3, Zenon DEF Gathers
      <4>3. Good(1)
        BY <4>1, <4>2, Zenon
      <4>. HIDE DEF Good
      <4>. QED  BY <3>1, <4>3
    <3>2. CASE k # 1
      <4>1. k - 1 \in Nat /\ k - 1 # 0 /\ (k - 1) + 1 = k /\ \A i \in 1..(k - 1) : i \in 1..Len(p)
        BY <1>1, <3>2
      <4>2. Good(k - 1)
        BY <2>6, <4>1, Zenon
      <4>3. f[k] = f[k - 1] \o p[k]
        BY <2>4, <3>2, Zenon
      <4>4. p[(k - 1) + 1] \in Seq(X) /\ \A i \in 1..(k - 1) : p[i] \in Seq(X)
        BY <1>1, <4>1
      <4>. DEFINE m == k - 1
      <4>5. f[m] \in Seq(X) /\ Gathers(f[m], p, m) /\ p[m + 1] \in Seq(X)
            /\ (\A i \in 1..m : p[i] \in Seq(X)) /\ m \in Nat /\ m + 1 = k
        BY <4>1, <4>2, <4>4
      <4>6. f[k] = f[m] \o p[k]
        BY <4>3
      <4>. HIDE DEF m
      <4>7. f[m] \o p[m + 1] \in Seq(X) /\ Gathers(f[m] \o p[m + 1], p, m + 1)
        BY <4>5, GathersMore
      <4>8. Good(k)
        BY <4>5, <4>6, <4>7, Zenon
      <4>. HIDE DEF Good
      <4>. QED  BY <4>8
    <3>. QED  BY <3>1, <3>2
  <2>. HIDE DEF Good
  <2>7. 0..Len(p) \subseteq T
    BY <1>1, <2>5, <2>6, Climb
  <2>8. Len(p) \in 0..Len(p)
    BY <1>1
  <2>9. Good(Len(p))
    BY <1>3, <2>7, <2>8
  <2>. QED  BY <2>2, <2>9, Zenon DEF Good
<1>. QED  BY <1>2, <1>3

-----------------------------------------------------------------------------
(* grep *)

\* Below a path that is no directory there is no file but itself.
LEMMA BelowIs ==
  ASSUME Tree, NEW dir \in Path, NEW p \in Below(dir, DOMAIN files)
  PROVE  /\ p \in DOMAIN files /\ p \in Path /\ IsPrefix(dir, p)
         /\ dir \in dirs \/ dir = p
<1>1. p \in DOMAIN files /\ IsPrefix(dir, p)
  BY Zenon DEF Below
<1>2. p \in Seq(STRING) /\ dir \in Seq(STRING) /\ Above(p) \subseteq dirs
  BY <1>1, Zenon DEF Tree, IsTree, Path
<1>3. dir = p \/ dir \in Above(p)
  <2>1. CASE Len(p) <= Len(dir)
    BY <1>1, <1>2, <2>1, PrefixSame
  <2>2. CASE ~(Len(p) <= Len(dir))
    <3>1. Len(dir) < Len(p)
      BY <1>2, <2>2, LenProperties
    <3>. QED  BY <1>1, <1>2, <3>1, AboveIs
  <2>. QED  BY <2>1, <2>2
<1>. QED  BY <1>1, <1>2, <1>3, Zenon DEF Path

\* Every row of grep is one of a file below the directory; and when there are
\* fewer than were wanted, all of their hits are there.
LEMMA GrepIs ==
  ASSUME Tree, Placed(DOMAIN files), NEW dir \in Path, NEW around \in Nat, NEW wanted \in Nat
  PROVE  LET rows == Grep(dir, around, wanted) IN
         /\ rows \in Seq(Row)
         /\ \A k \in DOMAIN rows : \E p \in Below(dir, DOMAIN files) : RowOf(rows[k], dir, p)
         /\ around = 0 => \A k \in DOMAIN rows : ~rows[k].context
         /\ around = 0 /\ wanted \in 1..MaxRows /\ ~IsFile(dir) /\ Len(rows) < wanted =>
              \A p \in Below(dir, DOMAIN files) : \A i \in Hits(p) :
                \E k \in DOMAIN rows : rows[k].path = Rel(dir, p) /\ rows[k].line = i
<1>. DEFINE rows == Grep(dir, around, wanted)
            limit == IF wanted \in 1..MaxRows THEN wanted ELSE MaxRows
            S == {p \in Below(dir, DOMAIN files) : Hits(p) # {}}
            found == Walk(S)
            part == [k \in DOMAIN found |-> Printed(dir, found[k], around, limit)]
            flat == FlattenSeq(part)
<1>1. limit \in Nat
  BY SearchConstants
<1>2. CASE dir \notin dirs
  <2>1. rows = <<>>
    BY <1>2, Zenon DEF Grep
  <2>. HIDE DEF rows
  <2>2. rows \in Seq(Row) /\ DOMAIN rows = {}
    <3>1. rows \in Seq(Row) /\ Len(rows) = 0
      BY <2>1, EmptySeq
    <3>2. DOMAIN rows = 1..Len(rows)
      BY <3>1, LenProperties
    <3>. QED  BY <3>1, <3>2
  <2>3. ASSUME ~IsFile(dir), NEW p \in Below(dir, DOMAIN files) PROVE FALSE
    <3>1. p \in DOMAIN files /\ dir = p
      BY <1>2, BelowIs, Zenon
    <3>. QED  BY <2>3, <3>1, Zenon DEF IsFile
  <2>. QED  BY <2>2, <2>3, Zenon DEF rows
<1>3. CASE dir \in dirs
  <2>1. rows = First(limit, flat)
    BY <1>3, Zenon DEF Grep, Parsed
  <2>2. \A p \in S : p \in Below(dir, DOMAIN files) /\ p \in DOMAIN files /\ p \in Path /\ IsPrefix(dir, p)
    BY BelowIs, Zenon
  <2>3. IsFiniteSet(S) /\ Placed(S)
    <3>1. S \in SUBSET DOMAIN files
      BY <2>2, Zenon
    <3>. HIDE DEF S
    <3>2. IsFiniteSet(DOMAIN files)
      BY Zenon DEF Tree
    <3>3. IsFiniteSet(S)
      BY <3>1, <3>2, FS_Subset
    <3>4. Placed(S)
      BY <3>1, Zenon DEF Placed
    <3>. QED  BY <3>3, <3>4
  <2>. HIDE DEF limit, rows
  <2>4. ASSUME NEW p \in S
        PROVE  /\ Printed(dir, p, around, limit) \in Seq(Row)
               /\ \A k \in DOMAIN Printed(dir, p, around, limit) : RowOf(Printed(dir, p, around, limit)[k], dir, p)
               /\ around = 0 => \A k \in DOMAIN Printed(dir, p, around, limit) : ~Printed(dir, p, around, limit)[k].context
               /\ around = 0 /\ Len(Printed(dir, p, around, limit)) < limit =>
                    \A i \in Hits(p) : \E k \in DOMAIN Printed(dir, p, around, limit) :
                      Printed(dir, p, around, limit)[k].line = i
    <3>1. p \in DOMAIN files /\ IsPrefix(dir, p)
      BY <2>2, Zenon
    <3>. QED  BY <1>1, <3>1, PrintedIs
  <2>5. found \in Seq(S) /\ \A p \in S : \E k \in DOMAIN found : found[k] = p
    <3>. HIDE DEF S
    <3>. QED  BY <2>3, WalkIs
  <2>. HIDE DEF S
  <2>. HIDE DEF found
  <2>6. Len(found) \in Nat /\ DOMAIN found = 1..Len(found) /\ \A k \in DOMAIN found : found[k] \in S
    BY <2>5, LenProperties, ElementOfSeq
  <2>7. part \in Seq(Seq(Row)) /\ Len(part) = Len(found)
        /\ \A k \in 1..Len(found) : part[k] = Printed(dir, found[k], around, limit)
    <3>1. \A k \in 1..Len(found) : Printed(dir, found[k], around, limit) \in Seq(Row)
      BY <2>4, <2>6, Zenon
    <3>2. part = [k \in 1..Len(found) |-> Printed(dir, found[k], around, limit)]
      BY <2>6, Zenon
    <3>. HIDE DEF part
    <3>3. part \in [1..Len(found) -> Seq(Row)]
      BY <3>1, <3>2, Zenon
    <3>4. part \in Seq(Seq(Row)) /\ Len(part) = Len(found)
      BY <2>6, <3>3, NumberedIs
    <3>5. \A k \in 1..Len(found) : part[k] = Printed(dir, found[k], around, limit)
      BY <3>2, Zenon
    <3>. QED  BY <3>4, <3>5
  <2>. HIDE DEF part
  <2>8. flat \in Seq(Row) /\ Gathers(flat, part, Len(part))
    BY <2>7, FlattenHas
  <2>. HIDE DEF flat
  <2>9. /\ rows \in Seq(Row)
        /\ \A k \in DOMAIN rows : k \in DOMAIN flat /\ rows[k] = flat[k]
        /\ Len(rows) < limit => rows = flat
    <3>1. First(limit, flat) \in Seq(Row) /\ (\A k \in DOMAIN First(limit, flat) : k \in DOMAIN flat /\ First(limit, flat)[k] = flat[k])
          /\ (Len(First(limit, flat)) < limit => First(limit, flat) = flat)
      BY <1>1, <2>8, FirstIs
    <3>. QED  BY <2>1, <3>1, Zenon
  <2>10. \A j \in DOMAIN flat : \E k \in 1..Len(found) :
           found[k] \in S /\ \E m \in DOMAIN Printed(dir, found[k], around, limit) :
             flat[j] = Printed(dir, found[k], around, limit)[m]
    <3>. SUFFICES ASSUME NEW j \in DOMAIN flat
                  PROVE  \E k \in 1..Len(found) :
                           found[k] \in S /\ \E m \in DOMAIN Printed(dir, found[k], around, limit) :
                             flat[j] = Printed(dir, found[k], around, limit)[m]
      OBVIOUS
    <3>1. PICK k \in 1..Len(found) : \E m \in DOMAIN part[k] : flat[j] = part[k][m]
      BY <2>7, <2>8, Zenon DEF Gathers
    <3>2. part[k] = Printed(dir, found[k], around, limit) /\ found[k] \in S
      BY <2>6, <2>7, Zenon
    <3>. QED  BY <3>1, <3>2, Zenon
  <2>11. ASSUME NEW n \in DOMAIN rows
         PROVE  /\ \E p \in Below(dir, DOMAIN files) : RowOf(rows[n], dir, p)
                /\ around = 0 => ~rows[n].context
    <3>1. n \in DOMAIN flat /\ rows[n] = flat[n]
      BY <2>9, Zenon
    <3>2. PICK k \in 1..Len(found) :
            found[k] \in S /\ \E m \in DOMAIN Printed(dir, found[k], around, limit) :
              flat[n] = Printed(dir, found[k], around, limit)[m]
      BY <2>10, <3>1, Zenon
    <3>. DEFINE p == found[k]
    <3>3. p \in S /\ p \in Below(dir, DOMAIN files)
      BY <2>2, <3>2, Zenon
    <3>4. PICK m \in DOMAIN Printed(dir, p, around, limit) : flat[n] = Printed(dir, p, around, limit)[m]
      BY <3>2, Zenon
    <3>. HIDE DEF p
    <3>5. RowOf(rows[n], dir, p) /\ (around = 0 => ~rows[n].context)
      BY <2>4, <3>1, <3>3, <3>4, Zenon
    <3>. QED  BY <3>3, <3>5, Zenon
  <2>12. ASSUME around = 0, wanted \in 1..MaxRows, Len(rows) < wanted,
                NEW p \in Below(dir, DOMAIN files), NEW i \in Hits(p)
         PROVE  \E k \in DOMAIN rows : rows[k].path = Rel(dir, p) /\ rows[k].line = i
    <3>1. limit = wanted /\ rows = flat
      <4>1. limit = wanted
        BY <2>12, Zenon DEF limit
      <4>2. Len(rows) < limit
        BY <2>12, <4>1, Zenon
      <4>. QED  BY <2>9, <4>1, <4>2, Zenon
    <3>2. p \in S
      BY Zenon DEF S
    <3>3. PICK k \in DOMAIN found : found[k] = p
      BY <2>5, <3>2, Zenon
    <3>4. k \in 1..Len(part) /\ part[k] = Printed(dir, p, around, limit)
      BY <2>6, <2>7, <3>3, Zenon
    <3>5. Len(part[k]) <= Len(flat) /\ \A m \in DOMAIN part[k] : \E j \in DOMAIN flat : flat[j] = part[k][m]
      BY <2>8, <3>4, Zenon DEF Gathers
    <3>6. Len(Printed(dir, p, around, limit)) < limit
      <4>1. Len(part[k]) \in Nat /\ Len(flat) \in Nat
        <5>1. part[k] \in Seq(Row)
          BY <2>4, <3>2, <3>4, Zenon
        <5>. QED  BY <2>8, <5>1, LenProperties
      <4>2. Len(flat) < limit
        BY <2>12, <3>1, Zenon
      <4>3. Len(part[k]) < limit
        BY <1>1, <3>5, <4>1, <4>2
      <4>. QED  BY <3>4, <4>3, Zenon
    <3>7. PICK m \in DOMAIN Printed(dir, p, around, limit) : Printed(dir, p, around, limit)[m].line = i
      BY <2>4, <2>12, <3>2, <3>6, Zenon
    <3>8. PICK j \in DOMAIN flat : flat[j] = Printed(dir, p, around, limit)[m]
      BY <3>4, <3>5, <3>7, Zenon
    <3>9. RowOf(Printed(dir, p, around, limit)[m], dir, p)
      BY <2>4, <3>2, <3>7, Zenon
    <3>10. flat[j].path = Rel(dir, p) /\ flat[j].line = i
      BY <3>7, <3>8, <3>9, Zenon DEF RowOf
    <3>. QED  BY <3>1, <3>8, <3>10, Zenon
  <2>. QED  BY <2>9, <2>11, <2>12, Zenon DEF rows
<1>. QED  BY <1>2, <1>3

-----------------------------------------------------------------------------
(* What is shown of it *)

\* The whole of a scope.
LEMMA WholeScope ==
  ASSUME NEW root \in Path
  PROVE  Join(root, <<>>) = root
<1>1. Clean(<<>>) = <<>>
  <2>. DEFINE A == {<<>>}
              none == {}
  <2>1. <<>> \in Seq(none)
    BY EmptySeq
  <2>2. <<>> \in A /\ \A a \in A, x \in none : Cleaned(a, x, Rooted(<<>>)) \in A
    OBVIOUS
  <2>. HIDE DEF A, none
  <2>3. Clean(<<>>) \in A
    BY <2>1, <2>2, CleanKeeps
  <2>. QED  BY <2>3 DEF A
<1>2. root \in Seq(STRING)
  BY Zenon DEF Path
<1>3. root \o <<>> = root
  BY <1>2, ConcatEmptySeq
<1>. QED  BY <1>1, <1>3, Zenon DEF Join

\* A path is made of its root and what is relative to it.
LEMMA RelBack ==
  ASSUME NEW Seg, NEW a \in Seq(Seg), NEW p \in Seq(Seg), IsPrefix(a, p)
  PROVE  a \o Rel(a, p) = p
<1>. DEFINE b == Rel(a, p)
            c == a \o b
<1>1. Len(a) <= Len(p) /\ \A i \in 1..Len(a) : a[i] = p[i]
  BY PrefixIs
<1>2. b \in Seq(Seg) /\ Len(b) = Len(p) - Len(a) /\ \A i \in 1..(Len(p) - Len(a)) : b[i] = p[Len(a) + i]
  BY RelIs
<1>. HIDE DEF b
<1>3. /\ c \in Seq(Seg) /\ Len(c) = Len(a) + Len(b)
      /\ \A i \in 1..(Len(a) + Len(b)) : c[i] = IF i <= Len(a) THEN a[i] ELSE b[i - Len(a)]
  BY <1>2, ConcatProperties
<1>. HIDE DEF c
<1>4. Len(a) \in Nat /\ Len(p) \in Nat
  BY LenProperties
<1>5. Len(c) = Len(p) /\ \A i \in 1..Len(p) : c[i] = p[i]
  BY <1>1, <1>2, <1>3, <1>4
<1>6. c = p
  BY <1>3, <1>5, SeqEqual
<1>. QED  BY <1>6 DEF c, b

\* Unless it is mistaken for another, a row's file is the one that it is of.
LEMMA ScopeIs ==
  ASSUME Tree, NEW root \in Home \cup {Shared}, NEW p \in Below(root, DOMAIN files),
         ~IsPrefix(root, Rel(root, p)), NEW r, RowOf(r, root, p)
  PROVE  /\ root \o ScopeRel(root, r.path) = p
         /\ IsTobees(root, r) <=> InReserved(p)
<1>1. root \in Path /\ root \in Seq(STRING)
  BY HomeIs, Zenon DEF Path
<1>2. p \in DOMAIN files /\ p \in Path /\ p \in Seq(STRING) /\ IsPrefix(root, p)
  BY <1>1, BelowIs, Zenon DEF Path
<1>3. ScopeRel(root, r.path) = Rel(root, p)
  BY Zenon DEF ScopeRel, RowOf
<1>4. root \o Rel(root, p) = p
  BY <1>1, <1>2, RelBack
<1>5. IsTobees(root, r) <=> ReservedRel(root, p)
  BY <1>3, Zenon DEF IsTobees, ReservedRel
<1>6. ReservedRel(root, p) <=> InReserved(p)
  <2>1. ReservedRel(root, p) => InReserved(p)
    BY <1>2, Zenon DEF InReserved
  <2>2. ~ReservedRel(root, p) => ~InReserved(p)
    BY <1>2, NotReserved, Zenon
  <2>. QED  BY <2>1, <2>2, Zenon
<1>. QED  BY <1>3, <1>4, <1>5, <1>6, Zenon

\* The rows up to a limit of matches are the first of them.
Used(rows, k) == Cardinality({j \in 1..(k - 1) : ~rows[j].context})

\* ... of which there are so many.
LEMMA UsedIs ==
  ASSUME NEW rows, NEW n \in Nat, NEW limit \in Nat
  PROVE  LET D == {k \in 1..n : Used(rows, k) < limit} IN
         \E m \in 0..n :
           /\ D = 1..m
           /\ Used(rows, m + 1) \in Nat /\ Used(rows, m + 1) <= limit
           /\ Used(rows, m + 1) < limit => m = n
<1>. DEFINE before(k) == {j \in 1..(k - 1) : ~rows[j].context}
            D == {k \in 1..n : Used(rows, k) < limit}
            Cut(m) == /\ D = 1..m
                      /\ Used(rows, m + 1) \in Nat /\ Used(rows, m + 1) <= limit
                      /\ Used(rows, m + 1) < limit => m = n
<1>. SUFFICES \E m \in 0..n : Cut(m)
  OBVIOUS
<1>1. \A k : Used(rows, k) = Cardinality(before(k))
  BY Zenon DEF Used
<1>2. ASSUME NEW k \in 1..(n + 1)
      PROVE  IsFiniteSet(before(k)) /\ Used(rows, k) \in Nat
  <2>1. IsFiniteSet(1..(k - 1))
    BY FS_Interval
  <2>2. before(k) \in SUBSET (1..(k - 1))
    OBVIOUS
  <2>. HIDE DEF before
  <2>3. IsFiniteSet(before(k))
    BY <2>1, <2>2, FS_Subset
  <2>4. Cardinality(before(k)) \in Nat
    BY <2>3, FS_CardinalityType
  <2>. QED  BY <1>1, <2>3, <2>4
<1>3. ASSUME NEW k \in 1..(n + 1), NEW l \in 1..(n + 1), k <= l
      PROVE  Used(rows, k) <= Used(rows, l)
  <2>1. before(k) \in SUBSET before(l)
    BY <1>3
  <2>2. IsFiniteSet(before(l))
    BY <1>2
  <2>. HIDE DEF before
  <2>3. Cardinality(before(k)) <= Cardinality(before(l))
    BY <2>1, <2>2, FS_Subset
  <2>. QED  BY <1>1, <2>3
<1>4. ASSUME NEW k \in 1..n
      PROVE  Used(rows, k + 1) <= Used(rows, k) + 1
  <2>1. before(k + 1) \in SUBSET (before(k) \cup {k})
    OBVIOUS
  <2>b. k \in 1..(n + 1)
    OBVIOUS
  <2>2. IsFiniteSet(before(k))
    BY <1>2, <2>b
  <2>a. k \notin before(k)
    OBVIOUS
  <2>. HIDE DEF before
  <2>3. IsFiniteSet(before(k) \cup {k}) /\ Cardinality(before(k) \cup {k}) = Cardinality(before(k)) + 1
    BY <2>2, <2>a, FS_AddElement
  <2>4. Cardinality(before(k + 1)) <= Cardinality(before(k) \cup {k})
    BY <2>1, <2>3, FS_Subset
  <2>. QED  BY <1>1, <2>3, <2>4
<1>5. Used(rows, 1) = 0
  <2>1. before(1) = {}
    OBVIOUS
  <2>2. Cardinality({}) = 0
    BY FS_EmptySet
  <2>. QED  BY <1>1, <2>1, <2>2
<1>. HIDE DEF before
<1>6. CASE D = {}
  <2>1. limit = 0 \/ n = 0
    <3>1. n # 0 => ~(Used(rows, 1) < limit)
      BY <1>6
    <3>. QED  BY <1>5, <3>1
  <2>2. D = 1..0 /\ 0 \in 0..n
    BY <1>6
  <2>3. Used(rows, 0 + 1) = 0
    BY <1>5
  <2>. HIDE DEF D
  <2>4. Cut(0)
    BY <2>1, <2>2, <2>3
  <2>. HIDE DEF Cut
  <2>. QED  BY <2>2, <2>4
<1>7. CASE D # {}
  <2>1. D \in SUBSET (0..n)
    OBVIOUS
  <2>a. \A k : k \in D <=> k \in 1..n /\ Used(rows, k) < limit
    OBVIOUS
  <2>. HIDE DEF D
  <2>2. PICK m \in D : \A j \in D : j <= m
    BY <1>7, <2>1, GreatestNumber
  <2>3. m \in 1..n /\ Used(rows, m) < limit
    BY <2>2, <2>a
  <2>4. ASSUME NEW k \in 1..m PROVE k \in D
    <3>1. k \in 1..n /\ k <= m /\ k \in 1..(n + 1) /\ m \in 1..(n + 1)
      BY <2>3
    <3>2. Used(rows, k) <= Used(rows, m) /\ Used(rows, k) \in Nat /\ Used(rows, m) \in Nat
      BY <1>2, <1>3, <3>1
    <3>. QED  BY <2>3, <2>a, <3>1, <3>2
  <2>5. D = 1..m
    <3>1. \A k \in D : k \in 1..m
      BY <2>2, <2>3, <2>a
    <3>. QED  BY <2>4, <3>1
  <2>6. Used(rows, m + 1) \in Nat /\ Used(rows, m) \in Nat /\ Used(rows, m + 1) <= Used(rows, m) + 1
    <3>1. m + 1 \in 1..(n + 1) /\ m \in 1..(n + 1)
      BY <2>3
    <3>. QED  BY <1>2, <1>4, <2>3, <3>1
  <2>7. m # n => ~(Used(rows, m + 1) < limit)
    <3>1. m + 1 \notin D
      BY <2>2, <2>3
    <3>2. m # n => m + 1 \in 1..n
      BY <2>3
    <3>. QED  BY <2>a, <3>1, <3>2
  <2>8. m \in 0..n /\ Used(rows, m + 1) <= limit
    BY <2>3, <2>6
  <2>9. Cut(m)
    BY <2>5, <2>6, <2>7, <2>8
  <2>. HIDE DEF Cut
  <2>. QED  BY <2>8, <2>9
<1>. QED  BY <1>6, <1>7

\* A row as it is shown.
Shown(root, r) == [r EXCEPT !.path = root \o ScopeRel(root, @)]

\* ... with its path from the root of the tree.
LEMMA ShownIs ==
  ASSUME NEW root \in Path, NEW r \in Row
  PROVE  /\ Shown(root, r) \in Row /\ Shown(root, r).path = root \o ScopeRel(root, r.path)
         /\ Shown(root, r).line = r.line /\ Shown(root, r).context = r.context
<1>. DEFINE s == ScopeRel(root, r.path)
            p == root \o s
<1>1. root \in Seq(STRING) /\ r.path \in Seq(STRING)
  BY Zenon DEF Path, Row
<1>2. s \in Seq(STRING)
  <2>1. CASE IsPrefix(root, r.path)
    <3>1. Rel(root, r.path) \in Seq(STRING)
      BY <1>1, <2>1, RelIs
    <3>. QED  BY <2>1, <3>1, Zenon DEF ScopeRel
  <2>2. CASE ~IsPrefix(root, r.path)
    BY <1>1, <2>2, Zenon DEF ScopeRel
  <2>. QED  BY <2>1, <2>2
<1>. HIDE DEF s
<1>3. p \in Path
  <2>1. p \in Seq(STRING)
    BY <1>1, <1>2, ConcatProperties
  <2>. HIDE DEF p
  <2>. QED  BY <2>1, Zenon DEF Path
<1>4. Shown(root, r) = [r EXCEPT !.path = p]
  BY Zenon DEF Shown, s
<1>. HIDE DEF p
<1>5. /\ [r EXCEPT !.path = p] \in Row /\ [r EXCEPT !.path = p].path = p
      /\ [r EXCEPT !.path = p].line = r.line /\ [r EXCEPT !.path = p].context = r.context
  BY <1>3 DEF Row
<1>. QED  BY <1>4, <1>5 DEF p, s

\* The rows, tobee's own last.
Sorted(root, found, history) ==
  LET tobees == {k \in DOMAIN found : IsTobees(root, found[k])} IN
  Chosen(found, DOMAIN found \ tobees) \o IF history THEN Chosen(found, tobees) ELSE <<>>

\* They are the rows found, but for those that are not to be shown.
AreSorted(rows, root, found, history) ==
  /\ \A k \in DOMAIN rows : \E i \in DOMAIN found :
       rows[k] = found[i] /\ (history \/ ~IsTobees(root, found[i]))
  /\ history \/ (\A i \in DOMAIN found : ~IsTobees(root, found[i])) =>
       /\ Len(rows) = Len(found)
       /\ \A i \in DOMAIN found : \E k \in DOMAIN rows : rows[k] = found[i]

\* So they are.
LEMMA SortedIs ==
  ASSUME NEW root, NEW X, NEW found \in Seq(X), NEW history \in BOOLEAN
  PROVE  /\ Sorted(root, found, history) \in Seq(X)
         /\ AreSorted(Sorted(root, found, history), root, found, history)
<1>. DEFINE D == DOMAIN found
            T == {k \in D : IsTobees(root, found[k])}
            a == Chosen(found, D \ T)
            b == IF history THEN Chosen(found, T) ELSE <<>>
            rows == Sorted(root, found, history)
<1>1. D = 1..Len(found) /\ Len(found) \in Nat
  BY LenProperties
<1>2. T \in SUBSET D /\ D \ T \in SUBSET D
  OBVIOUS
<1>3. \A k \in D : k \in T <=> IsTobees(root, found[k])
  OBVIOUS
<1>4. rows = a \o b
  BY Zenon DEF Sorted
<1>. HIDE DEF rows, T
<1>5. /\ a \in Seq(X) /\ Len(a) = Cardinality(D \ T)
      /\ \A k \in DOMAIN a : \E i \in D \ T : a[k] = found[i]
      /\ \A i \in D \ T : \E k \in DOMAIN a : a[k] = found[i]
  BY <1>2, ChosenIs
<1>6. /\ b \in Seq(X) /\ Len(b) = (IF history THEN Cardinality(T) ELSE 0)
      /\ \A k \in DOMAIN b : \E i \in T : b[k] = found[i] /\ history
      /\ history => \A i \in T : \E k \in DOMAIN b : b[k] = found[i]
  <2>1. CASE history
    <3>1. /\ Chosen(found, T) \in Seq(X) /\ Len(Chosen(found, T)) = Cardinality(T)
          /\ \A k \in DOMAIN Chosen(found, T) : \E i \in T : Chosen(found, T)[k] = found[i]
          /\ \A i \in T : \E k \in DOMAIN Chosen(found, T) : Chosen(found, T)[k] = found[i]
      BY <1>2, ChosenIs
    <3>2. b = Chosen(found, T)
      BY <2>1, Zenon
    <3>. HIDE DEF b
    <3>. QED  BY <2>1, <3>1, <3>2, Zenon
  <2>2. CASE ~history
    <3>1. b = <<>>
      BY <2>2, Zenon
    <3>. HIDE DEF b
    <3>2. b \in Seq(X) /\ Len(b) = 0
      BY <3>1, EmptySeq
    <3>3. DOMAIN b = {}
      <4>1. DOMAIN b = 1..Len(b)
        BY <3>2, LenProperties
      <4>. QED  BY <3>2, <4>1
    <3>. QED  BY <2>2, <3>2, <3>3, Zenon
  <2>. QED  BY <2>1, <2>2
<1>7. Cardinality(D \ T) + Cardinality(T) = Len(found) /\ Cardinality(T) \in Nat /\ Cardinality(D \ T) \in Nat
  <2>0. IsFiniteSet(1..Len(found)) /\ Cardinality(1..Len(found)) = Len(found)
    <3>. DEFINE n == Len(found)
    <3>1. n \in Nat
      BY LenProperties
    <3>. HIDE DEF n
    <3>2. IsFiniteSet(1..n) /\ Cardinality(1..n) = n
      BY <3>1, FS_Interval
    <3>. QED  BY <3>2 DEF n
  <2>. HIDE DEF D
  <2>1. IsFiniteSet(D) /\ Cardinality(D) = Len(found)
    BY <1>1, <2>0, Zenon
  <2>2. D \cap T = T
    BY <1>2
  <2>3. Cardinality(D \ T) = Cardinality(D) - Cardinality(D \cap T) /\ IsFiniteSet(D \ T)
    BY <2>1, FS_Difference
  <2>4. IsFiniteSet(T)
    BY <1>2, <2>1, FS_Subset
  <2>5. Cardinality(T) \in Nat /\ Cardinality(D \ T) \in Nat
    BY <2>3, <2>4, FS_CardinalityType, Zenon
  <2>6. Cardinality(D \ T) = Len(found) - Cardinality(T)
    BY <2>1, <2>2, <2>3, Zenon
  <2>. QED  BY <1>1, <2>5, <2>6
<1>. HIDE DEF a, b
<1>8. Len(a) \in Nat /\ Len(b) \in Nat /\ DOMAIN a = 1..Len(a) /\ DOMAIN b = 1..Len(b)
  BY <1>5, <1>6, LenProperties
<1>9. /\ rows \in Seq(X) /\ Len(rows) = Len(a) + Len(b)
      /\ \A i \in 1..(Len(a) + Len(b)) : rows[i] = IF i <= Len(a) THEN a[i] ELSE b[i - Len(a)]
  <2>1. a \in Seq(X) /\ b \in Seq(X)
    BY <1>5, <1>6
  <2>. QED  BY <1>4, <2>1, ConcatProperties
<1>10. DOMAIN rows = 1..(Len(a) + Len(b))
  BY <1>9, LenProperties
<1>11. \A k \in DOMAIN rows : \/ k \in DOMAIN a /\ rows[k] = a[k]
                              \/ k - Len(a) \in DOMAIN b /\ rows[k] = b[k - Len(a)]
  BY <1>8, <1>9, <1>10
<1>12. /\ \A k \in DOMAIN a : k \in DOMAIN rows /\ rows[k] = a[k]
       /\ \A k \in DOMAIN b : Len(a) + k \in DOMAIN rows /\ rows[Len(a) + k] = b[k]
  BY <1>8, <1>9, <1>10
<1>13. ASSUME NEW k \in DOMAIN rows
       PROVE  \E i \in D : rows[k] = found[i] /\ (history \/ ~IsTobees(root, found[i]))
  <2>1. CASE k \in DOMAIN a /\ rows[k] = a[k]
    <3>1. PICK i \in D \ T : a[k] = found[i]
      BY <1>5, <2>1, Zenon
    <3>. QED  BY <1>3, <2>1, <3>1
  <2>2. CASE k - Len(a) \in DOMAIN b /\ rows[k] = b[k - Len(a)]
    <3>1. PICK i \in T : b[k - Len(a)] = found[i] /\ history
      BY <1>6, <2>2, Zenon
    <3>. QED  BY <1>2, <2>2, <3>1
  <2>. QED  BY <1>11, <2>1, <2>2, Zenon
<1>14. ASSUME history \/ \A i \in D : ~IsTobees(root, found[i])
       PROVE  /\ Len(rows) = Len(found)
              /\ \A i \in D : \E k \in DOMAIN rows : rows[k] = found[i]
  <2>1. history \/ T = {}
    BY <1>2, <1>3, <1>14
  <2>2. Len(rows) = Len(found)
    <3>1. CASE history
      BY <1>5, <1>6, <1>7, <1>9, <3>1
    <3>2. CASE ~history
      <4>1. Cardinality(T) = 0
        BY <2>1, <3>2, FS_EmptySet
      <4>. QED  BY <1>5, <1>6, <1>7, <1>9, <3>2, <4>1
    <3>. QED  BY <3>1, <3>2
  <2>3. ASSUME NEW i \in D PROVE \E k \in DOMAIN rows : rows[k] = found[i]
    <3>1. CASE i \in D \ T
      <4>1. PICK k \in DOMAIN a : a[k] = found[i]
        BY <1>5, <3>1, Zenon
      <4>. QED  BY <1>12, <4>1, Zenon
    <3>2. CASE i \in T
      <4>1. PICK k \in DOMAIN b : b[k] = found[i]
        BY <1>6, <2>1, <3>2
      <4>. QED  BY <1>12, <4>1, Zenon
    <3>. QED  BY <3>1, <3>2, Zenon
  <2>. QED  BY <2>2, <2>3, Zenon
<1>15. AreSorted(rows, root, found, history)
  BY <1>13, <1>14, Zenon DEF D, AreSorted
<1>. QED  BY <1>9, <1>15 DEF rows

\* A search shows rows that it found, no more than were left of its limit, and
\* all of them when there are fewer.
AreRendered(rows, root, found, history, limit) ==
  /\ \A k \in DOMAIN rows : \E i \in DOMAIN found :
       rows[k] = Shown(root, found[i]) /\ (history \/ ~IsTobees(root, found[i]))
  /\ Matched(rows) \in 0..limit
  /\ /\ Matched(rows) < limit
     /\ history \/ (\A i \in DOMAIN found : ~IsTobees(root, found[i]))
     => /\ \A i \in DOMAIN found : \E k \in DOMAIN rows : rows[k] = Shown(root, found[i])
        /\ (\A i \in DOMAIN found : ~found[i].context) => Matched(rows) = Len(found)

\* So it does.
LEMMA RenderedIs ==
  ASSUME NEW root \in Path, NEW found \in Seq(Row), NEW history \in BOOLEAN, NEW limit \in Nat
  PROVE  /\ Rendered(root, found, history, limit) \in Seq(Row)
         /\ AreRendered(Rendered(root, found, history, limit), root, found, history, limit)
<1>. DEFINE s == Sorted(root, found, history)
            rows == Rendered(root, found, history, limit)
            n == Len(s)
<1>1. s \in Seq(Row) /\ AreSorted(s, root, found, history)
  BY SortedIs
<1>2. rows = [k \in {j \in DOMAIN s : Used(s, j) < limit} |-> Shown(root, s[k])]
  BY Zenon DEF Rendered, Sorted, Used, Shown
<1>. HIDE DEF s, rows
<1>3. n \in Nat /\ DOMAIN s = 1..n /\ \A k \in 1..n : s[k] \in Row
  BY <1>1, LenProperties, ElementOfSeq
<1>. HIDE DEF n
<1>4. PICK m \in 0..n :
        /\ {k \in 1..n : Used(s, k) < limit} = 1..m
        /\ Used(s, m + 1) \in Nat /\ Used(s, m + 1) <= limit
        /\ Used(s, m + 1) < limit => m = n
  BY <1>3, UsedIs
<1>5. rows = [k \in 1..m |-> Shown(root, s[k])]
  BY <1>2, <1>3, <1>4, Zenon
<1>6. m \in Nat /\ \A k \in 1..m : k \in 1..n
  BY <1>3, <1>4
<1>7. \A k \in 1..m : rows[k] = Shown(root, s[k]) /\ Shown(root, s[k]) \in Row
                      /\ rows[k].context = s[k].context
  <2>1. \A k \in 1..m : s[k] \in Row
    BY <1>3, <1>6, Zenon
  <2>2. \A k \in 1..m : Shown(root, s[k]) \in Row /\ Shown(root, s[k]).context = s[k].context
    BY <2>1, ShownIs, Zenon
  <2>. QED  BY <1>5, <2>2, Zenon
<1>8. rows \in Seq(Row) /\ DOMAIN rows = 1..m
  <2>1. rows \in [1..m -> Row]
    BY <1>5, <1>7, Zenon
  <2>. QED  BY <1>6, <2>1, NumberedIs
<1>9. Matched(rows) = Used(s, m + 1)
  <2>1. {k \in DOMAIN rows : ~rows[k].context} = {k \in 1..m : ~s[k].context}
    BY <1>7, <1>8, Zenon
  <2>2. (m + 1) - 1 = m
    BY <1>6
  <2>. QED  BY <2>1, <2>2, Zenon DEF Matched, Used
<1>10. ASSUME NEW k \in DOMAIN rows
       PROVE  \E i \in DOMAIN found :
                rows[k] = Shown(root, found[i]) /\ (history \/ ~IsTobees(root, found[i]))
  <2>1. k \in DOMAIN s /\ rows[k] = Shown(root, s[k])
    BY <1>3, <1>6, <1>7, <1>8, Zenon
  <2>2. PICK i \in DOMAIN found : s[k] = found[i] /\ (history \/ ~IsTobees(root, found[i]))
    BY <1>1, <2>1, Zenon DEF AreSorted
  <2>. QED  BY <2>1, <2>2, Zenon
<1>11. Matched(rows) \in 0..limit
  BY <1>4, <1>9
<1>12. ASSUME Matched(rows) < limit, history \/ (\A i \in DOMAIN found : ~IsTobees(root, found[i]))
       PROVE  /\ \A i \in DOMAIN found : \E k \in DOMAIN rows : rows[k] = Shown(root, found[i])
              /\ (\A i \in DOMAIN found : ~found[i].context) => Matched(rows) = Len(found)
  <2>1. m = n
    BY <1>4, <1>9, <1>12, Zenon
  <2>2. Len(s) = Len(found) /\ \A i \in DOMAIN found : \E k \in DOMAIN s : s[k] = found[i]
    BY <1>1, <1>12, Zenon DEF AreSorted
  <2>3. \A i \in DOMAIN found : \E k \in DOMAIN rows : rows[k] = Shown(root, found[i])
    BY <1>3, <1>7, <1>8, <2>1, <2>2, Zenon
  <2>4. ASSUME \A i \in DOMAIN found : ~found[i].context
        PROVE  Matched(rows) = Len(found)
    <3>1. \A k \in 1..m : ~s[k].context
      BY <1>1, <1>3, <1>6, <2>4, Zenon DEF AreSorted
    <3>2. {k \in 1..m : ~s[k].context} = 1..m
      BY <3>1, Zenon
    <3>3. {k \in DOMAIN rows : ~rows[k].context} = 1..m
      BY <1>7, <1>8, <3>2, Zenon
    <3>4. Cardinality(1..m) = m
      BY <1>6, FS_Interval
    <3>5. Matched(rows) = m
      BY <3>3, <3>4, Zenon DEF Matched
    <3>. QED  BY <2>1, <2>2, <3>5, Zenon DEF n
  <2>. QED  BY <2>3, <2>4, Zenon
<1>13. AreRendered(rows, root, found, history, limit)
  BY <1>10, <1>11, <1>12, Zenon DEF AreRendered
<1>. QED  BY <1>8, <1>13 DEF rows

\* The matches of rows after others.
LEMMA MatchedJoined ==
  ASSUME NEW X, NEW a \in Seq(X), NEW b \in Seq(X)
  PROVE  Matched(a \o b) = Matched(a) + Matched(b) /\ Matched(a) \in Nat /\ Matched(b) \in Nat
<1>. DEFINE c == a \o b
            A == {k \in DOMAIN a : ~a[k].context}
            B == {k \in DOMAIN b : ~b[k].context}
            C == {k \in DOMAIN c : ~c[k].context}
            up == [k \in B |-> Len(a) + k]
            U == {Len(a) + k : k \in B}
<1>1. /\ c \in Seq(X) /\ Len(c) = Len(a) + Len(b)
      /\ \A i \in 1..(Len(a) + Len(b)) : c[i] = IF i <= Len(a) THEN a[i] ELSE b[i - Len(a)]
  BY ConcatProperties
<1>. HIDE DEF c
<1>2. Len(a) \in Nat /\ Len(b) \in Nat /\ DOMAIN a = 1..Len(a) /\ DOMAIN b = 1..Len(b)
      /\ DOMAIN c = 1..(Len(a) + Len(b))
  BY <1>1, LenProperties
<1>3. C = A \cup U
  <2>1. ASSUME NEW k \in C PROVE k \in A \cup U
    <3>1. CASE k <= Len(a)
      BY <1>1, <1>2, <3>1
    <3>2. CASE ~(k <= Len(a))
      <4>1. k - Len(a) \in B /\ Len(a) + (k - Len(a)) = k
        BY <1>1, <1>2, <3>2
      <4>. QED  BY <4>1
    <3>. QED  BY <3>1, <3>2
  <2>2. ASSUME NEW k \in A PROVE k \in C
    BY <1>1, <1>2
  <2>3. ASSUME NEW k \in B PROVE Len(a) + k \in C
    BY <1>1, <1>2
  <2>. QED  BY <2>1, <2>2, <2>3
<1>4. A \cap U = {}
  BY <1>2
<1>5. A \in SUBSET (1..Len(a)) /\ B \in SUBSET (1..Len(b))
  BY <1>2
<1>6. up \in Surjection(B, U) /\ up \in Injection(B, U)
  <2>1. \A k \in B : k \in Int
    BY <1>2
  <2>. HIDE DEF B
  <2>. QED  BY <1>2, <2>1 DEF Surjection, Injection, IsInjective
<1>. DEFINE la == Len(a)
            lb == Len(b)
<1>7. IsFiniteSet(1..la) /\ IsFiniteSet(1..lb)
  BY <1>2, FS_Interval
<1>8. Matched(a) = Cardinality(A) /\ Matched(b) = Cardinality(B) /\ Matched(c) = Cardinality(C)
  BY Zenon DEF Matched
<1>. HIDE DEF A, B, C, U, up
<1>9. IsFiniteSet(A) /\ IsFiniteSet(B)
  <2>1. A \in SUBSET (1..la) /\ B \in SUBSET (1..lb)
    BY <1>5
  <2>. HIDE DEF la, lb
  <2>. QED  BY <1>7, <2>1, FS_Subset
<1>10. IsFiniteSet(U) /\ Cardinality(U) = Cardinality(B)
  BY <1>6, <1>9, FS_Surjection
<1>11. Cardinality(A \cup U) = Cardinality(A) + Cardinality(U) - Cardinality(A \cap U)
  BY <1>9, <1>10, FS_Union
<1>12. Cardinality(A \cap U) = 0
  BY <1>4, FS_EmptySet
<1>13. Cardinality(A) \in Nat /\ Cardinality(B) \in Nat
  BY <1>9, FS_CardinalityType
<1>14. Cardinality(C) = Cardinality(A) + Cardinality(B) - 0
  BY <1>3, <1>10, <1>11, <1>12, Zenon
<1>15. Matched(c) = Matched(a) + Matched(b) /\ Matched(a) \in Nat /\ Matched(b) \in Nat
  BY <1>8, <1>13, <1>14
<1>. QED  BY <1>15 DEF c

-----------------------------------------------------------------------------
(* One scope *)

\* Nothing below a root is taken for something else, and none of tobee's own
\* files that are there has a share in the search.
Scoped(root)  == \A p \in Below(root, DOMAIN files) : ~IsPrefix(root, Rel(root, p))
Clear(root)   == \A p \in Below(root, DOMAIN files) :
                   ~(InReserved(p) /\ (NameMatches(p) \/ Hits(p) # {}))

\* The elements of two sequences, one after the other.
LEMMA ElementsJoined ==
  ASSUME NEW X, NEW a \in Seq(X), NEW b \in Seq(X)
  PROVE  /\ a \o b \in Seq(X) /\ Len(a \o b) = Len(a) + Len(b)
         /\ Range(a \o b) = Range(a) \cup Range(b)
<1>. DEFINE c == a \o b
<1>1. /\ c \in Seq(X) /\ Len(c) = Len(a) + Len(b)
      /\ \A i \in 1..(Len(a) + Len(b)) : c[i] = IF i <= Len(a) THEN a[i] ELSE b[i - Len(a)]
  BY ConcatProperties
<1>. HIDE DEF c
<1>2. Len(a) \in Nat /\ Len(b) \in Nat /\ DOMAIN a = 1..Len(a) /\ DOMAIN b = 1..Len(b)
      /\ DOMAIN c = 1..(Len(a) + Len(b))
  BY <1>1, LenProperties
<1>3. /\ \A k \in DOMAIN a : k \in DOMAIN c /\ c[k] = a[k]
      /\ \A k \in DOMAIN b : Len(a) + k \in DOMAIN c /\ c[Len(a) + k] = b[k]
      /\ \A k \in DOMAIN c : \/ k \in DOMAIN a /\ c[k] = a[k]
                             \/ k - Len(a) \in DOMAIN b /\ c[k] = b[k - Len(a)]
  BY <1>1, <1>2
<1>4. Range(c) = Range(a) \cup Range(b)
  <2>1. Range(c) = {c[k] : k \in DOMAIN c} /\ Range(a) = {a[k] : k \in DOMAIN a}
        /\ Range(b) = {b[k] : k \in DOMAIN b}
    BY Zenon DEF Range
  <2>2. ASSUME NEW x \in Range(c) PROVE x \in Range(a) \cup Range(b)
    <3>1. PICK k \in DOMAIN c : c[k] = x
      BY <2>1, Zenon
    <3>. QED  BY <1>3, <2>1, <3>1, Zenon
  <2>3. ASSUME NEW x \in Range(a) PROVE x \in Range(c)
    <3>1. PICK k \in DOMAIN a : a[k] = x
      BY <2>1, Zenon
    <3>. QED  BY <1>3, <2>1, <3>1, Zenon
  <2>4. ASSUME NEW x \in Range(b) PROVE x \in Range(c)
    <3>1. PICK k \in DOMAIN b : b[k] = x
      BY <2>1, Zenon
    <3>. QED  BY <1>3, <2>1, <3>1, Zenon
  <2>. QED  BY <2>2, <2>3, <2>4, Zenon
<1>. QED  BY <1>1, <1>4 DEF c

\* The names that are shown.
NamesShown(root, limit, history) ==
  LET named == MatchNames(root, limit)
  IN  Chosen(named, {k \in DOMAIN named : history \/ ~ReservedRel(root, named[k])})

\* They are within the limit, and all of them below it.
LEMMA NamesAre ==
  ASSUME Tree, Placed(DOMAIN files), NEW root \in Home \cup {Shared},
         NEW limit \in Nat, NEW history \in BOOLEAN
  PROVE  LET names == NamesShown(root, limit, history) IN
         /\ names \in Seq(Path) /\ Len(names) \in 0..limit
         /\ (history \/ Clear(root)) /\ Len(names) < limit =>
              \A p \in Below(root, DOMAIN files) : NameMatches(p) => p \in Range(names)
<1>. DEFINE S == {p \in Below(root, DOMAIN files) : NameMatches(p)}
            walk == Walk(S)
            named == MatchNames(root, limit)
            I == {k \in DOMAIN named : history \/ ~ReservedRel(root, named[k])}
            names == NamesShown(root, limit, history)
<1>0. root \in Path
  BY HomeIs
<1>1. named = First(limit, walk)
  BY Zenon DEF MatchNames
<1>2. \A p \in S : p \in Below(root, DOMAIN files) /\ p \in DOMAIN files /\ p \in Path
                   /\ IsPrefix(root, p) /\ NameMatches(p)
  BY <1>0, BelowIs, Zenon
<1>a. \A p \in Below(root, DOMAIN files) : NameMatches(p) => p \in S
  OBVIOUS
<1>3. names = Chosen(named, I) /\ I \in SUBSET DOMAIN named
  BY Zenon DEF NamesShown
<1>. HIDE DEF S
<1>4. IsFiniteSet(S) /\ Placed(S)
  <2>1. S \in SUBSET DOMAIN files
    BY <1>2, Zenon
  <2>2. IsFiniteSet(DOMAIN files)
    BY Zenon DEF Tree
  <2>3. IsFiniteSet(S)
    BY <2>1, <2>2, FS_Subset
  <2>4. Placed(S)
    BY <2>1, Zenon DEF Placed
  <2>. QED  BY <2>3, <2>4
<1>5. walk \in Seq(S) /\ \A p \in S : \E k \in DOMAIN walk : walk[k] = p
  BY <1>4, WalkIs
<1>. HIDE DEF walk, named, names
<1>6. /\ named \in Seq(S) /\ Len(named) <= limit
      /\ Len(named) < limit => named = walk
  <2>1. /\ First(limit, walk) \in Seq(S) /\ Len(First(limit, walk)) <= limit
        /\ Len(First(limit, walk)) < limit => First(limit, walk) = walk
    BY <1>5, FirstIs
  <2>. QED  BY <1>1, <2>1, Zenon
<1>7. named \in Seq(Path) /\ \A k \in DOMAIN named : named[k] \in S
  <2>1. DOMAIN named = 1..Len(named) /\ \A k \in 1..Len(named) : named[k] \in S
    BY <1>6, LenProperties, ElementOfSeq
  <2>2. Len(named) \in Nat
    BY <1>6, LenProperties
  <2>3. named = [k \in 1..Len(named) |-> named[k]]
    BY <1>6, <2>1
  <2>4. named \in [1..Len(named) -> Path]
    BY <1>2, <2>1, <2>3, Zenon
  <2>. QED  BY <2>1, <2>2, <2>4, NumberedIs
<1>8. /\ Chosen(named, I) \in Seq(Path) /\ Len(Chosen(named, I)) = Cardinality(I)
      /\ Cardinality(I) \in Nat
      /\ \A i \in I : \E k \in DOMAIN Chosen(named, I) : Chosen(named, I)[k] = named[i]
  <2>. HIDE DEF I
  <2>. QED  BY <1>3, <1>7, ChosenIs
<1>9. Cardinality(I) <= Len(named)
  <2>. DEFINE n == Len(named)
  <2>1. DOMAIN named = 1..n /\ n \in Nat
    BY <1>6, LenProperties
  <2>. HIDE DEF I, n
  <2>2. IsFiniteSet(1..n) /\ Cardinality(1..n) = n
    BY <2>1, FS_Interval
  <2>3. I \in SUBSET (1..n)
    BY <1>3, <2>1
  <2>4. Cardinality(I) <= n
    BY <2>2, <2>3, FS_Subset
  <2>. QED  BY <2>4 DEF n
<1>10. names \in Seq(Path) /\ Len(names) \in 0..limit
  <2>1. Len(named) \in Nat
    BY <1>6, LenProperties
  <2>. HIDE DEF I
  <2>2. Cardinality(I) \in 0..limit
    BY <1>6, <1>8, <1>9, <2>1
  <2>. QED  BY <1>3, <1>8, <2>2, Zenon
<1>11. ASSUME history \/ Clear(root), Len(names) < limit,
              NEW p \in Below(root, DOMAIN files), NameMatches(p)
       PROVE  p \in Range(names)
  <2>1. I = DOMAIN named
    <3>. SUFFICES ASSUME NEW k \in DOMAIN named, ~history PROVE ~ReservedRel(root, named[k])
      OBVIOUS
    <3>1. named[k] \in Below(root, DOMAIN files) /\ NameMatches(named[k]) /\ IsPrefix(root, named[k])
      BY <1>2, <1>7, Zenon
    <3>2. ~InReserved(named[k])
      BY <1>11, <3>1, Zenon DEF Clear
    <3>. QED  BY <3>1, <3>2, Zenon DEF InReserved
  <2>. HIDE DEF I
  <2>2. Len(names) = Len(named)
    BY <1>3, <1>7, <2>1, ChosenAll
  <2>3. named = walk
    BY <1>6, <1>11, <2>2, Zenon
  <2>4. p \in S
    BY <1>a, <1>11, Zenon
  <2>5. PICK i \in I : named[i] = p
    BY <1>5, <2>1, <2>3, <2>4, Zenon
  <2>6. PICK k \in DOMAIN names : names[k] = p
    BY <1>3, <1>8, <2>5, Zenon
  <2>. QED  BY <2>6, Zenon DEF Range
<1>. QED  BY <1>10, <1>11, Zenon DEF names

\* A row that is right, and rows that leave none out.
Right(r, root, history) ==
  \E p \in Below(root, DOMAIN files) :
    /\ r.path = p /\ r.line \in DOMAIN files[p]
    /\ r.context \/ r.line \in Hits(p)
    /\ InReserved(p) => history

AllHits(rows, root) ==
  \A p \in Below(root, DOMAIN files) : \A i \in Hits(p) :
    \E r \in Range(rows) : r.path = p /\ r.line = i

AllNames(names, root) ==
  \A p \in Below(root, DOMAIN files) : NameMatches(p) => p \in Range(names)

\* The lines that are shown.
RowsShown(root, around, limit, history) == Rendered(root, Grep(root, around, limit), history, limit)

\* They are right, and all of them when there are fewer than the limit.
LEMMA RowsAre ==
  ASSUME Tree, Placed(DOMAIN files), NEW root \in Home \cup {Shared},
         NEW around \in Nat, NEW limit \in Nat, NEW history \in BOOLEAN
  PROVE  LET rows == RowsShown(root, around, limit, history) IN
         /\ rows \in Seq(Row) /\ Matched(rows) \in 0..limit
         /\ Scoped(root) => \A r \in Range(rows) : Right(r, root, history)
         /\ /\ Scoped(root) /\ (history \/ Clear(root)) /\ ~IsFile(root)
            /\ around = 0 /\ limit \in 1..MaxRows /\ Matched(rows) < limit
            => AllHits(rows, root)
<1>. DEFINE found == Grep(root, around, limit)
            rows == RowsShown(root, around, limit, history)
<1>0. root \in Path /\ root \in Seq(STRING)
  BY HomeIs, Zenon DEF Path
<1>1. /\ found \in Seq(Row)
      /\ \A k \in DOMAIN found : \E p \in Below(root, DOMAIN files) : RowOf(found[k], root, p)
      /\ around = 0 => \A k \in DOMAIN found : ~found[k].context
      /\ around = 0 /\ limit \in 1..MaxRows /\ ~IsFile(root) /\ Len(found) < limit =>
           \A p \in Below(root, DOMAIN files) : \A i \in Hits(p) :
             \E k \in DOMAIN found : found[k].path = Rel(root, p) /\ found[k].line = i
  BY <1>0, GrepIs
<1>2. rows = Rendered(root, found, history, limit)
  BY Zenon DEF RowsShown
<1>. HIDE DEF rows, found
<1>3. rows \in Seq(Row) /\ AreRendered(rows, root, found, history, limit)
  BY <1>0, <1>1, <1>2, RenderedIs
<1>4. \A k \in DOMAIN found : found[k] \in Row
  <2>1. DOMAIN found = 1..Len(found)
    BY <1>1, LenProperties
  <2>. QED  BY <1>1, <2>1, ElementOfSeq
<1>5. \A k \in DOMAIN found :
        /\ Shown(root, found[k]).path = root \o ScopeRel(root, found[k].path)
        /\ Shown(root, found[k]).line = found[k].line /\ Shown(root, found[k]).context = found[k].context
  BY <1>0, <1>4, ShownIs
<1>6. Range(rows) = {rows[k] : k \in DOMAIN rows}
  BY Zenon DEF Range
<1>7. ASSUME Scoped(root), NEW r \in Range(rows) PROVE Right(r, root, history)
  <2>1. PICK k \in DOMAIN rows : r = rows[k]
    BY <1>6, Zenon
  <2>2. PICK i \in DOMAIN found : rows[k] = Shown(root, found[i]) /\ (history \/ ~IsTobees(root, found[i]))
    BY <1>3, Zenon DEF AreRendered
  <2>3. PICK p \in Below(root, DOMAIN files) : RowOf(found[i], root, p)
    BY <1>1, Zenon
  <2>4. ~IsPrefix(root, Rel(root, p))
    BY <1>7, Zenon DEF Scoped
  <2>5. root \o ScopeRel(root, found[i].path) = p /\ (IsTobees(root, found[i]) <=> InReserved(p))
    BY <2>3, <2>4, ScopeIs
  <2>6. found[i].line \in DOMAIN files[p] /\ (found[i].context \/ found[i].line \in Hits(p))
    BY <2>3, Zenon DEF RowOf
  <2>7. r.path = p /\ r.line = found[i].line /\ r.context = found[i].context
    BY <1>5, <2>1, <2>2, <2>5, Zenon
  <2>. QED  BY <2>2, <2>5, <2>6, <2>7, Zenon DEF Right
<1>8. ASSUME Scoped(root), history \/ Clear(root), ~IsFile(root),
             around = 0, limit \in 1..MaxRows, Matched(rows) < limit,
             NEW p \in Below(root, DOMAIN files), NEW i \in Hits(p)
      PROVE  \E r \in Range(rows) : r.path = p /\ r.line = i
  <2>1. ASSUME NEW k \in DOMAIN found, ~history PROVE ~IsTobees(root, found[k])
    <3>1. PICK f \in Below(root, DOMAIN files) : RowOf(found[k], root, f)
      BY <1>1, Zenon
    <3>2. ~IsPrefix(root, Rel(root, f))
      BY <1>8, Zenon DEF Scoped
    <3>3. IsTobees(root, found[k]) <=> InReserved(f)
      BY <3>1, <3>2, ScopeIs
    <3>4. found[k].line \in Hits(f)
      BY <1>1, <1>8, <3>1, Zenon DEF RowOf
    <3>5. ~InReserved(f)
      BY <1>8, <2>1, <3>4, Zenon DEF Clear
    <3>. QED  BY <3>3, <3>5
  <2>2. /\ \A k \in DOMAIN found : \E j \in DOMAIN rows : rows[j] = Shown(root, found[k])
        /\ Matched(rows) = Len(found)
    <3>1. history \/ \A k \in DOMAIN found : ~IsTobees(root, found[k])
      BY <2>1, Zenon
    <3>2. \A k \in DOMAIN found : ~found[k].context
      BY <1>1, <1>8, Zenon
    <3>. QED  BY <1>3, <1>8, <3>1, <3>2, Zenon DEF AreRendered
  <2>3. Len(found) < limit
    BY <1>8, <2>2, Zenon
  <2>4. PICK k \in DOMAIN found : found[k].path = Rel(root, p) /\ found[k].line = i
    BY <1>1, <1>8, <2>3, Zenon
  <2>5. root \o ScopeRel(root, found[k].path) = p
    <3>1. ~IsPrefix(root, Rel(root, p))
      BY <1>8, Zenon DEF Scoped
    <3>2. ScopeRel(root, found[k].path) = Rel(root, p)
      BY <2>4, <3>1, Zenon DEF ScopeRel
    <3>3. p \in Seq(STRING) /\ IsPrefix(root, p)
      BY <1>0, BelowIs, Zenon DEF Path
    <3>4. root \o Rel(root, p) = p
      BY <1>0, <3>3, RelBack
    <3>. QED  BY <3>2, <3>4, Zenon
  <2>6. PICK j \in DOMAIN rows : rows[j] = Shown(root, found[k])
    BY <2>2, Zenon
  <2>7. rows[j] \in Range(rows) /\ rows[j].path = p /\ rows[j].line = i
    BY <1>5, <1>6, <2>4, <2>5, <2>6, Zenon
  <2>. QED  BY <2>7, Zenon
<1>9. /\ Scoped(root) => \A r \in Range(rows) : Right(r, root, history)
      /\ /\ Scoped(root) /\ (history \/ Clear(root)) /\ ~IsFile(root)
         /\ around = 0 /\ limit \in 1..MaxRows /\ Matched(rows) < limit
         => AllHits(rows, root)
  BY <1>7, <1>8, Zenon DEF AllHits
<1>10. rows \in Seq(Row) /\ Matched(rows) \in 0..limit
  BY <1>3, Zenon DEF AreRendered
<1>. QED  BY <1>9, <1>10, Zenon DEF rows

-----------------------------------------------------------------------------
(* A search *)

Answers == [names : Seq(Path), rows : Seq(Row), left : Nat]

\* What one scope adds to an answer.
Adds(new, ans, root, q) ==
  /\ new.left <= ans.left
  /\ Len(new.names) + Matched(new.rows) + new.left = Len(ans.names) + Matched(ans.rows) + ans.left
  /\ Range(ans.names) \subseteq Range(new.names) /\ Range(ans.rows) \subseteq Range(new.rows)
  /\ Scoped(root) => \A r \in Range(new.rows) : r \in Range(ans.rows) \/ Right(r, root, q.history)
  /\ /\ new.left > 0 /\ ans.left <= MaxRows /\ q.around = 0
     /\ Scoped(root) /\ (q.history \/ Clear(root)) /\ ~IsFile(root)
     => AllNames(new.names, root) /\ AllHits(new.rows, root)

\* So it does.
LEMMA IntoIs ==
  ASSUME Tree, Placed(DOMAIN files), NEW root \in Home \cup {Shared},
         NEW q \in Query, q.dir = <<>>, NEW ans \in Answers
  PROVE  Into(ans, root, q) \in Answers /\ Adds(Into(ans, root, q), ans, root, q)
<1>. DEFINE names == NamesShown(root, ans.left, q.history)
            left  == ans.left - Len(names)
            rows  == RowsShown(root, q.around, left, q.history)
            more  == [names |-> ans.names \o names, rows |-> ans.rows \o rows, left |-> left - Matched(rows)]
            new   == Into(ans, root, q)
<1>1. q.limit \in Nat \ {0} /\ q.history \in BOOLEAN /\ q.around \in Nat /\ MaxRows \in Nat
  BY SearchConstants
<1>2. ans.names \in Seq(Path) /\ ans.rows \in Seq(Row) /\ ans.left \in Nat
  BY DEF Answers
<1>3. Join(root, q.dir) = root
  <2>1. root \in Path
    BY HomeIs
  <2>. QED  BY <2>1, WholeScope
<1>4. new = IF ans.left <= 0 THEN ans ELSE more
  BY <1>3, Zenon DEF Into, NamesShown, RowsShown
<1>. HIDE DEF new
<1>5. CASE ans.left <= 0
  <2>1. new = ans
    BY <1>4, <1>5
  <2>2. ans.left = 0
    BY <1>2, <1>5
  <2>3. ans.left <= ans.left /\ ~(ans.left > 0)
    BY <2>2
  <2>4. Adds(ans, ans, root, q)
    BY <2>3, Zenon DEF Adds
  <2>. QED  BY <2>1, <2>4 DEF new
<1>6. CASE ~(ans.left <= 0)
  <2>1. new = more
    BY <1>4, <1>6
  <2>2. /\ names \in Seq(Path) /\ Len(names) \in 0..ans.left
        /\ (q.history \/ Clear(root)) /\ Len(names) < ans.left => AllNames(names, root)
    <3>. DEFINE l == ans.left
                hist == q.history
    <3>1. l \in Nat /\ hist \in BOOLEAN
      BY <1>1, <1>2
    <3>. HIDE DEF l, hist
    <3>2. /\ NamesShown(root, l, hist) \in Seq(Path) /\ Len(NamesShown(root, l, hist)) \in 0..l
          /\ (hist \/ Clear(root)) /\ Len(NamesShown(root, l, hist)) < l =>
               \A p \in Below(root, DOMAIN files) : NameMatches(p) => p \in Range(NamesShown(root, l, hist))
      BY <3>1, NamesAre
    <3>. QED  BY <3>2, Zenon DEF l, hist, AllNames
  <2>. HIDE DEF names
  <2>3. left \in Nat /\ left <= ans.left
    BY <1>2, <2>2
  <2>4. /\ rows \in Seq(Row) /\ Matched(rows) \in 0..left
        /\ Scoped(root) => \A r \in Range(rows) : Right(r, root, q.history)
        /\ /\ Scoped(root) /\ (q.history \/ Clear(root)) /\ ~IsFile(root)
           /\ q.around = 0 /\ left \in 1..MaxRows /\ Matched(rows) < left
           => AllHits(rows, root)
    <3>. DEFINE a == q.around
                hist == q.history
    <3>1. a \in Nat /\ hist \in BOOLEAN
      BY <1>1
    <3>. HIDE DEF a, hist, left
    <3>2. /\ RowsShown(root, a, left, hist) \in Seq(Row)
          /\ Matched(RowsShown(root, a, left, hist)) \in 0..left
          /\ Scoped(root) => \A r \in Range(RowsShown(root, a, left, hist)) : Right(r, root, hist)
          /\ /\ Scoped(root) /\ (hist \/ Clear(root)) /\ ~IsFile(root)
             /\ a = 0 /\ left \in 1..MaxRows /\ Matched(RowsShown(root, a, left, hist)) < left
             => AllHits(RowsShown(root, a, left, hist), root)
      BY <2>3, <3>1, RowsAre
    <3>. QED  BY <3>2, Zenon DEF a, hist
  <2>. HIDE DEF rows
  <2>5. new.names = ans.names \o names /\ new.rows = ans.rows \o rows /\ new.left = left - Matched(rows)
    BY <2>1
  <2>6. /\ ans.names \o names \in Seq(Path) /\ Len(ans.names \o names) = Len(ans.names) + Len(names)
        /\ Range(ans.names \o names) = Range(ans.names) \cup Range(names)
    BY <1>2, <2>2, ElementsJoined
  <2>7. /\ ans.rows \o rows \in Seq(Row)
        /\ Range(ans.rows \o rows) = Range(ans.rows) \cup Range(rows)
    BY <1>2, <2>4, ElementsJoined
  <2>8. /\ Matched(ans.rows \o rows) = Matched(ans.rows) + Matched(rows)
        /\ Matched(ans.rows) \in Nat /\ Matched(rows) \in Nat
    BY <1>2, <2>4, MatchedJoined
  <2>9. new.left \in Nat /\ new.left <= left /\ (new.left > 0 => Matched(rows) < left)
    <3>. HIDE DEF left
    <3>. QED  BY <2>3, <2>4, <2>5
  <2>10. new \in Answers
    <3>. DEFINE n == ans.names \o names
                r == ans.rows \o rows
                l == left - Matched(rows)
    <3>1. n \in Seq(Path) /\ r \in Seq(Row) /\ l \in Nat
      BY <2>5, <2>6, <2>7, <2>9
    <3>2. new = [names |-> n, rows |-> r, left |-> l]
      BY <2>1
    <3>. HIDE DEF n, r, l
    <3>. QED  BY <3>1, <3>2 DEF Answers
  <2>11. Len(new.names) + Matched(new.rows) + new.left = Len(ans.names) + Matched(ans.rows) + ans.left
    <3>1. Len(ans.names) \in Nat /\ Len(names) \in Nat
      BY <1>2, <2>2, LenProperties
    <3>2. Len(new.names) = Len(ans.names) + Len(names)
      BY <2>5, <2>6, Zenon
    <3>3. Matched(new.rows) = Matched(ans.rows) + Matched(rows)
      BY <2>5, <2>8, Zenon
    <3>4. new.left = ans.left - Len(names) - Matched(rows)
      BY <2>5
    <3>. QED  BY <1>2, <2>8, <3>1, <3>2, <3>3, <3>4
  <2>12. Range(new.names) = Range(ans.names) \cup Range(names) /\ Range(new.rows) = Range(ans.rows) \cup Range(rows)
    BY <2>5, <2>6, <2>7, Zenon
  <2>13. Scoped(root) => \A r \in Range(new.rows) : r \in Range(ans.rows) \/ Right(r, root, q.history)
    BY <2>4, <2>12, Zenon
  <2>14. ASSUME new.left > 0, ans.left <= MaxRows, q.around = 0,
                Scoped(root), q.history \/ Clear(root), ~IsFile(root)
         PROVE  AllNames(new.names, root) /\ AllHits(new.rows, root)
    <3>1. left \in 1..MaxRows /\ Len(names) < ans.left
      <4>. DEFINE k == Len(names)
      <4>1. left = ans.left - k /\ k \in Nat
        BY <2>2, LenProperties
      <4>. HIDE DEF left, k
      <4>2. left > 0
        BY <2>3, <2>9, <2>14
      <4>3. left \in 1..MaxRows /\ k < ans.left
        BY <1>1, <1>2, <2>3, <2>14, <4>1, <4>2
      <4>. QED  BY <4>3 DEF k
    <3>. HIDE DEF left
    <3>2. AllNames(names, root) /\ AllHits(rows, root)
      BY <2>2, <2>4, <2>9, <2>14, <3>1, Zenon
    <3>3. AllNames(new.names, root)
      BY <2>12, <3>2, Zenon DEF AllNames
    <3>4. AllHits(new.rows, root)
      <4>1. \A r \in Range(rows) : r \in Range(new.rows)
        BY <2>12, Zenon
      <4>. SUFFICES ASSUME NEW p \in Below(root, DOMAIN files), NEW i \in Hits(p)
                    PROVE  \E r \in Range(new.rows) : r.path = p /\ r.line = i
        BY Zenon DEF AllHits
      <4>2. PICK r \in Range(rows) : r.path = p /\ r.line = i
        BY <3>2, Zenon DEF AllHits
      <4>. QED  BY <4>1, <4>2, Zenon
    <3>. QED  BY <3>3, <3>4
  <2>15. new.left <= ans.left
    <3>. HIDE DEF left
    <3>. QED  BY <1>2, <2>3, <2>9
  <2>16. Range(ans.names) \subseteq Range(new.names) /\ Range(ans.rows) \subseteq Range(new.rows)
    BY <2>12, Zenon
  <2>17. Adds(new, ans, root, q)
    BY <2>11, <2>13, <2>14, <2>15, <2>16, Zenon DEF Adds
  <2>. QED  BY <2>10, <2>17 DEF new
<1>. QED  BY <1>5, <1>6

\* What is in the way of a search, scope by scope.
LEMMA ScopesAre ==
  ASSUME NEW h
  PROVE  /\ Mistaken(h) = {} => Scoped(h) /\ Scoped(Shared)
         /\ InTheWay(h) = {} => Clear(h) /\ Clear(Shared)
<1>1. \A p : p \in Mine(h) <=> p \in Below(h, DOMAIN files) \/ p \in Below(Shared, DOMAIN files)
  BY Zenon DEF Mine
<1>2. ASSUME Mistaken(h) = {}, NEW root \in {h, Shared} PROVE Scoped(root)
  <2>. SUFFICES ASSUME NEW p \in Below(root, DOMAIN files), IsPrefix(root, Rel(root, p)) PROVE FALSE
    BY Zenon DEF Scoped
  <2>1. p \in Mine(h) /\ IsPrefix(root, p)
    BY <1>1, Zenon DEF Below
  <2>2. p \in Mistaken(h)
    BY <2>1, Zenon DEF Mistaken
  <2>. QED  BY <1>2, <2>2, Zenon
<1>3. ASSUME InTheWay(h) = {}, NEW root \in {h, Shared} PROVE Clear(root)
  <2>. SUFFICES ASSUME NEW p \in Below(root, DOMAIN files), InReserved(p), NameMatches(p) \/ Hits(p) # {}
                PROVE FALSE
    BY Zenon DEF Clear
  <2>1. p \in InTheWay(h)
    BY <1>1, Zenon DEF InTheWay
  <2>. QED  BY <1>3, <2>1, Zenon
<1>. QED  BY <1>2, <1>3, Zenon

\* An answer is what the two scopes add to nothing.
LEMMA AnswerIs ==
  ASSUME Tree, Placed(DOMAIN files), NEW h \in Home, NEW q \in Query, q.dir = <<>>
  PROVE  \E a \in Answers, b \in Answers, c \in Answers :
           /\ a.names = <<>> /\ a.rows = <<>> /\ a.left = q.limit
           /\ Adds(b, a, Shared, q) /\ Adds(c, b, h, q) /\ Answer(h, q) = c
<1>. DEFINE a == [names |-> <<>>, rows |-> <<>>, left |-> q.limit]
            b == Into(a, Shared, q)
            c == Into(b, h, q)
<1>1. a \in Answers /\ a.names = <<>> /\ a.rows = <<>> /\ a.left = q.limit
  <2>1. q.limit \in Nat
    BY SearchConstants
  <2>2. <<>> \in Seq(Path) /\ <<>> \in Seq(Row)
    BY EmptySeq
  <2>. QED  BY <2>1, <2>2 DEF Answers
<1>2. c = Answer(h, q)
  BY Zenon DEF Answer
<1>. HIDE DEF a
<1>3. b \in Answers /\ Adds(b, a, Shared, q)
  BY <1>1, IntoIs
<1>. HIDE DEF b
<1>4. c \in Answers /\ Adds(c, b, h, q)
  BY <1>3, IntoIs
<1>. HIDE DEF c
<1>. QED  BY <1>1, <1>2, <1>3, <1>4, Zenon

\* Every file has its own place in a walk of the directories.
OwnPlaces == Placed(DOMAIN files)

\* What a search promises, of one search.
Answered(h, q, ans) ==
  /\ Len(ans.names) + Matched(ans.rows) + ans.left = q.limit /\ ans.left >= 0
  /\ Mistaken(h) = {} =>
       \A r \in Range(ans.rows) :
         /\ r.path \in Mine(h) /\ r.line \in DOMAIN files[r.path]
         /\ r.context \/ r.line \in Hits(r.path)
         /\ InReserved(r.path) => q.history
  /\ /\ ans.left > 0 /\ q.limit <= MaxRows /\ q.around = 0
     /\ q.history \/ InTheWay(h) = {}
     /\ Mistaken(h) = {} /\ ~IsFile(h) /\ ~IsFile(Shared)
     => \A p \in Mine(h) :
          /\ NameMatches(p) => p \in Range(ans.names)
          /\ \A i \in Hits(p) : \E r \in Range(ans.rows) : r.path = p /\ r.line = i

\* Every search keeps it.
LEMMA SearchAnswered ==
  ASSUME Tree, OwnPlaces, NEW h \in Home, NEW q \in Query, q.dir = <<>>
  PROVE  Answered(h, q, Answer(h, q))
<1>1. PICK a \in Answers, b \in Answers, c \in Answers :
        /\ a.names = <<>> /\ a.rows = <<>> /\ a.left = q.limit
        /\ Adds(b, a, Shared, q) /\ Adds(c, b, h, q) /\ Answer(h, q) = c
  BY AnswerIs, Zenon DEF OwnPlaces
<1>2. \A p : p \in Mine(h) <=> p \in Below(h, DOMAIN files) \/ p \in Below(Shared, DOMAIN files)
  BY Zenon DEF Mine
<1>3. a.left \in Nat /\ b.left \in Nat /\ c.left \in Nat
  BY DEF Answers
<1>4. Len(c.names) + Matched(c.rows) + c.left = q.limit
  <2>1. Len(c.names) + Matched(c.rows) + c.left = Len(a.names) + Matched(a.rows) + a.left
    BY <1>1, Zenon DEF Adds
  <2>2. Len(a.names) = 0
    BY <1>1, EmptySeq
  <2>3. Matched(a.rows) = 0
    <3>1. \A k \in DOMAIN <<>> : FALSE
      OBVIOUS
    <3>2. {k \in DOMAIN a.rows : ~a.rows[k].context} = {}
      BY <1>1, <3>1, Zenon
    <3>. QED  BY <3>2, FS_EmptySet, Zenon DEF Matched
  <2>. QED  BY <1>1, <1>3, <2>1, <2>2, <2>3
<1>5. ASSUME Mistaken(h) = {}, NEW r \in Range(c.rows)
      PROVE  /\ r.path \in Mine(h) /\ r.line \in DOMAIN files[r.path]
             /\ r.context \/ r.line \in Hits(r.path)
             /\ InReserved(r.path) => q.history
  <2>1. Scoped(h) /\ Scoped(Shared)
    BY <1>5, ScopesAre, Zenon
  <2>2. Right(r, h, q.history) \/ r \in Range(b.rows)
    BY <1>1, <1>5, <2>1, Zenon DEF Adds
  <2>3. r \in Range(b.rows) => Right(r, Shared, q.history) \/ r \in Range(a.rows)
    BY <1>1, <2>1, Zenon DEF Adds
  <2>4. r \notin Range(a.rows)
    <3>1. Range(<<>>) = {}
      BY DEF Range
    <3>. QED  BY <1>1, <3>1, Zenon
  <2>5. PICK root \in {h, Shared} : Right(r, root, q.history)
    BY <2>2, <2>3, <2>4, Zenon
  <2>6. PICK p \in Below(root, DOMAIN files) :
          /\ r.path = p /\ r.line \in DOMAIN files[p]
          /\ r.context \/ r.line \in Hits(p)
          /\ InReserved(p) => q.history
    BY <2>5, Zenon DEF Right
  <2>7. p \in Mine(h)
    BY <1>2, <2>6, Zenon
  <2>. QED  BY <2>6, <2>7, Zenon
<1>6. ASSUME c.left > 0, q.limit <= MaxRows, q.around = 0, q.history \/ InTheWay(h) = {},
             Mistaken(h) = {}, ~IsFile(h), ~IsFile(Shared), NEW p \in Mine(h)
      PROVE  /\ NameMatches(p) => p \in Range(c.names)
             /\ \A i \in Hits(p) : \E r \in Range(c.rows) : r.path = p /\ r.line = i
  <2>1. Scoped(h) /\ Scoped(Shared) /\ (q.history \/ Clear(h)) /\ (q.history \/ Clear(Shared))
    BY <1>6, ScopesAre, Zenon
  <2>2. b.left > 0 /\ a.left <= MaxRows /\ b.left <= MaxRows
    <3>1. MaxRows \in Nat /\ c.left <= b.left /\ b.left <= a.left
      BY <1>1, SearchConstants DEF Adds
    <3>. QED  BY <1>1, <1>3, <1>6, <3>1
  <2>3. AllNames(c.names, h) /\ AllHits(c.rows, h)
    BY <1>1, <1>6, <2>1, <2>2, Zenon DEF Adds
  <2>4. AllNames(b.names, Shared) /\ AllHits(b.rows, Shared)
    BY <1>1, <1>6, <2>1, <2>2, Zenon DEF Adds
  <2>5. Range(b.names) \subseteq Range(c.names) /\ Range(b.rows) \subseteq Range(c.rows)
    BY <1>1, Zenon DEF Adds
  <2>6. CASE p \in Below(h, DOMAIN files)
    BY <2>3, <2>6, Zenon DEF AllNames, AllHits
  <2>7. CASE p \in Below(Shared, DOMAIN files)
    <3>1. NameMatches(p) => p \in Range(c.names)
      BY <2>4, <2>5, <2>7, Zenon DEF AllNames
    <3>2. ASSUME NEW i \in Hits(p) PROVE \E r \in Range(c.rows) : r.path = p /\ r.line = i
      <4>1. PICK r \in Range(b.rows) : r.path = p /\ r.line = i
        BY <2>4, <2>7, Zenon DEF AllHits
      <4>2. r \in Range(c.rows)
        BY <2>5, <4>1, Zenon
      <4>. QED  BY <4>1, <4>2, Zenon
    <3>. QED  BY <3>1, <3>2, Zenon
  <2>. QED  BY <1>2, <2>6, <2>7, Zenon
<1>7. c.left >= 0
  BY <1>3
<1>8. Answered(h, q, c)
  BY <1>4, <1>5, <1>6, <1>7, Zenon DEF Answered
<1>. QED  BY <1>1, <1>8, Zenon

\* A search shows what it should, no more than was asked for, and misses nothing
\* that it has room for, in whatever order the directories list their files.
THEOREM SearchIsComplete == Spec /\ []OwnPlaces => []SearchAnswers
<1>1. ASSUME Inv, OwnPlaces PROVE SearchAnswers
  <2>. SUFFICES ASSUME NEW s \in Searches PROVE Answered(s[1], s[2], Answer(s[1], s[2]))
    BY Zenon DEF SearchAnswers, Answered
  <2>1. Tree
    BY <1>1, TypedTree, Zenon DEF Inv
  <2>2. s \in Homes \X Query /\ s[2].dir = <<>>
    BY Zenon DEF Searches
  <2>3. s[1] \in Homes /\ s[2] \in Query
    BY <2>2
  <2>4. s[1] \in Home
    BY <2>3, Zenon DEF Homes, Home
  <2>. QED  BY <1>1, <2>1, <2>2, <2>3, <2>4, SearchAnswered
<1>2. Inv /\ OwnPlaces => SearchAnswers
  BY <1>1
<1>3. Spec => []Inv
  BY InitInv, InvStep, PTL DEF Spec
<1>. QED  BY <1>2, <1>3, PTL
===============================================================================
