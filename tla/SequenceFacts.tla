---------------------------- MODULE SequenceFacts ----------------------------
(***************************************************************************)
(* Facts that the proofs about several components share: induction over an *)
(* initial segment of the naturals, sequences built step by step, prefixes *)
(* and FlattenSeq.  None of them is about this program.                    *)
(***************************************************************************)
EXTENDS Integers, SequencesExt, SequenceTheorems, WellFoundedInduction, TLAPS

\* Every non-empty set of natural numbers has a least element.
LEMMA LeastNatural ==
  ASSUME NEW S \in SUBSET Nat, S # {}
  PROVE  \E x \in S : \A y \in S : x <= y
<1> DEFINE R == OpToRel(<, Nat)
<1>1. IsWellFoundedOn(R, Nat)
  BY NatLessThanWellFounded, Zenon
<1>2. \A x, y \in Nat : x < y => <<x, y>> \in R
  BY DEF OpToRel
<1> HIDE DEF R
<1>3. PICK x \in S : \A y \in S : <<y, x>> \notin R
  BY <1>1, WFMin, Zenon
<1>4. \A y \in S : ~(y < x)
  BY <1>2, <1>3
<1> QED
  BY <1>4

\* Induction over an initial segment of the naturals, for a set of indices.
LEMMA UpTo ==
  ASSUME NEW N \in Nat, NEW S,
         0 \in S,
         \A n \in 0..N : n \in S /\ n < N => n + 1 \in S
  PROVE  \A n \in 0..N : n \in S
<1> DEFINE T == {n \in 0..N : n \notin S}
<1> SUFFICES ASSUME T # {} PROVE FALSE
  OBVIOUS
<1>1. T \in SUBSET Nat
  OBVIOUS
<1>2. PICK x \in T : \A y \in T : x <= y
  BY <1>1, LeastNatural, Zenon
<1>3. x \in 0..N /\ x \notin S /\ x # 0
  OBVIOUS
<1>4. x - 1 \in 0..N /\ x - 1 < N /\ (x - 1) + 1 = x /\ ~(x <= x - 1)
  BY <1>3
<1>5. x - 1 \in S
  BY <1>2, <1>4
<1> QED
  BY <1>3, <1>4, <1>5

\* The sequences that start at x and apply F[n] at index n.
Runs(D, F, x, N) ==
  {g \in [0..N -> D] : g[0] = x /\ \A n \in 1..N : g[n] = F[n][g[n - 1]]}

\* Recursion over an initial segment of the naturals is well defined.
LEMMA Recursion ==
  ASSUME NEW D, NEW N \in Nat, NEW F \in [1..N -> [D -> D]], NEW x \in D
  PROVE  Runs(D, F, x, N) # {}
<1> DEFINE Good(k, g) == g \in [0..k -> D] /\ g[0] = x /\ \A n \in 1..k : g[n] = F[n][g[n - 1]]
           S == {k \in 0..N : \E g : Good(k, g)}
<1>1. 0 \in S
  <2>1. Good(0, [n \in 0..0 |-> x])
    OBVIOUS
  <2> HIDE DEF Good
  <2> QED
    BY <2>1
<1>2. ASSUME NEW k \in 0..N, k \in S, k < N
      PROVE  k + 1 \in S
  <2>1. PICK g : Good(k, g)
    BY <1>2
  <2> DEFINE h == [n \in 0..(k + 1) |-> IF n = k + 1 THEN F[k + 1][g[k]] ELSE g[n]]
  <2>2. k + 1 \in 1..N /\ g[k] \in D /\ F[k + 1][g[k]] \in D
    BY <1>2, <2>1
  <2>3. h \in [0..(k + 1) -> D]
    BY <2>1, <2>2
  <2>4. h[0] = x
    BY <2>1
  <2>5. ASSUME NEW n \in 1..(k + 1) PROVE h[n] = F[n][h[n - 1]]
    BY <2>1
  <2>6. Good(k + 1, h)
    BY <2>3, <2>4, <2>5
  <2>7. k + 1 \in 0..N
    BY <1>2
  <2> HIDE DEF Good, h
  <2> QED
    BY <2>6, <2>7
<1>3. N \in S
  <2> HIDE DEF S
  <2>1. \A n \in 0..N : n \in S
    BY <1>1, <1>2, UpTo
  <2> QED
    BY <2>1
<1> QED
  BY <1>3 DEF Runs

\* The sequences that start at x and apply F at every further index.
Iterations(D, F, x, N) ==
  {g \in [0..N -> D] : g[0] = x /\ \A n \in 1..N : g[n] = F[g[n - 1]]}

\* Iterating one function is the special case in which every step is the same.
LEMMA Iteration ==
  ASSUME NEW D, NEW F \in [D -> D], NEW x \in D, NEW N \in Nat
  PROVE  Iterations(D, F, x, N) # {}
<1> DEFINE G == [n \in 1..N |-> F]
<1>1. G \in [1..N -> [D -> D]] /\ \A n \in 1..N : G[n] = F
  OBVIOUS
<1> HIDE DEF G
<1>2. Runs(D, G, x, N) # {}
  BY <1>1, Recursion
<1> QED
  BY <1>1, <1>2 DEF Runs, Iterations

-----------------------------------------------------------------------------
(* Least and greatest elements. *)

\* Min of a non-empty set of naturals is its least element.
LEMMA MinIsLeast ==
  ASSUME NEW S \in SUBSET Nat, S # {}
  PROVE  Min(S) \in S /\ \A y \in S : Min(S) <= y
BY LeastNatural DEF Min

\* Min of two naturals.
LEMMA MinOfTwo ==
  ASSUME NEW a \in Nat, NEW b \in Nat
  PROVE  Min({a, b}) = IF a <= b THEN a ELSE b
<1>1. {a, b} \in SUBSET Nat /\ {a, b} # {}
  OBVIOUS
<1>2. Min({a, b}) \in {a, b} /\ \A y \in {a, b} : Min({a, b}) <= y
  BY <1>1, MinIsLeast, Zenon
<1> QED
  BY <1>2

\* Max of a non-empty set of indices is its greatest element.
LEMMA MaxIsGreatest ==
  ASSUME NEW N \in Nat, NEW S \in SUBSET (1..N), S # {}
  PROVE  Max(S) \in S /\ \A y \in S : y <= Max(S)
<1> DEFINE T == {N - x : x \in S}
<1>1. T \in SUBSET Nat /\ T # {}
  <2>1. PICK z \in S : TRUE
    OBVIOUS
  <2>2. \A x \in S : N - x \in Nat
    OBVIOUS
  <2> QED
    BY <2>1, <2>2
<1>2. PICK t \in T : \A u \in T : t <= u
  BY <1>1, LeastNatural, Zenon
<1>3. PICK x \in S : t = N - x
  OBVIOUS
<1>4. \A y \in S : x >= y
  <2> TAKE y \in S
  <2>1. t <= N - y
    BY <1>2
  <2> QED
    BY <1>3, <2>1
<1>5. Max(S) \in S /\ \A y \in S : Max(S) >= y
  <2>1. \E z \in S : \A y \in S : z >= y
    BY <1>4
  <2> QED
    BY <2>1, Zenon DEF Max
<1> QED
  BY <1>5

-----------------------------------------------------------------------------
(* Concatenation and prefixes. *)

\* Two ways to cut the same sequence at the same place.
LEMMA ConcatCut ==
  ASSUME NEW S, NEW s \in Seq(S), NEW t \in Seq(S), NEW u \in Seq(S), NEW v \in Seq(S),
         s \o t = u \o v, Len(s) = Len(u)
  PROVE  s = u /\ t = v
<1>1. ASSUME NEW i \in 1..Len(s) PROVE s[i] = u[i]
  <2>1. i \in 1..(Len(s) + Len(t)) /\ i \in 1..(Len(u) + Len(v)) /\ i <= Len(s)
    BY LenProperties
  <2>2. (s \o t)[i] = s[i] /\ (u \o v)[i] = u[i]
    BY <2>1, ConcatProperties
  <2> QED
    BY <2>2
<1>2. s = u
  BY <1>1, SeqEqual
<1>3. t = v
  BY <1>2, ConcatSimplifications, Zenon
<1> QED
  BY <1>2, <1>3

\* A prefix is what something can be appended to.
LEMMA PrefixIsConcat ==
  ASSUME NEW S, NEW s \in Seq(S), NEW t \in Seq(S)
  PROVE  IsPrefix(s, t) <=> \E u \in Seq(S) : t = s \o u
<1>1. ASSUME IsPrefix(s, t) PROVE \E u \in Seq(S) : t = s \o u
  <2> DEFINE u == SubSeq(t, Len(s) + 1, Len(t))
  <2>1. Len(s) \in Nat /\ Len(t) \in Nat /\ Len(s) <= Len(t)
    BY <1>1, LenProperties DEF IsPrefix
  <2>2. s = SubSeq(t, 1, Len(s))
    BY <1>1, SubSeqFull DEF IsPrefix
  <2>3. 1 \in 1..(Len(t) + 1) /\ Len(s) \in (1 - 1)..Len(t) /\ Len(t) \in Len(s)..Len(t)
    BY <2>1
  <2>4. SubSeq(t, 1, Len(s)) \o u = SubSeq(t, 1, Len(t))
    BY <2>3, ConcatAdjacentSubSeq
  <2>5. t = s \o u
    BY <2>2, <2>4, SubSeqFull
  <2>6. u \in Seq(S)
    <3>1. \A i \in (Len(s) + 1)..Len(t) : t[i] \in S
      BY <2>1, ElementOfSeq
    <3> QED
      BY <2>1, <3>1, SubSeqProperties
  <2> QED
    BY <2>5, <2>6
<1>2. ASSUME NEW u \in Seq(S), t = s \o u PROVE IsPrefix(s, t)
  <2>1. Len(t) = Len(s) + Len(u) /\ Len(s) \in Nat /\ Len(u) \in Nat
    BY <1>2, ConcatProperties, LenProperties
  <2>2. CASE Len(s) = 0
    <3>1. SubSeq(s, 1, Len(s)) = <<>> /\ SubSeq(t, 1, Len(s)) = <<>>
      BY <2>2, SubSeqEmpty
    <3> QED
      BY <2>1, <3>1 DEF IsPrefix
  <2>3. CASE Len(s) # 0
    <3>1. 1 \in 1..Len(s) /\ Len(s) \in 1..Len(s)
      BY <2>1, <2>3
    <3>2. SubSeq(s \o u, 1, Len(s)) = SubSeq(s, 1, Len(s))
      BY <3>1, SubSeqOfConcat1
    <3> QED
      BY <1>2, <2>1, <3>2 DEF IsPrefix
  <2> QED
    BY <2>2, <2>3
<1> QED
  BY <1>1, <1>2

\* A sequence cut in two.
LEMMA CutInTwo ==
  ASSUME NEW S, NEW s \in Seq(S), NEW n \in 0..Len(s)
  PROVE  /\ SubSeq(s, 1, n) \in Seq(S) /\ SubSeq(s, n + 1, Len(s)) \in Seq(S)
         /\ Len(SubSeq(s, 1, n)) = n
         /\ Len(SubSeq(s, n + 1, Len(s))) = Len(s) - n
         /\ s = SubSeq(s, 1, n) \o SubSeq(s, n + 1, Len(s))
<1>1. Len(s) \in Nat /\ \A i \in 1..Len(s) : s[i] \in S
  BY LenProperties, ElementOfSeq
<1>2. SubSeq(s, 1, n) \in Seq(S) /\ Len(SubSeq(s, 1, n)) = n
  BY <1>1, SubSeqProperties
<1>3. SubSeq(s, n + 1, Len(s)) \in Seq(S) /\ Len(SubSeq(s, n + 1, Len(s))) = Len(s) - n
  <2>1. \A i \in (n + 1)..Len(s) : s[i] \in S
    BY <1>1
  <2> QED
    BY <1>1, <2>1, SubSeqProperties
<1>4. s = SubSeq(s, 1, n) \o SubSeq(s, n + 1, Len(s))
  <2>1. 1 \in 1..(Len(s) + 1) /\ n \in (1 - 1)..Len(s) /\ Len(s) \in n..Len(s)
    BY <1>1
  <2>2. SubSeq(s, 1, n) \o SubSeq(s, n + 1, Len(s)) = SubSeq(s, 1, Len(s))
    BY <2>1, ConcatAdjacentSubSeq
  <2> QED
    BY <2>2, SubSeqFull
<1> QED
  BY <1>2, <1>3, <1>4

-----------------------------------------------------------------------------
(* FlattenSeq. *)

\* The partial results of joining q piece by piece.
Joins(S, q) ==
  {f \in [1..Len(q) -> Seq(S)] : \A i \in 1..Len(q) : f[i] = IF i = 1 THEN q[i] ELSE f[i - 1] \o q[i]}

\* They exist ...
LEMMA JoinsExist ==
  ASSUME NEW S, NEW q \in Seq(Seq(S))
  PROVE  Joins(S, q) # {}
<1> DEFINE N == Len(q)
           Good(k, f) == f \in [1..k -> Seq(S)]
                         /\ \A i \in 1..k : f[i] = IF i = 1 THEN q[i] ELSE f[i - 1] \o q[i]
           I == {k \in 0..N : \E f : Good(k, f)}
<1>1. N \in Nat /\ \A i \in 1..N : q[i] \in Seq(S)
  BY LenProperties, ElementOfSeq
<1> HIDE DEF N
<1>2. 0 \in I
  <2>1. Good(0, [i \in 1..0 |-> <<>>])
    OBVIOUS
  <2> HIDE DEF Good
  <2> QED
    BY <1>1, <2>1
<1>3. ASSUME NEW k \in 0..N, k \in I, k < N
      PROVE  k + 1 \in I
  <2>1. PICK f : Good(k, f)
    BY <1>3
  <2> DEFINE next == IF k = 0 THEN q[1] ELSE f[k] \o q[k + 1]
             g == [i \in 1..(k + 1) |-> IF i = k + 1 THEN next ELSE f[i]]
  <2>2. next \in Seq(S)
    <3>1. CASE k = 0
      BY <1>1, <1>3, <3>1
    <3>2. CASE k # 0
      <4>1. f[k] \in Seq(S) /\ q[k + 1] \in Seq(S)
        BY <1>1, <1>3, <2>1, <3>2
      <4> QED
        BY <3>2, <4>1, ConcatProperties
    <3> QED
      BY <3>1, <3>2
  <2>3. g \in [1..(k + 1) -> Seq(S)]
    <3> HIDE DEF next
    <3> QED
      BY <2>1, <2>2
  <2>4. ASSUME NEW i \in 1..(k + 1)
        PROVE  g[i] = IF i = 1 THEN q[i] ELSE g[i - 1] \o q[i]
    <3>1. CASE i = k + 1
      <4>1. g[i] = next /\ (i = 1 <=> k = 0) /\ (k # 0 => g[i - 1] = f[k])
        BY <1>3, <3>1
      <4> QED
        BY <3>1, <4>1
    <3>2. CASE i # k + 1
      <4>1. i \in 1..k /\ g[i] = f[i] /\ (i # 1 => g[i - 1] = f[i - 1])
        BY <3>2
      <4> QED
        BY <2>1, <4>1
    <3> QED
      BY <3>1, <3>2
  <2>5. Good(k + 1, g)
    <3> HIDE DEF g
    <3> QED
      BY <2>3, <2>4
  <2>6. k + 1 \in 0..N
    BY <1>1, <1>3
  <2> HIDE DEF Good, g
  <2> QED
    BY <2>5, <2>6
<1>4. N \in I
  <2> HIDE DEF I
  <2>1. \A n \in 0..N : n \in I
    BY <1>1, <1>2, <1>3, UpTo
  <2> QED
    BY <1>1, <2>1
<1> QED
  BY <1>4 DEF Joins, N

\* ... and the last one is FlattenSeq, whichever way they were found.
LEMMA FlattenIsLastJoin ==
  ASSUME NEW S, NEW q \in Seq(Seq(S)), NEW f \in Joins(S, q), q # <<>>
  PROVE  FlattenSeq(q) = f[Len(q)]
<1> DEFINE N == Len(q)
           Rec(g) == g = [i \in 1..N |-> IF i = 1 THEN q[i] ELSE g[i - 1] \o q[i]]
           h == CHOOSE g : Rec(g)
<1>1. N \in Nat \ {0}
  BY EmptySeq
<1>2. FlattenSeq(q) = h[N]
  BY <1>1 DEF FlattenSeq
<1> HIDE DEF N
<1>3. Rec(f)
  BY DEF Joins, N
<1>4. Rec(h)
  <2> HIDE DEF Rec
  <2> QED
    BY <1>3
<1> HIDE DEF h
<1> DEFINE I == {n \in 0..N : n = 0 \/ h[n] = f[n]}
<1>5. 0 \in I
  BY <1>1
<1>6. ASSUME NEW n \in 0..N, n \in I, n < N
      PROVE  n + 1 \in I
  <2>1. n + 1 \in 1..N /\ n + 1 \in 0..N
    BY <1>1, <1>6
  <2>2. h[n + 1] = f[n + 1]
    <3>1. CASE n = 0
      BY <1>3, <1>4, <2>1, <3>1
    <3>2. CASE n # 0
      <4>1. n + 1 # 1 /\ (n + 1) - 1 = n /\ h[n] = f[n]
        BY <1>6, <3>2
      <4>2. h[n + 1] = h[n] \o q[n + 1] /\ f[n + 1] = f[n] \o q[n + 1]
        BY <1>3, <1>4, <2>1, <4>1
      <4> QED
        BY <4>1, <4>2
    <3> QED
      BY <3>1, <3>2
  <2> QED
    BY <2>1, <2>2
<1>7. N \in I
  <2> HIDE DEF I
  <2>1. \A n \in 0..N : n \in I
    BY <1>1, <1>5, <1>6, UpTo
  <2> QED
    BY <1>1, <2>1
<1> QED
  BY <1>1, <1>2, <1>7 DEF N

\* No pieces give no elements.
LEMMA FlattenEmpty == FlattenSeq(<<>>) = <<>>
BY DEF FlattenSeq

\* Joining sequences gives a sequence.
LEMMA FlattenType ==
  ASSUME NEW S, NEW q \in Seq(Seq(S))
  PROVE  FlattenSeq(q) \in Seq(S)
<1>1. CASE q = <<>>
  BY <1>1, FlattenEmpty, EmptySeq
<1>2. CASE q # <<>>
  <2>1. PICK f \in Joins(S, q) : TRUE
    BY JoinsExist
  <2>2. Len(q) \in 1..Len(q)
    BY <1>2, EmptySeq
  <2>3. f[Len(q)] \in Seq(S)
    BY <2>1, <2>2 DEF Joins
  <2> QED
    BY <1>2, <2>3, FlattenIsLastJoin
<1> QED
  BY <1>1, <1>2

\* A piece added at the end comes last.
LEMMA FlattenAppend ==
  ASSUME NEW S, NEW q \in Seq(Seq(S)), NEW piece \in Seq(S)
  PROVE  FlattenSeq(Append(q, piece)) = FlattenSeq(q) \o piece
<1> DEFINE r == Append(q, piece)
           N == Len(q)
<1>1. /\ r \in Seq(Seq(S)) /\ r # <<>> /\ Len(r) = N + 1 /\ N \in Nat
      /\ \A i \in 1..N : r[i] = q[i]
      /\ r[N + 1] = piece
  BY AppendProperties, LenProperties
<1> HIDE DEF r
<1>2. PICK f \in Joins(S, q) : TRUE
  BY JoinsExist
<1>3. f \in [1..N -> Seq(S)] /\ \A i \in 1..N : f[i] = IF i = 1 THEN q[i] ELSE f[i - 1] \o q[i]
  BY <1>2 DEF Joins
<1>4. FlattenSeq(q) \in Seq(S) /\ (q # <<>> => FlattenSeq(q) = f[N]) /\ (q = <<>> => N = 0)
  BY <1>2, FlattenType, FlattenIsLastJoin
<1>5. FlattenSeq(q) \o piece \in Seq(S)
  BY <1>4, ConcatProperties
<1> DEFINE g == [i \in 1..(N + 1) |-> IF i = N + 1 THEN FlattenSeq(q) \o piece ELSE f[i]]
<1> HIDE DEF N
<1>6. g \in [1..(N + 1) -> Seq(S)]
  BY <1>1, <1>3, <1>5
<1>7. ASSUME NEW i \in 1..(N + 1)
      PROVE  g[i] = IF i = 1 THEN r[i] ELSE g[i - 1] \o r[i]
  <2>1. CASE i # N + 1
    <3>1. i \in 1..N /\ (i # 1 => i - 1 \in 1..(N + 1) /\ i - 1 # N + 1)
      BY <1>1, <2>1
    <3>2. g[i] = f[i] /\ r[i] = q[i] /\ (i # 1 => g[i - 1] = f[i - 1])
      BY <1>1, <3>1
    <3> HIDE DEF g
    <3> QED
      BY <1>3, <3>1, <3>2
  <2>2. CASE i = N + 1 /\ i # 1
    <3>1. N \in 1..(N + 1) /\ N # N + 1 /\ i - 1 = N
      BY <1>1, <2>2
    <3>2. q # <<>>
      BY <1>1, <2>2 DEF N
    <3> QED
      BY <1>1, <1>4, <2>2, <3>1, <3>2
  <2>3. CASE i = N + 1 /\ i = 1
    <3>1. q = <<>>
      BY <1>1, <2>3, EmptySeq DEF N
    <3>2. FlattenSeq(q) \o piece = piece
      BY <3>1, FlattenEmpty, ConcatEmptySeq
    <3> QED
      BY <1>1, <2>3, <3>2
  <2> QED
    BY <2>1, <2>2, <2>3
<1>8. g \in Joins(S, r)
  <2> HIDE DEF g
  <2> QED
    BY <1>1, <1>6, <1>7 DEF Joins
<1>9. FlattenSeq(r) = g[N + 1]
  <2> HIDE DEF g
  <2> QED
    BY <1>1, <1>8, FlattenIsLastJoin
<1> QED
  BY <1>1, <1>9 DEF r

\* The first piece comes first.
LEMMA FlattenHead ==
  ASSUME NEW S, NEW q \in Seq(Seq(S)), q # <<>>
  PROVE  FlattenSeq(q) = Head(q) \o FlattenSeq(Tail(q))
<1> DEFINE h == Head(q)
           t == Tail(q)
           N == Len(q)
<1>1. /\ t \in Seq(Seq(S)) /\ h \in Seq(S) /\ h = q[1]
      /\ N \in Nat \ {0} /\ Len(t) = N - 1
      /\ \A i \in 1..(N - 1) : t[i] = q[i + 1]
  BY HeadTailProperties, LenProperties, EmptySeq
<1> HIDE DEF h, t, N
<1>2. PICK f \in Joins(S, t) : TRUE
  BY <1>1, JoinsExist
<1>3. /\ f \in [1..(N - 1) -> Seq(S)]
      /\ \A i \in 1..(N - 1) : f[i] = IF i = 1 THEN t[i] ELSE f[i - 1] \o t[i]
  BY <1>1, <1>2 DEF Joins
<1> DEFINE g == [i \in 1..N |-> IF i = 1 THEN h ELSE h \o f[i - 1]]
<1>4. g \in [1..N -> Seq(S)]
  <2>1. \A i \in 1..N : i # 1 => h \o f[i - 1] \in Seq(S)
    BY <1>1, <1>3, ConcatProperties
  <2> QED
    BY <1>1, <2>1
<1>5. ASSUME NEW i \in 1..N
      PROVE  g[i] = IF i = 1 THEN q[i] ELSE g[i - 1] \o q[i]
  <2>1. CASE i = 1
    BY <1>1, <2>1
  <2>2. CASE i = 2
    <3>1. 1 \in 1..(N - 1) /\ 1 \in 1..N /\ i - 1 = 1
      BY <1>1, <2>2
    <3>2. f[1] = t[1]
      BY <1>3, <3>1
    <3>3. t[1] = q[2]
      BY <1>1, <3>1
    <3>4. g[i] = h \o f[1] /\ g[1] = h
      BY <2>2, <3>1
    <3> HIDE DEF g
    <3>5. g[i] = g[i - 1] \o q[i]
      BY <2>2, <3>1, <3>2, <3>3, <3>4
    <3> QED
      BY <2>2, <3>5
  <2>3. CASE i # 1 /\ i # 2
    <3>1. /\ i - 1 \in 1..(N - 1) /\ i - 1 # 1 /\ (i - 1) - 1 \in 1..(N - 1)
          /\ (i - 1) + 1 = i /\ i - 1 \in 1..N
      BY <1>1, <2>3
    <3>2. f[i - 1] = f[(i - 1) - 1] \o q[i]
      <4>1. t[i - 1] = q[(i - 1) + 1]
        BY <1>1, <3>1, Zenon
      <4>2. f[i - 1] = f[(i - 1) - 1] \o t[i - 1]
        BY <1>3, <3>1, Zenon
      <4> QED
        BY <3>1, <4>1, <4>2, Zenon
    <3>3. f[(i - 1) - 1] \in Seq(S) /\ q[i] \in Seq(S)
      BY <1>3, <3>1, ElementOfSeq DEF N
    <3>4. h \o (f[(i - 1) - 1] \o q[i]) = (h \o f[(i - 1) - 1]) \o q[i]
      <4> DEFINE x == f[(i - 1) - 1]
                 y == q[i]
      <4>1. h \in Seq(S) /\ x \in Seq(S) /\ y \in Seq(S)
        BY <1>1, <3>3
      <4> HIDE DEF x, y
      <4>2. (h \o x) \o y = h \o (x \o y)
        BY <4>1, SMTT(30)
      <4> QED
        BY <4>2 DEF x, y
    <3>5. g[i] = h \o f[i - 1] /\ g[i - 1] = h \o f[(i - 1) - 1]
      BY <2>3, <3>1
    <3> QED
      BY <2>3, <3>2, <3>4, <3>5
  <2> QED
    BY <2>1, <2>2, <2>3
<1>6. g \in Joins(S, q)
  <2> HIDE DEF g
  <2> QED
    BY <1>4, <1>5 DEF Joins, N
<1>7. FlattenSeq(q) = g[N]
  <2> HIDE DEF g
  <2> QED
    BY <1>6, FlattenIsLastJoin DEF N
<1>8. CASE N = 1
  <2>1. t = <<>>
    BY <1>1, <1>8, EmptySeq
  <2>2. h \o FlattenSeq(t) = h
    BY <1>1, <2>1, FlattenEmpty, ConcatEmptySeq
  <2> QED
    BY <1>7, <1>8, <2>2 DEF h, t
<1>9. CASE N # 1
  <2>1. t # <<>> /\ N \in 1..N
    BY <1>1, <1>9
  <2>2. FlattenSeq(t) = f[N - 1]
    BY <1>1, <1>2, <2>1, FlattenIsLastJoin
  <2> QED
    BY <1>7, <1>9, <2>1, <2>2 DEF h, t
<1> QED
  BY <1>8, <1>9
\* The prefixes of a sequence grow by one element at a time.
LEMMA PrefixGrows ==
  ASSUME NEW S, NEW q \in Seq(S), NEW n \in 0..Len(q), n < Len(q)
  PROVE  /\ SubSeq(q, 1, n) \in Seq(S) /\ Len(SubSeq(q, 1, n)) = n
         /\ q[n + 1] \in S
         /\ SubSeq(q, 1, n + 1) = Append(SubSeq(q, 1, n), q[n + 1])
<1>1. Len(q) \in Nat /\ n + 1 \in 1..Len(q) /\ \A i \in 1..Len(q) : q[i] \in S
  BY LenProperties, ElementOfSeq
<1> DEFINE p == SubSeq(q, 1, n)
           r == SubSeq(q, 1, n + 1)
<1>2. /\ p \in Seq(S) /\ Len(p) = n /\ \A i \in 1..n : p[i] = q[i]
      /\ r \in Seq(S) /\ Len(r) = n + 1 /\ \A i \in 1..(n + 1) : r[i] = q[i]
  BY <1>1, SubSeqProperties
<1> HIDE DEF p, r
<1>3. /\ Append(p, q[n + 1]) \in Seq(S) /\ Len(Append(p, q[n + 1])) = n + 1
      /\ \A i \in 1..(n + 1) : Append(p, q[n + 1])[i] = q[i]
  BY <1>1, <1>2, AppendProperties
<1>4. r = Append(p, q[n + 1])
  <2> DEFINE s == Append(p, q[n + 1])
  <2> HIDE DEF s
  <2>1. s \in Seq(S) /\ Len(s) = Len(r) /\ \A i \in 1..Len(r) : r[i] = s[i]
    BY <1>2, <1>3 DEF s
  <2>2. r = s
    BY <1>2, <2>1, SeqEqual
  <2> QED
    BY <2>2 DEF s
<1> QED
  BY <1>1, <1>2, <1>4 DEF p, r

\* Every element of every piece is in the joined sequence.
LEMMA FlattenHasAll ==
  ASSUME NEW S, NEW q \in Seq(Seq(S)), NEW i \in 1..Len(q), NEW j \in 1..Len(q[i])
  PROVE  \E k \in 1..Len(FlattenSeq(q)) : FlattenSeq(q)[k] = q[i][j]
<1> DEFINE N == Len(q)
           F(n) == FlattenSeq(SubSeq(q, 1, n))
           I == {n \in 0..N : n < i \/ \E k \in 1..Len(F(n)) : F(n)[k] = q[i][j]}
<1>1. N \in Nat /\ i \in 1..N /\ q[i] \in Seq(S)
  BY LenProperties, ElementOfSeq
<1>2. 0 \in I
  BY <1>1
<1>3. ASSUME NEW n \in 0..N, n \in I, n < N
      PROVE  n + 1 \in I
  <2> DEFINE f == F(n)
             piece == q[n + 1]
  <2>1. /\ SubSeq(q, 1, n) \in Seq(Seq(S)) /\ piece \in Seq(S)
        /\ SubSeq(q, 1, n + 1) = Append(SubSeq(q, 1, n), piece)
    BY <1>3, PrefixGrows
  <2>2. f \in Seq(S)
    BY <2>1, FlattenType
  <2>3. F(n + 1) = f \o piece
    BY <2>1, FlattenAppend
  <2>4. n < i \/ \E k \in 1..Len(f) : f[k] = q[i][j]
    BY <1>3
  <2>5. n + 1 < i \/ n + 1 = i \/ \E k \in 1..Len(f) : f[k] = q[i][j]
    BY <1>1, <1>3, <2>4
  <2> HIDE DEF F
  <2>6. ASSUME n + 1 = i PROVE \E k \in 1..Len(f \o piece) : (f \o piece)[k] = q[i][j]
    <3>1. j \in 1..Len(piece) /\ piece[j] = q[i][j]
      BY <2>6
    <3> HIDE DEF piece, f
    <3>2. Len(f) + j \in 1..Len(f \o piece) /\ (f \o piece)[Len(f) + j] = piece[j]
      BY <2>1, <2>2, <3>1
    <3> QED
      BY <3>1, <3>2
  <2>7. ASSUME NEW k \in 1..Len(f), f[k] = q[i][j]
        PROVE  k \in 1..Len(f \o piece) /\ (f \o piece)[k] = q[i][j]
    <3> HIDE DEF piece, f
    <3> QED
      BY <2>1, <2>2, <2>7
  <2>8. n + 1 < i \/ \E k \in 1..Len(f \o piece) : (f \o piece)[k] = q[i][j]
    BY <2>5, <2>6, <2>7, Zenon
  <2>9. n + 1 \in 0..N
    BY <1>1, <1>3
  <2> QED
    BY <2>3, <2>8, <2>9
<1>4. N \in I
  <2> HIDE DEF I, N
  <2>1. \A n \in 0..N : n \in I
    BY <1>1, <1>2, <1>3, UpTo
  <2> QED
    BY <1>1, <2>1
<1>5. SubSeq(q, 1, N) = q
  BY SubSeqFull
<1>6. N < i \/ \E k \in 1..Len(F(N)) : F(N)[k] = q[i][j]
  <2> HIDE DEF F, N
  <2> QED
    BY <1>4
<1>7. ~(N < i)
  BY <1>1
<1> QED
  BY <1>5, <1>6, <1>7

\* The pieces of q, of length K each, follow each other in f.
LaidOut(q, K, f) ==
  /\ Len(f) = Len(q) * K
  /\ \A i \in 1..Len(q) : \A j \in 1..K : f[(i - 1) * K + j] = q[i][j]

\* Where the elements of pieces of one length end up.
LEMMA FlattenFixed ==
  ASSUME NEW S, NEW K \in Nat, NEW q \in Seq(Seq(S)), \A i \in 1..Len(q) : Len(q[i]) = K
  PROVE  LaidOut(q, K, FlattenSeq(q))
<1> DEFINE N == Len(q)
           F(n) == FlattenSeq(SubSeq(q, 1, n))
           I == {n \in 0..N : /\ Len(F(n)) = n * K
                              /\ \A i \in 1..n : \A j \in 1..K : F(n)[(i - 1) * K + j] = q[i][j]}
<1>1. N \in Nat /\ \A i \in 1..N : q[i] \in Seq(S) /\ Len(q[i]) = K
  BY LenProperties, ElementOfSeq
<1>2. 0 \in I
  <2>1. SubSeq(q, 1, 0) = <<>>
    BY SubSeqEmpty
  <2>2. F(0) = <<>>
    BY <2>1, FlattenEmpty
  <2>3. Len(F(0)) = 0 * K
    BY <2>2
  <2> HIDE DEF F
  <2> QED
    BY <1>1, <2>3
<1>3. ASSUME NEW n \in 0..N, n \in I, n < N
      PROVE  n + 1 \in I
  <2> DEFINE f == F(n)
             piece == q[n + 1]
  <2>1. /\ SubSeq(q, 1, n) \in Seq(Seq(S)) /\ piece \in Seq(S)
        /\ SubSeq(q, 1, n + 1) = Append(SubSeq(q, 1, n), piece)
    BY <1>3, PrefixGrows
  <2>2. f \in Seq(S)
    BY <2>1, FlattenType
  <2>3. F(n + 1) = f \o piece
    BY <2>1, FlattenAppend
  <2>4. /\ Len(f) = n * K /\ Len(piece) = K /\ n + 1 \in 0..N
        /\ \A i \in 1..n : \A j \in 1..K : f[(i - 1) * K + j] = q[i][j]
    BY <1>1, <1>3
  <2> HIDE DEF F, f
  <2>5. Len(f \o piece) = (n + 1) * K
    <3>1. Len(f \o piece) = Len(f) + Len(piece)
      BY <2>1, <2>2, ConcatProperties
    <3>2. n * K + K = (n + 1) * K
      BY <1>1
    <3> QED
      BY <2>4, <3>1, <3>2
  <2>6. ASSUME NEW i \in 1..(n + 1), NEW j \in 1..K
        PROVE  (f \o piece)[(i - 1) * K + j] = q[i][j]
    <3>1. CASE i = n + 1
      <4>1. (i - 1) * K + j = Len(f) + j
        BY <2>4, <3>1
      <4>2. (f \o piece)[Len(f) + j] = piece[j]
        <5>1. j \in 1..Len(piece)
          BY <2>4
        <5> HIDE DEF piece
        <5> QED
          BY <2>1, <2>2, <5>1
      <4> QED
        BY <3>1, <4>1, <4>2
    <3>2. CASE i # n + 1
      <4>1. i \in 1..n /\ (i - 1) * K \in Nat /\ (i - 1) * K + K <= n * K
        <5>1. i \in 1..n
          BY <3>2
        <5>2. PICK d \in Nat : n = i + d
          <6>1. n - i \in Nat /\ n = i + (n - i)
            BY <5>1
          <6> QED
            BY <6>1
        <5>3. n * K = (i - 1) * K + K + d * K
          BY <5>1, <5>2
        <5>4. i - 1 \in Nat
          BY <5>1
        <5>5. (i - 1) * K \in Nat /\ d * K \in Nat
          BY <5>4
        <5> QED
          BY <5>1, <5>3, <5>5
      <4> DEFINE k == (i - 1) * K + j
      <4>2. k \in 1..Len(f) /\ f[k] = q[i][j]
        <5>1. f[k] = q[i][j]
          BY <2>4, <4>1
        <5>2. ASSUME NEW m \in Nat, NEW l \in Nat, m + K <= l PROVE m + j \in 1..l
          BY <5>2
        <5>3. n * K \in Nat
          OBVIOUS
        <5> QED
          BY <2>4, <4>1, <5>1, <5>2, <5>3
      <4> HIDE DEF k, piece
      <4>3. (f \o piece)[k] = f[k]
        BY <2>1, <2>2, <4>2
      <4> QED
        BY <4>2, <4>3 DEF k
    <3> QED
      BY <3>1, <3>2
  <2>7. /\ Len(F(n + 1)) = (n + 1) * K
        /\ \A i \in 1..(n + 1) : \A j \in 1..K : F(n + 1)[(i - 1) * K + j] = q[i][j]
    BY <2>3, <2>5, <2>6, Zenon
  <2> QED
    BY <2>4, <2>7
<1>4. N \in I
  <2> HIDE DEF I, N
  <2>1. \A n \in 0..N : n \in I
    BY <1>1, <1>2, <1>3, UpTo
  <2> QED
    BY <1>1, <2>1
<1>5. SubSeq(q, 1, N) = q
  BY SubSeqFull
<1>6. /\ Len(F(N)) = N * K
      /\ \A i \in 1..N : \A j \in 1..K : F(N)[(i - 1) * K + j] = q[i][j]
  <2> HIDE DEF F, N
  <2> QED
    BY <1>4
<1> QED
  BY <1>5, <1>6 DEF LaidOut
=============================================================================
