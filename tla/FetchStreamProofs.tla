-------------------------- MODULE FetchStreamProofs --------------------------
(***************************************************************************)
(* One chunk request, for every length of the blob, every size of messages *)
(* and every way the stream cuts, delays or breaks: what getChunk settles  *)
(* with is true, no byte is lost on a stream that was not reset, and a     *)
(* request that can be served is served while the connection is up.        *)
(***************************************************************************)
EXTENDS FetchStream, SequenceFacts

-----------------------------------------------------------------------------
(* The length field: getUint32 undoes to_be_bytes. *)

\* The quotient is the one number that leaves a remainder below the divisor.
LEMMA Division ==
  ASSUME NEW n \in Nat, NEW d \in Nat \ {0}
  PROVE  /\ n \div d \in Nat /\ n % d \in 0..(d - 1)
         /\ n = d * (n \div d) + (n % d)
OBVIOUS

\* A number has one quotient by d.
LEMMA QuotientIsUnique ==
  ASSUME NEW n \in Nat, NEW d \in Nat \ {0}, NEW q \in Nat, NEW r \in 0..(d - 1),
         n = d * q + r
  PROVE  n \div d = q
<1> DEFINE p == n \div d
           s == n % d
<1>1. p \in Nat /\ s \in 0..(d - 1) /\ n = d * p + s
  BY Division
<1> HIDE DEF p, s
<1>2. ASSUME NEW x \in Nat, NEW y \in Nat, x < y PROVE d * x + d <= d * y
  <2>1. PICK k \in Nat : y = x + 1 + k
    <3>1. y - x - 1 \in Nat /\ y = x + 1 + (y - x - 1)
      BY <1>2
    <3> QED
      BY <3>1
  <2>2. d * y = d * x + d + d * k /\ d * k \in Nat
    BY <2>1
  <2> QED
    BY <2>2
<1>3. ~(p < q)
  <2> SUFFICES ASSUME p < q PROVE FALSE
    OBVIOUS
  <2>1. d * p + d <= d * q
    BY <1>1, <1>2
  <2>2. d * p \in Nat /\ d * q \in Nat
    BY <1>1
  <2> QED
    BY <1>1, <2>1, <2>2
<1>4. ~(q < p)
  <2> SUFFICES ASSUME q < p PROVE FALSE
    OBVIOUS
  <2>1. d * q + d <= d * p
    BY <1>1, <1>2
  <2>2. d * p \in Nat /\ d * q \in Nat
    BY <1>1
  <2> QED
    BY <1>1, <2>1, <2>2
<1>5. p = q
  BY <1>1, <1>3, <1>4
<1> QED
  BY <1>5 DEF p

\* Dividing twice is dividing by the product.
LEMMA DivideTwice ==
  ASSUME NEW n \in Nat, NEW d \in Nat \ {0}, NEW e \in Nat \ {0}
  PROVE  n \div (e * d) = (n \div d) \div e
<1> DEFINE q == n \div d
           r == n % d
           p == q \div e
           s == q % e
<1>1. q \in Nat /\ r \in 0..(d - 1) /\ n = d * q + r
  BY Division
<1>2. p \in Nat /\ s \in 0..(e - 1) /\ q = e * p + s
  BY <1>1, Division
<1> HIDE DEF q, r, p, s
<1>3. d * q = (e * d) * p + d * s /\ d * s \in Nat /\ e * d \in Nat \ {0}
  <2>1. d * (e * p + s) = (e * d) * p + d * s
    BY <1>2
  <2>2. d * s \in Nat /\ e * d \in Nat
    BY <1>2
  <2>3. e * d # 0
    OBVIOUS
  <2> QED
    BY <1>2, <2>1, <2>2, <2>3
<1>4. d * s + d <= e * d
  <2>1. PICK k \in Nat : e = s + 1 + k
    <3>1. e - s - 1 \in Nat /\ e = s + 1 + (e - s - 1)
      BY <1>2
    <3> QED
      BY <3>1
  <2>2. e * d = d * s + d + k * d /\ k * d \in Nat
    BY <1>2, <2>1
  <2> QED
    BY <1>3, <2>2
<1>5. d * s + r \in 0..((e * d) - 1) /\ n = (e * d) * p + (d * s + r)
  BY <1>1, <1>2, <1>3, <1>4
<1> DEFINE m == e * d
           z == d * s + r
<1>6. m \in Nat \ {0} /\ z \in 0..(m - 1) /\ n = m * p + z
  BY <1>3, <1>5
<1> HIDE DEF m, z
<1>7. n \div m = p
  BY <1>2, <1>6, QuotientIsUnique
<1> QED
  BY <1>7 DEF m, p, q

\* The places of the length field are the powers of the radix.
LEMMA PlaceFacts ==
  /\ Place \in [0..LenBytes -> Nat \ {0}]
  /\ Place[0] = 1
  /\ \A i \in 1..LenBytes : Place[i] = Radix * Place[i - 1]
<1> DEFINE Rec(g) == g = [i \in 0..LenBytes |-> IF i = 0 THEN 1 ELSE Radix * g[i - 1]]
           D == Nat \ {0}
           F == [x \in D |-> Radix * x]
<1>1. LenBytes \in Nat /\ Radix \in Nat \ {0}
  BY FetchAssumption
<1>2. F \in [D -> D] /\ 1 \in D
  BY <1>1
<1>3. PICK g \in [0..LenBytes -> D] :
        g[0] = 1 /\ \A n \in 1..LenBytes : g[n] = F[g[n - 1]]
  <2> HIDE DEF F, D
  <2>1. Iterations(D, F, 1, LenBytes) # {}
    BY <1>1, <1>2, Iteration, Zenon
  <2> QED
    BY <2>1 DEF Iterations
<1>4. Rec(g)
  <2>1. ASSUME NEW i \in 0..LenBytes PROVE g[i] = IF i = 0 THEN 1 ELSE Radix * g[i - 1]
    <3>1. CASE i = 0
      BY <1>3, <3>1
    <3>2. CASE i # 0
      <4>1. i \in 1..LenBytes /\ i - 1 \in 0..LenBytes
        BY <1>1, <3>2
      <4>2. g[i - 1] \in D /\ g[i] = F[g[i - 1]]
        BY <1>3, <4>1
      <4> QED
        BY <3>2, <4>2
    <3> QED
      BY <3>1, <3>2
  <2> QED
    BY <1>3, <2>1
<1>5. Place = CHOOSE h : Rec(h)
  BY DEF Place
<1>6. Rec(Place)
  <2> HIDE DEF Rec
  <2> QED
    BY <1>4, <1>5
<1>7. Place[0] = 1 /\ \A i \in 1..LenBytes : Place[i] = Radix * Place[i - 1]
  BY <1>1, <1>6
<1> DEFINE I == {n \in 0..LenBytes : Place[n] \in D}
<1>8. \A n \in 0..LenBytes : n \in I
  <2>1. 0 \in I
    BY <1>1, <1>7
  <2>2. ASSUME NEW n \in 0..LenBytes, n \in I, n < LenBytes PROVE n + 1 \in I
    <3>1. n + 1 \in 1..LenBytes /\ n + 1 \in 0..LenBytes /\ (n + 1) - 1 = n
      BY <1>1, <2>2
    <3>2. Place[n + 1] = Radix * Place[n] /\ Place[n] \in Nat \ {0}
      BY <1>7, <2>2, <3>1
    <3>3. Radix * Place[n] \in Nat \ {0}
      BY <1>1, <3>2
    <3> QED
      BY <3>1, <3>2, <3>3
  <2> HIDE DEF I
  <2> QED
    BY <1>1, <2>1, <2>2, UpTo
<1> QED
  BY <1>6, <1>7, <1>8

\* The bytes of a length.
LEMMA ToBytesType ==
  ASSUME NEW n \in Nat
  PROVE  to_be_bytes(n) \in Seq(Nat) /\ Len(to_be_bytes(n)) = LenBytes
<1>1. ASSUME NEW i \in 1..LenBytes PROVE (n \div Place[LenBytes - i]) % Radix \in Nat
  <2>1. LenBytes - i \in 0..LenBytes
    BY FetchAssumption
  <2>2. Place[LenBytes - i] \in Nat \ {0}
    BY <2>1, PlaceFacts
  <2>3. n \div Place[LenBytes - i] \in Nat
    BY <2>2, Division
  <2> QED
    BY <2>3, Division, FetchAssumption
<1>2. to_be_bytes(n) \in [1..LenBytes -> Nat] /\ LenBytes \in Nat
  BY <1>1, FetchAssumption DEF to_be_bytes
<1> QED
  BY <1>2

\* The browser reads the length that the proxy wrote.
LEMMA LengthIsRead ==
  ASSUME NEW n \in Nat, n < Place[LenBytes]
  PROVE  getUint32(to_be_bytes(n)) = n
<1> DEFINE s == to_be_bytes(n)
           Rec(v) == v = [i \in 0..LenBytes |-> IF i = 0 THEN 0 ELSE v[i - 1] * Radix + s[i]]
           g == [i \in 0..LenBytes |-> n \div Place[LenBytes - i]]
<1>1. LenBytes \in Nat \ {0} /\ Radix \in Nat \ {0}
  BY FetchAssumption
<1>2. g[0] = 0 /\ g[LenBytes] = n
  <2>1. LenBytes - 0 = LenBytes /\ LenBytes - LenBytes = 0 /\ 0 \in 0..LenBytes /\ LenBytes \in 0..LenBytes
    BY <1>1
  <2>2. Place[LenBytes] \in Nat \ {0} /\ Place[0] = 1
    BY <2>1, PlaceFacts
  <2>3. n \div Place[LenBytes] = 0
    <3>1. n = Place[LenBytes] * 0 + n /\ n \in 0..(Place[LenBytes] - 1)
      BY <2>2
    <3> QED
      BY <2>2, <3>1, QuotientIsUnique
  <2>4. n \div 1 = n
    OBVIOUS
  <2> QED
    BY <2>1, <2>2, <2>3, <2>4
<1>3. ASSUME NEW i \in 1..LenBytes PROVE g[i] = g[i - 1] * Radix + s[i]
  <2> DEFINE k == LenBytes - i
             m == n \div Place[k]
  <2>1. /\ k \in 0..LenBytes /\ k + 1 \in 1..LenBytes /\ (k + 1) - 1 = k
        /\ LenBytes - (i - 1) = k + 1 /\ i - 1 \in 0..LenBytes /\ i \in 0..LenBytes
    BY <1>1
  <2>2. Place[k] \in Nat \ {0} /\ Place[k + 1] = Radix * Place[k]
    BY <2>1, PlaceFacts
  <2>3. g[i - 1] = n \div Place[k + 1] /\ g[i] = m /\ s[i] = m % Radix
    BY <2>1 DEF to_be_bytes
  <2>4. n \div Place[k + 1] = m \div Radix /\ m \in Nat
    <3> DEFINE p == Place[k]
    <3>1. p \in Nat \ {0} /\ Place[k + 1] = Radix * p
      BY <2>2
    <3> HIDE DEF p
    <3>2. n \div (Radix * p) = (n \div p) \div Radix /\ n \div p \in Nat
      BY <1>1, <3>1, DivideTwice, Division
    <3> QED
      BY <3>1, <3>2 DEF p
  <2> HIDE DEF m, g, s
  <2>5. m = Radix * (m \div Radix) + (m % Radix)
    BY <1>1, <2>4, Division
  <2>6. m \div Radix \in Nat
    BY <1>1, <2>4, Division
  <2>7. Radix * (m \div Radix) = (m \div Radix) * Radix
    BY <1>1, <2>6
  <2> QED
    BY <2>3, <2>4, <2>5, <2>7
<1>4. Rec(g)
  <2>1. ASSUME NEW i \in 0..LenBytes PROVE g[i] = IF i = 0 THEN 0 ELSE g[i - 1] * Radix + s[i]
    <3> HIDE DEF g, s
    <3>1. i # 0 => i \in 1..LenBytes
      BY <1>1
    <3> QED
      BY <1>2, <1>3, <3>1
  <2> HIDE DEF s
  <2> QED
    BY <2>1
<1> DEFINE h == CHOOSE v : Rec(v)
<1>5. getUint32(s) = h[LenBytes]
  BY DEF getUint32
<1>6. Rec(h)
  <2> HIDE DEF Rec
  <2> QED
    BY <1>4
<1> HIDE DEF g, s, h
<1> DEFINE I == {i \in 0..LenBytes : h[i] = g[i]}
<1>7. \A i \in 0..LenBytes : i \in I
  <2>1. 0 \in I
    BY <1>1, <1>2, <1>6
  <2>2. ASSUME NEW i \in 0..LenBytes, i \in I, i < LenBytes PROVE i + 1 \in I
    <3>1. i + 1 \in 1..LenBytes /\ i + 1 \in 0..LenBytes /\ (i + 1) - 1 = i /\ i + 1 # 0
      BY <1>1, <2>2
    <3>2. h[i + 1] = h[i] * Radix + s[i + 1]
      BY <1>6, <3>1
    <3>3. g[i + 1] = g[i] * Radix + s[i + 1]
      BY <1>3, <3>1
    <3> QED
      BY <2>2, <3>1, <3>2, <3>3
  <2> HIDE DEF I, Rec
  <2> QED
    BY <1>1, <2>1, <2>2, UpTo
<1>8. h[LenBytes] = n
  BY <1>1, <1>2, <1>7
<1> QED
  BY <1>5, <1>8 DEF s

-----------------------------------------------------------------------------
(* Strings of bytes. *)

Str == Seq(Nat)

\* The length of two byte strings put together, and the empty one.
LEMMA StrConcat ==
  ASSUME NEW s \in Str, NEW t \in Str
  PROVE  /\ s \o t \in Str /\ Len(s \o t) = Len(s) + Len(t)
         /\ Len(s) \in Nat /\ Len(t) \in Nat
         /\ s \o <<>> = s /\ <<>> \o s = s /\ <<>> \in Str /\ Len(<<>>) = 0
BY ConcatProperties, ConcatEmptySeq, EmptySeq, LenProperties DEF Str

\* Putting byte strings together is associative.
LEMMA StrAssoc ==
  ASSUME NEW s \in Str, NEW t \in Str, NEW u \in Str
  PROVE  (s \o t) \o u = s \o (t \o u)
BY ConcatAssociative, SMTT(30) DEF Str

\* Two equal strings cut at the same place have equal parts.
LEMMA StrCut ==
  ASSUME NEW s \in Str, NEW t \in Str, NEW u \in Str, NEW v \in Str,
         s \o t = u \o v, Len(s) = Len(u)
  PROVE  s = u /\ t = v
BY ConcatCut DEF Str

\* A string of no bytes is empty.
LEMMA StrEmpty ==
  ASSUME NEW s \in Str, Len(s) = 0
  PROVE  s = <<>>
BY EmptySeq DEF Str

\* s is a prefix of t.
Pre(s, t) == \E u \in Str : t = s \o u

\* The prefix relation of the model, by its witness.
LEMMA PreIsPrefix ==
  ASSUME NEW s \in Str, NEW t \in Str
  PROVE  IsPrefix(s, t) <=> Pre(s, t)
BY PrefixIsConcat DEF Pre, Str

\* The front of a prefix is a prefix.
LEMMA PreConcat ==
  ASSUME NEW s \in Str, NEW a \in Str, NEW t \in Str, Pre(s \o a, t)
  PROVE  Pre(s, t)
<1>1. PICK u \in Str : t = (s \o a) \o u
  BY DEF Pre
<1>2. a \o u \in Str
  BY StrConcat
<1>3. (s \o a) \o u = s \o (a \o u)
  BY StrAssoc
<1> QED
  BY <1>1, <1>2, <1>3 DEF Pre

\* A string is a prefix of itself.
LEMMA PreSelf ==
  ASSUME NEW s \in Str
  PROVE  Pre(s, s)
BY StrConcat DEF Pre

\* A prefix is no longer than the string.
LEMMA PreLen ==
  ASSUME NEW s \in Str, NEW t \in Str, Pre(s, t)
  PROVE  Len(s) <= Len(t)
BY StrConcat DEF Pre

-----------------------------------------------------------------------------
(* The reader.  Held is what the buffer of ByteBuffer holds; Received is *)
(* all that the stream has delivered.                                    *)

Held == Pending \o FlattenSeq(queue)
Received == returned \o Held

ReaderOK ==
  /\ queue \in Seq(Str) /\ out \in Str /\ returned \in Str /\ last \in Str
  /\ wanted \in Nat
  /\ rpc \in {"idle", "fill", "copy", "failed"}
  /\ rpc = "fill" => out = <<>>
  /\ queued = Len(Held)

\* The caller sees nothing of the step.
Quiet == Held' = Held /\ returned' = returned /\ last' = last

\* What the reader holds, in its partial answer and in its queue, are bytes.
LEMMA HeldType ==
  ASSUME ReaderOK
  PROVE  /\ FlattenSeq(queue) \in Str /\ Pending \in Str /\ Held \in Str /\ Received \in Str
         /\ Len(Held) = Len(Pending) + Len(FlattenSeq(queue))
<1>1. FlattenSeq(queue) \in Str
  BY FlattenType DEF ReaderOK, Str
<1>2. Pending \in Str
  BY StrConcat DEF ReaderOK, Pending
<1> QED
  BY <1>1, <1>2, StrConcat DEF ReaderOK, Held, Received

\* exactReader.read(n) is called: nothing held changes.
LEMMA CallStep ==
  ASSUME ReaderOK, NEW n \in Nat, Call(n)
  PROVE  ReaderOK' /\ Quiet
<1>1. Pending = <<>> /\ Pending' = <<>>
  BY DEF Call, Pending
<1>2. Held' = Held
  BY <1>1 DEF Call, Held
<1> QED
  BY <1>2, StrConcat DEF ReaderOK, Quiet, Call

\* A chunk the stream delivers is added at the end of what is held.
LEMMA DeliverStep ==
  ASSUME ReaderOK, NEW piece \in Str, Deliver(piece)
  PROVE  ReaderOK' /\ Held' = Held \o piece /\ returned' = returned /\ last' = last
<1>1. Pending' = Pending
  BY DEF Deliver, Pending
<1>2. FlattenSeq(queue') = FlattenSeq(queue) \o piece
  BY FlattenAppend DEF Deliver, ReaderOK, Str
<1>3. Held' = Held \o piece
  <2>1. Held' = Pending \o (FlattenSeq(queue) \o piece)
    BY <1>1, <1>2 DEF Held
  <2>2. (Pending \o FlattenSeq(queue)) \o piece = Pending \o (FlattenSeq(queue) \o piece)
    BY HeldType, StrAssoc, ZenonT(60)
  <2> QED
    BY <2>1, <2>2 DEF Held
<1>4. Len(Held') = Len(Held) + Len(piece)
  BY <1>3, HeldType, StrConcat
<1>5. queue' \in Seq(Str)
  BY AppendProperties DEF Deliver, ReaderOK
<1> QED
  BY <1>3, <1>4, <1>5 DEF ReaderOK, Deliver

\* The end of the stream changes no byte that is held.
LEMMA EndOfStreamStep ==
  ASSUME ReaderOK, EndOfStream
  PROVE  ReaderOK' /\ Quiet
<1>1. Pending' = Pending
  BY DEF EndOfStream, Pending
<1>2. Held' = Held
  BY <1>1 DEF EndOfStream, Held
<1> QED
  BY <1>2 DEF ReaderOK, Quiet, EndOfStream

\* The copy loop starts without touching what is held.
LEMMA StartCopyStep ==
  ASSUME ReaderOK, StartCopy
  PROVE  ReaderOK' /\ Quiet
<1>1. Pending' = Pending
  BY DEF StartCopy, Pending, ReaderOK
<1>2. Held' = Held
  BY <1>1 DEF StartCopy, Held
<1> QED
  BY <1>2 DEF ReaderOK, Quiet, StartCopy

\* One turn of the copying loop moves bytes from the queue to the result.
LEMMA CopyPieceStep ==
  ASSUME ReaderOK, CopyPiece
  PROVE  ReaderOK' /\ Quiet
<1> DEFINE piece == Head(queue)
           take  == Min({Len(piece), wanted - Len(out)})
           front == SubSeq(piece, 1, take)
           back  == SubSeq(piece, take + 1, Len(piece))
           rest  == FlattenSeq(Tail(queue))
<1>1. /\ queue \in Seq(Str) /\ queue # <<>> /\ out \in Str /\ wanted \in Nat /\ rpc = "copy"
      /\ out' = out \o front /\ queue' = Rest(piece, take) /\ Len(out) < wanted
      /\ UNCHANGED <<queued, rpc, wanted, returned, last>>
  BY DEF CopyPiece, ReaderOK
<1>2. piece \in Str /\ Tail(queue) \in Seq(Str) /\ Len(queue) \in Nat \ {0}
  BY <1>1, HeadTailProperties, EmptySeq
<1>3. take \in 0..Len(piece)
  <2> HIDE DEF piece
  <2>1. Len(piece) \in Nat /\ wanted - Len(out) \in Nat
    <3>1. Len(piece) \in Nat /\ Len(out) \in Nat
      BY <1>1, <1>2, StrConcat
    <3> QED
      BY <1>1, <3>1
  <2>2. take = IF Len(piece) <= wanted - Len(out) THEN Len(piece) ELSE wanted - Len(out)
    BY <2>1, MinOfTwo
  <2> HIDE DEF take
  <2> QED
    BY <2>1, <2>2
<1> HIDE DEF piece, take
<1>4. /\ front \in Str /\ back \in Str /\ piece = front \o back
      /\ Len(back) = Len(piece) - take
  BY <1>2, <1>3, CutInTwo, ZenonT(30) DEF Str
<1> HIDE DEF front, back
<1>5. FlattenSeq(queue) = piece \o rest /\ rest \in Str
  BY <1>1, <1>2, FlattenHead, FlattenType DEF Str, piece
<1> HIDE DEF rest
<1>6. queue' \in Seq(Str) /\ FlattenSeq(queue') = back \o rest
  <2>1. CASE take = Len(piece)
    <3>1. queue' = Tail(queue)
      BY <1>1, <2>1 DEF Rest
    <3>2. back = <<>>
      <4>1. Len(piece) \in Nat
        BY <1>2, StrConcat
      <4> QED
        BY <1>4, <2>1, <4>1, StrEmpty
    <3> QED
      BY <1>2, <1>5, <3>1, <3>2, StrConcat DEF rest
  <2>2. CASE take # Len(piece)
    <3>1. queue' = [queue EXCEPT ![1] = back]
      BY <1>1, <2>2 DEF Rest, back
    <3>2. 1 \in 1..Len(queue)
      BY <1>2
    <3>3. /\ queue' \in Seq(Str) /\ Len(queue') = Len(queue)
          /\ \A j \in 1..Len(queue) : queue'[j] = IF j = 1 THEN back ELSE queue[j]
      <4> DEFINE q == [queue EXCEPT ![1] = back]
      <4>1. /\ q \in Seq(Str) /\ Len(q) = Len(queue)
            /\ \A j \in 1..Len(queue) : q[j] = IF j = 1 THEN back ELSE queue[j]
        BY <1>1, <1>4, <3>2, ExceptSeq
      <4> QED
        BY <3>1, <4>1
    <3>4. queue' # <<>> /\ Head(queue') = back
      BY <1>2, <3>2, <3>3
    <3>5. Tail(queue') = Tail(queue)
      <4>1. /\ Tail(queue') \in Seq(Str) /\ Len(Tail(queue')) = Len(queue) - 1
            /\ \A j \in 1..(Len(queue) - 1) : Tail(queue')[j] = queue'[j + 1]
        BY <3>3, <3>4, HeadTailProperties
      <4>2. /\ Tail(queue) \in Seq(Str) /\ Len(Tail(queue)) = Len(queue) - 1
            /\ \A j \in 1..(Len(queue) - 1) : Tail(queue)[j] = queue[j + 1]
        BY <1>1, HeadTailProperties
      <4>3. ASSUME NEW j \in 1..(Len(queue) - 1) PROVE Tail(queue')[j] = Tail(queue)[j]
        <5>1. j + 1 \in 1..Len(queue) /\ j + 1 # 1
          BY <1>2
        <5> QED
          BY <3>3, <4>1, <4>2, <5>1
      <4> QED
        BY <4>1, <4>2, <4>3, SeqEqual
    <3>6. FlattenSeq(queue') = back \o FlattenSeq(Tail(queue'))
      BY <3>3, <3>4, FlattenHead DEF Str
    <3> QED
      BY <3>3, <3>5, <3>6 DEF rest
  <2> QED
    BY <2>1, <2>2
<1>7. Held' = Held
  <2>1. Held = out \o (piece \o rest)
    BY <1>1, <1>5 DEF Held, Pending
  <2>2. Held' = (out \o front) \o (back \o rest)
    BY <1>1, <1>6 DEF Held, Pending
  <2>3. front \o back \in Str /\ back \o rest \in Str
    BY <1>4, <1>5, StrConcat
  <2>4. (out \o front) \o (back \o rest) = out \o (front \o (back \o rest))
    BY <1>1, <1>4, <2>3, StrAssoc
  <2>5. front \o (back \o rest) = (front \o back) \o rest
    BY <1>4, <1>5, StrAssoc
  <2> QED
    BY <1>4, <2>1, <2>2, <2>4, <2>5
<1>8. out' \in Str
  BY <1>1, <1>4, StrConcat
<1> QED
  BY <1>1, <1>6, <1>7, <1>8 DEF ReaderOK, Quiet

\* A read returns the first bytes of what was held, as many as it asked for.
LEMMA ReturnStep ==
  ASSUME ReaderOK, Return
  PROVE  /\ ReaderOK'
         /\ Held = last' \o Held' /\ Held' \in Str /\ last' \in Str
         /\ returned' = returned \o last'
         /\ Len(last') = wanted /\ rpc' = "idle" /\ wanted' = wanted
<1>1. Pending = out /\ Pending' = <<>> /\ queue' = queue /\ last' = out
  BY DEF Return, Pending
<1>2. Held = out \o FlattenSeq(queue) /\ Held' = FlattenSeq(queue)
  BY <1>1, HeldType, StrConcat DEF Held
<1>3. Len(Held) = Len(out) + Len(FlattenSeq(queue)) /\ Len(out) = wanted /\ out \in Str
  BY <1>1, HeldType DEF Return, ReaderOK
<1>4. returned \o out \in Str
  BY StrConcat DEF ReaderOK
<1>5. queued' = Len(Held')
  BY <1>2, <1>3, HeldType, StrConcat DEF ReaderOK, Return
<1> QED
  BY <1>1, <1>2, <1>3, <1>4, <1>5, HeldType DEF ReaderOK, Return

-----------------------------------------------------------------------------
(* The stream: the inductive invariant. *)

TypeOK ==
  /\ stored \in GetResults /\ link \in {"up", "down"}
  /\ spc \in {"read", "lookup", "status", "len", "pieces", "flush", "close", "notfound",
              "drain", "done", "dropped"}
  /\ written \in Nat /\ sink \in Str
  /\ up \in Seq({"request", "FIN"}) /\ down \in Str /\ tail \in {"none", "FIN", "RESET"}
  /\ cpc \in {"send", "status", "header", "body", "bytes", "null", "error"}
  /\ inbox \in Str /\ ended \in {"no", "eof", "reset"}
  /\ ReaderOK

\* What ChunkSource::get found can be sent as a blob.
Sendable == stored \in 0..MAX_RESPONSE_LEN
Served == stored = Missing \/ Sendable

\* How far the proxy is, and how the stream ends for the browser.
ProxyOK ==
  /\ spc \in {"status", "len", "pieces", "flush", "close"} => Sendable
  /\ spc \in {"read", "lookup", "status", "len", "notfound"} => written = 0
  /\ spc = "notfound" => stored = Missing
  /\ spc = "pieces" => written < stored
  /\ spc = "flush" => 0 < written /\ written <= stored
  /\ spc = "close" => written = stored
  /\ spc \in {"drain", "done"} =>
       sink = <<>> /\ ((stored = Missing /\ written = 0) \/ (Sendable /\ written = stored))
  /\ tail = "FIN" => spc \in {"drain", "done"}
  /\ tail = "RESET" => spc = "dropped"
  /\ ended = "eof" => tail = "FIN" /\ down = <<>>
  /\ ended = "reset" => inbox = <<>>

\* Where the bytes are.
InFlight == (Received \o inbox) \o down

FlowOK ==
  /\ Pre(Received, Response)
  /\ ended # "reset" => Pre(InFlight, Response)
  /\ link = "up" /\ ended # "reset" /\ spc # "dropped" => InFlight \o sink = Sent

\* What getChunk() has read so far.
Header == <<STATUS_OK>> \o to_be_bytes(stored)

BrowserOK ==
  /\ cpc = "send" => returned = <<>> /\ rpc = "idle"
  /\ cpc = "status" => wanted = 1 /\
       IF rpc = "idle" THEN returned = last /\ Len(last) = 1 ELSE returned = <<>>
  /\ cpc = "header" => Sendable /\ wanted = LenBytes /\
       IF rpc = "idle" THEN returned = <<STATUS_OK>> \o last /\ Len(last) = LenBytes
       ELSE returned = <<STATUS_OK>>
  /\ cpc = "body" => Sendable /\ wanted = stored /\
       IF rpc = "idle" THEN returned = Header \o last /\ Len(last) = stored ELSE returned = Header
  /\ cpc = "bytes" => Sendable /\ got = Blob(stored)
  /\ cpc = "null" => stored = Missing

\* Nothing stands in the way of a request that can be served.
ServiceOK ==
  link = "up" =>
    /\ ~Settled =>
         IF cpc = "send" THEN spc = "read" /\ up = <<>>
         ELSE up = IF spc = "read" THEN <<"request">> ELSE <<>>
    /\ Served /\ ~Settled => spc # "dropped" /\ ended # "reset" /\ rpc # "failed"
    /\ Served => cpc # "error"

Inv == TypeOK /\ ProxyOK /\ FlowOK /\ BrowserOK /\ ServiceOK

-----------------------------------------------------------------------------
(* The response. *)

\* The stored bytes have the stored length.
LEMMA BlobFacts ==
  ASSUME NEW n \in Nat
  PROVE  Blob(n) \in Str /\ Len(Blob(n)) = n
<1>1. Blob(n) \in [1..n -> Nat]
  BY DEF Blob
<1> QED
  BY <1>1 DEF Str

\* A status is one byte.
LEMMA StatusFacts ==
  /\ <<STATUS_OK>> \in Str /\ Len(<<STATUS_OK>>) = 1
  /\ <<STATUS_NOT_FOUND>> \in Str /\ Len(<<STATUS_NOT_FOUND>>) = 1
  /\ STATUS_OK # STATUS_NOT_FOUND
BY DEF STATUS_OK, STATUS_NOT_FOUND, Str

\* The header of a served chunk: its status and its length field.
LEMMA HeaderFacts ==
  ASSUME Sendable
  PROVE  /\ stored \in Nat /\ stored < Place[LenBytes]
         /\ to_be_bytes(stored) \in Str /\ Len(to_be_bytes(stored)) = LenBytes
         /\ Header \in Str /\ Len(Header) = 1 + LenBytes
         /\ Blob(stored) \in Str /\ Len(Blob(stored)) = stored
<1>1. stored \in Nat /\ stored <= MAX_RESPONSE_LEN
  BY FetchAssumption DEF Sendable
<1>2. stored < Place[LenBytes]
  <2>1. LenBytes \in 0..LenBytes
    BY FetchAssumption
  <2>2. Place[LenBytes] \in Nat
    BY <2>1, PlaceFacts
  <2> QED
    BY <1>1, <2>2, FetchAssumption
<1>3. to_be_bytes(stored) \in Str /\ Len(to_be_bytes(stored)) = LenBytes
  BY <1>1, ToBytesType DEF Str
<1>4. Header \in Str /\ Len(Header) = 1 + LenBytes
  BY <1>3, StatusFacts, StrConcat DEF Header
<1> QED
  BY <1>1, <1>2, <1>3, <1>4, BlobFacts

\* What the whole response is, and that two of the largest fit the buffer.
LEMMA ResponseFacts ==
  ASSUME stored \in GetResults
  PROVE  /\ Response \in Str
         /\ stored = Missing => Response = <<STATUS_NOT_FOUND>> /\ ~Sendable
         /\ Sendable => Response = Header \o Blob(stored) /\ Len(Response) = 1 + LenBytes + stored
         /\ ~Served => Response = <<>>
         /\ Len(Response) <= maxReadBufferLength
<1>1. MAX_RESPONSE_LEN \in Nat /\ LenBytes \in Nat \ {0} /\ LenBytes < MAX_RESPONSE_LEN
  BY FetchAssumption
<1>2. CASE stored = Missing
  <2>1. ~Sendable
    BY <1>2, FetchAssumption DEF Sendable
  <2>2. Response = <<STATUS_NOT_FOUND>>
    BY <1>2, <2>1 DEF Response, Sendable
  <2> QED
    BY <1>1, <1>2, <2>1, <2>2, StatusFacts DEF maxReadBufferLength, Served
<1>3. CASE Sendable
  <2>1. stored # Missing
    BY <1>3, FetchAssumption DEF Sendable
  <2>2. Response = Header \o Blob(stored)
    BY <1>3, <2>1 DEF Response, Sendable, Header
  <2>3. Response \in Str /\ Len(Response) = 1 + LenBytes + stored
    BY <1>1, <1>3, <2>2, HeaderFacts, StrConcat, ZenonT(30)
  <2>4. Len(Response) <= maxReadBufferLength
    BY <1>1, <1>3, <2>3 DEF Sendable, maxReadBufferLength
  <2> QED
    BY <1>3, <2>1, <2>2, <2>3, <2>4 DEF Served
<1>4. CASE ~Served
  <2>1. Response = <<>>
    BY <1>4 DEF Response, Served, Sendable
  <2>2. <<>> \in Str /\ Len(<<>>) = 0
    BY StatusFacts, StrConcat
  <2> QED
    BY <1>1, <1>4, <2>1, <2>2 DEF maxReadBufferLength, Served
<1> QED
  BY <1>2, <1>3, <1>4 DEF Served

\* What the proxy has handed on, at each point of handle_request.
LEMMA SentFacts ==
  TypeOK /\ ProxyOK /\ spc # "dropped" =>
    /\ spc \in {"read", "lookup", "status", "notfound"} => Sent = <<>>
    /\ spc = "len" => Sent = <<STATUS_OK>>
    /\ spc \in {"pieces", "flush", "close"} => Sent = Header \o SubSeq(Blob(stored), 1, written)
    /\ spc \in {"drain", "done"} => Sent = Response
<1> SUFFICES ASSUME TypeOK, ProxyOK, spc # "dropped"
             PROVE  /\ spc \in {"read", "lookup", "status", "notfound"} => Sent = <<>>
                    /\ spc = "len" => Sent = <<STATUS_OK>>
                    /\ spc \in {"pieces", "flush", "close"} =>
                         Sent = Header \o SubSeq(Blob(stored), 1, written)
                    /\ spc \in {"drain", "done"} => Sent = Response
  OBVIOUS
<1>1. CASE spc \in {"read", "lookup", "status", "notfound"}
  <2>1. written = 0
    BY <1>1 DEF ProxyOK
  <2> QED
    BY <1>1, <2>1 DEF Sent
<1>2. CASE spc = "len"
  <2>1. written = 0
    BY <1>2 DEF ProxyOK
  <2> QED
    BY <1>2, <2>1 DEF Sent
<1>3. CASE spc \in {"pieces", "flush", "close"}
  BY <1>3 DEF Sent, Header
<1>4. CASE spc \in {"drain", "done"}
  <2>1. CASE stored = Missing
    <3>1. written = 0
      BY <1>4, <2>1, ResponseFacts DEF ProxyOK, TypeOK
    <3>2. Sent = <<STATUS_NOT_FOUND>>
      <4>1. stored # 0 /\ ~(written > 0)
        BY <2>1, <3>1, FetchAssumption
      <4> QED
        BY <1>4, <2>1, <4>1 DEF Sent
    <3> QED
      BY <1>4, <2>1, <3>2, ResponseFacts DEF TypeOK
  <2>2. CASE Sendable /\ stored = 0
    <3>1. written = 0 /\ stored # Missing
      BY <1>4, <2>2, ResponseFacts DEF ProxyOK, TypeOK
    <3>2. Sent = Header
      BY <1>4, <2>2, <3>1 DEF Sent, Header
    <3>3. Blob(stored) = <<>>
      BY <2>2, HeaderFacts, StrEmpty
    <3>4. Header \o <<>> = Header
      BY <2>2, HeaderFacts, StrConcat
    <3> QED
      BY <1>4, <2>2, <3>2, <3>3, <3>4, ResponseFacts DEF TypeOK
  <2>3. CASE Sendable /\ stored # 0
    <3>1. written = stored /\ stored # Missing /\ written > 0
      BY <1>4, <2>3, HeaderFacts, ResponseFacts DEF ProxyOK, TypeOK
    <3>2. Sent = Header \o SubSeq(Blob(stored), 1, stored)
      BY <1>4, <2>3, <3>1 DEF Sent, Header
    <3>3. SubSeq(Blob(stored), 1, stored) = Blob(stored)
      <4>1. SubSeq(Blob(stored), 1, Len(Blob(stored))) = Blob(stored)
        BY <2>3, HeaderFacts, SubSeqFull DEF Str
      <4> QED
        BY <2>3, <4>1, HeaderFacts
    <3> QED
      BY <1>4, <2>3, <3>2, <3>3, ResponseFacts DEF TypeOK
  <2> QED
    BY <1>4, <2>1, <2>2, <2>3 DEF ProxyOK
<1> QED
  BY <1>1, <1>2, <1>3, <1>4 DEF TypeOK

\* It is always a prefix of the response.
LEMMA SentIsPrefix ==
  TypeOK /\ ProxyOK /\ spc # "dropped" => Sent \in Str /\ Pre(Sent, Response)
<1> SUFFICES ASSUME TypeOK, ProxyOK, spc # "dropped" PROVE Sent \in Str /\ Pre(Sent, Response)
  OBVIOUS
<1>1. Response \in Str /\ <<>> \in Str
  BY ResponseFacts, StrConcat DEF TypeOK
<1>2. CASE spc \in {"read", "lookup", "status", "notfound"}
  BY <1>1, <1>2, SentFacts, StrConcat DEF Pre
<1>3. CASE spc = "len"
  <2>1. Sendable /\ Sent = <<STATUS_OK>>
    BY <1>3, SentFacts DEF ProxyOK
  <2>2. Response = Header \o Blob(stored)
    BY <2>1, ResponseFacts DEF TypeOK
  <2>3. Pre(Header, Response)
    BY <2>1, <2>2, HeaderFacts DEF Pre
  <2>4. Pre(<<STATUS_OK>> \o to_be_bytes(stored), Response)
    BY <2>3 DEF Header
  <2> QED
    BY <1>1, <2>1, <2>4, HeaderFacts, StatusFacts, PreConcat
<1>4. CASE spc \in {"pieces", "flush", "close"}
  <2> DEFINE front == SubSeq(Blob(stored), 1, written)
             back == SubSeq(Blob(stored), written + 1, Len(Blob(stored)))
  <2>1. Sendable /\ Sent = Header \o front /\ written \in 0..stored
    BY <1>4, SentFacts, HeaderFacts DEF ProxyOK, TypeOK
  <2>2. front \in Str /\ back \in Str /\ Blob(stored) = front \o back
    BY <2>1, HeaderFacts, CutInTwo DEF Str
  <2> HIDE DEF front, back
  <2>3. (Header \o front) \o back = Header \o (front \o back)
    BY <2>1, <2>2, HeaderFacts, StrAssoc, ZenonT(60)
  <2>4. Response = Sent \o back
    BY <2>1, <2>2, <2>3, ResponseFacts DEF TypeOK
  <2> QED
    BY <2>1, <2>2, <2>4, HeaderFacts, StrConcat DEF Pre
<1>5. CASE spc \in {"drain", "done"}
  BY <1>1, <1>5, SentFacts, PreSelf
<1> QED
  BY <1>2, <1>3, <1>4, <1>5 DEF TypeOK

-----------------------------------------------------------------------------
(* What getChunk() has read when a read has returned. *)

\* The reads that returned gave the first bytes of the response.
LEMMA ReturnedIsPrefix ==
  ASSUME Inv
  PROVE  /\ returned \in Str /\ Response \in Str
         /\ \E u \in Str : Response = returned \o u
<1>1. returned \in Str /\ Held \in Str /\ Response \in Str
  BY HeldType, ResponseFacts DEF Inv, TypeOK, ReaderOK
<1>2. Pre(returned \o Held, Response)
  BY DEF Inv, FlowOK, Received
<1> QED
  BY <1>1, <1>2, PreConcat, ZenonT(30) DEF Pre

\* The status byte getChunk() reads is the one the proxy wrote.
LEMMA StatusIsRead ==
  ASSUME Inv, cpc = "status", rpc = "idle"
  PROVE  \/ stored = Missing /\ Head(last) = STATUS_NOT_FOUND
         \/ Sendable /\ Head(last) = STATUS_OK /\ returned = <<STATUS_OK>>
<1>1. returned = last /\ Len(last) = 1 /\ last \in Str
  BY DEF Inv, BrowserOK, TypeOK, ReaderOK
<1>2. PICK u \in Str : Response = last \o u
  BY <1>1, ReturnedIsPrefix
<1>3. Len(Response) >= 1
  <2>1. Len(last \o u) = Len(last) + Len(u) /\ Len(u) \in Nat
    BY <1>1, StrConcat
  <2> QED
    BY <1>1, <1>2, <2>1
<1>4. stored \in GetResults /\ <<>> \in Str /\ Len(<<>>) = 0
  BY <1>1, StrConcat DEF Inv, TypeOK
<1>5. CASE stored = Missing
  <2>1. <<STATUS_NOT_FOUND>> \o <<>> = last \o u
    BY <1>2, <1>4, <1>5, ResponseFacts, StatusFacts, StrConcat
  <2>2. last = <<STATUS_NOT_FOUND>>
    BY <1>1, <1>4, <2>1, StatusFacts, StrCut
  <2> QED
    BY <1>5, <2>2
<1>6. CASE Sendable
  <2>1. Response = <<STATUS_OK>> \o (to_be_bytes(stored) \o Blob(stored))
    <3>1. Response = Header \o Blob(stored)
      BY <1>4, <1>6, ResponseFacts
    <3>2. <<STATUS_OK>> \in Str /\ to_be_bytes(stored) \in Str /\ Blob(stored) \in Str
      BY <1>6, HeaderFacts, StatusFacts
    <3>3. (<<STATUS_OK>> \o to_be_bytes(stored)) \o Blob(stored)
          = <<STATUS_OK>> \o (to_be_bytes(stored) \o Blob(stored))
      BY <3>2, StrAssoc, ZenonT(60)
    <3> QED
      BY <3>1, <3>3, Zenon DEF Header
  <2>2. to_be_bytes(stored) \o Blob(stored) \in Str
    BY <1>6, HeaderFacts, StrConcat
  <2>3. last = <<STATUS_OK>>
    BY <1>1, <1>2, <2>1, <2>2, StatusFacts, StrCut
  <2> QED
    BY <1>1, <1>6, <2>3
<1>7. CASE ~Served
  BY <1>3, <1>4, <1>7, ResponseFacts
<1> QED
  BY <1>5, <1>6, <1>7 DEF Served

\* The length getChunk() reads is the one the proxy wrote.
LEMMA HeaderIsRead ==
  ASSUME Inv, cpc = "header", rpc = "idle"
  PROVE  /\ Sendable /\ returned = Header /\ last = to_be_bytes(stored)
         /\ getUint32(last) = stored
<1>1. Sendable /\ returned = <<STATUS_OK>> \o last /\ Len(last) = LenBytes /\ last \in Str
  BY DEF Inv, BrowserOK, TypeOK, ReaderOK
<1>2. PICK u \in Str : Response = returned \o u
  BY ReturnedIsPrefix
<1>3. Response = Header \o Blob(stored) /\ Header \in Str /\ Len(Header) = 1 + LenBytes
      /\ Blob(stored) \in Str
  BY <1>1, ResponseFacts, HeaderFacts DEF Inv, TypeOK
<1>4. returned \in Str /\ Len(returned) = 1 + LenBytes
  BY <1>1, StatusFacts, StrConcat
<1>5. returned = Header
  BY <1>2, <1>3, <1>4, StrCut
<1>6. last = to_be_bytes(stored)
  <2>1. <<STATUS_OK>> \o last = <<STATUS_OK>> \o to_be_bytes(stored)
    BY <1>1, <1>5 DEF Header
  <2> QED
    BY <1>1, <2>1, HeaderFacts, StatusFacts, StrCut
<1> QED
  BY <1>1, <1>5, <1>6, HeaderFacts, LengthIsRead

\* The body getChunk() reads is the stored chunk.
LEMMA BodyIsRead ==
  ASSUME Inv, cpc = "body", rpc = "idle"
  PROVE  Sendable /\ last = Blob(stored)
<1>1. Sendable /\ returned = Header \o last /\ Len(last) = stored /\ last \in Str
  BY DEF Inv, BrowserOK, TypeOK, ReaderOK
<1>2. PICK u \in Str : Response = returned \o u
  BY ReturnedIsPrefix
<1>3. Response = Header \o Blob(stored) /\ Header \in Str /\ Len(Header) = 1 + LenBytes
      /\ Blob(stored) \in Str /\ Len(Blob(stored)) = stored
  BY <1>1, ResponseFacts, HeaderFacts DEF Inv, TypeOK
<1>4. (Header \o last) \o u = Header \o (last \o u) /\ last \o u \in Str
  <2>1. (Header \o last) \o u = Header \o (last \o u)
    BY <1>1, <1>3, StrAssoc, ZenonT(60)
  <2> QED
    BY <1>1, <2>1, StrConcat
<1>5. Blob(stored) = last \o u
  BY <1>1, <1>2, <1>3, <1>4, StrCut
<1>6. last \o u = Blob(stored) \o <<>> /\ <<>> \in Str
  BY <1>3, <1>5, StrConcat
<1> QED
  BY <1>1, <1>3, <1>6, StrCut

-----------------------------------------------------------------------------
(* The steps keep the invariant, one part at a time. *)

\* A step that leaves the reader alone keeps its invariant.
LEMMA ReaderUnchanged ==
  ASSUME ReaderOK, UNCHANGED reader
  PROVE  ReaderOK' /\ Quiet
<1>1. Held' = Held
  BY DEF Held, Pending, reader
<1> QED
  BY <1>1 DEF ReaderOK, Quiet, reader

\* What each step does to the bytes in the reader.
LEMMA ReaderStep ==
  ASSUME Inv, [Next]_vars
  PROVE  /\ ReaderOK'
         /\ \/ Quiet /\ ~Iterate /\ ~Return
            \/ Iterate /\ Held' = Held \o inbox /\ returned' = returned /\ last' = last
            \/ Return /\ Copy
<1>1. ReaderOK /\ inbox \in Str /\ <<>> \in Str
  BY StrConcat DEF Inv, TypeOK
<1>2. CASE Send
  <2>1. ~Iterate /\ ~Return
    BY <1>2 DEF Send, Call, Iterate, Deliver, Return, reader, Settle
  <2>2. ReaderOK' /\ Quiet
    BY <1>1, <1>2, CallStep, ReaderUnchanged DEF Send
  <2> QED
    BY <2>1, <2>2
<1>3. CASE Iterate
  BY <1>1, <1>3, DeliverStep DEF Iterate
<1>4. CASE IterateEmpty
  <2>1. ReaderOK' /\ Held' = Held \o <<>> /\ returned' = returned /\ last' = last
    BY <1>1, <1>4, DeliverStep DEF IterateEmpty
  <2>2. Held \o <<>> = Held
    BY <1>1, HeldType, StrConcat
  <2>3. ~Iterate /\ ~Return
    BY <1>4 DEF IterateEmpty, Deliver, Iterate, Return, wire
  <2> QED
    BY <2>1, <2>2, <2>3 DEF Quiet
<1>5. CASE IterateFails
  BY <1>1, <1>5, EndOfStreamStep DEF IterateFails, EndOfStream, Iterate, Return
<1>6. CASE Copy
  <2>1. CASE StartCopy
    BY <1>1, <2>1, StartCopyStep DEF StartCopy, Iterate, Deliver, Return
  <2>2. CASE CopyPiece
    <3>1. ~Iterate /\ ~Return
      BY <2>2 DEF CopyPiece, Iterate, Deliver, Return
    <3> QED
      BY <1>1, <2>2, <3>1, CopyPieceStep
  <2>3. CASE Return
    BY <1>1, <1>6, <2>3, ReturnStep
  <2> QED
    BY <1>6, <2>1, <2>2, <2>3 DEF Copy, Copying
<1>7. CASE ReadStatus
  <2>1. ~Iterate /\ ~Return
    BY <1>7 DEF ReadStatus, Iterate, Deliver, Return
  <2>2. UNCHANGED reader \/ Call(LenBytes)
    BY <1>7 DEF ReadStatus
  <2> QED
    BY <1>1, <2>1, <2>2, CallStep, ReaderUnchanged, FetchAssumption
<1>8. CASE ReadHeader
  <2>1. ~Iterate /\ ~Return
    BY <1>8 DEF ReadHeader, Iterate, Deliver, Return
  <2>2. stored \in Nat /\ getUint32(last) = stored
    BY <1>8, HeaderIsRead, HeaderFacts DEF ReadHeader
  <2>3. UNCHANGED reader \/ Call(stored)
    BY <1>8, <2>2 DEF ReadHeader
  <2> QED
    BY <1>1, <2>1, <2>2, <2>3, CallStep, ReaderUnchanged
<1>9. CASE UNCHANGED reader
  <2>1. ~Iterate
    <3>1. SUFFICES ASSUME Iterate PROVE FALSE
      OBVIOUS
    <3>2. Held \o inbox = Held /\ inbox # <<>>
      <4>1. Held' = Held \o inbox
        BY <1>1, <3>1, DeliverStep DEF Iterate
      <4> QED
        BY <1>1, <1>9, <3>1, <4>1, ReaderUnchanged DEF Quiet, Iterate
    <3>3. Len(Held) + Len(inbox) = Len(Held) /\ Len(Held) \in Nat /\ Len(inbox) \in Nat
      BY <1>1, <3>2, HeldType, StrConcat
    <3>4. Len(inbox) = 0
      BY <3>3
    <3> QED
      BY <1>1, <3>2, <3>4, StrEmpty
  <2>2. ~Return
    BY <1>9 DEF Return, reader
  <2> QED
    BY <1>1, <1>9, <2>1, <2>2, ReaderUnchanged
<1>10. Next => \/ Send \/ Iterate \/ IterateEmpty \/ IterateFails \/ Copy \/ ReadStatus
               \/ ReadHeader \/ UNCHANGED reader
  BY DEF Next, Proxy, Transport, Browser, ReadRequest, Lookup, WriteStatus, WriteLen, WritePiece,
         FlushPiece, Close, WriteNotFound, CloseWith, Drain, ServerFails, TornDown, Arrive,
         EndArrives, LinkDown, ReadFails, ReadBody, browser
<1> QED
  BY <1>2, <1>3, <1>4, <1>5, <1>6, <1>7, <1>8, <1>9, <1>10 DEF vars, reader

\* The piece of the blob that the proxy writes next.
NextPiece ==
  LET size == Min({MAX_MESSAGE_PAYLOAD, stored - written})
  IN  SubSeq(Blob(stored), written + 1, written + size)

\* The next piece the proxy writes follows those it has written.
LEMMA PieceFacts ==
  ASSUME TypeOK, ProxyOK, WritePiece
  PROVE  /\ spc = "pieces" /\ spc' = "flush" /\ Sendable
         /\ written' \in Nat /\ written < written' /\ written' <= stored
         /\ NextPiece \in Str /\ sink' = sink \o NextPiece
         /\ SubSeq(Blob(stored), 1, written) \in Str
         /\ SubSeq(Blob(stored), 1, written') = SubSeq(Blob(stored), 1, written) \o NextPiece
<1> DEFINE size == Min({MAX_MESSAGE_PAYLOAD, stored - written})
<1>1. /\ spc = "pieces" /\ spc' = "flush" /\ Sendable /\ written \in Nat /\ written < stored
      /\ written' = written + size /\ sink' = sink \o NextPiece
  BY DEF WritePiece, Write, ProxyOK, TypeOK, NextPiece
<1>2. stored \in Nat /\ Blob(stored) \in Seq(Nat) /\ Len(Blob(stored)) = stored
  BY <1>1, HeaderFacts DEF Str
<1>3. size \in Nat /\ 0 < size /\ size <= stored - written
  <2>1. MAX_MESSAGE_PAYLOAD \in Nat /\ 0 < MAX_MESSAGE_PAYLOAD /\ stored - written \in Nat
    BY <1>1, <1>2, FetchAssumption
  <2>2. size = IF MAX_MESSAGE_PAYLOAD <= stored - written THEN MAX_MESSAGE_PAYLOAD ELSE stored - written
    BY <2>1, MinOfTwo
  <2> HIDE DEF size
  <2> QED
    BY <1>1, <1>2, <2>1, <2>2
<1>4. NextPiece = SubSeq(Blob(stored), written + 1, written + size)
  BY DEF NextPiece
<1> HIDE DEF size
<1>5. /\ 1 \in 1..(Len(Blob(stored)) + 1) /\ written \in (1 - 1)..Len(Blob(stored))
      /\ written + size \in written..Len(Blob(stored))
  BY <1>1, <1>2, <1>3
<1>6. SubSeq(Blob(stored), 1, written) \o SubSeq(Blob(stored), written + 1, written + size)
        = SubSeq(Blob(stored), 1, written + size)
  BY <1>2, <1>5, ConcatAdjacentSubSeq
<1>7. SubSeq(Blob(stored), 1, written) \in Str
  BY <1>2, <1>5, CutInTwo DEF Str
<1>8. NextPiece \in Str
  <2>1. \A i \in (written + 1)..(written + size) : Blob(stored)[i] \in Nat
    BY <1>1, <1>2, <1>5, ElementOfSeq
  <2>2. written + 1 \in Int /\ written + size \in Int
    BY <1>1, <1>3
  <2> QED
    BY <1>4, <2>1, <2>2, SubSeqProperties DEF Str
<1> QED
  BY <1>1, <1>2, <1>3, <1>4, <1>6, <1>7, <1>8, SMTT(30)

\* The bytes that arrive are the first of those on the wire.
LEMMA ArriveFacts ==
  ASSUME TypeOK, Arrive
  PROVE  \E s \in Str, t \in Str :
           /\ down = s \o t /\ down' = t
           /\ IF Len(inbox) + Len(s) > maxReadBufferLength
              THEN inbox' = <<>> /\ ended' = "reset"
              ELSE inbox' = inbox \o s /\ UNCHANGED ended
<1>1. PICK n \in 1..Len(down) :
        /\ down' = SubSeq(down, n + 1, Len(down))
        /\ IF Len(inbox) + n > maxReadBufferLength
           THEN inbox' = <<>> /\ ended' = "reset"
           ELSE inbox' = inbox \o SubSeq(down, 1, n) /\ UNCHANGED ended
  BY DEF Arrive
<1> DEFINE s == SubSeq(down, 1, n)
           t == SubSeq(down, n + 1, Len(down))
<1>2. n \in 0..Len(down) /\ down \in Seq(Nat)
  BY DEF TypeOK, Str
<1>3. s \in Str /\ t \in Str /\ Len(s) = n /\ down = s \o t
  BY <1>2, CutInTwo DEF Str
<1> HIDE DEF s, t
<1>4. down' = t
  BY <1>1 DEF t
<1>5. IF Len(inbox) + n > maxReadBufferLength
      THEN inbox' = <<>> /\ ended' = "reset"
      ELSE inbox' = inbox \o s /\ UNCHANGED ended
  BY <1>1 DEF s
<1> QED
  BY <1>3, <1>4, <1>5

\* Every step keeps the variables in their types.
LEMMA TypeStep ==
  ASSUME Inv, [Next]_vars
  PROVE  TypeOK'
<1>1. TypeOK /\ ProxyOK /\ BrowserOK /\ ReaderOK' /\ <<>> \in Str
  BY ReaderStep, StrConcat, StatusFacts DEF Inv
<1>2. CASE ReadRequest
  <2>1. up' \in Seq({"request", "FIN"})
    BY <1>1, <1>2, HeadTailProperties DEF ReadRequest, TypeOK
  <2> QED
    BY <1>1, <1>2, <2>1 DEF ReadRequest, Drop, TypeOK, browser
<1>3. CASE Lookup \/ ServerFails \/ TornDown
  BY <1>1, <1>3 DEF Lookup, ServerFails, TornDown, Drop, TypeOK, browser
<1>4. CASE WriteStatus
  <2>1. sink' \in Str
    BY <1>1, <1>4, StatusFacts, StrConcat DEF WriteStatus, Write, TypeOK
  <2> QED
    BY <1>1, <1>4, <2>1 DEF WriteStatus, TypeOK, wire, browser
<1>5. CASE WriteLen
  <2>1. sink \in Str /\ to_be_bytes(stored) \in Str
    BY <1>1, <1>5, HeaderFacts DEF WriteLen, ProxyOK, TypeOK
  <2>2. sink' \in Str
    BY <1>5, <2>1, StrConcat DEF WriteLen, Write
  <2> QED
    BY <1>1, <1>5, <2>2 DEF WriteLen, TypeOK, wire, browser
<1>6. CASE WritePiece
  <2>1. sink' \in Str /\ written' \in Nat /\ spc' = "flush"
    BY <1>1, <1>6, PieceFacts, StrConcat DEF TypeOK
  <2> QED
    BY <1>1, <1>6, <2>1 DEF WritePiece, TypeOK, wire, browser
<1>7. CASE FlushPiece
  <2>1. down' \in Str
    BY <1>1, <1>7, StrConcat DEF FlushPiece, TypeOK
  <2> QED
    BY <1>1, <1>7, <2>1 DEF FlushPiece, TypeOK, browser
<1>8. CASE Close \/ WriteNotFound
  <2>1. PICK bytes \in Str : CloseWith(bytes)
    BY <1>1, <1>8, StatusFacts DEF Close, WriteNotFound
  <2>2. down \o sink \in Str
    BY <1>1, StrConcat DEF TypeOK
  <2>3. down' \in Str
    BY <2>1, <2>2, StrConcat DEF CloseWith
  <2> QED
    BY <1>1, <2>1, <2>3 DEF CloseWith, TypeOK, browser
<1>9. CASE Drain
  <2>1. up' \in Seq({"request", "FIN"})
    BY <1>1, <1>9, HeadTailProperties DEF Drain, TypeOK
  <2> QED
    BY <1>1, <1>9, <2>1 DEF Drain, TypeOK, browser
<1>10. CASE Arrive
  <2>1. down' \in Str /\ inbox' \in Str /\ ended' \in {"no", "eof", "reset"}
    BY <1>1, <1>10, ArriveFacts, StrConcat DEF TypeOK
  <2> QED
    BY <1>1, <1>10, <2>1 DEF Arrive, TypeOK, server, browser
<1>11. CASE EndArrives \/ LinkDown
  <2>1. up' \in Seq({"request", "FIN"})
    BY <1>1, <1>11, EmptySeq DEF EndArrives, LinkDown, TypeOK
  <2> QED
    BY <1>1, <1>11, <2>1 DEF EndArrives, LinkDown, TypeOK, server, browser
<1>12. CASE Iterate \/ IterateEmpty \/ IterateFails \/ Copy
  BY <1>1, <1>12 DEF Iterate, IterateEmpty, IterateFails, Copy, TypeOK, server, wire
<1>13. CASE Send \/ ReadFails \/ ReadStatus \/ ReadHeader \/ ReadBody
  <2>1. up' \in Seq({"request", "FIN"})
    <3>1. up' \in {up, Append(up, "FIN"), Append(up, "request")}
      BY <1>13 DEF Send, ReadFails, ReadStatus, ReadHeader, ReadBody, Settle
    <3> QED
      BY <1>1, <3>1, AppendProperties DEF TypeOK
  <2> QED
    BY <1>1, <1>13, <2>1 DEF Send, ReadFails, ReadStatus, ReadHeader, ReadBody, Settle, TypeOK, server
<1>14. CASE UNCHANGED vars
  BY <1>1, <1>14 DEF vars, TypeOK
<1> QED
  BY <1>2, <1>3, <1>4, <1>5, <1>6, <1>7, <1>8, <1>9, <1>10, <1>11, <1>12, <1>13, <1>14
     DEF Next, Proxy, Transport, Browser

\* Every step keeps the invariant of the request handler.
LEMMA ProxyStep ==
  ASSUME Inv, [Next]_vars
  PROVE  ProxyOK'
<1>1. TypeOK /\ ProxyOK /\ MAX_RESPONSE_LEN \in Nat /\ Missing \notin Nat
  BY FetchAssumption DEF Inv
<1>2. Sendable => stored \in Nat
  BY <1>1 DEF Sendable
<1>3. Sendable' <=> Sendable
  BY DEF Sendable, Next, Proxy, Transport, Browser, ReadRequest, Lookup, WriteStatus, WriteLen,
         WritePiece, FlushPiece, Close, WriteNotFound, CloseWith, Drain, ServerFails, TornDown,
         Arrive, EndArrives, LinkDown, Send, Iterate, IterateEmpty, IterateFails, Copy, ReadFails,
         ReadStatus, ReadHeader, ReadBody, vars
<1>4. CASE ReadRequest
  BY <1>1, <1>2, <1>3, <1>4 DEF ReadRequest, Drop, ProxyOK, TypeOK
<1>5. CASE Lookup
  <2>1. \/ spc' = "notfound" /\ stored = Missing /\ UNCHANGED <<written, sink, tail>>
        \/ spc' = "status" /\ Sendable /\ UNCHANGED <<written, sink, tail>>
        \/ Drop
    <3>1. stored \in Nat \cup {Missing, SourceError}
      BY <1>1, FetchAssumption DEF TypeOK, GetResults
    <3> QED
      BY <1>1, <1>5, <3>1 DEF Lookup, Sendable
  <2>2. spc = "lookup" /\ UNCHANGED <<stored, link, down, inbox, ended>>
    BY <1>5 DEF Lookup
  <2> QED
    BY <1>1, <1>2, <1>3, <2>1, <2>2 DEF Drop, ProxyOK, TypeOK
<1>6. CASE ServerFails \/ TornDown
  BY <1>1, <1>2, <1>3, <1>6 DEF ServerFails, TornDown, Writing, Drop, ProxyOK, TypeOK
<1>7. CASE WriteStatus
  BY <1>1, <1>2, <1>3, <1>7 DEF WriteStatus, ProxyOK, TypeOK, wire
<1>8. CASE WriteLen
  BY <1>1, <1>2, <1>3, <1>8 DEF WriteLen, ProxyOK, TypeOK, wire
<1>9. CASE WritePiece
  <2>1. spc = "pieces" /\ spc' = "flush" /\ Sendable /\ 0 < written' /\ written' <= stored
    BY <1>1, <1>2, <1>9, PieceFacts DEF TypeOK
  <2> QED
    BY <1>1, <1>3, <1>9, <2>1 DEF WritePiece, ProxyOK, TypeOK, wire
<1>10. CASE FlushPiece
  BY <1>1, <1>2, <1>3, <1>10 DEF FlushPiece, ProxyOK, TypeOK
<1>11. CASE Close \/ WriteNotFound
  BY <1>1, <1>2, <1>3, <1>11 DEF Close, WriteNotFound, CloseWith, ProxyOK, TypeOK
<1>12. CASE Drain
  BY <1>1, <1>2, <1>3, <1>12 DEF Drain, ProxyOK, TypeOK
<1>13. CASE Arrive
  BY <1>1, <1>2, <1>3, <1>13 DEF Arrive, ProxyOK, TypeOK, server
<1>14. CASE EndArrives \/ LinkDown
  BY <1>1, <1>2, <1>3, <1>14 DEF EndArrives, LinkDown, ProxyOK, TypeOK, server
<1>15. CASE Iterate \/ IterateEmpty \/ IterateFails \/ Copy
  BY <1>1, <1>2, <1>3, <1>15 DEF Iterate, IterateEmpty, IterateFails, Copy, ProxyOK, server, wire
<1>16. CASE Send \/ ReadFails \/ ReadStatus \/ ReadHeader \/ ReadBody
  BY <1>1, <1>2, <1>3, <1>16 DEF Send, ReadFails, ReadStatus, ReadHeader, ReadBody, ProxyOK, server
<1>17. CASE UNCHANGED vars
  BY <1>1, <1>3, <1>17 DEF vars, ProxyOK
<1> QED
  BY <1>4, <1>5, <1>6, <1>7, <1>8, <1>9, <1>10, <1>11, <1>12, <1>13, <1>14, <1>15, <1>16, <1>17
     DEF Next, Proxy, Transport, Browser

\* Only the iterator brings bytes into the reader.
LEMMA ReceivedStep ==
  ASSUME Inv, [Next]_vars
  PROVE  \/ ~Iterate /\ Received' = Received
         \/ Iterate /\ Received' = Received \o inbox
<1>1. /\ ReaderOK /\ inbox \in Str /\ returned \in Str /\ Held \in Str
  BY HeldType DEF Inv, TypeOK, ReaderOK
<1>2. CASE Quiet /\ ~Iterate
  BY <1>2 DEF Quiet, Received
<1>3. CASE Iterate /\ Held' = Held \o inbox /\ returned' = returned
  <2>1. Received' = returned \o (Held \o inbox)
    BY <1>3 DEF Received
  <2>2. (returned \o Held) \o inbox = returned \o (Held \o inbox)
    BY <1>1, StrAssoc, ZenonT(60)
  <2> QED
    BY <1>3, <2>1, <2>2 DEF Received
<1>4. CASE Return
  <2>1. Held = last' \o Held' /\ Held' \in Str /\ last' \in Str /\ returned' = returned \o last'
    BY <1>1, <1>4, ReturnStep
  <2>2. (returned \o last') \o Held' = returned \o (last' \o Held')
    BY <1>1, <2>1, StrAssoc, ZenonT(60)
  <2>3. ~Iterate
    BY <1>4 DEF Return, Iterate, Deliver
  <2> QED
    BY <2>1, <2>2, <2>3 DEF Received
<1> QED
  BY <1>2, <1>3, <1>4, ReaderStep

\* No step changes what the source answered.
LEMMA StoredIsFixed ==
  ASSUME [Next]_vars
  PROVE  /\ stored' = stored /\ Response' = Response /\ Header' = Header
         /\ (Sendable' <=> Sendable) /\ (Served' <=> Served)
<1>1. stored' = stored
  BY DEF Next, Proxy, Transport, Browser, ReadRequest, Lookup, WriteStatus, WriteLen,
         WritePiece, FlushPiece, Close, WriteNotFound, CloseWith, Drain, ServerFails, TornDown,
         Arrive, EndArrives, LinkDown, Send, Iterate, IterateEmpty, IterateFails, Copy, ReadFails,
         ReadStatus, ReadHeader, ReadBody, vars
<1> QED
  BY <1>1 DEF Response, Header, Sendable, Served

\* Every step keeps the bytes received and in flight a prefix of the response.
LEMMA FlowStep ==
  ASSUME Inv, [Next]_vars
  PROVE  FlowOK'
<1>1. TypeOK /\ ProxyOK /\ FlowOK /\ TypeOK' /\ ProxyOK'
  BY TypeStep, ProxyStep DEF Inv
<1>2. stored' = stored /\ Response' = Response /\ Header' = Header
  BY StoredIsFixed
<1>3. /\ Received \in Str /\ inbox \in Str /\ down \in Str /\ sink \in Str /\ <<>> \in Str
      /\ Received \o inbox \in Str /\ InFlight \in Str /\ Response \in Str
  <2>1. Received \in Str /\ inbox \in Str /\ down \in Str /\ sink \in Str /\ Response \in Str
    BY <1>1, HeldType, ResponseFacts DEF TypeOK
  <2>2. Received \o inbox \in Str /\ <<>> \in Str
    BY <2>1, StrConcat
  <2> QED
    BY <2>1, <2>2, StrConcat DEF InFlight
<1>4. spc # "dropped" => Pre(Sent, Response) /\ Sent \in Str
  BY <1>1, SentIsPrefix
<1>5. spc' # "dropped" =>
        /\ spc' \in {"read", "lookup", "status", "notfound"} => Sent' = <<>>
        /\ spc' = "len" => Sent' = <<STATUS_OK>>
        /\ spc' \in {"pieces", "flush", "close"} => Sent' = Header \o SubSeq(Blob(stored), 1, written')
        /\ spc' \in {"drain", "done"} => Sent' = Response
  <2>1. (TypeOK /\ ProxyOK /\ spc # "dropped" =>
           /\ spc \in {"read", "lookup", "status", "notfound"} => Sent = <<>>
           /\ spc = "len" => Sent = <<STATUS_OK>>
           /\ spc \in {"pieces", "flush", "close"} => Sent = Header \o SubSeq(Blob(stored), 1, written)
           /\ spc \in {"drain", "done"} => Sent = Response)'
    BY SentFacts, PTL
  <2>2. Blob(stored)' = Blob(stored)
    BY <1>2 DEF Blob
  <2> QED
    BY <1>1, <1>2, <2>1, <2>2 DEF Blob
\* What has been delivered stays a prefix.
<1>6. Pre(Received', Response')
  <2>1. CASE Received' = Received
    BY <1>1, <1>2, <2>1 DEF FlowOK
  <2>2. CASE Iterate /\ Received' = Received \o inbox
    <3>1. ended # "reset"
      BY <1>1, <2>2 DEF ProxyOK, Iterate
    <3>2. Pre((Received \o inbox) \o down, Response)
      BY <1>1, <3>1 DEF FlowOK, InFlight
    <3> QED
      BY <1>2, <1>3, <2>2, <3>2, PreConcat
  <2> QED
    BY <2>1, <2>2, ReceivedStep
\* No byte moves, and none is written.
<1>7. ASSUME InFlight' = InFlight, UNCHANGED <<link, ended>>,
             spc' = "dropped" \/ (spc # "dropped" /\ sink' = sink /\ Sent' = Sent)
      PROVE  FlowOK'
  BY <1>1, <1>2, <1>6, <1>7 DEF FlowOK
\* Bytes are handed to the sink.
<1>8. ASSUME NEW bytes \in Str, InFlight' = InFlight, UNCHANGED <<link, ended>>, spc # "dropped",
             sink' = sink \o bytes, Sent' = Sent \o bytes
      PROVE  FlowOK'
  <2>1. InFlight \o (sink \o bytes) = (InFlight \o sink) \o bytes
    <3>1. InFlight \in Str /\ sink \in Str /\ bytes \in Str
      BY <1>3, <1>8
    <3> QED
      BY <3>1, StrAssoc
  <2> QED
    BY <1>1, <1>2, <1>6, <1>8, <2>1 DEF FlowOK
\* The sink is emptied onto the wire.
<1>9. ASSUME NEW bytes \in Str, down' = (down \o sink) \o bytes, sink' = <<>>, Received' = Received,
             UNCHANGED <<link, ended, inbox>>, link = "up", spc # "dropped", spc' # "dropped",
             Sent' = Sent \o bytes
      PROVE  FlowOK'
  <2>1. InFlight' = (InFlight \o sink) \o bytes
    <3> DEFINE front == Received \o inbox
               back == down \o sink
    <3>1. InFlight' = front \o (back \o bytes) /\ InFlight = front \o down
      BY <1>9 DEF InFlight
    <3>2. front \in Str /\ down \in Str /\ sink \in Str /\ bytes \in Str
      BY <1>3, <1>9
    <3>3. back \in Str
      BY <3>2, StrConcat
    <3> HIDE DEF front
    <3>4. front \o back = (front \o down) \o sink
      BY <3>2, StrAssoc, ZenonT(60)
    <3> HIDE DEF back
    <3>5. front \o (back \o bytes) = (front \o back) \o bytes
      BY <3>2, <3>3, StrAssoc, ZenonT(60)
    <3> QED
      BY <3>1, <3>4, <3>5
  <2>2. ended # "reset" => InFlight' = Sent'
    BY <1>1, <1>9, <2>1 DEF FlowOK
  <2>3. Sent' \in Str /\ Pre(Sent', Response')
    <3>1. (TypeOK /\ ProxyOK /\ spc # "dropped" => Sent \in Str /\ Pre(Sent, Response))'
      BY SentIsPrefix, PTL
    <3> QED
      BY <1>1, <1>9, <3>1 DEF Pre
  <2>4. Sent' \o <<>> = Sent'
    BY <1>3, <2>3, StrConcat
  <2> QED
    BY <1>1, <1>6, <1>9, <2>2, <2>3, <2>4 DEF FlowOK
<1>10. CASE ReadRequest \/ Lookup \/ ServerFails \/ TornDown
  <2>1. UNCHANGED <<inbox, down, link, ended>> /\ ~Iterate
    BY <1>10, ReaderStep DEF ReadRequest, Lookup, ServerFails, TornDown, Iterate
  <2>2. InFlight' = InFlight
    BY <2>1, ReceivedStep DEF InFlight
  <2>3. spc' = "dropped" \/ (spc \in {"read", "lookup"} /\ spc' \in {"lookup", "notfound", "status"} /\ sink' = sink)
    BY <1>10 DEF ReadRequest, Lookup, ServerFails, TornDown, Drop
  <2>4. spc \in {"read", "lookup"} => Sent = <<>>
    BY <1>1, SentFacts
  <2> QED
    BY <1>5, <1>7, <2>1, <2>2, <2>3, <2>4
<1>11. CASE WriteStatus \/ WriteLen \/ WritePiece
  <2>1. UNCHANGED <<inbox, down, link, ended>> /\ ~Iterate /\ spc # "dropped"
    BY <1>11 DEF WriteStatus, WriteLen, WritePiece, Iterate, wire
  <2>2. InFlight' = InFlight
    BY <2>1, ReceivedStep DEF InFlight
  <2>3. CASE WriteStatus
    <3>1. sink' = sink \o <<STATUS_OK>> /\ Sent = <<>> /\ Sent' = <<STATUS_OK>>
      BY <1>1, <1>5, <2>3, SentFacts DEF WriteStatus, Write
    <3>2. <<>> \o <<STATUS_OK>> = <<STATUS_OK>>
      BY StatusFacts, StrConcat
    <3> QED
      BY <1>8, <2>1, <2>2, <3>1, <3>2, StatusFacts
  <2>4. CASE WriteLen
    <3> DEFINE bytes == to_be_bytes(stored)
    <3>1. Sendable /\ sink' = sink \o bytes /\ Sent = <<STATUS_OK>> /\ written = 0 /\ written' = 0
      BY <1>1, <2>4, SentFacts DEF WriteLen, Write, ProxyOK
    <3>2. bytes \in Str /\ Header = <<STATUS_OK>> \o bytes /\ Header \in Str
      BY <3>1, HeaderFacts DEF Header
    <3>3. spc' \in {"pieces", "close"}
      BY <2>4 DEF WriteLen
    <3> HIDE DEF bytes
    <3>4. SubSeq(Blob(stored), 1, 0) = <<>>
      BY SubSeqEmpty
    <3>5. Sent' = Header \o <<>>
      BY <1>5, <3>1, <3>3, <3>4
    <3>6. Sent' = Sent \o bytes
      BY <3>1, <3>2, <3>5, StrConcat
    <3> QED
      BY <1>8, <2>1, <2>2, <3>1, <3>2, <3>6
  <2>5. CASE WritePiece
    <3> DEFINE front == SubSeq(Blob(stored), 1, written)
    <3>1. /\ spc = "pieces" /\ spc' = "flush" /\ Sendable /\ NextPiece \in Str /\ front \in Str
          /\ sink' = sink \o NextPiece /\ SubSeq(Blob(stored), 1, written') = front \o NextPiece
      BY <1>1, <2>5, PieceFacts
    <3>2. Sent = Header \o front /\ Header \in Str
      BY <1>1, <3>1, SentFacts, HeaderFacts
    <3> HIDE DEF front
    <3>3. Sent' = Header \o (front \o NextPiece)
      BY <1>5, <3>1
    <3>4. (Header \o front) \o NextPiece = Header \o (front \o NextPiece)
      BY <3>1, <3>2, StrAssoc
    <3> QED
      BY <1>8, <2>1, <2>2, <3>1, <3>2, <3>3, <3>4
  <2> QED
    BY <1>11, <2>3, <2>4, <2>5
<1>12. CASE FlushPiece
  <2>1. /\ UNCHANGED <<link, ended, inbox>> /\ link = "up" /\ spc = "flush" /\ spc' \in {"pieces", "close"}
        /\ down' = down \o sink /\ sink' = <<>> /\ written' = written /\ ~Iterate
    BY <1>12 DEF FlushPiece, Iterate
  <2>2. Sent = Header \o SubSeq(Blob(stored), 1, written) /\ Sent' = Sent
    BY <1>1, <1>5, <2>1, SentFacts
  <2>3. down \o sink \in Str /\ Sent \in Str
    BY <1>3, <1>4, <2>1, StrConcat
  <2>4. (down \o sink) \o <<>> = down \o sink /\ Sent \o <<>> = Sent
    BY <2>3, StrConcat
  <2> QED
    BY <1>3, <1>9, <2>1, <2>2, <2>4, ReceivedStep
<1>13. CASE Close
  <2>1. /\ UNCHANGED <<link, ended, inbox>> /\ link = "up" /\ spc = "close" /\ spc' = "drain"
        /\ down' = (down \o sink) \o <<>> /\ sink' = <<>> /\ written' = written /\ ~Iterate
    BY <1>13 DEF Close, CloseWith, Iterate
  <2>2. Sendable /\ written = stored /\ Sent = Header \o SubSeq(Blob(stored), 1, stored)
    BY <1>1, <2>1, SentFacts DEF ProxyOK
  <2>3. SubSeq(Blob(stored), 1, stored) = Blob(stored)
    <3>1. SubSeq(Blob(stored), 1, Len(Blob(stored))) = Blob(stored)
      BY <2>2, HeaderFacts, SubSeqFull DEF Str
    <3> QED
      BY <2>2, <3>1, HeaderFacts
  <2>4. Sent = Response /\ Sent' = Response
    BY <1>1, <1>5, <2>1, <2>2, <2>3, ResponseFacts DEF TypeOK
  <2>5. Sent' = Sent \o <<>>
    BY <1>3, <2>4, StrConcat
  <2> QED
    BY <1>3, <1>9, <2>1, <2>5, ReceivedStep
<1>14. CASE WriteNotFound
  <2>1. /\ UNCHANGED <<link, ended, inbox>> /\ link = "up" /\ spc = "notfound" /\ spc' = "drain"
        /\ down' = (down \o sink) \o <<STATUS_NOT_FOUND>> /\ sink' = <<>> /\ ~Iterate
    BY <1>14 DEF WriteNotFound, CloseWith, Iterate
  <2>2. Sent = <<>> /\ stored = Missing
    BY <1>1, <2>1, SentFacts DEF ProxyOK
  <2>3. Sent' = <<STATUS_NOT_FOUND>>
    BY <1>1, <1>5, <2>1, <2>2, ResponseFacts DEF TypeOK
  <2>4. <<>> \o <<STATUS_NOT_FOUND>> = <<STATUS_NOT_FOUND>>
    BY StatusFacts, StrConcat
  <2> QED
    BY <1>9, <2>1, <2>2, <2>3, <2>4, StatusFacts, ReceivedStep
<1>15. CASE Drain
  <2>1. /\ UNCHANGED <<inbox, down, link, ended, sink>> /\ ~Iterate
        /\ spc = "drain" /\ spc' \in {"drain", "done"}
    BY <1>15 DEF Drain, Iterate
  <2>2. InFlight' = InFlight
    BY <2>1, ReceivedStep DEF InFlight
  <2>3. Sent = Response /\ Sent' = Response
    BY <1>1, <1>5, <2>1, SentFacts
  <2> QED
    BY <1>7, <2>1, <2>2, <2>3
<1>16. ASSUME UNCHANGED <<stored, spc, written>> PROVE Sent' = Sent
  BY <1>16 DEF Sent
<1>17. CASE Arrive
  <2>1. PICK s \in Str, t \in Str :
          /\ down = s \o t /\ down' = t
          /\ IF Len(inbox) + Len(s) > maxReadBufferLength
             THEN inbox' = <<>> /\ ended' = "reset"
             ELSE inbox' = inbox \o s /\ UNCHANGED ended
    BY <1>1, <1>17, ArriveFacts
  <2>2. UNCHANGED <<link, server>> /\ ended = "no"
    BY <1>17 DEF Arrive
  <2>3. CASE ended' = "reset"
    BY <1>6, <2>3 DEF FlowOK
  <2>4. CASE inbox' = inbox \o s /\ UNCHANGED ended
    <3>1. ~Iterate
      BY <1>17, ReaderStep DEF Arrive, Iterate, Deliver, browser, reader
    <3>2. InFlight' = (Received \o (inbox \o s)) \o t
      BY <2>1, <2>4, <3>1, ReceivedStep DEF InFlight
    <3> DEFINE front == Received \o inbox
    <3>3. Received \o (inbox \o s) = front \o s
      <4>1. Received \in Str /\ inbox \in Str /\ s \in Str
        BY <1>3
      <4> QED
        BY <4>1, StrAssoc
    <3>4. (front \o s) \o t = front \o (s \o t)
      <4>1. front \in Str /\ s \in Str /\ t \in Str
        BY <1>3
      <4> HIDE DEF front
      <4> QED
        BY <4>1, StrAssoc
    <3>5. InFlight' = InFlight
      BY <2>1, <3>2, <3>3, <3>4 DEF InFlight
    <3>6. Sent' = Sent
      BY <1>2, <1>16, <2>2 DEF server
    <3> QED
      BY <1>7, <2>2, <2>4, <3>5, <3>6 DEF server
  <2> QED
    BY <2>1, <2>3, <2>4
<1>18. CASE EndArrives \/ LinkDown
  <2>1. CASE ended' = "reset"
    BY <1>6, <2>1 DEF FlowOK
  <2>2. CASE ended' # "reset"
    <3>1. EndArrives /\ UNCHANGED <<down, inbox, link, server, browser>> /\ ended # "reset" /\ tail = "FIN"
      BY <1>18, <2>2 DEF EndArrives, LinkDown
    <3>2. ~Iterate
      BY <3>1 DEF Iterate, Deliver, EndArrives, browser, reader
    <3>3. InFlight' = InFlight
      BY <3>1, <3>2, ReceivedStep DEF InFlight
    <3>4. Sent' = Sent /\ sink' = sink /\ spc' = spc
      BY <1>2, <1>16, <3>1 DEF server
    <3> QED
      BY <1>1, <1>2, <1>6, <3>1, <3>3, <3>4 DEF FlowOK
  <2> QED
    BY <2>1, <2>2
<1>19. CASE Iterate
  <2>1. UNCHANGED <<link, server, down, ended>> /\ inbox' = <<>>
    BY <1>19 DEF Iterate
  <2>2. InFlight' = ((Received \o inbox) \o <<>>) \o down
    BY <1>19, <2>1, ReceivedStep DEF InFlight
  <2>3. (Received \o inbox) \o <<>> = Received \o inbox
    BY <1>3, StrConcat
  <2>4. InFlight' = InFlight
    BY <2>2, <2>3 DEF InFlight
  <2>5. Sent' = Sent /\ sink' = sink /\ spc' = spc
    BY <1>2, <1>16, <2>1 DEF server
  <2> QED
    BY <1>7, <2>1, <2>4, <2>5
<1>20. CASE \/ IterateEmpty \/ IterateFails \/ Copy \/ Send \/ ReadFails \/ ReadStatus
            \/ ReadHeader \/ ReadBody \/ UNCHANGED vars
  <2>1. UNCHANGED <<link, spc, written, sink, down, ended, inbox>>
    BY <1>20 DEF IterateEmpty, IterateFails, Copy, Send, ReadFails, ReadStatus, ReadHeader,
                 ReadBody, server, wire, vars
  <2>2. ~Iterate
    BY <2>1 DEF Iterate
  <2>3. InFlight' = InFlight /\ Sent' = Sent
    BY <1>2, <1>16, <2>1, <2>2, ReceivedStep DEF InFlight
  <2> QED
    BY <1>1, <1>7, <2>1, <2>3
<1> QED
  BY <1>10, <1>11, <1>12, <1>13, <1>14, <1>15, <1>17, <1>18, <1>19, <1>20
     DEF Next, Proxy, Transport, Browser

\* Every step keeps the invariant of getChunk().
LEMMA BrowserStep ==
  ASSUME Inv, [Next]_vars
  PROVE  BrowserOK'
<1>1. TypeOK /\ ProxyOK /\ BrowserOK /\ ReaderOK
  BY DEF Inv, TypeOK
<1>2. stored' = stored /\ Header' = Header /\ (Sendable' <=> Sendable) /\ Blob(stored') = Blob(stored)
  BY StoredIsFixed
<1>3. CASE Send
  <2>1. CASE ended = "no"
    <3>1. cpc' = "status" /\ rpc' = "fill" /\ wanted' = 1 /\ returned' = returned /\ cpc = "send"
      BY <1>3, <2>1 DEF Send, Call
    <3>2. returned' = <<>>
      BY <1>1, <3>1 DEF BrowserOK
    <3> QED
      BY <3>1, <3>2 DEF BrowserOK
  <2>2. CASE ended # "no"
    <3>1. cpc' = "error"
      BY <1>3, <2>2 DEF Send, Settle
    <3> QED
      BY <3>1 DEF BrowserOK
  <2> QED
    BY <2>1, <2>2
\* The read goes on.
<1>4. CASE \/ Iterate \/ IterateEmpty \/ IterateFails
           \/ Copy /\ (StartCopy \/ CopyPiece)
  <2>1. rpc # "idle" /\ rpc' # "idle" /\ UNCHANGED <<cpc, returned, wanted, got>>
    BY <1>4 DEF Iterate, IterateEmpty, IterateFails, Copy, Deliver, EndOfStream, StartCopy, CopyPiece
  <2> QED
    BY <1>1, <1>2, <2>1 DEF BrowserOK
\* The read returns.
<1>5. CASE Copy /\ Return
  <2>1. /\ rpc = "copy" /\ rpc' = "idle" /\ wanted' = wanted /\ UNCHANGED <<cpc, got>>
        /\ returned' = returned \o last' /\ Len(last') = wanted /\ last' \in Str
    BY <1>1, <1>5, ReturnStep DEF Copy, Return
  <2>2. <<>> \o last' = last'
    BY <2>1, StrConcat
  <2> QED
    BY <1>1, <1>2, <2>1, <2>2 DEF BrowserOK
<1>6. CASE ReadFails
  BY <1>6 DEF ReadFails, Settle, BrowserOK
<1>7. CASE ReadStatus
  <2>1. CASE stored = Missing /\ Head(last) = STATUS_NOT_FOUND
    <3>1. cpc' = "null"
      BY <1>7, <2>1, StatusFacts DEF ReadStatus, Settle
    <3> QED
      BY <1>2, <2>1, <3>1 DEF BrowserOK
  <2>2. CASE Sendable /\ Head(last) = STATUS_OK /\ returned = <<STATUS_OK>>
    <3>1. cpc' = "header" /\ Call(LenBytes)
      BY <1>7, <2>2, StatusFacts DEF ReadStatus
    <3>2. rpc' = "fill" /\ wanted' = LenBytes /\ returned' = returned
      BY <3>1 DEF Call
    <3> QED
      BY <1>2, <2>2, <3>1, <3>2 DEF BrowserOK
  <2> QED
    BY <1>7, <2>1, <2>2, StatusIsRead DEF ReadStatus
<1>8. CASE ReadHeader
  <2>1. Sendable /\ returned = Header /\ getUint32(last) = stored
    BY <1>8, HeaderIsRead DEF ReadHeader
  <2>2. ~(stored > MAX_RESPONSE_LEN)
    BY <2>1, FetchAssumption DEF Sendable
  <2>3. cpc' = "body" /\ Call(stored)
    BY <1>8, <2>1, <2>2 DEF ReadHeader
  <2>4. rpc' = "fill" /\ wanted' = stored /\ returned' = returned
    BY <2>3 DEF Call
  <2> QED
    BY <1>2, <2>1, <2>3, <2>4 DEF BrowserOK
<1>9. CASE ReadBody
  <2>1. Sendable /\ last = Blob(stored)
    BY <1>9, BodyIsRead DEF ReadBody
  <2>2. cpc' = "bytes" /\ got' = Blob(stored)
    BY <1>9, <2>1 DEF ReadBody, Settle
  <2> QED
    BY <1>2, <2>1, <2>2 DEF BrowserOK
<1>10. CASE UNCHANGED browser
  BY <1>1, <1>2, <1>10 DEF BrowserOK, browser, reader
<1>11. [Next]_vars =>
         \/ Send \/ Iterate \/ IterateEmpty \/ IterateFails \/ Copy \/ ReadFails \/ ReadStatus
         \/ ReadHeader \/ ReadBody \/ UNCHANGED browser
  BY DEF Next, Proxy, Transport, Browser, ReadRequest, Lookup, WriteStatus, WriteLen, WritePiece,
         FlushPiece, Close, WriteNotFound, CloseWith, Drain, ServerFails, TornDown, Arrive,
         EndArrives, LinkDown, browser, vars, reader
<1> QED
  BY <1>3, <1>4, <1>5, <1>6, <1>7, <1>8, <1>9, <1>10, <1>11 DEF Copy, Copying

\* A read of a request that can be served never meets the end of the stream:
\* when the EOF arrives, the reader holds all it was asked for.
LEMMA EndIsNotEarly ==
  ASSUME Inv, Served, ended = "eof", link = "up", inbox = <<>>, cpc \in {"status", "header", "body"},
         rpc = "fill"
  PROVE  queued >= wanted
<1>1. TypeOK /\ ProxyOK /\ FlowOK /\ BrowserOK /\ ReaderOK /\ stored \in GetResults
  BY DEF Inv, TypeOK
<1>2. /\ spc \in {"drain", "done"} /\ sink = <<>> /\ down = <<>>
  BY <1>1 DEF ProxyOK
<1>3. Sent = Response /\ InFlight \o sink = Sent
  BY <1>1, <1>2, SentFacts DEF FlowOK
<1>4. Received = Response
  <2>1. Received \in Str
    BY <1>1, HeldType
  <2>2. Received \o <<>> = Received
    BY <2>1, StrConcat
  <2> QED
    BY <1>2, <1>3, <2>2 DEF InFlight
<1>5. returned \in Str /\ Held \in Str
  BY <1>1, HeldType DEF ReaderOK
<1>6. /\ Len(Response) = Len(returned) + Len(Held) /\ queued = Len(Held)
      /\ Len(returned) \in Nat /\ Len(Held) \in Nat
  BY <1>1, <1>4, <1>5, StrConcat DEF Received, ReaderOK
<1>7. LenBytes \in Nat
  BY FetchAssumption
<1>8. CASE cpc = "status"
  <2>1. returned = <<>> /\ wanted = 1
    BY <1>1, <1>8 DEF BrowserOK
  <2>2. Len(returned) = 0
    BY <2>1
  <2>3. CASE stored = Missing
    <3>1. Len(Response) = 1
      BY <1>1, <2>3, ResponseFacts, StatusFacts
    <3> QED
      BY <1>6, <2>1, <2>2, <3>1
  <2>4. CASE Sendable
    <3>1. Len(Response) = 1 + LenBytes + stored /\ stored \in Nat
      BY <1>1, <2>4, ResponseFacts, HeaderFacts
    <3> QED
      BY <1>6, <1>7, <2>1, <2>2, <3>1
  <2> QED
    BY <2>3, <2>4 DEF Served
<1>9. CASE cpc = "header"
  <2>1. Sendable /\ wanted = LenBytes /\ returned = <<STATUS_OK>>
    BY <1>1, <1>9 DEF BrowserOK
  <2>2. Len(returned) = 1 /\ Len(Response) = 1 + LenBytes + stored /\ stored \in Nat
    BY <1>1, <2>1, ResponseFacts, HeaderFacts, StatusFacts
  <2> QED
    BY <1>6, <1>7, <2>1, <2>2
<1>10. CASE cpc = "body"
  <2>1. Sendable /\ wanted = stored /\ returned = Header
    BY <1>1, <1>10 DEF BrowserOK
  <2>2. Len(returned) = 1 + LenBytes /\ Len(Response) = 1 + LenBytes + stored /\ stored \in Nat
    BY <1>1, <2>1, ResponseFacts, HeaderFacts
  <2> QED
    BY <1>6, <1>7, <2>1, <2>2
<1> QED
  BY <1>8, <1>9, <1>10

\* The read buffer does not overflow: it has room for the whole response.
LEMMA BufferHasRoom ==
  ASSUME Inv, ended # "reset", NEW s \in Str, NEW t \in Str, down = s \o t
  PROVE  Len(inbox) + Len(s) <= maxReadBufferLength
<1>1. TypeOK /\ FlowOK /\ ReaderOK /\ stored \in GetResults
  BY DEF Inv, TypeOK
<1>2. Received \in Str /\ inbox \in Str /\ down \in Str
  BY <1>1, HeldType DEF TypeOK
<1>3. Received \o inbox \in Str /\ Len(Received \o inbox) = Len(Received) + Len(inbox)
  BY <1>2, StrConcat
<1>4. InFlight \in Str /\ Len(InFlight) = Len(Received \o inbox) + Len(down)
  BY <1>2, <1>3, StrConcat DEF InFlight
<1>5. Len(InFlight) <= Len(Response) /\ Len(Response) <= maxReadBufferLength
  BY <1>1, <1>4, PreLen, ResponseFacts DEF FlowOK
<1>6. Len(down) = Len(s) + Len(t) /\ Len(s) \in Nat /\ Len(t) \in Nat
  BY StrConcat
<1>7. Len(Received) \in Nat /\ Len(inbox) \in Nat /\ Len(Response) \in Nat
  BY <1>1, <1>2, ResponseFacts, StrConcat
<1>8. maxReadBufferLength \in Nat
  BY FetchAssumption DEF maxReadBufferLength
<1> QED
  BY <1>3, <1>4, <1>5, <1>6, <1>7, <1>8

\* While the link is up, a request that can be served is not lost: kept by every step.
LEMMA ServiceStep ==
  ASSUME Inv, [Next]_vars
  PROVE  ServiceOK'
<1>1. TypeOK /\ ProxyOK /\ BrowserOK /\ ServiceOK
  BY DEF Inv
<1>2. stored' = stored /\ (Served' <=> Served)
  BY StoredIsFixed
<1>3. CASE ReadRequest
  <2>1. CASE Settled
    BY <1>1, <1>2, <1>3, <2>1 DEF ReadRequest, ServiceOK, Settled, browser
  <2>2. CASE ~Settled /\ link = "up"
    <3>1. up = <<"request">> /\ cpc # "send" /\ spc = "read"
      BY <1>1, <1>3, <2>2 DEF ServiceOK, ReadRequest
    <3>2. Head(up) = "request" /\ Tail(up) = <<>>
      BY <3>1
    <3>3. spc' = "lookup" /\ up' = <<>> /\ UNCHANGED <<ended, browser>>
      BY <1>3, <3>2 DEF ReadRequest
    <3> QED
      BY <1>1, <1>2, <2>2, <3>1, <3>3 DEF ServiceOK, Settled, browser, reader
  <2>3. CASE link # "up"
    BY <1>3, <2>3 DEF ReadRequest, ServiceOK
  <2> QED
    BY <2>1, <2>2, <2>3
<1>4. CASE Lookup
  <2>1. /\ spc = "lookup" /\ spc' # "read" /\ UNCHANGED <<link, up, ended, browser>>
        /\ (spc' = "dropped" => ~Served)
    <3>1. stored \in Nat \cup {Missing, SourceError} /\ MAX_RESPONSE_LEN \in Nat /\ SourceError \notin Nat
      BY <1>1, FetchAssumption DEF TypeOK, GetResults
    <3> QED
      BY <1>4, <3>1, FetchAssumption DEF Lookup, Drop, Served, Sendable
  <2> QED
    BY <1>1, <1>2, <2>1 DEF ServiceOK, Settled, browser, reader
<1>5. CASE WriteStatus \/ WriteLen \/ WritePiece \/ FlushPiece \/ Close \/ WriteNotFound
  <2>1. /\ spc \in Writing /\ spc' \notin {"read", "dropped"} /\ UNCHANGED <<link, up, ended, browser>>
    BY <1>5 DEF WriteStatus, WriteLen, WritePiece, FlushPiece, Close, WriteNotFound, CloseWith,
                Writing, wire
  <2> QED
    BY <1>1, <1>2, <2>1 DEF ServiceOK, Settled, Writing, browser, reader
<1>6. CASE Drain
  <2>1. Settled \/ link # "up"
    BY <1>1, <1>6 DEF ServiceOK, Drain
  <2> QED
    BY <1>1, <1>2, <1>6, <2>1 DEF Drain, ServiceOK, Settled, browser
<1>7. CASE ServerFails
  BY <1>7 DEF ServerFails, ServiceOK
<1>8. CASE TornDown
  <2>1. Settled \/ link # "up"
    BY <1>1, <1>8 DEF ServiceOK, TornDown, Writing
  <2> QED
    BY <1>1, <1>2, <1>8, <2>1 DEF TornDown, ServiceOK, Settled, browser
<1>9. CASE Arrive
  <2>1. UNCHANGED <<link, spc, up, browser>> /\ ended' # "reset"
    <3>1. PICK s \in Str, t \in Str :
            /\ down = s \o t /\ down' = t
            /\ IF Len(inbox) + Len(s) > maxReadBufferLength
               THEN inbox' = <<>> /\ ended' = "reset"
               ELSE inbox' = inbox \o s /\ UNCHANGED ended
      BY <1>1, <1>9, ArriveFacts
    <3>2. ended = "no"
      BY <1>9 DEF Arrive
    <3>3. Len(inbox) + Len(s) <= maxReadBufferLength
      BY <3>1, <3>2, BufferHasRoom
    <3>4. Len(inbox) \in Nat /\ Len(s) \in Nat /\ maxReadBufferLength \in Nat
      BY <1>1, StrConcat, FetchAssumption DEF TypeOK, maxReadBufferLength
    <3>5. ~(Len(inbox) + Len(s) > maxReadBufferLength)
      BY <3>3, <3>4
    <3> QED
      BY <1>9, <3>1, <3>2, <3>5 DEF Arrive, server
  <2> QED
    BY <1>1, <1>2, <2>1 DEF ServiceOK, Settled, browser, reader
<1>10. CASE EndArrives
  <2>1. /\ UNCHANGED <<link, spc, up, browser>>
        /\ (ended' = "reset" => spc = "dropped")
    BY <1>1, <1>10 DEF EndArrives, ProxyOK, TypeOK, server
  <2> QED
    BY <1>1, <1>2, <2>1 DEF ServiceOK, Settled, browser, reader
<1>11. CASE LinkDown
  BY <1>11 DEF LinkDown, ServiceOK
<1>12. CASE Send
  <2>1. cpc = "send" /\ UNCHANGED <<link, spc, ended>> /\ ~Settled
    BY <1>12 DEF Send, server, Settled
  <2>2. CASE link # "up"
    BY <2>1, <2>2 DEF ServiceOK
  <2>3. CASE link = "up" /\ ended = "no"
    <3>1. spc = "read" /\ up = <<>>
      BY <1>1, <2>1, <2>3 DEF ServiceOK
    <3>2. cpc' = "status" /\ up' = Append(up, "request") /\ rpc' = "fill"
      BY <1>12, <2>3 DEF Send, Call
    <3>3. up' = <<"request">>
      BY <3>1, <3>2
    <3> QED
      BY <1>1, <1>2, <2>1, <2>3, <3>1, <3>2, <3>3 DEF ServiceOK, Settled
  <2>4. CASE link = "up" /\ ended # "no"
    <3>1. cpc' = "error"
      BY <1>12, <2>4 DEF Send, Settle
    <3>2. spc = "read" /\ (Served => ended # "reset")
      BY <1>1, <2>1, <2>4 DEF ServiceOK
    <3>3. ended # "eof"
      BY <1>1, <3>2 DEF ProxyOK
    <3>4. ~Served
      BY <1>1, <2>4, <3>2, <3>3 DEF TypeOK
    <3> QED
      BY <1>2, <3>1, <3>4 DEF ServiceOK, Settled
  <2> QED
    BY <2>2, <2>3, <2>4
<1>13. CASE Iterate \/ IterateEmpty \/ Copy
  <2>1. UNCHANGED <<link, spc, up, ended, cpc>> /\ rpc' # "failed"
    BY <1>13 DEF Iterate, IterateEmpty, Copy, Deliver, Copying, StartCopy, CopyPiece, Return, server, wire
  <2> QED
    BY <1>1, <1>2, <2>1 DEF ServiceOK, Settled
<1>14. CASE IterateFails
  <2>1. /\ UNCHANGED <<link, spc, up, ended, cpc>> /\ inbox = <<>> /\ ended # "no"
        /\ rpc = "fill" /\ ~(queued >= wanted)
    BY <1>14 DEF IterateFails, EndOfStream, Enough, server, wire
  <2>2. ~(Served /\ ~Settled /\ link = "up")
    <3>1. SUFFICES ASSUME Served, ~Settled, link = "up" PROVE FALSE
      OBVIOUS
    <3>2. ended = "eof"
      BY <1>1, <2>1, <3>1 DEF ServiceOK, TypeOK
    <3>3. cpc \in {"status", "header", "body"}
      BY <1>1, <2>1, <3>1 DEF BrowserOK, TypeOK, Settled
    <3> QED
      BY <2>1, <3>1, <3>2, <3>3, EndIsNotEarly
  <2> QED
    BY <1>1, <1>2, <2>1, <2>2 DEF ServiceOK, Settled
<1>15. CASE ReadFails
  <2>1. cpc' = "error" /\ UNCHANGED link /\ (link = "up" => ~Served)
    BY <1>1, <1>15 DEF ReadFails, Settle, ServiceOK
  <2> QED
    BY <1>2, <2>1 DEF ServiceOK, Settled
<1>16. CASE ReadStatus
  <2>1. UNCHANGED <<link, spc, ended>> /\ cpc = "status"
    BY <1>16 DEF ReadStatus, server
  <2>2. cpc' = "null" \/ (cpc' = "header" /\ up' = up /\ rpc' = "fill")
    BY <1>16, StatusIsRead, StatusFacts DEF ReadStatus, Settle, Call
  <2> QED
    BY <1>1, <1>2, <2>1, <2>2 DEF ServiceOK, Settled
<1>17. CASE ReadHeader
  <2>1. UNCHANGED <<link, spc, ended>> /\ cpc = "header"
    BY <1>17 DEF ReadHeader, server
  <2>2. Sendable /\ getUint32(last) = stored
    BY <1>17, HeaderIsRead DEF ReadHeader
  <2>3. ~(stored > MAX_RESPONSE_LEN)
    BY <2>2, FetchAssumption DEF Sendable
  <2>4. cpc' = "body" /\ up' = up /\ rpc' = "fill"
    BY <1>17, <2>2, <2>3 DEF ReadHeader, Call
  <2> QED
    BY <1>1, <1>2, <2>1, <2>4 DEF ServiceOK, Settled
<1>18. CASE ReadBody
  <2>1. UNCHANGED link /\ cpc' = "bytes"
    BY <1>18 DEF ReadBody, Settle
  <2> QED
    BY <2>1 DEF ServiceOK, Settled
<1>19. CASE UNCHANGED vars
  BY <1>1, <1>2, <1>19 DEF vars, reader, ServiceOK, Settled
<1> QED
  BY <1>3, <1>4, <1>5, <1>6, <1>7, <1>8, <1>9, <1>10, <1>11, <1>12, <1>13, <1>14, <1>15, <1>16,
     <1>17, <1>18, <1>19
     DEF Next, Proxy, Transport, Browser

-----------------------------------------------------------------------------
(* The theorems. *)

\* The invariant holds before the request is opened.
LEMMA InitialState ==
  ASSUME Init
  PROVE  Inv /\ Held = <<>> /\ last = <<>>
<1>1. <<>> \in Str /\ Len(<<>>) = 0 /\ <<>> \o <<>> = <<>> /\ <<>> \in Seq(Str)
  <2>1. <<>> \in Str /\ <<>> \in Seq(Str)
    BY EmptySeq DEF Str
  <2> QED
    BY <2>1, StrConcat
<1>2. FlattenSeq(queue) = <<>>
  BY FlattenEmpty DEF Init, ReaderInit
<1>3. Held = <<>> /\ Received = <<>> /\ InFlight = <<>> /\ InFlight \o sink = <<>>
  BY <1>1, <1>2 DEF Init, ReaderInit, Held, Pending, Received, InFlight
<1>4. ReaderOK
  BY <1>1, <1>3 DEF Init, ReaderInit, ReaderOK
<1>5. TypeOK
  BY <1>1, <1>4, EmptySeq DEF Init, TypeOK
<1>6. ProxyOK
  BY DEF Init, ProxyOK
<1>7. FlowOK
  <2>1. Sent = <<>>
    BY <1>5, <1>6, SentFacts DEF Init
  <2>2. Response \in Str
    BY <1>5, ResponseFacts DEF TypeOK
  <2>3. <<>> \o Response = Response
    BY <2>2, StrConcat
  <2> QED
    BY <1>3, <2>1, <2>2, <2>3 DEF FlowOK, Pre
<1>8. BrowserOK /\ ServiceOK
  BY DEF Init, ReaderInit, BrowserOK, ServiceOK, Settled
<1> QED
  BY <1>3, <1>5, <1>6, <1>7, <1>8 DEF Inv, Init, ReaderInit

\* The invariant holds in every state of a request, for every size of the
\* blob, of a message and of the length field.
THEOREM RequestInvariant == Spec => []Inv
<1>1. Init => Inv
  BY InitialState
<1>2. Inv /\ [Next]_vars => Inv'
  BY TypeStep, ProxyStep, FlowStep, BrowserStep, ServiceStep DEF Inv
<1> QED
  BY <1>1, <1>2, PTL DEF Spec

\* What getChunk() settles with is what the proxy's source holds: the whole
\* blob, or null only for a blob that is not there.
THEOREM AnswersAreTrue == Spec => []AnswerIsTrue
<1>1. Inv => AnswerIsTrue
  BY HeaderFacts DEF Inv, BrowserOK, AnswerIsTrue
<1> QED
  BY <1>1, RequestInvariant, PTL

\* On a connection that stays up, a request that handle_request can serve does
\* not end in an error: no reset, early EOF or full read buffer gets in its way.
THEOREM ServedIsAlwaysReceived == Spec => []ServedIsReceived
<1>1. Inv => ServedIsReceived
  BY DEF Inv, ServiceOK, ServedIsReceived, Served, Sendable
<1> QED
  BY <1>1, RequestInvariant, PTL

\* The bytes in the sink, on the wire, in the read buffer and in the reader
\* are, joined, what the proxy wrote, and what the reader has is a prefix of
\* the response even on a broken stream.
THEOREM BytesAreNotLost == Spec => []NothingLost
<1>1. ASSUME Inv PROVE NothingLost
  <2>1. ReaderOK /\ FlowOK /\ stored \in GetResults
    BY <1>1 DEF Inv, TypeOK
  <2>2. /\ returned \in Str /\ Pending \in Str /\ FlattenSeq(queue) \in Str
        /\ Received \in Str /\ Response \in Str
    BY <2>1, HeldType, ResponseFacts DEF ReaderOK
  <2>3. (returned \o Pending) \o FlattenSeq(queue) = Received
    <3>1. returned \in Str /\ Pending \in Str /\ FlattenSeq(queue) \in Str
      BY <2>2
    <3>2. (returned \o Pending) \o FlattenSeq(queue) = returned \o (Pending \o FlattenSeq(queue))
      BY <3>1, StrAssoc
    <3> QED
      BY <3>2 DEF Received, Held
  <2>4. IsPrefix(Received, Response)
    BY <2>1, <2>2, PreIsPrefix DEF FlowOK
  <2> QED
    BY <2>1, <2>3, <2>4 DEF NothingLost, FlowOK, InFlight
<1> QED
  BY <1>1, RequestInvariant, PTL

\* Every step of the reader is one of the buffer or invisible to its caller.
LEMMA BufferStep ==
  ASSUME Inv, [Next]_vars
  PROVE  [Buffer!Next]_(Buffer!vars)
<1>1. ReaderOK /\ inbox \in Str /\ Held \in Str
  BY HeldType DEF Inv, TypeOK
<1>2. CASE Quiet
  BY <1>2 DEF Quiet, Held, Buffer!vars
<1>3. CASE Held' = Held \o inbox /\ last' = last
  <2>1. Held' \in Str /\ Len(Held') = Len(Held) + Len(inbox) /\ Len(Held) \in Nat /\ Len(inbox) \in Nat
    BY <1>1, <1>3, StrConcat
  <2>2. Len(Held') >= Len(Held) /\ Len(Held) \in 0..Len(Held')
    BY <2>1
  <2> DEFINE front == SubSeq(Held', 1, Len(Held))
             back == SubSeq(Held', Len(Held) + 1, Len(Held'))
  <2>3. front \in Str /\ back \in Str /\ Len(front) = Len(Held) /\ Held' = front \o back
    BY <2>1, <2>2, CutInTwo, ZenonT(30) DEF Str
  <2> HIDE DEF front, back
  <2>4. front = Held
    BY <1>1, <1>3, <2>3, StrCut
  <2>5. Buffer!Deliver
    BY <1>3, <2>2, <2>4 DEF Buffer!Deliver, Held, front
  <2> QED
    BY <2>5 DEF Buffer!Next
<1>4. CASE Return
  <2>1. Held = last' \o Held' /\ Held' \in Str /\ last' \in Str
    BY <1>1, <1>4, ReturnStep
  <2> DEFINE n == Len(last')
             front == SubSeq(Held, 1, n)
             back == SubSeq(Held, n + 1, Len(Held))
  <2>2. n \in 0..Len(Held)
    <3>1. Len(Held) = Len(last') + Len(Held') /\ Len(last') \in Nat /\ Len(Held') \in Nat
      BY <2>1, StrConcat
    <3> QED
      BY <3>1
  <2> HIDE DEF n
  <2>3. front \in Str /\ back \in Str /\ Len(front) = n /\ Held = front \o back
    BY <1>1, <2>2, CutInTwo, ZenonT(60) DEF Str
  <2> HIDE DEF front, back
  <2>4. last' = front /\ Held' = back
    BY <2>1, <2>3, StrCut, ZenonT(30) DEF n
  <2>5. Buffer!Read
    BY <2>2, <2>4 DEF Buffer!Read, Held, front, back
  <2> QED
    BY <2>5 DEF Buffer!Next
<1> QED
  BY <1>2, <1>3, <1>4, ReaderStep

\* exactReader(), driven by getChunk() and the stream, implements a plain
\* buffer of bytes, ByteBuffer.
THEOREM ReaderImplementsBuffer == Spec => ImplementsBuffer
<1>1. Init => Buffer!Init
  BY InitialState DEF Buffer!Init, Held
<1>2. Inv /\ [Next]_vars => [Buffer!Next]_(Buffer!vars)
  BY BufferStep
<1> QED
  BY <1>1, <1>2, RequestInvariant, PTL DEF Spec, ImplementsBuffer, Buffer!Spec

=============================================================================
