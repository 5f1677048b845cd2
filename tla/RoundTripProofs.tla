--------------------------- MODULE RoundTripProofs ---------------------------
(***************************************************************************)
(* From the input field to the file, for every text, every length of an    *)
(* address, every network and every proxy: the parser does not panic and   *)
(* agrees with the page, the address is the one that was typed, records    *)
(* cross the wasm boundary whole, and what a download returns for the      *)
(* address of a published file is that file.                               *)
(***************************************************************************)
EXTENDS RoundTrip, RetrievalProofs

-----------------------------------------------------------------------------
(* Trimming. *)

\* What a trim keeps is a piece of the text that starts and ends with a
\* character it does not strip.
LEMMA TrimFacts ==
  ASSUME NEW S, NEW str \in Seq(S), NEW white
  PROVE  LET t == Trimmed(str, white)
         IN  /\ t \in Seq(S)
             /\ \A i \in 1..Len(t) : \E k \in 1..Len(str) : t[i] = str[k]
             /\ t # <<>> => t[1] \notin white /\ t[Len(t)] \notin white
<1> DEFINE kept == {i \in 1..Len(str) : str[i] \notin white}
           t == Trimmed(str, white)
<1>1. Len(str) \in Nat /\ \A i \in 1..Len(str) : str[i] \in S
  BY LenProperties, ElementOfSeq
<1>2. CASE kept = {}
  <2>1. t = <<>>
    BY <1>2 DEF Trimmed
  <2>2. t \in Seq(S) /\ Len(t) = 0
    BY <2>1, EmptySeq
  <2> QED
    BY <2>1, <2>2
<1>3. CASE kept # {}
  <2> DEFINE m == Min(kept)
             n == Max(kept)
  <2>1. t = SubSeq(str, m, n)
    BY <1>3 DEF Trimmed
  <2>2. kept \in SUBSET Nat /\ kept \in SUBSET (1..Len(str))
    BY <1>1
  <2>3. m \in kept /\ \A y \in kept : m <= y
    <3> HIDE DEF kept
    <3> QED
      BY <1>3, <2>2, MinIsLeast, Zenon
  <2>4. n \in kept
    <3> HIDE DEF kept
    <3> QED
      BY <1>1, <1>3, <2>2, MaxIsGreatest, Zenon
  <2>5. /\ m \in 1..Len(str) /\ n \in 1..Len(str) /\ m <= n
        /\ str[m] \notin white /\ str[n] \notin white
    BY <2>3, <2>4
  <2> HIDE DEF kept, t, m, n
  <2>6. \A i \in m..n : str[i] \in S
    BY <1>1, <2>5
  <2>7. t \in Seq(S) /\ Len(t) = n - m + 1 /\ \A i \in 1..(n - m + 1) : t[i] = str[m + i - 1]
    BY <1>1, <2>1, <2>5, <2>6, SubSeqProperties
  <2>8. \A i \in 1..Len(t) : m + i - 1 \in 1..Len(str) /\ t[i] = str[m + i - 1]
    BY <1>1, <2>5, <2>7
  <2>9. t[1] = str[m] /\ t[Len(t)] = str[n]
    <3>1. 1 \in 1..(n - m + 1) /\ n - m + 1 \in 1..(n - m + 1)
          /\ m + 1 - 1 = m /\ m + (n - m + 1) - 1 = n
      BY <1>1, <2>5
    <3> QED
      BY <2>7, <3>1
  <2> QED
    BY <2>5, <2>7, <2>8, <2>9 DEF t
<1> QED
  BY <1>2, <1>3

\* A text that has nothing to strip at either end is left alone.
LEMMA TrimNothing ==
  ASSUME NEW S, NEW str \in Seq(S), NEW white,
         str # <<>> => str[1] \notin white /\ str[Len(str)] \notin white
  PROVE  Trimmed(str, white) = str
<1> DEFINE kept == {i \in 1..Len(str) : str[i] \notin white}
<1>1. Len(str) \in Nat
  BY LenProperties
<1>2. CASE str = <<>>
  <2>1. kept = {}
    BY <1>2
  <2> QED
    BY <1>2, <2>1 DEF Trimmed
<1>3. CASE str # <<>>
  <2>1. Len(str) # 0
    BY <1>3, EmptySeq
  <2>2. 1 \in kept /\ Len(str) \in kept
    BY <1>1, <1>3, <2>1
  <2>3. kept # {} /\ kept \in SUBSET Nat /\ kept \in SUBSET (1..Len(str))
    BY <1>1, <2>2
  <2>4. \A y \in kept : 1 <= y /\ y <= Len(str)
    OBVIOUS
  <2>5. Trimmed(str, white) = SubSeq(str, Min(kept), Max(kept))
    BY <2>3 DEF Trimmed
  <2> HIDE DEF kept
  <2>6. Min(kept) \in kept /\ \A y \in kept : Min(kept) <= y
    BY <2>3, MinIsLeast, Zenon
  <2>7. Max(kept) \in kept /\ \A y \in kept : y <= Max(kept)
    BY <1>1, <2>3, MaxIsGreatest, Zenon
  <2>8. Min(kept) = 1 /\ Max(kept) = Len(str)
    <3>1. Min(kept) \in Nat /\ Min(kept) <= 1 /\ 1 <= Min(kept)
      BY <2>2, <2>3, <2>4, <2>6
    <3>2. Max(kept) \in Nat /\ Max(kept) <= Len(str) /\ Len(str) <= Max(kept)
      BY <2>2, <2>3, <2>4, <2>7
    <3> QED
      BY <1>1, <3>1, <3>2
  <2> QED
    BY <2>5, <2>8, SubSeqFull
<1> QED
  BY <1>2, <1>3

-----------------------------------------------------------------------------
(* Digits, pairs and the parser. *)

HexByte == Digits \cup Lower \cup Upper

\* A text of the length of an address that consists of hex digits.
HexText(t) ==
  /\ t \in Seq(Seq(Byte))
  /\ Len(t) = 2 * ADDRESS_LEN
  /\ \A i \in 1..Len(t) : Len(t[i]) = 1 /\ t[i][1] \in HexByte

\* hex_digit accepts the digits and nothing else.
LEMMA DigitFacts ==
  ASSUME NEW byte \in Byte
  PROVE  /\ byte \in HexByte => hex_digit(byte) \in 0..15
         /\ hex_digit(byte) # -1 => byte \in HexByte
<1>1. CASE byte \in Digits
  BY <1>1 DEF HexByte, hex_digit, Digits, Lower, Upper
<1>2. CASE byte \in Lower
  BY <1>2 DEF HexByte, hex_digit, Digits, Lower, Upper
<1>3. CASE byte \in Upper
  BY <1>3 DEF HexByte, hex_digit, Digits, Lower, Upper
<1>4. CASE byte \notin HexByte
  BY <1>4 DEF HexByte, hex_digit
<1> QED
  BY <1>1, <1>2, <1>3, <1>4 DEF HexByte

\* chunks(2) of an even number of bytes gives whole pairs.
LEMMA PairFacts ==
  ASSUME NEW n \in Nat, NEW bytes \in Seq(Byte), Len(bytes) = 2 * n
  PROVE  /\ Pairs(bytes) \in Seq(Seq(Byte)) /\ Len(Pairs(bytes)) = n
         /\ \A i \in 1..n : /\ Len(Pairs(bytes)[i]) = 2
                            /\ Pairs(bytes)[i][1] = bytes[2 * i - 1]
                            /\ Pairs(bytes)[i][2] = bytes[2 * i]
<1>1. (Len(bytes) + 1) \div 2 = n
  BY SMT
<1>2. \A i \in 1..Len(bytes) : bytes[i] \in Byte
  BY ElementOfSeq
<1>3. ASSUME NEW i \in 1..n
      PROVE  /\ Pairs(bytes)[i] \in Seq(Byte) /\ Len(Pairs(bytes)[i]) = 2
             /\ Pairs(bytes)[i][1] = bytes[2 * i - 1] /\ Pairs(bytes)[i][2] = bytes[2 * i]
  <2>1. 2 * i <= Len(bytes) /\ 2 * i - 1 \in 1..Len(bytes) /\ 2 * i \in 1..Len(bytes)
    OBVIOUS
  <2>2. Pairs(bytes)[i] = SubSeq(bytes, 2 * i - 1, 2 * i)
    BY <1>1, <2>1 DEF Pairs
  <2> DEFINE m == 2 * i - 1
             k == 2 * i
             p == SubSeq(bytes, m, k)
  <2>3. m \in 1..Len(bytes) /\ k \in 1..Len(bytes) /\ k - m + 1 = 2 /\ m + 1 - 1 = m /\ m + 2 - 1 = k
    BY <2>1
  <2>4. \A l \in m..k : bytes[l] \in Byte
    BY <1>2, <2>3
  <2> HIDE DEF m, k
  <2>5. p \in Seq(Byte) /\ Len(p) = 2 /\ \A l \in 1..2 : p[l] = bytes[m + l - 1]
    BY <2>3, <2>4, SubSeqProperties
  <2>6. p[1] = bytes[m] /\ p[2] = bytes[k]
    BY <2>3, <2>5
  <2> HIDE DEF p
  <2> QED
    BY <2>2, <2>5, <2>6 DEF p, m, k
<1>4. Pairs(bytes) = [i \in 1..n |-> Pairs(bytes)[i]]
  BY <1>1 DEF Pairs
<1>5. Pairs(bytes) \in [1..n -> Seq(Byte)]
  BY <1>3, <1>4
<1>6. Pairs(bytes) \in Seq(Seq(Byte)) /\ Len(Pairs(bytes)) = n
  BY <1>5
<1> QED
  BY <1>3, <1>6

\* The bytes of a text of single-byte characters.
LEMMA SingleBytes ==
  ASSUME NEW t \in Seq(Seq(Byte)), \A i \in 1..Len(t) : Len(t[i]) = 1
  PROVE  /\ as_bytes(t) \in Seq(Byte) /\ Len(as_bytes(t)) = Len(t)
         /\ \A i \in 1..Len(t) : as_bytes(t)[i] = t[i][1]
<1>1. as_bytes(t) \in Seq(Byte)
  BY FlattenType DEF as_bytes
<1>2. /\ Len(as_bytes(t)) = Len(t) * 1
      /\ \A i \in 1..Len(t) : \A j \in 1..1 : as_bytes(t)[(i - 1) * 1 + j] = t[i][j]
  <2>1. LaidOut(t, 1, FlattenSeq(t))
    BY FlattenFixed
  <2> QED
    BY <2>1 DEF LaidOut, as_bytes
<1>3. ASSUME NEW i \in 1..Len(t) PROVE as_bytes(t)[i] = t[i][1]
  <2>1. (i - 1) * 1 + 1 = i /\ 1 \in 1..1
    OBVIOUS
  <2> QED
    BY <1>2, <2>1
<1> QED
  BY <1>1, <1>2, <1>3, LenProperties

\* No trim strips a digit.
LEMMA DigitIsNotBlank ==
  ASSUME NEW c, Len(c) = 1, c[1] \in HexByte
  PROVE  c \notin Blank \cup {NextLine} /\ c \notin Blank \cup {ByteOrderMark}
<1>1. c[1] \notin {9, 10, 13, 32}
  BY DEF HexByte, Digits, Lower, Upper
<1>2. c # <<9>> /\ c # <<10>> /\ c # <<13>> /\ c # <<32>>
  BY <1>1
<1>3. c # NextLine /\ c # ByteOrderMark
  BY DEF NextLine, ByteOrderMark
<1> QED
  BY <1>2, <1>3 DEF Blank

\* The address that a text of hex digits stands for.
AddressOf(t) ==
  [i \in 1..ADDRESS_LEN |-> 16 * hex_digit(t[2 * i - 1][1]) + hex_digit(t[2 * i][1])]

\* parse_hex_address computes it, and its shift in u8 loses nothing.
LEMMA ParseHex ==
  ASSUME NEW t, HexText(t)
  PROVE  parse_hex_address(t) = AddressOf(t)
<1>1. /\ t \in Seq(Seq(Byte)) /\ Len(t) = 2 * ADDRESS_LEN /\ ADDRESS_LEN \in Nat \ {0}
      /\ \A i \in 1..Len(t) : Len(t[i]) = 1 /\ t[i][1] \in HexByte
  BY HexAssumption DEF HexText
<1>2. rs_trim(t) = t
  <2>1. t # <<>> => t[1] \notin Blank \cup {NextLine} /\ t[Len(t)] \notin Blank \cup {NextLine}
    <3>1. 1 \in 1..Len(t) /\ Len(t) \in 1..Len(t)
      BY <1>1
    <3> QED
      BY <1>1, <3>1, DigitIsNotBlank
  <2> DEFINE W == Blank \cup {NextLine}
  <2> HIDE DEF W
  <2>2. Trimmed(t, W) = t
    BY <1>1, <2>1, TrimNothing DEF W
  <2> QED
    BY <2>2 DEF rs_trim, W
<1> DEFINE bytes == as_bytes(t)
           pairs == Pairs(bytes)
<1>3. bytes \in Seq(Byte) /\ Len(bytes) = 2 * ADDRESS_LEN /\ \A i \in 1..Len(t) : bytes[i] = t[i][1]
  BY <1>1, SingleBytes
<1> HIDE DEF bytes
<1>4. /\ pairs \in Seq(Seq(Byte)) /\ Len(pairs) = ADDRESS_LEN
      /\ \A i \in 1..ADDRESS_LEN : /\ Len(pairs[i]) = 2
                                   /\ pairs[i][1] = bytes[2 * i - 1]
                                   /\ pairs[i][2] = bytes[2 * i]
  BY <1>1, <1>3, PairFacts
<1> HIDE DEF pairs
<1>5. ASSUME NEW i \in 1..ADDRESS_LEN
      PROVE  /\ pairs[i][1] = t[2 * i - 1][1] /\ pairs[i][1] \in HexByte
             /\ pairs[i][2] = t[2 * i][1] /\ pairs[i][2] \in HexByte
  <2>1. 2 * i - 1 \in 1..Len(t) /\ 2 * i \in 1..Len(t)
    BY <1>1
  <2> QED
    BY <1>1, <1>3, <1>4, <2>1
<1>6. HexByte \subseteq Byte
  BY DEF HexByte, Digits, Lower, Upper, Byte
<1>7. ~ \E i \in 1..Len(pairs) : \E byte \in ToSet(pairs[i]) : hex_digit(byte) = -1
  <2> SUFFICES ASSUME NEW i \in 1..ADDRESS_LEN, NEW byte \in ToSet(pairs[i])
               PROVE  hex_digit(byte) # -1
    BY <1>4
  <2>1. pairs[i] \in Seq(Byte) /\ DOMAIN pairs[i] = 1..2
    BY <1>1, <1>4, ElementOfSeq, LenProperties
  <2>2. byte = pairs[i][1] \/ byte = pairs[i][2]
    BY <2>1 DEF ToSet
  <2>3. byte \in HexByte /\ byte \in Byte
    BY <1>5, <1>6, <2>2
  <2>4. hex_digit(byte) \in 0..15
    BY <2>3, DigitFacts
  <2> QED
    BY <2>4
<1>8. ASSUME NEW i \in 1..ADDRESS_LEN
      PROVE  Joined(pairs[i]) = 16 * hex_digit(t[2 * i - 1][1]) + hex_digit(t[2 * i][1])
  <2> DEFINE hi == hex_digit(pairs[i][1])
             lo == hex_digit(pairs[i][2])
  <2>1. hi \in 0..15 /\ lo \in 0..15
    BY <1>5, <1>6, DigitFacts
  <2>2. Joined(pairs[i]) = ((hi * 16) % 256) + lo
    BY DEF Joined
  <2> HIDE DEF hi, lo
  <2>3. (hi * 16) % 256 = 16 * hi
    BY <2>1
  <2> QED
    BY <1>5, <2>2, <2>3 DEF hi, lo
<1>9. LengthIsRight(rs_trim(t))
  BY <1>2, <1>3 DEF LengthIsRight, bytes
<1>10. parse_hex_address(t) = [i \in 1..ADDRESS_LEN |-> Joined(pairs[i])]
  <2>1. Pairs(as_bytes(rs_trim(t))) = pairs
    BY <1>2 DEF pairs, bytes
  <2> QED
    BY <1>4, <1>7, <1>9, <2>1 DEF parse_hex_address
<1> QED
  BY <1>8, <1>10 DEF AddressOf

\* A text that the parser takes, and that has nothing to trim, consists of
\* digits: a character of several bytes has no byte that is one.
LEMMA ParsedIsHex ==
  ASSUME NEW t \in Seq(Char), rs_trim(t) = t, parse_hex_address(t) # NoAddress
  PROVE  HexText(t)
<1> DEFINE bytes == as_bytes(t)
           pairs == Pairs(bytes)
<1>1. t \in Seq(Seq(Byte)) /\ Len(t) \in Nat /\ \A i \in 1..Len(t) : t[i] \in Char
  BY TextAssumption, LenProperties, ElementOfSeq
<1>2. ADDRESS_LEN \in Nat /\ bytes \in Seq(Byte)
  BY <1>1, HexAssumption, FlattenType DEF as_bytes
<1>3. /\ Len(bytes) = 2 * ADDRESS_LEN
      /\ \A i \in 1..Len(pairs) : \A byte \in ToSet(pairs[i]) : hex_digit(byte) # -1
  BY DEF parse_hex_address, LengthIsRight
<1> HIDE DEF bytes
<1>4. /\ pairs \in Seq(Seq(Byte)) /\ Len(pairs) = ADDRESS_LEN
      /\ \A i \in 1..ADDRESS_LEN : /\ Len(pairs[i]) = 2
                                   /\ pairs[i][1] = bytes[2 * i - 1]
                                   /\ pairs[i][2] = bytes[2 * i]
  BY <1>2, <1>3, PairFacts
<1> HIDE DEF pairs
<1>5. ASSUME NEW k \in 1..Len(bytes) PROVE bytes[k] \in HexByte
  <2>1. PICK i \in 1..ADDRESS_LEN : k = 2 * i - 1 \/ k = 2 * i
    <3>1. (k + 1) \div 2 \in 1..ADDRESS_LEN
          /\ (k = 2 * ((k + 1) \div 2) - 1 \/ k = 2 * ((k + 1) \div 2))
      BY <1>2, <1>3
    <3> QED
      BY <3>1
  <2>2. pairs[i] \in Seq(Byte) /\ DOMAIN pairs[i] = 1..2
    BY <1>2, <1>4, ElementOfSeq, LenProperties
  <2>3. bytes[k] \in ToSet(pairs[i])
    BY <1>4, <2>1, <2>2 DEF ToSet
  <2>4. hex_digit(bytes[k]) # -1 /\ bytes[k] \in Byte
    BY <1>2, <1>3, <1>4, <2>3, ElementOfSeq
  <2> QED
    BY <2>4, DigitFacts
<1>6. \A byte \in HexByte : byte < 128
  BY DEF HexByte, Digits, Lower, Upper
<1>7. ASSUME NEW i \in 1..Len(t), NEW j \in 1..Len(t[i]) PROVE t[i][j] \in HexByte
  <2>1. PICK k \in 1..Len(FlattenSeq(t)) : FlattenSeq(t)[k] = t[i][j]
    BY <1>1, FlattenHasAll
  <2> QED
    BY <1>5, <2>1 DEF bytes, as_bytes
<1>8. ASSUME NEW i \in 1..Len(t) PROVE Len(t[i]) = 1 /\ t[i][1] \in HexByte
  <2>1. t[i] \in Char /\ t[i] \in Seq(Byte) /\ Len(t[i]) \in Nat
    BY <1>1, TextAssumption, LenProperties
  <2>2. CASE Len(t[i]) = 1
    <3>1. 1 \in 1..Len(t[i])
      BY <2>2
    <3> QED
      BY <1>7, <2>2, <3>1
  <2>3. CASE Len(t[i]) # 1
    <3>1. Len(t[i]) > 1 /\ \A j \in 1..Len(t[i]) : t[i][j] >= 128
      BY <2>1, <2>3, TextAssumption
    <3>2. 1 \in 1..Len(t[i])
      BY <2>1, <3>1
    <3>3. t[i][1] \in HexByte /\ t[i][1] >= 128
      BY <1>7, <3>1, <3>2
    <3>4. \A byte \in HexByte : ~(byte >= 128)
      BY <1>6 DEF HexByte, Digits, Lower, Upper
    <3> QED
      BY <3>3, <3>4, Zenon
  <2> QED
    BY <2>2, <2>3
<1>9. Len(bytes) = Len(t)
  BY <1>1, <1>8, SingleBytes DEF bytes
<1> QED
  BY <1>1, <1>3, <1>8, <1>9 DEF HexText
\* What the page lets through is a text of digits.
LEMMA AcceptedIsHex ==
  ASSUME NEW str \in Seq(Char)
  PROVE  /\ js_trim(str) \in Seq(Char)
         /\ PageAccepts(str) <=> HexText(js_trim(str))
<1> DEFINE t == js_trim(str)
<1>1. t \in Seq(Char)
  <2> DEFINE W == Blank \cup {ByteOrderMark}
  <2> HIDE DEF W
  <2>1. Trimmed(str, W) \in Seq(Char)
    BY TrimFacts
  <2> QED
    BY <2>1 DEF js_trim, W
<1> HIDE DEF t
<1>2. t \in Seq(Seq(Byte)) /\ \A i \in 1..Len(t) : t[i] \in Seq(Byte)
  BY <1>1, TextAssumption, ElementOfSeq
<1>3. ASSUME NEW i \in 1..Len(t)
      PROVE  (\E byte \in HexByte : t[i] = <<byte>>) <=> (Len(t[i]) = 1 /\ t[i][1] \in HexByte)
  <2>1. t[i] \in Seq(Byte)
    BY <1>2
  <2>2. ASSUME Len(t[i]) = 1 PROVE t[i] = <<t[i][1]>>
    BY <2>1, <2>2
  <2>3. ASSUME NEW byte \in HexByte, t[i] = <<byte>> PROVE Len(t[i]) = 1 /\ t[i][1] = byte
    BY <2>3
  <2> QED
    BY <2>2, <2>3, Zenon
<1>4. PageAccepts(str) <=> /\ Len(t) = 2 * ADDRESS_LEN
                           /\ \A i \in 1..Len(t) : \E byte \in HexByte : t[i] = <<byte>>
  BY DEF PageAccepts, t, HexByte
<1>5. PageAccepts(str) <=> HexText(t)
  BY <1>2, <1>3, <1>4 DEF HexText
<1> QED
  BY <1>1, <1>5 DEF t

\* The page's pattern and the parser agree on every text.
LEMMA PageAndParser ==
  ASSUME NEW str \in Seq(Char)
  PROVE  /\ PageAccepts(str) => parse_hex_address(js_trim(str)) # NoAddress
         /\ ~PageAccepts(str) /\ NextLine \notin ToSet(str) =>
              parse_hex_address(js_trim(str)) = NoAddress
<1> DEFINE t == js_trim(str)
<1>1. t \in Seq(Char) /\ (PageAccepts(str) <=> HexText(t))
  BY AcceptedIsHex
<1>2. ASSUME PageAccepts(str) PROVE parse_hex_address(t) # NoAddress
  <2>1. parse_hex_address(t) = AddressOf(t)
    BY <1>1, <1>2, ParseHex
  <2>2. DOMAIN AddressOf(t) = 1..ADDRESS_LEN /\ 1 \in 1..ADDRESS_LEN
    BY HexAssumption DEF AddressOf
  <2>3. DOMAIN NoAddress = {}
    BY DEF NoAddress
  <2> QED
    BY <2>1, <2>2, <2>3
<1>3. ASSUME NextLine \notin ToSet(str), parse_hex_address(t) # NoAddress
      PROVE  PageAccepts(str)
  <2>1. /\ \A i \in 1..Len(t) : \E k \in 1..Len(str) : t[i] = str[k]
        /\ t # <<>> => t[1] \notin Blank /\ t[Len(t)] \notin Blank
    <3> DEFINE W == Blank \cup {ByteOrderMark}
    <3> HIDE DEF W
    <3>1. LET u == Trimmed(str, W)
          IN  /\ \A i \in 1..Len(u) : \E k \in 1..Len(str) : u[i] = str[k]
              /\ u # <<>> => u[1] \notin W /\ u[Len(u)] \notin W
      BY TrimFacts
    <3> QED
      BY <3>1 DEF js_trim, W
  <2> HIDE DEF t
  <2>2. \A i \in 1..Len(t) : t[i] # NextLine
    <3> SUFFICES ASSUME NEW i \in 1..Len(t), t[i] = NextLine PROVE FALSE
      OBVIOUS
    <3>1. PICK k \in 1..Len(str) : str[k] = NextLine
      BY <2>1
    <3>2. k \in DOMAIN str
      BY LenProperties
    <3> QED
      BY <1>3, <3>1, <3>2 DEF ToSet
  <2>3. t # <<>> => t[1] \notin Blank \cup {NextLine} /\ t[Len(t)] \notin Blank \cup {NextLine}
    <3> SUFFICES ASSUME t # <<>> PROVE t[1] # NextLine /\ t[Len(t)] # NextLine
      BY <2>1
    <3>1. 1 \in 1..Len(t) /\ Len(t) \in 1..Len(t)
      BY <1>1, EmptySeq, LenProperties
    <3> QED
      BY <2>2, <3>1
  <2>4. rs_trim(t) = t
    <3> DEFINE W == Blank \cup {NextLine}
    <3> HIDE DEF W
    <3>1. Trimmed(t, W) = t
      BY <1>1, <2>3, TrimNothing DEF W
    <3> QED
      BY <3>1 DEF rs_trim, W
  <2>5. HexText(t)
    BY <1>1, <1>3, <2>4, ParsedIsHex
  <2> QED
    BY <1>1, <2>5
<1> QED
  BY <1>2, <1>3

\* The parser never looks past the end of a pair.
LEMMA PairsAreWhole ==
  ASSUME NEW str \in Seq(Char)
  PROVE  IndexesInRange(str)
<1> DEFINE W == Blank \cup {NextLine}
           r == rs_trim(str)
           bytes == as_bytes(r)
<1> HIDE DEF W
<1>1. r \in Seq(Char)
  BY TrimFacts DEF rs_trim, W
<1> HIDE DEF r
<1>2. bytes \in Seq(Byte)
  <2>1. r \in Seq(Seq(Byte))
    BY <1>1, TextAssumption
  <2> QED
    BY <2>1, FlattenType DEF as_bytes
<1> HIDE DEF bytes
<1>3. ASSUME Len(bytes) = 2 * ADDRESS_LEN, NEW pair \in ToSet(Pairs(bytes))
      PROVE  Len(pair) = 2
  <2>1. /\ Pairs(bytes) \in Seq(Seq(Byte)) /\ Len(Pairs(bytes)) = ADDRESS_LEN
        /\ \A i \in 1..ADDRESS_LEN : Len(Pairs(bytes)[i]) = 2
    BY <1>2, <1>3, PairFacts, HexAssumption
  <2>2. DOMAIN Pairs(bytes) = 1..ADDRESS_LEN
    BY <2>1, LenProperties
  <2> QED
    BY <1>3, <2>1, <2>2 DEF ToSet
<1> QED
  BY <1>3 DEF IndexesInRange, LengthIsRight, bytes, r
-----------------------------------------------------------------------------
(* Formatting. *)

\* A digit in lower case.
lower(byte) == IF byte \in Upper THEN byte + 32 ELSE byte

\* Formatting the value of a digit gives the digit in lower case, which has
\* the same value.
LEMMA NibbleOfDigit ==
  ASSUME NEW byte \in HexByte
  PROVE  /\ Nibble(hex_digit(byte)) = <<lower(byte)>>
         /\ lower(byte) \in HexByte
         /\ hex_digit(lower(byte)) = hex_digit(byte)
<1> USE DEF HexByte, hex_digit, lower, Nibble, Digits, Lower, Upper
<1>1. CASE byte \in Digits
  <2>1. hex_digit(byte) = byte - 48 /\ lower(byte) = byte /\ byte - 48 < 10
    BY <1>1
  <2>2. 48 + (byte - 48) = byte
    BY <1>1
  <2> QED
    BY <1>1, <2>1, <2>2
<1>2. CASE byte \in Lower
  <2>1. hex_digit(byte) = byte - 97 + 10 /\ lower(byte) = byte /\ ~(byte - 97 + 10 < 10)
    BY <1>2
  <2>2. 97 + (byte - 97 + 10) - 10 = byte
    BY <1>2
  <2> QED
    BY <1>2, <2>1, <2>2
<1>3. CASE byte \in Upper
  <2>1. /\ hex_digit(byte) = byte - 65 + 10 /\ lower(byte) = byte + 32 /\ ~(byte - 65 + 10 < 10)
        /\ byte + 32 \in Lower
    BY <1>3
  <2>2. 97 + (byte - 65 + 10) - 10 = byte + 32 /\ (byte + 32) - 97 + 10 = byte - 65 + 10
    BY <1>3
  <2>3. hex_digit(byte + 32) = (byte + 32) - 97 + 10
    BY <1>3
  <2> QED
    BY <1>3, <2>1, <2>2, <2>3
<1> QED
  BY <1>1, <1>2, <1>3

\* The text in lower case.
LowerText(t) == [i \in 1..Len(t) |-> <<lower(t[i][1])>>]

\* It is a text of digits for the same address.
LEMMA LowerTextFacts ==
  ASSUME NEW t, HexText(t)
  PROVE  HexText(LowerText(t)) /\ AddressOf(LowerText(t)) = AddressOf(t)
<1> DEFINE l == LowerText(t)
           N == 2 * ADDRESS_LEN
<1>1. /\ Len(t) = N /\ ADDRESS_LEN \in Nat
      /\ \A i \in 1..N : t[i][1] \in HexByte
  BY HexAssumption DEF HexText
<1>2. HexByte \subseteq Byte
  BY DEF HexByte, Digits, Lower, Upper, Byte
<1>3. ASSUME NEW i \in 1..N
      PROVE  /\ l[i] = <<lower(t[i][1])>> /\ l[i] \in Seq(Byte)
             /\ Len(l[i]) = 1 /\ l[i][1] \in HexByte
             /\ hex_digit(l[i][1]) = hex_digit(t[i][1])
  <2>1. l[i] = <<lower(t[i][1])>>
    BY <1>1 DEF LowerText
  <2>2. lower(t[i][1]) \in HexByte /\ hex_digit(lower(t[i][1])) = hex_digit(t[i][1])
    BY <1>1, NibbleOfDigit
  <2> HIDE DEF l
  <2>3. lower(t[i][1]) \in Byte
    BY <1>2, <2>2
  <2>4. l[i] \in Seq(Byte) /\ Len(l[i]) = 1 /\ l[i][1] = lower(t[i][1])
    BY <2>1, <2>3
  <2> QED
    BY <2>1, <2>2, <2>4
<1>4. l = [i \in 1..N |-> l[i]]
  BY <1>1 DEF LowerText
<1> HIDE DEF l
<1>5. l \in [1..N -> Seq(Byte)] /\ N \in Nat
  BY <1>1, <1>3, <1>4
<1>6. l \in Seq(Seq(Byte)) /\ Len(l) = N
  <2> HIDE DEF N
  <2> QED
    BY <1>5
<1>7. HexText(l)
  BY <1>3, <1>6 DEF HexText
<1>8. ASSUME NEW i \in 1..ADDRESS_LEN
      PROVE  /\ hex_digit(l[2 * i - 1][1]) = hex_digit(t[2 * i - 1][1])
             /\ hex_digit(l[2 * i][1]) = hex_digit(t[2 * i][1])
  <2>1. 2 * i - 1 \in 1..N /\ 2 * i \in 1..N
    BY <1>1
  <2> QED
    BY <1>3, <2>1
<1>9. AddressOf(l) = AddressOf(t)
  BY <1>8 DEF AddressOf
<1> QED
  BY <1>7, <1>9 DEF l

\* {byte:02x} of the parsed address gives the text in lower case.
LEMMA HexOfAddress ==
  ASSUME NEW t, HexText(t)
  PROVE  hex(AddressOf(t)) = LowerText(t)
<1> DEFINE a == AddressOf(t)
           L == ADDRESS_LEN
           d(i) == hex_digit(t[i][1])
           q == [i \in 1..L |-> <<Nibble(a[i] \div 16), Nibble(a[i] % 16)>>]
<1>1. /\ Len(t) = 2 * L /\ L \in Nat \ {0}
      /\ \A i \in 1..(2 * L) : t[i][1] \in HexByte
  BY HexAssumption DEF HexText
<1>2. HexByte \subseteq Byte
  BY DEF HexByte, Digits, Lower, Upper, Byte
<1>3. ASSUME NEW i \in 1..(2 * L)
      PROVE  d(i) \in 0..15 /\ Nibble(d(i)) = <<lower(t[i][1])>>
             /\ Nibble(d(i)) \in Seq(Byte)
  <2>1. t[i][1] \in HexByte /\ t[i][1] \in Byte
    BY <1>1, <1>2
  <2>2. d(i) \in 0..15
    BY <2>1, DigitFacts
  <2>3. Nibble(d(i)) = <<lower(t[i][1])>> /\ lower(t[i][1]) \in Byte
    BY <1>2, <2>1, NibbleOfDigit
  <2> QED
    BY <2>2, <2>3
<1>4. Len(a) = L /\ \A i \in 1..L : a[i] = 16 * d(2 * i - 1) + d(2 * i)
  <2>1. a = [i \in 1..L |-> 16 * d(2 * i - 1) + d(2 * i)]
    BY DEF AddressOf
  <2> HIDE DEF d, a
  <2> QED
    BY <1>1, <2>1
<1> HIDE DEF a, d
<1>5. ASSUME NEW i \in 1..L
      PROVE  /\ q[i] = <<Nibble(d(2 * i - 1)), Nibble(d(2 * i))>>
             /\ q[i] \in Seq(Seq(Byte)) /\ Len(q[i]) = 2
  <2>1. 2 * i - 1 \in 1..(2 * L) /\ 2 * i \in 1..(2 * L)
    BY <1>1
  <2> DEFINE hi == d(2 * i - 1)
             lo == d(2 * i)
  <2>2. hi \in 0..15 /\ lo \in 0..15 /\ a[i] = 16 * hi + lo
    BY <1>3, <1>4, <2>1
  <2>3. Nibble(hi) \in Seq(Byte) /\ Nibble(lo) \in Seq(Byte)
    BY <1>3, <2>1
  <2> HIDE DEF hi, lo
  <2>4. a[i] \div 16 = hi /\ a[i] % 16 = lo
    BY <2>2
  <2>5. q[i] = <<Nibble(hi), Nibble(lo)>>
    BY <2>4
  <2> DEFINE x == Nibble(hi)
             y == Nibble(lo)
  <2> HIDE DEF x, y, q
  <2>6. q[i] = <<x, y>> /\ x \in Seq(Byte) /\ y \in Seq(Byte)
    BY <2>3, <2>5 DEF x, y
  <2>7. q[i] \in Seq(Seq(Byte)) /\ Len(q[i]) = 2
    BY <2>6
  <2> QED
    BY <2>5, <2>7 DEF hi, lo
<1>6. hex(a) = FlattenSeq(q)
  BY <1>4 DEF hex
<1>7. q \in Seq(Seq(Seq(Byte))) /\ Len(q) = L
  <2>1. q = [i \in 1..L |-> q[i]]
    OBVIOUS
  <2> HIDE DEF q
  <2>2. q \in [1..L -> Seq(Seq(Byte))]
    BY <1>5, <2>1
  <2> QED
    BY <1>1, <2>2
<1> HIDE DEF q
<1>8. /\ Len(FlattenSeq(q)) = L * 2
      /\ \A i \in 1..L : \A j \in 1..2 : FlattenSeq(q)[(i - 1) * 2 + j] = q[i][j]
  <2>1. 2 \in Nat /\ \A i \in 1..Len(q) : Len(q[i]) = 2
    BY <1>5, <1>7
  <2> DEFINE S == Seq(Byte)
  <2> HIDE DEF S
  <2>2. q \in Seq(Seq(S))
    BY <1>7 DEF S
  <2>3. LaidOut(q, 2, FlattenSeq(q))
    BY <2>1, <2>2, FlattenFixed
  <2> QED
    BY <1>7, <2>3, Zenon DEF LaidOut
<1>9. FlattenSeq(q) \in Seq(Seq(Byte))
  <2> DEFINE S == Seq(Byte)
  <2> HIDE DEF S
  <2>1. q \in Seq(Seq(S))
    BY <1>7 DEF S
  <2>2. FlattenSeq(q) \in Seq(S)
    BY <2>1, FlattenType
  <2> QED
    BY <2>2 DEF S
<1>10. ASSUME NEW k \in 1..(2 * L) PROVE FlattenSeq(q)[k] = <<lower(t[k][1])>>
  <2>1. PICK i \in 1..L : k = 2 * i - 1 \/ k = 2 * i
    <3>1. /\ (k + 1) \div 2 \in 1..L
          /\ k = 2 * ((k + 1) \div 2) - 1 \/ k = 2 * ((k + 1) \div 2)
      BY <1>1
    <3> QED
      BY <3>1
  <2>2. /\ FlattenSeq(q)[(i - 1) * 2 + 1] = Nibble(d(2 * i - 1))
        /\ FlattenSeq(q)[(i - 1) * 2 + 2] = Nibble(d(2 * i))
    BY <1>5, <1>8
  <2>3. (i - 1) * 2 + 1 = 2 * i - 1 /\ (i - 1) * 2 + 2 = 2 * i
    OBVIOUS
  <2>4. FlattenSeq(q)[k] = Nibble(d(k))
    BY <2>1, <2>2, <2>3
  <2> QED
    BY <1>3, <2>4
<1>11. /\ LowerText(t) \in Seq(Seq(Byte)) /\ Len(LowerText(t)) = 2 * L
       /\ \A k \in 1..(2 * L) : LowerText(t)[k] = <<lower(t[k][1])>>
  BY <1>1, LowerTextFacts DEF HexText, LowerText
<1>12. FlattenSeq(q) = LowerText(t)
  <2> DEFINE f == FlattenSeq(q)
             l == LowerText(t)
  <2> HIDE DEF f, l
  <2>1. f \in Seq(Seq(Byte)) /\ l \in Seq(Seq(Byte)) /\ Len(f) = 2 * L /\ Len(l) = 2 * L
    BY <1>1, <1>8, <1>9, <1>11 DEF f, l
  <2>2. \A k \in 1..Len(f) : f[k] = l[k]
    BY <1>10, <1>11, <2>1 DEF f, l
  <2>3. f = l
    BY <2>1, <2>2, SeqEqual
  <2> QED
    BY <2>3 DEF f, l
<1> QED
  BY <1>6, <1>12 DEF a
-----------------------------------------------------------------------------
(* Records. *)

\* splitAddresses undoes Flat for any list of addresses.
LEMMA SplitFlat ==
  ASSUME NEW q \in Seq(Addr)
  PROVE  splitAddresses(Flat(q)) = q
<1> DEFINE K == ADDRESS_LEN
           N == Len(q)
           f == FlattenSeq(q)
           s == splitAddresses(f)
<1>1. K \in Nat \ {0} /\ N \in Nat
  BY HexAssumption, LenProperties
<1>2. q \in Seq(Seq(Byte)) /\ \A i \in 1..N : q[i] \in Seq(Byte) /\ Len(q[i]) = K
  BY AddressAssumption, ElementOfSeq
<1>3. /\ f \in Seq(Byte) /\ Len(f) = N * K
      /\ \A i \in 1..N : \A j \in 1..K : f[(i - 1) * K + j] = q[i][j]
  <2>1. f \in Seq(Byte)
    BY <1>2, FlattenType
  <2> HIDE DEF K
  <2>2. K \in Nat /\ \A i \in 1..Len(q) : Len(q[i]) = K
    BY <1>1, <1>2
  <2> DEFINE S == Byte
  <2> HIDE DEF S
  <2>3. q \in Seq(Seq(S))
    BY <1>2 DEF S
  <2>4. LaidOut(q, K, f)
    BY <2>2, <2>3, FlattenFixed
  <2> QED
    BY <2>1, <2>4 DEF LaidOut
<1> HIDE DEF f, N, K
<1>4. (Len(f) + K - 1) \div K = N
  <2>1. Len(f) + K - 1 = N * K + (K - 1) /\ K - 1 \in 0..(K - 1)
    BY <1>1, <1>3
  <2>2. (N * K + (K - 1)) \div K = N
    BY <1>1
  <2> QED
    BY <2>1, <2>2
<1>5. ASSUME NEW i \in 1..N
      PROVE  s[i] = q[i]
  <2> DEFINE m == (i - 1) * K
             p == SubSeq(f, m + 1, m + K)
  <2>1. m \in Nat /\ i * K = m + K /\ m + K <= Len(f)
    <3>1. PICK e \in Nat : N = i + e
      <4>1. N - i \in Nat /\ N = i + (N - i)
        BY <1>1
      <4> QED
        BY <4>1
    <3>2. N * K = i * K + e * K /\ e * K \in Nat /\ i * K = (i - 1) * K + K
      BY <1>1, <3>1
    <3>3. i - 1 \in Nat
      BY <1>1
    <3>4. (i - 1) * K \in Nat
      BY <1>1, <3>3
    <3> QED
      BY <1>1, <1>3, <3>2, <3>4
  <2>2. s[i] = p
    <3>1. s[i] = SubSeq(f, (i - 1) * K + 1, IF i * K <= Len(f) THEN i * K ELSE Len(f))
      BY <1>4 DEF splitAddresses, K
    <3> QED
      BY <2>1, <3>1
  <2>3. \A j \in 1..K : f[m + j] = q[i][j]
    BY <1>3
  <2> HIDE DEF m, s
  <2>4. \A l \in (m + 1)..(m + K) : f[l] \in Byte
    <3>1. Len(f) \in Nat /\ \A l \in 1..Len(f) : f[l] \in Byte
      BY <1>3, LenProperties, ElementOfSeq
    <3> QED
      BY <1>1, <2>1, <3>1
  <2>5. p \in Seq(Byte) /\ Len(p) = K /\ \A j \in 1..K : p[j] = f[m + j]
    <3>1. (m + K) - (m + 1) + 1 = K /\ \A j \in 1..K : (m + 1) + j - 1 = m + j
      BY <1>1, <2>1
    <3>2. m + 1 <= m + K + 1 /\ m + 1 \in Nat /\ m + K \in Nat
      BY <1>1, <2>1
    <3> DEFINE x == m + 1
               y == m + K
    <3>3. x \in Int /\ y \in Int /\ x <= y + 1 /\ \A l \in x..y : f[l] \in Byte
      BY <2>4, <3>2
    <3> HIDE DEF x, y
    <3>4. /\ SubSeq(f, x, y) \in Seq(Byte)
          /\ Len(SubSeq(f, x, y)) = IF x <= y THEN y - x + 1 ELSE 0
          /\ \A j \in 1..(y - x + 1) : SubSeq(f, x, y)[j] = f[x + j - 1]
      BY <3>3, SubSeqProperties
    <3> QED
      BY <1>1, <3>1, <3>2, <3>4 DEF x, y
  <2> HIDE DEF p
  <2>6. q[i] \in Seq(Byte) /\ Len(q[i]) = K
    BY <1>2
  <2>7. \A j \in 1..Len(p) : p[j] = q[i][j]
    BY <2>3, <2>5
  <2>8. p = q[i]
    BY <2>5, <2>6, <2>7, SeqEqual
  <2> QED
    BY <2>2, <2>8
<1>6. s = [i \in 1..N |-> s[i]]
  BY <1>4 DEF splitAddresses, K
<1>7. q = [i \in 1..N |-> q[i]]
  BY LenProperties DEF N
<1>8. s = q
  <2> HIDE DEF s
  <2> QED
    BY <1>5, <1>6, <1>7
<1> QED
  BY <1>8 DEF Flat, f
\* The loop of required_addresses collects addresses.
LEMMA RequiredType ==
  ASSUME map.infos \in Seq(Addr)
  PROVE  RequiredRecords \in Seq(Addr)
<1> DEFINE infos == map.infos
           N == Len(infos)
           D == Seq(Addr)
           Step(n, s) == IF cache[infos[n]] = NoChunk THEN Append(s, infos[n]) ELSE s
           F == [n \in 1..N |-> [s \in D |-> Step(n, s)]]
           Rec(g) == g = [n \in 0..N |-> IF n = 0
                                         THEN <<>>
                                         ELSE IF cache[infos[n]] = NoChunk
                                              THEN Append(g[n - 1], infos[n])
                                              ELSE g[n - 1]]
           out == CHOOSE g : Rec(g)
<1>1. N \in Nat /\ \A n \in 1..N : infos[n] \in Addr
  BY LenProperties, ElementOfSeq
<1>2. RequiredRecords = out[N]
  BY DEF RequiredRecords
<1> HIDE DEF infos, N
<1>3. \A n \in 1..N : \A s \in D : Step(n, s) \in D
  BY <1>1, AppendProperties
<1>4. F \in [1..N -> [D -> D]] /\ <<>> \in D
  BY <1>3, EmptySeq
<1>5. PICK g : g \in [0..N -> D] /\ g[0] = <<>> /\ \A n \in 1..N : g[n] = F[n][g[n - 1]]
  <2> HIDE DEF F, D
  <2>1. Runs(D, F, <<>>, N) # {}
    BY <1>1, <1>4, Recursion
  <2> QED
    BY <2>1 DEF Runs
<1>6. \A n \in 1..N : n - 1 \in 0..N /\ g[n - 1] \in D /\ g[n] = Step(n, g[n - 1])
  <2> TAKE n \in 1..N
  <2>1. n - 1 \in 0..N
    BY <1>1
  <2>2. g[n - 1] \in D
    BY <1>5, <2>1
  <2> HIDE DEF Step, D
  <2> QED
    BY <1>5, <2>1, <2>2
<1>7. Rec(g)
  <2>1. \A n \in 0..N : g[n] = IF n = 0 THEN <<>> ELSE Step(n, g[n - 1])
    <3> TAKE n \in 0..N
    <3>1. n # 0 => n \in 1..N
      BY <1>1
    <3> HIDE DEF Step
    <3> QED
      BY <1>5, <1>6, <3>1
  <2> QED
    BY <1>5, <2>1
<1>8. Rec(out)
  <2> HIDE DEF Rec
  <2> QED
    BY <1>7
<1> HIDE DEF out
<1> DEFINE I == {n \in 0..N : out[n] \in D}
<1>9. 0 \in I
  BY <1>1, <1>4, <1>8
<1>10. ASSUME NEW n \in 0..N, n \in I, n < N PROVE n + 1 \in I
  <2>1. n + 1 \in 0..N /\ n + 1 \in 1..N /\ n + 1 # 0 /\ (n + 1) - 1 = n
    BY <1>1, <1>10
  <2>2. out[n + 1] = Step(n + 1, out[n])
    BY <1>8, <2>1
  <2>3. out[n + 1] \in D
    <3> HIDE DEF Step
    <3> QED
      BY <1>3, <1>10, <2>1, <2>2
  <2> QED
    BY <2>1, <2>3
<1>11. N \in I
  <2> HIDE DEF I
  <2>1. \A n \in 0..N : n \in I
    BY <1>1, <1>9, <1>10, UpTo
  <2> QED
    BY <1>1, <2>1
<1> QED
  BY <1>2, <1>11
-----------------------------------------------------------------------------
(* The trip. *)

\* A retrieve() for an address that no blob of this network can have.
Unknown ==
  /\ pc \in {"map", "threw"}
  /\ map = EmptyMap
  /\ \A w \in Worker : task[w] = Done
  /\ result = NoChunk

\* The inductive invariant: past the page's check the text consists of digits,
\* the address is the one they stand for, and the download of an address of the
\* network keeps its integrity.
TripInv ==
  /\ text \in Seq(Char)
  /\ stage \in {"typed", "clicked", "refused", "retrieve"}
  /\ stage \in {"clicked", "retrieve"} => HexText(text)
  /\ IF stage = "retrieve"
     THEN address = AddressOf(text) /\ IF address \in Addr THEN IntegrityInv ELSE Unknown
     ELSE Fresh

\* An address of the network starts with integrity, any other as Unknown.
LEMMA FreshStart == Fresh => IF address \in Addr THEN IntegrityInv ELSE Unknown
BY FreshIntegrity DEF Fresh, Unknown

\* The parsed text always has the length of an address.
LEMMA ParsedLength ==
  ASSUME NEW t, HexText(t)
  PROVE  parse_address(AddressOf(t)) = AddressOf(t) /\ AddressOf(t) # NoAddress
<1>1. ADDRESS_LEN \in Nat \ {0} /\ DOMAIN AddressOf(t) = 1..ADDRESS_LEN
  BY HexAssumption DEF AddressOf
<1>2. Len(AddressOf(t)) = ADDRESS_LEN
  BY <1>1 DEF AddressOf
<1>3. AddressOf(t) # NoAddress
  <2>1. DOMAIN NoAddress = {} /\ 1 \in 1..ADDRESS_LEN
    BY <1>1 DEF NoAddress
  <2> QED
    BY <1>1, <2>1
<1> QED
  BY <1>2, <1>3 DEF parse_address

\* No step of a download changes its address.
LEMMA AddressKept == Next => address' = address
BY DEF Next, Main, RunWorker, Begin, BeginFails, LeaveLoop, StartRound, FetchFails, FetchDone,
       Advance, Finish, Take, Supply, Reject

\* Nothing hashes to an address outside the network, so its download throws.
LEMMA UnknownStep ==
  ASSUME Unknown, address \notin Addr, Next
  PROVE  Unknown'
<1>1. \A w \in Worker : ~(task[w] = Ready) /\ ~(task[w] > 0)
  BY DEF Unknown, Done, Ready
<1>2. ASSUME NEW w \in Worker, RunWorker(w) PROVE FALSE
  BY <1>1, <1>2 DEF RunWorker, Take
<1>3. ASSUME NEW b, Begin(b) PROVE FALSE
  BY <1>3, HashAssumption DEF Begin, begin_accepts, verify_chunk
<1>4. ASSUME NEW b, BeginFails(b) PROVE Unknown'
  BY <1>4 DEF BeginFails, Unknown, machine, pool
<1>5. ~(LeaveLoop \/ StartRound \/ FetchFails \/ FetchDone \/ Advance \/ Finish)
  BY DEF Unknown, LeaveLoop, StartRound, FetchFails, FetchDone, Advance, Finish
<1> QED
  BY <1>2, <1>3, <1>4, <1>5 DEF Next, Main

\* The inductive step.
LEMMA TripStep == TripInv /\ [TripNext]_tripVars => TripInv'
<1>1. (Fresh => IF address \in Addr THEN IntegrityInv ELSE Unknown)'
  BY FreshStart, PTL
<1>2. IntegrityInv /\ UNCHANGED vars => IntegrityInv'
  BY NextIntegrity
<1>3. UNCHANGED vars => (Fresh => Fresh') /\ (Unknown => Unknown')
  BY DEF vars, Fresh, Unknown
<1> SUFFICES ASSUME TripInv, [TripNext]_tripVars
             PROVE  TripInv'
  OBVIOUS
<1>4. CASE UNCHANGED tripVars
  <2>1. text' = text /\ stage' = stage /\ UNCHANGED vars /\ address' = address
    BY <1>4 DEF tripVars, vars
  <2> QED
    BY <1>2, <1>3, <2>1 DEF TripInv
<1>5. CASE CheckField
  <2>1. js_trim(text) \in Seq(Char) /\ (PageAccepts(text) <=> HexText(js_trim(text)))
    BY AcceptedIsHex DEF TripInv
  <2>2. Fresh'
    BY <1>3, <1>5 DEF CheckField, TripInv
  <2> QED
    BY <1>5, <2>1, <2>2 DEF CheckField, TripInv
<1>6. CASE Parse
  <2>1. HexText(text) /\ Fresh /\ stage = "clicked"
    BY <1>6 DEF Parse, TripInv
  <2>2. parse_hex_address(text) = AddressOf(text)
    BY <2>1, ParseHex
  <2>3. parse_address(AddressOf(text)) # NoAddress
    BY <2>1, ParsedLength
  <2>4. stage' = "retrieve" /\ address' = AddressOf(text) /\ text' = text
    BY <1>6, <2>2, <2>3 DEF Parse
  <2>5. Fresh'
    BY <1>6, <2>1 DEF Parse, Fresh, machine, pool
  <2> QED
    BY <1>1, <2>1, <2>4, <2>5 DEF TripInv
<1>7. CASE Retrieve
  <2>1. stage = "retrieve" /\ Next /\ text' = text /\ stage' = stage /\ address' = address
    BY <1>7, AddressKept DEF Retrieve
  <2>2. address \in Addr => IntegrityInv'
    BY <2>1, NextIntegrity DEF TripInv
  <2>3. address \notin Addr => Unknown'
    BY <2>1, UnknownStep DEF TripInv
  <2> QED
    BY <2>1, <2>2, <2>3 DEF TripInv
<1> QED
  BY <1>4, <1>5, <1>6, <1>7 DEF TripNext

\* The invariant holds of every text that can be typed.
LEMMA TripStart == TripInit => TripInv
<1> SUFFICES ASSUME TripInit PROVE TripInv
  OBVIOUS
<1>1. PICK m \in 0..MaxText : text \in [1..m -> Char]
  BY DEF TripInit, SeqOf
<1>2. text \in Seq(Char)
  BY <1>1, TextAssumption
<1> QED
  BY <1>2 DEF TripInit, Init, TripInv

\* The invariant of the trip.
LEMMA TripInvariant == TripSpec => []TripInv
BY TripStart, TripStep, PTL DEF TripSpec

\* parse_hex_address never indexes past the end of a pair, for any text in any
\* encoding and any length of an address: it cannot panic.
THEOREM ParserIsSafe == TripSpec => []ParserNeverPanics
<1>1. TripInv => ParserNeverPanics
  BY PairsAreWhole DEF TripInv, ParserNeverPanics
<1> QED
  BY <1>1, TripInvariant, PTL

\* What the page's pattern lets through the parser takes, and what it refuses
\* the parser refuses, except for texts with a character only Rust trims.
THEOREM PageAgreesWithParser == TripSpec => []PageAndParserAgree
<1>1. TripInv => PageAndParserAgree
  BY PageAndParser DEF TripInv, PageAndParserAgree
<1> QED
  BY <1>1, TripInvariant, PTL

\* The address asked for is the one that was typed: formatting gives the text
\* back in lower case, and parsing that gives the address.
THEOREM TypedAddress == TripSpec => []AddressIsTheText
<1>1. TripInv => AddressIsTheText
  <2> SUFFICES ASSUME TripInv, stage = "retrieve" PROVE AddressIsTheText
    BY DEF AddressIsTheText
  <2>1. HexText(text) /\ address = AddressOf(text)
    BY DEF TripInv
  <2>2. hex(address) = LowerText(text)
    BY <2>1, HexOfAddress
  <2>3. parse_hex_address(hex(address)) = address
    BY <2>1, <2>2, LowerTextFacts, ParseHex
  <2>4. ASSUME NEW i \in 1..Len(text)
        PROVE  <<lower(text[i][1])>> =
                 IF text[i][1] \in Upper THEN <<text[i][1] + 32>> ELSE text[i]
    <3>1. text[i] \in Seq(Byte) /\ Len(text[i]) = 1
      BY <2>1, ElementOfSeq DEF HexText
    <3>2. text[i] = <<text[i][1]>>
      BY <3>1
    <3> QED
      BY <3>2 DEF lower
  <2>5. LowerText(text) = [i \in 1..Len(text) |->
                             IF text[i][1] \in Upper THEN <<text[i][1] + 32>> ELSE text[i]]
    BY <2>4 DEF LowerText
  <2> QED
    BY <2>2, <2>3, <2>5 DEF AddressIsTheText
<1> QED
  BY <1>1, TripInvariant, PTL

\* The addresses of a round survive the flat list in which they cross the wasm
\* boundary, however many there are and whatever the cache holds already.
THEOREM RecordsCrossWhole == TripSpec => []RecordsSurvive
<1>1. TripInv => RecordsSurvive
  <2> SUFFICES ASSUME TripInv PROVE RecordsSurvive
    OBVIOUS
  <2>1. map \in DataMap
    <3>1. EmptyMap \in DataMap
      BY DEF EmptyMap, DataMap
    <3> QED
      BY <3>1 DEF TripInv, Fresh, Unknown, IntegrityInv, TypeInv, TypeOK
  <2>2. map.infos \in Seq(Addr)
    BY <2>1 DEF DataMap
  <2> QED
    BY <2>2, RequiredType, SplitFlat DEF RecordsSurvive
<1> QED
  BY <1>1, TripInvariant, PTL

\* Whoever types the address that a publisher was given gets that file or an
\* error, whatever the proxy answers.
THEOREM PublishedOrNothing ==
  TripSpec => [](\A c \in Publishable :
                   stage = "retrieve" /\ address = new(c).data_map_address /\ pc = "returned" =>
                     result = c)
<1>1. ASSUME TripInv, NEW c \in Publishable,
             stage = "retrieve", address = new(c).data_map_address, pc = "returned"
      PROVE  result = c
  <2>1. address \in Addr
    BY <1>1, SourceFacts
  <2>2. result = Published(address)
    BY <1>1, <2>1 DEF TripInv, IntegrityInv, ResultIsPublished
  <2> QED
    BY <1>1, <2>2, FixtureIsPublished
<1>2. TripInv => \A c \in Publishable :
                   stage = "retrieve" /\ address = new(c).data_map_address /\ pc = "returned" =>
                     result = c
  BY <1>1
<1> QED
  BY <1>2, TripInvariant, PTL
=============================================================================
