----------------------------- MODULE HexAddress -----------------------------
(***************************************************************************)
(* Addresses on their way from the page's input field to the proxy and     *)
(* back: the check of app.js, parse_hex_address, parse_address and hex of  *)
(* crates/wasm-client, and the flat list of records that                   *)
(* required_addresses hands to splitAddresses of retrieve.js.              *)
(*                                                                         *)
(* A text is a sequence of characters, a character the sequence of its     *)
(* UTF-8 bytes: the page counts characters, the parser bytes.              *)
(***************************************************************************)
EXTENDS Integers, Sequences, SequencesExt

CONSTANT ADDRESS_LEN   \* bytes of an address (32 in the code)

ASSUME HexAssumption == ADDRESS_LEN \in Nat \ {0}

Byte == 0..255

\* Err(..) of the parsers, which never return an empty address.
NoAddress == <<>>

\* Whitespace: both trims strip ASCII blanks; JavaScript's alone strips the
\* byte order mark U+FEFF, Rust's alone the next line U+0085.
Blank == {<<9>>, <<10>>, <<13>>, <<32>>}
ByteOrderMark == <<239, 187, 191>>
NextLine == <<194, 133>>

Trimmed(str, white) ==
  LET kept == {i \in 1..Len(str) : str[i] \notin white}
  IN  IF kept = {} THEN <<>> ELSE SubSeq(str, Min(kept), Max(kept))

js_trim(str) == Trimmed(str, Blank \cup {ByteOrderMark})
rs_trim(str) == Trimmed(str, Blank \cup {NextLine})

\* str::as_bytes.
as_bytes(str) == FlattenSeq(str)

-----------------------------------------------------------------------------
\* The digits of [0-9a-fA-F], which is also what hex_digit matches.
Digits == 48..57
Lower  == 97..102
Upper  == 65..70

\* The pattern /^[0-9a-fA-F]{64}$/ on the trimmed text.
PageAccepts(str) ==
  /\ Len(js_trim(str)) = 2 * ADDRESS_LEN
  /\ \A i \in 1..Len(js_trim(str)) :
       \E byte \in Digits \cup Lower \cup Upper : js_trim(str)[i] = <<byte>>

\* Mutants: a range is one letter too long; upper-case digits are taken for
\* lower-case ones.
hex_digit_past_f(byte) ==
  CASE byte \in Digits -> byte - 48
    [] byte \in 97..103 -> byte - 97 + 10
    [] byte \in Upper -> byte - 65 + 10
    [] OTHER -> -1
hex_digit_lower(byte) ==
  CASE byte \in Digits -> byte - 48
    [] byte \in Lower \cup Upper -> (byte - 97 + 10) % 256
    [] OTHER -> -1

\* Result<u8, Error>, with -1 for the error.
hex_digit(byte) ==
  CASE byte \in Digits -> byte - 48
    [] byte \in Lower -> byte - 97 + 10
    [] byte \in Upper -> byte - 65 + 10
    [] OTHER -> -1

\* Mutant: the length is counted in characters.
LengthIsRight_chars(str) == Len(str) = 2 * ADDRESS_LEN

\* str::len counts bytes.
LengthIsRight(str) == Len(as_bytes(str)) = 2 * ADDRESS_LEN

\* as_bytes().chunks(2): the last pair is short if the count is odd.
Pairs(bytes) == [i \in 1..((Len(bytes) + 1) \div 2) |->
                   SubSeq(bytes, 2 * i - 1, IF 2 * i <= Len(bytes) THEN 2 * i ELSE 2 * i - 1)]

\* hi << 4 | lo in u8.
Joined(pair) == ((hex_digit(pair[1]) * 16) % 256) + hex_digit(pair[2])

parse_hex_address(str) ==
  LET pairs == Pairs(as_bytes(rs_trim(str)))
  IN  IF \/ ~LengthIsRight(rs_trim(str))
         \/ \E i \in 1..Len(pairs) : \E byte \in ToSet(pairs[i]) : hex_digit(byte) = -1
      THEN NoAddress
      ELSE [i \in 1..Len(pairs) |-> Joined(pairs[i])]

\* parse_hex_address indexes pair[0] and pair[1] of every pair it looks at.
IndexesInRange(str) ==
  LengthIsRight(rs_trim(str)) =>
    \A pair \in ToSet(Pairs(as_bytes(rs_trim(str)))) : Len(pair) = 2

\* {byte:02x}, and toString(16).padStart(2, '0') of toHex.
Nibble(n) == IF n < 10 THEN <<48 + n>> ELSE <<97 + n - 10>>

hex(bytes) == FlattenSeq([i \in 1..Len(bytes) |->
                            <<Nibble(bytes[i] \div 16), Nibble(bytes[i] % 16)>>])

\* parse_address: <[u8; ADDRESS_LEN]>::try_from.
parse_address(bytes) == IF Len(bytes) = ADDRESS_LEN THEN bytes ELSE NoAddress

-----------------------------------------------------------------------------
\* required_addresses: records one after the other, and splitAddresses, which
\* cuts them apart again (subarray stops at the end of the buffer).
Flat(records) == FlattenSeq(records)

\* Mutant: the last record is forgotten when the list has several.
splitAddresses_short(flat) ==
  [i \in 1..((Len(flat) - 1) \div ADDRESS_LEN) |->
     SubSeq(flat, (i - 1) * ADDRESS_LEN + 1, i * ADDRESS_LEN)]

splitAddresses(flat) ==
  [i \in 1..((Len(flat) + ADDRESS_LEN - 1) \div ADDRESS_LEN) |->
     SubSeq(flat, (i - 1) * ADDRESS_LEN + 1,
            IF i * ADDRESS_LEN <= Len(flat) THEN i * ADDRESS_LEN ELSE Len(flat))]
=============================================================================
