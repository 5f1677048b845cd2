------------------------------ MODULE RoundTrip ------------------------------
(***************************************************************************)
(* From a published file to the same file in the browser: the components   *)
(* on both sides of a proxy that can be reached.  Publishers made the      *)
(* chunks as FixtureSource does; the user types an address into the page,  *)
(* which checks it and calls download(); the wasm client parses it, and    *)
(* retrieve() fetches what the data map lists.                             *)
(***************************************************************************)
EXTENDS Retrieval, FixtureSource, HexAddress

CONSTANTS
  Char,      \* characters that may be typed
  MaxText    \* bound on the characters of a text

ASSUME TextAssumption ==
  /\ MaxText \in Nat
  /\ Char \subseteq Seq(Byte)
  \* UTF-8: one byte below 128, or several from 128 on.
  /\ \A c \in Char : IF Len(c) = 1 THEN c[1] < 128
                                    ELSE Len(c) > 1 /\ \A i \in 1..Len(c) : c[i] >= 128

\* A XorName is an array of ADDRESS_LEN bytes.
ASSUME AddressAssumption == \A a \in Addr : a \in Seq(Byte) /\ Len(a) = ADDRESS_LEN

VARIABLES
  text,    \* the text of the field, then the argument of download()
  stage    \* "typed", "clicked", "refused", "failed" or "retrieve"

tripVars == <<text, stage, vars>>

\* The variables of Retrieval mean something from stage "retrieve" on.
TripInit ==
  /\ Init
  /\ text \in SeqOf(Char, MaxText)
  /\ stage = "typed"

\* The click handler of fetch-custom hands on the trimmed text.
CheckField ==
  /\ stage = "typed"
  /\ IF PageAccepts(text)
     THEN stage' = "clicked" /\ text' = js_trim(text)
     ELSE stage' = "refused" /\ UNCHANGED text
  /\ UNCHANGED vars

\* download() parses the text and calls retrieve(); begin() takes the address
\* only if it has the right length.
Parse ==
  LET parsed == parse_hex_address(text)
  IN  /\ stage = "clicked"
      /\ IF parse_address(parsed) = NoAddress
         THEN stage' = "failed" /\ UNCHANGED address
         ELSE stage' = "retrieve" /\ address' = parsed
      /\ UNCHANGED <<text, pc, machine, freed, round, pool, result>>

Retrieve == stage = "retrieve" /\ Next /\ UNCHANGED <<text, stage>>

TripNext == CheckField \/ Parse \/ Retrieve

TripSpec == TripInit /\ [][TripNext]_tripVars /\ WF_tripVars(CheckField \/ Parse) /\ WF_tripVars(Retrieve)

\* The loop of required_addresses: what the cache lacks, in the map's order.
RequiredRecords ==
  LET out[n \in 0..Len(map.infos)] ==
        IF n = 0
        THEN <<>>
        ELSE IF cache[map.infos[n]] = NoChunk
             THEN Append(out[n - 1], map.infos[n])
             ELSE out[n - 1]
  IN  out[Len(map.infos)]

-----------------------------------------------------------------------------
(* Properties. *)

\* parse_hex_address never indexes past a pair: no text, multi-byte
\* characters included, makes it panic.
ParserNeverPanics == IndexesInRange(text)

\* The page's pattern and the parser agree: what the page lets through is
\* parsed, and what it refuses the parser refuses too, but for texts around
\* which Rust trims a character that JavaScript keeps.
PageAndParserAgree ==
  /\ PageAccepts(text) => parse_hex_address(js_trim(text)) # NoAddress
  /\ ~PageAccepts(text) /\ NextLine \notin ToSet(text) =>
       parse_hex_address(js_trim(text)) = NoAddress

\* The address asked for is the one that was typed: formatting it again, as
\* error messages and the proxy's log do, gives the text in lower case, and
\* parsing that gives the address.
AddressIsTheText ==
  stage = "retrieve" =>
    /\ hex(address) = [i \in 1..Len(text) |->
                         IF text[i][1] \in Upper THEN <<text[i][1] + 32>> ELSE text[i]]
    /\ parse_hex_address(hex(address)) = address

\* The addresses that a round needs come out of the flat list as they went in:
\* none is lost or cut, so getChunk() and supply() never reject one for its
\* length, whatever the cache holds already.
RecordsSurvive == splitAddresses(Flat(RequiredRecords)) = RequiredRecords

\* What was encrypted comes back: whoever types the address that a publisher
\* was given, in whatever case, gets the file, with a flat or a shrunk map.
FileComesBack ==
  \A file \in Files :
    (stage = "retrieve" /\ new(file) # Failed /\ address = new(file).data_map_address)
      ~> (pc = "returned" /\ result = file)
=============================================================================
