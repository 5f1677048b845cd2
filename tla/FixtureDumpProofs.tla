-------------------------- MODULE FixtureDumpProofs --------------------------
(***************************************************************************)
(* A dump that prints its address left a readable directory, whatever      *)
(* interrupted dumps went into it before, and the marker always names a    *)
(* file that was published.                                                *)
(***************************************************************************)
EXTENDS FixtureDump, SelfEncryptionProofs

\* Once all is written, a reader of the directory gets the file back.
LEMMA WrittenIsReadable ==
  ASSUME DumpInv, Written, todo = {}
  PROVE  ReadBack(Dumped, source.data_map_address) = file
<1>1. file \in Publishable
  BY DEF DumpInv, TypeOK, Publishable
<1>2. Dumped \in Store
  BY DEF Dumped, Store, DumpInv, TypeOK
<1>3. ASSUME NEW a \in addresses(source) PROVE Dumped[a] = get(source, a)
  <2>1. dir[a] = get(source, a) /\ a \in Addr /\ dir[a] \in Bytes
    BY <1>1, SourceFacts DEF Written, source
  <2> QED
    BY <2>1, DumpAssumption DEF Dumped
<1> QED
  BY <1>1, <1>2, <1>3, SourceIsReadable DEF source

\* The inductive step.
LEMMA DumpStep == DumpInv /\ [Next]_vars => DumpInv'
<1> SUFFICES ASSUME DumpInv, [Next]_vars PROVE DumpInv'
  OBVIOUS
<1> USE DumpAssumption
<1>1. file \in Publishable
  BY DEF DumpInv, TypeOK, Publishable
<1>2. ASSUME NEW c \in Files, Start(c) PROVE DumpInv'
  <2>1. c \in Publishable /\ addresses(new(c)) \subseteq Addr
    BY <1>2, SourceFacts DEF Start, Publishable
  <2>2. TypeOK'
    BY <1>2, <2>1 DEF Start, DumpInv, TypeOK
  <2>3. FilesAreTrue'
    BY <1>2 DEF Start, DumpInv, FilesAreTrue
  <2>4. source' = new(c) /\ todo' = addresses(source)' /\ new(file') # Failed /\ pc' = "chunks"
    BY <1>2 DEF Start, source
  <2>5. Written'
    BY <2>4 DEF Written
  <2>6. dumps' > 0 /\ (dumps' = 1 => marker' = NoChunk)
    BY <1>2 DEF Start, DumpInv, TypeOK
  <2> QED
    BY <2>2, <2>3, <2>4, <2>5, <2>6 DEF DumpInv
<1>3. ASSUME NEW a \in todo, OpenChunk(a) PROVE DumpInv'
  <2>1. UNCHANGED <<file, todo, marker, printed, dumps>> /\ pc' = "writing" /\ current' = a
        /\ pc = "chunks" /\ a \in Addr /\ dir' = [dir EXCEPT ![a] = Torn] /\ source' = source
    BY <1>3 DEF OpenChunk, DumpInv, TypeOK, source
  <2>2. TypeOK'
    BY <2>1 DEF DumpInv, TypeOK
  <2>3. FilesAreTrue'
    BY <2>1 DEF DumpInv, TypeOK, FilesAreTrue
  <2>4. Written'
    BY <2>1 DEF DumpInv, TypeOK, Written
  <2> QED
    BY <2>1, <2>2, <2>3, <2>4 DEF DumpInv
<1>4. CASE WriteChunk
  <2>1. UNCHANGED <<file, current, marker, printed, dumps>> /\ pc' = "chunks"
        /\ pc = "writing" /\ todo' = todo \ {current} /\ source' = source
        /\ dir' = [dir EXCEPT ![current] = get(source, current)]
    BY <1>4 DEF WriteChunk, source
  <2>2. current \in todo /\ current \in addresses(source) /\ current \in Addr
    BY <2>1 DEF DumpInv, TypeOK
  <2>3. get(source, current) \in Bytes /\ address_of(get(source, current)) = current
    BY <1>1, <2>2, SourceFacts DEF source
  <2>4. TypeOK'
    BY <2>1, <2>3 DEF DumpInv, TypeOK
  <2>5. FilesAreTrue'
    BY <2>1, <2>3 DEF DumpInv, TypeOK, FilesAreTrue
  <2>6. Written'
    BY <1>1, <2>1, <2>2, SourceFacts DEF DumpInv, TypeOK, Written, source
  <2> QED
    BY <2>1, <2>2, <2>4, <2>5, <2>6 DEF DumpInv
<1>5. CASE OpenMarker
  <2>1. UNCHANGED <<file, todo, current, dir, printed, dumps>> /\ pc' = "marking"
        /\ pc = "chunks" /\ marker' = Torn /\ todo = {} /\ source' = source
    BY <1>5 DEF OpenMarker, source
  <2>2. TypeOK' /\ FilesAreTrue' /\ Written'
    BY <2>1 DEF DumpInv, TypeOK, FilesAreTrue, Written
  <2> QED
    BY <2>1, <2>2 DEF DumpInv
<1>6. CASE WriteMarker
  <2>1. UNCHANGED <<file, todo, current, dir, printed, dumps>> /\ pc' = "print"
        /\ pc = "marking" /\ marker' = source.data_map_address /\ source' = source
    BY <1>6 DEF WriteMarker, source
  <2>2. source.data_map_address \in Addr
    BY <1>1, SourceFacts DEF source
  <2>3. TypeOK' /\ FilesAreTrue' /\ Written'
    BY <2>1, <2>2 DEF DumpInv, TypeOK, FilesAreTrue, Written
  <2> QED
    BY <2>1, <2>3 DEF DumpInv
<1>7. CASE PrintAddress \/ Interrupted
  <2>1. UNCHANGED <<file, todo, current, dir, marker, dumps>> /\ pc' = "off"
        /\ printed' \in {printed, printed \cup {file}} /\ source' = source
    BY <1>7 DEF PrintAddress, Interrupted, source
  <2>2. TypeOK' /\ FilesAreTrue' /\ Written' = Written
    BY <2>1 DEF DumpInv, TypeOK, FilesAreTrue, Written
  <2> QED
    BY <2>1, <2>2 DEF DumpInv
<1>8. CASE UNCHANGED vars
  BY <1>8 DEF vars, DumpInv, TypeOK, FilesAreTrue, Written, source
<1> QED
  BY <1>2, <1>3, <1>4, <1>5, <1>6, <1>7, <1>8 DEF Next

\* What the loop has visited is written, complete files hold the blob that
\* hashes to their name, and the marker comes last, for any file and any
\* number of interrupted dumps.
THEOREM DumpInvariant == Spec => []DumpInv
<1>1. Init => DumpInv
  <2> SUFFICES ASSUME Init PROVE DumpInv
    OBVIOUS
  <2>1. TypeOK
    BY DumpAssumption DEF Init, TypeOK
  <2>2. FilesAreTrue
    BY DecoderAssumption DEF Init, FilesAreTrue
  <2> QED
    BY <2>1, <2>2 DEF Init, DumpInv
<1> QED
  BY <1>1, DumpStep, PTL DEF Spec

\* In a directory that one dump wrote, the marker is the commit point.
THEOREM MarkerCommits == Spec => []FirstMarkerCommits
<1>1. DumpInv => FirstMarkerCommits
  <2> SUFFICES ASSUME DumpInv, dumps = 1, marker \in Addr
               PROVE  ReadBack(Dumped, marker) = file
    BY DEF FirstMarkerCommits
  <2>1. todo = {} /\ Written /\ marker = source.data_map_address
    BY DumpAssumption DEF DumpInv
  <2> QED
    BY <2>1, WrittenIsReadable
<1> QED
  BY <1>1, DumpInvariant, PTL

\* When dump() prints an address, the directory gives the file back.
THEOREM PrintedAddressIsReadable == Spec => PrintedIsReadable
<1> DEFINE Readable ==
      pc = "print" /\ pc' = "off" => ReadBack(Dumped, source.data_map_address) = file
<1>1. DumpInv => Readable
  BY WrittenIsReadable DEF DumpInv
<1> QED
  BY <1>1, DumpInvariant, PTL DEF PrintedIsReadable

\* Later dumps never take anything away from the file that the marker names.
THEOREM MarkerAlwaysNamesFile == Spec => []MarkerNamesFile
<1>1. Init => MarkerNamesFile
  BY DumpAssumption DEF Init, MarkerNamesFile
<1>2. DumpInv /\ MarkerNamesFile /\ [Next]_vars => MarkerNamesFile'
  <2> SUFFICES ASSUME DumpInv, MarkerNamesFile, [Next]_vars, marker' \in Addr
               PROVE  \E c \in Publishable :
                        /\ marker' = new(c).data_map_address
                        /\ \A a \in addresses(new(c)) : dir'[a] \in {get(new(c), a), Torn}
    BY DEF MarkerNamesFile, Publishable
  <2>1. file \in Publishable
    BY DEF DumpInv, TypeOK, Publishable
  <2>2. CASE WriteMarker
    <3>1. \A a \in addresses(new(file)) : dir'[a] = get(new(file), a)
      BY <2>2 DEF WriteMarker, DumpInv, Written, source
    <3> QED
      BY <2>1, <2>2, <3>1 DEF WriteMarker, source
  <2>3. CASE ~WriteMarker
    <3>1. marker' = marker
      BY <2>3, DumpAssumption DEF Next, Start, OpenChunk, WriteChunk, OpenMarker, PrintAddress,
                                  Interrupted, vars
    <3>2. PICK c \in Publishable :
            /\ marker = new(c).data_map_address
            /\ \A a \in addresses(new(c)) : dir[a] \in {get(new(c), a), Torn}
      BY <3>1 DEF MarkerNamesFile, Publishable
    <3>3. ASSUME NEW a \in addresses(new(c)) PROVE dir'[a] \in {get(new(c), a), Torn}
      <4>1. a \in Addr
        BY SourceFacts
      <4>2. CASE WriteChunk
        <5>1. current \in addresses(source)
          BY <4>2 DEF WriteChunk, DumpInv
        <5>2. a = current => get(source, a) = get(new(c), a)
          BY <2>1, <5>1, SourcesAgree DEF source
        <5> QED
          BY <3>2, <4>1, <4>2, <5>2 DEF WriteChunk, DumpInv, TypeOK
      <4>3. CASE \E b \in todo : OpenChunk(b)
        BY <3>2, <4>1, <4>3 DEF OpenChunk, DumpInv, TypeOK
      <4>4. CASE dir' = dir
        BY <3>2, <4>4
      <4> QED
        BY <2>3, <4>2, <4>3, <4>4 DEF Next, Start, OpenMarker, PrintAddress, Interrupted, vars
    <3> QED
      BY <3>1, <3>2, <3>3
  <2> QED
    BY <2>2, <2>3
<1> QED
  BY <1>1, <1>2, DumpInvariant, PTL DEF Spec
=============================================================================
