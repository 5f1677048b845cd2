----------------------------- MODULE FixtureDump -----------------------------
(***************************************************************************)
(* --dump-to: dump() of crates/proxy/src/main.rs writes one file per chunk *)
(* of a fixture into a directory, then the marker data-map-address, and    *)
(* prints the address.  The process may be killed, or a write may fail, at *)
(* any point, and the next dump may go into the same directory.            *)
(*                                                                         *)
(* A file is written by tokio::fs::write, which truncates it before it     *)
(* writes: what an interrupted write leaves is Torn.                       *)
(***************************************************************************)
EXTENDS FixtureSource

CONSTANTS
  Torn,       \* content of a file that is not written completely
  MaxDumps    \* bound on the number of dumps

ASSUME DumpAssumption ==
  Torn \notin Bytes /\ Torn \notin Addr /\ NoChunk \notin Addr /\ MaxDumps \in Nat

VARIABLES
  file,     \* the file being dumped
  todo,     \* addresses that the loop has not visited
  current,  \* the address being written
  pc,       \* "off", "chunks", "writing", "marking" or "print"
  dir,      \* what the directory holds under each address
  marker,   \* content of data-map-address
  printed,  \* the files whose address was printed
  dumps     \* number of dumps started

vars == <<file, todo, current, pc, dir, marker, printed, dumps>>

source == new(file)

Init ==
  /\ file \in {c \in Files : new(c) # Failed}
  /\ todo = {} /\ current = NoChunk
  /\ pc = "off"
  /\ dir = [a \in Addr |-> NoChunk]
  /\ marker = NoChunk
  /\ printed = {}
  /\ dumps = 0

\* The fixture is read and self-encrypted, and the directory created.  If any
\* of this fails the process exits, and nothing has changed.
Start(c) ==
  /\ pc = "off"
  /\ dumps < MaxDumps
  /\ new(c) # Failed
  /\ file' = c
  /\ todo' = addresses(new(c))
  /\ pc' = "chunks"
  /\ dumps' = dumps + 1
  /\ UNCHANGED <<current, dir, marker, printed>>

\* The loop over addresses(), in the order of a HashMap: truncate ...
OpenChunk(a) ==
  /\ pc = "chunks"
  /\ a \in todo
  /\ dir' = [dir EXCEPT ![a] = Torn]
  /\ current' = a
  /\ pc' = "writing"
  /\ UNCHANGED <<file, todo, marker, printed, dumps>>

\* Mutant: the files are named after the data map they belong to.
WriteChunk_misnamed ==
  /\ pc = "writing"
  /\ dir' = [dir EXCEPT ![current] = get(source, source.data_map_address)]
  /\ todo' = todo \ {current}
  /\ pc' = "chunks"
  /\ UNCHANGED <<file, current, marker, printed, dumps>>

\* ... and write.
WriteChunk ==
  /\ pc = "writing"
  /\ dir' = [dir EXCEPT ![current] = get(source, current)]
  /\ todo' = todo \ {current}
  /\ pc' = "chunks"
  /\ UNCHANGED <<file, current, marker, printed, dumps>>

\* Mutant: the marker is written before the chunks are.
OpenMarker_early ==
  /\ pc = "chunks"
  /\ marker' = Torn
  /\ pc' = "marking"
  /\ UNCHANGED <<file, todo, current, dir, printed, dumps>>

OpenMarker ==
  /\ pc = "chunks"
  /\ todo = {}
  /\ marker' = Torn
  /\ pc' = "marking"
  /\ UNCHANGED <<file, todo, current, dir, printed, dumps>>

WriteMarker ==
  /\ pc = "marking"
  /\ marker' = source.data_map_address
  /\ pc' = "print"
  /\ UNCHANGED <<file, todo, current, dir, printed, dumps>>

PrintAddress ==
  /\ pc = "print"
  /\ printed' = printed \cup {file}
  /\ pc' = "off"
  /\ UNCHANGED <<file, todo, current, dir, marker, dumps>>

\* A write fails, or the process is killed.
Interrupted ==
  /\ pc # "off"
  /\ pc' = "off"
  /\ UNCHANGED <<file, todo, current, dir, marker, printed, dumps>>

Next ==
  \/ \E c \in Files : Start(c)
  \/ \E a \in todo : OpenChunk(a)
  \/ WriteChunk \/ OpenMarker \/ WriteMarker \/ PrintAddress \/ Interrupted

Spec == Init /\ [][Next]_vars

-----------------------------------------------------------------------------
(* Properties. *)

\* The directory as a reader sees it: a torn file fails verification.
Dumped == [a \in Addr |-> IF dir[a] = Torn THEN NoChunk ELSE dir[a]]

\* Every variable has its type.
TypeOK ==
  /\ file \in Files /\ printed \subseteq Files
  /\ todo \subseteq Addr /\ current \in Addr \cup {NoChunk}
  /\ pc \in {"off", "chunks", "writing", "marking", "print"}
  /\ dir \in [Addr -> Bytes \cup {NoChunk, Torn}]
  /\ marker \in Addr \cup {NoChunk, Torn}
  /\ dumps \in 0..MaxDumps

\* A file that is complete holds the blob that hashes to its name, whatever
\* was dumped into the directory before and wherever that was interrupted.
FilesAreTrue == \A a \in Addr : dir[a] \in Bytes => address_of(dir[a]) = a

\* When dump() prints an address, the directory holds all that a reader needs
\* to get the file back from it, older and interrupted dumps notwithstanding.
PrintedIsReadable ==
  [][pc = "print" /\ pc' = "off" => ReadBack(Dumped, source.data_map_address) = file]_vars

\* In a directory that one dump wrote, the marker is the commit point: if it
\* is there, the file it names can be read back, even after a kill.
FirstMarkerCommits == dumps = 1 /\ marker \in Addr => ReadBack(Dumped, marker) = file

\* The inductive invariant: what the loop has visited is written, the marker
\* comes last, and in a first dump it vouches for every file.
Written == \A a \in addresses(source) \ todo : dir[a] = get(source, a)

DumpInv ==
  /\ TypeOK
  /\ FilesAreTrue
  /\ new(file) # Failed
  /\ todo \subseteq addresses(source)
  /\ pc # "off" => dumps > 0 /\ Written
  /\ pc = "writing" => current \in todo
  /\ pc \in {"marking", "print"} => todo = {}
  /\ pc = "print" => marker = source.data_map_address
  /\ dumps = 0 => marker = NoChunk
  /\ dumps = 1 /\ marker # NoChunk => todo = {} /\ Written
  /\ dumps = 1 /\ marker \in Addr => marker = source.data_map_address

\* Later dumps may be interrupted over the files of an earlier one, but they
\* never take anything away: the marker names a file that can be read back, or
\* one of whose chunks is being rewritten or was torn while being rewritten.
MarkerNamesFile ==
  marker \in Addr =>
    \E c \in Files :
      /\ new(c) # Failed /\ marker = new(c).data_map_address
      /\ \A a \in addresses(new(c)) : dir[a] \in {get(new(c), a), Torn}
=============================================================================
