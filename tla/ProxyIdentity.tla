---------------------------- MODULE ProxyIdentity ----------------------------
(***************************************************************************)
(* The life of a proxy process as crates/proxy/src/main.rs starts it: the  *)
(* identity key and the DTLS certificate are loaded from the state         *)
(* directory or created there, the chunk source is set up, and the swarm   *)
(* listens and prints the multiaddr that browsers hard-code.  The process  *)
(* may be killed between any two of its system calls, and started again.   *)
(*                                                                         *)
(* A file is written by tokio::fs::write, which truncates it before it     *)
(* writes: a process killed in between leaves a file that does not decode. *)
(***************************************************************************)
EXTENDS Integers, FiniteSets

CONSTANTS
  MaxSecret,   \* bound on the number of keys and certificates ever generated
  MaxKills,    \* bound on the number of kills
  ReadErrors   \* may reading an existing file fail (permissions, I/O error)?

ASSUME IdentityAssumption ==
  /\ MaxSecret \in Nat \ {0}
  /\ MaxKills \in Nat
  /\ ReadErrors \in BOOLEAN

\* The two files; both are handled in the same way, one after the other.
File == {"identity.key", "cert.pem"}

\* Contents of a file besides a generated secret, numbered from 1.
Absent == 0
Torn   == -1

VARIABLES
  disk,      \* content of each file
  pc,        \* "off", "load", "write", "source", "listen", "running"
  current,   \* the file being loaded or created
  loaded,    \* the secret in memory for each file, Absent if none yet
  secrets,   \* number of secrets generated so far
  kills,     \* number of kills so far
  printed    \* every multiaddr that was ever printed

identityVars == <<disk, pc, current, loaded, secrets, kills, printed>>

Nothing == [f \in File |-> Absent]

IdentityInit ==
  /\ disk = Nothing
  /\ pc = "off"
  /\ current = "identity.key"
  /\ loaded = Nothing
  /\ secrets = 0 /\ kills = 0
  /\ printed = {}

\* The operator, or a supervisor, starts the proxy; if the state directory
\* cannot be created it exits at once, which changes nothing.
Start ==
  /\ pc = "off"
  /\ pc' = "load"
  /\ current' = "identity.key"
  /\ loaded' = Nothing
  /\ UNCHANGED <<disk, secrets, kills, printed>>

\* After the identity comes the certificate, then the chunk source.
NextPhase ==
  IF current = "identity.key"
  THEN pc' = "load" /\ current' = "cert.pem"
  ELSE pc' = "source" /\ UNCHANGED current

\* The file is read and decodes.
Load ==
  /\ pc = "load"
  /\ disk[current] > 0
  /\ loaded' = [loaded EXCEPT ![current] = disk[current]]
  /\ NextPhase
  /\ UNCHANGED <<disk, secrets, kills, printed>>

\* The file is read and does not decode: the process exits with an error.
LoadFails ==
  /\ pc = "load"
  /\ disk[current] = Torn
  /\ pc' = "off"
  /\ UNCHANGED <<disk, current, loaded, secrets, kills, printed>>

\* Mutant: the proxy does not look whether the file is there.
ReadFails_always(f) == TRUE

\* Every error of the read counts as "not there yet", not only NotFound.
ReadFails(f) == disk[f] = Absent \/ ReadErrors

\* The file cannot be read: a new secret is generated, and the file truncated.
Create ==
  /\ pc = "load"
  /\ ReadFails(current)
  /\ secrets < MaxSecret
  /\ secrets' = secrets + 1
  /\ loaded' = [loaded EXCEPT ![current] = secrets + 1]
  /\ disk' = [disk EXCEPT ![current] = Torn]
  /\ pc' = "write"
  /\ UNCHANGED <<current, kills, printed>>

\* Mutant: the secret is kept in memory only.
Persist_nothing ==
  /\ pc = "write"
  /\ disk' = [disk EXCEPT ![current] = Absent]
  /\ NextPhase
  /\ UNCHANGED <<loaded, secrets, kills, printed>>

\* The write completes.
Persist ==
  /\ pc = "write"
  /\ disk' = [disk EXCEPT ![current] = loaded[current]]
  /\ NextPhase
  /\ UNCHANGED <<loaded, secrets, kills, printed>>

\* The write fails (disk full): the process exits and leaves the file torn.
PersistFails ==
  /\ pc = "write"
  /\ pc' = "off"
  /\ UNCHANGED <<disk, current, loaded, secrets, kills, printed>>

\* The source connects (or the fixture is encrypted) and the swarm listens;
\* either may fail, which ends the process.
SetUp ==
  /\ pc \in {"source", "listen"}
  /\ pc' \in {"off", IF pc = "source" THEN "listen" ELSE "running"}
  /\ UNCHANGED <<disk, current, loaded, secrets, kills, printed>>

\* SwarmEvent::NewListenAddr: print the multiaddr with certhash and PeerId.
PrintMultiaddr ==
  /\ pc = "running"
  /\ printed' = printed \cup {loaded}
  /\ UNCHANGED <<disk, pc, current, loaded, secrets, kills>>

\* Ctrl-C ends the event loop.
Shutdown ==
  /\ pc = "running"
  /\ pc' = "off"
  /\ UNCHANGED <<disk, current, loaded, secrets, kills, printed>>

\* The process dies at any point.
Kill ==
  /\ pc # "off"
  /\ kills < MaxKills
  /\ kills' = kills + 1
  /\ pc' = "off"
  /\ UNCHANGED <<disk, current, loaded, secrets, printed>>

\* After LoadFails only an operator helps, who removes the torn file; bounded
\* so that a later start can still generate both secrets.
Repair(f) ==
  /\ pc = "off"
  /\ disk[f] = Torn
  /\ secrets + Cardinality(File) <= MaxSecret
  /\ disk' = [disk EXCEPT ![f] = Absent]
  /\ UNCHANGED <<pc, current, loaded, secrets, kills, printed>>

IdentityNext ==
  \/ Start \/ Load \/ LoadFails \/ Create \/ Persist \/ PersistFails
  \/ SetUp \/ PrintMultiaddr \/ Shutdown \/ Kill
  \/ \E f \in File : Repair(f)

IdentitySpec == IdentityInit /\ [][IdentityNext]_identityVars

-----------------------------------------------------------------------------
(* Properties. *)

\* Every variable has its type.
IdentityTypeOK ==
  /\ disk \in [File -> {Torn, Absent} \cup 1..MaxSecret]
  /\ pc \in {"off", "load", "write", "source", "listen", "running"}
  /\ current \in File
  /\ loaded \in [File -> {Absent} \cup 1..MaxSecret]
  /\ secrets \in 0..MaxSecret
  /\ kills \in 0..MaxKills
  /\ printed \subseteq [File -> {Absent} \cup 1..MaxSecret]

\* The multiaddr handed out to browsers never changes: whatever is killed or
\* fails in between, every run of the proxy that gets as far as listening
\* prints the same PeerId and certhash.
MultiaddrIsStable == Cardinality(printed) <= 1

\* A proxy that listens can be restarted under the same multiaddr: what it
\* uses is what is on disk, complete.
ListensWithWhatIsOnDisk == pc \in {"source", "listen", "running"} => disk = loaded

\* A start that fails on a torn file costs nobody their multiaddr: from the
\* first printed one on, both files hold what was printed, whole, so that
\* neither a kill nor the repair of a torn file can lose it.
PublishedIsRestartable ==
  \A p \in printed : p = disk /\ \A f \in File : disk[f] > 0

\* A file that was written completely is never replaced.
SecretsAreKept ==
  [][\A f \in File : disk[f] > 0 => disk'[f] = disk[f]]_identityVars

\* The inductive invariant behind MultiaddrIsStable without read errors: what
\* was loaded or printed is what the files hold, and files in use are complete.
IdentityInv ==
  /\ IdentityTypeOK
  /\ PublishedIsRestartable
  /\ pc = "write" => disk[current] = Torn /\ loaded[current] > 0
  /\ pc \in {"load", "write"} /\ current = "cert.pem" =>
       loaded["identity.key"] = disk["identity.key"] /\ disk["identity.key"] > 0
  /\ pc \in {"source", "listen", "running"} => disk = loaded /\ \A f \in File : disk[f] > 0
=============================================================================
