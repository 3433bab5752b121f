----------------------------- MODULE Deployment -----------------------------
(***************************************************************************)
(* dbgen on the host and the daemon on the device, which loads the file    *)
(* when it starts (valor.c:44-53).  The device has a copy of the file as   *)
(* it was between two invocations, and never writes it.  As nothing else   *)
(* depends on the daemon, it is enough to let it run there and then, in    *)
(* the place of a dbgen.                                                   *)
(***************************************************************************)
EXTENDS Dbgen

DbgenSteps == block # "valord" /\ Next

\* fopen, and the metadata.
Boot ==
  /\ block = "open"
  /\ exists
  /\ Store!ReadMetadata
  /\ block' = "valord"
  /\ UNCHANGED <<exists, history>>

DaemonReads ==
  /\ block = "valord"
  /\ ReadsName \/ ReadsTree

\* Of a process it judges.
DaemonChecksName(name) ==
  /\ block = "valord"
  /\ Store!CheckNameFails(name)
  /\ UNCHANGED <<exists, block, history>>

DaemonEnds ==
  /\ block = "valord"
  /\ Crash \/ Restart

DeploymentNext ==
  \/ DbgenSteps
  \/ Boot \/ DaemonReads
  \/ \E name \in Strings : DaemonChecksName(name)
  \/ DaemonEnds

DeploymentSpec == Init /\ [][DeploymentNext]_dbgen

-----------------------------------------------------------------------------
\* The program that runs holds a database whose names are inside their array; the
\* file is what a save writes or of no use, and has no records before it
\* exists; no program is between two of them (dbgen.c:43-70, valor.c:44-53).
TypeOK ==
  /\ db.modulo \in Nat /\ db \in Databases(db.modulo)
  /\ InBounds(db.names)
  /\ WellFormed(file) \/ file = Store!Garbage
  /\ file # <<>> => exists
  /\ block \in DOMAIN After \cup {"open", "save", "exit", "valord"}
  /\ block = "open" <=> pc = "idle"
  /\ block = "valord" => pc \in {"reading", "ready", "lost", "aborted"}

=============================================================================
