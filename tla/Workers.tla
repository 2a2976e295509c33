------------------------------- MODULE Workers ------------------------------
(***************************************************************************)
(* The two programs of this project, either of which is started.  They     *)
(* share Worker, and whatever is claimed of one is claimed of both.        *)
(***************************************************************************)
EXTENDS ManagedWorker, ExternalWorker

VARIABLE program \* Managed or External

workersVars == << managedVars, program >>

WorkersInit ==
  /\ program \in { "Managed", "External" }
  /\ ManagedInit
  /\ ExternalInit

ProgramStep ==
  /\ \/ program = "Managed" /\ ManagedStep
     \/ program = "External" /\ ExternalStep /\ UNCHANGED position
  /\ UNCHANGED program

WorkersNext == ProgramStep \/ (SpatialOSStep /\ UNCHANGED << position, program >>)

(* The operating system runs the program; SpatialOS need not do anything.  *)
WorkersSpec ==
  WorkersInit /\ [][WorkersNext]_workersVars /\ WF_workersVars(ProgramStep)

-----------------------------------------------------------------------------
(* Every variable keeps to its type; the port is of sixteen bits, however  *)
(* it was given.                                                           *)
WorkersTypeOK ==
  /\ WorkerTypeOK
  /\ position \in { "unset", "origin", "five" }
  /\ program = "External" => position = "unset"

=============================================================================
