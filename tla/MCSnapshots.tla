----------------------------- MODULE MCSnapshots ----------------------------
(* Snapshots, for TLC.                                                     *)
EXTENDS Snapshots, TLC

CONSTANTS a, b

(* Two entities with components in common and of their own, one of which   *)
(* readers do not know, an entity without components, and one with a       *)
(* component that no registry knows.                                       *)
MCFirst  == [ c \in { "Position", "Color" } |-> a ]
MCSecond == [ c \in { "Position", "Metadata" } |-> b ]

MCMaps ==
  { << >>, 1 :> MCFirst @@ 2 :> MCSecond, 2 :> MCFirst @@ 3 :> << >>,
    4 :> MCSecond @@ 5 :> [ c \in { "Unknown" } |-> a ] }

MCReaderRegistry == { "Position", "Metadata", "EntityAcl" }
=============================================================================
