------------------------------- MODULE MCView -------------------------------
(***************************************************************************)
(* Small Views for TLC: two entities, and two components, of which one is  *)
(* enough where exceptions leave a View behind, to tell apart what belongs *)
(* to which, and two values, to tell new data from stale.                  *)
(***************************************************************************)
EXTENDS View, TLC

CONSTANTS Position, Metadata, e1, e2, v1, v2

MCOneComponent  == << Position >>
MCComponentList == << Position, Metadata >>
MCComponents    == { Position, Metadata }
MCEntityIds     == { e1, e2 }
MCValues        == { v1, v2 }

(* Entities and values are only compared for equality.                     *)
MCSymmetry == Permutations(MCEntityIds) \cup Permutations(MCValues)

=============================================================================
