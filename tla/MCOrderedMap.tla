---------------------------- MODULE MCOrderedMap ----------------------------
(***************************************************************************)
(* Two maps with three keys for TLC, and as many nodes as they can need.   *)
(***************************************************************************)
EXTENDS OrderedMap

MCKeys    == { 1, 2, 3 }
MCValues  == { 0, 1 }
MCStdHash == [ x \in MCKeys \cup MCValues |-> x ]

(* Nodes are only compared with one another.                               *)
AnyNodes == Permutations(Nodes)

=============================================================================
