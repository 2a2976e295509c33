--------------------------- MODULE MCReplication ---------------------------
(* Small instances of Replication.                                         *)
EXTENDS Replication

CONSTANTS open, closed, position, o1, o2
=============================================================================
