----------------------------- MODULE MCCommands -----------------------------
(***************************************************************************)
(* Commands between two workers.                                           *)
(***************************************************************************)
EXTENDS Commands

CONSTANTS w1, w2

MCWorkers == { w1, w2 }
MCInt64s == { 0, 1 }
MCStrings == { "" }
MCDiscs == { [ x |-> 0, z |-> 1 ] }
MCFailures == { "kTimeout" }
=============================================================================
