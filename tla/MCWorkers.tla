------------------------------ MODULE MCWorkers -----------------------------
(***************************************************************************)
(* The workers for TLC: messages of both severities, an operation nobody   *)
(* has a callback for, the disconnection and the worker's own updates.     *)
(***************************************************************************)
EXTENDS Workers

CONSTANTS Position

MCDisconnectOp == [ type |-> "disconnect" ]
MCEchoOp       == [ type |-> "component_update", component |-> Position ]

MCRemoteOps ==
  [ type : { "log_message" }, level : { "kInfo", "kFatal" } ]
    \cup { [ type |-> "add_entity" ] }

MCOps        == MCRemoteOps \cup { MCDisconnectOp, MCEchoOp }
MCComponents == { Position }

(* The default port, and one that does not fit into sixteen bits.          *)
MCPorts == { 7777, 70000 }

=============================================================================
