---------------------------- MODULE MCDispatcher ----------------------------
(***************************************************************************)
(* A small dispatcher for TLC: a slot whose callbacks are invoked in both  *)
(* orders (critical_section) and one of the component slots                *)
(* (component_update).                                                     *)
(***************************************************************************)
EXTENDS Dispatcher

CONSTANTS Position

MCComponents == { Position }

MCOps ==
  { [ type |-> "critical_section", in_critical_section |-> TRUE ],
    [ type |-> "critical_section", in_critical_section |-> FALSE ],
    [ type |-> "component_update", component |-> Position ] }

=============================================================================
