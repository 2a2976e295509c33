----------------------------- MODULE Operations -----------------------------
(***************************************************************************)
(* The operations a SpatialOS worker is sent, and the two questions the    *)
(* Dispatcher asks of each: whose callbacks are invoked, and in which      *)
(* order.                                                                  *)
(*                                                                         *)
(* An operation is a record.  Every operation has a `type`; the types of   *)
(* ComponentTypes also have a `component`.  Three types carry the field    *)
(* that decides between the two orders: `value` (flag_update),             *)
(* `in_critical_section` (critical_section) and `authority`                *)
(* (authority_change).  Whatever else an operation carries is data for its *)
(* callbacks.                                                              *)
(***************************************************************************)
EXTENDS Integers, Sequences

CONSTANTS
  Components,  \* the component ids of the worker's component registry
  Ops,         \* the operations the worker may be sent
  NoComponent, \* stands for the component of an operation that has none
  Deleted      \* the value of a worker flag that no longer exists

(* The operations that are dispatched by type alone.                       *)
PlainTypes ==
  { "disconnect", "flag_update", "log_message", "metrics", "critical_section",
    "add_entity", "remove_entity", "reserve_entity_id_response",
    "reserve_entity_ids_response", "create_entity_response",
    "delete_entity_response", "entity_query_response" }

(* The operations that are dispatched by type and component id.            *)
ComponentTypes ==
  { "add_component", "remove_component", "authority_change",
    "component_update", "command_request", "command_response" }

AuthorityStates ==
  { "kNotAuthoritative", "kAuthoritative", "kAuthorityLossImminent" }

(* The callback map an operation is given to: one per plain type, and one  *)
(* per component type and component.                                       *)
SlotOf(op) ==
  << op.type, IF op.type \in ComponentTypes THEN op.component ELSE NoComponent >>

(* The maps some operation of Ops reaches; the others never take part.     *)
Slots == { SlotOf(op) : op \in Ops }

(* Faults: gains and losses are not told apart.                            *)
ReversedAlways(op) == TRUE
ReversedNever(op)  == FALSE

(* Callbacks run in the order they were registered when the worker gains   *)
(* something, and in the opposite order when it loses something.           *)
Reversed(op) ==
  \/ op.type \in { "remove_entity", "remove_component" }
  \/ op.type = "flag_update" /\ op.value = Deleted
  \/ op.type = "critical_section" /\ ~op.in_critical_section
  \/ op.type = "authority_change" /\ op.authority # "kAuthoritative"

(* A worker::Map is traversed in the order of insertion.  Callback keys    *)
(* are handed out in ascending order and inserted in that order, so the    *)
(* traversal of a set of callback keys is ascending, or descending.        *)
First(keys, op) ==
  CHOOSE k \in keys : \A j \in keys : IF Reversed(op) THEN j <= k ELSE k <= j

(* The keys still to come when the iterator stands at key k.               *)
After(keys, k, op) ==
  { j \in keys : IF Reversed(op) THEN j < k ELSE k < j }

=============================================================================
