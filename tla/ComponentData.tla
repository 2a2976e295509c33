---------------------------- MODULE ComponentData ----------------------------
(***************************************************************************)
(* The data and the updates of a generated component, and how they go over *)
(* the wire.  The component is improbable::EntityAcl, which has a field of *)
(* either kind: one that always has a value, and a collection, which may   *)
(* be empty.  The other components' classes are generated alike.           *)
(*                                                                         *)
(* A worker::Map is a function here: OrderedMap shows that this is what it *)
(* is compared by.  An option is a value or Nothing.                       *)
(***************************************************************************)
EXTENDS Naturals

CONSTANTS
  RequirementSets,  \* values of WorkerRequirementSet
  NoRequirement,    \* the one without any attribute set
  ComponentIds,
  Nothing           \* an empty worker::Option

RequirementMaps == UNION { [ S -> RequirementSets ] : S \in SUBSET ComponentIds }

Data == [ read_acl : RequirementSets, component_write_acl : RequirementMaps ]

Updates == [ read_acl : RequirementSets \cup {Nothing},
             component_write_acl : RequirementMaps \cup {Nothing} ]

ASSUME DataAssumption ==
  /\ NoRequirement \in RequirementSets
  /\ Nothing \notin RequirementSets /\ Nothing \notin RequirementMaps

EmptyMap == [ id \in {} |-> NoRequirement ]

EmptyUpdate == [ read_acl |-> Nothing, component_write_acl |-> Nothing ]

EmptyData == [ read_acl |-> NoRequirement, component_write_acl |-> EmptyMap ]

(* What a move leaves behind: empty options, empty lists and maps.         *)
MovedFrom(type) == IF type = "update" THEN EmptyUpdate ELSE EmptyData

ApplyTo(u, d) ==
  [ f \in DOMAIN d |-> IF u[f] = Nothing THEN d[f] ELSE u[f] ]

(* Fault: the list of fields to clear is left out.                         *)
SerializeNothingToClear(u) ==
  [ fields_to_clear |-> {},
    read_acl |-> { s \in RequirementSets : u.read_acl = s },
    component_write_acl |->
      IF u.component_write_acl = Nothing THEN {}
      ELSE { << id, u.component_write_acl[id] >> :
               id \in DOMAIN u.component_write_acl } ]

(* An update on the wire.  A collection is the set of its elements there,  *)
(* and an empty one is nothing: hence field 2 is listed as to be cleared.  *)
Serialize(u) ==
  [ fields_to_clear |->
      IF u.component_write_acl # Nothing /\ DOMAIN u.component_write_acl = {}
      THEN {2} ELSE {},
    read_acl |-> { s \in RequirementSets : u.read_acl = s },
    component_write_acl |->
      IF u.component_write_acl = Nothing THEN {}
      ELSE { << id, u.component_write_acl[id] >> :
               id \in DOMAIN u.component_write_acl } ]

MapOf(pairs) ==
  [ id \in { p[1] : p \in pairs } |-> CHOOSE s \in RequirementSets : << id, s >> \in pairs ]

Deserialize(w) ==
  [ read_acl |->
      IF w.read_acl = {} THEN Nothing ELSE CHOOSE s \in w.read_acl : TRUE,
    component_write_acl |->
      IF w.component_write_acl # {} \/ 2 \in w.fields_to_clear
      THEN MapOf(w.component_write_acl) ELSE Nothing ]

(* Data on the wire: nothing needs to be cleared.                          *)
WriteData(d) ==
  [ read_acl |-> d.read_acl,
    component_write_acl |->
      { << id, d.component_write_acl[id] >> : id \in DOMAIN d.component_write_acl } ]

ReadData(w) ==
  [ read_acl |-> w.read_acl, component_write_acl |-> MapOf(w.component_write_acl) ]
=============================================================================
