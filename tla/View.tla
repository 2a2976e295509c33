-------------------------------- MODULE View --------------------------------
(***************************************************************************)
(* worker::View, a Dispatcher that keeps the entities the worker has been  *)
(* told about.  Its constructor registers a callback for each kind of      *)
(* operation on entities and components; these are ordinary callbacks of   *)
(* the dispatcher, distinguished only by having the lowest keys.           *)
(*                                                                         *)
(* Process() goes through a list of operations without a try block: an     *)
(* exception that leaves a callback leaves the list, and nobody hears of   *)
(* the operations after it.  A list is a stretch of the stream of          *)
(* operations; nothing depends on what it still has until that is          *)
(* delivered or dropped, so its operations are chosen then (Process,       *)
(* Drop).  A list that a callback processes came after all others: there   *)
(* is nothing left of the list whose operation the callback is called for. *)
(*                                                                         *)
(* The last four variables are not of the program.  `known' is what the    *)
(* lists handed to Process() say of the world, dropped operations and all, *)
(* and what the View is compared with; `dropped' and `abandoned' are the   *)
(* entities about which an exception kept something from the View, until   *)
(* it hears of their removal.                                              *)
(***************************************************************************)
EXTENDS Dispatcher, Functions

CONSTANTS
  ComponentList, \* the components the View was constructed for, in order
  EntityIds,
  Values         \* component data, as far as it can be told apart

VARIABLES
  Entities,           \* component data by entity and component
  ComponentAuthority, \* authority by entity and component
  newest,             \* the nesting depth of Process() of the newest list,
                      \* or 0 when no more of it is to come
  known,              \* data and authority, by what the stream said
  dropped,            \* entities of operations that were not delivered
  abandoned           \* entities of losses that were only delivered to others

viewVars  == << Entities, ComponentAuthority >>
worldVars == << newest, known, dropped, abandoned >>
allVars   == << vars, viewVars, worldVars >>

-----------------------------------------------------------------------------
(* The operations the View tracks.                                         *)
ViewOps ==
  [ type : { "add_entity", "remove_entity" }, entity : EntityIds ]
    \cup [ type : { "add_component", "component_update" }, entity : EntityIds,
           component : Range(ComponentList), data : Values ]
    \cup [ type : { "remove_component" }, entity : EntityIds,
           component : Range(ComponentList) ]
    \cup [ type : { "authority_change" }, entity : EntityIds,
           component : Range(ComponentList), authority : AuthorityStates ]

ASSUME ViewAssumption ==
  /\ ComponentList \in Seq(Components)
  /\ IsInjective(ComponentList)
  /\ Ops = ViewOps
  /\ 2 + 4 * Len(ComponentList) <= MaxKeys

(* The callbacks of the constructor, by key: two for entities, then four   *)
(* for each component in turn (TrackComponentHandler::Accept).             *)
TrackedTypes ==
  << "add_component", "remove_component", "authority_change", "component_update" >>

ViewKeys == 0 .. 1 + 4 * Len(ComponentList)

HandlerSlot(k) ==
  IF k < 2 THEN << << "add_entity", "remove_entity" >>[1 + k], NoComponent >>
  ELSE << TrackedTypes[1 + ((k - 2) % 4)], ComponentList[1 + ((k - 2) \div 4)] >>

ViewInit ==
  /\ callbacks =
       [ s \in Slots |-> [ EmptyCallbackMap EXCEPT
                             !.map = { k \in ViewKeys : HandlerSlot(k) = s } ] ]
  /\ current_callback_key = Cardinality(ViewKeys)
  /\ passes = << >>
  /\ terminated = FALSE
  /\ Entities = << >>
  /\ ComponentAuthority = << >>
  /\ newest = 0
  /\ known = << >>
  /\ dropped = {}
  /\ abandoned = {}

-----------------------------------------------------------------------------
(* worker::Map: assignment to map[key], what map[key] refers to when a map *)
(* of maps is indexed, and erase(key).                                     *)
Put(f, x, v) == [ y \in DOMAIN f \cup {x} |-> IF y = x THEN v ELSE f[y] ]
Index(f, x)  == IF x \in DOMAIN f THEN f[x] ELSE << >>
Erase(f, x)  == Restrict(f, DOMAIN f \ {x})

(* GetAuthority<T>(entity_id).                                             *)
GetAuthority(e, c) ==
  IF e \in DOMAIN ComponentAuthority /\ c \in DOMAIN ComponentAuthority[e]
  THEN ComponentAuthority[e][c]
  ELSE "kNotAuthoritative"

(* The callbacks of the View.                                              *)
HandleAddEntity(op) ==
  /\ Entities' = Put(Entities, op.entity, Index(Entities, op.entity))
  /\ ComponentAuthority' =
       Put(ComponentAuthority, op.entity, Index(ComponentAuthority, op.entity))

(* Fault: the authority of the entity's components is kept.                *)
HandleRemoveEntityData(op) ==
  /\ Entities' = Erase(Entities, op.entity)
  /\ UNCHANGED ComponentAuthority

HandleRemoveEntity(op) ==
  /\ Entities' = Erase(Entities, op.entity)
  /\ ComponentAuthority' = Erase(ComponentAuthority, op.entity)

(* Entity::Add has no effect when the entity has the component already,    *)
(* but the authority is reset all the same.                                *)
HandleAddComponent(op) ==
  IF op.entity \in DOMAIN Entities
  THEN /\ Entities' =
            [ Entities EXCEPT ![op.entity] =
                IF op.component \in DOMAIN @ THEN @ ELSE Put(@, op.component, op.data) ]
       /\ ComponentAuthority' =
            Put(ComponentAuthority, op.entity,
                Put(Index(ComponentAuthority, op.entity),
                    op.component, "kNotAuthoritative"))
  ELSE UNCHANGED viewVars

HandleRemoveComponent(op) ==
  /\ Entities' =
       IF op.entity \in DOMAIN Entities
       THEN [ Entities EXCEPT ![op.entity] = Erase(@, op.component) ]
       ELSE Entities
  /\ ComponentAuthority' =
       IF op.entity \in DOMAIN ComponentAuthority
       THEN [ ComponentAuthority EXCEPT ![op.entity] = Erase(@, op.component) ]
       ELSE ComponentAuthority

(* Fault: losses are not recorded.                                         *)
HandleAuthorityGain(op) ==
  /\ IF op.authority = "kAuthoritative"
     THEN ComponentAuthority' =
            Put(ComponentAuthority, op.entity,
                Put(Index(ComponentAuthority, op.entity), op.component, op.authority))
     ELSE UNCHANGED ComponentAuthority
  /\ UNCHANGED Entities

HandleAuthorityChange(op) ==
  /\ ComponentAuthority' =
       Put(ComponentAuthority, op.entity,
           Put(Index(ComponentAuthority, op.entity), op.component, op.authority))
  /\ UNCHANGED Entities

HandleComponentUpdate(op) ==
  /\ IF op.component \in DOMAIN Index(Entities, op.entity)
     THEN Entities' = [ Entities EXCEPT ![op.entity][op.component] = op.data ]
     ELSE UNCHANGED Entities
  /\ UNCHANGED ComponentAuthority

Handle(op) ==
  \/ op.type = "add_entity"       /\ HandleAddEntity(op)
  \/ op.type = "remove_entity"    /\ HandleRemoveEntity(op)
  \/ op.type = "add_component"    /\ HandleAddComponent(op)
  \/ op.type = "remove_component" /\ HandleRemoveComponent(op)
  \/ op.type = "authority_change" /\ HandleAuthorityChange(op)
  \/ op.type = "component_update" /\ HandleComponentUpdate(op)

(* The effect of the callback a pass has come to: the View's own, or a     *)
(* user's, which leaves the View alone.                                    *)
Execute(pass) ==
  IF pass.at \in ViewKeys THEN Handle(pass.op) ELSE UNCHANGED viewVars

(* The entity that the View forgets, whatever it had missed of it.         *)
Forgotten(pass) ==
  { e \in EntityIds : /\ pass.at \in ViewKeys
                      /\ pass.op.type = "remove_entity" /\ pass.op.entity = e }

Forget(pass) ==
  /\ dropped' = dropped \ Forgotten(pass)
  /\ abandoned' = abandoned \ Forgotten(pass)

-----------------------------------------------------------------------------
(* What SpatialOS sends: operations that make sense after those it sent    *)
(* before.                                                                 *)
AuthorityFollows ==
  [ kNotAuthoritative      |-> { "kAuthoritative" },
    kAuthoritative         |-> { "kAuthorityLossImminent", "kNotAuthoritative" },
    kAuthorityLossImminent |-> { "kAuthoritative", "kNotAuthoritative" } ]

MakesSense(op, world) ==
  IF op.type \in { "add_entity", "remove_entity" }
  THEN op.type = "add_entity" <=> op.entity \notin DOMAIN world
  ELSE /\ op.entity \in DOMAIN world
       /\ op.type = "add_component" <=> op.component \notin DOMAIN world[op.entity]
       /\ op.type = "authority_change" =>
            op.authority \in AuthorityFollows[world[op.entity][op.component].authority]

Told(op, world) ==
  CASE op.type = "add_entity"    -> Put(world, op.entity, << >>)
    [] op.type = "remove_entity" -> Erase(world, op.entity)
    [] op.type = "add_component" ->
         [ world EXCEPT ![op.entity] =
             Put(@, op.component, [ data |-> op.data, authority |-> "kNotAuthoritative" ]) ]
    [] op.type = "remove_component" ->
         [ world EXCEPT ![op.entity] = Erase(@, op.component) ]
    [] op.type = "component_update" ->
         [ world EXCEPT ![op.entity][op.component].data = op.data ]
    [] op.type = "authority_change" ->
         [ world EXCEPT ![op.entity][op.component].authority = op.authority ]

-----------------------------------------------------------------------------
(* User code runs outside Process(), or in a callback of its own: the      *)
(* callbacks of the View do not call out.                                  *)
UserRuns == passes # << >> => Top.at \notin ViewKeys

UserRegister(s) ==
  /\ UserRuns
  /\ Register(s)
  /\ UNCHANGED << viewVars, worldVars >>

(* The user only has the keys that registration returned.                  *)
UserRemove(k) ==
  /\ UserRuns
  /\ Remove(k)
  /\ UNCHANGED << viewVars, worldVars >>

(* Process() comes to the next operation of a list, or is called with one. *)
Process(op) ==
  /\ UserRuns
  /\ MakesSense(op, known)
  /\ Dispatch(op)
  /\ Execute(passes'[Len(passes')])
  /\ Forget(passes'[Len(passes')])
  /\ newest' = Len(passes')
  /\ known' = Told(op, known)

InvokeNext ==
  /\ NextCallback
  /\ Execute(passes'[Len(passes')])
  /\ Forget(passes'[Len(passes')])
  /\ UNCHANGED << newest, known >>

ReturnFromPass ==
  /\ EndPass
  /\ newest' = 0
  /\ UNCHANGED << viewVars, known, dropped, abandoned >>

(* A callback of the user's throws, which ends the pass and the Process()  *)
(* that it is of.  If the pass is in reverse order the View's own callback *)
(* was still to come.                                                      *)
UserThrow ==
  /\ UserRuns
  /\ Throw
  /\ abandoned' =
       abandoned \cup IF Remaining \cap ViewKeys # {} THEN {Top.op.entity} ELSE {}
  /\ UNCHANGED << viewVars, newest, known, dropped >>

(* A callback for an operation of another kind throws, one that tells the  *)
(* View nothing: this ends a list as well.                                 *)
OtherThrow ==
  /\ UserRuns
  /\ Len(passes) < MaxDepth
  /\ newest' = Len(passes) + 1
  /\ UNCHANGED << vars, viewVars, known, dropped, abandoned >>

(* The list had another operation, which is not delivered to anyone.       *)
Drop(op) ==
  /\ newest > Len(passes)
  /\ MakesSense(op, known)
  /\ known' = Told(op, known)
  /\ dropped' = dropped \cup {op.entity}
  /\ UNCHANGED << vars, viewVars, newest, abandoned >>

ViewNext ==
  \/ \E s \in Slots : UserRegister(s)
  \/ \E k \in (0 .. MaxKeys) \ ViewKeys : UserRemove(k)
  \/ \E op \in Ops : Process(op)
  \/ InvokeNext
  \/ ReturnFromPass
  \/ UserThrow
  \/ OtherThrow
  \/ \E op \in Ops : Drop(op)

ViewSpec == ViewInit /\ [][ViewNext]_allVars

-----------------------------------------------------------------------------
(* The maps are what their types say, partial functions all.               *)
ViewTypeOK ==
  /\ TypeOK
  /\ DOMAIN Entities \subseteq EntityIds
  /\ DOMAIN ComponentAuthority \subseteq EntityIds
  /\ \A e \in DOMAIN Entities :
       Entities[e] \in UNION { [ cs -> Values ] : cs \in SUBSET Range(ComponentList) }
  /\ \A e \in DOMAIN ComponentAuthority :
       ComponentAuthority[e] \in
         UNION { [ cs -> AuthorityStates ] : cs \in SUBSET Range(ComponentList) }

(* Whatever exceptions keep from it, the View has an authority for each    *)
(* component it has, and its two maps have the same entities with the same *)
(* components, except of entities of which it was not told everything:     *)
(* four callbacks keep them, and only three of those look first whether    *)
(* the entity is there.                                                    *)
MapsAgree ==
  /\ ViewTypeOK
  /\ \A e \in DOMAIN Entities :
       e \in DOMAIN ComponentAuthority /\ DOMAIN Entities[e] \subseteq DOMAIN ComponentAuthority[e]
  /\ \A e \in DOMAIN ComponentAuthority \ dropped :
       e \in DOMAIN Entities /\ DOMAIN ComponentAuthority[e] \subseteq DOMAIN Entities[e]

(* Between lists the View is what the stream says, except of the entities  *)
(* that an exception kept something of from it, and of these, too, once it *)
(* has heard of their removal.  (Comment of View: "maintains the known     *)
(* state of entities in the worker's view of the simulation".)             *)
KnowsTheWorld ==
  passes = << >> =>
    \A e \in EntityIds \ (dropped \cup abandoned) :
      /\ e \in DOMAIN Entities <=> e \in DOMAIN known
      /\ e \in DOMAIN ComponentAuthority <=> e \in DOMAIN known
      /\ e \in DOMAIN known =>
           /\ Entities[e] = [ c \in DOMAIN known[e] |-> known[e][c].data ]
           /\ ComponentAuthority[e] = [ c \in DOMAIN known[e] |-> known[e][c].authority ]

(* An exception that escapes from the delivery of a gain does not keep the *)
(* gain from the View: it misses gains only of entities of which           *)
(* operations were dropped.  Callbacks abandoned are those of a loss.      *)
NeverMissesAGain ==
  passes = << >> =>
    \A e \in DOMAIN known \ dropped :
      /\ e \in DOMAIN Entities
      /\ DOMAIN known[e] \subseteq DOMAIN Entities[e]
      /\ \A c \in DOMAIN known[e] :
           known[e][c].authority = "kAuthoritative" =>
             GetAuthority(e, c) = "kAuthoritative"

(* A callback of the user's finds in the View what its operation is about, *)
(* unless operations about the entity were dropped: what was added is      *)
(* already there, what was removed is still there, authority gained is     *)
(* already held and authority lost is not yet gone.  (The View's callbacks *)
(* come first in InvokeAll and last in ReverseInvokeAll.)                  *)
CallbacksFindTheirSubject ==
  passes # << >> /\ UserRuns /\ Top.op.entity \notin dropped =>
    LET op == Top.op
    IN  /\ op.entity \in DOMAIN Entities
        /\ op.type \in ComponentTypes => op.component \in DOMAIN Entities[op.entity]
        /\ op.type = "authority_change" /\ op.entity \notin abandoned =>
             LET has == GetAuthority(op.entity, op.component)
             IN  IF Reversed(op) THEN op.authority \in AuthorityFollows[has]
                                 ELSE has = "kAuthoritative"

=============================================================================
