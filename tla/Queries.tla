------------------------------- MODULE Queries ------------------------------
(***************************************************************************)
(* Entity queries: how Connection::SendEntityQueryRequest makes a C        *)
(* structure of one, and HandleEntityQueryResponse an operation of the     *)
(* answer.  The C structure is a tree of pointers into arrays, which       *)
(* ConvertConstraint allocates while it recurses; `storage' is the list of *)
(* them, and a pointer an index into it.  A position is a number.          *)
(***************************************************************************)
EXTENDS Integers, Sequences, FiniteSets, SequencesExt, Functions

CONSTANTS
  Registry,          \* components of which the dispatcher's registry knows
  ConstraintLevels,  \* sets of constraints, those that a constraint of one of
                     \* them holds being in the sets before it
  Null

(* Constraints, as the worker states them.                                 *)
EntityId(id) == [ type |-> "EntityId", EntityId |-> id ]
Component(c) == [ type |-> "Component", ComponentId |-> c ]
Sphere(x, r) == [ type |-> "Sphere", X |-> x, Radius |-> r ]
And(list) == [ type |-> "And", Constraints |-> list ]
Or(list) == [ type |-> "Or", Constraints |-> list ]
Not(constraint) == [ type |-> "Not", Constraints |-> << constraint >> ]

IsSimple(c) == c.type \in { "EntityId", "Component", "Sphere" }

(* A constraint is built from the innermost ones outwards.                 *)
Below(n) == UNION { ConstraintLevels[m] : m \in 1 .. n - 1 }

Constraints == Below(Len(ConstraintLevels) + 1)

ASSUME ConstraintsAssumption ==
  /\ ConstraintLevels \in Seq(SUBSET Constraints)
  /\ \A n \in DOMAIN ConstraintLevels : \A c \in ConstraintLevels[n] :
       \/ IsSimple(c)
       \/ /\ c.type \in { "And", "Or", "Not" }
          /\ c.Constraints \in Seq(Below(n))
          /\ c.type = "Not" => Len(c.Constraints) = 1

-----------------------------------------------------------------------------
(* What they mean.                                                         *)
InSphere(entity, c) ==
  /\ "Position" \in DOMAIN entity
  /\ entity["Position"] - c.X \in -c.Radius .. c.Radius

MatchesSimple(c, id, entity) ==
  \/ c.type = "EntityId" /\ id = c.EntityId
  \/ c.type = "Component" /\ c.ComponentId \in DOMAIN entity
  \/ c.type = "Sphere" /\ InSphere(entity, c)

Matches(c, id, entity) ==
  LET matches[x \in Constraints] ==
        \/ MatchesSimple(x, id, entity)
        \/ x.type = "And" /\ \A i \in DOMAIN x.Constraints : matches[x.Constraints[i]]
        \/ x.type = "Or" /\ \E i \in DOMAIN x.Constraints : matches[x.Constraints[i]]
        \/ x.type = "Not" /\ ~matches[x.Constraints[1]]
  IN  matches[c]

-----------------------------------------------------------------------------
(* The C structures, and the arrays that pointers lead to, of which        *)
(* elements may have no value yet.                                         *)
Nodes ==
  { c \in Constraints : IsSimple(c) }
    \cup [ type : { "And", "Or", "Not" }, ConstraintCount : Nat, Constraint : Nat ]

Storages == Seq(Seq(Nodes \cup {Null}))

(* Fault: the array that was allocated last, when all is converted.        *)
LastArray(before, after) == Len(after)

(* The address of a constraint's array, noted when it is allocated and     *)
(* before its elements are converted.                                      *)
Array(before, after) == Len(before) + 1

(* An array is allocated, and its elements are converted one by one.       *)
ConvertConstraint(c, storage) ==
  LET convert[at \in Constraints \X Storages] ==
        LET list == at[1].Constraints
            allocated == Append(at[2], [ i \in 1 .. Len(list) |-> Null ])
            filled[i \in 0 .. Len(list)] ==
              IF i = 0 THEN allocated
              ELSE LET element == convert[<< list[i], filled[i - 1] >>]
                   IN  [ element.storage EXCEPT ![Len(allocated)][i] = element.result ]
        IN  IF IsSimple(at[1])
            THEN [ result |-> at[1], storage |-> at[2] ]
            ELSE [ result |-> [ type |-> at[1].type, ConstraintCount |-> Len(list),
                                Constraint |-> Array(at[2], filled[Len(list)]) ],
                   storage |-> filled[Len(list)] ]
  IN  convert[<< c, storage >>]

(* A result type is a count, or a snapshot with an optional list of        *)
(* component ids; no list is a null pointer, and an empty one is not.      *)
ProtocolQuery(query) ==
  LET converted == ConvertConstraint(query.Constraint, << >>)
      ids == query.ResultType
  IN  [ Constraint |-> converted.result,
        storage |-> converted.storage,
        ResultType |-> IF ids = "count" THEN "count" ELSE "snapshot",
        SnapshotResultTypeComponentId |->
          IF ids = "count" \/ ids = << >> THEN Null ELSE ids[1] ]

-----------------------------------------------------------------------------
(* SpatialOS, which follows the pointers; what is beyond an array does not *)
(* hold.                                                                   *)
Holds(c, storage, id, entity) ==
  LET nodes == {c} \cup UNION { Range(storage[k]) : k \in DOMAIN storage }
      holds[x \in nodes] ==
        LET Element(i) == /\ i \in DOMAIN storage[x.Constraint]
                          /\ holds[storage[x.Constraint][i]]
        IN  \/ MatchesSimple(x, id, entity)
            \/ x.type = "And" /\ \A i \in 1 .. x.ConstraintCount : Element(i)
            \/ x.type = "Or" /\ \E i \in 1 .. x.ConstraintCount : Element(i)
            \/ x.type = "Not" /\ ~Element(1)
  IN  holds[c]

(* "NULL means all component IDs"; there is no array of results "if the    *)
(* query was a count query".                                               *)
Answer(p, world) ==
  LET found == { id \in DOMAIN world : Holds(p.Constraint, p.storage, id, world[id]) }
      Asked(entity) ==
        IF p.SnapshotResultTypeComponentId = Null THEN entity
        ELSE Restrict(entity, DOMAIN entity \cap ToSet(p.SnapshotResultTypeComponentId))
  IN  [ ResultCount |-> Cardinality(found),
        Result |-> IF p.ResultType = "count" THEN << >>
                   ELSE << [ i \in 1 .. Cardinality(found) |->
                               LET id == SetToSeq(found)[i]
                               IN  [ EntityId |-> id, Component |-> Asked(world[id]) ] ] >> ]

-----------------------------------------------------------------------------
(* HandleEntityQueryResponse: the entities of the answer, with those       *)
(* components of which the registry knows.                                 *)
ResultOf(answer) ==
  IF answer.Result = << >> THEN << >>
  ELSE LET entities == ToSet(answer.Result[1])
           At(id) == CHOOSE e \in entities : e.EntityId = id
       IN  [ id \in { e.EntityId : e \in entities } |->
               Restrict(At(id).Component, DOMAIN At(id).Component \cap Registry) ]

(* What a query asks for, of a world.                                      *)
Described(query, world) ==
  LET found == { id \in DOMAIN world : Matches(query.Constraint, id, world[id]) }
      ids == query.ResultType
      Wanted == IF ids = << >> THEN Registry ELSE Registry \cap ToSet(ids[1])
  IN  [ ResultCount |-> Cardinality(found),
        Result |-> IF ids = "count" THEN << >>
                   ELSE [ id \in found |-> Restrict(world[id], DOMAIN world[id] \cap Wanted) ] ]
=============================================================================
