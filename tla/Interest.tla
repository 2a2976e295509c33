------------------------------ MODULE Interest ------------------------------
(***************************************************************************)
(* improbable::Interest and the types of its data, generated from          *)
(* improbable/standard_library.schema and laid out as in Othello: for each *)
(* component a list of queries, whose constraints nest.                    *)
(*                                                                         *)
(* A worker::Map is a sequence of pairs with distinct keys, in the order   *)
(* of insertion: OrderedMap shows that this is what it is.                 *)
(***************************************************************************)
EXTENDS StandardLibrary

CONSTANTS
  Uint32s,                   \* values of std::uint32_t
  ConstraintLevels,          \* sets of constraints, the values of a worker::List
                             \* in one of them being in the sets before it
  Write_QueryConstraint(_),  \* the functions of these names, which call
  Read_QueryConstraint(_)    \* themselves: see InterestAssumption

SphereConstraint == [ center : Coordinates, radius : Doubles ]
NewSphereConstraint == [ center |-> NewCoordinates, radius |-> 0 ]
Write_SphereConstraint(d) == << << Write_Coordinates(d.center) >>, << d.radius >> >>
Read_SphereConstraint(object) ==
  [ center |-> Read_Coordinates(GetObject(object, 1)), radius |-> Get(object, 2, 0) ]

CylinderConstraint == [ center : Coordinates, radius : Doubles ]
NewCylinderConstraint == [ center |-> NewCoordinates, radius |-> 0 ]
Write_CylinderConstraint(d) == << << Write_Coordinates(d.center) >>, << d.radius >> >>
Read_CylinderConstraint(object) ==
  [ center |-> Read_Coordinates(GetObject(object, 1)), radius |-> Get(object, 2, 0) ]

BoxConstraint == [ center : Coordinates, edge_length : EdgeLength ]
NewBoxConstraint == [ center |-> NewCoordinates, edge_length |-> NewEdgeLength ]
Write_BoxConstraint(d) ==
  << << Write_Coordinates(d.center) >>, << Write_EdgeLength(d.edge_length) >> >>
Read_BoxConstraint(object) ==
  [ center      |-> Read_Coordinates(GetObject(object, 1)),
    edge_length |-> Read_EdgeLength(GetObject(object, 2)) ]

RelativeSphereConstraint == [ radius : Doubles ]
NewRelativeSphereConstraint == [ radius |-> 0 ]
Write_RelativeSphereConstraint(d) == << << d.radius >> >>
Read_RelativeSphereConstraint(object) == [ radius |-> Get(object, 1, 0) ]

RelativeCylinderConstraint == [ radius : Doubles ]
NewRelativeCylinderConstraint == [ radius |-> 0 ]
Write_RelativeCylinderConstraint(d) == << << d.radius >> >>
Read_RelativeCylinderConstraint(object) == [ radius |-> Get(object, 1, 0) ]

RelativeBoxConstraint == [ edge_length : EdgeLength ]
NewRelativeBoxConstraint == [ edge_length |-> NewEdgeLength ]
Write_RelativeBoxConstraint(d) == << << Write_EdgeLength(d.edge_length) >> >>
Read_RelativeBoxConstraint(object) ==
  [ edge_length |-> Read_EdgeLength(GetObject(object, 1)) ]

-----------------------------------------------------------------------------
(* The constraints that hold others of a set in their lists.               *)
QueryConstraint(S) ==
  [ sphere_constraint            : Options(SphereConstraint),
    cylinder_constraint          : Options(CylinderConstraint),
    box_constraint               : Options(BoxConstraint),
    relative_sphere_constraint   : Options(RelativeSphereConstraint),
    relative_cylinder_constraint : Options(RelativeCylinderConstraint),
    relative_box_constraint      : Options(RelativeBoxConstraint),
    entity_id_constraint         : Options(Int64s),
    component_constraint         : Options(Uint32s),
    and_constraint               : Seq(S),
    or_constraint                : Seq(S) ]

NewQueryConstraint ==
  [ sphere_constraint |-> << >>, cylinder_constraint |-> << >>, box_constraint |-> << >>,
    relative_sphere_constraint |-> << >>, relative_cylinder_constraint |-> << >>,
    relative_box_constraint |-> << >>, entity_id_constraint |-> << >>,
    component_constraint |-> << >>, and_constraint |-> << >>, or_constraint |-> << >> ]

(* The bodies of the two functions, which call them for the constraints in *)
(* the lists.                                                              *)
WriteConstraint(d) ==
  << Each(Write_SphereConstraint, d.sphere_constraint),
     Each(Write_CylinderConstraint, d.cylinder_constraint),
     Each(Write_BoxConstraint, d.box_constraint),
     Each(Write_RelativeSphereConstraint, d.relative_sphere_constraint),
     Each(Write_RelativeCylinderConstraint, d.relative_cylinder_constraint),
     Each(Write_RelativeBoxConstraint, d.relative_box_constraint),
     d.entity_id_constraint,
     d.component_constraint,
     Each(Write_QueryConstraint, d.and_constraint),
     Each(Write_QueryConstraint, d.or_constraint) >>

ReadConstraint(object) ==
  [ sphere_constraint            |-> Each(Read_SphereConstraint, GetOption(object, 1)),
    cylinder_constraint          |-> Each(Read_CylinderConstraint, GetOption(object, 2)),
    box_constraint               |-> Each(Read_BoxConstraint, GetOption(object, 3)),
    relative_sphere_constraint   |->
      Each(Read_RelativeSphereConstraint, GetOption(object, 4)),
    relative_cylinder_constraint |->
      Each(Read_RelativeCylinderConstraint, GetOption(object, 5)),
    relative_box_constraint      |->
      Each(Read_RelativeBoxConstraint, GetOption(object, 6)),
    entity_id_constraint         |-> GetOption(object, 7),
    component_constraint         |-> GetOption(object, 8),
    and_constraint               |-> Each(Read_QueryConstraint, GetList(object, 9)),
    or_constraint                |-> Each(Read_QueryConstraint, GetList(object, 10)) ]

(* A constraint is built from the innermost ones outwards; the two         *)
(* functions have the bodies above.                                        *)
Below(n) == UNION { ConstraintLevels[m] : m \in 1 .. n - 1 }

Constraints == Below(Len(ConstraintLevels) + 1)

ASSUME InterestAssumption ==
  /\ ConstraintLevels \in Seq(SUBSET Constraints)
  /\ \A n \in DOMAIN ConstraintLevels : \A d \in ConstraintLevels[n] :
       LET object == Write_QueryConstraint(d)
       IN  /\ d \in QueryConstraint(Below(n))
           /\ object = WriteConstraint(d)
           /\ Read_QueryConstraint(object) = ReadConstraint(object)

Query ==
  [ constraint : Constraints, full_snapshot_result : Options(BOOLEAN),
    result_component_id : Seq(Uint32s), frequency : Options(Floats) ]
NewQuery ==
  [ constraint |-> NewQueryConstraint, full_snapshot_result |-> << >>,
    result_component_id |-> << >>, frequency |-> << >> ]
Write_Query(d) ==
  << << Write_QueryConstraint(d.constraint) >>, Each(Bool, d.full_snapshot_result),
     d.result_component_id, d.frequency >>
Read_Query(object) ==
  [ constraint           |-> Read_QueryConstraint(GetObject(object, 1)),
    full_snapshot_result |-> Each(LAMBDA b : b # 0, GetOption(object, 2)),
    result_component_id  |-> GetList(object, 3),
    frequency            |-> GetOption(object, 4) ]

ComponentInterest == [ queries : Seq(Query) ]
NewComponentInterest == [ queries |-> << >> ]
Write_ComponentInterest(d) == << Each(Write_Query, d.queries) >>
Read_ComponentInterest(object) == [ queries |-> Each(Read_Query, GetList(object, 1)) ]

-----------------------------------------------------------------------------
(* Maps in which every key is there once.                                  *)
KeysOnce(map) == \A i, j \in DOMAIN map : map[i][1] = map[j][1] => i = j

InterestMap == { map \in Seq(Uint32s \X ComponentInterest) : KeysOnce(map) }

InterestData == [ component_interest : InterestMap ]
NewInterestData == [ component_interest |-> << >> ]

WritePair(p) == << << p[1] >>, << Write_ComponentInterest(p[2]) >> >>
ReadPair(pair) == << Get(pair, 1, 0), Read_ComponentInterest(GetObject(pair, 2)) >>

(* Map::emplace: a pair whose key is there already changes nothing.        *)
EmplaceAll(pairs) ==
  LET map[i \in 0 .. Len(pairs)] ==
        IF i = 0 THEN << >>
        ELSE IF \E j \in DOMAIN map[i - 1] : map[i - 1][j][1] = pairs[i][1]
        THEN map[i - 1] ELSE Append(map[i - 1], pairs[i])
  IN  map[Len(pairs)]

Write_InterestData(d) == << Each(WritePair, d.component_interest) >>
Read_InterestData(object) ==
  [ component_interest |-> EmplaceAll(Each(ReadPair, GetList(object, 1))) ]

Interest == [ ComponentId |-> 58, Commands |-> << >> ]

InterestUpdate == [ component_interest : Options(InterestMap) ]
FromInitialData_Interest(d) == [ component_interest |-> << d.component_interest >> ]
ToInitialData_Interest(update) == [ component_interest |-> update.component_interest[1] ]
ApplyTo_Interest(update, d) ==
  [ component_interest |-> Or(update.component_interest, d.component_interest) ]

(* Fault: fields to clear are not listed.                                  *)
SerializeNoClears(handle_type, x) ==
  IF handle_type = "update" THEN
    UpdateRoot(58, << >>, IF x.component_interest = << >> THEN << >>
                          ELSE << Each(WritePair, x.component_interest[1]) >>)
  ELSE Root(58, Write_InterestData(x))

(* An emptied map leaves no pairs behind, and is listed as to be cleared.  *)
Serialize_Interest(handle_type, x) ==
  CASE handle_type = "update" /\ x.component_interest = << >> ->
         UpdateRoot(58, << >>, << >>)
    [] handle_type = "update" /\ x.component_interest # << >> ->
         UpdateRoot(58, IF x.component_interest[1] = << >> THEN << 1 >> ELSE << >>,
                    << Each(WritePair, x.component_interest[1]) >>)
    [] handle_type = "snapshot" -> Root(58, Write_InterestData(x))
    [] OTHER                    -> Root(58, << >>)

Deserialize_Interest(handle_type, root) ==
  LET pairs   == GetList(StateObject(root, 58), 1)
      cleared == \E i \in DOMAIN GetList(root, 1) : GetList(root, 1)[i] = 1
  IN  CASE handle_type = "update" ->
             << [ component_interest |->
                    IF pairs # << >> \/ cleared
                    THEN << EmplaceAll(Each(ReadPair, pairs)) >> ELSE << >> ] >>
        [] handle_type = "snapshot" -> << Read_InterestData(GetObject(root, 58)) >>
        [] OTHER                    -> << >>
=============================================================================
