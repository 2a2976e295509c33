-------------------------- MODULE StandardLibrary --------------------------
(***************************************************************************)
(* The classes generated from improbable/standard_library.schema and       *)
(* improbable/vector3.schema, laid out as in Othello.  The types of        *)
(* interests are in Interest, and EntityAcl, whose vtable and updates      *)
(* Replication is about, is in ComponentData.                              *)
(***************************************************************************)
EXTENDS Othello

CONSTANTS
  Doubles,  \* values of double
  Floats    \* values of float

ASSUME StandardLibraryAssumption == 0 \in Doubles /\ 0 \in Floats

Coordinates == [ x : Doubles, y : Doubles, z : Doubles ]
NewCoordinates == [ x |-> 0, y |-> 0, z |-> 0 ]
Write_Coordinates(d) == << << d.x >>, << d.y >>, << d.z >> >>
Read_Coordinates(object) ==
  [ x |-> Get(object, 1, 0), y |-> Get(object, 2, 0), z |-> Get(object, 3, 0) ]

EdgeLength == [ x : Doubles, y : Doubles, z : Doubles ]
NewEdgeLength == [ x |-> 0, y |-> 0, z |-> 0 ]
Write_EdgeLength(d) == << << d.x >>, << d.y >>, << d.z >> >>
Read_EdgeLength(object) ==
  [ x |-> Get(object, 1, 0), y |-> Get(object, 2, 0), z |-> Get(object, 3, 0) ]

Vector3d == [ x : Doubles, y : Doubles, z : Doubles ]
NewVector3d == [ x |-> 0, y |-> 0, z |-> 0 ]
Write_Vector3d(d) == << << d.x >>, << d.y >>, << d.z >> >>
Read_Vector3d(object) ==
  [ x |-> Get(object, 1, 0), y |-> Get(object, 2, 0), z |-> Get(object, 3, 0) ]

Vector3f == [ x : Floats, y : Floats, z : Floats ]
NewVector3f == [ x |-> 0, y |-> 0, z |-> 0 ]
Write_Vector3f(d) == << << d.x >>, << d.y >>, << d.z >> >>
Read_Vector3f(object) ==
  [ x |-> Get(object, 1, 0), y |-> Get(object, 2, 0), z |-> Get(object, 3, 0) ]

WorkerAttributeSet == [ attribute : Seq(Strings) ]
NewWorkerAttributeSet == [ attribute |-> << >> ]
Write_WorkerAttributeSet(d) == << d.attribute >>
Read_WorkerAttributeSet(object) == [ attribute |-> GetList(object, 1) ]

WorkerRequirementSet == [ attribute_set : Seq(WorkerAttributeSet) ]
NewWorkerRequirementSet == [ attribute_set |-> << >> ]
Write_WorkerRequirementSet(d) ==
  << Each(Write_WorkerAttributeSet, d.attribute_set) >>
Read_WorkerRequirementSet(object) ==
  [ attribute_set |-> Each(Read_WorkerAttributeSet, GetList(object, 1)) ]

MetadataData == [ entity_type : Strings ]
NewMetadataData == [ entity_type |-> "" ]
Write_MetadataData(d) == << << d.entity_type >> >>
Read_MetadataData(object) == [ entity_type |-> Get(object, 1, "") ]

PersistenceData == { Empty }
NewPersistenceData == Empty
Write_PersistenceData(d) == << >>
Read_PersistenceData(object) == Empty

PositionData == [ coords : Coordinates ]
NewPositionData == [ coords |-> NewCoordinates ]
Write_PositionData(d) == << << Write_Coordinates(d.coords) >> >>
Read_PositionData(object) == [ coords |-> Read_Coordinates(GetObject(object, 1)) ]

-----------------------------------------------------------------------------
Metadata == [ ComponentId |-> 53, Commands |-> << >> ]

MetadataUpdate == [ entity_type : Options(Strings) ]
FromInitialData_Metadata(d) == [ entity_type |-> << d.entity_type >> ]
ToInitialData_Metadata(update) == [ entity_type |-> update.entity_type[1] ]
ApplyTo_Metadata(update, d) == [ entity_type |-> Or(update.entity_type, d.entity_type) ]

Serialize_Metadata(handle_type, x) ==
  CASE handle_type = "update"   -> UpdateRoot(53, << >>, << x.entity_type >>)
    [] handle_type = "snapshot" -> Root(53, Write_MetadataData(x))
    [] OTHER                    -> Root(53, << >>)

Deserialize_Metadata(handle_type, root) ==
  CASE handle_type = "update"   -> << [ entity_type |-> GetOption(StateObject(root, 53), 1) ] >>
    [] handle_type = "snapshot" -> << Read_MetadataData(GetObject(root, 53)) >>
    [] OTHER                    -> << >>

-----------------------------------------------------------------------------
Position == [ ComponentId |-> 54, Commands |-> << >> ]

PositionUpdate == [ coords : Options(Coordinates) ]
(* Fault: the field is not filled in.                                      *)
FromNoData(d) == [ coords |-> << >> ]
FromInitialData_Position(d) == [ coords |-> << d.coords >> ]
ToInitialData_Position(update) == [ coords |-> update.coords[1] ]
ApplyTo_Position(update, d) == [ coords |-> Or(update.coords, d.coords) ]

Serialize_Position(handle_type, x) ==
  CASE handle_type = "update"   ->
         UpdateRoot(54, << >>, << Each(Write_Coordinates, x.coords) >>)
    [] handle_type = "snapshot" -> Root(54, Write_PositionData(x))
    [] OTHER                    -> Root(54, << >>)

Deserialize_Position(handle_type, root) ==
  CASE handle_type = "update"   ->
         << [ coords |-> Each(Read_Coordinates, GetOption(StateObject(root, 54), 1)) ] >>
    [] handle_type = "snapshot" -> << Read_PositionData(GetObject(root, 54)) >>
    [] OTHER                    -> << >>

-----------------------------------------------------------------------------
Persistence == [ ComponentId |-> 55, Commands |-> << >> ]

PersistenceUpdate == { Empty }
FromInitialData_Persistence(d) == Empty
ToInitialData_Persistence(update) == Empty
ApplyTo_Persistence(update, d) == d

Serialize_Persistence(handle_type, x) ==
  CASE handle_type = "update"   -> UpdateRoot(55, << >>, << >>)
    [] handle_type = "snapshot" -> Root(55, Write_PersistenceData(x))
    [] OTHER                    -> Root(55, << >>)

Deserialize_Persistence(handle_type, root) ==
  CASE handle_type = "update"   -> << Empty >>
    [] handle_type = "snapshot" -> << Read_PersistenceData(GetObject(root, 55)) >>
    [] OTHER                    -> << >>
=============================================================================
