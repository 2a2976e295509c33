------------------------------ MODULE Othello ------------------------------
(***************************************************************************)
(* The classes generated from othello.schema: for each type its values,    *)
(* the default-constructed one, and how it is written to and read from a   *)
(* protobuf object; for each component its metaclass, its updates, and     *)
(* what its vtable serializes and deserializes for each type of handle.    *)
(* Deserialize gives the object of the new handle, as an option: a request *)
(* or a response without a command that is known leaves the handle null.   *)
(***************************************************************************)
EXTENDS Pbio

CONSTANTS
  Int64s,   \* values of std::int64_t
  Strings   \* values of std::string

ASSUME OthelloAssumption == 0 \in Int64s /\ "" \in Strings

Empty == << >>   \* an object of a type without fields

(* Direction::NORTH, EAST, SOUTH and WEST.                                 *)
Direction == 0 .. 3

ColorData == [ black : BOOLEAN ]
NewColorData == [ black |-> FALSE ]
Write_ColorData(data) == << << Bool(data.black) >> >>
Read_ColorData(object) == [ black |-> Get(object, 1, 0) # 0 ]

CreatePlayerResult == [ black : BOOLEAN ]
NewCreatePlayerResult == [ black |-> FALSE ]
Write_CreatePlayerResult(data) == << << Bool(data.black) >> >>
Read_CreatePlayerResult(object) == [ black |-> Get(object, 1, 0) # 0 ]

FindColorRequest == [ dir : Direction, black : BOOLEAN ]
NewFindColorRequest == [ dir |-> 0, black |-> FALSE ]
Write_FindColorRequest(data) == << << data.dir >>, << Bool(data.black) >> >>
Read_FindColorRequest(object) ==
  [ dir |-> Get(object, 1, 0), black |-> Get(object, 2, 0) # 0 ]

GameData == { Empty }
NewGameData == Empty
Write_GameData(data) == << >>
Read_GameData(object) == Empty

PlaceDiscRequest == [ x : Int64s, z : Int64s ]
NewPlaceDiscRequest == [ x |-> 0, z |-> 0 ]
Write_PlaceDiscRequest(data) == << << data.x >>, << data.z >> >>
(* Fault: the fields are swapped.                                          *)
ReadSwapped(object) == [ x |-> Get(object, 2, 0), z |-> Get(object, 1, 0) ]
Read_PlaceDiscRequest(object) ==
  [ x |-> Get(object, 1, 0), z |-> Get(object, 2, 0) ]

PlayerData == [ worker : Strings ]
NewPlayerData == [ worker |-> "" ]
Write_PlayerData(data) == << << data.worker >> >>
Read_PlayerData(object) == [ worker |-> Get(object, 1, "") ]

SuccessResult == [ success : BOOLEAN ]
NewSuccessResult == [ success |-> FALSE ]
Write_SuccessResult(data) == << << Bool(data.success) >> >>
Read_SuccessResult(object) == [ success |-> Get(object, 1, 0) # 0 ]

TurnTakerData == { Empty }
NewTurnTakerData == Empty
Write_TurnTakerData(data) == << >>
Read_TurnTakerData(object) == Empty

Void == { Empty }
NewVoid == Empty
Write_Void(data) == << >>
Read_Void(object) == Empty

-----------------------------------------------------------------------------
(* Commands: the id, and a Variant that holds the request or the response. *)

Holding(T, name) == [ type : {name}, value : T ]

GenericCommandObject_Game ==
  [ CommandId : {1, 2},
    CommandObject : Holding(CreatePlayerResult, "CreatePlayerResult")
      \cup Holding(PlaceDiscRequest, "PlaceDiscRequest")
      \cup Holding(SuccessResult, "SuccessResult") \cup Holding(Void, "Void") ]

GenericCommandObject_Color ==
  [ CommandId : {1},
    CommandObject : Holding(FindColorRequest, "FindColorRequest")
      \cup Holding(SuccessResult, "SuccessResult") ]

GenericCommandObject_TurnTaker ==
  [ CommandId : {1}, CommandObject : Holding(Void, "Void") ]

Generic(id, name, x) ==
  [ CommandId |-> id, CommandObject |-> [ type |-> name, value |-> x ] ]

(* Variant::data<T>(): nothing is there of another type than the one held. *)
data(generic, name) ==
  CHOOSE x \in { generic.CommandObject.value } : generic.CommandObject.type = name

-----------------------------------------------------------------------------
(* Game, the component with two commands, CreatePlayer and PlaceDisc.      *)

Game ==
  [ ComponentId |-> 1000,
    Commands |-> << [ Request |-> "Void", Response |-> "CreatePlayerResult" ],
                    [ Request |-> "PlaceDiscRequest", Response |-> "SuccessResult" ] >> ]

GameUpdate == { Empty }
FromInitialData_Game(initial) == Empty
ToInitialData_Game(update) == Empty
ApplyTo_Game(update, d) == d

Serialize_Game(handle_type, x) ==
  CASE handle_type = "update"   -> UpdateRoot(1000, << >>, << >>)
    [] handle_type = "snapshot" -> Root(1000, Write_GameData(x))
    [] handle_type = "request"  ->
         Root(1000, IF x.CommandId = 1 THEN << << Write_Void(data(x, "Void")) >> >>
                    ELSE << << >>, << >>,
                            << Write_PlaceDiscRequest(data(x, "PlaceDiscRequest")) >> >>)
    [] handle_type = "response" ->
         Root(1000, IF x.CommandId = 1
                    THEN << << >>, << Write_CreatePlayerResult(data(x, "CreatePlayerResult")) >> >>
                    ELSE << << >>, << >>, << >>,
                            << Write_SuccessResult(data(x, "SuccessResult")) >> >>)

Deserialize_Game(handle_type, root) ==
  LET object == GetObject(root, 1000)
      Command(field, generic) == IF Count(object, field) = 0 THEN << >> ELSE << generic >>
      Last(first, second) == IF second # << >> THEN second ELSE first
  IN  CASE handle_type = "update"   -> << Empty >>
        [] handle_type = "snapshot" -> << Read_GameData(object) >>
        [] handle_type = "request"  ->
             Last(Command(1, Generic(1, "Void", Read_Void(GetObject(object, 1)))),
                  Command(3, Generic(2, "PlaceDiscRequest",
                                     Read_PlaceDiscRequest(GetObject(object, 3)))))
        [] handle_type = "response" ->
             Last(Command(2, Generic(1, "CreatePlayerResult",
                                     Read_CreatePlayerResult(GetObject(object, 2)))),
                  Command(4, Generic(2, "SuccessResult",
                                     Read_SuccessResult(GetObject(object, 4)))))

-----------------------------------------------------------------------------
Color ==
  [ ComponentId |-> 1001,
    Commands |-> << [ Request |-> "FindColorRequest", Response |-> "SuccessResult" ] >> ]

ColorUpdate == [ black : Options(BOOLEAN) ]
FromInitialData_Color(initial) == [ black |-> << initial.black >> ]
ToInitialData_Color(update) == [ black |-> update.black[1] ]
ApplyTo_Color(update, d) == [ black |-> Or(update.black, d.black) ]

Serialize_Color(handle_type, x) ==
  CASE handle_type = "update"   -> UpdateRoot(1001, << >>, << Each(Bool, x.black) >>)
    [] handle_type = "snapshot" -> Root(1001, Write_ColorData(x))
    [] handle_type = "request"  ->
         Root(1001, << << Write_FindColorRequest(data(x, "FindColorRequest")) >> >>)
    [] handle_type = "response" ->
         Root(1001, << << >>, << Write_SuccessResult(data(x, "SuccessResult")) >> >>)

Deserialize_Color(handle_type, root) ==
  LET object == GetObject(root, 1001)
      black  == GetOption(StateObject(root, 1001), 1)
  IN  CASE handle_type = "update"   -> << [ black |-> Each(LAMBDA b : b # 0, black) ] >>
        [] handle_type = "snapshot" -> << Read_ColorData(object) >>
        [] handle_type = "request" /\ Count(object, 1) > 0 ->
             << Generic(1, "FindColorRequest", Read_FindColorRequest(GetObject(object, 1))) >>
        [] handle_type = "response" /\ Count(object, 2) > 0 ->
             << Generic(1, "SuccessResult", Read_SuccessResult(GetObject(object, 2))) >>
        [] OTHER -> << >>

-----------------------------------------------------------------------------
Player == [ ComponentId |-> 1002, Commands |-> << >> ]

PlayerUpdate == [ worker : Options(Strings) ]
FromInitialData_Player(initial) == [ worker |-> << initial.worker >> ]
ToInitialData_Player(update) == [ worker |-> update.worker[1] ]
ApplyTo_Player(update, d) == [ worker |-> Or(update.worker, d.worker) ]

Serialize_Player(handle_type, x) ==
  CASE handle_type = "update"   -> UpdateRoot(1002, << >>, << x.worker >>)
    [] handle_type = "snapshot" -> Root(1002, Write_PlayerData(x))
    [] OTHER                    -> Root(1002, << >>)

Deserialize_Player(handle_type, root) ==
  CASE handle_type = "update"   -> << [ worker |-> GetOption(StateObject(root, 1002), 1) ] >>
    [] handle_type = "snapshot" -> << Read_PlayerData(GetObject(root, 1002)) >>
    [] OTHER                    -> << >>

-----------------------------------------------------------------------------
TurnTaker ==
  [ ComponentId |-> 1003, Commands |-> << [ Request |-> "Void", Response |-> "Void" ] >> ]

TurnTakerUpdate == { Empty }
FromInitialData_TurnTaker(initial) == Empty
ToInitialData_TurnTaker(update) == Empty
ApplyTo_TurnTaker(update, d) == d

Serialize_TurnTaker(handle_type, x) ==
  CASE handle_type = "update"   -> UpdateRoot(1003, << >>, << >>)
    [] handle_type = "snapshot" -> Root(1003, Write_TurnTakerData(x))
    [] handle_type = "request"  -> Root(1003, << << Write_Void(data(x, "Void")) >> >>)
    [] handle_type = "response" -> Root(1003, << << >>, << Write_Void(data(x, "Void")) >> >>)

Deserialize_TurnTaker(handle_type, root) ==
  LET object == GetObject(root, 1003)
  IN  CASE handle_type = "update"   -> << Empty >>
        [] handle_type = "snapshot" -> << Read_TurnTakerData(object) >>
        [] handle_type = "request" /\ Count(object, 1) > 0 ->
             << Generic(1, "Void", Read_Void(GetObject(object, 1))) >>
        [] handle_type = "response" /\ Count(object, 2) > 0 ->
             << Generic(1, "Void", Read_Void(GetObject(object, 2))) >>
        [] OTHER -> << >>
=============================================================================
