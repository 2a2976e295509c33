----------------------------- MODULE Components -----------------------------
(***************************************************************************)
(* A component of an entity, of any of the generated kinds but EntityAcl   *)
(* (see Replication), between the worker that writes it and one that       *)
(* reads: the writer fills in an update, sends it, or the whole data, and  *)
(* the runtime hands it on as the protobuf object that the component's     *)
(* vtable makes of it.  The reader keeps what it was given by the          *)
(* component's AddComponentOp, and applies the updates to it, as           *)
(* worker::View does.                                                      *)
(***************************************************************************)
EXTENDS Interest, FiniteSets

CONSTANTS
  InterestMaps,  \* values for the field of Interest
  MaxInFlight    \* bound on the messages on their way to the reader

ASSUME ComponentsAssumption == InterestMaps \subseteq InterestMap /\ MaxInFlight \in Nat

Kinds == { "Game", "Color", "Player", "TurnTaker", "Metadata", "Position",
           "Persistence", "Interest" }

(* The field of each component, where it has one, and its values.          *)
Values(kind) ==
  CASE kind = "Color"    -> [ black : BOOLEAN ]
    [] kind = "Player"   -> [ worker : Strings ]
    [] kind = "Metadata" -> [ entity_type : Strings ]
    [] kind = "Position" -> [ coords : Coordinates ]
    [] kind = "Interest" -> [ component_interest : InterestMaps ]
    [] OTHER             -> { Empty }

New(kind) ==
  CASE kind = "Game"        -> NewGameData
    [] kind = "Color"       -> NewColorData
    [] kind = "Player"      -> NewPlayerData
    [] kind = "TurnTaker"   -> NewTurnTakerData
    [] kind = "Metadata"    -> NewMetadataData
    [] kind = "Position"    -> NewPositionData
    [] kind = "Persistence" -> NewPersistenceData
    [] kind = "Interest"    -> NewInterestData

FromInitialData(kind, d) ==
  CASE kind = "Game"        -> FromInitialData_Game(d)
    [] kind = "Color"       -> FromInitialData_Color(d)
    [] kind = "Player"      -> FromInitialData_Player(d)
    [] kind = "TurnTaker"   -> FromInitialData_TurnTaker(d)
    [] kind = "Metadata"    -> FromInitialData_Metadata(d)
    [] kind = "Position"    -> FromInitialData_Position(d)
    [] kind = "Persistence" -> FromInitialData_Persistence(d)
    [] kind = "Interest"    -> FromInitialData_Interest(d)

ToInitialData(kind, u) ==
  CASE kind = "Game"        -> ToInitialData_Game(u)
    [] kind = "Color"       -> ToInitialData_Color(u)
    [] kind = "Player"      -> ToInitialData_Player(u)
    [] kind = "TurnTaker"   -> ToInitialData_TurnTaker(u)
    [] kind = "Metadata"    -> ToInitialData_Metadata(u)
    [] kind = "Position"    -> ToInitialData_Position(u)
    [] kind = "Persistence" -> ToInitialData_Persistence(u)
    [] kind = "Interest"    -> ToInitialData_Interest(u)

ApplyTo(kind, u, d) ==
  CASE kind = "Game"        -> ApplyTo_Game(u, d)
    [] kind = "Color"       -> ApplyTo_Color(u, d)
    [] kind = "Player"      -> ApplyTo_Player(u, d)
    [] kind = "TurnTaker"   -> ApplyTo_TurnTaker(u, d)
    [] kind = "Metadata"    -> ApplyTo_Metadata(u, d)
    [] kind = "Position"    -> ApplyTo_Position(u, d)
    [] kind = "Persistence" -> ApplyTo_Persistence(u, d)
    [] kind = "Interest"    -> ApplyTo_Interest(u, d)

Serialize(kind, handle_type, x) ==
  CASE kind = "Game"        -> Serialize_Game(handle_type, x)
    [] kind = "Color"       -> Serialize_Color(handle_type, x)
    [] kind = "Player"      -> Serialize_Player(handle_type, x)
    [] kind = "TurnTaker"   -> Serialize_TurnTaker(handle_type, x)
    [] kind = "Metadata"    -> Serialize_Metadata(handle_type, x)
    [] kind = "Position"    -> Serialize_Position(handle_type, x)
    [] kind = "Persistence" -> Serialize_Persistence(handle_type, x)
    [] kind = "Interest"    -> Serialize_Interest(handle_type, x)

Deserialize(kind, handle_type, root) ==
  CASE kind = "Game"        -> Deserialize_Game(handle_type, root)
    [] kind = "Color"       -> Deserialize_Color(handle_type, root)
    [] kind = "Player"      -> Deserialize_Player(handle_type, root)
    [] kind = "TurnTaker"   -> Deserialize_TurnTaker(handle_type, root)
    [] kind = "Metadata"    -> Deserialize_Metadata(handle_type, root)
    [] kind = "Position"    -> Deserialize_Position(handle_type, root)
    [] kind = "Persistence" -> Deserialize_Persistence(handle_type, root)
    [] kind = "Interest"    -> Deserialize_Interest(handle_type, root)

(* An update with no field set.                                            *)
NewUpdate(kind) == [ field \in DOMAIN New(kind) |-> << >> ]

Complete(u) == \A field \in DOMAIN u : u[field] # << >>

-----------------------------------------------------------------------------
VARIABLES
  kind,    \* which of the components it is
  ours,    \* its data
  update,  \* the Update that the writer fills in
  wire,    \* what is on its way to the reader: handle type and object
  theirs   \* the reader's copy of the data, once it has one

componentVars == << kind, ours, update, wire, theirs >>

ComponentsInit ==
  /\ kind \in Kinds
  /\ ours = New(kind) /\ update = NewUpdate(kind)
  /\ wire = << >> /\ theirs = << >>

Send(handle_type, x) ==
  /\ Len(wire) < MaxInFlight
  /\ wire' = Append(wire, << handle_type, Serialize(kind, handle_type, x) >>)

(* Update::set_...                                                         *)
Set ==
  /\ \E value \in Values(kind), field \in DOMAIN update :
       update' = [ update EXCEPT ![field] = << value[field] >> ]
  /\ UNCHANGED << kind, ours, wire, theirs >>

(* The option that a field of the update is can be emptied again.          *)
Clear ==
  /\ \E field \in DOMAIN update : update' = [ update EXCEPT ![field] = << >> ]
  /\ UNCHANGED << kind, ours, wire, theirs >>

(* The entity is checked out by the reader.                                *)
CheckOut ==
  /\ \A i \in DOMAIN wire : wire[i][1] # "snapshot"
  /\ theirs = << >>
  /\ Send("snapshot", ours)
  /\ UNCHANGED << kind, ours, update, theirs >>

Reading == theirs # << >> \/ \E i \in DOMAIN wire : wire[i][1] = "snapshot"

(* Connection::SendComponentUpdate, and what is then the component's data. *)
SendComponentUpdate ==
  /\ Reading
  /\ Send("update", update)
  /\ ours' = ApplyTo(kind, update, ours)
  /\ UNCHANGED << kind, update, theirs >>

(* The same with Update::FromInitialData of other data.                    *)
SendInitialData ==
  /\ Reading
  /\ Complete(update)
  /\ ours' = ToInitialData(kind, update)
  /\ Send("update", FromInitialData(kind, ours'))
  /\ update' = NewUpdate(kind)
  /\ UNCHANGED << kind, theirs >>

(* The reader's data after a message.                                      *)
Receiving(copy, message) ==
  LET x == Deserialize(kind, message[1], message[2])
  IN  IF message[1] = "snapshot" THEN x
      ELSE << ApplyTo(kind, x[1], copy[1]) >>

Receive ==
  /\ wire # << >>
  /\ theirs' = Receiving(theirs, Head(wire))
  /\ wire' = Tail(wire)
  /\ UNCHANGED << kind, ours, update >>

(* The reader's view loses the entity, after all that was on its way.      *)
Leave ==
  /\ theirs # << >> /\ wire = << >>
  /\ theirs' = << >>
  /\ UNCHANGED << kind, ours, update, wire >>

ComponentsNext ==
  \/ Set \/ Clear \/ CheckOut \/ SendComponentUpdate \/ SendInitialData
  \/ Receive \/ Leave

ComponentsSpec == ComponentsInit /\ [][ComponentsNext]_componentVars

-----------------------------------------------------------------------------
(* Every field has a value of its type, at the writer and at the reader,   *)
(* and there is a copy for every update to be applied to.                  *)
ComponentsTypeOK ==
  /\ kind \in Kinds
  /\ ours \in Values(kind) \cup { New(kind) }
  /\ \A field \in DOMAIN update :
       update[field] \in Options({ value[field] : value \in Values(kind) })
  /\ Len(wire) <= MaxInFlight
  /\ theirs \in Options(Values(kind) \cup { New(kind) })
  /\ wire # << >> /\ theirs = << >> => Head(wire)[1] = "snapshot"

(* The reader's copy after all that is on its way to it.                   *)
Arriving ==
  LET copy[i \in 0 .. Len(wire)] ==
        IF i = 0 THEN theirs ELSE Receiving(copy[i - 1], wire[i])
  IN  copy[Len(wire)]

(* No update is garbled, or loses or adds a field, on its way through      *)
(* ToInitialData, FromInitialData, the vtable's Serialize and Deserialize, *)
(* and ApplyTo: what the reader will have is what the component is.        *)
NothingIsLostOnTheWay ==
  /\ ComponentsTypeOK
  /\ Reading => Arriving = << ours >>

(* "It is an error to call this function unless all of the optional fields *)
(* in this update are filled in": when they are, ToInitialData says what   *)
(* the update makes of any data, and FromInitialData takes it back.  And   *)
(* an update that is applied a second time, as it is when a component      *)
(* comes into view between the two, changes nothing.                       *)
ACompleteUpdateIsData ==
  /\ Complete(update) =>
       /\ \A d \in Values(kind) : ApplyTo(kind, update, d) = ToInitialData(kind, update)
       /\ FromInitialData(kind, ToInitialData(kind, update)) = update
  /\ \A d \in Values(kind) :
       LET once == ApplyTo(kind, update, d)
       IN  ApplyTo(kind, update, once) = once
=============================================================================
