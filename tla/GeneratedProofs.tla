-------------------------- MODULE GeneratedProofs --------------------------
(***************************************************************************)
(* Proofs about what is generated from a schema: that what the classes     *)
(* write they read back, that a component arrives where it is sent as it   *)
(* is (Components), and, of its commands (Commands), what handlers and     *)
(* callers are called with, and that they are remote calls.                *)
(***************************************************************************)
EXTENDS Commands, Components, SequenceTheorems, WellFoundedInduction, TLAPS

-----------------------------------------------------------------------------
(* The generated classes: what they write to a protobuf object they read   *)
(* back, for all values of all their fields, for the types of Othello, of  *)
(* StandardLibrary and of Interest, and for what their components' vtables *)
(* serialize for each type of handle.                                      *)

(* A value is read from the only field there is.                           *)
LEMMA ReadOne ==
  ASSUME NEW v, NEW default
  PROVE  /\ Get(<< << v >> >>, 1, default) = v
         /\ GetOption(<< << v >> >>, 1) = << v >>
         /\ GetList(<< << v >> >>, 1) = << v >>
         /\ Count(<< << v >> >>, 1) = 1
BY DEF Get, GetOption, GetList, Count

LEMMA ReadTwo ==
  ASSUME NEW v, NEW w, NEW default
  PROVE  /\ Get(<< << v >>, << w >> >>, 1, default) = v
         /\ Get(<< << v >>, << w >> >>, 2, default) = w
BY DEF Get, Count

LEMMA ReadThree ==
  ASSUME NEW v, NEW w, NEW u, NEW default
  PROVE  /\ Get(<< << v >>, << w >>, << u >> >>, 1, default) = v
         /\ Get(<< << v >>, << w >>, << u >> >>, 2, default) = w
         /\ Get(<< << v >>, << w >>, << u >> >>, 3, default) = u
BY DEF Get, Count

LEMMA ReadBool == ASSUME NEW b \in BOOLEAN PROVE (Bool(b) # 0) = b
BY DEF Bool

(* What every type of othello.schema writes, it reads back                 *)
(* (generated_src/othello.cc, Write_... and Read_...).                     *)
THEOREM OthelloTypesReadBack ==
  /\ \A d \in ColorData : Read_ColorData(Write_ColorData(d)) = d
  /\ \A d \in CreatePlayerResult : Read_CreatePlayerResult(Write_CreatePlayerResult(d)) = d
  /\ \A d \in FindColorRequest : Read_FindColorRequest(Write_FindColorRequest(d)) = d
  /\ \A d \in GameData : Read_GameData(Write_GameData(d)) = d
  /\ \A d \in PlaceDiscRequest : Read_PlaceDiscRequest(Write_PlaceDiscRequest(d)) = d
  /\ \A d \in PlayerData : Read_PlayerData(Write_PlayerData(d)) = d
  /\ \A d \in SuccessResult : Read_SuccessResult(Write_SuccessResult(d)) = d
  /\ \A d \in TurnTakerData : Read_TurnTakerData(Write_TurnTakerData(d)) = d
  /\ \A d \in Void : Read_Void(Write_Void(d)) = d
<1>1. \A d \in ColorData : Read_ColorData(Write_ColorData(d)) = d
  BY ReadOne, ReadBool DEF ColorData, Read_ColorData, Write_ColorData
<1>2. \A d \in CreatePlayerResult : Read_CreatePlayerResult(Write_CreatePlayerResult(d)) = d
  BY ReadOne, ReadBool
  DEF CreatePlayerResult, Read_CreatePlayerResult, Write_CreatePlayerResult
<1>3. \A d \in FindColorRequest : Read_FindColorRequest(Write_FindColorRequest(d)) = d
  BY ReadTwo, ReadBool DEF FindColorRequest, Read_FindColorRequest, Write_FindColorRequest
<1>4. \A d \in GameData : Read_GameData(Write_GameData(d)) = d
  BY DEF GameData, Read_GameData
<1>5. \A d \in PlaceDiscRequest : Read_PlaceDiscRequest(Write_PlaceDiscRequest(d)) = d
  BY ReadTwo DEF PlaceDiscRequest, Read_PlaceDiscRequest, Write_PlaceDiscRequest
<1>6. \A d \in PlayerData : Read_PlayerData(Write_PlayerData(d)) = d
  <2> SUFFICES ASSUME NEW d \in PlayerData PROVE Read_PlayerData(Write_PlayerData(d)) = d
    OBVIOUS
  <2>1. Get(<< << d.worker >> >>, 1, "") = d.worker
    BY ReadOne
  <2> QED BY <2>1 DEF PlayerData, Read_PlayerData, Write_PlayerData
<1>7. \A d \in SuccessResult : Read_SuccessResult(Write_SuccessResult(d)) = d
  BY ReadOne, ReadBool DEF SuccessResult, Read_SuccessResult, Write_SuccessResult
<1>8. \A d \in TurnTakerData : Read_TurnTakerData(Write_TurnTakerData(d)) = d
  BY DEF TurnTakerData, Read_TurnTakerData
<1>9. \A d \in Void : Read_Void(Write_Void(d)) = d
  BY DEF Void, Read_Void
<1> QED BY <1>1, <1>2, <1>3, <1>4, <1>5, <1>6, <1>7, <1>8, <1>9

(* The elements of a list of lists of strings, one by one.                 *)
LEMMA AttributeSetReadsBack ==
  ASSUME NEW d \in WorkerAttributeSet
  PROVE  Read_WorkerAttributeSet(Write_WorkerAttributeSet(d)) = d
BY DEF WorkerAttributeSet, Read_WorkerAttributeSet, Write_WorkerAttributeSet, GetList, Count

LEMMA EachIsConcatenated ==
  ASSUME NEW n \in Nat, NEW f, f = [ i \in 1 .. n |-> f[i] ]
  PROVE  << >> \o f = f
<1>1. f \in Seq({ f[i] : i \in 1 .. n })
  <2>1. f \in [ 1 .. n -> { f[i] : i \in 1 .. n } ]
    OBVIOUS
  <2> QED BY <2>1, SeqDef
<1> QED BY <1>1, ConcatEmptySeq

LEMMA RequirementSetReadsBack ==
  ASSUME NEW d \in WorkerRequirementSet
  PROVE  Read_WorkerRequirementSet(Write_WorkerRequirementSet(d)) = d
<1> DEFINE sets    == d.attribute_set
           written == [ i \in DOMAIN sets |-> Write_WorkerAttributeSet(sets[i]) ]
           read    == [ i \in DOMAIN written |-> Read_WorkerAttributeSet(written[i]) ]
<1>1. /\ sets \in Seq(WorkerAttributeSet) /\ d = [ attribute_set |-> sets ]
      /\ Len(sets) \in Nat /\ DOMAIN sets = 1 .. Len(sets)
  BY DEF WorkerRequirementSet
<1>2. Each(Write_WorkerAttributeSet, sets) = written
  BY <1>1, EachIsConcatenated DEF Each
<1>3. Each(Read_WorkerAttributeSet, written) = read
  BY <1>1, EachIsConcatenated DEF Each
<1>4. read = sets
  BY <1>1, AttributeSetReadsBack
<1>5. GetList(<< written >>, 1) = written
  BY <1>1 DEF GetList, Count
<1> QED BY <1>1, <1>2, <1>3, <1>4, <1>5 DEF Read_WorkerRequirementSet, Write_WorkerRequirementSet

(* What every type of standard_library.schema and vector3.schema writes,   *)
(* the ones of interests and EntityAclData left out, it reads back         *)
(* (generated_src/improbable, Write_... and Read_...).                     *)
THEOREM StandardTypesReadBack ==
  /\ \A d \in Coordinates : Read_Coordinates(Write_Coordinates(d)) = d
  /\ \A d \in EdgeLength : Read_EdgeLength(Write_EdgeLength(d)) = d
  /\ \A d \in Vector3d : Read_Vector3d(Write_Vector3d(d)) = d
  /\ \A d \in Vector3f : Read_Vector3f(Write_Vector3f(d)) = d
  /\ \A d \in WorkerAttributeSet : Read_WorkerAttributeSet(Write_WorkerAttributeSet(d)) = d
  /\ \A d \in WorkerRequirementSet :
       Read_WorkerRequirementSet(Write_WorkerRequirementSet(d)) = d
  /\ \A d \in MetadataData : Read_MetadataData(Write_MetadataData(d)) = d
  /\ \A d \in PersistenceData : Read_PersistenceData(Write_PersistenceData(d)) = d
  /\ \A d \in PositionData : Read_PositionData(Write_PositionData(d)) = d
<1>1. \A d \in Coordinates : Read_Coordinates(Write_Coordinates(d)) = d
  BY ReadThree DEF Coordinates, Read_Coordinates, Write_Coordinates
<1>2. \A d \in EdgeLength : Read_EdgeLength(Write_EdgeLength(d)) = d
  BY ReadThree DEF EdgeLength, Read_EdgeLength, Write_EdgeLength
<1>3. \A d \in Vector3d : Read_Vector3d(Write_Vector3d(d)) = d
  BY ReadThree DEF Vector3d, Read_Vector3d, Write_Vector3d
<1>4. \A d \in Vector3f : Read_Vector3f(Write_Vector3f(d)) = d
  BY ReadThree DEF Vector3f, Read_Vector3f, Write_Vector3f
<1>5. \A d \in MetadataData : Read_MetadataData(Write_MetadataData(d)) = d
  <2> SUFFICES ASSUME NEW d \in MetadataData
               PROVE  Read_MetadataData(Write_MetadataData(d)) = d
    OBVIOUS
  <2>1. Get(<< << d.entity_type >> >>, 1, "") = d.entity_type
    BY ReadOne
  <2> QED BY <2>1 DEF MetadataData, Read_MetadataData, Write_MetadataData
<1>6. \A d \in PersistenceData : Read_PersistenceData(Write_PersistenceData(d)) = d
  BY DEF PersistenceData, Read_PersistenceData
<1>7. \A d \in PositionData : Read_PositionData(Write_PositionData(d)) = d
  BY ReadOne, <1>1 DEF PositionData, Read_PositionData, Write_PositionData, GetObject
<1> QED BY <1>1, <1>2, <1>3, <1>4, <1>5, <1>6, <1>7, AttributeSetReadsBack,
           RequirementSetReadsBack

-----------------------------------------------------------------------------
(* An object under the component's id is found there.                      *)
LEMMA RootReadsBack ==
  ASSUME NEW id, NEW object
  PROVE  GetObject(Root(id, object), id) = object
BY DEF GetObject, Get, Count, Root

LEMMA StateReadsBack ==
  ASSUME NEW id, NEW fields_to_clear, NEW object
  PROVE  StateObject(UpdateRoot(id, fields_to_clear, object), id) = object
<1>1. GetObject(UpdateRoot(id, fields_to_clear, object), 2) = Root(id, object)
  BY DEF UpdateRoot, GetObject, Get, Count
<1> QED BY <1>1, RootReadsBack DEF StateObject

(* The option that a field of an update is.                                *)
LEMMA OptionReadsBack ==
  ASSUME NEW S, NEW option \in Options(S)
  PROVE  /\ GetOption(<< option >>, 1) = option
         /\ option = << >> \/ \E v \in S : option = << v >>
<1>1. CASE option = << >>
  BY <1>1 DEF GetOption, Count
<1>2. CASE \E v \in S : option = << v >>
  BY <1>2 DEF GetOption, Count, Get
<1> QED BY <1>1, <1>2 DEF Options

LEMMA EachOfAnOption ==
  ASSUME NEW S, NEW option \in Options(S), NEW f, f = [ i \in DOMAIN option |-> f[i] ]
  PROVE  /\ << >> \o f = f
         /\ option = << >> => f = << >>
         /\ option # << >> => f = << f[1] >> /\ option = << option[1] >> /\ option[1] \in S
<1>1. CASE option = << >>
  <2>1. << >> \o f = f
    BY <1>1, EachIsConcatenated, DOMAIN option = 1 .. 0
  <2> QED BY <1>1, <2>1
<1>2. CASE \E v \in S : option = << v >>
  <2>1. << >> \o f = f
    BY <1>2, EachIsConcatenated, DOMAIN option = 1 .. 1
  <2> QED BY <1>2, <2>1
<1> QED BY <1>1, <1>2 DEF Options

(* Variant::data of the type that is held.                                 *)
LEMMA DataOfGeneric ==
  ASSUME NEW id, NEW name, NEW x
  PROVE  data(Generic(id, name, x), name) = x
BY DEF data, Generic

(* What the vtable of Game serializes for a handle of each type, it        *)
(* deserializes into an equal one, the two commands kept apart             *)
(* (othello.cc, VtableSerialize_Game and VtableDeserialize_Game).          *)
THEOREM GameReadsBack ==
  /\ \A u \in GameUpdate : Deserialize_Game("update", Serialize_Game("update", u)) = << u >>
  /\ \A d \in GameData : Deserialize_Game("snapshot", Serialize_Game("snapshot", d)) = << d >>
  /\ \A v \in Void : LET request == Generic(1, "Void", v) IN
       Deserialize_Game("request", Serialize_Game("request", request)) = << request >>
  /\ \A v \in PlaceDiscRequest : LET request == Generic(2, "PlaceDiscRequest", v) IN
       Deserialize_Game("request", Serialize_Game("request", request)) = << request >>
  /\ \A v \in CreatePlayerResult : LET response == Generic(1, "CreatePlayerResult", v) IN
       Deserialize_Game("response", Serialize_Game("response", response)) = << response >>
  /\ \A v \in SuccessResult : LET response == Generic(2, "SuccessResult", v) IN
       Deserialize_Game("response", Serialize_Game("response", response)) = << response >>
<1>1. \A u \in GameUpdate : Deserialize_Game("update", Serialize_Game("update", u)) = << u >>
  BY DEF GameUpdate, Deserialize_Game
<1>2. \A d \in GameData : Deserialize_Game("snapshot", Serialize_Game("snapshot", d)) = << d >>
  BY OthelloTypesReadBack, RootReadsBack DEF Serialize_Game, Deserialize_Game
<1>3. ASSUME NEW v \in Void
      PROVE  LET request == Generic(1, "Void", v) IN
             Deserialize_Game("request", Serialize_Game("request", request)) = << request >>
  <2> DEFINE request == Generic(1, "Void", v)
             object  == << << Write_Void(v) >> >>
  <2>1. Serialize_Game("request", request) = Root(1000, object)
    BY DataOfGeneric DEF Serialize_Game, Generic
  <2>2. GetObject(Root(1000, object), 1000) = object
    BY RootReadsBack
  <2>3. Count(object, 1) = 1 /\ Count(object, 3) = 0 /\ GetObject(object, 1) = Write_Void(v)
    BY DEF Count, GetObject, Get
  <2> QED BY <2>1, <2>2, <2>3, OthelloTypesReadBack DEF Deserialize_Game
<1>4. ASSUME NEW v \in PlaceDiscRequest
      PROVE  LET request == Generic(2, "PlaceDiscRequest", v) IN
             Deserialize_Game("request", Serialize_Game("request", request)) = << request >>
  <2> DEFINE request == Generic(2, "PlaceDiscRequest", v)
             object  == << << >>, << >>, << Write_PlaceDiscRequest(v) >> >>
  <2>1. Serialize_Game("request", request) = Root(1000, object)
    BY DataOfGeneric DEF Serialize_Game, Generic
  <2>2. GetObject(Root(1000, object), 1000) = object
    BY RootReadsBack
  <2>3. /\ Count(object, 1) = 0 /\ Count(object, 3) = 1
        /\ GetObject(object, 3) = Write_PlaceDiscRequest(v)
    BY DEF Count, GetObject, Get
  <2> QED BY <2>1, <2>2, <2>3, OthelloTypesReadBack DEF Deserialize_Game
<1>5. ASSUME NEW v \in CreatePlayerResult
      PROVE  LET response == Generic(1, "CreatePlayerResult", v) IN
             Deserialize_Game("response", Serialize_Game("response", response)) = << response >>
  <2> DEFINE response == Generic(1, "CreatePlayerResult", v)
             object   == << << >>, << Write_CreatePlayerResult(v) >> >>
  <2>1. Serialize_Game("response", response) = Root(1000, object)
    BY DataOfGeneric DEF Serialize_Game, Generic
  <2>2. GetObject(Root(1000, object), 1000) = object
    BY RootReadsBack
  <2>3. /\ Count(object, 2) = 1 /\ Count(object, 4) = 0
        /\ GetObject(object, 2) = Write_CreatePlayerResult(v)
    BY DEF Count, GetObject, Get
  <2> QED BY <2>1, <2>2, <2>3, OthelloTypesReadBack DEF Deserialize_Game
<1>6. ASSUME NEW v \in SuccessResult
      PROVE  LET response == Generic(2, "SuccessResult", v) IN
             Deserialize_Game("response", Serialize_Game("response", response)) = << response >>
  <2> DEFINE response == Generic(2, "SuccessResult", v)
             object   == << << >>, << >>, << >>, << Write_SuccessResult(v) >> >>
  <2>1. Serialize_Game("response", response) = Root(1000, object)
    BY DataOfGeneric DEF Serialize_Game, Generic
  <2>2. GetObject(Root(1000, object), 1000) = object
    BY RootReadsBack
  <2>3. /\ Count(object, 2) = 0 /\ Count(object, 4) = 1
        /\ GetObject(object, 4) = Write_SuccessResult(v)
    BY DEF Count, GetObject, Get
  <2> QED BY <2>1, <2>2, <2>3, OthelloTypesReadBack DEF Deserialize_Game
<1> QED BY <1>1, <1>2, <1>3, <1>4, <1>5, <1>6

(* The same of Color, whose update may leave the colour out                *)
(* (othello.cc, VtableSerialize_Color and VtableDeserialize_Color).        *)
THEOREM ColorReadsBack ==
  /\ \A u \in ColorUpdate : Deserialize_Color("update", Serialize_Color("update", u)) = << u >>
  /\ \A d \in ColorData : Deserialize_Color("snapshot", Serialize_Color("snapshot", d)) = << d >>
  /\ \A v \in FindColorRequest : LET request == Generic(1, "FindColorRequest", v) IN
       Deserialize_Color("request", Serialize_Color("request", request)) = << request >>
  /\ \A v \in SuccessResult : LET response == Generic(1, "SuccessResult", v) IN
       Deserialize_Color("response", Serialize_Color("response", response)) = << response >>
<1>1. ASSUME NEW u \in ColorUpdate
      PROVE  Deserialize_Color("update", Serialize_Color("update", u)) = << u >>
  <2> DEFINE written == [ i \in DOMAIN u.black |-> Bool(u.black[i]) ]
             read    == [ i \in DOMAIN written |-> written[i] # 0 ]
             state   == << Each(Bool, u.black) >>
  <2>1. u.black \in Options(BOOLEAN) /\ u = [ black |-> u.black ]
    BY DEF ColorUpdate
  <2>2. << >> \o written = written /\ written \in Options({ 0, 1 })
    BY <2>1, EachOfAnOption DEF Options, Bool
  <2>3. Each(Bool, u.black) = written
    BY <2>2 DEF Each
  <2>4. << >> \o read = read
    BY <2>2, EachOfAnOption
  <2>5. read = u.black
    <3>1. CASE u.black = << >>
      BY <3>1
    <3>2. CASE \E b \in BOOLEAN : u.black = << b >>
      BY <3>2, ReadBool
    <3> QED BY <2>1, <3>1, <3>2 DEF Options
  <2>6. StateObject(Serialize_Color("update", u), 1001) = << written >>
    <3>1. Serialize_Color("update", u) = UpdateRoot(1001, << >>, << Each(Bool, u.black) >>)
      BY DEF Serialize_Color
    <3> QED BY <2>3, <3>1, StateReadsBack
  <2>7. GetOption(<< written >>, 1) = written
    BY <2>2, OptionReadsBack
  <2>8. Each(LAMBDA b : b # 0, written) = read
    BY <2>4 DEF Each
  <2> QED BY <2>1, <2>5, <2>6, <2>7, <2>8 DEF Deserialize_Color
<1>2. \A d \in ColorData : Deserialize_Color("snapshot", Serialize_Color("snapshot", d)) = << d >>
  BY OthelloTypesReadBack, RootReadsBack DEF Serialize_Color, Deserialize_Color
<1>3. ASSUME NEW v \in FindColorRequest
      PROVE  LET request == Generic(1, "FindColorRequest", v) IN
             Deserialize_Color("request", Serialize_Color("request", request)) = << request >>
  <2> DEFINE request == Generic(1, "FindColorRequest", v)
             object  == << << Write_FindColorRequest(v) >> >>
  <2>1. Serialize_Color("request", request) = Root(1001, object)
    BY DataOfGeneric DEF Serialize_Color
  <2>2. GetObject(Root(1001, object), 1001) = object
    BY RootReadsBack
  <2>3. Count(object, 1) = 1 /\ GetObject(object, 1) = Write_FindColorRequest(v)
    BY ReadOne DEF GetObject
  <2> QED BY <2>1, <2>2, <2>3, OthelloTypesReadBack DEF Deserialize_Color
<1>4. ASSUME NEW v \in SuccessResult
      PROVE  LET response == Generic(1, "SuccessResult", v) IN
             Deserialize_Color("response", Serialize_Color("response", response)) = << response >>
  <2> DEFINE response == Generic(1, "SuccessResult", v)
             object   == << << >>, << Write_SuccessResult(v) >> >>
  <2>1. Serialize_Color("response", response) = Root(1001, object)
    BY DataOfGeneric DEF Serialize_Color
  <2>2. GetObject(Root(1001, object), 1001) = object
    BY RootReadsBack
  <2>3. Count(object, 2) = 1 /\ GetObject(object, 2) = Write_SuccessResult(v)
    BY DEF Count, GetObject, Get
  <2> QED BY <2>1, <2>2, <2>3, OthelloTypesReadBack DEF Deserialize_Color
<1> QED BY <1>1, <1>2, <1>3, <1>4

(* What the vtable of Player serializes, update or snapshot, it deserializes
   into an equal one (othello.cc, VtableSerialize_Player and VtableDeserialize_Player). *)
THEOREM PlayerReadsBack ==
  /\ \A u \in PlayerUpdate : Deserialize_Player("update", Serialize_Player("update", u)) = << u >>
  /\ \A d \in PlayerData :
       Deserialize_Player("snapshot", Serialize_Player("snapshot", d)) = << d >>
<1>1. ASSUME NEW u \in PlayerUpdate
      PROVE  Deserialize_Player("update", Serialize_Player("update", u)) = << u >>
  <2>1. u.worker \in Options(Strings) /\ u = [ worker |-> u.worker ]
    BY DEF PlayerUpdate
  <2>2. Serialize_Player("update", u) = UpdateRoot(1002, << >>, << u.worker >>)
    BY DEF Serialize_Player
  <2>3. StateObject(Serialize_Player("update", u), 1002) = << u.worker >>
    BY <2>2, StateReadsBack
  <2>4. GetOption(<< u.worker >>, 1) = u.worker
    BY <2>1, OptionReadsBack
  <2> QED BY <2>1, <2>3, <2>4 DEF Deserialize_Player
<1>2. \A d \in PlayerData :
        Deserialize_Player("snapshot", Serialize_Player("snapshot", d)) = << d >>
  BY OthelloTypesReadBack, RootReadsBack DEF Serialize_Player, Deserialize_Player
<1> QED BY <1>1, <1>2

(* The same of TurnTaker, with the request and the response of its command
   (othello.cc, VtableSerialize_TurnTaker and VtableDeserialize_TurnTaker). *)
THEOREM TurnTakerReadsBack ==
  /\ \A u \in TurnTakerUpdate :
       Deserialize_TurnTaker("update", Serialize_TurnTaker("update", u)) = << u >>
  /\ \A d \in TurnTakerData :
       Deserialize_TurnTaker("snapshot", Serialize_TurnTaker("snapshot", d)) = << d >>
  /\ \A v \in Void : LET generic == Generic(1, "Void", v) IN
       /\ Deserialize_TurnTaker("request", Serialize_TurnTaker("request", generic))
            = << generic >>
       /\ Deserialize_TurnTaker("response", Serialize_TurnTaker("response", generic))
            = << generic >>
<1>1. \A u \in TurnTakerUpdate :
        Deserialize_TurnTaker("update", Serialize_TurnTaker("update", u)) = << u >>
  BY DEF TurnTakerUpdate, Deserialize_TurnTaker
<1>2. \A d \in TurnTakerData :
        Deserialize_TurnTaker("snapshot", Serialize_TurnTaker("snapshot", d)) = << d >>
  BY OthelloTypesReadBack, RootReadsBack DEF Serialize_TurnTaker, Deserialize_TurnTaker
<1>3. ASSUME NEW v \in Void
      PROVE  LET generic == Generic(1, "Void", v) IN
             /\ Deserialize_TurnTaker("request", Serialize_TurnTaker("request", generic))
                  = << generic >>
             /\ Deserialize_TurnTaker("response", Serialize_TurnTaker("response", generic))
                  = << generic >>
  <2> DEFINE generic == Generic(1, "Void", v)
             asked    == << << Write_Void(v) >> >>
             answered == << << >>, << Write_Void(v) >> >>
  <2>1. /\ Serialize_TurnTaker("request", generic) = Root(1003, asked)
        /\ Serialize_TurnTaker("response", generic) = Root(1003, answered)
    BY DataOfGeneric DEF Serialize_TurnTaker
  <2>2. /\ GetObject(Root(1003, asked), 1003) = asked
        /\ GetObject(Root(1003, answered), 1003) = answered
    BY RootReadsBack
  <2>3. Count(asked, 1) = 1 /\ GetObject(asked, 1) = Write_Void(v)
    BY ReadOne DEF GetObject
  <2>4. Count(answered, 2) = 1 /\ GetObject(answered, 2) = Write_Void(v)
    BY DEF Count, GetObject, Get
  <2> QED BY <2>1, <2>2, <2>3, <2>4, OthelloTypesReadBack DEF Deserialize_TurnTaker
<1> QED BY <1>1, <1>2, <1>3

(* What the vtable of Metadata serializes, update or snapshot, it deserializes
   into an equal one (standard_library.cc, VtableSerialize_Metadata and VtableDeserialize_Metadata). *)
THEOREM MetadataReadsBack ==
  /\ \A u \in MetadataUpdate : Deserialize_Metadata("update", Serialize_Metadata("update", u)) = << u >>
  /\ \A d \in MetadataData :
       Deserialize_Metadata("snapshot", Serialize_Metadata("snapshot", d)) = << d >>
<1>1. ASSUME NEW u \in MetadataUpdate
      PROVE  Deserialize_Metadata("update", Serialize_Metadata("update", u)) = << u >>
  <2>1. u.entity_type \in Options(Strings) /\ u = [ entity_type |-> u.entity_type ]
    BY DEF MetadataUpdate
  <2>2. Serialize_Metadata("update", u) = UpdateRoot(53, << >>, << u.entity_type >>)
    BY DEF Serialize_Metadata
  <2>3. StateObject(Serialize_Metadata("update", u), 53) = << u.entity_type >>
    BY <2>2, StateReadsBack
  <2>4. GetOption(<< u.entity_type >>, 1) = u.entity_type
    BY <2>1, OptionReadsBack
  <2> QED BY <2>1, <2>3, <2>4 DEF Deserialize_Metadata
<1>2. \A d \in MetadataData :
        Deserialize_Metadata("snapshot", Serialize_Metadata("snapshot", d)) = << d >>
  BY StandardTypesReadBack, RootReadsBack DEF Serialize_Metadata, Deserialize_Metadata
<1> QED BY <1>1, <1>2

(* What the vtable of Position serializes, update or snapshot, it deserializes
   into an equal one (standard_library.cc, VtableSerialize_Position and VtableDeserialize_Position). *)
THEOREM PositionReadsBack ==
  /\ \A u \in PositionUpdate : Deserialize_Position("update", Serialize_Position("update", u)) = << u >>
  /\ \A d \in PositionData :
       Deserialize_Position("snapshot", Serialize_Position("snapshot", d)) = << d >>
<1>1. ASSUME NEW u \in PositionUpdate
      PROVE  Deserialize_Position("update", Serialize_Position("update", u)) = << u >>
  <2> DEFINE written == [ i \in DOMAIN u.coords |-> Write_Coordinates(u.coords[i]) ]
             read    == [ i \in DOMAIN written |-> Read_Coordinates(written[i]) ]
  <2>1. u.coords \in Options(Coordinates) /\ u = [ coords |-> u.coords ]
    BY DEF PositionUpdate
  <2>2. << >> \o written = written /\ written \in Options({ Write_Coordinates(c) : c \in Coordinates })
    BY <2>1, EachOfAnOption DEF Options
  <2>3. Each(Write_Coordinates, u.coords) = written
    BY <2>2 DEF Each
  <2>4. << >> \o read = read
    BY <2>2, EachOfAnOption
  <2>5. read = u.coords
    <3>1. CASE u.coords = << >>
      BY <3>1
    <3>2. CASE \E c \in Coordinates : u.coords = << c >>
      BY <3>2, StandardTypesReadBack
    <3> QED BY <2>1, <3>1, <3>2 DEF Options
  <2>6. StateObject(Serialize_Position("update", u), 54) = << written >>
    <3>1. Serialize_Position("update", u) =
            UpdateRoot(54, << >>, << Each(Write_Coordinates, u.coords) >>)
      BY DEF Serialize_Position
    <3> QED BY <2>3, <3>1, StateReadsBack
  <2>7. GetOption(<< written >>, 1) = written
    BY <2>2, OptionReadsBack
  <2>8. Each(Read_Coordinates, written) = read
    BY <2>4 DEF Each
  <2> QED BY <2>1, <2>5, <2>6, <2>7, <2>8 DEF Deserialize_Position
<1>2. \A d \in PositionData :
        Deserialize_Position("snapshot", Serialize_Position("snapshot", d)) = << d >>
  BY StandardTypesReadBack, RootReadsBack DEF Serialize_Position, Deserialize_Position
<1> QED BY <1>1, <1>2

(* Of Persistence, which has no fields, there is only that it is there
   (standard_library.cc, VtableSerialize_Persistence, VtableDeserialize_Persistence). *)
THEOREM PersistenceReadsBack ==
  /\ \A u \in PersistenceUpdate :
       Deserialize_Persistence("update", Serialize_Persistence("update", u)) = << u >>
  /\ \A d \in PersistenceData :
       Deserialize_Persistence("snapshot", Serialize_Persistence("snapshot", d)) = << d >>
BY StandardTypesReadBack, RootReadsBack
DEF PersistenceUpdate, Serialize_Persistence, Deserialize_Persistence
-----------------------------------------------------------------------------
(* Interest.                                                               *)

LEMMA LeastNatural ==
  ASSUME NEW T \in SUBSET Nat, T # {}
  PROVE  \E x \in T : \A y \in T : x <= y
<1> DEFINE R == OpToRel(<, Nat)
<1>1. \A x, y \in Nat : << y, x >> \in R <=> y < x
  BY DEF OpToRel
<1> HIDE DEF R
<1>2. IsWellFoundedOn(R, Nat)
  BY NatLessThanWellFounded DEF R
<1>3. PICK x \in T : \A y \in T : ~ (<< y, x >> \in R)
  BY <1>2, WFMin
<1>4. x \in Nat /\ \A y \in T : y \in Nat
  OBVIOUS
<1>5. \A y \in T : ~ (y < x)
  BY <1>1, <1>3, <1>4, Zenon
<1> QED
  BY <1>4, <1>5

(* The elements of a list, written and read one by one.                    *)
LEMMA EachReadsBack ==
  ASSUME NEW S, NEW list \in Seq(S), NEW written, NEW read,
         written = [ i \in DOMAIN list |-> written[i] ],
         read = [ i \in DOMAIN written |-> read[i] ],
         \A i \in DOMAIN list : read[i] = list[i]
  PROVE  /\ << >> \o written = written /\ << >> \o read = list
         /\ Len(written) = Len(list) /\ DOMAIN written = DOMAIN list
         /\ \A k \in Nat : k = Len(written) => (k = 0 <=> written = << >>)
<1> PICK n \in Nat : n = Len(list)
  OBVIOUS
<1>1. DOMAIN list = 1 .. n
  OBVIOUS
<1>2. written = [ i \in 1 .. n |-> written[i] ] /\ read = [ i \in 1 .. n |-> read[i] ]
  BY <1>1
<1>3. << >> \o written = written /\ << >> \o read = read
  BY <1>2, EachIsConcatenated
<1>4. read = list
  <2>1. list = [ i \in 1 .. n |-> list[i] ]
    BY <1>1
  <2> QED
    BY <1>1, <1>2, <2>1
<1>5. Len(written) = n
  <2>1. written \in [ 1 .. n -> { written[i] : i \in 1 .. n } ]
    BY <1>2
  <2> QED
    BY <2>1
<1>6. n = 0 <=> written = << >>
  <2>1. n = 0 => written = << >>
    <3> SUFFICES ASSUME n = 0
                 PROVE  written = << >>
      OBVIOUS
    <3>1. 1 .. n = {}
      OBVIOUS
    <3> QED
      BY <1>2, <3>1
  <2>2. written = << >> => Len(written) = 0
    OBVIOUS
  <2> QED
    BY <1>5, <2>1, <2>2
<1> QED
  BY <1>1, <1>2, <1>3, <1>4, <1>5, <1>6

(* A field of an object.                                                   *)
LEMMA ListOf ==
  ASSUME NEW object, NEW field \in DOMAIN object, NEW n \in Nat, Len(object[field]) = n,
         n = 0 <=> object[field] = << >>
  PROVE  GetList(object, field) = object[field]
BY DEF GetList, Count

LEMMA OptionOf ==
  ASSUME NEW S, NEW object, NEW field \in DOMAIN object, object[field] \in Options(S)
  PROVE  GetOption(object, field) = object[field]
<1>1. CASE object[field] = << >>
  BY <1>1 DEF GetOption, Count
<1>2. CASE \E v \in S : object[field] = << v >>
  BY <1>2 DEF GetOption, Count, Get
<1> QED BY <1>1, <1>2 DEF Options

LEMMA ObjectOf ==
  ASSUME NEW object, NEW field \in DOMAIN object, NEW v, object[field] = << v >>, NEW default
  PROVE  GetObject(object, field) = v /\ Get(object, field, default) = v
BY DEF GetObject, Get, Count

(* The options of a constraint, of each type.                              *)
LEMMA OptionsAreLists ==
  ASSUME NEW S, NEW option \in Options(S)
  PROVE  option \in Seq(S) /\ \A i \in DOMAIN option : option[i] \in S
<1>1. CASE option = << >>
  BY <1>1
<1>2. CASE \E v \in S : option = << v >>
  BY <1>2
<1> QED BY <1>1, <1>2 DEF Options

LEMMA WrittenIsOption ==
  ASSUME NEW S, NEW option \in Options(S), NEW written, NEW T,
         written = [ i \in DOMAIN option |-> written[i] ],
         \A i \in DOMAIN option : written[i] \in T
  PROVE  written \in Options(T)
<1>1. CASE option = << >>
  BY <1>1 DEF Options
<1>2. CASE \E v \in S : option = << v >>
  BY <1>2 DEF Options
<1> QED BY <1>1, <1>2 DEF Options

LEMMA ShapesReadBack ==
  /\ \A d \in SphereConstraint : Read_SphereConstraint(Write_SphereConstraint(d)) = d
  /\ \A d \in CylinderConstraint : Read_CylinderConstraint(Write_CylinderConstraint(d)) = d
  /\ \A d \in BoxConstraint : Read_BoxConstraint(Write_BoxConstraint(d)) = d
  /\ \A d \in RelativeSphereConstraint :
       Read_RelativeSphereConstraint(Write_RelativeSphereConstraint(d)) = d
  /\ \A d \in RelativeCylinderConstraint :
       Read_RelativeCylinderConstraint(Write_RelativeCylinderConstraint(d)) = d
  /\ \A d \in RelativeBoxConstraint :
       Read_RelativeBoxConstraint(Write_RelativeBoxConstraint(d)) = d
<1>1. ASSUME NEW d \in SphereConstraint
      PROVE  Read_SphereConstraint(Write_SphereConstraint(d)) = d
  <2>1. /\ d = [ center |-> d.center, radius |-> d.radius ]
        /\ Read_Coordinates(Write_Coordinates(d.center)) = d.center
    BY StandardTypesReadBack DEF SphereConstraint
  <2> QED
    BY <2>1, ReadTwo DEF Read_SphereConstraint, Write_SphereConstraint, GetObject
<1>2. ASSUME NEW d \in CylinderConstraint
      PROVE  Read_CylinderConstraint(Write_CylinderConstraint(d)) = d
  <2>1. /\ d = [ center |-> d.center, radius |-> d.radius ]
        /\ Read_Coordinates(Write_Coordinates(d.center)) = d.center
    BY StandardTypesReadBack DEF CylinderConstraint
  <2> QED
    BY <2>1, ReadTwo DEF Read_CylinderConstraint, Write_CylinderConstraint, GetObject
<1>3. ASSUME NEW d \in BoxConstraint
      PROVE  Read_BoxConstraint(Write_BoxConstraint(d)) = d
  <2>1. /\ d = [ center |-> d.center, edge_length |-> d.edge_length ]
        /\ Read_Coordinates(Write_Coordinates(d.center)) = d.center
        /\ Read_EdgeLength(Write_EdgeLength(d.edge_length)) = d.edge_length
    BY StandardTypesReadBack DEF BoxConstraint
  <2> QED
    BY <2>1, ReadTwo DEF Read_BoxConstraint, Write_BoxConstraint, GetObject
<1>4. \A d \in RelativeSphereConstraint :
        Read_RelativeSphereConstraint(Write_RelativeSphereConstraint(d)) = d
  BY ReadOne DEF RelativeSphereConstraint, Read_RelativeSphereConstraint,
                 Write_RelativeSphereConstraint
<1>5. \A d \in RelativeCylinderConstraint :
        Read_RelativeCylinderConstraint(Write_RelativeCylinderConstraint(d)) = d
  BY ReadOne DEF RelativeCylinderConstraint, Read_RelativeCylinderConstraint,
                 Write_RelativeCylinderConstraint
<1>6. ASSUME NEW d \in RelativeBoxConstraint
      PROVE  Read_RelativeBoxConstraint(Write_RelativeBoxConstraint(d)) = d
  <2>1. /\ d = [ edge_length |-> d.edge_length ]
        /\ Read_EdgeLength(Write_EdgeLength(d.edge_length)) = d.edge_length
    BY StandardTypesReadBack DEF RelativeBoxConstraint
  <2> QED
    BY <2>1, ReadOne DEF Read_RelativeBoxConstraint, Write_RelativeBoxConstraint, GetObject
<1> QED BY <1>1, <1>2, <1>3, <1>4, <1>5, <1>6

(* An option that is written to the field of an object is read back.       *)
LEMMA SphereOption ==
  ASSUME NEW option \in Options(SphereConstraint), NEW object, NEW field \in DOMAIN object,
         object[field] = Each(Write_SphereConstraint, option)
  PROVE  Each(Read_SphereConstraint, GetOption(object, field)) = option
<1> DEFINE written == [ i \in DOMAIN option |-> Write_SphereConstraint(option[i]) ]
           read    == [ i \in DOMAIN written |-> Read_SphereConstraint(written[i]) ]
<1>1. /\ option \in Seq(SphereConstraint)
      /\ \A i \in DOMAIN option : option[i] \in SphereConstraint
  BY OptionsAreLists
<1>2. \A i \in DOMAIN option : read[i] = option[i]
  BY <1>1, ShapesReadBack
<1>3. << >> \o written = written /\ << >> \o read = option
  BY <1>1, <1>2, EachReadsBack
<1>4. object[field] = written /\ Each(Read_SphereConstraint, written) = option
  BY <1>3 DEF Each
<1>5. written \in Options({ Write_SphereConstraint(c) : c \in SphereConstraint })
  BY <1>1, WrittenIsOption
<1> HIDE DEF written
<1>6. GetOption(object, field) = written
  BY <1>4, <1>5, OptionOf
<1> QED BY <1>4, <1>6

LEMMA CylinderOption ==
  ASSUME NEW option \in Options(CylinderConstraint), NEW object, NEW field \in DOMAIN object,
         object[field] = Each(Write_CylinderConstraint, option)
  PROVE  Each(Read_CylinderConstraint, GetOption(object, field)) = option
<1> DEFINE written == [ i \in DOMAIN option |-> Write_CylinderConstraint(option[i]) ]
           read    == [ i \in DOMAIN written |-> Read_CylinderConstraint(written[i]) ]
<1>1. /\ option \in Seq(CylinderConstraint)
      /\ \A i \in DOMAIN option : option[i] \in CylinderConstraint
  BY OptionsAreLists
<1>2. \A i \in DOMAIN option : read[i] = option[i]
  BY <1>1, ShapesReadBack
<1>3. << >> \o written = written /\ << >> \o read = option
  BY <1>1, <1>2, EachReadsBack
<1>4. object[field] = written /\ Each(Read_CylinderConstraint, written) = option
  BY <1>3 DEF Each
<1>5. written \in Options({ Write_CylinderConstraint(c) : c \in CylinderConstraint })
  BY <1>1, WrittenIsOption
<1> HIDE DEF written
<1>6. GetOption(object, field) = written
  BY <1>4, <1>5, OptionOf
<1> QED BY <1>4, <1>6

LEMMA BoxOption ==
  ASSUME NEW option \in Options(BoxConstraint), NEW object, NEW field \in DOMAIN object,
         object[field] = Each(Write_BoxConstraint, option)
  PROVE  Each(Read_BoxConstraint, GetOption(object, field)) = option
<1> DEFINE written == [ i \in DOMAIN option |-> Write_BoxConstraint(option[i]) ]
           read    == [ i \in DOMAIN written |-> Read_BoxConstraint(written[i]) ]
<1>1. /\ option \in Seq(BoxConstraint)
      /\ \A i \in DOMAIN option : option[i] \in BoxConstraint
  BY OptionsAreLists
<1>2. \A i \in DOMAIN option : read[i] = option[i]
  BY <1>1, ShapesReadBack
<1>3. << >> \o written = written /\ << >> \o read = option
  BY <1>1, <1>2, EachReadsBack
<1>4. object[field] = written /\ Each(Read_BoxConstraint, written) = option
  BY <1>3 DEF Each
<1>5. written \in Options({ Write_BoxConstraint(c) : c \in BoxConstraint })
  BY <1>1, WrittenIsOption
<1> HIDE DEF written
<1>6. GetOption(object, field) = written
  BY <1>4, <1>5, OptionOf
<1> QED BY <1>4, <1>6

LEMMA RelativeSphereOption ==
  ASSUME NEW option \in Options(RelativeSphereConstraint), NEW object,
         NEW field \in DOMAIN object,
         object[field] = Each(Write_RelativeSphereConstraint, option)
  PROVE  Each(Read_RelativeSphereConstraint, GetOption(object, field)) = option
<1> DEFINE written == [ i \in DOMAIN option |-> Write_RelativeSphereConstraint(option[i]) ]
           read    == [ i \in DOMAIN written |-> Read_RelativeSphereConstraint(written[i]) ]
<1>1. /\ option \in Seq(RelativeSphereConstraint)
      /\ \A i \in DOMAIN option : option[i] \in RelativeSphereConstraint
  BY OptionsAreLists
<1>2. \A i \in DOMAIN option : read[i] = option[i]
  BY <1>1, ShapesReadBack
<1>3. << >> \o written = written /\ << >> \o read = option
  BY <1>1, <1>2, EachReadsBack
<1>4. object[field] = written /\ Each(Read_RelativeSphereConstraint, written) = option
  BY <1>3 DEF Each
<1>5. written \in Options({ Write_RelativeSphereConstraint(c) : c \in RelativeSphereConstraint })
  BY <1>1, WrittenIsOption
<1> HIDE DEF written
<1>6. GetOption(object, field) = written
  BY <1>4, <1>5, OptionOf
<1> QED BY <1>4, <1>6

LEMMA RelativeCylinderOption ==
  ASSUME NEW option \in Options(RelativeCylinderConstraint), NEW object,
         NEW field \in DOMAIN object,
         object[field] = Each(Write_RelativeCylinderConstraint, option)
  PROVE  Each(Read_RelativeCylinderConstraint, GetOption(object, field)) = option
<1> DEFINE written == [ i \in DOMAIN option |-> Write_RelativeCylinderConstraint(option[i]) ]
           read    == [ i \in DOMAIN written |-> Read_RelativeCylinderConstraint(written[i]) ]
<1>1. /\ option \in Seq(RelativeCylinderConstraint)
      /\ \A i \in DOMAIN option : option[i] \in RelativeCylinderConstraint
  BY OptionsAreLists
<1>2. \A i \in DOMAIN option : read[i] = option[i]
  BY <1>1, ShapesReadBack
<1>3. << >> \o written = written /\ << >> \o read = option
  BY <1>1, <1>2, EachReadsBack
<1>4. object[field] = written /\ Each(Read_RelativeCylinderConstraint, written) = option
  BY <1>3 DEF Each
<1>5. written \in Options({ Write_RelativeCylinderConstraint(c) : c \in RelativeCylinderConstraint })
  BY <1>1, WrittenIsOption
<1> HIDE DEF written
<1>6. GetOption(object, field) = written
  BY <1>4, <1>5, OptionOf
<1> QED BY <1>4, <1>6

LEMMA RelativeBoxOption ==
  ASSUME NEW option \in Options(RelativeBoxConstraint), NEW object, NEW field \in DOMAIN object,
         object[field] = Each(Write_RelativeBoxConstraint, option)
  PROVE  Each(Read_RelativeBoxConstraint, GetOption(object, field)) = option
<1> DEFINE written == [ i \in DOMAIN option |-> Write_RelativeBoxConstraint(option[i]) ]
           read    == [ i \in DOMAIN written |-> Read_RelativeBoxConstraint(written[i]) ]
<1>1. /\ option \in Seq(RelativeBoxConstraint)
      /\ \A i \in DOMAIN option : option[i] \in RelativeBoxConstraint
  BY OptionsAreLists
<1>2. \A i \in DOMAIN option : read[i] = option[i]
  BY <1>1, ShapesReadBack
<1>3. << >> \o written = written /\ << >> \o read = option
  BY <1>1, <1>2, EachReadsBack
<1>4. object[field] = written /\ Each(Read_RelativeBoxConstraint, written) = option
  BY <1>3 DEF Each
<1>5. written \in Options({ Write_RelativeBoxConstraint(c) : c \in RelativeBoxConstraint })
  BY <1>1, WrittenIsOption
<1> HIDE DEF written
<1>6. GetOption(object, field) = written
  BY <1>4, <1>5, OptionOf
<1> QED BY <1>4, <1>6
LEMMA BoolOption ==
  ASSUME NEW option \in Options(BOOLEAN), NEW object, NEW field \in DOMAIN object,
         object[field] = Each(Bool, option)
  PROVE  Each(LAMBDA b : b # 0, GetOption(object, field)) = option
<1> DEFINE written == [ i \in DOMAIN option |-> Bool(option[i]) ]
           read    == [ i \in DOMAIN written |-> written[i] # 0 ]
<1>1. /\ option \in Seq(BOOLEAN)
      /\ \A i \in DOMAIN option : option[i] \in BOOLEAN
  BY OptionsAreLists
<1>2. \A i \in DOMAIN option : read[i] = option[i]
  BY <1>1, ReadBool
<1>3. << >> \o written = written /\ << >> \o read = option
  BY <1>1, <1>2, EachReadsBack
<1>4. object[field] = written /\ Each(LAMBDA b : b # 0, written) = option
  BY <1>3 DEF Each
<1>5. written \in Options({ 0, 1 })
  <2>1. \A i \in DOMAIN option : written[i] \in { 0, 1 }
    BY DEF Bool
  <2> HIDE DEF written
  <2>2. written = [ i \in DOMAIN option |-> written[i] ]
    BY DEF written
  <2> QED
    BY <2>1, <2>2, WrittenIsOption
<1> HIDE DEF written
<1>6. GetOption(object, field) = written
  BY <1>4, <1>5, OptionOf
<1> QED BY <1>4, <1>6

(* A list of values is read as it is written.                              *)
LEMMA ListIsRead ==
  ASSUME NEW S, NEW object, NEW field \in DOMAIN object, object[field] \in Seq(S)
  PROVE  GetList(object, field) = object[field]
<1>1. Len(object[field]) \in Nat /\ (Len(object[field]) = 0 <=> object[field] = << >>)
  BY EmptySeq
<1> QED BY <1>1, ListOf

(* The constraints in a list, if each of them is read as it was written.   *)
WrittenList(list) == Each(Write_QueryConstraint, list)

ReadList(list) == Each(Read_QueryConstraint, list)

ReadBack(S) == \A c \in S : Read_QueryConstraint(Write_QueryConstraint(c)) = c

LEMMA ConstraintList ==
  ASSUME NEW S, ReadBack(S),
         NEW list \in Seq(S), NEW object, NEW field \in DOMAIN object,
         object[field] = WrittenList(list)
  PROVE  ReadList(GetList(object, field)) = list
<1> DEFINE written == [ i \in DOMAIN list |-> Write_QueryConstraint(list[i]) ]
           read    == [ i \in DOMAIN written |-> Read_QueryConstraint(written[i]) ]
<1>1. \A i \in DOMAIN list : read[i] = list[i]
  <2>1. \A i \in DOMAIN list : list[i] \in S
    OBVIOUS
  <2> QED
    BY <2>1 DEF ReadBack
<1>2. << >> \o written = written /\ << >> \o read = list
  BY <1>1, EachReadsBack
<1>3. object[field] = written /\ ReadList(written) = list
  BY <1>2 DEF Each, WrittenList, ReadList
<1>4. GetList(object, field) = written
  <2>1. DOMAIN list = 1 .. Len(list) /\ Len(list) \in Nat
    OBVIOUS
  <2>2. written \in [ 1 .. Len(list) -> { written[i] : i \in 1 .. Len(list) } ]
    BY <2>1
  <2>3. \A n \in Nat : \A R : \A f \in [ 1 .. n -> R ] : f \in Seq(R)
    BY SeqDef
  <2>4. written \in Seq({ written[i] : i \in 1 .. Len(list) })
    BY <2>1, <2>2, <2>3, Zenon
  <2> HIDE DEF written
  <2> QED
    BY <1>3, <2>4, ListIsRead
<1> QED BY <1>3, <1>4

LEMMA ConstraintReadsBackOver ==
  ASSUME NEW S, ReadBack(S), NEW d \in QueryConstraint(S)
  PROVE  ReadConstraint(WriteConstraint(d)) = d
<1> DEFINE object == WriteConstraint(d)
<1>1. /\ d = [ sphere_constraint |-> d.sphere_constraint,
               cylinder_constraint |-> d.cylinder_constraint,
               box_constraint |-> d.box_constraint,
               relative_sphere_constraint |-> d.relative_sphere_constraint,
               relative_cylinder_constraint |-> d.relative_cylinder_constraint,
               relative_box_constraint |-> d.relative_box_constraint,
               entity_id_constraint |-> d.entity_id_constraint,
               component_constraint |-> d.component_constraint,
               and_constraint |-> d.and_constraint, or_constraint |-> d.or_constraint ]
      /\ d.sphere_constraint \in Options(SphereConstraint)
      /\ d.cylinder_constraint \in Options(CylinderConstraint)
      /\ d.box_constraint \in Options(BoxConstraint)
      /\ d.relative_sphere_constraint \in Options(RelativeSphereConstraint)
      /\ d.relative_cylinder_constraint \in Options(RelativeCylinderConstraint)
      /\ d.relative_box_constraint \in Options(RelativeBoxConstraint)
      /\ d.entity_id_constraint \in Options(Int64s)
      /\ d.component_constraint \in Options(Uint32s)
      /\ d.and_constraint \in Seq(S) /\ d.or_constraint \in Seq(S)
  BY DEF QueryConstraint
<1>2. /\ DOMAIN object = 1 .. 10
      /\ object[1] = Each(Write_SphereConstraint, d.sphere_constraint)
      /\ object[2] = Each(Write_CylinderConstraint, d.cylinder_constraint)
      /\ object[3] = Each(Write_BoxConstraint, d.box_constraint)
      /\ object[4] = Each(Write_RelativeSphereConstraint, d.relative_sphere_constraint)
      /\ object[5] = Each(Write_RelativeCylinderConstraint, d.relative_cylinder_constraint)
      /\ object[6] = Each(Write_RelativeBoxConstraint, d.relative_box_constraint)
      /\ object[7] = d.entity_id_constraint
      /\ object[8] = d.component_constraint
      /\ object[9] = WrittenList(d.and_constraint)
      /\ object[10] = WrittenList(d.or_constraint)
  BY DEF WriteConstraint, WrittenList
<1> HIDE DEF object
<1>3. Each(Read_SphereConstraint, GetOption(object, 1)) = d.sphere_constraint
  BY <1>1, <1>2, SphereOption
<1>4. Each(Read_CylinderConstraint, GetOption(object, 2)) = d.cylinder_constraint
  BY <1>1, <1>2, CylinderOption
<1>5. Each(Read_BoxConstraint, GetOption(object, 3)) = d.box_constraint
  BY <1>1, <1>2, BoxOption
<1>6. Each(Read_RelativeSphereConstraint, GetOption(object, 4)) = d.relative_sphere_constraint
  BY <1>1, <1>2, RelativeSphereOption
<1>7. Each(Read_RelativeCylinderConstraint, GetOption(object, 5))
        = d.relative_cylinder_constraint
  BY <1>1, <1>2, RelativeCylinderOption
<1>8. Each(Read_RelativeBoxConstraint, GetOption(object, 6)) = d.relative_box_constraint
  BY <1>1, <1>2, RelativeBoxOption
<1>9. GetOption(object, 7) = d.entity_id_constraint
  BY <1>1, <1>2, OptionOf
<1>10. GetOption(object, 8) = d.component_constraint
  BY <1>1, <1>2, OptionOf
<1>11. ReadList(GetList(object, 9)) = d.and_constraint
  <2>1. 9 \in DOMAIN object
    BY <1>2
  <2>2. PICK list : list = d.and_constraint
    OBVIOUS
  <2>3. list \in Seq(S) /\ object[9] = WrittenList(list)
    BY <1>1, <1>2, <2>2
  <2>4. ReadList(GetList(object, 9)) = list
    BY <2>1, <2>3, ConstraintList
  <2> QED
    BY <2>2, <2>4
<1>12. ReadList(GetList(object, 10)) = d.or_constraint
  <2>1. 10 \in DOMAIN object
    BY <1>2
  <2>2. PICK list : list = d.or_constraint
    OBVIOUS
  <2>3. list \in Seq(S) /\ object[10] = WrittenList(list)
    BY <1>1, <1>2, <2>2
  <2>4. ReadList(GetList(object, 10)) = list
    BY <2>1, <2>3, ConstraintList
  <2> QED
    BY <2>2, <2>4
<1>13. ReadConstraint(object) =
         [ sphere_constraint |-> d.sphere_constraint,
           cylinder_constraint |-> d.cylinder_constraint,
           box_constraint |-> d.box_constraint,
           relative_sphere_constraint |-> d.relative_sphere_constraint,
           relative_cylinder_constraint |-> d.relative_cylinder_constraint,
           relative_box_constraint |-> d.relative_box_constraint,
           entity_id_constraint |-> d.entity_id_constraint,
           component_constraint |-> d.component_constraint,
           and_constraint |-> d.and_constraint, or_constraint |-> d.or_constraint ]
  BY <1>3, <1>4, <1>5, <1>6, <1>7, <1>8, <1>9, <1>10, <1>11, <1>12, Zenon
  DEF ReadConstraint, ReadList
<1> QED BY <1>1, <1>13 DEF object

(* However deep constraints nest, they are read as they were written.      *)
LEMMA ConstraintsReadBack ==
  \A d \in Constraints : Read_QueryConstraint(Write_QueryConstraint(d)) = d
<1> DEFINE L == Len(ConstraintLevels)
           T == { n \in 1 .. L : ~ \A d \in ConstraintLevels[n] :
                                     Read_QueryConstraint(Write_QueryConstraint(d)) = d }
<1>1. L \in Nat /\ DOMAIN ConstraintLevels = 1 .. L
  BY InterestAssumption
<1>2. T = {}
  <2> SUFFICES ASSUME T # {}
               PROVE  FALSE
    OBVIOUS
  <2>1. T \in SUBSET Nat
    BY <1>1
  <2>2. PICK n \in T : \A m \in T : n <= m
    BY <2>1, LeastNatural
  <2>3. PICK d \in ConstraintLevels[n] : Read_QueryConstraint(Write_QueryConstraint(d)) # d
    OBVIOUS
  <2>4. n \in 1 .. L
    OBVIOUS
  <2>5. \A c \in Below(n) : Read_QueryConstraint(Write_QueryConstraint(c)) = c
    <3> SUFFICES ASSUME NEW c \in Below(n)
                 PROVE  Read_QueryConstraint(Write_QueryConstraint(c)) = c
      OBVIOUS
    <3>1. PICK m \in 1 .. n - 1 : c \in ConstraintLevels[m]
      BY DEF Below
    <3>2. m \in 1 .. L /\ ~(n <= m)
      BY <1>1, <2>4
    <3>3. m \notin T
      BY <2>2, <3>2
    <3> QED
      BY <3>1, <3>2, <3>3
  <2>6. /\ d \in QueryConstraint(Below(n))
        /\ Write_QueryConstraint(d) = WriteConstraint(d)
        /\ Read_QueryConstraint(Write_QueryConstraint(d)) =
             ReadConstraint(Write_QueryConstraint(d))
    BY <1>1, <2>3, <2>4, InterestAssumption, Zenon
  <2>7. ReadConstraint(WriteConstraint(d)) = d
    BY <2>5, <2>6, ConstraintReadsBackOver DEF ReadBack
  <2> QED
    BY <2>3, <2>6, <2>7
<1>3. ASSUME NEW d \in Constraints
      PROVE  Read_QueryConstraint(Write_QueryConstraint(d)) = d
  <2>1. PICK m \in 1 .. (L + 1) - 1 : d \in ConstraintLevels[m]
    BY DEF Constraints, Below
  <2>2. m \in 1 .. L
    BY <1>1
  <2>3. m \notin T
    BY <1>2
  <2> QED
    BY <2>1, <2>2, <2>3
<1> QED BY <1>3

(* The queries of an interest, and their constraints.                      *)
LEMMA QueryReadsBack == \A d \in Query : Read_Query(Write_Query(d)) = d
<1> SUFFICES ASSUME NEW d \in Query
             PROVE  Read_Query(Write_Query(d)) = d
  OBVIOUS
<1> DEFINE object == Write_Query(d)
<1>1. /\ d = [ constraint |-> d.constraint, full_snapshot_result |-> d.full_snapshot_result,
               result_component_id |-> d.result_component_id, frequency |-> d.frequency ]
      /\ d.constraint \in Constraints /\ d.full_snapshot_result \in Options(BOOLEAN)
      /\ d.result_component_id \in Seq(Uint32s) /\ d.frequency \in Options(Floats)
  BY DEF Query
<1>2. /\ DOMAIN object = 1 .. 4
      /\ object[1] = << Write_QueryConstraint(d.constraint) >>
      /\ object[2] = Each(Bool, d.full_snapshot_result)
      /\ object[3] = d.result_component_id
      /\ object[4] = d.frequency
  BY DEF Write_Query
<1> HIDE DEF object
<1>3. 1 \in DOMAIN object /\ 2 \in DOMAIN object /\ 3 \in DOMAIN object /\ 4 \in DOMAIN object
  BY <1>2
<1>4. Read_QueryConstraint(GetObject(object, 1)) = d.constraint
  <2>1. GetObject(object, 1) = Write_QueryConstraint(d.constraint)
    BY <1>2, <1>3, ObjectOf
  <2> QED
    BY <1>1, <2>1, ConstraintsReadBack
<1>5. Each(LAMBDA b : b # 0, GetOption(object, 2)) = d.full_snapshot_result
  BY <1>1, <1>2, <1>3, BoolOption
<1>6. GetList(object, 3) = d.result_component_id
  BY <1>1, <1>2, <1>3, ListIsRead
<1>7. GetOption(object, 4) = d.frequency
  BY <1>1, <1>2, <1>3, OptionOf
<1>8. Read_Query(object) =
        [ constraint |-> d.constraint, full_snapshot_result |-> d.full_snapshot_result,
          result_component_id |-> d.result_component_id, frequency |-> d.frequency ]
  BY <1>4, <1>5, <1>6, <1>7, Zenon DEF Read_Query
<1> QED BY <1>1, <1>8 DEF object

(* A list of queries.                                                     *)
LEMMA QueryList ==
  ASSUME NEW list \in Seq(Query), NEW object, NEW field \in DOMAIN object,
         object[field] = Each(Write_Query, list)
  PROVE  Each(Read_Query, GetList(object, field)) = list
<1> DEFINE written == [ i \in DOMAIN list |-> Write_Query(list[i]) ]
           read    == [ i \in DOMAIN written |-> Read_Query(written[i]) ]
<1>1. \A i \in DOMAIN list : read[i] = list[i]
  <2>1. \A i \in DOMAIN list : list[i] \in Query
    OBVIOUS
  <2> QED
    BY <2>1, QueryReadsBack
<1>2. << >> \o written = written /\ << >> \o read = list
  BY <1>1, EachReadsBack
<1>3. object[field] = written /\ Each(Read_Query, written) = list
  BY <1>2 DEF Each
<1>4. GetList(object, field) = written
  <2>1. DOMAIN list = 1 .. Len(list) /\ Len(list) \in Nat
    OBVIOUS
  <2>2. written \in [ 1 .. Len(list) -> { written[i] : i \in 1 .. Len(list) } ]
    BY <2>1
  <2>3. \A n \in Nat : \A T : \A f \in [ 1 .. n -> T ] : f \in Seq(T)
    BY SeqDef
  <2>4. written \in Seq({ written[i] : i \in 1 .. Len(list) })
    BY <2>1, <2>2, <2>3, Zenon
  <2> HIDE DEF written
  <2> QED
    BY <1>3, <2>4, ListIsRead
<1> QED BY <1>3, <1>4

LEMMA ComponentInterestReadsBack ==
  \A d \in ComponentInterest : Read_ComponentInterest(Write_ComponentInterest(d)) = d
<1> SUFFICES ASSUME NEW d \in ComponentInterest
             PROVE  Read_ComponentInterest(Write_ComponentInterest(d)) = d
  OBVIOUS
<1> DEFINE object == Write_ComponentInterest(d)
<1>1. d = [ queries |-> d.queries ] /\ d.queries \in Seq(Query)
  BY DEF ComponentInterest
<1>2. 1 \in DOMAIN object /\ object[1] = Each(Write_Query, d.queries)
  BY DEF Write_ComponentInterest
<1> HIDE DEF object
<1>3. Each(Read_Query, GetList(object, 1)) = d.queries
  BY <1>1, <1>2, QueryList
<1> QED BY <1>1, <1>3 DEF object, Read_ComponentInterest

LEMMA PairReadsBack ==
  \A p \in Uint32s \X ComponentInterest : ReadPair(WritePair(p)) = p
<1> SUFFICES ASSUME NEW p \in Uint32s \X ComponentInterest
             PROVE  ReadPair(WritePair(p)) = p
  OBVIOUS
<1> DEFINE object == WritePair(p)
<1>1. p = << p[1], p[2] >> /\ p[2] \in ComponentInterest
  OBVIOUS
<1>2. /\ 1 \in DOMAIN object /\ 2 \in DOMAIN object
      /\ object[1] = << p[1] >> /\ object[2] = << Write_ComponentInterest(p[2]) >>
  BY DEF WritePair
<1> HIDE DEF object
<1>3. Get(object, 1, 0) = p[1] /\ GetObject(object, 2) = Write_ComponentInterest(p[2])
  BY <1>2, ObjectOf
<1>4. Read_ComponentInterest(Write_ComponentInterest(p[2])) = p[2]
  BY <1>1, ComponentInterestReadsBack
<1>5. ReadPair(object) = << p[1], p[2] >>
  BY <1>3, <1>4 DEF ReadPair
<1> QED BY <1>1, <1>5 DEF object

(* The pairs of a map.                                                    *)
LEMMA PairList ==
  ASSUME NEW list \in Seq(Uint32s \X ComponentInterest), NEW object, NEW field \in DOMAIN object,
         object[field] = Each(WritePair, list)
  PROVE  Each(ReadPair, GetList(object, field)) = list
<1> DEFINE written == [ i \in DOMAIN list |-> WritePair(list[i]) ]
           read    == [ i \in DOMAIN written |-> ReadPair(written[i]) ]
<1>1. \A i \in DOMAIN list : read[i] = list[i]
  <2>1. \A i \in DOMAIN list : list[i] \in Uint32s \X ComponentInterest
    OBVIOUS
  <2> QED
    BY <2>1, PairReadsBack
<1>2. << >> \o written = written /\ << >> \o read = list
  BY <1>1, EachReadsBack
<1>3. object[field] = written /\ Each(ReadPair, written) = list
  BY <1>2 DEF Each
<1>4. GetList(object, field) = written
  <2>1. DOMAIN list = 1 .. Len(list) /\ Len(list) \in Nat
    OBVIOUS
  <2>2. written \in [ 1 .. Len(list) -> { written[i] : i \in 1 .. Len(list) } ]
    BY <2>1
  <2>3. \A n \in Nat : \A T : \A f \in [ 1 .. n -> T ] : f \in Seq(T)
    BY SeqDef
  <2>4. written \in Seq({ written[i] : i \in 1 .. Len(list) })
    BY <2>1, <2>2, <2>3, Zenon
  <2> HIDE DEF written
  <2> QED
    BY <1>3, <2>4, ListIsRead
<1> QED BY <1>3, <1>4

(* A map is made of its own pairs, one after another.                      *)
LEMMA MapOfItsPairs ==
  ASSUME NEW S, NEW pairs \in Seq(S), KeysOnce(pairs)
  PROVE  EmplaceAll(pairs) = pairs
<1> PICK n \in Nat : n = Len(pairs)
  OBVIOUS
<1>1. DOMAIN pairs = 1 .. n
  OBVIOUS
<1> DEFINE Body(g) == [ i \in 0 .. Len(pairs) |->
             IF i = 0 THEN << >>
             ELSE IF \E j \in DOMAIN g[i - 1] : g[i - 1][j][1] = pairs[i][1]
             THEN g[i - 1] ELSE Append(g[i - 1], pairs[i]) ]
           map == CHOOSE g : g = Body(g)
           f == [ i \in 0 .. n |-> SubSeq(pairs, 1, i) ]
<1>2. f = Body(f)
  <2>1. ASSUME NEW i \in 0 .. n
        PROVE  f[i] = Body(f)[i]
    <3>1. CASE i = 0
      BY <3>1
    <3>2. CASE i # 0
      <4>1. i \in 1 .. n /\ i - 1 \in 0 .. n /\ i - 1 < i
        BY <3>2
      <4>2. DOMAIN f[i - 1] = 1 .. i - 1 /\ \A j \in 1 .. i - 1 : f[i - 1][j] = pairs[j]
        BY <1>1, <4>1
      <4>3. ~ \E j \in DOMAIN f[i - 1] : f[i - 1][j][1] = pairs[i][1]
        BY <1>1, <4>1, <4>2 DEF KeysOnce
      <4>4. f[i] = Append(f[i - 1], pairs[i])
        BY <1>1, <4>1
      <4>5. Body(f)[i] = Append(f[i - 1], pairs[i])
        BY <3>2, <4>3
      <4> QED
        BY <4>4, <4>5
    <3> QED
      BY <3>1, <3>2
  <2> HIDE DEF f
  <2>2. f = [ i \in 0 .. n |-> f[i] ]
    BY DEF f
  <2>3. Body(f) = [ i \in 0 .. n |-> Body(f)[i] ]
    OBVIOUS
  <2> HIDE DEF Body
  <2> QED
    BY <2>1, <2>2, <2>3
<1> HIDE DEF f
<1>3. map = Body(map)
  <2> HIDE DEF Body
  <2> QED
    BY <1>2
<1> HIDE DEF map
<1> PICK g : g = map
  OBVIOUS
<1>4. g = Body(g)
  BY <1>3
<1> DEFINE T == { i \in 0 .. n : g[i] # f[i] }
<1>5. T = {}
  <2> SUFFICES ASSUME T # {}
               PROVE  FALSE
    OBVIOUS
  <2>1. T \in SUBSET Nat
    OBVIOUS
  <2>2. PICK i \in T : \A m \in T : i <= m
    BY <2>1, LeastNatural
  <2>3. i \in 0 .. n /\ g[i] # f[i]
    OBVIOUS
  <2>4. g[i] = Body(g)[i] /\ f[i] = Body(f)[i]
    <3> HIDE DEF Body
    <3> QED
      BY <1>2, <1>4
  <2>5. i # 0
    BY <2>3, <2>4
  <2>6. i - 1 \in 0 .. n /\ ~(i <= i - 1)
    BY <2>3, <2>5
  <2>7. g[i - 1] = f[i - 1]
    BY <2>2, <2>6
  <2>8. Body(g)[i] = Body(f)[i]
    BY <2>3, <2>5, <2>7
  <2> QED
    BY <2>3, <2>4, <2>8
<1>6. map[Len(pairs)] = f[n]
  BY <1>5
<1>7. f[n] = pairs
  BY <1>1 DEF f
<1> QED BY <1>6, <1>7 DEF EmplaceAll, map

(* What the vtable of Interest serializes, update or snapshot, it          *)
(* deserializes into an equal one, an emptied map too, which only the list *)
(* of the fields to clear tells from one that is left alone                *)
(* (standard_library.cc, VtableSerialize_Interest and                      *)
(* VtableDeserialize_Interest).                                            *)
THEOREM InterestReadsBack ==
  /\ \A u \in InterestUpdate :
       Deserialize_Interest("update", Serialize_Interest("update", u)) = << u >>
  /\ \A d \in InterestData :
       Deserialize_Interest("snapshot", Serialize_Interest("snapshot", d)) = << d >>
<1>1. ASSUME NEW map \in InterestMap, NEW object, 1 \in DOMAIN object,
             object[1] = Each(WritePair, map)
      PROVE  EmplaceAll(Each(ReadPair, GetList(object, 1))) = map
  <2>1. map \in Seq(Uint32s \X ComponentInterest) /\ KeysOnce(map)
    BY DEF InterestMap
  <2>2. Each(ReadPair, GetList(object, 1)) = map
    BY <1>1, <2>1, PairList
  <2> QED
    BY <2>1, <2>2, MapOfItsPairs
<1>2. ASSUME NEW u \in InterestUpdate
      PROVE  Deserialize_Interest("update", Serialize_Interest("update", u)) = << u >>
  <2> DEFINE root == Serialize_Interest("update", u)
  <2>1. u.component_interest \in Options(InterestMap)
        /\ u = [ component_interest |-> u.component_interest ]
    BY DEF InterestUpdate
  <2>2. CASE u.component_interest = << >>
    <3>1. root = UpdateRoot(58, << >>, << >>)
      BY <2>2 DEF Serialize_Interest
    <3> HIDE DEF root
    <3>2. StateObject(root, 58) = << >>
      BY <3>1, StateReadsBack
    <3>3. GetList(<< >>, 1) = << >>
      BY DEF GetList, Count
    <3>4. GetList(root, 1) = << >>
      BY <3>1 DEF GetList, Count, UpdateRoot
    <3>5. ~ \E i \in DOMAIN GetList(root, 1) : GetList(root, 1)[i] = 1
      BY <3>4
    <3>6. Deserialize_Interest("update", root) = << [ component_interest |-> << >> ] >>
      BY <3>2, <3>3, <3>5 DEF Deserialize_Interest
    <3> QED
      BY <2>1, <2>2, <3>6 DEF root
  <2>3. CASE u.component_interest # << >>
    <3>1. PICK map \in InterestMap : u.component_interest = << map >>
      BY <2>1, <2>3 DEF Options
    <3> DEFINE clears == IF map = << >> THEN << 1 >> ELSE << >>
               object == << Each(WritePair, map) >>
    <3>2. root = UpdateRoot(58, clears, object)
      <4>1. u.component_interest[1] = map
        BY <3>1
      <4> QED
        BY <2>3, <4>1 DEF Serialize_Interest
    <3> HIDE DEF root
    <3>3. StateObject(root, 58) = object
      BY <3>2, StateReadsBack
    <3>4. EmplaceAll(Each(ReadPair, GetList(object, 1))) = map
      <4>1. 1 \in DOMAIN object /\ object[1] = Each(WritePair, map)
        OBVIOUS
      <4> QED
        BY <1>1, <4>1
    <3>5. GetList(object, 1) # << >> \/ \E i \in DOMAIN GetList(root, 1) : GetList(root, 1)[i] = 1
      <4>1. CASE map = << >>
        <5>1. GetList(root, 1) = << 1 >>
          BY <3>2, <4>1 DEF GetList, Count, UpdateRoot
        <5> QED
          BY <5>1
      <4>2. CASE map # << >>
        <5>1. map \in Seq(Uint32s \X ComponentInterest)
          BY DEF InterestMap
        <5>2. 1 \in DOMAIN object /\ object[1] = Each(WritePair, map)
          OBVIOUS
        <5> HIDE DEF object
        <5>3. Each(ReadPair, GetList(object, 1)) = map
          BY <5>1, <5>2, PairList
        <5>4. Each(ReadPair, << >>) = << >>
          BY DEF Each
        <5> QED
          BY <4>2, <5>3, <5>4
      <4> QED
        BY <4>1, <4>2
    <3> HIDE DEF object
    <3>6. Deserialize_Interest("update", root) = << [ component_interest |-> << map >> ] >>
      BY <3>3, <3>4, <3>5 DEF Deserialize_Interest
    <3> QED
      BY <2>1, <3>1, <3>6 DEF root
  <2> QED
    BY <2>2, <2>3
<1>3. ASSUME NEW d \in InterestData
      PROVE  Deserialize_Interest("snapshot", Serialize_Interest("snapshot", d)) = << d >>
  <2> DEFINE object == Write_InterestData(d)
  <2>1. d.component_interest \in InterestMap
        /\ d = [ component_interest |-> d.component_interest ]
    BY DEF InterestData
  <2>2. Serialize_Interest("snapshot", d) = Root(58, object)
    BY DEF Serialize_Interest
  <2>3. 1 \in DOMAIN object /\ object[1] = Each(WritePair, d.component_interest)
    BY DEF Write_InterestData
  <2> HIDE DEF object
  <2>4. Read_InterestData(object) = d
    BY <1>1, <2>1, <2>3 DEF Read_InterestData
  <2>5. GetObject(Root(58, object), 58) = object
    BY RootReadsBack
  <2> QED
    BY <2>2, <2>4, <2>5 DEF Deserialize_Interest
<1> QED BY <1>2, <1>3

-----------------------------------------------------------------------------
(* The component between writer and reader.                                *)

(* The values that the data and the updates of a component have.           *)
DataOf(k) == Values(k) \cup { New(k) }

UpdatesOf(k) ==
  CASE k = "Color"    -> [ black : Options(BOOLEAN) ]
    [] k = "Player"   -> [ worker : Options(Strings) ]
    [] k = "Metadata" -> [ entity_type : Options(Strings) ]
    [] k = "Position" -> [ coords : Options(Coordinates) ]
    [] k = "Interest" -> [ component_interest : Options(InterestMaps) ]
    [] OTHER          -> { Empty }

(* What the reader deserializes is what the writer serialized.             *)
Carried(k) ==
  /\ \A d \in DataOf(k) : Deserialize(k, "snapshot", Serialize(k, "snapshot", d)) = << d >>
  /\ \A u \in UpdatesOf(k) : Deserialize(k, "update", Serialize(k, "update", u)) = << u >>

(* What comes of applying an update.                                       *)
Applied(k) ==
  \A u \in UpdatesOf(k), d \in DataOf(k) :
    /\ ApplyTo(k, u, d) \in DataOf(k)
    /\ ApplyTo(k, u, ApplyTo(k, u, d)) = ApplyTo(k, u, d)
    /\ Complete(u) =>
         /\ ApplyTo(k, u, d) = ToInitialData(k, u)
         /\ FromInitialData(k, ToInitialData(k, u)) = u

(* What an update's fields may be set to.                                  *)
Fields(k) ==
  /\ NewUpdate(k) \in UpdatesOf(k)
  /\ \A u \in UpdatesOf(k) : \A field \in DOMAIN u :
       /\ u[field] \in Options({ value[field] : value \in Values(k) })
       /\ [ u EXCEPT ![field] = << >> ] \in UpdatesOf(k)
       /\ \A value \in Values(k) :
            [ u EXCEPT ![field] = << value[field] >> ] \in UpdatesOf(k)

LEMMA OrOfOption ==
  ASSUME NEW S, NEW option \in Options(S), NEW v
  PROVE  /\ Or(option, v) \in S \/ Or(option, v) = v
         /\ Or(option, Or(option, v)) = Or(option, v)
         /\ option # << >> =>
              /\ option[1] \in S /\ << option[1] >> = option
              /\ Or(option, v) = option[1]
<1>1. CASE option = << >>
  BY <1>1 DEF Or
<1>2. CASE \E w \in S : option = << w >>
  BY <1>2 DEF Or
<1> QED BY <1>1, <1>2 DEF Options

LEMMA GameFacts == Carried("Game") /\ Applied("Game") /\ Fields("Game")
<1> DEFINE k == "Game"
<1>1. Values(k) = { Empty } /\ New(k) = Empty /\ UpdatesOf(k) = { Empty }
  BY DEF Values, New, UpdatesOf, NewGameData
<1>2. DataOf(k) = GameData /\ UpdatesOf(k) = GameUpdate
  BY <1>1 DEF DataOf, GameData, GameUpdate
<1>3. \A x : /\ Deserialize(k, "snapshot", x) = Deserialize_Game("snapshot", x)
             /\ Deserialize(k, "update", x) = Deserialize_Game("update", x)
             /\ Serialize(k, "snapshot", x) = Serialize_Game("snapshot", x)
             /\ Serialize(k, "update", x) = Serialize_Game("update", x)
             /\ ToInitialData(k, x) = Empty
             /\ FromInitialData(k, x) = Empty
             /\ \A y : ApplyTo(k, x, y) = y
  BY DEF Deserialize, Serialize, ToInitialData, FromInitialData, ApplyTo,
         ToInitialData_Game, FromInitialData_Game, ApplyTo_Game
<1> HIDE DEF k
<1>4. Carried(k)
  BY <1>2, <1>3, GameReadsBack DEF Carried
<1>5. Applied(k)
  BY <1>1, <1>3 DEF Applied, DataOf
<1>6. Fields(k)
  <2>1. NewUpdate(k) = Empty
    BY <1>1 DEF NewUpdate, Empty
  <2> QED
    BY <1>1, <2>1 DEF Fields, Empty
<1> QED BY <1>4, <1>5, <1>6 DEF k

LEMMA TurnTakerFacts == Carried("TurnTaker") /\ Applied("TurnTaker") /\ Fields("TurnTaker")
<1> DEFINE k == "TurnTaker"
<1>1. Values(k) = { Empty } /\ New(k) = Empty /\ UpdatesOf(k) = { Empty }
  BY DEF Values, New, UpdatesOf, NewTurnTakerData
<1>2. DataOf(k) = TurnTakerData /\ UpdatesOf(k) = TurnTakerUpdate
  BY <1>1 DEF DataOf, TurnTakerData, TurnTakerUpdate
<1>3. \A x : /\ Deserialize(k, "snapshot", x) = Deserialize_TurnTaker("snapshot", x)
             /\ Deserialize(k, "update", x) = Deserialize_TurnTaker("update", x)
             /\ Serialize(k, "snapshot", x) = Serialize_TurnTaker("snapshot", x)
             /\ Serialize(k, "update", x) = Serialize_TurnTaker("update", x)
             /\ ToInitialData(k, x) = Empty
             /\ FromInitialData(k, x) = Empty
             /\ \A y : ApplyTo(k, x, y) = y
  BY DEF Deserialize, Serialize, ToInitialData, FromInitialData, ApplyTo,
         ToInitialData_TurnTaker, FromInitialData_TurnTaker, ApplyTo_TurnTaker
<1> HIDE DEF k
<1>4. Carried(k)
  BY <1>2, <1>3, TurnTakerReadsBack DEF Carried
<1>5. Applied(k)
  BY <1>1, <1>3 DEF Applied, DataOf
<1>6. Fields(k)
  <2>1. NewUpdate(k) = Empty
    BY <1>1 DEF NewUpdate, Empty
  <2> QED
    BY <1>1, <2>1 DEF Fields, Empty
<1> QED BY <1>4, <1>5, <1>6 DEF k

LEMMA PersistenceFacts == Carried("Persistence") /\ Applied("Persistence") /\ Fields("Persistence")
<1> DEFINE k == "Persistence"
<1>1. Values(k) = { Empty } /\ New(k) = Empty /\ UpdatesOf(k) = { Empty }
  BY DEF Values, New, UpdatesOf, NewPersistenceData
<1>2. DataOf(k) = PersistenceData /\ UpdatesOf(k) = PersistenceUpdate
  BY <1>1 DEF DataOf, PersistenceData, PersistenceUpdate
<1>3. \A x : /\ Deserialize(k, "snapshot", x) = Deserialize_Persistence("snapshot", x)
             /\ Deserialize(k, "update", x) = Deserialize_Persistence("update", x)
             /\ Serialize(k, "snapshot", x) = Serialize_Persistence("snapshot", x)
             /\ Serialize(k, "update", x) = Serialize_Persistence("update", x)
             /\ ToInitialData(k, x) = Empty
             /\ FromInitialData(k, x) = Empty
             /\ \A y : ApplyTo(k, x, y) = y
  BY DEF Deserialize, Serialize, ToInitialData, FromInitialData, ApplyTo,
         ToInitialData_Persistence, FromInitialData_Persistence, ApplyTo_Persistence
<1> HIDE DEF k
<1>4. Carried(k)
  BY <1>2, <1>3, PersistenceReadsBack DEF Carried
<1>5. Applied(k)
  BY <1>1, <1>3 DEF Applied, DataOf
<1>6. Fields(k)
  <2>1. NewUpdate(k) = Empty
    BY <1>1 DEF NewUpdate, Empty
  <2> QED
    BY <1>1, <2>1 DEF Fields, Empty
<1> QED BY <1>4, <1>5, <1>6 DEF k

LEMMA ColorFacts == Carried("Color") /\ Applied("Color") /\ Fields("Color")
<1>0. PICK k : k = "Color"
  OBVIOUS
<1> PICK default \in BOOLEAN : New(k) = [ black |-> default ]
  <2>1. FALSE \in BOOLEAN
    OBVIOUS
  <2>2. New(k) = NewColorData
    BY <1>0 DEF New
  <2>3. NewColorData = [ black |-> FALSE ]
    BY DEF NewColorData
  <2> QED
    BY <2>1, <2>2, <2>3, Zenon
<1>1. /\ Values(k) = [ black : BOOLEAN ]
      /\ UpdatesOf(k) = [ black : Options(BOOLEAN) ]
  BY <1>0 DEF Values, UpdatesOf
<1>2. DataOf(k) \subseteq ColorData /\ UpdatesOf(k) \subseteq ColorUpdate
  <2>1. BOOLEAN \subseteq BOOLEAN
    OBVIOUS
  <2>2. Options(BOOLEAN) \subseteq Options(BOOLEAN)
    BY <2>1 DEF Options
  <2> QED
    BY <1>1, <2>1, <2>2 DEF DataOf, ColorData, ColorUpdate
<1>3. \A x : /\ Deserialize(k, "snapshot", x) = Deserialize_Color("snapshot", x)
             /\ Deserialize(k, "update", x) = Deserialize_Color("update", x)
             /\ Serialize(k, "snapshot", x) = Serialize_Color("snapshot", x)
             /\ Serialize(k, "update", x) = Serialize_Color("update", x)
             /\ ToInitialData(k, x) = [ black |-> x.black[1] ]
             /\ FromInitialData(k, x) = [ black |-> << x.black >> ]
             /\ \A y : ApplyTo(k, x, y) = [ black |-> Or(x.black, y.black) ]
  BY <1>0 DEF Deserialize, Serialize, ToInitialData, FromInitialData, ApplyTo,
         ToInitialData_Color, FromInitialData_Color, ApplyTo_Color
<1>4. Carried(k)
  BY <1>2, <1>3, ColorReadsBack DEF Carried
<1>5. Applied(k)
  <2> SUFFICES ASSUME NEW u \in UpdatesOf(k), NEW d \in DataOf(k)
               PROVE  /\ ApplyTo(k, u, d) \in DataOf(k)
                      /\ ApplyTo(k, u, ApplyTo(k, u, d)) = ApplyTo(k, u, d)
                      /\ Complete(u) =>
                           /\ ApplyTo(k, u, d) = ToInitialData(k, u)
                           /\ FromInitialData(k, ToInitialData(k, u)) = u
    BY DEF Applied
  <2> PICK option \in Options(BOOLEAN) : u = [ black |-> option ]
    BY <1>1
  <2> PICK v : d = [ black |-> v ]
    BY <1>1 DEF DataOf
  <2>1. /\ Or(option, v) \in BOOLEAN \/ Or(option, v) = v
        /\ Or(option, Or(option, v)) = Or(option, v)
        /\ option # << >> =>
             /\ option[1] \in BOOLEAN /\ << option[1] >> = option
             /\ Or(option, v) = option[1]
    BY OrOfOption
  <2>2. \A w : ApplyTo(k, u, [ black |-> w ]) = [ black |-> Or(option, w) ]
    BY <1>3
  <2>3. ToInitialData(k, u) = [ black |-> option[1] ]
    <3>1. ToInitialData(k, u) = [ black |-> u.black[1] ]
      BY <1>3, Zenon
    <3>2. u.black = option
      OBVIOUS
    <3> QED
      BY <3>1, <3>2, Zenon
  <2>4. FromInitialData(k, [ black |-> option[1] ]) = [ black |-> << option[1] >> ]
    <3> PICK e : e = [ black |-> option[1] ]
      OBVIOUS
    <3>1. FromInitialData(k, e) = [ black |-> << e.black >> ]
      BY <1>3, Zenon
    <3>2. e.black = option[1]
      OBVIOUS
    <3> QED
      BY <3>1, <3>2, Zenon
  <2>5. Complete(u) => option # << >>
    BY DEF Complete
  <2>6. ApplyTo(k, u, d) \in DataOf(k)
    BY <1>1, <2>1, <2>2 DEF DataOf
  <2> QED
    BY <2>1, <2>2, <2>3, <2>4, <2>5, <2>6
<1>6. Fields(k)
  <2>1. NewUpdate(k) = [ black |-> << >> ]
    BY <1>1 DEF NewUpdate
  <2>2. ASSUME NEW u \in UpdatesOf(k), NEW field \in DOMAIN u
        PROVE  /\ u[field] \in Options({ value[field] : value \in Values(k) })
               /\ [ u EXCEPT ![field] = << >> ] \in UpdatesOf(k)
               /\ \A value \in Values(k) :
                    [ u EXCEPT ![field] = << value[field] >> ] \in UpdatesOf(k)
    <3> PICK option \in Options(BOOLEAN) : u = [ black |-> option ]
      BY <1>1
    <3>1. field = "black"
      OBVIOUS
    <3>2. \A w \in BOOLEAN : w \in { value[field] : value \in Values(k) }
      <4> SUFFICES ASSUME NEW w \in BOOLEAN
                   PROVE  \E value \in Values(k) : w = value[field]
        OBVIOUS
      <4>1. [ black |-> w ] \in Values(k)
        BY <1>1
      <4> QED
        BY <3>1, <4>1
    <3>3. u[field] \in Options({ value[field] : value \in Values(k) })
      BY <3>1, <3>2 DEF Options
    <3>4. \A w \in Options(BOOLEAN) : [ u EXCEPT ![field] = w ] \in UpdatesOf(k)
      BY <1>1, <3>1
    <3>5. << >> \in Options(BOOLEAN) /\ \A value \in Values(k) : << value[field] >> \in Options(BOOLEAN)
      BY <1>1, <3>1 DEF Options
    <3> QED
      BY <3>3, <3>4, <3>5
  <2>3. << >> \in Options(BOOLEAN)
    BY DEF Options
  <2> QED
    BY <1>1, <2>1, <2>2, <2>3 DEF Fields
<1> QED BY <1>0, <1>4, <1>5, <1>6

LEMMA PlayerFacts == Carried("Player") /\ Applied("Player") /\ Fields("Player")
<1>0. PICK k : k = "Player"
  OBVIOUS
<1> PICK default \in Strings : New(k) = [ worker |-> default ]
  <2>1. "" \in Strings
    BY OthelloAssumption
  <2>2. New(k) = NewPlayerData
    BY <1>0 DEF New
  <2>3. NewPlayerData = [ worker |-> "" ]
    BY DEF NewPlayerData
  <2> QED
    BY <2>1, <2>2, <2>3, Zenon
<1>1. /\ Values(k) = [ worker : Strings ]
      /\ UpdatesOf(k) = [ worker : Options(Strings) ]
  BY <1>0 DEF Values, UpdatesOf
<1>2. DataOf(k) \subseteq PlayerData /\ UpdatesOf(k) \subseteq PlayerUpdate
  <2>1. Strings \subseteq Strings
    BY OthelloAssumption
  <2>2. Options(Strings) \subseteq Options(Strings)
    BY <2>1 DEF Options
  <2> QED
    BY <1>1, <2>1, <2>2 DEF DataOf, PlayerData, PlayerUpdate
<1>3. \A x : /\ Deserialize(k, "snapshot", x) = Deserialize_Player("snapshot", x)
             /\ Deserialize(k, "update", x) = Deserialize_Player("update", x)
             /\ Serialize(k, "snapshot", x) = Serialize_Player("snapshot", x)
             /\ Serialize(k, "update", x) = Serialize_Player("update", x)
             /\ ToInitialData(k, x) = [ worker |-> x.worker[1] ]
             /\ FromInitialData(k, x) = [ worker |-> << x.worker >> ]
             /\ \A y : ApplyTo(k, x, y) = [ worker |-> Or(x.worker, y.worker) ]
  BY <1>0 DEF Deserialize, Serialize, ToInitialData, FromInitialData, ApplyTo,
         ToInitialData_Player, FromInitialData_Player, ApplyTo_Player
<1>4. Carried(k)
  BY <1>2, <1>3, PlayerReadsBack DEF Carried
<1>5. Applied(k)
  <2> SUFFICES ASSUME NEW u \in UpdatesOf(k), NEW d \in DataOf(k)
               PROVE  /\ ApplyTo(k, u, d) \in DataOf(k)
                      /\ ApplyTo(k, u, ApplyTo(k, u, d)) = ApplyTo(k, u, d)
                      /\ Complete(u) =>
                           /\ ApplyTo(k, u, d) = ToInitialData(k, u)
                           /\ FromInitialData(k, ToInitialData(k, u)) = u
    BY DEF Applied
  <2> PICK option \in Options(Strings) : u = [ worker |-> option ]
    BY <1>1
  <2> PICK v : d = [ worker |-> v ]
    BY <1>1 DEF DataOf
  <2>1. /\ Or(option, v) \in Strings \/ Or(option, v) = v
        /\ Or(option, Or(option, v)) = Or(option, v)
        /\ option # << >> =>
             /\ option[1] \in Strings /\ << option[1] >> = option
             /\ Or(option, v) = option[1]
    BY OrOfOption
  <2>2. \A w : ApplyTo(k, u, [ worker |-> w ]) = [ worker |-> Or(option, w) ]
    BY <1>3
  <2>3. ToInitialData(k, u) = [ worker |-> option[1] ]
    <3>1. ToInitialData(k, u) = [ worker |-> u.worker[1] ]
      BY <1>3, Zenon
    <3>2. u.worker = option
      OBVIOUS
    <3> QED
      BY <3>1, <3>2, Zenon
  <2>4. FromInitialData(k, [ worker |-> option[1] ]) = [ worker |-> << option[1] >> ]
    <3> PICK e : e = [ worker |-> option[1] ]
      OBVIOUS
    <3>1. FromInitialData(k, e) = [ worker |-> << e.worker >> ]
      BY <1>3, Zenon
    <3>2. e.worker = option[1]
      OBVIOUS
    <3> QED
      BY <3>1, <3>2, Zenon
  <2>5. Complete(u) => option # << >>
    BY DEF Complete
  <2>6. ApplyTo(k, u, d) \in DataOf(k)
    BY <1>1, <2>1, <2>2 DEF DataOf
  <2> QED
    BY <2>1, <2>2, <2>3, <2>4, <2>5, <2>6
<1>6. Fields(k)
  <2>1. NewUpdate(k) = [ worker |-> << >> ]
    BY <1>1 DEF NewUpdate
  <2>2. ASSUME NEW u \in UpdatesOf(k), NEW field \in DOMAIN u
        PROVE  /\ u[field] \in Options({ value[field] : value \in Values(k) })
               /\ [ u EXCEPT ![field] = << >> ] \in UpdatesOf(k)
               /\ \A value \in Values(k) :
                    [ u EXCEPT ![field] = << value[field] >> ] \in UpdatesOf(k)
    <3> PICK option \in Options(Strings) : u = [ worker |-> option ]
      BY <1>1
    <3>1. field = "worker"
      OBVIOUS
    <3>2. \A w \in Strings : w \in { value[field] : value \in Values(k) }
      <4> SUFFICES ASSUME NEW w \in Strings
                   PROVE  \E value \in Values(k) : w = value[field]
        OBVIOUS
      <4>1. [ worker |-> w ] \in Values(k)
        BY <1>1
      <4> QED
        BY <3>1, <4>1
    <3>3. u[field] \in Options({ value[field] : value \in Values(k) })
      BY <3>1, <3>2 DEF Options
    <3>4. \A w \in Options(Strings) : [ u EXCEPT ![field] = w ] \in UpdatesOf(k)
      BY <1>1, <3>1
    <3>5. << >> \in Options(Strings) /\ \A value \in Values(k) : << value[field] >> \in Options(Strings)
      BY <1>1, <3>1 DEF Options
    <3> QED
      BY <3>3, <3>4, <3>5
  <2>3. << >> \in Options(Strings)
    BY DEF Options
  <2> QED
    BY <1>1, <2>1, <2>2, <2>3 DEF Fields
<1> QED BY <1>0, <1>4, <1>5, <1>6

LEMMA MetadataFacts == Carried("Metadata") /\ Applied("Metadata") /\ Fields("Metadata")
<1>0. PICK k : k = "Metadata"
  OBVIOUS
<1> PICK default \in Strings : New(k) = [ entity_type |-> default ]
  <2>1. "" \in Strings
    BY OthelloAssumption
  <2>2. New(k) = NewMetadataData
    BY <1>0 DEF New
  <2>3. NewMetadataData = [ entity_type |-> "" ]
    BY DEF NewMetadataData
  <2> QED
    BY <2>1, <2>2, <2>3, Zenon
<1>1. /\ Values(k) = [ entity_type : Strings ]
      /\ UpdatesOf(k) = [ entity_type : Options(Strings) ]
  BY <1>0 DEF Values, UpdatesOf
<1>2. DataOf(k) \subseteq MetadataData /\ UpdatesOf(k) \subseteq MetadataUpdate
  <2>1. Strings \subseteq Strings
    BY OthelloAssumption
  <2>2. Options(Strings) \subseteq Options(Strings)
    BY <2>1 DEF Options
  <2> QED
    BY <1>1, <2>1, <2>2 DEF DataOf, MetadataData, MetadataUpdate
<1>3. \A x : /\ Deserialize(k, "snapshot", x) = Deserialize_Metadata("snapshot", x)
             /\ Deserialize(k, "update", x) = Deserialize_Metadata("update", x)
             /\ Serialize(k, "snapshot", x) = Serialize_Metadata("snapshot", x)
             /\ Serialize(k, "update", x) = Serialize_Metadata("update", x)
             /\ ToInitialData(k, x) = [ entity_type |-> x.entity_type[1] ]
             /\ FromInitialData(k, x) = [ entity_type |-> << x.entity_type >> ]
             /\ \A y : ApplyTo(k, x, y) = [ entity_type |-> Or(x.entity_type, y.entity_type) ]
  BY <1>0 DEF Deserialize, Serialize, ToInitialData, FromInitialData, ApplyTo,
         ToInitialData_Metadata, FromInitialData_Metadata, ApplyTo_Metadata
<1>4. Carried(k)
  BY <1>2, <1>3, MetadataReadsBack DEF Carried
<1>5. Applied(k)
  <2> SUFFICES ASSUME NEW u \in UpdatesOf(k), NEW d \in DataOf(k)
               PROVE  /\ ApplyTo(k, u, d) \in DataOf(k)
                      /\ ApplyTo(k, u, ApplyTo(k, u, d)) = ApplyTo(k, u, d)
                      /\ Complete(u) =>
                           /\ ApplyTo(k, u, d) = ToInitialData(k, u)
                           /\ FromInitialData(k, ToInitialData(k, u)) = u
    BY DEF Applied
  <2> PICK option \in Options(Strings) : u = [ entity_type |-> option ]
    BY <1>1
  <2> PICK v : d = [ entity_type |-> v ]
    BY <1>1 DEF DataOf
  <2>1. /\ Or(option, v) \in Strings \/ Or(option, v) = v
        /\ Or(option, Or(option, v)) = Or(option, v)
        /\ option # << >> =>
             /\ option[1] \in Strings /\ << option[1] >> = option
             /\ Or(option, v) = option[1]
    BY OrOfOption
  <2>2. \A w : ApplyTo(k, u, [ entity_type |-> w ]) = [ entity_type |-> Or(option, w) ]
    BY <1>3
  <2>3. ToInitialData(k, u) = [ entity_type |-> option[1] ]
    <3>1. ToInitialData(k, u) = [ entity_type |-> u.entity_type[1] ]
      BY <1>3, Zenon
    <3>2. u.entity_type = option
      OBVIOUS
    <3> QED
      BY <3>1, <3>2, Zenon
  <2>4. FromInitialData(k, [ entity_type |-> option[1] ]) = [ entity_type |-> << option[1] >> ]
    <3> PICK e : e = [ entity_type |-> option[1] ]
      OBVIOUS
    <3>1. FromInitialData(k, e) = [ entity_type |-> << e.entity_type >> ]
      BY <1>3, Zenon
    <3>2. e.entity_type = option[1]
      OBVIOUS
    <3> QED
      BY <3>1, <3>2, Zenon
  <2>5. Complete(u) => option # << >>
    BY DEF Complete
  <2>6. ApplyTo(k, u, d) \in DataOf(k)
    BY <1>1, <2>1, <2>2 DEF DataOf
  <2> QED
    BY <2>1, <2>2, <2>3, <2>4, <2>5, <2>6
<1>6. Fields(k)
  <2>1. NewUpdate(k) = [ entity_type |-> << >> ]
    BY <1>1 DEF NewUpdate
  <2>2. ASSUME NEW u \in UpdatesOf(k), NEW field \in DOMAIN u
        PROVE  /\ u[field] \in Options({ value[field] : value \in Values(k) })
               /\ [ u EXCEPT ![field] = << >> ] \in UpdatesOf(k)
               /\ \A value \in Values(k) :
                    [ u EXCEPT ![field] = << value[field] >> ] \in UpdatesOf(k)
    <3> PICK option \in Options(Strings) : u = [ entity_type |-> option ]
      BY <1>1
    <3>1. field = "entity_type"
      OBVIOUS
    <3>2. \A w \in Strings : w \in { value[field] : value \in Values(k) }
      <4> SUFFICES ASSUME NEW w \in Strings
                   PROVE  \E value \in Values(k) : w = value[field]
        OBVIOUS
      <4>1. [ entity_type |-> w ] \in Values(k)
        BY <1>1
      <4> QED
        BY <3>1, <4>1
    <3>3. u[field] \in Options({ value[field] : value \in Values(k) })
      BY <3>1, <3>2 DEF Options
    <3>4. \A w \in Options(Strings) : [ u EXCEPT ![field] = w ] \in UpdatesOf(k)
      BY <1>1, <3>1
    <3>5. << >> \in Options(Strings) /\ \A value \in Values(k) : << value[field] >> \in Options(Strings)
      BY <1>1, <3>1 DEF Options
    <3> QED
      BY <3>3, <3>4, <3>5
  <2>3. << >> \in Options(Strings)
    BY DEF Options
  <2> QED
    BY <1>1, <2>1, <2>2, <2>3 DEF Fields
<1> QED BY <1>0, <1>4, <1>5, <1>6

LEMMA PositionFacts == Carried("Position") /\ Applied("Position") /\ Fields("Position")
<1>0. PICK k : k = "Position"
  OBVIOUS
<1> PICK default \in Coordinates : New(k) = [ coords |-> default ]
  <2>1. NewCoordinates \in Coordinates
    BY StandardLibraryAssumption DEF Coordinates, NewCoordinates
  <2>2. New(k) = NewPositionData
    BY <1>0 DEF New
  <2>3. NewPositionData = [ coords |-> NewCoordinates ]
    BY DEF NewPositionData
  <2> QED
    BY <2>1, <2>2, <2>3, Zenon
<1>1. /\ Values(k) = [ coords : Coordinates ]
      /\ UpdatesOf(k) = [ coords : Options(Coordinates) ]
  BY <1>0 DEF Values, UpdatesOf
<1>2. DataOf(k) \subseteq PositionData /\ UpdatesOf(k) \subseteq PositionUpdate
  <2>1. Coordinates \subseteq Coordinates
    BY StandardLibraryAssumption DEF Coordinates, NewCoordinates
  <2>2. Options(Coordinates) \subseteq Options(Coordinates)
    BY <2>1 DEF Options
  <2> QED
    BY <1>1, <2>1, <2>2 DEF DataOf, PositionData, PositionUpdate
<1>3. \A x : /\ Deserialize(k, "snapshot", x) = Deserialize_Position("snapshot", x)
             /\ Deserialize(k, "update", x) = Deserialize_Position("update", x)
             /\ Serialize(k, "snapshot", x) = Serialize_Position("snapshot", x)
             /\ Serialize(k, "update", x) = Serialize_Position("update", x)
             /\ ToInitialData(k, x) = [ coords |-> x.coords[1] ]
             /\ FromInitialData(k, x) = [ coords |-> << x.coords >> ]
             /\ \A y : ApplyTo(k, x, y) = [ coords |-> Or(x.coords, y.coords) ]
  BY <1>0 DEF Deserialize, Serialize, ToInitialData, FromInitialData, ApplyTo,
         ToInitialData_Position, FromInitialData_Position, ApplyTo_Position
<1>4. Carried(k)
  BY <1>2, <1>3, PositionReadsBack DEF Carried
<1>5. Applied(k)
  <2> SUFFICES ASSUME NEW u \in UpdatesOf(k), NEW d \in DataOf(k)
               PROVE  /\ ApplyTo(k, u, d) \in DataOf(k)
                      /\ ApplyTo(k, u, ApplyTo(k, u, d)) = ApplyTo(k, u, d)
                      /\ Complete(u) =>
                           /\ ApplyTo(k, u, d) = ToInitialData(k, u)
                           /\ FromInitialData(k, ToInitialData(k, u)) = u
    BY DEF Applied
  <2> PICK option \in Options(Coordinates) : u = [ coords |-> option ]
    BY <1>1
  <2> PICK v : d = [ coords |-> v ]
    BY <1>1 DEF DataOf
  <2>1. /\ Or(option, v) \in Coordinates \/ Or(option, v) = v
        /\ Or(option, Or(option, v)) = Or(option, v)
        /\ option # << >> =>
             /\ option[1] \in Coordinates /\ << option[1] >> = option
             /\ Or(option, v) = option[1]
    BY OrOfOption
  <2>2. \A w : ApplyTo(k, u, [ coords |-> w ]) = [ coords |-> Or(option, w) ]
    BY <1>3
  <2>3. ToInitialData(k, u) = [ coords |-> option[1] ]
    <3>1. ToInitialData(k, u) = [ coords |-> u.coords[1] ]
      BY <1>3, Zenon
    <3>2. u.coords = option
      OBVIOUS
    <3> QED
      BY <3>1, <3>2, Zenon
  <2>4. FromInitialData(k, [ coords |-> option[1] ]) = [ coords |-> << option[1] >> ]
    <3> PICK e : e = [ coords |-> option[1] ]
      OBVIOUS
    <3>1. FromInitialData(k, e) = [ coords |-> << e.coords >> ]
      BY <1>3, Zenon
    <3>2. e.coords = option[1]
      OBVIOUS
    <3> QED
      BY <3>1, <3>2, Zenon
  <2>5. Complete(u) => option # << >>
    BY DEF Complete
  <2>6. ApplyTo(k, u, d) \in DataOf(k)
    BY <1>1, <2>1, <2>2 DEF DataOf
  <2> QED
    BY <2>1, <2>2, <2>3, <2>4, <2>5, <2>6
<1>6. Fields(k)
  <2>1. NewUpdate(k) = [ coords |-> << >> ]
    BY <1>1 DEF NewUpdate
  <2>2. ASSUME NEW u \in UpdatesOf(k), NEW field \in DOMAIN u
        PROVE  /\ u[field] \in Options({ value[field] : value \in Values(k) })
               /\ [ u EXCEPT ![field] = << >> ] \in UpdatesOf(k)
               /\ \A value \in Values(k) :
                    [ u EXCEPT ![field] = << value[field] >> ] \in UpdatesOf(k)
    <3> PICK option \in Options(Coordinates) : u = [ coords |-> option ]
      BY <1>1
    <3>1. field = "coords"
      OBVIOUS
    <3>2. \A w \in Coordinates : w \in { value[field] : value \in Values(k) }
      <4> SUFFICES ASSUME NEW w \in Coordinates
                   PROVE  \E value \in Values(k) : w = value[field]
        OBVIOUS
      <4>1. [ coords |-> w ] \in Values(k)
        BY <1>1
      <4> QED
        BY <3>1, <4>1
    <3>3. u[field] \in Options({ value[field] : value \in Values(k) })
      BY <3>1, <3>2 DEF Options
    <3>4. \A w \in Options(Coordinates) : [ u EXCEPT ![field] = w ] \in UpdatesOf(k)
      BY <1>1, <3>1
    <3>5. << >> \in Options(Coordinates) /\ \A value \in Values(k) : << value[field] >> \in Options(Coordinates)
      BY <1>1, <3>1 DEF Options
    <3> QED
      BY <3>3, <3>4, <3>5
  <2>3. << >> \in Options(Coordinates)
    BY DEF Options
  <2> QED
    BY <1>1, <2>1, <2>2, <2>3 DEF Fields
<1> QED BY <1>0, <1>4, <1>5, <1>6

LEMMA NoPairs == << >> \in InterestMap
BY DEF InterestMap, KeysOnce

LEMMA InterestFacts == Carried("Interest") /\ Applied("Interest") /\ Fields("Interest")
<1>0. PICK k : k = "Interest"
  OBVIOUS
<1> PICK default \in InterestMap : New(k) = [ component_interest |-> default ]
  <2>1. << >> \in InterestMap
    BY ComponentsAssumption, NoPairs
  <2>2. New(k) = NewInterestData
    BY <1>0 DEF New
  <2>3. NewInterestData = [ component_interest |-> << >> ]
    BY DEF NewInterestData
  <2> QED
    BY <2>1, <2>2, <2>3, Zenon
<1>1. /\ Values(k) = [ component_interest : InterestMaps ]
      /\ UpdatesOf(k) = [ component_interest : Options(InterestMaps) ]
  BY <1>0 DEF Values, UpdatesOf
<1>2. DataOf(k) \subseteq InterestData /\ UpdatesOf(k) \subseteq InterestUpdate
  <2>1. InterestMaps \subseteq InterestMap
    BY ComponentsAssumption, NoPairs
  <2>2. Options(InterestMaps) \subseteq Options(InterestMap)
    BY <2>1 DEF Options
  <2> QED
    BY <1>1, <2>1, <2>2 DEF DataOf, InterestData, InterestUpdate
<1>3. \A x : /\ Deserialize(k, "snapshot", x) = Deserialize_Interest("snapshot", x)
             /\ Deserialize(k, "update", x) = Deserialize_Interest("update", x)
             /\ Serialize(k, "snapshot", x) = Serialize_Interest("snapshot", x)
             /\ Serialize(k, "update", x) = Serialize_Interest("update", x)
             /\ ToInitialData(k, x) = [ component_interest |-> x.component_interest[1] ]
             /\ FromInitialData(k, x) = [ component_interest |-> << x.component_interest >> ]
             /\ \A y : ApplyTo(k, x, y) = [ component_interest |-> Or(x.component_interest, y.component_interest) ]
  BY <1>0 DEF Deserialize, Serialize, ToInitialData, FromInitialData, ApplyTo,
         ToInitialData_Interest, FromInitialData_Interest, ApplyTo_Interest
<1>4. Carried(k)
  BY <1>2, <1>3, InterestReadsBack DEF Carried
<1>5. Applied(k)
  <2> SUFFICES ASSUME NEW u \in UpdatesOf(k), NEW d \in DataOf(k)
               PROVE  /\ ApplyTo(k, u, d) \in DataOf(k)
                      /\ ApplyTo(k, u, ApplyTo(k, u, d)) = ApplyTo(k, u, d)
                      /\ Complete(u) =>
                           /\ ApplyTo(k, u, d) = ToInitialData(k, u)
                           /\ FromInitialData(k, ToInitialData(k, u)) = u
    BY DEF Applied
  <2> PICK option \in Options(InterestMaps) : u = [ component_interest |-> option ]
    BY <1>1
  <2> PICK v : d = [ component_interest |-> v ]
    BY <1>1 DEF DataOf
  <2>1. /\ Or(option, v) \in InterestMaps \/ Or(option, v) = v
        /\ Or(option, Or(option, v)) = Or(option, v)
        /\ option # << >> =>
             /\ option[1] \in InterestMaps /\ << option[1] >> = option
             /\ Or(option, v) = option[1]
    BY OrOfOption
  <2>2. \A w : ApplyTo(k, u, [ component_interest |-> w ]) = [ component_interest |-> Or(option, w) ]
    BY <1>3
  <2>3. ToInitialData(k, u) = [ component_interest |-> option[1] ]
    <3>1. ToInitialData(k, u) = [ component_interest |-> u.component_interest[1] ]
      BY <1>3, Zenon
    <3>2. u.component_interest = option
      OBVIOUS
    <3> QED
      BY <3>1, <3>2, Zenon
  <2>4. FromInitialData(k, [ component_interest |-> option[1] ]) = [ component_interest |-> << option[1] >> ]
    <3> PICK e : e = [ component_interest |-> option[1] ]
      OBVIOUS
    <3>1. FromInitialData(k, e) = [ component_interest |-> << e.component_interest >> ]
      BY <1>3, Zenon
    <3>2. e.component_interest = option[1]
      OBVIOUS
    <3> QED
      BY <3>1, <3>2, Zenon
  <2>5. Complete(u) => option # << >>
    BY DEF Complete
  <2>6. ApplyTo(k, u, d) \in DataOf(k)
    BY <1>1, <2>1, <2>2 DEF DataOf
  <2> QED
    BY <2>1, <2>2, <2>3, <2>4, <2>5, <2>6
<1>6. Fields(k)
  <2>1. NewUpdate(k) = [ component_interest |-> << >> ]
    BY <1>1 DEF NewUpdate
  <2>2. ASSUME NEW u \in UpdatesOf(k), NEW field \in DOMAIN u
        PROVE  /\ u[field] \in Options({ value[field] : value \in Values(k) })
               /\ [ u EXCEPT ![field] = << >> ] \in UpdatesOf(k)
               /\ \A value \in Values(k) :
                    [ u EXCEPT ![field] = << value[field] >> ] \in UpdatesOf(k)
    <3> PICK option \in Options(InterestMaps) : u = [ component_interest |-> option ]
      BY <1>1
    <3>1. field = "component_interest"
      OBVIOUS
    <3>2. \A w \in InterestMaps : w \in { value[field] : value \in Values(k) }
      <4> SUFFICES ASSUME NEW w \in InterestMaps
                   PROVE  \E value \in Values(k) : w = value[field]
        OBVIOUS
      <4>1. [ component_interest |-> w ] \in Values(k)
        BY <1>1
      <4> QED
        BY <3>1, <4>1
    <3>3. u[field] \in Options({ value[field] : value \in Values(k) })
      BY <3>1, <3>2 DEF Options
    <3>4. \A w \in Options(InterestMaps) : [ u EXCEPT ![field] = w ] \in UpdatesOf(k)
      BY <1>1, <3>1
    <3>5. << >> \in Options(InterestMaps) /\ \A value \in Values(k) : << value[field] >> \in Options(InterestMaps)
      BY <1>1, <3>1 DEF Options
    <3> QED
      BY <3>3, <3>4, <3>5
  <2>3. << >> \in Options(InterestMaps)
    BY DEF Options
  <2> QED
    BY <1>1, <2>1, <2>2, <2>3 DEF Fields
<1> QED BY <1>0, <1>4, <1>5, <1>6

LEMMA Facts == \A k \in Kinds : Carried(k) /\ Applied(k) /\ Fields(k)
BY GameFacts, TurnTakerFacts, PersistenceFacts, ColorFacts, PlayerFacts, MetadataFacts,
   PositionFacts, InterestFacts DEF Kinds

(* What is on its way: the data once, to begin with, and then updates.     *)
Messages(k) ==
  { << "snapshot", Serialize(k, "snapshot", d) >> : d \in DataOf(k) }
    \cup { << "update", Serialize(k, "update", u) >> : u \in UpdatesOf(k) }

DataComesFirst(messages, copy) ==
  /\ \A i \in 1 .. Len(messages) :
       messages[i][1] = "snapshot" => i = 1 /\ copy = << >>
  /\ messages # << >> /\ copy = << >> => messages[1][1] = "snapshot"

(* The reader's copy after a message, and the copies after each of some.   *)
CopyAfter(k, copy, message) ==
  LET x == Deserialize(k, message[1], message[2])
  IN  IF message[1] = "snapshot" THEN x ELSE << ApplyTo(k, x[1], copy[1]) >>

Copies(k, messages, copy, f) ==
  /\ f \in [ 0 .. Len(messages) -> Options(DataOf(k)) ]
  /\ f[0] = copy
  /\ \A i \in 1 .. Len(messages) : f[i] = CopyAfter(k, f[i - 1], messages[i])

(* The reader arrives at the data of the component.                        *)
ComponentsInv ==
  /\ kind \in Kinds
  /\ ours \in DataOf(kind) /\ update \in UpdatesOf(kind)
  /\ theirs \in Options(DataOf(kind))
  /\ wire \in Seq(Messages(kind)) /\ Len(wire) <= MaxInFlight
  /\ DataComesFirst(wire, theirs)
  /\ \E f : /\ Copies(kind, wire, theirs, f)
            /\ theirs # << >> \/ wire # << >> => f[Len(wire)] = << ours >>

LEMMA DataIsReceived ==
  ASSUME NEW k \in Kinds, NEW d \in DataOf(k), NEW copy
  PROVE  CopyAfter(k, copy, << "snapshot", Serialize(k, "snapshot", d) >>) = << d >>
<1>1. Deserialize(k, "snapshot", Serialize(k, "snapshot", d)) = << d >>
  BY Facts DEF Carried
<1> QED BY <1>1 DEF CopyAfter

LEMMA UpdateIsReceived ==
  ASSUME NEW k \in Kinds, NEW u \in UpdatesOf(k), NEW d
  PROVE  CopyAfter(k, << d >>, << "update", Serialize(k, "update", u) >>)
           = << ApplyTo(k, u, d) >>
<1>1. Deserialize(k, "update", Serialize(k, "update", u)) = << u >>
  BY Facts DEF Carried
<1> QED BY <1>1 DEF CopyAfter

LEMMA SomethingIsReceived ==
  ASSUME NEW k \in Kinds, NEW message \in Messages(k), NEW copy
  PROVE  CopyAfter(k, copy, message) # << >>
<1>1. CASE \E d \in DataOf(k) : message = << "snapshot", Serialize(k, "snapshot", d) >>
  BY <1>1, DataIsReceived
<1>2. CASE \E u \in UpdatesOf(k) : message = << "update", Serialize(k, "update", u) >>
  BY <1>2 DEF CopyAfter
<1> QED BY <1>1, <1>2 DEF Messages

LEMMA OneMore ==
  ASSUME NEW k, NEW messages \in Seq(Messages(k)), NEW copy, NEW f,
         Copies(k, messages, copy, f), NEW message \in Messages(k),
         NEW next \in Options(DataOf(k)),
         CopyAfter(k, f[Len(messages)], message) = next
  PROVE  \E g : /\ Copies(k, Append(messages, message), copy, g)
                /\ g[Len(Append(messages, message))] = next
<1> PICK n \in Nat : n = Len(messages)
  OBVIOUS
<1> PICK more : more = Append(messages, message)
  OBVIOUS
<1>1. /\ Len(more) = n + 1 /\ more[n + 1] = message
      /\ \A i \in 1 .. n : more[i] = messages[i]
  OBVIOUS
<1>2. /\ f \in [ 0 .. n -> Options(DataOf(k)) ] /\ f[0] = copy
      /\ \A i \in 1 .. n : f[i] = CopyAfter(k, f[i - 1], messages[i])
  BY DEF Copies
<1> DEFINE g == [ i \in 0 .. n + 1 |-> IF i = n + 1 THEN next ELSE f[i] ]
<1>3. /\ g \in [ 0 .. n + 1 -> Options(DataOf(k)) ] /\ g[n + 1] = next
      /\ \A i \in 0 .. n : g[i] = f[i]
  BY <1>2
<1> HIDE DEF g
<1>4. ASSUME NEW i \in 1 .. n + 1
      PROVE  g[i] = CopyAfter(k, g[i - 1], more[i])
  <2>1. CASE i = n + 1
    <3>1. i - 1 = n /\ n \in 0 .. n
      BY <2>1
    <3> QED
      BY <1>1, <1>3, <2>1, <3>1
  <2>2. CASE i # n + 1
    <3>1. i \in 1 .. n /\ i \in 0 .. n /\ i - 1 \in 0 .. n
      BY <2>2
    <3> QED
      BY <1>1, <1>2, <1>3, <3>1
  <2> QED
    BY <2>1, <2>2
<1>5. g[0] = copy
  BY <1>2, <1>3
<1>6. Copies(k, more, copy, g)
  BY <1>1, <1>3, <1>4, <1>5 DEF Copies
<1> QED BY <1>1, <1>3, <1>6

LEMMA OneLess ==
  ASSUME NEW k, NEW messages \in Seq(Messages(k)), messages # << >>, NEW copy, NEW f,
         Copies(k, messages, copy, f)
  PROVE  /\ f[1] = CopyAfter(k, copy, messages[1]) /\ f[1] \in Options(DataOf(k))
         /\ \E g : /\ Copies(k, Tail(messages), f[1], g)
                   /\ g[Len(Tail(messages))] = f[Len(messages)]
<1> PICK n \in Nat : n + 1 = Len(messages)
  OBVIOUS
<1> PICK fewer : fewer = Tail(messages)
  OBVIOUS
<1>1. Len(fewer) = n /\ \A i \in 1 .. n : fewer[i] = messages[i + 1]
  OBVIOUS
<1>2. /\ f \in [ 0 .. n + 1 -> Options(DataOf(k)) ] /\ f[0] = copy
      /\ \A i \in 1 .. n + 1 : f[i] = CopyAfter(k, f[i - 1], messages[i])
  BY DEF Copies
<1> DEFINE g == [ i \in 0 .. n |-> f[i + 1] ]
<1>3. g \in [ 0 .. n -> Options(DataOf(k)) ] /\ \A i \in 0 .. n : g[i] = f[i + 1]
  BY <1>2
<1> HIDE DEF g
<1>4. ASSUME NEW i \in 1 .. n
      PROVE  g[i] = CopyAfter(k, g[i - 1], fewer[i])
  <2>1. i \in 0 .. n /\ i - 1 \in 0 .. n /\ i + 1 \in 1 .. n + 1 /\ (i + 1) - 1 = i
        /\ (i - 1) + 1 = i
    OBVIOUS
  <2>2. g[i] = f[i + 1] /\ g[i - 1] = f[i]
    BY <1>3, <2>1
  <2>3. f[i + 1] = CopyAfter(k, f[i], messages[i + 1])
    BY <1>2, <2>1
  <2> QED
    BY <1>1, <2>2, <2>3
<1>5. g[0] = f[1] /\ g[n] = f[n + 1]
  BY <1>3
<1>6. Copies(k, fewer, f[1], g)
  BY <1>1, <1>3, <1>4, <1>5 DEF Copies
<1>7. f[1] = CopyAfter(k, copy, messages[1]) /\ f[1] \in Options(DataOf(k))
  BY <1>2, 1 \in 1 .. n + 1, 1 \in 0 .. n + 1, 1 - 1 = 0
<1> QED BY <1>1, <1>5, <1>6, <1>7

LEMMA WhoReads ==
  ASSUME ComponentsInv
  PROVE  Reading <=> theirs # << >> \/ wire # << >>
<1>1. wire \in Seq(Messages(kind)) /\ DataComesFirst(wire, theirs)
  BY DEF ComponentsInv
<1>2. wire # << >> /\ theirs = << >> => 1 \in DOMAIN wire /\ wire[1][1] = "snapshot"
  BY <1>1 DEF DataComesFirst
<1>3. (\E i \in DOMAIN wire : wire[i][1] = "snapshot") => wire # << >>
  OBVIOUS
<1> QED BY <1>2, <1>3 DEF Reading

(* The copies are those of the model.                                      *)
LEMMA CopiesArrive ==
  ASSUME NEW f, Copies(kind, wire, theirs, f), wire \in Seq(Messages(kind))
  PROVE  Arriving = f[Len(wire)]
<1> PICK n \in Nat : n = Len(wire)
  OBVIOUS
<1>1. /\ f \in [ 0 .. n -> Options(DataOf(kind)) ] /\ f[0] = theirs
      /\ \A i \in 1 .. n : f[i] = Receiving(f[i - 1], wire[i])
  BY DEF Copies, CopyAfter, Receiving
<1> DEFINE Body(g) == [ i \in 0 .. Len(wire) |->
                          IF i = 0 THEN theirs ELSE Receiving(g[i - 1], wire[i]) ]
           copy == CHOOSE g : g = Body(g)
<1>2. f = Body(f)
  <2>1. ASSUME NEW i \in 0 .. n
        PROVE  f[i] = Body(f)[i]
    <3>1. CASE i = 0
      BY <1>1, <3>1
    <3>2. CASE i # 0
      <4>1. i \in 1 .. n
        BY <3>2
      <4> QED
        BY <1>1, <3>2, <4>1
    <3> QED
      BY <3>1, <3>2
  <2>2. f = [ i \in 0 .. n |-> f[i] ]
    BY <1>1
  <2>3. Body(f) = [ i \in 0 .. n |-> Body(f)[i] ]
    OBVIOUS
  <2> HIDE DEF Body
  <2> QED
    BY <2>1, <2>2, <2>3
<1>3. copy = Body(copy)
  <2> HIDE DEF Body
  <2> QED
    BY <1>2
<1> HIDE DEF copy
<1> PICK g : g = copy
  OBVIOUS
<1>4. g = Body(g)
  BY <1>3
<1> DEFINE T == { i \in 0 .. n : g[i] # f[i] }
<1>5. T = {}
  <2> SUFFICES ASSUME T # {}
               PROVE  FALSE
    OBVIOUS
  <2>1. T \in SUBSET Nat
    OBVIOUS
  <2>2. PICK i \in T : \A m \in T : i <= m
    BY <2>1, LeastNatural
  <2>3. i \in 0 .. n /\ g[i] # f[i]
    OBVIOUS
  <2>4. g[i] = Body(g)[i] /\ f[i] = Body(f)[i]
    <3> HIDE DEF Body
    <3> QED
      BY <1>2, <1>4
  <2>5. i # 0
    BY <2>3, <2>4
  <2>6. i - 1 \in 0 .. n /\ ~(i <= i - 1)
    BY <2>3, <2>5
  <2>7. g[i - 1] = f[i - 1]
    BY <2>2, <2>6
  <2>8. Body(g)[i] = Body(f)[i]
    BY <2>3, <2>5, <2>7
  <2> QED
    BY <2>3, <2>4, <2>8
<1>6. copy[Len(wire)] = f[Len(wire)]
  BY <1>5
<1> QED BY <1>6 DEF Arriving, copy

(* A message is sent, that takes the reader to the data of the component.  *)
LEMMA SentOne ==
  ASSUME ComponentsInv, kind' = kind, theirs' = theirs, update' \in UpdatesOf(kind),
         ours' \in DataOf(kind),
         NEW message \in Messages(kind), wire' = Append(wire, message),
         Len(wire) < MaxInFlight,
         message[1] = "snapshot" => theirs = << >> /\ wire = << >>,
         message[1] # "snapshot" => theirs # << >> \/ wire # << >>,
         \A copy : (theirs # << >> \/ wire # << >> => copy = << ours >>)
                      => CopyAfter(kind, copy, message) = << ours' >>
  PROVE  ComponentsInv'
<1> PICK k \in Kinds : k = kind
  BY DEF ComponentsInv
<1> PICK w \in Seq(Messages(k)) : w = wire
  BY DEF ComponentsInv
<1> PICK next : next = ours'
  OBVIOUS
<1> PICK n \in Nat : n = Len(w)
  OBVIOUS
<1>1. /\ Append(w, message) \in Seq(Messages(k)) /\ Len(Append(w, message)) = n + 1
      /\ Append(w, message)[n + 1] = message
      /\ \A i \in 1 .. n : Append(w, message)[i] = w[i]
  OBVIOUS
<1>2. Len(wire') <= MaxInFlight
  BY <1>1, ComponentsAssumption
<1>3. DataComesFirst(wire', theirs')
  <2>1. DataComesFirst(w, theirs)
    BY DEF ComponentsInv
  <2>2. ASSUME NEW i \in 1 .. n + 1, Append(w, message)[i][1] = "snapshot"
        PROVE  i = 1 /\ theirs = << >>
    <3>1. CASE i = n + 1
      BY <1>1, <2>2, <3>1
    <3>2. CASE i # n + 1
      <4>1. i \in 1 .. n
        BY <3>2
      <4> QED
        BY <1>1, <2>1, <2>2, <4>1 DEF DataComesFirst
    <3> QED
      BY <3>1, <3>2
  <2>3. theirs = << >> => Append(w, message)[1][1] = "snapshot"
    <3>1. CASE w = << >>
      BY <3>1
    <3>2. CASE w # << >>
      <4>1. 1 \in 1 .. n
        BY <3>2
      <4> QED
        BY <1>1, <2>1, <3>2, <4>1 DEF DataComesFirst
    <3> QED
      BY <3>1, <3>2
  <2>4. \A i \in 1 .. Len(Append(w, message)) :
          Append(w, message)[i][1] = "snapshot" => i = 1 /\ theirs = << >>
    BY <1>1, <2>2
  <2>5. wire' = Append(w, message)
    OBVIOUS
  <2> QED
    BY <2>3, <2>4, <2>5 DEF DataComesFirst
<1>4. \E g : /\ Copies(k, wire', theirs, g) /\ g[Len(wire')] = << next >>
  <2>1. PICK f : /\ Copies(k, w, theirs, f)
                 /\ theirs # << >> \/ w # << >> => f[n] = << ours >>
    BY DEF ComponentsInv
  <2>2. CopyAfter(k, f[n], message) = << next >>
    BY <2>1
  <2>3. << next >> \in Options(DataOf(k))
    BY DEF Options
  <2>4. CopyAfter(k, f[Len(w)], message) = << next >>
    BY <2>2
  <2> QED
    BY <2>1, <2>3, <2>4, OneMore
<1>5. /\ kind' \in Kinds /\ ours' \in DataOf(kind') /\ update' \in UpdatesOf(kind')
      /\ theirs' \in Options(DataOf(kind')) /\ wire' \in Seq(Messages(kind'))
  BY <1>1 DEF ComponentsInv
<1>6. \E g : /\ Copies(kind', wire', theirs', g)
             /\ theirs' # << >> \/ wire' # << >> => g[Len(wire')] = << ours' >>
  BY <1>4
<1> QED
  BY <1>2, <1>3, <1>5, <1>6 DEF ComponentsInv

LEMMA ComponentsStart ==
  ASSUME ComponentsInit
  PROVE  ComponentsInv
<1>1. /\ kind \in Kinds /\ ours = New(kind) /\ update = NewUpdate(kind)
      /\ wire = << >> /\ theirs = << >>
  BY DEF ComponentsInit
<1>2. update \in UpdatesOf(kind)
  BY <1>1, Facts DEF Fields
<1>3. theirs \in Options(DataOf(kind)) /\ ours \in DataOf(kind)
  BY <1>1 DEF Options, DataOf
<1>4. /\ wire \in Seq(Messages(kind)) /\ Len(wire) <= MaxInFlight
      /\ DataComesFirst(wire, theirs)
  BY <1>1, ComponentsAssumption DEF DataComesFirst
<1> DEFINE f == [ i \in 0 .. 0 |-> theirs ]
<1>5. Copies(kind, wire, theirs, f)
  BY <1>1, <1>3 DEF Copies
<1> QED
  BY <1>1, <1>2, <1>3, <1>4, <1>5 DEF ComponentsInv

LEMMA UpdateIsFilledIn ==
  ASSUME ComponentsInv, Set \/ Clear
  PROVE  ComponentsInv'
<1>1. UNCHANGED << kind, ours, wire, theirs >>
  BY DEF Set, Clear
<1>2. kind \in Kinds /\ update \in UpdatesOf(kind)
  BY DEF ComponentsInv
<1>3. Fields(kind)
  BY <1>2, Facts
<1>4. update' \in UpdatesOf(kind)
  BY <1>2, <1>3 DEF Fields, Set, Clear
<1> QED
  BY <1>1, <1>4 DEF ComponentsInv

LEMMA CheckedOut ==
  ASSUME ComponentsInv, CheckOut
  PROVE  ComponentsInv'
<1>1. /\ UNCHANGED << kind, ours, update, theirs >> /\ theirs = << >>
      /\ \A i \in DOMAIN wire : wire[i][1] # "snapshot"
  BY DEF CheckOut
<1>2. /\ kind \in Kinds /\ ours \in DataOf(kind) /\ update \in UpdatesOf(kind)
      /\ wire \in Seq(Messages(kind)) /\ DataComesFirst(wire, theirs)
  BY DEF ComponentsInv
<1> PICK message : message = << "snapshot", Serialize(kind, "snapshot", ours) >>
  OBVIOUS
<1>3. message \in Messages(kind)
  BY <1>2 DEF Messages
<1>4. Len(wire) < MaxInFlight /\ wire' = Append(wire, message)
  BY DEF CheckOut, Send
<1>5. wire = << >>
  <2>1. wire # << >> => 1 \in DOMAIN wire
    BY <1>2
  <2> QED
    BY <1>1, <1>2, <2>1 DEF DataComesFirst
<1>6. \A copy : CopyAfter(kind, copy, message) = << ours >>
  BY <1>2, DataIsReceived
<1>7. message[1] = "snapshot"
  OBVIOUS
<1> QED
  BY <1>1, <1>2, <1>3, <1>4, <1>5, <1>6, <1>7, SentOne

LEMMA UpdateIsSent ==
  ASSUME ComponentsInv, Reading, NEW u \in UpdatesOf(kind),
         kind' = kind, theirs' = theirs, update' \in UpdatesOf(kind),
         ours' = ApplyTo(kind, u, ours), Send("update", u)
  PROVE  ComponentsInv'
<1>1. /\ kind \in Kinds /\ ours \in DataOf(kind)
  BY DEF ComponentsInv
<1> PICK message : message = << "update", Serialize(kind, "update", u) >>
  OBVIOUS
<1>2. message \in Messages(kind) /\ message[1] # "snapshot"
  BY DEF Messages
<1>3. Len(wire) < MaxInFlight /\ wire' = Append(wire, message)
  BY DEF Send
<1>4. theirs # << >> \/ wire # << >>
  BY WhoReads
<1>5. ours' \in DataOf(kind)
  BY <1>1, Facts DEF Applied
<1>6. CopyAfter(kind, << ours >>, message) = << ours' >>
  BY <1>1, UpdateIsReceived
<1>7. \A copy : (theirs # << >> \/ wire # << >> => copy = << ours >>)
                  => CopyAfter(kind, copy, message) = << ours' >>
  BY <1>4, <1>6
<1> QED
  BY <1>2, <1>3, <1>4, <1>5, <1>7, SentOne

LEMMA ComponentUpdateIsSent ==
  ASSUME ComponentsInv, SendComponentUpdate
  PROVE  ComponentsInv'
<1>1. update \in UpdatesOf(kind)
  BY DEF ComponentsInv
<1>2. /\ Reading /\ Send("update", update) /\ ours' = ApplyTo(kind, update, ours)
      /\ kind' = kind /\ update' = update /\ theirs' = theirs
  BY DEF SendComponentUpdate
<1>3. update' \in UpdatesOf(kind)
  BY <1>1, <1>2
<1> QED
  BY <1>1, <1>2, <1>3, UpdateIsSent

LEMMA InitialDataIsSent ==
  ASSUME ComponentsInv, SendInitialData
  PROVE  ComponentsInv'
<1>1. kind \in Kinds /\ update \in UpdatesOf(kind) /\ ours \in DataOf(kind)
  BY DEF ComponentsInv
<1>2. /\ Reading /\ Complete(update) /\ ours' = ToInitialData(kind, update)
      /\ Send("update", FromInitialData(kind, ours'))
      /\ update' = NewUpdate(kind) /\ kind' = kind /\ theirs' = theirs
  BY DEF SendInitialData
<1>3. Applied(kind) /\ Fields(kind)
  BY <1>1, Facts
<1>4. /\ ours' = ApplyTo(kind, update, ours)
      /\ FromInitialData(kind, ours') = update
  BY <1>1, <1>2, <1>3 DEF Applied
<1>5. Send("update", update) /\ update' \in UpdatesOf(kind)
  BY <1>2, <1>3, <1>4 DEF Fields
<1> QED
  BY <1>1, <1>2, <1>4, <1>5, UpdateIsSent

LEMMA OneIsReceived ==
  ASSUME ComponentsInv, Receive
  PROVE  ComponentsInv'
<1>1. /\ wire # << >> /\ wire' = Tail(wire) /\ UNCHANGED << kind, ours, update >>
      /\ theirs' = Receiving(theirs, Head(wire))
  BY DEF Receive
<1> PICK k \in Kinds : k = kind
  BY DEF ComponentsInv
<1> PICK w \in Seq(Messages(k)) : w = wire
  BY DEF ComponentsInv
<1> PICK n \in Nat : Len(w) = n + 1
  BY <1>1
<1>2. PICK f : /\ Copies(k, w, theirs, f) /\ f[n + 1] = << ours >>
  BY <1>1 DEF ComponentsInv
<1>3. /\ f[1] = CopyAfter(k, theirs, w[1]) /\ f[1] \in Options(DataOf(k))
      /\ \E g : Copies(k, Tail(w), f[1], g) /\ g[Len(Tail(w))] = f[Len(w)]
  BY <1>1, <1>2, OneLess
<1>4. theirs' = f[1]
  BY <1>1, <1>3 DEF Receiving, CopyAfter
<1>5. theirs' # << >>
  <2>1. w[1] \in Messages(k)
    BY <1>1
  <2> QED
    BY <1>3, <1>4, <2>1, SomethingIsReceived
<1>6. /\ Tail(w) \in Seq(Messages(k)) /\ Len(Tail(w)) = n
      /\ \A i \in 1 .. n : Tail(w)[i] = w[i + 1]
  BY <1>1
<1>7. Len(wire') <= MaxInFlight
  BY <1>1, <1>6, ComponentsAssumption DEF ComponentsInv
<1>8. DataComesFirst(wire', theirs')
  <2>1. \A i \in 1 .. n + 1 : w[i][1] = "snapshot" => i = 1
    BY DEF ComponentsInv, DataComesFirst
  <2>2. \A i \in 1 .. n : Tail(w)[i][1] # "snapshot"
    BY <1>6, <2>1
  <2> QED
    BY <1>1, <1>5, <1>6, <2>2 DEF DataComesFirst
<1>9. \E g : Copies(kind', wire', theirs', g) /\ g[Len(wire')] = << ours' >>
  BY <1>1, <1>2, <1>3, <1>4
<1> QED
  BY <1>1, <1>3, <1>4, <1>6, <1>7, <1>8, <1>9 DEF ComponentsInv

LEMMA ReaderLeaves ==
  ASSUME ComponentsInv, Leave
  PROVE  ComponentsInv'
<1>1. /\ wire = << >> /\ theirs' = << >> /\ UNCHANGED << kind, ours, update, wire >>
  BY DEF Leave
<1>2. theirs' \in Options(DataOf(kind))
  BY <1>1 DEF Options
<1>3. DataComesFirst(wire', theirs')
  BY <1>1 DEF DataComesFirst
<1> DEFINE f == [ i \in 0 .. 0 |-> << >> ]
<1>4. Copies(kind', wire', theirs', f)
  BY <1>1, <1>2 DEF Copies
<1> HIDE DEF f
<1>5. ~(theirs' # << >> \/ wire' # << >>)
  BY <1>1
<1> QED
  BY <1>1, <1>2, <1>3, <1>4, <1>5 DEF ComponentsInv

LEMMA ComponentsAlways == ComponentsSpec => []ComponentsInv
<1>1. ComponentsInit => ComponentsInv
  BY ComponentsStart
<1>2. ComponentsInv /\ [ComponentsNext]_componentVars => ComponentsInv'
  <2> SUFFICES ASSUME ComponentsInv, [ComponentsNext]_componentVars
               PROVE  ComponentsInv'
    OBVIOUS
  <2>1. CASE Set \/ Clear
    BY <2>1, UpdateIsFilledIn
  <2>2. CASE CheckOut
    BY <2>2, CheckedOut
  <2>3. CASE SendComponentUpdate
    BY <2>3, ComponentUpdateIsSent
  <2>4. CASE SendInitialData
    BY <2>4, InitialDataIsSent
  <2>5. CASE Receive
    BY <2>5, OneIsReceived
  <2>6. CASE Leave
    BY <2>6, ReaderLeaves
  <2>7. CASE UNCHANGED componentVars
    BY <2>7 DEF ComponentsInv, componentVars
  <2> QED
    BY <2>1, <2>2, <2>3, <2>4, <2>5, <2>6, <2>7 DEF ComponentsNext
<1> QED BY <1>1, <1>2, PTL DEF ComponentsSpec

(* No update is garbled, and none loses or adds a field, on its way from   *)
(* the writer's Update to the reader's copy, through ToInitialData,        *)
(* FromInitialData, the vtable and ApplyTo of every component: once what   *)
(* is on its way has arrived the reader has the component's data.          *)
THEOREM WhatIsSentArrives == ComponentsSpec => []NothingIsLostOnTheWay
<1>1. ComponentsInv => NothingIsLostOnTheWay
  <2> SUFFICES ASSUME ComponentsInv
               PROVE  NothingIsLostOnTheWay
    OBVIOUS
  <2>1. /\ kind \in Kinds /\ ours \in DataOf(kind) /\ update \in UpdatesOf(kind)
        /\ theirs \in Options(DataOf(kind)) /\ wire \in Seq(Messages(kind))
        /\ Len(wire) <= MaxInFlight /\ DataComesFirst(wire, theirs)
    BY DEF ComponentsInv
  <2>2. \A field \in DOMAIN update :
          update[field] \in Options({ value[field] : value \in Values(kind) })
    BY <2>1, Facts DEF Fields
  <2>3. wire # << >> /\ theirs = << >> => Head(wire)[1] = "snapshot"
    BY <2>1 DEF DataComesFirst
  <2>4. ComponentsTypeOK
    BY <2>1, <2>2, <2>3 DEF ComponentsTypeOK, DataOf
  <2>5. PICK f : /\ Copies(kind, wire, theirs, f)
                 /\ theirs # << >> \/ wire # << >> => f[Len(wire)] = << ours >>
    BY DEF ComponentsInv
  <2>6. Reading => Arriving = << ours >>
    BY <2>1, <2>5, CopiesArrive, WhoReads
  <2> QED
    BY <2>4, <2>6 DEF NothingIsLostOnTheWay
<1> QED BY <1>1, ComponentsAlways, PTL

(* An update with all of its fields filled in says what the data is,       *)
(* whatever it was, and is had back from it; and to apply an update twice  *)
(* is to apply it once (Update::ToInitialData, FromInitialData, ApplyTo).  *)
THEOREM CompleteUpdatesAreData == ComponentsSpec => []ACompleteUpdateIsData
<1>1. ComponentsInv => ACompleteUpdateIsData
  <2> SUFFICES ASSUME ComponentsInv
               PROVE  ACompleteUpdateIsData
    OBVIOUS
  <2>1. /\ kind \in Kinds /\ ours \in DataOf(kind) /\ update \in UpdatesOf(kind)
    BY DEF ComponentsInv
  <2>2. Applied(kind) /\ Values(kind) \subseteq DataOf(kind)
    BY <2>1, Facts DEF DataOf
  <2> QED
    BY <2>1, <2>2 DEF Applied, ACompleteUpdateIsData
<1> QED BY <1>1, ComponentsAlways, PTL

-----------------------------------------------------------------------------
(* Commands.                                                               *)

USE CommandsAssumption

(* What the vtable makes of a request or a response and reads back.        *)
Asking(id) == Generic(requests[id].T.CommandId, requests[id].T.Request, requests[id].request)

Replying(T, response) == Generic(T.CommandId, T.Response, response)

(* The requests on their way carry what was sent, and none of them is yet  *)
(* with a handler.                                                         *)
RequestTravels(m) ==
  /\ m = [ kind |-> "request", id |-> m.id, root |-> Serialize_Game("request", Asking(m.id)) ]
  /\ m.id \in DOMAIN requests
  /\ \A i \in DOMAIN incoming : incoming[i].request # m.id

RequestsTravel == \A m \in network : m.kind = "request" => RequestTravels(m)

(* No request is received twice.                                           *)
ReceivedOnce ==
  \A i, j \in DOMAIN incoming : incoming[i].request = incoming[j].request => i = j

(* The answers on their way are a handler's.                               *)
AnswerTo(i, a) ==
  /\ a.RequestId = i /\ a.T = requests[incoming[i].request].T
  /\ \E response \in Responses(a.T) : a.Response = << response >>

AnswerTravels(m) ==
  /\ m.kind \in { "response", "failure" } /\ m.id \in DOMAIN incoming
  /\ \E call \in handled : call.RequestId = m.id
  /\ m.kind = "response" =>
       \E a \in answers :
         AnswerTo(m.id, a) /\ m.root = Serialize_Game("response", Replying(a.T, a.Response[1]))

AnswersTravel == \A m \in network : m.kind # "request" => AnswerTravels(m)

(* What waits in a queue.                                                  *)
RequestWaits(op) ==
  /\ op.RequestId \in DOMAIN incoming
  /\ op = RequestOp(op.RequestId, << Asking(incoming[op.RequestId].request) >>)

ResponseWaits(w, op) ==
  /\ op.RequestId \in DOMAIN requests
  /\ requests[op.RequestId].caller = w /\ requests[op.RequestId].resolved
  /\ op.StatusCode \in Failures \cup { "kSuccess", "kApplicationError" }
  /\ op = ResponseOp(op.RequestId, op.StatusCode, op.Response)
  /\ IF op.StatusCode = "kSuccess"
     THEN \E i \in DOMAIN incoming :
            /\ incoming[i].request = op.RequestId
            /\ \E call \in handled : call.RequestId = i
            /\ \E a \in answers :
                 AnswerTo(i, a) /\ op.Response = << Replying(a.T, a.Response[1]) >>
     ELSE op.Response = << >>

Waiting(w) == { queue[w][k] : k \in DOMAIN queue[w] }

QueuesHold ==
  \A w \in Workers : \A op \in Waiting(w) :
    \/ op.op = "CommandRequest" /\ RequestWaits(op)
    \/ op.op = "CommandResponse" /\ ResponseWaits(w, op)

(* A request is answered by one operation, in the queue or behind it.      *)
AnsweredOnce ==
  \A w \in Workers : \A k \in DOMAIN queue[w] : queue[w][k].op = "CommandResponse" =>
    /\ \A call \in heard : call.RequestId # queue[w][k].RequestId
    /\ \A l \in DOMAIN queue[w] :
         queue[w][l].op = "CommandResponse" /\ queue[w][l].RequestId = queue[w][k].RequestId
         => k = l

Handled(call) ==
  /\ call.RequestId \in DOMAIN incoming
  /\ call = [ RequestId |-> call.RequestId,
              T |-> requests[incoming[call.RequestId].request].T,
              Request |-> requests[incoming[call.RequestId].request].request ]

Heard(call) ==
  /\ call.RequestId \in DOMAIN requests
  /\ requests[call.RequestId].resolved
  /\ call.T = requests[call.RequestId].T
  /\ IF call.StatusCode = "kSuccess"
     THEN \E i \in DOMAIN incoming :
            /\ incoming[i].request = call.RequestId
            /\ \E handling \in handled : handling.RequestId = i
            /\ \E a \in answers : AnswerTo(i, a) /\ call.Response = a.Response
     ELSE call.Response = << >>

CallsHold ==
  /\ \A call \in handled : Handled(call)
  /\ \A call \in heard : Heard(call)
  /\ \A call, again \in heard : call.RequestId = again.RequestId => call = again

IInv ==
  /\ CommandsTypeOK
  /\ RequestsTravel /\ ReceivedOnce /\ AnswersTravel
  /\ QueuesHold /\ AnsweredOnce /\ CallsHold

-----------------------------------------------------------------------------
LEMMA CommandsAre ==
  /\ CreatePlayer \in Commands /\ PlaceDisc \in Commands
  /\ CreatePlayer # PlaceDisc
  /\ Requests(CreatePlayer) = Void /\ Responses(CreatePlayer) = CreatePlayerResult
  /\ Requests(PlaceDisc) \subseteq PlaceDiscRequest /\ Responses(PlaceDisc) = SuccessResult
  /\ \A T, U \in Commands : T.CommandId = U.CommandId => T = U
  /\ \A T \in Commands : T.CommandId \in { 1, 2 }
<1>1. CreatePlayer.CommandId = 1 /\ PlaceDisc.CommandId = 2
  BY DEF CreatePlayer, PlaceDisc
<1> QED BY <1>1 DEF Commands, Requests, Responses

(* A request passes through the vtables unchanged, and so does a response. *)
LEMMA CommandsReadBack ==
  ASSUME NEW T \in Commands
  PROVE  /\ \A request \in Requests(T) :
              LET generic == Generic(T.CommandId, T.Request, request)
              IN  /\ Deserialize_Game("request", Serialize_Game("request", generic))
                       = << generic >>
                  /\ generic \in GenericCommandObject_Game
         /\ \A response \in Responses(T) :
              LET generic == Replying(T, response)
              IN  /\ Deserialize_Game("response", Serialize_Game("response", generic))
                       = << generic >>
                  /\ generic \in GenericCommandObject_Game
<1>1. CASE T = CreatePlayer
  <2>1. T.CommandId = 1 /\ T.Request = "Void" /\ T.Response = "CreatePlayerResult"
    BY <1>1 DEF CreatePlayer
  <2>2. Requests(T) = Void /\ Responses(T) = CreatePlayerResult
    BY <1>1, CommandsAre
  <2>3. \A v \in Void : Generic(1, "Void", v) \in GenericCommandObject_Game
    BY DEF Generic, GenericCommandObject_Game, Holding
  <2>4. \A v \in CreatePlayerResult :
          Generic(1, "CreatePlayerResult", v) \in GenericCommandObject_Game
    BY DEF Generic, GenericCommandObject_Game, Holding
  <2> QED BY <2>1, <2>2, <2>3, <2>4, GameReadsBack DEF Replying
<1>2. CASE T = PlaceDisc
  <2>1. T.CommandId = 2 /\ T.Request = "PlaceDiscRequest" /\ T.Response = "SuccessResult"
    BY <1>2 DEF PlaceDisc
  <2>2. Requests(T) \subseteq PlaceDiscRequest /\ Responses(T) = SuccessResult
    BY <1>2, CommandsAre
  <2>3. \A v \in PlaceDiscRequest :
          Generic(2, "PlaceDiscRequest", v) \in GenericCommandObject_Game
    BY DEF Generic, GenericCommandObject_Game, Holding
  <2>4. \A v \in SuccessResult : Generic(2, "SuccessResult", v) \in GenericCommandObject_Game
    BY DEF Generic, GenericCommandObject_Game, Holding
  <2> QED BY <2>1, <2>2, <2>3, <2>4, GameReadsBack DEF Replying
<1> QED BY <1>1, <1>2 DEF Commands

(* What is known of a request once it was sent.                            *)
LEMMA RequestsAre ==
  ASSUME CommandsTypeOK, NEW id \in DOMAIN requests
  PROVE  /\ requests[id].T \in Commands /\ requests[id].caller \in Workers
         /\ requests[id].request \in Requests(requests[id].T)
         /\ requests[id].resolved \in BOOLEAN
         /\ id \in Nat /\ Len(requests) \in Nat /\ DOMAIN requests = 1 .. Len(requests)
         /\ requests[id] = [ caller |-> requests[id].caller, T |-> requests[id].T,
                             request |-> requests[id].request,
                             resolved |-> requests[id].resolved ]
<1>1. requests \in Seq(Sent)
  BY DEF CommandsTypeOK
<1>2. Len(requests) \in Nat /\ DOMAIN requests = 1 .. Len(requests)
  BY <1>1
<1>3. requests[id] \in Sent
  BY <1>1, <1>2, ElementOfSeq
<1> QED BY <1>2, <1>3 DEF Sent

LEMMA IncomingAre ==
  ASSUME CommandsTypeOK, NEW i \in DOMAIN incoming
  PROVE  /\ incoming[i].worker \in Workers /\ incoming[i].request \in DOMAIN requests
         /\ i \in Nat /\ Len(incoming) \in Nat /\ DOMAIN incoming = 1 .. Len(incoming)
<1>1. incoming \in Seq(Received)
  BY DEF CommandsTypeOK
<1>2. Len(incoming) \in Nat /\ DOMAIN incoming = 1 .. Len(incoming)
  BY <1>1
<1>3. incoming[i] \in Received
  BY <1>1, <1>2, ElementOfSeq
<1> QED BY <1>2, <1>3 DEF Received

-----------------------------------------------------------------------------
(* Nothing that was sent, received, handled or answered is taken back.     *)
Grow ==
  /\ \A id \in DOMAIN requests :
       /\ id \in DOMAIN requests'
       /\ requests'[id].T = requests[id].T /\ requests'[id].request = requests[id].request
       /\ requests'[id].caller = requests[id].caller
       /\ requests[id].resolved => requests'[id].resolved
  /\ \A i \in DOMAIN incoming : i \in DOMAIN incoming' /\ incoming'[i] = incoming[i]
  /\ answers \subseteq answers' /\ handled \subseteq handled'

LEMMA RequestKeepsWaiting ==
  ASSUME CommandsTypeOK, Grow, NEW op, RequestWaits(op)
  PROVE  RequestWaits(op)'
<1>1. op.RequestId \in DOMAIN incoming /\ incoming[op.RequestId].request \in DOMAIN requests
  BY IncomingAre DEF RequestWaits
<1> QED BY <1>1 DEF RequestWaits, Grow, RequestOp, Asking

LEMMA AnswerStays ==
  ASSUME CommandsTypeOK, Grow, NEW i \in DOMAIN incoming, NEW a, AnswerTo(i, a)
  PROVE  AnswerTo(i, a)'
<1>1. incoming[i].request \in DOMAIN requests
  BY IncomingAre
<1> QED BY <1>1 DEF AnswerTo, Grow

LEMMA ResponseKeepsWaiting ==
  ASSUME CommandsTypeOK, Grow, NEW w \in Workers, NEW op, ResponseWaits(w, op)
  PROVE  ResponseWaits(w, op)'
<1>1. op.RequestId \in DOMAIN requests'
  BY DEF ResponseWaits, Grow
<1>2. requests'[op.RequestId].caller = w /\ requests'[op.RequestId].resolved
  BY DEF ResponseWaits, Grow
<1>3. op = ResponseOp(op.RequestId, op.StatusCode, op.Response)'
  BY DEF ResponseWaits, Grow, ResponseOp
<1>4. ASSUME NEW i \in DOMAIN incoming, incoming[i].request = op.RequestId,
             NEW call \in handled, call.RequestId = i,
             NEW a \in answers, AnswerTo(i, a), op.Response = << Replying(a.T, a.Response[1]) >>
      PROVE  \E j \in DOMAIN incoming' :
               /\ incoming'[j].request = op.RequestId
               /\ \E c \in handled' : c.RequestId = j
               /\ \E b \in answers' :
                    AnswerTo(j, b)' /\ op.Response = << Replying(b.T, b.Response[1]) >>
  <2>1. AnswerTo(i, a)'
    BY <1>4, AnswerStays
  <2> QED BY <1>4, <2>1 DEF Grow
<1> QED BY <1>1, <1>2, <1>3, <1>4 DEF ResponseWaits

(* What holds of every operation in the queues, when they get no others.   *)
LEMMA QueuesKeepHolding ==
  ASSUME CommandsTypeOK, Grow, QueuesHold,
         NEW w \in Workers, NEW op \in Waiting(w)
  PROVE  \/ op.op = "CommandRequest" /\ RequestWaits(op)'
         \/ op.op = "CommandResponse" /\ ResponseWaits(w, op)'
<1>1. CASE op.op = "CommandRequest" /\ RequestWaits(op)
  BY <1>1, RequestKeepsWaiting
<1>2. CASE op.op = "CommandResponse" /\ ResponseWaits(w, op)
  BY <1>2, ResponseKeepsWaiting
<1> QED BY <1>1, <1>2 DEF QueuesHold

-----------------------------------------------------------------------------
LEMMA WiderSeq ==
  ASSUME NEW S, NEW T, S \subseteq T, NEW s \in Seq(S)
  PROVE  s \in Seq(T)
<1>1. Len(s) \in Nat /\ \A i \in 1 .. Len(s) : s[i] \in T
  BY ElementOfSeq
<1>2. s = [ i \in 1 .. Len(s) |-> s[i] ]
  OBVIOUS
<1>3. s \in [ 1 .. Len(s) -> T ]
  BY <1>1, <1>2
<1> QED BY <1>1, <1>3, SeqDef

(* An operation more in a queue.                                           *)
LEMMA Enqueues ==
  ASSUME NEW w \in Workers, NEW op \in Ops, queue \in [ Workers -> Seq(Ops) ], Enqueue(w, op)
  PROVE  /\ queue' \in [ Workers -> Seq(Ops) ]
         /\ Waiting(w)' = Waiting(w) \cup {op}
         /\ \A v \in Workers : v # w => queue'[v] = queue[v]
         /\ queue'[w] = Append(queue[w], op)
<1>1. queue' = [ queue EXCEPT ![w] = Append(queue[w], op) ]
  BY DEF Enqueue
<1>2. queue[w] \in Seq(Ops) /\ Append(queue[w], op) \in Seq(Ops)
  BY AppendProperties
<1>3. queue' \in [ Workers -> Seq(Ops) ] /\ queue'[w] = Append(queue[w], op)
  BY <1>1, <1>2
<1>4. { Append(queue[w], op)[k] : k \in DOMAIN Append(queue[w], op) }
      = { queue[w][k] : k \in DOMAIN queue[w] } \cup {op}
  <2> DEFINE q == queue[w]  p == Append(queue[w], op)
  <2>1. /\ Len(q) \in Nat /\ Len(p) = Len(q) + 1
        /\ \A k \in 1 .. Len(q) : p[k] = q[k]
        /\ p[Len(q) + 1] = op
        /\ DOMAIN q = 1 .. Len(q) /\ DOMAIN p = 1 .. Len(q) + 1
    BY <1>2, AppendProperties
  <2> HIDE DEF p, q
  <2>2. ASSUME NEW k \in DOMAIN p PROVE p[k] \in { q[l] : l \in DOMAIN q } \cup {op}
    BY <2>1
  <2>3. ASSUME NEW k \in DOMAIN q PROVE \E l \in DOMAIN p : p[l] = q[k]
    BY <2>1
  <2>4. \E l \in DOMAIN p : p[l] = op
    BY <2>1
  <2>5. { p[k] : k \in DOMAIN p } = { q[k] : k \in DOMAIN q } \cup {op}
    BY <2>2, <2>3, <2>4
  <2> QED BY <2>5 DEF p, q
<1> QED BY <1>1, <1>3, <1>4 DEF Waiting

(* An operation less.                                                      *)
LEMMA Dequeues ==
  ASSUME NEW w \in Workers, queue \in [ Workers -> Seq(Ops) ], queue[w] # << >>,
         queue' = [ queue EXCEPT ![w] = Tail(@) ]
  PROVE  /\ queue' \in [ Workers -> Seq(Ops) ]
         /\ Head(queue[w]) \in Waiting(w) /\ Head(queue[w]) = queue[w][1]
         /\ \A v \in Workers : Waiting(v)' \subseteq Waiting(v)
         /\ \A v \in Workers : v # w => queue'[v] = queue[v]
         /\ Len(queue[w]) \in Nat \ {0} /\ DOMAIN queue[w] = 1 .. Len(queue[w])
         /\ DOMAIN queue'[w] = 1 .. Len(queue[w]) - 1
         /\ \A k \in DOMAIN queue'[w] : k + 1 \in DOMAIN queue[w] /\ queue'[w][k] = queue[w][k + 1]
<1> DEFINE q == queue[w]
<1>1. q \in Seq(Ops) /\ queue'[w] = Tail(q)
  OBVIOUS
<1>2. /\ Tail(q) \in Seq(Ops) /\ Len(q) \in Nat \ {0} /\ DOMAIN q = 1 .. Len(q)
      /\ DOMAIN Tail(q) = 1 .. Len(q) - 1
      /\ \A k \in 1 .. Len(q) - 1 : Tail(q)[k] = q[k + 1]
      /\ Head(q) = q[1]
  BY <1>1
<1>3. queue' \in [ Workers -> Seq(Ops) ]
  BY <1>1, <1>2
<1>4. \A k \in DOMAIN queue'[w] : k + 1 \in DOMAIN q /\ queue'[w][k] = q[k + 1]
  BY <1>1, <1>2
<1>5. \A v \in Workers : Waiting(v)' \subseteq Waiting(v)
  <2> SUFFICES ASSUME NEW v \in Workers, NEW k \in DOMAIN queue'[v]
               PROVE  \E l \in DOMAIN queue[v] : queue[v][l] = queue'[v][k]
    BY DEF Waiting
  <2>1. CASE v = w
    BY <1>4, <2>1
  <2>2. CASE v # w
    BY <2>2
  <2> QED BY <2>1, <2>2
<1>6. Head(q) \in Waiting(w)
  BY <1>2 DEF Waiting
<1> QED BY <1>1, <1>2, <1>3, <1>4, <1>5, <1>6

LEMMA RequestOpTyped ==
  ASSUME NEW id \in Nat, NEW generic \in GenericCommandObject_Game
  PROVE  RequestOp(id, << generic >>) \in Ops
BY DEF RequestOp, Ops, Handles, Options

LEMMA ResponseOpTyped ==
  ASSUME CommandsTypeOK, NEW id \in DOMAIN requests, NEW handle \in Handles,
         NEW status \in Failures \cup { "kSuccess", "kApplicationError" }
  PROVE  ResponseOp(id, status, handle) \in Ops
<1>1. id \in Nat /\ requests[id].T.CommandId \in { 1, 2 }
  BY RequestsAre, CommandsAre
<1> QED BY <1>1 DEF ResponseOp, Ops

-----------------------------------------------------------------------------
(* What the actions do to the requests and to what was received.           *)

LEMMA SendGrows ==
  ASSUME CommandsTypeOK, NEW w \in Workers, NEW T \in Commands, NEW request \in Requests(T),
         requests' = Append(requests, [ caller |-> w, T |-> T, request |-> request,
                                        resolved |-> FALSE ])
  PROVE  /\ requests' \in Seq(Sent)
         /\ DOMAIN requests' = DOMAIN requests \cup { Len(requests) + 1 }
         /\ Len(requests) \in Nat /\ Len(requests) + 1 \notin DOMAIN requests
         /\ \A id \in DOMAIN requests : requests'[id] = requests[id]
         /\ requests'[Len(requests) + 1] =
              [ caller |-> w, T |-> T, request |-> request, resolved |-> FALSE ]
<1> DEFINE sent == [ caller |-> w, T |-> T, request |-> request, resolved |-> FALSE ]
<1>1. requests \in Seq(Sent) /\ sent \in Sent
  BY DEF CommandsTypeOK, Sent
<1> HIDE DEF sent
<1>2. requests' = Append(requests, sent)
  BY DEF sent
<1>3. /\ Append(requests, sent) \in Seq(Sent)
      /\ Len(Append(requests, sent)) = Len(requests) + 1
      /\ \A id \in 1 .. Len(requests) : Append(requests, sent)[id] = requests[id]
      /\ Append(requests, sent)[Len(requests) + 1] = sent
  BY <1>1, AppendProperties
<1>4. /\ Len(requests) \in Nat /\ DOMAIN requests = 1 .. Len(requests)
      /\ DOMAIN requests' = 1 .. Len(requests) + 1
  BY <1>1, <1>2, <1>3
<1> QED BY <1>2, <1>3, <1>4 DEF sent

LEMMA ResolveGrows ==
  ASSUME CommandsTypeOK, NEW id \in DOMAIN requests,
         requests' = [ requests EXCEPT ![id].resolved = TRUE ]
  PROVE  /\ requests' \in Seq(Sent)
         /\ DOMAIN requests' = DOMAIN requests
         /\ \A r \in DOMAIN requests :
              /\ requests'[r].T = requests[r].T /\ requests'[r].request = requests[r].request
              /\ requests'[r].caller = requests[r].caller
              /\ r # id => requests'[r] = requests[r]
         /\ requests'[id].resolved
<1>1. requests \in Seq(Sent) /\ requests[id] \in Sent
  BY RequestsAre, ElementOfSeq DEF CommandsTypeOK
<1>2. PICK T \in Commands : requests[id] \in [ caller : Workers, T : {T},
                                             request : Requests(T), resolved : BOOLEAN ]
  BY <1>1 DEF Sent
<1> DEFINE sent == [ requests[id] EXCEPT !.resolved = TRUE ]
<1>3. /\ sent \in Sent /\ sent.resolved /\ sent.T = requests[id].T
      /\ sent.request = requests[id].request /\ sent.caller = requests[id].caller
  BY <1>2 DEF Sent
<1>4. requests' = [ requests EXCEPT ![id] = sent ]
  OBVIOUS
<1> HIDE DEF sent
<1>5. requests' \in Seq(Sent) /\ DOMAIN requests' = DOMAIN requests
  <2>1. id \in 1 .. Len(requests)
    BY <1>1
  <2>2. [ requests EXCEPT ![id] = sent ] \in Seq(Sent)
    BY <1>1, <1>3, <2>1, ExceptSeq
  <2> QED BY <1>4, <2>2
<1>6. requests'[id] = sent /\ \A r \in DOMAIN requests : r # id => requests'[r] = requests[r]
  BY <1>4
<1> QED BY <1>3, <1>5, <1>6

LEMMA ReceiveGrows ==
  ASSUME CommandsTypeOK, NEW w \in Workers, NEW id \in DOMAIN requests',
         DOMAIN requests \subseteq DOMAIN requests',
         incoming' = Append(incoming, [ worker |-> w, request |-> id ])
  PROVE  /\ incoming' \in Seq(Received')
         /\ DOMAIN incoming' = DOMAIN incoming \cup { Len(incoming) + 1 }
         /\ Len(incoming) \in Nat /\ Len(incoming) + 1 \notin DOMAIN incoming
         /\ \A i \in DOMAIN incoming : incoming'[i] = incoming[i]
         /\ incoming'[Len(incoming) + 1] = [ worker |-> w, request |-> id ]
<1> DEFINE received == [ worker |-> w, request |-> id ]
<1>1. incoming \in Seq(Received) /\ Received \subseteq Received' /\ received \in Received'
  BY DEF CommandsTypeOK, Received
<1>2. incoming \in Seq(Received')
  BY <1>1, WiderSeq
<1> HIDE DEF received
<1>3. incoming' = Append(incoming, received)
  BY DEF received
<1>4. /\ Append(incoming, received) \in Seq(Received')
      /\ Len(Append(incoming, received)) = Len(incoming) + 1
      /\ \A i \in 1 .. Len(incoming) : Append(incoming, received)[i] = incoming[i]
      /\ Append(incoming, received)[Len(incoming) + 1] = received
  BY <1>1, <1>2, AppendProperties
<1>5. /\ Len(incoming) \in Nat /\ DOMAIN incoming = 1 .. Len(incoming)
      /\ DOMAIN incoming' = 1 .. Len(incoming) + 1
  BY <1>2, <1>3, <1>4
<1> QED BY <1>3, <1>4, <1>5 DEF received

-----------------------------------------------------------------------------
(* What stays true of what there is, as everything grows.                  *)

LEMMA StaysHandled ==
  ASSUME CommandsTypeOK, Grow, NEW call, Handled(call)
  PROVE  Handled(call)'
<1>1. call.RequestId \in DOMAIN incoming /\ incoming[call.RequestId].request \in DOMAIN requests
  BY IncomingAre DEF Handled
<1> QED BY <1>1 DEF Handled, Grow

LEMMA StaysHeard ==
  ASSUME CommandsTypeOK, Grow, NEW call, Heard(call)
  PROVE  Heard(call)'
<1>1. /\ call.RequestId \in DOMAIN requests' /\ requests'[call.RequestId].resolved
      /\ call.T = requests'[call.RequestId].T
  BY DEF Heard, Grow
<1>2. ASSUME NEW i \in DOMAIN incoming, incoming[i].request = call.RequestId,
             NEW handling \in handled, handling.RequestId = i,
             NEW a \in answers, AnswerTo(i, a), call.Response = a.Response
      PROVE  \E j \in DOMAIN incoming' :
               /\ incoming'[j].request = call.RequestId
               /\ \E h \in handled' : h.RequestId = j
               /\ \E b \in answers' : AnswerTo(j, b)' /\ call.Response = b.Response
  <2>1. AnswerTo(i, a)'
    BY <1>2, AnswerStays
  <2> QED BY <1>2, <2>1 DEF Grow
<1> QED BY <1>1, <1>2 DEF Heard

LEMMA KeepsTravelling ==
  ASSUME CommandsTypeOK, Grow, NEW m, AnswerTravels(m)
  PROVE  AnswerTravels(m)'
<1>1. ASSUME NEW a \in answers, AnswerTo(m.id, a),
             m.root = Serialize_Game("response", Replying(a.T, a.Response[1]))
      PROVE  \E b \in answers' :
               AnswerTo(m.id, b)' /\ m.root = Serialize_Game("response", Replying(b.T, b.Response[1]))
  <2>1. AnswerTo(m.id, a)'
    BY <1>1, AnswerStays DEF AnswerTravels
  <2> QED BY <1>1, <2>1 DEF Grow
<1> QED BY <1>1 DEF AnswerTravels, Grow

(* A request that is not received by the step travels on.                  *)
LEMMA RequestTravelsOn ==
  ASSUME Grow, NEW m, RequestTravels(m),
         \A i \in DOMAIN incoming' : i \in DOMAIN incoming \/ incoming'[i].request # m.id
  PROVE  RequestTravels(m)'
<1>1. m.id \in DOMAIN requests
  BY DEF RequestTravels
<1>2. Asking(m.id)' = Asking(m.id)
  BY <1>1 DEF Asking, Grow
<1> QED BY <1>1, <1>2 DEF RequestTravels, Grow

(* The steps that enqueue a request leave each request one answer, and so  *)
(* do those that enqueue the first response to one.                        *)
LEMMA EnqueuingKeepsOneAnswer ==
  ASSUME CommandsTypeOK, QueuesHold, CallsHold, AnsweredOnce, heard' = heard,
         NEW w \in Workers, NEW op \in Ops, Enqueue(w, op),
         op.op = "CommandResponse" =>
           /\ op.RequestId \in DOMAIN requests /\ ~ requests[op.RequestId].resolved
  PROVE  AnsweredOnce'
<1>1. /\ queue \in [ Workers -> Seq(Ops) ]
      /\ \A v \in Workers : v # w => queue'[v] = queue[v]
      /\ queue'[w] = Append(queue[w], op)
  BY Enqueues DEF CommandsTypeOK
<1> DEFINE q == queue[w]
<1>2. /\ Len(q) \in Nat /\ DOMAIN q = 1 .. Len(q)
      /\ DOMAIN queue'[w] = 1 .. Len(q) + 1
      /\ \A k \in 1 .. Len(q) : queue'[w][k] = q[k]
      /\ queue'[w][Len(q) + 1] = op
  BY <1>1, AppendProperties
<1>3. ASSUME NEW k \in DOMAIN q, q[k].op = "CommandResponse", op.op = "CommandResponse"
      PROVE  q[k].RequestId # op.RequestId
  BY <1>3 DEF QueuesHold, Waiting, ResponseWaits
<1>4. op.op = "CommandResponse" => \A call \in heard : call.RequestId # op.RequestId
  BY DEF CallsHold, Heard
<1> SUFFICES ASSUME NEW v \in Workers, NEW k \in DOMAIN queue'[v],
                    queue'[v][k].op = "CommandResponse"
             PROVE  /\ \A call \in heard : call.RequestId # queue'[v][k].RequestId
                    /\ \A l \in DOMAIN queue'[v] :
                         /\ queue'[v][l].op = "CommandResponse"
                         /\ queue'[v][l].RequestId = queue'[v][k].RequestId
                         => k = l
  BY DEF AnsweredOnce
<1>5. CASE v # w
  BY <1>1, <1>5 DEF AnsweredOnce
<1>6. CASE v = w
  <2> HIDE DEF q
  <2>0. \A i \in DOMAIN q : q[i].op = "CommandResponse" =>
          /\ \A call \in heard : call.RequestId # q[i].RequestId
          /\ \A l \in DOMAIN q :
               q[l].op = "CommandResponse" /\ q[l].RequestId = q[i].RequestId => i = l
    BY DEF AnsweredOnce, q
  <2>1. CASE k \in 1 .. Len(q)
    BY <1>2, <1>3, <1>6, <2>0, <2>1
  <2>2. CASE k = Len(q) + 1
    BY <1>2, <1>3, <1>4, <1>6, <2>2
  <2> QED BY <1>2, <1>6, <2>1, <2>2
<1> QED BY <1>5, <1>6

-----------------------------------------------------------------------------
(* The actions, one by one.                                                *)

LEMMA SendKeepsIInv ==
  ASSUME IInv, NEW w \in Workers, NEW T \in Commands, NEW request \in Requests(T),
         NEW allow_short_circuit \in BOOLEAN,
         SendCommandRequest(w, T, request, allow_short_circuit)
  PROVE  IInv'
<1>a. PICK generic : generic = Generic(T.CommandId, T.Request, request)
  OBVIOUS
<1>b. PICK id : id = Len(requests) + 1
  OBVIOUS
<1> USE DEF IInv
<1>1. /\ requests' \in Seq(Sent)
      /\ DOMAIN requests' = DOMAIN requests \cup { id }
      /\ Len(requests) \in Nat /\ id \notin DOMAIN requests
      /\ \A r \in DOMAIN requests : requests'[r] = requests[r]
      /\ requests'[id] = [ caller |-> w, T |-> T, request |-> request, resolved |-> FALSE ]
  BY <1>b, SendGrows DEF SendCommandRequest
<1>2. generic = Asking(id)' /\ generic \in GenericCommandObject_Game
  <2>1. generic \in GenericCommandObject_Game
    BY <1>a, CommandsReadBack
  <2>2. requests'[id].T = T /\ requests'[id].request = request
    BY <1>1
  <2> QED BY <1>a, <2>1, <2>2 DEF Asking
<1>3. UNCHANGED << authority, handled, answers, heard >>
  BY DEF SendCommandRequest
<1>4. \A i \in DOMAIN incoming : incoming[i].request # id
  BY <1>1, IncomingAre
<1>5. CASE ~ (allow_short_circuit /\ authority = w)
  <2>a. PICK m : m = [ kind |-> "request", id |-> id,
                       root |-> Serialize_Game("request", generic) ]
    OBVIOUS
  <2>b. m.kind = "request" /\ m.id = id
    BY <2>a
  <2>1. network' = network \cup { m } /\ UNCHANGED << incoming, queue >>
    BY <1>5, <1>a, <1>b, <2>a DEF SendCommandRequest
  <2>2. Grow
    BY <1>1, <1>3, <2>1 DEF Grow
  <2>3. Received \subseteq Received'
    BY <1>1 DEF Received
  <2>4. incoming' \in Seq(Received')
    BY <2>1, <2>3, WiderSeq DEF CommandsTypeOK
  <2>5. CommandsTypeOK'
    BY <1>1, <1>3, <2>1, <2>4, <2>b DEF CommandsTypeOK
  <2>6. RequestsTravel'
    <3>1. m = [ kind |-> "request", id |-> m.id,
                root |-> Serialize_Game("request", Asking(m.id)) ]'
      BY <1>2, <2>a, <2>b DEF Asking
    <3>2. RequestTravels(m)'
      BY <1>1, <1>4, <2>1, <2>b, <3>1 DEF RequestTravels
    <3>3. ASSUME NEW n \in network, n.kind = "request" PROVE RequestTravels(n)'
      BY <2>1, <2>2, <3>3, RequestTravelsOn DEF RequestsTravel
    <3>4. \A n \in network' : n \in network \/ n = m
      BY <2>1
    <3> QED BY <3>2, <3>3, <3>4 DEF RequestsTravel
  <2>7. ReceivedOnce'
    BY <2>1 DEF ReceivedOnce
  <2>8. AnswersTravel'
    <3>1. \A n \in network : n.kind # "request" => AnswerTravels(n)'
      BY <2>2, KeepsTravelling DEF AnswersTravel
    <3> QED BY <2>1, <2>b, <3>1 DEF AnswersTravel
  <2>9. QueuesHold'
    BY <2>1, <2>2, QueuesKeepHolding DEF QueuesHold, Waiting
  <2>10. AnsweredOnce'
    BY <1>3, <2>1 DEF AnsweredOnce
  <2>11. CallsHold'
    BY <1>3, <2>2, StaysHandled, StaysHeard DEF CallsHold
  <2> QED BY <2>5, <2>6, <2>7, <2>8, <2>9, <2>10, <2>11
<1>6. CASE allow_short_circuit /\ authority = w
  <2>1. /\ incoming' = Append(incoming, [ worker |-> w, request |-> id ])
        /\ Enqueue(w, RequestOp(Len(incoming) + 1, << generic >>))
        /\ network' = network
    BY <1>6, <1>a, <1>b DEF SendCommandRequest
  <2>2. /\ incoming' \in Seq(Received')
        /\ DOMAIN incoming' = DOMAIN incoming \cup { Len(incoming) + 1 }
        /\ Len(incoming) \in Nat /\ Len(incoming) + 1 \notin DOMAIN incoming
        /\ \A i \in DOMAIN incoming : incoming'[i] = incoming[i]
        /\ incoming'[Len(incoming) + 1] = [ worker |-> w, request |-> id ]
    BY <1>1, <2>1, ReceiveGrows
  <2>3. PICK op : op = RequestOp(Len(incoming) + 1, << generic >>)
    OBVIOUS
  <2>4. op \in Ops
    BY <1>2, <2>2, <2>3, RequestOpTyped
  <2>5. Enqueue(w, op)
    BY <2>1, <2>3
  <2>6. /\ queue' \in [ Workers -> Seq(Ops) ]
        /\ Waiting(w)' = Waiting(w) \cup {op}
        /\ \A v \in Workers : v # w => queue'[v] = queue[v]
    BY <2>4, <2>5, Enqueues DEF CommandsTypeOK
  <2>7. Grow
    BY <1>1, <1>3, <2>2 DEF Grow
  <2>8. CommandsTypeOK'
    BY <1>1, <1>3, <2>1, <2>2, <2>6 DEF CommandsTypeOK
  <2>9. RequestsTravel'
    <3>1. \A n \in network : n.kind = "request" => n.id # id
      BY <1>1 DEF RequestsTravel, RequestTravels
    <3>2. \A n \in network : n.kind = "request" => RequestTravels(n)'
      BY <2>2, <2>7, <3>1, RequestTravelsOn DEF RequestsTravel
    <3> QED BY <2>1, <3>2 DEF RequestsTravel
  <2>10. ReceivedOnce'
    BY <1>4, <2>2 DEF ReceivedOnce
  <2>11. AnswersTravel'
    BY <2>1, <2>7, KeepsTravelling DEF AnswersTravel
  <2>12. QueuesHold'
    <3>1. op.RequestId = Len(incoming) + 1 /\ op.op = "CommandRequest"
      BY <2>3 DEF RequestOp
    <3>2. incoming'[op.RequestId].request = id /\ op.RequestId \in DOMAIN incoming'
      BY <2>2, <3>1
    <3>3. op = RequestOp(op.RequestId, << Asking(incoming[op.RequestId].request) >>)'
      BY <1>2, <2>3, <3>1, <3>2 DEF RequestOp, Asking
    <3>4. RequestWaits(op)'
      BY <3>2, <3>3 DEF RequestWaits
    <3>5. ASSUME NEW v \in Workers, NEW o \in Waiting(v)'
          PROVE  o \in Waiting(v) \/ o = op
      BY <2>6 DEF Waiting
    <3> QED BY <2>7, <3>1, <3>4, <3>5, QueuesKeepHolding DEF QueuesHold
  <2>13. AnsweredOnce'
    <3>1. op.op # "CommandResponse"
      BY <2>3 DEF RequestOp
    <3> QED BY <1>3, <2>4, <2>5, <3>1, EnqueuingKeepsOneAnswer
  <2>14. CallsHold'
    BY <1>3, <2>7, StaysHandled, StaysHeard DEF CallsHold
  <2> QED BY <2>8, <2>9, <2>10, <2>11, <2>12, <2>13, <2>14
<1> QED BY <1>5, <1>6

(* A step that leaves the queues, the requests and what was received.      *)
LEMMA QuietStepKeepsIInv ==
  ASSUME IInv, UNCHANGED << requests, incoming, queue, handled, heard >>,
         authority' \in Workers \cup {Nobody},
         answers \subseteq answers',
         \A m \in network' : m \in network \/ (m.kind # "request" /\ AnswerTravels(m)')
  PROVE  IInv'
<1> USE DEF IInv
<1>1. Grow
  BY DEF Grow
<1>2. CommandsTypeOK'
  BY DEF CommandsTypeOK, Received, AnswerTravels
<1>3. RequestsTravel'
  <2>1. ASSUME NEW m \in network, m.kind = "request" PROVE RequestTravels(m)'
    BY <1>1, <2>1, RequestTravelsOn DEF RequestsTravel
  <2> QED BY <2>1 DEF RequestsTravel
<1>4. ReceivedOnce'
  BY DEF ReceivedOnce
<1>5. AnswersTravel'
  <2>1. ASSUME NEW m \in network, m.kind # "request" PROVE AnswerTravels(m)'
    BY <1>1, <2>1, KeepsTravelling DEF AnswersTravel
  <2> QED BY <2>1 DEF AnswersTravel
<1>6. QueuesHold'
  BY <1>1, QueuesKeepHolding DEF QueuesHold, Waiting
<1>7. AnsweredOnce'
  BY DEF AnsweredOnce
<1>8. CallsHold'
  BY <1>1, StaysHandled, StaysHeard DEF CallsHold
<1> QED BY <1>2, <1>3, <1>4, <1>5, <1>6, <1>7, <1>8

(* A request that was answered leaves the queue once.                      *)
LEMMA DequeuingKeepsOneAnswer ==
  ASSUME CommandsTypeOK, QueuesHold, AnsweredOnce,
         NEW w \in Workers, queue[w] # << >>, queue' = [ queue EXCEPT ![w] = Tail(@) ],
         NEW op, op = Head(queue[w]),
         \A call \in heard' : call \in heard \/
           (op.op = "CommandResponse" /\ call.RequestId = op.RequestId)
  PROVE  AnsweredOnce'
<1>1. /\ op \in Waiting(w) /\ op = queue[w][1] /\ 1 \in DOMAIN queue[w]
      /\ \A v \in Workers : v # w => queue'[v] = queue[v]
      /\ \A k \in DOMAIN queue'[w] :
           /\ k \in Nat \ {0} /\ k + 1 \in DOMAIN queue[w]
           /\ queue'[w][k] = queue[w][k + 1]
  <2>1. queue \in [ Workers -> Seq(Ops) ]
    BY DEF CommandsTypeOK
  <2>2. /\ Head(queue[w]) \in Waiting(w) /\ Head(queue[w]) = queue[w][1]
        /\ \A v \in Workers : v # w => queue'[v] = queue[v]
        /\ Len(queue[w]) \in Nat \ {0} /\ DOMAIN queue[w] = 1 .. Len(queue[w])
        /\ DOMAIN queue'[w] = 1 .. Len(queue[w]) - 1
        /\ \A k \in DOMAIN queue'[w] :
             k + 1 \in DOMAIN queue[w] /\ queue'[w][k] = queue[w][k + 1]
    BY <2>1, Dequeues
  <2>3. \A k \in DOMAIN queue'[w] : k \in Nat \ {0}
    BY <2>2
  <2> QED BY <2>2, <2>3
<1> SUFFICES ASSUME NEW v \in Workers, NEW k \in DOMAIN queue'[v],
                    queue'[v][k].op = "CommandResponse"
             PROVE  /\ \A call \in heard' : call.RequestId # queue'[v][k].RequestId
                    /\ \A l \in DOMAIN queue'[v] :
                         /\ queue'[v][l].op = "CommandResponse"
                         /\ queue'[v][l].RequestId = queue'[v][k].RequestId
                         => k = l
  BY DEF AnsweredOnce
<1>2. CASE v = w
  <2>1. op.op = "CommandResponse" => op.RequestId # queue[w][k + 1].RequestId
    BY <1>1, <1>2 DEF AnsweredOnce
  <2>2. \A call \in heard' : call.RequestId # queue[w][k + 1].RequestId
    BY <1>1, <1>2, <2>1 DEF AnsweredOnce
  <2>3. ASSUME NEW l \in DOMAIN queue'[w], queue'[w][l].op = "CommandResponse",
               queue'[w][l].RequestId = queue'[w][k].RequestId
        PROVE  k = l
    <3>1. k + 1 = l + 1
      BY <1>1, <1>2, <2>3 DEF AnsweredOnce
    <3> QED BY <1>1, <1>2, <3>1
  <2> QED BY <1>1, <1>2, <2>2, <2>3
<1>3. CASE v # w
  <2>1. queue'[v] = queue[v]
    BY <1>1, <1>3
  <2>2. queue[v][k] \in Waiting(v)
    BY <2>1 DEF Waiting
  <2>3. op.op = "CommandResponse" => op.RequestId # queue[v][k].RequestId
    BY <1>1, <1>3, <2>1, <2>2 DEF QueuesHold, ResponseWaits
  <2>4. \A call \in heard : call.RequestId # queue[v][k].RequestId
    BY <2>1 DEF AnsweredOnce
  <2>5. \A l \in DOMAIN queue[v] :
          queue[v][l].op = "CommandResponse" /\ queue[v][l].RequestId = queue[v][k].RequestId
          => k = l
    BY <2>1 DEF AnsweredOnce
  <2> QED BY <2>1, <2>3, <2>4, <2>5
<1> QED BY <1>2, <1>3

(* The callback that a request is for is called with it.                   *)
LEMMA RequestIsHandled ==
  ASSUME IInv, NEW w \in Workers, ProcessRequest(w)
  PROVE  \E call :
           /\ Handled(call) /\ handled' = handled \cup { call }
           /\ UNCHANGED << requests, incoming, heard >>
<1> USE DEF IInv
<1>a. PICK op : op = Head(queue[w])
  OBVIOUS
<1>b. PICK sent : sent = requests[incoming[op.RequestId].request]
  OBVIOUS
<1>1. /\ queue[w] # << >> /\ op.op = "CommandRequest"
      /\ queue' = [ queue EXCEPT ![w] = Tail(@) ]
      /\ UNCHANGED << requests, incoming, heard >>
      /\ handled' = handled \cup UNION { OnCommandRequest(T, op) : T \in Commands }
  BY <1>a DEF ProcessRequest
<1>2. queue \in [ Workers -> Seq(Ops) ]
  BY DEF CommandsTypeOK
<1>3. op \in Waiting(w)
  BY <1>a, <1>1, <1>2, Dequeues
<1>4. RequestWaits(op)
  BY <1>1, <1>3 DEF QueuesHold
<1>5. PICK call : call = [ RequestId |-> op.RequestId, T |-> sent.T, Request |-> sent.request ]
  OBVIOUS
<1>6. UNION { OnCommandRequest(T, op) : T \in Commands } = { call }
  <2>1. op.RequestId \in DOMAIN incoming /\ incoming[op.RequestId].request \in DOMAIN requests
    BY <1>4, IncomingAre DEF RequestWaits
  <2>2. sent.T \in Commands
    BY <1>b, <2>1, RequestsAre
  <2>3. op.Request[1] = Generic(sent.T.CommandId, sent.T.Request, sent.request)
    BY <1>b, <1>4 DEF RequestWaits, RequestOp, Asking
  <2>4. /\ op.Request[1].CommandId = sent.T.CommandId
        /\ data(op.Request[1], sent.T.Request) = sent.request
    BY <2>3, DataOfGeneric DEF Generic
  <2>5. OnCommandRequest(sent.T, op) = { call }
    BY <1>5, <2>4 DEF OnCommandRequest
  <2>6. \A T \in Commands : T # sent.T => OnCommandRequest(T, op) = {}
    BY <2>2, <2>4, CommandsAre DEF OnCommandRequest
  <2> QED BY <2>2, <2>5, <2>6
<1>7. Handled(call)
  BY <1>b, <1>4, <1>5 DEF Handled, RequestWaits
<1> QED BY <1>1, <1>6, <1>7

LEMMA ProcessRequestKeepsIInv ==
  ASSUME IInv, NEW w \in Workers, ProcessRequest(w)
  PROVE  IInv'
<1> USE DEF IInv
<1>a. PICK op : op = Head(queue[w])
  OBVIOUS
<1>1. /\ queue[w] # << >> /\ op.op = "CommandRequest"
      /\ queue' = [ queue EXCEPT ![w] = Tail(@) ]
      /\ UNCHANGED << authority, requests, incoming, network, answers, heard >>
  BY <1>a DEF ProcessRequest
<1>2. queue \in [ Workers -> Seq(Ops) ]
  BY DEF CommandsTypeOK
<1>3. /\ queue' \in [ Workers -> Seq(Ops) ]
      /\ \A v \in Workers : Waiting(v)' \subseteq Waiting(v)
  BY <1>1, <1>2, Dequeues
<1>4. PICK call : Handled(call) /\ handled' = handled \cup { call }
  BY RequestIsHandled
<1>5. Grow
  BY <1>1, <1>4 DEF Grow
<1>6. CommandsTypeOK'
  BY <1>1, <1>3, <1>4 DEF CommandsTypeOK, Received, Handled
<1>7. RequestsTravel' /\ ReceivedOnce'
  BY <1>1, <1>5, RequestTravelsOn DEF RequestsTravel, ReceivedOnce
<1>8. AnswersTravel'
  BY <1>1, <1>5, KeepsTravelling DEF AnswersTravel
<1>9. QueuesHold'
  BY <1>3, <1>5, QueuesKeepHolding DEF QueuesHold
<1>10. AnsweredOnce'
  <2>1. CommandsTypeOK /\ QueuesHold /\ AnsweredOnce
    OBVIOUS
  <2> QED BY <1>a, <1>1, <2>1, DequeuingKeepsOneAnswer
<1>11. CallsHold'
  BY <1>1, <1>4, <1>5, StaysHandled, StaysHeard DEF CallsHold
<1> QED BY <1>6, <1>7, <1>8, <1>9, <1>10, <1>11

(* The callback that a response is for is called with it.                  *)
LEMMA ResponseIsHeard ==
  ASSUME IInv, NEW w \in Workers, ProcessResponse(w)
  PROVE  \E call :
           /\ Heard(call) /\ heard' = heard \cup { call }
           /\ call.RequestId = Head(queue[w]).RequestId
           /\ \A c \in heard : c.RequestId # call.RequestId
           /\ UNCHANGED << requests, incoming, handled >>
<1> USE DEF IInv
<1>a. PICK op : op = Head(queue[w])
  OBVIOUS
<1>1. /\ queue[w] # << >> /\ op.op = "CommandResponse"
      /\ queue' = [ queue EXCEPT ![w] = Tail(@) ]
      /\ UNCHANGED << requests, incoming, handled >>
      /\ heard' = heard \cup UNION { OnCommandResponse(T, op) : T \in Commands }
  BY <1>a DEF ProcessResponse
<1>2. queue \in [ Workers -> Seq(Ops) ]
  BY DEF CommandsTypeOK
<1>3. op \in Waiting(w) /\ op = queue[w][1] /\ 1 \in DOMAIN queue[w]
  <2>1. /\ Head(queue[w]) \in Waiting(w) /\ Head(queue[w]) = queue[w][1]
        /\ Len(queue[w]) \in Nat \ {0} /\ DOMAIN queue[w] = 1 .. Len(queue[w])
    BY <1>1, <1>2, Dequeues
  <2>2. 1 \in DOMAIN queue[w]
    BY <2>1
  <2> QED BY <1>a, <2>1, <2>2
<1>4. ResponseWaits(w, op)
  BY <1>1, <1>3 DEF QueuesHold
<1>b. PICK U : U = requests[op.RequestId].T
  OBVIOUS
<1>5. PICK call :
        call = [ RequestId |-> op.RequestId, T |-> U, StatusCode |-> op.StatusCode,
                 Response |-> IF op.Response = << >> THEN << >>
                              ELSE << data(op.Response[1], U.Response) >> ]
  OBVIOUS
<1>6. UNION { OnCommandResponse(T, op) : T \in Commands } = { call }
  <2>1. U \in Commands /\ op.CommandId = U.CommandId
    BY <1>4, <1>b, RequestsAre DEF ResponseWaits, ResponseOp
  <2>2. OnCommandResponse(U, op) = { call }
    BY <1>5, <2>1 DEF OnCommandResponse
  <2>3. \A T \in Commands : T # U => OnCommandResponse(T, op) = {}
    BY <2>1, CommandsAre DEF OnCommandResponse
  <2> QED BY <2>1, <2>2, <2>3
<1>8. Heard(call)
  <2>1. /\ call.RequestId \in DOMAIN requests /\ requests[call.RequestId].resolved
        /\ call.T = requests[call.RequestId].T
        /\ call.RequestId = op.RequestId /\ call.StatusCode = op.StatusCode
    BY <1>4, <1>5, <1>b DEF ResponseWaits
  <2>2. CASE op.StatusCode = "kSuccess"
    <3>1. PICK i \in DOMAIN incoming :
            /\ incoming[i].request = op.RequestId
            /\ \E c \in handled : c.RequestId = i
            /\ \E a \in answers :
                 AnswerTo(i, a) /\ op.Response = << Replying(a.T, a.Response[1]) >>
      BY <1>4, <2>2 DEF ResponseWaits
    <3>2. PICK a \in answers :
            AnswerTo(i, a) /\ op.Response = << Replying(a.T, a.Response[1]) >>
      BY <3>1
    <3>3. PICK response : a.Response = << response >>
      BY <3>2 DEF AnswerTo
    <3>4. a.T = U
      BY <1>b, <3>1, <3>2 DEF AnswerTo
    <3>5. op.Response = << Generic(U.CommandId, U.Response, response) >>
      BY <3>2, <3>3, <3>4 DEF Replying
    <3>6. data(Generic(U.CommandId, U.Response, response), U.Response) = response
      BY DataOfGeneric
    <3>7. call.Response = a.Response
      BY <1>5, <3>3, <3>5, <3>6
    <3> QED BY <2>1, <2>2, <3>1, <3>2, <3>7 DEF Heard
  <2>3. CASE op.StatusCode # "kSuccess"
    <3>1. call.Response = << >>
      BY <1>4, <1>5, <2>3 DEF ResponseWaits
    <3> QED BY <2>1, <2>3, <3>1 DEF Heard
  <2> QED BY <2>2, <2>3
<1>9. \A c \in heard : c.RequestId # call.RequestId
  BY <1>1, <1>3, <1>5 DEF AnsweredOnce
<1> QED BY <1>a, <1>1, <1>5, <1>6, <1>8, <1>9

LEMMA ProcessResponseKeepsIInv ==
  ASSUME IInv, NEW w \in Workers, ProcessResponse(w)
  PROVE  IInv'
<1> USE DEF IInv
<1>a. PICK op : op = Head(queue[w])
  OBVIOUS
<1>1. /\ queue[w] # << >> /\ op.op = "CommandResponse"
      /\ queue' = [ queue EXCEPT ![w] = Tail(@) ]
      /\ UNCHANGED << authority, requests, incoming, network, handled, answers >>
  BY <1>a DEF ProcessResponse
<1>2. queue \in [ Workers -> Seq(Ops) ]
  BY DEF CommandsTypeOK
<1>3. /\ queue' \in [ Workers -> Seq(Ops) ]
      /\ \A v \in Workers : Waiting(v)' \subseteq Waiting(v)
  BY <1>1, <1>2, Dequeues
<1>4. PICK call :
        /\ Heard(call) /\ heard' = heard \cup { call }
        /\ call.RequestId = op.RequestId
        /\ \A c \in heard : c.RequestId # call.RequestId
  BY <1>a, ResponseIsHeard
<1>5. Grow
  BY <1>1 DEF Grow
<1>6. CommandsTypeOK'
  BY <1>1, <1>3, <1>4 DEF CommandsTypeOK, Received, Heard
<1>7. RequestsTravel' /\ ReceivedOnce'
  BY <1>1, <1>5, RequestTravelsOn DEF RequestsTravel, ReceivedOnce
<1>8. AnswersTravel'
  BY <1>1, <1>5, KeepsTravelling DEF AnswersTravel
<1>9. QueuesHold'
  BY <1>3, <1>5, QueuesKeepHolding DEF QueuesHold
<1>10. AnsweredOnce'
  <2>1. \A c \in heard' : c \in heard \/ c.RequestId = op.RequestId
    BY <1>4
  <2>2. CommandsTypeOK /\ QueuesHold /\ AnsweredOnce
    OBVIOUS
  <2> QED BY <1>a, <1>1, <2>1, <2>2, DequeuingKeepsOneAnswer
<1>11. CallsHold'
  <2>1. \A c, again \in heard' : c.RequestId = again.RequestId => c = again
    BY <1>4 DEF CallsHold
  <2> QED BY <1>1, <1>4, <1>5, <2>1, StaysHandled, StaysHeard DEF CallsHold
<1> QED BY <1>6, <1>7, <1>8, <1>9, <1>10, <1>11

-----------------------------------------------------------------------------
LEMMA AnswerKeepsIInv ==
  ASSUME IInv, NEW call \in handled, NEW response \in Responses(call.T),
         SendCommandResponse(call, response) \/ SendCommandFailure(call)
  PROVE  IInv'
<1> USE DEF IInv
<1>1. /\ call.RequestId \in DOMAIN incoming
      /\ call.T = requests[incoming[call.RequestId].request].T
  BY DEF CallsHold, Handled
<1>2. UNCHANGED << authority, requests, incoming, queue, handled, heard >>
      /\ answers \subseteq answers' /\ authority \in Workers \cup {Nobody}
  BY DEF SendCommandResponse, SendCommandFailure, CommandsTypeOK
<1>3. CASE SendCommandResponse(call, response)
  <2>1. PICK a : a = [ RequestId |-> call.RequestId, T |-> call.T, Response |-> << response >> ]
    OBVIOUS
  <2>2. PICK m : m = [ kind |-> "response", id |-> call.RequestId,
                       root |-> Serialize_Game("response",
                                  Generic(call.T.CommandId, call.T.Response, response)) ]
    OBVIOUS
  <2>3. a \in answers' /\ network' = network \cup { m }
    BY <1>3, <2>1, <2>2 DEF SendCommandResponse
  <2>4. AnswerTo(m.id, a)'
    BY <1>1, <1>2, <2>1, <2>2 DEF AnswerTo
  <2>5. m.root = Serialize_Game("response", Replying(a.T, a.Response[1]))
    BY <2>1, <2>2 DEF Replying
  <2>6. m.kind = "response" /\ m.id = call.RequestId
    BY <2>2
  <2>7. AnswerTravels(m)'
    BY <1>1, <1>2, <2>3, <2>4, <2>5, <2>6 DEF AnswerTravels
  <2> QED BY <1>2, <2>3, <2>6, <2>7, QuietStepKeepsIInv
<1>4. CASE SendCommandFailure(call)
  <2>1. PICK m : m = [ kind |-> "failure", id |-> call.RequestId ]
    OBVIOUS
  <2>2. m.kind = "failure" /\ m.id = call.RequestId
    BY <2>1
  <2>3. network' = network \cup { m }
    BY <1>4, <2>1 DEF SendCommandFailure
  <2>4. AnswerTravels(m)'
    BY <1>1, <1>2, <2>2 DEF AnswerTravels
  <2> QED BY <1>2, <2>2, <2>3, <2>4, QuietStepKeepsIInv
<1> QED BY <1>3, <1>4

LEMMA ChangesKeepIInv ==
  ASSUME IInv,
         \/ ChangeAuthority
         \/ \E m \in network : IgnoreAnswer(m) \/ LoseRequest(m)
         \/ UNCHANGED vars
  PROVE  IInv'
<1>1. authority \in Workers \cup {Nobody}
  BY DEF IInv, CommandsTypeOK
<1>2. CASE ChangeAuthority
  <2>1. /\ UNCHANGED << requests, incoming, network, queue, handled, answers, heard >>
        /\ authority' \in Workers \cup {Nobody}
    BY <1>2 DEF ChangeAuthority
  <2> QED BY <2>1, QuietStepKeepsIInv
<1>3. CASE \E m \in network : IgnoreAnswer(m) \/ LoseRequest(m)
  <2>1. /\ UNCHANGED << authority, requests, incoming, queue, handled, answers, heard >>
        /\ network' \subseteq network
    BY <1>3 DEF IgnoreAnswer, LoseRequest
  <2> QED BY <1>1, <2>1, QuietStepKeepsIInv
<1>4. CASE UNCHANGED vars
  <2>1. UNCHANGED << authority, requests, incoming, network, queue, handled, answers, heard >>
    BY <1>4 DEF vars
  <2> QED BY <1>1, <2>1, QuietStepKeepsIInv
<1> QED BY <1>2, <1>3, <1>4

LEMMA DeliverRequestKeepsIInv ==
  ASSUME IInv, NEW m \in network, DeliverRequest(m)
  PROVE  IInv'
<1> USE DEF IInv
<1>a. PICK id : id = m.id
  OBVIOUS
<1>1. /\ m.kind = "request" /\ authority \in Workers
      /\ network' = network \ {m}
      /\ incoming' = Append(incoming, [ worker |-> authority, request |-> id ])
      /\ UNCHANGED << authority, requests, handled, answers, heard >>
  BY <1>a DEF DeliverRequest, CommandsTypeOK
<1>b. PICK w \in Workers : w = authority
  BY <1>1
<1>2. RequestTravels(m) /\ id \in DOMAIN requests
  BY <1>a, <1>1 DEF RequestsTravel, RequestTravels
<1>3. PICK generic : generic = Asking(id)
  OBVIOUS
<1>4. /\ generic \in GenericCommandObject_Game
      /\ Deserialize_Game("request", m.root) = << generic >>
  <2>1. m.root = Serialize_Game("request", generic)
    BY <1>a, <1>2, <1>3 DEF RequestTravels
  <2>2. requests[id].T \in Commands /\ requests[id].request \in Requests(requests[id].T)
    BY <1>2, RequestsAre
  <2> QED BY <1>3, <2>1, <2>2, CommandsReadBack DEF Asking
<1>5. PICK op : op = RequestOp(Len(incoming) + 1, << generic >>)
  OBVIOUS
<1>6. /\ incoming' \in Seq(Received')
      /\ DOMAIN incoming' = DOMAIN incoming \cup { Len(incoming) + 1 }
      /\ Len(incoming) \in Nat /\ Len(incoming) + 1 \notin DOMAIN incoming
      /\ \A i \in DOMAIN incoming : incoming'[i] = incoming[i]
      /\ incoming'[Len(incoming) + 1] = [ worker |-> w, request |-> id ]
  BY <1>1, <1>b, <1>2, ReceiveGrows
<1>7. op \in Ops
  BY <1>4, <1>5, <1>6, RequestOpTyped
<1>8. Enqueue(w, op)
  BY <1>b, <1>4, <1>5 DEF DeliverRequest
<1>9. /\ queue' \in [ Workers -> Seq(Ops) ]
      /\ Waiting(w)' = Waiting(w) \cup {op}
      /\ \A v \in Workers : v # w => queue'[v] = queue[v]
  BY <1>7, <1>8, Enqueues DEF CommandsTypeOK
<1>10. Grow
  BY <1>1, <1>6 DEF Grow
<1>11. CommandsTypeOK'
  BY <1>1, <1>6, <1>9 DEF CommandsTypeOK
<1>12. RequestsTravel'
  <2>1. ASSUME NEW n \in network, n.kind = "request", n # m PROVE n.id # id
    BY <1>a, <1>1, <1>2, <2>1 DEF RequestsTravel, RequestTravels
  <2>2. ASSUME NEW n \in network, n.kind = "request", n # m PROVE RequestTravels(n)'
    <3>1. RequestTravels(n)
      BY <2>2 DEF RequestsTravel
    <3>2. \A i \in DOMAIN incoming' : i \in DOMAIN incoming \/ incoming'[i].request # n.id
      BY <1>6, <2>1, <2>2
    <3> QED BY <1>10, <3>1, <3>2, RequestTravelsOn
  <2> QED BY <1>1, <2>2 DEF RequestsTravel
<1>13. ReceivedOnce'
  <2>1. \A i \in DOMAIN incoming : incoming[i].request # id
    BY <1>a, <1>2 DEF RequestTravels
  <2> QED BY <1>6, <2>1 DEF ReceivedOnce
<1>14. AnswersTravel'
  BY <1>1, <1>10, KeepsTravelling DEF AnswersTravel
<1>15. QueuesHold'
  <2>1. op.RequestId = Len(incoming) + 1 /\ op.op = "CommandRequest"
    BY <1>5 DEF RequestOp
  <2>2. incoming'[op.RequestId].request = id /\ op.RequestId \in DOMAIN incoming'
    BY <1>6, <2>1
  <2>3. generic = Asking(id)'
    BY <1>1, <1>3 DEF Asking
  <2>4. op = RequestOp(op.RequestId, << Asking(incoming[op.RequestId].request) >>)'
    BY <1>5, <2>1, <2>2, <2>3 DEF RequestOp, Asking
  <2>5. RequestWaits(op)'
    BY <2>2, <2>4 DEF RequestWaits
  <2>6. ASSUME NEW v \in Workers, NEW o \in Waiting(v)'
        PROVE  o \in Waiting(v) \/ o = op
    BY <1>9 DEF Waiting
  <2> QED BY <1>10, <2>1, <2>5, <2>6, QueuesKeepHolding DEF QueuesHold
<1>16. AnsweredOnce'
  <2>1. op.op # "CommandResponse"
    BY <1>5 DEF RequestOp
  <2> QED BY <1>1, <1>7, <1>8, <2>1, EnqueuingKeepsOneAnswer
<1>17. CallsHold'
  BY <1>1, <1>10, StaysHandled, StaysHeard DEF CallsHold
<1> QED BY <1>11, <1>12, <1>13, <1>14, <1>15, <1>16, <1>17

(* A call is resolved, with a response or without.                         *)
LEMMA ResolvingKeepsIInv ==
  ASSUME IInv, NEW id \in DOMAIN requests, ~ requests[id].resolved,
         NEW status \in Failures \cup { "kSuccess", "kApplicationError" },
         NEW handle \in Handles, Resolve(id, status, handle),
         UNCHANGED << authority, incoming, handled, answers, heard >>,
         network' \subseteq network,
         IF status = "kSuccess"
         THEN \E i \in DOMAIN incoming :
                /\ incoming[i].request = id
                /\ \E call \in handled : call.RequestId = i
                /\ \E a \in answers :
                     AnswerTo(i, a) /\ handle = << Replying(a.T, a.Response[1]) >>
         ELSE handle = << >>
  PROVE  IInv'
<1> USE DEF IInv
<1>1. /\ requests' \in Seq(Sent)
      /\ DOMAIN requests' = DOMAIN requests
      /\ \A r \in DOMAIN requests :
           /\ requests'[r].T = requests[r].T /\ requests'[r].request = requests[r].request
           /\ requests'[r].caller = requests[r].caller
           /\ r # id => requests'[r] = requests[r]
      /\ requests'[id].resolved
  BY ResolveGrows DEF Resolve
<1>2. PICK w \in Workers : w = requests[id].caller
  BY RequestsAre
<1>3. PICK op : op = ResponseOp(id, status, handle)
  OBVIOUS
<1>4. op \in Ops
  BY <1>3, ResponseOpTyped
<1>5. Enqueue(w, op)
  BY <1>2, <1>3 DEF Resolve
<1>6. /\ queue' \in [ Workers -> Seq(Ops) ]
      /\ Waiting(w)' = Waiting(w) \cup {op}
      /\ \A v \in Workers : v # w => queue'[v] = queue[v]
  BY <1>4, <1>5, Enqueues DEF CommandsTypeOK
<1>7. Grow
  BY <1>1 DEF Grow
<1>8. CommandsTypeOK'
  <2>1. Received' = Received
    BY <1>1 DEF Received
  <2> QED BY <1>1, <1>6, <2>1 DEF CommandsTypeOK
<1>9. RequestsTravel' /\ ReceivedOnce'
  BY <1>7, RequestTravelsOn DEF RequestsTravel, ReceivedOnce
<1>10. AnswersTravel'
  BY <1>7, KeepsTravelling DEF AnswersTravel
<1>11. QueuesHold'
  <2>1. op.RequestId = id /\ op.op = "CommandResponse" /\ op.StatusCode = status
        /\ op.Response = handle /\ op.CommandId = requests[id].T.CommandId
    BY <1>3 DEF ResponseOp
  <2>2. op = ResponseOp(op.RequestId, op.StatusCode, op.Response)'
    BY <1>1, <1>3, <2>1 DEF ResponseOp
  <2>3. status = "kSuccess" =>
          \E i \in DOMAIN incoming' :
            /\ incoming'[i].request = id
            /\ \E call \in handled' : call.RequestId = i
            /\ \E a \in answers' :
                 AnswerTo(i, a)' /\ handle = << Replying(a.T, a.Response[1]) >>
    BY <1>7, AnswerStays
  <2>4. ResponseWaits(w, op)'
    BY <1>1, <1>2, <2>1, <2>2, <2>3 DEF ResponseWaits
  <2>5. ASSUME NEW v \in Workers, NEW o \in Waiting(v)'
        PROVE  o \in Waiting(v) \/ (o = op /\ v = w)
    BY <1>6 DEF Waiting
  <2> QED BY <1>7, <2>1, <2>4, <2>5, QueuesKeepHolding DEF QueuesHold
<1>12. AnsweredOnce'
  <2>1. op.RequestId = id
    BY <1>3 DEF ResponseOp
  <2> QED BY <1>4, <1>5, <2>1, EnqueuingKeepsOneAnswer
<1>13. CallsHold'
  BY <1>7, StaysHandled, StaysHeard DEF CallsHold
<1> QED BY <1>8, <1>9, <1>10, <1>11, <1>12, <1>13

LEMMA DeliverAnswerKeepsIInv ==
  ASSUME IInv, NEW m \in network, DeliverAnswer(m)
  PROVE  IInv'
<1> USE DEF IInv
<1>1. AnswerTravels(m)
  BY DEF DeliverAnswer, AnswersTravel
<1>2. PICK id \in DOMAIN requests : id = incoming[m.id].request
  BY <1>1, IncomingAre DEF AnswerTravels
<1>3. /\ ~ requests[id].resolved /\ network' \subseteq network
      /\ UNCHANGED << authority, incoming, handled, answers, heard >>
  BY <1>2 DEF DeliverAnswer, Outstanding
<1>4. CASE m.kind = "response"
  <2>1. PICK a \in answers :
          AnswerTo(m.id, a) /\ m.root = Serialize_Game("response", Replying(a.T, a.Response[1]))
    BY <1>1, <1>4 DEF AnswerTravels
  <2>2. PICK handle : handle = << Replying(a.T, a.Response[1]) >>
    OBVIOUS
  <2>3. handle \in Handles /\ Deserialize_Game("response", m.root) = handle
    <3>1. requests[id].T \in Commands /\ a.T = requests[id].T
      BY <1>2, <2>1, RequestsAre DEF AnswerTo
    <3>2. PICK response \in Responses(a.T) : a.Response = << response >>
      BY <2>1 DEF AnswerTo
    <3>3. LET generic == Replying(a.T, response)
          IN  /\ Deserialize_Game("response", Serialize_Game("response", generic)) = << generic >>
              /\ generic \in GenericCommandObject_Game
      BY <3>1, <3>2, CommandsReadBack
    <3>4. a.Response[1] = response
      BY <3>2
    <3> QED BY <2>1, <2>2, <3>3, <3>4 DEF Handles, Options
  <2>4. Resolve(id, "kSuccess", handle)
    BY <1>2, <1>4, <2>3 DEF DeliverAnswer
  <2>5. \E i \in DOMAIN incoming :
          /\ incoming[i].request = id
          /\ \E call \in handled : call.RequestId = i
          /\ \E b \in answers : AnswerTo(i, b) /\ handle = << Replying(b.T, b.Response[1]) >>
    BY <1>1, <1>2, <2>1, <2>2 DEF AnswerTravels
  <2>6. PICK status \in Failures \cup { "kSuccess", "kApplicationError" } : status = "kSuccess"
    OBVIOUS
  <2>7. Resolve(id, status, handle)
    BY <2>4, <2>6
  <2> QED BY <1>3, <2>3, <2>5, <2>6, <2>7, ResolvingKeepsIInv
<1>5. CASE m.kind = "failure"
  <2>1. PICK status \in Failures \cup { "kSuccess", "kApplicationError" } :
          status = "kApplicationError"
    OBVIOUS
  <2>2. PICK handle \in Handles : handle = << >>
    BY DEF Handles, Options
  <2>3. Resolve(id, status, handle)
    BY <1>2, <1>5, <2>1, <2>2 DEF DeliverAnswer
  <2>4. status # "kSuccess"
    BY <2>1
  <2> QED BY <1>3, <2>2, <2>3, <2>4, ResolvingKeepsIInv
<1> QED BY <1>1, <1>4, <1>5 DEF AnswerTravels

LEMMA FailKeepsIInv ==
  ASSUME IInv, NEW id \in DOMAIN requests, Fail(id)
  PROVE  IInv'
<1>1. PICK status \in Failures : Resolve(id, status, << >>)
  BY DEF Fail
<1>2. status # "kSuccess" /\ status \in Failures \cup { "kSuccess", "kApplicationError" }
  OBVIOUS
<1>3. PICK handle \in Handles : handle = << >>
  BY DEF Handles, Options
<1>4. /\ ~ requests[id].resolved /\ network' \subseteq network
      /\ UNCHANGED << authority, incoming, handled, answers, heard >>
  BY DEF Fail, Outstanding
<1>5. Resolve(id, status, handle)
  BY <1>1, <1>3
<1> QED BY <1>2, <1>3, <1>4, <1>5, ResolvingKeepsIInv

-----------------------------------------------------------------------------
LEMMA InitIsIInv ==
  Init => IInv
<1> SUFFICES ASSUME Init PROVE IInv
  OBVIOUS
<1>1. /\ requests = << >> /\ incoming = << >> /\ network = {} /\ handled = {}
      /\ answers = {} /\ heard = {} /\ queue = [ w \in Workers |-> << >> ]
      /\ authority \in Workers \cup {Nobody}
  BY DEF Init
<1>2. << >> \in Seq(Sent) /\ << >> \in Seq(Received) /\ << >> \in Seq(Ops)
  OBVIOUS
<1>3. CommandsTypeOK
  BY <1>1, <1>2 DEF CommandsTypeOK
<1>4. \A w \in Workers : Waiting(w) = {} /\ DOMAIN queue[w] = {}
  BY <1>1 DEF Waiting
<1> QED BY <1>1, <1>3, <1>4 DEF IInv, RequestsTravel, ReceivedOnce, AnswersTravel, QueuesHold,
           AnsweredOnce, CallsHold

LEMMA NextKeepsIInv ==
  IInv /\ [Next]_vars => IInv'
<1> SUFFICES ASSUME IInv, [Next]_vars PROVE IInv'
  OBVIOUS
<1>1. ASSUME NEW w \in Workers, NEW T \in Commands, NEW allow_short_circuit \in BOOLEAN,
             NEW request \in Requests(T),
             SendCommandRequest(w, T, request, allow_short_circuit)
      PROVE  IInv'
  BY <1>1, SendKeepsIInv
<1>2. ASSUME NEW w \in Workers, ProcessRequest(w) PROVE IInv'
  BY <1>2, ProcessRequestKeepsIInv
<1>3. ASSUME NEW w \in Workers, ProcessResponse(w) PROVE IInv'
  BY <1>3, ProcessResponseKeepsIInv
<1>4. ASSUME NEW call \in handled, NEW response \in Responses(call.T),
             SendCommandResponse(call, response)
      PROVE  IInv'
  BY <1>4, AnswerKeepsIInv
<1>5. ASSUME NEW call \in handled, SendCommandFailure(call) PROVE IInv'
  <2>1. call.T \in Commands
    BY IncomingAre, RequestsAre DEF IInv, CallsHold, Handled
  <2>2. Responses(call.T) # {}
    <3>1. [ success |-> TRUE ] \in SuccessResult
      BY DEF SuccessResult
    <3>2. [ black |-> TRUE ] \in CreatePlayerResult
      BY DEF CreatePlayerResult
    <3> QED BY <2>1, <3>1, <3>2, CommandsAre DEF Commands
  <2> QED BY <1>5, <2>2, AnswerKeepsIInv
<1>6. CASE ChangeAuthority \/ (\E m \in network : IgnoreAnswer(m) \/ LoseRequest(m))
           \/ UNCHANGED vars
  BY <1>6, ChangesKeepIInv
<1>7. ASSUME NEW m \in network, DeliverRequest(m) PROVE IInv'
  BY <1>7, DeliverRequestKeepsIInv
<1>8. ASSUME NEW m \in network, DeliverAnswer(m) PROVE IInv'
  BY <1>8, DeliverAnswerKeepsIInv
<1>9. ASSUME NEW id \in DOMAIN requests, Fail(id) PROVE IInv'
  BY <1>9, FailKeepsIInv
<1> QED BY <1>1, <1>2, <1>3, <1>4, <1>5, <1>6, <1>7, <1>8, <1>9 DEF Next, SpatialOS

LEMMA AlwaysIInv == Spec => []IInv
BY InitIsIInv, NextKeepsIInv, PTL DEF Spec

-----------------------------------------------------------------------------
(* Every id that the queues, the messages and the callbacks carry is that  *)
(* of a request that was sent or received (RequestId, worker.h).           *)
THEOREM CommandsTypeCorrect == Spec => []CommandsTypeOK
<1>1. IInv => CommandsTypeOK
  BY DEF IInv
<1> QED BY <1>1, AlwaysIInv, PTL

(* OnCommandRequest never dereferences a null handle, and a response comes *)
(* with a handle if and only if its status says so (dispatcher.i.h,        *)
(* OnCommandRequest and OnCommandResponse).                                *)
THEOREM HandlesAreAlwaysThere == Spec => []HandlesAreThere
<1>1. IInv => HandlesAreThere
  <2> SUFFICES ASSUME IInv, NEW w \in Workers, NEW op \in Waiting(w)
               PROVE  IF op.op = "CommandRequest" THEN op.Request # << >>
                      ELSE op.Response # << >> <=> op.StatusCode = "kSuccess"
    BY DEF HandlesAreThere, Waiting
  <2>1. CASE op.op = "CommandRequest"
    BY <2>1 DEF IInv, QueuesHold, RequestWaits, RequestOp
  <2>2. CASE op.op # "CommandRequest"
    BY <2>2 DEF IInv, QueuesHold, ResponseWaits
  <2> QED BY <2>1, <2>2
<1> QED BY <1>1, AlwaysIInv, PTL

(* A callback for requests is called with what was sent to its command,    *)
(* once for each request (dispatcher.i.h, OnCommandRequest).               *)
THEOREM RequestsAlwaysArriveAsSent == Spec => []RequestsArriveAsSent
<1>1. IInv => RequestsArriveAsSent
  <2> SUFFICES ASSUME IInv PROVE RequestsArriveAsSent
    OBVIOUS
  <2>1. \A call \in handled : Handled(call)
    BY DEF IInv, CallsHold
  <2>2. ASSUME NEW call \in handled
        PROVE  LET sent == requests[incoming[call.RequestId].request]
               IN  call.T = sent.T /\ call.Request = sent.request
    BY <2>1 DEF Handled
  <2>3. ASSUME NEW call \in handled, NEW again \in handled,
               incoming[call.RequestId].request = incoming[again.RequestId].request
        PROVE  call = again
    <3>1. call.RequestId = again.RequestId
      BY <2>1, <2>3 DEF Handled, IInv, ReceivedOnce
    <3> QED BY <2>1, <3>1 DEF Handled
  <2> QED BY <2>2, <2>3 DEF RequestsArriveAsSent
<1> QED BY <1>1, AlwaysIInv, PTL

(* What a caller hears is what a handler answered to this very request,    *)
(* and it hears so once (dispatcher.i.h, OnCommandResponse).               *)
THEOREM AnswersAreAlwaysTheHandlers == Spec => []AnswersAreTheHandlers
<1>1. IInv => AnswersAreTheHandlers
  <2> SUFFICES ASSUME IInv PROVE AnswersAreTheHandlers
    OBVIOUS
  <2>1. ASSUME NEW call \in heard
        PROVE  /\ call.T = requests[call.RequestId].T
               /\ call.StatusCode = "kSuccess" =>
                    \E a \in answers : /\ incoming[a.RequestId].request = call.RequestId
                                       /\ a.T = call.T /\ a.Response = call.Response
    BY DEF IInv, CallsHold, Heard, AnswerTo
  <2>2. \A call, again \in heard : call.RequestId = again.RequestId => call = again
    BY DEF IInv, CallsHold
  <2> QED BY <2>1, <2>2 DEF AnswersAreTheHandlers
<1> QED BY <1>1, AlwaysIInv, PTL

-----------------------------------------------------------------------------
(* Every step of the implementation is a step of the calls, or none.       *)

LEMMA KeepsCalls ==
  ASSUME IInv, Grow, DOMAIN requests' = DOMAIN requests,
         UNCHANGED << handled, heard >>
  PROVE  UNCHANGED << Asked, Executed, Told >>
<1>1. \A call \in handled : incoming'[call.RequestId] = incoming[call.RequestId]
  BY DEF IInv, CallsHold, Handled, Grow
<1>2. Asked' = Asked
  BY DEF Asked, Grow
<1>3. Executed' = Executed
  BY <1>1 DEF Executed
<1>4. Told' = Told
  BY DEF Told
<1> QED BY <1>2, <1>3, <1>4

LEMMA SendAsks ==
  ASSUME IInv, NEW w \in Workers, NEW T \in Commands, NEW request \in Requests(T),
         NEW allow_short_circuit \in BOOLEAN,
         SendCommandRequest(w, T, request, allow_short_circuit)
  PROVE  Calls!Ask(T, request)
<1>1. /\ DOMAIN requests' = DOMAIN requests \cup { Len(requests) + 1 }
      /\ Len(requests) \in Nat /\ Len(requests) + 1 \notin DOMAIN requests
      /\ \A r \in DOMAIN requests : requests'[r] = requests[r]
      /\ requests'[Len(requests) + 1] =
           [ caller |-> w, T |-> T, request |-> request, resolved |-> FALSE ]
  BY SendGrows DEF SendCommandRequest, IInv
<1>2. Asked' = Append(Asked, [ kind |-> T, ask |-> request ])
  <2> DEFINE n == Len(requests)
             call(r) == [ kind |-> r.T, ask |-> r.request ]
  <2>1. requests \in Seq(Sent) /\ DOMAIN requests = 1 .. n
    BY DEF IInv, CommandsTypeOK
  <2>2. Asked = [ id \in 1 .. n |-> call(requests[id]) ]
    BY <2>1 DEF Asked
  <2>3. Asked' = [ id \in 1 .. n + 1 |-> call(requests'[id]) ]
    BY <1>1, <2>1 DEF Asked
  <2>4. \A id \in 1 .. n : requests'[id] = requests[id]
    BY <1>1, <2>1
  <2>5. call(requests'[n + 1]) = [ kind |-> T, ask |-> request ]
    BY <1>1
  <2> HIDE DEF call
  <2>6. Append([ id \in 1 .. n |-> call(requests[id]) ], [ kind |-> T, ask |-> request ])
        = [ id \in 1 .. n + 1 |-> call(requests'[id]) ]
    BY <1>1, <2>4, <2>5
  <2> QED BY <2>2, <2>3, <2>6
<1>3. \A call \in handled : incoming'[call.RequestId] = incoming[call.RequestId]
  <2>1. \A i \in DOMAIN incoming : incoming'[i] = incoming[i]
    <3>1. CASE UNCHANGED incoming
      BY <3>1
    <3>2. CASE incoming' = Append(incoming, [ worker |-> w, request |-> Len(requests) + 1 ])
      BY <1>1, <3>2, ReceiveGrows DEF IInv
    <3> QED BY <3>1, <3>2 DEF SendCommandRequest
  <2> QED BY <2>1 DEF IInv, CallsHold, Handled
<1>4. Executed' = Executed
  BY <1>3 DEF SendCommandRequest, Executed
<1>5. Told' = Told
  BY DEF SendCommandRequest, Told
<1> QED BY <1>2, <1>4, <1>5 DEF Calls!Ask

LEMMA ProcessRequestExecutes ==
  ASSUME IInv, NEW w \in Workers, ProcessRequest(w)
  PROVE  Calls!Next \/ UNCHANGED Calls!calls
<1>1. PICK call : /\ Handled(call) /\ handled' = handled \cup { call }
                  /\ UNCHANGED << requests, incoming, heard >>
  BY RequestIsHandled
<1>2. PICK id \in DOMAIN requests : id = incoming[call.RequestId].request
  BY <1>1, IncomingAre DEF IInv, Handled
<1>3. UNCHANGED << Asked, Told >>
  BY <1>1 DEF Asked, Told
<1>4. PICK e : e = [ id |-> id, kind |-> call.T, ask |-> call.Request ]
  OBVIOUS
<1>5. Executed' = Executed \cup { e }
  BY <1>1, <1>2, <1>4 DEF Executed
<1>6. id \in DOMAIN Asked /\ e = [ id |-> id, kind |-> Asked[id].kind, ask |-> Asked[id].ask ]
  BY <1>1, <1>2, <1>4 DEF Handled, Asked
<1>7. CASE call \in handled
  <2>1. UNCHANGED << Asked, Executed, Told >>
    BY <1>1, <1>3, <1>7 DEF Executed
  <2> QED BY <2>1 DEF Calls!calls
<1>8. CASE call \notin handled
  <2>1. ASSUME NEW other \in handled PROVE incoming[other.RequestId].request # id
    <3> SUFFICES ASSUME incoming[other.RequestId].request = id PROVE FALSE
      OBVIOUS
    <3>1. Handled(other)
      BY DEF IInv, CallsHold
    <3>2. other.RequestId = call.RequestId
      BY <1>1, <1>2, <3>1 DEF IInv, ReceivedOnce, Handled
    <3> QED BY <1>1, <1>8, <3>1, <3>2 DEF Handled
  <2>2. \A done \in Executed : done.id # id
    BY <2>1 DEF Executed
  <2>3. Calls!Execute(id)
    BY <1>3, <1>5, <1>6, <2>2 DEF Calls!Execute
  <2> QED BY <1>6, <2>3 DEF Calls!Next
<1> QED BY <1>7, <1>8

LEMMA ProcessResponseTells ==
  ASSUME IInv, NEW w \in Workers, ProcessResponse(w)
  PROVE  Calls!Next \/ UNCHANGED Calls!calls
<1>1. PICK call : /\ Heard(call) /\ heard' = heard \cup { call }
                  /\ \A c \in heard : c.RequestId # call.RequestId
                  /\ UNCHANGED << requests, incoming, handled >>
  BY ResponseIsHeard
<1>2. PICK id \in DOMAIN requests : id = call.RequestId
  BY <1>1 DEF Heard
<1>3. UNCHANGED << Asked, Executed >>
  BY <1>1 DEF Asked, Executed
<1>4. PICK t : t = [ id |-> id, kind |-> call.T, reply |-> call.Response ]
  OBVIOUS
<1>5. Told' = Told \cup { t } /\ \A told \in Told : told.id # id
  BY <1>1, <1>2, <1>4 DEF Told
<1>6. id \in DOMAIN Asked /\ Asked[id].kind = call.T
  BY <1>1, <1>2 DEF Asked, Heard
<1>7. CASE call.StatusCode = "kSuccess"
  <2>1. PICK i \in DOMAIN incoming :
          /\ incoming[i].request = id
          /\ \E handling \in handled : handling.RequestId = i
          /\ \E a \in answers : AnswerTo(i, a) /\ call.Response = a.Response
    BY <1>1, <1>2, <1>7 DEF Heard
  <2>2. \E e \in Executed : e.id = id
    <3>1. PICK handling \in handled : handling.RequestId = i
      BY <2>1
    <3>2. PICK e : e = [ id |-> incoming[handling.RequestId].request, kind |-> handling.T,
                         ask |-> handling.Request ]
      OBVIOUS
    <3>3. e \in Executed
      BY <3>2 DEF Executed
    <3> QED BY <2>1, <3>1, <3>2, <3>3
  <2>3. PICK reply \in Responses(call.T) : call.Response = << reply >>
    BY <1>1, <1>2, <2>1 DEF AnswerTo, Heard
  <2>4. Calls!Succeed(id, reply)
    BY <1>3, <1>4, <1>5, <1>6, <2>2, <2>3 DEF Calls!Succeed
  <2> QED BY <1>5, <1>6, <2>3, <2>4 DEF Calls!Next
<1>8. CASE call.StatusCode # "kSuccess"
  <2>1. call.Response = << >>
    BY <1>1, <1>8 DEF Heard
  <2>2. Calls!Fail(id)
    BY <1>3, <1>4, <1>5, <1>6, <2>1 DEF Calls!Fail
  <2> QED BY <1>5, <1>6, <2>2 DEF Calls!Next
<1> QED BY <1>7, <1>8

LEMMA StepsAreCalls ==
  ASSUME IInv, [Next]_vars
  PROVE  [Calls!Next]_(Calls!calls)
<1>1. ASSUME NEW w \in Workers, NEW T \in Commands, NEW allow_short_circuit \in BOOLEAN,
             NEW request \in Requests(T),
             SendCommandRequest(w, T, request, allow_short_circuit)
      PROVE  Calls!Next
  BY <1>1, SendAsks DEF Calls!Next
<1>2. ASSUME NEW w \in Workers, ProcessRequest(w) \/ ProcessResponse(w)
      PROVE  Calls!Next \/ UNCHANGED Calls!calls
  BY <1>2, ProcessRequestExecutes, ProcessResponseTells
<1>3. ASSUME UNCHANGED << requests, incoming, handled, heard >>
      PROVE  UNCHANGED Calls!calls
  BY <1>3 DEF Calls!calls, Asked, Executed, Told
<1>4. ASSUME NEW call \in handled, NEW response \in Responses(call.T),
             SendCommandResponse(call, response)
      PROVE  UNCHANGED Calls!calls
  BY <1>3, <1>4 DEF SendCommandResponse
<1>5. ASSUME NEW call \in handled, SendCommandFailure(call) PROVE UNCHANGED Calls!calls
  BY <1>3, <1>5 DEF SendCommandFailure
<1>6. CASE ChangeAuthority \/ (\E m \in network : IgnoreAnswer(m) \/ LoseRequest(m))
           \/ UNCHANGED vars
  BY <1>3, <1>6 DEF ChangeAuthority, IgnoreAnswer, LoseRequest, vars
<1>7. ASSUME NEW m \in network, DeliverRequest(m) PROVE UNCHANGED Calls!calls
  <2>1. m.id \in DOMAIN requests /\ authority \in Workers
    BY <1>7 DEF IInv, RequestsTravel, RequestTravels, DeliverRequest, CommandsTypeOK
  <2>2. \A i \in DOMAIN incoming : i \in DOMAIN incoming' /\ incoming'[i] = incoming[i]
    BY <1>7, <2>1, ReceiveGrows DEF IInv, DeliverRequest
  <2>3. Grow /\ UNCHANGED << requests, handled, heard >>
    BY <1>7, <2>2 DEF Grow, DeliverRequest
  <2> QED BY <2>3, KeepsCalls DEF Calls!calls
<1>8. ASSUME NEW id \in DOMAIN requests, requests' = [ requests EXCEPT ![id].resolved = TRUE ],
             UNCHANGED << incoming, handled, answers, heard >>
      PROVE  UNCHANGED Calls!calls
  <2>1. /\ DOMAIN requests' = DOMAIN requests
        /\ \A r \in DOMAIN requests :
             /\ requests'[r].T = requests[r].T /\ requests'[r].request = requests[r].request
             /\ requests'[r].caller = requests[r].caller
             /\ r # id => requests'[r] = requests[r]
        /\ requests'[id].resolved
    BY <1>8, ResolveGrows DEF IInv
  <2>2. Grow
    BY <1>8, <2>1 DEF Grow
  <2> QED BY <1>8, <2>1, <2>2, KeepsCalls DEF Calls!calls
<1>9. ASSUME NEW m \in network, DeliverAnswer(m) PROVE UNCHANGED Calls!calls
  <2>1. m.id \in DOMAIN incoming
    BY <1>9 DEF IInv, AnswersTravel, AnswerTravels, DeliverAnswer
  <2>2. incoming[m.id].request \in DOMAIN requests
    BY <2>1, IncomingAre DEF IInv
  <2> QED BY <1>8, <1>9, <2>2 DEF DeliverAnswer, Resolve
<1>10. ASSUME NEW id \in DOMAIN requests, Fail(id) PROVE UNCHANGED Calls!calls
  BY <1>8, <1>10 DEF Fail, Resolve
<1> QED BY <1>1, <1>2, <1>4, <1>5, <1>6, <1>7, <1>9, <1>10 DEF Next, SpatialOS

(* Commands implement remote calls: each is carried out at most once, on   *)
(* what was asked, and answered at most once, with what a handler answered *)
(* or with nothing (connection.i.h, dispatcher.i.h and the vtable of       *)
(* Game).                                                                  *)
THEOREM CommandsImplementRemoteCalls == Spec => CommandsAreRemoteCalls
<1>1. Init => Calls!Init
  <2> SUFFICES ASSUME Init PROVE Calls!Init
    OBVIOUS
  <2>1. Asked = << >>
    BY DEF Init, Asked
  <2>2. Executed = {} /\ Told = {}
    BY DEF Init, Executed, Told
  <2> QED BY <2>1, <2>2 DEF Calls!Init
<1>2. IInv /\ [Next]_vars => [Calls!Next]_(Calls!calls)
  BY StepsAreCalls
<1> QED BY <1>1, <1>2, AlwaysIInv, PTL DEF Spec, CommandsAreRemoteCalls, Calls!Spec
=============================================================================
