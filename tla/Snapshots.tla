------------------------------ MODULE Snapshots ------------------------------
(***************************************************************************)
(* Snapshot files: the streams of entities of worker.h (snapshot.i.h,      *)
(* extract.i.h, components.i.h), LoadSnapshot and SaveSnapshot on top of   *)
(* them, and the generator of this project (snapshots/main.cpp).  There is *)
(* one file, which outlives the programs that run one after the other and  *)
(* may be killed at any step.  The C library below is external: it may fail *)
(* to open a file, to write an entity (and then leave part of one behind), *)
(* to read one, and to write the end of the file when it closes it.        *)
(***************************************************************************)
EXTENDS Integers, Sequences, Functions

CONSTANTS
  Maps,             \* maps of entities a program may hold, entity ids to entities
  ReaderRegistry,   \* components of the registry of a program that reads
  Torn,             \* part of an entity in a file
  Null, NoFile, Nothing

WriterRegistry == { "Position", "Metadata", "EntityAcl", "Persistence",
                    "Color", "Game", "Player", "TurnTaker" }

ASSUME RegistryAssumption == ReaderRegistry \subseteq WriterRegistry

VARIABLES
  file,       \* the entities in it, and whether its end is marked
  program,    \* what the program that runs does
  entities,   \* its map: what it saves, or what it has loaded into
  stream,     \* its stream
  todo,       \* the entities still to be written
  errors,     \* the entities for which it was told of an error
  error,      \* whether LoadSnapshot or SaveSnapshot returned one
  read,       \* the variables that ReadEntity reads into
  before,     \* what the map held before LoadSnapshot
  saved       \* what was last saved there with success

vars == << file, program, entities, stream, todo, errors, error, read, before, saved >>

Empty == << >>
NewFile == [ entities |-> << >>, eof |-> FALSE ]
Fresh == [ id |-> 0, entity |-> Empty ]
Idle == { "idle", "saved", "loaded", "generated" }

Init ==
  /\ file = NoFile
  /\ program = "idle" /\ entities = Empty
  /\ stream = [ opened |-> FALSE, at |-> 0 ]
  /\ todo = {} /\ errors = {} /\ error = FALSE
  /\ read = Fresh /\ before = Empty
  /\ saved = Nothing

(* The process of a program starts.                                        *)
Start(what, map, ids, old) ==
  /\ program \in Idle
  /\ program' = what
  /\ entities' = map /\ todo' = ids /\ errors' = {} /\ error' = FALSE
  /\ read' = Fresh /\ before' = old

-----------------------------------------------------------------------------
(* The C library.                                                          *)

(* ..._Create: "If an error occurs, a pointer to a [stream] is still       *)
(* returned."                                                              *)
CreateOutput ==
  \E opened \in BOOLEAN :
    /\ stream' = [ opened |-> opened, at |-> 0 ]
    /\ file' = IF opened THEN NewFile ELSE file
    /\ saved' = IF opened THEN Nothing ELSE saved

CreateInput ==
  \E opened \in BOOLEAN :
    /\ opened => file # NoFile
    /\ stream' = [ opened |-> opened, at |-> 0 ]
    /\ UNCHANGED << file, saved >>

(* ..._WriteEntity and ..._GetError, for an entity whose components are    *)
(* given as handles: whether there is an error, and what it adds.          *)
Writing(id, handles) ==
  { [ failed |-> TRUE, adds |-> << >> ] } \cup
  IF stream.opened /\ Null \notin Range(handles)
  THEN { [ failed |-> FALSE, adds |-> << << id, handles >> >> ],
         [ failed |-> TRUE, adds |-> << Torn >> ] }
  ELSE {}

(* ..._HasNext: at the end of a file without a mark, and for a file that   *)
(* was not opened, nothing is said of it.                                  *)
HasNext ==
  IF ~stream.opened THEN BOOLEAN
  ELSE IF stream.at < Len(file.entities) THEN {TRUE}
  ELSE IF file.eof THEN {FALSE} ELSE BOOLEAN

(* ..._ReadEntity: the entity, or none when there is an error.             *)
Reading ==
  {Nothing} \cup
  IF stream.opened /\ stream.at < Len(file.entities)
  THEN {file.entities[stream.at + 1]} \ {Torn}
  ELSE {}

(* ..._Destroy: "to write the EOF and release resources".                  *)
DestroyOutput ==
  \E marked \in BOOLEAN :
    /\ marked => stream.opened
    /\ file' = IF marked THEN [ file EXCEPT !.eof = TRUE ] ELSE file
    /\ saved' = IF marked /\ errors = {} THEN entities ELSE saved

-----------------------------------------------------------------------------
(* worker::Entity, a map from component ids to data.                       *)

(* Entity::Add of several components, and emplace of entities: what is     *)
(* there stays as it is.                                                   *)
Add(map, more) ==
  [ k \in DOMAIN map \cup DOMAIN more |-> IF k \in DOMAIN map THEN map[k] ELSE more[k] ]

(* ExtractEntityComponents: a handle for each component, and null for one  *)
(* of which the registry knows nothing.                                    *)
ExtractEntityComponents(entity) ==
  [ c \in DOMAIN entity |-> IF c \in WriterRegistry THEN entity[c] ELSE Null ]

(* MoveSnapshotIntoEntity, of the components of which the registry knows.  *)
MoveSnapshotIntoEntity(handles, entity) ==
  Add(entity, [ c \in DOMAIN handles \cap ReaderRegistry |-> handles[c] ])

(* Fault: the entity is not reset.                                         *)
ReadIntoOldEntity(source, target) ==
  [ id |-> source[1], entity |-> MoveSnapshotIntoEntity(source[2], target.entity) ]

(* SnapshotInputStream::ReadEntity, when there was no error.               *)
ReadEntity(source, target) ==
  [ id |-> source[1], entity |-> MoveSnapshotIntoEntity(source[2], Empty) ]

-----------------------------------------------------------------------------
(* SaveSnapshot.                                                           *)

Save(map) ==
  /\ Start("saving", map, DOMAIN map, Empty)
  /\ CreateOutput

(* SnapshotOutputStream::WriteEntity.                                      *)
WriteEntity(id, entity) ==
  \E w \in Writing(id, ExtractEntityComponents(entity)) :
    /\ file' = IF w.adds = << >> THEN file
               ELSE [ file EXCEPT !.entities = @ \o w.adds ]
    /\ errors' = IF w.failed THEN errors \cup {id} ELSE errors
    /\ todo' = todo \ {id}

(* It returns, with the first error or when all is written; the stream     *)
(* goes, and nobody is told whether the end of the file was written.       *)
SaveReturns ==
  /\ program = "saving"
  /\ todo = {} \/ errors # {}
  /\ program' = "saved"
  /\ error' = (errors # {})
  /\ DestroyOutput
  /\ UNCHANGED << entities, stream, todo, errors, read, before >>

(* Fault: it goes on after an error, and returns what the last call did.   *)
SaveNextAnyway ==
  /\ program = "saving"
  /\ \E id \in todo : \E w \in Writing(id, ExtractEntityComponents(entities[id])) :
       /\ file' = IF w.adds = << >> THEN file
                  ELSE [ file EXCEPT !.entities = @ \o w.adds ]
       /\ errors' = IF w.failed THEN {id} ELSE {}
       /\ todo' = todo \ {id}
  /\ UNCHANGED << program, entities, stream, error, read, before, saved >>

(* The map is unordered.                                                   *)
SaveNext ==
  /\ program = "saving" /\ errors = {}
  /\ \E id \in todo : WriteEntity(id, entities[id])
  /\ UNCHANGED << program, entities, stream, error, read, before, saved >>

-----------------------------------------------------------------------------
(* The generator.                                                          *)
ExampleEntity ==
  [ c \in { "Position", "Metadata", "Persistence", "EntityAcl" } |-> "example" ]

ExampleEntities == [ id \in 1 .. 5 |-> ExampleEntity ]

(* A map is one of functions, and part of an entity is not an entity.      *)
ASSUME MapsAssumption ==
  \A map \in Maps \cup {ExampleEntities} :
    /\ map = [ id \in DOMAIN map |-> map[id] ]
    /\ \A id \in DOMAIN map : /\ map[id] = [ c \in DOMAIN map[id] |-> map[id][c] ]
                             /\ Torn # << id, map[id] >>

(* main(): there must be an argument, which is not looked at.  The name of *)
(* the file is "../../../snapshots/default.snapshot".                      *)
Generate ==
  /\ Start("generating", ExampleEntities, 1 .. 5, Empty)
  /\ CreateOutput

(* An error is printed, and the loop goes on with the next id.             *)
GenerateNext ==
  /\ program = "generating"
  /\ \E id \in todo :
       /\ \A other \in todo : id <= other
       /\ WriteEntity(id, ExampleEntity)
  /\ UNCHANGED << program, entities, stream, error, read, before, saved >>

GenerateReturns ==
  /\ program = "generating" /\ todo = {}
  /\ program' = "generated"
  /\ DestroyOutput
  /\ UNCHANGED << entities, stream, todo, errors, error, read, before >>

-----------------------------------------------------------------------------
(* LoadSnapshot.                                                           *)

Load(map) ==
  /\ Start("loading", map, {}, map)
  /\ CreateInput

(* emplace: what the map has, it keeps; what was read is moved from.       *)
LoadNext ==
  /\ program = "loading" /\ TRUE \in HasNext
  /\ \E source \in Reading \ {Nothing} :
       LET now == ReadEntity(source, read)
       IN  /\ entities' = Add(entities, [ id \in {now.id} |-> now.entity ])
           /\ read' = [ now EXCEPT !.entity = Empty ]
  /\ stream' = [ stream EXCEPT !.at = @ + 1 ]
  /\ UNCHANGED << file, program, todo, errors, error, before, saved >>

LoadReturns ==
  /\ program = "loading"
  /\ \/ FALSE \in HasNext /\ error' = FALSE
     \/ TRUE \in HasNext /\ Nothing \in Reading /\ error' = TRUE
  /\ program' = "loaded"
  /\ UNCHANGED << file, entities, stream, todo, errors, read, before, saved >>

-----------------------------------------------------------------------------
(* A program that reads a stream itself, always into the same variables.   *)

Open ==
  /\ Start("reading", Empty, {}, Empty)
  /\ CreateInput

(* With an error, nothing is read but the entity is reset.                 *)
ReadNext ==
  /\ program = "reading"
  /\ \E source \in Reading :
       /\ error' = (source = Nothing)
       /\ read' = IF error' THEN [ read EXCEPT !.entity = Empty ]
                  ELSE ReadEntity(source, read)
       /\ stream' = IF error' THEN stream ELSE [ stream EXCEPT !.at = @ + 1 ]
  /\ UNCHANGED << file, program, entities, todo, errors, before, saved >>

(* A program stops, at its end or before; the file stays.                  *)
Stop ==
  /\ program \notin Idle
  /\ program' = "idle"
  /\ UNCHANGED << file, entities, stream, todo, errors, error, read, before, saved >>

Next ==
  \/ \E map \in Maps : Save(map) \/ Load(map)
  \/ Generate
  \/ Open
  \/ SaveNext \/ SaveReturns
  \/ GenerateNext \/ GenerateReturns
  \/ LoadNext \/ LoadReturns
  \/ ReadNext
  \/ Stop

Spec == Init /\ [][Next]_vars

-----------------------------------------------------------------------------
(* What the registry of a program that reads lets through.                 *)
Known(entity) == Restrict(entity, DOMAIN entity \cap ReaderRegistry)

(* What was saved without an error, by SaveSnapshot or by the generator,   *)
(* and closed, is what is loaded, whatever has been in the file before;    *)
(* and what is loaded, or read, with an error at the end or without, are   *)
(* entities of the file as they were written, each with its own            *)
(* components.  Entities the map had are left alone.                       *)
LoadedIsWhatWasSaved ==
  LET Source(i) == [ id |-> file.entities[i][1], entity |-> Known(file.entities[i][2]) ]
  IN  /\ program = "loaded" /\ ~error /\ stream.opened /\ saved # Nothing =>
           entities = Add(before, [ id \in DOMAIN saved |-> Known(saved[id]) ])
      /\ program \in { "loading", "loaded" } =>
           /\ \A id \in DOMAIN before : entities[id] = before[id]
           /\ \A id \in DOMAIN entities \ DOMAIN before :
                \E i \in 1 .. stream.at : Source(i) = [ id |-> id, entity |-> entities[id] ]
      /\ program = "reading" /\ ~error /\ stream.at > 0 => read = Source(stream.at)

(* An entity that is to be written is in the file, once and as it is, or   *)
(* the program is told of an error; SaveSnapshot, which stops at the first *)
(* error, returns one exactly when an entity is missing.  (The generator   *)
(* prints its errors, and returns 0.)                                      *)
MissingIsReported ==
  program \in { "saving", "saved", "generating", "generated" } =>
    LET written == IF stream.opened THEN file.entities ELSE << >>
        there   == DOMAIN entities \ (todo \cup errors)
    IN  /\ Range(written) \ {Torn} = { << id, entities[id] >> : id \in there }
        /\ \A i, j \in 1 .. Len(written) :
             i # j /\ written[i] # Torn => written[i] # written[j]
        /\ program = "saved" => (error <=> there # DOMAIN entities)
=============================================================================
