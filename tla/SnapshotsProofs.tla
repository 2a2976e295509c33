-------------------------- MODULE SnapshotsProofs --------------------------
(***************************************************************************)
(* Proofs about snapshot files, for any maps of entities, any registry of  *)
(* the program that reads, and any number of programs one after the other, *)
(* with errors of the library and ends of programs at any step.            *)
(***************************************************************************)
EXTENDS Snapshots, TLAPS

USE MapsAssumption

Held == Maps \cup {ExampleEntities}

Entries == {Torn} \cup UNION { { << id, map[id] >> : id \in DOMAIN map } : map \in Held }

Files == [ entities : Seq(Entries), eof : BOOLEAN ]

(* What the programs have, as far as the proofs need it.                   *)
FilesOK ==
  /\ file \in Files \cup {NoFile}
  /\ stream \in [ opened : BOOLEAN, at : Nat ]
  /\ stream.opened => file \in Files /\ stream.at <= Len(file.entities)
  /\ ~stream.opened => stream.at = 0

Writers == { "saving", "saved", "generating", "generated" }

There == DOMAIN entities \ (todo \cup errors)

Pair(id, map) == << id, map[id] >>

(* A file has of a map the entities with these ids, each of them once.     *)
HasOnly(s, map, ids) ==
  \A i \in 1 .. Len(s) : s[i] # Torn => \E id \in ids : s[i] = Pair(id, map)

HasAll(s, map, ids) == \A id \in ids : \E i \in 1 .. Len(s) : s[i] = Pair(id, map)

HasOnce(s) == \A i, j \in 1 .. Len(s) : i # j /\ s[i] # Torn => s[i] # s[j]

Whole(s) == \A i \in 1 .. Len(s) : s[i] # Torn

WritersOK ==
  program \in Writers =>
    /\ entities \in Held /\ todo \subseteq DOMAIN entities
    /\ errors \subseteq DOMAIN entities /\ todo \cap errors = {}
    /\ stream.opened => /\ HasOnly(file.entities, entities, There)
                        /\ HasAll(file.entities, entities, There)
                        /\ HasOnce(file.entities)
                        /\ errors = {} => Whole(file.entities)
    /\ ~stream.opened => There = {}
    /\ program = "saved" => (todo = {} \/ errors # {}) /\ error = (errors # {})
    /\ program \in { "generating", "generated" } => entities = ExampleEntities
    /\ program \in { "saving", "generating" } /\ stream.opened => saved = Nothing

(* What was saved is what the file has, until a program opens it to write. *)
SavedOK ==
  saved # Nothing =>
    /\ file \in Files /\ Whole(file.entities)
    /\ HasOnly(file.entities, saved, DOMAIN saved)
    /\ HasAll(file.entities, saved, DOMAIN saved)

Source(i) == [ id |-> file.entities[i][1], entity |-> Known(file.entities[i][2]) ]

LoadersOK ==
  program \in { "loading", "loaded" } =>
    /\ before = [ id \in DOMAIN before |-> before[id] ]
    /\ entities = [ id \in DOMAIN entities |-> entities[id] ]
    /\ DOMAIN entities = DOMAIN before \cup { Source(i).id : i \in 1 .. stream.at }
    /\ \A id \in DOMAIN before : entities[id] = before[id]
    /\ \A id \in DOMAIN entities \ DOMAIN before :
         \E i \in 1 .. stream.at : Source(i) = [ id |-> id, entity |-> entities[id] ]
    /\ program = "loaded" /\ ~error /\ stream.opened => stream.at = Len(file.entities)

ReadersOK ==
  program = "reading" /\ ~error /\ stream.at > 0 => read = Source(stream.at)

IInv == FilesOK /\ WritersOK /\ SavedOK /\ LoadersOK /\ ReadersOK

-----------------------------------------------------------------------------
(* Files.                                                                  *)

LEMMA FileFields ==
  ASSUME NEW f \in Files
  PROVE  f.entities \in Seq(Entries) /\ Len(f.entities) \in Nat
BY DEF Files

LEMMA FileWith ==
  ASSUME NEW f \in Files, NEW s \in Seq(Entries)
  PROVE  [ f EXCEPT !.entities = s ] \in Files /\ [ f EXCEPT !.entities = s ].entities = s
BY DEF Files

LEMMA FileMarked ==
  ASSUME NEW f \in Files
  PROVE  [ f EXCEPT !.eof = TRUE ] \in Files /\ [ f EXCEPT !.eof = TRUE ].entities = f.entities
BY DEF Files

LEMMA NewFileEmpty ==
  /\ NewFile \in Files /\ NewFile.entities = << >> /\ Len(NewFile.entities) = 0
BY DEF NewFile, Files

LEMMA WritingAppends ==
  ASSUME NEW s \in Seq(Entries), NEW x \in Entries
  PROVE  /\ s \o << x >> \in Seq(Entries) /\ Len(s) \in Nat
         /\ Len(s \o << x >>) = Len(s) + 1
         /\ (s \o << x >>)[Len(s) + 1] = x
         /\ \A i \in 1 .. Len(s) : (s \o << x >>)[i] = s[i]
OBVIOUS

LEMMA PairsInFiles ==
  ASSUME NEW map \in Held, NEW id \in DOMAIN map
  PROVE  Pair(id, map) \in Entries /\ Pair(id, map) # Torn
BY DEF Pair, Entries, Held

(* A file with nothing written to it, and one with one more entity.        *)
LEMMA NothingWritten ==
  ASSUME NEW map
  PROVE  HasOnly(<< >>, map, {}) /\ HasAll(<< >>, map, {}) /\ HasOnce(<< >>) /\ Whole(<< >>)
BY DEF HasOnly, HasAll, HasOnce, Whole

LEMMA OneWritten ==
  ASSUME NEW s \in Seq(Entries), NEW map \in Held, NEW ids \in SUBSET DOMAIN map,
         HasOnly(s, map, ids), HasAll(s, map, ids), HasOnce(s),
         NEW id \in DOMAIN map, id \notin ids
  PROVE  LET p == s \o << Pair(id, map) >>
         IN  /\ HasOnly(p, map, ids \cup {id}) /\ HasAll(p, map, ids \cup {id})
             /\ HasOnce(p)
             /\ Whole(s) => Whole(p)
<1> DEFINE x == Pair(id, map)
           p == s \o << x >>
           n == Len(s)
<1>1. x \in Entries /\ x # Torn
  BY PairsInFiles
<1> HIDE DEF x
<1>2. /\ n \in Nat /\ Len(p) = n + 1 /\ p[n + 1] = x
      /\ \A i \in 1 .. n : p[i] = s[i]
  BY <1>1, WritingAppends
<1> HIDE DEF p
<1>3. \A i \in 1 .. Len(p) : i \in 1 .. n \/ i = n + 1
  BY <1>2
<1>4. HasOnly(p, map, ids \cup {id})
  <2> SUFFICES ASSUME NEW i \in 1 .. Len(p), p[i] # Torn
               PROVE  \E k \in ids \cup {id} : p[i] = Pair(k, map)
    BY DEF HasOnly
  <2>1. CASE i \in 1 .. n
    BY <1>2, <2>1 DEF HasOnly
  <2>2. CASE i = n + 1
    BY <1>2, <2>2 DEF x
  <2> QED
    BY <1>3, <2>1, <2>2
<1>5. HasAll(p, map, ids \cup {id})
  <2> SUFFICES ASSUME NEW k \in ids \cup {id}
               PROVE  \E i \in 1 .. Len(p) : p[i] = Pair(k, map)
    BY DEF HasAll
  <2>1. CASE k \in ids
    <3>1. PICK i \in 1 .. n : s[i] = Pair(k, map)
      BY <2>1 DEF HasAll
    <3>2. i \in 1 .. Len(p) /\ p[i] = s[i]
      BY <1>2, <3>1
    <3> QED
      BY <3>1, <3>2
  <2>2. CASE k = id
    <3>1. n + 1 \in 1 .. Len(p)
      BY <1>2
    <3> QED
      BY <1>2, <2>2, <3>1 DEF x
  <2> QED
    BY <2>1, <2>2
<1>6. \A i \in 1 .. n : s[i] # x
  <2> SUFFICES ASSUME NEW i \in 1 .. n, s[i] = x
               PROVE  FALSE
    OBVIOUS
  <2>1. PICK k \in ids : s[i] = Pair(k, map)
    BY <1>1 DEF HasOnly
  <2> QED
    BY <2>1 DEF x, Pair
<1>7. HasOnce(p)
  <2> SUFFICES ASSUME NEW i \in 1 .. Len(p), NEW j \in 1 .. Len(p), i # j, p[i] # Torn
               PROVE  p[i] # p[j]
    BY DEF HasOnce
  <2>1. CASE i \in 1 .. n /\ j \in 1 .. n
    BY <1>2, <2>1 DEF HasOnce
  <2>2. CASE i \in 1 .. n /\ j = n + 1
    BY <1>2, <1>6, <2>2
  <2>3. CASE i = n + 1 /\ j \in 1 .. n
    BY <1>2, <1>6, <2>3
  <2> QED
    BY <1>3, <2>1, <2>2, <2>3
<1>8. Whole(s) => Whole(p)
  BY <1>1, <1>2, <1>3 DEF Whole
<1> QED
  BY <1>4, <1>5, <1>7, <1>8 DEF p, x

(* Part of an entity changes nothing of that.                              *)
LEMMA PartWritten ==
  ASSUME NEW s \in Seq(Entries), NEW map, NEW ids,
         HasOnly(s, map, ids), HasAll(s, map, ids), HasOnce(s)
  PROVE  LET p == s \o << Torn >>
         IN  HasOnly(p, map, ids) /\ HasAll(p, map, ids) /\ HasOnce(p)
<1> DEFINE p == s \o << Torn >>
           n == Len(s)
<1>1. Torn \in Entries
  BY DEF Entries
<1>2. /\ n \in Nat /\ Len(p) = n + 1 /\ p[n + 1] = Torn
      /\ \A i \in 1 .. n : p[i] = s[i]
  BY <1>1, WritingAppends
<1> HIDE DEF p
<1>3. \A i \in 1 .. Len(p) : i \in 1 .. n \/ i = n + 1
  BY <1>2
<1>4. HasOnly(p, map, ids)
  BY <1>2, <1>3 DEF HasOnly
<1>5. HasAll(p, map, ids)
  <2> SUFFICES ASSUME NEW k \in ids
               PROVE  \E i \in 1 .. Len(p) : p[i] = Pair(k, map)
    BY DEF HasAll
  <2>1. PICK i \in 1 .. n : s[i] = Pair(k, map)
    BY DEF HasAll
  <2>2. i \in 1 .. Len(p) /\ p[i] = s[i]
    BY <1>2, <2>1
  <2> QED
    BY <2>1, <2>2
<1>6. HasOnce(p)
  <2> SUFFICES ASSUME NEW i \in 1 .. Len(p), NEW j \in 1 .. Len(p), i # j, p[i] # Torn
               PROVE  p[i] # p[j]
    BY DEF HasOnce
  <2>1. i \in 1 .. n /\ p[i] = s[i]
    BY <1>2, <1>3
  <2>2. CASE j \in 1 .. n
    BY <1>2, <2>1, <2>2 DEF HasOnce
  <2>3. CASE j = n + 1
    BY <1>2, <2>3
  <2> QED
    BY <1>3, <2>2, <2>3
<1> QED
  BY <1>4, <1>5, <1>6 DEF p

-----------------------------------------------------------------------------
(* Programs that write.                                                    *)

(* What WriteEntity may come to: an error, the entity as it is, or an      *)
(* error and a part of it.                                                 *)
Wrote(id) ==
  \/ file' = file /\ errors' = errors \cup {id}
  \/ /\ stream.opened /\ errors' = errors
     /\ file' = [ file EXCEPT !.entities = file.entities \o << Pair(id, entities) >> ]
  \/ /\ stream.opened /\ errors' = errors \cup {id}
     /\ file' = [ file EXCEPT !.entities = file.entities \o << Torn >> ]

LEMMA WriteMeans ==
  ASSUME entities \in Held, NEW id \in DOMAIN entities, WriteEntity(id, entities[id])
  PROVE  Wrote(id) /\ todo' = todo \ {id}
<1> DEFINE entity  == entities[id]
           handles == ExtractEntityComponents(entity)
<1>1. PICK w \in Writing(id, handles) :
        /\ file' = IF w.adds = << >> THEN file
                   ELSE [ file EXCEPT !.entities = file.entities \o w.adds ]
        /\ errors' = IF w.failed THEN errors \cup {id} ELSE errors
        /\ todo' = todo \ {id}
  BY DEF WriteEntity
<1>2. entity = [ c \in DOMAIN entity |-> entity[c] ]
  BY DEF Held
<1>3. ASSUME Null \notin Range(handles)
      PROVE  handles = entity
  <2>1. handles = [ c \in DOMAIN entity |-> IF c \in WriterRegistry THEN entity[c] ELSE Null ]
    BY DEF ExtractEntityComponents
  <2> HIDE DEF handles, entity
  <2>2. ASSUME NEW c \in DOMAIN entity
        PROVE  handles[c] = entity[c]
    <3>1. handles[c] \in Range(handles)
      BY <2>1 DEF Range
    <3> QED
      BY <1>3, <2>1, <3>1
  <2> QED
    BY <1>2, <2>1, <2>2
<1>4. CASE w = [ failed |-> TRUE, adds |-> << >> ]
  BY <1>1, <1>4 DEF Wrote
<1>5. CASE stream.opened /\ Null \notin Range(handles)
           /\ w = [ failed |-> FALSE, adds |-> << << id, handles >> >> ]
  <2>1. w.adds = << Pair(id, entities) >> /\ w.adds # << >> /\ ~w.failed
    BY <1>3, <1>5 DEF Pair
  <2> QED
    BY <1>1, <1>5, <2>1 DEF Wrote
<1>6. CASE stream.opened /\ w = [ failed |-> TRUE, adds |-> << Torn >> ]
  <2>1. w.adds = << Torn >> /\ w.adds # << >> /\ w.failed
    BY <1>6
  <2> QED
    BY <1>1, <1>6, <2>1 DEF Wrote
<1>7. \/ w = [ failed |-> TRUE, adds |-> << >> ]
      \/ stream.opened /\ Null \notin Range(handles)
         /\ w = [ failed |-> FALSE, adds |-> << << id, handles >> >> ]
      \/ stream.opened /\ w = [ failed |-> TRUE, adds |-> << Torn >> ]
  BY DEF Writing
<1> QED
  BY <1>1, <1>4, <1>5, <1>6, <1>7

LEMMA WriteStep ==
  ASSUME IInv, program \in { "saving", "generating" }, NEW id \in todo,
         WriteEntity(id, entities[id]),
         UNCHANGED << program, entities, stream, error, read, before, saved >>
  PROVE  IInv'
<1>1. /\ entities \in Held /\ todo \subseteq DOMAIN entities /\ id \in DOMAIN entities
      /\ errors \subseteq DOMAIN entities /\ todo \cap errors = {} /\ program \in Writers
      /\ stream.opened => /\ HasOnly(file.entities, entities, There)
                          /\ HasAll(file.entities, entities, There)
                          /\ HasOnce(file.entities)
                          /\ errors = {} => Whole(file.entities)
                          /\ file \in Files /\ saved = Nothing
      /\ ~stream.opened => There = {}
      /\ program \in { "generating", "generated" } => entities = ExampleEntities
  BY DEF IInv, FilesOK, WritersOK, Writers
<1>2. Wrote(id) /\ todo' = todo \ {id}
  BY <1>1, WriteMeans
<1>3. /\ There \in SUBSET DOMAIN entities /\ id \notin There
      /\ errors' = errors => There' = There \cup {id}
      /\ errors' = errors \cup {id} => There' = There
  BY <1>1, <1>2 DEF There
<1>4. errors' = errors \/ errors' = errors \cup {id}
  BY <1>2 DEF Wrote
<1>5. /\ stream.opened => /\ file' \in Files /\ Len(file.entities) <= Len(file'.entities)
                          /\ HasOnly(file'.entities, entities, There')
                          /\ HasAll(file'.entities, entities, There')
                          /\ HasOnce(file'.entities)
                          /\ errors' = {} => Whole(file'.entities)
      /\ ~stream.opened => file' = file /\ There' = {}
  <2>1. CASE file' = file /\ errors' = errors \cup {id}
    <3>1. stream.opened => Len(file.entities) \in Nat
      BY <1>1, FileFields
    <3> QED
      BY <1>1, <1>3, <2>1, <3>1
  <2>2. CASE /\ stream.opened /\ errors' = errors
             /\ file' = [ file EXCEPT !.entities = file.entities \o << Pair(id, entities) >> ]
    <3> DEFINE s == file.entities
               p == s \o << Pair(id, entities) >>
    <3>1. s \in Seq(Entries)
      BY <1>1, <2>2, FileFields
    <3>2. Pair(id, entities) \in Entries
      BY <1>1, PairsInFiles
    <3>3. p \in Seq(Entries) /\ Len(s) <= Len(p)
      BY <3>1, <3>2, WritingAppends
    <3>4. /\ HasOnly(p, entities, There') /\ HasAll(p, entities, There')
          /\ HasOnce(p)
          /\ Whole(s) => Whole(p)
      <4>1. There' = There \cup {id}
        BY <1>3, <2>2
      <4>2. HasOnly(s, entities, There) /\ HasAll(s, entities, There) /\ HasOnce(s)
        BY <1>1, <2>2
      <4>3. PICK ids : ids = There
        OBVIOUS
      <4>4. PICK map : map = entities
        OBVIOUS
      <4> HIDE DEF p
      <4>5. /\ map \in Held /\ ids \in SUBSET DOMAIN map /\ id \in DOMAIN map /\ id \notin ids
            /\ HasOnly(s, map, ids) /\ HasAll(s, map, ids) /\ HasOnce(s)
            /\ p = s \o << Pair(id, map) >>
        BY <1>1, <1>3, <4>2, <4>3, <4>4 DEF p
      <4> HIDE DEF s
      <4>6. /\ HasOnly(p, map, ids \cup {id}) /\ HasAll(p, map, ids \cup {id})
            /\ HasOnce(p)
            /\ Whole(s) => Whole(p)
        BY <3>1, <4>5, OneWritten
      <4> QED
        BY <4>1, <4>3, <4>4, <4>6
    <3> HIDE DEF p
    <3>5. file' \in Files /\ file'.entities = p
      BY <1>1, <2>2, <3>3, FileWith DEF p
    <3> QED
      BY <1>1, <2>2, <3>3, <3>4, <3>5
  <2>3. CASE /\ stream.opened /\ errors' = errors \cup {id}
             /\ file' = [ file EXCEPT !.entities = file.entities \o << Torn >> ]
    <3> DEFINE s == file.entities
               p == s \o << Torn >>
    <3>1. s \in Seq(Entries) /\ Torn \in Entries
      BY <1>1, <2>3, FileFields DEF Entries
    <3>2. p \in Seq(Entries) /\ Len(s) <= Len(p)
      BY <3>1, WritingAppends
    <3>3. HasOnly(p, entities, There') /\ HasAll(p, entities, There') /\ HasOnce(p)
      BY <1>1, <1>3, <2>3, <3>1, PartWritten
    <3> HIDE DEF p
    <3>4. file' \in Files /\ file'.entities = p
      BY <1>1, <2>3, <3>2, FileWith DEF p
    <3> QED
      BY <2>3, <3>2, <3>3, <3>4
  <2> QED
    BY <1>2, <2>1, <2>2, <2>3 DEF Wrote
<1>6. FilesOK'
  <2>1. stream.opened => stream.at \in Nat /\ stream.at <= Len(file.entities)
                         /\ Len(file.entities) \in Nat /\ Len(file'.entities) \in Nat
    BY <1>1, <1>5, FileFields DEF IInv, FilesOK
  <2> QED
    BY <1>5, <2>1 DEF IInv, FilesOK
<1>7. WritersOK'
  <2>1. todo' \subseteq DOMAIN entities /\ errors' \subseteq DOMAIN entities /\ todo' \cap errors' = {}
    BY <1>1, <1>2, <1>4
  <2>2. program # "saved"
    OBVIOUS
  <2> QED
    BY <1>1, <1>5, <2>1, <2>2 DEF WritersOK
<1>8. SavedOK'
  BY <1>1, <1>5 DEF IInv, SavedOK
<1>9. LoadersOK' /\ ReadersOK'
  BY DEF LoadersOK, ReadersOK
<1> QED
  BY <1>6, <1>7, <1>8, <1>9 DEF IInv

LEMMA SaveNextStep ==
  ASSUME IInv, SaveNext
  PROVE  IInv'
BY WriteStep DEF SaveNext

LEMMA GenerateNextStep ==
  ASSUME IInv, GenerateNext
  PROVE  IInv'
<1>1. PICK id \in todo : WriteEntity(id, ExampleEntity)
  BY DEF GenerateNext
<1>2. entities = ExampleEntities /\ todo \subseteq DOMAIN entities
  BY DEF IInv, WritersOK, Writers, GenerateNext
<1>3. ExampleEntity = entities[id]
  BY <1>1, <1>2 DEF ExampleEntities
<1> QED
  BY <1>1, <1>3, WriteStep DEF GenerateNext

(* A program that is to write opens the file, and it is empty; or it does  *)
(* not, and the file is as it was.                                         *)
LEMMA OpenOutputStep ==
  ASSUME IInv, NEW what \in { "saving", "generating" }, NEW map \in Held,
         what = "generating" => map = ExampleEntities,
         Start(what, map, DOMAIN map, Empty), CreateOutput
  PROVE  IInv'
<1>1. PICK opened \in BOOLEAN :
        /\ stream' = [ opened |-> opened, at |-> 0 ]
        /\ file' = IF opened THEN NewFile ELSE file
        /\ saved' = IF opened THEN Nothing ELSE saved
  BY DEF CreateOutput
<1>2. /\ program' = what /\ entities' = map /\ todo' = DOMAIN map /\ errors' = {}
      /\ error' = FALSE
  BY DEF Start
<1>3. There' = {}
  BY <1>2 DEF There
<1>4. FilesOK'
  BY <1>1, NewFileEmpty DEF IInv, FilesOK
<1>5. WritersOK'
  <2>1. opened => /\ HasOnly(file'.entities, map, {}) /\ HasAll(file'.entities, map, {})
                  /\ HasOnce(file'.entities) /\ Whole(file'.entities)
    BY <1>1, NewFileEmpty, NothingWritten
  <2> QED
    BY <1>1, <1>2, <1>3, <2>1 DEF WritersOK
<1>6. SavedOK'
  BY <1>1 DEF IInv, SavedOK
<1>7. LoadersOK' /\ ReadersOK'
  BY <1>2 DEF LoadersOK, ReadersOK
<1> QED
  BY <1>4, <1>5, <1>6, <1>7 DEF IInv

LEMMA SaveStep ==
  ASSUME IInv, NEW map \in Maps, Save(map)
  PROVE  IInv'
BY OpenOutputStep DEF Save, Held

LEMMA GenerateStep ==
  ASSUME IInv, Generate
  PROVE  IInv'
<1>1. DOMAIN ExampleEntities = 1 .. 5
  BY DEF ExampleEntities
<1> QED
  BY <1>1, OpenOutputStep DEF Generate, Held

(* A program that has written closes the file: if all went well, what it   *)
(* has is what the file has.                                               *)
LEMMA CloseStep ==
  ASSUME IInv, program \in { "saving", "generating" }, DestroyOutput,
         program' \in { "saved", "generated" }, program' = "generated" => program = "generating",
         program' = "saved" => (todo = {} \/ errors # {}) /\ error' = (errors # {}),
         errors = {} => todo = {},
         UNCHANGED << entities, stream, todo, errors, read, before >>
  PROVE  IInv'
<1>1. /\ entities \in Held /\ todo \subseteq DOMAIN entities
      /\ errors \subseteq DOMAIN entities /\ todo \cap errors = {} /\ program \in Writers
      /\ stream.opened => /\ HasOnly(file.entities, entities, There)
                          /\ HasAll(file.entities, entities, There)
                          /\ HasOnce(file.entities)
                          /\ errors = {} => Whole(file.entities)
                          /\ file \in Files /\ saved = Nothing
      /\ ~stream.opened => There = {}
      /\ program \in { "generating", "generated" } => entities = ExampleEntities
  BY DEF IInv, FilesOK, WritersOK, Writers
<1>2. PICK marked \in BOOLEAN :
        /\ marked => stream.opened
        /\ file' = IF marked THEN [ file EXCEPT !.eof = TRUE ] ELSE file
        /\ saved' = IF marked /\ errors = {} THEN entities ELSE saved
  BY DEF DestroyOutput
<1>3. There' = There
  BY DEF There
<1>4. /\ file \in Files => file' \in Files /\ file'.entities = file.entities
      /\ file \notin Files => file' = file
  <2>1. CASE marked
    <3>1. file \in Files
      BY <1>1, <1>2, <2>1
    <3>2. file' = [ file EXCEPT !.eof = TRUE ]
      BY <1>2, <2>1
    <3>3. file' \in Files /\ file'.entities = file.entities
      BY <3>1, <3>2, FileMarked
    <3> QED
      BY <3>1, <3>3
  <2>2. CASE ~marked
    BY <1>2, <2>2
  <2> QED
    BY <2>1, <2>2
<1>5. FilesOK'
  BY <1>4 DEF IInv, FilesOK
<1>6. WritersOK'
  <2>1. program' \notin { "saving", "generating" } /\ (program' = "generated" => entities = ExampleEntities)
    BY <1>1
  <2>2. stream.opened => /\ HasOnly(file'.entities, entities, There)
                         /\ HasAll(file'.entities, entities, There)
                         /\ HasOnce(file'.entities)
                         /\ errors = {} => Whole(file'.entities)
    BY <1>1, <1>4
  <2> QED
    BY <1>1, <1>3, <2>1, <2>2 DEF WritersOK
<1>7. SavedOK'
  <2>1. CASE stream.opened /\ errors = {}
    <3>1. There = DOMAIN entities
      BY <2>1 DEF There
    <3>2. /\ file' \in Files /\ Whole(file'.entities)
          /\ HasOnly(file'.entities, entities, DOMAIN entities)
          /\ HasAll(file'.entities, entities, DOMAIN entities)
      BY <1>1, <1>4, <2>1, <3>1
    <3>3. saved' # Nothing => saved' = entities
      BY <1>1, <1>2, <2>1
    <3> QED
      BY <3>2, <3>3 DEF SavedOK
  <2>2. CASE stream.opened /\ errors # {}
    BY <1>1, <1>2, <2>2 DEF SavedOK
  <2>3. CASE ~stream.opened
    BY <1>2, <2>3 DEF IInv, SavedOK
  <2> QED
    BY <2>1, <2>2, <2>3
<1>8. LoadersOK' /\ ReadersOK'
  BY DEF LoadersOK, ReadersOK
<1> QED
  BY <1>5, <1>6, <1>7, <1>8 DEF IInv

LEMMA SaveReturnsStep ==
  ASSUME IInv, SaveReturns
  PROVE  IInv'
BY CloseStep DEF SaveReturns

LEMMA GenerateReturnsStep ==
  ASSUME IInv, GenerateReturns
  PROVE  IInv'
BY CloseStep DEF GenerateReturns

-----------------------------------------------------------------------------
(* Programs that read.                                                     *)

(* What ReadEntity reads is what the registry knows of the entity.         *)
LEMMA ReadsKnown ==
  ASSUME NEW source, NEW target
  PROVE  ReadEntity(source, target) = [ id |-> source[1], entity |-> Known(source[2]) ]
<1> DEFINE h == source[2]
           m == [ c \in DOMAIN h \cap ReaderRegistry |-> h[c] ]
<1>1. DOMAIN Empty = {}
  BY DEF Empty
<1>2. Add(Empty, m) = [ k \in DOMAIN m |-> m[k] ]
  BY <1>1 DEF Add
<1>3. Known(h) = m
  BY DEF Known, Restrict
<1> QED
  BY <1>2, <1>3 DEF ReadEntity, MoveSnapshotIntoEntity

(* What was read is the entity of the file after those read before.        *)
LEMMA ReadIsNext ==
  ASSUME FilesOK, NEW source \in Reading, source # Nothing
  PROVE  /\ stream.opened /\ stream.at \in Nat /\ stream.at + 1 <= Len(file.entities)
         /\ file \in Files /\ Len(file.entities) \in Nat
         /\ ReadEntity(source, read) = Source(stream.at + 1)
<1>1. stream.opened /\ stream.at < Len(file.entities) /\ source = file.entities[stream.at + 1]
  BY DEF Reading
<1>2. stream.at \in Nat /\ file \in Files /\ Len(file.entities) \in Nat
  BY <1>1, FileFields DEF FilesOK
<1>3. ReadEntity(source, read) = Source(stream.at + 1)
  BY <1>1, ReadsKnown DEF Source
<1> QED
  BY <1>1, <1>2, <1>3

LEMMA OpenInputStep ==
  ASSUME IInv, NEW what \in { "loading", "reading" }, NEW map,
         map = [ id \in DOMAIN map |-> map[id] ],
         Start(what, map, {}, map), CreateInput
  PROVE  IInv'
<1>1. PICK opened \in BOOLEAN :
        /\ opened => file # NoFile
        /\ stream' = [ opened |-> opened, at |-> 0 ]
        /\ UNCHANGED << file, saved >>
  BY DEF CreateInput
<1>2. program' = what /\ entities' = map /\ before' = map /\ error' = FALSE
  BY DEF Start
<1>3. FilesOK'
  <2>1. file \in Files => Len(file.entities) \in Nat
    BY FileFields
  <2> QED
    BY <1>1, <2>1 DEF IInv, FilesOK
<1>4. SavedOK'
  BY <1>1 DEF IInv, SavedOK
<1>5. WritersOK' /\ ReadersOK'
  BY <1>1, <1>2 DEF WritersOK, Writers, ReadersOK
<1>6. LoadersOK'
  <2>1. stream'.at = 0 /\ 1 .. 0 = {}
    BY <1>1
  <2>2. { Source(i).id : i \in 1 .. stream.at }' = {}
    BY <2>1
  <2>3. program' # "loaded"
    BY <1>2
  <2> QED
    BY <1>2, <2>2, <2>3 DEF LoadersOK
<1> QED
  BY <1>3, <1>4, <1>5, <1>6 DEF IInv

LEMMA LoadStep ==
  ASSUME IInv, NEW map \in Maps, Load(map)
  PROVE  IInv'
<1>1. map = [ id \in DOMAIN map |-> map[id] ]
  OBVIOUS
<1> QED
  BY <1>1, OpenInputStep DEF Load

LEMMA OpenStep ==
  ASSUME IInv, Open
  PROVE  IInv'
<1>1. Empty = [ id \in DOMAIN Empty |-> Empty[id] ]
  BY DEF Empty
<1> QED
  BY <1>1, OpenInputStep DEF Open

LEMMA LoadNextStep ==
  ASSUME IInv, LoadNext
  PROVE  IInv'
<1>1. PICK source \in Reading \ {Nothing} :
        entities' = LET now == ReadEntity(source, read)
                    IN  Add(entities, [ id \in {now.id} |-> now.entity ])
  BY DEF LoadNext
<1> DEFINE at  == stream.at
           now == Source(at + 1)
<1>2. /\ program = "loading" /\ program' = "loading"
      /\ stream' = [ stream EXCEPT !.at = at + 1 ]
      /\ UNCHANGED << file, before, saved >>
  BY DEF LoadNext
<1>3. /\ stream.opened /\ at \in Nat /\ at + 1 <= Len(file.entities)
      /\ file \in Files /\ Len(file.entities) \in Nat
      /\ ReadEntity(source, read) = now
  BY ReadIsNext DEF IInv
<1>4. entities' = Add(entities, [ id \in {now.id} |-> now.entity ])
  BY <1>1, <1>3
<1>5. now = [ id |-> now.id, entity |-> now.entity ]
  BY DEF Source
<1>6. /\ DOMAIN entities' = DOMAIN entities \cup {now.id}
      /\ entities' = [ id \in DOMAIN entities' |-> entities'[id] ]
      /\ \A id \in DOMAIN entities : entities'[id] = entities[id]
      /\ now.id \notin DOMAIN entities => entities'[now.id] = now.entity
  BY <1>4 DEF Add
<1>7. stream' \in [ opened : BOOLEAN, at : Nat ] /\ stream'.at = at + 1 /\ stream'.opened
  BY <1>2, <1>3 DEF IInv, FilesOK
<1>8. FilesOK'
  BY <1>2, <1>3, <1>7 DEF FilesOK
<1>9. \A i : Source(i)' = Source(i)
  BY <1>2 DEF Source
<1>10. /\ before = [ id \in DOMAIN before |-> before[id] ]
       /\ DOMAIN entities = DOMAIN before \cup { Source(i).id : i \in 1 .. at }
       /\ \A id \in DOMAIN before : entities[id] = before[id]
       /\ \A id \in DOMAIN entities \ DOMAIN before :
            \E i \in 1 .. at : Source(i) = [ id |-> id, entity |-> entities[id] ]
  BY <1>2 DEF IInv, LoadersOK
<1>11. LoadersOK'
  <2>1. { Source(i).id : i \in 1 .. at + 1 } = { Source(i).id : i \in 1 .. at } \cup {now.id}
    <3>1. 1 .. at + 1 = (1 .. at) \cup {at + 1}
      BY <1>3
    <3> QED
      BY <3>1
  <2>2. DOMAIN entities' = DOMAIN before \cup { Source(i).id : i \in 1 .. at + 1 }
    BY <1>6, <1>10, <2>1
  <2>3. \A id \in DOMAIN before : entities'[id] = before[id]
    BY <1>6, <1>10
  <2>4. ASSUME NEW id \in DOMAIN entities' \ DOMAIN before
        PROVE  \E i \in 1 .. at + 1 : Source(i) = [ id |-> id, entity |-> entities'[id] ]
    <3>1. CASE id \in DOMAIN entities
      <4>1. PICK i \in 1 .. at : Source(i) = [ id |-> id, entity |-> entities[id] ]
        BY <1>10, <2>4, <3>1
      <4>2. i \in 1 .. at + 1
        BY <1>3
      <4>3. entities'[id] = entities[id]
        BY <1>6, <3>1
      <4> QED
        BY <4>1, <4>2, <4>3
    <3>2. CASE id \notin DOMAIN entities
      <4>1. id = now.id /\ entities'[id] = now.entity
        BY <1>6, <2>4, <3>2
      <4>2. at + 1 \in 1 .. at + 1
        BY <1>3
      <4> HIDE DEF now
      <4>3. now = [ id |-> id, entity |-> entities'[id] ]
        BY <1>5, <4>1
      <4> QED
        BY <4>2, <4>3 DEF now
    <3> QED
      BY <3>1, <3>2
  <2>5. { Source(i).id : i \in 1 .. at + 1 } = { Source(i)'.id : i \in 1 .. at + 1 }
    BY <1>9
  <2>6. \A id \in DOMAIN entities' \ DOMAIN before :
          \E i \in 1 .. at + 1 : Source(i)' = [ id |-> id, entity |-> entities'[id] ]
    BY <1>9, <2>4
  <2>7. stream'.at = at + 1 /\ before' = before /\ program' = "loading"
    BY <1>2, <1>7
  <2>8. DOMAIN entities' = DOMAIN before' \cup { Source(i).id : i \in 1 .. stream.at }'
    <3>1. { Source(i).id : i \in 1 .. stream.at }' = { Source(i)'.id : i \in 1 .. at + 1 }
      BY <2>7
    <3> QED
      BY <2>2, <2>5, <2>7, <3>1
  <2>9. \A id \in DOMAIN entities' \ DOMAIN before' :
          \E i \in 1 .. stream'.at : Source(i)' = [ id |-> id, entity |-> entities'[id] ]
    BY <2>6, <2>7
  <2>10. before' = [ id \in DOMAIN before' |-> before'[id] ]
    BY <1>10, <2>7
  <2> QED
    BY <1>6, <2>3, <2>7, <2>8, <2>9, <2>10 DEF LoadersOK
<1>12. WritersOK' /\ ReadersOK'
  BY <1>2 DEF WritersOK, Writers, ReadersOK
<1>13. SavedOK'
  BY <1>2 DEF IInv, SavedOK
<1> QED
  BY <1>8, <1>11, <1>12, <1>13 DEF IInv

(* LoadSnapshot returns without an error when nothing is left in the file. *)
LEMMA LoadReturnsStep ==
  ASSUME IInv, LoadReturns
  PROVE  IInv'
<1>1. /\ program = "loading" /\ program' = "loaded"
      /\ \/ FALSE \in HasNext /\ error' = FALSE
         \/ TRUE \in HasNext /\ Nothing \in Reading /\ error' = TRUE
      /\ UNCHANGED << file, entities, stream, before, saved >>
  BY DEF LoadReturns
<1>2. ~error' /\ stream.opened => stream.at = Len(file.entities)
  <2> SUFFICES ASSUME ~error', stream.opened
               PROVE  stream.at = Len(file.entities)
    OBVIOUS
  <2>1. ~(stream.at < Len(file.entities))
    BY <1>1 DEF HasNext
  <2>2. stream.at \in Nat /\ Len(file.entities) \in Nat /\ stream.at <= Len(file.entities)
    BY FileFields DEF IInv, FilesOK
  <2> QED
    BY <2>1, <2>2
<1>3. FilesOK' /\ SavedOK'
  BY <1>1 DEF IInv, FilesOK, SavedOK
<1>4. WritersOK' /\ ReadersOK'
  BY <1>1 DEF WritersOK, Writers, ReadersOK
<1>5. LoadersOK'
  <2>1. \A i : Source(i)' = Source(i)
    BY <1>1 DEF Source
  <2> QED
    BY <1>1, <1>2, <2>1 DEF IInv, LoadersOK
<1> QED
  BY <1>3, <1>4, <1>5 DEF IInv

LEMMA ReadNextStep ==
  ASSUME IInv, ReadNext
  PROVE  IInv'
<1>1. PICK source \in Reading :
        /\ error' = (source = Nothing)
        /\ read' = IF error' THEN [ read EXCEPT !.entity = Empty ]
                   ELSE ReadEntity(source, read)
        /\ stream' = IF error' THEN stream ELSE [ stream EXCEPT !.at = @ + 1 ]
  BY DEF ReadNext
<1>2. program = "reading" /\ program' = "reading" /\ UNCHANGED << file, saved >>
  BY DEF ReadNext
<1>3. WritersOK' /\ LoadersOK' /\ SavedOK'
  BY <1>2 DEF IInv, WritersOK, Writers, LoadersOK, SavedOK
<1>4. CASE source = Nothing
  <2>1. error' /\ stream' = stream
    BY <1>1, <1>4
  <2>2. FilesOK' /\ ReadersOK'
    BY <1>2, <2>1 DEF IInv, FilesOK, ReadersOK
  <2> QED
    BY <1>3, <2>2 DEF IInv
<1>5. CASE source # Nothing
  <2>1. /\ stream.opened /\ stream.at \in Nat /\ stream.at + 1 <= Len(file.entities)
        /\ file \in Files
        /\ ReadEntity(source, read) = Source(stream.at + 1)
    BY <1>5, ReadIsNext DEF IInv
  <2>2. stream' = [ stream EXCEPT !.at = stream.at + 1 ] /\ read' = Source(stream.at + 1)
    BY <1>1, <1>5, <2>1
  <2>3. stream' \in [ opened : BOOLEAN, at : Nat ] /\ stream'.at = stream.at + 1 /\ stream'.opened
    BY <2>1, <2>2 DEF IInv, FilesOK
  <2>4. FilesOK'
    BY <1>2, <2>1, <2>3 DEF FilesOK
  <2>5. ReadersOK'
    BY <1>2, <2>2, <2>3 DEF ReadersOK, Source
  <2> QED
    BY <1>3, <2>4, <2>5 DEF IInv
<1> QED
  BY <1>4, <1>5

LEMMA StopStep ==
  ASSUME IInv, Stop
  PROVE  IInv'
<1>1. program' = "idle" /\ UNCHANGED << file, stream, saved >>
  BY DEF Stop
<1> QED
  BY <1>1 DEF IInv, FilesOK, WritersOK, Writers, SavedOK, LoadersOK, ReadersOK

-----------------------------------------------------------------------------
(* The invariant, and what follows from it.                                *)

LEMMA InitOK ==
  Init => IInv
BY DEF Init, IInv, FilesOK, WritersOK, Writers, SavedOK, LoadersOK, ReadersOK

LEMMA StepOK ==
  IInv /\ [Next]_vars => IInv'
<1> SUFFICES ASSUME IInv, [Next]_vars
             PROVE  IInv'
  OBVIOUS
<1>1. ASSUME NEW map \in Maps, Save(map)
      PROVE  IInv'
  BY <1>1, SaveStep
<1>2. ASSUME NEW map \in Maps, Load(map)
      PROVE  IInv'
  BY <1>2, LoadStep
<1>3. CASE Generate
  BY <1>3, GenerateStep
<1>4. CASE Open
  BY <1>4, OpenStep
<1>5. CASE SaveNext
  BY <1>5, SaveNextStep
<1>6. CASE SaveReturns
  BY <1>6, SaveReturnsStep
<1>7. CASE GenerateNext
  BY <1>7, GenerateNextStep
<1>8. CASE GenerateReturns
  BY <1>8, GenerateReturnsStep
<1>9. CASE LoadNext
  BY <1>9, LoadNextStep
<1>10. CASE LoadReturns
  BY <1>10, LoadReturnsStep
<1>11. CASE ReadNext
  BY <1>11, ReadNextStep
<1>12. CASE Stop
  BY <1>12, StopStep
<1>13. CASE UNCHANGED vars
  BY <1>13 DEF vars, IInv, FilesOK, WritersOK, There, SavedOK, LoadersOK, Source, ReadersOK
<1> QED
  BY <1>1, <1>2, <1>3, <1>4, <1>5, <1>6, <1>7, <1>8, <1>9, <1>10, <1>11, <1>12, <1>13 DEF Next

LEMMA Invariance ==
  Spec => []IInv
BY InitOK, StepOK, PTL DEF Spec

(* What a file has when it has all of a map and nothing else.              *)
LEMMA LoadedFollows ==
  IInv => LoadedIsWhatWasSaved
<1> SUFFICES ASSUME IInv
             PROVE  LoadedIsWhatWasSaved
  OBVIOUS
<1>1. ASSUME program = "loaded", ~error, stream.opened, saved # Nothing
      PROVE  entities = Add(before, [ id \in DOMAIN saved |-> Known(saved[id]) ])
  <2> DEFINE s == file.entities
             n == Len(s)
             all == [ id \in DOMAIN saved |-> Known(saved[id]) ]
  <2>1. /\ DOMAIN entities = DOMAIN before \cup { Source(i).id : i \in 1 .. n }
        /\ entities = [ id \in DOMAIN entities |-> entities[id] ]
        /\ \A id \in DOMAIN before : entities[id] = before[id]
        /\ \A id \in DOMAIN entities \ DOMAIN before :
             \E i \in 1 .. n : Source(i) = [ id |-> id, entity |-> entities[id] ]
    BY <1>1 DEF IInv, LoadersOK
  <2>2. Whole(s) /\ HasOnly(s, saved, DOMAIN saved) /\ HasAll(s, saved, DOMAIN saved)
    BY <1>1 DEF IInv, SavedOK
  <2>3. ASSUME NEW i \in 1 .. n
        PROVE  \E k \in DOMAIN saved : Source(i) = [ id |-> k, entity |-> Known(saved[k]) ]
    <3>1. PICK k \in DOMAIN saved : s[i] = Pair(k, saved)
      BY <2>2 DEF Whole, HasOnly
    <3>2. s[i][1] = k /\ s[i][2] = saved[k]
      BY <3>1 DEF Pair
    <3> QED
      BY <3>2 DEF Source
  <2>4. ASSUME NEW k \in DOMAIN saved
        PROVE  \E i \in 1 .. n : Source(i).id = k
    <3>1. PICK i \in 1 .. n : s[i] = Pair(k, saved)
      BY <2>2 DEF HasAll
    <3>2. s[i][1] = k
      BY <3>1 DEF Pair
    <3> QED
      BY <3>2 DEF Source
  <2>5. { Source(i).id : i \in 1 .. n } = DOMAIN saved
    <3>1. \A i \in 1 .. n : Source(i).id \in DOMAIN saved
      BY <2>3
    <3> QED
      BY <2>4, <3>1
  <2>6. DOMAIN entities = DOMAIN before \cup DOMAIN all
    BY <2>1, <2>5
  <2>7. ASSUME NEW id \in DOMAIN entities \ DOMAIN before
        PROVE  entities[id] = all[id]
    <3>1. PICK i \in 1 .. n : Source(i) = [ id |-> id, entity |-> entities[id] ]
      BY <2>1
    <3>2. PICK k \in DOMAIN saved : Source(i) = [ id |-> k, entity |-> Known(saved[k]) ]
      BY <2>3
    <3>3. k = id /\ entities[id] = Known(saved[k])
      BY <3>1, <3>2
    <3> QED
      BY <3>2, <3>3
  <2> HIDE DEF all
  <2>8. entities = [ k \in DOMAIN before \cup DOMAIN all |->
                       IF k \in DOMAIN before THEN before[k] ELSE all[k] ]
    BY <2>1, <2>6, <2>7
  <2> QED
    BY <2>8 DEF Add, all
<1>2. ASSUME program \in { "loading", "loaded" }
      PROVE  /\ \A id \in DOMAIN before : entities[id] = before[id]
             /\ \A id \in DOMAIN entities \ DOMAIN before :
                  \E i \in 1 .. stream.at : Source(i) = [ id |-> id, entity |-> entities[id] ]
  BY <1>2 DEF IInv, LoadersOK
<1>3. program = "reading" /\ ~error /\ stream.at > 0 => read = Source(stream.at)
  BY DEF IInv, ReadersOK
<1> QED
  BY <1>1, <1>2, <1>3 DEF LoadedIsWhatWasSaved, Source

LEMMA MissingFollows ==
  IInv => MissingIsReported
<1> SUFFICES ASSUME IInv, program \in Writers
             PROVE  MissingIsReported
  BY DEF MissingIsReported, Writers
<1> DEFINE written == IF stream.opened THEN file.entities ELSE << >>
<1>1. /\ entities \in Held /\ errors \subseteq DOMAIN entities
      /\ ~stream.opened => There = {}
      /\ program = "saved" => (todo = {} \/ errors # {}) /\ error = (errors # {})
  BY DEF IInv, WritersOK
<1>2. /\ HasOnly(written, entities, There) /\ HasAll(written, entities, There)
      /\ HasOnce(written)
  BY <1>1, NothingWritten DEF IInv, WritersOK
<1>3. DOMAIN written = 1 .. Len(written)
  <2>1. CASE stream.opened
    <3>1. file.entities \in Seq(Entries)
      BY <2>1, FileFields DEF IInv, FilesOK
    <3> QED
      BY <2>1, <3>1
  <2>2. CASE ~stream.opened
    BY <2>2
  <2> QED
    BY <2>1, <2>2
<1> HIDE DEF written
<1>4. Range(written) \ {Torn} = { << id, entities[id] >> : id \in There }
  <2>1. ASSUME NEW x \in Range(written), x # Torn
        PROVE  \E id \in There : x = << id, entities[id] >>
    <3>1. PICK i \in 1 .. Len(written) : x = written[i]
      BY <1>3 DEF Range
    <3> QED
      BY <1>2, <2>1, <3>1 DEF HasOnly, Pair
  <2>2. ASSUME NEW id \in There
        PROVE  << id, entities[id] >> \in Range(written) /\ << id, entities[id] >> # Torn
    <3>1. PICK i \in 1 .. Len(written) : written[i] = Pair(id, entities)
      BY <1>2 DEF HasAll
    <3>2. written[i] \in Range(written)
      BY <1>3, <3>1 DEF Range
    <3>3. id \in DOMAIN entities
      BY DEF There
    <3>4. Pair(id, entities) # Torn
      BY <1>1, <3>3, PairsInFiles
    <3> QED
      BY <3>1, <3>2, <3>4 DEF Pair
  <2> QED
    BY <2>1, <2>2
<1>5. \A i, j \in 1 .. Len(written) :
        i # j /\ written[i] # Torn => written[i] # written[j]
  BY <1>2 DEF HasOnce
<1>6. program = "saved" => (error <=> There # DOMAIN entities)
  BY <1>1 DEF There
<1> QED
  BY <1>4, <1>5, <1>6 DEF MissingIsReported, There, written

(* What is loaded is what was last saved without an error, for any maps    *)
(* and registries, and what is loaded or read at all are entities of the   *)
(* file (LoadSnapshot, and ReadEntity into variables that are used again). *)
THEOREM WhatWasSavedIsLoaded ==
  Spec => []LoadedIsWhatWasSaved
BY Invariance, LoadedFollows, PTL

(* Every entity that was to be written is in the file once, or there was   *)
(* an error; SaveSnapshot returns one exactly when an entity is missing.   *)
THEOREM WhatIsMissingIsReported ==
  Spec => []MissingIsReported
BY Invariance, MissingFollows, PTL
=============================================================================
