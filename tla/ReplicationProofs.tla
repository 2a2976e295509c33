------------------------- MODULE ReplicationProofs -------------------------
(***************************************************************************)
(* Proofs about the way of a component's data: it survives serialization,  *)
(* objects live exactly while handles share them, nobody writes to an      *)
(* object that is shared or to the update the writer kept, what is on its  *)
(* way leads everyone to what the writer meant, and the first View of an   *)
(* answer has what was answered.                                           *)
(***************************************************************************)
EXTENDS Replication, FiniteSetTheorems, WellFoundedInduction, TLAPS

USE DataAssumption, ReplicationAssumption

-----------------------------------------------------------------------------
(* Serialization.                                                          *)

(* A map is what its pairs say it is.                                      *)
LEMMA MapOfPairs ==
  ASSUME NEW m \in RequirementMaps
  PROVE  MapOf({ << id, m[id] >> : id \in DOMAIN m }) = m
<1> DEFINE pairs == { << id, m[id] >> : id \in DOMAIN m }
<1>1. PICK S \in SUBSET ComponentIds : m \in [ S -> RequirementSets ]
  BY DEF RequirementMaps
<1>2. { p[1] : p \in pairs } = S
  <2>1. DOMAIN m = S
    BY <1>1
  <2>2. ASSUME NEW id \in S
        PROVE  id \in { p[1] : p \in pairs }
    <3>1. << id, m[id] >> \in pairs /\ << id, m[id] >>[1] = id
      BY <2>1
    <3> QED
      BY <3>1
  <2>3. ASSUME NEW p \in pairs
        PROVE  p[1] \in S
    BY <2>1
  <2> QED
    BY <2>2, <2>3
<1>3. ASSUME NEW id \in S
      PROVE  (CHOOSE s \in RequirementSets : << id, s >> \in pairs) = m[id]
  <2>1. m[id] \in RequirementSets /\ << id, m[id] >> \in pairs
    BY <1>1
  <2>2. \A s \in RequirementSets : << id, s >> \in pairs => s = m[id]
    BY <1>1
  <2> QED
    BY <2>1, <2>2
<1>4. MapOf(pairs) = [ id \in S |-> m[id] ]
  BY <1>2, <1>3 DEF MapOf
<1> QED
  BY <1>1, <1>4

(* What a reader makes of a serialized update is the update, the fields    *)
(* without a value and the emptied collections included.                   *)
THEOREM UpdateSurvivesTheWire ==
  \A u \in Updates : Deserialize(Serialize(u)) = u
<1> SUFFICES ASSUME NEW u \in Updates
             PROVE  Deserialize(Serialize(u)) = u
  OBVIOUS
<1> DEFINE w == Serialize(u)
<1>1. u = [ read_acl |-> u.read_acl, component_write_acl |-> u.component_write_acl ]
  BY DEF Updates
<1>2. (IF w.read_acl = {} THEN Nothing ELSE CHOOSE s \in w.read_acl : TRUE) = u.read_acl
  <2>1. CASE u.read_acl = Nothing
    <3>1. w.read_acl = {}
      BY <2>1 DEF Serialize
    <3> QED
      BY <2>1, <3>1
  <2>2. CASE u.read_acl # Nothing
    <3>1. u.read_acl \in RequirementSets
      BY <2>2 DEF Updates
    <3>2. w.read_acl = { u.read_acl }
      BY <3>1 DEF Serialize
    <3> QED
      BY <3>2
  <2> QED
    BY <2>1, <2>2
<1>3. (IF w.component_write_acl # {} \/ 2 \in w.fields_to_clear
       THEN MapOf(w.component_write_acl) ELSE Nothing) = u.component_write_acl
  <2>1. CASE u.component_write_acl = Nothing
    <3>1. w.component_write_acl = {} /\ w.fields_to_clear = {}
      BY <2>1 DEF Serialize
    <3> QED
      BY <2>1, <3>1
  <2>2. CASE u.component_write_acl # Nothing
    <3> DEFINE m == u.component_write_acl
    <3>1. m \in RequirementMaps
      BY <2>2 DEF Updates
    <3>2. w.component_write_acl = { << id, m[id] >> : id \in DOMAIN m }
      BY <2>2 DEF Serialize
    <3>3. DOMAIN m = {} => 2 \in w.fields_to_clear
      BY <2>2 DEF Serialize
    <3>4. DOMAIN m # {} => w.component_write_acl # {}
      BY <3>2
    <3>5. MapOf(w.component_write_acl) = m
      BY <3>1, <3>2, MapOfPairs
    <3> QED
      BY <3>3, <3>4, <3>5
  <2> QED
    BY <2>1, <2>2
<1> QED
  BY <1>1, <1>2, <1>3 DEF Deserialize

(* The same for the data of an entity that comes into view.                *)
THEOREM DataSurvivesTheWire ==
  \A d \in Data : ReadData(WriteData(d)) = d
<1> SUFFICES ASSUME NEW d \in Data
             PROVE  ReadData(WriteData(d)) = d
  OBVIOUS
<1>1. d.component_write_acl \in RequirementMaps
  BY DEF Data
<1>2. MapOf(WriteData(d).component_write_acl) = d.component_write_acl
  BY <1>1, MapOfPairs DEF WriteData
<1> QED
  BY <1>2 DEF ReadData, WriteData, Data


-----------------------------------------------------------------------------
(* Types.                                                                  *)

LEMMA DataAreUpdates == Data \subseteq Updates
BY DEF Data, Updates

LEMMA EmptyTypes == EmptyUpdate \in Updates /\ EmptyData \in Data
<1>1. EmptyMap \in [ {} -> RequirementSets ]
  BY DEF EmptyMap
<1>2. EmptyMap \in RequirementMaps
  BY <1>1 DEF RequirementMaps
<1> QED
  BY <1>2 DEF EmptyUpdate, EmptyData, Updates, Data

(* An update makes data of data.                                           *)
LEMMA ApplyToType ==
  ASSUME NEW u \in Updates, NEW d \in Data
  PROVE  ApplyTo(u, d) \in Data
<1>1. DOMAIN d = { "read_acl", "component_write_acl" }
  BY DEF Data
<1>2. ApplyTo(u, d) = [ read_acl |-> IF u.read_acl = Nothing THEN d.read_acl ELSE u.read_acl,
                        component_write_acl |->
                          IF u.component_write_acl = Nothing THEN d.component_write_acl
                          ELSE u.component_write_acl ]
  BY <1>1 DEF ApplyTo
<1> QED
  BY <1>2 DEF Data, Updates

LEMMA SharingType ==
  \A a \in Addresses \cup {Null} : sharing(a) \in Handles /\ sharing(a).shared = a
BY DEF sharing, Handles

-----------------------------------------------------------------------------
(* The memory.                                                             *)

(* Writing an object, and counting its handles.                            *)
LEMMA WriteMemory ==
  ASSUME NEW mem \in Memories, NEW a \in Addresses, NEW object \in Updates
  PROVE  /\ Write(mem, a, object) \in Memories
         /\ Write(mem, a, object).object = [ mem.object EXCEPT ![a] = object ]
         /\ Write(mem, a, object).uses = mem.uses
BY DEF Write, Memories

LEMMA CountMemory ==
  ASSUME NEW mem \in Memories, NEW a \in Addresses, NEW n \in Nat
  PROVE  /\ Count(mem, a, n) \in Memories
         /\ Count(mem, a, n).object = mem.object
         /\ Count(mem, a, n).uses = [ mem.uses EXCEPT ![a] = n ]
BY DEF Count, Memories

(* A new object.                                                           *)
LEMMA StoreMemory ==
  ASSUME NEW mem \in Memories, NEW a \in Addresses, NEW object \in Updates, NEW n \in Nat
  PROVE  /\ Store(mem, a, object, n) \in Memories
         /\ Store(mem, a, object, n).object = [ mem.object EXCEPT ![a] = object ]
         /\ Store(mem, a, object, n).uses = [ mem.uses EXCEPT ![a] = n ]
<1>1. Write(mem, a, object) \in Memories
  BY WriteMemory
<1>2. /\ Count(Write(mem, a, object), a, n) \in Memories
      /\ Count(Write(mem, a, object), a, n).object = Write(mem, a, object).object
      /\ Count(Write(mem, a, object), a, n).uses = [ Write(mem, a, object).uses EXCEPT ![a] = n ]
  BY <1>1, CountMemory
<1> QED
  BY <1>2, WriteMemory DEF Store

LEMMA MemoryTypes ==
  ASSUME NEW mem \in Memories, NEW a \in Addresses
  PROVE  mem.object[a] \in Updates /\ mem.uses[a] \in Nat
BY DataAreUpdates DEF Memories

(* A handle less, and the object with the last one.                        *)
LEMMA FreeMemory ==
  ASSUME NEW mem \in Memories, NEW a \in Addresses, mem.uses[a] > 0
  PROVE  /\ free(sharing(a), mem) \in Memories
         /\ free(sharing(a), mem).uses = [ mem.uses EXCEPT ![a] = mem.uses[a] - 1 ]
         /\ free(sharing(a), mem).object =
              [ mem.object EXCEPT ![a] = IF mem.uses[a] = 1 THEN EmptyUpdate ELSE mem.object[a] ]
<1> DEFINE object == IF mem.uses[a] = 1 THEN EmptyUpdate ELSE mem.object[a]
<1>1. sharing(a).shared = a /\ a # Null
  BY DEF sharing
<1>2. mem.uses[a] - 1 \in Nat /\ object \in Updates
  BY MemoryTypes, EmptyTypes
<1>3. free(sharing(a), mem) = Store(mem, a, object, mem.uses[a] - 1)
  BY <1>1 DEF free
<1> HIDE DEF object
<1>4. /\ Store(mem, a, object, mem.uses[a] - 1) \in Memories
      /\ Store(mem, a, object, mem.uses[a] - 1).object = [ mem.object EXCEPT ![a] = object ]
      /\ Store(mem, a, object, mem.uses[a] - 1).uses = [ mem.uses EXCEPT ![a] = mem.uses[a] - 1 ]
  BY <1>2, StoreMemory
<1> QED
  BY <1>3, <1>4 DEF object

(* A handle that shares is copied.                                         *)
LEMMA CopyShared ==
  ASSUME NEW mem \in Memories, NEW a \in Addresses, NEW b
  PROVE  new_copy("update", sharing(a), mem, b)
           = [ handle |-> sharing(a), copy |-> sharing(a), mem |-> Count(mem, a, mem.uses[a] + 1) ]
<1>1. sharing(a).shared = a /\ sharing(a).copyable_raw = Null /\ sharing(a).movable_raw = Null
  BY DEF sharing
<1>2. PromoteToShared("update", sharing(a), mem, b) = [ handle |-> sharing(a), mem |-> mem ]
  BY <1>1 DEF PromoteToShared
<1> QED
  BY <1>1, <1>2 DEF new_copy

(* The objects when the writer's update was put at a, and left as a copy   *)
(* or a move leaves it.                                                    *)
PutObjects(mem, a, handle) ==
  [ mem.object EXCEPT ![a] = mem.object[UpdateObject],
      ![UpdateObject] = IF handle = movable(UpdateObject) THEN EmptyUpdate
                        ELSE mem.object[UpdateObject] ]

(* What the user passes to a send is promoted: into a copy, or into an     *)
(* object of its own what he gives away.                                   *)
LEMMA PromoteUpdate ==
  ASSUME NEW mem \in Memories, NEW a \in FreeIn(mem),
         NEW handle \in { copyable(UpdateObject), movable(UpdateObject) }
  PROVE  /\ PromoteToShared("update", handle, mem, a).handle = sharing(a)
         /\ PromoteToShared("update", handle, mem, a).mem \in Memories
         /\ PromoteToShared("update", handle, mem, a).mem.uses = [ mem.uses EXCEPT ![a] = 1 ]
         /\ PromoteToShared("update", handle, mem, a).mem.object = PutObjects(mem, a, handle)
<1> DEFINE U == UpdateObject
           stored == Store(mem, a, mem.object[U], 1)
<1>1. a \in Addresses /\ a # U /\ a # Null /\ U \in Addresses /\ U # Null
  BY DEF FreeIn
<1>2. mem.object[U] \in Updates
  BY <1>1, MemoryTypes
<1>3. /\ stored \in Memories
      /\ stored.object = [ mem.object EXCEPT ![a] = mem.object[U] ]
      /\ stored.uses = [ mem.uses EXCEPT ![a] = 1 ]
  BY <1>1, <1>2, StoreMemory
<1>4. DOMAIN mem.object = Addresses
  BY DEF Memories
<1>5. CASE handle = copyable(U)
  <2>1. handle.copyable_raw = U /\ handle # movable(U)
    BY <1>1, <1>5 DEF copyable, movable
  <2>2. PromoteToShared("update", handle, mem, a) = [ handle |-> sharing(a), mem |-> stored ]
    BY <1>1, <2>1 DEF PromoteToShared
  <2>3. [ mem.object EXCEPT ![a] = mem.object[U], ![U] = mem.object[U] ]
          = [ mem.object EXCEPT ![a] = mem.object[U] ]
    BY <1>1, <1>4
  <2> HIDE DEF stored
  <2> QED
    BY <1>3, <2>1, <2>2, <2>3 DEF PutObjects
<1>6. CASE handle = movable(U)
  <2>1. handle.copyable_raw = Null /\ handle.movable_raw = U
    BY <1>6 DEF movable
  <2>2. PromoteToShared("update", handle, mem, a)
          = [ handle |-> sharing(a), mem |-> Write(stored, U, EmptyUpdate) ]
    BY <1>1, <2>1 DEF PromoteToShared, MovedFrom
  <2> HIDE DEF stored
  <2>3. /\ Write(stored, U, EmptyUpdate) \in Memories
        /\ Write(stored, U, EmptyUpdate).object = [ stored.object EXCEPT ![U] = EmptyUpdate ]
        /\ Write(stored, U, EmptyUpdate).uses = stored.uses
    BY <1>1, <1>3, EmptyTypes, WriteMemory
  <2> QED
    BY <1>3, <1>6, <2>2, <2>3 DEF PutObjects
<1> QED
  BY <1>5, <1>6

(* What a send leaves: two handles on a new object, which is what the      *)
(* update was.                                                             *)
LEMMA SendMemory ==
  ASSUME NEW mem \in Memories, NEW a \in FreeIn(mem),
         NEW handle \in { copyable(UpdateObject), movable(UpdateObject) }
  PROVE  LET first  == new_copy("update", handle, mem, a)
             second == new_copy("update", first.handle, first.mem, a)
             sent   == free(second.handle, second.mem)
         IN  /\ first.copy = sharing(a) /\ second.copy = sharing(a)
             /\ sent \in Memories
             /\ sent.uses = [ mem.uses EXCEPT ![a] = 2 ]
             /\ sent.object = PutObjects(mem, a, handle)
<1> DEFINE first  == new_copy("update", handle, mem, a)
           second == new_copy("update", first.handle, first.mem, a)
           sent   == free(second.handle, second.mem)
           promoted == PromoteToShared("update", handle, mem, a)
           object == PutObjects(mem, a, handle)
<1>1. a \in Addresses /\ a # Null
  BY DEF FreeIn
<1>2. DOMAIN mem.uses = Addresses /\ DOMAIN mem.object = Addresses
  BY DEF Memories
<1>3. /\ promoted.handle = sharing(a) /\ promoted.mem \in Memories
      /\ promoted.mem.uses = [ mem.uses EXCEPT ![a] = 1 ]
      /\ promoted.mem.object = object
  BY PromoteUpdate
<1> DEFINE one == Count(promoted.mem, a, promoted.mem.uses[a] + 1)
<1>4. first = [ handle |-> sharing(a), copy |-> sharing(a), mem |-> one ]
  <2>1. sharing(a).shared = a
    BY DEF sharing
  <2> QED
    BY <1>3, <2>1 DEF new_copy
<1> HIDE DEF promoted, first
<1>5. promoted.mem.uses[a] = 1
  BY <1>1, <1>2, <1>3
<1>6. one \in Memories /\ one.object = object /\ one.uses = [ mem.uses EXCEPT ![a] = 2 ]
  <2>1. one \in Memories /\ one.object = promoted.mem.object
        /\ one.uses = [ promoted.mem.uses EXCEPT ![a] = 2 ]
    BY <1>1, <1>3, <1>5, CountMemory
  <2> QED
    BY <1>2, <1>3, <2>1
<1> HIDE DEF one
<1>7. first.handle = sharing(a) /\ first.mem = one /\ first.copy = sharing(a)
  BY <1>4
<1> DEFINE two == Count(one, a, one.uses[a] + 1)
<1>8. second = [ handle |-> sharing(a), copy |-> sharing(a), mem |-> two ]
  <2>1. new_copy("update", sharing(a), one, a)
          = [ handle |-> sharing(a), copy |-> sharing(a), mem |-> two ]
    BY <1>1, <1>6, CopyShared
  <2> QED
    BY <1>7, <2>1
<1>9. one.uses[a] = 2
  BY <1>1, <1>2, <1>6
<1>10. two \in Memories /\ two.object = object /\ two.uses = [ mem.uses EXCEPT ![a] = 3 ]
  <2>1. two \in Memories /\ two.object = one.object /\ two.uses = [ one.uses EXCEPT ![a] = 3 ]
    BY <1>1, <1>6, <1>9, CountMemory
  <2> QED
    BY <1>2, <1>6, <2>1
<1> HIDE DEF two, second
<1>11. second.handle = sharing(a) /\ second.mem = two /\ second.copy = sharing(a)
  BY <1>8
<1>12. two.uses[a] = 3 /\ DOMAIN two.object = Addresses
  BY <1>1, <1>2, <1>10 DEF Memories
<1>13. /\ sent \in Memories
       /\ sent.uses = [ two.uses EXCEPT ![a] = 2 ]
       /\ sent.object = [ two.object EXCEPT ![a] = two.object[a] ]
  <2>1. two.uses[a] > 0 /\ two.uses[a] # 1 /\ two.uses[a] - 1 = 2
    BY <1>12
  <2>2. /\ free(sharing(a), two) \in Memories
        /\ free(sharing(a), two).uses = [ two.uses EXCEPT ![a] = two.uses[a] - 1 ]
        /\ free(sharing(a), two).object =
             [ two.object EXCEPT ![a] = IF two.uses[a] = 1 THEN EmptyUpdate ELSE two.object[a] ]
    BY <1>1, <1>10, <2>1, FreeMemory
  <2>3. sent = free(sharing(a), two)
    BY <1>11
  <2> QED
    BY <2>1, <2>2, <2>3
<1> HIDE DEF sent
<1>14. sent.uses = [ mem.uses EXCEPT ![a] = 2 ]
  BY <1>1, <1>2, <1>10, <1>13
<1>15. sent.object = object
  <2>1. [ two.object EXCEPT ![a] = two.object[a] ] = two.object
    BY <1>1, <1>10, <1>12 DEF Memories
  <2> QED
    BY <1>10, <1>13, <2>1
<1> QED
  BY <1>7, <1>11, <1>13, <1>14, <1>15 DEF first, second, sent

-----------------------------------------------------------------------------
(* Who shares what.                                                        *)

(* UsesCounted and Apart, of any memory and any four sets of addresses: of *)
(* the outbox, the echoes, the operations that arrived, and the list.      *)
Shares(mem, O, E, A, L) ==
  /\ O \subseteq Addresses /\ E \subseteq Addresses
  /\ A \subseteq Addresses /\ L \subseteq Addresses
  /\ \A b \in Addresses : mem.uses[b] = One(O, b) + One(E, b) + One(A, b) + One(L, b)
  /\ UpdateObject \notin O \cup E \cup A \cup L
  /\ (O \cup E) \cap (A \cup L) = {} /\ A \cap L = {}

(* The objects of `keep` are not written, nor one that is shared, nor the  *)
(* writer's.                                                               *)
Spared(mem, mem2, keep) ==
  \A b \in Addresses : b \in keep \/ mem.uses[b] >= 2 \/ b = UpdateObject
                         => mem2.object[b] = mem.object[b]

LEMMA OneType ==
  \A S, b : One(S, b) \in {0, 1} /\ (One(S, b) = 1 <=> b \in S)
BY DEF One

LEMMA FreeShares ==
  ASSUME NEW mem \in Memories, NEW O, NEW E, NEW A, NEW L, Shares(mem, O, E, A, L),
         NEW h \in O
  PROVE  /\ free(sharing(h), mem) \in Memories
         /\ Shares(free(sharing(h), mem), O \ {h}, E, A, L)
         /\ Spared(mem, free(sharing(h), mem), A \cup L)
<1> DEFINE freed == free(sharing(h), mem)
<1>1. h \in Addresses /\ h # UpdateObject /\ h \notin A \cup L
  BY DEF Shares
<1>2. mem.uses[h] > 0
  BY <1>1, OneType DEF Shares
<1>3. /\ freed \in Memories
      /\ freed.uses = [ mem.uses EXCEPT ![h] = mem.uses[h] - 1 ]
      /\ freed.object =
           [ mem.object EXCEPT ![h] = IF mem.uses[h] = 1 THEN EmptyUpdate ELSE mem.object[h] ]
  BY <1>1, <1>2, FreeMemory
<1> HIDE DEF freed
<1>4. DOMAIN mem.uses = Addresses /\ DOMAIN mem.object = Addresses
  BY DEF Memories
<1>5. \A b \in Addresses :
        freed.uses[b] = One(O \ {h}, b) + One(E, b) + One(A, b) + One(L, b)
  <2> TAKE b \in Addresses
  <2>1. mem.uses[b] = One(O, b) + One(E, b) + One(A, b) + One(L, b)
    BY DEF Shares
  <2>2. CASE b = h
    <3>1. One(O, b) = 1 /\ One(O \ {h}, b) = 0
      BY <2>2 DEF One
    <3>2. freed.uses[b] = mem.uses[b] - 1
      BY <1>1, <1>3, <1>4, <2>2
    <3> QED
      BY <2>1, <3>1, <3>2, OneType
  <2>3. CASE b # h
    <3>1. One(O, b) = One(O \ {h}, b)
      BY <2>3 DEF One
    <3>2. freed.uses[b] = mem.uses[b]
      BY <1>3, <1>4, <2>3
    <3> QED
      BY <2>1, <3>1, <3>2
  <2> QED
    BY <2>2, <2>3
<1>6. Shares(freed, O \ {h}, E, A, L)
  BY <1>5 DEF Shares
<1>7. Spared(mem, freed, A \cup L)
  BY <1>1, <1>3, <1>4 DEF Spared
<1> QED
  BY <1>3, <1>6, <1>7 DEF freed

LEMMA SharesTurned ==
  ASSUME NEW mem, NEW O, NEW E, NEW A, NEW L, Shares(mem, O, E, A, L)
  PROVE  Shares(mem, E, O, A, L)
<1>1. \A b \in Addresses : mem.uses[b] = One(E, b) + One(O, b) + One(A, b) + One(L, b)
  BY OneType DEF Shares
<1> QED
  BY <1>1 DEF Shares

LEMMA StoreShares ==
  ASSUME NEW mem \in Memories, NEW O, NEW E, NEW A, NEW L, Shares(mem, O, E, A, L),
         NEW a \in FreeIn(mem), NEW object \in Updates
  PROVE  /\ a \in Addresses /\ a # Null /\ a \notin O \cup E \cup A \cup L
         /\ Store(mem, a, object, 1) \in Memories
         /\ Store(mem, a, object, 1).object[a] = object
         /\ Shares(Store(mem, a, object, 1), O, E, A \cup {a}, L)
         /\ Spared(mem, Store(mem, a, object, 1), A \cup L)
<1> DEFINE stored == Store(mem, a, object, 1)
<1>1. a \in Addresses /\ a # Null /\ a # UpdateObject /\ mem.uses[a] = 0
  BY DEF FreeIn
<1>2. a \notin O \cup E \cup A \cup L
  <2>1. 0 = One(O, a) + One(E, a) + One(A, a) + One(L, a)
    BY <1>1 DEF Shares
  <2> QED
    BY <2>1, OneType
<1>3. /\ stored \in Memories
      /\ stored.object = [ mem.object EXCEPT ![a] = object ]
      /\ stored.uses = [ mem.uses EXCEPT ![a] = 1 ]
  BY <1>1, StoreMemory
<1> HIDE DEF stored
<1>4. DOMAIN mem.uses = Addresses /\ DOMAIN mem.object = Addresses
  BY DEF Memories
<1>5. \A b \in Addresses :
        stored.uses[b] = One(O, b) + One(E, b) + One(A \cup {a}, b) + One(L, b)
  <2> TAKE b \in Addresses
  <2>1. CASE b = a
    <3>1. stored.uses[b] = 1
      BY <1>1, <1>3, <1>4, <2>1
    <3>2. One(O, b) = 0 /\ One(E, b) = 0 /\ One(A \cup {a}, b) = 1 /\ One(L, b) = 0
      BY <1>2, <2>1 DEF One
    <3> QED
      BY <3>1, <3>2
  <2>2. CASE b # a
    <3>1. stored.uses[b] = mem.uses[b] /\ One(A \cup {a}, b) = One(A, b)
      BY <1>3, <1>4, <2>2 DEF One
    <3> QED
      BY <3>1 DEF Shares
  <2> QED
    BY <2>1, <2>2
<1>6. Shares(stored, O, E, A \cup {a}, L)
  BY <1>1, <1>2, <1>5 DEF Shares
<1>7. Spared(mem, stored, A \cup L) /\ stored.object[a] = object
  BY <1>1, <1>2, <1>3, <1>4 DEF Spared
<1> QED
  BY <1>1, <1>2, <1>3, <1>6, <1>7 DEF stored

LEMMA StoreSpares ==
  ASSUME NEW mem \in Memories, NEW a \in FreeIn(mem), NEW object \in Updates,
         NEW b \in Addresses, mem.uses[b] > 0
  PROVE  Store(mem, a, object, 1).object[b] = mem.object[b]
<1>1. a \in Addresses /\ a # b
  BY DEF FreeIn
<1>2. /\ Store(mem, a, object, 1) \in Memories
      /\ Store(mem, a, object, 1).object = [ mem.object EXCEPT ![a] = object ]
      /\ Store(mem, a, object, 1).uses = [ mem.uses EXCEPT ![a] = 1 ]
  BY <1>1, StoreMemory
<1> QED
  BY <1>1, <1>2 DEF Memories

-----------------------------------------------------------------------------
(* The queues.                                                             *)

LEMMA AppendFacts ==
  ASSUME NEW S, NEW q \in Seq(S), NEW e \in S
  PROVE  /\ Append(q, e) \in Seq(S)
         /\ Len(Append(q, e)) = Len(q) + 1 /\ Len(q) \in Nat
         /\ Append(q, e)[Len(q) + 1] = e
         /\ \A i \in 1 .. Len(q) : Append(q, e)[i] = q[i]
OBVIOUS

LEMMA TailFacts ==
  ASSUME NEW S, NEW q \in Seq(S), q # << >>
  PROVE  /\ Tail(q) \in Seq(S) /\ Head(q) = q[1] /\ Head(q) \in S
         /\ Len(q) \in Nat /\ Len(q) > 0 /\ Len(Tail(q)) = Len(q) - 1
         /\ \A i \in 1 .. Len(q) - 1 : Tail(q)[i] = q[i + 1]
OBVIOUS

(* A handle on a new object is put into a queue of the writer's core.      *)
LEMMA QueueAppend ==
  ASSUME NEW q \in Seq(Handles), QueueOK(q), NEW a \in Addresses, a \notin SharedBy(q)
  PROVE  /\ Append(q, sharing(a)) \in Seq(Handles)
         /\ QueueOK(Append(q, sharing(a)))
         /\ SharedBy(Append(q, sharing(a))) = SharedBy(q) \cup {a}
<1> DEFINE p == Append(q, sharing(a))
<1>1. sharing(a) \in Handles /\ sharing(a).shared = a
  BY SharingType
<1>2. /\ p \in Seq(Handles) /\ Len(p) = Len(q) + 1 /\ Len(q) \in Nat
      /\ p[Len(q) + 1] = sharing(a)
      /\ \A i \in 1 .. Len(q) : p[i] = q[i]
  BY <1>1, AppendFacts
<1> HIDE DEF p
<1>3. \A i \in 1 .. Len(q) : q[i].shared # a
  BY DEF SharedBy
<1>4. QueueOK(p)
  <2> SUFFICES ASSUME NEW i \in 1 .. Len(p)
               PROVE  /\ p[i] = sharing(p[i].shared) /\ p[i].shared # Null
                      /\ \A j \in 1 .. Len(p) : i # j => p[i].shared # p[j].shared
    BY DEF QueueOK
  <2>1. CASE i \in 1 .. Len(q)
    <3>1. p[i] = q[i] /\ q[i].shared # a
      BY <1>2, <1>3, <2>1
    <3>2. ASSUME NEW j \in 1 .. Len(p), i # j
          PROVE  p[i].shared # p[j].shared
      <4>1. CASE j \in 1 .. Len(q)
        BY <1>2, <2>1, <3>1, <3>2, <4>1 DEF QueueOK
      <4>2. CASE j = Len(q) + 1
        BY <1>1, <1>2, <3>1, <4>2
      <4> QED
        BY <1>2, <4>1, <4>2
    <3> QED
      BY <2>1, <3>1, <3>2 DEF QueueOK
  <2>2. CASE i = Len(q) + 1
    <3>1. p[i].shared = a
      BY <1>1, <1>2, <2>2
    <3>2. \A j \in 1 .. Len(p) : i # j => j \in 1 .. Len(q)
      BY <1>2, <2>2
    <3> QED
      BY <1>1, <1>2, <1>3, <2>2, <3>1, <3>2
  <2> QED
    BY <1>2, <2>1, <2>2
<1>5. SharedBy(p) = SharedBy(q) \cup {a}
  <2>1. ASSUME NEW b \in SharedBy(p)
        PROVE  b \in SharedBy(q) \cup {a}
    <3>1. PICK i \in 1 .. Len(p) : b = p[i].shared
      BY DEF SharedBy
    <3>2. CASE i \in 1 .. Len(q)
      BY <1>2, <3>1, <3>2 DEF SharedBy
    <3>3. CASE i = Len(q) + 1
      BY <1>1, <1>2, <3>1, <3>3
    <3> QED
      BY <1>2, <3>2, <3>3
  <2>2. ASSUME NEW b \in SharedBy(q)
        PROVE  b \in SharedBy(p)
    <3>1. PICK i \in 1 .. Len(q) : b = q[i].shared
      BY DEF SharedBy
    <3>2. i \in 1 .. Len(p) /\ b = p[i].shared
      BY <1>2, <3>1
    <3> QED
      BY <3>2 DEF SharedBy
  <2>3. a \in SharedBy(p)
    <3>1. Len(q) + 1 \in 1 .. Len(p) /\ p[Len(q) + 1].shared = a
      BY <1>1, <1>2
    <3> QED
      BY <3>1 DEF SharedBy
  <2> QED
    BY <2>1, <2>2, <2>3
<1> QED
  BY <1>2, <1>4, <1>5 DEF p

(* The first handle is taken off a queue.                                  *)
LEMMA QueueTail ==
  ASSUME NEW q \in Seq(Handles), QueueOK(q), q # << >>
  PROVE  /\ Head(q) = sharing(Head(q).shared)
         /\ Head(q).shared \in SharedBy(q) /\ Head(q).shared \in Addresses
         /\ Tail(q) \in Seq(Handles) /\ QueueOK(Tail(q))
         /\ SharedBy(Tail(q)) = SharedBy(q) \ {Head(q).shared}
<1> DEFINE p == Tail(q)
           h == Head(q).shared
<1>1. /\ p \in Seq(Handles) /\ Head(q) = q[1] /\ Head(q) \in Handles
      /\ Len(q) \in Nat /\ Len(q) > 0 /\ Len(p) = Len(q) - 1
      /\ \A i \in 1 .. Len(q) - 1 : p[i] = q[i + 1]
  BY TailFacts
<1> HIDE DEF p
<1>2. \A i \in 1 .. Len(p) : p[i] = q[i + 1] /\ i + 1 \in 1 .. Len(q) /\ i + 1 # 1
  BY <1>1
<1>3. 1 \in 1 .. Len(q)
  BY <1>1
<1>4. Head(q) = sharing(h) /\ h # Null /\ h \in SharedBy(q) /\ h \in Addresses
  <2>1. q[1] = sharing(q[1].shared) /\ q[1].shared # Null
    BY <1>3 DEF QueueOK
  <2>2. h \in Addresses \cup {Null}
    BY <1>1 DEF Handles
  <2> QED
    BY <1>1, <1>3, <2>1, <2>2 DEF SharedBy
<1>5. QueueOK(p)
  <2> SUFFICES ASSUME NEW i \in 1 .. Len(p)
               PROVE  /\ p[i] = sharing(p[i].shared) /\ p[i].shared # Null
                      /\ \A j \in 1 .. Len(p) : i # j => p[i].shared # p[j].shared
    BY DEF QueueOK
  <2>1. p[i] = q[i + 1] /\ i + 1 \in 1 .. Len(q)
    BY <1>2
  <2>2. ASSUME NEW j \in 1 .. Len(p), i # j
        PROVE  p[i].shared # p[j].shared
    <3>1. p[j] = q[j + 1] /\ j + 1 \in 1 .. Len(q) /\ i + 1 # j + 1
      BY <1>2, <2>2
    <3> QED
      BY <2>1, <3>1 DEF QueueOK
  <2> QED
    BY <2>1, <2>2 DEF QueueOK
<1>6. SharedBy(p) = SharedBy(q) \ {h}
  <2>1. ASSUME NEW b \in SharedBy(p)
        PROVE  b \in SharedBy(q) \ {h}
    <3>1. PICK i \in 1 .. Len(p) : b = p[i].shared
      BY DEF SharedBy
    <3>2. b = q[i + 1].shared /\ i + 1 \in 1 .. Len(q) /\ i + 1 # 1
      BY <1>2, <3>1
    <3>3. b # h
      BY <1>1, <1>3, <3>2 DEF QueueOK
    <3> QED
      BY <3>2, <3>3 DEF SharedBy
  <2>2. ASSUME NEW b \in SharedBy(q) \ {h}
        PROVE  b \in SharedBy(p)
    <3>1. PICK i \in 1 .. Len(q) : b = q[i].shared
      BY DEF SharedBy
    <3>2. i # 1
      BY <1>1, <2>2, <3>1
    <3>3. i - 1 \in 1 .. Len(p) /\ p[i - 1] = q[i]
      BY <1>1, <3>1, <3>2
    <3> QED
      BY <3>1, <3>3 DEF SharedBy
  <2> QED
    BY <2>1, <2>2
<1> QED
  BY <1>1, <1>4, <1>5, <1>6 DEF p

LEMMA QueueAddresses ==
  ASSUME NEW q \in Seq(Handles), QueueOK(q)
  PROVE  SharedBy(q) \subseteq Addresses
<1> SUFFICES ASSUME NEW i \in 1 .. Len(q)
             PROVE  q[i].shared \in Addresses
  BY DEF SharedBy
<1>1. q[i] \in Handles /\ q[i].shared # Null
  BY DEF QueueOK
<1> QED
  BY <1>1 DEF Handles

LEMMA OpsAddresses ==
  ASSUME NEW ops \in Seq(OpRecords)
  PROVE  OwnedBy(ops) \subseteq Addresses
<1> SUFFICES ASSUME NEW i \in 1 .. Len(ops), ops[i].handle.shared # Null
             PROVE  ops[i].handle.shared \in Addresses
  BY DEF OwnedBy
<1>1. ops[i] \in OpRecords
  OBVIOUS
<1> QED
  BY <1>1 DEF OpRecords, Handles

(* Operations are not concerned by what is written elsewhere, nor by data  *)
(* that is written over data.                                              *)
LEMMA OpsFrame ==
  ASSUME NEW mem, NEW mem2, NEW ops \in Seq(OpRecords), OpsOK(ops, mem),
         \A b \in OwnedBy(ops) : mem2.object[b] = mem.object[b] \/ mem2.object[b] \in Data
  PROVE  OpsOK(ops, mem2)
<1> SUFFICES ASSUME NEW i \in 1 .. Len(ops),
                    ops[i].type \in { "add_component", "entity_query_response" }
             PROVE  mem2.object[ops[i].handle.shared] \in Data
  BY DEF OpsOK
<1>1. mem.object[ops[i].handle.shared] \in Data
  BY DEF OpsOK
<1>2. ops[i].handle.shared # Null
  <2>1. ops[i].handle.shared = Null <=> ops[i].type = "remove_component"
    BY DEF OpsOK
  <2> QED
    BY <2>1
<1>3. ops[i].handle.shared \in OwnedBy(ops)
  BY <1>2 DEF OwnedBy
<1> QED
  BY <1>1, <1>3

(* An operation arrives, with an object of its own if it has one.          *)
LEMMA OpsAppend ==
  ASSUME NEW mem, NEW ops \in Seq(OpRecords), OpsOK(ops, mem),
         NEW type \in OpTypes, NEW said \in Data, NEW a \in Addresses \cup {Null},
         a \notin OwnedBy(ops),
         a = Null <=> type = "remove_component",
         type \in { "add_component", "entity_query_response" } => mem.object[a] \in Data
  PROVE  LET p == Append(ops, [ type |-> type, handle |-> sharing(a), said |-> said ])
         IN  p \in Seq(OpRecords) /\ OpsOK(p, mem) /\ OwnedBy(p) = (OwnedBy(ops) \cup {a}) \ {Null}
<1> DEFINE op == [ type |-> type, handle |-> sharing(a), said |-> said ]
           p  == Append(ops, op)
<1>1. sharing(a) \in Handles /\ sharing(a).shared = a
  BY SharingType
<1>2. op \in OpRecords /\ op.handle = sharing(a) /\ op.type = type
  BY <1>1 DEF OpRecords
<1> HIDE DEF op
<1>3. /\ p \in Seq(OpRecords) /\ Len(p) = Len(ops) + 1 /\ Len(ops) \in Nat
      /\ p[Len(ops) + 1] = op
      /\ \A i \in 1 .. Len(ops) : p[i] = ops[i]
  BY <1>2, AppendFacts
<1> HIDE DEF p
<1>4. \A i \in 1 .. Len(ops) : ops[i].handle.shared = a => a = Null
  BY DEF OwnedBy
<1>5. OpsOK(p, mem)
  <2> SUFFICES ASSUME NEW i \in 1 .. Len(p)
               PROVE  LET b == p[i].handle.shared
                      IN  /\ p[i].handle = sharing(b)
                          /\ b = Null <=> p[i].type = "remove_component"
                          /\ b # Null => \A j \in 1 .. Len(p) : i # j => b # p[j].handle.shared
                          /\ p[i].type \in { "add_component", "entity_query_response" }
                               => mem.object[b] \in Data
    BY DEF OpsOK
  <2>1. CASE i \in 1 .. Len(ops)
    <3>1. p[i] = ops[i]
      BY <1>3, <2>1
    <3>2. ASSUME p[i].handle.shared # Null, NEW j \in 1 .. Len(p), i # j
          PROVE  p[i].handle.shared # p[j].handle.shared
      <4>1. CASE j \in 1 .. Len(ops)
        BY <1>3, <2>1, <3>1, <3>2, <4>1 DEF OpsOK
      <4>2. CASE j = Len(ops) + 1
        BY <1>1, <1>2, <1>3, <1>4, <2>1, <3>1, <3>2, <4>2
      <4> QED
        BY <1>3, <4>1, <4>2
    <3> QED
      BY <2>1, <3>1, <3>2 DEF OpsOK
  <2>2. CASE i = Len(ops) + 1
    <3>1. p[i] = op /\ p[i].handle.shared = a
      BY <1>1, <1>2, <1>3, <2>2
    <3>2. \A j \in 1 .. Len(p) : i # j => j \in 1 .. Len(ops) /\ p[j] = ops[j]
      BY <1>3, <2>2
    <3> QED
      BY <1>2, <1>4, <3>1, <3>2
  <2> QED
    BY <1>3, <2>1, <2>2
<1>6. OwnedBy(p) = (OwnedBy(ops) \cup {a}) \ {Null}
  <2>1. ASSUME NEW b \in OwnedBy(p)
        PROVE  b \in (OwnedBy(ops) \cup {a}) \ {Null}
    <3>1. PICK i \in 1 .. Len(p) : b = p[i].handle.shared
      BY DEF OwnedBy
    <3>2. b # Null
      BY DEF OwnedBy
    <3>3. CASE i \in 1 .. Len(ops)
      BY <1>3, <3>1, <3>2, <3>3 DEF OwnedBy
    <3>4. CASE i = Len(ops) + 1
      BY <1>1, <1>2, <1>3, <3>1, <3>2, <3>4
    <3> QED
      BY <1>3, <3>3, <3>4
  <2>2. ASSUME NEW b \in OwnedBy(ops)
        PROVE  b \in OwnedBy(p)
    <3>1. PICK i \in 1 .. Len(ops) : b = ops[i].handle.shared
      BY DEF OwnedBy
    <3>2. i \in 1 .. Len(p) /\ b = p[i].handle.shared /\ b # Null
      BY <1>3, <3>1 DEF OwnedBy
    <3> QED
      BY <3>2 DEF OwnedBy
  <2>3. a # Null => a \in OwnedBy(p)
    <3>1. Len(ops) + 1 \in 1 .. Len(p) /\ p[Len(ops) + 1].handle.shared = a
      BY <1>1, <1>2, <1>3
    <3> QED
      BY <3>1 DEF OwnedBy
  <2>4. Null \notin OwnedBy(ops)
    BY DEF OwnedBy
  <2> QED
    BY <2>1, <2>2, <2>3, <2>4
<1> QED
  BY <1>3, <1>5, <1>6 DEF p, op

-----------------------------------------------------------------------------
(* The actions, one by one.                                                *)

Sharing ==
  Shares(memory, SharedBy(outbox), SharedBy(echoes), OwnedBy(arrived), OwnedBy(list))

QueuesOK ==
  QueueOK(outbox) /\ QueueOK(echoes) /\ OpsOK(arrived, memory) /\ OpsOK(list, memory)

(* The inductive invariant, as the lemmas on memory and queues speak of it. *)
LEMMA IInvMeans ==
  ReplicationIInv <=> ReplicationTypeOK /\ Sharing /\ QueuesOK
<1>1. ASSUME ReplicationTypeOK, QueuesOK
      PROVE  /\ SharedBy(outbox) \subseteq Addresses /\ SharedBy(echoes) \subseteq Addresses
             /\ OwnedBy(arrived) \subseteq Addresses /\ OwnedBy(list) \subseteq Addresses
  BY <1>1, QueueAddresses, OpsAddresses DEF ReplicationTypeOK, QueuesOK
<1>2. ASSUME ReplicationTypeOK, QueuesOK
      PROVE  UsesCounted /\ Apart <=> Sharing
  BY <1>1, <1>2 DEF UsesCounted, Apart, Sharing, Shares
<1> QED
  BY <1>2 DEF ReplicationIInv, Ownership, QueuesOK

(* What a step may not do to an object that is shared, and most may not do *)
(* to the writer's.                                                        *)
SharedKept ==
  \A b \in Addresses : memory.uses[b] >= 2 => memory'.object[b] = memory.object[b]

UpdateKept == memory'.object[UpdateObject] = memory.object[UpdateObject]

LEMMA EmptyQueues ==
  /\ << >> \in Seq(Handles) /\ << >> \in Seq(OpRecords)
  /\ QueueOK(<< >>) /\ \A mem : OpsOK(<< >>, mem)
  /\ SharedBy(<< >>) = {} /\ OwnedBy(<< >>) = {}
BY DEF QueueOK, OpsOK, SharedBy, OwnedBy

LEMMA InitMeans ==
  Init => ReplicationTypeOK /\ Sharing /\ QueuesOK
<1> SUFFICES ASSUME Init
             PROVE  ReplicationTypeOK /\ Sharing /\ QueuesOK
  OBVIOUS
<1>1. ReplicationTypeOK
  <2>1. memory \in Memories
    BY EmptyTypes DEF Init, Memories
  <2>2. { mine, world, intended } \subseteq Data
    BY EmptyTypes DEF Init
  <2>3. /\ outbox \in Seq(Handles) /\ echoes \in Seq(Handles)
        /\ arrived \in Seq(OpRecords) /\ list \in Seq(OpRecords) /\ list = << >>
    BY EmptyQueues DEF Init
  <2>4. view \in [ Views -> Data \cup {NoData} ] /\ at \in [ Views -> Nat ]
    <3>1. view = [ v \in Views |-> NoData ] /\ at = [ v \in Views |-> 0 ]
      BY DEF Init
    <3>2. [ v \in Views |-> NoData ] \in [ Views -> Data \cup {NoData} ]
      OBVIOUS
    <3>3. [ v \in Views |-> 0 ] \in [ Views -> Nat ]
      OBVIOUS
    <3> QED
      BY <3>1, <3>2, <3>3
  <2>5. in_view \in BOOLEAN /\ sends \in 0 .. MaxSends /\ changes \in 0 .. MaxChanges
    <3>1. in_view \in BOOLEAN
      BY DEF Init
    <3>2. sends \in 0 .. MaxSends /\ changes \in 0 .. MaxChanges
      BY DEF Init
    <3> QED
      BY <3>1, <3>2
  <2> QED
    BY <2>1, <2>2, <2>3, <2>4, <2>5 DEF ReplicationTypeOK
<1>2. \A b \in Addresses : memory.uses[b] = 0
  BY DEF Init
<1>3. Sharing
  BY <1>2, EmptyQueues DEF Init, Sharing, Shares, One
<1> QED
  BY <1>1, <1>3, EmptyQueues DEF Init, QueuesOK

LEMMA EditStep ==
  ASSUME ReplicationTypeOK, Sharing, QueuesOK, Edit
  PROVE  ReplicationTypeOK' /\ Sharing' /\ QueuesOK' /\ SharedKept
<1> DEFINE U == UpdateObject
<1>1. PICK u \in Updates : memory' = [ memory EXCEPT !.object[U] = u ]
  BY DEF Edit
<1>2. /\ UNCHANGED << outbox, echoes, mine, intended, sends, list, at, view, answer >>
      /\ UNCHANGED << world, in_view, arrived, changes >>
  BY DEF Edit, writer, reader, spatial
<1>3. memory = [ object |-> memory.object, uses |-> memory.uses ]
      /\ memory.object \in [ Addresses -> Data \cup Updates ]
      /\ memory.uses \in [ Addresses -> Nat ]
  BY DEF ReplicationTypeOK, Memories
<1>4. memory'.object = [ memory.object EXCEPT ![U] = u ] /\ memory'.uses = memory.uses
      /\ memory' \in Memories
  BY <1>1, <1>3 DEF Memories
<1>5. ReplicationTypeOK'
  BY <1>2, <1>4 DEF ReplicationTypeOK
<1>6. Sharing'
  BY <1>2, <1>4 DEF Sharing, Shares
<1>7. U \notin OwnedBy(arrived) /\ U \notin OwnedBy(list) /\ memory.uses[U] = 0
  BY OneType DEF Sharing, Shares, One
<1>8. \A b \in Addresses : b # U => memory'.object[b] = memory.object[b]
  BY <1>3, <1>4
<1>9. OpsOK(arrived, memory') /\ OpsOK(list, memory')
  <2>1. arrived \in Seq(OpRecords) /\ list \in Seq(OpRecords)
    BY DEF ReplicationTypeOK
  <2>2. OwnedBy(arrived) \subseteq Addresses /\ OwnedBy(list) \subseteq Addresses
    BY <2>1, OpsAddresses
  <2>3. /\ \A b \in OwnedBy(arrived) : memory'.object[b] = memory.object[b]
        /\ \A b \in OwnedBy(list) : memory'.object[b] = memory.object[b]
    BY <1>7, <1>8, <2>2
  <2>4. OpsOK(arrived, memory) /\ OpsOK(list, memory)
    BY DEF QueuesOK
  <2> QED
    BY <2>1, <2>3, <2>4, OpsFrame
<1>10. QueuesOK'
  BY <1>2, <1>9 DEF QueuesOK
<1>11. SharedKept
  BY <1>7, <1>8 DEF SharedKept
<1> QED
  BY <1>5, <1>6, <1>10, <1>11

(* The operations on their way do not notice what happens to other memory. *)
LEMMA OpsSpared ==
  ASSUME ReplicationTypeOK, Sharing, QueuesOK, NEW mem2,
         Spared(memory, mem2, OwnedBy(arrived) \cup OwnedBy(list))
  PROVE  OpsOK(arrived, mem2) /\ OpsOK(list, mem2)
<1>1. arrived \in Seq(OpRecords) /\ list \in Seq(OpRecords)
  BY DEF ReplicationTypeOK
<1>2. OwnedBy(arrived) \subseteq Addresses /\ OwnedBy(list) \subseteq Addresses
  BY <1>1, OpsAddresses
<1>3. /\ \A b \in OwnedBy(arrived) : mem2.object[b] = memory.object[b]
      /\ \A b \in OwnedBy(list) : mem2.object[b] = memory.object[b]
  BY <1>2 DEF Spared
<1>4. OpsOK(arrived, memory) /\ OpsOK(list, memory)
  BY DEF QueuesOK
<1> QED
  BY <1>1, <1>3, <1>4, OpsFrame

LEMMA SendStep ==
  ASSUME ReplicationTypeOK, Sharing, QueuesOK,
         NEW handle \in { copyable(UpdateObject), movable(UpdateObject) }, Send(handle)
  PROVE  /\ ReplicationTypeOK' /\ Sharing' /\ QueuesOK' /\ SharedKept
         /\ memory'.object[UpdateObject] =
              IF handle = movable(UpdateObject) THEN EmptyUpdate
              ELSE memory.object[UpdateObject]
<1> DEFINE U == UpdateObject
           O == SharedBy(outbox)
           E == SharedBy(echoes)
           A == OwnedBy(arrived)
           L == OwnedBy(list)
<1>1. memory \in Memories
  BY DEF ReplicationTypeOK
<1>2. PICK a \in FreeIn(memory) :
        LET first  == new_copy("update", handle, memory, a)
            second == new_copy("update", first.handle, first.mem, a)
        IN  /\ memory' = free(second.handle, second.mem)
            /\ outbox' = Append(outbox, first.copy)
            /\ echoes' = Append(echoes, second.copy)
  BY DEF Send
<1>3. /\ outbox' = Append(outbox, sharing(a)) /\ echoes' = Append(echoes, sharing(a))
      /\ memory' \in Memories
      /\ memory'.uses = [ memory.uses EXCEPT ![a] = 2 ]
      /\ memory'.object = PutObjects(memory, a, handle)
  BY <1>1, <1>2, SendMemory
<1>4. /\ intended' = ApplyTo(memory.object[U], intended)
      /\ sends < MaxSends /\ sends' = sends + 1
      /\ UNCHANGED << mine, list, at, view, answer, world, in_view, arrived, changes >>
  BY DEF Send, reader, spatial
<1>5. a \in Addresses /\ a # U /\ memory.uses[a] = 0
  BY DEF FreeIn
<1>6. a \notin O \cup E \cup A \cup L
  <2>1. 0 = One(O, a) + One(E, a) + One(A, a) + One(L, a)
    BY <1>5 DEF Sharing, Shares
  <2> QED
    BY <2>1, OneType
<1>7. /\ outbox' \in Seq(Handles) /\ QueueOK(outbox') /\ SharedBy(outbox') = O \cup {a}
      /\ echoes' \in Seq(Handles) /\ QueueOK(echoes') /\ SharedBy(echoes') = E \cup {a}
  <2>1. outbox \in Seq(Handles) /\ echoes \in Seq(Handles)
    BY DEF ReplicationTypeOK
  <2>2. QueueOK(outbox) /\ QueueOK(echoes)
    BY DEF QueuesOK
  <2> QED
    BY <1>3, <1>5, <1>6, <2>1, <2>2, QueueAppend
<1>8. DOMAIN memory.uses = Addresses /\ DOMAIN memory.object = Addresses
  BY <1>1 DEF Memories
<1>9. ReplicationTypeOK'
  <2>1. memory.object[U] \in Updates
    BY <1>1, MemoryTypes
  <2>2. intended' \in Data
    BY <1>4, <2>1, ApplyToType DEF ReplicationTypeOK
  <2>3. sends' \in 0 .. MaxSends
    BY <1>4 DEF ReplicationTypeOK
  <2> QED
    BY <1>3, <1>4, <1>7, <2>2, <2>3 DEF ReplicationTypeOK
<1>10. \A b \in Addresses :
         memory'.uses[b] = One(O \cup {a}, b) + One(E \cup {a}, b) + One(A, b) + One(L, b)
  <2> TAKE b \in Addresses
  <2>1. CASE b = a
    <3>1. memory'.uses[b] = 2
      BY <1>3, <1>5, <1>8, <2>1
    <3>2. One(O \cup {a}, b) = 1 /\ One(E \cup {a}, b) = 1 /\ One(A, b) = 0 /\ One(L, b) = 0
      BY <1>6, <2>1 DEF One
    <3> QED
      BY <3>1, <3>2
  <2>2. CASE b # a
    <3>1. memory'.uses[b] = memory.uses[b]
      BY <1>3, <1>8, <2>2
    <3>2. One(O \cup {a}, b) = One(O, b) /\ One(E \cup {a}, b) = One(E, b)
      BY <2>2 DEF One
    <3> QED
      BY <3>1, <3>2 DEF Sharing, Shares
  <2> QED
    BY <2>1, <2>2
<1>11. Sharing'
  <2>1. Shares(memory', O \cup {a}, E \cup {a}, A, L)
    BY <1>5, <1>6, <1>10 DEF Sharing, Shares
  <2> QED
    BY <1>4, <1>7, <2>1 DEF Sharing
<1>12. U \notin A \cup L /\ memory.uses[U] = 0
  BY OneType DEF Sharing, Shares, One
<1>13. \A b \in Addresses : b # U /\ b # a => memory'.object[b] = memory.object[b]
  BY <1>3, <1>8 DEF PutObjects
<1>14. OpsOK(arrived, memory') /\ OpsOK(list, memory')
  <2>1. arrived \in Seq(OpRecords) /\ list \in Seq(OpRecords)
    BY DEF ReplicationTypeOK
  <2>2. A \subseteq Addresses /\ L \subseteq Addresses
    BY <2>1, OpsAddresses
  <2>3. /\ \A b \in A : memory'.object[b] = memory.object[b]
        /\ \A b \in L : memory'.object[b] = memory.object[b]
    BY <1>6, <1>12, <1>13, <2>2
  <2>4. OpsOK(arrived, memory) /\ OpsOK(list, memory)
    BY DEF QueuesOK
  <2> QED
    BY <2>1, <2>3, <2>4, OpsFrame
<1>15. QueuesOK'
  BY <1>4, <1>7, <1>14 DEF QueuesOK
<1>16. SharedKept
  BY <1>5, <1>12, <1>13 DEF SharedKept
<1>17. memory'.object[U] = IF handle = movable(U) THEN EmptyUpdate ELSE memory.object[U]
  BY <1>3, <1>8 DEF PutObjects
<1> QED
  BY <1>9, <1>11, <1>15, <1>16, <1>17

LEMMA ProcessEchoStep ==
  ASSUME ReplicationTypeOK, Sharing, QueuesOK, ProcessEcho
  PROVE  ReplicationTypeOK' /\ Sharing' /\ QueuesOK' /\ SharedKept /\ UpdateKept
<1> DEFINE O == SharedBy(outbox)
           E == SharedBy(echoes)
           A == OwnedBy(arrived)
           L == OwnedBy(list)
           h == Head(echoes).shared
<1>1. /\ mine' = ApplyTo(get(Head(echoes), memory), mine)
      /\ memory' = free(Head(echoes), memory)
      /\ echoes # << >> /\ echoes' = Tail(echoes)
      /\ UNCHANGED << outbox, intended, sends, list, at, view, answer >>
      /\ UNCHANGED << world, in_view, arrived, changes >>
  BY DEF ProcessEcho, reader, spatial
<1>2. memory \in Memories /\ echoes \in Seq(Handles) /\ QueueOK(echoes)
  BY DEF ReplicationTypeOK, QueuesOK
<1>3. /\ Head(echoes) = sharing(h) /\ h \in E /\ h \in Addresses
      /\ echoes' \in Seq(Handles) /\ QueueOK(echoes') /\ SharedBy(echoes') = E \ {h}
  BY <1>1, <1>2, QueueTail
<1>4. Shares(memory, E, O, A, L)
  BY SharesTurned DEF Sharing
<1>5. /\ memory' \in Memories
      /\ Shares(memory', E \ {h}, O, A, L)
      /\ Spared(memory, memory', A \cup L)
  BY <1>1, <1>2, <1>3, <1>4, FreeShares
<1>6. Sharing'
  <2>1. Shares(memory', O, E \ {h}, A, L)
    BY <1>5, SharesTurned
  <2> QED
    BY <1>1, <1>3, <2>1 DEF Sharing
<1>7. ReplicationTypeOK'
  <2>1. get(Head(echoes), memory) = memory.object[h]
    BY <1>3 DEF get, sharing
  <2>2. mine' \in Data
    BY <1>1, <1>2, <1>3, <2>1, MemoryTypes, ApplyToType DEF ReplicationTypeOK
  <2> QED
    BY <1>1, <1>3, <1>5, <2>2 DEF ReplicationTypeOK
<1>8. QueuesOK'
  <2>1. OpsOK(arrived, memory') /\ OpsOK(list, memory')
    BY <1>5, OpsSpared
  <2> QED
    BY <1>1, <1>3, <2>1 DEF QueuesOK
<1>9. SharedKept /\ UpdateKept
  BY <1>5 DEF Spared, SharedKept, UpdateKept
<1> QED
  BY <1>6, <1>7, <1>8, <1>9

(* What arrives at the reader's: an object and the operation that has it.  *)
LEMMA ArriveMeans ==
  ASSUME NEW mem \in Memories, NEW O, NEW E, NEW L,
         arrived \in Seq(OpRecords), world \in Data,
         Shares(mem, O, E, OwnedBy(arrived), L), OpsOK(arrived, mem),
         NEW type \in OpTypes \ {"remove_component"}, NEW object \in Updates,
         type \in { "add_component", "entity_query_response" } => object \in Data,
         Arrive(type, object, mem)
  PROVE  /\ memory' \in Memories /\ arrived' \in Seq(OpRecords)
         /\ Shares(memory', O, E, OwnedBy(arrived'), L)
         /\ OpsOK(arrived', memory')
         /\ Spared(mem, memory', OwnedBy(arrived) \cup L)
         /\ \A b \in Addresses : mem.uses[b] > 0 => memory'.object[b] = mem.object[b]
<1> DEFINE A == OwnedBy(arrived)
<1>1. PICK a \in FreeIn(mem) :
        /\ memory' = Store(mem, a, object, 1)
        /\ arrived' = Append(arrived, Op(type, sharing(a)))
  BY DEF Arrive
<1>2. /\ a \in Addresses /\ a # Null /\ a \notin O \cup E \cup A \cup L
      /\ memory' \in Memories /\ memory'.object[a] = object
      /\ Shares(memory', O, E, A \cup {a}, L)
      /\ Spared(mem, memory', A \cup L)
  <2> DEFINE stored == Store(mem, a, object, 1)
  <2>1. Shares(mem, O, E, A, L)
    OBVIOUS
  <2> HIDE DEF A
  <2>2. /\ a \in Addresses /\ a # Null /\ a \notin O \cup E \cup A \cup L
        /\ stored \in Memories /\ stored.object[a] = object
        /\ Shares(stored, O, E, A \cup {a}, L)
        /\ Spared(mem, stored, A \cup L)
    BY <2>1, StoreShares
  <2> HIDE DEF stored
  <2>3. memory' = stored
    BY <1>1 DEF stored
  <2> QED
    BY <2>2, <2>3
<1>3. OpsOK(arrived, memory')
  <2>1. A \subseteq Addresses
    BY OpsAddresses
  <2>2. \A b \in A : memory'.object[b] = mem.object[b]
    BY <1>2, <2>1 DEF Spared
  <2> QED
    BY <2>2, OpsFrame
<1>4. arrived' = Append(arrived, [ type |-> type, handle |-> sharing(a), said |-> world ])
  BY <1>1 DEF Op
<1>5. /\ arrived' \in Seq(OpRecords) /\ OpsOK(arrived', memory')
      /\ OwnedBy(arrived') = (A \cup {a}) \ {Null}
  BY <1>2, <1>3, <1>4, OpsAppend
<1>6. OwnedBy(arrived') = A \cup {a}
  BY <1>2, <1>5 DEF OwnedBy
<1>7. \A b \in Addresses : mem.uses[b] > 0 => memory'.object[b] = mem.object[b]
  BY <1>1, StoreSpares
<1> QED
  BY <1>2, <1>5, <1>6, <1>7

LEMMA TransmitStep ==
  ASSUME ReplicationTypeOK, Sharing, QueuesOK, Transmit
  PROVE  ReplicationTypeOK' /\ Sharing' /\ QueuesOK' /\ SharedKept /\ UpdateKept
<1> DEFINE O == SharedBy(outbox)
           E == SharedBy(echoes)
           A == OwnedBy(arrived)
           L == OwnedBy(list)
           h == Head(outbox).shared
           update == Deserialize(Serialize(get(Head(outbox), memory)))
           freed  == free(Head(outbox), memory)
<1>1. /\ outbox # << >> /\ outbox' = Tail(outbox) /\ world' = ApplyTo(update, world)
      /\ IF in_view THEN Arrive("update", update, freed)
         ELSE memory' = freed /\ UNCHANGED arrived
      /\ UNCHANGED << echoes, mine, intended, sends, in_view, changes, list, at, view, answer >>
  BY DEF Transmit, reader
<1>2. /\ memory \in Memories /\ outbox \in Seq(Handles) /\ QueueOK(outbox)
      /\ arrived \in Seq(OpRecords) /\ list \in Seq(OpRecords) /\ world \in Data
  BY DEF ReplicationTypeOK, QueuesOK
<1>3. /\ Head(outbox) = sharing(h) /\ h \in O /\ h \in Addresses
      /\ outbox' \in Seq(Handles) /\ QueueOK(outbox') /\ SharedBy(outbox') = O \ {h}
  BY <1>1, <1>2, QueueTail
<1>4. update = memory.object[h] /\ update \in Updates
  <2>1. get(Head(outbox), memory) = memory.object[h]
    BY <1>3 DEF get, sharing
  <2> QED
    BY <1>2, <1>3, <2>1, MemoryTypes, UpdateSurvivesTheWire
<1>5. world' \in Data
  BY <1>1, <1>2, <1>4, ApplyToType
<1>6. /\ freed \in Memories
      /\ Shares(freed, O \ {h}, E, A, L)
      /\ Spared(memory, freed, A \cup L)
  BY <1>2, <1>3, FreeShares DEF Sharing
<1>7. OpsOK(arrived, freed) /\ OpsOK(list, freed)
  BY <1>6, OpsSpared
<1>8. /\ memory' \in Memories /\ arrived' \in Seq(OpRecords)
      /\ Shares(memory', O \ {h}, E, OwnedBy(arrived'), L)
      /\ OpsOK(arrived', memory') /\ OpsOK(list, memory')
      /\ SharedKept /\ UpdateKept
  <2>1. CASE ~in_view
    <3>1. memory' = freed /\ arrived' = arrived
      BY <1>1, <2>1
    <3> QED
      BY <1>2, <1>6, <1>7, <3>1 DEF Spared, SharedKept, UpdateKept
  <2>2. CASE in_view
    <3>1. Arrive("update", update, freed)
      BY <1>1, <2>2
    <3> HIDE DEF freed, update
    <3>2. "update" \in OpTypes \ {"remove_component"}
      BY DEF OpTypes
    <3>3. /\ memory' \in Memories /\ arrived' \in Seq(OpRecords)
          /\ Shares(memory', O \ {h}, E, OwnedBy(arrived'), L)
          /\ OpsOK(arrived', memory')
          /\ Spared(freed, memory', A \cup L)
          /\ \A b \in Addresses : freed.uses[b] > 0 => memory'.object[b] = freed.object[b]
      BY <1>2, <1>4, <1>6, <1>7, <3>1, <3>2, ArriveMeans
    <3>4. OpsOK(list, memory')
      <4>1. \A b \in L : memory'.object[b] = freed.object[b]
        BY <1>2, <3>3, OpsAddresses DEF Spared
      <4> QED
        BY <1>2, <1>7, <4>1, OpsFrame
    <3>5. SharedKept /\ UpdateKept
      <4>1. UpdateKept
        BY <1>6, <3>3 DEF Spared, UpdateKept
      <4>2. SUFFICES ASSUME NEW b \in Addresses, memory.uses[b] >= 2
                     PROVE  memory'.object[b] = memory.object[b]
        BY <4>1 DEF SharedKept
      <4>3. freed.object[b] = memory.object[b]
        BY <1>6, <4>2 DEF Spared
      <4>4. freed.uses[b] > 0
        <5>1. memory.uses[b] = One(O, b) + One(E, b) + One(A, b) + One(L, b)
          BY DEF Sharing, Shares
        <5>2. freed.uses[b] = One(O \ {h}, b) + One(E, b) + One(A, b) + One(L, b)
          BY <1>6 DEF Shares
        <5> QED
          BY <4>2, <5>1, <5>2, OneType
      <4> QED
        BY <3>3, <4>3, <4>4
    <3> QED
      BY <3>3, <3>4, <3>5
  <2> QED
    BY <2>1, <2>2
<1>9. Sharing'
  BY <1>1, <1>3, <1>8 DEF Sharing
<1>10. ReplicationTypeOK'
  BY <1>1, <1>3, <1>5, <1>8 DEF ReplicationTypeOK
<1>11. QueuesOK'
  BY <1>1, <1>3, <1>8 DEF QueuesOK
<1> QED
  BY <1>8, <1>9, <1>10, <1>11

LEMMA ArriveStep ==
  ASSUME ReplicationTypeOK, Sharing, QueuesOK,
         NEW type \in { "add_component", "entity_query_response" },
         Arrive(type, ReadData(WriteData(world)), memory),
         in_view' \in BOOLEAN, changes < MaxChanges, changes' = changes + 1,
         UNCHANGED << world, writer, reader >>
  PROVE  ReplicationTypeOK' /\ Sharing' /\ QueuesOK' /\ SharedKept /\ UpdateKept
<1> DEFINE O == SharedBy(outbox)
           E == SharedBy(echoes)
           A == OwnedBy(arrived)
           L == OwnedBy(list)
<1>1. UNCHANGED << world, outbox, echoes, mine, intended, sends, list, at, view, answer >>
  BY DEF writer, reader
<1>2. /\ memory \in Memories /\ arrived \in Seq(OpRecords) /\ list \in Seq(OpRecords)
      /\ world \in Data
  BY DEF ReplicationTypeOK
<1>3. Arrive(type, world, memory) /\ world \in Updates
  BY <1>2, DataSurvivesTheWire, DataAreUpdates
<1>4. Shares(memory, O, E, A, L) /\ OpsOK(arrived, memory) /\ OpsOK(list, memory)
  BY DEF Sharing, QueuesOK
<1>5. type \in OpTypes \ {"remove_component"}
  BY DEF OpTypes
<1>6. /\ memory' \in Memories /\ arrived' \in Seq(OpRecords)
      /\ Shares(memory', O, E, OwnedBy(arrived'), L)
      /\ OpsOK(arrived', memory')
      /\ Spared(memory, memory', A \cup L)
  BY <1>2, <1>3, <1>4, <1>5, ArriveMeans
<1>7. OpsOK(list, memory')
  BY <1>6, OpsSpared
<1>8. ReplicationTypeOK'
  <2>1. changes' \in 0 .. MaxChanges
    BY DEF ReplicationTypeOK
  <2> QED
    BY <1>1, <1>6, <2>1 DEF ReplicationTypeOK
<1>9. Sharing'
  BY <1>1, <1>6 DEF Sharing
<1>10. QueuesOK'
  BY <1>1, <1>6, <1>7 DEF QueuesOK
<1>11. SharedKept /\ UpdateKept
  BY <1>6 DEF Spared, SharedKept, UpdateKept
<1> QED
  BY <1>8, <1>9, <1>10, <1>11

LEMMA CheckInStep ==
  ASSUME ReplicationTypeOK, Sharing, QueuesOK, CheckIn
  PROVE  ReplicationTypeOK' /\ Sharing' /\ QueuesOK' /\ SharedKept /\ UpdateKept
<1>1. /\ UNCHANGED << memory, world, outbox, echoes, mine, intended, sends >>
      /\ UNCHANGED << list, at, view, answer >>
      /\ in_view' = FALSE /\ changes < MaxChanges /\ changes' = changes + 1
      /\ arrived' = Append(arrived,
                      [ type |-> "remove_component", handle |-> sharing(Null), said |-> world ])
  BY DEF CheckIn, Op, writer, reader
<1>2. arrived \in Seq(OpRecords) /\ world \in Data /\ OpsOK(arrived, memory)
  BY DEF ReplicationTypeOK, QueuesOK
<1>3. "remove_component" \in OpTypes /\ Null \notin OwnedBy(arrived)
  BY DEF OpTypes, OwnedBy
<1>4. /\ arrived' \in Seq(OpRecords) /\ OpsOK(arrived', memory)
      /\ OwnedBy(arrived') = (OwnedBy(arrived) \cup {Null}) \ {Null}
  BY <1>1, <1>2, <1>3, OpsAppend
<1>5. OwnedBy(arrived') = OwnedBy(arrived)
  BY <1>3, <1>4
<1>6. ReplicationTypeOK'
  <2>1. changes' \in 0 .. MaxChanges
    BY <1>1 DEF ReplicationTypeOK
  <2> QED
    BY <1>1, <1>4, <2>1 DEF ReplicationTypeOK
<1>7. Sharing'
  BY <1>1, <1>5 DEF Sharing
<1>8. QueuesOK'
  BY <1>1, <1>4 DEF QueuesOK
<1> QED
  BY <1>1, <1>6, <1>7, <1>8 DEF SharedKept, UpdateKept

LEMMA GetOpListStep ==
  ASSUME ReplicationTypeOK, Sharing, QueuesOK, GetOpList
  PROVE  ReplicationTypeOK' /\ Sharing' /\ QueuesOK' /\ SharedKept /\ UpdateKept
<1>1. /\ list = << >> /\ arrived # << >> /\ list' = arrived /\ arrived' = << >>
      /\ at' = [ v \in Views |-> 0 ]
      /\ UNCHANGED << memory, view, answer, world, in_view, changes >>
      /\ UNCHANGED << outbox, echoes, mine, intended, sends >>
  BY DEF GetOpList, writer
<1>2. OwnedBy(list) = {} /\ OwnedBy(arrived') = {}
  BY <1>1, EmptyQueues
<1>3. ReplicationTypeOK'
  <2>1. \A v \in Views : at'[v] <= Len(list')
    BY <1>1 DEF ReplicationTypeOK
  <2>2. arrived' \in Seq(OpRecords) /\ list' \in Seq(OpRecords) /\ at' \in [ Views -> Nat ]
    BY <1>1, EmptyQueues DEF ReplicationTypeOK
  <2> QED
    BY <1>1, <2>1, <2>2 DEF ReplicationTypeOK
<1>4. Sharing'
  <2>1. \A b \in Addresses : memory.uses[b] = One(SharedBy(outbox), b) + One(SharedBy(echoes), b)
                                            + One({}, b) + One(OwnedBy(arrived), b)
    BY <1>2, OneType DEF Sharing, Shares
  <2>2. Shares(memory, SharedBy(outbox), SharedBy(echoes), {}, OwnedBy(arrived))
    BY <2>1 DEF Sharing, Shares
  <2> QED
    BY <1>1, <1>2, <2>2 DEF Sharing
<1>5. QueuesOK'
  BY <1>1, EmptyQueues DEF QueuesOK
<1> QED
  BY <1>1, <1>3, <1>4, <1>5 DEF SharedKept, UpdateKept

(* The data an operation brings is what it needs to be.                    *)
LEMMA AfterType ==
  ASSUME NEW mem \in Memories, NEW ops \in Seq(OpRecords), OpsOK(ops, mem),
         NEW i \in 1 .. Len(ops), NEW data \in Data \cup {NoData}
  PROVE  After(ops[i], data, mem) \in Data \cup {NoData}
<1> DEFINE op == ops[i]
           a  == op.handle.shared
<1>1. op \in OpRecords
  OBVIOUS
<1>2. a \in Addresses \cup {Null} /\ op.type \in OpTypes
  BY <1>1 DEF OpRecords, Handles
<1>3. /\ op.handle = sharing(a) /\ (a = Null <=> op.type = "remove_component")
      /\ op.type \in { "add_component", "entity_query_response" } => mem.object[a] \in Data
  BY DEF OpsOK
<1> HIDE DEF op
<1>4. get(op.handle, mem) = mem.object[a]
  BY <1>3 DEF get, sharing
<1> SUFFICES After(op, data, mem) \in Data \cup {NoData}
  BY DEF op
<1>5. CASE op.type = "add_component"
  BY <1>3, <1>4, <1>5 DEF After
<1>6. CASE op.type = "remove_component"
  BY <1>6 DEF After
<1>7. CASE op.type = "update"
  <2>1. a \in Addresses
    BY <1>2, <1>3, <1>7
  <2>2. mem.object[a] \in Updates
    BY <2>1, MemoryTypes
  <2>3. CASE data = NoData
    BY <1>7, <2>3 DEF After
  <2>4. CASE data # NoData
    <3>1. After(op, data, mem) = ApplyTo(mem.object[a], data)
      BY <1>4, <1>7, <2>4 DEF After
    <3> QED
      BY <2>2, <2>4, <3>1, ApplyToType
  <2> QED
    BY <2>3, <2>4
<1>8. CASE op.type = "entity_query_response"
  BY <1>8 DEF After
<1> QED
  BY <1>2, <1>5, <1>6, <1>7, <1>8 DEF OpTypes

LEMMA ProcessNextStep ==
  ASSUME ReplicationTypeOK, Sharing, QueuesOK, NEW v \in Views, ProcessNext(v)
  PROVE  ReplicationTypeOK' /\ Sharing' /\ QueuesOK' /\ SharedKept /\ UpdateKept
<1> DEFINE i  == at[v] + 1
           op == list[i]
           a  == op.handle.shared
           L  == OwnedBy(list)
<1>1. /\ at[v] < Len(list) /\ at' = [ at EXCEPT ![v] = at[v] + 1 ]
      /\ TakeAnswer(v, op) \/ TakeChange(v, op)
      /\ UNCHANGED << list, outbox, echoes, mine, intended, sends >>
      /\ UNCHANGED << world, in_view, arrived, changes >>
  BY DEF ProcessNext, writer, spatial
<1>2. /\ memory \in Memories /\ list \in Seq(OpRecords) /\ OpsOK(list, memory)
      /\ at \in [ Views -> Nat ] /\ view \in [ Views -> Data \cup {NoData} ]
  BY DEF ReplicationTypeOK, QueuesOK
<1>3. i \in 1 .. Len(list)
  BY <1>1, <1>2
<1>4. at' \in [ Views -> Nat ] /\ \A w \in Views : list # << >> => at'[w] <= Len(list)
  <2>1. at' \in [ Views -> Nat ]
    BY <1>1, <1>2
  <2>2. ASSUME NEW w \in Views, list # << >>
        PROVE  at'[w] <= Len(list)
    <3>1. at[w] <= Len(list)
      BY <2>2 DEF ReplicationTypeOK
    <3>2. CASE w = v
      BY <1>1, <1>2, <3>2
    <3>3. CASE w # v
      BY <1>1, <1>2, <3>1, <3>3
    <3> QED
      BY <3>2, <3>3
  <2> QED
    BY <2>1, <2>2
<1>5. CASE TakeChange(v, op)
  <2>1. view' = [ view EXCEPT ![v] = After(op, view[v], memory) ] /\ UNCHANGED << memory, answer >>
    BY <1>5 DEF TakeChange
  <2>2. After(op, view[v], memory) \in Data \cup {NoData}
    BY <1>2, <1>3, AfterType
  <2>3. view' \in [ Views -> Data \cup {NoData} ]
    BY <1>2, <2>1, <2>2
  <2>4. ReplicationTypeOK'
    BY <1>1, <1>4, <2>1, <2>3 DEF ReplicationTypeOK
  <2>5. Sharing' /\ QueuesOK'
    BY <1>1, <2>1 DEF Sharing, QueuesOK
  <2> QED
    BY <2>1, <2>4, <2>5 DEF SharedKept, UpdateKept
<1>6. CASE TakeAnswer(v, op)
  <2>1. /\ op.type = "entity_query_response" /\ UNCHANGED view
        /\ memory' = steal("snapshot", op.handle, memory, Null).mem
    BY <1>6 DEF TakeAnswer
  <2>2. op.handle = sharing(a) /\ (a = Null <=> op.type = "remove_component")
    BY <1>2, <1>3 DEF OpsOK
  <2>3. a # Null /\ a \in L /\ a \in Addresses
    <3>1. a # Null
      BY <2>1, <2>2
    <3>2. a \in L
      BY <1>3, <3>1 DEF OwnedBy
    <3> QED
      BY <1>2, <3>1, <3>2, OpsAddresses
  <2>4. memory' = Write(memory, a, EmptyData)
    <3>1. /\ op.handle.shared = a /\ op.handle.copyable_raw = Null
          /\ op.handle.movable_raw = Null
      BY <2>2 DEF sharing
    <3> QED
      BY <2>1, <3>1 DEF steal, MovedFrom
  <2>5. /\ memory' \in Memories /\ memory'.uses = memory.uses
        /\ memory'.object = [ memory.object EXCEPT ![a] = EmptyData ]
    BY <1>2, <2>3, <2>4, EmptyTypes, DataAreUpdates, WriteMemory
  <2>6. DOMAIN memory.object = Addresses
    BY <1>2 DEF Memories
  <2>7. /\ memory'.object[a] \in Data
        /\ \A b \in Addresses : b # a => memory'.object[b] = memory.object[b]
    BY <2>3, <2>5, <2>6, EmptyTypes
  <2>8. OpsOK(list, memory') /\ OpsOK(arrived, memory')
    <3>1. arrived \in Seq(OpRecords) /\ OpsOK(arrived, memory)
      BY DEF ReplicationTypeOK, QueuesOK
    <3>2. L \subseteq Addresses /\ OwnedBy(arrived) \subseteq Addresses
      BY <1>2, <3>1, OpsAddresses
    <3>3. /\ \A b \in L : memory'.object[b] = memory.object[b] \/ memory'.object[b] \in Data
          /\ \A b \in OwnedBy(arrived) :
               memory'.object[b] = memory.object[b] \/ memory'.object[b] \in Data
      BY <2>7, <3>2
    <3> QED
      BY <1>2, <3>1, <3>3, OpsFrame
  <2>9. ReplicationTypeOK'
    BY <1>1, <1>4, <2>1, <2>5 DEF ReplicationTypeOK
  <2>10. Sharing'
    BY <1>1, <2>5 DEF Sharing, Shares
  <2>11. QueuesOK'
    BY <1>1, <2>8 DEF QueuesOK
  <2>12. a # UpdateObject /\ memory.uses[a] = 1
    <3>1. memory.uses[a] = One(SharedBy(outbox), a) + One(SharedBy(echoes), a)
                         + One(OwnedBy(arrived), a) + One(L, a)
      BY <2>3 DEF Sharing, Shares
    <3>2. a # UpdateObject /\ a \notin SharedBy(outbox) /\ a \notin SharedBy(echoes)
          /\ a \notin OwnedBy(arrived)
      BY <2>3 DEF Sharing, Shares
    <3> QED
      BY <2>3, <3>1, <3>2 DEF One
  <2>13. SharedKept /\ UpdateKept
    <3>1. UpdateKept
      BY <2>7, <2>12 DEF UpdateKept
    <3>2. \A b \in Addresses : memory.uses[b] >= 2 => b # a
      BY <2>12
    <3> QED
      BY <2>7, <3>1, <3>2 DEF SharedKept
  <2> QED
    BY <2>9, <2>10, <2>11, <2>13
<1> QED
  BY <1>1, <1>5, <1>6

LEMMA DestroyOpListStep ==
  ASSUME ReplicationTypeOK, Sharing, QueuesOK, DestroyOpList
  PROVE  ReplicationTypeOK' /\ Sharing' /\ QueuesOK' /\ SharedKept /\ UpdateKept
<1> DEFINE O == SharedBy(outbox)
           E == SharedBy(echoes)
           A == OwnedBy(arrived)
           L == OwnedBy(list)
           freed == { list[i].handle.shared : i \in 1 .. Len(list) }
<1>1. /\ memory' = [ object |-> [ a \in Addresses |->
                                   IF a \in freed THEN EmptyUpdate ELSE memory.object[a] ],
                     uses   |-> [ a \in Addresses |->
                                   IF a \in freed THEN memory.uses[a] - 1 ELSE memory.uses[a] ] ]
      /\ list' = << >>
      /\ UNCHANGED << at, view, answer, outbox, echoes, mine, intended, sends >>
      /\ UNCHANGED << world, in_view, arrived, changes >>
  BY DEF DestroyOpList, writer, spatial
<1>2. L = freed \ {Null}
  BY DEF OwnedBy
<1> HIDE DEF freed
<1>3. \A b \in Addresses : b \in freed <=> b \in L
  BY <1>2
<1>4. \A b \in Addresses :
        /\ memory'.object[b] = (IF b \in L THEN EmptyUpdate ELSE memory.object[b])
        /\ memory'.uses[b] = (IF b \in L THEN memory.uses[b] - 1 ELSE memory.uses[b])
  BY <1>1, <1>3
<1>5. \A b \in L : memory.uses[b] = 1 /\ b \notin O \cup E \cup A /\ b # UpdateObject
  <2> TAKE b \in L
  <2>1. b \in Addresses /\ b \notin O \cup E \cup A /\ b # UpdateObject
    BY DEF Sharing, Shares
  <2>2. memory.uses[b] = One(O, b) + One(E, b) + One(A, b) + One(L, b)
    BY <2>1 DEF Sharing, Shares
  <2> QED
    BY <2>1, <2>2 DEF One
<1>6. memory' \in Memories
  <2>1. \A b \in Addresses : memory'.object[b] \in Data \cup Updates
    BY <1>4, EmptyTypes DEF ReplicationTypeOK, Memories
  <2>2. \A b \in Addresses : memory'.uses[b] \in Nat
    <3> TAKE b \in Addresses
    <3>1. memory.uses[b] \in Nat
      BY MemoryTypes DEF ReplicationTypeOK
    <3> QED
      BY <1>4, <1>5, <3>1
  <2> QED
    BY <1>1, <2>1, <2>2 DEF Memories
<1>7. ReplicationTypeOK'
  <2>1. list' \in Seq(OpRecords)
    BY <1>1, EmptyQueues
  <2> QED
    BY <1>1, <1>6, <2>1 DEF ReplicationTypeOK
<1>8. Sharing'
  <2>1. \A b \in Addresses : memory'.uses[b] = One(O, b) + One(E, b) + One(A, b) + One({}, b)
    <3> TAKE b \in Addresses
    <3>1. memory.uses[b] = One(O, b) + One(E, b) + One(A, b) + One(L, b)
      BY DEF Sharing, Shares
    <3> QED
      BY <1>4, <3>1, OneType DEF One
  <2>2. Shares(memory', O, E, A, {})
    BY <2>1 DEF Sharing, Shares
  <2> QED
    BY <1>1, <2>2, EmptyQueues DEF Sharing
<1>9. QueuesOK'
  <2>1. arrived \in Seq(OpRecords) /\ OpsOK(arrived, memory)
    BY DEF ReplicationTypeOK, QueuesOK
  <2>2. \A b \in A : memory'.object[b] = memory.object[b]
    BY <1>4, <1>5, <2>1, OpsAddresses
  <2>3. OpsOK(arrived, memory')
    BY <2>1, <2>2, OpsFrame
  <2> QED
    BY <1>1, <2>3, EmptyQueues DEF QueuesOK
<1>10. SharedKept /\ UpdateKept
  <2>1. UpdateKept
    BY <1>4, <1>5 DEF UpdateKept
  <2>2. SharedKept
    BY <1>4, <1>5 DEF SharedKept
  <2> QED
    BY <2>1, <2>2
<1> QED
  BY <1>7, <1>8, <1>9, <1>10

-----------------------------------------------------------------------------
(* All of them, and the theorems.                                          *)

Writes ==
  \/ Edit \/ UpdateKept
  \/ SendByMoving /\ ~SendByCopying /\ memory'.object[UpdateObject] = EmptyUpdate

LEMMA NextStep ==
  ASSUME ReplicationTypeOK, Sharing, QueuesOK, Next
  PROVE  ReplicationTypeOK' /\ Sharing' /\ QueuesOK' /\ SharedKept /\ Writes
<1>1. CASE Edit
  BY <1>1, EditStep DEF Writes
<1>2. CASE SendByCopying
  <2>1. Send(copyable(UpdateObject)) /\ copyable(UpdateObject) # movable(UpdateObject)
    BY <1>2 DEF SendByCopying, copyable, movable
  <2> QED
    BY <2>1, SendStep DEF Writes, UpdateKept
<1>3. CASE SendByMoving /\ ~SendByCopying
  <2>1. Send(movable(UpdateObject))
    BY <1>3 DEF SendByMoving
  <2> QED
    BY <1>3, <2>1, SendStep DEF Writes
<1>4. CASE ProcessEcho
  BY <1>4, ProcessEchoStep DEF Writes
<1>5. CASE Transmit
  BY <1>5, TransmitStep DEF Writes
<1>6. CASE CheckOut
  <2>1. /\ Arrive("add_component", ReadData(WriteData(world)), memory)
        /\ in_view' \in BOOLEAN /\ changes < MaxChanges /\ changes' = changes + 1
        /\ UNCHANGED << world, writer, reader >>
    BY <1>6 DEF CheckOut
  <2> QED
    BY <2>1, ArriveStep DEF Writes
<1>7. CASE CheckIn
  BY <1>7, CheckInStep DEF Writes
<1>8. CASE Answer
  <2>1. /\ Arrive("entity_query_response", ReadData(WriteData(world)), memory)
        /\ changes < MaxChanges /\ changes' = changes + 1
        /\ UNCHANGED << world, writer, reader >>
    BY <1>8 DEF Answer
  <2>2. in_view' \in BOOLEAN
    BY <1>8 DEF Answer, ReplicationTypeOK
  <2> QED
    BY <2>1, <2>2, ArriveStep DEF Writes
<1>9. CASE GetOpList
  BY <1>9, GetOpListStep DEF Writes
<1>10. ASSUME NEW v \in Views, ProcessNext(v)
       PROVE  ReplicationTypeOK' /\ Sharing' /\ QueuesOK' /\ SharedKept /\ Writes
  BY <1>10, ProcessNextStep DEF Writes
<1>11. CASE DestroyOpList
  BY <1>11, DestroyOpListStep DEF Writes
<1> QED
  BY <1>1, <1>2, <1>3, <1>4, <1>5, <1>6, <1>7, <1>8, <1>9, <1>10, <1>11 DEF Next, Reading

LEMMA StutterStep ==
  ASSUME ReplicationTypeOK, Sharing, QueuesOK, UNCHANGED vars
  PROVE  ReplicationTypeOK' /\ Sharing' /\ QueuesOK'
<1>1. /\ UNCHANGED << memory, outbox, echoes, mine, intended, sends, list, at, view, answer >>
      /\ UNCHANGED << world, in_view, arrived, changes >>
  BY DEF vars, writer, reader, spatial
<1>2. ReplicationTypeOK'
  BY <1>1 DEF ReplicationTypeOK
<1>3. Sharing'
  BY <1>1 DEF Sharing
<1>4. QueuesOK'
  BY <1>1 DEF QueuesOK
<1> QED
  BY <1>2, <1>3, <1>4

LEMMA Parts == Spec => [](ReplicationTypeOK /\ Sharing /\ QueuesOK)
<1>1. Init => ReplicationTypeOK /\ Sharing /\ QueuesOK
  BY InitMeans
<1>2. ReplicationTypeOK /\ Sharing /\ QueuesOK /\ [Next]_vars
        => (ReplicationTypeOK /\ Sharing /\ QueuesOK)'
  BY NextStep, StutterStep
<1> QED
  BY <1>1, <1>2, PTL DEF Spec

(* The inductive invariant holds: the handles that the cores keep on their *)
(* way through outbox, echoes and operations each share what they should.  *)
THEOREM Inductive == Spec => []ReplicationIInv
<1>1. ReplicationTypeOK /\ Sharing /\ QueuesOK => ReplicationIInv
  BY IInvMeans
<1> QED
  BY <1>1, Parts, PTL

(* Type correctness of the memory, the queues and the data.                *)
THEOREM TypeCorrect == Spec => []ReplicationTypeOK
<1>1. ReplicationTypeOK /\ Sharing /\ QueuesOK => ReplicationTypeOK
  OBVIOUS
<1> QED
  BY <1>1, Parts, PTL

(* At most one handle of a queue is on an object.                          *)
AtMostOnce(n, s, a) == \A i, j \in 1 .. n : i # j /\ s[i] = a => s[j] # a

HowOften(n, s, a) == Cardinality({ i \in 1 .. n : s[i] = a })

LEMMA HandlesCounted ==
  ASSUME NEW n \in Nat, NEW s, NEW a, AtMostOnce(n, s, a)
  PROVE  HowOften(n, s, a) = One({ s[i] : i \in 1 .. n }, a)
<1> DEFINE S == { i \in 1 .. n : s[i] = a }
<1>1. CASE S = {}
  <2>1. a \notin { s[i] : i \in 1 .. n }
    BY <1>1
  <2> QED
    BY <1>1, <2>1, FS_EmptySet DEF One, HowOften
<1>2. CASE S # {}
  <2>1. PICK i \in 1 .. n : s[i] = a
    BY <1>2
  <2>2. S = {i}
    BY <2>1 DEF AtMostOnce
  <2>3. Cardinality(S) = 1
    BY <2>2, FS_Singleton
  <2> QED
    BY <2>1, <2>3 DEF One, HowOften
<1> QED
  BY <1>1, <1>2

(* Objects live exactly while handles share them, and what the user passed *)
(* to a send is not referred to when it returns: PromoteToShared replaces  *)
(* the raw pointer before the core keeps the handle.                       *)
THEOREM ObjectsLive == Spec => []ObjectsLiveWhileShared
<1>1. ReplicationTypeOK /\ Sharing /\ QueuesOK => ObjectsLiveWhileShared
  <2> SUFFICES ASSUME ReplicationTypeOK, Sharing, QueuesOK
               PROVE  ObjectsLiveWhileShared
    OBVIOUS
  <2>1. /\ Len(outbox) \in Nat /\ Len(echoes) \in Nat
        /\ Len(arrived) \in Nat /\ Len(list) \in Nat
    BY DEF ReplicationTypeOK
  <2>2. ASSUME NEW a \in Addresses
        PROVE  memory.uses[a] = HandlesOn(a)
    <3> DEFINE outboxAt  == [ i \in 1 .. Len(outbox) |-> outbox[i].shared ]
               echoesAt  == [ i \in 1 .. Len(echoes) |-> echoes[i].shared ]
               arrivedAt == [ i \in 1 .. Len(arrived) |-> arrived[i].handle.shared ]
               listAt    == [ i \in 1 .. Len(list) |-> list[i].handle.shared ]
    <3>1. Cardinality({ i \in 1 .. Len(outbox) : outbox[i].shared = a })
            = One(SharedBy(outbox), a)
      <4>1. AtMostOnce(Len(outbox), outboxAt, a)
        BY DEF AtMostOnce, QueuesOK, QueueOK
      <4> HIDE DEF outboxAt
      <4>2. HowOften(Len(outbox), outboxAt, a)
              = One({ outboxAt[i] : i \in 1 .. Len(outbox) }, a)
        BY <2>1, <4>1, HandlesCounted
      <4>3. HowOften(Len(outbox), outboxAt, a)
              = Cardinality({ i \in 1 .. Len(outbox) : outbox[i].shared = a })
        BY DEF HowOften, outboxAt
      <4>4. { outboxAt[i] : i \in 1 .. Len(outbox) } = SharedBy(outbox)
        BY DEF SharedBy, outboxAt
      <4> QED
        BY <4>2, <4>3, <4>4
    <3>2. Cardinality({ i \in 1 .. Len(echoes) : echoes[i].shared = a })
            = One(SharedBy(echoes), a)
      <4>1. AtMostOnce(Len(echoes), echoesAt, a)
        BY DEF AtMostOnce, QueuesOK, QueueOK
      <4> HIDE DEF echoesAt
      <4>2. HowOften(Len(echoes), echoesAt, a)
              = One({ echoesAt[i] : i \in 1 .. Len(echoes) }, a)
        BY <2>1, <4>1, HandlesCounted
      <4>3. HowOften(Len(echoes), echoesAt, a)
              = Cardinality({ i \in 1 .. Len(echoes) : echoes[i].shared = a })
        BY DEF HowOften, echoesAt
      <4>4. { echoesAt[i] : i \in 1 .. Len(echoes) } = SharedBy(echoes)
        BY DEF SharedBy, echoesAt
      <4> QED
        BY <4>2, <4>3, <4>4
    <3>3. Cardinality({ i \in 1 .. Len(arrived) : arrived[i].handle.shared = a })
            = One(OwnedBy(arrived), a)
      <4>1. AtMostOnce(Len(arrived), arrivedAt, a)
        BY DEF AtMostOnce, QueuesOK, OpsOK
      <4> HIDE DEF arrivedAt
      <4>2. HowOften(Len(arrived), arrivedAt, a)
              = One({ arrivedAt[i] : i \in 1 .. Len(arrived) }, a)
        BY <2>1, <4>1, HandlesCounted
      <4>3. HowOften(Len(arrived), arrivedAt, a)
              = Cardinality({ i \in 1 .. Len(arrived) : arrived[i].handle.shared = a })
        BY DEF HowOften, arrivedAt
      <4>4. a \in { arrivedAt[i] : i \in 1 .. Len(arrived) } <=> a \in OwnedBy(arrived)
        BY DEF OwnedBy, arrivedAt
      <4> QED
        BY <4>2, <4>3, <4>4 DEF One
    <3>4. Cardinality({ i \in 1 .. Len(list) : list[i].handle.shared = a })
            = One(OwnedBy(list), a)
      <4>1. AtMostOnce(Len(list), listAt, a)
        BY DEF AtMostOnce, QueuesOK, OpsOK
      <4> HIDE DEF listAt
      <4>2. HowOften(Len(list), listAt, a)
              = One({ listAt[i] : i \in 1 .. Len(list) }, a)
        BY <2>1, <4>1, HandlesCounted
      <4>3. HowOften(Len(list), listAt, a)
              = Cardinality({ i \in 1 .. Len(list) : list[i].handle.shared = a })
        BY DEF HowOften, listAt
      <4>4. a \in { listAt[i] : i \in 1 .. Len(list) } <=> a \in OwnedBy(list)
        BY DEF OwnedBy, listAt
      <4> QED
        BY <4>2, <4>3, <4>4 DEF One
    <3> QED
      BY <3>1, <3>2, <3>3, <3>4 DEF HandlesOn, Sharing, Shares
  <2>3. memory.uses[UpdateObject] = 0
    BY DEF Sharing, Shares, One
  <2>4. \A i \in 1 .. Len(outbox) :
          outbox[i].copyable_raw = Null /\ outbox[i].movable_raw = Null
    <3> TAKE i \in 1 .. Len(outbox)
    <3>1. outbox[i] = sharing(outbox[i].shared)
      BY DEF QueuesOK, QueueOK
    <3>2. \A b : sharing(b).copyable_raw = Null /\ sharing(b).movable_raw = Null
      BY DEF sharing
    <3> QED
      BY <3>1, <3>2
  <2>5. \A i \in 1 .. Len(echoes) :
          echoes[i].copyable_raw = Null /\ echoes[i].movable_raw = Null
    <3> TAKE i \in 1 .. Len(echoes)
    <3>1. echoes[i] = sharing(echoes[i].shared)
      BY DEF QueuesOK, QueueOK
    <3>2. \A b : sharing(b).copyable_raw = Null /\ sharing(b).movable_raw = Null
      BY DEF sharing
    <3> QED
      BY <3>1, <3>2
  <2> QED
    BY <2>2, <2>3, <2>4, <2>5 DEF ObjectsLiveWhileShared
<1> QED
  BY <1>1, Parts, PTL

(* No step writes to an object that two handles share, whichever threads   *)
(* hold them.                                                              *)
THEOREM SharedIsRead == Spec => SharedIsOnlyRead
<1>1. ReplicationTypeOK /\ Sharing /\ QueuesOK /\ [Next]_vars
        => [ \A a \in Addresses :
               memory.uses[a] >= 2 /\ memory'.uses[a] >= 1
                 => memory'.object[a] = memory.object[a] ]_vars
  BY NextStep DEF SharedKept
<1> QED
  BY <1>1, Parts, PTL DEF Spec, SharedIsOnlyRead

(* SendComponentUpdate leaves the caller's update as it is, or empty if it *)
(* was told to move it; nothing that happens later touches it.             *)
THEOREM TheWritersUpdate == Spec => UpdateIsTheWriters
<1>1. ReplicationTypeOK /\ Sharing /\ QueuesOK /\ [Next]_vars
        => [ memory'.object[UpdateObject] # memory.object[UpdateObject]
               => \/ Edit
                  \/ /\ SendByMoving /\ ~SendByCopying
                     /\ memory'.object[UpdateObject] = EmptyUpdate ]_vars
  BY NextStep DEF Writes, UpdateKept
<1> QED
  BY <1>1, Parts, PTL DEF Spec, UpdateIsTheWriters

-----------------------------------------------------------------------------
(* Changes on their way, and where they lead.                              *)

LEMMA LeastNatural ==
  ASSUME NEW T \in SUBSET Nat, T # {}
  PROVE  \E x \in T : \A y \in T : x <= y
<1>. DEFINE R == OpToRel(<, Nat)
<1>1. \A x, y \in Nat : << y, x >> \in R <=> y < x
  BY DEF OpToRel
<1>. HIDE DEF R
<1>2. IsWellFoundedOn(R, Nat)
  BY NatLessThanWellFounded DEF R
<1>3. PICK x \in T : \A y \in T : ~ (<< y, x >> \in R)
  BY <1>2, WFMin
<1>4. x \in Nat /\ \A y \in T : y \in Nat
  OBVIOUS
<1>5. \A y \in T : ~ (y < x)
  BY <1>1, <1>3, <1>4, Zenon
<1>. QED  BY <1>4, <1>5

(* Two runs that start alike and go on alike are alike.                    *)
Alike(n, f, g) == \A i \in 0 .. n : f[i] = g[i]

LEMMA RunsAgree ==
  ASSUME NEW n \in Nat, NEW f, NEW g, f[0] = g[0],
         \A i \in 1 .. n : f[i - 1] = g[i - 1] => f[i] = g[i]
  PROVE  Alike(n, f, g)
<1> DEFINE T == { i \in 0 .. n : f[i] # g[i] }
<1>1. SUFFICES ASSUME T # {}
               PROVE  FALSE
  BY DEF Alike
<1>2. T \in SUBSET Nat
  OBVIOUS
<1>3. PICK i \in T : \A j \in T : i <= j
  BY <1>1, <1>2, LeastNatural
<1>4. i \in 0 .. n /\ f[i] # g[i]
  OBVIOUS
<1>5. i # 0
  BY <1>4
<1>6. i \in 1 .. n /\ i - 1 \in 0 .. n
  BY <1>4, <1>5
<1>7. i - 1 \notin T
  BY <1>3, <1>6
<1>8. f[i - 1] = g[i - 1]
  BY <1>6, <1>7
<1> QED
  BY <1>4, <1>6, <1>8

(* What one of the things on their way does to data: a component that is   *)
(* added or updated by an object, or removed, or a read.                   *)
Effect(change, data) ==
  CASE change.type = "add_component" /\ data = NoData -> change.object
    [] change.type = "remove_component" -> NoData
    [] change.type = "update" /\ data # NoData -> ApplyTo(change.object, data)
    [] OTHER -> data

(* A sequence of n changes leads from one state of the data to another, by *)
(* way of states of S.                                                     *)
Leads(n, steps, S, from, to) ==
  \E f \in [ 0 .. n -> S ] :
    /\ f[0] = from /\ f[n] = to
    /\ \A i \in 1 .. n : f[i] = Effect(steps[i], f[i - 1])

LEMMA LeadsNowhere ==
  ASSUME NEW S, NEW d \in S, NEW q
  PROVE  Leads(0, q, S, d, d)
<1> DEFINE f == [ i \in 0 .. 0 |-> d ]
<1>1. f \in [ 0 .. 0 -> S ] /\ f[0] = d
  OBVIOUS
<1> HIDE DEF f
<1> QED
  BY <1>1 DEF Leads

LEMMA LeadsAlike ==
  ASSUME NEW S, NEW n \in Nat, NEW q, NEW p, NEW from, NEW to, Leads(n, q, S, from, to),
         \A i \in 1 .. n : p[i] = q[i]
  PROVE  Leads(n, p, S, from, to)
BY DEF Leads

(* One change more at the end.                                             *)
LEMMA LeadsOn ==
  ASSUME NEW S, NEW n \in Nat, NEW q, NEW p, NEW from, NEW to, Leads(n, q, S, from, to),
         \A i \in 1 .. n : p[i] = q[i], Effect(p[n + 1], to) \in S
  PROVE  Leads(n + 1, p, S, from, Effect(p[n + 1], to))
<1>1. PICK f \in [ 0 .. n -> S ] :
        /\ f[0] = from /\ f[n] = to
        /\ \A i \in 1 .. n : f[i] = Effect(q[i], f[i - 1])
  BY DEF Leads
<1> DEFINE d == Effect(p[n + 1], to)
           g == [ i \in 0 .. n + 1 |-> IF i <= n THEN f[i] ELSE d ]
<1>2. d \in S
  OBVIOUS
<1> HIDE DEF d
<1>3. g \in [ 0 .. n + 1 -> S ]
  BY <1>2
<1>4. g[0] = f[0] /\ g[n + 1] = d /\ \A i \in 0 .. n : g[i] = f[i]
  OBVIOUS
<1> HIDE DEF g
<1>5. ASSUME NEW i \in 1 .. n + 1
      PROVE  g[i] = Effect(p[i], g[i - 1])
  <2>1. CASE i \in 1 .. n
    <3>1. g[i] = f[i] /\ g[i - 1] = f[i - 1] /\ p[i] = q[i]
      BY <1>4, <2>1
    <3> QED
      BY <1>1, <2>1, <3>1
  <2>2. CASE i = n + 1
    <3>1. g[i] = d /\ g[i - 1] = f[n]
      BY <1>4, <2>2
    <3> QED
      BY <1>1, <2>2, <3>1 DEF d
  <2> QED
    BY <2>1, <2>2
<1>6. Leads(n + 1, p, S, from, d)
  BY <1>1, <1>3, <1>4, <1>5 DEF Leads
<1> QED
  BY <1>6 DEF d

(* One change less, the first.                                             *)
LEMMA LeadsAfterFirst ==
  ASSUME NEW S, NEW n \in Nat, NEW q, NEW p, NEW from, NEW to, Leads(n + 1, q, S, from, to),
         \A i \in 1 .. n : p[i] = q[i + 1]
  PROVE  Effect(q[1], from) \in S /\ Leads(n, p, S, Effect(q[1], from), to)
<1>1. PICK f \in [ 0 .. n + 1 -> S ] :
        /\ f[0] = from /\ f[n + 1] = to
        /\ \A i \in 1 .. n + 1 : f[i] = Effect(q[i], f[i - 1])
  BY DEF Leads
<1> DEFINE g == [ i \in 0 .. n |-> f[i + 1] ]
<1>2. f[1] = Effect(q[1], from) /\ f[1] \in S
  <2>1. 1 \in 1 .. n + 1 /\ 1 \in 0 .. n + 1 /\ 1 - 1 = 0
    OBVIOUS
  <2>2. f[1] = Effect(q[1], f[1 - 1])
    BY <1>1, <2>1
  <2> QED
    BY <1>1, <2>1, <2>2
<1>3. g \in [ 0 .. n -> S ]
  OBVIOUS
<1>4. \A i \in 0 .. n : g[i] = f[i + 1]
  OBVIOUS
<1> HIDE DEF g
<1>5. g[0] = f[1] /\ g[n] = to
  BY <1>1, <1>4
<1>6. ASSUME NEW i \in 1 .. n
      PROVE  g[i] = Effect(p[i], g[i - 1])
  <2>1. i + 1 \in 1 .. n + 1 /\ (i + 1) - 1 = i /\ i - 1 \in 0 .. n /\ (i - 1) + 1 = i
    OBVIOUS
  <2>2. f[i + 1] = Effect(q[i + 1], f[(i + 1) - 1])
    BY <1>1, <2>1
  <2>3. g[i] = f[i + 1] /\ g[i - 1] = f[i] /\ p[i] = q[i + 1]
    BY <1>4, <2>1
  <2> QED
    BY <2>1, <2>2, <2>3
<1>7. Leads(n, p, S, f[1], to)
  BY <1>3, <1>5, <1>6 DEF Leads
<1> QED
  BY <1>2, <1>7

-----------------------------------------------------------------------------
(* The changes that a queue of handles, or of operations, has in it.       *)

ChangeOf(handle, mem) == [ type |-> "update", object |-> mem.object[handle.shared] ]

ChangesOf(handles, mem) == [ i \in 1 .. Len(handles) |-> ChangeOf(handles[i], mem) ]

ChangeBy(op, mem) ==
  [ type   |-> op.type,
    object |-> IF op.type \in { "add_component", "update" }
               THEN mem.object[op.handle.shared] ELSE EmptyUpdate ]

(* How many operations of the list a View has ahead of it, and those and   *)
(* the ones after the list.                                                *)
Left(v) == IF list = << >> THEN 0 ELSE Len(list) - at[v]

Ahead(v) ==
  [ i \in 1 .. Left(v) + Len(arrived) |->
      IF i <= Left(v) THEN list[at[v] + i] ELSE arrived[i - Left(v)] ]

ChangesAhead(v, mem) ==
  [ i \in 1 .. Left(v) + Len(arrived) |-> ChangeBy(Ahead(v)[i], mem) ]

(* EveryoneCatchesUp, as an inductive invariant.                           *)
WorldLed == Leads(Len(outbox), ChangesOf(outbox, memory), Data, world, intended)

EchoesLed == Leads(Len(echoes), ChangesOf(echoes, memory), Data, mine, intended)

ViewLed(v) ==
  Leads(Left(v) + Len(arrived), ChangesAhead(v, memory), Data \cup {NoData},
        view[v], IF in_view THEN world ELSE NoData)

AllLed == WorldLed /\ EchoesLed /\ \A v \in Views : ViewLed(v)

(* What the effect is, of an update or an operation.                       *)
LEMMA EffectOfUpdate ==
  ASSUME NEW handle, NEW mem, NEW d \in Data
  PROVE  Effect(ChangeOf(handle, mem), d) = ApplyTo(mem.object[handle.shared], d)
<1>1. d # NoData
  OBVIOUS
<1> QED
  BY <1>1 DEF Effect, ChangeOf

LEMMA EffectOfOp ==
  ASSUME NEW op \in OpRecords, NEW mem, NEW d, op.handle = sharing(op.handle.shared)
  PROVE  Effect(ChangeBy(op, mem), d) = After(op, d, mem)
<1>1. get(op.handle, mem) = mem.object[op.handle.shared]
  BY DEF get, sharing
<1>2. op.type \in OpTypes
  BY DEF OpRecords
<1> DEFINE c == ChangeBy(op, mem)
<1>3. /\ c.type = op.type
      /\ op.type \in { "add_component", "update" } => c.object = mem.object[op.handle.shared]
  BY DEF ChangeBy
<1> HIDE DEF c
<1> SUFFICES Effect(c, d) = After(op, d, mem)
  BY DEF c
<1>4. CASE op.type = "add_component"
  BY <1>1, <1>3, <1>4 DEF Effect, After
<1>5. CASE op.type = "remove_component"
  BY <1>1, <1>3, <1>5 DEF Effect, After
<1>6. CASE op.type = "update"
  BY <1>1, <1>3, <1>6 DEF Effect, After
<1>7. CASE op.type = "entity_query_response"
  BY <1>1, <1>3, <1>7 DEF Effect, After
<1> QED
  BY <1>2, <1>4, <1>5, <1>6, <1>7 DEF OpTypes

(* Updates on their way lead where they led as long as their objects are   *)
(* what they were.                                                         *)
LEMMA HandlesLedStill ==
  ASSUME NEW q \in Seq(Handles), NEW mem, NEW mem2, NEW from, NEW to,
         Leads(Len(q), ChangesOf(q, mem), Data, from, to),
         \A b \in SharedBy(q) : mem2.object[b] = mem.object[b]
  PROVE  Leads(Len(q), ChangesOf(q, mem2), Data, from, to)
<1>1. ASSUME NEW i \in 1 .. Len(q)
      PROVE  ChangesOf(q, mem2)[i] = ChangesOf(q, mem)[i]
  BY DEF ChangesOf, ChangeOf, SharedBy
<1>2. Len(q) \in Nat
  OBVIOUS
<1> QED
  BY <1>1, <1>2, LeadsAlike

LEMMA HandlesLedOn ==
  ASSUME NEW q \in Seq(Handles), NEW h \in Handles, NEW mem, NEW from, NEW to \in Data,
         mem.object[h.shared] \in Updates,
         Leads(Len(q), ChangesOf(q, mem), Data, from, to)
  PROVE  Leads(Len(Append(q, h)), ChangesOf(Append(q, h), mem), Data,
               from, ApplyTo(mem.object[h.shared], to))
<1> DEFINE p == Append(q, h)
           n == Len(q)
<1>1. /\ n \in Nat /\ Len(p) = n + 1 /\ p[n + 1] = h
      /\ \A i \in 1 .. n : p[i] = q[i]
  BY AppendFacts
<1> HIDE DEF p, n
<1>2. ChangesOf(p, mem)[n + 1] = ChangeOf(h, mem)
  BY <1>1 DEF ChangesOf
<1>3. \A i \in 1 .. n : ChangesOf(p, mem)[i] = ChangesOf(q, mem)[i]
  BY <1>1 DEF ChangesOf, n
<1>4. Effect(ChangeOf(h, mem), to) = ApplyTo(mem.object[h.shared], to)
  BY EffectOfUpdate
<1>5. ApplyTo(mem.object[h.shared], to) \in Data
  BY ApplyToType
<1>6. Leads(n, ChangesOf(q, mem), Data, from, to)
  BY DEF n
<1>7. Leads(n + 1, ChangesOf(p, mem), Data, from, Effect(ChangesOf(p, mem)[n + 1], to))
  BY <1>1, <1>2, <1>3, <1>4, <1>5, <1>6, LeadsOn
<1> QED
  BY <1>1, <1>2, <1>4, <1>7 DEF p

LEMMA HandlesLedAfterFirst ==
  ASSUME NEW q \in Seq(Handles), q # << >>, NEW mem, NEW from \in Data, NEW to,
         Leads(Len(q), ChangesOf(q, mem), Data, from, to)
  PROVE  Leads(Len(Tail(q)), ChangesOf(Tail(q), mem), Data,
               ApplyTo(mem.object[Head(q).shared], from), to)
<1> DEFINE p == Tail(q)
           n == Len(q) - 1
<1>1. /\ n \in Nat /\ Len(q) = n + 1 /\ Len(p) = n /\ Head(q) = q[1]
      /\ \A i \in 1 .. n : p[i] = q[i + 1]
  BY TailFacts
<1> HIDE DEF p, n
<1>2. ChangesOf(q, mem)[1] = ChangeOf(Head(q), mem)
  BY <1>1 DEF ChangesOf
<1>3. \A i \in 1 .. n : ChangesOf(p, mem)[i] = ChangesOf(q, mem)[i + 1]
  BY <1>1 DEF ChangesOf
<1>4. Leads(n + 1, ChangesOf(q, mem), Data, from, to)
  BY <1>1
<1>5. Leads(n, ChangesOf(p, mem), Data, Effect(ChangesOf(q, mem)[1], from), to)
  BY <1>1, <1>3, <1>4, LeadsAfterFirst
<1>6. Effect(ChangesOf(q, mem)[1], from) = ApplyTo(mem.object[Head(q).shared], from)
  BY <1>2, EffectOfUpdate
<1> QED
  BY <1>1, <1>5, <1>6 DEF p

-----------------------------------------------------------------------------
(* The Views' way, operation by operation.                                 *)

(* What a View has ahead of it.                                            *)
LEMMA WhatIsAhead ==
  ASSUME ReplicationTypeOK, NEW v \in Views
  PROVE  /\ Left(v) \in Nat /\ Len(arrived) \in Nat
         /\ \A i \in 1 .. Left(v) : /\ Ahead(v)[i] = list[at[v] + i]
                                    /\ at[v] + i \in 1 .. Len(list)
         /\ \A i \in 1 .. Len(arrived) : /\ Ahead(v)[Left(v) + i] = arrived[i]
                                         /\ Left(v) + i \in 1 .. Left(v) + Len(arrived)
<1>1. at[v] \in Nat /\ (list # << >> => at[v] <= Len(list)) /\ Len(list) \in Nat /\ Len(arrived) \in Nat
  BY DEF ReplicationTypeOK
<1>2. Left(v) \in Nat
  BY <1>1 DEF Left
<1>3. ASSUME NEW i \in 1 .. Left(v)
      PROVE  Ahead(v)[i] = list[at[v] + i] /\ at[v] + i \in 1 .. Len(list)
  <2>1. i \in 1 .. Left(v) + Len(arrived)
    BY <1>1, <1>2
  <2>2. Left(v) = Len(list) - at[v]
    BY <1>1 DEF Left
  <2> QED
    BY <1>1, <1>2, <2>1, <2>2 DEF Ahead
<1>4. ASSUME NEW i \in 1 .. Len(arrived)
      PROVE  Ahead(v)[Left(v) + i] = arrived[i] /\ Left(v) + i \in 1 .. Left(v) + Len(arrived)
  <2>1. Left(v) + i \in 1 .. Left(v) + Len(arrived) /\ ~(Left(v) + i <= Left(v)) /\ (Left(v) + i) - Left(v) = i
    BY <1>1, <1>2
  <2> QED
    BY <2>1 DEF Ahead
<1> QED
  BY <1>1, <1>2, <1>3, <1>4

(* It is ahead of it in the list or after the list.                        *)
LEMMA AheadIsQueued ==
  ASSUME ReplicationTypeOK, NEW v \in Views, NEW i \in 1 .. Left(v) + Len(arrived)
  PROVE  \/ /\ i \in 1 .. Left(v) /\ Ahead(v)[i] = list[at[v] + i]
            /\ at[v] + i \in 1 .. Len(list)
         \/ /\ i - Left(v) \in 1 .. Len(arrived)
            /\ Ahead(v)[i] = arrived[i - Left(v)]
<1>1. /\ Left(v) \in Nat /\ Len(arrived) \in Nat
      /\ \A j \in 1 .. Left(v) : Ahead(v)[j] = list[at[v] + j] /\ at[v] + j \in 1 .. Len(list)
      /\ \A j \in 1 .. Len(arrived) : Ahead(v)[Left(v) + j] = arrived[j]
  BY WhatIsAhead
<1>2. CASE i <= Left(v)
  BY <1>1, <1>2
<1>3. CASE ~(i <= Left(v))
  <2>1. i - Left(v) \in 1 .. Len(arrived) /\ Left(v) + (i - Left(v)) = i
    BY <1>1, <1>3
  <2>2. Ahead(v)[Left(v) + (i - Left(v))] = arrived[i - Left(v)]
    BY <1>1, <2>1
  <2> QED
    BY <2>1, <2>2
<1> QED
  BY <1>2, <1>3

(* The objects of the operations that are read stay what they are.         *)
ReadersKept(ops) ==
  \A i \in 1 .. Len(ops) :
    ops[i].type \in { "add_component", "update" } =>
      memory'.object[ops[i].handle.shared] = memory.object[ops[i].handle.shared]

LEMMA OwnedAreKept ==
  ASSUME NEW ops \in Seq(OpRecords), OpsOK(ops, memory),
         \A b \in OwnedBy(ops) : memory'.object[b] = memory.object[b]
  PROVE  ReadersKept(ops)
<1> SUFFICES ASSUME NEW i \in 1 .. Len(ops), ops[i].type \in { "add_component", "update" }
             PROVE  memory'.object[ops[i].handle.shared] = memory.object[ops[i].handle.shared]
  BY DEF ReadersKept
<1>1. ops[i].handle.shared # Null
  <2>1. ops[i].handle.shared = Null <=> ops[i].type = "remove_component"
    BY DEF OpsOK
  <2> QED
    BY <2>1
<1>2. ops[i].handle.shared \in OwnedBy(ops)
  BY <1>1 DEF OwnedBy
<1> QED
  BY <1>2

LEMMA ChangesKept ==
  ASSUME ReplicationTypeOK, ReadersKept(list), ReadersKept(arrived), NEW v \in Views,
         NEW i \in 1 .. Left(v) + Len(arrived)
  PROVE  ChangeBy(Ahead(v)[i], memory') = ChangeBy(Ahead(v)[i], memory)
<1>1. CASE i \in 1 .. Left(v) /\ Ahead(v)[i] = list[at[v] + i] /\ at[v] + i \in 1 .. Len(list)
  BY <1>1 DEF ReadersKept, ChangeBy
<1>2. CASE i - Left(v) \in 1 .. Len(arrived) /\ Ahead(v)[i] = arrived[i - Left(v)]
  BY <1>2 DEF ReadersKept, ChangeBy
<1> QED
  BY <1>1, <1>2, AheadIsQueued

(* A View that has nothing more ahead than it had.                         *)
LEMMA ViewLedStill ==
  ASSUME ReplicationTypeOK, ReadersKept(list), ReadersKept(arrived), NEW v \in Views, ViewLed(v),
         UNCHANGED << list, arrived, in_view >>, at'[v] = at[v], view'[v] = view[v],
         in_view => world' = world
  PROVE  ViewLed(v)'
<1>1. Left(v)' = Left(v) /\ Ahead(v)' = Ahead(v) /\ Len(arrived') = Len(arrived)
  BY DEF Left, Ahead
<1> DEFINE n == Left(v) + Len(arrived)
           p == ChangesAhead(v, memory)'
           q == ChangesAhead(v, memory)
<1>2. n \in Nat
  BY WhatIsAhead
<1>3. \A i \in 1 .. n : p[i] = ChangeBy(Ahead(v)[i], memory') /\ q[i] = ChangeBy(Ahead(v)[i], memory)
  BY <1>1 DEF ChangesAhead
<1>4. \A i \in 1 .. n : p[i] = q[i]
  BY <1>3, ChangesKept
<1>5. Leads(n, q, Data \cup {NoData}, view[v], IF in_view THEN world ELSE NoData)
  BY DEF ViewLed
<1> HIDE DEF p, q, n
<1>6. Leads(n, p, Data \cup {NoData}, view[v], IF in_view THEN world ELSE NoData)
  BY <1>2, <1>4, <1>5, LeadsAlike
<1> QED
  BY <1>1, <1>6 DEF ViewLed, p, n

(* An operation more.                                                      *)
LEMMA ViewLedOn ==
  ASSUME ReplicationTypeOK, ReadersKept(list), ReadersKept(arrived), NEW v \in Views, ViewLed(v),
         UNCHANGED << list, at, view >>,
         NEW op \in OpRecords, arrived' = Append(arrived, op), op.handle = sharing(op.handle.shared),
         world' \in Data,
         After(op, IF in_view THEN world ELSE NoData, memory') = IF in_view' THEN world' ELSE NoData
  PROVE  ViewLed(v)'
<1> DEFINE l == Left(v)
           n == l + Len(arrived)
           q == ChangesAhead(v, memory)
           p == [ i \in 1 .. n + 1 |->
                    ChangeBy(IF i <= l THEN list[at[v] + i] ELSE arrived'[i - l], memory') ]
           S == Data \cup {NoData}
           to == IF in_view THEN world ELSE NoData
<1>1. /\ Left(v)' = l /\ l \in Nat /\ n \in Nat
      /\ Len(arrived) \in Nat /\ Len(arrived') = Len(arrived) + 1 /\ l + Len(arrived') = n + 1
      /\ arrived'[Len(arrived) + 1] = op
      /\ \A i \in 1 .. Len(arrived) : arrived'[i] = arrived[i]
  <2>1. arrived \in Seq(OpRecords)
    BY DEF ReplicationTypeOK
  <2>2. Left(v)' = l
    BY DEF Left
  <2>3. l \in Nat /\ Len(arrived) \in Nat
    BY WhatIsAhead
  <2> HIDE DEF l
  <2> QED
    BY <2>1, <2>2, <2>3, AppendFacts
<1>2. ChangesAhead(v, memory)' = p
  <2>1. Ahead(v)' = [ i \in 1 .. n + 1 |-> IF i <= l THEN list[at[v] + i] ELSE arrived'[i - l] ]
    BY <1>1 DEF Ahead
  <2> HIDE DEF n, l
  <2> QED
    BY <1>1, <2>1 DEF ChangesAhead
<1>3. \A i \in 1 .. n : p[i] = q[i]
  <2> TAKE i \in 1 .. n
  <2>1. q[i] = ChangeBy(Ahead(v)[i], memory) /\ ChangeBy(Ahead(v)[i], memory') = q[i]
    BY ChangesKept DEF ChangesAhead
  <2>2. i \in 1 .. n + 1
    BY <1>1
  <2>3. Ahead(v)[i] = IF i <= l THEN list[at[v] + i] ELSE arrived[i - l]
    BY DEF Ahead
  <2>4. ~(i <= l) => i - l \in 1 .. Len(arrived)
    BY <1>1
  <2> HIDE DEF q, n, l
  <2> QED
    BY <1>1, <2>1, <2>2, <2>3, <2>4
<1>4. p[n + 1] = ChangeBy(op, memory')
  <2>1. n + 1 \in 1 .. n + 1 /\ ~(n + 1 <= l) /\ (n + 1) - l = Len(arrived) + 1
    BY <1>1
  <2> HIDE DEF n, l
  <2> QED
    BY <1>1, <2>1
<1>5. Leads(n, q, S, view[v], to)
  BY DEF ViewLed
<1> HIDE DEF n, l, p, q
<1>6. Effect(p[n + 1], to) = IF in_view' THEN world' ELSE NoData
  BY <1>4, EffectOfOp
<1>7. Leads(n + 1, p, S, view[v], Effect(p[n + 1], to))
  BY <1>1, <1>3, <1>5, <1>6, LeadsOn
<1> QED
  BY <1>1, <1>2, <1>6, <1>7 DEF ViewLed

(* A new list, of all that arrived.                                        *)
LEMMA ViewLedByList ==
  ASSUME ReplicationTypeOK, GetOpList, NEW v \in Views, ViewLed(v)
  PROVE  ViewLed(v)'
<1>1. /\ list = << >> /\ list' = arrived /\ arrived' = << >> /\ at'[v] = 0 /\ arrived # << >>
      /\ UNCHANGED << memory, view, world, in_view >>
  BY DEF GetOpList
<1>2. Len(arrived) \in Nat /\ Len(arrived') = 0
  BY <1>1, WhatIsAhead
<1>3. Left(v) = 0 /\ Left(v)' = Len(arrived)
  BY <1>1, <1>2 DEF Left
<1> DEFINE n == Len(arrived)
<1>4. Ahead(v) = [ i \in 1 .. n |-> IF i <= 0 THEN list[at[v] + i] ELSE arrived[i - 0] ]
  BY <1>2, <1>3 DEF Ahead
<1>5. Ahead(v)' = [ i \in 1 .. n |-> IF i <= n THEN list'[at'[v] + i] ELSE arrived'[i - n] ]
  BY <1>2, <1>3 DEF Ahead
<1>6. Ahead(v)' = Ahead(v)
  <2>1. Ahead(v) = [ i \in 1 .. n |-> arrived[i] ]
    BY <1>2, <1>4
  <2>2. Ahead(v)' = [ i \in 1 .. n |-> arrived[i] ]
    BY <1>1, <1>2, <1>5
  <2> QED
    BY <2>1, <2>2
<1>7. Left(v)' + Len(arrived') = n /\ Left(v) + Len(arrived) = n
  BY <1>2, <1>3
<1> HIDE DEF n
<1>8. ChangesAhead(v, memory)' = ChangesAhead(v, memory)
  BY <1>1, <1>6, <1>7 DEF ChangesAhead
<1> QED
  BY <1>1, <1>7, <1>8 DEF ViewLed

(* The list is gone, and all Views were through with it.                   *)
LEMMA ViewLedWithoutList ==
  ASSUME ReplicationTypeOK, ReadersKept(arrived), DestroyOpList, NEW v \in Views, ViewLed(v)
  PROVE  ViewLed(v)'
<1>1. /\ list # << >> /\ list' = << >> /\ at[v] = Len(list)
      /\ UNCHANGED << arrived, view, world, in_view >>
  BY DEF DestroyOpList, spatial
<1>2. Len(list) \in Nat /\ Len(arrived) \in Nat
  BY DEF ReplicationTypeOK
<1>3. Left(v) = 0 /\ Left(v)' = 0
  BY <1>1, <1>2 DEF Left
<1> DEFINE n == Len(arrived)
<1>4. Ahead(v) = [ i \in 1 .. n |-> arrived[i] ]
  BY <1>2, <1>3 DEF Ahead
<1>5. Ahead(v)' = [ i \in 1 .. n |-> arrived[i] ]
  BY <1>1, <1>2, <1>3 DEF Ahead
<1>6. Left(v)' + Len(arrived') = n /\ Left(v) + Len(arrived) = n
  BY <1>1, <1>2, <1>3
<1>7. \A i \in 1 .. n : ChangesAhead(v, memory)'[i] = ChangesAhead(v, memory)[i]
  <2>1. \A i \in 1 .. n : ChangesAhead(v, memory)'[i] = ChangeBy(arrived[i], memory')
    BY <1>5, <1>6 DEF ChangesAhead
  <2>2. \A i \in 1 .. n : ChangesAhead(v, memory)[i] = ChangeBy(arrived[i], memory)
    BY <1>4, <1>6 DEF ChangesAhead
  <2>3. \A i \in 1 .. n : ChangeBy(arrived[i], memory') = ChangeBy(arrived[i], memory)
    BY DEF ReadersKept, ChangeBy
  <2> QED
    BY <2>1, <2>2, <2>3
<1>8. Leads(n, ChangesAhead(v, memory), Data \cup {NoData}, view[v], IF in_view THEN world ELSE NoData)
  BY <1>6 DEF ViewLed
<1>9. n \in Nat
  BY <1>2
<1> HIDE DEF n
<1>10. Leads(n, ChangesAhead(v, memory)', Data \cup {NoData}, view[v], IF in_view THEN world ELSE NoData)
  BY <1>7, <1>8, <1>9, LeadsAlike
<1> QED
  BY <1>1, <1>6, <1>10 DEF ViewLed

(* An operation less.                                                      *)
LEMMA OneLess ==
  ASSUME NEW k \in Nat, NEW b \in Nat, NEW m \in Nat, b < k, NEW c, c = k - b, NEW x, x = k - (b + 1)
  PROVE  x \in Nat /\ c = x + 1 /\ x + m \in Nat /\ c + m = (x + m) + 1
OBVIOUS

LEMMA OneOn ==
  ASSUME NEW i \in Nat, NEW b \in Nat, NEW l \in Nat, i <= l
  PROVE  i + 1 <= l + 1 /\ (b + 1) + i = b + (i + 1)
OBVIOUS

LEMMA ViewLedAfterFirst ==
  ASSUME ReplicationTypeOK, QueuesOK, ReadersKept(list), ReadersKept(arrived),
         NEW v \in Views, ViewLed(v),
         at[v] < Len(list), at'[v] = at[v] + 1,
         UNCHANGED << list, arrived, world, in_view >>,
         view'[v] = After(list[at[v] + 1], view[v], memory)
  PROVE  ViewLed(v)'
<1> DEFINE l == Left(v)'
           n == l + Len(arrived)
           q == ChangesAhead(v, memory)
           p == ChangesAhead(v, memory)'
           S == Data \cup {NoData}
           op == list[at[v] + 1]
           to == IF in_view THEN world ELSE NoData
<1>1. /\ list \in Seq(OpRecords) /\ at[v] \in Nat /\ Len(list) \in Nat /\ Len(arrived) \in Nat
      /\ list # << >>
  <2>1. list \in Seq(OpRecords) /\ at[v] \in Nat /\ Len(list) \in Nat /\ Len(arrived) \in Nat
    BY DEF ReplicationTypeOK
  <2> QED
    BY <2>1
<1>2. /\ Left(v) = Len(list) - at[v] /\ l = Len(list) - (at[v] + 1)
  BY <1>1 DEF Left
<1>3. l \in Nat /\ Left(v) = l + 1 /\ n \in Nat /\ Left(v) + Len(arrived) = n + 1
  <2>1. PICK k \in Nat, b \in Nat, m \in Nat : k = Len(list) /\ b = at[v] /\ m = Len(arrived)
    BY <1>1
  <2>2. PICK x : x = l
    OBVIOUS
  <2>3. b < k /\ Left(v) = k - b /\ x = k - (b + 1)
    BY <1>2, <2>1, <2>2
  <2>4. x \in Nat /\ Left(v) = x + 1 /\ x + m \in Nat /\ Left(v) + m = (x + m) + 1
    BY <2>3, OneLess
  <2> HIDE DEF l
  <2> QED
    BY <2>1, <2>2, <2>4
<1>4. \A i \in 1 .. n + 1 :
        Ahead(v)[i] = IF i <= l + 1 THEN list[at[v] + i] ELSE arrived[i - (l + 1)]
  <2> HIDE DEF l, n
  <2> QED
    BY <1>3 DEF Ahead
<1>5. \A i \in 1 .. n :
        Ahead(v)'[i] = IF i <= l THEN list[(at[v] + 1) + i] ELSE arrived[i - l]
  BY DEF Ahead
<1>6. \A i \in 1 .. n + 1 : q[i] = ChangeBy(Ahead(v)[i], memory)
  <2> HIDE DEF l, n
  <2> QED
    BY <1>3 DEF ChangesAhead
<1>7. \A i \in 1 .. n : p[i] = ChangeBy(Ahead(v)'[i], memory')
  BY DEF ChangesAhead
<1>8. \A i \in 1 .. n + 1 : ChangeBy(Ahead(v)[i], memory') = ChangeBy(Ahead(v)[i], memory)
  BY <1>3, ChangesKept
<1>9. Leads(n + 1, q, S, view[v], to)
  BY <1>3 DEF ViewLed
<1>10. /\ op \in OpRecords /\ op.handle = sharing(op.handle.shared)
  <2>1. at[v] + 1 \in 1 .. Len(list)
    BY <1>1
  <2> QED
    BY <1>1, <2>1 DEF QueuesOK, OpsOK
<1> HIDE DEF l, n, q, p, op
<1>11. \A i \in 1 .. n : Ahead(v)'[i] = Ahead(v)[i + 1]
  <2> TAKE i \in 1 .. n
  <2>1. i + 1 \in 1 .. n + 1
    BY <1>3
  <2>2. CASE i <= l
    <3>1. i \in Nat /\ at[v] \in Nat /\ l \in Nat
      BY <1>1, <1>3
    <3>2. i + 1 <= l + 1 /\ (at[v] + 1) + i = at[v] + (i + 1)
      BY <2>2, <3>1, OneOn
    <3> QED
      BY <1>4, <1>5, <2>1, <2>2, <3>2
  <2>3. CASE ~(i <= l)
    <3>1. ~(i + 1 <= l + 1) /\ (i + 1) - (l + 1) = i - l
      BY <1>3, <2>3
    <3> QED
      BY <1>4, <1>5, <2>1, <2>3, <3>1
  <2> QED
    BY <2>2, <2>3
<1>12. \A i \in 1 .. n : p[i] = q[i + 1]
  <2> TAKE i \in 1 .. n
  <2>1. i + 1 \in 1 .. n + 1
    BY <1>3
  <2> QED
    BY <1>6, <1>7, <1>8, <1>11, <2>1
<1>13. Leads(n, p, S, Effect(q[1], view[v]), to)
  BY <1>3, <1>9, <1>12, LeadsAfterFirst
<1>14. Effect(q[1], view[v]) = view'[v]
  <2>1. 1 \in 1 .. n + 1 /\ 1 <= l + 1
    BY <1>3
  <2>2. Ahead(v)[1] = op
    BY <1>4, <2>1 DEF op
  <2>3. q[1] = ChangeBy(op, memory)
    BY <1>6, <2>1, <2>2
  <2> QED
    BY <1>10, <2>3, EffectOfOp DEF op
<1> QED
  BY <1>13, <1>14 DEF ViewLed, n, l, p

(* An operation is processed by View w.                                    *)
LEMMA ReadersKeptByProcessing ==
  ASSUME ReplicationTypeOK, Sharing, QueuesOK, NEW w \in Views, ProcessNext(w)
  PROVE  ReadersKept(list) /\ ReadersKept(arrived)
<1> DEFINE i  == at[w] + 1
           op == list[i]
           a  == op.handle.shared
<1>1. at[w] < Len(list) /\ (TakeAnswer(w, op) \/ TakeChange(w, op))
  BY DEF ProcessNext
<1>2. /\ memory \in Memories /\ OpsOK(list, memory) /\ OpsOK(arrived, memory)
      /\ list \in Seq(OpRecords) /\ arrived \in Seq(OpRecords) /\ i \in 1 .. Len(list)
  BY <1>1 DEF ReplicationTypeOK, QueuesOK
<1>3. CASE TakeChange(w, op)
  <2>1. UNCHANGED memory
    BY <1>3 DEF TakeChange
  <2> QED
    BY <2>1 DEF ReadersKept
<1>4. CASE TakeAnswer(w, op)
  <2>1. /\ op.type = "entity_query_response"
        /\ memory' = steal("snapshot", op.handle, memory, Null).mem
    BY <1>4 DEF TakeAnswer
  <2>2. op.handle = sharing(a) /\ a # Null
    BY <1>2, <2>1 DEF OpsOK
  <2>3. op.handle.shared = a /\ op.handle.copyable_raw = Null /\ op.handle.movable_raw = Null
    BY <2>2 DEF sharing
  <2>4. memory' = Write(memory, a, EmptyData)
    BY <2>1, <2>3 DEF steal, MovedFrom
  <2>5. memory'.object = [ memory.object EXCEPT ![a] = EmptyData ]
    BY <2>4 DEF Write
  <2>6. DOMAIN memory.object = Addresses
    BY <1>2 DEF Memories
  <2>7. \A b \in Addresses : b # a => memory'.object[b] = memory.object[b]
    BY <2>5, <2>6
  <2>8. a \in OwnedBy(list)
    BY <1>2, <2>2 DEF OwnedBy
  <2>9. ReadersKept(arrived)
    <3>1. OwnedBy(arrived) \subseteq Addresses /\ a \notin OwnedBy(arrived)
      BY <1>2, <2>8, OpsAddresses DEF Sharing, Shares
    <3>2. \A b \in OwnedBy(arrived) : memory'.object[b] = memory.object[b]
      BY <2>7, <3>1
    <3> QED
      BY <1>2, <3>2, OwnedAreKept
  <2>10. ASSUME NEW j \in 1 .. Len(list), list[j].type \in { "add_component", "update" }
         PROVE  memory'.object[list[j].handle.shared] = memory.object[list[j].handle.shared]
    <3>1. j # i
      BY <2>1, <2>10
    <3>2. a # list[j].handle.shared
      BY <1>2, <2>2, <3>1 DEF OpsOK
    <3>3. list[j].handle.shared # Null
      BY <1>2, <2>10 DEF OpsOK
    <3>4. list[j].handle.shared \in OwnedBy(list)
      BY <3>3 DEF OwnedBy
    <3>5. list[j].handle.shared \in Addresses
      BY <1>2, <3>4, OpsAddresses
    <3> QED
      BY <2>7, <3>2, <3>5
  <2> QED
    BY <2>9, <2>10 DEF ReadersKept
<1> QED
  BY <1>1, <1>3, <1>4

LEMMA ViewLedByProcessing ==
  ASSUME ReplicationTypeOK, Sharing, QueuesOK, NEW w \in Views, ProcessNext(w),
         NEW v \in Views, ViewLed(v)
  PROVE  ViewLed(v)'
<1> DEFINE op == list[at[w] + 1]
<1>1. /\ at[w] < Len(list) /\ at' = [ at EXCEPT ![w] = at[w] + 1 ]
      /\ TakeAnswer(w, op) \/ TakeChange(w, op)
      /\ UNCHANGED << list, world, in_view, arrived >>
  BY DEF ProcessNext, spatial
<1>2. at \in [ Views -> Nat ] /\ view \in [ Views -> Data \cup {NoData} ]
  BY DEF ReplicationTypeOK
<1>3. ReadersKept(list) /\ ReadersKept(arrived)
  BY ReadersKeptByProcessing
<1>4. view' = [ view EXCEPT ![w] = After(op, view[w], memory) ]
  <2>1. CASE TakeAnswer(w, op)
    <3>1. op.type = "entity_query_response" /\ view' = view
      BY <2>1 DEF TakeAnswer
    <3>2. After(op, view[w], memory) = view[w]
      BY <3>1 DEF After
    <3> QED
      BY <1>2, <3>1, <3>2
  <2>2. CASE TakeChange(w, op)
    BY <2>2 DEF TakeChange
  <2> QED
    BY <1>1, <2>1, <2>2
<1>5. CASE v = w
  <2>1. at'[v] = at[v] + 1 /\ view'[v] = After(list[at[v] + 1], view[v], memory)
    BY <1>1, <1>2, <1>4, <1>5
  <2> QED
    BY <1>1, <1>3, <1>5, <2>1, ViewLedAfterFirst
<1>6. CASE v # w
  <2>1. at'[v] = at[v] /\ view'[v] = view[v]
    BY <1>1, <1>2, <1>4, <1>6
  <2> QED
    BY <1>1, <1>3, <2>1, ViewLedStill
<1> QED
  BY <1>5, <1>6

-----------------------------------------------------------------------------
(* Everyone's way, action by action.                                       *)

(* The objects of S are what they were.                                    *)
Kept(S) == \A b \in S : memory'.object[b] = memory.object[b]

LEMMA WorldLedStill ==
  ASSUME ReplicationTypeOK, WorldLed, UNCHANGED << outbox, world, intended >>,
         Kept(SharedBy(outbox))
  PROVE  WorldLed'
<1>1. outbox \in Seq(Handles)
  BY DEF ReplicationTypeOK
<1>2. Leads(Len(outbox), ChangesOf(outbox, memory'), Data, world, intended)
  BY <1>1, HandlesLedStill DEF WorldLed, Kept
<1> QED
  BY <1>2 DEF WorldLed

LEMMA EchoesLedStill ==
  ASSUME ReplicationTypeOK, EchoesLed, UNCHANGED << echoes, mine, intended >>,
         Kept(SharedBy(echoes))
  PROVE  EchoesLed'
<1>1. echoes \in Seq(Handles)
  BY DEF ReplicationTypeOK
<1>2. Leads(Len(echoes), ChangesOf(echoes, memory'), Data, mine, intended)
  BY <1>1, HandlesLedStill DEF EchoesLed, Kept
<1> QED
  BY <1>2 DEF EchoesLed

LEMMA OpsReadKept ==
  ASSUME ReplicationTypeOK, QueuesOK, Kept(OwnedBy(arrived) \cup OwnedBy(list))
  PROVE  ReadersKept(list) /\ ReadersKept(arrived)
<1>1. /\ list \in Seq(OpRecords) /\ arrived \in Seq(OpRecords)
      /\ OpsOK(list, memory) /\ OpsOK(arrived, memory)
  BY DEF ReplicationTypeOK, QueuesOK
<1>2. /\ \A b \in OwnedBy(list) : memory'.object[b] = memory.object[b]
      /\ \A b \in OwnedBy(arrived) : memory'.object[b] = memory.object[b]
  BY DEF Kept
<1> QED
  BY <1>1, <1>2, OwnedAreKept

LEMMA ViewsLedStill ==
  ASSUME ReplicationTypeOK, QueuesOK, \A v \in Views : ViewLed(v),
         UNCHANGED << list, at, view, arrived, in_view >>, in_view => world' = world,
         Kept(OwnedBy(arrived) \cup OwnedBy(list))
  PROVE  \A v \in Views : ViewLed(v)'
<1>1. ReadersKept(list) /\ ReadersKept(arrived)
  BY OpsReadKept
<1> TAKE v \in Views
<1>2. at'[v] = at[v] /\ view'[v] = view[v]
  OBVIOUS
<1>3. UNCHANGED << list, arrived, in_view >> /\ ViewLed(v)
  OBVIOUS
<1> QED
  BY <1>1, <1>2, <1>3, ViewLedStill

(* What handles share is in use.                                           *)
LEMMA SharedAreUsed ==
  ASSUME NEW mem, NEW O, NEW E, NEW A, NEW L, Shares(mem, O, E, A, L),
         NEW b \in O \cup E \cup A \cup L
  PROVE  /\ b \in Addresses /\ b # UpdateObject /\ mem.uses[b] > 0
         /\ b \in O /\ b \in E => mem.uses[b] >= 2
<1>1. b \in Addresses /\ b # UpdateObject
  BY DEF Shares
<1>2. mem.uses[b] = One(O, b) + One(E, b) + One(A, b) + One(L, b)
  BY <1>1 DEF Shares
<1> QED
  BY <1>1, <1>2, OneType

(* What is on its way does not change when the writer edits his object.    *)
LEMMA EditKeeps ==
  ASSUME ReplicationTypeOK, Sharing, Edit
  PROVE  Kept(SharedBy(outbox) \cup SharedBy(echoes) \cup OwnedBy(arrived) \cup OwnedBy(list))
<1> DEFINE used == SharedBy(outbox) \cup SharedBy(echoes) \cup OwnedBy(arrived) \cup OwnedBy(list)
<1>1. PICK u \in Updates : memory' = [ memory EXCEPT !.object[UpdateObject] = u ]
  BY DEF Edit
<1>2. memory.object \in [ Addresses -> Data \cup Updates ] /\ memory \in Memories
  BY DEF ReplicationTypeOK, Memories
<1>3. memory'.object = [ memory.object EXCEPT ![UpdateObject] = u ]
  BY <1>1, <1>2 DEF Memories
<1>4. \A b \in used : b \in Addresses /\ b # UpdateObject
  BY SharedAreUsed DEF Sharing
<1> QED
  BY <1>2, <1>3, <1>4 DEF Kept

LEMMA EditLed ==
  ASSUME ReplicationTypeOK, Sharing, QueuesOK, AllLed, Edit
  PROVE  AllLed'
<1>1. UNCHANGED << outbox, echoes, mine, intended, list, at, view, world, in_view, arrived >>
  BY DEF Edit, writer, reader, spatial
<1>2. /\ Kept(SharedBy(outbox)) /\ Kept(SharedBy(echoes))
      /\ Kept(OwnedBy(arrived) \cup OwnedBy(list))
  BY EditKeeps DEF Kept
<1>3. WorldLed' /\ EchoesLed'
  BY <1>1, <1>2, WorldLedStill, EchoesLedStill DEF AllLed
<1>4. \A v \in Views : ViewLed(v)'
  BY <1>1, <1>2, ViewsLedStill DEF AllLed
<1> QED
  BY <1>3, <1>4 DEF AllLed

LEMMA SendMeans ==
  ASSUME ReplicationTypeOK, Sharing,
         NEW handle \in { copyable(UpdateObject), movable(UpdateObject) }, Send(handle)
  PROVE  \E a \in Addresses :
           /\ a # UpdateObject
           /\ a \notin SharedBy(outbox) \cup SharedBy(echoes) \cup OwnedBy(arrived) \cup OwnedBy(list)
           /\ outbox' = Append(outbox, sharing(a)) /\ echoes' = Append(echoes, sharing(a))
           /\ memory'.object[a] = memory.object[UpdateObject]
           /\ Kept(SharedBy(outbox) \cup SharedBy(echoes) \cup OwnedBy(arrived) \cup OwnedBy(list))
<1> DEFINE used == SharedBy(outbox) \cup SharedBy(echoes) \cup OwnedBy(arrived) \cup OwnedBy(list)
<1>1. memory \in Memories
  BY DEF ReplicationTypeOK
<1>2. PICK a \in FreeIn(memory) :
        LET first  == new_copy("update", handle, memory, a)
            second == new_copy("update", first.handle, first.mem, a)
        IN  /\ memory' = free(second.handle, second.mem)
            /\ outbox' = Append(outbox, first.copy)
            /\ echoes' = Append(echoes, second.copy)
  BY DEF Send
<1>3. /\ outbox' = Append(outbox, sharing(a)) /\ echoes' = Append(echoes, sharing(a))
      /\ memory'.object = PutObjects(memory, a, handle)
  BY <1>1, <1>2, SendMemory
<1>4. a \in Addresses /\ a # UpdateObject /\ memory.uses[a] = 0
  BY DEF FreeIn
<1>5. a \notin SharedBy(outbox) \cup SharedBy(echoes) \cup OwnedBy(arrived) \cup OwnedBy(list)
  BY <1>4, SharedAreUsed DEF Sharing
<1>6. DOMAIN memory.object = Addresses
  BY <1>1 DEF Memories
<1>7. /\ memory'.object[a] = memory.object[UpdateObject]
      /\ \A b \in Addresses \ {a, UpdateObject} : memory'.object[b] = memory.object[b]
  BY <1>3, <1>4, <1>6 DEF PutObjects
<1>8. Kept(used)
  <2>1. \A b \in used : b \in Addresses /\ b # UpdateObject /\ b # a
    BY <1>5, SharedAreUsed DEF Sharing
  <2> QED
    BY <1>7, <2>1 DEF Kept
<1> QED
  BY <1>3, <1>4, <1>5, <1>7, <1>8

(* A send puts what the object is now behind all that is on its way.       *)
LEMMA SendLed ==
  ASSUME ReplicationTypeOK, Sharing, QueuesOK, AllLed,
         NEW handle \in { copyable(UpdateObject), movable(UpdateObject) }, Send(handle)
  PROVE  AllLed'
<1> DEFINE used == SharedBy(outbox) \cup SharedBy(echoes) \cup OwnedBy(arrived) \cup OwnedBy(list)
<1>1. PICK a \in Addresses :
        /\ a # UpdateObject /\ a \notin used
        /\ outbox' = Append(outbox, sharing(a)) /\ echoes' = Append(echoes, sharing(a))
        /\ memory'.object[a] = memory.object[UpdateObject]
        /\ Kept(used)
  BY SendMeans
<1>2. /\ intended' = ApplyTo(memory.object[UpdateObject], intended)
      /\ UNCHANGED << mine, list, at, view, world, in_view, arrived >>
  BY DEF Send, reader, spatial
<1>3. Kept(used)
  BY <1>1
<1>4. /\ \A b \in SharedBy(outbox) : memory'.object[b] = memory.object[b]
      /\ \A b \in SharedBy(echoes) : memory'.object[b] = memory.object[b]
      /\ Kept(OwnedBy(arrived) \cup OwnedBy(list))
  BY <1>3 DEF Kept
<1>5. /\ outbox \in Seq(Handles) /\ echoes \in Seq(Handles) /\ intended \in Data
      /\ memory.object[UpdateObject] \in Updates
  <2>1. memory \in Memories
    BY DEF ReplicationTypeOK
  <2> QED
    BY <2>1, MemoryTypes DEF ReplicationTypeOK
<1> DEFINE h == sharing(a)
<1>6. h \in Handles /\ h.shared = a /\ memory'.object[h.shared] = memory.object[UpdateObject]
  BY <1>1, SharingType
<1> HIDE DEF h
<1>7. WorldLed'
  <2>1. Leads(Len(outbox), ChangesOf(outbox, memory'), Data, world, intended)
    BY <1>4, <1>5, HandlesLedStill DEF AllLed, WorldLed
  <2>2. Leads(Len(Append(outbox, h)), ChangesOf(Append(outbox, h), memory'), Data,
              world, ApplyTo(memory'.object[h.shared], intended))
    BY <1>5, <1>6, <2>1, HandlesLedOn
  <2> QED
    BY <1>1, <1>2, <1>6, <2>2 DEF WorldLed, h
<1>8. EchoesLed'
  <2>1. Leads(Len(echoes), ChangesOf(echoes, memory'), Data, mine, intended)
    BY <1>4, <1>5, HandlesLedStill DEF AllLed, EchoesLed
  <2>2. Leads(Len(Append(echoes, h)), ChangesOf(Append(echoes, h), memory'), Data,
              mine, ApplyTo(memory'.object[h.shared], intended))
    BY <1>5, <1>6, <2>1, HandlesLedOn
  <2> QED
    BY <1>1, <1>2, <1>6, <2>2 DEF EchoesLed, h
<1>9. \A v \in Views : ViewLed(v)'
  BY <1>2, <1>4, ViewsLedStill DEF AllLed
<1> QED
  BY <1>7, <1>8, <1>9 DEF AllLed

(* What is left when the handle on h goes: all else, and h if it is shared. *)
LEMMA FreeKeeps ==
  ASSUME NEW mem \in Memories, NEW O, NEW E, NEW A, NEW L, Shares(mem, O, E, A, L), NEW h \in O,
         NEW b \in (O \ {h}) \cup E \cup A \cup L
  PROVE  free(sharing(h), mem).object[b] = mem.object[b]
<1> DEFINE freed == free(sharing(h), mem)
<1>1. h \in Addresses /\ mem.uses[h] > 0 /\ b \in Addresses
  BY SharedAreUsed
<1>2. freed.object = [ mem.object EXCEPT ![h] = IF mem.uses[h] = 1 THEN EmptyUpdate ELSE mem.object[h] ]
  BY <1>1, FreeMemory
<1>3. DOMAIN mem.object = Addresses
  BY DEF Memories
<1> HIDE DEF freed
<1>4. CASE b # h
  BY <1>1, <1>2, <1>3, <1>4 DEF freed
<1>5. CASE b = h
  <2>1. b \in O /\ b \in E
    BY <1>5 DEF Shares
  <2>2. mem.uses[h] # 1
    BY <1>5, <2>1, SharedAreUsed
  <2> QED
    BY <1>1, <1>2, <1>3, <1>5, <2>2 DEF freed
<1> QED
  BY <1>4, <1>5

LEMMA ProcessEchoKeeps ==
  ASSUME ReplicationTypeOK, Sharing, QueuesOK, ProcessEcho
  PROVE  Kept((SharedBy(echoes) \ {Head(echoes).shared}) \cup SharedBy(outbox)
              \cup OwnedBy(arrived) \cup OwnedBy(list))
<1> DEFINE O == SharedBy(outbox)
           E == SharedBy(echoes)
           A == OwnedBy(arrived)
           L == OwnedBy(list)
           h == Head(echoes).shared
<1>1. memory' = free(Head(echoes), memory) /\ echoes # << >>
  BY DEF ProcessEcho
<1>2. memory \in Memories /\ echoes \in Seq(Handles) /\ QueueOK(echoes)
  BY DEF ReplicationTypeOK, QueuesOK
<1>3. Head(echoes) = sharing(h) /\ h \in E
  BY <1>1, <1>2, QueueTail
<1>4. Shares(memory, E, O, A, L)
  BY SharesTurned DEF Sharing
<1> HIDE DEF O, E, A, L, h
<1>5. \A b \in (E \ {h}) \cup O \cup A \cup L : free(sharing(h), memory).object[b] = memory.object[b]
  BY <1>2, <1>3, <1>4, FreeKeeps
<1>6. Kept((E \ {h}) \cup O \cup A \cup L)
  BY <1>1, <1>3, <1>5 DEF Kept
<1> QED
  BY <1>6 DEF O, E, A, L, h

(* The writer's View takes an echo, as it is in the queue.                 *)
LEMMA ProcessEchoLed ==
  ASSUME ReplicationTypeOK, Sharing, QueuesOK, AllLed, ProcessEcho
  PROVE  AllLed'
<1> DEFINE O == SharedBy(outbox)
           E == SharedBy(echoes)
           A == OwnedBy(arrived)
           L == OwnedBy(list)
           h == Head(echoes).shared
<1>1. /\ mine' = ApplyTo(get(Head(echoes), memory), mine)
      /\ memory' = free(Head(echoes), memory)
      /\ echoes # << >> /\ echoes' = Tail(echoes)
      /\ UNCHANGED << outbox, intended, list, at, view, world, in_view, arrived >>
  BY DEF ProcessEcho, reader, spatial
<1>2. memory \in Memories /\ echoes \in Seq(Handles) /\ QueueOK(echoes) /\ mine \in Data
  BY DEF ReplicationTypeOK, QueuesOK
<1>3. /\ Head(echoes) = sharing(h) /\ h \in E
      /\ Tail(echoes) \in Seq(Handles) /\ SharedBy(Tail(echoes)) = E \ {h}
  BY <1>1, <1>2, QueueTail
<1>5. Kept((E \ {h}) \cup O \cup A \cup L)
  BY ProcessEchoKeeps
<1>6. /\ Kept(O) /\ Kept(A \cup L)
      /\ \A b \in SharedBy(Tail(echoes)) : memory'.object[b] = memory.object[b]
  BY <1>3, <1>5 DEF Kept
<1>7. WorldLed'
  BY <1>1, <1>6, WorldLedStill DEF AllLed
<1>8. EchoesLed'
  <2>1. Leads(Len(Tail(echoes)), ChangesOf(Tail(echoes), memory), Data,
              ApplyTo(memory.object[h], mine), intended)
    BY <1>1, <1>2, HandlesLedAfterFirst DEF AllLed, EchoesLed
  <2>2. Leads(Len(Tail(echoes)), ChangesOf(Tail(echoes), memory'), Data,
              ApplyTo(memory.object[h], mine), intended)
    BY <1>3, <1>6, <2>1, HandlesLedStill
  <2>3. get(Head(echoes), memory) = memory.object[h]
    BY <1>3 DEF get, sharing
  <2> QED
    BY <1>1, <2>2, <2>3 DEF EchoesLed
<1>9. \A v \in Views : ViewLed(v)'
  BY <1>1, <1>6, ViewsLedStill DEF AllLed
<1> QED
  BY <1>7, <1>8, <1>9 DEF AllLed

LEMMA ArriveAppends ==
  ASSUME NEW mem \in Memories, world \in Data, NEW type \in OpTypes, NEW object \in Updates,
         Arrive(type, object, mem)
  PROVE  \E op \in OpRecords :
           /\ arrived' = Append(arrived, op)
           /\ op.type = type /\ op.handle = sharing(op.handle.shared) /\ op.said = world
           /\ get(op.handle, memory') = object
<1>1. PICK a \in FreeIn(mem) :
        /\ memory' = Store(mem, a, object, 1)
        /\ arrived' = Append(arrived, Op(type, sharing(a)))
  BY DEF Arrive
<1>2. a \in Addresses
  BY DEF FreeIn
<1>3. /\ Store(mem, a, object, 1) \in Memories
      /\ Store(mem, a, object, 1).object = [ mem.object EXCEPT ![a] = object ]
      /\ Store(mem, a, object, 1).uses = [ mem.uses EXCEPT ![a] = 1 ]
  BY <1>2, StoreMemory
<1>4. memory'.object[a] = object
  <2>1. DOMAIN mem.object = Addresses
    BY DEF Memories
  <2> QED
    BY <1>1, <1>2, <1>3, <2>1
<1>5. Op(type, sharing(a)) \in OpRecords
  BY <1>2, SharingType DEF Op, OpRecords
<1>6. /\ Op(type, sharing(a)).type = type /\ Op(type, sharing(a)).said = world
      /\ Op(type, sharing(a)).handle = sharing(a) /\ sharing(a).shared = a
  BY <1>2, SharingType DEF Op
<1>7. get(sharing(a), memory') = memory'.object[a]
  BY DEF get, sharing
<1> QED
  BY <1>1, <1>4, <1>5, <1>6, <1>7

(* The Views have an operation more to come.                               *)
LEMMA ViewsLedOn ==
  ASSUME ReplicationTypeOK, QueuesOK, \A v \in Views : ViewLed(v),
         UNCHANGED << list, at, view >>,
         NEW op \in OpRecords, arrived' = Append(arrived, op), op.handle = sharing(op.handle.shared),
         Kept(OwnedBy(arrived) \cup OwnedBy(list)), world' \in Data,
         After(op, IF in_view THEN world ELSE NoData, memory') = IF in_view' THEN world' ELSE NoData
  PROVE  \A v \in Views : ViewLed(v)'
<1>1. ReadersKept(list) /\ ReadersKept(arrived)
  BY OpsReadKept
<1> TAKE v \in Views
<1>2. ViewLed(v)
  OBVIOUS
<1> QED
  BY <1>1, <1>2, ViewLedOn

LEMMA TransmitKeeps ==
  ASSUME ReplicationTypeOK, Sharing, QueuesOK, Transmit
  PROVE  Kept((SharedBy(outbox) \ {Head(outbox).shared}) \cup SharedBy(echoes)
              \cup OwnedBy(arrived) \cup OwnedBy(list))
<1> DEFINE O == SharedBy(outbox)
           E == SharedBy(echoes)
           A == OwnedBy(arrived)
           L == OwnedBy(list)
           h == Head(outbox).shared
           update == Deserialize(Serialize(get(Head(outbox), memory)))
           freed  == free(Head(outbox), memory)
           used == (O \ {h}) \cup E \cup A \cup L
<1>1. /\ outbox # << >> /\ outbox' = Tail(outbox) /\ world' = ApplyTo(update, world)
      /\ IF in_view THEN Arrive("update", update, freed)
         ELSE memory' = freed /\ UNCHANGED arrived
      /\ UNCHANGED << echoes, mine, intended, in_view, list, at, view >>
  BY DEF Transmit, reader
<1>2. /\ memory \in Memories /\ outbox \in Seq(Handles) /\ QueueOK(outbox)
      /\ arrived \in Seq(OpRecords) /\ list \in Seq(OpRecords) /\ world \in Data
  BY DEF ReplicationTypeOK, QueuesOK
<1>3. /\ Head(outbox) = sharing(h) /\ h \in O /\ h \in Addresses
      /\ Tail(outbox) \in Seq(Handles) /\ SharedBy(Tail(outbox)) = O \ {h}
  BY <1>1, <1>2, QueueTail
<1>4. update = memory.object[h] /\ update \in Updates
  <2>1. get(Head(outbox), memory) = memory.object[h]
    BY <1>3 DEF get, sharing
  <2> QED
    BY <1>2, <1>3, <2>1, MemoryTypes, UpdateSurvivesTheWire
<1>6. /\ freed \in Memories
      /\ Shares(freed, O \ {h}, E, A, L)
      /\ Spared(memory, freed, A \cup L)
  BY <1>2, <1>3, FreeShares DEF Sharing
<1>7. OpsOK(arrived, freed)
  BY <1>6, OpsSpared
<1>8. \A b \in used : /\ b \in Addresses /\ freed.uses[b] > 0
                      /\ freed.object[b] = memory.object[b]
  <2>1. \A b \in used : b \in Addresses /\ freed.uses[b] > 0
    <3> HIDE DEF O, E, A, L, h, freed
    <3> QED
      BY <1>6, SharedAreUsed
  <2>2. Shares(memory, O, E, A, L)
    BY DEF Sharing
  <2>3. \A b \in used : free(sharing(h), memory).object[b] = memory.object[b]
    <3> HIDE DEF O, E, A, L, h
    <3> QED
      BY <1>2, <1>3, <2>2, FreeKeeps
  <2> QED
    BY <1>3, <2>1, <2>3
<1> HIDE DEF update, freed
<1>9. Kept(used)
  <2>1. CASE ~in_view
    BY <1>1, <1>8, <2>1 DEF Kept
  <2>2. CASE in_view
    <3>1. Arrive("update", update, freed)
      BY <1>1, <2>2
    <3>2. "update" \in OpTypes \ {"remove_component"}
      BY DEF OpTypes
    <3>3. \A b \in Addresses : freed.uses[b] > 0 => memory'.object[b] = freed.object[b]
      BY <1>2, <1>4, <1>6, <1>7, <3>1, <3>2, ArriveMeans
    <3> QED
      BY <1>8, <3>3 DEF Kept
  <2> QED
    BY <2>1, <2>2
<1> QED
  BY <1>9

(* An update leaves the outbox, and changes SpatialOS's data as it will    *)
(* change the data of a View that it is on its way to.                     *)
LEMMA TransmitLed ==
  ASSUME ReplicationTypeOK, Sharing, QueuesOK, AllLed, Transmit
  PROVE  AllLed'
<1> DEFINE O == SharedBy(outbox)
           E == SharedBy(echoes)
           A == OwnedBy(arrived)
           L == OwnedBy(list)
           h == Head(outbox).shared
           update == Deserialize(Serialize(get(Head(outbox), memory)))
           freed  == free(Head(outbox), memory)
           used == (O \ {h}) \cup E \cup A \cup L
<1>1. /\ outbox # << >> /\ outbox' = Tail(outbox) /\ world' = ApplyTo(update, world)
      /\ IF in_view THEN Arrive("update", update, freed)
         ELSE memory' = freed /\ UNCHANGED arrived
      /\ UNCHANGED << echoes, mine, intended, in_view, list, at, view >>
  BY DEF Transmit, reader
<1>2. /\ memory \in Memories /\ outbox \in Seq(Handles) /\ QueueOK(outbox)
      /\ arrived \in Seq(OpRecords) /\ list \in Seq(OpRecords) /\ world \in Data
  BY DEF ReplicationTypeOK, QueuesOK
<1>3. /\ Head(outbox) = sharing(h) /\ h \in O /\ h \in Addresses
      /\ Tail(outbox) \in Seq(Handles) /\ SharedBy(Tail(outbox)) = O \ {h}
  BY <1>1, <1>2, QueueTail
<1>4. update = memory.object[h] /\ update \in Updates
  <2>1. get(Head(outbox), memory) = memory.object[h]
    BY <1>3 DEF get, sharing
  <2> QED
    BY <1>2, <1>3, <2>1, MemoryTypes, UpdateSurvivesTheWire
<1>5. world' \in Data
  BY <1>1, <1>2, <1>4, ApplyToType
<1>6. freed \in Memories
  BY <1>2, <1>3, FreeShares DEF Sharing
<1> HIDE DEF update, freed
<1>9. Kept(used)
  BY TransmitKeeps
<1>10. /\ Kept(E) /\ Kept(A \cup L)
       /\ \A b \in SharedBy(Tail(outbox)) : memory'.object[b] = memory.object[b]
  BY <1>3, <1>9 DEF Kept
<1>11. WorldLed'
  <2>1. Leads(Len(Tail(outbox)), ChangesOf(Tail(outbox), memory), Data,
              ApplyTo(memory.object[h], world), intended)
    BY <1>1, <1>2, HandlesLedAfterFirst DEF AllLed, WorldLed
  <2>2. Leads(Len(Tail(outbox)), ChangesOf(Tail(outbox), memory'), Data,
              ApplyTo(memory.object[h], world), intended)
    BY <1>3, <1>10, <2>1, HandlesLedStill
  <2> QED
    BY <1>1, <1>4, <2>2 DEF WorldLed
<1>12. EchoesLed'
  BY <1>1, <1>10, EchoesLedStill DEF AllLed
<1>13. \A v \in Views : ViewLed(v)'
  <2>1. CASE ~in_view
    <3>1. UNCHANGED << list, at, view, arrived, in_view >>
      BY <1>1, <2>1
    <3> QED
      BY <1>10, <2>1, <3>1, ViewsLedStill DEF AllLed
  <2>2. CASE in_view
    <3>1. Arrive("update", update, freed) /\ "update" \in OpTypes
      BY <1>1, <2>2 DEF OpTypes
    <3>2. PICK op \in OpRecords :
            /\ arrived' = Append(arrived, op)
            /\ op.type = "update" /\ op.handle = sharing(op.handle.shared)
            /\ get(op.handle, memory') = update
      BY <1>2, <1>4, <1>6, <3>1, ArriveAppends
    <3>3. world # NoData
      BY <1>2
    <3>4. After(op, world, memory') = world'
      BY <1>1, <3>2, <3>3 DEF After
    <3>5. After(op, IF in_view THEN world ELSE NoData, memory') = IF in_view' THEN world' ELSE NoData
      BY <1>1, <2>2, <3>4
    <3> QED
      BY <1>1, <1>5, <1>10, <3>2, <3>5, ViewsLedOn DEF AllLed
  <2> QED
    BY <2>1, <2>2
<1> QED
  BY <1>11, <1>12, <1>13 DEF AllLed

LEMMA ArrivalKeeps ==
  ASSUME ReplicationTypeOK, Sharing, QueuesOK,
         NEW type \in { "add_component", "entity_query_response" },
         Arrive(type, ReadData(WriteData(world)), memory)
  PROVE  Kept(SharedBy(outbox) \cup SharedBy(echoes) \cup OwnedBy(arrived) \cup OwnedBy(list))
<1> DEFINE O == SharedBy(outbox)
           E == SharedBy(echoes)
           A == OwnedBy(arrived)
           L == OwnedBy(list)
<1>1. /\ memory \in Memories /\ arrived \in Seq(OpRecords) /\ world \in Data
  BY DEF ReplicationTypeOK
<1>2. Arrive(type, world, memory) /\ world \in Updates
  BY <1>1, DataSurvivesTheWire, DataAreUpdates
<1>3. Shares(memory, O, E, A, L) /\ OpsOK(arrived, memory)
  BY DEF Sharing, QueuesOK
<1>4. type \in OpTypes \ {"remove_component"}
  BY DEF OpTypes
<1>5. \A b \in Addresses : memory.uses[b] > 0 => memory'.object[b] = memory.object[b]
  BY <1>1, <1>2, <1>3, <1>4, ArriveMeans
<1>6. \A b \in O \cup E \cup A \cup L : b \in Addresses /\ memory.uses[b] > 0
  <2> HIDE DEF O, E, A, L
  <2> QED
    BY <1>3, SharedAreUsed
<1> QED
  BY <1>5, <1>6 DEF Kept

(* An entity comes into view with the data SpatialOS has, and an answer    *)
(* changes no View.                                                        *)
LEMMA ArrivalLed ==
  ASSUME ReplicationTypeOK, Sharing, QueuesOK, AllLed,
         NEW type \in { "add_component", "entity_query_response" },
         Arrive(type, ReadData(WriteData(world)), memory),
         UNCHANGED << world, writer, reader >>,
         \/ type = "add_component" /\ ~in_view /\ in_view' = TRUE
         \/ type = "entity_query_response" /\ in_view' = in_view
  PROVE  AllLed'
<1> DEFINE O == SharedBy(outbox)
           E == SharedBy(echoes)
           A == OwnedBy(arrived)
           L == OwnedBy(list)
<1>1. UNCHANGED << world, outbox, echoes, mine, intended, list, at, view >>
  BY DEF writer, reader
<1>2. /\ memory \in Memories /\ arrived \in Seq(OpRecords) /\ world \in Data
  BY DEF ReplicationTypeOK
<1>3. Arrive(type, world, memory) /\ world \in Updates
  BY <1>2, DataSurvivesTheWire, DataAreUpdates
<1>5. type \in OpTypes
  BY DEF OpTypes
<1>7. Kept(O \cup E \cup A \cup L)
  BY ArrivalKeeps
<1>8. Kept(O) /\ Kept(E) /\ Kept(A \cup L)
  BY <1>7 DEF Kept
<1>9. WorldLed'
  BY <1>1, <1>8, WorldLedStill DEF AllLed
<1>10. EchoesLed'
  BY <1>1, <1>8, EchoesLedStill DEF AllLed
<1>11. \A v \in Views : ViewLed(v)'
  <2>1. PICK op \in OpRecords :
          /\ arrived' = Append(arrived, op)
          /\ op.type = type /\ op.handle = sharing(op.handle.shared)
          /\ get(op.handle, memory') = world
    BY <1>2, <1>3, <1>5, ArriveAppends
  <2>2. After(op, IF in_view THEN world ELSE NoData, memory') = IF in_view' THEN world' ELSE NoData
    <3>1. CASE type = "add_component" /\ ~in_view /\ in_view' = TRUE
      BY <1>1, <2>1, <3>1 DEF After
    <3>2. CASE type = "entity_query_response" /\ in_view' = in_view
      BY <1>1, <2>1, <3>2 DEF After
    <3> QED
      BY <3>1, <3>2
  <2> QED
    BY <1>1, <1>2, <1>8, <2>1, <2>2, ViewsLedOn DEF AllLed
<1> QED
  BY <1>9, <1>10, <1>11 DEF AllLed

LEMMA CheckInLed ==
  ASSUME ReplicationTypeOK, Sharing, QueuesOK, AllLed, CheckIn
  PROVE  AllLed'
<1>1. /\ in_view' = FALSE /\ UNCHANGED << memory, world, outbox, echoes, mine, intended, list, at, view >>
      /\ arrived' = Append(arrived, Op("remove_component", sharing(Null)))
  BY DEF CheckIn, writer, reader
<1>2. \A S : Kept(S)
  BY <1>1 DEF Kept
<1>3. WorldLed'
  BY <1>1, <1>2, WorldLedStill DEF AllLed
<1>4. EchoesLed'
  BY <1>1, <1>2, EchoesLedStill DEF AllLed
<1>5. \A v \in Views : ViewLed(v)'
  <2>1. PICK op : op = Op("remove_component", sharing(Null))
    OBVIOUS
  <2>2. /\ op \in OpRecords /\ op.handle = sharing(op.handle.shared) /\ op.type = "remove_component"
    <3>1. world \in Data /\ sharing(Null) \in Handles /\ sharing(Null).shared = Null
      BY SharingType DEF ReplicationTypeOK
    <3>2. op = [ type |-> "remove_component", handle |-> sharing(Null), said |-> world ]
      BY <2>1 DEF Op
    <3>3. "remove_component" \in OpTypes
      BY DEF OpTypes
    <3> QED
      BY <3>1, <3>2, <3>3 DEF OpRecords
  <2>3. After(op, IF in_view THEN world ELSE NoData, memory') = IF in_view' THEN world' ELSE NoData
    BY <1>1, <2>2 DEF After
  <2>4. world' \in Data
    BY <1>1 DEF ReplicationTypeOK
  <2> QED
    BY <1>1, <1>2, <2>1, <2>2, <2>3, <2>4, ViewsLedOn DEF AllLed
<1> QED
  BY <1>3, <1>4, <1>5 DEF AllLed

LEMMA GetOpListLed ==
  ASSUME ReplicationTypeOK, Sharing, QueuesOK, AllLed, GetOpList
  PROVE  AllLed'
<1>1. UNCHANGED << memory, world, outbox, echoes, mine, intended >>
  BY DEF GetOpList, writer
<1>2. \A S : Kept(S)
  BY <1>1 DEF Kept
<1>3. WorldLed' /\ EchoesLed'
  BY <1>1, <1>2, WorldLedStill, EchoesLedStill DEF AllLed
<1>4. \A v \in Views : ViewLed(v)'
  BY ViewLedByList DEF AllLed
<1> QED
  BY <1>3, <1>4 DEF AllLed

(* Of the objects that are shared, a View writes to one of the list's.     *)
LEMMA ProcessNextLed ==
  ASSUME ReplicationTypeOK, Sharing, QueuesOK, AllLed, NEW v \in Views, ProcessNext(v)
  PROVE  AllLed'
<1> DEFINE op == list[at[v] + 1]
           a  == op.handle.shared
<1>1. /\ at[v] < Len(list)
      /\ TakeAnswer(v, op) \/ TakeChange(v, op)
      /\ UNCHANGED << world, outbox, echoes, mine, intended >>
  BY DEF ProcessNext, writer, spatial
<1>2. /\ memory \in Memories /\ OpsOK(list, memory) /\ list \in Seq(OpRecords)
      /\ at[v] + 1 \in 1 .. Len(list)
  <2>1. at[v] \in Nat /\ Len(list) \in Nat
    BY DEF ReplicationTypeOK
  <2>2. at[v] + 1 \in 1 .. Len(list)
    BY <1>1, <2>1
  <2> QED
    BY <2>2 DEF ReplicationTypeOK, QueuesOK
<1>3. Kept(SharedBy(outbox)) /\ Kept(SharedBy(echoes))
  <2>1. CASE TakeChange(v, op)
    BY <2>1 DEF TakeChange, Kept
  <2>2. CASE TakeAnswer(v, op)
    <3>1. /\ op.type = "entity_query_response"
          /\ memory' = steal("snapshot", op.handle, memory, Null).mem
      BY <2>2 DEF TakeAnswer
    <3>2. op.handle = sharing(a) /\ a # Null
      BY <1>2, <3>1 DEF OpsOK
    <3>3. op.handle.shared = a /\ op.handle.copyable_raw = Null /\ op.handle.movable_raw = Null
      BY <3>2 DEF sharing
    <3>4. memory'.object = [ memory.object EXCEPT ![a] = EmptyData ]
      BY <3>1, <3>3 DEF steal, MovedFrom, Write
    <3>5. a \in OwnedBy(list)
      BY <1>2, <3>2 DEF OwnedBy
    <3>6. /\ a \notin SharedBy(outbox) /\ a \notin SharedBy(echoes)
          /\ SharedBy(outbox) \subseteq Addresses /\ SharedBy(echoes) \subseteq Addresses
      BY <3>5 DEF Sharing, Shares
    <3>7. DOMAIN memory.object = Addresses
      BY <1>2 DEF Memories
    <3> QED
      BY <3>4, <3>6, <3>7 DEF Kept
  <2> QED
    BY <1>1, <2>1, <2>2
<1>4. WorldLed' /\ EchoesLed'
  BY <1>1, <1>3, WorldLedStill, EchoesLedStill DEF AllLed
<1>5. \A w \in Views : ViewLed(w)'
  BY ViewLedByProcessing DEF AllLed
<1> QED
  BY <1>4, <1>5 DEF AllLed

(* Only what is in the list goes with it.                                  *)
LEMMA DestroyOpListKeeps ==
  ASSUME Sharing, DestroyOpList
  PROVE  Kept(SharedBy(outbox) \cup SharedBy(echoes) \cup OwnedBy(arrived))
<1> DEFINE freed == { list[i].handle.shared : i \in 1 .. Len(list) }
<1>1. memory'.object = [ a \in Addresses |-> IF a \in freed THEN EmptyUpdate ELSE memory.object[a] ]
  BY DEF DestroyOpList
<1> SUFFICES ASSUME NEW b \in SharedBy(outbox) \cup SharedBy(echoes) \cup OwnedBy(arrived)
             PROVE  memory'.object[b] = memory.object[b]
  BY DEF Kept
<1>2. b \in Addresses /\ b \notin OwnedBy(list)
  BY DEF Sharing, Shares
<1>3. b \notin freed
  BY <1>2 DEF OwnedBy
<1> QED
  BY <1>1, <1>2, <1>3

LEMMA DestroyOpListLed ==
  ASSUME ReplicationTypeOK, Sharing, QueuesOK, AllLed, DestroyOpList
  PROVE  AllLed'
<1>1. UNCHANGED << world, outbox, echoes, mine, intended >>
  BY DEF DestroyOpList, writer, spatial
<1>2. Kept(SharedBy(outbox) \cup SharedBy(echoes) \cup OwnedBy(arrived))
  BY DestroyOpListKeeps
<1>3. /\ Kept(SharedBy(outbox)) /\ Kept(SharedBy(echoes))
      /\ \A b \in OwnedBy(arrived) : memory'.object[b] = memory.object[b]
  BY <1>2 DEF Kept
<1>4. WorldLed' /\ EchoesLed'
  BY <1>1, <1>3, WorldLedStill, EchoesLedStill DEF AllLed
<1>5. ReadersKept(arrived)
  <2>1. arrived \in Seq(OpRecords) /\ OpsOK(arrived, memory)
    BY DEF ReplicationTypeOK, QueuesOK
  <2> QED
    BY <1>3, <2>1, OwnedAreKept
<1>6. \A v \in Views : ViewLed(v)'
  BY <1>5, ViewLedWithoutList DEF AllLed
<1> QED
  BY <1>4, <1>6 DEF AllLed

LEMMA StutterLed ==
  ASSUME ReplicationTypeOK, QueuesOK, AllLed, UNCHANGED vars
  PROVE  AllLed'
<1>1. UNCHANGED << memory, world, outbox, echoes, mine, intended, list, at, view, arrived, in_view >>
  BY DEF vars, writer, reader, spatial
<1>2. \A S : Kept(S)
  BY <1>1 DEF Kept
<1>3. WorldLed' /\ EchoesLed'
  BY <1>1, <1>2, WorldLedStill, EchoesLedStill DEF AllLed
<1>4. \A v \in Views : ViewLed(v)'
  BY <1>1, <1>2, ViewsLedStill DEF AllLed
<1> QED
  BY <1>3, <1>4 DEF AllLed

LEMMA InitLed ==
  ASSUME Init
  PROVE  AllLed
<1>1. /\ outbox = << >> /\ echoes = << >> /\ arrived = << >> /\ list = << >>
      /\ mine = EmptyData /\ world = EmptyData /\ intended = EmptyData /\ ~in_view
      /\ \A v \in Views : view[v] = NoData
  BY DEF Init
<1>2. Len(outbox) = 0 /\ Len(echoes) = 0 /\ Len(arrived) = 0
  BY <1>1
<1>3. EmptyData \in Data
  BY EmptyTypes
<1>4. WorldLed
  <2>1. Leads(0, ChangesOf(outbox, memory), Data, EmptyData, EmptyData)
    BY <1>3, LeadsNowhere
  <2> QED
    BY <1>1, <1>2, <2>1 DEF WorldLed
<1>5. EchoesLed
  <2>1. Leads(0, ChangesOf(echoes, memory), Data, EmptyData, EmptyData)
    BY <1>3, LeadsNowhere
  <2> QED
    BY <1>1, <1>2, <2>1 DEF EchoesLed
<1>6. ASSUME NEW v \in Views
      PROVE  ViewLed(v)
  <2>1. Leads(0, ChangesAhead(v, memory), Data \cup {NoData}, NoData, NoData)
    BY LeadsNowhere
  <2>2. Left(v) + Len(arrived) = 0
    BY <1>1, <1>2 DEF Left
  <2> QED
    BY <1>1, <2>1, <2>2 DEF ViewLed
<1> QED
  BY <1>4, <1>5, <1>6 DEF AllLed

LEMMA NextLed ==
  ASSUME ReplicationTypeOK, Sharing, QueuesOK, AllLed, Next
  PROVE  AllLed'
<1>1. CASE Edit
  BY <1>1, EditLed
<1>2. CASE SendByCopying
  BY <1>2, SendLed DEF SendByCopying
<1>3. CASE SendByMoving
  BY <1>3, SendLed DEF SendByMoving
<1>4. CASE ProcessEcho
  BY <1>4, ProcessEchoLed
<1>5. CASE Transmit
  BY <1>5, TransmitLed
<1>6. CASE CheckOut
  <2>1. /\ Arrive("add_component", ReadData(WriteData(world)), memory)
        /\ UNCHANGED << world, writer, reader >> /\ ~in_view /\ in_view' = TRUE
    BY <1>6 DEF CheckOut
  <2> QED
    BY <2>1, ArrivalLed
<1>7. CASE CheckIn
  BY <1>7, CheckInLed
<1>8. CASE Answer
  <2>1. /\ Arrive("entity_query_response", ReadData(WriteData(world)), memory)
        /\ UNCHANGED << world, writer, reader >> /\ in_view' = in_view
    BY <1>8 DEF Answer
  <2> QED
    BY <2>1, ArrivalLed
<1>9. CASE GetOpList
  BY <1>9, GetOpListLed
<1>10. ASSUME NEW v \in Views, ProcessNext(v)
       PROVE  AllLed'
  BY <1>10, ProcessNextLed
<1>11. CASE DestroyOpList
  BY <1>11, DestroyOpListLed
<1> QED
  BY <1>1, <1>2, <1>3, <1>4, <1>5, <1>6, <1>7, <1>8, <1>9, <1>10, <1>11 DEF Next, Reading

LEMMA LedAlways == Spec => [](ReplicationTypeOK /\ AllLed)
<1>1. Init => AllLed
  BY InitLed
<1>2. ReplicationTypeOK /\ Sharing /\ QueuesOK /\ AllLed /\ [Next]_vars => AllLed'
  BY NextLed, StutterLed
<1> QED
  BY <1>1, <1>2, Parts, PTL DEF Spec

-----------------------------------------------------------------------------
(* What leads somewhere is what AfterUpdates and AfterOps compute.         *)

(* The function that a recursive definition on 0 .. n defines, when there  *)
(* is one that satisfies it.                                               *)
LEMMA UpdatesLead ==
  ASSUME NEW q \in Seq(Handles), NEW from, NEW to,
         \A i \in 1 .. Len(q) : q[i] = sharing(q[i].shared),
         Leads(Len(q), ChangesOf(q, memory), Data, from, to)
  PROVE  AfterUpdates(q, from) = to
<1> DEFINE n == Len(q)
           Body(g) == [ i \in 0 .. n |->
                          IF i = 0 THEN from ELSE ApplyTo(get(q[i], memory), g[i - 1]) ]
           after == CHOOSE g : g = Body(g)
<1>1. n \in Nat
  OBVIOUS
<1>2. PICK f \in [ 0 .. n -> Data ] :
        /\ f[0] = from /\ f[n] = to
        /\ \A i \in 1 .. n : f[i] = Effect(ChangesOf(q, memory)[i], f[i - 1])
  BY DEF Leads
<1>3. ASSUME NEW i \in 1 .. n
      PROVE  f[i] = ApplyTo(get(q[i], memory), f[i - 1])
  <2>1. ChangesOf(q, memory)[i] = ChangeOf(q[i], memory)
    BY DEF ChangesOf
  <2>2. f[i - 1] \in Data
    BY <1>1
  <2>3. Effect(ChangeOf(q[i], memory), f[i - 1]) = ApplyTo(memory.object[q[i].shared], f[i - 1])
    BY <2>2, EffectOfUpdate
  <2>4. get(q[i], memory) = memory.object[q[i].shared]
    <3>1. q[i] = sharing(q[i].shared)
      OBVIOUS
    <3>2. q[i].copyable_raw = Null /\ q[i].movable_raw = Null
      BY <3>1 DEF sharing
    <3> QED
      BY <3>2 DEF get
  <2> QED
    BY <1>2, <2>1, <2>3, <2>4
<1> HIDE DEF n
<1>4. f = Body(f)
  <2>1. \A i \in 0 .. n : Body(f)[i] = f[i]
    BY <1>1, <1>2, <1>3
  <2>2. f = [ i \in 0 .. n |-> f[i] ]
    OBVIOUS
  <2>3. Body(f) = [ i \in 0 .. n |-> f[i] ]
    <3>1. \A i \in 0 .. n : (IF i = 0 THEN from ELSE ApplyTo(get(q[i], memory), f[i - 1])) = f[i]
      BY <1>1, <1>2, <1>3
    <3> QED
      BY <3>1
  <2> QED
    BY <2>2, <2>3
<1>5. after = Body(after)
  <2> HIDE DEF Body
  <2> QED
    BY <1>4
<1>6. /\ after[0] = from
      /\ \A i \in 1 .. n : after[i] = ApplyTo(get(q[i], memory), after[i - 1])
  <2> PICK g : g = after
    OBVIOUS
  <2>1. g = Body(g)
    BY <1>5
  <2> HIDE DEF after
  <2>2. g[0] = from /\ \A i \in 1 .. n : g[i] = ApplyTo(get(q[i], memory), g[i - 1])
    BY <1>1, <2>1
  <2> QED
    BY <2>2
<1>7. AfterUpdates(q, from) = after[n]
  BY DEF AfterUpdates, n
<1> HIDE DEF after, Body
<1>8. \A i \in 1 .. n : after[i - 1] = f[i - 1] => after[i] = f[i]
  BY <1>3, <1>6
<1>9. after[n] = f[n]
  <2> PICK g : g = after
    OBVIOUS
  <2>1. g[0] = f[0] /\ \A i \in 1 .. n : g[i - 1] = f[i - 1] => g[i] = f[i]
    BY <1>2, <1>6, <1>8
  <2>2. Alike(n, g, f)
    BY <1>1, <2>1, RunsAgree
  <2> QED
    BY <1>1, <2>2 DEF Alike
<1> QED
  BY <1>2, <1>7, <1>9

LEMMA OpsLead ==
  ASSUME NEW ops \in Seq(OpRecords), NEW p, NEW from, NEW to,
         \A i \in 1 .. Len(ops) : ops[i].handle = sharing(ops[i].handle.shared),
         \A i \in 1 .. Len(ops) : p[i] = ChangeBy(ops[i], memory),
         Leads(Len(ops), p, Data \cup {NoData}, from, to)
  PROVE  AfterOps(ops, from) = to
<1> DEFINE n == Len(ops)
           Body(g) == [ i \in 0 .. n |-> IF i = 0 THEN from ELSE After(ops[i], g[i - 1], memory) ]
           after == CHOOSE g : g = Body(g)
<1>1. n \in Nat
  OBVIOUS
<1>2. PICK f \in [ 0 .. n -> Data \cup {NoData} ] :
        /\ f[0] = from /\ f[n] = to
        /\ \A i \in 1 .. n : f[i] = Effect(p[i], f[i - 1])
  BY DEF Leads
<1>3. ASSUME NEW i \in 1 .. n
      PROVE  f[i] = After(ops[i], f[i - 1], memory)
  <2>1. p[i] = ChangeBy(ops[i], memory) /\ ops[i] \in OpRecords
        /\ ops[i].handle = sharing(ops[i].handle.shared)
    OBVIOUS
  <2>2. Effect(ChangeBy(ops[i], memory), f[i - 1]) = After(ops[i], f[i - 1], memory)
    BY <2>1, EffectOfOp
  <2> QED
    BY <1>2, <2>1, <2>2
<1> HIDE DEF n
<1>4. f = Body(f)
  <2>1. f = [ i \in 0 .. n |-> f[i] ]
    OBVIOUS
  <2>2. \A i \in 0 .. n : (IF i = 0 THEN from ELSE After(ops[i], f[i - 1], memory)) = f[i]
    BY <1>1, <1>2, <1>3
  <2> QED
    BY <2>1, <2>2
<1>5. after = Body(after)
  <2> HIDE DEF Body
  <2> QED
    BY <1>4
<1>6. /\ after[0] = from
      /\ \A i \in 1 .. n : after[i] = After(ops[i], after[i - 1], memory)
  <2> PICK g : g = after
    OBVIOUS
  <2>1. g = Body(g)
    BY <1>5
  <2> HIDE DEF after
  <2>2. g[0] = from /\ \A i \in 1 .. n : g[i] = After(ops[i], g[i - 1], memory)
    BY <1>1, <2>1
  <2> QED
    BY <2>2
<1>7. AfterOps(ops, from) = after[n]
  BY DEF AfterOps, n
<1> HIDE DEF after, Body
<1>8. after[n] = f[n]
  <2> PICK g : g = after
    OBVIOUS
  <2>1. g[0] = f[0] /\ \A i \in 1 .. n : g[i - 1] = f[i - 1] => g[i] = f[i]
    BY <1>2, <1>3, <1>6
  <2>2. Alike(n, g, f)
    BY <1>1, <2>1, RunsAgree
  <2> QED
    BY <1>1, <2>2 DEF Alike
<1> QED
  BY <1>2, <1>7, <1>8

LEMMA RestFacts ==
  ASSUME NEW S, NEW q \in Seq(S), NEW m \in Nat, m <= Len(q)
  PROVE  LET r == SubSeq(q, m + 1, Len(q))
         IN  /\ r \in Seq(S) /\ Len(r) = Len(q) - m
             /\ \A i \in 1 .. Len(q) - m : r[i] = q[m + i]
OBVIOUS

LEMMA ConcatFacts ==
  ASSUME NEW S, NEW q \in Seq(S), NEW p \in Seq(S)
  PROVE  /\ q \o p \in Seq(S) /\ Len(q \o p) = Len(q) + Len(p)
         /\ \A i \in 1 .. Len(q) : (q \o p)[i] = q[i]
         /\ \A i \in 1 .. Len(p) : (q \o p)[Len(q) + i] = p[i]
OBVIOUS

(* What ViewsCatchUp says a View has to come is what it has ahead.         *)
LEMMA AheadIsToCome ==
  ASSUME ReplicationTypeOK, QueuesOK, NEW v \in Views
  PROVE  LET ops == (IF list = << >> THEN << >> ELSE SubSeq(list, at[v] + 1, Len(list))) \o arrived
         IN  /\ ops \in Seq(OpRecords) /\ Len(ops) = Left(v) + Len(arrived)
             /\ \A i \in 1 .. Len(ops) :
                  ops[i] = Ahead(v)[i] /\ ops[i].handle = sharing(ops[i].handle.shared)
<1> DEFINE rest == IF list = << >> THEN << >> ELSE SubSeq(list, at[v] + 1, Len(list))
           ops == rest \o arrived
<1>1. /\ list \in Seq(OpRecords) /\ arrived \in Seq(OpRecords) /\ at[v] \in Nat
      /\ Len(list) \in Nat /\ Len(arrived) \in Nat /\ list # << >> => at[v] <= Len(list)
  BY DEF ReplicationTypeOK
<1>2. /\ rest \in Seq(OpRecords) /\ Len(rest) = Left(v)
      /\ \A i \in 1 .. Left(v) : rest[i] = list[at[v] + i]
  <2>1. CASE list = << >>
    BY <2>1 DEF Left
  <2>2. CASE list # << >>
    <3>1. rest = SubSeq(list, at[v] + 1, Len(list)) /\ Left(v) = Len(list) - at[v]
      BY <2>2 DEF Left
    <3> HIDE DEF rest
    <3>2. /\ SubSeq(list, at[v] + 1, Len(list)) \in Seq(OpRecords)
          /\ Len(SubSeq(list, at[v] + 1, Len(list))) = Len(list) - at[v]
          /\ \A i \in 1 .. Len(list) - at[v] :
               SubSeq(list, at[v] + 1, Len(list))[i] = list[at[v] + i]
      BY <1>1, <2>2, RestFacts
    <3> QED
      BY <3>1, <3>2
  <2> QED
    BY <2>1, <2>2
<1> HIDE DEF rest
<1>3. ops \in Seq(OpRecords) /\ Len(ops) = Left(v) + Len(arrived)
  BY <1>1, <1>2, ConcatFacts
<1>4. ASSUME NEW i \in 1 .. Len(ops)
      PROVE  ops[i] = Ahead(v)[i] /\ ops[i].handle = sharing(ops[i].handle.shared)
  <2>1. i \in 1 .. Left(v) + Len(arrived)
    BY <1>3
  <2>2. CASE i \in 1 .. Left(v) /\ Ahead(v)[i] = list[at[v] + i] /\ at[v] + i \in 1 .. Len(list)
    <3>1. ops[i] = rest[i]
      BY <1>1, <1>2, <2>2
    <3>2. ops[i] = list[at[v] + i]
      BY <1>2, <2>2, <3>1
    <3> QED
      BY <2>2, <3>2 DEF QueuesOK, OpsOK
  <2>3. CASE i - Left(v) \in 1 .. Len(arrived) /\ Ahead(v)[i] = arrived[i - Left(v)]
    <3>1. ops[i] = arrived[i - Left(v)]
      BY <1>1, <1>2, <2>1, <2>3
    <3> QED
      BY <2>3, <3>1 DEF QueuesOK, OpsOK
  <2> QED
    BY <2>1, <2>2, <2>3, AheadIsQueued
<1> QED
  BY <1>3, <1>4 DEF rest

LEMMA LedCatchUp ==
  ASSUME ReplicationTypeOK, QueuesOK, AllLed
  PROVE  EveryoneCatchesUp
<1>1. /\ outbox \in Seq(Handles) /\ echoes \in Seq(Handles)
      /\ \A i \in 1 .. Len(outbox) : outbox[i] = sharing(outbox[i].shared)
      /\ \A i \in 1 .. Len(echoes) : echoes[i] = sharing(echoes[i].shared)
  BY DEF ReplicationTypeOK, QueuesOK, QueueOK
<1>2. WorldCatchesUp
  BY <1>1, UpdatesLead DEF AllLed, WorldLed, WorldCatchesUp
<1>3. EchoesCatchUp
  BY <1>1, UpdatesLead DEF AllLed, EchoesLed, EchoesCatchUp
<1>4. ViewsCatchUp
  <2> SUFFICES ASSUME NEW v \in Views
               PROVE  AfterOps((IF list = << >> THEN << >>
                                ELSE SubSeq(list, at[v] + 1, Len(list))) \o arrived, view[v])
                        = IF in_view THEN world ELSE NoData
    BY DEF ViewsCatchUp
  <2> PICK ops : ops = (IF list = << >> THEN << >>
                        ELSE SubSeq(list, at[v] + 1, Len(list))) \o arrived
    OBVIOUS
  <2>1. /\ ops \in Seq(OpRecords) /\ Len(ops) = Left(v) + Len(arrived)
        /\ \A i \in 1 .. Len(ops) :
             ops[i] = Ahead(v)[i] /\ ops[i].handle = sharing(ops[i].handle.shared)
    BY AheadIsToCome
  <2> DEFINE p == ChangesAhead(v, memory)
             to == IF in_view THEN world ELSE NoData
  <2>2. \A i \in 1 .. Len(ops) : p[i] = ChangeBy(ops[i], memory)
    BY <2>1 DEF ChangesAhead
  <2>3. Leads(Len(ops), p, Data \cup {NoData}, view[v], to)
    BY <2>1 DEF AllLed, ViewLed
  <2>4. \A i \in 1 .. Len(ops) : ops[i].handle = sharing(ops[i].handle.shared)
    BY <2>1
  <2> HIDE DEF p, to
  <2>5. ops \in Seq(OpRecords)
    BY <2>1
  <2>6. PICK q, c, d : q = p /\ c = view[v] /\ d = to
    OBVIOUS
  <2>7. /\ \A i \in 1 .. Len(ops) : q[i] = ChangeBy(ops[i], memory)
        /\ Leads(Len(ops), q, Data \cup {NoData}, c, d)
    BY <2>2, <2>3, <2>6
  <2>8. AfterOps(ops, c) = d
    BY <2>4, <2>5, <2>7, OpsLead
  <2> QED
    BY <2>6, <2>8 DEF to
<1> QED
  BY <1>2, <1>3, <1>4 DEF EveryoneCatchesUp

(* The writer's own View, SpatialOS, and every View of the reader's lag    *)
(* behind what the writer sent by the operations that are on their way,    *)
(* and by nothing else: SendComponentUpdate keeps what the object held     *)
(* when it was sent, and each core applies what it gets in order.          *)
THEOREM CatchUp == Spec => []EveryoneCatchesUp
BY LedAlways, Parts, LedCatchUp, PTL

-----------------------------------------------------------------------------
(* Answers to queries.                                                     *)

IsAnswer(op) == op.type = "entity_query_response"

IsTrue(op) == memory.object[op.handle.shared] = op.said

(* An answer on its way is true, and one in the list until a View took it; *)
(* ...                                                                     *)
Fresh ==
  /\ \A i \in 1 .. Len(arrived) : IsAnswer(arrived[i]) => IsTrue(arrived[i])
  /\ \A i \in 1 .. Len(list) :
       IsAnswer(list[i]) /\ (\A v \in Views : at[v] < i) => IsTrue(list[i])

(* ... a View that is past an answer has one; ...                          *)
Answered ==
  list # << >> =>
    \A v \in Views : \A i \in 1 .. at[v] : IsAnswer(list[i]) => answer[v] # NoAnswer

(* ... and a View that has a true answer keeps it: the next one in the     *)
(* list, no other View has taken before it.                                *)
Keeps(v) ==
  /\ answer[v] # NoAnswer /\ answer[v].got = answer[v].said
  /\ list # << >> => \A w \in Views : \A i \in at[v] + 1 .. at[w] : ~IsAnswer(list[i])

OneIsTrue == (\E v \in Views : answer[v] # NoAnswer) => \E v \in Views : Keeps(v)

AnswersOK == DOMAIN answer = Views /\ Fresh /\ Answered /\ OneIsTrue

(* The answers the Views have are not touched.                             *)
LEMMA AnsweredStill ==
  ASSUME Answered, OneIsTrue, UNCHANGED << list, at, answer >>
  PROVE  Answered' /\ OneIsTrue'
BY DEF Answered, OneIsTrue, Keeps, IsAnswer

LEMMA AnswersShared ==
  ASSUME ReplicationTypeOK, QueuesOK
  PROVE  /\ \A i \in 1 .. Len(arrived) :
              IsAnswer(arrived[i]) => arrived[i].handle.shared \in OwnedBy(arrived)
         /\ \A i \in 1 .. Len(list) :
              IsAnswer(list[i]) => list[i].handle.shared \in OwnedBy(list)
<1>1. OpsOK(arrived, memory) /\ OpsOK(list, memory)
  BY DEF QueuesOK
<1>2. ASSUME NEW i \in 1 .. Len(arrived), IsAnswer(arrived[i])
      PROVE  arrived[i].handle.shared \in OwnedBy(arrived)
  <2>1. arrived[i].handle.shared # Null
    BY <1>1, <1>2 DEF OpsOK, IsAnswer
  <2> QED
    BY <2>1 DEF OwnedBy
<1>3. ASSUME NEW i \in 1 .. Len(list), IsAnswer(list[i])
      PROVE  list[i].handle.shared \in OwnedBy(list)
  <2>1. list[i].handle.shared # Null
    BY <1>1, <1>3 DEF OpsOK, IsAnswer
  <2> QED
    BY <2>1 DEF OwnedBy
<1> QED
  BY <1>2, <1>3

LEMMA FreshStill ==
  ASSUME ReplicationTypeOK, QueuesOK, Fresh, UNCHANGED << list, at, arrived >>,
         Kept(OwnedBy(arrived) \cup OwnedBy(list))
  PROVE  Fresh'
BY AnswersShared DEF Fresh, IsTrue, Kept, IsAnswer

LEMMA FreshOn ==
  ASSUME ReplicationTypeOK, QueuesOK, Fresh, UNCHANGED << list, at >>,
         Kept(OwnedBy(arrived) \cup OwnedBy(list)),
         NEW op \in OpRecords, arrived' = Append(arrived, op),
         IsAnswer(op) => memory'.object[op.handle.shared] = op.said
  PROVE  Fresh'
<1>1. arrived \in Seq(OpRecords)
  BY DEF ReplicationTypeOK
<1>2. /\ Len(arrived') = Len(arrived) + 1 /\ Len(arrived) \in Nat
      /\ arrived'[Len(arrived) + 1] = op
      /\ \A i \in 1 .. Len(arrived) : arrived'[i] = arrived[i]
  BY <1>1, AppendFacts
<1>3. ASSUME NEW i \in 1 .. Len(arrived'), IsAnswer(arrived'[i])
      PROVE  memory'.object[arrived'[i].handle.shared] = arrived'[i].said
  <2>1. CASE i \in 1 .. Len(arrived)
    <3>1. arrived'[i] = arrived[i] /\ IsAnswer(arrived[i])
      BY <1>2, <1>3, <2>1
    <3> QED
      BY <2>1, <3>1, AnswersShared DEF Fresh, IsTrue, Kept
  <2>2. CASE i = Len(arrived) + 1
    <3>1. arrived'[i] = op
      BY <1>2, <2>2
    <3> QED
      BY <1>3, <3>1
  <2> QED
    BY <1>2, <2>1, <2>2
<1>4. ASSUME NEW i \in 1 .. Len(list), IsAnswer(list[i]), \A v \in Views : at[v] < i
      PROVE  memory'.object[list[i].handle.shared] = list[i].said
  BY <1>4, AnswersShared DEF Fresh, IsTrue, Kept
<1> QED
  BY <1>3, <1>4 DEF Fresh, IsTrue, IsAnswer

LEMMA ArrivalAnswers ==
  ASSUME ReplicationTypeOK, Sharing, QueuesOK, AnswersOK,
         NEW type \in { "add_component", "entity_query_response" },
         Arrive(type, ReadData(WriteData(world)), memory),
         UNCHANGED << world, writer, reader >>
  PROVE  AnswersOK'
<1>1. UNCHANGED << list, at, answer >>
  BY DEF reader
<1>2. memory \in Memories /\ world \in Data
  BY DEF ReplicationTypeOK
<1>3. Arrive(type, world, memory) /\ world \in Updates /\ type \in OpTypes
  BY <1>2, DataSurvivesTheWire, DataAreUpdates DEF OpTypes
<1>4. PICK op \in OpRecords :
        /\ arrived' = Append(arrived, op)
        /\ op.type = type /\ op.handle = sharing(op.handle.shared) /\ op.said = world
        /\ get(op.handle, memory') = world
  BY <1>2, <1>3, ArriveAppends
<1>5. memory'.object[op.handle.shared] = op.said
  <2>1. op.handle.copyable_raw = Null /\ op.handle.movable_raw = Null
    BY <1>4 DEF sharing
  <2> QED
    BY <1>4, <2>1 DEF get
<1>6. Kept(OwnedBy(arrived) \cup OwnedBy(list))
  BY ArrivalKeeps DEF Kept
<1>7. Fresh'
  BY <1>1, <1>4, <1>5, <1>6, FreshOn DEF AnswersOK
<1> QED
  BY <1>1, <1>7, AnsweredStill DEF AnswersOK

LEMMA CheckInAnswers ==
  ASSUME ReplicationTypeOK, Sharing, QueuesOK, AnswersOK, CheckIn
  PROVE  AnswersOK'
<1>1. /\ UNCHANGED << list, at, answer, memory >>
      /\ arrived' = Append(arrived, Op("remove_component", sharing(Null)))
  BY DEF CheckIn, reader
<1>2. PICK op : op = Op("remove_component", sharing(Null))
  OBVIOUS
<1>3. op \in OpRecords /\ op.type = "remove_component"
  <2>1. world \in Data /\ sharing(Null) \in Handles /\ "remove_component" \in OpTypes
    BY SharingType DEF ReplicationTypeOK, OpTypes
  <2> QED
    BY <1>2, <2>1 DEF OpRecords, Op
<1>4. Fresh'
  BY <1>1, <1>2, <1>3, FreshOn DEF AnswersOK, IsAnswer, Kept
<1> QED
  BY <1>1, <1>4, AnsweredStill DEF AnswersOK

(* An update that arrives is no answer.                                    *)
LEMMA TransmitAnswers ==
  ASSUME ReplicationTypeOK, Sharing, QueuesOK, AnswersOK, Transmit
  PROVE  AnswersOK'
<1> DEFINE update == Deserialize(Serialize(get(Head(outbox), memory)))
           freed  == free(Head(outbox), memory)
           h == Head(outbox).shared
<1>1. /\ UNCHANGED << list, at, answer >> /\ outbox # << >>
      /\ IF in_view THEN Arrive("update", update, freed)
         ELSE memory' = freed /\ UNCHANGED arrived
  BY DEF Transmit, reader
<1>2. Kept(OwnedBy(arrived) \cup OwnedBy(list))
  BY TransmitKeeps DEF Kept
<1>3. Fresh'
  <2>1. CASE ~in_view
    <3>1. UNCHANGED << list, at, arrived >>
      BY <1>1, <2>1
    <3> QED
      BY <1>2, <3>1, FreshStill DEF AnswersOK
  <2>2. CASE in_view
    <3>1. Arrive("update", update, freed) /\ "update" \in OpTypes
      BY <1>1, <2>2 DEF OpTypes
    <3>2. memory \in Memories /\ outbox \in Seq(Handles) /\ QueueOK(outbox) /\ world \in Data
      BY DEF ReplicationTypeOK, QueuesOK
    <3>3. Head(outbox) = sharing(h) /\ h \in SharedBy(outbox) /\ h \in Addresses
      BY <1>1, <3>2, QueueTail
    <3>4. update \in Updates
      <4>1. get(Head(outbox), memory) = memory.object[h]
        BY <3>3 DEF get, sharing
      <4> QED
        BY <3>2, <3>3, <4>1, MemoryTypes, UpdateSurvivesTheWire
    <3>5. freed \in Memories
      BY <3>2, <3>3, FreeShares DEF Sharing
    <3> HIDE DEF update, freed
    <3>6. PICK op \in OpRecords :
            /\ arrived' = Append(arrived, op)
            /\ op.type = "update" /\ op.handle = sharing(op.handle.shared) /\ op.said = world
            /\ get(op.handle, memory') = update
      BY <3>1, <3>2, <3>4, <3>5, ArriveAppends
    <3> QED
      BY <1>1, <1>2, <3>6, FreshOn DEF AnswersOK, IsAnswer
  <2> QED
    BY <2>1, <2>2
<1> QED
  BY <1>1, <1>3, AnsweredStill DEF AnswersOK

LEMMA GetOpListAnswers ==
  ASSUME ReplicationTypeOK, Sharing, QueuesOK, AnswersOK, GetOpList
  PROVE  AnswersOK'
<1>1. /\ list = << >> /\ list' = arrived /\ arrived' = << >>
      /\ at' = [ v \in Views |-> 0 ] /\ UNCHANGED << memory, answer >>
  BY DEF GetOpList
<1>2. Fresh'
  BY <1>1 DEF AnswersOK, Fresh, IsTrue, IsAnswer
<1>3. Answered'
  BY <1>1 DEF Answered
<1>4. OneIsTrue'
  <2> SUFFICES ASSUME NEW v \in Views, answer[v] # NoAnswer
               PROVE  \E w \in Views : Keeps(w)'
    BY <1>1 DEF OneIsTrue
  <2>1. PICK w \in Views : Keeps(w)
    BY DEF AnswersOK, OneIsTrue
  <2>2. \A u \in Views : \A i \in at'[w] + 1 .. at'[u] : FALSE
    BY <1>1
  <2>3. Keeps(w)'
    BY <1>1, <2>1, <2>2 DEF Keeps
  <2> QED
    BY <2>3
<1> QED
  BY <1>1, <1>2, <1>3, <1>4 DEF AnswersOK

LEMMA DestroyOpListAnswers ==
  ASSUME ReplicationTypeOK, Sharing, QueuesOK, AnswersOK, DestroyOpList
  PROVE  AnswersOK'
<1>1. list' = << >> /\ UNCHANGED << at, answer, arrived >>
  BY DEF DestroyOpList, spatial
<1>2. \A b \in OwnedBy(arrived) : memory'.object[b] = memory.object[b]
  BY DestroyOpListKeeps DEF Kept
<1>3. Fresh'
  BY <1>1, <1>2, AnswersShared DEF AnswersOK, Fresh, IsTrue, IsAnswer
<1>4. Answered' /\ OneIsTrue'
  BY <1>1 DEF AnswersOK, Answered, OneIsTrue, Keeps
<1> QED
  BY <1>1, <1>3, <1>4 DEF AnswersOK

LEMMA AnswerTaken ==
  ASSUME ReplicationTypeOK, QueuesOK, NEW v \in Views, at[v] + 1 \in 1 .. Len(list),
         TakeAnswer(v, list[at[v] + 1])
  PROVE  LET op == list[at[v] + 1]
             a  == op.handle.shared
         IN  /\ IsAnswer(op) /\ a \in OwnedBy(list) /\ DOMAIN memory.object = Addresses
             /\ memory'.object = [ memory.object EXCEPT ![a] = EmptyData ]
             /\ answer' = [ answer EXCEPT ![v] = [ got |-> memory.object[a], said |-> op.said ] ]
             /\ [ got |-> memory.object[a], said |-> op.said ] # NoAnswer
<1> DEFINE op == list[at[v] + 1]
           a  == op.handle.shared
<1>1. /\ memory \in Memories /\ OpsOK(list, memory) /\ list \in Seq(OpRecords)
  BY DEF ReplicationTypeOK, QueuesOK
<1>2. /\ op.type = "entity_query_response"
      /\ memory' = steal("snapshot", op.handle, memory, Null).mem
      /\ answer' = [ answer EXCEPT ![v] = [ got  |-> steal("snapshot", op.handle, memory, Null).object,
                                          said |-> op.said ] ]
  BY DEF TakeAnswer
<1>3. op.handle = sharing(a) /\ a # Null
  BY <1>1, <1>2 DEF OpsOK
<1>4. op.handle.shared = a /\ op.handle.copyable_raw = Null /\ op.handle.movable_raw = Null
  BY <1>3 DEF sharing
<1>5. /\ steal("snapshot", op.handle, memory, Null).mem = Write(memory, a, EmptyData)
      /\ steal("snapshot", op.handle, memory, Null).object = memory.object[a]
  BY <1>4 DEF steal, MovedFrom
<1>6. a \in OwnedBy(list) /\ OwnedBy(list) \subseteq Addresses
  BY <1>1, <1>3, OpsAddresses DEF OwnedBy
<1>7. DOMAIN memory.object = Addresses /\ memory.object[a] \in Data \cup Updates
  BY <1>1, <1>6 DEF Memories
<1>8. op.said \in Data
  <2>1. op \in OpRecords
    BY <1>1
  <2> QED
    BY <2>1 DEF OpRecords
<1>9. [ got |-> memory.object[a], said |-> op.said ] # NoAnswer
  <2>1. [ got |-> memory.object[a], said |-> op.said ] \in [ got : Data \cup Updates, said : Data ]
    BY <1>7, <1>8
  <2> QED
    BY <2>1, AnswerAssumption
<1>10. memory'.object = [ memory.object EXCEPT ![a] = EmptyData ]
  BY <1>2, <1>5 DEF Write
<1>11. answer' = [ answer EXCEPT ![v] = [ got |-> memory.object[a], said |-> op.said ] ]
  BY <1>2, <1>5
<1>12. IsAnswer(op)
  BY <1>2 DEF IsAnswer
<1> QED
  BY <1>6, <1>7, <1>9, <1>10, <1>11, <1>12

(* Whoever comes first to an answer gets it as it was said, and who comes  *)
(* later leaves him what he has.                                           *)
LEMMA ProcessNextAnswers ==
  ASSUME ReplicationTypeOK, Sharing, QueuesOK, AnswersOK, NEW v \in Views, ProcessNext(v)
  PROVE  AnswersOK'
<1> DEFINE i  == at[v] + 1
           op == list[i]
           a  == op.handle.shared
<1>1. /\ at[v] < Len(list) /\ at' = [ at EXCEPT ![v] = i ]
      /\ TakeAnswer(v, op) \/ TakeChange(v, op)
      /\ UNCHANGED << list, arrived >>
  BY DEF ProcessNext, spatial
<1>2. /\ at \in [ Views -> Nat ] /\ Len(list) \in Nat /\ i \in Nat
      /\ list # << >> /\ \A w \in Views : at[w] <= Len(list)
  <2>1. at \in [ Views -> Nat ] /\ Len(list) \in Nat
    BY DEF ReplicationTypeOK
  <2>2. list # << >>
    BY <1>1, <2>1
  <2> QED
    BY <2>1, <2>2 DEF ReplicationTypeOK
<1>3. i \in 1 .. Len(list)
  BY <1>1, <1>2
<1>4. /\ at'[v] = i /\ i = at[v] + 1
      /\ \A w \in Views : w # v => at'[w] = at[w]
  BY <1>1, <1>2
<1> HIDE DEF i
<1>5. \A w \in Views : \A j \in 1 .. at'[w] : j \in 1 .. at[w] \/ (w = v /\ j = i)
  BY <1>2, <1>4
<1>6. CASE TakeChange(v, op)
  <2>1. ~IsAnswer(op) /\ UNCHANGED << memory, answer >>
    BY <1>6 DEF TakeChange, IsAnswer
  <2>2. Fresh'
    <3>1. \A j \in 1 .. Len(list) :
            (\A w \in Views : at'[w] < j) => (\A w \in Views : at[w] < j)
      BY <1>2, <1>4
    <3> QED
      BY <1>1, <2>1, <3>1 DEF AnswersOK, Fresh, IsTrue, IsAnswer
  <2>3. Answered'
    BY <1>1, <1>2, <1>5, <2>1 DEF AnswersOK, Answered, IsAnswer
  <2>4. OneIsTrue'
    <3> SUFFICES ASSUME NEW u \in Views, answer[u] # NoAnswer
                 PROVE  \E w \in Views : Keeps(w)'
      BY <2>1 DEF OneIsTrue
    <3>1. PICK u1 \in Views : Keeps(u1)
      BY DEF AnswersOK, OneIsTrue
    <3>2. \A w \in Views : \A j \in at'[u1] + 1 .. at'[w] : j \in at[u1] + 1 .. at[w] \/ j = i
      BY <1>2, <1>4
    <3>3. Keeps(u1)'
      BY <1>1, <1>2, <2>1, <3>1, <3>2 DEF Keeps, IsAnswer
    <3> QED
      BY <3>3
  <2> QED
    BY <2>1, <2>2, <2>3, <2>4 DEF AnswersOK
<1>7. CASE TakeAnswer(v, op)
  <2> PICK object, b : object = memory.object[a] /\ b = a
    OBVIOUS
  <2>1. /\ IsAnswer(op) /\ b \in OwnedBy(list) /\ DOMAIN memory.object = Addresses
        /\ memory'.object = [ memory.object EXCEPT ![b] = EmptyData ]
        /\ answer' = [ answer EXCEPT ![v] = [ got |-> object, said |-> op.said ] ]
        /\ [ got |-> object, said |-> op.said ] # NoAnswer
    BY <1>3, <1>7, AnswerTaken DEF i
  <2>2. /\ OwnedBy(list) \subseteq Addresses /\ OwnedBy(arrived) \subseteq Addresses
        /\ b \notin OwnedBy(arrived) /\ OpsOK(list, memory)
    BY <2>1 DEF Sharing, Shares, QueuesOK
  <2>3. \A c \in Addresses : c # b => memory'.object[c] = memory.object[c]
    BY <2>1
  <2>4. Fresh'
    <3>1. ASSUME NEW j \in 1 .. Len(arrived), IsAnswer(arrived[j])
          PROVE  memory'.object[arrived[j].handle.shared] = arrived[j].said
      BY <2>2, <2>3, <3>1, AnswersShared DEF AnswersOK, Fresh, IsTrue
    <3>2. ASSUME NEW j \in 1 .. Len(list), IsAnswer(list[j]), \A w \in Views : at'[w] < j
          PROVE  memory'.object[list[j].handle.shared] = list[j].said
      <4>1. j # i /\ \A w \in Views : at[w] < j
        BY <1>2, <1>4, <3>2
      <4>2. list[j].handle.shared # b /\ list[j].handle.shared \in Addresses
        <5>1. list[j].handle.shared \in OwnedBy(list)
          BY <3>2, AnswersShared
        <5>2. b # Null
          BY <2>1, <2>2
        <5> QED
          BY <1>3, <2>2, <4>1, <5>1, <5>2 DEF OpsOK
      <4> QED
        BY <2>3, <3>2, <4>1, <4>2 DEF AnswersOK, Fresh, IsTrue
    <3> QED
      BY <1>1, <3>1, <3>2 DEF Fresh, IsTrue, IsAnswer
  <2>5. /\ DOMAIN answer' = Views
        /\ answer'[v] = [ got |-> object, said |-> op.said ] /\ answer'[v] # NoAnswer
        /\ \A w \in Views : w # v => answer'[w] = answer[w]
    <3>1. DOMAIN answer = Views
      BY DEF AnswersOK
    <3> QED
      BY <2>1, <3>1
  <2>6. Answered'
    <3>1. ASSUME NEW w \in Views, NEW j \in 1 .. at'[w], IsAnswer(list[j])
          PROVE  answer'[w] # NoAnswer
      <4>1. CASE w = v
        BY <2>5, <4>1
      <4>2. CASE w # v
        BY <1>2, <1>4, <2>5, <3>1, <4>2 DEF AnswersOK, Answered
      <4> QED
        BY <4>1, <4>2
    <3> QED
      BY <1>1, <3>1 DEF Answered, IsAnswer
  <2>7. OneIsTrue'
    <3>1. CASE \E u \in Views : at[u] >= i
      <4>1. PICK u \in Views : at[u] >= i
        BY <3>1
      <4>2. i \in 1 .. at[u] /\ IsAnswer(list[i])
        BY <1>2, <1>3, <2>1, <4>1 DEF i
      <4>3. answer[u] # NoAnswer
        BY <1>2, <4>2 DEF AnswersOK, Answered
      <4>4. PICK w \in Views : Keeps(w)
        BY <4>3 DEF AnswersOK, OneIsTrue
      <4>5. at[w] >= i
        <5>1. ~(i \in at[w] + 1 .. at[u])
          BY <1>2, <4>2, <4>4 DEF Keeps
        <5> QED
          BY <1>2, <4>1, <5>1
      <4>6. w # v
        BY <1>2, <1>4, <4>5
      <4>7. ASSUME NEW x \in Views, NEW j \in at'[w] + 1 .. at'[x]
            PROVE  ~IsAnswer(list[j])
        <5>1. j \in at[w] + 1 .. at[x]
          BY <1>2, <1>4, <4>5, <4>6, <4>7
        <5> QED
          BY <1>2, <4>4, <5>1 DEF Keeps
      <4>8. Keeps(w)'
        BY <1>1, <2>5, <4>4, <4>6, <4>7 DEF Keeps, IsAnswer
      <4> QED
        BY <4>8 DEF OneIsTrue
    <3>2. CASE \A u \in Views : ~(at[u] >= i)
      <4>1. object = op.said
        <5>1. \A u \in Views : at[u] < i
          BY <1>2, <3>2
        <5>2. IsTrue(list[i])
          BY <1>3, <2>1, <5>1 DEF AnswersOK, Fresh
        <5> QED
          BY <5>2 DEF IsTrue
      <4>2. \A x \in Views : \A j \in at'[v] + 1 .. at'[x] : FALSE
        BY <1>2, <1>4, <3>2
      <4>3. Keeps(v)'
        BY <2>5, <4>1, <4>2 DEF Keeps
      <4> QED
        BY <4>3 DEF OneIsTrue
    <3> QED
      BY <3>1, <3>2
  <2> QED
    BY <2>4, <2>5, <2>6, <2>7 DEF AnswersOK
<1> QED
  BY <1>1, <1>6, <1>7

LEMMA InitAnswers ==
  ASSUME Init
  PROVE  AnswersOK
<1>1. arrived = << >> /\ list = << >> /\ answer = [ v \in Views |-> NoAnswer ]
  BY DEF Init
<1> QED
  BY <1>1 DEF AnswersOK, Fresh, Answered, OneIsTrue

LEMMA OtherAnswers ==
  ASSUME ReplicationTypeOK, QueuesOK, AnswersOK, UNCHANGED << list, at, arrived, answer >>,
         Kept(OwnedBy(arrived) \cup OwnedBy(list))
  PROVE  AnswersOK'
BY FreshStill, AnsweredStill DEF AnswersOK

LEMMA NextAnswers ==
  ASSUME ReplicationTypeOK, Sharing, QueuesOK, AnswersOK, Next
  PROVE  AnswersOK'
<1>1. CASE Edit
  <2>1. UNCHANGED << list, at, arrived, answer >>
    BY <1>1 DEF Edit, reader, spatial
  <2>2. Kept(OwnedBy(arrived) \cup OwnedBy(list))
    BY <1>1, EditKeeps DEF Kept
  <2> QED
    BY <2>1, <2>2, OtherAnswers
<1>2. ASSUME NEW handle \in { copyable(UpdateObject), movable(UpdateObject) }, Send(handle)
      PROVE  AnswersOK'
  <2>1. UNCHANGED << list, at, arrived, answer >>
    BY <1>2 DEF Send, reader, spatial
  <2>2. Kept(OwnedBy(arrived) \cup OwnedBy(list))
    BY <1>2, SendMeans DEF Kept
  <2> QED
    BY <2>1, <2>2, OtherAnswers
<1>3. CASE SendByCopying \/ SendByMoving
  BY <1>2, <1>3 DEF SendByCopying, SendByMoving
<1>4. CASE ProcessEcho
  <2>1. UNCHANGED << list, at, arrived, answer >>
    BY <1>4 DEF ProcessEcho, reader, spatial
  <2>2. Kept(OwnedBy(arrived) \cup OwnedBy(list))
    BY <1>4, ProcessEchoKeeps DEF Kept
  <2> QED
    BY <2>1, <2>2, OtherAnswers
<1>5. CASE Transmit
  BY <1>5, TransmitAnswers
<1>6. CASE CheckOut
  <2>1. /\ Arrive("add_component", ReadData(WriteData(world)), memory)
        /\ UNCHANGED << world, writer, reader >>
    BY <1>6 DEF CheckOut
  <2> QED
    BY <2>1, ArrivalAnswers
<1>7. CASE CheckIn
  BY <1>7, CheckInAnswers
<1>8. CASE Answer
  <2>1. /\ Arrive("entity_query_response", ReadData(WriteData(world)), memory)
        /\ UNCHANGED << world, writer, reader >>
    BY <1>8 DEF Answer
  <2> QED
    BY <2>1, ArrivalAnswers
<1>9. CASE GetOpList
  BY <1>9, GetOpListAnswers
<1>10. ASSUME NEW v \in Views, ProcessNext(v)
       PROVE  AnswersOK'
  BY <1>10, ProcessNextAnswers
<1>11. CASE DestroyOpList
  BY <1>11, DestroyOpListAnswers
<1> QED
  BY <1>1, <1>3, <1>4, <1>5, <1>6, <1>7, <1>8, <1>9, <1>10, <1>11 DEF Next, Reading

LEMMA StutterAnswers ==
  ASSUME ReplicationTypeOK, QueuesOK, AnswersOK, UNCHANGED vars
  PROVE  AnswersOK'
<1>1. UNCHANGED << memory, list, at, arrived, answer >>
  BY DEF vars, reader, spatial
<1> QED
  BY <1>1, OtherAnswers DEF Kept

(* The first View to process an answer sees what SpatialOS answered; the   *)
(* callbacks' object is moved out of the list (view.h), and no View that   *)
(* comes later can take it from the one that was first.                    *)
THEOREM FirstAnswerTrue == Spec => []TheFirstAnswerIsTrue
<1>1. Init => AnswersOK
  BY InitAnswers
<1>2. ReplicationTypeOK /\ Sharing /\ QueuesOK /\ AnswersOK /\ [Next]_vars => AnswersOK'
  BY NextAnswers, StutterAnswers
<1>3. AnswersOK => TheFirstAnswerIsTrue
  BY DEF AnswersOK, OneIsTrue, Keeps, TheFirstAnswerIsTrue
<1> QED
  BY <1>1, <1>2, <1>3, Parts, PTL DEF Spec
=============================================================================
