------------------------------ MODULE ViewProofs -----------------------------
(***************************************************************************)
(* A View whose operations are processed one after the other, not by       *)
(* callbacks of each other.  Exceptions of callbacks may end a list, so    *)
(* that operations are dropped, and keep the View's own callback from a    *)
(* loss.  Whatever they do: for every entity it has, it has the authority; *)
(* if no operation of an entity was dropped, its two maps agree about the  *)
(* entity, it misses no gain, and callbacks find in it what their          *)
(* operation is about; and if none of its losses was missed either, the    *)
(* View is what the operations say.  Hearing of the removal of an entity   *)
(* makes up for all that was missed of it.                                 *)
(***************************************************************************)
EXTENDS View, DispatcherProofs

Comps == Range(ComponentList)

-----------------------------------------------------------------------------
(* Partial functions, as the maps of the View are.                         *)
Maps(S, T) == UNION { [ cs -> T ] : cs \in SUBSET S }

(* What a map from part of S into T is.                                    *)
LEMMA MapsDef ==
  ASSUME NEW S, NEW T, NEW f
  PROVE  f \in Maps(S, T) <=> DOMAIN f \in SUBSET S /\ f \in [ DOMAIN f -> T ]
BY DEF Maps

(* The empty map is one.                                                   *)
LEMMA EmptyMap ==
  ASSUME NEW S, NEW T
  PROVE  << >> \in Maps(S, T) /\ DOMAIN << >> = {}
<1>1. << >> \in Seq(T) /\ Len(<< >>) = 0
  BY EmptySeq
<1>2. << >> \in [ 1 .. 0 -> T ] /\ DOMAIN << >> = 1 .. 0
  BY <1>1, LenProperties
<1>3. 1 .. 0 = {}
  OBVIOUS
<1>4. DOMAIN << >> = {} /\ << >> \in [ DOMAIN << >> -> T ]
  BY <1>2, <1>3
<1>. QED  BY <1>4, MapsDef, Zenon

(* What the operations on maps make of a map, and that it is one.          *)
IsPut(g, f, x, v) ==
  /\ DOMAIN g = DOMAIN f \cup { x }
  /\ g[x] = v
  /\ \A z \in DOMAIN f : z # x => g[z] = f[z]

LEMMA PutFacts ==
  ASSUME NEW f, NEW x, NEW v
  PROVE  IsPut(Put(f, x, v), f, x, v)
BY DEF Put, IsPut

(* The result is a map again.                                              *)
LEMMA PutMap ==
  ASSUME NEW S, NEW T, NEW f \in Maps(S, T), NEW x \in S, NEW v \in T
  PROVE  Put(f, x, v) \in Maps(S, T)
<1>1. DOMAIN f \in SUBSET S /\ f \in [ DOMAIN f -> T ]
  BY MapsDef
<1>2. DOMAIN Put(f, x, v) = DOMAIN f \cup { x } /\ Put(f, x, v) \in [ DOMAIN f \cup { x } -> T ]
  BY <1>1 DEF Put
<1>. QED  BY <1>1, <1>2, MapsDef

IsErase(g, f, x) ==
  /\ DOMAIN g = DOMAIN f \ { x }
  /\ \A z \in DOMAIN f : z # x => g[z] = f[z]

LEMMA EraseFacts ==
  ASSUME NEW f, NEW x
  PROVE  IsErase(Erase(f, x), f, x)
BY DEF Erase, Restrict, IsErase

LEMMA EraseMap ==
  ASSUME NEW S, NEW T, NEW f \in Maps(S, T), NEW x
  PROVE  Erase(f, x) \in Maps(S, T)
<1>1. DOMAIN f \in SUBSET S /\ f \in [ DOMAIN f -> T ]
  BY MapsDef
<1>2. DOMAIN Erase(f, x) = DOMAIN f \ { x } /\ Erase(f, x) \in [ DOMAIN f \ { x } -> T ]
  BY <1>1 DEF Erase, Restrict
<1>. QED  BY <1>1, <1>2, MapsDef

(* What indexing a map of maps finds.                                      *)
LEMMA IndexFacts ==
  ASSUME NEW f, NEW x
  PROVE  /\ x \in DOMAIN f => Index(f, x) = f[x]
         /\ x \notin DOMAIN f => DOMAIN Index(f, x) = {}
<1>1. DOMAIN << >> = {}
  BY EmptyMap
<1>. QED  BY <1>1 DEF Index

LEMMA IndexMap ==
  ASSUME NEW R, NEW S, NEW T, NEW f \in Maps(R, Maps(S, T)), NEW x
  PROVE  Index(f, x) \in Maps(S, T)
<1>1. DOMAIN f \in SUBSET R /\ f \in [ DOMAIN f -> Maps(S, T) ]
  BY MapsDef
<1>. QED  BY <1>1, EmptyMap DEF Index

(* Putting into a map of maps, and erasing there.                          *)
PutIn(f, x, y, v) == Put(f, x, Put(Index(f, x), y, v))

EraseIn(f, x, y) == [ f EXCEPT ![x] = Erase(@, y) ]

IsPutIn(g, f, x, y, v) ==
  /\ DOMAIN g = DOMAIN f \cup { x }
  /\ DOMAIN g[x] = DOMAIN Index(f, x) \cup { y }
  /\ g[x][y] = v
  /\ \A z \in DOMAIN Index(f, x) : z # y => g[x][z] = f[x][z]
  /\ \A z \in DOMAIN f : z # x => g[z] = f[z]

LEMMA PutInFacts ==
  ASSUME NEW f, NEW x, NEW y, NEW v
  PROVE  IsPutIn(PutIn(f, x, y, v), f, x, y, v)
<1>. DEFINE i == Index(f, x)
            g == Put(i, y, v)
            h == Put(f, x, g)
<1>1. (x \in DOMAIN f => i = f[x]) /\ (x \notin DOMAIN f => DOMAIN i = {})
  BY IndexFacts
<1>2. h = PutIn(f, x, y, v)
  BY DEF PutIn
<1>. HIDE DEF i
<1>3. DOMAIN g = DOMAIN i \cup { y } /\ g[y] = v /\ \A z \in DOMAIN i : z # y => g[z] = i[z]
  BY DEF Put
<1>. HIDE DEF g
<1>4. DOMAIN h = DOMAIN f \cup { x } /\ h[x] = g /\ \A z \in DOMAIN f : z # x => h[z] = f[z]
  BY DEF Put
<1>. HIDE DEF h
<1>5. \A z \in DOMAIN i : z # y => h[x][z] = f[x][z]
  BY <1>1, <1>3, <1>4
<1>6. DOMAIN h[x] = DOMAIN i \cup { y } /\ h[x][y] = v
  BY <1>3, <1>4
<1>. QED  BY <1>2, <1>4, <1>5, <1>6, Zenon DEF i, IsPutIn

(* The result is a map of maps again.                                      *)
LEMMA PutInMap ==
  ASSUME NEW R, NEW S, NEW T, NEW f \in Maps(R, Maps(S, T)),
         NEW x \in R, NEW y \in S, NEW v \in T
  PROVE  PutIn(f, x, y, v) \in Maps(R, Maps(S, T))
<1>. DEFINE M == Maps(S, T)
            g == Put(Index(f, x), y, v)
<1>1. g \in M
  BY IndexMap, PutMap
<1>2. f \in Maps(R, M)
  OBVIOUS
<1>. HIDE DEF M, g
<1>3. Put(f, x, g) \in Maps(R, M)
  BY <1>1, <1>2, PutMap
<1>. QED  BY <1>3 DEF PutIn, M, g

IsEraseIn(g, f, x, y) ==
  /\ DOMAIN g = DOMAIN f
  /\ DOMAIN g[x] = DOMAIN f[x] \ { y }
  /\ \A z \in DOMAIN f[x] : z # y => g[x][z] = f[x][z]
  /\ \A z \in DOMAIN f : z # x => g[z] = f[z]

LEMMA EraseInFacts ==
  ASSUME NEW f, NEW x \in DOMAIN f, NEW y
  PROVE  IsEraseIn(EraseIn(f, x, y), f, x, y)
<1>. DEFINE g == Erase(f[x], y)
<1>1. DOMAIN g = DOMAIN f[x] \ { y } /\ \A z \in DOMAIN f[x] : z # y => g[z] = f[x][z]
  BY EraseFacts DEF IsErase
<1>2. EraseIn(f, x, y) = [ f EXCEPT ![x] = g ]
  BY DEF EraseIn
<1>. HIDE DEF g
<1>3. /\ DOMAIN EraseIn(f, x, y) = DOMAIN f /\ EraseIn(f, x, y)[x] = g
      /\ \A z \in DOMAIN f : z # x => EraseIn(f, x, y)[z] = f[z]
  BY <1>2
<1>. QED  BY <1>1, <1>3 DEF IsEraseIn

LEMMA EraseInMap ==
  ASSUME NEW R, NEW S, NEW T, NEW f \in Maps(R, Maps(S, T)),
         NEW x \in DOMAIN f, NEW y
  PROVE  EraseIn(f, x, y) \in Maps(R, Maps(S, T))
<1>. DEFINE M == Maps(S, T)
            g == Erase(f[x], y)
<1>1. DOMAIN f \in SUBSET R /\ f \in [ DOMAIN f -> M ]
  BY MapsDef
<1>2. f[x] \in M
  BY <1>1
<1>3. g \in M
  BY <1>2, EraseMap
<1>. HIDE DEF M, g
<1>4. [ f EXCEPT ![x] = g ] \in [ DOMAIN f -> M ]
  BY <1>1, <1>3
<1>5. DOMAIN [ f EXCEPT ![x] = g ] = DOMAIN f
  OBVIOUS
<1>6. [ f EXCEPT ![x] = g ] \in Maps(R, M)
  BY <1>1, <1>4, <1>5, MapsDef
<1>. QED  BY <1>6 DEF EraseIn, M, g

-----------------------------------------------------------------------------
(* The keys of the View: each callback map has exactly one.                *)
Own(s) == { k \in ViewKeys : HandlerSlot(k) = s }

(* The list of components has a length.                                    *)
LEMMA ComponentCount ==
  Len(ComponentList) \in Nat /\ DOMAIN ComponentList = 1 .. Len(ComponentList)
BY ViewAssumption, LenProperties

(* Where the callback with key k stands: that of the j-th type for the     *)
(* i-th component, both counted from 0.                                    *)
LEMMA TrackedSlots ==
  ASSUME NEW k \in ViewKeys, k > 1
  PROVE  \E i \in 0 .. Len(ComponentList) - 1, j \in 0 .. 3 :
           /\ k = 2 + 4 * i + j
           /\ HandlerSlot(k) = << TrackedTypes[1 + j], ComponentList[1 + i] >>
<1>1. k \in Nat /\ k <= 1 + 4 * Len(ComponentList)
  BY ComponentCount DEF ViewKeys
<1>2. PICK m \in Nat : k = m + 2
  BY <1>1
<1>3. m % 4 \in 0 .. 3 /\ m \div 4 \in Nat /\ m = 4 * (m \div 4) + (m % 4)
  BY <1>2
<1>4. m \div 4 \in 0 .. Len(ComponentList) - 1
  BY <1>1, <1>2, <1>3, ComponentCount
<1>5. k - 2 = m /\ ~(k < 2)
  BY <1>1, <1>2
<1>6. HandlerSlot(k) = << TrackedTypes[1 + (m % 4)], ComponentList[1 + (m \div 4)] >>
  BY <1>5, Zenon DEF HandlerSlot
<1>7. k = 2 + 4 * (m \div 4) + (m % 4)
  BY <1>2, <1>3
<1>. QED  BY <1>3, <1>4, <1>6, <1>7, Zenon

(* The key of each such callback.                                          *)
LEMMA TrackedKeys ==
  ASSUME NEW i \in 0 .. Len(ComponentList) - 1, NEW j \in 0 .. 3
  PROVE  /\ 2 + 4 * i + j \in ViewKeys
         /\ HandlerSlot(2 + 4 * i + j) = << TrackedTypes[1 + j], ComponentList[1 + i] >>
<1>1. i \in Nat /\ j \in Nat /\ i <= Len(ComponentList) - 1 /\ j <= 3
  BY ComponentCount
<1>. DEFINE k == 2 + 4 * i + j
            m == k - 2
<1>2. k \in ViewKeys
  BY <1>1, ComponentCount DEF ViewKeys
<1>3. m \in Nat /\ m = 4 * i + j
  BY <1>1
<1>. HIDE DEF m
<1>4. m % 4 = j /\ m \div 4 = i
  BY <1>1, <1>3
<1>5. ~(k < 2)
  BY <1>1
<1>6. HandlerSlot(k) = << TrackedTypes[1 + (m % 4)], ComponentList[1 + (m \div 4)] >>
  BY <1>5, Zenon DEF HandlerSlot, m
<1>. QED  BY <1>2, <1>4, <1>6

(* The keys of the callbacks for entities.                                 *)
LEMMA EntityKeys ==
  /\ 0 \in ViewKeys /\ HandlerSlot(0) = << "add_entity", NoComponent >>
  /\ 1 \in ViewKeys /\ HandlerSlot(1) = << "remove_entity", NoComponent >>
BY ComponentCount DEF ViewKeys, HandlerSlot

(* The four types are different from each other and from those of entities. *)
LEMMA DifferentTypes ==
  /\ TrackedTypes[1] = "add_component" /\ TrackedTypes[2] = "remove_component"
  /\ TrackedTypes[3] = "authority_change" /\ TrackedTypes[4] = "component_update"
  /\ \A i, j \in 0 .. 3 : TrackedTypes[1 + i] = TrackedTypes[1 + j] => i = j
  /\ \A i \in 0 .. 3 : TrackedTypes[1 + i] # "add_entity" /\ TrackedTypes[1 + i] # "remove_entity"
<1>1. /\ TrackedTypes[1] = "add_component" /\ TrackedTypes[2] = "remove_component"
      /\ TrackedTypes[3] = "authority_change" /\ TrackedTypes[4] = "component_update"
  BY DEF TrackedTypes
<1>2. \A i \in 0 .. 3 : i = 0 \/ i = 1 \/ i = 2 \/ i = 3
  OBVIOUS
<1>3. 1 + 0 = 1 /\ 1 + 1 = 2 /\ 1 + 2 = 3 /\ 1 + 3 = 4
  OBVIOUS
<1>. QED  BY <1>1, <1>2, <1>3

(* No two callbacks of the View are for the same operations.               *)
LEMMA OneCallbackEach ==
  ASSUME NEW k \in ViewKeys, NEW l \in ViewKeys, HandlerSlot(k) = HandlerSlot(l)
  PROVE  k = l
<1>1. k \in Nat /\ l \in Nat
  BY ComponentCount DEF ViewKeys
<1>2. CASE k > 1 /\ l > 1
  <2>1. PICK i \in 0 .. Len(ComponentList) - 1, j \in 0 .. 3 :
           /\ k = 2 + 4 * i + j
           /\ HandlerSlot(k) = << TrackedTypes[1 + j], ComponentList[1 + i] >>
    BY <1>2, TrackedSlots
  <2>2. PICK ii \in 0 .. Len(ComponentList) - 1, jj \in 0 .. 3 :
           /\ l = 2 + 4 * ii + jj
           /\ HandlerSlot(l) = << TrackedTypes[1 + jj], ComponentList[1 + ii] >>
    BY <1>2, TrackedSlots
  <2>3. TrackedTypes[1 + j] = TrackedTypes[1 + jj] /\ ComponentList[1 + i] = ComponentList[1 + ii]
    BY <2>1, <2>2
  <2>4. j = jj
    BY <2>3, DifferentTypes
  <2>5. 1 + i \in DOMAIN ComponentList /\ 1 + ii \in DOMAIN ComponentList
    BY ComponentCount
  <2>6. 1 + i = 1 + ii
    BY <2>3, <2>5, ViewAssumption, Zenon DEF IsInjective
  <2>. QED  BY <2>1, <2>2, <2>4, <2>6
<1>3. ASSUME NEW a \in ViewKeys, a > 1
      PROVE  HandlerSlot(a) # HandlerSlot(0) /\ HandlerSlot(a) # HandlerSlot(1)
  <2>1. PICK i \in 0 .. Len(ComponentList) - 1, j \in 0 .. 3 :
           HandlerSlot(a) = << TrackedTypes[1 + j], ComponentList[1 + i] >>
    BY <1>3, TrackedSlots
  <2>. QED  BY <2>1, DifferentTypes, EntityKeys
<1>4. HandlerSlot(0) # HandlerSlot(1)
  BY EntityKeys
<1>5. (k = 0 \/ k = 1 \/ k > 1) /\ (l = 0 \/ l = 1 \/ l > 1)
  BY <1>1
<1>. QED  BY <1>2, <1>3, <1>4, <1>5

(* And there is one for each operation.                                    *)
LEMMA HasCallback ==
  ASSUME NEW op \in ViewOps
  PROVE  \E k \in ViewKeys : HandlerSlot(k) = SlotOf(op)
<1>1. CASE op.type \in { "add_entity", "remove_entity" }
  <2>1. SlotOf(op) = << op.type, NoComponent >>
    BY <1>1 DEF SlotOf, ComponentTypes
  <2>. QED  BY <1>1, <2>1, EntityKeys
<1>2. CASE op.type \in { "add_component", "remove_component", "authority_change",
                         "component_update" }
  <2>1. SlotOf(op) = << op.type, op.component >>
    BY <1>2 DEF SlotOf, ComponentTypes
  <2>2. op.component \in Range(ComponentList)
    BY <1>2 DEF ViewOps
  <2>3. PICK n \in DOMAIN ComponentList : ComponentList[n] = op.component
    BY <2>2 DEF Range
  <2>4. PICK i \in 0 .. Len(ComponentList) - 1 : n = 1 + i
    <3>1. n \in 1 .. Len(ComponentList) /\ n - 1 \in 0 .. Len(ComponentList) - 1
      BY ComponentCount
    <3>. QED  BY <3>1
  <2>5. PICK j \in 0 .. 3 : TrackedTypes[1 + j] = op.type
    <3>1. 1 + 0 = 1 /\ 1 + 1 = 2 /\ 1 + 2 = 3 /\ 1 + 3 = 4
      OBVIOUS
    <3>2. 0 \in 0 .. 3 /\ 1 \in 0 .. 3 /\ 2 \in 0 .. 3 /\ 3 \in 0 .. 3
      OBVIOUS
    <3>. QED  BY <1>2, <3>1, <3>2, DifferentTypes
  <2>. QED  BY <2>1, <2>3, <2>4, <2>5, TrackedKeys
<1>3. op.type \in { "add_entity", "remove_entity", "add_component", "remove_component",
                    "authority_change", "component_update" }
  BY DEF ViewOps
<1>. QED  BY <1>1, <1>2, <1>3

-----------------------------------------------------------------------------
(* What a View knows.                                                      *)
Facts == [ data : Values, authority : AuthorityStates ]

EntityMaps    == Maps(EntityIds, Maps(Comps, Values))
AuthorityMaps == Maps(EntityIds, Maps(Comps, AuthorityStates))
Worlds        == Maps(EntityIds, Maps(Comps, Facts))

(* Of an entity it has, a View has the authority for every component.      *)
AuthorityKept(E, A, e) ==
  e \in DOMAIN E => e \in DOMAIN A /\ DOMAIN E[e] \subseteq DOMAIN A[e]

(* It has authority for nothing else.                                      *)
AuthorityBacked(E, A, e) ==
  e \in DOMAIN A => e \in DOMAIN E /\ DOMAIN A[e] \subseteq DOMAIN E[e]

(* It has all there is of the entity in a world, and the authority gained  *)
(* there.                                                                  *)
Covers(E, A, K, e) ==
  e \in DOMAIN K =>
    /\ e \in DOMAIN E
    /\ \A c \in DOMAIN K[e] :
         /\ c \in DOMAIN E[e]
         /\ K[e][c].authority = "kAuthoritative" => A[e][c] = "kAuthoritative"

(* It has that and nothing else.                                           *)
Exact(E, A, K, e) ==
  /\ e \in DOMAIN E <=> e \in DOMAIN K
  /\ e \in DOMAIN K =>
       /\ DOMAIN E[e] = DOMAIN K[e]
       /\ \A c \in DOMAIN K[e] : E[e][c] = K[e][c].data /\ A[e][c] = K[e][c].authority

(* What a View is for an entity, given of which entities operations were   *)
(* dropped and of which it missed losses.                                  *)
SoundAt(E, A, K, D, M, e) ==
  /\ AuthorityKept(E, A, e)
  /\ e \notin D =>
       /\ AuthorityBacked(E, A, e)
       /\ Covers(E, A, K, e)
       /\ e \notin M => Exact(E, A, K, e)

Sound(E, A, K, D, M) == \A e \in EntityIds : SoundAt(E, A, K, D, M, e)

(* A map that differs from another for one key at most.                    *)
Elsewhere(g, f, x) ==
  \A z : z # x => /\ z \in DOMAIN g <=> z \in DOMAIN f
                  /\ z \in DOMAIN f => g[z] = f[z]

(* The operations on maps leave other keys alone.                          *)
LEMMA ElsewhereSame ==
  ASSUME NEW g, NEW f, NEW x, NEW y, NEW v
  PROVE  /\ IsPut(g, f, x, v) => Elsewhere(g, f, x)
         /\ IsErase(g, f, x) => Elsewhere(g, f, x)
         /\ IsPutIn(g, f, x, y, v) => Elsewhere(g, f, x)
         /\ IsEraseIn(g, f, x, y) => Elsewhere(g, f, x)
         /\ g = f => Elsewhere(g, f, x)
<1>1. IsPut(g, f, x, v) => Elsewhere(g, f, x)
  BY DEF IsPut, Elsewhere
<1>2. IsErase(g, f, x) => Elsewhere(g, f, x)
  BY DEF IsErase, Elsewhere
<1>3. IsPutIn(g, f, x, y, v) => Elsewhere(g, f, x)
  BY DEF IsPutIn, Elsewhere
<1>4. IsEraseIn(g, f, x, y) => Elsewhere(g, f, x)
  BY DEF IsEraseIn, Elsewhere
<1>5. g = f => Elsewhere(g, f, x)
  BY DEF Elsewhere
<1>. QED  BY <1>1, <1>2, <1>3, <1>4, <1>5, Zenon

(* So it is enough to look at the entity that is changed.                  *)
LEMMA SoundElsewhere ==
  ASSUME NEW E, NEW A, NEW K, NEW D, NEW M, Sound(E, A, K, D, M),
         NEW F, NEW B, NEW L, NEW C, NEW N, NEW e,
         Elsewhere(F, E, e), Elsewhere(B, A, e), Elsewhere(L, K, e),
         D \subseteq C \cup { e }, M \subseteq N \cup { e },
         e \in EntityIds => SoundAt(F, B, L, C, N, e)
  PROVE  Sound(F, B, L, C, N)
<1>. SUFFICES ASSUME NEW z \in EntityIds, z # e PROVE SoundAt(F, B, L, C, N, z)
  BY DEF Sound
<1>1. /\ z \in DOMAIN F <=> z \in DOMAIN E
      /\ z \in DOMAIN E => F[z] = E[z]
  BY DEF Elsewhere
<1>2. /\ z \in DOMAIN B <=> z \in DOMAIN A
      /\ z \in DOMAIN A => B[z] = A[z]
  BY DEF Elsewhere
<1>3. /\ z \in DOMAIN L <=> z \in DOMAIN K
      /\ z \in DOMAIN K => L[z] = K[z]
  BY DEF Elsewhere
<1>4. SoundAt(E, A, K, D, M, z)
  BY DEF Sound
<1>5. AuthorityKept(F, B, z)
  BY <1>1, <1>2, <1>4 DEF SoundAt, AuthorityKept
<1>6. ASSUME z \notin C
      PROVE  /\ AuthorityBacked(F, B, z)
             /\ Covers(F, B, L, z)
             /\ z \notin N => Exact(F, B, L, z)
  <2>1. z \notin D /\ (z \notin N => z \notin M)
    BY <1>6
  <2>2. AuthorityKept(E, A, z) /\ AuthorityBacked(E, A, z) /\ Covers(E, A, K, z)
    BY <1>4, <2>1 DEF SoundAt
  <2>3. AuthorityBacked(F, B, z)
    BY <1>1, <1>2, <2>2 DEF AuthorityBacked
  <2>4. Covers(F, B, L, z)
    BY <1>1, <1>2, <1>3, <2>2 DEF Covers, AuthorityKept
  <2>5. ASSUME z \notin N PROVE Exact(F, B, L, z)
    <3>1. Exact(E, A, K, z)
      BY <1>4, <2>1, <2>5 DEF SoundAt
    <3>. QED  BY <1>1, <1>2, <1>3, <2>2, <3>1 DEF Exact, AuthorityKept
  <2>. QED  BY <2>3, <2>4, <2>5
<1>. QED  BY <1>5, <1>6 DEF SoundAt

(* A sound View has what there is of an entity, if nothing was dropped.    *)
LEMMA SoundHas ==
  ASSUME NEW E, NEW A, NEW K, NEW D, NEW M, NEW e \in DOMAIN K,
         SoundAt(E, A, K, D, M, e), e \notin D
  PROVE  /\ e \in DOMAIN E /\ e \in DOMAIN A
         /\ DOMAIN E[e] = DOMAIN A[e]
         /\ \A c \in DOMAIN K[e] : c \in DOMAIN E[e] /\ c \in DOMAIN A[e]
BY DEF SoundAt, AuthorityKept, AuthorityBacked, Covers

(* The callbacks of the View keep it sound, each for its operations.       *)
LEMMA AddEntitySound ==
  ASSUME NEW E, NEW A, NEW K, NEW D, NEW M, NEW F, NEW B, NEW L,
         NEW e, SoundAt(E, A, K, D, M, e), e \notin DOMAIN K,
         IsPut(F, E, e, Index(E, e)), IsPut(B, A, e, Index(A, e)), IsPut(L, K, e, << >>)
  PROVE  SoundAt(F, B, L, D, M, e)
<1>1. e \in DOMAIN F /\ e \in DOMAIN B /\ e \in DOMAIN L
  BY DEF IsPut
<1>2. F[e] = Index(E, e) /\ B[e] = Index(A, e) /\ DOMAIN L[e] = {}
  BY EmptyMap DEF IsPut
<1>3. /\ e \in DOMAIN E => Index(E, e) = E[e]
      /\ e \notin DOMAIN E => DOMAIN Index(E, e) = {}
      /\ e \in DOMAIN A => Index(A, e) = A[e]
      /\ e \notin DOMAIN A => DOMAIN Index(A, e) = {}
  BY IndexFacts
<1>4. AuthorityKept(F, B, e)
  BY <1>1, <1>2, <1>3 DEF SoundAt, AuthorityKept
<1>5. e \notin D => AuthorityBacked(F, B, e)
  BY <1>1, <1>2, <1>3 DEF SoundAt, AuthorityBacked
<1>6. Covers(F, B, L, e)
  BY <1>1, <1>2 DEF Covers
<1>7. e \notin D /\ e \notin M => Exact(F, B, L, e)
  BY <1>1, <1>2, <1>3 DEF SoundAt, Exact
<1>. QED  BY <1>4, <1>5, <1>6, <1>7 DEF SoundAt

(* An entity is removed: nothing that was missed of it matters any more.   *)
LEMMA RemoveEntitySound ==
  ASSUME NEW E, NEW A, NEW K, NEW D, NEW M, NEW F, NEW B, NEW L, NEW e,
         IsErase(F, E, e), IsErase(B, A, e), IsErase(L, K, e)
  PROVE  SoundAt(F, B, L, D, M, e)
<1>1. e \notin DOMAIN F /\ e \notin DOMAIN B /\ e \notin DOMAIN L
  BY DEF IsErase
<1>. QED  BY <1>1 DEF SoundAt, AuthorityKept, AuthorityBacked, Covers, Exact

(* A component is added: the View may have it, if it missed the removal,   *)
(* or not have the entity, if it missed the addition of that.              *)
LEMMA AddComponentSound ==
  ASSUME NEW E, NEW A, NEW K, NEW D, NEW M, NEW F, NEW B, NEW L,
         NEW e \in DOMAIN K, SoundAt(E, A, K, D, M, e), NEW c, c \notin DOMAIN K[e], NEW d,
         e \in DOMAIN E =>
           /\ IF c \in DOMAIN E[e] THEN F = E ELSE IsPutIn(F, E, e, c, d)
           /\ IsPutIn(B, A, e, c, "kNotAuthoritative"),
         e \notin DOMAIN E => F = E /\ B = A,
         IsPutIn(L, K, e, c, [ data |-> d, authority |-> "kNotAuthoritative" ])
  PROVE  SoundAt(F, B, L, D, M, e)
<1>1. CASE e \notin DOMAIN E
  <2>1. e \in D
    BY <1>1 DEF SoundAt, Covers
  <2>. QED  BY <1>1, <2>1 DEF SoundAt, AuthorityKept
<1>2. CASE e \in DOMAIN E
  <2>1. e \in DOMAIN A /\ DOMAIN E[e] \subseteq DOMAIN A[e]
    BY <1>2 DEF SoundAt, AuthorityKept
  <2>2. Index(E, e) = E[e] /\ Index(A, e) = A[e] /\ Index(K, e) = K[e]
    BY <1>2, <2>1, IndexFacts
  <2>3. /\ e \in DOMAIN F /\ DOMAIN F[e] = DOMAIN E[e] \cup { c }
        /\ \A z \in DOMAIN E[e] : z # c => F[e][z] = E[e][z]
        /\ c \notin DOMAIN E[e] => F[e][c] = d
    BY <1>2, <2>2 DEF IsPutIn
  <2>4. /\ e \in DOMAIN B /\ DOMAIN B[e] = DOMAIN A[e] \cup { c }
        /\ \A z \in DOMAIN A[e] : z # c => B[e][z] = A[e][z]
        /\ B[e][c] = "kNotAuthoritative"
    BY <1>2, <2>2 DEF IsPutIn
  <2>5. /\ e \in DOMAIN L /\ DOMAIN L[e] = DOMAIN K[e] \cup { c }
        /\ \A z \in DOMAIN K[e] : z # c => L[e][z] = K[e][z]
        /\ L[e][c].data = d /\ L[e][c].authority = "kNotAuthoritative"
    BY <2>2 DEF IsPutIn
  <2>6. AuthorityKept(F, B, e)
    BY <2>1, <2>3, <2>4 DEF AuthorityKept
  <2>7. e \notin D => AuthorityBacked(F, B, e)
    BY <2>1, <2>3, <2>4 DEF SoundAt, AuthorityBacked
  <2>8. e \notin D => Covers(F, B, L, e)
    BY <2>1, <2>3, <2>4, <2>5 DEF SoundAt, Covers
  <2>9. e \notin D /\ e \notin M => Exact(F, B, L, e)
    BY <1>2, <2>1, <2>3, <2>4, <2>5 DEF SoundAt, Exact
  <2>. QED  BY <2>6, <2>7, <2>8, <2>9 DEF SoundAt
<1>. QED  BY <1>1, <1>2

(* A component is removed, from each map if that has the entity.           *)
LEMMA RemoveComponentSound ==
  ASSUME NEW E, NEW A, NEW K, NEW D, NEW M, NEW F, NEW B, NEW L,
         NEW e \in DOMAIN K, SoundAt(E, A, K, D, M, e), NEW c,
         IF e \in DOMAIN E THEN IsEraseIn(F, E, e, c) ELSE F = E,
         IF e \in DOMAIN A THEN IsEraseIn(B, A, e, c) ELSE B = A,
         IsEraseIn(L, K, e, c)
  PROVE  SoundAt(F, B, L, D, M, e)
<1>1. AuthorityKept(F, B, e)
  BY DEF SoundAt, AuthorityKept, IsEraseIn
<1>2. ASSUME e \notin D
      PROVE  /\ AuthorityBacked(F, B, e)
             /\ Covers(F, B, L, e)
             /\ e \notin M => Exact(F, B, L, e)
  <2>1. e \in DOMAIN E /\ e \in DOMAIN A /\ DOMAIN E[e] = DOMAIN A[e]
    BY <1>2, SoundHas
  <2>2. /\ e \in DOMAIN F /\ DOMAIN F[e] = DOMAIN E[e] \ { c }
        /\ \A z \in DOMAIN E[e] : z # c => F[e][z] = E[e][z]
    BY <2>1 DEF IsEraseIn
  <2>3. /\ e \in DOMAIN B /\ DOMAIN B[e] = DOMAIN A[e] \ { c }
        /\ \A z \in DOMAIN A[e] : z # c => B[e][z] = A[e][z]
    BY <2>1 DEF IsEraseIn
  <2>4. /\ e \in DOMAIN L /\ DOMAIN L[e] = DOMAIN K[e] \ { c }
        /\ \A z \in DOMAIN K[e] : z # c => L[e][z] = K[e][z]
    BY DEF IsEraseIn
  <2>5. AuthorityBacked(F, B, e)
    BY <2>1, <2>2, <2>3 DEF AuthorityBacked
  <2>6. Covers(F, B, L, e)
    BY <1>2, <2>1, <2>2, <2>3, <2>4 DEF SoundAt, Covers
  <2>7. e \notin M => Exact(F, B, L, e)
    BY <1>2, <2>1, <2>2, <2>3, <2>4 DEF SoundAt, Exact
  <2>. QED  BY <2>5, <2>6, <2>7
<1>. QED  BY <1>1, <1>2 DEF SoundAt

(* Authority is gained or lost, perhaps for an entity the View has not.    *)
LEMMA AuthorityChangeSound ==
  ASSUME NEW E, NEW A, NEW K, NEW D, NEW M, NEW B, NEW L,
         NEW e \in DOMAIN K, SoundAt(E, A, K, D, M, e), NEW c \in DOMAIN K[e], NEW a,
         IsPutIn(B, A, e, c, a),
         IsPutIn(L, K, e, c, [ data |-> K[e][c].data, authority |-> a ])
  PROVE  SoundAt(E, B, L, D, M, e)
<1>1. /\ e \in DOMAIN A => Index(A, e) = A[e]
      /\ Index(K, e) = K[e]
  BY IndexFacts
<1>2. /\ e \in DOMAIN B /\ DOMAIN B[e] = DOMAIN Index(A, e) \cup { c }
      /\ \A z \in DOMAIN Index(A, e) : z # c => B[e][z] = A[e][z]
      /\ B[e][c] = a
  BY DEF IsPutIn
<1>3. /\ e \in DOMAIN L /\ DOMAIN L[e] = DOMAIN K[e]
      /\ \A z \in DOMAIN K[e] : z # c => L[e][z] = K[e][z]
      /\ L[e][c].data = K[e][c].data /\ L[e][c].authority = a
  BY <1>1 DEF IsPutIn
<1>4. AuthorityKept(E, B, e)
  BY <1>1, <1>2 DEF SoundAt, AuthorityKept
<1>5. ASSUME e \notin D
      PROVE  /\ AuthorityBacked(E, B, e)
             /\ Covers(E, B, L, e)
             /\ e \notin M => Exact(E, B, L, e)
  <2>1. /\ e \in DOMAIN E /\ e \in DOMAIN A /\ DOMAIN E[e] = DOMAIN A[e]
        /\ \A z \in DOMAIN K[e] : z \in DOMAIN E[e]
    BY <1>5, SoundHas
  <2>2. AuthorityBacked(E, B, e)
    BY <1>1, <1>2, <2>1 DEF AuthorityBacked
  <2>3. Covers(E, B, L, e)
    BY <1>1, <1>2, <1>3, <1>5, <2>1 DEF SoundAt, Covers
  <2>4. e \notin M => Exact(E, B, L, e)
    BY <1>1, <1>2, <1>3, <1>5, <2>1 DEF SoundAt, Exact
  <2>. QED  BY <2>2, <2>3, <2>4
<1>. QED  BY <1>4, <1>5 DEF SoundAt

(* New data comes, for a component the View has or not.                    *)
LEMMA ComponentUpdateSound ==
  ASSUME NEW E, NEW A, NEW K, NEW D, NEW M, NEW F, NEW L,
         NEW e \in DOMAIN K, SoundAt(E, A, K, D, M, e), NEW c \in DOMAIN K[e], NEW d,
         IF e \in DOMAIN E /\ c \in DOMAIN E[e] THEN IsPutIn(F, E, e, c, d) ELSE F = E,
         IsPutIn(L, K, e, c, [ data |-> d, authority |-> K[e][c].authority ])
  PROVE  SoundAt(F, A, L, D, M, e)
<1>1. (e \in DOMAIN E => Index(E, e) = E[e]) /\ Index(K, e) = K[e]
  BY IndexFacts
<1>2. /\ e \in DOMAIN F <=> e \in DOMAIN E
      /\ e \in DOMAIN E => DOMAIN F[e] = DOMAIN E[e]
  BY <1>1 DEF IsPutIn
<1>3. /\ e \in DOMAIN L /\ DOMAIN L[e] = DOMAIN K[e]
      /\ \A z \in DOMAIN K[e] : z # c => L[e][z] = K[e][z]
      /\ L[e][c].data = d /\ L[e][c].authority = K[e][c].authority
  BY <1>1 DEF IsPutIn
<1>4. AuthorityKept(F, A, e)
  BY <1>2 DEF SoundAt, AuthorityKept
<1>5. ASSUME e \notin D
      PROVE  /\ AuthorityBacked(F, A, e)
             /\ Covers(F, A, L, e)
             /\ e \notin M => Exact(F, A, L, e)
  <2>1. /\ e \in DOMAIN E /\ e \in DOMAIN A /\ DOMAIN E[e] = DOMAIN A[e]
        /\ \A z \in DOMAIN K[e] : z \in DOMAIN E[e]
    BY <1>5, SoundHas
  <2>2. F[e][c] = d /\ \A z \in DOMAIN E[e] : z # c => F[e][z] = E[e][z]
    BY <1>1, <2>1 DEF IsPutIn
  <2>3. AuthorityBacked(F, A, e)
    BY <1>2, <2>1 DEF AuthorityBacked
  <2>4. Covers(F, A, L, e)
    BY <1>2, <1>3, <1>5, <2>1 DEF SoundAt, Covers
  <2>5. e \notin M => Exact(F, A, L, e)
    BY <1>2, <1>3, <1>5, <2>1, <2>2 DEF SoundAt, Exact
  <2>. QED  BY <2>3, <2>4, <2>5
<1>. QED  BY <1>4, <1>5 DEF SoundAt

-----------------------------------------------------------------------------
(* The operations of SpatialOS, and what they tell.                        *)

(* Assignment to what a map already has.                                   *)
IsMap(f) == f = [ x \in DOMAIN f |-> f[x] ]

(* Maps of maps are maps, and so are their values.                         *)
LEMMA AreMaps ==
  ASSUME NEW R, NEW S, NEW T, NEW f \in Maps(R, Maps(S, T)), NEW x \in DOMAIN f
  PROVE  IsMap(f) /\ IsMap(f[x])
<1>. DEFINE M == Maps(S, T)
<1>1. f \in Maps(R, M)
  OBVIOUS
<1>. HIDE DEF M
<1>2. f \in [ DOMAIN f -> M ]
  BY <1>1, MapsDef
<1>3. f[x] \in Maps(S, T)
  BY <1>2 DEF M
<1>4. f[x] \in [ DOMAIN f[x] -> T ]
  BY <1>3, MapsDef
<1>. QED  BY <1>2, <1>4 DEF IsMap

LEMMA PutExcept ==
  ASSUME NEW f, IsMap(f), NEW x \in DOMAIN f, NEW v
  PROVE  [ f EXCEPT ![x] = v ] = Put(f, x, v)
<1>1. DOMAIN f \cup { x } = DOMAIN f
  OBVIOUS
<1>. QED  BY <1>1 DEF Put, IsMap

(* The same for a map of maps.                                             *)
LEMMA PutInExcept ==
  ASSUME NEW f, NEW x \in DOMAIN f, IsMap(f), NEW y, NEW v
  PROVE  [ f EXCEPT ![x] = Put(f[x], y, v) ] = PutIn(f, x, y, v)
<1>1. Index(f, x) = f[x]
  BY IndexFacts
<1>. QED  BY <1>1, PutExcept DEF PutIn

LEMMA SetInExcept ==
  ASSUME NEW f, NEW x \in DOMAIN f, IsMap(f), IsMap(f[x]), NEW y \in DOMAIN f[x], NEW v
  PROVE  [ f EXCEPT ![x] = [ f[x] EXCEPT ![y] = v ] ] = PutIn(f, x, y, v)
<1>1. [ f[x] EXCEPT ![y] = v ] = Put(f[x], y, v)
  BY PutExcept
<1>. QED  BY <1>1, PutInExcept

(* The fields of an operation the View tracks.                             *)
LEMMA OpFields ==
  ASSUME NEW op \in ViewOps
  PROVE  /\ op.entity \in EntityIds
         /\ op.type \in { "add_component", "component_update", "remove_component",
                          "authority_change" } => op.component \in Comps
         /\ op.type \in { "add_component", "component_update" } => op.data \in Values
         /\ op.type = "authority_change" => op.authority \in AuthorityStates
         /\ op.type \in { "add_entity", "remove_entity", "add_component",
                          "component_update", "remove_component", "authority_change" }
<1>1. CASE op \in [ type : { "add_entity", "remove_entity" }, entity : EntityIds ]
  BY <1>1
<1>2. CASE op \in [ type : { "add_component", "component_update" }, entity : EntityIds,
                    component : Comps, data : Values ]
  BY <1>2
<1>3. CASE op \in [ type : { "remove_component" }, entity : EntityIds, component : Comps ]
  BY <1>3
<1>4. CASE op \in [ type : { "authority_change" }, entity : EntityIds,
                    component : Comps, authority : AuthorityStates ]
  BY <1>4
<1>. QED  BY <1>1, <1>2, <1>3, <1>4 DEF ViewOps, Comps

(* An entity is added or removed.                                          *)
LEMMA TellsEntity ==
  ASSUME NEW K \in Worlds, NEW op \in ViewOps, MakesSense(op, K)
  PROVE  /\ op.type = "add_entity" =>
              /\ op.entity \notin DOMAIN K
              /\ Told(op, K) \in Worlds
              /\ IsPut(Told(op, K), K, op.entity, << >>)
         /\ op.type = "remove_entity" =>
              /\ op.entity \in DOMAIN K
              /\ Told(op, K) \in Worlds
              /\ IsErase(Told(op, K), K, op.entity)
<1>. DEFINE M == Maps(Comps, Facts)
            e == op.entity
<1>1. e \in EntityIds /\ << >> \in M /\ K \in Maps(EntityIds, M)
  BY OpFields, EmptyMap DEF Worlds
<1>. HIDE DEF M
<1>2. Put(K, e, << >>) \in Maps(EntityIds, M) /\ IsPut(Put(K, e, << >>), K, e, << >>)
  BY <1>1, PutMap, PutFacts
<1>3. Erase(K, e) \in Maps(EntityIds, M) /\ IsErase(Erase(K, e), K, e)
  BY <1>1, EraseMap, EraseFacts
<1>4. CASE op.type = "add_entity"
  <2>1. Told(op, K) = Put(K, e, << >>)
    BY <1>4 DEF Told
  <2>2. e \notin DOMAIN K
    BY <1>4 DEF MakesSense
  <2>. QED  BY <1>2, <1>4, <2>1, <2>2 DEF Worlds, M
<1>5. CASE op.type = "remove_entity"
  <2>1. Told(op, K) = Erase(K, e)
    BY <1>5 DEF Told
  <2>2. e \in DOMAIN K
    BY <1>5 DEF MakesSense
  <2>. QED  BY <1>3, <1>5, <2>1, <2>2 DEF Worlds, M
<1>. QED  BY <1>4, <1>5

(* A world has data and authority for each component.                      *)
LEMMA WorldFacts ==
  ASSUME NEW K \in Worlds, NEW e \in DOMAIN K
  PROVE  K[e] \in Maps(Comps, Facts) /\ \A c \in DOMAIN K[e] : K[e][c] \in Facts
<1>. DEFINE M == Maps(Comps, Facts)
<1>1. K \in Maps(EntityIds, M)
  BY DEF Worlds
<1>. HIDE DEF M
<1>2. K[e] \in M
  BY <1>1, MapsDef
<1>3. K[e] \in Maps(Comps, Facts)
  BY <1>2 DEF M
<1>. QED  BY <1>3, MapsDef

(* A component is added.                                                   *)
LEMMA TellsAddition ==
  ASSUME NEW K \in Worlds, NEW op \in ViewOps, MakesSense(op, K),
         op.type = "add_component"
  PROVE  /\ op.entity \in DOMAIN K
         /\ op.component \notin DOMAIN K[op.entity]
         /\ Told(op, K) \in Worlds
         /\ IsPutIn(Told(op, K), K, op.entity, op.component,
                    [ data |-> op.data, authority |-> "kNotAuthoritative" ])
<1>. DEFINE e == op.entity
            c == op.component
            v == [ data |-> op.data, authority |-> "kNotAuthoritative" ]
<1>1. e \in EntityIds /\ c \in Comps /\ v \in Facts
  BY OpFields DEF Facts, AuthorityStates
<1>2. e \in DOMAIN K /\ c \notin DOMAIN K[e]
  BY DEF MakesSense
<1>3. Told(op, K) = [ K EXCEPT ![e] = Put(@, c, v) ]
  BY DEF Told
<1>. HIDE DEF v
<1>4. K \in Maps(EntityIds, Maps(Comps, Facts))
  BY DEF Worlds
<1>5. Told(op, K) = PutIn(K, e, c, v)
  <2>1. [ K EXCEPT ![e] = Put(K[e], c, v) ] = PutIn(K, e, c, v)
    <3>1. IsMap(K)
      BY <1>2, <1>4, AreMaps
    <3>. QED  BY <1>2, <3>1, PutInExcept
  <2>2. [ K EXCEPT ![e] = Put(@, c, v) ] = [ K EXCEPT ![e] = Put(K[e], c, v) ]
    OBVIOUS
  <2>. QED  BY <1>3, <2>1, <2>2, Zenon
<1>6. PutIn(K, e, c, v) \in Maps(EntityIds, Maps(Comps, Facts))
  BY <1>1, <1>4, PutInMap
<1>. QED  BY <1>2, <1>5, <1>6, PutInFacts, Zenon DEF Worlds, v

(* A component is removed.                                                 *)
LEMMA TellsRemoval ==
  ASSUME NEW K \in Worlds, NEW op \in ViewOps, MakesSense(op, K),
         op.type = "remove_component"
  PROVE  /\ op.entity \in DOMAIN K
         /\ op.component \in DOMAIN K[op.entity]
         /\ Told(op, K) \in Worlds
         /\ IsEraseIn(Told(op, K), K, op.entity, op.component)
<1>. DEFINE e == op.entity
            c == op.component
<1>2. e \in DOMAIN K /\ c \in DOMAIN K[e]
  BY DEF MakesSense
<1>3. Told(op, K) = EraseIn(K, e, c)
  BY DEF Told, EraseIn
<1>4. K \in Maps(EntityIds, Maps(Comps, Facts))
  BY DEF Worlds
<1>6. EraseIn(K, e, c) \in Maps(EntityIds, Maps(Comps, Facts))
  BY <1>2, <1>4, EraseInMap
<1>. QED  BY <1>2, <1>3, <1>6, EraseInFacts, Zenon DEF Worlds

(* New data comes.                                                         *)
LEMMA TellsUpdate ==
  ASSUME NEW K \in Worlds, NEW op \in ViewOps, MakesSense(op, K),
         op.type = "component_update"
  PROVE  /\ op.entity \in DOMAIN K
         /\ op.component \in DOMAIN K[op.entity]
         /\ Told(op, K) \in Worlds
         /\ IsPutIn(Told(op, K), K, op.entity, op.component,
                    [ data |-> op.data,
                      authority |-> K[op.entity][op.component].authority ])
<1>. DEFINE e == op.entity
            c == op.component
            v == [ data |-> op.data, authority |-> K[e][c].authority ]
<1>1. e \in DOMAIN K /\ c \in DOMAIN K[e]
  BY DEF MakesSense
<1>2. e \in EntityIds /\ c \in Comps /\ op.data \in Values
  BY OpFields
<1>3. K[e][c] \in Facts
  BY <1>1, WorldFacts
<1>4. v \in Facts /\ [ K[e][c] EXCEPT !.data = op.data ] = v
  BY <1>2, <1>3 DEF Facts
<1>5. Told(op, K) = [ K EXCEPT ![e][c].data = op.data ]
  BY DEF Told
<1>6. [ K EXCEPT ![e][c].data = op.data ]
        = [ K EXCEPT ![e][c] = [ K[e][c] EXCEPT !.data = op.data ] ]
  OBVIOUS
<1>7. Told(op, K) = [ K EXCEPT ![e][c] = v ]
  BY <1>4, <1>5, <1>6
<1>. HIDE DEF v
<1>8. K \in Maps(EntityIds, Maps(Comps, Facts))
  BY DEF Worlds
<1>9. Told(op, K) = PutIn(K, e, c, v)
  <2>1. [ K EXCEPT ![e] = [ K[e] EXCEPT ![c] = v ] ] = PutIn(K, e, c, v)
    <3>1. IsMap(K) /\ IsMap(K[e])
      BY <1>1, <1>8, AreMaps
    <3>. QED  BY <1>1, <3>1, SetInExcept
  <2>2. [ K EXCEPT ![e][c] = v ] = [ K EXCEPT ![e] = [ K[e] EXCEPT ![c] = v ] ]
    OBVIOUS
  <2>. QED  BY <1>7, <2>1, <2>2, Zenon
<1>10. PutIn(K, e, c, v) \in Maps(EntityIds, Maps(Comps, Facts))
  BY <1>2, <1>4, <1>8, PutInMap
<1>. QED  BY <1>1, <1>9, <1>10, PutInFacts, Zenon DEF Worlds, v

(* Authority is gained or lost.                                            *)
LEMMA TellsAuthority ==
  ASSUME NEW K \in Worlds, NEW op \in ViewOps, MakesSense(op, K),
         op.type = "authority_change"
  PROVE  /\ op.entity \in DOMAIN K
         /\ op.component \in DOMAIN K[op.entity]
         /\ op.authority \in AuthorityFollows[K[op.entity][op.component].authority]
         /\ Told(op, K) \in Worlds
         /\ IsPutIn(Told(op, K), K, op.entity, op.component,
                    [ data |-> K[op.entity][op.component].data,
                      authority |-> op.authority ])
<1>. DEFINE e == op.entity
            c == op.component
            v == [ data |-> K[e][c].data, authority |-> op.authority ]
<1>1. /\ e \in DOMAIN K /\ c \in DOMAIN K[e]
      /\ op.authority \in AuthorityFollows[K[e][c].authority]
  BY DEF MakesSense
<1>2. e \in EntityIds /\ c \in Comps /\ op.authority \in AuthorityStates
  BY OpFields
<1>3. K[e][c] \in Facts
  BY <1>1, WorldFacts
<1>4. v \in Facts /\ [ K[e][c] EXCEPT !.authority = op.authority ] = v
  BY <1>2, <1>3 DEF Facts
<1>5. Told(op, K) = [ K EXCEPT ![e][c].authority = op.authority ]
  BY DEF Told
<1>6. [ K EXCEPT ![e][c].authority = op.authority ]
        = [ K EXCEPT ![e][c] = [ K[e][c] EXCEPT !.authority = op.authority ] ]
  OBVIOUS
<1>7. Told(op, K) = [ K EXCEPT ![e][c] = v ]
  BY <1>4, <1>5, <1>6
<1>. HIDE DEF v
<1>8. K \in Maps(EntityIds, Maps(Comps, Facts))
  BY DEF Worlds
<1>9. Told(op, K) = PutIn(K, e, c, v)
  <2>1. [ K EXCEPT ![e] = [ K[e] EXCEPT ![c] = v ] ] = PutIn(K, e, c, v)
    <3>1. IsMap(K) /\ IsMap(K[e])
      BY <1>1, <1>8, AreMaps
    <3>. QED  BY <1>1, <3>1, SetInExcept
  <2>2. [ K EXCEPT ![e][c] = v ] = [ K EXCEPT ![e] = [ K[e] EXCEPT ![c] = v ] ]
    OBVIOUS
  <2>. QED  BY <1>7, <2>1, <2>2, Zenon
<1>10. PutIn(K, e, c, v) \in Maps(EntityIds, Maps(Comps, Facts))
  BY <1>2, <1>4, <1>8, PutInMap
<1>. QED  BY <1>1, <1>9, <1>10, PutInFacts, Zenon DEF Worlds, v

(* What is told after an operation is a world, and different from the one  *)
(* before only for the entity of the operation.                            *)
LEMMA ToldWorld ==
  ASSUME NEW K \in Worlds, NEW op \in ViewOps, MakesSense(op, K)
  PROVE  Told(op, K) \in Worlds /\ Elsewhere(Told(op, K), K, op.entity)
<1>1. CASE op.type \in { "add_entity", "remove_entity" }
  BY <1>1, TellsEntity, ElsewhereSame
<1>2. CASE op.type = "add_component"
  BY <1>2, TellsAddition, ElsewhereSame
<1>3. CASE op.type = "component_update"
  BY <1>3, TellsUpdate, ElsewhereSame
<1>4. CASE op.type = "authority_change"
  BY <1>4, TellsAuthority, ElsewhereSame
<1>5. CASE op.type = "remove_component"
  BY <1>5, TellsRemoval, ElsewhereSame
<1>. QED  BY <1>1, <1>2, <1>3, <1>4, <1>5, OpFields

(* Entities of which something was missed, after the View hears of an      *)
(* operation.                                                              *)
Healed(op, S) == IF op.type = "remove_entity" THEN S \ { op.entity } ELSE S

(* Each callback of the View, given an operation that makes sense after    *)
(* what the View knows, has it know what the operation tells.              *)
HandlesWell(op, K, D, M) ==
  /\ Entities' \in EntityMaps
  /\ ComponentAuthority' \in AuthorityMaps
  /\ Sound(Entities', ComponentAuthority', Told(op, K), Healed(op, D), Healed(op, M))

(* The callbacks for entities.                                             *)
LEMMA HandleEntitySound ==
  ASSUME Entities \in EntityMaps, ComponentAuthority \in AuthorityMaps,
         NEW K \in Worlds, NEW D, NEW M, NEW op \in ViewOps,
         MakesSense(op, K), Sound(Entities, ComponentAuthority, K, D, M),
         \/ op.type = "add_entity" /\ HandleAddEntity(op)
         \/ op.type = "remove_entity" /\ HandleRemoveEntity(op)
  PROVE  HandlesWell(op, K, D, M)
<1>. DEFINE e == op.entity
            R == Maps(Comps, Values)
            S == Maps(Comps, AuthorityStates)
            L == Told(op, K)
            C == Healed(op, D)
            N == Healed(op, M)
<1>1. PICK E, A, F, B : /\ E = Entities /\ F = Entities'
                        /\ A = ComponentAuthority /\ B = ComponentAuthority'
  BY Zenon
<1>2. e \in EntityIds /\ Index(E, e) \in R /\ Index(A, e) \in S
  BY <1>1, OpFields, IndexMap DEF EntityMaps, AuthorityMaps
<1>3. E \in Maps(EntityIds, R) /\ A \in Maps(EntityIds, S)
  BY <1>1 DEF EntityMaps, AuthorityMaps
<1>4. Sound(E, A, K, D, M)
  BY <1>1
<1>. HIDE DEF R, S, L, C, N
<1>5. CASE op.type = "add_entity"
  <2>1. F = Put(E, e, Index(E, e)) /\ B = Put(A, e, Index(A, e))
    BY <1>1, <1>5 DEF HandleAddEntity
  <2>2. F \in Maps(EntityIds, R) /\ B \in Maps(EntityIds, S)
    BY <1>2, <1>3, <2>1, PutMap
  <2>3. IsPut(F, E, e, Index(E, e)) /\ IsPut(B, A, e, Index(A, e))
    BY <2>1, PutFacts
  <2>4. e \notin DOMAIN K /\ IsPut(L, K, e, << >>)
    BY <1>5, TellsEntity DEF L
  <2>5. C = D /\ N = M
    BY <1>5 DEF C, N, Healed
  <2>6. SoundAt(E, A, K, D, M, e)
    BY <1>2, <1>4 DEF Sound
  <2>7. SoundAt(F, B, L, C, N, e)
    BY <2>3, <2>4, <2>5, <2>6, AddEntitySound
  <2>8. Elsewhere(F, E, e) /\ Elsewhere(B, A, e) /\ Elsewhere(L, K, e)
    BY <2>3, <2>4, ElsewhereSame
  <2>9. D \subseteq C \cup { e } /\ M \subseteq N \cup { e }
    BY <2>5
  <2>10. Sound(F, B, L, C, N)
    BY <1>4, <2>7, <2>8, <2>9, SoundElsewhere
  <2>. QED  BY <1>1, <2>2, <2>10 DEF HandlesWell, EntityMaps, AuthorityMaps, R, S, L, C, N
<1>6. CASE op.type = "remove_entity"
  <2>1. F = Erase(E, e) /\ B = Erase(A, e)
    BY <1>1, <1>6 DEF HandleRemoveEntity
  <2>2. F \in Maps(EntityIds, R) /\ B \in Maps(EntityIds, S)
    BY <1>3, <2>1, EraseMap
  <2>3. IsErase(F, E, e) /\ IsErase(B, A, e)
    BY <2>1, EraseFacts
  <2>4. IsErase(L, K, e)
    BY <1>6, TellsEntity DEF L
  <2>5. SoundAt(F, B, L, C, N, e)
    BY <2>3, <2>4, RemoveEntitySound
  <2>6. Elsewhere(F, E, e) /\ Elsewhere(B, A, e) /\ Elsewhere(L, K, e)
    BY <2>3, <2>4, ElsewhereSame
  <2>7. D \subseteq C \cup { e } /\ M \subseteq N \cup { e }
    BY <1>6 DEF C, N, Healed
  <2>8. Sound(F, B, L, C, N)
    BY <1>4, <2>5, <2>6, <2>7, SoundElsewhere
  <2>. QED  BY <1>1, <2>2, <2>8 DEF HandlesWell, EntityMaps, AuthorityMaps, R, S, L, C, N
<1>. QED  BY <1>5, <1>6

(* The callbacks for components: it is enough that the View is sound for   *)
(* the entity of the operation.                                            *)
LEMMA HandlesComponent ==
  ASSUME NEW K \in Worlds, NEW D, NEW M, NEW op \in ViewOps,
         MakesSense(op, K), Sound(Entities, ComponentAuthority, K, D, M),
         op.type # "remove_entity",
         Entities' \in EntityMaps, ComponentAuthority' \in AuthorityMaps,
         Elsewhere(Entities', Entities, op.entity),
         Elsewhere(ComponentAuthority', ComponentAuthority, op.entity),
         SoundAt(Entities', ComponentAuthority', Told(op, K), D, M, op.entity)
  PROVE  HandlesWell(op, K, D, M)
<1>1. Healed(op, D) = D /\ Healed(op, M) = M
  BY DEF Healed
<1>2. D \subseteq D \cup { op.entity } /\ M \subseteq M \cup { op.entity }
  OBVIOUS
<1>3. Elsewhere(Told(op, K), K, op.entity)
  BY ToldWorld
<1>4. Sound(Entities', ComponentAuthority', Told(op, K), D, M)
  <2>1. PICK E, A, F, B, L : /\ E = Entities /\ F = Entities'
                             /\ A = ComponentAuthority /\ B = ComponentAuthority'
                             /\ L = Told(op, K)
    BY Zenon
  <2>2. Sound(F, B, L, D, M)
    BY <1>2, <1>3, <2>1, SoundElsewhere
  <2>. QED  BY <2>1, <2>2
<1>. QED  BY <1>1, <1>4 DEF HandlesWell

(* The callback for the addition of a component.                           *)
LEMMA HandleAdditionSound ==
  ASSUME Entities \in EntityMaps, ComponentAuthority \in AuthorityMaps,
         NEW K \in Worlds, NEW D, NEW M, NEW op \in ViewOps,
         MakesSense(op, K), Sound(Entities, ComponentAuthority, K, D, M),
         op.type = "add_component", HandleAddComponent(op)
  PROVE  HandlesWell(op, K, D, M)
<1>. DEFINE e == op.entity
            c == op.component
            d == op.data
            L == Told(op, K)
            none == "kNotAuthoritative"
<1>1. PICK E, A, F, B : /\ E = Entities /\ F = Entities'
                        /\ A = ComponentAuthority /\ B = ComponentAuthority'
  BY Zenon
<1>2. e \in EntityIds /\ c \in Comps /\ d \in Values /\ none \in AuthorityStates
  BY OpFields DEF AuthorityStates
<1>3. E \in Maps(EntityIds, Maps(Comps, Values)) /\ A \in Maps(EntityIds, Maps(Comps, AuthorityStates))
  BY <1>1 DEF EntityMaps, AuthorityMaps
<1>4. SoundAt(E, A, K, D, M, e)
  BY <1>1, <1>2 DEF Sound
<1>5. /\ e \in DOMAIN K /\ c \notin DOMAIN K[e] /\ L \in Worlds
      /\ IsPutIn(L, K, e, c, [ data |-> d, authority |-> none ])
  BY TellsAddition
<1>6. ASSUME e \in DOMAIN E
      PROVE  F = (IF c \in DOMAIN E[e] THEN E ELSE PutIn(E, e, c, d)) /\ B = PutIn(A, e, c, none)
  <2>1. IsMap(E) /\ IsMap(E[e])
    BY <1>3, <1>6, AreMaps
  <2>2. F = [ E EXCEPT ![e] = IF c \in DOMAIN E[e] THEN E[e] ELSE Put(E[e], c, d) ]
    BY <1>1, <1>6 DEF HandleAddComponent
  <2>3. CASE c \in DOMAIN E[e]
    <3>1. F = [ E EXCEPT ![e] = E[e] ]
      BY <2>2, <2>3
    <3>2. F = E
      BY <1>6, <2>1, <3>1 DEF IsMap
    <3>. QED  BY <1>1, <1>6, <2>3, <3>2 DEF HandleAddComponent, PutIn
  <2>4. CASE c \notin DOMAIN E[e]
    <3>1. F = [ E EXCEPT ![e] = Put(E[e], c, d) ]
      BY <2>2, <2>4
    <3>2. [ E EXCEPT ![e] = Put(E[e], c, d) ] = PutIn(E, e, c, d)
      BY <1>6, <2>1, PutInExcept
    <3>. QED  BY <1>1, <1>6, <2>4, <3>1, <3>2 DEF HandleAddComponent, PutIn
  <2>. QED  BY <2>3, <2>4
<1>7. e \notin DOMAIN E => F = E /\ B = A
  BY <1>1 DEF HandleAddComponent, viewVars
<1>8. PutIn(E, e, c, d) \in EntityMaps
  BY <1>2, <1>3, PutInMap DEF EntityMaps
<1>9. PutIn(A, e, c, none) \in AuthorityMaps
  BY <1>2, <1>3, PutInMap DEF AuthorityMaps
<1>10. F \in EntityMaps /\ B \in AuthorityMaps
  BY <1>1, <1>6, <1>7, <1>8, <1>9
<1>11. e \in DOMAIN E => /\ IF c \in DOMAIN E[e] THEN F = E ELSE IsPutIn(F, E, e, c, d)
                         /\ IsPutIn(B, A, e, c, none)
  BY <1>6, PutInFacts
<1>12. Elsewhere(F, E, e) /\ Elsewhere(B, A, e)
  BY <1>7, <1>11, ElsewhereSame
<1>. HIDE DEF L
<1>13. SoundAt(F, B, L, D, M, e)
  BY <1>4, <1>5, <1>7, <1>11, AddComponentSound
<1>. QED  BY <1>1, <1>10, <1>12, <1>13, HandlesComponent DEF L

(* The callback for its removal.                                           *)
LEMMA HandleRemovalSound ==
  ASSUME Entities \in EntityMaps, ComponentAuthority \in AuthorityMaps,
         NEW K \in Worlds, NEW D, NEW M, NEW op \in ViewOps,
         MakesSense(op, K), Sound(Entities, ComponentAuthority, K, D, M),
         op.type = "remove_component", HandleRemoveComponent(op)
  PROVE  HandlesWell(op, K, D, M)
<1>. DEFINE e == op.entity
            c == op.component
            L == Told(op, K)
<1>1. PICK E, A, F, B : /\ E = Entities /\ F = Entities'
                        /\ A = ComponentAuthority /\ B = ComponentAuthority'
  BY Zenon
<1>2. E \in Maps(EntityIds, Maps(Comps, Values)) /\ A \in Maps(EntityIds, Maps(Comps, AuthorityStates))
  BY <1>1 DEF EntityMaps, AuthorityMaps
<1>3. SoundAt(E, A, K, D, M, e)
  BY <1>1, OpFields DEF Sound
<1>4. e \in DOMAIN K /\ L \in Worlds /\ IsEraseIn(L, K, e, c)
  BY TellsRemoval
<1>5. F = (IF e \in DOMAIN E THEN EraseIn(E, e, c) ELSE E)
  BY <1>1 DEF HandleRemoveComponent, EraseIn
<1>6. B = (IF e \in DOMAIN A THEN EraseIn(A, e, c) ELSE A)
  BY <1>1 DEF HandleRemoveComponent, EraseIn
<1>7. F \in EntityMaps
  BY <1>2, <1>5, EraseInMap DEF EntityMaps
<1>8. B \in AuthorityMaps
  BY <1>2, <1>6, EraseInMap DEF AuthorityMaps
<1>9. /\ IF e \in DOMAIN E THEN IsEraseIn(F, E, e, c) ELSE F = E
      /\ IF e \in DOMAIN A THEN IsEraseIn(B, A, e, c) ELSE B = A
  BY <1>5, <1>6, EraseInFacts
<1>10. Elsewhere(F, E, e) /\ Elsewhere(B, A, e)
  BY <1>9, ElsewhereSame
<1>. HIDE DEF L
<1>11. SoundAt(F, B, L, D, M, e)
  BY <1>3, <1>4, <1>9, RemoveComponentSound
<1>. QED  BY <1>1, <1>7, <1>8, <1>10, <1>11, HandlesComponent DEF L

(* The callback for changes of authority.                                  *)
LEMMA HandleAuthoritySound ==
  ASSUME Entities \in EntityMaps, ComponentAuthority \in AuthorityMaps,
         NEW K \in Worlds, NEW D, NEW M, NEW op \in ViewOps,
         MakesSense(op, K), Sound(Entities, ComponentAuthority, K, D, M),
         op.type = "authority_change", HandleAuthorityChange(op)
  PROVE  HandlesWell(op, K, D, M)
<1>. DEFINE e == op.entity
            c == op.component
            a == op.authority
            L == Told(op, K)
<1>1. PICK E, A, F, B : /\ E = Entities /\ F = Entities'
                        /\ A = ComponentAuthority /\ B = ComponentAuthority'
  BY Zenon
<1>2. e \in EntityIds /\ c \in Comps /\ a \in AuthorityStates
  BY OpFields
<1>3. A \in Maps(EntityIds, Maps(Comps, AuthorityStates))
  BY <1>1 DEF AuthorityMaps
<1>4. SoundAt(E, A, K, D, M, e)
  BY <1>1, <1>2 DEF Sound
<1>5. /\ e \in DOMAIN K /\ c \in DOMAIN K[e]
      /\ IsPutIn(L, K, e, c, [ data |-> K[e][c].data, authority |-> a ])
  BY TellsAuthority
<1>6. B = PutIn(A, e, c, a) /\ F = E
  BY <1>1 DEF HandleAuthorityChange, PutIn
<1>7. B \in AuthorityMaps
  BY <1>2, <1>3, <1>6, PutInMap DEF AuthorityMaps
<1>8. IsPutIn(B, A, e, c, a)
  BY <1>6, PutInFacts
<1>9. Elsewhere(F, E, e) /\ Elsewhere(B, A, e)
  BY <1>6, <1>8, ElsewhereSame
<1>. HIDE DEF L
<1>10. SoundAt(F, B, L, D, M, e)
  BY <1>4, <1>5, <1>6, <1>8, AuthorityChangeSound
<1>. QED  BY <1>1, <1>6, <1>7, <1>9, <1>10, HandlesComponent DEF L

(* The callback for new data.                                              *)
LEMMA HandleUpdateSound ==
  ASSUME Entities \in EntityMaps, ComponentAuthority \in AuthorityMaps,
         NEW K \in Worlds, NEW D, NEW M, NEW op \in ViewOps,
         MakesSense(op, K), Sound(Entities, ComponentAuthority, K, D, M),
         op.type = "component_update", HandleComponentUpdate(op)
  PROVE  HandlesWell(op, K, D, M)
<1>. DEFINE e == op.entity
            c == op.component
            d == op.data
            L == Told(op, K)
<1>1. PICK E, A, F, B : /\ E = Entities /\ F = Entities'
                        /\ A = ComponentAuthority /\ B = ComponentAuthority'
  BY Zenon
<1>2. e \in EntityIds /\ c \in Comps /\ d \in Values
  BY OpFields
<1>3. E \in Maps(EntityIds, Maps(Comps, Values))
  BY <1>1 DEF EntityMaps
<1>4. SoundAt(E, A, K, D, M, e)
  BY <1>1, <1>2 DEF Sound
<1>5. /\ e \in DOMAIN K /\ c \in DOMAIN K[e]
      /\ IsPutIn(L, K, e, c, [ data |-> d, authority |-> K[e][c].authority ])
  BY TellsUpdate
<1>6. c \in DOMAIN Index(E, e) <=> e \in DOMAIN E /\ c \in DOMAIN E[e]
  BY IndexFacts
<1>7. ASSUME e \in DOMAIN E, c \in DOMAIN E[e] PROVE F = PutIn(E, e, c, d)
  <2>1. IsMap(E) /\ IsMap(E[e])
    BY <1>3, <1>7, AreMaps
  <2>2. F = [ E EXCEPT ![e][c] = d ]
    BY <1>1, <1>6, <1>7 DEF HandleComponentUpdate
  <2>3. [ E EXCEPT ![e][c] = d ] = [ E EXCEPT ![e] = [ E[e] EXCEPT ![c] = d ] ]
    OBVIOUS
  <2>4. [ E EXCEPT ![e] = [ E[e] EXCEPT ![c] = d ] ] = PutIn(E, e, c, d)
    BY <1>7, <2>1, SetInExcept
  <2>. QED  BY <2>2, <2>3, <2>4, Zenon
<1>8. ~(e \in DOMAIN E /\ c \in DOMAIN E[e]) => F = E
  BY <1>1, <1>6 DEF HandleComponentUpdate
<1>9. PutIn(E, e, c, d) \in EntityMaps
  BY <1>2, <1>3, PutInMap DEF EntityMaps
<1>10. F \in EntityMaps
  BY <1>1, <1>7, <1>8, <1>9
<1>11. IF e \in DOMAIN E /\ c \in DOMAIN E[e] THEN IsPutIn(F, E, e, c, d) ELSE F = E
  BY <1>7, <1>8, PutInFacts
<1>12. B = A
  BY <1>1 DEF HandleComponentUpdate
<1>13. Elsewhere(F, E, e) /\ Elsewhere(B, A, e)
  BY <1>11, <1>12, ElsewhereSame
<1>. HIDE DEF L
<1>14. SoundAt(F, B, L, D, M, e)
  BY <1>4, <1>5, <1>11, <1>12, ComponentUpdateSound
<1>. QED  BY <1>1, <1>10, <1>12, <1>13, <1>14, HandlesComponent DEF L

(* All of them.                                                            *)
LEMMA HandleSound ==
  ASSUME Entities \in EntityMaps, ComponentAuthority \in AuthorityMaps,
         NEW K \in Worlds, NEW D, NEW M, NEW op \in ViewOps,
         MakesSense(op, K), Sound(Entities, ComponentAuthority, K, D, M),
         Handle(op)
  PROVE  HandlesWell(op, K, D, M)
BY HandleEntitySound, HandleAdditionSound, HandleRemovalSound, HandleAuthoritySound,
   HandleUpdateSound, Zenon DEF Handle

(* An operation that is not delivered: nothing but what the View keeps in  *)
(* any case is said of its entity.                                         *)
LEMMA DropCovers ==
  ASSUME NEW E, NEW A, NEW K \in Worlds, NEW D, NEW M, NEW op \in ViewOps,
         MakesSense(op, K), Sound(E, A, K, D, M)
  PROVE  Sound(E, A, Told(op, K), D \cup { op.entity }, M)
<1>. DEFINE e == op.entity
            L == Told(op, K)
            C == D \cup { e }
<1>1. e \in EntityIds /\ Elsewhere(L, K, e)
  BY OpFields, ToldWorld
<1>2. Elsewhere(E, E, e) /\ Elsewhere(A, A, e)
  BY ElsewhereSame
<1>3. SoundAt(E, A, K, D, M, e)
  BY <1>1 DEF Sound
<1>. HIDE DEF L
<1>4. SoundAt(E, A, L, C, M, e)
  BY <1>3 DEF SoundAt
<1>5. D \subseteq C \cup { e } /\ M \subseteq M \cup { e }
  OBVIOUS
<1>. HIDE DEF C
<1>6. Sound(E, A, L, C, M)
  BY <1>1, <1>2, <1>4, <1>5, SoundElsewhere
<1>. QED  BY <1>6 DEF L, C

(* A loss that a View does not hear of leaves it with all there is.        *)
LEMMA LossCovers ==
  ASSUME NEW E, NEW A, NEW K \in Worlds, NEW D, NEW M, NEW op \in ViewOps,
         MakesSense(op, K), Reversed(op), Sound(E, A, K, D, M)
  PROVE  Sound(E, A, Told(op, K), D, M \cup { op.entity })
<1>. DEFINE e == op.entity
            c == op.component
            L == Told(op, K)
            N == M \cup { e }
<1>1. e \in EntityIds /\ Elsewhere(L, K, e)
  BY OpFields, ToldWorld
<1>2. Elsewhere(E, E, e) /\ Elsewhere(A, A, e)
  BY ElsewhereSame
<1>3. SoundAt(E, A, K, D, M, e)
  BY <1>1 DEF Sound
<1>4. \/ op.type = "remove_entity"
      \/ op.type = "remove_component"
      \/ op.type = "authority_change" /\ op.authority # "kAuthoritative"
  BY OpFields DEF Reversed
<1>5. Covers(E, A, K, e) => Covers(E, A, L, e)
  <2>1. CASE op.type = "remove_entity"
    <3>1. IsErase(L, K, e)
      BY <2>1, TellsEntity
    <3>. HIDE DEF L
    <3>. QED  BY <3>1 DEF Covers, IsErase
  <2>2. CASE op.type = "remove_component"
    <3>1. e \in DOMAIN K /\ IsEraseIn(L, K, e, c)
      BY <2>2, TellsRemoval
    <3>. HIDE DEF L
    <3>. QED  BY <3>1 DEF Covers, IsEraseIn
  <2>3. CASE op.type = "authority_change" /\ op.authority # "kAuthoritative"
    <3>1. /\ e \in DOMAIN K /\ c \in DOMAIN K[e]
          /\ IsPutIn(L, K, e, c, [ data |-> K[e][c].data, authority |-> op.authority ])
      BY <2>3, TellsAuthority
    <3>2. Index(K, e) = K[e]
      BY <3>1, IndexFacts
    <3>. HIDE DEF L
    <3>3. /\ e \in DOMAIN L /\ DOMAIN L[e] = DOMAIN K[e]
          /\ \A z \in DOMAIN K[e] : z # c => L[e][z] = K[e][z]
          /\ L[e][c].authority = op.authority
      BY <3>1, <3>2 DEF IsPutIn
    <3>. QED  BY <2>3, <3>1, <3>3 DEF Covers
  <2>. QED  BY <1>4, <2>1, <2>2, <2>3
<1>. HIDE DEF L
<1>6. SoundAt(E, A, L, D, N, e)
  BY <1>3, <1>5 DEF SoundAt
<1>7. D \subseteq D \cup { e } /\ M \subseteq N \cup { e }
  OBVIOUS
<1>. HIDE DEF N
<1>8. Sound(E, A, L, D, N)
  BY <1>1, <1>2, <1>6, <1>7, SoundElsewhere
<1>. QED  BY <1>8 DEF L, N

-----------------------------------------------------------------------------
(* The callbacks of the View among those of the dispatcher.                *)

(* No callback comes before the first of an iteration in registration      *)
(* order.                                                                  *)
LEMMA FirstIsLeast ==
  ASSUME NEW n \in Nat, NEW keys \in SUBSET (0 .. n), keys # {}, NEW op, ~Reversed(op)
  PROVE  \A k \in keys : First(keys, op) <= k
<1>1. \E k \in keys : \A j \in keys : k <= j
  BY LeastNatural
<1>. QED  BY <1>1 DEF First

(* An operation has exactly one callback of the View.                      *)
LEMMA OwnKey ==
  ASSUME NEW op \in Ops
  PROVE  \E k \in ViewKeys : Own(SlotOf(op)) = { k }
<1>1. PICK k \in ViewKeys : HandlerSlot(k) = SlotOf(op)
  BY HasCallback, ViewAssumption
<1>2. \A l \in Own(SlotOf(op)) : l = k
  BY <1>1, OneCallbackEach DEF Own
<1>3. k \in Own(SlotOf(op))
  BY <1>1 DEF Own
<1>. QED  BY <1>2, <1>3

(* A callback map has its callback of the View, for good, and none that    *)
(* belongs to another.                                                     *)
HasOwn(c, s) ==
  /\ Own(s) \subseteq c.map
  /\ Own(s) \subseteq Current(c)
  /\ Stored(c) \cap ViewKeys \subseteq Own(s)

KeysOfView ==
  /\ \A k \in ViewKeys : k < current_callback_key
  /\ \A s \in Slots : HasOwn(callbacks[s], s)

(* With no invocation in progress nothing is parked.                       *)
LEMMA IdleMap ==
  ASSUME NEW c, ParkedSound(c), c.call_depth = 0
  PROVE  Current(c) = c.map
BY DEF ParkedSound, Current

(* The keys of the View come before all others.                            *)
LEMMA ViewKeysNat == /\ ViewKeys \in SUBSET Nat
                     /\ \A k \in Nat, l \in ViewKeys : k \notin ViewKeys => l < k
                     /\ \A k \in Nat, l \in ViewKeys : k < l => k \in ViewKeys
BY ComponentCount DEF ViewKeys

(* What a step that replaces one callback map has to ensure.               *)
LEMMA OwnKept ==
  ASSUME IInv, KeysOfView, NEW s \in Slots, NEW d \in CallbackMaps, HasOwn(d, s),
         callbacks' = [ callbacks EXCEPT ![s] = d ],
         current_callback_key' \in { current_callback_key, current_callback_key + 1 }
  PROVE  KeysOfView'
<1>1. /\ callbacks'[s] = d
      /\ \A t \in Slots : t # s => callbacks'[t] = callbacks[t]
  BY OneMapReplaced DEF IInv
<1>2. \A t \in Slots : HasOwn(callbacks'[t], t)
  BY <1>1 DEF KeysOfView
<1>3. \A k \in ViewKeys : k < current_callback_key'
  <2>1. current_callback_key \in Nat
    BY BoundsAssumption DEF IInv, TypeOK
  <2>. QED  BY <2>1, ViewKeysNat DEF KeysOfView
<1>. QED  BY <1>2, <1>3 DEF KeysOfView

(* Whatever the user registers and removes, and however passes end, the    *)
(* View keeps its callbacks.                                               *)
LEMMA KeysKept ==
  ASSUME IInv, KeysOfView, [ViewNext]_allVars
  PROVE  KeysOfView'
<1>1. \A s \in Slots : callbacks[s] \in CallbackMaps /\ ParkedSound(callbacks[s])
  BY DEF IInv, TypeOK, ParkedChangesSound
<1>2. ASSUME NEW s \in Slots, UserRegister(s) PROVE KeysOfView'
  <2>. DEFINE k == current_callback_key
              d == AddTo(callbacks[s], k)
  <2>1. k \in CallbackKeys /\ k \notin Stored(callbacks[s]) /\ k \notin ViewKeys
    BY BoundsAssumption, ViewKeysNat DEF IInv, TypeOK, KeysIssued, KeysOfView, CallbackKeys
  <2>2. /\ d \in CallbackMaps
        /\ callbacks[s].map \subseteq d.map
        /\ Stored(d) = Stored(callbacks[s]) \cup { k }
        /\ Current(d) = Current(callbacks[s]) \cup { k }
    BY <1>1, <2>1, AddToResult
  <2>3. /\ callbacks' = [ callbacks EXCEPT ![s] = d ]
        /\ current_callback_key' = current_callback_key + 1
    BY <1>2 DEF UserRegister, Register
  <2>. HIDE DEF d
  <2>4. HasOwn(callbacks[s], s)
    BY DEF KeysOfView
  <2>5. HasOwn(d, s)
    BY <2>1, <2>2, <2>4 DEF HasOwn
  <2>. QED  BY <2>2, <2>3, <2>5, OwnKept
<1>3. ASSUME NEW k \in (0 .. MaxKeys) \ ViewKeys, UserRemove(k) PROVE KeysOfView'
  <2>1. PICK s \in Slots :
           /\ Removes(callbacks[s], k)
           /\ callbacks' = [ callbacks EXCEPT ![s] = RemoveFrom(callbacks[s], k) ]
    BY <1>3 DEF UserRemove, Remove
  <2>. DEFINE d == RemoveFrom(callbacks[s], k)
  <2>2. k \in CallbackKeys
    BY BoundsAssumption DEF CallbackKeys
  <2>3. /\ d \in CallbackMaps
        /\ ParkedSound(d)
        /\ d.call_depth = callbacks[s].call_depth
        /\ callbacks[s].call_depth # 0 => d.map = callbacks[s].map
        /\ Stored(d) \subseteq Stored(callbacks[s])
        /\ Current(d) = Current(callbacks[s]) \ { k }
    BY <1>1, <2>1, <2>2, RemoveFromResult
  <2>4. /\ callbacks' = [ callbacks EXCEPT ![s] = d ]
        /\ current_callback_key' = current_callback_key
    BY <1>3, <2>1 DEF UserRemove, Remove
  <2>. HIDE DEF d
  <2>5. HasOwn(callbacks[s], s) /\ k \notin Own(s)
    BY DEF KeysOfView, Own
  <2>6. Own(s) \subseteq Current(d) /\ Stored(d) \cap ViewKeys \subseteq Own(s)
    BY <2>3, <2>5 DEF HasOwn
  <2>7. Own(s) \subseteq d.map
    BY <2>3, <2>5, <2>6, IdleMap DEF HasOwn
  <2>8. HasOwn(d, s)
    BY <2>6, <2>7 DEF HasOwn
  <2>. QED  BY <2>3, <2>4, <2>8, OwnKept
<1>4. ASSUME NEW op \in Ops, Process(op) PROVE KeysOfView'
  <2>. DEFINE s == SlotOf(op)
              d == Enter(callbacks[s])
  <2>1. s \in Slots
    BY SlotOfOp
  <2>2. /\ d \in CallbackMaps
        /\ d.map = callbacks[s].map
        /\ Stored(d) = Stored(callbacks[s])
        /\ Current(d) = Current(callbacks[s])
    BY <1>1, <2>1, EnterResult
  <2>3. /\ callbacks' = [ callbacks EXCEPT ![s] = d ]
        /\ current_callback_key' = current_callback_key
    BY <1>4 DEF Process, Dispatch
  <2>. HIDE DEF d, s
  <2>4. HasOwn(d, s)
    BY <2>1, <2>2 DEF KeysOfView, HasOwn
  <2>. QED  BY <2>1, <2>2, <2>3, <2>4, OwnKept
<1>5. CASE InvokeNext \/ OtherThrow \/ (\E op \in Ops : Drop(op)) \/ UNCHANGED allVars
  <2>1. callbacks' = callbacks /\ current_callback_key' = current_callback_key
    BY <1>5 DEF InvokeNext, NextCallback, OtherThrow, Drop, allVars, vars
  <2>. QED  BY <2>1 DEF KeysOfView
<1>6. CASE ReturnFromPass \/ UserThrow
  <2>1. passes # << >> /\ LeavePass
    BY <1>6 DEF ReturnFromPass, EndPass, UserThrow, Throw
  <2>. DEFINE s == TopSlot
              d == Leave(callbacks[s])
  <2>2. s \in Slots /\ ActiveOn(s) # {}
    <3>1. Len(passes) \in DOMAIN passes
      BY <2>1 DEF IInv, TypeOK, Pass
    <3>. QED  BY <3>1, PassFacts DEF IInv, Top, TopSlot
  <2>3. callbacks[s].call_depth # 0
    BY <2>2, ActiveHasDepth DEF IInv
  <2>4. /\ d \in CallbackMaps /\ ParkedSound(d)
        /\ d.call_depth # 0 => d.map = callbacks[s].map
        /\ Stored(d) \subseteq Stored(callbacks[s])
        /\ Current(d) = Current(callbacks[s])
    BY <1>1, <2>2, <2>3, LeaveResult
  <2>5. /\ callbacks' = [ callbacks EXCEPT ![s] = d ]
        /\ current_callback_key' = current_callback_key
    BY <2>1 DEF LeavePass
  <2>. HIDE DEF d, s
  <2>6. HasOwn(callbacks[s], s)
    BY <2>2 DEF KeysOfView
  <2>7. Own(s) \subseteq Current(d) /\ Stored(d) \cap ViewKeys \subseteq Own(s)
    BY <2>4, <2>6 DEF HasOwn
  <2>8. Own(s) \subseteq d.map
    BY <2>4, <2>6, <2>7, IdleMap DEF HasOwn
  <2>9. HasOwn(d, s)
    BY <2>7, <2>8 DEF HasOwn
  <2>. QED  BY <2>2, <2>4, <2>5, <2>9, OwnKept
<1>. QED  BY <1>2, <1>3, <1>4, <1>5, <1>6 DEF ViewNext

(* The constructor registers them.                                         *)
LEMMA InitKeys ==
  ASSUME ViewInit
  PROVE  IInv /\ KeysOfView
<1>. DEFINE n == Len(ComponentList)
<1>1. n \in Nat /\ 2 + 4 * n <= MaxKeys
  BY ComponentCount, ViewAssumption
<1>2. current_callback_key = 2 + 4 * n
  <2>1. Cardinality(0 .. 1 + 4 * n) = IF 0 > 1 + 4 * n THEN 0 ELSE 1 + 4 * n - 0 + 1
    BY <1>1, FS_Interval
  <2>. QED  BY <1>1, <2>1 DEF ViewInit, ViewKeys
<1>3. \A k \in ViewKeys : k \in Nat /\ k < current_callback_key
  BY <1>1, <1>2 DEF ViewKeys
<1>. DEFINE first(s) == [ EmptyCallbackMap EXCEPT !.map = Own(s) ]
<1>4. callbacks = [ s \in Slots |-> first(s) ]
  BY DEF ViewInit, Own
<1>5. \A s \in Slots : /\ first(s) \in CallbackMaps
                       /\ first(s).map = Own(s) /\ first(s).to_add = {}
                       /\ first(s).to_remove = {} /\ first(s).call_depth = 0
  BY <1>3 DEF EmptyCallbackMap, CallbackMaps, CallbackKeys, Own
<1>. HIDE DEF first
<1>6. \A s \in Slots : /\ callbacks[s] \in CallbackMaps
                       /\ callbacks[s].map = Own(s) /\ callbacks[s].to_add = {}
                       /\ callbacks[s].to_remove = {} /\ callbacks[s].call_depth = 0
  BY <1>4, <1>5
<1>7. \A s \in Slots : /\ Stored(callbacks[s]) = Own(s)
                       /\ Current(callbacks[s]) = Own(s)
                       /\ ParkedSound(callbacks[s])
  BY <1>6 DEF Stored, Current, ParkedSound
<1>8. TypeOK
  <2>1. callbacks \in [ Slots -> CallbackMaps ]
    BY <1>4, <1>5
  <2>2. passes \in Seq([ op : Ops, at : CallbackKeys ])
    BY EmptySeq DEF ViewInit
  <2>3. current_callback_key \in 0 .. MaxKeys
    BY <1>1, <1>2, BoundsAssumption
  <2>. QED  BY <2>1, <2>2, <2>3 DEF TypeOK, ViewInit
<1>9. KeysIssued
  BY <1>3, <1>7 DEF KeysIssued, Own
<1>10. KeyInOneMap
  BY <1>7 DEF KeyInOneMap, Own
<1>11. ParkedChangesSound
  BY <1>7 DEF ParkedChangesSound
<1>12. DepthMatchesPasses
  <2>1. \A s \in Slots : ActiveOn(s) = {}
    BY DEF ActiveOn, ActiveIn, ViewInit
  <2>. QED  BY <1>6, <2>1, FS_EmptySet DEF DepthMatchesPasses
<1>13. RunningCallbackStored
  BY DEF RunningCallbackStored, ViewInit
<1>14. KeysOfView
  BY <1>3, <1>6, <1>7 DEF KeysOfView, HasOwn
<1>. QED  BY <1>8, <1>9, <1>10, <1>11, <1>12, <1>13, <1>14 DEF IInv

(* A step of the View is one of its dispatcher, or none.                   *)
LEMMA StepOfDispatcher == [ViewNext]_allVars => [Next]_vars
BY DEF ViewNext, Next, UserRegister, UserRemove, Process, InvokeNext, ReturnFromPass,
       UserThrow, OtherThrow, Drop, allVars

-----------------------------------------------------------------------------
(* The callbacks of the user and the View's own within a pass.             *)
LEMMA PassOf ==
  ASSUME IInv, NEW i \in DOMAIN passes
  PROVE  /\ passes[i] \in Pass
         /\ passes[i].op \in Ops
         /\ passes[i].at \in CallbackKeys
         /\ SlotOf(passes[i].op) \in Slots
         /\ passes[i].at \in callbacks[SlotOf(passes[i].op)].map
<1>1. passes[i] \in Pass /\ SlotOf(passes[i].op) \in Slots
  BY PassFacts DEF IInv
<1>2. passes[i].at \in callbacks[SlotOf(passes[i].op)].map
  BY DEF IInv, RunningCallbackStored
<1>. QED  BY <1>1, <1>2 DEF Pass

(* The keys of a map are below the next one.                               *)
LEMMA MapBounds ==
  ASSUME IInv, NEW s \in Slots
  PROVE  current_callback_key \in Nat /\ callbacks[s].map \in SUBSET (0 .. current_callback_key)
BY BoundsAssumption DEF IInv, TypeOK, KeysIssued, Stored, CallbackMaps, CallbackKeys

(* A pass in registration order begins with the View's callback.           *)
LEMMA FirstReached ==
  ASSUME IInv, KeysOfView, NEW op \in Ops, callbacks[SlotOf(op)].map # {}
  PROVE  LET a == First(callbacks[SlotOf(op)].map, op)
         IN  a \in CallbackKeys /\ (~Reversed(op) => a \in ViewKeys)
<1>. DEFINE s == SlotOf(op)
            m == callbacks[s].map
            a == First(m, op)
<1>1. s \in Slots
  BY SlotOfOp
<1>2. m \in SUBSET (0 .. current_callback_key) /\ current_callback_key \in Nat
  BY <1>1, MapBounds
<1>3. PICK k \in ViewKeys : Own(s) = { k }
  BY OwnKey
<1>4. k \in m
  BY <1>1, <1>3 DEF KeysOfView, HasOwn
<1>. HIDE DEF m, s
<1>5. a \in m
  BY <1>2, <1>4, FirstIsAKey
<1>6. ~Reversed(op) => a <= k
  BY <1>2, <1>4, FirstIsLeast
<1>. HIDE DEF a
<1>7. a \in Nat /\ k \in Nat
  BY <1>2, <1>4, <1>5
<1>8. ~Reversed(op) => a \in ViewKeys
  BY <1>6, <1>7, ViewKeysNat
<1>. QED  BY <1>7, <1>8 DEF a, m, s, CallbackKeys

(* It does not come to it again; and a pass in the opposite order that     *)
(* goes on has not come to it yet.                                         *)
LEMMA NextReached ==
  ASSUME IInv, KeysOfView, NEW op \in Ops, NEW l \in callbacks[SlotOf(op)].map,
         After(callbacks[SlotOf(op)].map, l, op) # {}
  PROVE  LET a == First(After(callbacks[SlotOf(op)].map, l, op), op)
         IN  /\ a \in CallbackKeys
             /\ ~Reversed(op) => a \notin ViewKeys
             /\ Reversed(op) => l \notin ViewKeys
<1>. DEFINE s == SlotOf(op)
            m == callbacks[s].map
            R == After(m, l, op)
            a == First(R, op)
<1>1. s \in Slots
  BY SlotOfOp
<1>2. m \in SUBSET (0 .. current_callback_key) /\ current_callback_key \in Nat
  BY <1>1, MapBounds
<1>3. PICK k \in ViewKeys : Own(s) = { k }
  BY OwnKey
<1>4. \A j \in m : j \in ViewKeys => j = k
  BY <1>1, <1>3 DEF KeysOfView, HasOwn, Stored
<1>. HIDE DEF m, s
<1>5. R \in SUBSET (0 .. current_callback_key) /\ R # {}
  BY <1>2 DEF After, m, s
<1>6. a \in R
  BY <1>2, <1>5, FirstIsAKey
<1>. HIDE DEF a
<1>7. a \in m /\ l \in m /\ (IF Reversed(op) THEN a < l ELSE l < a)
  BY <1>6 DEF After, m, s
<1>8. a \in Nat /\ l \in Nat
  BY <1>2, <1>7
<1>9. ~Reversed(op) => a \notin ViewKeys
  BY <1>4, <1>7, <1>8, ViewKeysNat
<1>10. Reversed(op) => l \notin ViewKeys
  BY <1>4, <1>7, <1>8, ViewKeysNat
<1>. QED  BY <1>8, <1>9, <1>10 DEF a, R, m, s, CallbackKeys

(* Nor does one end before it has.                                         *)
LEMMA LastReached ==
  ASSUME IInv, KeysOfView, NEW op \in Ops, NEW l \in callbacks[SlotOf(op)].map,
         Reversed(op), l \notin ViewKeys
  PROVE  After(callbacks[SlotOf(op)].map, l, op) \cap ViewKeys # {}
<1>. DEFINE s == SlotOf(op)
            m == callbacks[s].map
<1>1. s \in Slots
  BY SlotOfOp
<1>2. m \in SUBSET (0 .. current_callback_key) /\ current_callback_key \in Nat
  BY <1>1, MapBounds
<1>3. PICK k \in ViewKeys : Own(s) = { k }
  BY OwnKey
<1>4. k \in m
  BY <1>1, <1>3 DEF KeysOfView, HasOwn
<1>5. k < l
  BY <1>2, ViewKeysNat
<1>6. k \in After(m, l, op)
  BY <1>4, <1>5 DEF After
<1>. QED  BY <1>6

-----------------------------------------------------------------------------
(* The invariant.                                                          *)

(* The View's callback is still to come in this pass.                      *)
Pending(p) == Reversed(p.op) /\ p.at \notin ViewKeys

(* The View is sound for what it should know.                              *)
SoundFor(K) == Sound(Entities, ComponentAuthority, K, dropped, abandoned)

(* Within a pass the View knows the world before the operation or after    *)
(* it.                                                                     *)
Midway(p) ==
  \E K \in Worlds :
    /\ MakesSense(p.op, K)
    /\ known = Told(p.op, K)
    /\ Pending(p) => SoundFor(K)
    /\ ~Pending(p) => SoundFor(known)

Knowledge ==
  /\ passes = << >> => SoundFor(known)
  /\ passes # << >> => Midway(passes[1])

MapsTyped ==
  /\ Entities \in EntityMaps
  /\ ComponentAuthority \in AuthorityMaps
  /\ known \in Worlds
  /\ newest \in 0 .. MaxDepth

OnePass == Len(passes) <= 1

ViewIInv ==
  /\ IInv
  /\ KeysOfView
  /\ OnePass
  /\ MapsTyped
  /\ Knowledge

(* The pass in progress, if there is one.                                  *)
LEMMA OnlyPass ==
  ASSUME IInv, OnePass, passes # << >>
  PROVE  /\ Len(passes) = 1 /\ 1 \in DOMAIN passes /\ DOMAIN passes = { 1 }
         /\ Top = passes[1]
<1>1. passes \in Seq(Pass)
  BY DEF IInv, TypeOK, Pass
<1>2. Len(passes) \in Nat /\ Len(passes) # 0 /\ DOMAIN passes = 1 .. Len(passes)
  BY <1>1
<1>3. Len(passes) = 1
  BY <1>2 DEF OnePass
<1>. QED  BY <1>2, <1>3 DEF Top

(* The View begins with nothing, and the world too.                        *)
LEMMA ViewInitIInv ==
  ASSUME ViewInit
  PROVE  ViewIInv
<1>1. IInv /\ KeysOfView
  BY InitKeys
<1>2. OnePass
  BY EmptySeq DEF ViewInit, OnePass
<1>3. MapsTyped
  <2>1. << >> \in EntityMaps /\ << >> \in AuthorityMaps /\ << >> \in Worlds
    BY EmptyMap DEF EntityMaps, AuthorityMaps, Worlds
  <2>2. 0 \in 0 .. MaxDepth
    BY BoundsAssumption
  <2>. QED  BY <2>1, <2>2 DEF MapsTyped, ViewInit
<1>4. SoundFor(known)
  <2>1. DOMAIN Entities = {} /\ DOMAIN ComponentAuthority = {} /\ DOMAIN known = {}
    BY EmptyMap DEF ViewInit
  <2>. QED
    BY <2>1 DEF SoundFor, Sound, SoundAt, AuthorityKept, AuthorityBacked, Covers, Exact
<1>5. Knowledge
  BY <1>4 DEF Knowledge, ViewInit
<1>. QED  BY <1>1, <1>2, <1>3, <1>5 DEF ViewIInv

(* Steps that leave the View and the passes alone.                         *)
LEMMA ViewUntouched ==
  ASSUME OnePass, MapsTyped, Knowledge, UNCHANGED << passes, viewVars, worldVars >>
  PROVE  OnePass' /\ MapsTyped' /\ Knowledge'
BY DEF OnePass, MapsTyped, Knowledge, Midway, SoundFor, viewVars, worldVars

(* What the View has missed, after one of its callbacks or of the user's.  *)
LEMMA ForgetHeals ==
  ASSUME NEW p, p.op \in ViewOps, Forget(p)
  PROVE  /\ p.at \in ViewKeys =>
              dropped' = Healed(p.op, dropped) /\ abandoned' = Healed(p.op, abandoned)
         /\ p.at \notin ViewKeys => dropped' = dropped /\ abandoned' = abandoned
<1>1. p.op.entity \in EntityIds
  BY OpFields
<1>2. p.at \in ViewKeys =>
        Forgotten(p) = IF p.op.type = "remove_entity" THEN { p.op.entity } ELSE {}
  BY <1>1 DEF Forgotten
<1>3. p.at \notin ViewKeys => Forgotten(p) = {}
  BY DEF Forgotten
<1>. QED  BY <1>2, <1>3 DEF Forget, Healed

(* Process() of an operation: the View knows of it at once, or will when   *)
(* the callbacks of the user have run.                                     *)
LEMMA ProcessKnows ==
  ASSUME MaxDepth <= 1, ViewIInv, NEW op \in Ops, Process(op)
  PROVE  OnePass' /\ MapsTyped' /\ Knowledge'
<1>. DEFINE s == SlotOf(op)
            a == First(callbacks[s].map, op)
<1>1. passes = << >> /\ 1 <= MaxDepth
  <2>1. passes \in Seq(Pass)
    BY DEF ViewIInv, IInv, TypeOK, Pass
  <2>2. Len(passes) < MaxDepth /\ Len(passes) \in Nat
    BY <2>1 DEF Process, Dispatch
  <2>3. Len(passes) = 0 /\ 1 <= MaxDepth
    BY <2>2, BoundsAssumption
  <2>. QED  BY <2>1, <2>3, EmptySeq
<1>2. s \in Slots /\ callbacks[s] \in CallbackMaps
  BY SlotOfOp DEF ViewIInv, IInv, TypeOK
<1>3. Enter(callbacks[s]).map = callbacks[s].map
  BY <1>2, EnterFields
<1>4. callbacks[s].map # {} /\ passes' = << [ op |-> op, at |-> a ] >>
  BY <1>1, <1>3 DEF Process, Dispatch
<1>5. a \in CallbackKeys /\ (~Reversed(op) => a \in ViewKeys)
  BY <1>4, FirstReached DEF ViewIInv
<1>. HIDE DEF a
<1>6. PICK p \in Pass : p = [ op |-> op, at |-> a ] /\ p.op = op /\ p.at = a
  <2>1. [ op |-> op, at |-> a ] \in Pass
    BY <1>5 DEF Pass
  <2>. QED  BY <2>1
<1>7. Len(passes') = 1 /\ passes'[1] = p /\ passes' # << >>
  BY <1>4, <1>6
<1>8. OnePass'
  BY <1>7 DEF OnePass
<1>9. /\ MakesSense(op, known) /\ known' = Told(op, known)
      /\ Execute(p) /\ Forget(p) /\ newest' \in 0 .. MaxDepth
  BY <1>1, <1>7, BoundsAssumption DEF Process
<1>10. PICK K \in Worlds : K = known
  BY DEF ViewIInv, MapsTyped
<1>11. PICK D, M : D = dropped /\ M = abandoned
  BY Zenon
<1>12. op \in ViewOps /\ MakesSense(op, K) /\ Sound(Entities, ComponentAuthority, K, D, M)
  BY <1>1, <1>9, <1>10, <1>11, ViewAssumption DEF ViewIInv, Knowledge, SoundFor
<1>13. PICK L \in Worlds : L = Told(op, K)
  BY <1>12, ToldWorld
<1>14. known' = L
  BY <1>9, <1>10, <1>11, <1>13
<1>15. CASE a \in ViewKeys
  <2>1. Handle(op)
    BY <1>6, <1>9, <1>15 DEF Execute
  <2>2. HandlesWell(op, K, D, M)
    BY <1>12, <2>1, HandleSound DEF ViewIInv, MapsTyped
  <2>3. MapsTyped'
    BY <1>9, <1>14, <2>2 DEF MapsTyped, HandlesWell
  <2>4. dropped' = Healed(op, D) /\ abandoned' = Healed(op, M)
    BY <1>6, <1>9, <1>10, <1>11, <1>12, <1>15, ForgetHeals
  <2>5. SoundFor(known)' /\ ~Pending(p)
    BY <1>6, <1>13, <1>14, <1>15, <2>2, <2>4 DEF HandlesWell, Pending, SoundFor
  <2>6. Midway(p)'
    BY <1>6, <1>12, <1>13, <1>14, <2>5 DEF Midway, Pending
  <2>. QED  BY <1>7, <1>8, <2>3, <2>6 DEF Knowledge
<1>16. CASE a \notin ViewKeys
  <2>1. UNCHANGED viewVars /\ Pending(p)
    BY <1>5, <1>6, <1>9, <1>16 DEF Execute, Pending
  <2>2. MapsTyped'
    BY <1>9, <1>14, <2>1 DEF ViewIInv, MapsTyped, viewVars
  <2>3. dropped' = D /\ abandoned' = M
    BY <1>6, <1>9, <1>10, <1>11, <1>12, <1>16, ForgetHeals
  <2>4. Sound(Entities', ComponentAuthority', K, dropped', abandoned')
    BY <1>12, <2>1, <2>3 DEF viewVars
  <2>5. Midway(p)'
    BY <1>6, <1>12, <1>13, <1>14, <2>1, <2>4 DEF Midway, Pending, SoundFor
  <2>. QED  BY <1>7, <1>8, <2>2, <2>5 DEF Knowledge
<1>. QED  BY <1>15, <1>16

(* The pass goes on: possibly to the View's callback.                      *)
LEMMA InvokeKnows ==
  ASSUME ViewIInv, InvokeNext
  PROVE  OnePass' /\ MapsTyped' /\ Knowledge'
<1>. DEFINE op == passes[1].op
            l == passes[1].at
            m == callbacks[SlotOf(op)].map
            a == First(After(m, l, op), op)
<1>1. passes # << >>
  BY DEF InvokeNext, NextCallback
<1>2. /\ Len(passes) = 1 /\ 1 \in DOMAIN passes /\ DOMAIN passes = { 1 }
      /\ Top = passes[1]
  BY <1>1, OnlyPass DEF ViewIInv
<1>3. /\ passes[1] \in Pass /\ op \in Ops /\ l \in CallbackKeys /\ l \in m
  BY <1>2, PassOf DEF ViewIInv
<1>4. Remaining = After(m, l, op) /\ Remaining # {}
  BY <1>2 DEF Remaining, TopSlot, InvokeNext, NextCallback
<1>5. /\ a \in CallbackKeys
      /\ ~Reversed(op) => a \notin ViewKeys
      /\ Reversed(op) => l \notin ViewKeys
  BY <1>3, <1>4, NextReached DEF ViewIInv
<1>6. passes' = [ passes EXCEPT ![1].at = a ]
  BY <1>2, <1>4 DEF InvokeNext, NextCallback
<1>. HIDE DEF a, m
<1>7. PICK p \in Pass : p = [ passes[1] EXCEPT !.at = a ] /\ p.op = op /\ p.at = a
  <2>. DEFINE q == [ passes[1] EXCEPT !.at = a ]
  <2>1. q \in Pass /\ q.op = op /\ q.at = a
    BY <1>3, <1>5 DEF Pass
  <2>. QED  BY <2>1
<1>8. passes' = [ passes EXCEPT ![1] = p ]
  BY <1>6, <1>7
<1>9. passes \in Seq(Pass)
  BY DEF ViewIInv, IInv, TypeOK, Pass
<1>10. Len(passes') = 1 /\ passes'[1] = p /\ passes' # << >>
  BY <1>2, <1>8, <1>9
<1>11. OnePass'
  BY <1>10 DEF OnePass
<1>12. Execute(p) /\ Forget(p) /\ newest' = newest /\ known' = known
  BY <1>10 DEF InvokeNext
<1>13. PICK D, M : D = dropped /\ M = abandoned
  BY Zenon
<1>14. PICK K \in Worlds :
         /\ MakesSense(op, K)
         /\ known = Told(op, K)
         /\ Pending(passes[1]) => Sound(Entities, ComponentAuthority, K, D, M)
         /\ ~Pending(passes[1]) => Sound(Entities, ComponentAuthority, known, D, M)
  BY <1>1, <1>13 DEF ViewIInv, Knowledge, Midway, SoundFor
<1>15. known' = Told(op, K) /\ known \in Worlds /\ op \in ViewOps
  BY <1>3, <1>12, <1>14, ViewAssumption DEF ViewIInv, MapsTyped
<1>16. CASE a \in ViewKeys
  <2>1. Reversed(op) /\ Pending(passes[1]) /\ Handle(op)
    BY <1>5, <1>7, <1>12, <1>16 DEF Pending, Execute
  <2>2. HandlesWell(op, K, D, M)
    BY <1>14, <1>15, <2>1, HandleSound DEF ViewIInv, MapsTyped
  <2>3. MapsTyped'
    BY <1>12, <1>15, <2>2 DEF ViewIInv, MapsTyped, HandlesWell
  <2>4. dropped' = Healed(op, D) /\ abandoned' = Healed(op, M)
    BY <1>7, <1>12, <1>13, <1>15, <1>16, ForgetHeals
  <2>5. SoundFor(known)' /\ ~Pending(p)
    BY <1>7, <1>15, <1>16, <2>2, <2>4 DEF HandlesWell, Pending, SoundFor
  <2>6. Midway(p)'
    BY <1>7, <1>14, <1>15, <2>5 DEF Midway, Pending
  <2>. QED  BY <1>10, <1>11, <2>3, <2>6 DEF Knowledge
<1>17. CASE a \notin ViewKeys
  <2>1. UNCHANGED viewVars
    BY <1>7, <1>12, <1>17 DEF Execute
  <2>2. MapsTyped'
    BY <1>12, <2>1 DEF ViewIInv, MapsTyped, viewVars
  <2>3. Pending(p) <=> Pending(passes[1])
    BY <1>5, <1>7, <1>17 DEF Pending
  <2>4. dropped' = D /\ abandoned' = M
    BY <1>7, <1>12, <1>13, <1>15, <1>17, ForgetHeals
  <2>5. /\ Pending(p) => Sound(Entities', ComponentAuthority', K, dropped', abandoned')
        /\ ~Pending(p) => Sound(Entities', ComponentAuthority', known', dropped', abandoned')
    BY <1>12, <1>14, <2>1, <2>3, <2>4 DEF viewVars
  <2>6. Midway(p)'
    BY <1>7, <1>14, <1>15, <2>5 DEF Midway, Pending, SoundFor
  <2>. QED  BY <1>10, <1>11, <2>2, <2>6 DEF Knowledge
<1>. QED  BY <1>16, <1>17

(* The pass ends.  By return: the View knew.  By an exception: it knew, or *)
(* has missed a loss.                                                      *)
LEMMA LeavingKnows ==
  ASSUME ViewIInv, ReturnFromPass \/ UserThrow
  PROVE  OnePass' /\ MapsTyped' /\ Knowledge'
<1>. DEFINE op == passes[1].op
            l == passes[1].at
            m == callbacks[SlotOf(op)].map
<1>1. passes # << >> /\ passes' = Popped
  BY DEF ReturnFromPass, EndPass, UserThrow, Throw, LeavePass
<1>2. /\ Len(passes) = 1 /\ 1 \in DOMAIN passes /\ DOMAIN passes = { 1 }
      /\ Top = passes[1]
  BY <1>1, OnlyPass DEF ViewIInv
<1>3. passes \in Seq(Pass)
  BY DEF ViewIInv, IInv, TypeOK, Pass
<1>4. passes' = << >>
  BY <1>1, <1>2, <1>3 DEF Popped
<1>5. /\ passes[1] \in Pass /\ op \in Ops /\ l \in CallbackKeys /\ l \in m
  BY <1>2, PassOf DEF ViewIInv
<1>6. Remaining = After(m, l, op)
  BY <1>2 DEF Remaining, TopSlot
<1>7. Pending(passes[1]) <=> Reversed(op) /\ Remaining \cap ViewKeys # {}
  <2>1. Pending(passes[1]) => Remaining \cap ViewKeys # {}
    BY <1>5, <1>6, LastReached DEF ViewIInv, Pending
  <2>2. Reversed(op) /\ Remaining # {} => l \notin ViewKeys
    BY <1>5, <1>6, NextReached DEF ViewIInv
  <2>. QED  BY <2>1, <2>2 DEF Pending
<1>. HIDE DEF m
<1>8. UNCHANGED << viewVars, known, dropped >> /\ newest' \in { 0, newest }
  BY DEF ReturnFromPass, UserThrow
<1>9. newest' \in 0 .. MaxDepth
  BY <1>8, BoundsAssumption DEF ViewIInv, MapsTyped
<1>10. PICK D, M, N : D = dropped /\ M = abandoned /\ N = abandoned'
  BY Zenon
<1>11. /\ N = M \/ N = M \cup { op.entity }
       /\ Pending(passes[1]) => N = M \cup { op.entity }
  BY <1>2, <1>7, <1>10 DEF ReturnFromPass, UserThrow, EndPass
<1>12. PICK K \in Worlds :
         /\ MakesSense(op, K)
         /\ known = Told(op, K)
         /\ Pending(passes[1]) => Sound(Entities, ComponentAuthority, K, D, M)
         /\ ~Pending(passes[1]) => Sound(Entities, ComponentAuthority, known, D, M)
  BY <1>1, <1>10 DEF ViewIInv, Knowledge, Midway, SoundFor
<1>13. Sound(Entities, ComponentAuthority, known, D, N)
  <2>1. CASE Pending(passes[1])
    <3>1. Reversed(op) /\ op \in ViewOps
      BY <1>5, <2>1, ViewAssumption DEF Pending
    <3>2. Sound(Entities, ComponentAuthority, Told(op, K), D, M \cup { op.entity })
      BY <1>12, <2>1, <3>1, LossCovers
    <3>. QED  BY <1>11, <1>12, <2>1, <3>2
  <2>2. CASE ~Pending(passes[1])
    <3>1. M \subseteq N
      BY <1>11
    <3>. QED  BY <1>12, <2>2, <3>1 DEF Sound, SoundAt
  <2>. QED  BY <2>1, <2>2
<1>14. OnePass'
  BY <1>4, EmptySeq DEF OnePass
<1>15. MapsTyped'
  BY <1>8, <1>9 DEF ViewIInv, MapsTyped, viewVars
<1>16. Knowledge'
  BY <1>4, <1>8, <1>10, <1>13 DEF Knowledge, SoundFor, viewVars
<1>. QED  BY <1>14, <1>15, <1>16

(* An operation is dropped, of a list that an exception has ended.         *)
LEMMA DropKnows ==
  ASSUME MaxDepth <= 1, ViewIInv, NEW op \in Ops, Drop(op)
  PROVE  OnePass' /\ MapsTyped' /\ Knowledge'
<1>1. passes = << >>
  <2>1. passes \in Seq(Pass) /\ Len(passes) \in Nat
    BY DEF ViewIInv, IInv, TypeOK, Pass
  <2>2. Len(passes) < newest /\ newest \in 0 .. MaxDepth
    BY DEF Drop, ViewIInv, MapsTyped
  <2>3. Len(passes) = 0
    BY <2>1, <2>2, BoundsAssumption
  <2>. QED  BY <2>1, <2>3, EmptySeq
<1>2. /\ MakesSense(op, known) /\ known' = Told(op, known)
      /\ dropped' = dropped \cup { op.entity }
      /\ UNCHANGED << passes, viewVars, newest, abandoned >>
  BY DEF Drop, vars
<1>3. op \in ViewOps /\ known \in Worlds /\ SoundFor(known)
  BY <1>1, ViewAssumption DEF ViewIInv, MapsTyped, Knowledge
<1>4. PICK K \in Worlds : K = known
  BY <1>3
<1>5. PICK D, M : D = dropped /\ M = abandoned
  BY Zenon
<1>6. known' \in Worlds
  BY <1>2, <1>3, <1>4, <1>5, ToldWorld
<1>7. Sound(Entities, ComponentAuthority, Told(op, K), D \cup { op.entity }, M)
  BY <1>2, <1>3, <1>4, <1>5, DropCovers DEF SoundFor
<1>8. SoundFor(known)'
  BY <1>2, <1>4, <1>5, <1>7 DEF SoundFor, viewVars
<1>9. OnePass'
  BY <1>2 DEF ViewIInv, OnePass
<1>10. MapsTyped'
  BY <1>2, <1>6 DEF ViewIInv, MapsTyped, viewVars
<1>11. Knowledge'
  BY <1>1, <1>2, <1>8 DEF Knowledge
<1>. QED  BY <1>9, <1>10, <1>11

(* Another operation ends a list: the View and the world stay.             *)
LEMMA OtherKnows ==
  ASSUME ViewIInv, OtherThrow
  PROVE  OnePass' /\ MapsTyped' /\ Knowledge'
<1>1. newest' \in 0 .. MaxDepth
  <2>1. Len(passes) \in Nat
    BY DEF ViewIInv, IInv, TypeOK
  <2>. QED  BY <2>1, BoundsAssumption DEF OtherThrow
<1>2. UNCHANGED << passes, viewVars, known, dropped, abandoned >>
  BY DEF OtherThrow, vars
<1>. QED  BY <1>1, <1>2 DEF ViewIInv, OnePass, MapsTyped, Knowledge, Midway, SoundFor, viewVars

(* Every step keeps the invariant.                                         *)
LEMMA ViewNextIInv ==
  ASSUME MaxDepth <= 1, ViewIInv, [ViewNext]_allVars
  PROVE  ViewIInv'
<1>1. IInv'
  BY StepOfDispatcher, NextIInv DEF ViewIInv
<1>2. KeysOfView'
  BY KeysKept DEF ViewIInv
<1>3. OnePass' /\ MapsTyped' /\ Knowledge'
  <2>1. ASSUME NEW s \in Slots, UserRegister(s) PROVE OnePass' /\ MapsTyped' /\ Knowledge'
    BY <2>1, ViewUntouched DEF ViewIInv, UserRegister, Register
  <2>2. ASSUME NEW k \in (0 .. MaxKeys) \ ViewKeys, UserRemove(k)
        PROVE  OnePass' /\ MapsTyped' /\ Knowledge'
    BY <2>2, ViewUntouched DEF ViewIInv, UserRemove, Remove
  <2>3. ASSUME NEW op \in Ops, Process(op) PROVE OnePass' /\ MapsTyped' /\ Knowledge'
    BY <2>3, ProcessKnows
  <2>4. CASE InvokeNext
    BY <2>4, InvokeKnows
  <2>5. CASE ReturnFromPass \/ UserThrow
    BY <2>5, LeavingKnows
  <2>6. ASSUME NEW op \in Ops, Drop(op) PROVE OnePass' /\ MapsTyped' /\ Knowledge'
    BY <2>6, DropKnows
  <2>7. CASE OtherThrow
    BY <2>7, OtherKnows
  <2>8. CASE UNCHANGED allVars
    BY <2>8, ViewUntouched DEF ViewIInv, allVars, vars
  <2>. QED  BY <2>1, <2>2, <2>3, <2>4, <2>5, <2>6, <2>7, <2>8 DEF ViewNext
<1>. QED  BY <1>1, <1>2, <1>3 DEF ViewIInv

(* Maps of maps are maps, and so are all their values.                     *)
LEMMA MapsAreMaps ==
  ASSUME NEW R, NEW S, NEW T, NEW f \in Maps(R, Maps(S, T))
  PROVE  IsMap(f) /\ \A x \in DOMAIN f : IsMap(f[x])
<1>. DEFINE M == Maps(S, T)
<1>1. f \in Maps(R, M)
  OBVIOUS
<1>. HIDE DEF M
<1>2. f \in [ DOMAIN f -> M ]
  BY <1>1, MapsDef
<1>. QED  BY <1>2, AreMaps DEF IsMap

(* What the callbacks for an operation find in the two maps.               *)
Found(op, E, A, M) ==
  LET e == op.entity
      c == op.component
      has == IF e \in DOMAIN A /\ c \in DOMAIN A[e] THEN A[e][c] ELSE "kNotAuthoritative"
  IN  /\ e \in DOMAIN E
      /\ op.type \in ComponentTypes => c \in DOMAIN E[e]
      /\ op.type = "authority_change" /\ e \notin M =>
           IF Reversed(op) THEN op.authority \in AuthorityFollows[has]
                           ELSE has = "kAuthoritative"

(* Before a loss.                                                          *)
LEMMA LossFound ==
  ASSUME NEW op \in ViewOps, NEW E, NEW A, NEW K \in Worlds, NEW D, NEW M,
         MakesSense(op, K), Reversed(op), Sound(E, A, K, D, M), op.entity \notin D
  PROVE  Found(op, E, A, M)
<1>. DEFINE e == op.entity
            c == op.component
<1>1. \/ op.type = "remove_entity"
      \/ op.type \in { "remove_component", "authority_change" }
  BY OpFields DEF Reversed
<1>2. SoundAt(E, A, K, D, M, e) /\ e \notin D
  BY OpFields DEF Sound
<1>3. CASE op.type = "remove_entity"
  <2>1. e \in DOMAIN E
    BY <1>2, <1>3, TellsEntity, SoundHas
  <2>. QED  BY <1>3, <2>1 DEF Found, ComponentTypes
<1>4. CASE op.type \in { "remove_component", "authority_change" }
  <2>1. e \in DOMAIN K /\ c \in DOMAIN K[e]
    BY <1>4, TellsRemoval, TellsAuthority
  <2>2. e \in DOMAIN E /\ e \in DOMAIN A /\ c \in DOMAIN E[e] /\ c \in DOMAIN A[e]
    BY <1>2, <2>1, SoundHas
  <2>3. e \notin M => A[e][c] = K[e][c].authority
    BY <1>2, <2>1 DEF SoundAt, Exact
  <2>4. op.type = "authority_change" => op.authority \in AuthorityFollows[K[e][c].authority]
    BY TellsAuthority
  <2>. QED  BY <2>2, <2>3, <2>4 DEF Found
<1>. QED  BY <1>1, <1>3, <1>4

(* After a gain.                                                           *)
LEMMA GainFound ==
  ASSUME NEW op \in ViewOps, NEW E, NEW A, NEW K \in Worlds, NEW D, NEW M,
         MakesSense(op, K), ~Reversed(op), Sound(E, A, Told(op, K), D, M),
         op.entity \notin D
  PROVE  Found(op, E, A, M)
<1>. DEFINE e == op.entity
            c == op.component
            L == Told(op, K)
<1>1. \/ op.type = "add_entity"
      \/ op.type \in { "add_component", "component_update" }
      \/ op.type = "authority_change" /\ op.authority = "kAuthoritative"
  BY OpFields DEF Reversed
<1>2. SoundAt(E, A, L, D, M, e) /\ e \notin D
  BY OpFields DEF Sound
<1>3. CASE op.type = "add_entity"
  <2>1. e \in DOMAIN L
    BY <1>3, TellsEntity DEF IsPut
  <2>. HIDE DEF L
  <2>2. e \in DOMAIN E
    BY <1>2, <2>1, SoundHas
  <2>. QED  BY <1>3, <2>2 DEF Found, ComponentTypes
<1>4. CASE op.type \in { "add_component", "component_update" }
  <2>1. e \in DOMAIN L /\ c \in DOMAIN L[e]
    <3>1. PICK v : IsPutIn(L, K, e, c, v)
      BY <1>4, TellsAddition, TellsUpdate
    <3>. QED  BY <3>1 DEF IsPutIn
  <2>. HIDE DEF L
  <2>2. e \in DOMAIN E /\ c \in DOMAIN E[e]
    BY <1>2, <2>1, SoundHas
  <2>. QED  BY <1>4, <2>2 DEF Found
<1>5. CASE op.type = "authority_change" /\ op.authority = "kAuthoritative"
  <2>1. PICK v : v.authority = op.authority /\ IsPutIn(L, K, e, c, v)
    <3>1. [ data |-> K[e][c].data, authority |-> op.authority ].authority = op.authority
      OBVIOUS
    <3>. QED  BY <1>5, <3>1, TellsAuthority
  <2>2. e \in DOMAIN L /\ c \in DOMAIN L[e] /\ L[e][c].authority = "kAuthoritative"
    BY <1>5, <2>1 DEF IsPutIn
  <2>. HIDE DEF L
  <2>3. e \in DOMAIN E /\ e \in DOMAIN A /\ c \in DOMAIN E[e] /\ c \in DOMAIN A[e]
    BY <1>2, <2>2, SoundHas
  <2>4. A[e][c] = "kAuthoritative"
    BY <1>2, <2>2 DEF SoundAt, Covers
  <2>. QED  BY <1>5, <2>3, <2>4 DEF Found
<1>. QED  BY <1>1, <1>3, <1>4, <1>5

-----------------------------------------------------------------------------
(* The results.                                                            *)

(* The invariant holds in every reachable state when operations are not    *)
(* processed by callbacks: the View is sound, entity by entity, for what   *)
(* the stream says, given of which entities operations were dropped and of *)
(* which it missed losses.                                                 *)
THEOREM ViewInductive == ASSUME MaxDepth <= 1 PROVE ViewSpec => []ViewIInv
<1>1. ViewInit => ViewIInv
  BY ViewInitIInv
<1>2. ViewIInv /\ [ViewNext]_allVars => ViewIInv'
  BY ViewNextIInv
<1>. QED  BY <1>1, <1>2, PTL DEF ViewSpec

(* Before, between and within passes the View is sound, but for an         *)
(* operation whose callbacks have not all run.                             *)
LEMMA AlwaysSound ==
  ASSUME ViewIInv
  PROVE  \E K \in Worlds : SoundFor(K)
BY DEF ViewIInv, Knowledge, Midway, MapsTyped

(* The types follow from the invariant.                                    *)
LEMMA TypesFollow == ViewIInv => ViewTypeOK
<1>. SUFFICES ASSUME ViewIInv PROVE ViewTypeOK
  OBVIOUS
<1>. DEFINE M == Maps(Comps, Values)
            N == Maps(Comps, AuthorityStates)
<1>1. Entities \in Maps(EntityIds, M) /\ ComponentAuthority \in Maps(EntityIds, N)
  BY DEF ViewIInv, MapsTyped, EntityMaps, AuthorityMaps
<1>. HIDE DEF M, N
<1>2. /\ DOMAIN Entities \subseteq EntityIds /\ \A e \in DOMAIN Entities : Entities[e] \in M
      /\ DOMAIN ComponentAuthority \subseteq EntityIds
      /\ \A e \in DOMAIN ComponentAuthority : ComponentAuthority[e] \in N
  BY <1>1, MapsDef
<1>3. /\ M = UNION { [ cs -> Values ] : cs \in SUBSET Range(ComponentList) }
      /\ N = UNION { [ cs -> AuthorityStates ] : cs \in SUBSET Range(ComponentList) }
  BY Zenon DEF M, N, Maps, Comps
<1>4. TypeOK
  BY DEF ViewIInv, IInv
<1>. QED  BY <1>2, <1>3, <1>4, Zenon DEF ViewTypeOK

(* In callbacks too and after exceptions, every component the View has is  *)
(* in its map of authority; and that has nothing else, except of entities  *)
(* of which an exception dropped operations.                               *)
THEOREM MapsAlwaysAgree == ASSUME MaxDepth <= 1 PROVE ViewSpec => []MapsAgree
<1>1. ViewIInv => MapsAgree
  <2>. SUFFICES ASSUME ViewIInv PROVE MapsAgree
    OBVIOUS
  <2>1. ViewTypeOK
    BY TypesFollow
  <2>2. DOMAIN Entities \subseteq EntityIds /\ DOMAIN ComponentAuthority \subseteq EntityIds
    BY <2>1 DEF ViewTypeOK
  <2>3. PICK K \in Worlds : SoundFor(K)
    BY AlwaysSound
  <2>4. \A e \in EntityIds :
          /\ AuthorityKept(Entities, ComponentAuthority, e)
          /\ e \notin dropped => AuthorityBacked(Entities, ComponentAuthority, e)
    BY <2>3 DEF SoundFor, Sound, SoundAt
  <2>. QED  BY <2>1, <2>2, <2>4 DEF AuthorityKept, AuthorityBacked, MapsAgree
<1>. QED  BY <1>1, ViewInductive, PTL

(* The View misses what the worker gained only of entities of which an     *)
(* exception dropped operations, never for an exception that leaves the    *)
(* delivery of the gain.                                                   *)
THEOREM GainsAreKnown == ASSUME MaxDepth <= 1 PROVE ViewSpec => []NeverMissesAGain
<1>1. ViewIInv => NeverMissesAGain
  <2>. SUFFICES ASSUME ViewIInv, passes = << >> PROVE NeverMissesAGain
    BY DEF NeverMissesAGain
  <2>1. known \in Worlds /\ SoundFor(known)
    BY DEF ViewIInv, MapsTyped, Knowledge
  <2>2. DOMAIN known \subseteq EntityIds
    BY <2>1, MapsDef DEF Worlds
  <2>3. \A e \in DOMAIN known \ dropped :
          /\ AuthorityKept(Entities, ComponentAuthority, e)
          /\ Covers(Entities, ComponentAuthority, known, e)
    BY <2>1, <2>2 DEF SoundFor, Sound, SoundAt
  <2>. QED  BY <2>3 DEF AuthorityKept, Covers, NeverMissesAGain, GetAuthority
<1>. QED  BY <1>1, ViewInductive, PTL

(* Between lists the View is what the operations say, except of entities   *)
(* that an exception kept something of from it: an operation that was      *)
(* dropped, or a loss delivered only to others.                            *)
THEOREM WorldIsKnown == ASSUME MaxDepth <= 1 PROVE ViewSpec => []KnowsTheWorld
<1>1. ViewIInv => KnowsTheWorld
  <2>. SUFFICES ASSUME ViewIInv, passes = << >>, NEW e \in EntityIds \ (dropped \cup abandoned)
                PROVE  /\ e \in DOMAIN Entities <=> e \in DOMAIN known
                       /\ e \in DOMAIN ComponentAuthority <=> e \in DOMAIN known
                       /\ e \in DOMAIN known =>
                            /\ Entities[e] = [ c \in DOMAIN known[e] |-> known[e][c].data ]
                            /\ ComponentAuthority[e] =
                                 [ c \in DOMAIN known[e] |-> known[e][c].authority ]
    BY DEF KnowsTheWorld
  <2>1. /\ AuthorityKept(Entities, ComponentAuthority, e)
        /\ AuthorityBacked(Entities, ComponentAuthority, e)
        /\ Exact(Entities, ComponentAuthority, known, e)
    BY DEF ViewIInv, Knowledge, SoundFor, Sound, SoundAt
  <2>2. /\ e \in DOMAIN Entities <=> e \in DOMAIN known
        /\ e \in DOMAIN ComponentAuthority <=> e \in DOMAIN known
    BY <2>1 DEF AuthorityKept, AuthorityBacked, Exact
  <2>3. ASSUME e \in DOMAIN known
        PROVE  /\ Entities[e] = [ c \in DOMAIN known[e] |-> known[e][c].data ]
               /\ ComponentAuthority[e] = [ c \in DOMAIN known[e] |-> known[e][c].authority ]
    <3>1. /\ Entities \in EntityMaps /\ ComponentAuthority \in AuthorityMaps
      BY DEF ViewIInv, MapsTyped
    <3>2. IsMap(Entities[e]) /\ IsMap(ComponentAuthority[e])
      BY <2>2, <2>3, <3>1, MapsAreMaps DEF EntityMaps, AuthorityMaps
    <3>3. /\ DOMAIN Entities[e] = DOMAIN known[e]
          /\ DOMAIN ComponentAuthority[e] = DOMAIN known[e]
          /\ \A c \in DOMAIN known[e] :
               /\ Entities[e][c] = known[e][c].data
               /\ ComponentAuthority[e][c] = known[e][c].authority
      BY <2>1, <2>2, <2>3 DEF AuthorityKept, AuthorityBacked, Exact
    <3>. QED  BY <3>2, <3>3 DEF IsMap
  <2>. QED  BY <2>2, <2>3
<1>. QED  BY <1>1, ViewInductive, PTL

(* A callback of the user's finds in the View what its operation is about, *)
(* unless an exception dropped operations of that entity; what it finds of *)
(* authority is also right unless a loss of the entity was missed.         *)
THEOREM SubjectIsFound == ASSUME MaxDepth <= 1 PROVE ViewSpec => []CallbacksFindTheirSubject
<1>1. ViewIInv => CallbacksFindTheirSubject
  <2>. SUFFICES ASSUME ViewIInv, passes # << >>, UserRuns, Top.op.entity \notin dropped
                PROVE  CallbacksFindTheirSubject
    BY DEF CallbacksFindTheirSubject
  <2>. DEFINE op == Top.op
  <2>1. Top = passes[1] /\ Top.at \notin ViewKeys /\ op \in Ops
    BY OnlyPass, PassOf DEF ViewIInv, UserRuns
  <2>2. PICK D, M, E, A :
          D = dropped /\ M = abandoned /\ E = Entities /\ A = ComponentAuthority
    BY Zenon
  <2>3. PICK K \in Worlds :
          /\ MakesSense(op, K)
          /\ known = Told(op, K)
          /\ Reversed(op) => Sound(E, A, K, D, M)
          /\ ~Reversed(op) => Sound(E, A, known, D, M)
    BY <2>1, <2>2 DEF ViewIInv, Knowledge, Midway, Pending, SoundFor
  <2>4. op \in ViewOps /\ op.entity \notin D
    BY <2>1, <2>2, ViewAssumption
  <2>. HIDE DEF op
  <2>5. Found(op, E, A, M)
    BY <2>3, <2>4, LossFound, GainFound
  <2>. QED  BY <2>2, <2>5 DEF CallbacksFindTheirSubject, Found, GetAuthority, op
<1>. QED  BY <1>1, ViewInductive, PTL

=============================================================================
