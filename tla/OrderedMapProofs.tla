-------------------------- MODULE OrderedMapProofs --------------------------
(***************************************************************************)
(* Proofs about worker::Map, for any maps, keys, values and nodes.         *)
(***************************************************************************)
EXTENDS OrderedMap, FiniteSetTheorems, SequenceTheorems, WellFoundedInduction, TLAPS

-----------------------------------------------------------------------------
(* Lists of nodes.                                                         *)

Elems(s) == { s[i] : i \in 1 .. Len(s) }

NoRepeat(s) == \A i, j \in 1 .. Len(s) : s[i] = s[j] => i = j

LEMMA NodesAreElems ==
  /\ \A m : NodesOf(m) = Elems(values[m])
  /\ \A m : NodesOf(m)' = Elems(values'[m])
BY DEF NodesOf, Elems

(* Appending a new node.                                                   *)
LEMMA AppendElems ==
  ASSUME NEW s \in Seq(Nodes), NEW n \in Nodes
  PROVE  /\ Append(s, n) \in Seq(Nodes)
         /\ Elems(Append(s, n)) = Elems(s) \cup {n}
         /\ NoRepeat(s) /\ n \notin Elems(s) => NoRepeat(Append(s, n))
<1>1. /\ Append(s, n) \in Seq(Nodes)
      /\ Len(s) \in Nat
      /\ Len(Append(s, n)) = Len(s) + 1
      /\ \A i \in 1 .. Len(s) : Append(s, n)[i] = s[i]
      /\ Append(s, n)[Len(s) + 1] = n
  OBVIOUS
<1>2. Elems(Append(s, n)) = Elems(s) \cup {n}
  BY <1>1 DEF Elems
<1>3. ASSUME NoRepeat(s), n \notin Elems(s)
      PROVE  NoRepeat(Append(s, n))
  BY <1>1, <1>3 DEF NoRepeat, Elems
<1>. QED  BY <1>1, <1>2, <1>3

(* Taking a range out of the list.                                         *)
LEMMA WithoutElemsOf ==
  ASSUME NEW S, NEW s \in Seq(S), NoRepeat(s),
         NEW i \in 1 .. Len(s), NEW j \in (i + 1) .. (Len(s) + 1)
  PROVE  /\ Without(s, i, j) \in Seq(S)
         /\ Elems(Without(s, i, j)) = Elems(s) \ { s[p] : p \in i .. (j - 1) }
         /\ NoRepeat(Without(s, i, j))
<1>. DEFINE w == Without(s, i, j)
            d == j - i
<1>1. /\ Len(s) \in Nat /\ i \in Nat /\ j \in Nat /\ d \in Nat
      /\ 1 <= i /\ i < j /\ j <= Len(s) + 1 /\ Len(s) - d \in Nat
  OBVIOUS
<1>2. \A p \in 1 .. Len(s) : s[p] \in S
  OBVIOUS
<1>3. w = [ p \in 1 .. (Len(s) - d) |-> IF p < i THEN s[p] ELSE s[p + d] ]
  BY DEF Without
<1>4. w \in [ 1 .. (Len(s) - d) -> S ]
  BY <1>1, <1>2, <1>3
<1>5. w \in Seq(S) /\ Len(w) = Len(s) - d
  BY <1>1, <1>4
<1>6. \A p \in 1 .. Len(w) : w[p] = IF p < i THEN s[p] ELSE s[p + d]
  BY <1>3, <1>5
<1>. HIDE DEF w, d
<1>10. \A p \in 1 .. Len(w) :
         \E r \in 1 .. Len(s) : /\ w[p] = s[r] /\ r \notin i .. (j - 1)
                               /\ r = IF p < i THEN p ELSE p + d
  <2>. SUFFICES ASSUME NEW p \in 1 .. Len(w)
                PROVE  \E r \in 1 .. Len(s) : /\ w[p] = s[r] /\ r \notin i .. (j - 1)
                                              /\ r = IF p < i THEN p ELSE p + d
    OBVIOUS
  <2>1. CASE p < i
    <3>1. p \in 1 .. Len(s) /\ p \notin i .. (j - 1)
      BY <1>1, <2>1
    <3>. QED  BY <1>6, <2>1, <3>1
  <2>2. CASE ~ (p < i)
    <3>1. p + d \in 1 .. Len(s) /\ p + d \notin i .. (j - 1)
      BY <1>1, <1>5, <2>2 DEF d
    <3>. QED  BY <1>6, <2>2, <3>1
  <2>. QED  BY <2>1, <2>2
<1>7. NoRepeat(w)
  <2>. SUFFICES ASSUME NEW p \in 1 .. Len(w), NEW q \in 1 .. Len(w), w[p] = w[q]
                PROVE  p = q
    BY DEF NoRepeat
  <2>1. (IF p < i THEN p ELSE p + d) = (IF q < i THEN q ELSE q + d)
    BY <1>10 DEF NoRepeat
  <2>. QED  BY <1>1, <1>5, <2>1
<1>8. Elems(w) \subseteq Elems(s) \ { s[p] : p \in i .. (j - 1) }
  <2>. SUFFICES ASSUME NEW p \in 1 .. Len(w)
                PROVE  w[p] \in Elems(s) \ { s[q] : q \in i .. (j - 1) }
    BY DEF Elems
  <2>1. PICK r \in 1 .. Len(s) : w[p] = s[r] /\ r \notin i .. (j - 1)
    BY <1>10
  <2>2. \A q \in i .. (j - 1) : q \in 1 .. Len(s) /\ q # r
    BY <1>1, <2>1
  <2>. QED  BY <2>1, <2>2 DEF Elems, NoRepeat
<1>9. Elems(s) \ { s[p] : p \in i .. (j - 1) } \subseteq Elems(w)
  <2>. SUFFICES ASSUME NEW r \in 1 .. Len(s), r \notin i .. (j - 1)
                PROVE  s[r] \in Elems(w)
    BY DEF Elems
  <2>1. CASE r < i
    <3>1. r \in 1 .. Len(w)
      BY <1>1, <1>5, <2>1 DEF d
    <3>. QED  BY <1>6, <2>1, <3>1 DEF Elems
  <2>2. CASE r >= j
    <3>1. r - d \in 1 .. Len(w) /\ ~ (r - d < i) /\ (r - d) + d = r
      BY <1>1, <1>5, <2>2 DEF d
    <3>. QED  BY <1>6, <3>1 DEF Elems
  <2>. QED  BY <1>1, <2>1, <2>2
<1>. QED  BY <1>5, <1>7, <1>8, <1>9 DEF w

LEMMA WithoutElems ==
  ASSUME NEW s \in Seq(Nodes), NoRepeat(s),
         NEW i \in 1 .. Len(s), NEW j \in (i + 1) .. (Len(s) + 1)
  PROVE  /\ Without(s, i, j) \in Seq(Nodes)
         /\ Elems(Without(s, i, j)) = Elems(s) \ { s[p] : p \in i .. (j - 1) }
         /\ NoRepeat(Without(s, i, j))
BY WithoutElemsOf

-----------------------------------------------------------------------------
(* The invariants of the runs are inductive together.                      *)

IInv == MapTypeOK /\ LookupExact /\ NodesOwned /\ IteratorValid

LEMMA InitInvariant == Init => IInv
BY MapAssumption, NodesAreElems
   DEF Init, IInv, MapTypeOK, LookupExact, NodesOwned, IteratorValid, Elems

(* The same facts, in terms of the sets of nodes.                          *)
LEMMA OwnedMeans ==
  ASSUME MapTypeOK
  PROVE  NodesOwned <=>
           /\ \A m \in Maps : NoRepeat(values[m])
           /\ \A m, o \in Maps : m # o => Elems(values[m]) \cap Elems(values[o]) = {}
           /\ \A n \in Nodes : heap[n] # None <=> \E m \in Maps : n \in Elems(values[m])
<1>1. (\A m, o \in Maps : \A i \in 1 .. Len(values[m]), j \in 1 .. Len(values[o]) :
        values[m][i] = values[o][j] => m = o /\ i = j)
      => \A m, o \in Maps : m # o => Elems(values[m]) \cap Elems(values[o]) = {}
  BY DEF Elems
<1>2. ASSUME \A m \in Maps : NoRepeat(values[m]),
             \A m, o \in Maps : m # o => Elems(values[m]) \cap Elems(values[o]) = {}
      PROVE  \A m, o \in Maps : \A i \in 1 .. Len(values[m]), j \in 1 .. Len(values[o]) :
               values[m][i] = values[o][j] => m = o /\ i = j
  BY <1>2 DEF Elems, NoRepeat
<1>3. (\A m, o \in Maps : \A i \in 1 .. Len(values[m]), j \in 1 .. Len(values[o]) :
        values[m][i] = values[o][j] => m = o /\ i = j)
      => \A m \in Maps : NoRepeat(values[m])
  BY DEF NoRepeat
<1>4. (\A n \in Nodes : heap[n] # None <=> \E m \in Maps : n \in NodesOf(m))
      <=> \A n \in Nodes : heap[n] # None <=> \E m \in Maps : n \in Elems(values[m])
  BY NodesAreElems
<1>. QED  BY <1>1, <1>2, <1>3, <1>4 DEF NodesOwned

LEMMA OwnedMeansNext ==
  ASSUME MapTypeOK'
  PROVE  NodesOwned' <=>
           /\ \A m \in Maps : NoRepeat(values'[m])
           /\ \A m, o \in Maps : m # o => Elems(values'[m]) \cap Elems(values'[o]) = {}
           /\ \A n \in Nodes : heap'[n] # None <=> \E m \in Maps : n \in Elems(values'[m])
<1>1. (\A m, o \in Maps : \A i \in 1 .. Len(values'[m]), j \in 1 .. Len(values'[o]) :
        values'[m][i] = values'[o][j] => m = o /\ i = j)
      => \A m, o \in Maps : m # o => Elems(values'[m]) \cap Elems(values'[o]) = {}
  BY DEF Elems
<1>2. ASSUME \A m \in Maps : NoRepeat(values'[m]),
             \A m, o \in Maps : m # o => Elems(values'[m]) \cap Elems(values'[o]) = {}
      PROVE  \A m, o \in Maps : \A i \in 1 .. Len(values'[m]), j \in 1 .. Len(values'[o]) :
               values'[m][i] = values'[o][j] => m = o /\ i = j
  BY <1>2 DEF Elems, NoRepeat
<1>3. (\A m, o \in Maps : \A i \in 1 .. Len(values'[m]), j \in 1 .. Len(values'[o]) :
        values'[m][i] = values'[o][j] => m = o /\ i = j)
      => \A m \in Maps : NoRepeat(values'[m])
  BY DEF NoRepeat
<1>4. (\A n \in Nodes : heap'[n] # None <=> \E m \in Maps : n \in NodesOf(m)')
      <=> \A n \in Nodes : heap'[n] # None <=> \E m \in Maps : n \in Elems(values'[m])
  BY NodesAreElems
<1>. QED  BY <1>1, <1>2, <1>3, <1>4 DEF NodesOwned

-----------------------------------------------------------------------------
(* Each action preserves the invariant.                                    *)

LEMMA EmplaceInvariant ==
  ASSUME IInv, NEW m \in Maps, NEW k \in Keys, NEW v \in Values, Emplace(m, k, v)
  PROVE  IInv'
<1>. USE MapAssumption
<1>1. PICK n \in Free :
        /\ lut[m][k] = None
        /\ heap' = [ heap EXCEPT ![n] = [ first |-> k, second |-> v ] ]
        /\ values' = [ values EXCEPT ![m] = Append(@, n) ]
        /\ lut' = [ lut EXCEPT ![m][k] = n ]
        /\ it' = [ map |-> m, key |-> k, node |-> n ]
  BY DEF Emplace
<1>2. n \in Nodes /\ heap[n] = None
  BY DEF Free
<1>3. MapTypeOK
  BY DEF IInv
<1>4. /\ \A o \in Maps : NoRepeat(values[o])
      /\ \A o, p \in Maps : o # p => Elems(values[o]) \cap Elems(values[p]) = {}
      /\ \A p \in Nodes : heap[p] # None <=> \E o \in Maps : p \in Elems(values[o])
  BY <1>3, OwnedMeans DEF IInv
<1>5. \A o \in Maps : values'[o] = IF o = m THEN Append(values[m], n) ELSE values[o]
  BY <1>1, <1>3 DEF MapTypeOK
<1>6. /\ Append(values[m], n) \in Seq(Nodes)
      /\ Elems(Append(values[m], n)) = Elems(values[m]) \cup {n}
      /\ NoRepeat(Append(values[m], n))
  <2>1. values[m] \in Seq(Nodes) /\ NoRepeat(values[m]) /\ n \notin Elems(values[m])
    BY <1>2, <1>3, <1>4 DEF MapTypeOK
  <2>. QED  BY <1>2, <2>1, AppendElems
<1>7. MapTypeOK'
  BY <1>1, <1>2, <1>3, <1>6 DEF MapTypeOK, Elements, Iterators
<1>8. NodesOwned'
  <2>1. \A p \in Nodes : heap'[p] # None <=> p = n \/ heap[p] # None
    BY <1>1, <1>2, <1>3 DEF MapTypeOK, Elements
  <2>. QED  BY <1>2, <1>4, <1>5, <1>6, <1>7, <2>1, OwnedMeansNext
<1>9. LookupExact'
  <2>. SUFFICES ASSUME NEW o \in Maps, NEW q \in Keys, NEW p \in Nodes
                PROVE  lut'[o][q] = p <=> p \in Elems(values'[o]) /\ heap'[p] # None /\ heap'[p].first = q
    BY NodesAreElems DEF LookupExact
  <2>1. lut[o][q] = p <=> p \in Elems(values[o]) /\ heap[p] # None /\ heap[p].first = q
    BY NodesAreElems DEF IInv, LookupExact
  <2>2. lut'[o][q] = IF o = m /\ q = k THEN n ELSE lut[o][q]
    BY <1>1, <1>3 DEF MapTypeOK
  <2>3. heap'[p] = IF p = n THEN [ first |-> k, second |-> v ] ELSE heap[p]
    BY <1>1, <1>3 DEF MapTypeOK
  <2>4. [ first |-> k, second |-> v ] # None
    BY DEF Elements
  <2>. QED  BY <1>1, <1>2, <1>4, <1>5, <1>6, <2>1, <2>2, <2>3, <2>4
<1>10. IteratorValid'
  BY <1>1, <1>3 DEF IteratorValid, MapTypeOK
<1>. QED  BY <1>7, <1>8, <1>9, <1>10 DEF IInv

(* What only reads the map, or writes a value in place.                    *)
LEMMA ReadInvariant ==
  ASSUME IInv, UNCHANGED << values, lut, heap >>,
         it' = None \/ /\ it' \in Iterators
                       /\ lut[it'.map][it'.key] = it'.node
  PROVE  IInv'
<1>1. MapTypeOK'
  BY DEF IInv, MapTypeOK
<1>2. IteratorValid'
  BY DEF IteratorValid
<1>3. LookupExact' /\ NodesOwned'
  BY DEF IInv, LookupExact, NodesOwned, NodesOf
<1>. QED  BY <1>1, <1>2, <1>3 DEF IInv

LEMMA FindInvariant ==
  ASSUME IInv, NEW m \in Maps, NEW k \in Keys, Find(m, k)
  PROVE  IInv'
<1>1. lut[m][k] \in Nodes
  BY DEF Find, IInv, MapTypeOK
<1>2. it' \in Iterators /\ lut[it'.map][it'.key] = it'.node
  BY <1>1 DEF Find, Iterators
<1>. QED  BY <1>2, ReadInvariant DEF Find

(* The iterators of a list are those of the table.                         *)
LEMMA PositionValid ==
  ASSUME IInv, NEW m \in Maps, NEW i \in 1 .. Len(values[m])
  PROVE  /\ values[m][i] \in Nodes
         /\ heap[values[m][i]] \in Elements
         /\ lut[m][heap[values[m][i]].first] = values[m][i]
<1>1. values[m][i] \in Nodes /\ values[m][i] \in NodesOf(m)
  BY DEF IInv, MapTypeOK, NodesOf
<1>2. heap[values[m][i]] # None
  BY <1>1 DEF IInv, NodesOwned
<1>3. heap[values[m][i]] \in Elements
  BY <1>1, <1>2 DEF IInv, MapTypeOK
<1>4. heap[values[m][i]].first \in Keys
  BY <1>3 DEF Elements
<1>. QED  BY <1>1, <1>2, <1>3, <1>4 DEF IInv, LookupExact

LEMMA BeginInvariant ==
  ASSUME IInv, NEW m \in Maps, Begin(m)
  PROVE  IInv'
<1>1. Len(values[m]) \in Nat
  BY DEF IInv, MapTypeOK
<1>2. CASE 1 > Len(values[m])
  BY <1>2, ReadInvariant DEF Begin, IteratorAt
<1>3. CASE 1 <= Len(values[m])
  <2>1. 1 \in 1 .. Len(values[m]) /\ ~ (1 > Len(values[m]))
    BY <1>1, <1>3
  <2>2. it' = [ map |-> m, key |-> heap[values[m][1]].first, node |-> values[m][1] ]
    BY <2>1 DEF Begin, IteratorAt
  <2>3. it' \in Iterators /\ lut[it'.map][it'.key] = it'.node
    BY <2>1, <2>2, PositionValid DEF Iterators, Elements
  <2>. QED  BY <2>3, ReadInvariant DEF Begin
<1>. QED  BY <1>1, <1>2, <1>3

LEMMA WriteInvariant ==
  ASSUME IInv, NEW v \in Values, WriteThrough(v)
  PROVE  IInv'
<1>. USE MapAssumption
<1>1. it \in Iterators /\ it.node \in Nodes /\ it.map \in Maps /\ it.key \in Keys
  BY DEF WriteThrough, IInv, MapTypeOK, Iterators
<1>2. it.node \in NodesOf(it.map) /\ heap[it.node] # None
  BY <1>1 DEF WriteThrough, IInv, IteratorValid, LookupExact
<1>3. heap[it.node] \in Elements
  BY <1>1, <1>2 DEF IInv, MapTypeOK
<1>4. /\ heap' \in [ Nodes -> Elements \cup {None} ]
      /\ \A n \in Nodes : heap'[n] # None <=> heap[n] # None
      /\ \A n \in Nodes : heap[n] # None => heap'[n].first = heap[n].first
  BY <1>1, <1>3 DEF WriteThrough, IInv, MapTypeOK, Elements
<1>5. \A m : NodesOf(m)' = NodesOf(m)
  BY DEF NodesOf, WriteThrough
<1>6. MapTypeOK'
  BY <1>4 DEF IInv, MapTypeOK, WriteThrough
<1>7. LookupExact'
  BY <1>4, <1>5 DEF IInv, LookupExact, WriteThrough
<1>8. NodesOwned'
  BY <1>4, <1>5 DEF IInv, NodesOwned, WriteThrough
<1>9. IteratorValid'
  BY DEF IInv, IteratorValid, WriteThrough
<1>. QED  BY <1>6, <1>7, <1>8, <1>9 DEF IInv

(* The nodes `gone` leave the list of m, and their keys its table.         *)
Removal(m, gone, s) ==
  /\ values' = [ values EXCEPT ![m] = s ]
  /\ lut' = [ lut EXCEPT ![m] =
                [ k \in Keys |-> IF k \in KeysOf(gone) THEN None ELSE @[k] ] ]
  /\ heap' = [ n \in Nodes |-> IF n \in gone THEN None ELSE heap[n] ]

LEMMA RemovalInvariant ==
  ASSUME IInv, NEW m \in Maps, NEW gone \in SUBSET Elems(values[m]),
         NEW s \in Seq(Nodes), NoRepeat(s), Elems(s) = Elems(values[m]) \ gone,
         Removal(m, gone, s), it' \in Iterators \cup {None}
  PROVE  MapTypeOK' /\ LookupExact' /\ NodesOwned'
<1>. USE MapAssumption
<1>1. MapTypeOK
  BY DEF IInv
<1>2. /\ \A o \in Maps : NoRepeat(values[o])
      /\ \A o, p \in Maps : o # p => Elems(values[o]) \cap Elems(values[p]) = {}
      /\ \A p \in Nodes : heap[p] # None <=> \E o \in Maps : p \in Elems(values[o])
  BY <1>1, OwnedMeans DEF IInv
<1>3. \A o \in Maps : values'[o] = IF o = m THEN s ELSE values[o]
  BY <1>1 DEF MapTypeOK, Removal
<1>4. \A o \in Maps, k \in Keys :
        lut'[o][k] = IF o = m /\ k \in KeysOf(gone) THEN None ELSE lut[o][k]
  BY <1>1 DEF MapTypeOK, Removal
<1>5. \A n \in Nodes : heap'[n] = IF n \in gone THEN None ELSE heap[n]
  BY DEF Removal
<1>6. MapTypeOK'
  <2>1. values' \in [ Maps -> Seq(Nodes) ] /\ heap' \in [ Nodes -> Elements \cup {None} ]
    BY <1>1 DEF MapTypeOK, Removal
  <2>2. lut' \in [ Maps -> [ Keys -> Nodes \cup {None} ] ]
    BY <1>1 DEF MapTypeOK, Removal
  <2>. QED  BY <2>1, <2>2 DEF MapTypeOK
<1>7. NodesOwned'
  <2>1. \A o \in Maps : NoRepeat(values'[o])
    BY <1>2, <1>3
  <2>2. \A o, p \in Maps : o # p => Elems(values'[o]) \cap Elems(values'[p]) = {}
    BY <1>2, <1>3
  <2>3. \A n \in Nodes : heap'[n] # None <=> \E o \in Maps : n \in Elems(values'[o])
    BY <1>2, <1>3, <1>5
  <2>. QED  BY <1>6, <2>1, <2>2, <2>3, OwnedMeansNext
<1>8. LookupExact'
  <2>. SUFFICES ASSUME NEW o \in Maps, NEW k \in Keys, NEW n \in Nodes
                PROVE  lut'[o][k] = n <=> n \in Elems(values'[o]) /\ heap'[n] # None /\ heap'[n].first = k
    BY NodesAreElems DEF LookupExact
  <2>1. \A p \in Nodes :
          lut[o][k] = p <=> p \in Elems(values[o]) /\ heap[p] # None /\ heap[p].first = k
    BY NodesAreElems DEF IInv, LookupExact
  <2>2. CASE o # m
    <3>1. n \in Elems(values[o]) => n \notin gone
      BY <1>2, <2>2
    <3>. QED  BY <1>3, <1>4, <1>5, <2>1, <2>2, <3>1
  <2>3. CASE o = m /\ k \in KeysOf(gone)
    <3>1. PICK p \in gone : heap[p].first = k
      BY <2>3 DEF KeysOf
    <3>2. p \in Nodes /\ p \in Elems(values[m])
      BY <1>1 DEF MapTypeOK, Elems
    <3>3. lut[m][k] = p
      BY <1>2, <2>1, <2>3, <3>1, <3>2
    <3>4. ~ (n \in Elems(s) /\ heap[n] # None /\ heap[n].first = k)
      BY <2>1, <2>3, <3>3
    <3>. QED  BY <1>3, <1>4, <1>5, <2>3, <3>4
  <2>4. CASE o = m /\ k \notin KeysOf(gone)
    <3>1. n \in gone => heap[n].first # k
      BY <2>4 DEF KeysOf
    <3>. QED  BY <1>3, <1>4, <1>5, <2>1, <2>4, <3>1
  <2>. QED  BY <2>2, <2>3, <2>4
<1>. QED  BY <1>6, <1>7, <1>8

LEMMA EraseInvariant ==
  ASSUME IInv, Erase
  PROVE  IInv'
<1>. DEFINE m == it.map
<1>1. it # None /\ it \in Iterators /\ m \in Maps
  BY DEF Erase, IInv, MapTypeOK, Iterators
<1>0. PICK i \in 1 .. Len(values[m]) : \E j \in (i + 1) .. (Len(values[m]) + 1) : EraseRange(i, j)
  BY DEF Erase
<1>2. PICK j \in (i + 1) .. (Len(values[m]) + 1) : EraseRange(i, j)
  BY <1>0
<1>. DEFINE gone == { values[m][p] : p \in i .. (j - 1) }
            s == Without(values[m], i, j)
<1>3. values[m] \in Seq(Nodes) /\ NoRepeat(values[m])
  BY <1>1, OwnedMeans DEF IInv, MapTypeOK
<1>4. Len(values[m]) \in Nat /\ i \in Nat /\ j \in Nat /\ i < j /\ j <= Len(values[m]) + 1
  BY <1>3
<1>5. gone \in SUBSET Elems(values[m])
  BY <1>4 DEF Elems
<1>6. s \in Seq(Nodes) /\ NoRepeat(s) /\ Elems(s) = Elems(values[m]) \ gone
  BY <1>2, <1>3, WithoutElems
<1>7. Removal(m, gone, s)
  BY <1>2 DEF EraseRange, Removal
<1>8. it' = IteratorAt(m, j)
  BY <1>2 DEF EraseRange
<1>9. CASE j > Len(values[m])
  <2>1. it' = None
    BY <1>8, <1>9 DEF IteratorAt
  <2>2. IteratorValid'
    BY <2>1 DEF IteratorValid
  <2>. QED  BY <1>1, <1>5, <1>6, <1>7, <2>1, <2>2, RemovalInvariant DEF IInv
<1>10. CASE ~ (j > Len(values[m]))
  <2>. DEFINE n == values[m][j]
  <2>1. j \in 1 .. Len(values[m])
    BY <1>4, <1>10
  <2>2. it' = [ map |-> m, key |-> heap[n].first, node |-> n ]
    BY <1>8, <1>10 DEF IteratorAt
  <2>3. n \in Nodes /\ heap[n] \in Elements /\ lut[m][heap[n].first] = n
    BY <1>1, <2>1, PositionValid
  <2>4. it' \in Iterators
    BY <1>1, <2>2, <2>3 DEF Iterators, Elements
  <2>5. n \notin gone
    BY <1>3, <1>4, <2>1 DEF NoRepeat
  <2>6. \A p \in gone : p \in Nodes /\ p \in NodesOf(m) /\ heap[p] \in Elements
    <3>. SUFFICES ASSUME NEW q \in i .. (j - 1)
                  PROVE  /\ values[m][q] \in Nodes /\ values[m][q] \in NodesOf(m)
                         /\ heap[values[m][q]] \in Elements
      OBVIOUS
    <3>1. q \in 1 .. Len(values[m])
      BY <1>4
    <3>. QED  BY <1>1, <3>1, PositionValid DEF NodesOf
  <2>7. heap[n].first \notin KeysOf(gone)
    <3>. SUFFICES ASSUME NEW p \in gone, heap[p].first = heap[n].first
                  PROVE  FALSE
      BY DEF KeysOf
    <3>1. heap[p].first \in Keys
      BY <2>6 DEF Elements
    <3>2. lut[m][heap[p].first] = p
      BY <1>1, <2>6, <3>1, MapAssumption DEF IInv, LookupExact
    <3>. QED  BY <2>3, <2>5, <3>2
  <2>8. lut'[m][heap[n].first] = lut[m][heap[n].first]
    BY <1>1, <1>7, <2>3, <2>7 DEF Removal, IInv, MapTypeOK, Elements
  <2>9. IteratorValid'
    BY <2>2, <2>3, <2>8 DEF IteratorValid
  <2>. QED  BY <1>1, <1>5, <1>6, <1>7, <2>4, <2>9, RemovalInvariant DEF IInv
<1>. QED  BY <1>9, <1>10

(* erase(key) takes the range of one node out of the list.                 *)
LEMMA EraseKeyIsRemoval ==
  ASSUME IInv, NEW m \in Maps, NEW k \in Keys, EraseKey(m, k)
  PROVE  \E i \in 1 .. Len(values[m]) :
           /\ values[m][i] = lut[m][k]
           /\ Removal(m, {lut[m][k]}, Without(values[m], i, i + 1))
<1>. DEFINE n == lut[m][k]
<1>1. n \in Nodes
  BY DEF EraseKey, IInv, MapTypeOK
<1>2. PICK i \in 1 .. Len(values[m]) :
        values[m][i] = n /\ values' = [ values EXCEPT ![m] = Without(@, i, i + 1) ]
  BY DEF EraseKey
<1>3. heap[n] # None /\ heap[n].first = k
  BY <1>1 DEF IInv, LookupExact
<1>4. KeysOf({n}) = {k}
  BY <1>3 DEF KeysOf
<1>5. lut' = [ lut EXCEPT ![m] =
                 [ q \in Keys |-> IF q \in KeysOf({n}) THEN None ELSE @[q] ] ]
  BY <1>4 DEF EraseKey, IInv, MapTypeOK
<1>6. heap' = [ p \in Nodes |-> IF p \in {n} THEN None ELSE heap[p] ]
  BY <1>1 DEF EraseKey, IInv, MapTypeOK
<1>. QED  BY <1>2, <1>5, <1>6 DEF Removal

LEMMA EraseKeyInvariant ==
  ASSUME IInv, NEW m \in Maps, NEW k \in Keys, EraseKey(m, k)
  PROVE  IInv'
<1>. DEFINE n == lut[m][k]
<1>1. PICK i \in 1 .. Len(values[m]) :
        values[m][i] = n /\ Removal(m, {n}, Without(values[m], i, i + 1))
  BY EraseKeyIsRemoval
<1>. DEFINE s == Without(values[m], i, i + 1)
<1>2. values[m] \in Seq(Nodes) /\ NoRepeat(values[m])
  BY OwnedMeans DEF IInv, MapTypeOK
<1>3. s \in Seq(Nodes) /\ NoRepeat(s) /\ Elems(s) = Elems(values[m]) \ {n}
  <2>1. i + 1 \in (i + 1) .. (Len(values[m]) + 1) /\ i .. ((i + 1) - 1) = {i}
    BY <1>2
  <2>2. { values[m][p] : p \in i .. ((i + 1) - 1) } = {n}
    BY <1>1, <2>1
  <2>. QED  BY <1>2, <2>1, <2>2, WithoutElems
<1>4. {n} \in SUBSET Elems(values[m])
  BY <1>1 DEF Elems
<1>5. it' \in Iterators \cup {None}
  BY DEF EraseKey, IInv, MapTypeOK
<1>6. IteratorValid'
  <2>. SUFFICES ASSUME it' # None
                PROVE  lut'[it.map][it.key] = it.node /\ it' = it
    BY DEF IteratorValid
  <2>1. it' = it /\ it # None /\ ~ (it.map = m /\ it.key = k)
    BY DEF EraseKey
  <2>2. it.map \in Maps /\ it.key \in Keys
    BY <2>1 DEF IInv, MapTypeOK, Iterators
  <2>3. lut'[it.map][it.key] = lut[it.map][it.key]
    BY <2>1, <2>2 DEF EraseKey, IInv, MapTypeOK
  <2>. QED  BY <2>1, <2>3 DEF IInv, IteratorValid
<1>. QED  BY <1>1, <1>3, <1>4, <1>5, <1>6, RemovalInvariant DEF IInv

LEMMA ClearInvariant ==
  ASSUME IInv, NEW m \in Maps, Clear(m)
  PROVE  IInv'
<1>. DEFINE gone == Elems(values[m])
<1>1. gone = NodesOf(m)
  BY NodesAreElems
<1>2. << >> \in Seq(Nodes) /\ NoRepeat(<< >>) /\ Elems(<< >>) = gone \ gone
  BY DEF NoRepeat, Elems
<1>3. \A k \in Keys : k \notin KeysOf(gone) => lut[m][k] = None
  <2>. SUFFICES ASSUME NEW k \in Keys, lut[m][k] # None
                PROVE  k \in KeysOf(gone)
    OBVIOUS
  <2>1. lut[m][k] \in Nodes
    BY DEF IInv, MapTypeOK
  <2>. QED  BY <1>1, <2>1 DEF IInv, LookupExact, KeysOf
<1>4. Removal(m, gone, << >>)
  <2>1. lut' = [ lut EXCEPT ![m] =
                   [ k \in Keys |-> IF k \in KeysOf(gone) THEN None ELSE @[k] ] ]
    BY <1>3 DEF Clear, IInv, MapTypeOK
  <2>. QED  BY <1>1, <2>1 DEF Removal, Clear
<1>5. it' \in Iterators \cup {None}
  BY DEF Clear, LetGo, IInv, MapTypeOK
<1>6. IteratorValid'
  BY DEF Clear, LetGo, IteratorValid, IInv, MapTypeOK, Iterators
<1>. QED  BY <1>2, <1>4, <1>5, <1>6, RemovalInvariant DEF IInv

LEMMA SwapInvariant ==
  ASSUME IInv, NEW m \in Maps, NEW o \in Maps, Swap(m, o)
  PROVE  IInv'
<1>. DEFINE other(p) == IF p = m THEN o ELSE IF p = o THEN m ELSE p
<1>1. m # o
  BY DEF Swap
<1>2. \A p \in Maps : /\ other(p) \in Maps /\ other(other(p)) = p
                      /\ values'[p] = values[other(p)] /\ lut'[p] = lut[other(p)]
  BY <1>1 DEF Swap, IInv, MapTypeOK
<1>3. MapTypeOK'
  <2>1. it' \in Iterators \cup {None}
    BY DEF Swap, IInv, MapTypeOK, Iterators
  <2>. QED  BY <2>1 DEF Swap, IInv, MapTypeOK
<1>4. \A p \in Maps : NodesOf(p)' = NodesOf(other(p))
  BY <1>2 DEF NodesOf
<1>5. heap' = heap
  BY DEF Swap
<1>. HIDE DEF other
<1>6. LookupExact'
  <2>. SUFFICES ASSUME NEW p \in Maps, NEW k \in Keys, NEW n \in Nodes
                PROVE  lut'[p][k] = n <=> n \in NodesOf(p)' /\ heap'[n] # None /\ heap'[n].first = k
    BY DEF LookupExact
  <2>. QED  BY <1>2, <1>4, <1>5 DEF IInv, LookupExact
<1>7. NodesOwned'
  <2>1. \A p, q \in Maps : \A i \in 1 .. Len(values'[p]), j \in 1 .. Len(values'[q]) :
          values'[p][i] = values'[q][j] => p = q /\ i = j
    <3>. SUFFICES ASSUME NEW p \in Maps, NEW q \in Maps,
                         NEW i \in 1 .. Len(values[other(p)]), NEW j \in 1 .. Len(values[other(q)]),
                         values[other(p)][i] = values[other(q)][j]
                  PROVE  p = q /\ i = j
      BY <1>2
    <3>1. other(p) = other(q) /\ i = j
      BY <1>2 DEF IInv, NodesOwned
    <3>. QED  BY <1>2, <3>1
  <2>2. \A n \in Nodes : heap'[n] # None <=> \E p \in Maps : n \in NodesOf(p)'
    BY <1>2, <1>4, <1>5 DEF IInv, NodesOwned
  <2>. QED  BY <2>1, <2>2 DEF NodesOwned
<1>8. IteratorValid'
  <2>. SUFFICES ASSUME it' # None
                PROVE  lut'[it'.map][it'.key] = it'.node
    BY DEF IteratorValid
  <2>1. it # None /\ it' = [ it EXCEPT !.map = other(it.map) ]
    BY DEF Swap, other
  <2>2. it \in Iterators /\ it.map \in Maps
    BY <2>1 DEF IInv, MapTypeOK, Iterators
  <2>3. it'.map = other(it.map) /\ it'.key = it.key /\ it'.node = it.node
    BY <2>1, <2>2 DEF Iterators
  <2>4. lut'[other(it.map)] = lut[it.map]
    BY <1>2, <2>2
  <2>. QED  BY <2>1, <2>3, <2>4 DEF IInv, IteratorValid
<1>. QED  BY <1>3, <1>6, <1>7, <1>8 DEF IInv

LEMMA AssignInvariant ==
  ASSUME IInv, NEW m \in Maps, NEW o \in Maps, Assign(m, o)
  PROVE  IInv'
<1>. USE MapAssumption
<1>1. PICK clone \in [ NodesOf(o) -> Free \cup NodesOf(m) ] :
        IsInjective(clone) /\ CopyInto(m, o, clone)
  BY DEF Assign
<1>. DEFINE original(n) == CHOOSE p \in NodesOf(o) : clone[p] = n
            holder(k)   == CHOOSE p \in NodesOf(o) : heap[p].first = k
            s           == [ i \in 1 .. Len(values[o]) |-> clone[values[o][i]] ]
            made        == Range(clone)
<1>2. m # o /\ MapTypeOK
  BY DEF Assign, IInv
<1>3. /\ \A p \in Maps : NoRepeat(values[p])
      /\ \A p, q \in Maps : p # q => Elems(values[p]) \cap Elems(values[q]) = {}
      /\ \A n \in Nodes : heap[n] # None <=> \E p \in Maps : n \in Elems(values[p])
  BY <1>2, OwnedMeans DEF IInv
<1>4. NodesOf(o) \subseteq Nodes /\ NodesOf(m) \subseteq Nodes /\ Free \subseteq Nodes
  BY <1>2 DEF MapTypeOK, NodesOf, Free
<1>5. \A p \in NodesOf(o) : heap[p] \in Elements
  BY <1>2, <1>3, <1>4, NodesAreElems DEF MapTypeOK
<1>6. /\ made \subseteq Free \cup NodesOf(m) /\ made \subseteq Nodes
      /\ \A p \in NodesOf(o) : clone[p] \in made
      /\ \A n \in made : original(n) \in NodesOf(o) /\ clone[original(n)] = n
  BY <1>1, <1>4 DEF Range
<1>7. \A p, q \in NodesOf(o) : clone[p] = clone[q] => p = q
  BY <1>1 DEF IsInjective
<1>8. s \in Seq(Nodes) /\ NoRepeat(s) /\ Elems(s) = made
  <2>0. Len(values[o]) \in Nat
    BY <1>2 DEF MapTypeOK
  <2>1. Len(values[o]) \in Nat /\ \A i \in 1 .. Len(values[o]) : values[o][i] \in NodesOf(o)
    BY <2>0 DEF NodesOf
  <2>2. \A i \in 1 .. Len(values[o]) : clone[values[o][i]] \in Nodes
    BY <1>6, <2>1
  <2>3. s \in Seq(Nodes) /\ Len(s) = Len(values[o])
    BY <2>1, <2>2
  <2>4. NoRepeat(s)
    BY <1>3, <1>7, <2>1, <2>3 DEF NoRepeat
  <2>5. Elems(s) \subseteq made
    BY <1>6, <2>1, <2>3 DEF Elems
  <2>6. made \subseteq Elems(s)
    <3>. SUFFICES ASSUME NEW n \in made
                  PROVE  n \in Elems(s)
      OBVIOUS
    <3>1. PICK i \in 1 .. Len(values[o]) : values[o][i] = original(n)
      BY <1>6 DEF NodesOf
    <3>2. s[i] = n
      BY <1>6, <3>1
    <3>. QED  BY <2>3, <3>2 DEF Elems
  <2>. QED  BY <2>3, <2>4, <2>5, <2>6
<1>9. \A p \in Maps : values'[p] = IF p = m THEN s ELSE values[p]
  BY <1>1, <1>2 DEF CopyInto, MapTypeOK
<1>10. \A n \in Nodes : heap'[n] = IF n \in made THEN heap[original(n)]
                                  ELSE IF n \in NodesOf(m) THEN None ELSE heap[n]
  BY <1>1 DEF CopyInto
<1>11. \A p \in Maps, k \in Keys :
         lut'[p][k] = IF p # m THEN lut[p][k]
                      ELSE IF k \in KeysOf(NodesOf(o)) THEN clone[holder(k)] ELSE None
  BY <1>1, <1>2 DEF CopyInto, MapTypeOK
<1>12. \A k \in Keys : k \in KeysOf(NodesOf(o)) =>
         holder(k) \in NodesOf(o) /\ heap[holder(k)].first = k
  BY DEF KeysOf
<1>. HIDE DEF original, holder, s, made
<1>13. MapTypeOK'
  <2>1. values' \in [ Maps -> Seq(Nodes) ]
    BY <1>1, <1>2, <1>8 DEF CopyInto, MapTypeOK, s
  <2>2. \A k \in Keys : k \in KeysOf(NodesOf(o)) => clone[holder(k)] \in Nodes
    BY <1>6, <1>12
  <2>3. lut' \in [ Maps -> [ Keys -> Nodes \cup {None} ] ]
    BY <1>1, <1>2, <2>2 DEF CopyInto, MapTypeOK, holder
  <2>4. \A n \in Nodes : heap'[n] \in Elements \cup {None}
    BY <1>2, <1>5, <1>6, <1>10 DEF MapTypeOK
  <2>5. heap' \in [ Nodes -> Elements \cup {None} ]
    BY <1>1, <2>4 DEF CopyInto
  <2>6. it' \in Iterators \cup {None}
    BY <1>1, <1>2 DEF CopyInto, LetGo, MapTypeOK
  <2>. QED  BY <2>1, <2>3, <2>5, <2>6 DEF MapTypeOK
<1>14. \A p \in Maps : p # m => made \cap Elems(values[p]) = {}
  BY <1>3, <1>4, <1>6, NodesAreElems DEF Free
<1>15. \A n \in made : heap'[n] = heap[original(n)] /\ heap'[n] # None
  BY <1>5, <1>6, <1>10
<1>16. NodesOwned'
  <2>1. \A p \in Maps : NoRepeat(values'[p])
    BY <1>3, <1>8, <1>9
  <2>2. \A p, q \in Maps : p # q => Elems(values'[p]) \cap Elems(values'[q]) = {}
    BY <1>3, <1>8, <1>9, <1>14
  <2>3. ASSUME NEW n \in Nodes
        PROVE  heap'[n] # None <=> \E p \in Maps : n \in Elems(values'[p])
    <3>1. CASE n \in made
      BY <1>8, <1>9, <1>15, <3>1
    <3>2. CASE n \notin made /\ n \in NodesOf(m)
      BY <1>3, <1>8, <1>9, <1>10, <3>2, NodesAreElems
    <3>3. CASE n \notin made /\ n \notin NodesOf(m)
      BY <1>3, <1>8, <1>9, <1>10, <3>3, NodesAreElems
    <3>. QED  BY <3>1, <3>2, <3>3
  <2>. QED  BY <1>13, <2>1, <2>2, <2>3, OwnedMeansNext
<1>17. LookupExact'
  <2>. SUFFICES ASSUME NEW p \in Maps, NEW k \in Keys, NEW n \in Nodes
                PROVE  lut'[p][k] = n <=> n \in Elems(values'[p]) /\ heap'[n] # None /\ heap'[n].first = k
    BY NodesAreElems DEF LookupExact
  <2>1. \A q \in Nodes :
          lut[p][k] = q <=> q \in Elems(values[p]) /\ heap[q] # None /\ heap[q].first = k
    BY NodesAreElems DEF IInv, LookupExact
  <2>2. CASE p # m
    <3>1. n \in Elems(values[p]) => n \notin made /\ n \notin NodesOf(m)
      BY <1>3, <1>14, <2>2, NodesAreElems
    <3>2. lut'[p][k] = lut[p][k] /\ values'[p] = values[p]
      BY <1>9, <1>11, <2>2
    <3>. QED  BY <1>10, <2>1, <3>1, <3>2
  <2>3. CASE p = m
    <3>1. \A q \in NodesOf(o) : heap[q].first = k => lut[o][k] = q
      BY <1>4, <1>5 DEF IInv, LookupExact
    <3>2. ASSUME lut'[m][k] = n
          PROVE  n \in made /\ heap'[n].first = k
      <4>1. k \in KeysOf(NodesOf(o)) /\ n = clone[holder(k)]
        BY <1>11, <3>2
      <4>2. n \in made /\ original(n) = holder(k)
        BY <1>6, <1>7, <1>12, <4>1
      <4>. QED  BY <1>12, <1>15, <4>1, <4>2
    <3>3. ASSUME n \in made, heap'[n].first = k
          PROVE  lut'[m][k] = n
      <4>1. original(n) \in NodesOf(o) /\ heap[original(n)].first = k /\ clone[original(n)] = n
        BY <1>6, <1>15, <3>3
      <4>2. k \in KeysOf(NodesOf(o))
        BY <4>1 DEF KeysOf
      <4>3. holder(k) = original(n)
        BY <1>12, <3>1, <4>1, <4>2
      <4>. QED  BY <1>11, <4>1, <4>2, <4>3
    <3>. QED  BY <1>8, <1>9, <1>15, <2>3, <3>2, <3>3
  <2>. QED  BY <2>2, <2>3
<1>18. IteratorValid'
  <2>. SUFFICES ASSUME it' # None
                PROVE  lut'[it'.map][it'.key] = it'.node
    BY DEF IteratorValid
  <2>1. it' = it /\ it # None /\ it.map # m
    BY <1>1 DEF CopyInto, LetGo
  <2>2. it.map \in Maps /\ it.key \in Keys
    BY <1>2, <2>1 DEF MapTypeOK, Iterators
  <2>. QED  BY <1>11, <2>1, <2>2 DEF IInv, IteratorValid
<1>. QED  BY <1>13, <1>16, <1>17, <1>18 DEF IInv

LEMMA NextInvariant == IInv /\ [Next]_vars => IInv'
<1>. SUFFICES ASSUME IInv, [Next]_vars
              PROVE  IInv'
  OBVIOUS
<1>1. ASSUME NEW m \in Maps, NEW k \in Keys, NEW v \in Values, Emplace(m, k, v)
      PROVE  IInv'
  BY <1>1, EmplaceInvariant
<1>2. ASSUME NEW m \in Maps, NEW k \in Keys, Find(m, k)
      PROVE  IInv'
  BY <1>2, FindInvariant
<1>3. ASSUME NEW m \in Maps, NEW k \in Keys, Subscript(m, k)
      PROVE  IInv'
  BY <1>1, <1>2, <1>3, MapAssumption DEF Subscript
<1>4. ASSUME NEW m \in Maps, NEW k \in Keys, EraseKey(m, k)
      PROVE  IInv'
  BY <1>4, EraseKeyInvariant
<1>5. ASSUME NEW v \in Values, WriteThrough(v)
      PROVE  IInv'
  BY <1>5, WriteInvariant
<1>6. CASE Erase
  BY <1>6, EraseInvariant
<1>7. ASSUME NEW m \in Maps, Begin(m) \/ Clear(m)
      PROVE  IInv'
  BY <1>7, BeginInvariant, ClearInvariant
<1>8. ASSUME NEW m \in Maps, NEW o \in Maps, Assign(m, o) \/ Swap(m, o)
      PROVE  IInv'
  BY <1>8, AssignInvariant, SwapInvariant
<1>9. CASE UNCHANGED vars
  BY <1>9 DEF vars, IInv, MapTypeOK, LookupExact, NodesOwned, NodesOf, IteratorValid
<1>. QED  BY <1>1, <1>2, <1>3, <1>4, <1>5, <1>6, <1>7, <1>8, <1>9 DEF Next

(* The list and the table stay one mapping, whatever is done to the maps.  *)
THEOREM MapsStayExact == Spec => []IInv
<1>. QED  BY InitInvariant, NextInvariant, PTL DEF Spec

(* The variables keep to their types.                                      *)
THEOREM MapTypeCorrect == Spec => []MapTypeOK
BY MapsStayExact, PTL DEF IInv

(* The table of a map has exactly the iterators to the nodes of its list.  *)
THEOREM LookupIsExact == Spec => []LookupExact
BY MapsStayExact, PTL DEF IInv

(* No list shares a node, and no node leaks.                               *)
THEOREM NodesAreOwned == Spec => []NodesOwned
BY MapsStayExact, PTL DEF IInv

(* What the user may use of iterators stays valid.                         *)
THEOREM IteratorsStayValid == Spec => []IteratorValid
BY MapsStayExact, PTL DEF IInv

-----------------------------------------------------------------------------
(* A map implements a sequence of pairs: each step of the maps is a step   *)
(* of the sequences that their lists hold.                                 *)

LEMMA ContentsType ==
  ASSUME IInv, NEW m \in Maps
  PROVE  /\ Contents[m] = [ i \in 1 .. Len(values[m]) |-> heap[values[m][i]] ]
         /\ Contents[m] \in Seq(Elements)
         /\ Len(Contents[m]) = Len(values[m])
         /\ Len(values[m]) \in Nat
<1>1. Len(values[m]) \in Nat
  BY DEF IInv, MapTypeOK
<1>2. Contents[m] = [ i \in 1 .. Len(values[m]) |-> heap[values[m][i]] ]
  BY DEF Contents
<1>3. \A i \in 1 .. Len(values[m]) : heap[values[m][i]] \in Elements
  BY PositionValid
<1>. QED  BY <1>1, <1>2, <1>3

LEMMA ContentsAt ==
  ASSUME IInv, NEW m \in Maps
  PROVE  /\ Len(Contents[m]) = Len(values[m])
         /\ \A i \in 1 .. Len(values[m]) : Contents[m][i] = heap[values[m][i]]
<1>1. Contents[m] = [ i \in 1 .. Len(values[m]) |-> heap[values[m][i]] ]
  BY DEF Contents
<1>2. Len(Contents[m]) = Len(values[m])
  BY ContentsType
<1>. QED  BY <1>1, <1>2

LEMMA AppendAsFunction ==
  ASSUME NEW c \in Seq(Elements), NEW e \in Elements,
         NEW f \in [ 1 .. (Len(c) + 1) -> Elements ],
         \A i \in 1 .. Len(c) : f[i] = c[i],
         f[Len(c) + 1] = e
  PROVE  f = Append(c, e)
<1>1. /\ Append(c, e) \in Seq(Elements)
      /\ Len(Append(c, e)) = Len(c) + 1
      /\ \A i \in 1 .. Len(c) : Append(c, e)[i] = c[i]
      /\ Append(c, e)[Len(c) + 1] = e
      /\ Len(c) \in Nat
      /\ \A i \in 1 .. Len(c) : c[i] \in Elements
  OBVIOUS
<1>2. \A i \in 1 .. (Len(c) + 1) : i \in 1 .. Len(c) \/ i = Len(c) + 1
  BY <1>1
<1>3. \A i \in 1 .. (Len(c) + 1) : f[i] = Append(c, e)[i] /\ f[i] \in Elements
  BY <1>1, <1>2
<1>4. f \in Seq(Elements) /\ Len(f) = Len(c) + 1
  BY <1>1, <1>3
<1>. QED  BY <1>1, <1>3, <1>4, SeqEqual

LEMMA InitContents == Init => Ordered!Init
<1>. SUFFICES ASSUME Init
              PROVE  \A m \in Maps : Contents[m] = << >>
  BY DEF Ordered!Init, Contents
<1>. QED  BY DEF Init, Contents

LEMMA EmplaceInserts ==
  ASSUME IInv, NEW m \in Maps, NEW k \in Keys, NEW v \in Values, Emplace(m, k, v)
  PROVE  Ordered!Insert(m, k, v)
<1>. USE MapAssumption
<1>1. PICK n \in Free :
        /\ lut[m][k] = None
        /\ heap' = [ heap EXCEPT ![n] = [ first |-> k, second |-> v ] ]
        /\ values' = [ values EXCEPT ![m] = Append(@, n) ]
  BY DEF Emplace
<1>2. n \in Nodes /\ heap[n] = None /\ heap' \in [ Nodes -> Elements \cup {None} ]
  BY <1>1 DEF Free, IInv, MapTypeOK, Elements
<1>3. \A o \in Maps : \A i \in 1 .. Len(values[o]) :
        values[o][i] \in Nodes /\ heap'[values[o][i]] = heap[values[o][i]]
  BY <1>1, <1>2, PositionValid DEF IInv, MapTypeOK
<1>4. ~ Ordered!Has(m, k)
  <2>. SUFFICES ASSUME NEW i \in 1 .. Len(values[m]), heap[values[m][i]].first = k
                PROVE  FALSE
    <3>1. /\ Len(Contents[m]) = Len(values[m])
          /\ \A i \in 1 .. Len(values[m]) : Contents[m][i] = heap[values[m][i]]
      BY ContentsAt
    <3>. QED  BY <3>1 DEF Ordered!Has
  <2>. QED  BY <1>1, PositionValid
<1>5. ASSUME NEW o \in Maps, o # m
      PROVE  Contents'[o] = Contents[o]
  <2>1. values'[o] = values[o]
    BY <1>1, <1>5 DEF IInv, MapTypeOK
  <2>. QED  BY <1>3, <2>1 DEF Contents
<1>6. Contents'[m] = Append(Contents[m], [ first |-> k, second |-> v ])
  <2>. DEFINE s == values[m]
  <2>1. values'[m] = Append(s, n) /\ s \in Seq(Nodes) /\ Len(s) \in Nat
    BY <1>1 DEF IInv, MapTypeOK
  <2>2. /\ Len(Append(s, n)) = Len(s) + 1
        /\ \A i \in 1 .. Len(s) : Append(s, n)[i] = s[i]
        /\ Append(s, n)[Len(s) + 1] = n
    BY <1>2, <2>1
  <2>3. Contents'[m] = [ i \in 1 .. (Len(s) + 1) |-> heap'[Append(s, n)[i]] ]
    BY <2>1, <2>2 DEF Contents
  <2>4. /\ Contents[m] \in Seq(Elements) /\ Len(Contents[m]) = Len(s)
        /\ \A i \in 1 .. Len(s) : Contents[m][i] = heap[s[i]]
    BY ContentsType, ContentsAt
  <2>5. \A i \in 1 .. Len(s) : Contents'[m][i] = Contents[m][i]
    <3>. SUFFICES ASSUME NEW i \in 1 .. Len(s)
                  PROVE  Contents'[m][i] = Contents[m][i]
      OBVIOUS
    <3>1. i \in 1 .. (Len(s) + 1)
      BY <2>1
    <3>2. heap'[s[i]] = heap[s[i]]
      BY <1>3
    <3>. QED  BY <2>2, <2>3, <2>4, <3>1, <3>2
  <2>6. Contents'[m][Len(s) + 1] = [ first |-> k, second |-> v ]
    <3>1. Len(s) + 1 \in 1 .. (Len(s) + 1)
      BY <2>1
    <3>2. heap'[n] = [ first |-> k, second |-> v ]
      BY <1>1, <1>2 DEF IInv, MapTypeOK
    <3>. QED  BY <2>2, <2>3, <3>1, <3>2
  <2>7. [ first |-> k, second |-> v ] \in Elements
    BY DEF Elements
  <2>. HIDE DEF s
  <2>9. Contents'[m][Len(Contents[m]) + 1] = [ first |-> k, second |-> v ]
    BY <2>4, <2>6
  <2>10. \A i \in 1 .. Len(Contents[m]) : Contents'[m][i] = Contents[m][i]
    BY <2>4, <2>5
  <2>11. \A i \in 1 .. (Len(s) + 1) : i \in 1 .. Len(s) \/ i = Len(s) + 1
    <3>1. Len(s) \in Nat
      BY <2>1 DEF s
    <3>. QED  BY <3>1
  <2>12. \A i \in 1 .. (Len(s) + 1) : Contents'[m][i] \in Elements
    BY <2>4, <2>5, <2>6, <2>7, <2>11
  <2>13. Contents'[m] \in [ 1 .. (Len(s) + 1) -> Elements ]
    BY <2>3, <2>12
  <2>14. Contents'[m] \in [ 1 .. (Len(Contents[m]) + 1) -> Elements ]
    BY <2>4, <2>13
  <2>. QED  BY <2>4, <2>7, <2>9, <2>10, <2>14, AppendAsFunction
<1>. QED  BY <1>4, <1>5, <1>6 DEF Ordered!Insert, Contents

LEMMA WriteOverwrites ==
  ASSUME IInv, NEW v \in Values, WriteThrough(v)
  PROVE  Ordered!Overwrite(it.map, it.key, v)
<1>1. it \in Iterators /\ it.node \in Nodes /\ it.map \in Maps /\ it.key \in Keys
  BY DEF WriteThrough, IInv, MapTypeOK, Iterators
<1>2. PICK i \in 1 .. Len(values[it.map]) : values[it.map][i] = it.node
  BY <1>1 DEF WriteThrough, IInv, IteratorValid, LookupExact, NodesOf
<1>3. heap[it.node] \in Elements /\ heap[it.node].first = it.key
  BY <1>1, <1>2, PositionValid DEF WriteThrough, IInv, IteratorValid, LookupExact
<1>4. \A n \in Nodes : heap'[n] = IF n = it.node THEN [ heap[n] EXCEPT !.second = v ] ELSE heap[n]
  BY <1>1 DEF WriteThrough, IInv, MapTypeOK
<1>5. \A o \in Maps : \A j \in 1 .. Len(values[o]) :
        values[o][j] \in Nodes /\ (values[o][j] = it.node => o = it.map /\ j = i)
  BY <1>1, <1>2, PositionValid DEF IInv, NodesOwned
<1>6. values' = values
  BY DEF WriteThrough
<1>7. ASSUME NEW o \in Maps, o # it.map
      PROVE  Contents'[o] = Contents[o]
  BY <1>4, <1>5, <1>6, <1>7 DEF Contents
<1>8. Contents'[it.map] = [ Contents[it.map] EXCEPT ![i].second = v ]
  BY <1>1, <1>2, <1>4, <1>5, <1>6 DEF Contents
<1>9. Contents' = [ Contents EXCEPT ![it.map] = [ @ EXCEPT ![i].second = v ] ]
  <2>1. Contents = [ o \in Maps |-> Contents[o] ] /\ Contents' = [ o \in Maps |-> Contents'[o] ]
    BY DEF Contents
  <2>. QED  BY <1>1, <1>7, <1>8, <2>1
<1>10. Contents[it.map][i].first = it.key /\ i \in 1 .. Len(Contents[it.map])
  BY <1>1, <1>2, <1>3, ContentsAt
<1>. QED  BY <1>9, <1>10 DEF Ordered!Overwrite

(* Taking nodes out of a list removes the pairs at their places.           *)
LEMMA RemovalRemoves ==
  ASSUME IInv, NEW m \in Maps, NEW i \in 1 .. Len(values[m]),
         NEW j \in (i + 1) .. (Len(values[m]) + 1),
         Removal(m, { values[m][p] : p \in i .. (j - 1) }, Without(values[m], i, j))
  PROVE  Ordered!Remove(m, i, j)
<1>. DEFINE gone == { values[m][p] : p \in i .. (j - 1) }
            d    == j - i
            rest == 1 .. (Len(values[m]) - d)
            from(p) == IF p < i THEN p ELSE p + d
<1>1. values[m] \in Seq(Nodes) /\ Len(values[m]) \in Nat
  BY DEF IInv, MapTypeOK
<1>2. /\ i \in Nat /\ j \in Nat /\ d \in Nat /\ i < j /\ 1 <= i
      /\ j <= Len(values[m]) + 1 /\ Len(values[m]) - d \in Nat
  BY <1>1
<1>3. /\ values'[m] = Without(values[m], i, j)
      /\ \A o \in Maps : o # m => values'[o] = values[o]
      /\ \A n \in Nodes : heap'[n] = IF n \in gone THEN None ELSE heap[n]
  BY DEF Removal, IInv, MapTypeOK
<1>4. \A o \in Maps : \A p \in 1 .. Len(values[o]) : values[o][p] \in Nodes
  BY PositionValid
<1>5. \A p, q \in 1 .. Len(values[m]) : values[m][p] = values[m][q] => p = q
  BY DEF IInv, NodesOwned
<1>6. ASSUME NEW o \in Maps, o # m
      PROVE  Contents'[o] = Contents[o]
  <2>1. \A p \in 1 .. Len(values[o]) : values[o][p] \notin gone
    <3>. SUFFICES ASSUME NEW p \in 1 .. Len(values[o]), NEW q \in i .. (j - 1),
                         values[o][p] = values[m][q]
                  PROVE  FALSE
      OBVIOUS
    <3>1. q \in 1 .. Len(values[m])
      BY <1>2
    <3>. QED  BY <1>6, <3>1 DEF IInv, NodesOwned
  <2>2. \A p \in 1 .. Len(values[o]) : heap'[values[o][p]] = heap[values[o][p]]
    BY <1>3, <1>4, <2>1
  <2>. QED  BY <1>3, <1>6, <2>2 DEF Contents
<1>7. \A p \in rest : from(p) \in 1 .. Len(values[m]) /\ from(p) \notin i .. (j - 1)
  BY <1>2
<1>8. \A p \in rest : Without(values[m], i, j)[p] = values[m][from(p)]
  BY DEF Without
<1>9. Len(Without(values[m], i, j)) = Len(values[m]) - d
  BY <1>2 DEF Without
<1>. HIDE DEF d, rest, from
<1>10. \A p \in rest : heap'[values[m][from(p)]] = heap[values[m][from(p)]]
  <2>. SUFFICES ASSUME NEW p \in rest
                PROVE  values[m][from(p)] \in Nodes /\ values[m][from(p)] \notin gone
    BY <1>3
  <2>1. values[m][from(p)] \in Nodes
    BY <1>4, <1>7
  <2>2. \A q \in i .. (j - 1) : q \in 1 .. Len(values[m]) /\ q # from(p)
    BY <1>2, <1>7
  <2>. QED  BY <1>5, <1>7, <2>1, <2>2
<1>11. Contents'[m] = [ p \in rest |-> Contents[m][from(p)] ]
  <2>1. Contents'[m] = [ p \in rest |-> heap'[Without(values[m], i, j)[p]] ]
    BY <1>3, <1>9 DEF Contents, rest
  <2>2. \A p \in rest : Contents[m][from(p)] = heap[values[m][from(p)]]
    BY <1>7, ContentsAt
  <2>3. \A p \in rest : heap'[Without(values[m], i, j)[p]] = Contents[m][from(p)]
    BY <1>8, <1>10, <2>2
  <2>. QED  BY <2>1, <2>3
<1>12. Len(Contents[m]) = Len(values[m])
  BY ContentsAt
<1>13. Contents'[m] = [ p \in 1 .. (Len(Contents[m]) - (j - i)) |->
                         IF p < i THEN Contents[m][p] ELSE Contents[m][p + (j - i)] ]
  BY <1>11, <1>12 DEF rest, from, d
<1>14. Contents' = [ Contents EXCEPT ![m] =
         [ p \in 1 .. (Len(@) - (j - i)) |-> IF p < i THEN @[p] ELSE @[p + (j - i)] ] ]
  <2>1. Contents = [ o \in Maps |-> Contents[o] ] /\ Contents' = [ o \in Maps |-> Contents'[o] ]
    BY DEF Contents
  <2>. QED  BY <1>6, <1>13, <2>1
<1>. QED  BY <1>2, <1>12, <1>14 DEF Ordered!Remove

LEMMA ClearRemoves ==
  ASSUME IInv, NEW m \in Maps, Clear(m)
  PROVE  Ordered!Remove(m, 1, Len(Contents[m]) + 1)
<1>1. Len(Contents[m]) = Len(values[m]) /\ Len(values[m]) \in Nat
  BY ContentsType
<1>2. ASSUME NEW o \in Maps, o # m
      PROVE  Contents'[o] = Contents[o]
  <2>1. values'[o] = values[o]
    BY <1>2 DEF Clear, IInv, MapTypeOK
  <2>2. \A p \in 1 .. Len(values[o]) : values[o][p] \in Nodes /\ values[o][p] \notin NodesOf(m)
    BY <1>2, PositionValid DEF IInv, NodesOwned, NodesOf
  <2>3. \A p \in 1 .. Len(values[o]) : heap'[values[o][p]] = heap[values[o][p]]
    BY <2>2 DEF Clear
  <2>. QED  BY <2>1, <2>3 DEF Contents
<1>3. Contents'[m] = << >>
  BY DEF Clear, Contents, IInv, MapTypeOK
<1>4. [ p \in 1 .. (Len(Contents[m]) - ((Len(Contents[m]) + 1) - 1)) |->
          IF p < 1 THEN Contents[m][p] ELSE Contents[m][p + ((Len(Contents[m]) + 1) - 1)] ] = << >>
  <2>1. Len(Contents[m]) - ((Len(Contents[m]) + 1) - 1) = 0
    BY <1>1
  <2>. QED  BY <2>1
<1>5. Contents' = [ Contents EXCEPT ![m] =
        [ p \in 1 .. (Len(@) - ((Len(Contents[m]) + 1) - 1)) |->
            IF p < 1 THEN @[p] ELSE @[p + ((Len(Contents[m]) + 1) - 1)] ] ]
  <2>1. Contents = [ o \in Maps |-> Contents[o] ] /\ Contents' = [ o \in Maps |-> Contents'[o] ]
    BY DEF Contents
  <2>. QED  BY <1>2, <1>3, <1>4, <2>1
<1>. QED  BY <1>1, <1>5 DEF Ordered!Remove

LEMMA AssignCopies ==
  ASSUME IInv, NEW m \in Maps, NEW o \in Maps, Assign(m, o)
  PROVE  Ordered!Copy(m, o)
<1>1. PICK clone \in [ NodesOf(o) -> Free \cup NodesOf(m) ] :
        IsInjective(clone) /\ CopyInto(m, o, clone)
  BY DEF Assign
<1>. DEFINE original(n) == CHOOSE p \in NodesOf(o) : clone[p] = n
<1>2. /\ values'[m] = [ i \in 1 .. Len(values[o]) |-> clone[values[o][i]] ]
      /\ \A p \in Maps : p # m => values'[p] = values[p]
      /\ \A n \in Nodes : heap'[n] = IF n \in Range(clone) THEN heap[original(n)]
                                     ELSE IF n \in NodesOf(m) THEN None ELSE heap[n]
  BY <1>1 DEF CopyInto, IInv, MapTypeOK
<1>3. \A n \in NodesOf(o) : /\ clone[n] \in Range(clone) /\ clone[n] \in Nodes
                            /\ original(clone[n]) = n
  <2>1. NodesOf(m) \subseteq Nodes
    BY PositionValid DEF NodesOf
  <2>. QED  BY <1>1, <2>1 DEF Range, IsInjective, Free
<1>4. Range(clone) \subseteq Free \cup NodesOf(m)
  BY <1>1 DEF Range
<1>. HIDE DEF original
<1>5. ASSUME NEW p \in Maps, p # m
      PROVE  Contents'[p] = Contents[p]
  <2>1. \A i \in 1 .. Len(values[p]) :
          values[p][i] \in Nodes /\ values[p][i] \notin NodesOf(m) /\ values[p][i] \notin Free
    BY <1>5, PositionValid, MapAssumption DEF IInv, NodesOwned, NodesOf, Free
  <2>2. \A i \in 1 .. Len(values[p]) : heap'[values[p][i]] = heap[values[p][i]]
    BY <1>2, <1>4, <2>1
  <2>. QED  BY <1>2, <1>5, <2>2 DEF Contents
<1>6. Contents'[m] = Contents[o]
  <2>1. \A i \in 1 .. Len(values[o]) : values[o][i] \in NodesOf(o)
    BY DEF NodesOf
  <2>2. \A i \in 1 .. Len(values[o]) : heap'[clone[values[o][i]]] = heap[values[o][i]]
    BY <1>2, <1>3, <2>1
  <2>3. Len(values[o]) \in Nat
    BY DEF IInv, MapTypeOK
  <2>4. Len(values'[m]) = Len(values[o])
    BY <1>2, <2>3
  <2>5. Contents'[m] = [ i \in 1 .. Len(values[o]) |-> heap'[values'[m][i]] ]
    BY <2>4 DEF Contents
  <2>6. \A i \in 1 .. Len(values[o]) : heap'[values'[m][i]] = heap[values[o][i]]
    BY <1>2, <2>2
  <2>. QED  BY <2>5, <2>6 DEF Contents
<1>7. Contents' = [ Contents EXCEPT ![m] = Contents[o] ]
  <2>1. Contents = [ p \in Maps |-> Contents[p] ] /\ Contents' = [ p \in Maps |-> Contents'[p] ]
    BY DEF Contents
  <2>. QED  BY <1>5, <1>6, <2>1
<1>. QED  BY <1>7 DEF Ordered!Copy

LEMMA SwapSwaps ==
  ASSUME IInv, NEW m \in Maps, NEW o \in Maps, Swap(m, o)
  PROVE  Ordered!Swap(m, o)
<1>1. /\ m # o /\ heap' = heap /\ values'[m] = values[o] /\ values'[o] = values[m]
      /\ \A p \in Maps : p # m /\ p # o => values'[p] = values[p]
  BY DEF Swap, IInv, MapTypeOK
<1>2. /\ Contents'[m] = Contents[o] /\ Contents'[o] = Contents[m]
      /\ \A p \in Maps : p # m /\ p # o => Contents'[p] = Contents[p]
  BY <1>1 DEF Contents
<1>3. Contents = [ p \in Maps |-> Contents[p] ] /\ Contents' = [ p \in Maps |-> Contents'[p] ]
  BY DEF Contents
<1>. QED  BY <1>1, <1>2, <1>3 DEF Ordered!Swap

LEMMA NextOrdered == IInv /\ [Next]_vars => [Ordered!Next]_Contents
<1>. SUFFICES ASSUME IInv, [Next]_vars
              PROVE  Ordered!Next \/ UNCHANGED Contents
  OBVIOUS
<1>1. ASSUME NEW m \in Maps, NEW k \in Keys, NEW v \in Values, Emplace(m, k, v)
      PROVE  Ordered!Next
  BY <1>1, EmplaceInserts DEF Ordered!Next
<1>2. ASSUME NEW m \in Maps, NEW k \in Keys, Find(m, k)
      PROVE  UNCHANGED Contents
  BY <1>2 DEF Find, Contents
<1>3. ASSUME NEW m \in Maps, NEW k \in Keys, Subscript(m, k)
      PROVE  Ordered!Next \/ UNCHANGED Contents
  BY <1>1, <1>2, <1>3, MapAssumption DEF Subscript
<1>4. ASSUME NEW m \in Maps, NEW k \in Keys, EraseKey(m, k)
      PROVE  Ordered!Next
  <2>1. PICK i \in 1 .. Len(values[m]) :
          /\ values[m][i] = lut[m][k]
          /\ Removal(m, {lut[m][k]}, Without(values[m], i, i + 1))
    BY <1>4, EraseKeyIsRemoval
  <2>2. Len(values[m]) \in Nat /\ Len(Contents[m]) = Len(values[m])
    BY ContentsType
  <2>3. i + 1 \in (i + 1) .. (Len(values[m]) + 1) /\ i .. ((i + 1) - 1) = {i}
    BY <2>2
  <2>4. { values[m][p] : p \in i .. ((i + 1) - 1) } = {lut[m][k]}
    BY <2>1, <2>3
  <2>5. Ordered!Remove(m, i, i + 1)
    BY <2>1, <2>3, <2>4, RemovalRemoves
  <2>6. i \in 1 .. (Len(Contents[m]) + 1) /\ i + 1 \in 1 .. (Len(Contents[m]) + 1)
    BY <2>2
  <2>. QED  BY <2>5, <2>6 DEF Ordered!Next
<1>5. ASSUME NEW v \in Values, WriteThrough(v)
      PROVE  Ordered!Next
  <2>1. it.map \in Maps /\ it.key \in Keys
    BY <1>5 DEF WriteThrough, IInv, MapTypeOK, Iterators
  <2>. QED  BY <1>5, <2>1, WriteOverwrites DEF Ordered!Next
<1>6. CASE Erase
  <2>. DEFINE m == it.map
  <2>1. m \in Maps
    BY <1>6 DEF Erase, IInv, MapTypeOK, Iterators
  <2>2. PICK i \in 1 .. Len(values[m]) :
          \E j \in (i + 1) .. (Len(values[m]) + 1) : EraseRange(i, j)
    BY <1>6 DEF Erase
  <2>3. PICK j \in (i + 1) .. (Len(values[m]) + 1) : EraseRange(i, j)
    BY <2>2
  <2>4. Removal(m, { values[m][p] : p \in i .. (j - 1) }, Without(values[m], i, j))
    BY <2>3 DEF EraseRange, Removal
  <2>. HIDE DEF m
  <2>5. Ordered!Remove(m, i, j)
    BY <2>1, <2>4, RemovalRemoves
  <2>6. Len(values[m]) \in Nat /\ Len(Contents[m]) = Len(values[m])
    BY <2>1, ContentsType
  <2>7. i \in 1 .. (Len(Contents[m]) + 1) /\ j \in 1 .. (Len(Contents[m]) + 1)
    BY <2>6
  <2>. QED  BY <2>1, <2>5, <2>7 DEF Ordered!Next
<1>7. ASSUME NEW m \in Maps, Begin(m)
      PROVE  UNCHANGED Contents
  BY <1>7 DEF Begin, Contents
<1>8. ASSUME NEW m \in Maps, Clear(m)
      PROVE  Ordered!Next
  <2>1. 1 \in 1 .. (Len(Contents[m]) + 1) /\ Len(Contents[m]) + 1 \in 1 .. (Len(Contents[m]) + 1)
    BY ContentsType
  <2>. QED  BY <1>8, <2>1, ClearRemoves DEF Ordered!Next
<1>9. ASSUME NEW m \in Maps, NEW o \in Maps, Assign(m, o) \/ Swap(m, o)
      PROVE  Ordered!Next
  BY <1>9, AssignCopies, SwapSwaps DEF Ordered!Next
<1>10. CASE UNCHANGED vars
  BY <1>10 DEF vars, Contents
<1>. QED  BY <1>1, <1>2, <1>3, <1>4, <1>5, <1>6, <1>7, <1>8, <1>9, <1>10 DEF Next

(* worker::Map implements a sequence of pairs in the order of insertion.   *)
THEOREM MapImplementsInsertionOrder == Spec => ImplementsInsertionOrder
<1>1. Spec => []IInv
  BY MapsStayExact
<1>. QED  BY <1>1, InitContents, NextOrdered, PTL DEF Spec, Ordered!Spec, ImplementsInsertionOrder

-----------------------------------------------------------------------------
(* The equality of maps.                                                   *)

(* operator== compares sizes and looks for the pairs of one map in the     *)
(* other; maps of one mapping pass.                                        *)
LEMMA SameMappingFound ==
  ASSUME IInv, NEW m \in Maps, NEW o \in Maps, Mapping(m) = Mapping(o),
         NEW i \in 1 .. Len(values[m])
  PROVE  LET pair == heap[values[m][i]]
         IN  lut[o][pair.first] # None /\ heap[lut[o][pair.first]].second = pair.second
<1>. DEFINE k == heap[values[m][i]].first
<1>1. k \in Keys /\ lut[m][k] = values[m][i] /\ values[m][i] # None
  BY PositionValid, MapAssumption DEF Elements
<1>2. k \in DOMAIN Mapping(m) /\ Mapping(m)[k] = heap[values[m][i]].second
  BY <1>1 DEF Mapping
<1>3. k \in DOMAIN Mapping(o) /\ Mapping(o)[k] = heap[values[m][i]].second
  BY <1>2
<1>4. lut[o][k] # None /\ Mapping(o)[k] = heap[lut[o][k]].second
  BY <1>3 DEF Mapping
<1>. QED  BY <1>3, <1>4

(* The list of a map is as long as its mapping has keys.                   *)
LEMMA LengthCountsKeys ==
  ASSUME IInv, NEW m \in Maps
  PROVE  /\ IsFiniteSet(DOMAIN Mapping(m))
         /\ Cardinality(DOMAIN Mapping(m)) = Len(values[m])
<1>. DEFINE S == 1 .. Len(values[m])
            T == DOMAIN Mapping(m)
            f == [ i \in S |-> heap[values[m][i]].first ]
<1>1. T = { k \in Keys : lut[m][k] # None }
  BY DEF Mapping
<1>2. \A i \in S : /\ heap[values[m][i]].first \in Keys
                   /\ lut[m][heap[values[m][i]].first] = values[m][i]
                   /\ values[m][i] # None
  BY PositionValid, MapAssumption DEF Elements
<1>. HIDE DEF T
<1>3. f \in [ S -> T ]
  BY <1>1, <1>2
<1>4. \A i, j \in S : f[i] = f[j] => i = j
  <2>. SUFFICES ASSUME NEW i \in S, NEW j \in S, f[i] = f[j]
                PROVE  i = j
    OBVIOUS
  <2>1. values[m][i] = values[m][j]
    BY <1>2
  <2>. QED  BY <2>1 DEF IInv, NodesOwned
<1>5. \A k \in T : \E i \in S : f[i] = k
  <2>. SUFFICES ASSUME NEW k \in Keys, lut[m][k] # None
                PROVE  \E i \in S : heap[values[m][i]].first = k
    BY <1>1
  <2>1. lut[m][k] \in Nodes
    BY DEF IInv, MapTypeOK
  <2>2. lut[m][k] \in NodesOf(m) /\ heap[lut[m][k]].first = k
    BY <2>1 DEF IInv, LookupExact
  <2>. QED  BY <2>2 DEF NodesOf
<1>. HIDE DEF f, S
<1>6. f \in Bijection(S, T)
  BY <1>3, <1>4, <1>5 DEF Bijection, Injection, Surjection, IsInjective
<1>7. ExistsBijection(S, T)
  BY <1>6 DEF ExistsBijection
<1>8. Len(values[m]) \in Nat
  BY DEF IInv, MapTypeOK
<1>9. IsFiniteSet(S) /\ Cardinality(S) = Len(values[m])
  BY <1>8, FS_Interval DEF S
<1>. QED  BY <1>7, <1>9, FS_Bijection DEF T

LEMMA EqualIsSameMapping ==
  ASSUME IInv, NEW m \in Maps, NEW o \in Maps
  PROVE  Equal(m, o) <=> Mapping(m) = Mapping(o)
<1>1. ASSUME Mapping(m) = Mapping(o)
      PROVE  Equal(m, o)
  <2>1. Len(values[m]) = Len(values[o])
    BY <1>1, LengthCountsKeys
  <2>2. \A i \in 1 .. Len(values[m]) :
          LET pair == heap[values[m][i]]
          IN  lut[o][pair.first] # None /\ heap[lut[o][pair.first]].second = pair.second
    BY <1>1, SameMappingFound
  <2>. QED  BY <2>1, <2>2 DEF Equal
<1>2. ASSUME Equal(m, o)
      PROVE  Mapping(m) = Mapping(o)
  <2>1. \A k \in DOMAIN Mapping(m) : k \in DOMAIN Mapping(o) /\ Mapping(m)[k] = Mapping(o)[k]
    <3>. SUFFICES ASSUME NEW k \in Keys, lut[m][k] # None
                  PROVE  lut[o][k] # None /\ heap[lut[o][k]].second = heap[lut[m][k]].second
      BY DEF Mapping
    <3>1. lut[m][k] \in Nodes
      BY DEF IInv, MapTypeOK
    <3>2. lut[m][k] \in NodesOf(m) /\ heap[lut[m][k]].first = k
      BY <3>1 DEF IInv, LookupExact
    <3>3. PICK i \in 1 .. Len(values[m]) : values[m][i] = lut[m][k]
      BY <3>2 DEF NodesOf
    <3>. QED  BY <1>2, <3>2, <3>3 DEF Equal
  <2>2. Cardinality(DOMAIN Mapping(m)) = Cardinality(DOMAIN Mapping(o))
    BY <1>2, LengthCountsKeys DEF Equal
  <2>3. DOMAIN Mapping(m) = DOMAIN Mapping(o)
    <3>1. DOMAIN Mapping(m) \in SUBSET DOMAIN Mapping(o)
      BY <2>1
    <3>2. IsFiniteSet(DOMAIN Mapping(o))
      BY LengthCountsKeys
    <3>. QED  BY <2>2, <3>1, <3>2, FS_Subset
  <2>4. /\ Mapping(m) = [ k \in DOMAIN Mapping(m) |-> Mapping(m)[k] ]
        /\ Mapping(o) = [ k \in DOMAIN Mapping(o) |-> Mapping(o)[k] ]
    BY DEF Mapping
  <2>. QED  BY <2>1, <2>3, <2>4
<1>. QED  BY <1>1, <1>2

(* operator== holds of two maps exactly when find() answers alike for them.*)
THEOREM EqualityIsOfMappings == Spec => []EqualityOfMappings
<1>1. IInv => EqualityOfMappings
  BY EqualIsSameMapping DEF EqualityOfMappings
<1>. QED  BY <1>1, MapsStayExact, PTL

-----------------------------------------------------------------------------
(* The hashes of maps.                                                     *)

(* Remainders: what the wrap-around of std::size_t takes off a sum may be  *)
(* taken off earlier.                                                      *)
LEMMA Distribute ==
  \A R \in Nat, q, p \in Int :
    /\ R * q \in Int /\ R * p \in Int
    /\ R * q - R * p = R * (q - p)
    /\ R * (q + p) = R * q + R * p
OBVIOUS

LEMMA OneRemainder ==
  ASSUME NEW R \in Nat \ {0}, NEW q \in Int, NEW p \in Int,
         NEW r \in 0 .. (R - 1), NEW s \in 0 .. (R - 1), R * q + r = R * p + s
  PROVE  r = s
<1>. DEFINE d == q - p
<1>1. d \in Int /\ R * d = s - r /\ R * d < R /\ 0 - R < R * d
  BY Distribute
<1>. HIDE DEF d
<1>2. R * d >= R \/ d <= 0
  BY <1>1
<1>3. R * d <= 0 - R \/ d >= 0
  BY <1>1
<1>4. d = 0
  BY <1>1, <1>2, <1>3
<1>. QED  BY <1>1, <1>4

LEMMA Divided ==
  ASSUME NEW R \in Nat \ {0}, NEW x \in Int
  PROVE  /\ x = R * (x \div R) + (x % R)
         /\ x % R \in 0 .. (R - 1)
         /\ x \div R \in Int
<1>1. x = R * (x \div R) + (x % R)
  OBVIOUS
<1>2. x % R \in 0 .. (R - 1)
  OBVIOUS
<1>3. x \div R \in Int
  OBVIOUS
<1>. QED  BY <1>1, <1>2, <1>3

LEMMA RemainderOfSum ==
  ASSUME NEW R \in Nat \ {0}, NEW a \in Nat, NEW b \in Nat
  PROVE  ((a % R) + b) % R = (a + b) % R
<1>. DEFINE q == a \div R  r == a % R
<1>1. a = R * q + r /\ r \in 0 .. (R - 1) /\ q \in Int
  BY Divided
<1>. HIDE DEF q, r
<1>2. r + b \in Int /\ a + b \in Int
  BY <1>1
<1>. DEFINE p == (r + b) \div R  x == (r + b) % R
            o == (a + b) \div R  y == (a + b) % R
<1>3. r + b = R * p + x /\ x \in 0 .. (R - 1) /\ p \in Int
  BY <1>2, Divided
<1>4. a + b = R * o + y /\ y \in 0 .. (R - 1) /\ o \in Int
  BY <1>2, Divided
<1>. HIDE DEF p, x, o, y
<1>5. R * (q + p) = R * q + R * p /\ R * q \in Int /\ R * p \in Int /\ R * o \in Int
  BY <1>1, <1>3, <1>4, Distribute
<1>6. R * (q + p) + x = R * o + y /\ q + p \in Int
  BY <1>1, <1>3, <1>4, <1>5
<1>7. x = y
  BY <1>3, <1>4, <1>6, OneRemainder
<1>. QED  BY <1>7 DEF x, y, r

(* The order of two summands does not matter.                              *)
LEMMA RemaindersCommute ==
  ASSUME NEW R \in Nat \ {0}, NEW a \in Nat, NEW b \in Nat, NEW c \in Nat
  PROVE  (((a + b) % R) + c) % R = (((a + c) % R) + b) % R
<1>1. (((a + b) % R) + c) % R = ((a + b) + c) % R
  <2>. DEFINE x == a + b
  <2>1. x \in Nat
    OBVIOUS
  <2>. HIDE DEF x
  <2>2. ((x % R) + c) % R = (x + c) % R
    BY <2>1, RemainderOfSum
  <2>. QED  BY <2>2 DEF x
<1>2. (((a + c) % R) + b) % R = ((a + c) + b) % R
  <2>. DEFINE x == a + c
  <2>1. x \in Nat
    OBVIOUS
  <2>. HIDE DEF x
  <2>2. ((x % R) + b) % R = (x + b) % R
    BY <2>1, RemainderOfSum
  <2>. QED  BY <2>2 DEF x
<1>3. (a + b) + c = (a + c) + b
  OBVIOUS
<1>. QED  BY <1>1, <1>2, <1>3, Zenon

LEMMA LeastNatural ==
  ASSUME NEW T \in SUBSET Nat, T # {}
  PROVE  \E x \in T : \A y \in T : x <= y
<1>. DEFINE R == OpToRel(<, Nat)
<1>1. \A x, y \in Nat : << y, x >> \in R <=> y < x
  BY DEF OpToRel
<1>. HIDE DEF R
<1>2. IsWellFoundedOn(R, Nat)
  BY NatLessThanWellFounded DEF R
<1>3. PICK x \in T : \A y \in T : ~ (<< y, x >> \in R)
  BY <1>2, WFMin
<1>4. x \in Nat /\ \A y \in T : y \in Nat
  OBVIOUS
<1>5. \A y \in T : ~ (y < x)
  BY <1>1, <1>3, <1>4, Zenon
<1>. QED  BY <1>4, <1>5

(* The hashes f of the beginnings of a list of pairs, when c says what each*)
(* pair adds.                                                              *)
Adding(n, c, f) ==
  /\ f[0] = 0
  /\ \A i \in 1 .. n : f[i] = (f[i - 1] + c[i]) % HashRange

Hashing(n, c, f) == f \in [ 0 .. n -> Nat ] /\ Adding(n, c, f)

LEMMA HashingStarts ==
  ASSUME NEW c
  PROVE  \E f : Hashing(0, c, f)
<1>. DEFINE f == [ i \in 0 .. 0 |-> 0 ]
<1>1. f \in [ 0 .. 0 -> Nat ] /\ f[0] = 0
  OBVIOUS
<1>. HIDE DEF f
<1>2. Hashing(0, c, f)
  BY <1>1 DEF Hashing, Adding
<1>. QED  BY <1>2

LEMMA HashingGoesOn ==
  ASSUME NEW n \in Nat, NEW c, c[n + 1] \in Nat, NEW f, Hashing(n, c, f)
  PROVE  \E g : Hashing(n + 1, c, g)
<1>. DEFINE d == (f[n] + c[n + 1]) % HashRange
            g == [ i \in 0 .. n + 1 |-> IF i <= n THEN f[i] ELSE d ]
<1>1. f \in [ 0 .. n -> Nat ] /\ f[0] = 0
      /\ \A i \in 1 .. n : f[i] = (f[i - 1] + c[i]) % HashRange
  BY DEF Hashing, Adding
<1>2. d \in Nat
  <2>1. f[n] + c[n + 1] \in Int
    BY <1>1
  <2>2. d \in 0 .. (HashRange - 1)
    BY <2>1, HashAssumption, Divided
  <2>. QED  BY <2>2, HashAssumption
<1>. HIDE DEF d
<1>3. g \in [ 0 .. n + 1 -> Nat ] /\ g[n + 1] = d /\ \A i \in 0 .. n : g[i] = f[i]
  BY <1>1, <1>2
<1>. HIDE DEF g
<1>4. ASSUME NEW i \in 1 .. n + 1
      PROVE  g[i] = (g[i - 1] + c[i]) % HashRange
  <2>1. CASE i \in 1 .. n
    BY <1>1, <1>3, <2>1
  <2>2. CASE i = n + 1
    BY <1>3, <2>2 DEF d
  <2>. QED  BY <2>1, <2>2
<1>5. Hashing(n + 1, c, g)
  BY <1>1, <1>3, <1>4 DEF Hashing, Adding
<1>. QED  BY <1>5

LEMMA HashingExists ==
  ASSUME NEW n \in Nat, NEW c, \A i \in 1 .. n : c[i] \in Nat
  PROVE  \E f : Hashing(n, c, f)
<1>. DEFINE T == { l \in 0 .. n : ~ \E f : Hashing(l, c, f) }
<1>1. SUFFICES ASSUME T # {}
               PROVE  FALSE
  OBVIOUS
<1>2. T \in SUBSET Nat
  OBVIOUS
<1>3. PICK l \in T : \A j \in T : l <= j
  BY <1>1, <1>2, LeastNatural
<1>4. l \in 0 .. n /\ ~ \E f : Hashing(l, c, f)
  OBVIOUS
<1>5. l # 0
  BY <1>4, HashingStarts
<1>6. l - 1 \in 0 .. n /\ l - 1 \in Nat /\ l - 1 \notin T /\ (l - 1) + 1 = l /\ c[l] \in Nat
  BY <1>3, <1>4, <1>5
<1>7. PICK f : Hashing(l - 1, c, f)
  BY <1>6
<1>. HIDE DEF T
<1>8. \E g : Hashing((l - 1) + 1, c, g)
  <2>. DEFINE k == l - 1
  <2>1. k \in Nat /\ c[k + 1] \in Nat /\ Hashing(k, c, f)
    BY <1>6, <1>7
  <2>. HIDE DEF k
  <2>2. \E g : Hashing(k + 1, c, g)
    BY <2>1, HashingGoesOn
  <2>. QED  BY <2>2 DEF k
<1>. QED  BY <1>4, <1>6, <1>8

(* What is added says what the hashes are.                                 *)
LEMMA AddingIsOne ==
  ASSUME NEW n \in Nat, NEW c, NEW f, NEW g, Adding(n, c, f), Adding(n, c, g)
  PROVE  f[n] = g[n]
<1>. DEFINE T == { i \in 0 .. n : f[i] # g[i] }
<1>1. SUFFICES ASSUME T # {}
               PROVE  FALSE
  OBVIOUS
<1>2. T \in SUBSET Nat
  OBVIOUS
<1>3. PICK i \in T : \A j \in T : i <= j
  BY <1>1, <1>2, LeastNatural
<1>4. i \in 0 .. n /\ f[i] # g[i]
  OBVIOUS
<1>5. i # 0
  BY <1>4 DEF Adding
<1>6. i \in 1 .. n /\ i - 1 \in 0 .. n
  BY <1>4, <1>5
<1>7. i - 1 \notin T
  BY <1>3, <1>6
<1>8. f[i - 1] = g[i - 1]
  BY <1>6, <1>7
<1>9. f[i] = (f[i - 1] + c[i]) % HashRange /\ g[i] = (g[i - 1] + c[i]) % HashRange
  BY <1>6 DEF Adding
<1>. QED  BY <1>4, <1>8, <1>9

(* The list d is the list c without its k-th pair.                         *)
TakenOut(n, k, c, d) ==
  /\ \A i \in 1 .. n + 1 : c[i] \in Nat
  /\ \A i \in 1 .. n : d[i] = IF i < k THEN c[i] ELSE c[i + 1]

(* A pair anywhere in the list adds to the hash what it would at the end.  *)
LEMMA HashWithout ==
  ASSUME NEW n \in Nat, NEW k \in 1 .. n + 1, NEW c, NEW d, NEW f, NEW g,
         TakenOut(n, k, c, d), Hashing(n + 1, c, f), Hashing(n, d, g)
  PROVE  f[n + 1] = (g[n] + c[k]) % HashRange
<1>. DEFINE T == { i \in k .. n + 1 : f[i] # (g[i - 1] + c[k]) % HashRange }
<1>1. SUFFICES ASSUME T # {}
               PROVE  FALSE
  OBVIOUS
<1>2. T \in SUBSET Nat
  OBVIOUS
<1>3. PICK i \in T : \A j \in T : i <= j
  BY <1>1, <1>2, LeastNatural
<1>4. i \in k .. n + 1 /\ f[i] # (g[i - 1] + c[k]) % HashRange
  OBVIOUS
<1>5. /\ \A j \in 0 .. n : g[j] \in Nat
      /\ f[0] = 0 /\ g[0] = 0
      /\ \A j \in 1 .. n + 1 : f[j] = (f[j - 1] + c[j]) % HashRange
      /\ \A j \in 1 .. n : g[j] = (g[j - 1] + d[j]) % HashRange
  BY DEF Hashing, Adding
<1>6. i # k
  <2>. DEFINE l == k - 1
  <2>1. l \in Nat /\ \A j \in 1 .. l : j \in 1 .. n + 1 /\ j \in 1 .. n /\ j < k
    OBVIOUS
  <2>2. /\ \A j \in 1 .. l : f[j] = (f[j - 1] + c[j]) % HashRange
        /\ \A j \in 1 .. l : g[j] = (g[j - 1] + d[j]) % HashRange
        /\ \A j \in 1 .. l : c[j] = d[j]
    BY <1>5, <2>1 DEF TakenOut
  <2>. HIDE DEF l
  <2>3. Adding(l, c, f) /\ Adding(l, c, g)
    BY <1>5, <2>2 DEF Adding
  <2>4. f[l] = g[l]
    BY <2>1, <2>3, AddingIsOne
  <2>5. f[k] = (g[k - 1] + c[k]) % HashRange
    BY <1>5, <2>4 DEF l
  <2>. QED  BY <1>4, <2>5
<1>7. i - 1 \in k .. n + 1 /\ i - 1 \in 1 .. n /\ i \in 1 .. n + 1 /\ i - 2 \in 0 .. n
      /\ (i - 1) + 1 = i /\ (i - 1) - 1 = i - 2
  BY <1>4, <1>6
<1>8. i - 1 \notin T
  BY <1>3, <1>7
<1>9. f[i - 1] = (g[i - 2] + c[k]) % HashRange
  BY <1>7, <1>8
<1>10. f[i] = (f[i - 1] + c[i]) % HashRange
  BY <1>5, <1>7
<1>11. g[i - 1] = (g[i - 2] + c[i]) % HashRange
  <2>1. d[i - 1] = c[i]
    BY <1>7 DEF TakenOut
  <2>. QED  BY <1>5, <1>7, <2>1
<1>12. (((g[i - 2] + c[k]) % HashRange) + c[i]) % HashRange
         = (((g[i - 2] + c[i]) % HashRange) + c[k]) % HashRange
  <2>1. g[i - 2] \in Nat /\ c[k] \in Nat /\ c[i] \in Nat
    BY <1>5, <1>7 DEF TakenOut
  <2>. QED  BY <2>1, HashAssumption, RemaindersCommute
<1>. QED  BY <1>4, <1>9, <1>10, <1>11, <1>12

(* r is s without its k-th element.                                        *)
OneLess(r, s, k) ==
  /\ Len(r) = Len(s) - 1 /\ NoRepeat(r) /\ Elems(r) = Elems(s) \ { s[k] }
  /\ \A p \in 1 .. Len(r) : r[p] = IF p < k THEN s[p] ELSE s[p + 1]

LEMMA WithoutOne ==
  ASSUME NEW S, NEW s \in Seq(S), NoRepeat(s), NEW k \in 1 .. Len(s)
  PROVE  \E r \in Seq(S) : OneLess(r, s, k)
<1>. DEFINE j == k + 1
<1>1. Len(s) \in Nat /\ k \in Nat /\ j \in (k + 1) .. (Len(s) + 1) /\ j - k = 1
  OBVIOUS
<1>2. { s[p] : p \in k .. (j - 1) } = { s[k] }
  BY <1>1
<1>. HIDE DEF j
<1>. DEFINE r == Without(s, k, j)
<1>3. /\ r \in Seq(S) /\ NoRepeat(r)
      /\ Elems(r) = Elems(s) \ { s[p] : p \in k .. (j - 1) }
  BY <1>1, WithoutElemsOf
<1>4. r = [ p \in 1 .. (Len(s) - 1) |-> IF p < k THEN s[p] ELSE s[p + 1] ]
  BY <1>1 DEF Without
<1>5. Len(r) = Len(s) - 1
  <2>1. DOMAIN r = 1 .. (Len(s) - 1)
    BY <1>4
  <2>. HIDE DEF r
  <2>. QED  BY <1>1, <1>3, <2>1
<1>6. \A p \in 1 .. Len(r) : r[p] = IF p < k THEN s[p] ELSE s[p + 1]
  BY <1>4, <1>5
<1>. QED  BY <1>2, <1>3, <1>5, <1>6 DEF OneLess

(* What the pairs of a list add, when each has the weight that w says.     *)
Weights(w, q) == [ i \in 1 .. Len(q) |-> w[q[i]] ]

(* One of two lists without repetitions is the other in another order.     *)
Reordered(n, q, p) ==
  /\ Len(q) = n /\ NoRepeat(q)
  /\ Len(p) = n /\ NoRepeat(p)
  /\ Elems(q) = Elems(p)

(* The hash of a list without repetitions depends on what is in it only.   *)
OrderIsFree(S, w, n) ==
  \A q, p \in Seq(S), f, g \in [ 0 .. n -> Nat ] :
    Reordered(n, q, p) /\ Hashing(n, Weights(w, q), f) /\ Hashing(n, Weights(w, p), g)
    => f[n] = g[n]

(* r is q without its k-th element, and h are its hashes.                  *)
Shorter(n, w, q, k, f, r, h) ==
  /\ Len(r) = n /\ NoRepeat(r) /\ Elems(r) = Elems(q) \ { q[k] }
  /\ Hashing(n, Weights(w, r), h)
  /\ f[n + 1] = (h[n] + w[q[k]]) % HashRange

LEMMA WeightsWithout ==
  ASSUME NEW S, NEW w \in [ S -> Nat ], NEW n \in Nat, NEW q \in Seq(S), Len(q) = n + 1,
         NoRepeat(q), NEW k \in 1 .. n + 1, NEW f, Hashing(n + 1, Weights(w, q), f)
  PROVE  \E r \in Seq(S), h \in [ 0 .. n -> Nat ] : Shorter(n, w, q, k, f, r, h)
<1>0. k \in 1 .. Len(q)
  OBVIOUS
<1>1. PICK r \in Seq(S) : OneLess(r, q, k)
  BY <1>0, WithoutOne
<1>2. Len(r) = n
  BY <1>1 DEF OneLess
<1>. DEFINE c == Weights(w, q)
            d == Weights(w, r)
<1>3. \A i \in 1 .. n + 1 : q[i] \in S /\ c[i] = w[q[i]] /\ c[i] \in Nat
  BY DEF Weights
<1>4. \A i \in 1 .. n : r[i] \in S /\ d[i] = w[r[i]] /\ d[i] \in Nat
  BY <1>2 DEF Weights
<1>. HIDE DEF c, d
<1>5. TakenOut(n, k, c, d)
  BY <1>1, <1>2, <1>3, <1>4 DEF TakenOut, OneLess
<1>6. PICK h : Hashing(n, d, h)
  BY <1>4, HashingExists
<1>7. Hashing(n + 1, c, f)
  BY DEF c
<1>8. f[n + 1] = (h[n] + c[k]) % HashRange
  BY <1>5, <1>6, <1>7, HashWithout
<1>9. h \in [ 0 .. n -> Nat ]
  BY <1>6 DEF Hashing
<1>10. Shorter(n, w, q, k, f, r, h)
  BY <1>1, <1>2, <1>3, <1>6, <1>8 DEF d, Shorter, OneLess
<1>. QED  BY <1>9, <1>10

LEMMA OrderIsFreeOnward ==
  ASSUME NEW S, NEW w \in [ S -> Nat ], NEW n \in Nat, OrderIsFree(S, w, n)
  PROVE  OrderIsFree(S, w, n + 1)
<1>1. ASSUME NEW q \in Seq(S), NEW p \in Seq(S), NEW f, NEW g, Reordered(n + 1, q, p),
             Hashing(n + 1, Weights(w, q), f), Hashing(n + 1, Weights(w, p), g)
      PROVE  f[n + 1] = g[n + 1]
  <2>1. /\ Len(q) = n + 1 /\ NoRepeat(q) /\ Len(p) = n + 1 /\ NoRepeat(p)
        /\ Elems(q) = Elems(p) /\ n + 1 \in 1 .. n + 1
    BY <1>1 DEF Reordered
  <2>2. q[n + 1] \in Elems(p)
    BY <2>1 DEF Elems
  <2>3. PICK k \in 1 .. n + 1 : p[k] = q[n + 1]
    BY <2>1, <2>2 DEF Elems
  <2>4. PICK q1 \in Seq(S), f1 \in [ 0 .. n -> Nat ] : Shorter(n, w, q, n + 1, f, q1, f1)
    BY <1>1, <2>1, WeightsWithout
  <2>5. PICK p1 \in Seq(S), g1 \in [ 0 .. n -> Nat ] : Shorter(n, w, p, k, g, p1, g1)
    BY <1>1, <2>1, WeightsWithout
  <2>6. /\ Reordered(n, q1, p1)
        /\ Hashing(n, Weights(w, q1), f1) /\ Hashing(n, Weights(w, p1), g1)
    BY <2>1, <2>3, <2>4, <2>5 DEF Shorter, Reordered
  <2>7. f1[n] = g1[n]
    BY <2>6 DEF OrderIsFree
  <2>8. f[n + 1] = (f1[n] + w[q[n + 1]]) % HashRange
    BY <2>4 DEF Shorter
  <2>9. g[n + 1] = (g1[n] + w[p[k]]) % HashRange
    BY <2>5 DEF Shorter
  <2>. QED  BY <2>3, <2>7, <2>8, <2>9
<1>. QED  BY <1>1 DEF OrderIsFree

LEMMA HashIgnoresOrder ==
  ASSUME NEW S, NEW w \in [ S -> Nat ], NEW n \in Nat
  PROVE  OrderIsFree(S, w, n)
<1>. DEFINE T == { l \in Nat : ~ OrderIsFree(S, w, l) }
<1>1. SUFFICES ASSUME T # {}
               PROVE  FALSE
  OBVIOUS
<1>2. T \in SUBSET Nat
  OBVIOUS
<1>3. PICK l \in T : \A j \in T : l <= j
  BY <1>1, <1>2, LeastNatural
<1>4. l \in Nat /\ ~ OrderIsFree(S, w, l)
  OBVIOUS
<1>5. l # 0
  <2>1. OrderIsFree(S, w, 0)
    BY DEF OrderIsFree, Hashing, Adding
  <2>. QED  BY <1>4, <2>1
<1>6. l - 1 \in Nat /\ l - 1 \notin T /\ (l - 1) + 1 = l
  BY <1>3, <1>4, <1>5
<1>7. OrderIsFree(S, w, l - 1)
  BY <1>6
<1>. HIDE DEF T
<1>8. OrderIsFree(S, w, (l - 1) + 1)
  <2>. DEFINE k == l - 1
  <2>1. k \in Nat /\ OrderIsFree(S, w, k)
    BY <1>6, <1>7
  <2>. HIDE DEF k
  <2>2. OrderIsFree(S, w, k + 1)
    BY <2>1, OrderIsFreeOnward
  <2>. QED  BY <2>2 DEF k
<1>. QED  BY <1>4, <1>6, <1>8

(* The pairs of a map, in the order of its list, and what they add.        *)
PairsOf(m) == [ i \in 1 .. Len(values[m]) |-> heap[values[m][i]] ]

PairHash == [ e \in Elements |-> HashOfPair(e) ]

LEMMA PairHashType == PairHash \in [ Elements -> Nat ]
<1>1. ASSUME NEW e \in Elements
      PROVE  HashOfPair(e) \in Nat
  <2>1. e.first \in Keys \cup Values /\ e.second \in Keys \cup Values
    BY DEF Elements
  <2>2. StdHash[e.first] \in Nat /\ StdHash[e.second] \in Nat
    BY <2>1, HashAssumption
  <2>. QED  BY <2>2 DEF HashOfPair
<1>. QED  BY <1>1 DEF PairHash

LEMMA PairsOfMap ==
  ASSUME IInv, NEW m \in Maps
  PROVE  /\ PairsOf(m) \in Seq(Elements) /\ Len(PairsOf(m)) = Len(values[m])
         /\ NoRepeat(PairsOf(m))
         /\ \A i \in 1 .. Len(values[m]) : PairsOf(m)[i] = heap[values[m][i]]
<1>. DEFINE n == Len(values[m])
<1>1. n \in Nat
  BY DEF IInv, MapTypeOK
<1>2. \A i \in 1 .. n : /\ values[m][i] \in Nodes
                        /\ heap[values[m][i]] \in Elements
                        /\ lut[m][heap[values[m][i]].first] = values[m][i]
  BY PositionValid
<1>3. \A i, j \in 1 .. n : values[m][i] = values[m][j] => i = j
  BY DEF IInv, NodesOwned
<1>4. \A i \in 1 .. n : PairsOf(m)[i] = heap[values[m][i]]
  BY DEF PairsOf
<1>5. PairsOf(m) \in [ 1 .. n -> Elements ]
  BY <1>2 DEF PairsOf
<1>. HIDE DEF n
<1>6. PairsOf(m) \in Seq(Elements) /\ Len(PairsOf(m)) = n
  BY <1>1, <1>5
<1>7. ASSUME NEW i \in 1 .. n, NEW j \in 1 .. n, PairsOf(m)[i] = PairsOf(m)[j]
      PROVE  i = j
  <2>1. heap[values[m][i]] = heap[values[m][j]]
    BY <1>4, <1>7
  <2>2. values[m][i] = values[m][j]
    BY <1>2, <2>1
  <2>. QED  BY <1>3, <2>2
<1>. QED  BY <1>4, <1>6, <1>7 DEF NoRepeat, n

LEMMA PairsOfEqual ==
  ASSUME IInv, NEW m \in Maps, NEW o \in Maps, Mapping(m) = Mapping(o)
  PROVE  Elems(PairsOf(m)) \subseteq Elems(PairsOf(o))
<1>. SUFFICES ASSUME NEW i \in 1 .. Len(values[m])
              PROVE  heap[values[m][i]] \in Elems(PairsOf(o))
  BY PairsOfMap DEF Elems
<1>. DEFINE pair == heap[values[m][i]]
            n    == lut[o][pair.first]
<1>1. pair \in Elements
  BY PositionValid
<1>2. n # None /\ heap[n].second = pair.second
  BY SameMappingFound
<1>3. n \in Nodes
  BY <1>1, <1>2 DEF IInv, MapTypeOK, Elements
<1>4. n \in NodesOf(o) /\ heap[n] # None /\ heap[n].first = pair.first
  BY <1>1, <1>3 DEF IInv, LookupExact, Elements
<1>5. heap[n] \in Elements
  BY <1>3, <1>4 DEF IInv, MapTypeOK
<1>6. heap[n] = pair
  <2>1. \A a, b \in Elements : a.first = b.first /\ a.second = b.second => a = b
    BY DEF Elements
  <2>. QED  BY <1>1, <1>2, <1>4, <1>5, <2>1, Zenon
<1>7. PICK j \in 1 .. Len(values[o]) : values[o][j] = n
  BY <1>4 DEF NodesOf
<1>8. PairsOf(o)[j] = pair /\ j \in 1 .. Len(PairsOf(o))
  BY <1>6, <1>7, PairsOfMap
<1>. QED  BY <1>8 DEF Elems

(* HashOf walks the list.                                                  *)
LEMMA HashOfWalks ==
  ASSUME IInv, NEW m \in Maps, NEW f,
         Hashing(Len(values[m]), Weights(PairHash, PairsOf(m)), f)
  PROVE  HashOf(m) = f[Len(values[m])]
<1>. DEFINE n == Len(values[m])
            c == Weights(PairHash, PairsOf(m))
            Body(g) == [ i \in 0 .. n |->
                           IF i = 0 THEN 0
                           ELSE (g[i - 1] + HashOfPair(heap[values[m][i]])) % HashRange ]
            result == CHOOSE g : g = Body(g)
<1>1. n \in Nat
  BY DEF IInv, MapTypeOK
<1>2. HashOf(m) = result[n]
  BY DEF HashOf
<1>3. \A i \in 1 .. n : c[i] = HashOfPair(heap[values[m][i]])
  <2>1. \A i \in 1 .. n : PairsOf(m)[i] = heap[values[m][i]] /\ heap[values[m][i]] \in Elements
    BY PairsOfMap, PositionValid
  <2>2. Len(PairsOf(m)) = n
    BY PairsOfMap
  <2>. QED  BY <2>1, <2>2 DEF Weights, PairHash
<1>4. f \in [ 0 .. n -> Nat ] /\ f[0] = 0
      /\ \A i \in 1 .. n : f[i] = (f[i - 1] + c[i]) % HashRange
  BY DEF Hashing, Adding
<1>. HIDE DEF n, c
<1>5. f = Body(f)
  <2>1. f = [ i \in 0 .. n |-> f[i] ]
    BY <1>4
  <2>2. \A i \in 0 .. n :
          (IF i = 0 THEN 0 ELSE (f[i - 1] + HashOfPair(heap[values[m][i]])) % HashRange) = f[i]
    <3>. SUFFICES ASSUME NEW i \in 1 .. n
                  PROVE  (f[i - 1] + HashOfPair(heap[values[m][i]])) % HashRange = f[i]
      BY <1>1, <1>4
    <3>1. c[i] = HashOfPair(heap[values[m][i]])
      BY <1>3
    <3>2. f[i] = (f[i - 1] + c[i]) % HashRange
      BY <1>4
    <3>. QED  BY <3>1, <3>2, Zenon
  <2>. QED  BY <2>1, <2>2
<1>6. result = Body(result)
  <2>. HIDE DEF Body
  <2>. QED  BY <1>5
<1>7. /\ result[0] = 0
      /\ \A i \in 1 .. n : result[i] = (result[i - 1] + c[i]) % HashRange
  <2>. PICK g : g = result
    OBVIOUS
  <2>1. g = Body(g)
    BY <1>6
  <2>. HIDE DEF result
  <2>2. /\ g[0] = 0
        /\ \A i \in 1 .. n : g[i] = (g[i - 1] + HashOfPair(heap[values[m][i]])) % HashRange
    BY <1>1, <2>1
  <2>. QED  BY <1>3, <2>2
<1>. HIDE DEF result, Body
<1>8. result[n] = f[n]
  <2>. PICK g : g = result
    OBVIOUS
  <2>1. Adding(n, c, g) /\ Adding(n, c, f)
    BY <1>4, <1>7 DEF Adding
  <2>2. g[n] = f[n]
    BY <1>1, <2>1, AddingIsOne
  <2>. QED  BY <2>2
<1>. QED  BY <1>2, <1>8 DEF n

LEMMA EqualHashesAlike ==
  ASSUME IInv, NEW m \in Maps, NEW o \in Maps, Equal(m, o)
  PROVE  HashOf(m) = HashOf(o)
<1>. DEFINE n == Len(values[m])
            q == PairsOf(m)
            p == PairsOf(o)
<1>1. n \in Nat /\ Len(values[o]) = n
  BY DEF IInv, MapTypeOK, Equal
<1>2. q \in Seq(Elements) /\ Len(q) = n /\ NoRepeat(q)
  BY PairsOfMap
<1>3. p \in Seq(Elements) /\ Len(p) = n /\ NoRepeat(p)
  BY <1>1, PairsOfMap
<1>4. Elems(q) = Elems(p)
  <2>1. Mapping(m) = Mapping(o)
    BY EqualIsSameMapping
  <2>2. Elems(q) \subseteq Elems(p)
    BY <2>1, PairsOfEqual
  <2>3. Elems(p) \subseteq Elems(q)
    BY <2>1, PairsOfEqual
  <2>. QED  BY <2>2, <2>3
<1>. HIDE DEF n, q, p
<1>5. ASSUME NEW s \in Seq(Elements), Len(s) = n
      PROVE  \E h : Hashing(n, Weights(PairHash, s), h)
  <2>. DEFINE c == Weights(PairHash, s)
  <2>1. \A i \in 1 .. n : c[i] \in Nat
    BY <1>5, PairHashType DEF Weights
  <2>. HIDE DEF c
  <2>2. \E h : Hashing(n, c, h)
    BY <1>1, <2>1, HashingExists
  <2>. QED  BY <2>2 DEF c
<1>6. PICK f : Hashing(n, Weights(PairHash, q), f)
  BY <1>2, <1>5
<1>7. PICK g : Hashing(n, Weights(PairHash, p), g)
  BY <1>3, <1>5
<1>8. HashOf(m) = f[n]
  BY <1>6, HashOfWalks DEF n, q
<1>9. HashOf(o) = g[n]
  BY <1>1, <1>7, HashOfWalks DEF p
<1>10. f[n] = g[n]
  <2>1. OrderIsFree(Elements, PairHash, n)
    BY <1>1, PairHashType, HashIgnoresOrder
  <2>2. f \in [ 0 .. n -> Nat ] /\ g \in [ 0 .. n -> Nat ]
    BY <1>6, <1>7 DEF Hashing, Adding
  <2>3. Reordered(n, q, p)
    BY <1>2, <1>3, <1>4 DEF Reordered
  <2>. QED  BY <1>2, <1>3, <1>6, <1>7, <2>1, <2>2, <2>3 DEF OrderIsFree
<1>. QED  BY <1>8, <1>9, <1>10

(* Maps that operator== finds equal have the same hash, in whatever order  *)
(* their pairs were inserted and wherever std::size_t wraps around.        *)
THEOREM HashesMatchEquality == Spec => []HashMatchesEquality
<1>1. IInv => HashMatchesEquality
  BY EqualHashesAlike DEF HashMatchesEquality
<1>. QED  BY <1>1, MapsStayExact, PTL

=============================================================================
