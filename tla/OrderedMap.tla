----------------------------- MODULE OrderedMap -----------------------------
(***************************************************************************)
(* worker::Map<K, V>: the pairs in a std::list, and beside it a table of   *)
(* iterators into the list, by key.  Every map of the SDK is one: the      *)
(* callback maps, the entities of a View, the map fields of components.    *)
(*                                                                         *)
(* `heap` says what the nodes of the lists hold; a node that was freed is  *)
(* allocated again.  `it` is an iterator the user of the maps has in hand. *)
(* The user keeps the rules of the standard containers: it is not used     *)
(* after its element is erased or its map cleared or assigned to.          *)
(***************************************************************************)
EXTENDS Integers, Sequences, SequencesExt

CONSTANTS
  Maps, Keys, Values,
  Default,     \* mapped_type{}
  Nodes,       \* the addresses of list nodes
  None,        \* a free node, a missing table entry, an iterator at the end
  StdHash,     \* std::hash of keys and of values
  HashRange    \* std::size_t has so many values

VARIABLES
  values,      \* the nodes of each map's list
  lut,         \* each map's table
  heap,
  it

vars == << values, lut, heap, it >>

Elements == [ first : Keys, second : Values ]

(* An iterator: the node, and what the user knows of it.                   *)
Iterators == [ map : Maps, key : Keys, node : Nodes ]

ASSUME MapAssumption ==
  /\ None \notin Nodes /\ None \notin Elements /\ None \notin Iterators
  /\ Default \in Values

ASSUME HashAssumption ==
  /\ StdHash \in [ Keys \cup Values -> Nat ]
  /\ HashRange \in Nat \ {0}

Init ==
  /\ values = [ m \in Maps |-> << >> ]
  /\ lut = [ m \in Maps |-> [ k \in Keys |-> None ] ]
  /\ heap = [ n \in Nodes |-> None ]
  /\ it = None

Free == { n \in Nodes : heap[n] = None }

NodesOf(m) == { values[m][i] : i \in 1 .. Len(values[m]) }

KeysOf(ns) == { heap[n].first : n \in ns }

(* Fault: the last element is moved into the gap.                          *)
WithoutInOrder(s, i, j) ==
  [ p \in 1 .. (Len(s) - (j - i)) |->
      IF p < i THEN s[p] ELSE s[Len(s) - (p - i)] ]

(* The list s without the positions from i up to, not including, j.        *)
Without(s, i, j) ==
  [ p \in 1 .. (Len(s) - (j - i)) |-> IF p < i THEN s[p] ELSE s[p + (j - i)] ]

(* The iterator to position i of the list of m, whose end is None.         *)
IteratorAt(m, i) ==
  IF i > Len(values[m]) THEN None
  ELSE [ map |-> m, key |-> heap[values[m][i]].first, node |-> values[m][i] ]

(* emplace: the result is an iterator; a key that is there stays as it is. *)
Emplace(m, k, v) ==
  /\ lut[m][k] = None
  /\ \E n \in Free :
       /\ heap' = [ heap EXCEPT ![n] = [ first |-> k, second |-> v ] ]
       /\ values' = [ values EXCEPT ![m] = Append(@, n) ]
       /\ lut' = [ lut EXCEPT ![m][k] = n ]
       /\ it' = [ map |-> m, key |-> k, node |-> n ]

(* find, and emplace of a key that is there: an iterator out of the table. *)
Find(m, k) ==
  /\ lut[m][k] # None
  /\ it' = [ map |-> m, key |-> k, node |-> lut[m][k] ]
  /\ UNCHANGED << values, lut, heap >>

Begin(m) ==
  /\ it' = IteratorAt(m, 1)
  /\ UNCHANGED << values, lut, heap >>

(* operator[]: a reference to the value, of mapped_type{} if it is new.    *)
Subscript(m, k) == Emplace(m, k, Default) \/ Find(m, k)

(* it->second = v.                                                         *)
WriteThrough(v) ==
  /\ it # None
  /\ heap' = [ heap EXCEPT ![it.node].second = v ]
  /\ UNCHANGED << values, lut, it >>

(* Fault: the table keeps the iterators of the nodes that are freed.       *)
EraseRangeFromList(i, j) ==
  LET m    == it.map
      gone == { values[m][p] : p \in i .. (j - 1) }
  IN  /\ values[m][i] = it.node
      /\ values' = [ values EXCEPT ![m] = Without(@, i, j) ]
      /\ heap' = [ n \in Nodes |-> IF n \in gone THEN None ELSE heap[n] ]
      /\ it' = IteratorAt(m, j)
      /\ UNCHANGED lut

(* erase(first, last), from the user's iterator on: the keys are read off  *)
(* the nodes and leave the table, then the list frees the nodes.  The      *)
(* result is `last`.  erase(pos) is the range of one element.              *)
EraseRange(i, j) ==
  LET m    == it.map
      gone == { values[m][p] : p \in i .. (j - 1) }
  IN  /\ values[m][i] = it.node
      /\ lut' = [ lut EXCEPT ![m] =
                    [ k \in Keys |-> IF k \in KeysOf(gone) THEN None ELSE @[k] ] ]
      /\ values' = [ values EXCEPT ![m] = Without(@, i, j) ]
      /\ heap' = [ n \in Nodes |-> IF n \in gone THEN None ELSE heap[n] ]
      /\ it' = IteratorAt(m, j)

Erase ==
  /\ it # None
  /\ \E i \in 1 .. Len(values[it.map]) :
       \E j \in (i + 1) .. (Len(values[it.map]) + 1) : EraseRange(i, j)

(* erase(key): the list frees the node the table has for it, wherever in   *)
(* the list it is.  A key that is not there is answered with false.        *)
EraseKey(m, k) ==
  LET n == lut[m][k]
  IN  /\ n # None
      /\ \E i \in 1 .. Len(values[m]) :
           /\ values[m][i] = n
           /\ values' = [ values EXCEPT ![m] = Without(@, i, i + 1) ]
      /\ heap' = [ heap EXCEPT ![n] = None ]
      /\ lut' = [ lut EXCEPT ![m][k] = None ]
      /\ it' = IF it # None /\ it.map = m /\ it.key = k THEN None ELSE it

(* The user lets go of an iterator into a map that is about to be emptied. *)
LetGo(m) == IF it # None /\ it.map = m THEN None ELSE it

Clear(m) ==
  /\ values' = [ values EXCEPT ![m] = << >> ]
  /\ lut' = [ lut EXCEPT ![m] = [ k \in Keys |-> None ] ]
  /\ heap' = [ n \in Nodes |-> IF n \in NodesOf(m) THEN None ELSE heap[n] ]
  /\ it' = LetGo(m)

(* Copy assignment: clear(), then insert(begin, end) emplaces the other's  *)
(* pairs in order; clone[n] is the node made for the other's node n.       *)
CopyInto(m, o, clone) ==
  LET original(n) == CHOOSE p \in NodesOf(o) : clone[p] = n
      holder(k)   == CHOOSE p \in NodesOf(o) : heap[p].first = k
  IN  /\ values' = [ values EXCEPT ![m] =
                       [ i \in 1 .. Len(values[o]) |-> clone[values[o][i]] ] ]
      /\ lut' = [ lut EXCEPT ![m] =
                    [ k \in Keys |-> IF k \in KeysOf(NodesOf(o)) THEN clone[holder(k)]
                                     ELSE None ] ]
      /\ heap' = [ n \in Nodes |-> IF n \in Range(clone) THEN heap[original(n)]
                                   ELSE IF n \in NodesOf(m) THEN None ELSE heap[n] ]
      /\ it' = LetGo(m)

(* Fault: a map assigned to itself is cleared before it is read.           *)
AssignClearsItself(m, o) ==
  IF m = o
  THEN /\ values' = [ values EXCEPT ![m] = << >> ]
       /\ lut' = [ lut EXCEPT ![m] = [ k \in Keys |-> None ] ]
       /\ heap' = [ n \in Nodes |-> IF n \in NodesOf(m) THEN None ELSE heap[n] ]
       /\ UNCHANGED it
  ELSE \E clone \in [ NodesOf(o) -> Free \cup NodesOf(m) ] :
         IsInjective(clone) /\ CopyInto(m, o, clone)

(* Assigning a map to itself does nothing.                                 *)
Assign(m, o) ==
  /\ m # o
  /\ \E clone \in [ NodesOf(o) -> Free \cup NodesOf(m) ] :
       IsInjective(clone) /\ CopyInto(m, o, clone)

(* swap, and move assignment, which is a swap.  "Preserves iterators."     *)
Swap(m, o) ==
  /\ m # o
  /\ values' = [ values EXCEPT ![m] = values[o], ![o] = values[m] ]
  /\ lut' = [ lut EXCEPT ![m] = lut[o], ![o] = lut[m] ]
  /\ it' = IF it = None THEN None
           ELSE [ it EXCEPT !.map = IF @ = m THEN o ELSE IF @ = o THEN m ELSE @ ]
  /\ UNCHANGED heap

Next ==
  \/ \E m \in Maps, k \in Keys :
       \/ \E v \in Values : Emplace(m, k, v)
       \/ Find(m, k)
       \/ Subscript(m, k)
       \/ EraseKey(m, k)
  \/ \E v \in Values : WriteThrough(v)
  \/ Erase
  \/ \E m \in Maps : Begin(m) \/ Clear(m)
  \/ \E m, o \in Maps : Assign(m, o) \/ Swap(m, o)

Spec == Init /\ [][Next]_vars

(* Fault: a subset is taken for an equal.                                  *)
EqualSubset(m, o) ==
  \A i \in 1 .. Len(values[m]) :
    LET pair == heap[values[m][i]]
    IN  lut[o][pair.first] # None /\ heap[lut[o][pair.first]].second = pair.second

(* operator==: of the same size, and each pair of m found in o.            *)
Equal(m, o) ==
  /\ Len(values[m]) = Len(values[o])
  /\ \A i \in 1 .. Len(values[m]) :
       LET pair == heap[values[m][i]]
       IN  lut[o][pair.first] # None /\ heap[lut[o][pair.first]].second = pair.second

HashOfPair(pair) == 1327 * (StdHash[pair.first] + 977 * StdHash[pair.second])

(* Fault: the hash of a list, which encodes the order.                     *)
HashInOrder(m) ==
  LET result[i \in 0 .. Len(values[m])] ==
        IF i = 0 THEN 1327
        ELSE (result[i - 1] * 977 + HashOfPair(heap[values[m][i]])) % HashRange
  IN  result[Len(values[m])]

(* std::hash of a map: "does not encode order".                            *)
HashOf(m) ==
  LET result[i \in 0 .. Len(values[m])] ==
        IF i = 0 THEN 0
        ELSE (result[i - 1] + HashOfPair(heap[values[m][i]])) % HashRange
  IN  result[Len(values[m])]

-----------------------------------------------------------------------------

MapTypeOK ==
  /\ values \in [ Maps -> Seq(Nodes) ]
  /\ lut \in [ Maps -> [ Keys -> Nodes \cup {None} ] ]
  /\ heap \in [ Nodes -> Elements \cup {None} ]
  /\ it \in Iterators \cup {None}

(* The list and the table of a map agree, whichever of the two an          *)
(* operation started from: the table has, for each key, the one node of    *)
(* the list that holds it.                                                 *)
LookupExact ==
  \A m \in Maps, k \in Keys, n \in Nodes :
    lut[m][k] = n <=> n \in NodesOf(m) /\ heap[n] # None /\ heap[n].first = k

(* Lists do not share nodes, with one another or with themselves, and a    *)
(* node is allocated exactly while a list has it: nothing leaks.           *)
NodesOwned ==
  /\ \A m, o \in Maps : \A i \in 1 .. Len(values[m]), j \in 1 .. Len(values[o]) :
       values[m][i] = values[o][j] => m = o /\ i = j
  /\ \A n \in Nodes : heap[n] # None <=> \E m \in Maps : n \in NodesOf(m)

(* An iterator the user may still use points to its element, in the map    *)
(* that has the element now, however many other elements, in this map or   *)
(* others, have come and gone and whatever nodes they were given.          *)
IteratorValid ==
  it # None => lut[it.map][it.key] = it.node

(* The mapping a map stands for, as find() shows it.                       *)
Mapping(m) ==
  [ k \in { k \in Keys : lut[m][k] # None } |-> heap[lut[m][k]].second ]

(* operator==, which looks one way only and compares sizes, tells whether  *)
(* two maps stand for the same mapping, in whatever order they were built. *)
EqualityOfMappings ==
  \A m, o \in Maps : Equal(m, o) <=> Mapping(m) = Mapping(o)

(* Equal maps have equal hashes, "to match the equality operator".         *)
HashMatchesEquality ==
  \A m, o \in Maps : Equal(m, o) => HashOf(m) = HashOf(o)

(* What a map's list holds, in order.                                      *)
Contents == [ m \in Maps |-> [ i \in 1 .. Len(values[m]) |-> heap[values[m][i]] ] ]

Ordered == INSTANCE InsertionOrder WITH contents <- Contents

(* A map is a sequence of pairs in the order of insertion: no operation,   *)
(* by key, by iterator or on whole maps, changes the order of the pairs    *)
(* that stay, or a pair it is not about.                                   *)
ImplementsInsertionOrder == Ordered!Spec

=============================================================================
