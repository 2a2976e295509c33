--------------------------- MODULE InsertionOrder ---------------------------
(***************************************************************************)
(* What worker::Map promises: "iteration order is well-defined and matches *)
(* *insertion* order", and "all operations have the corresponding          *)
(* semantics" of std::unordered_map.  A map is a sequence of pairs with    *)
(* distinct keys.                                                          *)
(***************************************************************************)
EXTENDS Integers, Sequences

CONSTANTS Maps, Keys, Values

VARIABLE contents

Elements == [ first : Keys, second : Values ]

Init == contents = [ m \in Maps |-> << >> ]

Has(m, k) == \E i \in 1 .. Len(contents[m]) : contents[m][i].first = k

Insert(m, k, v) ==
  /\ ~Has(m, k)
  /\ contents' = [ contents EXCEPT ![m] = Append(@, [ first |-> k, second |-> v ]) ]

Overwrite(m, k, v) ==
  \E i \in 1 .. Len(contents[m]) :
    /\ contents[m][i].first = k
    /\ contents' = [ contents EXCEPT ![m] = [ @ EXCEPT ![i].second = v ] ]

(* The elements from position i up to, not including, position j go.       *)
Remove(m, i, j) ==
  /\ 1 <= i /\ i <= j /\ j <= Len(contents[m]) + 1
  /\ contents' = [ contents EXCEPT ![m] =
       [ p \in 1 .. (Len(@) - (j - i)) |-> IF p < i THEN @[p] ELSE @[p + (j - i)] ] ]

Copy(m, o) == contents' = [ contents EXCEPT ![m] = contents[o] ]

Swap(m, o) == contents' = [ contents EXCEPT ![m] = contents[o], ![o] = contents[m] ]

Next ==
  \E m \in Maps :
    \/ \E k \in Keys, v \in Values : Insert(m, k, v) \/ Overwrite(m, k, v)
    \/ \E i, j \in 1 .. (Len(contents[m]) + 1) : Remove(m, i, j)
    \/ \E o \in Maps : Copy(m, o) \/ Swap(m, o)

Spec == Init /\ [][Next]_contents

=============================================================================
