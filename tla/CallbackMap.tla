----------------------------- MODULE CallbackMap ----------------------------
(***************************************************************************)
(* worker::detail::CallbackMap, the container of the callbacks registered  *)
(* for one kind of operation.  It must not change while it is being        *)
(* iterated over, although the callbacks it invokes may add and remove     *)
(* callbacks; changes are therefore parked in to_add and to_remove and     *)
(* merged when the outermost call on the map ends.                         *)
(*                                                                         *)
(* A callback is represented by its key.  This module has no state of its  *)
(* own: a callback map is a record, and each operator below returns what a *)
(* member function makes of it.                                            *)
(***************************************************************************)
EXTENDS Integers

CallbackKeys == Nat

CallbackMaps ==
  [ map        : SUBSET CallbackKeys, \* what an invocation iterates over
    to_add     : SUBSET CallbackKeys, \* registered since the outermost call
    to_remove  : SUBSET CallbackKeys, \* removed since the outermost call
    call_depth : Nat ]                \* calls in progress on this map

EmptyCallbackMap ==
  [ map |-> {}, to_add |-> {}, to_remove |-> {}, call_depth |-> 0 ]

(* Faults: parked removals are kept after the merge, or are forgotten.     *)
MergeAndKeepRemovals(c) ==
  [ c EXCEPT !.map = (@ \cup c.to_add) \ c.to_remove, !.to_add = {} ]

MergeAdditionsOnly(c) ==
  [ c EXCEPT !.map = @ \cup c.to_add, !.to_add = {}, !.to_remove = {} ]

(* Merges the parked changes: additions first, then removals.              *)
UpdateCallbacks(c) ==
  [ c EXCEPT !.map = (@ \cup c.to_add) \ c.to_remove,
             !.to_add = {},
             !.to_remove = {} ]

(* The constructor and the destructor of UpdateGuard, which bracket every  *)
(* member function.                                                        *)
Enter(c) == [ c EXCEPT !.call_depth = @ + 1 ]

(* Fault: every call merges, not just the outermost.                       *)
LeaveAndMerge(c) == UpdateCallbacks([ c EXCEPT !.call_depth = @ - 1 ])

Leave(c) ==
  LET left == [ c EXCEPT !.call_depth = @ - 1 ]
  IN  IF left.call_depth = 0 THEN UpdateCallbacks(left) ELSE left

(* Fault: no UpdateGuard for the call, only its destructor.                *)
AddWithoutEntering(c, k) ==
  Leave([ c EXCEPT !.to_add = @ \cup {k}, !.to_remove = @ \ {k} ])

(* Add(key, callback).                                                     *)
AddTo(c, k) ==
  Leave([ Enter(c) EXCEPT !.to_add = @ \cup {k}, !.to_remove = @ \ {k} ])

(* Fault: the callback is erased at once.                                  *)
EraseAtOnce(c, k) ==
  Leave([ Enter(c) EXCEPT !.to_add = @ \ {k}, !.map = @ \ {k} ])

(* Remove(key): what it does to the map, and what it returns.              *)
RemoveFrom(c, k) ==
  Leave([ Enter(c) EXCEPT
            !.to_add = @ \ {k},
            !.to_remove = IF k \in c.map THEN @ \cup {k} ELSE @ ])

(* Fault: callbacks that are parked for addition are overlooked.           *)
RemovesFromMapOnly(c, k) == k \in c.map /\ k \notin c.to_remove

Removes(c, k) ==
  IF k \in c.map THEN k \notin c.to_remove ELSE k \in c.to_add

(* "The current callbacks are those in the map, plus to_add, minus         *)
(* to_remove."                                                             *)
Current(c) == (c.map \cup c.to_add) \ c.to_remove

(* The callbacks the object keeps, removed ones that are parked included.  *)
Stored(c) == c.map \cup c.to_add

(* What is parked makes sense against the map it will be merged into:      *)
(* additions are new to it, removals are of callbacks it has, and nothing  *)
(* is parked when no call is in progress.                                  *)
ParkedSound(c) ==
  /\ c.call_depth = 0 => c.to_add = {} /\ c.to_remove = {}
  /\ c.to_add \cap c.map = {}
  /\ c.to_remove \subseteq c.map

=============================================================================
