-------------------------- MODULE CopyingDispatcher -------------------------
(***************************************************************************)
(* What a dispatcher promises, without the deferral that implements it.    *)
(* The comment above CallbackMap names this design: "A simple solution to  *)
(* this problem would be to copy the map for each iteration".              *)
(*                                                                         *)
(* `current` is what the client of the dispatcher sees: registration and   *)
(* removal change it at once.  The outermost invocation on a slot copies   *)
(* it; the invocations nested in that one go over the same copy.           *)
(***************************************************************************)
EXTENDS Operations

CONSTANTS MaxKeys, MaxDepth

VARIABLES
  current,              \* the callbacks registered and not removed, by slot
  copy,                 \* what the invocations in progress go over, by slot
  current_callback_key,
  passes,
  terminated

vars == << current, copy, current_callback_key, passes, terminated >>

Init ==
  /\ current = [ s \in Slots |-> {} ]
  /\ copy = [ s \in Slots |-> {} ]
  /\ current_callback_key = 0
  /\ passes = << >>
  /\ terminated = FALSE

Top     == passes[Len(passes)]
TopSlot == SlotOf(Top.op)
Popped  == SubSeq(passes, 1, Len(passes) - 1)

Busy(ps, s) == \E i \in DOMAIN ps : SlotOf(ps[i].op) = s

Register(s) ==
  /\ ~terminated
  /\ current_callback_key < MaxKeys
  /\ current' = [ current EXCEPT ![s] = @ \cup {current_callback_key} ]
  /\ current_callback_key' = current_callback_key + 1
  /\ UNCHANGED << copy, passes, terminated >>

Remove(k) ==
  /\ ~terminated
  /\ \E s \in Slots :
        /\ k \in current[s]
        /\ current' = [ current EXCEPT ![s] = @ \ {k} ]
  /\ UNCHANGED << copy, current_callback_key, passes, terminated >>

RemoveUnknown(k) ==
  /\ ~terminated
  /\ \A s \in Slots : k \notin current[s]
  /\ terminated' = TRUE
  /\ UNCHANGED << current, copy, current_callback_key, passes >>

Dispatch(op) ==
  LET s  == SlotOf(op)
      cs == IF Busy(passes, s) THEN copy[s] ELSE current[s]
  IN  /\ ~terminated
      /\ Len(passes) < MaxDepth
      /\ cs # {}
      /\ copy' = [ copy EXCEPT ![s] = cs ]
      /\ passes' = Append(passes, [ op |-> op, at |-> First(cs, op) ])
      /\ UNCHANGED << current, current_callback_key, terminated >>

Remaining == After(copy[TopSlot], Top.at, Top.op)

NextCallback ==
  /\ ~terminated
  /\ passes # << >>
  /\ Remaining # {}
  /\ passes' = [ passes EXCEPT ![Len(passes)].at = First(Remaining, Top.op) ]
  /\ UNCHANGED << current, copy, current_callback_key, terminated >>

(* An invocation ends when its callbacks are used up, or when one throws.  *)
LeavePass ==
  /\ ~terminated
  /\ passes # << >>
  /\ passes' = Popped
  /\ copy' = [ copy EXCEPT ![TopSlot] = IF Busy(Popped, TopSlot) THEN @ ELSE {} ]
  /\ UNCHANGED << current, current_callback_key, terminated >>

Next ==
  \/ \E s \in Slots : Register(s)
  \/ \E k \in 0 .. MaxKeys : Remove(k)
  \/ \E k \in 0 .. MaxKeys : RemoveUnknown(k)
  \/ \E op \in Ops : Dispatch(op)
  \/ NextCallback
  \/ LeavePass

Spec == Init /\ [][Next]_vars

=============================================================================
