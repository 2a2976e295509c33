----------------------------- MODULE Dispatcher -----------------------------
(***************************************************************************)
(* worker::Dispatcher: callbacks are registered for kinds of operations,   *)
(* removed by the key their registration returned, and invoked by          *)
(* Process().  One thread uses a dispatcher, but a callback may call back  *)
(* into it: register, remove (itself, too) and process operations while    *)
(* one or more invocations are in progress.                                *)
(*                                                                         *)
(* `passes` is the call stack: one element per InvokeAll or                *)
(* ReverseInvokeAll in progress, with the operation it delivers and the    *)
(* key of the callback it is executing.  User code runs either inside the  *)
(* callback of the last pass or, when there is none, outside Process().    *)
(* Process() of a list of operations is a succession of passes; that user  *)
(* code may run between them covers the processing of shorter lists.       *)
(***************************************************************************)
EXTENDS Operations, CallbackMap, FiniteSets

CONSTANTS
  MaxKeys,  \* bound: registrations made
  MaxDepth  \* bound: nesting of Process calls

ASSUME BoundsAssumption == MaxKeys \in Nat /\ MaxDepth \in Nat

VARIABLES
  callbacks,            \* the callback map of each slot
  current_callback_key, \* the key the next registration is given
  passes,               \* the invocations in progress, outermost first
  terminated            \* std::terminate was called

vars == << callbacks, current_callback_key, passes, terminated >>

Init ==
  /\ callbacks = [ s \in Slots |-> EmptyCallbackMap ]
  /\ current_callback_key = 0
  /\ passes = << >>
  /\ terminated = FALSE

(* The pass whose callback is executing, and its callback map.             *)
Top     == passes[Len(passes)]
TopSlot == SlotOf(Top.op)
Popped  == SubSeq(passes, 1, Len(passes) - 1)

(* The callbacks the executing pass still has to invoke.                   *)
Remaining == After(callbacks[TopSlot].map, Top.at, Top.op)

-----------------------------------------------------------------------------
(* On<Something>(callback): the key is used, then incremented.             *)
Register(s) ==
  /\ ~terminated
  /\ current_callback_key < MaxKeys
  /\ callbacks' = [ callbacks EXCEPT ![s] = AddTo(@, current_callback_key) ]
  /\ current_callback_key' = current_callback_key + 1
  /\ UNCHANGED << passes, terminated >>

(* Remove(key): each callback map is tried in turn until one accepts.  A   *)
(* map that does not accept the key is left as it was.                     *)
Remove(k) ==
  /\ ~terminated
  /\ \E s \in Slots :
        /\ Removes(callbacks[s], k)
        /\ callbacks' = [ callbacks EXCEPT ![s] = RemoveFrom(@, k) ]
  /\ UNCHANGED << current_callback_key, passes, terminated >>

(* Remove(key) when no map accepts the key ends the application.           *)
RemoveUnknown(k) ==
  /\ ~terminated
  /\ \A s \in Slots : ~Removes(callbacks[s], k)
  /\ terminated' = TRUE
  /\ UNCHANGED << callbacks, current_callback_key, passes >>

(* Process() comes to an operation and invokes the first callback.  With   *)
(* no callbacks in the map the invocation has no effect.                   *)
Dispatch(op) ==
  LET c == Enter(callbacks[SlotOf(op)])
  IN  /\ ~terminated
      /\ Len(passes) < MaxDepth
      /\ c.map # {}
      /\ callbacks' = [ callbacks EXCEPT ![SlotOf(op)] = c ]
      /\ passes' = Append(passes, [ op |-> op, at |-> First(c.map, op) ])
      /\ UNCHANGED << current_callback_key, terminated >>

(* The executing callback returns and the iteration goes on.               *)
NextCallback ==
  /\ ~terminated
  /\ passes # << >>
  /\ Remaining # {}
  /\ passes' = [ passes EXCEPT ![Len(passes)].at = First(Remaining, Top.op) ]
  /\ UNCHANGED << callbacks, current_callback_key, terminated >>

LeavePass ==
  /\ passes' = Popped
  /\ callbacks' = [ callbacks EXCEPT ![TopSlot] = Leave(@) ]
  /\ UNCHANGED << current_callback_key, terminated >>

(* The last callback of the pass returns.                                  *)
EndPass ==
  /\ ~terminated
  /\ passes # << >>
  /\ Remaining = {}
  /\ LeavePass

(* The executing callback throws: the pass is abandoned, its UpdateGuard   *)
(* is destroyed, and the exception reaches the code that called Process(), *)
(* which may handle it or be left the same way.                            *)
Throw ==
  /\ ~terminated
  /\ passes # << >>
  /\ LeavePass

Next ==
  \/ \E s \in Slots : Register(s)
  \/ \E k \in 0 .. MaxKeys : Remove(k)
  \/ \E k \in 0 .. MaxKeys : RemoveUnknown(k)
  \/ \E op \in Ops : Dispatch(op)
  \/ NextCallback
  \/ EndPass
  \/ Throw

Spec == Init /\ [][Next]_vars

-----------------------------------------------------------------------------
(* The invocations in progress on a slot, as indices into the call stack.  *)
ActiveIn(ps, s) == { i \in DOMAIN ps : SlotOf(ps[i].op) = s }

ActiveOn(s) == ActiveIn(passes, s)

(* Every variable keeps to its type; keys are handed out before they are   *)
(* found anywhere.                                                         *)
TypeOK ==
  /\ callbacks \in [ Slots -> CallbackMaps ]
  /\ current_callback_key \in 0 .. MaxKeys
  /\ passes \in Seq([ op : Ops, at : CallbackKeys ])
  /\ terminated \in BOOLEAN

(* A callback that is executing is still stored in the map it was invoked  *)
(* from, even when it removed itself, or was removed from a nested call:   *)
(* the function object is not destroyed under its own execution.           *)
(* (CallbackMap::Remove and UpdateCallbacks, called from a callback.)      *)
RunningCallbackStored ==
  \A i \in DOMAIN passes : passes[i].at \in callbacks[SlotOf(passes[i].op)].map

(* call_depth counts exactly the invocations in progress on a map, on      *)
(* every way out of one, exceptions included; were it ever too high,       *)
(* changes to the map would be parked for good.  (UpdateGuard.)            *)
DepthMatchesPasses ==
  \A s \in Slots : callbacks[s].call_depth = Cardinality(ActiveOn(s))

(* A change is parked only while an invocation is in progress, and what is *)
(* parked can be merged: no addition that insert() would drop because the  *)
(* key is taken, no removal of a callback that is not there.               *)
ParkedChangesSound == \A s \in Slots : ParkedSound(callbacks[s])

(* A key names one callback: no two maps hold it, parked or not.  Remove() *)
(* relies on it, since it stops at the first map that accepts the key.     *)
KeyInOneMap ==
  \A s, t \in Slots :
    s # t => Stored(callbacks[s]) \cap Stored(callbacks[t]) = {}

(* While an invocation is in progress on a map, before and after a step,   *)
(* the step does not change the map: no insertion, no erasure.  (Comment   *)
(* of CallbackMap: "We need to avoid changing the underlying map while     *)
(* iterating over it".)                                                    *)
IterationStable ==
  [][ \A s \in Slots :
        ActiveOn(s) # {} /\ ActiveOn(s)' # {} =>
          callbacks'[s].map = callbacks[s].map ]_vars

(* A callback once removed never becomes current again, and the keys of    *)
(* the maps only ever come from registrations.                             *)
RemovedStaysRemoved ==
  [][ \A s \in Slots :
        Current(callbacks'[s]) \subseteq
          Current(callbacks[s]) \cup {current_callback_key} ]_vars

(* A map accepts the removal of exactly its current callbacks, parked or   *)
(* not: Remove() neither terminates the application for a callback that    *)
(* would still be invoked nor passes for one that is already removed.      *)
RemoveAcceptsCurrent ==
  \A s \in Slots, k \in 0 .. MaxKeys :
    Removes(callbacks[s], k) <=> k \in Current(callbacks[s])

(* Keys are issued before they are used: the one the next registration     *)
(* gets is new to every map.  (current_callback_key++ in On...())          *)
KeysIssued ==
  \A s \in Slots : \A k \in Stored(callbacks[s]) : k < current_callback_key

(* The inductive invariant of the dispatcher.                              *)
IInv ==
  /\ TypeOK
  /\ KeysIssued
  /\ KeyInOneMap
  /\ ParkedChangesSound
  /\ DepthMatchesPasses
  /\ RunningCallbackStored

-----------------------------------------------------------------------------
(* What the deferral is for: a dispatcher that instead copies the map at   *)
(* the outermost invocation, and applies every change at once.             *)
Copying ==
  INSTANCE CopyingDispatcher WITH
    current <- [ s \in Slots |-> Current(callbacks[s]) ],
    copy    <- [ s \in Slots |->
                   IF callbacks[s].call_depth = 0 THEN {} ELSE callbacks[s].map ]

(* The dispatcher implements the copying one: the same callbacks are       *)
(* current, and each invocation runs the same callbacks in the same order. *)
ImplementsCopying == Copying!Spec

=============================================================================
