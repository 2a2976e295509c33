-------------------------- MODULE DispatcherProofs --------------------------
(***************************************************************************)
(* Proofs about the Dispatcher, for any set of operations, any number of   *)
(* callbacks and any nesting of Process calls.                             *)
(***************************************************************************)
EXTENDS Dispatcher, FiniteSetTheorems, SequenceTheorems, WellFoundedInduction,
        TLAPS

-----------------------------------------------------------------------------
(* The iteration order: First returns a key of the set it is given.        *)

(* A nonempty set of naturals has a least element.                         *)
LEMMA LeastNatural ==
  ASSUME NEW T \in SUBSET Nat, T # {}
  PROVE  \E x \in T : \A y \in T : x <= y
<1>. DEFINE R == OpToRel(<, Nat)
<1>1. \A x, y \in Nat : << y, x >> \in R <=> y < x
  BY DEF OpToRel
<1>. HIDE DEF R
<1>2. IsWellFoundedOn(R, Nat)
  BY NatLessThanWellFounded DEF R
<1>3. PICK x \in T : \A y \in T : ~ (<< y, x >> \in R)
  BY <1>2, WFMin
<1>4. x \in Nat /\ \A y \in T : y \in Nat
  OBVIOUS
<1>5. \A y \in T : ~ (y < x)
  BY <1>1, <1>3, <1>4, Zenon
<1>. QED  BY <1>4, <1>5

(* A nonempty set of naturals below a bound has a greatest element.        *)
LEMMA GreatestNatural ==
  ASSUME NEW n \in Nat, NEW T \in SUBSET (0 .. n), T # {}
  PROVE  \E x \in T : \A y \in T : y <= x
<1>. DEFINE U == { n - t : t \in T }
<1>1. U \in SUBSET Nat /\ U # {}
  <2>1. \A t \in T : n - t \in Nat
    OBVIOUS
  <2>2. PICK t \in T : TRUE
    OBVIOUS
  <2>3. n - t \in U
    OBVIOUS
  <2>. QED  BY <2>1, <2>3
<1>2. PICK u \in U : \A v \in U : u <= v
  BY <1>1, LeastNatural
<1>3. PICK x \in T : u = n - x
  BY <1>2
<1>4. \A y \in T : n - x <= n - y
  BY <1>2, <1>3
<1>5. \A y \in T : y <= x
  BY <1>4
<1>. QED  BY <1>5

(* The first callback of an iteration is one of the callbacks iterated     *)
(* over, in either order.                                                  *)
LEMMA FirstIsAKey ==
  ASSUME NEW n \in Nat, NEW keys \in SUBSET (0 .. n), keys # {}, NEW op
  PROVE  First(keys, op) \in keys
<1>1. CASE Reversed(op)
  <2>1. \E k \in keys : \A j \in keys : j <= k
    BY GreatestNatural
  <2>. QED  BY <1>1, <2>1 DEF First
<1>2. CASE ~Reversed(op)
  <2>1. \E k \in keys : \A j \in keys : k <= j
    BY LeastNatural
  <2>. QED  BY <1>2, <2>1 DEF First
<1>. QED  BY <1>1, <1>2

-----------------------------------------------------------------------------
(* What the member functions of a callback map return.                     *)

(* Callback maps that agree on every field are equal.                      *)
LEMMA SameFields ==
  ASSUME NEW c \in CallbackMaps, NEW d \in CallbackMaps,
         c.map = d.map, c.to_add = d.to_add,
         c.to_remove = d.to_remove, c.call_depth = d.call_depth
  PROVE  c = d
BY DEF CallbackMaps

(* What Enter returns, field by field.                                     *)
LEMMA EnterFields ==
  ASSUME NEW c \in CallbackMaps
  PROVE  /\ Enter(c) \in CallbackMaps
         /\ Enter(c).call_depth = c.call_depth + 1
         /\ Enter(c).map = c.map
         /\ Enter(c).to_add = c.to_add
         /\ Enter(c).to_remove = c.to_remove
BY DEF CallbackMaps, Enter

(* What Leave returns, field by field: the outermost call merges, the      *)
(* others only leave.                                                      *)
LEMMA LeaveFields ==
  ASSUME NEW c \in CallbackMaps, c.call_depth # 0
  PROVE  /\ Leave(c) \in CallbackMaps
         /\ Leave(c).call_depth = c.call_depth - 1
         /\ c.call_depth = 1 => /\ Leave(c).map = (c.map \cup c.to_add) \ c.to_remove
                                /\ Leave(c).to_add = {}
                                /\ Leave(c).to_remove = {}
         /\ c.call_depth # 1 => /\ Leave(c).map = c.map
                                /\ Leave(c).to_add = c.to_add
                                /\ Leave(c).to_remove = c.to_remove
<1>. DEFINE left == [ c EXCEPT !.call_depth = @ - 1 ]
<1>1. /\ left \in CallbackMaps
      /\ left.call_depth = c.call_depth - 1
      /\ left.map = c.map
      /\ left.to_add = c.to_add
      /\ left.to_remove = c.to_remove
  BY DEF CallbackMaps
<1>2. Leave(c) = IF left.call_depth = 0 THEN UpdateCallbacks(left) ELSE left
  BY DEF Leave
<1>. HIDE DEF left
<1>3. /\ UpdateCallbacks(left) \in CallbackMaps
      /\ UpdateCallbacks(left).call_depth = left.call_depth
      /\ UpdateCallbacks(left).map = (left.map \cup left.to_add) \ left.to_remove
      /\ UpdateCallbacks(left).to_add = {}
      /\ UpdateCallbacks(left).to_remove = {}
  BY <1>1 DEF CallbackMaps, UpdateCallbacks
<1>4. c.call_depth \in Nat
  BY DEF CallbackMaps
<1>. QED  BY <1>1, <1>2, <1>3, <1>4

(* Entering and leaving a map with nothing parked changes nothing: an      *)
(* invocation without callbacks has no effect, and Dispatch need not       *)
(* consider it.                                                            *)
LEMMA LeaveEnter ==
  ASSUME NEW c \in CallbackMaps, ParkedSound(c)
  PROVE  Leave(Enter(c)) = c
<1>1. c.call_depth \in Nat
  BY DEF CallbackMaps
<1>2. Enter(c).call_depth # 0
  BY <1>1, EnterFields
<1>3. Leave(Enter(c)) \in CallbackMaps
  BY <1>2, EnterFields, LeaveFields
<1>4. /\ Leave(Enter(c)).map = c.map
      /\ Leave(Enter(c)).to_add = c.to_add
      /\ Leave(Enter(c)).to_remove = c.to_remove
      /\ Leave(Enter(c)).call_depth = c.call_depth
  <2>. DEFINE e == Enter(c)
  <2>1. /\ e \in CallbackMaps /\ e.call_depth = c.call_depth + 1
        /\ e.map = c.map /\ e.to_add = c.to_add /\ e.to_remove = c.to_remove
    BY EnterFields
  <2>. HIDE DEF e
  <2>2. CASE c.call_depth = 0
    <3>1. /\ Leave(e).map = (c.map \cup c.to_add) \ c.to_remove
          /\ Leave(e).to_add = {} /\ Leave(e).to_remove = {}
          /\ Leave(e).call_depth = 0
      BY <2>1, <2>2, LeaveFields
    <3>2. c.to_add = {} /\ c.to_remove = {}
      BY <2>2 DEF ParkedSound
    <3>. QED  BY <2>2, <3>1, <3>2 DEF e
  <2>3. CASE c.call_depth # 0
    <3>1. e.call_depth # 0 /\ e.call_depth # 1
      BY <1>1, <2>1, <2>3
    <3>. QED  BY <1>1, <2>1, <3>1, LeaveFields DEF e
  <2>. QED  BY <2>2, <2>3
<1>. QED  BY <1>3, <1>4, SameFields

(* The member functions between Enter and Leave: what Add and Remove make  *)
(* of an entered map.                                                      *)
LEMMA AddToFields ==
  ASSUME NEW c \in CallbackMaps, NEW k \in CallbackKeys
  PROVE  \E d \in CallbackMaps :
           /\ AddTo(c, k) = Leave(d)
           /\ d.call_depth = c.call_depth + 1
           /\ d.map = c.map
           /\ d.to_add = c.to_add \cup {k}
           /\ d.to_remove = c.to_remove \ {k}
<1>. DEFINE e == Enter(c)
            d == [ e EXCEPT !.to_add = @ \cup {k}, !.to_remove = @ \ {k} ]
<1>1. AddTo(c, k) = Leave(d)
  BY DEF AddTo
<1>2. e \in CallbackMaps
  BY EnterFields
<1>3. /\ e.call_depth = c.call_depth + 1 /\ e.map = c.map
      /\ e.to_add = c.to_add /\ e.to_remove = c.to_remove
  BY EnterFields
<1>. HIDE DEF e
<1>4. /\ d \in CallbackMaps
      /\ d.call_depth = e.call_depth
      /\ d.map = e.map
      /\ d.to_add = e.to_add \cup {k}
      /\ d.to_remove = e.to_remove \ {k}
  BY <1>2 DEF CallbackMaps
<1>. HIDE DEF d
<1>. QED  BY <1>1, <1>3, <1>4

LEMMA RemoveFromFields ==
  ASSUME NEW c \in CallbackMaps, NEW k \in CallbackKeys
  PROVE  \E d \in CallbackMaps :
           /\ RemoveFrom(c, k) = Leave(d)
           /\ d.call_depth = c.call_depth + 1
           /\ d.map = c.map
           /\ d.to_add = c.to_add \ {k}
           /\ d.to_remove = IF k \in c.map THEN c.to_remove \cup {k}
                                           ELSE c.to_remove
<1>. DEFINE e == Enter(c)
            r == IF k \in c.map THEN e.to_remove \cup {k} ELSE e.to_remove
            d == [ e EXCEPT !.to_add = @ \ {k}, !.to_remove = r ]
<1>1. RemoveFrom(c, k) = Leave(d)
  BY DEF RemoveFrom
<1>2. e \in CallbackMaps
  BY EnterFields
<1>3. /\ e.call_depth = c.call_depth + 1 /\ e.map = c.map
      /\ e.to_add = c.to_add /\ e.to_remove = c.to_remove
  BY EnterFields
<1>. HIDE DEF e
<1>4. r \in SUBSET CallbackKeys
  BY <1>2 DEF CallbackMaps
<1>5. r = IF k \in c.map THEN c.to_remove \cup {k} ELSE c.to_remove
  BY <1>3
<1>. HIDE DEF r
<1>6. /\ d \in CallbackMaps
      /\ d.call_depth = e.call_depth
      /\ d.map = e.map
      /\ d.to_add = e.to_add \ {k}
      /\ d.to_remove = r
  BY <1>2, <1>4 DEF CallbackMaps
<1>. HIDE DEF d
<1>. QED  BY <1>1, <1>3, <1>5, <1>6

(* A map that does not accept a key is not changed by the attempt to       *)
(* remove it.                                                              *)
LEMMA RejectedRemove ==
  ASSUME NEW c \in CallbackMaps, ParkedSound(c), NEW k \in CallbackKeys,
         ~Removes(c, k)
  PROVE  RemoveFrom(c, k) = c
<1>1. PICK d \in CallbackMaps :
        /\ RemoveFrom(c, k) = Leave(d)
        /\ d.call_depth = c.call_depth + 1
        /\ d.map = c.map
        /\ d.to_add = c.to_add \ {k}
        /\ d.to_remove = IF k \in c.map THEN c.to_remove \cup {k}
                                        ELSE c.to_remove
  BY RemoveFromFields
<1>2. d.to_add = c.to_add /\ d.to_remove = c.to_remove
  BY <1>1 DEF Removes, ParkedSound
<1>3. c.call_depth \in Nat
  BY DEF CallbackMaps
<1>4. Leave(d) \in CallbackMaps
  BY <1>1, <1>3, LeaveFields
<1>5. /\ Leave(d).map = c.map
      /\ Leave(d).to_add = c.to_add
      /\ Leave(d).to_remove = c.to_remove
      /\ Leave(d).call_depth = c.call_depth
  <2>1. CASE c.call_depth = 0
    <3>1. /\ Leave(d).map = (c.map \cup c.to_add) \ c.to_remove
          /\ Leave(d).to_add = {} /\ Leave(d).to_remove = {}
          /\ Leave(d).call_depth = 0
      BY <1>1, <1>2, <2>1, LeaveFields
    <3>2. c.to_add = {} /\ c.to_remove = {}
      BY <2>1 DEF ParkedSound
    <3>. QED  BY <2>1, <3>1, <3>2
  <2>2. CASE c.call_depth # 0
    BY <1>1, <1>2, <1>3, <2>2, LeaveFields
  <2>. QED  BY <2>1, <2>2
<1>. QED  BY <1>1, <1>4, <1>5, SameFields

(* Parked or not, a removal is accepted exactly for a current callback.    *)
LEMMA RemovesCurrent ==
  ASSUME NEW c \in CallbackMaps, ParkedSound(c), NEW k
  PROVE  Removes(c, k) <=> k \in Current(c)
BY DEF ParkedSound, Removes, Current

(* Adding a new key: at once when the map is idle, parked otherwise.       *)
LEMMA AddToResult ==
  ASSUME NEW c \in CallbackMaps, ParkedSound(c),
         NEW k \in CallbackKeys, k \notin Stored(c)
  PROVE  /\ AddTo(c, k) \in CallbackMaps
         /\ ParkedSound(AddTo(c, k))
         /\ AddTo(c, k).call_depth = c.call_depth
         /\ c.map \subseteq AddTo(c, k).map
         /\ c.call_depth # 0 => AddTo(c, k).map = c.map
         /\ Stored(AddTo(c, k)) = Stored(c) \cup {k}
         /\ Current(AddTo(c, k)) = Current(c) \cup {k}
<1>1. PICK d \in CallbackMaps :
        /\ AddTo(c, k) = Leave(d)
        /\ d.call_depth = c.call_depth + 1
        /\ d.map = c.map
        /\ d.to_add = c.to_add \cup {k}
        /\ d.to_remove = c.to_remove \ {k}
  BY AddToFields
<1>2. d.to_remove = c.to_remove
  BY <1>1 DEF ParkedSound, Stored
<1>3. c.call_depth \in Nat
  BY DEF CallbackMaps
<1>4. Leave(d) \in CallbackMaps /\ Leave(d).call_depth = c.call_depth
  BY <1>1, <1>3, LeaveFields
<1>5. CASE c.call_depth = 0
  <2>1. /\ Leave(d).map = c.map \cup {k}
        /\ Leave(d).to_add = {} /\ Leave(d).to_remove = {}
    BY <1>1, <1>2, <1>3, <1>5, LeaveFields DEF ParkedSound
  <2>. QED  BY <1>1, <1>4, <1>5, <2>1 DEF ParkedSound, Stored, Current
<1>6. CASE c.call_depth # 0
  <2>1. /\ Leave(d).map = c.map
        /\ Leave(d).to_add = c.to_add \cup {k}
        /\ Leave(d).to_remove = c.to_remove
    BY <1>1, <1>2, <1>3, <1>6, LeaveFields
  <2>. QED  BY <1>1, <1>4, <1>6, <2>1 DEF ParkedSound, Stored, Current
<1>. QED  BY <1>5, <1>6

(* Removing a key the map accepts.                                         *)
LEMMA RemoveFromResult ==
  ASSUME NEW c \in CallbackMaps, ParkedSound(c),
         NEW k \in CallbackKeys, Removes(c, k)
  PROVE  /\ RemoveFrom(c, k) \in CallbackMaps
         /\ ParkedSound(RemoveFrom(c, k))
         /\ RemoveFrom(c, k).call_depth = c.call_depth
         /\ c.call_depth # 0 => RemoveFrom(c, k).map = c.map
         /\ Stored(RemoveFrom(c, k)) \subseteq Stored(c)
         /\ Current(RemoveFrom(c, k)) = Current(c) \ {k}
<1>1. PICK d \in CallbackMaps :
        /\ RemoveFrom(c, k) = Leave(d)
        /\ d.call_depth = c.call_depth + 1
        /\ d.map = c.map
        /\ d.to_add = c.to_add \ {k}
        /\ d.to_remove = IF k \in c.map THEN c.to_remove \cup {k}
                                        ELSE c.to_remove
  BY RemoveFromFields
<1>2. c.call_depth \in Nat
  BY DEF CallbackMaps
<1>3. Leave(d) \in CallbackMaps /\ Leave(d).call_depth = c.call_depth
  BY <1>1, <1>2, LeaveFields
<1>4. CASE c.call_depth = 0
  <2>1. /\ Leave(d).map = c.map \ {k}
        /\ Leave(d).to_add = {} /\ Leave(d).to_remove = {}
    BY <1>1, <1>2, <1>4, LeaveFields DEF ParkedSound, Removes
  <2>. QED  BY <1>1, <1>3, <1>4, <2>1 DEF ParkedSound, Stored, Current
<1>5. CASE c.call_depth # 0
  <2>1. /\ Leave(d).map = c.map
        /\ Leave(d).to_add = c.to_add \ {k}
        /\ Leave(d).to_remove = d.to_remove
    BY <1>1, <1>2, <1>5, LeaveFields
  <2>. QED
    BY <1>1, <1>3, <1>5, <2>1 DEF ParkedSound, Stored, Current, Removes
<1>. QED  BY <1>4, <1>5

(* Entering a map parks nothing and merges nothing.                        *)
LEMMA EnterResult ==
  ASSUME NEW c \in CallbackMaps, ParkedSound(c)
  PROVE  /\ Enter(c) \in CallbackMaps
         /\ ParkedSound(Enter(c))
         /\ Enter(c).call_depth = c.call_depth + 1
         /\ Enter(c).map = c.map
         /\ Stored(Enter(c)) = Stored(c)
         /\ Current(Enter(c)) = Current(c)
<1>1. c.call_depth \in Nat
  BY DEF CallbackMaps
<1>. QED  BY <1>1, EnterFields DEF ParkedSound, Stored, Current

(* Leaving a map that was entered: the current callbacks stay the same,    *)
(* and only the outermost call changes the map.                            *)
LEMMA LeaveResult ==
  ASSUME NEW c \in CallbackMaps, ParkedSound(c), c.call_depth # 0
  PROVE  /\ Leave(c) \in CallbackMaps
         /\ ParkedSound(Leave(c))
         /\ Leave(c).call_depth = c.call_depth - 1
         /\ Leave(c).call_depth # 0 => Leave(c).map = c.map
         /\ Stored(Leave(c)) \subseteq Stored(c)
         /\ Current(Leave(c)) = Current(c)
<1>1. c.call_depth \in Nat
  BY DEF CallbackMaps
<1>2. CASE c.call_depth = 1
  BY <1>2, LeaveFields DEF ParkedSound, Stored, Current
<1>3. CASE c.call_depth # 1
  BY <1>1, <1>3, LeaveFields DEF ParkedSound, Stored, Current
<1>. QED  BY <1>2, <1>3

-----------------------------------------------------------------------------
(* The call stack.                                                         *)

Pass == [ op : Ops, at : CallbackKeys ]

(* The slot of an operation of Ops is a slot.                              *)
LEMMA SlotOfOp == \A op \in Ops : SlotOf(op) \in Slots
BY DEF Slots

(* The invocations in progress on a slot are finitely many.                *)
LEMMA ActiveInFinite ==
  ASSUME NEW ps \in Seq(Pass), NEW s
  PROVE  /\ IsFiniteSet(ActiveIn(ps, s))
         /\ Cardinality(ActiveIn(ps, s)) \in Nat
         /\ Cardinality(ActiveIn(ps, s)) = 0 <=> ActiveIn(ps, s) = {}
<1>1. IsFiniteSet(1 .. Len(ps))
  BY FS_Interval
<1>2. ActiveIn(ps, s) \in SUBSET (1 .. Len(ps))
  BY DEF ActiveIn
<1>3. IsFiniteSet(ActiveIn(ps, s))
  BY <1>1, <1>2, FS_Subset
<1>. QED  BY <1>3, FS_CardinalityType, FS_EmptySet

(* Beginning an invocation adds one to those in progress on its slot, and  *)
(* none to the others'.                                                    *)
LEMMA PushActive ==
  ASSUME NEW ps \in Seq(Pass), NEW p \in Pass, NEW s
  PROVE  Cardinality(ActiveIn(Append(ps, p), s)) =
           Cardinality(ActiveIn(ps, s)) + (IF SlotOf(p.op) = s THEN 1 ELSE 0)
<1>. DEFINE n == Len(ps) + 1
<1>1. /\ Len(ps) \in Nat /\ DOMAIN ps = 1 .. Len(ps)
      /\ DOMAIN Append(ps, p) = 1 .. n
      /\ \A i \in 1 .. Len(ps) : Append(ps, p)[i] = ps[i]
      /\ Append(ps, p)[n] = p
  OBVIOUS
<1>2. n \notin ActiveIn(ps, s)
  BY <1>1 DEF ActiveIn
<1>3. IsFiniteSet(ActiveIn(ps, s)) /\ Cardinality(ActiveIn(ps, s)) \in Nat
  BY ActiveInFinite
<1>4. CASE SlotOf(p.op) = s
  <2>1. ActiveIn(Append(ps, p), s) = ActiveIn(ps, s) \cup {n}
    BY <1>1, <1>4 DEF ActiveIn
  <2>. QED  BY <1>2, <1>3, <1>4, <2>1, FS_AddElement
<1>5. CASE SlotOf(p.op) # s
  <2>1. ActiveIn(Append(ps, p), s) = ActiveIn(ps, s)
    BY <1>1, <1>5 DEF ActiveIn
  <2>. QED  BY <1>3, <1>5, <2>1
<1>. QED  BY <1>4, <1>5

(* Ending the executing invocation takes one away from its slot.           *)
LEMMA PopActive ==
  ASSUME NEW ps \in Seq(Pass), ps # << >>, NEW s
  PROVE  LET q == SubSeq(ps, 1, Len(ps) - 1)
         IN  /\ q \in Seq(Pass)
             /\ DOMAIN q = 1 .. (Len(ps) - 1)
             /\ \A i \in DOMAIN q : q[i] = ps[i]
             /\ Cardinality(ActiveIn(q, s)) =
                  Cardinality(ActiveIn(ps, s))
                    - (IF SlotOf(ps[Len(ps)].op) = s THEN 1 ELSE 0)
<1>. DEFINE n == Len(ps)
            q == SubSeq(ps, 1, n - 1)
<1>1. n \in Nat \ {0} /\ DOMAIN ps = 1 .. n
  OBVIOUS
<1>2. /\ q \in Seq(Pass) /\ Len(q) = n - 1 /\ DOMAIN q = 1 .. (n - 1)
      /\ \A i \in 1 .. (n - 1) : q[i] = ps[i]
  <2>1. \A i \in 1 .. (n - 1) : ps[i] \in Pass
    BY <1>1
  <2>. QED  BY <1>1, <2>1, SubSeqProperties
<1>. HIDE DEF q
<1>3. IsFiniteSet(ActiveIn(ps, s)) /\ Cardinality(ActiveIn(ps, s)) \in Nat
  BY ActiveInFinite
<1>4. ActiveIn(q, s) = ActiveIn(ps, s) \ {n}
  BY <1>1, <1>2 DEF ActiveIn
<1>5. n \in ActiveIn(ps, s) <=> SlotOf(ps[n].op) = s
  BY <1>1 DEF ActiveIn
<1>6. Cardinality(ActiveIn(q, s)) =
        Cardinality(ActiveIn(ps, s)) - (IF SlotOf(ps[n].op) = s THEN 1 ELSE 0)
  <2>1. CASE SlotOf(ps[n].op) = s
    BY <1>3, <1>4, <1>5, <2>1, FS_RemoveElement
  <2>2. CASE SlotOf(ps[n].op) # s
    <3>1. ActiveIn(q, s) = ActiveIn(ps, s)
      BY <1>4, <1>5, <2>2
    <3>. QED  BY <1>3, <2>2, <3>1
  <2>. QED  BY <2>1, <2>2
<1>. QED  BY <1>2, <1>6 DEF q

-----------------------------------------------------------------------------
(* The inductive invariant.                                                *)

(* The initial state satisfies it.                                         *)
LEMMA InitIInv == Init => IInv
<1>. SUFFICES ASSUME Init PROVE IInv
  OBVIOUS
<1>. USE DEF Init
<1>1. EmptyCallbackMap \in CallbackMaps
  BY DEF EmptyCallbackMap, CallbackMaps
<1>2. \A s \in Slots : /\ callbacks[s] = EmptyCallbackMap
                       /\ Stored(callbacks[s]) = {}
                       /\ ParkedSound(callbacks[s])
                       /\ callbacks[s].call_depth = 0
  BY DEF EmptyCallbackMap, Stored, ParkedSound
<1>3. \A s \in Slots : Cardinality(ActiveOn(s)) = 0
  <2>1. \A s \in Slots : ActiveOn(s) = {}
    BY DEF ActiveOn, ActiveIn
  <2>. QED  BY <2>1, FS_EmptySet
<1>4. TypeOK
  <2>1. callbacks \in [ Slots -> CallbackMaps ]
    BY <1>1
  <2>2. passes \in Seq([ op : Ops, at : CallbackKeys ])
    BY EmptySeq
  <2>3. current_callback_key \in 0 .. MaxKeys
    BY BoundsAssumption
  <2>. QED  BY <2>1, <2>2, <2>3 DEF TypeOK
<1>5. KeysIssued /\ KeyInOneMap /\ ParkedChangesSound
  BY <1>2 DEF KeysIssued, KeyInOneMap, ParkedChangesSound
<1>6. DepthMatchesPasses
  BY <1>2, <1>3 DEF DepthMatchesPasses
<1>7. RunningCallbackStored
  BY DEF RunningCallbackStored
<1>. QED  BY <1>4, <1>5, <1>6, <1>7 DEF IInv

(* What a step that replaces one callback map has to ensure.               *)
LEMMA OneMapReplaced ==
  ASSUME TypeOK, NEW s \in Slots, NEW d \in CallbackMaps,
         callbacks' = [ callbacks EXCEPT ![s] = d ]
  PROVE  /\ callbacks' \in [ Slots -> CallbackMaps ]
         /\ callbacks'[s] = d
         /\ \A t \in Slots : t # s => callbacks'[t] = callbacks[t]
BY DEF TypeOK

(* A map on which an invocation is in progress has a call depth, and its   *)
(* passes are on slots.                                                    *)
LEMMA ActiveHasDepth ==
  ASSUME TypeOK, DepthMatchesPasses, NEW s \in Slots
  PROVE  callbacks[s].call_depth = 0 <=> ActiveOn(s) = {}
<1>1. passes \in Seq(Pass)
  BY DEF TypeOK, Pass
<1>. QED  BY <1>1, ActiveInFinite DEF DepthMatchesPasses, ActiveOn

LEMMA PassFacts ==
  ASSUME TypeOK, NEW i \in DOMAIN passes
  PROVE  /\ passes[i] \in Pass
         /\ SlotOf(passes[i].op) \in Slots
         /\ i \in ActiveOn(SlotOf(passes[i].op))
<1>1. passes[i] \in Pass
  <2>1. passes \in Seq(Pass) /\ i \in 1 .. Len(passes)
    BY DEF TypeOK, Pass
  <2>. QED  BY <2>1, ElementOfSeq
<1>2. passes[i].op \in Ops
  BY <1>1 DEF Pass
<1>. QED  BY <1>1, <1>2, SlotOfOp DEF ActiveOn, ActiveIn

(* Steps that leave the call stack alone and change one map as Register    *)
(* and Remove do: the iterations in progress are not disturbed.            *)
LEMMA StackUntouched ==
  ASSUME IInv, NEW s \in Slots, NEW d \in CallbackMaps,
         callbacks' = [ callbacks EXCEPT ![s] = d ], passes' = passes,
         ParkedSound(d),
         d.call_depth = callbacks[s].call_depth,
         d.call_depth # 0 => d.map = callbacks[s].map
  PROVE  /\ ParkedChangesSound'
         /\ DepthMatchesPasses'
         /\ RunningCallbackStored'
<1>. USE DEF IInv
<1>1. /\ callbacks'[s] = d
      /\ \A t \in Slots : t # s => callbacks'[t] = callbacks[t]
  BY OneMapReplaced
<1>2. ParkedChangesSound'
  BY <1>1 DEF ParkedChangesSound
<1>3. DepthMatchesPasses'
  BY <1>1 DEF DepthMatchesPasses, ActiveOn
<1>4. RunningCallbackStored'
  <2>. SUFFICES ASSUME NEW i \in DOMAIN passes
                PROVE  passes[i].at \in callbacks'[SlotOf(passes[i].op)].map
    BY DEF RunningCallbackStored
  <2>. DEFINE t == SlotOf(passes[i].op)
  <2>1. t \in Slots /\ i \in ActiveOn(t) /\ passes[i].at \in callbacks[t].map
    BY PassFacts DEF RunningCallbackStored
  <2>2. callbacks[t].call_depth # 0
    BY <2>1, ActiveHasDepth
  <2>. HIDE DEF t
  <2>3. CASE t = s
    BY <1>1, <2>1, <2>2, <2>3 DEF t
  <2>4. CASE t # s
    BY <1>1, <2>1, <2>4 DEF t
  <2>. QED  BY <2>3, <2>4
<1>. QED  BY <1>2, <1>3, <1>4

(* Register keeps the invariant: the key it uses is new to every map.      *)
LEMMA RegisterStep ==
  ASSUME IInv, NEW s \in Slots, Register(s)
  PROVE  IInv'
<1>. DEFINE k == current_callback_key
            d == AddTo(callbacks[s], k)
<1>1. /\ k \in Nat /\ k < MaxKeys /\ k + 1 \in 0 .. MaxKeys
      /\ k \in CallbackKeys
      /\ callbacks[s] \in CallbackMaps
      /\ ParkedSound(callbacks[s])
      /\ k \notin Stored(callbacks[s])
  BY BoundsAssumption
  DEF IInv, TypeOK, Register, KeysIssued, ParkedChangesSound, CallbackKeys
<1>2. /\ d \in CallbackMaps /\ ParkedSound(d)
      /\ d.call_depth = callbacks[s].call_depth
      /\ callbacks[s].call_depth # 0 => d.map = callbacks[s].map
      /\ Stored(d) = Stored(callbacks[s]) \cup {k}
  BY <1>1, AddToResult
<1>3. /\ callbacks' = [ callbacks EXCEPT ![s] = d ]
      /\ current_callback_key' = k + 1
      /\ passes' = passes /\ terminated' = terminated
  BY DEF Register
<1>. HIDE DEF d
<1>4. /\ callbacks' \in [ Slots -> CallbackMaps ]
      /\ callbacks'[s] = d
      /\ \A t \in Slots : t # s => callbacks'[t] = callbacks[t]
  BY <1>2, <1>3, OneMapReplaced DEF IInv
<1>5. TypeOK'
  BY <1>1, <1>3, <1>4 DEF IInv, TypeOK
<1>6. \A t \in Slots : Stored(callbacks'[t]) \subseteq Stored(callbacks[t]) \cup {k}
  BY <1>2, <1>4
<1>7. \A t \in Slots : \A j \in Stored(callbacks[t]) : j \in Nat /\ j < k
  BY DEF IInv, TypeOK, KeysIssued, Stored, CallbackMaps, CallbackKeys
<1>8. KeysIssued'
  <2>. SUFFICES ASSUME NEW t \in Slots, NEW j \in Stored(callbacks'[t])
                PROVE  j < k + 1
    BY <1>3 DEF KeysIssued
  <2>. QED  BY <1>1, <1>6, <1>7
<1>9. KeyInOneMap'
  <2>. SUFFICES ASSUME NEW t \in Slots, NEW u \in Slots, t # u,
                       NEW j \in Stored(callbacks'[t]), j \in Stored(callbacks'[u])
                PROVE  FALSE
    BY DEF KeyInOneMap
  <2>1. CASE j = k
    <3>1. \A v \in Slots : k \notin Stored(callbacks[v])
      BY <1>1, <1>7
    <3>. QED  BY <1>4, <2>1, <3>1
  <2>2. CASE j # k
    BY <1>6, <2>2 DEF IInv, KeyInOneMap
  <2>. QED  BY <2>1, <2>2
<1>10. ParkedChangesSound' /\ DepthMatchesPasses' /\ RunningCallbackStored'
  BY <1>2, <1>3, StackUntouched
<1>. QED  BY <1>5, <1>8, <1>9, <1>10 DEF IInv

(* Steps that store no callback that was not stored before.                *)
LEMMA NothingStored ==
  ASSUME IInv, current_callback_key' = current_callback_key,
         \A t \in Slots : Stored(callbacks'[t]) \subseteq Stored(callbacks[t])
  PROVE  KeysIssued' /\ KeyInOneMap'
<1>1. KeysIssued'
  BY DEF IInv, KeysIssued
<1>2. KeyInOneMap'
  BY DEF IInv, KeyInOneMap
<1>. QED  BY <1>1, <1>2

(* Remove keeps the invariant, whatever is being iterated over.            *)
LEMMA RemoveStep ==
  ASSUME IInv, NEW k \in 0 .. MaxKeys, Remove(k)
  PROVE  IInv'
<1>1. PICK s \in Slots : /\ Removes(callbacks[s], k)
                         /\ callbacks' = [ callbacks EXCEPT ![s] =
                                             RemoveFrom(callbacks[s], k) ]
  BY DEF Remove
<1>. DEFINE d == RemoveFrom(callbacks[s], k)
<1>2. callbacks[s] \in CallbackMaps /\ ParkedSound(callbacks[s]) /\ k \in CallbackKeys
  BY BoundsAssumption DEF IInv, TypeOK, ParkedChangesSound, CallbackKeys
<1>3. /\ d \in CallbackMaps /\ ParkedSound(d)
      /\ d.call_depth = callbacks[s].call_depth
      /\ callbacks[s].call_depth # 0 => d.map = callbacks[s].map
      /\ Stored(d) \subseteq Stored(callbacks[s])
  BY <1>1, <1>2, RemoveFromResult
<1>4. /\ callbacks' = [ callbacks EXCEPT ![s] = d ]
      /\ current_callback_key' = current_callback_key
      /\ passes' = passes /\ terminated' = terminated
  BY <1>1 DEF Remove
<1>. HIDE DEF d
<1>5. /\ callbacks' \in [ Slots -> CallbackMaps ]
      /\ callbacks'[s] = d
      /\ \A t \in Slots : t # s => callbacks'[t] = callbacks[t]
  BY <1>3, <1>4, OneMapReplaced DEF IInv
<1>6. TypeOK'
  BY <1>4, <1>5 DEF IInv, TypeOK
<1>7. KeysIssued' /\ KeyInOneMap'
  BY <1>3, <1>4, <1>5, NothingStored
<1>8. ParkedChangesSound' /\ DepthMatchesPasses' /\ RunningCallbackStored'
  BY <1>3, <1>4, StackUntouched
<1>. QED  BY <1>6, <1>7, <1>8 DEF IInv

(* Dispatch keeps the invariant: the invocation starts at a callback that  *)
(* is in the map.                                                          *)
LEMMA DispatchStep ==
  ASSUME IInv, NEW op \in Ops, Dispatch(op)
  PROVE  IInv'
<1>. DEFINE s == SlotOf(op)
            d == Enter(callbacks[s])
            p == [ op |-> op, at |-> First(d.map, op) ]
<1>1. /\ s \in Slots
      /\ callbacks[s] \in CallbackMaps
      /\ ParkedSound(callbacks[s])
      /\ passes \in Seq(Pass)
      /\ Len(passes) \in Nat
      /\ DOMAIN passes = 1 .. Len(passes)
      /\ current_callback_key \in Nat
  BY SlotOfOp, BoundsAssumption DEF IInv, TypeOK, ParkedChangesSound, Pass
<1>2. /\ callbacks' = [ callbacks EXCEPT ![s] = d ]
      /\ passes' = Append(passes, p)
      /\ d.map # {}
      /\ current_callback_key' = current_callback_key
      /\ terminated' = terminated
  BY DEF Dispatch
<1>3. /\ d \in CallbackMaps /\ ParkedSound(d)
      /\ d.call_depth = callbacks[s].call_depth + 1
      /\ d.map = callbacks[s].map
      /\ Stored(d) = Stored(callbacks[s])
  BY <1>1, EnterResult
<1>4. First(d.map, op) \in d.map
  <2>1. d.map \in SUBSET (0 .. current_callback_key)
    BY <1>1, <1>3 DEF IInv, KeysIssued, Stored, CallbackMaps, CallbackKeys
  <2>. QED  BY <1>1, <1>2, <2>1, FirstIsAKey
<1>5. p \in Pass /\ p.op = op /\ p.at \in d.map
  BY <1>3, <1>4 DEF Pass, CallbackMaps
<1>. HIDE DEF p, d
<1>6. /\ callbacks' \in [ Slots -> CallbackMaps ]
      /\ callbacks'[s] = d
      /\ \A t \in Slots : t # s => callbacks'[t] = callbacks[t]
  BY <1>1, <1>2, <1>3, OneMapReplaced DEF IInv
<1>7. TypeOK'
  <2>1. passes' \in Seq(Pass)
    BY <1>1, <1>2, <1>5
  <2>. QED  BY <1>2, <1>6, <2>1 DEF IInv, TypeOK, Pass
<1>8. KeysIssued' /\ KeyInOneMap'
  BY <1>2, <1>3, <1>6, NothingStored
<1>9. ParkedChangesSound'
  BY <1>3, <1>6 DEF IInv, ParkedChangesSound
<1>10. DepthMatchesPasses'
  <2>. SUFFICES ASSUME NEW t \in Slots
                PROVE  callbacks'[t].call_depth = Cardinality(ActiveIn(passes', t))
    BY DEF DepthMatchesPasses, ActiveOn
  <2>1. Cardinality(ActiveIn(passes', t)) =
          Cardinality(ActiveIn(passes, t)) + (IF s = t THEN 1 ELSE 0)
    BY <1>1, <1>2, <1>5, PushActive
  <2>2. /\ callbacks[t].call_depth = Cardinality(ActiveIn(passes, t))
        /\ callbacks[t].call_depth \in Nat
    BY DEF IInv, TypeOK, CallbackMaps, DepthMatchesPasses, ActiveOn
  <2>3. CASE t = s
    BY <1>3, <1>6, <2>1, <2>2, <2>3
  <2>4. CASE t # s
    BY <1>6, <2>1, <2>2, <2>4
  <2>. QED  BY <2>3, <2>4
<1>11. RunningCallbackStored'
  <2>. SUFFICES ASSUME NEW i \in DOMAIN passes'
                PROVE  passes'[i].at \in callbacks'[SlotOf(passes'[i].op)].map
    BY DEF RunningCallbackStored
  <2>1. /\ DOMAIN passes' = 1 .. (Len(passes) + 1)
        /\ \A j \in 1 .. Len(passes) : passes'[j] = passes[j]
        /\ passes'[Len(passes) + 1] = p
    BY <1>1, <1>2, <1>5
  <2>2. CASE i = Len(passes) + 1
    BY <1>5, <1>6, <2>1, <2>2
  <2>3. CASE i # Len(passes) + 1
    <3>1. i \in DOMAIN passes /\ passes'[i] = passes[i]
      BY <1>1, <2>1, <2>3
    <3>2. \A t \in Slots : callbacks'[t].map = callbacks[t].map
      BY <1>3, <1>6
    <3>. QED  BY <3>1, <3>2, PassFacts DEF IInv, RunningCallbackStored
  <2>. QED  BY <2>2, <2>3
<1>. QED  BY <1>7, <1>8, <1>9, <1>10, <1>11 DEF IInv

(* NextCallback keeps the invariant: the iterator moves to another         *)
(* callback of the same map.                                               *)
LEMMA NextCallbackStep ==
  ASSUME IInv, NextCallback
  PROVE  IInv'
<1>. DEFINE n == Len(passes)
            k == First(Remaining, Top.op)
<1>1. /\ passes \in Seq(Pass) /\ passes # << >>
      /\ n \in Nat \ {0} /\ DOMAIN passes = 1 .. n
      /\ current_callback_key \in Nat
  BY BoundsAssumption DEF IInv, TypeOK, Pass, NextCallback
<1>2. /\ callbacks' = callbacks
      /\ current_callback_key' = current_callback_key
      /\ terminated' = terminated
      /\ passes' = [ passes EXCEPT ![n].at = k ]
  BY DEF NextCallback
<1>3. TopSlot \in Slots /\ Top \in Pass
  BY <1>1, PassFacts DEF IInv, Top, TopSlot
<1>4. k \in callbacks[TopSlot].map /\ k \in CallbackKeys
  <2>1. /\ Remaining \in SUBSET callbacks[TopSlot].map
        /\ callbacks[TopSlot].map \in SUBSET CallbackKeys
        /\ callbacks[TopSlot].map \in SUBSET (0 .. current_callback_key)
    BY <1>1, <1>3 DEF IInv, TypeOK, KeysIssued, Stored, CallbackMaps,
                      CallbackKeys, Remaining, After
  <2>2. Remaining # {}
    BY DEF NextCallback
  <2>. QED  BY <1>1, <2>1, <2>2, FirstIsAKey
<1>. HIDE DEF k
<1>5. /\ passes' \in Seq(Pass)
      /\ DOMAIN passes' = DOMAIN passes
      /\ \A i \in DOMAIN passes : passes'[i].op = passes[i].op
      /\ \A i \in DOMAIN passes :
           passes'[i].at = IF i = n THEN k ELSE passes[i].at
  <2>. DEFINE p == [ passes[n] EXCEPT !.at = k ]
  <2>1. p \in Pass /\ p.op = passes[n].op /\ p.at = k
    BY <1>3, <1>4 DEF Pass, Top
  <2>2. passes' = [ passes EXCEPT ![n] = p ]
    BY <1>2
  <2>. HIDE DEF p
  <2>. QED  BY <1>1, <2>1, <2>2
<1>6. TypeOK'
  BY <1>2, <1>5 DEF IInv, TypeOK, Pass
<1>7. KeysIssued' /\ KeyInOneMap' /\ ParkedChangesSound'
  BY <1>2 DEF IInv, KeysIssued, KeyInOneMap, ParkedChangesSound
<1>8. DepthMatchesPasses'
  <2>1. \A s \in Slots : ActiveOn(s)' = ActiveOn(s)
    BY <1>5 DEF ActiveOn, ActiveIn
  <2>. QED  BY <1>2, <2>1 DEF IInv, DepthMatchesPasses
<1>9. RunningCallbackStored'
  BY <1>2, <1>4, <1>5 DEF IInv, RunningCallbackStored, Top, TopSlot
<1>. QED  BY <1>6, <1>7, <1>8, <1>9 DEF IInv

(* The end of a pass, by return or by exception, keeps the invariant: the  *)
(* map is merged only if no other invocation is in progress on it.         *)
LEMMA LeavePassStep ==
  ASSUME IInv, passes # << >>, LeavePass
  PROVE  IInv'
<1>. DEFINE s == TopSlot
            n == Len(passes)
            d == Leave(callbacks[s])
<1>1. /\ passes \in Seq(Pass) /\ n \in Nat \ {0} /\ DOMAIN passes = 1 .. n
  BY DEF IInv, TypeOK, Pass
<1>2. s \in Slots /\ n \in ActiveOn(s)
  BY <1>1, PassFacts DEF IInv, Top, TopSlot
<1>3. /\ callbacks' = [ callbacks EXCEPT ![s] = d ]
      /\ passes' = SubSeq(passes, 1, n - 1)
      /\ current_callback_key' = current_callback_key
      /\ terminated' = terminated
  BY DEF LeavePass, Popped
<1>4. /\ callbacks[s] \in CallbackMaps
      /\ ParkedSound(callbacks[s])
      /\ callbacks[s].call_depth # 0
  BY <1>2, ActiveHasDepth DEF IInv, TypeOK, ParkedChangesSound
<1>5. /\ d \in CallbackMaps /\ ParkedSound(d)
      /\ d.call_depth = callbacks[s].call_depth - 1
      /\ d.call_depth # 0 => d.map = callbacks[s].map
      /\ Stored(d) \subseteq Stored(callbacks[s])
  BY <1>4, LeaveResult
<1>6. /\ passes' \in Seq(Pass)
      /\ DOMAIN passes' = 1 .. (n - 1)
      /\ \A i \in DOMAIN passes' : passes'[i] = passes[i]
      /\ \A t : Cardinality(ActiveIn(passes', t)) =
                  Cardinality(ActiveIn(passes, t)) - (IF s = t THEN 1 ELSE 0)
  BY <1>1, <1>3, PopActive DEF TopSlot, Top
<1>. HIDE DEF d, s
<1>7. /\ callbacks' \in [ Slots -> CallbackMaps ]
      /\ callbacks'[s] = d
      /\ \A t \in Slots : t # s => callbacks'[t] = callbacks[t]
  BY <1>2, <1>3, <1>5, OneMapReplaced DEF IInv
<1>8. TypeOK'
  BY <1>3, <1>6, <1>7 DEF IInv, TypeOK, Pass
<1>9. KeysIssued' /\ KeyInOneMap'
  BY <1>3, <1>5, <1>7, NothingStored
<1>10. ParkedChangesSound'
  BY <1>5, <1>7 DEF IInv, ParkedChangesSound
<1>11. DepthMatchesPasses'
  <2>. SUFFICES ASSUME NEW t \in Slots
                PROVE  callbacks'[t].call_depth = Cardinality(ActiveIn(passes', t))
    BY DEF DepthMatchesPasses, ActiveOn
  <2>1. /\ callbacks[t].call_depth = Cardinality(ActiveIn(passes, t))
        /\ callbacks[t].call_depth \in Nat
    BY DEF IInv, TypeOK, CallbackMaps, DepthMatchesPasses, ActiveOn
  <2>2. CASE t = s
    BY <1>5, <1>6, <1>7, <2>1, <2>2
  <2>3. CASE t # s
    BY <1>6, <1>7, <2>1, <2>3
  <2>. QED  BY <2>2, <2>3
<1>12. RunningCallbackStored'
  <2>. SUFFICES ASSUME NEW i \in DOMAIN passes'
                PROVE  passes'[i].at \in callbacks'[SlotOf(passes'[i].op)].map
    BY DEF RunningCallbackStored
  <2>. DEFINE t == SlotOf(passes[i].op)
  <2>1. i \in DOMAIN passes /\ passes'[i] = passes[i]
    BY <1>1, <1>6
  <2>2. t \in Slots /\ passes[i].at \in callbacks[t].map
    BY <2>1, PassFacts DEF IInv, RunningCallbackStored
  <2>3. callbacks'[t].call_depth # 0
    <3>1. i \in ActiveIn(passes', t)
      BY <2>1 DEF ActiveIn
    <3>2. Cardinality(ActiveIn(passes', t)) # 0
      BY <1>6, <3>1, ActiveInFinite
    <3>. QED  BY <1>11, <2>2, <3>2 DEF DepthMatchesPasses, ActiveOn
  <2>. HIDE DEF t
  <2>4. CASE t = s
    BY <1>5, <1>7, <2>1, <2>2, <2>3, <2>4 DEF t
  <2>5. CASE t # s
    BY <1>7, <2>1, <2>2, <2>5 DEF t
  <2>. QED  BY <2>4, <2>5
<1>. QED  BY <1>8, <1>9, <1>10, <1>11, <1>12 DEF IInv

(* Every step keeps the invariant.                                         *)
LEMMA NextIInv == IInv /\ [Next]_vars => IInv'
<1>. SUFFICES ASSUME IInv, [Next]_vars PROVE IInv'
  OBVIOUS
<1>1. ASSUME NEW s \in Slots, Register(s) PROVE IInv'
  BY <1>1, RegisterStep
<1>2. ASSUME NEW k \in 0 .. MaxKeys, Remove(k) PROVE IInv'
  BY <1>2, RemoveStep
<1>3. ASSUME NEW k \in 0 .. MaxKeys, RemoveUnknown(k) PROVE IInv'
  <2>1. terminated' \in BOOLEAN /\ UNCHANGED << callbacks, current_callback_key, passes >>
    BY <1>3 DEF RemoveUnknown
  <2>. QED
    BY <2>1 DEF IInv, TypeOK, KeysIssued, KeyInOneMap, ParkedChangesSound,
                DepthMatchesPasses, RunningCallbackStored, ActiveOn
<1>4. ASSUME NEW op \in Ops, Dispatch(op) PROVE IInv'
  BY <1>4, DispatchStep
<1>5. CASE NextCallback
  BY <1>5, NextCallbackStep
<1>6. CASE EndPass
  BY <1>6, LeavePassStep DEF EndPass
<1>7. CASE Throw
  BY <1>7, LeavePassStep DEF Throw
<1>8. CASE UNCHANGED vars
  BY <1>8 DEF vars, IInv, TypeOK, KeysIssued, KeyInOneMap, ParkedChangesSound,
              DepthMatchesPasses, RunningCallbackStored, ActiveOn
<1>. QED  BY <1>1, <1>2, <1>3, <1>4, <1>5, <1>6, <1>7, <1>8 DEF Next

(* IInv holds in every reachable state.                                    *)
THEOREM Inductive == Spec => []IInv
<1>1. Init => IInv
  BY InitIInv
<1>2. IInv /\ [Next]_vars => IInv'
  BY NextIInv
<1>. QED  BY <1>1, <1>2, PTL DEF Spec

-----------------------------------------------------------------------------
(* The results.                                                            *)

(* Every variable keeps to its type.                                       *)
THEOREM TypeCorrect == Spec => []TypeOK
<1>1. IInv => TypeOK
  BY DEF IInv
<1>. QED  BY <1>1, Inductive, PTL

(* No callback is destroyed while it executes, whatever the callbacks of   *)
(* any nested invocation register and remove, and however they are left.   *)
THEOREM RunningNotDestroyed == Spec => []RunningCallbackStored
<1>1. IInv => RunningCallbackStored
  BY DEF IInv
<1>. QED  BY <1>1, Inductive, PTL

(* The call depth of every map is the number of invocations in progress.   *)
THEOREM DepthCounts == Spec => []DepthMatchesPasses
<1>1. IInv => DepthMatchesPasses
  BY DEF IInv
<1>. QED  BY <1>1, Inductive, PTL

(* Parked changes are always ones that merging applies in full.            *)
THEOREM ParkedAreSound == Spec => []ParkedChangesSound
<1>1. IInv => ParkedChangesSound
  BY DEF IInv
<1>. QED  BY <1>1, Inductive, PTL

(* A key names at most one callback.                                       *)
THEOREM KeysAreUnique == Spec => []KeyInOneMap
<1>1. IInv => KeyInOneMap
  BY DEF IInv
<1>. QED  BY <1>1, Inductive, PTL

(* Remove() accepts exactly the current callbacks.                         *)
THEOREM RemovalIsExact == Spec => []RemoveAcceptsCurrent
<1>1. IInv => RemoveAcceptsCurrent
  BY RemovesCurrent DEF IInv, TypeOK, ParkedChangesSound, RemoveAcceptsCurrent
<1>. QED  BY <1>1, Inductive, PTL

(* What each step makes of one map: which callbacks are current after it,  *)
(* and, between two states in which an invocation is in progress on the    *)
(* map, that the map does not change.                                      *)
MapStep(s) ==
  /\ Current(callbacks'[s]) \subseteq Current(callbacks[s]) \cup {current_callback_key}
  /\ ActiveOn(s) # {} /\ ActiveOn(s)' # {} =>
       callbacks'[s].map = callbacks[s].map

(* A step that replaces one map keeps MapStep for all if it does for that. *)
LEMMA OneMapStep ==
  ASSUME IInv, NEW s \in Slots, NEW d \in CallbackMaps,
         callbacks' = [ callbacks EXCEPT ![s] = d ],
         Current(d) \subseteq Current(callbacks[s]) \cup {current_callback_key},
         ActiveOn(s) # {} /\ ActiveOn(s)' # {} => d.map = callbacks[s].map
  PROVE  \A t \in Slots : MapStep(t)
BY OneMapReplaced DEF IInv, MapStep

LEMMA EveryMapStep ==
  ASSUME IInv, [Next]_vars
  PROVE  \A t \in Slots : MapStep(t)
<1>0. IInv'
  BY NextIInv
<1>1. \A s \in Slots : /\ callbacks[s] \in CallbackMaps
                       /\ ParkedSound(callbacks[s])
                       /\ ActiveOn(s) # {} => callbacks[s].call_depth # 0
                       /\ ActiveOn(s)' # {} => callbacks'[s].call_depth # 0
  <2>1. \A s \in Slots : ActiveOn(s) # {} => callbacks[s].call_depth # 0
    BY ActiveHasDepth DEF IInv
  <2>2. ASSUME NEW s \in Slots
        PROVE  ActiveOn(s)' # {} => callbacks'[s].call_depth # 0
    <3>1. passes' \in Seq(Pass)
      BY <1>0 DEF IInv, TypeOK, Pass
    <3>. QED  BY <1>0, <3>1, ActiveInFinite DEF IInv, DepthMatchesPasses, ActiveOn
  <2>. QED  BY <2>1, <2>2 DEF IInv, TypeOK, ParkedChangesSound
<1>2. ASSUME NEW s \in Slots, Register(s) PROVE \A t \in Slots : MapStep(t)
  <2>. DEFINE k == current_callback_key
              d == AddTo(callbacks[s], k)
  <2>1. k \in CallbackKeys /\ k \notin Stored(callbacks[s])
    BY BoundsAssumption DEF IInv, TypeOK, KeysIssued, CallbackKeys
  <2>2. /\ d \in CallbackMaps
        /\ Current(d) = Current(callbacks[s]) \cup {k}
        /\ callbacks[s].call_depth # 0 => d.map = callbacks[s].map
    BY <1>1, <2>1, AddToResult
  <2>3. callbacks' = [ callbacks EXCEPT ![s] = d ]
    BY <1>2 DEF Register
  <2>. HIDE DEF d
  <2>. QED  BY <1>1, <2>2, <2>3, OneMapStep
<1>3. ASSUME NEW k \in 0 .. MaxKeys, Remove(k) PROVE \A t \in Slots : MapStep(t)
  <2>1. PICK s \in Slots : /\ Removes(callbacks[s], k)
                           /\ callbacks' = [ callbacks EXCEPT ![s] =
                                               RemoveFrom(callbacks[s], k) ]
    BY <1>3 DEF Remove
  <2>. DEFINE d == RemoveFrom(callbacks[s], k)
  <2>2. /\ d \in CallbackMaps
        /\ Current(d) = Current(callbacks[s]) \ {k}
        /\ callbacks[s].call_depth # 0 => d.map = callbacks[s].map
    <3>1. k \in CallbackKeys
      BY BoundsAssumption DEF CallbackKeys
    <3>. QED  BY <1>1, <2>1, <3>1, RemoveFromResult
  <2>3. callbacks' = [ callbacks EXCEPT ![s] = d ]
    BY <2>1
  <2>. HIDE DEF d
  <2>. QED  BY <1>1, <2>2, <2>3, OneMapStep
<1>4. ASSUME NEW op \in Ops, Dispatch(op) PROVE \A t \in Slots : MapStep(t)
  <2>. DEFINE s == SlotOf(op)
              d == Enter(callbacks[s])
  <2>1. s \in Slots
    BY SlotOfOp
  <2>2. d \in CallbackMaps /\ Current(d) = Current(callbacks[s]) /\ d.map = callbacks[s].map
    BY <1>1, <2>1, EnterResult
  <2>3. callbacks' = [ callbacks EXCEPT ![s] = d ]
    BY <1>4 DEF Dispatch
  <2>. HIDE DEF d, s
  <2>. QED  BY <2>1, <2>2, <2>3, OneMapStep
<1>5. CASE NextCallback \/ (\E k \in 0 .. MaxKeys : RemoveUnknown(k)) \/ UNCHANGED vars
  <2>1. callbacks' = callbacks
    BY <1>5 DEF NextCallback, RemoveUnknown, vars
  <2>. QED  BY <2>1 DEF MapStep
<1>6. ASSUME passes # << >>, LeavePass PROVE \A t \in Slots : MapStep(t)
  <2>. DEFINE s == TopSlot
              d == Leave(callbacks[s])
  <2>1. s \in Slots /\ ActiveOn(s) # {}
    <3>1. Len(passes) \in DOMAIN passes
      BY <1>6 DEF IInv, TypeOK, Pass
    <3>. QED  BY <3>1, PassFacts DEF IInv, Top, TopSlot
  <2>2. /\ d \in CallbackMaps /\ Current(d) = Current(callbacks[s])
        /\ d.call_depth # 0 => d.map = callbacks[s].map
    BY <1>1, <2>1, LeaveResult
  <2>3. callbacks' = [ callbacks EXCEPT ![s] = d ]
    BY <1>6 DEF LeavePass
  <2>. HIDE DEF d, s
  <2>4. callbacks'[s] = d
    BY <2>1, <2>2, <2>3, OneMapReplaced DEF IInv
  <2>. QED  BY <1>1, <2>1, <2>2, <2>3, <2>4, OneMapStep
<1>7. CASE EndPass \/ Throw
  BY <1>6, <1>7 DEF EndPass, Throw
<1>. QED  BY <1>2, <1>3, <1>4, <1>5, <1>7 DEF Next

(* A map is not changed while it is iterated over.                         *)
THEOREM IterationIsStable == Spec => IterationStable
<1>1. IInv /\ [Next]_vars =>
        [ \A s \in Slots :
            ActiveOn(s) # {} /\ ActiveOn(s)' # {} =>
              callbacks'[s].map = callbacks[s].map ]_vars
  BY EveryMapStep DEF MapStep
<1>. QED  BY <1>1, Inductive, PTL DEF Spec, IterationStable

(* Removal is for good.                                                    *)
THEOREM RemovedAreGone == Spec => RemovedStaysRemoved
<1>1. IInv /\ [Next]_vars =>
        [ \A s \in Slots :
            Current(callbacks'[s]) \subseteq
              Current(callbacks[s]) \cup {current_callback_key} ]_vars
  BY EveryMapStep DEF MapStep
<1>. QED  BY <1>1, Inductive, PTL DEF Spec, RemovedStaysRemoved

-----------------------------------------------------------------------------
(* The Dispatcher implements the CopyingDispatcher, for any set of         *)
(* operations, any number of callbacks and any nesting of Process calls:   *)
(* each step of the one is a step of the other, under the mapping of       *)
(* Dispatcher!Copying.                                                     *)

(* The mapped variables.                                                   *)
Cur  == [ s \in Slots |-> Current(callbacks[s]) ]
Copy == [ s \in Slots |->
            IF callbacks[s].call_depth = 0 THEN {} ELSE callbacks[s].map ]

(* The two modules mean the same by a slot, an order and an iteration.     *)
LEMMA SameOrder ==
  /\ \A op : Copying!SlotOf(op) = SlotOf(op)
  /\ \A keys, op : Copying!First(keys, op) = First(keys, op)
  /\ \A keys, k, op : Copying!After(keys, k, op) = After(keys, k, op)
  /\ Copying!Slots = Slots
<1>1. \A op : Copying!SlotOf(op) = SlotOf(op)
  BY DEF Copying!SlotOf, SlotOf, Copying!ComponentTypes, ComponentTypes
<1>2. \A op : Copying!Reversed(op) = Reversed(op)
  BY DEF Copying!Reversed, Reversed
<1>3. \A keys, op : Copying!First(keys, op) = First(keys, op)
  BY <1>2 DEF Copying!First, First
<1>4. \A keys, k, op : Copying!After(keys, k, op) = After(keys, k, op)
  BY <1>2 DEF Copying!After, After
<1>5. Copying!Slots = Slots
  BY <1>1 DEF Copying!Slots, Slots
<1>. QED  BY <1>1, <1>3, <1>4, <1>5

LEMMA SameTop ==
  /\ Copying!Top = Top
  /\ Copying!TopSlot = TopSlot
  /\ Copying!Popped = Popped
<1>1. Copying!Top = Top
  BY DEF Copying!Top, Top
<1>. QED  BY <1>1, SameOrder DEF Copying!TopSlot, TopSlot, Copying!Popped, Popped

(* Initial states map to initial states.                                   *)
LEMMA InitRefines == Init => Copying!Init
<1>. SUFFICES ASSUME Init PROVE Copying!Init
  OBVIOUS
<1>1. \A s \in Slots : Current(callbacks[s]) = {} /\ callbacks[s].call_depth = 0
  BY DEF Init, Current, EmptyCallbackMap
<1>2. Cur = [ s \in Slots |-> {} ] /\ Copy = [ s \in Slots |-> {} ]
  BY <1>1 DEF Cur, Copy
<1>. QED  BY <1>2, SameOrder DEF Init, Copying!Init, Cur, Copy

(* A slot is busy for the one when its map has a call depth for the other. *)
LEMMA BusyIsDepth ==
  ASSUME IInv, NEW s \in Slots
  PROVE  Copying!Busy(passes, s) <=> callbacks[s].call_depth # 0
<1>1. Copying!Busy(passes, s) <=> ActiveOn(s) # {}
  BY SameOrder DEF Copying!Busy, ActiveOn, ActiveIn
<1>. QED  BY <1>1, ActiveHasDepth DEF IInv

LEMMA BusyIsDepthNext ==
  ASSUME IInv', NEW s \in Slots
  PROVE  Copying!Busy(passes', s) <=> callbacks'[s].call_depth # 0
<1>1. passes' \in Seq(Pass)
  BY DEF IInv, TypeOK, Pass
<1>2. Copying!Busy(passes', s) <=> ActiveIn(passes', s) # {}
  BY SameOrder DEF Copying!Busy, ActiveIn
<1>. QED  BY <1>1, <1>2, ActiveInFinite DEF IInv, DepthMatchesPasses, ActiveOn

(* What replacing one map is to the mapped variables.                      *)
LEMMA OneMapMapped ==
  ASSUME IInv, NEW s \in Slots, NEW d \in CallbackMaps,
         callbacks' = [ callbacks EXCEPT ![s] = d ]
  PROVE  /\ Cur' = [ Cur EXCEPT ![s] = Current(d) ]
         /\ Copy' = [ Copy EXCEPT ![s] = IF d.call_depth = 0 THEN {} ELSE d.map ]
<1>1. /\ callbacks'[s] = d
      /\ \A t \in Slots : t # s => callbacks'[t] = callbacks[t]
  BY OneMapReplaced DEF IInv
<1>. DEFINE e == IF d.call_depth = 0 THEN {} ELSE d.map
<1>2. \A t \in Slots : Cur'[t] = IF t = s THEN Current(d) ELSE Cur[t]
  BY <1>1 DEF Cur
<1>3. \A t \in Slots : Copy'[t] = IF t = s THEN e ELSE Copy[t]
  BY <1>1 DEF Copy
<1>4. /\ Cur' = [ t \in Slots |-> Cur'[t] ] /\ Copy' = [ t \in Slots |-> Copy'[t] ]
      /\ DOMAIN Cur = Slots /\ DOMAIN Copy = Slots
  BY DEF Cur, Copy
<1>. HIDE DEF e
<1>5. Cur' = [ Cur EXCEPT ![s] = Current(d) ]
  BY <1>2, <1>4
<1>6. Copy' = [ Copy EXCEPT ![s] = e ]
  BY <1>3, <1>4
<1>. QED  BY <1>5, <1>6 DEF e

LEMMA MapFacts ==
  ASSUME IInv, NEW s \in Slots
  PROVE  /\ callbacks[s] \in CallbackMaps
         /\ callbacks[s].call_depth \in Nat
         /\ ParkedSound(callbacks[s])
         /\ Cur[s] = Current(callbacks[s])
         /\ callbacks[s].call_depth = 0 => Copy[s] = {} /\ Cur[s] = callbacks[s].map
         /\ callbacks[s].call_depth # 0 => Copy[s] = callbacks[s].map
<1>1. callbacks[s] \in CallbackMaps /\ ParkedSound(callbacks[s])
  BY DEF IInv, TypeOK, ParkedChangesSound
<1>2. callbacks[s].call_depth \in Nat
  BY <1>1 DEF CallbackMaps
<1>3. callbacks[s].call_depth = 0 => Current(callbacks[s]) = callbacks[s].map
  BY <1>1 DEF ParkedSound, Current
<1>. QED  BY <1>1, <1>2, <1>3 DEF Cur, Copy

(* An assignment of what a function already has there does nothing.        *)
LEMMA NoChange ==
  ASSUME NEW S, NEW f, f = [ t \in S |-> f[t] ], NEW s \in S
  PROVE  [ f EXCEPT ![s] = f[s] ] = f
OBVIOUS

LEMMA Mapped ==
  Cur = [ t \in Slots |-> Cur[t] ] /\ Copy = [ t \in Slots |-> Copy[t] ]
BY DEF Cur, Copy

-----------------------------------------------------------------------------
(* Each action is the action of the same name.                             *)

LEMMA RegisterRefines ==
  ASSUME IInv, NEW s \in Slots, Register(s)
  PROVE  Copying!Register(s)
<1>. DEFINE k == current_callback_key
            c == callbacks[s]
            d == AddTo(c, k)
<1>1. k \in CallbackKeys /\ k \notin Stored(c)
  BY BoundsAssumption DEF IInv, TypeOK, KeysIssued, CallbackKeys
<1>2. /\ d \in CallbackMaps
      /\ Current(d) = Current(c) \cup {k}
      /\ d.call_depth = c.call_depth
      /\ c.call_depth # 0 => d.map = c.map
  BY <1>1, MapFacts, AddToResult
<1>3. callbacks' = [ callbacks EXCEPT ![s] = d ]
  BY DEF Register
<1>. HIDE DEF d
<1>4. Cur' = [ Cur EXCEPT ![s] = Current(d) ]
  BY <1>2, <1>3, OneMapMapped
<1>5. Copy' = Copy
  <2>1. Copy' = [ Copy EXCEPT ![s] = IF d.call_depth = 0 THEN {} ELSE d.map ]
    BY <1>2, <1>3, OneMapMapped
  <2>2. Copy[s] = IF d.call_depth = 0 THEN {} ELSE d.map
    BY <1>2, MapFacts
  <2>. QED  BY <2>1, <2>2, Mapped, NoChange
<1>6. Cur' = [ Cur EXCEPT ![s] = Cur[s] \cup {k} ]
  BY <1>2, <1>4, MapFacts
<1>. QED  BY <1>5, <1>6 DEF Register, Copying!Register, Cur, Copy

LEMMA RemoveRefines ==
  ASSUME IInv, NEW k \in 0 .. MaxKeys, Remove(k)
  PROVE  Copying!Remove(k)
<1>1. PICK s \in Slots : /\ Removes(callbacks[s], k)
                         /\ callbacks' = [ callbacks EXCEPT ![s] =
                                             RemoveFrom(callbacks[s], k) ]
  BY DEF Remove
<1>. DEFINE c == callbacks[s]
            d == RemoveFrom(c, k)
<1>2. k \in CallbackKeys
  BY BoundsAssumption DEF CallbackKeys
<1>3. /\ d \in CallbackMaps
      /\ Current(d) = Current(c) \ {k}
      /\ d.call_depth = c.call_depth
      /\ c.call_depth # 0 => d.map = c.map
  BY <1>1, <1>2, MapFacts, RemoveFromResult
<1>4. callbacks' = [ callbacks EXCEPT ![s] = d ]
  BY <1>1
<1>. HIDE DEF d
<1>5. Cur' = [ Cur EXCEPT ![s] = Current(d) ]
  BY <1>3, <1>4, OneMapMapped
<1>6. Copy' = Copy
  <2>1. Copy' = [ Copy EXCEPT ![s] = IF d.call_depth = 0 THEN {} ELSE d.map ]
    BY <1>3, <1>4, OneMapMapped
  <2>2. Copy[s] = IF d.call_depth = 0 THEN {} ELSE d.map
    BY <1>3, MapFacts
  <2>. QED  BY <2>1, <2>2, Mapped, NoChange
<1>7. k \in Cur[s] /\ Cur' = [ Cur EXCEPT ![s] = Cur[s] \ {k} ]
  <2>1. Cur[s] = Current(c)
    BY MapFacts
  <2>2. k \in Current(c)
    BY <1>1, MapFacts, RemovesCurrent
  <2>. QED  BY <1>3, <1>5, <2>1, <2>2
<1>8. \E t \in Slots : k \in Cur[t] /\ Cur' = [ Cur EXCEPT ![t] = Cur[t] \ {k} ]
  BY <1>7
<1>. QED  BY <1>6, <1>8, SameOrder DEF Remove, Copying!Remove, Cur, Copy

LEMMA RemoveUnknownRefines ==
  ASSUME IInv, NEW k \in 0 .. MaxKeys, RemoveUnknown(k)
  PROVE  Copying!RemoveUnknown(k)
<1>1. \A s \in Slots : k \notin Cur[s]
  BY MapFacts, RemovesCurrent DEF RemoveUnknown
<1>2. Cur' = Cur /\ Copy' = Copy
  BY DEF RemoveUnknown, Cur, Copy
<1>. QED
  BY <1>1, <1>2, SameOrder DEF RemoveUnknown, Copying!RemoveUnknown, Cur, Copy

LEMMA DispatchRefines ==
  ASSUME IInv, NEW op \in Ops, Dispatch(op)
  PROVE  Copying!Dispatch(op)
<1>. DEFINE s == SlotOf(op)
            c == callbacks[s]
            d == Enter(c)
            cs == IF Copying!Busy(passes, s) THEN Copy[s] ELSE Cur[s]
<1>1. s \in Slots
  BY SlotOfOp
<1>2. /\ d \in CallbackMaps /\ Current(d) = Current(c)
      /\ d.map = c.map /\ d.call_depth = c.call_depth + 1
  BY <1>1, MapFacts, EnterResult
<1>3. callbacks' = [ callbacks EXCEPT ![s] = d ]
  BY DEF Dispatch
<1>4. d.map = cs
  BY <1>1, <1>2, MapFacts, BusyIsDepth
<1>5. /\ d.map # {}
      /\ passes' = Append(passes, [ op |-> op, at |-> First(d.map, op) ])
  BY DEF Dispatch
<1>. HIDE DEF d
<1>6. Cur' = Cur
  <2>1. Cur' = [ Cur EXCEPT ![s] = Current(d) ]
    BY <1>1, <1>2, <1>3, OneMapMapped
  <2>2. Current(d) = Cur[s]
    BY <1>1, <1>2, MapFacts
  <2>. QED  BY <1>1, <2>1, <2>2, Mapped, NoChange
<1>7. Copy' = [ Copy EXCEPT ![s] = d.map ]
  <2>1. d.call_depth # 0
    BY <1>1, <1>2, MapFacts
  <2>. QED  BY <1>1, <1>2, <1>3, <2>1, OneMapMapped
<1>8. /\ cs # {} /\ Copy' = [ Copy EXCEPT ![s] = cs ]
      /\ passes' = Append(passes, [ op |-> op, at |-> First(cs, op) ])
  BY <1>4, <1>5, <1>7
<1>. QED  BY <1>6, <1>8, SameOrder DEF Dispatch, Copying!Dispatch, Cur, Copy

LEMMA TopBusy ==
  ASSUME IInv, passes # << >>
  PROVE  /\ TopSlot \in Slots
         /\ callbacks[TopSlot].call_depth # 0
         /\ Copy[TopSlot] = callbacks[TopSlot].map
<1>1. Len(passes) \in DOMAIN passes
  BY DEF IInv, TypeOK, Pass
<1>2. TopSlot \in Slots /\ ActiveOn(TopSlot) # {}
  BY <1>1, PassFacts DEF IInv, Top, TopSlot
<1>. QED  BY <1>2, MapFacts, ActiveHasDepth DEF IInv

LEMMA NextCallbackRefines ==
  ASSUME IInv, NextCallback
  PROVE  Copying!NextCallback
<1>1. Copying!Remaining = Remaining
  <2>1. Copy[TopSlot] = callbacks[TopSlot].map
    BY TopBusy DEF NextCallback
  <2>2. Copying!Remaining = After(Copy[TopSlot], Top.at, Top.op)
    BY SameOrder, SameTop DEF Copying!Remaining, Copy
  <2>. QED  BY <2>1, <2>2 DEF Remaining
<1>2. Cur' = Cur /\ Copy' = Copy
  BY DEF NextCallback, Cur, Copy
<1>3. passes' = [ passes EXCEPT ![Len(passes)].at =
                    Copying!First(Copying!Remaining, Copying!Top.op) ]
  BY <1>1, SameOrder, SameTop, Zenon DEF NextCallback
<1>. QED  BY <1>1, <1>2, <1>3 DEF NextCallback, Copying!NextCallback, Cur, Copy

LEMMA LeavePassRefines ==
  ASSUME IInv, ~terminated, passes # << >>, LeavePass
  PROVE  Copying!LeavePass
<1>. DEFINE s == TopSlot
            c == callbacks[s]
            d == Leave(c)
<1>1. s \in Slots /\ c.call_depth # 0 /\ Copy[s] = c.map
  BY TopBusy
<1>2. /\ d \in CallbackMaps /\ Current(d) = Current(c)
      /\ d.call_depth # 0 => d.map = c.map
  BY <1>1, MapFacts, LeaveResult
<1>3. callbacks' = [ callbacks EXCEPT ![s] = d ] /\ passes' = Popped
  BY DEF LeavePass
<1>. HIDE DEF d
<1>4. Copying!Busy(Popped, s) <=> d.call_depth # 0
  <2>1. IInv'
    BY LeavePassStep
  <2>2. callbacks'[s] = d
    BY <1>1, <1>2, <1>3, OneMapReplaced DEF IInv
  <2>. QED  BY <1>1, <1>3, <2>1, <2>2, BusyIsDepthNext
<1>5. Cur' = Cur
  <2>1. Cur' = [ Cur EXCEPT ![s] = Current(d) ]
    BY <1>1, <1>2, <1>3, OneMapMapped
  <2>2. Current(d) = Cur[s]
    BY <1>1, <1>2, MapFacts
  <2>. QED  BY <1>1, <2>1, <2>2, Mapped, NoChange
<1>6. Copy' = [ Copy EXCEPT ![s] = IF Copying!Busy(Popped, s) THEN Copy[s] ELSE {} ]
  BY <1>1, <1>2, <1>3, <1>4, OneMapMapped
<1>. QED
  BY <1>3, <1>5, <1>6, SameTop DEF LeavePass, Copying!LeavePass, Cur, Copy

-----------------------------------------------------------------------------
(* Every step of the dispatcher is a step of the copying dispatcher.       *)
LEMMA NextRefines == IInv /\ [Next]_vars => [Copying!Next]_(Copying!vars)
<1>. SUFFICES ASSUME IInv, [Next]_vars PROVE [Copying!Next]_(Copying!vars)
  OBVIOUS
<1>1. ASSUME NEW s \in Slots, Register(s) PROVE Copying!Next
  BY <1>1, RegisterRefines, SameOrder DEF Copying!Next
<1>2. ASSUME NEW k \in 0 .. MaxKeys, Remove(k) PROVE Copying!Next
  BY <1>2, RemoveRefines DEF Copying!Next
<1>3. ASSUME NEW k \in 0 .. MaxKeys, RemoveUnknown(k) PROVE Copying!Next
  BY <1>3, RemoveUnknownRefines DEF Copying!Next
<1>4. ASSUME NEW op \in Ops, Dispatch(op) PROVE Copying!Next
  BY <1>4, DispatchRefines DEF Copying!Next
<1>5. CASE NextCallback
  BY <1>5, NextCallbackRefines DEF Copying!Next
<1>6. CASE EndPass \/ Throw
  BY <1>6, LeavePassRefines DEF EndPass, Throw, Copying!Next
<1>7. CASE UNCHANGED vars
  BY <1>7 DEF vars, Copying!vars
<1>. QED  BY <1>1, <1>2, <1>3, <1>4, <1>5, <1>6, <1>7 DEF Next

(* The dispatcher that parks changes cannot be told from one that copies   *)
(* the map for each outermost iteration and applies every change at once.  *)
THEOREM DispatcherImplementsCopying == Spec => ImplementsCopying
<1>1. Init => Copying!Init
  BY InitRefines
<1>2. IInv /\ [Next]_vars => [Copying!Next]_(Copying!vars)
  BY NextRefines
<1>. QED
  BY <1>1, <1>2, Inductive, PTL DEF Spec, ImplementsCopying, Copying!Spec

=============================================================================
