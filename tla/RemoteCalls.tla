---------------------------- MODULE RemoteCalls ----------------------------
(***************************************************************************)
(* What commands promise: a call is carried out at most once, with what    *)
(* was asked, and answered at most once; it succeeds with an answer to     *)
(* what was carried out, or fails, which it may although it was carried    *)
(* out or still will be.                                                   *)
(***************************************************************************)
EXTENDS Naturals, Sequences

CONSTANTS Kinds, Asks(_), Replies(_)

VARIABLES
  asked,     \* the calls, each with its kind and what it asks
  executed,  \* which of them were carried out, and on what
  told       \* how they ended

calls == << asked, executed, told >>

Init == asked = << >> /\ executed = {} /\ told = {}

Ask(kind, ask) ==
  /\ asked' = Append(asked, [ kind |-> kind, ask |-> ask ])
  /\ UNCHANGED << executed, told >>

Execute(id) ==
  /\ \A e \in executed : e.id # id
  /\ executed' = executed \cup { [ id |-> id, kind |-> asked[id].kind, ask |-> asked[id].ask ] }
  /\ UNCHANGED << asked, told >>

Succeed(id, reply) ==
  /\ \E e \in executed : e.id = id
  /\ told' = told \cup { [ id |-> id, kind |-> asked[id].kind, reply |-> << reply >> ] }
  /\ UNCHANGED << asked, executed >>

Fail(id) ==
  /\ told' = told \cup { [ id |-> id, kind |-> asked[id].kind, reply |-> << >> ] }
  /\ UNCHANGED << asked, executed >>

Next ==
  \/ \E kind \in Kinds : \E ask \in Asks(kind) : Ask(kind, ask)
  \/ \E id \in DOMAIN asked :
       \/ Execute(id)
       \/ /\ \A t \in told : t.id # id
          /\ Fail(id) \/ \E reply \in Replies(asked[id].kind) : Succeed(id, reply)

Spec == Init /\ [][Next]_calls
=============================================================================
