---------------------------- MODULE ManagedWorker ---------------------------
(***************************************************************************)
(* The Managed worker (workers/Managed/src/startup.cc).  It connects       *)
(* through the receptionist, and between two lists of operations it sleeps *)
(* and sends two updates of the Position of entity 1.                      *)
(***************************************************************************)
EXTENDS Worker

VARIABLE position \* the Position last sent

managedVars == << allVars, position >>

ManagedInit == WorkerInit /\ position = "unset"

(* argc = 1 stands for the defaults of a local deployment.                 *)
ManagedArguments(given) == IF given = 0 THEN 3 ELSE given

ManagedUsage ==
  /\ \E given \in 0 .. MaxArguments : ManagedArguments(given) \notin { 3, 4 }
  /\ PrintUsage
  /\ UNCHANGED position

(* What the first argument says is not looked at.  Without a worker id the *)
(* worker makes one up.                                                    *)
ManagedConnect ==
  /\ \E given \in 0 .. MaxArguments, port \in Ports :
       /\ ManagedArguments(given) \in { 3, 4 }
       /\ given = 0 => port = 7777
       /\ Connect([ via  |-> "receptionist",
                    port |-> Port(port),
                    id   |-> IF ManagedArguments(given) = 4 THEN "given" ELSE "random" ])
  /\ UNCHANGED position

ManagedRegister ==
  /\ RegisterOnLogMessage(IF is_connected THEN { "listening" } ELSE {})
  /\ UNCHANGED position

ManagedEndOfList == EndOfList("sleep") /\ UNCHANGED position

(* std::this_thread::sleep_for.                                            *)
Sleep ==
  /\ Step("sleep", "send_first", {})
  /\ UNCHANGED << vars, connectionVars, target, is_connected, batch, handled,
                  position >>

SendPosition(from, at, coords) ==
  /\ Step(from, at, {})
  /\ position' = coords
  /\ SendComponentUpdate
  /\ UNCHANGED << vars, target, is_connected, batch, handled >>

(* Fault: the updates are sent in a loop of their own.                     *)
SendSecondAndRepeat == SendPosition("send_second", "send_first", "five")

SendFirst  == SendPosition("send_first", "send_second", "origin")
SendSecond == SendPosition("send_second", "loop", "five")

ManagedStep ==
  \/ CommonStep /\ UNCHANGED position
  \/ ManagedUsage
  \/ ManagedConnect
  \/ ManagedRegister
  \/ ManagedEndOfList
  \/ Sleep
  \/ SendFirst
  \/ SendSecond

-----------------------------------------------------------------------------
(* The worker reads back its own updates, two for each turn of the loop;   *)
(* they do not pile up.                                                    *)
EchoesDoNotPileUp ==
  Cardinality({ i \in DOMAIN queue : queue[i] = EchoOp }) <= 2

(* The worker only sends on a connection it has not seen disconnected.     *)
(* (Comment of DisconnectOp: "the Connection has disconnected and can no   *)
(* longer be used".)                                                       *)
NotUsedAfterDisconnect ==
  [][ position' # position => "[disconnect]" \notin said ]_managedVars

=============================================================================
