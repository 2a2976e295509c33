----------------------------- MODULE Connection -----------------------------
(***************************************************************************)
(* worker::Connection as its owner meets it.  Behind it is the SDK's core  *)
(* library, whose threads talk to SpatialOS; nothing of that is in this    *)
(* repository, so the actions under "SpatialOS" are an environment that    *)
(* does what the comments in worker.h allow.                               *)
(***************************************************************************)
EXTENDS Integers, Sequences

CONSTANTS
  RemoteOps,    \* the operations SpatialOS may send, disconnection apart
  DisconnectOp, \* the operation that reports a disconnection
  EchoOp,       \* a component update of the worker's own, read back
  MaxOps        \* bound: operations sent to the worker

ASSUME ConnectionAssumption ==
  /\ MaxOps \in Nat
  /\ DisconnectOp # EchoOp
  /\ DisconnectOp \notin RemoteOps
  /\ EchoOp \notin RemoteOps

VARIABLES
  attempt,   \* none, queueing, pending, made or failed
  link,      \* the connection is up
  queue,     \* what the next GetOpList() returns
  delivered  \* what SpatialOS has ever put there, in order

connectionVars == << attempt, link, queue, delivered >>

ConnectionInit ==
  /\ attempt = "none"
  /\ link = FALSE
  /\ queue = << >>
  /\ delivered = << >>

-----------------------------------------------------------------------------
(* The worker's calls.                                                     *)

(* Connection::ConnectAsync, and Locator::ConnectAsync, which may have to  *)
(* queue first.                                                            *)
ConnectAsync(via) ==
  /\ attempt' = IF via = "locator" THEN "queueing" ELSE "pending"
  /\ UNCHANGED << link, queue, delivered >>

(* Future::Get, without a timeout: it blocks until the attempt is over.    *)
GetFuture ==
  /\ attempt \in { "made", "failed" }
  /\ UNCHANGED connectionVars

(* "Returns true if the Connection object was created correctly and has    *)
(* successfully connected to SpatialOS": of a connection that was made and *)
(* lost since, this allows both answers.                                   *)
IsConnected == { link, attempt = "made" }

(* GetOpList(timeout): whatever has arrived, or nothing when the timeout   *)
(* is exceeded.                                                            *)
TakeOpList ==
  /\ queue' = << >>
  /\ UNCHANGED << attempt, link, delivered >>

(* SendComponentUpdate: "the sent component update is added as an          *)
(* operation to the operation list".                                       *)
SendComponentUpdate ==
  /\ queue' = IF link THEN Append(queue, EchoOp) ELSE queue
  /\ UNCHANGED << attempt, link, delivered >>

-----------------------------------------------------------------------------
(* SpatialOS.                                                              *)

(* A worker in the queue is told how it stands; what the queue status      *)
(* callback answers to an error ends the attempt (ConnectWithLocator).     *)
QueueStatus(error) ==
  /\ attempt = "queueing"
  /\ attempt' = IF error THEN "failed" ELSE "queueing"
  /\ UNCHANGED << link, queue, delivered >>

LeaveQueue ==
  /\ attempt = "queueing"
  /\ attempt' = "pending"
  /\ UNCHANGED << link, queue, delivered >>

Accept ==
  /\ attempt = "pending"
  /\ attempt' = "made"
  /\ link' = TRUE
  /\ UNCHANGED << queue, delivered >>

Refuse ==
  /\ attempt = "pending"
  /\ attempt' = "failed"
  /\ UNCHANGED << link, queue, delivered >>

Arrive(op) ==
  /\ queue' = Append(queue, op)
  /\ delivered' = Append(delivered, op)

Send(op) ==
  /\ link
  /\ Len(delivered) < MaxOps
  /\ Arrive(op)
  /\ UNCHANGED << attempt, link >>

(* The connection is lost; nothing arrives after the disconnection.        *)
LoseLink ==
  /\ link
  /\ link' = FALSE
  /\ Arrive(DisconnectOp)
  /\ UNCHANGED attempt

SpatialOS ==
  \/ \E error \in BOOLEAN : QueueStatus(error)
  \/ LeaveQueue
  \/ Accept
  \/ Refuse
  \/ \E op \in RemoteOps : Send(op)
  \/ LoseLink

=============================================================================
