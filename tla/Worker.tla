------------------------------- MODULE Worker -------------------------------
(***************************************************************************)
(* What the two worker programs have in common: main() of startup.cc from  *)
(* the connection onwards.  The worker announces itself, registers its two *)
(* callbacks with a Dispatcher, and processes lists of operations for as   *)
(* long as is_connected holds, a flag that one of the callbacks clears.    *)
(*                                                                         *)
(* `handled` is not a variable of the program: it counts the operations of *)
(* SpatialOS that Process() has come to.                                   *)
(***************************************************************************)
EXTENDS Dispatcher, Connection

CONSTANTS
  Ports,       \* numbers the port argument may be
  MaxArguments \* bound: arguments given to the program

VARIABLES
  pc,           \* where main() is
  target,       \* whom the arguments ask to connect to, and under which name
  is_connected,
  batch,        \* what is left of the list that Process() was given
  said,         \* the messages the worker has written or logged
  handled

workerVars == << pc, target, is_connected, batch, said, handled >>
allVars    == << vars, connectionVars, workerVars >>

WorkerInit ==
  /\ Init
  /\ ConnectionInit
  /\ pc = "arguments"
  /\ target = << >>
  /\ is_connected = FALSE
  /\ batch = << >>
  /\ said = {}
  /\ handled = 0

DisconnectSlot == SlotOf(DisconnectOp)
LogSlot        == << "log_message", NoComponent >>

(* What the connection brings are operations, messages among them.         *)
ASSUME WorkerAssumption ==
  /\ RemoteOps \cup { DisconnectOp, EchoOp } \subseteq Ops
  /\ DisconnectOp.type = "disconnect"
  /\ LogSlot \in Slots
  /\ Ports \subseteq Int
  /\ MaxArguments \in Nat

(* main() went on to `at`, having said `words`.                            *)
Step(from, at, words) ==
  /\ pc = from
  /\ pc' = at
  /\ said' = said \cup words

-----------------------------------------------------------------------------
(* The arguments are no good: main() returns ErrorExitStatus.              *)
PrintUsage ==
  /\ Step("arguments", "exited", { "usage" })
  /\ UNCHANGED << vars, connectionVars, target, is_connected, batch, handled >>

(* Fault: the port is not reduced to sixteen bits.                         *)
PortAsGiven(n) == n

(* std::uint16_t port = atoi(...).                                         *)
Port(n) == n % 2^16

(* The arguments are in order, and name a target.                          *)
Connect(t) ==
  /\ Step("arguments", "connecting", {})
  /\ target' = t
  /\ ConnectAsync(t.via)
  /\ UNCHANGED << vars, is_connected, batch, handled >>

(* future.Get() returns.                                                   *)
Obtain ==
  /\ Step("connecting", "announce", {})
  /\ GetFuture
  /\ UNCHANGED << vars, target, is_connected, batch, handled >>

(* connection.SendLogMessage(..., "Connected successfully").               *)
Announce ==
  /\ Step("announce", "check", { "Connected successfully" })
  /\ UNCHANGED << vars, connectionVars, target, is_connected, batch, handled >>

(* Fault: bool is_connected, not initialized.                              *)
CheckNothing ==
  /\ Step("check", "on_disconnect", {})
  /\ is_connected' \in BOOLEAN
  /\ UNCHANGED << vars, connectionVars, target, batch, handled >>

(* bool is_connected = connection.IsConnected().                           *)
CheckConnected ==
  /\ Step("check", "on_disconnect", {})
  /\ is_connected' \in IsConnected
  /\ UNCHANGED << vars, connectionVars, target, batch, handled >>

(* Fault: the callback is registered for log messages.                     *)
RegisterElsewhere ==
  /\ Step("on_disconnect", "on_log_message", {})
  /\ Register(LogSlot)
  /\ UNCHANGED << connectionVars, target, is_connected, batch, handled >>

RegisterOnDisconnect ==
  /\ Step("on_disconnect", "on_log_message", {})
  /\ Register(DisconnectSlot)
  /\ UNCHANGED << connectionVars, target, is_connected, batch, handled >>

RegisterOnLogMessage(words) ==
  /\ Step("on_log_message", "loop", words)
  /\ Register(LogSlot)
  /\ UNCHANGED << connectionVars, target, is_connected, batch, handled >>

-----------------------------------------------------------------------------
(* while (is_connected): the next list of operations.                      *)
GetOpList ==
  /\ is_connected
  /\ Step("loop", "process", {})
  /\ batch' = queue
  /\ TakeOpList
  /\ UNCHANGED << vars, target, is_connected, handled >>

(* The loop ends: main() returns ErrorExitStatus.                          *)
Return ==
  /\ ~is_connected
  /\ Step("loop", "exited", {})
  /\ UNCHANGED << vars, connectionVars, target, is_connected, batch, handled >>

(* Process() comes to the next operation.                                  *)
Take(op) ==
  /\ passes = << >>
  /\ batch # << >>
  /\ op = Head(batch)
  /\ batch' = Tail(batch)
  /\ handled' = IF op = EchoOp THEN handled ELSE handled + 1
  /\ UNCHANGED << connectionVars, target >>

(* Nobody has registered a callback for it.                                *)
PassOver(op) ==
  /\ Step("process", "process", {})
  /\ Take(op)
  /\ callbacks[SlotOf(op)].map = {}
  /\ UNCHANGED << vars, is_connected >>

(* Fault: the callback does not clear is_connected.                        *)
OnDisconnectReportOnly(op) ==
  /\ op = DisconnectOp
  /\ Step("process", "process", { "[disconnect]" })
  /\ Take(op)
  /\ Dispatch(op)
  /\ UNCHANGED is_connected

(* The callback of OnDisconnect.                                           *)
OnDisconnect(op) ==
  /\ op = DisconnectOp
  /\ Step("process", "process", { "[disconnect]" })
  /\ Take(op)
  /\ Dispatch(op)
  /\ is_connected' = FALSE

(* The callback of OnLogMessage.  A fatal message terminates the process.  *)
OnLogMessage(op) ==
  /\ SlotOf(op) = LogSlot
  /\ IF op.level = "kFatal"
     THEN Step("process", "terminated", { "Fatal error" })
     ELSE Step("process", "process", { "[remote]" })
  /\ Take(op)
  /\ Dispatch(op)
  /\ UNCHANGED is_connected

(* The callback returns; it is the only one for its operations.            *)
CallbackReturns ==
  /\ pc = "process"
  /\ EndPass
  /\ UNCHANGED << connectionVars, workerVars >>

(* Fault: not all of the list is processed.                                *)
EndBeforeEndOfList(at) ==
  /\ passes = << >>
  /\ Step("process", at, {})
  /\ UNCHANGED << vars, connectionVars, target, is_connected, batch, handled >>

(* Process() has come to the end of the list.                              *)
EndOfList(at) ==
  /\ batch = << >>
  /\ passes = << >>
  /\ Step("process", at, {})
  /\ UNCHANGED << vars, connectionVars, target, is_connected, batch, handled >>

ProcessNext == \E op \in Ops : PassOver(op) \/ OnDisconnect(op) \/ OnLogMessage(op)

(* The steps that both programs take.                                      *)
CommonStep ==
  \/ Obtain
  \/ Announce
  \/ CheckConnected
  \/ RegisterOnDisconnect
  \/ GetOpList
  \/ Return
  \/ ProcessNext
  \/ CallbackReturns

Ended == pc \in { "exited", "terminated" }

(* The environment.                                                        *)
SpatialOSStep == ~Ended /\ SpatialOS /\ UNCHANGED << vars, workerVars >>

-----------------------------------------------------------------------------
(* The operations in `waiting` that are not the worker's own are those of  *)
(* `sent` after the first n, each at its place and in the same order.      *)
AreTheRest(waiting, sent, n) ==
  \E place \in [ n + 1 .. Len(sent) -> DOMAIN waiting ] :
    /\ \A i, j \in n + 1 .. Len(sent) : i < j => place[i] < place[j]
    /\ \A i \in n + 1 .. Len(sent) : waiting[place[i]] = sent[i]
    /\ \A k \in DOMAIN waiting :
         waiting[k] # EchoOp => \E i \in n + 1 .. Len(sent) : place[i] = k

(* No operation is lost, handled twice or handled out of order between     *)
(* SpatialOS and the callbacks, those included that arrive before the      *)
(* callbacks are registered.                                               *)
NothingLost == AreTheRest(batch \o queue, delivered, handled)

(* is_connected is the program's copy of the state of the connection.  It  *)
(* may lag behind, but only as long as the disconnection is on its way to  *)
(* the callback that clears it.                                            *)
LagsOnlyBehindTheQueue ==
  is_connected /\ ~link =>
    \E i \in DOMAIN (batch \o queue) : (batch \o queue)[i] = DisconnectOp

(* main() never returns while the connection is up.                        *)
ExitsOnlyWhenDown == pc = "exited" => ~link

(* Every disconnection that Process() has come to has been written to the  *)
(* console.  (README: "When SpatialOS disconnects a worker, a message is   *)
(* written to the console output of the worker".)                          *)
ReportsDisconnect ==
  \A i \in 1 .. handled : delivered[i] = DisconnectOp => "[disconnect]" \in said

(* A worker whose connection is lost, or was refused, comes to its end.    *)
EndsWhenDown == (attempt \in { "made", "failed" } /\ ~link) ~> Ended

(* Every variable keeps to its type.                                       *)
WorkerTypeOK ==
  /\ TypeOK
  /\ pc \in { "arguments", "connecting", "announce", "check", "on_disconnect",
              "on_log_message", "loop", "process", "sleep", "send_first",
              "send_second", "exited", "terminated" }
  /\ target \in { << >> } \cup [ via : { "locator" } ]
       \cup [ via : { "receptionist" }, port : 0 .. 2^16 - 1, id : { "given", "random" } ]
  /\ attempt \in { "none", "queueing", "pending", "made", "failed" }
  /\ link \in BOOLEAN /\ is_connected \in BOOLEAN
  /\ queue \in Seq(Ops) /\ batch \in Seq(Ops)
  /\ delivered \in Seq(RemoteOps \cup { DisconnectOp })
  /\ handled \in 0 .. Len(delivered)
  /\ said \subseteq
       { "usage", "Connected successfully", "listening", "[disconnect]",
         "[remote]", "Fatal error" }

=============================================================================
