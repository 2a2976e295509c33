---------------------------- MODULE WorkersProofs ----------------------------
(***************************************************************************)
(* The two worker programs lose no operation, know of a lost connection as *)
(* soon as they may, report it, and end for no other reason.  The proofs   *)
(* come in layers, each of which uses the ones before: the dispatcher, the *)
(* types, the place in main(), the connection, and the operations.         *)
(***************************************************************************)
EXTENDS Workers, DispatcherProofs

(* The operations that SpatialOS sends, and all that may be in the queue.  *)
Sent    == RemoteOps \cup { DisconnectOp }
Arrived == Sent \cup { EchoOp }

LEMMA Constants ==
  /\ Arrived \subseteq Ops
  /\ EchoOp \notin Sent
  /\ DisconnectOp \in Sent /\ DisconnectOp # EchoOp
  /\ DisconnectSlot \in Slots /\ LogSlot \in Slots
  /\ DisconnectSlot # LogSlot
<1>1. Arrived \subseteq Ops
  BY WorkerAssumption DEF Arrived, Sent
<1>2. EchoOp \notin Sent /\ DisconnectOp \in Sent /\ DisconnectOp # EchoOp
  BY ConnectionAssumption DEF Sent
<1>3. DisconnectSlot \in Slots /\ LogSlot \in Slots
  BY WorkerAssumption, SlotOfOp DEF DisconnectSlot
<1>4. DisconnectSlot # LogSlot
  BY WorkerAssumption DEF DisconnectSlot, LogSlot, SlotOf
<1>. QED  BY <1>1, <1>2, <1>3, <1>4

-----------------------------------------------------------------------------
(* The dispatcher.                                                         *)

(* What the program does to its dispatcher is what any user may do.        *)
LEMMA StepOfDispatcher == WorkersNext => [Next]_vars
<1>. SUFFICES ASSUME WorkersNext PROVE [Next]_vars
  OBVIOUS
<1>1. CASE UNCHANGED vars
  BY <1>1
<1>2. CASE Register(DisconnectSlot) \/ Register(LogSlot)
  BY <1>2, Constants DEF Next
<1>3. CASE \E op \in Ops : Dispatch(op)
  BY <1>3 DEF Next
<1>4. CASE EndPass
  BY <1>4 DEF Next
<1>5. \/ UNCHANGED vars
      \/ Register(DisconnectSlot) \/ Register(LogSlot)
      \/ \E op \in Ops : Dispatch(op)
      \/ EndPass
  <2>1. CASE CommonStep
    BY <2>1 DEF CommonStep, Obtain, Announce, CheckConnected, RegisterOnDisconnect,
       GetOpList, Return, ProcessNext, PassOver, OnDisconnect, OnLogMessage,
       CallbackReturns
  <2>2. CASE ManagedStep
    BY <2>1, <2>2 DEF ManagedStep, ManagedUsage, ManagedConnect, ManagedRegister,
       ManagedEndOfList, Sleep, SendFirst, SendSecond, SendPosition, PrintUsage,
       Connect, RegisterOnLogMessage, EndOfList
  <2>3. CASE ExternalStep
    BY <2>1, <2>3 DEF ExternalStep, ExternalUsage, ExternalConnect, ExternalRegister,
       ExternalEndOfList, PrintUsage, Connect, RegisterOnLogMessage, EndOfList
  <2>4. CASE SpatialOSStep
    BY <2>4 DEF SpatialOSStep
  <2>. QED  BY <2>2, <2>3, <2>4 DEF WorkersNext, ProgramStep
<1>. QED  BY <1>1, <1>2, <1>3, <1>4, <1>5

(* The inductive invariant of the dispatcher is one of the programs, too.  *)
THEOREM WorkersDispatch == WorkersSpec => []IInv
<1>1. WorkersInit => IInv
  BY InitIInv DEF WorkersInit, ManagedInit, WorkerInit
<1>2. IInv /\ [WorkersNext]_workersVars => IInv'
  <2>1. UNCHANGED workersVars => UNCHANGED vars
    BY DEF workersVars, managedVars, allVars
  <2>. QED  BY <2>1, StepOfDispatcher, NextIInv
<1>. QED  BY <1>1, <1>2, PTL DEF WorkersSpec

-----------------------------------------------------------------------------
(* The steps of both programs, each once.                                  *)
Targets ==
  [ via : { "locator" } ]
    \cup [ via : { "receptionist" }, port : 0 .. 2^16 - 1, id : { "given", "random" } ]

Words == { {}, { "listening" } }

SleepOn ==
  /\ Step("sleep", "send_first", {})
  /\ UNCHANGED << vars, connectionVars, target, is_connected, batch, handled >>

SendOn(from, at) ==
  /\ Step(from, at, {})
  /\ SendComponentUpdate
  /\ UNCHANGED << vars, target, is_connected, batch, handled >>

StartStep ==
  \/ PrintUsage
  \/ \E t \in Targets : Connect(t)
  \/ Obtain
  \/ Announce
  \/ CheckConnected
  \/ RegisterOnDisconnect
  \/ \E words \in Words : RegisterOnLogMessage(words)

LoopStep ==
  \/ GetOpList
  \/ Return
  \/ \E at \in { "sleep", "loop" } : EndOfList(at)
  \/ SleepOn
  \/ SendOn("send_first", "send_second")
  \/ SendOn("send_second", "loop")
  \/ CallbackReturns

TakeStep == \E op \in Ops : PassOver(op) \/ OnDisconnect(op) \/ OnLogMessage(op)

EnvironmentStep == ~Ended /\ SpatialOS /\ UNCHANGED << vars, workerVars >>

AnyStep == StartStep \/ LoopStep \/ TakeStep \/ EnvironmentStep

(* The port fits sixteen bits, whatever number was given.                  *)
LEMMA PortFits == \A n \in Int : Port(n) \in 0 .. 2^16 - 1
<1>1. 2^16 \in Nat /\ 2^16 > 0
  OBVIOUS
<1>2. \A m \in Nat : m > 0 => \A n \in Int : n % m \in 0 .. m - 1
  OBVIOUS
<1>3. \A n \in Int : n % 2^16 \in 0 .. 2^16 - 1
  BY <1>1, <1>2
<1>. QED  BY <1>3 DEF Port

LEMMA EveryStep == WorkersNext => AnyStep
<1>. SUFFICES ASSUME WorkersNext PROVE AnyStep
  OBVIOUS
<1>1. ASSUME CommonStep PROVE AnyStep
  BY <1>1 DEF CommonStep, AnyStep, StartStep, LoopStep, TakeStep, ProcessNext
<1>2. ASSUME ManagedStep PROVE AnyStep
  <2>1. ASSUME ManagedConnect PROVE \E t \in Targets : Connect(t)
    <3>1. PICK given \in 0 .. MaxArguments, port \in Ports :
            Connect([ via  |-> "receptionist",
                      port |-> Port(port),
                      id   |-> IF ManagedArguments(given) = 4 THEN "given" ELSE "random" ])
      BY <2>1 DEF ManagedConnect
    <3>2. Port(port) \in 0 .. 2^16 - 1
      BY PortFits, WorkerAssumption
    <3>. HIDE DEF Port
    <3>. QED  BY <3>1, <3>2 DEF Targets
  <2>2. CASE CommonStep
    BY <1>1, <2>2
  <2>3. CASE ManagedUsage
    BY <2>3 DEF ManagedUsage, AnyStep, StartStep
  <2>4. CASE ManagedConnect
    BY <2>1, <2>4 DEF AnyStep, StartStep
  <2>5. CASE ManagedRegister
    BY <2>5 DEF ManagedRegister, AnyStep, StartStep, Words
  <2>6. CASE ManagedEndOfList
    BY <2>6 DEF ManagedEndOfList, AnyStep, LoopStep
  <2>7. CASE Sleep
    BY <2>7 DEF Sleep, SleepOn, AnyStep, LoopStep
  <2>8. CASE SendFirst \/ SendSecond
    BY <2>8 DEF SendFirst, SendSecond, SendPosition, SendOn, AnyStep, LoopStep
  <2>. QED  BY <1>2, <2>2, <2>3, <2>4, <2>5, <2>6, <2>7, <2>8 DEF ManagedStep
<1>3. ASSUME ExternalStep PROVE AnyStep
  <2>1. ASSUME ExternalConnect PROVE \E t \in Targets : Connect(t)
    <3>1. PICK arguments \in ExternalArguments, port \in Ports :
            Connect(IF arguments.type = "locator"
                    THEN [ via |-> "locator" ]
                    ELSE [ via |-> "receptionist", port |-> Port(port),
                           id |-> arguments.id ])
      BY <2>1 DEF ExternalConnect
    <3>2. Port(port) \in 0 .. 2^16 - 1
      BY PortFits, WorkerAssumption
    <3>3. arguments.id \in { "given", "random" }
      BY DEF ExternalArguments
    <3>. HIDE DEF Port
    <3>. QED  BY <3>1, <3>2, <3>3 DEF Targets
  <2>2. CASE CommonStep
    BY <1>1, <2>2
  <2>3. CASE ExternalUsage
    BY <2>3 DEF ExternalUsage, AnyStep, StartStep
  <2>4. CASE ExternalConnect
    BY <2>1, <2>4 DEF AnyStep, StartStep
  <2>5. CASE ExternalRegister
    BY <2>5 DEF ExternalRegister, AnyStep, StartStep, Words
  <2>6. CASE ExternalEndOfList
    BY <2>6 DEF ExternalEndOfList, AnyStep, LoopStep
  <2>. QED  BY <1>3, <2>2, <2>3, <2>4, <2>5, <2>6 DEF ExternalStep
<1>4. CASE SpatialOSStep
  BY <1>4 DEF SpatialOSStep, AnyStep, EnvironmentStep
<1>. QED  BY <1>2, <1>3, <1>4 DEF WorkersNext, ProgramStep

-----------------------------------------------------------------------------
(* Types, of the sequences most of all.                                    *)
Places ==
  { "arguments", "connecting", "announce", "check", "on_disconnect",
    "on_log_message", "loop", "process", "sleep", "send_first", "send_second",
    "exited", "terminated" }

TypesInv ==
  /\ pc \in Places
  /\ target \in { << >> } \cup Targets
  /\ attempt \in { "none", "queueing", "pending", "made", "failed" }
  /\ link \in BOOLEAN /\ is_connected \in BOOLEAN
  /\ queue \in Seq(Arrived) /\ batch \in Seq(Arrived)
  /\ delivered \in Seq(Sent)
  /\ handled \in Nat
  /\ said \subseteq
       { "usage", "Connected successfully", "listening", "[disconnect]",
         "[remote]", "Fatal error" }

LEMMA TypesInit == WorkersInit => TypesInv
<1>. SUFFICES ASSUME WorkersInit PROVE TypesInv
  OBVIOUS
<1>1. << >> \in Seq(Arrived) /\ << >> \in Seq(Sent)
  BY EmptySeq
<1>2. /\ queue = << >> /\ delivered = << >> /\ batch = << >>
      /\ pc = "arguments" /\ target = << >> /\ attempt = "none"
      /\ link = FALSE /\ is_connected = FALSE /\ handled = 0 /\ said = {}
  BY DEF WorkersInit, ManagedInit, WorkerInit, ConnectionInit
<1>3. target \in { << >> } \cup Targets
  BY <1>2
<1>. QED  BY <1>1, <1>2, <1>3 DEF TypesInv, Places

LEMMA AppendTypes ==
  ASSUME NEW S, NEW seq \in Seq(S), NEW e \in S
  PROVE  Append(seq, e) \in Seq(S)
BY AppendProperties

(* Taking an operation from the list, whatever happens to it.              *)
LEMMA TakeEffect ==
  ASSUME NEW op, Take(op), batch \in Seq(Arrived), handled \in Nat
  PROVE  /\ op \in Arrived /\ op = Head(batch)
         /\ batch' = Tail(batch) /\ batch' \in Seq(Arrived)
         /\ handled' = IF op = EchoOp THEN handled ELSE handled + 1
         /\ handled' \in Nat
         /\ UNCHANGED << attempt, link, queue, delivered, target >>
<1>1. /\ batch # << >> /\ op = Head(batch) /\ batch' = Tail(batch)
      /\ handled' = IF op = EchoOp THEN handled ELSE handled + 1
      /\ UNCHANGED << attempt, link, queue, delivered, target >>
  BY DEF Take, connectionVars
<1>2. op \in Arrived /\ batch' \in Seq(Arrived)
  BY <1>1, HeadTailProperties
<1>. QED  BY <1>1, <1>2

LEMMA TypesStep == TypesInv /\ AnyStep => TypesInv'
<1>. SUFFICES ASSUME TypesInv, AnyStep PROVE TypesInv'
  OBVIOUS
<1>1. CASE StartStep
  <2>. USE DEF TypesInv, Places, connectionVars, Step
  <2>1. CASE PrintUsage
    BY <2>1 DEF PrintUsage
  <2>2. ASSUME NEW t \in Targets, Connect(t) PROVE TypesInv'
    BY <2>2 DEF Connect, ConnectAsync
  <2>3. CASE Obtain
    BY <2>3 DEF Obtain, GetFuture
  <2>4. CASE Announce
    BY <2>4 DEF Announce
  <2>5. CASE CheckConnected
    BY <2>5 DEF CheckConnected, IsConnected
  <2>6. CASE RegisterOnDisconnect
    BY <2>6 DEF RegisterOnDisconnect
  <2>7. ASSUME NEW words \in Words, RegisterOnLogMessage(words) PROVE TypesInv'
    BY <2>7 DEF RegisterOnLogMessage, Words
  <2>. QED  BY <1>1, <2>1, <2>2, <2>3, <2>4, <2>5, <2>6, <2>7 DEF StartStep
<1>2. CASE LoopStep
  <2>. USE DEF TypesInv, Places, connectionVars, Step
  <2>1. CASE GetOpList
    <3>1. << >> \in Seq(Arrived)
      BY EmptySeq
    <3>. QED  BY <2>1, <3>1 DEF GetOpList, TakeOpList
  <2>2. CASE Return
    BY <2>2 DEF Return
  <2>3. ASSUME NEW at \in { "sleep", "loop" }, EndOfList(at) PROVE TypesInv'
    BY <2>3 DEF EndOfList
  <2>4. CASE SleepOn
    BY <2>4 DEF SleepOn
  <2>5. CASE SendOn("send_first", "send_second") \/ SendOn("send_second", "loop")
    <3>1. Append(queue, EchoOp) \in Seq(Arrived)
      BY AppendTypes DEF Arrived
    <3>2. queue' \in Seq(Arrived)
      BY <2>5, <3>1 DEF SendOn, SendComponentUpdate
    <3>. QED  BY <2>5, <3>2 DEF SendOn, SendComponentUpdate
  <2>6. CASE CallbackReturns
    BY <2>6 DEF CallbackReturns, workerVars
  <2>. QED  BY <1>2, <2>1, <2>2, <2>3, <2>4, <2>5, <2>6 DEF LoopStep
<1>3. CASE TakeStep
  <2>. USE DEF TypesInv, Places, connectionVars, Step
  <2>1. PICK op \in Ops : PassOver(op) \/ OnDisconnect(op) \/ OnLogMessage(op)
    BY <1>3 DEF TakeStep
  <2>2. Take(op)
    BY <2>1 DEF PassOver, OnDisconnect, OnLogMessage
  <2>3. /\ batch' \in Seq(Arrived) /\ handled' \in Nat
        /\ UNCHANGED << attempt, link, queue, delivered, target >>
    BY <2>2, TakeEffect
  <2>5. CASE PassOver(op)
    BY <2>5, <2>3 DEF PassOver
  <2>6. CASE OnDisconnect(op)
    BY <2>6, <2>3 DEF OnDisconnect
  <2>7. CASE OnLogMessage(op)
    BY <2>7, <2>3 DEF OnLogMessage
  <2>. QED  BY <2>1, <2>5, <2>6, <2>7
<1>4. CASE EnvironmentStep
  <2>1. UNCHANGED workerVars
    BY <1>4 DEF EnvironmentStep
  <2>2. ASSUME NEW op \in Sent, Arrive(op)
        PROVE  queue' \in Seq(Arrived) /\ delivered' \in Seq(Sent)
    BY <2>2, AppendTypes DEF TypesInv, Arrive, Arrived
  <2>3. /\ attempt' \in { "none", "queueing", "pending", "made", "failed" }
        /\ link' \in BOOLEAN
        /\ queue' \in Seq(Arrived) /\ delivered' \in Seq(Sent)
    <3>1. CASE \E op \in RemoteOps : Send(op)
      BY <2>2, <3>1 DEF Send, Sent, TypesInv
    <3>2. CASE LoseLink
      BY <2>2, <3>2 DEF LoseLink, Sent, TypesInv
    <3>3. CASE (\E error \in BOOLEAN : QueueStatus(error)) \/ LeaveQueue
                 \/ Accept \/ Refuse
      BY <3>3 DEF QueueStatus, LeaveQueue, Accept, Refuse, TypesInv
    <3>. QED  BY <1>4, <3>1, <3>2, <3>3 DEF EnvironmentStep, SpatialOS
  <2>. QED  BY <2>1, <2>3 DEF TypesInv, workerVars
<1>. QED  BY <1>1, <1>2, <1>3, <1>4 DEF AnyStep

THEOREM WorkersTypes == WorkersSpec => []TypesInv
<1>1. TypesInv /\ [WorkersNext]_workersVars => TypesInv'
  <2>1. TypesInv /\ UNCHANGED workersVars => TypesInv'
    BY DEF TypesInv, workersVars, managedVars, allVars, connectionVars, workerVars
  <2>. QED  BY <2>1, EveryStep, TypesStep
<1>. QED  BY <1>1, TypesInit, PTL DEF WorkersSpec

-----------------------------------------------------------------------------
(* The place in main().  Outside Process() nothing is being delivered and  *)
(* no list is at hand; nobody removes a callback; and once the programs    *)
(* have got past the registration, there is one for the disconnection.     *)
Registered ==
  { "on_log_message", "loop", "process", "sleep", "send_first", "send_second" }

NothingRemoved == \A s \in Slots : callbacks[s].to_remove = {}

PlacesInv ==
  /\ pc \notin { "process", "terminated" } => passes = << >> /\ batch = << >>
  /\ NothingRemoved
  /\ pc \in Registered => callbacks[DisconnectSlot].map # {}

(* What a step of the dispatcher does without losing a callback.           *)
NoneLost == \A s \in Slots : callbacks[s].map \subseteq callbacks'[s].map

LEMMA RegisterEffect ==
  ASSUME IInv, NothingRemoved, passes = << >>, NEW s \in Slots, Register(s)
  PROVE  /\ NothingRemoved' /\ NoneLost
         /\ callbacks'[s].map # {}
         /\ UNCHANGED passes
<1>. DEFINE c == callbacks[s]
            k == current_callback_key
<1>1. c \in CallbackMaps /\ k \in CallbackKeys
  BY DEF IInv, TypeOK, CallbackKeys
<1>2. c.call_depth = 0
  <2>1. ActiveOn(s) = {}
    BY DEF ActiveOn, ActiveIn
  <2>. QED  BY <2>1, ActiveHasDepth DEF IInv
<1>3. PICK d \in CallbackMaps :
        /\ AddTo(c, k) = Leave(d)
        /\ d.call_depth = c.call_depth + 1
        /\ d.map = c.map
        /\ d.to_add = c.to_add \cup {k}
        /\ d.to_remove = c.to_remove \ {k}
  BY <1>1, AddToFields
<1>4. callbacks' = [ callbacks EXCEPT ![s] = Leave(d) ] /\ UNCHANGED passes
  BY <1>3 DEF Register
<1>5. d.call_depth = 1 /\ c.to_remove = {}
  BY <1>2, <1>3 DEF NothingRemoved
<1>6. /\ Leave(d) \in CallbackMaps
      /\ Leave(d).map = (d.map \cup d.to_add) \ d.to_remove
      /\ Leave(d).to_remove = {}
  BY <1>5, LeaveFields
<1>7. /\ callbacks'[s] = Leave(d)
      /\ \A t \in Slots : t # s => callbacks'[t] = callbacks[t]
  BY <1>4, <1>6, OneMapReplaced DEF IInv
<1>8. k \in Leave(d).map /\ c.map \subseteq Leave(d).map
  BY <1>3, <1>5, <1>6
<1>9. NothingRemoved'
  <2>. SUFFICES ASSUME NEW t \in Slots PROVE callbacks'[t].to_remove = {}
    BY DEF NothingRemoved
  <2>. QED  BY <1>6, <1>7 DEF NothingRemoved
<1>10. NoneLost
  <2>. SUFFICES ASSUME NEW t \in Slots PROVE callbacks[t].map \subseteq callbacks'[t].map
    BY DEF NoneLost
  <2>. QED  BY <1>7, <1>8
<1>. QED  BY <1>4, <1>7, <1>8, <1>9, <1>10

LEMMA DispatchEffect ==
  ASSUME IInv, NothingRemoved, NEW op \in Ops, Dispatch(op)
  PROVE  NothingRemoved' /\ NoneLost
<1>. DEFINE s == SlotOf(op)
            c == Enter(callbacks[s])
<1>1. s \in Slots /\ callbacks[s] \in CallbackMaps
  BY SlotOfOp DEF IInv, TypeOK
<1>2. /\ c \in CallbackMaps /\ c.map = callbacks[s].map
      /\ c.to_remove = callbacks[s].to_remove
  BY <1>1, EnterFields
<1>3. callbacks' = [ callbacks EXCEPT ![s] = c ]
  BY DEF Dispatch
<1>. HIDE DEF c, s
<1>4. /\ callbacks'[s] = c
      /\ \A t \in Slots : t # s => callbacks'[t] = callbacks[t]
  BY <1>1, <1>2, <1>3, OneMapReplaced DEF IInv
<1>. QED  BY <1>1, <1>2, <1>4 DEF NothingRemoved, NoneLost

LEMMA EndPassEffect ==
  ASSUME IInv, NothingRemoved, EndPass
  PROVE  NothingRemoved' /\ NoneLost
<1>. DEFINE s == TopSlot
            d == Leave(callbacks[s])
<1>1. /\ passes \in Seq(Pass) /\ passes # << >>
  BY DEF IInv, TypeOK, Pass, EndPass
<1>2. s \in Slots /\ Len(passes) \in ActiveOn(s)
  BY <1>1, PassFacts DEF IInv, Top, TopSlot
<1>3. callbacks[s] \in CallbackMaps /\ callbacks[s].call_depth # 0
  BY <1>2, ActiveHasDepth DEF IInv, TypeOK
<1>4. /\ d \in CallbackMaps /\ d.to_remove = {}
      /\ callbacks[s].map \subseteq d.map
  BY <1>2, <1>3, LeaveFields DEF NothingRemoved
<1>5. callbacks' = [ callbacks EXCEPT ![s] = d ]
  BY DEF EndPass, LeavePass
<1>. HIDE DEF d, s
<1>6. /\ callbacks'[s] = d
      /\ \A t \in Slots : t # s => callbacks'[t] = callbacks[t]
  BY <1>2, <1>4, <1>5, OneMapReplaced DEF IInv
<1>. QED  BY <1>2, <1>4, <1>6 DEF NothingRemoved, NoneLost

LEMMA PlacesInit == WorkersInit => PlacesInv
<1>. SUFFICES ASSUME WorkersInit PROVE PlacesInv
  OBVIOUS
<1>1. pc = "arguments" /\ passes = << >> /\ batch = << >>
      /\ callbacks = [ s \in Slots |-> EmptyCallbackMap ]
  BY DEF WorkersInit, ManagedInit, WorkerInit, Init
<1>. QED  BY <1>1 DEF PlacesInv, Registered, NothingRemoved, EmptyCallbackMap

LEMMA PlacesStep == IInv /\ PlacesInv /\ AnyStep => PlacesInv'
<1>. SUFFICES ASSUME IInv, PlacesInv, AnyStep PROVE PlacesInv'
  OBVIOUS
<1>1. ASSUME UNCHANGED vars PROVE NothingRemoved' /\ NoneLost /\ UNCHANGED passes
  BY <1>1 DEF vars, PlacesInv, NothingRemoved, NoneLost
<1>2. ASSUME NoneLost, pc \in Registered PROVE callbacks'[DisconnectSlot].map # {}
  BY <1>2, Constants DEF NoneLost, PlacesInv
<1>3. CASE StartStep
  <2>. USE DEF Step, PlacesInv
  <2>1. CASE RegisterOnDisconnect
    <3>1. Register(DisconnectSlot) /\ DisconnectSlot \in Slots /\ passes = << >>
      BY <2>1, Constants DEF RegisterOnDisconnect
    <3>2. NothingRemoved' /\ callbacks'[DisconnectSlot].map # {} /\ UNCHANGED passes
      BY <3>1, RegisterEffect
    <3>. QED  BY <2>1, <3>2 DEF RegisterOnDisconnect
  <2>2. ASSUME NEW words \in Words, RegisterOnLogMessage(words) PROVE PlacesInv'
    <3>1. Register(LogSlot) /\ LogSlot \in Slots /\ passes = << >>
      BY <2>2, Constants DEF RegisterOnLogMessage
    <3>2. NothingRemoved' /\ NoneLost /\ UNCHANGED passes
      BY <3>1, RegisterEffect
    <3>3. pc \in Registered
      BY <2>2 DEF RegisterOnLogMessage, Registered
    <3>. QED  BY <1>2, <2>2, <3>2, <3>3 DEF RegisterOnLogMessage
  <2>3. CASE UNCHANGED << vars, batch >> /\ pc' \notin Registered \cup { "terminated" }
             /\ pc \notin { "process", "terminated" }
    BY <1>1, <2>3
  <2>4. \/ RegisterOnDisconnect
        \/ \E words \in Words : RegisterOnLogMessage(words)
        \/ UNCHANGED << vars, batch >> /\ pc' \notin Registered \cup { "terminated" }
             /\ pc \notin { "process", "terminated" }
    BY <1>3 DEF StartStep, PrintUsage, Connect, Obtain, Announce, CheckConnected,
       Registered
  <2>. QED  BY <2>1, <2>2, <2>3, <2>4
<1>4. CASE LoopStep
  <2>. USE DEF Step, PlacesInv
  <2>1. CASE CallbackReturns
    <3>1. NothingRemoved' /\ NoneLost /\ UNCHANGED << pc, batch >> /\ pc = "process"
      BY <2>1, EndPassEffect DEF CallbackReturns, workerVars
    <3>. QED  BY <1>2, <3>1 DEF Registered
  <2>2. CASE GetOpList
    <3>1. pc = "loop" /\ pc' = "process" /\ UNCHANGED vars
      BY <2>2 DEF GetOpList
    <3>. QED  BY <1>1, <1>2, <3>1 DEF Registered
  <2>3. ASSUME NEW at \in { "sleep", "loop" }, EndOfList(at) PROVE PlacesInv'
    <3>1. /\ pc = "process" /\ pc' = at /\ UNCHANGED << vars, batch >>
          /\ passes = << >> /\ batch = << >>
      BY <2>3 DEF EndOfList
    <3>. QED  BY <1>1, <1>2, <3>1 DEF Registered
  <2>4. CASE Return
    <3>1. pc = "loop" /\ pc' = "exited" /\ UNCHANGED << vars, batch >>
      BY <2>4 DEF Return
    <3>. QED  BY <1>1, <3>1 DEF Registered
  <2>5. CASE SleepOn \/ SendOn("send_first", "send_second") \/ SendOn("send_second", "loop")
    <3>1. /\ pc \in { "sleep", "send_first", "send_second" }
          /\ pc' \in { "send_first", "send_second", "loop" }
          /\ UNCHANGED << vars, batch >>
      BY <2>5 DEF SleepOn, SendOn
    <3>. QED  BY <1>1, <1>2, <3>1 DEF Registered
  <2>. QED  BY <1>4, <2>1, <2>2, <2>3, <2>4, <2>5 DEF LoopStep
<1>5. CASE TakeStep
  <2>1. PICK op \in Ops : PassOver(op) \/ OnDisconnect(op) \/ OnLogMessage(op)
    BY <1>5 DEF TakeStep
  <2>2. pc = "process" /\ pc' \in { "process", "terminated" }
    BY <2>1 DEF PassOver, OnDisconnect, OnLogMessage, Step
  <2>3. UNCHANGED vars \/ Dispatch(op)
    BY <2>1 DEF PassOver, OnDisconnect, OnLogMessage
  <2>4. NothingRemoved' /\ NoneLost
    BY <1>1, <2>3, DispatchEffect DEF PlacesInv
  <2>. QED  BY <1>2, <2>2, <2>4 DEF PlacesInv, Registered
<1>6. CASE EnvironmentStep
  <2>1. UNCHANGED << vars, pc, batch >>
    BY <1>6 DEF EnvironmentStep, workerVars
  <2>. QED  BY <1>1, <1>2, <2>1 DEF PlacesInv
<1>. QED  BY <1>3, <1>4, <1>5, <1>6 DEF AnyStep

THEOREM WorkersPlaces == WorkersSpec => []PlacesInv
<1>1. IInv /\ PlacesInv /\ [WorkersNext]_workersVars => PlacesInv'
  <2>1. PlacesInv /\ UNCHANGED workersVars => PlacesInv'
    BY DEF PlacesInv, NothingRemoved, workersVars, managedVars, allVars, vars, workerVars
  <2>. QED  BY <2>1, EveryStep, PlacesStep
<1>. QED  BY <1>1, PlacesInit, WorkersDispatch, PTL DEF WorkersSpec

-----------------------------------------------------------------------------
(* The connection.                                                         *)
HasDisconnect(seq) == \E i \in DOMAIN seq : seq[i] = DisconnectOp

LEMMA NoneInNothing == ~HasDisconnect(<< >>)
BY DEF HasDisconnect

LEMMA DisconnectAppended ==
  ASSUME NEW seq \in Seq(Arrived), NEW op \in Arrived
  PROVE  HasDisconnect(Append(seq, op)) <=> HasDisconnect(seq) \/ op = DisconnectOp
<1>1. /\ Len(seq) \in Nat /\ DOMAIN seq = 1 .. Len(seq)
      /\ DOMAIN Append(seq, op) = 1 .. Len(seq) + 1
      /\ \A i \in 1 .. Len(seq) : Append(seq, op)[i] = seq[i]
      /\ Append(seq, op)[Len(seq) + 1] = op
  BY AppendProperties, LenProperties
<1>2. \A i \in 1 .. Len(seq) + 1 : i \in 1 .. Len(seq) \/ i = Len(seq) + 1
  BY <1>1
<1>. QED  BY <1>1, <1>2 DEF HasDisconnect

LEMMA DisconnectTaken ==
  ASSUME NEW seq \in Seq(Arrived), seq # << >>
  PROVE  HasDisconnect(seq) <=> Head(seq) = DisconnectOp \/ HasDisconnect(Tail(seq))
<1>1. /\ Len(seq) \in Nat \ {0} /\ DOMAIN seq = 1 .. Len(seq)
      /\ Head(seq) = seq[1]
  BY EmptySeq, LenProperties
<1>2. /\ DOMAIN Tail(seq) = 1 .. Len(seq) - 1
      /\ \A i \in 1 .. Len(seq) - 1 : Tail(seq)[i] = seq[i + 1]
  BY <1>1, HeadTailProperties, LenProperties
<1>3. ASSUME HasDisconnect(seq), Head(seq) # DisconnectOp
      PROVE  HasDisconnect(Tail(seq))
  <2>1. PICK i \in 1 .. Len(seq) : seq[i] = DisconnectOp
    BY <1>1, <1>3 DEF HasDisconnect
  <2>2. i - 1 \in 1 .. Len(seq) - 1 /\ (i - 1) + 1 = i
    BY <1>1, <1>3, <2>1
  <2>. QED  BY <1>2, <2>1, <2>2 DEF HasDisconnect
<1>4. ASSUME HasDisconnect(Tail(seq)) PROVE HasDisconnect(seq)
  <2>1. PICK i \in 1 .. Len(seq) - 1 : Tail(seq)[i] = DisconnectOp
    BY <1>2, <1>4 DEF HasDisconnect
  <2>2. i + 1 \in 1 .. Len(seq) /\ seq[i + 1] = DisconnectOp
    BY <1>1, <1>2, <2>1
  <2>. QED  BY <1>1, <2>2 DEF HasDisconnect
<1>5. Head(seq) = DisconnectOp => HasDisconnect(seq)
  BY <1>1 DEF HasDisconnect
<1>. QED  BY <1>3, <1>4, <1>5

LEMMA DisconnectJoined ==
  ASSUME NEW s \in Seq(Arrived), NEW t \in Seq(Arrived),
         HasDisconnect(s) \/ HasDisconnect(t)
  PROVE  HasDisconnect(s \o t)
<1>1. /\ Len(s) \in Nat /\ DOMAIN s = 1 .. Len(s)
      /\ Len(t) \in Nat /\ DOMAIN t = 1 .. Len(t)
  BY LenProperties
<1>2. /\ DOMAIN (s \o t) = 1 .. Len(s) + Len(t)
      /\ \A i \in 1 .. Len(s) + Len(t) :
           (s \o t)[i] = IF i <= Len(s) THEN s[i] ELSE t[i - Len(s)]
  BY ConcatProperties, LenProperties
<1>3. CASE HasDisconnect(s)
  <2>1. PICK i \in 1 .. Len(s) : s[i] = DisconnectOp
    BY <1>1, <1>3 DEF HasDisconnect
  <2>2. i \in 1 .. Len(s) + Len(t) /\ (s \o t)[i] = DisconnectOp
    BY <1>1, <1>2, <2>1
  <2>. QED  BY <1>2, <2>2 DEF HasDisconnect
<1>4. CASE HasDisconnect(t)
  <2>1. PICK i \in 1 .. Len(t) : t[i] = DisconnectOp
    BY <1>1, <1>4 DEF HasDisconnect
  <2>2. /\ Len(s) + i \in 1 .. Len(s) + Len(t) /\ ~(Len(s) + i <= Len(s))
        /\ (Len(s) + i) - Len(s) = i
    BY <1>1
  <2>3. (s \o t)[Len(s) + i] = DisconnectOp
    BY <1>2, <2>1, <2>2
  <2>. QED  BY <1>2, <2>2, <2>3 DEF HasDisconnect
<1>. QED  BY <1>3, <1>4

(* Before the flag is set, and after.                                      *)
Early   == { "connecting", "announce", "check" }
Checked == Registered \cup { "on_disconnect" }

(* The connection has been made and is lost.                               *)
Lost == attempt = "made" /\ ~link

ConnectionInv ==
  /\ link \/ is_connected => attempt = "made"
  /\ attempt # "made" => queue = << >> /\ batch = << >>
  /\ link => ~HasDisconnect(batch) /\ ~HasDisconnect(queue)
  /\ pc = "arguments" => attempt = "none"
  /\ pc \in Checked \cup { "announce", "check" } => attempt \in { "made", "failed" }
  /\ pc \in Checked /\ ~is_connected => ~link
  /\ pc = "exited" => ~link
  /\ Lost /\ (is_connected \/ pc \in Early) =>
       HasDisconnect(batch) \/ HasDisconnect(queue)

LEMMA ConnectionInvInit == WorkersInit => ConnectionInv
<1>. SUFFICES ASSUME WorkersInit PROVE ConnectionInv
  OBVIOUS
<1>1. /\ queue = << >> /\ batch = << >> /\ pc = "arguments" /\ attempt = "none"
      /\ link = FALSE /\ is_connected = FALSE
  BY DEF WorkersInit, ManagedInit, WorkerInit, ConnectionInit
<1>. QED  BY <1>1 DEF ConnectionInv, Checked, Registered, Early, Lost

(* Until the loop, the connection is at most asked about.                  *)
LEMMA ConnectionInvStart ==
  ASSUME TypesInv, ConnectionInv, StartStep
  PROVE  ConnectionInv'
<1>. USE DEF Step, ConnectionInv, Checked, Registered, Early, Lost
<1>1. UNCHANGED << link, queue, batch >>
  BY DEF StartStep, PrintUsage, Connect, ConnectAsync, Obtain, GetFuture, Announce,
     CheckConnected, RegisterOnDisconnect, RegisterOnLogMessage, connectionVars
<1>2. /\ HasDisconnect(batch)' <=> HasDisconnect(batch)
      /\ HasDisconnect(queue)' <=> HasDisconnect(queue)
  BY <1>1 DEF HasDisconnect
<1>3. CASE PrintUsage
  BY <1>1, <1>2, <1>3 DEF PrintUsage, connectionVars
<1>4. ASSUME NEW t \in Targets, Connect(t) PROVE ConnectionInv'
  <2>1. /\ pc = "arguments" /\ pc' = "connecting" /\ UNCHANGED is_connected
        /\ attempt' \in { "queueing", "pending" }
    BY <1>4 DEF Connect, ConnectAsync
  <2>. QED  BY <1>1, <1>2, <2>1
<1>5. CASE Obtain
  <2>1. /\ pc = "connecting" /\ pc' = "announce" /\ attempt \in { "made", "failed" }
        /\ UNCHANGED << attempt, is_connected >>
    BY <1>5 DEF Obtain, GetFuture, connectionVars
  <2>. QED  BY <1>1, <1>2, <2>1
<1>6. CASE Announce
  <2>1. /\ pc = "announce" /\ pc' = "check" /\ UNCHANGED << attempt, is_connected >>
    BY <1>6 DEF Announce, connectionVars
  <2>. QED  BY <1>1, <1>2, <2>1
<1>7. CASE CheckConnected
  <2>1. /\ pc = "check" /\ pc' = "on_disconnect" /\ UNCHANGED attempt
        /\ is_connected' = link \/ is_connected' = (attempt = "made")
    BY <1>7 DEF CheckConnected, IsConnected, connectionVars
  <2>2. is_connected' => attempt = "made"
    BY <2>1
  <2>3. ~is_connected' => ~link
    BY <2>1
  <2>. QED  BY <1>1, <1>2, <2>1, <2>2, <2>3
<1>8. CASE RegisterOnDisconnect
  BY <1>1, <1>2, <1>8 DEF RegisterOnDisconnect, connectionVars
<1>9. ASSUME NEW words \in Words, RegisterOnLogMessage(words) PROVE ConnectionInv'
  BY <1>1, <1>2, <1>9 DEF RegisterOnLogMessage, connectionVars
<1>. QED  BY <1>3, <1>4, <1>5, <1>6, <1>7, <1>8, <1>9 DEF StartStep

(* The loop moves operations from the queue to the list.                   *)
LEMMA ConnectionInvLoop ==
  ASSUME TypesInv, PlacesInv, ConnectionInv, LoopStep
  PROVE  ConnectionInv'
<1>. USE DEF Step, ConnectionInv, Checked, Registered, Early, Lost
<1>1. UNCHANGED << link, attempt, is_connected >>
  BY DEF LoopStep, GetOpList, TakeOpList, Return, EndOfList, SleepOn, SendOn,
     SendComponentUpdate, CallbackReturns, connectionVars, workerVars
<1>2. CASE GetOpList
  <2>1. /\ pc = "loop" /\ pc' = "process" /\ batch = << >>
        /\ batch' = queue /\ queue' = << >>
    BY <1>2 DEF GetOpList, TakeOpList, PlacesInv
  <2>2. HasDisconnect(batch)' <=> HasDisconnect(queue)
    BY <2>1 DEF HasDisconnect
  <2>3. ~HasDisconnect(batch) /\ ~HasDisconnect(queue)'
    BY <2>1 DEF HasDisconnect
  <2>. QED  BY <1>1, <2>1, <2>2, <2>3
<1>3. CASE SendOn("send_first", "send_second") \/ SendOn("send_second", "loop")
  <2>1. /\ pc \in { "send_first", "send_second" } /\ pc' \in { "send_second", "loop" }
        /\ UNCHANGED batch
        /\ queue' = IF link THEN Append(queue, EchoOp) ELSE queue
    BY <1>3 DEF SendOn, SendComponentUpdate
  <2>2. /\ HasDisconnect(batch)' <=> HasDisconnect(batch)
    BY <2>1 DEF HasDisconnect
  <2>3. HasDisconnect(Append(queue, EchoOp)) <=> HasDisconnect(queue)
    BY DisconnectAppended, Constants DEF TypesInv, Arrived
  <2>4. HasDisconnect(queue)' <=> HasDisconnect(queue)
    BY <2>1, <2>3 DEF HasDisconnect
  <2>. QED  BY <1>1, <2>1, <2>2, <2>4
<1>4. CASE UNCHANGED << queue, batch >>
  <2>1. /\ HasDisconnect(batch)' <=> HasDisconnect(batch)
        /\ HasDisconnect(queue)' <=> HasDisconnect(queue)
    BY <1>4 DEF HasDisconnect
  <2>2. CASE Return
    BY <1>1, <1>4, <2>1, <2>2 DEF Return
  <2>3. ASSUME NEW at \in { "sleep", "loop" }, EndOfList(at) PROVE ConnectionInv'
    BY <1>1, <1>4, <2>1, <2>3 DEF EndOfList
  <2>4. CASE SleepOn
    BY <1>1, <1>4, <2>1, <2>4 DEF SleepOn
  <2>5. CASE CallbackReturns
    BY <1>1, <1>4, <2>1, <2>5 DEF CallbackReturns, workerVars
  <2>. QED  BY <1>2, <1>3, <2>2, <2>3, <2>4, <2>5 DEF LoopStep
<1>5. \/ GetOpList
      \/ SendOn("send_first", "send_second") \/ SendOn("send_second", "loop")
      \/ UNCHANGED << queue, batch >>
  BY DEF LoopStep, Return, EndOfList, SleepOn, CallbackReturns, connectionVars,
     workerVars
<1>. QED  BY <1>2, <1>3, <1>4, <1>5

(* A disconnection that is taken from the list finds its callback.         *)
LEMMA DisconnectIsHeard ==
  ASSUME PlacesInv, NEW op, op = DisconnectOp,
         PassOver(op) \/ OnDisconnect(op) \/ OnLogMessage(op)
  PROVE  OnDisconnect(op)
<1>1. ~PassOver(op)
  BY DEF PassOver, Step, PlacesInv, Registered, DisconnectSlot
<1>2. ~OnLogMessage(op)
  BY Constants DEF OnLogMessage, DisconnectSlot
<1>. QED  BY <1>1, <1>2

LEMMA ConnectionInvTake ==
  ASSUME TypesInv, PlacesInv, ConnectionInv, TakeStep
  PROVE  ConnectionInv'
<1>1. PICK op \in Ops : PassOver(op) \/ OnDisconnect(op) \/ OnLogMessage(op)
  BY DEF TakeStep
<1>2. Take(op)
  BY <1>1 DEF PassOver, OnDisconnect, OnLogMessage
<1>3. /\ batch # << >> /\ op = Head(batch) /\ batch' = Tail(batch)
      /\ UNCHANGED << attempt, link, queue >>
  BY <1>2 DEF Take, connectionVars
<1>4. pc = "process" /\ pc' \in { "process", "terminated" }
  BY <1>1 DEF PassOver, OnDisconnect, OnLogMessage, Step
<1>5. HasDisconnect(batch) <=> op = DisconnectOp \/ HasDisconnect(Tail(batch))
  BY <1>3, DisconnectTaken DEF TypesInv
<1>6. /\ HasDisconnect(batch)' <=> HasDisconnect(Tail(batch))
      /\ HasDisconnect(queue)' <=> HasDisconnect(queue)
  BY <1>3 DEF HasDisconnect
<1>. USE DEF ConnectionInv, Checked, Registered, Early, Lost
<1>7. attempt = "made"
  BY <1>3
<1>8. CASE op = DisconnectOp
  <2>1. is_connected' = FALSE
    BY <1>1, <1>8, DisconnectIsHeard DEF OnDisconnect
  <2>2. ~link
    BY <1>5, <1>8
  <2>. QED  BY <1>3, <1>4, <1>6, <1>7, <2>1, <2>2
<1>9. CASE op # DisconnectOp
  <2>1. UNCHANGED is_connected
    BY <1>1, <1>9 DEF PassOver, OnDisconnect, OnLogMessage
  <2>. QED  BY <1>3, <1>4, <1>5, <1>6, <1>7, <1>9, <2>1
<1>. QED  BY <1>8, <1>9

(* Whatever SpatialOS does, the loss of the connection is in the queue     *)
(* from the moment it is lost.                                             *)
LEMMA ConnectionInvEnvironment ==
  ASSUME TypesInv, ConnectionInv, EnvironmentStep
  PROVE  ConnectionInv'
<1>1. UNCHANGED << pc, is_connected, batch >> /\ pc # "exited"
  BY DEF EnvironmentStep, workerVars, Ended
<1>2. HasDisconnect(batch)' <=> HasDisconnect(batch)
  BY <1>1 DEF HasDisconnect
<1>. USE DEF ConnectionInv, Checked, Registered, Early, Lost
<1>3. ASSUME NEW op \in RemoteOps, Send(op) PROVE ConnectionInv'
  <2>1. link /\ UNCHANGED << attempt, link >> /\ queue' = Append(queue, op)
    BY <1>3 DEF Send, Arrive
  <2>4. op \in Arrived /\ op # DisconnectOp /\ queue \in Seq(Arrived)
    BY ConnectionAssumption DEF TypesInv, Arrived, Sent
  <2>2. HasDisconnect(Append(queue, op)) <=> HasDisconnect(queue)
    BY <2>4, DisconnectAppended
  <2>3. HasDisconnect(queue)' <=> HasDisconnect(queue)
    BY <2>1, <2>2 DEF HasDisconnect
  <2>. QED  BY <1>1, <1>2, <2>1, <2>3
<1>4. CASE LoseLink
  <2>1. link /\ link' = FALSE /\ UNCHANGED attempt /\ queue' = Append(queue, DisconnectOp)
    BY <1>4 DEF LoseLink, Arrive
  <2>2. HasDisconnect(Append(queue, DisconnectOp))
    BY DisconnectAppended DEF TypesInv, Arrived, Sent
  <2>3. HasDisconnect(queue)'
    BY <2>1, <2>2 DEF HasDisconnect
  <2>. QED  BY <1>1, <1>2, <2>1, <2>3
<1>5. CASE (\E error \in BOOLEAN : QueueStatus(error)) \/ LeaveQueue \/ Accept \/ Refuse
  <2>1. /\ attempt \in { "queueing", "pending" } /\ UNCHANGED queue
        /\ \/ UNCHANGED link /\ attempt' \in { "queueing", "pending", "failed" }
           \/ link' /\ attempt' = "made"
    BY <1>5 DEF QueueStatus, LeaveQueue, Accept, Refuse
  <2>2. /\ pc \notin Checked \cup { "announce", "check", "arguments" }
        /\ ~is_connected /\ ~link /\ queue = << >> /\ batch = << >>
    BY <2>1
  <2>3. ~HasDisconnect(queue)' /\ ~HasDisconnect(batch)'
    BY <1>1, <2>1, <2>2 DEF HasDisconnect
  <2>. QED  BY <1>1, <2>1, <2>2, <2>3
<1>. QED  BY <1>3, <1>4, <1>5 DEF EnvironmentStep, SpatialOS

THEOREM WorkersConnection == WorkersSpec => []ConnectionInv
<1>1. TypesInv /\ PlacesInv /\ ConnectionInv /\ [WorkersNext]_workersVars
        => ConnectionInv'
  <2>1. ConnectionInv /\ UNCHANGED workersVars => ConnectionInv'
    BY DEF ConnectionInv, HasDisconnect, Lost, workersVars, managedVars, allVars,
       connectionVars, workerVars
  <2>. QED  BY <2>1, EveryStep, ConnectionInvStart, ConnectionInvLoop,
            ConnectionInvTake, ConnectionInvEnvironment DEF AnyStep
<1>. QED  BY <1>1, ConnectionInvInit, WorkersTypes, WorkersPlaces, PTL DEF WorkersSpec

(* is_connected lags behind the connection only while the disconnection    *)
(* waits in the queue or in the list.                                      *)
THEOREM FlagLagsBehindQueue == WorkersSpec => []LagsOnlyBehindTheQueue
<1>1. TypesInv /\ ConnectionInv => LagsOnlyBehindTheQueue
  <2>. SUFFICES ASSUME TypesInv, ConnectionInv, is_connected, ~link
                PROVE  HasDisconnect(batch \o queue)
    BY DEF LagsOnlyBehindTheQueue, HasDisconnect
  <2>1. HasDisconnect(batch) \/ HasDisconnect(queue)
    BY DEF ConnectionInv, Lost
  <2>. QED  BY <2>1, DisconnectJoined DEF TypesInv
<1>. QED  BY <1>1, WorkersTypes, WorkersConnection, PTL

(* main() does not return while the connection is up.                      *)
THEOREM ExitsWhenDown == WorkersSpec => []ExitsOnlyWhenDown
<1>1. ConnectionInv => ExitsOnlyWhenDown
  BY DEF ConnectionInv, ExitsOnlyWhenDown
<1>. QED  BY <1>1, WorkersConnection, PTL

-----------------------------------------------------------------------------
(* The operations.  What is said of them is said of the place of each in   *)
(* what is waiting; the lemmas follow these places through what happens to *)
(* the queue and to the list.                                              *)
Placing(place, w, d, n) ==
  /\ place \in [ n + 1 .. Len(d) -> DOMAIN w ]
  /\ \A i, j \in n + 1 .. Len(d) : i < j => place[i] < place[j]
  /\ \A i \in n + 1 .. Len(d) : w[place[i]] = d[i]
  /\ \A k \in DOMAIN w : w[k] # EchoOp => \E i \in n + 1 .. Len(d) : place[i] = k

LEMMA PlacingExists ==
  ASSUME NEW w, NEW d, NEW n
  PROVE  AreTheRest(w, d, n) <=> \E place : Placing(place, w, d, n)
BY DEF AreTheRest, Placing

LEMMA NothingWaits == AreTheRest(<< >>, << >>, 0)
<1>. DEFINE place == [ i \in 1 .. 0 |-> 0 ]
<1>1. Len(<< >>) = 0 /\ DOMAIN << >> = {} /\ 0 + 1 .. 0 = {}
  OBVIOUS
<1>2. place \in [ 0 + 1 .. 0 -> {} ]
  BY <1>1
<1>. HIDE DEF place
<1>3. Placing(place, << >>, << >>, 0)
  BY <1>1, <1>2 DEF Placing
<1>. QED  BY <1>3, PlacingExists

(* An operation that arrives is put behind the others.                     *)
LEMMA OneArrives ==
  ASSUME NEW w \in Seq(Arrived), NEW d \in Seq(Sent), NEW n \in 0 .. Len(d),
         NEW op \in Sent, AreTheRest(w, d, n)
  PROVE  AreTheRest(Append(w, op), Append(d, op), n)
<1>1. PICK place : Placing(place, w, d, n)
  BY PlacingExists
<1>. DEFINE v == Append(w, op)
            e == Append(d, op)
            lw == Len(w)
            ld == Len(d)
<1>2. /\ lw \in Nat /\ ld \in Nat /\ n \in Nat /\ n <= ld
      /\ DOMAIN w = 1 .. lw
  BY LenProperties
<1>3. /\ Len(v) = lw + 1 /\ DOMAIN v = 1 .. lw + 1
      /\ v[lw + 1] = op /\ \A k \in 1 .. lw : v[k] = w[k]
  <2>1. op \in Arrived
    BY DEF Arrived
  <2>. QED  BY <2>1, AppendProperties, LenProperties
<1>4. /\ Len(e) = ld + 1
      /\ e[ld + 1] = op /\ \A i \in 1 .. ld : e[i] = d[i]
  BY AppendProperties
<1>. HIDE DEF v, e, lw, ld
<1>5. /\ place \in [ n + 1 .. ld -> 1 .. lw ]
      /\ \A i, j \in n + 1 .. ld : i < j => place[i] < place[j]
      /\ \A i \in n + 1 .. ld : w[place[i]] = d[i]
      /\ \A k \in 1 .. lw : w[k] # EchoOp => \E i \in n + 1 .. ld : place[i] = k
  BY <1>1, <1>2 DEF Placing, ld
<1>. DEFINE at == [ i \in n + 1 .. ld + 1 |-> IF i = ld + 1 THEN lw + 1 ELSE place[i] ]
<1>6. /\ at[ld + 1] = lw + 1
      /\ \A i \in n + 1 .. ld : at[i] = place[i] /\ place[i] \in 1 .. lw
  BY <1>2, <1>5
<1>7. at \in [ n + 1 .. ld + 1 -> 1 .. lw + 1 ]
  BY <1>2, <1>5
<1>. HIDE DEF at
<1>8. \A i \in n + 1 .. ld + 1 : i = ld + 1 \/ i \in n + 1 .. ld
  BY <1>2
<1>9. ASSUME NEW i \in n + 1 .. ld + 1, NEW j \in n + 1 .. ld + 1, i < j
      PROVE  at[i] < at[j]
  <2>1. i \in n + 1 .. ld
    BY <1>2, <1>9
  <2>2. CASE j = ld + 1
    BY <1>2, <1>6, <2>1, <2>2
  <2>3. CASE j \in n + 1 .. ld
    BY <1>5, <1>6, <1>9, <2>1, <2>3
  <2>. QED  BY <1>8, <2>2, <2>3
<1>10. ASSUME NEW i \in n + 1 .. ld + 1 PROVE v[at[i]] = e[i]
  <2>1. CASE i = ld + 1
    BY <1>3, <1>4, <1>6, <2>1
  <2>2. CASE i \in n + 1 .. ld
    <3>1. i \in 1 .. ld
      BY <1>2, <2>2
    <3>. QED  BY <1>3, <1>4, <1>5, <1>6, <2>2, <3>1
  <2>. QED  BY <1>8, <2>1, <2>2
<1>11. ASSUME NEW k \in 1 .. lw + 1, v[k] # EchoOp
       PROVE  \E i \in n + 1 .. ld + 1 : at[i] = k
  <2>1. CASE k = lw + 1
    <3>1. ld + 1 \in n + 1 .. ld + 1
      BY <1>2
    <3>. QED  BY <1>6, <2>1, <3>1
  <2>2. CASE k # lw + 1
    <3>1. k \in 1 .. lw
      BY <1>2, <2>2
    <3>2. PICK i \in n + 1 .. ld : place[i] = k
      BY <1>3, <1>5, <1>11, <3>1
    <3>3. i \in n + 1 .. ld + 1
      BY <1>2
    <3>. QED  BY <1>6, <3>2, <3>3
  <2>. QED  BY <2>1, <2>2
<1>12. Placing(at, v, e, n)
  BY <1>3, <1>4, <1>7, <1>9, <1>10, <1>11 DEF Placing
<1>. QED  BY <1>12, PlacingExists DEF v, e

(* The worker's own update comes back behind the others, too.              *)
LEMMA OneEchoed ==
  ASSUME NEW w \in Seq(Arrived), NEW d \in Seq(Sent), NEW n \in 0 .. Len(d),
         AreTheRest(w, d, n)
  PROVE  AreTheRest(Append(w, EchoOp), d, n)
<1>1. PICK place : Placing(place, w, d, n)
  BY PlacingExists
<1>. DEFINE v == Append(w, EchoOp)
            lw == Len(w)
<1>2. lw \in Nat /\ DOMAIN w = 1 .. lw
  BY LenProperties
<1>3. /\ DOMAIN v = 1 .. lw + 1
      /\ v[lw + 1] = EchoOp /\ \A k \in 1 .. lw : v[k] = w[k]
  <2>1. EchoOp \in Arrived
    BY DEF Arrived
  <2>. QED  BY <2>1, AppendProperties, LenProperties
<1>. HIDE DEF v, lw
<1>4. /\ place \in [ n + 1 .. Len(d) -> 1 .. lw ]
      /\ \A i \in n + 1 .. Len(d) : place[i] \in 1 .. lw /\ w[place[i]] = d[i]
  BY <1>1, <1>2 DEF Placing
<1>5. place \in [ n + 1 .. Len(d) -> 1 .. lw + 1 ]
  BY <1>2, <1>4
<1>6. \A i \in n + 1 .. Len(d) : v[place[i]] = d[i]
  BY <1>3, <1>4
<1>7. ASSUME NEW k \in 1 .. lw + 1, v[k] # EchoOp
      PROVE  \E i \in n + 1 .. Len(d) : place[i] = k
  <2>1. k \in 1 .. lw /\ w[k] # EchoOp
    BY <1>2, <1>3, <1>7
  <2>. QED  BY <1>1, <1>2, <2>1 DEF Placing
<1>8. Placing(place, v, d, n)
  BY <1>1, <1>3, <1>5, <1>6, <1>7 DEF Placing
<1>. QED  BY <1>8, PlacingExists DEF v

(* What is taken from the front is the first of SpatialOS's operations     *)
(* that are left, or an update of the worker's own.                        *)
LEMMA FirstIsTaken ==
  ASSUME NEW w \in Seq(Arrived), NEW d \in Seq(Sent), NEW n \in 0 .. Len(d),
         w # << >>, AreTheRest(w, d, n)
  PROVE  /\ Head(w) = EchoOp => AreTheRest(Tail(w), d, n)
         /\ Head(w) # EchoOp => /\ n < Len(d) /\ d[n + 1] = Head(w)
                                /\ AreTheRest(Tail(w), d, n + 1)
<1>1. PICK place : Placing(place, w, d, n)
  BY PlacingExists
<1>. DEFINE v == Tail(w)
            lw == Len(w)
            ld == Len(d)
<1>2. /\ lw \in Nat \ {0} /\ ld \in Nat /\ n \in Nat /\ n <= ld
      /\ DOMAIN w = 1 .. lw /\ Head(w) = w[1]
  BY LenProperties, EmptySeq
<1>3. DOMAIN v = 1 .. lw - 1 /\ \A k \in 1 .. lw - 1 : v[k] = w[k + 1]
  BY <1>2, HeadTailProperties, LenProperties
<1>4. \A i \in n + 1 .. ld : d[i] # EchoOp
  <2>. SUFFICES ASSUME NEW i \in n + 1 .. ld PROVE d[i] # EchoOp
    OBVIOUS
  <2>1. i \in 1 .. Len(d)
    BY <1>2
  <2>2. d[i] \in Sent
    BY <2>1, ElementOfSeq
  <2>. QED  BY <2>2, Constants
<1>. HIDE DEF v, lw, ld
<1>5. /\ \A i \in n + 1 .. ld : place[i] \in 1 .. lw
      /\ \A i, j \in n + 1 .. ld : i < j => place[i] < place[j]
      /\ \A i \in n + 1 .. ld : w[place[i]] = d[i]
      /\ \A k \in 1 .. lw : w[k] # EchoOp => \E i \in n + 1 .. ld : place[i] = k
  BY <1>1, <1>2 DEF Placing, ld
<1>6. ASSUME NEW m \in Nat, n <= m,
             \A i \in m + 1 .. ld : place[i] # 1,
             \A i \in n + 1 .. ld : i \notin m + 1 .. ld => place[i] = 1
      PROVE  AreTheRest(v, d, m)
  <2>. DEFINE at == [ i \in m + 1 .. ld |-> place[i] - 1 ]
  <2>1. \A i \in m + 1 .. ld : i \in n + 1 .. ld
    BY <1>2, <1>6
  <2>2. \A i \in m + 1 .. ld :
          /\ at[i] = place[i] - 1 /\ place[i] \in 1 .. lw
          /\ at[i] \in 1 .. lw - 1 /\ at[i] + 1 = place[i]
    BY <1>2, <1>5, <1>6, <2>1
  <2>3. at \in [ m + 1 .. ld -> 1 .. lw - 1 ]
    BY <2>2
  <2>. HIDE DEF at
  <2>4. ASSUME NEW i \in m + 1 .. ld, NEW j \in m + 1 .. ld, i < j
        PROVE  at[i] < at[j]
    <3>1. place[i] < place[j]
      BY <1>5, <2>1, <2>4
    <3>2. /\ at[i] = place[i] - 1 /\ place[i] \in Int
          /\ at[j] = place[j] - 1 /\ place[j] \in Int
      BY <1>2, <2>2
    <3>. QED  BY <3>1, <3>2
  <2>5. \A i \in m + 1 .. ld : v[at[i]] = d[i]
    BY <1>3, <1>5, <2>1, <2>2
  <2>6. ASSUME NEW k \in 1 .. lw - 1, v[k] # EchoOp
        PROVE  \E i \in m + 1 .. ld : at[i] = k
    <3>1. k + 1 \in 1 .. lw /\ w[k + 1] # EchoOp
      BY <1>2, <1>3, <2>6
    <3>2. PICK i \in n + 1 .. ld : place[i] = k + 1
      BY <1>5, <3>1
    <3>3. i \in m + 1 .. ld
      BY <1>6, <3>2
    <3>. QED  BY <2>2, <3>2, <3>3
  <2>7. Placing(at, v, d, m)
    BY <1>3, <2>3, <2>4, <2>5, <2>6 DEF Placing, ld
  <2>. QED  BY <2>7, PlacingExists
<1>7. ASSUME Head(w) = EchoOp PROVE AreTheRest(v, d, n)
  <2>1. \A i \in n + 1 .. ld : place[i] # 1
    BY <1>2, <1>4, <1>5, <1>7
  <2>. QED  BY <1>2, <1>6, <2>1
<1>8. ASSUME Head(w) # EchoOp
      PROVE  n < ld /\ d[n + 1] = Head(w) /\ AreTheRest(v, d, n + 1)
  <2>1. PICK i \in n + 1 .. ld : place[i] = 1
    BY <1>2, <1>5, <1>8
  <2>2. n < ld /\ n + 1 \in n + 1 .. ld
    BY <1>2, <2>1
  <2>3. i = n + 1
    <3>. SUFFICES ASSUME n + 1 < i PROVE FALSE
      BY <1>2, <2>1
    <3>1. place[n + 1] < 1 /\ place[n + 1] \in 1 .. lw
      BY <1>5, <2>1, <2>2
    <3>. QED  BY <1>2, <3>1
  <2>4. d[n + 1] = Head(w)
    BY <1>2, <1>5, <2>1, <2>3
  <2>5. \A j \in (n + 1) + 1 .. ld : place[j] # 1
    <3>. SUFFICES ASSUME NEW j \in (n + 1) + 1 .. ld PROVE place[j] # 1
      OBVIOUS
    <3>1. j \in n + 1 .. ld /\ n + 1 < j
      BY <1>2
    <3>2. place[n + 1] < place[j] /\ place[n + 1] = 1
      BY <1>5, <2>1, <2>2, <2>3, <3>1
    <3>. QED  BY <3>2
  <2>6. \A j \in n + 1 .. ld : j \notin (n + 1) + 1 .. ld => j = n + 1
    BY <1>2
  <2>7. AreTheRest(v, d, n + 1)
    BY <1>2, <1>6, <2>1, <2>3, <2>5, <2>6
  <2>. QED  BY <2>2, <2>4, <2>7
<1>. QED  BY <1>7, <1>8 DEF v, ld

(* The list is in front of the queue.                                      *)
LEMMA BehindTheList ==
  ASSUME NEW s \in Seq(Arrived), NEW t \in Seq(Arrived), NEW op \in Arrived
  PROVE  s \o Append(t, op) = Append(s \o t, op)
<1>1. /\ Append(t, op) = t \o << op >>
      /\ s \o t \in Seq(Arrived)
  BY AppendIsConcat, ConcatProperties
<1>2. /\ Append(s \o t, op) = (s \o t) \o << op >>
      /\ << op >> \in Seq(Arrived)
  BY <1>1, AppendIsConcat
<1>. QED  BY <1>1, <1>2, ConcatAssociative

LEMMA FrontOfTheList ==
  ASSUME NEW s \in Seq(Arrived), NEW t \in Seq(Arrived), s # << >>
  PROVE  s \o t # << >> /\ Head(s \o t) = Head(s) /\ Tail(s \o t) = Tail(s) \o t
<1>. DEFINE u == s \o t
            v == Tail(s) \o t
            ls == Len(s)
            lt == Len(t)
<1>1. /\ ls \in Nat \ {0} /\ lt \in Nat /\ Head(s) = s[1]
  BY LenProperties, EmptySeq
<1>2. /\ u \in Seq(Arrived) /\ Len(u) = ls + lt
      /\ \A i \in 1 .. ls + lt : u[i] = IF i <= ls THEN s[i] ELSE t[i - ls]
  BY ConcatProperties
<1>3. /\ Tail(s) \in Seq(Arrived) /\ Len(Tail(s)) = ls - 1
      /\ \A i \in 1 .. ls - 1 : Tail(s)[i] = s[i + 1]
  BY HeadTailProperties
<1>4. /\ v \in Seq(Arrived) /\ Len(v) = (ls - 1) + lt
      /\ \A i \in 1 .. (ls - 1) + lt :
           v[i] = IF i <= ls - 1 THEN Tail(s)[i] ELSE t[i - (ls - 1)]
  BY <1>3, ConcatProperties
<1>. HIDE DEF u, v
<1>5. u # << >>
  BY <1>1, <1>2, EmptySeq
<1>6. /\ Tail(u) \in Seq(Arrived) /\ Len(Tail(u)) = ls + lt - 1
      /\ \A i \in 1 .. ls + lt - 1 : Tail(u)[i] = u[i + 1]
  BY <1>2, <1>5, HeadTailProperties
<1>. HIDE DEF ls, lt
<1>7. Head(u) = s[1]
  <2>1. Head(u) = u[1]
    BY <1>2, <1>5
  <2>2. 1 \in 1 .. ls + lt /\ 1 <= ls
    BY <1>1
  <2>. QED  BY <1>2, <2>1, <2>2
<1>8. ASSUME NEW i \in 1 .. ls + lt - 1 PROVE Tail(u)[i] = v[i]
  <2>1. /\ i \in Nat /\ i + 1 \in 1 .. ls + lt /\ i \in 1 .. (ls - 1) + lt
        /\ i <= ls - 1 <=> i + 1 <= ls
        /\ (i + 1) - ls = i - (ls - 1)
        /\ i <= ls - 1 => i \in 1 .. ls - 1
    BY <1>1
  <2>2. Tail(u)[i] = IF i + 1 <= ls THEN s[i + 1] ELSE t[(i + 1) - ls]
    BY <1>2, <1>6, <2>1
  <2>3. v[i] = IF i <= ls - 1 THEN s[i + 1] ELSE t[i - (ls - 1)]
    BY <1>3, <1>4, <2>1
  <2>4. CASE i <= ls - 1
    BY <2>1, <2>2, <2>3, <2>4
  <2>5. CASE ~(i <= ls - 1)
    BY <2>1, <2>2, <2>3, <2>5
  <2>. QED  BY <2>4, <2>5
<1>9. Tail(u) = v
  <2>1. Len(Tail(u)) = Len(v) /\ Len(Tail(u)) = ls + lt - 1
    BY <1>1, <1>4, <1>6
  <2>. QED  BY <1>4, <1>6, <1>8, <2>1, SeqEqual
<1>. QED  BY <1>1, <1>5, <1>7, <1>9 DEF u, v

OperationsInv ==
  /\ handled \in 0 .. Len(delivered)
  /\ NothingLost
  /\ ReportsDisconnect

LEMMA OperationsInit == WorkersInit => OperationsInv
<1>. SUFFICES ASSUME WorkersInit PROVE OperationsInv
  OBVIOUS
<1>1. queue = << >> /\ batch = << >> /\ delivered = << >> /\ handled = 0
  BY DEF WorkersInit, ManagedInit, WorkerInit, ConnectionInit
<1>2. batch \o queue = << >>
  <2>1. << >> \in Seq(Arrived)
    BY EmptySeq
  <2>. QED  BY <1>1, <2>1, ConcatEmptySeq
<1>3. NothingLost
  BY <1>1, <1>2, NothingWaits DEF NothingLost
<1>4. handled \in 0 .. Len(delivered)
  BY <1>1
<1>5. ReportsDisconnect
  BY <1>1 DEF ReportsDisconnect
<1>. QED  BY <1>3, <1>4, <1>5 DEF OperationsInv

(* Nothing that is written is taken back.                                  *)
LEMMA WordsStay == AnyStep => said \subseteq said'
<1>. SUFFICES ASSUME AnyStep PROVE said \subseteq said'
  OBVIOUS
<1>1. CASE StartStep
  BY <1>1 DEF StartStep, PrintUsage, Connect, Obtain, Announce, CheckConnected,
     RegisterOnDisconnect, RegisterOnLogMessage, Step
<1>2. CASE LoopStep
  BY <1>2 DEF LoopStep, GetOpList, Return, EndOfList, SleepOn, SendOn,
     CallbackReturns, Step, workerVars
<1>3. CASE TakeStep
  BY <1>3 DEF TakeStep, PassOver, OnDisconnect, OnLogMessage, Step
<1>4. CASE EnvironmentStep
  BY <1>4 DEF EnvironmentStep, workerVars
<1>. QED  BY <1>1, <1>2, <1>3, <1>4 DEF AnyStep

(* A step that takes nothing from the list, and changes nothing of what    *)
(* has been delivered.                                                     *)
LEMMA OperationsKept ==
  ASSUME OperationsInv, AnyStep, UNCHANGED << delivered, handled >>,
         AreTheRest((batch \o queue)', delivered, handled)
  PROVE  OperationsInv'
<1>1. handled' \in 0 .. Len(delivered') /\ NothingLost'
  BY DEF OperationsInv, NothingLost
<1>2. ReportsDisconnect'
  BY WordsStay DEF OperationsInv, ReportsDisconnect
<1>. QED  BY <1>1, <1>2 DEF OperationsInv

LEMMA OperationsArrive ==
  ASSUME TypesInv, OperationsInv, NEW op \in Sent, Arrive(op),
         UNCHANGED << batch, handled, said >>
  PROVE  OperationsInv'
<1>1. /\ batch \in Seq(Arrived) /\ queue \in Seq(Arrived) /\ delivered \in Seq(Sent)
      /\ op \in Arrived /\ handled \in 0 .. Len(delivered)
  BY DEF TypesInv, OperationsInv, Arrived
<1>2. queue' = Append(queue, op) /\ delivered' = Append(delivered, op)
  BY DEF Arrive
<1>3. (batch \o queue)' = Append(batch \o queue, op)
  BY <1>1, <1>2, BehindTheList
<1>4. batch \o queue \in Seq(Arrived)
  BY <1>1, ConcatProperties
<1>5. AreTheRest(Append(batch \o queue, op), Append(delivered, op), handled)
  BY <1>1, <1>4, OneArrives DEF OperationsInv, NothingLost
<1>6. NothingLost'
  BY <1>2, <1>3, <1>5 DEF NothingLost
<1>7. /\ Len(delivered') = Len(delivered) + 1 /\ Len(delivered) \in Nat
      /\ \A i \in 1 .. Len(delivered) : delivered'[i] = delivered[i]
  BY <1>1, <1>2, AppendProperties, LenProperties
<1>8. handled' \in 0 .. Len(delivered')
  BY <1>1, <1>7
<1>9. ReportsDisconnect'
  <2>. SUFFICES ASSUME NEW i \in 1 .. handled, delivered'[i] = DisconnectOp
                PROVE  "[disconnect]" \in said
    BY DEF ReportsDisconnect
  <2>1. i \in 1 .. Len(delivered)
    BY <1>1, <1>7
  <2>. QED  BY <1>7, <2>1 DEF OperationsInv, ReportsDisconnect
<1>. QED  BY <1>6, <1>8, <1>9 DEF OperationsInv

LEMMA OperationsTaken ==
  ASSUME TypesInv, PlacesInv, OperationsInv, TakeStep
  PROVE  OperationsInv'
<1>1. PICK op \in Ops : PassOver(op) \/ OnDisconnect(op) \/ OnLogMessage(op)
  BY DEF TakeStep
<1>2. Take(op) /\ batch \in Seq(Arrived) /\ queue \in Seq(Arrived)
      /\ delivered \in Seq(Sent)
  BY <1>1 DEF PassOver, OnDisconnect, OnLogMessage, TypesInv
<1>3. /\ batch # << >> /\ op = Head(batch) /\ batch' = Tail(batch)
      /\ handled' = IF op = EchoOp THEN handled ELSE handled + 1
      /\ UNCHANGED << queue, delivered >>
  BY <1>2 DEF Take, connectionVars
<1>4. said \subseteq said'
  BY WordsStay DEF AnyStep
<1>. DEFINE w == batch \o queue
<1>5. /\ w \in Seq(Arrived) /\ w # << >> /\ Head(w) = op
      /\ (batch \o queue)' = Tail(w)
  BY <1>2, <1>3, FrontOfTheList, ConcatProperties
<1>6. AreTheRest(w, delivered, handled) /\ handled \in 0 .. Len(delivered)
  BY DEF OperationsInv, NothingLost
<1>7. Len(delivered) \in Nat
  BY <1>2, LenProperties
<1>. HIDE DEF w
<1>8. CASE op = EchoOp
  <2>1. AreTheRest(Tail(w), delivered, handled)
    BY <1>2, <1>5, <1>6, <1>8, FirstIsTaken
  <2>2. UNCHANGED << delivered, handled >>
    BY <1>3, <1>8
  <2>. QED  BY <1>5, <2>1, <2>2, OperationsKept DEF AnyStep
<1>9. CASE op # EchoOp
  <2>1. /\ handled < Len(delivered) /\ delivered[handled + 1] = op
        /\ AreTheRest(Tail(w), delivered, handled + 1)
    BY <1>2, <1>5, <1>6, <1>9, FirstIsTaken
  <2>2. NothingLost'
    BY <1>3, <1>5, <1>9, <2>1 DEF NothingLost
  <2>3. handled' \in 0 .. Len(delivered')
    BY <1>3, <1>6, <1>7, <1>9, <2>1
  <2>4. ReportsDisconnect'
    <3>. SUFFICES ASSUME NEW i \in 1 .. handled + 1, delivered[i] = DisconnectOp
                  PROVE  "[disconnect]" \in said'
      BY <1>3, <1>9 DEF ReportsDisconnect
    <3>1. CASE i \in 1 .. handled
      BY <1>4, <3>1 DEF OperationsInv, ReportsDisconnect
    <3>2. CASE i \notin 1 .. handled
      <4>1. op = DisconnectOp
        BY <1>6, <2>1, <3>2
      <4>2. OnDisconnect(op)
        BY <1>1, <4>1, DisconnectIsHeard
      <4>. QED  BY <4>2 DEF OnDisconnect, Step
    <3>. QED  BY <3>1, <3>2
  <2>. QED  BY <2>2, <2>3, <2>4 DEF OperationsInv
<1>. QED  BY <1>8, <1>9

LEMMA OperationsStep ==
  ASSUME TypesInv, PlacesInv, OperationsInv, AnyStep
  PROVE  OperationsInv'
<1>0. /\ batch \in Seq(Arrived) /\ queue \in Seq(Arrived) /\ delivered \in Seq(Sent)
      /\ handled \in 0 .. Len(delivered)
      /\ AreTheRest(batch \o queue, delivered, handled)
  BY DEF TypesInv, OperationsInv, NothingLost
<1>1. CASE UNCHANGED << batch, queue, delivered, handled >>
  <2>1. (batch \o queue)' = batch \o queue
    BY <1>1
  <2>. QED  BY <1>0, <1>1, <2>1, OperationsKept
<1>2. CASE GetOpList
  <2>1. /\ batch = << >> /\ batch' = queue /\ queue' = << >>
        /\ UNCHANGED << delivered, handled >>
    BY <1>2 DEF GetOpList, TakeOpList, Step, PlacesInv
  <2>2. (batch \o queue)' = batch \o queue
    <3>1. queue \o << >> = queue /\ << >> \o queue = queue
      BY <1>0, ConcatEmptySeq
    <3>. QED  BY <2>1, <3>1
  <2>. QED  BY <1>0, <2>1, <2>2, OperationsKept
<1>3. CASE SendOn("send_first", "send_second") \/ SendOn("send_second", "loop")
  <2>1. /\ UNCHANGED << batch, delivered, handled >>
        /\ queue' = IF link THEN Append(queue, EchoOp) ELSE queue
    BY <1>3 DEF SendOn, SendComponentUpdate
  <2>2. CASE link
    <3>1. EchoOp \in Arrived /\ batch \o queue \in Seq(Arrived)
      BY <1>0, ConcatProperties DEF Arrived
    <3>2. (batch \o queue)' = Append(batch \o queue, EchoOp)
      BY <1>0, <2>1, <2>2, <3>1, BehindTheList
    <3>3. AreTheRest((batch \o queue)', delivered, handled)
      BY <1>0, <3>1, <3>2, OneEchoed
    <3>. QED  BY <2>1, <3>3, OperationsKept
  <2>3. CASE ~link
    BY <1>1, <2>1, <2>3
  <2>. QED  BY <2>2, <2>3
<1>4. CASE TakeStep
  BY <1>4, OperationsTaken
<1>5. CASE EnvironmentStep
  <2>1. UNCHANGED << batch, handled, said >>
    BY <1>5 DEF EnvironmentStep, workerVars
  <2>2. ASSUME NEW op \in RemoteOps, Send(op) PROVE OperationsInv'
    BY <2>1, <2>2, OperationsArrive DEF Send, Sent
  <2>3. CASE LoseLink
    BY <2>1, <2>3, OperationsArrive DEF LoseLink, Sent
  <2>4. CASE (\E error \in BOOLEAN : QueueStatus(error)) \/ LeaveQueue \/ Accept \/ Refuse
    <3>1. UNCHANGED << queue, delivered >>
      BY <2>4 DEF QueueStatus, LeaveQueue, Accept, Refuse
    <3>. QED  BY <1>1, <2>1, <3>1
  <2>. QED  BY <1>5, <2>2, <2>3, <2>4 DEF EnvironmentStep, SpatialOS
<1>6. CASE StartStep
  <2>1. UNCHANGED << batch, queue, delivered, handled >>
    BY <1>6 DEF StartStep, PrintUsage, Connect, ConnectAsync, Obtain, GetFuture,
       Announce, CheckConnected, RegisterOnDisconnect, RegisterOnLogMessage,
       connectionVars
  <2>. QED  BY <1>1, <2>1
<1>7. CASE LoopStep
  <2>1. \/ GetOpList
        \/ SendOn("send_first", "send_second") \/ SendOn("send_second", "loop")
        \/ UNCHANGED << batch, queue, delivered, handled >>
    BY <1>7 DEF LoopStep, Return, EndOfList, SleepOn, CallbackReturns,
       connectionVars, workerVars
  <2>. QED  BY <1>1, <1>2, <1>3, <2>1
<1>. QED  BY <1>4, <1>5, <1>6, <1>7 DEF AnyStep

THEOREM WorkersOperations == WorkersSpec => []OperationsInv
<1>1. TypesInv /\ PlacesInv /\ OperationsInv /\ [WorkersNext]_workersVars
        => OperationsInv'
  <2>1. OperationsInv /\ UNCHANGED workersVars => OperationsInv'
    BY DEF OperationsInv, NothingLost, ReportsDisconnect, workersVars, managedVars,
       allVars, connectionVars, workerVars
  <2>. QED  BY <2>1, EveryStep, OperationsStep
<1>. QED  BY <1>1, OperationsInit, WorkersTypes, WorkersPlaces, PTL DEF WorkersSpec

(* No operation is lost, handled twice or out of order on its way from     *)
(* SpatialOS to the callbacks.                                             *)
THEOREM NoOperationIsLost == WorkersSpec => []NothingLost
<1>1. OperationsInv => NothingLost
  BY DEF OperationsInv
<1>. QED  BY <1>1, WorkersOperations, PTL

(* Every disconnection that Process() has come to has been reported.       *)
THEOREM DisconnectIsReported == WorkersSpec => []ReportsDisconnect
<1>1. OperationsInv => ReportsDisconnect
  BY DEF OperationsInv
<1>. QED  BY <1>1, WorkersOperations, PTL

-----------------------------------------------------------------------------
(* The worker's own updates.  A turn of the loop empties the queue before  *)
(* it sends.                                                               *)
Echoes(seq) == { i \in DOMAIN seq : seq[i] = EchoOp }

Allowed(at) ==
  IF at \in { "process", "sleep", "send_first" } THEN 0
  ELSE IF at = "send_second" THEN 1 ELSE 2

EchoesInv == Cardinality(Echoes(queue)) <= Allowed(pc)

LEMMA EchoesFinite ==
  ASSUME NEW seq \in Seq(Arrived)
  PROVE  IsFiniteSet(Echoes(seq)) /\ Cardinality(Echoes(seq)) \in Nat
<1>1. DOMAIN seq = 1 .. Len(seq) /\ Len(seq) \in Nat
  BY LenProperties
<1>2. IsFiniteSet(1 .. Len(seq))
  BY <1>1, FS_Interval
<1>3. Echoes(seq) \in SUBSET (1 .. Len(seq))
  BY <1>1 DEF Echoes
<1>4. IsFiniteSet(Echoes(seq))
  BY <1>2, <1>3, FS_Subset
<1>. QED  BY <1>4, FS_CardinalityType

LEMMA EchoesAppended ==
  ASSUME NEW seq \in Seq(Arrived), NEW op \in Arrived
  PROVE  Cardinality(Echoes(Append(seq, op))) =
           IF op = EchoOp THEN Cardinality(Echoes(seq)) + 1 ELSE Cardinality(Echoes(seq))
<1>. DEFINE n == Len(seq)
            e == Append(seq, op)
<1>1. /\ n \in Nat /\ DOMAIN seq = 1 .. n /\ DOMAIN e = 1 .. n + 1
      /\ e[n + 1] = op /\ \A i \in 1 .. n : e[i] = seq[i]
  BY AppendProperties, LenProperties
<1>. HIDE DEF n, e
<1>2. \A i \in 1 .. n + 1 : i \in 1 .. n \/ i = n + 1
  BY <1>1
<1>3. n + 1 \notin Echoes(seq)
  BY <1>1 DEF Echoes
<1>4. CASE op = EchoOp
  <2>1. Echoes(e) = Echoes(seq) \cup { n + 1 }
    BY <1>1, <1>2, <1>4 DEF Echoes
  <2>. QED  BY <1>3, <1>4, <2>1, EchoesFinite, FS_AddElement DEF e
<1>5. CASE op # EchoOp
  <2>1. Echoes(e) = Echoes(seq)
    BY <1>1, <1>2, <1>5 DEF Echoes
  <2>. QED  BY <1>5, <2>1 DEF e
<1>. QED  BY <1>4, <1>5

LEMMA NoEchoes == Cardinality(Echoes(<< >>)) = 0
<1>1. Echoes(<< >>) = {}
  BY DEF Echoes
<1>. QED  BY <1>1, FS_EmptySet

LEMMA EchoesStep ==
  ASSUME TypesInv, EchoesInv, AnyStep
  PROVE  EchoesInv'
<1>. DEFINE n == Cardinality(Echoes(queue))
<1>1. queue \in Seq(Arrived) /\ n \in Nat /\ n <= Allowed(pc)
  BY EchoesFinite DEF TypesInv, EchoesInv
<1>. HIDE DEF n
<1>2. ASSUME Cardinality(Echoes(queue')) = n, Allowed(pc) <= Allowed(pc'),
             Allowed(pc) \in Nat, Allowed(pc') \in Nat
      PROVE  EchoesInv'
  BY <1>1, <1>2 DEF EchoesInv
<1>3. /\ Allowed(pc) \in Nat /\ Allowed(pc') \in Nat
      /\ Allowed(pc) <= 2 /\ Allowed(pc') <= 2
  BY DEF Allowed
<1>4. ASSUME queue' = queue, Allowed(pc) <= Allowed(pc') PROVE EchoesInv'
  BY <1>2, <1>3, <1>4 DEF n
<1>5. CASE StartStep
  <2>1. queue' = queue
    BY <1>5 DEF StartStep, PrintUsage, Connect, ConnectAsync, Obtain, GetFuture,
       Announce, CheckConnected, RegisterOnDisconnect, RegisterOnLogMessage,
       connectionVars
  <2>2. pc' \notin { "process", "sleep", "send_first", "send_second" }
    BY <1>5 DEF StartStep, PrintUsage, Connect, Obtain, Announce, CheckConnected,
       RegisterOnDisconnect, RegisterOnLogMessage, Step
  <2>3. Allowed(pc') = 2
    BY <2>2 DEF Allowed
  <2>. QED  BY <1>3, <1>4, <2>1, <2>3
<1>6. CASE TakeStep
  <2>1. /\ queue' = queue /\ pc = "process" /\ pc' \in { "process", "terminated" }
    BY <1>6 DEF TakeStep, PassOver, OnDisconnect, OnLogMessage, Take, Step,
       connectionVars
  <2>2. Allowed(pc) <= Allowed(pc')
    BY <2>1 DEF Allowed
  <2>. QED  BY <1>4, <2>1, <2>2
<1>7. CASE GetOpList
  <2>1. queue' = << >>
    BY <1>7 DEF GetOpList, TakeOpList
  <2>2. Cardinality(Echoes(queue')) = 0
    BY <2>1, NoEchoes
  <2>. QED  BY <1>3, <2>2 DEF EchoesInv
<1>8. ASSUME NEW from, NEW at, SendOn(from, at), Allowed(at) = Allowed(from) + 1
      PROVE  EchoesInv'
  <2>1. /\ pc = from /\ pc' = at
        /\ queue' = IF link THEN Append(queue, EchoOp) ELSE queue
    BY <1>8 DEF SendOn, SendComponentUpdate, Step
  <2>2. Cardinality(Echoes(Append(queue, EchoOp))) = n + 1
    BY <1>1, EchoesAppended DEF n, Arrived
  <2>3. CASE link
    BY <1>1, <1>3, <1>8, <2>1, <2>2, <2>3 DEF EchoesInv
  <2>4. CASE ~link
    BY <1>3, <1>4, <1>8, <2>1, <2>4
  <2>. QED  BY <2>3, <2>4
<1>9. CASE SendOn("send_first", "send_second") \/ SendOn("send_second", "loop")
  <2>1. Allowed("send_first") = 0 /\ Allowed("send_second") = 1 /\ Allowed("loop") = 2
    BY DEF Allowed
  <2>. QED  BY <1>8, <1>9, <2>1
<1>10. CASE Return \/ (\E at \in { "sleep", "loop" } : EndOfList(at))
              \/ SleepOn \/ CallbackReturns
  <2>1. /\ queue' = queue
        /\ \/ pc' = pc
           \/ pc \in { "process", "sleep" }
           \/ pc = "loop" /\ pc' = "exited"
    BY <1>10 DEF Return, EndOfList, SleepOn, CallbackReturns, Step, connectionVars,
       workerVars
  <2>2. CASE pc' = pc
    BY <1>3, <1>4, <2>1, <2>2
  <2>3. CASE pc \in { "process", "sleep" }
    <3>1. Allowed(pc) = 0
      BY <2>3 DEF Allowed
    <3>. QED  BY <1>3, <1>4, <2>1, <3>1
  <2>4. CASE pc = "loop" /\ pc' = "exited"
    <3>1. Allowed(pc') = 2
      BY <2>4 DEF Allowed
    <3>. QED  BY <1>3, <1>4, <2>1, <3>1
  <2>. QED  BY <2>1, <2>2, <2>3, <2>4
<1>11. CASE EnvironmentStep
  <2>1. pc' = pc
    BY <1>11 DEF EnvironmentStep, workerVars
  <2>2. ASSUME NEW op \in Sent, Arrive(op) PROVE EchoesInv'
    <3>1. queue' = Append(queue, op) /\ op \in Arrived /\ op # EchoOp
      BY <2>2, Constants DEF Arrive, Arrived
    <3>2. Cardinality(Echoes(queue')) = n
      BY <1>1, <3>1, EchoesAppended DEF n
    <3>. QED  BY <1>2, <1>3, <2>1, <3>2
  <2>3. CASE (\E op \in RemoteOps : Send(op)) \/ LoseLink
    BY <2>2, <2>3 DEF Send, LoseLink, Sent
  <2>4. CASE (\E error \in BOOLEAN : QueueStatus(error)) \/ LeaveQueue \/ Accept \/ Refuse
    <3>1. queue' = queue
      BY <2>4 DEF QueueStatus, LeaveQueue, Accept, Refuse
    <3>. QED  BY <1>3, <1>4, <2>1, <3>1
  <2>. QED  BY <1>11, <2>3, <2>4 DEF EnvironmentStep, SpatialOS
<1>. QED  BY <1>5, <1>6, <1>7, <1>9, <1>10, <1>11 DEF AnyStep, LoopStep

(* The worker's own updates do not pile up in the queue.                   *)
THEOREM EchoesStayFew == WorkersSpec => []EchoesDoNotPileUp
<1>1. WorkersInit => EchoesInv
  <2>. SUFFICES ASSUME WorkersInit PROVE EchoesInv
    OBVIOUS
  <2>1. queue = << >> /\ pc = "arguments"
    BY DEF WorkersInit, ManagedInit, WorkerInit, ConnectionInit
  <2>. QED  BY <2>1, NoEchoes DEF EchoesInv, Allowed
<1>2. TypesInv /\ EchoesInv /\ [WorkersNext]_workersVars => EchoesInv'
  <2>1. EchoesInv /\ UNCHANGED workersVars => EchoesInv'
    BY DEF EchoesInv, workersVars, managedVars, allVars, connectionVars, workerVars
  <2>. QED  BY <2>1, EveryStep, EchoesStep
<1>3. TypesInv /\ EchoesInv => EchoesDoNotPileUp
  <2>. SUFFICES ASSUME TypesInv, EchoesInv PROVE Cardinality(Echoes(queue)) <= 2
    BY DEF EchoesDoNotPileUp, Echoes
  <2>1. Cardinality(Echoes(queue)) \in Nat
    BY EchoesFinite DEF TypesInv
  <2>2. Allowed(pc) \in Nat /\ Allowed(pc) <= 2
    BY DEF Allowed
  <2>. QED  BY <2>1, <2>2 DEF EchoesInv
<1>. QED  BY <1>1, <1>2, <1>3, WorkersTypes, PTL DEF WorkersSpec

-----------------------------------------------------------------------------
(* Every variable of both programs keeps to its type.                      *)
PositionInv ==
  /\ program \in { "Managed", "External" }
  /\ position \in { "unset", "origin", "five" }
  /\ program = "External" => position = "unset"

THEOREM WorkersTypeCorrect == WorkersSpec => []WorkersTypeOK
<1>1. WorkersInit => PositionInv
  BY DEF WorkersInit, ManagedInit, PositionInv
<1>2. PositionInv /\ [WorkersNext]_workersVars => PositionInv'
  <2>. SUFFICES ASSUME PositionInv, [WorkersNext]_workersVars PROVE PositionInv'
    OBVIOUS
  <2>. USE DEF PositionInv
  <2>1. ASSUME ManagedStep
        PROVE  position' \in { position, "origin", "five" }
    BY <2>1 DEF ManagedStep, ManagedUsage, ManagedConnect, ManagedRegister,
       ManagedEndOfList, Sleep, SendFirst, SendSecond, SendPosition
  <2>2. CASE ProgramStep
    BY <2>1, <2>2 DEF ProgramStep
  <2>3. CASE SpatialOSStep /\ UNCHANGED << position, program >>
    BY <2>3
  <2>4. CASE UNCHANGED workersVars
    BY <2>4 DEF workersVars, managedVars
  <2>. QED  BY <2>2, <2>3, <2>4 DEF WorkersNext
<1>3. IInv /\ TypesInv /\ OperationsInv /\ PositionInv => WorkersTypeOK
  <2>. SUFFICES ASSUME IInv, TypesInv, OperationsInv, PositionInv PROVE WorkersTypeOK
    OBVIOUS
  <2>1. queue \in Seq(Ops) /\ batch \in Seq(Ops)
    BY Constants, SeqMonotonic DEF TypesInv
  <2>2. delivered \in Seq(RemoteOps \cup { DisconnectOp })
    BY DEF TypesInv, Sent
  <2>3. WorkerTypeOK
    <3>1. TypeOK
      BY DEF IInv
    <3>2. handled \in 0 .. Len(delivered)
      BY DEF OperationsInv
    <3>. HIDE DEF TypeOK
    <3>. QED  BY <2>1, <2>2, <3>1, <3>2 DEF WorkerTypeOK, TypesInv, Places, Targets
  <2>. QED  BY <2>3 DEF WorkersTypeOK, PositionInv
<1>. QED  BY <1>1, <1>2, <1>3, WorkersDispatch, WorkersTypes, WorkersOperations, PTL
          DEF WorkersSpec

=============================================================================
