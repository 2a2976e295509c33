------------------------------ MODULE Commands ------------------------------
(***************************************************************************)
(* The commands of a component of one entity.  The component is            *)
(* othello::Game, which has two: their requests and responses share a      *)
(* GenericCommandObject, a vtable and a list of callbacks each, and what   *)
(* tells them apart is the command's id.                                   *)
(*                                                                         *)
(* Any worker may send requests; the one with authority over the component *)
(* receives them.  Both call Dispatcher::Process and have a callback       *)
(* registered for each command.  The actions under "SpatialOS" are the     *)
(* core library and the deployment, as the comments in worker.h and        *)
(* worker_protocol.h describe them.                                        *)
(***************************************************************************)
EXTENDS Othello, FiniteSets

CONSTANTS
  Workers,
  Nobody,       \* no worker has authority
  Discs,        \* the PlaceDiscRequests that are sent
  Failures,     \* the status codes, kSuccess apart
  MaxRequests,  \* bound on the requests sent
  MaxAnswers    \* bound on the answers a handler gives to one request

ASSUME CommandsAssumption ==
  /\ Nobody \notin Workers
  /\ Discs \subseteq PlaceDiscRequest
  /\ "kSuccess" \notin Failures
  /\ MaxRequests \in Nat /\ MaxAnswers \in Nat

(* The command metaclasses, Game::Commands.                                *)
CreatePlayer ==
  [ CommandId |-> 1, Request |-> "Void", Response |-> "CreatePlayerResult" ]
PlaceDisc ==
  [ CommandId |-> 2, Request |-> "PlaceDiscRequest", Response |-> "SuccessResult" ]
Commands == { CreatePlayer, PlaceDisc }

Requests(T) == IF T = CreatePlayer THEN Void ELSE Discs
Responses(T) == IF T = CreatePlayer THEN CreatePlayerResult ELSE SuccessResult

Handles == Options(GenericCommandObject_Game)

Ops ==
  [ op : { "CommandRequest" }, RequestId : Nat, Request : Handles ] \cup
  [ op : { "CommandResponse" }, RequestId : Nat, Response : Handles, CommandId : { 1, 2 },
    StatusCode : Failures \cup { "kSuccess", "kApplicationError" } ]

VARIABLES
  authority,  \* who has authority over the component
  requests,   \* what was sent, by RequestId<OutgoingCommandRequest>
  incoming,   \* who received what, by RequestId<IncomingCommandRequest>
  network,    \* what is on its way through the deployment
  queue,      \* each worker's operations
  handled,    \* what the callbacks for requests were called with
  answers,    \* what the handlers answered
  heard       \* what the callbacks for responses were called with

vars == << authority, requests, incoming, network, queue, handled, answers, heard >>

Init ==
  /\ authority \in Workers \cup {Nobody}
  /\ requests = << >> /\ incoming = << >> /\ network = {}
  /\ queue = [ w \in Workers |-> << >> ]
  /\ handled = {} /\ answers = {} /\ heard = {}

RequestOp(id, handle) == [ op |-> "CommandRequest", RequestId |-> id, Request |-> handle ]

ResponseOp(id, status, handle) ==
  [ op |-> "CommandResponse", RequestId |-> id, StatusCode |-> status,
    Response |-> handle, CommandId |-> requests[id].T.CommandId ]

Enqueue(w, op) == queue' = [ queue EXCEPT ![w] = Append(@, op) ]

Outstanding(id) == id \in DOMAIN requests /\ ~ requests[id].resolved

-----------------------------------------------------------------------------
(* Connection::SendCommandRequest: the request goes to a vtable through    *)
(* Serialize, or, when the worker allows to short-circuit it and has       *)
(* authority itself, through Copy.                                         *)
SendCommandRequest(w, T, request, allow_short_circuit) ==
  LET generic == Generic(T.CommandId, T.Request, request)
      id      == Len(requests) + 1
  IN  /\ Len(requests) < MaxRequests
      /\ requests' = Append(requests, [ caller |-> w, T |-> T, request |-> request,
                                        resolved |-> FALSE ])
      /\ IF allow_short_circuit /\ authority = w
         THEN /\ incoming' = Append(incoming, [ worker |-> w, request |-> id ])
              /\ Enqueue(w, RequestOp(Len(incoming) + 1, << generic >>))
              /\ UNCHANGED network
         ELSE /\ network' = network \cup
                   { [ kind |-> "request", id |-> id,
                       root |-> Serialize_Game("request", generic) ] }
              /\ UNCHANGED << incoming, queue >>
      /\ UNCHANGED << authority, handled, answers, heard >>

(* Fault: requests of every command of the component are taken.            *)
OnAnyRequest(T, op) ==
  { [ RequestId |-> op.RequestId, T |-> T, Request |-> op.Request[1].CommandObject.value ] }

(* Dispatcher::OnCommandRequest<T>, for an operation: what the callback is *)
(* called with, if it is.                                                  *)
OnCommandRequest(T, op) ==
  IF op.Request[1].CommandId # T.CommandId THEN {}
  ELSE { [ RequestId |-> op.RequestId, T |-> T,
           Request |-> data(op.Request[1], T.Request) ] }

(* Fault: responses of every command of the component are taken.           *)
OnAnyResponse(T, op) ==
  { [ RequestId |-> op.RequestId, T |-> T, StatusCode |-> op.StatusCode,
      Response |-> IF op.Response = << >> THEN << >> ELSE << op.Response[1].CommandObject.value >> ] }

(* Fault: a response without a handle is dropped.                          *)
OnResponseWithHandle(T, op) ==
  IF op.CommandId # T.CommandId \/ op.Response = << >> THEN {}
  ELSE { [ RequestId |-> op.RequestId, T |-> T, StatusCode |-> op.StatusCode,
           Response |-> << data(op.Response[1], T.Response) >> ] }

(* Dispatcher::OnCommandResponse<T>: the response is there when its handle *)
(* is not null.                                                            *)
OnCommandResponse(T, op) ==
  IF op.CommandId # T.CommandId THEN {}
  ELSE { [ RequestId |-> op.RequestId, T |-> T, StatusCode |-> op.StatusCode,
           Response |-> IF op.Response = << >> THEN << >>
                        ELSE << data(op.Response[1], T.Response) >> ] }

(* Dispatcher::Process, with the next operation.                           *)
ProcessRequest(w) ==
  /\ queue[w] # << >> /\ Head(queue[w]).op = "CommandRequest"
  /\ handled' = handled \cup UNION { OnCommandRequest(T, Head(queue[w])) : T \in Commands }
  /\ queue' = [ queue EXCEPT ![w] = Tail(@) ]
  /\ UNCHANGED << authority, requests, incoming, network, answers, heard >>

ProcessResponse(w) ==
  /\ queue[w] # << >> /\ Head(queue[w]).op = "CommandResponse"
  /\ heard' = heard \cup UNION { OnCommandResponse(T, Head(queue[w])) : T \in Commands }
  /\ queue' = [ queue EXCEPT ![w] = Tail(@) ]
  /\ UNCHANGED << authority, requests, incoming, network, handled, answers >>

MayAnswer(call) ==
  Cardinality({ a \in answers : a.RequestId = call.RequestId }) < MaxAnswers

(* Connection::SendCommandResponse<T>, with the id that OnCommandRequest<T> *)
(* was called with: the types allow no other command's.                    *)
SendCommandResponse(call, response) ==
  /\ MayAnswer(call)
  /\ network' = network \cup
       { [ kind |-> "response", id |-> call.RequestId,
           root |-> Serialize_Game("response",
                      Generic(call.T.CommandId, call.T.Response, response)) ] }
  /\ answers' = answers \cup
       { [ RequestId |-> call.RequestId, T |-> call.T, Response |-> << response >> ] }
  /\ UNCHANGED << authority, requests, incoming, queue, handled, heard >>

(* Connection::SendCommandFailure<T>.                                      *)
SendCommandFailure(call) ==
  /\ MayAnswer(call)
  /\ network' = network \cup { [ kind |-> "failure", id |-> call.RequestId ] }
  /\ answers' = answers \cup
       { [ RequestId |-> call.RequestId, T |-> call.T, Response |-> << >> ] }
  /\ UNCHANGED << authority, requests, incoming, queue, handled, heard >>

-----------------------------------------------------------------------------
(* SpatialOS.                                                              *)

ChangeAuthority ==
  /\ \E w \in Workers \cup {Nobody} : w # authority /\ authority' = w
  /\ UNCHANGED << requests, incoming, network, queue, handled, answers, heard >>

(* A request reaches the worker with authority, under an id of its own.    *)
DeliverRequest(m) ==
  /\ m.kind = "request" /\ authority # Nobody
  /\ network' = network \ {m}
  /\ incoming' = Append(incoming, [ worker |-> authority, request |-> m.id ])
  /\ Enqueue(authority, RequestOp(Len(incoming) + 1, Deserialize_Game("request", m.root)))
  /\ UNCHANGED << authority, requests, handled, answers, heard >>

Resolve(id, status, handle) ==
  /\ requests' = [ requests EXCEPT ![id].resolved = TRUE ]
  /\ Enqueue(requests[id].caller, ResponseOp(id, status, handle))

(* An answer reaches the caller.                                           *)
DeliverAnswer(m) ==
  /\ m.kind # "request"
  /\ Outstanding(incoming[m.id].request)
  /\ network' = network \ {m}
  /\ IF m.kind = "response"
     THEN Resolve(incoming[m.id].request, "kSuccess", Deserialize_Game("response", m.root))
     ELSE Resolve(incoming[m.id].request, "kApplicationError", << >>)
  /\ UNCHANGED << authority, incoming, handled, answers, heard >>

(* "Any response sent after the timeout has expired will be ignored."      *)
IgnoreAnswer(m) ==
  /\ m.kind # "request"
  /\ ~ Outstanding(incoming[m.id].request)
  /\ network' = network \ {m}
  /\ UNCHANGED << authority, requests, incoming, queue, handled, answers, heard >>

(* A request fails: it timed out, its target is not found, authority over  *)
(* it was lost, and so on.  Its message may still arrive.                  *)
Fail(id) ==
  /\ Outstanding(id)
  /\ \E status \in Failures : Resolve(id, status, << >>)
  /\ UNCHANGED << authority, incoming, network, handled, answers, heard >>

(* What has timed out need not be delivered.                               *)
LoseRequest(m) ==
  /\ m.kind = "request" /\ ~ Outstanding(m.id)
  /\ network' = network \ {m}
  /\ UNCHANGED << authority, requests, incoming, queue, handled, answers, heard >>

SpatialOS ==
  \/ ChangeAuthority
  \/ \E m \in network :
       DeliverRequest(m) \/ DeliverAnswer(m) \/ IgnoreAnswer(m) \/ LoseRequest(m)
  \/ \E id \in DOMAIN requests : Fail(id)

Next ==
  \/ \E w \in Workers, T \in Commands, allow_short_circuit \in BOOLEAN :
       \E request \in Requests(T) : SendCommandRequest(w, T, request, allow_short_circuit)
  \/ \E w \in Workers : ProcessRequest(w) \/ ProcessResponse(w)
  \/ \E call \in handled :
       \/ \E response \in Responses(call.T) : SendCommandResponse(call, response)
       \/ SendCommandFailure(call)
  \/ SpatialOS

Spec == Init /\ [][Next]_vars

(* A worker that keeps processing its operations, and a deployment in      *)
(* which every request times out at last.                                  *)
FairSpec ==
  /\ Spec
  /\ \A w \in Workers : WF_vars(ProcessRequest(w) \/ ProcessResponse(w))
  /\ \A id \in 1 .. MaxRequests : WF_vars(Fail(id))

-----------------------------------------------------------------------------
Sent == UNION { [ caller : Workers, T : {T}, request : Requests(T), resolved : BOOLEAN ] :
                  T \in Commands }

Received == [ worker : Workers, request : DOMAIN requests ]

CommandsTypeOK ==
  /\ authority \in Workers \cup {Nobody}
  /\ requests \in Seq(Sent)
  /\ incoming \in Seq(Received)
  /\ \A m \in network : IF m.kind = "request" THEN m.id \in DOMAIN requests
                        ELSE m.id \in DOMAIN incoming
  /\ queue \in [ Workers -> Seq(Ops) ]
  /\ \A call \in handled : call.RequestId \in DOMAIN incoming
  /\ \A call \in heard : call.RequestId \in DOMAIN requests

(* No operation reaches OnCommandRequest with a null handle, which it      *)
(* dereferences, and every response that was sent comes with one: "Present *)
(* exactly when the status code is StatusCode::kSuccess".                  *)
HandlesAreThere ==
  \A w \in Workers : \A i \in DOMAIN queue[w] :
    LET op == queue[w][i]
    IN  IF op.op = "CommandRequest" THEN op.Request # << >>
        ELSE op.Response # << >> <=> op.StatusCode = "kSuccess"

(* A callback for a command's requests is called for requests of this      *)
(* command only, with what was sent, over the wire or short-circuited; and *)
(* once for each.                                                          *)
RequestsArriveAsSent ==
  /\ \A call \in handled :
       LET sent == requests[incoming[call.RequestId].request]
       IN  call.T = sent.T /\ call.Request = sent.request
  /\ \A call, again \in handled :
       incoming[call.RequestId].request = incoming[again.RequestId].request => call = again

(* A response that a caller hears is one that a handler of this command    *)
(* sent to this request; and a call is answered at most once, however      *)
(* often the handler answers and whether or not it had failed by then.     *)
AnswersAreTheHandlers ==
  /\ \A call \in heard :
       /\ call.T = requests[call.RequestId].T
       /\ call.StatusCode = "kSuccess" =>
            \E a \in answers : /\ incoming[a.RequestId].request = call.RequestId
                               /\ a.T = call.T /\ a.Response = call.Response
  /\ \A call, again \in heard : call.RequestId = again.RequestId => call = again

(* Every request is answered in the end.                                   *)
EveryCallIsAnswered ==
  \A id \in 1 .. MaxRequests :
    id \in DOMAIN requests ~> \E call \in heard : call.RequestId = id

-----------------------------------------------------------------------------
Asked == [ id \in DOMAIN requests |-> [ kind |-> requests[id].T, ask |-> requests[id].request ] ]

Executed ==
  { [ id |-> incoming[call.RequestId].request, kind |-> call.T, ask |-> call.Request ] :
      call \in handled }

Told == { [ id |-> call.RequestId, kind |-> call.T, reply |-> call.Response ] : call \in heard }

Calls == INSTANCE RemoteCalls WITH
  Kinds <- Commands, Asks <- Requests, Replies <- Responses,
  asked <- Asked, executed <- Executed, told <- Told

(* From the worker that sends a request through the vtables, the queues    *)
(* and the callbacks on either side and back, commands are remote calls,   *)
(* each carried out and answered at most once.                             *)
CommandsAreRemoteCalls == Calls!Spec
=============================================================================
