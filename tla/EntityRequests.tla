--------------------------- MODULE EntityRequests ---------------------------
(***************************************************************************)
(* The requests a worker sends to SpatialOS, and what it hears of them:    *)
(* reserving entity ids, creating and deleting entities, and entity        *)
(* queries (Connection::Send...Request, Handle...Response).  SpatialOS,    *)
(* which is external, carries requests out when it gets to it, refuses     *)
(* them, or loses them or its answers; the C library reports a timeout of  *)
(* its own for those it has no answer to, and then ignores a late one.     *)
(* How queries are converted, answered and described is in Queries.        *)
(***************************************************************************)
EXTENDS Queries

CONSTANTS
  NewEntities,      \* entities the worker may create
  QuerySet,         \* entity queries it may send
  ClientRegistry,   \* components of the connection's registry
  FirstWorld,       \* the entities there are at first
  MaxRequests,      \* bound: requests sent
  MaxInFlight       \* bound: requests that SpatialOS has yet to carry out

ASSUME RequestsAssumption == MaxRequests \in Nat /\ MaxInFlight \in Nat

(* An entity is a map, and there are only so many of them.                 *)
ASSUME WorldAssumption ==
  /\ IsFiniteSet(DOMAIN FirstWorld)
  /\ \A entity \in NewEntities : entity = [ c \in DOMAIN entity |-> entity[c] ]

ASSUME QueriesAssumption ==
  \A query \in QuerySet :
    LET ids == query.ResultType
    IN  /\ query.Constraint \in Constraints
        /\ ids = "count" \/ ids = << >> \/ ids[1] # Null

VARIABLES
  world,       \* the entities there are
  reserved,    \* reserved ids of which no entity was created yet
  nextId,      \* no id from here on was given out
  asked,       \* the requests that were sent, by request id
  network,     \* those that SpatialOS may still carry out
  outstanding, \* those that wait for an answer
  ops,         \* operations for the worker
  heard,       \* for each request what callbacks were called with
  done         \* for each request that was carried out what it did

requestVars ==
  << world, reserved, nextId, asked, network, outstanding, ops, heard, done >>

RequestInit ==
  /\ world = FirstWorld
  /\ nextId = Cardinality(DOMAIN FirstWorld) + 1
  /\ reserved = {} /\ asked = << >>
  /\ network = {} /\ outstanding = {}
  /\ ops = << >> /\ heard = << >> /\ done = << >>

-----------------------------------------------------------------------------
(* Sending.  A request id is given by the C library.                       *)
SendRequest(request) ==
  /\ Len(asked) < MaxRequests /\ Cardinality(network) < MaxInFlight
  /\ asked' = Append(asked, request)
  /\ network' = network \cup {Len(asked')}
  /\ outstanding' = outstanding \cup {Len(asked')}
  /\ heard' = Append(heard, << >>)
  /\ UNCHANGED << world, reserved, nextId, ops, done >>

SendReserveEntityIdRequest == SendRequest([ kind |-> "ReserveEntityId" ])

SendReserveEntityIdsRequest(n) == SendRequest([ kind |-> "ReserveEntityIds", number |-> n ])

(* ExtractEntityComponents: a null handle for an unknown component.        *)
SendCreateEntityRequest(entity, entity_id) ==
  SendRequest([ kind |-> "CreateEntity", entity |-> entity, entity_id |-> entity_id,
                Component |-> [ c \in DOMAIN entity |->
                                  IF c \in ClientRegistry THEN entity[c] ELSE Null ] ])

SendDeleteEntityRequest(entity_id) ==
  SendRequest([ kind |-> "DeleteEntity", entity_id |-> entity_id ])

SendEntityQueryRequest(query) ==
  SendRequest([ kind |-> "EntityQuery", query |-> query, protocol |-> ProtocolQuery(query) ])

-----------------------------------------------------------------------------
(* The answers.                                                            *)

(* Fault: the id is taken without a look at the status code.               *)
IdAlways(op) == << op.EntityId >>

(* The optional id of the operations: present with a success.              *)
IdOfSuccess(op) == IF op.StatusCode = "kSuccess" THEN << op.EntityId >> ELSE << >>

(* HandleReserveEntityIdResponse and the four handlers after it: what the  *)
(* callbacks are called with.                                              *)
HandleResponse(op) ==
  LET k == op.kind
      r == op.RequestId
      s == op.StatusCode
  IN  CASE k \in { "ReserveEntityId", "CreateEntity" } ->
             [ kind |-> k, RequestId |-> r, StatusCode |-> s, EntityId |-> IdOfSuccess(op) ]
        [] k = "ReserveEntityIds" ->
             [ kind |-> k, RequestId |-> r, StatusCode |-> s,
               FirstEntityId |-> IdOfSuccess(op), NumberOfEntityIds |-> op.NumberOfEntityIds ]
        [] k = "DeleteEntity" ->
             [ kind |-> k, RequestId |-> r, StatusCode |-> s, EntityId |-> op.EntityId ]
        [] k = "EntityQuery" ->
             [ kind |-> k, RequestId |-> r, StatusCode |-> s,
               ResultCount |-> op.ResultCount, Result |-> ResultOf(op) ]

(* Dispatcher::Process, one operation of the list.                         *)
ProcessAnswer ==
  /\ ops # << >>
  /\ heard' = [ heard EXCEPT ![Head(ops).RequestId] = Append(@, HandleResponse(Head(ops))) ]
  /\ ops' = Tail(ops)
  /\ UNCHANGED << world, reserved, nextId, asked, network, outstanding, done >>

-----------------------------------------------------------------------------
(* SpatialOS and the C library.                                            *)

(* An operation without a success: the fields that only a success has are  *)
(* zero.                                                                   *)
Failure(r, status) ==
  [ kind |-> asked[r].kind, RequestId |-> r, StatusCode |-> status,
    EntityId |-> IF asked[r].kind = "DeleteEntity" THEN asked[r].entity_id ELSE 0,
    NumberOfEntityIds |-> 0, ResultCount |-> 0, Result |-> << >> ]

With(map, k, v) == [ x \in DOMAIN map \cup {k} |-> IF x = k THEN v ELSE map[x] ]

(* A request is no longer on its way; the answer to it comes back, unless  *)
(* it is lost or late.                                                     *)
Resolve(r, op) ==
  /\ network' = network \ {r}
  /\ \/ /\ r \in outstanding
        /\ outstanding' = outstanding \ {r}
        /\ ops' = Append(ops, op)
     \/ UNCHANGED << outstanding, ops >>
  /\ UNCHANGED << asked, heard >>

ReserveIds(r) ==
  LET number == IF asked[r].kind = "ReserveEntityId" THEN 1 ELSE asked[r].number
      ids == nextId .. nextId + number - 1
  IN  /\ asked[r].kind \in { "ReserveEntityId", "ReserveEntityIds" }
      /\ reserved' = reserved \cup ids
      /\ nextId' = nextId + number
      /\ done' = With(done, r, ids)
      /\ Resolve(r, [ Failure(r, "kSuccess") EXCEPT !.EntityId = nextId,
                                                    !.NumberOfEntityIds = number ])
      /\ UNCHANGED world

CreateEntity(r) ==
  LET given == asked[r].entity_id
      id == IF given = << >> THEN nextId ELSE given[1]
  IN  /\ asked[r].kind = "CreateEntity"
      /\ Null \notin Range(asked[r].Component)
      /\ given = << >> \/ id \in reserved
      /\ world' = With(world, id, asked[r].Component)
      /\ reserved' = reserved \ {id}
      /\ nextId' = IF given = << >> THEN nextId + 1 ELSE nextId
      /\ done' = With(done, r, << id, asked[r].Component >>)
      /\ Resolve(r, [ Failure(r, "kSuccess") EXCEPT !.EntityId = id ])

DeleteEntity(r) ==
  /\ asked[r].kind = "DeleteEntity"
  /\ asked[r].entity_id \in DOMAIN world
  /\ world' = Restrict(world, DOMAIN world \ {asked[r].entity_id})
  /\ done' = With(done, r, asked[r].entity_id)
  /\ Resolve(r, Failure(r, "kSuccess"))
  /\ UNCHANGED << reserved, nextId >>

(* "A best-effort attempt is made to get results when the status code is   *)
(* kApplicationError": here, of half of the world.                         *)
AnswerQuery(r, status) ==
  LET seen == IF status = "kSuccess" THEN world
              ELSE Restrict(world, { id \in DOMAIN world : 2 * id <= nextId })
      answer == Answer(asked[r].protocol, seen)
  IN  /\ asked[r].kind = "EntityQuery"
      /\ done' = With(done, r, Described(asked[r].query, world))
      /\ Resolve(r, [ Failure(r, status) EXCEPT !.ResultCount = answer.ResultCount,
                                                !.Result = answer.Result ])
      /\ UNCHANGED << world, reserved, nextId >>

Refuse(r) ==
  /\ Resolve(r, Failure(r, "kApplicationError"))
  /\ UNCHANGED << world, reserved, nextId, done >>

TimeOutRequest(r) ==
  /\ r \in outstanding
  /\ outstanding' = outstanding \ {r}
  /\ ops' = Append(ops, Failure(r, "kTimeout"))
  /\ UNCHANGED << world, reserved, nextId, asked, network, heard, done >>

-----------------------------------------------------------------------------
(* The ids a worker knows are its own.                                     *)
OwnIds ==
  UNION { LET h == heard[r][1]
          IN  IF heard[r] = << >> \/ h.StatusCode # "kSuccess" THEN {}
              ELSE IF h.kind = "ReserveEntityId" THEN {h.EntityId[1]}
              ELSE IF h.kind = "ReserveEntityIds"
              THEN h.FirstEntityId[1] .. h.FirstEntityId[1] + h.NumberOfEntityIds - 1
              ELSE {} : r \in DOMAIN heard }

(* A bound of the instance.                                                *)
First(kind) == \A r \in DOMAIN asked : asked[r].kind # kind

(* The worker creates entities with its own ids or without, and deletes    *)
(* any.  It sends a single query, and a single reservation of either kind, *)
(* but may retry whatever else it sends.                                   *)
RequestStep ==
  \/ First("ReserveEntityId") /\ SendReserveEntityIdRequest
  \/ First("ReserveEntityIds") /\ SendReserveEntityIdsRequest(2)
  \/ \E entity \in NewEntities : \E id \in { << i >> : i \in OwnIds } \cup { << >> } :
       SendCreateEntityRequest(entity, id)
  \/ \E id \in DOMAIN world : SendDeleteEntityRequest(id)
  \/ First("EntityQuery") /\ \E query \in QuerySet : SendEntityQueryRequest(query)
  \/ ProcessAnswer

RequestEnvironment ==
  \/ \E r \in network :
       \/ ReserveIds(r) \/ CreateEntity(r) \/ DeleteEntity(r) \/ Refuse(r)
       \/ \E status \in { "kSuccess", "kApplicationError" } : AnswerQuery(r, status)
  \/ \E r \in outstanding : TimeOutRequest(r)

-----------------------------------------------------------------------------
(* A callback is called once for a request, and of its kind.  A success it *)
(* hears was carried out as it was asked: the ids it is told are reserved  *)
(* are nobody else's, and the entity with the id it is told was created    *)
(* with the components that were sent, under the id that was given if one  *)
(* was.  Without a success, after a timeout or a refusal, it is told of no *)
(* id, whatever becomes of the request later.                              *)
AnswersMeanWhatTheySay ==
  /\ \A r \in DOMAIN heard : Len(heard[r]) <= 1
  /\ \A r \in { x \in DOMAIN heard : heard[x] # << >> } :
       LET h == heard[r][1]
           request == asked[r]
           success == h.StatusCode = "kSuccess"
           did == done[r]
       IN  /\ h.kind = request.kind
           /\ success => r \in DOMAIN done
           /\ h.kind = "ReserveEntityId" =>
                IF success THEN {h.EntityId[1]} = did ELSE h.EntityId = << >>
           /\ h.kind = "ReserveEntityIds" =>
                IF success
                THEN /\ h.NumberOfEntityIds = request.number
                     /\ did = h.FirstEntityId[1] .. h.FirstEntityId[1] + h.NumberOfEntityIds - 1
                ELSE h.FirstEntityId = << >> /\ h.NumberOfEntityIds = 0
           /\ h.kind = "CreateEntity" =>
                IF success
                THEN /\ did = << h.EntityId[1], request.entity >>
                     /\ request.entity_id \in { << >>, h.EntityId }
                ELSE h.EntityId = << >>
           /\ h.kind = "DeleteEntity" => h.EntityId = request.entity_id

(* A query that succeeds finds, in the world as it was when it was carried *)
(* out, the entities that its constraint describes, nested constraints and *)
(* empty ones included, and of each the components that were asked for,    *)
(* all with no list of them and none with an empty one; with an error, it  *)
(* finds some of them.                                                     *)
QueriesFindWhatTheyDescribe ==
  \A r \in { x \in DOMAIN heard : heard[x] # << >> /\ asked[x].kind = "EntityQuery" } :
    LET h == heard[r][1]
        described == done[r]
    IN  IF h.StatusCode = "kSuccess"
        THEN described = [ ResultCount |-> h.ResultCount, Result |-> h.Result ]
        ELSE r \in DOMAIN done =>
               /\ h.ResultCount <= described.ResultCount
               /\ DOMAIN h.Result \subseteq DOMAIN described.Result
               /\ \A id \in DOMAIN h.Result : h.Result[id] = described.Result[id]
=============================================================================
