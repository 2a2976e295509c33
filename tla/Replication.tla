---------------------------- MODULE Replication ----------------------------
(***************************************************************************)
(* A component's data on its way from the worker that writes it to one     *)
(* that reads it.  The writer has an Update object, edits it, and sends it *)
(* by SendComponentUpdate; his SDK core copies it for SpatialOS and for    *)
(* the writer himself, who is given his own updates back as operations.    *)
(* The reader has its Views process the lists of operations it gets.       *)
(*                                                                         *)
(* The cores and SpatialOS are external.  Between them, updates arrive in  *)
(* the order in which they were sent; how long they take is what the       *)
(* queues leave open.  `intended` is a history variable: the data as the   *)
(* writer's updates, as they were when he sent them, make it.              *)
(***************************************************************************)
EXTENDS ClientHandle, Sequences, FiniteSets

CONSTANTS
  UpdateObject,  \* the address of the writer's Update object
  Views,         \* of the reader, all given the same lists of operations
  NoData,        \* a View without the component
  NoAnswer,      \* a View that was not given an answer to a query yet
  MaxSends,      \* bound: updates sent
  MaxChanges     \* bound: check-outs, check-ins and answers to queries

ASSUME ReplicationAssumption ==
  /\ UpdateObject \in Addresses /\ Null \notin Addresses
  /\ NoData \notin Data
  /\ MaxSends \in Nat /\ MaxChanges \in Nat

ASSUME AnswerAssumption ==
  NoAnswer \notin [ got : Data \cup Updates, said : Data ]

VARIABLES
  memory,    \* of both workers
  outbox,    \* the writer's core: handles of updates to be sent
  echoes,    \* the writer's core: handles of updates to be given back
  mine,      \* the component in the writer's View
  world,     \* the component in SpatialOS
  in_view,   \* is the entity in the reader's view?
  arrived,   \* the reader's core: operations not yet in a list
  list,      \* the reader's OpList
  at,        \* how many operations of it each View has processed
  view,      \* the component in each View
  answer,    \* the last answer to a query each View had, and the true one
  intended, sends, changes

writer == << outbox, echoes, mine, intended, sends >>
reader == << list, at, view, answer >>
spatial == << world, in_view, arrived, changes >>
vars == << memory, writer, reader, spatial >>

FreeIn(mem) == { a \in Addresses \ {UpdateObject} : mem.uses[a] = 0 }

(* An operation: its handle, and in an answer what SpatialOS answered.     *)
Op(type, handle) == [ type |-> type, handle |-> handle, said |-> world ]

OpTypes == { "add_component", "remove_component", "update", "entity_query_response" }

OpRecords == [ type : OpTypes, handle : Handles, said : Data ]

Init ==
  /\ memory = [ object |-> [ a \in Addresses |-> EmptyUpdate ],
                uses   |-> [ a \in Addresses |-> 0 ] ]
  /\ outbox = << >> /\ echoes = << >>
  /\ mine = EmptyData /\ world = EmptyData /\ intended = EmptyData
  /\ in_view = FALSE /\ arrived = << >>
  /\ list = << >> /\ at = [ v \in Views |-> 0 ]
  /\ view = [ v \in Views |-> NoData ]
  /\ answer = [ v \in Views |-> NoAnswer ]
  /\ sends = 0 /\ changes = 0

-----------------------------------------------------------------------------
(* The writer, in his own thread.                                          *)

(* set_read_acl, set_component_write_acl, clear: any update can be made.   *)
Edit ==
  \E u \in Updates :
    /\ u # memory.object[UpdateObject]
    /\ memory' = [ memory EXCEPT !.object[UpdateObject] = u ]
    /\ UNCHANGED << writer, reader, spatial >>

(* Fault: the writer is not given his update back.                         *)
SendWithoutEcho(handle) ==
  /\ sends < MaxSends
  /\ \E a \in FreeIn(memory) :
       LET first == new_copy("update", handle, memory, a)
       IN  /\ memory' = free(first.handle, first.mem)
           /\ outbox' = Append(outbox, first.copy)
  /\ intended' = ApplyTo(memory.object[UpdateObject], intended)
  /\ sends' = sends + 1
  /\ UNCHANGED << echoes, mine, reader, spatial >>

(* The core copies the handle twice; the caller's is destroyed on return.  *)
Send(handle) ==
  /\ sends < MaxSends
  /\ \E a \in FreeIn(memory) :
       LET first  == new_copy("update", handle, memory, a)
           second == new_copy("update", first.handle, first.mem, a)
       IN  /\ memory' = free(second.handle, second.mem)
           /\ outbox' = Append(outbox, first.copy)
           /\ echoes' = Append(echoes, second.copy)
  /\ intended' = ApplyTo(memory.object[UpdateObject], intended)
  /\ sends' = sends + 1
  /\ UNCHANGED << mine, reader, spatial >>

SendByCopying == Send(copyable(UpdateObject))
SendByMoving  == Send(movable(UpdateObject))

(* GetOpList and Process: the writer's View is updated by an echo, and the *)
(* list's destructor frees the handle.                                     *)
ProcessEcho ==
  /\ echoes # << >>
  /\ mine' = ApplyTo(get(Head(echoes), memory), mine)
  /\ memory' = free(Head(echoes), memory)
  /\ echoes' = Tail(echoes)
  /\ UNCHANGED << outbox, intended, sends, reader, spatial >>

-----------------------------------------------------------------------------
(* The cores, in their threads, and SpatialOS.                             *)

(* A new object at the reader's, out of what came over the wire.           *)
Arrive(type, object, mem) ==
  \E a \in FreeIn(mem) :
    /\ memory' = Store(mem, a, object, 1)
    /\ arrived' = Append(arrived, Op(type, sharing(a)))

(* An update leaves the writer.  The reader gets it if it has the entity   *)
(* in view.                                                                *)
Transmit ==
  /\ outbox # << >>
  /\ LET update == Deserialize(Serialize(get(Head(outbox), memory)))
         freed  == free(Head(outbox), memory)
     IN  /\ world' = ApplyTo(update, world)
         /\ IF in_view THEN Arrive("update", update, freed)
            ELSE memory' = freed /\ UNCHANGED arrived
  /\ outbox' = Tail(outbox)
  /\ UNCHANGED << echoes, mine, intended, sends, in_view, changes, reader >>

(* The entity comes into the reader's view, with its data.                 *)
CheckOut ==
  /\ ~in_view /\ changes < MaxChanges
  /\ Arrive("add_component", ReadData(WriteData(world)), memory)
  /\ in_view' = TRUE /\ changes' = changes + 1
  /\ UNCHANGED << world, writer, reader >>

CheckIn ==
  /\ in_view /\ changes < MaxChanges
  /\ arrived' = Append(arrived, Op("remove_component", sharing(Null)))
  /\ in_view' = FALSE /\ changes' = changes + 1
  /\ UNCHANGED << memory, world, writer, reader >>

(* SpatialOS answers an entity query of the reader's.                      *)
Answer ==
  /\ changes < MaxChanges
  /\ Arrive("entity_query_response", ReadData(WriteData(world)), memory)
  /\ changes' = changes + 1
  /\ UNCHANGED << world, in_view, writer, reader >>

-----------------------------------------------------------------------------
(* The reader, in its own thread.                                          *)

GetOpList ==
  /\ list = << >> /\ arrived # << >>
  /\ list' = arrived /\ arrived' = << >>
  /\ at' = [ v \in Views |-> 0 ]
  /\ UNCHANGED << memory, view, answer, world, in_view, changes, writer >>

(* The component in a View after an operation, as in Entity's functions:   *)
(* Add is without effect if it is there, Update if it is not.              *)
After(op, data, mem) ==
  CASE op.type = "add_component" /\ data = NoData -> get(op.handle, mem)
    [] op.type = "remove_component" -> NoData
    [] op.type = "update" /\ data # NoData -> ApplyTo(get(op.handle, mem), data)
    [] OTHER -> data

(* The entities of an answer are moved out of the list, into an object the *)
(* callbacks see.                                                          *)
TakeAnswer(v, op) ==
  /\ op.type = "entity_query_response"
  /\ LET taken == steal("snapshot", op.handle, memory, Null)
     IN  /\ memory' = taken.mem
         /\ answer' = [ answer EXCEPT ![v] = [ got |-> taken.object, said |-> op.said ] ]
  /\ UNCHANGED view

TakeChange(v, op) ==
  /\ op.type # "entity_query_response"
  /\ view' = [ view EXCEPT ![v] = After(op, @, memory) ]
  /\ UNCHANGED << memory, answer >>

(* One operation of what View v makes of Process(list).                    *)
ProcessNext(v) ==
  /\ at[v] < Len(list)
  /\ at' = [ at EXCEPT ![v] = @ + 1 ]
  /\ LET op == list[at[v] + 1] IN TakeAnswer(v, op) \/ TakeChange(v, op)
  /\ UNCHANGED << list, writer, spatial >>

(* Fault: the list goes, what is in it stays.                              *)
DestroyOpListOnly ==
  /\ list # << >> /\ \A v \in Views : at[v] = Len(list)
  /\ list' = << >>
  /\ UNCHANGED << memory, at, view, answer, writer, spatial >>

(* Every View has processed the list: ~OpList frees what is in it.         *)
DestroyOpList ==
  /\ list # << >> /\ \A v \in Views : at[v] = Len(list)
  /\ LET freed == { list[i].handle.shared : i \in 1 .. Len(list) }
     IN  memory' = [ object |-> [ a \in Addresses |->
                                    IF a \in freed THEN EmptyUpdate ELSE memory.object[a] ],
                     uses   |-> [ a \in Addresses |->
                                    IF a \in freed THEN memory.uses[a] - 1 ELSE memory.uses[a] ] ]
  /\ list' = << >>
  /\ UNCHANGED << at, view, answer, writer, spatial >>

-----------------------------------------------------------------------------
Reading == GetOpList \/ (\E v \in Views : ProcessNext(v)) \/ DestroyOpList

Next ==
  \/ Edit \/ SendByCopying \/ SendByMoving \/ ProcessEcho
  \/ Transmit \/ CheckOut \/ CheckIn \/ Answer
  \/ Reading

Spec == Init /\ [][Next]_vars

(* Both workers' loops go on, and the writer's core sends what it has.     *)
FairSpec ==
  Spec /\ WF_vars(ProcessEcho) /\ WF_vars(Transmit) /\ WF_vars(Reading)

-----------------------------------------------------------------------------
(* Properties.                                                             *)

(* Type correctness: the memory and the queues of handles and operations,  *)
(* the data each party has, and the counters within their bounds.          *)
ReplicationTypeOK ==
  /\ memory \in Memories
  /\ outbox \in Seq(Handles) /\ echoes \in Seq(Handles)
  /\ { mine, world, intended } \subseteq Data
  /\ arrived \in Seq(OpRecords) /\ list \in Seq(OpRecords)
  /\ view \in [ Views -> Data \cup {NoData} ]
  /\ at \in [ Views -> Nat ] /\ \A v \in Views : list # << >> => at[v] <= Len(list)
  /\ in_view \in BOOLEAN /\ sends \in 0 .. MaxSends /\ changes \in 0 .. MaxChanges

(* How many of the core's handles share the object at a.                   *)
HandlesOn(a) ==
    Cardinality({ i \in 1 .. Len(outbox) : outbox[i].shared = a })
  + Cardinality({ i \in 1 .. Len(echoes) : echoes[i].shared = a })
  + Cardinality({ i \in 1 .. Len(arrived) : arrived[i].handle.shared = a })
  + Cardinality({ i \in 1 .. Len(list) : list[i].handle.shared = a })

(* The addresses a queue of handles, or of operations, refers to.          *)
SharedBy(handles) == { handles[i].shared : i \in 1 .. Len(handles) }

OwnedBy(ops) == { ops[i].handle.shared : i \in 1 .. Len(ops) } \ {Null}

One(S, a) == IF a \in S THEN 1 ELSE 0

(* An object counts the handles that share it.                            *)
UsesCounted ==
  \A a \in Addresses :
    memory.uses[a] = One(SharedBy(outbox), a) + One(SharedBy(echoes), a)
                   + One(OwnedBy(arrived), a) + One(OwnedBy(list), a)

(* What the reader has, the writer does not share, and nobody shares the   *)
(* object the writer edits.                                                *)
Apart ==
  /\ UpdateObject \notin SharedBy(outbox) \cup SharedBy(echoes)
                        \cup OwnedBy(arrived) \cup OwnedBy(list)
  /\ (SharedBy(outbox) \cup SharedBy(echoes)) \cap (OwnedBy(arrived) \cup OwnedBy(list)) = {}
  /\ OwnedBy(arrived) \cap OwnedBy(list) = {}

(* The handles of a queue of the writer's core share, each its own object. *)
QueueOK(q) ==
  \A i \in 1 .. Len(q) :
    /\ q[i] = sharing(q[i].shared) /\ q[i].shared # Null
    /\ \A j \in 1 .. Len(q) : i # j => q[i].shared # q[j].shared

(* So do the operations of the reader's that have a handle, and the object *)
(* of a component or of an entity is data.                                 *)
OpsOK(ops, mem) ==
  \A i \in 1 .. Len(ops) :
    LET a == ops[i].handle.shared
    IN  /\ ops[i].handle = sharing(a)
        /\ a = Null <=> ops[i].type = "remove_component"
        /\ a # Null => \A j \in 1 .. Len(ops) : i # j => a # ops[j].handle.shared
        /\ ops[i].type \in { "add_component", "entity_query_response" }
             => mem.object[a] \in Data

Ownership ==
  /\ UsesCounted /\ Apart
  /\ QueueOK(outbox) /\ QueueOK(echoes)
  /\ OpsOK(arrived, memory) /\ OpsOK(list, memory)

(* The inductive invariant.                                                *)
ReplicationIInv == ReplicationTypeOK /\ Ownership

(* Nothing leaks and nothing is freed too early: an object lives exactly   *)
(* as long as handles share it, and no handle in the hands of a core       *)
(* points into memory that belongs to the user.                            *)
ObjectsLiveWhileShared ==
  /\ \A a \in Addresses : memory.uses[a] = HandlesOn(a)
  /\ memory.uses[UpdateObject] = 0
  /\ \A i \in 1 .. Len(outbox) : outbox[i].copyable_raw = Null /\ outbox[i].movable_raw = Null
  /\ \A i \in 1 .. Len(echoes) : echoes[i].copyable_raw = Null /\ echoes[i].movable_raw = Null

(* The core calls the vtable for different handles from different threads. *)
(* That is safe because an object that handles share is only read.         *)
SharedIsOnlyRead ==
  [][ \A a \in Addresses :
        memory.uses[a] >= 2 /\ memory'.uses[a] >= 1
          => memory'.object[a] = memory.object[a] ]_vars

(* "The provided update object is copied and may be subsequently reused by *)
(* the caller": nobody but the writer changes it, a send that was told to  *)
(* copy does not, and one that was told to move leaves an empty update.    *)
UpdateIsTheWriters ==
  [][ memory'.object[UpdateObject] # memory.object[UpdateObject]
        => \/ Edit
           \/ /\ SendByMoving /\ ~SendByCopying
              /\ memory'.object[UpdateObject] = EmptyUpdate ]_vars

(* What data becomes when the updates of a sequence of handles are applied. *)
AfterUpdates(handles, data) ==
  LET after[i \in 0 .. Len(handles)] ==
        IF i = 0 THEN data ELSE ApplyTo(get(handles[i], memory), after[i - 1])
  IN  after[Len(handles)]

AfterOps(ops, data) ==
  LET after[i \in 0 .. Len(ops)] ==
        IF i = 0 THEN data ELSE After(ops[i], after[i - 1], memory)
  IN  after[Len(ops)]

(* Whatever the writer does with his object after he has sent it, SpatialOS *)
(* gets what it held when it was sent, a collection he emptied included.   *)
WorldCatchesUp == AfterUpdates(outbox, world) = intended

(* The writer's own View says what he sent, up to the echoes to come.      *)
EchoesCatchUp == AfterUpdates(echoes, mine) = intended

(* A View of the reader's lags behind SpatialOS by the operations that are *)
(* on their way, and by nothing else: however often the entity comes into  *)
(* view and goes, and whatever else processes the same lists.              *)
ViewsCatchUp ==
  \A v \in Views :
    AfterOps((IF list = << >> THEN << >> ELSE SubSeq(list, at[v] + 1, Len(list))) \o arrived,
             view[v]) = IF in_view THEN world ELSE NoData

(* So everyone catches up with the writer.                                 *)
EveryoneCatchesUp == WorldCatchesUp /\ EchoesCatchUp /\ ViewsCatchUp

(* "It's OK to steal the data here since we know this is the only possible *)
(* callback": what the callbacks see is what SpatialOS answered.           *)
AnswersAreTrue ==
  \A v \in Views : answer[v] # NoAnswer => answer[v].got = answer[v].said

(* It is so for the View that comes first to an answer, whatever has been  *)
(* sent, received and freed between the answer's arrival and its turn.     *)
TheFirstAnswerIsTrue ==
  (\E v \in Views : answer[v] # NoAnswer) =>
    \E v \in Views : answer[v] # NoAnswer /\ answer[v].got = answer[v].said

(* Once the writer stops sending, and the reader's view settles, everyone  *)
(* comes to have the data the writer intended, and keeps it.               *)
AllAgreeAtLast ==
  <>[]( /\ mine = intended /\ world = intended
        /\ \A v \in Views : view[v] = IF in_view THEN intended ELSE NoData )
=============================================================================
