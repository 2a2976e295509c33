# A verification project for the C++ worker tutorial

The repository is a SpatialOS project with two worker programs written in C++
(`src/workers/Managed`, `src/workers/External`), a snapshot generator
(`src/snapshotgenerator/snapshots/main.cpp`), and the C++ worker SDK they are
built on, whose headers hold real code
(`src/snapshotgenerator/cmake-build/dependencies/worker_sdk/include/improbable`,
below `SDK`). This directory models that code in TLA+, checks the models with
TLC and proves theorems about them with TLAPS.

## 1. Inventory

| component | source | state | operations | what is hard about it |
|---|---|---|---|---|
| Dispatcher and callback maps | `SDK/detail/callbacks.i.h`, `worker_detail.h`, `dispatcher.i.h` | 18 callback maps, each with parked additions and removals and a call depth; the next key | `On…`, `Remove`, `Process` | callbacks call back into the dispatcher: they change the map being iterated over, process operations inside a delivery, throw |
| View | `SDK/view.h` | `Entities`, `ComponentAuthority` | its six callbacks, `GetAuthority` | it is only one client of the dispatcher among others, and relies on the order of delivery |
| Commands | `SDK/detail/connection.i.h`, `dispatcher.i.h`, `generated_src/othello.{h,cc}` | requests by id, with SpatialOS; a `GenericCommandObject` per handle | `SendCommandRequest`, `…Response`, `…Failure`, `OnCommandRequest<T>`, `OnCommandResponse<T>` | the commands of a component share a callback map and a handle type; timeouts, late and repeated answers, changes of authority |
| Requests about entities | `SDK/detail/connection.i.h`, `dispatcher.i.h` | a request id per request; the C structure of a query | reserve ids, create, delete, query, and the five responses | refused, carried out too late, retried; arrays of pointers built while recursing |
| Connection, Locator, Future | `SDK/detail/connection.i.h`, `future.i.h` | the connection of the C library (external); a future's result and `moved_from` | connect, `Get`, `Wait`, `IsConnected`, `GetOpList`, `Send…` | asynchronous: refused, lost and queued at any time; operations arrive whenever they like |
| Managed worker | `workers/Managed/src/startup.cc` | `is_connected`, arguments | `main` | a flag that lags behind the connection; sending while the connection goes down |
| External worker | `workers/External/src/startup.cc` | `is_connected`, arguments | `main` | the same, and the queue of the locator |
| Entity, component storage | `SDK/detail/entity.i.h`, `components.i.h`, `dynamic.i.h` | components by id | `Add`, `Update`, `Remove`, `Get`, copy | `Add` does nothing when there is a component already |
| Client handles | `SDK/detail/client_handle.i.h`, `extract.i.h` | a borrowed, movable or shared pointer | `new_copy`, `get`, `get_mutable` | sharing: a move out of one handle empties the others |
| Collections | `SDK/collections.h`, `SDK/detail/collections.i.h` | `Map`: a list of pairs and a table of iterators | `emplace`, `erase`, `operator[]`, … | the two halves must change together |
| Snapshot streams, generator | `SDK/detail/snapshot.i.h`, `extract.i.h`, `components.i.h`, `snapshotgenerator/snapshots/main.cpp` | a file, the entity being read, the map that is saved or loaded | `ReadEntity`, `WriteEntity`, `LoadSnapshot`, `SaveSnapshot`, `main` | an error at any entity; a program killed in the middle; entities read into the variables of the one before |
| Metrics | `SDK/detail/metrics.i.h`, `connection.i.h` | gauges, load, histograms with buckets and sums | `RecordObservation`, `ClearObservations`, `Merge`, `SendMetrics` | one array for the buckets of all histograms; sending clears, and merging a histogram would overwrite it |
| Generated component classes | `snapshotgenerator/cmake-build/generated_src` | fields, updates | `Write…`, `Read…`, `ApplyTo`, `FromInitialData`, `ToInitialData`, the vtables' `Serialize` and `Deserialize` | an emptied collection and an untouched one look alike on the wire; options of options; recursive types |
| Parameters and constraints | `SDK/defaults.h`, `connection.i.h` | none | conversions | none |

How they interact: a worker program connects through a `Future<Connection>`,
registers callbacks with a `Dispatcher`, and then alternates `GetOpList` on the
connection and `Process` on the dispatcher, all in one thread. The connection is
served by threads of the C library, which is not in the repository; what it may
do is modelled after the comments in `SDK/worker.h` and is marked external.
`Process` delivers an operation by invoking callbacks, which are user code and
may use the dispatcher (and, in a `View`, look at the entities) while the
delivery goes on. A `View` is a dispatcher whose constructor registers callbacks
before anyone else can. The worker programs of this repository connect, listen and
send updates; the other things a `Connection` can do (commands, metrics, requests)
are modelled with a user program that does them in any order.

What makes each correct:

- *Dispatcher*: an iteration is never disturbed and no callback is destroyed
  while it runs; keys are unique; `Remove` accepts exactly what is registered;
  a removed callback stays removed; after any exception the maps are as usable
  as before; all told, it behaves like the simple design its comment rejects
  only for its cost.
- *View*: it is what the operations say; its two maps agree; callbacks find in it
  what their operation is about. An exception that escapes `Process` ends the
  list of operations: of the operation it came from, the View misses at most a
  loss, never a gain, but of those that follow in the list it misses everything.
  What it misses is confined to the entities concerned, and made up for when it
  hears of their removal.
- *Component data and client handles*: what was sent arrives as it was when it
  was sent, at SpatialOS, at other workers and at the sender's own View; an
  object lives exactly as long as handles share it, and nobody writes to it
  while they do.
- *Generated classes*: what is written is read back, field by field, for every
  component, handle type and depth of nesting; an update with all fields stands
  for the data; applying one twice is applying it once.
- *Commands*: a handler is called for its own command, with what was sent, at
  most once; a caller hears one answer, and a success only if a handler gave it.
- *Requests*: what a callback is told of ids, entities and counts is so; a query
  finds what it describes.
- *Metrics*: no observation is lost or received twice.
- *Futures*: the C library is asked for the result until it gives it and then no
  more; the result has one owner.
- *Snapshots*: what is read is what was written, whatever failed on the way; who
  saves learns whether something is missing.
- *Workers*: no operation is lost between SpatialOS and the callbacks; a lost
  connection is reported and ends the program, a live one does not; nothing is
  sent once the worker knows of the disconnection.

## 2. Modules

```
Operations      CallbackMap          Connection
       \          /                      |
        Dispatcher ------------------ Worker --- ManagedWorker, ExternalWorker
       /    |     \                                     \      /
    View    |      CopyingDispatcher                     Workers --- WorkersProofs
      |     |       (implemented by Dispatcher)
 ViewProofs |
     DispatcherProofs

    OrderedMap (implements InsertionOrder) --- OrderedMapProofs

    ComponentData --- ClientHandle --- Replication --- ReplicationProofs

    Pbio --- Othello --- StandardLibrary --- Interest --- Components
                |                                             \-- GeneratedProofs
                Commands (implements RemoteCalls) ----------------/

    Snapshots --- SnapshotsProofs

              Queries --- EntityRequests
                                |
            Futures, Metrics ---+--- Session --- SessionProofs
                                        |
                                    MCSession
```

**Operations** has the operations a worker is sent as records, the callback map
each goes to (`SlotOf`: one per type, or one per type and component, as in
`DispatcherImpl` and `ComponentCallbackMap`), and the order of delivery
(`Reversed`, the choice of `InvokeAll` or `ReverseInvokeAll` in the `Handle…`
functions). A `worker::Map` iterates in order of insertion; keys are handed out
and inserted in ascending order, so a callback map is a set of keys traversed
upwards or downwards.

**CallbackMap** is the class of that name, one operator per member function, as
functions of a record `[map, to_add, to_remove, call_depth]`. `Enter` and `Leave`
are the `UpdateGuard`'s constructor and destructor. A callback is its key.

**Dispatcher** is `worker::Dispatcher`. `passes` is the call stack of the
deliveries in progress; user code runs in the callback of the last one, or
outside when there is none. `Dispatch(op)` begins a delivery (outside or from a
callback, hence nesting), `NextCallback` and `EndPass` carry it on, and `Throw`
lets an exception out of the callback that runs. In between, user code may
`Register` and `Remove`; `RemoveUnknown` is the call of `std::terminate`.
`Process` of a list of operations is a succession of deliveries. The component
maps of `ComponentCallbackMap` are created on demand in the code and exist from
the start here: an empty callback map and none behave alike.

**CopyingDispatcher** is the abstract specification: registration and removal
take effect at once, and the outermost delivery on a slot copies its callbacks.
`Dispatcher` defines the refinement mapping (`current` is the map plus `to_add`
minus `to_remove`; the copy is the map while a delivery is in progress) and
`ImplementsCopying`.

**View** extends `Dispatcher` with `Entities` and `ComponentAuthority`. The
View's callbacks are keys `0 .. 1 + 4n` of the dispatcher's maps, registered by
the constructor; `Execute` runs the View's callback when a delivery comes to one
of these keys. `MakesSense` is the environment: SpatialOS does not remove what it
has not added, and authority changes follow its protocol.

`Process` goes through a list without a `try` block, so that an exception leaves
it with the rest of the list undelivered (`dispatcher.i.h:359-419`). A list is a
stretch of the stream of operations, and nothing depends on what is still in it
until that is delivered or lost; so the model chooses its operations as late as
that. `Process(op)` delivers the next one, of the list at hand or of a new one;
`UserThrow` ends a pass and its `Process`, and `OtherThrow` does so from a
callback for an operation of another kind, of which the View hears nothing;
after either, `Drop(op)` is an operation the list still had, which nobody hears
of. `newest` is the nesting depth of the last list while more of it may come. One
restriction: when a callback processes a list of its own, the list it was called
for has no operations left.

Three more variables are history. `known` is the world as the lists handed to
`Process` tell it, dropped operations included. `dropped` are the entities of
dropped operations, `abandoned` those of losses that were delivered to callbacks
of the user but, for an exception, not to the View's own; an entity leaves both
when the View hears of its removal (`Forget`). The properties say of each entity
what holds whatever is thrown, what holds if it is not in `dropped`, and what
holds if it is in neither.

**Connection** is `worker::Connection` seen from its owner, with the SDK core
and SpatialOS as environment: a connection attempt may queue, be accepted or
refused; operations arrive in `queue` while `link` holds; the loss of the link
puts a last operation, the disconnection, into the queue. `IsConnected` is a set
of answers, for the comment in `worker.h` leaves open what is answered of a
connection that was made and is lost again. A component update the worker sends
is read back as an operation ("legacy semantics" of `SendComponentUpdate`).

**Worker** holds what the two programs share, one action per statement of
`main()` that has an effect, on top of `Dispatcher` and `Connection`; `pc` is the
place in `main()`, `batch` what is left of the list that `Process` works on.
**ManagedWorker** and **ExternalWorker** add the arguments, the way to connect
and, in the Managed worker, sleeping and the two updates sent in each turn.

**OrderedMap** is `worker::Map`, the container of the SDK: `values` is the
`std::list` of pairs (here of the nodes that hold them), `lut` the hash table
from a key to the list iterator of its pair, and `heap` the nodes by address, so
that a copy of one map that kept iterators into the other would be seen. Several
maps exist side by side for assignment, `swap` and comparison; a map that is
assigned to itself is one of the cases. `it` is an iterator the user keeps,
which by the rules of the standard containers stays usable until its pair is
erased. Insertion of a range or of an initializer list is a succession of
`Emplace`, and construction one of `Clear` and those. `HashOf` is the map's
`std::hash`, whose width is a constant.

**InsertionOrder** is what a `worker::Map` promises: for each map a sequence of
pairs with distinct keys, in order of insertion. `OrderedMap` defines the
refinement mapping (`contents`: the list's nodes followed to their pairs) and
`ImplementsInsertionOrder`.

**ComponentData** has the data and the updates of one generated component,
`EntityAcl`, chosen because it has a field of either kind, one that always has
a value and a collection. `Serialize` and `Deserialize` are its vtable's
functions for updates, `WriteData` and `ReadData` those for initial data. A
message is a record of what is in each field; a collection is the set of its
elements there, so that an empty one cannot be told from none, and the list
`fields_to_clear` is what tells them apart. The values of a requirement set are
a constant; a `worker::Map` is a function, which OrderedMap justifies.

**ClientHandle** is `worker::detail::ClientHandle<T>`, one operator per member
function, as functions of a handle and the memory. The memory has an object at
each address and, for those of a `std::shared_ptr`, its use count; `free` is the
`delete` in the vtable. `steal` is `std::move(get_mutable())`, the way its only
caller uses it (`components.i.h`).

**Replication** follows component data through both. One worker writes: it has
one `Update` object, which it edits and sends by copying or by moving
(`Edit`, `Send`). The core of the SDK (external) copies the handle by the
vtable, once for the wire and once for the operation by which the sender hears
of his own update, as `worker.h:712` says. Another worker reads: the entity
comes into its view and leaves (`CheckOut`, `CheckIn`), queries are answered
(`Answer`), updates arrive (`Transmit`), and each of its `Views` processes the
lists it gets (`ProcessNext`), the way `Entity::Add`, `Update` and `Remove` do
it for the callbacks of a View. `DestroyOpList` frees what the list holds.
`intended` is a history variable, the data as the updates sent make it. The
View module has what Replication leaves out: several entities, components and
user callbacks.

**Workers** is both programs side by side: `program` says which of the two was
started, and whatever is claimed is claimed of both.

**Pbio** is a protobuf object as the generated code sees it: for each field id
the values added under it. **Othello** has the classes generated from
`othello.schema`, **StandardLibrary** those from `standard_library.schema` and
`vector3.schema`, and **Interest** the nested types of `improbable::Interest`: for
each type its values, the default-constructed one, `Write_…` and `Read_…`; for
each component its updates with `FromInitialData`, `ToInitialData` and `ApplyTo`,
and its vtable's `Serialize` and `Deserialize` for each type of handle.
A constraint of a query has lists of constraints. `QueryConstraint(S)` is those
whose lists are over `S`, and `ConstraintLevels` is any sequence of sets, of which
each has constraints over the sets before it: as the constraints that a program
builds are, since a `worker::List` is filled with objects that are there already.
The two functions that write and read a constraint call themselves for those in
its lists. They are constants, `Write_QueryConstraint` and `Read_QueryConstraint`,
`WriteConstraint` and `ReadConstraint` are their bodies, and `InterestAssumption`
says that on these constraints the ones do what the others say. The configuration
of `MCComponents` gives the constants their bodies as values, and TLC evaluates
the assumption.

`EntityAcl` is in ComponentData. **Components** sends a component of any of these
kinds from a worker that writes it to one that reads it: an `Update` object is
filled in and sent, or the whole data is; the reader keeps its copy as a View
would.

**Commands** has the two commands of `othello::Game`, between workers any of
which may have authority. A request goes to the worker with authority through
`Serialize`, or, short-circuited, through the vtable's `Copy` into the sender's
own list; `OnCommandRequest<T>` and `OnCommandResponse<T>` are filters by command
id in front of the user's callback, and the operators of those names return what
the callback is called with, if it is. SpatialOS (external) changes authority,
delivers, loses, and lets requests fail at any time, after which their messages
may still arrive. **RemoteCalls** is what commands promise: a call is carried out
at most once and answered at most once, with what was asked and answered, or
fails. `Commands` defines the refinement mapping from its history variables.

**Queries** translates entity queries to the C structure, a tree of pointers into
arrays that `ConvertConstraint` allocates while it recurses, and answers back to
operations. `ConstraintLevels` is, as in Interest, a sequence of sets of which each
has constraints over the sets before it. What a constraint means (`Matches`), how
it is converted (`ConvertConstraint`, a function of the constraint and of the arrays
that are there already) and what SpatialOS finds when it follows the pointers
(`Holds`) are recursive functions. **EntityRequests** has the five requests about entities and their
responses, with SpatialOS carrying them out late, twice if they are retried,
refusing them or losing the answer. **Metrics** has the histograms, `Merge`, and
`SendMetrics` with the array that all histograms' buckets share. What is merged is
what `HandleMetrics` makes of SpatialOS's report, which has gauges only: merging a
histogram overwrites what was observed, as `worker.h:876` says, and no program
here does it.
**Futures** has `Wait`, `Get` and the destructor of a future of each kind against
a C library that hands its result out once. **Session** composes them: a worker
gets its Connection through a future and then uses it. The connection of a
`Locator` reports metrics, that of a receptionist makes requests (they share no
state, and all pairs would only multiply), and a list of deployments is the end.

**Snapshots** has the streams, `LoadSnapshot`, `SaveSnapshot` and the generator.
The file outlives the programs that run one after the other; any of them may be
killed (`Stop`) at any step, and the C library may fail to open, to write an
entity (leaving a part of one behind), to read one and to write the end of the
file. `saved` is a history variable, what was last written without an error.

**MC…** modules give the constants their values. Operators with the comment
"Fault:" are deliberate mistakes, one or two per property, used to see that the
properties notice them; no specification uses them.

## 3. Runs

| run | module, config | distinct states | what it shows |
|---|---|---|---|
| dispatcher | `MCDispatcher` | 224 138 | all properties of the dispatcher, and that it implements the copying one |
| view | `MCView` | 457 973 | the View follows the stream, entity by entity, with exceptions that end lists, without nested processing |
| view_nested | `MCView`, `MCViewNested.cfg` | stops at a violation | nested processing breaks `KnowsTheWorld` |
| workers | `MCWorkers` | 46 233 | both programs from their arguments to their exit: nothing lost, disconnections reported, termination |
| managed_sends | `MCWorkers`, `MCManagedSends.cfg` | stops at a violation | the Managed worker sends after it has handled the disconnection |
| ordered_map | `MCOrderedMap` | 19 093 | the list and the table of a map agree, iterators stay usable, equality and hash agree, and a map is a sequence of pairs |
| replication | `MCReplication` | 179 334 | two Views that process the same lists: data sent arrives as it was sent, objects live while shared, nobody writes to a shared object, and all come to agree |
| replication_two_views | `MCReplication`, `MCReplicationTwoViews.cfg` | stops at a violation | the answer to a query is gone for the second of two Views |
| components | `MCComponents` | 67 944 | every generated component through updates, vtables and protobuf objects, interests with every kind of constraint |
| commands | `MCCommands` | 338 835 | commands are remote calls, and every caller hears an answer |
| snapshots | `MCSnapshots` | 30 036 | what is read is what was written, and who saves learns of what is missing |
| session | `MCSession` | 1 902 708 | futures, metrics, requests about entities and queries |

Some properties name their parts: `EveryoneCatchesUp` is `WorldCatchesUp`,
`EchoesCatchUp` and `ViewsCatchUp`; `MapsAgree` includes `ViewTypeOK`,
`NothingIsLostOnTheWay` includes `ComponentsTypeOK`. Parts of inductive
invariants that no run lists by name (`DepthMatchesPasses`, `KeyInOneMap`,
`MapTypeOK`, `NodesOwned`, `ReplicationTypeOK`, `UpdateIsTheWriters`,
`CommandsTypeOK`, `HandlesAreThere`) are proved (section 4).

**Bounds.** `MaxKeys` bounds registrations, `MaxDepth` the nesting of deliveries,
`MaxOps` the operations SpatialOS sends before the disconnection, `MaxArguments`
the number of command line arguments. The dispatcher run has four keys, three
nested deliveries and two slots, one of them delivered in both orders: enough
for a callback to be parked for addition and another for removal in the same
map, at two depths, while a third map is quiet, and for a key to be in one map
and tried in the other. A callback map does not look at the number of its
entries, so further keys repeat these cases. The view run has the six keys of
the View's own callbacks for one component and two for callbacks of the user's in
any slot, and two entities and two values, so that one entity is left behind by
exceptions while the other is not, and stale data shows. The run with nested
processing has two components, ten keys of the View's and two of the user's. The
workers take three operations of SpatialOS's, which leaves room for
operations before, between and after the ones with callbacks, and both ports,
one that fits sixteen bits and one that does not. Entities and values are
symmetric: they are only compared for equality. The map run has two maps and
three keys, so that an erased key can be first, in the middle and last, and five
nodes, so that a full map and one with two pairs fit at once; nodes are
symmetric, for an address means nothing to the code. Two values tell an
overwritten pair from one that is left alone. More maps or keys repeat
these cases, since no operation involves more than two maps or two pairs.

The replication runs have two addresses besides the writer's object (`Addresses`),
so that memory is reused while it is scarce: an object that is freed too early
or too late is noticed. `MaxSends` bounds the updates sent and `MaxChanges` the
check-outs, check-ins and answers; with two of each, an update can be on its way
while the entity comes into view or leaves it, and a second one behind it. One
component id makes a collection that is empty or not. The run that passes
checks liveness and hence uses no symmetry.

The components run has two or fewer values of each base type, so that a default
and another value are there wherever the code tells them apart, three messages on
their way (`MaxInFlight`), and interests with a constraint of every kind and two
levels of nesting. The commands run has two workers, two requests (`MaxRequests`)
and one answer to each (`MaxAnswers`): a request of one command while one of the
other waits, either short-circuited or not, and a late answer to each; that a
handler may answer twice is left to the proofs. The snapshots run has two maps of entities and
the generator's five. The session run has three requests (`MaxRequests`) of which
two may be with SpatialOS at once (`MaxInFlight`), one query and one reservation
of each kind among them, so that a retried creation or deletion meets its late
original; two histograms of different length, two observations of each
(`MaxObservations`) and two reports (`MaxSends`).

**Deadlock** is checked in every run but those of the dispatcher, the workers and
the session. A dispatcher whose application was terminated, a worker that has
exited or used up its sends, and a session whose connection failed or that has
reached its bounds are meant to stop.

**Fairness.** `WorkersSpec` assumes weak fairness of the program's own steps
together: the operating system runs the process, and the
code's calls return (`GetOpList` has a timeout of 100 ms, `sleep_for` one of a
second). Nothing is assumed of SpatialOS: `EndsWhenDown` only speaks of
connections that are refused or lost. `Future::Get` without a timeout may block
for good, which the model has. `FairSpec` of Replication assumes weak fairness of
the writer's processing of his echoes, of the core that sends, and of the
reader's loop: `startup.cc` processes a list in each turn of its loop, and the
core's thread sends what it was given. Nothing is assumed of `Edit`, of the
sends, or of SpatialOS's check-outs, check-ins and answers, which are bounded and
may never happen. `FairSpec` of Commands assumes of each worker that it goes on
processing operations, and of the C library that a request times out at last,
which `SendCommandRequest` promises ("timeout_millis", with a default when none
is given). That anything arrives, is handled or is answered is not assumed.

### Findings

1. *view_nested.* `view.h:26-29` erases an entity in a callback that is the last
   to run of those for a removal. If a callback that ran before it calls
   `Process` with a list in which the entity is added again, the View ends up
   without an entity that is in view, contrary to "maintains the known state of
   entities in the worker's view of the simulation" (`view.h:10-11`). Nothing in
   the SDK forbids nested calls; `callbacks.i.h` was written to allow them.
2. *managed_sends.* `workers/Managed/src/startup.cc:118-146` tests `is_connected`
   once per turn; in the turn that handles the disconnection it goes on to sleep
   and to send two updates, although "the Connection has disconnected and can no
   longer be used" (`worker.h:1018-1019`).
3. *replication_two_views.* `dispatcher.i.h:111-124` moves the data of an answer
   to an entity query out of the list of operations, "since we know this is the
   only possible callback for the C dispatcher" (`dispatcher.i.h:117-118`). But
   `Process` takes the list as a constant reference and is no more attached to
   it than any other dispatcher: when two Views process one list, the callbacks
   of the second see default values. The first sees what was answered
   (`TheFirstAnswerIsTrue`).

Seen while modelling, and in no run:

- An exception that escapes `Process` drops the rest of the list. When an
  `add_entity` was among what is dropped, the later operations of the entity meet
  a View without it: components added to it and their updates are ignored, but a
  change of authority is recorded all the same (`view.h:88-90`), for an entity
  that `Entities` does not have. No comment says what should happen; the
  properties of the View except the entities in `dropped` where they must.
- `SaveSnapshot` of an empty map to a path that cannot be opened returns no
  error, and a failure to write the end of the file when the stream is closed is
  told to nobody (`snapshot.i.h:54-65`, `102-109`): `MissingIsReported` speaks of
  entities, and `LoadedIsWhatWasSaved` of files whose end was written.
- The generator insists on its `<filename>` argument and does not look at it
  (`snapshots/main.cpp:32`, `36`), and returns 0 when entities were not written.
- `Future::Wait` returns true after `Get` has moved the result out.
- A comment (`worker.h:637-639`) says that the answer to
  `SendReserveEntityIdsRequest` comes through `OnReserveEntityIdResponse`; it
  comes through `OnReserveEntityIdsResponse`.

## 4. Proofs

### Dispatcher

`DispatcherProofs` holds for all values of the constants, from `BoundsAssumption` alone (`MaxKeys` and `MaxDepth` are natural
numbers).

The inductive invariant is `IInv` in `Dispatcher`:

- `TypeOK`;
- `KeysIssued`: every stored key is below `current_callback_key`. Without it a
  registration could reuse a key, and `KeyInOneMap` would not be inductive;
- `KeyInOneMap`;
- `ParkedChangesSound`: nothing parked at depth 0, additions new to the map,
  removals of what it has. Without it a merge could drop an addition or leave a
  removal behind;
- `DepthMatchesPasses`: `call_depth` counts the deliveries in progress. It is
  what says that a merge never happens under an iteration;
- `RunningCallbackStored`: it depends on the previous one, since only a merge
  erases keys from a map.

Lemmas state what each operator of `CallbackMap` does to a sound map (`AddTo`,
`RemoveFrom`, `Enter`, `Leave`), and how the number of deliveries on a slot
changes when the call stack grows or shrinks. `Inductive` proves
`Spec => []IInv`, one step per action; the other theorems draw their property
from it:

| theorem | property |
|---|---|
| `TypeCorrect` | `TypeOK` |
| `RunningNotDestroyed` | `RunningCallbackStored` |
| `DepthCounts` | `DepthMatchesPasses` |
| `ParkedAreSound` | `ParkedChangesSound` |
| `KeysAreUnique` | `KeyInOneMap` |
| `RemovalIsExact` | `RemoveAcceptsCurrent` |
| `IterationIsStable` | `IterationStable` (action property) |
| `RemovedAreGone` | `RemovedStaysRemoved` (action property) |
| `DispatcherImplementsCopying` | `ImplementsCopying` (refinement) |

The refinement of the dispatcher maps `Register`, `Remove`, `RemoveUnknown`, `Dispatch` and
`NextCallback` to the actions of the same names, and both `EndPass` and `Throw`
to `LeavePass`; the heart of it is that a merge does not change what is current
and that the map stands still while it serves as the copy.

### View

| theorem | property |
|---|---|
| `ViewInductive` | the invariant of the View |
| `MapsAlwaysAgree` | `MapsAgree` (with `ViewTypeOK`) |
| `GainsAreKnown` | `NeverMissesAGain` |
| `WorldIsKnown` | `KnowsTheWorld` |
| `SubjectIsFound` | `CallbacksFindTheirSubject` |

`ViewProofs` assumes `BoundsAssumption`, `ViewAssumption` (the components of the
View are different and in the registry, the operations are those it tracks, and
its callbacks fit below `MaxKeys`), and in each theorem `MaxDepth <= 1`: an
operation is not processed by a callback of another. The last is needed, as
*view_nested* shows. Entities, components, data, callbacks and operations are
any number.

The invariant `ViewIInv` says: the dispatcher's `IInv`, since a step of the View
is one of its dispatcher or none (`StepOfDispatcher`); `KeysOfView`, that each
callback map has exactly one callback of the View, current and never parked for
removal, and that its key is below every key of the user; and `Knowledge`.
Between operations the View is `Sound` for every entity: if it has the entity it
has the authority for each of its components (`AuthorityKept`); unless operations
of the entity were dropped it has authority for nothing else (`AuthorityBacked`)
and has all there is of the entity in the world (`Covers`); and unless it missed
a loss either, nothing else (`Exact`). Within a pass it is
sound for the world before the operation while its callback is `Pending`, and for
the world after it otherwise; a state predicate about `known` alone would not be
inductive there. A pass in registration order begins with the View's callback
(`FirstReached`) and does not come back to it (`NextReached`); one in the opposite
order does not end before it (`LastReached`), and if it is left by an exception
the operation was a loss, after which the View still has all there is
(`LossCovers`). A dropped operation changes the world for its own entity only
(`DropCovers`), of which nothing is claimed from then on but `AuthorityKept`:
this the callbacks keep even for an entity the View has missed the addition of,
for the one that looks at nothing, that for changes of authority, only adds to
the authority. `HandleSound` is one lemma per callback, from what assignment and
erasure do to a map, and to a map of maps; `SoundElsewhere` says that each only
concerns the entity of its operation, and `ForgetHeals` that after a removal the
View is sound for the entity whatever was missed of it.

### Collections

| theorem | property |
|---|---|
| `MapTypeCorrect` | `MapTypeOK` |
| `LookupIsExact` | `LookupExact` |
| `NodesAreOwned` | `NodesOwned` |
| `IteratorsStayValid` | `IteratorValid` |
| `EqualityIsOfMappings` | `EqualityOfMappings` |
| `HashesMatchEquality` | `HashMatchesEquality` |
| `MapImplementsInsertionOrder` | `ImplementsInsertionOrder` (refinement) |

`OrderedMapProofs` assumes `MapAssumption` (`None`, which stands for what
is not there, differs from every node, pair and iterator, and `mapped_type{}` is
a value) and, for the hash, `HashAssumption` (`std::hash` gives natural numbers,
and `std::size_t` has at least one value). The inductive invariant is the
conjunction of the first four of its properties: that the table names exactly
the list's keys is preserved by `erase` only if no node is in a list twice or in
two lists (`NodesOwned`), and the user's iterator is followed by `erase` and by a
write through it, so its validity is needed for the other three. `MapsStayExact`
proves it, and each property follows; equality, which the code decides by size
and one inclusion, is that of mappings by a counting argument on finite sets.
That equal maps have the same hash holds although the two lists may have the
same pairs in different orders: a pair taken out of the list anywhere adds to the
hash what it would add at the end (`HashWithout`), whatever wraps around on the
way (`RemainderOfSum`), so that the hash of a list without repetitions depends on
its elements only (`HashIgnoresOrder`). Both are inductions on lengths; the
library's induction theorems are out of reach, and the proofs take a
counterexample of the least length instead (`LeastNatural`). `HashOfWalks` links
them to the recursive function in `HashOf`: it is the one function that satisfies
its definition.

### Replication

| theorem | property |
|---|---|
| `UpdateSurvivesTheWire` | `Deserialize(Serialize(u)) = u` for every update |
| `DataSurvivesTheWire` | `ReadData(WriteData(d)) = d` for all data |
| `Inductive` | `ReplicationIInv` |
| `TypeCorrect` | `ReplicationTypeOK` |
| `ObjectsLive` | `ObjectsLiveWhileShared` |
| `SharedIsRead` | `SharedIsOnlyRead` (action property) |
| `TheWritersUpdate` | `UpdateIsTheWriters` (action property) |
| `CatchUp` | `EveryoneCatchesUp` |
| `FirstAnswerTrue` | `TheFirstAnswerIsTrue` |

`ReplicationProofs` assumes `DataAssumption` (an empty option is no value),
`ReplicationAssumption` (the writer's object has an address, null is none, and
the bounds are natural numbers) and `AnswerAssumption` (no answer is none of the
answers). The inductive invariant is `ReplicationIInv`:
types, and `Ownership`, which says of each object which queues have a handle on
it. That use counts are sums over the queues (`UsesCounted`) is preserved by
freeing only if each queue has at most one handle on an object (`QueueOK`,
`OpsOK`); that the memory of the writer's core, of the reader's core and of the
writer himself are disjoint (`Apart`) is why nothing that is shared is written
to: the only writes are to the writer's own object, to fresh addresses, and to
the answer of a query, which only the list has. Every action has a lemma, and
lemmas on the memory and on the queues carry them. The two theorems on the wire
are used there too: what arrives is of the right type because it is what was
sent.

`EveryoneCatchesUp` says that applying the updates on their way, one after the
other, to what a party has gives what the writer meant. Its recursive functions
start at the head of a queue, and a step adds to its end; so the invariant
`AllLed` says instead that there is a trajectory (`Leads`): states of the data,
from what SpatialOS, the sender or a View has to `intended`, each of them what one
change makes of the one before. A trajectory can be cut at its head and extended
at its end, and the objects the queues refer to keep their values while they are
shared (`Kept`, from `Ownership`). At the end `UpdatesLead` and `OpsLead` show,
by a least counterexample, that the recursive functions compute the end of the
trajectory. `AnswersOK` is the invariant for answers: an answer in the list is
what SpatialOS said as long as no View took it, a View that is past it has an
answer, and of the Views that have one, one has a true one.

### Generated classes and commands

| theorem | property |
|---|---|
| `OthelloTypesReadBack`, `StandardTypesReadBack` | `Read_T(Write_T(d)) = d` for every type `T` of the schemas |
| `GameReadsBack`, `ColorReadsBack`, `PlayerReadsBack`, `TurnTakerReadsBack`, `MetadataReadsBack`, `PositionReadsBack`, `PersistenceReadsBack`, `InterestReadsBack` | `Deserialize(Serialize(x)) = << x >>` for every handle type |
| `WhatIsSentArrives` | `NothingIsLostOnTheWay` |
| `CompleteUpdatesAreData` | `ACompleteUpdateIsData` |
| `CommandsTypeCorrect` | `CommandsTypeOK` |
| `HandlesAreAlwaysThere` | `HandlesAreThere` |
| `RequestsAlwaysArriveAsSent` | `RequestsArriveAsSent` |
| `AnswersAreAlwaysTheHandlers` | `AnswersAreTheHandlers` |
| `CommandsImplementRemoteCalls` | `CommandsAreRemoteCalls` (refinement) |

The first part of `GeneratedProofs`, on the generated classes, assumes that each
base type has its default, and `InterestAssumption`. That a constraint is read as
it was written follows level by level: `ConstraintReadsBackOver` is the case of
one whose lists are read back, and `ConstraintsReadBack` takes the first level
that has a constraint that is not (`LeastNatural`). A map is read as it was
written because `EmplaceAll` keeps the pairs of a list in which each key is there
once (`MapOfItsPairs`).

The second part, on Components, assumes in addition `ComponentsAssumption` (the
maps of interest are such, and the bound is a natural number). `Facts` says of
each kind of component what the rest needs: what is serialized is deserialized
(`Carried`), applying an update yields data, twice the same, and what
`ToInitialData` says if the update is complete (`Applied`), and a field that is
set or cleared leaves an update (`Fields`). The inductive invariant,
`ComponentsInv`, has these types, that the whole data is on its way only ahead of
all updates, to a reader without a copy (`DataComesFirst`), and that there are
copies (`Copies`), from the one that the reader has to the data of the component,
each of which comes of the one before by one message. They are extended at the end
when something is sent (`OneMore`) and lose the first when it is received
(`OneLess`), and they are what the recursive function in `Arriving` computes
(`CopiesArrive`).

The third, on commands, assumes `CommandsAssumption` (no worker is called
`Nobody`, success is no failure, and the bounds are natural numbers). Its
inductive invariant follows a request on its way. Each message is that of a
request or an answer that was sent, as the vtable writes it; each operation in a
queue has the object that the vtable reads back, so that what the filters see is
what was sent (`GameReadsBack`); a request is at one place at a time (in the
network, or received, once, and then in the queue or handled), so that no
handler is called twice for it; and a response operation is in a queue only if
the request is resolved, and only once, so that no caller hears two. For the
refinement, an answer that is on its way is by a handler that was called, which
`RemoteCalls` demands of a success.

### Workers

| theorem | property |
|---|---|
| `WorkersDispatch` | `IInv` of the workers' dispatcher |
| `FlagLagsBehindQueue` | `LagsOnlyBehindTheQueue` |
| `ExitsWhenDown` | `ExitsOnlyWhenDown` |
| `NoOperationIsLost` | `NothingLost` |
| `DisconnectIsReported` | `ReportsDisconnect` |
| `EchoesStayFew` | `EchoesDoNotPileUp` |
| `WorkersTypeCorrect` | `WorkersTypeOK` |

`WorkersProofs` assumes `BoundsAssumption`, `ConnectionAssumption` (the
disconnection, the worker's own updates and what SpatialOS sends are different)
and `WorkerAssumption` (they are operations of the dispatcher, and the ports are
integers). The invariants come in layers, each of which uses the ones before
it: every step of a program is one that a user of a dispatcher may take, so that
the dispatcher's invariant holds (`WorkersDispatch`); types; which callbacks are
registered at each place in `main()`, and that a callback runs only while a list
is processed; the connection: whenever the flag is set or yet to be set and the
link is gone, the disconnection is in the list or the queue, and once it is
taken the callback, which is registered by then, clears the flag; the
operations: what waits, without the worker's own updates, is what was sent after
the first `handled` (`AreTheRest` states it by places, since a filter of a
sequence is beyond the provers), and each disconnection among the first
`handled` has been reported; and the echoes, by counting: at most one in the
queue between the two updates of a turn, at most two after them, none when the
list has been taken.

### Snapshots

| theorem | property |
|---|---|
| `WhatWasSavedIsLoaded` | `LoadedIsWhatWasSaved` |
| `WhatIsMissingIsReported` | `MissingIsReported` |

`SnapshotsProofs` assumes `MapsAssumption` (maps are functions, and a part of an
entity is no entity). The maps are of any size, and any number of programs run
one after the other. The invariant has a part for each: the stream's place is in the file
(`FilesOK`); a file that is being written has each entity that was written, once,
and nothing else but torn ends, and no torn end as long as there was no error
(`WritersOK`); what was saved without an error is what the file has until it is
opened for writing again (`SavedOK`); a map that is being loaded has what it had
before, and of the entities up to the stream's place those whose ids it did not
have (`LoadersOK`); and the variables of the caller of `ReadEntity` hold the
entity before that place (`ReadersOK`).

### Futures, requests and metrics

| theorem | property |
|---|---|
| `ResultComesOnce` | `TheResultComesOnce` |
| `AnswersAreTrue` | `AnswersMeanWhatTheySay` |
| `QueriesFind` | `QueriesFindWhatTheyDescribe` |
| `ProtocolHolds`, `AnswerDescribes` | (of the operators of Queries) |
| `ObservationsCount` | `ObservationsCountOnce` |

`SessionProofs` is about `SessionSpec`, in which the connection comes by a
future. The invariant of the future, `FutureOK`, is the property with what it
needs: there is a `FutureImpl` while there is a future of the C library, it has or
had the result exactly when the library gave it, and only without the result
does a call wait. `AnswersAreTrue` assumes `WorldAssumption` (there are finitely
many entities at first, and entities are maps). The invariant, `RequestOK`, follows each request: it waits
for its answer and nothing was heard, or one operation with its answer is in the
list, or an answer was heard, once; a request that was carried out is no longer
in the network, so that a retry that arrives late finds what was done the first
time; and each answer, on its way or heard, says what was done.

`QueriesFind` is for constraints that nest to any depth (`ConstraintsAssumption`:
they are built in levels) and for any queries over them (`QueriesAssumption`).
What holds of every constraint that is built from those it holds of, it holds of
all (`ConstraintInduction`, by the least level where it does not), and a function
whose value for a constraint depends on those for its elements exists
(`ConstraintRecursion`): so the recursive functions do what their definitions say
(`MatchesAll`, `ConvertAll`). `ConvertAdds` is the core. The conversion of a
constraint leaves the arrays it finds as they are and appends others; for each of
these there is a constraint it was allocated for, its *source*, and in its place i
stands the i-th element of that constraint: itself when it is a simple one, or a
node whose pointer leads to an array with the element as its source. While an
array is being filled, this is so of its places up to i and of the arrays that its
elements appended (`Filling`). A node holds of an entity, then, exactly
when the source it stands for matches it (`HoldsMatches`; pointers only lead from
a source to its elements, so the recursion ends), which is `ProtocolHolds`; with
the list of entities, the lists of components and the registry it gives
`AnswerDescribes`. The invariant of the run, `QueriesOK`, says that what was sent
for a query is its conversion, and that an operation in the list and a callback
that was called tell what was done, or, with an error, at most that; a query that
may still be carried out was, if anything, given up, and its failure told nothing.
TLC found it to hold in `MCSession`, too.

`ObservationsCount` assumes `MetricsAssumption`: finitely many histograms, whose
boundaries and values are integers. Its invariant, `MetricsOK`, is the property
with the shape of the histograms, held and received: each has the buckets of its
boundaries, with `Infinity` among them. One lemma says what an observation does
to a histogram and to the values it stands for (`RecordCounts`), one that adding
what was sent and clearing it changes no count (`SendCounts`), and one, the core
of it, that who receives the array finds the buckets of every histogram in it
(`AddAdds`): the keys are all in the list (`KeysListed`), and what was put at a
place of the array stays there whatever is appended later (`BucketsPlaced`). Sums
and the array are recursive functions, and what they compute follows from the
steps that lead to them (`Runs`).

### Only model-checked

- Liveness under fairness (`EndsWhenDown`, the liveness of Replication and
  Commands), which is out of the prover's reach, as is `ENABLED`.

Every invariant and every action property that a passing run checks, and the refinement of
every abstract specification, is stated by a theorem. Recursive functions, over
natural numbers or over constraints that nest, are within reach by least
counterexamples and the uniqueness of what satisfies a definition; the induction
theorems of the library, which take an operator, are not used.

## 5. Not modelled, and why

- What operations carry beyond the fields that decide their delivery, where the
  dispatcher alone is concerned: it passes through unread. Components, commands,
  answers and metrics have modules of their own.
- Log messages, flags, worker attributes, component interest and the
  acknowledgement of an imminent loss of authority: the connection passes them on
  to the C library as they are.
- `ConnectionParameters` and `LocatorParameters`, which are copied field by field
  to C structures (`connection.i.h:81-162`).
- The dynamic access to components by their id, which none of the programs uses,
  and copying an `Entity`.
- The C library, SpatialOS and the file system, except as environment: they are
  not in the repository.
- The text of messages, time (a timeout is a choice), and the rate of the loop.
  Doubles are integers, or members of a small set; NaN is not among them.
- Manual changes to `View::Entities` by user code.
- Several threads at one dispatcher: the SDK requires one thread per dispatcher.
  Two dispatchers that process the same list are in Replication.
- The bytes of a message: the protocol buffers library writes and reads them.
- `List`, `Option` and `Variant`, which wrap containers of the standard library.
- What becomes of a port that does not fit sixteen bits, beyond the narrowing: the
  worker tries another port than it was told.
- A made-up worker id that another worker has too: the model knows one worker's
  name as `given` or `random`, and SpatialOS refuses a second worker of a name,
  which is a refused connection.
- Build files, launch configurations.

## 6. What is left

1. The parameters of a connection, with the copies whose lifetimes the C library
   relies on.
2. A larger session: two workers that create, delete and query the same entities.
