# A TLA+ model of lichtenstein-server

lichtenstein-server drives networked LED strips. Effects (scripts) draw pixels
for *groups*; a coordinator thread runs them once per frame, copies the result
into a framebuffer, converts it and sends each *channel* of a *node* its part
over UDP. Groups, routines, channels and nodes are rows of an sqlite database.
Clients change rows and mappings through a JSON protocol on a local socket.

This directory holds TLA+ modules that model the server's own logic, TLC
configurations that check them, and TLAPS proofs of the central results.
`PROJECT.json` lists every run, the code lines behind every definition, the
hazards the properties are aimed at, and one plausible bug (mutant) per
property. File names below are relative to `src/src/`.

## 1. The system

### Threads

| thread | started by | ends by | shares |
|---|---|---|---|
| main | – | SIGINT sets `keepRunning` | everything, at start and shutdown |
| coordinator | `EffectRunner` | joined in `~EffectRunner` | output map, framebuffer, pending writes |
| protocol worker | `ProtocolHandler` | detached | database, pending adoptions and writes |
| timer (CppTime) | `ProtocolHandler::timer` | with the handler | pending writes |
| accept thread | `CommandServer::start` | detached | client list, `run` |
| one thread per client | `acceptClient` | detached | database, output map, descriptors |
| checkpoint thread | `DataStore` | cancelled and joined in `~DataStore` | the two database locks |

### Components

| component | state | operations | interacts with | what makes it correct |
|---|---|---|---|---|
| Output mapper (`OutputMapper.cpp`) | `outputMap`; per object its members, buffer, `bufferChanged` | `addMapping`, `removeMappingForGroup`, `removeEmptyUbergroups`, `bindBufferToRoutine` | called by client threads and by `main`; walked by the coordinator | a group has at most one effect; an effect draws into its group's current buffer |
| Framebuffer (`Framebuffer.cpp`) | the pixels and their number | `recalculateMinSize`, `copyIntoFramebuffer` | sized from the group rows, written by effects | every copy stays inside both buffers |
| Effect runner (`EffectRunner.cpp`) | channel buffers of two frames, channel list, `coordinatorRunning` | the frame: effects, conversion, output; start, cleanup | mapper, framebuffer, protocol handler | what changed reaches the node; nothing is used after it is freed |
| Framebuffer writes (`ProtocolHandler.cpp`) | `pendingFBDataWrites`, `numPendingFBWrites`, timers, error counters of nodes | `sendDataToNode`, ack, `fbSendTimeoutExpired`, `prepareForShutDown` | coordinator, worker and timer thread, the network | each write is struck off exactly once, by ack or timeout |
| Discovery and adoption (`NodeDiscovery.cpp`, `ProtocolHandler.cpp`, `db/Node.cpp`) | node rows, `pendingAdoptions` | announcement, adoption, ack | network, database, clients' channel rows | a row holds what its own node said, last |
| Tables (`db/*.cpp`) | the rows, the connection's last row id | `find…`, `_create`, `_update` | all threads and tables share one connection | a client learns the id of its own row; an update changes what it names |
| Checkpoints (`db/DataStore.cpp`) | `checkpointLock`, `dbLock`, the log | checkpoint thread, `commit`, `terminateCheckpointThread`, `close` | all users of the database | no torn checkpoint, no lock kept, the destructor ends |
| Schema (`db/DataStore.cpp`, `sql/schema_v1.sql`) | tables, indices, rows of `info` | `checkDbVersion`, `provisonBlankDb`, `upgradeSchema`, `updateStoredServerVersion` | survives the process | a stored version means a complete schema |
| Connections (`CommandServer.cpp`) | descriptors, client list, `run` | accept, read, answer, close, `stop` | the kernel reuses descriptor numbers | a thread uses and closes its own descriptor, and always closes it |
| Requests (`CommandServer.cpp`) | – (tables, mappings) | one handler per message type | database, mapper | a request that fails changes nothing; a reference names a row |
| Life cycle (`main.cpp` and the constructors and destructors) | which objects and threads exist | start, SIGINT, shutdown | all | nobody uses a deleted object; a signal ends the server |
| Packets (`LichtensteinUtils.cpp`, `lichtenstein_proto.h`) | none | fill in, swap, checksum, validate | protocol handler, nodes | what is sent is valid; what is acted on is what was meant |
| Routines (`Routine.cpp`) | the script's array, buffer and size | load a script, attach a buffer, run | mapper, runner | what the script draws is what is shown; the copy stays in the array |
| Colours (`HSIPixel.cpp`) | none | HSI to RGB(W) | runner | not modelled, see section 7 |

### What is hard here

* Most locks are `std::lock_guard<...>(mutex);` without a variable name: a
  temporary that is destroyed in the same statement.
* Three threads search and erase one vector by index with no lock.
* Objects loaded from the database are copies, written back as a whole, often
  by another thread and much later (the ack of an adoption, a client's update).
* Acks are lost, repeated, early or late; timers race with them.
* Most threads are detached, while their data is deleted; one that is not
  detached in time ends the process.
* What is sent is a difference to the frame before, whether or not that frame
  was sent.
* The schema is installed statement by statement, and a process may die there.
* Packets are swapped in place, field by field, by an opcode and a count that
  are themselves being swapped.
* A script draws into an array whose size follows the group's buffer, unless
  the script changes it.

`PROJECT.json` has the list at line level under `hazards`. One of them has no
property: `pendingAdoptions` has no limit in the code (the model needs one). Two
flaws that no interleaving or order can bring out are only noted here: the row
of the server version never exists (`db/DataStore.cpp:741`), and `main.cpp:143`
indexes an empty vector when there are groups and no routines.

## 2. The modules

| module | models | state and actions |
|---|---|---|
| `GroupDrivers` | the abstract promise of the mapper | which effect drives each group; `Assign`, `Release` |
| `OutputMapper` | the mapper, one operation at a time | handles stand for `OutputGroup` objects with their routine; `AddGroup`, `AddUbergroup`, `RemoveGroup`, `RunEffects` |
| `OutputMapperProofs` | – | its theorems |
| `MapperThreads` | the same operations as the threads really run them; instantiates `OutputMapper` | each call is a program of loops and temporary guards, one step each; the coordinator's loop key by key |
| `FramebufferLayout` | index ranges of groups, ubergroup buffers and framebuffer | group rows, framebuffer size, rows the mapped groups were built from; start, create, update, add, remove |
| `PixelOutput` | conversion and delta updates of one channel | two frames' buffers, and histories of what was sent and what was missed; `RunEffects`, `ConvertPixels`, `OutputPixelData`, which sends or drops |
| `EffectRoutine` | a routine on its group, in front of `PixelOutput`, whose stages it extends | the script's array, the group's buffer and members; map, unmap, remove a member, brightness; `RunEffect`, `CopyFails` |
| `PixelProofs` | – | the theorems about `PixelOutput`, `EffectRoutine` and `FramebufferLayout` |
| `PacketCodec` | packets from memory to wire and back | one datagram with the byte order of its fields, its checksum and flags; send, damage, lose, receive |
| `FramebufferWrites` | writes, acks, timers and their ids, error pauses | program counters of sender, worker and timer thread over the shared list and counter, with the indices the handlers have found |
| `FramebufferWritesProofs` | – | its theorems |
| `NodeAdoption` | announcements, adoptions, acks, with nodes and a lossy network around them, and clients that change channels or store a node | node and channel rows, waiting adoptions and client threads with their copies |
| `ProtocolProofs` | – | the theorems about `NodeAdoption` and `PacketCodec` |
| `RowStore` | one table and its users, beside the other tables on the connection | the table, last row id, each thread's object; one action per sqlite call |
| `RowStoreProofs` | – | its theorems |
| `Checkpointing` | checkpoint thread, cancellation, destructor | the two locks and where each thread is |
| `SchemaProvisioning` | what `DataStore::open` does to the file | what the file holds, the statement that comes next |
| `Datastore` | the two together: one process after the other on one file | `Start` … `ComeUp`, `Exit`, and `Crash` at any statement |
| `DatastoreProofs` | – | its theorems |
| `ClientConnections` | accept, client threads, `stop`, SIGPIPE | the connection behind each descriptor number, and the number each thread believes in; read, answer, close |
| `CommandRequests` | every message type | the tables, the mappings, the handler that is under way and the last response's status; one step per look-up and change of `updateChannel`, `addMapping` and `removeMapping` |
| `CommandServerProofs` | – | the theorems about `ClientConnections` and `CommandRequests` |
| `Lifecycle` | `main`, every thread's beginning and end, and the crashes over threads that are left | which objects are alive, where each thread is, which client threads have not been detached |
| `CoordinatorProofs` | – | the theorems about `MapperThreads` and `Lifecycle` |

The type of the variables is part of every inductive invariant of section 4, as
`TypeOK` or under a name of its own in the `…Proofs` module. Each module's
specification is its `Spec`; those of `EffectRoutine`, `FramebufferLayout`,
`PacketCodec`, `CommandRequests` and `Lifecycle`, which a proof module extends
along with another specification, are `EffectSpec`, `LayoutSpec`, `CodecSpec`,
`RequestsSpec` and `LifeSpec`.

An `MC…` module extends its component, defines values a `.cfg` cannot write
(functions, permutations for symmetry), and adds nothing else. Operators
marked "Mutant of X" are the plausible bugs; no action uses them.

Conventions of the translation:

* An sqlite call, a system call and a loop over a container are one step; a
  thread switch is possible between any two of them where the code holds no
  lock. `OutputMapper` and `FramebufferLayout` take a request as one step;
  `MapperThreads` splits it. `CommandRequests` has one request under way at a
  time; `RowStore`, `MapperThreads` and `NodeAdoption` interleave several.
* A failed `CHECK` ends the process (`aborted`), and so do SIGPIPE (`died`) and
  the three crashes of `Lifecycle` (`"crashed"`).
* Memory that is read before it is written has any value: the first frames'
  channel buffers, `CommandServer::run`, `err` in `handlePacket`, which makes
  the worker drop or keep a valid ack, `DbGroup::currentRoutine` of a new group,
  and `ProtocolHandler::discovery` before the worker has created it.
* Nodes, clients, the network, sqlite and CppTime are not part of the
  repository's logic; they are modelled by what the code relies on. sqlite: one
  call at a time, unique indices enforced, `last_insert_rowid` per connection,
  each statement commits. CppTime: an id that is free may be given out again, and
  `remove` takes an id. The network loses, delays and reorders datagrams.
* Variables commented "history" record the past for a property; no guard reads
  them. Two handlers of `FramebufferWrites` may overlap and erase each other's
  writes; only an erase beyond the end of the vector, which is undefined, ends
  the behaviour (`corrupt`).
* Transaction numbers come from `std::rand()`; the models draw them from those
  that are not in use.
* Steps of threads that share unlocked data are interleaved one at a time; what
  a compiler or processor may do beyond that is not modelled.

## 3. The runs

One run per component; the number is that of distinct states.

| run | states | what it shows |
|---|---|---|
| `mapper` | 26 369 | any sequence of requests and frames: groups stay `Exclusive`, a freed buffer is flagged for rebinding while its group has members (`StaleBufferIsFlagged`), each frame runs on the owned buffers (`FrameUsesOwnBuffer`), and the mapper implements `GroupDrivers` (`ImplementsDrivers`) |
| `threads` | 430 957 | two clients and the coordinator, loop by loop: a group that no two calls have named at a time is never driven twice (`UncontestedIsExclusive`), although the locks do not lock, and a call that returns has left it to its own key (`CallsAreServed`); the coordinator's loop walks over the map it found, unless it overtook a client that was past its guard (`LoopWalksSettledMap`); every call ends (`CallsReturn`) |
| `writes` | 289 224 | acks lost, repeated, early or late, timers at any moment, timer ids used again, and two handlers that overlap at every step: the counter follows the list through all of it (`CounterMatchesList`); an index stays right until the other handler erases at or before it (`EraseIsOwn`); each write is guarded and leaves the list unless it went `astray` in one of three ways (`PendingIsGuarded`, `WritesResolve`); a pause only follows enough failures (`PauseFollowsErrors`) |
| `adoption` | 464 914 | a row has the address its node announced last, and a channel what a client stored last, unless a copy that was loaded before, by the worker or by an UpdateNode request, is written back late (`AddressIsNewest`, `ClientChangeStays`); only a node that has accepted an adoption is marked adopted (`AdoptedNodeAccepted`) |
| `effects` | 1 187 598 | from the script's array to the node: over any frames, the node has been sent each pixel as it is, and as it was drawn last, except those whose last change was not sent (`OnlyMissedPixelsDiffer`, `SentIsDrawn`), through replaced effects, ubergroups that lose members, changed brightness and dropped data; the copy stays in the array unless the script resized it (`CopyStaysInArray`) |
| `packets` | 5 646 | what the server sends passes its own validation and is in network byte order (`WireIsValid`); what is acted on is what its sender meant (`HandledAsMeant`); the byte swap does not leave the packet (`SwapStaysInPacket`); each up to the exceptions below |
| `layout` | 1 087 810 | copies stay in the buffers of entries that count no pixels negatively; groups that leave no gap, and are left alone, are drawn inside the framebuffer, even if they overlap (`GaplessGroupsFit`) |
| `rows` | 58 976 | under overlapping calls, and inserts into other tables, a call that was not overtaken learns its own id and changes only what it names |
| `datastore` | 8 952 | any number of processes on one file, with crashes: a stored version means a complete schema, the threads find every table unless a process died while it was provisioning, no checkpoint is torn, nobody waits in a circle (`WaitsEnd`), the checkpoint thread gets to its checkpoints (`CheckpointsGoOn`), the destructor ends, but for one deadlock |
| `connections` | 295 891 | a thread uses its own descriptor until a number is reused under it; no connection is leaked, and what hangs up is closed, though a last request is still to be answered |
| `requests` | 1 142 853 | references name rows; a request that is refused, throws or aborts on any of its steps has changed nothing |
| `lifecycle` | 63 344 | the coordinator never outlives what it uses, channels are freed once, and a signal gets `main` past its join, unless it comes just before `pause()` or the process crashes over a thread that is left (`SignalEndsServer`) |

### Where the code departs from its comments

A promise that fails in general is checked up to the exact case in which it
fails; where that takes memory, a history variable records the case. What was
met while modelling:

| place | what a comment or document says | what the code does | in the model |
|---|---|---|---|
| `OutputMapper.cpp:59, 97` | "take the lock for this scope" | the guard is a temporary: two clients map one group twice, and a client erases the key under the coordinator's iterator | `contested`, `overtook` |
| `OutputMapper.cpp:139` | an ubergroup that becomes empty is deleted (`CommandServer.cpp:1206`) | `removeMappingForGroup` returns before the sweep | an empty object may stay in `outputMap`; `GroupDrivers` does not see it |
| `OutputMapper.cpp:317` | a changed buffer is rebound (`:349`) | a resize to zero frees the buffer without the flag | `StaleBufferIsFlagged` asks for members |
| `ProtocolHandler.cpp:504` | the timeout removes the write from the array (`:526`) | the timer may run before the write is listed; then nothing does | `astray` |
| `ProtocolHandler.cpp:342, 534` | "does the transaction number match?" | an index found before the other thread's erase is used after it: another write is erased, or none | `moved`, `astray`, `corrupt` |
| `ProtocolHandler.cpp:339` | the timer of the acknowledged write is cancelled | its id may be that of another write's timer by now, which then never expires | `astray` |
| `ProtocolHandler.cpp:489` | "after how many packets with errors we assume the node died": 15 (`ProtocolHandler.h:68`); "10 packets" (`:490`) | it takes one more than 15 | `PauseFollowsErrors` only says that no fewer are enough |
| `ProtocolHandler.cpp:439, 492` | "send the data, if any pixels changed" (`EffectRunner.cpp:634`) | data that is dropped is remembered as sent, and no later frame makes up for it | `missed` in `PixelOutput` |
| `ProtocolHandler.cpp:301`, `CommandServer.cpp:644` | the address in the database is updated (`NodeDiscovery.cpp:127`) | a late ack, or a client's UpdateNode that sets nothing, writes an older copy back | `superseded`, `rewound` |
| `db/Node.cpp:138` | "Updates the specified channel" (`db/Channel.cpp:119`) | updating a node rewrites its channels as it loaded them | `outdated`, `reverted` |
| `ProtocolHandler.cpp:271` | "check validity" | tests `err`, which was never assigned, not the result of the check | `trusted` in `PacketCodec`; `LoseAck` in `FramebufferWrites` |
| `LichtensteinUtils.cpp:275` | a negative ack has "an optional zero-terminated string" (protocol document, line 31) | a negative ack of an adoption is swapped as an adoption; its text is taken for the number of channels | exception of `SwapStaysInPacket` |
| `LichtensteinUtils.cpp:28` | "verify the checksum, if requested" | the flag that requests it is not protected by anything else | `Unnoticed` |
| `LichtensteinUtils.cpp:169, 290` | multibyte values are in network byte order (`lichtenstein_proto.h:5`) | `status` of a server announcement and the fields of a reconfiguration are not swapped; the server sends neither | `SwappedFields` |
| `Routine.cpp:278` | "copies the HSI pixels out of the array" (`:261`) | a script that shortened its array makes the copy dereference a null pointer | `resized`, `CopyFails` |
| `NodeDiscovery.cpp:176` | nodes adopted before are adopted again, others stored (`:123`) | unknown nodes are adopted at once | `StoreAndAdopt` |
| `EffectRunner.cpp:635` | "send the data, if any pixels changed" | an index is used as a count: the last changed pixel is left out | `missed` in `PixelOutput` |
| `OutputMapper.cpp:528` | the buffer has room for all members (`:540`) | every member is given the buffer's beginning | `Shown` in `EffectRoutine` |
| `OutputMapper.cpp:540` | "Allocates the correct amount of memory" (`:315`) | a group whose end is in front of its start shrinks the sum | premise of `CopyStaysInBuffer` |
| `EffectRunner.cpp:34` | resized "any time that groups are modified" (`Framebuffer.cpp:29`) | only at start | premise of `GaplessGroupsFit` |
| `db/Group.cpp:128, 146` | the id of the new group; updates the given properties | the id of another thread's row, perhaps of another table; another thread's change undone | `overtaken` in `RowStore` |
| `db/DataStore.cpp:450` | "all data is safely commited to disk" (`:99`) | the join holds the lock the thread may be waiting for | `JoinDeadlock`, the exception of `DestructorEnds` and `WaitsEnd` |
| `db/DataStore.cpp:655` | "Performs incremental upgrades … until we reach the latest version" (`:667`) | a process that dies in the schema leaves a part of it; the next start takes the file for a database and `upgradeSchema` only logs | `interrupted` |
| `db/DataStore.cpp:741` | "Updates the server version stored in the db" | updates a row that is never inserted | `UpdateStoredServerVersion` |
| `CommandServer.cpp:405` | "only close it if needed" | the number may belong to another connection by then | `reused` |
| `CommandServer.cpp:456` | all responses have a `status` (protocol document, line 14) | two kinds of request get none | `NoHandler` |
| `db/Group.cpp:122` | errors have a status (protocol document, line 17) | a refused statement ends the process | `Abort` |
| `db/Group.cpp:258` | a group is created with the given properties (`CommandServer.cpp:753`) | `currentRoutine` was never set: any id is stored, or a wild pointer followed | `wild` in `CommandRequests` |
| `CommandServer.cpp:499` | "check for error" | an answer to a client that has hung up raises SIGPIPE, which nothing handles | `BreakPipe` |
| `CommandServer.cpp:881` | "name, code, or defaults" can be set | the key is looked for in the response | `UpdateRoutine` |
| `main.cpp:155` | clean shutdown on SIGINT | a signal between the test and `pause()` is slept through | `missed` in `Lifecycle` |
| `main.cpp:168` | "delete the datastore last" | detached threads still use it | `UseDeleted`; `CoordinatorUsesLiveObjects` is about the joined thread |
| `CommandServer.cpp:85` | threads are detached, "it will die off soon enough" (`:131`) | one accepted after the loop of `stop()` is still joinable: `std::terminate` | `joinable` |
| `ProtocolHandler.cpp:71` | "delete the node discovery thing" | an early signal gets there before the worker has created it | `DeleteProtocol` |
| `CommandServer.cpp:220` | `stop()` kills the thread | a late accept thread sets `run` again | `AcceptorCreates` |

### Bounds

* Mapper: three groups are the least for an ubergroup to lose a member to
  another and keep two; three handles map each group by itself or hold two
  overlapping ubergroups and a plain group in turn. Handles are reused once
  their object is gone, so histories are unbounded.
* `MapperThreads`: two clients, two groups and two handles, so that calls for
  one group and for different groups overlap, with and without ubergroups.
* Writes: one node (the code keeps nothing else per node than the error
  counters), two transactions and two timer ids, so that an erase moves the entry
  behind it, and numbers and ids are used again. The limits `MaxPacketsWithErrors`
  and `NumPacketsToWaitAfterError` (15 and 60 in the code) are 2 and 1; the code
  only compares them, resets and counts down.
* Adoption: two nodes, one of which changes its address and is configured in two
  ways, and two transactions: an old and a new adoption of one node, or one of
  each. One client thread stores nodes. `Txns` also bounds the list, which has no
  limit in the code, and `MaxAnnouncements` the packets.
* Effects: three pixels, in which first, middle and last differ; black and one
  other colour; buffers with any initial contents; groups of any members that do
  not overlap, one group mapped at a time; arrays of up to three pixels.
* Packets: one datagram at a time, since nothing is kept from one to the next;
  two transaction numbers, so that a damaged one may be another's; every opcode
  of the protocol and one it does not know.
* Layout: three groups; ranges that join up to one, two and three pixels, overlap,
  leave a gap, and one whose end is in front of its start.
* Rows: two threads; `MaxId` bounds the rows; four keys, so that updates find a free one.
* Requests: two ids per table, so that a reference can be right, wrong or taken.
* Connections: three on two descriptors, so that a number must be reused.
* Datastore: main, the checkpoint thread and three other threads of the server;
  all statements of `schema_v1.sql`; two versions; any number of processes and
  crashes.

Symmetry is declared for sets whose members the module treats alike and only
in runs without liveness properties. `CHECK_DEADLOCK FALSE` is set where the
system really stops: a stopped or aborted server, a destroyed datastore, a
server whose group rows add up to a negative size and which cannot start again.

### Fairness

A thread that can take a step takes one (weak fairness for `SendStep`, `AckStep`,
`ExpiryStep`, `Coordinator`, `CoordinatorThread`, `ClientStep`, `TimerStep`, `Startup`, `Shutdown` and the
steps of a client thread). Strong fairness is assumed only for taking a mutex
that is released again and again (`Guard`, `CommitLock`, `CommitLockDb`, `Close`), where
the holders sleep, or do I/O, after each release, and for a timer that is due
(`Expires`), because CppTime's thread serves timers in the order they are
due. Nothing is assumed of clients, nodes, the network or signals: no request,
packet, ack or SIGINT ever has to come.

## 4. What is proved

TLAPS checks the following for every value of the constants, so for any number
of threads, groups, nodes, pixels, rows or descriptors where TLC has two or
three. Each theorem `Spec => []Inv` (or `Spec => [][A]_vars`) comes from an inductive
invariant, with one lemma per action or handler.

### The mapper and the coordinator (`OutputMapperProofs`, `CoordinatorProofs`)

* `MapperInvariant` (`TypeOK`, `Exclusive`, `WellFormed`, `StaleBufferIsFlagged`),
  `StaleBuffersAreFlagged`, `FrameUsesOwnBufferHolds`. Assumption:
  `NoHandleIsNotAHandle`. The four are inductive together: that a frame may trust
  the flag needs the buffer to be live exactly when there are members, and that
  an added group is alone needs the removal to have met it in every object.
* `MapperImplementsDrivers`, the refinement. `Exclusive` makes the `CHOOSE` in the
  mapping unique, so each action's effect on a group's driver can be computed
  group by group; frames stutter.
* `UncontestedStaysExclusive`. The calls are programs; the proof uses of them that
  each begins with a guard, removes once and inserts last, if at all.
  `UncontestedIsExclusive` needs `SharedIsContested` (calls under way share only
  contested groups) and `RemovedStaysRemoved` (after a call's removal nobody
  has put its groups back), which is what the missing lock would have provided
  and what holds without it for uncontested groups. A removal is two loops, and
  other threads run between them: `HalfStaysRemoved` says what the first has done
  and nobody undoes.
* `ThreadsServeCalls`, from the same invariant: what is left of `GroupDrivers`'
  promise without the lock. A step changes what drives a group only while a call
  that names it is under way, and a call that returns has left its uncontested
  groups to its new key alone, or to none (`CallsAreServed`). It needs that a key
  to be inserted is its call's own (`KeysAreOwn`), that erasing a plain key takes
  nothing from another group (`PlainHasOneMember`), and that the early return of
  `removeMappingForGroup` does not reach past the insertion of `addMapping`.
  Assumption: `NoHandleIsNone`. A change of one step in `Sweep` or in that return
  makes the proof fail.
* `LoopsWalkSettledMap`: while the coordinator runs and has overtaken nobody,
  every client is idle or at a guard (`ClientsWait`), so none can change the map.
* `CoordinatorObjectsOutliveIt`, `ChannelsAreDeletedOnce`, for any number of
  connections: where `main` is tells what is alive and whether there is a
  coordinator (`AliveFollowsMain`), and where the coordinator is tells whether the
  channels are listed and how often they were deleted
  (`ChannelsFollowCoordinator`).

### From the script to the node (`PixelProofs`)

* `OnlyMissedPixelsAreStale`, for any number of pixels, any colours and any
  conversion (`PixelParameters`), and however often data is dropped.
  Strengthened by `PreviousFrameIsSent`: between conversion and output it is the
  *previous* frame the node has. That `Max(Changed)` exists comes from the
  well-foundedness of `<`.
* `DrawnPixelsAreSent`, `CopiesStayInArray`. Strengthened by `SizesFollowGroup`
  (unless a rebind is pending, `bufferSz` is the size of the group's buffer, and
  of the array if the script left it alone) and `BuffersAgree` (framebuffer and
  channel buffer hold what was drawn, each from its step of the frame on). A
  member has no more pixels than the buffer of all of them, by cardinality, so
  that showing each of them its beginning stays inside.
* `CopiesStayInBuffers`, `GaplessLayoutsFit`, for any finite set of groups
  (`IdsAreFinite`) and any ranges of integers (`RangesAreIntegers`). Buffer and
  framebuffer sizes are sums over a set of groups, defined by a recursive
  function on subsets. The library's induction theorems cannot be used (below);
  the proofs argue by a smallest counterexample instead: a set of groups with
  the fewest members for which the claim fails (`LeastSubset`), from which one
  group is taken away. This gives that the sums exist and satisfy their equation
  (`SumsExist`, `PixelSumsEquation`), and that a set of pixels which the groups
  cover has room in the sum of their sizes (`SumsHaveRoom`), so a layout without
  gaps needs no more than was allocated. `LayoutInvariant` adds that the size is
  the sum over `sizedFor` and that every mapped entry is built from rows.

### Protocol handler (`FramebufferWritesProofs`, `ProtocolProofs`)

* `CounterFollowsList`, `ListedWritesAreGuarded`, `OnlyErasesBeforeMoveTheIndex`: one
  invariant (`WritesInvariant`), with both handlers at any point of their code at
  once. No transaction is listed twice, a write about to be listed is not listed
  yet and nobody looks for it, and its timer runs or it has gone astray
  (`ListInvariant`); an index that was found stays right while writes are listed
  *behind* it and the other handler erases behind it, and is marked as moved
  otherwise. `PausesFollowErrors` has an invariant of its own for the error
  counters. Assumption: `ParametersAreSane` (limits are naturals, `NoTxn` is no
  transaction and `NoTimer` no timer).
* `AddressStaysNewest`, `ChannelStaysConfigured`, `OnlyAcceptedNodesAreAdopted`. A
  copy, of a waiting adoption or of a client thread, has the newest address or
  is marked superseded, and a channel that may be written back or is marked
  outdated; transaction numbers of waiting adoptions are unique; an answer comes
  from a node that accepted. Assumptions: `CopiesAreApart`, `IpsOfIsAFunction`, and
  `AddressesAreOwn` (no two nodes use one address: the code answers to whatever
  address a node announced, and a reused address would let another node's ack
  count).
* `WireStaysValid`, `PacketsAreHandledAsMeant`, `SwapsStayInPackets`, for every
  opcode and any transaction numbers. `CodecInvariant`: a packet on its way is
  whole, with its header in network order (`PacketIsWhole`), it is what
  `meant` says up to the recorded damage (`PacketIsMeant`), a stray datagram has
  not the magic number (`StrayHasNoMagic`), and senders only mean packets that
  they can send (`SendersMean`). The lemmas compute what swapping and swapping
  back leave of the order of the fields, opcode by opcode. Assumption:
  `NoPacketIsNone`.

### Datastore (`RowStoreProofs`, `DatastoreProofs`)

* `AnswersNameTheirRow`, `UpdatesKeepTheRest`, for any finite set of threads.
  `IdsAreRecent` (the last row id is a thread's own until somebody else inserts,
  into whichever table) and `ObjectsAreCurrent` (the object of a thread that was
  not overtaken is the row as it is) rest on `CallsHoldRows` (the row a thread is
  about to overwrite is still there) and `InsertsFit` (threads about to insert
  have ids left, counted with the cardinality theorems). Assumptions:
  `MaxIdIsNat`, `ThreadsAreFinite`, `NoRowIsNotARow`.
* `CheckpointsStayWhole`: `LockInvariant` says who holds which lock where.
* `NobodyWaitsInCircle`: whoever waits for a lock, or for the thread, waits for one
  that goes on, or that waits for one that does; the only exception is
  `JoinDeadlock` (`WaitsEnd`). It is the part of `CheckpointsGoOn` and
  `DestructorEnds` that needs no fairness, for any number of threads. It needs the
  converse of `LockInvariant`: a lock is held only by a thread that is where the
  code holds it (`HoldersWork`), so none is left behind by a thread that died or
  by an earlier process. Assumption: `ThreadsDiffer`.
* `VersionVouchesForSchema`, `ThreadsAlwaysFindSchema`: the statements before the
  next one have been applied, whoever died when (`ProvisioningInvariant`); as long
  as nobody died between two, the file is blank or complete between processes
  (`UninterruptedInvariant`). The sixteen statements are shown to be distinct, with
  the version last.

### Command server (`CommandServerProofs`)

* `DescriptorsStayOwn`, `ThreadsLeaveNothingOpen`: a connection is open at most
  under the descriptor its thread was given, and only while the thread is there
  (`OpenIsHeld`); as long as the server runs, the number of a thread is its own,
  or free once it has closed it after a malformed request, or `reused` says
  otherwise (`NumbersAreOwn`). Assumption: `ConnectionParameters`.
* `ReferencesStayValid`, from `RequestParameters` (ids begin at one, `NoRow` is no
  row): `ReferencesExist` is inductive with the types of the tables and
  `HandlerIsSound`: what a handler has looked up on an earlier step is still there
  when it is used, since rows are never removed.
* `FailedRequestsChangeNothing`: a handler that is under way has changed nothing,
  unless it removes mappings and has found all of their groups, and after that
  nothing can fail (`ChangesComeLast`).

### Only model-checked

The six liveness properties (`CallsReturn`, `WritesResolve`, `CheckpointsGoOn`,
`DestructorEnds`, `HungUpIsClosed`, `SignalEndsServer`): fairness and `ENABLED` are
outside the prover's reach. Every invariant, action property and refinement
that a run checks is also a theorem.

What a recursive definition computes cannot be had from the library's induction
theorems, whose operator parameter no installed prover can instantiate; the sums
of `FramebufferLayout` are the one place where that matters, and go by the
smallest counterexample.

## 5. How to run

    tlc -workers 2 -config MCOutputMapper.cfg MCOutputMapper
    tlapm OutputMapperProofs.tla

The module and configuration of each run are in `PROJECT.json`.

## 6. Plan

Done: the mapper with its abstract specification, refinement and proofs; its
threads; the path of a pixel from the script to the node; packets; writes and
acks; adoption; tables; the datastore from process to process; connections;
requests; life cycle; and the proofs of section 4.

Left, in the order of their worth:

1. Abstract specifications: a table with atomic calls for `RowStore` with one
   thread; "each write ends once" for `FramebufferWrites`.
2. The worker's dispatch of a packet to `NodeAdoption` or `FramebufferWrites` as
   one module that composes both on one thread.

## 7. What is not modelled

* `Routine.cpp`: what AngelScript computes (any colours, in `EffectRoutine`), the
  script's parameters (`changeParams` has no caller), the debugger, the
  statistics of execution time, the destructor (routines are never deleted), and
  a script that assigns the global `bufferSz`.
* `EffectRunner.cpp`: the floating-point timing of frames.
* `HSIPixel.cpp`: floating-point colour conversion; an arbitrary function in
  `PixelOutput`.
* Configuration, logging, JSON text, `status` counters; the multicast "output
  enable" packet, which has no answer and changes no state.
* Dead code: `waitForOutstandingFramebufferWrites`, the work pool and the
  condition variables around it are never waited on.
* How much of the log a checkpoint copies: a passive one is limited by a SELECT
  that is open between `sqlStep` and `sqlFinalize`, and one that fails is only
  logged (`db/DataStore.cpp:464, 481`). `CheckpointsGoOn` is about reaching it.
* A statement of the schema that fails for another reason than that its table
  exists, for want of space for instance, which is only logged
  (`db/DataStore.cpp:656`).
* Third-party code: crc32, libb64, json, INIReader, CTPL, CppTime.
