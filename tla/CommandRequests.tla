-------------------------- MODULE CommandRequests --------------------------
(***************************************************************************)
(* What each request of the command protocol does and answers              *)
(* (CommandServer.cpp): processClientRequest and the handlers it calls.    *)
(* One request is processed at a time here, while nodes announce           *)
(* themselves; RowStore, MapperThreads and ClientConnections interleave    *)
(* the parts that clients share.  A handler that looks several things up,  *)
(* or changes several, is one step for each.                               *)
(*                                                                         *)
(* The tables are functions from ids to rows.  A response is its status    *)
(* field: 0, an error, or missing; an exception closes the connection      *)
(* without one.  A statement the database refuses makes a CHECK fail, and  *)
(* the process ends.                                                       *)
(***************************************************************************)
EXTENDS Integers

CONSTANTS
  Ids,       \* ids a client may name, of any table
  Names,     \* names of groups
  Texts,     \* code of routines
  Offsets,   \* fbOffset of channels
  NoRow      \* there is no row with this id

VARIABLES
  nodes,                        \* ids of the nodes that have announced themselves
  groups, routines, channels,   \* the tables
  mapped,      \* of each group the routine that drives it and its brightness
  handler,     \* the request that is under way
  response,    \* the response, if the last step was the end of a request
  aborted,     \* the process has ended
  wild,        \* history: groups stored with an uninitialised routine
  dirty        \* history: the request has changed a table or a mapping

groupVars == <<groups, wild>>
tables == <<groups, routines, channels, mapped>>
requestVars == <<nodes, tables, handler, response, aborted, wild, dirty>>

\* What matters of a row here; routine is currentRoutine, zero for none.
GroupRow == [name : Names, routine : Ids \cup {0}]
RoutineRow == [code : Texts]
ChannelRow == [node : Ids, fbOffset : Offsets]

\* AUTOINCREMENT ids begin at one: zero is the id of an object without a row.
ASSUME RequestParameters ==
  /\ Ids \subseteq Nat \ {0}
  /\ NoRow \notin GroupRow \cup RoutineRow \cup ChannelRow

\* The brightness values that matter: full, as a new OutputGroup has it, and
\* another one that is allowed.
Levels == {"full", "dim"}

Mapping == [routine : Ids, brightness : Levels]

(***************************************************************************)
(* A handler that takes several steps: clientRequesUpdateChannel with the  *)
(* object it has loaded and what the request sets; clientRequestAddMapping *)
(* and clientRequestRemoveMapping with the groups still to look up and     *)
(* those found.                                                            *)
(***************************************************************************)
ChannelUpdates == [op : {"offset", "node", "store"}, id : Ids, channel : ChannelRow,
                   node : Ids, fbOffset : Offsets]
MappingChanges == [op : {"add", "remove"}, routine : Ids \cup {0},
                   todo : SUBSET Ids, found : SUBSET Ids]
Idle == [op |-> "idle"]

RequestsInit ==
  /\ nodes = {}
  /\ groups = [i \in Ids |-> NoRow]
  /\ routines = [i \in Ids |-> NoRow]
  /\ channels = [i \in Ids |-> NoRow]
  /\ mapped = [i \in Ids |-> NoRow]
  /\ handler = Idle
  /\ response = "none"
  /\ aborted = FALSE
  /\ wild = {}
  /\ dirty = FALSE

\* The handler returns, and processClientRequest answers.
Respond(status) ==
  /\ response' = status
  /\ handler' = Idle
  /\ UNCHANGED <<nodes, aborted>>

\* The handler goes on, as h.
GoOn(h) ==
  /\ handler' = h
  /\ response' = "none"
  /\ UNCHANGED <<nodes, aborted>>

Refuse == Respond("error") /\ UNCHANGED <<tables, wild>>

\* A value of the wrong type, an empty list of groups or a script that does not
\* compile: clientThreadEntry catches the exception and closes the connection.
Throw == Respond("closed") /\ UNCHANGED <<tables, wild>>

\* A CHECK fails, or a wild pointer is followed.
Abort ==
  /\ aborted' = TRUE
  /\ response' = "none"
  /\ handler' = Idle
  /\ UNCHANGED <<nodes, tables, wild>>

\* AUTOINCREMENT: the next id of a table.
Unused(table) == {i \in Ids : table[i] = NoRow /\ \A j \in Ids : j < i => table[j] # NoRow}

---------------------------------------------------------------------------
\* clientRequestStatus: an error only if getrusage fails.
Status ==
  \E status \in {"0", "error"} :
    Respond(status) /\ UNCHANGED <<tables, wild>>

\* The listing requests.  With an id, that row has to exist; without, there is
\* nothing to look for.
List(found) ==
  IF found THEN Respond("0") /\ UNCHANGED <<tables, wild>> ELSE Refuse

ListNodes(i) == List(i \in nodes)
ListGroups(i) == List(groups[i] # NoRow)
ListRoutines(i) == List(routines[i] # NoRow)
ListChannels(i) == List(channels[i] # NoRow)

\* A type that processClientRequest has no case for, and getBrightness, whose
\* case is empty: the response is left as it is.
NoHandler == Respond("missing") /\ UNCHANGED <<tables, wild>>

\* The protocol worker stores a node it did not know, at any moment.
NodeAnnounces(i) ==
  /\ nodes' = nodes \cup {i}
  /\ response' = "none"
  /\ UNCHANGED <<tables, wild, handler, aborted>>

\* clientRequestUpdateNode sets no property; the row is stored as it was.
UpdateNode(i) == List(i \in nodes)

---------------------------------------------------------------------------
NameIsTaken(name, i) == \E j \in Ids \ {i} : groups[j] # NoRow /\ groups[j].name = name

\* clientRequestNewGroup; complete says that all keys are there.  Nothing has
\* set currentRoutine of the new object: _bindToStatement follows what happens
\* to be there, which ends the process or yields any number, or finds null.
NewGroup(complete, name) ==
  \/ ~complete /\ Refuse
  \/ complete /\ Abort
  \/ /\ complete
     /\ ~NameIsTaken(name, 0)
     /\ \E i \in Unused(groups), r \in Ids \cup {0} :
          /\ groups' = [groups EXCEPT ![i] = [name |-> name, routine |-> r]]
          /\ wild' = wild \cup {i}
     /\ Respond("0")
     /\ UNCHANGED <<routines, channels, mapped>>

\* Mutant of RoutineOf: the number is kept as it was read.
RoutineAsRead(r) == r

\* _fromRow looks the routine up and _bindToStatement stores the id of what it
\* found, or zero.
RoutineOf(r) == IF r \in Ids /\ routines[r] # NoRow THEN r ELSE 0

\* clientRequestUpdateGroup with a new name.
UpdateGroup(i, name) ==
  \/ groups[i] = NoRow /\ Refuse
  \/ groups[i] # NoRow /\ NameIsTaken(name, i) /\ Abort
  \/ /\ groups[i] # NoRow
     /\ ~NameIsTaken(name, i)
     /\ groups' = [groups EXCEPT ![i] =
                     [name |-> name, routine |-> RoutineOf(groups[i].routine)]]
     /\ wild' = wild \ {i}
     /\ Respond("0")
     /\ UNCHANGED <<routines, channels, mapped>>

---------------------------------------------------------------------------
\* clientRequestNewRoutine
NewRoutine(complete, row) ==
  \/ ~complete /\ Refuse
  \/ /\ complete
     /\ \E i \in Unused(routines) : routines' = [routines EXCEPT ![i] = row]
     /\ Respond("0")
     /\ UNCHANGED <<groupVars, channels, mapped>>

\* clientRequestUpdateRoutine: the defaults are looked for in the response,
\* which is empty, so a request cannot set them.
UpdateRoutine(i, code) ==
  IF routines[i] = NoRow THEN Refuse
  ELSE /\ routines' = [routines EXCEPT ![i].code = code]
       /\ Respond("0")
       /\ UNCHANGED <<groupVars, channels, mapped>>

---------------------------------------------------------------------------
NodeIsTaken(n, i) == \E j \in Ids \ {i} : channels[j] # NoRow /\ channels[j].node = n

\* clientRequesNewChannel; valid says that all keys are there and the format
\* is one of the two.
NewChannel(valid, row) ==
  \/ (~valid \/ row.node \notin nodes) /\ Refuse
  \/ valid /\ row.node \in nodes /\ NodeIsTaken(row.node, 0) /\ Abort
  \/ /\ valid /\ row.node \in nodes /\ ~NodeIsTaken(row.node, 0)
     /\ \E i \in Unused(channels) : channels' = [channels EXCEPT ![i] = row]
     /\ Respond("0")
     /\ UNCHANGED <<groupVars, routines, mapped>>

\* clientRequesUpdateChannel: the channel is loaded.  A request that names no
\* node, or no offset, sets what the channel has.
FindChannel(i, n, offset) ==
  \/ channels[i] = NoRow /\ Refuse
  \/ /\ channels[i] # NoRow
     /\ GoOn([op |-> "offset", id |-> i, channel |-> channels[i],
              node |-> n, fbOffset |-> offset])
     /\ UNCHANGED <<tables, wild>>

\* Mutant of SetOffset: every property is stored as soon as it is set.
StoreOffset ==
  /\ handler.op = "offset"
  /\ channels' = [channels EXCEPT ![handler.id].fbOffset = handler.fbOffset]
  /\ GoOn([handler EXCEPT !.op = "node", !.channel.fbOffset = handler.fbOffset])
  /\ UNCHANGED <<groupVars, routines, mapped>>

\* The offset is set in the object.
SetOffset ==
  /\ handler.op = "offset"
  /\ \/ Throw
     \/ /\ GoOn([handler EXCEPT !.op = "node", !.channel.fbOffset = handler.fbOffset])
        /\ UNCHANGED <<tables, wild>>

\* The node is looked up and set in the object.
SetNode ==
  /\ handler.op = "node"
  /\ \/ Throw
     \/ handler.node \notin nodes /\ Refuse
     \/ /\ handler.node \in nodes
        /\ GoOn([handler EXCEPT !.op = "store", !.channel.node = handler.node])
        /\ UNCHANGED <<tables, wild>>

\* The other properties are set as well, and the object is stored.
StoreChannel ==
  /\ handler.op = "store"
  /\ \/ Throw
     \/ NodeIsTaken(handler.channel.node, handler.id) /\ Abort
     \/ /\ ~NodeIsTaken(handler.channel.node, handler.id)
        /\ channels' = [channels EXCEPT ![handler.id] = handler.channel]
        /\ Respond("0")
        /\ UNCHANGED <<groupVars, routines, mapped>>

---------------------------------------------------------------------------
\* clientRequestAddMapping: the routine is looked up ...
FindRoutine(r, gs) ==
  \/ routines[r] = NoRow /\ Refuse
  \/ /\ routines[r] # NoRow
     /\ GoOn([op |-> "add", routine |-> r, todo |-> gs, found |-> {}])
     /\ UNCHANGED <<tables, wild>>

\* ... and here and in clientRequestRemoveMapping the groups, one by one.
FindGroup(g) ==
  /\ handler.op \in {"add", "remove"}
  /\ g \in handler.todo
  /\ \/ groups[g] = NoRow /\ Refuse
     \/ /\ groups[g] # NoRow
        /\ GoOn([handler EXCEPT !.todo = @ \ {g}, !.found = @ \cup {g}])
        /\ UNCHANGED <<tables, wild>>

\* The routine is built and addMapping called with new output groups, at full
\* brightness.
AddMapping ==
  /\ handler.op = "add" /\ handler.todo = {}
  /\ \/ Throw
     \/ /\ handler.found # {}
        /\ mapped' = [g \in Ids |->
                       IF g \in handler.found
                       THEN [routine |-> handler.routine, brightness |-> "full"]
                       ELSE mapped[g]]
        /\ Respond("0")
        /\ UNCHANGED <<groupVars, routines, channels>>

\* clientRequestRemoveMapping
BeginRemove(gs) ==
  /\ GoOn([op |-> "remove", routine |-> 0, todo |-> gs, found |-> {}])
  /\ UNCHANGED <<tables, wild>>

\* Every group has been found; they are removed one by one.
RemoveMapping(g) ==
  /\ handler.op = "remove" /\ handler.todo = {}
  /\ g \in handler.found
  /\ mapped' = [mapped EXCEPT ![g] = NoRow]
  /\ GoOn([handler EXCEPT !.found = @ \ {g}])
  /\ UNCHANGED <<groupVars, routines, channels>>

RemoveEnds ==
  /\ handler.op = "remove" /\ handler.todo = {} /\ handler.found = {}
  /\ Respond("0")
  /\ UNCHANGED <<tables, wild>>

\* clientRequestSetBrightness finds the group among the mapped ones; a value
\* outside [0, 1] is ignored.
SetBrightness(g, inRange) ==
  IF mapped[g] = NoRow THEN Refuse
  ELSE /\ mapped' = IF inRange THEN [mapped EXCEPT ![g].brightness = "dim"] ELSE mapped
       /\ Respond("0")
       /\ UNCHANGED <<groupVars, routines, channels>>

ListRequest(i) == ListNodes(i) \/ ListGroups(i) \/ ListRoutines(i) \/ ListChannels(i)

GroupRequest ==
  \/ \E complete \in BOOLEAN, name \in Names : NewGroup(complete, name)
  \/ \E i \in Ids, name \in Names : UpdateGroup(i, name)

RoutineRequest ==
  \/ \E complete \in BOOLEAN, row \in RoutineRow : NewRoutine(complete, row)
  \/ \E i \in Ids, code \in Texts : UpdateRoutine(i, code)

ChannelRequest ==
  \/ \E valid \in BOOLEAN, row \in ChannelRow : NewChannel(valid, row)
  \/ \E i, n \in Ids, o \in Offsets : FindChannel(i, n, o)

MappingRequest ==
  \/ \E r \in Ids, gs \in SUBSET Ids : FindRoutine(r, gs)
  \/ \E gs \in SUBSET Ids : BeginRemove(gs)
  \/ \E g \in Ids, inRange \in BOOLEAN : SetBrightness(g, inRange)

BeginRequest ==
  /\ handler = Idle
  /\ \/ Status \/ NoHandler \/ List(TRUE)
     \/ \E i \in Ids : UpdateNode(i) \/ ListRequest(i)
     \/ GroupRequest \/ RoutineRequest \/ ChannelRequest \/ MappingRequest

GoOnWithRequest ==
  \/ SetOffset \/ SetNode \/ StoreChannel
  \/ AddMapping \/ RemoveEnds
  \/ \E g \in Ids : FindGroup(g) \/ RemoveMapping(g)

RequestsNext ==
  /\ ~aborted
  /\ BeginRequest \/ GoOnWithRequest \/ \E i \in Ids : NodeAnnounces(i)
  /\ dirty' = (tables' # tables \/ (dirty /\ handler # Idle))

RequestsSpec == RequestsInit /\ [][RequestsNext]_requestVars

---------------------------------------------------------------------------
\* What rows and mappings refer to exists, after any sequence of requests: the
\* node of a channel is known and has no other channel, a mapped group has a
\* row and so has the routine that drives it, and the routine a group is stored
\* with exists, or there is none.  The exception is a group that has not been
\* updated since clientRequestNewGroup, whose routine was never set.
ReferencesExist ==
  /\ \A i \in Ids : channels[i] # NoRow =>
       channels[i].node \in nodes /\ ~NodeIsTaken(channels[i].node, i)
  /\ \A g \in Ids : mapped[g] # NoRow =>
       groups[g] # NoRow /\ routines[mapped[g].routine] # NoRow
  /\ \A g \in Ids \ wild : groups[g] # NoRow =>
       groups[g].routine = 0 \/ routines[groups[g].routine] # NoRow

\* A request that fails has done nothing, though it sets several properties or
\* changes several mappings: whatever clientRequesUpdateChannel,
\* clientRequestAddMapping and clientRequestRemoveMapping can fail on, a
\* lookup, a value of the wrong type, a script that does not compile or a
\* statement the database refuses, comes before the first change.
FailuresChangeNothing ==
  response \in {"error", "closed"} \/ aborted => ~dirty
===========================================================================
