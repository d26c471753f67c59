--------------------------- MODULE MapperThreads ---------------------------
(***************************************************************************)
(* The threads that share the output map, step by step: the command server *)
(* runs one thread per connection (and main adds the first mappings while  *)
(* they run), the coordinator walks over the map once per frame.           *)
(*                                                                         *)
(* Each function of the mapper starts with                                 *)
(*     std::lock_guard<std::recursive_mutex>(this->outputMapLock);         *)
(* which names no variable: a temporary is built and destroyed in that     *)
(* statement, so the thread waits until the mutex is free, takes it and    *)
(* gives it back before the first loop.  Only the coordinator holds the    *)
(* mutex while it works.  A loop over the map is one step here.            *)
(***************************************************************************)
EXTENDS Naturals, Sequences

CONSTANTS
  Groups,    \* ids of the groups in the datastore
  Handles,   \* names for OutputGroup objects
  NoHandle,  \* no object
  Clients    \* the threads that call addMapping and removeMappingForGroup

ASSUME NoHandleIsNone == NoHandle \notin Handles

VARIABLES
  outputMap, obj,   \* as in OutputMapper
  todo,             \* what each client thread still has to execute
  request,          \* the arguments of its call: the new object, the group ids
  frame,            \* where the coordinator is in its frame
  visited,          \* the keys its loop has reached
  snapshot,         \* the keys that were there when the loop began
  current,          \* the key whose effect it runs
  contested,        \* history: groups that two calls have named at a time
  overtook          \* history: a client was past its guard, with changes to
                    \* make, when the coordinator took the mutex

clientVars == <<todo, request, contested>>
frameVars == <<frame, visited, snapshot, current, overtook>>
vars == <<outputMap, obj, clientVars, frameVars>>

Mapper == INSTANCE OutputMapper

(***************************************************************************)
(* The three calls as straight-line programs.  "guard" is a temporary      *)
(* lock_guard.  erase and leave are the loops of removeMappingForGroup,    *)
(* evict and unmap those of _removeMappingsInUbergroup that can find       *)
(* something, sweep the one of removeEmptyUbergroups.  addMapping's own    *)
(* guard and that of the first function it calls, with nothing shared      *)
(* between them, are one.                                                  *)
(***************************************************************************)
RemoveProgram == <<"guard", "erase", "leave", "guard", "sweep">>
AddGroupProgram == RemoveProgram \o <<"guard", "sweep", "insert">>
AddUbergroupProgram == <<"guard", "evict", "unmap", "guard", "sweep", "insert">>

NoRequest == [h |-> NoHandle, ids |-> {}]

Init ==
  /\ Mapper!Init
  /\ todo = [t \in Clients |-> <<>>]
  /\ request = [t \in Clients |-> NoRequest]
  /\ contested = {}
  /\ frame = "asleep"
  /\ visited = {} /\ snapshot = {}
  /\ current = NoHandle
  /\ overtook = FALSE

\* A handle no thread uses: the name of a freshly allocated object.
Fresh(h) ==
  /\ h \notin outputMap
  /\ h # current
  /\ \A t \in Clients : request[t].h # h

Call(t, program, h, ids) ==
  /\ todo[t] = <<>>
  /\ todo' = [todo EXCEPT ![t] = program]
  /\ request' = [request EXCEPT ![t] = [h |-> h, ids |-> ids]]
  /\ contested' = contested \cup (ids \cap UNION {request[u].ids : u \in Clients})
  /\ UNCHANGED <<outputMap, obj, frameVars>>

CallAddGroup(t, h, g) == Fresh(h) /\ Call(t, AddGroupProgram, h, {g})

\* The command server builds an ubergroup for two ids or more.
CallAddUbergroup(t, h, ids) ==
  /\ Fresh(h)
  /\ \E g1, g2 \in ids : g1 # g2
  /\ Call(t, AddUbergroupProgram, h, ids)

CallRemove(t, g) == Call(t, RemoveProgram, NoHandle, {g})

---------------------------------------------------------------------------
At(t, step) == todo[t] # <<>> /\ Head(todo[t]) = step

\* The call goes on with the steps rest; a call that is over forgets its
\* arguments.
ContinueWith(t, rest) ==
  /\ todo' = [todo EXCEPT ![t] = rest]
  /\ request' = IF rest = <<>> THEN [request EXCEPT ![t] = NoRequest] ELSE request
  /\ UNCHANGED contested

\* The call has executed its next n steps, or jumped over them.
Skip(t, n) == ContinueWith(t, SubSeq(todo[t], n + 1, Len(todo[t])))

\* A loop leaves the map m with the objects o; an object that is no key of
\* the map any more is not looked at again, and is forgotten here.
MapBecomes(m, o) ==
  /\ outputMap' = m
  /\ obj' = [h \in Handles |-> IF h \in m THEN o[h] ELSE Mapper!NewObject(FALSE, {})]

MutexIsFree == frame # "running"

\* Mutant of Guard: the thread does not wait for the coordinator.
GuardDoesNotWait(t) ==
  /\ At(t, "guard")
  /\ Skip(t, 1)
  /\ UNCHANGED <<outputMap, obj, frameVars>>

\* std::lock_guard<...>(outputMapLock): lock and unlock.
Guard(t) ==
  /\ At(t, "guard")
  /\ MutexIsFree
  /\ Skip(t, 1)
  /\ UNCHANGED <<outputMap, obj, frameVars>>

\* The group that removeMappingForGroup is called for.
GroupOf(t) == CHOOSE g \in request[t].ids : TRUE

\* removeMappingForGroup, the loop over the plain groups.  If it erases any, the
\* ubergroups are not looked at.
Erase(t) ==
  LET singles == Mapper!GroupsEqualTo(outputMap, obj, GroupOf(t))
  IN /\ At(t, "erase")
     /\ MapBecomes(outputMap \ singles, obj)
     /\ Skip(t, IF singles = {} THEN 1 ELSE 2)
     /\ UNCHANGED frameVars

\* The loop over the ubergroups.  Taking the group out of one returns from the
\* function, past its sweep.
Leave(t) ==
  LET ubers == Mapper!UbergroupsContaining(outputMap, obj, GroupOf(t))
  IN /\ At(t, "leave")
     /\ \/ ubers = {} /\ Skip(t, 1) /\ UNCHANGED <<outputMap, obj>>
        \/ \E h \in ubers :
             /\ MapBecomes(outputMap, [obj EXCEPT ![h] = Mapper!RemoveMembers(@, {GroupOf(t)})])
             /\ Skip(t, 3)
     /\ UNCHANGED frameVars

\* Mutant of Evict: the loop over the new ubergroup's groups ends with the first
\* one that is found.
EvictOneMember(t) ==
  /\ At(t, "evict")
  /\ MapBecomes(outputMap, Mapper!WithoutMembers(outputMap, obj, {GroupOf(t)}))
  /\ Skip(t, 1)
  /\ UNCHANGED frameVars

\* _removeMappingsInUbergroup, the loop over the other ubergroups ...
Evict(t) ==
  /\ At(t, "evict")
  /\ MapBecomes(outputMap, Mapper!WithoutMembers(outputMap, obj, request[t].ids))
  /\ Skip(t, 1)
  /\ UNCHANGED frameVars

\* ... and the one over the plain groups.
Unmap(t) ==
  /\ At(t, "unmap")
  /\ MapBecomes(Mapper!WithoutGroups(outputMap, obj, request[t].ids), obj)
  /\ Skip(t, 1)
  /\ UNCHANGED frameVars

\* Mutant of Sweep: numMembers() is not looked at.
SweepEveryUbergroup(t) ==
  /\ At(t, "sweep")
  /\ MapBecomes({h \in outputMap : ~obj[h].uber}, obj)
  /\ Skip(t, 1)
  /\ UNCHANGED frameVars

\* The loop of removeEmptyUbergroups.
Sweep(t) ==
  /\ At(t, "sweep")
  /\ MapBecomes(Mapper!WithoutEmptyUbergroups(outputMap, obj), obj)
  /\ Skip(t, 1)
  /\ UNCHANGED frameVars

\* outputMap[g] = r, the last statement of addMapping.
InsertKey(t) ==
  LET ids == request[t].ids
      isUber == \E g1, g2 \in ids : g1 # g2
  IN /\ At(t, "insert")
     /\ outputMap' = outputMap \cup {request[t].h}
     /\ obj' = [obj EXCEPT ![request[t].h] = Mapper!NewObject(isUber, ids)]
     /\ Skip(t, 1)
     /\ UNCHANGED frameVars

---------------------------------------------------------------------------
\* The coordinator finds the map not empty; it does not hold the mutex yet.
FrameBegin ==
  /\ frame = "asleep"
  /\ outputMap # {}
  /\ frame' = "locking"
  /\ UNCHANGED <<outputMap, obj, clientVars, visited, snapshot, current, overtook>>

\* outputMapLock.lock(); a client holds it only inside one of its steps.
FrameLock ==
  /\ frame = "locking"
  /\ frame' = "running"
  /\ snapshot' = outputMap
  /\ visited' = {}
  /\ overtook' = \E t \in Clients : todo[t] # <<>> /\ ~At(t, "guard")
  /\ UNCHANGED <<outputMap, obj, clientVars, current>>

\* One round of the loop in coordinatorRunEffects.
RunEffect(h) ==
  /\ frame = "running"
  /\ h \in outputMap \ visited
  /\ current' = h
  /\ visited' = visited \cup {h}
  /\ obj' = [obj EXCEPT ![h] = Mapper!BindBufferToRoutine(@)]
  /\ UNCHANGED <<outputMap, clientVars, frame, snapshot, overtook>>

\* Mutant of FrameEnd: the mutex is not released.
FrameEndKeepsMutex ==
  /\ frame = "running"
  /\ snapshot \cap outputMap \subseteq visited
  /\ snapshot' = outputMap
  /\ visited' = {}
  /\ current' = NoHandle
  /\ UNCHANGED <<outputMap, obj, clientVars, frame, overtook>>

\* The loop is over and the mutex is released.  A key inserted meanwhile is
\* visited or not, depending on where its address falls.
FrameEnd ==
  /\ frame = "running"
  /\ snapshot \cap outputMap \subseteq visited
  /\ frame' = "asleep"
  /\ visited' = {} /\ snapshot' = {}
  /\ current' = NoHandle
  /\ overtook' = FALSE
  /\ UNCHANGED <<outputMap, obj, clientVars>>

ClientStep(t) == \/ Guard(t) \/ Erase(t) \/ Leave(t) \/ Evict(t) \/ Unmap(t)
                 \/ Sweep(t) \/ InsertKey(t)

ClientCall(t) ==
  \/ \E h \in Handles, g \in Groups : CallAddGroup(t, h, g)
  \/ \E h \in Handles, ids \in SUBSET Groups : CallAddUbergroup(t, h, ids)
  \/ \E g \in Groups : CallRemove(t, g)

Coordinator == FrameBegin \/ FrameLock \/ FrameEnd \/ \E h \in Handles : RunEffect(h)

Next ==
  \/ \E t \in Clients : ClientCall(t) \/ ClientStep(t)
  \/ Coordinator

(***************************************************************************)
(* A thread that can run does.  The coordinator sleeps for the rest of the *)
(* frame after it has released the mutex, which is when a waiting client   *)
(* gets it: a client that finds the mutex free again and again takes it.   *)
(***************************************************************************)
Fairness ==
  /\ WF_vars(Coordinator)
  /\ \A t \in Clients : SF_vars(Guard(t)) /\ WF_vars(ClientStep(t))

Spec == Init /\ [][Next]_vars /\ Fairness

---------------------------------------------------------------------------
\* No group is driven by two keys of the map, at any moment, whatever the
\* coordinator and calls for other groups do meanwhile, though no client holds
\* the mutex while it works (addMapping).  Two calls that name the same group
\* at a time may both remove what is there before either inserts.
UncontestedIsExclusive ==
  \A g \in Groups \ contested, h1, h2 \in outputMap :
    g \in obj[h1].members \cap obj[h2].members => h1 = h2

\* The map the coordinator iterates over is the one it found: a call that comes
\* while the loop runs waits at its first guard, and a call that was waiting at
\* a guard when the loop began stays there.  Only a client the coordinator has
\* overtaken, which has had its guard and still has a loop or the insertion
\* before it, changes the map under the iteration (coordinatorRunEffects).
LoopWalksSettledMap ==
  frame = "running" /\ ~overtook => outputMap = snapshot

\* The keys that drive the group g.
Drivers(g) == {h \in outputMap : g \in obj[h].members}

\* A step serves the calls: it changes what drives a group only if a call that
\* names the group is under way, and if it ends such a call, the group is driven
\* by the call's new key alone, or by none if there is no new key.
ServesCalls ==
  \A g \in Groups :
    /\ Drivers(g)' # Drivers(g) => \E t \in Clients : g \in request[t].ids
    /\ \A t \in Clients :
         todo[t] # <<>> /\ todo'[t] = <<>> /\ g \in request[t].ids \ contested =>
           Drivers(g)' = {request[t].h} \ {NoHandle}

\* The promise of GroupDrivers as it is left without the lock: every step of
\* addMapping, of removeMappingForGroup and of the coordinator serves the calls
\* that are under way, unless two of them have contested the group.
CallsAreServed == [][ServesCalls]_vars

\* Every call of addMapping and removeMappingForGroup comes to its end, though
\* the coordinator takes the mutex over and over.
CallsReturn == \A t \in Clients : todo[t] # <<>> ~> todo[t] = <<>>
===========================================================================
