--------------------------- MODULE OutputMapper ---------------------------
(***************************************************************************)
(* The output map of OutputMapper.cpp: which OutputGroup or                *)
(* OutputUberGroup object is driven by an effect routine, and the pixel    *)
(* buffer each object shares with its routine.                             *)
(*                                                                         *)
(* Every command allocates new OutputGroup, OutputUberGroup and Routine    *)
(* objects, so a key of the map and its routine are born together: one     *)
(* handle stands for both.  The operations are taken here one at a time,   *)
(* as the comments "take the lock for this scope" intend; MapperThreads    *)
(* interleaves their steps as the code really runs them.                   *)
(*                                                                         *)
(* A group has at least one pixel.  Two members of an ubergroup with the   *)
(* same id compare equal in every operation below and are one member here. *)
(***************************************************************************)
CONSTANTS
  Groups,    \* ids of the groups in the datastore
  Handles,   \* names for OutputGroup objects (and the routine of each)
  NoHandle   \* no object

ASSUME NoHandleIsNotAHandle == NoHandle \notin Handles

VARIABLES
  outputMap,   \* the keys of OutputMapper::outputMap
  obj          \* the object behind each handle

vars == <<outputMap, obj>>

(***************************************************************************)
(* An object.  buffer is what OutputGroup::buffer points to; attached is   *)
(* what the pointer the routine was given points to: "none" before the     *)
(* first bind, "freed" once the object has freed that memory.              *)
(***************************************************************************)
Buffer == {"null", "live"}
Attachment == Buffer \cup {"none", "freed"}

Object == [uber     : BOOLEAN,
           members  : SUBSET Groups,
           buffer   : Buffer,
           changed  : BOOLEAN,
           attached : Attachment]

\* Mutant of ResizeBuffer: the flag that the buffer changed is not raised.
ResizeBufferSilently(o) ==
  [o EXCEPT !.attached = IF @ = "live" THEN "freed" ELSE @,
            !.buffer   = IF o.members = {} THEN "null" ELSE "live"]

\* OutputGroup::_resizeBuffer: the old buffer is freed; the changed flag is
\* only raised when there is a new one.
ResizeBuffer(o) ==
  [o EXCEPT !.attached = IF @ = "live" THEN "freed" ELSE @,
            !.buffer   = IF o.members = {} THEN "null" ELSE "live",
            !.changed  = @ \/ o.members # {}]

\* The constructors: a plain group has one member, an ubergroup has some.
NewObject(isUber, ids) ==
  ResizeBuffer([uber |-> isUber, members |-> ids, buffer |-> "null",
                changed |-> FALSE, attached |-> "none"])

\* OutputUberGroup::removeMember for every id in ids.
RemoveMembers(o, ids) == ResizeBuffer([o EXCEPT !.members = @ \ ids])

\* Mutant of BindBufferToRoutine: only the first bind attaches the buffer.
BindBufferOnce(o) ==
  IF o.attached = "none" THEN [o EXCEPT !.attached = o.buffer] ELSE o

\* OutputGroup::bindBufferToRoutine.
BindBufferToRoutine(o) ==
  IF o.attached = "none" \/ o.changed
  THEN [o EXCEPT !.attached = o.buffer, !.changed = FALSE]
  ELSE o

(***************************************************************************)
(* The loops over a map m whose objects are o.  operator== makes a plain   *)
(* group equal to every group with its id and an ubergroup equal to none.  *)
(***************************************************************************)
GroupsEqualTo(m, o, g) == {h \in m : ~o[h].uber /\ g \in o[h].members}

UbergroupsContaining(m, o, g) == {h \in m : o[h].uber /\ g \in o[h].members}

WithoutEmptyUbergroups(m, o) == {h \in m : ~(o[h].uber /\ o[h].members = {})}

\* Mutant of RemoveMappingForGroup: the whole ubergroup goes, not the member.
RemoveWholeUbergroup(m, o, g) ==
  {[map |-> m \ (GroupsEqualTo(m, o, g) \cup UbergroupsContaining(m, o, g)), obj |-> o]}

(***************************************************************************)
(* removeMappingForGroup: the map and the objects it may leave.  When no   *)
(* plain mapping is found, the first ubergroup in pointer order that has   *)
(* the group loses it and the function returns at once, without the        *)
(* removeEmptyUbergroups at its end.                                       *)
(***************************************************************************)
RemoveMappingForGroup(m, o, g) ==
  LET singles == GroupsEqualTo(m, o, g)
      ubers   == UbergroupsContaining(m, o, g)
  IN IF singles = {} /\ ubers # {}
     THEN {[map |-> m, obj |-> [o EXCEPT ![h] = RemoveMembers(@, {g})]] : h \in ubers}
     ELSE {[map |-> WithoutEmptyUbergroups(m \ singles, o), obj |-> o]}

\* The loop of _removeMappingsInUbergroup over the ubergroups, and the one over the plain groups.
WithoutMembers(m, o, ids) ==
  [h \in DOMAIN o |-> IF h \in m /\ o[h].uber /\ o[h].members \cap ids # {}
                     THEN RemoveMembers(o[h], ids)
                     ELSE o[h]]
WithoutGroups(m, o, ids) == m \ UNION {GroupsEqualTo(m, o, g) : g \in ids}

\* Mutant of RemoveMappingsInUbergroup: other ubergroups keep their members.
RemovePlainMappingsOnly(m, o, ids) ==
  [map |-> m \ UNION {GroupsEqualTo(m, o, g) : g \in ids}, obj |-> o]

(***************************************************************************)
(* _removeMappingsInUbergroup for a new ubergroup of the groups ids.  Its  *)
(* first loop looks for an ubergroup with the same set of pointers; the    *)
(* members of ug have just been allocated, so there is none.               *)
(***************************************************************************)
RemoveMappingsInUbergroup(m, o, ids) ==
  [map |-> WithoutGroups(m, o, ids), obj |-> WithoutMembers(m, o, ids)]

---------------------------------------------------------------------------

\* The map is empty; the objects are not allocated yet.
Init ==
  /\ outputMap = {}
  /\ obj = [h \in Handles |-> NewObject(FALSE, {})]

\* The end of addMapping: drop empty ubergroups, insert the new key.
Insert(r, h, new) ==
  /\ outputMap' = WithoutEmptyUbergroups(r.map, r.obj) \cup {h}
  /\ obj' = [r.obj EXCEPT ![h] = new]

\* addMapping with a plain group.
AddGroup(h, g) ==
  /\ h \notin outputMap
  /\ \E r \in RemoveMappingForGroup(outputMap, obj, g) :
       Insert(r, h, NewObject(FALSE, {g}))

\* addMapping with an ubergroup; an empty one throws invalid_ubergroup.
AddUbergroup(h, ids) ==
  /\ h \notin outputMap
  /\ ids # {}
  /\ Insert(RemoveMappingsInUbergroup(outputMap, obj, ids), h, NewObject(TRUE, ids))

\* removeMappingForGroup as the command server calls it.
RemoveGroup(g) ==
  \E r \in RemoveMappingForGroup(outputMap, obj, g) :
    /\ outputMap' = r.map
    /\ obj' = r.obj

\* EffectRunner::coordinatorRunEffects: bind and run every mapped effect.
RunEffects ==
  /\ outputMap # {}
  /\ obj' = [h \in Handles |-> IF h \in outputMap THEN BindBufferToRoutine(obj[h]) ELSE obj[h]]
  /\ UNCHANGED outputMap

Next ==
  \/ \E h \in Handles, g \in Groups : AddGroup(h, g)
  \/ \E h \in Handles, ids \in SUBSET Groups : AddUbergroup(h, ids)
  \/ \E g \in Groups : RemoveGroup(g)
  \/ RunEffects

Spec == Init /\ [][Next]_vars

---------------------------------------------------------------------------
(***************************************************************************)
(* Properties.                                                             *)
(***************************************************************************)

\* The map holds allocated objects and every object is well formed.
TypeOK ==
  /\ outputMap \subseteq Handles
  /\ obj \in [Handles -> Object]

\* No group is drawn by two effects in one frame: any sequence of addMapping
\* and removeMappingForGroup, with groups moving between plain mappings and
\* overlapping ubergroups, leaves at most one key of the map with a group.
Exclusive ==
  \A h1, h2 \in outputMap :
    h1 # h2 => obj[h1].members \cap obj[h2].members = {}

\* A plain mapping has its group, and an object owns a buffer exactly when it
\* still has members (_resizeBuffer).
WellFormed ==
  \A h \in outputMap :
    /\ ~obj[h].uber => \E g \in Groups : obj[h].members = {g}
    /\ obj[h].buffer = "live" <=> obj[h].members # {}
    /\ obj[h].attached = "live" => obj[h].buffer = "live"

\* A routine never runs on a freed or missing buffer, as long as the group
\* has members: the next bindBufferToRoutine is bound to attach the new one.
StaleBufferIsFlagged ==
  \A h \in outputMap :
    obj[h].attached \in {"freed", "null"} /\ obj[h].members # {} => obj[h].changed

\* A frame binds every routine to the buffer its group owns now
\* (bindBufferToRoutine before every runEffect), unless the group is empty.
FrameUsesOwnBuffer ==
  [][RunEffects => \A h \in outputMap :
       obj[h].members # {} => obj'[h].attached = "live"]_vars

(***************************************************************************)
(* The abstract view: who drives each group.                               *)
(***************************************************************************)
DriverOf(m, o, g) ==
  IF \E h \in m : g \in o[h].members
  THEN CHOOSE h \in m : g \in o[h].members
  ELSE NoHandle

driver == [g \in Groups |-> DriverOf(outputMap, obj, g)]

Drivers == INSTANCE GroupDrivers WITH Effects <- Handles, NoEffect <- NoHandle

\* The mapper implements GroupDrivers: the last request that names a group
\* decides what drives it, and no request touches a group it does not name.
ImplementsDrivers == Drivers!Spec
===========================================================================
