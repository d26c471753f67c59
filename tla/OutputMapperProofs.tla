------------------------ MODULE OutputMapperProofs ------------------------
(***************************************************************************)
(* Proofs about OutputMapper for every set of groups and handles.          *)
(*                                                                         *)
(* Exclusive is inductive only together with the shape of the objects: a   *)
(* plain mapping has exactly one group, so erasing it loses nothing else,  *)
(* and that is what the refinement of GroupDrivers needs too.  GoodMap is  *)
(* the conjunction, stated of a map and its objects so that it can be      *)
(* applied to the intermediate results of addMapping.                      *)
(***************************************************************************)
EXTENDS OutputMapper, TLAPS

GoodMap(m, o) ==
  /\ m \subseteq Handles
  /\ o \in [Handles -> Object]
  /\ \A h1, h2 \in m : h1 # h2 => o[h1].members \cap o[h2].members = {}
  /\ \A h \in m :
       /\ ~o[h].uber => \E g \in Groups : o[h].members = {g}
       /\ o[h].buffer = "live" <=> o[h].members # {}
       /\ o[h].attached = "live" => o[h].buffer = "live"
       /\ o[h].attached \in {"freed", "null"} /\ o[h].members # {} => o[h].changed

\* The inductive invariant.
IInv == GoodMap(outputMap, obj)

\* The inductive invariant is the conjunction of the checked invariants.
LEMMA IInvSplits == IInv <=> TypeOK /\ Exclusive /\ WellFormed /\ StaleBufferIsFlagged
  BY DEF IInv, GoodMap, TypeOK, Exclusive, WellFormed, StaleBufferIsFlagged

---------------------------------------------------------------------------
\* A constructor (NewObject) yields a well-formed object that was never bound.
LEMMA NewObjectFields ==
  ASSUME NEW u \in BOOLEAN, NEW ids \in SUBSET Groups
  PROVE  LET n == NewObject(u, ids) IN
         /\ n \in Object
         /\ n.uber = u /\ n.members = ids /\ n.attached = "none"
         /\ n.buffer = "live" <=> ids # {}
  BY DEF NewObject, ResizeBuffer, Object, Buffer, Attachment

\* removeMember keeps an object well formed and flags the buffer it replaces.
LEMMA RemoveMembersFields ==
  ASSUME NEW o \in Object, NEW ids \in SUBSET Groups
  PROVE  LET n == RemoveMembers(o, ids) IN
         /\ n \in Object
         /\ n.uber = o.uber /\ n.members = o.members \ ids
         /\ n.attached # "live"
         /\ n.buffer = "live" <=> n.members # {}
         /\ n.members # {} => n.changed
  <1> DEFINE p == [o EXCEPT !.members = @ \ ids]
  <1>1. /\ p \in Object /\ p.members = o.members \ ids
        /\ p.uber = o.uber /\ p.attached = o.attached /\ p.changed = o.changed
    BY DEF Object
  <1>2. RemoveMembers(o, ids) = ResizeBuffer(p)
    BY DEF RemoveMembers
  <1> HIDE DEF p
  <1>3. LET n == ResizeBuffer(p) IN
        /\ n \in Object
        /\ n.uber = p.uber /\ n.members = p.members
        /\ n.attached # "live"
        /\ n.buffer = "live" <=> n.members # {}
        /\ n.members # {} => n.changed
    BY <1>1 DEF ResizeBuffer, Object, Buffer, Attachment
  <1> QED
    BY <1>1, <1>2, <1>3

\* bindBufferToRoutine changes neither the members nor the buffer.
LEMMA BindFields ==
  ASSUME NEW o \in Object
  PROVE  LET n == BindBufferToRoutine(o) IN
         /\ n \in Object
         /\ n.uber = o.uber /\ n.members = o.members /\ n.buffer = o.buffer
         /\ o.attached = "none" \/ o.changed => n.attached = o.buffer
         /\ ~(o.attached = "none" \/ o.changed) => n = o
  BY DEF BindBufferToRoutine, Object, Buffer, Attachment

---------------------------------------------------------------------------
\* removeMappingForGroup keeps the map good, takes the group from whoever had
\* it and nothing else from anyone.
LEMMA RemoveMappingGood ==
  ASSUME NEW m, NEW o, GoodMap(m, o), NEW g \in Groups,
         NEW r \in RemoveMappingForGroup(m, o, g)
  PROVE  /\ GoodMap(r.map, r.obj)
         /\ r.map \subseteq m
         /\ \A h \in r.map : r.obj[h].members = o[h].members \ {g}
         /\ \A h \in m \ r.map : o[h].members \subseteq {g}
  <1> DEFINE singles == GroupsEqualTo(m, o, g)
             ubers   == UbergroupsContaining(m, o, g)
  <1>1. CASE singles = {} /\ ubers # {}
    <2>1. PICK k \in ubers :
            r = [map |-> m, obj |-> [o EXCEPT ![k] = RemoveMembers(@, {g})]]
      BY <1>1 DEF RemoveMappingForGroup
    <2>2. /\ k \in m /\ k \in Handles /\ o[k] \in Object /\ o[k].uber
          /\ g \in o[k].members
      BY DEF UbergroupsContaining, GoodMap
    <2> DEFINE n == RemoveMembers(o[k], {g})
    <2>3. /\ n \in Object /\ n.uber = o[k].uber
          /\ n.members = o[k].members \ {g}
          /\ n.attached # "live"
          /\ n.buffer = "live" <=> n.members # {}
          /\ n.members # {} => n.changed
      BY <2>2, RemoveMembersFields
    <2> HIDE DEF n
    <2>4. /\ r.map = m
          /\ r.obj = [o EXCEPT ![k] = n]
      BY <2>1 DEF n
    <2>5. /\ r.obj \in [Handles -> Object]
          /\ r.obj[k] = n
          /\ \A h \in Handles \ {k} : r.obj[h] = o[h]
      BY <2>2, <2>3, <2>4 DEF GoodMap
    <2>6. \A h \in m : r.obj[h].members = o[h].members \ {g}
      <3> SUFFICES ASSUME NEW h \in m PROVE r.obj[h].members = o[h].members \ {g}
        OBVIOUS
      <3>1. h \in Handles
        BY DEF GoodMap
      <3>2. CASE h = k
        BY <3>2, <2>3, <2>5
      <3>3. CASE h # k
        <4>1. o[h].members \cap o[k].members = {}
          BY <3>3, <2>2 DEF GoodMap
        <4> QED
          BY <3>1, <3>3, <4>1, <2>2, <2>5
      <3> QED
        BY <3>2, <3>3
    <2>7. \A h1, h2 \in m : h1 # h2 => r.obj[h1].members \cap r.obj[h2].members = {}
      BY <2>6 DEF GoodMap
    <2>8. \A h \in m :
            /\ ~r.obj[h].uber => \E x \in Groups : r.obj[h].members = {x}
            /\ r.obj[h].buffer = "live" <=> r.obj[h].members # {}
            /\ r.obj[h].attached = "live" => r.obj[h].buffer = "live"
            /\ r.obj[h].attached \in {"freed", "null"} /\ r.obj[h].members # {} => r.obj[h].changed
      <3> SUFFICES ASSUME NEW h \in m
                   PROVE  /\ ~r.obj[h].uber => \E x \in Groups : r.obj[h].members = {x}
                          /\ r.obj[h].buffer = "live" <=> r.obj[h].members # {}
                          /\ r.obj[h].attached = "live" => r.obj[h].buffer = "live"
                          /\ r.obj[h].attached \in {"freed", "null"} /\ r.obj[h].members # {}
                               => r.obj[h].changed
        OBVIOUS
      <3>1. CASE h = k
        BY <3>1, <2>2, <2>3, <2>5
      <3>2. CASE h # k
        <4>1. h \in Handles /\ r.obj[h] = o[h]
          BY <3>2, <2>5 DEF GoodMap
        <4> QED
          BY <4>1 DEF GoodMap
      <3> QED
        BY <3>1, <3>2
    <2> QED
      BY <2>4, <2>5, <2>6, <2>7, <2>8 DEF GoodMap
  <1>2. CASE ~(singles = {} /\ ubers # {})
    <2>1. r = [map |-> WithoutEmptyUbergroups(m \ singles, o), obj |-> o]
      BY <1>2 DEF RemoveMappingForGroup
    <2>2. /\ r.map \subseteq m /\ r.obj = o
          /\ \A h \in r.map : h \notin singles
          /\ \A h \in m \ r.map : h \in singles \/ o[h].members = {}
      BY <2>1 DEF WithoutEmptyUbergroups
    <2>3. \A h \in singles : o[h].members = {g}
      BY DEF GroupsEqualTo, GoodMap
    <2>4. \A h \in r.map : g \notin o[h].members
      <3> SUFFICES ASSUME NEW h \in r.map, g \in o[h].members PROVE FALSE
        OBVIOUS
      <3>1. h \in m /\ h \notin singles
        BY <2>2
      <3>2. o[h].uber
        BY <3>1 DEF GroupsEqualTo
      <3>3. h \in ubers
        BY <3>1, <3>2 DEF UbergroupsContaining
      <3>4. PICK s \in singles : TRUE
        BY <3>3, <1>2
      <3>5. s \in m /\ s # h /\ g \in o[s].members
        BY <3>1, <3>4, <2>3 DEF GroupsEqualTo
      <3> QED
        BY <3>1, <3>5 DEF GoodMap
    <2>5. GoodMap(r.map, r.obj)
      BY <2>2 DEF GoodMap
    <2> QED
      BY <2>2, <2>3, <2>4, <2>5
  <1> QED
    BY <1>1, <1>2

\* _removeMappingsInUbergroup does the same for all groups of a new ubergroup.
LEMMA RemoveUberGood ==
  ASSUME NEW m, NEW o, GoodMap(m, o), NEW ids \in SUBSET Groups
  PROVE  LET r == RemoveMappingsInUbergroup(m, o, ids) IN
         /\ GoodMap(r.map, r.obj)
         /\ r.map \subseteq m
         /\ \A h \in r.map : r.obj[h].members = o[h].members \ ids
         /\ \A h \in m \ r.map : o[h].members \subseteq ids
  <1> DEFINE rm == m \ UNION {GroupsEqualTo(m, o, g) : g \in ids}
             ro == [h \in Handles |->
                      IF h \in m /\ o[h].uber /\ o[h].members \cap ids # {}
                      THEN RemoveMembers(o[h], ids)
                      ELSE o[h]]
  <1>1. RemoveMappingsInUbergroup(m, o, ids) = [map |-> rm, obj |-> ro]
    BY DEF RemoveMappingsInUbergroup, WithoutMembers, WithoutGroups, GoodMap
  <1>2. \A h \in Handles :
          /\ ro[h] \in Object
          /\ ro[h].uber = o[h].uber
          /\ \/ ro[h] = o[h]
             \/ /\ ro[h].members = o[h].members \ ids
                /\ ro[h].attached # "live"
                /\ ro[h].buffer = "live" <=> ro[h].members # {}
                /\ ro[h].members # {} => ro[h].changed
                /\ o[h].uber
    <2> SUFFICES ASSUME NEW h \in Handles
                 PROVE  /\ ro[h] \in Object
                        /\ ro[h].uber = o[h].uber
                        /\ \/ ro[h] = o[h]
                           \/ /\ ro[h].members = o[h].members \ ids
                              /\ ro[h].attached # "live"
                              /\ ro[h].buffer = "live" <=> ro[h].members # {}
                              /\ ro[h].members # {} => ro[h].changed
                              /\ o[h].uber
      OBVIOUS
    <2>1. o[h] \in Object
      BY DEF GoodMap
    <2>2. CASE h \in m /\ o[h].uber /\ o[h].members \cap ids # {}
      <3>1. ro[h] = RemoveMembers(o[h], ids)
        BY <2>2
      <3> QED
        BY <2>1, <2>2, <3>1, RemoveMembersFields
    <2>3. CASE ~(h \in m /\ o[h].uber /\ o[h].members \cap ids # {})
      <3>1. ro[h] = o[h]
        BY <2>3
      <3> QED
        BY <2>1, <3>1
    <2> QED
      BY <2>2, <2>3
  <1>3. \A h \in rm : ro[h].members = o[h].members \ ids
    <2> SUFFICES ASSUME NEW h \in rm PROVE ro[h].members = o[h].members \ ids
      OBVIOUS
    <2>1. h \in m /\ h \in Handles /\ \A g \in ids : h \notin GroupsEqualTo(m, o, g)
      BY DEF GoodMap
    <2>2. o[h].uber \/ o[h].members \cap ids = {}
      BY <2>1 DEF GroupsEqualTo
    <2>3. CASE o[h].members \cap ids = {}
      BY <2>1, <2>3
    <2>4. CASE o[h].uber /\ o[h].members \cap ids # {}
      <3>1. ro[h] = RemoveMembers(o[h], ids)
        BY <2>1, <2>4
      <3>2. o[h] \in Object
        BY <2>1 DEF GoodMap
      <3> QED
        BY <3>1, <3>2, RemoveMembersFields
    <2> QED
      BY <2>2, <2>3, <2>4
  <1>4. \A h \in m \ rm : o[h].members \subseteq ids
    <2> SUFFICES ASSUME NEW h \in m \ rm PROVE o[h].members \subseteq ids
      OBVIOUS
    <2>1. PICK g \in ids : h \in GroupsEqualTo(m, o, g)
      OBVIOUS
    <2> QED
      BY <2>1 DEF GroupsEqualTo, GoodMap
  <1>5. rm \subseteq m /\ ro \in [Handles -> Object]
    <2>1. rm \subseteq m
      OBVIOUS
    <2>2. ro \in [Handles -> Object]
      BY <1>2
    <2> QED
      BY <2>1, <2>2
  <1> HIDE DEF rm, ro
  <1>6. GoodMap(rm, ro)
    <2>1. \A h1, h2 \in rm : h1 # h2 => ro[h1].members \cap ro[h2].members = {}
      BY <1>3, <1>5 DEF GoodMap
    <2>2. \A h \in rm :
            /\ ~ro[h].uber => \E g \in Groups : ro[h].members = {g}
            /\ ro[h].buffer = "live" <=> ro[h].members # {}
            /\ ro[h].attached = "live" => ro[h].buffer = "live"
            /\ ro[h].attached \in {"freed", "null"} /\ ro[h].members # {} => ro[h].changed
      BY <1>2, <1>5 DEF GoodMap
    <2> QED
      BY <1>5, <2>1, <2>2 DEF GoodMap
  <1> QED
    BY <1>1, <1>3, <1>4, <1>5, <1>6

\* n is a new object, for the unused handle h, of groups that nothing drives.
ReadyToInsert(m, o, h, n) ==
  /\ GoodMap(m, o) /\ h \in Handles /\ h \notin m
  /\ n \in Object /\ n.members # {} /\ n.attached = "none" /\ n.buffer = "live"
  /\ n.uber \/ \E g \in Groups : n.members = {g}
  /\ \A k \in m : o[k].members \cap n.members = {}

\* The map and the objects that Insert leaves.
MapWith(m, o, h) == WithoutEmptyUbergroups(m, o) \cup {h}
ObjWith(o, h, n) == [o EXCEPT ![h] = n]

\* The end of addMapping: what Insert leaves when the new object is ready.
LEMMA InsertGood ==
  ASSUME NEW m, NEW o, NEW h, NEW n, ReadyToInsert(m, o, h, n)
  PROVE  LET nm == MapWith(m, o, h)
             no == ObjWith(o, h, n)
         IN /\ GoodMap(nm, no)
            /\ h \in nm /\ no[h] = n
            /\ \A k \in nm \ {h} : k \in m /\ no[k] = o[k]
            /\ \A k \in m \ nm : o[k].members = {}
  <1> USE DEF ReadyToInsert
  <1> DEFINE nm == MapWith(m, o, h)
             no == ObjWith(o, h, n)
  <1>1. /\ no \in [Handles -> Object] /\ no[h] = n
        /\ \A k \in Handles \ {h} : no[k] = o[k]
    BY DEF GoodMap, ObjWith
  <1>2. /\ nm \subseteq Handles /\ h \in nm
        /\ \A k \in nm \ {h} : k \in m
        /\ \A k \in m \ nm : o[k].members = {}
    BY DEF MapWith, WithoutEmptyUbergroups, GoodMap
  <1> HIDE DEF nm, no
  <1>3. \A k \in nm \ {h} : k \in m /\ no[k] = o[k]
    BY <1>1, <1>2
  <1>4. \A h1, h2 \in nm : h1 # h2 => no[h1].members \cap no[h2].members = {}
    BY <1>1, <1>3 DEF GoodMap
  <1>5. \A k \in nm :
          /\ ~no[k].uber => \E g \in Groups : no[k].members = {g}
          /\ no[k].buffer = "live" <=> no[k].members # {}
          /\ no[k].attached = "live" => no[k].buffer = "live"
          /\ no[k].attached \in {"freed", "null"} /\ no[k].members # {} => no[k].changed
    BY <1>1, <1>3 DEF GoodMap
  <1>6. GoodMap(nm, no)
    BY <1>1, <1>2, <1>4, <1>5 DEF GoodMap
  <1> QED
    BY <1>1, <1>2, <1>3, <1>6 DEF nm, no

---------------------------------------------------------------------------
(***************************************************************************)
(* The invariant.                                                          *)
(***************************************************************************)

\* Every operation of the mapper and every frame keeps the map good.
LEMMA NextGood == IInv /\ [Next]_vars => IInv'
  <1> SUFFICES ASSUME IInv, [Next]_vars PROVE IInv'
    OBVIOUS
  <1> USE DEF IInv
  <1>1. ASSUME NEW h \in Handles, NEW g \in Groups, AddGroup(h, g)
        PROVE  IInv'
    <2>1. PICK r \in RemoveMappingForGroup(outputMap, obj, g) :
            Insert(r, h, NewObject(FALSE, {g}))
      BY <1>1 DEF AddGroup
    <2>2. /\ GoodMap(r.map, r.obj) /\ h \notin r.map
          /\ \A k \in r.map : r.obj[k].members \cap {g} = {}
      BY <1>1, RemoveMappingGood DEF AddGroup
    <2> DEFINE n == NewObject(FALSE, {g})
    <2>3. /\ n \in Object /\ n.members = {g} /\ n.attached = "none"
          /\ n.buffer = "live"
      BY NewObjectFields
    <2>4. /\ outputMap' = MapWith(r.map, r.obj, h)
          /\ obj' = ObjWith(r.obj, h, n)
      BY <2>1 DEF Insert, MapWith, ObjWith
    <2> HIDE DEF n
    <2>5. ReadyToInsert(r.map, r.obj, h, n)
      BY <2>2, <2>3 DEF ReadyToInsert
    <2>6. GoodMap(MapWith(r.map, r.obj, h), ObjWith(r.obj, h, n))
      BY <2>5, InsertGood
    <2> QED
      BY <2>4, <2>6
  <1>2. ASSUME NEW h \in Handles, NEW ids \in SUBSET Groups, AddUbergroup(h, ids)
        PROVE  IInv'
    <2> DEFINE r == RemoveMappingsInUbergroup(outputMap, obj, ids)
               n == NewObject(TRUE, ids)
    <2>1. /\ GoodMap(r.map, r.obj) /\ h \notin r.map /\ ids # {}
          /\ \A k \in r.map : r.obj[k].members \cap ids = {}
      BY <1>2, RemoveUberGood DEF AddUbergroup
    <2>2. /\ n \in Object /\ n.uber /\ n.members = ids /\ n.attached = "none"
          /\ n.buffer = "live"
      BY <2>1, NewObjectFields
    <2>3. /\ outputMap' = MapWith(r.map, r.obj, h)
          /\ obj' = ObjWith(r.obj, h, n)
      BY <1>2 DEF AddUbergroup, Insert, MapWith, ObjWith
    <2> HIDE DEF r, n
    <2>4. ReadyToInsert(r.map, r.obj, h, n)
      BY <2>1, <2>2 DEF ReadyToInsert
    <2>5. GoodMap(MapWith(r.map, r.obj, h), ObjWith(r.obj, h, n))
      BY <2>4, InsertGood
    <2> QED
      BY <2>3, <2>5
  <1>3. ASSUME NEW g \in Groups, RemoveGroup(g)
        PROVE  IInv'
    BY <1>3, RemoveMappingGood DEF RemoveGroup
  <1>4. ASSUME RunEffects
        PROVE  IInv'
    <2>1. /\ outputMap' = outputMap
          /\ \A h \in Handles : obj'[h] = IF h \in outputMap THEN BindBufferToRoutine(obj[h])
                                                            ELSE obj[h]
      BY <1>4 DEF RunEffects
    <2>2. \A h \in Handles : obj[h] \in Object
      BY DEF GoodMap
    <2>3. obj' \in [Handles -> Object]
      <3>1. \A h \in Handles : (IF h \in outputMap THEN BindBufferToRoutine(obj[h])
                                                  ELSE obj[h]) \in Object
        BY <2>2, BindFields
      <3> QED
        BY <1>4, <3>1 DEF RunEffects
    <2>4. ASSUME NEW h \in outputMap
          PROVE  /\ obj'[h].uber = obj[h].uber /\ obj'[h].members = obj[h].members
                 /\ obj'[h].buffer = obj[h].buffer
                 /\ obj'[h] = obj[h] \/ obj'[h].attached = obj[h].buffer
      <3>1. h \in Handles
        BY DEF GoodMap
      <3> QED
        BY <2>1, <2>2, <3>1, BindFields
    <2>5. \A h1, h2 \in outputMap : h1 # h2 => obj'[h1].members \cap obj'[h2].members = {}
      BY <2>4 DEF GoodMap
    <2>6. ASSUME NEW h \in outputMap
          PROVE  /\ ~obj'[h].uber => \E g \in Groups : obj'[h].members = {g}
                 /\ obj'[h].buffer = "live" <=> obj'[h].members # {}
                 /\ obj'[h].attached = "live" => obj'[h].buffer = "live"
                 /\ obj'[h].attached \in {"freed", "null"} /\ obj'[h].members # {} => obj'[h].changed
      <3>1. obj[h].buffer \in {"null", "live"}
        BY <2>2 DEF GoodMap, Object, Buffer
      <3> QED
        BY <2>4, <3>1 DEF GoodMap
    <2> QED
      BY <2>1, <2>3, <2>5, <2>6 DEF GoodMap
  <1>5. CASE UNCHANGED vars
    BY <1>5 DEF vars
  <1> QED
    BY <1>1, <1>2, <1>3, <1>4, <1>5 DEF Next

\* At any time every object is well formed, no group is driven by two effects,
\* and no routine of a group with members is left on a freed buffer: for any
\* datastore and any sequence of addMapping and removeMappingForGroup.
THEOREM MapperInvariant ==
  Spec => [](TypeOK /\ Exclusive /\ WellFormed /\ StaleBufferIsFlagged)
  <1>1. Init => IInv
    <2> SUFFICES ASSUME Init PROVE IInv
      OBVIOUS
    <2>1. NewObject(FALSE, {}) \in Object
      BY NewObjectFields
    <2> QED
      BY <2>1 DEF Init, IInv, GoodMap
  <1>2. IInv => TypeOK /\ Exclusive /\ WellFormed /\ StaleBufferIsFlagged
    BY IInvSplits
  <1> QED
    BY <1>1, <1>2, NextGood, PTL DEF Spec

\* A routine still attached to a buffer that its group has replaced is flagged
\* for rebinding, whatever sequence of requests replaced it: the next frame
\* will not run it on freed memory.
THEOREM StaleBuffersAreFlagged == Spec => []StaleBufferIsFlagged
  BY MapperInvariant, PTL

\* A frame runs every routine on the buffer its group owns now.
THEOREM FrameUsesOwnBufferHolds == Spec => FrameUsesOwnBuffer
  <1>1. IInv /\ [Next]_vars =>
          [RunEffects => \A h \in outputMap :
             obj[h].members # {} => obj'[h].attached = "live"]_vars
    <2> SUFFICES ASSUME IInv, RunEffects, NEW h \in outputMap, obj[h].members # {}
                 PROVE  obj'[h].attached = "live"
      OBVIOUS
    <2>1. /\ h \in Handles /\ obj[h] \in Object /\ obj[h].buffer = "live"
          /\ obj[h].attached \in {"freed", "null"} => obj[h].changed
      BY DEF IInv, GoodMap
    <2>2. obj'[h] = BindBufferToRoutine(obj[h])
      BY <2>1 DEF RunEffects
    <2>3. obj[h].attached \in {"null", "live", "none", "freed"}
      BY <2>1 DEF Object, Attachment, Buffer
    <2>4. CASE obj[h].attached = "none" \/ obj[h].changed
      BY <2>1, <2>2, <2>4, BindFields
    <2>5. CASE ~(obj[h].attached = "none" \/ obj[h].changed)
      <3>1. obj'[h] = obj[h]
        BY <2>1, <2>2, <2>5, BindFields
      <3> QED
        BY <2>1, <2>3, <2>5, <3>1
    <2> QED
      BY <2>4, <2>5
  <1> QED
    BY <1>1, MapperInvariant, IInvSplits, PTL DEF Spec, FrameUsesOwnBuffer

---------------------------------------------------------------------------
(***************************************************************************)
(* The mapper implements GroupDrivers.                                     *)
(***************************************************************************)

\* In a good map the driver of a group is the only key that has it.
LEMMA DriverIsUnique ==
  ASSUME NEW m, NEW o, GoodMap(m, o), NEW g,
         NEW h \in m, g \in o[h].members
  PROVE  DriverOf(m, o, g) = h
  <1>1. \A k \in m : g \in o[k].members => k = h
    BY DEF GoodMap
  <1> QED
    BY <1>1 DEF DriverOf

\* Taking the groups ids from every key takes them from their drivers only.
LEMMA DriversAfterRemove ==
  ASSUME NEW m, NEW o, GoodMap(m, o), NEW m2, NEW o2, GoodMap(m2, o2),
         NEW ids, m2 \subseteq m,
         \A h \in m2 : o2[h].members = o[h].members \ ids,
         \A h \in m \ m2 : o[h].members \subseteq ids,
         NEW x \in Groups
  PROVE  DriverOf(m2, o2, x) = IF x \in ids THEN NoHandle ELSE DriverOf(m, o, x)
  <1>1. CASE x \in ids
    BY <1>1 DEF DriverOf
  <1>2. CASE x \notin ids /\ \E h \in m : x \in o[h].members
    <2>1. PICK h \in m : x \in o[h].members
      BY <1>2
    <2>2. h \in m2 /\ x \in o2[h].members
      BY <1>2, <2>1
    <2> QED
      BY <1>2, <2>1, <2>2, DriverIsUnique
  <1>3. CASE x \notin ids /\ ~\E h \in m : x \in o[h].members
    BY <1>3 DEF DriverOf
  <1> QED
    BY <1>1, <1>2, <1>3

\* Inserting a new object makes it the driver of its groups and of no other.
LEMMA DriversAfterInsert ==
  ASSUME NEW m, NEW o, NEW h, NEW n, ReadyToInsert(m, o, h, n), NEW x \in Groups
  PROVE  DriverOf(MapWith(m, o, h), ObjWith(o, h, n), x)
           = IF x \in n.members THEN h ELSE DriverOf(m, o, x)
  <1> DEFINE nm == MapWith(m, o, h)
             no == ObjWith(o, h, n)
  <1>1. /\ GoodMap(nm, no)
        /\ h \in nm /\ no[h] = n
        /\ \A k \in nm \ {h} : k \in m /\ no[k] = o[k]
        /\ \A k \in m \ nm : o[k].members = {}
    BY InsertGood
  <1>2. GoodMap(m, o) /\ h \notin m
    BY DEF ReadyToInsert
  <1> HIDE DEF nm, no
  <1>3. CASE x \in n.members
    BY <1>1, <1>3, DriverIsUnique DEF nm, no
  <1>4. CASE x \notin n.members /\ \E k \in m : x \in o[k].members
    <2>1. PICK k \in m : x \in o[k].members
      BY <1>4
    <2>2. k \in nm /\ k # h /\ no[k] = o[k]
      BY <1>1, <1>2, <2>1
    <2>3. DriverOf(m, o, x) = k /\ DriverOf(nm, no, x) = k
      BY <1>1, <1>2, <2>1, <2>2, DriverIsUnique
    <2> QED
      BY <1>4, <2>3 DEF nm, no
  <1>5. CASE x \notin n.members /\ ~\E k \in m : x \in o[k].members
    <2>1. ~\E k \in nm : x \in no[k].members
      BY <1>1, <1>5
    <2>2. DriverOf(m, o, x) = NoHandle /\ DriverOf(nm, no, x) = NoHandle
      BY <1>5, <2>1 DEF DriverOf
    <2> QED
      BY <1>5, <2>2 DEF nm, no
  <1> QED
    BY <1>3, <1>4, <1>5

\* A handle outside the map drives nothing, so it may name a new effect.
LEMMA UnmappedDrivesNothing ==
  ASSUME NEW m, NEW o, NEW h \in Handles, h \notin m, NEW x
  PROVE  DriverOf(m, o, x) # h
  BY NoHandleIsNotAHandle DEF DriverOf

\* Every step of the mapper is a step of GroupDrivers or leaves it unchanged.
LEMMA StepImplementsDrivers ==
  IInv /\ IInv' /\ [Next]_vars => [Drivers!Next]_driver
  <1> SUFFICES ASSUME IInv, IInv', [Next]_vars PROVE [Drivers!Next]_driver
    OBVIOUS
  <1>1. ASSUME NEW h \in Handles, NEW g \in Groups, AddGroup(h, g)
        PROVE  Drivers!Assign(h, {g})
    <2>1. PICK r \in RemoveMappingForGroup(outputMap, obj, g) :
            Insert(r, h, NewObject(FALSE, {g}))
      BY <1>1 DEF AddGroup
    <2>2. /\ GoodMap(r.map, r.obj) /\ h \notin r.map /\ h \notin outputMap
          /\ r.map \subseteq outputMap
          /\ \A k \in r.map : r.obj[k].members = obj[k].members \ {g}
          /\ \A k \in outputMap \ r.map : obj[k].members \subseteq {g}
      BY <1>1, RemoveMappingGood DEF AddGroup, IInv
    <2> DEFINE n == NewObject(FALSE, {g})
    <2>3. /\ n \in Object /\ n.members = {g} /\ n.attached = "none"
          /\ n.buffer = "live"
      BY NewObjectFields
    <2>4. /\ outputMap' = MapWith(r.map, r.obj, h)
          /\ obj' = ObjWith(r.obj, h, n)
      BY <2>1 DEF Insert, MapWith, ObjWith
    <2> HIDE DEF n
    <2>5. ReadyToInsert(r.map, r.obj, h, n)
      BY <2>2, <2>3 DEF ReadyToInsert
    <2>6. ASSUME NEW x \in Groups
          PROVE  DriverOf(outputMap', obj', x)
                   = IF x \in {g} THEN h ELSE DriverOf(outputMap, obj, x)
      <3> DEFINE ids == {g}
      <3>0. /\ \A k \in r.map : r.obj[k].members = obj[k].members \ ids
            /\ \A k \in outputMap \ r.map : obj[k].members \subseteq ids
        BY <2>2
      <3> HIDE DEF ids
      <3>1. DriverOf(r.map, r.obj, x)
              = IF x \in ids THEN NoHandle ELSE DriverOf(outputMap, obj, x)
        BY <2>2, <3>0, DriversAfterRemove DEF IInv
      <3>2. DriverOf(outputMap', obj', x)
              = IF x \in n.members THEN h ELSE DriverOf(r.map, r.obj, x)
        BY <2>4, <2>5, DriversAfterInsert
      <3> QED
        BY <2>3, <3>1, <3>2 DEF ids
    <2>7. \A x \in Groups : DriverOf(outputMap, obj, x) # h
      BY <2>2, UnmappedDrivesNothing
    <2> QED
      BY <2>6, <2>7 DEF Drivers!Assign, driver
  <1>2. ASSUME NEW h \in Handles, NEW ids \in SUBSET Groups, AddUbergroup(h, ids)
        PROVE  Drivers!Assign(h, ids)
    <2> DEFINE r == RemoveMappingsInUbergroup(outputMap, obj, ids)
               n == NewObject(TRUE, ids)
    <2>1. /\ GoodMap(r.map, r.obj) /\ h \notin r.map /\ h \notin outputMap
          /\ ids # {}
          /\ r.map \subseteq outputMap
          /\ \A k \in r.map : r.obj[k].members = obj[k].members \ ids
          /\ \A k \in outputMap \ r.map : obj[k].members \subseteq ids
      BY <1>2, RemoveUberGood DEF AddUbergroup, IInv
    <2>2. /\ n \in Object /\ n.uber /\ n.members = ids /\ n.attached = "none"
          /\ n.buffer = "live"
      BY <2>1, NewObjectFields
    <2>3. /\ outputMap' = MapWith(r.map, r.obj, h)
          /\ obj' = ObjWith(r.obj, h, n)
      BY <1>2 DEF AddUbergroup, Insert, MapWith, ObjWith
    <2> HIDE DEF r, n
    <2>4. ReadyToInsert(r.map, r.obj, h, n)
      BY <2>1, <2>2 DEF ReadyToInsert
    <2>5. ASSUME NEW x \in Groups
          PROVE  DriverOf(outputMap', obj', x)
                   = IF x \in ids THEN h ELSE DriverOf(outputMap, obj, x)
      <3>1. DriverOf(r.map, r.obj, x)
              = IF x \in ids THEN NoHandle ELSE DriverOf(outputMap, obj, x)
        BY <2>1, DriversAfterRemove DEF IInv
      <3>2. DriverOf(outputMap', obj', x)
              = IF x \in n.members THEN h ELSE DriverOf(r.map, r.obj, x)
        BY <2>3, <2>4, DriversAfterInsert
      <3> QED
        BY <2>2, <3>1, <3>2
    <2>6. \A x \in Groups : DriverOf(outputMap, obj, x) # h
      BY <2>1, UnmappedDrivesNothing
    <2> QED
      BY <2>5, <2>6 DEF Drivers!Assign, driver
  <1>3. ASSUME NEW g \in Groups, RemoveGroup(g)
        PROVE  Drivers!Release(g)
    <2>1. PICK r \in RemoveMappingForGroup(outputMap, obj, g) :
            outputMap' = r.map /\ obj' = r.obj
      BY <1>3 DEF RemoveGroup
    <2>2. /\ GoodMap(r.map, r.obj) /\ r.map \subseteq outputMap
          /\ \A k \in r.map : r.obj[k].members = obj[k].members \ {g}
          /\ \A k \in outputMap \ r.map : obj[k].members \subseteq {g}
      BY RemoveMappingGood DEF IInv
    <2>3. ASSUME NEW x \in Groups
          PROVE  DriverOf(outputMap', obj', x)
                   = IF x \in {g} THEN NoHandle ELSE DriverOf(outputMap, obj, x)
      <3> DEFINE ids == {g}
      <3>1. /\ \A k \in r.map : r.obj[k].members = obj[k].members \ ids
            /\ \A k \in outputMap \ r.map : obj[k].members \subseteq ids
        BY <2>2
      <3> HIDE DEF ids
      <3>2. DriverOf(r.map, r.obj, x)
              = IF x \in ids THEN NoHandle ELSE DriverOf(outputMap, obj, x)
        BY <2>2, <3>1, DriversAfterRemove DEF IInv
      <3> QED
        BY <2>1, <3>2 DEF ids
    <2> QED
      BY <2>3 DEF Drivers!Release, driver
  <1>4. ASSUME RunEffects
        PROVE  UNCHANGED driver
    <2>1. outputMap' = outputMap
      BY <1>4 DEF RunEffects
    <2>2. ASSUME NEW h \in outputMap
          PROVE  obj'[h].members = obj[h].members
      <3>1. h \in Handles /\ obj[h] \in Object
        BY DEF IInv, GoodMap
      <3> QED
        BY <1>4, <3>1, BindFields DEF RunEffects
    <2>3. ASSUME NEW x \in Groups
          PROVE  DriverOf(outputMap', obj', x) = DriverOf(outputMap, obj, x)
      <3>1. GoodMap(outputMap, obj) /\ GoodMap(outputMap', obj')
        BY DEF IInv
      <3> DEFINE ids == {}
      <3>2. /\ outputMap' \subseteq outputMap /\ x \notin ids
            /\ \A h \in outputMap' : obj'[h].members = obj[h].members \ ids
            /\ \A h \in outputMap \ outputMap' : obj[h].members \subseteq ids
        BY <2>1, <2>2
      <3> HIDE DEF ids
      <3>3. DriverOf(outputMap', obj', x)
              = IF x \in ids THEN NoHandle ELSE DriverOf(outputMap, obj, x)
        BY <3>1, <3>2, DriversAfterRemove
      <3> QED
        BY <3>2, <3>3
    <2> QED
      BY <2>3 DEF driver
  <1>5. CASE UNCHANGED vars
    BY <1>5 DEF vars, driver
  <1> QED
    BY <1>1, <1>2, <1>3, <1>4, <1>5 DEF Next, Drivers!Next

\* The mapper implements GroupDrivers for any datastore: the last request that
\* names a group decides what drives it, and no other group is affected.
THEOREM MapperImplementsDrivers == Spec => ImplementsDrivers
  <1>1. Init => Drivers!Init
    BY DEF Init, Drivers!Init, driver, DriverOf
  <1> QED
    BY <1>1, StepImplementsDrivers, MapperInvariant, IInvSplits, PTL
       DEF Spec, ImplementsDrivers, Drivers!Spec
===========================================================================
