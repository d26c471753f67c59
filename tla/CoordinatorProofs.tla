------------------------- MODULE CoordinatorProofs -------------------------
(***************************************************************************)
(* Proofs about the coordinator and the threads around it, for any number  *)
(* of client threads, groups and objects: what client threads do to the    *)
(* map it walks over (MapperThreads), and that what it uses outlives it    *)
(* (Lifecycle, at the end).                                                *)
(*                                                                         *)
(* A thread's todo is what is left of one of three programs.  Of them the  *)
(* proofs use only this: they begin with a guard, each removes once, and   *)
(* insert, if it is there, is the last step, out of reach of the return    *)
(* that erase may make past the next two steps.                            *)
(***************************************************************************)
EXTENDS MapperThreads, Lifecycle, Integers, SequenceTheorems, TLAPS

Steps == {"guard", "erase", "leave", "evict", "unmap", "sweep", "insert"}

\* The two loops of a removal: what the second one has finished is removed.
Begins == {"erase", "evict"}
Removals == {"leave", "unmap"}

Has(s, steps) == \E i \in 1..Len(s) : s[i] \in steps
WillInsert(s) == Has(s, {"insert"})
WillErase(s) == Has(s, {"erase", "leave"})
WillRemove(s) == Has(s, Removals)

\* The first loop of a removal is over, and the second one, step, is not.
Between(s, step) == Has(s, {step}) /\ ~Has(s, Begins)

IsProgram(s) ==
  /\ s \in Seq(Steps)
  /\ \A i \in 1..Len(s) : s[i] = "insert" => i = Len(s)
  /\ \A i, j \in 1..Len(s) : s[i] \in Removals /\ s[j] \in Removals => i = j
  /\ \A i, j \in 1..Len(s) : s[i] \in Begins /\ s[j] \in Removals =>
       j = i + 1 /\ (s[i] = "evict" <=> s[j] = "unmap")
  /\ \A i, j \in 1..Len(s) : s[i] \in {"erase", "leave"} /\ s[j] = "insert" => i + 3 <= j

---------------------------------------------------------------------------
(***************************************************************************)
(* The programs and what is left of them.                                  *)
(***************************************************************************)
LEMMA RemoveProgramShape ==
  /\ RemoveProgram \in Seq(Steps) /\ Len(RemoveProgram) = 5
  /\ RemoveProgram[1] = "guard" /\ RemoveProgram[2] = "erase"
  /\ RemoveProgram[3] = "leave" /\ RemoveProgram[4] = "guard"
  /\ RemoveProgram[5] = "sweep"
<1>1. RemoveProgram \in Seq(Steps)
  BY DEF RemoveProgram, Steps
<1> QED
  BY <1>1 DEF RemoveProgram

LEMMA AddGroupProgramShape ==
  /\ AddGroupProgram \in Seq(Steps) /\ Len(AddGroupProgram) = 8
  /\ AddGroupProgram[1] = "guard" /\ AddGroupProgram[2] = "erase"
  /\ AddGroupProgram[3] = "leave" /\ AddGroupProgram[4] = "guard"
  /\ AddGroupProgram[5] = "sweep" /\ AddGroupProgram[6] = "guard"
  /\ AddGroupProgram[7] = "sweep" /\ AddGroupProgram[8] = "insert"
<1> DEFINE end == <<"guard", "sweep", "insert">>
<1>1. end \in Seq(Steps)
  BY DEF Steps
<1>2. Len(end) = 3 /\ end[1] = "guard" /\ end[2] = "sweep" /\ end[3] = "insert"
  OBVIOUS
<1>3. AddGroupProgram = RemoveProgram \o end
  BY DEF AddGroupProgram
<1> HIDE DEF end
<1>4. /\ AddGroupProgram \in Seq(Steps)
      /\ Len(AddGroupProgram) = Len(RemoveProgram) + Len(end)
      /\ \A i \in 1..(Len(RemoveProgram) + Len(end)) :
           AddGroupProgram[i] = IF i <= Len(RemoveProgram) THEN RemoveProgram[i]
                                ELSE end[i - Len(RemoveProgram)]
  BY <1>1, <1>3, RemoveProgramShape, ConcatProperties, Zenon
<1> QED
  BY <1>2, <1>4, RemoveProgramShape

LEMMA AddUbergroupProgramShape ==
  /\ AddUbergroupProgram \in Seq(Steps) /\ Len(AddUbergroupProgram) = 6
  /\ AddUbergroupProgram[1] = "guard" /\ AddUbergroupProgram[2] = "evict"
  /\ AddUbergroupProgram[3] = "unmap" /\ AddUbergroupProgram[4] = "guard"
  /\ AddUbergroupProgram[5] = "sweep" /\ AddUbergroupProgram[6] = "insert"
<1>1. AddUbergroupProgram \in Seq(Steps)
  BY DEF AddUbergroupProgram, Steps
<1> QED
  BY <1>1 DEF AddUbergroupProgram

LEMMA HeadIsFirst ==
  ASSUME NEW s \in Seq(Steps), Len(s) > 0
  PROVE  s # <<>> /\ Head(s) = s[1]
OBVIOUS

\* The three calls as the proofs know them.
LEMMA ProgramsArePrograms ==
  /\ \A p \in {RemoveProgram, AddGroupProgram, AddUbergroupProgram} :
       IsProgram(p) /\ WillRemove(p) /\ Has(p, Begins) /\ p # <<>> /\ Head(p) = "guard"
  /\ ~WillInsert(RemoveProgram) /\ ~WillErase(AddUbergroupProgram)
  /\ WillInsert(AddGroupProgram) /\ WillInsert(AddUbergroupProgram)
<1>1. /\ IsProgram(RemoveProgram) /\ WillRemove(RemoveProgram) /\ Has(RemoveProgram, Begins)
      /\ RemoveProgram # <<>> /\ Head(RemoveProgram) = "guard"
      /\ ~WillInsert(RemoveProgram)
  <2>1. \A i \in 1..5 :
          /\ RemoveProgram[i] # "insert"
          /\ RemoveProgram[i] \in Removals <=> i = 3
          /\ RemoveProgram[i] \in Begins <=> i = 2
    BY RemoveProgramShape DEF Removals, Begins
  <2>2. RemoveProgram \in Seq(Steps) /\ Len(RemoveProgram) = 5
    BY RemoveProgramShape
  <2>3. RemoveProgram # <<>> /\ Head(RemoveProgram) = "guard"
    BY <2>2, RemoveProgramShape, HeadIsFirst
  <2>4. IsProgram(RemoveProgram)
    BY <2>1, <2>2, RemoveProgramShape DEF IsProgram
  <2>5. WillRemove(RemoveProgram) /\ Has(RemoveProgram, Begins) /\ ~WillInsert(RemoveProgram)
    BY <2>1, <2>2 DEF WillRemove, WillInsert, Has
  <2> QED
    BY <2>3, <2>4, <2>5
<1>2. /\ IsProgram(AddGroupProgram) /\ WillRemove(AddGroupProgram) /\ Has(AddGroupProgram, Begins)
      /\ AddGroupProgram # <<>> /\ Head(AddGroupProgram) = "guard"
      /\ WillInsert(AddGroupProgram)
  <2>1. \A i \in 1..8 :
          /\ AddGroupProgram[i] = "insert" <=> i = 8
          /\ AddGroupProgram[i] \in Removals <=> i = 3
          /\ AddGroupProgram[i] \in Begins <=> i = 2
          /\ AddGroupProgram[i] \in {"erase", "leave"} => i <= 3
    BY AddGroupProgramShape DEF Removals, Begins
  <2>2. AddGroupProgram \in Seq(Steps) /\ Len(AddGroupProgram) = 8
    BY AddGroupProgramShape
  <2>3. AddGroupProgram # <<>> /\ Head(AddGroupProgram) = "guard"
    BY <2>2, AddGroupProgramShape, HeadIsFirst
  <2>4. IsProgram(AddGroupProgram)
    BY <2>1, <2>2, AddGroupProgramShape DEF IsProgram
  <2>5. WillRemove(AddGroupProgram) /\ Has(AddGroupProgram, Begins) /\ WillInsert(AddGroupProgram)
    BY <2>1, <2>2 DEF WillRemove, WillInsert, Has
  <2> QED
    BY <2>3, <2>4, <2>5
<1>3. /\ IsProgram(AddUbergroupProgram) /\ WillRemove(AddUbergroupProgram)
      /\ Has(AddUbergroupProgram, Begins)
      /\ AddUbergroupProgram # <<>> /\ Head(AddUbergroupProgram) = "guard"
      /\ ~WillErase(AddUbergroupProgram) /\ WillInsert(AddUbergroupProgram)
  <2>1. \A i \in 1..6 :
          /\ AddUbergroupProgram[i] = "insert" <=> i = 6
          /\ AddUbergroupProgram[i] \in Removals <=> i = 3
          /\ AddUbergroupProgram[i] \in Begins <=> i = 2
          /\ AddUbergroupProgram[i] \notin {"erase", "leave"}
    BY AddUbergroupProgramShape DEF Removals, Begins
  <2>2. AddUbergroupProgram \in Seq(Steps) /\ Len(AddUbergroupProgram) = 6
    BY AddUbergroupProgramShape
  <2>3. AddUbergroupProgram # <<>> /\ Head(AddUbergroupProgram) = "guard"
    BY <2>2, AddUbergroupProgramShape, HeadIsFirst
  <2>4. IsProgram(AddUbergroupProgram)
    BY <2>1, <2>2, AddUbergroupProgramShape DEF IsProgram
  <2>5. /\ WillRemove(AddUbergroupProgram) /\ Has(AddUbergroupProgram, Begins)
        /\ ~WillErase(AddUbergroupProgram) /\ WillInsert(AddUbergroupProgram)
    BY <2>1, <2>2 DEF WillRemove, WillErase, WillInsert, Has
  <2> QED
    BY <2>3, <2>4, <2>5
<1> QED
  BY <1>1, <1>2, <1>3

\* What is left of s after its first k steps.
IsRest(r, s, k) ==
  /\ r \in Seq(Steps)
  /\ Len(r) = IF k <= Len(s) THEN Len(s) - k ELSE 0
  /\ \A i \in 1..Len(r) : r[i] = s[i + k]

LEMMA SubSeqIsRest ==
  ASSUME NEW s \in Seq(Steps), NEW k \in Nat
  PROVE  IsRest(SubSeq(s, k + 1, Len(s)), s, k)
<1> DEFINE r == SubSeq(s, k + 1, Len(s))
<1>1. /\ Len(s) \in Nat /\ k + 1 \in Nat \ {0}
      /\ \A i \in (k + 1)..Len(s) : s[i] \in Steps
  OBVIOUS
<1>2. /\ r \in Seq(Steps)
      /\ Len(r) = IF k + 1 <= Len(s) THEN Len(s) - (k + 1) + 1 ELSE 0
      /\ \A i \in 1..(Len(s) - (k + 1) + 1) : r[i] = s[(k + 1) + i - 1]
  BY <1>1, SubSeqProperties
<1> HIDE DEF r
<1>3. Len(r) = IF k <= Len(s) THEN Len(s) - k ELSE 0
  BY <1>1, <1>2
<1>4. \A i \in 1..Len(r) : r[i] = s[i + k]
  BY <1>1, <1>2
<1> QED
  BY <1>2, <1>3, <1>4 DEF IsRest, r

LEMMA RestIsProgram ==
  ASSUME NEW s, IsProgram(s), NEW k \in Nat \ {0}, NEW r, IsRest(r, s, k)
  PROVE  /\ IsProgram(r)
         /\ WillInsert(r) => WillInsert(s)
         /\ r # <<>> /\ WillInsert(s) => WillInsert(r)
         /\ WillErase(r) => WillErase(s)
         /\ s # <<>> /\ s[1] \in Removals => ~WillRemove(r)
         /\ s # <<>> /\ s[1] \in Begins /\ k >= 2 => ~WillRemove(r)
         /\ s[1] = "insert" => r = <<>>
<1>1. /\ Len(s) \in Nat /\ Len(r) \in Nat
      /\ \A i \in 1..Len(r) : i + k \in 1..Len(s) /\ r[i] = s[i + k]
  BY DEF IsRest, IsProgram
<1>2. \A i \in 1..Len(r) : i + k = Len(s) <=> i = Len(r)
  BY <1>1 DEF IsRest
<1>3. IsProgram(r)
  <2>1. \A i \in 1..Len(r) : r[i] = "insert" => i = Len(r)
    BY <1>1, <1>2 DEF IsProgram
  <2>2. \A i, j \in 1..Len(r) : r[i] \in Removals /\ r[j] \in Removals => i = j
    <3> SUFFICES ASSUME NEW i \in 1..Len(r), NEW j \in 1..Len(r), r[i] \in Removals, r[j] \in Removals
                 PROVE  i = j
      OBVIOUS
    <3>1. i + k = j + k
      BY <1>1 DEF IsProgram
    <3> QED
      BY <1>1, <3>1
  <2>3. \A i, j \in 1..Len(r) : r[i] \in {"erase", "leave"} /\ r[j] = "insert" => i + 3 <= j
    <3> SUFFICES ASSUME NEW i \in 1..Len(r), NEW j \in 1..Len(r),
                        r[i] \in {"erase", "leave"}, r[j] = "insert"
                 PROVE  i + 3 <= j
      OBVIOUS
    <3>1. /\ i + k \in 1..Len(s) /\ j + k \in 1..Len(s)
          /\ s[i + k] \in {"erase", "leave"} /\ s[j + k] = "insert"
      BY <1>1
    <3>2. (i + k) + 3 <= j + k
      BY <3>1 DEF IsProgram
    <3> QED
      BY <1>1, <3>2
  <2>4. \A i, j \in 1..Len(r) : r[i] \in Begins /\ r[j] \in Removals =>
          j = i + 1 /\ (r[i] = "evict" <=> r[j] = "unmap")
    <3> SUFFICES ASSUME NEW i \in 1..Len(r), NEW j \in 1..Len(r), r[i] \in Begins, r[j] \in Removals
                 PROVE  j = i + 1 /\ (r[i] = "evict" <=> r[j] = "unmap")
      OBVIOUS
    <3>1. j + k = (i + k) + 1 /\ (s[i + k] = "evict" <=> s[j + k] = "unmap")
      BY <1>1 DEF IsProgram
    <3> QED
      BY <1>1, <3>1
  <2> QED
    BY <2>1, <2>2, <2>3, <2>4 DEF IsProgram, IsRest
<1>4. (WillInsert(r) => WillInsert(s)) /\ (WillErase(r) => WillErase(s))
  BY <1>1 DEF WillInsert, WillErase, Has
<1>5. r # <<>> /\ WillInsert(s) => WillInsert(r)
  <2> SUFFICES ASSUME r # <<>>, WillInsert(s) PROVE WillInsert(r)
    OBVIOUS
  <2>1. Len(s) >= 1 /\ s[Len(s)] = "insert"
    BY <1>1 DEF WillInsert, Has, IsProgram
  <2>2. Len(r) \in 1..Len(r)
    BY <1>1 DEF IsRest
  <2>3. r[Len(r)] = s[Len(s)]
    BY <1>1, <1>2, <2>2
  <2> QED
    BY <2>1, <2>2, <2>3 DEF WillInsert, Has
<1>6. s # <<>> /\ s[1] \in Removals => ~WillRemove(r)
  BY <1>1 DEF IsProgram, WillRemove, Has
<1>7. s # <<>> /\ s[1] \in Begins /\ k >= 2 => ~WillRemove(r)
  BY <1>1 DEF IsProgram, WillRemove, Has
<1>8. s[1] = "insert" => r = <<>>
  <2>1. s[1] = "insert" => Len(s) <= 1
    BY <1>1 DEF IsProgram
  <2>2. s[1] = "insert" => Len(r) = 0
    BY <1>1, <2>1 DEF IsRest
  <2> QED
    BY <2>2 DEF IsRest
<1> QED
  BY <1>3, <1>4, <1>5, <1>6, <1>7, <1>8

\* What comes behind a step of another kind.
LEMMA RestHasTheOthers ==
  ASSUME NEW s, IsProgram(s), NEW r, IsRest(r, s, 1), NEW steps,
         s # <<>>, s[1] \notin steps
  PROVE  Has(r, steps) <=> Has(s, steps)
<1>1. /\ Len(s) \in Nat /\ Len(r) \in Nat
      /\ \A i \in 1..Len(r) : i + 1 \in 1..Len(s) /\ r[i] = s[i + 1]
  BY DEF IsRest, IsProgram
<1>2. ASSUME Has(s, steps)
      PROVE  Has(r, steps)
  <2>1. PICK i \in 1..Len(s) : s[i] \in steps
    BY <1>2 DEF Has
  <2>2. i - 1 \in 1..Len(r) /\ i = (i - 1) + 1
    BY <1>1, <2>1 DEF IsRest
  <2>3. r[i - 1] = s[i]
    BY <1>1, <2>2
  <2> QED
    BY <2>1, <2>2, <2>3 DEF Has
<1>3. ASSUME Has(r, steps)
      PROVE  Has(s, steps)
  BY <1>1, <1>3 DEF Has
<1> QED
  BY <1>2, <1>3

---------------------------------------------------------------------------
(***************************************************************************)
(* The objects of the map.                                                 *)
(***************************************************************************)
LEMMA ResizeBufferMembers ==
  ASSUME NEW o \in Mapper!Object
  PROVE  LET n == Mapper!ResizeBuffer(o) IN
         n \in Mapper!Object /\ n.members = o.members /\ n.uber = o.uber
<1> DEFINE a == IF o.attached = "live" THEN "freed" ELSE o.attached
           b == IF o.members = {} THEN "null" ELSE "live"
           c == o.changed \/ o.members # {}
           o1 == [o EXCEPT !.attached = a]
           o2 == [o1 EXCEPT !.buffer = b]
           n == [o2 EXCEPT !.changed = c]
<1>1. o1 \in Mapper!Object /\ o1.members = o.members /\ o1.uber = o.uber /\ o1.changed = o.changed
  BY DEF Mapper!Object, Mapper!Attachment, Mapper!Buffer
<1> HIDE DEF o1
<1>2. o2 \in Mapper!Object /\ o2.members = o1.members /\ o2.uber = o1.uber /\ o2.changed = o1.changed
  BY <1>1 DEF Mapper!Object, Mapper!Buffer
<1> HIDE DEF o2
<1>3. n \in Mapper!Object /\ n.members = o2.members /\ n.uber = o2.uber
  BY <1>2 DEF Mapper!Object
<1>4. Mapper!ResizeBuffer(o) = n
  BY <1>1, <1>2, Zenon DEF Mapper!ResizeBuffer, o1, o2
<1> HIDE DEF n
<1> QED
  BY <1>1, <1>2, <1>3, <1>4

LEMMA NewObjectMembers ==
  ASSUME NEW u \in BOOLEAN, NEW ids \in SUBSET Groups
  PROVE  /\ Mapper!NewObject(u, ids) \in Mapper!Object
         /\ Mapper!NewObject(u, ids).members = ids /\ Mapper!NewObject(u, ids).uber = u
<1> DEFINE o == [uber |-> u, members |-> ids, buffer |-> "null",
                 changed |-> FALSE, attached |-> "none"]
<1>1. o \in Mapper!Object
  BY DEF Mapper!Object, Mapper!Buffer, Mapper!Attachment
<1>2. o.members = ids
  OBVIOUS
<1>3. o.uber = u
  BY Zenon
<1>4. Mapper!NewObject(u, ids) = Mapper!ResizeBuffer(o)
  BY DEF Mapper!NewObject
<1> HIDE DEF o
<1> QED
  BY <1>1, <1>2, <1>3, <1>4, ResizeBufferMembers

LEMMA RemoveMembersMembers ==
  ASSUME NEW o \in Mapper!Object, NEW ids \in SUBSET Groups
  PROVE  /\ Mapper!RemoveMembers(o, ids) \in Mapper!Object
         /\ Mapper!RemoveMembers(o, ids).members = o.members \ ids
         /\ Mapper!RemoveMembers(o, ids).uber = o.uber
<1> DEFINE p == [o EXCEPT !.members = @ \ ids]
<1>1. p \in Mapper!Object /\ p.members = o.members \ ids /\ p.uber = o.uber
  BY DEF Mapper!Object
<1>2. Mapper!RemoveMembers(o, ids) = Mapper!ResizeBuffer(p)
  BY DEF Mapper!RemoveMembers
<1> HIDE DEF p
<1> QED
  BY <1>1, <1>2, ResizeBufferMembers

LEMMA BindBufferMembers ==
  ASSUME NEW o \in Mapper!Object
  PROVE  /\ Mapper!BindBufferToRoutine(o) \in Mapper!Object
         /\ Mapper!BindBufferToRoutine(o).members = o.members
         /\ Mapper!BindBufferToRoutine(o).uber = o.uber
BY DEF Mapper!BindBufferToRoutine, Mapper!Object, Mapper!Buffer, Mapper!Attachment

---------------------------------------------------------------------------
(***************************************************************************)
(* The inductive invariant.                                                *)
(***************************************************************************)
Requests == [h : Handles \cup {NoHandle}, ids : SUBSET Groups]

MapTyped == outputMap \subseteq Handles /\ obj \in [Handles -> Mapper!Object]

\* What a thread has still to do fits the arguments of its call.
CallsTyped ==
  /\ todo \in [Clients -> Seq(Steps)] /\ request \in [Clients -> Requests]
  /\ \A t \in Clients :
       /\ IsProgram(todo[t])
       /\ WillErase(todo[t]) => \E g \in Groups : request[t].ids = {g}
       /\ WillInsert(todo[t]) => request[t].h \in Handles

\* Two calls that are under way share only contested groups.
SharedIsContested ==
  \A t, u \in Clients : t # u => request[t].ids \cap request[u].ids \subseteq contested

\* A call that has removed its groups finds them gone until it inserts its key
\* or returns, those that are not contested: nobody else puts them back.
RemovedStaysRemoved ==
  \A t \in Clients : \A g \in request[t].ids \ contested :
    ~WillRemove(todo[t]) => \A h \in outputMap : g \notin obj[h].members

\* Of the groups of a call that is between the two loops of its removal, those
\* that are not contested, the first loop has left none behind.
HalfStaysRemoved ==
  \A t \in Clients : \A g \in request[t].ids \ contested, h \in outputMap :
    /\ Between(todo[t], "leave") => (~obj[h].uber => g \notin obj[h].members)
    /\ Between(todo[t], "unmap") => (obj[h].uber => g \notin obj[h].members)

\* A call that is to insert a key has one of its own; one that is not has none.
KeysAreOwn ==
  \A t \in Clients :
    /\ WillInsert(todo[t]) =>
         /\ request[t].h \notin outputMap
         /\ \A u \in Clients \ {t} : WillInsert(todo[u]) => request[u].h # request[t].h
    /\ todo[t] # <<>> /\ ~WillInsert(todo[t]) => request[t].h = NoHandle

\* A plain key drives one group: erasing it takes nothing from another.
PlainHasOneMember ==
  \A h \in outputMap : ~obj[h].uber => \A g1, g2 \in obj[h].members : g1 = g2

MapInvariant ==
  /\ MapTyped /\ CallsTyped
  /\ SharedIsContested /\ RemovedStaysRemoved /\ HalfStaysRemoved /\ UncontestedIsExclusive
  /\ KeysAreOwn /\ PlainHasOneMember

LEMMA MapInit == Init => MapInvariant
<1> SUFFICES ASSUME Init PROVE MapInvariant
  OBVIOUS
<1>1. outputMap = {} /\ obj = [h \in Handles |-> Mapper!NewObject(FALSE, {})]
  BY DEF Init, Mapper!Init
<1>2. MapTyped
  BY <1>1, NewObjectMembers DEF MapTyped
<1>3. \A t \in Clients : todo[t] = <<>> /\ request[t].ids = {}
  BY DEF Init, NoRequest
<1>4. CallsTyped
  <2>1. NoRequest \in Requests
    BY DEF NoRequest, Requests
  <2>2. todo \in [Clients -> Seq(Steps)] /\ request \in [Clients -> Requests]
    BY <2>1 DEF Init
  <2>3. IsProgram(<<>>) /\ ~WillErase(<<>>) /\ ~WillInsert(<<>>)
    BY DEF IsProgram, WillErase, WillInsert, Has
  <2> QED
    BY <1>3, <2>2, <2>3 DEF CallsTyped
<1>5. SharedIsContested /\ RemovedStaysRemoved /\ HalfStaysRemoved
  BY <1>3 DEF SharedIsContested, RemovedStaysRemoved, HalfStaysRemoved
<1>6. UncontestedIsExclusive /\ PlainHasOneMember
  BY <1>1 DEF UncontestedIsExclusive, PlainHasOneMember
<1>7. KeysAreOwn
  <2>1. ~WillInsert(<<>>)
    BY DEF WillInsert, Has
  <2> QED
    BY <1>3, <2>1 DEF KeysAreOwn
<1> QED
  BY <1>2, <1>4, <1>5, <1>6, <1>7 DEF MapInvariant

\* A call begins: what it shares with another becomes contested.
LEMMA CallPreserves ==
  ASSUME MapInvariant, NEW t \in Clients,
         NEW program \in {RemoveProgram, AddGroupProgram, AddUbergroupProgram},
         NEW h \in Handles \cup {NoHandle}, NEW ids \in SUBSET Groups,
         WillErase(program) => \E g \in Groups : ids = {g},
         WillInsert(program) => h \in Handles /\ Fresh(h),
         ~WillInsert(program) => h = NoHandle,
         Call(t, program, h, ids)
  PROVE  MapInvariant' /\ ServesCalls
<1>1. /\ todo' = [todo EXCEPT ![t] = program]
      /\ request' = [request EXCEPT ![t] = [h |-> h, ids |-> ids]]
      /\ contested' = contested \cup (ids \cap UNION {request[u].ids : u \in Clients})
      /\ UNCHANGED <<outputMap, obj>>
  BY DEF Call
<1>2. IsProgram(program) /\ WillRemove(program) /\ Has(program, Begins) /\ program \in Seq(Steps)
  BY ProgramsArePrograms DEF IsProgram
<1>3. [h |-> h, ids |-> ids] \in Requests
  BY DEF Requests
<1>4. /\ todo'[t] = program /\ request'[t].ids = ids /\ request'[t].h = h
      /\ \A u \in Clients \ {t} : todo'[u] = todo[u] /\ request'[u] = request[u]
  BY <1>1 DEF MapInvariant, CallsTyped
<1>5. MapTyped'
  BY <1>1 DEF MapInvariant, MapTyped
<1>6. CallsTyped'
  <2>1. todo' \in [Clients -> Seq(Steps)] /\ request' \in [Clients -> Requests]
    BY <1>1, <1>2, <1>3 DEF MapInvariant, CallsTyped
  <2>2. ASSUME NEW u \in Clients
        PROVE  /\ IsProgram(todo'[u])
               /\ WillErase(todo'[u]) => \E g \in Groups : request'[u].ids = {g}
               /\ WillInsert(todo'[u]) => request'[u].h \in Handles
    <3>1. CASE u = t
      BY <1>2, <1>4, <3>1
    <3>2. CASE u # t
      BY <1>4, <3>2 DEF MapInvariant, CallsTyped
    <3> QED
      BY <3>1, <3>2
  <2> QED
    BY <2>1, <2>2 DEF CallsTyped
<1>7. SharedIsContested'
  <2> SUFFICES ASSUME NEW u \in Clients, NEW v \in Clients, u # v,
                      NEW g \in request'[u].ids \cap request'[v].ids
               PROVE  g \in contested'
    BY DEF SharedIsContested
  <2>1. CASE u # t /\ v # t
    BY <1>1, <1>4, <2>1 DEF MapInvariant, SharedIsContested
  <2>2. CASE u = t
    <3>1. g \in ids /\ g \in request[v].ids
      BY <1>4, <2>2
    <3> QED
      BY <1>1, <3>1
  <2>3. CASE v = t
    <3>1. g \in ids /\ g \in request[u].ids
      BY <1>4, <2>3
    <3> QED
      BY <1>1, <3>1
  <2> QED
    BY <2>1, <2>2, <2>3
<1>8. RemovedStaysRemoved'
  <2> SUFFICES ASSUME NEW u \in Clients, NEW g \in request'[u].ids \ contested',
                      ~WillRemove(todo'[u]), NEW k \in outputMap
               PROVE  g \notin obj[k].members
    BY <1>1 DEF RemovedStaysRemoved
  <2>1. u # t
    BY <1>2, <1>4
  <2> QED
    BY <1>1, <1>4, <2>1 DEF MapInvariant, RemovedStaysRemoved
<1>9. HalfStaysRemoved'
  <2> SUFFICES ASSUME NEW u \in Clients, NEW g \in request'[u].ids \ contested', NEW k \in outputMap
               PROVE  /\ Between(todo'[u], "leave") => (~obj[k].uber => g \notin obj[k].members)
                      /\ Between(todo'[u], "unmap") => (obj[k].uber => g \notin obj[k].members)
    BY <1>1 DEF HalfStaysRemoved
  <2>1. CASE u = t
    BY <1>2, <1>4, <2>1 DEF Between
  <2>2. CASE u # t
    <3>1. todo'[u] = todo[u] /\ g \in request[u].ids \ contested
      BY <1>1, <1>4, <2>2
    <3> QED
      BY <3>1 DEF MapInvariant, HalfStaysRemoved
  <2> QED
    BY <2>1, <2>2
<1>10. UncontestedIsExclusive' /\ PlainHasOneMember'
  BY <1>1 DEF MapInvariant, UncontestedIsExclusive, PlainHasOneMember
<1>11. KeysAreOwn'
  <2> SUFFICES ASSUME NEW u \in Clients
               PROVE  /\ WillInsert(todo'[u]) =>
                           /\ request'[u].h \notin outputMap
                           /\ \A v \in Clients \ {u} :
                                WillInsert(todo'[v]) => request'[v].h # request'[u].h
                      /\ todo'[u] # <<>> /\ ~WillInsert(todo'[u]) => request'[u].h = NoHandle
    BY <1>1 DEF KeysAreOwn
  <2>1. WillInsert(program) => h \notin outputMap /\ \A v \in Clients : request[v].h # h
    BY DEF Fresh
  <2>2. CASE u = t
    BY <1>4, <2>1, <2>2
  <2>3. CASE u # t
    BY <1>4, <2>1, <2>3 DEF MapInvariant, KeysAreOwn
  <2> QED
    BY <2>2, <2>3
<1>12. ServesCalls
  <2>1. todo[t] = <<>>
    BY DEF Call
  <2>2. \A g \in Groups : Drivers(g)' = Drivers(g)
    BY <1>1 DEF Drivers
  <2>3. \A u \in Clients : todo[u] # <<>> => todo'[u] # <<>>
    BY <1>4, <2>1
  <2> QED
    BY <2>2, <2>3 DEF ServesCalls
<1> QED
  BY <1>5, <1>6, <1>7, <1>8, <1>9, <1>10, <1>11, <1>12 DEF MapInvariant

\* What ContinueWith leaves of the calls.
LEMMA ContinuePreserves ==
  ASSUME MapInvariant, NEW t \in Clients, NEW k \in Nat \ {0}, NEW rest,
         IsRest(rest, todo[t], k), ContinueWith(t, rest)
  PROVE  /\ CallsTyped' /\ SharedIsContested'
         /\ contested' = contested
         /\ todo'[t] = rest /\ request'[t].ids \subseteq request[t].ids
         /\ \A u \in Clients \ {t} : todo'[u] = todo[u] /\ request'[u] = request[u]
         /\ \A u \in Clients : todo'[u] # <<>> =>
              /\ todo[u] # <<>> /\ request'[u] = request[u]
              /\ WillInsert(todo'[u]) <=> WillInsert(todo[u])
<1>1. /\ todo' = [todo EXCEPT ![t] = rest]
      /\ request' = IF rest = <<>> THEN [request EXCEPT ![t] = NoRequest] ELSE request
      /\ contested' = contested
  BY DEF ContinueWith
<1>2. todo \in [Clients -> Seq(Steps)] /\ request \in [Clients -> Requests]
  BY DEF MapInvariant, CallsTyped
<1>3. /\ IsProgram(rest)
      /\ WillInsert(rest) => WillInsert(todo[t])
      /\ WillErase(rest) => WillErase(todo[t])
  BY RestIsProgram DEF MapInvariant, CallsTyped
<1>4. NoRequest \in Requests /\ NoRequest.ids = {}
  BY DEF NoRequest, Requests
<1>5. todo'[t] = rest /\ \A u \in Clients \ {t} : todo'[u] = todo[u]
  BY <1>1, <1>2
<1>6. \A u \in Clients \ {t} : request'[u] = request[u]
  BY <1>1, <1>2
<1>7. /\ request' \in [Clients -> Requests]
      /\ rest = <<>> => request'[t].ids = {}
      /\ rest # <<>> => request'[t] = request[t]
  BY <1>1, <1>2, <1>4
<1>8. CallsTyped'
  <2>1. todo' \in [Clients -> Seq(Steps)]
    BY <1>1, <1>2, <1>3 DEF IsProgram
  <2>2. ASSUME NEW u \in Clients
        PROVE  /\ IsProgram(todo'[u])
               /\ WillErase(todo'[u]) => \E g \in Groups : request'[u].ids = {g}
               /\ WillInsert(todo'[u]) => request'[u].h \in Handles
    <3>1. CASE u # t
      BY <1>5, <1>6, <3>1 DEF MapInvariant, CallsTyped
    <3>2. CASE u = t /\ rest = <<>>
      <4>1. ~WillErase(<<>>) /\ ~WillInsert(<<>>)
        BY DEF WillErase, WillInsert, Has
      <4> QED
        BY <1>3, <1>5, <3>2, <4>1
    <3>3. CASE u = t /\ rest # <<>>
      BY <1>3, <1>5, <1>7, <3>3 DEF MapInvariant, CallsTyped
    <3> QED
      BY <3>1, <3>2, <3>3
  <2> QED
    BY <1>7, <2>1, <2>2 DEF CallsTyped
<1>9. request'[t].ids \subseteq request[t].ids
  BY <1>7
<1>10. SharedIsContested'
  <2>1. \A u \in Clients : request'[u].ids \subseteq request[u].ids
    BY <1>6, <1>9
  <2> QED
    BY <1>1, <2>1 DEF MapInvariant, SharedIsContested
<1>11. rest # <<>> => todo[t] # <<>> /\ (WillInsert(rest) <=> WillInsert(todo[t]))
  <2>1. rest # <<>> => (WillInsert(rest) <=> WillInsert(todo[t]))
    BY RestIsProgram DEF MapInvariant, CallsTyped
  <2>2. todo[t] = <<>> => Len(rest) = 0
    BY DEF IsRest
  <2> QED
    BY <2>1, <2>2 DEF IsRest
<1> QED
  BY <1>1, <1>5, <1>6, <1>7, <1>8, <1>9, <1>10, <1>11

\* A step of the thread t that only takes keys out of the map and members out
\* of objects, none but those its call names, and does not lose its insertion.
Shrinks(t, k, rest) ==
  /\ IsRest(rest, todo[t], k) /\ ContinueWith(t, rest)
  /\ WillInsert(todo[t]) => rest # <<>>
  /\ MapTyped' /\ outputMap' \subseteq outputMap
  /\ \A h \in outputMap' :
       /\ obj'[h].uber = obj[h].uber
       /\ obj'[h].members \subseteq obj[h].members
       /\ obj[h].members \subseteq obj'[h].members \cup request[t].ids
  /\ \A h \in outputMap \ outputMap' : obj[h].members \subseteq request[t].ids
  /\ \A g \in request[t].ids \ contested :
       /\ ~WillRemove(rest) => \A h \in outputMap' : g \notin obj'[h].members
       /\ Between(rest, "leave") => \A h \in outputMap' : ~obj'[h].uber => g \notin obj'[h].members
       /\ Between(rest, "unmap") => \A h \in outputMap' : obj'[h].uber => g \notin obj'[h].members

LEMMA ShrinkPreserves ==
  ASSUME MapInvariant, NEW t \in Clients, NEW k \in Nat \ {0}, NEW rest, Shrinks(t, k, rest)
  PROVE  MapInvariant' /\ ServesCalls
<1>1. /\ CallsTyped' /\ SharedIsContested' /\ contested' = contested
      /\ todo'[t] = rest /\ request'[t].ids \subseteq request[t].ids
      /\ \A u \in Clients \ {t} : todo'[u] = todo[u] /\ request'[u] = request[u]
      /\ \A u \in Clients : todo'[u] # <<>> =>
           /\ todo[u] # <<>> /\ request'[u] = request[u]
           /\ WillInsert(todo'[u]) <=> WillInsert(todo[u])
  BY ContinuePreserves DEF Shrinks
<1>2. MapTyped' /\ outputMap' \subseteq outputMap
  BY DEF Shrinks
<1>3. RemovedStaysRemoved'
  <2> SUFFICES ASSUME NEW u \in Clients, NEW g \in request'[u].ids \ contested,
                      ~WillRemove(todo'[u]), NEW h \in outputMap'
               PROVE  g \notin obj'[h].members
    BY <1>1 DEF RemovedStaysRemoved
  <2>1. CASE u = t
    BY <1>1, <2>1 DEF Shrinks
  <2>2. CASE u # t
    <3>1. g \notin obj[h].members
      BY <1>1, <1>2, <2>2 DEF MapInvariant, RemovedStaysRemoved
    <3> QED
      BY <3>1 DEF Shrinks
  <2> QED
    BY <2>1, <2>2
<1>4. HalfStaysRemoved'
  <2> SUFFICES ASSUME NEW u \in Clients, NEW g \in request'[u].ids \ contested, NEW h \in outputMap'
               PROVE  /\ Between(todo'[u], "leave") => (~obj'[h].uber => g \notin obj'[h].members)
                      /\ Between(todo'[u], "unmap") => (obj'[h].uber => g \notin obj'[h].members)
    BY <1>1 DEF HalfStaysRemoved
  <2>1. CASE u = t
    BY <1>1, <2>1 DEF Shrinks
  <2>2. CASE u # t
    <3>1. /\ todo'[u] = todo[u] /\ g \in request[u].ids \ contested /\ h \in outputMap
          /\ obj'[h].uber = obj[h].uber /\ obj'[h].members \subseteq obj[h].members
      BY <1>1, <1>2, <2>2 DEF Shrinks
    <3> QED
      BY <3>1 DEF MapInvariant, HalfStaysRemoved
  <2> QED
    BY <2>1, <2>2
<1>5. UncontestedIsExclusive'
  BY <1>1, <1>2 DEF MapInvariant, UncontestedIsExclusive, Shrinks
<1>6. KeysAreOwn'
  <2>1. ~WillInsert(<<>>)
    BY DEF WillInsert, Has
  <2> QED
    BY <1>1, <1>2, <2>1 DEF MapInvariant, KeysAreOwn
<1>7. PlainHasOneMember'
  <2> SUFFICES ASSUME NEW h \in outputMap', ~obj'[h].uber,
                      NEW g1 \in obj'[h].members, NEW g2 \in obj'[h].members
               PROVE  g1 = g2
    BY DEF PlainHasOneMember
  <2>1. h \in outputMap /\ ~obj[h].uber /\ g1 \in obj[h].members /\ g2 \in obj[h].members
    BY <1>2 DEF Shrinks
  <2> QED
    BY <2>1 DEF MapInvariant, PlainHasOneMember
<1>8. ServesCalls
  <2> SUFFICES ASSUME NEW g \in Groups
               PROVE  /\ Drivers(g)' # Drivers(g) => \E u \in Clients : g \in request[u].ids
                      /\ \A u \in Clients :
                           todo[u] # <<>> /\ todo'[u] = <<>> /\ g \in request[u].ids \ contested =>
                             Drivers(g)' = {request[u].h} \ {NoHandle}
    BY DEF ServesCalls
  <2>1. ASSUME g \notin request[t].ids
        PROVE  Drivers(g)' = Drivers(g)
    <3>1. ASSUME NEW h \in Drivers(g)
          PROVE  h \in Drivers(g)'
      BY <2>1, <3>1 DEF Drivers, Shrinks
    <3>2. ASSUME NEW h \in Drivers(g)'
          PROVE  h \in Drivers(g)
      BY <2>1, <3>2 DEF Drivers, Shrinks
    <3> QED
      BY <3>1, <3>2
  <2>2. ASSUME NEW u \in Clients, todo[u] # <<>>, todo'[u] = <<>>, g \in request[u].ids \ contested
        PROVE  Drivers(g)' = {request[u].h} \ {NoHandle}
    <3>1. u = t /\ rest = <<>>
      BY <1>1, <2>2
    <3>2. ~WillRemove(rest)
      BY <3>1 DEF WillRemove, Has
    <3>3. Drivers(g)' = {}
      BY <2>2, <3>1, <3>2 DEF Drivers, Shrinks
    <3>4. request[u].h = NoHandle
      BY <2>2, <3>1 DEF MapInvariant, KeysAreOwn, Shrinks
    <3> QED
      BY <3>3, <3>4
  <2> QED
    BY <2>1, <2>2
<1> QED
  BY <1>1, <1>2, <1>3, <1>4, <1>5, <1>6, <1>7, <1>8 DEF MapInvariant

\* A loop of a call has left the map m with the objects o.
LEMMA MapBecomesTyped ==
  ASSUME NEW m, m \subseteq Handles, NEW o \in [Handles -> Mapper!Object], MapBecomes(m, o)
  PROVE  MapTyped' /\ outputMap' = m /\ \A h \in m : obj'[h] = o[h]
BY NewObjectMembers DEF MapBecomes, MapTyped

\* What a call has still to do once it has done k steps.
Rest(t, k) == SubSeq(todo[t], k + 1, Len(todo[t]))

\* A thread that is at a step has it in front.
LEMMA AtStep ==
  ASSUME MapInvariant, NEW t \in Clients, NEW step, At(t, step)
  PROVE  /\ IsProgram(todo[t]) /\ todo[t] # <<>> /\ todo[t][1] = step /\ Len(todo[t]) >= 1
         /\ \A k \in Nat : IsRest(Rest(t, k), todo[t], k)
         /\ step # "insert" /\ WillInsert(todo[t]) => Rest(t, 1) # <<>>
<1>1. /\ IsProgram(todo[t]) /\ todo[t] # <<>> /\ todo[t][1] = step
      /\ todo[t] \in Seq(Steps) /\ Len(todo[t]) >= 1
  BY DEF At, MapInvariant, CallsTyped
<1>2. \A k \in Nat : IsRest(Rest(t, k), todo[t], k)
  BY <1>1, SubSeqIsRest DEF Rest
<1>3. ASSUME step # "insert", WillInsert(todo[t])
      PROVE  Rest(t, 1) # <<>>
  <2>1. Len(todo[t]) >= 2
    BY <1>1, <1>3 DEF WillInsert, Has, IsProgram
  <2>2. IsRest(Rest(t, 1), todo[t], 1)
    BY <1>2
  <2>3. Len(Rest(t, 1)) # 0
    BY <1>1, <2>1, <2>2 DEF IsRest, IsProgram
  <2>4. Len(<<>>) = 0
    OBVIOUS
  <2> QED
    BY <2>3, <2>4, Zenon
<1> QED
  BY <1>1, <1>2, <1>3

\* What a call is between does not change with a guard or a sweep.
LEMMA HarmlessRest ==
  ASSUME MapInvariant, NEW t \in Clients, NEW step \in {"guard", "sweep"}, At(t, step)
  PROVE  /\ IsRest(Rest(t, 1), todo[t], 1)
         /\ WillInsert(todo[t]) => Rest(t, 1) # <<>>
         /\ WillRemove(Rest(t, 1)) <=> WillRemove(todo[t])
         /\ Between(Rest(t, 1), "leave") <=> Between(todo[t], "leave")
         /\ Between(Rest(t, 1), "unmap") <=> Between(todo[t], "unmap")
<1> DEFINE s == todo[t]
           r == Rest(t, 1)
<1>1. /\ IsProgram(s) /\ s # <<>> /\ s[1] = step /\ IsRest(r, s, 1)
      /\ WillInsert(s) => r # <<>>
  BY AtStep
<1> HIDE DEF s, r
<1>2. /\ Has(r, Removals) <=> Has(s, Removals)
      /\ Has(r, Begins) <=> Has(s, Begins)
      /\ Has(r, {"leave"}) <=> Has(s, {"leave"})
      /\ Has(r, {"unmap"}) <=> Has(s, {"unmap"})
  BY <1>1, RestHasTheOthers DEF Removals, Begins
<1> QED
  BY <1>1, <1>2 DEF WillRemove, Between, s, r

\* A guard or a sweep: what the call has removed it had removed before.
LEMMA HarmlessPreserves ==
  ASSUME MapInvariant, NEW t \in Clients, NEW step \in {"guard", "sweep"}, At(t, step),
         ContinueWith(t, Rest(t, 1)),
         MapTyped', outputMap' \subseteq outputMap,
         \A h \in outputMap' : obj'[h] = obj[h],
         \A h \in outputMap \ outputMap' : obj[h].members = {}
  PROVE  MapInvariant' /\ ServesCalls
<1>1. \A g \in request[t].ids \ contested :
        ~WillRemove(Rest(t, 1)) => \A h \in outputMap' : g \notin obj'[h].members
  BY HarmlessRest DEF MapInvariant, RemovedStaysRemoved
<1>2. \A g \in request[t].ids \ contested, h \in outputMap' :
        /\ Between(Rest(t, 1), "leave") => (~obj'[h].uber => g \notin obj'[h].members)
        /\ Between(Rest(t, 1), "unmap") => (obj'[h].uber => g \notin obj'[h].members)
  BY HarmlessRest DEF MapInvariant, HalfStaysRemoved
<1>3. Shrinks(t, 1, Rest(t, 1))
  BY HarmlessRest, <1>1, <1>2 DEF Shrinks
<1> QED
  BY <1>3, ShrinkPreserves

LEMMA GuardPreserves ==
  ASSUME MapInvariant, NEW t \in Clients, Guard(t)
  PROVE  MapInvariant' /\ ServesCalls
<1>1. /\ At(t, "guard") /\ ContinueWith(t, Rest(t, 1)) /\ UNCHANGED <<outputMap, obj>>
  BY DEF Guard, Skip, Rest
<1>2. MapTyped'
  BY <1>1 DEF MapInvariant, MapTyped
<1> QED
  BY <1>1, <1>2, HarmlessPreserves

LEMMA SweepPreserves ==
  ASSUME MapInvariant, NEW t \in Clients, Sweep(t)
  PROVE  MapInvariant' /\ ServesCalls
<1> DEFINE m == Mapper!WithoutEmptyUbergroups(outputMap, obj)
<1>1. At(t, "sweep") /\ ContinueWith(t, Rest(t, 1)) /\ MapBecomes(m, obj)
  BY DEF Sweep, Skip, Rest
<1>2. m \subseteq outputMap /\ \A h \in outputMap \ m : obj[h].members = {}
  BY DEF Mapper!WithoutEmptyUbergroups
<1>3. m \subseteq Handles /\ obj \in [Handles -> Mapper!Object]
  BY <1>2 DEF MapInvariant, MapTyped
<1> HIDE DEF m
<1>4. MapTyped' /\ outputMap' = m /\ \A h \in m : obj'[h] = obj[h]
  BY <1>1, <1>3, MapBecomesTyped
<1> QED
  BY <1>1, <1>2, <1>4, HarmlessPreserves

\* The second loop of a removal: what is left of the program has no removal, so
\* nothing is asked of a half.
LEMMA SecondLoop ==
  ASSUME MapInvariant, NEW t \in Clients, NEW step \in Removals, At(t, step)
  PROVE  /\ Between(todo[t], step)
         /\ \A k \in Nat \ {0} :
              /\ ~WillRemove(Rest(t, k))
              /\ ~Between(Rest(t, k), "leave") /\ ~Between(Rest(t, k), "unmap")
<1>1. /\ IsProgram(todo[t]) /\ todo[t] # <<>> /\ todo[t][1] = step /\ Len(todo[t]) >= 1
      /\ \A k \in Nat : IsRest(Rest(t, k), todo[t], k)
  BY AtStep
<1>2. Between(todo[t], step)
  <2>1. 1 \in 1..Len(todo[t]) /\ Len(todo[t]) \in Nat
    BY <1>1 DEF IsProgram
  <2>2. \A i \in 1..Len(todo[t]) : todo[t][i] \in Begins => 1 = i + 1
    BY <1>1, <2>1 DEF IsProgram
  <2>3. ~Has(todo[t], Begins)
    BY <2>1, <2>2 DEF Has
  <2> QED
    BY <1>1, <2>1, <2>3 DEF Between, Has
<1>3. ASSUME NEW k \in Nat \ {0}
      PROVE  ~WillRemove(Rest(t, k))
  <2> DEFINE s == todo[t]
             r == Rest(t, k)
  <2>1. IsProgram(s) /\ s # <<>> /\ s[1] \in Removals /\ IsRest(r, s, k)
    BY <1>1
  <2> HIDE DEF s, r
  <2>2. ~WillRemove(r)
    BY <2>1, RestIsProgram
  <2> QED
    BY <2>2 DEF r
<1>4. \A k \in Nat \ {0} :
        ~WillRemove(Rest(t, k)) =>
          ~Between(Rest(t, k), "leave") /\ ~Between(Rest(t, k), "unmap")
  BY DEF WillRemove, Between, Has, Removals
<1> QED
  BY <1>2, <1>3, <1>4

\* The first loop of a removal, step, leaves the second one of its kind.
LEMMA FirstLoop ==
  ASSUME MapInvariant, NEW t \in Clients, NEW step \in Begins, At(t, step)
  PROVE  /\ IsRest(Rest(t, 1), todo[t], 1) /\ IsRest(Rest(t, 2), todo[t], 2)
         /\ WillInsert(todo[t]) => Rest(t, 1) # <<>>
         /\ WillRemove(Rest(t, 1)) <=> WillRemove(todo[t])
         /\ ~WillRemove(Rest(t, 2))
         /\ ~Between(Rest(t, 2), "leave") /\ ~Between(Rest(t, 2), "unmap")
         /\ Between(Rest(t, 1), "leave") => step = "erase"
         /\ Between(Rest(t, 1), "unmap") => step = "evict"
<1> DEFINE s == todo[t]
           r == Rest(t, 1)
           q == Rest(t, 2)
<1>1. /\ IsProgram(s) /\ s # <<>> /\ s[1] = step /\ IsRest(r, s, 1) /\ IsRest(q, s, 2)
      /\ WillInsert(s) => r # <<>>
  BY AtStep DEF Begins
<1> HIDE DEF s, r, q
<1>2. Has(r, Removals) <=> Has(s, Removals)
  BY <1>1, RestHasTheOthers DEF Removals, Begins
<1>3. ~WillRemove(q)
  <2>1. 2 \in Nat \ {0} /\ 2 >= 2
    OBVIOUS
  <2> QED
    BY <1>1, <2>1, RestIsProgram
<1>4. ~Between(q, "leave") /\ ~Between(q, "unmap")
  BY <1>3 DEF WillRemove, Between, Has, Removals
<1>5. /\ Between(r, "leave") => step = "erase"
      /\ Between(r, "unmap") => step = "evict"
  <2>1. /\ Len(s) \in Nat /\ Len(r) \in Nat /\ 1 \in 1..Len(s)
        /\ \A i \in 1..Len(r) : i + 1 \in 1..Len(s) /\ r[i] = s[i + 1]
    BY <1>1 DEF IsRest, IsProgram
  <2>2. \A i \in 1..Len(r) : r[i] \in Removals => (step = "evict" <=> r[i] = "unmap")
    BY <1>1, <2>1 DEF IsProgram
  <2> QED
    BY <2>1, <2>2 DEF Between, Has, Removals, Begins
<1> QED
  BY <1>1, <1>2, <1>3, <1>4, <1>5 DEF WillRemove, s, r, q

\* The loop of _removeMappingsInUbergroup over the ubergroups takes the ids out
\* of every ubergroup.
LEMMA EvictPreserves ==
  ASSUME MapInvariant, NEW t \in Clients, Evict(t)
  PROVE  MapInvariant' /\ ServesCalls
<1> DEFINE ids == request[t].ids
           o == [h \in DOMAIN obj |->
                   IF h \in outputMap /\ obj[h].uber /\ obj[h].members \cap ids # {}
                   THEN Mapper!RemoveMembers(obj[h], ids) ELSE obj[h]]
<1>1. At(t, "evict") /\ ContinueWith(t, Rest(t, 1)) /\ MapBecomes(outputMap, o)
  BY DEF Evict, Mapper!WithoutMembers, Skip, Rest
<1>2. /\ outputMap \subseteq Handles /\ obj \in [Handles -> Mapper!Object]
      /\ ids \in SUBSET Groups /\ DOMAIN obj = Handles
  BY DEF MapInvariant, MapTyped, CallsTyped, Requests
<1>3. ASSUME NEW h \in Handles
      PROVE  /\ o[h] \in Mapper!Object /\ o[h].uber = obj[h].uber
             /\ o[h].members \subseteq obj[h].members
             /\ obj[h].members \subseteq o[h].members \cup ids
             /\ h \in outputMap /\ obj[h].uber => o[h].members \cap ids = {}
  <2>1. CASE h \in outputMap /\ obj[h].uber /\ obj[h].members \cap ids # {}
    <3>1. o[h] = Mapper!RemoveMembers(obj[h], ids)
      BY <1>2, <2>1
    <3> HIDE DEF o
    <3> QED
      BY <1>2, <3>1, RemoveMembersMembers
  <2>2. CASE ~(h \in outputMap /\ obj[h].uber /\ obj[h].members \cap ids # {})
    <3>1. o[h] = obj[h]
      BY <1>2, <2>2
    <3> HIDE DEF o
    <3> QED
      BY <1>2, <2>2, <3>1
  <2> QED
    BY <2>1, <2>2
<1>4. o \in [Handles -> Mapper!Object]
  BY <1>2, <1>3
<1> HIDE DEF ids, o
<1>5. MapTyped' /\ outputMap' = outputMap /\ \A h \in outputMap : obj'[h] = o[h]
  BY <1>1, <1>2, <1>4, MapBecomesTyped
<1>6. \A h \in outputMap' :
        /\ obj'[h].uber = obj[h].uber /\ obj'[h].members \subseteq obj[h].members
        /\ obj[h].members \subseteq obj'[h].members \cup ids
        /\ obj'[h].uber => obj'[h].members \cap ids = {}
  BY <1>2, <1>3, <1>5
<1>7. /\ IsRest(Rest(t, 1), todo[t], 1) /\ (WillInsert(todo[t]) => Rest(t, 1) # <<>>)
      /\ ~WillRemove(Rest(t, 1)) => ~WillRemove(todo[t])
  BY <1>1, FirstLoop DEF Begins
<1>8. ASSUME NEW g \in request[t].ids \ contested, ~WillRemove(Rest(t, 1)), NEW h \in outputMap'
      PROVE  g \notin obj'[h].members
  <2>1. g \notin obj[h].members
    BY <1>5, <1>7, <1>8 DEF MapInvariant, RemovedStaysRemoved
  <2> QED
    BY <1>6, <2>1
<1>9. ~Between(Rest(t, 1), "leave")
  BY <1>1, FirstLoop DEF Begins
<1>10. Shrinks(t, 1, Rest(t, 1))
  BY <1>1, <1>5, <1>6, <1>7, <1>8, <1>9 DEF Shrinks, ids
<1> QED
  BY <1>10, ShrinkPreserves

\* The one over the plain groups takes the ids out of the rest.
LEMMA UnmapPreserves ==
  ASSUME MapInvariant, NEW t \in Clients, Unmap(t)
  PROVE  MapInvariant' /\ ServesCalls
<1> DEFINE ids == request[t].ids
           m == outputMap \ UNION {Mapper!GroupsEqualTo(outputMap, obj, g) : g \in ids}
<1>1. At(t, "unmap") /\ ContinueWith(t, Rest(t, 1)) /\ MapBecomes(m, obj)
  BY DEF Unmap, Mapper!WithoutGroups, Skip, Rest
<1>2. outputMap \subseteq Handles /\ obj \in [Handles -> Mapper!Object]
  BY DEF MapInvariant, MapTyped
<1>3. ASSUME NEW h \in m, NEW g \in ids \ contested
      PROVE  g \notin obj[h].members
  <2>1. h \in outputMap /\ ~(~obj[h].uber /\ g \in obj[h].members)
    BY DEF Mapper!GroupsEqualTo
  <2>2. obj[h].uber => g \notin obj[h].members
    BY <1>1, <2>1, SecondLoop DEF MapInvariant, HalfStaysRemoved, Removals
  <2> QED
    BY <2>1, <2>2
<1>4. m \subseteq outputMap /\ m \subseteq Handles
  BY <1>2
<1>5. ASSUME NEW h \in outputMap \ m
      PROVE  obj[h].members \subseteq ids
  <2>1. PICK g \in ids : ~obj[h].uber /\ g \in obj[h].members
    BY DEF Mapper!GroupsEqualTo
  <2>2. \A x \in obj[h].members : x = g
    BY <2>1 DEF MapInvariant, PlainHasOneMember
  <2> QED
    BY <2>2
<1> HIDE DEF ids, m
<1>6. MapTyped' /\ outputMap' = m /\ \A h \in m : obj'[h] = obj[h]
  BY <1>1, <1>2, <1>4, MapBecomesTyped
<1>7. IsRest(Rest(t, 1), todo[t], 1) /\ (WillInsert(todo[t]) => Rest(t, 1) # <<>>)
  BY <1>1, AtStep
<1>8. ~Between(Rest(t, 1), "leave") /\ ~Between(Rest(t, 1), "unmap")
  BY <1>1, SecondLoop DEF Removals
<1>9. \A g \in ids \ contested, h \in outputMap' : g \notin obj'[h].members
  BY <1>3, <1>6
<1>10. Shrinks(t, 1, Rest(t, 1))
  BY <1>1, <1>4, <1>5, <1>6, <1>7, <1>8, <1>9 DEF Shrinks, ids
<1> QED
  BY <1>10, ShrinkPreserves

\* A call of removeMappingForGroup names one group.
LEMMA OneGroup ==
  ASSUME MapInvariant, NEW t \in Clients, NEW step \in {"erase", "leave"}, At(t, step)
  PROVE  request[t].ids = {GroupOf(t)} /\ GroupOf(t) \in Groups
<1>1. IsProgram(todo[t]) /\ todo[t][1] = step /\ Len(todo[t]) >= 1
  BY AtStep
<1>2. WillErase(todo[t])
  BY <1>1 DEF WillErase, Has, IsProgram
<1>3. \E x \in Groups : request[t].ids = {x}
  BY <1>2 DEF MapInvariant, CallsTyped
<1> QED
  BY <1>3 DEF GroupOf

\* The loop of removeMappingForGroup over the plain groups.  If it finds the
\* group, no ubergroup has it, unless the group is contested.
LEMMA ErasePreserves ==
  ASSUME MapInvariant, NEW t \in Clients, Erase(t)
  PROVE  MapInvariant' /\ ServesCalls
<1> DEFINE g == GroupOf(t)
           singles == Mapper!GroupsEqualTo(outputMap, obj, g)
           k == IF singles = {} THEN 1 ELSE 2
<1>1. At(t, "erase") /\ MapBecomes(outputMap \ singles, obj) /\ ContinueWith(t, Rest(t, k))
  BY DEF Erase, Skip, Rest
<1>2. request[t].ids = {g} /\ g \in Groups
  BY <1>1, OneGroup
<1>3. outputMap \subseteq Handles /\ obj \in [Handles -> Mapper!Object]
  BY DEF MapInvariant, MapTyped
<1>4. /\ singles \subseteq outputMap
      /\ \A h \in outputMap : h \in singles <=> ~obj[h].uber /\ g \in obj[h].members
  BY DEF Mapper!GroupsEqualTo
<1> HIDE DEF g, singles
<1>5. /\ MapTyped' /\ outputMap' = outputMap \ singles
      /\ \A h \in outputMap \ singles : obj'[h] = obj[h]
  <2>1. outputMap \ singles \subseteq Handles
    BY <1>3
  <2> QED
    BY <1>1, <1>3, <2>1, MapBecomesTyped
<1>6. ASSUME NEW h \in outputMap \ outputMap'
      PROVE  obj[h].members \subseteq {g}
  <2>1. ~obj[h].uber /\ g \in obj[h].members
    BY <1>4, <1>5, <1>6
  <2> QED
    BY <1>6, <2>1 DEF MapInvariant, PlainHasOneMember
<1>7. k \in Nat \ {0} /\ IsRest(Rest(t, k), todo[t], k)
  BY <1>1, FirstLoop DEF Begins
<1>8. WillInsert(todo[t]) => Rest(t, k) # <<>>
  <2> SUFFICES ASSUME WillInsert(todo[t]) PROVE Len(Rest(t, k)) # 0
    BY <1>7 DEF IsRest
  <2>1. IsProgram(todo[t]) /\ todo[t][1] = "erase" /\ Len(todo[t]) >= 1
    BY <1>1, AtStep
  <2>2. Len(todo[t]) >= 1 + 3 /\ Len(todo[t]) \in Nat
    BY <2>1 DEF WillInsert, Has, IsProgram
  <2>3. k \in {1, 2}
    OBVIOUS
  <2> HIDE DEF k
  <2>4. Len(Rest(t, k)) = Len(todo[t]) - k
    BY <1>7, <2>2, <2>3 DEF IsRest
  <2> QED
    BY <2>2, <2>3, <2>4
<1>9. ASSUME g \notin contested, ~WillRemove(Rest(t, k)), NEW h \in outputMap'
      PROVE  g \notin obj'[h].members
  <2>1. h \in outputMap /\ h \notin singles /\ obj'[h] = obj[h]
    BY <1>5
  <2>2. CASE singles = {}
    <3>1. ~WillRemove(todo[t])
      BY <1>1, <1>9, <2>2, FirstLoop DEF Begins
    <3> QED
      BY <1>2, <1>9, <2>1, <3>1 DEF MapInvariant, RemovedStaysRemoved
  <2>3. CASE singles # {}
    <3>1. PICK s \in singles : TRUE
      BY <2>3
    <3>2. g \in obj[s].members /\ s # h /\ s \in outputMap
      BY <1>4, <2>1, <3>1
    <3> QED
      BY <1>2, <1>9, <2>1, <3>2 DEF MapInvariant, UncontestedIsExclusive
  <2> QED
    BY <2>2, <2>3
<1>10. \A h \in outputMap' : ~obj'[h].uber => g \notin obj'[h].members
  BY <1>4, <1>5
<1>11. ~Between(Rest(t, k), "unmap")
  BY <1>1, FirstLoop DEF Begins
<1>12. Shrinks(t, k, Rest(t, k))
  <2> HIDE DEF k
  <2> QED
    BY <1>1, <1>2, <1>5, <1>6, <1>7, <1>8, <1>9, <1>10, <1>11 DEF Shrinks
<1> HIDE DEF k
<1> QED
  BY <1>7, <1>12, ShrinkPreserves

\* The loop over the ubergroups takes the group out of the only one that has it,
\* unless the group is contested.
LEMMA LeavePreserves ==
  ASSUME MapInvariant, NEW t \in Clients, Leave(t)
  PROVE  MapInvariant' /\ ServesCalls
<1> DEFINE g == GroupOf(t)
           ubers == Mapper!UbergroupsContaining(outputMap, obj, g)
<1>1. At(t, "leave")
  BY DEF Leave
<1>2. request[t].ids = {g} /\ g \in Groups
  BY <1>1, OneGroup
<1>3. outputMap \subseteq Handles /\ obj \in [Handles -> Mapper!Object]
  BY DEF MapInvariant, MapTyped
<1>4. /\ ubers \subseteq outputMap
      /\ \A h \in outputMap : h \in ubers <=> obj[h].uber /\ g \in obj[h].members
  BY DEF Mapper!UbergroupsContaining
<1>5. g \notin contested => \A h \in outputMap : ~obj[h].uber => g \notin obj[h].members
  BY <1>1, <1>2, SecondLoop DEF MapInvariant, HalfStaysRemoved, Removals
<1>6. \A k \in Nat \ {0} :
        /\ ~Between(Rest(t, k), "leave") /\ ~Between(Rest(t, k), "unmap")
        /\ IsRest(Rest(t, k), todo[t], k)
  BY <1>1, SecondLoop, AtStep DEF Removals
<1>7. IsProgram(todo[t]) /\ todo[t][1] = "leave" /\ Len(todo[t]) >= 1
  BY <1>1, AtStep
<1>8. WillInsert(todo[t]) => Len(todo[t]) >= 1 + 3 /\ Len(todo[t]) \in Nat
  BY <1>7 DEF WillInsert, Has, IsProgram
<1>9. ASSUME NEW k \in {1, 3}
      PROVE  WillInsert(todo[t]) => Rest(t, k) # <<>>
  <2>1. IsRest(Rest(t, k), todo[t], k)
    BY <1>6
  <2>2. WillInsert(todo[t]) => Len(Rest(t, k)) # 0
    BY <1>8, <2>1 DEF IsRest
  <2> QED
    BY <2>1, <2>2 DEF IsRest
<1> HIDE DEF g, ubers
<1>10. CASE ubers = {} /\ Skip(t, 1) /\ UNCHANGED <<outputMap, obj>>
  <2>1. ContinueWith(t, Rest(t, 1)) /\ UNCHANGED <<outputMap, obj>>
    BY <1>10 DEF Skip, Rest
  <2>2. MapTyped'
    BY <2>1 DEF MapInvariant, MapTyped
  <2>3. g \notin contested => \A h \in outputMap : g \notin obj[h].members
    BY <1>4, <1>5, <1>10
  <2>4. Shrinks(t, 1, Rest(t, 1))
    BY <1>2, <1>6, <1>9, <2>1, <2>2, <2>3 DEF Shrinks
  <2> QED
    BY <2>4, ShrinkPreserves
<1>11. ASSUME NEW h \in ubers,
              MapBecomes(outputMap, [obj EXCEPT ![h] = Mapper!RemoveMembers(@, {g})]),
              Skip(t, 3)
       PROVE  MapInvariant' /\ ServesCalls
  <2> DEFINE o == [obj EXCEPT ![h] = Mapper!RemoveMembers(@, {g})]
  <2>1. ContinueWith(t, Rest(t, 3))
    BY <1>11 DEF Skip, Rest
  <2>2. h \in Handles /\ obj[h] \in Mapper!Object
    BY <1>3, <1>4
  <2>3. /\ Mapper!RemoveMembers(obj[h], {g}) \in Mapper!Object
        /\ Mapper!RemoveMembers(obj[h], {g}).members = obj[h].members \ {g}
        /\ Mapper!RemoveMembers(obj[h], {g}).uber = obj[h].uber
    <3>1. {g} \in SUBSET Groups
      BY <1>2
    <3> QED
      BY <2>2, <3>1, RemoveMembersMembers
  <2>4. /\ o \in [Handles -> Mapper!Object]
        /\ o[h].members = obj[h].members \ {g} /\ o[h].uber = obj[h].uber
        /\ \A k \in Handles \ {h} : o[k] = obj[k]
    BY <1>3, <2>2, <2>3
  <2> HIDE DEF o
  <2>5. MapTyped' /\ outputMap' = outputMap /\ \A k \in outputMap : obj'[k] = o[k]
    BY <1>3, <1>11, <2>4, MapBecomesTyped DEF o
  <2>6. ASSUME NEW k \in outputMap'
        PROVE  /\ obj'[k].uber = obj[k].uber /\ obj'[k].members \subseteq obj[k].members
               /\ obj[k].members \subseteq obj'[k].members \cup {g}
    BY <1>3, <2>4, <2>5
  <2>7. ASSUME g \notin contested, NEW k \in outputMap'
        PROVE  g \notin obj'[k].members
    <3>1. CASE k = h
      BY <2>4, <2>5, <3>1
    <3>2. CASE k # h
      <4>1. g \notin obj[k].members
        BY <1>2, <1>4, <2>5, <2>7, <3>2 DEF MapInvariant, UncontestedIsExclusive
      <4> QED
        BY <2>6, <4>1
    <3> QED
      BY <3>1, <3>2
  <2>8. Shrinks(t, 3, Rest(t, 3))
    BY <1>2, <1>6, <1>9, <2>1, <2>5, <2>6, <2>7 DEF Shrinks
  <2> QED
    BY <2>8, ShrinkPreserves
<1> QED
  BY <1>10, <1>11 DEF Leave, g, ubers

\* The last statement of addMapping: the groups of the new key are nobody's.
LEMMA InsertPreserves ==
  ASSUME MapInvariant, NEW t \in Clients, InsertKey(t)
  PROVE  MapInvariant' /\ ServesCalls
<1> DEFINE ids == request[t].ids
           h == request[t].h
           isUber == \E g1, g2 \in ids : g1 # g2
           new == Mapper!NewObject(isUber, ids)
<1>1. /\ At(t, "insert") /\ ContinueWith(t, Rest(t, 1))
      /\ outputMap' = outputMap \cup {h}
      /\ obj' = [obj EXCEPT ![h] = new]
  BY DEF InsertKey, Skip, Rest
<1>2. /\ IsProgram(todo[t]) /\ todo[t] # <<>> /\ todo[t][1] = "insert"
      /\ IsRest(Rest(t, 1), todo[t], 1) /\ Len(todo[t]) >= 1
  BY <1>1, AtStep
<1>3. WillInsert(todo[t]) /\ ~WillRemove(todo[t]) /\ Rest(t, 1) = <<>>
  <2>1. 1 \in 1..Len(todo[t]) /\ Len(todo[t]) \in Nat
    BY <1>2 DEF IsProgram
  <2>2. Len(todo[t]) = 1
    BY <1>2, <2>1 DEF IsProgram
  <2>3. Rest(t, 1) = <<>>
    <3> DEFINE s == todo[t]
               r == Rest(t, 1)
    <3>1. IsProgram(s) /\ IsRest(r, s, 1) /\ s[1] = "insert" /\ 1 \in Nat \ {0}
      BY <1>2
    <3> HIDE DEF s, r
    <3>2. r = <<>>
      BY <3>1, RestIsProgram
    <3> QED
      BY <3>2 DEF r
  <2>4. WillInsert(todo[t])
    BY <1>2, <2>1 DEF WillInsert, Has
  <2>5. \A i \in 1..Len(todo[t]) : i = 1
    BY <2>2
  <2>6. ~WillRemove(todo[t])
    BY <1>2, <2>5 DEF WillRemove, Removals, Has
  <2> QED
    BY <2>3, <2>4, <2>6
<1>4. h \in Handles /\ ids \in SUBSET Groups
  BY <1>3 DEF MapInvariant, CallsTyped, Requests
<1>5. new \in Mapper!Object /\ new.members = ids /\ new.uber = isUber
  <2>1. isUber \in BOOLEAN
    OBVIOUS
  <2> HIDE DEF isUber
  <2> QED
    BY <1>4, <2>1, NewObjectMembers
<1>6. \A g \in ids \ contested, k \in outputMap : g \notin obj[k].members
  BY <1>3 DEF MapInvariant, RemovedStaysRemoved
<1>7. /\ CallsTyped' /\ SharedIsContested'
      /\ todo'[t] = <<>> /\ contested' = contested
      /\ \A u \in Clients \ {t} : todo'[u] = todo[u] /\ request'[u] = request[u]
  <2>1. 1 \in Nat \ {0} /\ IsRest(Rest(t, 1), todo[t], 1) /\ ContinueWith(t, Rest(t, 1))
    BY <1>1, <1>2
  <2>2. /\ CallsTyped' /\ SharedIsContested' /\ todo'[t] = Rest(t, 1)
        /\ \A u \in Clients \ {t} : todo'[u] = todo[u] /\ request'[u] = request[u]
    BY <2>1, ContinuePreserves
  <2> QED
    BY <1>3, <2>1, <2>2 DEF ContinueWith
<1> HIDE DEF new, h, ids, isUber
<1>8. MapTyped' /\ obj'[h] = new /\ \A k \in Handles \ {h} : obj'[k] = obj[k]
  BY <1>1, <1>4, <1>5 DEF MapInvariant, MapTyped
<1>9. outputMap \subseteq Handles
  BY DEF MapInvariant, MapTyped
<1>10. RemovedStaysRemoved'
  <2> SUFFICES ASSUME NEW u \in Clients, NEW g \in request'[u].ids \ contested,
                      ~WillRemove(todo'[u]), NEW k \in outputMap'
               PROVE  g \notin obj'[k].members
    BY <1>7 DEF RemovedStaysRemoved
  <2>1. u # t
    <3>1. request'[t].ids = {}
      BY <1>1, <1>3 DEF ContinueWith, NoRequest, MapInvariant, CallsTyped
    <3> QED
      BY <3>1
  <2>2. todo'[u] = todo[u] /\ request'[u] = request[u]
    BY <1>7, <2>1
  <2>3. CASE k = h
    <3>1. g \notin ids
      BY <2>1, <2>2 DEF MapInvariant, SharedIsContested, ids
    <3> QED
      BY <1>5, <1>8, <2>3, <3>1
  <2>4. CASE k # h
    <3>1. k \in outputMap /\ obj'[k] = obj[k]
      BY <1>1, <1>8, <1>9, <2>4
    <3> QED
      BY <2>2, <3>1 DEF MapInvariant, RemovedStaysRemoved
  <2> QED
    BY <2>3, <2>4
<1>11. HalfStaysRemoved'
  <2> SUFFICES ASSUME NEW u \in Clients, NEW g \in request'[u].ids \ contested, NEW k \in outputMap'
               PROVE  /\ Between(todo'[u], "leave") => (~obj'[k].uber => g \notin obj'[k].members)
                      /\ Between(todo'[u], "unmap") => (obj'[k].uber => g \notin obj'[k].members)
    BY <1>7 DEF HalfStaysRemoved
  <2>1. u # t
    <3>1. request'[t].ids = {}
      BY <1>1, <1>3 DEF ContinueWith, NoRequest, MapInvariant, CallsTyped
    <3> QED
      BY <3>1
  <2>2. todo'[u] = todo[u] /\ request'[u] = request[u]
    BY <1>7, <2>1
  <2>3. CASE k = h
    <3>1. g \notin ids
      BY <2>1, <2>2 DEF MapInvariant, SharedIsContested, ids
    <3> QED
      BY <1>5, <1>8, <2>3, <3>1
  <2>4. CASE k # h
    <3>1. k \in outputMap /\ obj'[k] = obj[k]
      BY <1>1, <1>8, <1>9, <2>4
    <3> QED
      BY <2>2, <3>1 DEF MapInvariant, HalfStaysRemoved
  <2> QED
    BY <2>3, <2>4
<1>12. UncontestedIsExclusive'
  <2> SUFFICES ASSUME NEW g \in Groups \ contested, NEW k1 \in outputMap', NEW k2 \in outputMap',
                      g \in obj'[k1].members, g \in obj'[k2].members
               PROVE  k1 = k2
    BY <1>7 DEF UncontestedIsExclusive
  <2>1. ASSUME NEW k \in outputMap', k # h
        PROVE  k \in outputMap /\ obj'[k] = obj[k]
    BY <1>1, <1>8, <1>9, <2>1
  <2>2. CASE k1 # h /\ k2 # h
    BY <2>1, <2>2 DEF MapInvariant, UncontestedIsExclusive
  <2>3. CASE g \in ids
    BY <1>6, <2>1, <2>3
  <2>4. CASE g \notin ids
    BY <1>5, <1>8, <2>2, <2>4
  <2> QED
    BY <2>3, <2>4
<1>13. h \notin outputMap /\ h # NoHandle
  BY <1>3, <1>4, NoHandleIsNone DEF MapInvariant, KeysAreOwn, h
<1>14. KeysAreOwn'
  <2> SUFFICES ASSUME NEW u \in Clients
               PROVE  /\ WillInsert(todo'[u]) =>
                           /\ request'[u].h \notin outputMap'
                           /\ \A v \in Clients \ {u} :
                                WillInsert(todo'[v]) => request'[v].h # request'[u].h
                      /\ todo'[u] # <<>> /\ ~WillInsert(todo'[u]) => request'[u].h = NoHandle
    BY DEF KeysAreOwn
  <2>1. ~WillInsert(todo'[t])
    BY <1>7 DEF WillInsert, Has
  <2>2. CASE u = t
    BY <1>7, <2>1, <2>2
  <2>3. CASE u # t
    <3>1. todo'[u] = todo[u] /\ request'[u] = request[u]
      BY <1>7, <2>3
    <3>2. WillInsert(todo[u]) => request[u].h \notin outputMap /\ request[u].h # h
      BY <1>3, <2>3 DEF MapInvariant, KeysAreOwn, h
    <3>3. ASSUME WillInsert(todo[u]), NEW v \in Clients \ {u}, WillInsert(todo'[v])
          PROVE  request'[v].h # request[u].h
      BY <1>7, <2>1, <3>3 DEF MapInvariant, KeysAreOwn
    <3>4. todo[u] # <<>> /\ ~WillInsert(todo[u]) => request[u].h = NoHandle
      BY DEF MapInvariant, KeysAreOwn
    <3> QED
      BY <1>1, <3>1, <3>2, <3>3, <3>4
  <2> QED
    BY <2>2, <2>3
<1>15. PlainHasOneMember'
  <2> SUFFICES ASSUME NEW k \in outputMap', ~obj'[k].uber
               PROVE  \A g1, g2 \in obj'[k].members : g1 = g2
    BY DEF PlainHasOneMember
  <2>1. CASE k = h
    <3>1. ~isUber /\ obj'[k].members = ids
      BY <1>5, <1>8, <2>1
    <3> QED
      BY <3>1 DEF isUber
  <2>2. CASE k # h
    <3>1. k \in outputMap /\ obj'[k] = obj[k]
      BY <1>1, <1>8, <1>9, <2>2
    <3> QED
      BY <3>1 DEF MapInvariant, PlainHasOneMember
  <2> QED
    BY <2>1, <2>2
<1>16. ServesCalls
  <2>1. \A g \in Groups : Drivers(g)' = Drivers(g) \cup (IF g \in ids THEN {h} ELSE {})
    <3> SUFFICES ASSUME NEW g \in Groups, NEW k
                 PROVE  k \in Drivers(g)' <=> k \in Drivers(g) \/ (g \in ids /\ k = h)
      OBVIOUS
    <3>1. CASE k = h
      BY <1>1, <1>5, <1>8, <1>13, <3>1 DEF Drivers
    <3>2. CASE k # h
      BY <1>1, <1>8, <1>9, <3>2 DEF Drivers
    <3> QED
      BY <3>1, <3>2
  <2>2. \A g \in ids \ contested : Drivers(g) = {}
    BY <1>6 DEF Drivers
  <2>3. \A u \in Clients : todo[u] # <<>> /\ todo'[u] = <<>> => u = t
    BY <1>7
  <2> QED
    BY <1>13, <2>1, <2>2, <2>3 DEF ServesCalls, ids, h
<1> QED
  BY <1>7, <1>8, <1>10, <1>11, <1>12, <1>14, <1>15, <1>16 DEF MapInvariant

LEMMA ClientCallPreserves ==
  ASSUME MapInvariant, NEW t \in Clients, ClientCall(t)
  PROVE  MapInvariant' /\ ServesCalls
<1>1. ASSUME NEW h \in Handles, NEW g \in Groups, CallAddGroup(t, h, g)
      PROVE  MapInvariant' /\ ServesCalls
  <2>1. Fresh(h) /\ Call(t, AddGroupProgram, h, {g}) /\ {g} \in SUBSET Groups
    BY <1>1 DEF CallAddGroup
  <2> QED
    BY <2>1, CallPreserves, ProgramsArePrograms
<1>2. ASSUME NEW h \in Handles, NEW ids \in SUBSET Groups, CallAddUbergroup(t, h, ids)
      PROVE  MapInvariant' /\ ServesCalls
  BY <1>2, CallPreserves, ProgramsArePrograms DEF CallAddUbergroup
<1>3. ASSUME NEW g \in Groups, CallRemove(t, g)
      PROVE  MapInvariant' /\ ServesCalls
  <2>1. Call(t, RemoveProgram, NoHandle, {g}) /\ {g} \in SUBSET Groups
    BY <1>3 DEF CallRemove
  <2> QED
    BY <2>1, CallPreserves, ProgramsArePrograms
<1> QED
  BY <1>1, <1>2, <1>3 DEF ClientCall

LEMMA CoordinatorPreserves ==
  ASSUME MapInvariant, Coordinator
  PROVE  MapInvariant' /\ ServesCalls
<1>1. UNCHANGED <<outputMap, clientVars>>
  BY DEF Coordinator, FrameBegin, FrameLock, FrameEnd, RunEffect
<1>2. /\ obj' \in [Handles -> Mapper!Object]
      /\ \A k \in outputMap : obj'[k].members = obj[k].members /\ obj'[k].uber = obj[k].uber
  <2>1. outputMap \subseteq Handles /\ obj \in [Handles -> Mapper!Object]
    BY DEF MapInvariant, MapTyped
  <2>2. CASE FrameBegin \/ FrameLock \/ FrameEnd
    BY <2>1, <2>2 DEF FrameBegin, FrameLock, FrameEnd
  <2>3. ASSUME NEW h \in Handles, RunEffect(h)
        PROVE  /\ obj' \in [Handles -> Mapper!Object]
               /\ \A k \in outputMap : obj'[k].members = obj[k].members /\ obj'[k].uber = obj[k].uber
    <3>1. obj' = [obj EXCEPT ![h] = Mapper!BindBufferToRoutine(@)]
      BY <2>3 DEF RunEffect
    <3>2. /\ Mapper!BindBufferToRoutine(obj[h]) \in Mapper!Object
          /\ Mapper!BindBufferToRoutine(obj[h]).members = obj[h].members
          /\ Mapper!BindBufferToRoutine(obj[h]).uber = obj[h].uber
      BY <2>1, BindBufferMembers
    <3> QED
      BY <2>1, <3>1, <3>2
  <2> QED
    BY <2>2, <2>3 DEF Coordinator
<1>3. ServesCalls
  <2>1. \A g \in Groups : Drivers(g)' = Drivers(g)
    BY <1>1, <1>2 DEF Drivers
  <2> QED
    BY <1>1, <2>1 DEF ServesCalls, clientVars
<1>4. PlainHasOneMember'
  BY <1>1, <1>2 DEF MapInvariant, PlainHasOneMember
<1>5. KeysAreOwn' /\ CallsTyped' /\ SharedIsContested'
  BY <1>1 DEF MapInvariant, KeysAreOwn, CallsTyped, SharedIsContested, clientVars
<1>6. MapTyped' /\ RemovedStaysRemoved' /\ HalfStaysRemoved' /\ UncontestedIsExclusive'
  BY <1>1, <1>2 DEF MapInvariant, MapTyped, RemovedStaysRemoved, HalfStaysRemoved,
                    UncontestedIsExclusive, clientVars
<1> QED
  BY <1>3, <1>4, <1>5, <1>6 DEF MapInvariant

LEMMA MapStep == MapInvariant /\ [Next]_vars => MapInvariant' /\ [ServesCalls]_vars
<1> SUFFICES ASSUME MapInvariant, [Next]_vars
             PROVE  MapInvariant' /\ [ServesCalls]_vars
  OBVIOUS
<1>1. ASSUME NEW t \in Clients, ClientStep(t)
      PROVE  MapInvariant' /\ ServesCalls
  BY <1>1, GuardPreserves, ErasePreserves, LeavePreserves, EvictPreserves,
     UnmapPreserves, SweepPreserves, InsertPreserves DEF ClientStep
<1>2. CASE UNCHANGED vars
  BY <1>2 DEF vars, clientVars, MapInvariant, MapTyped, CallsTyped, SharedIsContested,
              RemovedStaysRemoved, HalfStaysRemoved, UncontestedIsExclusive, KeysAreOwn,
              PlainHasOneMember
<1> QED
  BY <1>1, <1>2, ClientCallPreserves, CoordinatorPreserves DEF Next

\* With any number of threads in addMapping and removeMappingForGroup, none of
\* which holds the mutex while it works, no two keys of the map drive a group
\* that no two calls have named at the same time.
THEOREM UncontestedStaysExclusive == Spec => []UncontestedIsExclusive
<1>1. MapInvariant => UncontestedIsExclusive
  BY DEF MapInvariant
<1> QED
  BY <1>1, MapInit, MapStep, PTL DEF Spec

\* What is left of addMapping's and removeMappingForGroup's promise without the
\* lock, for any number of threads: no step of any thread changes what drives a
\* group that no call under way names, and a call that returns leaves each of
\* its uncontested groups to its new key alone, or to none if it was a removal,
\* also when removeMappingForGroup returns early past its sweep.
THEOREM ThreadsServeCalls == Spec => CallsAreServed
BY MapInit, MapStep, PTL DEF Spec, CallsAreServed

---------------------------------------------------------------------------
(***************************************************************************)
(* The coordinator's loop.                                                 *)
(***************************************************************************)

\* While the coordinator runs effects and has overtaken nobody, every client is
\* idle or waits at a guard, so nobody can change the map.
ClientsWait == \A t \in Clients : todo[t] = <<>> \/ At(t, "guard")

LoopInvariant == frame = "running" /\ ~overtook => ClientsWait /\ outputMap = snapshot

LEMMA LoopStep == MapInvariant /\ LoopInvariant /\ [Next]_vars => LoopInvariant'
<1> SUFFICES ASSUME MapInvariant, LoopInvariant, [Next]_vars,
                    frame' = "running", ~overtook'
             PROVE  ClientsWait' /\ outputMap' = snapshot'
  BY DEF LoopInvariant
<1>1. ASSUME NEW t \in Clients, ClientStep(t) \/ ClientCall(t)
      PROVE  ClientsWait' /\ outputMap' = snapshot'
  <2>1. UNCHANGED frameVars
    BY <1>1 DEF ClientStep, Guard, Erase, Leave, Evict, Unmap, Sweep, InsertKey, ClientCall,
                CallAddGroup, CallAddUbergroup, CallRemove, Call
  <2>2. frame = "running" /\ ClientsWait /\ outputMap = snapshot
    BY <2>1 DEF LoopInvariant, frameVars
  <2>3. ~ClientStep(t)
    <3>1. todo[t] = <<>> \/ Head(todo[t]) = "guard"
      BY <2>2 DEF ClientsWait, At
    <3> QED
      BY <2>2, <3>1 DEF ClientStep, Guard, MutexIsFree, Erase, Leave, Evict, Unmap, Sweep,
                           InsertKey, At
  <2>4. PICK p \in {RemoveProgram, AddGroupProgram, AddUbergroupProgram} :
          todo' = [todo EXCEPT ![t] = p] /\ outputMap' = outputMap
    BY <1>1, <2>3 DEF ClientCall, CallAddGroup, CallAddUbergroup, CallRemove, Call
  <2>5. p # <<>> /\ Head(p) = "guard"
    BY ProgramsArePrograms
  <2>6. todo'[t] = p /\ \A u \in Clients \ {t} : todo'[u] = todo[u]
    BY <2>4 DEF MapInvariant, CallsTyped
  <2>7. ClientsWait'
    BY <2>2, <2>5, <2>6 DEF ClientsWait, At
  <2> QED
    BY <2>1, <2>2, <2>4, <2>7 DEF frameVars
<1>2. CASE FrameLock
  <2>1. outputMap' = snapshot' /\ todo' = todo
    BY <1>2 DEF FrameLock, clientVars
  <2>2. ~(\E t \in Clients : todo[t] # <<>> /\ ~At(t, "guard"))
    BY <1>2, Zenon DEF FrameLock
  <2> QED
    BY <2>1, <2>2 DEF ClientsWait, At
<1>3. ASSUME NEW h \in Handles, RunEffect(h)
      PROVE  ClientsWait' /\ outputMap' = snapshot'
  <2>1. UNCHANGED <<frame, overtook, todo, outputMap, snapshot>>
    BY <1>3 DEF RunEffect, clientVars
  <2> QED
    BY <2>1 DEF LoopInvariant, ClientsWait, At
<1>4. CASE FrameBegin \/ FrameEnd
  BY <1>4 DEF FrameBegin, FrameEnd
<1>5. CASE UNCHANGED vars
  BY <1>5 DEF vars, frameVars, clientVars, LoopInvariant, ClientsWait, At
<1> QED
  BY <1>1, <1>2, <1>3, <1>4, <1>5 DEF Next, Coordinator

\* The iteration of coordinatorRunEffects is over the map it found, for any
\* number of clients, unless the coordinator has overtaken one of them between
\* its guard and its changes: a mutex that is given back at once still keeps
\* out every call that has not passed its guard yet.
THEOREM LoopsWalkSettledMap == Spec => []LoopWalksSettledMap
<1>1. Init => LoopInvariant
  BY DEF Init, LoopInvariant
<1>2. LoopInvariant => LoopWalksSettledMap
  BY DEF LoopInvariant, LoopWalksSettledMap
<1> QED
  BY <1>1, <1>2, MapInit, MapStep, LoopStep, PTL DEF Spec

---------------------------------------------------------------------------
(***************************************************************************)
(* The coordinator's life: main builds it last and joins it first.         *)
(***************************************************************************)
BeforeRunner == {"store", "protocol", "runner"}
WithRunner == {"server", "mappings", "test", "pause", "paused", "stop",
               "detach", "deleteServer", "deleteRunner", "join"}
AfterRunner == {"deleteProtocol", "deleteStore", "exit", "exited"}
InFrame == {"loop", "effects", "convert", "send", "sleep", "cleanup"}

\* Where main is tells what it has built and not deleted, and whether there is a
\* coordinator.
AliveFollowsMain ==
  /\ main \in BeforeRunner \cup WithRunner \cup AfterRunner \cup {"crashed"}
  /\ main = "protocol" => "store" \in alive
  /\ main = "runner" => {"store", "protocol"} \subseteq alive
  /\ main \in WithRunner => {"store", "protocol", "runner"} \subseteq alive
  /\ main \in BeforeRunner => coordinator = "none"
  /\ main \in WithRunner => coordinator # "none"
  /\ main \in AfterRunner => coordinator = "ended"
  /\ main = "crashed" => CoordinatorUsesLiveObjects

\* Where the coordinator is tells whether the channels are listed, and how
\* often they have been deleted.
ChannelsFollowCoordinator ==
  /\ coordinator \in {"none", "starting", "ended"} \cup InFrame
  /\ coordinator \in {"none", "starting"} => outputChannels = "empty" /\ frees = 0
  /\ coordinator \in InFrame => outputChannels = "full" /\ frees = 0
  /\ coordinator = "ended" => outputChannels = "empty" /\ frees = 1

LifeInvariant == AliveFollowsMain /\ ChannelsFollowCoordinator

LEMMA LifeBegins == LifeInit => LifeInvariant
BY DEF LifeInit, LifeInvariant, AliveFollowsMain, ChannelsFollowCoordinator,
       BeforeRunner, WithRunner, AfterRunner, InFrame

LEMMA MainStepPreserves ==
  ASSUME LifeInvariant, Startup \/ Signal \/ Shutdown \/ UseDeleted
  PROVE  LifeInvariant'
<1> USE DEF LifeInvariant, AliveFollowsMain, ChannelsFollowCoordinator,
            BeforeRunner, WithRunner, AfterRunner, InFrame, Goes, waitVars,
            CoordinatorUsesLiveObjects
<1>1. CASE NewStore \/ NewProtocol
  BY <1>1 DEF NewStore, NewProtocol, runnerVars
<1>2. CASE NewRunner
  BY <1>2 DEF NewRunner
<1>3. CASE NewServer \/ AddInitialMappings
  BY <1>3 DEF NewServer, AddInitialMappings, runnerVars
<1>4. CASE TestKeepRunning \/ Pause \/ Signal
  BY <1>4 DEF Running, TestKeepRunning, Pause, Signal, runnerVars
<1>5. CASE StopServer \/ DetachClients \/ DeleteServer \/ DeleteRunner
  BY <1>5 DEF StopServer, DetachClients, DeleteServer, DeleteRunner, runnerVars
<1>6. CASE JoinCoordinator
  BY <1>6 DEF JoinCoordinator, FreeChannels
<1>7. CASE DeleteProtocol \/ DeleteStore \/ Exit
  BY <1>7 DEF DeleteProtocol, DeleteStore, Exit, runnerVars
<1>8. CASE UseDeleted
  BY <1>8 DEF UseDeleted, Running, runnerVars
<1> QED
  BY <1>1, <1>2, <1>3, <1>4, <1>5, <1>6, <1>7, <1>8 DEF Startup, Shutdown

\* A coordinator that is there and has not ended is there while main is between
\* the constructor and the join, so main does not move past it.
LEMMA CoordinatorStepPreserves ==
  ASSUME LifeInvariant, CoordinatorThread
  PROVE  LifeInvariant'
<1>1. /\ UNCHANGED <<main, alive>> /\ main # "crashed"
      /\ coordinator \in {"starting"} \cup InFrame
      /\ coordinator' \in {"ended"} \cup InFrame
  BY DEF CoordinatorThread, UpdateChannels, FrameBegins, RunEffects, DoConversions,
         SendData, Stage, Sleep, Cleanup, CoordinatorGoes, InFrame, Running
<1>2. AliveFollowsMain'
  BY <1>1 DEF LifeInvariant, AliveFollowsMain, InFrame
<1>3. ChannelsFollowCoordinator'
  <2> USE DEF LifeInvariant, ChannelsFollowCoordinator, InFrame, CoordinatorGoes
  <2>1. CASE UpdateChannels
    BY <2>1 DEF UpdateChannels
  <2>2. CASE FrameBegins \/ RunEffects \/ DoConversions \/ SendData \/ Sleep
    BY <2>2 DEF FrameBegins, RunEffects, DoConversions, SendData, Stage, Sleep
  <2>3. CASE Cleanup
    BY <2>3 DEF Cleanup, FreeChannels
  <2> QED
    BY <2>1, <2>2, <2>3 DEF CoordinatorThread
<1> QED
  BY <1>2, <1>3 DEF LifeInvariant

LEMMA LifeStep == LifeInvariant /\ [LifeNext]_lifeVars => LifeInvariant'
<1> SUFFICES ASSUME LifeInvariant, [LifeNext]_lifeVars
             PROVE  LifeInvariant'
  OBVIOUS
<1>1. CASE Worker \/ AcceptorCreates \/ (\E c \in Connections : ClientThread(c))
           \/ UNCHANGED lifeVars
  <2>1. UNCHANGED <<main, alive, coordinator, outputChannels, frees>>
    BY <1>1 DEF Worker, WorkerCreates, WorkerReceives, WorkerEnds, WorkerHandled,
                AcceptorCreates, ClientThread, AcceptClient, ClientReads,
                ClientAnswers, Detached, lifeVars, runnerVars
  <2> QED
    BY <2>1 DEF LifeInvariant, AliveFollowsMain, ChannelsFollowCoordinator,
                CoordinatorUsesLiveObjects
<1> QED
  BY <1>1, MainStepPreserves, CoordinatorStepPreserves DEF LifeNext

\* Whenever SIGINT comes, and however many clients keep the other threads busy,
\* the datastore, the protocol handler and the runner are there as long as the
\* coordinator works: the join in ~EffectRunner comes before their deletion.
THEOREM CoordinatorObjectsOutliveIt == LifeSpec => []CoordinatorUsesLiveObjects
<1>1. LifeInvariant => CoordinatorUsesLiveObjects
  BY DEF LifeInvariant, AliveFollowsMain, ChannelsFollowCoordinator, InFrame,
         BeforeRunner, WithRunner, AfterRunner, CoordinatorUsesLiveObjects
<1> QED
  BY <1>1, LifeBegins, LifeStep, PTL DEF LifeSpec

\* The channels are deleted once on every way down, by the coordinator: it
\* empties the list, and ~EffectRunner, which deletes what is listed, comes
\* after it.
THEOREM ChannelsAreDeletedOnce == LifeSpec => []ChannelsAreFreedOnce
<1>1. LifeInvariant => ChannelsAreFreedOnce
  BY DEF LifeInvariant, ChannelsFollowCoordinator, ChannelsAreFreedOnce
<1> QED
  BY <1>1, LifeBegins, LifeStep, PTL DEF LifeSpec
===========================================================================
