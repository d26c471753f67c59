------------------------ MODULE CommandServerProofs ------------------------
(***************************************************************************)
(* Proofs about the command server: about ClientConnections, for any       *)
(* number of connections and of descriptors, and about CommandRequests,    *)
(* for any tables.                                                         *)
(***************************************************************************)
EXTENDS ClientConnections, CommandRequests, WellFoundedInduction, TLAPS

\* Where a thread with a descriptor may be.
ThreadPlaces == {"reading", "processing", "check", "rejected", "closing"}

\* The shapes of the descriptors and of the client threads.
TypeOK ==
  /\ owner \in [Fds -> Conns \cup {NoConn}]
  /\ pc \in [Conns -> ThreadPlaces \cup {"none", "done"}]
  /\ fd \in [Conns -> 0..MaxFd]
  /\ \A c \in Conns : pc[c] # "none" => fd[c] \in Fds
  /\ run \in BOOLEAN /\ reused \subseteq Fds

\* A connection is open under the descriptor its thread was given, if at all,
\* and only while that thread is there.
OpenIsHeld ==
  \A f \in Fds, c \in Conns : owner[f] = c => f = fd[c] /\ pc[c] \in ThreadPlaces

\* A thread whose number was not given away has its own connection behind it,
\* or nothing once it has closed it after a malformed request.
NumberIsOwn(c) ==
  fd[c] \notin reused =>
    /\ pc[c] \in ThreadPlaces \ {"rejected"} => owner[fd[c]] = c
    /\ pc[c] = "rejected" => owner[fd[c]] = NoConn

NumbersAreOwn == run => \A c \in Conns : NumberIsOwn(c)

\* stop() has not begun to close descriptors while the server runs.
StopComesLast == run => toStop = {}

ConnectionInvariant == TypeOK /\ OpenIsHeld /\ NumbersAreOwn /\ StopComesLast

\* accept() gets a free descriptor: the lowest exists.
LEMMA LowestIsFree ==
  ASSUME FreeFds # {}
  PROVE  Min(FreeFds) \in FreeFds
<1> DEFINE Below == OpToRel(<, Nat)
<1>1. FreeFds \subseteq Nat
  BY ConnectionParameters DEF FreeFds, Fds
<1>2. \E x \in FreeFds : \A y \in FreeFds : <<y, x>> \notin Below
  <2>1. IsWellFoundedOn(Below, Nat)
    BY NatLessThanWellFounded
  <2> HIDE DEF Below
  <2> QED
    BY <1>1, <2>1, WFMin
<1>3. PICK x \in FreeFds : \A y \in FreeFds : <<y, x>> \notin Below
  BY <1>2
<1>4. \A y \in FreeFds : ~(y < x)
  BY <1>1, <1>3 DEF OpToRel
<1>5. \A y \in FreeFds : x <= y
  BY <1>1, <1>4
<1> QED
  BY <1>5 DEF Min

LEMMA ConnectionInit == Init => ConnectionInvariant
<1> SUFFICES ASSUME Init PROVE ConnectionInvariant
  OBVIOUS
<1>1. TypeOK
  <2>1. \A c \in Conns : pc[c] = "none"
    BY DEF Init
  <2>2. fd \in [Conns -> 0..MaxFd]
    BY ConnectionParameters DEF Init
  <2> QED
    BY <2>1, <2>2 DEF Init, TypeOK
<1>2. OpenIsHeld
  BY ConnectionParameters DEF Init, OpenIsHeld
<1>3. NumbersAreOwn /\ StopComesLast
  BY DEF Init, NumbersAreOwn, NumberIsOwn, ThreadPlaces, StopComesLast
<1> QED
  BY <1>1, <1>2, <1>3 DEF ConnectionInvariant

\* acceptClient: the new number is nobody's, or somebody's who has closed it
\* and is on the way out, which is what reused records.
LEMMA AcceptPreserves ==
  ASSUME ConnectionInvariant, NEW c \in Conns, Accept(c)
  PROVE  ConnectionInvariant'
<1> DEFINE f == Min(FreeFds)
<1>1. f \in Fds /\ owner[f] = NoConn
  BY LowestIsFree DEF Accept, FreeFds
<1>2. /\ pc[c] = "none" /\ pc' = [pc EXCEPT ![c] = "reading"]
      /\ owner' = [owner EXCEPT ![f] = c] /\ fd' = [fd EXCEPT ![c] = f]
      /\ UNCHANGED <<run, toStop>>
  BY DEF Accept
<1>3. reused' = reused \cup {g \in {f} : \E d \in Conns : fd[d] = g /\ pc[d] = "rejected"}
  BY DEF Accept
<1> HIDE DEF f
<1>4. /\ reused' \subseteq Fds /\ reused \subseteq reused'
      /\ f \notin reused' => \A d \in Conns : fd[d] = f => pc[d] # "rejected"
  BY <1>1, <1>3 DEF ConnectionInvariant, TypeOK
<1>5. f \in 0..MaxFd
  BY <1>1, ConnectionParameters DEF Fds
<1>6. /\ pc'[c] = "reading" /\ fd'[c] = f /\ owner'[f] = c
      /\ \A d \in Conns \ {c} : pc'[d] = pc[d] /\ fd'[d] = fd[d]
      /\ \A e \in Fds \ {f} : owner'[e] = owner[e]
  BY <1>1, <1>2 DEF ConnectionInvariant, TypeOK
<1>7. TypeOK'
  BY <1>1, <1>2, <1>4, <1>5, <1>6 DEF ConnectionInvariant, TypeOK, ThreadPlaces
<1>8. OpenIsHeld'
  <2> SUFFICES ASSUME NEW e \in Fds, NEW d \in Conns, owner'[e] = d
               PROVE  e = fd'[d] /\ pc'[d] \in ThreadPlaces
    BY DEF OpenIsHeld
  <2>1. CASE e = f
    BY <1>6, <2>1 DEF ThreadPlaces
  <2>2. CASE e # f
    <3>1. owner[e] = d
      BY <1>6, <2>2
    <3>2. e = fd[d] /\ pc[d] \in ThreadPlaces /\ d # c
      BY <1>2, <3>1 DEF ConnectionInvariant, OpenIsHeld, ThreadPlaces
    <3> QED
      BY <1>6, <3>2
  <2> QED
    BY <2>1, <2>2
<1>9. NumbersAreOwn'
  <2> SUFFICES ASSUME run, NEW d \in Conns
               PROVE  NumberIsOwn(d)'
    BY <1>2 DEF NumbersAreOwn
  <2>1. CASE d = c
    BY <1>6, <2>1 DEF NumberIsOwn
  <2>2. CASE d # c
    <3> SUFFICES ASSUME fd[d] \notin reused', pc[d] \in ThreadPlaces
                 PROVE  /\ pc[d] # "rejected" => owner'[fd[d]] = d
                        /\ pc[d] = "rejected" => owner'[fd[d]] = NoConn
      BY <1>6, <2>2 DEF NumberIsOwn, ThreadPlaces
    <3>1. /\ fd[d] \in Fds
          /\ pc[d] # "rejected" => owner[fd[d]] = d
          /\ pc[d] = "rejected" => owner[fd[d]] = NoConn
      BY <1>4 DEF ConnectionInvariant, TypeOK, NumbersAreOwn, NumberIsOwn, ThreadPlaces
    <3>2. fd[d] # f
      BY <1>1, <1>4, <3>1, ConnectionParameters
    <3> QED
      BY <1>6, <3>1, <3>2
  <2> QED
    BY <2>1, <2>2
<1>10. StopComesLast'
  BY <1>2 DEF ConnectionInvariant, StopComesLast
<1> QED
  BY <1>7, <1>8, <1>9, <1>10 DEF ConnectionInvariant

\* A thread goes on, and no descriptor is opened or closed.
LEMMA ThreadGoesOn ==
  ASSUME ConnectionInvariant, NEW c \in Conns,
         NEW to \in {"reading", "processing", "check", "closing", "done"},
         pc' = [pc EXCEPT ![c] = to], pc[c] \in ThreadPlaces,
         to \in {"reading", "processing", "check"} => pc[c] # "rejected",
         to = "closing" => owner[fd[c]] # NoConn,
         to = "done" => owner[fd[c]] = NoConn,
         UNCHANGED <<owner, fd, run, toStop, reused>>
  PROVE  ConnectionInvariant'
<1>1. /\ pc' \in [Conns -> ThreadPlaces \cup {"none", "done"}]
      /\ pc'[c] = to /\ \A d \in Conns \ {c} : pc'[d] = pc[d]
  BY DEF ConnectionInvariant, TypeOK, ThreadPlaces
<1>2. fd[c] \in Fds
  BY DEF ConnectionInvariant, TypeOK, ThreadPlaces
<1>3. TypeOK'
  BY <1>1, <1>2 DEF ConnectionInvariant, TypeOK
<1>4. OpenIsHeld'
  <2> SUFFICES ASSUME NEW f \in Fds, NEW d \in Conns, owner[f] = d
               PROVE  f = fd[d] /\ pc'[d] \in ThreadPlaces
    BY DEF OpenIsHeld
  <2>1. f = fd[d] /\ pc[d] \in ThreadPlaces
    BY DEF ConnectionInvariant, OpenIsHeld
  <2>2. d = c => to # "done"
    BY <2>1, ConnectionParameters
  <2> QED
    BY <1>1, <2>1, <2>2 DEF ThreadPlaces
<1>5. NumbersAreOwn'
  <2> SUFFICES ASSUME run, NEW d \in Conns
               PROVE  NumberIsOwn(d)'
    BY DEF NumbersAreOwn
  <2>1. NumberIsOwn(d)
    BY DEF ConnectionInvariant, NumbersAreOwn
  <2>2. CASE d = c
    BY <1>1, <2>1, <2>2 DEF NumberIsOwn, ThreadPlaces
  <2>3. CASE d # c
    BY <1>1, <2>1, <2>3 DEF NumberIsOwn
  <2> QED
    BY <2>2, <2>3
<1>6. StopComesLast'
  BY DEF ConnectionInvariant, StopComesLast
<1> QED
  BY <1>3, <1>4, <1>5, <1>6 DEF ConnectionInvariant

\* A thread closes its number: its own connection, or one of a number that is
\* reused, which no other number is affected by.
LEMMA ThreadCloses ==
  ASSUME ConnectionInvariant, NEW c \in Conns, NEW to \in {"rejected", "done"},
         pc[c] \in {"processing", "closing"}, pc' = [pc EXCEPT ![c] = to],
         owner' = [owner EXCEPT ![fd[c]] = NoConn],
         UNCHANGED <<fd, run, toStop, reused>>
  PROVE  ConnectionInvariant'
<1>1. /\ pc' \in [Conns -> ThreadPlaces \cup {"none", "done"}]
      /\ pc'[c] = to /\ \A d \in Conns \ {c} : pc'[d] = pc[d]
  BY DEF ConnectionInvariant, TypeOK, ThreadPlaces
<1>2. fd[c] \in Fds
  BY DEF ConnectionInvariant, TypeOK
<1>3. /\ owner' \in [Fds -> Conns \cup {NoConn}] /\ owner'[fd[c]] = NoConn
      /\ \A e \in Fds \ {fd[c]} : owner'[e] = owner[e]
  BY <1>2 DEF ConnectionInvariant, TypeOK
<1>4. TypeOK'
  BY <1>1, <1>2, <1>3 DEF ConnectionInvariant, TypeOK
<1>5. OpenIsHeld'
  <2> SUFFICES ASSUME NEW f \in Fds, NEW d \in Conns, owner'[f] = d
               PROVE  f = fd[d] /\ pc'[d] \in ThreadPlaces
    BY DEF OpenIsHeld
  <2>1. f # fd[c] /\ owner[f] = d
    BY <1>3, ConnectionParameters
  <2>2. f = fd[d] /\ pc[d] \in ThreadPlaces
    BY <2>1 DEF ConnectionInvariant, OpenIsHeld
  <2> QED
    BY <1>1, <2>1, <2>2
<1>6. NumbersAreOwn'
  <2> SUFFICES ASSUME run, NEW d \in Conns, fd[d] \notin reused, pc'[d] \in ThreadPlaces
               PROVE  /\ pc'[d] # "rejected" => owner'[fd[d]] = d
                      /\ pc'[d] = "rejected" => owner'[fd[d]] = NoConn
    BY DEF NumbersAreOwn, NumberIsOwn, ThreadPlaces
  <2>1. CASE d = c
    BY <1>1, <1>3, <2>1 DEF ThreadPlaces
  <2>2. CASE d # c
    <3>1. /\ fd[d] \in Fds
          /\ pc[d] # "rejected" => owner[fd[d]] = d
          /\ pc[d] = "rejected" => owner[fd[d]] = NoConn
      BY <1>1, <2>2 DEF ConnectionInvariant, TypeOK, NumbersAreOwn, NumberIsOwn, ThreadPlaces
    <3>2. fd[d] = fd[c] => owner[fd[d]] = c
      BY DEF ConnectionInvariant, NumbersAreOwn, NumberIsOwn, ThreadPlaces
    <3>3. fd[d] # fd[c]
      BY <2>2, <3>1, <3>2, ConnectionParameters
    <3> QED
      BY <1>1, <1>3, <2>2, <3>1, <3>3
  <2> QED
    BY <2>1, <2>2
<1>7. StopComesLast'
  BY DEF ConnectionInvariant, StopComesLast
<1> QED
  BY <1>4, <1>5, <1>6, <1>7 DEF ConnectionInvariant

\* SIGPIPE: no thread is left, and nothing is open.
LEMMA BreakPipePreserves ==
  ASSUME ConnectionInvariant, NEW c \in Conns, BreakPipe(c)
  PROVE  ConnectionInvariant'
<1>1. /\ owner' = [f \in Fds |-> NoConn]
      /\ pc' = [d \in Conns |-> IF pc[d] = "none" THEN "none" ELSE "done"]
      /\ UNCHANGED <<fd, run, toStop, reused>>
  BY DEF BreakPipe
<1>2. \A d \in Conns : pc'[d] \notin ThreadPlaces
  BY <1>1 DEF ThreadPlaces
<1>3. TypeOK'
  BY <1>1 DEF ConnectionInvariant, TypeOK
<1>4. OpenIsHeld'
  BY <1>1, ConnectionParameters DEF OpenIsHeld
<1>5. NumbersAreOwn' /\ StopComesLast'
  BY <1>1, <1>2 DEF ConnectionInvariant, NumbersAreOwn, NumberIsOwn, StopComesLast, ThreadPlaces
<1> QED
  BY <1>3, <1>4, <1>5 DEF ConnectionInvariant

LEMMA ThreadStepPreserves ==
  ASSUME ConnectionInvariant, NEW c \in Conns, ThreadStep(c)
  PROVE  ConnectionInvariant'
<1>1. CASE Answer(c)
  <2>1. PICK to \in {"reading", "check"} :
          pc[c] = "processing" /\ pc' = [pc EXCEPT ![c] = to]
    BY <1>1 DEF Answer, Goes
  <2> QED
    BY <1>1, <2>1, ThreadGoesOn DEF Answer, ThreadPlaces
<1>2. CASE Read(c) \/ ReadEnds(c)
  <2>1. PICK to \in {"processing", "check"} :
          pc[c] = "reading" /\ pc' = [pc EXCEPT ![c] = to]
    BY <1>2 DEF Read, ReadEnds, Goes
  <2> QED
    BY <1>2, <2>1, ThreadGoesOn DEF Read, ReadEnds, ThreadPlaces
<1>3. CASE Check(c)
  <2>1. PICK to \in {"closing", "done"} :
          /\ pc[c] \in {"check", "rejected"} /\ pc' = [pc EXCEPT ![c] = to]
          /\ to = "closing" => owner[fd[c]] # NoConn
          /\ to = "done" => owner[fd[c]] = NoConn
    BY <1>3 DEF Check
  <2> QED
    BY <1>3, <2>1, ThreadGoesOn DEF Check, ThreadPlaces
<1>4. CASE Reject(c)
  <2>1. pc[c] = "processing" /\ pc' = [pc EXCEPT ![c] = "rejected"]
    BY <1>4 DEF Reject, Goes
  <2> QED
    BY <1>4, <2>1, ThreadCloses DEF Reject
<1>5. CASE CloseFd(c)
  <2>1. pc[c] = "closing" /\ pc' = [pc EXCEPT ![c] = "done"]
    BY <1>5 DEF CloseFd, Goes
  <2> QED
    BY <1>5, <2>1, ThreadCloses DEF CloseFd
<1> QED
  BY <1>1, <1>2, <1>3, <1>4, <1>5, BreakPipePreserves DEF ThreadStep

LEMMA ConnectionStep == ConnectionInvariant /\ [Next]_vars => ConnectionInvariant'
<1> SUFFICES ASSUME ConnectionInvariant, [Next]_vars
             PROVE  ConnectionInvariant'
  OBVIOUS
<1>1. ASSUME UNCHANGED <<owner, pc, fd, run, toStop, reused>>
      PROVE  ConnectionInvariant'
  BY <1>1 DEF ConnectionInvariant, TypeOK, OpenIsHeld, NumbersAreOwn, NumberIsOwn, StopComesLast
<1>2. CASE Stop
  BY <1>2 DEF Stop, ConnectionInvariant, TypeOK, OpenIsHeld, NumbersAreOwn, StopComesLast
<1>3. ASSUME NEW c \in Conns, StopClient(c)
      PROVE  ConnectionInvariant'
  <2>1. toStop # {} /\ UNCHANGED <<pc, fd, run, reused>>
    BY <1>3 DEF StopClient
  <2>2. ~run
    BY <2>1 DEF ConnectionInvariant, StopComesLast
  <2>3. /\ owner' \in [Fds -> Conns \cup {NoConn}]
        /\ \A f \in Fds : owner'[f] \in {owner[f], NoConn}
    BY <1>3 DEF StopClient, ConnectionInvariant, TypeOK
  <2>4. TypeOK'
    BY <2>1, <2>3 DEF ConnectionInvariant, TypeOK
  <2>5. OpenIsHeld'
    BY <2>1, <2>3, ConnectionParameters DEF ConnectionInvariant, OpenIsHeld
  <2> QED
    BY <2>1, <2>2, <2>4, <2>5 DEF ConnectionInvariant, NumbersAreOwn, StopComesLast
<1>4. ASSUME NEW c \in Conns, HangUp(c, {}) \/ HangUp(c, {c})
      PROVE  ConnectionInvariant'
  BY <1>1, <1>4 DEF HangUp
<1>5. CASE AcceptFails \/ UNCHANGED vars
  BY <1>1, <1>5 DEF AcceptFails, vars
<1> QED
  BY <1>2, <1>3, <1>4, <1>5, AcceptPreserves, ThreadStepPreserves DEF Next

\* For any number of connections and descriptors: while the server runs, a
\* thread reads, answers and closes only its own connection, unless accept()
\* has given out its number between a close after a malformed request and the
\* fcntl() of the thread that closed it (clientThreadEntry).  That window is
\* the only one, and the other numbers stay sound when it is hit.
THEOREM DescriptorsStayOwn == Spec => []DescriptorIsOwn
<1>1. ConnectionInvariant => DescriptorIsOwn
  BY DEF ConnectionInvariant, NumbersAreOwn, NumberIsOwn, ThreadPlaces, DescriptorIsOwn
<1> QED
  BY <1>1, ConnectionInit, ConnectionStep, PTL DEF Spec

\* No thread ends and leaves its connection open, not even one that has shared
\* its number or been overtaken by stop().
THEOREM ThreadsLeaveNothingOpen == Spec => []NothingIsLeaked
<1>1. ConnectionInvariant => NothingIsLeaked
  BY DEF ConnectionInvariant, OpenIsHeld, NothingIsLeaked, IsOpen, ThreadPlaces
<1> QED
  BY <1>1, ConnectionInit, ConnectionStep, PTL DEF Spec

---------------------------------------------------------------------------
(***************************************************************************)
(* The requests.                                                           *)
(***************************************************************************)
\* The shapes of the tables.
TablesTyped ==
  /\ groups \in [Ids -> GroupRow \cup {NoRow}]
  /\ routines \in [Ids -> RoutineRow \cup {NoRow}]
  /\ channels \in [Ids -> ChannelRow \cup {NoRow}]
  /\ mapped \in [Ids -> Mapping \cup {NoRow}]

\* What a handler on its way has looked up is there, and stays there.
HandlerIsSound ==
  /\ handler.op \in {"offset", "node", "store"} =>
       /\ handler \in ChannelUpdates
       /\ handler.op = "store" => handler.channel.node \in nodes
  /\ handler.op \in {"add", "remove"} =>
       /\ handler \in MappingChanges
       /\ \A g \in handler.found : groups[g] # NoRow
  /\ handler.op = "add" => handler.routine \in Ids /\ routines[handler.routine] # NoRow

RequestInvariant == TablesTyped /\ ReferencesExist /\ HandlerIsSound

\* Rows are only ever added or overwritten, never removed.
RowsStay(table, table2) == \A i \in Ids : table[i] # NoRow => table2[i] # NoRow

LEMMA IdleIsSound ==
  ASSUME handler' = Idle
  PROVE  HandlerIsSound'
BY DEF HandlerIsSound, Idle

\* A step that leaves the channels alone, maps only what has a row, and stores
\* no routine with a group that is not there.
LEMMA ReferencesStay ==
  ASSUME RequestInvariant, TablesTyped', HandlerIsSound',
         UNCHANGED channels, nodes \subseteq nodes',
         RowsStay(groups, groups'), RowsStay(routines, routines'),
         \A g \in Ids : mapped'[g] # NoRow =>
           \/ mapped[g] # NoRow /\ mapped'[g].routine = mapped[g].routine
           \/ groups[g] # NoRow /\ routines[mapped'[g].routine] # NoRow,
         \A g \in Ids \ wild' : groups'[g] # NoRow =>
           \/ g \notin wild /\ groups[g] # NoRow /\ groups'[g].routine = groups[g].routine
           \/ groups'[g].routine = 0
           \/ routines[groups'[g].routine] # NoRow
  PROVE  RequestInvariant'
<1>1. \A i \in Ids : channels[i] # NoRow =>
        channels[i].node \in nodes' /\ ~NodeIsTaken(channels[i].node, i)
  BY DEF RequestInvariant, ReferencesExist
<1>2. \A g \in Ids : mapped'[g] # NoRow =>
        groups'[g] # NoRow /\ routines'[mapped'[g].routine] # NoRow
  <2> SUFFICES ASSUME NEW g \in Ids, mapped'[g] # NoRow
               PROVE  groups'[g] # NoRow /\ routines'[mapped'[g].routine] # NoRow
    OBVIOUS
  <2>1. mapped'[g] \in Mapping
    BY DEF TablesTyped
  <2>2. mapped'[g].routine \in Ids
    BY <2>1 DEF Mapping
  <2>3. groups[g] # NoRow /\ routines[mapped'[g].routine] # NoRow
    BY DEF RequestInvariant, ReferencesExist
  <2> QED
    BY <2>2, <2>3 DEF RowsStay
<1>3. \A g \in Ids \ wild' : groups'[g] # NoRow =>
        groups'[g].routine = 0 \/ routines'[groups'[g].routine] # NoRow
  <2> SUFFICES ASSUME NEW g \in Ids \ wild', groups'[g] # NoRow, groups'[g].routine # 0
               PROVE  routines'[groups'[g].routine] # NoRow
    OBVIOUS
  <2>1. groups'[g] \in GroupRow
    BY DEF TablesTyped
  <2>2. groups'[g].routine \in Ids
    BY <2>1 DEF GroupRow
  <2>3. routines[groups'[g].routine] # NoRow
    BY DEF RequestInvariant, ReferencesExist
  <2> QED
    BY <2>2, <2>3 DEF RowsStay
<1>4. ReferencesExist'
  BY <1>1, <1>2, <1>3 DEF ReferencesExist, NodeIsTaken
<1> QED
  BY <1>4 DEF RequestInvariant

\* A channel is written whose node is known and has no other channel.
LEMMA ChannelWritten ==
  ASSUME RequestInvariant, NEW i \in Ids, NEW row \in ChannelRow,
         row.node \in nodes, ~NodeIsTaken(row.node, i),
         channels' = [channels EXCEPT ![i] = row], handler' = Idle,
         UNCHANGED <<nodes, groups, wild, routines, mapped>>
  PROVE  RequestInvariant'
<1>1. TablesTyped' /\ HandlerIsSound'
  BY IdleIsSound DEF RequestInvariant, TablesTyped
<1>2. channels'[i] = row /\ \A j \in Ids \ {i} : channels'[j] = channels[j]
  BY DEF RequestInvariant, TablesTyped
<1>3. \A j \in Ids \ {i} : channels[j] # NoRow => channels[j].node # row.node
  BY DEF NodeIsTaken
<1>4. ASSUME NEW j \in Ids, channels'[j] # NoRow
      PROVE  channels'[j].node \in nodes /\
             \A k \in Ids \ {j} : channels'[k] # NoRow => channels'[k].node # channels'[j].node
  <2>1. CASE j = i
    BY <1>2, <1>3, <2>1
  <2>2. CASE j # i
    <3>1. /\ channels[j] # NoRow /\ channels[j].node \in nodes
          /\ \A k \in Ids \ {j} : channels[k] # NoRow => channels[k].node # channels[j].node
      BY <1>2, <1>4, <2>2 DEF RequestInvariant, ReferencesExist, NodeIsTaken
    <3> QED
      BY <1>2, <1>3, <2>2, <3>1
  <2> QED
    BY <2>1, <2>2
<1>5. ReferencesExist'
  BY <1>4 DEF RequestInvariant, ReferencesExist, NodeIsTaken
<1> QED
  BY <1>1, <1>5 DEF RequestInvariant

LEMMA RequestInit == RequestsInit => RequestInvariant
BY DEF RequestsInit, RequestInvariant, TablesTyped, ReferencesExist, HandlerIsSound, Idle

\* The handler goes on or ends, and nothing is stored.
LEMMA TablesUnchanged ==
  ASSUME RequestInvariant, UNCHANGED <<nodes, tables, wild>>, HandlerIsSound'
  PROVE  RequestInvariant'
<1>1. UNCHANGED <<nodes, groups, routines, channels, mapped, wild>>
  BY DEF tables
<1> QED
  BY <1>1 DEF RequestInvariant, TablesTyped, ReferencesExist, NodeIsTaken

\* A request that is refused or throws, or ends the process, stores nothing.
LEMMA FailureStoresNothing ==
  ASSUME RequestInvariant, Refuse \/ Throw \/ Abort
  PROVE  RequestInvariant'
<1>1. UNCHANGED <<nodes, tables, wild>> /\ handler' = Idle
  BY DEF Refuse, Throw, Abort, Respond
<1> QED
  BY <1>1, TablesUnchanged, IdleIsSound

LEMMA GroupRequestPreserves ==
  ASSUME RequestInvariant, GroupRequest
  PROVE  RequestInvariant'
<1>1. ASSUME NEW i \in Ids, NEW name \in Names, NEW r \in Ids \cup {0},
             groups' = [groups EXCEPT ![i] = [name |-> name, routine |-> r]],
             \/ wild' = wild \cup {i}
             \/ wild' = wild \ {i} /\ (r = 0 \/ routines[r] # NoRow),
             handler' = Idle, UNCHANGED <<nodes, routines, channels, mapped>>
      PROVE  RequestInvariant'
  <2> DEFINE row == [name |-> name, routine |-> r]
  <2>1. row \in GroupRow /\ row # NoRow /\ row.routine = r
    BY RequestParameters DEF GroupRow
  <2> HIDE DEF row
  <2>2. groups'[i] = row /\ \A g \in Ids \ {i} : groups'[g] = groups[g]
    BY <1>1 DEF RequestInvariant, TablesTyped, row
  <2>3. TablesTyped' /\ RowsStay(groups, groups') /\ RowsStay(routines, routines')
    BY <1>1, <2>1, <2>2 DEF RequestInvariant, TablesTyped, RowsStay, row
  <2>4. \A g \in Ids \ wild' : groups'[g] # NoRow =>
          \/ g \notin wild /\ groups[g] # NoRow /\ groups'[g].routine = groups[g].routine
          \/ groups'[g].routine = 0
          \/ routines[groups'[g].routine] # NoRow
    BY <1>1, <2>1, <2>2
  <2>5. \A g \in Ids : mapped'[g] # NoRow => mapped[g] # NoRow /\ mapped'[g].routine = mapped[g].routine
    BY <1>1
  <2>6. HandlerIsSound'
    BY <1>1, IdleIsSound
  <2> QED
    BY <1>1, <2>3, <2>4, <2>5, <2>6, ReferencesStay
<1>2. ASSUME NEW complete \in BOOLEAN, NEW name \in Names, NewGroup(complete, name)
      PROVE  RequestInvariant'
  <2>1. CASE Refuse \/ Abort
    BY <2>1, FailureStoresNothing
  <2>2. CASE ~(Refuse \/ Abort)
    <3>1. PICK i \in Unused(groups), r \in Ids \cup {0} :
            /\ groups' = [groups EXCEPT ![i] = [name |-> name, routine |-> r]]
            /\ wild' = wild \cup {i}
      BY <1>2, <2>2 DEF NewGroup
    <3>2. i \in Ids /\ handler' = Idle /\ UNCHANGED <<nodes, routines, channels, mapped>>
      BY <1>2, <2>2 DEF NewGroup, Unused, Respond
    <3> QED
      BY <1>1, <3>1, <3>2
  <2> QED
    BY <2>1, <2>2
<1>3. ASSUME NEW i \in Ids, NEW name \in Names, UpdateGroup(i, name)
      PROVE  RequestInvariant'
  <2>1. CASE Refuse \/ Abort
    BY <2>1, FailureStoresNothing
  <2>2. CASE ~(Refuse \/ Abort)
    <3> DEFINE r == RoutineOf(groups[i].routine)
    <3>1. r \in Ids \cup {0} /\ (r = 0 \/ routines[r] # NoRow)
      BY DEF RoutineOf
    <3>2. /\ groups' = [groups EXCEPT ![i] = [name |-> name, routine |-> r]]
          /\ wild' = wild \ {i}
          /\ handler' = Idle /\ UNCHANGED <<nodes, routines, channels, mapped>>
      BY <1>3, <2>2 DEF UpdateGroup, Respond
    <3> HIDE DEF r
    <3> QED
      BY <1>1, <3>1, <3>2
  <2> QED
    BY <2>1, <2>2
<1> QED
  BY <1>2, <1>3 DEF GroupRequest

LEMMA RoutineRequestPreserves ==
  ASSUME RequestInvariant, RoutineRequest
  PROVE  RequestInvariant'
<1>1. ASSUME NEW i \in Ids, NEW row \in RoutineRow,
             routines' = [routines EXCEPT ![i] = row], handler' = Idle,
             UNCHANGED <<nodes, groups, wild, channels, mapped>>
      PROVE  RequestInvariant'
  <2>1. row # NoRow
    BY RequestParameters
  <2>2. TablesTyped' /\ RowsStay(groups, groups') /\ RowsStay(routines, routines')
    BY <1>1, <2>1 DEF RequestInvariant, TablesTyped, RowsStay
  <2>3. HandlerIsSound'
    BY <1>1, IdleIsSound
  <2> QED
    BY <1>1, <2>2, <2>3, ReferencesStay
<1>2. ASSUME NEW complete \in BOOLEAN, NEW row \in RoutineRow, NewRoutine(complete, row)
      PROVE  RequestInvariant'
  <2>1. CASE Refuse
    BY <2>1, FailureStoresNothing
  <2>2. CASE ~Refuse
    BY <1>1, <1>2, <2>2 DEF NewRoutine, Unused, Respond, groupVars
  <2> QED
    BY <2>1, <2>2
<1>3. ASSUME NEW i \in Ids, NEW code \in Texts, UpdateRoutine(i, code)
      PROVE  RequestInvariant'
  <2>1. CASE routines[i] = NoRow
    BY <1>3, <2>1, FailureStoresNothing DEF UpdateRoutine
  <2>2. CASE routines[i] # NoRow
    <3> DEFINE row == [routines[i] EXCEPT !.code = code]
    <3>1. routines[i] \in RoutineRow
      BY <2>2 DEF RequestInvariant, TablesTyped
    <3>2. row \in RoutineRow
      BY <3>1 DEF RoutineRow
    <3>3. /\ routines' = [routines EXCEPT ![i] = row] /\ handler' = Idle
          /\ UNCHANGED <<nodes, groups, wild, channels, mapped>>
      BY <1>3, <2>2 DEF UpdateRoutine, Respond, groupVars
    <3> QED
      BY <1>1, <3>2, <3>3
  <2> QED
    BY <2>1, <2>2
<1> QED
  BY <1>2, <1>3 DEF RoutineRequest

LEMMA ChannelRequestPreserves ==
  ASSUME RequestInvariant, ChannelRequest
  PROVE  RequestInvariant'
<1>1. ASSUME NEW valid \in BOOLEAN, NEW row \in ChannelRow, NewChannel(valid, row)
      PROVE  RequestInvariant'
  <2>1. CASE Refuse \/ Abort
    BY <2>1, FailureStoresNothing
  <2>2. CASE ~(Refuse \/ Abort)
    <3>1. /\ row.node \in nodes /\ ~NodeIsTaken(row.node, 0) /\ handler' = Idle
          /\ UNCHANGED <<nodes, groups, wild, routines, mapped>>
      BY <1>1, <2>2 DEF NewChannel, Respond, groupVars
    <3>2. PICK i \in Ids : channels' = [channels EXCEPT ![i] = row]
      BY <1>1, <2>2 DEF NewChannel, Unused
    <3>3. ~NodeIsTaken(row.node, i)
      BY <3>1, RequestParameters DEF NodeIsTaken
    <3> QED
      BY <3>1, <3>2, <3>3, ChannelWritten
  <2> QED
    BY <2>1, <2>2
<1>2. ASSUME NEW i \in Ids, NEW n \in Ids, NEW o \in Offsets, FindChannel(i, n, o)
      PROVE  RequestInvariant'
  <2>1. CASE Refuse
    BY <2>1, FailureStoresNothing
  <2>2. CASE ~Refuse
    <3> DEFINE h == [op |-> "offset", id |-> i, channel |-> channels[i],
                     node |-> n, fbOffset |-> o]
    <3>1. channels[i] # NoRow /\ handler' = h /\ UNCHANGED <<nodes, tables, wild>>
      BY <1>2, <2>2 DEF FindChannel, GoOn
    <3>2. channels[i] \in ChannelRow
      BY <3>1 DEF RequestInvariant, TablesTyped
    <3>3. h \in ChannelUpdates /\ h.op = "offset"
      BY <3>2 DEF ChannelUpdates
    <3> HIDE DEF h
    <3>4. HandlerIsSound'
      BY <3>1, <3>3 DEF HandlerIsSound
    <3> QED
      BY <3>1, <3>4, TablesUnchanged
  <2> QED
    BY <2>1, <2>2
<1> QED
  BY <1>1, <1>2 DEF ChannelRequest

\* The steps of clientRequesUpdateChannel after the channel is loaded.
LEMMA ChannelUpdatePreserves ==
  ASSUME RequestInvariant, SetOffset \/ SetNode \/ StoreChannel
  PROVE  RequestInvariant'
<1>1. CASE Refuse \/ Throw \/ Abort
  BY <1>1, FailureStoresNothing
<1>2. handler \in ChannelUpdates
  BY DEF SetOffset, SetNode, StoreChannel, RequestInvariant, HandlerIsSound
<1>3. /\ handler.id \in Ids /\ handler.node \in Ids /\ handler.fbOffset \in Offsets
      /\ handler.channel \in ChannelRow
  BY <1>2 DEF ChannelUpdates
<1>4. CASE SetOffset /\ ~(Refuse \/ Throw \/ Abort)
  <2> DEFINE ch == [handler.channel EXCEPT !.fbOffset = handler.fbOffset]
             h == [handler EXCEPT !.op = "node", !.channel = ch]
  <2>1. ch \in ChannelRow
    BY <1>3 DEF ChannelRow
  <2>2. handler' = h /\ UNCHANGED <<nodes, tables, wild>>
    BY <1>2, <1>4 DEF SetOffset, GoOn, ChannelUpdates
  <2> HIDE DEF ch
  <2>3. h \in ChannelUpdates /\ h.op = "node"
    BY <1>2, <2>1 DEF ChannelUpdates
  <2> HIDE DEF h
  <2>4. HandlerIsSound'
    BY <2>2, <2>3 DEF HandlerIsSound
  <2> QED
    BY <2>2, <2>4, TablesUnchanged
<1>5. CASE SetNode /\ ~(Refuse \/ Throw \/ Abort)
  <2> DEFINE ch == [handler.channel EXCEPT !.node = handler.node]
             h == [handler EXCEPT !.op = "store", !.channel = ch]
  <2>1. ch \in ChannelRow /\ ch.node = handler.node
    BY <1>3 DEF ChannelRow
  <2>2. handler' = h /\ handler.node \in nodes /\ UNCHANGED <<nodes, tables, wild>>
    BY <1>2, <1>5 DEF SetNode, GoOn, ChannelUpdates
  <2> HIDE DEF ch
  <2>3. h \in ChannelUpdates /\ h.op = "store" /\ h.channel = ch
    BY <1>2, <2>1 DEF ChannelUpdates
  <2> HIDE DEF h
  <2>4. HandlerIsSound'
    BY <2>1, <2>2, <2>3 DEF HandlerIsSound
  <2> QED
    BY <2>2, <2>4, TablesUnchanged
<1>6. CASE StoreChannel /\ ~(Refuse \/ Throw \/ Abort)
  <2>1. /\ handler.op = "store" /\ ~NodeIsTaken(handler.channel.node, handler.id)
        /\ channels' = [channels EXCEPT ![handler.id] = handler.channel]
        /\ handler' = Idle /\ UNCHANGED <<nodes, groups, wild, routines, mapped>>
    BY <1>6 DEF StoreChannel, Respond, groupVars
  <2>2. handler.channel.node \in nodes
    BY <2>1 DEF RequestInvariant, HandlerIsSound
  <2> QED
    BY <1>3, <2>1, <2>2, ChannelWritten
<1> QED
  BY <1>1, <1>4, <1>5, <1>6

\* A step that changes mappings only, to what has rows.
LEMMA MappingChanged ==
  ASSUME RequestInvariant, mapped' \in [Ids -> Mapping \cup {NoRow}],
         \A g \in Ids : mapped'[g] # NoRow =>
           \/ mapped[g] # NoRow /\ mapped'[g].routine = mapped[g].routine
           \/ groups[g] # NoRow /\ routines[mapped'[g].routine] # NoRow,
         HandlerIsSound', UNCHANGED <<nodes, groups, wild, routines, channels>>
  PROVE  RequestInvariant'
<1>1. TablesTyped' /\ RowsStay(groups, groups') /\ RowsStay(routines, routines')
  BY DEF RequestInvariant, TablesTyped, RowsStay
<1> QED
  BY <1>1, ReferencesStay

LEMMA MappingRequestPreserves ==
  ASSUME RequestInvariant, MappingRequest
  PROVE  RequestInvariant'
<1>1. ASSUME NEW r \in Ids, NEW gs \in SUBSET Ids, FindRoutine(r, gs)
      PROVE  RequestInvariant'
  <2>1. CASE Refuse
    BY <2>1, FailureStoresNothing
  <2>2. CASE ~Refuse
    <3> DEFINE h == [op |-> "add", routine |-> r, todo |-> gs, found |-> {}]
    <3>1. routines[r] # NoRow /\ handler' = h /\ UNCHANGED <<nodes, tables, wild>>
      BY <1>1, <2>2 DEF FindRoutine, GoOn
    <3>2. h \in MappingChanges /\ h.op = "add" /\ h.found = {} /\ h.routine = r
      BY DEF MappingChanges
    <3> HIDE DEF h
    <3>3. HandlerIsSound'
      BY <3>1, <3>2 DEF HandlerIsSound, tables
    <3> QED
      BY <3>1, <3>3, TablesUnchanged
  <2> QED
    BY <2>1, <2>2
<1>2. ASSUME NEW gs \in SUBSET Ids, BeginRemove(gs)
      PROVE  RequestInvariant'
  <2> DEFINE h == [op |-> "remove", routine |-> 0, todo |-> gs, found |-> {}]
  <2>1. handler' = h /\ UNCHANGED <<nodes, tables, wild>>
    BY <1>2 DEF BeginRemove, GoOn
  <2>2. h \in MappingChanges /\ h.op = "remove" /\ h.found = {}
    BY DEF MappingChanges
  <2> HIDE DEF h
  <2>3. HandlerIsSound'
    BY <2>1, <2>2 DEF HandlerIsSound
  <2> QED
    BY <2>1, <2>3, TablesUnchanged
<1>3. ASSUME NEW g \in Ids, NEW inRange \in BOOLEAN, SetBrightness(g, inRange)
      PROVE  RequestInvariant'
  <2>1. CASE mapped[g] = NoRow
    BY <1>3, <2>1, FailureStoresNothing DEF SetBrightness
  <2>2. CASE mapped[g] # NoRow
    <3>1. /\ mapped' = IF inRange THEN [mapped EXCEPT ![g].brightness = "dim"] ELSE mapped
          /\ handler' = Idle /\ UNCHANGED <<nodes, groups, wild, routines, channels>>
      BY <1>3, <2>2 DEF SetBrightness, Respond, groupVars
    <3> DEFINE m == [mapped[g] EXCEPT !.brightness = "dim"]
    <3>2. mapped[g] \in Mapping /\ mapped \in [Ids -> Mapping \cup {NoRow}]
      BY <2>2 DEF RequestInvariant, TablesTyped
    <3>3. m \in Mapping /\ m.routine = mapped[g].routine
      BY <3>2 DEF Mapping, Levels
    <3>4. mapped' = mapped \/ mapped' = [mapped EXCEPT ![g] = m]
      BY <3>1
    <3> HIDE DEF m
    <3>5. mapped' \in [Ids -> Mapping \cup {NoRow}]
      BY <3>2, <3>3, <3>4
    <3>6. \A k \in Ids : mapped'[k] # NoRow =>
            mapped[k] # NoRow /\ mapped'[k].routine = mapped[k].routine
      BY <2>2, <3>2, <3>3, <3>4
    <3> QED
      BY <3>1, <3>5, <3>6, IdleIsSound, MappingChanged
  <2> QED
    BY <2>1, <2>2
<1> QED
  BY <1>1, <1>2, <1>3 DEF MappingRequest

\* The steps of clientRequestAddMapping and clientRequestRemoveMapping.
LEMMA MappingStepPreserves ==
  ASSUME RequestInvariant, handler.op \in {"add", "remove"},
         \/ AddMapping \/ RemoveEnds
         \/ \E g \in Ids : FindGroup(g) \/ RemoveMapping(g)
  PROVE  RequestInvariant'
<1>1. CASE Refuse \/ Throw
  BY <1>1, FailureStoresNothing
<1>2. handler \in MappingChanges /\ \A g \in handler.found : groups[g] # NoRow
  BY DEF RequestInvariant, HandlerIsSound
<1>3. /\ handler.todo \subseteq Ids /\ handler.found \subseteq Ids
      /\ handler.op = "add" => handler.routine \in Ids /\ routines[handler.routine] # NoRow
  BY <1>2 DEF MappingChanges, RequestInvariant, HandlerIsSound
<1>4. mapped \in [Ids -> Mapping \cup {NoRow}]
  BY DEF RequestInvariant, TablesTyped
<1>5. CASE AddMapping /\ ~(Refuse \/ Throw)
  <2> DEFINE m == [routine |-> handler.routine, brightness |-> "full"]
  <2>1. /\ mapped' = [g \in Ids |-> IF g \in handler.found THEN m ELSE mapped[g]]
        /\ handler.op = "add" /\ handler' = Idle
        /\ UNCHANGED <<nodes, groups, wild, routines, channels>>
    BY <1>5 DEF AddMapping, Respond, groupVars
  <2>2. m \in Mapping /\ m.routine = handler.routine
    BY <1>3, <2>1 DEF Mapping, Levels
  <2> HIDE DEF m
  <2>3. mapped' \in [Ids -> Mapping \cup {NoRow}]
    BY <1>4, <2>1, <2>2
  <2>4. \A g \in Ids : mapped'[g] # NoRow =>
          \/ mapped[g] # NoRow /\ mapped'[g].routine = mapped[g].routine
          \/ groups[g] # NoRow /\ routines[mapped'[g].routine] # NoRow
    BY <1>2, <1>3, <2>1, <2>2
  <2> QED
    BY <2>1, <2>3, <2>4, IdleIsSound, MappingChanged
<1>6. CASE RemoveEnds
  BY <1>6, IdleIsSound, TablesUnchanged DEF RemoveEnds, Respond
<1>7. ASSUME NEW g \in Ids, FindGroup(g), ~(Refuse \/ Throw)
      PROVE  RequestInvariant'
  <2> DEFINE todo == handler.todo \ {g}
             found == handler.found \cup {g}
             h == [handler EXCEPT !.todo = todo, !.found = found]
  <2>1. groups[g] # NoRow /\ handler' = h /\ UNCHANGED <<nodes, tables, wild>>
    BY <1>2, <1>7 DEF FindGroup, GoOn, MappingChanges
  <2>2. todo \subseteq Ids /\ found \subseteq Ids /\ \A k \in found : groups[k] # NoRow
    BY <1>2, <1>3, <2>1
  <2> HIDE DEF todo, found
  <2>3. /\ h \in MappingChanges /\ h.op = handler.op /\ h.found = found
        /\ h.routine = handler.routine
    BY <1>2, <2>2 DEF MappingChanges
  <2> HIDE DEF h
  <2>4. HandlerIsSound'
    BY <1>3, <2>1, <2>2, <2>3 DEF HandlerIsSound, tables
  <2> QED
    BY <2>1, <2>4, TablesUnchanged
<1>8. ASSUME NEW g \in Ids, RemoveMapping(g)
      PROVE  RequestInvariant'
  <2> DEFINE found == handler.found \ {g}
             h == [handler EXCEPT !.found = found]
  <2>1. /\ mapped' = [mapped EXCEPT ![g] = NoRow] /\ handler.op = "remove"
        /\ handler' = h /\ UNCHANGED <<nodes, groups, wild, routines, channels>>
    BY <1>8 DEF RemoveMapping, GoOn, groupVars
  <2>2. found \subseteq Ids /\ \A k \in found : groups[k] # NoRow
    BY <1>2, <1>3
  <2> HIDE DEF found
  <2>3. h \in MappingChanges /\ h.op = "remove" /\ h.found = found
    BY <1>2, <2>1, <2>2 DEF MappingChanges
  <2> HIDE DEF h
  <2>4. HandlerIsSound'
    BY <2>1, <2>2, <2>3 DEF HandlerIsSound
  <2>5. mapped' \in [Ids -> Mapping \cup {NoRow}] /\
        \A k \in Ids : mapped'[k] # NoRow =>
          mapped[k] # NoRow /\ mapped'[k].routine = mapped[k].routine
    BY <1>4, <2>1
  <2> QED
    BY <2>1, <2>4, <2>5, MappingChanged
<1> QED
  BY <1>1, <1>5, <1>6, <1>7, <1>8

LEMMA RequestStep ==
  ASSUME RequestInvariant, [RequestsNext]_requestVars
  PROVE  RequestInvariant'
<1>1. CASE UNCHANGED <<nodes, tables, wild>> /\ handler' = Idle
  BY <1>1, TablesUnchanged, IdleIsSound
<1>2. CASE Status \/ NoHandler \/ List(TRUE)
  BY <1>1, <1>2 DEF Status, NoHandler, List, Respond
<1>3. ASSUME NEW i \in Ids, UpdateNode(i) \/ ListRequest(i)
      PROVE  RequestInvariant'
  BY <1>1, <1>3 DEF UpdateNode, Refuse, ListRequest, ListNodes, ListGroups,
                    ListRoutines, ListChannels, List, Respond
<1>4. ASSUME NEW i \in Ids, NodeAnnounces(i)
      PROVE  RequestInvariant'
  <2>1. /\ nodes \subseteq nodes' /\ UNCHANGED handler
        /\ UNCHANGED <<groups, routines, channels, mapped, wild>>
    BY <1>4 DEF NodeAnnounces, tables
  <2>2. TablesTyped' /\ RowsStay(groups, groups') /\ RowsStay(routines, routines')
    BY <2>1 DEF RequestInvariant, TablesTyped, RowsStay
  <2>3. HandlerIsSound'
    BY <2>1 DEF RequestInvariant, HandlerIsSound
  <2> QED
    BY <2>1, <2>2, <2>3, ReferencesStay
<1>5. CASE UNCHANGED requestVars
  <2>1. UNCHANGED <<nodes, tables, wild>> /\ HandlerIsSound'
    BY <1>5 DEF requestVars, tables, RequestInvariant, HandlerIsSound
  <2> QED
    BY <2>1, TablesUnchanged
<1>6. CASE BeginRequest
  BY <1>2, <1>3, <1>6, GroupRequestPreserves, RoutineRequestPreserves,
     ChannelRequestPreserves, MappingRequestPreserves DEF BeginRequest
<1>7. CASE GoOnWithRequest
  <2>1. CASE SetOffset \/ SetNode \/ StoreChannel
    BY <2>1, ChannelUpdatePreserves
  <2>2. CASE ~(SetOffset \/ SetNode \/ StoreChannel)
    <3>1. handler.op \in {"add", "remove"}
      BY <1>7, <2>2 DEF GoOnWithRequest, AddMapping, RemoveEnds, FindGroup, RemoveMapping
    <3> QED
      BY <1>7, <2>2, <3>1, MappingStepPreserves DEF GoOnWithRequest
  <2> QED
    BY <2>1, <2>2
<1> QED
  BY <1>4, <1>5, <1>6, <1>7 DEF RequestsNext

\* After any sequence of requests, over tables of any size and with nodes that
\* announce themselves in between, a channel's node is known and has no other
\* channel, a mapped group and its routine have their rows, and so has the
\* routine of a group that has been updated: every handler looks up what it
\* refers to before it stores, and no handler removes a row.
THEOREM ReferencesStayValid == RequestsSpec => []ReferencesExist
<1>1. RequestInvariant => ReferencesExist
  BY DEF RequestInvariant
<1>2. RequestInvariant /\ [RequestsNext]_requestVars => RequestInvariant'
  BY RequestStep
<1> QED
  BY <1>1, <1>2, RequestInit, PTL DEF RequestsSpec

---------------------------------------------------------------------------
\* A handler that is not done has changed nothing, unless it removes mappings
\* and has found all their groups; nothing can fail after that.
ChangesComeLast ==
  /\ FailuresChangeNothing
  /\ dirty /\ handler # Idle => handler.op = "remove" /\ handler.todo = {}

\* How a step of a request may end, if it stores anything at all.
StepIsClean ==
  \/ /\ UNCHANGED tables
     /\ handler = Idle \/ ~dirty
  \/ /\ handler' # Idle => handler'.op = "remove" /\ handler'.todo = {}
     /\ response' \notin {"error", "closed"} /\ ~aborted'

LEMMA BeginIsClean ==
  ASSUME BeginRequest, ~aborted
  PROVE  StepIsClean
<1>1. handler = Idle
  BY DEF BeginRequest
<1>2. CASE UNCHANGED tables
  BY <1>1, <1>2 DEF StepIsClean
<1>3. CASE Status \/ NoHandler \/ List(TRUE)
  BY <1>2, <1>3 DEF Status, NoHandler, List
<1>4. ASSUME NEW i \in Ids, UpdateNode(i) \/ ListRequest(i)
      PROVE  StepIsClean
  BY <1>2, <1>4 DEF UpdateNode, ListRequest, ListNodes, ListGroups, ListRoutines,
                    ListChannels, List, Refuse
<1>5. CASE handler' = Idle /\ response' = "0" /\ aborted' = aborted
  BY <1>5 DEF StepIsClean
<1>6. CASE GroupRequest
  BY <1>2, <1>5, <1>6 DEF GroupRequest, NewGroup, UpdateGroup, Refuse, Abort, Respond
<1>7. CASE RoutineRequest
  BY <1>2, <1>5, <1>7 DEF RoutineRequest, NewRoutine, UpdateRoutine, Refuse, Respond
<1>8. CASE ChannelRequest
  BY <1>2, <1>5, <1>8 DEF ChannelRequest, NewChannel, FindChannel, Refuse, Abort, Respond
<1>9. CASE MappingRequest
  BY <1>2, <1>5, <1>9 DEF MappingRequest, FindRoutine, BeginRemove, SetBrightness, Refuse, Respond
<1> QED
  BY <1>3, <1>4, <1>6, <1>7, <1>8, <1>9 DEF BeginRequest

LEMMA GoOnIsClean ==
  ASSUME RequestInvariant, ChangesComeLast, GoOnWithRequest, ~aborted
  PROVE  StepIsClean
<1>1. Idle.op = "idle"
  BY DEF Idle
<1>2. CASE SetOffset \/ SetNode \/ StoreChannel
  <2>1. ~dirty
    BY <1>1, <1>2 DEF SetOffset, SetNode, StoreChannel, ChangesComeLast
  <2>2. UNCHANGED tables \/ (handler' = Idle /\ response' = "0" /\ aborted' = aborted)
    BY <1>2 DEF SetOffset, SetNode, StoreChannel, Refuse, Throw, Abort, Respond
  <2> QED
    BY <2>1, <2>2 DEF StepIsClean
<1>3. CASE AddMapping
  <2>1. ~dirty
    BY <1>1, <1>3 DEF AddMapping, ChangesComeLast
  <2>2. UNCHANGED tables \/ (handler' = Idle /\ response' = "0" /\ aborted' = aborted)
    BY <1>3 DEF AddMapping, Throw, Respond
  <2> QED
    BY <2>1, <2>2 DEF StepIsClean
<1>4. CASE RemoveEnds
  BY <1>4 DEF RemoveEnds, Respond, StepIsClean
<1>5. ASSUME NEW g \in Ids, FindGroup(g)
      PROVE  StepIsClean
  <2>1. ~dirty
    BY <1>1, <1>5 DEF FindGroup, ChangesComeLast
  <2> QED
    BY <1>5, <2>1 DEF FindGroup, Refuse, StepIsClean
<1>6. ASSUME NEW g \in Ids, RemoveMapping(g)
      PROVE  StepIsClean
  <2> DEFINE h == [handler EXCEPT !.found = handler.found \ {g}]
  <2>1. /\ handler.op = "remove" /\ handler.todo = {} /\ handler' = h
        /\ response' = "none" /\ aborted' = aborted
    BY <1>6 DEF RemoveMapping, GoOn
  <2>2. handler \in MappingChanges
    BY <2>1 DEF RequestInvariant, HandlerIsSound
  <2>3. h.op = "remove" /\ h.todo = {}
    BY <2>1, <2>2 DEF MappingChanges
  <2> HIDE DEF h
  <2> QED
    BY <1>1, <2>1, <2>3 DEF StepIsClean
<1> QED
  BY <1>2, <1>3, <1>4, <1>5, <1>6 DEF GoOnWithRequest

LEMMA ChangesStep ==
  ASSUME RequestInvariant, ChangesComeLast, [RequestsNext]_requestVars
  PROVE  ChangesComeLast'
<1>1. CASE UNCHANGED requestVars
  <2>1. dirty' = dirty /\ handler' = handler /\ response' = response /\ aborted' = aborted
    BY <1>1 DEF requestVars
  <2> QED
    BY <2>1, Zenon DEF ChangesComeLast, FailuresChangeNothing
<1>2. CASE RequestsNext
  <2>1. ~aborted
    BY <1>2 DEF RequestsNext
  <2>2. (tables' = tables /\ (~dirty \/ handler = Idle)) => ~dirty'
    BY <1>2, Zenon DEF RequestsNext
  <2>3. (tables' = tables /\ dirty') => (dirty /\ handler # Idle)
    BY <1>2, Zenon DEF RequestsNext
  <2>4. ASSUME NEW i \in Ids, NodeAnnounces(i)
        PROVE  ChangesComeLast'
    <3>1. /\ tables' = tables /\ handler' = handler /\ ~aborted'
          /\ response' \notin {"error", "closed"}
      BY <2>1, <2>4 DEF NodeAnnounces
    <3> QED
      BY <2>3, <3>1, Zenon DEF ChangesComeLast, FailuresChangeNothing
  <2>5. CASE StepIsClean
    <3>1. CASE UNCHANGED tables /\ (handler = Idle \/ ~dirty)
      <4>1. ~dirty'
        BY <2>2, <3>1
      <4> QED
        BY <4>1, Zenon DEF ChangesComeLast, FailuresChangeNothing
    <3>2. CASE ~(UNCHANGED tables /\ (handler = Idle \/ ~dirty))
      BY <2>5, <3>2, Zenon DEF StepIsClean, ChangesComeLast, FailuresChangeNothing
    <3> QED
      BY <3>1, <3>2
  <2> QED
    BY <1>2, <2>1, <2>4, <2>5, BeginIsClean, GoOnIsClean DEF RequestsNext
<1> QED
  BY <1>1, <1>2

\* Whatever a handler may fail on comes before the first thing it changes: an
\* error response, an exception or a failed CHECK leaves every table and every
\* mapping as it was, over tables of any size and lists of any length.
THEOREM FailedRequestsChangeNothing == RequestsSpec => []FailuresChangeNothing
<1>1. RequestsInit => RequestInvariant /\ ChangesComeLast
  BY RequestInit DEF RequestsInit, ChangesComeLast, FailuresChangeNothing
<1>2. RequestInvariant /\ ChangesComeLast /\ [RequestsNext]_requestVars
        => RequestInvariant' /\ ChangesComeLast'
  BY RequestStep, ChangesStep
<1>3. ChangesComeLast => FailuresChangeNothing
  BY DEF ChangesComeLast
<1> QED
  BY <1>1, <1>2, <1>3, PTL DEF RequestsSpec
===========================================================================
