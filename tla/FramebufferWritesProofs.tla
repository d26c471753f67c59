----------------------- MODULE FramebufferWritesProofs -----------------------
(***************************************************************************)
(* Proofs about FramebufferWrites, for any nodes, any number of writes     *)
(* that wait for their acks, any timer ids and any limits.                 *)
(***************************************************************************)
EXTENDS FramebufferWrites, SequenceTheorems, TLAPS

Writes == [txn : Txns, id : TimerIds]

Threads(pcs, indices) ==
  [pc : pcs, txn : Txns \cup {NoTxn}, id : TimerIds \cup {NoTimer}, i : indices, moved : BOOLEAN]

(***************************************************************************)
(* Where the three threads are, and what the list and the counters hold.   *)
(***************************************************************************)
TypeOK ==
  /\ sender \in Threads({"idle", "sent", "armed", "listed"}, {0})
  /\ worker \in Threads({"idle", "found", "erase", "uncount"}, Nat)
  /\ expiry \in Threads({"idle", "erase", "uncount"}, Nat)
  /\ sender.pc # "idle" => sender.txn \in Txns
  /\ sender.pc = "armed" => sender.id \in TimerIds
  /\ worker.pc = "found" => worker.txn \in Txns /\ worker.id \in TimerIds
  /\ pending \in Seq(Writes)
  /\ numPendingFBWrites \in Int
  /\ timers \in [TimerIds -> Txns \cup {NoTxn}]
  /\ shutDown \in BOOLEAN /\ corrupt \in BOOLEAN

\* No transaction is listed twice.
ListedOnce == \A i, j \in DOMAIN pending : pending[i].txn = pending[j].txn => i = j

\* A write that is about to be listed is not listed yet, and no handler is
\* busy with its transaction.
SentIsNew ==
  sender.pc \in {"sent", "armed"} =>
    ~Listed(sender.txn) /\ worker.txn # sender.txn /\ expiry.txn # sender.txn

\* Once its timer has been armed it runs, or the write has gone astray.
SentIsTimed == sender.pc = "armed" => Armed(sender.txn) \/ sender.txn \in astray

\* The list as long as nothing was erased beyond its end.
ListInvariant == ListedOnce /\ SentIsNew /\ SentIsTimed

\* The counters of errors: errorPackets counts the failures in a row, and
\* both stop at the same bound.
ErrorInvariant ==
  /\ errorPackets \in [Nodes -> 0..(MaxPacketsWithErrors + 1)]
  /\ errorTimer \in [Nodes -> Nat]
  /\ failures = errorPackets
  /\ PauseFollowsErrors

WritesInvariant ==
  /\ TypeOK
  /\ ~corrupt => ListInvariant
  /\ EraseIsOwn
  /\ PendingIsGuarded
  /\ CounterMatchesList

---------------------------------------------------------------------------
(***************************************************************************)
(* The list.                                                               *)
(***************************************************************************)

\* pendingFBDataWrites.push_back
LEMMA AppendFacts ==
  ASSUME NEW s \in Seq(Writes), NEW t \in Writes
  PROVE  /\ Append(s, t) \in Seq(Writes)
         /\ Len(Append(s, t)) = Len(s) + 1
         /\ DOMAIN Append(s, t) = DOMAIN s \cup {Len(s) + 1}
         /\ \A j \in DOMAIN s : Append(s, t)[j] = s[j]
         /\ Append(s, t)[Len(s) + 1] = t
OBVIOUS

\* erase(begin() + i)
LEMMA RemoveAtFacts ==
  ASSUME NEW s \in Seq(Writes), NEW i \in DOMAIN s
  PROVE  /\ RemoveAt(s, i) \in Seq(Writes)
         /\ Len(RemoveAt(s, i)) = Len(s) - 1
         /\ \A j \in DOMAIN RemoveAt(s, i) :
              /\ j \in 1..(Len(s) - 1)
              /\ RemoveAt(s, i)[j] = IF j < i THEN s[j] ELSE s[j + 1]
<1> DEFINE a == SubSeq(s, 1, i - 1)
           b == SubSeq(s, i + 1, Len(s))
<1>1. Len(s) \in Nat /\ i \in 1..Len(s) /\ \A j \in 1..Len(s) : s[j] \in Writes
  OBVIOUS
<1>2. a \in Seq(Writes) /\ Len(a) = i - 1 /\ \A j \in 1..(i - 1) : a[j] = s[j]
  BY <1>1
<1>3. b \in Seq(Writes) /\ Len(b) = Len(s) - i /\ \A j \in 1..(Len(s) - i) : b[j] = s[i + j]
  BY <1>1
<1>4. RemoveAt(s, i) = a \o b
  BY DEF RemoveAt
<1> HIDE DEF a, b
<1>5. /\ a \o b \in Seq(Writes)
      /\ Len(a \o b) = Len(a) + Len(b)
      /\ \A j \in 1..(Len(a) + Len(b)) :
           (a \o b)[j] = IF j <= Len(a) THEN a[j] ELSE b[j - Len(a)]
  BY <1>2, <1>3, ConcatProperties
<1>6. Len(a) + Len(b) = Len(s) - 1
  BY <1>1, <1>2, <1>3
<1>7. ASSUME NEW j \in 1..(Len(s) - 1)
      PROVE  (a \o b)[j] = IF j < i THEN s[j] ELSE s[j + 1]
  <2>1. CASE j < i
    BY <1>1, <1>2, <1>5, <1>6, <2>1
  <2>2. CASE ~(j < i)
    <3>1. /\ j \in 1..(Len(a) + Len(b)) /\ ~(j <= Len(a))
          /\ j - (i - 1) \in 1..(Len(s) - i) /\ i + (j - (i - 1)) = j + 1
      BY <1>1, <1>2, <1>6, <2>2
    <3>2. (a \o b)[j] = b[j - Len(a)]
      BY <1>5, <3>1
    <3>3. b[j - (i - 1)] = s[j + 1]
      BY <1>3, <3>1
    <3> QED
      BY <1>2, <2>2, <3>2, <3>3
  <2> QED
    BY <2>1, <2>2
<1>8. DOMAIN (a \o b) = 1..(Len(s) - 1)
  BY <1>5, <1>6
<1> QED
  BY <1>4, <1>5, <1>6, <1>7, <1>8

\* Looking a transaction up finds the index that holds it.
LEMMA FoundFacts ==
  ASSUME NEW t \in Txns, NEW pc, pending \in Seq(Writes), Listed(t), ListedOnce
  PROVE  \E k \in DOMAIN pending :
           /\ pending[k].txn = t /\ pending[k].id \in TimerIds
           /\ Found(pc, t) = Thread(pc, t, pending[k].id, k)
<1>1. PICK k \in DOMAIN pending : pending[k].txn = t
  BY DEF Listed
<1>2. \A j \in 1..(k - 1) : j \in DOMAIN pending /\ j # k
  OBVIOUS
<1>3. \A j \in 1..(k - 1) : pending[j].txn # t
  BY <1>1, <1>2 DEF ListedOnce
<1>4. /\ FirstIndex(t) \in DOMAIN pending
      /\ pending[FirstIndex(t)].txn = t
  BY <1>1, <1>3 DEF FirstIndex
<1>5. pending[FirstIndex(t)] \in Writes
  BY <1>4
<1> QED
  BY <1>4, <1>5 DEF Found, Writes

\* What is listed has a transaction number.
LEMMA EntryFacts ==
  ASSUME pending \in Seq(Writes)
  PROVE  \A i \in DOMAIN pending : pending[i].txn \in Txns
<1>1. \A i \in DOMAIN pending : pending[i] \in Writes
  OBVIOUS
<1>2. \A w \in Writes : w.txn \in Txns
  BY DEF Writes
<1> QED
  BY <1>1, <1>2

LEMMA InStateIsInt == \A th, state : InState(th, state) \in Int
BY DEF InState

---------------------------------------------------------------------------
(***************************************************************************)
(* The steps of the coordinator.                                           *)
(***************************************************************************)
listState == <<sender, listVars, timers, worker, expiry, shutDown, astray, corrupt>>

\* A step that only counts errors, or loses an ack.
LEMMA OtherStepsPreserve ==
  ASSUME WritesInvariant, UNCHANGED listState
  PROVE  WritesInvariant'
<1> USE DEF WritesInvariant, listState, listVars
<1>1. TypeOK' /\ CounterMatchesList'
  BY DEF TypeOK, CounterMatchesList, InState
<1>2. PendingIsGuarded' /\ EraseIsOwn'
  BY DEF PendingIsGuarded, EraseIsOwn, Armed, IsHolding
<1>3. (~corrupt => ListInvariant)'
  BY DEF ListInvariant, ListedOnce, SentIsNew, SentIsTimed, Listed, Armed
<1> QED
  BY <1>1, <1>2, <1>3

\* sendto has succeeded: the transaction number is a fresh one.
LEMMA SendSucceedsPreserves ==
  ASSUME WritesInvariant, ~corrupt, NEW n \in Nodes, NEW t \in Txns, SendSucceeds(n, t)
  PROVE  WritesInvariant'
<1> USE DEF WritesInvariant
<1>1. /\ sender.pc = "idle" /\ sender' = Thread("sent", t, NoTimer, 0)
      /\ UNCHANGED <<listVars, timers, worker, expiry, shutDown, corrupt>>
      /\ astray' = astray \ {t}
      /\ ~Listed(t) /\ worker.txn # t /\ expiry.txn # t
  BY DEF SendSucceeds, IsUnused
<1>2. sender'.pc = "sent" /\ sender'.txn = t
  BY <1>1 DEF Thread
<1>3. TypeOK'
  BY <1>1 DEF TypeOK, listVars, Threads, Thread
<1>4. ListInvariant'
  BY <1>1, <1>2 DEF ListInvariant, ListedOnce, SentIsNew, SentIsTimed, Listed, listVars
<1>5. PendingIsGuarded'
  BY <1>1 DEF PendingIsGuarded, listVars, Armed, Listed
<1>6. EraseIsOwn'
  BY <1>1 DEF EraseIsOwn, listVars, IsHolding
<1>7. CounterMatchesList'
  BY <1>1, <1>2 DEF CounterMatchesList, InState, listVars
<1> QED
  BY <1>3, <1>4, <1>5, <1>6, <1>7

LEMMA ArmTimerPreserves ==
  ASSUME WritesInvariant, ~corrupt, NEW id \in TimerIds, ArmTimer(id)
  PROVE  WritesInvariant'
<1> USE DEF WritesInvariant
<1>1. /\ sender.pc = "sent" /\ sender' = Thread("armed", sender.txn, id, 0)
      /\ timers[id] = NoTxn /\ timers' = [timers EXCEPT ![id] = sender.txn]
      /\ UNCHANGED <<listVars, worker, expiry, shutDown, astray, corrupt>>
  BY DEF ArmTimer, IsFree
<1>2. /\ sender'.pc = "armed" /\ sender'.txn = sender.txn /\ sender.txn \in Txns
      /\ timers \in [TimerIds -> Txns \cup {NoTxn}]
  BY <1>1 DEF TypeOK, Thread
<1>3. TypeOK'
  BY <1>1, <1>2 DEF TypeOK, listVars, Threads, Thread
<1>4. \A u \in Txns : Armed(u) => Armed(u)'
  BY <1>1, <1>2, ParametersAreSane DEF Armed
<1>5. Armed(sender.txn)'
  BY <1>1, <1>2 DEF Armed
<1>6. ListInvariant'
  <2>1. SentIsTimed'
    <3>1. \E k \in TimerIds : timers'[k] = sender'.txn
      BY <1>1, <1>2
    <3> QED
      BY <3>1 DEF SentIsTimed, Armed
  <2>2. ListedOnce' /\ SentIsNew'
    BY <1>1, <1>2 DEF ListInvariant, ListedOnce, SentIsNew, Listed, listVars
  <2> QED
    BY <2>1, <2>2 DEF ListInvariant
<1>7. PendingIsGuarded'
  <2>1. \A i \in DOMAIN pending : pending[i].txn \in Txns
    BY EntryFacts DEF TypeOK
  <2>2. \A i \in DOMAIN pending : Armed(pending[i].txn) => (Armed(pending[i].txn))'
    BY <1>1, <1>4, <2>1 DEF listVars, Armed
  <2> QED
    BY <1>1, <2>2 DEF PendingIsGuarded, listVars, IsHolding
<1>8. EraseIsOwn'
  BY <1>1 DEF EraseIsOwn, listVars, IsHolding
<1>9. CounterMatchesList'
  BY <1>1, <1>2 DEF CounterMatchesList, InState, listVars
<1> QED
  BY <1>3, <1>6, <1>7, <1>8, <1>9

\* The write joins the list at its end, where no index that was found points.
LEMMA ListWritePreserves ==
  ASSUME WritesInvariant, ~corrupt, ListWrite
  PROVE  WritesInvariant'
<1> USE DEF WritesInvariant
<1> DEFINE w == [txn |-> sender.txn, id |-> sender.id]
<1>1. /\ sender.pc = "armed" /\ sender' = [sender EXCEPT !.pc = "listed"]
      /\ pending' = Append(pending, w)
      /\ UNCHANGED <<numPendingFBWrites, timers, worker, expiry, shutDown, astray, corrupt>>
  BY DEF ListWrite
<1>2. /\ sender'.pc = "listed" /\ sender'.txn = sender.txn
      /\ w \in Writes /\ w.txn = sender.txn /\ pending \in Seq(Writes)
  BY <1>1 DEF TypeOK, Threads, Writes
<1> HIDE DEF w
<1>3. /\ pending' \in Seq(Writes)
      /\ Len(pending') = Len(pending) + 1
      /\ DOMAIN pending' = DOMAIN pending \cup {Len(pending) + 1}
      /\ \A j \in DOMAIN pending : pending'[j] = pending[j]
      /\ pending'[Len(pending) + 1] = w
  BY <1>1, <1>2, AppendFacts
<1>4. TypeOK'
  BY <1>1, <1>2, <1>3 DEF TypeOK, Threads
<1>5. /\ \A i \in DOMAIN pending : pending[i].txn # w.txn
      /\ Armed(w.txn) \/ w.txn \in astray
  BY <1>1, <1>2 DEF ListInvariant, SentIsNew, SentIsTimed, Listed
<1>6. ListInvariant'
  <2>1. ListedOnce'
    BY <1>3, <1>5 DEF ListInvariant, ListedOnce
  <2>2. SentIsNew' /\ SentIsTimed'
    BY <1>2 DEF SentIsNew, SentIsTimed
  <2> QED
    BY <2>1, <2>2 DEF ListInvariant
<1>7. PendingIsGuarded'
  <2>1. \A u : Armed(u)' = Armed(u)
    BY <1>1 DEF Armed
  <2>2. SUFFICES ASSUME NEW i \in DOMAIN pending'
                 PROVE  \/ Armed(pending'[i].txn) \/ pending'[i].txn \in astray
                        \/ \E th \in {worker, expiry} : IsHolding(th) /\ th.txn = pending'[i].txn
    BY <1>1, <2>1 DEF PendingIsGuarded, IsHolding, Armed
  <2>3. CASE i \in DOMAIN pending
    BY <1>3, <2>3 DEF PendingIsGuarded
  <2>4. CASE i = Len(pending) + 1
    BY <1>3, <1>5, <2>4
  <2> QED
    BY <1>3, <2>3, <2>4
<1>8. EraseIsOwn'
  BY <1>1, <1>3 DEF EraseIsOwn, IsHolding
<1>9. CounterMatchesList'
  <2>1. InState(sender, "listed") = 0 /\ InState(sender', "listed") = 1
    BY <1>1, <1>2 DEF InState
  <2>2. Len(pending) \in Int /\ numPendingFBWrites \in Int
    BY DEF TypeOK
  <2> QED
    BY <1>1, <1>3, <2>1, <2>2, InStateIsInt DEF CounterMatchesList
<1> QED
  BY <1>4, <1>6, <1>7, <1>8, <1>9

\* The threads change only their own states and the counter, to or from the
\* state in which the counter is due.
LEMMA CountWritePreserves ==
  ASSUME WritesInvariant, ~corrupt, CountWrite
  PROVE  WritesInvariant'
<1> USE DEF WritesInvariant
<1>1. /\ sender.pc = "listed" /\ sender' = Idle
      /\ numPendingFBWrites' = numPendingFBWrites + 1
      /\ UNCHANGED <<pending, timers, worker, expiry, shutDown, astray, corrupt>>
  BY DEF CountWrite
<1>2. sender'.pc = "idle"
  BY <1>1 DEF Idle, Thread
<1>3. TypeOK'
  BY <1>1 DEF TypeOK, Idle, Thread, Threads
<1>4. ListInvariant'
  BY <1>1, <1>2 DEF ListInvariant, ListedOnce, SentIsNew, SentIsTimed
<1>5. PendingIsGuarded' /\ EraseIsOwn'
  BY <1>1 DEF PendingIsGuarded, EraseIsOwn, IsHolding, Armed
<1>6. CounterMatchesList'
  <2>1. InState(sender, "listed") = 1 /\ InState(sender', "listed") = 0
    BY <1>1, <1>2 DEF InState
  <2>2. Len(pending) \in Int /\ numPendingFBWrites \in Int
    BY DEF TypeOK
  <2> QED
    BY <1>1, <2>1, <2>2, InStateIsInt DEF CounterMatchesList
<1> QED
  BY <1>3, <1>4, <1>5, <1>6

LEMMA PrepareForShutDownPreserves ==
  ASSUME WritesInvariant, ~corrupt, PrepareForShutDown
  PROVE  WritesInvariant'
<1> USE DEF WritesInvariant
<1>1. /\ shutDown' = TRUE /\ numPendingFBWrites' = 0
      /\ UNCHANGED <<sender, pending, timers, worker, expiry, astray, corrupt>>
  BY DEF PrepareForShutDown
<1>2. TypeOK'
  BY <1>1 DEF TypeOK
<1>3. ListInvariant'
  BY <1>1 DEF ListInvariant, ListedOnce, SentIsNew, SentIsTimed, Listed, Armed
<1>4. PendingIsGuarded' /\ EraseIsOwn' /\ CounterMatchesList'
  BY <1>1 DEF PendingIsGuarded, EraseIsOwn, CounterMatchesList, Armed, IsHolding
<1> QED
  BY <1>2, <1>3, <1>4

---------------------------------------------------------------------------
(***************************************************************************)
(* The worker and the timer thread.                                        *)
(***************************************************************************)

\* An ack for a listed write leaves the index it was found at with the worker.
LEMMA ReceiveAckPreserves ==
  ASSUME WritesInvariant, ~corrupt, NEW t \in Txns, ReceiveAck(t)
  PROVE  WritesInvariant'
<1> USE DEF WritesInvariant
<1>1. /\ worker.pc = "idle" /\ worker' = Found("found", t)
      /\ UNCHANGED <<sender, listVars, timers, expiry, shutDown, astray, corrupt>>
  BY DEF ReceiveAck
<1>2. /\ worker' \in Threads({"idle", "found"}, Nat)
      /\ worker'.pc = "found" => worker'.txn \in Txns /\ worker'.id \in TimerIds
      /\ worker'.txn \in Txns => Listed(worker'.txn)
      /\ IsHolding(worker') => worker'.i \in DOMAIN pending /\ pending[worker'.i].txn = worker'.txn
  <2>1. CASE ~Listed(t)
    BY <1>1, <2>1, ParametersAreSane DEF Found, Idle, Thread, Threads, IsHolding
  <2>2. CASE Listed(t)
    <3>1. PICK k \in DOMAIN pending :
            /\ pending[k].txn = t /\ pending[k].id \in TimerIds
            /\ worker' = Thread("found", t, pending[k].id, k)
      BY <1>1, <2>2, FoundFacts DEF TypeOK, ListInvariant
    <3>2. k \in Nat
      BY DEF TypeOK
    <3> QED
      BY <2>2, <3>1, <3>2 DEF Thread, Threads
  <2> QED
    BY <2>1, <2>2
<1>3. TypeOK'
  BY <1>1, <1>2 DEF TypeOK, listVars, Threads
<1>4. ListInvariant'
  <2>1. ListedOnce' /\ SentIsTimed'
    BY <1>1 DEF ListInvariant, ListedOnce, SentIsTimed, Armed, listVars
  <2>2. SentIsNew'
    BY <1>1, <1>2 DEF ListInvariant, SentIsNew, Listed, listVars, TypeOK
  <2> QED
    BY <2>1, <2>2 DEF ListInvariant
<1>5. PendingIsGuarded'
  BY <1>1 DEF PendingIsGuarded, listVars, Armed, IsHolding
<1>6. EraseIsOwn'
  BY <1>1, <1>2 DEF EraseIsOwn, listVars, IsHolding
<1>7. CounterMatchesList'
  <2>1. InState(worker', "uncount") = InState(worker, "uncount")
    BY <1>1, <1>2 DEF InState, Threads
  <2>2. UNCHANGED <<sender, expiry, pending, numPendingFBWrites, shutDown, corrupt>>
    BY <1>1 DEF listVars
  <2> QED
    BY <2>1, <2>2 DEF CounterMatchesList
<1> QED
  BY <1>3, <1>4, <1>5, <1>6, <1>7

\* The timer that is cancelled is the write's own, or its victim goes astray.
LEMMA CancelTimerPreserves ==
  ASSUME WritesInvariant, ~corrupt, CancelTimer
  PROVE  WritesInvariant'
<1> USE DEF WritesInvariant
<1>1. /\ worker.pc = "found" /\ worker' = [worker EXCEPT !.pc = "erase"]
      /\ timers' = [timers EXCEPT ![worker.id] = NoTxn]
      /\ astray' = astray \cup ({timers[worker.id]} \ {NoTxn, worker.txn})
      /\ UNCHANGED <<sender, listVars, expiry, shutDown, corrupt>>
  BY DEF CancelTimer
<1>2. /\ worker'.pc = "erase" /\ worker'.txn = worker.txn /\ worker'.i = worker.i
      /\ worker'.moved = worker.moved
      /\ worker.txn \in Txns /\ worker.id \in TimerIds
      /\ timers \in [TimerIds -> Txns \cup {NoTxn}]
  BY <1>1 DEF TypeOK, Threads
<1>3. TypeOK'
  BY <1>1, <1>2 DEF TypeOK, listVars, Threads
<1>4. \A u \in Txns \ {worker.txn} : Armed(u) => Armed(u)' \/ u \in astray'
  BY <1>1, <1>2, ParametersAreSane DEF Armed
<1>5. ListInvariant'
  <2>1. ListedOnce' /\ SentIsNew'
    BY <1>1, <1>2 DEF ListInvariant, ListedOnce, SentIsNew, Listed, listVars
  <2>2. SentIsTimed'
    <3> SUFFICES ASSUME sender.pc = "armed"
                 PROVE  Armed(sender.txn)' \/ sender.txn \in astray'
      BY <1>1 DEF SentIsTimed, Armed
    <3>1. sender.txn \in Txns \ {worker.txn}
      BY DEF TypeOK, ListInvariant, SentIsNew
    <3>2. \A u \in astray : u \in astray'
      BY <1>1
    <3>3. Armed(sender.txn) => (\E k \in TimerIds : timers'[k] = sender.txn) \/ sender.txn \in astray'
      BY <1>1, <1>2, <3>1, ParametersAreSane DEF Armed
    <3> QED
      BY <1>1, <3>2, <3>3 DEF ListInvariant, SentIsTimed, Armed
  <2> QED
    BY <2>1, <2>2 DEF ListInvariant
<1>6. PendingIsGuarded'
  <2> SUFFICES ASSUME NEW i \in DOMAIN pending
               PROVE  \/ \E k \in TimerIds : timers'[k] = pending[i].txn
                      \/ pending[i].txn \in astray'
                      \/ \E th \in {worker', expiry} : IsHolding(th) /\ th.txn = pending[i].txn
    BY <1>1 DEF PendingIsGuarded, listVars, Armed, IsHolding
  <2>1. CASE pending[i].txn = worker.txn
    BY <1>2, <2>1 DEF IsHolding
  <2>2. CASE pending[i].txn # worker.txn
    <3>1. pending[i].txn \in Txns
      BY EntryFacts DEF TypeOK
    <3>2. Armed(pending[i].txn) =>
            (\E k \in TimerIds : timers'[k] = pending[i].txn) \/ pending[i].txn \in astray'
      BY <1>1, <1>2, <2>2, <3>1, ParametersAreSane DEF Armed
    <3> QED
      BY <1>1, <2>2, <3>2 DEF PendingIsGuarded, IsHolding
  <2> QED
    BY <2>1, <2>2
<1>7. EraseIsOwn'
  BY <1>1, <1>2 DEF EraseIsOwn, listVars, IsHolding
<1>8. CounterMatchesList'
  BY <1>1, <1>2 DEF CounterMatchesList, InState, listVars
<1> QED
  BY <1>3, <1>5, <1>6, <1>7, <1>8

\* Erasing an index takes its write out of the list, keeps every other, and
\* moves those behind it only.
LEMMA EraseFacts ==
  ASSUME NEW k \in DOMAIN pending, pending \in Seq(Writes), ListedOnce,
         pending' = RemoveAt(pending, k)
  PROVE  /\ pending' \in Seq(Writes)
         /\ Len(pending') = Len(pending) - 1
         /\ ListedOnce'
         /\ \A j \in DOMAIN pending' :
              /\ pending'[j].txn # pending[k].txn
              /\ \E i \in DOMAIN pending : pending'[j] = pending[i]
         /\ \A j \in DOMAIN pending : j < k => j \in DOMAIN pending' /\ pending'[j] = pending[j]
<1>1. /\ pending' \in Seq(Writes)
      /\ Len(pending') = Len(pending) - 1
      /\ \A j \in DOMAIN pending' :
           /\ j \in 1..(Len(pending) - 1)
           /\ pending'[j] = IF j < k THEN pending[j] ELSE pending[j + 1]
  BY RemoveAtFacts
<1>2. DOMAIN pending = 1..Len(pending) /\ Len(pending) \in Nat /\ k \in 1..Len(pending)
  OBVIOUS
<1> DEFINE from(j) == IF j < k THEN j ELSE j + 1
<1>3. \A j \in DOMAIN pending' :
        from(j) \in DOMAIN pending /\ from(j) # k /\ pending'[j] = pending[from(j)]
  BY <1>1, <1>2
<1>4. \A i, j \in DOMAIN pending' : from(i) = from(j) => i = j
  BY <1>1, <1>2
<1>5. DOMAIN pending' = 1..(Len(pending) - 1)
  BY <1>1
<1>6. \A j \in DOMAIN pending : j < k => j \in DOMAIN pending' /\ pending'[j] = pending[j]
  BY <1>1, <1>2, <1>5
<1> HIDE DEF from
<1>7. ListedOnce'
  BY <1>3, <1>4 DEF ListedOnce
<1>8. \A j \in DOMAIN pending' :
        pending'[j].txn # pending[k].txn /\ \E i \in DOMAIN pending : pending'[j] = pending[i]
  BY <1>3 DEF ListedOnce
<1> QED
  BY <1>1, <1>6, <1>7, <1>8

\* Erasing beyond the end: nothing is promised any more.
LEMMA CorruptPreserves ==
  ASSUME TypeOK', corrupt'
  PROVE  WritesInvariant'
BY DEF WritesInvariant, PendingIsGuarded, CounterMatchesList, EraseIsOwn

\* The other handler notices nothing of an erase, except perhaps that its index
\* has moved.
LEMMA ShiftedFacts ==
  ASSUME NEW pcs, NEW th \in Threads(pcs, Nat), NEW i \in Nat
  PROVE  /\ Shifted(th, i) \in Threads(pcs, Nat)
         /\ Shifted(th, i).pc = th.pc /\ Shifted(th, i).txn = th.txn
         /\ Shifted(th, i).id = th.id /\ Shifted(th, i).i = th.i
         /\ IsHolding(Shifted(th, i)) = IsHolding(th)
         /\ IsHolding(th) /\ ~Shifted(th, i).moved => ~th.moved /\ th.i < i
<1> DEFINE m == th.moved \/ (IsHolding(th) /\ i <= th.i)
<1>1. m \in BOOLEAN
  OBVIOUS
<1>2. Shifted(th, i) = [th EXCEPT !.moved = m]
  BY DEF Shifted
<1>3. /\ th.i \in Nat /\ th.moved \in BOOLEAN
      /\ IsHolding(th) /\ ~m => ~th.moved /\ ~(i <= th.i)
  BY DEF Threads
<1> HIDE DEF m
<1>4. /\ Shifted(th, i) \in Threads(pcs, Nat)
      /\ Shifted(th, i).pc = th.pc /\ Shifted(th, i).txn = th.txn
      /\ Shifted(th, i).id = th.id /\ Shifted(th, i).i = th.i
      /\ Shifted(th, i).moved = m
  BY <1>1, <1>2 DEF Threads
<1>5. th.i \in Nat => (~(i <= th.i) => th.i < i)
  OBVIOUS
<1> QED
  BY <1>3, <1>4, <1>5 DEF IsHolding

(***************************************************************************)
(* An erase by either handler: mine is the one that erases, other the one  *)
(* that may hold an index meanwhile.                                       *)
(***************************************************************************)
LEMMA EraseKeepsList ==
  ASSUME WritesInvariant, ~corrupt, ~corrupt',
         NEW mine \in {worker, expiry}, NEW other, NEW otherAfter,
         {worker, expiry} = {mine, other}, IsHolding(mine), Erase(mine),
         otherAfter.txn = other.txn, IsHolding(otherAfter) = IsHolding(other),
         UNCHANGED <<sender, timers>>
  PROVE  /\ pending' \in Seq(Writes) /\ Len(pending') = Len(pending) - 1
         /\ ListedOnce' /\ SentIsTimed'
         /\ sender.pc \in {"sent", "armed"} => ~Listed(sender.txn)'
         /\ \A i \in DOMAIN pending' :
              \/ Armed(pending'[i].txn)
              \/ pending'[i].txn \in astray'
              \/ IsHolding(otherAfter) /\ otherAfter.txn = pending'[i].txn
         /\ \A j \in DOMAIN pending :
              j < mine.i => j \in DOMAIN pending' /\ pending'[j] = pending[j]
<1> DEFINE k == mine.i
<1>1. /\ k \in DOMAIN pending /\ pending' = RemoveAt(pending, k)
      /\ astray' = (astray \cup {mine.txn}) \ {pending[k].txn}
  BY DEF Erase
<1>2. pending \in Seq(Writes) /\ ListedOnce /\ ListInvariant
  BY DEF WritesInvariant, TypeOK, ListInvariant
<1> HIDE DEF k
<1>3. /\ pending' \in Seq(Writes)
      /\ Len(pending') = Len(pending) - 1
      /\ ListedOnce'
      /\ \A j \in DOMAIN pending' :
           /\ pending'[j].txn # pending[k].txn
           /\ \E i \in DOMAIN pending : pending'[j] = pending[i]
      /\ \A j \in DOMAIN pending : j < k => j \in DOMAIN pending' /\ pending'[j] = pending[j]
  BY <1>1, <1>2, EraseFacts
<1>4. sender.pc \in {"sent", "armed"} => ~Listed(sender.txn)'
  <2> SUFFICES ASSUME sender.pc \in {"sent", "armed"}, NEW j \in DOMAIN pending',
                      pending'[j].txn = sender.txn
               PROVE  FALSE
    BY DEF Listed
  <2> QED
    BY <1>2, <1>3 DEF ListInvariant, SentIsNew, Listed
<1>5. SentIsTimed'
  <2> SUFFICES ASSUME sender.pc = "armed"
               PROVE  (\E id \in TimerIds : timers[id] = sender.txn) \/ sender.txn \in astray'
    BY DEF SentIsTimed, Armed
  <2>1. sender.txn # pending[k].txn
    BY <1>1, <1>2 DEF ListInvariant, SentIsNew, Listed
  <2> QED
    BY <1>1, <1>2, <2>1 DEF ListInvariant, SentIsTimed, Armed
<1>6. ASSUME NEW i \in DOMAIN pending'
      PROVE  \/ Armed(pending'[i].txn)
             \/ pending'[i].txn \in astray'
             \/ IsHolding(otherAfter) /\ otherAfter.txn = pending'[i].txn
  <2> DEFINE u == pending'[i].txn
  <2>1. u # pending[k].txn /\ \E j \in DOMAIN pending : u = pending[j].txn
    BY <1>3
  <2> HIDE DEF u
  <2>2. CASE u = mine.txn
    BY <1>1, <2>1, <2>2 DEF u
  <2>3. CASE u # mine.txn
    <3>1. \/ Armed(u) \/ u \in astray
          \/ \E th \in {mine, other} : IsHolding(th) /\ th.txn = u
      BY <2>1 DEF WritesInvariant, PendingIsGuarded
    <3> QED
      BY <1>1, <2>1, <2>3, <3>1 DEF u
  <2> QED
    BY <2>2, <2>3
<1> QED
  BY <1>3, <1>4, <1>5, <1>6 DEF k

LEMMA EraseAckedPreserves ==
  ASSUME WritesInvariant, ~corrupt, EraseAcked
  PROVE  WritesInvariant'
<1>1. /\ worker.pc = "erase" /\ worker' = [worker EXCEPT !.pc = "uncount"]
      /\ Erase(worker) /\ expiry' = Shifted(expiry, worker.i)
      /\ UNCHANGED <<sender, numPendingFBWrites, timers, shutDown>>
  BY DEF EraseAcked
<1>2. TypeOK /\ ListInvariant /\ EraseIsOwn /\ CounterMatchesList
  BY DEF WritesInvariant
<1>3. /\ worker' \in Threads({"idle", "found", "erase", "uncount"}, Nat)
      /\ worker'.pc = "uncount" /\ worker'.txn = worker.txn
      /\ worker.i \in Nat /\ IsHolding(worker) /\ ~IsHolding(worker')
  BY <1>1, <1>2 DEF TypeOK, Threads, IsHolding
<1>4. /\ expiry' \in Threads({"idle", "erase", "uncount"}, Nat)
      /\ expiry'.pc = expiry.pc /\ expiry'.txn = expiry.txn /\ expiry'.i = expiry.i
      /\ IsHolding(expiry') = IsHolding(expiry)
      /\ IsHolding(expiry) /\ ~expiry'.moved => ~expiry.moved /\ expiry.i < worker.i
  BY <1>1, <1>2, <1>3, ShiftedFacts DEF TypeOK
<1>5. CASE corrupt'
  <2>1. pending' = pending
    BY <1>1, <1>5 DEF Erase, WritesInvariant
  <2>2. TypeOK'
    BY <1>1, <1>2, <1>3, <1>4, <1>5, <2>1 DEF TypeOK
  <2> QED
    BY <1>5, <2>2, CorruptPreserves
<1>6. CASE ~corrupt'
  <2>1. /\ pending' \in Seq(Writes) /\ Len(pending') = Len(pending) - 1
        /\ ListedOnce' /\ SentIsTimed'
        /\ sender.pc \in {"sent", "armed"} => ~Listed(sender.txn)'
        /\ \A i \in DOMAIN pending' :
             \/ Armed(pending'[i].txn)
             \/ pending'[i].txn \in astray'
             \/ IsHolding(expiry') /\ expiry'.txn = pending'[i].txn
        /\ \A j \in DOMAIN pending :
             j < worker.i => j \in DOMAIN pending' /\ pending'[j] = pending[j]
    BY <1>1, <1>3, <1>4, <1>6, EraseKeepsList
  <2>2. TypeOK'
    <3>1. corrupt' \in BOOLEAN
      BY <1>1, <1>2, <1>6 DEF Erase, TypeOK
    <3> QED
      BY <1>1, <1>2, <1>3, <1>4, <2>1, <3>1 DEF TypeOK
  <2>3. ListInvariant'
    <3>1. SentIsNew'
      BY <1>1, <1>2, <1>3, <1>4, <2>1 DEF ListInvariant, SentIsNew, Listed
    <3> QED
      BY <2>1, <3>1 DEF ListInvariant
  <2>4. EraseIsOwn'
    BY <1>2, <1>3, <1>4, <2>1 DEF EraseIsOwn
  <2>5. PendingIsGuarded'
    <3>1. \A u : Armed(u)' = Armed(u)
      BY <1>1 DEF Armed
    <3> QED
      BY <1>1, <2>1 DEF PendingIsGuarded, Armed
  <2>6. CounterMatchesList'
    <3>1. /\ InState(worker, "uncount") = 0 /\ InState(worker', "uncount") = 1
          /\ InState(expiry', "uncount") = InState(expiry, "uncount")
          /\ InState(sender', "listed") = InState(sender, "listed")
      BY <1>1, <1>3, <1>4 DEF InState
    <3>2. Len(pending) \in Int /\ numPendingFBWrites \in Int
      BY <1>2 DEF TypeOK
    <3> QED
      BY <1>1, <1>2, <2>1, <3>1, <3>2, InStateIsInt DEF CounterMatchesList
  <2> QED
    BY <2>2, <2>3, <2>4, <2>5, <2>6 DEF WritesInvariant
<1> QED
  BY <1>5, <1>6

LEMMA EraseExpiredPreserves ==
  ASSUME WritesInvariant, ~corrupt, EraseExpired
  PROVE  WritesInvariant'
<1>1. /\ expiry.pc = "erase" /\ expiry' = [expiry EXCEPT !.pc = "uncount"]
      /\ Erase(expiry) /\ worker' = Shifted(worker, expiry.i)
      /\ UNCHANGED <<sender, numPendingFBWrites, timers, shutDown>>
  BY DEF EraseExpired
<1>2. TypeOK /\ ListInvariant /\ EraseIsOwn /\ CounterMatchesList
  BY DEF WritesInvariant
<1>3. /\ expiry' \in Threads({"idle", "erase", "uncount"}, Nat)
      /\ expiry'.pc = "uncount" /\ expiry'.txn = expiry.txn
      /\ expiry.i \in Nat /\ IsHolding(expiry) /\ ~IsHolding(expiry')
  BY <1>1, <1>2 DEF TypeOK, Threads, IsHolding
<1>4. /\ worker' \in Threads({"idle", "found", "erase", "uncount"}, Nat)
      /\ worker'.pc = worker.pc /\ worker'.txn = worker.txn /\ worker'.i = worker.i
      /\ worker'.id = worker.id
      /\ IsHolding(worker') = IsHolding(worker)
      /\ IsHolding(worker) /\ ~worker'.moved => ~worker.moved /\ worker.i < expiry.i
  BY <1>1, <1>2, <1>3, ShiftedFacts DEF TypeOK
<1>5. CASE corrupt'
  <2>1. pending' = pending
    BY <1>1, <1>5 DEF Erase, WritesInvariant
  <2>2. TypeOK'
    BY <1>1, <1>2, <1>3, <1>4, <1>5, <2>1 DEF TypeOK
  <2> QED
    BY <1>5, <2>2, CorruptPreserves
<1>6. CASE ~corrupt'
  <2>1. /\ pending' \in Seq(Writes) /\ Len(pending') = Len(pending) - 1
        /\ ListedOnce' /\ SentIsTimed'
        /\ sender.pc \in {"sent", "armed"} => ~Listed(sender.txn)'
        /\ \A i \in DOMAIN pending' :
             \/ Armed(pending'[i].txn)
             \/ pending'[i].txn \in astray'
             \/ IsHolding(worker') /\ worker'.txn = pending'[i].txn
        /\ \A j \in DOMAIN pending :
             j < expiry.i => j \in DOMAIN pending' /\ pending'[j] = pending[j]
    BY <1>1, <1>3, <1>4, <1>6, EraseKeepsList
  <2>2. TypeOK'
    <3>1. corrupt' \in BOOLEAN
      BY <1>1, <1>2, <1>6 DEF Erase, TypeOK
    <3> QED
      BY <1>1, <1>2, <1>3, <1>4, <2>1, <3>1 DEF TypeOK
  <2>3. ListInvariant'
    <3>1. SentIsNew'
      BY <1>1, <1>2, <1>3, <1>4, <2>1 DEF ListInvariant, SentIsNew, Listed
    <3> QED
      BY <2>1, <3>1 DEF ListInvariant
  <2>4. EraseIsOwn'
    BY <1>2, <1>3, <1>4, <2>1 DEF EraseIsOwn
  <2>5. PendingIsGuarded'
    BY <1>1, <2>1 DEF PendingIsGuarded, Armed
  <2>6. CounterMatchesList'
    <3>1. /\ InState(expiry, "uncount") = 0 /\ InState(expiry', "uncount") = 1
          /\ InState(worker', "uncount") = InState(worker, "uncount")
          /\ InState(sender', "listed") = InState(sender, "listed")
      BY <1>1, <1>3, <1>4 DEF InState
    <3>2. Len(pending) \in Int /\ numPendingFBWrites \in Int
      BY <1>2 DEF TypeOK
    <3> QED
      BY <1>1, <1>2, <2>1, <3>1, <3>2, InStateIsInt DEF CounterMatchesList
  <2> QED
    BY <2>2, <2>3, <2>4, <2>5, <2>6 DEF WritesInvariant
<1> QED
  BY <1>5, <1>6

\* A handler that has decremented the counter is done.
LEMMA UncountAckedPreserves ==
  ASSUME WritesInvariant, ~corrupt, UncountAcked
  PROVE  WritesInvariant'
<1> USE DEF WritesInvariant
<1>1. /\ worker.pc = "uncount" /\ worker' = Idle
      /\ numPendingFBWrites' = numPendingFBWrites - 1
      /\ UNCHANGED <<sender, pending, timers, expiry, shutDown, astray, corrupt>>
  BY DEF UncountAcked
<1>2. worker'.pc = "idle" /\ worker'.txn = NoTxn
  BY <1>1 DEF Idle, Thread
<1>3. TypeOK'
  BY <1>1 DEF TypeOK, Idle, Thread, Threads
<1>4. ListInvariant'
  BY <1>1, <1>2, ParametersAreSane DEF ListInvariant, ListedOnce, SentIsNew, SentIsTimed,
     Listed, Armed, TypeOK
<1>5. PendingIsGuarded' /\ EraseIsOwn'
  BY <1>1, <1>2 DEF PendingIsGuarded, EraseIsOwn, IsHolding, Armed
<1>6. CounterMatchesList'
  <2>1. InState(worker, "uncount") = 1 /\ InState(worker', "uncount") = 0
    BY <1>1, <1>2 DEF InState
  <2>2. Len(pending) \in Int /\ numPendingFBWrites \in Int
    BY DEF TypeOK
  <2> QED
    BY <1>1, <2>1, <2>2, InStateIsInt DEF CounterMatchesList
<1> QED
  BY <1>3, <1>4, <1>5, <1>6

LEMMA UncountExpiredPreserves ==
  ASSUME WritesInvariant, ~corrupt, UncountExpired
  PROVE  WritesInvariant'
<1> USE DEF WritesInvariant
<1>1. /\ expiry.pc = "uncount" /\ expiry' = Idle
      /\ numPendingFBWrites' = numPendingFBWrites - 1
      /\ UNCHANGED <<sender, pending, timers, worker, shutDown, astray, corrupt>>
  BY DEF UncountExpired
<1>2. expiry'.pc = "idle" /\ expiry'.txn = NoTxn
  BY <1>1 DEF Idle, Thread
<1>3. TypeOK'
  BY <1>1 DEF TypeOK, Idle, Thread, Threads
<1>4. ListInvariant'
  BY <1>1, <1>2, ParametersAreSane DEF ListInvariant, ListedOnce, SentIsNew, SentIsTimed,
     Listed, Armed, TypeOK
<1>5. PendingIsGuarded' /\ EraseIsOwn'
  BY <1>1, <1>2 DEF PendingIsGuarded, EraseIsOwn, IsHolding, Armed
<1>6. CounterMatchesList'
  <2>1. InState(expiry, "uncount") = 1 /\ InState(expiry', "uncount") = 0
    BY <1>1, <1>2 DEF InState
  <2>2. Len(pending) \in Int /\ numPendingFBWrites \in Int
    BY DEF TypeOK
  <2> QED
    BY <1>1, <2>1, <2>2, InStateIsInt DEF CounterMatchesList
<1> QED
  BY <1>3, <1>4, <1>5, <1>6

\* A timer that expires hands its write to the timer thread, or has come too
\* early for it.
LEMMA TimerExpiresPreserves ==
  ASSUME WritesInvariant, ~corrupt, NEW t \in Txns, TimerExpires(t)
  PROVE  WritesInvariant'
<1> USE DEF WritesInvariant
<1>1. /\ expiry.pc = "idle" /\ expiry' = Found("erase", t)
      /\ timers' = [id \in TimerIds |-> IF timers[id] = t THEN NoTxn ELSE timers[id]]
      /\ astray' = IF sender.pc = "armed" /\ sender.txn = t THEN astray \cup {t} ELSE astray
      /\ UNCHANGED <<sender, listVars, worker, shutDown, corrupt>>
  BY DEF TimerExpires
<1>2. /\ expiry' \in Threads({"idle", "erase"}, Nat)
      /\ expiry'.txn \in Txns => Listed(expiry'.txn)
      /\ IsHolding(expiry') => expiry'.i \in DOMAIN pending /\ pending[expiry'.i].txn = expiry'.txn
      /\ Listed(t) => IsHolding(expiry') /\ expiry'.txn = t
  <2>1. CASE ~Listed(t)
    BY <1>1, <2>1, ParametersAreSane DEF Found, Idle, Thread, Threads, IsHolding
  <2>2. CASE Listed(t)
    <3>1. PICK k \in DOMAIN pending :
            /\ pending[k].txn = t /\ pending[k].id \in TimerIds
            /\ expiry' = Thread("erase", t, pending[k].id, k)
      BY <1>1, <2>2, FoundFacts DEF TypeOK, ListInvariant
    <3>2. k \in Nat
      BY DEF TypeOK
    <3> QED
      BY <2>2, <3>1, <3>2 DEF Thread, Threads, IsHolding
  <2> QED
    BY <2>1, <2>2
<1>3. TypeOK'
  BY <1>1, <1>2 DEF TypeOK, listVars, Threads
<1>4. \A u \in Txns \ {t} : Armed(u) => \E id \in TimerIds : timers'[id] = u
  BY <1>1 DEF Armed
<1>5. ListInvariant'
  <2>1. ListedOnce'
    BY <1>1 DEF ListInvariant, ListedOnce, listVars
  <2>2. SentIsNew'
    BY <1>1, <1>2 DEF ListInvariant, SentIsNew, Listed, listVars, TypeOK
  <2>3. SentIsTimed'
    BY <1>1, <1>4 DEF ListInvariant, SentIsTimed, TypeOK, Armed
  <2> QED
    BY <2>1, <2>2, <2>3 DEF ListInvariant
<1>6. PendingIsGuarded'
  <2> SUFFICES ASSUME NEW i \in DOMAIN pending
               PROVE  \/ \E id \in TimerIds : timers'[id] = pending[i].txn
                      \/ pending[i].txn \in astray'
                      \/ \E th \in {worker, expiry'} : IsHolding(th) /\ th.txn = pending[i].txn
    BY <1>1 DEF PendingIsGuarded, listVars, Armed, IsHolding
  <2>1. CASE pending[i].txn = t
    BY <1>2, <2>1 DEF Listed
  <2>2. CASE pending[i].txn # t
    <3>1. pending[i].txn \in Txns
      BY EntryFacts DEF TypeOK
    <3> QED
      BY <1>1, <1>4, <2>2, <3>1 DEF PendingIsGuarded, IsHolding
  <2> QED
    BY <2>1, <2>2
<1>7. EraseIsOwn'
  BY <1>1, <1>2 DEF EraseIsOwn, listVars, IsHolding
<1>8. CounterMatchesList'
  <2>1. InState(expiry', "uncount") = InState(expiry, "uncount")
    BY <1>1, <1>2 DEF InState, Threads
  <2>2. UNCHANGED <<sender, worker, pending, numPendingFBWrites, shutDown, corrupt>>
    BY <1>1 DEF listVars
  <2> QED
    BY <2>1, <2>2 DEF CounterMatchesList
<1> QED
  BY <1>3, <1>5, <1>6, <1>7, <1>8

---------------------------------------------------------------------------
LEMMA WritesInit == Init => WritesInvariant
<1> SUFFICES ASSUME Init PROVE WritesInvariant
  OBVIOUS
<1> USE DEF Idle, Thread
<1>1. TypeOK
  <2>1. pending \in Seq(Writes) /\ numPendingFBWrites \in Int
    BY DEF Init
  <2> QED
    BY <2>1 DEF Init, TypeOK, Threads
<1>2. ListInvariant
  BY DEF Init, ListInvariant, ListedOnce, SentIsNew, SentIsTimed
<1>3. PendingIsGuarded /\ EraseIsOwn /\ CounterMatchesList
  BY DEF Init, PendingIsGuarded, EraseIsOwn, CounterMatchesList, InState, IsHolding
<1> QED
  BY <1>1, <1>2, <1>3 DEF WritesInvariant

LEMMA WritesStep == WritesInvariant /\ [Next]_vars => WritesInvariant'
<1> SUFFICES ASSUME WritesInvariant, [Next]_vars
             PROVE  WritesInvariant'
  OBVIOUS
<1>1. CASE ~corrupt /\ \E n \in Nodes : Visit(n)
  <2>1. ASSUME NEW n \in Nodes, SkipNode(n) \/ SendFails(n) PROVE WritesInvariant'
    BY <2>1, OtherStepsPreserve DEF SkipNode, SendFails, listState, listVars
  <2> QED
    BY <1>1, <2>1, SendSucceedsPreserves DEF Visit
<1>2. CASE SendStep
  BY <1>2, ArmTimerPreserves, ListWritePreserves, CountWritePreserves DEF SendStep
<1>3. CASE AckStep
  BY <1>3, CancelTimerPreserves, EraseAckedPreserves, UncountAckedPreserves DEF AckStep
<1>4. CASE ExpiryStep
  BY <1>4, EraseExpiredPreserves, UncountExpiredPreserves DEF ExpiryStep
<1>5. CASE \E t \in Txns : Expires(t)
  BY <1>5, TimerExpiresPreserves DEF Expires
<1>6. CASE ~corrupt /\ \E t \in Txns : Receive(t)
  <2>1. ASSUME NEW t \in Txns, LoseAck(t) PROVE WritesInvariant'
    BY <2>1, OtherStepsPreserve DEF LoseAck, listState
  <2> QED
    BY <1>6, <2>1, ReceiveAckPreserves DEF Receive
<1>7. CASE ~corrupt /\ PrepareForShutDown
  BY <1>7, PrepareForShutDownPreserves
<1>8. CASE UNCHANGED vars
  BY <1>8, OtherStepsPreserve DEF vars, listState
<1> QED
  BY <1>1, <1>2, <1>3, <1>4, <1>5, <1>6, <1>7, <1>8 DEF Next, Corrupt

\* The counters of errors change in sendDataToNode only.
LEMMA ErrorStep == ErrorInvariant /\ [Next]_vars => ErrorInvariant'
<1> SUFFICES ASSUME ErrorInvariant, [Next]_vars
             PROVE  ErrorInvariant'
  OBVIOUS
<1> USE ParametersAreSane DEF ErrorInvariant, PauseFollowsErrors
<1>1. ASSUME NEW n \in Nodes, SkipNode(n) PROVE ErrorInvariant'
  <2>1. UNCHANGED <<errorPackets, failures>> /\ errorTimer[n] # 0
        /\ errorTimer' = [errorTimer EXCEPT ![n] = @ - 1]
    BY <1>1 DEF SkipNode
  <2>2. errorTimer' \in [Nodes -> Nat]
    BY <2>1
  <2>3. \A m \in Nodes : errorTimer'[m] # 0 => errorTimer[m] # 0
    BY <2>1
  <2> QED
    BY <2>1, <2>2, <2>3
<1>2. ASSUME NEW n \in Nodes, SendFails(n) PROVE ErrorInvariant'
  <2>1. /\ errorPackets' = [errorPackets EXCEPT ![n] = CountTo(MaxPacketsWithErrors + 1, @)]
        /\ failures' = [failures EXCEPT ![n] = CountTo(MaxPacketsWithErrors + 1, @)]
        /\ errorTimer' = IF errorPackets[n] >= MaxPacketsWithErrors
                         THEN [errorTimer EXCEPT ![n] = NumPacketsToWaitAfterError]
                         ELSE errorTimer
        /\ errorTimer[n] = 0
    BY <1>2 DEF SendFails
  <2>2. CountTo(MaxPacketsWithErrors + 1, errorPackets[n]) \in 0..(MaxPacketsWithErrors + 1)
    BY DEF CountTo
  <2>3. errorPackets[n] >= MaxPacketsWithErrors =>
          CountTo(MaxPacketsWithErrors + 1, errorPackets[n]) >= MaxPacketsWithErrors
    BY DEF CountTo
  <2>4. failures' = errorPackets' /\ errorTimer' \in [Nodes -> Nat]
        /\ errorPackets' \in [Nodes -> 0..(MaxPacketsWithErrors + 1)]
    BY <2>1, <2>2
  <2>5. PauseFollowsErrors'
    BY <2>1, <2>3, <2>4
  <2> QED
    BY <2>4, <2>5
<1>3. ASSUME NEW n \in Nodes, NEW t \in Txns, SendSucceeds(n, t) PROVE ErrorInvariant'
  BY <1>3 DEF SendSucceeds
<1>4. CASE UNCHANGED errorVars
  BY <1>4 DEF errorVars
<1>5. CASE SendStep \/ AckStep \/ ExpiryStep \/ PrepareForShutDown
  BY <1>4, <1>5 DEF SendStep, AckStep, ExpiryStep, PrepareForShutDown, ArmTimer, ListWrite,
    CountWrite, CancelTimer, EraseAcked, UncountAcked, EraseExpired, UncountExpired
<1>6. CASE \E t \in Txns : Expires(t) \/ Receive(t)
  BY <1>4, <1>6 DEF Expires, TimerExpires, Receive, LoseAck, ReceiveAck
<1>7. CASE UNCHANGED vars
  BY <1>4, <1>7 DEF vars
<1> QED
  BY <1>1, <1>2, <1>3, <1>5, <1>6, <1>7 DEF Next, Visit, Corrupt

---------------------------------------------------------------------------
\* With any number of writes under way, and acks that are lost, early, late or
\* repeated, numPendingFBWrites is the length of the list, up to the threads that
\* are between their two statements, until prepareForShutDown; that the worker
\* and the timer thread erase each other's writes does not change it, only an
\* erase beyond the end of the vector ends it.
THEOREM CounterFollowsList == Spec => []CounterMatchesList
<1>1. WritesInvariant => CounterMatchesList
  BY DEF WritesInvariant
<1> QED
  BY <1>1, WritesInit, WritesStep, PTL DEF Spec

\* No listed write depends on an ack: its timer runs, or one of the handlers is
\* about to strike it off (sendDataToNode, handlePacket, fbSendTimeoutExpired),
\* but for a timer that is faster than the push_back, one that is cancelled under
\* an id it shares with an earlier write, and a handler whose index has moved.
THEOREM ListedWritesAreGuarded == Spec => []PendingIsGuarded
<1>1. WritesInvariant => PendingIsGuarded
  BY DEF WritesInvariant
<1> QED
  BY <1>1, WritesInit, WritesStep, PTL DEF Spec

\* The worker and the timer thread, which look up and erase in one vector with
\* no lock, are in each other's way only where one erases at or before the index
\* the other has found; in every other overlap, and whatever is listed
\* meanwhile, the index still refers to the write it was looked up for.
THEOREM OnlyErasesBeforeMoveTheIndex == Spec => []EraseIsOwn
<1>1. WritesInvariant => EraseIsOwn
  BY DEF WritesInvariant
<1> QED
  BY <1>1, WritesInit, WritesStep, PTL DEF Spec

\* sendDataToNode leaves a node alone only after MaxPacketsWithErrors failures or
\* more in a row, whatever the limits are.
THEOREM PausesFollowErrors == Spec => []PauseFollowsErrors
<1>1. Init => ErrorInvariant
  BY ParametersAreSane DEF Init, ErrorInvariant, PauseFollowsErrors
<1>2. ErrorInvariant => PauseFollowsErrors
  BY DEF ErrorInvariant
<1> QED
  BY <1>1, <1>2, ErrorStep, PTL DEF Spec
===========================================================================
