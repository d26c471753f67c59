------------------------- MODULE FramebufferWrites -------------------------
(***************************************************************************)
(* Framebuffer writes and their acknowledgements (ProtocolHandler.cpp).    *)
(*                                                                         *)
(* Three threads share pendingFBDataWrites and numPendingFBWrites, with no *)
(* lock: the coordinator sends pixel data and lists the write, the         *)
(* protocol worker strikes it off when the node's ack arrives, the timer   *)
(* thread when none has come in time.  Both look the transaction up first  *)
(* and erase by index afterwards, while the other may have erased in       *)
(* between.  The timer of a write is armed before the write is listed, and *)
(* is cancelled by its id, which the timer gives to another write once it  *)
(* is free.                                                                *)
(*                                                                         *)
(* A call on the vector is one step.  Erasing beyond its end is undefined: *)
(* there the behaviour ends.                                               *)
(*                                                                         *)
(* A transaction number is 31 random bits: one in use is not drawn again.  *)
(* errorPackets is only compared with MaxPacketsWithErrors, so it stops    *)
(* counting above it.                                                      *)
(***************************************************************************)
EXTENDS Integers, SequencesExt

CONSTANTS
  Nodes,                       \* the nodes, one output channel each
  Txns,                        \* transaction numbers
  NoTxn,                       \* no transaction
  TimerIds,                    \* CppTime::timer_id
  NoTimer,                     \* none of them
  MaxPacketsWithErrors,
  NumPacketsToWaitAfterError

ASSUME ParametersAreSane ==
  /\ NoTxn \notin Txns
  /\ NoTimer \notin TimerIds
  /\ MaxPacketsWithErrors \in Nat
  /\ NumPacketsToWaitAfterError \in Nat

VARIABLES
  sender,              \* the coordinator inside sendDataToNode
  pending,             \* pendingFBDataWrites
  numPendingFBWrites,
  timers,              \* the transaction that each running timer is for
  acks,                \* acknowledgements on their way to the server
  worker, expiry,      \* the protocol worker and the timer thread
  errorPackets, errorTimer,
  failures,            \* history: sends that failed since one went through
  shutDown,            \* prepareForShutDown has run
  astray,              \* history: writes that nothing will strike off, because
                       \* their timer expired before they were listed, was
                       \* cancelled under an id another write had had before,
                       \* or their handler erased another write
  corrupt              \* a handler has erased beyond the end of the vector

listVars == <<pending, numPendingFBWrites>>
errorVars == <<errorPackets, errorTimer, failures>>
vars == <<sender, listVars, timers, acks, worker, expiry, errorVars, shutDown, astray, corrupt>>

(***************************************************************************)
(* A thread: its transaction, the id of its timer, the index it has found, *)
(* and (history) whether an erase of the other handler has moved what was  *)
(* at that index since.                                                    *)
(***************************************************************************)
Thread(pc, t, id, i) == [pc |-> pc, txn |-> t, id |-> id, i |-> i, moved |-> FALSE]
Idle == Thread("idle", NoTxn, NoTimer, 0)

Init ==
  /\ sender = Idle
  /\ pending = <<>>
  /\ numPendingFBWrites = 0
  /\ timers = [id \in TimerIds |-> NoTxn]
  /\ acks = {}
  /\ worker = Idle /\ expiry = Idle
  /\ errorPackets = [n \in Nodes |-> 0]
  /\ errorTimer = [n \in Nodes |-> 0]
  /\ failures = [n \in Nodes |-> 0]
  /\ shutDown = FALSE
  /\ astray = {}
  /\ corrupt = FALSE

Listed(t) == \E i \in DOMAIN pending : pending[i].txn = t

Armed(t) == \E id \in TimerIds : timers[id] = t

\* A timer's id is given back when it is cancelled, or its handler is done.
IsFree(id) == timers[id] = NoTxn /\ expiry.id # id

IsUnused(t) ==
  /\ ~Listed(t)
  /\ ~Armed(t)
  /\ t \notin acks
  /\ t \notin {sender.txn, worker.txn, expiry.txn}

---------------------------------------------------------------------------
(***************************************************************************)
(* The coordinator: sendDataToNode.                                        *)
(***************************************************************************)

\* The node is being left alone: count down and return.
SkipNode(n) ==
  /\ sender.pc = "idle"
  /\ errorTimer[n] # 0
  /\ errorTimer' = [errorTimer EXCEPT ![n] = @ - 1]
  /\ UNCHANGED <<sender, listVars, timers, acks, worker, expiry,
                 errorPackets, failures, shutDown, astray, corrupt>>

CountTo(bound, x) == IF x < bound THEN x + 1 ELSE x

\* sendto fails: errorPackets++ >= MaxPacketsWithErrors starts the pause.
SendFails(n) ==
  /\ sender.pc = "idle"
  /\ errorTimer[n] = 0
  /\ errorPackets' = [errorPackets EXCEPT ![n] = CountTo(MaxPacketsWithErrors + 1, @)]
  /\ errorTimer' = IF errorPackets[n] >= MaxPacketsWithErrors
                   THEN [errorTimer EXCEPT ![n] = NumPacketsToWaitAfterError]
                   ELSE errorTimer
  /\ failures' = [failures EXCEPT ![n] = CountTo(MaxPacketsWithErrors + 1, @)]
  /\ UNCHANGED <<sender, listVars, timers, acks, worker, expiry, shutDown, astray, corrupt>>

\* Mutant of SendSucceeds: errorPackets keeps counting over a success.
SendSucceedsKeepsCount(n, t) ==
  /\ sender.pc = "idle"
  /\ errorTimer[n] = 0
  /\ IsUnused(t)
  /\ sender' = Thread("sent", t, NoTimer, 0)
  /\ acks' = acks \cup {t}
  /\ errorTimer' = [errorTimer EXCEPT ![n] = 0]
  /\ failures' = [failures EXCEPT ![n] = 0]
  /\ astray' = astray \ {t}
  /\ UNCHANGED <<listVars, timers, worker, expiry, errorPackets, shutDown, corrupt>>

\* sendto succeeds; the node answers, or the answer is lost.
SendSucceeds(n, t) ==
  /\ sender.pc = "idle"
  /\ errorTimer[n] = 0
  /\ IsUnused(t)
  /\ sender' = Thread("sent", t, NoTimer, 0)
  /\ acks' = acks \cup {t}
  /\ errorPackets' = [errorPackets EXCEPT ![n] = 0]
  /\ errorTimer' = [errorTimer EXCEPT ![n] = 0]
  /\ failures' = [failures EXCEPT ![n] = 0]
  /\ astray' = astray \ {t}
  /\ UNCHANGED <<listVars, timers, worker, expiry, shutDown, corrupt>>

\* Mutant of ArmTimer: a timer that runs already is taken to be enough.
ArmOneTimer(id) ==
  /\ sender.pc = "sent"
  /\ IsFree(id)
  /\ sender' = Thread("armed", sender.txn, id, 0)
  /\ timers' = IF \A k \in TimerIds : timers[k] = NoTxn
               THEN [timers EXCEPT ![id] = sender.txn] ELSE timers
  /\ UNCHANGED <<listVars, acks, worker, expiry, errorVars, shutDown, astray, corrupt>>

\* timer.add, under any id that is free
ArmTimer(id) ==
  /\ sender.pc = "sent"
  /\ IsFree(id)
  /\ sender' = Thread("armed", sender.txn, id, 0)
  /\ timers' = [timers EXCEPT ![id] = sender.txn]
  /\ UNCHANGED <<listVars, acks, worker, expiry, errorVars, shutDown, astray, corrupt>>

\* Mutant of ListWrite: the newest write comes first.
ListWriteFirst ==
  /\ sender.pc = "armed"
  /\ sender' = [sender EXCEPT !.pc = "listed"]
  /\ pending' = <<[txn |-> sender.txn, id |-> sender.id]>> \o pending
  /\ UNCHANGED <<numPendingFBWrites, timers, acks, worker, expiry, errorVars, shutDown, astray, corrupt>>

\* pendingFBDataWrites.push_back
ListWrite ==
  /\ sender.pc = "armed"
  /\ sender' = [sender EXCEPT !.pc = "listed"]
  /\ pending' = Append(pending, [txn |-> sender.txn, id |-> sender.id])
  /\ UNCHANGED <<numPendingFBWrites, timers, acks, worker, expiry, errorVars, shutDown, astray, corrupt>>

\* numPendingFBWrites++
CountWrite ==
  /\ sender.pc = "listed"
  /\ sender' = Idle
  /\ numPendingFBWrites' = numPendingFBWrites + 1
  /\ UNCHANGED <<pending, timers, acks, worker, expiry, errorVars, shutDown, astray, corrupt>>

---------------------------------------------------------------------------
(***************************************************************************)
(* Looking a transaction up, then erasing the index that was found.        *)
(***************************************************************************)
FirstIndex(t) == CHOOSE i \in DOMAIN pending :
                   pending[i].txn = t /\ \A j \in 1..(i - 1) : pending[j].txn # t

Found(pc, t) ==
  IF Listed(t) THEN Thread(pc, t, pending[FirstIndex(t)].id, FirstIndex(t)) ELSE Idle

IsHolding(th) == th.pc \in {"found", "erase"}

\* erase(begin() + i), i being the index that th has found.
Erase(th) ==
  IF th.i \in DOMAIN pending
  THEN /\ pending' = RemoveAt(pending, th.i)
       /\ astray' = (astray \cup {th.txn}) \ {pending[th.i].txn}
       /\ UNCHANGED corrupt
  ELSE corrupt' = TRUE /\ UNCHANGED <<pending, astray>>

\* What the index of th refers to, after the other handler has erased i.
Shifted(th, i) == [th EXCEPT !.moved = @ \/ (IsHolding(th) /\ i <= th.i)]

\* An ack is lost on the way; handlePacket also drops one whenever the
\* uninitialised err it tests happens not to be zero.
LoseAck(t) ==
  /\ t \in acks
  /\ acks' = acks \ {t}
  /\ UNCHANGED <<sender, listVars, timers, worker, expiry, errorVars, shutDown, astray, corrupt>>

\* Mutant of ReceiveAck: an unexpected ack is counted as well.
ReceiveAckCounted(t) ==
  /\ worker.pc = "idle"
  /\ t \in acks
  /\ acks' \in {acks, acks \ {t}}
  /\ worker' = IF Listed(t) THEN Found("found", t) ELSE Thread("uncount", t, NoTimer, 0)
  /\ UNCHANGED <<sender, listVars, timers, expiry, errorVars, shutDown, astray, corrupt>>

\* handlePacket: an ack arrives, perhaps not for the last time, and its
\* transaction is looked up; an unexpected one is ignored.
ReceiveAck(t) ==
  /\ worker.pc = "idle"
  /\ t \in acks
  /\ acks' \in {acks, acks \ {t}}
  /\ worker' = Found("found", t)
  /\ UNCHANGED <<sender, listVars, timers, expiry, errorVars, shutDown, astray, corrupt>>

\* timer.remove, of whatever has this id by now
CancelTimer ==
  /\ worker.pc = "found"
  /\ worker' = [worker EXCEPT !.pc = "erase"]
  /\ timers' = [timers EXCEPT ![worker.id] = NoTxn]
  /\ astray' = astray \cup ({timers[worker.id]} \ {NoTxn, worker.txn})
  /\ UNCHANGED <<sender, listVars, acks, expiry, errorVars, shutDown, corrupt>>

EraseAcked ==
  /\ worker.pc = "erase"
  /\ worker' = [worker EXCEPT !.pc = "uncount"]
  /\ Erase(worker)
  /\ expiry' = Shifted(expiry, worker.i)
  /\ UNCHANGED <<sender, numPendingFBWrites, timers, acks, errorVars, shutDown>>

UncountAcked ==
  /\ worker.pc = "uncount"
  /\ worker' = Idle
  /\ numPendingFBWrites' = numPendingFBWrites - 1
  /\ UNCHANGED <<sender, pending, timers, acks, expiry, errorVars, shutDown, astray, corrupt>>

\* Mutant of TimerExpires: the timer starts again and the write stays.
TimerRepeats(t) ==
  /\ expiry.pc = "idle"
  /\ Armed(t)
  /\ UNCHANGED vars

\* fbSendTimeoutExpired, writeTimeout after timer.add; how long the other
\* threads are held up meanwhile, nothing bounds.
TimerExpires(t) ==
  /\ expiry.pc = "idle"
  /\ Armed(t)
  /\ timers' = [id \in TimerIds |-> IF timers[id] = t THEN NoTxn ELSE timers[id]]
  /\ expiry' = Found("erase", t)
  /\ astray' = IF sender.pc = "armed" /\ sender.txn = t THEN astray \cup {t} ELSE astray
  /\ UNCHANGED <<sender, listVars, acks, worker, errorVars, shutDown, corrupt>>

EraseExpired ==
  /\ expiry.pc = "erase"
  /\ expiry' = [expiry EXCEPT !.pc = "uncount"]
  /\ Erase(expiry)
  /\ worker' = Shifted(worker, expiry.i)
  /\ UNCHANGED <<sender, numPendingFBWrites, timers, acks, errorVars, shutDown>>

UncountExpired ==
  /\ expiry.pc = "uncount"
  /\ expiry' = Idle
  /\ numPendingFBWrites' = numPendingFBWrites - 1
  /\ UNCHANGED <<sender, pending, timers, acks, worker, errorVars, shutDown, astray, corrupt>>

\* prepareForShutDown, called by the runner's destructor while the three
\* threads still run.
PrepareForShutDown ==
  /\ ~shutDown
  /\ shutDown' = TRUE
  /\ numPendingFBWrites' = 0
  /\ UNCHANGED <<sender, pending, timers, acks, worker, expiry, errorVars, astray, corrupt>>

---------------------------------------------------------------------------
SendStep == ~corrupt /\ ((\E id \in TimerIds : ArmTimer(id)) \/ ListWrite \/ CountWrite)
AckStep == ~corrupt /\ (CancelTimer \/ EraseAcked \/ UncountAcked)
ExpiryStep == ~corrupt /\ (EraseExpired \/ UncountExpired)
Expires(t) == ~corrupt /\ TimerExpires(t)

Visit(n) == SkipNode(n) \/ SendFails(n) \/ \E t \in Txns : SendSucceeds(n, t)

Receive(t) == LoseAck(t) \/ ReceiveAck(t)

Corrupt == corrupt /\ UNCHANGED vars

Next ==
  \/ ~corrupt /\ \E n \in Nodes : Visit(n)
  \/ SendStep \/ AckStep \/ ExpiryStep
  \/ \E t \in Txns : Expires(t)
  \/ ~corrupt /\ \E t \in Txns : Receive(t)
  \/ ~corrupt /\ PrepareForShutDown
  \/ Corrupt

(***************************************************************************)
(* Threads that can go on do; the timer thread serves every timer that is  *)
(* due, whatever else it is doing in between.  Nothing is assumed of the   *)
(* network, or of how often the coordinator has something to send.         *)
(***************************************************************************)
Fairness ==
  /\ WF_vars(SendStep) /\ WF_vars(AckStep) /\ WF_vars(ExpiryStep)
  /\ \A t \in Txns : SF_vars(Expires(t))

Spec == Init /\ [][Next]_vars /\ Fairness

---------------------------------------------------------------------------
InState(th, state) == IF th.pc = state THEN 1 ELSE 0

\* numPendingFBWrites is the length of the list, up to the step a thread still
\* has to take: acks that arrive twice, before the write is listed or after
\* its timeout never make it count a write twice, and neither do two handlers
\* that erase each other's writes.
CounterMatchesList ==
  ~shutDown /\ ~corrupt =>
    numPendingFBWrites = Len(pending) - InState(sender, "listed")
                           + InState(worker, "uncount") + InState(expiry, "uncount")

\* A write that is listed will be struck off even if no ack ever comes: its
\* timer runs, or a handler holds it.  The three ways to go astray are that
\* the timer expires between timer.add and push_back, that the ack of a write
\* whose timer is gone cancels the timer that has its id now, and that the
\* write's handler erases another one at an index that has moved.
PendingIsGuarded ==
  ~corrupt => \A i \in DOMAIN pending :
    \/ Armed(pending[i].txn)
    \/ pending[i].txn \in astray
    \/ \E th \in {worker, expiry} : IsHolding(th) /\ th.txn = pending[i].txn

\* While a handler goes from its look-up to its erase (handlePacket,
\* fbSendTimeoutExpired: "does the transaction number match?", then
\* erase(begin() + i)), its index keeps referring to its write, whatever the
\* coordinator lists and whatever the other handler erases behind it: only an
\* erase of the other at or before that index moves it.
EraseIsOwn ==
  ~corrupt => \A th \in {worker, expiry} :
    IsHolding(th) /\ ~th.moved => th.i \in DOMAIN pending /\ pending[th.i].txn = th.txn

\* A node is left alone only after MaxPacketsWithErrors failures or more with no
\* success in between ("after how many packets with errors we assume the node
\* died", ProtocolHandler.h): errors spread over a working connection do not
\* add up.
PauseFollowsErrors ==
  \A n \in Nodes : errorTimer[n] # 0 => failures[n] >= MaxPacketsWithErrors

\* Every listed write leaves the list, though the node never answers, unless
\* it went astray.
WritesResolve == \A t \in Txns : Listed(t) ~> ~Listed(t) \/ t \in astray \/ corrupt
===========================================================================
