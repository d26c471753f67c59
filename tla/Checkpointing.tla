--------------------------- MODULE Checkpointing ---------------------------
(***************************************************************************)
(* The threads of a process on the open database: those that run           *)
(* statements, the checkpoint thread, and the destructor (DataStore.cpp).  *)
(*                                                                         *)
(* The thread sleeps, logs and calls commit(), which holds checkpointLock  *)
(* and, for the sqlite call, dbLock.  The destructor takes checkpointLock, *)
(* cancels the thread and joins it, then commits and closes.  A            *)
(* cancellation takes effect when the thread is at a cancellation point:   *)
(* sleeping, writing the log, or writing the database file; waiting for a  *)
(* mutex is none.  dbLock exists only if db.serializeAccess is set, and    *)
(* the thread only with a journal in WAL mode and a checkpointInterval.    *)
(*                                                                         *)
(* What a checkpoint copies is not modelled: a SELECT is open between its  *)
(* separately locked sqlStep and sqlFinalize, which limits a passive       *)
(* checkpoint, and one that fails is only logged.                          *)
(***************************************************************************)
CONSTANTS
  Users,   \* threads that use the database
  Main,    \* the thread that creates and deletes the datastore
  Timer,   \* the checkpoint thread
  Nobody   \* holds no lock

ASSUME ThreadsDiffer ==
  /\ Main # Timer
  /\ {Main, Timer, Nobody} \cap Users = {}
  /\ Nobody \notin {Main, Timer}

VARIABLES
  useDbLock,        \* db.serializeAccess
  pc,               \* where each thread is; "none": it does not exist
  checkpointLock,   \* who holds it
  dbLock,
  cancelled,        \* pthread_cancel has been called
  torn              \* the thread died in the middle of a checkpoint

threadVars == <<useDbLock, pc, checkpointLock, dbLock, cancelled, torn>>

Threads == Users \cup {Main, Timer}

\* No process: no thread, and no lock is held.
NoThreads ==
  /\ pc = [t \in Threads |-> "none"]
  /\ checkpointLock = Nobody /\ dbLock = Nobody
  /\ cancelled = FALSE

\* The database is open: createCheckpointThread starts the thread or does not,
\* and the other threads come.
CreateThreads ==
  /\ \E timer \in {"sleep", "none"} :
       pc' = [t \in Threads |-> IF t = Timer THEN timer ELSE "run"]
  /\ UNCHANGED <<useDbLock, checkpointLock, dbLock, cancelled, torn>>

\* The process ends.
EndThreads ==
  /\ pc' = [t \in Threads |-> "none"]
  /\ checkpointLock' = Nobody /\ dbLock' = Nobody
  /\ cancelled' = FALSE
  /\ UNCHANGED <<useDbLock, torn>>

Goes(t, from, to) == pc[t] = from /\ pc' = [pc EXCEPT ![t] = to]

\* LOCK_START and LOCK_END.
LockStart(t) ==
  /\ useDbLock => dbLock = Nobody
  /\ dbLock' = IF useDbLock THEN t ELSE dbLock

LockEnd == dbLock' = IF useDbLock THEN Nobody ELSE dbLock

---------------------------------------------------------------------------
(***************************************************************************)
(* sqlExec, sqlStep and the like of the other threads.                     *)
(***************************************************************************)
LockForStatement(u) ==
  /\ Goes(u, "run", "statement")
  /\ LockStart(u)
  /\ UNCHANGED <<useDbLock, checkpointLock, cancelled, torn>>

EndStatement(u) ==
  /\ Goes(u, "statement", "run")
  /\ LockEnd
  /\ UNCHANGED <<useDbLock, checkpointLock, cancelled, torn>>

---------------------------------------------------------------------------
(***************************************************************************)
(* commit(), by the checkpoint thread and by the destructor.               *)
(***************************************************************************)
CommitLock(t) ==
  /\ Goes(t, "commit", "committing")
  /\ checkpointLock = Nobody
  /\ checkpointLock' = t
  /\ UNCHANGED <<useDbLock, dbLock, cancelled, torn>>

CommitLockDb(t) ==
  /\ Goes(t, "committing", "checkpoint")
  /\ LockStart(t)
  /\ UNCHANGED <<useDbLock, checkpointLock, cancelled, torn>>

\* Mutant of Checkpoint: checkpointLock is not released.
CheckpointKeepsLock(t, next) ==
  /\ Goes(t, "checkpoint", next)
  /\ LockEnd
  /\ UNCHANGED <<useDbLock, checkpointLock, cancelled, torn>>

\* sqlite3_wal_checkpoint_v2, whatever it returns, and both locks are released.
Checkpoint(t, next) ==
  /\ Goes(t, "checkpoint", next)
  /\ LockEnd
  /\ checkpointLock' = Nobody
  /\ UNCHANGED <<useDbLock, cancelled, torn>>

---------------------------------------------------------------------------
(***************************************************************************)
(* _checkpointThreadEntry.                                                 *)
(***************************************************************************)
Wake ==
  /\ Goes(Timer, "sleep", "log")
  /\ UNCHANGED <<useDbLock, checkpointLock, dbLock, cancelled, torn>>

Log ==
  /\ Goes(Timer, "log", "commit")
  /\ UNCHANGED <<useDbLock, checkpointLock, dbLock, cancelled, torn>>

\* The cancellation takes effect; stack unwinding releases the locks.
Die ==
  /\ cancelled
  /\ pc[Timer] \in {"sleep", "log", "checkpoint"}
  /\ pc' = [pc EXCEPT ![Timer] = "dead"]
  /\ torn' = (torn \/ pc[Timer] = "checkpoint")
  /\ checkpointLock' = IF checkpointLock = Timer THEN Nobody ELSE checkpointLock
  /\ dbLock' = IF dbLock = Timer THEN Nobody ELSE dbLock
  /\ UNCHANGED <<useDbLock, cancelled>>

---------------------------------------------------------------------------
(***************************************************************************)
(* ~DataStore: terminateCheckpointThread, commit, close.                   *)
(***************************************************************************)

\* terminateCheckpointThread returns at once if there is no thread.
NothingToTerminate ==
  /\ Goes(Main, "run", "commit")
  /\ pc[Timer] = "none"
  /\ UNCHANGED <<useDbLock, checkpointLock, dbLock, cancelled, torn>>

\* Mutant of TerminateLock: the lock is not waited for.
TerminateAnyway ==
  /\ Goes(Main, "run", "cancel")
  /\ pc[Timer] # "none"
  /\ UNCHANGED <<useDbLock, checkpointLock, dbLock, cancelled, torn>>

TerminateLock ==
  /\ Goes(Main, "run", "cancel")
  /\ pc[Timer] # "none"
  /\ checkpointLock = Nobody
  /\ checkpointLock' = Main
  /\ UNCHANGED <<useDbLock, dbLock, cancelled, torn>>

Cancel ==
  /\ Goes(Main, "cancel", "join")
  /\ cancelled' = TRUE
  /\ UNCHANGED <<useDbLock, checkpointLock, dbLock, torn>>

\* Mutant of Join: "we need to release the lock again or we'll deadlock".
JoinKeepsLock ==
  /\ Goes(Main, "join", "commit")
  /\ pc[Timer] = "dead"
  /\ UNCHANGED <<useDbLock, checkpointLock, dbLock, cancelled, torn>>

Join ==
  /\ Goes(Main, "join", "commit")
  /\ pc[Timer] = "dead"
  /\ checkpointLock' = Nobody
  /\ UNCHANGED <<useDbLock, dbLock, cancelled, torn>>

\* VACUUM, optimize and sqlite3_close, as one step under dbLock; what fails is
\* only logged.
Close ==
  /\ Goes(Main, "close", "closed")
  /\ useDbLock => dbLock = Nobody
  /\ UNCHANGED <<useDbLock, checkpointLock, dbLock, cancelled, torn>>

CommitStep(t) == CommitLock(t) \/ CommitLockDb(t)

TimerStep == Wake \/ Log \/ Die \/ CommitStep(Timer) \/ Checkpoint(Timer, "sleep")

MainStep == \/ NothingToTerminate \/ TerminateLock \/ Cancel \/ Join
            \/ CommitStep(Main) \/ Checkpoint(Main, "close") \/ Close

UserStep(u) == LockForStatement(u) \/ EndStatement(u)

Step == TimerStep \/ MainStep \/ \E u \in Users : UserStep(u)

(***************************************************************************)
(* Threads run; a mutex that is released again and again is had at last.   *)
(* A thread that is cancelled dies where it can.  The destructor need not  *)
(* be called, and the other threads need not start another statement.      *)
(***************************************************************************)
ThreadFairness ==
  /\ WF_threadVars(TimerStep) /\ WF_threadVars(Die)
  /\ WF_threadVars(Cancel \/ Join \/ Checkpoint(Main, "close"))
  /\ \A t \in {Main, Timer} : SF_threadVars(CommitLock(t)) /\ SF_threadVars(CommitLockDb(t))
  /\ SF_threadVars(Close)
  /\ \A u \in Users : WF_threadVars(EndStatement(u))
===========================================================================
