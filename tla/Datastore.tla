----------------------------- MODULE Datastore -----------------------------
(***************************************************************************)
(* The datastore over the lives of several server processes.               *)
(*                                                                         *)
(* A process opens the database and provisions it (SchemaProvisioning),    *)
(* lets its threads loose on it (Checkpointing), and ends: in an orderly   *)
(* way after the destructor, by a CHECK that fails, or by a crash at any   *)
(* moment.  The database file and its log outlive it, and the next process *)
(* opens what it finds.  open() runs before there is any other thread.     *)
(***************************************************************************)
EXTENDS Integers, SequencesExt, Checkpointing

CONSTANTS Versions, NoVersion

VARIABLES
  db, serverVersion, opening, next, version,
  interrupted   \* history: a process died while it applied the schema

S == INSTANCE SchemaProvisioning

schemaVars == <<db, serverVersion, opening, next, version>>
vars == <<schemaVars, threadVars, interrupted>>

Init ==
  /\ S!Init
  /\ NoThreads
  /\ useDbLock = FALSE
  /\ torn = FALSE
  /\ interrupted = FALSE

\* DataStore::DataStore: the configuration is read and open() begins.
Start(v) ==
  /\ S!Start(v)
  /\ useDbLock' \in BOOLEAN
  /\ UNCHANGED <<pc, checkpointLock, dbLock, cancelled, torn, interrupted>>

\* checkDbVersion and getInfoValue write nothing.
Look ==
  /\ S!CheckDbVersion \/ S!ReadSchemaVersion
  /\ UNCHANGED <<threadVars, interrupted>>

\* provisonBlankDb: each statement is its own transaction ...
Provision ==
  /\ S!ExecSchema
  /\ UNCHANGED <<threadVars, interrupted>>

\* ... and commit() at the end asks for a checkpoint, whatever comes of it.
EndProvision ==
  /\ S!ExecEnds
  /\ UNCHANGED <<threadVars, interrupted>>

\* The end of open(): the version is stored and the threads start.
ComeUp ==
  /\ S!UpdateStoredServerVersion
  /\ CreateThreads
  /\ UNCHANGED interrupted

\* The threads at work.
Work ==
  /\ Step
  /\ UNCHANGED <<schemaVars, interrupted>>

\* The process is gone, and with it its threads and its locks.
Gone ==
  /\ opening' = "down"
  /\ EndThreads
  /\ UNCHANGED <<db, serverVersion, next, version>>

\* The destructor is done and main() returns.
Exit ==
  /\ pc[Main] = "closed"
  /\ Gone
  /\ UNCHANGED interrupted

\* A crash, a kill, or the CHECK of getInfoValue.
Crash ==
  /\ opening # "down"
  /\ Gone
  /\ interrupted' = (interrupted \/ (opening = "provision" /\ next \in 2..Len(S!Schema)))

Next ==
  \/ \E v \in Versions : Start(v)
  \/ Look \/ Provision \/ EndProvision \/ ComeUp
  \/ Work
  \/ Exit \/ Crash

Spec == Init /\ [][Next]_vars /\ ThreadFairness

---------------------------------------------------------------------------
IsGone == pc[Main] = "none"

\* "Waiting for the checkpoint lock prevents us from killing it in the middle
\* of a checkpoint" (DataStore.cpp:435).
NeverTorn == ~torn

\* The stored schema version vouches for the schema: wherever a process dies,
\* and whatever the next one finds, a database that has the version has every
\* table and index of it (provisonBlankDb, schema_v1.sql).
VersionMeansComplete == "schema_version" \in db => ToSet(S!Schema) \subseteq db

\* The threads find every table and index, unless a process has died between
\* two statements of the schema: upgradeSchema repairs nothing then.
ThreadsFindSchema ==
  ~IsGone /\ ~interrupted => ToSet(S!Schema) \subseteq db

\* The thread comes to every checkpoint it wakes up for, however busy the other
\* threads keep the database, until it is cancelled or the process dies:
\* commit() never waits forever for dbLock while it holds checkpointLock, nor
\* for checkpointLock (_checkpointThreadEntry, commit).
CheckpointsGoOn ==
  pc[Timer] = "sleep" ~> pc[Timer] = "checkpoint" \/ cancelled \/ pc[Timer] = "none"

\* The destructor waits for the thread with checkpointLock held; a thread that
\* has woken up is waiting for just that lock, which is no cancellation point.
JoinDeadlock ==
  pc[Main] = "join" /\ checkpointLock = Main /\ pc[Timer] = "commit"

\* The thread t waits for u: for a lock that u holds, or for its end.
WaitsFor(t, u) ==
  \/ pc[t] = "commit" /\ checkpointLock = u
  \/ t = Main /\ pc[t] = "run" /\ pc[Timer] # "none" /\ checkpointLock = u
  \/ t = Main /\ pc[t] = "join" /\ u = Timer /\ pc[u] # "dead"
  \/ pc[t] \in {"committing", "close"} /\ useDbLock /\ dbLock = u
  \/ t \in Users /\ pc[t] = "run" /\ useDbLock /\ dbLock = u

\* Where u is, nothing can keep it from its next step.
GoesOn(u) ==
  \/ pc[u] \in {"statement", "checkpoint", "cancel"}
  \/ pc[u] = "committing" /\ (useDbLock => dbLock = Nobody)
  \/ u = Main /\ pc[u] = "join" /\ pc[Timer] = "dead"
  \/ u = Timer /\ pc[u] \in {"sleep", "log"} /\ cancelled

\* No thread waits in a circle, nor for one that has left a lock behind: whom it
\* waits for goes on, or waits for one that does.  The exception is the join
\* (LOCK_START, commit, terminateCheckpointThread).
WaitsEnd ==
  \A t, u \in Threads : WaitsFor(t, u) =>
    JoinDeadlock \/ GoesOn(u) \/ \E v \in Threads : WaitsFor(u, v) /\ GoesOn(v)

\* The destructor closes the database, unless it meets a thread that has woken
\* up before it was cancelled: that is the only way to hang
\* (terminateCheckpointThread, commit, close).
DestructorEnds ==
  pc[Main] \in {"cancel", "commit"} ~> pc[Main] = "closed" \/ IsGone \/ JoinDeadlock
===========================================================================
