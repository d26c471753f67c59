-------------------------- MODULE DatastoreProofs --------------------------
(***************************************************************************)
(* Proofs about Datastore, for any set of threads and of server versions   *)
(* and over any number of processes that open the database.                *)
(***************************************************************************)
EXTENDS Datastore, SequenceTheorems, TLAPS

Complete == ToSet(S!Schema) \subseteq db

Statements == 1..16

\* The statements of the schema that come before the next one.
Applied == {S!Schema[j] : j \in {k \in Statements : k < next}}

---------------------------------------------------------------------------
(***************************************************************************)
(* The schema: sixteen statements, all different, the version last.        *)
(***************************************************************************)
LEMMA SchemaStatements ==
  /\ Len(S!Schema) = 16
  /\ ToSet(S!Schema) = {S!Schema[j] : j \in Statements}
  /\ S!Schema[2] = "info"
  /\ S!Schema[16] = "schema_version"
  /\ \A j \in Statements : S!Schema[j] = "schema_version" => j = 16
  /\ \A i, j \in Statements : i # j => S!Schema[i] # S!Schema[j]
<1> DEFINE Names == {"routines", "info", "nodes", "groups", "channels",
                     "idx_info_key", "idx_node_id", "idx_node_mac", "idx_routines_id",
                     "idx_routines_name", "idx_groups_id", "idx_groups_name",
                     "idx_channels_id", "idx_channels_node", "idx_channels_node_data",
                     "schema_version"}
           front == S!Tables \o S!Indices
<1>1. /\ S!Tables \in Seq(Names) /\ Len(S!Tables) = 5
      /\ S!Indices \in Seq(Names) /\ Len(S!Indices) = 10
      /\ <<"schema_version">> \in Seq(Names) /\ Len(<<"schema_version">>) = 1
  <2>1. S!Tables \in Seq(Names)
    BY DEF S!Tables
  <2>2. Len(S!Tables) = 5
    BY DEF S!Tables
  <2>3. S!Indices \in Seq(Names)
    BY DEF S!Indices
  <2>4. Len(S!Indices) = 10
    BY DEF S!Indices
  <2>5. <<"schema_version">> \in Seq(Names)
    OBVIOUS
  <2>6. Len(<<"schema_version">>) = 1
    OBVIOUS
  <2> HIDE DEF Names
  <2> QED
    BY <2>1, <2>2, <2>3, <2>4, <2>5, <2>6
<1> HIDE DEF Names
<1>2. /\ front \in Seq(Names) /\ Len(front) = 15
      /\ \A j \in 1..15 : front[j] = IF j <= 5 THEN S!Tables[j] ELSE S!Indices[j - 5]
  <2>1. /\ front \in Seq(Names) /\ Len(front) = Len(S!Tables) + Len(S!Indices)
        /\ \A j \in 1..(Len(S!Tables) + Len(S!Indices)) :
             front[j] = IF j <= Len(S!Tables) THEN S!Tables[j]
                        ELSE S!Indices[j - Len(S!Tables)]
    BY <1>1, ConcatProperties, Zenon
  <2> HIDE DEF front
  <2> QED
    BY <1>1, <2>1
<1>3. /\ S!Schema \in Seq(Names) /\ Len(S!Schema) = 16
      /\ \A j \in 1..16 : S!Schema[j] = IF j <= 15 THEN front[j] ELSE "schema_version"
  <2>1. S!Schema = front \o <<"schema_version">>
    BY DEF S!Schema
  <2> HIDE DEF front
  <2>3. LET v == <<"schema_version">> IN
          /\ S!Schema \in Seq(Names) /\ Len(S!Schema) = Len(front) + Len(v)
          /\ \A j \in 1..(Len(front) + Len(v)) :
               S!Schema[j] = IF j <= Len(front) THEN front[j] ELSE v[j - Len(front)]
    BY <1>1, <1>2, <2>1, ConcatProperties, Zenon
  <2>2. \A j \in 1..16 : j > 15 => <<"schema_version">>[j - 15] = "schema_version"
    OBVIOUS
  <2> QED
    BY <1>1, <1>2, <2>2, <2>3
<1>4. \A j \in Statements : S!Schema[j] = CASE j <= 5 -> S!Tables[j]
                                          [] j \in 6..15 -> S!Indices[j - 5]
                                          [] j = 16 -> "schema_version"
  <2> HIDE DEF front
  <2> QED
    BY <1>2, <1>3 DEF Statements
<1>5. DOMAIN S!Schema = Statements
  BY <1>3 DEF Statements
<1>6. ToSet(S!Schema) = {S!Schema[j] : j \in Statements}
  BY <1>5 DEF ToSet
<1>7. S!Schema[2] = "info" /\ S!Schema[16] = "schema_version"
  BY <1>4 DEF Statements, S!Tables
<1>8. \A i, j \in Statements : i # j => S!Schema[i] # S!Schema[j]
  BY <1>4 DEF Statements, S!Tables, S!Indices
<1> QED
  BY <1>3, <1>6, <1>7, <1>8 DEF Statements

---------------------------------------------------------------------------
(***************************************************************************)
(* The threads.  What keeps a checkpoint whole: the destructor cancels     *)
(* only with checkpointLock in its hand, and goes on only when the thread  *)
(* is dead or never was.                                                   *)
(***************************************************************************)
ThreadStates == {"none", "run", "statement", "sleep", "log", "commit", "committing",
                 "checkpoint", "dead", "cancel", "join", "close", "closed"}

Closing == {"commit", "committing", "checkpoint", "close", "closed"}

LockInvariant ==
  /\ pc \in [Threads -> ThreadStates]
  /\ pc[Main] \in {"cancel", "join", "committing", "checkpoint"} => checkpointLock = Main
  /\ pc[Timer] \in {"committing", "checkpoint"} => checkpointLock = Timer
  /\ cancelled => pc[Main] \in {"join"} \cup Closing
  /\ pc[Main] \in Closing => pc[Timer] \in {"none", "dead"}
  /\ ~torn

\* There are threads only once the database has been opened.
ThreadsComeLast == opening # "up" => pc[Main] = "none"

\* One thread moves; the other threads stay where they are.
LEMMA GoesTo ==
  ASSUME LockInvariant, NEW t \in Threads, NEW s \in ThreadStates,
         pc' = [pc EXCEPT ![t] = s]
  PROVE  /\ pc' \in [Threads -> ThreadStates]
         /\ pc'[t] = s
         /\ \A u \in Threads \ {t} : pc'[u] = pc[u]
BY DEF LockInvariant

LEMMA TimerStepKeepsLocks ==
  ASSUME LockInvariant, TimerStep
  PROVE  LockInvariant' /\ pc'[Main] = pc[Main]
<1>0. Main \in Threads /\ Timer \in Threads /\ Main # Timer
  BY ThreadsDiffer DEF Threads
<1> DEFINE Moves(s) == /\ pc' \in [Threads -> ThreadStates]
                       /\ pc'[Timer] = s /\ pc'[Main] = pc[Main]
<1>1. ASSUME NEW s \in ThreadStates, pc' = [pc EXCEPT ![Timer] = s]
      PROVE  Moves(s)
  BY <1>0, <1>1, GoesTo
<1>2. CASE Wake \/ Log
  <2>1. \E s \in {"log", "commit"} : pc' = [pc EXCEPT ![Timer] = s]
    BY <1>2 DEF Wake, Log, Goes
  <2>2. \E s \in {"log", "commit"} : Moves(s)
    BY <1>1, <2>1 DEF ThreadStates
  <2>3. pc[Timer] \in {"sleep", "log"} /\ UNCHANGED <<checkpointLock, cancelled, torn>>
    BY <1>2 DEF Wake, Log, Goes
  <2> QED
    BY <2>2, <2>3 DEF LockInvariant
<1>3. CASE Die
  <2>1. Moves("dead")
    BY <1>1, <1>3 DEF Die, ThreadStates
  <2>2. pc[Timer] # "checkpoint"
    BY <1>0, <1>3 DEF Die, LockInvariant
  <2>3. pc[Timer] \in {"sleep", "log"} /\ ~torn' /\ cancelled' = cancelled
    BY <1>3, <2>2 DEF Die, LockInvariant
  <2>4. checkpointLock = Main => checkpointLock' = Main
    BY <1>0, <1>3 DEF Die
  <2> QED
    BY <2>1, <2>3, <2>4 DEF LockInvariant
<1>4. CASE CommitLock(Timer)
  <2>1. Moves("committing")
    BY <1>1, <1>4 DEF CommitLock, Goes, ThreadStates
  <2>2. /\ pc[Timer] = "commit" /\ checkpointLock = Nobody /\ checkpointLock' = Timer
        /\ UNCHANGED <<cancelled, torn>>
    BY <1>4 DEF CommitLock, Goes
  <2>3. Nobody # Main
    BY ThreadsDiffer
  <2> QED
    BY <2>1, <2>2, <2>3 DEF LockInvariant
<1>5. CASE CommitLockDb(Timer)
  <2>1. Moves("checkpoint")
    BY <1>1, <1>5 DEF CommitLockDb, Goes, ThreadStates
  <2>2. pc[Timer] = "committing" /\ UNCHANGED <<checkpointLock, cancelled, torn>>
    BY <1>5 DEF CommitLockDb, Goes
  <2> QED
    BY <2>1, <2>2 DEF LockInvariant
<1>6. CASE Checkpoint(Timer, "sleep")
  <2>1. Moves("sleep")
    BY <1>1, <1>6 DEF Checkpoint, Goes, ThreadStates
  <2>2. pc[Timer] = "checkpoint" /\ UNCHANGED <<cancelled, torn>>
    BY <1>6 DEF Checkpoint, Goes
  <2> QED
    BY <1>0, <2>1, <2>2 DEF LockInvariant
<1> QED
  BY <1>2, <1>3, <1>4, <1>5, <1>6 DEF TimerStep, CommitStep

LEMMA MainStepKeepsLocks ==
  ASSUME LockInvariant, MainStep
  PROVE  LockInvariant' /\ pc[Main] # "none"
<1>0. Main \in Threads /\ Timer \in Threads /\ Main # Timer
  BY ThreadsDiffer DEF Threads
<1> DEFINE Moves(s) == /\ pc' \in [Threads -> ThreadStates]
                       /\ pc'[Main] = s /\ pc'[Timer] = pc[Timer]
<1>1. ASSUME NEW s \in ThreadStates, pc' = [pc EXCEPT ![Main] = s]
      PROVE  Moves(s)
  BY <1>0, <1>1, GoesTo
<1>2. CASE NothingToTerminate
  <2>1. Moves("commit")
    BY <1>1, <1>2 DEF NothingToTerminate, Goes, ThreadStates
  <2>2. /\ pc[Main] = "run" /\ pc[Timer] = "none"
        /\ UNCHANGED <<checkpointLock, cancelled, torn>>
    BY <1>2 DEF NothingToTerminate, Goes
  <2> QED
    BY <2>1, <2>2 DEF LockInvariant, Closing
<1>3. CASE TerminateLock
  <2>1. Moves("cancel")
    BY <1>1, <1>3 DEF TerminateLock, Goes, ThreadStates
  <2>2. /\ pc[Main] = "run" /\ checkpointLock = Nobody /\ checkpointLock' = Main
        /\ UNCHANGED <<cancelled, torn>>
    BY <1>3 DEF TerminateLock, Goes
  <2>3. Nobody # Timer
    BY ThreadsDiffer
  <2> QED
    BY <2>1, <2>2, <2>3 DEF LockInvariant, Closing
<1>4. CASE Cancel
  <2>1. Moves("join")
    BY <1>1, <1>4 DEF Cancel, Goes, ThreadStates
  <2>2. pc[Main] = "cancel" /\ UNCHANGED <<checkpointLock, torn>>
    BY <1>4 DEF Cancel, Goes
  <2> QED
    BY <2>1, <2>2 DEF LockInvariant, Closing
<1>5. CASE Join
  <2>1. Moves("commit")
    BY <1>1, <1>5 DEF Join, Goes, ThreadStates
  <2>2. pc[Main] = "join" /\ pc[Timer] = "dead" /\ UNCHANGED <<cancelled, torn>>
    BY <1>5 DEF Join, Goes
  <2> QED
    BY <2>1, <2>2 DEF LockInvariant, Closing
<1>6. CASE CommitLock(Main)
  <2>1. Moves("committing")
    BY <1>1, <1>6 DEF CommitLock, Goes, ThreadStates
  <2>2. /\ pc[Main] = "commit" /\ checkpointLock' = Main
        /\ UNCHANGED <<cancelled, torn>>
    BY <1>6 DEF CommitLock, Goes
  <2> QED
    BY <2>1, <2>2 DEF LockInvariant, Closing
<1>7. CASE CommitLockDb(Main)
  <2>1. Moves("checkpoint")
    BY <1>1, <1>7 DEF CommitLockDb, Goes, ThreadStates
  <2>2. pc[Main] = "committing" /\ UNCHANGED <<checkpointLock, cancelled, torn>>
    BY <1>7 DEF CommitLockDb, Goes
  <2> QED
    BY <2>1, <2>2 DEF LockInvariant, Closing
<1>8. CASE Checkpoint(Main, "close")
  <2>1. Moves("close")
    BY <1>1, <1>8 DEF Checkpoint, Goes, ThreadStates
  <2>2. pc[Main] = "checkpoint" /\ UNCHANGED <<cancelled, torn>>
    BY <1>8 DEF Checkpoint, Goes
  <2> QED
    BY <2>1, <2>2 DEF LockInvariant, Closing
<1>9. CASE Close
  <2>1. Moves("closed")
    BY <1>1, <1>9 DEF Close, Goes, ThreadStates
  <2>2. pc[Main] = "close" /\ UNCHANGED <<checkpointLock, cancelled, torn>>
    BY <1>9 DEF Close, Goes
  <2> QED
    BY <2>1, <2>2 DEF LockInvariant, Closing
<1> QED
  BY <1>2, <1>3, <1>4, <1>5, <1>6, <1>7, <1>8, <1>9 DEF MainStep, CommitStep

LEMMA UserStepKeepsLocks ==
  ASSUME LockInvariant, NEW u \in Users, UserStep(u)
  PROVE  LockInvariant' /\ pc'[Main] = pc[Main]
<1>1. u \in Threads /\ {Main, Timer} \subseteq Threads \ {u}
  BY ThreadsDiffer DEF Threads
<1>2. \E s \in {"run", "statement"} : pc' = [pc EXCEPT ![u] = s]
  BY DEF UserStep, LockForStatement, EndStatement, Goes
<1>3. /\ pc' \in [Threads -> ThreadStates]
      /\ pc'[Main] = pc[Main] /\ pc'[Timer] = pc[Timer]
  BY <1>1, <1>2, GoesTo DEF ThreadStates
<1>4. UNCHANGED <<checkpointLock, cancelled, torn>>
  BY DEF UserStep, LockForStatement, EndStatement
<1> QED
  BY <1>3, <1>4 DEF LockInvariant

LEMMA ThreadsInit == Init => LockInvariant /\ ThreadsComeLast
BY ThreadsDiffer DEF Init, NoThreads, LockInvariant, ThreadsComeLast, Threads,
                     ThreadStates, Closing

LEMMA ThreadsStep ==
  LockInvariant /\ ThreadsComeLast /\ [Next]_vars => (LockInvariant /\ ThreadsComeLast)'
<1> SUFFICES ASSUME LockInvariant, ThreadsComeLast, [Next]_vars
             PROVE  LockInvariant' /\ ThreadsComeLast'
  OBVIOUS
<1>0. Main \in Threads /\ Timer \in Threads /\ Main # Timer
  BY ThreadsDiffer DEF Threads
<1>1. ASSUME UNCHANGED <<pc, checkpointLock, cancelled, torn>>,
             opening # "up"
      PROVE  LockInvariant' /\ ThreadsComeLast'
  BY <1>1 DEF LockInvariant, ThreadsComeLast
<1>2. ASSUME NEW v \in Versions, Start(v)
      PROVE  LockInvariant' /\ ThreadsComeLast'
  BY <1>1, <1>2 DEF Start, S!Start
<1>3. CASE Look \/ Provision \/ EndProvision
  BY <1>1, <1>3 DEF Look, Provision, EndProvision, threadVars, S!CheckDbVersion,
                    S!ReadSchemaVersion, S!ExecSchema, S!ExecEnds
<1>4. CASE ComeUp
  <2>1. /\ opening = "store" /\ opening' = "up"
        /\ UNCHANGED <<checkpointLock, cancelled, torn>>
    BY <1>4 DEF ComeUp, CreateThreads, S!UpdateStoredServerVersion
  <2>2. pc' \in [Threads -> ThreadStates] /\ pc'[Main] = "run"
        /\ pc'[Timer] \in {"sleep", "none"}
    BY <1>0, <1>4 DEF ComeUp, CreateThreads, ThreadStates
  <2>3. ~cancelled
    BY <2>1 DEF LockInvariant, ThreadsComeLast, Closing
  <2> QED
    BY <2>1, <2>2, <2>3 DEF LockInvariant, ThreadsComeLast, Closing
<1>5. CASE Work
  <2>1. Step /\ opening' = opening
    BY <1>5 DEF Work, schemaVars
  <2>2. CASE TimerStep
    BY <2>1, <2>2, TimerStepKeepsLocks DEF ThreadsComeLast
  <2>3. CASE MainStep
    BY <2>1, <2>3, MainStepKeepsLocks DEF ThreadsComeLast
  <2>4. CASE \E u \in Users : UserStep(u)
    BY <2>1, <2>4, UserStepKeepsLocks DEF ThreadsComeLast
  <2> QED
    BY <2>1, <2>2, <2>3, <2>4 DEF Step
<1>6. CASE Exit \/ Crash
  <2>1. Gone
    BY <1>6 DEF Exit, Crash
  <2>2. /\ pc' = [t \in Threads |-> "none"] /\ cancelled' = FALSE /\ torn' = torn
    BY <2>1 DEF Gone, EndThreads
  <2>3. pc' \in [Threads -> ThreadStates] /\ pc'[Main] = "none" /\ pc'[Timer] = "none"
    BY <1>0, <2>2 DEF ThreadStates
  <2> QED
    BY <2>2, <2>3 DEF LockInvariant, ThreadsComeLast, Closing
<1>7. CASE UNCHANGED vars
  BY <1>7 DEF vars, schemaVars, threadVars, LockInvariant, ThreadsComeLast
<1> QED
  BY <1>2, <1>3, <1>4, <1>5, <1>6, <1>7 DEF Next

\* However many threads use the database and whenever the destructor runs, the
\* checkpoint thread is never killed in the middle of a checkpoint: holding
\* checkpointLock over pthread_cancel is enough (terminateCheckpointThread).
THEOREM CheckpointsStayWhole == Spec => []NeverTorn
<1>1. LockInvariant => NeverTorn
  BY DEF LockInvariant, NeverTorn
<1> QED
  BY <1>1, ThreadsInit, ThreadsStep, PTL DEF Spec

---------------------------------------------------------------------------
(***************************************************************************)
(* Who waits for whom.  A lock is held only where the code is about to     *)
(* release it or waits for the other lock, in one order, or at the join.   *)
(***************************************************************************)
HoldersWork ==
  /\ checkpointLock \in {Main, Timer, Nobody}
  /\ checkpointLock = Main => pc[Main] \in {"cancel", "join", "committing", "checkpoint"}
  /\ checkpointLock = Timer => pc[Timer] \in {"committing", "checkpoint"}
  /\ dbLock \in Threads \cup {Nobody}
  /\ dbLock # Nobody => useDbLock /\ pc[dbLock] \in {"statement", "checkpoint"}

TimerStates == {"none", "sleep", "log", "commit", "committing", "checkpoint", "dead"}

PlacesFit ==
  /\ pc[Main] = "none" => \A t \in Threads : pc[t] = "none"
  /\ pc[Main] = "join" => cancelled
  /\ pc[Main] \in {"cancel", "join"} => pc[Timer] # "none"
  /\ pc[Timer] \in TimerStates
  /\ \A u \in Users : pc[u] \in {"none", "run", "statement"}

WaitInvariant == LockInvariant /\ HoldersWork /\ PlacesFit

\* One thread moves, which neither holds dbLock nor takes it, or is done with it.
LEMMA OthersHoldOn ==
  ASSUME WaitInvariant, NEW t \in Threads, NEW s \in ThreadStates,
         pc' = [pc EXCEPT ![t] = s], useDbLock' = useDbLock,
         \/ dbLock' = dbLock /\ pc[t] \notin {"statement", "checkpoint"}
         \/ useDbLock /\ dbLock' = t /\ s \in {"statement", "checkpoint"}
         \/ ~useDbLock /\ dbLock' = dbLock
         \/ dbLock' = Nobody
  PROVE  /\ dbLock' \in Threads \cup {Nobody}
         /\ dbLock' # Nobody => useDbLock' /\ pc'[dbLock'] \in {"statement", "checkpoint"}
         /\ pc'[t] = s /\ \A u \in Threads \ {t} : pc'[u] = pc[u]
<1>1. pc'[t] = s /\ \A u \in Threads \ {t} : pc'[u] = pc[u]
  BY GoesTo DEF WaitInvariant
<1> QED
  BY <1>1 DEF WaitInvariant, HoldersWork

LEMMA TimerStepKeepsHolders ==
  ASSUME WaitInvariant, TimerStep
  PROVE  HoldersWork' /\ PlacesFit'
<1>0. /\ Main \in Threads /\ Timer \in Threads /\ Main # Timer /\ Users \subseteq Threads \ {Timer}
      /\ Nobody # Main /\ Nobody # Timer
  BY ThreadsDiffer DEF Threads
<1>1. UNCHANGED <<useDbLock, cancelled>> /\ pc[Timer] # "none"
  BY DEF TimerStep, Wake, Log, Die, CommitStep, CommitLock, CommitLockDb, Checkpoint, Goes
<1>2. PICK s \in TimerStates \ {"none"} : pc' = [pc EXCEPT ![Timer] = s]
  BY DEF TimerStep, Wake, Log, Die, CommitStep, CommitLock, CommitLockDb, Checkpoint, Goes,
         TimerStates
<1>3. s \in ThreadStates
  BY DEF TimerStates, ThreadStates
<1>4. pc'[Timer] = s /\ \A u \in Threads \ {Timer} : pc'[u] = pc[u]
  BY <1>0, <1>2, <1>3, GoesTo DEF WaitInvariant
<1>5. PlacesFit'
  <2>1. pc[Main] # "none"
    BY <1>0, <1>1 DEF WaitInvariant, PlacesFit
  <2> QED
    BY <1>0, <1>1, <1>4, <2>1 DEF WaitInvariant, PlacesFit
<1>6. \/ dbLock' = dbLock /\ pc[Timer] \notin {"statement", "checkpoint"}
      \/ useDbLock /\ dbLock' = Timer /\ s \in {"statement", "checkpoint"}
      \/ ~useDbLock /\ dbLock' = dbLock
      \/ dbLock' = Nobody
  <2>1. CASE Wake \/ Log \/ CommitLock(Timer)
    BY <2>1 DEF Wake, Log, CommitLock, Goes
  <2>2. CASE Die
    BY <2>2 DEF Die, WaitInvariant, LockInvariant
  <2>3. CASE CommitLockDb(Timer)
    <3>1. pc'[Timer] = "checkpoint"
      BY <1>0, <2>3 DEF CommitLockDb, Goes, WaitInvariant, LockInvariant
    <3> QED
      BY <1>4, <2>3, <3>1 DEF CommitLockDb, LockStart, Goes
  <2>4. CASE Checkpoint(Timer, "sleep")
    BY <2>4 DEF Checkpoint, LockEnd
  <2> QED
    BY <2>1, <2>2, <2>3, <2>4 DEF TimerStep, CommitStep
<1>7. /\ dbLock' \in Threads \cup {Nobody}
      /\ dbLock' # Nobody => useDbLock' /\ pc'[dbLock'] \in {"statement", "checkpoint"}
  BY <1>0, <1>1, <1>2, <1>3, <1>6, OthersHoldOn
<1>8. /\ checkpointLock' \in {Main, Timer, Nobody}
      /\ checkpointLock' = Main => checkpointLock = Main
      /\ checkpointLock' = Timer => s \in {"committing", "checkpoint"}
  <2>1. CASE Wake \/ Log
    BY <1>0, <2>1 DEF Wake, Log, Goes, WaitInvariant, HoldersWork
  <2>2. CASE Die
    BY <1>0, <2>2 DEF Die, WaitInvariant, HoldersWork
  <2>3. CASE CommitLock(Timer) \/ CommitLockDb(Timer)
    <3>1. pc'[Timer] \in {"committing", "checkpoint"}
      BY <1>0, <2>3 DEF CommitLock, CommitLockDb, Goes, WaitInvariant, LockInvariant
    <3> QED
      BY <1>0, <1>4, <2>3, <3>1 DEF CommitLock, CommitLockDb, WaitInvariant, HoldersWork
  <2>4. CASE Checkpoint(Timer, "sleep")
    BY <1>0, <2>4 DEF Checkpoint
  <2> QED
    BY <2>1, <2>2, <2>3, <2>4 DEF TimerStep, CommitStep
<1> QED
  BY <1>0, <1>4, <1>5, <1>7, <1>8 DEF WaitInvariant, HoldersWork

LEMMA MainStepKeepsHolders ==
  ASSUME WaitInvariant, MainStep
  PROVE  HoldersWork' /\ PlacesFit'
<1>0. /\ Main \in Threads /\ Timer \in Threads /\ Main # Timer /\ Users \subseteq Threads \ {Main}
      /\ Nobody # Main /\ Nobody # Timer
  BY ThreadsDiffer DEF Threads
<1> DEFINE Places == {"cancel", "join", "close", "closed", "commit", "committing", "checkpoint"}
<1>1. useDbLock' = useDbLock
  BY DEF MainStep, NothingToTerminate, TerminateLock, Cancel, Join, CommitStep, CommitLock,
         CommitLockDb, Checkpoint, Close
<1>2. PICK s \in Places : pc' = [pc EXCEPT ![Main] = s]
  BY DEF MainStep, NothingToTerminate, TerminateLock, Cancel, Join, CommitStep, CommitLock,
         CommitLockDb, Checkpoint, Close, Goes
<1>3. s \in ThreadStates
  BY DEF ThreadStates
<1>4. pc'[Main] = s /\ \A u \in Threads \ {Main} : pc'[u] = pc[u]
  BY <1>0, <1>2, <1>3, GoesTo DEF WaitInvariant
<1>5. /\ s = "join" => cancelled' /\ pc[Timer] # "none"
      /\ s = "cancel" => pc[Timer] # "none"
  <2>1. CASE Cancel
    BY <1>4, <2>1 DEF Cancel, Goes, WaitInvariant, PlacesFit
  <2>2. CASE TerminateLock
    BY <1>0, <1>4, <2>2 DEF TerminateLock, Goes, WaitInvariant, LockInvariant
  <2>3. CASE ~Cancel /\ ~TerminateLock
    <3>1. \E x \in Places \ {"cancel", "join"} : pc' = [pc EXCEPT ![Main] = x]
      BY <2>3 DEF MainStep, NothingToTerminate, Join, CommitStep, CommitLock,
                  CommitLockDb, Checkpoint, Close, Goes
    <3>2. s \notin {"cancel", "join"}
      BY <1>0, <1>4, <3>1 DEF WaitInvariant, LockInvariant
    <3> QED
      BY <3>2
  <2> QED
    BY <2>1, <2>2, <2>3
<1>6. PlacesFit'
  BY <1>0, <1>4, <1>5 DEF WaitInvariant, PlacesFit
<1>7. \/ dbLock' = dbLock /\ pc[Main] \notin {"statement", "checkpoint"}
      \/ useDbLock /\ dbLock' = Main /\ s \in {"statement", "checkpoint"}
      \/ ~useDbLock /\ dbLock' = dbLock
      \/ dbLock' = Nobody
  <2>1. CASE NothingToTerminate \/ TerminateLock \/ Cancel \/ Join \/ CommitLock(Main) \/ Close
    BY <2>1 DEF NothingToTerminate, TerminateLock, Cancel, Join, CommitLock, Close, Goes
  <2>2. CASE CommitLockDb(Main)
    <3>1. pc'[Main] = "checkpoint"
      BY <1>0, <2>2 DEF CommitLockDb, Goes, WaitInvariant, LockInvariant
    <3> QED
      BY <1>4, <2>2, <3>1 DEF CommitLockDb, LockStart, Goes
  <2>3. CASE Checkpoint(Main, "close")
    BY <2>3 DEF Checkpoint, LockEnd
  <2> QED
    BY <2>1, <2>2, <2>3 DEF MainStep, CommitStep
<1>8. /\ dbLock' \in Threads \cup {Nobody}
      /\ dbLock' # Nobody => useDbLock' /\ pc'[dbLock'] \in {"statement", "checkpoint"}
  BY <1>0, <1>1, <1>2, <1>3, <1>7, OthersHoldOn
<1>9. /\ checkpointLock' \in {Main, Timer, Nobody}
      /\ checkpointLock' = Timer => checkpointLock = Timer
      /\ checkpointLock' = Main => pc'[Main] \in {"cancel", "join", "committing", "checkpoint"}
  <2> USE <1>0 DEF Goes, WaitInvariant, HoldersWork
  <2>1. CASE NothingToTerminate \/ Close
    BY <2>1 DEF NothingToTerminate, Close
  <2>2. CASE TerminateLock \/ Cancel
    BY <2>2 DEF TerminateLock, Cancel, LockInvariant
  <2>3. CASE Join \/ Checkpoint(Main, "close")
    BY <2>3 DEF Join, Checkpoint
  <2>4. CASE CommitLock(Main) \/ CommitLockDb(Main)
    BY <2>4 DEF CommitLock, CommitLockDb, LockInvariant
  <2> QED
    BY <2>1, <2>2, <2>3, <2>4 DEF MainStep, CommitStep
<1> QED
  BY <1>0, <1>4, <1>6, <1>8, <1>9 DEF WaitInvariant, HoldersWork

LEMMA UserStepKeepsHolders ==
  ASSUME WaitInvariant, NEW u \in Users, UserStep(u)
  PROVE  HoldersWork' /\ PlacesFit'
<1>0. /\ Main \in Threads \ {u} /\ Timer \in Threads \ {u} /\ u \in Threads
      /\ Users \subseteq Threads /\ Main # Timer
  BY ThreadsDiffer DEF Threads
<1>1. UNCHANGED <<useDbLock, checkpointLock, cancelled>> /\ pc[u] # "none"
  BY DEF UserStep, LockForStatement, EndStatement, Goes
<1>2. PICK s \in {"run", "statement"} :
        /\ pc' = [pc EXCEPT ![u] = s]
        /\ \/ useDbLock /\ dbLock' = u /\ s = "statement"
           \/ ~useDbLock /\ dbLock' = dbLock
           \/ dbLock' = Nobody
  BY DEF UserStep, LockForStatement, EndStatement, LockStart, LockEnd, Goes
<1>3. /\ dbLock' \in Threads \cup {Nobody}
      /\ dbLock' # Nobody => useDbLock' /\ pc'[dbLock'] \in {"statement", "checkpoint"}
      /\ pc'[u] = s /\ \A t \in Threads \ {u} : pc'[t] = pc[t]
  BY <1>0, <1>1, <1>2, OthersHoldOn DEF ThreadStates
<1>4. PlacesFit'
  <2>1. pc[Main] # "none"
    BY <1>0, <1>1 DEF WaitInvariant, PlacesFit
  <2> QED
    BY <1>0, <1>1, <1>3, <2>1 DEF WaitInvariant, PlacesFit
<1> QED
  BY <1>0, <1>1, <1>3, <1>4 DEF WaitInvariant, HoldersWork

LEMMA WaitInit == Init => WaitInvariant
<1> SUFFICES ASSUME Init PROVE WaitInvariant
  OBVIOUS
<1>1. \A t \in Threads : pc[t] = "none"
  BY DEF Init, NoThreads
<1>2. Main \in Threads /\ Timer \in Threads /\ Users \subseteq Threads
  BY DEF Threads
<1> QED
  BY <1>1, <1>2, ThreadsInit, ThreadsDiffer
     DEF Init, NoThreads, WaitInvariant, HoldersWork, PlacesFit, TimerStates

LEMMA WaitStep ==
  WaitInvariant /\ ThreadsComeLast /\ [Next]_vars => WaitInvariant'
<1> SUFFICES ASSUME WaitInvariant, ThreadsComeLast, [Next]_vars
             PROVE  HoldersWork' /\ PlacesFit'
  BY ThreadsStep DEF WaitInvariant
<1>0. /\ Main \in Threads /\ Timer \in Threads /\ Main # Timer /\ Users \subseteq Threads
      /\ Nobody # Main /\ Nobody # Timer
  BY ThreadsDiffer DEF Threads
<1>1. ASSUME opening # "up"
      PROVE  dbLock = Nobody /\ checkpointLock = Nobody /\ \A t \in Threads : pc[t] = "none"
  <2>1. \A t \in Threads : pc[t] = "none"
    BY <1>1 DEF ThreadsComeLast, WaitInvariant, PlacesFit
  <2> QED
    BY <1>0, <2>1 DEF WaitInvariant, HoldersWork
<1>2. ASSUME UNCHANGED <<pc, checkpointLock, dbLock, cancelled>>, opening # "up"
      PROVE  HoldersWork' /\ PlacesFit'
  BY <1>0, <1>1, <1>2 DEF HoldersWork, PlacesFit, TimerStates
<1>3. ASSUME NEW v \in Versions, Start(v)
      PROVE  HoldersWork' /\ PlacesFit'
  BY <1>2, <1>3 DEF Start, S!Start
<1>4. CASE Look \/ Provision \/ EndProvision
  BY <1>2, <1>4 DEF Look, Provision, EndProvision, threadVars, S!CheckDbVersion,
                    S!ReadSchemaVersion, S!ExecSchema, S!ExecEnds
<1>5. CASE ComeUp
  <2>1. opening # "up" /\ UNCHANGED <<checkpointLock, dbLock, cancelled>>
    BY <1>5 DEF ComeUp, CreateThreads, S!UpdateStoredServerVersion
  <2>2. pc'[Timer] \in {"sleep", "none"} /\ \A t \in Threads \ {Timer} : pc'[t] = "run"
    BY <1>0, <1>5 DEF ComeUp, CreateThreads
  <2>3. \A u \in Users : u # Timer
    BY ThreadsDiffer
  <2> QED
    BY <1>0, <1>1, <2>1, <2>2, <2>3 DEF HoldersWork, PlacesFit, TimerStates
<1>6. CASE Work
  BY <1>6, TimerStepKeepsHolders, MainStepKeepsHolders, UserStepKeepsHolders DEF Work, Step
<1>7. CASE Exit \/ Crash
  <2>1. /\ pc' = [t \in Threads |-> "none"] /\ cancelled' = FALSE
        /\ checkpointLock' = Nobody /\ dbLock' = Nobody
    BY <1>7 DEF Exit, Crash, Gone, EndThreads
  <2> QED
    BY <1>0, <2>1 DEF HoldersWork, PlacesFit, TimerStates
<1>8. CASE UNCHANGED vars
  BY <1>8 DEF vars, threadVars, WaitInvariant, HoldersWork, PlacesFit
<1> QED
  BY <1>3, <1>4, <1>5, <1>6, <1>7, <1>8 DEF Next

\* A thread that holds a lock is about to go on, or waits for one that is.
LEMMA HoldersGoOn ==
  ASSUME WaitInvariant
  PROVE  /\ useDbLock /\ dbLock # Nobody => dbLock \in Threads /\ GoesOn(dbLock)
         /\ checkpointLock # Nobody =>
              \/ JoinDeadlock \/ GoesOn(checkpointLock)
              \/ \E v \in Threads : WaitsFor(checkpointLock, v) /\ GoesOn(v)
<1>0. Main \in Threads /\ Timer \in Threads /\ Main # Timer
  BY ThreadsDiffer DEF Threads
<1>1. useDbLock /\ dbLock # Nobody => dbLock \in Threads /\ GoesOn(dbLock)
  BY DEF WaitInvariant, HoldersWork, GoesOn
<1>2. ASSUME NEW t \in {Main, Timer}, pc[t] = "committing"
      PROVE  GoesOn(t) \/ \E v \in Threads : WaitsFor(t, v) /\ GoesOn(v)
  <2>1. CASE useDbLock /\ dbLock # Nobody
    BY <1>1, <1>2, <2>1 DEF WaitsFor
  <2>2. CASE useDbLock => dbLock = Nobody
    BY <1>2, <2>2 DEF GoesOn
  <2> QED
    BY <2>1, <2>2
<1>3. ASSUME pc[Main] = "join", checkpointLock = Main
      PROVE  JoinDeadlock \/ GoesOn(Main) \/ (WaitsFor(Main, Timer) /\ GoesOn(Timer))
  <2>1. pc[Timer] \in {"sleep", "log", "commit", "dead"} /\ cancelled
    BY <1>0, <1>3 DEF WaitInvariant, LockInvariant, PlacesFit, TimerStates
  <2> QED
    BY <1>3, <2>1 DEF JoinDeadlock, GoesOn, WaitsFor
<1>4. ASSUME checkpointLock # Nobody
      PROVE  \/ JoinDeadlock \/ GoesOn(checkpointLock)
             \/ \E v \in Threads : WaitsFor(checkpointLock, v) /\ GoesOn(v)
  <2>1. /\ checkpointLock \in {Main, Timer}
        /\ \/ pc[checkpointLock] \in {"cancel", "checkpoint", "committing"}
           \/ checkpointLock = Main /\ pc[Main] = "join"
    BY <1>4 DEF WaitInvariant, HoldersWork
  <2>2. CASE pc[checkpointLock] \in {"cancel", "checkpoint"}
    BY <2>2 DEF GoesOn
  <2>3. CASE pc[checkpointLock] = "committing"
    BY <1>2, <2>1, <2>3
  <2>4. CASE checkpointLock = Main /\ pc[Main] = "join"
    BY <1>0, <1>3, <2>4
  <2> QED
    BY <2>1, <2>2, <2>3, <2>4
<1> QED
  BY <1>1, <1>4

\* With any number of threads on the database, the order of the two locks, in
\* commit and around every statement, lets no thread wait in a circle or for a
\* lock that was left behind, in any process after any crash.  The one circle is
\* the join under checkpointLock (terminateCheckpointThread).
THEOREM NobodyWaitsInCircle == Spec => []WaitsEnd
<1>1. ASSUME WaitInvariant PROVE WaitsEnd
  <2> SUFFICES ASSUME NEW t \in Threads, NEW u \in Threads, WaitsFor(t, u)
               PROVE  JoinDeadlock \/ GoesOn(u) \/ \E v \in Threads : WaitsFor(u, v) /\ GoesOn(v)
    BY DEF WaitsEnd
  <2>1. u # Nobody
    BY ThreadsDiffer DEF Threads
  <2>2. CASE checkpointLock = u
    BY <1>1, <2>1, <2>2, HoldersGoOn
  <2>3. CASE useDbLock /\ dbLock = u
    BY <1>1, <2>1, <2>3, HoldersGoOn
  <2>4. CASE t = Main /\ pc[t] = "join" /\ u = Timer /\ pc[u] # "dead"
    <3>1. checkpointLock = Main /\ cancelled /\ pc[Timer] \in {"sleep", "log", "commit"}
      BY <1>1, <2>4, ThreadsDiffer DEF WaitInvariant, LockInvariant, PlacesFit, TimerStates
    <3> QED
      BY <2>4, <3>1 DEF JoinDeadlock, GoesOn
  <2> QED
    BY <2>2, <2>3, <2>4 DEF WaitsFor
<1> QED
  BY <1>1, WaitInit, WaitStep, ThreadsInit, ThreadsStep, PTL DEF Spec, WaitInvariant

---------------------------------------------------------------------------
(***************************************************************************)
(* The schema over the lives of the processes.                             *)
(***************************************************************************)

\* Where open() is, and that the statements before the next one have run.
ProvisioningInvariant ==
  /\ next \in 1..17
  /\ opening = "check" => next = 1
  /\ opening = "provision" => Applied \subseteq db
  /\ VersionMeansComplete

\* As long as no process has died between two statements, a database is blank
\* or complete between the processes, holds just what the running one has
\* applied, and is complete from there on.
UninterruptedInvariant ==
  ~interrupted =>
    /\ opening \in {"down", "check"} => db = {} \/ Complete
    /\ opening = "provision" => db = Applied
    /\ opening \notin {"down", "check", "provision"} => Complete

SchemaInvariant == ProvisioningInvariant /\ UninterruptedInvariant

\* When all statements have been applied, the schema is complete.
LEMMA AllApplied ==
  ASSUME next = 17
  PROVE  Applied = ToSet(S!Schema)
BY SchemaStatements DEF Applied, Statements

LEMMA NothingApplied ==
  ASSUME next = 1
  PROVE  Applied = {}
BY DEF Applied, Statements

\* sqlite3_exec runs one more statement.
LEMMA ExecSchemaApplies ==
  ASSUME next \in 1..16, next' = next + 1
  PROVE  Applied' = Applied \cup {S!Schema[next]}
<1>1. {k \in Statements : k < next + 1} = {k \in Statements : k < next} \cup {next}
  BY DEF Statements
<1>2. S!Schema' = S!Schema
  BY DEF S!Schema, S!Tables, S!Indices
<1> QED
  BY <1>1, <1>2 DEF Applied

LEMMA SchemaInit == Init => SchemaInvariant
<1> SUFFICES ASSUME Init PROVE SchemaInvariant
  OBVIOUS
<1>1. db = {} /\ opening = "down" /\ next = 1
  BY DEF Init, S!Init
<1> QED
  BY <1>1 DEF SchemaInvariant, ProvisioningInvariant, UninterruptedInvariant,
              VersionMeansComplete

LEMMA SchemaIsFixed == S!Schema' = S!Schema /\ (ToSet(S!Schema))' = ToSet(S!Schema)
BY DEF S!Schema, S!Tables, S!Indices, ToSet

\* provisonBlankDb runs one more statement.
LEMMA ProvisionPreserves ==
  ASSUME SchemaInvariant, Provision
  PROVE  SchemaInvariant'
<1>1. /\ opening = "provision" /\ opening' = "provision"
      /\ next <= 16 /\ next' = next + 1
      /\ db' = db \cup {S!Schema[next]} /\ interrupted' = interrupted
  BY SchemaStatements DEF Provision, S!ExecSchema
<1>2. next \in 1..16 /\ next' \in 1..17
  BY <1>1 DEF SchemaInvariant, ProvisioningInvariant
<1>3. Applied' = Applied \cup {S!Schema[next]}
  BY <1>1, <1>2, ExecSchemaApplies
<1>4. Applied' \subseteq db'
  BY <1>1, <1>3 DEF SchemaInvariant, ProvisioningInvariant
<1>5. VersionMeansComplete'
  <2> SUFFICES ASSUME "schema_version" \in db'
               PROVE  ToSet(S!Schema) \subseteq db'
    BY SchemaIsFixed DEF VersionMeansComplete
  <2>1. CASE "schema_version" \in db
    BY <1>1, <2>1 DEF SchemaInvariant, ProvisioningInvariant, VersionMeansComplete
  <2>2. CASE "schema_version" \notin db
    <3>1. S!Schema[next] = "schema_version"
      BY <1>1, <2>2
    <3>2. next = 16
      BY <1>2, <3>1, SchemaStatements DEF Statements
    <3>3. (Applied = ToSet(S!Schema))'
      <4>1. Applied' = {S!Schema[j] : j \in Statements}
        BY <1>3, <3>2 DEF Applied, Statements
      <4> QED
        BY <4>1, SchemaStatements, SchemaIsFixed
    <3> QED
      BY <1>4, <3>3, SchemaIsFixed
  <2> QED
    BY <2>1, <2>2
<1>6. UninterruptedInvariant'
  BY <1>1, <1>3 DEF SchemaInvariant, UninterruptedInvariant
<1> QED
  BY <1>1, <1>2, <1>4, <1>5, <1>6 DEF SchemaInvariant, ProvisioningInvariant

\* provisonBlankDb ends: without an interruption no statement has failed.
LEMMA EndProvisionPreserves ==
  ASSUME SchemaInvariant, EndProvision
  PROVE  SchemaInvariant'
<1>1. /\ opening = "provision" /\ opening' = "version"
      /\ next <= 16 => S!Fails(S!Schema[next])
      /\ UNCHANGED <<db, next, interrupted>>
  BY SchemaStatements DEF EndProvision, S!ExecEnds
<1>2. next \in 1..17 /\ VersionMeansComplete'
  BY <1>1, SchemaIsFixed DEF SchemaInvariant, ProvisioningInvariant, VersionMeansComplete
<1>3. ASSUME ~interrupted
      PROVE  Complete
  <2>1. db = Applied
    BY <1>1, <1>3 DEF SchemaInvariant, UninterruptedInvariant
  <2>2. CASE next <= 16
    <3>1. S!Schema[next] \in Applied
      BY <1>1, <2>1, <2>2 DEF S!Fails
    <3>2. PICK j \in Statements : j < next /\ S!Schema[j] = S!Schema[next]
      BY <3>1 DEF Applied
    <3>3. next \in Statements /\ j # next
      BY <1>2, <2>2, <3>2 DEF Statements
    <3> QED
      BY <3>2, <3>3, SchemaStatements
  <2>3. CASE next = 17
    BY <2>1, <2>3, AllApplied DEF Complete
  <2> QED
    BY <1>2, <2>2, <2>3
<1>4. UninterruptedInvariant'
  BY <1>1, <1>3, SchemaIsFixed DEF UninterruptedInvariant, Complete
<1> QED
  BY <1>1, <1>2, <1>4 DEF SchemaInvariant, ProvisioningInvariant

\* The process ends, orderly or not.
LEMMA GonePreserves ==
  ASSUME SchemaInvariant, ThreadsComeLast, Exit \/ Crash
  PROVE  SchemaInvariant'
<1>1. opening' = "down" /\ UNCHANGED <<db, next>>
  BY DEF Exit, Crash, Gone
<1>2. next' \in 1..17 /\ VersionMeansComplete'
  BY <1>1, SchemaIsFixed DEF SchemaInvariant, ProvisioningInvariant, VersionMeansComplete
<1>3. ASSUME ~interrupted'
      PROVE  db = {} \/ Complete
  <2>1. ~interrupted /\ (opening = "provision" => next \notin 2..16)
    <3>1. CASE Exit
      BY <1>3, <3>1 DEF Exit, ThreadsComeLast
    <3>2. CASE Crash
      <4>1. ~interrupted /\ ~(opening = "provision" /\ next \in 2..Len(S!Schema))
        BY <1>3, <3>2, Zenon DEF Crash
      <4>2. Len(S!Schema) = 16
        BY SchemaStatements
      <4> QED
        BY <4>1, <4>2
    <3> QED
      BY <3>1, <3>2
  <2>2. CASE opening = "provision"
    <3>1. db = Applied
      BY <2>1, <2>2 DEF SchemaInvariant, UninterruptedInvariant
    <3>2. next = 1 \/ next = 17
      BY <2>1, <2>2 DEF SchemaInvariant, ProvisioningInvariant
    <3> QED
      BY <3>1, <3>2, NothingApplied, AllApplied DEF Complete
  <2>3. CASE opening # "provision"
    BY <2>1, <2>3 DEF SchemaInvariant, UninterruptedInvariant
  <2> QED
    BY <2>2, <2>3
<1>4. UninterruptedInvariant'
  BY <1>1, <1>3, SchemaIsFixed DEF UninterruptedInvariant, Complete
<1> QED
  BY <1>1, <1>2, <1>4 DEF SchemaInvariant, ProvisioningInvariant

LEMMA SchemaStep ==
  SchemaInvariant /\ ThreadsComeLast /\ [Next]_vars => SchemaInvariant'
<1> SUFFICES ASSUME SchemaInvariant, ThreadsComeLast, [Next]_vars
             PROVE  SchemaInvariant'
  OBVIOUS
<1>1. ASSUME UNCHANGED <<db, interrupted>>, next' \in 1..17,
             opening' = "check" => next' = 1,
             opening' = "provision" => (Applied \subseteq db)',
             ~interrupted =>
               /\ opening' \in {"down", "check"} => db = {} \/ Complete
               /\ opening' = "provision" => (db = Applied)'
               /\ opening' \notin {"down", "check", "provision"} => Complete
      PROVE  SchemaInvariant'
  <2>1. VersionMeansComplete' /\ Complete' = Complete
    BY <1>1, SchemaIsFixed
       DEF SchemaInvariant, ProvisioningInvariant, VersionMeansComplete, Complete
  <2>2. ProvisioningInvariant'
    BY <1>1, <2>1 DEF ProvisioningInvariant
  <2>3. UninterruptedInvariant'
    BY <1>1, <2>1 DEF UninterruptedInvariant
  <2> QED
    BY <2>2, <2>3 DEF SchemaInvariant
<1>2. ASSUME NEW v \in Versions, Start(v)
      PROVE  SchemaInvariant'
  <2>1. /\ opening = "down" /\ opening' = "check" /\ next' = 1
        /\ UNCHANGED <<db, interrupted>>
    BY <1>2 DEF Start, S!Start
  <2>2. ~interrupted => db = {} \/ Complete
    BY <2>1 DEF SchemaInvariant, UninterruptedInvariant
  <2> QED
    BY <1>1, <2>1, <2>2
<1>3. CASE Look
  <2>1. UNCHANGED <<db, next, interrupted>> /\ next \in 1..17
    BY <1>3 DEF Look, S!CheckDbVersion, S!ReadSchemaVersion, SchemaInvariant,
                ProvisioningInvariant
  <2>2. CASE S!CheckDbVersion
    <3>1. /\ opening = "check" /\ next = 1
          /\ opening' = IF "info" \in db THEN "version" ELSE "provision"
      BY <2>2 DEF S!CheckDbVersion, SchemaInvariant, ProvisioningInvariant
    <3>2. Applied' = {}
      BY <2>1, <3>1, NothingApplied DEF Applied, Statements
    <3>3. Complete => "info" \in db
      BY SchemaStatements DEF Complete, Statements
    <3>4. ~interrupted => db = {} \/ Complete
      BY <3>1 DEF SchemaInvariant, UninterruptedInvariant
    <3> QED
      BY <1>1, <2>1, <3>1, <3>2, <3>3, <3>4
  <2>3. CASE S!ReadSchemaVersion
    <3>1. opening = "version" /\ opening' \in {"store", "aborted"}
      BY <2>3 DEF S!ReadSchemaVersion
    <3>2. ~interrupted => Complete
      BY <3>1 DEF SchemaInvariant, UninterruptedInvariant
    <3> QED
      BY <1>1, <2>1, <3>1, <3>2
  <2> QED
    BY <1>3, <2>2, <2>3 DEF Look
<1>4. CASE ComeUp
  <2>1. /\ opening = "store" /\ opening' = "up" /\ next \in 1..17
        /\ UNCHANGED <<db, next, interrupted>>
    BY <1>4 DEF ComeUp, S!UpdateStoredServerVersion, SchemaInvariant, ProvisioningInvariant
  <2>2. ~interrupted => Complete
    BY <2>1 DEF SchemaInvariant, UninterruptedInvariant
  <2> QED
    BY <1>1, <2>1, <2>2
<1>5. CASE Work \/ UNCHANGED vars
  <2>1. UNCHANGED <<db, opening, next, interrupted>>
    BY <1>5 DEF Work, vars, schemaVars
  <2>2. Applied' = Applied /\ Complete' = Complete /\ VersionMeansComplete' = VersionMeansComplete
    BY <2>1, SchemaIsFixed DEF Applied, Complete, VersionMeansComplete
  <2> QED
    BY <2>1, <2>2 DEF SchemaInvariant, ProvisioningInvariant, UninterruptedInvariant
<1> QED
  BY <1>2, <1>3, <1>4, <1>5, ProvisionPreserves, EndProvisionPreserves, GonePreserves
     DEF Next

LEMMA SchemaHolds == Spec => [](SchemaInvariant /\ ThreadsComeLast)
BY ThreadsInit, ThreadsStep, SchemaInit, SchemaStep, PTL DEF Spec

\* Over any number of processes, each of which may die at any moment, a stored
\* schema version vouches for every table and index: the version is the last
\* statement of schema_v1.sql, and every statement before it has been applied
\* by the same process or by one before it.
THEOREM VersionVouchesForSchema == Spec => []VersionMeansComplete
<1>1. SchemaInvariant => VersionMeansComplete
  BY DEF SchemaInvariant, ProvisioningInvariant
<1> QED
  BY <1>1, SchemaHolds, PTL

\* The threads of any process find the complete schema, unless an earlier
\* process has died between two of its statements: that is the only way to
\* start on a part of it, whatever else goes wrong.
THEOREM ThreadsAlwaysFindSchema == Spec => []ThreadsFindSchema
<1>1. SchemaInvariant /\ ThreadsComeLast => ThreadsFindSchema
  BY DEF SchemaInvariant, UninterruptedInvariant, ThreadsComeLast, ThreadsFindSchema,
         IsGone, Complete
<1> QED
  BY <1>1, SchemaHolds, PTL
===========================================================================
