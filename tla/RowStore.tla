------------------------------ MODULE RowStore ------------------------------
(***************************************************************************)
(* One table of the datastore and the threads that use it: db/Group.cpp,   *)
(* and db/Routine.cpp, db/Channel.cpp and db/Node.cpp, which do the same.  *)
(*                                                                         *)
(* All threads share one sqlite connection.  dbLock is held for a single   *)
(* sqlite call, so each call is one step; a function that makes several is *)
(* interleaved with the other threads.  A row is the value of its unique   *)
(* column (the name of a group, the node of a channel, the MAC of a node)  *)
(* and of one other column.  Of the other tables only what they share with *)
(* this one is kept: the connection, with its last inserted row id.        *)
(***************************************************************************)
EXTENDS Integers, FiniteSets

CONSTANTS
  Threads,   \* client threads and the protocol worker
  Keys,      \* values of the unique column
  Values,    \* values of the other column
  NoRow,     \* there is no row with this id
  MaxId      \* a bound on the rows that are created

ASSUME MaxIdIsNat == MaxId \in Nat
ASSUME ThreadsAreFinite == IsFiniteSet(Threads)

VARIABLES
  rows,            \* the table
  numRows,         \* sqlite_sequence: AUTOINCREMENT never gives an id again
  lastInsertRowId, \* of the connection, whichever table the row went to
  call,            \* what each thread is doing
  aborted,         \* a CHECK has failed
  overtaken        \* history: threads whose call another thread's insert into
                   \* any table, or its update of the same row, has overtaken

vars == <<rows, numRows, lastInsertRowId, call, aborted, overtaken>>

Ids == 1..MaxId
Row == [key : Keys, value : Values]

ASSUME NoRowIsNotARow == NoRow \notin Row

(***************************************************************************)
(* A thread's call: the DbGroup object it works on has the id and the row  *)
(* obj; made is the id its INSERT was given, which the thread never sees;  *)
(* set holds the columns its request names.                                *)
(***************************************************************************)
Columns == {"key", "value"}

Calls == [pc : {"idle", "insert", "rowid", "answered", "update"},
          id : 0..MaxId, obj : Row \cup {NoRow}, made : 0..MaxId, set : SUBSET Columns]

Call(pc, id, obj, made, set) == [pc |-> pc, id |-> id, obj |-> obj, made |-> made, set |-> set]

Idle == Call("idle", 0, NoRow, 0, {})

Init ==
  /\ rows = [i \in Ids |-> NoRow]
  /\ numRows = 0
  /\ lastInsertRowId = 0
  /\ call = [t \in Threads |-> Idle]
  /\ aborted = FALSE
  /\ overtaken = {}

Begin(t, c) ==
  /\ ~aborted
  /\ call[t].pc \in {"idle", "answered"}
  /\ call' = [call EXCEPT ![t] = c]
  /\ overtaken' = overtaken \ {t}

Goes(t, from, to) == /\ ~aborted
                     /\ call[t].pc = from
                     /\ call' = [call EXCEPT ![t] = to]

\* The threads that are about to insert a row.
Inserting == {t \in Threads : call[t].pc = "insert"}

\* The threads between their INSERT and sqlGetLastRowId.
BetweenCalls == {t \in Threads : call[t].pc = "rowid"}

\* Another row than i has the same value in the unique column.
IsTaken(r, i) == \E j \in Ids \ {i} : rows[j] # NoRow /\ rows[j].key = r.key

---------------------------------------------------------------------------
\* update() of an object with id zero, as clientRequestNewGroup makes it.
BeginCreate(t, r) ==
  /\ numRows + Cardinality(Inserting) < MaxId
  /\ Begin(t, Call("insert", 0, r, 0, {}))
  /\ UNCHANGED <<rows, numRows, lastInsertRowId, aborted>>

\* Mutant of Insert: sqlGetLastRowId is called before the statement is executed.
InsertAfterRowId(t) ==
  LET r == call[t].obj
  IN /\ ~IsTaken(r, 0)
     /\ Goes(t, "insert", Call("answered", lastInsertRowId, r, numRows + 1, {}))
     /\ rows' = [rows EXCEPT ![numRows + 1] = r]
     /\ numRows' = numRows + 1
     /\ lastInsertRowId' = numRows + 1
     /\ UNCHANGED <<aborted, overtaken>>

\* _create: the INSERT is executed, or fails and CHECK ends the process.
Insert(t) ==
  LET r == call[t].obj
  IN /\ call[t].pc = "insert"
     /\ \/ /\ ~IsTaken(r, 0)
           /\ Goes(t, "insert", Call("rowid", 0, r, numRows + 1, {}))
           /\ rows' = [rows EXCEPT ![numRows + 1] = r]
           /\ numRows' = numRows + 1
           /\ lastInsertRowId' = numRows + 1
           /\ overtaken' = overtaken \cup BetweenCalls
           /\ UNCHANGED aborted
        \/ /\ IsTaken(r, 0)
           /\ Goes(t, "insert", Idle)
           /\ aborted' = TRUE
           /\ UNCHANGED <<rows, numRows, lastInsertRowId, overtaken>>

\* _create of an object of another table, by a thread that does nothing here:
\* on the shared connection the row id it is given, of its own table's
\* sequence, is the last one from now on.
InsertElsewhere(t, i) ==
  /\ ~aborted
  /\ call[t].pc \in {"idle", "answered"}
  /\ lastInsertRowId' = i
  /\ overtaken' = overtaken \cup BetweenCalls
  /\ UNCHANGED <<rows, numRows, call, aborted>>

\* _create: id = sqlGetLastRowId(), and the client is answered with it.
GetLastRowId(t) ==
  /\ Goes(t, "rowid", Call("answered", lastInsertRowId, call[t].obj, call[t].made, {}))
  /\ UNCHANGED <<rows, numRows, lastInsertRowId, aborted, overtaken>>

---------------------------------------------------------------------------
\* Mutant of Find: the other column is not read from the row.
FindKeyOnly(t, i, named) ==
  /\ rows[i] # NoRow
  /\ \E v \in Values : Begin(t, Call("update", i, [rows[i] EXCEPT !.value = v], 0, named))
  /\ UNCHANGED <<rows, numRows, lastInsertRowId, aborted>>

\* findGroupWithId for a request that will set the columns named; an id that
\* is not found ends the request.
Find(t, i, named) ==
  /\ rows[i] # NoRow
  /\ Begin(t, Call("update", i, rows[i], 0, named))
  /\ UNCHANGED <<rows, numRows, lastInsertRowId, aborted>>

Changed(c, r) == [key   |-> IF "key" \in c.set THEN r.key ELSE c.obj.key,
                  value |-> IF "value" \in c.set THEN r.value ELSE c.obj.value]

\* _update: every column of the object is written, the ones the request names
\* with their new values; a value that is taken ends the process.
Update(t, r) ==
  LET c == call[t]
  IN /\ Goes(t, "update", Idle)
     /\ \/ /\ ~IsTaken(Changed(c, r), c.id)
           /\ rows' = [rows EXCEPT ![c.id] = Changed(c, r)]
           /\ overtaken' = overtaken \cup
                {u \in Threads \ {t} : call[u].pc = "update" /\ call[u].id = c.id}
           /\ UNCHANGED <<numRows, lastInsertRowId, aborted>>
        \/ /\ IsTaken(Changed(c, r), c.id)
           /\ aborted' = TRUE
           /\ UNCHANGED <<rows, numRows, lastInsertRowId, overtaken>>

\* The process has ended; nothing is written any more.
Ended == aborted /\ UNCHANGED vars

Next ==
  \/ \E t \in Threads, r \in Row : BeginCreate(t, r) \/ Update(t, r)
  \/ \E t \in Threads : Insert(t) \/ GetLastRowId(t)
  \/ \E t \in Threads, i \in Ids : InsertElsewhere(t, i)
  \/ \E t \in Threads, i \in Ids, named \in SUBSET Columns : Find(t, i, named)
  \/ Ended

Spec == Init /\ [][Next]_vars

---------------------------------------------------------------------------
\* The shapes of the table and of the calls.
TypeOK ==
  /\ rows \in [Ids -> Row \cup {NoRow}]
  /\ numRows \in 0..MaxId
  /\ lastInsertRowId \in 0..MaxId
  /\ call \in [Threads -> Calls]
  /\ aborted \in BOOLEAN
  /\ overtaken \subseteq Threads

\* "id: ID of the newly created group" (CommandServer.cpp:759): the id a client
\* is answered with is that of the row it created, unless another thread has
\* inserted a row, into this or another table, between the INSERT and
\* sqlGetLastRowId of _create.  In that case it is the other row's id, which
\* in this table may name any row or none.
CreatedIdIsOwn ==
  \A t \in Threads \ overtaken :
    call[t].pc = "answered" => call[t].id = call[t].made

\* "Updates one or more properties on an existing group" (CommandServer.cpp:706):
\* the columns the request does not name keep what they held, unless another
\* thread has updated the row since findGroupWithId.
UpdateKeepsTheRest ==
  [][\A t \in Threads \ overtaken :
       call[t].pc = "update" /\ call'[t].pc = "idle" /\ ~aborted' =>
         \A col \in Columns \ call[t].set :
           rows'[call[t].id][col] = rows[call[t].id][col]]_vars
===========================================================================
