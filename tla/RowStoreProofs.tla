--------------------------- MODULE RowStoreProofs ---------------------------
(***************************************************************************)
(* Proofs about RowStore, for any set of threads, keys and values and any  *)
(* number of rows.                                                         *)
(***************************************************************************)
EXTENDS RowStore, FiniteSetTheorems, TLAPS

\* No two rows share the value of the unique column, which the schema's unique
\* index sees to, and the rows are those with the ids given out so far.
TableIsConsistent ==
  /\ \A i \in Ids : rows[i] # NoRow <=> i <= numRows
  /\ \A i, j \in Ids :
       i # j /\ rows[i] # NoRow /\ rows[j] # NoRow => rows[i].key # rows[j].key

\* What a thread is about to write is a row, and the row it is about to
\* overwrite is there: findGroupWithId returned it and no row is ever deleted.
CallsHoldRows ==
  \A t \in Threads :
    /\ call[t].pc = "insert" => call[t].obj \in Row
    /\ call[t].pc = "update" => call[t].obj \in Row /\ call[t].id \in 1..numRows

\* Every thread that is about to insert a row has an id left for it.
InsertsFit == numRows + Cardinality(Inserting) <= MaxId

RowInvariant == TypeOK /\ TableIsConsistent /\ CallsHoldRows /\ InsertsFit

LEMMA InsertingIsFinite ==
  IsFiniteSet(Inserting) /\ Cardinality(Inserting) \in Nat
BY ThreadsAreFinite, FS_Subset, FS_CardinalityType DEF Inserting

\* Writing a row whose key no other row has, either over a row that is there
\* or as the next one, keeps the table consistent.
LEMMA WriteKeepsTable ==
  ASSUME TypeOK, TableIsConsistent,
         NEW i \in Ids, NEW r \in Row, ~IsTaken(r, i),
         NEW n \in 0..MaxId, n = numRows \/ n = numRows + 1,
         i <= n, n = numRows + 1 => i = n,
         rows' = [rows EXCEPT ![i] = r], numRows' = n
  PROVE  TableIsConsistent'
<1>1. \A j \in Ids : rows'[j] = IF j = i THEN r ELSE rows[j]
  BY DEF TypeOK
<1>2. r # NoRow
  BY NoRowIsNotARow
<1>3. \A j \in Ids : rows'[j] # NoRow <=> j <= n
  BY <1>1, <1>2, MaxIdIsNat DEF TypeOK, TableIsConsistent, Ids
<1>4. \A j \in Ids \ {i} : rows[j] # NoRow => rows[j].key # r.key
  BY DEF IsTaken
<1>5. \A j, k \in Ids :
        j # k /\ rows'[j] # NoRow /\ rows'[k] # NoRow => rows'[j].key # rows'[k].key
  BY <1>1, <1>4 DEF TableIsConsistent
<1> QED
  BY <1>3, <1>5 DEF TableIsConsistent

LEMMA CallTyped ==
  ASSUME NEW p \in {"idle", "insert", "rowid", "answered", "update"},
         NEW i \in 0..MaxId, NEW o \in Row \cup {NoRow}, NEW m \in 0..MaxId,
         NEW named \in SUBSET Columns
  PROVE  /\ Call(p, i, o, m, named) \in Calls
         /\ Call(p, i, o, m, named).pc = p
         /\ Call(p, i, o, m, named).id = i
         /\ Call(p, i, o, m, named).obj = o
BY DEF Call, Calls

LEMMA IdleTyped == Idle \in Calls /\ Idle.pc = "idle"
BY CallTyped, MaxIdIsNat DEF Idle

\* One thread's call changes; the others go on as they were.
LEMMA CallChanges ==
  ASSUME TypeOK, NEW t \in Threads, NEW c \in Calls, call' = [call EXCEPT ![t] = c]
  PROVE  /\ call' \in [Threads -> Calls]
         /\ call'[t] = c
         /\ \A s \in Threads \ {t} : call'[s] = call[s]
BY DEF TypeOK

\* The number of inserting threads after a thread's call has changed.
LEMMA InsertingChanges ==
  ASSUME TypeOK, NEW t \in Threads, NEW c \in Calls, call' = [call EXCEPT ![t] = c]
  PROVE  Cardinality(Inserting') =
           Cardinality(Inserting) + (IF c.pc = "insert" THEN 1 ELSE 0)
                                  - (IF call[t].pc = "insert" THEN 1 ELSE 0)
<1>1. call'[t] = c /\ \A s \in Threads \ {t} : call'[s] = call[s]
  BY CallChanges
<1>2. CASE c.pc = "insert" /\ call[t].pc # "insert"
  <2>1. Inserting' = Inserting \cup {t} /\ t \notin Inserting
    BY <1>1, <1>2 DEF Inserting
  <2>2. Cardinality(Inserting \cup {t}) = Cardinality(Inserting) + 1
    BY <2>1, InsertingIsFinite, FS_AddElement
  <2> QED
    BY <1>2, <2>1, <2>2, InsertingIsFinite
<1>3. CASE c.pc # "insert" /\ call[t].pc = "insert"
  <2>1. Inserting' = Inserting \ {t} /\ t \in Inserting
    BY <1>1, <1>3 DEF Inserting
  <2>2. Cardinality(Inserting \ {t}) = Cardinality(Inserting) - 1
    BY <2>1, InsertingIsFinite, FS_RemoveElement
  <2> QED
    BY <1>3, <2>1, <2>2, InsertingIsFinite
<1>4. CASE (c.pc = "insert") = (call[t].pc = "insert")
  <2>1. Inserting' = Inserting
    BY <1>1, <1>4 DEF Inserting
  <2> QED
    BY <1>4, <2>1, InsertingIsFinite
<1> QED
  BY <1>2, <1>3, <1>4

\* A step of one thread that neither inserts a row nor writes one.
LEMMA ReadOnlyPreserves ==
  ASSUME RowInvariant, NEW t \in Threads, NEW c \in Calls,
         call' = [call EXCEPT ![t] = c],
         c.pc = "insert" => c.obj \in Row,
         c.pc = "update" => c.obj \in Row /\ c.id \in 1..numRows,
         c.pc = "insert" /\ call[t].pc # "insert" =>
           numRows + Cardinality(Inserting) < MaxId,
         UNCHANGED <<rows, numRows, lastInsertRowId>>, aborted' \in BOOLEAN,
         overtaken' \subseteq Threads
  PROVE  RowInvariant'
<1> USE DEF RowInvariant
<1>1. /\ call' \in [Threads -> Calls] /\ call'[t] = c
      /\ \A s \in Threads \ {t} : call'[s] = call[s]
  BY CallChanges
<1>2. TypeOK'
  BY <1>1 DEF TypeOK
<1>3. TableIsConsistent'
  BY DEF TableIsConsistent
<1>4. CallsHoldRows'
  BY <1>1 DEF CallsHoldRows
<1>5. InsertsFit'
  <2>1. Cardinality(Inserting') =
          Cardinality(Inserting) + (IF c.pc = "insert" THEN 1 ELSE 0)
                                 - (IF call[t].pc = "insert" THEN 1 ELSE 0)
    BY InsertingChanges
  <2>2. numRows \in Nat /\ Cardinality(Inserting) \in Nat /\ MaxId \in Nat
    BY InsertingIsFinite, MaxIdIsNat DEF TypeOK
  <2>3. numRows + Cardinality(Inserting) <= MaxId /\ numRows' = numRows
    BY DEF InsertsFit
  <2> QED
    BY <2>1, <2>2, <2>3 DEF InsertsFit
<1> QED
  BY <1>2, <1>3, <1>4, <1>5

LEMMA RowInit == Init => RowInvariant
<1> SUFFICES ASSUME Init PROVE RowInvariant
  OBVIOUS
<1>1. TypeOK
  <2>1. numRows \in 0..MaxId /\ lastInsertRowId \in 0..MaxId
    BY MaxIdIsNat DEF Init
  <2>2. call \in [Threads -> Calls]
    BY IdleTyped DEF Init
  <2>3. rows \in [Ids -> Row \cup {NoRow}] /\ aborted \in BOOLEAN /\ overtaken \subseteq Threads
    BY DEF Init
  <2> QED
    BY <2>1, <2>2, <2>3 DEF TypeOK
<1>2. TableIsConsistent
  BY MaxIdIsNat DEF Init, TableIsConsistent, Ids
<1>3. CallsHoldRows
  BY IdleTyped DEF Init, CallsHoldRows
<1>4. InsertsFit
  <2>1. Inserting = {}
    BY IdleTyped DEF Init, Inserting
  <2> QED
    BY <2>1, FS_EmptySet, MaxIdIsNat DEF Init, InsertsFit
<1> QED
  BY <1>1, <1>2, <1>3, <1>4 DEF RowInvariant

LEMMA BeginCreatePreserves ==
  ASSUME RowInvariant, NEW t \in Threads, NEW r \in Row, BeginCreate(t, r)
  PROVE  RowInvariant'
<1> DEFINE c == Call("insert", 0, r, 0, {})
<1>1. c \in Calls /\ c.pc = "insert" /\ c.obj = r
  BY CallTyped, MaxIdIsNat
<1>2. /\ call' = [call EXCEPT ![t] = c]
      /\ numRows + Cardinality(Inserting) < MaxId
      /\ UNCHANGED <<rows, numRows, lastInsertRowId, aborted>>
      /\ overtaken' = overtaken \ {t}
  BY DEF BeginCreate, Begin
<1>3. aborted' \in BOOLEAN /\ overtaken' \subseteq Threads
  BY <1>2 DEF RowInvariant, TypeOK
<1> HIDE DEF c
<1> QED
  BY <1>1, <1>2, <1>3, ReadOnlyPreserves

LEMMA FindPreserves ==
  ASSUME RowInvariant, NEW t \in Threads, NEW i \in Ids, NEW named \in SUBSET Columns,
         Find(t, i, named)
  PROVE  RowInvariant'
<1> DEFINE c == Call("update", i, rows[i], 0, named)
<1>1. rows[i] \in Row /\ i \in 1..numRows /\ i \in 0..MaxId
  BY MaxIdIsNat DEF Find, RowInvariant, TypeOK, TableIsConsistent, Ids
<1>2. c \in Calls /\ c.pc = "update" /\ c.obj = rows[i] /\ c.id = i
  BY <1>1, CallTyped, MaxIdIsNat
<1>3. /\ call' = [call EXCEPT ![t] = c]
      /\ UNCHANGED <<rows, numRows, lastInsertRowId, aborted>>
      /\ overtaken' = overtaken \ {t}
  BY DEF Find, Begin
<1>4. aborted' \in BOOLEAN /\ overtaken' \subseteq Threads
  BY <1>3 DEF RowInvariant, TypeOK
<1> HIDE DEF c
<1> QED
  BY <1>1, <1>2, <1>3, <1>4, ReadOnlyPreserves

LEMMA GetLastRowIdPreserves ==
  ASSUME RowInvariant, NEW t \in Threads, GetLastRowId(t)
  PROVE  RowInvariant'
<1> DEFINE c == Call("answered", lastInsertRowId, call[t].obj, call[t].made, {})
<1>1. /\ call[t].obj \in Row \cup {NoRow} /\ call[t].made \in 0..MaxId
      /\ lastInsertRowId \in 0..MaxId
  BY DEF RowInvariant, TypeOK, Calls
<1>2. c \in Calls /\ c.pc = "answered"
  BY <1>1, CallTyped
<1>3. /\ call' = [call EXCEPT ![t] = c]
      /\ UNCHANGED <<rows, numRows, lastInsertRowId, aborted, overtaken>>
  BY DEF GetLastRowId, Goes
<1>4. aborted' \in BOOLEAN /\ overtaken' \subseteq Threads
  BY <1>3 DEF RowInvariant, TypeOK
<1> HIDE DEF c
<1> QED
  BY <1>2, <1>3, <1>4, ReadOnlyPreserves

\* _create: the row is inserted under the next id, or the process ends.
LEMMA InsertPreserves ==
  ASSUME RowInvariant, NEW t \in Threads, Insert(t)
  PROVE  RowInvariant'
<1> DEFINE r == call[t].obj
           n == numRows + 1
           c == Call("rowid", 0, r, n, {})
<1>1. call[t].pc = "insert"
  BY DEF Insert
<1>2. r \in Row
  BY <1>1 DEF RowInvariant, CallsHoldRows
<1>3. CASE IsTaken(r, 0)
  <2>1. /\ call' = [call EXCEPT ![t] = Idle] /\ aborted' = TRUE
        /\ UNCHANGED <<rows, numRows, lastInsertRowId, overtaken>>
    BY <1>3 DEF Insert, Goes
  <2>2. overtaken' \subseteq Threads
    BY <2>1 DEF RowInvariant, TypeOK
  <2> QED
    BY <2>1, <2>2, IdleTyped, ReadOnlyPreserves
<1>4. CASE ~IsTaken(r, 0)
  <2>1. /\ call' = [call EXCEPT ![t] = c] /\ rows' = [rows EXCEPT ![n] = r]
        /\ numRows' = n /\ lastInsertRowId' = n /\ aborted' = aborted
        /\ overtaken' = overtaken \cup BetweenCalls
    BY <1>4 DEF Insert, Goes
  <2>2. numRows \in Nat /\ Cardinality(Inserting) \in Nat /\ MaxId \in Nat
    BY InsertingIsFinite, MaxIdIsNat DEF RowInvariant, TypeOK
  <2>3. Cardinality(Inserting) >= 1
    <3>1. t \in Inserting
      BY <1>1 DEF Inserting
    <3>2. Cardinality(Inserting) # 0
      BY <3>1, InsertingIsFinite, FS_EmptySet
    <3> QED
      BY <2>2, <3>2
  <2>4. numRows + Cardinality(Inserting) <= MaxId
    BY DEF RowInvariant, InsertsFit
  <2>5. n \in Ids /\ n \in 0..MaxId
    BY <2>2, <2>3, <2>4 DEF Ids
  <2>6. c \in Calls /\ c.pc = "rowid"
    BY <1>2, <2>2, <2>5, CallTyped
  <2>7. /\ call' \in [Threads -> Calls] /\ call'[t] = c
        /\ \A s \in Threads \ {t} : call'[s] = call[s]
    BY <2>1, <2>6, CallChanges DEF RowInvariant
  <2>8. TypeOK'
    <3>1. rows' \in [Ids -> Row \cup {NoRow}]
      BY <1>2, <2>1, <2>5 DEF RowInvariant, TypeOK
    <3>2. aborted' \in BOOLEAN /\ overtaken' \subseteq Threads
      BY <2>1 DEF RowInvariant, TypeOK, BetweenCalls
    <3> QED
      BY <2>1, <2>5, <2>7, <3>1, <3>2 DEF TypeOK
  <2>9. TableIsConsistent'
    <3>1. ~IsTaken(r, n)
      BY <1>4, MaxIdIsNat DEF IsTaken, Ids
    <3>2. TypeOK /\ TableIsConsistent
      BY DEF RowInvariant
    <3>3. n <= n
      BY <2>2
    <3> HIDE DEF r, n
    <3> QED
      BY <1>2, <2>1, <2>5, <3>1, <3>2, <3>3, WriteKeepsTable DEF n
  <2>10. CallsHoldRows'
    BY <2>1, <2>2, <2>6, <2>7 DEF RowInvariant, CallsHoldRows
  <2>11. InsertsFit'
    <3>1. Cardinality(Inserting') =
            Cardinality(Inserting) + (IF c.pc = "insert" THEN 1 ELSE 0)
                                   - (IF call[t].pc = "insert" THEN 1 ELSE 0)
      BY <2>1, <2>6, InsertingChanges DEF RowInvariant
    <3>2. Cardinality(Inserting') = Cardinality(Inserting) - 1
      BY <1>1, <2>2, <2>6, <3>1
    <3> QED
      BY <2>1, <2>2, <2>4, <3>2 DEF InsertsFit
  <2> QED
    BY <2>8, <2>9, <2>10, <2>11 DEF RowInvariant
<1> QED
  BY <1>3, <1>4

\* An insert into another table changes the connection and nothing here.
LEMMA InsertElsewherePreserves ==
  ASSUME RowInvariant, NEW t \in Threads, NEW i \in Ids, InsertElsewhere(t, i)
  PROVE  RowInvariant'
<1>1. UNCHANGED <<rows, numRows, call, aborted>> /\ lastInsertRowId' = i
  BY DEF InsertElsewhere
<1>2. overtaken' \subseteq Threads /\ i \in 0..MaxId
  BY MaxIdIsNat DEF InsertElsewhere, RowInvariant, TypeOK, BetweenCalls, Ids
<1>3. TypeOK'
  BY <1>1, <1>2 DEF RowInvariant, TypeOK
<1>4. TableIsConsistent' /\ CallsHoldRows' /\ InsertsFit'
  BY <1>1 DEF RowInvariant, TableIsConsistent, CallsHoldRows, InsertsFit, Inserting
<1> QED
  BY <1>3, <1>4 DEF RowInvariant

\* _update: all columns of a row that is there are written, or the process ends.
LEMMA UpdatePreserves ==
  ASSUME RowInvariant, NEW t \in Threads, NEW v \in Row, Update(t, v)
  PROVE  RowInvariant'
<1> DEFINE i == call[t].id
           r == Changed(call[t], v)
<1>1. call[t].pc = "update" /\ call' = [call EXCEPT ![t] = Idle]
  BY DEF Update, Goes
<1>2. call[t].obj \in Row /\ i \in 1..numRows
  BY <1>1 DEF RowInvariant, CallsHoldRows
<1>3. r \in Row
  BY <1>2 DEF Changed, Row
<1>4. CASE IsTaken(r, i)
  <2>1. aborted' = TRUE /\ UNCHANGED <<rows, numRows, lastInsertRowId, overtaken>>
    BY <1>4 DEF Update
  <2>2. overtaken' \subseteq Threads
    BY <2>1 DEF RowInvariant, TypeOK
  <2> QED
    BY <1>1, <2>1, <2>2, IdleTyped, ReadOnlyPreserves
<1>5. CASE ~IsTaken(r, i)
  <2>1. /\ rows' = [rows EXCEPT ![i] = r]
        /\ UNCHANGED <<numRows, lastInsertRowId, aborted>>
        /\ overtaken' = overtaken \cup
             {u \in Threads \ {t} : call[u].pc = "update" /\ call[u].id = i}
    BY <1>5 DEF Update
  <2>2. numRows \in 0..MaxId /\ i \in Ids /\ i <= numRows /\ numRows # numRows + 1
    BY <1>2, MaxIdIsNat DEF RowInvariant, TypeOK, Ids
  <2>3. /\ call' \in [Threads -> Calls] /\ call'[t] = Idle
        /\ \A s \in Threads \ {t} : call'[s] = call[s]
    BY <1>1, IdleTyped, CallChanges DEF RowInvariant
  <2>4. TypeOK'
    <3>1. rows' \in [Ids -> Row \cup {NoRow}]
      BY <1>3, <2>1, <2>2 DEF RowInvariant, TypeOK
    <3>2. overtaken' \subseteq Threads
      BY <2>1 DEF RowInvariant, TypeOK
    <3> QED
      BY <2>1, <2>3, <3>1, <3>2 DEF RowInvariant, TypeOK
  <2>5. TableIsConsistent'
    <3>1. TypeOK /\ TableIsConsistent
      BY DEF RowInvariant
    <3> HIDE DEF i, r
    <3> QED
      BY <1>3, <1>5, <2>1, <2>2, <3>1, WriteKeepsTable
  <2>6. CallsHoldRows'
    BY <2>1, <2>3, IdleTyped DEF RowInvariant, CallsHoldRows
  <2>7. InsertsFit'
    <3>1. Inserting' = Inserting
      BY <1>1, <2>3, IdleTyped DEF Inserting
    <3> QED
      BY <2>1, <3>1 DEF RowInvariant, InsertsFit
  <2> QED
    BY <2>4, <2>5, <2>6, <2>7 DEF RowInvariant
<1> QED
  BY <1>4, <1>5

LEMMA RowStep == RowInvariant /\ [Next]_vars => RowInvariant'
<1> SUFFICES ASSUME RowInvariant, [Next]_vars
             PROVE  RowInvariant'
  OBVIOUS
<1>1. CASE \E t \in Threads, r \in Row : BeginCreate(t, r) \/ Update(t, r)
  BY <1>1, BeginCreatePreserves, UpdatePreserves
<1>2. CASE \E t \in Threads : Insert(t) \/ GetLastRowId(t)
  BY <1>2, InsertPreserves, GetLastRowIdPreserves
<1>3. CASE \E t \in Threads, i \in Ids, named \in SUBSET Columns : Find(t, i, named)
  BY <1>3, FindPreserves
<1>4. CASE \E t \in Threads, i \in Ids : InsertElsewhere(t, i)
  BY <1>4, InsertElsewherePreserves
<1>5. CASE UNCHANGED vars
  BY <1>5 DEF vars, RowInvariant, TypeOK, TableIsConsistent, CallsHoldRows,
              InsertsFit, Inserting
<1> QED
  BY <1>1, <1>2, <1>3, <1>4, <1>5 DEF Next, Ended

---------------------------------------------------------------------------
\* What a thread that creates a row knows of it.  The id its INSERT was given
\* is the connection's last one until another thread inserts somewhere, which
\* makes the thread overtaken; after sqlGetLastRowId the answer keeps it.
IdsAreRecent ==
  \A t \in Threads \ overtaken :
    /\ call[t].pc = "rowid" => call[t].made = lastInsertRowId
    /\ call[t].pc = "answered" => call[t].id = call[t].made

\* The object of a thread that has not been overtaken is the row as it is.
ObjectsAreCurrent ==
  \A t \in Threads \ overtaken :
    call[t].pc = "update" => rows[call[t].id] = call[t].obj

CreateInvariant == RowInvariant /\ IdsAreRecent /\ ObjectsAreCurrent

LEMMA CreateInit == Init => CreateInvariant
<1> SUFFICES ASSUME Init PROVE CreateInvariant
  OBVIOUS
<1>1. \A t \in Threads : call[t].pc = "idle"
  BY IdleTyped DEF Init
<1> QED
  BY <1>1, RowInit DEF Init, CreateInvariant, IdsAreRecent, ObjectsAreCurrent

\* A step of one thread that leaves the table and the other threads alone.
LEMMA CreateReadOnly ==
  ASSUME CreateInvariant, RowInvariant', NEW t \in Threads, NEW c \in Calls,
         call' = [call EXCEPT ![t] = c],
         UNCHANGED <<rows, numRows, lastInsertRowId>>,
         overtaken' = overtaken \/ overtaken' = overtaken \ {t},
         c.pc # "rowid",
         c.pc = "answered" /\ t \notin overtaken' => c.id = c.made,
         c.pc = "update" => rows[c.id] = c.obj
  PROVE  CreateInvariant'
<1>1. call'[t] = c /\ \A s \in Threads \ {t} : call'[s] = call[s]
  BY CallChanges DEF CreateInvariant, RowInvariant
<1>2. \A s \in Threads \ {t} : s \notin overtaken' => s \notin overtaken
  OBVIOUS
<1>3. IdsAreRecent'
  BY <1>1, <1>2 DEF CreateInvariant, IdsAreRecent
<1>4. ObjectsAreCurrent'
  BY <1>1, <1>2 DEF CreateInvariant, ObjectsAreCurrent
<1> QED
  BY <1>3, <1>4 DEF CreateInvariant

LEMMA MadeTyped ==
  ASSUME NEW p \in {"idle", "insert", "rowid", "answered", "update"},
         NEW i \in 0..MaxId, NEW o \in Row \cup {NoRow}, NEW m \in 0..MaxId,
         NEW named \in SUBSET Columns
  PROVE  Call(p, i, o, m, named).made = m
BY DEF Call

LEMMA CreateStep == CreateInvariant /\ [Next]_vars => CreateInvariant'
<1> SUFFICES ASSUME CreateInvariant, [Next]_vars
             PROVE  CreateInvariant'
  OBVIOUS
<1>0. RowInvariant /\ TypeOK /\ RowInvariant' /\ TypeOK'
  BY RowStep DEF CreateInvariant, RowInvariant
<1>1. ASSUME NEW t \in Threads, NEW r \in Row, BeginCreate(t, r)
      PROVE  CreateInvariant'
  <2> DEFINE c == Call("insert", 0, r, 0, {})
  <2>1. c \in Calls /\ c.pc = "insert"
    BY CallTyped, MaxIdIsNat
  <2>2. /\ call' = [call EXCEPT ![t] = c] /\ overtaken' = overtaken \ {t}
        /\ UNCHANGED <<rows, numRows, lastInsertRowId>>
    BY <1>1 DEF BeginCreate, Begin
  <2> HIDE DEF c
  <2> QED
    BY <1>0, <2>1, <2>2, CreateReadOnly
<1>2. ASSUME NEW t \in Threads, NEW i \in Ids, NEW named \in SUBSET Columns,
             Find(t, i, named)
      PROVE  CreateInvariant'
  <2> DEFINE c == Call("update", i, rows[i], 0, named)
  <2>1. rows[i] \in Row \cup {NoRow} /\ i \in 0..MaxId
    BY <1>0, MaxIdIsNat DEF TypeOK, Ids
  <2>2. c \in Calls /\ c.pc = "update" /\ c.id = i /\ c.obj = rows[i]
    BY <2>1, CallTyped, MaxIdIsNat
  <2>3. /\ call' = [call EXCEPT ![t] = c] /\ overtaken' = overtaken \ {t}
        /\ UNCHANGED <<rows, numRows, lastInsertRowId>>
    BY <1>2 DEF Find, Begin
  <2> HIDE DEF c
  <2> QED
    BY <1>0, <2>2, <2>3, CreateReadOnly
<1>3. ASSUME NEW t \in Threads, GetLastRowId(t)
      PROVE  CreateInvariant'
  <2> DEFINE c == Call("answered", lastInsertRowId, call[t].obj, call[t].made, {})
  <2>1. /\ call[t].obj \in Row \cup {NoRow} /\ call[t].made \in 0..MaxId
        /\ lastInsertRowId \in 0..MaxId
    BY <1>0 DEF TypeOK, Calls
  <2>2. /\ c \in Calls /\ c.pc = "answered"
        /\ c.id = lastInsertRowId /\ c.made = call[t].made
    BY <2>1, CallTyped, MadeTyped
  <2>3. /\ call' = [call EXCEPT ![t] = c] /\ call[t].pc = "rowid"
        /\ UNCHANGED <<rows, numRows, lastInsertRowId, overtaken>>
    BY <1>3 DEF GetLastRowId, Goes
  <2>4. t \notin overtaken => call[t].made = lastInsertRowId
    BY <2>3 DEF CreateInvariant, IdsAreRecent
  <2>5. t \notin overtaken' => c.id = c.made
    BY <2>2, <2>3, <2>4
  <2> HIDE DEF c
  <2> QED
    BY <1>0, <2>2, <2>3, <2>5, CreateReadOnly
<1>4. ASSUME NEW t \in Threads, Insert(t)
      PROVE  CreateInvariant'
  <2> DEFINE r == call[t].obj
             n == numRows + 1
             c == Call("rowid", 0, r, n, {})
  <2>1. CASE IsTaken(r, 0)
    <3>1. /\ call' = [call EXCEPT ![t] = Idle]
          /\ UNCHANGED <<rows, numRows, lastInsertRowId, overtaken>>
      BY <1>4, <2>1 DEF Insert, Goes
    <3> QED
      BY <1>0, <3>1, IdleTyped, CreateReadOnly
  <2>2. CASE ~IsTaken(r, 0)
    <3>1. /\ call' = [call EXCEPT ![t] = c] /\ rows' = [rows EXCEPT ![n] = r]
          /\ numRows' = n /\ lastInsertRowId' = n
          /\ overtaken' = overtaken \cup BetweenCalls
      BY <1>4, <2>2 DEF Insert, Goes
    <3>2. numRows \in Nat /\ n \in Ids /\ n \in 0..MaxId
      BY <1>0, <3>1, MaxIdIsNat DEF TypeOK, Ids
    <3>3. r \in Row \cup {NoRow}
      BY <1>0 DEF TypeOK, Calls
    <3>4. c \in Calls /\ c.pc = "rowid" /\ c.made = n
      BY <3>2, <3>3, CallTyped, MadeTyped, MaxIdIsNat
    <3>5. call'[t] = c /\ \A s \in Threads \ {t} : call'[s] = call[s]
      BY <1>0, <3>1, <3>4, CallChanges
    <3>6. IdsAreRecent'
      <4> SUFFICES ASSUME NEW s \in Threads \ overtaken'
                   PROVE  /\ call'[s].pc = "rowid" => call'[s].made = lastInsertRowId'
                          /\ call'[s].pc = "answered" => call'[s].id = call'[s].made
        BY DEF IdsAreRecent
      <4>1. CASE s = t
        BY <3>1, <3>4, <3>5, <4>1
      <4>2. CASE s # t
        <5>1. call'[s] = call[s] /\ s \notin overtaken /\ call[s].pc # "rowid"
          BY <3>1, <3>5, <4>2 DEF BetweenCalls
        <5> QED
          BY <5>1 DEF CreateInvariant, IdsAreRecent
      <4> QED
        BY <4>1, <4>2
    <3>7. ObjectsAreCurrent'
      <4> SUFFICES ASSUME NEW s \in Threads \ overtaken', call'[s].pc = "update"
                   PROVE  rows'[call'[s].id] = call'[s].obj
        BY DEF ObjectsAreCurrent
      <4>1. s # t /\ call'[s] = call[s] /\ s \notin overtaken
        BY <3>1, <3>4, <3>5
      <4>2. call[s].id \in 1..numRows /\ rows[call[s].id] = call[s].obj
        BY <4>1 DEF CreateInvariant, RowInvariant, CallsHoldRows, ObjectsAreCurrent
      <4>3. call[s].id \in Ids /\ call[s].id # n
        BY <3>2, <4>2, MaxIdIsNat DEF Ids
      <4> QED
        BY <1>0, <3>1, <4>1, <4>2, <4>3 DEF TypeOK
    <3> QED
      BY <1>0, <3>6, <3>7 DEF CreateInvariant
  <2> QED
    BY <2>1, <2>2
<1>5. ASSUME NEW t \in Threads, NEW v \in Row, Update(t, v)
      PROVE  CreateInvariant'
  <2> DEFINE i == call[t].id
             r == Changed(call[t], v)
  <2>1. call[t].pc = "update" /\ call' = [call EXCEPT ![t] = Idle]
    BY <1>5 DEF Update, Goes
  <2>2. CASE IsTaken(r, i)
    <3>1. UNCHANGED <<rows, numRows, lastInsertRowId, overtaken>>
      BY <1>5, <2>2 DEF Update
    <3> QED
      BY <1>0, <2>1, <3>1, IdleTyped, CreateReadOnly
  <2>3. CASE ~IsTaken(r, i)
    <3>1. /\ rows' = [rows EXCEPT ![i] = r]
          /\ UNCHANGED <<numRows, lastInsertRowId>>
          /\ overtaken' = overtaken \cup
               {u \in Threads \ {t} : call[u].pc = "update" /\ call[u].id = i}
      BY <1>5, <2>3 DEF Update
    <3>2. call'[t] = Idle /\ \A s \in Threads \ {t} : call'[s] = call[s]
      BY <1>0, <2>1, IdleTyped, CallChanges
    <3>3. \A s \in Threads : s \notin overtaken' => s \notin overtaken
      BY <3>1
    <3>4. IdsAreRecent'
      BY <3>1, <3>2, <3>3, IdleTyped DEF CreateInvariant, IdsAreRecent
    <3>5. ObjectsAreCurrent'
      <4> SUFFICES ASSUME NEW s \in Threads \ overtaken', call'[s].pc = "update"
                   PROVE  rows'[call'[s].id] = call'[s].obj
        BY DEF ObjectsAreCurrent
      <4>1. s # t /\ call'[s] = call[s] /\ s \notin overtaken
        BY <3>2, <3>3, IdleTyped
      <4>2. call[s].id # i
        BY <3>1, <4>1
      <4>3. rows[call[s].id] = call[s].obj
        BY <4>1 DEF CreateInvariant, ObjectsAreCurrent
      <4>4. call[s].id \in Ids
        BY <1>0, <4>1, MaxIdIsNat DEF RowInvariant, CallsHoldRows, TypeOK, Ids
      <4> QED
        BY <1>0, <3>1, <4>1, <4>2, <4>3, <4>4 DEF TypeOK
    <3> QED
      BY <1>0, <3>4, <3>5 DEF CreateInvariant
  <2> QED
    BY <2>2, <2>3
<1>6. ASSUME NEW t \in Threads, NEW i \in Ids, InsertElsewhere(t, i)
      PROVE  CreateInvariant'
  <2>1. /\ UNCHANGED <<rows, numRows, call, aborted>>
        /\ overtaken' = overtaken \cup BetweenCalls
    BY <1>6 DEF InsertElsewhere
  <2>2. \A s \in Threads \ overtaken' : s \notin overtaken /\ call[s].pc # "rowid"
    BY <2>1 DEF BetweenCalls
  <2>3. IdsAreRecent' /\ ObjectsAreCurrent'
    BY <2>1, <2>2 DEF CreateInvariant, IdsAreRecent, ObjectsAreCurrent
  <2> QED
    BY <1>0, <2>3 DEF CreateInvariant
<1>7. CASE UNCHANGED vars
  BY <1>0, <1>7 DEF vars, CreateInvariant, IdsAreRecent, ObjectsAreCurrent
<1> QED
  BY <1>1, <1>2, <1>3, <1>4, <1>5, <1>6, <1>7 DEF Next, Ended

\* With any number of threads and of inserts into other tables, the id that a
\* client is answered with is its own row's whenever no other thread has
\* inserted anything between the INSERT and sqlGetLastRowId: dbLock is not held
\* over the two (_create), and that is the only way to get another row's id.
THEOREM AnswersNameTheirRow == Spec => []CreatedIdIsOwn
<1>1. CreateInvariant => CreatedIdIsOwn
  BY DEF CreateInvariant, IdsAreRecent, CreatedIdIsOwn
<1> QED
  BY <1>1, CreateInit, CreateStep, PTL DEF Spec

\* Of all the steps, only the thread's own _update ends its request while the
\* process goes on, and it writes back what findGroupWithId read.
LEMMA OnlyUpdateEndsARequest ==
  ASSUME RowInvariant, [Next]_vars, NEW t \in Threads,
         call[t].pc = "update", call'[t].pc = "idle", ~aborted'
  PROVE  rows' = rows \/ \E v \in Row : Update(t, v)
<1>0. TypeOK
  BY DEF RowInvariant
<1>1. ASSUME NEW s \in Threads, NEW r \in Row, BeginCreate(s, r)
      PROVE  rows' = rows
  BY <1>1 DEF BeginCreate
<1>2. ASSUME NEW s \in Threads, NEW i \in Ids, NEW named \in SUBSET Columns,
             Find(s, i, named)
      PROVE  rows' = rows
  BY <1>2 DEF Find
<1>3. ASSUME NEW s \in Threads, GetLastRowId(s)
      PROVE  rows' = rows
  BY <1>3 DEF GetLastRowId
<1>4. ASSUME NEW s \in Threads, Insert(s)
      PROVE  FALSE
  <2>1. s # t
    BY <1>4 DEF Insert
  <2>2. \E c : call' = [call EXCEPT ![s] = c]
    BY <1>4 DEF Insert, Goes
  <2> QED
    BY <1>0, <2>1, <2>2 DEF TypeOK
<1>5. ASSUME NEW s \in Threads, NEW v \in Row, Update(s, v)
      PROVE  s = t
  <2>1. call' = [call EXCEPT ![s] = Idle]
    BY <1>5 DEF Update, Goes
  <2> QED
    BY <1>0, <2>1 DEF TypeOK
<1>6. ASSUME NEW s \in Threads, NEW i \in Ids, InsertElsewhere(s, i)
      PROVE  rows' = rows
  BY <1>6 DEF InsertElsewhere
<1>7. CASE UNCHANGED vars
  BY <1>7 DEF vars
<1> QED
  BY <1>1, <1>2, <1>3, <1>4, <1>5, <1>6, <1>7 DEF Next, Ended

LEMMA UpdateStepKeepsTheRest ==
  ASSUME CreateInvariant, [Next]_vars, NEW t \in Threads \ overtaken,
         call[t].pc = "update", call'[t].pc = "idle", ~aborted',
         NEW col \in Columns \ call[t].set
  PROVE  rows'[call[t].id][col] = rows[call[t].id][col]
<1>0. RowInvariant /\ TypeOK
  BY DEF CreateInvariant, RowInvariant
<1>1. CASE rows' = rows
  BY <1>1
<1>2. ASSUME NEW v \in Row, Update(t, v)
      PROVE  rows'[call[t].id][col] = rows[call[t].id][col]
  <2>1. rows' = [rows EXCEPT ![call[t].id] = Changed(call[t], v)]
    BY <1>2 DEF Update
  <2>2. call[t].id \in Ids /\ call[t].obj \in Row
    BY <1>0, MaxIdIsNat DEF RowInvariant, CallsHoldRows, TypeOK, Ids
  <2>3. rows'[call[t].id] = Changed(call[t], v)
    BY <1>0, <2>1, <2>2 DEF TypeOK
  <2>4. rows[call[t].id] = call[t].obj
    BY DEF CreateInvariant, ObjectsAreCurrent
  <2>5. CASE col = "key"
    BY <2>2, <2>3, <2>4, <2>5 DEF Changed, Row
  <2>6. CASE col = "value"
    BY <2>2, <2>3, <2>4, <2>6 DEF Changed, Row
  <2> QED
    BY <2>5, <2>6 DEF Columns
<1> QED
  BY <1>0, <1>1, <1>2, OnlyUpdateEndsARequest

\* An update of some columns keeps the others whatever the other threads do,
\* except where another update of the same row has come between
\* findGroupWithId and _update: the lost update of handleSetGroup is the only
\* one there is.
THEOREM UpdatesKeepTheRest == Spec => UpdateKeepsTheRest
<1>1. CreateInvariant /\ [Next]_vars =>
        [\A t \in Threads \ overtaken :
           call[t].pc = "update" /\ call'[t].pc = "idle" /\ ~aborted' =>
             \A col \in Columns \ call[t].set :
               rows'[call[t].id][col] = rows[call[t].id][col]]_vars
  BY UpdateStepKeepsTheRest
<1> QED
  BY <1>1, CreateInit, CreateStep, PTL DEF Spec, UpdateKeepsTheRest
===========================================================================
