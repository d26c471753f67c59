------------------------- MODULE SchemaProvisioning -------------------------
(***************************************************************************)
(* How the datastore gets its schema (DataStore::open, DataStore.cpp).     *)
(* Each statement of schema_v1.sql commits by itself, so a process that    *)
(* dies half way leaves a part of the schema behind, and the next start    *)
(* finds it.  Only the presence of the info table is looked at.            *)
(*                                                                         *)
(* The database file is what survives: the tables, the indices and the     *)
(* rows of info.  A CHECK that fails ends the process.                     *)
(***************************************************************************)
EXTENDS SequencesExt

CONSTANTS
  Versions,   \* versions of the server that open the database
  NoVersion   \* no version is stored

\* schema_v1.sql, statement by statement; its last one inserts the row
\* schema_version into info.
Tables == <<"routines", "info", "nodes", "groups", "channels">>
Indices == <<"idx_info_key", "idx_node_id", "idx_node_mac", "idx_routines_id",
             "idx_routines_name", "idx_groups_id", "idx_groups_name",
             "idx_channels_id", "idx_channels_node", "idx_channels_node_data">>
Schema == Tables \o Indices \o <<"schema_version">>

VARIABLES
  db,              \* what the database file holds
  serverVersion,   \* the row server_version of info
  opening,         \* where DataStore::open is
  next,            \* the next statement of the schema
  version          \* the version of the server that runs

vars == <<db, serverVersion, opening, next, version>>

Init ==
  /\ db = {}
  /\ serverVersion = NoVersion
  /\ opening = "down"
  /\ next = 1
  /\ version \in Versions

\* A server of any version opens the database.
Start(v) ==
  /\ opening = "down"
  /\ opening' = "check"
  /\ next' = 1
  /\ version' = v
  /\ UNCHANGED <<db, serverVersion>>

\* checkDbVersion: is there a table called info?
CheckDbVersion ==
  /\ opening = "check"
  /\ opening' = IF "info" \in db THEN "version" ELSE "provision"
  /\ UNCHANGED <<db, serverVersion, next, version>>

\* CREATE TABLE and INSERT fail on what is there; the indices are created IF
\* NOT EXISTS.
Fails(statement) == statement \in db /\ statement \notin ToSet(Indices)

\* Mutant of ExecSchema: the version is stored before the tables are there.
ExecVersionFirst ==
  /\ opening = "provision"
  /\ next <= Len(Schema)
  /\ ~Fails(Schema[next])
  /\ db' = db \cup {Schema[next], "schema_version"}
  /\ next' = next + 1
  /\ UNCHANGED <<serverVersion, opening, version>>

\* provisonBlankDb: sqlite3_exec runs one statement after the other.
ExecSchema ==
  /\ opening = "provision"
  /\ next <= Len(Schema)
  /\ ~Fails(Schema[next])
  /\ db' = db \cup {Schema[next]}
  /\ next' = next + 1
  /\ UNCHANGED <<serverVersion, opening, version>>

\* Mutant of ExecEnds: the indices and the version may be left out.
ExecTablesOnly ==
  /\ opening = "provision"
  /\ next <= Len(Tables) => Fails(Schema[next])
  /\ opening' = "version"
  /\ UNCHANGED <<db, serverVersion, next, version>>

\* provisonBlankDb: the schema is done, or a statement has failed, which is
\* logged and nothing else.
ExecEnds ==
  /\ opening = "provision"
  /\ next <= Len(Schema) => Fails(Schema[next])
  /\ opening' = "version"
  /\ UNCHANGED <<db, serverVersion, next, version>>

\* getInfoValue("schema_version"): preparing the query fails without the
\* table.  upgradeSchema, called when the value is not the latest, only logs.
ReadSchemaVersion ==
  /\ opening = "version"
  /\ opening' = IF "info" \in db THEN "store" ELSE "aborted"
  /\ UNCHANGED <<db, serverVersion, next, version>>

\* updateStoredServerVersion, and the server is up: an UPDATE changes the row
\* that is there, and nothing if there is none.
UpdateStoredServerVersion ==
  /\ opening = "store"
  /\ opening' = "up"
  /\ serverVersion' = IF serverVersion = NoVersion THEN NoVersion ELSE version
  /\ UNCHANGED <<db, next, version>>
===========================================================================
