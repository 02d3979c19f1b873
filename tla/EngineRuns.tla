----------------------------- MODULE EngineRuns -----------------------------
(***************************************************************************)
(* Running one statement on an engine: the session it takes from the        *)
(* handle's pool, the database it is told to run in, the rows that are read *)
(* up to a limit, and, on SQL Server, the search for a table whose bare     *)
(* name did not resolve.                                                   *)
(*                                                                         *)
(* Statements speak of one table, of which each database may have its own;  *)
(* a table is known by its number of rows. Other clients create and drop it *)
(* at most Changes times.                                                  *)
(***************************************************************************)
EXTENDS Integers, FiniteSets, Sequences

CONSTANTS
  Engines,
  Calls, Sessions,          \* statements to run; sessions that may be opened
  Databases, Default,       \* those of the server, and that of a new session
  Statements,               \* first word, database it names, database of the request
  Sizes,                    \* how many rows a table may have
  MaxRows, Changes

None == -1
Nobody == "nobody"
Unnamed == "unnamed"     \* a statement or a request that names no database

\* What is assumed of the constants.
Parameters ==
  /\ IsFiniteSet(Sessions) /\ Cardinality(Sessions) >= Cardinality(Calls)
  /\ Nobody \notin Calls \cup Sessions
  /\ IsFiniteSet(Databases) /\ Default \in Databases
  /\ Statements \subseteq [word : STRING, in : Databases \cup {Unnamed},
                          database : Databases \cup {Unnamed}]
  /\ \A st \in Statements : st.word = "USE" => st.in # "unnamed"
  /\ Sizes \subseteq Nat /\ MaxRows \in Nat \ {0} /\ Changes \in Nat
ASSUME RunsAssumption == Parameters

VARIABLES
  engine,
  session,   \* whether it is open, whose it is, the database it is in
  table,     \* rows of the table in each database, or None
  changes,
  run        \* per request: the call of Run

runVars == <<engine, session, table, changes, run>>

-----------------------------------------------------------------------------
(* Classify: the first words after which a statement is expected to return  *)
(* rows. Everything else is executed, and rows it returns are not read.     *)

MySQLReads      == {"SELECT", "SHOW", "EXPLAIN", "DESCRIBE", "DESC", "HELP", "WITH", "VALUES"}
PGReads         == {"SELECT", "SHOW", "EXPLAIN", "WITH", "VALUES", "TABLE"}
MSSQLReads      == {"SELECT", "WITH", "VALUES", "TABLE"}
SQLiteReads     == {"SELECT", "EXPLAIN", "PRAGMA", "WITH", "VALUES"}
DuckDBReads     == {"SELECT", "EXPLAIN", "PRAGMA", "WITH", "VALUES", "DESCRIBE", "SHOW"}
SnowflakeReads  == {"SELECT", "SHOW", "EXPLAIN", "DESCRIBE", "DESC", "WITH", "VALUES", "LIST"}
OracleReads     == {"SELECT", "WITH", "SHOW", "DESCRIBE", "EXPLAIN"}
ClickHouseReads == {"SELECT", "WITH", "SHOW", "DESCRIBE", "DESC", "EXPLAIN"}
ByteHouseReads  == {"SELECT", "WITH", "SHOW", "DESCRIBE", "EXPLAIN"}

(* Run: a session of its own or whichever is free, and what is done with    *)
(* the database asked for: a statement of its own before, a prefix of the   *)
(* same batch, or nothing.                                                  *)
MySQLRun      == [session |-> "own", database |-> "first", reads |-> MySQLReads]
PGRun         == [session |-> "own", database |-> "first", reads |-> PGReads]
SnowflakeRun  == [session |-> "own", database |-> "first", reads |-> SnowflakeReads]
MSSQLRun      == [session |-> "any", database |-> "prefix", reads |-> MSSQLReads]
SQLiteRun     == [session |-> "own", database |-> "ignored", reads |-> SQLiteReads]
DuckDBRun     == [session |-> "own", database |-> "ignored", reads |-> DuckDBReads]
OracleRun     == [session |-> "any", database |-> "ignored", reads |-> OracleReads]
ClickHouseRun == [session |-> "any", database |-> "ignored", reads |-> ClickHouseReads]
ByteHouseRun  == [session |-> "any", database |-> "ignored", reads |-> ByteHouseReads]

\* dialectExecutor.Run: engines that speak another's protocol use its Run.
Run ==
  CASE engine \in {"postgres", "cockroachdb", "redshift"} -> PGRun
    [] engine = "mssql" -> MSSQLRun
    [] engine = "bytehouse" -> ByteHouseRun
    [] engine = "sqlite" -> SQLiteRun
    [] engine = "duckdb" -> DuckDBRun
    [] engine = "snowflake" -> SnowflakeRun
    [] engine = "clickhouse" -> ClickHouseRun
    [] engine = "oracle" -> OracleRun
    [] OTHER -> MySQLRun

-----------------------------------------------------------------------------
(* A request's way through Run.                                             *)

NotAsked ==
  [at |-> "none", word |-> "none", in |-> Unnamed, database |-> Unnamed, session |-> Nobody,
   target |-> Unnamed, left |-> {}, found |-> {}, rows |-> 0, truncated |-> FALSE, ok |-> FALSE,
   ran |-> <<>>, missed |-> FALSE, held |-> 0]

Reads(r) == run[r].word \in Run.reads
At(r, place) == run[r].at = place
Move(r, changed) == run' = [run EXCEPT ![r] = changed]
Free == {s \in Sessions : session[s].by = Nobody}

\* The request names a database or none; the statement may name one itself.
Ask(r) ==
  /\ At(r, "none")
  /\ \E st \in Statements :
       Move(r, [NotAsked EXCEPT !.at = "session", !.word = st.word, !.in = st.in,
                                !.database = st.database])
  /\ UNCHANGED <<engine, session, table, changes>>

\* A free session keeps the database it was left in, but on SQL Server it is
\* reset before it is used again; a new one starts in the default.
Acquire(r) ==
  /\ At(r, "session")
  /\ \E s \in Free :
       /\ session' = [session EXCEPT ![s] =
            [open |-> TRUE, by |-> r,
             db |-> IF @.open /\ engine # "mssql" THEN @.db ELSE Default]]
       /\ Move(r, [run[r] EXCEPT !.session = s, !.at =
            IF Run.database = "first" /\ run[r].database # Unnamed THEN "use" ELSE "execute"])
  /\ UNCHANGED <<engine, table, changes>>
CannotConnect(r) ==
  /\ At(r, "session")
  /\ Move(r, [run[r] EXCEPT !.at = "answered"])
  /\ UNCHANGED <<engine, session, table, changes>>

\* conn.Close, rows.Close: the session goes back as it is
Released(r) == [session EXCEPT ![run[r].session].by = Nobody]
\* Mutant: the database is chosen on a session of the pool, not on the one held.
MutUseDatabase(r) ==
  /\ At(r, "use")
  /\ \E s \in {run[r].session} \cup Free :
       session' = [session EXCEPT ![s].db = run[r].database]
  /\ Move(r, [run[r] EXCEPT !.at = "execute"])
  /\ UNCHANGED <<engine, table, changes>>
UseDatabase(r) ==
  /\ At(r, "use")
  /\ session' = [session EXCEPT ![run[r].session].db = run[r].database]
  /\ Move(r, [run[r] EXCEPT !.at = "execute"])
  /\ UNCHANGED <<engine, table, changes>>
UseFails(r) ==
  /\ At(r, "use")
  /\ session' = Released(r)
  /\ Move(r, [run[r] EXCEPT !.at = "answered"])
  /\ UNCHANGED <<engine, table, changes>>

\* Where the statement looks for the table: where it says, where it has been
\* rewritten to say, or in the database the session, or its prefix, is in.
Where(r) ==
  IF run[r].in # Unnamed THEN run[r].in
  ELSE IF run[r].target # Unnamed THEN run[r].target
  ELSE IF Run.database = "prefix" /\ run[r].database # Unnamed THEN run[r].database
  ELSE session[run[r].session].db

Execute(r) ==
  /\ At(r, "execute") /\ run[r].word # "USE" /\ table[Where(r)] # None
  /\ Move(r, [run[r] EXCEPT !.at = IF Reads(r) THEN "rows" ELSE "done",
                            !.ran = Append(@, Where(r)), !.held = table[Where(r)]])
  /\ UNCHANGED <<engine, session, table, changes>>
\* A user may change the session's database with a statement.
ChangeDatabase(r) ==
  /\ At(r, "execute") /\ run[r].word = "USE"
  /\ session' = [session EXCEPT ![run[r].session].db = run[r].in]
  /\ Move(r, [run[r] EXCEPT !.at = "done"])
  /\ UNCHANGED <<engine, table, changes>>

\* parseInvalidObject: the error is about a bare name, and only SQL Server's
\* Run looks at it, once.
\* Mutant: every error is taken for such a one.
MutMayBeElsewhere(r, unresolved) ==
  engine = "mssql" /\ run[r].in = Unnamed /\ run[r].target = Unnamed
MayBeElsewhere(r, unresolved) ==
  engine = "mssql" /\ unresolved /\ run[r].in = Unnamed /\ run[r].target = Unnamed
Failed(r, unresolved) ==
  Move(r, [run[r] EXCEPT !.at = IF MayBeElsewhere(r, unresolved) THEN "scan" ELSE "answered",
                         !.session = Nobody, !.rows = 0, !.missed = @ \/ unresolved])

\* The server does not know the name.
Unresolved(r) ==
  /\ At(r, "execute") /\ run[r].word # "USE" /\ table[Where(r)] = None
  /\ session' = Released(r) /\ Failed(r, TRUE)
  /\ UNCHANGED <<engine, table, changes>>
\* The server refuses the statement for another reason.
Refused(r) ==
  /\ At(r, "execute")
  /\ session' = Released(r) /\ Failed(r, FALSE)
  /\ UNCHANGED <<engine, table, changes>>
Closed(r) == [session EXCEPT ![run[r].session] = [open |-> FALSE, by |-> Nobody, db |-> Default]]
\* The connection ends before the statement is sent or before it is answered.
ConnectionLost(r) ==
  /\ run[r].at \in {"execute", "rows", "done"}
  /\ session' = Closed(r) /\ Failed(r, FALSE)
  /\ UNCHANGED <<engine, table, changes>>

\* rows.Next: a row beyond the limit is noticed and not read.
NextRow(r) ==
  /\ At(r, "rows") /\ run[r].rows < run[r].held
  /\ Move(r, IF run[r].rows >= MaxRows THEN [run[r] EXCEPT !.truncated = TRUE, !.at = "done"]
             ELSE [run[r] EXCEPT !.rows = @ + 1])
  /\ UNCHANGED <<engine, session, table, changes>>
LastRow(r) ==
  /\ At(r, "rows") /\ run[r].rows = run[r].held
  /\ Move(r, [run[r] EXCEPT !.at = "done"])
  /\ UNCHANGED <<engine, session, table, changes>>
Complete(r) ==
  /\ At(r, "done")
  /\ session' = Released(r)
  /\ Move(r, [run[r] EXCEPT !.at = "answered", !.ok = TRUE, !.session = Nobody])
  /\ UNCHANGED <<engine, table, changes>>

\* The caller's context ends; the driver closes the session it interrupts.
Cancel(r) ==
  /\ ~At(r, "none") /\ ~At(r, "answered")
  /\ session' = IF run[r].session = Nobody THEN session ELSE Closed(r)
  /\ Move(r, [run[r] EXCEPT !.at = "answered", !.session = Nobody])
  /\ UNCHANGED <<engine, table, changes>>

-----------------------------------------------------------------------------
(* SQL Server: where is the table? (resolve.go)                             *)

ListDatabases(r) ==
  /\ At(r, "scan")
  /\ \E databases \in {Databases, {}} :      \* none, when they cannot be listed
       Move(r, [run[r] EXCEPT !.at = "locate", !.left = databases])
  /\ UNCHANGED <<engine, session, table, changes>>
\* Mutant: a database that cannot be read is not passed over.
MutLocate(r) ==
  /\ At(r, "locate")
  /\ \E d \in run[r].left :
       /\ table[d] # None
       /\ Move(r, [run[r] EXCEPT !.left = @ \ {d}, !.found = @ \cup {d}])
  /\ UNCHANGED <<engine, session, table, changes>>
Locate(r) ==
  /\ At(r, "locate")
  /\ \E d \in run[r].left :
       \/ Move(r, [run[r] EXCEPT !.left = @ \ {d}])        \* it cannot be read
       \/ Move(r, [run[r] EXCEPT !.left = @ \ {d},
                                 !.found = IF table[d] # None THEN @ \cup {d} ELSE @])
  /\ UNCHANGED <<engine, session, table, changes>>
\* In one place: the statement is rewritten to name it and run again.
Qualify(r) ==
  /\ At(r, "locate") /\ run[r].left = {}
  /\ \E d \in Databases :
       /\ run[r].found = {d}
       /\ Move(r, [run[r] EXCEPT !.at = "session", !.target = d])
  /\ UNCHANGED <<engine, session, table, changes>>
\* In none or in several, or the name is written in a way that is not rewritten.
NotQualified(r) ==
  /\ At(r, "locate") /\ run[r].left = {}
  /\ Move(r, [run[r] EXCEPT !.at = "answered"])
  /\ UNCHANGED <<engine, session, table, changes>>

-----------------------------------------------------------------------------
OtherClient ==
  /\ changes < Changes /\ changes' = changes + 1
  /\ \E d \in Databases, size \in Sizes \cup {None} :
       size # table[d] /\ table' = [table EXCEPT ![d] = size]
  /\ UNCHANGED <<engine, session, run>>

RunsInit ==
  /\ engine \in Engines /\ changes = 0
  /\ session = [s \in Sessions |-> [open |-> FALSE, by |-> Nobody, db |-> Default]]
  /\ table \in [Databases -> Sizes \cup {None}]
  /\ run = [r \in Calls |-> NotAsked]

Proceed(r) ==
  \/ Acquire(r) \/ CannotConnect(r) \/ UseDatabase(r) \/ UseFails(r)
  \/ Execute(r) \/ ChangeDatabase(r) \/ Unresolved(r) \/ Refused(r) \/ ConnectionLost(r)
  \/ NextRow(r) \/ LastRow(r) \/ Complete(r)
  \/ ListDatabases(r) \/ Locate(r) \/ Qualify(r) \/ NotQualified(r)

RunsNext ==
  \/ \E r \in Calls : Ask(r) \/ Proceed(r) \/ Cancel(r)
  \/ OtherClient

Fairness == \A r \in Calls : WF_runVars(Proceed(r))

RunsSpec == RunsInit /\ [][RunsNext]_runVars /\ Fairness

-----------------------------------------------------------------------------
(* Properties.                                                              *)

\* A statement that names no database runs in the one the request names,
\* whatever was run before on the session it got. Only on SQL Server may it run
\* elsewhere: in the one place where its table was found, after the server has
\* said that the name does not resolve (Run, locateTable, qualifyName).
RunsWhereAsked ==
  \A r \in Calls : \A n \in DOMAIN run[r].ran :
    run[r].in = Unnamed /\ run[r].database # Unnamed /\ Run.database # "ignored" =>
      \/ run[r].ran[n] = run[r].database
      \/ engine = "mssql" /\ run[r].missed /\ run[r].found = {run[r].ran[n]}

\* The search for a table never makes a statement take effect twice, whatever
\* fails on the way (Run's fallback).
RunsOnce == \A r \in Calls : Len(run[r].ran) <= 1

\* Every request is answered: sessions come back, and the search for a table
\* ends although databases appear that cannot be read (Run, locateTable).
RunsEnd == \A r \in Calls : At(r, "session") ~> At(r, "answered")
=============================================================================
