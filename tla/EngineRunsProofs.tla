-------------------------- MODULE EngineRunsProofs --------------------------
(***************************************************************************)
(* Theorems about EngineRuns, for any number of statements, sessions and   *)
(* databases: a statement runs once, in the database it was asked for.     *)
(***************************************************************************)
EXTENDS EngineRuns, TLAPS

Holds   == {"use", "execute", "rows", "done"}         \* places with a session
Waits   == {"none", "session", "scan", "locate"}      \* places without one
Places  == Holds \cup Waits \cup {"answered"}
Not     == Databases \cup {Unnamed}
Words   == STRING \cup {NotAsked.word}

RunType ==
  [at : Places, word : Words, in : Not, database : Not, session : Sessions \cup {Nobody},
   target : Not, left : SUBSET Databases, found : SUBSET Databases, rows : Nat,
   truncated : BOOLEAN, ok : BOOLEAN, ran : Seq(Databases), missed : BOOLEAN, held : Int]
SessionType == [open : BOOLEAN, by : Calls \cup {Nobody}, db : Databases]

TypeOK ==
  /\ run \in [Calls -> RunType]
  /\ session \in [Sessions -> SessionType]
  /\ table \in [Databases -> Sizes \cup {None}]

\* A request has the session it works on for itself.
OwnSession(r) ==
  /\ run[r].at \in Holds => run[r].session \in Sessions /\ session[run[r].session].by = r
  /\ run[r].at \in Waits => run[r].session = Nobody

\* The database that a statement of its own has chosen is still the session's.
InPlace(r) ==
  At(r, "execute") /\ Run.database = "first" /\ run[r].database # Unnamed
    => session[run[r].session].db = run[r].database

\* Only what names a database is asked to choose it.
Names(r) == /\ At(r, "use") => run[r].database # Unnamed
            /\ run[r].word = "USE" => run[r].in # Unnamed

\* What the search for the table rests on, and what it found.
Searched(r) ==
  /\ run[r].at \in {"scan", "locate"} =>
       engine = "mssql" /\ run[r].missed /\ run[r].target = Unnamed
  /\ run[r].target # Unnamed =>
       engine = "mssql" /\ run[r].missed /\ run[r].found = {run[r].target}

\* Nothing has run before the statement's place is left behind.
NotYet(r) == run[r].at \in Waits \cup {"use", "execute"} => run[r].ran = <<>>

AsAsked(r) == \A n \in DOMAIN run[r].ran :
  run[r].in = Unnamed /\ run[r].database # Unnamed /\ Run.database # "ignored" =>
    \/ run[r].ran[n] = run[r].database
    \/ engine = "mssql" /\ run[r].missed /\ run[r].found = {run[r].ran[n]}

RunOK(r) == /\ OwnSession(r) /\ InPlace(r) /\ Names(r) /\ Searched(r) /\ NotYet(r)
            /\ AsAsked(r) /\ Len(run[r].ran) <= 1
RInv == TypeOK /\ \A r \in Calls : RunOK(r)

\* The sessions of others are left alone.
Theirs(r) == \A s \in Sessions : session[s].by \notin {r, Nobody} => session'[s] = session[s]

\* How SQL Server's Run treats the database, and that the engine stays.
LEMMA OnMSSQL == engine = "mssql" => Run.database = "prefix"
<1>1. engine = "mssql" => Run = MSSQLRun  BY Zenon DEF Run
<1>2. QED  BY <1>1 DEF MSSQLRun
LEMMA DatabaseKinds == Run.database \in {"first", "prefix", "ignored"}
<1>1. Run \in {PGRun, MSSQLRun, ByteHouseRun, SQLiteRun, DuckDBRun, SnowflakeRun, ClickHouseRun,
               OracleRun, MySQLRun}
  BY Zenon DEF Run
<1>2. QED
  BY <1>1 DEF PGRun, MSSQLRun, ByteHouseRun, SQLiteRun, DuckDBRun, SnowflakeRun, ClickHouseRun,
              OracleRun, MySQLRun
LEMMA SameRun == ASSUME UNCHANGED engine  PROVE Run' = Run
  BY Zenon DEF Run

\* A step of the request of r: it is enough to look at r.
LEMMA OwnStep ==
  ASSUME Parameters, RInv, NEW r \in Calls, NEW new,
         Move(r, new), UNCHANGED engine, TypeOK', Theirs(r), RunOK(r)'
  PROVE  RInv'
<1>1. SUFFICES ASSUME NEW q \in Calls, q # r  PROVE RunOK(q)'
  BY DEF RInv
<1>2. run'[q] = run[q] /\ Run' = Run
  BY <1>1, SameRun DEF Move, RInv, TypeOK
<1>3. run[q].at \in Holds => session'[run[q].session] = session[run[q].session]
  BY <1>1 DEF RInv, RunOK, OwnSession, Theirs, Parameters
<1>4. run[q].at = "execute" => run[q].at \in Holds  BY DEF Holds
<1>5. OwnSession(q)'  BY <1>2, <1>3 DEF RInv, RunOK, OwnSession, Holds, Waits
<1>6. InPlace(q)'  BY <1>2, <1>3, <1>4 DEF RInv, RunOK, InPlace, At, Unnamed
<1>7. Searched(q)'  BY <1>2 DEF RInv, RunOK, Searched, Unnamed
<1>8. NotYet(q)'  BY <1>2 DEF RInv, RunOK, NotYet, Waits
<1>9. AsAsked(q)' /\ Len(run'[q].ran) <= 1  BY <1>2 DEF RInv, RunOK, AsAsked, Unnamed
<1>10. Names(q)'  BY <1>2 DEF RInv, RunOK, Names, At, Unnamed
<1>11. QED  BY <1>5, <1>6, <1>7, <1>8, <1>9, <1>10 DEF RunOK
\* The new state of a request, when the step makes it a legal one.
LEMMA Moves ==
  ASSUME Parameters, RInv, NEW r \in Calls, NEW new \in RunType,
         Move(r, new), UNCHANGED <<engine, table>>, session' \in [Sessions -> SessionType],
         Theirs(r),
         new.at \in Holds => new.session \in Sessions /\ session'[new.session].by = r,
         new.at \in Waits => new.session = Nobody,
         new.at = "execute" /\ Run.database = "first" /\ new.database # Unnamed
           => session'[new.session].db = new.database,
         new.at = "use" => new.database # Unnamed,
         new.word = "USE" => new.in # Unnamed,
         new.at \in {"scan", "locate"} => engine = "mssql" /\ new.missed /\ new.target = Unnamed,
         new.target # Unnamed => engine = "mssql" /\ new.missed /\ new.found = {new.target},
         new.at \in Waits \cup {"use", "execute"} => new.ran = <<>>,
         Len(new.ran) <= 1,
         \A n \in DOMAIN new.ran :
           new.in = Unnamed /\ new.database # Unnamed /\ Run.database # "ignored" =>
             \/ new.ran[n] = new.database
             \/ engine = "mssql" /\ new.missed /\ new.found = {new.ran[n]}
  PROVE  RInv'
<1>1. run'[r] = new /\ Run' = Run /\ TypeOK'
  BY SameRun DEF Move, RInv, TypeOK
<1>2. OwnSession(r)'  BY <1>1 DEF OwnSession, Holds, Waits
<1>3. InPlace(r)'  BY <1>1 DEF InPlace, At, Unnamed
<1>4. Searched(r)'  BY <1>1 DEF Searched, Unnamed
<1>5. NotYet(r)'  BY <1>1 DEF NotYet, Waits
<1>6. AsAsked(r)' /\ Len(run'[r].ran) <= 1  BY <1>1 DEF AsAsked, Unnamed
<1>7. Names(r)'  BY <1>1 DEF Names, At, Unnamed
<1>8. QED  BY <1>1, <1>2, <1>3, <1>4, <1>5, <1>6, <1>7, OwnStep DEF RunOK

\* The steps that only move a request on, and let go of nothing.
LEMMA Ahead ==
  ASSUME Parameters, RInv, NEW r \in Calls,
         \/ CannotConnect(r) \/ NextRow(r) \/ LastRow(r)
         \/ ListDatabases(r) \/ Locate(r) \/ Qualify(r) \/ NotQualified(r)
  PROVE  RInv'
<1> DEFINE old == run[r]
<1>1. old \in RunType /\ RunOK(r) /\ session \in [Sessions -> SessionType]
  BY DEF RInv, TypeOK
<1> USE DEF RunOK, OwnSession, Names, Searched, NotYet, AsAsked, At, Holds, Waits
<1>2. CASE CannotConnect(r)
  BY <1>1, <1>2, Moves DEF CannotConnect, Theirs, RunType, Places
<1>3. CASE NextRow(r)
  <2>1. CASE Move(r, [old EXCEPT !.truncated = TRUE, !.at = "done"])
    <3> DEFINE new == [old EXCEPT !.truncated = TRUE, !.at = "done"]
    <3>1. new \in RunType  BY <1>1 DEF RunType, Places, Holds
    <3>2. /\ new.at = "done" /\ new.target = old.target /\ new.session = old.session
          /\ new.missed = old.missed /\ new.ran = old.ran /\ new.found = old.found
          /\ new.word = old.word /\ new.in = old.in /\ new.database = old.database
      BY <1>1 DEF RunType
    <3>3. old.at = "rows" /\ UNCHANGED <<engine, session, table>>  BY <1>3 DEF NextRow
    <3>4. Move(r, new) /\ Theirs(r)  BY <2>1, <3>3 DEF Theirs
    <3> HIDE DEF new
    <3>5. QED  BY <1>1, <3>1, <3>2, <3>3, <3>4, Moves
  <2>2. CASE Move(r, [old EXCEPT !.rows = @ + 1])
    <3>1. old.rows + 1 \in Nat  BY <1>1 DEF RunType
    <3>2. [old EXCEPT !.rows = @ + 1] \in RunType  BY <1>1, <3>1 DEF RunType
    <3>3. /\ old.at = "rows" /\ [old EXCEPT !.rows = @ + 1].at = "rows"
          /\ UNCHANGED <<engine, session, table>>
      BY <1>1, <1>3 DEF NextRow, RunType
    <3>4. QED  BY <1>1, <2>2, <3>2, <3>3, Moves DEF Theirs, RunType
  <2>3. Move(r, [old EXCEPT !.truncated = TRUE, !.at = "done"]) \/ Move(r, [old EXCEPT !.rows = @ + 1])
    BY <1>3 DEF NextRow, Move
  <2>4. QED  BY <2>1, <2>2, <2>3
<1>4. CASE LastRow(r)
  BY <1>1, <1>4, Moves DEF LastRow, Theirs, RunType, Places
<1>5. CASE ListDatabases(r)
  BY <1>1, <1>5, Moves DEF ListDatabases, Theirs, RunType, Places
<1>6. CASE Locate(r)
  <2>1. PICK d \in Databases, found \in SUBSET Databases :
          Move(r, [old EXCEPT !.left = @ \ {d}, !.found = found])
    <3>1. PICK d \in old.left :
            \/ Move(r, [old EXCEPT !.left = @ \ {d}])
            \/ Move(r, [old EXCEPT !.left = @ \ {d},
                                   !.found = IF table[d] # None THEN @ \cup {d} ELSE @])
      BY <1>6 DEF Locate
    <3>2. [old EXCEPT !.left = @ \ {d}] = [old EXCEPT !.left = @ \ {d}, !.found = old.found]
      BY <1>1 DEF RunType
    <3>3. old.found \in SUBSET Databases /\ d \in Databases  BY <1>1 DEF RunType
    <3>4. CASE Move(r, [old EXCEPT !.left = @ \ {d}])  BY <3>2, <3>3, <3>4
    <3>5. CASE Move(r, [old EXCEPT !.left = @ \ {d},
                                   !.found = IF table[d] # None THEN @ \cup {d} ELSE @])
      <4> DEFINE found == IF table[d] # None THEN old.found \cup {d} ELSE old.found
      <4>1. found \in SUBSET Databases  BY <3>3
      <4>2. QED  BY <3>3, <3>5, <4>1
    <3>6. QED  BY <3>1, <3>4, <3>5
  <2> DEFINE new == [old EXCEPT !.left = @ \ {d}, !.found = found]
  <2>2. new \in RunType  BY <1>1 DEF RunType
  <2>3. /\ new.at = "locate" /\ new.target = old.target /\ new.session = old.session
        /\ new.missed = old.missed /\ new.ran = old.ran /\ new.word = old.word /\ new.in = old.in
    <3>1. old.at = "locate"  BY <1>6 DEF Locate
    <3>2. new.at = old.at /\ new.target = old.target /\ new.session = old.session
      BY <1>1 DEF RunType
    <3>3. new.missed = old.missed /\ new.ran = old.ran /\ new.word = old.word /\ new.in = old.in
      BY <1>1 DEF RunType
    <3>4. QED  BY <3>1, <3>2, <3>3
  <2>4. old.ran = <<>> /\ UNCHANGED <<engine, session, table>>
    BY <1>1, <1>6 DEF Locate
  <2>5. old.at = "locate" /\ Theirs(r)  BY <1>6, <2>4 DEF Locate, Theirs
  <2>6. Move(r, new)  BY <2>1
  <2>7. old.target = Unnamed /\ engine = "mssql" /\ old.missed /\ old.session = Nobody
    BY <1>1, <2>5
  <2>8. old.word = "USE" => old.in # Unnamed  BY <1>1
  <2> HIDE DEF new
  <2>9. /\ new.at \notin Holds \cup {"execute", "use"} /\ new.target = Unnamed
        /\ Len(new.ran) <= 1 /\ DOMAIN new.ran = {} /\ session' \in [Sessions -> SessionType]
    BY <1>1, <2>3, <2>4, <2>7
  <2>10. QED
    BY <2>2, <2>3, <2>4, <2>5, <2>6, <2>7, <2>8, <2>9, Moves
<1>7. CASE Qualify(r)
  <2>1. PICK d \in Databases :
          old.found = {d} /\ Move(r, [old EXCEPT !.at = "session", !.target = d])
    BY <1>7 DEF Qualify
  <2> DEFINE new == [old EXCEPT !.at = "session", !.target = d]
  <2>2. new \in RunType  BY <1>1 DEF RunType, Places, Not
  <2>3. /\ new.at = "session" /\ new.target = d /\ new.session = old.session
        /\ new.missed = old.missed /\ new.ran = old.ran /\ new.found = old.found
        /\ new.word = old.word /\ new.in = old.in
    BY <1>1 DEF RunType
  <2>4. old.at = "locate" /\ UNCHANGED <<engine, session, table>>
    BY <1>7 DEF Qualify
  <2>5. Move(r, new) /\ Theirs(r)  BY <2>1, <2>4 DEF Theirs
  <2> HIDE DEF new
  <2>6. QED  BY <1>1, <2>1, <2>2, <2>3, <2>4, <2>5, Moves
<1>8. CASE NotQualified(r)
  BY <1>1, <1>8, Moves DEF NotQualified, Theirs, RunType, Places
<1>9. QED  BY <1>2, <1>3, <1>4, <1>5, <1>6, <1>7, <1>8
LEMMA NotAskedTyped == NotAsked \in RunType
<1>1. <<>> \in Seq(Databases) /\ {} \in SUBSET Databases  OBVIOUS
<1>2. Unnamed \in Not /\ "none" \in Places /\ Nobody \in Sessions \cup {Nobody}
  BY DEF Not, Places, Waits
<1>3. NotAsked.word \in Words  BY DEF Words
<1>4. QED  BY <1>1, <1>2, <1>3 DEF NotAsked, RunType

\* The request arrives.
LEMMA AskKeeps ==
  ASSUME Parameters, RInv, NEW r \in Calls, Ask(r)
  PROVE  RInv'
<1>1. PICK st \in Statements :
        Move(r, [NotAsked EXCEPT !.at = "session", !.word = st.word, !.in = st.in,
                                 !.database = st.database])
  BY DEF Ask
<1> DEFINE new == [NotAsked EXCEPT !.at = "session", !.word = st.word, !.in = st.in,
                                   !.database = st.database]
<1>2. st \in [word : STRING, in : Not, database : Not]  BY DEF Parameters, Not
<1>3. NotAsked \in RunType  BY NotAskedTyped
<1>4. new \in RunType  BY <1>2, <1>3 DEF RunType, Places, Waits, Words
<1>5. /\ new.at = "session" /\ new.session = Nobody /\ new.target = Unnamed /\ new.ran = <<>>
      /\ new.word = st.word /\ new.in = st.in
      /\ UNCHANGED <<engine, session, table>>
  BY <1>3 DEF NotAsked, RunType, Ask
<1>6. st.word = "USE" => st.in # Unnamed  BY DEF Parameters, Unnamed
<1>7. Move(r, new) /\ Theirs(r) /\ session \in [Sessions -> SessionType]
  BY <1>1, <1>5 DEF Theirs, RInv, TypeOK
<1> HIDE DEF new
<1>8. QED
  BY <1>4, <1>5, <1>6, <1>7, Moves DEF Holds, Waits

\* A free session is taken.
LEMMA AcquireKeeps ==
  ASSUME Parameters, RInv, NEW r \in Calls, Acquire(r)
  PROVE  RInv'
<1> DEFINE old == run[r]
           place == IF Run.database = "first" /\ old.database # Unnamed THEN "use" ELSE "execute"
<1>1. /\ old \in RunType /\ RunOK(r) /\ session \in [Sessions -> SessionType]
      /\ old.at = "session" /\ UNCHANGED <<engine, table>> /\ r # Nobody
  BY DEF RInv, TypeOK, Acquire, At, Parameters
<1>2. PICK s \in Free :
        /\ session' = [session EXCEPT ![s] =
             [open |-> TRUE, by |-> r, db |-> IF @.open /\ engine # "mssql" THEN @.db ELSE Default]]
        /\ Move(r, [old EXCEPT !.session = s, !.at = place])
  BY DEF Acquire
<1>3. s \in Sessions /\ session[s].by = Nobody  BY <1>2 DEF Free
<1>4. session' \in [Sessions -> SessionType] /\ session'[s].by = r /\ Theirs(r)
  BY <1>1, <1>2, <1>3 DEF SessionType, Theirs, Parameters
<1> DEFINE new == [old EXCEPT !.session = s, !.at = place]
<1>5. new \in RunType  BY <1>1, <1>3 DEF RunType, Places, Holds
<1>6. /\ new.at = place /\ new.session = s /\ new.target = old.target /\ new.ran = old.ran
      /\ new.missed = old.missed /\ new.found = old.found /\ new.database = old.database
      /\ new.word = old.word /\ new.in = old.in
  BY <1>1 DEF RunType
<1>7. new.at \in {"use", "execute"}
      /\ ~(new.at = "execute" /\ Run.database = "first" /\ new.database # Unnamed)
      /\ new.at = "use" => new.database # Unnamed
  BY <1>6
<1>8. old.ran = <<>>
      /\ (old.target # Unnamed => engine = "mssql" /\ old.missed /\ old.found = {old.target})
      /\ (old.word = "USE" => old.in # Unnamed)
  BY <1>1 DEF RunOK, Names, NotYet, Searched, Waits
<1>9. Move(r, new)  BY <1>2
<1> HIDE DEF new
<1>10. QED
  BY <1>1, <1>3, <1>4, <1>5, <1>6, <1>7, <1>8, <1>9, Moves DEF Waits, Holds

\* What a request keeps of what it has.
Kept(r, new) ==
  /\ new.word = run[r].word /\ new.in = run[r].in /\ new.database = run[r].database
  /\ new.target = run[r].target /\ new.found = run[r].found

\* The session a request holds, and that no other request is affected by what it does with it.
LEMMA Held ==
  ASSUME Parameters, RInv, NEW r \in Calls, run[r].at \in Holds
  PROVE  /\ run[r] \in RunType /\ RunOK(r) /\ session \in [Sessions -> SessionType]
         /\ run[r].session \in Sessions /\ session[run[r].session].by = r /\ r # Nobody
         /\ \A value \in SessionType :
              /\ [session EXCEPT ![run[r].session] = value] \in [Sessions -> SessionType]
              /\ session' = [session EXCEPT ![run[r].session] = value] => Theirs(r)
<1>1. /\ run[r] \in RunType /\ RunOK(r) /\ session \in [Sessions -> SessionType]
      /\ run[r].session \in Sessions /\ session[run[r].session].by = r /\ r # Nobody
  BY DEF RInv, TypeOK, RunOK, OwnSession, Parameters
<1>2. QED  BY <1>1 DEF Theirs

\* The session is given back, or closed.
LEMMA LetGo ==
  ASSUME Parameters, RInv, NEW r \in Calls, run[r].at \in Holds,
         session' = Released(r) \/ session' = Closed(r)
  PROVE  session' \in [Sessions -> SessionType] /\ Theirs(r)
<1> DEFINE s == run[r].session
<1>1. s \in Sessions /\ session \in [Sessions -> SessionType] /\ session[s] \in SessionType
  BY Held
<1>2. CASE session' = Released(r)
  <2>1. [session[s] EXCEPT !.by = Nobody] \in SessionType  BY <1>1 DEF SessionType
  <2>2. session' = [session EXCEPT ![s] = [session[s] EXCEPT !.by = Nobody]]
    BY <1>2 DEF Released
  <2>3. QED  BY <2>1, <2>2, Held
<1>3. CASE session' = Closed(r)
  <2>1. [open |-> FALSE, by |-> Nobody, db |-> Default] \in SessionType
    BY DEF SessionType, Parameters
  <2>2. QED  BY <1>3, <2>1, Held DEF Closed
<1>4. QED  BY <1>2, <1>3

\* The database is chosen on the session that the request has.
LEMMA UseKeeps ==
  ASSUME Parameters, RInv, NEW r \in Calls, UseDatabase(r)
  PROVE  RInv'
<1> DEFINE old == run[r]
           new == [old EXCEPT !.at = "execute"]
           value == [session[old.session] EXCEPT !.db = old.database]
<1>1. /\ old.at = "use" /\ UNCHANGED <<engine, table>> /\ Move(r, new)
      /\ session' = [session EXCEPT ![old.session] = value]
  BY DEF UseDatabase, At
<1>2. /\ old \in RunType /\ RunOK(r) /\ session \in [Sessions -> SessionType]
      /\ old.session \in Sessions /\ session[old.session].by = r
  BY <1>1, Held DEF Holds
<1>3. old.database \in Databases
  BY <1>1, <1>2 DEF RunOK, Names, At, RunType, Not
<1>4. value \in SessionType /\ value.by = r /\ value.db = old.database
  BY <1>2, <1>3 DEF SessionType
<1>5. session' \in [Sessions -> SessionType] /\ Theirs(r) /\ session'[old.session] = value
  BY <1>1, <1>2, <1>4, Held DEF Holds
<1>6. new \in RunType /\ new.at = "execute" /\ new.session = old.session
      /\ new.ran = old.ran /\ new.missed = old.missed /\ Kept(r, new)
  BY <1>2 DEF RunType, Places, Holds, Kept
<1>7. /\ old.ran = <<>> /\ (old.word = "USE" => old.in # Unnamed)
      /\ old.target # Unnamed => engine = "mssql" /\ old.missed /\ old.found = {old.target}
  BY <1>1, <1>2 DEF RunOK, Names, NotYet, Searched
<1> HIDE DEF new, value
<1>8. QED  BY <1>1, <1>4, <1>5, <1>6, <1>7, Moves DEF Kept, Holds, Waits

\* The request ends: answered, or for SQL Server looking for the table.
LEMMA Ends ==
  ASSUME Parameters, RInv, NEW r \in Calls, NEW new \in RunType,
         Move(r, new), UNCHANGED <<engine, table>>,
         session' \in [Sessions -> SessionType], Theirs(r), Kept(r, new),
         new.ran = run[r].ran, new.missed \in {run[r].missed, TRUE},
         \/ new.at = "answered"
         \/ /\ new.at = "scan" /\ new.session = Nobody /\ new.ran = <<>>
            /\ engine = "mssql" /\ new.missed /\ new.target = Unnamed
  PROVE  RInv'
<1>1. RunOK(r)  BY DEF RInv
<1>2. /\ new.word = "USE" => new.in # Unnamed
      /\ new.target # Unnamed => engine = "mssql" /\ new.missed /\ new.found = {new.target}
      /\ Len(new.ran) <= 1
  BY <1>1 DEF RunOK, Names, Searched, Kept
<1>3. \A n \in DOMAIN new.ran :
        new.in = Unnamed /\ new.database # Unnamed /\ Run.database # "ignored" =>
          \/ new.ran[n] = new.database
          \/ engine = "mssql" /\ new.missed /\ new.found = {new.ran[n]}
  BY <1>1 DEF RunOK, AsAsked, Kept
<1>4. QED  BY <1>2, <1>3, Moves DEF Holds, Waits

LEMMA LeaveKeeps ==
  ASSUME Parameters, RInv, NEW r \in Calls,
         UseFails(r) \/ Complete(r) \/ Cancel(r) \/ Unresolved(r) \/ Refused(r) \/ ConnectionLost(r)
  PROVE  RInv'
<1> DEFINE old == run[r]
<1>1. /\ old \in RunType /\ RunOK(r) /\ session \in [Sessions -> SessionType]
      /\ UNCHANGED <<engine, table>>
  BY DEF RInv, TypeOK, UseFails, Complete, Cancel, Unresolved, Refused, ConnectionLost
<1>2. session' \in [Sessions -> SessionType] /\ Theirs(r)
  <2>1. CASE Cancel(r)
    <3>1. CASE old.session = Nobody
      BY <1>1, <2>1, <3>1 DEF Cancel, Theirs
    <3>2. CASE old.session # Nobody
      <4>1. old.at \in Holds
        BY <1>1, <2>1, <3>2 DEF Cancel, At, RunOK, OwnSession, RunType, Places
      <4>2. session' = Closed(r)  BY <2>1, <3>2 DEF Cancel
      <4>3. QED  BY <4>1, <4>2, LetGo
    <3>3. QED  BY <3>1, <3>2
  <2>2. CASE ~Cancel(r)
    <3>1. /\ old.at \in Holds
          /\ session' = Released(r) \/ session' = Closed(r)
      BY <2>2 DEF UseFails, Complete, Unresolved, Refused, ConnectionLost, At, Holds
    <3>2. QED  BY <3>1, LetGo
  <2>3. QED  BY <2>1, <2>2
<1>3. CASE UseFails(r)
  BY <1>1, <1>2, <1>3, Ends DEF UseFails, Kept, RunType, Places
<1>4. CASE Complete(r)
  BY <1>1, <1>2, <1>4, Ends DEF Complete, Kept, RunType, Places
<1>5. CASE Cancel(r)
  BY <1>1, <1>2, <1>5, Ends DEF Cancel, Kept, RunType, Places
<1>6. ASSUME NEW unresolved \in BOOLEAN, Failed(r, unresolved),
             unresolved => At(r, "execute")
      PROVE  RInv'
  <2> DEFINE place == IF MayBeElsewhere(r, unresolved) THEN "scan" ELSE "answered"
             new == [old EXCEPT !.at = place, !.session = Nobody, !.rows = 0,
                                !.missed = @ \/ unresolved]
  <2>1. Move(r, new)  BY <1>6 DEF Failed
  <2>2. new \in RunType /\ new.at = place /\ new.session = Nobody /\ new.ran = old.ran
        /\ (new.missed <=> (old.missed \/ unresolved)) /\ new.missed \in BOOLEAN /\ Kept(r, new)
    BY <1>1 DEF RunType, Places, Waits, Kept
  <2>3. MayBeElsewhere(r, unresolved) =>
          /\ engine = "mssql" /\ new.missed /\ new.target = Unnamed /\ new.ran = <<>>
    BY <1>1, <1>6, <2>2 DEF MayBeElsewhere, Kept, RunOK, NotYet, At
  <2>4. new.missed \in {old.missed, TRUE}  BY <1>1, <2>2 DEF RunType
  <2> HIDE DEF new
  <2>5. QED  BY <1>1, <1>2, <2>1, <2>2, <2>3, <2>4, Ends
<1>7. CASE Unresolved(r) \/ Refused(r) \/ ConnectionLost(r)
  BY <1>6, <1>7 DEF Unresolved, Refused, ConnectionLost
<1>8. QED  BY <1>3, <1>4, <1>5, <1>7

\* A statement that changes the session's database.
LEMMA ChangeKeeps ==
  ASSUME Parameters, RInv, NEW r \in Calls, ChangeDatabase(r)
  PROVE  RInv'
<1> DEFINE old == run[r]
           new == [old EXCEPT !.at = "done"]
           value == [session[old.session] EXCEPT !.db = old.in]
<1>1. /\ old.at = "execute" /\ old.word = "USE" /\ UNCHANGED <<engine, table>> /\ Move(r, new)
      /\ session' = [session EXCEPT ![old.session] = value]
  BY DEF ChangeDatabase, At
<1>2. /\ old \in RunType /\ RunOK(r) /\ session \in [Sessions -> SessionType]
      /\ old.session \in Sessions /\ session[old.session].by = r
  BY <1>1, Held DEF Holds
<1>3. old.in \in Databases
  BY <1>1, <1>2 DEF RunOK, Names, RunType, Not
<1>4. value \in SessionType /\ value.by = r
  BY <1>2, <1>3 DEF SessionType
<1>5. session' \in [Sessions -> SessionType] /\ Theirs(r) /\ session'[old.session] = value
  BY <1>1, <1>2, <1>4, Held DEF Holds
<1>6. new \in RunType /\ new.at = "done" /\ new.session = old.session
      /\ new.ran = old.ran /\ new.missed = old.missed /\ Kept(r, new)
  BY <1>2 DEF RunType, Places, Holds, Kept
<1>7. /\ old.ran = <<>> /\ (old.word = "USE" => old.in # Unnamed)
      /\ old.target # Unnamed => engine = "mssql" /\ old.missed /\ old.found = {old.target}
  BY <1>1, <1>2 DEF RunOK, Names, NotYet, Searched
<1> HIDE DEF new, value
<1>8. QED  BY <1>1, <1>4, <1>5, <1>6, <1>7, Moves DEF Kept, Holds, Waits

\* The statement runs: once, because nothing has run before, and where it was asked to.
LEMMA ExecuteKeeps ==
  ASSUME Parameters, RInv, NEW r \in Calls, Execute(r)
  PROVE  RInv'
<1> DEFINE old == run[r]
           w == Where(r)
           place == IF Reads(r) THEN "rows" ELSE "done"
           new == [old EXCEPT !.at = place, !.ran = Append(@, w), !.held = table[w]]
<1>1. /\ old.at = "execute" /\ table[w] # None /\ UNCHANGED <<engine, session, table>>
      /\ Move(r, new)
  BY DEF Execute, At
<1>2. /\ old \in RunType /\ RunOK(r) /\ session \in [Sessions -> SessionType]
      /\ old.session \in Sessions /\ session[old.session].by = r
      /\ session[old.session] \in SessionType
  BY <1>1, Held DEF Holds
<1>3. /\ old.ran = <<>> /\ (old.word = "USE" => old.in # Unnamed)
      /\ old.target # Unnamed => engine = "mssql" /\ old.missed /\ old.found = {old.target}
      /\ Run.database = "first" /\ old.database # Unnamed
           => session[old.session].db = old.database
  BY <1>1, <1>2 DEF RunOK, InPlace, At, Names, NotYet, Searched
<1>4. w \in Databases
  BY <1>2 DEF Where, RunType, Not, SessionType
<1>5. table[w] \in Int
  <2>1. table[w] \in Sizes \cup {None}  BY <1>4 DEF RInv, TypeOK
  <2>2. Sizes \subseteq Int
    <3>1. Sizes \subseteq Nat  BY Zenon DEF Parameters
    <3>2. QED  BY <3>1
  <2>3. None \in Int  BY DEF None
  <2>4. QED  BY <2>1, <2>2, <2>3
<1>6. Append(old.ran, w) = <<w>> /\ <<w>> \in Seq(Databases)
  BY <1>3, <1>4
<1>7. new \in RunType /\ new.at = place /\ new.session = old.session
      /\ new.ran = <<w>> /\ new.missed = old.missed /\ Kept(r, new)
  BY <1>2, <1>5, <1>6 DEF RunType, Places, Holds, Kept
<1>8. ASSUME old.in = Unnamed, old.database # Unnamed, Run.database # "ignored"
      PROVE  w = old.database \/ (engine = "mssql" /\ old.missed /\ old.found = {w})
  <2>1. CASE old.target # Unnamed  BY <1>3, <1>8, <2>1 DEF Where
  <2>2. CASE old.target = Unnamed /\ Run.database = "prefix"
    BY <1>8, <2>2 DEF Where
  <2>3. CASE old.target = Unnamed /\ Run.database = "first"
    BY <1>3, <1>8, <2>3 DEF Where
  <2>4. Run.database \in {"first", "prefix", "ignored"}  BY DatabaseKinds
  <2>5. QED  BY <1>8, <2>1, <2>2, <2>3, <2>4
<1>9. Len(<<w>>) = 1 /\ DOMAIN <<w>> = {1} /\ <<w>>[1] = w  OBVIOUS
<1>10. Theirs(r)  BY <1>1 DEF Theirs
<1> HIDE DEF new, w
<1>11. \A n \in DOMAIN new.ran :
         new.in = Unnamed /\ new.database # Unnamed /\ Run.database # "ignored" =>
           \/ new.ran[n] = new.database
           \/ engine = "mssql" /\ new.missed /\ new.found = {new.ran[n]}
  BY <1>7, <1>8, <1>9 DEF Kept
<1>12. new.at \in {"rows", "done"}  BY <1>7
<1>13. Len(new.ran) <= 1  BY <1>7, <1>9
<1>14. QED
  BY <1>1, <1>2, <1>3, <1>7, <1>10, <1>11, <1>12, <1>13, Moves DEF Kept, Holds, Waits
LEMMA RunsInitial == ASSUME Parameters, RunsInit  PROVE RInv
<1>2. NotAsked \in RunType  BY NotAskedTyped
<1>3. TypeOK
  BY <1>2 DEF RunsInit, TypeOK, SessionType, Parameters
<1>4. ASSUME NEW r \in Calls  PROVE RunOK(r)
  <2>1. run[r] = NotAsked  BY DEF RunsInit
  <2>2. /\ run[r].at = "none" /\ run[r].session = Nobody /\ run[r].target = Unnamed
        /\ run[r].ran = <<>> /\ run[r].word = "none"
    BY <2>1 DEF NotAsked
  <2>3. QED
    BY <2>2 DEF RunOK, OwnSession, InPlace, Names, At, Searched, NotYet, AsAsked, Holds, Waits
<1>5. QED  BY <1>3, <1>4 DEF RInv

LEMMA RunsStep == ASSUME Parameters, RInv, [RunsNext]_runVars  PROVE RInv'
<1>1. CASE OtherClient
  <2>1. UNCHANGED <<engine, session, run>> /\ table' \in [Databases -> Sizes \cup {None}]
    BY <1>1 DEF OtherClient, RInv, TypeOK
  <2>2. Run' = Run  BY <2>1, SameRun
  <2>3. QED
    BY <2>1, <2>2 DEF RInv, TypeOK, RunOK, OwnSession, InPlace, Names, At, Searched, NotYet, AsAsked
<1>2. CASE UNCHANGED runVars
  <2>1. UNCHANGED <<engine, session, run, table>>  BY <1>2 DEF runVars
  <2>2. Run' = Run  BY <2>1, SameRun
  <2>3. QED
    BY <2>1, <2>2 DEF RInv, TypeOK, RunOK, OwnSession, InPlace, Names, At, Searched, NotYet, AsAsked
<1>3. ASSUME NEW r \in Calls, Ask(r) \/ Proceed(r) \/ Cancel(r)  PROVE RInv'
  BY <1>3, AskKeeps, AcquireKeeps, UseKeeps, ExecuteKeeps, ChangeKeeps, LeaveKeeps, Ahead DEF Proceed
<1>4. QED  BY <1>1, <1>2, <1>3 DEF RunsNext

\* The invariant of the requests holds in every reachable state.
THEOREM RunsInvariance == RunsSpec => []RInv
<1>1. RunsInit => RInv  BY RunsAssumption, RunsInitial
<1>2. RInv /\ [RunsNext]_runVars => RInv'  BY RunsAssumption, RunsStep
<1>3. QED  BY <1>1, <1>2, PTL DEF RunsSpec

\* A statement takes effect at most once, also when SQL Server's Run looks for its
\* table and runs it again (Run, locateTable, qualifyName).
THEOREM RunsOnceSafety == RunsSpec => []RunsOnce
<1>1. RInv => RunsOnce  BY DEF RInv, RunOK, RunsOnce
<1>2. QED  BY <1>1, RunsInvariance, PTL

\* A statement that names no database runs in the one its request names, or, on SQL
\* Server, in the one place where its table was found (Run, locateTable, qualifyName).
THEOREM RunsWhereAskedSafety == RunsSpec => []RunsWhereAsked
<1>1. RInv => RunsWhereAsked  BY DEF RInv, RunOK, AsAsked, RunsWhereAsked
<1>2. QED  BY <1>1, RunsInvariance, PTL
=============================================================================
