------------------------------ MODULE SqlRuns ------------------------------
(***************************************************************************)
(* Pressing "Run" in the SQL editor.  The editor posts the statement to    *)
(* /api/query, which has a few seconds; when that times out the editor     *)
(* opens a WebSocket and sends the same statement again, and the rows come *)
(* back in batches.  All runs share one editor store (busy, running,       *)
(* result), one registry of active queries and one table of history.       *)
(*                                                                         *)
(* A task is one of the two executions of a run: <<r, "rest">> or          *)
(* <<r, "ws">>.  The database is external and answers in its own time; a   *)
(* statement the server has given up may still take effect.  Columns,      *)
(* values and durations are left out; row i of run r is <<r, i>>.          *)
(***************************************************************************)
EXTENDS Integers, SequencesExt

CONSTANTS
  Runs,         \* presses of Run, in one browser
  ViaAgent,     \* the runs whose saved connection names a connector
  Statements,   \* the statements that may be run
  RowLimit,     \* resultLimit, after clampQueryMaxRows
  BatchSize,    \* rows in a WebSocket message
  MaxFaults,    \* bound: failures, of requests, sockets, statements, records
  HistoryMax,   \* rows of history kept per user; the runs share one user
  None

ASSUME RunsAssumption == ViaAgent \subseteq Runs
\* A write is sent with ExecContext, which yields no rows.
ASSUME StatementsAssumption ==
  /\ Statements \subseteq [kind : {"read", "write"}, size : Nat]
  /\ \A s \in Statements : s.kind = "write" => s.size = 0
ASSUME SizesAssumption ==
  /\ RowLimit \in Nat \ {0}
  /\ BatchSize \in Nat \ {0} /\ HistoryMax \in Nat \ {0} /\ MaxFaults \in Nat
ASSUME NoneAssumption == None \notin Runs \cup Statements

Tasks      == Runs \X {"rest", "ws"}
Rest(r)    == <<r, "rest">>
Ws(r)      == <<r, "ws">>

VARIABLES
  stmt,      \* run -> what it runs, None before it is pressed
  ui,        \* run -> where the callback of SqlEditor.run stands
  busy,      \* store/editor.ts: busy
  running,   \* store/editor.ts: the run the Cancel button belongs to, or None
  result,    \* store/editor.ts: the rows shown, or None
  net,       \* run -> its WebSocket
  inbox,     \* run -> frames the server has not read
  wire,      \* run -> events the browser has not handled
  pc,        \* task -> where its handler stands
  st,        \* run -> locals of streamRowsOverWS: total, batch, offset, truncated
  outcome,   \* task -> what its handler makes of the execution
  route,     \* task -> how the statement is sent
  db,        \* task -> what the database makes of it
  applied,   \* run -> times a write took effect
  active,    \* KillRegistry.m, keyed by the run's random query id
  history,   \* query_history, oldest first
  log,       \* history variable: everything ever inserted there
  overlap,   \* history variable: Run was pressed while another run was shown
  faults     \* faults so far

page    == <<busy, running, result>>
sock    == <<net, inbox, wire>>
server  == <<pc, st, outcome, active>>
target  == <<route, db, applied>>
records == <<history, log>>
vars    == <<stmt, ui, page, sock, server, target, records, overlap, faults>>

Least(a, b) == IF a <= b THEN a ELSE b
RowsOf(r, from, n) == [i \in 1..n |-> <<r, from + i>>]
FreshLocals == [total |-> 0, batch |-> 0, offset |-> 0, truncated |-> FALSE]

Fault == faults < MaxFaults /\ faults' = faults + 1

Init ==
  /\ stmt = [r \in Runs |-> None]
  /\ ui = [r \in Runs |-> "idle"]
  /\ busy = FALSE /\ running = None /\ result = None
  /\ net = [r \in Runs |-> "none"]
  /\ inbox = [r \in Runs |-> <<>>]
  /\ wire = [r \in Runs |-> <<>>]
  /\ pc = [t \in Tasks |-> "idle"]
  /\ st = [r \in Runs |-> FreshLocals]
  /\ outcome = [t \in Tasks |-> "none"]
  /\ route = [t \in Tasks |-> "none"]
  /\ db = [t \in Tasks |-> "none"]
  /\ applied = [r \in Runs |-> 0]
  /\ active = {}
  /\ history = <<>> /\ log = <<>>
  /\ overlap = FALSE
  /\ faults = 0

-----------------------------------------------------------------------------
(***************************************************************************)
(* The editor: the callback run() and the handlers of its stream.          *)
(***************************************************************************)
Shown(r) == ui[r] \in {"posting", "streaming"}

\* The button is disabled while busy; Ctrl+Enter is not.
Press(r) ==
  /\ ui[r] = "idle"
  /\ \E s \in Statements : stmt' = [stmt EXCEPT ![r] = s]
  /\ ui' = [ui EXCEPT ![r] = "posting"]
  /\ busy' = TRUE
  /\ pc' = [pc EXCEPT ![Rest(r)] = "resolve"]
  /\ overlap' = (overlap \/ \E q \in Runs : Shown(q))
  /\ UNCHANGED <<running, result, sock, st, outcome, active, target, records, faults>>

\* What handleQuery answers, a whole result: the executors cap it, and the
\* connector's executor calls a result that just fits truncated.
RestResult(r) ==
  LET n == Least(stmt[r].size, RowLimit)
  IN  [rows |-> RowsOf(r, 0, n), final |-> TRUE,
       truncated |-> /\ stmt[r].kind = "read"
                     /\ IF r \in ViaAgent THEN n >= RowLimit ELSE stmt[r].size > RowLimit]

EmptyResult == [rows |-> <<>>, truncated |-> FALSE, final |-> FALSE]

\* Mutant: whatever goes wrong is retried.
MutRetried(answer) == answer \in {"timeout", "error"}

Retried(answer) == answer = "timeout"

Replied(r) ==
  /\ ui[r] = "posting" /\ pc[Rest(r)] = "reply"
  /\ pc' = [pc EXCEPT ![Rest(r)] = "done"]
  /\ IF Retried(outcome[Rest(r)])
     THEN /\ ui' = [ui EXCEPT ![r] = "streaming"]
          /\ net' = [net EXCEPT ![r] = "connecting"]
          /\ result' = EmptyResult
          /\ running' = r
          /\ UNCHANGED busy
     ELSE /\ ui' = [ui EXCEPT ![r] = "closed"]
          /\ result' = IF outcome[Rest(r)] = "ok" THEN RestResult(r) ELSE None
          /\ busy' = FALSE
          /\ UNCHANGED <<net, running>>
  /\ UNCHANGED <<stmt, inbox, wire, st, outcome, active, target, records, overlap, faults>>

\* The request fails in the network; the handler does not know.
PostFails(r) ==
  /\ ui[r] = "posting" /\ Fault
  /\ ui' = [ui EXCEPT ![r] = "closed"]
  /\ result' = None
  /\ busy' = FALSE
  /\ UNCHANGED <<stmt, running, sock, server, target, records, overlap>>

\* ws.onopen; the handler of /ws/query has checked the session and accepted.
Open(r) ==
  /\ net[r] = "connecting"
  /\ net' = [net EXCEPT ![r] = "up"]
  /\ inbox' = [inbox EXCEPT ![r] = <<"exec">>]
  /\ pc' = [pc EXCEPT ![Ws(r)] = "read"]
  /\ UNCHANGED <<stmt, ui, page, wire, st, outcome, active, target, records, overlap, faults>>

\* The socket cannot be opened, or the network loses it.
Drop(r) ==
  /\ net[r] \in {"connecting", "up", "closing"} /\ Fault
  /\ net' = [net EXCEPT ![r] = "down"]
  /\ wire' = [wire EXCEPT ![r] = <<>>]
  /\ UNCHANGED <<stmt, ui, page, inbox, server, target, records, overlap>>

\* The Cancel button: send the envelope (refused while connecting), close.
Cancel(r) ==
  /\ running = r /\ ui[r] = "streaming"
  /\ inbox' = IF net[r] = "up" THEN [inbox EXCEPT ![r] = Append(@, "cancel")] ELSE inbox
  /\ net' = [net EXCEPT ![r] = IF @ = "up" THEN "closing" ELSE "down"]
  /\ ui' = [ui EXCEPT ![r] = "cancelled"]
  /\ UNCHANGED <<stmt, page, wire, server, target, records, overlap, faults>>

\* ws.onmessage.  Once the browser has called close(), events are not delivered.
OnEvent(r) ==
  /\ ui[r] = "streaming" /\ net[r] = "up" /\ wire[r] # <<>>
  /\ LET ev   == Head(wire[r])
         last == ev.type \in {"done", "error"}
     IN  /\ result' =
              CASE ev.type = "columns" -> EmptyResult
                [] ev.type = "rows" ->
                     IF result = None THEN [EmptyResult EXCEPT !.rows = ev.rows]
                     ELSE [result EXCEPT !.rows = @ \o ev.rows]
                [] ev.type = "done" ->
                     IF result = None THEN None
                     ELSE [result EXCEPT !.truncated = ev.truncated, !.final = TRUE]
                [] OTHER -> result
         /\ busy' = (busy /\ ~last)
         /\ running' = IF last THEN None ELSE running
         /\ ui' = [ui EXCEPT ![r] = IF last THEN "closing" ELSE @]
         /\ net' = [net EXCEPT ![r] = IF last THEN "closing" ELSE @]
  /\ wire' = [wire EXCEPT ![r] = Tail(@)]
  /\ UNCHANGED <<stmt, inbox, server, target, records, overlap, faults>>

\* ws.onclose, when the server has answered the close or the browser has waited
\* long enough.  It clears busy and running, whoever they belong to by now.
OnCloseAs(r, unasked, stillBusy) ==
  /\ \/ ui[r] \in {"closing", "cancelled"}
     \/ unasked /\ ui[r] = "streaming" /\ net[r] = "down"
  /\ ui' = [ui EXCEPT ![r] = "closed"]
  /\ net' = [net EXCEPT ![r] = "down"]
  /\ busy' = stillBusy
  /\ running' = None
  /\ UNCHANGED <<stmt, result, inbox, wire, server, target, records, overlap, faults>>

\* Mutant: busy is left to the last event.
MutOnCloseBusy(r) == OnCloseAs(r, TRUE, busy)
OnClose(r) == OnCloseAs(r, TRUE, FALSE)

-----------------------------------------------------------------------------
(***************************************************************************)
(* handleQuery.                                                            *)
(***************************************************************************)
\* resolveConnByID and executorForQuery find the connection and a way to it ...
RestStart(r) ==
  /\ pc[Rest(r)] = "resolve"
  /\ pc' = [pc EXCEPT ![Rest(r)] = "run"]
  /\ route' = [route EXCEPT ![Rest(r)] = IF r \in ViaAgent THEN "agent" ELSE "direct"]
  /\ db' = [db EXCEPT ![Rest(r)] = "running"]
  /\ UNCHANGED <<stmt, ui, page, sock, st, outcome, active, applied, records, overlap, faults>>

\* ... or not, and then there is nothing to record.
RestUnresolved(r) ==
  /\ pc[Rest(r)] = "resolve" /\ Fault
  /\ pc' = [pc EXCEPT ![Rest(r)] = "reply"]
  /\ outcome' = [outcome EXCEPT ![Rest(r)] = "error"]
  /\ UNCHANGED <<stmt, ui, page, sock, st, active, target, records, overlap>>

RestAnsweredAs(r, good) ==
  /\ pc[Rest(r)] = "run" /\ db[Rest(r)] \in {"done", "refused"}
  /\ pc' = [pc EXCEPT ![Rest(r)] = "insert"]
  /\ outcome' = [outcome EXCEPT ![Rest(r)] = IF db[Rest(r)] \in good THEN "ok" ELSE "error"]
  /\ UNCHANGED <<stmt, ui, page, sock, st, active, target, records, overlap, faults>>

\* Mutant: the error is not looked at.
MutRestAnswered(r) == RestAnsweredAs(r, {"done", "refused"})

RestAnswered(r) == RestAnsweredAs(r, {"done"})

\* The context ends, QueryTimeoutS or with the request, whatever the database has
\* done by then; the driver reports the deadline or an error of its own.  A write
\* that was under way is left to the database; a read is over.
RestGivesUp(r) ==
  /\ pc[Rest(r)] = "run"
  /\ pc' = [pc EXCEPT ![Rest(r)] = "insert"]
  /\ \/ outcome' = [outcome EXCEPT ![Rest(r)] = "timeout"] /\ UNCHANGED faults
     \/ outcome' = [outcome EXCEPT ![Rest(r)] = "error"] /\ Fault
  /\ db' = [db EXCEPT ![Rest(r)] = IF @ # "running" THEN @
                                          ELSE IF stmt[r].kind = "write" THEN "orphan" ELSE "stopped"]
  /\ UNCHANGED <<stmt, ui, page, sock, st, active, route, applied, records, overlap>>

\* The answer of a request whose browser has gone away.
RestUnheard(r) ==
  /\ pc[Rest(r)] = "reply" /\ ui[r] = "closed"
  /\ pc' = [pc EXCEPT ![Rest(r)] = "done"]
  /\ UNCHANGED <<stmt, ui, page, sock, st, outcome, active, target, records, overlap, faults>>

-----------------------------------------------------------------------------
(***************************************************************************)
(* AddHistoryWithCap, for both handlers: two statements, errors ignored.   *)
(***************************************************************************)
Insert(t) ==
  /\ pc[t] = "insert"
  /\ \/ /\ LET entry == [task |-> t, ok |-> outcome[t] = "ok"]
           IN  /\ history' = Append(history, entry)
               /\ log' = Append(log, entry)
        /\ pc' = [pc EXCEPT ![t] = "prune"]
        /\ UNCHANGED faults
     \/ /\ Fault
        /\ pc' = [pc EXCEPT ![t] = "reply"]
        /\ UNCHANGED records
  /\ UNCHANGED <<stmt, ui, page, sock, st, outcome, active, target, overlap>>

\* Mutant: the sort the wrong way round.
MutNewest(s) == SubSeq(s, 1, Least(Len(s), HistoryMax))

\* DELETE ... WHERE id NOT IN (SELECT the newest HistoryMax).
Newest(s) == SubSeq(s, Len(s) - Least(Len(s), HistoryMax) + 1, Len(s))

Prune(t) ==
  /\ pc[t] = "prune"
  /\ \/ history' = Newest(history) /\ UNCHANGED faults
     \/ Fault /\ UNCHANGED history
  /\ pc' = [pc EXCEPT ![t] = "reply"]
  /\ UNCHANGED <<stmt, ui, page, sock, st, outcome, active, target, log, overlap>>

-----------------------------------------------------------------------------
(***************************************************************************)
(* handleWSQuery and handleWSExec, in one goroutine: while a statement     *)
(* runs nobody reads the socket, and the context it runs with is the       *)
(* hijacked request's, which no disconnect ends.                           *)
(***************************************************************************)
\* Events reach a browser that listens; of one that has gone the writer may or
\* may not learn.
Sent(r, ev) == wire' = IF net[r] = "up" THEN [wire EXCEPT ![r] = Append(@, ev)] ELSE wire
WriteFails(r) == net[r] # "up" /\ UNCHANGED wire

ErrorEvent == [type |-> "error"]

ReadExec(r) ==
  /\ pc[Ws(r)] = "read" /\ inbox[r] # <<>> /\ Head(inbox[r]) = "exec"
  /\ inbox' = [inbox EXCEPT ![r] = Tail(@)]
  /\ pc' = [pc EXCEPT ![Ws(r)] = "resolve"]
  /\ UNCHANGED <<stmt, ui, page, net, wire, st, outcome, active, target, records, overlap, faults>>

\* By the time a cancel is read handleWSExec has returned and currentCancel is nil.
ReadCancel(r) ==
  /\ pc[Ws(r)] = "read" /\ inbox[r] # <<>> /\ Head(inbox[r]) = "cancel"
  /\ inbox' = [inbox EXCEPT ![r] = Tail(@)]
  /\ Sent(r, ErrorEvent)
  /\ UNCHANGED <<stmt, ui, page, net, server, target, records, overlap, faults>>

\* conn.Read fails on the close frame, or when the connection is found dead.
ReadFails(r) ==
  /\ pc[Ws(r)] = "read"
  /\ \/ net[r] = "closing" /\ inbox[r] = <<>>
     \/ net[r] = "down"
  /\ pc' = [pc EXCEPT ![Ws(r)] = "gone"]
  /\ UNCHANGED <<stmt, ui, page, sock, st, outcome, active, target, records, overlap, faults>>

\* wsDBForUser, a session of the pool, USE, the registry, then the statement.
WsStart(r) ==
  /\ pc[Ws(r)] = "resolve"
  /\ active' = active \cup {r}
  /\ pc' = [pc EXCEPT ![Ws(r)] = "run"]
  /\ route' = [route EXCEPT ![Ws(r)] = "direct"]
  /\ db' = [db EXCEPT ![Ws(r)] = "running"]
  /\ UNCHANGED <<stmt, ui, page, sock, st, outcome, applied, records, overlap, faults>>

WsUnresolved(r) ==
  /\ pc[Ws(r)] = "resolve" /\ Fault
  /\ Sent(r, ErrorEvent)
  /\ pc' = [pc EXCEPT ![Ws(r)] = "read"]
  /\ UNCHANGED <<stmt, ui, page, net, inbox, st, outcome, active, target, records, overlap>>

\* A write has been answered, or a read has been refused.
WsAnswered(r) ==
  /\ pc[Ws(r)] = "run" /\ db[Ws(r)] \in {"done", "refused"}
  /\ pc' = [pc EXCEPT ![Ws(r)] = "insert"]
  /\ outcome' = [outcome EXCEPT ![Ws(r)] = IF db[Ws(r)] = "done" THEN "ok" ELSE "error"]
  /\ UNCHANGED <<stmt, ui, page, sock, st, active, target, records, overlap, faults>>

\* A failed write to the socket ends the stream and closes the rows.
StreamBroken(r) ==
  /\ WriteFails(r)
  /\ pc' = [pc EXCEPT ![Ws(r)] = "insert"]
  /\ outcome' = [outcome EXCEPT ![Ws(r)] = "error"]
  /\ db' = [db EXCEPT ![Ws(r)] = "stopped"]
  /\ UNCHANGED st

Columns(r) ==
  /\ pc[Ws(r)] = "run" /\ db[Ws(r)] = "cursor"
  /\ \/ /\ Sent(r, [type |-> "columns"])
        /\ pc' = [pc EXCEPT ![Ws(r)] = "rows"]
        /\ UNCHANGED <<st, outcome, db>>
     \/ StreamBroken(r)
  /\ UNCHANGED <<stmt, ui, page, net, inbox, active, route, applied, records, overlap, faults>>

\* Mutant: one row past the limit.
MutFull(r) == st[r].total > RowLimit

Full(r) == st[r].total >= RowLimit

\* Mutant: the offset of the last row for that of the first.
MutRowBatch(r, n) == [type |-> "rows", rows |-> RowsOf(r, st[r].total, n)]

RowBatch(r, n) == [type |-> "rows", rows |-> RowsOf(r, st[r].offset, n)]

\* One turn of the loop: rows.Next() was true and the limit is not reached.
NextRow(r) ==
  /\ pc[Ws(r)] = "rows" /\ st[r].total < stmt[r].size /\ ~Full(r)
  /\ LET n == st[r].batch + 1
     IN  \/ /\ n < BatchSize
            /\ st' = [st EXCEPT ![r].total = @ + 1, ![r].batch = n]
            /\ UNCHANGED <<wire, pc, outcome, db>>
         \/ /\ n >= BatchSize
            /\ Sent(r, RowBatch(r, n))
            /\ st' = [st EXCEPT ![r].total = @ + 1, ![r].batch = 0, ![r].offset = @ + n]
            /\ UNCHANGED <<pc, outcome, db>>
         \/ n >= BatchSize /\ StreamBroken(r)
  /\ UNCHANGED <<stmt, ui, page, net, inbox, active, route, applied, records, overlap, faults>>

\* The loop ends: the rows do, or there is one more than the limit.
EndRows(r) ==
  /\ pc[Ws(r)] = "rows"
  /\ st[r].total = stmt[r].size \/ Full(r)
  /\ st' = [st EXCEPT ![r].truncated = st[r].total < stmt[r].size]
  /\ db' = [db EXCEPT ![Ws(r)] = "done"]
  /\ pc' = [pc EXCEPT ![Ws(r)] = "flush"]
  /\ UNCHANGED <<stmt, ui, page, sock, outcome, active, route, applied, records, overlap, faults>>

\* The database fails among the rows.
RowsFail(r) ==
  /\ pc[Ws(r)] = "rows" /\ Fault
  /\ db' = [db EXCEPT ![Ws(r)] = "refused"]
  /\ pc' = [pc EXCEPT ![Ws(r)] = "insert"]
  /\ outcome' = [outcome EXCEPT ![Ws(r)] = "error"]
  /\ UNCHANGED <<stmt, ui, page, sock, st, active, route, applied, records, overlap>>

Flush(r) ==
  /\ pc[Ws(r)] = "flush"
  /\ \/ /\ IF st[r].batch > 0 THEN Sent(r, RowBatch(r, st[r].batch)) ELSE UNCHANGED wire
        /\ pc' = [pc EXCEPT ![Ws(r)] = "insert"]
        /\ outcome' = [outcome EXCEPT ![Ws(r)] = "ok"]
        /\ UNCHANGED <<st, db>>
     \/ st[r].batch > 0 /\ StreamBroken(r)
  /\ UNCHANGED <<stmt, ui, page, net, inbox, active, route, applied, records, overlap, faults>>

\* Mutant: a failure is recorded and not reported.
MutWsReply(r) ==
  /\ pc[Ws(r)] = "reply"
  /\ IF outcome[Ws(r)] = "ok" THEN Sent(r, [type |-> "done", truncated |-> st[r].truncated])
                             ELSE UNCHANGED wire
  /\ pc' = [pc EXCEPT ![Ws(r)] = "unregister"]
  /\ UNCHANGED <<stmt, ui, page, net, inbox, st, outcome, active, target, records, overlap, faults>>

\* The last event, whose loss nobody minds.
WsReply(r) ==
  /\ pc[Ws(r)] = "reply"
  /\ Sent(r, IF outcome[Ws(r)] = "ok"
             THEN [type |-> "done", truncated |-> st[r].truncated] ELSE ErrorEvent)
  /\ pc' = [pc EXCEPT ![Ws(r)] = "unregister"]
  /\ UNCHANGED <<stmt, ui, page, net, inbox, st, outcome, active, target, records, overlap, faults>>

UnregisterTo(r, left) ==
  /\ pc[Ws(r)] = "unregister"
  /\ active' = left
  /\ pc' = [pc EXCEPT ![Ws(r)] = "read"]
  /\ UNCHANGED <<stmt, ui, page, sock, st, outcome, target, records, overlap, faults>>

\* Mutant: the entry stays.
MutUnregister(r) == UnregisterTo(r, active)

Unregister(r) == UnregisterTo(r, active \ {r})

-----------------------------------------------------------------------------
(***************************************************************************)
(* The target database.                                                    *)
(***************************************************************************)
Effect(r) == applied' = [applied EXCEPT ![r] = @ + (IF stmt[r].kind = "write" THEN 1 ELSE 0)]

\* The answer: of a write when it has taken effect, of a streamed read a cursor.
DBAnswer(t) ==
  /\ db[t] = "running"
  /\ db' = [db EXCEPT ![t] = IF t[2] = "ws" /\ stmt[t[1]].kind = "read" THEN "cursor" ELSE "done"]
  /\ Effect(t[1])
  /\ UNCHANGED <<stmt, ui, page, sock, server, route, records, overlap, faults>>

DBRefuse(t) ==
  /\ db[t] = "running" /\ Fault
  /\ db' = [db EXCEPT ![t] = "refused"]
  /\ UNCHANGED <<stmt, ui, page, sock, server, route, applied, records, overlap>>

\* A statement nobody waits for is stopped, or completes first.
DBOrphan(t) ==
  /\ db[t] = "orphan"
  /\ \/ db' = [db EXCEPT ![t] = "done"] /\ Effect(t[1])
     \/ db' = [db EXCEPT ![t] = "stopped"] /\ UNCHANGED applied
  /\ UNCHANGED <<stmt, ui, page, sock, server, route, records, overlap, faults>>

-----------------------------------------------------------------------------
RestHandler(r) ==
  RestStart(r) \/ RestUnresolved(r) \/ RestAnswered(r) \/ RestGivesUp(r) \/ RestUnheard(r)
WsHandler(r) ==
  \/ ReadExec(r) \/ ReadCancel(r) \/ ReadFails(r) \/ WsStart(r) \/ WsUnresolved(r)
  \/ WsAnswered(r) \/ Columns(r) \/ Flush(r) \/ WsReply(r) \/ Unregister(r)
RowLoop(r) == NextRow(r) \/ EndRows(r)       \* waits for the database
Recording(t) == Insert(t) \/ Prune(t)
Browser(r) == Replied(r) \/ OnEvent(r) \/ OnClose(r)
Connect(r) == Open(r) \/ Drop(r)
Database(t) == DBAnswer(t) \/ DBRefuse(t)

\* Every run has ended and nothing is under way.
Finished ==
  /\ \A r \in Runs : ui[r] = "closed"
  /\ \A t \in Tasks : pc[t] \in {"idle", "done", "gone"}
  /\ UNCHANGED vars

Next ==
  \/ \E r \in Runs :
       \/ Press(r) \/ PostFails(r) \/ Cancel(r)
       \/ Browser(r) \/ Connect(r) \/ RestHandler(r) \/ WsHandler(r) \/ RowLoop(r) \/ RowsFail(r)
  \/ \E t \in Tasks : Recording(t) \/ Database(t) \/ DBOrphan(t)
  \/ Finished

Spec == Init /\ [][Next]_vars

\* The server's goroutines and the browser's event loop run; a connection attempt
\* ends one way or the other; REST's deadline comes.
ServerFairness ==
  /\ \A r \in Runs : /\ WF_vars(RestHandler(r)) /\ WF_vars(WsHandler(r))
                     /\ WF_vars(Browser(r)) /\ WF_vars(net[r] = "connecting" /\ Connect(r))
  /\ \A t \in Tasks : WF_vars(Recording(t))

\* A database that answers and goes on yielding rows.
DatabaseFairness ==
  /\ \A t \in Tasks : WF_vars(Database(t))
  /\ \A r \in Runs : WF_vars(RowLoop(r))

SlowSpec == Spec /\ ServerFairness
FairSpec == SlowSpec /\ DatabaseFairness

-----------------------------------------------------------------------------
Rows    == Seq(Runs \X Nat)
Results == [rows : Rows, truncated : BOOLEAN, final : BOOLEAN]
ASSUME ResultsAssumption == None \notin Results
Events  == [type : {"columns", "error"}] \cup [type : {"rows"}, rows : Rows]
             \cup [type : {"done"}, truncated : BOOLEAN]
Entries == [task : Tasks, ok : BOOLEAN]

EditorTypes ==
  /\ stmt \in [Runs -> Statements \cup {None}]
  /\ ui \in [Runs -> {"idle", "posting", "streaming", "cancelled", "closing", "closed"}]
  /\ busy \in BOOLEAN /\ running \in Runs \cup {None} /\ result \in Results \cup {None}
  /\ overlap \in BOOLEAN
SocketTypes ==
  /\ net \in [Runs -> {"none", "connecting", "up", "closing", "down"}]
  /\ inbox \in [Runs -> Seq({"exec", "cancel"})]
  /\ wire \in [Runs -> Seq(Events)]
HandlerTypes ==
  /\ pc \in [Tasks -> {"idle", "read", "resolve", "run", "rows", "flush", "insert", "prune",
                       "reply", "unregister", "done", "gone"}]
  /\ outcome \in [Tasks -> {"none", "ok", "error", "timeout"}]
  /\ active \subseteq Runs
LocalTypes ==
  st \in [Runs -> [total : 0..RowLimit, batch : 0..BatchSize, offset : 0..RowLimit,
                   truncated : BOOLEAN]]
TargetTypes ==
  /\ route \in [Tasks -> {"none", "agent", "direct"}]
  /\ db \in [Tasks -> {"none", "running", "cursor", "done", "refused", "orphan", "stopped"}]
  /\ applied \in [Runs -> 0..2]
RecordTypes ==
  /\ history \in Seq(Entries) /\ log \in Seq(Entries)
  /\ faults \in 0..MaxFaults

TypeOK ==
  EditorTypes /\ SocketTypes /\ HandlerTypes /\ LocalTypes /\ TargetTypes /\ RecordTypes

\* While runs do not overlap, the editor shows an initial part of the rows of one
\* statement, in order and without gaps; a result called complete is exactly as
\* long as the limit allows, and the reader is told when rows were left out.
ResultWhole ==
  ~overlap /\ result # None =>
    \E r \in Runs :
      /\ stmt[r] # None
      /\ result.rows = RowsOf(r, 0, Len(result.rows))
      /\ result.final =>
           /\ Len(result.rows) = Least(stmt[r].size, RowLimit)
           /\ stmt[r].size > RowLimit => result.truncated
           /\ result.truncated /\ r \notin ViaAgent => stmt[r].size > RowLimit

\* /api/queries/active tells the truth about streamed queries: what the database
\* works on for a handler is listed, and what is listed has a handler.
ActiveListed ==
  /\ \A r \in Runs : db[Ws(r)] \in {"running", "cursor"} => r \in active
  /\ \A r \in active : pc[Ws(r)] \notin {"idle", "read", "gone"}

\* The history says ok only of an execution the database completed, and holds no
\* execution twice.
HistoryTruthful ==
  /\ \A i \in DOMAIN log : log[i].ok => db[log[i].task] = "done"
  /\ \A i, j \in DOMAIN log : log[i].task = log[j].task => i = j

\* Pruning, interleaved with other inserts, never loses one of the newest entries.
HistoryRecent == IsSuffix(history, log) /\ Len(history) >= Least(Len(log), HistoryMax)

\* A write the user ran once takes effect twice only when the first execution was
\* given up at its deadline: no other answer makes the editor send it again.
TwiceOnlyAfterTimeout ==
  \A r \in Runs : applied[r] > 1 => outcome[Rest(r)] = "timeout"

\* The editor never waits for what nobody will send: a posted run has a handler that
\* will answer; on an open socket the statement is still to be read, is being run, or
\* its last event is on the way, however it failed; busy is set, and Cancel offered,
\* only while a run is there to end it.
EditorIsAnswered ==
  /\ \A r \in Runs :
       /\ ui[r] = "posting" => pc[Rest(r)] \in {"resolve", "run", "insert", "prune", "reply"}
       /\ ui[r] = "streaming" => net[r] \in {"connecting", "up", "down"}
       /\ ui[r] = "streaming" /\ net[r] = "up" =>
            \/ pc[Ws(r)] = "read" /\ inbox[r] = <<"exec">>
            \/ pc[Ws(r)] \in {"resolve", "run", "rows", "flush", "insert", "prune", "reply"}
            \/ \E i \in DOMAIN wire[r] : wire[r][i].type \in {"done", "error"}
  /\ busy => \E r \in Runs : ui[r] \notin {"idle", "closed"}
  /\ running # None => ui[running] \in {"streaming", "cancelled"}

\* Every run comes to an end in the editor, posted, retried, streamed or lost,
\* and the Run button, disabled by busy, becomes usable again.
RunsEnd ==
  /\ \A r \in Runs : ui[r] = "posting" ~> ui[r] = "closed"
  /\ busy ~> ~busy

=============================================================================
