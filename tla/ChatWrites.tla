----------------------------- MODULE ChatWrites -----------------------------
(***************************************************************************)
(* One AI chat session that may write to the user's database.              *)
(*                                                                         *)
(* Actors: the orchestrator goroutine of chat.Run, which runs the tool     *)
(* calls of the LLM one after another; the HTTP handler, which forwards    *)
(* the orchestrator's events to the browser; the reader goroutine, which   *)
(* takes the browser's follow-up messages; the user, who answers proposal  *)
(* cards, changes the write policy and may go away at any time; and the    *)
(* database, which runs what it is sent in its own time.                   *)
(***************************************************************************)
EXTENDS Naturals, Sequences, FiniteSets

CONSTANTS
  Calls,         \* the propose_write tool calls the LLM can make, by identity
  Inputs,        \* what such a call can carry; see InputsAssumption
  Names, NoName, \* database and table names, and the empty string
  Fold,          \* Fold[n]: n with its letter case folded (strings.EqualFold)
  PinnedDB,      \* the database the chat is scoped to (DefaultDB), or NoName
  DSNDefault,    \* the database a fresh pooled session starts in, or NoName
  UsedDBs,       \* the databases other requests of this connection USE
  NoCall,
  GrantedAtStart,\* the rows of ai_write_policy when the session begins
  PolicyTables,  \* the <<db, table>> pairs the user edits policy rows for
  PolicyFlags,   \* the flags of such a row the model exercises
  EventCap,      \* capacity of the orchestrator's event channel (32)
  MaxTurns,      \* MaxIterations (8)
  MaxClicks,     \* decisions one card sends; the shipped card sends one
  StoreMayFail,  \* may a write to the audit table fail?
  MayCrash       \* may the server process die?

Ops == {"INSERT", "UPDATE", "DELETE", "TRUNCATE", "DDL"}
Flags == {"insert", "update", "delete", "ddl"}

(***************************************************************************)
(* db, table and op are the fields the LLM declares ("" is NoName or       *)
(* "OTHER"); sql is what the classifier makes of the statement.            *)
(***************************************************************************)
Classified == [parsed : BOOLEAN, multi : BOOLEAN, op : Ops \cup {"OTHER"},
               db : Names \cup {NoName}, table : Names \cup {NoName}]
Input == [db : Names \cup {NoName}, table : Names \cup {NoName},
          op : Ops \cup {"OTHER"}, sql : Classified]

ASSUME InputsAssumption == Inputs \subseteq Input
ASSUME NamesAssumption == /\ NoName \notin Names
                          /\ Fold \in [Names -> Names]
                          /\ PolicyTables \subseteq Names \X Names
                          /\ PolicyFlags \subseteq Flags
                          /\ GrantedAtStart \subseteq Names \X Names \X Flags
                          /\ PinnedDB \in Names \cup {NoName}
                          /\ DSNDefault \in Names \cup {NoName}
                          /\ UsedDBs \subseteq Names
ASSUME BoundsAssumption == /\ EventCap \in Nat \ {0}
                           /\ MaxTurns \in Nat \ {0}
                           /\ MaxClicks \in Nat
                           /\ NoCall \notin Calls \cup Inputs
                           /\ StoreMayFail \in BOOLEAN
                           /\ MayCrash \in BOOLEAN

VARIABLES
  master,    \* users.ai_writes_enabled
  granted,   \* <<db, table, flag>> for every flag set in ai_write_policy
  audit,     \* audit[c]: status of the ai_write_audit row of c
  input,     \* input[c]: what the LLM passed, or NoCall before it did
  pc, turns, cur, queue, verdict,  \* orchestrator: control, and the calls of this reply
  pending,   \* keys of pendingState.chans
  chan,      \* chan[c]: the decision channel of c, capacity 1
  reader,    \* the reader goroutine
  inbox,     \* follow-up messages on their way from the browser
  events,    \* the out channel of chat.Run
  handler,   \* the HTTP handler goroutine: "loop" or "returned"
  ctxDone,   \* the session context is cancelled
  conn,      \* the WebSocket: "open" or "gone"
  shown,     \* cards the browser has received
  clicks,    \* clicks[c]: decisions sent from card c
  sent,      \* statements handed to the database
  home,      \* home[c]: the database the session of that statement was in
  dbState,   \* dbState[c]: "idle", "running", "applied" or "refused"
  effects,   \* effects[c]: how often the statement of c took effect
  sessionDBs,\* databases the pooled sessions of this connection are in
  approved,  \* history: proposals the user pressed Execute on
  seenOpen   \* history: gates seen open since the current proposal was accepted

policyVars == <<master, granted>>
orchVars == <<pc, turns, cur, queue, verdict>>
wsVars == <<reader, inbox, handler, ctxDone, conn>>
cardVars == <<shown, clicks, approved>>
dbVars == <<sent, home, dbState, effects, sessionDBs>>
vars == <<policyVars, audit, input, orchVars, pending, chan, wsVars, events,
          cardVars, dbVars, seenOpen>>

----------------------------------------------------------------------------
\* Pure parts

EqualFold(a, b) == a = b \/ (a # NoName /\ b # NoName /\ Fold[a] = Fold[b])

FlagOf(op) == CASE op = "INSERT" -> "insert"
                [] op = "UPDATE" -> "update"
                [] op \in {"DELETE", "TRUNCATE"} -> "delete"
                [] op = "DDL" -> "ddl"

TargetDB(in) == IF in.sql.db # NoName THEN in.sql.db
                ELSE IF in.db # NoName THEN in.db ELSE PinnedDB

\* Steps 1 to 5b of handleProposeWrite: is the proposal well formed, does the
\* SQL do what was declared, and is it inside the scope of this chat?
WellFormed(in) ==
  /\ in.db # NoName /\ in.table # NoName
  /\ in.sql.parsed /\ ~in.sql.multi
  /\ in.op \in Ops /\ in.sql.op = in.op
  /\ in.sql.table # NoName /\ TargetDB(in) # NoName
  /\ EqualFold(TargetDB(in), in.db) /\ EqualFold(in.sql.table, in.table)
  /\ PinnedDB # NoName => EqualFold(TargetDB(in), PinnedDB)

RowOpen(in) == <<in.db, in.table, FlagOf(in.op)>> \in granted

\* The gates that are open now for what the SQL of in really does.
OpenGates(in, m, g) ==
  {x \in {"master", "row"} :
     IF x = "master" THEN m
     ELSE \E row \in g : /\ EqualFold(row[1], TargetDB(in))
                         /\ EqualFold(row[2], in.sql.table)
                         /\ row[3] = FlagOf(in.sql.op)}

----------------------------------------------------------------------------
Init ==
  /\ master \in BOOLEAN
  /\ granted = GrantedAtStart
  /\ audit = [c \in Calls |-> "none"]
  /\ input = [c \in Calls |-> NoCall]
  /\ pc = "llm" /\ turns = 0 /\ cur = NoCall /\ queue = {} /\ verdict = "none"
  /\ pending = {}
  /\ chan = [c \in Calls |-> <<>>]
  /\ reader = [at |-> "read", id |-> NoCall, accept |-> FALSE]
  /\ inbox = <<>> /\ events = <<>>
  /\ handler = "loop" /\ ctxDone = FALSE /\ conn = "open"
  /\ shown = {} /\ clicks = [c \in Calls |-> 0] /\ approved = {}
  /\ sent = {} /\ home = [c \in Calls |-> NoName]
  /\ dbState = [c \in Calls |-> "idle"] /\ effects = [c \in Calls |-> 0]
  /\ sessionDBs = {DSNDefault}
  /\ seenOpen = {}

----------------------------------------------------------------------------
(***************************************************************************)
(* The orchestrator: the stream of the LLM's reply.  A send on a full      *)
(* event channel blocks, whatever has become of the handler.               *)
(***************************************************************************)
Emit(e) == /\ Len(events) < EventCap
           /\ events' = Append(events, e)

LLMText == /\ pc = "llm"
           /\ Emit("text")
           /\ UNCHANGED <<policyVars, audit, input, orchVars, pending, chan, wsVars,
                          cardVars, dbVars, seenOpen>>

LLMToolUse(c, in) ==
  /\ pc = "llm"
  /\ input[c] = NoCall
  /\ Emit("tool_use")
  /\ input' = [input EXCEPT ![c] = in]
  /\ queue' = queue \cup {c}
  /\ UNCHANGED <<policyVars, audit, pc, turns, cur, verdict, pending, chan, wsVars,
                 cardVars, dbVars, seenOpen>>

\* The stream ends: without tool calls the turn is over.
LLMEnd == /\ pc = "llm"
          /\ pc' = IF queue = {} THEN "finishDone" ELSE "tools"
          /\ UNCHANGED <<policyVars, audit, input, turns, cur, queue, verdict, pending, chan,
                         wsVars, events, cardVars, dbVars, seenOpen>>

\* Stream returns an error, or an error event arrives: tool calls are dropped.
LLMError == /\ pc = "llm"
            /\ pc' = "finishError"
            /\ queue' = {}
            /\ UNCHANGED <<policyVars, audit, input, turns, cur, verdict, pending, chan,
                           wsVars, events, cardVars, dbVars, seenOpen>>

NextTurn == /\ pc = "tools"
            /\ queue = {}
            /\ turns' = turns + 1
            /\ pc' = IF turns + 1 < MaxTurns THEN "llm" ELSE "finishError"
            /\ UNCHANGED <<policyVars, audit, input, cur, queue, verdict, pending, chan,
                           wsVars, events, cardVars, dbVars, seenOpen>>

\* The last event, and close(out).
Finish == /\ pc \in {"finishDone", "finishError"}
          /\ Emit(IF pc = "finishDone" THEN "done" ELSE "error")
          /\ pc' = "returned"
          /\ UNCHANGED <<policyVars, audit, input, turns, cur, queue, verdict, pending, chan,
                         wsVars, cardVars, dbVars, seenOpen>>

ToolResult == /\ pc = "result"
              /\ Emit("tool_result")
              /\ cur' = NoCall
              /\ verdict' = "none"
              /\ pc' = "tools"
              /\ UNCHANGED <<policyVars, audit, input, turns, queue, pending, chan, wsVars,
                             cardVars, dbVars, seenOpen>>

(***************************************************************************)
(* The orchestrator: handleProposeWrite.  The calls of one reply run one   *)
(* after another; their identities are interchangeable, so the order is a  *)
(* choice.                                                                 *)
(***************************************************************************)
StartTool(c) ==
  /\ pc = "tools"
  /\ c \in queue
  /\ queue' = queue \ {c}
  /\ cur' = c
  /\ pc' = IF WellFormed(input[c]) THEN "checkMaster" ELSE "result"
  /\ UNCHANGED <<policyVars, audit, input, turns, verdict, pending, chan, wsVars, events,
                 cardVars, dbVars, seenOpen>>

\* WriteAIAudit and UpdateAIAuditStatus; the result of the latter, and of the
\* former for a denied proposal, is ignored.
Audit(c, status) == \/ audit' = [audit EXCEPT ![c] = status]
                    \/ StoreMayFail /\ UNCHANGED audit

\* policy.Check reads the master switch and the row one after the other.
CheckMaster ==
  /\ pc = "checkMaster"
  /\ IF master THEN pc' = "checkRow" /\ UNCHANGED audit
               ELSE pc' = "result" /\ Audit(cur, "denied")
  /\ UNCHANGED <<policyVars, input, turns, cur, queue, verdict, pending, chan, wsVars,
                 events, cardVars, dbVars, seenOpen>>

CheckRow ==
  /\ pc = "checkRow"
  /\ IF RowOpen(input[cur]) THEN pc' = "record" /\ UNCHANGED audit
                            ELSE pc' = "result" /\ Audit(cur, "denied")
  /\ UNCHANGED <<policyVars, input, turns, cur, queue, verdict, pending, chan, wsVars,
                 events, cardVars, dbVars, seenOpen>>

\* Mutant: goes on without a row when the audit table cannot be written.
MutRecordAnyway ==
  /\ pc = "record"
  /\ \/ audit' = [audit EXCEPT ![cur] = "proposed"]
     \/ StoreMayFail /\ UNCHANGED audit
  /\ pc' = "register"
  /\ UNCHANGED <<policyVars, input, turns, cur, queue, verdict, pending, chan, wsVars,
                 events, cardVars, dbVars, seenOpen>>

\* No proposal is shown that is not on record (audit_unavailable otherwise).
RecordProposal ==
  /\ pc = "record"
  /\ \/ /\ audit' = [audit EXCEPT ![cur] = "proposed"]
        /\ pc' = "register"
     \/ /\ StoreMayFail
        /\ UNCHANGED audit
        /\ pc' = "result"
  /\ UNCHANGED <<policyVars, input, turns, cur, queue, verdict, pending, chan, wsVars,
                 events, cardVars, dbVars, seenOpen>>

Register == /\ pc = "register"
            /\ pending' = pending \cup {cur}
            /\ pc' = "card"
            /\ UNCHANGED <<policyVars, audit, input, turns, cur, queue, verdict, chan, wsVars,
                           events, cardVars, dbVars, seenOpen>>

\* A write on the socket fails once the context is done or the socket is known
\* to be closed; before the reader notices, it may also vanish in a buffer.
MayWrite == conn = "open" /\ ~ctxDone
MayLose == conn = "gone" /\ ~ctxDone /\ reader.at # "returned"

ShowCard ==
  /\ pc = "card"
  /\ \/ /\ MayWrite
        /\ shown' = shown \cup {cur}
        /\ pc' = "select"
        /\ UNCHANGED verdict
     \/ /\ MayLose
        /\ pc' = "select"
        /\ UNCHANGED <<shown, verdict>>
     \/ /\ ~MayWrite
        /\ pc' = "leave"
        /\ verdict' = "cancelled"
        /\ UNCHANGED shown
  /\ UNCHANGED <<policyVars, audit, input, turns, cur, queue, pending, chan, wsVars, events,
                 clicks, approved, dbVars, seenOpen>>

\* The select of Propose: a decision and a cancelled context race.
TakeDecision ==
  /\ pc = "select"
  /\ chan[cur] # <<>>
  /\ verdict' = IF Head(chan[cur]) THEN "accepted" ELSE "cancelled"
  /\ chan' = [chan EXCEPT ![cur] = Tail(@)]
  /\ seenOpen' = OpenGates(input[cur], master, granted)
  /\ pc' = "leave"
  /\ UNCHANGED <<policyVars, audit, input, turns, cur, queue, pending, wsVars, events,
                 cardVars, dbVars>>

GiveUp == /\ pc = "select"
          /\ ctxDone
          /\ verdict' = "cancelled"
          /\ pc' = "leave"
          /\ UNCHANGED <<policyVars, audit, input, turns, cur, queue, pending, chan, wsVars,
                         events, cardVars, dbVars, seenOpen>>

LeaveTo(next) ==
  /\ pc = "leave"
  /\ pending' = pending \ {cur}
  /\ pc' = next
  /\ UNCHANGED <<policyVars, audit, input, turns, cur, queue, verdict, chan, wsVars,
                 events, cardVars, dbVars, seenOpen>>

\* Mutant: any answer of the card counts as consent.
MutLeaveUnconditionally == LeaveTo("recheckMaster")
\* Mutant: an accepted proposal runs without a second look at the policy.
MutLeaveNoRecheck == LeaveTo(IF verdict = "accepted" THEN "execute" ELSE "settle")

\* The deferred delete of the channel's key, and what Propose's answer leads to.
Leave == LeaveTo(IF verdict = "accepted" THEN "recheckMaster" ELSE "settle")

RecheckMaster ==
  /\ pc = "recheckMaster"
  /\ IF master THEN pc' = "recheckRow" /\ UNCHANGED verdict
               ELSE pc' = "settle" /\ verdict' = "denied"
  /\ UNCHANGED <<policyVars, audit, input, turns, cur, queue, pending, chan, wsVars, events,
                 cardVars, dbVars, seenOpen>>

RecheckRow ==
  /\ pc = "recheckRow"
  /\ IF RowOpen(input[cur]) THEN pc' = "execute" /\ UNCHANGED verdict
                            ELSE pc' = "settle" /\ verdict' = "denied"
  /\ UNCHANGED <<policyVars, audit, input, turns, cur, queue, pending, chan, wsVars, events,
                 cardVars, dbVars, seenOpen>>

\* exec.Run with empty RunOpts: the statement goes to any pooled session, in
\* whatever database that session is; a cancelled context or a failing
\* connection stops it before it is sent.
ExecuteIf(alive) ==
  /\ pc = "execute"
  /\ \/ /\ alive
        /\ sent' = sent \cup {cur}
        /\ dbState' = [dbState EXCEPT ![cur] = "running"]
        /\ \E d \in sessionDBs :
             home' = [home EXCEPT ![cur] = IF input[cur].sql.db # NoName
                                           THEN input[cur].sql.db ELSE d]
        /\ pc' = "await"
        /\ UNCHANGED verdict
     \/ /\ pc' = "settle"
        /\ verdict' = "failed"
        /\ UNCHANGED <<sent, dbState, home>>
  /\ UNCHANGED <<policyVars, audit, input, turns, cur, queue, pending, chan, wsVars, events,
                 cardVars, effects, sessionDBs, seenOpen>>

\* Mutant: the statement runs under a context of its own.
MutExecuteDetached == ExecuteIf(TRUE)

Execute == ExecuteIf(~ctxDone)

\* What Run returns: the answer of the database, or the end of the context.
Answer == /\ pc = "await"
          /\ \/ dbState[cur] = "applied" /\ verdict' = "executed"
             \/ (dbState[cur] = "refused" \/ ctxDone) /\ verdict' = "failed"
          /\ pc' = "settle"
          /\ UNCHANGED <<policyVars, audit, input, turns, cur, queue, pending, chan, wsVars,
                         events, cardVars, dbVars, seenOpen>>

ConnectionBreaks(next) ==
  /\ pc = "await"
  /\ verdict' = "failed"
  /\ pc' = next
  /\ UNCHANGED <<policyVars, audit, input, turns, cur, queue, pending, chan, wsVars,
                 events, cardVars, dbVars, seenOpen>>

\* Mutant: a broken connection is retried.
MutRetry == ConnectionBreaks("execute")

\* The connection to the database breaks before the answer arrives.
AnswerLost == ConnectionBreaks("settle")

\* Mutant: the row of a proposal the user turned down is left as it is.
MutSettleOnlyRuns ==
  /\ pc = "settle"
  /\ IF verdict = "cancelled" THEN UNCHANGED audit ELSE Audit(cur, verdict)
  /\ pc' = "result"
  /\ UNCHANGED <<policyVars, input, turns, cur, queue, verdict, pending, chan,
                 wsVars, events, cardVars, dbVars, seenOpen>>

SettleAudit == /\ pc = "settle"
               /\ Audit(cur, verdict)
               /\ pc' = "result"
               /\ UNCHANGED <<policyVars, input, turns, cur, queue, verdict, pending, chan,
                              wsVars, events, cardVars, dbVars, seenOpen>>

(***************************************************************************)
(* The database, and the other requests that share the connection pool.    *)
(***************************************************************************)
DBApply(c) == /\ dbState[c] = "running"
              /\ home[c] # NoName
              /\ dbState' = [dbState EXCEPT ![c] = "applied"]
              /\ effects' = [effects EXCEPT ![c] = @ + 1]
              /\ UNCHANGED <<policyVars, audit, input, orchVars, pending, chan, wsVars, events,
                             cardVars, sent, home, sessionDBs, seenOpen>>

DBRefuse(c) == /\ dbState[c] = "running"
               /\ dbState' = [dbState EXCEPT ![c] = "refused"]
               /\ UNCHANGED <<policyVars, audit, input, orchVars, pending, chan, wsVars, events,
                              cardVars, sent, home, effects, sessionDBs, seenOpen>>

\* A query tab or a read tool runs USE d and returns its session to the pool.
UseDatabase(d) == /\ sessionDBs' = sessionDBs \cup {d}
                  /\ UNCHANGED <<policyVars, audit, input, orchVars, pending, chan, wsVars,
                                 events, cardVars, sent, home, dbState, effects, seenOpen>>

(***************************************************************************)
(* The handler's event loop and the reader goroutine.                      *)
(***************************************************************************)
\* Returning runs the deferred cancel() and CloseNow().
HandlerReturns == /\ handler' = "returned"
                  /\ ctxDone' = TRUE
                  /\ conn' = "gone"

Forward ==
  /\ handler = "loop"
  /\ events # <<>>
  /\ events' = Tail(events)
  /\ \/ /\ MayWrite \/ MayLose
        /\ IF Head(events) \in {"done", "error"}
             THEN HandlerReturns
             ELSE UNCHANGED <<handler, ctxDone, conn>>
     \/ ~MayWrite /\ HandlerReturns
  /\ UNCHANGED <<policyVars, audit, input, orchVars, pending, chan, reader, inbox, cardVars,
                 dbVars, seenOpen>>

\* A failed read ends the goroutine, and nothing else.  What had arrived before
\* the peer went away may still be read.
ReadFails == /\ reader.at = "read"
             /\ ctxDone \/ conn = "gone"
             /\ reader' = [reader EXCEPT !.at = "returned"]
             /\ conn' = "gone"
             /\ UNCHANGED <<policyVars, audit, input, orchVars, pending, chan, inbox, handler,
                            ctxDone, events, cardVars, dbVars, seenOpen>>

\* An answer to a proposal that is not pending is dropped.
ReadDecision ==
  /\ reader.at = "read" /\ ~ctxDone
  /\ inbox # <<>> /\ Head(inbox).type = "execute_write"
  /\ inbox' = Tail(inbox)
  /\ reader' = IF Head(inbox).id \in pending
               THEN [at |-> "send", id |-> Head(inbox).id, accept |-> Head(inbox).accept]
               ELSE reader
  /\ UNCHANGED <<policyVars, audit, input, orchVars, pending, chan, handler, ctxDone, conn,
                 events, cardVars, dbVars, seenOpen>>

DeliverIf(room, next) ==
  /\ reader.at = "send"
  /\ room
  /\ chan' = [chan EXCEPT ![reader.id] = Append(@, reader.accept)]
  /\ reader' = [reader EXCEPT !.at = next]
  /\ UNCHANGED <<policyVars, audit, input, orchVars, pending, inbox, handler, ctxDone, conn,
                 events, cardVars, dbVars, seenOpen>>

\* Mutant: decisions are kept in an unbounded queue.
MutDeliverAlways == DeliverIf(TRUE, "read")
\* Mutant: the reader takes one decision and no more.
MutDeliverOnce == DeliverIf(chan[reader.id] = <<>>, "returned")

\* The send is outside the lock and blocks while the buffer is full.
DeliverDecision == DeliverIf(chan[reader.id] = <<>>, "read")

ReadCancel ==
  /\ reader.at = "read" /\ ~ctxDone
  /\ inbox # <<>> /\ Head(inbox).type = "cancel"
  /\ inbox' = Tail(inbox)
  /\ ctxDone' = TRUE
  /\ reader' = [reader EXCEPT !.at = "returned"]
  /\ UNCHANGED <<policyVars, audit, input, orchVars, pending, chan, handler, conn, events,
                 cardVars, dbVars, seenOpen>>

(***************************************************************************)
(* The user: answers cards, cancels, leaves, and edits the write policy.   *)
(***************************************************************************)
Click(c, accept) ==
  /\ conn = "open"
  /\ c \in shown
  /\ clicks[c] < MaxClicks
  /\ clicks' = [clicks EXCEPT ![c] = @ + 1]
  /\ approved' = IF accept THEN approved \cup {c} ELSE approved
  /\ inbox' = Append(inbox, [type |-> "execute_write", id |-> c, accept |-> accept])
  /\ UNCHANGED <<policyVars, audit, input, orchVars, pending, chan, reader, handler, ctxDone,
                 conn, events, shown, dbVars, seenOpen>>

CancelSent == \E i \in DOMAIN inbox : inbox[i].type = "cancel"

Cancel == /\ conn = "open"
          /\ ~CancelSent
          /\ inbox' = Append(inbox, [type |-> "cancel", id |-> NoCall, accept |-> FALSE])
          /\ UNCHANGED <<policyVars, audit, input, orchVars, pending, chan, reader, handler,
                         ctxDone, conn, events, cardVars, dbVars, seenOpen>>

Disconnect == /\ conn = "open"
              /\ conn' = "gone"
              /\ UNCHANGED <<policyVars, audit, input, orchVars, pending, chan, reader, inbox,
                             handler, ctxDone, events, cardVars, dbVars, seenOpen>>

NoteOpenGates == seenOpen' = IF verdict = "accepted"
                             THEN seenOpen \cup OpenGates(input[cur], master', granted')
                             ELSE seenOpen

SetMaster(on) == /\ master' = on
                 /\ UNCHANGED granted
                 /\ NoteOpenGates
                 /\ UNCHANGED <<audit, input, orchVars, pending, chan, wsVars, events, cardVars,
                                dbVars>>

\* One row, or several of one database in one transaction; a row that is deleted
\* leaves no flag.
SetPolicy(tables, flags) ==
  /\ tables # {}
  /\ \A s, t \in tables : s[1] = t[1]
  /\ granted' = {g \in granted : <<g[1], g[2]>> \notin tables}
                  \cup {<<t[1], t[2], f>> : t \in tables, f \in flags}
  /\ UNCHANGED master
  /\ NoteOpenGates
  /\ UNCHANGED <<audit, input, orchVars, pending, chan, wsVars, events, cardVars, dbVars>>

\* The process dies: goroutines and channels are gone, rows and the database's
\* statements are not.
Crash == /\ MayCrash
         /\ pc # "crashed"
         /\ pc' = "crashed"
         /\ pending' = {} /\ events' = <<>>
         /\ reader' = [reader EXCEPT !.at = "returned"]
         /\ HandlerReturns
         /\ UNCHANGED <<policyVars, audit, input, turns, cur, queue, verdict, chan, inbox,
                        cardVars, dbVars, seenOpen>>

----------------------------------------------------------------------------
Orchestrator ==
  \/ LLMEnd \/ LLMError \/ NextTurn \/ Finish \/ ToolResult
  \/ \E c \in queue : StartTool(c)
  \/ CheckMaster \/ CheckRow \/ RecordProposal \/ Register \/ ShowCard
  \/ TakeDecision \/ GiveUp \/ Leave
  \/ RecheckMaster \/ RecheckRow \/ Execute \/ Answer \/ SettleAudit

LLM == LLMText \/ \E c \in Calls, in \in Inputs : LLMToolUse(c, in)
Database == \E c \in Calls : DBApply(c) \/ DBRefuse(c)
Reader == ReadFails \/ ReadDecision \/ DeliverDecision \/ ReadCancel
User == \/ \E c \in Calls, accept \in BOOLEAN : Click(c, accept)
        \/ Cancel \/ Disconnect
        \/ \E on \in BOOLEAN : SetMaster(on)
        \/ \E tables \in SUBSET PolicyTables, flags \in SUBSET PolicyFlags :
             SetPolicy(tables, flags)
Network == AnswerLost \/ \E d \in UsedDBs : UseDatabase(d)

Next == Orchestrator \/ LLM \/ Database \/ Forward \/ Reader \/ User \/ Network \/ Crash

Spec == Init /\ [][Next]_vars

(***************************************************************************)
(* The program's own goroutines keep running, streams of LLM replies end,  *)
(* and the database answers; users and other requests owe nothing.         *)
(***************************************************************************)
Fairness == /\ WF_vars(Orchestrator)
            /\ WF_vars(Forward)
            /\ WF_vars(Reader)
            /\ WF_vars(Database)
FairSpec == Spec /\ Fairness

----------------------------------------------------------------------------
(***************************************************************************)
(* Properties.                                                             *)
(***************************************************************************)
ReaderState == [at : {"read", "send", "returned"}, id : Calls \cup {NoCall}, accept : BOOLEAN]
Message == [type : {"execute_write", "cancel"}, id : Calls \cup {NoCall}, accept : BOOLEAN]
PCs == {"llm", "tools", "checkMaster", "checkRow", "record", "register", "card", "select",
        "leave", "recheckMaster", "recheckRow", "execute", "await", "settle", "result",
        "finishDone", "finishError", "returned", "crashed"}
InProposal == PCs \ {"llm", "tools", "finishDone", "finishError", "returned", "crashed"}

StoreTypes ==
  /\ master \in BOOLEAN
  /\ granted \subseteq Names \X Names \X Flags
  /\ audit \in [Calls -> {"none", "proposed", "executed", "failed", "cancelled", "denied"}]
  /\ input \in [Calls -> Inputs \cup {NoCall}]

OrchTypes ==
  /\ pc \in PCs /\ turns \in 0..MaxTurns
  /\ turns = MaxTurns => pc \in PCs \ ({"llm", "tools"} \cup InProposal)
  /\ cur \in Calls \cup {NoCall} /\ queue \subseteq Calls
  /\ \A c \in queue : input[c] # NoCall
  /\ pc \in InProposal => cur \in Calls /\ input[cur] # NoCall
  /\ verdict \in {"none", "accepted", "executed", "failed", "cancelled", "denied"}
  /\ pc = "leave" => verdict \in {"accepted", "cancelled"}
  /\ pc = "settle" => verdict \in {"executed", "failed", "cancelled", "denied"}
  /\ pending \subseteq Calls

SocketTypes ==
  /\ chan \in [Calls -> Seq(BOOLEAN)] /\ \A c \in Calls : Len(chan[c]) <= 1
  /\ reader \in ReaderState /\ inbox \in Seq(Message)
  /\ events \in Seq({"text", "tool_use", "tool_result", "done", "error"})
  /\ Len(events) <= EventCap
  /\ handler \in {"loop", "returned"} /\ ctxDone \in BOOLEAN /\ conn \in {"open", "gone"}

StatementTypes ==
  /\ shown \subseteq Calls /\ clicks \in [Calls -> Nat] /\ approved \subseteq Calls
  /\ sent \subseteq Calls /\ home \in [Calls -> Names \cup {NoName}]
  /\ dbState \in [Calls -> {"idle", "running", "applied", "refused"}]
  /\ effects \in [Calls -> Nat]
  /\ sessionDBs \subseteq Names \cup {NoName}
  /\ seenOpen \subseteq {"master", "row"}

\* Every variable has its type; in particular the decision channel and the
\* event channel never hold more than their capacity.
TypeOK == StoreTypes /\ OrchTypes /\ SocketTypes /\ StatementTypes

\* Goal of the approval flow: the database is handed a statement only if the
\* user pressed Execute on the card of that very proposal.  The decision passes
\* through the socket, the reader and a channel; a decision that reached the
\* wrong proposal, or a rejection taken for an approval, would break this.
NothingRunsUnapproved == sent \subseteq approved

\* The audit table accounts for the database: a statement that was sent, and so
\* may run or have run, has a row that does not deny it; "executed" rows stand
\* for exactly one effect; and no statement takes effect twice.  It must hold
\* through failing audit writes, lost answers and a crash of the server.
AuditTruthful ==
  \A c \in Calls :
    /\ c \in sent => audit[c] \in {"proposed", "executed", "failed"}
    /\ audit[c] = "executed" => effects[c] = 1
    /\ effects[c] <= 1

\* A permission that is taken away while the card waits keeps the statement from
\* running: it is only sent if the master switch, and a row for what the SQL
\* targets, were each seen on after the user's decision arrived.  (The two are
\* read one after the other, so they need not have been on at the same time.)
RevokedNeverRuns == [][sent' # sent => seenOpen = {"master", "row"}]_vars

\* Once the session's context is cancelled no further statement is sent, also
\* not for the remaining calls of the same reply.
CancelStopsWrites == [][ctxDone => sent' = sent]_vars

\* The session implements the promise of WriteApproval.
Approval == INSTANCE WriteApproval WITH status <- audit, consent <- approved
ImplementsApproval == Approval!ASpec

\* A decision that reached the waiting proposal settles its audit row, and so does
\* cancelling the session, whatever was under way.
RowsSettle ==
  \A c \in Calls :
    /\ (pc = "select" /\ cur = c /\ chan[c] # <<>>) ~> audit[c] # "proposed"
    /\ (ctxDone /\ audit[c] = "proposed") ~> audit[c] # "proposed"

Waiting(c) == cur = c /\ pc \in {"card", "select"}

\* A decision the browser has sent for the card that is waiting is heard, unless
\* the connection breaks: for the first card of the session and for later ones.
DecisionHeard ==
  \A c \in Calls : (Waiting(c) /\ \E i \in DOMAIN inbox : inbox[i].id = c)
                     ~> (~Waiting(c) \/ conn = "gone")

\* Design document, edge case 7: a disconnect cancels all pending decisions and
\* their audit rows end as "cancelled".
DisconnectCancels ==
  \A c \in Calls : (conn = "gone" /\ audit[c] = "proposed") ~> audit[c] # "proposed"

----------------------------------------------------------------------------
(***************************************************************************)
(* The inductive invariant behind the safety properties.                   *)
(***************************************************************************)
BeforeRecord == {"checkMaster", "checkRow", "record"}
OnCard == {"register", "card", "select"}
AfterConsent == {"recheckMaster", "recheckRow", "execute"}
OnRecord == OnCard \cup {"leave", "await", "settle"} \cup AfterConsent

\* A call is fresh, then queued, then current, and has no row before that.
CallOrder ==
  /\ \A c \in Calls : input[c] = NoCall \/ c \in queue =>
       audit[c] = "none" /\ c \notin shown \cup sent
  /\ cur \notin queue
  /\ pc \in {"llm", "tools"} => cur = NoCall
  /\ pc \in BeforeRecord \cup OnRecord => WellFormed(input[cur])
  /\ pc \in BeforeRecord => audit[cur] = "none" /\ cur \notin shown \cup sent
  /\ pc \in OnRecord => audit[cur] = "proposed"
  /\ pc = "register" => cur \notin shown
  /\ \A c \in shown : audit[c] # "none"

\* An approval on its way from the card to the orchestrator is one the user gave.
ApprovalsAreReal ==
  /\ \A i \in DOMAIN inbox : inbox[i].type = "execute_write" =>
       inbox[i].id \in Calls /\ (inbox[i].accept => inbox[i].id \in approved)
  /\ reader.at = "send" => reader.id \in Calls /\ (reader.accept => reader.id \in approved)
  /\ \A c \in Calls : chan[c] # <<>> /\ Head(chan[c]) => c \in approved
  /\ pc \in InProposal /\ verdict = "accepted" => cur \in approved

\* What the orchestrator knows of the current call at each of its steps.
VerdictByStep ==
  /\ pc \in {"llm", "tools"} \cup BeforeRecord \cup OnCard => verdict = "none"
  /\ pc \in AfterConsent \cup {"await"} => verdict = "accepted"
  /\ pc = "settle" =>
       /\ verdict = "executed" => effects[cur] = 1
       /\ verdict \in {"cancelled", "denied"} => cur \notin sent
  /\ pc \in OnCard \cup AfterConsent \cup {"leave"} => cur \notin sent
  /\ pc = "await" => cur \in sent

\* The database's side of a statement.
StatementState ==
  \A c \in Calls :
    /\ c \in sent <=> dbState[c] # "idle"
    /\ effects[c] = IF dbState[c] = "applied" THEN 1 ELSE 0

\* The gates seen since the decision include those that are open now.
GatesSeen ==
  /\ pc \in AfterConsent \cup {"leave"} /\ verdict = "accepted" =>
       OpenGates(input[cur], master, granted) \subseteq seenOpen
  /\ pc = "recheckRow" => "master" \in seenOpen
  /\ pc = "execute" => seenOpen = {"master", "row"}

IInv == /\ TypeOK
        /\ CallOrder
        /\ ApprovalsAreReal
        /\ VerdictByStep
        /\ StatementState
        /\ GatesSeen
        /\ NothingRunsUnapproved
        /\ AuditTruthful
=============================================================================
