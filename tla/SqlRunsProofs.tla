--------------------------- MODULE SqlRunsProofs ---------------------------
(***************************************************************************)
(* Theorems about SqlRuns, for any number of runs and any statements: type *)
(* correctness, that the list of active queries and the history tell the   *)
(* truth, that pruning keeps the newest records, that only a deadline      *)
(* makes a write take effect twice, and that the rows shown are whole.     *)
(***************************************************************************)
EXTENDS SqlRuns, TLAPS, SequenceTheorems

(***************************************************************************)
(* The inductive invariant, one run at a time.                             *)
(***************************************************************************)
Executing == {"run", "rows", "flush", "insert", "prune", "reply", "unregister"}
Settled   == {"cursor", "done", "refused", "stopped"}
NoExec(r) == \A i \in DOMAIN inbox[r] : inbox[r][i] # "exec"
ExecFirst(r) == \A i \in DOMAIN inbox[r] : i > 1 => inbox[r][i] # "exec"
Logged(t) == \E i \in DOMAIN log : log[i].task = t
Once(t)   == IF db[t] \in Settled THEN 1 ELSE 0

\* A run starts its stream after REST's deadline, and has one socket.
Phases(r) ==
  /\ ui[r] # "idle" => stmt[r] # None
  /\ ui[r] = "idle" => pc[Rest(r)] = "idle"
  /\ ui[r] \in {"idle", "posting"} => net[r] = "none"
  /\ ui[r] \in {"streaming", "cancelled", "closing"} => net[r] # "none"
  /\ net[r] \in {"none", "connecting"} => pc[Ws(r)] = "idle"
  /\ net[r] # "none" => pc[Rest(r)] = "done" /\ outcome[Rest(r)] = "timeout"

\* The frame that starts the execution is read once: it is the first one.
ExecOnce(r) ==
  /\ ExecFirst(r)
  /\ ~NoExec(r) => pc[Ws(r)] \in {"read", "gone"} /\ db[Ws(r)] = "none"

\* Where the database stands for each place of the handlers.
Stands(r) ==
  /\ pc[Rest(r)] \in {"idle", "resolve"} => db[Rest(r)] = "none"
  /\ pc[Ws(r)] \in {"idle", "resolve"} => db[Ws(r)] = "none"
  /\ db[Ws(r)] \in {"running", "cursor"} => pc[Ws(r)] \in {"run", "rows"}
  /\ pc[Ws(r)] = "flush" => db[Ws(r)] = "done"
  /\ pc[Ws(r)] = "rows" => db[Ws(r)] = "cursor"
  /\ r \in active <=> pc[Ws(r)] \in Executing

\* An execution is settled before it counts.
Counted(r) == applied[r] <= Once(Rest(r)) + Once(Ws(r))

\* The record of a task is made once, after its outcome.
Recorded(t) ==
  /\ Logged(t) => pc[t] \in {"prune", "reply", "unregister", "read", "gone", "done"}
  /\ pc[t] = "insert" /\ outcome[t] = "ok" => db[t] = "done"

RecordedRun(r) ==
  /\ Recorded(Rest(r)) /\ Recorded(Ws(r))
  /\ Logged(Ws(r)) => NoExec(r)

\* The counters of the row loop.
Counters(r) == st[r].total = st[r].offset + st[r].batch

RunInv(r) ==
  /\ Phases(r) /\ ExecOnce(r) /\ Stands(r) /\ Counted(r) /\ RecordedRun(r) /\ Counters(r)

Inv == TypeOK /\ (\A r \in Runs : RunInv(r)) /\ HistoryTruthful

(***************************************************************************)
(* What the other runs see of a step.                                      *)
(***************************************************************************)
SameRun(r) ==
  /\ stmt'[r] = stmt[r] /\ ui'[r] = ui[r] /\ net'[r] = net[r] /\ inbox'[r] = inbox[r]
  /\ st'[r] = st[r] /\ applied'[r] = applied[r]
  /\ pc'[Rest(r)] = pc[Rest(r)] /\ pc'[Ws(r)] = pc[Ws(r)]
  /\ db'[Rest(r)] = db[Rest(r)] /\ db'[Ws(r)] = db[Ws(r)]
  /\ outcome'[Rest(r)] = outcome[Rest(r)] /\ outcome'[Ws(r)] = outcome[Ws(r)]
  /\ r \in active' <=> r \in active

SameRecords(r) ==
  /\ Logged(Rest(r))' <=> Logged(Rest(r))
  /\ Logged(Ws(r))' <=> Logged(Ws(r))

\* Tasks are named by their run and their path.
LEMMA RestWs ==
  /\ \A r, q \in Runs : Rest(r) = Rest(q) <=> r = q
  /\ \A r, q \in Runs : Ws(r) = Ws(q) <=> r = q
  /\ \A r, q \in Runs : Rest(r) # Ws(q)
  /\ \A r \in Runs : Rest(r) \in Tasks /\ Ws(r) \in Tasks
  BY DEF Rest, Ws, Tasks

\* Every task is one of the two executions of a run.
LEMMA TaskOf == \A t \in Tasks : \E r \in Runs : t = Rest(r) \/ t = Ws(r)
  BY DEF Rest, Ws, Tasks

USE DEF vars, page, sock, server, target, records, Fault
USE DEF EditorTypes, SocketTypes, HandlerTypes, LocalTypes, TargetTypes, RecordTypes

\* What a run's part of the invariant depends on.
LEMMA SameRunInv == ASSUME NEW r \in Runs, RunInv(r), SameRun(r), SameRecords(r) PROVE RunInv(r)'
  BY DEF RunInv, SameRun, SameRecords, Phases, ExecOnce, ExecFirst, NoExec, Stands, Counted, Once,
         RecordedRun, Recorded, Counters

\* What is recorded depends on the log alone.
LEMMA SameLog == ASSUME log' = log PROVE \A t : Logged(t)' <=> Logged(t)
  BY DEF Logged

\* A run's own steps write no record.
LEMMA RunsRecordNothing ==
  ASSUME NEW q \in Runs,
         \/ Press(q) \/ PostFails(q) \/ Cancel(q) \/ Browser(q) \/ Connect(q)
         \/ RestHandler(q) \/ WsHandler(q) \/ RowLoop(q) \/ RowsFail(q)
  PROVE  history' = history /\ log' = log
  BY DEF Press, PostFails, Cancel, Browser, Replied, OnEvent, OnClose, OnCloseAs,
         Connect, Open, Drop, RestHandler, RestStart, RestUnresolved, RestAnswered,
         RestAnsweredAs, RestGivesUp, RestUnheard, WsHandler, ReadExec, ReadCancel,
         ReadFails, WsStart, WsUnresolved, WsAnswered, Columns, Flush, WsReply,
         Unregister, UnregisterTo, RowLoop, NextRow, EndRows, RowsFail

\* Only an insert writes the log, and only pruning the table besides.
LEMMA RecordsSteps ==
  ASSUME [Next]_vars
  PROVE  UNCHANGED <<history, log>> \/ \E t \in Tasks : Insert(t) \/ Prune(t)
  <1>1. ASSUME NEW t \in Tasks, Database(t) \/ DBOrphan(t)
        PROVE  UNCHANGED <<history, log>>
    BY <1>1 DEF Database, DBAnswer, DBRefuse, DBOrphan
  <1>. QED
    BY <1>1, RunsRecordNothing DEF Next, Finished, Recording

\* What is left to read depends on the run's inbox alone.
LEMMA SameInbox ==
  ASSUME NEW r, inbox'[r] = inbox[r]
  PROVE  (NoExec(r)' <=> NoExec(r)) /\ (ExecFirst(r)' <=> ExecFirst(r))
  BY DEF NoExec, ExecFirst

\* A cancel behind the other frames does not start an execution.
LEMMA CancelSent ==
  ASSUME NEW r, inbox[r] \in Seq({"exec", "cancel"}), inbox'[r] = Append(inbox[r], "cancel")
  PROVE  (NoExec(r)' <=> NoExec(r)) /\ (ExecFirst(r) => ExecFirst(r)')
  BY DEF NoExec, ExecFirst

\* When the first frame is read, no exec is left.
LEMMA FrameRead ==
  ASSUME NEW r, inbox[r] \in Seq({"exec", "cancel"}), inbox[r] # <<>>, ExecFirst(r),
         inbox'[r] = Tail(inbox[r])
  PROVE  NoExec(r)' /\ ExecFirst(r)'
  <1>1. \A i \in DOMAIN Tail(inbox[r]) :
          i \in Nat /\ i > 0 /\ i + 1 \in DOMAIN inbox[r] /\ Tail(inbox[r])[i] = inbox[r][i + 1]
    OBVIOUS
  <1>. QED
    BY <1>1 DEF NoExec, ExecFirst

\* The exec is the first frame.
LEMMA ExecSent == ASSUME NEW r, inbox'[r] = <<"exec">> PROVE ExecFirst(r)'
  BY DEF ExecFirst

\* What the variables are functions of.
LEMMA Domains ==
  ASSUME TypeOK
  PROVE  /\ DOMAIN pc = Tasks /\ DOMAIN db = Tasks /\ DOMAIN outcome = Tasks
         /\ DOMAIN stmt = Runs /\ DOMAIN ui = Runs /\ DOMAIN net = Runs /\ DOMAIN inbox = Runs
         /\ DOMAIN st = Runs /\ DOMAIN applied = Runs
  BY DEF TypeOK

\* A step of another run leaves a run alone.
LEMMA OtherRuns ==
  ASSUME TypeOK, NEW q \in Runs, NEW r \in Runs, q # r,
         \/ Press(q) \/ PostFails(q) \/ Cancel(q) \/ Browser(q) \/ Connect(q)
         \/ RestHandler(q) \/ WsHandler(q) \/ RowLoop(q) \/ RowsFail(q)
  PROVE  SameRun(r)
  <1>0. /\ Rest(q) # Rest(r) /\ Ws(q) # Ws(r) /\ Rest(q) # Ws(r) /\ Ws(q) # Rest(r)
        /\ Rest(r) \in Tasks /\ Ws(r) \in Tasks
    BY RestWs
  <1> USE <1>0, Domains DEF SameRun
  <1>1. CASE Press(q)
    BY <1>1 DEF Press
  <1>2. CASE PostFails(q)
    BY <1>2 DEF PostFails
  <1>3. CASE Cancel(q)
    BY <1>3 DEF Cancel
  <1>4. CASE Replied(q)
    BY <1>4 DEF Replied, Retried
  <1>5. CASE OnEvent(q)
    BY <1>5 DEF OnEvent
  <1>6. CASE OnClose(q)
    BY <1>6 DEF OnClose, OnCloseAs
  <1>7. CASE Open(q)
    BY <1>7 DEF Open
  <1>8. CASE Drop(q)
    BY <1>8 DEF Drop
  <1>9. CASE RestStart(q)
    BY <1>9 DEF RestStart
  <1>10. CASE RestUnresolved(q)
    BY <1>10 DEF RestUnresolved
  <1>11. CASE RestAnswered(q)
    BY <1>11 DEF RestAnswered, RestAnsweredAs
  <1>12. CASE RestGivesUp(q)
    <2>1. pc' = [pc EXCEPT ![Rest(q)] = "insert"]
      BY <1>12 DEF RestGivesUp
    <2>2. db'[Rest(r)] = db[Rest(r)] /\ db'[Ws(r)] = db[Ws(r)]
      BY <1>12 DEF RestGivesUp
    <2>3. outcome'[Rest(r)] = outcome[Rest(r)] /\ outcome'[Ws(r)] = outcome[Ws(r)]
      BY <1>12 DEF RestGivesUp
    <2>4. UNCHANGED <<stmt, ui, net, inbox, st, applied, active, log>>
      BY <1>12 DEF RestGivesUp
    <2>. QED
      BY <2>1, <2>2, <2>3, <2>4
  <1>13. CASE RestUnheard(q)
    BY <1>13 DEF RestUnheard
  <1>14. CASE ReadExec(q)
    BY <1>14 DEF ReadExec
  <1>15. CASE ReadCancel(q)
    BY <1>15 DEF ReadCancel
  <1>16. CASE ReadFails(q)
    BY <1>16 DEF ReadFails
  <1>17. CASE WsStart(q)
    BY <1>17 DEF WsStart
  <1>18. CASE WsUnresolved(q)
    BY <1>18 DEF WsUnresolved
  <1>19. CASE WsAnswered(q)
    BY <1>19 DEF WsAnswered
  <1>20. CASE Columns(q)
    <2>1. CASE StreamBroken(q)
      BY <1>20, <2>1 DEF Columns, StreamBroken
    <2>2. CASE ~StreamBroken(q)
      <3>1. pc' = [pc EXCEPT ![Ws(q)] = "rows"]
        BY <1>20, <2>2 DEF Columns
      <3>2. UNCHANGED <<stmt, ui, net, inbox, st, applied, active, log, db, outcome>>
        BY <1>20, <2>2 DEF Columns
      <3>. QED
        BY <3>1, <3>2
    <2>. QED
      BY <2>1, <2>2
  <1>21. CASE Flush(q)
    BY <1>21 DEF Flush, StreamBroken
  <1>22. CASE WsReply(q)
    BY <1>22 DEF WsReply
  <1>23. CASE Unregister(q)
    BY <1>23 DEF Unregister, UnregisterTo
  <1>24. CASE NextRow(q)
    <2>1. CASE StreamBroken(q)
      BY <1>24, <2>1 DEF NextRow, StreamBroken
    <2>2. CASE ~StreamBroken(q)
      <3>1. UNCHANGED <<stmt, ui, net, inbox, pc, applied, active, log, db, outcome>>
        BY <1>24, <2>2 DEF NextRow
      <3>2. st'[r] = st[r]
        BY <1>24, <2>2 DEF NextRow
      <3>. QED
        BY <3>1, <3>2
    <2>. QED
      BY <2>1, <2>2
  <1>25. CASE EndRows(q)
    BY <1>25 DEF EndRows, Full
  <1>26. CASE RowsFail(q)
    BY <1>26 DEF RowsFail
  <1>. QED
    BY <1>1, <1>2, <1>3, <1>4, <1>5, <1>6, <1>7, <1>8, <1>9, <1>10, <1>11, <1>12, <1>13, <1>14,
       <1>15, <1>16, <1>17, <1>18, <1>19, <1>20, <1>21, <1>22, <1>23, <1>24, <1>25, <1>26
       DEF Browser, Connect, RestHandler, WsHandler, RowLoop

\* Settling an execution leaves room for its effect.
LEMMA CountedStep ==
  ASSUME TypeOK, NEW r \in Runs, Counted(r), NEW t \in {Rest(r), Ws(r)},
         \A u \in {Rest(r), Ws(r)} : db[u] \in Settled => db'[u] \in Settled,
         \/ applied'[r] = applied[r]
         \/ /\ applied'[r] \in {applied[r], applied[r] + 1}
            /\ db[t] \notin Settled /\ db'[t] \in Settled
  PROVE  Counted(r)'
  <1> DEFINE before(u) == IF db[u] \in Settled THEN 1 ELSE 0
             after(u)  == IF db'[u] \in Settled THEN 1 ELSE 0
  <1>1. applied[r] \in Int
    BY DEF TypeOK
  <1>2. \A u \in {Rest(r), Ws(r)} :
          before(u) \in {0, 1} /\ after(u) \in {0, 1} /\ before(u) <= after(u)
    OBVIOUS
  <1>3. applied'[r] # applied[r] => before(t) = 0 /\ after(t) = 1
    OBVIOUS
  <1>4. applied[r] <= before(Rest(r)) + before(Ws(r))
    BY DEF Counted, Once
  <1>5. applied'[r] <= after(Rest(r)) + after(Ws(r))
    <2> HIDE DEF before, after
    <2>. QED
      BY <1>1, <1>2, <1>3, <1>4, RestWs
  <1>. QED
    BY <1>5 DEF Counted, Once

\* What is left to read after each step that writes or reads a frame.
LEMMA InboxSteps ==
  ASSUME TypeOK, NEW r \in Runs, ExecFirst(r)
  PROVE  /\ Cancel(r) /\ net[r] = "up" => (NoExec(r)' <=> NoExec(r)) /\ ExecFirst(r)'
         /\ Open(r) => ExecFirst(r)'
         /\ ReadExec(r) \/ ReadCancel(r) => NoExec(r)' /\ ExecFirst(r)'
         /\ ReadExec(r) => ~NoExec(r)
  <1>0. inbox[r] \in Seq({"exec", "cancel"}) /\ inbox \in [Runs -> Seq({"exec", "cancel"})]
    BY DEF TypeOK
  <1>1. ASSUME Cancel(r), net[r] = "up"
        PROVE  (NoExec(r)' <=> NoExec(r)) /\ ExecFirst(r)'
    <2>1. inbox'[r] = Append(inbox[r], "cancel")
      BY <1>0, <1>1 DEF Cancel
    <2>. QED
      BY <1>0, <2>1, CancelSent
  <1>2. ASSUME Open(r) PROVE ExecFirst(r)'
    <2>1. inbox'[r] = <<"exec">>
      BY <1>0, <1>2 DEF Open
    <2>. QED
      BY <2>1, ExecSent
  <1>3. ASSUME ReadExec(r) \/ ReadCancel(r) PROVE NoExec(r)' /\ ExecFirst(r)'
    <2>1. inbox'[r] = Tail(inbox[r]) /\ inbox[r] # <<>>
      BY <1>0, <1>3 DEF ReadExec, ReadCancel
    <2>. QED
      BY <1>0, <2>1, FrameRead
  <1>4. ASSUME ReadExec(r) PROVE ~NoExec(r)
    BY <1>0, <1>4 DEF ReadExec, NoExec
  <1>. QED
    BY <1>1, <1>2, <1>3, <1>4

\* The steps of a run keep its part of the invariant.
LEMMA OwnRun ==
  ASSUME TypeOK, NEW r \in Runs, RunInv(r),
         \/ Press(r) \/ PostFails(r) \/ Cancel(r) \/ Browser(r) \/ Connect(r)
         \/ RestHandler(r) \/ WsHandler(r) \/ RowLoop(r) \/ RowsFail(r)
  PROVE  RunInv(r)'
  <1>0. /\ Cancel(r) /\ net[r] = "up" => (NoExec(r)' <=> NoExec(r)) /\ ExecFirst(r)'
        /\ Open(r) => ExecFirst(r)'
        /\ ReadExec(r) \/ ReadCancel(r) => NoExec(r)' /\ ExecFirst(r)'
        /\ ReadExec(r) => ~NoExec(r)
    BY InboxSteps DEF RunInv, ExecOnce
  <1>a. /\ Logged(Rest(r))' <=> Logged(Rest(r))
        /\ Logged(Ws(r))' <=> Logged(Ws(r))
    BY RunsRecordNothing, SameLog
  <1>b. inbox'[r] = inbox[r] => (NoExec(r)' <=> NoExec(r)) /\ (ExecFirst(r)' <=> ExecFirst(r))
    BY SameInbox
  <1>c. /\ Rest(r) # Ws(r) /\ Rest(r) \in Tasks /\ Ws(r) \in Tasks
        /\ applied[r] \in Int /\ st[r].total \in Int /\ st[r].batch \in Int /\ st[r].offset \in Int
    BY RestWs, SizesAssumption DEF TypeOK
  <1> USE <1>a, <1>b, <1>c, Domains, NoneAssumption
      DEF RunInv, Phases, ExecOnce, Stands, Executing, Counted, Once, Settled, RecordedRun,
          Recorded, Counters
  <1>1. CASE Press(r)
    BY <1>1 DEF Press
  <1>2. CASE PostFails(r)
    BY <1>2 DEF PostFails
  <1>3. CASE Cancel(r)
    <2>1. CASE net[r] = "up"
      BY <1>3, <2>1, <1>0 DEF Cancel
    <2>2. CASE net[r] # "up"
      BY <1>3, <2>2 DEF Cancel
    <2>. QED
      BY <2>1, <2>2
  <1>4. CASE Replied(r)
    BY <1>4 DEF Replied, Retried
  <1>5. CASE OnEvent(r)
    BY <1>5 DEF OnEvent
  <1>6. CASE OnClose(r)
    BY <1>6 DEF OnClose, OnCloseAs
  <1>7. CASE Open(r)
    BY <1>7, <1>0 DEF Open
  <1>8. CASE Drop(r)
    BY <1>8 DEF Drop
  <1>9. CASE RestStart(r)
    BY <1>9 DEF RestStart
  <1>10. CASE RestUnresolved(r)
    BY <1>10 DEF RestUnresolved
  <1>11. CASE RestAnswered(r)
    BY <1>11 DEF RestAnswered, RestAnsweredAs
  <1>12. CASE RestGivesUp(r)
    <2>1. CASE db[Rest(r)] # "running"
      BY <1>12, <2>1 DEF RestGivesUp
    <2>2. CASE db[Rest(r)] = "running" /\ stmt[r].kind = "write"
      BY <1>12, <2>2 DEF RestGivesUp
    <2>3. CASE db[Rest(r)] = "running" /\ stmt[r].kind # "write"
      <3>1. db' = [db EXCEPT ![Rest(r)] = "stopped"]
        BY <1>12, <2>3 DEF RestGivesUp
      <3>2. pc' = [pc EXCEPT ![Rest(r)] = "insert"] /\ outcome'[Rest(r)] # "ok"
        BY <1>12, <2>3 DEF RestGivesUp
      <3>3. UNCHANGED <<stmt, ui, net, inbox, st, applied, active, log>>
        BY <1>12 DEF RestGivesUp
      <3>4. pc[Rest(r)] = "run" /\ pc'[Ws(r)] = pc[Ws(r)] /\ outcome'[Ws(r)] = outcome[Ws(r)]
        BY <1>12 DEF RestGivesUp
      <3>. QED
        <4>1. Phases(r)' /\ ExecOnce(r)' /\ Stands(r)' /\ Counters(r)'
          BY <2>3, <3>1, <3>2, <3>3, <3>4 DEF TypeOK
        <4>2. Counted(r)'
          <5>1. \A u \in {Rest(r), Ws(r)} : db[u] \in Settled => db'[u] \in Settled
            BY <3>1 DEF TypeOK
          <5> HIDE DEF Counted, Settled
          <5>. QED
            BY <3>3, <5>1, CountedStep
        <4>3. RecordedRun(r)'
          BY <2>3, <3>1, <3>2, <3>3, <3>4 DEF TypeOK
        <4>. QED
          BY <4>1, <4>2, <4>3
    <2>. QED
      BY <2>1, <2>2, <2>3
  <1>13. CASE RestUnheard(r)
    BY <1>13 DEF RestUnheard
  <1>14. CASE ReadExec(r)
    BY <1>14, <1>0 DEF ReadExec
  <1>15. CASE ReadCancel(r)
    BY <1>15, <1>0 DEF ReadCancel
  <1>16. CASE ReadFails(r)
    BY <1>16 DEF ReadFails
  <1>17. CASE WsStart(r)
    BY <1>17 DEF WsStart
  <1>18. CASE WsUnresolved(r)
    BY <1>18 DEF WsUnresolved
  <1>19. CASE WsAnswered(r)
    BY <1>19 DEF WsAnswered
  <1>20. CASE Columns(r)
    BY <1>20 DEF Columns, StreamBroken
  <1>21. CASE Flush(r)
    BY <1>21 DEF Flush, StreamBroken
  <1>22. CASE WsReply(r)
    BY <1>22 DEF WsReply
  <1>23. CASE Unregister(r)
    BY <1>23 DEF Unregister, UnregisterTo
  <1>24. CASE NextRow(r)
    <2>1. CASE StreamBroken(r)
      BY <1>24, <2>1 DEF NextRow, StreamBroken
    <2>2. CASE ~StreamBroken(r)
      <3>1. UNCHANGED <<stmt, ui, net, inbox, pc, db, outcome, applied, active, log>>
        BY <1>24, <2>2 DEF NextRow
      <3>2. Counters(r)'
        <4>1. CASE st' = [st EXCEPT ![r].total = @ + 1, ![r].batch = st[r].batch + 1]
          BY <4>1 DEF TypeOK
        <4>2. CASE st' = [st EXCEPT ![r].total = @ + 1, ![r].batch = 0,
                                    ![r].offset = @ + (st[r].batch + 1)]
          BY <4>2 DEF TypeOK
        <4>. QED
          BY <1>24, <2>2, <4>1, <4>2 DEF NextRow
      <3>. QED
        BY <3>1, <3>2
    <2>. QED
      BY <2>1, <2>2
  <1>25. CASE EndRows(r)
    BY <1>25 DEF EndRows, Full
  <1>26. CASE RowsFail(r)
    BY <1>26 DEF RowsFail
  <1> HIDE DEF RunInv
  <1>. QED
    BY <1>1, <1>2, <1>3, <1>4, <1>5, <1>6, <1>7, <1>8, <1>9, <1>10, <1>11, <1>12, <1>13, <1>14,
       <1>15, <1>16, <1>17, <1>18, <1>19, <1>20, <1>21, <1>22, <1>23, <1>24, <1>25, <1>26
       DEF Browser, Connect, RestHandler, WsHandler, RowLoop

\* The parts of a task.
LEMMA TaskParts == \A r \in Runs : /\ Rest(r)[1] = r /\ Rest(r)[2] = "rest"
                                   /\ Ws(r)[1] = r /\ Ws(r)[2] = "ws"
  BY DEF Rest, Ws

\* A sequence with one more element.
LEMMA Appended ==
  ASSUME NEW S, NEW s \in Seq(S), NEW e
  PROVE  /\ DOMAIN Append(s, e) = 1..(Len(s) + 1) /\ Append(s, e)[Len(s) + 1] = e
         /\ \A i \in 1..Len(s) : Append(s, e)[i] = s[i]
  OBVIOUS

\* An insert adds the record of its task and no other.
LEMMA LogGrows ==
  ASSUME TypeOK, NEW t \in Tasks, Insert(t)
  PROVE  \/ log' = log
         \/ /\ log' = Append(log, [task |-> t, ok |-> outcome[t] = "ok"])
            /\ \A u : Logged(u)' <=> Logged(u) \/ u = t
  <1>1. log \in Seq(Entries)
    BY DEF TypeOK
  <1>2. ASSUME NEW e, log' = Append(log, e)
        PROVE  \A u : Logged(u)' <=> Logged(u) \/ u = e.task
    <2>1. /\ Len(log) \in Nat /\ log'[Len(log) + 1] = e
          /\ \A i \in 1..Len(log) : log'[i] = log[i]
          /\ DOMAIN log = 1..Len(log) /\ DOMAIN log' = 1..(Len(log) + 1)
      BY <1>1, <1>2, Appended
    <2>. QED
      BY <2>1 DEF Logged
  <1>. QED
    BY <1>2 DEF Insert

\* What is done about a task is seen by that task alone.
LEMMA OtherTasks ==
  ASSUME TypeOK, NEW t \in Tasks, Recording(t) \/ Database(t) \/ DBOrphan(t),
         NEW r \in Runs, t # Rest(r), t # Ws(r), t[1] # r, t[1] \in Runs
  PROVE  SameRun(r)
  <1>0. Rest(r) \in Tasks /\ Ws(r) \in Tasks
    BY RestWs
  <1> USE <1>0, Domains DEF SameRun
  <1>1. CASE Insert(t)
    BY <1>1 DEF Insert
  <1>2. CASE Prune(t)
    BY <1>2 DEF Prune
  <1>3. CASE DBAnswer(t)
    BY <1>3 DEF DBAnswer, Effect
  <1>4. CASE DBRefuse(t)
    BY <1>4 DEF DBRefuse
  <1>5. CASE DBOrphan(t)
    <2>1. applied' = applied \/ Effect(t[1])
      BY <1>5 DEF DBOrphan
    <2>2. applied'[r] = applied[r]
      BY <2>1 DEF Effect
    <2>3. db' = [db EXCEPT ![t] = "done"] \/ db' = [db EXCEPT ![t] = "stopped"]
      BY <1>5 DEF DBOrphan
    <2>4. db'[Rest(r)] = db[Rest(r)] /\ db'[Ws(r)] = db[Ws(r)]
      BY <2>3
    <2>5. UNCHANGED <<stmt, ui, net, inbox, st, pc, outcome, active>>
      BY <1>5 DEF DBOrphan
    <2>. QED
      BY <2>2, <2>4, <2>5
  <1>. QED
    BY <1>1, <1>2, <1>3, <1>4, <1>5 DEF Recording, Database

\* ... and so is its record.
LEMMA OthersRecords ==
  ASSUME TypeOK, NEW t \in Tasks, Recording(t) \/ Database(t) \/ DBOrphan(t)
  PROVE  \A u : u # t => (Logged(u)' <=> Logged(u))
  <1>1. CASE Insert(t)
    BY <1>1, LogGrows, SameLog
  <1>2. CASE ~Insert(t)
    <2>1. log' = log
      BY <1>2 DEF Recording, Database, Prune, DBAnswer, DBRefuse, DBOrphan
    <2>. QED
      BY <2>1, SameLog
  <1>. QED
    BY <1>1, <1>2

\* What is done about a task keeps its run's part of the invariant.
LEMMA OwnTask ==
  ASSUME TypeOK, NEW r \in Runs, RunInv(r), NEW t \in {Rest(r), Ws(r)},
         Recording(t) \/ Database(t) \/ DBOrphan(t)
  PROVE  RunInv(r)'
  <1>0. t \in Tasks /\ t[1] = r
    BY RestWs, TaskParts
  <1>1. Counted(r)'
    <2>1. CASE Insert(t) \/ Prune(t)
      BY <2>1 DEF RunInv, Counted, Once, Insert, Prune
    <2>2. CASE DBAnswer(t) \/ DBRefuse(t) \/ DBOrphan(t)
      <3>1. /\ db[t] \notin Settled /\ db'[t] \in Settled
            /\ \A u \in Tasks : u # t => db'[u] = db[u]
            /\ applied'[r] \in {applied[r], applied[r] + 1}
        <4>1. Effect(r) \/ applied' = applied => applied'[r] \in {applied[r], applied[r] + 1}
          <5>1. CASE stmt[r].kind = "write"
            BY <5>1 DEF TypeOK, Effect
          <5>2. CASE stmt[r].kind # "write"
            <6>1. applied[r] \in Int
              BY DEF TypeOK
            <6>2. applied'[r] = applied[r] + 0 \/ applied' = applied
              BY <1>0, <2>2, <5>2 DEF TypeOK, Effect, DBAnswer, DBRefuse, DBOrphan
            <6>. QED
              BY <6>1, <6>2
          <5>. QED
            BY <5>1, <5>2
        <4>2. CASE DBAnswer(t)
          BY <1>0, <4>1, <4>2 DEF TypeOK, DBAnswer, Settled
        <4>3. CASE DBRefuse(t)
          BY <1>0, <4>1, <4>3 DEF TypeOK, DBRefuse, Settled
        <4>4. CASE DBOrphan(t)
          BY <1>0, <4>1, <4>4 DEF TypeOK, DBOrphan, Settled
        <4>. QED
          BY <2>2, <4>2, <4>3, <4>4
      <3>2. \A u \in {Rest(r), Ws(r)} : db[u] \in Settled => db'[u] \in Settled
        BY <3>1, RestWs
      <3>. QED
        BY <3>1, <3>2, CountedStep DEF RunInv
    <2>. QED
      BY <2>1, <2>2 DEF Recording, Database
  <1>a. inbox'[r] = inbox[r] => (NoExec(r)' <=> NoExec(r)) /\ (ExecFirst(r)' <=> ExecFirst(r))
    BY SameInbox
  <1>b. log' = log => (Logged(t)' <=> Logged(t))
    BY SameLog
  <1>c. /\ Rest(r) # t => (Logged(Rest(r))' <=> Logged(Rest(r)))
        /\ Ws(r) # t => (Logged(Ws(r))' <=> Logged(Ws(r)))
    BY <1>0, OthersRecords
  <1>d. Rest(r) # Ws(r) /\ Rest(r) \in Tasks /\ Ws(r) \in Tasks
    BY RestWs
  <1> USE <1>a, <1>b, <1>c, <1>d, TaskParts, Domains
      DEF RunInv, Phases, ExecOnce, Stands, Executing, RecordedRun, Recorded, Counters
  <1>2. CASE Insert(t)
    <2>1. /\ UNCHANGED <<stmt, ui, net, inbox, st, outcome, db, active>>
          /\ pc[t] = "insert" /\ pc'[t] \in {"prune", "reply"}
          /\ \A u \in Tasks : u # t => pc'[u] = pc[u]
      BY <1>0, <1>2 DEF Insert
    <2>2. \A u \in Tasks : u # t => (Logged(u)' <=> Logged(u))
      BY <1>0, OthersRecords
    <2>3. pc'[t] = "reply" => (Logged(t)' <=> Logged(t))
      BY <1>0, <1>2 DEF Insert
    <2>4. CASE t = Rest(r)
      BY <1>1, <2>1, <2>2, <2>3, <2>4
    <2>5. CASE t = Ws(r)
      BY <1>1, <2>1, <2>2, <2>3, <2>5
    <2>. QED
      BY <2>4, <2>5
  <1>3. CASE Prune(t)
    BY <1>1, <1>3 DEF Prune
  <1>4. CASE DBAnswer(t) \/ DBRefuse(t) \/ DBOrphan(t)
    <2>1. UNCHANGED <<stmt, ui, net, inbox, pc, st, outcome, active, log>>
      BY <1>4 DEF DBAnswer, DBRefuse, DBOrphan
    <2>2. /\ db[t] \in {"running", "orphan"} /\ \A u \in Tasks : u # t => db'[u] = db[u]
          /\ db'[t] \in {"cursor", "done", "refused", "stopped"}
          /\ t = Rest(r) => db'[t] # "cursor"
          /\ db[t] = "orphan" => db'[t] # "cursor"
      <3>1. CASE DBAnswer(t)
        BY <1>0, <3>1 DEF DBAnswer
      <3>2. CASE DBRefuse(t)
        BY <1>0, <3>2 DEF DBRefuse
      <3>3. CASE DBOrphan(t)
        BY <1>0, <3>3 DEF DBOrphan
      <3>. QED
        BY <1>4, <3>1, <3>2, <3>3
    <2>3. CASE t = Rest(r)
      BY <1>1, <2>1, <2>2, <2>3
    <2>4. CASE t = Ws(r)
      BY <1>1, <2>1, <2>2, <2>4
    <2>. QED
      BY <2>3, <2>4
  <1>. QED
    BY <1>2, <1>3, <1>4 DEF Recording, Database

\* Every step keeps every run's part of the invariant.
LEMMA RunStep ==
  ASSUME TypeOK, \A r \in Runs : RunInv(r), [Next]_vars
  PROVE  (\A r \in Runs : RunInv(r))'
  <1> SUFFICES ASSUME NEW r \in Runs PROVE RunInv(r)'
    OBVIOUS
  <1>1. ASSUME NEW q \in Runs,
               \/ Press(q) \/ PostFails(q) \/ Cancel(q) \/ Browser(q) \/ Connect(q)
               \/ RestHandler(q) \/ WsHandler(q) \/ RowLoop(q) \/ RowsFail(q)
        PROVE  RunInv(r)'
    <2>1. CASE q = r
      BY <1>1, <2>1, OwnRun
    <2>2. CASE q # r
      <3>1. SameRun(r)
        BY <1>1, <2>2, OtherRuns
      <3>2. SameRecords(r)
        BY <1>1, RunsRecordNothing, SameLog DEF SameRecords
      <3>. QED
        BY <3>1, <3>2, SameRunInv
    <2>. QED
      BY <2>1, <2>2
  <1>2. ASSUME NEW t \in Tasks, Recording(t) \/ Database(t) \/ DBOrphan(t)
        PROVE  RunInv(r)'
    <2>1. PICK q \in Runs : t = Rest(q) \/ t = Ws(q)
      BY TaskOf
    <2>2. CASE q = r
      BY <1>2, <2>1, <2>2, OwnTask
    <2>3. CASE q # r
      <3>1. t # Rest(r) /\ t # Ws(r) /\ t[1] # r /\ t[1] \in Runs
        BY <2>1, <2>3, RestWs, TaskParts
      <3>2. SameRun(r)
        BY <1>2, <3>1, OtherTasks
      <3>3. SameRecords(r)
        BY <1>2, <3>1, OthersRecords DEF SameRecords
      <3>. QED
        BY <3>2, <3>3, SameRunInv
    <2>. QED
      BY <2>2, <2>3
  <1>3. CASE UNCHANGED vars
    BY <1>3, SameRunInv, SameLog DEF SameRun, SameRecords
  <1>. QED
    BY <1>1, <1>2, <1>3 DEF Next, Finished

(***************************************************************************)
(* The history.                                                            *)
(***************************************************************************)
\* A record that says ok keeps its ground: the database does not go back.
LEMMA DoneStays ==
  ASSUME TypeOK, \A r \in Runs : RunInv(r), [Next]_vars,
         NEW t \in Tasks, Logged(t), db[t] = "done"
  PROVE  db'[t] = "done"
  <1>0. pc[t] \in {"prune", "reply", "unregister", "read", "gone", "done"}
    BY TaskOf DEF RunInv, RecordedRun, Recorded
  <1>1. db'[t] = db[t]
    <2> USE <1>0, RestWs DEF TypeOK
    <2>1. ASSUME NEW q \in Runs,
                 \/ Press(q) \/ PostFails(q) \/ Cancel(q) \/ Replied(q) \/ OnEvent(q)
                 \/ OnClose(q) \/ Connect(q) \/ RestUnresolved(q) \/ RestAnswered(q)
                 \/ RestUnheard(q) \/ ReadExec(q) \/ ReadCancel(q) \/ ReadFails(q)
                 \/ WsUnresolved(q) \/ WsAnswered(q) \/ WsReply(q) \/ Unregister(q)
          PROVE  db'[t] = db[t]
      BY <2>1 DEF Press, PostFails, Cancel, Replied, OnEvent, OnClose, OnCloseAs, Connect,
                  Open, Drop, RestUnresolved, RestAnswered, RestAnsweredAs, RestUnheard,
                  ReadExec, ReadCancel, ReadFails, WsUnresolved, WsAnswered, WsReply,
                  Unregister, UnregisterTo
    <2>2. ASSUME NEW q \in Runs, RestStart(q) \/ RestGivesUp(q)
          PROVE  db'[t] = db[t]
      BY <2>2 DEF RestStart, RestGivesUp
    <2>3. ASSUME NEW q \in Runs,
                 WsStart(q) \/ Columns(q) \/ NextRow(q) \/ EndRows(q) \/ RowsFail(q) \/ Flush(q)
          PROVE  db'[t] = db[t]
      BY <2>3 DEF WsStart, Columns, NextRow, EndRows, RowsFail, Flush, StreamBroken
    <2>4. ASSUME NEW u \in Tasks, Recording(u) \/ Database(u) \/ DBOrphan(u)
          PROVE  db'[t] = db[t]
      BY <2>4 DEF Recording, Insert, Prune, Database, DBAnswer, DBRefuse, DBOrphan
    <2>. QED
      BY <2>1, <2>2, <2>3, <2>4
         DEF Next, Finished, Browser, RestHandler, WsHandler, RowLoop
  <1>. QED
    BY <1>1

\* Every step keeps the history truthful: what is logged stays done, and is logged once.
LEMMA HistoryStep ==
  ASSUME TypeOK, \A r \in Runs : RunInv(r), HistoryTruthful, [Next]_vars
  PROVE  HistoryTruthful'
  <1>0. /\ log \in Seq(Entries) /\ \A i \in DOMAIN log : log[i].task \in Tasks
        /\ DOMAIN log = 1..Len(log) /\ Len(log) \in Nat
    <2>1. log \in Seq(Entries)
      BY DEF TypeOK
    <2>2. \A i \in DOMAIN log : log[i] \in Entries
      BY <2>1
    <2>. QED
      BY <2>1, <2>2 DEF Entries
  <1>1. \A i \in DOMAIN log : log[i].ok => db'[log[i].task] = "done"
    BY <1>0, DoneStays DEF HistoryTruthful, Logged
  <1>2. CASE log' = log
    BY <1>1, <1>2 DEF HistoryTruthful
  <1>3. ASSUME NEW t \in Tasks, Insert(t), log' # log
        PROVE  HistoryTruthful'
    <2> DEFINE e == [task |-> t, ok |-> outcome[t] = "ok"]
    <2>1. log' = Append(log, e)
      BY <1>3, LogGrows
    <2>2. pc[t] = "insert" /\ db' = db
      BY <1>3 DEF Insert
    <2>3. Recorded(t)
      BY TaskOf DEF RunInv, RecordedRun
    <2>4. (\A i \in DOMAIN log : log[i].task # t) /\ (outcome[t] = "ok" => db'[t] = "done")
      BY <2>2, <2>3 DEF Recorded, Logged
    <2>5. /\ DOMAIN log' = 1..(Len(log) + 1) /\ log'[Len(log) + 1] = e
          /\ \A i \in 1..Len(log) : log'[i] = log[i]
      <3>1. /\ DOMAIN Append(log, e) = 1..(Len(log) + 1) /\ Append(log, e)[Len(log) + 1] = e
            /\ \A i \in 1..Len(log) : Append(log, e)[i] = log[i]
        <4> HIDE DEF e
        <4>. QED
          BY <1>0, Appended
      <3>. QED
        BY <2>1, <3>1
    <2>6. e.task = t /\ (e.ok => outcome[t] = "ok")
      OBVIOUS
    <2> HIDE DEF e
    <2>. QED
      BY <1>0, <1>1, <2>4, <2>5, <2>6 DEF HistoryTruthful
  <1>4. ASSUME NEW t \in Tasks, Prune(t)
        PROVE  log' = log
    BY <1>4 DEF Prune
  <1>. QED
    BY <1>2, <1>3, <1>4, RecordsSteps

(***************************************************************************)
(* Types.                                                                  *)
(***************************************************************************)
HIDE DEF EditorTypes, SocketTypes, HandlerTypes, LocalTypes, TargetTypes, RecordTypes

\* The rows of a batch are rows.
LEMMA RowsOfType == ASSUME NEW r \in Runs, NEW f \in Nat, NEW n \in Nat
                    PROVE  RowsOf(r, f, n) \in Rows
  BY DEF RowsOf, Rows

\* A page starts in its types.
LEMMA TypeInit == Init => TypeOK
  <1> SUFFICES ASSUME Init PROVE TypeOK
    OBVIOUS
  <1> USE SizesAssumption DEF Init
  <1>1. EditorTypes
    BY DEF EditorTypes
  <1>2. SocketTypes
    BY DEF SocketTypes
  <1>3. HandlerTypes
    BY DEF HandlerTypes
  <1>4. LocalTypes
    BY DEF LocalTypes, FreshLocals
  <1>5. TargetTypes
    BY DEF TargetTypes
  <1>6. RecordTypes
    BY DEF RecordTypes
  <1>. QED
    BY <1>1, <1>2, <1>3, <1>4, <1>5, <1>6 DEF TypeOK

\* The rows a run is shown.
LEMMA ResultTypes ==
  ASSUME EditorTypes, NEW r \in Runs, stmt[r] # None
  PROVE  EmptyResult \in Results /\ RestResult(r) \in Results
  <1>1. stmt[r] \in Statements /\ stmt[r].size \in Nat
    BY StatementsAssumption DEF EditorTypes
  <1>2. Least(stmt[r].size, RowLimit) \in Nat
    BY <1>1, SizesAssumption DEF Least
  <1>3. RowsOf(r, 0, Least(stmt[r].size, RowLimit)) \in Rows
    BY <1>2, RowsOfType
  <1>4. <<>> \in Rows
    BY DEF Rows
  <1>. QED
    BY <1>3, <1>4 DEF EmptyResult, RestResult, Results

\* What an event makes of the result shown.
LEMMA EventTypes ==
  ASSUME EditorTypes, NEW ev \in Events
  PROVE  /\ ev.type = "rows" => [EmptyResult EXCEPT !.rows = ev.rows] \in Results
         /\ ev.type = "rows" /\ result # None => [result EXCEPT !.rows = @ \o ev.rows] \in Results
         /\ ev.type = "done" /\ result # None =>
              [result EXCEPT !.truncated = ev.truncated, !.final = TRUE] \in Results
  <1>1. ev.type = "rows" => ev.rows \in Rows
    BY DEF Events
  <1>2. ev.type = "done" => ev.truncated \in BOOLEAN
    BY DEF Events
  <1>3. result # None => result \in Results /\ result.rows \in Rows
    BY DEF EditorTypes, Results
  <1>4. ev.type = "rows" /\ result # None => result.rows \o ev.rows \in Rows
    BY <1>1, <1>3 DEF Rows
  <1>. QED
    BY <1>1, <1>2, <1>3, <1>4 DEF Results, EmptyResult

\* The editor.
LEMMA EditorTypesStep ==
  ASSUME TypeOK, (\A r \in Runs : RunInv(r)), (\A r \in Runs : RunInv(r))', [Next]_vars
  PROVE  EditorTypes'
  <1>0. EditorTypes
    BY DEF TypeOK
  <1>1. ASSUME NEW r \in Runs, Press(r)
        PROVE  EditorTypes'
    BY <1>0, <1>1, RestWs
       DEF EditorTypes, Press
  <1>2. ASSUME NEW r \in Runs, PostFails(r) \/ Cancel(r) \/ OnClose(r)
        PROVE  EditorTypes'
    BY <1>0, <1>2, RestWs
       DEF EditorTypes, PostFails, Cancel, OnClose, OnCloseAs
  <1>3. ASSUME NEW r \in Runs, Replied(r)
        PROVE  EditorTypes'
    <2>1. stmt[r] # None
      BY <1>3 DEF RunInv, Phases, Replied
    <2>. QED
      BY <1>0, <1>3, <2>1, ResultTypes DEF EditorTypes, Replied
  <1>4. ASSUME NEW r \in Runs, OnEvent(r)
        PROVE  EditorTypes'
    <2> DEFINE ev == Head(wire[r])
    <2>1. ev \in Events
      BY <1>4 DEF TypeOK, SocketTypes, OnEvent
    <2>2. ev.type \in {"columns", "error", "rows", "done"}
      BY <2>1 DEF Events
    <2>3. EmptyResult \in Results /\ result \in Results \cup {None}
      BY <1>0 DEF EditorTypes, EmptyResult, Results, Rows
    <2>4. result' \in Results \cup {None}
      <3> HIDE DEF ev
      <3>1. CASE ev.type = "columns"
        BY <1>4, <2>3, <3>1 DEF OnEvent, ev
      <3>2. CASE ev.type = "error"
        BY <1>4, <2>3, <3>2 DEF OnEvent, ev
      <3>3. CASE ev.type = "rows"
        BY <1>0, <1>4, <2>1, <2>3, <3>3, EventTypes DEF OnEvent, ev
      <3>4. CASE ev.type = "done"
        BY <1>0, <1>4, <2>1, <2>3, <3>4, EventTypes DEF OnEvent, ev
      <3>. QED
        BY <2>2, <3>1, <3>2, <3>3, <3>4
    <2>5. /\ ui' \in [Runs -> {"idle", "posting", "streaming", "cancelled", "closing", "closed"}]
          /\ busy' \in BOOLEAN /\ running' \in Runs \cup {None}
      BY <1>0, <1>4 DEF EditorTypes, OnEvent
    <2>6. UNCHANGED <<stmt, overlap>>
      BY <1>4 DEF OnEvent
    <2>. QED
      BY <1>0, <2>4, <2>5, <2>6 DEF EditorTypes
  <1>5. ASSUME NEW r \in Runs,
               \/ Open(r) \/ Drop(r) \/ RestStart(r) \/ RestUnresolved(r) \/ RestAnswered(r)
               \/ RestGivesUp(r) \/ RestUnheard(r) \/ ReadExec(r) \/ ReadCancel(r)
               \/ ReadFails(r) \/ WsStart(r) \/ WsUnresolved(r) \/ WsAnswered(r) \/ Columns(r)
               \/ Flush(r) \/ WsReply(r) \/ Unregister(r) \/ NextRow(r) \/ EndRows(r)
               \/ RowsFail(r)
        PROVE  UNCHANGED <<stmt, ui, busy, running, result, overlap>>
    BY <1>5 DEF Open, Drop, RestStart, RestUnresolved, RestAnswered, RestAnsweredAs,
                RestGivesUp, RestUnheard, ReadExec, ReadCancel, ReadFails, WsStart,
                WsUnresolved, WsAnswered, Columns, Flush, WsReply, Unregister, UnregisterTo,
                NextRow, EndRows, RowsFail
  <1>6. ASSUME NEW t \in Tasks, Insert(t) \/ Prune(t) \/ DBAnswer(t) \/ DBRefuse(t) \/ DBOrphan(t)
        PROVE  UNCHANGED <<stmt, ui, busy, running, result, overlap>>
    BY <1>6 DEF Insert, Prune, DBAnswer, DBRefuse, DBOrphan
  <1>7. EditorTypes /\ UNCHANGED <<stmt, ui, busy, running, result, overlap>> => EditorTypes'
    BY DEF EditorTypes
  <1>. QED
    BY <1>0, <1>1, <1>2, <1>3, <1>4, <1>5, <1>6, <1>7
       DEF Next, Finished, Browser, Connect, RestHandler, WsHandler, RowLoop, Recording, Database

\* The handlers.
LEMMA HandlerTypesStep ==
  ASSUME TypeOK, (\A r \in Runs : RunInv(r)), (\A r \in Runs : RunInv(r))', [Next]_vars
  PROVE  HandlerTypes'
  <1>0. HandlerTypes
    BY DEF TypeOK
  <1>1. ASSUME NEW r \in Runs, Press(r) \/ Replied(r) \/ Open(r)
        PROVE  HandlerTypes'
    BY <1>0, <1>1, RestWs
       DEF HandlerTypes, Press, Replied, Open
  <1>2. ASSUME NEW r \in Runs,
               \/ RestStart(r) \/ RestUnresolved(r) \/ RestAnswered(r) \/ RestGivesUp(r)
               \/ RestUnheard(r)
        PROVE  HandlerTypes'
    BY <1>0, <1>2, RestWs
       DEF HandlerTypes, RestStart, RestUnresolved, RestAnswered, RestAnsweredAs, RestGivesUp,
           RestUnheard
  <1>3. ASSUME NEW r \in Runs,
               \/ ReadExec(r) \/ ReadFails(r) \/ WsStart(r) \/ WsUnresolved(r)
               \/ WsAnswered(r) \/ WsReply(r) \/ Unregister(r)
        PROVE  HandlerTypes'
    BY <1>0, <1>3, RestWs
       DEF HandlerTypes, ReadExec, ReadFails, WsStart, WsUnresolved, WsAnswered, WsReply,
           Unregister, UnregisterTo
  <1>4. ASSUME NEW r \in Runs, Columns(r) \/ NextRow(r) \/ EndRows(r) \/ RowsFail(r) \/ Flush(r)
        PROVE  HandlerTypes'
    BY <1>0, <1>4, RestWs
       DEF HandlerTypes, Columns, StreamBroken, NextRow, StreamBroken, EndRows, RowsFail, Flush,
           StreamBroken
  <1>5. ASSUME NEW t \in Tasks, Insert(t) \/ Prune(t)
        PROVE  HandlerTypes'
    BY <1>0, <1>5, RestWs
       DEF HandlerTypes, Insert, Prune
  <1>6. ASSUME NEW r \in Runs,
               \/ PostFails(r) \/ Cancel(r) \/ OnEvent(r) \/ OnClose(r) \/ Drop(r)
               \/ ReadCancel(r)
        PROVE  UNCHANGED <<pc, outcome, active>>
    BY <1>6 DEF PostFails, Cancel, OnEvent, OnClose, OnCloseAs, Drop, ReadCancel
  <1>7. ASSUME NEW t \in Tasks, DBAnswer(t) \/ DBRefuse(t) \/ DBOrphan(t)
        PROVE  UNCHANGED <<pc, outcome, active>>
    BY <1>7 DEF DBAnswer, DBRefuse, DBOrphan
  <1>8. HandlerTypes /\ UNCHANGED <<pc, outcome, active>> => HandlerTypes'
    BY DEF HandlerTypes
  <1>. QED
    BY <1>0, <1>1, <1>2, <1>3, <1>4, <1>5, <1>6, <1>7, <1>8
       DEF Next, Finished, Browser, Connect, RestHandler, WsHandler, RowLoop, Recording, Database

\* The database; that a run takes effect at most twice comes from Counted.
LEMMA TargetTypesStep ==
  ASSUME TypeOK, (\A r \in Runs : RunInv(r)), (\A r \in Runs : RunInv(r))', [Next]_vars
  PROVE  TargetTypes'
  <1>0. TargetTypes
    BY DEF TypeOK
  <1>1. ASSUME NEW r \in Runs, RestStart(r) \/ RestGivesUp(r)
        PROVE  TargetTypes'
    BY <1>0, <1>1, RestWs
       DEF TargetTypes, RestStart, RestGivesUp
  <1>2. ASSUME NEW r \in Runs, WsStart(r)
        PROVE  TargetTypes'
    BY <1>0, <1>2, RestWs
       DEF TargetTypes, WsStart
  <1>3. ASSUME NEW r \in Runs, Columns(r) \/ NextRow(r) \/ EndRows(r) \/ RowsFail(r) \/ Flush(r)
        PROVE  TargetTypes'
    BY <1>0, <1>3, RestWs
       DEF TargetTypes, Columns, StreamBroken, NextRow, StreamBroken, EndRows, RowsFail, Flush,
           StreamBroken
  <1>4. ASSUME NEW t \in Tasks, DBAnswer(t) \/ DBRefuse(t) \/ DBOrphan(t)
        PROVE  TargetTypes'
    <2>1. /\ route' = route
          /\ \E v \in {"cursor", "done", "refused", "stopped"} : db' = [db EXCEPT ![t] = v]
      BY <1>4 DEF DBAnswer, DBRefuse, DBOrphan
    <2>2. applied' \in [Runs -> Int] /\ \A r \in Runs : applied'[r] >= 0
      <3>1. applied' = applied \/ Effect(t[1])
        BY <1>4 DEF DBAnswer, DBRefuse, DBOrphan
      <3>2. \A r \in Runs : applied[r] \in Int /\ applied[r] >= 0
        BY <1>0 DEF TargetTypes
      <3>3. applied \in [Runs -> Int]
        BY <1>0 DEF TargetTypes
      <3>. QED
        BY <3>1, <3>2, <3>3 DEF Effect
    <2>3. \A r \in Runs : applied'[r] <= 2
      BY <2>2 DEF RunInv, Counted, Once
    <2>. QED
      BY <1>0, <2>1, <2>2, <2>3 DEF TargetTypes
  <1>5. ASSUME NEW r \in Runs,
               \/ Press(r) \/ PostFails(r) \/ Cancel(r) \/ Replied(r) \/ OnEvent(r)
               \/ OnClose(r) \/ Open(r) \/ Drop(r) \/ RestUnresolved(r) \/ RestAnswered(r)
               \/ RestUnheard(r) \/ ReadExec(r) \/ ReadCancel(r) \/ ReadFails(r)
               \/ WsUnresolved(r) \/ WsAnswered(r) \/ WsReply(r) \/ Unregister(r)
        PROVE  UNCHANGED <<route, db, applied>>
    BY <1>5 DEF Press, PostFails, Cancel, Replied, OnEvent, OnClose, OnCloseAs, Open, Drop,
                RestUnresolved, RestAnswered, RestAnsweredAs, RestUnheard, ReadExec, ReadCancel,
                ReadFails, WsUnresolved, WsAnswered, WsReply, Unregister, UnregisterTo
  <1>6. ASSUME NEW t \in Tasks, Insert(t) \/ Prune(t)
        PROVE  UNCHANGED <<route, db, applied>>
    BY <1>6 DEF Insert, Prune
  <1>7. TargetTypes /\ UNCHANGED <<route, db, applied>> => TargetTypes'
    BY DEF TargetTypes
  <1>. QED
    BY <1>0, <1>1, <1>2, <1>3, <1>4, <1>5, <1>6, <1>7
       DEF Next, Finished, Browser, Connect, RestHandler, WsHandler, RowLoop, Recording, Database

\* Reading a frame or an event.
LEMMA TailType ==
  ASSUME NEW S, NEW f \in [Runs -> Seq(S)], NEW r \in Runs, f[r] # <<>>
  PROVE  [f EXCEPT ![r] = Tail(@)] \in [Runs -> Seq(S)]
  OBVIOUS

\* What the server writes to a socket are events.
LEMMA SentTypes ==
  ASSUME SocketTypes, NEW r \in Runs, NEW ev \in Events, Sent(r, ev)
  PROVE  wire' \in [Runs -> Seq(Events)]
  BY DEF SocketTypes, Sent

\* The events the handler of a stream sends.
LEMMA ServerEvents ==
  ASSUME LocalTypes, NEW r \in Runs
  PROVE  /\ ErrorEvent \in Events /\ [type |-> "columns"] \in Events
         /\ [type |-> "done", truncated |-> st[r].truncated] \in Events
         /\ \A n \in Nat : RowBatch(r, n) \in Events
  <1>1. st[r].offset \in Nat /\ st[r].truncated \in BOOLEAN
    BY SizesAssumption DEF LocalTypes
  <1>2. \A n \in Nat : RowsOf(r, st[r].offset, n) \in Rows
    BY <1>1, RowsOfType
  <1>. QED
    BY <1>1, <1>2 DEF ErrorEvent, RowBatch, Events

\* The sockets.
LEMMA SocketTypesStep ==
  ASSUME TypeOK, (\A r \in Runs : RunInv(r)), (\A r \in Runs : RunInv(r))', [Next]_vars
  PROVE  SocketTypes'
  <1>0. SocketTypes
    BY DEF TypeOK
  <1>1. ASSUME NEW r \in Runs, Replied(r) \/ OnClose(r)
        PROVE  SocketTypes'
    BY <1>0, <1>1, RestWs
       DEF SocketTypes, Replied, OnClose, OnCloseAs
  <1>2. ASSUME NEW r \in Runs, Open(r)
        PROVE  SocketTypes'
    <2>1. <<"exec">> \in Seq({"exec", "cancel"})
      OBVIOUS
    <2>. QED
      BY <1>0, <1>2, <2>1 DEF SocketTypes, Open
  <1>3. ASSUME NEW r \in Runs, Cancel(r)
        PROVE  SocketTypes'
    <2>1. Append(inbox[r], "cancel") \in Seq({"exec", "cancel"})
      BY <1>0 DEF SocketTypes
    <2>. QED
      BY <1>0, <1>3, <2>1 DEF SocketTypes, Cancel
  <1>4. ASSUME NEW r \in Runs, Drop(r)
        PROVE  SocketTypes'
    BY <1>0, <1>4, RestWs
       DEF SocketTypes, Drop
  <1>5. ASSUME NEW r \in Runs, OnEvent(r)
        PROVE  SocketTypes'
    BY <1>0, <1>5, TailType DEF SocketTypes, OnEvent
  <1>6. ASSUME NEW r \in Runs, ReadExec(r)
        PROVE  SocketTypes'
    BY <1>0, <1>6, TailType DEF SocketTypes, ReadExec
  <1>7. ASSUME NEW r \in Runs, ReadCancel(r)
        PROVE  SocketTypes'
    <2>1. wire' \in [Runs -> Seq(Events)]
      BY <1>0, <1>7, ServerEvents, SentTypes DEF TypeOK, ReadCancel
    <2>. QED
      BY <1>0, <1>7, <2>1, TailType DEF SocketTypes, ReadCancel
  <1>8. ASSUME NEW r \in Runs, WsUnresolved(r)
        PROVE  SocketTypes'
    <2>1. wire' \in [Runs -> Seq(Events)]
      BY <1>0, <1>8, ServerEvents, SentTypes DEF TypeOK, SocketTypes, WsUnresolved
    <2>2. UNCHANGED <<net, inbox>>
      BY <1>8 DEF WsUnresolved
    <2>. QED
      BY <1>0, <2>1, <2>2 DEF SocketTypes
  <1>9. ASSUME NEW r \in Runs, Columns(r)
        PROVE  SocketTypes'
    <2>1. wire' \in [Runs -> Seq(Events)]
      BY <1>0, <1>9, ServerEvents, SentTypes
         DEF TypeOK, SocketTypes, Columns, StreamBroken, WriteFails
    <2>2. UNCHANGED <<net, inbox>>
      BY <1>9 DEF Columns, StreamBroken, WriteFails
    <2>. QED
      BY <1>0, <2>1, <2>2 DEF SocketTypes
  <1>10. ASSUME NEW r \in Runs, NextRow(r)
        PROVE  SocketTypes'
    <2>1. st[r].batch + 1 \in Nat
      BY DEF TypeOK, LocalTypes
    <2>2. wire' \in [Runs -> Seq(Events)]
      BY <1>0, <1>10, <2>1, ServerEvents, SentTypes
         DEF TypeOK, SocketTypes, NextRow, StreamBroken, WriteFails
    <2>3. UNCHANGED <<net, inbox>>
      BY <1>10 DEF NextRow, StreamBroken, WriteFails
    <2>. QED
      BY <1>0, <2>2, <2>3 DEF SocketTypes
  <1>11. ASSUME NEW r \in Runs, Flush(r)
        PROVE  SocketTypes'
    <2>1. st[r].batch \in Nat
      BY SizesAssumption DEF TypeOK, LocalTypes
    <2>2. wire' \in [Runs -> Seq(Events)]
      BY <1>0, <1>11, <2>1, ServerEvents, SentTypes
         DEF TypeOK, SocketTypes, Flush, StreamBroken, WriteFails
    <2>3. UNCHANGED <<net, inbox>>
      BY <1>11 DEF Flush, StreamBroken, WriteFails
    <2>. QED
      BY <1>0, <2>2, <2>3 DEF SocketTypes
  <1>12. ASSUME NEW r \in Runs, WsReply(r)
        PROVE  SocketTypes'
    <2>1. wire' \in [Runs -> Seq(Events)]
      BY <1>0, <1>12, ServerEvents, SentTypes DEF TypeOK, SocketTypes, WsReply
    <2>2. UNCHANGED <<net, inbox>>
      BY <1>12 DEF WsReply
    <2>. QED
      BY <1>0, <2>1, <2>2 DEF SocketTypes
  <1>13. ASSUME NEW r \in Runs,
               \/ Press(r) \/ PostFails(r) \/ RestStart(r) \/ RestUnresolved(r)
               \/ RestAnswered(r) \/ RestGivesUp(r) \/ RestUnheard(r) \/ ReadFails(r)
               \/ WsStart(r) \/ WsAnswered(r) \/ Unregister(r) \/ EndRows(r) \/ RowsFail(r)
        PROVE  UNCHANGED <<net, inbox, wire>>
    BY <1>13 DEF Press, PostFails, RestStart, RestUnresolved, RestAnswered, RestAnsweredAs,
                 RestGivesUp, RestUnheard, ReadFails, WsStart, WsAnswered, Unregister,
                 UnregisterTo, EndRows, RowsFail
  <1>14. ASSUME NEW t \in Tasks, Insert(t) \/ Prune(t) \/ DBAnswer(t) \/ DBRefuse(t) \/ DBOrphan(t)
        PROVE  UNCHANGED <<net, inbox, wire>>
    BY <1>14 DEF Insert, Prune, DBAnswer, DBRefuse, DBOrphan
  <1>15. SocketTypes /\ UNCHANGED <<net, inbox, wire>> => SocketTypes'
    BY DEF SocketTypes
  <1>. QED
    BY <1>0, <1>1, <1>2, <1>3, <1>4, <1>5, <1>6, <1>7, <1>8, <1>9, <1>10, <1>11, <1>12, <1>13,
       <1>14, <1>15
       DEF Next, Finished, Browser, Connect, RestHandler, WsHandler, RowLoop, Recording, Database

\* The row loop: the counters keep together (Counters) and stop at the limits.
LEMMA LocalTypesStep ==
  ASSUME TypeOK, (\A r \in Runs : RunInv(r)), (\A r \in Runs : RunInv(r))', [Next]_vars
  PROVE  LocalTypes'
  <1>0. LocalTypes
    BY DEF TypeOK
  <1>1. ASSUME NEW r \in Runs, EndRows(r)
        PROVE  LocalTypes'
    <2>1. stmt[r] # None
      BY <1>1 DEF RunInv, Phases, EndRows
    <2>2. stmt[r].size \in Int /\ st[r].total \in Int
      BY <1>0, <2>1, StatementsAssumption DEF TypeOK, EditorTypes, LocalTypes
    <2>. QED
      <3>1. ASSUME NEW b \in BOOLEAN, st' = [st EXCEPT ![r].truncated = b]
            PROVE  LocalTypes'
        BY <1>0, <3>1 DEF LocalTypes
      <3>2. (st[r].total < stmt[r].size) \in BOOLEAN
        BY <2>2
      <3>. QED
        BY <1>1, <3>1, <3>2 DEF EndRows
  <1>2. ASSUME NEW r \in Runs, NextRow(r)
        PROVE  LocalTypes'
    <2>1. /\ st[r].total < RowLimit /\ st[r].total = st[r].offset + st[r].batch
          /\ st[r].total \in 0..RowLimit /\ st[r].batch \in 0..BatchSize
          /\ st[r].offset \in 0..RowLimit
      BY <1>0, <1>2, SizesAssumption DEF RunInv, Counters, NextRow, Full, LocalTypes
    <2>2. CASE st[r].batch + 1 < BatchSize
      BY <1>0, <1>2, <2>1, <2>2, SizesAssumption DEF NextRow, LocalTypes
    <2>3. CASE st[r].batch + 1 >= BatchSize
      BY <1>0, <1>2, <2>1, <2>3, SizesAssumption DEF NextRow, LocalTypes, StreamBroken
    <2>. QED
      BY <2>1, <2>2, <2>3, SizesAssumption
  <1>3. ASSUME NEW r \in Runs,
               \/ Press(r) \/ PostFails(r) \/ Cancel(r) \/ Replied(r) \/ OnEvent(r)
               \/ OnClose(r) \/ Open(r) \/ Drop(r) \/ RestStart(r) \/ RestUnresolved(r)
               \/ RestAnswered(r) \/ RestGivesUp(r) \/ RestUnheard(r) \/ ReadExec(r)
               \/ ReadCancel(r) \/ ReadFails(r) \/ WsStart(r) \/ WsUnresolved(r)
               \/ WsAnswered(r) \/ Columns(r) \/ Flush(r) \/ WsReply(r) \/ Unregister(r)
               \/ RowsFail(r)
        PROVE  UNCHANGED st
    BY <1>3 DEF Press, PostFails, Cancel, Replied, OnEvent, OnClose, OnCloseAs, Open, Drop,
                RestStart, RestUnresolved, RestAnswered, RestAnsweredAs, RestGivesUp,
                RestUnheard, ReadExec, ReadCancel, ReadFails, WsStart, WsUnresolved, WsAnswered,
                Columns, Flush, WsReply, Unregister, UnregisterTo, RowsFail, StreamBroken
  <1>4. ASSUME NEW t \in Tasks, Insert(t) \/ Prune(t) \/ DBAnswer(t) \/ DBRefuse(t) \/ DBOrphan(t)
        PROVE  UNCHANGED st
    BY <1>4 DEF Insert, Prune, DBAnswer, DBRefuse, DBOrphan
  <1>5. LocalTypes /\ UNCHANGED st => LocalTypes'
    BY DEF LocalTypes
  <1>. QED
    BY <1>0, <1>1, <1>2, <1>3, <1>4, <1>5
       DEF Next, Finished, Browser, Connect, RestHandler, WsHandler, RowLoop, Recording, Database

\* Pruning keeps a part of the table.
LEMMA NewestType == ASSUME NEW S, NEW s \in Seq(S) PROVE Newest(s) \in Seq(S)
  <1>1. Len(s) \in Nat /\ HistoryMax \in Nat
    BY SizesAssumption
  <1>2. \A a, b \in Nat : a - Least(a, b) + 1 \in 1..(a + 1)
    BY DEF Least
  <1>3. ASSUME NEW m \in 1..(Len(s) + 1) PROVE SubSeq(s, m, Len(s)) \in Seq(S)
    <2>1. m \in Int /\ Len(s) \in Int /\ \A i \in m..Len(s) : s[i] \in S
      BY <1>1
    <2>. QED
      BY <2>1, SubSeqProperties
  <1>. QED
    BY <1>1, <1>2, <1>3 DEF Newest

\* The records.
LEMMA RecordTypesStep ==
  ASSUME TypeOK, (\A r \in Runs : RunInv(r)), (\A r \in Runs : RunInv(r))', [Next]_vars
  PROVE  RecordTypes'
  <1>0. RecordTypes
    BY DEF TypeOK
  <1>1. ASSUME NEW t \in Tasks, Insert(t)
        PROVE  RecordTypes'
    <2>1. [task |-> t, ok |-> outcome[t] = "ok"] \in Entries
      BY DEF Entries
    <2>2. ASSUME NEW e \in Entries
          PROVE  Append(history, e) \in Seq(Entries) /\ Append(log, e) \in Seq(Entries)
      BY <1>0 DEF RecordTypes
    <2>3. history' \in Seq(Entries) /\ log' \in Seq(Entries)
      BY <1>0, <1>1, <2>1, <2>2 DEF RecordTypes, Insert
    <2>4. faults' \in 0..MaxFaults
      BY <1>0, <1>1, SizesAssumption DEF RecordTypes, Insert
    <2>. QED
      BY <2>3, <2>4 DEF RecordTypes
  <1>2. ASSUME NEW t \in Tasks, Prune(t)
        PROVE  RecordTypes'
    BY <1>0, <1>2, NewestType, SizesAssumption DEF RecordTypes, Prune
  <1>3. ASSUME NEW t \in Tasks, DBRefuse(t)
        PROVE  RecordTypes'
    BY <1>0, <1>3, SizesAssumption DEF RecordTypes, DBRefuse
  <1>4. ASSUME NEW r \in Runs,
               \/ PostFails(r) \/ Drop(r) \/ RestUnresolved(r) \/ RestGivesUp(r)
               \/ WsUnresolved(r) \/ RowsFail(r)
        PROVE  RecordTypes'
    BY <1>0, <1>4, SizesAssumption
       DEF RecordTypes, PostFails, Drop, RestUnresolved, RestGivesUp, WsUnresolved, RowsFail
  <1>5. ASSUME NEW r \in Runs,
               \/ Press(r) \/ Cancel(r) \/ Replied(r) \/ OnEvent(r) \/ OnClose(r) \/ Open(r)
               \/ RestStart(r) \/ RestAnswered(r) \/ RestUnheard(r) \/ ReadExec(r)
               \/ ReadCancel(r) \/ ReadFails(r) \/ WsStart(r) \/ WsAnswered(r) \/ Columns(r)
               \/ Flush(r) \/ WsReply(r) \/ Unregister(r) \/ NextRow(r) \/ EndRows(r)
        PROVE  UNCHANGED <<history, log, faults>>
    BY <1>5 DEF Press, Cancel, Replied, OnEvent, OnClose, OnCloseAs, Open, RestStart,
                RestAnswered, RestAnsweredAs, RestUnheard, ReadExec, ReadCancel, ReadFails,
                WsStart, WsAnswered, Columns, Flush, WsReply, Unregister, UnregisterTo, NextRow,
                EndRows
  <1>6. ASSUME NEW t \in Tasks, DBAnswer(t) \/ DBOrphan(t)
        PROVE  UNCHANGED <<history, log, faults>>
    BY <1>6 DEF DBAnswer, DBOrphan
  <1>7. RecordTypes /\ UNCHANGED <<history, log, faults>> => RecordTypes'
    BY DEF RecordTypes
  <1>. QED
    BY <1>0, <1>1, <1>2, <1>3, <1>4, <1>5, <1>6, <1>7
       DEF Next, Finished, Browser, Connect, RestHandler, WsHandler, RowLoop, Recording, Database

(***************************************************************************)
(* The theorems.                                                           *)
(***************************************************************************)
\* A page starts in the invariant.
LEMMA InvInit == Init => Inv
  <1> SUFFICES ASSUME Init PROVE Inv
    OBVIOUS
  <1>1. TypeOK
    BY TypeInit
  <1>2. HistoryTruthful
    BY DEF Init, HistoryTruthful
  <1>3. ASSUME NEW r \in Runs PROVE RunInv(r)
    BY <1>3, RestWs
       DEF Init, FreshLocals, RunInv, Phases, ExecOnce, ExecFirst, NoExec, Stands, Executing,
           Counted, Once, Settled, RecordedRun, Recorded, Logged, Counters
  <1>. QED
    BY <1>1, <1>2, <1>3 DEF Inv

\* Every step keeps the invariant.
LEMMA InvStep == Inv /\ [Next]_vars => Inv'
  <1> SUFFICES ASSUME Inv, [Next]_vars PROVE Inv'
    OBVIOUS
  <1>1. TypeOK /\ (\A r \in Runs : RunInv(r)) /\ HistoryTruthful
    BY DEF Inv
  <1>2. (\A r \in Runs : RunInv(r))'
    BY <1>1, RunStep
  <1>3. HistoryTruthful'
    BY <1>1, HistoryStep
  <1>4. TypeOK'
    BY <1>1, <1>2, EditorTypesStep, SocketTypesStep, HandlerTypesStep, LocalTypesStep,
       TargetTypesStep, RecordTypesStep DEF TypeOK
  <1>. QED
    BY <1>2, <1>3, <1>4 DEF Inv

\* The invariant holds throughout: one socket per run, one execution per socket, one
\* record per execution.
THEOREM Invariance == Spec => []Inv
  BY InvInit, InvStep, PTL DEF Spec

\* The variables keep their types: in particular the loop of streamRowsOverWS stays within its
\* limits, and no run takes effect more than twice.
THEOREM TypeCorrect == Spec => []TypeOK
  <1>1. Inv => TypeOK
    BY DEF Inv
  <1>. QED
    BY <1>1, Invariance, PTL

\* /api/queries/active tells the truth about streamed queries: handleWSExec registers before
\* the statement is sent and unregisters when it has ended.
THEOREM ListSafety == Spec => []ActiveListed
  <1>1. Inv => ActiveListed
    BY DEF Inv, TypeOK, HandlerTypes, RunInv, Stands, Executing, ActiveListed
  <1>. QED
    BY <1>1, Invariance, PTL

\* The history, written by both handlers through AddHistoryWithCap, says ok only of what the
\* database completed, and nothing twice.
THEOREM HistorySafety == Spec => []HistoryTruthful
  <1>1. Inv => HistoryTruthful
    BY DEF Inv
  <1>. QED
    BY <1>1, Invariance, PTL

\* SqlEditor.run sends a write again only after handleQuery has reported its deadline: there is
\* no other way for it to take effect twice.
THEOREM TwiceSafety == Spec => []TwiceOnlyAfterTimeout
  <1>1. ASSUME Inv, NEW r \in Runs, applied[r] > 1
        PROVE  outcome[Rest(r)] = "timeout"
    <2>1. RunInv(r) /\ applied[r] \in Int
      BY <1>1 DEF Inv, TypeOK, TargetTypes
    <2>2. db[Ws(r)] \in Settled
      BY <1>1, <2>1 DEF RunInv, Counted, Once
    <2>3. pc[Ws(r)] # "idle"
      BY <2>1, <2>2 DEF RunInv, Stands, Settled
    <2>. QED
      BY <2>1, <2>3 DEF RunInv, Phases
  <1>2. Inv => TwiceOnlyAfterTimeout
    BY <1>1 DEF TwiceOnlyAfterTimeout
  <1>. QED
    BY <1>2, Invariance, PTL

(***************************************************************************)
(* Pruning.                                                                *)
(***************************************************************************)
\* h is the end of l.
Ends(h, l) == Len(h) <= Len(l) /\ \A i \in 1..Len(h) : h[i] = l[Len(l) - Len(h) + i]

\* IsSuffix says so of the sequences read backwards.
LEMMA SuffixEnds ==
  ASSUME NEW S, NEW h \in Seq(S), NEW l \in Seq(S)
  PROVE  IsSuffix(h, l) <=> Ends(h, l)
  <1> DEFINE rh == Reverse(h)
             rl == Reverse(l)
  <1>1. /\ rh \in Seq(S) /\ Len(rh) = Len(h) /\ \A i \in 1..Len(h) : rh[i] = h[Len(h) - i + 1]
        /\ rl \in Seq(S) /\ Len(rl) = Len(l) /\ \A i \in 1..Len(l) : rl[i] = l[Len(l) - i + 1]
    BY DEF Reverse
  <1>2. IsSuffix(h, l) <=> Len(rh) <= Len(rl) /\ SubSeq(rh, 1, Len(rh)) = SubSeq(rl, 1, Len(rh))
    BY DEF IsSuffix, IsPrefix
  <1>3. /\ Len(h) \in Nat /\ Len(l) \in Nat
    OBVIOUS
  <1> HIDE DEF rh, rl
  <1>4. Len(h) <= Len(l) =>
          (SubSeq(rh, 1, Len(rh)) = SubSeq(rl, 1, Len(rh)) <=> \A i \in 1..Len(h) : rh[i] = rl[i])
    BY <1>1, <1>3
  <1>5. ASSUME Len(h) <= Len(l)
        PROVE  (\A i \in 1..Len(h) : rh[i] = rl[i])
                 <=> \A i \in 1..Len(h) : h[i] = l[Len(l) - Len(h) + i]
    <2>1. ASSUME \A i \in 1..Len(h) : rh[i] = rl[i], NEW i \in 1..Len(h)
          PROVE  h[i] = l[Len(l) - Len(h) + i]
      <3>1. Len(h) - i + 1 \in 1..Len(h) /\ Len(h) - i + 1 \in 1..Len(l)
        BY <1>3, <1>5
      <3>2. rh[Len(h) - i + 1] = rl[Len(h) - i + 1]
        BY <2>1, <3>1
      <3>3. /\ Len(h) - (Len(h) - i + 1) + 1 = i
            /\ Len(l) - (Len(h) - i + 1) + 1 = Len(l) - Len(h) + i
        BY <1>3
      <3>. QED
        BY <1>1, <3>1, <3>2, <3>3
    <2>2. ASSUME \A i \in 1..Len(h) : h[i] = l[Len(l) - Len(h) + i], NEW i \in 1..Len(h)
          PROVE  rh[i] = rl[i]
      <3>1. Len(h) - i + 1 \in 1..Len(h) /\ i \in 1..Len(l)
        BY <1>3, <1>5
      <3>2. h[Len(h) - i + 1] = l[Len(l) - Len(h) + (Len(h) - i + 1)]
        BY <2>2, <3>1
      <3>3. Len(l) - Len(h) + (Len(h) - i + 1) = Len(l) - i + 1
        BY <1>3
      <3>. QED
        BY <1>1, <3>1, <3>2, <3>3
    <2>. QED
      BY <2>1, <2>2
  <1>. QED
    BY <1>1, <1>2, <1>4, <1>5 DEF Ends

\* A new entry comes at the end of both.
LEMMA EndsAppend ==
  ASSUME NEW S, NEW h \in Seq(S), NEW l \in Seq(S), Ends(h, l), NEW e
  PROVE  /\ Ends(Append(h, e), Append(l, e))
         /\ Len(Append(h, e)) = Len(h) + 1 /\ Len(Append(l, e)) = Len(l) + 1
  <1>1. /\ Len(Append(h, e)) = Len(h) + 1 /\ Len(Append(l, e)) = Len(l) + 1
        /\ Len(h) \in Nat /\ Len(l) \in Nat /\ Len(h) <= Len(l)
    BY DEF Ends
  <1>2. ASSUME NEW i \in 1..(Len(h) + 1)
        PROVE  Append(h, e)[i] = Append(l, e)[Len(l) + 1 - (Len(h) + 1) + i]
    <2>1. CASE i = Len(h) + 1
      BY <1>1, <2>1, Appended
    <2>2. CASE i # Len(h) + 1
      <3>1. i \in 1..Len(h) /\ Len(l) - Len(h) + i \in 1..Len(l)
            /\ Len(l) + 1 - (Len(h) + 1) + i = Len(l) - Len(h) + i
        BY <1>1, <2>2
      <3>. QED
        BY <3>1, Appended DEF Ends
    <2>. QED
      BY <2>1, <2>2
  <1> DEFINE ah == Append(h, e)
             al == Append(l, e)
  <1>3. /\ Len(ah) = Len(h) + 1 /\ Len(al) = Len(l) + 1
        /\ \A i \in 1..(Len(h) + 1) : ah[i] = al[Len(l) + 1 - (Len(h) + 1) + i]
    BY <1>1, <1>2
  <1> HIDE DEF ah, al
  <1>4. Ends(ah, al)
    BY <1>1, <1>3 DEF Ends
  <1>. QED
    BY <1>1, <1>4 DEF ah, al

\* Pruning leaves the newest HistoryMax, or all.
LEMMA EndsNewest ==
  ASSUME NEW S, NEW h \in Seq(S), NEW l \in Seq(S), Ends(h, l)
  PROVE  Ends(Newest(h), l) /\ Len(Newest(h)) = Least(Len(h), HistoryMax)
  <1> DEFINE k == Least(Len(h), HistoryMax)
             m == Len(h) - k + 1
  <1>1. Len(h) \in Nat /\ Len(l) \in Nat /\ k \in 0..Len(h) /\ Len(h) <= Len(l)
    BY SizesAssumption DEF Least, Ends
  <1>2. m \in Int /\ Len(h) - m + 1 = k /\ m \in 1..(Len(h) + 1)
    BY <1>1
  <1>3. Newest(h) = SubSeq(h, m, Len(h))
    BY DEF Newest
  <1> HIDE DEF k, m
  <1>4. \A i \in m..Len(h) : h[i] \in S
    BY <1>1, <1>2
  <1>5. /\ Len(Newest(h)) = IF m <= Len(h) THEN Len(h) - m + 1 ELSE 0
        /\ \A i \in 1..(Len(h) - m + 1) : Newest(h)[i] = h[m + i - 1]
    BY <1>1, <1>2, <1>3, <1>4, SubSeqProperties
  <1>6. Len(Newest(h)) = k
    BY <1>1, <1>2, <1>5
  <1>7. ASSUME NEW i \in 1..k
        PROVE  Newest(h)[i] = l[Len(l) - k + i]
    <2>1. i \in Int /\ k \in Int /\ 1 <= i /\ i <= k
      BY <1>1
    <2>2. m + i - 1 \in 1..Len(h) /\ Len(l) - Len(h) + (m + i - 1) = Len(l) - k + i
      BY <1>1, <1>2, <2>1
    <2>3. Newest(h)[i] = h[m + i - 1]
      BY <1>2, <1>5
    <2>. QED
      BY <2>2, <2>3 DEF Ends
  <1>. QED
    BY <1>1, <1>6, <1>7 DEF Ends, k

\* Every step keeps the newest entries.
LEMMA RecentStep == TypeOK /\ HistoryRecent /\ [Next]_vars => HistoryRecent'
  <1> SUFFICES ASSUME TypeOK, HistoryRecent, [Next]_vars PROVE HistoryRecent'
    OBVIOUS
  <1>1. history \in Seq(Entries) /\ log \in Seq(Entries) /\ Len(history) \in Nat /\ Len(log) \in Nat
    BY DEF TypeOK, RecordTypes
  <1>2. Ends(history, log) /\ Len(history) >= Least(Len(log), HistoryMax)
    BY <1>1, SuffixEnds DEF HistoryRecent
  <1>3. ASSUME NEW h \in Seq(Entries), NEW l \in Seq(Entries), Ends(h, l),
               Len(h) >= Least(Len(l), HistoryMax), history' = h, log' = l
        PROVE  HistoryRecent'
    BY <1>3, SuffixEnds DEF HistoryRecent
  <1>4. ASSUME NEW t \in Tasks, Insert(t)
        PROVE  HistoryRecent'
    <2>1. CASE history' = history /\ log' = log
      BY <1>1, <1>2, <1>3, <2>1
    <2>2. ASSUME NEW e \in Entries, history' = Append(history, e), log' = Append(log, e)
          PROVE  HistoryRecent'
      <3>1. /\ Append(history, e) \in Seq(Entries) /\ Append(log, e) \in Seq(Entries)
            /\ Ends(Append(history, e), Append(log, e))
            /\ Len(Append(history, e)) = Len(history) + 1 /\ Len(Append(log, e)) = Len(log) + 1
        BY <1>1, <1>2, EndsAppend
      <3>2. Len(history) + 1 >= Least(Len(log) + 1, HistoryMax)
        BY <1>1, <1>2, SizesAssumption DEF Least
      <3>. QED
        BY <1>3, <2>2, <3>1, <3>2
    <2>3. [task |-> t, ok |-> outcome[t] = "ok"] \in Entries
      BY DEF Entries
    <2>. QED
      BY <1>4, <2>1, <2>2, <2>3 DEF Insert
  <1>5. ASSUME NEW t \in Tasks, Prune(t)
        PROVE  HistoryRecent'
    <2>1. CASE history' = history
      BY <1>1, <1>2, <1>3, <1>5, <2>1 DEF Prune
    <2>2. CASE history' = Newest(history)
      <3>1. /\ Newest(history) \in Seq(Entries) /\ Ends(Newest(history), log)
            /\ Len(Newest(history)) = Least(Len(history), HistoryMax)
        BY <1>1, <1>2, EndsNewest, NewestType
      <3>2. Least(Len(history), HistoryMax) >= Least(Len(log), HistoryMax)
        BY <1>1, <1>2, SizesAssumption DEF Least
      <3>3. log' = log
        BY <1>5 DEF Prune
      <3>. QED
        BY <1>1, <1>3, <2>2, <3>1, <3>2, <3>3
    <2>. QED
      BY <1>5, <2>1, <2>2 DEF Prune
  <1>6. CASE UNCHANGED <<history, log>>
    BY <1>6 DEF HistoryRecent
  <1>. QED
    BY <1>4, <1>5, <1>6, RecordsSteps

\* The DELETE of AddHistoryWithCap, interleaved with other inserts, never loses one of the
\* newest entries.
THEOREM RecentSafety == Spec => []HistoryRecent
  <1>1. Init => HistoryRecent
    <2>1. ASSUME Init PROVE Ends(history, log) /\ Len(history) >= Least(Len(log), HistoryMax)
      BY <2>1, SizesAssumption DEF Init, Ends, Least
    <2>2. ASSUME Init PROVE history \in Seq(Entries) /\ log \in Seq(Entries)
      BY <2>2 DEF Init
    <2>. QED
      BY <2>1, <2>2, SuffixEnds DEF HistoryRecent
  <1>2. TypeOK /\ HistoryRecent /\ [Next]_vars => HistoryRecent'
    BY RecentStep
  <1>. QED
    BY <1>1, <1>2, TypeCorrect, PTL DEF Spec

(***************************************************************************)
(* What the editor shows.                                                  *)
(***************************************************************************)
\* How an event takes a reader that has the first a rows of statement s, run by r, to the
\* first b of them.
Moves(r, s, e, a, b) ==
  /\ e.type = "columns" => a = 0 /\ b = 0
  /\ e.type = "rows" => e.rows = RowsOf(r, a, Len(e.rows)) /\ b = a + Len(e.rows)
  /\ e.type = "error" => b = a
  /\ e.type = "done" => /\ b = a /\ a = Least(s.size, RowLimit)
                        /\ e.truncated <=> s.size > RowLimit

\* The events of w, in their order, do so from a to b.
Carries(r, s, w, a, b) ==
  \E f \in [1..(Len(w) + 1) -> Nat] :
    /\ f[1] = a /\ f[Len(w) + 1] = b
    /\ \A i \in 1..Len(w) : Moves(r, s, w[i], f[i], f[i + 1])

\* The rows the handler has handed to the socket.
Given(r) == IF outcome[Ws(r)] = "ok" THEN st[r].total ELSE st[r].offset

\* Nothing is on the wire, and no statement chosen, before its time; no handler leaves a
\* streamed statement to the database.
Asked(r) ==
  /\ ui[r] = "idle" => stmt[r] = None
  /\ net[r] \in {"none", "connecting"} => wire[r] = <<>>
  /\ db[Ws(r)] # "orphan"
  /\ pc[Ws(r)] = "run" /\ db[Ws(r)] = "done" => stmt[r].kind = "write"

\* The locals of streamRowsOverWS before, in and after its loop.
Yielded(r) ==
  /\ ~NoExec(r) \/ pc[Ws(r)] \in {"idle", "resolve", "run", "rows", "flush"}
       => outcome[Ws(r)] = "none"
  /\ ~NoExec(r) \/ pc[Ws(r)] \in {"idle", "resolve", "run"} => st[r] = FreshLocals
  /\ pc[Ws(r)] = "rows" => st[r].total <= stmt[r].size
  /\ pc[Ws(r)] = "flush" \/ outcome[Ws(r)] = "ok" =>
       /\ st[r].total = Least(stmt[r].size, RowLimit)
       /\ st[r].truncated <=> stmt[r].size > RowLimit

\* The rows shown and those on the wire are together what the handler has handed out.
Streams(r) ==
  ~overlap /\ ui[r] = "streaming" =>
    /\ result # None /\ ~result.final
    /\ result.rows = RowsOf(r, 0, Len(result.rows))
    /\ net[r] \in {"connecting", "up"} => Carries(r, stmt[r], wire[r], Len(result.rows), Given(r))

OneShown == ~overlap => \A q, r \in Runs : Shown(q) /\ Shown(r) => q = r

YieldInv(r) == Asked(r) /\ Yielded(r)

ShownInv ==
  /\ Inv /\ (\A r \in Runs : YieldInv(r)) /\ OneShown
  /\ (\A r \in Runs : Streams(r)) /\ ResultWhole

\* An empty wire carries nothing.
LEMMA CarriesNothing == ASSUME NEW r, NEW s, NEW a \in Nat PROVE Carries(r, s, <<>>, a, a)
  <1> DEFINE f == [i \in 1..1 |-> a]
  <1>1. f \in [1..(Len(<<>>) + 1) -> Nat] /\ f[1] = a /\ f[Len(<<>>) + 1] = a
    OBVIOUS
  <1>2. 1..Len(<<>>) = {}
    OBVIOUS
  <1> HIDE DEF f
  <1>. QED
    BY <1>1, <1>2 DEF Carries

\* An event sent.
LEMMA CarriesAppend ==
  ASSUME NEW r, NEW s, NEW w \in Seq(Events), NEW a \in Nat, NEW b \in Nat, NEW c \in Nat,
         NEW e \in Events, Carries(r, s, w, a, b), Moves(r, s, e, b, c)
  PROVE  Carries(r, s, Append(w, e), a, c)
  <1>0. Len(w) \in Nat
    OBVIOUS
  <1>1. PICK f \in [1..(Len(w) + 1) -> Nat] :
          /\ f[1] = a /\ f[Len(w) + 1] = b
          /\ \A i \in 1..Len(w) : Moves(r, s, w[i], f[i], f[i + 1])
    BY DEF Carries
  <1> DEFINE v == Append(w, e)
             g == [i \in 1..(Len(v) + 1) |-> IF i = Len(v) + 1 THEN c ELSE f[i]]
  <1>2. /\ Len(v) = Len(w) + 1 /\ v[Len(w) + 1] = e
        /\ \A i \in 1..Len(w) : v[i] = w[i]
    OBVIOUS
  <1> HIDE DEF v
  <1>3. g \in [1..(Len(v) + 1) -> Nat] /\ g[1] = a /\ g[Len(v) + 1] = c
    BY <1>0, <1>1, <1>2
  <1>4. \A i \in 1..(Len(w) + 1) : g[i] = f[i]
    BY <1>0, <1>2
  <1>5. ASSUME NEW i \in 1..Len(v) PROVE Moves(r, s, v[i], g[i], g[i + 1])
    <2>1. CASE i = Len(w) + 1
      <3>1. v[i] = e /\ g[i] = b /\ g[i + 1] = c
        BY <1>0, <1>1, <1>2, <1>3, <1>4, <2>1
      <3>. QED
        BY <3>1
    <2>2. CASE i # Len(w) + 1
      <3>1. i \in 1..Len(w) /\ i + 1 \in 1..(Len(w) + 1)
        BY <1>0, <1>2, <2>2
      <3>2. v[i] = w[i] /\ g[i] = f[i] /\ g[i + 1] = f[i + 1]
        BY <1>2, <1>4, <3>1, <1>0
      <3>. QED
        BY <1>1, <3>1, <3>2
    <2>. QED
      BY <2>1, <2>2
  <1> HIDE DEF g
  <1>6. Carries(r, s, v, a, c)
    BY <1>3, <1>5 DEF Carries
  <1>. QED
    BY <1>6 DEF v

\* An event handled.
LEMMA CarriesTail ==
  ASSUME NEW r, NEW s, NEW w \in Seq(Events), w # <<>>, NEW a, NEW b,
         Carries(r, s, w, a, b)
  PROVE  \E c \in Nat : Moves(r, s, Head(w), a, c) /\ Carries(r, s, Tail(w), c, b)
  <1>1. PICK f \in [1..(Len(w) + 1) -> Nat] :
          /\ f[1] = a /\ f[Len(w) + 1] = b
          /\ \A i \in 1..Len(w) : Moves(r, s, w[i], f[i], f[i + 1])
    BY DEF Carries
  <1> DEFINE v == Tail(w)
             g == [i \in 1..(Len(v) + 1) |-> f[i + 1]]
  <1>2. /\ Len(w) \in Nat /\ Len(w) > 0 /\ Len(v) = Len(w) - 1 /\ Head(w) = w[1]
        /\ \A i \in 1..Len(v) : v[i] = w[i + 1]
    OBVIOUS
  <1> HIDE DEF v
  <1>3. Moves(r, s, Head(w), a, f[2]) /\ f[2] \in Nat
    BY <1>1, <1>2
  <1>4. g \in [1..(Len(v) + 1) -> Nat] /\ g[1] = f[2] /\ g[Len(v) + 1] = b
    BY <1>1, <1>2
  <1>5. ASSUME NEW i \in 1..Len(v) PROVE Moves(r, s, v[i], g[i], g[i + 1])
    <2>1. i + 1 \in 1..Len(w) /\ g[i] = f[i + 1] /\ g[i + 1] = f[i + 1 + 1] /\ v[i] = w[i + 1]
      BY <1>2
    <2>. QED
      BY <1>1, <2>1
  <1> HIDE DEF g
  <1>6. Carries(r, s, v, f[2], b)
    BY <1>4, <1>5 DEF Carries
  <1>. QED
    BY <1>3, <1>6 DEF v

\* Rows and the rows that follow them.
LEMMA RowsFollow ==
  ASSUME NEW r, NEW a \in Nat, NEW n \in Nat
  PROVE  RowsOf(r, 0, a) \o RowsOf(r, a, n) = RowsOf(r, 0, a + n)
  <1> DEFINE x == RowsOf(r, 0, a)
             y == RowsOf(r, a, n)
             z == RowsOf(r, 0, a + n)
             S == {r} \X Nat
  <1>1. x \in Seq(S) /\ y \in Seq(S) /\ z \in Seq(S) /\ Len(x) = a /\ Len(y) = n /\ Len(z) = a + n
    BY DEF RowsOf
  <1>2. /\ \A i \in 1..a : x[i] = <<r, i>>
        /\ \A i \in 1..n : y[i] = <<r, a + i>>
        /\ \A i \in 1..(a + n) : z[i] = <<r, i>>
    BY DEF RowsOf
  <1> HIDE DEF x, y, z, S
  <1>3. /\ Len(x \o y) = a + n /\ x \o y \in Seq(S)
        /\ \A i \in 1..(a + n) : (x \o y)[i] = IF i <= a THEN x[i] ELSE y[i - a]
    BY <1>1
  <1>4. ASSUME NEW i \in 1..(a + n) PROVE (x \o y)[i] = z[i]
    <2>1. CASE i <= a
      <3>1. i \in 1..a
        BY <2>1
      <3>2. (x \o y)[i] = x[i]
        BY <1>3, <2>1
      <3>. QED
        BY <1>2, <3>1, <3>2
    <2>2. CASE i > a
      <3>1. i - a \in 1..n /\ a + (i - a) = i
        BY <2>2
      <3>2. (x \o y)[i] = y[i - a]
        BY <1>3, <2>2
      <3>. QED
        BY <1>2, <3>1, <3>2
    <2>3. i <= a \/ i > a
      OBVIOUS
    <2>. QED
      BY <2>1, <2>2, <2>3
  <1>5. x \o y = z
    BY <1>1, <1>3, <1>4, SeqEqual
  <1>. QED
    BY <1>5 DEF x, y, z

\* What another run's steps leave on a wire.
LEMMA OtherWire ==
  ASSUME TypeOK, NEW q \in Runs, NEW r \in Runs, q # r,
         \/ Press(q) \/ PostFails(q) \/ Cancel(q) \/ Browser(q) \/ Connect(q)
         \/ RestHandler(q) \/ WsHandler(q) \/ RowLoop(q) \/ RowsFail(q)
  PROVE  wire'[r] = wire[r]
  <1>0. DOMAIN wire = Runs
    BY DEF TypeOK, SocketTypes
  <1>1. \A e : Sent(q, e) => wire'[r] = wire[r]
    BY <1>0 DEF Sent
  <1>2. StreamBroken(q) => wire'[r] = wire[r]
    BY DEF StreamBroken, WriteFails
  <1> HIDE DEF StreamBroken, Sent
  <1>3. CASE \/ Press(q) \/ PostFails(q) \/ Cancel(q) \/ Browser(q) \/ Connect(q)
             \/ RestHandler(q) \/ RowsFail(q)
    BY <1>0, <1>3 DEF Press, PostFails, Cancel, Browser, Replied, OnEvent, OnClose, OnCloseAs,
         Connect, Open, Drop, RestHandler, RestStart, RestUnresolved, RestAnswered,
         RestAnsweredAs, RestGivesUp, RestUnheard, RowsFail
  <1>4. CASE WsHandler(q)
    BY <1>1, <1>2, <1>4 DEF WsHandler, ReadExec, ReadCancel, ReadFails, WsStart, WsUnresolved,
         WsAnswered, Columns, Flush, WsReply, Unregister, UnregisterTo
  <1>5. CASE RowLoop(q)
    BY <1>1, <1>2, <1>5 DEF RowLoop, NextRow, EndRows
  <1>. QED
    BY <1>3, <1>4, <1>5

\* What a run's part of YieldInv depends on.
LEMMA SameYield ==
  ASSUME NEW r \in Runs, YieldInv(r), SameRun(r), wire'[r] = wire[r] PROVE YieldInv(r)'
  BY DEF YieldInv, SameRun, Asked, Yielded, NoExec

\* A run's statement, once it has one.
LEMMA StatementOf ==
  ASSUME TypeOK, NEW r \in Runs, stmt[r] # None
  PROVE  /\ stmt[r] \in Statements /\ stmt[r].size \in Nat /\ stmt[r].kind \in {"read", "write"}
         /\ stmt[r].kind = "write" => stmt[r].size = 0
  BY StatementsAssumption DEF TypeOK, EditorTypes

\* The steps of a run keep its part of YieldInv.
LEMMA OwnYield ==
  ASSUME TypeOK, NEW r \in Runs, RunInv(r), YieldInv(r),
         \/ Press(r) \/ PostFails(r) \/ Cancel(r) \/ Browser(r) \/ Connect(r)
         \/ RestHandler(r) \/ WsHandler(r) \/ RowLoop(r) \/ RowsFail(r)
  PROVE  YieldInv(r)'
  <1>0. /\ Cancel(r) /\ net[r] = "up" => (NoExec(r)' <=> NoExec(r))
        /\ ReadExec(r) \/ ReadCancel(r) => NoExec(r)'
        /\ ReadExec(r) => ~NoExec(r)
    BY InboxSteps DEF RunInv, ExecOnce
  <1>b. inbox'[r] = inbox[r] => (NoExec(r)' <=> NoExec(r))
    BY SameInbox
  <1>c. /\ Rest(r) # Ws(r) /\ Rest(r) \in Tasks /\ Ws(r) \in Tasks
        /\ DOMAIN wire = Runs
        /\ st[r] \in [total : 0..RowLimit, batch : 0..BatchSize, offset : 0..RowLimit,
                      truncated : BOOLEAN]
    BY RestWs DEF TypeOK, SocketTypes, LocalTypes
  <1>d. Phases(r) /\ Stands(r) /\ ExecOnce(r) /\ Counters(r)
    BY DEF RunInv
  <1>e. stmt[r] # None =>
          /\ stmt[r].size \in Nat /\ stmt[r].kind \in {"read", "write"}
          /\ stmt[r].kind = "write" => stmt[r].size = 0
    BY StatementOf
  <1>f. \A e : Sent(r, e) /\ net[r] \in {"none", "connecting"} => wire' = wire
    BY DEF Sent
  <1>g. StreamBroken(r) => /\ wire' = wire /\ pc'[Ws(r)] = "insert" /\ outcome'[Ws(r)] = "error"
                           /\ db'[Ws(r)] = "stopped" /\ st' = st
    BY <1>c, Domains DEF StreamBroken, WriteFails
  <1> HIDE DEF StreamBroken, Sent
  <1> USE <1>b, <1>c, <1>d, <1>e, Domains, NoneAssumption
      DEF YieldInv, Phases, ExecOnce, Stands, Asked, Yielded
  <1>1. CASE Press(r)
    BY <1>1 DEF Press
  <1>2. CASE PostFails(r)
    BY <1>2 DEF PostFails
  <1>3. CASE Cancel(r)
    BY <1>3, <1>0 DEF Cancel
  <1>4. CASE Replied(r)
    BY <1>4 DEF Replied, Retried
  <1>5. CASE OnEvent(r)
    BY <1>5 DEF OnEvent
  <1>6. CASE OnClose(r)
    BY <1>6 DEF OnClose, OnCloseAs
  <1>7. CASE Open(r)
    BY <1>7 DEF Open
  <1>8. CASE Drop(r)
    BY <1>8 DEF Drop
  <1>9. CASE RestHandler(r)
    BY <1>9 DEF RestHandler, RestStart, RestUnresolved, RestAnswered, RestAnsweredAs,
                RestGivesUp, RestUnheard
  <1>14. CASE ReadExec(r)
    BY <1>14, <1>0 DEF ReadExec
  <1>15. CASE ReadCancel(r)
    BY <1>15, <1>0, <1>f DEF ReadCancel
  <1>16. CASE ReadFails(r)
    BY <1>16 DEF ReadFails
  <1>17. CASE WsStart(r)
    BY <1>17 DEF WsStart
  <1>18. CASE WsUnresolved(r)
    BY <1>18, <1>f DEF WsUnresolved
  <1>19. CASE WsAnswered(r)
    BY <1>19, SizesAssumption DEF WsAnswered, FreshLocals, Least
  <1>20. CASE Columns(r)
    BY <1>20, <1>f, <1>g DEF Columns, FreshLocals
  <1>21. CASE Flush(r)
    BY <1>21, <1>f, <1>g DEF Flush
  <1>22. CASE WsReply(r)
    BY <1>22, <1>f DEF WsReply
  <1>23. CASE Unregister(r)
    BY <1>23 DEF Unregister, UnregisterTo
  <1>24. CASE NextRow(r)
    BY <1>24, <1>f, <1>g DEF NextRow
  <1>25. CASE EndRows(r)
    <2>1. /\ pc[Ws(r)] = "rows" /\ pc'[Ws(r)] = "flush" /\ db'[Ws(r)] = "done"
          /\ st[r].total = stmt[r].size \/ st[r].total >= RowLimit
          /\ st'[r].total = st[r].total
          /\ st'[r].truncated = (st[r].total < stmt[r].size)
          /\ UNCHANGED <<stmt, ui, net, inbox, wire, outcome>>
      BY <1>25 DEF EndRows, Full
    <2>2. st[r].total <= stmt[r].size /\ st[r].total \in 0..RowLimit /\ stmt[r].size \in Nat
      BY <2>1
    <2>3. st[r].total = Least(stmt[r].size, RowLimit)
      BY <2>1, <2>2, SizesAssumption DEF Least
    <2>4. st[r].total < stmt[r].size <=> stmt[r].size > RowLimit
      BY <2>1, <2>2, SizesAssumption
    <2>. QED
      BY <2>1, <2>3, <2>4
  <1>26. CASE RowsFail(r)
    BY <1>26 DEF RowsFail
  <1>. QED
    BY <1>1, <1>2, <1>3, <1>4, <1>5, <1>6, <1>7, <1>8, <1>9, <1>14,
       <1>15, <1>16, <1>17, <1>18, <1>19, <1>20, <1>21, <1>22, <1>23, <1>24, <1>25, <1>26
       DEF Browser, Connect, WsHandler, RowLoop

\* What is done about a task stays out of the editor.
LEMMA TasksShowNothing ==
  ASSUME NEW t \in Tasks, Recording(t) \/ Database(t) \/ DBOrphan(t)
  PROVE  UNCHANGED <<stmt, ui, result, net, inbox, wire, st, outcome, overlap>>
  BY DEF Recording, Insert, Prune, Database, DBAnswer, DBRefuse, DBOrphan

\* What is done about a task keeps its run's part of YieldInv.
LEMMA TaskYield ==
  ASSUME TypeOK, NEW r \in Runs, RunInv(r), YieldInv(r), NEW t \in {Rest(r), Ws(r)},
         Recording(t) \/ Database(t) \/ DBOrphan(t)
  PROVE  YieldInv(r)'
  <1>0. UNCHANGED <<stmt, ui, result, net, inbox, wire, st, outcome, overlap>>
    BY TasksShowNothing, RestWs
  <1>1. t \in Tasks /\ t[1] = r /\ Ws(r) \in Tasks /\ Rest(r) # Ws(r)
    BY RestWs, TaskParts
  <1>2. NoExec(r)' <=> NoExec(r)
    BY <1>0, SameInbox
  <1>3. Phases(r) /\ Stands(r) /\ (ui[r] # "idle" => stmt[r].kind \in {"read", "write"})
    BY StatementOf DEF RunInv, Phases
  <1> USE <1>0, <1>1, <1>2, <1>3, Domains DEF YieldInv, Asked, Yielded, Phases, Stands
  <1>4. CASE Insert(t) \/ Prune(t)
    BY <1>4 DEF Insert, Prune
  <1>5. CASE DBAnswer(t)
    <2>1. /\ pc' = pc /\ db[t] = "running" /\ \A u \in Tasks : u # t => db'[u] = db[u]
          /\ db'[t] = IF t[2] = "ws" /\ stmt[r].kind = "read" THEN "cursor" ELSE "done"
      BY <1>5 DEF DBAnswer
    <2>2. CASE t = Ws(r)
      <3>1. t[2] = "ws" /\ ui[r] # "idle"
        BY <2>1, <2>2, TaskParts
      <3>. QED
        BY <2>1, <2>2, <3>1
    <2>3. CASE t = Rest(r)
      BY <2>1, <2>3
    <2>. QED
      BY <2>2, <2>3
  <1>6. CASE DBRefuse(t)
    BY <1>6 DEF DBRefuse
  <1>7. CASE DBOrphan(t)
    <2>1. t # Ws(r)
      BY <1>7 DEF DBOrphan
    <2>2. db'[Ws(r)] = db[Ws(r)] /\ pc' = pc
      BY <1>7, <2>1 DEF DBOrphan
    <2>. QED
      BY <2>2
  <1>. QED
    BY <1>4, <1>5, <1>6, <1>7 DEF Recording, Database

\* Every step keeps every run's part of YieldInv.
LEMMA YieldStep ==
  ASSUME TypeOK, \A r \in Runs : RunInv(r) /\ YieldInv(r), [Next]_vars
  PROVE  (\A r \in Runs : YieldInv(r))'
  <1> SUFFICES ASSUME NEW r \in Runs PROVE YieldInv(r)'
    OBVIOUS
  <1>1. ASSUME NEW q \in Runs,
               \/ Press(q) \/ PostFails(q) \/ Cancel(q) \/ Browser(q) \/ Connect(q)
               \/ RestHandler(q) \/ WsHandler(q) \/ RowLoop(q) \/ RowsFail(q)
        PROVE  YieldInv(r)'
    <2>1. CASE q = r
      BY <1>1, <2>1, OwnYield
    <2>2. CASE q # r
      BY <1>1, <2>2, OtherRuns, OtherWire, SameYield
    <2>. QED
      BY <2>1, <2>2
  <1>2. ASSUME NEW t \in Tasks, Recording(t) \/ Database(t) \/ DBOrphan(t)
        PROVE  YieldInv(r)'
    <2>1. PICK q \in Runs : t = Rest(q) \/ t = Ws(q)
      BY TaskOf
    <2>2. CASE q = r
      BY <1>2, <2>1, <2>2, TaskYield
    <2>3. CASE q # r
      <3>1. t # Rest(r) /\ t # Ws(r) /\ t[1] # r /\ t[1] \in Runs
        BY <2>1, <2>3, RestWs, TaskParts
      <3>. QED
        BY <1>2, <3>1, OtherTasks, TasksShowNothing, SameYield
    <2>. QED
      BY <2>2, <2>3
  <1>3. CASE UNCHANGED vars
    BY <1>3, SameYield DEF SameRun
  <1>. QED
    BY <1>1, <1>2, <1>3 DEF Next, Finished

\* Only a press shows another run.
LEMMA NothingNewShown ==
  ASSUME TypeOK, NEW q \in Runs,
         \/ PostFails(q) \/ Cancel(q) \/ Browser(q) \/ Connect(q)
         \/ RestHandler(q) \/ WsHandler(q) \/ RowLoop(q) \/ RowsFail(q)
  PROVE  stmt' = stmt /\ overlap' = overlap /\ \A r \in Runs : Shown(r)' => Shown(r)
  <1>0. DOMAIN ui = Runs
    BY DEF TypeOK, EditorTypes
  <1>1. CASE \/ Connect(q) \/ RestHandler(q) \/ WsHandler(q) \/ RowLoop(q) \/ RowsFail(q)
    <2>1. stmt' = stmt /\ ui' = ui /\ overlap' = overlap
      BY <1>1 DEF Connect, Open, Drop, RestHandler, RestStart, RestUnresolved, RestAnswered,
         RestAnsweredAs, RestGivesUp, RestUnheard, WsHandler, ReadExec, ReadCancel,
         ReadFails, WsStart, WsUnresolved, WsAnswered, Columns, Flush, WsReply,
         Unregister, UnregisterTo, RowLoop, NextRow, EndRows, RowsFail
    <2>. QED
      BY <2>1 DEF Shown
  <1>2. CASE PostFails(q)
    BY <1>0, <1>2 DEF PostFails, Shown
  <1>3. CASE Cancel(q)
    BY <1>0, <1>3 DEF Cancel, Shown
  <1>4. CASE Replied(q)
    BY <1>0, <1>4 DEF Replied, Shown
  <1>5. CASE OnEvent(q)
    BY <1>0, <1>5 DEF OnEvent, Shown
  <1>6. CASE OnClose(q)
    BY <1>0, <1>6 DEF OnClose, OnCloseAs, Shown
  <1>. QED
    BY <1>1, <1>2, <1>3, <1>4, <1>5, <1>6 DEF Browser

\* While the presses do not overlap, the editor shows one run.
LEMMA OneShownStep == ASSUME TypeOK, OneShown, [Next]_vars PROVE OneShown'
  <1>1. ASSUME overlap' = overlap, \A r \in Runs : Shown(r)' => Shown(r)
        PROVE  OneShown'
    BY <1>1 DEF OneShown
  <1>2. ASSUME NEW q \in Runs, Press(q) PROVE OneShown'
    <2>1. \A r \in Runs : r # q => ui'[r] = ui[r]
      BY <1>2 DEF Press, TypeOK, EditorTypes
    <2>2. ~overlap' => \A r \in Runs : ~Shown(r)
      BY <1>2 DEF Press
    <2>3. ~overlap' => \A r \in Runs : Shown(r)' => r = q
      BY <2>1, <2>2 DEF Shown
    <2>. QED
      BY <2>3 DEF OneShown
  <1>3. ASSUME NEW t \in Tasks, Recording(t) \/ Database(t) \/ DBOrphan(t) PROVE OneShown'
    BY <1>1, <1>3, TasksShowNothing DEF Shown
  <1>4. CASE UNCHANGED vars
    BY <1>1, <1>4 DEF Shown
  <1>. QED
    BY <1>1, <1>2, <1>3, <1>4, NothingNewShown DEF Next, Finished

\* What the handler has handed out and what is shown are numbers of rows.
LEMMA Amounts ==
  ASSUME TypeOK, NEW r \in Runs
  PROVE  /\ Given(r) \in Nat /\ st[r].total \in Nat /\ st[r].offset \in Nat /\ st[r].batch \in Nat
         /\ wire[r] \in Seq(Events)
         /\ result # None => result \in Results /\ result.rows \in Rows /\ Len(result.rows) \in Nat
  <1>1. st[r] \in [total : 0..RowLimit, batch : 0..BatchSize, offset : 0..RowLimit,
                   truncated : BOOLEAN]
    BY DEF TypeOK, LocalTypes
  <1>2. wire[r] \in Seq(Events) /\ result \in Results \cup {None}
    BY DEF TypeOK, SocketTypes, EditorTypes
  <1>3. st[r].total \in Nat /\ st[r].offset \in Nat /\ st[r].batch \in Nat
    BY <1>1, SizesAssumption
  <1>. QED
    BY <1>2, <1>3 DEF Given, Results, Rows

\* A step that neither shows nor sends anything.
LEMMA StreamsQuiet ==
  ASSUME TypeOK, NEW r \in Runs, Streams(r),
         UNCHANGED <<stmt, ui, result, overlap>>, wire'[r] = wire[r],
         net'[r] \in {"connecting", "up"} => net[r] \in {"connecting", "up"},
         Given(r)' = Given(r)
  PROVE  Streams(r)'
  BY DEF Streams

\* A step that sends an event.
LEMMA StreamsSent ==
  ASSUME TypeOK, NEW r \in Runs, Streams(r), NEW e \in Events, Sent(r, e),
         net[r] \notin {"none", "connecting"},
         UNCHANGED <<stmt, ui, result, overlap, net>>, NEW c \in Nat, Given(r)' = c,
         Moves(r, stmt[r], e, Given(r), c)
  PROVE  Streams(r)'
  <1>1. SUFFICES ASSUME ~overlap, ui[r] = "streaming", net[r] = "up", result # None,
                        Carries(r, stmt[r], wire[r], Len(result.rows), Given(r))
                 PROVE  Carries(r, stmt[r], wire'[r], Len(result.rows), c)
    BY DEF Streams
  <1>2. wire'[r] = Append(wire[r], e)
    BY <1>1 DEF Sent, TypeOK, SocketTypes
  <1>3. Carries(r, stmt[r], Append(wire[r], e), Len(result.rows), c)
    BY <1>1, Amounts, CarriesAppend
  <1>. QED
    BY <1>2, <1>3

\* A step that finds the socket broken.
LEMMA StreamsBroken ==
  ASSUME TypeOK, NEW r \in Runs, Streams(r), StreamBroken(r), net[r] # "connecting",
         UNCHANGED <<stmt, ui, result, overlap, net>>
  PROVE  Streams(r)'
  <1>1. net[r] # "up" /\ net'[r] = net[r]
    BY DEF StreamBroken, WriteFails
  <1>. QED
    BY <1>1 DEF Streams

\* The next rows, and the end, of a stream.
LEMMA EventMoves ==
  ASSUME NEW r \in Runs, NEW a \in Nat, NEW n \in Nat, NEW s, NEW tr \in BOOLEAN
  PROVE  /\ [type |-> "columns"] \in Events /\ Moves(r, s, [type |-> "columns"], 0, 0)
         /\ ErrorEvent \in Events /\ Moves(r, s, ErrorEvent, a, a)
         /\ LET e == [type |-> "rows", rows |-> RowsOf(r, a, n)]
            IN  e \in Events /\ Moves(r, s, e, a, a + n)
         /\ LET e == [type |-> "done", truncated |-> tr]
            IN  e \in Events /\ (a = Least(s.size, RowLimit) /\ (tr <=> s.size > RowLimit)
                                   => Moves(r, s, e, a, a))
  <1>1. RowsOf(r, a, n) \in Rows
    BY RowsOfType
  <1>2. Len(RowsOf(r, a, n)) = n
    BY DEF RowsOf
  <1>. QED
    BY <1>1, <1>2 DEF Events, ErrorEvent, Moves

\* The steps of the handler keep what its run is shown in step.
LEMMA HandlerStreams ==
  ASSUME TypeOK, NEW r \in Runs, RunInv(r), YieldInv(r), Streams(r),
         WsHandler(r) \/ RowLoop(r) \/ RowsFail(r)
  PROVE  Streams(r)'
  <1>0. /\ Ws(r) \in Tasks /\ Phases(r) /\ Stands(r) /\ Counters(r) /\ Yielded(r) /\ Asked(r)
        /\ st \in [Runs -> [total : 0..RowLimit, batch : 0..BatchSize, offset : 0..RowLimit,
                            truncated : BOOLEAN]]
    BY RestWs DEF RunInv, YieldInv, TypeOK, LocalTypes
  <1>1. UNCHANGED <<stmt, ui, result, overlap, net>>
    BY DEF WsHandler, ReadExec, ReadCancel, ReadFails, WsStart, WsUnresolved, WsAnswered,
           Columns, Flush, WsReply, Unregister, UnregisterTo, RowLoop, NextRow, EndRows, RowsFail
  <1>2. pc[Ws(r)] # "idle" => net[r] \notin {"none", "connecting"}
    BY <1>0 DEF Phases
  <1>3. \/ Given(r)' # Given(r) \/ wire'[r] # wire[r] \/ Streams(r)'
    BY <1>1, StreamsQuiet
  <1>4. ASSUME NEW e \in Events, Sent(r, e), pc[Ws(r)] # "idle", NEW c \in Nat, Given(r)' = c,
               Moves(r, stmt[r], e, Given(r), c)
        PROVE  Streams(r)'
    BY <1>1, <1>2, <1>4, StreamsSent
  <1>5. StreamBroken(r) /\ pc[Ws(r)] # "idle" => Streams(r)'
    BY <1>1, <1>2, StreamsBroken
  <1>6. UNCHANGED <<st, outcome>> => Given(r)' = Given(r)
    BY DEF Given
  <1>7. Given(r) \in Nat /\ st[r].total \in Nat /\ st[r].offset \in Nat /\ st[r].batch \in Nat
    BY Amounts
  <1> HIDE DEF StreamBroken, Sent
  <1>11. CASE ReadExec(r) \/ ReadFails(r) \/ WsStart(r) \/ Unregister(r)
    BY <1>3, <1>6, <1>11 DEF ReadExec, ReadFails, WsStart, Unregister, UnregisterTo
  <1>12. CASE ReadCancel(r) \/ WsUnresolved(r)
    <2>1. Sent(r, ErrorEvent) /\ pc[Ws(r)] # "idle" /\ UNCHANGED <<st, outcome>>
      BY <1>12 DEF ReadCancel, WsUnresolved
    <2>. QED
      BY <1>4, <1>6, <1>7, <2>1, EventMoves
  <1>13. CASE WsAnswered(r)
    <2>1. /\ pc[Ws(r)] = "run" /\ UNCHANGED <<st, wire>>
      BY <1>13 DEF WsAnswered
    <2>2. st[r].total = 0 /\ st[r].offset = 0
      BY <1>0, <2>1 DEF Yielded, FreshLocals
    <2>. QED
      BY <1>3, <2>1, <2>2 DEF Given
  <1>14. CASE Columns(r)
    <2>1. pc[Ws(r)] = "run"
      BY <1>14 DEF Columns
    <2>2. Given(r) = 0
      BY <1>0, <2>1 DEF Yielded, FreshLocals, Given
    <2>3. \/ Sent(r, [type |-> "columns"]) /\ UNCHANGED <<st, outcome>>
          \/ StreamBroken(r)
      BY <1>14 DEF Columns
    <2>4. [type |-> "columns"] \in Events /\ Moves(r, stmt[r], [type |-> "columns"], 0, 0)
      BY EventMoves
    <2>5. CASE Sent(r, [type |-> "columns"]) /\ UNCHANGED <<st, outcome>>
      BY <1>4, <1>6, <2>1, <2>2, <2>4, <2>5
    <2>. QED
      BY <1>5, <2>1, <2>3, <2>5
  <1>15. CASE NextRow(r)
    <2>1. pc[Ws(r)] = "rows" /\ outcome[Ws(r)] = "none"
      BY <1>0, <1>15 DEF NextRow, Yielded
    <2>2. CASE StreamBroken(r)
      BY <1>5, <2>1, <2>2
    <2>3. CASE /\ st' = [st EXCEPT ![r].total = @ + 1, ![r].batch = st[r].batch + 1]
               /\ UNCHANGED <<wire, pc, outcome, db>>
      <3>1. st'[r].offset = st[r].offset
        BY <1>0, <2>3
      <3>. QED
        BY <1>3, <2>1, <2>3, <3>1 DEF Given
    <2>4. CASE /\ Sent(r, RowBatch(r, st[r].batch + 1))
               /\ st' = [st EXCEPT ![r].total = @ + 1, ![r].batch = 0,
                                   ![r].offset = @ + (st[r].batch + 1)]
               /\ UNCHANGED <<pc, outcome, db>>
      <3>1. st'[r].offset = st[r].offset + (st[r].batch + 1)
        BY <1>0, <2>4
      <3>2. Given(r) = st[r].offset /\ Given(r)' = st[r].offset + (st[r].batch + 1)
        BY <2>1, <2>4, <3>1 DEF Given
      <3>3. st[r].batch + 1 \in Nat /\ st[r].offset + (st[r].batch + 1) \in Nat
        BY <1>7
      <3>4. /\ RowBatch(r, st[r].batch + 1) \in Events
            /\ Moves(r, stmt[r], RowBatch(r, st[r].batch + 1), st[r].offset,
                     st[r].offset + (st[r].batch + 1))
        BY <1>7, <3>3, EventMoves DEF RowBatch
      <3>. QED
        BY <1>4, <2>1, <2>4, <3>2, <3>3, <3>4
    <2>. QED
      BY <1>15, <2>2, <2>3, <2>4 DEF NextRow
  <1>16. CASE EndRows(r)
    <2>1. /\ pc[Ws(r)] = "rows" /\ UNCHANGED <<wire, outcome>>
          /\ st'[r].offset = st[r].offset /\ outcome[Ws(r)] = "none"
      BY <1>0, <1>16 DEF EndRows, Yielded
    <2>. QED
      BY <1>3, <2>1 DEF Given
  <1>17. CASE RowsFail(r)
    <2>1. /\ outcome[Ws(r)] = "none" /\ outcome'[Ws(r)] = "error" /\ UNCHANGED <<wire, st>>
      BY <1>0, <1>17, Domains DEF RowsFail, Yielded
    <2>. QED
      BY <1>3, <2>1 DEF Given
  <1>18. CASE Flush(r)
    <2>1. pc[Ws(r)] = "flush" /\ outcome[Ws(r)] = "none" /\ Given(r) = st[r].offset
      BY <1>0, <1>18 DEF Flush, Yielded, Given
    <2>2. CASE StreamBroken(r)
      BY <1>5, <2>1, <2>2
    <2>3. CASE ~StreamBroken(r)
      <3>1. /\ IF st[r].batch > 0 THEN Sent(r, RowBatch(r, st[r].batch)) ELSE wire' = wire
            /\ outcome'[Ws(r)] = "ok" /\ st' = st
        BY <1>0, <1>18, <2>3, Domains DEF Flush
      <3>2. Given(r)' = st[r].offset + st[r].batch
        BY <1>0, <3>1 DEF Given, Counters
      <3>3. CASE st[r].batch > 0
        <4>1. st[r].batch \in Nat /\ st[r].offset \in Nat /\ st[r].offset + st[r].batch \in Nat
          BY <1>7
        <4>2. /\ RowBatch(r, st[r].batch) \in Events
              /\ Moves(r, stmt[r], RowBatch(r, st[r].batch), st[r].offset,
                       st[r].offset + st[r].batch)
          BY <4>1, EventMoves DEF RowBatch
        <4>. QED
          BY <1>4, <2>1, <3>1, <3>2, <3>3, <4>1, <4>2
      <3>4. CASE ~(st[r].batch > 0)
        <4>1. Given(r)' = Given(r)
          BY <1>7, <2>1, <3>2, <3>4
        <4>. QED
          BY <1>3, <3>1, <3>4, <4>1
      <3>. QED
        BY <3>3, <3>4
    <2>. QED
      BY <2>2, <2>3
  <1>19. CASE WsReply(r)
    <2>1. pc[Ws(r)] = "reply" /\ UNCHANGED <<st, outcome>>
      BY <1>19 DEF WsReply
    <2>2. CASE outcome[Ws(r)] = "ok"
      <3>1. Sent(r, [type |-> "done", truncated |-> st[r].truncated])
        BY <1>19, <2>2 DEF WsReply
      <3>2. /\ Given(r) = Least(stmt[r].size, RowLimit)
            /\ st[r].truncated <=> stmt[r].size > RowLimit
            /\ st[r].truncated \in BOOLEAN
        BY <1>0, <2>2 DEF Yielded, Given
      <3>. QED
        BY <1>4, <1>6, <1>7, <2>1, <3>1, <3>2, EventMoves
    <2>3. CASE outcome[Ws(r)] # "ok"
      <3>1. Sent(r, ErrorEvent)
        BY <1>19, <2>3 DEF WsReply
      <3>. QED
        BY <1>4, <1>6, <1>7, <2>1, <3>1, EventMoves
    <2>. QED
      BY <2>2, <2>3
  <1>. QED
    BY <1>11, <1>12, <1>13, <1>14, <1>15, <1>16, <1>17, <1>18, <1>19 DEF WsHandler, RowLoop

\* A part of a run's rows has its length.
LEMMA RowsOfLength == ASSUME NEW r, NEW a, NEW n \in Nat PROVE Len(RowsOf(r, a, n)) = n
  BY DEF RowsOf

\* What an event makes of the rows shown.
LEMMA EventShown ==
  ASSUME TypeOK, NEW r \in Runs, Streams(r), ~overlap, OnEvent(r)
  PROVE  \E c \in Nat :
           /\ Carries(r, stmt[r], wire'[r], c, Given(r))
           /\ result' # None /\ result'.rows = RowsOf(r, 0, c) /\ Len(result'.rows) = c
           /\ ui'[r] = "streaming" => ~result'.final
           /\ result'.final => /\ c = Least(stmt[r].size, RowLimit)
                               /\ result'.truncated <=> stmt[r].size > RowLimit
  <1> DEFINE ev == Head(wire[r])
             a  == Len(result.rows)
  <1>1. /\ ui[r] = "streaming" /\ net[r] = "up" /\ wire[r] # <<>> /\ wire'[r] = Tail(wire[r])
        /\ ui' = [ui EXCEPT ![r] = IF ev.type \in {"done", "error"} THEN "closing" ELSE @]
    BY DEF OnEvent, TypeOK, SocketTypes
  <1>2. /\ result # None /\ ~result.final /\ result.rows = RowsOf(r, 0, a)
        /\ Carries(r, stmt[r], wire[r], a, Given(r))
    BY <1>1 DEF Streams
  <1>3. wire[r] \in Seq(Events) /\ a \in Nat /\ result \in Results
    BY <1>2, Amounts
  <1>4. PICK c \in Nat : Moves(r, stmt[r], ev, a, c) /\ Carries(r, stmt[r], wire'[r], c, Given(r))
    BY <1>1, <1>2, <1>3, CarriesTail
  <1>5. ev \in Events /\ ev.type \in {"columns", "error", "rows", "done"}
    <2>1. ev \in Events
      BY <1>1, <1>3
    <2> HIDE DEF ev
    <2>. QED
      BY <2>1 DEF Events
  <1>6. EmptyResult \in Results /\ EmptyResult.rows = <<>> /\ ~EmptyResult.final
    BY DEF EmptyResult, Results, Rows
  <1>7. ASSUME NEW x \in Results, result' = x, x.rows = RowsOf(r, 0, c),
               ev.type # "done" => ~x.final,
               x.final => /\ c = Least(stmt[r].size, RowLimit)
                          /\ x.truncated <=> stmt[r].size > RowLimit
        PROVE  /\ result' # None /\ result'.rows = RowsOf(r, 0, c) /\ Len(result'.rows) = c
               /\ ui'[r] = "streaming" => ~result'.final
               /\ result'.final => /\ c = Least(stmt[r].size, RowLimit)
                                   /\ result'.truncated <=> stmt[r].size > RowLimit
    <2>1. ui'[r] = "streaming" => ev.type # "done"
      BY <1>1 DEF TypeOK, EditorTypes
    <2>. QED
      BY <1>7, <2>1, RowsOfLength, ResultsAssumption
  <1> HIDE DEF ev, a
  <1>8. CASE ev.type = "columns"
    <2>1. result' = EmptyResult
      BY <1>8 DEF OnEvent, ev
    <2>2. c = 0 /\ RowsOf(r, 0, 0) = <<>>
      BY <1>4, <1>8 DEF Moves, RowsOf
    <2>. QED
      BY <1>4, <1>6, <1>7, <2>1, <2>2
  <1>9. CASE ev.type = "error"
    <2>1. result' = result
      BY <1>9 DEF OnEvent, ev
    <2>2. c = a
      BY <1>4, <1>9 DEF Moves
    <2>. QED
      BY <1>2, <1>3, <1>4, <1>7, <2>1, <2>2
  <1>10. CASE ev.type = "rows"
    <2> DEFINE x == [result EXCEPT !.rows = @ \o ev.rows]
    <2>1. result' = x
      BY <1>2, <1>10 DEF OnEvent, ev
    <2>2. x \in Results
      BY <1>2, <1>5, <1>10, EventTypes DEF TypeOK
    <2>3. ev.rows \in Rows /\ Len(ev.rows) \in Nat
      BY <1>5, <1>10 DEF Events, Rows
    <2>4. ev.rows = RowsOf(r, a, Len(ev.rows)) /\ c = a + Len(ev.rows)
      BY <1>4, <1>10 DEF Moves
    <2>5. x.rows = result.rows \o ev.rows /\ x.final = result.final
      BY <1>3 DEF Results
    <2>6. x.rows = RowsOf(r, 0, c)
      BY <1>2, <1>3, <2>3, <2>4, <2>5, RowsFollow
    <2> HIDE DEF x
    <2>. QED
      BY <1>2, <1>4, <1>7, <2>1, <2>2, <2>5, <2>6
  <1>11. CASE ev.type = "done"
    <2> DEFINE x == [result EXCEPT !.truncated = ev.truncated, !.final = TRUE]
    <2>1. result' = x
      BY <1>2, <1>11 DEF OnEvent, ev
    <2>2. x \in Results
      BY <1>2, <1>5, <1>11, EventTypes DEF TypeOK
    <2>3. x.rows = result.rows /\ x.truncated = ev.truncated
      BY <1>3 DEF Results
    <2>4. /\ c = a /\ a = Least(stmt[r].size, RowLimit)
          /\ ev.truncated <=> stmt[r].size > RowLimit
      BY <1>4, <1>11 DEF Moves
    <2> HIDE DEF x
    <2>. QED
      BY <1>2, <1>4, <1>7, <1>11, <2>1, <2>2, <2>3, <2>4
  <1>. QED
    BY <1>5, <1>8, <1>9, <1>10, <1>11

\* The steps of a run keep what it is shown in step with its handler.
LEMMA OwnStreams ==
  ASSUME TypeOK, NEW r \in Runs, RunInv(r), YieldInv(r), Streams(r),
         \/ Press(r) \/ PostFails(r) \/ Cancel(r) \/ Browser(r) \/ Connect(r)
         \/ RestHandler(r) \/ WsHandler(r) \/ RowLoop(r) \/ RowsFail(r)
  PROVE  Streams(r)'
  <1>0. /\ DOMAIN ui = Runs /\ DOMAIN net = Runs /\ DOMAIN wire = Runs
        /\ Rest(r) # Ws(r) /\ Ws(r) \in Tasks
    BY RestWs DEF TypeOK, EditorTypes, SocketTypes
  <1>1. CASE Press(r) \/ PostFails(r) \/ Cancel(r) \/ OnClose(r)
    <2>1. ui'[r] # "streaming"
      BY <1>0, <1>1 DEF Press, PostFails, Cancel, OnClose, OnCloseAs
    <2>. QED
      BY <2>1 DEF Streams
  <1>2. CASE Replied(r)
    <2>1. CASE ui'[r] # "streaming"
      BY <2>1 DEF Streams
    <2>2. CASE ui'[r] = "streaming"
      <3>1. result' = EmptyResult /\ UNCHANGED <<stmt, wire, st, outcome>> /\ ui[r] = "posting"
        BY <1>0, <1>2, <2>2 DEF Replied
      <3>2. wire[r] = <<>> /\ pc[Ws(r)] = "idle"
        BY <3>1 DEF RunInv, Phases, YieldInv, Asked
      <3>3. Given(r) = 0 /\ Given(r)' = Given(r)
        BY <3>1, <3>2 DEF YieldInv, Yielded, Given, FreshLocals
      <3>4. EmptyResult \in Results /\ EmptyResult.rows = <<>> /\ ~EmptyResult.final
        BY DEF EmptyResult, Results, Rows
      <3>5. RowsOf(r, 0, 0) = <<>> /\ Len(<<>>) = 0
        BY DEF RowsOf
      <3>6. Carries(r, stmt[r], <<>>, 0, 0)
        BY CarriesNothing
      <3>. QED
        BY <3>1, <3>2, <3>3, <3>4, <3>5, <3>6, ResultsAssumption DEF Streams
    <2>. QED
      BY <2>1, <2>2
  <1>3. CASE OnEvent(r)
    <2>1. UNCHANGED <<stmt, st, outcome, overlap>> /\ Given(r)' = Given(r)
      BY <1>3 DEF OnEvent, Given
    <2>. QED
      BY <1>3, <2>1, EventShown DEF Streams
  <1>4. CASE Open(r)
    BY <1>0, <1>4, StreamsQuiet DEF Open, Given
  <1>5. CASE Drop(r)
    <2>1. UNCHANGED <<stmt, ui, result, overlap>> /\ net'[r] = "down"
      BY <1>0, <1>5 DEF Drop
    <2>. QED
      BY <2>1 DEF Streams
  <1>6. CASE RestHandler(r)
    <2>1. UNCHANGED <<stmt, ui, result, overlap, net, wire, st>>
      BY <1>6 DEF RestHandler, RestStart, RestUnresolved, RestAnswered, RestAnsweredAs,
                  RestGivesUp, RestUnheard
    <2>2. \/ outcome' = outcome
          \/ \E o : outcome' = [outcome EXCEPT ![Rest(r)] = o]
      BY <1>6 DEF RestHandler, RestStart, RestUnresolved, RestAnswered, RestAnsweredAs,
                  RestGivesUp, RestUnheard
    <2>3. outcome'[Ws(r)] = outcome[Ws(r)]
      BY <1>0, <2>2, Domains
    <2>. QED
      BY <2>1, <2>3, StreamsQuiet DEF Given
  <1>7. CASE WsHandler(r) \/ RowLoop(r) \/ RowsFail(r)
    BY <1>7, HandlerStreams
  <1>. QED
    BY <1>1, <1>2, <1>3, <1>4, <1>5, <1>6, <1>7 DEF Browser, Connect

\* Only a run that is shown changes what is shown.
LEMMA ShownChanges ==
  ASSUME NEW q \in Runs,
         \/ Press(q) \/ PostFails(q) \/ Cancel(q) \/ Browser(q) \/ Connect(q)
         \/ RestHandler(q) \/ WsHandler(q) \/ RowLoop(q) \/ RowsFail(q)
  PROVE  \/ result' = result
         \/ Shown(q) /\ (PostFails(q) \/ Replied(q) \/ OnEvent(q))
  <1>1. CASE PostFails(q) \/ Replied(q) \/ OnEvent(q)
    BY <1>1 DEF PostFails, Replied, OnEvent, Shown
  <1>2. CASE ~(PostFails(q) \/ Replied(q) \/ OnEvent(q))
    BY <1>2 DEF Press, Cancel, Browser, OnClose, OnCloseAs,
         Connect, Open, Drop, RestHandler, RestStart, RestUnresolved, RestAnswered,
         RestAnsweredAs, RestGivesUp, RestUnheard, WsHandler, ReadExec, ReadCancel,
         ReadFails, WsStart, WsUnresolved, WsAnswered, Columns, Flush, WsReply,
         Unregister, UnregisterTo, RowLoop, NextRow, EndRows, RowsFail
  <1>. QED
    BY <1>1, <1>2

\* A step forgets no overlap.
LEMMA OverlapStays == ASSUME TypeOK, [Next]_vars PROVE overlap => overlap'
  <1>1. ASSUME NEW q \in Runs, Press(q) PROVE overlap => overlap'
    BY <1>1 DEF Press
  <1>. QED
    BY <1>1, NothingNewShown, TasksShowNothing DEF Next, Finished

\* Every step keeps every run in step with its handler.
LEMMA StreamStep ==
  ASSUME TypeOK, \A r \in Runs : RunInv(r) /\ YieldInv(r) /\ Streams(r), OneShown, [Next]_vars
  PROVE  (\A r \in Runs : Streams(r))'
  <1> SUFFICES ASSUME NEW r \in Runs PROVE Streams(r)'
    OBVIOUS
  <1>0. overlap => overlap'
    BY OverlapStays
  <1>1. ASSUME SameRun(r), wire'[r] = wire[r], result' = result
        PROVE  Streams(r)'
    BY <1>0, <1>1 DEF SameRun, Streams, Given
  <1>2. ASSUME NEW q \in Runs,
               \/ Press(q) \/ PostFails(q) \/ Cancel(q) \/ Browser(q) \/ Connect(q)
               \/ RestHandler(q) \/ WsHandler(q) \/ RowLoop(q) \/ RowsFail(q)
        PROVE  Streams(r)'
    <2>1. CASE q = r
      BY <1>2, <2>1, OwnStreams
    <2>2. CASE q # r
      <3>1. SameRun(r) /\ wire'[r] = wire[r]
        BY <1>2, <2>2, OtherRuns, OtherWire
      <3>2. CASE result' = result
        BY <1>1, <3>1, <3>2
      <3>3. CASE Shown(q)
        <4>1. ~overlap => ui[r] # "streaming"
          BY <2>2, <3>3 DEF OneShown, Shown
        <4>. QED
          BY <1>0, <3>1, <4>1 DEF SameRun, Streams
      <3>. QED
        BY <1>2, <3>2, <3>3, ShownChanges
    <2>. QED
      BY <2>1, <2>2
  <1>3. ASSUME NEW t \in Tasks, Recording(t) \/ Database(t) \/ DBOrphan(t)
        PROVE  Streams(r)'
    BY <1>3, TasksShowNothing DEF Streams, Given
  <1>4. CASE UNCHANGED vars
    BY <1>4 DEF Streams, Given
  <1>. QED
    BY <1>2, <1>3, <1>4 DEF Next, Finished

\* What handleQuery answers is whole.
LEMMA AnswerWhole ==
  ASSUME TypeOK, NEW r \in Runs, stmt[r] # None
  PROVE  LET x == RestResult(r)
         IN  /\ x.rows = RowsOf(r, 0, Len(x.rows)) /\ Len(x.rows) = Least(stmt[r].size, RowLimit)
             /\ stmt[r].size > RowLimit => x.truncated
             /\ x.truncated /\ r \notin ViaAgent => stmt[r].size > RowLimit
  <1> DEFINE n == Least(stmt[r].size, RowLimit)
  <1>1. /\ stmt[r].size \in Nat /\ stmt[r].kind \in {"read", "write"}
        /\ stmt[r].kind = "write" => stmt[r].size = 0
    BY StatementOf
  <1>2. n \in Nat /\ (stmt[r].size > RowLimit => n >= RowLimit /\ stmt[r].kind = "read")
    BY <1>1, SizesAssumption DEF Least
  <1>3. Len(RowsOf(r, 0, n)) = n
    BY <1>2, RowsOfLength
  <1> HIDE DEF n
  <1>4. /\ RestResult(r).rows = RowsOf(r, 0, n)
        /\ RestResult(r).truncated = (/\ stmt[r].kind = "read"
                                      /\ IF r \in ViaAgent THEN n >= RowLimit
                                                           ELSE stmt[r].size > RowLimit)
    BY DEF RestResult, n
  <1>. QED
    BY <1>2, <1>3, <1>4 DEF n

\* Every step keeps what is shown a part of one statement's rows, and the whole when it is
\* called so.
LEMMA WholeStep ==
  ASSUME TypeOK, \A r \in Runs : RunInv(r) /\ YieldInv(r) /\ Streams(r), ResultWhole, [Next]_vars
  PROVE  ResultWhole'
  <1> SUFFICES ASSUME ~overlap', result' # None PROVE ResultWhole'
    BY DEF ResultWhole
  <1>0. ~overlap
    BY OverlapStays
  <1>1. ASSUME result' = result, \A r \in Runs : stmt[r] # None => stmt'[r] = stmt[r]
        PROVE  ResultWhole'
    BY <1>0, <1>1 DEF ResultWhole
  <1>2. ASSUME NEW q \in Runs, Press(q) PROVE ResultWhole'
    <2>1. result' = result /\ stmt[q] = None /\ \A r \in Runs : r # q => stmt'[r] = stmt[r]
      BY <1>2 DEF Press, YieldInv, Asked, TypeOK, EditorTypes
    <2>. QED
      BY <1>1, <2>1
  <1>3. ASSUME NEW q \in Runs,
               \/ PostFails(q) \/ Cancel(q) \/ Browser(q) \/ Connect(q)
               \/ RestHandler(q) \/ WsHandler(q) \/ RowLoop(q) \/ RowsFail(q)
        PROVE  ResultWhole'
    <2>0. stmt' = stmt
      BY <1>3, NothingNewShown
    <2>1. CASE result' = result
      BY <1>1, <2>0, <2>1
    <2>2. CASE PostFails(q)
      BY <2>2 DEF PostFails
    <2>3. CASE Replied(q)
      <3>1. stmt[q] # None
        BY <2>3 DEF RunInv, Phases, Replied
      <3>2. CASE result' = RestResult(q)
        BY <2>0, <3>1, <3>2, AnswerWhole DEF ResultWhole
      <3>3. CASE result' = EmptyResult
        <4>1. EmptyResult.rows = RowsOf(q, 0, Len(EmptyResult.rows)) /\ ~EmptyResult.final
          BY DEF EmptyResult, RowsOf
        <4>. QED
          BY <2>0, <3>1, <3>3, <4>1 DEF ResultWhole
      <3>. QED
        BY <2>3, <3>2, <3>3 DEF Replied
    <2>4. CASE OnEvent(q)
      <3>1. PICK c \in Nat :
              /\ result'.rows = RowsOf(q, 0, c) /\ Len(result'.rows) = c
              /\ result'.final => /\ c = Least(stmt[q].size, RowLimit)
                                  /\ result'.truncated <=> stmt[q].size > RowLimit
        BY <1>0, <2>4, EventShown
      <3>2. stmt[q] # None
        BY <2>4 DEF RunInv, Phases, OnEvent
      <3>. QED
        BY <2>0, <3>1, <3>2 DEF ResultWhole
    <2>. QED
      BY <1>3, <2>1, <2>2, <2>3, <2>4, ShownChanges
  <1>4. ASSUME NEW t \in Tasks, Recording(t) \/ Database(t) \/ DBOrphan(t)
        PROVE  ResultWhole'
    BY <1>1, <1>4, TasksShowNothing
  <1>5. CASE UNCHANGED vars
    BY <1>1, <1>5
  <1>. QED
    BY <1>2, <1>3, <1>4, <1>5 DEF Next, Finished

\* A page starts with nothing shown.
LEMMA ShownInit == Init => ShownInv
  <1> SUFFICES ASSUME Init PROVE ShownInv
    OBVIOUS
  <1>1. ASSUME NEW r \in Runs PROVE YieldInv(r) /\ Streams(r)
    <2>1. Rest(r) \in Tasks /\ Ws(r) \in Tasks
      BY RestWs
    <2>. QED
      BY <2>1 DEF Init, YieldInv, Asked, Yielded, NoExec, Streams
  <1>2. OneShown /\ ResultWhole
    BY DEF Init, OneShown, Shown, ResultWhole
  <1>. QED
    BY <1>1, <1>2, InvInit DEF ShownInv

\* ... and every step keeps what is shown to what was asked and handed out.
LEMMA ShownStep == ShownInv /\ [Next]_vars => ShownInv'
  <1> SUFFICES ASSUME ShownInv, [Next]_vars PROVE ShownInv'
    OBVIOUS
  <1>1. /\ Inv /\ TypeOK /\ OneShown /\ ResultWhole
        /\ \A r \in Runs : RunInv(r) /\ YieldInv(r) /\ Streams(r)
    BY DEF ShownInv, Inv
  <1>. QED
    BY <1>1, InvStep, YieldStep, OneShownStep, StreamStep, WholeStep DEF ShownInv

\* While runs do not overlap, the editor shows the first rows of one statement, without a gap:
\* the batches of streamRowsOverWS, appended as they arrive, and the whole answer of handleQuery.
\* A result called complete is as long as the limit allows and says when rows were left out.
THEOREM WholeSafety == Spec => []ResultWhole
  <1>1. ShownInv => ResultWhole
    BY DEF ShownInv
  <1>. QED
    BY <1>1, ShownInit, ShownStep, PTL DEF Spec

(***************************************************************************)
(* The editor is answered.                                                 *)
(***************************************************************************)
\* The last event of a run is on its way.
LastSent(r) == \E i \in DOMAIN wire[r] : wire[r][i].type \in {"done", "error"}

\* What a run waits for is still to come.
Answered(r) ==
  /\ ui[r] = "posting" => pc[Rest(r)] \in {"resolve", "run", "insert", "prune", "reply"}
  /\ ui[r] = "streaming" => net[r] \in {"connecting", "up", "down"}
  /\ ui[r] = "streaming" /\ net[r] = "up" =>
       \/ pc[Ws(r)] = "read" /\ inbox[r] = <<"exec">>
       \/ pc[Ws(r)] \in {"resolve", "run", "rows", "flush", "insert", "prune", "reply"}
       \/ LastSent(r)

\* Somebody will clear busy, and take the Cancel button away.
Freed ==
  /\ busy => \E r \in Runs : ui[r] \notin {"idle", "closed"}
  /\ running # None => ui[running] \in {"streaming", "cancelled"}

AnsweredInv == TypeOK /\ (\A r \in Runs : Answered(r)) /\ Freed

\* What has been sent on an open socket stays there until it is read.
LEMMA LastStays ==
  ASSUME TypeOK, NEW r \in Runs, NEW e, Sent(r, e), net[r] = "up",
         LastSent(r) \/ e.type \in {"done", "error"}
  PROVE  LastSent(r)'
  <1>1. wire[r] \in Seq(Events) /\ wire'[r] = Append(wire[r], e)
    BY DEF TypeOK, SocketTypes, Sent
  <1>2. /\ DOMAIN wire[r] = 1..Len(wire[r]) /\ Len(wire[r]) \in Nat
        /\ DOMAIN wire'[r] = 1..(Len(wire[r]) + 1) /\ wire'[r][Len(wire[r]) + 1] = e
        /\ \A i \in 1..Len(wire[r]) : wire'[r][i] = wire[r][i]
    BY <1>1, Appended
  <1>. QED
    BY <1>2 DEF LastSent

\* An event that is read and is not the last one leaves the last one there.
LEMMA LastLeft ==
  ASSUME TypeOK, NEW r \in Runs, LastSent(r), wire[r] # <<>>, wire'[r] = Tail(wire[r]),
         Head(wire[r]).type \notin {"done", "error"}
  PROVE  LastSent(r)'
  <1>1. wire[r] \in Seq(Events)
    BY DEF TypeOK, SocketTypes
  <1>2. PICK i \in DOMAIN wire[r] : wire[r][i].type \in {"done", "error"}
    BY DEF LastSent
  <1>3. i \in 1..Len(wire[r]) /\ i # 1 /\ Len(wire[r]) \in Nat
    BY <1>1, <1>2
  <1>4. i - 1 \in DOMAIN Tail(wire[r]) /\ Tail(wire[r])[i - 1] = wire[r][i]
    BY <1>1, <1>3
  <1>. QED
    BY <1>2, <1>4 DEF LastSent

\* What a run's answer depends on.
LEMMA SameAnswered ==
  ASSUME NEW r \in Runs, Answered(r), SameRun(r), wire'[r] = wire[r] PROVE Answered(r)'
  BY DEF Answered, SameRun, LastSent

\* The steps of a run keep its answer coming.
LEMMA OwnAnswered ==
  ASSUME TypeOK, NEW r \in Runs, Answered(r),
         \/ Press(r) \/ PostFails(r) \/ Cancel(r) \/ Browser(r) \/ Connect(r)
         \/ RestHandler(r) \/ WsHandler(r) \/ RowLoop(r) \/ RowsFail(r)
  PROVE  Answered(r)'
  <1>0. Rest(r) # Ws(r) /\ Rest(r) \in Tasks /\ Ws(r) \in Tasks
    BY RestWs
  <1>a. wire'[r] = wire[r] => (LastSent(r)' <=> LastSent(r))
    BY DEF LastSent
  <1>b. \A e : Sent(r, e) /\ net[r] = "up" /\ (LastSent(r) \/ e.type \in {"done", "error"})
               => LastSent(r)'
    BY LastStays
  <1>c. StreamBroken(r) => net[r] # "up"
    BY DEF StreamBroken, WriteFails
  <1>d. \A e : Sent(r, e) /\ net[r] # "up" => wire'[r] = wire[r]
    BY DEF Sent
  <1>e. /\ pc \in [Tasks -> {"idle", "read", "resolve", "run", "rows", "flush", "insert", "prune",
                             "reply", "unregister", "done", "gone"}]
        /\ ui[r] \in {"idle", "posting", "streaming", "cancelled", "closing", "closed"}
    BY DEF TypeOK, HandlerTypes, EditorTypes
  <1> HIDE DEF Sent, StreamBroken, LastSent
  <1> USE <1>0, <1>a, <1>b, <1>c, <1>d, <1>e, Domains DEF Answered
  <1>1. CASE Press(r)
    BY <1>1 DEF Press
  <1>2. CASE PostFails(r)
    BY <1>2 DEF PostFails
  <1>3. CASE Cancel(r)
    BY <1>3 DEF Cancel
  <1>4. CASE Replied(r)
    BY <1>4 DEF Replied, Retried
  <1>5. CASE OnEvent(r)
    <2>1. CASE Head(wire[r]).type \in {"done", "error"}
      BY <1>5, <2>1 DEF OnEvent
    <2>2. CASE Head(wire[r]).type \notin {"done", "error"}
      <3>1. wire'[r] = Tail(wire[r]) /\ wire[r] # <<>>
        BY <1>5 DEF OnEvent, TypeOK, SocketTypes
      <3>2. LastSent(r) => LastSent(r)'
        BY <2>2, <3>1, LastLeft
      <3>. QED
        BY <1>5, <2>2, <3>2 DEF OnEvent
    <2>. QED
      BY <2>1, <2>2
  <1>6. CASE OnClose(r)
    BY <1>6 DEF OnClose, OnCloseAs
  <1>7. CASE Open(r)
    BY <1>7 DEF Open
  <1>8. CASE Drop(r)
    BY <1>8 DEF Drop
  <1>9. CASE RestHandler(r)
    BY <1>9 DEF RestHandler, RestStart, RestUnresolved, RestAnswered, RestAnsweredAs,
                RestGivesUp, RestUnheard
  <1>10. CASE ReadExec(r) \/ ReadFails(r) \/ WsStart(r) \/ WsAnswered(r)
    BY <1>10 DEF ReadExec, ReadFails, WsStart, WsAnswered
  <1>11. CASE ReadCancel(r)
    <2>1. inbox[r] # <<"exec">>
      BY <1>11 DEF ReadCancel
    <2>. QED
      BY <1>11, <2>1 DEF ReadCancel
  <1>12. CASE WsUnresolved(r)
    <2>1. ErrorEvent.type \in {"done", "error"}
      BY DEF ErrorEvent
    <2>. QED
      BY <1>12, <2>1 DEF WsUnresolved
  <1>13. CASE Columns(r)
    BY <1>13 DEF Columns, StreamBroken
  <1>14. CASE Flush(r)
    BY <1>14 DEF Flush, StreamBroken
  <1>15. CASE WsReply(r)
    <2>1. PICK e : Sent(r, e) /\ e.type \in {"done", "error"}
      BY <1>15 DEF WsReply, ErrorEvent
    <2>2. UNCHANGED <<ui, net>>
      BY <1>15 DEF WsReply
    <2>. QED
      BY <1>15, <2>1, <2>2 DEF WsReply
  <1>16. CASE Unregister(r)
    BY <1>16 DEF Unregister, UnregisterTo
  <1>17. CASE NextRow(r)
    BY <1>17 DEF NextRow, StreamBroken
  <1>18. CASE EndRows(r) \/ RowsFail(r)
    BY <1>18 DEF EndRows, RowsFail
  <1>. QED
    BY <1>1, <1>2, <1>3, <1>4, <1>5, <1>6, <1>7, <1>8, <1>9, <1>10, <1>11, <1>12, <1>13, <1>14,
       <1>15, <1>16, <1>17, <1>18 DEF Browser, Connect, WsHandler, RowLoop

\* A record is made between two places at which the editor is still to be answered.
LEMMA TaskAnswered ==
  ASSUME TypeOK, NEW r \in Runs, Answered(r), NEW t \in {Rest(r), Ws(r)},
         Recording(t) \/ Database(t) \/ DBOrphan(t)
  PROVE  Answered(r)'
  <1>0. UNCHANGED <<ui, net, inbox, wire>>
    BY TasksShowNothing, RestWs
  <1>1. /\ \A u \in Tasks : u # t => pc'[u] = pc[u]
        /\ pc'[t] # pc[t] => pc[t] \in {"insert", "prune"} /\ pc'[t] \in {"prune", "reply"}
    BY Domains, RestWs DEF Recording, Insert, Prune, Database, DBAnswer, DBRefuse, DBOrphan
  <1>. QED
    BY <1>0, <1>1, RestWs DEF Answered, LastSent

\* busy and running are cleared with the run they belong to, or before.
LEMMA FreedStep == ASSUME TypeOK, Freed, [Next]_vars PROVE Freed'
  <1>0. /\ DOMAIN ui = Runs /\ running \in Runs \cup {None} /\ None \notin Runs /\ busy \in BOOLEAN
        /\ \A r \in Runs : ui[r] \in {"idle", "posting", "streaming", "cancelled", "closing", "closed"}
    BY NoneAssumption DEF TypeOK, EditorTypes
  <1> USE <1>0 DEF Freed
  <1>1. ASSUME NEW r \in Runs, Press(r) PROVE Freed'
    BY <1>1 DEF Press
  <1>2. ASSUME NEW r \in Runs, PostFails(r) PROVE Freed'
    BY <1>2 DEF PostFails
  <1>3. ASSUME NEW r \in Runs, Cancel(r) PROVE Freed'
    BY <1>3 DEF Cancel
  <1>4. ASSUME NEW r \in Runs, Replied(r) PROVE Freed'
    BY <1>4 DEF Replied
  <1>5. ASSUME NEW r \in Runs, OnEvent(r) PROVE Freed'
    BY <1>5 DEF OnEvent
  <1>6. ASSUME NEW r \in Runs, OnClose(r) PROVE Freed'
    BY <1>6 DEF OnClose, OnCloseAs
  <1>7. ASSUME NEW r \in Runs, \/ Connect(r) \/ RestHandler(r) \/ WsHandler(r) \/ RowLoop(r)
                               \/ RowsFail(r)
        PROVE  UNCHANGED <<ui, busy, running>>
    BY <1>7 DEF Connect, Open, Drop, RestHandler, RestStart, RestUnresolved, RestAnswered,
         RestAnsweredAs, RestGivesUp, RestUnheard, WsHandler, ReadExec, ReadCancel, ReadFails,
         WsStart, WsUnresolved, WsAnswered, Columns, Flush, WsReply, Unregister, UnregisterTo,
         RowLoop, NextRow, EndRows, RowsFail
  <1>8. ASSUME NEW t \in Tasks, Recording(t) \/ Database(t) \/ DBOrphan(t)
        PROVE  UNCHANGED <<ui, busy, running>>
    BY <1>8 DEF Recording, Insert, Prune, Database, DBAnswer, DBRefuse, DBOrphan
  <1>9. UNCHANGED <<ui, busy, running>> => Freed'
    OBVIOUS
  <1>. QED
    BY <1>1, <1>2, <1>3, <1>4, <1>5, <1>6, <1>7, <1>8, <1>9 DEF Next, Finished, Browser

\* Every step keeps every run's answer coming.
LEMMA AnsweredStep == ASSUME TypeOK, TypeOK', AnsweredInv, [Next]_vars PROVE AnsweredInv'
  <1>1. ASSUME NEW r \in Runs PROVE Answered(r)'
    <2>0. Answered(r)
      BY DEF AnsweredInv
    <2>1. ASSUME NEW q \in Runs,
                 \/ Press(q) \/ PostFails(q) \/ Cancel(q) \/ Browser(q) \/ Connect(q)
                 \/ RestHandler(q) \/ WsHandler(q) \/ RowLoop(q) \/ RowsFail(q)
          PROVE  Answered(r)'
      <3>1. CASE q = r
        BY <2>0, <2>1, <3>1, OwnAnswered
      <3>2. CASE q # r
        BY <2>0, <2>1, <3>2, OtherRuns, OtherWire, SameAnswered
      <3>. QED
        BY <3>1, <3>2
    <2>2. ASSUME NEW t \in Tasks, Recording(t) \/ Database(t) \/ DBOrphan(t)
          PROVE  Answered(r)'
      <3>1. PICK q \in Runs : t = Rest(q) \/ t = Ws(q)
        BY TaskOf
      <3>2. CASE q = r
        BY <2>0, <2>2, <3>1, <3>2, TaskAnswered
      <3>3. CASE q # r
        <4>1. t # Rest(r) /\ t # Ws(r) /\ t[1] # r /\ t[1] \in Runs
          BY <3>1, <3>3, RestWs, TaskParts
        <4>2. SameRun(r) /\ wire'[r] = wire[r]
          BY <2>2, <4>1, OtherTasks, TasksShowNothing
        <4>. QED
          BY <2>0, <4>2, SameAnswered
      <3>. QED
        BY <3>2, <3>3
    <2>3. CASE UNCHANGED vars
      BY <2>0, <2>3, SameAnswered DEF SameRun
    <2>. QED
      BY <2>1, <2>2, <2>3 DEF Next, Finished
  <1>2. Freed'
    BY FreedStep DEF AnsweredInv
  <1>. QED
    BY <1>1, <1>2 DEF AnsweredInv

\* The safety half of RunsEnd: whatever fails, SqlEditor.run waits only for a handler that will
\* answer, a statement that is still to be run, or an event that handleWSQuery has sent, and busy
\* is never left set with no run to clear it.
THEOREM AnswerSafety == Spec => []EditorIsAnswered
  <1>1. Init => AnsweredInv
    <2> SUFFICES ASSUME Init PROVE AnsweredInv
      OBVIOUS
    <2>1. TypeOK
      BY TypeInit
    <2>2. (\A r \in Runs : Answered(r)) /\ Freed
      BY DEF Init, Answered, Freed
    <2>. QED
      BY <2>1, <2>2 DEF AnsweredInv
  <1>2. TypeOK /\ TypeOK' /\ AnsweredInv /\ [Next]_vars => AnsweredInv'
    BY AnsweredStep
  <1>3. AnsweredInv => EditorIsAnswered
    BY DEF AnsweredInv, Answered, LastSent, Freed, EditorIsAnswered
  <1>. QED
    BY <1>1, <1>2, <1>3, TypeCorrect, PTL DEF Spec
=============================================================================
