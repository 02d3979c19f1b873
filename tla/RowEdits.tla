------------------------------ MODULE RowEdits ------------------------------
(***************************************************************************)
(* Row editing: the data grid of the browser, which stages edits, deletions *)
(* and new rows and sends them one request at a time, the handlers that run *)
(* them, and the table, which other clients of the database write as well.  *)
(*                                                                         *)
(* A row has an identity that nobody sees, a key column and one other.  The *)
(* page shows all rows in the order of their identities.                    *)
(* Other clients' statements (Others) and staged changes (Staged) are       *)
(* bounded, and so are commits.                                            *)
(***************************************************************************)
EXTENDS Naturals, FiniteSets, Sequences, SequencesExt

CONSTANTS Ids, Keys, Vals, Drafts, Others, Staged, Commits

\* What is assumed of the constants.
Parameters ==
  /\ Ids \subseteq Nat /\ {1, 2} \subseteq Ids /\ IsFiniteSet(Ids)
  /\ Keys \subseteq Nat /\ {1, 2} \subseteq Keys /\ Vals \subseteq Nat /\ 0 \in Vals
  /\ "blank" \in Drafts     \* a draft in which nothing was entered
  /\ Others \in Nat /\ Staged \in Nat /\ Commits \in Nat

ASSUME EditsAssumption == Parameters

VARIABLES
  engine, keyed,  \* the engine's abilities; the table has a primary key
  table,          \* identity -> key and value of its row
  others,         \* statements other clients have run
  grid,           \* page shown, its order, the load under way, whether the grid
                  \* still runs and knows the primary key
  edits, marks, drafts,   \* pendingEdits, pendingDeletes, draftRows
  at, queue, kept,        \* commitChanges: its place, requests to send, drafts that failed
  commits,        \* commits so far
  h,              \* the request at the server
  calm,           \* ghost: the page confirmed was the table, and nobody else has written since
  apart,          \* ghost: no change confirmed alters what another finds its row by
  promised        \* ghost: drafts that were confirmed and have not run

gridVars == <<grid, edits, marks, drafts>>
commitVars == <<at, queue, kept, commits>>
vars == <<engine, keyed, table, others, grid, edits, marks, drafts, at, queue, kept, commits, h,
          calm, apart, promised>>

-----------------------------------------------------------------------------
(* What the engines can do: tell a table's primary key, and change a row    *)
(* that is given by all its old values. Every InsertRow is one INSERT.      *)

MySQL      == [keys |-> TRUE, byMatch |-> TRUE]
MSSQL      == [keys |-> TRUE, byMatch |-> TRUE]
PG         == [keys |-> TRUE, byMatch |-> FALSE]
SQLite     == [keys |-> TRUE, byMatch |-> FALSE]
DuckDB     == [keys |-> TRUE, byMatch |-> FALSE]
Oracle     == [keys |-> TRUE, byMatch |-> FALSE]
Snowflake  == [keys |-> TRUE, byMatch |-> FALSE]
ClickHouse == [keys |-> FALSE, byMatch |-> FALSE]
ByteHouse  == [keys |-> FALSE, byMatch |-> FALSE]
ViaAgent   == [keys |-> TRUE, byMatch |-> FALSE]
EngineAbilities == {MySQL, MSSQL, PG, SQLite, DuckDB, Oracle, Snowflake, ClickHouse, ByteHouse, ViaAgent}

HasKey == keyed /\ engine.keys
Contents(i) == [key |-> table[i].key, val |-> table[i].val]
Page ==
  LET order == SetToSortSeq(DOMAIN table, <)
  IN  [n \in DOMAIN order |-> [id |-> order[n], row |-> Contents(order[n])]]
KeysUnique(t) == keyed => \A i, j \in DOMAIN t : t[i].key = t[j].key => i = j

-----------------------------------------------------------------------------
(* The grid. *)

StagedChanges == Len(edits) + Cardinality(marks) + Cardinality(drafts)
MayUse == grid.alive /\ (at = "idle" => commits < Commits)
MayStage == MayUse /\ at = "idle" /\ StagedChanges < Staged
Idle == UNCHANGED <<engine, keyed, table, others, commitVars, h, calm, apart, promised>>

\* reload. A newer load replaces the one under way, whose answer is dropped:
\* what arrives was read after the last reload.
Asked == [grid EXCEPT !.loading = TRUE]
Reload == MayUse /\ ~grid.loading /\ grid' = Asked /\ UNCHANGED <<edits, marks, drafts>> /\ Idle

\* Another page, order or filter: marks and edits are dropped at once, the
\* page on display stays until the answer arrives.
Turn ==
  /\ MayUse /\ at = "idle"
  /\ grid' = Asked
  /\ edits' = <<>> /\ marks' = {} /\ UNCHANGED drafts /\ Idle

\* A row that is marked and not on the page stops the review's rendering.
Renders(rows) == at = "idle" \/ \A m \in marks : m.at \in DOMAIN rows
LoadArrives ==
  /\ grid.loading
  /\ grid' = [grid EXCEPT !.loading = FALSE, !.shown = Page,
                !.alive = @ /\ Renders(Page)]
  /\ UNCHANGED <<edits, marks, drafts>> /\ Idle
LoadFails ==
  /\ grid.loading /\ grid' = [grid EXCEPT !.loading = FALSE]
  /\ UNCHANGED <<edits, marks, drafts>> /\ Idle

\* A cell is edited: the row is remembered by its key, or by all its values. A later
\* edit of the cell takes the place of the earlier one, the old value removes it.
SameCell(e, n, c) == e.at = n /\ e.col = c
StageEdit == \E n \in DOMAIN grid.shown, c \in {"key", "val"}, v \in Keys \cup Vals :
  /\ MayStage /\ v \in (IF c = "key" THEN Keys ELSE Vals)
  /\ LET shown == grid.shown[n]
         edit == [at |-> n, col |-> c, new |-> v, row |-> shown.row, meant |-> shown.id]
         earlier == {e \in DOMAIN edits : SameCell(edits[e], n, c)}
     IN IF shown.row[c] = v THEN \E e \in earlier : edits' = RemoveAt(edits, e)
        ELSE \/ earlier = {} /\ edits' = Append(edits, edit)
             \/ \E e \in earlier : edits' = [edits EXCEPT ![e] = edit]
  /\ UNCHANGED <<grid, marks, drafts>> /\ Idle

\* A row is marked for deletion by its place on the page; marked or unmarked.
MarkDelete == \E n \in DOMAIN grid.shown :
  /\ MayStage /\ \A m \in marks : m.at # n
  /\ marks' = marks \cup {[at |-> n, meant |-> grid.shown[n].id]}
  /\ UNCHANGED <<grid, edits, drafts>> /\ Idle
UnmarkDelete == \E m \in marks :
  /\ MayUse /\ at = "idle" /\ marks' = marks \ {m}
  /\ UNCHANGED <<grid, edits, drafts>> /\ Idle

AddDraft == \E d \in Drafts \ drafts :
  /\ MayStage /\ drafts' = drafts \cup {d}
  /\ UNCHANGED <<grid, edits, marks>> /\ Idle
Discard ==
  /\ MayUse /\ at = "idle" /\ StagedChanges > 0
  /\ edits' = <<>> /\ marks' = {} /\ drafts' = {}
  /\ promised' = promised \ drafts
  /\ UNCHANGED <<engine, keyed, table, others, grid, commitVars, h, calm, apart>>

-----------------------------------------------------------------------------
(* commitChanges. *)

\* The review lists what is staged; a mark without its row breaks it.
Review ==
  /\ grid.alive /\ at = "idle" /\ StagedChanges > 0 /\ commits < Commits
  /\ IF \A m \in marks : m.at \in DOMAIN grid.shown
     THEN at' = "review" /\ UNCHANGED grid
     ELSE grid' = [grid EXCEPT !.alive = FALSE] /\ UNCHANGED at
  /\ UNCHANGED <<engine, keyed, table, others, edits, marks, drafts, queue, kept, commits, h, calm, apart, promised>>
Cancel ==
  /\ at = "review" /\ grid.alive /\ at' = "idle"
  /\ UNCHANGED <<engine, keyed, table, others, gridVars, queue, kept, commits, h, calm, apart, promised>>

By == IF grid.knowsKey THEN "key" ELSE "match"
Update(e) == [op |-> "update", by |-> By, row |-> e.row, col |-> e.col, new |-> e.new,
              meant |-> e.meant, marked |-> e.meant]
\* A deletion's row is the one that is on the marked place now.
Delete(m) == [op |-> "delete", by |-> By, row |-> grid.shown[m.at].row, col |-> "none", new |-> 0,
              meant |-> grid.shown[m.at].id, marked |-> m.meant]
Insert(d) == [op |-> "insert", by |-> "none", row |-> d, col |-> "none", new |-> 0,
              meant |-> 0, marked |-> 0]
\* Ghosts: the page and the edits show the table as it is; no key is edited that finds
\* a row, and no row that is found by its contents is changed twice.
Current(i, row) == i \in DOMAIN table /\ row = Contents(i)
Calm == /\ \A n \in DOMAIN grid.shown : Current(grid.shown[n].id, grid.shown[n].row)
        /\ \A n \in DOMAIN edits : Current(edits[n].meant, edits[n].row)
Changes(q) == {n \in DOMAIN q : q[n].op # "insert"}
Apart(q) == \A n \in Changes(q) :
  IF q[n].by = "key" THEN q[n].col # "key"
  ELSE \A m \in Changes(q) : q[m].meant = q[n].meant => m = n

\* First the edits, then the deletions, then the new rows; blank drafts are left out.
Confirm ==
  /\ at = "review" /\ grid.alive
  /\ at' = "send" /\ kept' = {} /\ commits' = commits + 1
  /\ queue' = [n \in DOMAIN edits |-> Update(edits[n])]
              \o [n \in 1..Cardinality(marks) |-> Delete(SetToSeq(marks)[n])]
              \o [n \in 1..Cardinality(drafts \ {"blank"}) |-> Insert(SetToSeq(drafts \ {"blank"})[n])]
  /\ calm' = Calm /\ apart' = Apart(queue') /\ promised' = drafts \ {"blank"}
  /\ UNCHANGED <<engine, keyed, table, others, gridVars, h>>

NoRequest == [at |-> "none"]
Send ==
  /\ at = "send" /\ queue # <<>>
  /\ h' = [at |-> "policy", req |-> Head(queue), answer |-> "none", entry |-> "none",
           ran |-> FALSE, touched |-> {}]
  /\ queue' = Tail(queue) /\ at' = "await"
  /\ UNCHANGED <<engine, keyed, table, others, gridVars, kept, commits, calm, apart, promised>>

\* A draft that failed stays; an edit or a deletion that failed does not.
Kept == IF h.req.op = "insert" /\ h.answer = "error" THEN kept \cup {h.req.row} ELSE kept
Receive ==
  /\ at = "await" /\ h.at = "answered"
  /\ at' = "send" /\ kept' = Kept /\ h' = NoRequest
  /\ UNCHANGED <<engine, keyed, table, others, gridVars, queue, commits, calm, apart, promised>>

\* Mutant: the drafts are cleared with the rest.
MutRemaining == {}
Remaining == kept
Finish ==
  /\ at = "send" /\ queue = <<>> /\ at' = "idle"
  /\ edits' = <<>> /\ marks' = {} /\ drafts' = Remaining /\ kept' = {}
  /\ grid' = IF grid.alive THEN Asked ELSE grid
  /\ calm' = FALSE
  /\ UNCHANGED <<engine, keyed, table, others, queue, commits, h, apart, promised>>

-----------------------------------------------------------------------------
(* The handlers. *)

Server == UNCHANGED <<engine, keyed, others, gridVars, commitVars, calm, apart>>
NothingRan == UNCHANGED <<table, promised>> /\ Server
Step(next) == h' = [h EXCEPT !.at = next] /\ NothingRan
Refuse == h' = [h EXCEPT !.at = "answered", !.answer = "error"] /\ NothingRan
\* recordDMLAudit and the answer.
\* Mutant: a statement that failed is not recorded.
MutEntry(ok) == IF ok THEN "executed" ELSE "none"
Entry(ok) == IF ok THEN "executed" ELSE "failed"
Record(ok) == h' = [h EXCEPT !.at = "answered", !.entry = Entry(ok), !.answer = IF ok THEN "ok" ELSE "error"]

\* enforceDMLPolicy: a denied attempt is recorded.
Allow == h.at = "policy" /\ Step(IF h.req.op = "insert" THEN "run" ELSE "keys")
Deny ==
  /\ h.at = "policy"
  /\ h' = [h EXCEPT !.at = "answered", !.entry = "denied", !.answer = "error"]
  /\ NothingRan

\* The primary key decides how the row is found.
FindByKey == h.at = "keys" /\ HasKey /\ h.req.by = "key" /\ Step("run")
FindByMatch == h.at = "keys" /\ ~HasKey /\ engine.byMatch /\ h.req.by = "match" /\ Step("count")
CannotFind ==
  /\ h.at = "keys" /\ ~(HasKey /\ h.req.by = "key") /\ ~(~HasKey /\ engine.byMatch /\ h.req.by = "match")
  /\ Refuse
LookupFails == h.at = "keys" /\ Refuse

Found == {i \in DOMAIN table : IF HasKey THEN table[i].key = h.req.row.key ELSE Contents(i) = h.req.row}
\* matchGuard: exactly one row, or nothing is done.
\* Mutant: several rows are as good as one.
MutGuard == Found # {}
Guard == Cardinality(Found) = 1
CountRows ==
  /\ h.at = "count"
  /\ \/ Guard /\ Step("run")
     \/ ~Guard /\ Record(FALSE) /\ NothingRan
     \/ Record(FALSE) /\ NothingRan

Changed ==
  [i \in DOMAIN table |->
     IF i \in Found THEN [table[i] EXCEPT ![h.req.col] = h.req.new] ELSE table[i]]
UpdateRow == h.at = "run" /\ h.req.op = "update" /\ KeysUnique(Changed) /\ table' = Changed
DeleteRow ==
  /\ h.at = "run" /\ h.req.op = "delete"
  /\ table' = [i \in DOMAIN table \ Found |-> table[i]]
\* A new row takes a free identity and key.
InsertRow ==
  /\ h.at = "run" /\ h.req.op = "insert"
  /\ \E i \in Ids \ DOMAIN table, k \in Keys :
       /\ \A j \in Ids \ DOMAIN table : i <= j
       /\ table' = [j \in DOMAIN table \cup {i} |-> IF j = i THEN [key |-> k, val |-> 0] ELSE table[j]]
       /\ KeysUnique(table')

\* The statement takes effect and is answered; or is answered by an error: the
\* five seconds are over, or the new key is not a number.
Took(ok) ==
  /\ h' = [h EXCEPT !.at = "ran", !.ran = TRUE, !.answer = IF ok THEN "ok" ELSE "error",
             !.touched = IF h.req.op = "insert" THEN {} ELSE Found]
  /\ promised' = IF h.req.op = "insert" THEN promised \ {h.req.row} ELSE promised
  /\ Server
Run == (UpdateRow \/ DeleteRow \/ InsertRow) /\ \E ok \in BOOLEAN : Took(ok)
RunFails ==
  /\ h.at = "run"
  /\ h' = [h EXCEPT !.at = "ran", !.answer = "error"]
  /\ NothingRan
RecordRun == h.at = "ran" /\ Record(h.answer = "ok") /\ NothingRan

-----------------------------------------------------------------------------
(* Other clients. *)

Other(t) ==
  /\ others < Others /\ (at = "idle" => commits < Commits) /\ others' = others + 1
  /\ KeysUnique(t) /\ table' = t /\ calm' = FALSE
  /\ UNCHANGED <<engine, keyed, gridVars, commitVars, h, apart, promised>>
OtherInserts == \E i \in Ids \ DOMAIN table, k \in Keys :
  Other([j \in DOMAIN table \cup {i} |-> IF j = i THEN [key |-> k, val |-> 0] ELSE table[j]])
OtherDeletes == \E i \in DOMAIN table : Other([j \in DOMAIN table \ {i} |-> table[j]])
OtherUpdates == \E i \in DOMAIN table :
  \/ \E k \in Keys : Other([table EXCEPT ![i].key = k])
  \/ \E v \in Vals : Other([table EXCEPT ![i].val = v])
-----------------------------------------------------------------------------
Init ==
  /\ engine \in EngineAbilities /\ keyed \in BOOLEAN
  /\ \E k \in {1, 2} : table = [i \in {1, 2} |-> [key |-> IF i = 1 THEN 1 ELSE k, val |-> 0]]
  /\ KeysUnique(table)
  /\ others = 0
  /\ \E known \in {FALSE, keyed} :
       grid = [shown |-> <<>>, loading |-> TRUE,
               alive |-> TRUE, knowsKey |-> known]
  /\ edits = <<>> /\ marks = {} /\ drafts = {}
  /\ at = "idle" /\ queue = <<>> /\ kept = {} /\ commits = 0 /\ h = NoRequest
  /\ calm = FALSE /\ apart = FALSE /\ promised = {}

User == \/ Reload \/ Turn \/ StageEdit \/ MarkDelete \/ UnmarkDelete \/ AddDraft
        \/ Discard \/ Review \/ Cancel \/ Confirm
Load == LoadArrives \/ LoadFails
Commit == Send \/ Receive \/ Finish
Handle == \/ Allow \/ Deny \/ FindByKey \/ FindByMatch \/ CannotFind \/ LookupFails
          \/ CountRows \/ Run \/ RunFails \/ RecordRun
Next == User \/ Load \/ Commit \/ Handle \/ OtherInserts \/ OtherDeletes \/ OtherUpdates

Spec == Init /\ [][Next]_vars

-----------------------------------------------------------------------------
(* Properties. *)

\* A statement changes the one row the user saw and meant, never a second one
\* that looks the same or has since taken its key: as long as the page was
\* the table when the changes were confirmed, none of them alters what another
\* finds its row by, and no other client writes in the meantime.
OnlyThatRow == calm /\ apart /\ h.at # "none" => h.touched \subseteq {h.req.meant}

\* When a commit is over, a draft row that was confirmed is in the table or
\* still a draft, whichever of the requests failed.
DraftsKept == at = "idle" /\ grid.alive => promised \subseteq drafts

\* internal/db/mysql/dml.go:180: a row without a key is counted first, so that the
\* wrong one is never changed or deleted. It is the row that was meant.
CountedIsMeant ==
  calm /\ h.at # "none" /\ h.req.by = "match" => h.touched \subseteq {h.req.meant}

\* A statement that took effect has been recorded when the browser hears of
\* it; what is recorded as executed took effect, and what was refused or
\* could not be found did not.
Recorded == h.at = "answered" =>
  /\ h.ran => h.entry \in {"executed", "failed"}
  /\ h.entry = "executed" => h.ran
  /\ h.answer = "ok" <=> h.entry = "executed"

\* DataGrid.tsx:433: the marks are places on the current page, and must be
\* cleared when the page changes "to avoid deleting the wrong row". A row that
\* is deleted is one that was marked.
DeletesTheMarked == h.at # "none" /\ h.req.op = "delete" => h.req.meant = h.req.marked
=============================================================================
