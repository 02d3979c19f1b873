# A TLA+ model of DataseAI

DataseAI is a multi-user web client for SQL databases with an AI chat. The server is one Go
process with an SQLite file for its own records (users, sessions, saved connections, policies,
audit); users' databases are reached directly, through SSH tunnels, or through *connectors* that
run in the target network and dial in. This directory models the parts of it where goroutines,
sockets, clocks and databases meet, checks them with TLC on small instances, and proves the most
important properties with TLAPS for every instance.

Paths below are relative to the repository's root.

## 1. The system

| Component | State it keeps | Operations | What makes it correct | Model |
|---|---|---|---|---|
| AI write proposals (`internal/chat`, `internal/api/chat.go`, `internal/policy`, `internal/store/ai_audit.go`) | `pendingState.chans`, the session's context, `ai_write_audit` | a chat turn: stream the LLM's reply, run its tool calls; propose, show a card, wait, check again, run, record | nothing runs without the user's consent to that statement, nor after the permission was withdrawn; the audit table tells the truth; decisions and cancels are heard | `ChatWrites`, `WriteApproval` |
| AI write policy (`internal/api/ai_policy.go`, `internal/store/ai_policy.go`) | `users.ai_writes_enabled`, `ai_write_policy` | master switch; upsert, batch, delete | changes take effect on proposals that wait | in `ChatWrites` |
| AI read tools (`internal/chat/execute.go`) | none | five tools run by the orchestrator | read-only; leave the pool as they found it | what they leave in the pool |
| LLM clients (`internal/llm`) | none | streams of five vendors; pick a client and its credential | – | streams: nondeterministic input; `Pick` and the token endpoints in `Subscriptions` |
| OAuth token refresh (`internal/api/chat.go`, `*_oauth.go`) | token bundles in `users` | read, refresh, store at the start of a chat | the refresh token that is kept is one the provider still takes | `Subscriptions` |
| Connector agents (`internal/agent`, `internal/api/agents.go`, `internal/store/agents.go`) | registry, waiters per connection, `agents` | hello, register, kick, dispatch, unregister; run a query through a connector | the registry leads to the live connection; answers reach the right request, whole and in order; a statement runs at most once | `AgentRelay`, `RemoteQuery` |
| Connection pool (`internal/db/pool.go`, tunnels) | handle per (user, connection) | Get, Evict, Sweep | a handle fits the saved configuration; nobody's handle is closed for another's sake; nothing stays open | `ConnPool`, `Tunnels` |
| WebSocket queries, kill registry (`internal/api/ws.go`, `internal/db/kill.go`) | running queries by id | execute, stream, cancel, list | a cancel ends its query; the list shows what runs | `SqlRuns`; killing from the list is not |
| HTTP queries, history (`internal/api/query.go`, `internal/store/history.go`) | `query_history` | run, record, prune | every run is recorded truthfully, the newest N are kept; a statement runs once, where it was asked for | `SqlRuns`, `EngineRuns` |
| Row editing (`web/src/components/DataGrid.tsx`, `internal/api/dml.go`, `internal/db/*/dml.go`) | staged changes, DML audit rows | stage, commit; patch, insert, delete | the row that was meant changes and no other, it is recorded, no draft is lost | `RowEdits` |
| Accounts and sessions (`internal/store/users.go`, `sessions.go`, `resetcode.go`, `internal/api/auth.go`, `admin.go`) | users, sessions, reset codes | register, login, change and reset password, revoke, administer | there is always an administrator; old sessions end with the old password; codes are used once; deleted users are gone | `Accounts` |
| Rate limiter (`internal/api/ratelimit.go`) | a bucket per address | allow | – | not modelled |
| Saved connections (`internal/store/connections.go`) | `connections` | CRUD, test | interplay with the pool | update, delete, tests in `ConnPool` |
| Conversations (`internal/store/chatconv.go`) | `chat_conversations` | save, list, delete | – | not modelled |
| Migrations (`internal/store/migrate.go`) | `schema_migrations` | apply, record | each applied once | not modelled |
| SQL classification, splitting, import, export | none | pure functions, I/O | – | first words in `EngineRuns`; otherwise an input |
| Browsing and dialects (`internal/db/*/browse.go`, `internal/api/agent_read.go`, the grid) | the grid's page, order, filter | a page of rows under a filter, and their number | the grid shows what was asked for last; the pager leads to every row | `Browsing`; listings of schemas and columns are not |
| Server plumbing, mail | none | stateless | – | not modelled |
| Web UI (`web/src`) | cards, tabs, editors | – | a card shows the state of its proposal; the editor shows the rows of one run, and can run again | clicks in `ChatWrites`, the SQL editor in `SqlRuns`, the data grid in `Browsing` and `RowEdits`; the cards' pairing is not |

How they interact: an HTTP or WebSocket handler authenticates, reads the saved connection, and
gets an *executor*: a pooled `*sql.DB`, or a connector connection found in the registry. The chat
handler additionally starts the orchestrator (`chat.Run`), which talks back through a channel of
events (capacity 32), and a reader goroutine, which passes the browser's decisions to the
orchestrator through one channel (capacity 1) per proposal.

What is hard to test is listed line by line under `hazards` in `PROJECT.json`.

## 2. The modules

### WriteApproval – what the write path promises
One page: a proposal's row is opened, approved by the user, sent at most once and only with the
consent on record, takes effect at most once, and is settled at most once with a status that is
true. `failed` is the one status that promises nothing.

### ChatWrites – the chat session that implements it
`pc` is the program counter of the orchestrator; each action is one step between two points where
another goroutine can be seen: `Check*`, `Recheck*` (policy.Check reads the master switch and the
row separately, so they are two actions), `RecordProposal`, `Register`, `ShowCard`,
`TakeDecision`/`GiveUp` (the `select`), `Leave` (the deferred delete), `Execute`, `Answer`,
`AnswerLost`, `SettleAudit`, `ToolResult`. `reader` is the reader goroutine with its separate
lookup and send; `handler` forwards `events`; `conn` and `ctxDone` are the socket and the session's
context. `Click`, `Cancel`, `Disconnect`, `SetMaster`, `SetPolicy` are the user; `DBApply`,
`DBRefuse` the database in its own time; `UseDatabase` another request that leaves a pooled session
in another database; `Crash` the end of the process. The LLM may say anything at any time.
SQL text is abstracted to what the classifier says of it (operation, target, validity); the names'
case folding is kept because policy rows are matched exactly and targets are compared folded.

### RemoteQuery – what a query through a connector promises
At most one run; `ok` only after a run; `offline` only of a statement that never runs; `failed`
promises nothing.

### AgentRelay – the connector registry and its executors
`stage[c]` is the handler of one connection: hello, register (two steps, because the old
connection's close handshake happens with the registry locked), read loop, and the deferred
unregister and close as separate steps. `Route` and `Deliver` are the two halves of `dispatch`,
which looks the channel up under the lock and sends after releasing it. `rpc[r]` is one call of
`AgentExecutor.Run`, from the lookup to the deferred unsubscribe. A socket that is `gone` may still
yield data to the reader and swallow writes; a `dead` one does neither. A context that ends during
a write closes the socket, as the WebSocket library does. The connector is external: it runs each
request it receives and sends the frames of the answer in order, or an error. Frames are numbers
(0 meta, 1..Batches rows, then done); rows, columns and `Truncated` are left out. That the agent
belongs to the user (`ac.UserID`) is a static property of the saved connection and left out too.

### SqlRuns – a statement run from the SQL editor
`ui`, `busy`, `running` and `result` are the callback `run` of `SqlEditor.tsx` and the store it
shares with every other run (`store/editor.ts`). `Press` posts the statement to `/api/query`;
`Replied` ends the run, or, on a timeout, opens a WebSocket (`net`, with `inbox` towards the server
and `wire` towards the browser) and sends the same statement again. `Open`, `OnEvent`, `OnClose`
are the socket's callbacks, `Cancel` the button, `Drop` and `PostFails` the network. A *task* is one
of the two executions of a run, and `pc` says where its handler stands: `handleQuery` (`Rest*`) or
the loop of `handleWSQuery` with `handleWSExec` inside it (`ReadExec`, `ReadCancel`, `ReadFails`,
`WsStart`, `WsAnswered`, then `streamRowsOverWS`: `Columns`, `NextRow`, `EndRows`, `Flush`). Both
end in `Insert` and `Prune`, the two statements of `AddHistoryWithCap`. `active` is the registry of
`internal/db/kill.go`; its keys are random ids, one per run, so the run stands for the id. The
database (`DBAnswer`, `DBRefuse`, `DBOrphan`) is external: it answers in its own time, and a write
the server has given up is still its to complete. Rows are numbered, so that a gap, a repetition or
the row of another run can be seen; columns, values and durations are left out.

Three things of the code that a reader of the model will meet:
- a cancel is only read between statements, since one goroutine reads the socket and runs the
  statement; nothing but the database ends a streamed statement that has not produced a row;
- `OnClose` clears `busy` and `running` whoever they belong to, and Ctrl+Enter does not look at
  `busy`: two runs can overlap, and then share one `result`. `overlap` remembers it;
- a write whose first execution ran into the deadline is sent again, and may then take effect twice
  (`TwiceOnlyAfterTimeout` says that there is no other way to that).

### EngineRuns – one statement on one engine
What `SqlRuns` takes as the database's answer, seen from inside: the session a statement takes from
the handle's pool (`Acquire`, `Released`), the database it is told to run in (`UseDatabase`: a statement of
its own, a prefix of the batch, or nothing at all, as each engine's `Run` has it), the words after
which rows are expected (`Classify`), the rows read up to a limit (`NextRow`, `LastRow`), and SQL
Server's search for a table whose bare name did not resolve: `Failed` takes the error apart,
`ListDatabases` and `Locate` ask one database after the other, `Qualify` runs the statement again.
Other clients create and drop the table, connections end (`ConnectionLost`) and contexts are
cancelled at any moment. A batch is one statement. The engines that speak another's protocol are the
one whose `Run` they use.

### ConnPool – saved connections and their handles
A request reads the row, the password and the SSH secret of a connection in three statements and
then asks the pool; an edit writes them in three and then evicts; a deletion removes the row and then
evicts; tests of a saved connection and of a draft open a handle, ping, and evict what they must. The
pool's own operations hold one mutex and are one step each: `Get` finds, replaces, opens or fails,
`Evict`, and `Sweep`, which counts `Idle` ticks for five minutes. Handles are named after the request
that opened them, and values after the edit that wrote them.

### Tunnels – one SSH tunnel
`RegisterSSHDialer` and its closer in six forms: a dialer registered with the driver (MySQL,
PostgreSQL), a connector in a registry (SQL Server), and a listener on the loopback with an accept
loop, a dial and two copies per connection (ClickHouse, Oracle, ByteHouse). Drivers, databases and
the SSH server close when they like. The copy from the database ends when the database's end is
closed (`CopyDownEnds`), or when what the database sends finds the driver gone (`CopyDownFails`).

### Accounts – users, sessions, reset codes, administration
Each SQL statement is a step; no handler opens a transaction, so any two requests interleave between
any two statements. `req[r].at` is the next statement. Every handler begins where its code does:
public ones with their body, private ones with `WithSession` (session, user, and for administrators
`RequireAdmin`, then the session's refresh). SQLite's foreign keys are on, as `store/db.go` opens
the file: sessions go with their user, reset codes forbid the deletion.

### Subscriptions – the tokens of one user
A connection to Claude Code or ChatGPT is a grant, in which access and refresh tokens are numbered.
The settings page exchanges a code and stores the tokens in two steps, disconnects, or pastes an
access token over the stored one; a chat reads the tokens, refreshes them when they are about to
expire, stores what it was given, and opens. The provider may replace the refresh token, after which
the old one is dead, or not; answers and updates may be lost.

### Browsing – the pages of a table
The grid's `reload` with its sequence numbers and aborts, the pager with counted, estimated and
unknown totals, sorting, filtering and limits; the handler's two statements and their order on each
engine; and, as operators, the WHERE clause of each engine: which filters are passed over
(`Written`), how a list is split, how parameters are written (`?`, `$n`, literals) and bound. The
database is a reference evaluator of conditions, order and paging over short texts: `Bound` gives each
placeholder its argument by the position or the number that was written, so an operand that slips
shows in `PageIsRight`, which compares the page with what the filter means in the user's words.

### RowEdits – changing rows from the grid
Staging (`StageEdit`, `MarkDelete`, `AddDraft`), the review, and `commitChanges`, which sends edits,
deletions and drafts one request at a time; the handler (`Allow`/`Deny`, the lookup of the row by
primary key or by all its values, the guard that counts, the statement, the audit row) with the
abilities of each engine; other clients that write the table in between. A row has an identity that
no statement can see, so that "the row that was meant" can be told from one that looks the same.

### The MC modules
`MCChatWrites` and `MCSqlRuns` give constants their values; `MCAgentRelay` also bounds how many
connections and requests a behaviour has (`Few`) and orders their names (`InTurn`). `MCAccounts` puts
`Subscriptions` beside `Accounts`, `MCConnections` puts `Tunnels` and `EngineRuns` beside `ConnPool`,
and `MCGrid` puts `Browsing` beside `RowEdits`. The neighbours share no variable: an account's
operations leave the tokens alone, a handle's sessions do not depend on how the handle was found, an
edit is to the pages one more writer. So their product is not explored: `part` is chosen at the
beginning, and the other modules of the run stay in one initial state. A behaviour of the run is
then a behaviour of one module, and all behaviours of each are in it.

### The modules of proofs
`ChatWritesProofs`, `AgentRelayProofs`, `SqlRunsProofs`, `ConnPoolProofs`, `TunnelsProofs` and
`EngineRunsProofs`: theorems about the module each is named after; `AccountsProofs`: theorems about
`Accounts` and `Subscriptions`; `GridProofs`: theorems about `RowEdits` and `Browsing` (section 5).

## 3. What the runs check

Passing runs:

| Run | Instance | Shows |
|---|---|---|
| `write_safety` | one call, four kinds of input, two policy rows differing in case, two clicks, failing audit writes, crash | `TypeOK`, `NothingRunsUnapproved`, `AuditTruthful`, `RevokedNeverRuns`, and the refinement `ImplementsApproval` |
| `write_progress` | two calls, fairness | `RowsSettle` (a decision or a cancel settles the audit row), `DecisionHeard` (for the later card as well as the first), and `CancelStopsWrites`: nothing is sent after the cancel, nor by the calls that follow |
| `relay` | two connections of one agent and one request, or one connection and two requests; fairness | `OneLiveConnection` (one connection stays open and the registry leads to it), the refinement `KeepsPromise`, `OkIsComplete` with a channel that holds a whole answer, `CallsEnd`, `NoZombies` |
| `sql_one_run` | one run of a write or a read of 0 to 5 rows, limit 3, batches of 2, four faults, fairness | `ResultWhole`, `ActiveListed`, `HistoryTruthful`, `TwiceOnlyAfterTimeout`, `EditorIsAnswered` (the editor never waits for what nobody will send), `RunsEnd` (every run ends and frees the editor) |
| `sql_two_runs` | two runs of one browser, one through an agent, limits of 1 | `ResultWhole` when one run follows another, whose socket may still be closing; `HistoryRecent` when their records overlap |
| `accounts` | two requests of any kind on a server with two accounts or none, one fault; and two chats, two grants with one refresh each | `CodeOpensOnce`, `OldSessionsEnd`, `DeletedIsGone`, `AdminRemains`, `StoredTokenLives` |
| `connections` | two requests on one connection, sweeps after two ticks; one tunnel of each kind with two connections; two statements on two sessions of six engines with two databases | `NothingLeaks`, `Undisturbed`, `Fresh`, `DeletedIsClosed`; `CloserEndsAll`; `RunsWhereAsked`, `RunsOnce`, `RunsEnd` |
| `grid` | tables of two and three rows with a NULL and a tie, four lists of filters, pages of 1 or 2, one or two steps, nine engines and an agent in front of two of them; and one commit of two staged changes on a table of up to three rows, one write of another client | `ShownIsAsked`, `PageIsRight`, `PagerReaches`; `OnlyThatRow`, `DraftsKept`, `Recorded` |

Some of these say under which circumstances they hold, and the circumstances are facts about the
code, not conveniences:
- `AdminRemains` leaves out requests of administrators that overlap. `SetUserAdmin` counts before it
  updates, and two administrators who resign at the same time leave none; likewise two first
  registrations that overlap both become administrators.
- `Fresh` leaves out requests that overlap an edit: such a request may put a handle with the old
  values back after the eviction, where it stays until it is idle.
- `Undisturbed` leaves out a failed test of the saved connection, which evicts the shared handle, and
  requests that hold a handle longer than the sweeper waits since it was last fetched.
- `StoredTokenLives` is checked with a provider that always replaces the refresh token and one that
  never does. With one that does so now and then it fails: a chat that was answered without a new
  token stores the one it read over the one another chat was given.
- `OnlyThatRow` leaves out commits for which the page was not the table as it is (`calm`), and commits in
  which one change alters what another finds its row by (`apart`): a key that is edited along with
  something else, or, in a table without a key, two changes of one row. `counted_match` shows what
  happens then.
- `PageIsRight` speaks of the table as the page's own statement read it, and `PagerReaches` of a number
  of rows that was counted in that same table or is unknown: other clients may write between the two
  statements, and between two pages. An estimate that is too low hides the last pages; an unknown number
  may offer one page too many.

Runs that show a disagreement between the code and what the repository says of it
(`findings` in `PROJECT.json` quotes the lines):

| Run | Property | What happens |
|---|---|---|
| `disconnect_pending` | `DisconnectCancels` | the browser goes away while a card waits: the reader ends without cancelling, the proposal waits for ever and its row stays `proposed` |
| `account_deletion` | `DeletionSucceeds` | a user who ever asked for a reset code cannot be deleted: sessions, connections and history are gone when the last statement fails |
| `counted_match` | `CountedIsMeant` | in a table without a key, a commit edits a row, edits another one so that it looks as the first did, and deletes the first: the contents by which it is found are now the other row's, which is counted once and deleted |
| `delete_marked` | `DeletesTheMarked` | rows marked for deletion are remembered by their place; when the page is loaded again, the rows that are there now are deleted |

Every property of a passing run has a mutant: a definition of the module replaced by the form a
plausible bug would give it (an answer taken for consent, a missing second check, an unconditional
unregister, a retried send, ...), under which TLC finds the property violated.

### Bounds
- `EventCap` is 1 (32 in the code): blocking on a full channel then happens all the time.
- `MaxTurns` is 1 (8 in the code). Turns are sequential and share no state but `turns`; two calls in
  one reply give the same sequence as two turns.
- `MaxClicks` is 2 in `write_safety`: the shipped card sends one answer, the server does not rely on
  it. Two answers already fill the channel and block the reader.
- `Calls` is one or two: a session runs its calls one after another, so the interesting neighbours
  of a call are the one before and the one after. The theorems hold for any number.
- `Conns` is two, so that a connection is replaced while a request uses it, and `Requests` two, so that
  two answers interleave, but no more than three of both come in one behaviour; `Batches` is 1 and
  `BufCap` 3, a whole answer. The theorems have no such bounds. `NetCap` is 1 and bounds the frames under way on a socket; a smaller network only delays the connector.
- `Agents` is one: agents share nothing but the lock of the registry.
- `RowLimit` 3 and `BatchSize` 2 with reads of 0 to 5 rows meet every boundary of the streaming
  loop: no row, a batch just filled, a rest to flush, the limit just reached and exceeded.
- `HistoryMax` is 1, so that every insert must prune. `MaxFaults` is 4 in `sql_one_run`: one run has
  two executions, and each can fail at the network, in the database and twice in its record; with 4
  there is room for a fault in every stage of both paths. `sql_two_runs` has none but the deadline,
  cancels and overlaps, which need no fault.
- `accounts`: two requests are enough for every interleaving of two handlers, and longer sequences of
  statements interleave no more. Two passwords tell old from new. `MaxFaults` 1: one failed statement
  or one expiry per behaviour; each handler stops at its first failure. Two grants: a reconnect
  while a refresh of the earlier grant is under way.
- `connections`: two requests again, one of which may edit; `Idle` 2 makes a handle that is fetched
  once survive one tick and not two. A tunnel with two connections has one that ends before the
  closer and one that does not. Tables have two rows and the limit is 1, so that results are cut off.
  The engines left out (`pg`, `duckdb`, `oracle`, `clickhouse`) have the same session and database
  behaviour as one that is in, and differ in the words of `Classify` only.
- `grid`: with three rows and pages of at most two there are a full page, a rest, and a page beyond the
  end. The lists of filters contain each kind of condition and of those that are passed over; two
  letters tell a prefix, a suffix and a middle apart; `%` is not among them, since the code does not
  escape it (section 4). `Steps` is two per behaviour: a load that is superseded and the one that
  supersedes it. Engines whose clause, parameters and paging are in every respect those of another
  one (`Alike`) get one step. Two staged changes in one commit are enough for the
  first to invalidate what the second says of its row, and three for it to find another one, which is
  the instance of `counted_match`. Two keys and two values make rows that look the same. With `Steps`
  0 the runs `delete_marked` and `counted_match` are about edits only.
- The runs `accounts`, `connections` and `grid` do not check for deadlock, since their requests and
  steps are used up. Nor does `relay`: every connection and request of a behaviour ends, and
  then nothing is left to do. The chat runs do check: a user can always edit the policy.

### Fairness
`ChatWrites`: weak fairness of the orchestrator (Go schedules a runnable goroutine, and an LLM's
reply ends), of the handler's forwarding loop, of the reader, and of the database, which answers
eventually. None for the user, the LLM's content, the network or other requests. Only the direct
executor is covered: a connector may not answer.
`AgentRelay`: weak fairness of each handler, of each call, and of the deadline of each request
(`QueryTimeoutS`, `searchTimeout`). A chat session passes a context without a deadline, and for it
`CallsEnd` is not claimed: its calls end only when the session does. Neither connectors nor the
90-second read deadline are assumed to do anything.

`ConnPool`: weak fairness of each request's next statement, of the passing of time and of the
sweeper, a ticker's goroutine. `Tunnels`: weak fairness of the goroutines of each connection
(`Carry`): a dial ends, a copy whose end was closed returns, and a driver closes what it was told to
close; neither the database nor the SSH server need do anything, so `CopyDownFails`, which takes data
from the database, is not in it. `EngineRuns`: weak fairness of each
request's own steps, including the server's answer to a statement, for which a request has a
deadline. `Accounts`, `Subscriptions`, `Browsing` and `RowEdits` state no liveness.

`SqlRuns`: `ServerFairness` is weak fairness of the handlers, of the recording, of the browser's
callbacks, and of a connection attempt, which succeeds or fails; `DatabaseFairness` adds that the
database answers and yields rows. `RunsEnd` needs both, since a streamed statement has no deadline.

## 4. Findings in short
Four have a run of their own (section 3). The models show more, which can be read off them:
- *AI writes.* A handler that returns while the orchestrator has more events than the channel holds
  leaves it blocked in its send for good (`orchestrator.go:94`). Three answers to one card block the
  reader for good in a send to a proposal that nobody waits for, and a cancel behind it is not read
  (`chat.go:152`); the shipped card sends one.
- *Connectors.* `Deliver` drops a frame when the channel is full, and the answer is still `ok`: 16 slots
  do not bound how far the executor may lag behind the reader of the socket (`registry.go:78`). A
  request that unsubscribes between the two halves of `dispatch` closes the channel that is about to be
  sent on; the reader panics and the connection is lost for all (`registry.go:77`). The first answer
  of a connector blanks the address, system and version that its hello recorded (`broker.go:130`).
- *SQL editor.* A cancel is read when the statement has ended (`ws.go:90`). The stream of a connection
  that names a connector dials the database directly (`ws.go:167`).
- *Engines.* A request without a database runs wherever the pooled session was left by an earlier `USE`.
  SQL Server's fallback runs a whole batch again, of which the first statements may have taken effect.
  Rows of a statement that `Classify` does not know are not read.
- *Row edits.* PostgreSQL and SQL Server answer an insert without an integer key, or one that times out,
  as failed, although the row was inserted. Drafts added during a commit are lost. A marked row beyond
  the end of a page that was loaded again breaks the review dialog. A commit that changes a key sends
  its later edits to whichever row has the old key. In a table without a key the second change of a
  row finds none, since the first has changed what it is found by, or finds another row that looks so.
- *Pages.* The total of a view is answered as 0, not as unknown, on SQL Server (`mssql/browse.go:91`) and
  through an agent, and the pager stops at the first page. `%` and `_` in *Contains* are not escaped.
  MySQL keeps empty parts in the middle of a list, the other engines drop them.
- *Tokens.* A disconnect or a reconnect during a refresh is undone when the chat stores its answer. A
  refresh whose UPDATE fails loses the rotated token. A pasted token is replaced by the next refresh
  of the connection it was pasted over.
- *Tunnels.* MySQL's dialers are never deregistered from the driver. When the driver closes its end of
  a forwarded connection first, the database's end stays open until the database sends something or
  closes, or the tunnel closes.

## 5. What is proved

`ChatWritesProofs` proves, for every value of the constants that satisfies the assumptions of
`ChatWrites` (any set of calls, inputs, names, capacities, clicks):

| Theorem | States |
|---|---|
| `TypeCorrect` | `Spec => []TypeOK` |
| `Invariance` | `Spec => []IInv` |
| `ApprovalSafety` | `Spec => []NothingRunsUnapproved` |
| `AuditSafety` | `Spec => []AuditTruthful` |
| `RevocationSafety` | `Spec => RevokedNeverRuns` |
| `CancellationSafety` | `Spec => CancelStopsWrites` |
| `Refinement` | `Spec => ImplementsApproval` |
| `DecisionSafety` | `Spec => []DecisionKept` |
| `RowSafety` | `~StoreMayFail` implies `Spec => []RowsHaveCalls` |

The argument. None of the invariants is inductive as it stands: that a statement is only sent with
consent depends on where the consent came from, and on the order of the steps before. `IInv` adds
- `CallOrder`: a call is fresh, then queued, then current; it has no row before it is recorded, and
  its row is `proposed` from there until it is settled;
- `ApprovalsAreReal`: an approval in the inbox, in the reader's hands or in a decision channel is one
  the user gave to that proposal, and `verdict = "accepted"` was read from such a channel;
- `VerdictByStep`: what the orchestrator knows of the current call at each step, in particular that
  it has not been sent before `execute`, and that "executed" follows one effect;
- `StatementState`: sent means that the database has it, and effects are counted by its state;
- `GatesSeen`: gates that are open now have been seen open, and the second check collects both.
The proof that `[Next]_vars` preserves `IInv` has one lemma per conjunct; frame lemmas say which
actions touch which variables at all, so that a conjunct is only examined against the actions that
disturb it. The refinement maps each step, under `IInv`, to a step of `WriteApproval` or a stutter.
`IInv` was checked with TLC on the instances above before it was proved. For `DecisionKept`,
`DecisionInv` follows a decision from the card to the select: only cards on screen are answered, and a
card comes on screen after its channel is registered (`CardWaits`), so that the reader finds the channel
of the proposal that waits; a decision leaves the socket for the reader, and the reader for the channel,
and nothing else (`OnItsWay`); and a card that answers once has its answer in one of the three places
only (`InOnePlace`), so that the channel is empty when the reader sends. `RowsHaveCalls` is inductive
under `CallOrder`: only the current call gets a row, and only settling it lets go of the call.

`SqlRunsProofs` proves, for any set of runs, statements, limits and sizes:

| Theorem | States |
|---|---|
| `Invariance` | `Spec => []Inv` |
| `TypeCorrect` | `Spec => []TypeOK` |
| `ListSafety` | `Spec => []ActiveListed` |
| `HistorySafety` | `Spec => []HistoryTruthful` |
| `TwiceSafety` | `Spec => []TwiceOnlyAfterTimeout` |
| `RecentSafety` | `Spec => []HistoryRecent` |
| `WholeSafety` | `Spec => []ResultWhole` |
| `AnswerSafety` | `Spec => []EditorIsAnswered` |

The argument. `Inv` is `TypeOK`, `HistoryTruthful` and one `RunInv(r)` per run: the stream starts
after REST's deadline and has one socket (`Phases`); the frame that starts the execution is the
first one and is read once (`ExecOnce`); the database stands where the handler's step says, and the
registry holds a run exactly while it is between `WsStart` and `Unregister` (`Stands`); an execution
is settled before its effect counts (`Counted`); a task is recorded once, after its outcome
(`RecordedRun`); the loop's counters add up (`Counters`), without which its types cannot be kept.
A step of one run, or of one of its two tasks, leaves all that `RunInv` of another run depends on
alone (`OtherRuns`, `OtherTasks`), so each action is examined against its own run only (`OwnRun`,
`OwnTask`). That what is logged as ok stays done (`DoneStays`) carries `HistoryTruthful`. For
`HistoryRecent`, which needs only types, `IsSuffix` is restated by positions (`SuffixEnds`) and
shown to survive an append to both sequences and a prune of one. For `ResultWhole`, `ShownInv` follows
the rows from the loop to the editor: the loop's locals are those of a fresh, a running or a finished
stream of that statement (`Yielded`); the events on the wire take a reader from the rows it is shown to
the rows the loop has handed out, without a gap (`Carries`, an existential over how far each event
takes it, so that an append and a tail are the only two things to prove about sequences), and `done`
comes where the statement or the limit ends (`Streams`); and while no press overlapped another, one run
at most is shown (`OneShown`), so no other run writes into its result. It needs that a write yields no
rows (`StatementsAssumption`: `handleWSExec` sends it with `ExecContext`) and that `None` is no result.
For `EditorIsAnswered`, `AnsweredInv` adds what the wire of an open socket still carries: the last event
of a handler that has replied is `done` or `error` and stays the last until the editor has read it
(`LastSent`), whichever way the statement ended; and whoever holds `busy` or `running` is a run under
way (`Freed`), although a late close of one run may clear the flag of another.

`ConnPoolProofs` proves, for any number of requests and any idle limit:

| Theorem | States |
|---|---|
| `Invariance` | `Spec => []IInv` |
| `PoolSafety` | `Spec => []NothingLeaks` |
| `Calmness` | `Spec => []CInv` |
| `UndisturbedSafety` | `Spec => []Undisturbed` |
| `FreshSafety` | `Spec => []Fresh` |

The argument. `IInv` says whose handle is under which key: a draft's key holds that draft's own handle
and only while it is tested, and the connection's key never holds a draft's (`Owned`). So no two keys
share a handle, and closing one entry closes nothing of another (`CloseAccounts`). `CInv` speaks of
the time before an edit overlaps a request, an edit fails half-way or a failed test evicts: a writer
is alone; what a reader has read so far is what the connection has (`ReadsFit`); the connection's
handle was opened with that (`SavedFits`); and a request finds its young handle under its key, no
older than the time it has held it (`Holds`). Its centre is `MissMeansNone`: then `Get` opens a new
handle only where there is none, so it never closes one in use. The only assumption is
`ConnPoolAssumption`: a positive idle limit, and requests that are not named like the literals.
Both invariants were checked with TLC for two requests and `Idle = 2`, and for three and `Idle = 1`,
before they were proved.

`TunnelsProofs` proves, for any connections of each of the six kinds of tunnel:

| Theorem | States |
|---|---|
| `TunnelInvariance` | `Spec => []TunnelInv` |
| `TunnelSafety` | `Spec => []NothingStranded` |

The argument. `TunnelInv` says what a dialing and a forwarding tunnel each consist of at every moment,
and what a connection of it can look like: which goroutines run for it, and which ends they leave
open (`Owned`). `NothingStranded` follows: an open client or listener is in the registry, where the
closer finds it; no channel outlives its client; each open end of a forwarded connection has the
goroutine that will close it; and once the client is closed a connection that has not ended has a
goroutine with a dial to wait for or a copy to end.

`AgentRelayProofs` proves, for any agents, connections, requests and network:

| Theorem | States |
|---|---|
| `BrokerInvariance` | `Spec => []BrokerInv` |
| `OneLiveSafety` | `Spec => []OneLiveConnection` |
| `CallInvariance` | `Spec => []CallInv` |
| `Refinement` | `Spec => KeepsPromise` |
| `AnswersAreWhole` | `BufCap >= Batches + 2` implies `Spec => []OkIsComplete` |

The argument. `BrokerInv`: the registry's lock is held by the handler that is inside `Register`
(`LockHeld`), what registered last is what the registry leads to until its own handler removes it
(`RegistryLeads`), and every other registered connection has been shut (`OthersShut`), which stays so.
`CallInv`: a frame, wherever it is, belongs to a statement that has run (`FramesAreAnswers`), a
statement is on its way at most once (`SentOnce`), and what the caller is told, or about to be told,
fits (`ToldTruly`); under it each step is one of `RemoteQuery` or a stutter. `OrderInv` follows the
frames of one answer over the wire, through the hands of the reader and the channel to the loop of
`Run`: what has been collected is the beginning of the answer (`Collected`), what comes next is on
its way without a gap (`InTransit`), nothing follows an ending (`Endings`). The hypothesis is a channel
with room for an answer: meta, the batches, and two frames that end it, since an error can come after
a batch in place of `query_done`. The code has 16 slots and any number of batches, and there the
property fails, as section 4 says: the theorem shows that the full channel is the only cause.

`EngineRunsProofs` proves, for any requests, sessions, databases and statements that satisfy
`RunsAssumption` (as many sessions as requests; `database/sql` opens what it needs):

| Theorem | States |
|---|---|
| `RunsInvariance` | `RunsSpec => []RInv` |
| `RunsOnceSafety` | `RunsSpec => []RunsOnce` |
| `RunsWhereAskedSafety` | `RunsSpec => []RunsWhereAsked` |

The argument. `RInv` ties each session to the one request that holds it (`OwnSession`), so that the
database a request has chosen is still the session's when its statement runs (`InPlace`); before it
runs nothing has run (`NotYet`), and a search for a table starts only from a statement that did not
take effect, and qualifies its name with the database the table was found in (`Searched`).

`AccountsProofs` proves, for any requests, names and number of failing statements:

| Theorem | States |
|---|---|
| `AccountsInvariance` | `Spec => []AInv` |
| `CodeSafety` | `Spec => []CodeOpensOnce` |
| `SessionSafety` | `Spec => []OldSessionsEnd` |
| `DeletionSafety` | `Spec => []DeletedIsGone` |
| `AdminSafety` | `Spec => []AdminRemains` |

The argument. A request stands at a statement of its own handler (`AtHome`), and goes on to the next
one or ends (`Follows`, `Ends`), so that "answered with success" implies that the statements before it
were carried out. `Keys`: ids are not used again, and no session outlives its user. `CodesSpent`: the
UPDATE that uses a code is the test of whether it was used. `TokensOpened`: a session exists only once
the request that opened it has been answered, so none is opened for a user under way to deletion and
none with an old password appears afterwards; `Ending` and `Deleting` say what is left of the sessions
at each statement of the two handlers. `OneAtATime` is `AdminRemains` with its circumstances: while
administrators' requests do not overlap, the one under way is an administrator's and counted another.

and of `Subscriptions`, for any chats, grants and refreshes:

| Theorem | States |
|---|---|
| `TokensInvariance` | `Consistent` implies `TokensSpec => []TokensInv` |
| `StoredTokenSafety` | `Consistent` implies `TokensSpec => []StoredTokenLives` |

`Consistent` says that no provider replaces refresh tokens now and then, for which the property is
false (section 3). The argument. For a provider that always replaces them, an answer that has not been
stored holds the newest token of its grant (`Given`) and nobody else does (`Alone`), because the token
it was got with is dead for every other chat; a dead token in the row is about to be overwritten by
that answer (`Replaced`), or something was lost. For one that never does there is one token per grant
(`AllIssued`).

`GridProofs` proves, for any keys, values, drafts, engines and any number of edits, commits and
other writes:

| Theorem | States |
|---|---|
| `EditsInvariance` | `Spec => []EditsInv` |
| `MeantSafety` | `Spec => []OnlyThatRow` |
| `DraftSafety` | `Spec => []DraftsKept` |
| `RecordSafety` | `Spec => []Recorded` |

and for any dialect, filters, loads and order of answers:

| Theorem | States |
|---|---|
| `AskedSafety` | `PagesSpec => []ShownIsAsked` |
| `PagesInvariance` | `PagesSpec => []PagesRight` |
| `PageSafety` | `PagesSpec => []PageIsRight` |
| `PagerSafety` | `PagesSpec => []PagerReaches` |

The argument. `Handling` says what the handler has found, run and recorded at each of its steps, on
every engine; `Drafting` that a confirmed draft is in the queue, kept, or sent and answered; `Ordered`
that the queue is edits, then deletions, then drafts. `Meant` is the centre: while a commit is `calm`
and `apart`, each request in the queue names its row by what that row still is, since no change sent
before it altered what it finds its row by (`Finds`); keys are unique (`KeysUnique`) and the guard has
counted one where there is none, so what is found is the row that was meant. That the requests of a
commit are what was staged, in order, is `Origin`. For the pages, `PagesInv`: the last load asks for
what is chosen now, nothing has gone wrong since it was asked, and only it changes what is shown.
`PagesRight` says of every load, and of what is shown, that its rows are that page of the rows its
filter means (`RowsRight`), and that a number that was counted is the number of those rows
(`TotalRight`). What it rests on is that the statement each engine is sent means what the user chose,
for filters of any number and texts of any length:
- `ClauseMeans`: a row satisfies the clause, with its arguments, exactly when it satisfies every filter
  that is not passed over. The clause is a fold over the filters; the proof takes the function behind the
  fold and the least prefix for which the claim fails (`LeastNat`), so that no induction theorem with an
  operator parameter is needed;
- `BoundMarks`, `PageMeans`: each placeholder, positional, numbered or literal, is given the argument that
  was meant, the limit and the offset included; `EveryEngine` shows that every dialect's statement is one
  of these styles;
- `LikeText`, `Patterns`: the pattern made for *Contains*, *Begins with* and *Ends with* matches what these
  words say, if the text has no wildcard in it (an assumption: the code does not escape them);
- `PageFitsOrder`: rows cut out of an ordered arrangement are in that order, none is missing before them,
  and there are as many as the page holds or are left; `MorePages`: the pager's division offers a next page
  exactly while there are rows beyond this one.

Every one of these invariants was also checked with TLC: `BrokerInv`, `CallInv` and `OrderInv` on
two connections, requests and batches (329,236 and 625,066 states), `RInv` (316,416), `AInv`
(1,101,883), `TokensInv` (466,408), `EditsInv` (6,168,108, with two staged changes, two commits and a
write of another client; and with three staged changes), the parts of `ShownInv` (110,671 and
3,745,234), and of `AnsweredInv` (likewise), `DecisionInv` (101,114, 190,472 with one answer per card and
1,101,960 with two), `TunnelInv` (1,525), `PagesInv` (3,524,499), `PagesRight` (2,365,488).

Every invariant and every safety action property of a passing run is stated by a theorem, and both
refinements are. Only model-checked: the liveness properties, which are out of the prover's reach:
`RowsSettle`, `DecisionHeard`, `CallsEnd`, `NoZombies`, `RunsEnd` of `SqlRuns` and of `EngineRuns`,
`DeletedIsClosed`, and `CloserEndsAll`; and of course the violations. Four of them have their safety
half proved, in theorems about predicates that no run lists: what `DecisionHeard` and `CloserEndsAll` wait
for is never lost (`DecisionKept`, `NothingStranded`), nor what `RunsEnd` of `SqlRuns` waits for
(`EditorIsAnswered`, which `sql_one_run` does check), and a row that `RowsSettle` speaks of has a call that
will settle it (`RowsHaveCalls`). That it comes is left to fairness. TLC found no violation of `DecisionKept`
and `NothingStranded` on the instances of `write_safety`, `write_progress` and `connections`, and finds one
when the reader takes one decision only, and when a failed dial leaves the driver waiting.

## 6. Plan

1. *Done*: `WriteApproval`, `ChatWrites`; `RemoteQuery`, `AgentRelay`; `SqlRuns`; `Accounts`,
   `Subscriptions`; `ConnPool`, `Tunnels`, `EngineRuns`; `Browsing`, `RowEdits`. The theorems of section 5.
2. *Done*: the safety facts that four liveness properties rest on: `DecisionKept`, `RowsHaveCalls`,
   `EditorIsAnswered`, `NothingStranded`.
3. The same for the rest: a call under way has a deadline or an answer (`CallsEnd`), and a handle of a
   deleted connection will be found idle (`DeletedIsClosed`).

## 7. Not modelled, and why
- The parsers of vendors' streams and of SQL: text processing; their verdicts are inputs.
- Listings of schemas, tables and columns, and exports: stateless catalogue queries. The splitter of
  SQL imports: one pass over text.
- Killing a query from the list (nothing calls `KillQuery`).
- Migrations: one actor and two statements; a crash between them makes the next start apply the file
  again. Conversations: single rows that no other component reads.
- Mail, configuration, routing, static files: no state. The rate limiter (a library's token bucket) and
  encryption at rest (a library).
- The look of the web client, and how the chat panel pairs cards, tool calls and results.
Liveness is out of the prover's reach and stays with TLC.
