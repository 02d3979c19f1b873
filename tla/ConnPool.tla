------------------------------ MODULE ConnPool ------------------------------
(***************************************************************************)
(* Saved connections and the pool of open database handles.                *)
(*                                                                         *)
(* A request reads the connection's row, its password and its SSH secret   *)
(* in separate statements and then asks the pool for a handle; an edit     *)
(* writes the row and each credential in separate statements and then      *)
(* evicts the handle.  The pool itself works under one mutex: Get, Evict   *)
(* and Sweep are atomic.  A handle is named after the request that opened  *)
(* it.  Values written by an edit are named after the edit ("first": the   *)
(* values the connection was created with).                                *)
(***************************************************************************)
EXTENDS Naturals, FiniteSets

CONSTANTS Requests,
          Idle       \* ticks after which an unused handle is swept (IdleTimeout)

ASSUME ConnPoolAssumption ==
  Idle \in Nat \ {0} /\ Requests \cap {"first", "saved", "none"} = {}

Parts == {"target", "password", "secret"}   \* the row, password_enc, the SSH columns
Done  == {"ok", "error"}

VARIABLES
  row,      \* the connection's row: part -> the edit that wrote it; {} when deleted
  ssh,      \* the connection goes through an SSH tunnel
  pool,     \* Pool.m: key -> handle, what it was opened with, ticks since the last Get
  open,     \* handles that have not been closed
  tunnels,  \* handles whose SSH tunnel has not been closed
  req,      \* per request: kind, next statement, what it has read, its handle,
            \* ticks since it got it, and the parts an edit writes
  overlap,  \* ghost: an edit or a deletion overlapped another request
  mishap    \* ghost: an edit failed half-way, or a test closed the shared handle

vars == <<row, ssh, pool, open, tunnels, req, overlap, mishap>>

Exists == row # <<>>
Nothing == [p \in Parts |-> "none"]
NoRequest == [kind |-> "none", at |-> "idle", read |-> Nothing, handle |-> "none",
              held |-> 0, parts |-> {}]
InFlight(r) == req[r].at \notin Done \cup {"idle"}
Writers == {"edit", "delete"}
Goto(r, s) ==
  req' = [req EXCEPT ![r] = IF s \in Done THEN [NoRequest EXCEPT !.kind = req[r].kind, !.at = s]
                                         ELSE [@ EXCEPT !.at = s]]

\* A draft is tested under a key of its own (-time.Now().UnixNano()).
Key(r) == IF req[r].kind = "draft" THEN r ELSE "saved"

-----------------------------------------------------------------------------
(* The pool. *)

\* The cache key: the DSN with target and password, and of the tunnel only
\* user, host and port, which are part of the row.
CacheKey(read) == <<read.target, read.password>>

Handles(K) == {pool[k].handle : k \in K \cap DOMAIN pool}

\* The entries' handles are closed, their tunnels after them, and the entries go.
\* Mutant: the tunnel is left open.
MutClose(K) ==
  /\ open' = open \ Handles(K)
  /\ UNCHANGED tunnels
  /\ pool' = [k \in DOMAIN pool \ K |-> pool[k]]
Close(K) ==
  /\ open' = open \ Handles(K)
  /\ tunnels' = tunnels \ Handles(K)
  /\ pool' = [k \in DOMAIN pool \ K |-> pool[k]]

\* Mutant: nothing is evicted.
MutEvict(k) == UNCHANGED <<pool, open, tunnels>>
Evict(k) == Close({k})

\* Get, when the pool has a handle for the same cache key.
\* Mutant: the use of a cached handle does not count as a use.
MutTouched(e) == e
Touched(e) == [e EXCEPT !.age = 0]
Hit(k, read) == k \in DOMAIN pool /\ CacheKey(pool[k].with) = CacheKey(read)
GetCached(r, k) ==
  /\ Hit(k, req[r].read)
  /\ pool' = [pool EXCEPT ![k] = Touched(@)]
  /\ req' = [req EXCEPT ![r].at = "working", ![r].handle = pool[k].handle, ![r].held = 0]
  /\ UNCHANGED <<open, tunnels>>

\* Otherwise the old handle is closed first, and a new one opened.
GetNew(r, k) ==
  /\ ~Hit(k, req[r].read)
  /\ pool' = [q \in DOMAIN pool \cup {k} |->
                IF q = k THEN [handle |-> r, with |-> req[r].read, age |-> 0] ELSE pool[q]]
  /\ open' = (open \ Handles({k})) \cup {r}
  /\ tunnels' = (tunnels \ Handles({k})) \cup (IF ssh THEN {r} ELSE {})
  /\ req' = [req EXCEPT ![r].at = "working", ![r].handle = r, ![r].held = 0]

\* The tunnel or the driver fails: the old handle is gone all the same.
GetFails(r, k) ==
  /\ ~Hit(k, req[r].read)
  /\ Close({k})
  /\ Goto(r, IF req[r].kind = "draft" THEN "evict" ELSE "error")

Get(r) ==
  /\ req[r].at = "get"
  /\ GetCached(r, Key(r)) \/ GetNew(r, Key(r)) \/ GetFails(r, Key(r))
  /\ UNCHANGED <<row, ssh, overlap, mishap>>

\* Every half minute the idle handles are closed.
\* Mutant: the comparison is strict, and ages stop at the limit.
MutIsIdle(e) == e.age > Idle
IsIdle(e) == e.age >= Idle
Sweep ==
  /\ \E k \in DOMAIN pool : IsIdle(pool[k])
  /\ Close({k \in DOMAIN pool : IsIdle(pool[k])})
  /\ UNCHANGED <<row, ssh, req, overlap, mishap>>

Older(n) == IF n < Idle THEN n + 1 ELSE n
Tick ==
  /\ pool' = [k \in DOMAIN pool |-> [pool[k] EXCEPT !.age = Older(@)]]
  /\ req' = [r \in Requests |->
               IF req[r].at = "working" THEN [req[r] EXCEPT !.held = Older(@)] ELSE req[r]]
  /\ <<pool, req>>' # <<pool, req>>
  /\ UNCHANGED <<row, ssh, open, tunnels, overlap, mishap>>

-----------------------------------------------------------------------------
(* Requests that use a connection: resolveConn (every tab of the workspace, *)
(* queries, chats), the test of a saved connection and the test of a draft. *)

Begin(r, k, s, P) ==
  /\ req[r].at = "idle"
  /\ req' = [req EXCEPT ![r].kind = k, ![r].at = s, ![r].parts = P]
  /\ overlap' = (overlap \/ \E q \in Requests \ {r} :
                   InFlight(q) /\ (k \in Writers \/ req[q].kind \in Writers))
  /\ UNCHANGED <<row, ssh, pool, open, tunnels, mishap>>
Use(r) == Begin(r, "use", "readRow", {})
Test(r) == Begin(r, "test", "readRow", {})
\* The draft's own values are given in the request; what it leaves empty is
\* read from the saved connection.
Draft(r) == \E s \in {"get", "readRow"} : Begin(r, "draft", s, {})

\* One column, or the row's, at a time. A part that is gone ends the request,
\* except that the SSH secret, and a draft's password, are read without
\* looking at errors.
Optional(r, p) == p = "secret" \/ (p = "password" /\ req[r].kind = "draft")
ReadPart(r, here, p, next) ==
  /\ req[r].at = here
  /\ \/ /\ Exists
        /\ req' = [req EXCEPT ![r].read[p] = row[p], ![r].at = next]
     \/ ~Exists /\ Goto(r, IF Optional(r, p) THEN next ELSE "error")
  /\ UNCHANGED <<row, ssh, pool, open, tunnels, overlap, mishap>>
ReadRow(r) == ReadPart(r, "readRow", "target", "readPassword")
ReadPassword(r) == ReadPart(r, "readPassword", "password", IF ssh THEN "readSecret" ELSE "get")
ReadSecret(r) == ReadPart(r, "readSecret", "secret", "get")

\* The query or the ping ends. A test whose ping failed evicts the saved
\* connection's handle, whoever uses it; a draft's is always evicted.
Finish(r) ==
  /\ req[r].at = "working"
  /\ \/ req[r].kind # "draft" /\ Goto(r, "ok")
     \/ req[r].kind \in {"test", "draft"} /\ Goto(r, "evict")
  /\ UNCHANGED <<row, ssh, pool, open, tunnels, overlap, mishap>>
EvictOwn(r) ==
  /\ req[r].at = "evict"
  /\ Evict(Key(r))
  /\ Goto(r, IF req[r].kind = "test" THEN "error" ELSE "ok")
  /\ mishap' = (mishap \/ req[r].kind = "test")
  /\ UNCHANGED <<row, ssh, overlap>>

-----------------------------------------------------------------------------
(* Edits and deletion. *)

Edit(r) == \E P \in SUBSET Parts : Begin(r, "edit", "check", P)
Delete(r) == Begin(r, "delete", "delete", {})

Check(r) ==
  /\ req[r].at = "check"
  /\ Goto(r, IF Exists THEN "writeTarget" ELSE "error")
  /\ UNCHANGED <<row, ssh, pool, open, tunnels, overlap, mishap>>

Updated(r, p) == IF Exists THEN [row EXCEPT ![p] = r] ELSE row
\* One UPDATE per step; a credential left empty is kept. An UPDATE of a row
\* that is gone is no error, and one that fails ends the edit without Evict.
WritePart(r, here, p, next) ==
  /\ req[r].at = here
  /\ \/ /\ row' = IF p \in req[r].parts THEN Updated(r, p) ELSE row
        /\ Goto(r, next) /\ UNCHANGED mishap
     \/ Goto(r, "error") /\ mishap' = TRUE /\ UNCHANGED row
  /\ UNCHANGED <<ssh, pool, open, tunnels, overlap>>
WriteTarget(r) == WritePart(r, "writeTarget", "target", "writePassword")
WritePassword(r) == WritePart(r, "writePassword", "password", "writeSecret")
WriteSecret(r) == WritePart(r, "writeSecret", "secret", "reread")
\* UpdateConnection reads the row for its answer, and fails when it is gone.
Reread(r) ==
  /\ req[r].at = "reread"
  /\ Goto(r, IF Exists THEN "evictEdited" ELSE "error")
  /\ UNCHANGED <<row, ssh, pool, open, tunnels, overlap, mishap>>
DeleteConnection(r) ==
  /\ req[r].at = "delete"
  /\ row' = <<>>
  /\ Goto(r, IF Exists THEN "evictEdited" ELSE "error")
  /\ UNCHANGED <<ssh, pool, open, tunnels, overlap, mishap>>
EvictEdited(r) ==
  /\ req[r].at = "evictEdited"
  /\ Evict("saved") /\ Goto(r, "ok")
  /\ UNCHANGED <<row, ssh, overlap, mishap>>

-----------------------------------------------------------------------------
Init ==
  /\ row = [p \in Parts |-> "first"] /\ ssh \in BOOLEAN
  /\ pool \in {<<>>, [k \in {"saved"} |-> [handle |-> "first", with |-> row, age |-> 0]]}
  /\ open = Handles(DOMAIN pool) /\ tunnels = IF ssh THEN open ELSE {}
  /\ req = [r \in Requests |-> NoRequest]
  /\ overlap = FALSE /\ mishap = FALSE

Start(r) == Use(r) \/ Test(r) \/ Draft(r) \/ Edit(r) \/ Delete(r)
Handle(r) ==
  \/ ReadRow(r) \/ ReadPassword(r) \/ ReadSecret(r) \/ Get(r) \/ Finish(r) \/ EvictOwn(r)
  \/ Check(r) \/ WriteTarget(r) \/ WritePassword(r) \/ WriteSecret(r) \/ Reread(r)
  \/ DeleteConnection(r) \/ EvictEdited(r)
Next == Sweep \/ Tick \/ \E r \in Requests : Start(r) \/ Handle(r)

Spec == Init /\ [][Next]_vars
\* Handlers run on, the sweeper's ticker and the clock go on; users need not
\* send anything.
PoolFairness == WF_vars(Tick) /\ WF_vars(Sweep) /\ \A r \in Requests : WF_vars(Handle(r))
FairSpec == Spec /\ PoolFairness

-----------------------------------------------------------------------------
(* Properties. *)

\* What is open is what the pool knows of, handles and tunnels alike: no
\* replacement, failure to open, eviction or sweep leaves one behind; and the
\* handle of a draft's test is in the pool only while the test runs.
NothingLeaks ==
  /\ open = Handles(DOMAIN pool)
  /\ tunnels = IF ssh THEN open ELSE {}
  /\ \A k \in DOMAIN pool \ {"saved"} : InFlight(k) /\ req[k].kind = "draft"

\* A request that works with a handle younger than the idle limit keeps it:
\* other requests, tests and drafts and the sweeper do not close it, as long
\* as no edit overlapped a request and no test of the connection failed.
Undisturbed == \A r \in Requests :
  req[r].at = "working" /\ req[r].held < Idle /\ ~overlap /\ ~mishap
    => req[r].handle \in open

\* A request that did not overlap an edit works with the target, the password
\* and the SSH secret that the connection has now, although the cache key
\* leaves the secret out.
WorksUnraced(r) ==
  /\ req[r].at = "working" /\ req[r].kind \in {"use", "test"}
  /\ Exists /\ ~overlap /\ ~mishap
  /\ "saved" \in DOMAIN pool /\ req[r].handle = pool["saved"].handle
Fresh == \A r \in Requests : WorksUnraced(r) =>
  \A p \in (IF ssh THEN Parts ELSE Parts \ {"secret"}) : pool["saved"].with[p] = row[p]

\* Whatever raced with the deletion of a connection, its handle does not
\* stay in the pool.
DeletedIsClosed == []<>(Exists \/ "saved" \notin DOMAIN pool)
=============================================================================
