--------------------------- MODULE ConnPoolProofs ---------------------------
(***************************************************************************)
(* A theorem about ConnPool, for any number of requests and any idle       *)
(* limit: whatever requests, tests, edits, deletions and sweeps do to each *)
(* other, exactly the handles and tunnels that the pool knows of are open. *)
(***************************************************************************)
EXTENDS ConnPool, TLAPS

(***************************************************************************)
(* The inductive invariant.                                                *)
(***************************************************************************)
Names  == Requests \cup {"first"}            \* of handles and of edits
Maybe  == Names \cup {"none"}
Kinds  == {"none", "use", "test", "draft", "edit", "delete"}
Places ==
  {"idle", "readRow", "readPassword", "readSecret", "get", "working", "evict", "check",
   "writeTarget", "writePassword", "writeSecret", "reread", "delete", "evictEdited"} \cup Done
Entry   == [handle : Names, with : [Parts -> Maybe], age : Nat]
Request == [kind : Kinds, at : Places, read : [Parts -> Maybe], handle : Maybe,
            held : Nat, parts : SUBSET Parts]

\* Every variable that handles depend on has its type.
PoolTypeOK ==
  /\ row \in {<<>>} \cup [Parts -> Names]
  /\ ssh \in BOOLEAN
  /\ DOMAIN pool \subseteq Requests \cup {"saved"}
  /\ pool \in [DOMAIN pool -> Entry]
  /\ req \in [Requests -> Request]

\* A key of its own holds the handle of the draft that is being tested; the
\* connection's key never holds a draft's. So two keys never share a handle.
Owned(k) ==
  IF k = "saved"
  THEN \/ pool[k].handle = "first"
       \/ pool[k].handle \in Requests /\ req[pool[k].handle].kind # "draft"
                                      /\ req[pool[k].handle].at # "idle"
  ELSE /\ pool[k].handle = k
       /\ req[k].kind = "draft" /\ req[k].at \in {"working", "evict"}
AllOwned == \A k \in DOMAIN pool : Owned(k)

Accounted ==
  /\ open = Handles(DOMAIN pool)
  /\ tunnels = IF ssh THEN open ELSE {}

IInv == PoolTypeOK /\ AllOwned /\ Accounted

(***************************************************************************)
(* The second invariant: what holds as long as no edit or deletion          *)
(* overlapped another request, no edit failed half-way and no test closed   *)
(* the connection's handle.                                                *)
(***************************************************************************)
Editing  == {"check", "writeTarget", "writePassword", "writeSecret", "reread"}
KindFits(r) ==
  /\ req[r].at = "idle" => req[r].kind = "none"
  /\ req[r].at \in Editing => req[r].kind = "edit"
  /\ req[r].at = "delete" => req[r].kind = "delete"
  /\ req[r].at = "evictEdited" => req[r].kind \in Writers
  /\ req[r].at \in {"readRow", "readPassword", "readSecret", "get", "working", "evict"}
       => req[r].kind \in {"use", "test", "draft"}
  /\ req[r].at = "evict" => req[r].kind # "use"

\* What a handle of the connection depends on.
Relevant == IF ssh THEN Parts ELSE Parts \ {"secret"}
Agrees(read, P) == Exists /\ \A p \in P : read[p] = row[p]

\* A writer is alone.
Alone == \A r, q \in Requests :
  r # q /\ InFlight(r) /\ InFlight(q) => req[r].kind \notin Writers
\* What a request has read is what the connection has.
ReadsFit(r) == req[r].kind # "draft" =>
  /\ req[r].at = "readPassword" => Agrees(req[r].read, {"target"})
  /\ req[r].at = "readSecret" => Agrees(req[r].read, {"target", "password"})
  /\ req[r].at = "get" => Agrees(req[r].read, Relevant)
\* A request that works with a young handle finds it under its key, not older.
Holds(r) == req[r].at = "working" /\ req[r].held < Idle =>
  /\ Key(r) \in DOMAIN pool
  /\ pool[Key(r)].handle = req[r].handle /\ pool[Key(r)].age <= req[r].held
\* Unless it is being changed, the connection's handle was opened with what
\* the connection has.
SavedFits ==
  Exists /\ "saved" \in DOMAIN pool /\ (\A r \in Requests : InFlight(r) => req[r].kind \notin Writers)
    => Agrees(pool["saved"].with, Relevant)

Calm == ~overlap /\ ~mishap =>
  Alone /\ SavedFits /\ \A r \in Requests : ReadsFit(r) /\ Holds(r)
CInv == (\A r \in Requests : KindFits(r)) /\ Calm

(***************************************************************************)
(* What the pool's operations do to the accounts.                          *)
(***************************************************************************)
LEMMA OneHandlePerKey ==
  ASSUME PoolTypeOK, AllOwned, NEW k \in DOMAIN pool, NEW q \in DOMAIN pool, k # q
  PROVE  pool[k].handle # pool[q].handle
  BY ConnPoolAssumption DEF PoolTypeOK, AllOwned, Owned

\* Closing entries closes what they hold, and nothing that another one holds.
LEMMA CloseAccounts ==
  ASSUME IInv, NEW K, Close(K), ssh' = ssh
  PROVE  /\ Accounted'
         /\ DOMAIN pool' = DOMAIN pool \ K
         /\ pool' \in [DOMAIN pool' -> Entry]
         /\ \A k \in DOMAIN pool' : pool'[k] = pool[k]
<1>1. /\ DOMAIN pool' = DOMAIN pool \ K
      /\ \A k \in DOMAIN pool' : pool'[k] = pool[k]
      /\ pool' \in [DOMAIN pool' -> Entry]
  BY DEF Close, IInv, PoolTypeOK
<1>2. Handles(DOMAIN pool)' = Handles(DOMAIN pool) \ Handles(K)
  <2>1. Handles(DOMAIN pool)' = {pool[k].handle : k \in DOMAIN pool \ K}
    BY <1>1 DEF Handles
  <2>2. \A k \in DOMAIN pool \ K : \A q \in K \cap DOMAIN pool : pool[k].handle # pool[q].handle
    BY OneHandlePerKey DEF IInv
  <2>3. QED  BY <2>1, <2>2 DEF Handles
<1>3. Accounted'
  BY <1>2 DEF Close, IInv, Accounted
<1>4. QED  BY <1>1, <1>3

(***************************************************************************)
(* What a step may do to the requests: it begins one, or keeps its kind and *)
(* does not take it out of a draft's test.                                 *)
(***************************************************************************)
Harmless(r) ==
  \/ req'[r] = req[r] \/ req[r].at = "idle"
  \/ /\ req'[r].kind = req[r].kind /\ req'[r].at # "idle"
     /\ req[r].kind = "draft" /\ req[r].at \in {"working", "evict"}
          => req'[r].at \in {"working", "evict"}

\* A step that leaves every entry its handle.
LEMMA SameHandles ==
  ASSUME IInv, PoolTypeOK', UNCHANGED <<ssh, open, tunnels>>,
         DOMAIN pool' = DOMAIN pool,
         \A k \in DOMAIN pool : pool'[k].handle = pool[k].handle,
         \A r \in Requests : Harmless(r)
  PROVE  IInv'
<1>1. Accounted'
  <2>1. Handles(DOMAIN pool)' = Handles(DOMAIN pool)  BY DEF Handles
  <2>2. QED  BY <2>1 DEF IInv, Accounted
<1>2. AllOwned'
  <2> SUFFICES ASSUME NEW k \in DOMAIN pool  PROVE Owned(k)'
    BY DEF AllOwned
  <2>1. Owned(k) /\ k \in Requests \cup {"saved"}
    BY DEF IInv, AllOwned, PoolTypeOK
  <2>2. CASE k = "saved"
    BY <2>1, <2>2 DEF Owned, Harmless
  <2>3. CASE k # "saved"
    BY <2>1, <2>3 DEF Owned, Harmless
  <2>4. QED  BY <2>2, <2>3
<1>3. QED  BY <1>1, <1>2 DEF IInv

\* A step that closes entries, and moves only requests whose own key has none
\* left.
LEMMA CloseKeeps ==
  ASSUME IInv, NEW K, Close(K), ssh' = ssh, row' = row,
         req' \in [Requests -> Request],
         \A r \in Requests : \/ req'[r] = req[r]
                             \/ /\ req'[r].kind = req[r].kind /\ req'[r].at # "idle"
                                /\ r \in DOMAIN pool => r \in K
  PROVE  IInv'
<1>1. /\ Accounted'
      /\ DOMAIN pool' = DOMAIN pool \ K
      /\ pool' \in [DOMAIN pool' -> Entry]
      /\ \A k \in DOMAIN pool' : pool'[k] = pool[k]
  BY CloseAccounts
<1>2. PoolTypeOK'
  BY <1>1 DEF IInv, PoolTypeOK
<1>3. AllOwned'
  <2> SUFFICES ASSUME NEW k \in DOMAIN pool'  PROVE Owned(k)'
    BY DEF AllOwned
  <2>1. Owned(k) /\ k \in Requests \cup {"saved"} /\ k \notin K /\ k \in DOMAIN pool
    BY <1>1 DEF IInv, AllOwned, PoolTypeOK
  <2>2. CASE k = "saved"
    BY <1>1, <2>1, <2>2 DEF Owned
  <2>3. CASE k # "saved"
    BY <1>1, <2>1, <2>3 DEF Owned
  <2>4. QED  BY <2>2, <2>3
<1>4. QED  BY <1>1, <1>2, <1>3 DEF IInv

LEMMA GotoKeeps ==
  ASSUME PoolTypeOK, NEW r \in Requests, NEW s \in Places, Goto(r, s)
  PROVE  /\ req' \in [Requests -> Request]
         /\ req'[r].kind = req[r].kind /\ req'[r].at = s
         /\ \A q \in Requests : q # r => req'[q] = req[q]
<1>1. req[r] \in Request  BY DEF PoolTypeOK
<1>2. Nothing \in [Parts -> Maybe]  BY DEF Nothing, Maybe
<1>3. CASE s \in Done
  <2>1. req' = [req EXCEPT ![r] = [NoRequest EXCEPT !.kind = req[r].kind, !.at = s]]
    BY <1>3 DEF Goto
  <2>2. [NoRequest EXCEPT !.kind = req[r].kind, !.at = s] \in Request
    BY <1>1, <1>2 DEF NoRequest, Request, Maybe
  <2>3. /\ [NoRequest EXCEPT !.kind = req[r].kind, !.at = s].kind = req[r].kind
        /\ [NoRequest EXCEPT !.kind = req[r].kind, !.at = s].at = s
    BY DEF NoRequest
  <2>4. QED  BY <2>1, <2>2, <2>3 DEF PoolTypeOK
<1>4. CASE s \notin Done
  <2>1. req' = [req EXCEPT ![r].at = s]  BY <1>4 DEF Goto
  <2>2. QED  BY <2>1, <1>1 DEF PoolTypeOK, Request
<1>5. QED  BY <1>3, <1>4

(***************************************************************************)
(* One lemma per kind of step.                                             *)
(***************************************************************************)
LEMMA InitEstablishes == Init => IInv
<1> SUFFICES ASSUME Init  PROVE IInv
  OBVIOUS
<1>1. row \in [Parts -> Names]  BY DEF Init, Names
<1>2. req \in [Requests -> Request]
  BY DEF Init, NoRequest, Nothing, Request, Kinds, Places, Maybe
<1>3. CASE pool = <<>>
  <2>1. DOMAIN pool = {}  BY <1>3
  <2>2. pool \in [DOMAIN pool -> Entry]  BY <2>1, <1>3
  <2>3. QED  BY <1>1, <1>2, <2>1, <2>2 DEF Init, IInv, PoolTypeOK, AllOwned, Accounted
<1>4. CASE pool = [k \in {"saved"} |-> [handle |-> "first", with |-> row, age |-> 0]]
  <2>1. DOMAIN pool = {"saved"} /\ pool["saved"] = [handle |-> "first", with |-> row, age |-> 0]
    BY <1>4
  <2>2. [handle |-> "first", with |-> row, age |-> 0] \in Entry
    BY <1>1 DEF Entry, Names, Maybe
  <2>3. pool \in [DOMAIN pool -> Entry]  BY <2>1, <2>2, <1>4
  <2>4. QED  BY <1>1, <1>2, <2>1, <2>3 DEF Init, IInv, PoolTypeOK, AllOwned, Owned, Accounted
<1>5. QED  BY <1>3, <1>4 DEF Init

\* Statements of a handler that do not concern the pool: r goes from one
\* place to another, neither of them inside a draft's test.
LEMMA OffPool ==
  ASSUME IInv, NEW r \in Requests, NEW s \in Places \ {"idle"}, Goto(r, s),
         req[r].kind # "draft" \/ req[r].at \notin {"working", "evict"} \/ s = "evict",
         UNCHANGED <<ssh, pool, open, tunnels>>,
         row' \in {<<>>} \cup [Parts -> Names]
  PROVE  IInv'
<1>1. /\ req' \in [Requests -> Request]
      /\ req'[r].kind = req[r].kind /\ req'[r].at = s
      /\ \A q \in Requests : q # r => req'[q] = req[q]
  BY GotoKeeps DEF IInv
<1>2. PoolTypeOK'  BY <1>1 DEF IInv, PoolTypeOK
<1>3. \A q \in Requests : Harmless(q)  BY <1>1 DEF Harmless
<1>4. QED  BY <1>2, <1>3, SameHandles

LEMMA StartKeeps ==
  ASSUME IInv, NEW r \in Requests, Start(r)
  PROVE  IInv'
<1>1. PICK k \in Kinds, s \in Places, P \in SUBSET Parts : Begin(r, k, s, P)
  BY Zenon DEF Start, Use, Test, Draft, Edit, Delete, Kinds, Places
<1>2. req[r] \in Request  BY DEF IInv, PoolTypeOK
<1>3. req' \in [Requests -> Request]
  BY <1>1, <1>2 DEF Begin, IInv, PoolTypeOK, Request
<1>4. PoolTypeOK'  BY <1>1, <1>3 DEF Begin, IInv, PoolTypeOK
<1>5. \A q \in Requests : Harmless(q)
  BY <1>1 DEF Begin, Harmless, IInv, PoolTypeOK
<1>6. QED  BY <1>1, <1>4, <1>5, SameHandles DEF Begin

LEMMA ReadKeeps ==
  ASSUME IInv, NEW r \in Requests, NEW here \in Places \ {"idle", "working", "evict"},
         NEW p \in Parts, NEW next \in Places \ (Done \cup {"idle"}),
         ReadPart(r, here, p, next)
  PROVE  IInv'
<1>1. CASE Exists /\ req' = [req EXCEPT ![r].read[p] = row[p], ![r].at = next]
  <2>1. req[r] \in Request /\ row[p] \in Maybe
    BY <1>1 DEF IInv, PoolTypeOK, Exists, Maybe
  <2>2. [req[r].read EXCEPT ![p] = row[p]] \in [Parts -> Maybe]
    BY <2>1 DEF Request
  <2>3. req' \in [Requests -> Request]
    BY <1>1, <2>1, <2>2 DEF IInv, PoolTypeOK, Request
  <2>4. PoolTypeOK'
    BY <2>3 DEF ReadPart, IInv, PoolTypeOK
  <2>5. \A q \in Requests : Harmless(q)
    BY <1>1, <2>1 DEF ReadPart, Harmless, IInv, PoolTypeOK, Request
  <2>6. QED  BY <2>4, <2>5, SameHandles DEF ReadPart
<1>2. CASE Goto(r, IF Optional(r, p) THEN next ELSE "error")
  <2>1. (IF Optional(r, p) THEN next ELSE "error") \in Places \ {"idle"}
    BY DEF Places, Done
  <2>2. row' \in {<<>>} \cup [Parts -> Names]
    BY DEF ReadPart, IInv, PoolTypeOK
  <2>3. QED  BY <1>2, <2>1, <2>2, OffPool DEF ReadPart
<1>3. QED  BY <1>1, <1>2 DEF ReadPart

LEMMA CachedKeeps ==
  ASSUME IInv, NEW r \in Requests, req[r].at = "get", GetCached(r, Key(r)),
         UNCHANGED <<row, ssh>>
  PROVE  IInv'
<1> DEFINE k == Key(r)
<1>1. k \in DOMAIN pool /\ pool[k] \in Entry /\ req[r] \in Request
  BY DEF GetCached, Hit, IInv, PoolTypeOK
<1>2. /\ Touched(pool[k]) \in Entry
      /\ Touched(pool[k]).handle = pool[k].handle
  BY <1>1 DEF Touched, Entry
<1>3. pool' = [pool EXCEPT ![k] = Touched(pool[k])]
  BY DEF GetCached
<1>4. /\ DOMAIN pool' = DOMAIN pool /\ pool' \in [DOMAIN pool -> Entry]
      /\ \A q \in DOMAIN pool : pool'[q].handle = pool[q].handle
  BY <1>1, <1>2, <1>3 DEF IInv, PoolTypeOK
<1>5. pool[k].handle \in Maybe  BY <1>1 DEF Entry, Maybe
<1>6. req' = [req EXCEPT ![r] = [req[r] EXCEPT !.at = "working", !.handle = pool[k].handle,
                                               !.held = 0]]
  BY <1>1 DEF GetCached, IInv, PoolTypeOK
<1>7. /\ req' \in [Requests -> Request]
      /\ req'[r].kind = req[r].kind /\ req'[r].at = "working"
  BY <1>1, <1>5, <1>6 DEF IInv, PoolTypeOK, Request, Places
<1>8. \A q \in Requests : Harmless(q)
  BY <1>6, <1>7 DEF Harmless, IInv, PoolTypeOK
<1>9. PoolTypeOK'  BY <1>4, <1>7 DEF IInv, PoolTypeOK
<1>10. QED  BY <1>4, <1>8, <1>9, SameHandles DEF GetCached

LEMMA NewKeeps ==
  ASSUME IInv, NEW r \in Requests, req[r].at = "get", GetNew(r, Key(r)),
         UNCHANGED <<row, ssh>>
  PROVE  IInv'
<1> DEFINE k == Key(r)
           new == [handle |-> r, with |-> req[r].read, age |-> 0]
<1>1. req[r] \in Request  BY DEF IInv, PoolTypeOK
<1>2. new \in Entry /\ new.handle = r
  BY <1>1 DEF Entry, Request, Names
<1>3. /\ DOMAIN pool' = DOMAIN pool \cup {k} /\ pool'[k] = new
      /\ \A q \in DOMAIN pool \ {k} : pool'[q] = pool[q]
      /\ pool' = [q \in DOMAIN pool \cup {k} |-> IF q = k THEN new ELSE pool[q]]
  BY DEF GetNew
<1>4. pool' \in [DOMAIN pool' -> Entry] /\ DOMAIN pool' \subseteq Requests \cup {"saved"}
  BY <1>2, <1>3 DEF IInv, PoolTypeOK, Key
<1>5. /\ req' \in [Requests -> Request]
      /\ req'[r].kind = req[r].kind /\ req'[r].at = "working"
      /\ \A q \in Requests : q # r => req'[q] = req[q]
  <2>1. req' = [req EXCEPT ![r] = [req[r] EXCEPT !.at = "working", !.handle = r, !.held = 0]]
    BY <1>1 DEF GetNew, IInv, PoolTypeOK
  <2>2. QED  BY <1>1, <2>1 DEF IInv, PoolTypeOK, Request, Places, Maybe, Names
<1>6. PoolTypeOK'  BY <1>4, <1>5 DEF IInv, PoolTypeOK
<1>7. r \notin DOMAIN pool
  BY ConnPoolAssumption DEF IInv, AllOwned, Owned
<1>8. AllOwned'
  <2> SUFFICES ASSUME NEW q \in DOMAIN pool'  PROVE Owned(q)'
    BY DEF AllOwned
  <2>1. CASE q = k
    BY <1>2, <1>3, <1>5, <2>1, ConnPoolAssumption DEF Owned, Key
  <2>2. CASE q # k
    <3>1. q \in DOMAIN pool /\ pool'[q] = pool[q] /\ Owned(q) /\ q # r
      BY <1>3, <1>7, <2>2 DEF IInv, AllOwned
    <3>2. q \in Requests \cup {"saved"}  BY <3>1 DEF IInv, PoolTypeOK
    <3>3. QED  BY <1>5, <3>1, <3>2, <2>2 DEF Owned
  <2>3. QED  BY <2>1, <2>2
<1>9. Accounted'
  <2>1. Handles(DOMAIN pool)' = (Handles(DOMAIN pool) \ Handles({k})) \cup {r}
    <3>1. Handles(DOMAIN pool)' = {pool[q].handle : q \in DOMAIN pool \ {k}} \cup {r}
      BY <1>2, <1>3 DEF Handles
    <3>2. \A q \in DOMAIN pool \ {k} : k \in DOMAIN pool => pool[q].handle # pool[k].handle
      BY OneHandlePerKey DEF IInv
    <3>3. QED  BY <3>1, <3>2 DEF Handles
  <2>2. QED  BY <2>1 DEF GetNew, IInv, Accounted
<1>10. QED  BY <1>6, <1>8, <1>9 DEF IInv

\* A request whose handle cannot be opened, and one that evicts its own.
LEMMA CloseOwnKeeps ==
  ASSUME IInv, NEW r \in Requests, NEW s \in Places \ {"idle"}, Goto(r, s),
         Close({Key(r)}), UNCHANGED <<row, ssh>>
  PROVE  IInv'
<1>1. /\ req' \in [Requests -> Request]
      /\ req'[r].kind = req[r].kind /\ req'[r].at = s
      /\ \A q \in Requests : q # r => req'[q] = req[q]
  BY GotoKeeps DEF IInv
<1>2. r \in DOMAIN pool => r \in {Key(r)}
  BY ConnPoolAssumption DEF IInv, AllOwned, Owned, Key
<1>3. QED  BY <1>1, <1>2, CloseKeeps

LEMMA GetKeeps ==
  ASSUME IInv, NEW r \in Requests, Get(r)
  PROVE  IInv'
<1>1. CASE GetCached(r, Key(r))  BY <1>1, CachedKeeps DEF Get
<1>2. CASE GetNew(r, Key(r))     BY <1>2, NewKeeps DEF Get
<1>3. CASE GetFails(r, Key(r))
  <2>1. (IF req[r].kind = "draft" THEN "evict" ELSE "error") \in Places \ {"idle"}
    BY DEF Places, Done
  <2>2. QED  BY <1>3, <2>1, CloseOwnKeeps DEF Get, GetFails
<1>4. QED  BY <1>1, <1>2, <1>3 DEF Get

LEMMA EvictEditedKeeps ==
  ASSUME IInv, NEW r \in Requests, EvictEdited(r)
  PROVE  IInv'
<1>1. "ok" \in Places  BY DEF Places, Done
<1>2. /\ req' \in [Requests -> Request]
      /\ req'[r].kind = req[r].kind /\ req'[r].at = "ok"
      /\ \A q \in Requests : q # r => req'[q] = req[q]
  BY <1>1, GotoKeeps DEF EvictEdited, IInv
<1>3. r \notin DOMAIN pool
  BY ConnPoolAssumption DEF EvictEdited, IInv, AllOwned, Owned
<1>4. QED  BY <1>2, <1>3, CloseKeeps DEF EvictEdited, Evict

\* The statements of an edit.
LEMMA WriteKeeps ==
  ASSUME IInv, NEW r \in Requests, NEW here \in Places \ {"working", "evict"}, NEW p \in Parts,
         NEW next \in Places \ {"idle"}, WritePart(r, here, p, next)
  PROVE  IInv'
<1>1. [row EXCEPT ![p] = r] \in [Parts -> Names] \/ row = <<>>
  BY DEF IInv, PoolTypeOK, Names
<1>2. row' \in {<<>>} \cup [Parts -> Names]
  BY <1>1 DEF WritePart, Updated, Exists, IInv, PoolTypeOK
<1>3. "error" \in Places \ {"idle"}  BY DEF Places, Done
<1>4. CASE Goto(r, next)     BY <1>2, <1>4, OffPool DEF WritePart
<1>5. CASE Goto(r, "error")  BY <1>2, <1>3, <1>5, OffPool DEF WritePart
<1>6. QED  BY <1>4, <1>5 DEF WritePart

LEMMA HandleKeeps ==
  ASSUME IInv, NEW r \in Requests, Handle(r)
  PROVE  IInv'
<1> USE DEF Places, Done
<1>1. row \in {<<>>} \cup [Parts -> Names]  BY DEF IInv, PoolTypeOK
<1>2. CASE ReadRow(r)
  BY <1>2, ReadKeeps DEF ReadRow, Parts
<1>3. CASE ReadPassword(r)
  <2>1. (IF ssh THEN "readSecret" ELSE "get") \in Places \ (Done \cup {"idle"})  OBVIOUS
  <2>2. QED  BY <1>3, <2>1, ReadKeeps DEF ReadPassword, Parts
<1>4. CASE ReadSecret(r)
  BY <1>4, ReadKeeps DEF ReadSecret, Parts
<1>5. CASE Get(r)  BY <1>5, GetKeeps
<1>6. CASE Finish(r)
  BY <1>1, <1>6, OffPool DEF Finish
<1>7. CASE EvictOwn(r)
  <2>1. (IF req[r].kind = "test" THEN "error" ELSE "ok") \in Places \ {"idle"}  OBVIOUS
  <2>2. QED  BY <1>7, <2>1, CloseOwnKeeps DEF EvictOwn, Evict
<1>8. CASE Check(r)
  <2>1. (IF Exists THEN "writeTarget" ELSE "error") \in Places \ {"idle"}  OBVIOUS
  <2>2. QED  BY <1>1, <1>8, <2>1, OffPool DEF Check
<1>9. CASE WriteTarget(r)
  BY <1>9, WriteKeeps DEF WriteTarget, Parts
<1>10. CASE WritePassword(r)
  BY <1>10, WriteKeeps DEF WritePassword, Parts
<1>11. CASE WriteSecret(r)
  BY <1>11, WriteKeeps DEF WriteSecret, Parts
<1>12. CASE Reread(r)
  <2>1. (IF Exists THEN "evictEdited" ELSE "error") \in Places \ {"idle"}  OBVIOUS
  <2>2. QED  BY <1>1, <1>12, <2>1, OffPool DEF Reread
<1>13. CASE DeleteConnection(r)
  <2>1. (IF Exists THEN "evictEdited" ELSE "error") \in Places \ {"idle"}  OBVIOUS
  <2>2. QED  BY <1>13, <2>1, OffPool DEF DeleteConnection
<1>14. CASE EvictEdited(r)  BY <1>14, EvictEditedKeeps
<1>15. QED
  BY <1>2, <1>3, <1>4, <1>5, <1>6, <1>7, <1>8, <1>9, <1>10, <1>11, <1>12, <1>13, <1>14 DEF Handle

LEMMA SweepKeeps ==
  ASSUME IInv, Sweep
  PROVE  IInv'
<1>1. req' \in [Requests -> Request]  BY DEF Sweep, IInv, PoolTypeOK
<1>2. QED  BY <1>1, CloseKeeps DEF Sweep

LEMMA TickKeeps ==
  ASSUME IInv, Tick
  PROVE  IInv'
<1>1. \A n \in Nat : Older(n) \in Nat  BY DEF Older
<1>2. /\ DOMAIN pool' = DOMAIN pool /\ pool' \in [DOMAIN pool -> Entry]
      /\ \A k \in DOMAIN pool : pool'[k].handle = pool[k].handle
  BY <1>1 DEF Tick, IInv, PoolTypeOK, Entry
<1>3. \A r \in Requests : /\ req'[r] \in Request
                          /\ req'[r].kind = req[r].kind /\ req'[r].at = req[r].at
  BY <1>1 DEF Tick, IInv, PoolTypeOK, Request
<1>4. req' \in [Requests -> Request]  BY <1>3 DEF Tick
<1>5. PoolTypeOK'  BY <1>2, <1>4 DEF Tick, IInv, PoolTypeOK
<1>6. \A r \in Requests : Harmless(r)  BY <1>3 DEF Harmless
<1>7. QED  BY <1>2, <1>5, <1>6, SameHandles DEF Tick

(***************************************************************************)
(* The second invariant, one kind of step at a time.                       *)
(***************************************************************************)
CalmParts == Alone /\ SavedFits /\ \A r \in Requests : ReadsFit(r) /\ Holds(r)

\* A place that a request is sent to, and what it keeps.
LEMMA GotoFrame ==
  ASSUME PoolTypeOK, NEW r \in Requests, NEW s \in Places, Goto(r, s)
  PROVE  /\ req'[r].kind = req[r].kind /\ req'[r].at = s
         /\ \A q \in Requests : q # r => req'[q] = req[q]
         /\ s \notin Done => /\ req'[r].read = req[r].read /\ req'[r].handle = req[r].handle
                             /\ req'[r].held = req[r].held
<1>1. /\ req'[r].kind = req[r].kind /\ req'[r].at = s
      /\ \A q \in Requests : q # r => req'[q] = req[q]
  BY GotoKeeps
<1>2. ASSUME s \notin Done
      PROVE  /\ req'[r].read = req[r].read /\ req'[r].handle = req[r].handle
             /\ req'[r].held = req[r].held
  <2>1. req' = [req EXCEPT ![r].at = s]  BY <1>2 DEF Goto
  <2>2. QED  BY <2>1 DEF PoolTypeOK, Request
<1>3. QED  BY <1>1, <1>2

\* A step of one request that leaves the row and the pool alone.
LEMMA QuietStep ==
  ASSUME CalmParts, NEW r \in Requests, InFlight(r), UNCHANGED <<row, ssh, pool>>,
         req'[r].kind = req[r].kind, \A q \in Requests : q # r => req'[q] = req[q],
         req[r].kind \notin Writers, ReadsFit(r)', Holds(r)'
  PROVE  CalmParts'
<1>1. \A q \in Requests : q # r => /\ ReadsFit(q)' /\ Holds(q)'
                                   /\ InFlight(q)' = InFlight(q)
  BY DEF CalmParts, ReadsFit, Holds, Agrees, Exists, Relevant, Key, InFlight
<1>2. Alone'
  BY <1>1 DEF CalmParts, Alone
<1>3. SavedFits'
  BY <1>1 DEF CalmParts, SavedFits, Agrees, Exists, Relevant
<1>4. QED  BY <1>1, <1>2, <1>3 DEF CalmParts

\* A step of a writer: nobody else is under way.
LEMMA WriterStep ==
  ASSUME CalmParts, NEW r \in Requests, InFlight(r), req[r].kind \in Writers, ssh' = ssh,
         req'[r].kind = req[r].kind, \A q \in Requests : q # r => req'[q] = req[q],
         req'[r].at \notin {"readPassword", "readSecret", "get", "working"},
         InFlight(r)' \/ ~Exists' \/ "saved" \notin DOMAIN pool'
  PROVE  CalmParts'
<1>1. \A q \in Requests : q # r => ~InFlight(q) /\ ~InFlight(q)'
  BY DEF CalmParts, Alone, InFlight
<1>2. \A q \in Requests : ReadsFit(q)' /\ Holds(q)'
  BY <1>1 DEF ReadsFit, Holds, InFlight, Done
<1>3. Alone'
  BY <1>1 DEF Alone
<1>4. SavedFits'
  BY DEF SavedFits, Agrees
<1>5. QED  BY <1>2, <1>3, <1>4 DEF CalmParts

LEMMA StartCalm ==
  ASSUME IInv, CInv, NEW r \in Requests, Start(r)
  PROVE  CInv'
<1>1. PICK k \in Kinds, s \in Places, P \in SUBSET Parts :
        /\ Begin(r, k, s, P)
        /\ \/ k \in {"use", "test"} /\ s = "readRow"
           \/ k = "draft" /\ s \in {"get", "readRow"}
           \/ k = "edit" /\ s = "check"
           \/ k = "delete" /\ s = "delete"
  <2>1. {} \in SUBSET Parts  OBVIOUS
  <2>2. CASE Use(r)     BY <2>1, <2>2 DEF Use, Kinds, Places
  <2>3. CASE Test(r)    BY <2>1, <2>3 DEF Test, Kinds, Places
  <2>4. CASE Draft(r)
    <3>1. PICK s \in {"get", "readRow"} : Begin(r, "draft", s, {})  BY <2>4 DEF Draft
    <3>2. s \in Places /\ "draft" \in Kinds  BY DEF Places, Kinds
    <3>3. QED  BY <2>1, <3>1, <3>2
  <2>5. CASE Edit(r)
    <3>1. PICK P \in SUBSET Parts : Begin(r, "edit", "check", P)  BY <2>5 DEF Edit
    <3>2. "check" \in Places /\ "edit" \in Kinds  BY DEF Places, Kinds
    <3>3. QED  BY <3>1, <3>2
  <2>6. CASE Delete(r)  BY <2>1, <2>6 DEF Delete, Kinds, Places
  <2>7. QED  BY <2>2, <2>3, <2>4, <2>5, <2>6 DEF Start
<1>2. req[r] \in Request /\ req[r].at = "idle" /\ ~InFlight(r)
  BY <1>1 DEF Begin, IInv, PoolTypeOK, InFlight
<1>3. /\ req'[r].kind = k /\ req'[r].at = s
      /\ \A q \in Requests : q # r => req'[q] = req[q]
      /\ UNCHANGED <<row, ssh, pool, mishap>>
      /\ overlap' = (overlap \/ \E q \in Requests \ {r} :
                       InFlight(q) /\ (k \in Writers \/ req[q].kind \in Writers))
  BY <1>1, <1>2 DEF Begin, IInv, PoolTypeOK, Request
<1>4. \A q \in Requests : KindFits(q)'
  BY <1>1, <1>3 DEF CInv, KindFits, Editing, Writers
<1>5. ASSUME ~overlap', ~mishap'  PROVE CalmParts'
  <2>1. CalmParts  BY <1>3, <1>5 DEF CInv, Calm, CalmParts
  <2>2. \A q \in Requests : q # r => /\ ReadsFit(q)' /\ Holds(q)'
                                     /\ InFlight(q)' = InFlight(q)
    BY <1>3, <2>1 DEF CalmParts, ReadsFit, Holds, Agrees, Exists, Relevant, Key, InFlight
  <2>3. ReadsFit(r)' /\ Holds(r)'
    BY <1>1, <1>3 DEF ReadsFit, Holds
  <2>4. Alone'
    BY <1>3, <1>5, <2>1, <2>2 DEF CalmParts, Alone
  <2>5. SavedFits'
    BY <1>2, <1>3, <2>1, <2>2 DEF CalmParts, SavedFits, Agrees, Exists, Relevant
  <2>6. QED  BY <2>2, <2>3, <2>4, <2>5 DEF CalmParts
<1>6. QED  BY <1>4, <1>5 DEF CInv, Calm, CalmParts

\* What the three statements of a reader have in common.
LEMMA ReadFrame ==
  ASSUME IInv, CInv, NEW r \in Requests, NEW p \in Parts,
         NEW here \in {"readRow", "readPassword", "readSecret"},
         NEW next \in {"readPassword", "readSecret", "get"},
         ReadPart(r, here, p, next)
  PROVE  /\ InFlight(r) /\ req[r].kind \in {"use", "test", "draft"} /\ req[r].kind \notin Writers
         /\ req'[r].kind = req[r].kind /\ \A q \in Requests : q # r => req'[q] = req[q]
         /\ UNCHANGED <<row, ssh, pool, overlap, mishap>>
         /\ \/ /\ Exists /\ req'[r].at = next
               /\ req'[r].read = [req[r].read EXCEPT ![p] = row[p]]
            \/ ~Exists /\ req'[r].at = IF Optional(r, p) THEN next ELSE "error"
         /\ req[r].read \in [Parts -> Maybe]
         /\ \A q \in Requests : KindFits(q)'
<1>1. req[r] \in Request /\ req[r].at = here  BY DEF ReadPart, IInv, PoolTypeOK
<1>2. InFlight(r) /\ req[r].kind \in {"use", "test", "draft"} /\ req[r].kind \notin Writers
  BY <1>1 DEF CInv, KindFits, InFlight, Done, Writers
<1>3. CASE Exists /\ req' = [req EXCEPT ![r].read[p] = row[p], ![r].at = next]
  <2>1. /\ req'[r].kind = req[r].kind /\ req'[r].at = next
        /\ \A q \in Requests : q # r => req'[q] = req[q]
        /\ req'[r].read = [req[r].read EXCEPT ![p] = row[p]]
    BY <1>1, <1>3 DEF IInv, PoolTypeOK, Request
  <2>2. \A q \in Requests : KindFits(q)'
    BY <1>2, <2>1 DEF CInv, KindFits, Editing, Writers
  <2>3. QED  BY <1>1, <1>2, <1>3, <2>1, <2>2 DEF ReadPart, Request
<1>4. CASE ~Exists /\ Goto(r, IF Optional(r, p) THEN next ELSE "error")
  <2>1. (IF Optional(r, p) THEN next ELSE "error") \in Places
    BY DEF Places, Done
  <2>2. /\ req'[r].kind = req[r].kind /\ req'[r].at = IF Optional(r, p) THEN next ELSE "error"
        /\ \A q \in Requests : q # r => req'[q] = req[q]
    BY <1>4, <2>1, GotoFrame DEF IInv
  <2>3. \A q \in Requests : KindFits(q)'
    BY <1>2, <2>2 DEF CInv, KindFits, Editing, Writers
  <2>4. QED  BY <1>1, <1>2, <1>4, <2>2, <2>3 DEF ReadPart, Request
<1>5. QED  BY <1>3, <1>4 DEF ReadPart

LEMMA ReadCalm ==
  ASSUME IInv, CInv, NEW r \in Requests, ReadRow(r) \/ ReadPassword(r) \/ ReadSecret(r)
  PROVE  CInv'
<1>1. PICK p \in Parts, here \in {"readRow", "readPassword", "readSecret"},
           next \in {"readPassword", "readSecret", "get"} :
        /\ ReadPart(r, here, p, next)
        /\ \/ here = "readRow" /\ p = "target" /\ next = "readPassword"
           \/ here = "readPassword" /\ p = "password" /\ next = IF ssh THEN "readSecret" ELSE "get"
           \/ here = "readSecret" /\ p = "secret" /\ next = "get"
  BY DEF ReadRow, ReadPassword, ReadSecret, Parts
<1> DEFINE Frame ==
      /\ InFlight(r) /\ req[r].kind \in {"use", "test", "draft"} /\ req[r].kind \notin Writers
      /\ req'[r].kind = req[r].kind /\ \A q \in Requests : q # r => req'[q] = req[q]
      /\ UNCHANGED <<row, ssh, pool, overlap, mishap>>
      /\ \/ /\ Exists /\ req'[r].at = next
            /\ req'[r].read = [req[r].read EXCEPT ![p] = row[p]]
         \/ ~Exists /\ req'[r].at = IF Optional(r, p) THEN next ELSE "error"
      /\ req[r].read \in [Parts -> Maybe]
      /\ \A q \in Requests : KindFits(q)'
<1>2. Frame
  BY <1>1, ReadFrame
<1>3. ASSUME ~overlap', ~mishap'  PROVE CalmParts'
  <2>1. CalmParts  BY <1>2, <1>3 DEF CInv, Calm, CalmParts
  <2>2. req[r].at = here /\ ReadsFit(r)  BY <1>1, <2>1 DEF ReadPart, CalmParts
  <2>3. ReadsFit(r)'
    <3>1. CASE Exists /\ req'[r].at = next /\ req'[r].read = [req[r].read EXCEPT ![p] = row[p]]
      <4>1. req'[r].read[p] = row[p] /\ \A x \in Parts \ {p} : req'[r].read[x] = req[r].read[x]
        BY <1>2, <3>1
      <4>2. QED  BY <1>1, <1>2, <2>2, <3>1, <4>1 DEF ReadsFit, Agrees, Exists, Relevant, Parts
    <3>2. CASE ~Exists /\ req'[r].at = IF Optional(r, p) THEN next ELSE "error"
      BY <1>1, <1>2, <2>2, <3>2 DEF ReadsFit, Agrees, Optional
    <3>3. QED  BY <1>2, <3>1, <3>2
  <2>4. Holds(r)'  BY <1>2 DEF Holds
  <2>5. QED  BY <1>2, <2>1, <2>3, <2>4, QuietStep
<1>4. QED  BY <1>2, <1>3 DEF CInv, Calm, CalmParts

LEMMA FinishCalm ==
  ASSUME IInv, CInv, NEW r \in Requests, Finish(r)
  PROVE  CInv'
<1>1. PICK s \in {"ok", "evict"} : Goto(r, s) /\ (s = "evict" => req[r].kind \in {"test", "draft"})
  BY DEF Finish
<1>2. /\ req'[r].kind = req[r].kind /\ req'[r].at = s
      /\ \A q \in Requests : q # r => req'[q] = req[q]
  BY <1>1, GotoFrame DEF IInv, Places, Done
<1>3. InFlight(r) /\ req[r].kind \in {"use", "test", "draft"} /\ req[r].kind \notin Writers
  BY DEF Finish, CInv, KindFits, InFlight, Done, Writers
<1>4. \A q \in Requests : KindFits(q)'
  BY <1>1, <1>2, <1>3 DEF CInv, KindFits, Editing
<1>5. ReadsFit(r)' /\ Holds(r)'  BY <1>2 DEF ReadsFit, Holds
<1>6. ASSUME CalmParts  PROVE CalmParts'
  BY <1>2, <1>3, <1>5, <1>6, QuietStep DEF Finish
<1>7. QED  BY <1>4, <1>6 DEF CInv, Calm, CalmParts, Finish

LEMMA CachedCalm ==
  ASSUME IInv, CInv, NEW r \in Requests, Get(r), GetCached(r, Key(r))
  PROVE  CInv'
<1> DEFINE k == Key(r)
<1>1. /\ k \in DOMAIN pool /\ pool[k] \in Entry /\ req[r] \in Request /\ req[r].at = "get"
      /\ UNCHANGED <<row, ssh, overlap, mishap>>
  BY DEF Get, GetCached, Hit, IInv, PoolTypeOK
<1>2. /\ Touched(pool[k]).handle = pool[k].handle /\ Touched(pool[k]).with = pool[k].with
      /\ Touched(pool[k]).age = 0
  BY <1>1 DEF Touched, Entry
<1>3. /\ DOMAIN pool' = DOMAIN pool
      /\ \A q \in DOMAIN pool : pool'[q].handle = pool[q].handle /\ pool'[q].with = pool[q].with
      /\ pool'[k].age = 0 /\ \A q \in DOMAIN pool : q # k => pool'[q].age = pool[q].age
  BY <1>1, <1>2 DEF GetCached, IInv, PoolTypeOK
<1>4. /\ req'[r].kind = req[r].kind /\ req'[r].at = "working"
      /\ req'[r].handle = pool[k].handle /\ req'[r].held = 0
      /\ \A q \in Requests : q # r => req'[q] = req[q]
  BY <1>1 DEF GetCached, IInv, PoolTypeOK, Request
<1>5. /\ InFlight(r) /\ InFlight(r)' /\ req[r].kind \notin Writers
      /\ \A q \in Requests : KindFits(q)'
  BY <1>1, <1>4 DEF CInv, KindFits, InFlight, Done, Editing, Writers
<1>6. k = Key(r)'  BY <1>4 DEF Key
<1>7. ASSUME CalmParts  PROVE CalmParts'
  <2>1. ASSUME NEW q \in Requests  PROVE ReadsFit(q)' /\ Holds(q)'
    <3>1. CASE q = r
      BY <1>1, <1>3, <1>4, <1>6, <3>1 DEF ReadsFit, Holds
    <3>2. CASE q # r
      <4>1. req'[q] = req[q] /\ ReadsFit(q) /\ Holds(q) /\ req[q] \in Request
            /\ Key(q)' = Key(q)
        BY <1>4, <1>7, <3>2 DEF CalmParts, Key, IInv, PoolTypeOK
      <4>2. ReadsFit(q)'
        BY <1>1, <4>1 DEF ReadsFit, Agrees, Exists, Relevant
      <4>3. Holds(q)'
        BY <1>3, <4>1 DEF Holds, Request
      <4>4. QED  BY <4>2, <4>3
    <3>3. QED  BY <3>1, <3>2
  <2>2. \A q \in Requests : InFlight(q)' = InFlight(q) /\ req'[q].kind = req[q].kind
    BY <1>4, <1>5 DEF InFlight
  <2>3. Alone'  BY <1>7, <2>2 DEF CalmParts, Alone
  <2>4. SavedFits'
    BY <1>1, <1>3, <1>7, <2>2 DEF CalmParts, SavedFits, Agrees, Exists, Relevant
  <2>5. QED  BY <2>1, <2>3, <2>4 DEF CalmParts
<1>8. QED  BY <1>1, <1>5, <1>7 DEF CInv, Calm, CalmParts

\* While no writer is under way, only a request that finds no handle under the
\* connection's key is given a new one: nobody holds a young one.
LEMMA MissMeansNone ==
  ASSUME IInv, CInv, CalmParts, NEW r \in Requests, req[r].at = "get",
         ~Hit(Key(r), req[r].read)
  PROVE  Key(r) \notin DOMAIN pool
<1>1. req[r].kind \in {"use", "test", "draft"}  BY DEF CInv, KindFits
<1>2. CASE req[r].kind = "draft"
  BY <1>2, ConnPoolAssumption DEF Key, IInv, AllOwned, Owned
<1>3. CASE req[r].kind # "draft"
  <2>1. Agrees(req[r].read, Relevant)  BY <1>3 DEF CalmParts, ReadsFit
  <2>2. InFlight(r) /\ req[r].kind \notin Writers  BY <1>1 DEF InFlight, Done, Writers
  <2>3. \A q \in Requests : InFlight(q) => req[q].kind \notin Writers
    BY <2>2 DEF CalmParts, Alone
  <2>4. ASSUME "saved" \in DOMAIN pool
        PROVE  CacheKey(pool["saved"].with) = CacheKey(req[r].read)
    <3>1. Agrees(pool["saved"].with, Relevant)
      BY <2>1, <2>3, <2>4 DEF CalmParts, SavedFits, Agrees
    <3>2. "target" \in Relevant /\ "password" \in Relevant  BY DEF Relevant, Parts
    <3>3. QED  BY <2>1, <3>1, <3>2 DEF CacheKey, Agrees
  <2>5. Key(r) = "saved"  BY <1>3 DEF Key
  <2>6. QED  BY <2>4, <2>5 DEF Hit
<1>4. QED  BY <1>2, <1>3

LEMMA NewCalm ==
  ASSUME IInv, CInv, NEW r \in Requests, Get(r), GetNew(r, Key(r))
  PROVE  CInv'
<1> DEFINE k == Key(r)
<1>1. req[r] \in Request /\ req[r].at = "get" /\ UNCHANGED <<row, ssh, overlap, mishap>>
  BY DEF Get, IInv, PoolTypeOK
<1>2. /\ DOMAIN pool' = DOMAIN pool \cup {k}
      /\ pool'[k].handle = r /\ pool'[k].with = req[r].read /\ pool'[k].age = 0
      /\ \A q \in DOMAIN pool : q # k => pool'[q] = pool[q]
  BY DEF GetNew
<1>3. /\ req'[r].kind = req[r].kind /\ req'[r].at = "working"
      /\ req'[r].handle = r /\ req'[r].held = 0
      /\ \A q \in Requests : q # r => req'[q] = req[q]
  BY <1>1 DEF GetNew, IInv, PoolTypeOK, Request
<1>4. /\ InFlight(r) /\ InFlight(r)' /\ req[r].kind \notin Writers
      /\ \A q \in Requests : KindFits(q)'
  BY <1>1, <1>3 DEF CInv, KindFits, InFlight, Done, Editing, Writers
<1>5. k = Key(r)'  BY <1>3 DEF Key
<1>6. ASSUME CalmParts  PROVE CalmParts'
  <2>1. k \notin DOMAIN pool
    BY <1>1, <1>6, MissMeansNone DEF GetNew
  <2>2. ASSUME NEW q \in Requests  PROVE ReadsFit(q)' /\ Holds(q)'
    <3>1. CASE q = r
      BY <1>1, <1>2, <1>3, <1>5, <3>1 DEF ReadsFit, Holds
    <3>2. CASE q # r
      <4>1. req'[q] = req[q] /\ ReadsFit(q) /\ Holds(q) /\ Key(q)' = Key(q)
        BY <1>3, <1>6, <3>2 DEF CalmParts, Key
      <4>2. ReadsFit(q)'
        BY <1>1, <4>1 DEF ReadsFit, Agrees, Exists, Relevant
      <4>3. Holds(q)'
        BY <1>2, <2>1, <4>1 DEF Holds
      <4>4. QED  BY <4>2, <4>3
    <3>3. QED  BY <3>1, <3>2
  <2>3. \A q \in Requests : InFlight(q)' = InFlight(q) /\ req'[q].kind = req[q].kind
    BY <1>3, <1>4 DEF InFlight
  <2>4. Alone'  BY <1>6, <2>3 DEF CalmParts, Alone
  <2>5. SavedFits'
    <3>1. CASE k = "saved"
      <4>1. req[r].kind # "draft"
        BY <3>1, ConnPoolAssumption DEF Key
      <4>2. Agrees(req[r].read, Relevant)
        BY <1>1, <1>6, <4>1 DEF CalmParts, ReadsFit
      <4>3. QED  BY <1>1, <1>2, <3>1, <4>2 DEF SavedFits, Agrees, Exists, Relevant
    <3>2. CASE k # "saved"
      BY <1>1, <1>2, <1>6, <2>3, <3>2 DEF CalmParts, SavedFits, Agrees, Exists, Relevant
    <3>3. QED  BY <3>1, <3>2
  <2>6. QED  BY <2>2, <2>4, <2>5 DEF CalmParts
<1>7. QED  BY <1>1, <1>4, <1>6 DEF CInv, Calm, CalmParts

LEMMA FailsCalm ==
  ASSUME IInv, CInv, NEW r \in Requests, Get(r), GetFails(r, Key(r))
  PROVE  CInv'
<1>1. PICK s \in {"evict", "error"} : Goto(r, s) /\ (s = "evict" => req[r].kind = "draft")
  BY DEF GetFails
<1>2. /\ req'[r].kind = req[r].kind /\ req'[r].at = s
      /\ \A q \in Requests : q # r => req'[q] = req[q]
  BY <1>1, GotoFrame DEF IInv, Places, Done
<1>3. InFlight(r) /\ req[r].kind \in {"use", "test", "draft"} /\ req[r].kind \notin Writers
  BY DEF Get, CInv, KindFits, InFlight, Done, Writers
<1>4. \A q \in Requests : KindFits(q)'
  BY <1>1, <1>2, <1>3 DEF CInv, KindFits, Editing
<1>5. ReadsFit(r)' /\ Holds(r)'  BY <1>2 DEF ReadsFit, Holds
<1>6. ASSUME CalmParts  PROVE CalmParts'
  <2>1. Key(r) \notin DOMAIN pool
    BY <1>6, MissMeansNone DEF Get, GetFails
  <2>2. pool' = pool
    BY <2>1 DEF GetFails, Close, IInv, PoolTypeOK
  <2>3. QED  BY <1>2, <1>3, <1>5, <1>6, <2>2, QuietStep DEF Get
<1>7. QED  BY <1>4, <1>6 DEF CInv, Calm, CalmParts, Get

LEMMA EvictOwnCalm ==
  ASSUME IInv, CInv, NEW r \in Requests, EvictOwn(r)
  PROVE  CInv'
<1>1. PICK s \in {"ok", "error"} : Goto(r, s)
  BY DEF EvictOwn
<1>2. /\ req'[r].kind = req[r].kind /\ req'[r].at = s
      /\ \A q \in Requests : q # r => req'[q] = req[q]
  BY <1>1, GotoFrame DEF IInv, Places, Done
<1>3. req[r].kind \in {"test", "draft"} /\ req[r].at = "evict"
  BY DEF EvictOwn, CInv, KindFits
<1>4. \A q \in Requests : KindFits(q)'
  BY <1>1, <1>2, <1>3 DEF CInv, KindFits, Editing
<1>5. CASE req[r].kind = "test"
  BY <1>4, <1>5 DEF EvictOwn, CInv, Calm
<1>6. CASE req[r].kind = "draft"
  <2>1. /\ UNCHANGED <<row, ssh, overlap>> /\ (mishap => mishap')
        /\ DOMAIN pool' = DOMAIN pool \ {r}
        /\ \A k \in DOMAIN pool' : pool'[k] = pool[k]
    <3>1. Key(r) = r  BY <1>6 DEF Key
    <3>2. pool' = [k \in DOMAIN pool \ {r} |-> pool[k]]
      BY <3>1 DEF EvictOwn, Evict, Close
    <3>3. QED  BY <3>2 DEF EvictOwn
  <2>2. ASSUME CalmParts  PROVE CalmParts'
    <3>1. InFlight(r) /\ ~InFlight(r)'
      BY <1>2, <1>3 DEF InFlight, Done
    <3>2. ASSUME NEW q \in Requests  PROVE ReadsFit(q)' /\ Holds(q)'
      <4>1. CASE q = r  BY <1>2, <4>1 DEF ReadsFit, Holds
      <4>2. CASE q # r
        <5>1. req'[q] = req[q] /\ ReadsFit(q) /\ Holds(q) /\ Key(q)' = Key(q) /\ Key(q) # r
          BY <1>2, <2>2, <4>2, ConnPoolAssumption DEF CalmParts, Key
        <5>2. ReadsFit(q)'
          BY <2>1, <5>1 DEF ReadsFit, Agrees, Exists, Relevant
        <5>3. Holds(q)'
          BY <2>1, <5>1 DEF Holds
        <5>4. QED  BY <5>2, <5>3
      <4>3. QED  BY <4>1, <4>2
    <3>3. /\ \A q \in Requests : InFlight(q)' => InFlight(q)
          /\ \A q \in Requests : req'[q].kind = req[q].kind
          /\ \A q \in Requests : q # r => InFlight(q)' = InFlight(q)
      BY <1>2, <3>1 DEF InFlight
    <3>4. Alone'  BY <2>2, <3>3 DEF CalmParts, Alone
    <3>5. req[r].kind \notin Writers  BY <1>6 DEF Writers
    <3>6. SavedFits'
      BY <2>1, <2>2, <3>3, <3>5 DEF CalmParts, SavedFits, Agrees, Exists, Relevant
    <3>7. QED  BY <3>2, <3>4, <3>6 DEF CalmParts
  <2>3. QED  BY <1>4, <2>1, <2>2 DEF CInv, Calm, CalmParts
<1>7. QED  BY <1>3, <1>5, <1>6

\* The statements of an edit and of a deletion.
LEMMA WriterCalm ==
  ASSUME IInv, CInv, NEW r \in Requests,
         \/ Check(r) \/ WriteTarget(r) \/ WritePassword(r) \/ WriteSecret(r) \/ Reread(r)
         \/ DeleteConnection(r) \/ EvictEdited(r)
  PROVE  CInv'
<1> USE DEF Places, Done
<1>1. PICK s \in {"writeTarget", "writePassword", "writeSecret", "reread", "evictEdited",
                  "ok", "error"} :
        /\ Goto(r, s)
        /\ \/ req[r].at \in Editing /\ s # "ok"
           \/ req[r].at = "delete" /\ s \in {"evictEdited", "error"}
           \/ req[r].at = "evictEdited" /\ s = "ok"
        /\ s = "error" => ~Exists' \/ mishap'
        /\ s = "ok" => "saved" \notin DOMAIN pool'
  <2>1. CASE Check(r)             BY <2>1 DEF Check, Editing, Exists
  <2>2. CASE WriteTarget(r)       BY <2>2 DEF WriteTarget, WritePart, Editing
  <2>3. CASE WritePassword(r)     BY <2>3 DEF WritePassword, WritePart, Editing
  <2>4. CASE WriteSecret(r)       BY <2>4 DEF WriteSecret, WritePart, Editing
  <2>5. CASE Reread(r)            BY <2>5 DEF Reread, Editing, Exists
  <2>6. CASE DeleteConnection(r)  BY <2>6 DEF DeleteConnection, Exists
  <2>7. CASE EvictEdited(r)       BY <2>7 DEF EvictEdited, Evict, Close
  <2>8. QED  BY <2>1, <2>2, <2>3, <2>4, <2>5, <2>6, <2>7
<1>2. ssh' = ssh /\ overlap' = overlap /\ (mishap => mishap')
  <2>1. CASE Check(r)             BY <2>1 DEF Check
  <2>2. CASE WriteTarget(r)       BY <2>2 DEF WriteTarget, WritePart
  <2>3. CASE WritePassword(r)     BY <2>3 DEF WritePassword, WritePart
  <2>4. CASE WriteSecret(r)       BY <2>4 DEF WriteSecret, WritePart
  <2>5. CASE Reread(r)            BY <2>5 DEF Reread
  <2>6. CASE DeleteConnection(r)  BY <2>6 DEF DeleteConnection
  <2>7. CASE EvictEdited(r)       BY <2>7 DEF EvictEdited
  <2>8. QED  BY <2>1, <2>2, <2>3, <2>4, <2>5, <2>6, <2>7
<1>3. /\ req'[r].kind = req[r].kind /\ req'[r].at = s
      /\ \A q \in Requests : q # r => req'[q] = req[q]
  BY <1>1, GotoFrame DEF IInv
<1>4. /\ req[r].kind \in Writers /\ InFlight(r)
      /\ req[r].at \in Editing => req[r].kind = "edit"
  BY <1>1 DEF CInv, KindFits, Editing, Writers, InFlight
<1>5. \A q \in Requests : KindFits(q)'
  BY <1>1, <1>3, <1>4 DEF CInv, KindFits, Editing, Writers
<1>6. ASSUME CalmParts, ~mishap'  PROVE CalmParts'
  <2>1. InFlight(r)' \/ ~Exists' \/ "saved" \notin DOMAIN pool'
    BY <1>1, <1>3, <1>6 DEF InFlight
  <2>2. req'[r].at \notin {"readPassword", "readSecret", "get", "working"}
    BY <1>1, <1>3
  <2>3. QED  BY <1>2, <1>3, <1>4, <1>6, <2>1, <2>2, WriterStep
<1>7. QED  BY <1>2, <1>5, <1>6 DEF CInv, Calm, CalmParts

LEMMA SweepCalm ==
  ASSUME IInv, CInv, Sweep
  PROVE  CInv'
<1>1. /\ DOMAIN pool' = DOMAIN pool \ {k \in DOMAIN pool : IsIdle(pool[k])}
      /\ \A k \in DOMAIN pool' : pool'[k] = pool[k]
      /\ UNCHANGED <<row, ssh, req, overlap, mishap>>
  BY DEF Sweep, Close
<1>2. \A r \in Requests : KindFits(r)'  BY <1>1 DEF CInv, KindFits
<1>3. ASSUME CalmParts  PROVE CalmParts'
  <2>1. \A r \in Requests : ReadsFit(r)'
    BY <1>1, <1>3 DEF CalmParts, ReadsFit, Agrees, Exists, Relevant
  <2>2. ASSUME NEW r \in Requests  PROVE Holds(r)'
    <3>1. Holds(r) /\ Key(r)' = Key(r) /\ req[r] \in Request
      BY <1>1, <1>3 DEF CalmParts, Key, IInv, PoolTypeOK
    <3>2. \A k \in DOMAIN pool : pool[k] \in Entry  BY DEF IInv, PoolTypeOK
    <3>3. QED
      BY <1>1, <3>1, <3>2, ConnPoolAssumption DEF Holds, IsIdle, Entry, Request
  <2>3. Alone'  BY <1>1, <1>3 DEF CalmParts, Alone, InFlight
  <2>4. SavedFits'
    BY <1>1, <1>3 DEF CalmParts, SavedFits, Agrees, Exists, Relevant, InFlight
  <2>5. QED  BY <2>1, <2>2, <2>3, <2>4 DEF CalmParts
<1>4. QED  BY <1>1, <1>2, <1>3 DEF CInv, Calm, CalmParts

LEMMA TickCalm ==
  ASSUME IInv, CInv, Tick
  PROVE  CInv'
<1>1. /\ DOMAIN pool' = DOMAIN pool /\ UNCHANGED <<row, ssh, overlap, mishap>>
      /\ \A k \in DOMAIN pool : /\ pool[k] \in Entry /\ pool'[k].handle = pool[k].handle
                                /\ pool'[k].with = pool[k].with
                                /\ pool'[k].age = Older(pool[k].age)
  BY DEF Tick, IInv, PoolTypeOK, Entry
<1>2. \A r \in Requests :
        /\ req[r] \in Request
        /\ req'[r].kind = req[r].kind /\ req'[r].at = req[r].at
        /\ req'[r].read = req[r].read /\ req'[r].handle = req[r].handle
        /\ req[r].at = "working" => req'[r].held = Older(req[r].held)
  BY DEF Tick, IInv, PoolTypeOK, Request
<1>3. \A r \in Requests : KindFits(r)'  BY <1>2 DEF CInv, KindFits
<1>4. ASSUME CalmParts  PROVE CalmParts'
  <2>1. \A r \in Requests : ReadsFit(r)'
    BY <1>1, <1>2, <1>4 DEF CalmParts, ReadsFit, Agrees, Exists, Relevant
  <2>2. ASSUME NEW r \in Requests  PROVE Holds(r)'
    <3>1. Holds(r) /\ Key(r)' = Key(r)
      BY <1>2, <1>4 DEF CalmParts, Key
    <3>2. \A m, n \in Nat : /\ m <= n => Older(m) <= Older(n)
                            /\ Older(n) < Idle => n < Idle
      BY ConnPoolAssumption DEF Older
    <3>3. req[r].held \in Nat /\ \A k \in DOMAIN pool : pool[k].age \in Nat
      BY <1>1, <1>2 DEF Entry, Request
    <3>4. QED  BY <1>1, <1>2, <3>1, <3>2, <3>3 DEF Holds
  <2>3. \A r \in Requests : InFlight(r)' = InFlight(r)  BY <1>2 DEF InFlight
  <2>4. Alone'  BY <1>2, <1>4, <2>3 DEF CalmParts, Alone
  <2>5. SavedFits'
    BY <1>1, <1>2, <1>4, <2>3 DEF CalmParts, SavedFits, Agrees, Exists, Relevant
  <2>6. QED  BY <2>1, <2>2, <2>4, <2>5 DEF CalmParts
<1>5. QED  BY <1>1, <1>3, <1>4 DEF CInv, Calm, CalmParts

LEMMA InitCalm == Init => CInv
<1> SUFFICES ASSUME Init  PROVE CInv
  OBVIOUS
<1>1. \A r \in Requests : req[r].kind = "none" /\ req[r].at = "idle"
  BY DEF Init, NoRequest
<1>2. \A r \in Requests : KindFits(r) /\ ReadsFit(r) /\ Holds(r)
  BY <1>1 DEF KindFits, ReadsFit, Holds, Editing
<1>3. Alone  BY <1>1 DEF Alone, InFlight
<1>4. SavedFits
  <2>1. "saved" \in DOMAIN pool => pool["saved"].with = row
    <3>1. CASE pool = <<>>  BY <3>1
    <3>2. CASE pool = [k \in {"saved"} |-> [handle |-> "first", with |-> row, age |-> 0]]
      BY <3>2
    <3>3. QED  BY <3>1, <3>2 DEF Init
  <2>2. Relevant \subseteq Parts  BY DEF Relevant
  <2>3. QED  BY <2>1, <2>2 DEF SavedFits, Agrees
<1>5. QED  BY <1>2, <1>3, <1>4 DEF CInv, Calm

(***************************************************************************)
(* The theorems.                                                           *)
(***************************************************************************)
\* The invariant of the pool holds in every reachable state.
THEOREM Invariance == Spec => []IInv
<1>1. IInv /\ [Next]_vars => IInv'
  <2> SUFFICES ASSUME IInv, [Next]_vars  PROVE IInv'
    OBVIOUS
  <2>1. CASE Sweep  BY <2>1, SweepKeeps
  <2>2. CASE Tick   BY <2>2, TickKeeps
  <2>3. ASSUME NEW r \in Requests, Start(r)  PROVE IInv'
    BY <2>3, StartKeeps
  <2>4. ASSUME NEW r \in Requests, Handle(r)  PROVE IInv'
    BY <2>4, HandleKeeps
  <2>5. CASE UNCHANGED vars
    <3>1. PoolTypeOK'  BY <2>5 DEF vars, IInv, PoolTypeOK
    <3>2. QED  BY <2>5, <3>1, SameHandles DEF vars, Harmless
  <2>6. QED  BY <2>1, <2>2, <2>3, <2>4, <2>5 DEF Next
<1>2. QED  BY <1>1, InitEstablishes, PTL DEF Spec

\* What is open is what the pool knows of, and a draft's handle is in the pool
\* only while the draft is tested (Pool.Get, Evict and Sweep, testDraftConn).
THEOREM PoolSafety == Spec => []NothingLeaks
<1>1. IInv => NothingLeaks
  BY DEF IInv, Accounted, AllOwned, Owned, NothingLeaks, InFlight, Done
<1>2. QED  BY <1>1, Invariance, PTL

\* The second invariant holds in every reachable state.
THEOREM Calmness == Spec => []CInv
<1>1. IInv /\ CInv /\ [Next]_vars => CInv'
  <2> SUFFICES ASSUME IInv, CInv, [Next]_vars  PROVE CInv'
    OBVIOUS
  <2>1. CASE Sweep  BY <2>1, SweepCalm
  <2>2. CASE Tick   BY <2>2, TickCalm
  <2>3. ASSUME NEW r \in Requests, Start(r)  PROVE CInv'
    BY <2>3, StartCalm
  <2>4. ASSUME NEW r \in Requests, Handle(r)  PROVE CInv'
    <3>1. CASE ReadRow(r) \/ ReadPassword(r) \/ ReadSecret(r)  BY <3>1, ReadCalm
    <3>2. CASE Get(r)
      BY <3>2, CachedCalm, NewCalm, FailsCalm DEF Get
    <3>3. CASE Finish(r)    BY <3>3, FinishCalm
    <3>4. CASE EvictOwn(r)  BY <3>4, EvictOwnCalm
    <3>5. CASE \/ Check(r) \/ WriteTarget(r) \/ WritePassword(r) \/ WriteSecret(r)
               \/ Reread(r) \/ DeleteConnection(r) \/ EvictEdited(r)
      BY <3>5, WriterCalm
    <3>6. QED  BY <2>4, <3>1, <3>2, <3>3, <3>4, <3>5 DEF Handle
  <2>5. CASE UNCHANGED vars
    BY <2>5 DEF vars, CInv, KindFits, Calm, Alone, SavedFits, ReadsFit, Holds, Agrees, Exists,
               Relevant, InFlight, Key
  <2>6. QED  BY <2>1, <2>2, <2>3, <2>4, <2>5 DEF Next
<1>2. QED  BY <1>1, InitCalm, Invariance, PTL DEF Spec

\* A request's young handle is not closed under it by other requests, tests,
\* drafts or the sweeper (Pool.Get, Pool.Sweep, handleTestConnection).
THEOREM UndisturbedSafety == Spec => []Undisturbed
<1>1. IInv /\ CInv => Undisturbed
  <2> SUFFICES ASSUME IInv, CInv, ~overlap, ~mishap, NEW r \in Requests,
                      req[r].at = "working", req[r].held < Idle
               PROVE  req[r].handle \in open
    BY DEF Undisturbed
  <2>1. Key(r) \in DOMAIN pool /\ pool[Key(r)].handle = req[r].handle
    BY DEF CInv, Calm, Holds
  <2>2. QED  BY <2>1 DEF IInv, Accounted, Handles
<1>2. QED  BY <1>1, Invariance, Calmness, PTL

\* A request that did not overlap an edit works with what the connection has
\* now, the SSH secret included (Pool.Get, handleUpdateConnection).
THEOREM FreshSafety == Spec => []Fresh
<1>1. CInv => Fresh
  <2> SUFFICES ASSUME CInv, NEW r \in Requests, WorksUnraced(r)
               PROVE  \A p \in Relevant : pool["saved"].with[p] = row[p]
    BY DEF Fresh, Relevant
  <2>1. Alone /\ SavedFits /\ Exists /\ "saved" \in DOMAIN pool
    BY DEF WorksUnraced, CInv, Calm
  <2>2. InFlight(r) /\ req[r].kind \notin Writers
    BY DEF WorksUnraced, InFlight, Done, Writers
  <2>3. \A q \in Requests : InFlight(q) => req[q].kind \notin Writers
    BY <2>1, <2>2 DEF Alone
  <2>4. QED  BY <2>1, <2>3 DEF SavedFits, Agrees
<1>2. QED  BY <1>1, Calmness, PTL
=============================================================================
