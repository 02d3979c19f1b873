------------------------------ MODULE Accounts ------------------------------
(***************************************************************************)
(* Accounts, sessions, password resets and administration.                 *)
(*                                                                         *)
(* Every request is served by its own goroutine, and every SQL statement   *)
(* of the server's SQLite file is one atomic step; no handler opens a      *)
(* transaction, so requests interleave between any two statements.         *)
(* req[r].at is the next statement of request r, or how it was answered.   *)
(* SQLite's foreign keys are on (store/db.go): the rows of a user go with  *)
(* the user, except that reset codes forbid it.                            *)
(***************************************************************************)
EXTENDS Naturals, FiniteSets

CONSTANTS Requests,     \* requests; a session is named after the request that opened it
          Names,        \* user names
          Passwords,    \* passwords, all of them well-formed
          OldTokens,    \* sessions that exist at the beginning
          Address,      \* the one mail address in use; accounts may share it
          MaxFaults     \* bound: SQL statements that fail (SQLITE_BUSY, disk), and expiries

ASSUME AccountsAssumption ==
    /\ Requests \cap OldTokens = {} /\ IsFiniteSet(OldTokens)
    /\ Address \notin Names
    /\ MaxFaults \in Nat

Tokens == Requests \cup OldTokens
OldIds == 1..Cardinality(OldTokens)
Public  == {"register", "login", "forgotLocal", "forgotMail", "reset"}
Administration == {"deleteUser", "setAdmin"}
Private == {"change", "logout", "revoke", "setEmail", "saveConnection"} \cup Administration
Answers == {"ok", "refused", "error"}

VARIABLES
  users,      \* users: id -> its row (AUTOINCREMENT: an id is never used again)
  nextId,
  sessions,   \* sessions: token -> the user, and whether it has not expired
  codes,      \* password_reset_codes: row number -> user, use, expiry
  owned,      \* users with rows in connections and query_history
  mailer,     \* Deps.Mailer is configured (fixed when the server starts)
  req,        \* per request: its handler (kind), its next statement (at), what
              \* the client sent, and what the handler has read so far (user, admin)
  faults,
  \* what the properties remember
  standing,   \* per request: the sessions of the account when it set its password
  spent,      \* per reset code: how many resets it opened
  overlap     \* requests of administrators overlapped

rows  == <<users, nextId, sessions, codes, owned>>
ghost == <<standing, spent, overlap>>
vars  == <<rows, mailer, req, faults, ghost>>

-----------------------------------------------------------------------------
(* The store: one operator per statement. *)

UserIds == DOMAIN users
Named(n) == {id \in UserIds : users[id].name = n}

\* The password given is the one of the account (VerifyPassword).
Verified(n, p) == {id \in Named(n) : users[id].password = p}

SessionsOf(id) == {t \in DOMAIN sessions : sessions[t].user = id}
Restricted(f, S) == [x \in S |-> f[x]]
With(f, x, v) == [y \in DOMAIN f \cup {x} |-> IF y = x THEN v ELSE f[y]]

\* The session exists and has not expired (GetSession).
LiveSession(t) == t \in DOMAIN sessions /\ sessions[t].live

\* The tokens are deleted; nothing brings a deleted row back.
EndSessions(T) == sessions' = Restricted(sessions, DOMAIN sessions \ T)

\* Mutant: only sessions that have not expired are deleted.
MutEndSessionsExcept(id, keep) == EndSessions({t \in SessionsOf(id) \ keep : sessions[t].live})
\* DeleteUserSessionsExcept: all sessions of the user but the one kept.
EndSessionsExcept(id, keep) == EndSessions(SessionsOf(id) \ keep)

\* Mutant: the foreign key is not enforced.
MutOpenSession(t, id) == sessions' = With(sessions, t, [user |-> id, live |-> TRUE])
\* INSERT INTO sessions: the foreign key refuses a user who is gone.
OpenSession(t, id) ==
  /\ id \in UserIds
  /\ sessions' = With(sessions, t, [user |-> id, live |-> TRUE])

\* RefreshSession: an UPDATE, which touches nothing when the row is gone.
RefreshSession(t) ==
  sessions' = IF t \in DOMAIN sessions THEN [sessions EXCEPT ![t].live = TRUE]
                                       ELSE sessions

\* UpdatePassword, and what it found: the sessions opened before.
SetPassword(r, id, p) ==
  /\ users' = IF id \in UserIds THEN [users EXCEPT ![id].password = p] ELSE users
  /\ standing' = [standing EXCEPT ![r] = SessionsOf(id)]

\* Mutant: the use of a code is not looked at.
MutUsable(id, c) == c \in DOMAIN codes /\ codes[c].user = id /\ ~codes[c].expired
\* The conditions of UseResetCode's UPDATE.
Usable(id, c) == c \in DOMAIN codes /\ codes[c].user = id /\ ~codes[c].used /\ ~codes[c].expired

\* DELETE FROM users: sessions, connections and history go with the row
\* (ON DELETE CASCADE); a reset code has no such clause and forbids it.
Deletable(id) == \A c \in DOMAIN codes : codes[c].user # id
DeleteRow(id) ==
  /\ users' = Restricted(users, UserIds \ {id})
  /\ EndSessions(SessionsOf(id))
  /\ owned' = owned \ {id}

Admins == {id \in UserIds : users[id].admin}

-----------------------------------------------------------------------------
(* Requests. *)

NoRequest == [kind |-> "none", at |-> "idle", name |-> "", password |-> "", new |-> "",
              token |-> "", target |-> 0, flag |-> FALSE, user |-> 0, admin |-> FALSE]

\* The session that asked for a change of password stays; a reset keeps none.
Kept(r) == IF req[r].kind = "change" THEN {req[r].token} ELSE {}

\* The handler goes on to its next statement, or answers and is done.
Goto(r, s) == req' = [req EXCEPT ![r].at = s]
GotoWith(r, s, id) == req' = [req EXCEPT ![r].at = s, ![r].user = id]
Reply(r, a) ==
  req' = [req EXCEPT ![r] = [NoRequest EXCEPT !.kind = req[r].kind, !.at = a,
                               !.target = IF req[r].kind = "deleteUser" THEN req[r].target ELSE 0,
                               !.token = IF req[r].kind = "change" THEN req[r].token ELSE ""]]
InFlight(K) == \E q \in Requests : req[q].kind \in K /\ req[q].at \notin Answers \cup {"idle"}

\* A request arrives; those without a session start with their own first
\* statement, the others with the middleware.
Arrive(r, k, a, first) ==
  /\ req[r].at = "idle"
  /\ req' = [req EXCEPT ![r] = [a EXCEPT !.kind = k, !.at = first]]
  /\ overlap' = (overlap \/ (k \in Administration /\ InFlight(Administration)))
  /\ UNCHANGED <<rows, mailer, faults, standing, spent>>

Register(r) == \E n \in Names, p \in Passwords :
  Arrive(r, "register", [NoRequest EXCEPT !.name = n, !.password = p], "count")
Login(r) == \E n \in Names, p \in Passwords :
  Arrive(r, "login", [NoRequest EXCEPT !.name = n, !.password = p], "verify")
\* Without a mailer (the desktop program) a reset needs no code.
ForgotLocal(r) == \E n \in Names, p \in Passwords :
  ~mailer /\ Arrive(r, "forgotLocal", [NoRequest EXCEPT !.name = n, !.new = p], "reset")
ForgotMail(r) == \E n \in Names \cup {Address} :
  mailer /\ Arrive(r, "forgotMail", [NoRequest EXCEPT !.name = n], "lookup")
Reset(r) == \E n \in Names \cup {Address}, p \in Passwords, c \in DOMAIN codes :
  mailer /\ Arrive(r, "reset", [NoRequest EXCEPT !.name = n, !.new = p, !.target = c], "lookup")
WithSession(r) == \E t \in DOMAIN sessions, k \in Private :
  \E p \in (IF k = "change" THEN Passwords ELSE {""}),
     q \in (IF k = "change" THEN Passwords ELSE {""}),
     i \in (IF k \in Administration THEN UserIds \cup {0} ELSE {0}),
     f \in (IF k \in {"setAdmin", "setEmail"} THEN BOOLEAN ELSE {FALSE}) :
     Arrive(r, k, [NoRequest EXCEPT !.password = p, !.new = q, !.token = t, !.target = i, !.flag = f],
            "session")

\* auth.Middleware and RequireAdmin. What is read of the user here is what
\* the whole request goes by.
FirstStatement(k) ==
  CASE k = "change" -> "verifyOld"  [] k = "logout" -> "endSession" [] k = "revoke" -> "list"
    [] k = "setEmail" -> "email"    [] k = "saveConnection" -> "save"
    [] k = "deleteUser" -> "deleteSessions" [] k = "setAdmin" -> "countAdmins"
Authenticate(r) ==
  /\ req[r].at = "session"
  /\ IF LiveSession(req[r].token) THEN GotoWith(r, "user", sessions[req[r].token].user)
                                  ELSE Reply(r, "refused")
  /\ UNCHANGED <<rows, mailer, faults, ghost>>
LoadUser(r) ==
  /\ req[r].at = "user"
  /\ IF req[r].user \in UserIds
     THEN req' = [req EXCEPT ![r].at = "refresh", ![r].admin = users[req[r].user].admin,
                             ![r].name = users[req[r].user].name]
     ELSE Reply(r, "refused")
  /\ UNCHANGED <<rows, mailer, faults, ghost>>
RequireAdmin(r) == req[r].kind \in Administration => req[r].admin
Refresh(r) ==
  /\ req[r].at = "refresh"
  /\ RefreshSession(req[r].token)
  /\ IF RequireAdmin(r) THEN Goto(r, FirstStatement(req[r].kind)) ELSE Reply(r, "refused")
  /\ UNCHANGED <<users, nextId, codes, owned, mailer, faults, ghost>>

-----------------------------------------------------------------------------
(* handleRegister, handleLogin. *)

NoUsers == UserIds = {}
\* CreateUser counts first; the error of the count is ignored and leaves 0.
CountUsers(r) ==
  /\ req[r].at = "count"
  /\ \/ /\ req' = [req EXCEPT ![r].at = "insert", ![r].admin = NoUsers]
        /\ UNCHANGED faults
     \/ /\ faults < MaxFaults
        /\ req' = [req EXCEPT ![r].at = "insert", ![r].admin = TRUE]
        /\ faults' = faults + 1
  /\ UNCHANGED <<rows, mailer, ghost>>

\* ... and inserts then; the name is unique.
InsertUser(r) ==
  /\ req[r].at = "insert"
  /\ IF Named(req[r].name) # {}
     THEN Reply(r, "refused") /\ UNCHANGED <<users, nextId>>
     ELSE /\ users' = With(users, nextId, [name |-> req[r].name, password |-> req[r].password,
                                           admin |-> req[r].admin, email |-> FALSE])
          /\ nextId' = nextId + 1
          /\ GotoWith(r, "open", nextId)
  /\ UNCHANGED <<sessions, codes, owned, mailer, faults, standing, spent, overlap>>

VerifyPassword(r) ==
  /\ req[r].at = "verify"
  /\ LET found == Verified(req[r].name, req[r].password) IN
     \/ found = {} /\ Reply(r, "refused")
     \/ \E id \in found : GotoWith(r, "open", id)
  /\ UNCHANGED <<rows, mailer, faults, ghost>>

CreateSession(r) ==
  /\ req[r].at = "open"
  /\ \/ OpenSession(r, req[r].user) /\ Reply(r, "ok")
     \/ req[r].user \notin UserIds /\ Reply(r, "error") /\ UNCHANGED sessions
  /\ UNCHANGED <<users, nextId, codes, owned, mailer, faults, ghost>>

-----------------------------------------------------------------------------
(* handlePasswordChange, handleForgotPassword, handleResetPassword. *)

\* The old password is verified by the name of the session's user.
VerifyOld(r) ==
  /\ req[r].at = "verifyOld"
  /\ IF Verified(req[r].name, req[r].password) # {} THEN Goto(r, "update")
                                                     ELSE Reply(r, "refused")
  /\ UNCHANGED <<rows, mailer, faults, ghost>>

UpdatePassword(r) ==
  /\ req[r].at = "update"
  /\ SetPassword(r, req[r].user, req[r].new)
  /\ Goto(r, "revokeOthers")
  /\ UNCHANGED <<nextId, sessions, codes, owned, mailer, faults,
                 spent, overlap>>

RevokeOthers(r) ==
  /\ req[r].at = "revokeOthers"
  /\ EndSessionsExcept(req[r].user, Kept(r))
  /\ Reply(r, "ok")
  /\ UNCHANGED <<users, nextId, codes, owned, mailer, faults,
                 standing, spent, overlap>>

\* ResetPassword: an update by name, and a second statement that finds the id.
ResetByName(r) ==
  /\ req[r].at = "reset"
  /\ \/ Named(req[r].name) = {} /\ Reply(r, "refused") /\ UNCHANGED <<users, standing>>
     \/ \E id \in Named(req[r].name) : SetPassword(r, id, req[r].new) /\ Goto(r, "find")
  /\ UNCHANGED <<nextId, sessions, codes, owned, mailer, faults,
                 spent, overlap>>
FindReset(r) ==
  /\ req[r].at = "find"
  /\ \/ Named(req[r].name) = {} /\ Reply(r, "error")
     \/ \E id \in Named(req[r].name) :
          GotoWith(r, "revokeOthers", id)
  /\ UNCHANGED <<rows, mailer, faults, ghost>>

\* LookupForReset: the first account with that name or address; one without
\* an address counts as none. The answer to a request for a code is the same
\* either way.
Matching(n) == Named(n) \cup {id \in UserIds : n = Address /\ users[id].email}
LookupForReset(r) ==
  /\ req[r].at = "lookup"
  /\ LET first == {id \in Matching(req[r].name) : \A j \in Matching(req[r].name) : id <= j}
         found == {id \in first : users[id].email} IN
     \/ found = {} /\ Reply(r, IF req[r].kind = "reset" THEN "refused" ELSE "ok")
     \/ \E id \in found : GotoWith(r, IF req[r].kind = "reset" THEN "useCode" ELSE "storeCode", id)
  /\ UNCHANGED <<rows, mailer, faults, ghost>>

\* CreateResetCode; the code is mailed when it could be stored, and a
\* failure of either does not show in the answer.
NextCode == Cardinality(DOMAIN codes) + 1
StoreCode(r) ==
  /\ req[r].at = "storeCode"
  /\ IF req[r].user \in UserIds
     THEN /\ codes' = With(codes, NextCode, [user |-> req[r].user, used |-> FALSE, expired |-> FALSE])
          /\ spent' = With(spent, NextCode, 0)
     ELSE UNCHANGED <<codes, spent>>
  /\ Reply(r, "ok")
  /\ UNCHANGED <<users, nextId, sessions, owned, mailer, faults,
                 standing, overlap>>

\* UseResetCode: one UPDATE finds the code and marks it.
UseResetCode(r) ==
  /\ req[r].at = "useCode"
  /\ LET c == req[r].target IN
     IF Usable(req[r].user, c)
     THEN /\ codes' = [codes EXCEPT ![c].used = TRUE]
          /\ spent' = [spent EXCEPT ![c] = @ + 1]
          /\ Goto(r, "update")
     ELSE Reply(r, "refused") /\ UNCHANGED <<codes, spent>>
  /\ UNCHANGED <<users, nextId, sessions, owned, mailer, faults,
                 standing, overlap>>

-----------------------------------------------------------------------------
(* The rest of the signed-in user's requests. *)

Logout(r) ==
  /\ req[r].at = "endSession"
  /\ EndSessions({req[r].token})
  /\ Reply(r, "ok")
  /\ UNCHANGED <<users, nextId, codes, owned, mailer, faults,
                 standing, spent, overlap>>

\* handleRevokeSession lists the user's sessions, picks the one with the
\* prefix, and deletes it.
ListSessions(r) ==
  /\ req[r].at = "list"
  /\ \/ Reply(r, "refused")
     \/ \E t \in SessionsOf(req[r].user) :
          req' = [req EXCEPT ![r].at = "endSession", ![r].token = t]
  /\ UNCHANGED <<rows, mailer, faults, ghost>>

SetEmail(r) ==
  /\ req[r].at = "email"
  /\ users' = IF req[r].user \in UserIds THEN [users EXCEPT ![req[r].user].email = req[r].flag]
                                         ELSE users
  /\ Reply(r, "ok")
  /\ UNCHANGED <<nextId, sessions, codes, owned, mailer, faults, ghost>>

\* A row of connections or query_history; its foreign key refuses a user who is gone.
SaveConnection(r) ==
  /\ req[r].at = "save"
  /\ \/ req[r].user \in UserIds /\ owned' = owned \cup {req[r].user} /\ Reply(r, "ok")
     \/ req[r].user \notin UserIds /\ Reply(r, "error") /\ UNCHANGED owned
  /\ UNCHANGED <<users, nextId, sessions, codes, mailer, faults, ghost>>

-----------------------------------------------------------------------------
(* Administration. *)

\* handleAdminDeleteUser refuses oneself; DeleteUser is four statements.
DeleteSessions(r) ==
  /\ req[r].at = "deleteSessions"
  /\ IF req[r].target = req[r].user
     THEN Reply(r, "refused") /\ UNCHANGED <<sessions>>
     ELSE EndSessionsExcept(req[r].target, {}) /\ Goto(r, "deleteOwned")
  /\ UNCHANGED <<users, nextId, codes, owned, mailer, faults,
                 standing, spent, overlap>>
DeleteOwned(r) ==
  /\ req[r].at = "deleteOwned"
  /\ owned' = owned \ {req[r].target}
  /\ Goto(r, "deleteRow")
  /\ UNCHANGED <<users, nextId, sessions, codes, mailer, faults, ghost>>
DeleteUser(r) ==
  /\ req[r].at = "deleteRow"
  /\ \/ /\ req[r].target \notin UserIds
        /\ Reply(r, "refused") /\ UNCHANGED <<users, sessions, owned>>
     \/ /\ req[r].target \in UserIds /\ Deletable(req[r].target)
        /\ DeleteRow(req[r].target) /\ Reply(r, "ok")
     \/ /\ req[r].target \in UserIds /\ ~Deletable(req[r].target)
        /\ Reply(r, "error") /\ UNCHANGED <<users, sessions, owned>>
  /\ UNCHANGED <<nextId, codes, mailer, faults, standing, spent, overlap>>

\* Mutant: off by one.
MutLastAdmin == Cardinality(Admins) < 1
LastAdmin == Cardinality(Admins) <= 1
\* handleAdminSetAdmin counts the administrators when one resigns.
Resigns(r) == req[r].target = req[r].user /\ ~req[r].flag
CountAdmins(r) ==
  /\ req[r].at = "countAdmins"
  /\ IF Resigns(r) /\ LastAdmin THEN Reply(r, "refused") ELSE Goto(r, "setAdmin")
  /\ UNCHANGED <<rows, mailer, faults, ghost>>
SetAdmin(r) ==
  /\ req[r].at = "setAdmin"
  /\ IF req[r].target \in UserIds
     THEN users' = [users EXCEPT ![req[r].target].admin = req[r].flag] /\ Reply(r, "ok")
     ELSE Reply(r, "refused") /\ UNCHANGED users
  /\ UNCHANGED <<nextId, sessions, codes, owned, mailer, faults, ghost>>

-----------------------------------------------------------------------------
(* Time and failures. *)

Expire(t) ==
  /\ LiveSession(t) /\ faults < MaxFaults /\ faults' = faults + 1
  /\ sessions' = [sessions EXCEPT ![t].live = FALSE]
  /\ UNCHANGED <<users, nextId, codes, owned, mailer, req, ghost>>
ExpireCode(c) ==
  /\ ~codes[c].expired /\ faults < MaxFaults /\ faults' = faults + 1
  /\ codes' = [codes EXCEPT ![c].expired = TRUE]
  /\ UNCHANGED <<users, nextId, sessions, owned, mailer, req, ghost>>

\* A statement fails. Most handlers answer with an error; the refresh of the
\* session and the storing of a code go on as if nothing had happened; a
\* count of administrators that fails counts as none.
Fail(r) ==
  /\ faults < MaxFaults
  /\ req[r].at \notin Answers \cup {"idle", "count"}
  /\ req[r].at = "countAdmins" => Resigns(r)
  /\ CASE req[r].at = "refresh" /\ RequireAdmin(r) -> Goto(r, FirstStatement(req[r].kind))
       [] req[r].at = "refresh" /\ ~RequireAdmin(r) -> Reply(r, "refused")
       [] req[r].at = "storeCode" -> Reply(r, "ok")
       [] req[r].at = "countAdmins" -> Reply(r, "refused")
       [] OTHER -> Reply(r, "error")
  /\ faults' = faults + 1
  /\ UNCHANGED <<rows, mailer, ghost>>

-----------------------------------------------------------------------------
Injections(S, T) == {f \in [S -> T] : \A i, j \in S : f[i] = f[j] => i = j}

\* A new server without accounts, or one with an account per old session,
\* some of them administrators, some with an address and a code under way.
Init ==
  /\ mailer \in BOOLEAN
  /\ \/ /\ users = <<>> /\ sessions = <<>> /\ owned = {} /\ nextId = 1 /\ codes = <<>>
     \/ \E home \in Injections(OldTokens, OldIds), name \in Injections(OldIds, Names),
           p \in Passwords, A \in (SUBSET OldIds) \ {{}} :
          /\ users = [i \in OldIds |-> [name |-> name[i], password |-> p,
                                        admin |-> i \in A, email |-> i \notin A]]
          /\ sessions = [t \in OldTokens |-> [user |-> home[t], live |-> TRUE]]
          /\ owned = OldIds
          /\ nextId = Cardinality(OldTokens) + 1
          /\ codes = [c \in {i \in {1} : mailer /\ OldIds \ A # {}} |->
                        [user |-> CHOOSE i \in OldIds : i \notin A,
                         used |-> FALSE, expired |-> FALSE]]
  /\ req = [r \in Requests |-> NoRequest]
  /\ faults = 0
  /\ standing = [r \in Requests |-> {}]
  /\ spent = [c \in DOMAIN codes |-> 0]
  /\ overlap = FALSE

Start(r) == Register(r) \/ Login(r) \/ ForgotLocal(r) \/ ForgotMail(r) \/ Reset(r) \/ WithSession(r)
Handle(r) ==
  \/ Authenticate(r) \/ LoadUser(r) \/ Refresh(r)
  \/ CountUsers(r) \/ InsertUser(r) \/ VerifyPassword(r) \/ CreateSession(r)
  \/ VerifyOld(r) \/ UpdatePassword(r) \/ RevokeOthers(r) \/ ResetByName(r) \/ FindReset(r)
  \/ LookupForReset(r) \/ StoreCode(r) \/ UseResetCode(r)
  \/ Logout(r) \/ ListSessions(r) \/ SetEmail(r) \/ SaveConnection(r)
  \/ DeleteSessions(r) \/ DeleteOwned(r) \/ DeleteUser(r) \/ CountAdmins(r) \/ SetAdmin(r)
  \/ Fail(r)
Next ==
  \/ \E r \in Requests : Start(r) \/ Handle(r)
  \/ \E t \in DOMAIN sessions : Expire(t)
  \/ \E c \in DOMAIN codes : ExpireCode(c)

Spec == Init /\ [][Next]_vars

-----------------------------------------------------------------------------
(* Properties. *)

\* A reset code opens at most one reset (store/resetcode.go: "Single-use is
\* enforced atomically"), however many requests bring it at once and however
\* they fail afterwards.
CodeOpensOnce == \A c \in DOMAIN codes : spent[c] <= 1

\* When a change or a reset of a password has been answered with success,
\* every session opened before the password was set is gone, except the one
\* that asked for the change: whatever logins, logouts, refreshes and other
\* changes ran in between.
OldSessionsEnd == \A r \in Requests :
  req[r].at = "ok" /\ req[r].kind \in {"change", "forgotLocal", "reset"} =>
    (standing[r] \ Kept(r)) \cap DOMAIN sessions = {}

\* When a deletion has been answered with success, nothing of the user is
\* left, and nothing appears later: not the session of a login, nor the
\* connection of a request, that was under way.
DeletedIsGone == \A r \in Requests :
  req[r].at = "ok" /\ req[r].kind = "deleteUser" =>
    /\ req[r].target \notin UserIds \cup owned
    /\ SessionsOf(req[r].target) = {}

\* Someone administers the server as long as there are accounts, unless two
\* requests of administrators overlapped (admin.go counts, and then updates).
AdminRemains == UserIds # {} /\ ~overlap => Admins # {}

\* Without faults of the server's own database, an administrator's deletion
\* of another user is carried out or refused.
DeletionSucceeds == \A r \in Requests :
  req[r].kind = "deleteUser" /\ faults = 0 => req[r].at # "error"
=============================================================================
