--------------------------- MODULE AccountsProofs ---------------------------
(***************************************************************************)
(* Theorems about Accounts, for any number of requests, names, passwords,  *)
(* old sessions and faults: reset codes open one reset, old sessions end   *)
(* with the old password, a deleted user leaves nothing, and somebody      *)
(* administers the server unless two administrators overlapped.  And, at   *)
(* the end, about the tokens of one account's Subscriptions.               *)
(***************************************************************************)
EXTENDS Accounts, Subscriptions, FiniteSetTheorems, SequenceTheorems, TLAPS

(***************************************************************************)
(* The inductive invariant.                                                *)
(***************************************************************************)
Setting == {"change", "forgotLocal", "reset"}
Kinds   == {"none"} \cup Public \cup Private
Places  == Answers \cup {"idle", "count", "insert", "open", "verify", "reset", "find",
             "revokeOthers", "lookup", "storeCode", "useCode", "update", "session", "user",
             "refresh", "verifyOld", "endSession", "list", "email", "save",
             "deleteSessions", "deleteOwned", "deleteRow", "countAdmins", "setAdmin"}
Request == [kind : Kinds, at : Places, name : Names \cup {Address, ""},
            password : Passwords \cup {""}, new : Passwords \cup {""},
            token : Tokens \cup {""}, target : Nat, flag : BOOLEAN,
            user : Nat, admin : BOOLEAN]
UserRow == [name : Names \cup {Address, ""}, password : Passwords \cup {""},
            admin : BOOLEAN, email : BOOLEAN]
Domains ==
  /\ UserIds \subseteq Nat
  /\ DOMAIN sessions \subseteq Tokens
  /\ DOMAIN codes \subseteq Nat /\ IsFiniteSet(DOMAIN codes)
StoreTypes ==
  /\ Domains
  /\ users \in [UserIds -> UserRow] /\ nextId \in Nat /\ 0 < nextId
  /\ sessions \in [DOMAIN sessions -> [user : Nat, live : BOOLEAN]]
  /\ codes \in [DOMAIN codes -> [user : Nat, used : BOOLEAN, expired : BOOLEAN]]
Types ==
  /\ StoreTypes
  /\ req \in [Requests -> Request]
  /\ standing \in [Requests -> SUBSET Tokens]
  /\ overlap \in BOOLEAN

\* A request stands only at statements of its own handler.
AtHome(r) ==
  /\ req[r].at \in {"reset", "find"} => req[r].kind = "forgotLocal"
  /\ req[r].at \in {"update", "revokeOthers"} => req[r].kind \in Setting
  /\ req[r].at = "useCode" => req[r].kind = "reset"
  /\ req[r].at = "lookup" => req[r].kind \in {"reset", "forgotMail"}
  /\ req[r].at = "storeCode" => req[r].kind = "forgotMail"
  /\ req[r].at = "verifyOld" => req[r].kind = "change"
  /\ req[r].at \in {"count", "insert"} => req[r].kind = "register"
  /\ req[r].at = "open" => req[r].kind \in {"register", "login"}
  /\ req[r].at = "verify" => req[r].kind = "login"
  /\ req[r].at \in {"session", "user", "refresh"} => req[r].kind \in Private
  /\ req[r].at \in {"endSession", "list"} => req[r].kind \in {"logout", "revoke"}
  /\ req[r].at = "email" => req[r].kind = "setEmail"
  /\ req[r].at = "save" => req[r].kind = "saveConnection"
  /\ req[r].at \in {"deleteSessions", "deleteOwned", "deleteRow"} => req[r].kind = "deleteUser"
  /\ req[r].at \in {"countAdmins", "setAdmin"} => req[r].kind = "setAdmin"

\* Ids are not used again, names are unique, and the foreign keys hold.
Keys ==
  /\ \A id \in UserIds : id < nextId
  /\ \A i, j \in UserIds : users[i].name = users[j].name => i = j
  /\ \A t \in DOMAIN sessions : sessions[t].user \in UserIds
  /\ owned \subseteq UserIds

\* A code that opened a reset is used.
CodesSpent ==
  /\ DOMAIN spent = DOMAIN codes
  /\ spent \in [DOMAIN codes -> {0, 1}]
  /\ \A c \in DOMAIN codes : spent[c] = 1 => codes[c].used

\* A session is there, or was, only of a request that has been answered.
Opened(t) == t \in OldTokens \/ (t \in Requests /\ req[t].at = "ok")
TokensOpened ==
  /\ \A t \in DOMAIN sessions : Opened(t)
  /\ \A r \in Requests : \A t \in standing[r] : Opened(t)

\* What is left of the sessions opened before the password was set.
Left(r) == standing[r] \cap DOMAIN sessions
Ending(r) ==
  /\ req[r].at = "find" => \A t \in Left(r) : users[sessions[t].user].name = req[r].name
  /\ req[r].at = "revokeOthers" => \A t \in Left(r) : sessions[t].user = req[r].user
  /\ req[r].at = "ok" /\ req[r].kind \in Setting => Left(r) \subseteq Kept(r)

\* A deletion is of a user who was there, and has been carried out when it says so.
Deleting(r) == req[r].kind = "deleteUser" =>
  /\ req[r].target < nextId
  /\ req[r].at = "ok" => req[r].target \notin UserIds

\* As long as no two requests of administrators overlap: the one under way is
\* an administrator's, and there is another one when it takes the right away.
Under(r) == req[r].kind \in Administration /\ req[r].at \notin Answers \cup {"idle"}
Statements == {"deleteSessions", "deleteOwned", "deleteRow", "countAdmins", "setAdmin"}
Administers(r) ==
  /\ Under(r) /\ req[r].at = "refresh" /\ req[r].admin => req[r].user \in Admins
  /\ Under(r) /\ req[r].at \in Statements => req[r].user \in Admins
  /\ req[r].at \in {"deleteOwned", "deleteRow"} => req[r].target # req[r].user
  /\ req[r].at = "setAdmin" /\ Resigns(r) => Admins # {req[r].user}
  /\ req[r].at = "insert" /\ ~req[r].admin => UserIds # {}
OneAtATime ==
  ~overlap =>
    /\ UserIds # {} => Admins # {}
    /\ \A q, r \in Requests : Under(q) /\ Under(r) => q = r
    /\ \A r \in Requests : Administers(r)

AInv == /\ Types /\ Keys /\ CodesSpent /\ TokensOpened /\ OneAtATime
        /\ \A r \in Requests : AtHome(r) /\ Ending(r) /\ Deleting(r)

(***************************************************************************)
(* How a request moves.                                                    *)
(***************************************************************************)
\* Only r moves.
Others(r) == \A q \in Requests \ {r} : req'[q] = req[q]
Typed == req \in [Requests -> Request]
Keeps(r) ==
  /\ req'[r].kind = req[r].kind /\ req'[r].name = req[r].name /\ req'[r].token = req[r].token
  /\ req'[r].target = req[r].target /\ req'[r].flag = req[r].flag /\ req'[r].admin = req[r].admin

\* What a handler keeps of its request while it goes on, and when it answers.
LEMMA Moved ==
  ASSUME Typed, NEW r \in Requests, NEW new \in Request, req' = [req EXCEPT ![r] = new]
  PROVE  Typed' /\ Others(r) /\ req'[r] = new
BY DEF Typed, Others

LEMMA GotoReq ==
  ASSUME Typed, NEW r \in Requests, NEW s \in Places, Goto(r, s)
  PROVE  /\ Typed' /\ Others(r)
         /\ req'[r].at = s /\ req'[r].user = req[r].user /\ Keeps(r)
<1> DEFINE new == [req[r] EXCEPT !.at = s]
<1>1. req[r] \in Request
  BY DEF Typed
<1>2. new \in Request
  BY <1>1 DEF Request
<1>3. req' = [req EXCEPT ![r] = new]
  BY DEF Goto, Typed
<1> HIDE DEF new
<1>4. Typed' /\ Others(r) /\ req'[r] = new
  BY <1>2, <1>3, Moved
<1>5. new.at = s /\ new.user = req[r].user
  BY <1>1 DEF new, Request
<1>6. /\ new.kind = req[r].kind /\ new.name = req[r].name /\ new.token = req[r].token
      /\ new.target = req[r].target /\ new.flag = req[r].flag /\ new.admin = req[r].admin
  BY <1>1 DEF new, Request
<1> QED
  BY <1>4, <1>5, <1>6 DEF Keeps

LEMMA GotoWithReq ==
  ASSUME Typed, NEW r \in Requests, NEW s \in Places, NEW id \in Nat, GotoWith(r, s, id)
  PROVE  /\ Typed' /\ Others(r)
         /\ req'[r].at = s /\ req'[r].user = id /\ Keeps(r)
<1> DEFINE new == [req[r] EXCEPT !.at = s, !.user = id]
<1>1. req[r] \in Request
  BY DEF Typed
<1>2. new \in Request
  BY <1>1 DEF Request
<1>3. req' = [req EXCEPT ![r] = new]
  BY DEF GotoWith, Typed
<1> HIDE DEF new
<1>4. Typed' /\ Others(r) /\ req'[r] = new
  BY <1>2, <1>3, Moved
<1>5. new.at = s /\ new.user = id
  BY <1>1 DEF new, Request
<1>6. /\ new.kind = req[r].kind /\ new.name = req[r].name /\ new.token = req[r].token
      /\ new.target = req[r].target /\ new.flag = req[r].flag /\ new.admin = req[r].admin
  BY <1>1 DEF new, Request
<1> QED
  BY <1>4, <1>5, <1>6 DEF Keeps

LEMMA ReplyReq ==
  ASSUME Typed, NEW r \in Requests, NEW a \in Answers, Reply(r, a)
  PROVE  /\ Typed' /\ Others(r)
         /\ req'[r].kind = req[r].kind /\ req'[r].at = a
         /\ req[r].kind = "deleteUser" => req'[r].target = req[r].target
         /\ Kept(r)' = Kept(r)
<1>1. req[r] \in Request
  BY DEF Typed
<1>2. PICK k \in Kinds, i \in Nat, t \in Tokens \cup {""} :
        /\ k = req[r].kind
        /\ i = IF req[r].kind = "deleteUser" THEN req[r].target ELSE 0
        /\ t = IF req[r].kind = "change" THEN req[r].token ELSE ""
  BY <1>1 DEF Request
<1> DEFINE new == [NoRequest EXCEPT !.kind = k, !.at = a, !.target = i, !.token = t]
<1>3. a \in Places
  BY DEF Places
<1>4. new \in Request
  BY <1>3 DEF Request, NoRequest
<1>5. new.kind = k /\ new.at = a /\ new.target = i /\ new.token = t
  BY DEF NoRequest
<1>6. req' = [req EXCEPT ![r] = new]
  BY <1>2, Zenon DEF Reply
<1> HIDE DEF new
<1>7. Typed' /\ Others(r) /\ req'[r] = new
  BY <1>4, <1>6, Moved
<1> QED
  BY <1>2, <1>5, <1>7 DEF Kept

LEMMA ArriveReq ==
  ASSUME Typed, NEW r \in Requests, NEW k \in Kinds, NEW a \in Request, NEW s \in Places,
         Arrive(r, k, a, s)
  PROVE  /\ Typed' /\ Others(r) /\ req[r].at = "idle"
         /\ req'[r].kind = k /\ req'[r].at = s /\ req'[r].admin = a.admin
         /\ req'[r].target = a.target
<1> DEFINE new == [a EXCEPT !.kind = k, !.at = s]
<1>1. new \in Request
  BY DEF Request
<1>2. req' = [req EXCEPT ![r] = new]
  BY DEF Arrive
<1> HIDE DEF new
<1>3. Typed' /\ Others(r) /\ req'[r] = new
  BY <1>1, <1>2, Moved
<1>4. new.kind = k /\ new.at = s /\ new.admin = a.admin /\ new.target = a.target
  BY DEF new, Request
<1> QED
  BY <1>3, <1>4 DEF Arrive

(***************************************************************************)
(* Every handler stands at its own statements, and well typed.             *)
(***************************************************************************)
\* A request has arrived and changed nothing else.
Arrived(r) ==
  /\ Typed' /\ Others(r) /\ AtHome(r)' /\ req[r].at = "idle"
  /\ req'[r].at \in {"count", "verify", "reset", "lookup", "session"}
  /\ UNCHANGED <<users, nextId, sessions, codes, owned, standing, spent>>
  /\ req'[r].kind = "deleteUser" => req'[r].target \in UserIds \cup {0}
  /\ overlap' = (overlap \/ (req'[r].kind \in Administration /\ InFlight(Administration)))

\* Where the handler of a request of kind k begins.
Begins(k, s) ==
  \/ s = "count" /\ k = "register"
  \/ s = "verify" /\ k = "login"
  \/ s = "reset" /\ k = "forgotLocal"
  \/ s = "lookup" /\ k \in {"forgotMail", "reset"}
  \/ s = "session" /\ k \in Private

LEMMA ArrivesWell ==
  ASSUME Typed, NEW r \in Requests, NEW a \in Request, NEW k \in Kinds, NEW s, Arrive(r, k, a, s),
         Begins(k, s), k = "deleteUser" => a.target \in UserIds \cup {0}
  PROVE  Arrived(r)
<1>1. s \in Places /\ s \in {"count", "verify", "reset", "lookup", "session"}
  BY DEF Places, Begins
<1>2. /\ Typed' /\ Others(r) /\ req[r].at = "idle"
      /\ req'[r].kind = k /\ req'[r].at = s /\ req'[r].target = a.target
  BY <1>1, ArriveReq
<1>3. AtHome(r)'
  <2>1. CASE s = "count" /\ k = "register"
    BY <1>2, <2>1 DEF AtHome
  <2>2. CASE s = "verify" /\ k = "login"
    BY <1>2, <2>2 DEF AtHome
  <2>3. CASE s = "reset" /\ k = "forgotLocal"
    BY <1>2, <2>3 DEF AtHome
  <2>4. CASE s = "lookup" /\ k \in {"forgotMail", "reset"}
    BY <1>2, <2>4 DEF AtHome
  <2>5. CASE s = "session" /\ k \in Private
    BY <1>2, <2>5 DEF AtHome
  <2> QED
    BY <2>1, <2>2, <2>3, <2>4, <2>5 DEF Begins
<1>4. /\ UNCHANGED <<users, nextId, sessions, codes, owned, standing, spent>>
      /\ overlap' = (overlap \/ (k \in Administration /\ InFlight(Administration)))
  BY DEF Arrive, rows
<1> QED
  BY <1>1, <1>2, <1>3, <1>4 DEF Arrived

LEMMA Starts ==
  ASSUME Typed, Domains, NEW r \in Requests, Start(r)
  PROVE  Arrived(r)
<1>0. /\ Public \cup Private \subseteq Kinds
      /\ NoRequest \in Request
  BY DEF Kinds, Public, Private, NoRequest, Request, Places
<1>1. CASE Register(r)
  <2>1. PICK n \in Names, p \in Passwords :
          Arrive(r, "register", [NoRequest EXCEPT !.name = n, !.password = p], "count")
    BY <1>1 DEF Register
  <2>2. [NoRequest EXCEPT !.name = n, !.password = p] \in Request
    BY <1>0 DEF Request
  <2>3. "register" \in Kinds /\ Begins("register", "count")
    BY DEF Kinds, Public, Begins
  <2> QED
    BY <2>1, <2>2, <2>3, ArrivesWell
<1>2. CASE Login(r)
  <2>1. PICK n \in Names, p \in Passwords :
          Arrive(r, "login", [NoRequest EXCEPT !.name = n, !.password = p], "verify")
    BY <1>2 DEF Login
  <2>2. [NoRequest EXCEPT !.name = n, !.password = p] \in Request
    BY <1>0 DEF Request
  <2>3. "login" \in Kinds /\ Begins("login", "verify")
    BY DEF Kinds, Public, Begins
  <2> QED
    BY <2>1, <2>2, <2>3, ArrivesWell
<1>3. CASE ForgotLocal(r)
  <2>1. PICK n \in Names, p \in Passwords :
          Arrive(r, "forgotLocal", [NoRequest EXCEPT !.name = n, !.new = p], "reset")
    BY <1>3 DEF ForgotLocal
  <2>2. [NoRequest EXCEPT !.name = n, !.new = p] \in Request
    BY <1>0 DEF Request
  <2>3. "forgotLocal" \in Kinds /\ Begins("forgotLocal", "reset")
    BY DEF Kinds, Public, Begins
  <2> QED
    BY <2>1, <2>2, <2>3, ArrivesWell
<1>4. CASE ForgotMail(r)
  <2>1. PICK n \in Names \cup {Address} :
          Arrive(r, "forgotMail", [NoRequest EXCEPT !.name = n], "lookup")
    BY <1>4 DEF ForgotMail
  <2>2. [NoRequest EXCEPT !.name = n] \in Request
    BY <1>0 DEF Request
  <2>3. "forgotMail" \in Kinds /\ Begins("forgotMail", "lookup")
    BY DEF Kinds, Public, Begins
  <2> QED
    BY <2>1, <2>2, <2>3, ArrivesWell
<1>5. CASE Reset(r)
  <2>1. PICK n \in Names \cup {Address}, p \in Passwords, c \in DOMAIN codes :
          Arrive(r, "reset", [NoRequest EXCEPT !.name = n, !.new = p, !.target = c], "lookup")
    BY <1>5 DEF Reset
  <2> DEFINE a == [NoRequest EXCEPT !.name = n, !.new = p, !.target = c]
  <2>2. a \in Request
    BY <1>0 DEF Request, Domains
  <2>3. "reset" \in Kinds /\ Begins("reset", "lookup")
    BY DEF Kinds, Public, Begins
  <2>4. Arrive(r, "reset", a, "lookup")
    BY <2>1
  <2> HIDE DEF a
  <2> QED
    BY <2>2, <2>3, <2>4, ArrivesWell
<1>D. DOMAIN sessions \subseteq Tokens /\ UserIds \cup {0} \subseteq Nat
  BY DEF Domains
<1>6. CASE WithSession(r)
  <2>0. PICK t \in DOMAIN sessions, k \in Private :
          \E p \in (IF k = "change" THEN Passwords ELSE {""}),
             q \in (IF k = "change" THEN Passwords ELSE {""}),
             i \in (IF k \in Administration THEN UserIds \cup {0} ELSE {0}),
             f \in (IF k \in {"setAdmin", "setEmail"} THEN BOOLEAN ELSE {FALSE}) :
          Arrive(r, k, [NoRequest EXCEPT !.password = p, !.new = q, !.token = t, !.target = i, !.flag = f],
                 "session")
    BY <1>6, Zenon DEF WithSession
  <2>1. PICK p \in (IF k = "change" THEN Passwords ELSE {""}),
             q \in (IF k = "change" THEN Passwords ELSE {""}),
             i \in (IF k \in Administration THEN UserIds \cup {0} ELSE {0}),
             f \in (IF k \in {"setAdmin", "setEmail"} THEN BOOLEAN ELSE {FALSE}) :
          Arrive(r, k, [NoRequest EXCEPT !.password = p, !.new = q, !.token = t, !.target = i, !.flag = f],
                 "session")
    BY <2>0, Zenon
  <2> DEFINE a == [NoRequest EXCEPT !.password = p, !.new = q, !.token = t, !.target = i, !.flag = f]
  <2>2. /\ t \in Tokens /\ i \in Nat /\ i \in UserIds \cup {0} /\ f \in BOOLEAN
        /\ p \in Passwords \cup {""} /\ q \in Passwords \cup {""}
    BY <1>D
  <2>3. k \in Kinds /\ Begins(k, "session")
    BY DEF Kinds, Begins
  <2>4. a \in Request /\ a.target = i
    BY <1>0, <2>2 DEF Request
  <2>5. Arrive(r, k, a, "session")
    BY <2>1
  <2> HIDE DEF a
  <2> QED
    BY <2>2, <2>3, <2>4, <2>5, ArrivesWell
<1> QED
  BY <1>1, <1>2, <1>3, <1>4, <1>5, <1>6 DEF Start

(***************************************************************************)
(* The order of a handler's statements.                                    *)
(***************************************************************************)
Follows(k, p, s) ==
  \/ p = "session" /\ s = "user"
  \/ p = "user" /\ s = "refresh"
  \/ p = "refresh" /\ k \in Private /\ s = FirstStatement(k)
  \/ p = "count" /\ s = "insert"
  \/ p \in {"insert", "verify"} /\ s = "open"
  \/ p \in {"verifyOld", "useCode"} /\ s = "update"
  \/ p \in {"update", "find"} /\ s = "revokeOthers"
  \/ p = "reset" /\ s = "find"
  \/ p = "lookup" /\ k = "reset" /\ s = "useCode"
  \/ p = "lookup" /\ k = "forgotMail" /\ s = "storeCode"
  \/ p = "list" /\ s = "endSession"
  \/ p = "deleteSessions" /\ s = "deleteOwned"
  \/ p = "deleteOwned" /\ s = "deleteRow"
  \/ p = "countAdmins" /\ s = "setAdmin"
\* It succeeds at the end only, where success promises something.
Ends(k, p, a) ==
  /\ a \in Answers
  /\ a = "ok" /\ k \in Setting => p = "revokeOthers"
  /\ a = "ok" /\ k = "deleteUser" => p = "deleteRow"
Advances(r) ==
  /\ Typed' /\ Others(r) /\ AtHome(r)' /\ req[r].at \notin Answers \cup {"idle"}
  /\ req'[r].kind = req[r].kind /\ Kept(r)' = Kept(r) /\ overlap' = overlap
  /\ req[r].kind = "deleteUser" => req'[r].target = req[r].target
  /\ \/ Follows(req[r].kind, req[r].at, req'[r].at)
     \/ Ends(req[r].kind, req[r].at, req'[r].at)

LEMMA FollowsHome ==
  ASSUME Typed, NEW r \in Requests, AtHome(r), NEW s, Follows(req[r].kind, req[r].at, s)
  PROVE  s \in Places /\ s \notin Answers /\ req[r].at \notin Answers \cup {"idle"}
<1>1. CASE req[r].at = "refresh" /\ req[r].kind \in Private /\ s = FirstStatement(req[r].kind)
  BY <1>1 DEF FirstStatement, Private, Administration, Places, Answers
<1> QED
  BY <1>1 DEF Follows, Places, Answers

LEMMA GoesOn ==
  ASSUME Typed', NEW r \in Requests, Others(r), AtHome(r), Kept(r)' = Kept(r), overlap' = overlap,
         req'[r].kind = req[r].kind, req'[r].target = req[r].target,
         Follows(req[r].kind, req[r].at, req'[r].at), Typed
  PROVE  Advances(r)
<1>1. req[r].at \notin Answers \cup {"idle"}
  BY FollowsHome
<1>2. AtHome(r)'
  <2>1. CASE req[r].at = "refresh" /\ req[r].kind \in Private
                /\ req'[r].at = FirstStatement(req[r].kind)
    BY <2>1 DEF FirstStatement, Private, Administration, AtHome, Setting
  <2>2. CASE req[r].at # "refresh"
    BY <2>2 DEF Follows, AtHome, Setting
  <2> QED
    BY <2>1, <2>2 DEF Follows
<1> QED
  BY <1>1, <1>2 DEF Advances

LEMMA GoesTo ==
  ASSUME Typed, NEW r \in Requests, AtHome(r), NEW s, Goto(r, s), overlap' = overlap,
         Follows(req[r].kind, req[r].at, s)
  PROVE  Advances(r) /\ req'[r].at = s /\ req'[r].user = req[r].user /\ Keeps(r)
<1>1. s \in Places
  BY FollowsHome
<1>2. Typed' /\ Others(r) /\ req'[r].at = s /\ req'[r].user = req[r].user /\ Keeps(r)
  BY <1>1, GotoReq
<1>3. Kept(r)' = Kept(r)
  BY <1>2 DEF Kept, Keeps
<1> QED
  BY <1>2, <1>3, GoesOn DEF Keeps

LEMMA GoesWith ==
  ASSUME Typed, NEW r \in Requests, AtHome(r), NEW s, NEW id \in Nat, GotoWith(r, s, id),
         overlap' = overlap, Follows(req[r].kind, req[r].at, s)
  PROVE  Advances(r) /\ req'[r].at = s /\ req'[r].user = id /\ Keeps(r)
<1>1. s \in Places
  BY FollowsHome
<1>2. Typed' /\ Others(r) /\ req'[r].at = s /\ req'[r].user = id /\ Keeps(r)
  BY <1>1, GotoWithReq
<1>3. Kept(r)' = Kept(r)
  BY <1>2 DEF Kept, Keeps
<1> QED
  BY <1>2, <1>3, GoesOn DEF Keeps

LEMMA Finishes ==
  ASSUME Typed, NEW r \in Requests, NEW a, Reply(r, a), overlap' = overlap,
         req[r].at \notin Answers \cup {"idle"}, Ends(req[r].kind, req[r].at, a)
  PROVE  Advances(r) /\ req'[r].at = a
<1>1. a \in Answers
  BY DEF Ends
<1>2. /\ Typed' /\ Others(r)
      /\ req'[r].kind = req[r].kind /\ req'[r].at = a
      /\ req[r].kind = "deleteUser" => req'[r].target = req[r].target
      /\ Kept(r)' = Kept(r)
  BY <1>1, ReplyReq
<1>3. AtHome(r)'
  BY <1>1, <1>2 DEF AtHome, Answers
<1> QED
  BY <1>2, <1>3 DEF Advances
LEMMA Refuses ==
  ASSUME Typed, NEW r \in Requests, NEW a \in {"refused", "error"}, Reply(r, a), overlap' = overlap,
         req[r].at \notin Answers \cup {"idle"}
  PROVE  Advances(r) /\ req'[r].at = a
<1>1. Ends(req[r].kind, req[r].at, a)
  BY DEF Ends, Answers
<1> QED
  BY <1>1, Finishes

(* What a request has read is written into its record, and nothing else. *)
LEMMA LoadReq ==
  ASSUME Typed, NEW r \in Requests, NEW b \in BOOLEAN, NEW n \in Names \cup {Address, ""},
         req' = [req EXCEPT ![r].at = "refresh", ![r].admin = b, ![r].name = n]
  PROVE  /\ Typed' /\ Others(r)
         /\ req'[r].at = "refresh" /\ req'[r].kind = req[r].kind /\ req'[r].name = n
         /\ req'[r].token = req[r].token
         /\ req'[r].target = req[r].target /\ req'[r].flag = req[r].flag
         /\ req'[r].user = req[r].user /\ req'[r].admin = b
<1> DEFINE new == [req[r] EXCEPT !.at = "refresh", !.admin = b, !.name = n]
<1>1. req[r] \in Request
  BY DEF Typed
<1>2. new \in Request
  BY <1>1 DEF Request, Places
<1>3. req' = [req EXCEPT ![r] = new]
  BY DEF Typed
<1>4. /\ new.at = "refresh" /\ new.kind = req[r].kind /\ new.name = n /\ new.token = req[r].token
      /\ new.target = req[r].target /\ new.flag = req[r].flag /\ new.user = req[r].user
      /\ new.admin = b
  BY <1>1 DEF Request
<1> HIDE DEF new
<1>5. Typed' /\ Others(r) /\ req'[r] = new
  BY <1>2, <1>3, Moved
<1> QED
  BY <1>4, <1>5

(* So it is with what it counted, *)
LEMMA CountReq ==
  ASSUME Typed, NEW r \in Requests, NEW b \in BOOLEAN,
         req' = [req EXCEPT ![r].at = "insert", ![r].admin = b]
  PROVE  /\ Typed' /\ Others(r)
         /\ req'[r].at = "insert" /\ req'[r].kind = req[r].kind /\ req'[r].name = req[r].name
         /\ req'[r].token = req[r].token
         /\ req'[r].target = req[r].target /\ req'[r].flag = req[r].flag
         /\ req'[r].user = req[r].user /\ req'[r].admin = b
<1> DEFINE new == [req[r] EXCEPT !.at = "insert", !.admin = b]
<1>1. req[r] \in Request
  BY DEF Typed
<1>2. new \in Request
  BY <1>1 DEF Request, Places
<1>3. req' = [req EXCEPT ![r] = new]
  BY DEF Typed
<1>4. /\ new.at = "insert" /\ new.kind = req[r].kind /\ new.name = req[r].name
      /\ new.token = req[r].token
      /\ new.target = req[r].target /\ new.flag = req[r].flag /\ new.user = req[r].user
      /\ new.admin = b
  BY <1>1 DEF Request
<1> HIDE DEF new
<1>5. Typed' /\ Others(r) /\ req'[r] = new
  BY <1>2, <1>3, Moved
<1> QED
  BY <1>4, <1>5

(* and with the session it picked from the list. *)
LEMMA ListReq ==
  ASSUME Typed, NEW r \in Requests, NEW t \in Tokens,
         req' = [req EXCEPT ![r].at = "endSession", ![r].token = t]
  PROVE  /\ Typed' /\ Others(r)
         /\ req'[r].at = "endSession" /\ req'[r].kind = req[r].kind /\ req'[r].name = req[r].name
         /\ req'[r].token = t
         /\ req'[r].target = req[r].target /\ req'[r].flag = req[r].flag
         /\ req'[r].user = req[r].user /\ req'[r].admin = req[r].admin
<1> DEFINE new == [req[r] EXCEPT !.at = "endSession", !.token = t]
<1>1. req[r] \in Request
  BY DEF Typed
<1>2. new \in Request
  BY <1>1 DEF Request, Places
<1>3. req' = [req EXCEPT ![r] = new]
  BY DEF Typed
<1>4. /\ new.at = "endSession" /\ new.kind = req[r].kind /\ new.name = req[r].name /\ new.token = t
      /\ new.target = req[r].target /\ new.flag = req[r].flag /\ new.user = req[r].user
      /\ new.admin = req[r].admin
  BY <1>1 DEF Request
<1> HIDE DEF new
<1>5. Typed' /\ Others(r) /\ req'[r] = new
  BY <1>2, <1>3, Moved
<1> QED
  BY <1>4, <1>5

LEMMA Handles ==
  ASSUME Types, NEW r \in Requests, AtHome(r), Handle(r)
  PROVE  Advances(r)
<1>0. Typed /\ Domains /\ nextId \in Nat
  BY DEF Types, StoreTypes, Typed
<1>1. CASE Authenticate(r)
  <2>1. LiveSession(req[r].token) => sessions[req[r].token].user \in Nat
    BY DEF LiveSession, Types, StoreTypes
  <2> QED
    BY <1>0, <1>1, <2>1, GoesWith, Refuses DEF Authenticate, Follows, Answers, ghost
<1>2. CASE LoadUser(r)
  <2>1. CASE req[r].user \in UserIds
    <3>0. /\ users[req[r].user].admin \in BOOLEAN
          /\ users[req[r].user].name \in Names \cup {Address, ""}
      BY <2>1 DEF Types, StoreTypes, UserRow
    <3>1. PICK b \in BOOLEAN, n \in Names \cup {Address, ""} :
            req' = [req EXCEPT ![r].at = "refresh", ![r].admin = b, ![r].name = n]
      BY <1>2, <2>1, <3>0, Zenon DEF LoadUser
    <3>2. /\ Typed' /\ Others(r)
          /\ req'[r].at = "refresh" /\ req'[r].kind = req[r].kind
          /\ req'[r].token = req[r].token /\ req'[r].target = req[r].target
      BY <1>0, <3>1, LoadReq
    <3>3. Follows(req[r].kind, req[r].at, req'[r].at) /\ overlap' = overlap
      BY <1>2, <3>2 DEF LoadUser, Follows, ghost
    <3> QED
      BY <1>0, <3>2, <3>3, GoesOn DEF Kept
  <2> QED
    BY <1>0, <1>2, <2>1, Refuses DEF LoadUser, Answers, ghost
<1>3. CASE Refresh(r)
  BY <1>0, <1>3, GoesTo, GoesWith, Refuses, Finishes
    DEF Refresh, Follows, Ends, Answers, AtHome, Setting, ghost
<1>4. CASE CountUsers(r)
  <2>1. PICK b \in BOOLEAN : req' = [req EXCEPT ![r].at = "insert", ![r].admin = b]
    BY <1>4 DEF CountUsers, NoUsers
  <2>2. /\ Typed' /\ Others(r)
        /\ req'[r].at = "insert" /\ req'[r].kind = req[r].kind
        /\ req'[r].token = req[r].token /\ req'[r].target = req[r].target
    BY <1>0, <2>1, CountReq
  <2>3. Follows(req[r].kind, req[r].at, req'[r].at) /\ overlap' = overlap
    BY <1>4, <2>2 DEF CountUsers, Follows, ghost
  <2> QED
    BY <1>0, <2>2, <2>3, GoesOn DEF Kept
<1>5. CASE InsertUser(r)
  BY <1>0, <1>5, GoesTo, GoesWith, Refuses, Finishes
    DEF InsertUser, Follows, Ends, Answers, AtHome, Setting, ghost
<1>6. CASE VerifyPassword(r)
  <2>1. CASE Reply(r, "refused")
    BY <1>0, <1>6, <2>1, Refuses DEF VerifyPassword, Answers, ghost
  <2>2. CASE ~Reply(r, "refused")
    <3>1. PICK id \in Verified(req[r].name, req[r].password) : GotoWith(r, "open", id)
      BY <1>6, <2>2 DEF VerifyPassword
    <3>2. id \in Nat
      BY <1>0 DEF Domains, Verified, Named
    <3> QED
      BY <1>0, <1>6, <3>1, <3>2, GoesWith DEF VerifyPassword, Follows, ghost
  <2> QED
    BY <2>1, <2>2
<1>7. CASE CreateSession(r)
  BY <1>0, <1>7, GoesTo, GoesWith, Refuses, Finishes
    DEF CreateSession, Follows, Ends, Answers, AtHome, Setting, ghost
<1>8. CASE VerifyOld(r)
  BY <1>0, <1>8, GoesTo, GoesWith, Refuses, Finishes
    DEF VerifyOld, Follows, Ends, Answers, AtHome, Setting, ghost
<1>9. CASE UpdatePassword(r)
  BY <1>0, <1>9, GoesTo, GoesWith, Refuses, Finishes
    DEF UpdatePassword, Follows, Ends, Answers, AtHome, Setting, ghost
<1>10. CASE RevokeOthers(r)
  BY <1>0, <1>10, GoesTo, GoesWith, Refuses, Finishes
    DEF RevokeOthers, Follows, Ends, Answers, AtHome, Setting, ghost
<1>11. CASE ResetByName(r)
  BY <1>0, <1>11, GoesTo, GoesWith, Refuses, Finishes
    DEF ResetByName, Follows, Ends, Answers, AtHome, Setting, ghost
<1>12. CASE FindReset(r)
  <2>1. CASE Reply(r, "error")
    BY <1>0, <1>12, <2>1, Refuses DEF FindReset, Answers, ghost
  <2>2. CASE ~Reply(r, "error")
    <3>1. PICK id \in Named(req[r].name) : GotoWith(r, "revokeOthers", id)
      BY <1>12, <2>2 DEF FindReset
    <3>2. id \in Nat
      BY <1>0 DEF Domains, Named
    <3> QED
      BY <1>0, <1>12, <3>1, <3>2, GoesWith DEF FindReset, Follows, ghost
  <2> QED
    BY <2>1, <2>2
<1>13. CASE LookupForReset(r)
  <2> DEFINE a == IF req[r].kind = "reset" THEN "refused" ELSE "ok"
             s == IF req[r].kind = "reset" THEN "useCode" ELSE "storeCode"
  <2>0. /\ req[r].at = "lookup" /\ req[r].kind \in {"reset", "forgotMail"} /\ overlap' = overlap
        /\ Ends(req[r].kind, req[r].at, a) /\ Follows(req[r].kind, req[r].at, s)
    BY <1>13 DEF LookupForReset, AtHome, Ends, Follows, Answers, Setting, ghost
  <2>1. CASE Reply(r, a)
    BY <1>0, <2>0, <2>1, Finishes DEF Answers
  <2>2. CASE ~Reply(r, a)
    <3>1. PICK id \in Matching(req[r].name) : GotoWith(r, s, id)
      BY <1>13, <2>2 DEF LookupForReset
    <3>2. id \in Nat
      BY <1>0 DEF Domains, Named, Matching
    <3> QED
      BY <1>0, <2>0, <3>1, <3>2, GoesWith
  <2> QED
    BY <2>1, <2>2
<1>14. CASE StoreCode(r)
  BY <1>0, <1>14, GoesTo, GoesWith, Refuses, Finishes
    DEF StoreCode, Follows, Ends, Answers, AtHome, Setting, ghost
<1>15. CASE UseResetCode(r)
  BY <1>0, <1>15, GoesTo, GoesWith, Refuses, Finishes
    DEF UseResetCode, Follows, Ends, Answers, AtHome, Setting, ghost
<1>16. CASE Logout(r)
  BY <1>0, <1>16, GoesTo, GoesWith, Refuses, Finishes
    DEF Logout, Follows, Ends, Answers, AtHome, Setting, ghost
<1>17. CASE ListSessions(r)
  <2>1. CASE Reply(r, "refused")
    BY <1>0, <1>17, <2>1, Refuses DEF ListSessions, Answers, ghost
  <2>2. CASE ~Reply(r, "refused")
    <3>1. PICK t \in SessionsOf(req[r].user) :
            req' = [req EXCEPT ![r].at = "endSession", ![r].token = t]
      BY <1>17, <2>2 DEF ListSessions
    <3>2. t \in Tokens
      BY <1>0 DEF Domains, SessionsOf
    <3>3. /\ Typed' /\ Others(r)
          /\ req'[r].at = "endSession" /\ req'[r].kind = req[r].kind
          /\ req'[r].target = req[r].target
      BY <1>0, <3>1, <3>2, ListReq
    <3>4. req[r].kind \in {"logout", "revoke"}
      BY <1>17 DEF ListSessions, AtHome
    <3>5. Follows(req[r].kind, req[r].at, req'[r].at) /\ overlap' = overlap
      BY <1>17, <3>3 DEF ListSessions, Follows, ghost
    <3> QED
      BY <1>0, <3>3, <3>4, <3>5, GoesOn DEF Kept
  <2> QED
    BY <2>1, <2>2
<1>18. CASE SetEmail(r)
  BY <1>0, <1>18, GoesTo, GoesWith, Refuses, Finishes
    DEF SetEmail, Follows, Ends, Answers, AtHome, Setting, ghost
<1>19. CASE SaveConnection(r)
  BY <1>0, <1>19, GoesTo, GoesWith, Refuses, Finishes
    DEF SaveConnection, Follows, Ends, Answers, AtHome, Setting, ghost
<1>20. CASE DeleteSessions(r)
  BY <1>0, <1>20, GoesTo, GoesWith, Refuses, Finishes
    DEF DeleteSessions, Follows, Ends, Answers, AtHome, Setting, ghost
<1>21. CASE DeleteOwned(r)
  BY <1>0, <1>21, GoesTo, GoesWith, Refuses, Finishes
    DEF DeleteOwned, Follows, Ends, Answers, AtHome, Setting, ghost
<1>22. CASE DeleteUser(r)
  BY <1>0, <1>22, GoesTo, GoesWith, Refuses, Finishes
    DEF DeleteUser, Follows, Ends, Answers, AtHome, Setting, ghost
<1>23. CASE CountAdmins(r)
  BY <1>0, <1>23, GoesTo, GoesWith, Refuses, Finishes
    DEF CountAdmins, Follows, Ends, Answers, AtHome, Setting, ghost
<1>24. CASE SetAdmin(r)
  BY <1>0, <1>24, GoesTo, GoesWith, Refuses, Finishes
    DEF SetAdmin, Follows, Ends, Answers, AtHome, Setting, ghost
<1>25. CASE Fail(r)
  BY <1>0, <1>25, GoesTo, GoesWith, Refuses, Finishes
    DEF Fail, Follows, Ends, Answers, AtHome, Setting, ghost
<1> QED
  BY <1>1, <1>2, <1>3, <1>4, <1>5, <1>6, <1>7, <1>8, <1>9, <1>10, <1>11, <1>12, <1>13, <1>14, <1>15,
       <1>16, <1>17, <1>18, <1>19, <1>20, <1>21, <1>22, <1>23, <1>24, <1>25
    DEF Handle

(***************************************************************************)
(* What a statement does to the rows.                                      *)
(***************************************************************************)
\* Users stay, with their names; sessions may end, but not change hands.
UsersKept ==
  /\ UserIds' = UserIds /\ users' \in [UserIds -> UserRow]
  /\ \A id \in UserIds : users'[id].name = users[id].name
SessionsKept ==
  /\ DOMAIN sessions' \subseteq DOMAIN sessions
  /\ sessions' \in [DOMAIN sessions' -> [user : Nat, live : BOOLEAN]]
  /\ \A t \in DOMAIN sessions' : sessions'[t].user = sessions[t].user
\* In general: R may open sessions, and a user may be new or be gone.
RowsMove(R) ==
  /\ Keys'
  /\ UserIds' \subseteq Nat /\ users' \in [UserIds' -> UserRow] /\ nextId' \in Nat
  /\ nextId <= nextId'
  /\ sessions' \in [DOMAIN sessions' -> [user : Nat, live : BOOLEAN]]
  /\ \A t \in DOMAIN sessions' :
       \/ t \in DOMAIN sessions /\ sessions'[t].user = sessions[t].user
       \/ t \in R /\ req[t].at = "open" /\ req'[t].at = "ok"
  /\ \A id \in UserIds' :
       \/ id \in UserIds /\ users'[id].name = users[id].name
       \/ id = nextId

LEMMA CalmMoves ==
  ASSUME StoreTypes, Keys, UsersKept, SessionsKept, nextId' = nextId, owned' \subseteq UserIds
  PROVE  RowsMove({})
<1>1. Keys'
  BY DEF Keys, UsersKept, SessionsKept
<1> QED
  BY <1>1 DEF RowsMove, StoreTypes, Domains, UsersKept, SessionsKept

LEMMA UsersSame ==
  ASSUME StoreTypes, users' = users PROVE UsersKept
BY DEF UsersKept, StoreTypes, UserIds

LEMMA SessionsSame ==
  ASSUME StoreTypes, sessions' = sessions PROVE SessionsKept
BY DEF SessionsKept, StoreTypes

LEMMA SessionsEnd ==
  ASSUME StoreTypes, NEW T, EndSessions(T) PROVE SessionsKept /\ DOMAIN sessions' = DOMAIN sessions \ T
<1> DEFINE D == DOMAIN sessions \ T
<1>1. sessions' = [t \in D |-> sessions[t]]
  BY DEF EndSessions, Restricted
<1>2. DOMAIN sessions' = D /\ \A t \in D : sessions'[t] = sessions[t]
  BY <1>1
<1>3. \A t \in D : sessions[t] \in [user : Nat, live : BOOLEAN]
  BY DEF StoreTypes
<1>4. sessions' \in [D -> [user : Nat, live : BOOLEAN]]
  BY <1>1, <1>3
<1> QED
  BY <1>2, <1>4 DEF SessionsKept

LEMMA SessionSet ==
  ASSUME StoreTypes, NEW t \in DOMAIN sessions, NEW b \in BOOLEAN,
         sessions' = [sessions EXCEPT ![t].live = b]
  PROVE  SessionsKept
<1>1. sessions[t] \in [user : Nat, live : BOOLEAN]
  BY DEF StoreTypes
<1>2. sessions' = [sessions EXCEPT ![t] = [sessions[t] EXCEPT !.live = b]]
  OBVIOUS
<1>3. [sessions[t] EXCEPT !.live = b] \in [user : Nat, live : BOOLEAN]
      /\ [sessions[t] EXCEPT !.live = b].user = sessions[t].user
  BY <1>1
<1> QED
  BY <1>2, <1>3 DEF StoreTypes, SessionsKept

LEMMA RowSet ==
  ASSUME StoreTypes, NEW id \in UserIds, NEW entry \in UserRow, entry.name = users[id].name,
         users' = [users EXCEPT ![id] = entry]
  PROVE  UsersKept
BY DEF StoreTypes, UsersKept, UserIds

LEMMA RowUpdated ==
  ASSUME StoreTypes, NEW id \in UserIds, NEW p \in Passwords \cup {""}, NEW b \in BOOLEAN,
         \/ users' = [users EXCEPT ![id].password = p]
         \/ users' = [users EXCEPT ![id].email = b]
         \/ users' = [users EXCEPT ![id].admin = b]
  PROVE  UsersKept
<1>1. users[id] \in UserRow
  BY DEF StoreTypes
<1>2. CASE users' = [users EXCEPT ![id].password = p]
  <2>1. users' = [users EXCEPT ![id] = [users[id] EXCEPT !.password = p]]
    BY <1>2 DEF StoreTypes
  <2>2. [users[id] EXCEPT !.password = p] \in UserRow
        /\ [users[id] EXCEPT !.password = p].name = users[id].name
    BY <1>1 DEF UserRow
  <2> QED
    BY <2>1, <2>2, RowSet
<1>3. CASE users' = [users EXCEPT ![id].email = b]
  <2>1. users' = [users EXCEPT ![id] = [users[id] EXCEPT !.email = b]]
    BY <1>3 DEF StoreTypes
  <2>2. [users[id] EXCEPT !.email = b] \in UserRow
        /\ [users[id] EXCEPT !.email = b].name = users[id].name
    BY <1>1 DEF UserRow
  <2> QED
    BY <2>1, <2>2, RowSet
<1>4. CASE users' = [users EXCEPT ![id].admin = b]
  <2>1. users' = [users EXCEPT ![id] = [users[id] EXCEPT !.admin = b]]
    BY <1>4 DEF StoreTypes
  <2>2. [users[id] EXCEPT !.admin = b] \in UserRow
        /\ [users[id] EXCEPT !.admin = b].name = users[id].name
    BY <1>1 DEF UserRow
  <2> QED
    BY <2>1, <2>2, RowSet
<1> QED
  BY <1>2, <1>3, <1>4

LEMMA InsertMoves ==
  ASSUME Types, Keys, NEW r \in Requests, InsertUser(r)
  PROVE  RowsMove({})
<1>0. StoreTypes /\ nextId \in Nat /\ UserIds \subseteq Nat /\ req[r] \in Request
  BY DEF Types, StoreTypes, Domains
<1>1. CASE Named(req[r].name) # {}
  <2>1. UsersKept /\ SessionsKept
    BY <1>0, <1>1, UsersSame, SessionsSame DEF InsertUser
  <2>2. nextId' = nextId /\ owned' \subseteq UserIds
    BY <1>1 DEF InsertUser, Keys
  <2> QED
    BY <1>0, <2>1, <2>2, CalmMoves
<1>2. CASE Named(req[r].name) = {}
  <2>1. PICK entry \in UserRow : entry.name = req[r].name /\ users' = With(users, nextId, entry)
    <3> DEFINE entry == [name |-> req[r].name, password |-> req[r].password,
                       admin |-> req[r].admin, email |-> FALSE]
    <3>1. entry \in UserRow /\ entry.name = req[r].name
      BY <1>0 DEF UserRow, Request
    <3>2. users' = With(users, nextId, entry)
      BY <1>2 DEF InsertUser
    <3> QED
      BY <3>1, <3>2
  <2>2. nextId' = nextId + 1 /\ sessions' = sessions /\ owned' = owned
    BY <1>2 DEF InsertUser
  <2>3. nextId \notin UserIds
    BY <1>0 DEF Keys
  <2>4. /\ UserIds' = UserIds \cup {nextId} /\ users'[nextId] = entry
        /\ \A id \in UserIds : users'[id] = users[id]
    BY <2>1, <2>3 DEF With, UserIds
  <2>5. users' \in [UserIds' -> UserRow]
    BY <1>0, <2>1, <2>4 DEF With, UserIds, StoreTypes
  <2>6. \A i, j \in UserIds' : users'[i].name = users'[j].name => i = j
    BY <1>2, <2>1, <2>4 DEF Keys, Named
  <2>7. Keys'
    <3>1. \A id \in UserIds' : id < nextId'
      BY <1>0, <2>2, <2>4 DEF Keys
    <3>2. \A t \in DOMAIN sessions' : sessions'[t].user \in UserIds'
      BY <2>2, <2>4 DEF Keys
    <3>3. owned' \subseteq UserIds'
      BY <2>2, <2>4 DEF Keys
    <3> QED
      BY <2>6, <3>1, <3>2, <3>3 DEF Keys
  <2> QED
    BY <1>0, <2>2, <2>4, <2>5, <2>7 DEF RowsMove, StoreTypes
<1> QED
  BY <1>1, <1>2

LEMMA CreateMoves ==
  ASSUME Types, Keys, TokensOpened, NEW r \in Requests, CreateSession(r)
  PROVE  RowsMove({r})
<1>0. StoreTypes /\ nextId \in Nat /\ UserIds \subseteq Nat /\ Typed
  BY DEF Types, StoreTypes, Domains, Typed
<1>1. CASE sessions' = sessions
  <2>1. UsersKept /\ SessionsKept
    BY <1>0, <1>1, UsersSame, SessionsSame DEF CreateSession
  <2>2. nextId' = nextId /\ owned' \subseteq UserIds
    BY DEF CreateSession, Keys
  <2>3. RowsMove({})
    BY <1>0, <2>1, <2>2, CalmMoves
  <2> QED
    BY <1>1, <2>3 DEF RowsMove
<1>2. CASE sessions' # sessions
  <2>1. req[r].at = "open" /\ OpenSession(r, req[r].user) /\ Reply(r, "ok")
    BY <1>2 DEF CreateSession
  <2>2. req'[r].at = "ok"
    BY <1>0, <2>1, ReplyReq DEF Answers
  <2>3. PICK id \in UserIds : sessions' = With(sessions, r, [user |-> id, live |-> TRUE])
    BY <2>1 DEF OpenSession
  <2>4. users' = users /\ nextId' = nextId /\ owned' = owned
    BY DEF CreateSession
  <2>5. r \notin DOMAIN sessions
    BY <2>1, AccountsAssumption DEF TokensOpened, Opened
  <2>6. /\ DOMAIN sessions' = DOMAIN sessions \cup {r} /\ sessions'[r] = [user |-> id, live |-> TRUE]
        /\ \A t \in DOMAIN sessions : sessions'[t] = sessions[t]
    BY <2>3, <2>5 DEF With
  <2>7. sessions' \in [DOMAIN sessions' -> [user : Nat, live : BOOLEAN]]
    <3>1. [user |-> id, live |-> TRUE] \in [user : Nat, live : BOOLEAN]
      BY <1>0
    <3> QED
      BY <1>0, <2>3, <2>6, <3>1 DEF With, StoreTypes
  <2>8. Keys'
    BY <2>4, <2>6 DEF Keys, UserIds
  <2> QED
    BY <1>0, <2>1, <2>2, <2>4, <2>6, <2>7, <2>8 DEF RowsMove, StoreTypes, UserIds
<1> QED
  BY <1>1, <1>2

LEMMA DeleteMoves ==
  ASSUME Types, Keys, NEW r \in Requests, DeleteUser(r)
  PROVE  RowsMove({})
<1>0. StoreTypes /\ nextId \in Nat /\ UserIds \subseteq Nat
  BY DEF Types, StoreTypes, Domains
<1>1. CASE UNCHANGED <<users, sessions, owned>>
  <2>1. UsersKept /\ SessionsKept
    BY <1>0, <1>1, UsersSame, SessionsSame
  <2>2. nextId' = nextId /\ owned' \subseteq UserIds
    BY <1>1 DEF DeleteUser, Keys
  <2> QED
    BY <1>0, <2>1, <2>2, CalmMoves
<1>2. CASE DeleteRow(req[r].target)
  <2> DEFINE id == req[r].target
  <2>1. nextId' = nextId
    BY DEF DeleteUser
  <2>2. users' = [i \in UserIds \ {id} |-> users[i]]
    BY <1>2 DEF DeleteRow, Restricted
  <2>3. /\ UserIds' = UserIds \ {id} /\ users' \in [UserIds' -> UserRow]
        /\ \A i \in UserIds' : users'[i] = users[i]
    BY <1>0, <2>2 DEF UserIds, StoreTypes
  <2>4. SessionsKept /\ DOMAIN sessions' = DOMAIN sessions \ SessionsOf(id)
    BY <1>0, <1>2, SessionsEnd DEF DeleteRow
  <2>5. \A t \in DOMAIN sessions' : sessions'[t].user \in UserIds'
    BY <2>3, <2>4 DEF SessionsOf, SessionsKept, Keys
  <2>6. owned' \subseteq UserIds'
    BY <1>2, <2>3 DEF DeleteRow, Keys
  <2>7. Keys'
    BY <2>1, <2>3, <2>5, <2>6 DEF Keys
  <2> QED
    BY <1>0, <2>1, <2>3, <2>4, <2>7 DEF RowsMove, SessionsKept
<1> QED
  BY <1>1, <1>2 DEF DeleteUser

\* Every handler's step, and every expiry, moves the rows so.
LEMMA HandleMoves ==
  ASSUME Types, Keys, TokensOpened, NEW r \in Requests, Handle(r)
  PROVE  RowsMove({r})
<1>0. StoreTypes /\ Typed /\ req[r] \in Request /\ owned \subseteq UserIds
  BY DEF Types, Typed, Keys
<1>1. ASSUME UsersKept, SessionsKept, nextId' = nextId, owned' \subseteq UserIds
      PROVE  RowsMove({r})
  <2>1. RowsMove({})
    BY <1>0, <1>1, CalmMoves
  <2> QED
    BY <2>1 DEF RowsMove
<1>2. CASE UNCHANGED rows
  <2>1. users' = users /\ nextId' = nextId /\ sessions' = sessions /\ owned' = owned
    BY <1>2 DEF rows
  <2> QED
    BY <1>0, <1>1, <2>1, UsersSame, SessionsSame
<1>3. CASE Refresh(r)
  <2>1. SessionsKept
    BY <1>0, <1>3, SessionsSame, SessionSet DEF Refresh, RefreshSession
  <2>2. users' = users /\ nextId' = nextId /\ owned' = owned
    BY <1>3 DEF Refresh
  <2> QED
    BY <1>0, <1>1, <2>1, <2>2, UsersSame
<1>4. CASE InsertUser(r)
  BY <1>4, InsertMoves DEF RowsMove
<1>5. CASE CreateSession(r)
  BY <1>5, CreateMoves
<1>6. CASE UpdatePassword(r) \/ ResetByName(r)
  <2>1. sessions' = sessions /\ nextId' = nextId /\ owned' = owned
    BY <1>6 DEF UpdatePassword, ResetByName
  <2>2. \/ users' = users
        \/ \E id \in UserIds : users' = [users EXCEPT ![id].password = req[r].new]
    BY <1>6 DEF UpdatePassword, ResetByName, SetPassword, Named
  <2>3. req[r].new \in Passwords \cup {""} /\ TRUE \in BOOLEAN
    BY <1>0 DEF Request
  <2>4. UsersKept
    BY <1>0, <2>2, <2>3, UsersSame, RowUpdated
  <2> QED
    BY <1>0, <1>1, <2>1, <2>4, SessionsSame
<1>7. CASE RevokeOthers(r) \/ Logout(r)
  <2>1. users' = users /\ nextId' = nextId /\ owned' = owned
    BY <1>7 DEF RevokeOthers, Logout
  <2>2. \E T : EndSessions(T)
    BY <1>7 DEF RevokeOthers, Logout, EndSessionsExcept
  <2> QED
    BY <1>0, <1>1, <2>1, <2>2, SessionsEnd, UsersSame
<1>8. CASE StoreCode(r) \/ UseResetCode(r)
  <2>1. users' = users /\ nextId' = nextId /\ sessions' = sessions /\ owned' = owned
    BY <1>8 DEF StoreCode, UseResetCode
  <2> QED
    BY <1>0, <1>1, <2>1, UsersSame, SessionsSame
<1>9. CASE SetEmail(r) \/ SetAdmin(r)
  <2>1. sessions' = sessions /\ nextId' = nextId /\ owned' = owned
    BY <1>9 DEF SetEmail, SetAdmin
  <2>2. \/ users' = users
        \/ \E id \in UserIds : \/ users' = [users EXCEPT ![id].email = req[r].flag]
                               \/ users' = [users EXCEPT ![id].admin = req[r].flag]
    BY <1>9 DEF SetEmail, SetAdmin
  <2>3. "" \in Passwords \cup {""} /\ req[r].flag \in BOOLEAN
    BY <1>0 DEF Request
  <2>4. UsersKept
    BY <1>0, <2>2, <2>3, UsersSame, RowUpdated
  <2> QED
    BY <1>0, <1>1, <2>1, <2>4, SessionsSame
<1>10. CASE SaveConnection(r)
  <2>1. users' = users /\ nextId' = nextId /\ sessions' = sessions
    BY <1>10 DEF SaveConnection
  <2>2. owned' \subseteq UserIds
    BY <1>0, <1>10 DEF SaveConnection
  <2> QED
    BY <1>0, <1>1, <2>1, <2>2, UsersSame, SessionsSame
<1>11. CASE DeleteSessions(r)
  <2>1. users' = users /\ nextId' = nextId /\ owned' = owned
    BY <1>11 DEF DeleteSessions
  <2>2. sessions' = sessions \/ \E T : EndSessions(T)
    BY <1>11 DEF DeleteSessions, EndSessionsExcept
  <2> QED
    BY <1>0, <1>1, <2>1, <2>2, SessionsEnd, SessionsSame, UsersSame
<1>12. CASE DeleteOwned(r)
  <2>1. users' = users /\ nextId' = nextId /\ sessions' = sessions
    BY <1>12 DEF DeleteOwned
  <2>2. owned' \subseteq UserIds
    BY <1>0, <1>12 DEF DeleteOwned
  <2> QED
    BY <1>0, <1>1, <2>1, <2>2, UsersSame, SessionsSame
<1>13. CASE DeleteUser(r)
  BY <1>13, DeleteMoves DEF RowsMove
<1>14. CASE \/ Authenticate(r) \/ LoadUser(r) \/ CountUsers(r) \/ VerifyPassword(r) \/ VerifyOld(r)
            \/ FindReset(r) \/ LookupForReset(r) \/ ListSessions(r) \/ CountAdmins(r) \/ Fail(r)
  <2>1. UNCHANGED rows
    BY <1>14 DEF Authenticate, LoadUser, CountUsers, VerifyPassword, VerifyOld, FindReset,
                 LookupForReset, ListSessions, CountAdmins, Fail
  <2> QED
    BY <1>2, <2>1
<1> QED
  BY <1>3, <1>4, <1>5, <1>6, <1>7, <1>8, <1>9, <1>10, <1>11, <1>12, <1>13, <1>14 DEF Handle

\* The steps of time.
Expires == \/ \E t \in DOMAIN sessions : Expire(t)
           \/ \E c \in DOMAIN codes : ExpireCode(c)
LEMMA ExpiryMoves ==
  ASSUME Types, Keys, Expires
  PROVE  RowsMove({}) /\ req' = req /\ users' = users /\ overlap' = overlap /\ standing' = standing
<1>0. StoreTypes /\ owned \subseteq UserIds
  BY DEF Types, Keys
<1>1. req' = req /\ users' = users /\ nextId' = nextId /\ owned' = owned /\ overlap' = overlap
      /\ standing' = standing
  BY DEF Expires, Expire, ExpireCode, ghost
<1>2. sessions' = sessions \/ \E t \in DOMAIN sessions : sessions' = [sessions EXCEPT ![t].live = FALSE]
  BY DEF Expires, Expire, ExpireCode
<1>3. SessionsKept
  BY <1>0, <1>2, SessionsSame, SessionSet
<1> QED
  BY <1>0, <1>1, <1>3, UsersSame, CalmMoves

(***************************************************************************)
(* Codes: only a code that is not used opens a reset, and is used then.    *)
(***************************************************************************)
CodeTypes ==
  /\ DOMAIN codes \subseteq Nat /\ IsFiniteSet(DOMAIN codes)
  /\ codes \in [DOMAIN codes -> [user : Nat, used : BOOLEAN, expired : BOOLEAN]]
  /\ CodesSpent

LEMMA CodeSet ==
  ASSUME CodeTypes, NEW c \in DOMAIN codes, NEW entry \in [user : Nat, used : BOOLEAN, expired : BOOLEAN],
         codes' = [codes EXCEPT ![c] = entry], spent' = spent \/ spent' = [spent EXCEPT ![c] = 1],
         codes[c].used => entry.used, spent' # spent => entry.used
  PROVE  CodeTypes'
<1>1. /\ DOMAIN codes' = DOMAIN codes
      /\ codes' \in [DOMAIN codes' -> [user : Nat, used : BOOLEAN, expired : BOOLEAN]]
      /\ codes'[c] = entry /\ \A d \in DOMAIN codes \ {c} : codes'[d] = codes[d]
  BY DEF CodeTypes
<1>2. DOMAIN spent' = DOMAIN codes /\ spent' \in [DOMAIN codes -> {0, 1}]
  BY DEF CodeTypes, CodesSpent
<1>3. \A d \in DOMAIN codes : spent'[d] = 1 => codes'[d].used
  BY <1>1 DEF CodeTypes, CodesSpent
<1> QED
  BY <1>1, <1>2, <1>3 DEF CodeTypes, CodesSpent

LEMMA CodeStored ==
  ASSUME CodeTypes, NEW r \in Requests, req[r] \in Request,
         codes' = With(codes, NextCode, [user |-> req[r].user, used |-> FALSE, expired |-> FALSE]),
         spent' = With(spent, NextCode, 0)
  PROVE  CodeTypes'
<1>1. NextCode \in Nat
  BY FS_CardinalityType DEF NextCode, CodeTypes
<1>2. PICK entry \in [user : Nat, used : BOOLEAN, expired : BOOLEAN] : codes' = With(codes, NextCode, entry)
  <2>1. [user |-> req[r].user, used |-> FALSE, expired |-> FALSE]
           \in [user : Nat, used : BOOLEAN, expired : BOOLEAN]
    BY DEF Request
  <2> QED
    BY <2>1
<1>3. PICK n \in Nat : n = NextCode
  BY <1>1
<1>4. /\ codes' = [c \in DOMAIN codes \cup {n} |-> IF c = n THEN entry ELSE codes[c]]
      /\ spent' = [c \in DOMAIN spent \cup {n} |-> IF c = n THEN 0 ELSE spent[c]]
  BY <1>2, <1>3 DEF With
<1>5. /\ DOMAIN codes' = DOMAIN codes \cup {n} /\ DOMAIN spent' = DOMAIN codes \cup {n}
      /\ \A c \in DOMAIN codes \ {n} : codes'[c] = codes[c] /\ spent'[c] = spent[c]
      /\ spent'[n] = 0
  BY <1>4 DEF CodeTypes, CodesSpent
<1>6. codes' \in [DOMAIN codes' -> [user : Nat, used : BOOLEAN, expired : BOOLEAN]]
  BY <1>4, <1>5 DEF CodeTypes
<1>7. spent' \in [DOMAIN codes' -> {0, 1}]
  BY <1>4, <1>5 DEF CodeTypes, CodesSpent
<1>8. ASSUME NEW c \in DOMAIN codes', spent'[c] = 1 PROVE codes'[c].used
  <2>1. c \in DOMAIN codes \ {n}
    BY <1>5, <1>8
  <2>2. codes'[c] = codes[c] /\ spent[c] = 1
    BY <1>5, <1>8, <2>1
  <2> QED
    BY <2>1, <2>2 DEF CodeTypes, CodesSpent
<1>9. IsFiniteSet(DOMAIN codes')
  BY <1>5, FS_AddElement DEF CodeTypes
<1> QED
  BY <1>5, <1>6, <1>7, <1>8, <1>9 DEF CodeTypes, CodesSpent

LEMMA CodesStep ==
  ASSUME Types, CodesSpent, NEW r,
         (r \in Requests /\ Handle(r)) \/ Expires \/ UNCHANGED <<codes, spent>>
  PROVE  CodeTypes'
<1>0. CodeTypes /\ (r \in Requests => req[r] \in Request)
  BY DEF Types, StoreTypes, Domains, CodeTypes
<1>1. CASE UNCHANGED <<codes, spent>>
  BY <1>0, <1>1 DEF CodeTypes, CodesSpent
<1>2. CASE r \in Requests /\ StoreCode(r)
  <2>1. CASE req[r].user \in UserIds
    BY <1>0, <1>2, <2>1, CodeStored DEF StoreCode
  <2> QED
    BY <1>1, <1>2, <2>1 DEF StoreCode
<1>3. CASE r \in Requests /\ UseResetCode(r)
  <2> DEFINE c == req[r].target
             entry == [codes[c] EXCEPT !.used = TRUE]
  <2>1. CASE Usable(req[r].user, c)
    <3>1. c \in DOMAIN codes /\ ~codes[c].used
      BY <2>1 DEF Usable
    <3>2. codes[c] \in [user : Nat, used : BOOLEAN, expired : BOOLEAN]
      BY <1>0, <3>1 DEF CodeTypes
    <3>3. entry \in [user : Nat, used : BOOLEAN, expired : BOOLEAN] /\ entry.used
      BY <3>2
    <3>4. codes' = [codes EXCEPT ![c] = entry]
      BY <1>3, <2>1 DEF UseResetCode
    <3>5. spent[c] = 0
      BY <1>0, <3>1 DEF CodeTypes, CodesSpent
    <3>6. spent' = [spent EXCEPT ![c] = 1]
      BY <1>0, <1>3, <2>1, <3>1, <3>5 DEF UseResetCode, CodeTypes, CodesSpent
    <3> HIDE DEF entry, c
    <3> QED
      BY <1>0, <3>1, <3>3, <3>4, <3>6, CodeSet
  <2> QED
    BY <1>1, <1>3, <2>1 DEF UseResetCode
<1>4. CASE Expires /\ ~UNCHANGED <<codes, spent>>
  <2>1. PICK c \in DOMAIN codes : ExpireCode(c)
    BY <1>4 DEF Expires, Expire, ghost
  <2> DEFINE entry == [codes[c] EXCEPT !.expired = TRUE]
  <2>2. codes[c] \in [user : Nat, used : BOOLEAN, expired : BOOLEAN]
    BY <1>0 DEF CodeTypes
  <2>3. entry \in [user : Nat, used : BOOLEAN, expired : BOOLEAN] /\ entry.used = codes[c].used
    BY <2>2
  <2>4. codes' = [codes EXCEPT ![c] = entry] /\ spent' = spent
    BY <2>1 DEF ExpireCode, ghost
  <2> HIDE DEF entry
  <2> QED
    BY <1>0, <2>3, <2>4, CodeSet
<1>5. CASE r \in Requests /\ Handle(r) /\ ~StoreCode(r) /\ ~UseResetCode(r)
  <2>1. UNCHANGED <<codes, spent>>
    BY <1>5 DEF Handle, Authenticate, LoadUser, Refresh, CountUsers, InsertUser, VerifyPassword,
         CreateSession, VerifyOld, UpdatePassword, RevokeOthers, ResetByName, FindReset,
         LookupForReset, Logout, ListSessions, SetEmail, SaveConnection, DeleteSessions,
         DeleteOwned, DeleteUser, CountAdmins, SetAdmin, Fail, rows, ghost
  <2> QED
    BY <1>1, <2>1
<1> QED
  BY <1>1, <1>2, <1>3, <1>4, <1>5

(***************************************************************************)
(* Sessions: what is left of those that were open when a password was set. *)
(***************************************************************************)
StandingMoves(r) ==
  /\ standing' \in [Requests -> SUBSET Tokens]
  /\ \A q \in Requests \ {r} : standing'[q] = standing[q]
  /\ \/ standing'[r] = standing[r]
     \/ req[r].at \in {"update", "reset"} /\ standing'[r] \subseteq DOMAIN sessions

LEMMA StandingStep ==
  ASSUME Types, NEW r \in Requests, Handle(r)
  PROVE  StandingMoves(r)
<1>1. standing \in [Requests -> SUBSET Tokens] /\ DOMAIN sessions \subseteq Tokens
  BY DEF Types, StoreTypes, Domains
<1>2. CASE standing' = standing
  BY <1>1, <1>2 DEF StandingMoves
<1>3. CASE req[r].at \in {"update", "reset"} /\ \E id : standing' = [standing EXCEPT ![r] = SessionsOf(id)]
  <2>1. PICK T \in SUBSET DOMAIN sessions : standing' = [standing EXCEPT ![r] = T]
    BY <1>3 DEF SessionsOf
  <2> QED
    BY <1>1, <1>3, <2>1 DEF StandingMoves
<1>4. CASE UpdatePassword(r) \/ ResetByName(r)
  BY <1>2, <1>3, <1>4 DEF UpdatePassword, ResetByName, SetPassword
<1>5. CASE ~UpdatePassword(r) /\ ~ResetByName(r)
  <2>1. standing' = standing
    BY <1>5 DEF Handle, Authenticate, LoadUser, Refresh, CountUsers, InsertUser, VerifyPassword,
         CreateSession, VerifyOld, RevokeOthers, FindReset, StoreCode, UseResetCode,
         LookupForReset, Logout, ListSessions, SetEmail, SaveConnection, DeleteSessions,
         DeleteOwned, DeleteUser, CountAdmins, SetAdmin, Fail, rows, ghost
  <2> QED
    BY <1>2, <2>1
<1> QED
  BY <1>4, <1>5

LEMMA TokensStep ==
  ASSUME TokensOpened, NEW r \in Requests, Advances(r), RowsMove({r}), StandingMoves(r)
  PROVE  TokensOpened'
<1>1. \A t : Opened(t) => Opened(t)'
  BY DEF Opened, Advances, Others, Answers
<1>2. \A t \in DOMAIN sessions' : Opened(t)'
  BY <1>1 DEF RowsMove, TokensOpened, Opened
<1>3. \A q \in Requests : \A t \in standing'[q] : Opened(t)'
  BY <1>1 DEF StandingMoves, TokensOpened
<1> QED
  BY <1>2, <1>3 DEF TokensOpened, Opened

\* A step of another request, or of none, takes nothing back.
LEMMA EndingOthers ==
  ASSUME StoreTypes, Keys, TokensOpened, NEW R, R \subseteq Requests, RowsMove(R), NEW q \in Requests,
         req'[q] = req[q], standing'[q] = standing[q], Ending(q)
  PROVE  Ending(q)'
<1>1. \A t \in Left(q)' : t \in Left(q) /\ sessions'[t].user = sessions[t].user
  <2> SUFFICES ASSUME NEW t \in standing[q] \cap DOMAIN sessions'
               PROVE  t \in DOMAIN sessions /\ sessions'[t].user = sessions[t].user
    BY DEF Left
  <2>1. Opened(t)
    BY DEF TokensOpened
  <2>2. ~(t \in R /\ req[t].at = "open")
    BY <2>1, AccountsAssumption DEF Opened
  <2> QED
    BY <2>2 DEF RowsMove
<1>2. \A t \in Left(q)' : sessions[t].user \in UserIds /\ sessions[t].user \in UserIds'
  BY <1>1 DEF Left, Keys, RowsMove
<1>3. \A t \in Left(q)' : users'[sessions'[t].user].name = users[sessions[t].user].name
  <2> SUFFICES ASSUME NEW t \in Left(q)' PROVE users'[sessions[t].user].name = users[sessions[t].user].name
    BY <1>1
  <2>1. sessions[t].user \in UserIds /\ sessions[t].user \in UserIds'
    BY <1>2
  <2>2. sessions[t].user # nextId
    BY <2>1 DEF Keys, StoreTypes, Domains
  <2> QED
    BY <2>1, <2>2 DEF RowsMove
<1>4. Kept(q)' = Kept(q)
  BY DEF Kept
<1> QED
  BY <1>1, <1>3, <1>4 DEF Ending

\* Which handlers stand where the invariant looks.
LEMMA Standing ==
  ASSUME NEW r \in Requests, Handle(r)
  PROVE  /\ req[r].at = "reset" => ResetByName(r) \/ Fail(r)
         /\ req[r].at = "find" => FindReset(r) \/ Fail(r)
         /\ req[r].at = "update" => UpdatePassword(r) \/ Fail(r)
         /\ req[r].at = "revokeOthers" => RevokeOthers(r) \/ Fail(r)
         /\ req[r].at = "count" => CountUsers(r) \/ Fail(r)
         /\ req[r].at = "user" => LoadUser(r) \/ Fail(r)
         /\ req[r].at = "refresh" => Refresh(r) \/ Fail(r)
         /\ req[r].at = "deleteSessions" => DeleteSessions(r) \/ Fail(r)
         /\ req[r].at = "deleteOwned" => DeleteOwned(r) \/ Fail(r)
         /\ req[r].at = "deleteRow" => DeleteUser(r) \/ Fail(r)
         /\ req[r].at = "countAdmins" => CountAdmins(r) \/ Fail(r)
         /\ req[r].at = "setAdmin" => SetAdmin(r) \/ Fail(r)
BY DEF Handle, Authenticate, LoadUser, Refresh, CountUsers, InsertUser, VerifyPassword,
       CreateSession, VerifyOld, UpdatePassword, RevokeOthers, ResetByName, FindReset,
       LookupForReset, StoreCode, UseResetCode, Logout, ListSessions, SetEmail, SaveConnection,
       DeleteSessions, DeleteOwned, DeleteUser, CountAdmins, SetAdmin

\* A statement that fails ends the request, or is passed over.
LEMMA Fails ==
  ASSUME Typed, NEW r \in Requests, AtHome(r), Fail(r)
  PROVE  /\ \/ req'[r].at = "error" \/ req'[r].at = "refused"
            \/ req[r].at = "storeCode" /\ req'[r].at = "ok"
            \/ /\ req[r].at = "refresh" /\ RequireAdmin(r) /\ req'[r].at = FirstStatement(req[r].kind)
               /\ req'[r].user = req[r].user /\ Keeps(r)
         /\ UNCHANGED rows
<1>0. UNCHANGED rows
  BY DEF Fail
<1>1. CASE req[r].at = "refresh" /\ RequireAdmin(r)
  <2>1. Goto(r, FirstStatement(req[r].kind)) /\ overlap' = overlap
    BY <1>1 DEF Fail, ghost
  <2>2. Follows(req[r].kind, req[r].at, FirstStatement(req[r].kind))
    BY <1>1 DEF Follows, AtHome
  <2> QED
    BY <1>0, <1>1, <2>1, <2>2, GoesTo
<1>2. CASE ~(req[r].at = "refresh" /\ RequireAdmin(r))
  <2>1. PICK a \in Answers : Reply(r, a) /\ (a = "ok" => req[r].at = "storeCode")
    BY <1>2, Zenon DEF Fail, Answers
  <2>2. req'[r].at = a
    BY <2>1, ReplyReq
  <2> QED
    BY <1>0, <2>1, <2>2 DEF Answers
<1> QED
  BY <1>1, <1>2

\* A request's own step: the sessions it remembers are those of its user, and
\* end when it succeeds.
LEMMA EndingOwn ==
  ASSUME Types, Keys, TokensOpened, NEW r \in Requests, AtHome(r), Ending(r), Handle(r),
         Advances(r), RowsMove({r}), StandingMoves(r)
  PROVE  Ending(r)'
<1>0. StoreTypes /\ Typed /\ req[r] \in Request /\ UserIds \subseteq Nat
  BY DEF Types, Typed, StoreTypes, Domains
<1>1. ASSUME req'[r].at = "find"
      PROVE  \A t \in Left(r)' : users'[sessions'[t].user].name = req'[r].name
  <2>0. req[r].at = "reset"
    BY <1>1 DEF Advances, Follows, Ends, Answers, FirstStatement, Private, Administration
  <2>1. ResetByName(r)
    BY <1>0, <1>1, <2>0, Standing, Fails
  <2>2. PICK id \in Named(req[r].name) : SetPassword(r, id, req[r].new) /\ Goto(r, "find")
    <3>1. ~Reply(r, "refused")
      BY <1>0, <1>1, ReplyReq DEF Answers
    <3> QED
      BY <2>1, <3>1 DEF ResetByName
  <2>3. req'[r].name = req[r].name
    BY <1>0, <2>2, GotoReq DEF Places, Keeps
  <2>4. sessions' = sessions /\ standing'[r] = SessionsOf(id)
    BY <2>1, <2>2 DEF ResetByName, SetPassword, Types
  <2>5. id \in UserIds /\ users[id].name = req[r].name
    BY <2>2 DEF Named
  <2>6. users'[id].name = users[id].name
    <3>1. UserIds' = UserIds /\ users'[id].name = users[id].name
      <4>1. users' = [users EXCEPT ![id].password = req[r].new]
        BY <2>2, <2>5 DEF SetPassword
      <4>2. req[r].new \in Passwords \cup {""} /\ TRUE \in BOOLEAN
        BY <1>0 DEF Request
      <4> QED
        BY <1>0, <2>5, <4>1, <4>2, RowUpdated DEF UsersKept
    <3> QED
      BY <3>1
  <2> QED
    BY <2>3, <2>4, <2>5, <2>6 DEF Left, SessionsOf
<1>2. ASSUME req'[r].at = "revokeOthers"
      PROVE  \A t \in Left(r)' : sessions'[t].user = req'[r].user
  <2>0. req[r].at \in {"update", "find"}
    BY <1>2 DEF Advances, Follows, Ends, Answers, FirstStatement, Private, Administration
  <2>1. UpdatePassword(r) \/ FindReset(r)
    BY <1>0, <1>2, <2>0, Standing, Fails
  <2>2. CASE UpdatePassword(r)
    <3>1. req'[r].user = req[r].user /\ sessions' = sessions
      BY <1>0, <2>2, GotoReq DEF UpdatePassword, Places
    <3>2. standing'[r] = SessionsOf(req[r].user)
      BY <2>2 DEF UpdatePassword, SetPassword, Types
    <3> QED
      BY <3>1, <3>2 DEF Left, SessionsOf
  <2>3. CASE FindReset(r)
    <3>1. PICK id \in Named(req[r].name) : GotoWith(r, "revokeOthers", id)
      <4>1. ~Reply(r, "error")
        BY <1>0, <1>2, ReplyReq DEF Answers
      <4> QED
        BY <2>3, <4>1 DEF FindReset
    <3>2. id \in UserIds /\ id \in Nat /\ users[id].name = req[r].name
      BY <1>0, <3>1 DEF Named
    <3>3. req'[r].user = id
      BY <1>0, <3>1, <3>2, GotoWithReq DEF Places
    <3>4. sessions' = sessions /\ standing' = standing /\ req[r].at = "find"
      BY <2>3 DEF FindReset, rows, ghost
    <3>5. \A t \in Left(r) : sessions[t].user \in UserIds /\ users[sessions[t].user].name = req[r].name
      BY <3>4 DEF Ending, Left, Keys
    <3>6. \A t \in Left(r) : sessions[t].user = id
      BY <3>2, <3>5 DEF Keys
    <3> QED
      BY <3>3, <3>4, <3>6 DEF Left
  <2> QED
    BY <2>1, <2>2, <2>3
<1>3. ASSUME req'[r].at = "ok", req'[r].kind \in Setting
      PROVE  Left(r)' \subseteq Kept(r)'
  <2>1. req[r].at = "revokeOthers"
    BY <1>3 DEF Advances, Follows, Ends, FirstStatement, Private, Administration, Setting
  <2>2. RevokeOthers(r)
    BY <1>0, <1>3, <2>1, Standing, Fails
  <2>3. DOMAIN sessions' = DOMAIN sessions \ (SessionsOf(req[r].user) \ Kept(r))
    BY <1>0, <2>2, SessionsEnd DEF RevokeOthers, EndSessionsExcept
  <2>4. standing' = standing
    BY <2>2 DEF RevokeOthers
  <2>5. \A t \in Left(r) : t \in SessionsOf(req[r].user)
    BY <2>1 DEF Ending, Left, SessionsOf
  <2>6. Kept(r)' = Kept(r)
    BY DEF Advances
  <2> QED
    BY <2>3, <2>4, <2>5, <2>6 DEF Left
<1> QED
  BY <1>1, <1>2, <1>3 DEF Ending

(***************************************************************************)
(* Deletions.                                                              *)
(***************************************************************************)
LEMMA DeletingOthers ==
  ASSUME StoreTypes, NEW R, RowsMove(R), NEW q \in Requests, Typed, req'[q] = req[q], Deleting(q)
  PROVE  Deleting(q)'
<1>1. req[q].target \in Nat /\ nextId \in Nat /\ nextId' \in Nat /\ nextId <= nextId'
  BY DEF Typed, Request, StoreTypes, RowsMove
<1>2. UserIds' \subseteq UserIds \cup {nextId}
  BY DEF RowsMove
<1> QED
  BY <1>1, <1>2 DEF Deleting

LEMMA DeletingOwn ==
  ASSUME Types, Keys, NEW r \in Requests, AtHome(r), Deleting(r), Handle(r), Advances(r), RowsMove({r})
  PROVE  Deleting(r)'
<1> SUFFICES ASSUME req[r].kind = "deleteUser"
             PROVE  req'[r].target < nextId' /\ (req'[r].at = "ok" => req'[r].target \notin UserIds')
  BY DEF Deleting, Advances
<1>0. Typed /\ req[r].target \in Nat /\ nextId \in Nat
  BY DEF Types, Typed, StoreTypes, Request
<1>1. req'[r].target = req[r].target /\ nextId <= nextId' /\ nextId' \in Nat /\ req[r].target < nextId
  BY DEF Advances, RowsMove, Deleting
<1>2. ASSUME req'[r].at = "ok" PROVE req[r].target \notin UserIds'
  <2>1. req[r].at = "deleteRow"
    BY <1>2 DEF Advances, Follows, Ends, FirstStatement, Private, Administration
  <2>2. DeleteUser(r)
    BY <1>0, <1>2, <2>1, Standing, Fails
  <2>3. ~Reply(r, "refused") /\ ~Reply(r, "error")
    BY <1>0, <1>2, ReplyReq DEF Answers
  <2>4. DeleteRow(req[r].target)
    BY <2>2, <2>3 DEF DeleteUser
  <2>5. users' = [i \in UserIds \ {req[r].target} |-> users[i]]
    BY <2>4 DEF DeleteRow, Restricted
  <2> QED
    BY <2>5 DEF UserIds
<1> QED
  BY <1>0, <1>1, <1>2

(***************************************************************************)
(* Administrators.                                                         *)
(***************************************************************************)
AdminsSame == UserIds' = UserIds /\ Admins' = Admins

\* Whoever moves, another request is as much an administrator's as before.
LEMMA AdminsOthers ==
  ASSUME NEW q \in Requests, AdminsSame, req'[q] = req[q], Administers(q)
  PROVE  Administers(q)'
BY DEF Administers, AdminsSame, Under, Resigns

\* The request under way stays the only one.
LEMMA OneStays ==
  ASSUME NEW r \in Requests, Advances(r), NEW p \in Requests, NEW q \in Requests,
         Under(p)', Under(q)', Under(p) /\ Under(q) => p = q
  PROVE  p = q
<1>1. \A x \in Requests : Under(x)' => Under(x)
  BY DEF Under, Advances, Others
<1> QED
  BY <1>1

\* Statements that change neither users nor who administers.
LEMMA PasswordSame ==
  ASSUME StoreTypes, NEW id \in UserIds, NEW v,
         \/ users' = [users EXCEPT ![id].password = v]
         \/ users' = [users EXCEPT ![id].email = v]
  PROVE  AdminsSame
<1>1. /\ UserIds' = UserIds
      /\ \A i \in UserIds : users'[i].admin = users[i].admin
  <2>1. users[id] \in UserRow
    BY DEF StoreTypes
  <2>2. CASE users' = [users EXCEPT ![id].password = v]
    <3>1. users' = [users EXCEPT ![id] = [users[id] EXCEPT !.password = v]]
      BY <2>2 DEF StoreTypes
    <3>2. [users[id] EXCEPT !.password = v].admin = users[id].admin
      BY <2>1 DEF UserRow
    <3> QED
      BY <3>1, <3>2 DEF StoreTypes, UserIds
  <2>3. CASE users' = [users EXCEPT ![id].email = v]
    <3>1. users' = [users EXCEPT ![id] = [users[id] EXCEPT !.email = v]]
      BY <2>3 DEF StoreTypes
    <3>2. [users[id] EXCEPT !.email = v].admin = users[id].admin
      BY <2>1 DEF UserRow
    <3> QED
      BY <3>1, <3>2 DEF StoreTypes, UserIds
  <2> QED
    BY <2>2, <2>3
<1> QED
  BY <1>1 DEF AdminsSame, Admins

LEMMA UsersUnchanged ==
  ASSUME users' = users PROVE AdminsSame
BY DEF AdminsSame, Admins, UserIds

LEMMA AdminsStep ==
  ASSUME StoreTypes, NEW r \in Requests, Handle(r)
  PROVE  AdminsSame \/ InsertUser(r) \/ DeleteUser(r) \/ SetAdmin(r)
<1>1. CASE users' = users
  BY <1>1, UsersUnchanged
<1>2. CASE UpdatePassword(r) \/ ResetByName(r)
  <2>1. users' = users \/ \E id \in UserIds : users' = [users EXCEPT ![id].password = req[r].new]
    BY <1>2 DEF UpdatePassword, ResetByName, SetPassword
  <2> QED
    BY <2>1, PasswordSame, UsersUnchanged
<1>3. CASE SetEmail(r)
  <2>1. users' = users \/ \E id \in UserIds : users' = [users EXCEPT ![id].email = req[r].flag]
    BY <1>3 DEF SetEmail
  <2> QED
    BY <2>1, PasswordSame, UsersUnchanged
<1> QED
  BY <1>1, <1>2, <1>3
     DEF Handle, Authenticate, LoadUser, Refresh, CountUsers, VerifyPassword, CreateSession,
         VerifyOld, RevokeOthers, FindReset, LookupForReset, StoreCode, UseResetCode, Logout,
         ListSessions, SaveConnection, DeleteSessions, DeleteOwned, CountAdmins, Fail, rows

\* The request's own step, when who administers stays the same.
LEMMA AdminsOwn ==
  ASSUME Types, NEW r \in Requests, AtHome(r), Administers(r), Handle(r), Advances(r), AdminsSame
  PROVE  Administers(r)'
<1>0. Typed /\ StoreTypes /\ req[r] \in Request /\ req'[r].kind = req[r].kind
  BY DEF Types, Typed, Advances
<1>1. ASSUME Under(r)', req'[r].at = "refresh", req'[r].admin
      PROVE  req'[r].user \in Admins'
  <2>1. req[r].at = "user"
    BY <1>1 DEF Advances, Follows, Ends, Answers, FirstStatement, Private, Administration
  <2>2. LoadUser(r)
    BY <1>0, <1>1, <2>1, Standing, Fails
  <2>3. req[r].user \in UserIds
    BY <1>0, <1>1, <2>2, ReplyReq DEF LoadUser, Answers
  <2>4. /\ users[req[r].user].admin \in BOOLEAN
        /\ users[req[r].user].name \in Names \cup {Address, ""}
    BY <1>0, <2>3 DEF StoreTypes, UserRow
  <2>5. PICK b \in BOOLEAN, n \in Names \cup {Address, ""} :
            /\ req' = [req EXCEPT ![r].at = "refresh", ![r].admin = b, ![r].name = n]
            /\ b = users[req[r].user].admin
    BY <2>2, <2>3, <2>4, Zenon DEF LoadUser
  <2>6. req'[r].admin = b /\ req'[r].user = req[r].user
    BY <1>0, <2>5, LoadReq
  <2> QED
    BY <1>1, <2>3, <2>5, <2>6 DEF AdminsSame, Admins
<1>2. ASSUME Under(r)', req'[r].at \in Statements
      PROVE  req'[r].user \in Admins'
  <2>1. req[r].at = "refresh" \/ req[r].at \in Statements
    BY <1>2 DEF Advances, Follows, Ends, Answers, Statements
  <2>2. CASE req[r].at = "refresh"
    <3>1. Refresh(r) \/ Fail(r)
      BY <2>2, Standing
    <3>2. CASE Fail(r)
      BY <1>0, <1>2, <2>2, <3>2, Fails
        DEF Statements, Under, RequireAdmin, Administers, AdminsSame, Answers
    <3>3. CASE Refresh(r)
      <4>1. ~Reply(r, "refused")
        BY <1>0, <1>2, ReplyReq DEF Answers, Statements
      <4>2. RequireAdmin(r) /\ Goto(r, FirstStatement(req[r].kind))
        BY <3>3, <4>1 DEF Refresh
      <4>3. FirstStatement(req[r].kind) \in Places
        BY <1>0, <2>2, FollowsHome DEF Follows, AtHome
      <4>4. req'[r].user = req[r].user
        BY <1>0, <4>2, <4>3, GotoReq
      <4> QED
        BY <1>0, <1>2, <2>2, <4>2, <4>4 DEF Under, RequireAdmin, Administers, AdminsSame, Answers
    <3> QED
      BY <3>1, <3>2, <3>3
  <2>3. CASE req[r].at \in Statements
    <3>1. req'[r].at \in {"deleteOwned", "deleteRow", "setAdmin"}
      BY <1>2, <2>3 DEF Advances, Follows, Ends, Answers, Statements
    <3>2. ~Fail(r)
      BY <1>0, <2>3, <3>1, Fails DEF Statements
    <3>3. DeleteSessions(r) \/ DeleteOwned(r) \/ DeleteUser(r) \/ CountAdmins(r) \/ SetAdmin(r)
      BY <2>3, <3>2, Standing DEF Statements
    <3>4. \A a \in Answers : ~Reply(r, a)
      BY <1>0, <3>1, ReplyReq DEF Answers
    <3>5. \E s \in Places : Goto(r, s)
      BY <3>3, <3>4
        DEF DeleteSessions, DeleteOwned, DeleteUser, CountAdmins, SetAdmin, Answers, Places
    <3>6. req'[r].user = req[r].user
      BY <1>0, <3>5, GotoReq
    <3>7. Under(r)
      BY <1>0, <1>2, <2>3 DEF Under, Statements, Answers
    <3> QED
      BY <2>3, <3>6, <3>7 DEF Administers, AdminsSame
  <2> QED
    BY <2>1, <2>2, <2>3
<1>3. ASSUME req'[r].at \in {"deleteOwned", "deleteRow"}
      PROVE  req'[r].target # req'[r].user
  <2>1. req[r].at \in {"deleteSessions", "deleteOwned"}
    BY <1>3 DEF Advances, Follows, Ends, Answers, FirstStatement, Private, Administration
  <2>2. DeleteSessions(r) \/ DeleteOwned(r)
    BY <1>0, <1>3, <2>1, Standing, Fails
  <2>3. ~Reply(r, "refused")
    BY <1>0, <1>3, ReplyReq DEF Answers
  <2>4. \E s \in Places : Goto(r, s)
    BY <2>2, <2>3 DEF DeleteSessions, DeleteOwned, Places
  <2>5. req'[r].target = req[r].target /\ req'[r].user = req[r].user
    BY <1>0, <2>4, GotoReq DEF Keeps
  <2>6. CASE DeleteSessions(r)
    BY <2>3, <2>5, <2>6 DEF DeleteSessions
  <2>7. CASE DeleteOwned(r)
    BY <2>5, <2>7 DEF DeleteOwned, Administers
  <2> QED
    BY <2>2, <2>6, <2>7
<1>4. ASSUME req'[r].at = "setAdmin", Resigns(r)'
      PROVE  Admins' # {req'[r].user}
  <2>1. req[r].at = "countAdmins"
    BY <1>4 DEF Advances, Follows, Ends, Answers, FirstStatement, Private, Administration
  <2>2. CountAdmins(r)
    BY <1>0, <1>4, <2>1, Standing, Fails
  <2>3. ~Reply(r, "refused")
    BY <1>0, <1>4, ReplyReq DEF Answers
  <2>4. Goto(r, "setAdmin") /\ ~(Resigns(r) /\ LastAdmin)
    BY <2>2, <2>3 DEF CountAdmins
  <2>5. req'[r].user = req[r].user /\ Keeps(r)
    BY <1>0, <2>4, GotoReq DEF Places
  <2>6. ~LastAdmin
    BY <1>4, <2>4, <2>5 DEF Resigns, Keeps
  <2>7. Admins # {req[r].user}
    BY <2>6, FS_Singleton DEF LastAdmin
  <2> QED
    BY <2>5, <2>7 DEF AdminsSame
<1>5. ASSUME req'[r].at = "insert", ~req'[r].admin
      PROVE  UserIds' # {}
  <2>1. req[r].at = "count"
    BY <1>5 DEF Advances, Follows, Ends, Answers, FirstStatement, Private, Administration
  <2>2. CountUsers(r)
    BY <1>0, <1>5, <2>1, Standing, Fails
  <2>3. PICK b \in BOOLEAN : /\ req' = [req EXCEPT ![r].at = "insert", ![r].admin = b]
                             /\ b = TRUE \/ b = NoUsers
    BY <2>2 DEF CountUsers, NoUsers
  <2>4. req'[r].admin = b
    BY <1>0, <2>3, CountReq
  <2> QED
    BY <1>5, <2>3, <2>4 DEF NoUsers, AdminsSame
<1> QED
  BY <1>1, <1>2, <1>3, <1>4, <1>5 DEF Administers

LEMMA OneStart ==
  ASSUME OneAtATime, NEW r \in Requests, Arrived(r), overlap \in BOOLEAN
  PROVE  OneAtATime'
<1> SUFFICES ASSUME ~overlap' PROVE /\ UserIds' # {} => Admins' # {}
                                    /\ \A p, q \in Requests : Under(p)' /\ Under(q)' => p = q
                                    /\ \A q \in Requests : Administers(q)'
  BY DEF OneAtATime
<1>1. ~overlap /\ ~(req'[r].kind \in Administration /\ InFlight(Administration))
  BY DEF Arrived
<1>2. AdminsSame
  BY UsersUnchanged DEF Arrived
<1>3. \A q \in Requests \ {r} : req'[q] = req[q] /\ Under(q)' = Under(q)
  BY DEF Arrived, Others, Under
<1>4. Under(r)' => \A q \in Requests : ~Under(q)
  BY <1>1 DEF Under, InFlight
<1>5. Administers(r)'
  BY DEF Administers, Arrived, Statements
<1>6. \A p, q \in Requests : Under(p)' /\ Under(q)' => p = q
  BY <1>1, <1>3, <1>4 DEF OneAtATime
<1>7. \A q \in Requests : Administers(q)'
  BY <1>1, <1>2, <1>3, <1>5, AdminsOthers DEF OneAtATime
<1> QED
  BY <1>1, <1>2, <1>6, <1>7 DEF OneAtATime, AdminsSame

LEMMA OneHandle ==
  ASSUME Types, Keys, OneAtATime, NEW r \in Requests, \A q \in Requests : AtHome(q), Handle(r), Advances(r)
  PROVE  OneAtATime'
<1> SUFFICES ASSUME ~overlap' PROVE /\ UserIds' # {} => Admins' # {}
                                    /\ \A p, q \in Requests : Under(p)' /\ Under(q)' => p = q
                                    /\ \A q \in Requests : Administers(q)'
  BY DEF OneAtATime
<1>0. /\ ~overlap /\ StoreTypes /\ Typed /\ req[r] \in Request
      /\ UserIds # {} => Admins # {}
      /\ \A q \in Requests : Administers(q)
      /\ \A q \in Requests \ {r} : req'[q] = req[q]
  BY DEF Advances, OneAtATime, Types, Typed, Others
<1>1. \A p, q \in Requests : Under(p)' /\ Under(q)' => p = q
  BY <1>0, OneStays DEF OneAtATime
<1>2. CASE AdminsSame
  <2>1. Administers(r)'
    BY <1>0, <1>2, AdminsOwn
  <2>2. \A q \in Requests \ {r} : Administers(q)'
    BY <1>0, <1>2, AdminsOthers
  <2> QED
    BY <1>0, <1>1, <1>2, <2>1, <2>2 DEF AdminsSame
<1>3. CASE InsertUser(r) /\ ~AdminsSame
  <2>1. /\ req[r].at = "insert" /\ Named(req[r].name) = {} /\ GotoWith(r, "open", nextId)
        /\ users' = With(users, nextId, [name |-> req[r].name, password |-> req[r].password,
                                         admin |-> req[r].admin, email |-> FALSE])
    BY <1>3, UsersUnchanged DEF InsertUser
  <2>2. req'[r].at = "open"
    BY <1>0, <2>1, GotoWithReq DEF Places, StoreTypes
  <2>3. nextId \notin UserIds
    BY <1>0 DEF Keys, StoreTypes, Domains
  <2>4. /\ UserIds' = UserIds \cup {nextId} /\ users'[nextId].admin = req[r].admin
        /\ \A i \in UserIds : users'[i] = users[i]
    BY <2>1, <2>3 DEF With, UserIds
  <2>5. Admins \subseteq Admins' /\ (req[r].admin => nextId \in Admins')
    BY <2>4 DEF Admins
  <2>6. Admins' # {}
    BY <1>0, <2>1, <2>5 DEF Administers
  <2>7. Administers(r)'
    BY <2>2 DEF Administers, Statements
  <2>8. ASSUME NEW q \in Requests \ {r} PROVE Administers(q)'
    <3>1. Administers(q) /\ req'[q] = req[q] /\ AtHome(q)
      BY <1>0, <2>8
    <3>2. req[q].at = "setAdmin" => req[q].user \in Admins
      BY <3>1 DEF Administers, Under, AtHome, Administration, Statements, Answers
    <3> QED
      BY <2>4, <2>5, <3>1, <3>2 DEF Administers, Under, Resigns
  <2> QED
    BY <1>1, <2>6, <2>7, <2>8
<1>4. CASE (DeleteUser(r) \/ SetAdmin(r)) /\ ~AdminsSame
  <2>0. req[r].at \in {"deleteRow", "setAdmin"}
    BY <1>4 DEF DeleteUser, SetAdmin
  <2>1. Under(r) /\ req[r].user \in Admins
    BY <1>0, <2>0 DEF Administers, Under, AtHome, Administration, Statements, Answers
  <2>2. PICK id : id \in Admins'
    <3>1. CASE DeleteUser(r)
      <4>1. DeleteRow(req[r].target) /\ req[r].at = "deleteRow"
        BY <1>4, <3>1, UsersUnchanged DEF DeleteUser
      <4>2. req[r].target # req[r].user
        BY <1>0, <4>1 DEF Administers
      <4>3. users' = [i \in UserIds \ {req[r].target} |-> users[i]]
        BY <4>1 DEF DeleteRow, Restricted
      <4>4. req[r].user \in Admins'
        BY <2>1, <4>2, <4>3 DEF Admins, UserIds
      <4> QED
        BY <4>4
    <3>2. CASE SetAdmin(r)
      <4>1. /\ req[r].at = "setAdmin" /\ req[r].target \in UserIds
            /\ users' = [users EXCEPT ![req[r].target].admin = req[r].flag]
        BY <1>4, <3>2, UsersUnchanged DEF SetAdmin
      <4>2. req[r].target = req[r].user /\ ~req[r].flag => Admins # {req[r].user}
        BY <1>0, <4>1 DEF Administers, Resigns
      <4>3. users[req[r].target] \in UserRow
        BY <1>0, <4>1 DEF StoreTypes
      <4>4. /\ UserIds' = UserIds
            /\ users'[req[r].target].admin = req[r].flag
            /\ \A i \in UserIds \ {req[r].target} : users'[i] = users[i]
        BY <1>0, <4>1, <4>3 DEF StoreTypes, UserIds, UserRow
      <4>5. CASE req[r].flag
        BY <4>1, <4>4, <4>5 DEF Admins
      <4>6. CASE ~req[r].flag
        <5>1. PICK id \in Admins : id # req[r].target
          BY <2>1, <4>2, <4>6
        <5> QED
          BY <4>4, <5>1 DEF Admins
      <4> QED
        BY <4>5, <4>6
    <3> QED
      BY <1>4, <3>1, <3>2
  <2>3. Admins' # {} /\ UserIds' # {}
    BY <2>2 DEF Admins
  <2>4. \E a \in Answers : Reply(r, a)
    BY <1>4 DEF DeleteUser, SetAdmin, Answers
  <2>5. req'[r].at \in Answers
    BY <1>0, <2>4, ReplyReq
  <2>6. Administers(r)'
    BY <2>5 DEF Administers, Under, Statements, Answers
  <2>7. ASSUME NEW q \in Requests \ {r} PROVE Administers(q)'
    <3>1. ~Under(q) /\ req'[q] = req[q] /\ AtHome(q)
      BY <1>0, <2>1, <2>7 DEF OneAtATime
    <3>2. req[q].at \notin {"deleteOwned", "deleteRow", "setAdmin"}
      BY <3>1 DEF Under, AtHome, Administration, Answers
    <3> QED
      BY <2>3, <3>1, <3>2 DEF Administers, Under
  <2> QED
    BY <1>1, <2>3, <2>6, <2>7
<1> QED
  BY <1>0, <1>2, <1>3, <1>4, AdminsStep

(***************************************************************************)
(* The invariant.                                                          *)
(***************************************************************************)
\* The new part of a step's types.
LEMMA TypesStep ==
  ASSUME NEW R, R \subseteq Requests, RowsMove(R), StoreTypes, CodeTypes', Typed',
         standing' \in [Requests -> SUBSET Tokens], overlap' \in BOOLEAN
  PROVE  Types'
<1>1. DOMAIN sessions' \subseteq Tokens
  BY DEF RowsMove, StoreTypes, Domains, Tokens
<1>2. Domains'
  BY <1>1 DEF Domains, RowsMove, CodeTypes
<1>3. 0 < nextId'
  BY DEF RowsMove, StoreTypes
<1> QED
  BY <1>2, <1>3 DEF Types, StoreTypes, RowsMove, CodeTypes, Typed

LEMMA RowTyped ==
  ASSUME NEW n \in Names, NEW p \in Passwords, NEW b \in BOOLEAN, NEW d \in BOOLEAN
  PROVE  [name |-> n, password |-> p, admin |-> b, email |-> d] \in UserRow
BY DEF UserRow

LEMMA FirstRow ==
  ASSUME NEW i, NEW A, NEW n \in Names, NEW p \in Passwords, NEW x,
         x = [name |-> n, password |-> p, admin |-> i \in A, email |-> i \notin A]
  PROVE  x \in UserRow /\ x.name = n /\ (i \in A => x.admin)
<1>1. x \in UserRow
  <2>1. CASE i \in A
    <3>1. (i \in A) = TRUE /\ (i \notin A) = FALSE
      BY <2>1
    <3>2. x = [name |-> n, password |-> p, admin |-> TRUE, email |-> FALSE]
      BY <3>1, Zenon
    <3> QED
      BY <3>2, RowTyped
  <2>2. CASE i \notin A
    <3>1. (i \in A) = FALSE /\ (i \notin A) = TRUE
      BY <2>2
    <3>2. x = [name |-> n, password |-> p, admin |-> FALSE, email |-> TRUE]
      BY <3>1, Zenon
    <3> QED
      BY <3>2, RowTyped
  <2> QED
    BY <2>1, <2>2
<1>2. x.name = n
  OBVIOUS
<1>3. i \in A => x.admin
  OBVIOUS
<1> QED
  BY <1>1, <1>2, <1>3

LEMMA AInvInit == Init => AInv
<1> SUFFICES ASSUME Init PROVE AInv
  OBVIOUS
<1>0. NoRequest \in Request /\ NoRequest.at = "idle" /\ NoRequest.kind = "none"
  BY DEF NoRequest, Request, Kinds, Places
<1>1. /\ req = [r \in Requests |-> NoRequest] /\ standing = [r \in Requests |-> {}]
      /\ spent = [c \in DOMAIN codes |-> 0] /\ overlap = FALSE
  BY DEF Init
<1>2. Typed /\ \A r \in Requests : req[r] = NoRequest /\ standing[r] = {}
  BY <1>0, <1>1 DEF Typed
<1>3. /\ \A r \in Requests : AtHome(r) /\ Ending(r) /\ Deleting(r) /\ ~Under(r) /\ Administers(r)
      /\ standing \in [Requests -> SUBSET Tokens]
  BY <1>0, <1>1, <1>2
    DEF AtHome, Ending, Deleting, Under, Administers, Left, Statements, Administration,
                          Answers, Setting, Private
<1>4. StoreTypes /\ Keys /\ (UserIds # {} => Admins # {}) /\ \A t \in DOMAIN sessions : t \in OldTokens
  <2>1. CASE users = <<>> /\ sessions = <<>> /\ owned = {} /\ nextId = 1 /\ codes = <<>>
    <3>1. UserIds = {} /\ DOMAIN sessions = {} /\ DOMAIN codes = {}
      BY <2>1 DEF UserIds
    <3>2. IsFiniteSet(DOMAIN codes)
      BY <3>1, FS_EmptySet
    <3>3. /\ users \in [UserIds -> UserRow]
          /\ sessions \in [DOMAIN sessions -> [user : Nat, live : BOOLEAN]]
          /\ codes \in [DOMAIN codes -> [user : Nat, used : BOOLEAN, expired : BOOLEAN]]
      BY <2>1, <3>1
    <3> QED
      BY <2>1, <3>1, <3>2, <3>3 DEF StoreTypes, Domains, Keys
  <2>2. CASE ~(users = <<>> /\ sessions = <<>> /\ owned = {} /\ nextId = 1 /\ codes = <<>>)
    <3>1. PICK home \in Injections(OldTokens, OldIds), name \in Injections(OldIds, Names),
               p \in Passwords, A \in (SUBSET OldIds) \ {{}} :
          /\ users = [i \in OldIds |-> [name |-> name[i], password |-> p,
                                        admin |-> i \in A, email |-> i \notin A]]
          /\ sessions = [t \in OldTokens |-> [user |-> home[t], live |-> TRUE]]
          /\ owned = OldIds
          /\ nextId = Cardinality(OldTokens) + 1
          /\ codes = [c \in {i \in {1} : mailer /\ OldIds \ A # {}} |->
                        [user |-> CHOOSE i \in OldIds : i \notin A, used |-> FALSE, expired |-> FALSE]]
      BY <2>2, Zenon DEF Init
    <3>2. Cardinality(OldTokens) \in Nat
      BY AccountsAssumption, FS_CardinalityType
    <3>3. PICK n \in Nat : n = Cardinality(OldTokens)
      BY <3>2
    <3>4. OldIds = 1..n /\ nextId = n + 1
      BY <3>1, <3>3 DEF OldIds
    <3>5. /\ UserIds = 1..n /\ DOMAIN sessions = OldTokens /\ owned = UserIds
      BY <3>1, <3>4 DEF UserIds
    <3>6. /\ name \in [1..n -> Names] /\ \A i, j \in 1..n : name[i] = name[j] => i = j
          /\ home \in [OldTokens -> 1..n]
      BY <3>1, <3>4 DEF Injections
    <3>7. \A i \in UserIds : users[i] \in UserRow /\ users[i].name = name[i] /\ (i \in A => users[i].admin)
      <4> SUFFICES ASSUME NEW i \in UserIds
                   PROVE  users[i] \in UserRow /\ users[i].name = name[i] /\ (i \in A => users[i].admin)
        OBVIOUS
      <4>1. users[i] = [name |-> name[i], password |-> p, admin |-> i \in A, email |-> i \notin A]
        BY <3>1, <3>4, <3>5
      <4>2. name[i] \in Names
        BY <3>5, <3>6
      <4> QED
        BY <4>1, <4>2, FirstRow
    <3>18. users \in [UserIds -> UserRow]
      BY <3>1, <3>4, <3>5, <3>7
    <3>8. \A t \in DOMAIN sessions : sessions[t].user \in 1..n /\ sessions[t] \in [user : Nat, live : BOOLEAN]
      BY <3>1, <3>5, <3>6
    <3>9. sessions \in [DOMAIN sessions -> [user : Nat, live : BOOLEAN]]
      BY <3>1, <3>5, <3>8
    <3>10. PICK C \in {{}, {1}} : C = {i \in {1} : mailer /\ OldIds \ A # {}}
      OBVIOUS
    <3>11. C # {} => (CHOOSE i \in OldIds : i \notin A) \in Nat
      BY <3>4, <3>10
    <3>12. /\ DOMAIN codes = C
           /\ codes \in [C -> [user : Nat, used : BOOLEAN, expired : BOOLEAN]]
      BY <3>1, <3>10, <3>11
    <3>13. IsFiniteSet(C)
      <4>1. CASE C = {}
        BY <4>1, FS_EmptySet
      <4>2. CASE C = {1}
        BY <4>2, FS_Singleton
      <4> QED
        BY <3>10, <4>1, <4>2
    <3>14. Keys
      <4>1. \A i \in UserIds : i < nextId
        BY <3>4, <3>5
      <4>2. \A i, j \in UserIds : users[i].name = users[j].name => i = j
        BY <3>5, <3>6, <3>7
      <4> QED
        BY <3>5, <3>8, <4>1, <4>2 DEF Keys
    <3>15. StoreTypes
      BY <3>4, <3>5, <3>18, <3>9, <3>10, <3>12, <3>13 DEF StoreTypes, Domains, Tokens
    <3>16. PICK i \in A : i \in UserIds
      BY <3>1, <3>4, <3>5
    <3>17. i \in Admins
      BY <3>7, <3>16 DEF Admins
    <3> QED
      BY <3>5, <3>14, <3>15, <3>17
  <2> QED
    BY <2>1, <2>2
<1>5. CodesSpent
  BY <1>1, <1>4 DEF CodesSpent
<1>6. TokensOpened
  BY <1>2, <1>4 DEF TokensOpened, Opened
<1> QED
  BY <1>1, <1>2, <1>3, <1>4, <1>5, <1>6 DEF AInv, Types, Typed, OneAtATime

LEMMA AInvNext == AInv /\ [Next]_vars => AInv'
<1> SUFFICES ASSUME AInv, [Next]_vars PROVE AInv'
  OBVIOUS
<1>0. /\ Types /\ Keys /\ CodesSpent /\ TokensOpened /\ OneAtATime /\ StoreTypes /\ Typed /\ Domains
      /\ \A r \in Requests : AtHome(r) /\ Ending(r) /\ Deleting(r)
      /\ standing \in [Requests -> SUBSET Tokens] /\ overlap \in BOOLEAN
  BY DEF AInv, Types, StoreTypes, Typed
<1>1. ASSUME NEW r \in Requests, Start(r) PROVE AInv'
  <2>1. Arrived(r)
    BY <1>0, <1>1, Starts
  <2>2. /\ users' = users /\ nextId' = nextId /\ sessions' = sessions /\ owned' = owned
        /\ UNCHANGED <<codes, spent>> /\ standing' = standing
    BY <2>1 DEF Arrived
  <2>3. RowsMove({})
    <3>1. UsersKept /\ SessionsKept /\ owned' \subseteq UserIds
      BY <1>0, <2>2, UsersSame, SessionsSame DEF Keys
    <3> QED
      BY <1>0, <2>2, <3>1, CalmMoves
  <2>4. CodeTypes'
    BY <1>0, <2>2, CodesStep
  <2>5. Typed' /\ AtHome(r)' /\ \A q \in Requests \ {r} : req'[q] = req[q]
    BY <2>1 DEF Arrived, Others
  <2>6. Types'
    BY <1>0, <2>1, <2>2, <2>3, <2>4, <2>5, TypesStep DEF Arrived
  <2>7. OneAtATime'
    BY <1>0, <2>1, OneStart
  <2>8. \A t : Opened(t) => Opened(t)'
    BY <2>1 DEF Opened, Arrived, Others
  <2>9. TokensOpened'
    BY <1>0, <2>2, <2>8 DEF TokensOpened
  <2>10. Ending(r)' /\ Deleting(r)'
    <3>1. req'[r].at \in {"count", "verify", "reset", "lookup", "session"}
          /\ (req'[r].kind = "deleteUser" => req'[r].target \in UserIds \cup {0})
      BY <2>1 DEF Arrived
    <3>2. req'[r].kind = "deleteUser" => req'[r].target < nextId'
      BY <1>0, <2>2, <3>1 DEF Keys, StoreTypes
    <3> QED
      BY <3>1, <3>2 DEF Ending, Deleting
  <2>11. ASSUME NEW q \in Requests \ {r} PROVE AtHome(q)' /\ Ending(q)' /\ Deleting(q)'
    <3>1. AtHome(q)' /\ req'[q] = req[q] /\ standing'[q] = standing[q]
      BY <1>0, <2>2, <2>5, <2>11 DEF AtHome
    <3>2. Ending(q)'
      BY <1>0, <2>3, <3>1, EndingOthers
    <3> QED
      BY <1>0, <2>3, <3>1, <3>2, DeletingOthers
  <2> QED
    BY <2>3, <2>4, <2>5, <2>6, <2>7, <2>9, <2>10, <2>11 DEF AInv, RowsMove, CodeTypes
<1>2. ASSUME NEW r \in Requests, Handle(r) PROVE AInv'
  <2>1. Advances(r)
    BY <1>0, <1>2, Handles
  <2>2. RowsMove({r})
    BY <1>0, <1>2, HandleMoves
  <2>3. StandingMoves(r)
    BY <1>0, <1>2, StandingStep
  <2>4. CodeTypes'
    BY <1>0, <1>2, CodesStep
  <2>5. Typed' /\ AtHome(r)' /\ overlap' = overlap /\ \A q \in Requests \ {r} : req'[q] = req[q]
    BY <2>1 DEF Advances, Others
  <2>6. Types'
    BY <1>0, <2>2, <2>3, <2>4, <2>5, TypesStep DEF StandingMoves
  <2>7. OneAtATime'
    BY <1>0, <1>2, <2>1, OneHandle
  <2>8. TokensOpened'
    BY <1>0, <2>1, <2>2, <2>3, TokensStep
  <2>9. Ending(r)' /\ Deleting(r)'
    BY <1>0, <1>2, <2>1, <2>2, <2>3, EndingOwn, DeletingOwn
  <2>10. ASSUME NEW q \in Requests \ {r} PROVE AtHome(q)' /\ Ending(q)' /\ Deleting(q)'
    <3>1. AtHome(q)' /\ req'[q] = req[q] /\ standing'[q] = standing[q]
      BY <1>0, <2>3, <2>5, <2>10 DEF AtHome, StandingMoves
    <3>2. Ending(q)'
      BY <1>0, <2>2, <3>1, EndingOthers
    <3> QED
      BY <1>0, <2>2, <3>1, <3>2, DeletingOthers
  <2> QED
    BY <2>2, <2>4, <2>5, <2>6, <2>7, <2>8, <2>9, <2>10 DEF AInv, RowsMove, CodeTypes
<1>3. CASE Expires \/ UNCHANGED vars
  <2>1. RowsMove({}) /\ req' = req /\ users' = users /\ overlap' = overlap /\ standing' = standing
    <3>1. CASE Expires
      BY <1>0, <3>1, ExpiryMoves
    <3>2. CASE UNCHANGED vars
      <4>1. /\ users' = users /\ nextId' = nextId /\ sessions' = sessions /\ owned' = owned
            /\ req' = req /\ overlap' = overlap /\ standing' = standing
        BY <3>2 DEF vars, rows, ghost
      <4>2. UsersKept /\ SessionsKept /\ owned' \subseteq UserIds
        BY <1>0, <4>1, UsersSame, SessionsSame DEF Keys
      <4> QED
        BY <1>0, <4>1, <4>2, CalmMoves
    <3> QED
      BY <1>3, <3>1, <3>2
  <2>2. CodeTypes'
    BY <1>0, <1>3, CodesStep DEF vars, rows, ghost
  <2>3. Typed'
    BY <1>0, <2>1 DEF Typed
  <2>4. Types'
    BY <1>0, <2>1, <2>2, <2>3, TypesStep
  <2>5. \A q \in Requests : AtHome(q)' /\ Ending(q)' /\ Deleting(q)'
    <3> SUFFICES ASSUME NEW q \in Requests PROVE AtHome(q)' /\ Ending(q)' /\ Deleting(q)'
      OBVIOUS
    <3>1. AtHome(q)' /\ req'[q] = req[q] /\ standing'[q] = standing[q]
      BY <1>0, <2>1 DEF AtHome
    <3>2. Ending(q)'
      BY <1>0, <2>1, <3>1, EndingOthers
    <3> QED
      BY <1>0, <2>1, <3>1, <3>2, DeletingOthers
  <2>6. TokensOpened'
    BY <1>0, <2>1 DEF TokensOpened, RowsMove, Opened
  <2>7. OneAtATime'
    <3>1. AdminsSame
      BY <2>1, UsersUnchanged
    <3>2. \A q \in Requests : Administers(q) => Administers(q)'
      BY <2>1, <3>1, AdminsOthers
    <3>3. \A q \in Requests : Under(q)' = Under(q)
      BY <2>1 DEF Under
    <3> QED
      BY <1>0, <2>1, <3>1, <3>2, <3>3 DEF OneAtATime, AdminsSame
  <2> QED
    BY <2>1, <2>2, <2>4, <2>5, <2>6, <2>7 DEF AInv, RowsMove, CodeTypes
<1>4. Next \/ UNCHANGED vars
  OBVIOUS
<1> QED
  BY <1>1, <1>2, <1>3, <1>4 DEF Next, Expires

(***************************************************************************)
(* The theorems.                                                           *)
(***************************************************************************)
\* The inductive invariant holds: rows and requests are well typed, a request
\* stands at a statement of its own handler, keys are unique and foreign keys
\* hold, a code that opened a reset is used, what is left of the sessions that
\* were open when a password was set belongs to its user, and so on.
THEOREM AccountsInvariance == Spec => []AInv
<1> QED
  BY AInvInit, AInvNext, PTL DEF Spec

\* A reset code opens at most one reset (store/resetcode.go, UseResetCode).
THEOREM CodeSafety == Spec => []CodeOpensOnce
<1>1. AInv => CodeOpensOnce
  BY DEF AInv, CodesSpent, CodeOpensOnce
<1> QED
  BY <1>1, AccountsInvariance, PTL

\* After a change or a reset of a password no session opened before is left,
\* but the one that asked for the change (api/auth.go, revokeOtherSessions).
THEOREM SessionSafety == Spec => []OldSessionsEnd
<1>1. AInv => OldSessionsEnd
  BY DEF AInv, OldSessionsEnd, Ending, Left, Setting
<1> QED
  BY <1>1, AccountsInvariance, PTL

\* After a deletion nothing of the user is left, and nothing comes back
\* (store/users.go, DeleteUser, and the foreign keys).
THEOREM DeletionSafety == Spec => []DeletedIsGone
<1>1. AInv => DeletedIsGone
  BY DEF AInv, DeletedIsGone, Deleting, Keys, SessionsOf
<1> QED
  BY <1>1, AccountsInvariance, PTL

\* Somebody administers the server while there are accounts, unless requests of
\* administrators overlapped (api/admin.go, store/users.go).
THEOREM AdminSafety == Spec => []AdminRemains
<1>1. AInv => AdminRemains
  BY DEF AInv, OneAtATime, AdminRemains
<1> QED
  BY <1>1, AccountsInvariance, PTL

-----------------------------------------------------------------------------
(***************************************************************************)
(* Subscriptions: the refresh token of the user's row is one that the      *)
(* provider still takes, if the provider replaces refresh tokens always or *)
(* never.                                                                  *)
(***************************************************************************)
Token   == [grant : Nat, n : Nat]
Columns == [access : Token, refresh : Token, expiry : Token]
ChatPlaces  == {"read", "refresh", "store", "pick", "open"}
TokensTypeOK ==
  /\ rotation \in {"always", "never"} /\ lost \in BOOLEAN
  /\ row \in Columns /\ settings \in Columns
  /\ grants \in Seq([access : Nat, refresh : Nat])
  /\ chat \in [Chats -> [at : ChatPlaces, read : Columns, given : Columns, token : Token]]

\* A refresh token that the provider has given for one of its grants.
Issued(t) == t.grant \in DOMAIN grants /\ t.n \in 1..grants[t.grant].refresh

\* Chats that hold a refresh token of g, and those that have the answer to it.
Uses(c, g)   == chat[c].at \in {"refresh", "store"} /\ chat[c].read.refresh.grant = g
Stores(c, g) == chat[c].at = "store" /\ chat[c].read.refresh.grant = g

\* Whatever is kept or used has been issued; a provider that never replaces
\* refresh tokens has issued one for each grant.
AllIssued ==
  /\ row.refresh # NoToken => Issued(row.refresh)
  /\ \A c \in Chats : chat[c].at \in {"refresh", "store"} => Issued(chat[c].read.refresh)
  /\ rotation = "never" => \A g \in DOMAIN grants : grants[g].refresh = 1

\* The tokens that the settings page holds are those of the newest grant, which
\* nobody else knows of.
NewGrant ==
  settings # Empty =>
    LET g == Len(grants)
    IN /\ g \in DOMAIN grants /\ grants[g].refresh = 1
       /\ settings.refresh = [grant |-> g, n |-> 1]
       /\ row.refresh.grant # g /\ \A c \in Chats : ~Uses(c, g)

\* An answer that is not yet stored holds the newest refresh token, or none if
\* the old one stays.
Given(c) == chat[c].at = "store" =>
  chat[c].given.refresh =
    IF rotation = "never" THEN NoToken
    ELSE LET g == chat[c].read.refresh.grant IN [grant |-> g, n |-> grants[g].refresh]

\* Until then nobody else has that token.
Alone(c) == rotation = "always" => \A g \in DOMAIN grants : Stores(c, g) =>
  /\ row.refresh.grant = g => row.refresh.n < grants[g].refresh
  /\ \A d \in Chats : Uses(d, g) /\ d # c =>
       chat[d].at = "refresh" /\ chat[d].read.refresh.n < grants[g].refresh

\* A refresh token of the row that is dead is about to be overwritten.
Replaced ==
  rotation = "always" /\ ~lost /\ row.refresh # NoToken /\ ~Live(row.refresh) =>
    \E c \in Chats : Stores(c, row.refresh.grant)

TokensInv == /\ TokensTypeOK /\ AllIssued /\ NewGrant /\ Replaced
             /\ \A c \in Chats : Given(c) /\ Alone(c)

(***************************************************************************)
(* The proof is for providers that replace the refresh token with every    *)
(* refresh, or never. With one that does it now and then, of two chats that *)
(* refresh at once one can store the token it read over the other's answer. *)
(***************************************************************************)
Consistent == "sometimes" \notin Rotations

LEMMA GrantTyped ==
  ASSUME TokensTypeOK
  PROVE  /\ Len(grants) \in Nat /\ DOMAIN grants = 1..Len(grants)
         /\ \A g \in DOMAIN grants : grants[g] \in [access : Nat, refresh : Nat]
  BY ElementOfSeq, LenProperties DEF TokensTypeOK

LEMMA TokensInitial ==
  ASSUME Consistent, TokensInit
  PROVE  TokensInv
<1>1. TokensTypeOK
  <2>1. Empty \in Columns /\ NoToken \in Token
    BY DEF Columns, Token, Empty, NoToken
  <2>2. NoSession \in [at : ChatPlaces, read : Columns, given : Columns, token : Token]
    BY <2>1 DEF NoSession, ChatPlaces
  <2>3. rotation \in {"always", "never"}
    BY TokensAssumption DEF TokensInit, Consistent, Parameters
  <2>4. grants \in Seq([access : Nat, refresh : Nat])
    BY DEF TokensInit
  <2> QED  BY <2>1, <2>2, <2>3, <2>4 DEF TokensInit, TokensTypeOK
<1>2. \A c \in Chats : chat[c].at = "read"
  BY DEF TokensInit, NoSession
<1>3. row.refresh = NoToken /\ settings = Empty /\ DOMAIN grants = {}
  BY DEF TokensInit, Empty
<1>4. AllIssued /\ NewGrant /\ Replaced /\ \A c \in Chats : Given(c) /\ Alone(c)
  BY <1>2, <1>3 DEF AllIssued, NewGrant, Replaced, Given, Alone
<1> QED  BY <1>1, <1>4 DEF TokensInv

\* What is kept when no token is issued, stored or put to use.
Idle(c) == chat[c].at \notin {"refresh", "store"}
Rests == \A c \in Chats :
  \/ chat'[c] = chat[c]
  \/ Idle(c)' /\ chat[c].at # "store"
  \/ Idle(c)' /\ lost'

LEMMA ChatRests ==
  ASSUME TokensInv, TokensTypeOK', UNCHANGED <<rotation, grants>>, Rests, lost => lost',
         row' = row \/ (row'.refresh = NoToken) \/ (row'.refresh = row.refresh),
         settings' = settings
  PROVE  TokensInv'
<1>1. AllIssued'  BY DEF TokensInv, AllIssued, Issued, Rests, Idle
<1>2. ASSUME NEW c \in Chats, NEW g  PROVE (Uses(c, g)' => Uses(c, g)) /\ (Stores(c, g)' => Stores(c, g))
  BY DEF Rests, Idle, Uses, Stores
<1>3. row'.refresh = NoToken \/ row'.refresh = row.refresh
  OBVIOUS
<1>4. \A g \in DOMAIN grants : row'.refresh.grant = g => row'.refresh = row.refresh
  BY <1>3 DEF NoToken, TokensInv, TokensTypeOK
<1>5. NewGrant'  BY <1>2, <1>4 DEF TokensInv, NewGrant
<1>6. Replaced'
  BY <1>3 DEF TokensInv, Replaced, Rests, Idle, Stores, Live
<1>7. ASSUME NEW c \in Chats  PROVE Given(c)' /\ Alone(c)'
  <2>1. Given(c)'  BY DEF TokensInv, Given, Rests, Idle
  <2>2. Alone(c)'
    <3> SUFFICES ASSUME rotation = "always", NEW g \in DOMAIN grants, Stores(c, g)'
                 PROVE  /\ row'.refresh.grant = g => row'.refresh.n < grants[g].refresh
                        /\ \A d \in Chats : Uses(d, g)' /\ d # c =>
                             chat'[d].at = "refresh" /\ chat'[d].read.refresh.n < grants[g].refresh
      BY DEF Alone
    <3>1. Stores(c, g) /\ Alone(c)  BY <1>2 DEF TokensInv
    <3>2. \A d \in Chats : Uses(d, g)' => chat'[d] = chat[d] /\ Uses(d, g)
      BY DEF Rests, Idle, Uses
    <3> QED  BY <1>4, <3>1, <3>2 DEF Alone
  <2> QED  BY <2>1, <2>2
<1> QED  BY <1>1, <1>5, <1>6, <1>7 DEF TokensInv

LEMMA ReadKeeps ==
  ASSUME TokensInv, NEW c \in Chats, Read(c)
  PROVE  TokensInv'
<1>0. /\ chat[c].at = "read" /\ lost' = lost
      /\ UNCHANGED <<rotation, row, grants, settings>>
      /\ \A d \in Chats : d # c => chat'[d] = chat[d]
  BY DEF Read, Place, TokensInv, TokensTypeOK
<1>1. TokensTypeOK'
  <2>1. PICK new \in [at : ChatPlaces, read : Columns, given : Columns, token : Token] :
          chat' = [chat EXCEPT ![c] = new]
    <3>1. chat[c] \in [at : ChatPlaces, read : Columns, given : Columns, token : Token]
          /\ row \in Columns /\ row.access \in Token
      BY DEF TokensInv, TokensTypeOK, Columns
    <3>2. ASSUME NEW p \in {"refresh", "pick"}
          PROVE  [chat[c] EXCEPT !.read = row, !.token = row.access, !.at = p]
                   \in [at : ChatPlaces, read : Columns, given : Columns, token : Token]
      BY <3>1 DEF ChatPlaces
    <3>3. [chat[c] EXCEPT !.at = "pick"]
            \in [at : ChatPlaces, read : Columns, given : Columns, token : Token]
      BY <3>1 DEF ChatPlaces
    <3> QED  BY <3>2, <3>3 DEF Read, TokensInv, TokensTypeOK
  <2> QED  BY <1>0, <2>1 DEF TokensInv, TokensTypeOK
<1>2. CASE chat'[c].at = "pick"
  BY <1>0, <1>1, <1>2, ChatRests DEF Rests, Idle
<1>3. CASE chat'[c].at # "pick"
  <2>1. chat'[c].at = "refresh" /\ chat'[c].read = row /\ row.refresh # NoToken
    BY <1>3 DEF Read, ExpiringSoon, TokensInv, TokensTypeOK
  <2>2. AllIssued'  BY <1>0, <2>1 DEF TokensInv, AllIssued, Issued
  <2>3. NewGrant'  BY <1>0, <2>1 DEF TokensInv, NewGrant, Uses
  <2>4. \A g : \A d \in Chats : Stores(d, g)' <=> Stores(d, g)
    BY <1>0, <2>1 DEF Stores
  <2>5. Replaced'  BY <1>0, <2>4 DEF TokensInv, Replaced, Live
  <2>6. \A d \in Chats : Given(d)'  BY <1>0, <2>1 DEF TokensInv, Given
  <2>7. \A d \in Chats : Alone(d)'
    BY <1>0, <2>1, <2>4 DEF TokensInv, Alone, Uses, Stores
  <2> QED  BY <1>1, <2>2, <2>3, <2>5, <2>6, <2>7 DEF TokensInv
<1> QED  BY <1>2, <1>3

LEMMA AnswerTyped ==
  ASSUME NEW g \in Nat, NEW n \in Nat, NEW token \in Token, NEW x \in Answered(g, n, token)
  PROVE  x \in Columns /\ x.refresh = token
  BY DEF Answered, Columns, Token, NoToken

LEMMA RefreshKeeps ==
  ASSUME Consistent, TokensInv, NEW c \in Chats, RefreshTokens(c)
  PROVE  TokensInv'
<1> DEFINE old == chat[c].read.refresh
           g == old.grant
           new == rotation = "always"
<1>0. chat[c] \in [at : ChatPlaces, read : Columns, given : Columns, token : Token]
  BY DEF TokensInv, TokensTypeOK
<1>1. /\ chat[c].at = "refresh" /\ grants[g].refresh = old.n
      /\ UNCHANGED <<rotation, row, settings>> /\ (lost => lost')
      /\ grants' = [grants EXCEPT ![g] =
           [access |-> grants[g].access + 1,
            refresh |-> IF new THEN grants[g].refresh + 1 ELSE grants[g].refresh]]
  BY DEF RefreshTokens, Place, Live, Rotates, TokensInv, TokensTypeOK
<1>2. g \in DOMAIN grants /\ old.n \in 1..grants[g].refresh /\ DOMAIN grants = 1..Len(grants)
  BY <1>1 DEF TokensInv, TokensTypeOK, AllIssued, Issued
<1>3. /\ grants' \in Seq([access : Nat, refresh : Nat])
      /\ Len(grants') = Len(grants) /\ DOMAIN grants' = DOMAIN grants
      /\ \A h \in DOMAIN grants : h # g => grants'[h] = grants[h]
      /\ grants'[g].refresh = IF new THEN grants[g].refresh + 1 ELSE grants[g].refresh
      /\ grants[g].refresh \in Nat /\ grants[g].access \in Nat
  <2>1. grants \in Seq([access : Nat, refresh : Nat])
    BY DEF TokensInv, TokensTypeOK
  <2>2. grants[g] \in [access : Nat, refresh : Nat]
    BY <1>2, GrantTyped DEF TokensInv
  <2> DEFINE x == [access |-> grants[g].access + 1,
                   refresh |-> IF new THEN grants[g].refresh + 1 ELSE grants[g].refresh]
  <2>3. x \in [access : Nat, refresh : Nat]
    BY <2>2
  <2>4. x.refresh = IF new THEN grants[g].refresh + 1 ELSE grants[g].refresh
    OBVIOUS
  <2>5. grants' = [grants EXCEPT ![g] = x]
    BY <1>1
  <2> HIDE DEF x
  <2>6. /\ grants' \in Seq([access : Nat, refresh : Nat])
        /\ Len(grants') = Len(grants) /\ DOMAIN grants' = DOMAIN grants
        /\ grants'[g] = x /\ \A h \in DOMAIN grants : h # g => grants'[h] = grants[h]
    BY <1>2, <2>1, <2>3, <2>5
  <2> QED  BY <2>2, <2>4, <2>6
<1>nat. g \in Nat /\ grants[g].refresh \in Nat /\ grants[g].access \in Nat
  BY <1>2, GrantTyped DEF TokensInv
<1>grown. /\ grants'[g].refresh \in Nat /\ grants'[g].refresh >= grants[g].refresh
       /\ DOMAIN grants' = DOMAIN grants
       /\ \A h \in DOMAIN grants : h # g => grants'[h] = grants[h]
  <2>1. grants'[g].refresh = grants[g].refresh \/ grants'[g].refresh = grants[g].refresh + 1
    BY <1>3
  <2>2. /\ DOMAIN grants' = DOMAIN grants
        /\ \A h \in DOMAIN grants : h # g => grants'[h] = grants[h]
    BY <1>3
  <2>3. grants'[g].refresh \in Nat /\ grants'[g].refresh >= grants[g].refresh
    BY <1>nat, <2>1
  <2> QED  BY <2>2, <2>3
<1>4. PICK q \in [at : ChatPlaces, read : Columns, given : Columns, token : Token] :
        /\ chat' = [chat EXCEPT ![c] = q] /\ q.read = chat[c].read
        /\ \/ q.at = "store" /\ q.given.refresh = IF new THEN [old EXCEPT !.n = @ + 1] ELSE NoToken
           \/ q.at = "pick" /\ lost'
  <2>0. old \in Token
    BY <1>0 DEF Columns
  <2>1. old \in Token /\ NoToken \in Token /\ [old EXCEPT !.n = @ + 1] \in Token
    BY <2>0 DEF Token, NoToken
  <2>2. Rotates = {new}
    BY DEF Rotates, TokensInv, TokensTypeOK
  <2>3. CASE chat' = [chat EXCEPT ![c].at = "pick"] /\ lost'
    <3> DEFINE q == [chat[c] EXCEPT !.at = "pick"]
    <3>1. q \in [at : ChatPlaces, read : Columns, given : Columns, token : Token]
      BY DEF TokensInv, TokensTypeOK, ChatPlaces
    <3>2. q.read = chat[c].read /\ q.at = "pick" /\ chat' = [chat EXCEPT ![c] = q]
      BY <2>3 DEF TokensInv, TokensTypeOK
    <3> QED  BY <2>3, <3>1, <3>2
  <2>4. CASE \E x \in Answered(g, grants[g].access + 1,
                               IF new THEN [old EXCEPT !.n = @ + 1] ELSE NoToken) :
               chat' = [chat EXCEPT ![c].at = "store", ![c].given = x]
    <3>1. PICK x \in Answered(g, grants[g].access + 1,
                              IF new THEN [old EXCEPT !.n = @ + 1] ELSE NoToken) :
               chat' = [chat EXCEPT ![c].at = "store", ![c].given = x]
      BY <2>4
    <3>2. g \in Nat /\ grants[g].access + 1 \in Nat
      BY <1>nat
    <3>3. x \in Columns /\ x.refresh = IF new THEN [old EXCEPT !.n = @ + 1] ELSE NoToken
      BY <2>1, <3>1, <3>2, AnswerTyped
    <3> DEFINE q == [chat[c] EXCEPT !.at = "store", !.given = x]
    <3>4. q \in [at : ChatPlaces, read : Columns, given : Columns, token : Token]
      BY <3>3 DEF TokensInv, TokensTypeOK, ChatPlaces
    <3>5. /\ q.read = chat[c].read /\ q.at = "store" /\ q.given = x
          /\ chat' = [chat EXCEPT ![c] = q]
      BY <3>1 DEF TokensInv, TokensTypeOK
    <3> QED  BY <3>3, <3>4, <3>5
  <2> QED  BY <2>2, <2>3, <2>4 DEF RefreshTokens
<1>5. /\ chat'[c] = q /\ \A d \in Chats : d # c => chat'[d] = chat[d]
      /\ chat' \in [Chats -> [at : ChatPlaces, read : Columns, given : Columns, token : Token]]
  BY <1>4 DEF TokensInv, TokensTypeOK
<1>6. TokensTypeOK'
  <2>1. lost' \in BOOLEAN
    BY DEF RefreshTokens, TokensInv, TokensTypeOK
  <2> QED  BY <1>1, <1>3, <1>5, <2>1 DEF TokensInv, TokensTypeOK
<1>7. AllIssued'
  <2>1. ASSUME NEW t, Issued(t)  PROVE Issued(t)'
    <3>1. CASE t.grant = g
      BY <1>nat, <1>grown, <2>1, <3>1 DEF Issued
    <3>2. CASE t.grant # g
      BY <1>grown, <2>1, <3>2 DEF Issued
    <3> QED  BY <3>1, <3>2
  <2>2. rotation = "never" => ~new
    OBVIOUS
  <2> QED  BY <1>1, <1>2, <1>3, <1>4, <1>5, <2>1, <2>2 DEF TokensInv, AllIssued
<1>8. \A h : \A d \in Chats : Uses(d, h)' => Uses(d, h)
  BY <1>1, <1>4, <1>5 DEF Uses
<1>9. NewGrant'
  <2>1. settings # Empty => g # Len(grants)
    BY <1>1 DEF TokensInv, NewGrant, Uses
  <2> QED  BY <1>1, <1>3, <1>8, <2>1 DEF TokensInv, NewGrant
\* Nobody else holds an answer of this grant: the token refreshed is the newest.
<1>10. new => \A d \in Chats : ~Stores(d, g)
  <2> SUFFICES ASSUME new, NEW d \in Chats, Stores(d, g)  PROVE FALSE
    OBVIOUS
  <2>1. d # c /\ Uses(c, g)
    BY <1>1 DEF Stores, Uses
  <2>2. chat[c].read.refresh.n < grants[g].refresh
    BY <1>2, <2>1 DEF TokensInv, Alone
  <2> QED  BY <1>1, <1>nat, <2>2
<1>11. \A h : \A d \in Chats : d # c => (Stores(d, h)' <=> Stores(d, h))
  BY <1>5 DEF Stores
<1>12. Replaced'
  <2> SUFFICES ASSUME new, ~lost', row.refresh # NoToken, ~Live(row.refresh)'
               PROVE  \E d \in Chats : Stores(d, row.refresh.grant)'
    BY <1>1 DEF Replaced
  <2>1. CASE row.refresh.grant = g
    <3>1. q.at = "store"
      BY <1>4
    <3>2. chat'[c] = q /\ q.read = chat[c].read /\ row' = row
      BY <1>1, <1>4, <1>5
    <3>3. Stores(c, row.refresh.grant)'
      BY <2>1, <3>1, <3>2 DEF Stores
    <3> QED  BY <3>3
  <2>2. CASE row.refresh.grant # g
    <3>1. ~Live(row.refresh) /\ row.refresh.grant \in DOMAIN grants
      BY <1>1, <1>3, <2>2 DEF TokensInv, AllIssued, Issued, Live
    <3>2. PICK d \in Chats : Stores(d, row.refresh.grant)
      BY <1>1, <3>1 DEF TokensInv, Replaced
    <3> QED  BY <1>1, <1>11, <3>2 DEF Stores
  <2> QED  BY <2>1, <2>2
<1>13. ASSUME NEW d \in Chats  PROVE Given(d)'
  <2>1. CASE d = c
    <3>1. new => [old EXCEPT !.n = @ + 1] = [grant |-> g, n |-> grants'[g].refresh]
      <4>1. old \in Token
        BY <1>0 DEF Columns
      <4>2. new => grants'[g].refresh = old.n + 1
        BY <1>1, <1>3
      <4> QED  BY <4>1, <4>2 DEF Token
    <3>2. rotation = "never" \/ new
      BY DEF TokensInv, TokensTypeOK
    <3> QED  BY <1>1, <1>4, <1>5, <2>1, <3>1, <3>2 DEF Given
  <2>2. CASE d # c
    <3>1. chat[d].at = "store" /\ new => chat[d].read.refresh.grant # g
      BY <1>10 DEF Stores
    <3>2. chat[d].at = "store" => chat[d].read.refresh.grant \in DOMAIN grants
      BY DEF TokensInv, AllIssued, Issued
    <3>3. rotation = "never" \/ new
      BY DEF TokensInv, TokensTypeOK
    <3>4. Given(d)  BY DEF TokensInv
    <3> QED  BY <1>1, <1>3, <1>5, <2>2, <3>1, <3>2, <3>3, <3>4 DEF Given
  <2> QED  BY <2>1, <2>2
<1>14. ASSUME NEW d \in Chats  PROVE Alone(d)'
  <2> SUFFICES ASSUME new, NEW h \in DOMAIN grants, Stores(d, h)'
               PROVE  /\ row.refresh.grant = h => row.refresh.n < grants'[h].refresh
                      /\ \A e \in Chats : Uses(e, h)' /\ e # d =>
                           chat'[e].at = "refresh" /\ chat'[e].read.refresh.n < grants'[h].refresh
    BY <1>1, <1>3 DEF Alone
  <2>1. CASE d = c
    <3>1. h = g
      BY <1>4, <1>5, <2>1 DEF Stores
    <3>2. row.refresh.grant = h => row.refresh.n \in 1..grants[g].refresh
      <4>1. g # 0
        BY <1>2
      <4>2. row.refresh # NoToken => Issued(row.refresh)
        BY DEF TokensInv, AllIssued
      <4> QED  BY <3>1, <4>1, <4>2 DEF Issued, NoToken
    <3>3. \A e \in Chats : Uses(e, h) => chat[e].read.refresh.n \in 1..grants[g].refresh
      BY <3>1 DEF TokensInv, AllIssued, Issued, Uses
    <3>4. grants'[h].refresh = grants[g].refresh + 1 /\ grants[g].refresh \in Nat
      BY <1>3, <3>1
    <3>5. row.refresh.grant = h => row.refresh.n < grants'[h].refresh
      BY <3>2, <3>4
    <3>6. ASSUME NEW e \in Chats, Uses(e, h)', e # d
          PROVE  chat'[e].at = "refresh" /\ chat'[e].read.refresh.n < grants'[h].refresh
      <4>1. chat'[e] = chat[e] /\ Uses(e, h) /\ ~Stores(e, g)
        BY <1>5, <1>8, <1>10, <2>1, <3>6
      <4>2. chat[e].at = "refresh"
        BY <3>1, <4>1 DEF Uses, Stores
      <4> QED  BY <3>3, <3>4, <4>1, <4>2
    <3> QED  BY <3>5, <3>6
  <2>2. CASE d # c
    <3>1. Stores(d, h) /\ h # g /\ Alone(d)
      BY <1>10, <1>11, <2>2 DEF TokensInv
    <3>2. \A e \in Chats : Uses(e, h)' => chat'[e] = chat[e] /\ Uses(e, h)
      BY <1>1, <1>4, <1>5, <1>8, <3>1 DEF Uses
    <3> QED  BY <1>3, <3>1, <3>2 DEF Alone
  <2> QED  BY <2>1, <2>2
<1> QED  BY <1>6, <1>7, <1>9, <1>12, <1>13, <1>14 DEF TokensInv

LEMMA StoreKeeps ==
  ASSUME TokensInv, NEW c \in Chats, Store(c)
  PROVE  TokensInv'
<1> DEFINE old == chat[c].read.refresh
           g == old.grant
<1>1. /\ chat[c].at = "store" /\ UNCHANGED <<rotation, grants, settings>>
      /\ \/ row' = Rotated(c) /\ lost' = lost
         \/ row' = row /\ lost'
  <2>1. /\ chat[c].at = "store" /\ UNCHANGED <<rotation, grants, settings>>
        /\ \/ row' = Rotated(c) /\ lost' = lost
           \/ row' = row /\ lost' = TRUE
    BY DEF Store, Place
  <2> QED  BY <2>1, Zenon
<1>2. PICK q \in [at : ChatPlaces, read : Columns, given : Columns, token : Token] :
        q.at = "pick" /\ chat' = [chat EXCEPT ![c] = q]
  <2> DEFINE q == [chat[c] EXCEPT !.at = "pick", !.token = chat[c].given.access]
  <2>1. chat[c] \in [at : ChatPlaces, read : Columns, given : Columns, token : Token]
    BY DEF TokensInv, TokensTypeOK
  <2>2. chat[c].given.access \in Token
    BY <2>1 DEF Columns
  <2>3. q \in [at : ChatPlaces, read : Columns, given : Columns, token : Token] /\ q.at = "pick"
    BY <2>1, <2>2 DEF ChatPlaces
  <2>4. chat' = [chat EXCEPT ![c] = q]
    BY DEF Store, TokensInv, TokensTypeOK
  <2> QED  BY <2>3, <2>4
<1>3. /\ chat'[c].at = "pick" /\ \A d \in Chats : d # c => chat'[d] = chat[d]
      /\ chat' \in [Chats -> [at : ChatPlaces, read : Columns, given : Columns, token : Token]]
  BY <1>2 DEF TokensInv, TokensTypeOK
<1>4. old \in Token /\ g \in DOMAIN grants /\ old.n \in 1..grants[g].refresh /\ old # NoToken
      /\ DOMAIN grants = 1..Len(grants)
  BY <1>1 DEF TokensInv, TokensTypeOK, AllIssued, Issued, NoToken, Columns
<1>5. /\ Rotated(c) \in Columns
      /\ Rotated(c).refresh = [grant |-> g, n |-> grants[g].refresh]
  <2>1. chat[c].given \in Columns
    BY DEF TokensInv, TokensTypeOK
  <2>2. Rotated(c) \in Columns
    BY <1>4, <2>1 DEF Rotated, Columns
  <2>3. Rotated(c).refresh = IF chat[c].given.refresh = NoToken THEN old ELSE chat[c].given.refresh
    BY <2>1 DEF Rotated, Columns
  <2>4. CASE rotation = "never"
    <3>1. chat[c].given.refresh = NoToken /\ grants[g].refresh = 1
      BY <1>1, <1>4, <2>4 DEF TokensInv, Given, AllIssued
    <3>2. old.n = 1
      BY <1>4, <3>1
    <3> QED  BY <1>4, <2>2, <2>3, <3>1, <3>2 DEF Token
  <2>5. CASE rotation # "never"
    <3>1. chat[c].given.refresh = [grant |-> g, n |-> grants[g].refresh]
      BY <1>1, <2>5 DEF TokensInv, Given
    <3>2. chat[c].given.refresh # NoToken
      BY <1>4, <3>1 DEF NoToken
    <3> QED  BY <2>2, <2>3, <3>1, <3>2
  <2> QED  BY <2>4, <2>5
<1>6. TokensTypeOK'
  BY <1>1, <1>3, <1>5 DEF TokensInv, TokensTypeOK
<1>7. CASE row' = row /\ lost'
  BY <1>1, <1>3, <1>6, <1>7, ChatRests DEF Rests, Idle
<1>8. CASE row' = Rotated(c) /\ lost' = lost
  <2>0. grants[g].refresh \in Nat
    BY <1>4, GrantTyped DEF TokensInv
  <2>1. AllIssued'
    <3>1. \A t : Issued(t)' <=> Issued(t)
      BY <1>1 DEF Issued
    <3>2. Issued(Rotated(c).refresh)
      BY <1>4, <1>5, <2>0 DEF Issued
    <3> QED  BY <1>1, <1>3, <1>8, <3>1, <3>2 DEF TokensInv, AllIssued
  <2>2. \A h : \A d \in Chats : (Uses(d, h)' => Uses(d, h) /\ d # c) /\ (Stores(d, h)' => Stores(d, h) /\ d # c)
    BY <1>3 DEF Uses, Stores
  <2>3. NewGrant'
    <3>1. settings # Empty => g # Len(grants)
      BY <1>1 DEF TokensInv, NewGrant, Uses
    <3> QED  BY <1>1, <1>5, <1>8, <2>2, <3>1 DEF TokensInv, NewGrant
  <2>4. Replaced'
    BY <1>1, <1>5, <1>8 DEF Replaced, Live
  <2>5. ASSUME NEW d \in Chats  PROVE Given(d)'
    BY <1>1, <1>3 DEF TokensInv, Given
  <2>6. ASSUME NEW d \in Chats  PROVE Alone(d)'
    <3> SUFFICES ASSUME rotation = "always", NEW h \in DOMAIN grants, Stores(d, h)'
                 PROVE  /\ row'.refresh.grant = h => row'.refresh.n < grants[h].refresh
                        /\ \A e \in Chats : Uses(e, h)' /\ e # d =>
                             chat'[e].at = "refresh" /\ chat'[e].read.refresh.n < grants[h].refresh
      BY <1>1 DEF Alone
    <3>1. Stores(d, h) /\ Alone(d) /\ d # c
      BY <2>2 DEF TokensInv
    <3>2. h # g
      BY <1>1, <3>1 DEF Alone, Uses
    <3>3. \A e \in Chats : Uses(e, h)' => chat'[e] = chat[e] /\ Uses(e, h)
      BY <1>3, <2>2
    <3> QED  BY <1>5, <1>8, <3>1, <3>2, <3>3 DEF Alone
  <2> QED  BY <1>6, <2>1, <2>3, <2>4, <2>5, <2>6 DEF TokensInv
<1> QED  BY <1>1, <1>7, <1>8

LEMMA ExchangeKeeps ==
  ASSUME TokensInv, Exchange
  PROVE  TokensInv'
<1> DEFINE g == Len(grants) + 1
<1>1. /\ settings = Empty /\ grants' = Append(grants, [access |-> 1, refresh |-> 1])
      /\ settings' \in Answered(g, 1, [grant |-> g, n |-> 1])
      /\ UNCHANGED <<rotation, row, chat, lost>>
  BY DEF Exchange
<1>2. /\ grants' \in Seq([access : Nat, refresh : Nat]) /\ Len(grants') = g
      /\ DOMAIN grants' = 1..g /\ DOMAIN grants = 1..Len(grants) /\ Len(grants) \in Nat
      /\ \A h \in DOMAIN grants : grants'[h] = grants[h]
      /\ grants'[g].refresh = 1
  <2> DEFINE x == [access |-> 1, refresh |-> 1]
  <2>1. x \in [access : Nat, refresh : Nat] /\ x.refresh = 1
    OBVIOUS
  <2>2. grants' = Append(grants, x) /\ grants \in Seq([access : Nat, refresh : Nat])
    BY <1>1 DEF TokensInv, TokensTypeOK
  <2> HIDE DEF x
  <2>3. Len(grants) \in Nat /\ DOMAIN grants = 1..Len(grants)
    BY GrantTyped DEF TokensInv
  <2>4. /\ Append(grants, x) \in Seq([access : Nat, refresh : Nat])
        /\ Len(Append(grants, x)) = Len(grants) + 1
        /\ \A i \in 1..Len(grants) : Append(grants, x)[i] = grants[i]
        /\ Append(grants, x)[Len(grants) + 1] = x
    BY <2>1, <2>2, AppendProperties
  <2>5. grants' \in Seq([access : Nat, refresh : Nat]) /\ Len(grants') = g /\ grants'[g] = x
    BY <2>2, <2>4
  <2>6. DOMAIN grants' = 1..g
    BY <2>5
  <2>7. \A h \in DOMAIN grants : grants'[h] = grants[h]
    BY <2>2, <2>3, <2>4
  <2> QED  BY <2>1, <2>3, <2>5, <2>6, <2>7
<1>3. settings' \in Columns /\ settings'.refresh = [grant |-> g, n |-> 1]
  <2>1. g \in Nat /\ 1 \in Nat /\ [grant |-> g, n |-> 1] \in Token
    BY <1>2 DEF Token
  <2> QED  BY <1>1, <2>1, AnswerTyped
<1>4. TokensTypeOK'
  BY <1>1, <1>2, <1>3 DEF TokensInv, TokensTypeOK
<1>5. \A t : Issued(t) => Issued(t)' /\ t.grant # g /\ (Live(t) <=> Live(t)')
  BY <1>2 DEF Issued, Live
<1>6. AllIssued'
  BY <1>1, <1>2, <1>5 DEF TokensInv, AllIssued
<1>7. \A h : \A d \in Chats : (Uses(d, h)' <=> Uses(d, h)) /\ (Stores(d, h)' <=> Stores(d, h))
  BY <1>1 DEF Uses, Stores
<1>8. NewGrant'
  <2>1. row.refresh.grant # g
    BY <1>2, <1>5 DEF TokensInv, AllIssued, NoToken
  <2>2. \A c \in Chats : ~Uses(c, g)
    BY <1>5 DEF TokensInv, AllIssued, Uses
  <2> QED  BY <1>1, <1>2, <1>3, <1>7, <2>1, <2>2 DEF NewGrant
<1>9. Replaced'
  BY <1>1, <1>5, <1>7 DEF TokensInv, Replaced, AllIssued
<1>10. \A c \in Chats : chat[c].at = "store" => chat[c].read.refresh.grant \in DOMAIN grants
  BY DEF TokensInv, AllIssued, Issued
<1>11. ASSUME NEW c \in Chats  PROVE Given(c)'
  BY <1>1, <1>2, <1>10 DEF TokensInv, Given
<1>12. ASSUME NEW c \in Chats  PROVE Alone(c)'
  <2>1. \A h : Stores(c, h) => h \in DOMAIN grants
    BY <1>10 DEF Stores
  <2>2. Alone(c)  BY DEF TokensInv
  <2> QED  BY <1>1, <1>2, <1>7, <2>1, <2>2 DEF Alone
<1> QED  BY <1>4, <1>6, <1>8, <1>9, <1>11, <1>12 DEF TokensInv

LEMMA SetTokensKeeps ==
  ASSUME TokensInv, SetTokens
  PROVE  TokensInv'
<1>1. /\ settings # Empty /\ settings' = Empty /\ row' \in {settings, row}
      /\ UNCHANGED <<rotation, grants, chat, lost>>
  BY DEF SetTokens
<1>2. Empty \in Columns
  BY DEF Empty, Columns, NoToken, Token
<1>3. TokensTypeOK'
  BY <1>1, <1>2 DEF TokensInv, TokensTypeOK
<1>4. /\ Len(grants) \in DOMAIN grants /\ grants[Len(grants)].refresh = 1
      /\ settings.refresh = [grant |-> Len(grants), n |-> 1]
      /\ \A c \in Chats : ~Uses(c, Len(grants))
  BY <1>1 DEF TokensInv, NewGrant
<1>5. AllIssued'
  BY <1>1, <1>4 DEF TokensInv, AllIssued, Issued
<1>6. NewGrant'
  BY <1>1 DEF NewGrant
<1>7. Replaced'
  BY <1>1, <1>4 DEF TokensInv, Replaced, Live, Stores
<1>8. ASSUME NEW c \in Chats  PROVE Given(c)'
  BY <1>1 DEF TokensInv, Given
<1>9. ASSUME NEW c \in Chats  PROVE Alone(c)'
  <2>1. ~Stores(c, Len(grants))
    BY <1>4 DEF Uses, Stores
  <2>2. Alone(c)  BY DEF TokensInv
  <2> QED  BY <1>1, <1>4, <2>1, <2>2 DEF Alone, Uses, Stores
<1> QED  BY <1>3, <1>5, <1>6, <1>7, <1>8, <1>9 DEF TokensInv

LEMMA OthersKeep ==
  ASSUME TokensInv,
         \/ Disconnect \/ PasteKey \/ Age
         \/ \E c \in Chats : RefreshFails(c) \/ Pick(c) \/ Close(c)
  PROVE  TokensInv'
<1>1. UNCHANGED <<rotation, grants, settings, lost>>
  BY DEF Disconnect, PasteKey, Age, RefreshFails, Pick, Close
<1>2. NoToken \in Token /\ Pasted \in Token /\ Empty \in Columns
  BY DEF NoToken, Pasted, Token, Empty, Columns
<1>3. /\ row' \in Columns
      /\ row' = row \/ row'.refresh = NoToken \/ row'.refresh = row.refresh
  <2>1. CASE Disconnect
    BY <1>2, <2>1 DEF Disconnect, Empty
  <2>2. CASE PasteKey
    BY <1>2, <2>2 DEF PasteKey, TokensInv, TokensTypeOK, Columns
  <2>3. CASE ~Disconnect /\ ~PasteKey
    BY <2>3 DEF Age, RefreshFails, Pick, Close, TokensInv, TokensTypeOK
  <2> QED  BY <2>1, <2>2, <2>3
<1>4. Rests /\ chat' \in [Chats -> [at : ChatPlaces, read : Columns, given : Columns, token : Token]]
  <2>1. CASE UNCHANGED chat
    BY <2>1 DEF Rests, TokensInv, TokensTypeOK
  <2>2. ASSUME NEW c \in Chats, RefreshFails(c) \/ Pick(c) \/ Close(c)
        PROVE  \E q \in [at : ChatPlaces, read : Columns, given : Columns, token : Token] :
                 /\ chat' = [chat EXCEPT ![c] = q]
                 /\ q.at \notin {"refresh", "store"} /\ chat[c].at # "store"
    <3>0. chat[c] \in [at : ChatPlaces, read : Columns, given : Columns, token : Token]
      BY DEF TokensInv, TokensTypeOK
    <3>1. CASE RefreshFails(c)
      <4> DEFINE q == [chat[c] EXCEPT !.at = "pick"]
      <4>1. q \in [at : ChatPlaces, read : Columns, given : Columns, token : Token] /\ q.at = "pick"
        BY <3>0 DEF ChatPlaces
      <4>2. chat' = [chat EXCEPT ![c] = q] /\ chat[c].at = "refresh"
        BY <3>1 DEF RefreshFails, Place, TokensInv, TokensTypeOK
      <4> QED  BY <4>1, <4>2
    <3>2. NoSession \in [at : ChatPlaces, read : Columns, given : Columns, token : Token] /\ NoSession.at = "read"
      BY <1>2 DEF NoSession, ChatPlaces
    <3>3. CASE Pick(c)
      <4> DEFINE q == [NoSession EXCEPT !.at = "open", !.token = chat[c].token]
      <4>1. q \in [at : ChatPlaces, read : Columns, given : Columns, token : Token] /\ q.at = "open"
        BY <1>2, <3>0 DEF NoSession, ChatPlaces
      <4>2. chat[c].at = "pick"
            /\ (chat' = [chat EXCEPT ![c] = q] \/ chat' = [chat EXCEPT ![c] = NoSession])
        BY <3>3 DEF Pick, Place
      <4> QED  BY <3>2, <4>1, <4>2
    <3>4. CASE Close(c)
      BY <3>2, <3>4 DEF Close, Place
    <3> QED  BY <2>2, <3>1, <3>3, <3>4
  <2>3. ASSUME NEW c \in Chats, RefreshFails(c) \/ Pick(c) \/ Close(c)
        PROVE  /\ Rests
               /\ chat' \in [Chats -> [at : ChatPlaces, read : Columns, given : Columns, token : Token]]
    BY <2>2, <2>3 DEF Rests, Idle, TokensInv, TokensTypeOK
  <2> QED  BY <2>1, <2>3 DEF Disconnect, PasteKey, Age
<1>5. TokensTypeOK'
  BY <1>1, <1>3, <1>4 DEF TokensInv, TokensTypeOK
<1> QED  BY <1>1, <1>3, <1>4, <1>5, ChatRests

\* Every refresh token in a row, in a chat or on the settings page is one that the
\* provider issued, the newest one of a grant is held once, and a dead one in the
\* row is about to be overwritten (RefreshTokens, SetTokens, handleWSChat).
THEOREM TokensInvariance ==
  ASSUME Consistent
  PROVE  TokensSpec => []TokensInv
<1>1. TokensInv /\ [TokensNext]_tokenVars => TokensInv'
  <2> SUFFICES ASSUME TokensInv, [TokensNext]_tokenVars  PROVE TokensInv'
    OBVIOUS
  <2>1. CASE UNCHANGED tokenVars
    BY <2>1 DEF tokenVars, TokensInv, TokensTypeOK, AllIssued, Issued, NewGrant, Replaced, Live,
               Given, Alone, Uses, Stores
  <2>2. CASE TokensNext
    BY <2>2, ReadKeeps, RefreshKeeps, StoreKeeps, ExchangeKeeps, SetTokensKeeps, OthersKeep
       DEF TokensNext
  <2> QED  BY <2>1, <2>2
<1> QED  BY <1>1, TokensInitial, PTL DEF TokensSpec

\* The refresh token of the user's row is one the provider still takes, once every
\* answer has been stored and unless one was lost (handleWSChat, RefreshTokens).
THEOREM StoredTokenSafety ==
  ASSUME Consistent
  PROVE  TokensSpec => []StoredTokenLives
<1>1. TokensInv => StoredTokenLives
  <2> SUFFICES ASSUME TokensInv, ~lost, \A c \in Chats : ~Place(c, "store"),
                      row.refresh # NoToken
               PROVE  Live(row.refresh)
    BY DEF StoredTokenLives
  <2>1. CASE rotation = "always"
    BY <2>1 DEF TokensInv, Replaced, Stores, Place
  <2>2. CASE rotation = "never"
    BY <2>2 DEF TokensInv, AllIssued, Issued, Live
  <2> QED  BY <2>1, <2>2 DEF TokensInv, TokensTypeOK
<1> QED  BY <1>1, TokensInvariance, PTL
=============================================================================
