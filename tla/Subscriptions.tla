--------------------------- MODULE Subscriptions ---------------------------
(***************************************************************************)
(* One user's subscription to Claude Code or ChatGPT: the tokens of the     *)
(* user's row, the settings page that connects, disconnects and pastes, and *)
(* chat sessions, which refresh a token that is about to expire.           *)
(*                                                                         *)
(* A connection is a grant; its refresh tokens and its access tokens are    *)
(* numbered. The provider may answer a refresh with a new refresh token,    *)
(* after which the old one is dead, or without one. Grants and refreshes    *)
(* are bounded.                                                            *)
(***************************************************************************)
EXTENDS Naturals, Sequences

CONSTANTS
  Chats,
  Grants,       \* times the user connects
  Refreshes,    \* times the provider refreshes a grant
  Rotations     \* what the provider may do with refresh tokens

\* What is assumed of the constants.
Parameters ==
  /\ Grants \in Nat /\ Refreshes \in Nat
  /\ Rotations \subseteq {"always", "never", "sometimes"}
ASSUME TokensAssumption == Parameters

VARIABLES
  provider, rotation,
  row,          \* access token, refresh token, and the access token whose expiry is stored
  grants,       \* the provider: newest access token and live refresh token of each grant
  aging,        \* access tokens with less than five minutes left
  settings,     \* the settings page's exchange under way
  chat,         \* per chat: its place, what it read, what it was given, the token it uses
  lost          \* ghost: an answer or a write was lost

tokenVars == <<provider, rotation, row, grants, aging, settings, chat, lost>>

NoToken == [grant |-> 0, n |-> 0]
Pasted == [grant |-> 0, n |-> 1]    \* a token that no refresh belongs to
Empty == [access |-> NoToken, refresh |-> NoToken, expiry |-> NoToken]

-----------------------------------------------------------------------------
(* The provider, which may leave the lifetime of a token out of its answer. *)

Answered(g, n, refresh) ==
  {[access |-> [grant |-> g, n |-> n], refresh |-> refresh, expiry |-> known] :
     known \in {NoToken, [grant |-> g, n |-> n]}}
Rotates == IF rotation = "sometimes" THEN BOOLEAN ELSE {rotation = "always"}
Live(token) == grants[token.grant].refresh = token.n

-----------------------------------------------------------------------------
(* The settings page.                                                       *)

\* The pasted code is exchanged for the first tokens of a grant, which are
\* stored in a step of their own.
Exchange ==
  LET g == Len(grants) + 1
  IN /\ settings = Empty /\ g <= Grants
     /\ grants' = Append(grants, [access |-> 1, refresh |-> 1])
     /\ settings' \in Answered(g, 1, [grant |-> g, n |-> 1])
     /\ UNCHANGED <<provider, rotation, row, aging, chat, lost>>
SetTokens ==
  /\ settings # Empty
  /\ settings' = Empty
  /\ row' \in {settings, row}           \* the UPDATE may fail
  /\ UNCHANGED <<provider, rotation, grants, aging, chat, lost>>
Disconnect ==
  /\ row' = Empty
  /\ UNCHANGED <<provider, rotation, grants, aging, settings, chat, lost>>
\* A pasted token, or none, replaces the access token and leaves the other two
\* columns as they are.
PasteKey ==
  /\ provider = "claudecode"
  /\ \E key \in {Pasted, NoToken} : row' = [row EXCEPT !.access = key]
  /\ UNCHANGED <<provider, rotation, grants, aging, settings, chat, lost>>

-----------------------------------------------------------------------------
(* A chat session.                                                          *)

NoSession == [at |-> "read", read |-> Empty, given |-> Empty, token |-> NoToken]
Place(c, at) == chat[c].at = at

ExpiringSoon(tokens) == tokens.refresh # NoToken /\ tokens.expiry \in aging
Read(c) ==
  /\ Place(c, "read")
  /\ \/ chat' = [chat EXCEPT ![c] = [@ EXCEPT !.read = row, !.token = row.access,
          !.at = IF row.access # NoToken /\ ExpiringSoon(row) THEN "refresh" ELSE "pick"]]
     \/ chat' = [chat EXCEPT ![c].at = "pick"]          \* the SELECT fails
  /\ UNCHANGED <<provider, rotation, row, grants, aging, settings, lost>>

\* The provider answers a live refresh token, with another one or without.
RefreshTokens(c) ==
  LET old == chat[c].read.refresh
      g == old.grant
      n == grants[g].access + 1
  IN /\ Place(c, "refresh") /\ Live(old) /\ n <= Refreshes + 1
     /\ \E new \in Rotates :
          /\ grants' = [grants EXCEPT ![g] =
               [access |-> n, refresh |-> IF new THEN @.refresh + 1 ELSE @.refresh]]
          /\ \E given \in Answered(g, n, IF new THEN [old EXCEPT !.n = @ + 1] ELSE NoToken) :
               \/ /\ chat' = [chat EXCEPT ![c].at = "store", ![c].given = given]
                  /\ UNCHANGED lost
               \/ /\ chat' = [chat EXCEPT ![c].at = "pick"]    \* the answer is lost
                  /\ lost' = TRUE
     /\ UNCHANGED <<provider, rotation, row, aging, settings>>
\* The token is dead, or the provider cannot be reached: the old one is used.
RefreshFails(c) ==
  /\ Place(c, "refresh")
  /\ chat' = [chat EXCEPT ![c].at = "pick"]
  /\ UNCHANGED <<provider, rotation, row, grants, aging, settings, lost>>

\* A refresh token that was not replaced is kept.
\* Mutant: the refresh token that was read is stored again.
MutRotated(c) == [chat[c].given EXCEPT !.refresh = chat[c].read.refresh]
Rotated(c) ==
  [chat[c].given EXCEPT !.refresh = IF @ = NoToken THEN chat[c].read.refresh ELSE @]
Store(c) ==
  /\ Place(c, "store")
  /\ chat' = [chat EXCEPT ![c].at = "pick", ![c].token = chat[c].given.access]
  /\ \/ row' = Rotated(c) /\ UNCHANGED lost
     \/ lost' = TRUE /\ UNCHANGED row         \* the error of the UPDATE is ignored
  /\ UNCHANGED <<provider, rotation, grants, aging, settings>>
\* Without a token Claude Code may find the server's own; otherwise the chat ends.
Pick(c) ==
  /\ Place(c, "pick")
  /\ \E opens \in IF chat[c].token # NoToken THEN {TRUE} ELSE {provider = "claudecode", FALSE} :
       chat' = [chat EXCEPT ![c] =
         IF opens THEN [NoSession EXCEPT !.at = "open", !.token = chat[c].token] ELSE NoSession]
  /\ UNCHANGED <<provider, rotation, row, grants, aging, settings, lost>>
Close(c) ==
  /\ Place(c, "open")
  /\ chat' = [chat EXCEPT ![c] = NoSession]
  /\ UNCHANGED <<provider, rotation, row, grants, aging, settings, lost>>

-----------------------------------------------------------------------------
Age ==
  /\ \E g \in DOMAIN grants : \E n \in 1..grants[g].access :
       /\ [grant |-> g, n |-> n] \notin aging
       /\ aging' = aging \cup {[grant |-> g, n |-> n]}
  /\ UNCHANGED <<provider, rotation, row, grants, settings, chat, lost>>

TokensInit ==
  /\ provider \in {"claudecode", "codex"} /\ rotation \in Rotations
  /\ row = Empty /\ settings = Empty /\ grants = <<>> /\ aging = {}
  /\ chat = [c \in Chats |-> NoSession] /\ lost = FALSE

TokensNext ==
  \/ Exchange \/ SetTokens \/ Disconnect \/ PasteKey \/ Age
  \/ \E c \in Chats :
       Read(c) \/ RefreshTokens(c) \/ RefreshFails(c) \/ Store(c) \/ Pick(c) \/ Close(c)

TokensSpec == TokensInit /\ [][TokensNext]_tokenVars

-----------------------------------------------------------------------------
\* "Callers must persist the returned RefreshToken too": whatever chats refresh
\* at the same time, and whatever the user connects or disconnects meanwhile, the
\* refresh token of the user's row is one the provider still takes, once every
\* answer has been stored and unless one was lost (handleWSChat, RefreshTokens).
StoredTokenLives ==
  ~lost /\ (\A c \in Chats : ~Place(c, "store")) /\ row.refresh # NoToken => Live(row.refresh)
=============================================================================
