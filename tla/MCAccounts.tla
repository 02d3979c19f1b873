---------------------------- MODULE MCAccounts ----------------------------
(* Accounts on a small server: two requests at a time, two accounts or none *)
(* at the beginning, one fault. And, side by side with it, the tokens of    *)
(* one user's subscription, which no account operation but the deletion of  *)
(* the whole row touches. part says which of the two a behaviour is about.  *)
EXTENDS Accounts, Subscriptions, TLC

VARIABLE part

MCInit ==
  /\ part \in {"accounts", "tokens"} /\ Init /\ TokensInit
  /\ part = "accounts" => provider = "codex" /\ rotation = "always"
  /\ part = "tokens" => users = <<>> /\ ~mailer
MCNext ==
  \/ part = "accounts" /\ Next /\ UNCHANGED <<part, tokenVars>>
  \/ part = "tokens" /\ TokensNext /\ UNCHANGED <<part, vars>>
MCSpec == MCInit /\ [][MCNext]_<<part, vars, tokenVars>>

Symmetric == Permutations(Requests) \cup Permutations(Passwords)
             \cup Permutations(Names) \cup Permutations(OldTokens)
===========================================================================
