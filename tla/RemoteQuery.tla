---------------------------- MODULE RemoteQuery ----------------------------
(***************************************************************************)
(* What a query that is routed through a connector promises its caller.    *)
(*                                                                         *)
(* The statement runs at most once, whatever is reported.  "ok" is only    *)
(* reported of a statement that has run; "offline" only of one that never  *)
(* ran and never will, so it may be asked again; "failed" says nothing,    *)
(* the statement may have run or may yet run.                              *)
(***************************************************************************)
EXTENDS Naturals

CONSTANT Requests

VARIABLES result,   \* result[r]: what the caller was told, "none" before that
          ran       \* ran[r]: how often the connector ran the statement of r

rvars == <<result, ran>>

Outcomes == {"ok", "offline", "failed"}

RInit == /\ result = [r \in Requests |-> "none"]
         /\ ran = [r \in Requests |-> 0]

RunStatement(r) == /\ result[r] # "offline"
                   /\ ran[r] = 0
                   /\ ran' = [ran EXCEPT ![r] = 1]
                   /\ UNCHANGED result

Report(r, outcome) == /\ result[r] = "none"
                      /\ outcome = "ok" => ran[r] = 1
                      /\ outcome = "offline" => ran[r] = 0
                      /\ result' = [result EXCEPT ![r] = outcome]
                      /\ UNCHANGED ran

RNext == \E r \in Requests : \/ RunStatement(r)
                             \/ \E o \in Outcomes : Report(r, o)

RSpec == RInit /\ [][RNext]_rvars
=============================================================================
