---------------------------- MODULE MCAgentRelay ----------------------------
(***************************************************************************)
(* A small instance of AgentRelay for TLC: one agent, its connections and  *)
(* the requests routed through it, three of them in a behaviour.           *)
(***************************************************************************)
EXTENDS AgentRelay, FiniteSets

CONSTANTS a1, c1, c2, r1, r2

OneAgent == {a1}
MCAgentOf == [c \in Conns |-> a1]
MCTargetOf == [r \in Requests |-> a1]

\* Names are interchangeable, and given in turn.
Came(c) == stage[c] # "none"
Asked(r) == rpc[r] # "idle"
InTurn == (Came(c2) => Came(c1)) /\ (Asked(r2) => Asked(r1))

\* Bound: three connections, two and a request, or one and two requests.
Few == Cardinality({c \in Conns : Came(c)}) + Cardinality({r \in Requests : Asked(r)}) <= 3

MCNext == Next /\ (InTurn /\ Few)'
MCSpec == Init /\ [][MCNext]_vars /\ Fairness
=============================================================================
