--------------------------- MODULE MCConnections ---------------------------
(* What stands behind one saved connection: the pool, one tunnel of it, and *)
(* the sessions of one handle. They are small and run side by side, for     *)
(* none depends on the other's state: part says which one a behaviour is    *)
(* about. The fairness of a part that stands still asks for nothing: in its *)
(* initial state nothing is under way.                                     *)
EXTENDS ConnPool, EngineRuns

CONSTANT Conns           \* of the tunnel
VARIABLES part, kind, client, listener, registry, name, conn

Statement(word, in, database) == [word |-> word, in |-> in, database |-> database]
MCStatements ==
  {Statement("SELECT", "unnamed", "d2"), Statement("UPDATE", "unnamed", "d2"),
   Statement("SELECT", "unnamed", "unnamed"), Statement("USE", "d2", "d1")}

T == INSTANCE Tunnels WITH engine <- kind

poolVars == vars
tunnelVars == <<kind, client, listener, registry, name, conn>>

MCInit ==
  /\ part \in {"pool", "tunnel", "runs"} /\ Init /\ T!Init /\ RunsInit
  /\ part # "pool" => ~ssh /\ pool = <<>>
  /\ part # "tunnel" => kind = "pg"
  /\ part # "runs" => engine = "mysql" /\ table = [d \in Databases |-> None]
MCNext ==
  \/ part = "pool" /\ Next /\ UNCHANGED <<part, tunnelVars, runVars>>
  \/ part = "tunnel" /\ T!Next /\ UNCHANGED <<part, poolVars, runVars>>
  \/ part = "runs" /\ RunsNext /\ UNCHANGED <<part, poolVars, tunnelVars>>
MCSpec ==
  /\ MCInit /\ [][MCNext]_<<part, poolVars, tunnelVars, runVars>>
  /\ PoolFairness /\ T!Fairness /\ Fairness

\* After a tunnel's closer has run, its goroutines and connections end.
CloserEndsAll == T!CloserEndsAll
===========================================================================
