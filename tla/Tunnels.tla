------------------------------ MODULE Tunnels ------------------------------
(***************************************************************************)
(* One SSH tunnel of a pooled handle, from RegisterSSHDialer to its closer. *)
(*                                                                         *)
(* The drivers of MySQL, PostgreSQL and SQL Server dial through the SSH    *)
(* client; those of ClickHouse, Oracle and ByteHouse dial a listener on    *)
(* the loopback, which forwards every connection: a goroutine accepts,     *)
(* one per connection dials, and two copy, one each way.                   *)
(***************************************************************************)
EXTENDS Naturals, FiniteSets

CONSTANT Conns     \* connections the driver makes through the tunnel

Dialing    == {"mysql", "pg", "mssql"}
Forwarding == {"clickhouse", "oracle", "bytehouse"}

VARIABLES
  engine,
  client,     \* the SSH client: none, open, closed
  listener,   \* the loopback listener and its accepting goroutine
  registry,   \* the engine's registry holds the tunnel
  name,       \* the driver's own table holds the dialer or the configuration
  conn        \* per connection: the driver's end, the database's end of the
              \* SSH channel, who waits for the dial, and the copies that run

vars == <<engine, client, listener, registry, name, conn>>

NoConn == [driver |-> "none", remote |-> "none", dial |-> "no", up |-> FALSE, down |-> FALSE]
Set(c, r) == conn' = [conn EXCEPT ![c] = r]

-----------------------------------------------------------------------------
(* Opening. dialSSH parses the key or takes the password, and dials; when a *)
(* later step fails the client is closed again.                             *)

Fails ==
  /\ client = "none" /\ client' = "closed"
  /\ UNCHANGED <<engine, listener, registry, name, conn>>
Connects ==
  /\ client = "none" /\ client' = "open" /\ registry' = TRUE
  /\ UNCHANGED <<engine, conn>>

\* The dialer is registered with the driver under a fresh name, for good.
OpenMySQL == engine = "mysql" /\ (Fails \/ (Connects /\ name' = TRUE /\ UNCHANGED listener))
\* The configuration is registered with pgx, which may refuse the DSN before.
OpenPG == engine = "pg" /\ (Fails \/ (Connects /\ name' = TRUE /\ UNCHANGED listener))
\* The connector is kept in the registry only.
OpenMSSQL == engine = "mssql" /\ (Fails \/ (Connects /\ UNCHANGED <<listener, name>>))
\* The listener may fail after the client has connected: the client is closed.
OpenForwarder == Fails \/ (Connects /\ listener' = "open" /\ UNCHANGED name)
OpenClickHouse == engine = "clickhouse" /\ OpenForwarder
OpenOracle     == engine = "oracle" /\ OpenForwarder
OpenByteHouse  == engine = "bytehouse" /\ OpenForwarder
Open == OpenMySQL \/ OpenPG \/ OpenMSSQL \/ OpenClickHouse \/ OpenOracle \/ OpenByteHouse

-----------------------------------------------------------------------------
(* Dialing through the client: the dial runs in a goroutine of its own, and *)
(* the driver waits for it or for its context.                              *)

\* database/sql asks for a connection. SQL Server's driver looks the
\* connector up in the registry, and fails without it.
Dialable == IF engine = "mssql" THEN registry ELSE name
StartDial(c) ==
  /\ engine \in Dialing /\ conn[c] = NoConn /\ Dialable
  /\ Set(c, [NoConn EXCEPT !.dial = "waited"])
  /\ UNCHANGED <<engine, client, listener, registry, name>>
GiveUpDial(c) ==
  /\ conn[c].dial = "waited"
  /\ Set(c, [conn[c] EXCEPT !.dial = "abandoned"])
  /\ UNCHANGED <<engine, client, listener, registry, name>>

\* The dial ends; its connection goes to the driver, or stays in the
\* goroutine's channel, where nobody takes it.
DialEnds(c) ==
  /\ conn[c].dial \in {"waited", "abandoned"}
  /\ \/ /\ client = "open"
        /\ Set(c, [conn[c] EXCEPT !.remote = "open", !.dial = "no",
                     !.driver = IF conn[c].dial = "waited" THEN "open" ELSE "closed"])
     \/ Set(c, [conn[c] EXCEPT !.dial = "no", !.driver = "closed"])
  /\ UNCHANGED <<engine, client, listener, registry, name>>

-----------------------------------------------------------------------------
(* Forwarding. *)

\* The driver connects to the loopback; the accepting goroutine takes it.
Accept(c) ==
  /\ listener = "open" /\ conn[c] = NoConn
  /\ Set(c, [NoConn EXCEPT !.driver = "open", !.dial = "forward"])
  /\ UNCHANGED <<engine, client, listener, registry, name>>
Forward(c) ==
  /\ conn[c].dial = "forward"
  /\ \/ /\ client = "open"
        /\ Set(c, [conn[c] EXCEPT !.remote = "open", !.dial = "no", !.up = TRUE, !.down = TRUE])
     \/ Set(c, [conn[c] EXCEPT !.dial = "no", !.driver = "closed"])
  /\ UNCHANGED <<engine, client, listener, registry, name>>

\* The copy to the database ends when either end is closed, and closes neither.
CopyUpEnds(c) ==
  /\ conn[c].up /\ "closed" \in {conn[c].driver, conn[c].remote}
  /\ Set(c, [conn[c] EXCEPT !.up = FALSE])
  /\ UNCHANGED <<engine, client, listener, registry, name>>
\* The copy from the database ends when the database's end is closed, and closes both.
\* Mutant: it leaves the driver's end open.
MutCopyDownEnds(c) ==
  /\ conn[c].down /\ conn[c].remote = "closed"
  /\ Set(c, [conn[c] EXCEPT !.down = FALSE])
  /\ UNCHANGED <<engine, client, listener, registry, name>>
CopyDownEnds(c) ==
  /\ conn[c].down /\ conn[c].remote = "closed"
  /\ Set(c, [conn[c] EXCEPT !.down = FALSE, !.driver = "closed"])
  /\ UNCHANGED <<engine, client, listener, registry, name>>
\* Or what the database sends finds the driver gone; it need not send anything.
CopyDownFails(c) ==
  /\ conn[c].down /\ conn[c].driver = "closed" /\ conn[c].remote = "open"
  /\ Set(c, [conn[c] EXCEPT !.down = FALSE, !.remote = "closed"])
  /\ UNCHANGED <<engine, client, listener, registry, name>>

-----------------------------------------------------------------------------
(* Closing. *)

\* The driver closes its end; without a forwarder that is the channel itself.
DriverCloses(c) ==
  /\ conn[c].driver = "open"
  /\ Set(c, [conn[c] EXCEPT !.driver = "closed",
               !.remote = IF engine \in Dialing THEN "closed" ELSE @])
  /\ UNCHANGED <<engine, client, listener, registry, name>>
DatabaseCloses(c) ==
  /\ conn[c].remote = "open"
  /\ Set(c, [conn[c] EXCEPT !.remote = "closed"])
  /\ UNCHANGED <<engine, client, listener, registry, name>>

\* The client's end closes every channel.
CloseChannels == conn' = [c \in Conns |->
  IF conn[c].remote = "open" THEN [conn[c] EXCEPT !.remote = "closed"] ELSE conn[c]]

\* The closer takes the tunnel from the registry, so that a second call does
\* nothing; it ends the listener and the client.
CloserOf(E) ==
  /\ engine \in E /\ registry
  /\ registry' = FALSE /\ client' = "closed" /\ CloseChannels
  /\ listener' = IF listener = "open" THEN "closed" ELSE listener
  /\ UNCHANGED engine
CloseMySQL == CloserOf({"mysql"}) /\ UNCHANGED name
ClosePG    == CloserOf({"pg"}) /\ name' = FALSE
CloseMSSQL == CloserOf({"mssql"}) /\ UNCHANGED name
CloseForwarder == CloserOf(Forwarding) /\ UNCHANGED name
Close == CloseMySQL \/ ClosePG \/ CloseMSSQL \/ CloseForwarder

\* The bastion goes away.
Lost ==
  /\ client = "open" /\ client' = "closed" /\ CloseChannels
  /\ UNCHANGED <<engine, listener, registry, name>>

-----------------------------------------------------------------------------
Init ==
  /\ engine \in Dialing \cup Forwarding
  /\ client = "none" /\ listener = "none" /\ registry = FALSE /\ name = FALSE
  /\ conn = [c \in Conns |-> NoConn]

Carry(c) == DialEnds(c) \/ Forward(c) \/ CopyUpEnds(c) \/ CopyDownEnds(c)
Next == \/ Open \/ Close \/ Lost
        \/ \E c \in Conns : \/ StartDial(c) \/ GiveUpDial(c) \/ Accept(c) \/ Carry(c)
                            \/ DriverCloses(c) \/ DatabaseCloses(c) \/ CopyDownFails(c)
\* The goroutines that dial and copy go on; nobody needs to close anything.
Fairness == \A c \in Conns : WF_vars(Carry(c))
Spec == Init /\ [][Next]_vars /\ Fairness

-----------------------------------------------------------------------------
(* Properties. *)

\* After the closer has run, every goroutine and every connection of the
\* tunnel comes to its end, whatever dials and copies were under way.
Ended(c) == conn[c] = NoConn \/
  (conn[c].remote # "open" /\ conn[c].dial = "no" /\ ~conn[c].up /\ ~conn[c].down
   /\ (engine \in Forwarding => conn[c].driver = "closed"))
CloserEndsAll == (client = "closed" /\ ~registry) ~> (\A c \in Conns : Ended(c))
=============================================================================
