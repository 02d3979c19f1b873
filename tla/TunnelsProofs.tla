--------------------------- MODULE TunnelsProofs ---------------------------
(***************************************************************************)
(* A theorem about Tunnels, for any number of forwarded connections: the   *)
(* closer finds whatever is open, and what it leaves has a goroutine that  *)
(* ends it.                                                                *)
(***************************************************************************)
EXTENDS Tunnels, TLAPS

\* A goroutine of the connection has something to do: to wait for its dial, or to
\* end a copy.
Carried(c) ==
  \/ conn[c].dial # "no"
  \/ conn[c].down /\ conn[c].remote = "closed"
  \/ conn[c].up /\ "closed" \in {conn[c].driver, conn[c].remote}

\* The closer finds whatever is open, and strands nothing: an open client or listener
\* is in the registry, no channel outlives its client, each open end of a forwarded
\* connection has the goroutine that will close it, and once the client is closed no
\* connection is left half-way with nobody to carry it on.
NothingStranded ==
  /\ "open" \in {client, listener} => registry
  /\ \A c \in Conns :
       /\ conn[c].remote = "open" => client = "open"
       /\ engine \in Forwarding =>
            /\ conn[c].remote = "open" => conn[c].down
            /\ conn[c].driver = "open" => conn[c].dial = "forward" \/ conn[c].down
       /\ client = "closed" => Ended(c) \/ Carried(c)

-----------------------------------------------------------------------------
Ends == [driver : {"none", "open", "closed"}, remote : {"none", "open", "closed"},
         dial : {"no", "waited", "abandoned", "forward"}, up : BOOLEAN, down : BOOLEAN]

TunnelTypes ==
  /\ engine \in Dialing \cup Forwarding
  /\ client \in {"none", "open", "closed"} /\ listener \in {"none", "open", "closed"}
  /\ registry \in BOOLEAN /\ name \in BOOLEAN
  /\ conn \in [Conns -> Ends]

\* The closer's registry holds the tunnel while anything of it is open.
Reachable ==
  /\ "open" \in {client, listener} => registry
  /\ listener # "none" => engine \in Forwarding

\* Who ends each end of a connection.
Owned(c) ==
  /\ conn[c].remote = "open" => client = "open"
  /\ conn[c].dial # "no" => conn[c].remote = "none"
  /\ conn[c].dial \in {"waited", "abandoned"} => conn[c].driver = "none"
  /\ conn[c].down => conn[c].remote # "none"
  /\ engine \in Forwarding =>
       /\ conn[c].remote = "open" => conn[c].down
       /\ conn[c].driver = "open" => conn[c].dial = "forward" \/ conn[c].down
       /\ conn[c].up => conn[c].down \/ conn[c].driver = "closed"
       /\ conn[c].driver = "none" => conn[c] = NoConn
       /\ conn[c].dial \in {"no", "forward"}
  /\ engine \in Dialing => ~conn[c].up /\ ~conn[c].down /\ conn[c].dial # "forward"

TunnelInv == TunnelTypes /\ Reachable /\ \A c \in Conns : Owned(c)

\* A connection in its initial state has nothing to own.
LEMMA NoConnType == NoConn \in Ends
  BY DEF NoConn, Ends

\* What changes one connection and nothing else leaves the others as they were.
LEMMA OneConn ==
  ASSUME TunnelInv, NEW c \in Conns, NEW e, conn' = [conn EXCEPT ![c] = e], e \in Ends,
         UNCHANGED <<engine, client, listener, registry, name>>, Owned(c)'
  PROVE  TunnelInv'
  <1>1. conn' \in [Conns -> Ends] /\ \A d \in Conns : d # c => conn'[d] = conn[d]
    BY DEF TunnelInv, TunnelTypes
  <1>2. \A d \in Conns : Owned(d)'
    BY <1>1 DEF TunnelInv, Owned
  <1>. QED
    BY <1>1, <1>2 DEF TunnelInv, TunnelTypes, Reachable

\* A connection, field by field.
LEMMA Fields ==
  ASSUME NEW e \in Ends, NEW a \in {"none", "open", "closed"}, NEW b \in {"none", "open", "closed"},
         NEW d \in {"no", "waited", "abandoned", "forward"}, NEW u \in BOOLEAN, NEW v \in BOOLEAN
  PROVE  /\ [e EXCEPT !.driver = a] \in Ends /\ [e EXCEPT !.remote = b] \in Ends
         /\ [e EXCEPT !.dial = d] \in Ends /\ [e EXCEPT !.up = u] \in Ends
         /\ [e EXCEPT !.down = v] \in Ends
  BY DEF Ends

\* The steps of one connection.
LEMMA ConnStep ==
  ASSUME TunnelInv, NEW c \in Conns,
         \/ StartDial(c) \/ GiveUpDial(c) \/ Accept(c) \/ Carry(c)
         \/ DriverCloses(c) \/ DatabaseCloses(c) \/ CopyDownFails(c)
  PROVE  TunnelInv'
  <1>0. /\ conn \in [Conns -> Ends] /\ conn[c] \in Ends /\ Owned(c)
        /\ engine \in Dialing \cup Forwarding /\ Dialing \cap Forwarding = {}
    BY DEF TunnelInv, TunnelTypes, Dialing, Forwarding
  <1>1. UNCHANGED <<engine, client, listener, registry, name>>
    BY DEF StartDial, GiveUpDial, Accept, Carry, DialEnds, Forward, CopyUpEnds,
           CopyDownEnds, DriverCloses, DatabaseCloses, CopyDownFails
  <1>2. ASSUME NEW e \in Ends, Set(c, e), Owned(c)' PROVE TunnelInv'
    BY <1>1, <1>2, OneConn DEF Set
  <1>3. ASSUME NEW e, Set(c, e) PROVE conn'[c] = e
    BY <1>0, <1>3 DEF Set
  <1> HIDE DEF Set
  <1>4. CASE StartDial(c)
    <2> DEFINE e == [NoConn EXCEPT !.dial = "waited"]
    <2>1. e \in Ends
      BY DEF Ends, NoConn
    <2>2. Set(c, e)
      BY <1>4 DEF StartDial
    <2>3. Owned(c)'
      BY <1>0, <1>1, <1>3, <1>4, <2>2 DEF Owned, StartDial, NoConn
    <2>. QED
      BY <1>2, <2>1, <2>2, <2>3
  <1>5. CASE GiveUpDial(c)
    <2> DEFINE e == [conn[c] EXCEPT !.dial = "abandoned"]
    <2>1. e \in Ends
      BY <1>0 DEF Ends
    <2>2. Set(c, e)
      BY <1>5 DEF GiveUpDial
    <2>3. Owned(c)'
      BY <1>0, <1>1, <1>3, <1>5, <2>2 DEF Owned, GiveUpDial, NoConn, Ends
    <2>. QED
      BY <1>2, <2>1, <2>2, <2>3
  <1>6. CASE Accept(c)
    <2> DEFINE e == [NoConn EXCEPT !.driver = "open", !.dial = "forward"]
    <2>1. e \in Ends
      BY DEF Ends, NoConn
    <2>2. Set(c, e)
      BY <1>6 DEF Accept
    <2>3. engine \in Forwarding
      BY <1>6 DEF Accept, TunnelInv, Reachable
    <2>4. Owned(c)'
      BY <1>0, <1>1, <1>3, <2>2, <2>3 DEF Owned, NoConn
    <2>. QED
      BY <1>2, <2>1, <2>2, <2>4
  <1>7. CASE DialEnds(c)
    <2> DEFINE e == [conn[c] EXCEPT !.remote = "open", !.dial = "no",
                       !.driver = IF conn[c].dial = "waited" THEN "open" ELSE "closed"]
               f == [conn[c] EXCEPT !.dial = "no", !.driver = "closed"]
    <2>1. e \in Ends /\ f \in Ends
      BY <1>0 DEF Ends
    <2>2. (Set(c, e) /\ client = "open") \/ Set(c, f)
      BY <1>7 DEF DialEnds
    <2>3. Owned(c)'
      BY <1>0, <1>1, <1>3, <1>7, <2>2 DEF Owned, DialEnds, NoConn, Ends
    <2>. QED
      BY <1>2, <2>1, <2>2, <2>3
  <1>8. CASE Forward(c)
    <2> DEFINE e == [conn[c] EXCEPT !.remote = "open", !.dial = "no", !.up = TRUE, !.down = TRUE]
               f == [conn[c] EXCEPT !.dial = "no", !.driver = "closed"]
    <2>1. e \in Ends /\ f \in Ends
      BY <1>0 DEF Ends
    <2>2. (Set(c, e) /\ client = "open") \/ Set(c, f)
      BY <1>8 DEF Forward
    <2>3. engine \in Forwarding /\ engine \notin Dialing /\ conn[c].dial = "forward"
      BY <1>0, <1>8 DEF Owned, Forward
    <2>4. CASE Set(c, e) /\ client = "open"
      <3>1. conn'[c] = e /\ conn[c].driver # "none"
        BY <1>0, <1>3, <2>3, <2>4 DEF Owned, NoConn
      <3>2. Owned(c)'
        BY <1>0, <1>1, <2>3, <2>4, <3>1 DEF Owned, Ends
      <3>. QED
        BY <1>2, <2>1, <2>4, <3>2
    <2>5. CASE Set(c, f)
      <3>1. conn'[c] = f
        BY <1>3, <2>5
      <3>2. Owned(c)'
        BY <1>0, <1>1, <2>3, <3>1 DEF Owned, Ends
      <3>. QED
        BY <1>2, <2>1, <2>5, <3>2
    <2>. QED
      BY <2>2, <2>4, <2>5
  <1>9. CASE CopyUpEnds(c)
    <2> DEFINE e == [conn[c] EXCEPT !.up = FALSE]
    <2>1. e \in Ends
      BY <1>0 DEF Ends
    <2>2. Set(c, e)
      BY <1>9 DEF CopyUpEnds
    <2>3. Owned(c)'
      BY <1>0, <1>1, <1>3, <1>9, <2>2 DEF Owned, CopyUpEnds, NoConn, Ends
    <2>. QED
      BY <1>2, <2>1, <2>2, <2>3
  <1>10. CASE CopyDownEnds(c)
    <2> DEFINE e == [conn[c] EXCEPT !.down = FALSE, !.driver = "closed"]
    <2>1. e \in Ends
      BY <1>0 DEF Ends
    <2>2. Set(c, e)
      BY <1>10 DEF CopyDownEnds
    <2>3. Owned(c)'
      BY <1>0, <1>1, <1>3, <1>10, <2>2 DEF Owned, CopyDownEnds, NoConn, Ends
    <2>. QED
      BY <1>2, <2>1, <2>2, <2>3
  <1>11. CASE CopyDownFails(c)
    <2> DEFINE e == [conn[c] EXCEPT !.down = FALSE, !.remote = "closed"]
    <2>1. e \in Ends
      BY <1>0 DEF Ends
    <2>2. Set(c, e)
      BY <1>11 DEF CopyDownFails
    <2>3. Owned(c)'
      BY <1>0, <1>1, <1>3, <1>11, <2>2 DEF Owned, CopyDownFails, NoConn, Ends
    <2>. QED
      BY <1>2, <2>1, <2>2, <2>3
  <1>12. CASE DriverCloses(c)
    <2> DEFINE e == [conn[c] EXCEPT !.driver = "closed",
                       !.remote = IF engine \in Dialing THEN "closed" ELSE @]
    <2>1. e \in Ends
      BY <1>0 DEF Ends
    <2>2. Set(c, e)
      BY <1>12 DEF DriverCloses
    <2>3. Owned(c)'
      BY <1>0, <1>1, <1>3, <1>12, <2>2 DEF Owned, DriverCloses, NoConn, Ends
    <2>. QED
      BY <1>2, <2>1, <2>2, <2>3
  <1>13. CASE DatabaseCloses(c)
    <2> DEFINE e == [conn[c] EXCEPT !.remote = "closed"]
    <2>1. e \in Ends
      BY <1>0 DEF Ends
    <2>2. Set(c, e)
      BY <1>13 DEF DatabaseCloses
    <2>3. Owned(c)'
      BY <1>0, <1>1, <1>3, <1>13, <2>2 DEF Owned, DatabaseCloses, NoConn, Ends
    <2>. QED
      BY <1>2, <2>1, <2>2, <2>3
  <1>. QED
    BY <1>4, <1>5, <1>6, <1>7, <1>8, <1>9, <1>10, <1>11, <1>12, <1>13 DEF Carry

\* When the client ends, its channels do, and their copies see it.
LEMMA ChannelsEnd ==
  ASSUME TunnelInv, CloseChannels, client' = "closed", engine' = engine
  PROVE  conn' \in [Conns -> Ends] /\ \A c \in Conns : Owned(c)'
  <1>1. ASSUME NEW c \in Conns PROVE conn'[c] \in Ends /\ Owned(c)'
    <2>1. /\ conn[c] \in Ends /\ Owned(c)
          /\ conn'[c] = IF conn[c].remote = "open" THEN [conn[c] EXCEPT !.remote = "closed"]
                                                   ELSE conn[c]
      BY DEF TunnelInv, TunnelTypes, CloseChannels
    <2>2. CASE conn[c].remote = "open"
      <3>1. conn'[c] = [conn[c] EXCEPT !.remote = "closed"]
        BY <2>1, <2>2
      <3>. QED
        BY <2>1, <2>2, <3>1 DEF Owned, Ends, NoConn
    <2>3. CASE conn[c].remote # "open"
      BY <2>1, <2>3 DEF Owned
    <2>. QED
      BY <2>2, <2>3
  <1>. QED
    BY <1>1 DEF CloseChannels

\* Opening, closing and losing the client.
LEMMA ClientStep == ASSUME TunnelInv, Open \/ Close \/ Lost PROVE TunnelInv'
  <1>0. TunnelTypes /\ Reachable /\ \A c \in Conns : Owned(c)
    BY DEF TunnelInv
  <1>1. CASE Open
    <2>1. UNCHANGED <<engine, conn>> /\ client = "none" /\ client' \in {"open", "closed"}
      BY <1>1 DEF Open, OpenMySQL, OpenPG, OpenMSSQL, OpenClickHouse, OpenOracle, OpenByteHouse,
                  OpenForwarder, Fails, Connects
    <2>2. /\ listener' # listener => listener' = "open" /\ registry' = TRUE
                                     /\ engine \in Forwarding
          /\ client' = "open" => registry' = TRUE
          /\ registry' = registry \/ registry' = TRUE
          /\ name' = name \/ name' = TRUE
      BY <1>1 DEF Open, OpenMySQL, OpenPG, OpenMSSQL, OpenClickHouse, OpenOracle, OpenByteHouse,
                  OpenForwarder, Fails, Connects, Forwarding
    <2>3. \A c \in Conns : Owned(c)'
      BY <1>0, <2>1 DEF Owned
    <2>4. TunnelTypes'
      BY <1>0, <2>1, <2>2 DEF TunnelTypes
    <2>5. Reachable'
      BY <1>0, <2>1, <2>2 DEF TunnelTypes, Reachable
    <2>. QED
      BY <2>3, <2>4, <2>5 DEF TunnelInv
  <1>2. CASE Close
    <2>1. /\ engine' = engine /\ client' = "closed" /\ CloseChannels /\ registry' = FALSE
          /\ listener' = (IF listener = "open" THEN "closed" ELSE listener)
          /\ name' = name \/ name' = FALSE
      BY <1>2 DEF Close, CloseMySQL, ClosePG, CloseMSSQL, CloseForwarder, CloserOf
    <2>. QED
      BY <1>0, <2>1, ChannelsEnd DEF TunnelInv, TunnelTypes, Reachable
  <1>3. CASE Lost
    <2>1. /\ client' = "closed" /\ CloseChannels
          /\ UNCHANGED <<engine, listener, registry, name>>
      BY <1>3 DEF Lost
    <2>. QED
      BY <1>0, <2>1, ChannelsEnd DEF TunnelInv, TunnelTypes, Reachable
  <1>. QED
    BY <1>1, <1>2, <1>3

\* Whatever the driver, the database, the bastion and the pool do, each end of a connection keeps
\* the goroutine that will end it.
THEOREM TunnelInvariance == Spec => []TunnelInv
  <1>1. Init => TunnelInv
    <2> SUFFICES ASSUME Init PROVE TunnelInv
      OBVIOUS
    <2>1. conn \in [Conns -> Ends] /\ \A c \in Conns : conn[c] = NoConn
      BY NoConnType DEF Init
    <2>. QED
      BY <2>1 DEF Init, TunnelInv, TunnelTypes, Reachable, Owned, NoConn
  <1>2. TunnelInv /\ [Next]_vars => TunnelInv'
    <2>1. ASSUME TunnelInv, UNCHANGED vars PROVE TunnelInv'
      BY <2>1 DEF vars, TunnelInv, TunnelTypes, Reachable, Owned
    <2>. QED
      BY <2>1, ConnStep, ClientStep DEF Next
  <1>. QED
    BY <1>1, <1>2, PTL DEF Spec

\* RegisterSSHDialer and its closers leave nothing open that the registry does not hold, and no
\* connection that its own goroutines will not end: the safety half of CloserEndsAll.
THEOREM TunnelSafety == Spec => []NothingStranded
  <1>1. ASSUME TunnelInv PROVE NothingStranded
    <2>0. TunnelTypes /\ Reachable /\ \A c \in Conns : Owned(c)
      BY <1>1 DEF TunnelInv
    <2>1. ASSUME NEW c \in Conns, client = "closed", ~Ended(c) PROVE Carried(c)
      <3>1. conn[c] \in Ends /\ Owned(c) /\ engine \in Dialing \cup Forwarding
        BY <2>0 DEF TunnelTypes
      <3>. QED
        BY <2>1, <3>1 DEF Owned, Ended, Carried, Ends
    <2>. QED
      BY <2>0, <2>1 DEF NothingStranded, Reachable, Owned
  <1>. QED
    BY <1>1, TunnelInvariance, PTL
=============================================================================
