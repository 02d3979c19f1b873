----------------------------- MODULE AgentRelay -----------------------------
(***************************************************************************)
(* Queries routed through connectors (package agent).                      *)
(*                                                                         *)
(* A connector dials the server and keeps one WebSocket open.  The         *)
(* server's handler of that socket authenticates it, enters it in the      *)
(* registry and then reads frames for ever, handing each to the request    *)
(* it belongs to.  A request looks the connector up, subscribes a channel  *)
(* under a fresh id, sends its statement and collects frames until the     *)
(* answer is complete, fails, or its context ends.                         *)
(*                                                                         *)
(* The connector program is not part of the repository: it is modelled     *)
(* from the protocol, as running each statement it receives and sending    *)
(* the frames of the answer in order.                                      *)
(***************************************************************************)
EXTENDS Naturals, Sequences, FiniteSets

CONSTANTS
  Agents,      \* rows of the table agents
  Conns,       \* WebSocket connections that connectors open
  AgentOf,     \* AgentOf[c]: the agent whose token the connector of c holds
  Requests,    \* calls of AgentExecutor.Run
  TargetOf,    \* TargetOf[r]: the agent that the connection of r goes through
  Batches,     \* query_rows frames of one answer
  BufCap,      \* capacity of a subscribed channel (16)
  NetCap,      \* bound: frames under way on one socket
  NoConn

ASSUME RelayAssumption == /\ AgentOf \in [Conns -> Agents]
                          /\ TargetOf \in [Requests -> Agents]
                          /\ NoConn \notin Conns
                          /\ Batches \in Nat
                          /\ BufCap \in Nat \ {0}
                          /\ NetCap \in Nat \ {0}

\* The frames of an answer are numbered: query_meta, the batches of query_rows,
\* and query_done; query_error takes the place of whatever was due.
Meta == 0
Done == Batches + 1
Error == Batches + 2
Rows == 1..Batches
Frame == [req : Requests, n : Meta..Error]

VARIABLES
  agentRow,  \* agentRow[a]: "none", "live" or "deleted"
  info,      \* info[a]: address, system and version in that row: "none", "known", "blank"
  stage,     \* stage[c]: how far the handler of c is
  held,      \* held[c]: the frame dispatch has found a channel for, as a sequence
  lock,      \* the handler inside Register, which holds the registry's lock
  registry,  \* registry[a]: Registry.m
  socket,    \* socket[c]: "open", "gone" (reads may still yield data) or "dead"
  waiters,   \* waiters[c]: the keys of Conn.waiters
  closed,    \* requests whose channel is closed
  chan,      \* chan[r]: the channel of r
  down,      \* down[c]: query_request messages on their way to the connector
  up,        \* up[c]: frames on their way to the server
  ran,       \* ran[r]: how often the connector ran the statement of r
  progress,  \* progress[r]: the next frame of the answer to r
  rpc,       \* rpc[r]: how far the call is
  rconn,     \* rconn[r]: the Conn the executor holds
  expired,   \* requests whose context is done
  got,       \* got[r]: the frames collected
  verdict,   \* verdict[r]: what Run is about to return
  result,    \* result[r]: what it returned
  newest     \* history: newest[a] is the connection registered last

storeVars == <<agentRow, info>>
brokerVars == <<stage, held, lock, registry, newest>>
slotVars == <<waiters, closed, chan>>
wireVars == <<down, up>>
connectorVars == <<ran, progress>>
callVars == <<rpc, rconn, got, verdict, result>>
vars == <<storeVars, brokerVars, socket, slotVars, wireVars, connectorVars,
          callVars, expired>>

Init ==
  /\ agentRow \in [Agents -> {"none", "live"}]
  /\ info = [a \in Agents |-> "none"]
  /\ stage = [c \in Conns |-> "none"]
  /\ held = [c \in Conns |-> <<>>]
  /\ lock = NoConn
  /\ registry = [a \in Agents |-> NoConn]
  /\ socket = [c \in Conns |-> "dead"]
  /\ waiters = [c \in Conns |-> {}]
  /\ closed = {}
  /\ chan = [r \in Requests |-> <<>>]
  /\ down = [c \in Conns |-> {}]
  /\ up = [c \in Conns |-> <<>>]
  /\ ran = [r \in Requests |-> 0]
  /\ progress = [r \in Requests |-> Meta]
  /\ rpc = [r \in Requests |-> "idle"]
  /\ rconn = [r \in Requests |-> NoConn]
  /\ expired = {}
  /\ got = [r \in Requests |-> <<>>]
  /\ verdict = [r \in Requests |-> "none"]
  /\ result = [r \in Requests |-> "none"]
  /\ newest = [a \in Agents |-> NoConn]

----------------------------------------------------------------------------
(***************************************************************************)
(* The rows of agents.                                                     *)
(***************************************************************************)
CreateAgent(a) == /\ agentRow[a] = "none"
                  /\ agentRow' = [agentRow EXCEPT ![a] = "live"]
                  /\ UNCHANGED <<info, brokerVars, socket, slotVars, wireVars,
                                 connectorVars, callVars, expired>>

\* Deleting the row leaves a live connection as it is.
DeleteAgent(a) == /\ agentRow[a] = "live"
                  /\ agentRow' = [agentRow EXCEPT ![a] = "deleted"]
                  /\ UNCHANGED <<info, brokerVars, socket, slotVars, wireVars,
                                 connectorVars, callVars, expired>>

----------------------------------------------------------------------------
(***************************************************************************)
(* The handler of one connector connection.                                *)
(***************************************************************************)
Accept(c) == /\ stage[c] = "none"
             /\ stage' = [stage EXCEPT ![c] = "hello"]
             /\ socket' = [socket EXCEPT ![c] = "open"]
             /\ UNCHANGED <<storeVars, held, lock, registry, newest, slotVars, wireVars,
                            connectorVars, callVars, expired>>

\* A token of a live row lets the connection in, and the row notes who called.
Hello(c) == /\ stage[c] = "hello"
            /\ socket[c] # "dead"
            /\ agentRow[AgentOf[c]] = "live"
            /\ stage' = [stage EXCEPT ![c] = "known"]
            /\ info' = [info EXCEPT ![AgentOf[c]] = "known"]
            /\ UNCHANGED <<agentRow, held, lock, registry, newest, socket, slotVars,
                           wireVars, connectorVars, callVars, expired>>

\* No hello in time, no hello at all, or a token nobody has.
HelloFails(c) == /\ stage[c] = "hello"
                 /\ stage' = [stage EXCEPT ![c] = "returned"]
                 /\ socket' = [socket EXCEPT ![c] = "dead"]
                 /\ UNCHANGED <<storeVars, held, lock, registry, newest, slotVars,
                                wireVars, connectorVars, callVars, expired>>

\* Registry.Register, first half: with the lock held, the connection in place is
\* sent a close frame, and its answer awaited.
Kick(c) ==
  /\ stage[c] = "known"
  /\ lock = NoConn
  /\ lock' = c
  /\ stage' = [stage EXCEPT ![c] = "registering"]
  /\ socket' = [d \in Conns |-> IF d = registry[AgentOf[c]] /\ socket[d] = "open"
                                THEN "gone" ELSE socket[d]]
  /\ UNCHANGED <<storeVars, held, registry, newest, slotVars, wireVars, connectorVars,
                 callVars, expired>>

InstallClosing(c, kicked) ==
  /\ stage[c] = "registering"
  /\ registry' = [registry EXCEPT ![AgentOf[c]] = c]
  /\ newest' = [newest EXCEPT ![AgentOf[c]] = c]
  /\ socket' = [d \in Conns |-> IF d \in kicked THEN "dead" ELSE socket[d]]
  /\ lock' = NoConn
  /\ stage' = [stage EXCEPT ![c] = "registered"]
  /\ UNCHANGED <<storeVars, held, slotVars, wireVars, connectorVars, callVars, expired>>

\* Second half: the old socket is closed, the new connection takes its place.
Install(c) == InstallClosing(c, {registry[AgentOf[c]]})

SendAck(c) == /\ stage[c] = "registered"
              /\ \/ socket[c] # "dead" /\ stage' = [stage EXCEPT ![c] = "reading"]
                 \/ socket[c] # "open" /\ stage' = [stage EXCEPT ![c] = "leaving"]
              /\ UNCHANGED <<storeVars, held, lock, registry, newest, socket, slotVars,
                             wireVars, connectorVars, callVars, expired>>

\* The read loop: dispatch first looks the channel up, under the lock of waiters.
\* A frame for an id nobody waits for is logged and dropped.
Route(c) ==
  /\ stage[c] = "reading"
  /\ socket[c] # "dead"
  /\ up[c] # <<>>
  /\ up' = [up EXCEPT ![c] = Tail(@)]
  /\ IF Head(up[c]).req \in waiters[c]
       THEN /\ held' = [held EXCEPT ![c] = <<Head(up[c])>>]
            /\ stage' = [stage EXCEPT ![c] = "routing"]
            /\ UNCHANGED info
       ELSE /\ info' = [info EXCEPT ![AgentOf[c]] = "blank"]
            /\ UNCHANGED <<held, stage>>
  /\ UNCHANGED <<agentRow, lock, registry, newest, socket, slotVars, down, connectorVars,
                 callVars, expired>>

\* Then, without the lock, it offers the frame to the channel: a full channel drops
\* it, a channel closed in the meantime makes the send panic.
DeliverAs(c, extended) ==
  /\ stage[c] = "routing"
  /\ held' = [held EXCEPT ![c] = <<>>]
  /\ LET r == held[c][1].req IN
       IF r \in closed
       THEN /\ stage' = [stage EXCEPT ![c] = "leaving"]
            /\ UNCHANGED <<chan, info>>
       ELSE /\ chan' = IF Len(chan[r]) < BufCap THEN [chan EXCEPT ![r] = extended]
                                                ELSE chan
            /\ info' = [info EXCEPT ![AgentOf[c]] = "blank"]
            /\ stage' = [stage EXCEPT ![c] = "reading"]
  /\ UNCHANGED <<agentRow, lock, registry, newest, socket, waiters, closed, wireVars,
                 connectorVars, callVars, expired>>

\* Mutant: a channel that is full makes room by forgetting what it holds.
MutDeliverNewest(c) == DeliverAs(c, <<held[c][1].n>>)

Deliver(c) == DeliverAs(c, Append(chan[held[c][1].req], held[c][1].n))

\* A read of a broken socket fails, and so does one that waits for 90 seconds.
ReadEnds(c, failed) == /\ stage[c] = "reading"
                       /\ failed
                       /\ stage' = [stage EXCEPT ![c] = "leaving"]
                       /\ socket' = [socket EXCEPT ![c] = "dead"]
                       /\ UNCHANGED <<storeVars, held, lock, registry, newest, slotVars,
                                      wireVars, connectorVars, callVars, expired>>
ReadFails(c) == ReadEnds(c, socket[c] # "open")
ReadDeadline(c) == ReadEnds(c, up[c] = <<>>)

UnregisterIf(c, mine) ==
  /\ stage[c] = "leaving"
  /\ lock = NoConn
  /\ registry' = IF mine THEN [registry EXCEPT ![AgentOf[c]] = NoConn] ELSE registry
  /\ stage' = [stage EXCEPT ![c] = "unregistered"]
  /\ UNCHANGED <<storeVars, held, lock, newest, socket, slotVars, wireVars, connectorVars,
                 callVars, expired>>

\* Mutant: whatever the registry holds for the agent is removed.
MutUnregisterAny(c) == UnregisterIf(c, TRUE)
\* Mutant: the entry stays, for the connection that replaces it.
MutUnregisterNothing(c) == UnregisterIf(c, FALSE)

\* The deferred calls: Registry.Unregister, then cancel and CloseNow.
Unregister(c) == UnregisterIf(c, registry[AgentOf[c]] = c)

CloseNow(c) == /\ stage[c] = "unregistered"
               /\ socket' = [socket EXCEPT ![c] = "dead"]
               /\ stage' = [stage EXCEPT ![c] = "returned"]
               /\ UNCHANGED <<storeVars, held, lock, registry, newest, slotVars, wireVars,
                              connectorVars, callVars, expired>>

----------------------------------------------------------------------------
(***************************************************************************)
(* A request: executorForQuery and AgentExecutor.Run.                      *)
(***************************************************************************)
\* The row of the connection names an agent; deleting the agent clears it.
Resolve(r) == /\ rpc[r] = "idle"
              /\ agentRow[TargetOf[r]] = "live"
              /\ rpc' = [rpc EXCEPT ![r] = "resolved"]
              /\ UNCHANGED <<storeVars, brokerVars, socket, slotVars, wireVars,
                             connectorVars, rconn, got, verdict, result, expired>>

LookupIf(r, offline) ==
  /\ rpc[r] = "resolved"
  /\ lock = NoConn
  /\ rconn' = [rconn EXCEPT ![r] = registry[TargetOf[r]]]
  /\ IF offline
       THEN /\ rpc' = [rpc EXCEPT ![r] = "done"]
            /\ result' = [result EXCEPT ![r] = "offline"]
       ELSE /\ rpc' = [rpc EXCEPT ![r] = "found"]
            /\ UNCHANGED result
  /\ UNCHANGED <<storeVars, brokerVars, socket, slotVars, wireVars, connectorVars, got,
                 verdict, expired>>

Lookup(r) == LookupIf(r, registry[TargetOf[r]] = NoConn)

Subscribe(r) == /\ rpc[r] = "found"
                /\ waiters' = [waiters EXCEPT ![rconn[r]] = @ \cup {r}]
                /\ rpc' = [rpc EXCEPT ![r] = "subscribed"]
                /\ UNCHANGED <<storeVars, brokerVars, socket, closed, chan, wireVars,
                               connectorVars, rconn, got, verdict, result, expired>>

\* A write that succeeds reaches the connector unless the socket is already gone.
Send(r) ==
  /\ rpc[r] = "subscribed"
  /\ socket[rconn[r]] # "dead"
  /\ rpc' = [rpc EXCEPT ![r] = "waiting"]
  /\ \/ down' = [down EXCEPT ![rconn[r]] = @ \cup {r}]
     \/ socket[rconn[r]] = "gone" /\ UNCHANGED down
  /\ UNCHANGED <<storeVars, brokerVars, socket, slotVars, up, connectorVars, rconn, got,
                 verdict, result, expired>>

SendFailsTo(r, next) ==
  /\ rpc[r] = "subscribed"
  /\ socket[rconn[r]] # "open" \/ r \in expired
  /\ verdict' = [verdict EXCEPT ![r] = "failed"]
  /\ rpc' = [rpc EXCEPT ![r] = next]
  /\ \/ UNCHANGED <<socket, down>>
     \/ /\ r \in expired
        /\ socket' = [socket EXCEPT ![rconn[r]] = "dead"]
        /\ \/ down' = [down EXCEPT ![rconn[r]] = @ \cup {r}]
           \/ UNCHANGED down
  /\ UNCHANGED <<storeVars, brokerVars, slotVars, up, connectorVars, rconn, got, result,
                 expired>>

\* Mutant: a failed send looks the connector up and sends again.
MutSendAgain(r) == SendFailsTo(r, "resolved")

\* A context that ends in the middle of a write closes the socket, for all of the
\* requests that share it; the message may be out by then.
SendFails(r) == SendFailsTo(r, "leaving")

\* The loop of Run: meta and rows are collected, done and error end it.
Receive(r) ==
  /\ rpc[r] = "waiting"
  /\ chan[r] # <<>>
  /\ chan' = [chan EXCEPT ![r] = Tail(@)]
  /\ CASE Head(chan[r]) \in Rows \cup {Meta} ->
            /\ got' = [got EXCEPT ![r] = Append(@, Head(chan[r]))]
            /\ UNCHANGED <<rpc, verdict>>
       [] Head(chan[r]) = Done ->
            /\ verdict' = [verdict EXCEPT ![r] = "ok"]
            /\ rpc' = [rpc EXCEPT ![r] = "leaving"]
            /\ UNCHANGED got
       [] Head(chan[r]) = Error ->
            /\ verdict' = [verdict EXCEPT ![r] = "failed"]
            /\ rpc' = [rpc EXCEPT ![r] = "leaving"]
            /\ UNCHANGED got
  /\ UNCHANGED <<storeVars, brokerVars, socket, waiters, closed, wireVars, connectorVars,
                 rconn, result, expired>>

\* Mutant: the loop listens to the channel only.
MutContextIgnored(r) == FALSE /\ UNCHANGED vars

ContextEnds(r) == /\ rpc[r] = "waiting"
                  /\ r \in expired
                  /\ verdict' = [verdict EXCEPT ![r] = "failed"]
                  /\ rpc' = [rpc EXCEPT ![r] = "leaving"]
                  /\ UNCHANGED <<storeVars, brokerVars, socket, slotVars, wireVars,
                                 connectorVars, rconn, got, result, expired>>

\* The deferred unsubscribe closes the channel; Run returns.
Unsubscribe(r) ==
  /\ rpc[r] = "leaving"
  /\ waiters' = [waiters EXCEPT ![rconn[r]] = @ \ {r}]
  /\ closed' = IF r \in waiters[rconn[r]] THEN closed \cup {r} ELSE closed
  /\ result' = [result EXCEPT ![r] = verdict[r]]
  /\ rpc' = [rpc EXCEPT ![r] = "done"]
  /\ UNCHANGED <<storeVars, brokerVars, socket, chan, wireVars, connectorVars, rconn, got,
                 verdict, expired>>

----------------------------------------------------------------------------
(***************************************************************************)
(* The world outside: connectors, networks and clocks.                     *)
(***************************************************************************)
\* The connector runs what it receives, also when its socket has broken since.
RunStatement(c, r) ==
  /\ r \in down[c]
  /\ down' = [down EXCEPT ![c] = @ \ {r}]
  /\ ran' = [ran EXCEPT ![r] = @ + 1]
  /\ UNCHANGED <<storeVars, brokerVars, socket, slotVars, up, progress, callVars, expired>>

\* The next frame of an answer, or an error in its place, which ends it.
Answer(c, r, n) ==
  /\ socket[c] = "open"
  /\ rconn[r] = c /\ ran[r] > 0
  /\ progress[r] <= Done
  /\ n \in {progress[r], Error}
  /\ Len(up[c]) < NetCap
  /\ up' = [up EXCEPT ![c] = Append(@, [req |-> r, n |-> n])]
  /\ progress' = [progress EXCEPT ![r] = IF n = Error THEN Error ELSE n + 1]
  /\ UNCHANGED <<storeVars, brokerVars, socket, slotVars, down, ran, callVars, expired>>

PeerLeaves(c) == /\ socket[c] = "open"
                 /\ socket' = [socket EXCEPT ![c] = "gone"]
                 /\ UNCHANGED <<storeVars, brokerVars, slotVars, wireVars, connectorVars,
                                callVars, expired>>

\* The timeout of the HTTP request, or the client going away.
Expire(r) == /\ rpc[r] \notin {"idle", "done"}
             /\ r \notin expired
             /\ expired' = expired \cup {r}
             /\ UNCHANGED <<storeVars, brokerVars, socket, slotVars, wireVars,
                            connectorVars, callVars>>

----------------------------------------------------------------------------
Handler(c) == \/ Hello(c) \/ HelloFails(c) \/ Kick(c) \/ Install(c) \/ SendAck(c)
              \/ Route(c) \/ Deliver(c) \/ ReadFails(c) \/ Unregister(c) \/ CloseNow(c)
Call(r) == \/ Lookup(r) \/ Subscribe(r) \/ Send(r) \/ SendFails(r)
           \/ Receive(r) \/ ContextEnds(r) \/ Unsubscribe(r)
Connector(c) == \/ Accept(c) \/ PeerLeaves(c) \/ ReadDeadline(c)
                \/ \E r \in Requests : \/ RunStatement(c, r)
                                       \/ \E n \in Meta..Error : Answer(c, r, n)

Next == \/ \E a \in Agents : CreateAgent(a) \/ DeleteAgent(a)
        \/ \E c \in Conns : Handler(c) \/ Connector(c)
        \/ \E r \in Requests : Resolve(r) \/ Call(r) \/ Expire(r)

Spec == Init /\ [][Next]_vars

\* The server's goroutines keep running, a read of a broken socket returns, and a
\* request's context has a deadline (QueryTimeoutS, searchTimeout).
Fairness == /\ \A c \in Conns : WF_vars(Handler(c))
            /\ \A r \in Requests : WF_vars(Call(r)) /\ WF_vars(Expire(r))
FairSpec == Spec /\ Fairness

----------------------------------------------------------------------------
(***************************************************************************)
(* Properties.                                                             *)
(***************************************************************************)
InRegister == {"registered", "reading", "routing", "leaving"}
\* "One agent_id, one live connection": the registry leads to the connection that
\* registered last, for as long as its handler has not unregistered it, and to
\* nothing after that; every other connection that was ever let in is shut. A late
\* Unregister of the connection that was replaced, a handler that ends without
\* one, or a replacement that leaves the old socket open would break this.
OneLiveConnection ==
  /\ \A a \in Agents :
       registry[a] = IF newest[a] # NoConn /\ stage[newest[a]] \in InRegister
                     THEN newest[a] ELSE NoConn
  /\ \A c, d \in Conns :
       /\ c # d /\ AgentOf[c] = AgentOf[d]
       /\ stage[c] \in InRegister /\ stage[d] \in InRegister
       => socket[c] = "dead" \/ socket[d] = "dead"

\* A caller that is told "ok" has every frame of the answer.  It holds only while
\* the channel has room for the whole answer.
OkIsComplete ==
  \A r \in Requests : result[r] = "ok" => got[r] = [i \in 1..Batches + 1 |-> i - 1]

\* The relay keeps the promise of RemoteQuery to its callers.
Promise == INSTANCE RemoteQuery
KeepsPromise == Promise!RSpec

\* Every call ends, whatever becomes of the connector.
CallsEnd == \A r \in Requests : rpc[r] # "idle" ~> rpc[r] = "done"

\* A connection whose peer has gone is not found for ever.
NoZombies == \A c \in Conns : socket[c] # "open" ~> registry[AgentOf[c]] # c

=============================================================================
