-------------------------- MODULE AgentRelayProofs --------------------------
(***************************************************************************)
(* Theorems about AgentRelay, for any number of agents, connections and    *)
(* requests: the registry leads to the newest connection of an agent and   *)
(* to no other, the relay keeps the promise of RemoteQuery, and an answer  *)
(* a caller is told is "ok" is whole.                                      *)
(***************************************************************************)
EXTENDS AgentRelay, TLAPS

(***************************************************************************)
(* The broker: handlers, registry and sockets.                             *)
(***************************************************************************)
Stages == {"none", "hello", "known", "registering", "unregistered", "returned"} \cup InRegister
SocketStates == {"open", "gone", "dead"}
MaybeConn == Conns \cup {NoConn}

BrokerTypeOK ==
  /\ stage \in [Conns -> Stages]
  /\ socket \in [Conns -> SocketStates]
  /\ lock \in MaybeConn
  /\ registry \in [Agents -> MaybeConn]
  /\ newest \in [Agents -> MaybeConn]

\* The lock is held exactly by the handler that is inside Register.
LockHeld == \A c \in Conns : stage[c] = "registering" <=> lock = c

\* What registered last for an agent belongs to it and has been let in.
NewestRegistered == \A a \in Agents :
  newest[a] # NoConn =>
    /\ AgentOf[newest[a]] = a
    /\ stage[newest[a]] \notin {"none", "hello", "known", "registering"}

\* The registry leads to it until its handler unregisters it.
RegistryLeads == \A a \in Agents :
  registry[a] = IF newest[a] # NoConn /\ stage[newest[a]] \in InRegister
                THEN newest[a] ELSE NoConn

\* Every other connection whose handler has not unregistered it is shut.
OthersShut == \A c \in Conns :
  stage[c] \in InRegister => c = newest[AgentOf[c]] \/ socket[c] = "dead"

BrokerInv == BrokerTypeOK /\ LockHeld /\ NewestRegistered /\ RegistryLeads /\ OthersShut

USE RelayAssumption DEF MaybeConn

\* No socket of a handler that matters comes back to life.
ShutStayShut == \A c \in Conns :
  stage'[c] \in InRegister /\ socket[c] = "dead" => socket'[c] = "dead"

\* A step of no handler.
LEMMA OtherSteps ==
  ASSUME BrokerInv, UNCHANGED brokerVars, socket' \in [Conns -> SocketStates], ShutStayShut
  PROVE  BrokerInv'
  BY DEF BrokerInv, BrokerTypeOK, brokerVars, LockHeld, NewestRegistered, RegistryLeads,
         OthersShut, ShutStayShut

\* A handler goes from one stage to another, on the same side of the registry.
LEMMA HandlerMoves ==
  ASSUME BrokerInv, NEW c \in Conns, NEW s \in Stages \ {"registering"},
         stage' = [stage EXCEPT ![c] = s], UNCHANGED <<lock, registry, newest>>,
         stage[c] # "registering", s \in InRegister <=> stage[c] \in InRegister,
         stage[c] \in {"none", "hello", "known"} \/ s \notin {"none", "hello", "known"},
         socket' \in [Conns -> SocketStates], ShutStayShut
  PROVE  BrokerInv'
<1>1. BrokerTypeOK'  BY DEF BrokerInv, BrokerTypeOK
<1>2. LockHeld'  BY DEF BrokerInv, BrokerTypeOK, LockHeld
<1>3. NewestRegistered'  BY DEF BrokerInv, BrokerTypeOK, NewestRegistered
<1>4. RegistryLeads'  BY DEF BrokerInv, BrokerTypeOK, RegistryLeads
<1>5. OthersShut'  BY DEF BrokerInv, BrokerTypeOK, OthersShut, ShutStayShut
<1>6. QED  BY <1>1, <1>2, <1>3, <1>4, <1>5 DEF BrokerInv

LEMMA KickKeeps ==
  ASSUME BrokerInv, NEW c \in Conns, Kick(c)
  PROVE  BrokerInv'
<1> USE DEF Kick, BrokerInv, BrokerTypeOK
<1>1. BrokerTypeOK'  BY DEF Stages, SocketStates
<1>2. LockHeld'  BY DEF LockHeld
<1>3. NewestRegistered'  BY DEF NewestRegistered
<1>4. RegistryLeads'  BY DEF RegistryLeads, NewestRegistered, InRegister
<1>5. OthersShut'  BY DEF OthersShut, InRegister
<1>6. QED  BY <1>1, <1>2, <1>3, <1>4, <1>5 DEF BrokerInv

LEMMA InstallKeeps ==
  ASSUME BrokerInv, NEW c \in Conns, Install(c)
  PROVE  BrokerInv'
<1> DEFINE a == AgentOf[c]
<1>1. /\ stage[c] = "registering" /\ lock = c /\ lock' = NoConn
      /\ stage' = [stage EXCEPT ![c] = "registered"]
      /\ registry' = [registry EXCEPT ![a] = c] /\ newest' = [newest EXCEPT ![a] = c]
      /\ socket' = [d \in Conns |-> IF d \in {registry[a]} THEN "dead" ELSE socket[d]]
  BY DEF Install, InstallClosing, BrokerInv, LockHeld
<1>2. a \in Agents  OBVIOUS
<1> USE DEF BrokerInv, BrokerTypeOK
<1>3. BrokerTypeOK'  BY <1>1 DEF Stages, SocketStates, InRegister
<1>4. LockHeld'  BY <1>1 DEF LockHeld
<1>5. \A b \in Agents : b # a => newest'[b] = newest[b] /\ newest[b] # c
  BY <1>1, <1>2 DEF NewestRegistered
<1>6. NewestRegistered'  BY <1>1, <1>2, <1>5 DEF NewestRegistered
<1>7. RegistryLeads'  BY <1>1, <1>2, <1>5 DEF RegistryLeads, InRegister
<1>8. OthersShut'
  <2> SUFFICES ASSUME NEW d \in Conns, stage'[d] \in InRegister, d # newest'[AgentOf[d]]
               PROVE  socket'[d] = "dead"
    BY DEF OthersShut
  <2>1. d # c /\ stage[d] \in InRegister  BY <1>1, <1>2
  <2>2. CASE d = newest[AgentOf[d]]
    <3>1. AgentOf[d] = a  BY <1>1, <1>2, <2>2
    <3>2. registry[a] = d  BY <1>2, <2>1, <2>2, <3>1 DEF RegistryLeads
    <3>3. QED  BY <1>1, <3>2
  <2>3. CASE d # newest[AgentOf[d]]
    BY <1>1, <2>1, <2>3 DEF OthersShut
  <2>4. QED  BY <2>2, <2>3
<1>9. QED  BY <1>3, <1>4, <1>6, <1>7, <1>8 DEF BrokerInv

LEMMA UnregisterKeeps ==
  ASSUME BrokerInv, NEW c \in Conns, Unregister(c)
  PROVE  BrokerInv'
<1> DEFINE a == AgentOf[c]
<1>1. /\ stage[c] = "leaving" /\ stage' = [stage EXCEPT ![c] = "unregistered"]
      /\ registry' = IF registry[a] = c THEN [registry EXCEPT ![a] = NoConn] ELSE registry
      /\ UNCHANGED <<lock, newest, socket>>
  BY DEF Unregister, UnregisterIf
<1>2. a \in Agents  OBVIOUS
<1> USE DEF BrokerInv, BrokerTypeOK
<1>3. BrokerTypeOK'  BY <1>1 DEF Stages
<1>4. LockHeld'  BY <1>1 DEF LockHeld
<1>5. NewestRegistered'  BY <1>1 DEF NewestRegistered
<1>6. RegistryLeads'
  <2> SUFFICES ASSUME NEW b \in Agents
               PROVE  registry'[b] = IF newest[b] # NoConn /\ stage'[newest[b]] \in InRegister
                                     THEN newest[b] ELSE NoConn
    BY <1>1 DEF RegistryLeads
  <2>1. CASE newest[b] = c
    <3>1. a = b /\ registry[a] = c  BY <1>1, <2>1 DEF NewestRegistered, RegistryLeads, InRegister
    <3>2. QED  BY <1>1, <2>1, <3>1 DEF InRegister
  <2>2. CASE newest[b] # c
    <3>1. registry[b] # c /\ registry'[b] = registry[b]  BY <1>1, <2>2 DEF RegistryLeads
    <3>2. QED  BY <1>1, <2>2, <3>1 DEF RegistryLeads
  <2>3. QED  BY <2>1, <2>2
<1>7. OthersShut'  BY <1>1 DEF OthersShut, InRegister
<1>8. QED  BY <1>3, <1>4, <1>5, <1>6, <1>7 DEF BrokerInv

\* The stages before and after the registry.
LEMMA MovesKeep ==
  ASSUME BrokerInv, NEW c \in Conns,
         \/ Hello(c) \/ HelloFails(c) \/ SendAck(c) \/ Route(c) \/ Deliver(c)
         \/ ReadFails(c) \/ ReadDeadline(c) \/ CloseNow(c) \/ Accept(c)
  PROVE  BrokerInv'
<1> USE DEF InRegister
<1>1. /\ stage \in [Conns -> Stages] /\ socket \in [Conns -> SocketStates]
  BY DEF BrokerInv, BrokerTypeOK
<1>2. PICK s \in Stages \ {"registering"} :
        /\ stage' = [stage EXCEPT ![c] = s] /\ UNCHANGED <<lock, registry, newest>>
        /\ stage[c] # "registering" /\ (s \in InRegister <=> stage[c] \in InRegister)
        /\ stage[c] \in {"none", "hello", "known"} \/ s \notin {"none", "hello", "known"}
        /\ \/ socket' = socket \/ socket' = [socket EXCEPT ![c] = "dead"]
           \/ s = "hello" /\ socket' = [socket EXCEPT ![c] = "open"]
  <2> USE DEF Stages
  <2>1. CASE Hello(c)         BY <2>1 DEF Hello
  <2>2. CASE HelloFails(c)    BY <2>2 DEF HelloFails
  <2>3. CASE SendAck(c)       BY <2>3 DEF SendAck
  <2>4. CASE Route(c)
    <3>1. stage' = [stage EXCEPT ![c] = "routing"] \/ stage' = stage
      BY <2>4 DEF Route
    <3>2. stage' = stage => stage' = [stage EXCEPT ![c] = "reading"]
      BY <1>1, <2>4 DEF Route
    <3>3. stage[c] = "reading" /\ UNCHANGED <<lock, registry, newest, socket>>
      BY <2>4 DEF Route
    <3>4. QED  BY <3>1, <3>2, <3>3
  <2>5. CASE Deliver(c)
    <3>1. /\ stage[c] = "routing" /\ UNCHANGED <<lock, registry, newest, socket>>
          /\ \/ stage' = [stage EXCEPT ![c] = "leaving"]
             \/ stage' = [stage EXCEPT ![c] = "reading"]
      BY <2>5 DEF Deliver, DeliverAs
    <3>2. QED  BY <3>1
  <2>6. CASE ReadFails(c)     BY <2>6 DEF ReadFails, ReadEnds
  <2>7. CASE ReadDeadline(c)  BY <2>7 DEF ReadDeadline, ReadEnds
  <2>8. CASE CloseNow(c)      BY <2>8 DEF CloseNow
  <2>9. CASE Accept(c)        BY <2>9 DEF Accept
  <2>10. QED  BY <2>1, <2>2, <2>3, <2>4, <2>5, <2>6, <2>7, <2>8, <2>9
<1>3. socket' \in [Conns -> SocketStates] /\ ShutStayShut
  BY <1>1, <1>2 DEF SocketStates, ShutStayShut
<1>4. QED  BY <1>2, <1>3, HandlerMoves

\* Everybody else: sockets break, or are shut by a write whose context ends.
LEMMA OthersKeep ==
  ASSUME BrokerInv,
         \/ \E a \in Agents : CreateAgent(a) \/ DeleteAgent(a)
         \/ \E c \in Conns : PeerLeaves(c)
         \/ \E c \in Conns, r \in Requests : RunStatement(c, r)
         \/ \E c \in Conns, r \in Requests, n \in Meta..Error : Answer(c, r, n)
         \/ \E r \in Requests : Resolve(r) \/ Call(r) \/ Expire(r)
         \/ UNCHANGED vars
  PROVE  BrokerInv'
<1>1. socket \in [Conns -> SocketStates]
  BY DEF BrokerInv, BrokerTypeOK
<1>2. /\ UNCHANGED brokerVars
      /\ \/ socket' = socket
         \/ \E c : socket' = [socket EXCEPT ![c] = "dead"]
         \/ \E c : socket[c] = "open" /\ socket' = [socket EXCEPT ![c] = "gone"]
  <2>1. CASE \E a \in Agents : CreateAgent(a) \/ DeleteAgent(a)
    BY <2>1 DEF CreateAgent, DeleteAgent
  <2>2. CASE \E c \in Conns : PeerLeaves(c)  BY <2>2 DEF PeerLeaves
  <2>3. CASE \E c \in Conns, r \in Requests : RunStatement(c, r)
    BY <2>3 DEF RunStatement
  <2>4. CASE \E c \in Conns, r \in Requests, n \in Meta..Error : Answer(c, r, n)
    BY <2>4 DEF Answer
  <2>5. ASSUME NEW r \in Requests, Resolve(r) \/ Call(r) \/ Expire(r)
        PROVE  /\ UNCHANGED brokerVars
               /\ \/ socket' = socket
                  \/ \E c : socket' = [socket EXCEPT ![c] = "dead"]
                  \/ \E c : socket[c] = "open" /\ socket' = [socket EXCEPT ![c] = "gone"]
    <3>1. CASE Resolve(r)      BY <3>1 DEF Resolve
    <3>2. CASE Lookup(r)       BY <3>2 DEF Lookup, LookupIf
    <3>3. CASE Subscribe(r)    BY <3>3 DEF Subscribe
    <3>4. CASE Send(r)         BY <3>4 DEF Send
    <3>5. CASE SendFails(r)    BY <3>5 DEF SendFails, SendFailsTo
    <3>6. CASE Receive(r)      BY <3>6 DEF Receive
    <3>7. CASE ContextEnds(r)  BY <3>7 DEF ContextEnds
    <3>8. CASE Unsubscribe(r)  BY <3>8 DEF Unsubscribe
    <3>9. CASE Expire(r)       BY <3>9 DEF Expire
    <3>10. QED
      BY <2>5, <3>1, <3>2, <3>3, <3>4, <3>5, <3>6, <3>7, <3>8, <3>9 DEF Call
  <2>6. CASE UNCHANGED vars  BY <2>6 DEF vars, brokerVars
  <2>7. QED  BY <2>1, <2>2, <2>3, <2>4, <2>5, <2>6
<1>3. socket' \in [Conns -> SocketStates] /\ ShutStayShut
  BY <1>1, <1>2 DEF SocketStates, ShutStayShut
<1>4. QED  BY <1>2, <1>3, OtherSteps

\* The broker's invariant holds in every reachable state.
THEOREM BrokerInvariance == Spec => []BrokerInv
<1>1. Init => BrokerInv
  BY DEF Init, BrokerInv, BrokerTypeOK, LockHeld, NewestRegistered, RegistryLeads, OthersShut,
         Stages, SocketStates, InRegister
<1>2. BrokerInv /\ [Next]_vars => BrokerInv'
  <2> SUFFICES ASSUME BrokerInv, [Next]_vars  PROVE BrokerInv'
    OBVIOUS
  <2>1. ASSUME NEW c \in Conns, Handler(c) \/ Accept(c) \/ ReadDeadline(c)  PROVE BrokerInv'
    BY <2>1, MovesKeep, KickKeeps, InstallKeeps, UnregisterKeeps DEF Handler
  <2>2. ASSUME NEW c \in Conns, Connector(c), ~Accept(c), ~ReadDeadline(c)  PROVE BrokerInv'
    BY <2>2, OthersKeep DEF Connector
  <2>3. QED  BY <2>1, <2>2, OthersKeep DEF Next
<1>3. QED  BY <1>1, <1>2, PTL DEF Spec

\* "One agent_id, one live connection" (Registry.Register, Registry.Unregister,
\* the deferred calls of the broker's handler).
THEOREM OneLiveSafety == Spec => []OneLiveConnection
<1>1. BrokerInv => OneLiveConnection
  BY DEF BrokerInv, RegistryLeads, OthersShut, OneLiveConnection
<1>2. QED  BY <1>1, BrokerInvariance, PTL

(***************************************************************************)
(* The calls: what a caller may be told, and why.                          *)
(***************************************************************************)
Begun     == {"idle", "resolved"}
Unsent    == {"idle", "resolved", "found", "subscribed"}
RpcStages == Unsent \cup {"waiting", "leaving", "done"}

CallTypeOK ==
  /\ rpc \in [Requests -> RpcStages]
  /\ rconn \in [Requests -> MaybeConn]
  /\ ran \in [Requests -> Nat]
  /\ progress \in [Requests -> Meta..Error]
  /\ down \in [Conns -> SUBSET Requests]
  /\ up \in [Conns -> Seq(Frame)]
  /\ held \in [Conns -> Seq(Frame)]
  /\ chan \in [Requests -> Seq(Meta..Error)]
  /\ got \in [Requests -> Seq(Meta..Error)]
  /\ verdict \in [Requests -> {"none", "ok", "failed"}]
  /\ result \in [Requests -> {"none", "ok", "failed", "offline"}]
  /\ waiters \in [Conns -> SUBSET Requests]
  /\ closed \subseteq Requests

\* dispatch holds a frame exactly between its two halves.
HeldIsRouting == \A c \in Conns :
  IF stage[c] = "routing" THEN Len(held[c]) = 1 ELSE held[c] = <<>>

\* A frame with the id of r is on its way.
Carries(frames, r) == \E i \in DOMAIN frames : frames[i].req = r

\* A frame of r, wherever it is, was sent by the connector that ran r.
FramesAreAnswers(r) ==
  /\ chan[r] # <<>> => ran[r] = 1
  /\ \A c \in Conns : Carries(up[c], r) \/ Carries(held[c], r) => ran[r] = 1 /\ rconn[r] = c

\* A statement is on its way once, to the connection it was sent on.
SentOnce(r) ==
  /\ rpc[r] \in Unsent => ran[r] = 0 /\ verdict[r] = "none"
  /\ \A c \in Conns : r \in down[c] =>
       rconn[r] = c /\ ran[r] = 0 /\ rpc[r] \in {"waiting", "leaving", "done"}
  /\ ran[r] <= 1

\* What the caller is told, and what Run is about to tell it.
ToldTruly(r) ==
  /\ rpc[r] \in {"found", "subscribed", "waiting", "leaving"} => rconn[r] \in Conns
  /\ result[r] = "none" <=> rpc[r] # "done"
  /\ result[r] = "offline" => rconn[r] = NoConn /\ ran[r] = 0
  /\ rpc[r] = "leaving" => verdict[r] # "none"
  /\ verdict[r] = "ok" => ran[r] = 1

CallOK(r) == FramesAreAnswers(r) /\ SentOnce(r) /\ ToldTruly(r)
CallInv == CallTypeOK /\ HeldIsRouting /\ \A r \in Requests : CallOK(r)

LEMMA HeadAndTail ==
  ASSUME NEW S, NEW s \in Seq(S), s # <<>>
  PROVE  /\ Head(s) \in S /\ Head(s) = s[1] /\ 1 \in DOMAIN s
         /\ Tail(s) \in Seq(S) /\ Len(Tail(s)) = Len(s) - 1
         /\ \A i \in DOMAIN Tail(s) : i + 1 \in DOMAIN s /\ Tail(s)[i] = s[i + 1]
  OBVIOUS

LEMMA Frames == \A f \in Frame : f.req \in Requests /\ f.n \in Meta..Error
  BY DEF Frame

\* What a call's part of the invariant depends on, apart from the frames.
SameCall(q) ==
  /\ rpc'[q] = rpc[q] /\ rconn'[q] = rconn[q] /\ ran'[q] = ran[q]
  /\ verdict'[q] = verdict[q] /\ result'[q] = result[q]
  /\ \A c \in Conns : q \in down'[c] => q \in down[c]
\* No frame of q appears that was nowhere before.
NoNewFrames(q) ==
  /\ chan'[q] # <<>> => chan[q] # <<>> \/ \E c \in Conns : Carries(held[c], q)
  /\ \A c \in Conns : Carries(up'[c], q) \/ Carries(held'[c], q)
       => Carries(up[c], q) \/ Carries(held[c], q)

LEMMA SameCallKeeps ==
  ASSUME CallInv, NEW q \in Requests, SameCall(q), NoNewFrames(q)
  PROVE  CallOK(q)'
<1>1. FramesAreAnswers(q)'
  BY DEF CallInv, CallOK, SameCall, NoNewFrames, FramesAreAnswers
<1>2. SentOnce(q)'
  BY DEF CallInv, CallOK, SameCall, SentOnce
<1>3. ToldTruly(q)'
  BY DEF CallInv, CallOK, SameCall, ToldTruly
<1>4. QED  BY <1>1, <1>2, <1>3 DEF CallOK

\* The two halves of dispatch, and the other steps of handlers.
LEMMA RouteKeeps ==
  ASSUME CallInv, BrokerTypeOK, NEW c \in Conns, Route(c)
  PROVE  CallInv'
<1>1. /\ stage[c] = "reading" /\ up[c] \in Seq(Frame) /\ up[c] # <<>>
      /\ up' = [up EXCEPT ![c] = Tail(up[c])]
      /\ UNCHANGED <<chan, waiters, closed, down, connectorVars, callVars>>
      /\ held[c] = <<>>
  BY DEF Route, CallInv, CallTypeOK, slotVars, HeldIsRouting
<1>2. /\ Head(up[c]) \in Frame /\ Head(up[c]) = up[c][1] /\ 1 \in DOMAIN up[c]
      /\ Tail(up[c]) \in Seq(Frame)
      /\ \A i \in DOMAIN Tail(up[c]) : i + 1 \in DOMAIN up[c] /\ Tail(up[c])[i] = up[c][i + 1]
  BY <1>1, HeadAndTail
<1>3. \/ held' = [held EXCEPT ![c] = <<Head(up[c])>>] /\ stage' = [stage EXCEPT ![c] = "routing"]
      \/ UNCHANGED <<held, stage>>
  BY DEF Route
<1>4. CallTypeOK'
  <2>1. up' \in [Conns -> Seq(Frame)]
    BY <1>1, <1>2 DEF CallInv, CallTypeOK
  <2>2. <<Head(up[c])>> \in Seq(Frame)
    BY <1>2
  <2>3. held' \in [Conns -> Seq(Frame)]
    BY <1>3, <2>2 DEF CallInv, CallTypeOK
  <2>4. QED
    BY <1>1, <2>1, <2>3 DEF CallInv, CallTypeOK, connectorVars, callVars
<1>5. HeldIsRouting'
  <2>1. CASE held' = [held EXCEPT ![c] = <<Head(up[c])>>] /\ stage' = [stage EXCEPT ![c] = "routing"]
    BY <2>1 DEF CallInv, CallTypeOK, HeldIsRouting, BrokerTypeOK
  <2>2. CASE UNCHANGED <<held, stage>>
    BY <2>2 DEF CallInv, HeldIsRouting
  <2>3. QED  BY <1>3, <2>1, <2>2
<1>6. ASSUME NEW q \in Requests  PROVE CallOK(q)'
  <2>1. SameCall(q)  BY <1>1 DEF SameCall, connectorVars, callVars
  <2>2. ASSUME NEW d \in Conns, Carries(up'[d], q) \/ Carries(held'[d], q)
        PROVE  Carries(up[d], q) \/ Carries(held[d], q)
    <3>1. CASE d # c  BY <1>1, <1>3, <2>2, <3>1 DEF CallInv, CallTypeOK
    <3>2. CASE d = c
      <4>1. Carries(up'[c], q) => Carries(up[c], q)
        BY <1>1, <1>2 DEF Carries, CallInv, CallTypeOK
      <4>2. Carries(held'[c], q) => Carries(up[c], q)
        BY <1>1, <1>2, <1>3 DEF Carries, CallInv, CallTypeOK
      <4>3. QED  BY <2>2, <3>2, <4>1, <4>2
    <3>3. QED  BY <3>1, <3>2
  <2>3. NoNewFrames(q)  BY <1>1, <2>2 DEF NoNewFrames
  <2>4. QED  BY <2>1, <2>3, SameCallKeeps
<1>7. QED  BY <1>4, <1>5, <1>6 DEF CallInv

LEMMA DeliverKeeps ==
  ASSUME CallInv, BrokerTypeOK, NEW c \in Conns, Deliver(c)
  PROVE  CallInv'
<1> DEFINE f == held[c][1]
<1>1. /\ stage[c] = "routing" /\ held[c] \in Seq(Frame) /\ Len(held[c]) = 1
      /\ held' = [held EXCEPT ![c] = <<>>]
      /\ UNCHANGED <<waiters, closed, up, down, connectorVars, callVars>>
  BY DEF Deliver, DeliverAs, CallInv, CallTypeOK, wireVars, HeldIsRouting
<1>2. f \in Frame /\ f.req \in Requests /\ f.n \in Meta..Error /\ Carries(held[c], f.req)
  BY <1>1, Frames DEF Carries
<1>3. chan' = chan \/ chan' = [chan EXCEPT ![f.req] = Append(chan[f.req], f.n)]
  BY DEF Deliver, DeliverAs
<1>4. \/ stage' = [stage EXCEPT ![c] = "leaving"]
      \/ stage' = [stage EXCEPT ![c] = "reading"]
  BY DEF Deliver, DeliverAs
<1>5. CallTypeOK'
  <2>1. Append(chan[f.req], f.n) \in Seq(Meta..Error)
    BY <1>2 DEF CallInv, CallTypeOK
  <2>2. chan' \in [Requests -> Seq(Meta..Error)]
    BY <1>3, <2>1 DEF CallInv, CallTypeOK
  <2>3. held' \in [Conns -> Seq(Frame)]
    BY <1>1 DEF CallInv, CallTypeOK
  <2>4. QED
    BY <1>1, <2>2, <2>3 DEF CallInv, CallTypeOK, connectorVars, callVars
<1>6. HeldIsRouting'
  BY <1>1, <1>4 DEF CallInv, CallTypeOK, HeldIsRouting, BrokerTypeOK
<1>7. ASSUME NEW q \in Requests  PROVE CallOK(q)'
  <2>1. SameCall(q)  BY <1>1 DEF SameCall, connectorVars, callVars
  <2>2. chan'[q] # <<>> => chan[q] # <<>> \/ \E d \in Conns : Carries(held[d], q)
    <3>1. CASE q = f.req  BY <1>2, <3>1
    <3>2. CASE q # f.req  BY <1>3, <3>2 DEF CallInv, CallTypeOK
    <3>3. QED  BY <3>1, <3>2
  <2>3. \A d \in Conns : Carries(held'[d], q) => Carries(held[d], q)
    BY <1>1 DEF Carries, CallInv, CallTypeOK
  <2>4. NoNewFrames(q)  BY <1>1, <2>2, <2>3 DEF NoNewFrames
  <2>5. QED  BY <2>1, <2>4, SameCallKeeps
<1>8. QED  BY <1>5, <1>6, <1>7 DEF CallInv

\* A step that leaves the calls, their channels and the network alone.
LEMMA CallsUntouched ==
  ASSUME CallInv, BrokerTypeOK,
         UNCHANGED <<held, slotVars, wireVars, connectorVars, callVars>>,
         \A c \in Conns : stage'[c] = "routing" <=> stage[c] = "routing"
  PROVE  CallInv'
<1> USE DEF slotVars, wireVars, connectorVars, callVars
<1>1. CallTypeOK'  BY DEF CallInv, CallTypeOK
<1>2. HeldIsRouting'  BY DEF CallInv, HeldIsRouting
<1>3. \A q \in Requests : CallOK(q)'
  BY SameCallKeeps DEF SameCall, NoNewFrames
<1>4. QED  BY <1>1, <1>2, <1>3 DEF CallInv

\* A step of the call of r that leaves the frames alone: it is enough to look at r.
LEMMA OwnStep ==
  ASSUME CallInv, NEW r \in Requests, CallTypeOK', UNCHANGED <<stage, held, up>>,
         \A q \in Requests : q # r => SameCall(q) /\ chan'[q] = chan[q],
         CallOK(r)'
  PROVE  CallInv'
<1>1. HeldIsRouting'  BY DEF CallInv, HeldIsRouting
<1>2. \A q \in Requests : q # r => CallOK(q)'
  BY SameCallKeeps DEF NoNewFrames
<1>3. QED  BY <1>1, <1>2 DEF CallInv

USE DEF storeVars, brokerVars, slotVars, wireVars, connectorVars, callVars

LEMMA ResolveKeeps ==
  ASSUME CallInv, NEW r \in Requests, Resolve(r)
  PROVE  CallInv'
<1>1. /\ rpc[r] = "idle" /\ rpc' = [rpc EXCEPT ![r] = "resolved"]
      /\ UNCHANGED <<brokerVars, slotVars, wireVars, connectorVars, rconn, got, verdict, result>>
  BY DEF Resolve
<1>2. CallTypeOK'  BY <1>1 DEF CallInv, CallTypeOK, RpcStages, Unsent
<1>3. CallOK(r)'
  BY <1>1 DEF CallInv, CallTypeOK, CallOK, FramesAreAnswers, SentOnce, ToldTruly, Unsent
<1>4. QED  BY <1>1, <1>2, <1>3, OwnStep DEF SameCall, CallInv, CallTypeOK

LEMMA LookupKeeps ==
  ASSUME CallInv, BrokerTypeOK, NEW r \in Requests, Lookup(r)
  PROVE  CallInv'
<1> DEFINE c == registry[TargetOf[r]]
<1>1. /\ rpc[r] = "resolved" /\ rconn' = [rconn EXCEPT ![r] = c]
      /\ UNCHANGED <<brokerVars, slotVars, wireVars, connectorVars, got, verdict>>
      /\ \/ /\ c = NoConn /\ rpc' = [rpc EXCEPT ![r] = "done"]
            /\ result' = [result EXCEPT ![r] = "offline"]
         \/ c # NoConn /\ rpc' = [rpc EXCEPT ![r] = "found"] /\ UNCHANGED result
  BY DEF Lookup, LookupIf
<1>2. c \in MaybeConn  BY DEF BrokerTypeOK
<1>3. CallTypeOK'  BY <1>1, <1>2 DEF CallInv, CallTypeOK, RpcStages, Unsent
<1>4. FramesAreAnswers(r)'
  BY <1>1 DEF CallInv, CallTypeOK, CallOK, FramesAreAnswers, SentOnce, Unsent
<1>5. SentOnce(r)'
  BY <1>1 DEF CallInv, CallTypeOK, CallOK, SentOnce, Unsent
<1>6. ToldTruly(r)'
  BY <1>1, <1>2 DEF CallInv, CallTypeOK, CallOK, SentOnce, ToldTruly, Unsent
<1>7. QED
  BY <1>1, <1>3, <1>4, <1>5, <1>6, OwnStep DEF CallOK, SameCall, CallInv, CallTypeOK

LEMMA SubscribeKeeps ==
  ASSUME CallInv, NEW r \in Requests, Subscribe(r)
  PROVE  CallInv'
<1>1. /\ rpc[r] = "found" /\ rpc' = [rpc EXCEPT ![r] = "subscribed"]
      /\ waiters' = [waiters EXCEPT ![rconn[r]] = @ \cup {r}]
      /\ UNCHANGED <<brokerVars, closed, chan, wireVars, connectorVars, rconn, got, verdict, result>>
  BY DEF Subscribe
<1>2. CallTypeOK'  BY <1>1 DEF CallInv, CallTypeOK, RpcStages, Unsent
<1>3. CallOK(r)'
  BY <1>1 DEF CallInv, CallTypeOK, CallOK, FramesAreAnswers, SentOnce, ToldTruly, Unsent
<1>4. QED  BY <1>1, <1>2, <1>3, OwnStep DEF SameCall, CallInv, CallTypeOK

\* The statement goes out, or fails to, or does both.
LEMMA SendKeeps ==
  ASSUME CallInv, NEW r \in Requests, Send(r) \/ SendFails(r)
  PROVE  CallInv'
<1>1. /\ rpc[r] = "subscribed"
      /\ \/ rpc' = [rpc EXCEPT ![r] = "waiting"] /\ UNCHANGED verdict
         \/ /\ rpc' = [rpc EXCEPT ![r] = "leaving"]
            /\ verdict' = [verdict EXCEPT ![r] = "failed"]
      /\ \/ down' = [down EXCEPT ![rconn[r]] = @ \cup {r}]
         \/ UNCHANGED down
      /\ UNCHANGED <<brokerVars, slotVars, up, connectorVars, rconn, got, result>>
  <2>1. CASE Send(r)  BY <2>1 DEF Send
  <2>2. CASE SendFails(r)  BY <2>2 DEF SendFails, SendFailsTo
  <2>3. QED  BY <2>1, <2>2
<1>2. rconn[r] \in Conns  BY <1>1 DEF CallInv, CallOK, ToldTruly
<1>3. /\ down' \in [Conns -> SUBSET Requests]
      /\ \A q \in Requests, c \in Conns : q \in down'[c] => q \in down[c] \/ (q = r /\ c = rconn[r])
  <2>1. down \in [Conns -> SUBSET Requests]  BY DEF CallInv, CallTypeOK
  <2>2. CASE UNCHANGED down  BY <2>1, <2>2
  <2>3. CASE down' = [down EXCEPT ![rconn[r]] = @ \cup {r}]
    <3>1. (down[rconn[r]] \cup {r}) \in SUBSET Requests  BY <1>2, <2>1
    <3>2. down' \in [Conns -> SUBSET Requests]  BY <2>1, <2>3, <3>1
    <3>3. \A c \in Conns : down'[c] = IF c = rconn[r] THEN down[c] \cup {r} ELSE down[c]
      BY <2>1, <2>3
    <3>4. QED  BY <3>2, <3>3
  <2>4. QED  BY <1>1, <2>2, <2>3
<1>4. CallTypeOK'
  <2>1. rpc' \in [Requests -> RpcStages]  BY <1>1 DEF CallInv, CallTypeOK, RpcStages
  <2>2. verdict' \in [Requests -> {"none", "ok", "failed"}]
    BY <1>1 DEF CallInv, CallTypeOK
  <2>3. QED  BY <1>1, <1>3, <2>1, <2>2 DEF CallInv, CallTypeOK
<1>5. FramesAreAnswers(r)'  BY <1>1 DEF CallInv, CallOK, FramesAreAnswers
<1>6. SentOnce(r)'
  BY <1>1, <1>3 DEF CallInv, CallTypeOK, CallOK, SentOnce, Unsent
<1>7. ToldTruly(r)'
  BY <1>1, <1>2 DEF CallInv, CallTypeOK, CallOK, SentOnce, ToldTruly, Unsent
<1>8. \A q \in Requests : q # r => SameCall(q) /\ chan'[q] = chan[q]
  BY <1>1, <1>3 DEF SameCall, CallInv, CallTypeOK
<1>9. QED  BY <1>1, <1>4, <1>5, <1>6, <1>7, <1>8, OwnStep DEF CallOK

LEMMA ReceiveKeeps ==
  ASSUME CallInv, NEW r \in Requests, Receive(r)
  PROVE  CallInv'
<1>1. /\ rpc[r] = "waiting" /\ chan[r] # <<>> /\ chan' = [chan EXCEPT ![r] = Tail(chan[r])]
      /\ UNCHANGED <<brokerVars, waiters, closed, wireVars, connectorVars, rconn, result>>
      /\ \/ /\ got' = [got EXCEPT ![r] = Append(got[r], Head(chan[r]))]
            /\ UNCHANGED <<rpc, verdict>>
         \/ /\ rpc' = [rpc EXCEPT ![r] = "leaving"] /\ UNCHANGED got
            /\ \/ verdict' = [verdict EXCEPT ![r] = "ok"]
               \/ verdict' = [verdict EXCEPT ![r] = "failed"]
  <2>1. chan[r] # <<>> /\ chan[r] \in Seq(Meta..Error)
    BY DEF Receive, CallInv, CallTypeOK
  <2>2. Head(chan[r]) \in Meta..Error  BY <2>1, HeadAndTail
  <2>3. Head(chan[r]) \in Rows \cup {Meta} \/ Head(chan[r]) = Done \/ Head(chan[r]) = Error
    BY <2>2 DEF Meta, Error, Done, Rows
  <2>4. Done \notin Rows \cup {Meta} /\ Error \notin Rows \cup {Meta} /\ Done # Error
    BY DEF Meta, Error, Done, Rows
  <2>5. QED  BY <2>3, <2>4 DEF Receive
<1>2. chan[r] \in Seq(Meta..Error)  BY DEF CallInv, CallTypeOK
<1>3. Tail(chan[r]) \in Seq(Meta..Error) /\ Head(chan[r]) \in Meta..Error
  BY <1>1, <1>2, HeadAndTail
<1>4. Append(got[r], Head(chan[r])) \in Seq(Meta..Error)
  BY <1>3 DEF CallInv, CallTypeOK
<1>5. CallTypeOK'
  <2>1. chan' \in [Requests -> Seq(Meta..Error)]  BY <1>1, <1>3 DEF CallInv, CallTypeOK
  <2>2. got' \in [Requests -> Seq(Meta..Error)]  BY <1>1, <1>4 DEF CallInv, CallTypeOK
  <2>3. rpc' \in [Requests -> RpcStages]  BY <1>1 DEF CallInv, CallTypeOK, RpcStages
  <2>4. verdict' \in [Requests -> {"none", "ok", "failed"}]
    BY <1>1 DEF CallInv, CallTypeOK
  <2>5. QED  BY <1>1, <2>1, <2>2, <2>3, <2>4 DEF CallInv, CallTypeOK
<1>6. ran[r] = 1  BY <1>1 DEF CallInv, CallOK, FramesAreAnswers
<1>7. FramesAreAnswers(r)'
  BY <1>1, <1>6 DEF CallInv, CallOK, FramesAreAnswers
<1>8. SentOnce(r)'
  BY <1>1, <1>6 DEF CallInv, CallTypeOK, CallOK, SentOnce, Unsent
<1>9. ToldTruly(r)'
  BY <1>1, <1>6 DEF CallInv, CallTypeOK, CallOK, ToldTruly
<1>10. \A q \in Requests : q # r => SameCall(q) /\ chan'[q] = chan[q]
  BY <1>1 DEF SameCall, CallInv, CallTypeOK
<1>11. QED  BY <1>1, <1>5, <1>7, <1>8, <1>9, <1>10, OwnStep DEF CallOK

LEMMA ContextEndsKeeps ==
  ASSUME CallInv, NEW r \in Requests, ContextEnds(r)
  PROVE  CallInv'
<1>1. /\ rpc[r] = "waiting" /\ rpc' = [rpc EXCEPT ![r] = "leaving"]
      /\ verdict' = [verdict EXCEPT ![r] = "failed"]
      /\ UNCHANGED <<brokerVars, slotVars, wireVars, connectorVars, rconn, got, result>>
  BY DEF ContextEnds
<1>2. CallTypeOK'  BY <1>1 DEF CallInv, CallTypeOK, RpcStages
<1>3. CallOK(r)'
  BY <1>1 DEF CallInv, CallTypeOK, CallOK, FramesAreAnswers, SentOnce, ToldTruly, Unsent
<1>4. QED  BY <1>1, <1>2, <1>3, OwnStep DEF SameCall, CallInv, CallTypeOK

LEMMA UnsubscribeKeeps ==
  ASSUME CallInv, NEW r \in Requests, Unsubscribe(r)
  PROVE  CallInv'
<1>1. /\ rpc[r] = "leaving" /\ rpc' = [rpc EXCEPT ![r] = "done"]
      /\ result' = [result EXCEPT ![r] = verdict[r]]
      /\ waiters' = [waiters EXCEPT ![rconn[r]] = @ \ {r}]
      /\ closed' \subseteq closed \cup {r}
      /\ UNCHANGED <<brokerVars, chan, wireVars, connectorVars, rconn, got, verdict>>
  BY DEF Unsubscribe
<1>2. CallTypeOK'  BY <1>1 DEF CallInv, CallTypeOK, RpcStages
<1>3. CallOK(r)'
  BY <1>1 DEF CallInv, CallTypeOK, CallOK, FramesAreAnswers, SentOnce, ToldTruly, Unsent
<1>4. QED  BY <1>1, <1>2, <1>3, OwnStep DEF SameCall, CallInv, CallTypeOK

\* The connector runs a statement.
LEMMA RunKeeps ==
  ASSUME CallInv, NEW c \in Conns, NEW r \in Requests, RunStatement(c, r)
  PROVE  CallInv'
<1>1. /\ r \in down[c] /\ down' = [down EXCEPT ![c] = @ \ {r}]
      /\ ran' = [ran EXCEPT ![r] = @ + 1]
      /\ UNCHANGED <<brokerVars, slotVars, up, progress, callVars>>
  BY DEF RunStatement
<1>2. /\ ran[r] = 0 /\ rconn[r] = c /\ rpc[r] \in {"waiting", "leaving", "done"}
      /\ ran'[r] = 1
  BY <1>1 DEF CallInv, CallTypeOK, CallOK, SentOnce
<1>3. \A d \in Conns : /\ d # c => r \notin down[d] /\ down'[d] = down[d]
                       /\ r \notin down'[d] /\ down'[d] \subseteq down[d]
  BY <1>1, <1>2 DEF CallInv, CallTypeOK, CallOK, SentOnce
<1>4. CallTypeOK'  BY <1>1 DEF CallInv, CallTypeOK
<1>5. FramesAreAnswers(r)'
  BY <1>1, <1>2 DEF CallInv, CallOK, FramesAreAnswers
<1>6. SentOnce(r)'
  BY <1>1, <1>2, <1>3 DEF SentOnce, Unsent
<1>7. ToldTruly(r)'
  BY <1>1, <1>2 DEF CallInv, CallOK, ToldTruly
<1>8. \A q \in Requests : q # r => SameCall(q) /\ chan'[q] = chan[q]
  BY <1>1, <1>3 DEF SameCall, CallInv, CallTypeOK
<1>9. QED  BY <1>1, <1>4, <1>5, <1>6, <1>7, <1>8, OwnStep DEF CallOK

\* It answers.
LEMMA AnswerKeeps ==
  ASSUME CallInv, NEW c \in Conns, NEW r \in Requests, NEW n \in Meta..Error, Answer(c, r, n)
  PROVE  CallInv'
<1> DEFINE f == [req |-> r, n |-> n]
<1>1. /\ rconn[r] = c /\ ran[r] > 0 /\ progress[r] <= Done /\ n \in {progress[r], Error}
      /\ up' = [up EXCEPT ![c] = Append(up[c], f)]
      /\ progress' = [progress EXCEPT ![r] = IF n = Error THEN Error ELSE n + 1]
      /\ UNCHANGED <<brokerVars, slotVars, down, ran, callVars>>
  BY DEF Answer
<1>2. ran[r] = 1  BY <1>1 DEF CallInv, CallTypeOK, CallOK, SentOnce
<1>3. (IF n = Error THEN Error ELSE n + 1) \in Meta..Error
  BY <1>1 DEF CallInv, CallTypeOK, Meta, Error, Done
<1>4. f \in Frame /\ f.req = r  BY DEF Frame
<1>5. up' \in [Conns -> Seq(Frame)]
  BY <1>1, <1>4 DEF CallInv, CallTypeOK
<1>6. CallTypeOK'  BY <1>1, <1>3, <1>5 DEF CallInv, CallTypeOK
<1>7. \A q \in Requests, d \in Conns :
        Carries(up'[d], q) => Carries(up[d], q) \/ (q = r /\ d = c)
  <2> SUFFICES ASSUME NEW q \in Requests, NEW d \in Conns, NEW i \in DOMAIN up'[d],
                      up'[d][i].req = q
               PROVE  Carries(up[d], q) \/ (q = r /\ d = c)
    BY DEF Carries
  <2>1. CASE d # c  BY <1>1, <2>1 DEF Carries, CallInv, CallTypeOK
  <2>2. CASE d = c
    <3>1. up[c] \in Seq(Frame)  BY DEF CallInv, CallTypeOK
    <3>2. up'[c] = Append(up[c], f)  BY <1>1 DEF CallInv, CallTypeOK
    <3>3. i = Len(up[c]) + 1 \/ i \in DOMAIN up[c]  BY <2>2, <3>1, <3>2
    <3>4. i \in DOMAIN up[c] => up'[c][i] = up[c][i]  BY <3>1, <3>2
    <3>5. i = Len(up[c]) + 1 => up'[c][i] = f  BY <3>1, <3>2
    <3>6. QED  BY <1>4, <2>2, <3>3, <3>4, <3>5 DEF Carries
  <2>3. QED  BY <2>1, <2>2
<1>8. ASSUME NEW q \in Requests  PROVE CallOK(q)'
  <2>1. FramesAreAnswers(q)'
    BY <1>1, <1>2, <1>7 DEF CallInv, CallOK, FramesAreAnswers
  <2>2. SentOnce(q)'  BY <1>1 DEF CallInv, CallOK, SentOnce
  <2>3. ToldTruly(q)'  BY <1>1 DEF CallInv, CallOK, ToldTruly
  <2>4. QED  BY <2>1, <2>2, <2>3 DEF CallOK
<1>9. HeldIsRouting'  BY <1>1 DEF CallInv, HeldIsRouting
<1>10. QED  BY <1>6, <1>8, <1>9 DEF CallInv

\* All that concerns neither calls nor frames.
LEMMA OtherStepsKeep ==
  ASSUME CallInv, BrokerTypeOK,
         \/ \E a \in Agents : CreateAgent(a) \/ DeleteAgent(a)
         \/ \E c \in Conns : \/ Hello(c) \/ HelloFails(c) \/ Kick(c) \/ Install(c) \/ SendAck(c)
                             \/ ReadFails(c) \/ Unregister(c) \/ CloseNow(c)
                             \/ Accept(c) \/ PeerLeaves(c) \/ ReadDeadline(c)
         \/ \E r \in Requests : Expire(r)
         \/ UNCHANGED vars
  PROVE  CallInv'
<1> USE DEF BrokerTypeOK
<1>1. CASE \E a \in Agents : CreateAgent(a) \/ DeleteAgent(a)
  BY <1>1, CallsUntouched DEF CreateAgent, DeleteAgent
<1>2. ASSUME NEW c \in Conns, NEW s \in Stages \ {"routing"}, stage[c] # "routing",
             stage' = [stage EXCEPT ![c] = s],
             UNCHANGED <<held, slotVars, wireVars, connectorVars, callVars>>
      PROVE  CallInv'
  BY <1>2, CallsUntouched
<1>3. ASSUME NEW c \in Conns,
             \/ Hello(c) \/ HelloFails(c) \/ Kick(c) \/ Install(c) \/ SendAck(c)
             \/ ReadFails(c) \/ Unregister(c) \/ CloseNow(c) \/ Accept(c) \/ ReadDeadline(c)
      PROVE  CallInv'
  <2> USE DEF Stages, InRegister
  <2>1. CASE Hello(c)       BY <1>2, <2>1 DEF Hello
  <2>2. CASE HelloFails(c)  BY <1>2, <2>2 DEF HelloFails
  <2>3. CASE Kick(c)        BY <1>2, <2>3 DEF Kick
  <2>4. CASE Install(c)     BY <1>2, <2>4 DEF Install, InstallClosing
  <2>5. CASE SendAck(c)     BY <1>2, <2>5 DEF SendAck
  <2>6. CASE ReadFails(c)   BY <1>2, <2>6 DEF ReadFails, ReadEnds
  <2>7. CASE Unregister(c)  BY <1>2, <2>7 DEF Unregister, UnregisterIf
  <2>8. CASE CloseNow(c)    BY <1>2, <2>8 DEF CloseNow
  <2>9. CASE Accept(c)      BY <1>2, <2>9 DEF Accept
  <2>10. CASE ReadDeadline(c)  BY <1>2, <2>10 DEF ReadDeadline, ReadEnds
  <2>11. QED  BY <1>3, <2>1, <2>2, <2>3, <2>4, <2>5, <2>6, <2>7, <2>8, <2>9, <2>10
<1>4. CASE \E c \in Conns : PeerLeaves(c)  BY <1>4, CallsUntouched DEF PeerLeaves
<1>5. CASE \E r \in Requests : Expire(r)   BY <1>5, CallsUntouched DEF Expire
<1>6. CASE UNCHANGED vars                  BY <1>6, CallsUntouched DEF vars
<1>7. QED  BY <1>1, <1>3, <1>4, <1>5, <1>6

\* Every step keeps the invariant of the calls.
LEMMA CallStep ==
  ASSUME CallInv, BrokerInv, [Next]_vars
  PROVE  CallInv'
<1> BrokerTypeOK  BY DEF BrokerInv
<1>1. ASSUME NEW c \in Conns, Handler(c)  PROVE CallInv'
  BY <1>1, RouteKeeps, DeliverKeeps, OtherStepsKeep DEF Handler
<1>2. ASSUME NEW c \in Conns, Connector(c)  PROVE CallInv'
  BY <1>2, RunKeeps, AnswerKeeps, OtherStepsKeep DEF Connector
<1>3. ASSUME NEW r \in Requests, Call(r)  PROVE CallInv'
  BY <1>3, LookupKeeps, SubscribeKeeps, SendKeeps, ReceiveKeeps, ContextEndsKeeps, UnsubscribeKeeps
     DEF Call
<1>4. QED
  BY <1>1, <1>2, <1>3, ResolveKeeps, OtherStepsKeep DEF Next

LEMMA CallInit == Init => CallInv
<1> SUFFICES ASSUME Init  PROVE CallInv
  OBVIOUS
<1>1. Meta \in Meta..Error  BY DEF Meta, Error
<1>2. CallTypeOK  BY <1>1 DEF Init, CallTypeOK, RpcStages, Unsent
<1>3. HeldIsRouting  BY DEF Init, HeldIsRouting
<1>4. \A r \in Requests : CallOK(r)
  BY DEF Init, CallOK, FramesAreAnswers, SentOnce, ToldTruly, Carries
<1>5. QED  BY <1>2, <1>3, <1>4 DEF CallInv

\* The invariant of the calls holds in every reachable state.
THEOREM CallInvariance == Spec => []CallInv
<1>1. CallInv /\ BrokerInv /\ [Next]_vars => CallInv'
  BY CallStep
<1>2. QED  BY <1>1, CallInit, BrokerInvariance, PTL DEF Spec

(***************************************************************************)
(* The refinement.                                                         *)
(***************************************************************************)
USE DEF Promise!rvars, Promise!Outcomes

\* Each step is a step of the promise, or none of its.
LEMMA PromiseStep ==
  ASSUME CallInv, [Next]_vars
  PROVE  [Promise!RNext]_(Promise!rvars)
<1>1. ASSUME NEW c \in Conns, NEW r \in Requests, RunStatement(c, r)
      PROVE  Promise!RunStatement(r)
  <2>1. r \in down[c] /\ ran' = [ran EXCEPT ![r] = @ + 1] /\ UNCHANGED result
    BY <1>1 DEF RunStatement
  <2>2. rconn[r] = c /\ ran[r] = 0  BY <2>1 DEF CallInv, CallOK, SentOnce
  <2>3. result[r] # "offline"  BY <2>2 DEF CallInv, CallOK, ToldTruly
  <2>4. ran' = [ran EXCEPT ![r] = 1]  BY <2>1, <2>2 DEF CallInv, CallTypeOK
  <2>5. QED  BY <2>1, <2>2, <2>3, <2>4 DEF Promise!RunStatement
<1>2. ASSUME NEW r \in Requests, Lookup(r)
      PROVE  Promise!Report(r, "offline") \/ UNCHANGED <<result, ran>>
  <2>1. result[r] = "none" /\ ran[r] = 0
    BY <1>2 DEF Lookup, LookupIf, CallInv, CallOK, ToldTruly, SentOnce, Unsent
  <2>2. QED  BY <1>2, <2>1 DEF Lookup, LookupIf, Promise!Report
<1>3. ASSUME NEW r \in Requests, Unsubscribe(r)
      PROVE  Promise!Report(r, verdict[r]) /\ verdict[r] \in {"ok", "failed"}
  <2>1. /\ result[r] = "none" /\ verdict[r] \in {"ok", "failed"}
        /\ verdict[r] = "ok" => ran[r] = 1
    BY <1>3 DEF Unsubscribe, CallInv, CallTypeOK, CallOK, ToldTruly
  <2>2. QED  BY <1>3, <2>1 DEF Unsubscribe, Promise!Report
<1>4. ASSUME NEW r \in Requests, Call(r), ~Lookup(r), ~Unsubscribe(r)
      PROVE  UNCHANGED <<result, ran>>
  BY <1>4 DEF Call, Subscribe, Send, SendFails, SendFailsTo, Receive, ContextEnds
<1>5. ASSUME NEW c \in Conns, Handler(c)  PROVE UNCHANGED <<result, ran>>
  BY <1>5 DEF Handler, Hello, HelloFails, Kick, Install, InstallClosing, SendAck, Route, Deliver,
              DeliverAs, ReadFails, ReadEnds, Unregister, UnregisterIf, CloseNow
<1>6. ASSUME NEW c \in Conns, Connector(c), \A r \in Requests : ~RunStatement(c, r)
      PROVE  UNCHANGED <<result, ran>>
  BY <1>6 DEF Connector, Accept, PeerLeaves, ReadDeadline, ReadEnds, Answer
<1>7. ASSUME NEW r \in Requests, Resolve(r) \/ Expire(r)  PROVE UNCHANGED <<result, ran>>
  BY <1>7 DEF Resolve, Expire
<1>8. ASSUME NEW a \in Agents, CreateAgent(a) \/ DeleteAgent(a)  PROVE UNCHANGED <<result, ran>>
  BY <1>8 DEF CreateAgent, DeleteAgent
<1>9. CASE UNCHANGED vars  BY <1>9 DEF vars
<1>10. QED
  BY <1>1, <1>2, <1>3, <1>4, <1>5, <1>6, <1>7, <1>8, <1>9 DEF Next, Promise!RNext

\* The relay keeps the promise of RemoteQuery: a statement runs at most once,
\* "ok" is only told of one that has run, and "offline" only of one that never
\* will (AgentExecutor.Run, Registry.Lookup, Conn.dispatch).
THEOREM Refinement == Spec => KeepsPromise
<1>1. Init => Promise!RInit
  BY DEF Init, Promise!RInit
<1>2. CallInv /\ [Next]_vars => [Promise!RNext]_(Promise!rvars)
  BY PromiseStep
<1>3. QED
  BY <1>1, <1>2, CallInvariance, PTL DEF Spec, KeepsPromise, Promise!RSpec
(***************************************************************************)
(* "ok" means complete: where the frames of an answer are, and in which    *)
(* order, from the connector to the caller.                                *)
(***************************************************************************)
\* The frames of r in a sequence, by their places and by their numbers.
Places(frames, r) == {i \in DOMAIN frames : frames[i].req = r}
Numbers(frames, r) == {frames[i].n : i \in Places(frames, r)}
\* They come in order, and the one that ends the answer is the last.
Rising(frames, r) == \A i, j \in Places(frames, r) :
  i < j => frames[i].n < frames[j].n /\ frames[i].n < Done

Holding(r) == Carries(held[rconn[r]], r)
HeldNum(r) == held[rconn[r]][1].n
Coming(r)  == Numbers(up[rconn[r]], r)

\* How many frames of r have been filed in its channel, and taken off the wire.
Filed(r)  == Len(got[r]) + Len(chan[r])
Routed(r) == IF Holding(r) THEN Filed(r) + 1 ELSE Filed(r)

\* What has come through is the answer from its beginning; only an error is out of line.
Collected(r) ==
  /\ \A i \in DOMAIN got[r] : got[r][i] = i - 1
  /\ \A i \in DOMAIN chan[r] : chan[r][i] # Error => chan[r][i] = Len(got[r]) + i - 1
  /\ Holding(r) /\ HeldNum(r) # Error => HeldNum(r) = Filed(r)

\* Every frame between the last one taken off the wire and the one numbered n is on it.
Reaches(r, n) == Routed(r) <= n /\ Routed(r)..(n - 1) \subseteq Coming(r)

InTransit(r) == /\ \A n \in Coming(r) : n # Error => Reaches(r, n)
                /\ Rising(up[rconn[r]], r)

\* Nothing follows the frame that ends the answer.
Open(r) == \A i \in DOMAIN chan[r] : chan[r][i] < Done
Endings(r) == /\ Holding(r) \/ Coming(r) # {} => Open(r)
              /\ Holding(r) /\ Coming(r) # {} => HeldNum(r) < Done

\* The frame the connector sends next is the one that is due.
Due(r) == progress[r] <= Done =>
  /\ \A i \in DOMAIN chan[r] : chan[r][i] < progress[r]
  /\ Holding(r) => HeldNum(r) < progress[r]
  /\ \A n \in Coming(r) : n < progress[r]
  /\ Reaches(r, progress[r])

InOrder(r) == Collected(r) /\ InTransit(r) /\ Endings(r) /\ Due(r)
Subscribed(r) == r \in waiters[rconn[r]] /\ r \notin closed

Whole(r) == got[r] = [i \in 1..Batches + 1 |-> i - 1]

OrderOK(r) ==
  /\ rpc[r] = "waiting" => Subscribed(r) /\ InOrder(r)
  /\ rpc[r] \in Unsent => got[r] = <<>> /\ progress[r] = Meta /\ r \notin closed
  /\ rpc[r] = "subscribed" => r \in waiters[rconn[r]]
  /\ verdict[r] = "ok" => Whole(r)
  /\ result[r] \in {"ok", "failed"} => verdict[r] = result[r]

OrderInv == \A r \in Requests : OrderOK(r)

LEMMA Scale == /\ Meta = 0 /\ Done = Batches + 1 /\ Error = Batches + 2
               /\ Done \in Nat /\ Error \in Nat /\ Meta..Error \subseteq Nat
  BY DEF Meta, Done, Error

LEMMA Sums ==
  ASSUME NEW a \in Nat, NEW b \in Nat
  PROVE  (a + 1) + (b - 1) = a + b /\ a + (b + 1) = (a + b) + 1
  OBVIOUS

\* Taking the first frame off the wire, and putting another at its end.
LEMMA OffTheWire ==
  ASSUME NEW s \in Seq(Frame), s # <<>>, NEW r \in Requests, Rising(s, r)
  PROVE  /\ Rising(Tail(s), r)
         /\ Head(s).req # r => Numbers(Tail(s), r) = Numbers(s, r)
         /\ Head(s).req = r =>
              /\ Head(s).n \in Numbers(s, r)
              /\ Numbers(s, r) = Numbers(Tail(s), r) \cup {Head(s).n}
              /\ \A n \in Numbers(Tail(s), r) : Head(s).n < n /\ Head(s).n < Done
<1>1. /\ Head(s) = s[1] /\ 1 \in DOMAIN s /\ DOMAIN s = 1..Len(s) /\ Len(s) \in Nat
      /\ DOMAIN Tail(s) = 1..(Len(s) - 1)
      /\ \A i \in DOMAIN Tail(s) : i + 1 \in DOMAIN s /\ Tail(s)[i] = s[i + 1]
  BY HeadAndTail
<1>2. \A i \in Places(Tail(s), r) : i + 1 \in Places(s, r) /\ i \in Nat \ {0}
  BY <1>1 DEF Places
<1>3. \A i \in Places(s, r) : i = 1 \/ (i \in Nat /\ i > 1 /\ i - 1 \in Places(Tail(s), r)
                                       /\ Tail(s)[i - 1] = s[i])
  <2> SUFFICES ASSUME NEW i \in Places(s, r), i # 1
               PROVE  i \in Nat /\ i > 1 /\ i - 1 \in Places(Tail(s), r) /\ Tail(s)[i - 1] = s[i]
    OBVIOUS
  <2>1. i \in 2..Len(s) /\ s[i].req = r  BY <1>1 DEF Places
  <2>2. i - 1 \in DOMAIN Tail(s) /\ (i - 1) + 1 = i  BY <1>1, <2>1
  <2>3. QED  BY <1>1, <2>1, <2>2 DEF Places
<1>4. Rising(Tail(s), r)
  <2> SUFFICES ASSUME NEW i \in Places(Tail(s), r), NEW j \in Places(Tail(s), r), i < j
               PROVE  Tail(s)[i].n < Tail(s)[j].n /\ Tail(s)[i].n < Done
    BY DEF Rising
  <2>1. i + 1 < j + 1  BY <1>2
  <2>2. Tail(s)[i] = s[i + 1] /\ Tail(s)[j] = s[j + 1]  BY <1>1 DEF Places
  <2>3. QED  BY <1>2, <2>1, <2>2 DEF Rising
<1>5. Numbers(Tail(s), r) \subseteq Numbers(s, r)
  BY <1>1, <1>2 DEF Numbers, Places
<1>6. ASSUME Head(s).req # r  PROVE Numbers(s, r) \subseteq Numbers(Tail(s), r)
  <2>1. 1 \notin Places(s, r)  BY <1>1, <1>6 DEF Places
  <2>2. QED  BY <1>3, <2>1 DEF Numbers
<1>7. ASSUME Head(s).req = r
      PROVE  /\ Head(s).n \in Numbers(s, r)
             /\ Numbers(s, r) = Numbers(Tail(s), r) \cup {Head(s).n}
             /\ \A n \in Numbers(Tail(s), r) : Head(s).n < n /\ Head(s).n < Done
  <2>1. 1 \in Places(s, r)  BY <1>1, <1>7 DEF Places
  <2>2. Head(s).n \in Numbers(s, r)  BY <1>1, <2>1 DEF Numbers
  <2>3. ASSUME NEW i \in Places(s, r)  PROVE s[i].n \in Numbers(Tail(s), r) \cup {Head(s).n}
    <3>1. CASE i = 1  BY <1>1, <3>1
    <3>2. CASE i # 1
      <4>1. i - 1 \in Places(Tail(s), r) /\ Tail(s)[i - 1] = s[i]  BY <1>3, <3>2
      <4>2. QED  BY <4>1 DEF Numbers
    <3>3. QED  BY <3>1, <3>2
  <2>4. ASSUME NEW i \in Places(Tail(s), r)
        PROVE  Head(s).n < Tail(s)[i].n /\ Head(s).n < Done
    <3>1. i + 1 \in Places(s, r) /\ 1 < i + 1 /\ Tail(s)[i] = s[i + 1]
      BY <1>1, <1>2 DEF Places
    <3>2. QED  BY <1>1, <2>1, <3>1 DEF Rising
  <2>5. Numbers(s, r) \subseteq Numbers(Tail(s), r) \cup {Head(s).n}
    BY <2>3 DEF Numbers
  <2>6. \A n \in Numbers(Tail(s), r) : Head(s).n < n /\ Head(s).n < Done
    BY <2>4 DEF Numbers
  <2>7. QED  BY <1>5, <2>2, <2>5, <2>6
<1>8. QED  BY <1>4, <1>5, <1>6, <1>7

LEMMA OntoTheWire ==
  ASSUME NEW s \in Seq(Frame), NEW f \in Frame, NEW r \in Requests, Rising(s, r),
         f.req = r => \A n \in Numbers(s, r) : n < f.n /\ n < Done
  PROVE  /\ Rising(Append(s, f), r)
         /\ f.req # r => Numbers(Append(s, f), r) = Numbers(s, r)
         /\ f.req = r => Numbers(Append(s, f), r) = Numbers(s, r) \cup {f.n}
<1> DEFINE t == Append(s, f)
           e == Len(s) + 1
<1>1. /\ DOMAIN s = 1..Len(s) /\ Len(s) \in Nat /\ DOMAIN t = 1..e
      /\ t[e] = f /\ \A i \in DOMAIN s : t[i] = s[i]
  OBVIOUS
<1> HIDE DEF t, e
<1>2. e \in Nat /\ e \notin DOMAIN s /\ DOMAIN t = DOMAIN s \cup {e} /\ \A i \in DOMAIN s : i < e
  BY <1>1 DEF e
<1>3. Places(t, r) = Places(s, r) \cup (IF f.req = r THEN {e} ELSE {})
  BY <1>1, <1>2 DEF Places
<1>4. \A i \in Places(s, r) : t[i] = s[i] /\ i < e /\ i \in Nat
  BY <1>1, <1>2 DEF Places
<1>5. Numbers(t, r) = Numbers(s, r) \cup (IF f.req = r THEN {f.n} ELSE {})
  BY <1>1, <1>3, <1>4 DEF Numbers
<1>6. Rising(t, r)
  <2> SUFFICES ASSUME NEW i \in Places(t, r), NEW j \in Places(t, r), i < j
               PROVE  t[i].n < t[j].n /\ t[i].n < Done
    BY DEF Rising
  <2>1. i \in Places(s, r)  BY <1>2, <1>3, <1>4
  <2>2. CASE j \in Places(s, r)  BY <1>4, <2>1, <2>2 DEF Rising
  <2>3. CASE j \notin Places(s, r)
    <3>1. f.req = r /\ j = e  BY <1>3, <2>3
    <3>2. s[i].n \in Numbers(s, r)  BY <2>1 DEF Numbers
    <3>3. QED  BY <1>1, <1>4, <2>1, <3>1, <3>2
  <2>4. QED  BY <2>2, <2>3
<1>7. QED  BY <1>5, <1>6 DEF t
\* What the order of the frames of q depends on.
SameOrder(q) ==
  /\ rpc'[q] = rpc[q] /\ rconn'[q] = rconn[q] /\ got'[q] = got[q] /\ chan'[q] = chan[q]
  /\ progress'[q] = progress[q] /\ verdict'[q] = verdict[q] /\ result'[q] = result[q]
  /\ q \in closed' <=> q \in closed
  /\ rpc[q] \in {"subscribed", "waiting"} =>
       (q \in waiters'[rconn[q]] <=> q \in waiters[rconn[q]])
  /\ rpc[q] = "waiting" =>
       /\ Numbers(up'[rconn[q]], q) = Coming(q)
       /\ Rising(up[rconn[q]], q) => Rising(up'[rconn[q]], q)
       /\ Carries(held'[rconn[q]], q) <=> Holding(q)
       /\ Holding(q) => held'[rconn[q]][1].n = HeldNum(q)

LEMMA SameOrderKeeps ==
  ASSUME NEW q \in Requests, OrderOK(q), SameOrder(q)
  PROVE  OrderOK(q)'
<1> USE DEF SameOrder
<1>1. CASE rpc[q] = "waiting"
  <2> USE <1>1
  <2>1. /\ Coming(q)' = Coming(q) /\ (Holding(q)' <=> Holding(q)) /\ Filed(q)' = Filed(q)
        /\ Routed(q)' = Routed(q) /\ (Holding(q) => HeldNum(q)' = HeldNum(q))
    BY DEF Coming, Holding, Filed, Routed, HeldNum
  <2>2. /\ Rising(up'[rconn'[q]], q) /\ Collected(q) /\ InTransit(q) /\ Endings(q) /\ Due(q)
        /\ Subscribed(q)
    BY DEF OrderOK, InOrder, InTransit
  <2>3. Collected(q)'  BY <2>1, <2>2 DEF Collected
  <2>4. InTransit(q)'  BY <2>1, <2>2 DEF InTransit, Reaches
  <2>5. Endings(q)'  BY <2>1, <2>2 DEF Endings, Open
  <2>6. Due(q)'  BY <2>1, <2>2 DEF Due, Reaches
  <2>7. Subscribed(q)'  BY <2>2 DEF Subscribed
  <2>8. QED
    BY <2>3, <2>4, <2>5, <2>6, <2>7 DEF OrderOK, InOrder, Whole, Unsent
<1>2. CASE rpc[q] # "waiting"
  BY <1>2 DEF OrderOK, Whole, Unsent
<1>3. QED  BY <1>1, <1>2

\* A step that moves no frame: it is enough to look at the call that makes it.
LEMMA NoFrameMoves ==
  ASSUME OrderInv, UNCHANGED <<up, held, chan, progress, got>>,
         \A q \in Requests :
           \/ OrderOK(q)'
           \/ /\ rpc'[q] = rpc[q] /\ rconn'[q] = rconn[q]
              /\ verdict'[q] = verdict[q] /\ result'[q] = result[q]
              /\ q \in closed' <=> q \in closed
              /\ rpc[q] \in {"subscribed", "waiting"} =>
                   (q \in waiters'[rconn[q]] <=> q \in waiters[rconn[q]])
  PROVE  OrderInv'
<1> SUFFICES ASSUME NEW q \in Requests, ~OrderOK(q)'  PROVE FALSE
  BY DEF OrderInv
<1>1. SameOrder(q)  BY DEF SameOrder, Coming, Holding, HeldNum
<1>2. QED  BY <1>1, SameOrderKeeps DEF OrderInv

\* The way of a call to its loop, and out of it.
LEMMA LookupInOrder ==
  ASSUME OrderInv, CallInv, NEW r \in Requests, Resolve(r) \/ Lookup(r) \/ Subscribe(r)
  PROVE  OrderInv'
<1>1. /\ rpc[r] \in Unsent /\ rpc'[r] \in {"resolved", "found", "subscribed", "done"}
      /\ rpc'[r] = "subscribed" => r \in waiters'[rconn'[r]]
      /\ rpc'[r] = "done" => result'[r] = "offline"
      /\ rpc'[r] # "done" => result'[r] = result[r]
      /\ UNCHANGED <<up, held, chan, progress, got, verdict, closed>>
  <2>1. CASE Resolve(r)  BY <2>1 DEF Resolve, CallInv, CallTypeOK, Unsent
  <2>2. CASE Lookup(r)   BY <2>2 DEF Lookup, LookupIf, CallInv, CallTypeOK, Unsent
  <2>3. CASE Subscribe(r)
    <3>1. rconn[r] \in Conns  BY <2>3 DEF Subscribe, CallInv, CallOK, ToldTruly
    <3>2. QED  BY <2>3, <3>1 DEF Subscribe, CallInv, CallTypeOK, Unsent
  <2>4. QED  BY <2>1, <2>2, <2>3
<1>2. OrderOK(r)'
  BY <1>1 DEF OrderInv, OrderOK, Whole, Unsent
<1>3. ASSUME NEW q \in Requests, q # r
      PROVE  /\ rpc'[q] = rpc[q] /\ rconn'[q] = rconn[q] /\ result'[q] = result[q]
             /\ rpc[q] \in {"subscribed", "waiting"} =>
                  (q \in waiters'[rconn[q]] <=> q \in waiters[rconn[q]])
  <2>1. CASE Resolve(r)    BY <1>3, <2>1 DEF Resolve, CallInv, CallTypeOK
  <2>2. CASE Lookup(r)     BY <1>3, <2>2 DEF Lookup, LookupIf, CallInv, CallTypeOK
  <2>3. CASE Subscribe(r)
    <3>1. UNCHANGED <<rconn, result>> /\ rpc'[q] = rpc[q]
      BY <1>3, <2>3 DEF Subscribe, CallInv, CallTypeOK
    <3>2. waiters' = [waiters EXCEPT ![rconn[r]] = @ \cup {r}]
      BY <2>3 DEF Subscribe
    <3>3. rconn[r] \in Conns /\ (rpc[q] \in {"subscribed", "waiting"} => rconn[q] \in Conns)
      BY <2>3 DEF Subscribe, CallInv, CallOK, ToldTruly
    <3>4. QED  BY <1>3, <3>1, <3>2, <3>3 DEF CallInv, CallTypeOK
  <2>4. QED  BY <2>1, <2>2, <2>3
<1>4. QED  BY <1>1, <1>2, <1>3, NoFrameMoves

\* A call that starts to wait has no frame anywhere yet: its statement has not run.
LEMMA SendInOrder ==
  ASSUME OrderInv, CallInv, NEW r \in Requests, Send(r) \/ SendFails(r)
  PROVE  OrderInv'
<1>1. /\ rpc[r] = "subscribed"
      /\ \/ rpc' = [rpc EXCEPT ![r] = "waiting"] /\ UNCHANGED verdict
         \/ /\ rpc' = [rpc EXCEPT ![r] = "leaving"]
            /\ verdict' = [verdict EXCEPT ![r] = "failed"]
      /\ UNCHANGED <<up, held, chan, progress, got, rconn, waiters, closed, result>>
  <2>1. CASE Send(r)  BY <2>1 DEF Send
  <2>2. CASE SendFails(r)  BY <2>2 DEF SendFails, SendFailsTo
  <2>3. QED  BY <2>1, <2>2
<1>2. rconn[r] \in Conns /\ ran[r] = 0 /\ result[r] = "none" /\ verdict[r] = "none"
  BY <1>1 DEF CallInv, CallOK, ToldTruly, SentOnce, Unsent
<1>3. chan[r] = <<>> /\ ~Carries(up[rconn[r]], r) /\ ~Carries(held[rconn[r]], r)
  BY <1>2 DEF CallInv, CallOK, FramesAreAnswers
<1>4. got[r] = <<>> /\ progress[r] = 0 /\ Subscribed(r)
  BY <1>1, Scale DEF OrderInv, OrderOK, Subscribed, Unsent
<1>5. Places(up[rconn[r]], r) = {}  BY <1>3 DEF Places, Carries
<1>6. Coming(r) = {} /\ Rising(up[rconn[r]], r) /\ ~Holding(r)
  BY <1>3, <1>5 DEF Coming, Numbers, Rising, Holding
<1>7. Filed(r) = 0 /\ Routed(r) = 0 /\ Reaches(r, 0)
  BY <1>3, <1>4, <1>6 DEF Filed, Routed, Reaches
<1>8. InOrder(r) /\ Subscribed(r)
  BY <1>3, <1>4, <1>6, <1>7 DEF InOrder, Collected, InTransit, Endings, Due
<1>9. UNCHANGED <<InOrder(r), Subscribed(r)>>
  BY <1>1 DEF InOrder, Collected, InTransit, Endings, Open, Due, Reaches, Coming, Holding, HeldNum,
              Filed, Routed, Subscribed
<1>10. rpc'[r] \in {"waiting", "leaving"} /\ verdict'[r] # "ok"
  BY <1>1, <1>2 DEF CallInv, CallTypeOK
<1>11. OrderOK(r)'
  BY <1>1, <1>2, <1>8, <1>9, <1>10 DEF OrderOK, Unsent
<1>12. \A q \in Requests : q # r => rpc'[q] = rpc[q] /\ verdict'[q] = verdict[q]
  BY <1>1 DEF CallInv, CallTypeOK
<1>13. QED  BY <1>1, <1>11, <1>12, NoFrameMoves
\* The three ways in which the loop of Run takes a frame.
LEMMA ReceiveCases ==
  ASSUME CallInv, NEW r \in Requests, Receive(r)
  PROVE  /\ chan[r] # <<>> /\ chan[r] \in Seq(Meta..Error)
         /\ \/ /\ Head(chan[r]) \in Rows \cup {Meta}
               /\ got' = [got EXCEPT ![r] = Append(got[r], Head(chan[r]))]
               /\ UNCHANGED <<rpc, verdict>>
            \/ /\ Head(chan[r]) = Done
               /\ rpc' = [rpc EXCEPT ![r] = "leaving"] /\ UNCHANGED got
               /\ verdict' = [verdict EXCEPT ![r] = "ok"]
            \/ /\ Head(chan[r]) = Error
               /\ rpc' = [rpc EXCEPT ![r] = "leaving"] /\ UNCHANGED got
               /\ verdict' = [verdict EXCEPT ![r] = "failed"]
<1>1. chan[r] # <<>> /\ chan[r] \in Seq(Meta..Error)
  BY DEF Receive, CallInv, CallTypeOK
<1>2. Head(chan[r]) \in Meta..Error  BY <1>1, HeadAndTail
<1>3. Head(chan[r]) \in Rows \cup {Meta} \/ Head(chan[r]) = Done \/ Head(chan[r]) = Error
  BY <1>2, Scale DEF Rows
<1>4. Done \notin Rows \cup {Meta} /\ Error \notin Rows \cup {Meta} /\ Done # Error
  BY Scale DEF Rows
<1>5. QED  BY <1>1, <1>3, <1>4 DEF Receive

\* The loop of Run takes the frames out of the channel in the order of the answer, and
\* meets query_done only behind all the others.
LEMMA ReceiveInOrder ==
  ASSUME OrderInv, CallInv, NEW r \in Requests, Receive(r)
  PROVE  OrderInv'
<1> DEFINE h == Head(chan[r])
<1>1. /\ rpc[r] = "waiting" /\ chan[r] # <<>> /\ chan' = [chan EXCEPT ![r] = Tail(chan[r])]
      /\ UNCHANGED <<held, waiters, closed, up, progress, rconn, result>>
  BY DEF Receive
<1>2. /\ chan[r] \in Seq(Meta..Error) /\ got[r] \in Seq(Meta..Error)
      /\ result[r] = "none"
  BY <1>1 DEF CallInv, CallTypeOK, CallOK, ToldTruly
<1>3. /\ h \in Meta..Error /\ h = chan[r][1] /\ 1 \in DOMAIN chan[r]
      /\ Tail(chan[r]) \in Seq(Meta..Error) /\ Len(Tail(chan[r])) = Len(chan[r]) - 1
      /\ \A i \in DOMAIN Tail(chan[r]) : i + 1 \in DOMAIN chan[r]
                                         /\ Tail(chan[r])[i] = chan[r][i + 1]
  BY <1>1, <1>2, HeadAndTail
<1>4. Subscribed(r) /\ InOrder(r)  BY <1>1 DEF OrderInv, OrderOK
<1>5. h # Error => h = Len(got[r])  BY <1>2, <1>3, <1>4 DEF InOrder, Collected
<1>6. ASSUME NEW q \in Requests, q # r  PROVE OrderOK(q)'
  <2> USE DEF CallInv, CallTypeOK
  <2>1. got'[q] = got[q]
    <3>1. got' = got \/ got' = [got EXCEPT ![r] = Append(got[r], h)]  BY ReceiveCases
    <3>2. QED  BY <1>6, <3>1
  <2>2. rpc'[q] = rpc[q]
    <3>1. rpc' = rpc \/ rpc' = [rpc EXCEPT ![r] = "leaving"]  BY ReceiveCases
    <3>2. QED  BY <1>6, <3>1
  <2>3. verdict'[q] = verdict[q]
    <3>1. \/ verdict' = verdict \/ verdict' = [verdict EXCEPT ![r] = "ok"]
          \/ verdict' = [verdict EXCEPT ![r] = "failed"]
      BY ReceiveCases
    <3>2. QED  BY <1>6, <3>1
  <2>4. chan'[q] = chan[q]  BY <1>1, <1>6
  <2>5. SameOrder(q)
    BY <1>1, <2>1, <2>2, <2>3, <2>4 DEF SameOrder, Coming, Holding, HeldNum
  <2>6. QED  BY <2>5, SameOrderKeeps DEF OrderInv
<1>7. CASE h \in Rows \cup {Meta}
  <2>1. h # Error /\ h = Len(got[r])  BY <1>5, <1>7, Scale DEF Rows
  <2>2. /\ got' = [got EXCEPT ![r] = Append(got[r], h)] /\ UNCHANGED <<rpc, verdict>>
    BY <1>7, ReceiveCases, Scale DEF Rows
  <2>3. /\ got'[r] = Append(got[r], h) /\ Len(got'[r]) = Len(got[r]) + 1
        /\ chan'[r] = Tail(chan[r]) /\ Len(got[r]) \in Nat /\ Len(chan[r]) \in Nat
    BY <1>1, <1>2, <2>2 DEF CallInv, CallTypeOK
  <2>4. /\ Filed(r)' = Filed(r) /\ Coming(r)' = Coming(r) /\ Routed(r)' = Routed(r)
        /\ (Holding(r)' <=> Holding(r)) /\ HeldNum(r)' = HeldNum(r)
    <3>1. Filed(r)' = Filed(r)
      <4>1. Len(chan'[r]) = Len(chan[r]) - 1  BY <1>3, <2>3
      <4>2. Len(got'[r]) = Len(got[r]) + 1 /\ Len(got[r]) \in Nat /\ Len(chan[r]) \in Nat
        BY <2>3
      <4>3. (Len(got[r]) + 1) + (Len(chan[r]) - 1) = Len(got[r]) + Len(chan[r])
        BY <4>2, Sums
      <4>4. Len(got'[r]) + Len(chan'[r]) = Len(got[r]) + Len(chan[r])
        BY <4>1, <4>2, <4>3, Zenon
      <4>5. QED  BY <4>4 DEF Filed
    <3>2. /\ Coming(r)' = Coming(r) /\ (Holding(r)' <=> Holding(r))
          /\ HeldNum(r)' = HeldNum(r)
      BY <1>1 DEF Coming, Holding, HeldNum
    <3>3. QED  BY <3>1, <3>2 DEF Routed
  <2>5. Collected(r)'
    <3>1. ASSUME NEW i \in DOMAIN got'[r]  PROVE got'[r][i] = i - 1
      <4>1. CASE i \in DOMAIN got[r]
        BY <1>2, <1>4, <2>3, <4>1 DEF InOrder, Collected
      <4>2. CASE i \notin DOMAIN got[r]
        <5>1. i = Len(got[r]) + 1  BY <1>2, <2>3, <4>2
        <5>2. got'[r][i] = h  BY <1>2, <2>3, <5>1
        <5>3. QED  BY <2>1, <2>3, <5>1, <5>2
      <4>3. QED  BY <4>1, <4>2
    <3>2. ASSUME NEW i \in DOMAIN chan'[r], chan'[r][i] # Error
          PROVE  chan'[r][i] = Len(got'[r]) + i - 1
      <4>1. i \in Nat /\ i + 1 \in DOMAIN chan[r] /\ chan'[r][i] = chan[r][i + 1]
        BY <1>2, <1>3, <2>3
      <4>2. chan[r][i + 1] = Len(got[r]) + (i + 1) - 1
        BY <1>4, <3>2, <4>1 DEF InOrder, Collected
      <4>3. QED  BY <2>3, <4>1, <4>2
    <3>3. Holding(r)' /\ HeldNum(r)' # Error => HeldNum(r)' = Filed(r)'
      BY <1>4, <2>4 DEF InOrder, Collected
    <3>4. QED  BY <3>1, <3>2, <3>3, Scale DEF Collected, Error
  <2>6. InTransit(r)'
    BY <1>1, <1>4, <2>4 DEF InOrder, InTransit, Reaches, Error
  <2>7. Open(r) => Open(r)'
    BY <1>3, <2>3 DEF Open, Done
  <2>8. Endings(r)'  BY <1>4, <2>4, <2>7 DEF InOrder, Endings, Done
  <2>9. Due(r)'
    BY <1>1, <1>3, <1>4, <2>3, <2>4 DEF InOrder, Due, Reaches, Done
  <2>10. verdict[r] # "ok"
    <3>1. verdict[r] = "ok" => Len(got[r]) = Batches + 1
      <4>1. ASSUME verdict[r] = "ok"  PROVE Len(got[r]) = Batches + 1
        <5>1. got[r] = [i \in 1..Batches + 1 |-> i - 1]
          BY <4>1 DEF OrderInv, OrderOK, Whole
        <5>2. DOMAIN got[r] = 1..Batches + 1  BY <5>1
        <5>3. QED  BY <1>2, <5>2
      <4>2. QED  BY <4>1
    <3>2. QED  BY <1>7, <2>1, <3>1, Scale DEF Rows
  <2>11. OrderOK(r)'
    <3>1. Subscribed(r)'  BY <1>1, <1>4 DEF Subscribed
    <3>2. QED
      BY <1>1, <1>2, <2>2, <2>5, <2>6, <2>8, <2>9, <2>10, <3>1 DEF OrderOK, InOrder, Unsent
  <2>12. QED  BY <1>6, <2>11 DEF OrderInv
<1>8. CASE h = Done
  <2>1. /\ verdict' = [verdict EXCEPT ![r] = "ok"] /\ rpc' = [rpc EXCEPT ![r] = "leaving"]
        /\ UNCHANGED got
    BY <1>8, ReceiveCases, Scale DEF Rows
  <2>2. Len(got[r]) = Batches + 1  BY <1>5, <1>8, Scale
  <2>3. got[r] = [i \in 1..Batches + 1 |-> i - 1]
    <3>1. DOMAIN got[r] = 1..Batches + 1 /\ got[r] = [i \in DOMAIN got[r] |-> got[r][i]]
      BY <1>2, <2>2
    <3>2. \A i \in DOMAIN got[r] : got[r][i] = i - 1  BY <1>4 DEF InOrder, Collected
    <3>3. QED  BY <3>1, <3>2
  <2>4. rpc'[r] = "leaving" /\ Whole(r)'
    BY <2>1, <2>3 DEF Whole, CallInv, CallTypeOK
  <2>5. OrderOK(r)'  BY <1>1, <1>2, <2>4 DEF OrderOK, Unsent
  <2>6. QED  BY <1>6, <2>5 DEF OrderInv
<1>9. CASE h = Error
  <2>1. /\ verdict' = [verdict EXCEPT ![r] = "failed"] /\ rpc' = [rpc EXCEPT ![r] = "leaving"]
    BY <1>9, ReceiveCases, Scale DEF Rows
  <2>2. rpc'[r] = "leaving" /\ verdict'[r] = "failed"
    BY <2>1 DEF CallInv, CallTypeOK
  <2>3. OrderOK(r)'  BY <1>1, <1>2, <2>2 DEF OrderOK, Unsent
  <2>4. QED  BY <1>6, <2>3 DEF OrderInv
<1>10. QED  BY <1>3, <1>7, <1>8, <1>9, Scale DEF Rows

\* The other ways out of the loop.
LEMMA LeaveInOrder ==
  ASSUME OrderInv, CallInv, NEW r \in Requests, ContextEnds(r) \/ Unsubscribe(r)
  PROVE  OrderInv'
<1>1. UNCHANGED <<up, held, chan, progress, got, rconn>>
  BY DEF ContextEnds, Unsubscribe
<1>2. OrderOK(r)'
  <2>1. CASE ContextEnds(r)
    <3>1. /\ rpc'[r] = "leaving" /\ verdict'[r] = "failed" /\ result'[r] = result[r]
          /\ result[r] = "none"
      BY <2>1 DEF ContextEnds, CallInv, CallTypeOK, CallOK, ToldTruly
    <3>2. QED  BY <3>1 DEF OrderOK, Unsent
  <2>2. CASE Unsubscribe(r)
    <3>1. rpc'[r] = "done" /\ result'[r] = verdict[r] /\ verdict'[r] = verdict[r]
      BY <2>2 DEF Unsubscribe, CallInv, CallTypeOK
    <3>2. QED  BY <1>1, <3>1 DEF OrderInv, OrderOK, Whole, Unsent
  <2>3. QED  BY <2>1, <2>2
<1>3. ASSUME NEW q \in Requests, q # r
      PROVE  /\ rpc'[q] = rpc[q] /\ verdict'[q] = verdict[q] /\ result'[q] = result[q]
             /\ q \in closed' <=> q \in closed
             /\ rpc[q] \in {"subscribed", "waiting"} =>
                  (q \in waiters'[rconn[q]] <=> q \in waiters[rconn[q]])
  <2>1. CASE ContextEnds(r)
    BY <1>3, <2>1 DEF ContextEnds, CallInv, CallTypeOK
  <2>2. CASE Unsubscribe(r)
    <3>1. /\ rpc'[q] = rpc[q] /\ verdict'[q] = verdict[q] /\ result'[q] = result[q]
          /\ q \in closed' <=> q \in closed
      BY <1>3, <2>2 DEF Unsubscribe, CallInv, CallTypeOK
    <3>2. waiters' = [waiters EXCEPT ![rconn[r]] = @ \ {r}]  BY <2>2 DEF Unsubscribe
    <3>3. rpc[q] \in {"subscribed", "waiting"} => rconn[q] \in Conns
      BY DEF CallInv, CallOK, ToldTruly
    <3>4. QED  BY <1>3, <3>1, <3>2, <3>3 DEF CallInv, CallTypeOK
  <2>3. QED  BY <2>1, <2>2
<1>4. QED  BY <1>1, <1>2, <1>3, NoFrameMoves
\* The connector runs a statement, which moves no frame.
LEMMA RunInOrder ==
  ASSUME OrderInv, NEW c \in Conns, NEW r \in Requests, RunStatement(c, r)
  PROVE  OrderInv'
  BY NoFrameMoves DEF RunStatement

\* The connector sends the frame that is due, or an error in its place.
LEMMA AnswerInOrder ==
  ASSUME OrderInv, CallInv, NEW c \in Conns, NEW r \in Requests, NEW n \in Meta..Error,
         Answer(c, r, n)
  PROVE  OrderInv'
<1> DEFINE f == [req |-> r, n |-> n]
<1>1. /\ rconn[r] = c /\ ran[r] > 0 /\ progress[r] <= Done /\ n \in {progress[r], Error}
      /\ up' = [up EXCEPT ![c] = Append(up[c], f)]
      /\ progress' = [progress EXCEPT ![r] = IF n = Error THEN Error ELSE n + 1]
      /\ UNCHANGED <<held, waiters, closed, chan, rpc, rconn, got, verdict, result>>
  BY DEF Answer
<1>2. /\ f \in Frame /\ f.req = r /\ f.n = n /\ up[c] \in Seq(Frame)
      /\ progress[r] \in Meta..Error
  BY DEF Frame, CallInv, CallTypeOK
<1>3. up'[c] = Append(up[c], f) /\ \A d \in Conns : d # c => up'[d] = up[d]
  BY <1>1 DEF CallInv, CallTypeOK
<1>4. rpc[r] \notin Unsent  BY <1>1 DEF CallInv, CallOK, SentOnce
<1>5. ASSUME NEW q \in Requests, q # r  PROVE OrderOK(q)'
  <2>1. progress'[q] = progress[q]  BY <1>1, <1>5 DEF CallInv, CallTypeOK
  <2>2. ASSUME rpc[q] = "waiting", Rising(up[rconn[q]], q)
        PROVE  Numbers(up'[rconn[q]], q) = Coming(q) /\ Rising(up'[rconn[q]], q)
    <3>1. rconn[q] \in Conns  BY <2>2 DEF CallInv, CallOK, ToldTruly
    <3>2. CASE rconn[q] # c  BY <1>3, <2>2, <3>1, <3>2 DEF Coming
    <3>3. CASE rconn[q] = c
      <4>1. f.req # q /\ Rising(up[c], q)  BY <1>2, <1>5, <2>2, <3>3
      <4>2. /\ Rising(Append(up[c], f), q)
            /\ Numbers(Append(up[c], f), q) = Numbers(up[c], q)
        BY <1>2, <4>1, OntoTheWire
      <4>3. QED  BY <1>3, <3>3, <4>2 DEF Coming
    <3>4. QED  BY <3>2, <3>3
  <2>3. rpc[q] = "waiting" => Rising(up[rconn[q]], q)
    BY DEF OrderInv, OrderOK, InOrder, InTransit
  <2>4. SameOrder(q)  BY <1>1, <2>1, <2>2, <2>3 DEF SameOrder, Holding, HeldNum
  <2>5. QED  BY <2>4, SameOrderKeeps DEF OrderInv
<1>6. CASE rpc[r] = "waiting"
  <2>1. Subscribed(r) /\ InOrder(r)  BY <1>6 DEF OrderInv, OrderOK
  <2>2. progress[r] \in Nat /\ n \in Nat /\ Routed(r) <= progress[r]
    BY <1>1, <1>2, <2>1, Scale DEF InOrder, Due, Reaches
  <2>3. /\ \A i \in DOMAIN chan[r] : chan[r][i] < progress[r]
        /\ Holding(r) => HeldNum(r) < progress[r]
        /\ \A m \in Coming(r) : m < progress[r]
        /\ Routed(r)..(progress[r] - 1) \subseteq Coming(r)
    BY <1>1, <2>1 DEF InOrder, Due, Reaches
  <2>4. Coming(r) \subseteq Nat
    BY <1>1, <1>2, Frames, Scale DEF Coming, Numbers, Places
  <2>5. progress[r] <= n  BY <1>1, <2>2, Scale
  <2>6. \A m \in Coming(r) : m < n /\ m < Done
    BY <1>1, <2>2, <2>3, <2>4, <2>5, Scale
  <2>7. /\ Coming(r)' = Coming(r) \cup {n} /\ Rising(up'[rconn[r]], r)
    BY <1>1, <1>2, <1>3, <2>1, <2>6, OntoTheWire DEF Coming, InOrder, InTransit
  <2>8. /\ (Holding(r)' <=> Holding(r)) /\ HeldNum(r)' = HeldNum(r)
        /\ Filed(r)' = Filed(r) /\ Routed(r)' = Routed(r)
    BY <1>1 DEF Holding, HeldNum, Filed, Routed
  <2>9. /\ \A i \in DOMAIN chan[r] : chan[r][i] \in Nat
        /\ Holding(r) => HeldNum(r) \in Nat
    <3>1. \A i \in DOMAIN chan[r] : chan[r][i] \in Nat
      BY Scale DEF CallInv, CallTypeOK
    <3>2. ASSUME Holding(r)  PROVE HeldNum(r) \in Nat
      <4>1. held[c] \in Seq(Frame) /\ Len(held[c]) = 1
        BY <1>1, <3>2 DEF CallInv, CallTypeOK, HeldIsRouting, Holding, Carries
      <4>2. held[c][1] \in Frame  BY <4>1
      <4>3. QED  BY <1>1, <4>2, Frames, Scale DEF HeldNum
    <3>3. QED  BY <3>1, <3>2
  <2>10. Collected(r)'
    BY <1>1, <2>1, <2>8 DEF InOrder, Collected, Error
  <2>11. InTransit(r)'
    <3>1. ASSUME NEW m \in Coming(r), m # Error
          PROVE  Routed(r) <= m /\ Routed(r)..(m - 1) \subseteq Coming(r) \cup {n}
      BY <2>1, <3>1 DEF InOrder, InTransit, Reaches
    <3>2. n # Error => n = progress[r]  BY <1>1
    <3>3. ASSUME NEW m \in Coming(r)', m # Error  PROVE Reaches(r, m)'
      <4>1. CASE m \in Coming(r)
        BY <2>7, <2>8, <3>1, <3>3, <4>1 DEF Reaches
      <4>2. CASE m = n
        BY <2>2, <2>3, <2>7, <2>8, <3>2, <3>3, <4>2 DEF Reaches
      <4>3. QED  BY <2>7, <3>3, <4>1, <4>2
    <3>4. QED  BY <1>1, <2>7, <3>3 DEF InTransit, Error
  <2>12. Endings(r)'
    <3>1. Open(r)'  BY <1>1, <2>2, <2>3, <2>9, Scale DEF Open, Done
    <3>2. Holding(r) => HeldNum(r) < Done
      BY <1>1, <2>2, <2>3, <2>9, Scale
    <3>3. QED  BY <2>8, <3>1, <3>2 DEF Endings, Done
  <2>13. Due(r)'
    <3>1. SUFFICES ASSUME progress'[r] <= Done  PROVE Due(r)'
      BY DEF Due, Done
    <3>2. n = progress[r] /\ progress'[r] = n + 1 /\ n # Error
      BY <1>1, <3>1, Scale DEF CallInv, CallTypeOK
    <3>3. /\ \A i \in DOMAIN chan'[r] : chan'[r][i] < progress'[r]
          /\ Holding(r)' => HeldNum(r)' < progress'[r]
          /\ \A m \in Coming(r)' : m < progress'[r]
      BY <1>1, <2>2, <2>3, <2>4, <2>7, <2>8, <2>9, <3>2
    <3>4. Routed(r)..n \subseteq Coming(r) \cup {n}
      <4>1. \A m \in Routed(r)..n : m = n \/ m \in Routed(r)..(n - 1)
        <5>1. Routed(r) \in Nat  BY DEF Routed, Filed, CallInv, CallTypeOK
        <5>2. QED  BY <2>2, <5>1
      <4>2. QED  BY <2>3, <3>2, <4>1
    <3>5. Reaches(r, progress[r])'
      <4>1. progress'[r] - 1 = n /\ Routed(r) <= progress'[r]
        <5>1. Routed(r) \in Nat  BY DEF Routed, Filed, CallInv, CallTypeOK
        <5>2. QED  BY <2>2, <3>2, <5>1
      <4>2. QED  BY <2>7, <2>8, <3>4, <4>1 DEF Reaches
    <3>6. QED  BY <3>3, <3>5 DEF Due
  <2>14. Subscribed(r)'  BY <1>1, <2>1 DEF Subscribed
  <2>15. OrderOK(r)'
    BY <1>1, <1>4, <2>10, <2>11, <2>12, <2>13, <2>14 DEF OrderInv, OrderOK, InOrder, Whole, Unsent
  <2>16. QED  BY <1>5, <2>15 DEF OrderInv
<1>7. CASE rpc[r] # "waiting"
  <2>1. OrderOK(r)'  BY <1>1, <1>4, <1>7 DEF OrderInv, OrderOK, Whole, Unsent
  <2>2. QED  BY <1>5, <2>1 DEF OrderInv
<1>8. QED  BY <1>6, <1>7
\* The first half of dispatch takes the frame off the wire that comes next; it is
\* never one that a waiting call has to do without.
LEMMA RouteInOrder ==
  ASSUME OrderInv, CallInv, BrokerTypeOK, NEW c \in Conns, Route(c)
  PROVE  OrderInv'
<1>0. PICK f : f = Head(up[c])  OBVIOUS
<1>1. /\ stage[c] = "reading" /\ up[c] # <<>> /\ up[c] \in Seq(Frame) /\ held[c] = <<>>
      /\ up' = [up EXCEPT ![c] = Tail(up[c])]
      /\ UNCHANGED <<waiters, closed, chan, progress, rpc, rconn, got, verdict, result>>
      /\ \/ f.req \in waiters[c] /\ held' = [held EXCEPT ![c] = <<f>>]
         \/ f.req \notin waiters[c] /\ UNCHANGED held
  BY <1>0 DEF Route, CallInv, CallTypeOK, HeldIsRouting
<1>2. f \in Frame /\ f.req \in Requests /\ f.n \in Meta..Error /\ f.n \in Nat
  BY <1>0, <1>1, HeadAndTail, Frames, Scale
<1>3. up'[c] = Tail(up[c]) /\ \A d \in Conns : d # c => up'[d] = up[d] /\ held'[d] = held[d]
  BY <1>1 DEF CallInv, CallTypeOK
<1>4. ASSUME NEW q \in Requests, rpc[q] # "waiting" \/ rconn[q] # c \/ f.req # q
      PROVE  OrderOK(q)'
  <2>1. CASE rpc[q] # "waiting"
    <3>1. SameOrder(q)  BY <1>1, <2>1 DEF SameOrder
    <3>2. QED  BY <3>1, SameOrderKeeps DEF OrderInv
  <2>2. CASE rpc[q] = "waiting" /\ rconn[q] # c
    <3>1. rconn[q] \in Conns  BY <2>2 DEF CallInv, CallOK, ToldTruly
    <3>2. SameOrder(q)
      BY <1>1, <1>3, <2>2, <3>1 DEF SameOrder, Coming, Holding, HeldNum
    <3>3. QED  BY <3>2, SameOrderKeeps DEF OrderInv
  <2>3. CASE rpc[q] = "waiting" /\ rconn[q] = c /\ f.req # q
    <3>1. Rising(up[c], q)  BY <2>3 DEF OrderInv, OrderOK, InOrder, InTransit
    <3>2. Rising(up'[c], q) /\ Numbers(up'[c], q) = Numbers(up[c], q)
      BY <1>0, <1>1, <1>3, <2>3, <3>1, OffTheWire
    <3>3. ~Carries(held[c], q)  BY <1>1 DEF Carries
    <3>4. ~Carries(held'[c], q)
      <4>1. held'[c] = held[c] \/ held'[c] = <<f>>  BY <1>1 DEF CallInv, CallTypeOK
      <4>2. ~Carries(<<f>>, q)  BY <2>3 DEF Carries
      <4>3. QED  BY <3>3, <4>1, <4>2
    <3>5. SameOrder(q)
      BY <1>1, <2>3, <3>1, <3>2, <3>3, <3>4 DEF SameOrder, Coming, Holding
    <3>6. QED  BY <3>5, SameOrderKeeps DEF OrderInv
  <2>4. QED  BY <1>4, <2>1, <2>2, <2>3
<1>5. ASSUME NEW r \in Requests, rpc[r] = "waiting", rconn[r] = c, f.req = r
      PROVE  OrderOK(r)'
  <2>1. Subscribed(r) /\ InOrder(r)  BY <1>5 DEF OrderInv, OrderOK
  <2>2. held' = [held EXCEPT ![c] = <<f>>]
    BY <1>1, <1>5, <2>1 DEF Subscribed
  <2>3. held'[c] = <<f>> /\ Holding(r)' /\ ~Holding(r) /\ HeldNum(r)' = f.n
    <3>1. held'[c] = <<f>>  BY <2>2 DEF CallInv, CallTypeOK
    <3>2. Carries(<<f>>, r)  BY <1>5 DEF Carries
    <3>3. ~Carries(held[c], r)  BY <1>1 DEF Carries
    <3>4. QED  BY <1>1, <1>5, <3>1, <3>2, <3>3 DEF Holding, HeldNum
  <2>4. /\ Rising(up'[rconn'[r]], r)
        /\ f.n \in Coming(r) /\ Coming(r) = Coming(r)' \cup {f.n}
        /\ \A n \in Coming(r)' : f.n < n /\ f.n < Done
    BY <1>0, <1>1, <1>3, <1>5, <2>1, OffTheWire DEF Coming, InOrder, InTransit
  <2>5. /\ Filed(r)' = Filed(r) /\ Routed(r) = Filed(r) /\ Routed(r)' = Filed(r) + 1
        /\ Filed(r) \in Nat
    BY <1>1, <2>3 DEF Filed, Routed, CallInv, CallTypeOK
  <2>6. f.n # Error => f.n = Filed(r)
    <3>1. SUFFICES ASSUME f.n # Error, f.n # Filed(r)  PROVE FALSE
      OBVIOUS
    <3>2. Filed(r) <= f.n /\ Filed(r)..(f.n - 1) \subseteq Coming(r)
      BY <2>1, <2>4, <2>5, <3>1 DEF InOrder, InTransit, Reaches
    <3>3. Filed(r) < f.n /\ Filed(r) \in Filed(r)..(f.n - 1)
      BY <1>2, <2>5, <3>1, <3>2
    <3>4. Filed(r) \in Coming(r)'  BY <2>4, <3>1, <3>2, <3>3
    <3>5. QED  BY <1>2, <2>4, <2>5, <3>3, <3>4
  <2>7. Coming(r)' # {} => f.n = Filed(r) /\ f.n < Done
    BY <1>2, <2>4, <2>6, Scale
  <2>8. ASSUME NEW n, Reaches(r, n), f.n = Filed(r), f.n < n, n \in Nat
        PROVE  Routed(r)' <= n /\ Routed(r)'..(n - 1) \subseteq Coming(r)'
    <3>1. \A m \in Filed(r) + 1..(n - 1) : m \in Coming(r) /\ m # f.n
      BY <2>5, <2>8 DEF Reaches
    <3>2. QED  BY <2>4, <2>5, <2>8, <3>1
  <2>9. Coming(r)' \subseteq Nat
    <3>1. \A i \in DOMAIN up[c] : up[c][i].n \in Nat
      <4>1. \A i \in DOMAIN up[c] : up[c][i] \in Frame  BY <1>1
      <4>2. QED  BY <4>1, Frames, Scale
    <3>2. Coming(r) \subseteq Nat  BY <1>5, <3>1 DEF Coming, Numbers, Places
    <3>3. QED  BY <2>4, <3>2
  <2>10. Collected(r)'
    BY <1>1, <2>1, <2>3, <2>5, <2>6 DEF InOrder, Collected, Error
  <2>11. InTransit(r)'
    <3>1. ASSUME NEW n \in Coming(r)', n # Error  PROVE Reaches(r, n)'
      <4>1. Reaches(r, n)  BY <2>1, <2>4, <3>1 DEF InOrder, InTransit
      <4>2. f.n = Filed(r) /\ f.n < n /\ n \in Nat  BY <2>4, <2>7, <2>9, <3>1
      <4>3. QED  BY <2>8, <4>1, <4>2 DEF Reaches
    <3>2. QED  BY <2>4, <3>1 DEF InTransit, Error
  <2>12. Endings(r)'
    <3>1. Open(r)'  BY <1>1, <2>1, <2>4 DEF InOrder, Endings, Open, Done
    <3>2. QED  BY <2>3, <2>7, <3>1 DEF Endings, Done
  <2>13. Due(r)'
    <3>1. SUFFICES ASSUME progress[r] <= Done  PROVE Due(r)'
      BY <1>1 DEF Due, Done
    <3>2. /\ \A i \in DOMAIN chan[r] : chan[r][i] < progress[r]
          /\ \A n \in Coming(r) : n < progress[r]
          /\ Reaches(r, progress[r]) /\ progress[r] \in Nat
      BY <2>1, <3>1, Scale DEF InOrder, Due, CallInv, CallTypeOK
    <3>3. f.n < progress[r] /\ f.n = Filed(r)
      BY <1>2, <2>4, <2>6, <3>1, <3>2, Scale
    <3>4. Reaches(r, progress[r])'
      BY <1>1, <2>8, <3>2, <3>3 DEF Reaches
    <3>5. QED  BY <1>1, <2>3, <2>4, <3>2, <3>3, <3>4 DEF Due
  <2>14. Subscribed(r)'  BY <1>1, <2>1 DEF Subscribed
  <2>15. QED
    BY <1>1, <1>5, <2>10, <2>11, <2>12, <2>13, <2>14 DEF OrderInv, OrderOK, InOrder, Whole, Unsent
<1>6. QED  BY <1>4, <1>5 DEF OrderInv

\* The second half puts it into the channel, which has room for the whole answer.
LEMMA DeliverInOrder ==
  ASSUME OrderInv, CallInv, BrokerTypeOK, BufCap >= Batches + 2, NEW c \in Conns, Deliver(c)
  PROVE  OrderInv'
<1>0. PICK f : f = held[c][1]  OBVIOUS
<1> DEFINE r == f.req
<1>1. /\ stage[c] = "routing" /\ held[c] \in Seq(Frame) /\ Len(held[c]) = 1
      /\ held' = [held EXCEPT ![c] = <<>>]
      /\ UNCHANGED <<waiters, closed, up, progress, rpc, rconn, got, verdict, result>>
  BY DEF Deliver, DeliverAs, CallInv, CallTypeOK, HeldIsRouting
<1>2. f \in Frame /\ r \in Requests /\ f.n \in Meta..Error /\ f.n \in Nat
  BY <1>0, <1>1, Frames, Scale
<1>3. chan' = chan \/ chan' = [chan EXCEPT ![r] = Append(chan[r], f.n)]
  BY <1>0 DEF Deliver, DeliverAs
<1>4. /\ held'[c] = <<>> /\ \A d \in Conns : d # c => held'[d] = held[d]
  BY <1>1 DEF CallInv, CallTypeOK
<1>5. ASSUME NEW q \in Requests  PROVE ~Carries(held'[c], q) /\ (Carries(held[c], q) => q = r)
  BY <1>0, <1>1, <1>4 DEF Carries
<1>6. rconn[r] = c  BY <1>0, <1>1, <1>2 DEF CallInv, CallOK, FramesAreAnswers, Carries
<1>7. ASSUME NEW q \in Requests, q # r  PROVE OrderOK(q)'
  <2>1. chan'[q] = chan[q]  BY <1>3, <1>7 DEF CallInv, CallTypeOK
  <2>2. ASSUME rpc[q] = "waiting"
        PROVE  /\ Carries(held'[rconn[q]], q) <=> Holding(q)
               /\ Holding(q) => held'[rconn[q]][1].n = HeldNum(q)
    <3>1. rconn[q] \in Conns  BY <2>2 DEF CallInv, CallOK, ToldTruly
    <3>2. QED  BY <1>4, <1>5, <1>7, <3>1 DEF Holding, HeldNum
  <2>3. SameOrder(q)  BY <1>1, <2>1, <2>2 DEF SameOrder, Coming
  <2>4. QED  BY <2>3, SameOrderKeeps DEF OrderInv
<1>8. CASE rpc[r] = "waiting"
  <2>1. Subscribed(r) /\ InOrder(r)  BY <1>2, <1>8 DEF OrderInv, OrderOK
  <2>2. Holding(r) /\ ~Holding(r)' /\ HeldNum(r) = f.n
    BY <1>0, <1>1, <1>2, <1>5, <1>6 DEF Holding, HeldNum, Carries
  <2>3. Open(r) /\ Collected(r)  BY <2>1, <2>2 DEF InOrder, Endings
  <2>4. /\ got[r] \in Seq(Meta..Error) /\ chan[r] \in Seq(Meta..Error)
        /\ Len(got[r]) \in Nat /\ Len(chan[r]) \in Nat /\ DOMAIN chan[r] = 1..Len(chan[r])
    BY <1>2 DEF CallInv, CallTypeOK
  <2>5. Len(chan[r]) < BufCap
    <3>1. CASE Len(chan[r]) = 0  BY <3>1
    <3>2. CASE Len(chan[r]) # 0
      <4>1. Len(chan[r]) \in DOMAIN chan[r]  BY <2>4, <3>2
      <4>2. /\ chan[r][Len(chan[r])] < Done
            /\ chan[r][Len(chan[r])] # Error =>
                 chan[r][Len(chan[r])] = Len(got[r]) + Len(chan[r]) - 1
        BY <2>3, <4>1 DEF Open, Collected
      <4>3. PICK g \in Nat, k \in Nat : g = Len(got[r]) /\ k = Len(chan[r])  BY <2>4
      <4>4. g + k - 1 < Done => k < BufCap  BY Scale
      <4>5. chan[r][k] < Done /\ chan[r][k] # Error  BY <4>2, <4>3, Scale
      <4>6. QED  BY <4>2, <4>3, <4>4, <4>5
    <3>3. QED  BY <3>1, <3>2
  <2>6. chan'[r] = Append(chan[r], f.n)
    BY <1>0, <1>2, <2>1, <2>5 DEF Deliver, DeliverAs, Subscribed, CallInv, CallTypeOK
  <2>7. /\ Len(chan'[r]) = Len(chan[r]) + 1 /\ DOMAIN chan'[r] = DOMAIN chan[r] \cup {Len(chan[r]) + 1}
        /\ chan'[r][Len(chan[r]) + 1] = f.n /\ \A i \in DOMAIN chan[r] : chan'[r][i] = chan[r][i]
    BY <1>2, <2>4, <2>6
  <2>8. Coming(r)' = Coming(r) /\ Routed(r)' = Routed(r) /\ Filed(r) = Len(got[r]) + Len(chan[r])
    <3>1. Coming(r)' = Coming(r)  BY <1>1 DEF Coming
    <3>2. Filed(r)' = Filed(r) + 1
      <4>1. Len(got[r]) + (Len(chan[r]) + 1) = (Len(got[r]) + Len(chan[r])) + 1
        BY <2>4, Sums
      <4>2. QED  BY <1>1, <2>7, <4>1 DEF Filed
    <3>3. QED  BY <2>2, <3>1, <3>2 DEF Routed, Filed
  <2>9. f.n # Error => f.n = Len(got[r]) + Len(chan[r])
    BY <2>2, <2>3, <2>8 DEF Collected
  <2>10. Collected(r)'
    <3>1. ASSUME NEW i \in DOMAIN chan'[r], chan'[r][i] # Error
          PROVE  chan'[r][i] = Len(got[r]) + i - 1
      <4>1. CASE i \in DOMAIN chan[r]  BY <2>3, <2>7, <3>1, <4>1 DEF Collected
      <4>2. CASE i = Len(chan[r]) + 1
        <5>1. chan'[r][i] = Len(got[r]) + Len(chan[r])  BY <2>7, <2>9, <3>1, <4>2
        <5>2. PICK g \in Nat, k \in Nat : g = Len(got[r]) /\ k = Len(chan[r])  BY <2>4
        <5>3. g + (k + 1) - 1 = g + k  OBVIOUS
        <5>4. QED  BY <4>2, <5>1, <5>2, <5>3
      <4>3. QED  BY <2>7, <3>1, <4>1, <4>2
    <3>2. QED  BY <1>1, <2>2, <2>3, <3>1 DEF Collected, Error
  <2>11. InTransit(r)'
    BY <1>1, <2>1, <2>8 DEF InOrder, InTransit, Reaches, Error
  <2>12. Endings(r)'
    <3>1. SUFFICES ASSUME Coming(r) # {}  PROVE Open(r)'
      BY <2>2, <2>8 DEF Endings, Done
    <3>2. f.n < Done  BY <2>1, <2>2, <3>1 DEF InOrder, Endings
    <3>3. QED  BY <2>3, <2>7, <3>2 DEF Open, Done
  <2>13. Due(r)'
    <3>1. SUFFICES ASSUME progress[r] <= Done  PROVE Due(r)'
      BY <1>1 DEF Due, Done
    <3>2. /\ \A i \in DOMAIN chan[r] : chan[r][i] < progress[r]
          /\ f.n < progress[r] /\ \A n \in Coming(r) : n < progress[r]
          /\ Reaches(r, progress[r])
      BY <2>1, <2>2, <3>1 DEF InOrder, Due
    <3>3. \A i \in DOMAIN chan'[r] : chan'[r][i] < progress[r]  BY <2>7, <3>2
    <3>4. Reaches(r, progress[r])'  BY <1>1, <2>8, <3>2 DEF Reaches
    <3>5. QED  BY <1>1, <2>2, <2>8, <3>2, <3>3, <3>4 DEF Due
  <2>14. Subscribed(r)'  BY <1>1, <2>1 DEF Subscribed
  <2>15. OrderOK(r)'
    BY <1>1, <1>2, <1>8, <2>10, <2>11, <2>12, <2>13, <2>14 DEF OrderInv, OrderOK, InOrder, Whole, Unsent
  <2>16. QED  BY <1>7, <2>15 DEF OrderInv
<1>9. CASE rpc[r] # "waiting"
  <2>1. OrderOK(r)'  BY <1>1, <1>2, <1>9 DEF OrderInv, OrderOK, Whole, Unsent
  <2>2. QED  BY <1>7, <2>1 DEF OrderInv
<1>10. QED  BY <1>8, <1>9
\* All that concerns neither calls nor frames.
LEMMA OtherStepsInOrder ==
  ASSUME OrderInv,
         \/ \E a \in Agents : CreateAgent(a) \/ DeleteAgent(a)
         \/ \E c \in Conns : \/ Hello(c) \/ HelloFails(c) \/ Kick(c) \/ Install(c) \/ SendAck(c)
                             \/ ReadFails(c) \/ Unregister(c) \/ CloseNow(c)
                             \/ Accept(c) \/ PeerLeaves(c) \/ ReadDeadline(c)
         \/ \E r \in Requests : Expire(r)
         \/ UNCHANGED vars
  PROVE  OrderInv'
<1>1. UNCHANGED <<held, slotVars, up, progress, callVars>>
  BY DEF vars, CreateAgent, DeleteAgent, Hello, HelloFails, Kick, Install, InstallClosing, SendAck,
         ReadFails, ReadEnds, Unregister, UnregisterIf, CloseNow, Accept, PeerLeaves, ReadDeadline,
         Expire
<1>2. QED  BY <1>1, NoFrameMoves

LEMMA OrderStep ==
  ASSUME OrderInv, CallInv, BrokerInv, BufCap >= Batches + 2, [Next]_vars
  PROVE  OrderInv'
<1> BrokerTypeOK  BY DEF BrokerInv
<1>1. ASSUME NEW c \in Conns, Handler(c)  PROVE OrderInv'
  BY <1>1, RouteInOrder, DeliverInOrder, OtherStepsInOrder DEF Handler
<1>2. ASSUME NEW c \in Conns, Connector(c)  PROVE OrderInv'
  BY <1>2, RunInOrder, AnswerInOrder, OtherStepsInOrder DEF Connector
<1>3. ASSUME NEW r \in Requests, Call(r)  PROVE OrderInv'
  BY <1>3, LookupInOrder, SendInOrder, ReceiveInOrder, LeaveInOrder DEF Call
<1>4. QED
  BY <1>1, <1>2, <1>3, LookupInOrder, OtherStepsInOrder DEF Next

\* A caller that is told "ok" has every frame of the answer, whatever the order of
\* the steps, as long as a channel has room for a whole answer: query_meta, the
\* batches and query_done (Conn.dispatch, which drops what finds the channel full,
\* and the loop of AgentExecutor.Run).
THEOREM AnswersAreWhole ==
  ASSUME BufCap >= Batches + 2
  PROVE  Spec => []OkIsComplete
<1>1. Init => OrderInv
  BY Scale DEF Init, OrderInv, OrderOK, Unsent
<1>2. OrderInv /\ CallInv /\ BrokerInv /\ [Next]_vars => OrderInv'
  BY OrderStep
<1>3. OrderInv => OkIsComplete
  BY DEF OrderInv, OrderOK, Whole, OkIsComplete
<1>4. QED
  BY <1>1, <1>2, <1>3, CallInvariance, BrokerInvariance, PTL DEF Spec
=============================================================================
