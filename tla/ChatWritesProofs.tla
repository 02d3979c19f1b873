-------------------------- MODULE ChatWritesProofs --------------------------
(***************************************************************************)
(* Proofs about ChatWrites, for every value of its constants: types, the   *)
(* inductive invariant, the safety properties that follow from it, and     *)
(* that the session implements WriteApproval.                              *)
(***************************************************************************)
EXTENDS ChatWrites, TLAPS

USE DEF vars, policyVars, orchVars, wsVars, cardVars, dbVars

----------------------------------------------------------------------------
\* Lemmas about sequences and records.

\* The reader goroutine keeps the decision it carries when it moves.
LEMMA ReaderMoves == ASSUME NEW r \in ReaderState, NEW a \in {"read", "send", "returned"}
                     PROVE  [r EXCEPT !.at = a] \in ReaderState
  BY DEF ReaderState

\* What the reader sends is one decision.
LEMMA OneDecision ==
  ASSUME reader \in ReaderState
  PROVE  /\ <<reader.accept>> \in Seq(BOOLEAN)
         /\ Len(<<reader.accept>>) <= 1
         /\ <<reader.accept>> = Append(<<>>, reader.accept)
  <1>1. ASSUME NEW S, NEW b \in S
        PROVE  <<b>> \in Seq(S) /\ Len(<<b>>) <= 1 /\ <<b>> = Append(<<>>, b)
    OBVIOUS
  <1>. QED
    BY <1>1 DEF ReaderState

\* Replacing the content of one channel of capacity 1 by a legal one.
LEMMA ChannelUpdate ==
  ASSUME NEW S, NEW f \in [Calls -> Seq(S)], \A c \in Calls : Len(f[c]) <= 1,
         NEW k, NEW s \in Seq(S), Len(s) <= 1
  PROVE  /\ [f EXCEPT ![k] = s] \in [Calls -> Seq(S)]
         /\ \A c \in Calls : Len([f EXCEPT ![k] = s][c]) <= 1
  OBVIOUS

\* Receiving from a channel of capacity 1.
LEMMA ShorterTail == ASSUME NEW S, NEW s \in Seq(S), s # <<>>, Len(s) <= 1
                     PROVE  /\ Head(s) \in S
                            /\ Tail(s) = <<>> /\ Tail(s) \in Seq(S) /\ Len(Tail(s)) <= 1
  OBVIOUS

----------------------------------------------------------------------------
\* Types.

\* A session starts in its types.
LEMMA TypeInit == Init => TypeOK
  <1> SUFFICES ASSUME Init PROVE TypeOK
    OBVIOUS
  <1> USE NamesAssumption, BoundsAssumption DEF Init
  <1>1. StoreTypes
    BY DEF StoreTypes
  <1>2. OrchTypes
    BY DEF OrchTypes, PCs, InProposal
  <1>3. SocketTypes
    <2>1. reader \in ReaderState /\ inbox \in Seq(Message)
      BY DEF ReaderState
    <2>2. events = <<>> /\ chan = [c \in Calls |-> <<>>]
      OBVIOUS
    <2>3. handler \in {"loop", "returned"} /\ ctxDone \in BOOLEAN /\ conn \in {"open", "gone"}
      OBVIOUS
    <2>. QED
      BY <2>1, <2>2, <2>3 DEF SocketTypes
  <1>4. StatementTypes
    BY DEF StatementTypes
  <1>. QED
    BY <1>1, <1>2, <1>3, <1>4 DEF TypeOK

\* Every step of a session keeps the types.
LEMMA TypeStep == TypeOK /\ [Next]_vars => TypeOK'
  <1> SUFFICES ASSUME TypeOK, [Next]_vars
               PROVE  TypeOK'
    OBVIOUS
  <1>0. StoreTypes /\ OrchTypes /\ SocketTypes /\ StatementTypes
    BY DEF TypeOK
  <1> USE BoundsAssumption, NamesAssumption DEF PCs, InProposal, ReaderState
  <1>1. CASE LLMText
    <2>1. StoreTypes'
      BY <1>0, <1>1 DEF StoreTypes, LLMText, Emit
    <2>2. OrchTypes'
      BY <1>0, <1>1 DEF OrchTypes, LLMText, Emit
    <2>3. SocketTypes'
      BY <1>0, <1>1 DEF SocketTypes, LLMText, Emit
    <2>4. StatementTypes'
      BY <1>0, <1>1 DEF StatementTypes, LLMText, Emit
    <2>. QED
      BY <2>1, <2>2, <2>3, <2>4 DEF TypeOK
  <1>2. ASSUME NEW c \in Calls, NEW in \in Inputs, LLMToolUse(c, in)
         PROVE  TypeOK'
    <2>1. StoreTypes'
      BY <1>0, <1>2 DEF StoreTypes, LLMToolUse, Emit
    <2>2. OrchTypes'
      BY <1>0, <1>2 DEF OrchTypes, LLMToolUse, Emit, StoreTypes
    <2>3. SocketTypes'
      BY <1>0, <1>2 DEF SocketTypes, LLMToolUse, Emit
    <2>4. StatementTypes'
      BY <1>0, <1>2 DEF StatementTypes, LLMToolUse, Emit
    <2>. QED
      BY <2>1, <2>2, <2>3, <2>4 DEF TypeOK
  <1>3. CASE LLMEnd
    <2>1. StoreTypes'
      BY <1>0, <1>3 DEF StoreTypes, LLMEnd
    <2>2. OrchTypes'
      BY <1>0, <1>3 DEF OrchTypes, LLMEnd
    <2>3. SocketTypes'
      BY <1>0, <1>3 DEF SocketTypes, LLMEnd
    <2>4. StatementTypes'
      BY <1>0, <1>3 DEF StatementTypes, LLMEnd
    <2>. QED
      BY <2>1, <2>2, <2>3, <2>4 DEF TypeOK
  <1>4. CASE LLMError
    <2>1. StoreTypes'
      BY <1>0, <1>4 DEF StoreTypes, LLMError
    <2>2. OrchTypes'
      BY <1>0, <1>4 DEF OrchTypes, LLMError
    <2>3. SocketTypes'
      BY <1>0, <1>4 DEF SocketTypes, LLMError
    <2>4. StatementTypes'
      BY <1>0, <1>4 DEF StatementTypes, LLMError
    <2>. QED
      BY <2>1, <2>2, <2>3, <2>4 DEF TypeOK
  <1>5. CASE NextTurn
    <2>1. StoreTypes'
      BY <1>0, <1>5 DEF StoreTypes, NextTurn
    <2>2. OrchTypes'
      BY <1>0, <1>5 DEF OrchTypes, NextTurn
    <2>3. SocketTypes'
      BY <1>0, <1>5 DEF SocketTypes, NextTurn
    <2>4. StatementTypes'
      BY <1>0, <1>5 DEF StatementTypes, NextTurn
    <2>. QED
      BY <2>1, <2>2, <2>3, <2>4 DEF TypeOK
  <1>6. CASE Finish
    <2>1. StoreTypes'
      BY <1>0, <1>6 DEF StoreTypes, Finish, Emit
    <2>2. OrchTypes'
      BY <1>0, <1>6 DEF OrchTypes, Finish, Emit
    <2>3. SocketTypes'
      BY <1>0, <1>6 DEF SocketTypes, Finish, Emit
    <2>4. StatementTypes'
      BY <1>0, <1>6 DEF StatementTypes, Finish, Emit
    <2>. QED
      BY <2>1, <2>2, <2>3, <2>4 DEF TypeOK
  <1>7. CASE ToolResult
    <2>1. StoreTypes'
      BY <1>0, <1>7 DEF StoreTypes, ToolResult, Emit
    <2>2. OrchTypes'
      BY <1>0, <1>7 DEF OrchTypes, ToolResult, Emit
    <2>3. SocketTypes'
      BY <1>0, <1>7 DEF SocketTypes, ToolResult, Emit
    <2>4. StatementTypes'
      BY <1>0, <1>7 DEF StatementTypes, ToolResult, Emit
    <2>. QED
      BY <2>1, <2>2, <2>3, <2>4 DEF TypeOK
  <1>8. ASSUME NEW c \in queue, StartTool(c)
         PROVE  TypeOK'
    <2>1. StoreTypes'
      BY <1>0, <1>8 DEF StoreTypes, StartTool
    <2>2. OrchTypes'
      BY <1>0, <1>8 DEF OrchTypes, StartTool
    <2>3. SocketTypes'
      BY <1>0, <1>8 DEF SocketTypes, StartTool
    <2>4. StatementTypes'
      BY <1>0, <1>8 DEF StatementTypes, StartTool
    <2>. QED
      BY <2>1, <2>2, <2>3, <2>4 DEF TypeOK
  <1>9. CASE CheckMaster
    <2>1. StoreTypes'
      BY <1>0, <1>9 DEF StoreTypes, CheckMaster, Audit
    <2>2. OrchTypes'
      BY <1>0, <1>9 DEF OrchTypes, CheckMaster, Audit
    <2>3. SocketTypes'
      BY <1>0, <1>9 DEF SocketTypes, CheckMaster, Audit
    <2>4. StatementTypes'
      BY <1>0, <1>9 DEF StatementTypes, CheckMaster, Audit
    <2>. QED
      BY <2>1, <2>2, <2>3, <2>4 DEF TypeOK
  <1>10. CASE CheckRow
    <2>1. StoreTypes'
      BY <1>0, <1>10 DEF StoreTypes, CheckRow, Audit
    <2>2. OrchTypes'
      BY <1>0, <1>10 DEF OrchTypes, CheckRow, Audit
    <2>3. SocketTypes'
      BY <1>0, <1>10 DEF SocketTypes, CheckRow, Audit
    <2>4. StatementTypes'
      BY <1>0, <1>10 DEF StatementTypes, CheckRow, Audit
    <2>. QED
      BY <2>1, <2>2, <2>3, <2>4 DEF TypeOK
  <1>11. CASE RecordProposal
    <2>1. StoreTypes'
      BY <1>0, <1>11 DEF StoreTypes, RecordProposal
    <2>2. OrchTypes'
      BY <1>0, <1>11 DEF OrchTypes, RecordProposal
    <2>3. SocketTypes'
      BY <1>0, <1>11 DEF SocketTypes, RecordProposal
    <2>4. StatementTypes'
      BY <1>0, <1>11 DEF StatementTypes, RecordProposal
    <2>. QED
      BY <2>1, <2>2, <2>3, <2>4 DEF TypeOK
  <1>12. CASE Register
    <2>1. StoreTypes'
      BY <1>0, <1>12 DEF StoreTypes, Register
    <2>2. OrchTypes'
      BY <1>0, <1>12 DEF OrchTypes, Register
    <2>3. SocketTypes'
      BY <1>0, <1>12 DEF SocketTypes, Register
    <2>4. StatementTypes'
      BY <1>0, <1>12 DEF StatementTypes, Register
    <2>. QED
      BY <2>1, <2>2, <2>3, <2>4 DEF TypeOK
  <1>13. CASE ShowCard
    <2>1. StoreTypes'
      BY <1>0, <1>13 DEF StoreTypes, ShowCard
    <2>2. OrchTypes'
      BY <1>0, <1>13 DEF OrchTypes, ShowCard
    <2>3. SocketTypes'
      BY <1>0, <1>13 DEF SocketTypes, ShowCard
    <2>4. StatementTypes'
      BY <1>0, <1>13 DEF StatementTypes, ShowCard, OrchTypes
    <2>. QED
      BY <2>1, <2>2, <2>3, <2>4 DEF TypeOK
  <1>14. CASE TakeDecision
    <2>1. StoreTypes'
      BY <1>0, <1>14 DEF StoreTypes, TakeDecision, OpenGates
    <2>2. OrchTypes'
      BY <1>0, <1>14 DEF OrchTypes, TakeDecision, OpenGates
    <2>3. SocketTypes'
      <3>1. chan[cur] \in Seq(BOOLEAN) /\ Len(chan[cur]) <= 1 /\ chan[cur] # <<>>
        BY <1>0, <1>14 DEF SocketTypes, OrchTypes, TakeDecision
      <3>2. Tail(chan[cur]) \in Seq(BOOLEAN) /\ Len(Tail(chan[cur])) <= 1
        BY <3>1, ShorterTail
      <3>3. chan' = [chan EXCEPT ![cur] = Tail(chan[cur])]
        BY <1>14 DEF TakeDecision
      <3>4. chan' \in [Calls -> Seq(BOOLEAN)] /\ \A c \in Calls : Len(chan'[c]) <= 1
        BY <1>0, <3>2, <3>3, ChannelUpdate DEF SocketTypes
      <3>. QED
        BY <1>0, <1>14, <3>4 DEF SocketTypes, TakeDecision
    <2>4. StatementTypes'
      BY <1>0, <1>14 DEF StatementTypes, TakeDecision, OpenGates
    <2>. QED
      BY <2>1, <2>2, <2>3, <2>4 DEF TypeOK
  <1>15. CASE GiveUp
    <2>1. StoreTypes'
      BY <1>0, <1>15 DEF StoreTypes, GiveUp
    <2>2. OrchTypes'
      BY <1>0, <1>15 DEF OrchTypes, GiveUp
    <2>3. SocketTypes'
      BY <1>0, <1>15 DEF SocketTypes, GiveUp
    <2>4. StatementTypes'
      BY <1>0, <1>15 DEF StatementTypes, GiveUp
    <2>. QED
      BY <2>1, <2>2, <2>3, <2>4 DEF TypeOK
  <1>16. CASE Leave
    <2>1. StoreTypes'
      BY <1>0, <1>16 DEF StoreTypes, Leave, LeaveTo
    <2>2. OrchTypes'
      BY <1>0, <1>16 DEF OrchTypes, Leave, LeaveTo
    <2>3. SocketTypes'
      BY <1>0, <1>16 DEF SocketTypes, Leave, LeaveTo
    <2>4. StatementTypes'
      BY <1>0, <1>16 DEF StatementTypes, Leave, LeaveTo
    <2>. QED
      BY <2>1, <2>2, <2>3, <2>4 DEF TypeOK
  <1>17. CASE RecheckMaster
    <2>1. StoreTypes'
      BY <1>0, <1>17 DEF StoreTypes, RecheckMaster
    <2>2. OrchTypes'
      BY <1>0, <1>17 DEF OrchTypes, RecheckMaster
    <2>3. SocketTypes'
      BY <1>0, <1>17 DEF SocketTypes, RecheckMaster
    <2>4. StatementTypes'
      BY <1>0, <1>17 DEF StatementTypes, RecheckMaster
    <2>. QED
      BY <2>1, <2>2, <2>3, <2>4 DEF TypeOK
  <1>18. CASE RecheckRow
    <2>1. StoreTypes'
      BY <1>0, <1>18 DEF StoreTypes, RecheckRow
    <2>2. OrchTypes'
      BY <1>0, <1>18 DEF OrchTypes, RecheckRow
    <2>3. SocketTypes'
      BY <1>0, <1>18 DEF SocketTypes, RecheckRow
    <2>4. StatementTypes'
      BY <1>0, <1>18 DEF StatementTypes, RecheckRow
    <2>. QED
      BY <2>1, <2>2, <2>3, <2>4 DEF TypeOK
  <1>19. CASE Execute
    <2>1. StoreTypes'
      BY <1>0, <1>19 DEF StoreTypes, Execute, ExecuteIf
    <2>2. OrchTypes'
      BY <1>0, <1>19 DEF OrchTypes, Execute, ExecuteIf
    <2>3. SocketTypes'
      BY <1>0, <1>19 DEF SocketTypes, Execute, ExecuteIf
    <2>4. StatementTypes'
      <3>1. cur \in Calls /\ sent' \subseteq Calls
        BY <1>0, <1>19 DEF StatementTypes, OrchTypes, Execute, ExecuteIf
      <3>2. dbState' \in [Calls -> {"idle", "running", "applied", "refused"}]
        BY <1>0, <1>19 DEF StatementTypes, Execute, ExecuteIf
      <3>3. CASE UNCHANGED home
        BY <1>0, <1>19, <3>1, <3>2, <3>3 DEF StatementTypes, Execute, ExecuteIf
      <3>4. CASE \E d \in sessionDBs :
                   home' = [home EXCEPT ![cur] = IF input[cur].sql.db # NoName
                                                 THEN input[cur].sql.db ELSE d]
        <4>1. PICK h : h \in Names \cup {NoName} /\ home' = [home EXCEPT ![cur] = h]
          <5>1. input[cur] \in Input
            BY <1>0, <1>19, <3>1, InputsAssumption DEF StoreTypes, OrchTypes, Execute, ExecuteIf
          <5>2. input[cur].sql.db \in Names \cup {NoName}
            BY <5>1 DEF Input, Classified
          <5>. QED
            BY <1>0, <3>4, <5>2 DEF StatementTypes
        <4>. QED
          BY <1>0, <1>19, <3>1, <3>2, <4>1 DEF StatementTypes, Execute, ExecuteIf
      <3>. QED
        BY <1>19, <3>3, <3>4 DEF Execute, ExecuteIf
    <2>. QED
      BY <2>1, <2>2, <2>3, <2>4 DEF TypeOK
  <1>20. CASE Answer
    BY <1>0, <1>20
       DEF TypeOK, StoreTypes, OrchTypes, SocketTypes, StatementTypes, Answer
  <1>21. CASE AnswerLost
    BY <1>0, <1>21
       DEF TypeOK, StoreTypes, OrchTypes, SocketTypes, StatementTypes, AnswerLost, ConnectionBreaks
  <1>22. CASE SettleAudit
    <2>1. StoreTypes'
      BY <1>0, <1>22 DEF StoreTypes, SettleAudit, Audit, OrchTypes
    <2>2. OrchTypes'
      BY <1>0, <1>22 DEF OrchTypes, SettleAudit, Audit
    <2>3. SocketTypes'
      BY <1>0, <1>22 DEF SocketTypes, SettleAudit, Audit
    <2>4. StatementTypes'
      BY <1>0, <1>22 DEF StatementTypes, SettleAudit, Audit
    <2>. QED
      BY <2>1, <2>2, <2>3, <2>4 DEF TypeOK
  <1>23. ASSUME NEW c \in Calls, DBApply(c)
         PROVE  TypeOK'
    <2>1. StoreTypes'
      BY <1>0, <1>23 DEF StoreTypes, DBApply
    <2>2. OrchTypes'
      BY <1>0, <1>23 DEF OrchTypes, DBApply
    <2>3. SocketTypes'
      BY <1>0, <1>23 DEF SocketTypes, DBApply
    <2>4. StatementTypes'
      BY <1>0, <1>23 DEF StatementTypes, DBApply
    <2>. QED
      BY <2>1, <2>2, <2>3, <2>4 DEF TypeOK
  <1>24. ASSUME NEW c \in Calls, DBRefuse(c)
         PROVE  TypeOK'
    BY <1>0, <1>24
       DEF TypeOK, StoreTypes, OrchTypes, SocketTypes, StatementTypes, DBRefuse
  <1>25. ASSUME NEW d \in UsedDBs, UseDatabase(d)
         PROVE  TypeOK'
    BY <1>0, <1>25
       DEF TypeOK, StoreTypes, OrchTypes, SocketTypes, StatementTypes, UseDatabase
  <1>26. CASE Forward
    <2>1. StoreTypes'
      BY <1>0, <1>26 DEF StoreTypes, Forward, HandlerReturns
    <2>2. OrchTypes'
      BY <1>0, <1>26 DEF OrchTypes, Forward, HandlerReturns
    <2>3. SocketTypes'
      <3>1. /\ events' \in Seq({"text", "tool_use", "tool_result", "done", "error"})
            /\ Len(events') <= Len(events)
        BY <1>0, <1>26 DEF SocketTypes, Forward
      <3>2. /\ handler' \in {"loop", "returned"}
            /\ ctxDone' \in BOOLEAN /\ conn' \in {"open", "gone"}
        BY <1>0, <1>26 DEF SocketTypes, Forward, HandlerReturns
      <3>. QED
        BY <1>0, <1>26, <3>1, <3>2 DEF SocketTypes, Forward
    <2>4. StatementTypes'
      BY <1>0, <1>26 DEF StatementTypes, Forward, HandlerReturns
    <2>. QED
      BY <2>1, <2>2, <2>3, <2>4 DEF TypeOK
  <1>27. CASE ReadFails
    <2>1. StoreTypes'
      BY <1>0, <1>27 DEF StoreTypes, ReadFails
    <2>2. OrchTypes'
      BY <1>0, <1>27 DEF OrchTypes, ReadFails
    <2>3. SocketTypes'
      BY <1>0, <1>27 DEF SocketTypes, ReadFails
    <2>4. StatementTypes'
      BY <1>0, <1>27 DEF StatementTypes, ReadFails
    <2>. QED
      BY <2>1, <2>2, <2>3, <2>4 DEF TypeOK
  <1>28. CASE ReadDecision
    <2>1. StoreTypes'
      BY <1>0, <1>28 DEF StoreTypes, ReadDecision, Message
    <2>2. OrchTypes'
      BY <1>0, <1>28 DEF OrchTypes, ReadDecision, Message
    <2>3. SocketTypes'
      <3>1. Head(inbox) \in Message /\ inbox' \in Seq(Message)
        BY <1>0, <1>28 DEF SocketTypes, ReadDecision
      <3>2. reader' \in ReaderState
        BY <1>0, <1>28, <3>1 DEF SocketTypes, ReadDecision, Message
      <3>. QED
        BY <1>0, <1>28, <3>1, <3>2 DEF SocketTypes, ReadDecision
    <2>4. StatementTypes'
      BY <1>0, <1>28 DEF StatementTypes, ReadDecision, Message
    <2>. QED
      BY <2>1, <2>2, <2>3, <2>4 DEF TypeOK
  <1>29. CASE DeliverDecision
    <2>1. StoreTypes'
      BY <1>0, <1>29 DEF StoreTypes, DeliverDecision, DeliverIf
    <2>2. OrchTypes'
      BY <1>0, <1>29 DEF OrchTypes, DeliverDecision, DeliverIf
    <2>3. SocketTypes'
      <3>1. reader' \in ReaderState
        BY <1>0, <1>29, ReaderMoves DEF SocketTypes, DeliverDecision, DeliverIf
      <3>2. /\ <<reader.accept>> \in Seq(BOOLEAN)
            /\ Len(<<reader.accept>>) <= 1
            /\ <<reader.accept>> = Append(<<>>, reader.accept)
        BY <1>0, OneDecision DEF SocketTypes
      <3>3. chan' = [chan EXCEPT ![reader.id] = <<reader.accept>>]
        BY <1>29, <3>2 DEF DeliverDecision, DeliverIf
      <3>4. chan' \in [Calls -> Seq(BOOLEAN)] /\ \A c \in Calls : Len(chan'[c]) <= 1
        BY <1>0, <3>2, <3>3, ChannelUpdate DEF SocketTypes
      <3>. QED
        BY <1>0, <1>29, <3>1, <3>4 DEF SocketTypes, DeliverDecision, DeliverIf
    <2>4. StatementTypes'
      BY <1>0, <1>29 DEF StatementTypes, DeliverDecision, DeliverIf
    <2>. QED
      BY <2>1, <2>2, <2>3, <2>4 DEF TypeOK
  <1>30. CASE ReadCancel
    <2>1. StoreTypes'
      BY <1>0, <1>30 DEF StoreTypes, ReadCancel
    <2>2. OrchTypes'
      BY <1>0, <1>30 DEF OrchTypes, ReadCancel
    <2>3. SocketTypes'
      <3>1. reader' \in ReaderState
        BY <1>0, <1>30, ReaderMoves DEF SocketTypes, ReadCancel
      <3>2. inbox' \in Seq(Message)
        BY <1>0, <1>30 DEF SocketTypes, ReadCancel
      <3>. QED
        BY <1>0, <1>30, <3>1, <3>2 DEF SocketTypes, ReadCancel
    <2>4. StatementTypes'
      BY <1>0, <1>30 DEF StatementTypes, ReadCancel
    <2>. QED
      BY <2>1, <2>2, <2>3, <2>4 DEF TypeOK
  <1>31. ASSUME NEW c \in Calls, NEW accept \in BOOLEAN, Click(c, accept)
         PROVE  TypeOK'
    <2>1. StoreTypes'
      BY <1>0, <1>31 DEF StoreTypes, Click, Message
    <2>2. OrchTypes'
      BY <1>0, <1>31 DEF OrchTypes, Click, Message
    <2>3. SocketTypes'
      BY <1>0, <1>31 DEF SocketTypes, Click, Message
    <2>4. StatementTypes'
      BY <1>0, <1>31 DEF StatementTypes, Click, Message
    <2>. QED
      BY <2>1, <2>2, <2>3, <2>4 DEF TypeOK
  <1>32. CASE Cancel
    <2>1. StoreTypes'
      BY <1>0, <1>32 DEF StoreTypes, Cancel, Message
    <2>2. OrchTypes'
      BY <1>0, <1>32 DEF OrchTypes, Cancel, Message
    <2>3. SocketTypes'
      BY <1>0, <1>32 DEF SocketTypes, Cancel, Message
    <2>4. StatementTypes'
      BY <1>0, <1>32 DEF StatementTypes, Cancel, Message
    <2>. QED
      BY <2>1, <2>2, <2>3, <2>4 DEF TypeOK
  <1>33. CASE Disconnect
    <2>1. StoreTypes'
      BY <1>0, <1>33 DEF StoreTypes, Disconnect
    <2>2. OrchTypes'
      BY <1>0, <1>33 DEF OrchTypes, Disconnect
    <2>3. SocketTypes'
      BY <1>0, <1>33 DEF SocketTypes, Disconnect
    <2>4. StatementTypes'
      BY <1>0, <1>33 DEF StatementTypes, Disconnect
    <2>. QED
      BY <2>1, <2>2, <2>3, <2>4 DEF TypeOK
  <1>34. ASSUME NEW on \in BOOLEAN, SetMaster(on)
         PROVE  TypeOK'
    <2>1. StoreTypes'
      BY <1>0, <1>34 DEF StoreTypes, SetMaster, NoteOpenGates, OpenGates
    <2>2. OrchTypes'
      BY <1>0, <1>34 DEF OrchTypes, SetMaster, NoteOpenGates, OpenGates
    <2>3. SocketTypes'
      BY <1>0, <1>34 DEF SocketTypes, SetMaster, NoteOpenGates, OpenGates
    <2>4. StatementTypes'
      BY <1>0, <1>34 DEF StatementTypes, SetMaster, NoteOpenGates, OpenGates
    <2>. QED
      BY <2>1, <2>2, <2>3, <2>4 DEF TypeOK
  <1>35. ASSUME NEW tables \in SUBSET PolicyTables, NEW flags \in SUBSET PolicyFlags,
                SetPolicy(tables, flags)
         PROVE  TypeOK'
    <2>1. StoreTypes'
      BY <1>0, <1>35 DEF StoreTypes, SetPolicy, NoteOpenGates, OpenGates
    <2>2. OrchTypes'
      BY <1>0, <1>35 DEF OrchTypes, SetPolicy, NoteOpenGates, OpenGates
    <2>3. SocketTypes'
      BY <1>0, <1>35 DEF SocketTypes, SetPolicy, NoteOpenGates, OpenGates
    <2>4. StatementTypes'
      BY <1>0, <1>35 DEF StatementTypes, SetPolicy, NoteOpenGates, OpenGates
    <2>. QED
      BY <2>1, <2>2, <2>3, <2>4 DEF TypeOK
  <1>36. CASE Crash
    <2>1. StoreTypes'
      BY <1>0, <1>36 DEF StoreTypes, Crash, HandlerReturns
    <2>2. OrchTypes'
      BY <1>0, <1>36 DEF OrchTypes, Crash, HandlerReturns
    <2>3. SocketTypes'
      <3>1. reader' \in ReaderState
        BY <1>0, <1>36, ReaderMoves DEF SocketTypes, Crash
      <3>2. events' = <<>>
        BY <1>36 DEF Crash
      <3>. QED
        BY <1>0, <1>36, <3>1, <3>2 DEF SocketTypes, Crash, HandlerReturns
    <2>4. StatementTypes'
      BY <1>0, <1>36 DEF StatementTypes, Crash, HandlerReturns
    <2>. QED
      BY <2>1, <2>2, <2>3, <2>4 DEF TypeOK
  <1>37. CASE UNCHANGED vars
    BY <1>0, <1>37
       DEF TypeOK, StoreTypes, OrchTypes, SocketTypes, StatementTypes
  <1>. QED
    BY <1>1, <1>2, <1>3, <1>4, <1>5, <1>6, <1>7, <1>8, <1>9, <1>10, <1>11, <1>12, <1>13,
       <1>14, <1>15, <1>16, <1>17, <1>18, <1>19, <1>20, <1>21, <1>22, <1>23, <1>24, <1>25, <1>26,
       <1>27, <1>28, <1>29, <1>30, <1>31, <1>32, <1>33, <1>34, <1>35, <1>36, <1>37
       DEF Next, Orchestrator, LLM, Database, Network, Reader, User

----------------------------------------------------------------------------
\* Which steps can touch what.

\* The steps that can touch a proposal's row, consent, statement or effect.
LEMMA StatementSteps ==
  ASSUME [Next]_vars
  PROVE  \/ UNCHANGED <<audit, approved, sent, dbState, effects>>
         \/ CheckMaster \/ CheckRow \/ RecordProposal \/ Execute \/ SettleAudit
         \/ \E c \in Calls : DBApply(c) \/ DBRefuse(c)
         \/ \E c \in Calls, accept \in BOOLEAN : Click(c, accept)
  <1>1. CASE Orchestrator
    BY <1>1 DEF Orchestrator, LLMEnd, LLMError, NextTurn, Finish, ToolResult, StartTool, Register,
                ShowCard, TakeDecision, GiveUp, Leave, LeaveTo, RecheckMaster, RecheckRow, Answer
  <1>2. CASE LLM
    BY <1>2 DEF LLM, LLMText, LLMToolUse
  <1>3. CASE Database
    BY <1>3 DEF Database
  <1>4. CASE Reader
    BY <1>4 DEF Reader, ReadFails, ReadDecision, DeliverDecision, DeliverIf, ReadCancel
  <1>5. CASE User
    BY <1>5 DEF User, Cancel, Disconnect, SetMaster, SetPolicy
  <1>6. CASE Network \/ Forward \/ Crash
    BY <1>6 DEF Network, AnswerLost, ConnectionBreaks, UseDatabase, Forward, Crash
  <1>7. CASE UNCHANGED vars
    BY <1>7
  <1>. QED
    BY <1>1, <1>2, <1>3, <1>4, <1>5, <1>6, <1>7 DEF Next

\* Everyone but the orchestrator, the LLM, a broken answer and a crash.
LEMMA OthersSteps ==
  ASSUME Database \/ Forward \/ Reader \/ User \/ (\E d \in UsedDBs : UseDatabase(d))
           \/ UNCHANGED vars
  PROVE  /\ UNCHANGED <<audit, input, orchVars, pending, shown, sent>>
         /\ \/ UNCHANGED <<policyVars, seenOpen>>
            \/ \E on \in BOOLEAN : SetMaster(on)
            \/ \E tables \in SUBSET PolicyTables, flags \in SUBSET PolicyFlags :
                 SetPolicy(tables, flags)
         /\ UNCHANGED effects \/ \E c \in Calls : DBApply(c)
  <1>1. CASE Database
    BY <1>1 DEF Database, DBApply, DBRefuse
  <1>2. CASE Reader
    BY <1>2 DEF Reader, ReadFails, ReadDecision, DeliverDecision, DeliverIf, ReadCancel
  <1>3. CASE User
    <2>1. CASE \E on \in BOOLEAN : SetMaster(on)
      BY <2>1 DEF SetMaster
    <2>2. CASE \E tables \in SUBSET PolicyTables, flags \in SUBSET PolicyFlags :
                 SetPolicy(tables, flags)
      <3>1. UNCHANGED <<audit, input, orchVars, pending, shown, sent, effects>>
        BY <2>2 DEF SetPolicy
      <3>. QED
        BY <2>2, <3>1
    <2>3. CASE \/ \E c \in Calls, accept \in BOOLEAN : Click(c, accept)
               \/ Cancel \/ Disconnect
      BY <2>3 DEF Click, Cancel, Disconnect
    <2>. QED
      BY <1>3, <2>1, <2>2, <2>3 DEF User
  <1>4. CASE (\E d \in UsedDBs : UseDatabase(d)) \/ Forward \/ UNCHANGED vars
    BY <1>4 DEF UseDatabase, Forward
  <1>. QED
    BY <1>1, <1>2, <1>3, <1>4

----------------------------------------------------------------------------
\* One lemma per conjunct of the inductive invariant.

\* The row CheckRow looks up is one the SQL of a well-formed proposal needs.
LEMMA OpenGatesRow ==
  ASSUME NEW in \in Input, WellFormed(in), RowOpen(in)
  PROVE  "row" \in OpenGates(in, master, granted)
  <1> DEFINE row == <<in.db, in.table, FlagOf(in.op)>>
  <1>1. row \in granted
    BY DEF RowOpen
  <1>2. /\ EqualFold(row[1], TargetDB(in))
        /\ EqualFold(row[2], in.sql.table)
        /\ row[3] = FlagOf(in.sql.op)
    BY DEF WellFormed, EqualFold
  <1>. QED
    BY <1>1, <1>2 DEF OpenGates

\* Only Execute sends, and only what an answer of the user let through.
LEMMA NothingRunsUnapprovedStep ==
  ASSUME ApprovalsAreReal, VerdictByStep, NothingRunsUnapproved, [Next]_vars
  PROVE  NothingRunsUnapproved'
  <1>1. CASE UNCHANGED <<sent, approved>>
    BY <1>1 DEF NothingRunsUnapproved
  <1>2. CASE Execute
    <2>1. cur \in approved
      BY <1>2 DEF ApprovalsAreReal, VerdictByStep, AfterConsent, InProposal, PCs, Execute,
                  ExecuteIf
    <2>2. sent' \subseteq sent \cup {cur} /\ approved' = approved
      BY <1>2 DEF Execute, ExecuteIf
    <2>. QED
      BY <2>1, <2>2 DEF NothingRunsUnapproved
  <1>3. ASSUME NEW c \in Calls, NEW accept \in BOOLEAN, Click(c, accept)
        PROVE  NothingRunsUnapproved'
    <2>1. sent' = sent /\ approved \subseteq approved'
      BY <1>3 DEF Click
    <2>. QED
      BY <2>1 DEF NothingRunsUnapproved
  <1>4. CASE \/ CheckMaster \/ CheckRow \/ RecordProposal \/ SettleAudit
             \/ \E c \in Calls : DBApply(c) \/ DBRefuse(c)
    <2>1. UNCHANGED <<sent, approved>>
      BY <1>4 DEF CheckMaster, CheckRow, RecordProposal, SettleAudit, DBApply, DBRefuse
    <2>. QED
      BY <2>1, <1>1
  <1>. QED
    BY <1>1, <1>2, <1>3, <1>4, StatementSteps

\* The database knows a statement exactly from the moment it is sent.
LEMMA StatementStateStep ==
  ASSUME TypeOK, VerdictByStep, StatementState, [Next]_vars
  PROVE  StatementState'
  <1>0. DOMAIN dbState = Calls /\ DOMAIN effects = Calls
    BY DEF TypeOK, StatementTypes
  <1>1. CASE UNCHANGED <<sent, dbState, effects>>
    BY <1>1 DEF StatementState
  <1>2. CASE Execute
    <2>1. cur \in Calls /\ cur \notin sent
      BY <1>2 DEF Execute, ExecuteIf, VerdictByStep, AfterConsent, TypeOK, OrchTypes, InProposal,
                  PCs
    <2>. QED
      BY <1>0, <1>2, <2>1 DEF Execute, ExecuteIf, StatementState
  <1>3. ASSUME NEW c \in Calls, DBApply(c) \/ DBRefuse(c)
        PROVE  StatementState'
    BY <1>0, <1>3 DEF DBApply, DBRefuse, StatementState
  <1>4. CASE \/ CheckMaster \/ CheckRow \/ RecordProposal \/ SettleAudit
             \/ \E c \in Calls, accept \in BOOLEAN : Click(c, accept)
    <2>1. UNCHANGED <<sent, dbState, effects>>
      BY <1>4 DEF CheckMaster, CheckRow, RecordProposal, SettleAudit, Click
    <2>. QED
      BY <2>1, <1>1
  <1>. QED
    BY <1>1, <1>2, <1>3, <1>4, StatementSteps

\* Every write to the audit table is true when it is made, and stays so.
LEMMA AuditTruthfulStep ==
  ASSUME TypeOK, CallOrder, VerdictByStep, StatementState, AuditTruthful, [Next]_vars
  PROVE  AuditTruthful'
  <1>0. DOMAIN audit = Calls /\ DOMAIN effects = Calls
    BY DEF TypeOK, StoreTypes, StatementTypes
  <1>1. CASE UNCHANGED <<audit, sent, effects>>
    BY <1>1 DEF AuditTruthful
  <1>2. CASE CheckMaster \/ CheckRow \/ RecordProposal
    <2>1. cur \notin sent /\ UNCHANGED <<sent, effects>>
      BY <1>2 DEF CheckMaster, CheckRow, RecordProposal, CallOrder, BeforeRecord
    <2>2. \A c \in Calls : audit'[c] = audit[c] \/ (c = cur /\ audit'[c] \in {"proposed", "denied"})
      BY <1>0, <1>2 DEF CheckMaster, CheckRow, RecordProposal, Audit
    <2>. QED
      BY <2>1, <2>2 DEF AuditTruthful
  <1>3. CASE SettleAudit
    <2>1. /\ UNCHANGED <<sent, effects>>
          /\ verdict \in {"executed", "failed", "cancelled", "denied"}
          /\ verdict = "executed" => effects[cur] = 1
          /\ verdict \in {"cancelled", "denied"} => cur \notin sent
      BY <1>3 DEF SettleAudit, VerdictByStep, TypeOK, OrchTypes
    <2>2. \A c \in Calls : audit'[c] = audit[c] \/ (c = cur /\ audit'[c] = verdict)
      BY <1>0, <1>3 DEF SettleAudit, Audit
    <2>. QED
      BY <2>1, <2>2 DEF AuditTruthful
  <1>4. CASE Execute
    <2>1. audit[cur] = "proposed" /\ UNCHANGED <<audit, effects>> /\ sent' \subseteq sent \cup {cur}
      BY <1>4 DEF Execute, ExecuteIf, CallOrder, OnRecord, AfterConsent
    <2>. QED
      BY <2>1 DEF AuditTruthful
  <1>5. ASSUME NEW c \in Calls, DBApply(c)
        PROVE  AuditTruthful'
    <2>1. effects[c] = 0 /\ UNCHANGED <<audit, sent>> /\ effects' = [effects EXCEPT ![c] = @ + 1]
      BY <1>5 DEF DBApply, StatementState
    <2>. QED
      BY <1>0, <2>1 DEF AuditTruthful
  <1>6. CASE \/ \E c \in Calls : DBRefuse(c)
             \/ \E c \in Calls, accept \in BOOLEAN : Click(c, accept)
    <2>1. UNCHANGED <<audit, sent, effects>>
      BY <1>6 DEF DBRefuse, Click
    <2>. QED
      BY <2>1, <1>1
  <1>. QED
    BY <1>1, <1>2, <1>3, <1>4, <1>5, <1>6, StatementSteps

\* What the orchestrator has concluded at each of its steps.
LEMMA VerdictByStepStep ==
  ASSUME TypeOK, CallOrder, StatementState, VerdictByStep, [Next]_vars
  PROVE  VerdictByStep'
  <1>0. StoreTypes /\ OrchTypes /\ SocketTypes /\ StatementTypes
    BY DEF TypeOK
  <1> USE <1>0 DEF OrchTypes, PCs, InProposal, BeforeRecord, OnCard, AfterConsent, OnRecord,
              CallOrder, VerdictByStep
  <1>1. CASE LLMText
    BY <1>1 DEF LLMText, Emit
  <1>2. ASSUME NEW c \in Calls, NEW in \in Inputs, LLMToolUse(c, in)
         PROVE  VerdictByStep'
    BY <1>2 DEF LLMToolUse, Emit
  <1>3. CASE LLMEnd
    BY <1>3 DEF LLMEnd
  <1>4. CASE LLMError
    BY <1>4 DEF LLMError
  <1>5. CASE NextTurn
    BY <1>5 DEF NextTurn
  <1>6. CASE Finish
    BY <1>6 DEF Finish, Emit
  <1>7. CASE ToolResult
    BY <1>7 DEF ToolResult, Emit
  <1>8. ASSUME NEW c \in queue, StartTool(c)
         PROVE  VerdictByStep'
    BY <1>8 DEF StartTool
  <1>9. CASE CheckMaster
    BY <1>9 DEF CheckMaster, Audit
  <1>10. CASE CheckRow
    BY <1>10 DEF CheckRow, Audit
  <1>11. CASE RecordProposal
    BY <1>11 DEF RecordProposal
  <1>12. CASE Register
    BY <1>12 DEF Register
  <1>13. CASE ShowCard
    BY <1>13 DEF ShowCard
  <1>14. CASE TakeDecision
    BY <1>14 DEF TakeDecision, OpenGates
  <1>15. CASE GiveUp
    BY <1>15 DEF GiveUp
  <1>16. CASE Leave
    BY <1>16 DEF Leave, LeaveTo
  <1>17. CASE RecheckMaster
    BY <1>17 DEF RecheckMaster
  <1>18. CASE RecheckRow
    BY <1>18 DEF RecheckRow
  <1>19. CASE Execute
    BY <1>19 DEF Execute, ExecuteIf
  <1>20. CASE Answer
    BY <1>20 DEF Answer, StatementState
  <1>21. CASE AnswerLost
    BY <1>21 DEF AnswerLost, ConnectionBreaks
  <1>22. CASE SettleAudit
    BY <1>22 DEF SettleAudit, Audit
  <1>23. CASE Crash
    BY <1>23 DEF Crash, HandlerReturns
  <1>24. CASE \/ Database \/ Forward \/ Reader \/ User
             \/ (\E d \in UsedDBs : UseDatabase(d)) \/ UNCHANGED vars
    <2>1. UNCHANGED <<orchVars, sent>> /\ (UNCHANGED effects \/ \E c \in Calls : DBApply(c))
      BY <1>24, OthersSteps
    <2>2. CASE UNCHANGED effects
      BY <2>1, <2>2
    <2>3. ASSUME NEW c \in Calls, DBApply(c)
          PROVE  VerdictByStep'
      <3>1. effects[c] = 0 /\ \A k \in Calls \ {c} : effects'[k] = effects[k]
        BY <2>3 DEF DBApply, StatementState, StatementTypes
      <3>. QED
        BY <2>1, <3>1
    <2>. QED
      BY <2>1, <2>2, <2>3
  <1>. QED
    BY <1>1, <1>2, <1>3, <1>4, <1>5, <1>6, <1>7, <1>8, <1>9, <1>10, <1>11, <1>12, <1>13,
       <1>14, <1>15, <1>16, <1>17, <1>18, <1>19, <1>20, <1>21, <1>22, <1>23, <1>24
       DEF Next, Orchestrator, LLM, Network

\* Both re-checks look at gates that are open since the decision.
LEMMA GatesSeenStep ==
  ASSUME TypeOK, CallOrder, VerdictByStep, GatesSeen, [Next]_vars
  PROVE  GatesSeen'
  <1>0. StoreTypes /\ OrchTypes /\ SocketTypes /\ StatementTypes
    BY DEF TypeOK
  <1> USE <1>0 DEF AfterConsent, GatesSeen, VerdictByStep
  <1>1. CASE LLMText
    BY <1>1 DEF LLMText, Emit
  <1>2. ASSUME NEW c \in Calls, NEW in \in Inputs, LLMToolUse(c, in)
         PROVE  GatesSeen'
    BY <1>2 DEF LLMToolUse, Emit
  <1>3. CASE LLMEnd
    BY <1>3 DEF LLMEnd
  <1>4. CASE LLMError
    BY <1>4 DEF LLMError
  <1>5. CASE NextTurn
    BY <1>5 DEF NextTurn
  <1>6. CASE Finish
    BY <1>6 DEF Finish, Emit
  <1>7. CASE ToolResult
    BY <1>7 DEF ToolResult, Emit
  <1>8. ASSUME NEW c \in queue, StartTool(c)
         PROVE  GatesSeen'
    BY <1>8 DEF StartTool
  <1>9. CASE CheckMaster
    BY <1>9 DEF CheckMaster, Audit
  <1>10. CASE CheckRow
    BY <1>10 DEF CheckRow, Audit
  <1>11. CASE RecordProposal
    BY <1>11 DEF RecordProposal
  <1>12. CASE Register
    BY <1>12 DEF Register
  <1>13. CASE ShowCard
    BY <1>13 DEF ShowCard
  <1>14. CASE TakeDecision
    BY <1>14 DEF TakeDecision, OpenGates
  <1>15. CASE GiveUp
    BY <1>15 DEF GiveUp
  <1>16. CASE Leave
    BY <1>16 DEF Leave, LeaveTo
  <1>17. CASE RecheckMaster
    <2>1. /\ pc = "recheckMaster" /\ UNCHANGED <<seenOpen, input, cur, master, granted>>
          /\ pc' \in {"recheckRow", "settle"} /\ (pc' = "recheckRow" => master)
      BY <1>17 DEF RecheckMaster
    <2>2. OpenGates(input[cur], master, granted) \subseteq seenOpen
      BY <2>1
    <2>3. master => "master" \in OpenGates(input[cur], master, granted)
      BY DEF OpenGates
    <2>4. OpenGates(input[cur], master, granted)' \subseteq seenOpen'
      BY <2>1, <2>2 DEF OpenGates
    <2>. QED
      BY <2>1, <2>2, <2>3, <2>4
  <1>18. CASE RecheckRow
    <2>1. /\ pc = "recheckRow" /\ UNCHANGED <<seenOpen, input, cur, master, granted>>
          /\ pc' \in {"execute", "settle"} /\ (pc' = "execute" => RowOpen(input[cur]))
      BY <1>18 DEF RecheckRow
    <2>2. OpenGates(input[cur], master, granted) \subseteq seenOpen /\ "master" \in seenOpen
      BY <2>1
    <2>3. input[cur] \in Input /\ WellFormed(input[cur])
      BY <2>1, InputsAssumption
         DEF StoreTypes, OrchTypes, CallOrder, InProposal, PCs, OnRecord
    <2>4. pc' = "execute" => "row" \in seenOpen
      BY <2>1, <2>2, <2>3, OpenGatesRow
    <2>5. pc' = "execute" => seenOpen' = {"master", "row"}
      BY <2>1, <2>2, <2>4 DEF StatementTypes
    <2>6. OpenGates(input[cur], master, granted)' \subseteq seenOpen'
      BY <2>1, <2>2 DEF OpenGates
    <2>. QED
      BY <2>1, <2>5, <2>6
  <1>19. CASE Execute
    BY <1>19 DEF Execute, ExecuteIf
  <1>20. CASE Answer
    BY <1>20 DEF Answer
  <1>21. CASE AnswerLost
    BY <1>21 DEF AnswerLost, ConnectionBreaks
  <1>22. CASE SettleAudit
    BY <1>22 DEF SettleAudit, Audit
  <1>23. CASE Crash
    BY <1>23 DEF Crash, HandlerReturns
  <1>24. CASE \/ Database \/ Forward \/ Reader \/ User
             \/ (\E d \in UsedDBs : UseDatabase(d)) \/ UNCHANGED vars
    <2>1. /\ UNCHANGED <<input, orchVars>>
          /\ \/ UNCHANGED <<policyVars, seenOpen>>
             \/ \E on \in BOOLEAN : SetMaster(on)
             \/ \E tables \in SUBSET PolicyTables, flags \in SUBSET PolicyFlags :
                  SetPolicy(tables, flags)
      BY <1>24, OthersSteps
    <2>2. CASE UNCHANGED <<policyVars, seenOpen>>
      BY <2>1, <2>2 DEF OpenGates
    <2>3. ASSUME NEW on \in BOOLEAN, SetMaster(on)
          PROVE  GatesSeen'
      BY <2>1, <2>3 DEF SetMaster, NoteOpenGates, OpenGates
    <2>4. ASSUME NEW tables \in SUBSET PolicyTables, NEW flags \in SUBSET PolicyFlags,
                 SetPolicy(tables, flags)
          PROVE  GatesSeen'
      BY <2>1, <2>4 DEF SetPolicy, NoteOpenGates, OpenGates
    <2>. QED
      BY <2>1, <2>2, <2>3, <2>4
  <1>. QED
    BY <1>1, <1>2, <1>3, <1>4, <1>5, <1>6, <1>7, <1>8, <1>9, <1>10, <1>11, <1>12, <1>13,
       <1>14, <1>15, <1>16, <1>17, <1>18, <1>19, <1>20, <1>21, <1>22, <1>23, <1>24
       DEF Next, Orchestrator, LLM, Network

\* Each call of the LLM passes through its stages once.
LEMMA CallOrderStep ==
  ASSUME TypeOK, VerdictByStep, CallOrder, [Next]_vars
  PROVE  CallOrder'
  <1>0. StoreTypes /\ OrchTypes /\ SocketTypes /\ StatementTypes
    BY DEF TypeOK
  <1> USE BoundsAssumption, <1>0
      DEF StoreTypes, OrchTypes, StatementTypes, PCs, InProposal, BeforeRecord, OnCard,
          AfterConsent, OnRecord, CallOrder
  <1>1. CASE LLMText
    BY <1>1 DEF LLMText, Emit
  <1>2. ASSUME NEW c \in Calls, NEW in \in Inputs, LLMToolUse(c, in)
         PROVE  CallOrder'
    BY <1>2 DEF LLMToolUse, Emit
  <1>3. CASE LLMEnd
    BY <1>3 DEF LLMEnd
  <1>4. CASE LLMError
    BY <1>4 DEF LLMError
  <1>5. CASE NextTurn
    BY <1>5 DEF NextTurn
  <1>6. CASE Finish
    BY <1>6 DEF Finish, Emit
  <1>7. CASE ToolResult
    BY <1>7 DEF ToolResult, Emit
  <1>8. ASSUME NEW c \in queue, StartTool(c)
         PROVE  CallOrder'
    BY <1>8 DEF StartTool, VerdictByStep
  <1>9. CASE CheckMaster
    <2>1. /\ pc = "checkMaster" /\ cur \in Calls /\ input[cur] # NoCall /\ cur \notin queue
          /\ UNCHANGED <<input, queue, cur, shown, sent>>
      BY <1>9 DEF CheckMaster
    <2>2. \A c \in Calls \ {cur} : audit'[c] = audit[c]
      BY <1>9 DEF CheckMaster, Audit
    <2>3. (pc' = "checkRow" /\ audit' = audit) \/ pc' = "result"
      BY <1>9 DEF CheckMaster, Audit
    <2>4. \A c \in Calls : input'[c] = NoCall \/ c \in queue' =>
            audit'[c] = "none" /\ c \notin shown' \cup sent'
      BY <2>1, <2>2
    <2>5. \A c \in shown' : audit'[c] # "none"
      BY <2>1, <2>2, <2>3
    <2>. QED
      BY <2>1, <2>3, <2>4, <2>5
  <1>10. CASE CheckRow
    <2>1. /\ pc = "checkRow" /\ cur \in Calls /\ input[cur] # NoCall /\ cur \notin queue
          /\ UNCHANGED <<input, queue, cur, shown, sent>>
      BY <1>10 DEF CheckRow
    <2>2. \A c \in Calls \ {cur} : audit'[c] = audit[c]
      BY <1>10 DEF CheckRow, Audit
    <2>3. (pc' = "record" /\ audit' = audit) \/ pc' = "result"
      BY <1>10 DEF CheckRow, Audit
    <2>4. \A c \in Calls : input'[c] = NoCall \/ c \in queue' =>
            audit'[c] = "none" /\ c \notin shown' \cup sent'
      BY <2>1, <2>2
    <2>5. \A c \in shown' : audit'[c] # "none"
      BY <2>1, <2>2, <2>3
    <2>. QED
      BY <2>1, <2>3, <2>4, <2>5
  <1>11. CASE RecordProposal
    <2>1. /\ pc = "record" /\ cur \in Calls /\ input[cur] # NoCall /\ cur \notin queue
          /\ UNCHANGED <<input, queue, cur, shown, sent>>
      BY <1>11 DEF RecordProposal
    <2>2. \A c \in Calls \ {cur} : audit'[c] = audit[c]
      BY <1>11 DEF RecordProposal, Audit
    <2>3. (pc' = "register" /\ audit'[cur] = "proposed") \/ pc' = "result"
      BY <1>11 DEF RecordProposal, Audit
    <2>4. \A c \in Calls : input'[c] = NoCall \/ c \in queue' =>
            audit'[c] = "none" /\ c \notin shown' \cup sent'
      BY <2>1, <2>2
    <2>5. \A c \in shown' : audit'[c] # "none"
      BY <2>1, <2>2, <2>3
    <2>. QED
      BY <2>1, <2>3, <2>4, <2>5
  <1>12. CASE Register
    BY <1>12 DEF Register
  <1>13. CASE ShowCard
    BY <1>13 DEF ShowCard
  <1>14. CASE TakeDecision
    BY <1>14 DEF TakeDecision, OpenGates
  <1>15. CASE GiveUp
    BY <1>15 DEF GiveUp
  <1>16. CASE Leave
    BY <1>16 DEF Leave, LeaveTo
  <1>17. CASE RecheckMaster
    BY <1>17 DEF RecheckMaster
  <1>18. CASE RecheckRow
    BY <1>18 DEF RecheckRow
  <1>19. CASE Execute
    BY <1>19 DEF Execute, ExecuteIf
  <1>20. CASE Answer
    BY <1>20 DEF Answer
  <1>21. CASE AnswerLost
    BY <1>21 DEF AnswerLost, ConnectionBreaks
  <1>22. CASE SettleAudit
    <2>1. /\ pc = "settle" /\ cur \in Calls /\ input[cur] # NoCall /\ cur \notin queue
          /\ UNCHANGED <<input, queue, cur, shown, sent>>
      BY <1>22 DEF SettleAudit
    <2>2. \A c \in Calls \ {cur} : audit'[c] = audit[c]
      BY <1>22 DEF SettleAudit, Audit
    <2>3. pc' = "result" /\ audit'[cur] # "none"
      BY <1>22 DEF SettleAudit, Audit
    <2>4. \A c \in Calls : input'[c] = NoCall \/ c \in queue' =>
            audit'[c] = "none" /\ c \notin shown' \cup sent'
      BY <2>1, <2>2
    <2>5. \A c \in shown' : audit'[c] # "none"
      BY <2>1, <2>2, <2>3
    <2>. QED
      BY <2>1, <2>3, <2>4, <2>5
  <1>23. CASE Crash
    BY <1>23 DEF Crash, HandlerReturns
  <1>24. CASE \/ Database \/ Forward \/ Reader \/ User
             \/ (\E d \in UsedDBs : UseDatabase(d)) \/ UNCHANGED vars
    <2>1. UNCHANGED <<audit, input, orchVars, shown, sent>>
      BY <1>24, OthersSteps
    <2>. QED
      BY <2>1
  <1>. QED
    BY <1>1, <1>2, <1>3, <1>4, <1>5, <1>6, <1>7, <1>8, <1>9, <1>10, <1>11, <1>12, <1>13,
       <1>14, <1>15, <1>16, <1>17, <1>18, <1>19, <1>20, <1>21, <1>22, <1>23, <1>24
       DEF Next, Orchestrator, LLM, Network

\* Approvals travel from the card to the orchestrator unchanged.
LEMMA ApprovalsAreRealStep ==
  ASSUME TypeOK, VerdictByStep, ApprovalsAreReal, [Next]_vars
  PROVE  ApprovalsAreReal'
  <1>0. StoreTypes /\ OrchTypes /\ SocketTypes /\ StatementTypes
    BY DEF TypeOK
  <1> DEFINE Inbox == \A i \in DOMAIN inbox : inbox[i].type = "execute_write" =>
                        /\ inbox[i].id \in Calls
                        /\ inbox[i].accept => inbox[i].id \in approved
             Carried == reader.at = "send" =>
                          reader.id \in Calls /\ (reader.accept => reader.id \in approved)
             Buffered == \A c \in Calls : chan[c] # <<>> /\ Head(chan[c]) => c \in approved
             Taken == pc \in InProposal /\ verdict = "accepted" => cur \in approved
  <1>1. Inbox /\ Carried /\ Buffered /\ Taken
    BY DEF ApprovalsAreReal
  <1>2. ASSUME UNCHANGED <<inbox, reader, chan, approved>>, Taken'
        PROVE  ApprovalsAreReal'
    BY <1>1, <1>2 DEF ApprovalsAreReal
  <1>3. CASE TakeDecision
    <2>1. /\ cur \in Calls /\ UNCHANGED <<cur, approved, inbox, reader>>
          /\ chan[cur] # <<>> /\ chan' = [chan EXCEPT ![cur] = Tail(chan[cur])]
          /\ verdict' = "accepted" => Head(chan[cur])
      BY <1>0, <1>3 DEF TakeDecision, OrchTypes, InProposal, PCs
    <2>2. chan[cur] \in Seq(BOOLEAN) /\ Len(chan[cur]) <= 1 /\ DOMAIN chan = Calls
      BY <1>0, <2>1 DEF SocketTypes
    <2>3. Tail(chan[cur]) = <<>>
      BY <2>1, <2>2, ShorterTail
    <2>4. \A c \in Calls : chan'[c] # <<>> => chan'[c] = chan[c]
      BY <2>1, <2>2, <2>3
    <2>5. Taken'
      BY <1>1, <2>1
    <2>. QED
      BY <1>1, <2>1, <2>4, <2>5 DEF ApprovalsAreReal
  <1>4. CASE ReadDecision
    <2>1. Head(inbox) = inbox[1] /\ 1 \in DOMAIN inbox /\ UNCHANGED <<chan, approved>>
          /\ \A i \in DOMAIN inbox' : i + 1 \in DOMAIN inbox /\ inbox'[i] = inbox[i + 1]
      BY <1>0, <1>4 DEF ReadDecision, SocketTypes
    <2>2. Inbox'
      BY <1>1, <2>1
    <2>3. Carried'
      BY <1>1, <1>4, <2>1 DEF ReadDecision
    <2>4. Taken' /\ Buffered'
      BY <1>1, <1>4, <2>1 DEF ReadDecision
    <2>. QED
      BY <2>2, <2>3, <2>4 DEF ApprovalsAreReal
  <1>5. CASE DeliverDecision
    <2>1. /\ reader.at = "send" /\ reader'.at = "read"
          /\ chan[reader.id] = <<>> /\ UNCHANGED <<approved, inbox, pc, verdict, cur>>
      BY <1>0, <1>5 DEF DeliverDecision, DeliverIf, SocketTypes, ReaderState
    <2>2. /\ chan' = [chan EXCEPT ![reader.id] = <<reader.accept>>]
          /\ Head(<<reader.accept>>) = reader.accept
      BY <1>0, <1>5, <2>1, OneDecision DEF DeliverDecision, DeliverIf, SocketTypes
    <2>3. reader.id \in Calls /\ (reader.accept => reader.id \in approved) /\ DOMAIN chan = Calls
      BY <1>0, <1>1, <2>1 DEF SocketTypes
    <2>4. Buffered'
      BY <1>1, <2>1, <2>2, <2>3
    <2>. QED
      BY <1>1, <2>1, <2>4 DEF ApprovalsAreReal
  <1>6. CASE ReadCancel
    <2>1. /\ reader'.at = "returned" /\ UNCHANGED <<chan, approved, pc, verdict, cur>>
          /\ \A i \in DOMAIN inbox' : i + 1 \in DOMAIN inbox /\ inbox'[i] = inbox[i + 1]
      BY <1>0, <1>6 DEF ReadCancel, SocketTypes, ReaderState
    <2>. QED
      BY <1>1, <2>1 DEF ApprovalsAreReal
  <1>7. ASSUME NEW m \in Message, inbox' = Append(inbox, m), approved \subseteq approved',
               m.type = "execute_write" => m.id \in Calls /\ (m.accept => m.id \in approved'),
               UNCHANGED <<chan, reader, pc, verdict, cur>>
        PROVE  ApprovalsAreReal'
    <2>1. \A i \in DOMAIN inbox' : (i \in DOMAIN inbox /\ inbox'[i] = inbox[i]) \/ inbox'[i] = m
      BY <1>0, <1>7 DEF SocketTypes
    <2>2. Inbox'
      BY <1>1, <1>7, <2>1
    <2>3. Carried' /\ Buffered' /\ Taken'
      BY <1>1, <1>7
    <2>. QED
      BY <2>2, <2>3 DEF ApprovalsAreReal
  <1>8. ASSUME NEW c \in Calls, NEW accept \in BOOLEAN, Click(c, accept)
        PROVE  ApprovalsAreReal'
    <2> DEFINE m == [type |-> "execute_write", id |-> c, accept |-> accept]
    <2>1. m \in Message /\ inbox' = Append(inbox, m) /\ approved \subseteq approved'
          /\ (accept => c \in approved') /\ UNCHANGED <<chan, reader, pc, verdict, cur>>
      BY <1>8 DEF Click, Message
    <2>. QED
      BY <2>1, <1>7
  <1>9. CASE Cancel
    <2> DEFINE m == [type |-> "cancel", id |-> NoCall, accept |-> FALSE]
    <2>1. /\ m \in Message /\ inbox' = Append(inbox, m)
          /\ UNCHANGED <<approved, chan, reader, pc, verdict, cur>>
      BY <1>9 DEF Cancel, Message
    <2>. QED
      BY <2>1, <1>7
  <1>10. CASE ReadFails \/ Crash
    <2>1. /\ reader'.at = "returned" /\ UNCHANGED <<chan, approved, inbox, verdict, cur>>
          /\ pc' \in {pc, "crashed"}
      BY <1>0, <1>10 DEF ReadFails, Crash, SocketTypes, ReaderState
    <2>. QED
      BY <1>1, <2>1 DEF ApprovalsAreReal, InProposal, PCs
  <1>11. CASE \/ Database \/ Forward \/ Disconnect \/ Network
              \/ (\E on \in BOOLEAN : SetMaster(on))
              \/ (\E tables \in SUBSET PolicyTables, flags \in SUBSET PolicyFlags :
                    SetPolicy(tables, flags))
              \/ UNCHANGED vars
    <2>1. /\ UNCHANGED <<inbox, reader, chan, approved, cur>>
          /\ verdict' = "failed" \/ UNCHANGED <<pc, verdict>>
      BY <1>11 DEF Database, DBApply, DBRefuse, Forward, Disconnect, Network, AnswerLost,
                  ConnectionBreaks, UseDatabase, SetMaster, SetPolicy
    <2>. QED
      BY <1>1, <1>2, <2>1
  <1>12. CASE LLM \/ (Orchestrator /\ ~TakeDecision)
    <2>1. UNCHANGED <<inbox, reader, chan, approved>>
      BY <1>12 DEF LLM, LLMText, LLMToolUse, Orchestrator, LLMEnd, LLMError, NextTurn, Finish,
                  ToolResult, StartTool, CheckMaster, CheckRow, RecordProposal, Register, ShowCard,
                  GiveUp, Leave, LeaveTo, RecheckMaster, RecheckRow, Execute, ExecuteIf, Answer,
                  SettleAudit
    <2>2. \/ verdict' # "accepted"
          \/ pc \in InProposal /\ UNCHANGED <<cur, verdict>>
          \/ pc \in {"llm", "tools"} /\ UNCHANGED verdict
          \/ pc \notin InProposal /\ pc' \notin InProposal
      BY <1>12 DEF LLM, LLMText, LLMToolUse, Orchestrator, LLMEnd, LLMError, NextTurn, Finish,
                  ToolResult, StartTool, CheckMaster, CheckRow, RecordProposal, Register, ShowCard,
                  GiveUp, Leave, LeaveTo, RecheckMaster, RecheckRow, Execute, ExecuteIf, Answer,
                  SettleAudit, InProposal, PCs
    <2>3. Taken'
      BY <1>1, <2>1, <2>2 DEF VerdictByStep, BeforeRecord, OnCard
    <2>. QED
      BY <2>1, <2>3, <1>2
  <1>. QED
    BY <1>3, <1>4, <1>5, <1>6, <1>8, <1>9, <1>10, <1>11, <1>12
       DEF Next, Reader, User, Orchestrator

----------------------------------------------------------------------------
\* The theorems.

\* The inductive invariant holds when the session starts.
LEMMA InvInit == Init => IInv
  <1> SUFFICES ASSUME Init PROVE IInv
    OBVIOUS
  <1>1. TypeOK
    BY TypeInit
  <1>2. CallOrder /\ VerdictByStep /\ StatementState /\ GatesSeen
    BY BoundsAssumption
       DEF Init, CallOrder, VerdictByStep, StatementState, GatesSeen, InProposal, PCs,
           BeforeRecord, OnRecord, OnCard, AfterConsent
  <1>3. ApprovalsAreReal
    <2>1. DOMAIN inbox = {} /\ reader.at # "send" /\ verdict = "none"
      BY DEF Init
    <2>2. \A c \in Calls : chan[c] = <<>>
      BY DEF Init
    <2>. QED
      BY <2>1, <2>2 DEF ApprovalsAreReal
  <1>4. NothingRunsUnapproved /\ AuditTruthful
    BY DEF Init, NothingRunsUnapproved, AuditTruthful
  <1>. QED
    BY <1>1, <1>2, <1>3, <1>4 DEF IInv

\* The inductive invariant is inductive.
LEMMA InvStep == IInv /\ [Next]_vars => IInv'
  <1> SUFFICES ASSUME IInv, [Next]_vars
               PROVE  IInv'
    OBVIOUS
  <1>0. /\ TypeOK /\ CallOrder /\ ApprovalsAreReal /\ VerdictByStep /\ StatementState /\ GatesSeen
        /\ NothingRunsUnapproved /\ AuditTruthful
    BY DEF IInv
  <1>1. TypeOK'
    BY <1>0, TypeStep
  <1>2. CallOrder' /\ VerdictByStep' /\ StatementState'
    BY <1>0, CallOrderStep, VerdictByStepStep, StatementStateStep
  <1>3. ApprovalsAreReal' /\ GatesSeen'
    BY <1>0, ApprovalsAreRealStep, GatesSeenStep
  <1>4. NothingRunsUnapproved' /\ AuditTruthful'
    BY <1>0, NothingRunsUnapprovedStep, AuditTruthfulStep
  <1>. QED
    BY <1>1, <1>2, <1>3, <1>4 DEF IInv

\* Every behaviour of a chat session keeps its variables in their types; the
\* decision channels and the event channel stay within their capacities.
THEOREM TypeCorrect == Spec => []TypeOK
  BY TypeInit, TypeStep, PTL DEF Spec

\* The inductive invariant holds of every chat session.
THEOREM Invariance == Spec => []IInv
  BY InvInit, InvStep, PTL DEF Spec

\* No statement of the LLM reaches the database unless the user pressed Execute
\* on its own card, however messages, goroutines, disconnects and crashes fall.
THEOREM ApprovalSafety == Spec => []NothingRunsUnapproved
  <1>1. IInv => NothingRunsUnapproved
    BY DEF IInv
  <1>. QED
    BY <1>1, Invariance, PTL

\* The audit table never misreports what the database was asked to do or did.
THEOREM AuditSafety == Spec => []AuditTruthful
  <1>1. IInv => AuditTruthful
    BY DEF IInv
  <1>. QED
    BY <1>1, Invariance, PTL

\* A statement is only sent after both gates were seen open since the decision.
THEOREM RevocationSafety == Spec => RevokedNeverRuns
  <1>1. IInv /\ [Next]_vars => [sent' # sent => seenOpen = {"master", "row"}]_vars
    <2> SUFFICES ASSUME IInv, [Next]_vars, sent' # sent
                 PROVE  seenOpen = {"master", "row"}
      OBVIOUS
    <2>1. Execute
      BY StatementSteps DEF CheckMaster, CheckRow, RecordProposal, SettleAudit, DBApply,
                            DBRefuse, Click
    <2>. QED
      BY <2>1 DEF Execute, ExecuteIf, IInv, GatesSeen
  <1>. QED
    BY <1>1, Invariance, PTL DEF Spec, RevokedNeverRuns

\* Nothing is sent any more once the session's context is cancelled.
THEOREM CancellationSafety == Spec => CancelStopsWrites
  <1>1. [Next]_vars => [ctxDone => sent' = sent]_vars
    <2> SUFFICES ASSUME [Next]_vars, ctxDone, sent' # sent
                 PROVE  FALSE
      OBVIOUS
    <2>1. Execute
      BY StatementSteps DEF CheckMaster, CheckRow, RecordProposal, SettleAudit, DBApply,
                            DBRefuse, Click
    <2>. QED
      BY <2>1 DEF Execute, ExecuteIf
  <1>. QED
    BY <1>1, PTL DEF Spec, CancelStopsWrites

\* Each step of a session is a step, or no step, of WriteApproval.
LEMMA RefinementStep == IInv /\ [Next]_vars => [Approval!ANext]_(Approval!avars)
  <1> SUFFICES ASSUME IInv, [Next]_vars
               PROVE  Approval!ANext \/ UNCHANGED Approval!avars
    OBVIOUS
  <1>0. /\ TypeOK /\ StoreTypes /\ OrchTypes /\ StatementTypes
        /\ CallOrder /\ VerdictByStep /\ StatementState /\ AuditTruthful /\ ApprovalsAreReal
    BY DEF IInv, TypeOK
  <1> USE DEF Approval!avars
  <1>1. CASE UNCHANGED <<audit, approved, sent, dbState, effects>>
    BY <1>1
  <1>2. CASE CheckMaster \/ CheckRow \/ RecordProposal
    <2>1. cur \in Calls /\ audit[cur] = "none" /\ UNCHANGED <<approved, sent, effects>>
      BY <1>0, <1>2 DEF CheckMaster, CheckRow, RecordProposal, OrchTypes, InProposal, PCs,
                        CallOrder, BeforeRecord
    <2>2. \/ UNCHANGED audit
          \/ \E s \in {"proposed", "denied"} : audit' = [audit EXCEPT ![cur] = s]
      BY <1>2 DEF CheckMaster, CheckRow, RecordProposal, Audit
    <2>3. CASE UNCHANGED audit
      BY <2>1, <2>3
    <2>4. CASE \E s \in {"proposed", "denied"} : audit' = [audit EXCEPT ![cur] = s]
      <3>1. Approval!Open(cur)
        BY <2>1, <2>4 DEF Approval!Open
      <3>. QED
        BY <2>1, <3>1 DEF Approval!ANext
    <2>. QED
      BY <2>2, <2>3, <2>4
  <1>3. CASE SettleAudit
    <2>1. /\ cur \in Calls /\ audit[cur] = "proposed" /\ UNCHANGED <<approved, sent, effects>>
          /\ verdict \in {"executed", "failed", "cancelled", "denied"}
          /\ verdict = "executed" => effects[cur] = 1
          /\ verdict \in {"cancelled", "denied"} => cur \notin sent
      BY <1>0, <1>3 DEF SettleAudit, OrchTypes, InProposal, PCs, CallOrder, OnRecord,
                        VerdictByStep
    <2>2. CASE UNCHANGED audit
      BY <2>1, <2>2
    <2>3. CASE audit' = [audit EXCEPT ![cur] = verdict]
      <3>1. Approval!Settle(cur, verdict)
        BY <2>1, <2>3 DEF Approval!Settle
      <3>. QED
        BY <2>1, <3>1 DEF Approval!ANext, Approval!Settled
    <2>. QED
      BY <1>3, <2>2, <2>3 DEF SettleAudit, Audit
  <1>4. CASE Execute
    <2>1. /\ cur \in Calls /\ audit[cur] = "proposed" /\ cur \in approved \ sent
          /\ UNCHANGED <<audit, approved, effects>>
      BY <1>0, <1>4 DEF Execute, ExecuteIf, OrchTypes, InProposal, PCs, CallOrder, OnRecord,
                        AfterConsent, VerdictByStep, ApprovalsAreReal
    <2>2. CASE UNCHANGED sent
      BY <2>1, <2>2
    <2>3. CASE sent' = sent \cup {cur}
      <3>1. Approval!Send(cur)
        BY <2>1, <2>3 DEF Approval!Send
      <3>. QED
        BY <2>1, <3>1 DEF Approval!ANext
    <2>. QED
      BY <1>4, <2>2, <2>3 DEF Execute, ExecuteIf
  <1>5. ASSUME NEW c \in Calls, DBApply(c)
        PROVE  Approval!ANext
    <2>1. /\ effects[c] = 0 /\ c \in sent /\ UNCHANGED <<audit, approved, sent>>
          /\ effects' = [effects EXCEPT ![c] = @ + 1]
      BY <1>0, <1>5 DEF DBApply, StatementState
    <2>2. audit[c] \in {"proposed", "failed"}
      BY <1>0, <2>1 DEF AuditTruthful
    <2>3. effects' = [effects EXCEPT ![c] = 1]
      BY <1>0, <2>1 DEF StatementTypes
    <2>4. Approval!TakeEffect(c)
      BY <2>1, <2>2, <2>3 DEF Approval!TakeEffect
    <2>. QED
      BY <2>4 DEF Approval!ANext
  <1>6. ASSUME NEW c \in Calls, DBRefuse(c)
        PROVE  UNCHANGED Approval!avars
    BY <1>6 DEF DBRefuse
  <1>7. ASSUME NEW c \in Calls, NEW accept \in BOOLEAN, Click(c, accept)
        PROVE  Approval!ANext \/ UNCHANGED Approval!avars
    <2>1. audit[c] # "none" /\ UNCHANGED <<audit, sent, effects>>
      BY <1>0, <1>7 DEF Click, CallOrder
    <2>2. CASE approved' = approved
      BY <2>1, <2>2
    <2>3. CASE approved' = approved \cup {c}
      <3>1. Approval!Approve(c)
        BY <2>1, <2>3 DEF Approval!Approve
      <3>. QED
        BY <3>1 DEF Approval!ANext
    <2>. QED
      BY <1>7, <2>2, <2>3 DEF Click
  <1>. QED
    BY <1>1, <1>2, <1>3, <1>4, <1>5, <1>6, <1>7, StatementSteps

\* A chat session implements the promise of WriteApproval: every step of it is a
\* step of one proposal's life there, or leaves that life as it is.
THEOREM Refinement == Spec => ImplementsApproval
  <1>1. Init => Approval!AInit
    BY DEF Init, Approval!AInit
  <1>. QED
    BY <1>1, RefinementStep, Invariance, PTL DEF Spec, ImplementsApproval, Approval!ASpec

----------------------------------------------------------------------------
\* A decision is not lost between the card and the select: while a proposal waits its
\* channel is registered, so that a decision made on its card is in the socket, with
\* the reader or in the channel; and as long as the browser is there and the session
\* goes on the reader runs, and, if cards send one answer, is never stuck in a send to
\* a proposal that nobody waits for any more.
DecisionKept ==
  /\ pc \in {"card", "select"} => cur \in pending
  /\ pc = "select" /\ clicks[cur] > 0 =>
       \/ chan[cur] # <<>>
       \/ reader.at = "send" /\ reader.id = cur
       \/ \E i \in DOMAIN inbox : inbox[i].type = "execute_write" /\ inbox[i].id = cur
  /\ conn = "open" /\ ~ctxDone => reader.at # "returned"
  /\ MaxClicks = 1 /\ reader.at = "send" => chan[reader.id] = <<>>

\* A decision on its way in the socket; it may also be with the reader, or in its channel.
InSocket(i, c) == inbox[i].type = "execute_write" /\ inbox[i].id = c

\* A proposal that waits is registered, and only cards on screen are answered.
CardWaits ==
  /\ pc \in {"card", "select"} => cur \in pending
  /\ pc = "card" => cur \notin shown
  /\ \A c \in Calls : clicks[c] > 0 => c \in shown

\* The reader stays while the browser is there and the session goes on.
ReaderStays == conn = "open" /\ ~ctxDone => reader.at # "returned"

\* The decision on the proposal that waits is in one of the three places.
OnItsWay == pc = "select" /\ clicks[cur] > 0 =>
              \/ chan[cur] # <<>>
              \/ reader.at = "send" /\ reader.id = cur
              \/ \E i \in DOMAIN inbox : InSocket(i, cur)

\* Cards that send one answer have it in one place only.
InOnePlace ==
  \A c \in Calls :
    /\ \A i, j \in DOMAIN inbox : InSocket(i, c) /\ InSocket(j, c) => i = j
    /\ \A i \in DOMAIN inbox : InSocket(i, c) =>
         chan[c] = <<>> /\ ~(reader.at = "send" /\ reader.id = c) /\ clicks[c] > 0
    /\ reader.at = "send" /\ reader.id = c => chan[c] = <<>> /\ clicks[c] > 0
    /\ chan[c] # <<>> => clicks[c] > 0

DecisionInv == /\ CardWaits
               /\ ReaderStays
               /\ OnItsWay
               /\ MaxClicks = 1 => InOnePlace

LEMMA DecisionInit == Init => DecisionInv
  <1> SUFFICES ASSUME Init PROVE DecisionInv
    OBVIOUS
  <1>1. /\ pc = "llm" /\ DOMAIN inbox = {} /\ reader.at = "read"
        /\ \A c \in Calls : clicks[c] = 0 /\ chan[c] = <<>>
    BY DEF Init
  <1>. QED
    BY <1>1 DEF DecisionInv, CardWaits, ReaderStays, OnItsWay, InOnePlace

\* Who moves a decision, and how the rest of a step bears on it.
LEMMA DecisionSteps ==
  ASSUME TypeOK, [Next]_vars
  PROVE  \/ TakeDecision \/ ReadDecision \/ DeliverDecision \/ ReadCancel \/ Cancel
         \/ \E c \in Calls, accept \in BOOLEAN : Click(c, accept)
         \/ /\ UNCHANGED <<inbox, chan, clicks>>
            /\ \/ UNCHANGED reader
               \/ reader'.at = "returned" /\ conn' = "gone"
                    /\ (reader.at = "read" \/ pc' = "crashed")
            /\ conn' = "open" /\ ~ctxDone' => conn = "open" /\ ~ctxDone
            /\ \/ UNCHANGED <<pc, cur, pending, shown>>
               \/ UNCHANGED shown /\ pc' \notin OnCard
               \/ UNCHANGED shown /\ pc = "record" /\ pc' = "register"
               \/ UNCHANGED <<cur, shown>> /\ pc = "register" /\ pc' = "card"
                    /\ cur \in pending'
               \/ UNCHANGED <<cur, pending>> /\ pc = "card" /\ pc' \in {"select", "leave"}
                    /\ shown \subseteq shown'
  <1> USE DEF OnCard
  <1>0. SocketTypes
    BY DEF TypeOK
  <1>1. CASE LLM
    BY <1>1 DEF LLM, LLMText, LLMToolUse
  <1>2. CASE Orchestrator
    <2>1. CASE LLMEnd \/ LLMError \/ NextTurn \/ Finish \/ ToolResult
      BY <2>1 DEF LLMEnd, LLMError, NextTurn, Finish, ToolResult
    <2>2. CASE (\E c \in queue : StartTool(c)) \/ CheckMaster \/ CheckRow \/ RecordProposal
      BY <2>2 DEF StartTool, CheckMaster, CheckRow, RecordProposal
    <2>3. CASE Register \/ ShowCard
      BY <2>3 DEF Register, ShowCard
    <2>4. CASE GiveUp \/ Leave \/ RecheckMaster \/ RecheckRow
      BY <2>4 DEF GiveUp, Leave, LeaveTo, RecheckMaster, RecheckRow
    <2>5. CASE Execute \/ Answer \/ SettleAudit
      BY <2>5 DEF Execute, ExecuteIf, Answer, SettleAudit
    <2>. QED
      BY <1>2, <2>1, <2>2, <2>3, <2>4, <2>5 DEF Orchestrator
  <1>3. CASE Database \/ Network
    BY <1>3 DEF Database, DBApply, DBRefuse, Network, AnswerLost, ConnectionBreaks, UseDatabase
  <1>4. CASE Forward
    BY <1>4 DEF Forward, HandlerReturns
  <1>5. CASE ReadFails \/ Crash
    BY <1>0, <1>5 DEF ReadFails, Crash, HandlerReturns, SocketTypes, ReaderState
  <1>6. CASE \/ Disconnect
             \/ (\E on \in BOOLEAN : SetMaster(on))
             \/ (\E tables \in SUBSET PolicyTables, flags \in SUBSET PolicyFlags :
                   SetPolicy(tables, flags))
             \/ UNCHANGED vars
    BY <1>6 DEF Disconnect, SetMaster, SetPolicy
  <1>. QED
    BY <1>1, <1>2, <1>3, <1>4, <1>5, <1>6 DEF Next, Reader, User

\* Messages move one place forward when the reader takes the first.
LEMMA InboxTail ==
  ASSUME inbox \in Seq(Message), inbox # <<>>, inbox' = Tail(inbox)
  PROVE  /\ 1 \in DOMAIN inbox /\ Head(inbox) = inbox[1]
         /\ \A i \in DOMAIN inbox' : i \in Nat \ {0} /\ i + 1 \in DOMAIN inbox
                                     /\ inbox'[i] = inbox[i + 1]
         /\ \A i \in DOMAIN inbox : i # 1 => i - 1 \in DOMAIN inbox'
                                             /\ inbox'[i - 1] = inbox[i]
  OBVIOUS

\* A message joins the others at the end.
LEMMA InboxAppend ==
  ASSUME inbox \in Seq(Message), NEW m \in Message, inbox' = Append(inbox, m)
  PROVE  \E k \in Nat : /\ k \notin DOMAIN inbox /\ DOMAIN inbox' = DOMAIN inbox \cup {k}
                        /\ inbox'[k] = m
                        /\ \A i \in DOMAIN inbox : inbox'[i] = inbox[i]
  <1> WITNESS Len(inbox) + 1 \in Nat
  <1>. QED
    OBVIOUS

LEMMA DecisionStep ==
  ASSUME TypeOK, ApprovalsAreReal, CallOrder, DecisionInv, [Next]_vars
  PROVE  DecisionInv'
  <1>0. OrchTypes /\ SocketTypes /\ StatementTypes
    BY DEF TypeOK
  <1>1. /\ reader \in ReaderState /\ inbox \in Seq(Message) /\ chan \in [Calls -> Seq(BOOLEAN)]
        /\ clicks \in [Calls -> Nat] /\ (pc \in OnCard => cur \in Calls)
    BY <1>0 DEF OrchTypes, SocketTypes, StatementTypes, OnCard, InProposal, PCs
  <1>2. CardWaits /\ ReaderStays /\ OnItsWay /\ (MaxClicks = 1 => InOnePlace)
    BY DEF DecisionInv
  <1>3. CASE TakeDecision
    <2>1. /\ pc = "select" /\ pc' = "leave" /\ cur \in Calls /\ chan[cur] # <<>>
          /\ chan' = [chan EXCEPT ![cur] = Tail(chan[cur])] /\ Tail(chan[cur]) = <<>>
          /\ UNCHANGED <<cur, reader, inbox, ctxDone, conn, shown, clicks>>
      <3>1. cur \in Calls
        BY <1>1, <1>3 DEF TakeDecision, OnCard
      <3>2. chan[cur] \in Seq(BOOLEAN) /\ Len(chan[cur]) <= 1
        BY <1>0, <3>1 DEF SocketTypes
      <3>. QED
        BY <1>3, <3>1, <3>2, ShorterTail DEF TakeDecision
    <2>2. /\ chan'[cur] = <<>>
          /\ \A c \in Calls : c # cur => chan'[c] = chan[c]
      BY <1>1, <2>1
    <2>3. CardWaits' /\ ReaderStays' /\ OnItsWay'
      BY <1>2, <2>1 DEF CardWaits, ReaderStays, OnItsWay
    <2>4. ASSUME InOnePlace PROVE InOnePlace'
      BY <2>1, <2>2, <2>4 DEF InOnePlace, InSocket
    <2>. QED
      BY <1>2, <2>1, <2>3, <2>4, BoundsAssumption DEF DecisionInv
  <1>4. CASE ReadDecision
    <2> DEFINE m == Head(inbox)
    <2>1. /\ reader.at = "read" /\ inbox # <<>> /\ m.type = "execute_write"
          /\ inbox' = Tail(inbox)
          /\ reader' = IF m.id \in pending THEN [at |-> "send", id |-> m.id, accept |-> m.accept]
                                           ELSE reader
          /\ UNCHANGED <<pc, cur, pending, chan, clicks, shown, ctxDone, conn>>
      BY <1>4 DEF ReadDecision
    <2>2. /\ 1 \in DOMAIN inbox /\ m = inbox[1]
          /\ \A i \in DOMAIN inbox' : i \in Nat \ {0} /\ i + 1 \in DOMAIN inbox
                                      /\ inbox'[i] = inbox[i + 1]
          /\ \A i \in DOMAIN inbox : i # 1 => i - 1 \in DOMAIN inbox'
                                              /\ inbox'[i - 1] = inbox[i]
      BY <1>1, <2>1, InboxTail
    <2>3. \/ reader'.at = "read" /\ m.id \notin pending
          \/ reader'.at = "send" /\ reader'.id = m.id
      BY <2>1
    <2>4. CardWaits' /\ ReaderStays'
      BY <1>2, <2>1, <2>3 DEF CardWaits, ReaderStays
    <2>5. OnItsWay'
      <3> SUFFICES ASSUME pc = "select", clicks[cur] > 0
                   PROVE  \/ chan[cur] # <<>>
                          \/ reader'.at = "send" /\ reader'.id = cur
                          \/ \E i \in DOMAIN inbox' : InSocket(i, cur)'
        BY <2>1 DEF OnItsWay
      <3>1. CASE chan[cur] # <<>>
        BY <3>1
      <3>2. ASSUME NEW i \in DOMAIN inbox, InSocket(i, cur)
            PROVE  \/ reader'.at = "send" /\ reader'.id = cur
                   \/ \E k \in DOMAIN inbox' : InSocket(k, cur)'
        <4>1. CASE i = 1
          BY <1>2, <2>2, <2>3, <3>2, <4>1 DEF CardWaits, InSocket
        <4>2. CASE i # 1
          BY <2>1, <2>2, <3>2, <4>2 DEF InSocket
        <4>. QED
          BY <4>1, <4>2
      <3>. QED
        BY <1>2, <2>1, <3>1, <3>2 DEF OnItsWay
    <2>6. ASSUME InOnePlace PROVE InOnePlace'
      <3> SUFFICES ASSUME NEW c \in Calls
                   PROVE  /\ \A i, j \in DOMAIN inbox' : InSocket(i, c)' /\ InSocket(j, c)' => i = j
                          /\ \A i \in DOMAIN inbox' : InSocket(i, c)' =>
                               /\ chan[c] = <<>> /\ clicks[c] > 0
                               /\ ~(reader'.at = "send" /\ reader'.id = c)
                          /\ reader'.at = "send" /\ reader'.id = c =>
                               chan[c] = <<>> /\ clicks[c] > 0
                          /\ chan[c] # <<>> => clicks[c] > 0
        BY <2>1 DEF InOnePlace
      <3>1. \A i \in DOMAIN inbox' : InSocket(i, c)' => i + 1 # 1 /\ InSocket(i + 1, c)
        BY <2>2 DEF InSocket
      <3>2. m.id = c => InSocket(1, c)
        BY <2>1, <2>2 DEF InSocket
      <3>3. \A i, j \in DOMAIN inbox' : InSocket(i, c)' /\ InSocket(j, c)' => i = j
        <4> TAKE i, j \in DOMAIN inbox'
        <4> HAVE InSocket(i, c)' /\ InSocket(j, c)'
        <4>1. i + 1 = j + 1
          BY <2>2, <2>6, <3>1 DEF InOnePlace
        <4>. QED
          BY <2>2, <4>1
      <3>4. \A i \in DOMAIN inbox' : InSocket(i, c)' =>
              /\ chan[c] = <<>> /\ clicks[c] > 0
              /\ m.id # c
        BY <2>2, <2>6, <3>1, <3>2 DEF InOnePlace
      <3>5. m.id = c => chan[c] = <<>> /\ clicks[c] > 0
        BY <2>2, <2>6, <3>2 DEF InOnePlace
      <3>6. chan[c] # <<>> => clicks[c] > 0
        BY <2>6 DEF InOnePlace
      <3>. QED
        BY <2>3, <3>3, <3>4, <3>5, <3>6
    <2>. QED
      BY <1>2, <2>4, <2>5, <2>6, BoundsAssumption DEF DecisionInv
  <1>5. CASE DeliverDecision
    <2>1. /\ reader.at = "send" /\ reader'.at = "read" /\ reader.id \in Calls
          /\ chan[reader.id] = <<>>
          /\ UNCHANGED <<pc, cur, pending, inbox, clicks, shown, ctxDone, conn>>
      BY <1>1, <1>5 DEF DeliverDecision, DeliverIf, ReaderState, ApprovalsAreReal
    <2>2. /\ chan'[reader.id] # <<>>
          /\ \A c \in Calls : c # reader.id => chan'[c] = chan[c]
      <3>1. chan' = [chan EXCEPT ![reader.id] = <<reader.accept>>]
        BY <1>1, <1>5, <2>1, OneDecision DEF DeliverDecision, DeliverIf
      <3>. QED
        BY <1>1, <2>1, <3>1
    <2>3. CardWaits' /\ ReaderStays'
      BY <1>2, <2>1 DEF CardWaits, ReaderStays
    <2>4. OnItsWay'
      <3>1. pc = "select" => cur \in Calls
        BY <1>1 DEF OnCard
      <3>. QED
        BY <1>2, <2>1, <2>2, <3>1 DEF OnItsWay, InSocket
    <2>5. ASSUME InOnePlace PROVE InOnePlace'
      BY <2>1, <2>2, <2>5 DEF InOnePlace, InSocket
    <2>. QED
      BY <1>2, <2>3, <2>4, <2>5, BoundsAssumption DEF DecisionInv
  <1>6. CASE ReadCancel
    <2>1. /\ reader.at = "read" /\ inbox # <<>> /\ Head(inbox).type = "cancel"
          /\ inbox' = Tail(inbox) /\ ctxDone' /\ reader'.at = "returned"
          /\ UNCHANGED <<pc, cur, pending, chan, clicks, shown>>
      BY <1>1, <1>6 DEF ReadCancel, ReaderState
    <2>2. /\ 1 \in DOMAIN inbox /\ Head(inbox) = inbox[1]
          /\ \A i \in DOMAIN inbox' : i \in Nat \ {0} /\ i + 1 \in DOMAIN inbox
                                      /\ inbox'[i] = inbox[i + 1]
          /\ \A i \in DOMAIN inbox : i # 1 => i - 1 \in DOMAIN inbox'
                                              /\ inbox'[i - 1] = inbox[i]
      BY <1>1, <2>1, InboxTail
    <2>3. CardWaits' /\ ReaderStays'
      BY <1>2, <2>1 DEF CardWaits, ReaderStays
    <2>4. OnItsWay'
      <3>1. \A i \in DOMAIN inbox : InSocket(i, cur) =>
              i - 1 \in DOMAIN inbox' /\ InSocket(i - 1, cur)'
        BY <2>1, <2>2 DEF InSocket
      <3>. QED
        BY <1>2, <2>1, <3>1 DEF OnItsWay
    <2>5. ASSUME InOnePlace PROVE InOnePlace'
      <3> SUFFICES ASSUME NEW c \in Calls
                   PROVE  /\ \A i, j \in DOMAIN inbox' : InSocket(i, c)' /\ InSocket(j, c)' => i = j
                          /\ \A i \in DOMAIN inbox' : InSocket(i, c)' =>
                               chan[c] = <<>> /\ clicks[c] > 0
                          /\ chan[c] # <<>> => clicks[c] > 0
        BY <2>1 DEF InOnePlace
      <3>1. \A i \in DOMAIN inbox' : InSocket(i, c)' => InSocket(i + 1, c)
        BY <2>2 DEF InSocket
      <3>2. \A i, j \in DOMAIN inbox' : InSocket(i, c)' /\ InSocket(j, c)' => i = j
        <4> TAKE i, j \in DOMAIN inbox'
        <4> HAVE InSocket(i, c)' /\ InSocket(j, c)'
        <4>1. i + 1 = j + 1
          BY <2>2, <2>5, <3>1 DEF InOnePlace
        <4>. QED
          BY <2>2, <4>1
      <3>. QED
        BY <2>2, <2>5, <3>1, <3>2 DEF InOnePlace
    <2>. QED
      BY <1>2, <2>3, <2>4, <2>5, BoundsAssumption DEF DecisionInv
  <1>7. ASSUME NEW m \in Message, inbox' = Append(inbox, m),
               UNCHANGED <<pc, cur, pending, reader, chan, shown, ctxDone, conn>>,
               \/ m.type = "cancel" /\ UNCHANGED clicks
               \/ /\ m.type = "execute_write" /\ m.id \in shown /\ m.id \in Calls
                  /\ clicks' = [clicks EXCEPT ![m.id] = @ + 1]
                  /\ clicks[m.id] < MaxClicks
        PROVE  DecisionInv'
    <2>1. PICK k \in Nat : /\ k \notin DOMAIN inbox /\ DOMAIN inbox' = DOMAIN inbox \cup {k}
                           /\ inbox'[k] = m
                           /\ \A i \in DOMAIN inbox : inbox'[i] = inbox[i]
      BY <1>1, <1>7, InboxAppend
    <2>2. /\ \A c \in Calls : clicks'[c] \in Nat /\ clicks[c] \in Nat /\ clicks'[c] >= clicks[c]
          /\ \A c \in Calls : clicks'[c] # clicks[c] =>
               m.type = "execute_write" /\ m.id = c /\ c \in shown
      <3>1. CASE UNCHANGED clicks
        BY <1>1, <3>1
      <3>2. CASE /\ m.type = "execute_write" /\ m.id \in shown /\ m.id \in Calls
                 /\ clicks' = [clicks EXCEPT ![m.id] = clicks[m.id] + 1]
        BY <1>1, <3>2
      <3>. QED
        BY <1>7, <3>1, <3>2
    <2>3. CardWaits' /\ ReaderStays'
      BY <1>2, <1>7, <2>2 DEF CardWaits, ReaderStays
    <2>4. OnItsWay'
      <3> SUFFICES ASSUME pc = "select", clicks'[cur] > 0
                   PROVE  \/ chan[cur] # <<>>
                          \/ reader.at = "send" /\ reader.id = cur
                          \/ \E i \in DOMAIN inbox' : InSocket(i, cur)'
        BY <1>7 DEF OnItsWay
      <3>1. cur \in Calls
        BY <1>1 DEF OnCard
      <3>2. CASE clicks'[cur] = clicks[cur]
        BY <1>2, <1>7, <2>1, <3>2 DEF OnItsWay, InSocket
      <3>3. CASE clicks'[cur] # clicks[cur]
        BY <1>7, <2>1, <2>2, <3>1, <3>3 DEF InSocket
      <3>. QED
        BY <3>2, <3>3
    <2>5. ASSUME InOnePlace, MaxClicks = 1 PROVE InOnePlace'
      <3> SUFFICES ASSUME NEW c \in Calls
                   PROVE  /\ \A i, j \in DOMAIN inbox' : InSocket(i, c)' /\ InSocket(j, c)' => i = j
                          /\ \A i \in DOMAIN inbox' : InSocket(i, c)' =>
                               /\ chan[c] = <<>> /\ clicks'[c] > 0
                               /\ ~(reader.at = "send" /\ reader.id = c)
                          /\ reader.at = "send" /\ reader.id = c =>
                               chan[c] = <<>> /\ clicks'[c] > 0
                          /\ chan[c] # <<>> => clicks'[c] > 0
        BY <1>7 DEF InOnePlace
      <3>1. CASE m.type = "execute_write" /\ m.id = c
        <4>1. clicks[c] = 0 /\ clicks'[c] = 1
          BY <1>1, <1>7, <2>2, <2>5, <3>1
        <4>2. /\ \A i \in DOMAIN inbox : ~InSocket(i, c)
              /\ chan[c] = <<>> /\ ~(reader.at = "send" /\ reader.id = c)
          BY <2>5, <4>1 DEF InOnePlace
        <4>3. \A i \in DOMAIN inbox' : InSocket(i, c)' => i = k
          BY <2>1, <4>2 DEF InSocket
        <4>. QED
          BY <4>1, <4>2, <4>3
      <3>2. CASE ~(m.type = "execute_write" /\ m.id = c)
        <4>1. \A i \in DOMAIN inbox' : InSocket(i, c)' => i \in DOMAIN inbox /\ InSocket(i, c)
          BY <2>1, <3>2 DEF InSocket
        <4>2. clicks'[c] = clicks[c]
          BY <2>2, <3>2
        <4>. QED
          BY <2>5, <4>1, <4>2 DEF InOnePlace
      <3>. QED
        BY <3>1, <3>2
    <2>. QED
      BY <1>2, <2>3, <2>4, <2>5, BoundsAssumption DEF DecisionInv
  <1>8. ASSUME NEW c \in Calls, NEW accept \in BOOLEAN, Click(c, accept)
        PROVE  DecisionInv'
    <2> DEFINE m == [type |-> "execute_write", id |-> c, accept |-> accept]
    <2>1. m \in Message /\ m.type = "execute_write" /\ m.id = c
      BY DEF Message
    <2>2. /\ inbox' = Append(inbox, m) /\ c \in shown /\ clicks[c] < MaxClicks
          /\ clicks' = [clicks EXCEPT ![c] = @ + 1]
          /\ UNCHANGED <<pc, cur, pending, reader, chan, shown, ctxDone, conn>>
      BY <1>8 DEF Click
    <2>. QED
      BY <2>1, <2>2, <1>7
  <1>9. CASE Cancel
    <2> DEFINE m == [type |-> "cancel", id |-> NoCall, accept |-> FALSE]
    <2>1. m \in Message /\ m.type = "cancel" /\ inbox' = Append(inbox, m)
          /\ UNCHANGED <<pc, cur, pending, reader, chan, shown, ctxDone, conn, clicks>>
      BY <1>9 DEF Cancel, Message
    <2>. QED
      BY <2>1, <1>7
  <1>10. ASSUME UNCHANGED <<inbox, chan, clicks>>,
                \/ UNCHANGED reader
                \/ reader'.at = "returned" /\ conn' = "gone"
                     /\ (reader.at = "read" \/ pc' = "crashed"),
                conn' = "open" /\ ~ctxDone' => conn = "open" /\ ~ctxDone,
                \/ UNCHANGED <<pc, cur, pending, shown>>
                \/ UNCHANGED shown /\ pc' \notin OnCard
                \/ UNCHANGED shown /\ pc = "record" /\ pc' = "register"
                \/ UNCHANGED <<cur, shown>> /\ pc = "register" /\ pc' = "card" /\ cur \in pending'
                \/ UNCHANGED <<cur, pending>> /\ pc = "card" /\ pc' \in {"select", "leave"}
                     /\ shown \subseteq shown'
         PROVE  DecisionInv'
    <2>1. ReaderStays'
      BY <1>2, <1>10 DEF ReaderStays
    <2>2. CardWaits'
      BY <1>2, <1>10 DEF CardWaits, CallOrder, OnCard
    <2>3. OnItsWay'
      <3>1. CASE UNCHANGED <<pc, cur>>
        BY <1>2, <1>10, <3>1 DEF OnItsWay, InSocket
      <3>2. CASE pc' # "select"
        BY <3>2 DEF OnItsWay
      <3>3. CASE pc = "card" /\ pc' = "select" /\ UNCHANGED cur
        <4>1. ~(clicks[cur] > 0)
          BY <1>1, <1>2, <3>3 DEF CardWaits, OnCard
        <4>. QED
          BY <1>10, <3>3, <4>1 DEF OnItsWay
      <3>. QED
        BY <1>10, <3>1, <3>2, <3>3 DEF OnCard
    <2>4. ASSUME InOnePlace PROVE InOnePlace'
      BY <1>10, <2>4 DEF InOnePlace, InSocket
    <2>. QED
      BY <1>2, <2>1, <2>2, <2>3, <2>4, BoundsAssumption DEF DecisionInv
  <1>. QED
    BY DecisionSteps, <1>3, <1>4, <1>5, <1>6, <1>8, <1>9, <1>10

\* A decision made on the card of the waiting proposal is never lost before the
\* orchestrator takes it, the reader is there to carry it while the browser is, and
\* with cards that answer once it never blocks.
THEOREM DecisionSafety == Spec => []DecisionKept
  <1>1. Init => DecisionInv
    BY DecisionInit
  <1>2. IInv /\ DecisionInv /\ [Next]_vars => DecisionInv'
    BY DecisionStep DEF IInv
  <1>3. IInv /\ DecisionInv => DecisionKept
    <2> SUFFICES ASSUME IInv, DecisionInv PROVE DecisionKept
      OBVIOUS
    <2>1. CardWaits /\ ReaderStays /\ OnItsWay /\ (MaxClicks = 1 => InOnePlace)
      BY DEF DecisionInv
    <2>2. reader.at = "send" => reader.id \in Calls
      BY DEF IInv, ApprovalsAreReal
    <2>3. MaxClicks = 1 /\ reader.at = "send" => chan[reader.id] = <<>>
      BY <2>1, <2>2 DEF InOnePlace
    <2>. QED
      BY <2>1, <2>3 DEF CardWaits, ReaderStays, OnItsWay, InSocket, DecisionKept
  <1>. QED
    BY <1>1, <1>2, <1>3, Invariance, PTL DEF Spec

----------------------------------------------------------------------------
\* A row that stands at "proposed" has a call that is on its way to settle it.

RowsHaveCalls ==
  pc # "crashed" => \A c \in Calls : audit[c] = "proposed" => c = cur /\ pc \in OnRecord

LEMMA RowsHaveCallsStep ==
  ASSUME ~StoreMayFail, TypeOK, CallOrder, VerdictByStep, RowsHaveCalls, [Next]_vars
  PROVE  RowsHaveCalls'
  <1>0. /\ audit \in [Calls -> {"none", "proposed", "executed", "failed", "cancelled", "denied"}]
        /\ pc \in PCs /\ (pc \in InProposal => cur \in Calls)
        /\ pc = "settle" => verdict \in {"executed", "failed", "cancelled", "denied"}
    BY DEF TypeOK, StoreTypes, OrchTypes
  <1> USE <1>0 DEF RowsHaveCalls, OnRecord, OnCard, AfterConsent, InProposal, PCs
  <1>1. CASE CheckMaster \/ CheckRow
    <2>1. /\ pc \in {"checkMaster", "checkRow"} /\ pc' \in {"checkRow", "record", "result"}
          /\ \/ UNCHANGED audit
             \/ audit' = [audit EXCEPT ![cur] = "denied"]
      BY <1>1 DEF CheckMaster, CheckRow, Audit
    <2>2. \A c \in Calls : audit[c] # "proposed"
      BY <2>1
    <2>. QED
      BY <2>1, <2>2
  <1>2. CASE RecordProposal
    <2>1. /\ pc = "record" /\ cur' = cur /\ pc' = "register"
          /\ audit' = [audit EXCEPT ![cur] = "proposed"]
      BY <1>2 DEF RecordProposal
    <2>. QED
      BY <2>1
  <1>3. CASE SettleAudit
    <2>1. pc = "settle" /\ pc' = "result" /\ audit' = [audit EXCEPT ![cur] = verdict]
      BY <1>3 DEF SettleAudit, Audit
    <2>. QED
      BY <2>1
  <1>4. ASSUME UNCHANGED audit,
               \/ UNCHANGED <<pc, cur>>
               \/ pc # "crashed" /\ UNCHANGED cur /\ pc' \in OnRecord
               \/ pc' = "crashed"
               \/ pc \notin OnRecord \cup {"crashed"}
        PROVE  RowsHaveCalls'
    BY <1>4
  <1>5. CASE LLMEnd \/ LLMError \/ NextTurn \/ Finish \/ ToolResult \/ (\E c \in queue : StartTool(c))
    <2>1. UNCHANGED audit /\ pc \notin OnRecord \cup {"crashed"}
      BY <1>5 DEF LLMEnd, LLMError, NextTurn, Finish, ToolResult, StartTool
    <2>. QED
      BY <1>4, <2>1
  <1>6. CASE Register \/ ShowCard \/ TakeDecision \/ GiveUp \/ Leave
    <2>1. pc # "crashed" /\ UNCHANGED <<audit, cur>> /\ pc' \in OnRecord
      BY <1>6 DEF Register, ShowCard, TakeDecision, GiveUp, Leave, LeaveTo
    <2>. QED
      BY <1>4, <2>1
  <1>7. CASE RecheckMaster \/ RecheckRow \/ Execute \/ Answer \/ AnswerLost
    <2>1. pc # "crashed" /\ UNCHANGED <<audit, cur>> /\ pc' \in OnRecord
      BY <1>7 DEF RecheckMaster, RecheckRow, Execute, ExecuteIf, Answer, AnswerLost,
                 ConnectionBreaks
    <2>. QED
      BY <1>4, <2>1
  <1>8. CASE LLM \/ Crash
    <2>1. UNCHANGED audit /\ (UNCHANGED <<pc, cur>> \/ pc' = "crashed")
      BY <1>8 DEF LLM, LLMText, LLMToolUse, Crash
    <2>. QED
      BY <1>4, <2>1
  <1>9. CASE \/ Database \/ Forward \/ Reader \/ User
             \/ (\E d \in UsedDBs : UseDatabase(d)) \/ UNCHANGED vars
    <2>1. UNCHANGED <<audit, pc, cur>>
      BY <1>9, OthersSteps
    <2>. QED
      BY <1>4, <2>1
  <1>. QED
    BY <1>1, <1>2, <1>3, <1>5, <1>6, <1>7, <1>8, <1>9 DEF Next, Orchestrator, Network

\* While the server lives and the audit table can be written, no call is left behind
\* with its row at "proposed": not by a denial, a cancel, a failure or a lost answer.
THEOREM RowSafety == ASSUME ~StoreMayFail PROVE Spec => []RowsHaveCalls
  <1>1. Init => RowsHaveCalls
    BY DEF Init, RowsHaveCalls
  <1>2. IInv /\ RowsHaveCalls /\ [Next]_vars => RowsHaveCalls'
    BY RowsHaveCallsStep DEF IInv
  <1>. QED
    BY <1>1, <1>2, Invariance, PTL DEF Spec
=============================================================================
