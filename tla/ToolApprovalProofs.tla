------------------------- MODULE ToolApprovalProofs -------------------------
(***************************************************************************)
(* The safety properties of ToolApproval, for any turns, calls, answers    *)
(* and capability states.  AnsweredOnce and SendNeverBlocks follow from    *)
(* LoadAndDelete alone; that a gated call runs only after its own approve  *)
(* needs the whole way of an answer from the handler through the channel.  *)
(***************************************************************************)
EXTENDS ToolApproval, TLAPS

-----------------------------------------------------------------------------
(* The inductive invariant *)

\* An approval that waits for an answer has not been answered by anybody.
Unanswered ==
    \A c \in pending :
        /\ NeedsApproval(c)
        /\ pc[c] \in {"stored", "selecting", "withdrawing"}
        /\ \A p \in Posts : target[p] # c

\* A post has a target once it is past LoadAndDelete: a call that asked, and
\* has announced its approval.
Targets ==
    \A p \in Posts :
        /\ reply[p] = "none" <=> target[p] = None
        /\ target[p] # None => Announced(target[p]) /\ verdict[p] # None

\* What a call has in its channel was sent by an answer, and while an answer is
\* on its way the channel is empty and the call has not started.
Channel ==
    \A c \in Calls :
        /\ resultCh[c] # None =>
              /\ \E p \in Posts : Answered(p, c, resultCh[c])
              /\ pc[c] \notin {"starting", "settled"}
        /\ \A p \in Posts : target[p] = c /\ reply[p] = "sending" =>
              resultCh[c] = None /\ pc[c] \notin {"starting", "settled"}

\* A gated call is past its gate only with an accepted approve of its own.
Gate ==
    \A c \in Calls : NeedsApproval(c) /\ pc[c] \in {"starting", "settled"} =>
        \E p \in Posts : Answered(p, c, "approve")

\* A call is executed while its goroutine runs, and a batch that is settled has
\* no goroutine left.
Settled ==
    /\ \A c \in executed : pc[c] = "settled"
    /\ \A c \in Calls : batch[TurnOf[c]] # "running" => pc[c] \in {"denied", "settled"}

\* LoadAndDelete hands an approval to one answer only, accepted or on its way.
AtMostOneAnswer ==
    \A p, q \in Posts :
        /\ reply[p] \in {"ok", "sending"} /\ reply[q] \in {"ok", "sending"}
        /\ target[p] = target[q]
        => p = q

IInv ==
    /\ TypeOK
    /\ Unanswered
    /\ Targets
    /\ AtMostOneAnswer
    /\ Channel
    /\ Gate
    /\ Settled

-----------------------------------------------------------------------------
\* No approval is stored and nothing has answered when the server starts.
LEMMA InitInv == Init => IInv
BY ToolApprovalAssumption
   DEF Init, IInv, TypeOK, Unanswered, Targets, AtMostOneAnswer, Channel, Gate,
       Settled, Answered, Verdicts

\* Every step keeps the variables in their types.
LEMMA TypeStep == TypeOK /\ [Next]_vars => TypeOK'
<1> SUFFICES ASSUME TypeOK, [Next]_vars PROVE TypeOK'
  OBVIOUS
<1> USE ToolApprovalAssumption DEF TypeOK, Goto, gate, posts, Verdicts
<1>1. ASSUME NEW c \in Calls, SkipApproval(c) PROVE TypeOK'
  BY <1>1 DEF SkipApproval
<1>2. ASSUME NEW c \in Calls, StoreApproval(c) PROVE TypeOK'
  BY <1>2 DEF StoreApproval
<1>3. ASSUME NEW c \in Calls, EmitApprovalRequired(c) PROVE TypeOK'
  BY <1>3 DEF EmitApprovalRequired
<1>4. ASSUME NEW c \in Calls, ReceiveResult(c) PROVE TypeOK'
  BY <1>4 DEF ReceiveResult
<1>5. ASSUME NEW c \in Calls, ContextDone(c) PROVE TypeOK'
  BY <1>5 DEF ContextDone
<1>6. ASSUME NEW c \in Calls, TimeOut(c) PROVE TypeOK'
  BY <1>6 DEF TimeOut
<1>7. ASSUME NEW c \in Calls, Withdraw(c) PROVE TypeOK'
  BY <1>7 DEF Withdraw
<1>8. ASSUME NEW c \in Calls, CallTool(c) PROVE TypeOK'
  BY <1>8 DEF CallTool
<1>9. ASSUME NEW t \in Turns, SettleBatch(t) PROVE TypeOK'
  BY <1>9 DEF SettleBatch
<1>10. ASSUME NEW t \in Turns, Cancel(t) PROVE TypeOK'
  BY <1>10 DEF Cancel
<1>11. ASSUME NEW p \in Posts, NEW c \in Calls, NEW v \in Verdicts, LoadAndDelete(p, c, v) PROVE TypeOK'
  BY <1>11 DEF LoadAndDelete
<1>12. ASSUME NEW p \in Posts, SendResult(p) PROVE TypeOK'
  BY <1>12 DEF SendResult
<1>13. CASE UNCHANGED vars
  BY <1>13 DEF vars
<1>14. QED
  BY <1>1, <1>2, <1>3, <1>4, <1>5, <1>6, <1>7, <1>8, <1>9, <1>10, <1>11, <1>12, <1>13 DEF Next, CallStep

\* An entry leaves pendingApprovals with its answer (LoadAndDelete) or with
\* the call's own Delete, and only a new call enters.
LEMMA UnansweredStep == IInv /\ [Next]_vars => Unanswered'
<1> SUFFICES ASSUME IInv, [Next]_vars PROVE Unanswered'
  OBVIOUS
<1> USE ToolApprovalAssumption DEF TypeOK, Goto, gate, posts, Verdicts,
      IInv, Unanswered, Targets, Channel, Answered, Announced, NeedsApproval
<1>1. ASSUME NEW c \in Calls, SkipApproval(c) PROVE Unanswered'
  BY <1>1 DEF SkipApproval
<1>2. ASSUME NEW c \in Calls, StoreApproval(c) PROVE Unanswered'
  BY <1>2 DEF StoreApproval
<1>3. ASSUME NEW c \in Calls, EmitApprovalRequired(c) PROVE Unanswered'
  BY <1>3 DEF EmitApprovalRequired
<1>4. ASSUME NEW c \in Calls, ReceiveResult(c) PROVE Unanswered'
  BY <1>4 DEF ReceiveResult
<1>5. ASSUME NEW c \in Calls, ContextDone(c) PROVE Unanswered'
  BY <1>5 DEF ContextDone
<1>6. ASSUME NEW c \in Calls, TimeOut(c) PROVE Unanswered'
  BY <1>6 DEF TimeOut
<1>7. ASSUME NEW c \in Calls, Withdraw(c) PROVE Unanswered'
  BY <1>7 DEF Withdraw
<1>8. ASSUME NEW c \in Calls, CallTool(c) PROVE Unanswered'
  BY <1>8 DEF CallTool
<1>9. ASSUME NEW t \in Turns, SettleBatch(t) PROVE Unanswered'
  BY <1>9 DEF SettleBatch
<1>10. ASSUME NEW t \in Turns, Cancel(t) PROVE Unanswered'
  BY <1>10 DEF Cancel
<1>11. ASSUME NEW p \in Posts, NEW c \in Calls, NEW v \in Verdicts, LoadAndDelete(p, c, v) PROVE Unanswered'
  BY <1>11 DEF LoadAndDelete
<1>12. ASSUME NEW p \in Posts, SendResult(p) PROVE Unanswered'
  BY <1>12 DEF SendResult
<1>13. CASE UNCHANGED vars
  BY <1>13 DEF vars
<1>14. QED
  BY <1>1, <1>2, <1>3, <1>4, <1>5, <1>6, <1>7, <1>8, <1>9, <1>10, <1>11, <1>12, <1>13 DEF Next, CallStep

\* A post finds its target in one step, and a call never takes back that it
\* has announced its approval.
LEMMA TargetsStep == TypeOK /\ Unanswered /\ Targets /\ [Next]_vars => Targets'
<1> SUFFICES ASSUME TypeOK, Unanswered, Targets, [Next]_vars PROVE Targets'
  OBVIOUS
<1> USE ToolApprovalAssumption DEF TypeOK, Goto, gate, posts, Verdicts,
      Unanswered, Targets, Announced, NeedsApproval
<1>1. ASSUME NEW c \in Calls, SkipApproval(c) PROVE Targets'
  BY <1>1 DEF SkipApproval
<1>2. ASSUME NEW c \in Calls, StoreApproval(c) PROVE Targets'
  BY <1>2 DEF StoreApproval
<1>3. ASSUME NEW c \in Calls, EmitApprovalRequired(c) PROVE Targets'
  BY <1>3 DEF EmitApprovalRequired
<1>4. ASSUME NEW c \in Calls, ReceiveResult(c) PROVE Targets'
  BY <1>4 DEF ReceiveResult
<1>5. ASSUME NEW c \in Calls, ContextDone(c) PROVE Targets'
  BY <1>5 DEF ContextDone
<1>6. ASSUME NEW c \in Calls, TimeOut(c) PROVE Targets'
  BY <1>6 DEF TimeOut
<1>7. ASSUME NEW c \in Calls, Withdraw(c) PROVE Targets'
  BY <1>7 DEF Withdraw
<1>8. ASSUME NEW c \in Calls, CallTool(c) PROVE Targets'
  BY <1>8 DEF CallTool
<1>9. ASSUME NEW t \in Turns, SettleBatch(t) PROVE Targets'
  BY <1>9 DEF SettleBatch
<1>10. ASSUME NEW t \in Turns, Cancel(t) PROVE Targets'
  BY <1>10 DEF Cancel
<1>11. ASSUME NEW p \in Posts, NEW c \in Calls, NEW v \in Verdicts, LoadAndDelete(p, c, v) PROVE Targets'
  BY <1>11 DEF LoadAndDelete
<1>12. ASSUME NEW p \in Posts, SendResult(p) PROVE Targets'
  BY <1>12 DEF SendResult
<1>13. CASE UNCHANGED vars
  BY <1>13 DEF vars
<1>14. QED
  BY <1>1, <1>2, <1>3, <1>4, <1>5, <1>6, <1>7, <1>8, <1>9, <1>10, <1>11, <1>12, <1>13 DEF Next, CallStep

\* A second answer finds the entry gone.
LEMMA AnswersStep == TypeOK /\ Unanswered /\ Targets /\ AtMostOneAnswer /\ [Next]_vars => AtMostOneAnswer'
<1> SUFFICES ASSUME TypeOK, Unanswered, Targets, AtMostOneAnswer, [Next]_vars PROVE AtMostOneAnswer'
  OBVIOUS
<1> USE ToolApprovalAssumption DEF TypeOK, Goto, gate, posts, Verdicts,
      Unanswered, Targets, AtMostOneAnswer
<1>1. ASSUME NEW c \in Calls, SkipApproval(c) PROVE AtMostOneAnswer'
  BY <1>1 DEF SkipApproval
<1>2. ASSUME NEW c \in Calls, StoreApproval(c) PROVE AtMostOneAnswer'
  BY <1>2 DEF StoreApproval
<1>3. ASSUME NEW c \in Calls, EmitApprovalRequired(c) PROVE AtMostOneAnswer'
  BY <1>3 DEF EmitApprovalRequired
<1>4. ASSUME NEW c \in Calls, ReceiveResult(c) PROVE AtMostOneAnswer'
  BY <1>4 DEF ReceiveResult
<1>5. ASSUME NEW c \in Calls, ContextDone(c) PROVE AtMostOneAnswer'
  BY <1>5 DEF ContextDone
<1>6. ASSUME NEW c \in Calls, TimeOut(c) PROVE AtMostOneAnswer'
  BY <1>6 DEF TimeOut
<1>7. ASSUME NEW c \in Calls, Withdraw(c) PROVE AtMostOneAnswer'
  BY <1>7 DEF Withdraw
<1>8. ASSUME NEW c \in Calls, CallTool(c) PROVE AtMostOneAnswer'
  BY <1>8 DEF CallTool
<1>9. ASSUME NEW t \in Turns, SettleBatch(t) PROVE AtMostOneAnswer'
  BY <1>9 DEF SettleBatch
<1>10. ASSUME NEW t \in Turns, Cancel(t) PROVE AtMostOneAnswer'
  BY <1>10 DEF Cancel
<1>11. ASSUME NEW p \in Posts, NEW c \in Calls, NEW v \in Verdicts, LoadAndDelete(p, c, v) PROVE AtMostOneAnswer'
  BY <1>11 DEF LoadAndDelete
<1>12. ASSUME NEW p \in Posts, SendResult(p) PROVE AtMostOneAnswer'
  BY <1>12 DEF SendResult
<1>13. CASE UNCHANGED vars
  BY <1>13 DEF vars
<1>14. QED
  BY <1>1, <1>2, <1>3, <1>4, <1>5, <1>6, <1>7, <1>8, <1>9, <1>10, <1>11, <1>12, <1>13 DEF Next, CallStep

\* Only the one accepted answer is sent, and only to a call that has not
\* started.
LEMMA ChannelStep == IInv /\ [Next]_vars => Channel'
<1> SUFFICES ASSUME IInv, [Next]_vars PROVE Channel'
  OBVIOUS
<1> USE ToolApprovalAssumption DEF TypeOK, Goto, gate, posts, Verdicts,
      IInv, Unanswered, Targets, AtMostOneAnswer, Channel, Answered, Announced
<1>1. ASSUME NEW c \in Calls, SkipApproval(c) PROVE Channel'
  BY <1>1 DEF SkipApproval
<1>2. ASSUME NEW c \in Calls, StoreApproval(c) PROVE Channel'
  BY <1>2 DEF StoreApproval
<1>3. ASSUME NEW c \in Calls, EmitApprovalRequired(c) PROVE Channel'
  BY <1>3 DEF EmitApprovalRequired
<1>4. ASSUME NEW c \in Calls, ReceiveResult(c) PROVE Channel'
  BY <1>4 DEF ReceiveResult
<1>5. ASSUME NEW c \in Calls, ContextDone(c) PROVE Channel'
  BY <1>5 DEF ContextDone
<1>6. ASSUME NEW c \in Calls, TimeOut(c) PROVE Channel'
  BY <1>6 DEF TimeOut
<1>7. ASSUME NEW c \in Calls, Withdraw(c) PROVE Channel'
  BY <1>7 DEF Withdraw
<1>8. ASSUME NEW c \in Calls, CallTool(c) PROVE Channel'
  BY <1>8 DEF CallTool
<1>9. ASSUME NEW t \in Turns, SettleBatch(t) PROVE Channel'
  BY <1>9 DEF SettleBatch
<1>10. ASSUME NEW t \in Turns, Cancel(t) PROVE Channel'
  BY <1>10 DEF Cancel
<1>11. ASSUME NEW p \in Posts, NEW c \in Calls, NEW v \in Verdicts, LoadAndDelete(p, c, v) PROVE Channel'
  BY <1>11 DEF LoadAndDelete
<1>12. ASSUME NEW p \in Posts, SendResult(p) PROVE Channel'
  BY <1>12 DEF SendResult
<1>13. CASE UNCHANGED vars
  BY <1>13 DEF vars
<1>14. QED
  BY <1>1, <1>2, <1>3, <1>4, <1>5, <1>6, <1>7, <1>8, <1>9, <1>10, <1>11, <1>12, <1>13 DEF Next, CallStep

\* The gate opens on an approve received from the call's own channel.
LEMMA GateStep == IInv /\ [Next]_vars => Gate'
<1> SUFFICES ASSUME IInv, [Next]_vars PROVE Gate'
  OBVIOUS
<1> USE ToolApprovalAssumption DEF TypeOK, Goto, gate, posts, Verdicts,
      IInv, Targets, Channel, Gate, Answered, NeedsApproval
<1>1. ASSUME NEW c \in Calls, SkipApproval(c) PROVE Gate'
  BY <1>1 DEF SkipApproval
<1>2. ASSUME NEW c \in Calls, StoreApproval(c) PROVE Gate'
  BY <1>2 DEF StoreApproval
<1>3. ASSUME NEW c \in Calls, EmitApprovalRequired(c) PROVE Gate'
  BY <1>3 DEF EmitApprovalRequired
<1>4. ASSUME NEW c \in Calls, ReceiveResult(c) PROVE Gate'
  BY <1>4 DEF ReceiveResult
<1>5. ASSUME NEW c \in Calls, ContextDone(c) PROVE Gate'
  BY <1>5 DEF ContextDone
<1>6. ASSUME NEW c \in Calls, TimeOut(c) PROVE Gate'
  BY <1>6 DEF TimeOut
<1>7. ASSUME NEW c \in Calls, Withdraw(c) PROVE Gate'
  BY <1>7 DEF Withdraw
<1>8. ASSUME NEW c \in Calls, CallTool(c) PROVE Gate'
  BY <1>8 DEF CallTool
<1>9. ASSUME NEW t \in Turns, SettleBatch(t) PROVE Gate'
  BY <1>9 DEF SettleBatch
<1>10. ASSUME NEW t \in Turns, Cancel(t) PROVE Gate'
  BY <1>10 DEF Cancel
<1>11. ASSUME NEW p \in Posts, NEW c \in Calls, NEW v \in Verdicts, LoadAndDelete(p, c, v) PROVE Gate'
  BY <1>11 DEF LoadAndDelete
<1>12. ASSUME NEW p \in Posts, SendResult(p) PROVE Gate'
  BY <1>12 DEF SendResult
<1>13. CASE UNCHANGED vars
  BY <1>13 DEF vars
<1>14. QED
  BY <1>1, <1>2, <1>3, <1>4, <1>5, <1>6, <1>7, <1>8, <1>9, <1>10, <1>11, <1>12, <1>13 DEF Next, CallStep

\* Nothing of a settled batch moves.
LEMMA SettledStep == IInv /\ [Next]_vars => Settled'
<1> SUFFICES ASSUME IInv, [Next]_vars PROVE Settled'
  OBVIOUS
<1> USE ToolApprovalAssumption DEF TypeOK, Goto, gate, posts, Verdicts,
      IInv, Settled, Channel
<1>1. ASSUME NEW c \in Calls, SkipApproval(c) PROVE Settled'
  BY <1>1 DEF SkipApproval
<1>2. ASSUME NEW c \in Calls, StoreApproval(c) PROVE Settled'
  BY <1>2 DEF StoreApproval
<1>3. ASSUME NEW c \in Calls, EmitApprovalRequired(c) PROVE Settled'
  BY <1>3 DEF EmitApprovalRequired
<1>4. ASSUME NEW c \in Calls, ReceiveResult(c) PROVE Settled'
  BY <1>4 DEF ReceiveResult
<1>5. ASSUME NEW c \in Calls, ContextDone(c) PROVE Settled'
  BY <1>5 DEF ContextDone
<1>6. ASSUME NEW c \in Calls, TimeOut(c) PROVE Settled'
  BY <1>6 DEF TimeOut
<1>7. ASSUME NEW c \in Calls, Withdraw(c) PROVE Settled'
  BY <1>7 DEF Withdraw
<1>8. ASSUME NEW c \in Calls, CallTool(c) PROVE Settled'
  BY <1>8 DEF CallTool
<1>9. ASSUME NEW t \in Turns, SettleBatch(t) PROVE Settled'
  BY <1>9 DEF SettleBatch
<1>10. ASSUME NEW t \in Turns, Cancel(t) PROVE Settled'
  BY <1>10 DEF Cancel
<1>11. ASSUME NEW p \in Posts, NEW c \in Calls, NEW v \in Verdicts, LoadAndDelete(p, c, v) PROVE Settled'
  BY <1>11 DEF LoadAndDelete
<1>12. ASSUME NEW p \in Posts, SendResult(p) PROVE Settled'
  BY <1>12 DEF SendResult
<1>13. CASE UNCHANGED vars
  BY <1>13 DEF vars
<1>14. QED
  BY <1>1, <1>2, <1>3, <1>4, <1>5, <1>6, <1>7, <1>8, <1>9, <1>10, <1>11, <1>12, <1>13 DEF Next, CallStep

\* IInv holds in every reachable state, for any turns, calls, answers and
\* capability states (agent.go:779-890, server.go:468-499, 806-862).
THEOREM Inductive == Spec => []IInv
<1>1. IInv /\ [Next]_vars => IInv'
  BY TypeStep, UnansweredStep, TargetsStep, AnswersStep, ChannelStep, GateStep, SettledStep
     DEF IInv
<1>2. QED
  BY InitInv, <1>1, PTL DEF Spec

-----------------------------------------------------------------------------
(* The properties the runs check *)

\* The variables keep their types.
THEOREM TypeCorrect == Spec => []TypeOK
<1>1. IInv => TypeOK
  BY DEF IInv
<1>2. QED
  BY Inductive, <1>1, PTL

\* Whatever answers, timeouts and stops race, a call that needs approval is
\* executed only after an approve for that very call was accepted
\* (server.go:468-499, agent.go:789-814).
THEOREM GatedCallsAreApproved == Spec => []ExecutesOnlyApproved
<1>1. IInv => ExecutesOnlyApproved
  BY DEF IInv, TypeOK, Gate, Settled, ExecutesOnlyApproved
<1>2. QED
  BY Inductive, <1>1, PTL

\* A call whose denial was answered 200 never runs: another answer to it could
\* only have been accepted in the denial's place.
THEOREM DenialsAreFinal == Spec => []DenialIsFinal
<1>1. IInv => DenialIsFinal
  <2> SUFFICES ASSUME IInv, NEW p \in Posts, NEW c \in Calls, Answered(p, c, "deny"),
                      c \in executed \/ pc[c] = "starting"
               PROVE FALSE
    BY DEF DenialIsFinal
  <2>1. NeedsApproval(c)
    BY ToolApprovalAssumption DEF IInv, Targets, Announced, Answered
  <2>2. PICK q \in Posts : Answered(q, c, "approve")
    BY <2>1 DEF IInv, Gate, Settled
  <2>3. q = p
    BY <2>2 DEF IInv, AtMostOneAnswer, Answered
  <2>4. QED
    BY <2>2, <2>3 DEF Answered
<1>2. QED
  BY Inductive, <1>1, PTL

\* Of all the answers to one approval at most one is accepted.
THEOREM AnswersAreUnique == Spec => []AnsweredOnce
<1>1. IInv => AnsweredOnce
  BY DEF IInv, AtMostOneAnswer, AnsweredOnce
<1>2. QED
  BY Inductive, <1>1, PTL

\* The handlers' send always finds the channel of capacity one empty.
THEOREM SendsNeverBlock == Spec => []SendNeverBlocks
<1>1. IInv => SendNeverBlocks
  BY ToolApprovalAssumption DEF IInv, TypeOK, Channel, Targets, SendNeverBlocks
<1>2. QED
  BY Inductive, <1>1, PTL

\* pendingApprovals has no entry of a call or a turn that is over.
THEOREM ApprovalsAreWithdrawn == Spec => []NoStaleApproval
<1>1. IInv => NoStaleApproval
  BY DEF IInv, TypeOK, Unanswered, Settled, NoStaleApproval
<1>2. QED
  BY Inductive, <1>1, PTL
=============================================================================
