-------------------------- MODULE AgentLoopProofs --------------------------
(***************************************************************************)
(* The safety properties of AgentLoop, for any iteration cap, any number   *)
(* of retries, calls and turns, with and without in-band routing.          *)
(***************************************************************************)
EXTENDS AgentLoop, TLAPS

-----------------------------------------------------------------------------
(* The inductive invariant *)

\* Past the loop head the iteration is below the cap, so the next one exists;
\* a delay is begun only with a retry left.
InLoop ==
    /\ pc \in {"stream", "backoff", "settled", "tools", "flush"} => iteration < MaxIterations
    /\ pc \in {"backoff", "summaryBackoff"} => retry < MaxRetries

\* A turn that has not returned has told the client nothing of its end and
\* added nothing to the session; one that has returned says so unless cancelled.
Open ==
    /\ pc \notin {"idle", "returned"} => outcome = "none" /\ via = "none"
    /\ via = "none" <=> outcome # "done"
    /\ OneAnswerPerTurn

\* Between a settled stream or tool and the next look at the context, an
\* unset cancelled says that the context was alive when it settled.
Alive ==
    /\ pc \in {"settled", "tools"} /\ ~cancelled => settledAlive
    /\ NoStaleCompletion

\* What has been said in rounds before the one under way: nothing outside a
\* stream, and within one only what its own retries have said.
OfThisRound == \A a \in text \ {ToolText} : a + retry >= attempt

Round ==
    /\ pc \in {"check", "tools", "flush"} => text \subseteq {ToolText}
    /\ pc \in {"stream", "backoff", "settled"} => OfThisRound
    /\ AnswerIsLastRound

IInv ==
    /\ TypeOK
    /\ InLoop
    /\ Open
    /\ Alive
    /\ Round

-----------------------------------------------------------------------------
(* What the types of a step need *)

\* What a tool returns is an outcome, and no longer "none".
LEMMA ResultsType ==
    \A k \in Kinds : /\ Results(k) \subseteq UNION {Results(j) : j \in Kinds}
                      /\ "none" \notin Results(k)
<1>1. \A k \in Kinds : "none" \notin Results(k)
  BY DEF Results
<1>2. QED
  BY <1>1

\* A batch starts empty.
LEMMA EmptyBatch ==
    /\ <<>> \in Seq(Call)
    /\ <<>> \in [1 .. Len(<<>>) -> {"none"} \cup UNION {Results(k) : k \in Kinds}]
<1>1. <<>> \in Seq({"none"} \cup UNION {Results(k) : k \in Kinds}) /\ Len(<<>>) = 0
  OBVIOUS
<1>2. QED
  BY <1>1

\* The counters start within their caps.
LEMMA Zeros == 0 \in 0 .. MaxTurns /\ 0 \in 0 .. MaxIterations /\ 0 \in 0 .. MaxRetries
BY AgentLoopAssumption

\* A pending call is of one of the kinds.
LEMMA PendingKind ==
    ASSUME NEW calls \in Seq(Call), NEW i \in 1 .. Len(calls)
    PROVE  calls[i].kind \in Kinds
<1>1. calls[i] \in Call
  OBVIOUS
<1>2. QED
  BY <1>1 DEF Call

\* No turn has started when the session is opened.
LEMMA InitInv == Init => IInv
<1> SUFFICES ASSUME Init PROVE IInv
  OBVIOUS
<1>1. /\ pending \in Seq(Call)
      /\ results \in [1 .. Len(pending) -> {"none"} \cup UNION {Results(k) : k \in Kinds}]
  BY EmptyBatch DEF Init
<1>2. TypeOK
  BY <1>1, Zeros DEF Init, TypeOK
<1>3. InLoop /\ Open /\ Alive /\ Round
  BY DEF Init, InLoop, Open, Alive, Round, OneAnswerPerTurn, NoStaleCompletion,
         AnswerIsLastRound, OfThisRound
<1>4. QED
  BY <1>2, <1>3 DEF IInv

\* Every step keeps the variables in their types.
LEMMA TypeStep == TypeOK /\ InLoop /\ [Next]_vars => TypeOK'
<1> SUFFICES ASSUME TypeOK /\ InLoop, [Next]_vars PROVE TypeOK'
  OBVIOUS
<1> USE AgentLoopAssumption DEF TypeOK, batchVars, routeVars, countVars, endVars, InLoop
<1>1. CASE StartTurn
  <2>1. /\ pending' \in Seq(Call)
        /\ results' \in [1 .. Len(pending') -> {"none"} \cup UNION {Results(k) : k \in Kinds}]
    BY <1>1, EmptyBatch DEF StartTurn
  <2>2. /\ pc' = "check" /\ turns' \in 0 .. MaxTurns
    BY <1>1 DEF StartTurn
  <2>3. /\ called' = {} /\ text' = {}
        /\ {cancelled', loaded', groupLoaded', nudged', loadedBefore', settledAlive'} \subseteq BOOLEAN
        /\ outcome' = "none" /\ via' = "none" /\ commits' = 0
    BY <1>1 DEF StartTurn
  <2>4. iteration' \in 0 .. MaxIterations /\ retry' \in 0 .. MaxRetries /\ attempt' \in Nat
    BY <1>1, Zeros DEF StartTurn
  <2>5. QED
    BY <2>1, <2>2, <2>3, <2>4
<1>2. CASE Cancel
  BY <1>2 DEF Cancel
<1>3. CASE StreamText
  BY <1>3 DEF StreamText
<1>4. ASSUME NEW k \in Kinds, StreamToolCall(k) PROVE TypeOK'
  <2> DEFINE call == [attempt |-> attempt, kind |-> k]
  <2>1. call \in Call /\ pending' = Append(pending, call) /\ results' = Append(results, "none")
    BY <1>4 DEF StreamToolCall, Call
  <2>2. pending' \in Seq(Call) /\ Len(pending') = Len(pending) + 1
    BY <2>1
  <2>3. results \in Seq({"none"} \cup UNION {Results(j) : j \in Kinds}) /\ Len(results) = Len(pending)
    OBVIOUS
  <2>4. results' \in Seq({"none"} \cup UNION {Results(j) : j \in Kinds}) /\ Len(results') = Len(pending')
    BY <2>1, <2>2, <2>3
  <2>5. results' \in [1 .. Len(pending') -> {"none"} \cup UNION {Results(j) : j \in Kinds}]
    BY <2>4
  <2>6. QED
    BY <1>4, <2>2, <2>5 DEF StreamToolCall
<1>5. CASE FilteredToolsFails
  BY <1>5 DEF FilteredToolsFails, EmitDone, Return
<1>6. CASE BeginIteration
  <2>1. CASE cancelled
    BY <1>6, <2>1 DEF BeginIteration, Return
  <2>2. CASE ~cancelled
    <3>1. /\ pending' \in Seq(Call)
          /\ results' \in [1 .. Len(pending') -> {"none"} \cup UNION {Results(k) : k \in Kinds}]
      BY <1>6, <2>2, EmptyBatch DEF BeginIteration
    <3>2. pc' = "stream" /\ retry' \in 0 .. MaxRetries /\ attempt' \in Nat
      BY <1>6, <2>2, Zeros DEF BeginIteration
    <3>3. QED
      BY <1>6, <2>2, <3>1, <3>2 DEF BeginIteration
  <2>3. QED
    BY <2>1, <2>2
<1>7. CASE BeginSummary
  BY <1>7 DEF BeginSummary
<1>8. CASE StreamEnds
  BY <1>8 DEF StreamEnds, EmitDone, Return
<1>9. CASE StreamRateLimited
  BY <1>9 DEF StreamRateLimited
<1>10. CASE StreamFails
  BY <1>10 DEF StreamFails, EmitError, Return
<1>11. CASE RetryStream
  BY <1>11 DEF RetryStream
<1>12. CASE BackoffCancelled
  BY <1>12 DEF BackoffCancelled, EmitError, Return
<1>13. CASE CancelledAfterStream
  BY <1>13 DEF CancelledAfterStream, Return
<1>14. CASE ForceAnotherRound
  BY <1>14 DEF ForceAnotherRound, EmitTextClear, Settled
<1>15. CASE FinishWithText
  BY <1>15 DEF FinishWithText, EmitDone, Return, Settled
<1>16. CASE StartBatch
  BY <1>16 DEF StartBatch, EmitTextClear, Settled
<1>17. ASSUME NEW i \in 1 .. Len(pending), RunTool(i) PROVE TypeOK'
  <2>1. pending[i].kind \in Kinds
    BY PendingKind
  <2>2. PICK r \in Results(pending[i].kind) : results' = [results EXCEPT ![i] = r]
    BY <1>17 DEF RunTool
  <2>3. results' \in [1 .. Len(pending) -> {"none"} \cup UNION {Results(j) : j \in Kinds}]
    BY <2>1, <2>2, ResultsType
  <2>4. QED
    BY <1>17, <2>3 DEF RunTool
<1>18. CASE SettleBatch
  BY <1>18 DEF SettleBatch, Return
<1>19. CASE FlushBatch
  <2>1. {pending[j].kind : j \in 1 .. Len(pending)} \subseteq Kinds
    BY PendingKind
  <2>2. text' \subseteq Nat
    BY <1>19 DEF FlushBatch, ToolText
  <2>3. pending' = pending /\ results' = results
    BY <1>19 DEF FlushBatch
  <2>4. CASE TerminalComplete
    <3>1. /\ pc' = "returned" /\ outcome' = "done" /\ via' = "terminal" /\ commits' \in Nat
          /\ UNCHANGED <<turns, iteration, retry, attempt>>
      BY <1>19, <2>4 DEF FlushBatch, EmitDone, Return
    <3>2. UNCHANGED <<loaded, called, groupLoaded, nudged, loadedBefore, cancelled, settledAlive>>
      BY <1>19, <2>4 DEF FlushBatch
    <3>3. QED
      BY <2>2, <2>3, <3>1, <3>2
  <2>5. CASE ~TerminalComplete
    <3>1. /\ pc' = "check" /\ iteration' \in 0 .. MaxIterations
          /\ UNCHANGED <<turns, retry, attempt, outcome, via, commits>>
      BY <1>19, <2>5 DEF FlushBatch
    <3>2. called' \subseteq Kinds /\ loaded' \in BOOLEAN
      BY <1>19, <2>1, <2>5 DEF FlushBatch
    <3>3. UNCHANGED <<groupLoaded, nudged, loadedBefore, cancelled, settledAlive>>
      BY <1>19, <2>5 DEF FlushBatch
    <3>4. QED
      BY <2>2, <2>3, <3>1, <3>2, <3>3
  <2>6. QED
    BY <2>4, <2>5
<1>20. CASE FinishTurn
  BY <1>20 DEF FinishTurn
<1>21. CASE UNCHANGED vars
  BY <1>21 DEF vars
<1>22. QED
  BY <1>1, <1>2, <1>3, <1>4, <1>5, <1>6, <1>7, <1>8, <1>9, <1>10, <1>11, <1>12, <1>13, <1>14, <1>15, <1>16, <1>17, <1>18, <1>19, <1>20, <1>21 DEF Next, Step

\* The loop head alone enters an iteration, and every way on from its last
\* attempt leaves it by the loop head.
LEMMA InLoopStep == TypeOK /\ InLoop /\ [Next]_vars => InLoop'
<1> SUFFICES ASSUME TypeOK /\ InLoop, [Next]_vars PROVE InLoop'
  OBVIOUS
<1> USE AgentLoopAssumption DEF TypeOK, batchVars, routeVars, countVars, endVars, InLoop
<1>1. CASE StartTurn
  BY <1>1 DEF StartTurn
<1>2. CASE Cancel
  BY <1>2 DEF Cancel
<1>3. CASE StreamText
  BY <1>3 DEF StreamText
<1>4. ASSUME NEW k \in Kinds, StreamToolCall(k) PROVE InLoop'
  BY <1>4 DEF StreamToolCall
<1>5. CASE FilteredToolsFails
  BY <1>5 DEF FilteredToolsFails, EmitDone, Return
<1>6. CASE BeginIteration
  BY <1>6 DEF BeginIteration, Return
<1>7. CASE BeginSummary
  BY <1>7 DEF BeginSummary
<1>8. CASE StreamEnds
  BY <1>8 DEF StreamEnds, EmitDone, Return
<1>9. CASE StreamRateLimited
  BY <1>9 DEF StreamRateLimited
<1>10. CASE StreamFails
  BY <1>10 DEF StreamFails, EmitError, Return
<1>11. CASE RetryStream
  BY <1>11 DEF RetryStream
<1>12. CASE BackoffCancelled
  BY <1>12 DEF BackoffCancelled, EmitError, Return
<1>13. CASE CancelledAfterStream
  BY <1>13 DEF CancelledAfterStream, Return
<1>14. CASE ForceAnotherRound
  BY <1>14 DEF ForceAnotherRound, EmitTextClear, Settled
<1>15. CASE FinishWithText
  BY <1>15 DEF FinishWithText, EmitDone, Return, Settled
<1>16. CASE StartBatch
  BY <1>16 DEF StartBatch, EmitTextClear, Settled
<1>17. ASSUME NEW i \in 1 .. Len(pending), RunTool(i) PROVE InLoop'
  BY <1>17 DEF RunTool
<1>18. CASE SettleBatch
  BY <1>18 DEF SettleBatch, Return
<1>19. CASE FlushBatch
  BY <1>19 DEF FlushBatch, EmitDone, Return
<1>20. CASE FinishTurn
  BY <1>20 DEF FinishTurn
<1>21. CASE UNCHANGED vars
  BY <1>21 DEF vars
<1>22. QED
  BY <1>1, <1>2, <1>3, <1>4, <1>5, <1>6, <1>7, <1>8, <1>9, <1>10, <1>11, <1>12, <1>13, <1>14, <1>15, <1>16, <1>17, <1>18, <1>19, <1>20, <1>21 DEF Next, Step

\* Done and error leave the loop at once, and the tail commits exactly what done
\* has not.
LEMMA OpenStep == TypeOK /\ Open /\ [Next]_vars => Open'
<1> SUFFICES ASSUME TypeOK /\ Open, [Next]_vars PROVE Open'
  OBVIOUS
<1> USE AgentLoopAssumption DEF TypeOK, batchVars, routeVars, countVars, endVars, Open, OneAnswerPerTurn
<1>1. CASE StartTurn
  BY <1>1 DEF StartTurn
<1>2. CASE Cancel
  BY <1>2 DEF Cancel
<1>3. CASE StreamText
  BY <1>3 DEF StreamText
<1>4. ASSUME NEW k \in Kinds, StreamToolCall(k) PROVE Open'
  BY <1>4 DEF StreamToolCall
<1>5. CASE FilteredToolsFails
  BY <1>5 DEF FilteredToolsFails, EmitDone, Return
<1>6. CASE BeginIteration
  BY <1>6 DEF BeginIteration, Return
<1>7. CASE BeginSummary
  BY <1>7 DEF BeginSummary
<1>8. CASE StreamEnds
  BY <1>8 DEF StreamEnds, EmitDone, Return
<1>9. CASE StreamRateLimited
  BY <1>9 DEF StreamRateLimited
<1>10. CASE StreamFails
  BY <1>10 DEF StreamFails, EmitError, Return
<1>11. CASE RetryStream
  BY <1>11 DEF RetryStream
<1>12. CASE BackoffCancelled
  BY <1>12 DEF BackoffCancelled, EmitError, Return
<1>13. CASE CancelledAfterStream
  BY <1>13 DEF CancelledAfterStream, Return
<1>14. CASE ForceAnotherRound
  BY <1>14 DEF ForceAnotherRound, EmitTextClear, Settled
<1>15. CASE FinishWithText
  BY <1>15 DEF FinishWithText, EmitDone, Return, Settled
<1>16. CASE StartBatch
  BY <1>16 DEF StartBatch, EmitTextClear, Settled
<1>17. ASSUME NEW i \in 1 .. Len(pending), RunTool(i) PROVE Open'
  BY <1>17 DEF RunTool
<1>18. CASE SettleBatch
  BY <1>18 DEF SettleBatch, Return
<1>19. CASE FlushBatch
  BY <1>19 DEF FlushBatch, EmitDone, Return
<1>20. CASE FinishTurn
  BY <1>20 DEF FinishTurn
<1>21. CASE UNCHANGED vars
  BY <1>21 DEF vars
<1>22. QED
  BY <1>1, <1>2, <1>3, <1>4, <1>5, <1>6, <1>7, <1>8, <1>9, <1>10, <1>11, <1>12, <1>13, <1>14, <1>15, <1>16, <1>17, <1>18, <1>19, <1>20, <1>21 DEF Next, Step

\* The context is looked at after the stream and after the batch; a tool's
\* settling is marked with a result that is no longer none.
LEMMA AliveStep == TypeOK /\ Open /\ Alive /\ [Next]_vars => Alive'
<1> SUFFICES ASSUME TypeOK /\ Open /\ Alive, [Next]_vars PROVE Alive'
  OBVIOUS
<1> USE AgentLoopAssumption DEF TypeOK, batchVars, routeVars, countVars, endVars, Open, Alive, NoStaleCompletion
<1>1. CASE StartTurn
  BY <1>1 DEF StartTurn
<1>2. CASE Cancel
  BY <1>2 DEF Cancel
<1>3. CASE StreamText
  BY <1>3 DEF StreamText
<1>4. ASSUME NEW k \in Kinds, StreamToolCall(k) PROVE Alive'
  BY <1>4 DEF StreamToolCall
<1>5. CASE FilteredToolsFails
  BY <1>5 DEF FilteredToolsFails, EmitDone, Return
<1>6. CASE BeginIteration
  BY <1>6 DEF BeginIteration, Return
<1>7. CASE BeginSummary
  BY <1>7 DEF BeginSummary
<1>8. CASE StreamEnds
  BY <1>8 DEF StreamEnds, EmitDone, Return
<1>9. CASE StreamRateLimited
  BY <1>9 DEF StreamRateLimited
<1>10. CASE StreamFails
  BY <1>10 DEF StreamFails, EmitError, Return
<1>11. CASE RetryStream
  BY <1>11 DEF RetryStream
<1>12. CASE BackoffCancelled
  BY <1>12 DEF BackoffCancelled, EmitError, Return
<1>13. CASE CancelledAfterStream
  BY <1>13 DEF CancelledAfterStream, Return
<1>14. CASE ForceAnotherRound
  BY <1>14 DEF ForceAnotherRound, EmitTextClear, Settled
<1>15. CASE FinishWithText
  BY <1>15 DEF FinishWithText, EmitDone, Return, Settled
<1>16. CASE StartBatch
  BY <1>16 DEF StartBatch, EmitTextClear, Settled
<1>17. ASSUME NEW i \in 1 .. Len(pending), RunTool(i) PROVE Alive'
  <2>1. PICK r \in Results(pending[i].kind) : results' = [results EXCEPT ![i] = r]
    BY <1>17 DEF RunTool
  <2>2. results'[i] # "none"
    BY <2>1, PendingKind, ResultsType
  <2>3. QED
    BY <1>17, <2>2 DEF RunTool
<1>18. CASE SettleBatch
  BY <1>18 DEF SettleBatch, Return
<1>19. CASE FlushBatch
  BY <1>19 DEF FlushBatch, EmitDone, Return
<1>20. CASE FinishTurn
  BY <1>20 DEF FinishTurn
<1>21. CASE UNCHANGED vars
  BY <1>21 DEF vars
<1>22. QED
  BY <1>1, <1>2, <1>3, <1>4, <1>5, <1>6, <1>7, <1>8, <1>9, <1>10, <1>11, <1>12, <1>13, <1>14, <1>15, <1>16, <1>17, <1>18, <1>19, <1>20, <1>21 DEF Next, Step

\* The text is cleared with every correction and every batch of tools, so that
\* an iteration starts with none of a round before it.
LEMMA RoundStep == TypeOK /\ Open /\ Round /\ [Next]_vars => Round'
<1> SUFFICES ASSUME TypeOK /\ Open /\ Round, [Next]_vars PROVE Round'
  OBVIOUS
<1> USE AgentLoopAssumption DEF TypeOK, batchVars, routeVars, countVars, endVars, Open, Round, OfThisRound, AnswerIsLastRound, ToolText
<1>1. CASE StartTurn
  BY <1>1 DEF StartTurn
<1>2. CASE Cancel
  BY <1>2 DEF Cancel
<1>3. CASE StreamText
  BY <1>3 DEF StreamText
<1>4. ASSUME NEW k \in Kinds, StreamToolCall(k) PROVE Round'
  BY <1>4 DEF StreamToolCall
<1>5. CASE FilteredToolsFails
  BY <1>5 DEF FilteredToolsFails, EmitDone, Return
<1>6. CASE BeginIteration
  BY <1>6 DEF BeginIteration, Return
<1>7. CASE BeginSummary
  BY <1>7 DEF BeginSummary
<1>8. CASE StreamEnds
  BY <1>8 DEF StreamEnds, EmitDone, Return
<1>9. CASE StreamRateLimited
  BY <1>9 DEF StreamRateLimited
<1>10. CASE StreamFails
  BY <1>10 DEF StreamFails, EmitError, Return
<1>11. CASE RetryStream
  BY <1>11 DEF RetryStream
<1>12. CASE BackoffCancelled
  BY <1>12 DEF BackoffCancelled, EmitError, Return
<1>13. CASE CancelledAfterStream
  BY <1>13 DEF CancelledAfterStream, Return
<1>14. CASE ForceAnotherRound
  BY <1>14 DEF ForceAnotherRound, EmitTextClear, Settled
<1>15. CASE FinishWithText
  BY <1>15 DEF FinishWithText, EmitDone, Return, Settled
<1>16. CASE StartBatch
  BY <1>16 DEF StartBatch, EmitTextClear, Settled
<1>17. ASSUME NEW i \in 1 .. Len(pending), RunTool(i) PROVE Round'
  BY <1>17 DEF RunTool
<1>18. CASE SettleBatch
  BY <1>18 DEF SettleBatch, Return
<1>19. CASE FlushBatch
  BY <1>19 DEF FlushBatch, EmitDone, Return
<1>20. CASE FinishTurn
  BY <1>20 DEF FinishTurn
<1>21. CASE UNCHANGED vars
  BY <1>21 DEF vars
<1>22. QED
  BY <1>1, <1>2, <1>3, <1>4, <1>5, <1>6, <1>7, <1>8, <1>9, <1>10, <1>11, <1>12, <1>13, <1>14, <1>15, <1>16, <1>17, <1>18, <1>19, <1>20, <1>21 DEF Next, Step

\* All of the invariant, in every reachable state.
THEOREM Inductive == Spec => []IInv
<1>1. IInv /\ [Next]_vars => IInv'
  BY TypeStep, InLoopStep, OpenStep, AliveStep, RoundStep DEF IInv
<1>2. QED
  BY InitInv, <1>1, PTL DEF Spec

-----------------------------------------------------------------------------
(* Theorems *)

\* The variables keep their types: iteration and retry never pass their caps, and
\* a batch has one result slot per pending call.
THEOREM TypeCorrect == Spec => []TypeOK
<1>1. IInv => TypeOK
  BY DEF IInv
<1>2. QED
  BY Inductive, <1>1, PTL

\* Every turn of runChatWithOptions adds exactly one assistant message, by done or
\* by the tail, and a turn that ends silently was cancelled.
THEOREM EveryTurnAnsweredOnce == Spec => []OneAnswerPerTurn
<1>1. IInv => OneAnswerPerTurn
  BY DEF IInv, Open
<1>2. QED
  BY Inductive, <1>1, PTL

\* The loop reports done, and starts or shows a batch, only if the context was
\* alive when the last stream or tool settled.
THEOREM NoCompletionAfterCancel == Spec => []NoStaleCompletion
<1>1. IInv => NoStaleCompletion
  BY DEF IInv, Alive
<1>2. QED
  BY Inductive, <1>1, PTL

\* A text answer consists of what its last round said, retries included; every
\* text_clear came in time.
THEOREM AnswersAreOfTheLastRound == Spec => []AnswerIsLastRound
<1>1. IInv => AnswerIsLastRound
  BY DEF IInv, Round
<1>2. QED
  BY Inductive, <1>1, PTL

=============================================================================
