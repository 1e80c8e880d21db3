----------------------------- MODULE AgentLoop -----------------------------
(***************************************************************************)
(* The turns of one session as agent.Run and runChatWithOptions play them: *)
(* provider rounds with rate-limit retries, batches of tool calls, the     *)
(* corrections that force another round, terminal renders, the summary     *)
(* round, and the event handler that commits one assistant message.        *)
(*                                                                         *)
(* A tool call is known by the provider attempt that asked for it and by   *)
(* its kind; what it does on its server is ToolApproval's and McpRouter's  *)
(* subject.  Text is the set of attempts it came from, 0 for a tool's.     *)
(***************************************************************************)
EXTENDS Naturals, Sequences

CONSTANTS MaxIterations,  \* Agent.MaxIterations after its default
          MaxRetries,     \* maxRateLimitRetries
          MaxBatch,       \* bound on the tool calls of one attempt
          MaxTurns,       \* bound on the turns of the session
          InBand,         \* in-band routing with forced first step and groups
          Kinds           \* the kinds of tool call the provider makes

ASSUME AgentLoopAssumption ==
    /\ MaxIterations \in Nat \ {0}
    /\ {MaxRetries, MaxBatch, MaxTurns} \subseteq Nat
    /\ InBand \in BOOLEAN
    /\ Kinds \subseteq {"plain", "load_tools", "get_interest", "render"}

\* "render" is an internal tool that RequiredAfterInterest ties to the interest
\* get_interest loads, and that may end the turn.
Results(kind) ==
    IF kind = "render" THEN {"ok", "error", "invalid", "canvas", "inline"}
    ELSE {"ok", "error"}

TerminalEligible == {"invalid", "canvas", "inline"}
TerminalValid == {"canvas", "inline"}

ToolText == 0  \* attempts count from 1

VARIABLES
    pc,           \* where the turn stands
    turns,        \* turns started so far
    cancelled,    \* whether the turn's context is cancelled
    iteration, retry,
    attempt,      \* provider attempts of this turn
    pending,      \* pendingToolCalls
    results,      \* what the goroutines of the batch have returned
    loaded,       \* loadedInterests holds the interest
    called,       \* calledTools
    groupLoaded, nudged,
    text,         \* assistantText, which is also what the user sees
    outcome,      \* the last of error and done the turn has emitted
    via,          \* which of its exits emitted done
    commits,      \* assistant messages the turn has added to the session
    \* What the code does not keep:
    loadedBefore, \* an earlier turn of the session has loaded the interest
    settledAlive  \* the context was alive when the provider or a tool last settled

batchVars == <<pending, results>>
routeVars == <<loaded, called, groupLoaded, nudged, loadedBefore>>
countVars == <<turns, iteration, retry, attempt>>
endVars == <<outcome, via, commits>>
vars == <<pc, cancelled, text, settledAlive, batchVars, routeVars, countVars, endVars>>

Call == [attempt : Nat, kind : Kinds]

TypeOK ==
    /\ pc \in {"idle", "check", "stream", "backoff", "settled", "tools", "flush",
               "summary", "summaryBackoff", "returned"}
    /\ turns \in 0 .. MaxTurns
    /\ iteration \in 0 .. MaxIterations /\ retry \in 0 .. MaxRetries /\ attempt \in Nat
    /\ pending \in Seq(Call)
    /\ results \in [1 .. Len(pending) -> {"none"} \cup UNION {Results(k) : k \in Kinds}]
    /\ {cancelled, loaded, groupLoaded, nudged, loadedBefore, settledAlive} \subseteq BOOLEAN
    /\ called \subseteq Kinds
    /\ text \subseteq Nat
    /\ outcome \in {"none", "error", "done"}
    /\ via \in {"none", "text", "terminal", "summary", "setup"}
    /\ commits \in Nat

Init ==
    /\ pc = "idle" /\ turns = 0 /\ cancelled = FALSE
    /\ iteration = 0 /\ retry = 0 /\ attempt = 0
    /\ pending = <<>> /\ results = <<>>
    /\ loaded = FALSE /\ called = {} /\ groupLoaded = FALSE /\ nudged = FALSE
    /\ loadedBefore = FALSE
    /\ text = {} /\ outcome = "none" /\ via = "none" /\ commits = 0
    /\ settledAlive = TRUE

-----------------------------------------------------------------------------
(* Events, and what the handler in runChatWithOptions makes of them *)

EmitError == outcome' = "error" /\ UNCHANGED <<via, commits>>

\* EventDone commits the turn's assistant message before it is passed on.
EmitDone(exit) ==
    /\ outcome' = "done" /\ via' = exit /\ commits' = commits + 1

Return == pc' = "returned"

\* EventTextClear empties the assistant text on both sides.
EmitTextClear == text' = {}

-----------------------------------------------------------------------------
(* One turn *)

\* The user's message, and the scan of the history for interests loaded in
\* earlier turns: the session keeps roles and texts, no tool calls, so the scan
\* finds none.
StartTurn ==
    /\ pc = "idle" /\ turns < MaxTurns
    /\ turns' = turns + 1
    /\ pc' = "check" /\ cancelled' = FALSE
    /\ iteration' = 0 /\ retry' = 0 /\ attempt' = 0
    /\ pending' = <<>> /\ results' = <<>>
    /\ loaded' = FALSE /\ called' = {} /\ groupLoaded' = FALSE /\ nudged' = FALSE
    /\ loadedBefore' = (loadedBefore \/ loaded)
    /\ text' = {} /\ outcome' = "none" /\ via' = "none" /\ commits' = 0
    /\ settledAlive' = TRUE

\* filteredTools fails when the internal tools alone exceed the budget.
FilteredToolsFails ==
    /\ pc = "check" /\ iteration = 0 /\ attempt = 0
    /\ EmitDone("setup")
    /\ Return
    /\ UNCHANGED <<cancelled, text, settledAlive, batchVars, routeVars, countVars>>

\* The loop head.
BeginIteration ==
    /\ pc = "check" /\ iteration < MaxIterations
    /\ IF cancelled
         THEN Return /\ UNCHANGED <<batchVars, countVars>>
         ELSE /\ pc' = "stream"
              /\ pending' = <<>> /\ results' = <<>>
              /\ retry' = 0 /\ attempt' = attempt + 1
              /\ UNCHANGED <<turns, iteration>>
    /\ UNCHANGED <<cancelled, text, settledAlive, routeVars, endVars>>

BeginSummary ==
    /\ pc = "check" /\ iteration = MaxIterations
    /\ pc' = "summary"
    /\ retry' = 0 /\ attempt' = attempt + 1
    /\ UNCHANGED <<turns, iteration, cancelled, text, settledAlive, batchVars, routeVars, endVars>>

StreamText ==
    /\ pc \in {"stream", "summary"}
    /\ text' = text \cup {attempt}
    /\ UNCHANGED <<pc, cancelled, settledAlive, batchVars, routeVars, countVars, endVars>>

\* A complete tool call arrives; it joins those of this iteration.  The summary
\* request offers no tools.
StreamToolCall(kind) ==
    /\ pc = "stream" /\ Len(pending) < MaxBatch
    /\ pending' = Append(pending, [attempt |-> attempt, kind |-> kind])
    /\ results' = Append(results, "none")
    /\ UNCHANGED <<pc, cancelled, text, settledAlive, routeVars, countVars, endVars>>

\* The provider ends its stream; in the summary round done follows at once.
StreamEnds ==
    /\ \/ pc = "stream" /\ pc' = "settled" /\ UNCHANGED endVars
       \/ pc = "summary" /\ EmitDone("summary") /\ Return
    /\ settledAlive' = ~cancelled
    /\ UNCHANGED <<cancelled, text, batchVars, routeVars, countVars>>

StreamRateLimited ==
    /\ retry < MaxRetries
    /\ \/ pc = "stream" /\ pc' = "backoff"
       \/ pc = "summary" /\ pc' = "summaryBackoff"
    /\ UNCHANGED <<cancelled, text, settledAlive, batchVars, routeVars, countVars, endVars>>

\* Any other error, or one rate limit too many.
StreamFails ==
    /\ pc \in {"stream", "summary"}
    /\ EmitError
    /\ Return
    /\ UNCHANGED <<cancelled, text, settledAlive, batchVars, routeVars, countVars>>

\* The delay is over: the next attempt of the same iteration.
RetryStream ==
    /\ \/ pc = "backoff" /\ pc' = "stream"
       \/ pc = "summaryBackoff" /\ pc' = "summary"
    /\ retry' = retry + 1 /\ attempt' = attempt + 1
    /\ UNCHANGED <<turns, iteration, cancelled, text, settledAlive, batchVars, routeVars, endVars>>

BackoffCancelled ==
    /\ pc \in {"backoff", "summaryBackoff"} /\ cancelled
    /\ EmitError
    /\ Return
    /\ UNCHANGED <<cancelled, text, settledAlive, batchVars, routeVars, countVars>>

-----------------------------------------------------------------------------
(* After the stream *)

Settled == pc = "settled" /\ ~cancelled

CancelledAfterStream ==
    /\ pc = "settled" /\ cancelled
    /\ Return
    /\ UNCHANGED <<cancelled, text, settledAlive, batchVars, routeVars, countVars, endVars>>

ShouldNudge == InBand /\ ~groupLoaded /\ ~nudged

MissingRequiredTool == loaded /\ "render" \notin called

\* No tool calls, but the answer is refused once for want of a tool group, or
\* for want of the required tool: another iteration with a system message.
ForceAnotherRound ==
    /\ Settled /\ pending = <<>>
    /\ ShouldNudge \/ MissingRequiredTool
    /\ nudged' = (nudged \/ ShouldNudge)
    /\ EmitTextClear
    /\ iteration' = iteration + 1
    /\ pc' = "check"
    /\ UNCHANGED <<turns, retry, attempt, cancelled, settledAlive, batchVars, loaded, called,
                   groupLoaded, loadedBefore, endVars>>

FinishWithText ==
    /\ Settled /\ pending = <<>>
    /\ ~ShouldNudge /\ ~MissingRequiredTool
    /\ EmitDone("text")
    /\ Return
    /\ UNCHANGED <<cancelled, text, settledAlive, batchVars, routeVars, countVars>>

\* Mutant: what was said along with the tool calls stays.
StartBatchKeepingText ==
    /\ Settled /\ pending # <<>>
    /\ pc' = "tools"
    /\ UNCHANGED <<cancelled, text, settledAlive, batchVars, routeVars, countVars, endVars>>

StartBatch ==
    /\ Settled /\ pending # <<>>
    /\ EmitTextClear
    /\ pc' = "tools"
    /\ UNCHANGED <<cancelled, settledAlive, batchVars, routeVars, countVars, endVars>>

\* One goroutine returns.  load_tools marks its groups while it runs; one that
\* knows none of them says so in an ordinary result.
RunTool(i) ==
    /\ pc = "tools" /\ i \in 1 .. Len(pending) /\ results[i] = "none"
    /\ \E r \in Results(pending[i].kind) :
          /\ results' = [results EXCEPT ![i] = r]
          /\ groupLoaded' \in IF pending[i].kind = "load_tools" /\ r = "ok"
                               THEN {groupLoaded, TRUE} ELSE {groupLoaded}
    /\ settledAlive' = ~cancelled
    /\ UNCHANGED <<pc, cancelled, text, pending, loaded, called, nudged, loadedBefore,
                   countVars, endVars>>

AllSettled == \A i \in 1 .. Len(pending) : results[i] # "none"

\* Mutant: the context is not checked after the tools.
SettleUnchecked ==
    /\ pc = "tools" /\ AllSettled
    /\ pc' = "flush"
    /\ UNCHANGED <<cancelled, text, settledAlive, batchVars, routeVars, countVars, endVars>>

\* Mutant: wg.Wait never returns for a batch that was cancelled.
SettleUnlessCancelled ==
    /\ pc = "tools" /\ AllSettled /\ ~cancelled
    /\ pc' = "flush"
    /\ UNCHANGED <<cancelled, text, settledAlive, batchVars, routeVars, countVars, endVars>>

\* wg.Wait, and the context check that throws a cancelled batch away.
SettleBatch ==
    /\ pc = "tools" /\ AllSettled
    /\ IF cancelled THEN Return ELSE pc' = "flush"
    /\ UNCHANGED <<cancelled, text, settledAlive, batchVars, routeVars, countVars, endVars>>

Outcomes == {results[i] : i \in 1 .. Len(pending)}

TerminalComplete ==
    /\ Outcomes \cap TerminalEligible # {}
    /\ Outcomes \cap {"error", "invalid"} = {}

\* The buffered events go out in order; then the turn ends with a terminal
\* render, or what was called is recorded for the next iteration.
FlushBatch ==
    /\ pc = "flush"
    /\ text' = text \cup (IF "inline" \in Outcomes THEN {ToolText} ELSE {})
    /\ \/ /\ TerminalComplete
          /\ EmitDone("terminal")
          /\ Return
          /\ UNCHANGED <<routeVars, countVars>>
       \/ /\ ~TerminalComplete
          /\ called' = called \cup {pending[i].kind : i \in 1 .. Len(pending)}
          /\ loaded' = (loaded \/ "get_interest" \in called')
          /\ iteration' = iteration + 1
          /\ pc' = "check"
          /\ UNCHANGED <<turns, retry, attempt, groupLoaded, nudged, loadedBefore, endVars>>
    /\ UNCHANGED <<cancelled, settledAlive, batchVars>>

\* Mutant: the tail adds its message even after done has.
FinishTurnAlways ==
    /\ pc = "returned"
    /\ commits' = commits + 1
    /\ pc' = "idle"
    /\ UNCHANGED <<cancelled, text, settledAlive, batchVars, routeVars, countVars, outcome, via>>

\* Back in runChatWithOptions: a turn without done still gets its assistant
\* message.
FinishTurn ==
    /\ pc = "returned"
    /\ commits' = IF via = "none" THEN commits + 1 ELSE commits
    /\ pc' = "idle"
    /\ UNCHANGED <<cancelled, text, settledAlive, batchVars, routeVars, countVars, outcome, via>>

\* A stop, a delete, or the client going away, at any time.
Cancel ==
    /\ pc # "idle" /\ ~cancelled
    /\ cancelled' = TRUE
    /\ UNCHANGED <<pc, text, settledAlive, batchVars, routeVars, countVars, endVars>>

-----------------------------------------------------------------------------
Step ==
    \/ FilteredToolsFails \/ BeginIteration \/ BeginSummary
    \/ StreamEnds \/ StreamRateLimited \/ StreamFails \/ RetryStream \/ BackoffCancelled
    \/ CancelledAfterStream \/ ForceAnotherRound \/ FinishWithText \/ StartBatch
    \/ \E i \in 1 .. Len(pending) : RunTool(i)
    \/ SettleBatch \/ FlushBatch \/ FinishTurn

Next ==
    \/ StartTurn \/ Cancel \/ StreamText \/ \E k \in Kinds : StreamToolCall(k)
    \/ Step

Spec == Init /\ [][Next]_vars

\* The provider ends each of its streams one way or another, tools return,
\* timers fire, and the goroutine runs.
FairSpec == Spec /\ WF_vars(Step)

-----------------------------------------------------------------------------
(* Properties *)

\* Every turn adds exactly one assistant message to its session, whichever of
\* its exits it takes: done commits one, the tail of runChatWithOptions only
\* what done has not; and it tells the client how it ended unless it was
\* cancelled.
OneAnswerPerTurn ==
    /\ pc = "idle" /\ turns > 0 => commits = 1
    /\ pc # "idle" => commits = (IF outcome = "done" THEN 1 ELSE 0)
    /\ pc = "returned" /\ outcome = "none" => cancelled

\* The exits inside the loop report done only if the context was alive when the
\* provider's stream or the last tool settled (CHANGELOG v0.3.0), and a batch of
\* tools is neither started nor shown otherwise.
NoStaleCompletion ==
    /\ via \in {"text", "terminal"} => settledAlive
    /\ pc = "tools" /\ (\A i \in 1 .. Len(pending) : results[i] = "none") => settledAlive
    /\ pc = "flush" => settledAlive

\* What the user sees of a text answer was said in its last round: the text of
\* earlier rounds, spoken along with tool calls or refused, has been cleared.
AnswerIsLastRound ==
    via = "text" => \A a \in text \ {ToolText} : a + retry >= attempt

\* Every turn ends: neither retries, nor corrections, nor a batch that was
\* cancelled keeps it alive.
TurnsEnd == (pc # "idle") ~> (pc = "idle")

-----------------------------------------------------------------------------
(* What a comment says and the code does not *)

\* The scan of the history makes the requirement hold for follow-up messages: a
\* text answer stands only once its turn has called the tool that the interest
\* requires, whether this turn of the session has loaded it or an earlier one.
FollowUpsAreEnforced ==
    via = "text" /\ (loaded \/ loadedBefore) => "render" \in called
=============================================================================
