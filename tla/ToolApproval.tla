---------------------------- MODULE ToolApproval ----------------------------
(***************************************************************************)
(* One batch of MCP tool calls per turn, and the user's say in them: the   *)
(* goroutines agent.Run starts for a batch, the approvalFunc that          *)
(* PostChatMessage hands to the agent, and the handlers of POST            *)
(* /chat/approve and POST /chat/deny.                                      *)
(*                                                                         *)
(* An approval ID is random and used once, so it is identified with the    *)
(* tool call it was made for.  pendingApprovals is one map for all turns;  *)
(* the posts and the calls of different turns meet only there.             *)
(***************************************************************************)
EXTENDS Naturals

CONSTANTS Turns,    \* chat turns, each with a batch of tool calls
          Calls,    \* the tool calls
          Posts,    \* POST /chat/approve and /chat/deny requests
          TurnOf,   \* the turn a call belongs to
          Settings, \* the states the user may have chosen for a call's capability
          None

\* The states of a capability, and "none" for a tool without one.
States == {"none", "off", "ask", "ask_on_write", "allow"}

ASSUME ToolApprovalAssumption ==
    /\ TurnOf \in [Calls -> Turns]
    /\ None \notin Calls \cup {"approve", "deny"}
    /\ Settings \in [Calls -> SUBSET States]

VARIABLES
    state,      \* CapStates[capID] as the turn took it, "none" without a capID
    readOnly,   \* isReadOnlyTool
    pc,         \* where the goroutine of a call stands
    pending,    \* the keys of pendingApprovals
    resultCh,   \* PendingApproval.resultCh, of capacity one
    executed,   \* the calls that reached their MCP server
    cancelled,  \* whether a turn's context is cancelled
    batch,      \* what a turn did with the results of its batch
    target, verdict, reply  \* the ID and the kind of a post, and its answer

vars == <<state, readOnly, pc, pending, resultCh, executed, cancelled, batch,
          target, verdict, reply>>
gate == <<state, readOnly>>
posts == <<target, verdict, reply>>

Verdicts == {"approve", "deny"}

TypeOK ==
    /\ state \in [Calls -> States]
    /\ readOnly \in [Calls -> BOOLEAN]
    /\ pc \in [Calls -> {"called", "stored", "selecting", "withdrawing",
                         "starting", "denied", "settled"}]
    /\ pending \subseteq Calls
    /\ resultCh \in [Calls -> Verdicts \cup {None}]
    /\ executed \subseteq Calls
    /\ cancelled \in [Turns -> BOOLEAN]
    /\ batch \in [Turns -> {"running", "recorded", "discarded"}]
    /\ target \in [Posts -> Calls \cup {None}]
    /\ verdict \in [Posts -> Verdicts \cup {None}]
    /\ reply \in [Posts -> {"none", "sending", "ok", "not_found"}]

\* The state of every capability is whatever the user has chosen; the name of
\* the tool is whatever the provider answered, even one that is switched off.
Init ==
    /\ state \in {f \in [Calls -> States] :
                    \A c \in Calls : f[c] \in Settings[c]}
    /\ readOnly \in [Calls -> BOOLEAN]
    /\ pc = [c \in Calls |-> "called"]
    /\ pending = {}
    /\ resultCh = [c \in Calls |-> None]
    /\ executed = {}
    /\ cancelled = [t \in Turns |-> FALSE]
    /\ batch = [t \in Turns |-> "running"]
    /\ target = [p \in Posts |-> None]
    /\ verdict = [p \in Posts |-> None]
    /\ reply = [p \in Posts |-> "none"]

NeedsApproval(c) ==
    state[c] = "ask" \/ (state[c] = "ask_on_write" /\ ~readOnly[c])

Goto(c, label) == pc' = [pc EXCEPT ![c] = label]

-----------------------------------------------------------------------------
(* The goroutine of a tool call *)

SkipApproval(c) ==
    /\ pc[c] = "called" /\ ~NeedsApproval(c)
    /\ Goto(c, "starting")
    /\ UNCHANGED <<gate, pending, resultCh, executed, cancelled, batch, posts>>

\* pendingApprovals.Store, then the tool_approval_required event: from here on
\* a client may know the ID.
StoreApproval(c) ==
    /\ pc[c] = "called" /\ NeedsApproval(c)
    /\ pending' = pending \cup {c}
    /\ Goto(c, "stored")
    /\ UNCHANGED <<gate, resultCh, executed, cancelled, batch, posts>>

EmitApprovalRequired(c) ==
    /\ pc[c] = "stored"
    /\ Goto(c, "selecting")
    /\ UNCHANGED <<gate, pending, resultCh, executed, cancelled, batch, posts>>

Announced(c) == NeedsApproval(c) /\ pc[c] \notin {"called", "stored"}

\* Mutant: any answer lets the call through.
ReceiveAnything(c) ==
    /\ pc[c] = "selecting" /\ resultCh[c] # None
    /\ resultCh' = [resultCh EXCEPT ![c] = None]
    /\ Goto(c, "starting")
    /\ UNCHANGED <<gate, pending, executed, cancelled, batch, posts>>

\* The three branches of the select.  When several are ready Go picks any.
ReceiveResult(c) ==
    /\ pc[c] = "selecting" /\ resultCh[c] # None
    /\ resultCh' = [resultCh EXCEPT ![c] = None]
    /\ Goto(c, IF resultCh[c] = "approve" THEN "starting" ELSE "denied")
    /\ UNCHANGED <<gate, pending, executed, cancelled, batch, posts>>

ContextDone(c) ==
    /\ pc[c] = "selecting" /\ cancelled[TurnOf[c]]
    /\ Goto(c, "withdrawing")
    /\ UNCHANGED <<gate, pending, resultCh, executed, cancelled, batch, posts>>

\* Mutant: an approval that times out counts as given.
TimeOutApproves(c) ==
    /\ pc[c] = "selecting"
    /\ pending' = pending \ {c}
    /\ Goto(c, "starting")
    /\ UNCHANGED <<gate, resultCh, executed, cancelled, batch, posts>>

\* Mutant: without a timer only a cancelled turn stops waiting.
TimeOutNever(c) == ContextDone(c)

\* Five minutes have passed.
TimeOut(c) ==
    /\ pc[c] = "selecting"
    /\ Goto(c, "withdrawing")
    /\ UNCHANGED <<gate, pending, resultCh, executed, cancelled, batch, posts>>

\* Mutant: an approval nobody answered stays in the map.
WithdrawNothing(c) ==
    /\ pc[c] = "withdrawing"
    /\ Goto(c, "denied")
    /\ UNCHANGED <<gate, pending, resultCh, executed, cancelled, batch, posts>>

\* pendingApprovals.Delete on the two branches without an answer.
Withdraw(c) ==
    /\ pc[c] = "withdrawing"
    /\ pending' = pending \ {c}
    /\ Goto(c, "denied")
    /\ UNCHANGED <<gate, resultCh, executed, cancelled, batch, posts>>

\* Router.CallTool: the call reaches its server, or fails before it does.
CallTool(c) ==
    /\ pc[c] = "starting"
    /\ executed' \in {executed, executed \cup {c}}
    /\ Goto(c, "settled")
    /\ UNCHANGED <<gate, pending, resultCh, cancelled, batch, posts>>

\* wg.Wait and the context check behind it: the batch of a cancelled turn is
\* thrown away as a whole.
SettleBatch(t) ==
    /\ batch[t] = "running"
    /\ \A c \in Calls : TurnOf[c] = t => pc[c] \in {"denied", "settled"}
    /\ batch' = [batch EXCEPT ![t] = IF cancelled[t] THEN "discarded" ELSE "recorded"]
    /\ UNCHANGED <<gate, pc, pending, resultCh, executed, cancelled, posts>>

-----------------------------------------------------------------------------
(* The clients' requests *)

\* Mutant: Load instead of LoadAndDelete.
LoadOnly(p, c, v) ==
    /\ reply[p] = "none" /\ Announced(c)
    /\ target' = [target EXCEPT ![p] = c]
    /\ verdict' = [verdict EXCEPT ![p] = v]
    /\ reply' = [reply EXCEPT ![p] = IF c \in pending THEN "sending" ELSE "not_found"]
    /\ UNCHANGED <<gate, pc, pending, resultCh, executed, cancelled, batch>>

\* PostChatApprove and PostChatDeny up to LoadAndDelete.
LoadAndDelete(p, c, v) ==
    /\ reply[p] = "none" /\ Announced(c)
    /\ target' = [target EXCEPT ![p] = c]
    /\ verdict' = [verdict EXCEPT ![p] = v]
    /\ pending' = pending \ {c}
    /\ reply' = [reply EXCEPT ![p] = IF c \in pending THEN "sending" ELSE "not_found"]
    /\ UNCHANGED <<gate, pc, resultCh, executed, cancelled, batch>>

\* resultCh <- true or false, which blocks while the buffer is full, and 200.
SendResult(p) ==
    LET c == target[p] IN
    /\ reply[p] = "sending" /\ resultCh[c] = None
    /\ resultCh' = [resultCh EXCEPT ![c] = verdict[p]]
    /\ reply' = [reply EXCEPT ![p] = "ok"]
    /\ UNCHANGED <<gate, pc, pending, executed, cancelled, batch, target, verdict>>

\* A stop, a delete, or the client of the turn going away.
Cancel(t) ==
    /\ batch[t] = "running" /\ ~cancelled[t]
    /\ cancelled' = [cancelled EXCEPT ![t] = TRUE]
    /\ UNCHANGED <<gate, pc, pending, resultCh, executed, batch, posts>>

-----------------------------------------------------------------------------
CallStep(c) ==
    \/ SkipApproval(c) \/ StoreApproval(c) \/ EmitApprovalRequired(c)
    \/ ReceiveResult(c) \/ ContextDone(c) \/ TimeOut(c) \/ Withdraw(c) \/ CallTool(c)

Next ==
    \/ \E c \in Calls : CallStep(c)
    \/ \E t \in Turns : SettleBatch(t) \/ Cancel(t)
    \/ \E p \in Posts, c \in Calls, v \in Verdicts : LoadAndDelete(p, c, v)
    \/ \E p \in Posts : SendResult(p)

Spec == Init /\ [][Next]_vars

(***************************************************************************)
(* Goroutines run, the timer of an approval fires, and a tool call returns *)
(* (its HTTP request carries the turn's context).  Users owe no answer.    *)
(***************************************************************************)
FairSpec ==
    /\ Spec
    /\ \A c \in Calls : WF_vars(CallStep(c))
    /\ \A t \in Turns : WF_vars(SettleBatch(t))
    /\ \A p \in Posts : WF_vars(SendResult(p))

-----------------------------------------------------------------------------
(* Properties *)

Answered(p, c, v) == target[p] = c /\ verdict[p] = v /\ reply[p] = "ok"

\* A call that needs approval reaches its server only after an approve for
\* that very call was accepted (architecture 6: each call pauses for user
\* approval before executing): not after a timeout, a stop, or the answer to
\* a sibling call of the same batch.
ExecutesOnlyApproved ==
    \A c \in executed : NeedsApproval(c) => \E p \in Posts : Answered(p, c, "approve")

\* A denial the client saw accepted is final: no other answer, earlier or
\* later, lets the call through.
DenialIsFinal ==
    \A p \in Posts, c \in Calls : Answered(p, c, "deny") =>
        c \notin executed /\ pc[c] # "starting"

\* Of all the answers to one approval (two tabs, a double click, a retry) at
\* most one is accepted; the others find nothing.
AnsweredOnce ==
    \A p, q \in Posts :
        reply[p] = "ok" /\ reply[q] \in {"ok", "sending"} /\ target[p] = target[q] => p = q

\* The send in the handlers never finds the buffer full, so they cannot hang.
SendNeverBlocks ==
    \A p \in Posts : reply[p] = "sending" => resultCh[target[p]] = None

\* pendingApprovals holds nothing that nobody will remove: the call of every
\* entry is still waiting for its answer, and its turn for the call.
NoStaleApproval ==
    \A c \in pending :
        pc[c] \in {"stored", "selecting", "withdrawing"} /\ batch[TurnOf[c]] = "running"

\* Every batch settles even if the user never answers.
BatchesSettle == \A t \in Turns : <>(batch[t] # "running")

=============================================================================
