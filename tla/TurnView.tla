------------------------------ MODULE TurnView ------------------------------
(***************************************************************************)
(* What a chat panel shows of its turns: the transcript, the tool cards,   *)
(* and the queue of approval dialogs, as handleSSEEvent builds them from   *)
(* the events of agent.Run, and as stop, clear and the answers to the      *)
(* dialogs change them.                                                    *)
(*                                                                         *)
(* The panel runs one request at a time and ignores the stream of a        *)
(* request that was stopped (module ChatPanel), so one stream is enough    *)
(* here.  A turn calls one batch of tools.  While the dialog is open its   *)
(* overlay covers Stop and Clear.                                          *)
(***************************************************************************)
EXTENDS Naturals, Sequences, SequencesExt

CONSTANTS Calls,          \* tool calls
          ToolOf(_),      \* the name of the tool a call calls
          BatchOf,        \* the calls of each turn, in the order of the provider
          Clicks,         \* bound: answers to dialogs
          MaxText,        \* bound: pieces of text in one bubble
          None

Turns == 1 .. Len(BatchOf)

ASSUME TurnViewAssumption ==
    /\ BatchOf \in Seq(Seq(Calls))
    \* a call is made once, by one turn: its approval has an id of its own
    /\ \A t, u \in Turns : \A i \in DOMAIN BatchOf[t], j \in DOMAIN BatchOf[u] :
          BatchOf[t][i] = BatchOf[u][j] => t = u /\ i = j
    /\ MaxText \in Nat \ {0}
    /\ None \notin Calls

VARIABLES
    \* the hook and the component
    messages,
    approvalQueue,
    streaming,
    \* answers on their way
    post,         \* one per click on Confirm or Cancel
    \* the server
    turn,         \* the last turn sent
    phase,        \* of its agent.Run
    verdict,      \* of each call
    next,         \* the call whose buffered events are flushed next
    gated,        \* the calls that need an approval
    \* history
    ending,       \* how each turn ended for the client
    rushed        \* a dialog was answered twice, or an answer outlived its turn

ui     == <<messages, approvalQueue, streaming>>
server == <<turn, phase, verdict, next, gated>>
vars   == <<ui, post, server, ending, rushed>>

Message == [role : {"user", "assistant"}, turn : Turns, text : 0 .. MaxText]
     \cup [role : {"tool"}, turn : Turns, call : Calls,
           status : {"executing", "completed", "failed"}]

TypeOK ==
    /\ messages \in Seq(Message)
    /\ approvalQueue \in Seq(Calls)
    /\ streaming \in BOOLEAN
    /\ post \in [Clicks -> [target : Calls \cup {None}, verdict : {"approved", "denied"},
                            phase : {"unused", "sent", "handled", "over"}]]
    /\ turn \in 0 .. Len(BatchOf)
    /\ phase \in {"idle", "model", "batch", "calls", "results", "erred", "closing"}
    /\ verdict \in [Calls -> {"none", "pending", "approved", "denied"}]
    /\ next \in Nat
    /\ gated \in SUBSET Calls
    /\ ending \in [Turns -> {"none", "done", "error", "cut", "broken", "stopped", "refused"}]
    /\ rushed \in BOOLEAN

Init ==
    /\ messages = <<>> /\ approvalQueue = <<>>
    /\ streaming = FALSE
    /\ post = [p \in Clicks |-> [target |-> None, verdict |-> "denied", phase |-> "unused"]]
    /\ turn = 0 /\ phase = "idle" /\ next = 0
    /\ verdict = [c \in Calls |-> "none"]
    /\ gated \in SUBSET Calls
    /\ ending = [t \in Turns |-> "none"]
    /\ rushed = FALSE

\* pendingApproval, in the dialog.
Pending == IF approvalQueue = <<>> THEN None ELSE Head(approvalQueue)

InFlight == {p \in Clicks : post[p].phase \in {"sent", "handled"}}

Batch == BatchOf[turn]

\* The bubble of the running turn, if it is there: m.id === assistantId.
Edit(text(_)) ==
    [i \in DOMAIN messages |->
        IF messages[i].role = "assistant" /\ messages[i].turn = turn
        THEN [messages[i] EXCEPT !.text = text(@)] ELSE messages[i]]

More(n) == IF n < MaxText THEN n + 1 ELSE n

\* The transcript without the empty bubbles of some turns.
IsEmpty(m, ts) == m.role = "assistant" /\ m.text = 0 /\ m.turn \in ts

WithoutEmpty(ts) ==
    LET kept[i \in 0 .. Len(messages)] ==
          IF i = 0 THEN <<>>
          ELSE IF IsEmpty(messages[i], ts) THEN kept[i - 1]
          ELSE Append(kept[i - 1], messages[i])
    IN kept[Len(messages)]

-----------------------------------------------------------------------------
(* The client: a turn is sent; its request fails, ends, breaks, is stopped. *)

Send ==
    /\ ~streaming /\ turn < Len(BatchOf)
    /\ turn' = turn + 1
    /\ messages' = messages \o <<[role |-> "user", turn |-> turn', text |-> 1],
                                 [role |-> "assistant", turn |-> turn', text |-> 0]>>
    /\ streaming' = TRUE
    /\ phase' = "model" /\ next' = 1
    /\ rushed' = (rushed \/ InFlight # {})
    /\ UNCHANGED <<approvalQueue, post, verdict, gated, ending>>

End(how) ==
    /\ streaming' = FALSE
    /\ phase' = "idle"
    /\ ending' = [ending EXCEPT ![turn] = how]
    /\ UNCHANGED <<post, turn, verdict, next, gated, rushed>>

\* "Error: ..." in the bubble.
RespondError ==
    /\ phase = "model" /\ next = 1
    /\ messages' = Edit(LAMBDA n : 1)
    /\ End("refused")
    /\ UNCHANGED approvalQueue

\* The end of the stream, expected or not.
ReadEnd ==
    /\ streaming
    /\ End(CASE phase = "closing" -> "done" [] phase = "erred" -> "error" [] OTHER -> "cut")
    /\ UNCHANGED <<messages, approvalQueue>>

\* "*Connection error.*" in the bubble.
Breaks ==
    /\ streaming
    /\ messages' = Edit(More)
    /\ End("broken")
    /\ UNCHANGED approvalQueue

\* cancelCurrentRequest
Cancel ==
    /\ approvalQueue' = <<>>
    /\ streaming' = FALSE
    /\ phase' = "idle"
    /\ ending' = IF streaming THEN [ending EXCEPT ![turn] = "stopped"] ELSE ending
    /\ UNCHANGED <<post, turn, verdict, next, gated, rushed>>

Stop ==
    /\ streaming /\ Pending = None
    /\ Cancel
    /\ messages' = WithoutEmpty(Turns)

Clear ==
    /\ messages # <<>> /\ Pending = None
    /\ Cancel
    /\ messages' = <<>>

-----------------------------------------------------------------------------
(* The events of a turn. *)

ServerFrame == UNCHANGED <<post, turn, gated, ending, rushed, streaming>>

\* event: message
ReadMessage ==
    /\ phase = "model"
    /\ messages' = Edit(More)
    /\ messages' # messages
    /\ UNCHANGED <<approvalQueue, phase, verdict, next>> /\ ServerFrame

\* event: text_clear, before the calls of the answer run.
StartBatch ==
    /\ phase = "model" /\ next = 1 /\ Batch # <<>>
    /\ phase' = "batch"
    /\ messages' = Edit(LAMBDA n : 0)
    /\ verdict' = [c \in Calls |-> IF c \in Range(Batch) \ gated THEN "approved"
                                   ELSE verdict[c]]
    /\ UNCHANGED <<approvalQueue, next>> /\ ServerFrame

\* event: tool_approval_required, from the goroutine of the call.
RequireApproval(c) ==
    /\ phase = "batch" /\ c \in Range(Batch) /\ verdict[c] = "none"
    /\ verdict' = [verdict EXCEPT ![c] = "pending"]
    /\ approvalQueue' = Append(approvalQueue, c)
    /\ UNCHANGED <<messages, phase, next>> /\ ServerFrame

\* Nobody answers: the call counts as denied.
TimeOut(c) ==
    /\ verdict[c] = "pending"
    /\ verdict' = [verdict EXCEPT ![c] = "denied"]
    /\ UNCHANGED <<messages, approvalQueue, phase, next>> /\ ServerFrame

\* wg.Wait, then the buffered events of each call in the order of the provider.
FlushBatch ==
    /\ phase = "batch"
    /\ \A c \in Range(Batch) : verdict[c] \in {"approved", "denied"}
    /\ phase' = "calls"
    /\ UNCHANGED <<messages, approvalQueue, verdict, next>> /\ ServerFrame

\* event: tool_call.  A denied call has none.
ReadToolCall ==
    /\ phase = "calls"
    /\ phase' = "results"
    /\ messages' = IF verdict[Batch[next]] = "approved"
                   THEN Append(messages, [role |-> "tool", turn |-> turn,
                                          call |-> Batch[next], status |-> "executing"])
                   ELSE messages
    /\ UNCHANGED <<approvalQueue, verdict, next>> /\ ServerFrame

CardsOf(c) ==
    {i \in DOMAIN messages : messages[i].role = "tool" /\ ToolOf(messages[i].call) = ToolOf(c)}

\* Mutant: the first card of the tool is taken for the last one.
FirstCard(c) ==
    IF CardsOf(c) = {} THEN 0
    ELSE CHOOSE i \in CardsOf(c) : \A j \in CardsOf(c) : i <= j

\* The most recent card of the tool.
LastCard(c) ==
    IF CardsOf(c) = {} THEN 0
    ELSE CHOOSE i \in CardsOf(c) : \A j \in CardsOf(c) : j <= i

\* event: tool_result
ReadToolResult ==
    /\ phase = "results"
    /\ LET c == Batch[next]
           i == LastCard(c) IN
       \E failed \in BOOLEAN :
          /\ verdict[c] = "denied" => failed
          /\ messages' = IF i = 0 THEN messages
                         ELSE [messages EXCEPT ![i].status =
                                  IF failed THEN "failed" ELSE "completed"]
    /\ next' = next + 1
    /\ phase' = IF next = Len(Batch) THEN "model" ELSE "calls"
    /\ UNCHANGED <<approvalQueue, verdict>> /\ ServerFrame

\* event: error, the last of its stream.
ReadError ==
    /\ phase = "model"
    /\ messages' = Edit(More)
    /\ phase' = "erred"
    /\ UNCHANGED <<approvalQueue, verdict, next>> /\ ServerFrame

\* Mutant: the approvals of the finished turn stay in the queue.
ReadDoneKeepingQueue ==
    /\ phase = "model"
    /\ messages' = WithoutEmpty({turn})
    /\ phase' = "closing"
    /\ UNCHANGED <<approvalQueue, verdict, next>> /\ ServerFrame

\* event: done
ReadDone ==
    /\ phase = "model"
    /\ messages' = WithoutEmpty({turn})
    /\ approvalQueue' = <<>>
    /\ phase' = "closing"
    /\ UNCHANGED <<verdict, next>> /\ ServerFrame

-----------------------------------------------------------------------------
(* The dialog. *)

\* approveAction or denyAction; closing the dialog denies.
Answer(p, v) ==
    /\ Pending # None /\ post[p].phase = "unused"
    /\ post' = [post EXCEPT ![p] = [target |-> Pending, verdict |-> v, phase |-> "sent"]]
    /\ rushed' = (rushed \/ InFlight # {} \/ \E q \in Clicks : post[q].target = Pending)
    /\ UNCHANGED <<ui, server, ending>>

\* The server takes the answer, if the call still waits for one.
Handle(p) ==
    /\ post[p].phase = "sent"
    /\ post' = [post EXCEPT ![p].phase = "handled"]
    /\ LET c == post[p].target IN
       verdict' = IF verdict[c] = "pending" THEN [verdict EXCEPT ![c] = post[p].verdict]
                  ELSE verdict
    /\ UNCHANGED <<ui, turn, phase, next, gated, ending, rushed>>

\* Mutant: an answer removes what is then the last of the queue.
ReturnsTail(p) ==
    /\ post[p].phase = "handled"
    /\ post' = [post EXCEPT ![p].phase = "over"]
    /\ approvalQueue' = IF approvalQueue = <<>> THEN <<>> ELSE Front(approvalQueue)
    /\ UNCHANGED <<messages, streaming, server, ending, rushed>>

\* Its reply, a failed one included, removes the head of the queue.
Returns(p) ==
    /\ post[p].phase = "handled"
    /\ post' = [post EXCEPT ![p].phase = "over"]
    /\ approvalQueue' = IF approvalQueue = <<>> THEN <<>> ELSE Tail(approvalQueue)
    /\ UNCHANGED <<messages, streaming, server, ending, rushed>>

-----------------------------------------------------------------------------
Next ==
    \/ Send \/ RespondError \/ ReadEnd \/ Breaks \/ Stop \/ Clear
    \/ ReadMessage \/ StartBatch \/ FlushBatch \/ ReadToolCall \/ ReadToolResult
    \/ ReadError \/ ReadDone
    \/ \E c \in Calls : RequireApproval(c) \/ TimeOut(c)
    \/ \E p \in Clicks : Handle(p) \/ Returns(p)
    \/ \E p \in Clicks, v \in {"approved", "denied"} : Answer(p, v)

Spec == Init /\ [][Next]_vars

-----------------------------------------------------------------------------
(* Properties *)

\* The user is asked about every call that waits: an approval leaves the queue
\* only answered, as long as no dialog is answered twice and no answer outlives
\* its turn.  A second click, before the first has returned and the dialog is
\* gone, drops the next approval unseen, and its call runs into the timeout.
NoApprovalSkipped ==
    streaming /\ ~rushed =>
        \A c \in Range(Batch) : verdict[c] = "pending" =>
            c \in Range(approvalQueue) \/ \E p \in Clicks : post[p].target = c

\* The queue holds approvals of the running turn and of turns that the panel
\* never saw end: a turn that was done or stopped asks nothing any more.
NoStaleDialog ==
    \A t \in Turns : ending[t] \in {"done", "stopped"} =>
        Range(BatchOf[t]) \cap Range(approvalQueue) = {}

\* No card is left executing, and no bubble left empty, by a turn that came to
\* its end: results reach the card of their call although they carry only the
\* tool's name, however many calls of one tool a batch has.
TurnsEndClean ==
    \A i \in DOMAIN messages :
        ending[messages[i].turn] \in {"done", "error"} =>
            /\ messages[i].role = "tool" => messages[i].status # "executing"
            /\ messages[i].role = "assistant" => messages[i].text # 0

\* docs/chatbot-architecture.md: a card shows the "Execution status (executing
\* -> completed / failed)" of its call: what is completed stays completed.
CardIsFinal ==
    [][\A i \in DOMAIN messages :
         messages[i].role = "tool" /\ messages[i].status = "completed"
         /\ i \in DOMAIN messages' /\ messages'[i].role = "tool"
         /\ messages'[i].call = messages[i].call
           => messages'[i].status = "completed"]_vars
=============================================================================
