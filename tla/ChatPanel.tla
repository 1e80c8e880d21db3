----------------------------- MODULE ChatPanel -----------------------------
(***************************************************************************)
(* The requests of one chat panel: runMessage, the one-slot queue of       *)
(* interactive submissions, stop, clear and unmount of the hook            *)
(* useChatPanel, and the component ChatPanel around it (typed messages,    *)
(* the host's pendingPrompt).                                              *)
(*                                                                         *)
(* JavaScript runs one callback at a time, so a step is one callback up to *)
(* its next await.  What interleaves is React: a callback sees the state   *)
(* of the last commit (view), not the state it has set since, while refs   *)
(* change at once; and the passive effects of a commit run some time after *)
(* it, in the order in which they are declared, before the next commit.    *)
(* Stop and clear are clicks: React commits what they set before the next  *)
(* event (urgent); what a stream sets is committed some time later.        *)
(*                                                                         *)
(* A message stands for one submission: one click, one line, one prompt.   *)
(***************************************************************************)
EXTENDS Naturals, FiniteSets

CONSTANTS Typed,           \* lines typed and sent, suggested prompts, bookmarks
          Actions,         \* sendInteractiveMessage: canvas and chart actions
          Prompts,         \* values of the host's pendingPrompt
          MaxCalls,        \* bound: submissions other than prompts
          MaxEpochs,       \* bound: stops and clears
          MaxGenerations,  \* bound: stops, clears and queues switched off
          None

Msgs == Typed \union Actions \union Prompts

ASSUME ChatPanelAssumption ==
    /\ Typed \intersect Actions = {}
    /\ Typed \intersect Prompts = {}
    /\ Actions \intersect Prompts = {}
    /\ None \notin Msgs \union Nat \union [msg : Actions, generation : Nat]
    /\ MaxCalls \in Nat /\ MaxEpochs \in Nat /\ MaxGenerations \in Nat

VARIABLES
    \* refs of the hook
    epoch,              \* requestEpochRef
    requestActive,      \* requestActiveRef
    abortRef,           \* the request whose controller abortRef holds
    handoffAllowed,     \* queueHandoffAllowedRef
    generation,         \* queueGenerationRef
    interactiveActive,  \* interactiveActiveRef
    queued,             \* queuedInteractiveRef
    mounted,            \* mountedRef
    lastSent,           \* ChatPanel's lastSentRef
    \* state of the hook
    streaming,
    submission,         \* interactiveSubmissionState
    session,            \* sessionId, named after the conversation it began in
    \* props
    queueing,           \* queueInteractiveSubmissions
    prompt,             \* pendingPrompt
    \* React
    view,               \* state and props of the last commit
    effects,            \* the next of its passive effects to run
    urgent,             \* a click has set state: nothing runs before its commit
    \* the network, and history
    req,                \* the request each message started
    calls,              \* messages submitted so far
    slot,               \* messages that were ever queued
    consumed,           \* prompts reported to the host as submitted
    conversation,       \* clears so far
    strayed             \* a prompt was sent with a session cleared before

refs    == <<epoch, requestActive, abortRef, handoffAllowed, generation,
             interactiveActive, queued, mounted>>
state   == <<streaming, submission, session>>
props   == <<queueing, prompt>>
react   == <<view, effects, urgent>>
history == <<calls, slot, consumed, conversation, strayed>>
vars    == <<refs, lastSent, state, props, react, req, history>>

Request == [phase : {"new", "open", "reading", "over"},
            epoch : Nat,
            token : Nat \union {None},         \* generation of an interactive one
            sent : Nat \union {None},          \* session_id of its body
            done : BOOLEAN,                    \* sawDone
            aborted : BOOLEAN,                 \* its controller was aborted
            conversation : Nat]                \* history

\* No request: it has not begun, or it is over.
Blank(phase) == [phase |-> phase, epoch |-> 0, token |-> None, sent |-> None,
                 done |-> FALSE, aborted |-> FALSE, conversation |-> 0]

Submission == {"idle", "queued", "continuing"}

View == [streaming : BOOLEAN, submission : Submission,
         session : Nat \union {None}, prompt : Prompts \union {None},
         queueing : BOOLEAN, switchedOff : BOOLEAN]

TypeOK ==
    /\ epoch \in Nat /\ generation \in Nat /\ conversation \in Nat
    /\ requestActive \in BOOLEAN /\ handoffAllowed \in BOOLEAN
    /\ interactiveActive \in BOOLEAN /\ mounted \in BOOLEAN
    /\ abortRef \in Msgs \union {None}
    /\ queued \in [msg : Actions, generation : Nat] \union {None}
    /\ lastSent \in Prompts \union {None}
    /\ streaming \in BOOLEAN /\ submission \in Submission
    /\ session \in Nat \union {None}
    /\ queueing \in BOOLEAN /\ prompt \in Prompts \union {None}
    /\ view \in View
    /\ effects \in {"none", "due", "dispatch", "prompt"}
    /\ urgent \in BOOLEAN
    /\ req \in [Msgs -> Request]
    /\ calls \subseteq Msgs /\ slot \subseteq Actions /\ consumed \subseteq Prompts
    /\ strayed \in BOOLEAN

Init ==
    /\ epoch = 0 /\ generation = 0 /\ conversation = 0
    /\ requestActive = FALSE /\ interactiveActive = FALSE
    /\ handoffAllowed = TRUE /\ mounted = TRUE
    /\ abortRef = None /\ queued = None /\ lastSent = None
    /\ streaming = FALSE /\ submission = "idle" /\ session = None
    /\ queueing \in BOOLEAN
    /\ prompt = None
    /\ view = [streaming |-> FALSE, submission |-> "idle", session |-> None,
               prompt |-> None, queueing |-> queueing, switchedOff |-> FALSE]
    /\ effects = "none" /\ urgent = FALSE
    /\ req = [m \in Msgs |-> Blank("new")]
    /\ calls = {} /\ slot = {} /\ consumed = {} /\ strayed = FALSE

\* Effects, once they run, run to their end before anything else.
Calm == effects \in {"none", "due"} /\ ~urgent

CanCall(m) == mounted /\ Calm /\ m \notin calls /\ Cardinality(calls \ Prompts) < MaxCalls

Live(m) == req[m].phase \in {"open", "reading"}

\* isCurrentRequest
Current(m) == mounted /\ req[m].epoch = epoch

-----------------------------------------------------------------------------
(* runMessage, up to the call of api.stream. *)

\* Mutant: a typed message does not wait for the queued action.
RefusedUnlessBusy(interactive) == view.streaming \/ requestActive

\* Mutant: only the ref guards a send, not the streaming of the last commit.
RefusedByRef(interactive) ==
    requestActive \/ (~interactive /\ interactiveActive)

Refused(interactive) ==
    \/ view.streaming
    \/ requestActive
    \/ (~interactive /\ interactiveActive)

RunMessage(m, token) ==
    /\ requestActive' = TRUE
    /\ streaming' = TRUE
    /\ abortRef' = m
    /\ req' = [req EXCEPT ![m] =
                [phase |-> "open", epoch |-> epoch, token |-> token,
                 sent |-> view.session, done |-> FALSE, aborted |-> FALSE,
                 conversation |-> conversation]]

\* sendMessage: runMessage(text, false), which drops what it refuses.
SendMessage(m) ==
    /\ IF Refused(FALSE)
       THEN UNCHANGED <<requestActive, streaming, abortRef, req>>
       ELSE RunMessage(m, None)
    /\ UNCHANGED <<epoch, handoffAllowed, generation, interactiveActive, queued,
                   mounted, submission, session>>

\* handleSend, or a click on a suggested prompt or a bookmark.
Send(m) ==
    /\ CanCall(m) /\ m \in Typed
    /\ ~view.streaming
    /\ SendMessage(m)
    /\ calls' = calls \union {m}
    /\ UNCHANGED <<lastSent, props, react, slot, consumed, conversation, strayed>>

-----------------------------------------------------------------------------
(* sendInteractiveMessage *)

Busy == requestActive \/ view.streaming

\* Queueing off: sendMessage, which drops an action while a turn streams.
ActLegacy(m) ==
    /\ ~view.queueing
    /\ SendMessage(m)
    /\ UNCHANGED slot

ActRefused ==
    /\ view.queueing
    /\ interactiveActive
    /\ UNCHANGED <<refs, state, req, slot>>

ActStart(m) ==
    /\ view.queueing
    /\ ~interactiveActive
    /\ ~Busy
    /\ interactiveActive' = TRUE
    /\ submission' = "continuing"
    /\ RunMessage(m, generation)
    /\ UNCHANGED <<epoch, handoffAllowed, generation, queued, mounted, session, slot>>

ActQueue(m) ==
    /\ view.queueing
    /\ ~interactiveActive
    /\ Busy
    /\ interactiveActive' = TRUE
    /\ queued' = [msg |-> m, generation |-> generation]
    /\ submission' = "queued"
    /\ slot' = slot \union {m}
    /\ UNCHANGED <<epoch, requestActive, abortRef, handoffAllowed, generation,
                   mounted, streaming, session, req>>

SendInteractive(m) ==
    /\ CanCall(m) /\ m \in Actions
    /\ ActLegacy(m) \/ ActRefused \/ ActStart(m) \/ ActQueue(m)
    /\ calls' = calls \union {m}
    /\ UNCHANGED <<lastSent, props, react, consumed, conversation, strayed>>

-----------------------------------------------------------------------------
(* The stream of a request. *)

\* The finally block of runMessage, and the finally of an interactive one.
Settle(m, allow) ==
    /\ req' = [req EXCEPT ![m] = Blank("over")]
    /\ IF Current(m)
       THEN /\ handoffAllowed' = allow
            /\ requestActive' = FALSE
            /\ streaming' = FALSE
            /\ abortRef' = IF abortRef = m THEN None ELSE abortRef
       ELSE UNCHANGED <<handoffAllowed, requestActive, streaming, abortRef>>
    /\ IF mounted /\ req[m].token = generation
       THEN interactiveActive' = FALSE /\ submission' = "idle"
       ELSE UNCHANGED <<interactiveActive, submission>>
    /\ UNCHANGED <<epoch, generation, queued, mounted>>

EventFrame == UNCHANGED <<lastSent, props, react, history>>

\* React has committed a send long before its answer is back.
Answerable(m) == Calm /\ Current(m) /\ req[m].phase = "open" /\ view.streaming

Respond(m) ==
    /\ Answerable(m)
    /\ req' = [req EXCEPT ![m].phase = "reading"]
    /\ UNCHANGED <<refs, state>> /\ EventFrame

\* An HTTP error releases a queued action; an answer without a body does not.
RespondError(m) ==
    /\ Answerable(m)
    /\ \E allow \in BOOLEAN: Settle(m, allow)
    /\ UNCHANGED session /\ EventFrame

\* Mutant: done is taken from whichever request is being read.
ReadDoneOfAny(m) ==
    /\ Calm /\ req[m].phase = "reading" /\ ~req[m].done
    /\ req' = [req EXCEPT ![m].done = TRUE]
    /\ session' = IF req[m].sent # None THEN req[m].sent ELSE req[m].conversation
    /\ UNCHANGED <<refs, streaming, submission>> /\ EventFrame

\* event: done, with the session of the request or the one the server made.
ReadDone(m) ==
    /\ Calm /\ Current(m) /\ req[m].phase = "reading" /\ ~req[m].done
    /\ req' = [req EXCEPT ![m].done = TRUE]
    /\ session' = IF req[m].sent # None THEN req[m].sent ELSE req[m].conversation
    /\ UNCHANGED <<refs, streaming, submission>> /\ EventFrame

\* End of the stream: without done, nothing tells that the turn was committed.
ReadEnd(m) ==
    /\ Calm /\ Current(m) /\ req[m].phase = "reading"
    /\ Settle(m, req[m].done)
    /\ UNCHANGED session /\ EventFrame

\* The connection breaks: "*Connection error.*"
Breaks(m) ==
    /\ Calm /\ Current(m) /\ Live(m) /\ view.streaming
    /\ Settle(m, TRUE)
    /\ UNCHANGED session /\ EventFrame

\* A stopped, cleared or unmounted request sees that at its next answer, read
\* or AbortError, and leaves everything as it is.
EndStale(m) ==
    /\ Calm /\ ~Current(m) /\ Live(m)
    /\ Settle(m, TRUE)
    /\ UNCHANGED session /\ EventFrame

-----------------------------------------------------------------------------
(* Stop, clear, unmount. *)

Abort == req' = IF abortRef = None THEN req ELSE [req EXCEPT ![abortRef].aborted = TRUE]

\* Mutant: the controller is dropped without being aborted.
CancelWithoutAbort ==
    /\ epoch' = epoch + 1
    /\ generation' = generation + 1
    /\ requestActive' = FALSE
    /\ handoffAllowed' = TRUE
    /\ interactiveActive' = FALSE
    /\ queued' = None
    /\ abortRef' = None
    /\ streaming' = FALSE
    /\ submission' = "idle"
    /\ UNCHANGED <<mounted, req>>

CancelCurrentRequest ==
    /\ epoch' = epoch + 1
    /\ generation' = generation + 1
    /\ requestActive' = FALSE
    /\ handoffAllowed' = TRUE
    /\ interactiveActive' = FALSE
    /\ queued' = None
    /\ abortRef' = None
    /\ Abort
    /\ streaming' = FALSE
    /\ submission' = "idle"
    /\ UNCHANGED mounted

CanCancel == mounted /\ Calm /\ epoch < MaxEpochs /\ generation < MaxGenerations

Stop ==
    /\ CanCancel /\ view.streaming
    /\ CancelCurrentRequest
    /\ UNCHANGED session
    /\ urgent' = TRUE
    /\ UNCHANGED <<lastSent, props, view, effects, history>>

Clear ==
    /\ CanCancel /\ calls # {}
    /\ CancelCurrentRequest
    /\ session' = None
    /\ conversation' = conversation + 1
    /\ urgent' = TRUE
    /\ UNCHANGED <<lastSent, props, view, effects, calls, slot, consumed, strayed>>

\* The cleanup of the mount effect.
CleanUp ==
    /\ epoch' = epoch + 1
    /\ requestActive' = FALSE
    /\ generation' = generation + 1
    /\ interactiveActive' = FALSE
    /\ queued' = None
    /\ Abort
    /\ UNCHANGED <<abortRef, handoffAllowed>>

Unmount ==
    /\ CanCancel
    /\ CleanUp
    /\ mounted' = FALSE
    /\ UNCHANGED <<lastSent, state, props, react, history>>

-----------------------------------------------------------------------------
(* The host, React's commits, and the passive effects of a commit. *)

HostPrompts(p) ==
    /\ CanCall(p) /\ prompt = None
    /\ prompt' = p
    /\ UNCHANGED <<refs, lastSent, state, queueing, react, req, history>>

HostSwitchesQueue ==
    /\ mounted /\ Calm /\ generation < MaxGenerations
    /\ queueing' = ~queueing
    /\ UNCHANGED <<refs, lastSent, state, prompt, react, req, history>>

Rendered == [streaming |-> streaming, submission |-> submission,
             session |-> session, prompt |-> prompt, queueing |-> queueing,
             switchedOff |-> view.queueing /\ ~queueing]

Commit ==
    /\ mounted /\ effects = "none"
    /\ urgent \/ view # [Rendered EXCEPT !.switchedOff = view.switchedOff]
    /\ view' = Rendered
    /\ effects' = "due"
    /\ urgent' = FALSE
    /\ UNCHANGED <<refs, lastSent, state, props, req, history>>

\* The option has become false: the slot is given up.
QueueEffect ==
    /\ mounted /\ effects = "due"
    /\ effects' = "dispatch"
    /\ IF view.switchedOff
       THEN /\ generation' = generation + 1
            /\ interactiveActive' = FALSE
            /\ queued' = None
            /\ submission' = "idle"
       ELSE UNCHANGED <<generation, interactiveActive, queued, submission>>
    /\ UNCHANGED <<epoch, requestActive, abortRef, handoffAllowed, mounted, lastSent,
                   streaming, session, props, view, urgent, req, history>>

Waiting == ~view.streaming /\ view.submission = "queued"

\* The slot holds a message of this generation.
Deliverable == queued # None /\ queued.generation = generation

DispatchNothing ==
    /\ ~Waiting
    /\ UNCHANGED <<refs, state, req>>

\* Mutant: a refused hand-over empties the slot and leaves the controls waiting.
DispatchDropsSilently ==
    /\ Waiting
    /\ ~(Deliverable /\ handoffAllowed)
    /\ handoffAllowed' = (handoffAllowed \/ Deliverable)
    /\ interactiveActive' = FALSE
    /\ queued' = None
    /\ UNCHANGED <<epoch, requestActive, abortRef, generation, mounted, streaming,
                   submission, session, req>>

\* The slot is empty, out of date, or behind a turn that may not be committed.
DispatchDrops ==
    /\ Waiting
    /\ ~(Deliverable /\ handoffAllowed)
    /\ handoffAllowed' = (handoffAllowed \/ Deliverable)
    /\ interactiveActive' = FALSE
    /\ queued' = None
    /\ submission' = "idle"
    /\ UNCHANGED <<epoch, requestActive, abortRef, generation, mounted, streaming,
                   session, req>>

\* Mutant: the slot is left as it is when its message is sent.
DispatchKeepsSlot ==
    /\ Waiting
    /\ Deliverable /\ handoffAllowed
    /\ queued' = queued
    /\ IF Refused(TRUE)
       THEN /\ interactiveActive' = FALSE /\ submission' = "idle"
            /\ UNCHANGED <<requestActive, abortRef, streaming, req>>
       ELSE /\ submission' = "continuing"
            /\ RunMessage(queued.msg, queued.generation)
            /\ UNCHANGED interactiveActive
    /\ UNCHANGED <<epoch, handoffAllowed, generation, mounted, session>>

\* A send that is refused settles at once, and the action is gone.
DispatchSends ==
    /\ Waiting
    /\ Deliverable /\ handoffAllowed
    /\ queued' = None
    /\ IF Refused(TRUE)
       THEN /\ interactiveActive' = FALSE /\ submission' = "idle"
            /\ UNCHANGED <<requestActive, abortRef, streaming, req>>
       ELSE /\ submission' = "continuing"
            /\ RunMessage(queued.msg, queued.generation)
            /\ UNCHANGED interactiveActive
    /\ UNCHANGED <<epoch, handoffAllowed, generation, mounted, session>>

DispatchEffect ==
    /\ mounted /\ effects = "dispatch"
    /\ effects' = "prompt"
    /\ DispatchNothing \/ DispatchDrops \/ DispatchSends
    /\ UNCHANGED <<lastSent, props, view, urgent, history>>

\* The effect of pendingPrompt.  The host clears the prop when it is told that
\* the prompt has been submitted.
PromptDue == view.prompt # None /\ ~view.streaming /\ lastSent # view.prompt

PromptSends ==
    /\ PromptDue
    /\ lastSent' = view.prompt
    /\ SendMessage(view.prompt)
    /\ calls' = calls \union {view.prompt}
    /\ consumed' = consumed \union {view.prompt}
    /\ strayed' = (strayed \/ view.session \notin {None, conversation})
    /\ prompt' = None

PromptWaits ==
    /\ ~PromptDue
    /\ lastSent' = IF view.prompt = None THEN None ELSE lastSent
    /\ UNCHANGED <<refs, state, req, calls, consumed, strayed, prompt>>

PromptEffect ==
    /\ mounted /\ effects = "prompt"
    /\ effects' = "none"
    /\ PromptSends \/ PromptWaits
    /\ UNCHANGED <<queueing, view, urgent, slot, conversation>>

-----------------------------------------------------------------------------
Ends(m) == RespondError(m) \/ ReadEnd(m) \/ Breaks(m) \/ EndStale(m)

React == Commit \/ QueueEffect \/ DispatchEffect \/ PromptEffect

Next ==
    \/ \E m \in Typed: Send(m)
    \/ \E m \in Actions: SendInteractive(m)
    \/ \E p \in Prompts: HostPrompts(p)
    \/ \E m \in Msgs: Respond(m) \/ ReadDone(m) \/ Ends(m)
    \/ Stop \/ Clear \/ Unmount \/ HostSwitchesQueue
    \/ React

Spec == Init /\ [][Next]_vars

\* React commits and runs effects; requests end, for the server bounds its
\* turns and the browser its connections.
FairSpec == Spec /\ WF_vars(React) /\ WF_vars(\E m \in Msgs: Ends(m))

-----------------------------------------------------------------------------
(* Properties *)

RunningMsg == IF \E m \in Msgs: Live(m) /\ Current(m)
              THEN CHOOSE m \in Msgs: Live(m) /\ Current(m)
              ELSE None

Sub == INSTANCE Submissions WITH
         running <- RunningMsg,
         waiting <- IF queued = None THEN None ELSE queued.msg,
         taken   <- slot \union {m \in Msgs : req[m].phase # "new"}

\* However clicks, typed lines, prompts, stops and the queue switch fall between
\* two commits, the panel runs one request at a time, sends every submission at
\* most once, and lets nothing overtake the queued one.
ImplementsSubmissions == Sub!Spec

\* The refs agree with the requests: requestActiveRef is set exactly while a
\* current request lives, and whatever else is still open has been aborted, so
\* the server is told to give its turn up.
NoOrphan ==
    /\ mounted => (requestActive <=> \E m \in Msgs: Live(m) /\ Current(m))
    /\ \A m \in Msgs: Live(m) => IF Current(m) THEN abortRef = m ELSE req[m].aborted

\* After a clear the session of an earlier conversation does not come back,
\* whatever a stream or a late done still brings.  The one way back is a host
\* prompt whose effect was already due when Clear was clicked: it is sent with
\* the session of the last commit.
ClearIsFinal == session \in {None, conversation} \/ strayed

\* A queued action leaves the slot by being sent, by a stop, a clear or the
\* queue being switched off, or because the turn before it ended without done:
\* it is never lost to another send that came first.
QueuedIsNotLost ==
    [][\A m \in Actions:
         queued # None /\ queued.msg = m /\ queued' = None =>
           \/ req'[m].phase = "open"
           \/ generation' # generation
           \/ ~handoffAllowed]_vars

\* A request carries the session the panel has when it is sent, not the one of
\* the last commit: the turn after a done continues its session.
SentWithSession ==
    [][\A m \in Typed \union Actions: req[m].phase = "new" /\ req'[m].phase = "open"
         => req'[m].sent = session]_vars

\* The controls that wait for a queued or running action are released again.
ActionsSettle == submission # "idle" ~> submission = "idle" \/ ~mounted

=============================================================================
