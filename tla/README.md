# A verification project for netapp-chat-service

TLA+ models of the chat service and of the chat panel it is used through, checked
with TLC, and their safety properties proved with TLAPS for every value of the
constants. Every definition is translated from the source; the
lines are in `PROJECT.json` (`map`), and the places where the code does other than
what a comment or a document says are in `findings` and in section 6.

## 1. The system

The service is one Go process. A browser posts a chat message; the handler streams
server-sent events while an agent loop talks to an LLM provider and, through a
router, to MCP servers that run the tools. In the browser a React component, the
chat panel, reads that stream into a transcript, dialogs and canvas tabs; an app
shell puts it next to the pages of a host application.

| Component | State | Operations | Shared with |
|---|---|---|---|
| Session, Manager (`session/`) | ID -> session object; per object history, `turnActive`, `turnClosed`, a wait channel | GetOrCreate, DeleteContext, AcquireTurn, ReleaseTurn, Close, AddMessage | all requests of one ID |
| Chat handlers (`server/`) | `activeContexts`: ID -> cancel function; `pendingApprovals` | message, delete, stop, approve, deny, capabilities | all requests |
| Agent loop (`agent/agent.go`) | messages, pending tool calls, retry and iteration counters, loaded interests and groups | Run | one goroutine per turn, one per tool call |
| MCP router, discovery (`mcpclient/`) | connections, tool index | Connect, Disconnect, CallTool, ConnectAll, reconcile | all turns, the discovery goroutine |
| Fence interceptor (`agent/canvas.go`) | held text, whether in a fence, last content per tab | HandleToken, Flush | one run of the loop |
| Tool budget, capabilities, interests, providers, configuration | lists, files | see section 7 | - |
| Panel requests (`useChatPanel.ts`, `ChatPanel.tsx`) | refs: epoch, active flag, controller, one-slot queue; state: streaming, session | send, submit an action, stop, clear, prompt, unmount | the server; effects and clicks of the panel |
| Transcript and dialogs (`useChatPanel.ts`) | messages, approval queue | the events of a turn, approve, deny | the stream, the answers on their way |
| Canvas tabs (`useChatPanel.ts`, `CanvasPanel.tsx`) | tabs, active tab, handoffs and inline canvases in the transcript | canvas_open, host handle, close, focus, evict | engine, host, user |
| App shell (`ChatAppShell.tsx`) | opened destination, mobile region, menu drawer | openNav, address effect, publish, resize, handoff | canvas tabs, host |
| Chart detector (`inlineChartDetector.ts`) | none: a function of the text so far | wrap, repair, hide | the stream |
| Payloads (`charts/chartTypes.ts`) | none: a function of a JSON value | infer, normalise strictly or defensively | canvas, renderers |
| Form and mode (`ActionFormBlock.tsx`, `useChatPanel.ts`) | field values; mode, timer, budgets | set field, submit, set mode, tick | the panel that locks it |
| Assistant split (`assistantSplit.ts`, `ChatPanel.tsx`) | stored, dragged and rendered width, collapse, localStorage | drag, key, reset, reload | host, window |

What is hard about it:

- in the service: requests of one session that wait for each other while they are
  cancelled, stopped and deleted; approvals that race timeouts and each other; tool
  calls that repair the same stale connection while discovery works on the table;
  provider streams that fail after they have yielded something;
- in the panel: callbacks that see the state of the last commit while refs are
  ahead of it; effects that run late; streams that outlive their stop; answers to
  dialogs that return after their turn; four parties that steer one canvas tab; text
  that is parsed before it is complete.

`hazards` in `PROJECT.json` lists all this at its lines, with the properties that
cover each one or the reason why none does.

## 2. The modules

| Module | What it is |
|---|---|
| `SessionWindow` | the history window, exact, as operators |
| `ChatSessions` | session manager, sessions, turns, and the message, delete and stop handlers |
| `Conversations` | what that layer promises: one sequential conversation per ID |
| `ToolApproval` | a batch of tool calls, approvals, their answers and timeouts |
| `McpRouter` | the router's table and index, `CallTool`, `ConnectAll`, discovery |
| `AgentLoop` | the turns of a session: rounds, batches, corrections, summary, what is committed |
| `ChatPanel` | the panel's requests: refs and rendered state, queue, effects, replies |
| `Submissions` | what that promises: one request at a time, one submission waiting, each sent at most once |
| `TurnView` | transcript, tool cards and dialogs over the events of whole turns |
| `CanvasTabs` | tabs, focus, eviction, handoffs, inline canvases, summaries, and when React renders them; with `TabsSpec`, a panel of its own |
| `AppShell` | the shell around them; EXTENDS `CanvasTabs` and composes it with address, pages and regions |
| `CanvasFences` | the fence interceptor of the service, over the streams of a run |
| `InlineCharts`, `CanvasPayload`, `ActionForm`, `AssistantSplit` | four parts of the panel that share no state |
| `Texts` | what they say alike of sequences: a first place, the items that are kept |
| `MCAppShell` | the panel alone and the whole shell, each behaviour one of the two |
| `MCWidgets` | `TurnView`, `CanvasFences` and these four side by side, each behaviour one of one part |
| `MC...` | constants and symmetries for TLC |
| `ChatSessionsProofs`, `ToolApprovalProofs`, `AgentLoopProofs`, `McpRouterProofs` | the theorems about the service |
| `ChatPanelProofs`, `TurnViewProofs`, `AppShellProofs`, `WidgetsProofs` | the theorems about the panel; the last one covers `CanvasPayload`, `ActionForm`, `AssistantSplit`, `InlineCharts` and, of the service, `CanvasFences` |

Operators commented "Mutant" are plausible mistakes. Each stands before the
definition it is a mistake of, no specification uses it, and putting it in that
definition's place must violate the property `PROJECT.json` names.

### The service

**ChatSessions.** `sessions`, `turnActive`, `turnClosed`, `messages` and
`activeContexts` are the fields of the same names; `pc`, `id`, `sess`, `cancelled`
the locals of each request's goroutine, `reply` what a delete has answered. A step
is one critical section or one branch of a select. The wait channel is not a
variable: it exists exactly while somebody waits, and closing it moves all who wait
on the object from "waiting" to "woken" in the step that sets `turnActive := false`.
A woken goroutine whose context is cancelled too may take either branch, as Go's
select does. A session object is named after the request that allocated it. The
agent run between the two AddMessage calls is one pc ("running"); it is
`AgentLoop`'s subject. A delete is two things in one process: the handler and,
after a cancelled wait, the background goroutine (`reply = "timeout"`).

**ToolApproval.** One process per tool call goroutine and per approve or deny
request. An approval ID is random and used once, so it is the call's own name.
`resultCh` is the channel of capacity one. The five-minute timer may fire at any
time. Capability states are those the turn copied at its start; the provider may
name any tool.

**McpRouter.** `servers` and `toolMap` are the router's maps, `open` the sessions
the SDK has not been told to close, `lost` those a restarted server no longer
knows. `Connect` holds the write lock from beginning to end and is one step;
`CallTool` is split where it releases the lock. Map iteration order is a
nondeterministic ranking. `CallTool` refuses with a stale-session error exactly if
the session is closed or lost; it may fail otherwise at any time, cancelled or for want of a
network. Connects fail as often as `MaxFaults` allows; `failed` remembers that one has.
`current`, `todo` and `drifted` are the locals of `reconcile`. A
configuration is a value; `Compared` gives what `serverConfigsEqual` reads of it, which
is everything but ForwardHeaders, so that two configurations may compare alike.

**AgentLoop.** A round is an attempt number. A text is the attempt it came from, a
tool call the attempt that yielded it and its kind; results are drawn from what that
kind may return. `outcome`, `via` and `commits` record the events that reach
runChatWithOptions and the assistant messages it adds. `settledAlive`, `everLoaded` and
`loadedBefore` (an earlier turn of the session has loaded the interest) are memories the
code does not keep, for properties only: the messages the server passes hold no tool
calls, so the scan of them (agent.go:511-526) finds nothing.

**CanvasFences.** `buffer`, `inside` and `lastValid` are the interceptor's fields.
Text is a sequence of symbols, backticks one by one. `Pass` is what HandleToken does up
to where it calls itself, `Settle` all its passes: one that is not the last takes four
symbols or more off the buffer, and those behind the last change nothing. A provider stream is cut into tokens, ended or
broken off anywhere; after a non-text event (`Flush`) the next round begins, after a
rate limit (`Retry`) the next text does without one. `Reading` in the properties is
an independent definition of what a text says when it is read at once. The interceptor
makes that of a text if it is `Regular`: a fence opens at the start of a line, has
nothing else on its opening line and something in it, and no object detail opens within
the token of a dashboard before it. None of the four can be dropped (section 5); the
answers of the run are regular and not.

### The panel

**ChatPanel.** JavaScript runs one callback at a time, so a step is one callback up
to its next await. The variables of `refs` are the refs of the hook and change at
once; `streaming`, `submission` and `session` are React state, and `view` is what the
last commit showed of it, which is what a callback sees. `Commit` publishes the
state; after it the passive effects run in the order of their declaration, at some
time before the next commit (`effects`). Stop and Clear are clicks, whose updates
React commits before anything else (`urgent`). A request is `open` until its
response arrives, `reading` until its stream ends, and remembers the epoch and
generation it captured. `Respond`, `ReadDone`, `ReadEnd` and `Breaks` come at any
time, also for requests that were aborted.

**TurnView.** Exactly one stream is read at a time, which `ChatPanel` shows, so
there is one `turn`. The server's half is the order in which agent.Run emits: text,
`text_clear`, approvals in any order from the parallel goroutines, then the buffered
events of each call in the provider's order. A click on Confirm or Cancel is a
`post` that is handled and that returns later; its return removes the head of the
queue, whatever that is by then. `rushed` remembers that a dialog was answered twice
or that an answer outlived its turn.

**CanvasTabs.** `tabs`, `active` and the handoff messages are the hook's. React applies
the updates of an event stream some time later, several events at once: the updaters of
the list in their order, and so the ids that setActiveCanvasTab is called with; but
closeCanvasTab calls it from inside the updater of setCanvasTabs (useChatPanel.ts:605-613),
which runs while the panel renders, so that this update comes after those of all
events that are rendered with it, later openings included. `tabs` and `active` are what
the events handled so far make of them, `refocus` what the deferred updates will make of
each value of the active tab, `pending` that something is not rendered yet. React runs an
updater at once, as it is handed over, only if no update waits (`CloseTab` has both). A
click acts on the panel as it was rendered last (`screen`) and is rendered with all that
waits before the next event (`AtOnce`). On a narrow legacy viewport a canvas becomes part
of the answer: `bubble` is the one `canvasTabId` of the message that is being written,
`inlined` those of the messages before it. `evicted`, `replaced` and `crossed` are
history: handoffs whose tab was evicted or whose id in a bubble another canvas has taken,
and that the tab focused last had been closed since the last render. The handle's
focusCanvasTab and closeCanvasTab (ChatPanel.tsx:324-332), which take any id, are not
actions: ChatAppShell keeps the handle for itself and calls neither.

**AppShell** adds the destination the shell believes open, the host's address with its
pending effect (`urlDue`), a page that loads what it will publish (`loading`), and the
mobile region with the handoff's override (`regionDue`). `PublishSummary` stores what it
is given, whatever page the reserved tab shows by then, as the code does. Passive effects
run before the user's next event (`Settled`); the engine, the host and its pages do not
wait for them. The panel is one instance in all layouts. An engine canvas that uses the
reserved id occurs here only.

**InlineCharts.** An answer is a sequence of tokens: braces, fences with and without
a chart tag, backticks, quotes, members and words. The operators follow the
detector's walks: fence-aware extraction, reassembly, processing of the segments
between fences, retagging, and hiding what is incomplete. A walk is given by what it
writes at each position and where it goes on (`Walk`, `Writes`): the loops of the code
that push a part and move their index.

**CanvasPayload.** A panel is its type and, for each member, the kind of value it
has. `NormalizePanel` is normalizePanelValue in its two modes, and `Rules`
inferChartType in its order. `NormalizeCanvasContent` is the strict reading at the
door of the canvas, `Render` the defensive one of the blocks.

**ActionForm.** `values` with the reconciliation of dependent selects after each
change, the submit with its three locks, and setMode with its timer. What is sent are
the fields that say something over the form's own `params`. Time is ticks; `since` is
history. Every render of the panel gives ReactMarkdown new components
(ChatPanel.tsx:1250-1304) and so mounts the forms of the transcript anew, with their
initial values, while a form in a tab is kept: `Rerender` for what changes the variables
here, `PanelChanges` for everything else that renders the panel. A submit in read-write
starts the timer again, as every message does.

**AssistantSplit.** Widths are pixels and the bounds are computed as the code
computes them, rounding included. `css` is the property React has written, `stored`
and `dragged` the hook's two widths, `persisted` what is in localStorage; a
controlled width goes to the host and comes back later (`pending`).

## 3. The runs

| Run | Instance | Shows |
|---|---|---|
| `sessions` | 2 messages, 1 delete, one chosen ID and generated ones, window 3 | exclusion, stops reach their turn only, histories alternate, `ChatSessions` implements `Conversations`; requests end, closed objects go |
| `approval` | 2 parallel calls (Ask, Ask-on-write), 1 of another turn (Off), 2 answers | approvals gate their own call, finally, and leave nothing (that each is answered once is a theorem); batches settle |
| `router` | 2 servers sharing a tool, one booted and one to be discovered, 3 configurations, two of which compare alike, 2 calls, 2 faults, failed requests at any time | no leaked session, retries are fresh, exact index until a connect fails, discovery converges as far as it compares |
| `agent` | 1 turn, 2 iterations and the summary, 1 retry, batches of 2 | one answer per turn, nothing after cancellation, the committed text is the last round's, every turn ends |
| `panel` | 1 line, 2 actions, 1 prompt, 2 submissions besides it, 1 stop or clear, 1 switch of the queue | refs and requests agree, `ChatPanel` implements `Submissions`, a clear is final, queued actions are not lost, sessions are current, controls are released |
| `shell` | room for 2 tabs and 2 pages; the panel alone with 2 engine canvases and the reserved tab, wide and narrow; the whole shell with 1 engine canvas, the mobile layout at both widths | once rendered one open tab is active, handoffs lead somewhere, eviction spares; the reserved tab is the page of the address, the region is switchable |
| `widgets` | 2 turns, 2 parallel calls of one tool then 1, 2 clicks; answers of two blocks, two of them irregular, in up to 3 streams, tokens of up to 12 symbols; answers of up to 6 of 8 tokens; every panel type with one wrong member; 2 forms; 3 sizings in 2 rows | no approval unseen, no stale dialog, no card or bubble left over; canvases and prose come out as written; text kept, charts stay, canvas shows what it checked, submits complete, read-write timed, split survives a reload |

Violations, each a disagreement with a line that `findings` quotes:

| Run | Trace |
|---|---|
| `missing_server` | a failed reconnect, then a call: nil connection |
| `card_final` | a call completes, another call of that tool is denied: its result turns the first card to failed |
| `url_opens_tab` | the user closes the reserved tab; the address leaves and returns; the tab stays closed |
| `fences` | a token of up to 24 symbols brings a dashboard fence and an object detail: the dashboard fence is emitted as text |
| `read_write` | the first state: a panel mounted in read-write, and no timer |

### Bounds, and why they suffice

- Sessions: two messages are a holder and a waiter, and with a delete in between the
  object is held, waited for, deleted and recreated. Window 3 trims in the second
  turn. The theorems remove all these bounds.
- Approval: two answers are a double, a contradicting and a crossed answer; the call
  of the other turn settles without an approval and must not touch theirs.
- Router: three configurations are one that compares like the first and one that does
  not. Two calls race for one reconnect, two servers compete for one name, two
  faults restart a server again during the repair, fail the reconnect of a restarted one, or
  remove a server that a call then connects again. `MaxFaults` only bounds how often
  the outside world acts. The run starts from one deployment (`MCInit`), the theorems from any.
- Agent: two iterations and the summary have a first, a repeated and a last round;
  `MaxRetries` 1 (the code has 2) a retried and an exhausted attempt.
- Panel: `MaxCalls` 2 submissions are a running and a queued one, with the prompt as
  a third that competes for the moment between them; `MaxEpochs` and
  `MaxGenerations` bound stops, clears and switches. The theorems remove all three.
- Turn: two calls of one tool make results ambiguous, the second turn receives what
  the first has left. `MaxText` 1 tells an empty bubble from a filled one.
- Tabs and shell: room for two tabs makes the third one evict, and with the reserved tab
  open there is exactly one that may go. Two engine canvases are a closed and an opened
  one, or two of one answer: these are the panel alone, in which a page is what the shell
  remembers of it. In the whole shell one canvas is enough, for its properties
  concern the reserved tab; two pages are the old and the new one. Nothing bounds how
  many events wait for a render.
- Fences: two blocks put prose, a new, a rejected or a plain fence before a repeated
  canvas, an update of its tab or a plain fence; two more answers have an empty fence and
  one behind other text. A token of 12 symbols can close one fence and open the next; one
  of 24, in `fences`, can open two. Three streams are an attempt, its
  retry and the round after them.
- Widgets: six tokens hold an object with a structured member in a fence and text
  after it, or two unclosed things. `MaxEdits` 1 with 15 members and 9 kinds reaches
  every single mistake of every type, next to a good panel. `MODE_TIMEOUT` 3 has a
  first, a middle and a last tick. The forms have a chain of three dependent selects
  with and without automatic selection. The sizings are a percentage, pixels and none,
  in rows where minimum and percentage bounds do and do not contradict each other.
- The symmetry sets permute values that no definition tells apart, in safety runs only.
- `CHECK_DEADLOCK FALSE` where all requests of the instance may have been served, the
  bounds are used up, or a panic has ended the process.

### Fairness

Weak fairness of each goroutine's own steps: the Go scheduler runs what is runnable.
For `AgentLoop` and the "running" pc of `ChatSessions` this includes that a provider's
stream and a tool call end; both carry contexts and clients of their own, and the loop
above them is bounded, which `agent` checks (`TurnsEnd`). For `ToolApproval` it
includes the timer. The ticker of `RunDiscovery` ticks for ever. For `ChatPanel` it is
fairness of React, which commits and runs effects, and of streams, which end
(`Ends`). Nothing is assumed of users, hosts, clients, networks or servers.

## 4. The proofs

**ChatSessionsProofs**, for any requests and IDs and any window limit, from
`ChatSessionsAssumption` alone. The safety properties are not inductive as they stand.
That a turn runs on the object the manager hands out needs that an object that has left
the manager is closed and idle; that needs that a closer past its wait has seen the turn
end; that needs that whoever waits has seen an active turn. `IInv` has these layers as
named parts: `TypeOK`, `Naming` (objects and IDs belong together for ever), `Turns`,
`Registration`, `RunningIsStoppable`, `Replies`, `RolesAlternate`. From it follow
`TurnsNeverOverlap`, `NoWakeupIsLost`, `TurnsUseLiveObjects`, `StopTargetsHolder`,
`DeletesForget`, `HistoriesAlternate`, and `Refinement`: every step is a step of one
conversation or a stutter. `HistoriesAlternate` and `Refinement` rest on
`AddMessageDropsOldest`: a history without system messages keeps its newest messages.

**ToolApprovalProofs**, for any turns, calls, answers and capability states, from
`ToolApprovalAssumption`. `ExecutesOnlyApproved` says nothing of how an answer travels,
so its `IInv` follows it: an entry of the map has no answer yet (`Unanswered`), an
answer that took the entry is the only one (`AtMostOneAnswer`), what is in the channel
is that answer, and while it travels the call has not started (`Channel`); then a call
past its gate has an accepted approve (`Gate`).

**ChatPanelProofs**, for any messages, epochs and generations, from
`ChatPanelAssumption`, in two layers.

- `IInv` relates refs and requests: what a request captured is never newer than the
  refs (`Past`); a request that is not current has been aborted (`NoOrphan`);
  messages are sent only once submitted (`Submitted`); `interactiveActiveRef` is held
  by the queued or by the running action, never by both (`Claimed`); a commit that
  shows a queued action hands over that very action, or a click has emptied the slot
  (`HandOver`). `Inductive`, `TypeCorrect` and `NoRequestIsOrphaned` are read off, and
  `Refinement` maps each callback to a step of `Submissions` or a stutter: the
  running request is the one `abortRef` holds.
- `ShownInv` relates what React shows to what is set, and is preserved given `IInv`:
  an idle panel shows its idleness (`Shown`) and its session (`SessionShown`), the
  next to be sent after a turn is the slot (`SlotIsNext`), and live requests belong to
  the present conversation (`OwnConversation`). `ClearsAreFinal`,
  `QueuedSubmissionsSurvive` and `SentWithCurrentSession` follow from both.

**AgentLoopProofs**, for any caps on iterations, retries, batches and turns, any kinds
of tools, with and without in-band routing. A text is accepted at the end of a round,
by a step that sees only what the rounds have left behind, so `IInv` says what each pc
leaves: below the cap inside the loop (`InLoop`), nothing told and nothing committed
before the return (`Open`), a context that was alive when the last stream or tool
settled unless `cancelled` says otherwise (`Alive`), and only words of the round under
way outside of tool results (`Round`).

**McpRouterProofs**, for any finite set of servers and any tools, calls, configurations
and faults, at every critical section of `Router.mu`. `IInv`: no two servers share a
session (`Table`); a call past its first attempt knows its server and a connection no
younger than what the server has now (`CallLocals`); the open sessions are those of the
table (`NoSessionLeak`); and, until a connect has failed, the index
is exact at every step (`Reliable`). `SessionsAreNotLeaked` and `RetriesAreFresh` hold
whatever fails; `IndexFollowsTable` and `PanicTakesAFailedConnect` until a connect does,
and the run `missing_server` shows what happens then.

**TurnViewProofs**, for any batches, any number of clicks and any text, from
`TurnViewAssumption`; that a call is made once is randomID (server.go:470). Results
name the tool and not the call, so that `TurnsEndClean` needs to know where an executing
card can be: last in the transcript, while its result is the next event (`Cards`); the
dialogs need that an answer on its way is the answer to the head of the queue, unless
somebody clicked twice (`Dialogs`). `Phases`, `Future` and `Bubbles` complete `IInv`.

**AppShellProofs**, for `CanvasTabs` and the shell around it, for any ids, pages and
limit of tabs. `PanelInv` is the panel's own: one tab per id; the focus as rendering will
leave it, `refocus[active]`, is on an open tab if there is one, unless the tab focused
last had been closed (`Focusing`); one handoff per tab, which leads somewhere (`Handing`).
It is inductive because every closing keeps all the focuses that a render may still find,
not only the present one (`MovesFacts`). The steps of the shell are steps of the panel or
leave it alone, so that `OneTabIsShown`, `HandoffsLeadSomewhere` and `EvictionsSpare` hold
for `TabsSpec` and for `Spec`. `IInv` adds that the host's tab has the page the shell
remembers (`HostPage`), that page the address once the effect has run (`Address`), and the
override the region (`RegionOverride`).

**WidgetsProofs**, for five parts that share no state.

- The mode: at most one timer, that of the last switch to read-write or of the last
  message sent in it.
- The form, for any forms and however often it is mounted anew. The values always fit: each select has an option that the
  others allow, or none (`Fits`). One pass of `ReconcileSelectValues` suffices because
  options depend on earlier fields (packages/chat-component/CHANGELOG.md:67-68 promises
  no other); `ActionFormAssumption` says so, with distinct keys, no blanks around the
  values of options, and no option that asks for a checkbox to be off, which is sent as
  nothing. An option that depends on a later field would break `SubmittedComplete`.
- The split, for any rows and bounds. What is on screen is what is stored, or what the
  host passed or was asked to pass (`FreeSplit`, `HeldSplit`); a clamped width is never
  0, which the code and the model take for null (`ClampedIsAWidth`), for which
  `AssistantSplitAssumption` excludes rows under 4 pixels and a maximum of 0.
- The payloads, for any number of wrong members, panels and sections. A panel without
  an error reads the same strictly and defensively, and what is read is `Readable`: it
  reads as itself from then on. The lemmas lift that to sections, whose embedded panels
  may gain an empty title, and to lists, from which nothing more is dropped.
- The charts of an answer, for any tokens and any length. Each walk of the detector
  keeps the words of a text if each of its steps writes the words of what it passes over
  and goes on (`WalkKeeps`); the lemmas show that for the steps of reassembly
  (`ReassembleKeeps`, which drops fences only), of the segments between fences
  (`SegmentKeeps`, which drops backticks only) and of the retagging (`RetagKeeps`), and
  `WrapKeeps` for the walk from fence to fence that calls them.
- `ChartsStay` compares what two answers that differ in their last token are made into.
  The claim carried through the detector is that one token more appends itself or
  changes nothing (`On`): the scan of an object that ends is the same in the longer text
  (`EndOn`), two walks whose steps agree up to the last one end alike (`WalkOn`), and
  so do reassembly (`ReassembleOn`), a segment (`SegmentOn`) and the walk from fence to
  fence (`WrappedOn`). That no object is open must survive every level. Whether one is
  open is decided by the scans that have not come to an end (`Pending`), those by
  the words of the text alone (`PendingOfWords`), and the words every level keeps
  (`CompleteWords`). The fences of what is written pair up (`WrappedPairs`), so that
  nothing is cut off before or after the token (`NothingCut`, `NothingCutOn`), and a
  text that only grows at its end keeps its charts (`ChartsOn`).
- The canvas fences, for any answers, payloads and streams and any bound on a token;
  `FencesAssumption` has nothing but their types. What is carried through a round is
  claimed if its text is `Regular` (`FollowsAnswer`), and holds again from the first token
  of the next round on, for nothing is held between rounds (`HoldsNothing`).
  `EmitsWhatWasWritten` speaks of the end of a text only;
  what a token leaves behind is said by `Follows`: what has been written, and what is
  said from some position p on, is what the whole says, for every text that may still
  follow (`Written`), and the buffer holds the text from p on (`Outside`) or what stands
  behind the opening at p (`Within`). That the answer may go on in any way is what makes
  it inductive: no prose may be let go that a later token could turn into a fence.
  `Settled` adds that nothing more can be made of what is held, so that an opening or a
  closing found with the next token ends in that token. `Pass` preserves `Follows` in
  each of its cases (`PassCloses`, `PassOpens`, `PassEmits`); that the text is regular
  enters where an opening is found, which must be the first of the text held
  (`OneOpening`); and `CutOpening` shows that PartialMatch holds every piece of an
  opening back. After as many passes as `Settle` takes nothing can be made of the rest
  (`SettleFollows`), and `Flush` writes what is left outside of a fence
  (`FlushedSays`). What the recursive `Readings` say at a position is a lemma about the
  text behind it (`ReadingsAre`), and that the words of a part are a part of the words
  one about `Without` (`WithoutOfBoth`), which the charts and the payloads use too.

Each preservation proof has one step per action, and lemmas for the parts the actions
share (`RunMessage`, `CancelCurrentRequest`, the effects). What a recursive function
computes is proved without an induction rule over operators: the numbers for which a
claim holds are a set (`Induction`, from `WFMin` and the well-foundedness of the natural
numbers), and that the function exists is such a claim too (`TakingExists`,
`ReconcilingExists`, `GoingExists`, `ReadExists`, `PassingExists`).

Only model-checked:

- all liveness (`RequestsEnd`, `ClosedIsRemoved`, `BatchesSettle`, `Converges`,
  `TurnsEnd`, `ActionsSettle`): fairness and ENABLED are beyond the prover.

## 5. What the properties leave open on purpose

- `NoApprovalSkipped` excepts a dialog answered twice, and an answer that returns in a
  later turn (`rushed`): then the head of the queue that is removed is another call's.
- `NoStaleDialog` speaks of turns that were done or stopped. After a connection error
  or an end without `done` the dialog stays until it is answered.
- `TurnsEndClean` speaks of turns that ended with done or an error; a stream that ends
  without either leaves its bubble "..." and its cards executing.
- `ClearIsFinal` excepts a host prompt whose effect was already due when Clear was
  clicked: it is sent with the session of the last commit (`strayed`).
- `QueuedIsNotLost` allows the loss the code intends: stop, clear, unmount, queue
  switched off, a turn without done.
- `ReadWriteIsTimed` excepts the read-write a panel is mounted with, which has no timer
  until the first message or switch; `ReadWriteIsActivated` of the run `read_write` is what
  the architecture document says of it.
- `OneOpenTabIsActive` says nothing between an event and its render, nor if the tab
  focused last had been closed since the panel was rendered (`crossed`): section 6 says
  what becomes of it.
- `HandoffsLead` excepts a tab that was evicted, and a canvas whose answer carries the id
  of a later one (`replaced`, section 6).
- `SubmittedComplete` excepts required checkboxes: one that was switched on and off
  holds "false", counts as filled and is not sent. Of selects it says nothing if the form's
  own `params` have the key of a field: what they give for a field that says nothing need
  not be an option.
- `SplitSurvivesReload` excepts a drag whose handle went away, and a controlled split
  that was reset to a percentage: removing the CSS property leaves it unset until the
  host passes another width. Restored widths are not clamped to the row by the code;
  the style sheet's pixel limits are what is left.
- `EmitsWhatWasWritten` leaves line breaks out, and rounds that were retried: the text
  of the new attempt is read behind what the interceptor still holds of the old one. It
  speaks of rounds whose text is `Regular`; in four kinds of others TLC finds it violated.
  A fence behind other text of its line is prose if a token brings that text and ends
  in its backticks, and a canvas otherwise (canvas.go:531). The rest of the opening line
  is skipped if the
  token brings the line break, and content if it does not (canvas.go:97-101). A fence
  that closes on the next line is not closed if one token brings the opening and the
  line break, for the break is then gone (canvas.go:98). Of two fences that open in one
  token, a dashboard before an object detail is prose, for the prefixes are tried one
  after the other (canvas.go:86-92): the run `fences` has it.
- `ShownChartStays` speaks of answers that have left no fence open once repaired, and
  no object wherever one is taken to begin (`Complete`): inside, a nested chart may show
  and vanish as its surroundings arrive, and nothing is said of the charts before a block
  that is still on its way. That `Unclosed` finds nothing would not be
  enough: it goes on behind each object it passes and misses a brace within a string of
  one. An answer beyond the six tokens of the run violates that condition, as TLC
  confirms: `{q{q}qD{k}FD{k}F` and then `}` (q a quote, D a chart fence, F its end, k
  the key of a chart). The first object ends at the first closing brace outside its
  string; reassembly, which tries every brace, takes the one within the string for the
  beginning of an object that the last token ends, drops the fences in it, and two
  charts become one.

## 6. Disagreements described, not run

Five have a property in the model, which TLC refutes in seconds when it is checked:

- `ConfigsTakeEffect` (`McpRouter`, under `FairSpec`, with v1 and v2 of `MCMcpRouter`).
  discovery.go:217-218 says "Connect newly discovered servers and reconnect any whose config
  has drifted" and docs/chatbot-design-spec.md:810 that "`reconcile()` detects config drift
  on existing servers and reconnects them". serverConfigsEqual (discovery.go:249-265) does not
  compare ForwardHeaders, which Connect (router.go:126-133) uses: a server deployed anew with
  others keeps the connection with the old ones for as long as it stays connected.
- `FollowUpsAreEnforced` (`AgentLoop`, two turns). agent.go:511-514 says "Pre-scan message
  history for interests loaded in previous turns so RequiredAfterInterest enforcement works on
  follow-up messages", and agent_test.go:1656-1660 tests it with a history of tool calls. The
  server passes the messages of the session (server.go:1088), which has none (server.go:949,
  1173, 1194): a follow-up is answered without the tool the interest requires.
- `OpenedTabIsFocused` (`CanvasTabs`, `TabsSpec`). docs/agentic-forward-seams.md:155-156 says
  "Re-opening the same `tabId` replaces the tab's identity and refocuses it". When one chunk of
  events closes a canvas and opens it again, the update of the closing is applied last
  (section 2): the tab is in the list and not on screen.
- `HandoffsFindTheirCanvas` (`CanvasTabs`, `TabsSpec`). UserGuide.md:168-170 of chat-component
  says that a handoff "focuses/reveals the existing destination when activated". An inlined
  canvas is found by the one canvasTabId of its message (ChatPanel.tsx:522-530), which a second
  canvas of the batch (agent.go:905-918) overwrites (useChatPanel.ts:1080): the first handoff
  finds nothing although its canvas is in the transcript.
- `SummaryIsOfThePage` (`AppShell`, two pages). ChatAppShell.tsx:65-67 says "Publish (or
  clear→identity) the C5 context summary for the current nav tab so the assistant can answer
  questions about what's on screen". publishSummary (ChatAppShell.tsx:504-516) gives what it
  gets to the reserved tab, whichever page that shows by then.

The others are read off the code:

- A stop or a delete served between AcquireTurn (server.go:455) and
  activeContexts.Store (server.go:466) finds nothing to cancel; CHANGELOG.md:44 says
  stop and delete "target the acquired active turn".
- Two calls of a batch that find one session stale both reconnect; the second closes
  the session the first has opened for its only retry (router.go:263), where
  router.go:233-236 calls the reconnect transparent.
- The summary path never looks at the context (agent.go:1011-1056): cancelled after
  the last tool round, a turn can still emit done; CHANGELOG.md:42-43 is about the
  path before it.
- A retried attempt keeps the tool calls of the attempt it replaces (agent.go:544,
  600), so a batch can mix two responses.
- Between the timeout winning the select (server.go:496) and its Delete an approve is
  answered 200 although its call will be denied.
- The loop tests Ask and Ask-on-write when it executes a call (agent.go:789), never
  Off, where docs/chatbot-design-spec.md:218 says "block + tell LLM".
- The line breaks after a canvas fence are discarded if they are in the buffer with
  it (canvas.go:72), not if they come in the next token: they are emitted, and the
  panel, which removes only messages whose content is '' (useChatPanel.ts:1011-1013),
  keeps a message without a word, where canvas.go:70-71 speaks of line breaks
  discarded "so a successful canvas does not create an empty chat message".
- A canvas fence that is closed right after its opening line is seen as closed only
  if a token ends before the line break of that line (canvas.go:96-106); otherwise the
  line break is gone, and the text up to the end of the next fence is swallowed.
- The stop request of the panel is not ordered with its next message
  (useChatPanel.ts:1136), and before the first done there is no session to stop.

## 7. Not modelled

- Tool filtering and budget, interest catalog, render helpers, configuration,
  routing evaluation: sequential computations on lists and files, without shared
  state beyond what the notes of `components` say.
- The service's payload validation: its counterpart in the panel is modelled.
- Provider adapters: the translation of SDK events. The loop sees what ChatStream may
  yield.
- Capability calls of the panel, the drawer's own width, the navigation drawer
  (navOpen and navMode, which show or hide the menu and nothing else), updateHostCanvasTab,
  and the controlled variants of navOpen and mobileRegion, which hand the decision to the
  host.
- Rendering: charts, tables, traces, styles, focus and scrolling; downsampling,
  optional decorations and field aliases of panels. Items without a type are inferred by
  their first one in the code (chartTypes.ts:1005-1013); here they are all of one kind.
- The panel and the server in one state space. They meet in the order of events
  (`TurnView` has both halves) and in a stop that may come at any time, which both
  sides model as a free action.
