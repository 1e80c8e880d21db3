----------------------------- MODULE CanvasTabs -----------------------------
(***************************************************************************)
(* The canvas tabs of a chat panel: opened by the engine's canvas_open     *)
(* events and by the host, at most MaxTabs of them unless they may not be  *)
(* evicted, with a handoff in the transcript for each interactive one, and *)
(* summarised for the model with every message.                            *)
(*                                                                         *)
(* React renders a panel some time after the engine's events, several of   *)
(* them at once if they came together.  The updates of the list of tabs    *)
(* are applied in their order, and so are the ids the active tab is set    *)
(* to; but closing a tab updates the active one from inside the list's     *)
(* updater, and what an updater asks for while the panel renders comes     *)
(* after everything else.  tabs and active are what the events handled so  *)
(* far make of them, refocus is what the closings among them will make of  *)
(* the active tab.  A user's event acts on the panel as it was rendered    *)
(* last, and renders it.                                                   *)
(***************************************************************************)
EXTENDS Naturals, Sequences, SequencesExt

CONSTANTS Ids,        \* tab_ids of engine canvases
          Nav,        \* the tab_id the shell reserves
          Pages,      \* what a host tab shows
          MaxTabs,    \* MAX_CANVAS_TABS
          None

TabIds == Ids \cup {Nav}

ASSUME CanvasTabsAssumption ==
    /\ Nav \notin Ids
    /\ None \notin TabIds \cup Pages
    /\ MaxTabs \in Nat \ {0}

VARIABLES tabs,      \* canvasTabs
          active,    \* activeCanvasTab
          refocus,   \* what rendering will make of each value of active
          pending,   \* the panel has not rendered what was handled last
          screen,    \* what it rendered last
          handoffs,  \* the handoff messages of the transcript
          bubble,    \* canvasTabId of the answer that is being written
          inlined,   \* canvasTabId of the answers before it
          evicted,   \* history: handoffs whose tab was evicted since
          replaced,  \* history: handoffs whose id another one replaced in
                     \* a bubble since
          crossed    \* history: the tab last focused had been closed, or
                     \* evicted, after the panel was last rendered

focusVars == <<active, refocus, pending, screen, crossed>>
bubbleVars == <<bubble, inlined, replaced>>
tabVars == <<tabs, focusVars, handoffs, bubbleVars, evicted>>

Kinds == {"form", "results"}

\* A tab of the host has a page, and tells the model which one it is about.
Tab == [id : TabIds, host : BOOLEAN, evictable : BOOLEAN,
        page : Pages \cup {None}, summary : Pages \cup {None}]

Handoff == [tab : TabIds, kind : Kinds]

Focus == TabIds \cup {None}

TabsTypeOK ==
    /\ tabs \in Seq(Tab)
    /\ active \in Focus /\ refocus \in [Focus -> Focus]
    /\ {pending, crossed} \subseteq BOOLEAN
    /\ screen \in [tabs : SUBSET TabIds, handoffs : SUBSET TabIds]
    /\ handoffs \in Seq(Handoff)
    /\ bubble \in Focus
    /\ inlined \subseteq TabIds
    /\ evicted \subseteq TabIds /\ replaced \subseteq TabIds

Open == {tabs[i].id : i \in DOMAIN tabs}

IndexOf(id) == CHOOSE i \in DOMAIN tabs : tabs[i].id = id

Kept == [t \in Focus |-> t]

HandedOff == {handoffs[i].tab : i \in DOMAIN handoffs}

Screen == [tabs |-> Open, handoffs |-> HandedOff]

TabsInit ==
    /\ tabs = <<>> /\ active = None
    /\ refocus = Kept /\ pending = FALSE
    /\ handoffs = <<>>
    /\ screen = Screen
    /\ bubble = None /\ inlined = {}
    /\ evicted = {} /\ replaced = {} /\ crossed = FALSE

-----------------------------------------------------------------------------
(* Rendering *)

Later == pending' = TRUE /\ UNCHANGED screen

AtOnce == pending' = FALSE /\ refocus' = Kept /\ screen' = Screen'

Render ==
    /\ pending
    /\ active' = refocus[active]
    /\ UNCHANGED <<tabs, handoffs, bubbleVars, evicted, crossed>>
    /\ AtOnce

\* setActiveCanvasTab
Focused(id) == crossed' = (id \notin Open' \/ refocus[id] # id)

-----------------------------------------------------------------------------
(* addOrFocusCanvasTab *)

Evictable == {i \in DOMAIN tabs : tabs[i].evictable}

\* Mutant: the oldest tab goes, whatever it is.
OldestTab == IF tabs = <<>> THEN 0 ELSE 1

\* The oldest tab that may be evicted, or 0.
Victim ==
    IF Evictable = {} THEN 0
    ELSE CHOOSE i \in Evictable : \A j \in Evictable : i <= j

AddOrFocus(tab) ==
    /\ tabs' = IF tab.id \in Open THEN [tabs EXCEPT ![IndexOf(tab.id)] = tab]
               ELSE LET v == IF Len(tabs) >= MaxTabs THEN Victim ELSE 0 IN
                    Append(IF v = 0 THEN tabs ELSE RemoveAt(tabs, v), tab)
    /\ active' = tab.id /\ Focused(tab.id)
    /\ evicted' = (evicted \cup (Open \ Open')) \cap (HandedOff' \ {tab.id})
    /\ replaced' = replaced \cap (HandedOff' \ {tab.id})
    /\ Later /\ UNCHANGED refocus

-----------------------------------------------------------------------------
(* Handoffs: reconcileInteractiveHandoff *)

HandoffsOf(id) == {i \in DOMAIN handoffs : handoffs[i].tab = id}

\* kind is None when the canvas is not interactive, or its tab is closed.
Reconciled(id, kind) ==
    CASE kind = None /\ HandoffsOf(id) = {}  -> handoffs
      [] kind = None /\ HandoffsOf(id) # {}  ->
            RemoveAt(handoffs, CHOOSE i \in HandoffsOf(id) : \A j \in HandoffsOf(id) : i <= j)
      [] kind # None /\ HandoffsOf(id) = {}  -> Append(handoffs, [tab |-> id, kind |-> kind])
      [] kind # None /\ HandoffsOf(id) # {}  ->
            [handoffs EXCEPT ![CHOOSE i \in HandoffsOf(id) : \A j \in HandoffsOf(id) : i <= j] =
                [tab |-> id, kind |-> kind]]

-----------------------------------------------------------------------------
(* closeCanvasTab: a click, the host, or a canvas whose content says so. *)

\* The tabs of other ids, in their order.
Without(s, id) ==
    LET kept[i \in 0 .. Len(s)] ==
          IF i = 0 THEN <<>>
          ELSE IF s[i].id = id THEN kept[i - 1]
          ELSE Append(kept[i - 1], s[i])
    IN  kept[Len(s)]

\* The active tab, had it been t, once the closing of id is rendered too.
\* Mutant: the focus moves to the last tab there was.
MovesToLast(id) ==
    [t \in Focus |-> IF refocus[t] # id THEN refocus[t]
                     ELSE IF tabs' = <<>> THEN None ELSE Last(tabs).id]

Moves(id) ==
    [t \in Focus |-> IF refocus[t] # id THEN refocus[t]
                     ELSE IF tabs' = <<>> THEN None ELSE Last(tabs').id]

\* Mutant: the transcript keeps the handoff of a closed tab.
DropsTabOnly(id) ==
    /\ tabs' = Without(tabs, id)
    /\ UNCHANGED <<handoffs, bubbleVars, evicted, crossed>>

Drops(id) ==
    /\ tabs' = Without(tabs, id)
    /\ handoffs' = Reconciled(id, None)
    /\ evicted' = evicted \ {id} /\ replaced' = replaced \ {id}
    /\ UNCHANGED <<bubble, inlined, crossed>>

\* By the engine.  React may run the updater as soon as it is handed over, but
\* only if the panel has no update waiting.
CloseTab(id) ==
    /\ Drops(id)
    /\ \/ ~pending /\ active' = Moves(id)[active] /\ UNCHANGED refocus
       \/ refocus' = Moves(id) /\ UNCHANGED active
    /\ Later

\* By the user, with a click that is rendered with everything before it.
CloseClicked(id) ==
    /\ id \in screen.tabs
    /\ Drops(id)
    /\ active' = Moves(id)[active]
    /\ AtOnce

-----------------------------------------------------------------------------
(* event: canvas_open.  An event without tab_id, or whose content does not  *)
(* pass normalizeCanvasContent, is reported and changes nothing.            *)

\* A handoff is only taken from a canvas that ends its turn, and only if
\* parseCanvasHandoff finds it complete.
HandoffOf(event) == IF event.terminal THEN event.handoff ELSE None

CanvasCloses(event) ==
    /\ event.close
    /\ CloseTab(event.id)

\* On a narrow legacy viewport the canvas becomes part of the answer, whose
\* bubble is found by one id.
CanvasInlines(event) ==
    /\ ~event.close
    /\ bubble' = event.id
    /\ handoffs' = Reconciled(event.id, HandoffOf(event))
    /\ evicted' = evicted \ {event.id}
    /\ replaced' = (replaced \cup {bubble}) \cap (HandedOff' \ {event.id})
    /\ Later
    /\ UNCHANGED <<tabs, active, refocus, crossed, inlined>>

CanvasOpens(event) ==
    /\ ~event.close
    /\ handoffs' = Reconciled(event.id, HandoffOf(event))
    /\ AddOrFocus([id |-> event.id, host |-> FALSE, evictable |-> TRUE,
                   page |-> None, summary |-> None])
    /\ UNCHANGED <<bubble, inlined>>

CanvasOpen(event, inline) ==
    \/ CanvasCloses(event)
    \/ inline /\ CanvasInlines(event)
    \/ ~inline /\ CanvasOpens(event)

\* runMessage: the answers before the one that begins keep their bubbles.
NextTurn ==
    /\ inlined' = inlined \cup ({bubble} \ {None})
    /\ bubble' = None
    /\ UNCHANGED <<tabs, focusVars, handoffs, evicted, replaced>>

-----------------------------------------------------------------------------
(* The host's calls, and the user's clicks. *)

OpenHostTab(id, page) ==
    /\ UNCHANGED <<handoffs, bubble, inlined>>
    /\ AddOrFocus([id |-> id, host |-> TRUE, evictable |-> FALSE,
                   page |-> page, summary |-> page])

SetSummary(id, summary) ==
    /\ tabs' = [i \in DOMAIN tabs |->
                   IF tabs[i].id = id THEN [tabs[i] EXCEPT !.summary = summary] ELSE tabs[i]]
    /\ Later
    /\ UNCHANGED <<active, refocus, crossed, handoffs, bubbleVars, evicted>>

\* A click in the tab strip.
PickTab(id) ==
    /\ id \in screen.tabs
    /\ UNCHANGED <<tabs, handoffs, bubbleVars, evicted>>
    /\ active' = refocus[id] /\ Focused(id)
    /\ AtOnce

\* focusCanvasDestination, the click on a handoff: its tab may be gone.
FocusDestination(id) ==
    /\ id \in screen.handoffs
    /\ \/ PickTab(id)
       \/ id \notin screen.tabs /\ UNCHANGED tabVars

\* clear empties the transcript and leaves the tabs.
ClearTranscript ==
    /\ handoffs' = <<>>
    /\ bubble' = None /\ inlined' = {}
    /\ evicted' = {} /\ replaced' = {}
    /\ active' = refocus[active]
    /\ UNCHANGED <<tabs, crossed>>
    /\ AtOnce

\* runMessage: what a message tells the model about the open tabs.
CanvasTabSummaries ==
    [i \in DOMAIN tabs |->
        [tab_id |-> tabs[i].id,
         about |-> IF tabs[i].summary # None THEN tabs[i].summary ELSE tabs[i].page]]

-----------------------------------------------------------------------------
(* The panel of a host that opens pages in the reserved tab, beside the     *)
(* engine's canvases: those that the engine sends for that tab are left to  *)
(* the shell.                                                               *)

\* What the engine sends: canvases, with or without a handoff, and closes.
Events ==
    [id : Ids, close : {FALSE}, terminal : BOOLEAN, handoff : {"form"}]
      \cup [id : TabIds, close : BOOLEAN, terminal : {FALSE}, handoff : {None}]

TabsNext ==
    \/ \E event \in Events, inline \in BOOLEAN :
          event.id # Nav /\ CanvasOpen(event, inline)
    \/ NextTurn
    \/ \E page \in Pages : OpenHostTab(Nav, page)
    \/ \E id \in TabIds : CloseClicked(id) \/ PickTab(id) \/ FocusDestination(id)
    \/ ClearTranscript
    \/ Render

TabsSpec == TabsInit /\ [][TabsNext]_tabVars

-----------------------------------------------------------------------------
(* Properties *)

Distinct(s, f(_)) == \A i, j \in DOMAIN s : f(s[i]) = f(s[j]) => i = j

\* The panel has one tab per id, and when it is rendered it shows one of them
\* exactly if there is any, however openings, closings by three parties and
\* clicks on what was rendered before interleave; unless the tab focused last
\* had been closed, or evicted, by an event rendered together with that.
OneOpenTabIsActive ==
    /\ Distinct(tabs, LAMBDA t : t.id)
    /\ ~pending /\ ~crossed => IF tabs = <<>> THEN active = None ELSE active \in Open

\* A handoff of the transcript has its tab open, or its canvas inline.
Leads(id) == id \in Open \cup inlined \cup {bubble}

\* What the user can click leads somewhere, unless the tab was evicted for newer
\* ones, or its bubble carries the id of a later canvas of the same answer.
\* There is one handoff per tab.
HandoffsLead ==
    /\ Distinct(handoffs, LAMBDA h : h.tab)
    /\ \A i \in DOMAIN handoffs :
          Leads(handoffs[i].tab) \/ handoffs[i].tab \in evicted \cup replaced

\* A tab leaves the panel only if it is closed, or if it is the oldest evictable
\* one of a full panel to which a new tab is added: the reserved tab never makes
\* room.
EvictionSpares ==
    [][Len(tabs') >= Len(tabs) =>
         \A i \in DOMAIN tabs :
            (\A j \in DOMAIN tabs' : tabs'[j].id # tabs[i].id) =>
                /\ tabs[i].evictable
                /\ Len(tabs) >= MaxTabs
                /\ \A k \in 1 .. i - 1 : ~tabs[k].evictable]_tabs

-----------------------------------------------------------------------------
(* What documents and comments say and the code does not *)

\* A tab that is opened, or opened again, is focused: if the tab focused last is
\* in the list that is rendered, it is the one that is shown.
OpenedTabIsFocused == [][Render /\ active \in Open => active' = active]_tabVars

\* A handoff focuses its destination as long as that exists: a tab that was not
\* evicted, or a canvas in the transcript.
HandoffsFindTheirCanvas ==
    \A i \in DOMAIN handoffs : Leads(handoffs[i].tab) \/ handoffs[i].tab \in evicted
=============================================================================
