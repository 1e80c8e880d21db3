----------------------------- MODULE MCAppShell -----------------------------
(***************************************************************************)
(* AppShell for TLC, in two parts that share their initial tabs.  In the   *)
(* one the panel is alone with the engine's canvases, all of Ids, and a    *)
(* shell that remembers the page of the reserved tab; in the other the     *)
(* whole shell moves, with one canvas of the engine.                       *)
(***************************************************************************)
EXTENDS AppShell, TLC

VARIABLE engine    \* the ids the engine uses

mcVars == <<vars, engine>>

Alone == engine = Ids

\* A shell at rest, with an address that names no page.
AtRest ==
    /\ small = FALSE /\ region = "assistant"
    /\ url = None /\ urlDue = FALSE

MCInit ==
    /\ Init
    /\ \/ engine = Ids /\ AtRest
       \/ \E id \in Ids : engine = {id}

PanelAlone ==
    /\ TabsNext
    /\ openedDest' = IF Nav \in Open' THEN tabs'[IndexOf(Nav)'].page ELSE None
    /\ UNCHANGED <<chromeVars, url, urlDue, loading>>

WholeShell ==
    \/ ShellStep
    \/ \E event \in Events : event.id \in engine \cup {Nav} /\ EngineCanvas(event)

MCNext ==
    /\ \/ Alone /\ PanelAlone
       \/ ~Alone /\ WholeShell
    /\ UNCHANGED engine

MCSpec == MCInit /\ [][MCNext]_mcVars

\* The engine's tabs differ only by their ids, and the host's pages only by
\* theirs: no definition compares them with anything but each other.
ShellSymmetry == Permutations(Ids) \cup Permutations(Pages)
=============================================================================
