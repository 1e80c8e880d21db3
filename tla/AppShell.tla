------------------------------ MODULE AppShell ------------------------------
(***************************************************************************)
(* ChatAppShell: the host's address, the navigation menu and the engine's  *)
(* open_nav events all steer one reserved canvas tab, next to the engine's *)
(* own tabs (CanvasTabs); on narrow viewports one region is shown at a     *)
(* time.  A passive effect runs some time after the render it belongs to,  *)
(* and before the user's next event; the engine and the host do not wait   *)
(* for it.                                                                 *)
(***************************************************************************)
EXTENDS CanvasTabs

CONSTANT mobileLayout    \* the host's opt-in

ASSUME AppShellAssumption == mobileLayout \in BOOLEAN

VARIABLES small,         \* the viewport is narrower than the breakpoint
          openedDest,    \* openedDestId and its ref
          url,           \* activeDestinationId
          urlDue,        \* the address has changed and its effect has not run
          loading,       \* the page that waits for what it will publish
          region,        \* mobileRegion
          override,      \* handoffMobileRegion
          regionDue

chromeVars == <<small, region, override, regionDue>>
destVars == <<openedDest, url, urlDue, loading>>
vars == <<tabVars, chromeVars, destVars>>

Regions == {"canvas", "assistant"}

TypeOK ==
    /\ TabsTypeOK
    /\ {small, urlDue, regionDue} \subseteq BOOLEAN
    /\ {openedDest, url, loading} \subseteq Pages \cup {None}
    /\ region \in Regions
    /\ override \in {"canvas", None}

mobileActive == mobileLayout /\ small

Settled == ~urlDue /\ ~regionDue

Init ==
    /\ TabsInit
    /\ small \in BOOLEAN
    /\ openedDest = None /\ loading = None
    /\ url \in Pages \cup {None} /\ urlDue = (url # None)
    /\ region \in Regions /\ override = None /\ regionDue = FALSE

-----------------------------------------------------------------------------
(* The reserved tab *)

OpenDestinationTab(dest) ==
    /\ OpenHostTab(Nav, dest)
    /\ openedDest' = dest

\* A click in the menu, in a page, or the engine's open_nav.  The host answers
\* onActiveDestinationChange by changing its address; an effect still due for
\* the old one is overtaken, the new one's has the last word.
OpenNav(dest) ==
    /\ OpenDestinationTab(dest)
    /\ url' = dest
    /\ urlDue' = (urlDue \/ url # dest)
    /\ region' = IF mobileActive THEN "canvas" ELSE region
    /\ regionDue' = (regionDue \/ region' # region)
    /\ UNCHANGED <<small, override, loading>>

\* The host's own navigation: an address without a page is None.  Rendering it
\* first runs an effect still due.
HostUrl(dest) ==
    /\ ~urlDue /\ dest # url
    /\ url' = dest
    /\ urlDue' = TRUE
    /\ UNCHANGED <<tabVars, chromeVars, openedDest, loading>>

\* Mutant: only a closed shell follows the address.
UrlEffectIfNothingOpened ==
    /\ urlDue
    /\ urlDue' = FALSE
    /\ IF url = None \/ openedDest # None
       THEN UNCHANGED <<tabVars, openedDest>>
       ELSE OpenDestinationTab(url)
    /\ UNCHANGED <<chromeVars, url, loading>>

UrlEffect ==
    /\ urlDue
    /\ urlDue' = FALSE
    /\ IF url = None \/ openedDest = url
       THEN UNCHANGED <<tabVars, openedDest>>
       ELSE OpenDestinationTab(url)
    /\ UNCHANGED <<chromeVars, url, loading>>

\* handleCanvasEvent sees what the engine opens and closes.
EngineCanvas(event) ==
    /\ CanvasOpen(event, small /\ ~mobileLayout)
    /\ openedDest' = IF event.id = Nav /\ event.close THEN None ELSE openedDest
    /\ UNCHANGED <<chromeVars, url, urlDue, loading>>

\* Without the mobile layout a narrow viewport has no canvas region.
CanvasShown == mobileLayout \/ ~small

\* The reserved tab reports a node that the host can mount its page in.
HostTabMount == Nav \in Open /\ tabs[IndexOf(Nav)].host

Mounted == openedDest # None /\ HostTabMount /\ CanvasShown

\* null stands for the identity of the page the shell remembers.
PublishSummary(summary) ==
    LET about == IF summary = None THEN openedDest ELSE summary IN
    IF about = None THEN UNCHANGED tabVars ELSE SetSummary(Nav, about)

\* A page of the host reads what it will publish, one at a time here, and
\* publishes it, or null, wherever the shell has got to by then.
PageLoads ==
    /\ Mounted /\ loading = None
    /\ loading' = openedDest
    /\ UNCHANGED <<tabVars, chromeVars, openedDest, url, urlDue>>

PagePublishes ==
    /\ loading # None /\ loading' = None
    /\ \E summary \in {loading, None} : PublishSummary(summary)
    /\ UNCHANGED <<chromeVars, openedDest, url, urlDue>>

PanelRenders ==
    /\ Render
    /\ UNCHANGED <<chromeVars, destVars>>

-----------------------------------------------------------------------------
(* The user, whose events find every effect run *)

\* The tab strip's close button reports to nobody.
UserClosesTab(id) ==
    /\ Settled
    /\ CloseClicked(id)
    /\ UNCHANGED <<chromeVars, destVars>>

UserPicksTab(id) ==
    /\ Settled
    /\ PickTab(id)
    /\ UNCHANGED <<chromeVars, destVars>>

UserClears ==
    /\ Settled
    /\ ClearTranscript
    /\ UNCHANGED <<chromeVars, destVars>>

UserSends ==
    /\ Settled
    /\ NextTurn
    /\ UNCHANGED <<chromeVars, destVars>>

EffectiveRegion == IF override # None THEN override ELSE region

\* Mutant: the region is only overridden here.
ActivateHandoffLocally(id) ==
    /\ Settled
    /\ FocusDestination(id)
    /\ override' = IF mobileActive THEN "canvas" ELSE override
    /\ UNCHANGED <<destVars, small, region, regionDue>>

ActivateHandoff(id) ==
    /\ Settled
    /\ FocusDestination(id)
    /\ IF mobileActive /\ EffectiveRegion # "canvas"
       THEN override' = "canvas" /\ region' = "canvas" /\ regionDue' = TRUE
       ELSE UNCHANGED <<override, region, regionDue>>
    /\ UNCHANGED <<destVars, small>>

\* MobileRegionSwitch: one button for the other region, or one for each, of
\* which the selected one changes nothing.
Offered == Regions \ {region}

PickRegion(r) ==
    /\ Settled /\ mobileActive
    /\ r \in Offered
    /\ region' = r /\ regionDue' = TRUE
    /\ UNCHANGED <<tabVars, destVars, small, override>>

-----------------------------------------------------------------------------
(* The window *)

Resize ==
    /\ small' = ~small
    /\ regionDue' = (regionDue \/ mobileLayout)
    /\ UNCHANGED <<tabVars, destVars, region, override>>

RegionEffect ==
    /\ regionDue /\ regionDue' = FALSE
    /\ override' = None
    /\ UNCHANGED <<tabVars, destVars, small, region>>

-----------------------------------------------------------------------------
EngineStep == \E event \in Events : EngineCanvas(event)

ShellStep ==
    \/ \E dest \in Pages : OpenNav(dest)
    \/ \E dest \in Pages \cup {None} : HostUrl(dest)
    \/ UrlEffect
    \/ PageLoads
    \/ PagePublishes
    \/ PanelRenders
    \/ \E id \in TabIds : UserClosesTab(id) \/ UserPicksTab(id) \/ ActivateHandoff(id)
    \/ UserClears
    \/ UserSends
    \/ \E r \in Regions : PickRegion(r)
    \/ Resize
    \/ RegionEffect

Next == EngineStep \/ ShellStep

Spec == Init /\ [][Next]_vars

-----------------------------------------------------------------------------
(* Properties *)

NavShows(dest) ==
    Nav \in Open /\ LET tab == tabs[IndexOf(Nav)] IN tab.host /\ tab.page = dest

\* While the reserved tab is open with a page, it is the page the shell thinks
\* it is, and once the effects have run it is the page of the host's address, if
\* that names one: whoever navigated last, and whatever closed or replaced the
\* tab in between.
NavFollowsUrl ==
    \A dest \in Pages : NavShows(dest) =>
        /\ openedDest = dest
        /\ ~urlDue /\ url # None => url = dest

\* With the effects run, the region on screen is the one the switch shows as
\* selected, so the switch always leads to the other one: following a handoff
\* does not leave the panel on a canvas the user cannot leave.
RegionIsSwitchable == Settled => EffectiveRegion = region

-----------------------------------------------------------------------------
(* What documents and comments say and the code does not *)

\* What the reserved tab tells the model is about the page it shows.
SummaryIsOfThePage ==
    \A dest \in Pages : NavShows(dest) => CanvasTabSummaries[IndexOf(Nav)].about = dest

\* When the host's address changes to a destination while the reserved tab is
\* closed, the tab opens and shows it: the contract of activeDestinationId.
UrlOpensTab ==
    [][urlDue /\ ~urlDue' /\ url # None /\ Nav \notin Open => NavShows(url)']_vars
=============================================================================
