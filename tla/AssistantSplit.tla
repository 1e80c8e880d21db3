--------------------------- MODULE AssistantSplit ---------------------------
(***************************************************************************)
(* The split between the assistant and its canvas: its width, dragged with *)
(* the pointer, nudged with the keyboard, reset with a double click,       *)
(* reported to the host, remembered in localStorage and restored; and      *)
(* whether the assistant is collapsed.                                     *)
(*                                                                         *)
(* Widths are whole pixels; 0 stands for null.  A length is [unit, n].     *)
(***************************************************************************)
EXTENDS Integers

CONSTANTS Containers,   \* widths of the split row
          Sizings,      \* [min, max, default] of the host's props
          Deltas        \* of the pointer and of the arrow keys

ASSUME AssistantSplitAssumption ==
    \* no bound rounds to 0, which is taken for null
    /\ Containers \subseteq {w \in Nat : w > 3}
    /\ Deltas \subseteq Int
    /\ \A s \in Sizings :
        /\ s.min \in Nat /\ s.max \in Nat \ {0}
        /\ s.default \in [unit : {"px", "%", "none"}, n : Nat]

Larger(a, b) == IF a > b THEN a ELSE b
Smaller(a, b) == IF a < b THEN a ELSE b

\* Math.round of a percentage.
Percent(n, w) == (n * w + 50) \div 100

ASSISTANT_WIDTH_PCT_MIN == 15
ASSISTANT_WIDTH_PCT_MAX == 60

\* Rounding is monotone, so it commutes with the comparisons.
MaxPx(w, s) == Smaller(Smaller(Percent(ASSISTANT_WIDTH_PCT_MAX, w), w), s.max)
MinPx(w, s) == Smaller(Larger(s.min, Percent(ASSISTANT_WIDTH_PCT_MIN, w)), MaxPx(w, s))

ClampAssistantWidthPx(px, w, s) == Larger(MinPx(w, s), Smaller(MaxPx(w, s), px))

Unset == [unit |-> "none", n |-> 0]
Px(n) == [unit |-> "px", n |-> n]

\* The pixels of a CSS length; an unset one is 40%.
Pixels(length, w) ==
    CASE length.unit = "px"   -> length.n
      [] length.unit = "%"    -> Percent(length.n, w)
      [] length.unit = "none" -> Percent(40, w)

ResolveAssistantWidthPx(length, w, s) == ClampAssistantWidthPx(Pixels(length, w), w, s)

-----------------------------------------------------------------------------
VARIABLES
    sizing, container,
    controlled,           \* the host passes assistantWidth
    width,                \* the width it passes
    pending,              \* a width reported to the host that it has not passed yet
    stored, dragged,      \* storedAssistantWidthPx, dragAssistantWidthPxRef
    dragging, start,      \* draggingAssistantSplitRef, dragStartWidthPxRef
    css,                  \* --chat-assistant-width of the split row
    canvas, collapsed,
    persisted, persistedCollapsed   \* localStorage

splitHost == <<sizing, container, controlled>>
splitDrag == <<dragging, start>>
splitFold == <<canvas, collapsed, persistedCollapsed>>
splitVars == <<splitHost, width, pending, stored, dragged, splitDrag, css, splitFold, persisted>>

\* assistantWidthCss, what React last rendered.
AssistantWidthCss ==
    CASE controlled -> Px(width)
      [] ~controlled /\ stored # 0 -> Px(stored)
      [] ~controlled /\ stored = 0 -> sizing.default

\* The width of the assistant's column: the style sheet applies the pixel
\* limits, not the percentages.
Visible == Larger(sizing.min, Smaller(sizing.max, Pixels(css, container)))

HandleShown == canvas /\ ~collapsed

GetCurrentAssistantWidthPx == IF dragged # 0 THEN dragged ELSE Visible

Clamped(px) == ClampAssistantWidthPx(px, container, sizing)

\* applyAssistantWidthPx with notify
Apply(px) ==
    /\ css' = Px(Clamped(px))
    /\ pending' = IF controlled THEN Clamped(px) ELSE 0

\* Mutant: the width is stored as it was asked for.
CommitUnclamped(px) ==
    /\ Apply(px)
    /\ stored' = IF controlled THEN stored ELSE px
    /\ persisted' = px
    /\ dragged' = 0

\* commitAssistantWidthPx, and the reset of the reference that follows it.
Commit(px) ==
    /\ Apply(px)
    /\ stored' = IF controlled THEN stored ELSE Clamped(px)
    /\ persisted' = Clamped(px)
    /\ dragged' = 0

PointerDown ==
    /\ HandleShown
    /\ dragging' = TRUE
    /\ start' = GetCurrentAssistantWidthPx
    /\ UNCHANGED <<splitHost, width, pending, stored, dragged, css, splitFold, persisted>>

\* The sign of the delta covers both placements.
PointerMove ==
    /\ HandleShown /\ dragging
    /\ \E delta \in Deltas : Apply(start + delta) /\ dragged' = Clamped(start + delta)
    /\ UNCHANGED <<splitHost, width, stored, splitDrag, splitFold, persisted>>

PointerUp ==
    /\ HandleShown /\ dragging
    /\ dragging' = FALSE /\ start' = 0
    /\ Commit(GetCurrentAssistantWidthPx)
    /\ UNCHANGED <<splitHost, width, splitFold>>

KeyDown ==
    /\ HandleShown
    /\ \E delta \in Deltas : Commit(GetCurrentAssistantWidthPx + delta)
    /\ UNCHANGED <<splitHost, width, splitDrag, splitFold>>

\* The pointer ups of the two clicks have committed the current width, so that
\* an uncontrolled split renders again; a controlled one is left without the
\* property when the default is a percentage.
ResetAssistantWidth ==
    /\ HandleShown /\ ~dragging
    /\ pending = 0
    /\ stored' = 0 /\ dragged' = 0 /\ persisted' = 0
    /\ LET resetPx == ResolveAssistantWidthPx(sizing.default, container, sizing) IN
       /\ pending' = IF controlled THEN resetPx ELSE 0
       /\ css' = CASE ~controlled -> sizing.default
                   [] controlled /\ sizing.default.unit = "px" -> Px(resetPx)
                   [] controlled /\ sizing.default.unit # "px" -> Unset
    /\ UNCHANGED <<splitHost, width, splitDrag, splitFold>>

\* React writes the property only if the host passes another width.
HostPassesWidth ==
    /\ pending # 0
    /\ width' = pending /\ pending' = 0
    /\ css' = IF width' # width /\ canvas THEN Px(width') ELSE css
    /\ dragged' = IF width' # width THEN 0 ELSE dragged
    /\ UNCHANGED <<splitHost, stored, splitDrag, splitFold, persisted>>

\* The last tab closes, or the first one opens: the handle goes or comes, in
\* the middle of a drag too.  React removes and writes only what it rendered.
ToggleCanvas ==
    /\ canvas' = ~canvas
    /\ css' = CASE AssistantWidthCss = Unset -> css
                [] AssistantWidthCss # Unset -> IF canvas THEN Unset ELSE AssistantWidthCss
    /\ dragged' = 0
    /\ UNCHANGED <<splitHost, width, pending, stored, splitDrag, collapsed,
                   persistedCollapsed, persisted>>

SetAssistantCollapsed ==
    /\ collapsed' = ~collapsed
    /\ persistedCollapsed' = IF collapsed THEN "0" ELSE "1"
    /\ dragged' = 0
    /\ UNCHANGED <<splitHost, width, pending, stored, splitDrag, css, canvas, persisted>>

ResizeWindow ==
    /\ \E w \in Containers : container' = w
    /\ UNCHANGED <<sizing, controlled, width, pending, stored, dragged, splitDrag, css,
                   splitFold, persisted>>

\* What localStorage says of the collapse; it starts out expanded.
RestoredCollapsed == persistedCollapsed = "1"

\* The page is loaded again with the same props, and restores what it stored.
Reload ==
    /\ canvas
    /\ stored' = IF controlled THEN 0 ELSE persisted
    /\ css' = CASE controlled -> Px(width)
                [] ~controlled /\ persisted # 0 -> Px(persisted)
                [] ~controlled /\ persisted = 0 -> sizing.default
    /\ collapsed' = RestoredCollapsed
    /\ pending' = 0 /\ dragged' = 0 /\ dragging' = FALSE /\ start' = 0
    /\ UNCHANGED <<splitHost, width, canvas, persisted, persistedCollapsed>>

SplitInit ==
    /\ sizing \in Sizings /\ container \in Containers /\ controlled \in BOOLEAN
    /\ width = ResolveAssistantWidthPx(sizing.default, container, sizing)
    /\ pending = 0 /\ stored = 0 /\ dragged = 0 /\ dragging = FALSE /\ start = 0
    /\ canvas = TRUE /\ collapsed = FALSE
    /\ persisted = 0 /\ persistedCollapsed = "none"
    /\ css = AssistantWidthCss

SplitNext ==
    \/ PointerDown \/ PointerMove \/ PointerUp \/ KeyDown \/ ResetAssistantWidth
    \/ HostPassesWidth \/ ToggleCanvas \/ SetAssistantCollapsed \/ ResizeWindow \/ Reload

SplitSpec == SplitInit /\ [][SplitNext]_splitVars

-----------------------------------------------------------------------------
(* Properties *)

\* The user is done with the split and the host has taken the width.  A drag
\* whose handle went away is never done.
SplitSettled == ~dragging /\ pending = 0

\* A page that is loaded again shows the split as it was left: at the width the
\* user saw, after every drag, nudge and reset that came before, and
\* collapsed or not.  Only a controlled split that was reset to a percentage
\* its host already passed does not.
SplitSurvivesReload ==
    [][Reload /\ SplitSettled /\ ~(controlled /\ css = Unset)
         => Visible' = Visible /\ collapsed' = collapsed]_splitVars
=============================================================================
