--------------------------- MODULE CanvasPayload ----------------------------
(***************************************************************************)
(* What the model writes as a panel, dashboard or object detail, and what  *)
(* becomes of it: checked strictly before it enters a canvas tab, read     *)
(* defensively each time a block renders it, and given a type by its shape *)
(* when it names none.                                                     *)
(*                                                                         *)
(* A panel is its declared type and, for each member, the kind of value it *)
(* has: what typeof, Array.isArray and the items' own checks can tell.     *)
(* An array is "records" (well formed items of the panel that expects      *)
(* them), "alerts" or "statuses" (items with those members), "mixed" (some *)
(* item is malformed), "numbers", or "empty".                              *)
(***************************************************************************)
EXTENDS Texts, SequencesExt, Functions

Types == {"area", "bar", "gauge", "sparkline", "status-grid", "stat",
          "alert-summary", "resource-table", "alert-list", "callout",
          "proposal", "action-button", "action-form"}

Members == {"title", "xKey", "yLabel", "series", "data", "value", "max",
            "columns", "rows", "items", "body", "command", "buttons",
            "fields", "submit"}

RecordArrays == {"records", "alerts", "statuses"}
Arrays == RecordArrays \cup {"mixed", "numbers", "empty"}
Kinds == {"absent", "string", "number", "record"} \cup Arrays

Modes == {"strict", "defensive"}

NoPanel == [type |-> "none", has |-> [m \in Members |-> "absent"]]

-----------------------------------------------------------------------------
(* inferChartType: from the most to the least specific shape *)

Rules(has) ==
    << <<has["xKey"] = "string" /\ {has["series"], has["data"]} \subseteq Arrays,
         IF has["yLabel"] = "string" THEN "area" ELSE "bar">>,
       <<has["value"] = "number" /\ has["max"] = "number", "gauge">>,
       <<has["data"] = "numbers" /\ has["xKey"] = "absent", "sparkline">>,
       <<{has["columns"], has["rows"]} \subseteq Arrays, "resource-table">>,
       <<has["command"] = "string" /\ has["title"] = "string", "proposal">>,
       <<has["fields"] \in Arrays /\ has["submit"] \in Arrays \cup {"record"}, "action-form">>,
       <<has["buttons"] \in Arrays \ {"empty"}, "action-button">>,
       <<has["title"] = "string" /\ has["body"] = "string", "callout">>,
       <<has["data"] = "record", "alert-summary">>,
       <<has["items"] = "alerts", "alert-list">>,
       <<has["items"] = "statuses", "status-grid">>,
       <<has["value"] = "string" /\ has["title"] = "string", "stat">> >>

InferChartType(has) ==
    LET n == SelectInSeq(Rules(has), LAMBDA rule : rule[1])
    IN  IF n = 0 THEN "none" ELSE Rules(has)[n][2]

TypeOf(panel) ==
    IF panel.type \in Types THEN panel.type ELSE InferChartType(panel.has)

-----------------------------------------------------------------------------
(* normalizePanelValue *)

\* Members whose absence costs the panel.
Strings(type) ==
    CASE type \in {"area", "bar"} -> {"title", "xKey"}
      [] type \in {"gauge", "status-grid", "resource-table"} -> {"title"}
      [] type = "stat" -> {"title", "value"}
      [] type = "callout" -> {"title", "body"}
      [] type = "proposal" -> {"title", "command"}
      [] OTHER -> {}

OptionalStrings(type) ==
    CASE type = "area" -> {"yLabel"}
      [] type \in {"sparkline", "alert-summary", "alert-list"} -> {"title"}
      [] OTHER -> {}

Numbers(type) == IF type = "gauge" THEN {"value", "max"} ELSE {}

Objects(type) ==
    CASE type = "alert-summary" -> {"data"}
      [] type = "action-form" -> {"submit"}
      [] OTHER -> {}

\* Members read with requiredArray: an absent one is reported and becomes [].
Lists(type) ==
    CASE type \in {"area", "bar"} -> {"series", "data"}
      [] type = "sparkline" -> {"data"}
      [] type \in {"status-grid", "alert-list"} -> {"items"}
      [] type = "resource-table" -> {"columns", "rows"}
      [] type = "action-button" -> {"buttons"}
      [] type = "action-form" -> {"fields"}
      [] OTHER -> {}

\* The arrays whose items all pass the checks of the panel that expects them.
WellFormed(type, member) ==
    CASE type = "sparkline" \/ member = "columns" -> Arrays
      [] type = "alert-list"  -> {"alerts", "empty"}
      [] type = "status-grid" -> {"statuses", "empty"}
      [] type \in {"area", "bar"} /\ member = "data" -> RecordArrays \cup {"empty"}
      [] member = "rows" -> RecordArrays \cup {"empty"}
      [] OTHER -> {"records", "empty"}

\* What is left of an array: the items that pass.
Filtered(type, member, kind) ==
    CASE type = "sparkline" -> IF kind = "numbers" THEN kind ELSE "empty"
      [] type # "sparkline" /\ kind \in WellFormed(type, member) -> kind
      [] type # "sparkline" /\ kind \notin WellFormed(type, member) ->
            CASE kind # "mixed" -> "empty"
              [] kind = "mixed" /\ type = "alert-list" -> "alerts"
              [] kind = "mixed" /\ type = "status-grid" -> "statuses"
              [] OTHER -> "records"

\* String(value) is a string, but only a renderer is that lenient.
AsString(type, member, kind, mode) ==
    IF type = "stat" /\ member = "value" /\ mode = "defensive" /\ kind # "absent"
    THEN "string" ELSE kind

\* The panel is given up: normalizePanelValue returns null.
Fatal(type, has, mode) ==
    \/ type = "none"
    \/ \E m \in Strings(type) : AsString(type, m, has[m], mode) # "string"
    \/ \E m \in Numbers(type) : has[m] # "number"
    \/ type = "alert-summary" /\ mode = "strict" /\ has["data"] # "record"
    \/ type = "action-form" /\ has["submit"] # "record"

\* In strict mode, an issue with severity error was reported.  An unknown type
\* is a warning.
Errs(type, has) ==
    /\ type # "none"
    /\ \/ Fatal(type, has, "strict")
       \/ \E m \in Lists(type) :
            has[m] \notin Arrays \/ has[m] \notin WellFormed(type, m)

NormalizeMember(type, m, kind) ==
    CASE m \in Lists(type)   -> Filtered(type, m, kind)
      [] m \in Strings(type) -> "string"
      [] m \in Objects(type) -> "record"
      [] m \in OptionalStrings(type) -> IF kind = "string" THEN kind ELSE "absent"
      [] m \notin Lists(type) \cup Strings(type) \cup Objects(type) \cup OptionalStrings(type) ->
            IF type = "callout" THEN "absent" ELSE kind

NormalizePanel(panel, mode) ==
    LET type == TypeOf(panel) IN
    IF Fatal(type, panel.has, mode) THEN NoPanel
    ELSE [type |-> type,
          has |-> [m \in Members |-> NormalizeMember(type, m, panel.has[m])]]

PanelErrs(panel) == Errs(TypeOf(panel), panel.has)

Rendered(panels) == Without(panels, {NoPanel})

-----------------------------------------------------------------------------
(* normalizeDashboardPayload and normalizeObjectDetailPayload.  A section   *)
(* with one of PanelLayouts holds a panel; "properties", which stands for   *)
(* the timeline too, a list of items; "text" anything; a layout the         *)
(* renderer does not know is kept as it came.                               *)

PanelLayouts == {"chart", "alert-list", "actions", "table"}
Layouts == PanelLayouts \cup {"properties", "text", "unknown", "none"}

\* An embedded panel gets its type from the layout, and an empty title from
\* the section's.
Embedded(section) ==
    [type |-> CASE section.layout = "chart"      -> section.panel.type
                [] section.layout = "alert-list" -> "alert-list"
                [] section.layout = "actions"    -> "action-button"
                [] section.layout = "table"      -> "resource-table",
     has |-> [section.panel.has EXCEPT !["title"] =
                IF @ = "absent" /\ section.layout \in {"chart", "table"} THEN "string" ELSE @]]

\* The section's data is not an object.
NoData(section) == section.layout # "unknown" /\ ~section.data

SectionKept(section, mode) ==
    /\ section.titled
    /\ section.layout # "none"
    /\ ~NoData(section)
    /\ section.layout \in PanelLayouts => NormalizePanel(Embedded(section), mode) # NoPanel

PropertyItems(kind) == IF kind \in {"records", "mixed"} THEN "records" ELSE "empty"

NormalizeSection(section, mode) ==
    CASE section.layout \in PanelLayouts ->
            [section EXCEPT !.panel = NormalizePanel(Embedded(section), mode)]
      [] section.layout = "properties" -> [section EXCEPT !.panel.has["items"] = PropertyItems(@)]
      [] OTHER -> section

SectionErrs(section) ==
    \/ ~section.titled
    \/ section.layout = "none"
    \/ NoData(section)
    \/ section.layout \in PanelLayouts /\ PanelErrs(Embedded(section))
    \/ section.layout = "properties" /\ section.panel.has["items"] \notin {"records", "empty"}

NoContent == [shape |-> "none", named |-> FALSE, panels |-> <<>>, sections |-> <<>>]

\* named: the title of a dashboard, the name of an object detail.
NormalizePayload(content, mode) ==
    IF ~content.named THEN NoContent
    ELSE [content EXCEPT
            !.panels = Rendered([i \in DOMAIN @ |-> NormalizePanel(@[i], mode)]),
            !.sections = LET kept == Without(@, {s \in ToSet(@) : ~SectionKept(s, mode)})
                         IN  [i \in DOMAIN kept |-> NormalizeSection(kept[i], mode)]]

\* Mutant: the panels of a canvas are not looked at.
PayloadErrsOutside(content) ==
    \/ ~content.named
    \/ \E i \in DOMAIN content.sections : SectionErrs(content.sections[i])

PayloadErrs(content) ==
    \/ ~content.named
    \/ \E i \in DOMAIN content.panels : PanelErrs(content.panels[i])
    \/ \E i \in DOMAIN content.sections : SectionErrs(content.sections[i])

\* normalizeCanvasContent, for content that is no close directive.
NormalizeCanvasContent(content) ==
    IF content.shape = "none" \/ PayloadErrs(content) THEN NoContent
    ELSE NormalizePayload(content, "strict")

\* parseDashboard and parseObjectDetail
Parse(content) == NormalizePayload(content, "defensive")

\* The block that renders a tab or a fence, chosen by the shape.
Render(content) == IF content.shape = "none" THEN NoContent ELSE Parse(content)

-----------------------------------------------------------------------------
(* The payloads to check: a well formed panel, some members of which the    *)
(* model got wrong, alone or next to a good one.                            *)

CONSTANT MaxEdits   \* bound on the members changed

VARIABLES panel, edits, content

payloadVars == <<panel, edits, content>>

Needs(type) ==
    [m \in Members |->
        CASE m \in Strings(type) -> "string"
          [] m \in Numbers(type) -> "number"
          [] m \in Objects(type) -> "record"
          [] m \in Lists(type)   ->
                CASE type = "alert-list"  -> "alerts"
                  [] type = "status-grid" -> "statuses"
                  [] type = "sparkline"   -> "numbers"
                  [] OTHER -> "records"
          [] m \notin Strings(type) \cup Numbers(type) \cup Objects(type) \cup Lists(type)
                -> "absent"]

PayloadInit ==
    /\ \E type \in Types, named \in BOOLEAN :
          panel = [type |-> IF named THEN type ELSE "none", has |-> Needs(type)]
    /\ edits = 0
    /\ content = NoContent

\* The model writes a member otherwise, or a type nobody knows.
EditPanel ==
    /\ content = NoContent /\ edits < MaxEdits
    /\ edits' = edits + 1
    /\ \/ \E m \in Members, kind \in Kinds : panel' = [panel EXCEPT !.has[m] = kind]
       \/ panel' = [panel EXCEPT !.type = "unknown"]
    /\ UNCHANGED content

Stat == [type |-> "stat", has |-> Needs("stat")]

PutIntoDashboard ==
    /\ content = NoContent
    /\ \E titled \in BOOLEAN :
        content' = [shape |-> "dashboard", named |-> titled,
                    panels |-> <<panel, Stat>>, sections |-> <<>>]
    /\ UNCHANGED <<panel, edits>>

PutIntoDetail ==
    /\ content = NoContent
    /\ \E layout \in Layouts, titled, data \in BOOLEAN :
        content' = [shape |-> "detail", named |-> TRUE, panels |-> <<>>,
                    sections |-> <<[layout |-> layout, titled |-> titled, data |-> data,
                                    panel |-> panel],
                                   [layout |-> "text", titled |-> TRUE, data |-> TRUE,
                                    panel |-> NoPanel]>>]
    /\ UNCHANGED <<panel, edits>>

PayloadNext == EditPanel \/ PutIntoDashboard \/ PutIntoDetail

PayloadSpec == PayloadInit /\ [][PayloadNext]_payloadVars

-----------------------------------------------------------------------------
(* Properties *)

\* What a reader sees: an embedded panel without a title and one with an empty
\* title look alike.
Shown(payload) ==
    [payload EXCEPT !.sections =
        [i \in DOMAIN @ |-> [@[i] EXCEPT !.panel.has["title"] = "absent"]]]

\* Whatever passes the check at the door of the canvas renders, and shows what
\* the transcript, where the renderer alone repairs it, would show: reading the
\* checked payload again drops no panel and no section, takes none for another
\* type, and finds nothing left to repair.
CanvasShowsWhatItChecked ==
    LET checked == NormalizeCanvasContent(content)
    IN  checked # NoContent =>
            /\ ~PayloadErrs(checked)
            /\ Shown(Render(checked)) = Shown(checked)
            /\ Shown(Render(content)) = Shown(checked)
=============================================================================
