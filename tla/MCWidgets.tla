----------------------------- MODULE MCWidgets ------------------------------
(***************************************************************************)
(* The parts that keep to themselves, for TLC: the fences of an answer in  *)
(* the service; in the panel the events of its turns, their text, a        *)
(* payload, a form with the mode that locks it, and the split.  They share *)
(* no state, so each behaviour is one of one part, and the other parts     *)
(* rest in a fixed state.                                                  *)
(***************************************************************************)
EXTENDS MCTurnView, CanvasFences, InlineCharts, CanvasPayload, ActionForm, AssistantSplit,
        TLC

VARIABLE part

widgetVars == <<fenceVars, answer, payloadVars, formVars, modeVars, splitVars>>
partVars == <<part, vars, widgetVars>>

-----------------------------------------------------------------------------
(* A form whose volumes depend on the SVM, and whose SVMs on the cluster *)

Option(v, needs) == [value |-> v, dependsOn |-> needs]
Field(key, type, options) ==
    [key |-> key, type |-> type, options |-> options, required |-> TRUE,
     autoSelect |-> FALSE, default |-> ""]
Nothing == [k \in {} |-> {}]
On(k, accepted) == [x \in {k} |-> accepted]

Cluster == Field("cluster", "select", <<Option("c1", Nothing), Option("c2", Nothing)>>)
Svm == Field("svm", "select",
             <<Option("s1", On("cluster", {"c1"})), Option("s2", On("cluster", {"c1", "c2"}))>>)
Volume == Field("volume", "select",
                <<Option("v1", On("svm", {"s1"})),
                  Option("v2", [k \in {"svm", "cluster"} |->
                                    IF k = "svm" THEN {"s1", "s2"} ELSE {"c2"}])>>)
Name == Field("name", "text", <<>>)
Agree == Field("agree", "checkbox", <<>>)

MCForms ==
    {[fields |-> <<Cluster, Svm, Volume, Name>>, gated |-> TRUE,
      params |-> [k \in {"size"} |-> "2TB"]],
     [fields |-> <<Cluster, [Svm EXCEPT !.autoSelect = TRUE],
                   [Volume EXCEPT !.default = "v1", !.required = FALSE], Agree>>,
      gated |-> FALSE, params |-> [k \in {"volume"} |-> "v2"]]}

MCSizings ==
    {[min |-> 320, max |-> 9999, default |-> [unit |-> "%", n |-> 30]],
     [min |-> 200, max |-> 500,  default |-> [unit |-> "px", n |-> 480]],
     [min |-> 320, max |-> 450,  default |-> [unit |-> "none", n |-> 0]]}

MCDeltas == {-400, 150}

-----------------------------------------------------------------------------
(* Answers of two blocks: prose with inline code, a plain fence, a canvas   *)
(* that is new, an update, rejected or empty, or opens within a line        *)

Ticks == <<"t", "t", "t">>
Fence(kind, json) == Ticks \o <<"c", kind, "n", json, "n">> \o Ticks \o <<"n">>
Prose == <<"x", "t", "x", "n">>
Empty == Ticks \o <<"c", "O", "n">> \o Ticks \o <<"n">>
PlainFence == Ticks \o <<"D", "n", "x", "n">> \o Ticks \o <<"n">>

MCTabOf == [p \in Payloads |-> "vol1"]

MCAnswers ==
    {a \o b : a \in {Prose, Fence("D", "p1"), Fence("D", "b")},
              b \in {PlainFence, Fence("D", "p1"), Fence("O", "p2")}}
      \cup {Empty \o PlainFence, <<"x">> \o Fence("O", "p2")}

-----------------------------------------------------------------------------
RestingFences == FencesInit /\ rest = Prose \o PlainFence
RestingText == answer = <<>>
RestingPayload == panel = NoPanel /\ edits = MaxEdits /\ content = NoContent
RestingForm ==
    /\ form = [fields |-> <<>>, gated |-> TRUE, params |-> Nothing]
    /\ inTranscript = FALSE /\ values = <<>> /\ submissionBusy = TRUE
    /\ params = NoParams /\ mode = "read-only" /\ timers = {} /\ overBudget = FALSE
    /\ since = Unswitched
RestingSplit ==
    /\ sizing = [min |-> 0, max |-> 0, default |-> Unset]
    /\ container = 0 /\ controlled = FALSE /\ width = 0 /\ pending = 0 /\ stored = 0
    /\ dragged = 0 /\ dragging = FALSE /\ start = 0 /\ css = Unset /\ canvas = FALSE
    /\ collapsed = FALSE /\ persisted = 0 /\ persistedCollapsed = "none"

RestingWidgets == RestingFences /\ RestingText /\ RestingPayload /\ RestingForm /\ RestingSplit

\* No turn has been sent.
RestingTurns == Init /\ gated = {}

PartInit ==
    \/ /\ part = "turns" /\ Init /\ RestingWidgets
    \/ /\ part = "fences" /\ RestingTurns
       /\ FencesInit /\ RestingText /\ RestingPayload /\ RestingForm /\ RestingSplit
    \/ /\ part = "text" /\ RestingTurns /\ RestingWidgets
    \/ /\ part = "payload" /\ RestingTurns
       /\ RestingFences /\ RestingText /\ PayloadInit /\ RestingForm /\ RestingSplit
    \/ /\ part = "form" /\ RestingTurns
       /\ RestingFences /\ RestingText /\ RestingPayload /\ FormInit /\ RestingSplit
    \/ /\ part = "split" /\ RestingTurns
       /\ RestingFences /\ RestingText /\ RestingPayload /\ RestingForm /\ SplitInit

PartNext ==
    /\ part' = part
    /\ \/ /\ part = "turns" /\ Next
          /\ UNCHANGED widgetVars
       \/ /\ part = "fences" /\ FencesNext
          /\ UNCHANGED <<vars, answer, payloadVars, formVars, modeVars, splitVars>>
       \/ /\ part = "text" /\ StreamToken
          /\ UNCHANGED <<vars, fenceVars, payloadVars, formVars, modeVars, splitVars>>
       \/ /\ part = "payload" /\ PayloadNext
          /\ UNCHANGED <<vars, fenceVars, answer, formVars, modeVars, splitVars>>
       \/ /\ part = "form" /\ FormNext
          /\ UNCHANGED <<vars, fenceVars, answer, payloadVars, splitVars>>
       \/ /\ part = "split" /\ SplitNext
          /\ UNCHANGED <<vars, fenceVars, answer, payloadVars, formVars, modeVars>>

PartSpec == PartInit /\ [][PartNext]_partVars

\* No definition compares clicks with anything but each other.
ClickSymmetry == Permutations(Clicks)
=============================================================================
