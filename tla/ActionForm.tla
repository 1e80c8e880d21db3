----------------------------- MODULE ActionForm -----------------------------
(***************************************************************************)
(* A provisioning form of the transcript or of a canvas tab, and the mode  *)
(* of the panel that locks it.  The form's selects offer options that      *)
(* depend on the values of earlier fields; read-write mode switches itself *)
(* off after MODE_TIMEOUT.                                                 *)
(*                                                                         *)
(* A form is [fields, gated, params], params what it submits besides the   *)
(* fields; a field [key, type, required, autoSelect, options, default]; an *)
(* option [value, dependsOn], dependsOn the accepted values of some keys.  *)
(* Options that say the same twice are left out.                           *)
(***************************************************************************)
EXTENDS Naturals, Sequences, SequencesExt

CONSTANTS Forms,          \* the forms the model may write
          Texts,          \* what may be typed into a text field
          MODE_TIMEOUT    \* ticks until read-write is switched off

ASSUME ActionFormAssumption ==
    /\ MODE_TIMEOUT \in Nat \ {0}
    /\ \A f \in Forms :
        /\ f.fields \in Seq(Range(f.fields))
        /\ \A n \in DOMAIN f.fields : f.fields[n].options \in Seq(Range(f.fields[n].options))
        /\ IsInjective([i \in DOMAIN f.fields |-> f.fields[i].key])
        \* no value that is offered or accepted has blanks around; an option
        \* depends on earlier fields, on a checkbox as it is sent
        /\ \A n \in DOMAIN f.fields : \A i \in DOMAIN f.fields[n].options :
            /\ f.fields[n].options[i].value # "blanks"
            /\ \A k \in DOMAIN f.fields[n].options[i].dependsOn :
                /\ "blanks" \notin f.fields[n].options[i].dependsOn[k]
                /\ \E e \in 1 .. n - 1 :
                    /\ f.fields[e].key = k
                    /\ f.fields[e].type = "checkbox" =>
                           f.fields[n].options[i].dependsOn[k] \subseteq {"true", ""}

VARIABLES
    form,
    inTranscript,         \* rendered by a message, not by a canvas tab
    values,               \* of the fields, by key
    submissionBusy,       \* an earlier action is queued or continuing
    params,               \* what the last submit sent, with the mode it was sent in
    \* the panel
    mode,
    timers,               \* time left of each pending auto-disable
    overBudget,           \* read-write would offer more tools than the LLM takes
    since                 \* time since the last switch, or Unswitched

formVars == <<form, inTranscript, values, submissionBusy, params>>
modeVars == <<mode, timers, overBudget, since>>

Fields == ToSet(form.fields)
Keys == {f.key : f \in Fields}
Unswitched == MODE_TIMEOUT + 1

\* String.trim: a text of blanks says nothing.
Trim(v) == IF v = "blanks" THEN "" ELSE v

-----------------------------------------------------------------------------
(* The values of the selects *)

\* The options of a select whose dependencies are met.
AvailableOptions(field, vals) ==
    {i \in DOMAIN field.options :
        \A k \in DOMAIN field.options[i].dependsOn : vals[k] \in field.options[i].dependsOn[k]}

Offers(field, vals, v) == \E i \in AvailableOptions(field, vals) : field.options[i].value = v

FirstOption(field, vals) ==
    CHOOSE i \in AvailableOptions(field, vals) : \A j \in AvailableOptions(field, vals) : i <= j

Reconciled(vals, field) ==
    IF field.type # "select" \/ Offers(field, vals, vals[field.key]) THEN vals
    ELSE [vals EXCEPT ![field.key] =
            IF field.autoSelect /\ AvailableOptions(field, vals) # {}
            THEN field.options[FirstOption(field, vals)].value ELSE ""]

\* Field by field, each with the values the earlier ones have got.
ReconcileSelectValues(vals) ==
    LET next[i \in 0 .. Len(form.fields)] ==
          IF i = 0 THEN vals ELSE Reconciled(next[i - 1], form.fields[i])
    IN next[Len(form.fields)]

InitialValues ==
    ReconcileSelectValues(
        [k \in Keys |-> (CHOOSE f \in Fields : f.key = k).default])

\* A checkbox that was switched on and off again holds "false", which counts.
RequiredMissing == \E f \in Fields : f.required /\ Trim(values[f.key]) = ""

ReadOnly == mode = "read-only"
LockedReadOnly == ReadOnly /\ form.gated

-----------------------------------------------------------------------------
(* The mode of the panel, and its renders *)

ClearedTimers == {}

\* Mutant: the pending auto-disable is not cleared.
SwitchBesideTimer(newMode) ==
    /\ mode' = newMode
    /\ timers' = timers \cup (IF newMode = "read-write" THEN {MODE_TIMEOUT} ELSE {})
    /\ since' = 0

Switch(newMode) ==
    /\ mode' = newMode
    /\ timers' = ClearedTimers \cup (IF newMode = "read-write" THEN {MODE_TIMEOUT} ELSE {})
    /\ since' = 0

\* setMode: a read-write of too many tools is refused.
SwitchWithinBudget(newMode) ==
    IF newMode = "read-write" /\ overBudget
    THEN UNCHANGED <<mode, timers, since>>
    ELSE Switch(newMode)

\* A render of the panel gives ReactMarkdown new components, which mounts the
\* forms of the transcript anew; those of a tab are kept.
Rerender ==
    values' = IF inTranscript /\ <<mode, timers, overBudget, submissionBusy>>'
                                   # <<mode, timers, overBudget, submissionBusy>>
              THEN InitialValues ELSE values

-----------------------------------------------------------------------------
(* The form *)

Selectable(field) ==
    CASE field.type = "select" ->
            {field.options[i].value : i \in {j \in DOMAIN field.options :
                Offers(field, values, field.options[j].value)}}
            \cup (IF field.autoSelect THEN {} ELSE {""})
      [] field.type = "checkbox" -> {"true", "false"}
      [] field.type = "text" -> Texts

\* Mutant: a change leaves the other fields as they are.
SetOnlyField(field, v) ==
    /\ values' = [values EXCEPT ![field.key] = v]
    /\ UNCHANGED <<form, inTranscript, submissionBusy, params>>

SetField(field, v) ==
    /\ values' = ReconcileSelectValues([values EXCEPT ![field.key] = v])
    /\ UNCHANGED <<form, inTranscript, submissionBusy, params>>

EditValue ==
    /\ \E field \in Fields : \E v \in Selectable(field) : SetField(field, v)
    /\ UNCHANGED modeVars

\* What a field says comes before what submit.params says of its key.
Merged ==
    LET Says(f) == IF f.type = "checkbox" THEN values[f.key] = "true"
                   ELSE Trim(values[f.key]) # ""
        said == {f.key : f \in {g \in Fields : Says(g)}}
    IN  [k \in said \cup DOMAIN form.params |->
            IF k \in said THEN Trim(values[k]) ELSE form.params[k]]

\* What is sent in read-write starts its time again; what is queued or dropped
\* does not.  With queueing enabled the panel is busy afterwards.
HandleSubmit ==
    /\ ~RequiredMissing /\ ~LockedReadOnly /\ ~submissionBusy
    /\ params' = [of |-> Merged, mode |-> mode]
    /\ submissionBusy' \in BOOLEAN
    /\ \/ UNCHANGED <<mode, timers, since>>
       \/ ~ReadOnly /\ SwitchWithinBudget(mode)
    /\ UNCHANGED <<form, inTranscript, overBudget>>
    /\ Rerender

\* Another action of the panel is taken or ends.
SubmissionStateChanges ==
    /\ submissionBusy' = ~submissionBusy
    /\ UNCHANGED <<form, inTranscript, params, modeVars>>
    /\ Rerender

\* Anything else of the panel changes.
PanelChanges ==
    /\ inTranscript /\ values' = InitialValues
    /\ UNCHANGED <<form, inTranscript, submissionBusy, params, modeVars>>

-----------------------------------------------------------------------------
(* The panel *)

SetMode ==
    /\ \E newMode \in {"read-only", "read-write"} : SwitchWithinBudget(newMode)
    /\ UNCHANGED <<form, inTranscript, submissionBusy, params, overBudget>>
    /\ Rerender

\* Time passes; a timer that runs out switches to read-only and clears them.
Tick ==
    /\ timers # {}
    /\ IF 1 \in timers
       THEN mode' = "read-only" /\ timers' = ClearedTimers
       ELSE mode' = mode /\ timers' = {t - 1 : t \in timers}
    /\ since' = IF since = Unswitched THEN since ELSE since + 1
    /\ UNCHANGED <<form, inTranscript, submissionBusy, params, overBudget>>
    /\ Rerender

BudgetsArrive ==
    /\ overBudget' = ~overBudget
    /\ UNCHANGED <<form, inTranscript, submissionBusy, params, mode, timers, since>>
    /\ Rerender

Remount ==
    /\ \E defaultMode \in {"read-only", "read-write"} : mode' = defaultMode
    /\ timers' = ClearedTimers
    /\ since' = Unswitched
    /\ values' = InitialValues
    /\ submissionBusy' = FALSE
    /\ UNCHANGED <<form, inTranscript, params, overBudget>>

-----------------------------------------------------------------------------
NoParams == [of |-> <<>>, mode |-> "none"]

FormInit ==
    /\ form \in Forms
    /\ inTranscript \in BOOLEAN
    /\ values = InitialValues
    /\ submissionBusy = FALSE
    /\ params = NoParams
    /\ mode \in {"read-only", "read-write"}
    /\ timers = {}
    /\ overBudget = FALSE
    /\ since = Unswitched

FormNext ==
    \/ EditValue \/ HandleSubmit \/ SubmissionStateChanges \/ PanelChanges
    \/ SetMode \/ Tick \/ BudgetsArrive \/ Remount

FormSpec == FormInit /\ [][FormNext]_<<formVars, modeVars>>

-----------------------------------------------------------------------------
(* Properties *)

\* Whatever the user changed, in whatever order, and whenever the form was mounted
\* anew, it asks for nothing it does not offer: each select that is sent has an
\* option that the other values sent with it allow, unless submit.params speaks for
\* a field; a required field other than a checkbox is sent, and a submit that needs
\* read-write was sent in read-write.
SubmittedComplete ==
    LET Sent(k) == IF k \in DOMAIN params.of THEN params.of[k] ELSE ""
        sent == [k \in Keys |-> Sent(k)]
    IN  params # NoParams =>
            /\ \A f \in Fields :
                /\ f.type = "select" /\ sent[f.key] # "" /\ Keys \cap DOMAIN form.params = {} =>
                       Offers(f, sent, sent[f.key])
                /\ f.required /\ f.type # "checkbox" => sent[f.key] # ""
            /\ form.gated => params.mode = "read-write"

\* Read-write that was switched on, or kept by a message, ends exactly MODE_TIMEOUT
\* after the last time it was, whatever was switched, refused or sent before.
ReadWriteIsTimed ==
    since # Unswitched =>
        timers = IF mode = "read-write" THEN {MODE_TIMEOUT - since} ELSE {}

\* What the architecture document says of every read-write: it was activated, and
\* a timer is to disable it.
ReadWriteIsActivated == mode = "read-write" => timers # {}
=============================================================================
