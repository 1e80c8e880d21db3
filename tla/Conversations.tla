--------------------------- MODULE Conversations ---------------------------
(***************************************************************************)
(* What the session layer promises its callers, with no session objects,   *)
(* locks, wait channels or registrations in it: a conversation (a session  *)
(* ID) is used by one turn at a time, a turn adds exactly one user and one *)
(* assistant message to the log it found, and a log is only ever forgotten *)
(* as a whole, between turns.  ChatSessions implements it.                 *)
(***************************************************************************)
EXTENDS SessionWindow

CONSTANTS IDs,         \* session IDs, chosen by clients or generated
          Turns,       \* the chat turns that may run
          MaxMessages  \* limit of the message window

VARIABLES holders,  \* holders[i]: the turns now using conversation i
          phase,    \* phase[i]: how far the current turn of i has come
          log       \* log[i]: the messages remembered for i

vars == <<holders, phase, log>>

Phases == {"idle", "begun", "asked", "answered"}

Init ==
    /\ holders = [i \in IDs |-> {}]
    /\ phase = [i \in IDs |-> "idle"]
    /\ log = [i \in IDs |-> <<>>]

Begin(t, i) ==
    /\ holders[i] = {}
    /\ holders' = [holders EXCEPT ![i] = {t}]
    /\ phase' = [phase EXCEPT ![i] = "begun"]
    /\ UNCHANGED log

Say(t, i, from, to, role) ==
    /\ holders[i] = {t}
    /\ phase[i] = from
    /\ phase' = [phase EXCEPT ![i] = to]
    /\ log' = [log EXCEPT ![i] =
                 AddMessage(@, [role |-> role, turn |-> t], MaxMessages)]
    /\ UNCHANGED holders

Ask(t, i)    == Say(t, i, "begun", "asked", "user")
Answer(t, i) == Say(t, i, "asked", "answered", "assistant")

End(t, i) ==
    /\ holders[i] = {t}
    /\ phase[i] = "answered"
    /\ holders' = [holders EXCEPT ![i] = {}]
    /\ phase' = [phase EXCEPT ![i] = "idle"]
    /\ UNCHANGED log

Forget(i) ==
    /\ holders[i] = {}
    /\ log' = [log EXCEPT ![i] = <<>>]
    /\ UNCHANGED <<holders, phase>>

Next ==
    \E i \in IDs :
        \/ Forget(i)
        \/ \E t \in Turns : Begin(t, i) \/ Ask(t, i) \/ Answer(t, i) \/ End(t, i)

Spec == Init /\ [][Next]_vars
=============================================================================
