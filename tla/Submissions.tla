---------------------------- MODULE Submissions ----------------------------
(***************************************************************************)
(* What the chat panel promises about messages, whoever submits them: one  *)
(* request at a time, one submission waiting behind it, and every          *)
(* submission is sent at most once.  A waiting one is sent before anything *)
(* submitted after it, or it is given up.                                  *)
(***************************************************************************)
CONSTANTS Msgs,     \* the submissions: a click, a typed line, a host prompt
          None      \* not one of them

VARIABLES running,  \* the submission whose request is current, or None
          waiting,  \* the submission in the one slot, or None
          taken     \* every submission that was ever sent or put in the slot

vars == <<running, waiting, taken>>

Init ==
    /\ running = None
    /\ waiting = None
    /\ taken = {}

Start(m) ==
    /\ running = None
    /\ waiting = None
    /\ m \notin taken
    /\ running' = m
    /\ taken' = taken \union {m}
    /\ UNCHANGED waiting

Enqueue(m) ==
    /\ waiting = None
    /\ m \notin taken
    /\ waiting' = m
    /\ taken' = taken \union {m}
    /\ UNCHANGED running

Promote ==
    /\ running = None
    /\ waiting # None
    /\ running' = waiting
    /\ waiting' = None
    /\ UNCHANGED taken

Finish ==
    /\ running # None
    /\ running' = None
    /\ UNCHANGED <<waiting, taken>>

Discard ==
    /\ waiting # None
    /\ waiting' = None
    /\ UNCHANGED <<running, taken>>

Cancel ==
    /\ running' = None
    /\ waiting' = None
    /\ UNCHANGED taken

Next ==
    \/ \E m \in Msgs: Start(m) \/ Enqueue(m)
    \/ Promote
    \/ Finish
    \/ Discard
    \/ Cancel

Spec == Init /\ [][Next]_vars
=============================================================================
