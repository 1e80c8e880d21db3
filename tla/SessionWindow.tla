--------------------------- MODULE SessionWindow ---------------------------
(***************************************************************************)
(* The sliding message window of one chat session (session/session.go).    *)
(* A message is a record with at least a field role; everything else it    *)
(* carries is opaque to the window.                                        *)
(***************************************************************************)
EXTENDS Integers, Sequences

DefaultMaxMessages == 40

Roles == {"system", "user", "assistant"}

\* NewManager and trimWindow both replace a non-positive limit by the default.
WindowLimit(max) == IF max <= 0 THEN DefaultMaxMessages ELSE max

\* sysCount: how many system messages the history starts with.
SysCount(msgs) ==
    CHOOSE n \in 0 .. Len(msgs) :
        /\ \A i \in 1 .. n : msgs[i].role = "system"
        /\ n < Len(msgs) => msgs[n + 1].role # "system"

\* The oldest messages after the leading system messages make room for the
\* excess; when there are not enough of them only the system messages stay.
TrimWindow(msgs, max) ==
    LET excess    == Len(msgs) - WindowLimit(max)
        sys       == SysCount(msgs)
        preserved == SubSeq(msgs, 1, sys)
        rest      == SubSeq(msgs, sys + 1, Len(msgs))
    IN  IF excess <= 0 THEN msgs
        ELSE IF excess >= Len(rest) THEN preserved
        ELSE preserved \o SubSeq(rest, excess + 1, Len(rest))

AddMessage(msgs, msg, max) == TrimWindow(Append(msgs, msg), max)
=============================================================================
