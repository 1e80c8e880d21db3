----------------------------- MODULE MCTurnView -----------------------------
(***************************************************************************)
(* TurnView for TLC: a turn with two calls of the same tool, and another   *)
(* with a third one.                                                       *)
(***************************************************************************)
EXTENDS TurnView

CONSTANTS c1, c2, c3

MCBatchOf == << <<c1, c2>>, <<c3>> >>
MCToolOf(c) == "tool"
=============================================================================
