--------------------------- MODULE MCToolApproval ---------------------------
(***************************************************************************)
(* ToolApproval for TLC: calls c1 and c2 run in parallel in one turn, c3   *)
(* in another.                                                             *)
(***************************************************************************)
EXTENDS ToolApproval, TLC

CONSTANTS t1, t2, c1, c2, c3

MCTurnOf == (c1 :> t1) @@ (c2 :> t1) @@ (c3 :> t2)
MCSettings == (c1 :> {"ask"}) @@ (c2 :> {"ask_on_write"}) @@ (c3 :> {"off"})
=============================================================================
