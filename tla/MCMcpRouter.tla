----------------------------- MODULE MCMcpRouter -----------------------------
(***************************************************************************)
(* McpRouter for TLC: two servers that share the tool t1, and two calls.   *)
(***************************************************************************)
EXTENDS McpRouter, TLC

CONSTANTS s1, s2, t1, t2, c1, c2, v1, v2, v3

\* The calls use the shared tool.
MCToolOf == [c \in Calls |-> t1]
MCOffers == (s1 :> {t1}) @@ (s2 :> {t1, t2})
MCBoot   == (s1 :> v1) @@ (s2 :> None)

\* v2 differs from v1 in the headers to forward only.
MCCompared == [v \in Configs |-> IF v = v2 THEN v1 ELSE v]

\* At the start s1 is deployed as it is booted, and s2 is there to be discovered.
MCInit == Init /\ deployed = [s \in Servers |-> v1]
MCFairSpec == MCInit /\ [][Next]_vars /\ Fairness
=============================================================================
