-------------------------------- MODULE Texts --------------------------------
(***************************************************************************)
(* What the components that read texts and lists have in common: a place   *)
(* that is looked for, and the items that are left of a sequence.          *)
(***************************************************************************)
EXTENDS Naturals, Sequences

\* The first of some positions, or 0.
FirstOf(positions) ==
    IF positions = {} THEN 0 ELSE CHOOSE i \in positions : \A j \in positions : i <= j

\* The items of a sequence at some positions, in their order.
ItemsAt(s, positions) ==
    LET first[n \in 0 .. Len(s)] ==
          IF n = 0 THEN <<>>
          ELSE IF n \in positions THEN Append(first[n - 1], s[n]) ELSE first[n - 1]
    IN  first[Len(s)]

\* All items but some.
Without(s, dropped) == ItemsAt(s, {n \in DOMAIN s : s[n] \notin dropped})
=============================================================================
