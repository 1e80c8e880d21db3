---------------------------- MODULE WidgetsProofs ----------------------------
(***************************************************************************)
(* The safety properties of the parts that keep to themselves: a form and  *)
(* the mode that locks it, for any cascade of selects and any timeout; the *)
(* split, for any row, bounds and deltas; the payloads of the canvas, for  *)
(* any number of wrong members; the charts found in an answer, for any     *)
(* symbols and any length; and the canvas fences that the service takes    *)
(* out of it, for any answers and any cuts into tokens.                    *)
(***************************************************************************)
EXTENDS CanvasFences, CanvasPayload, ActionForm, AssistantSplit, InlineCharts,
        SequenceTheorems, FiniteSetTheorems, WellFoundedInduction, TLAPS

-----------------------------------------------------------------------------
(* Numbers *)

\* Every nonempty set of numbers has a least one.
LEMMA Minimum ==
    ASSUME NEW T, T \subseteq Nat, T # {}
    PROVE  \E x \in T : \A y \in T : x <= y
<1>1. IsWellFoundedOn(OpToRel(<, Nat), Nat)
  BY NatLessThanWellFounded
<1>2. PICK x \in T : \A y \in T : ~(<<y, x>> \in OpToRel(<, Nat))
  BY <1>1, WFMin
<1>3. \A y \in T : ~(y < x)
  BY <1>2 DEF OpToRel
<1>4. QED
  BY <1>3

\* Induction, on a set of numbers.
LEMMA Induction ==
    ASSUME NEW N, 0 \in N, \A n \in Nat : n \in N => n + 1 \in N
    PROVE  \A n \in Nat : n \in N
<1> DEFINE T == Nat \ N
<1>1. SUFFICES ASSUME T # {} PROVE FALSE
  OBVIOUS
<1>2. PICK x \in T : \A y \in T : x <= y
  <2>1. T \subseteq Nat
    OBVIOUS
  <2> HIDE DEF T
  <2>2. QED
    BY <1>1, <2>1, Minimum
<1>3. x # 0 /\ x - 1 \in Nat /\ x - 1 \in N
  BY <1>2
<1>4. QED
  BY <1>2, <1>3

-----------------------------------------------------------------------------
(* The items of a sequence that are kept, and a place that is looked for *)

\* The function that ItemsAt defines by recursion.
Taking(s, I, n, first) ==
    first = [i \in 0 .. n |->
               IF i = 0 THEN <<>>
               ELSE IF i \in I THEN Append(first[i - 1], s[i]) ELSE first[i - 1]]

LEMMA TakingExists ==
    ASSUME NEW s, NEW I
    PROVE  \A n \in Nat : \E first : Taking(s, I, n, first)
<1> DEFINE N == {n \in Nat : \E first : Taking(s, I, n, first)}
<1>1. 0 \in N
  <2> DEFINE none == [i \in 0 .. 0 |-> <<>>]
  <2>1. Taking(s, I, 0, none)
    BY DEF Taking
  <2>2. QED
    BY <2>1
<1>2. ASSUME NEW n \in Nat, n \in N PROVE n + 1 \in N
  <2>1. PICK first : Taking(s, I, n, first)
    BY <1>2
  <2> DEFINE next(f, i) == IF i \in I THEN Append(f[i - 1], s[i]) ELSE f[i - 1]
             more == [i \in 0 .. n + 1 |-> IF i = n + 1 THEN next(first, i) ELSE first[i]]
             step(f) == [i \in 0 .. n + 1 |-> IF i = 0 THEN <<>> ELSE next(f, i)]
  <2>2. ASSUME NEW i \in 0 .. n + 1 PROVE more[i] = step(more)[i]
    <3>1. CASE i = n + 1
      BY <3>1
    <3>2. CASE i # n + 1
      <4>1. i \in 0 .. n /\ (i # 0 => i - 1 \in 0 .. n)
        BY <3>2
      <4>2. first[i] = IF i = 0 THEN <<>> ELSE next(first, i)
        BY <2>1, <4>1 DEF Taking
      <4>3. QED
        BY <3>2, <4>1, <4>2
    <3>3. QED
      BY <3>1, <3>2
  <2>3. more = step(more)
    <3>1. DOMAIN more = 0 .. n + 1 /\ DOMAIN step(more) = 0 .. n + 1
      OBVIOUS
    <3>2. QED
      BY <2>2, <3>1
  <2>4. Taking(s, I, n + 1, more)
    BY <2>3 DEF Taking
  <2>5. QED
    BY <2>4
<1>3. QED
  <2>1. \A n \in Nat : n \in N
    <3> HIDE DEF N
    <3>1. QED
      BY <1>1, <1>2, Induction
  <2>2. QED
    BY <2>1

\* ItemsAt is that function, at the end.
LEMMA ItemsAre ==
    ASSUME NEW X, NEW s \in Seq(X), NEW I
    PROVE  \E first : Taking(s, I, Len(s), first) /\ ItemsAt(s, I) = first[Len(s)]
<1> DEFINE len == Len(s)
           chosen == CHOOSE first :
             first = [n \in 0 .. len |->
                        IF n = 0 THEN <<>>
                        ELSE IF n \in I THEN Append(first[n - 1], s[n]) ELSE first[n - 1]]
<1>1. ItemsAt(s, I) = chosen[len]
  BY DEF ItemsAt
<1>2. len \in Nat
  OBVIOUS
<1>3. \E first : Taking(s, I, len, first)
  BY <1>2, TakingExists
<1>4. Taking(s, I, len, chosen)
  BY <1>3 DEF Taking
<1>5. QED
  BY <1>1, <1>4

\* Where two texts agree, and two sets of positions, the same items are taken.
LEMMA SameItems ==
    ASSUME NEW n \in Nat, NEW s, NEW t, NEW I, NEW J,
           \A i \in 1 .. n : s[i] = t[i] /\ (i \in I <=> i \in J),
           NEW k \in Nat, NEW l \in Nat, n <= k, n <= l,
           NEW f, Taking(s, I, k, f), NEW g, Taking(t, J, l, g)
    PROVE  f[n] = g[n]
<1> DEFINE N == {m \in Nat : m <= n => f[m] = g[m]}
<1>1. 0 \in N
  BY DEF Taking
<1>2. ASSUME NEW m \in Nat, m \in N PROVE m + 1 \in N
  <2>1. SUFFICES ASSUME m + 1 <= n PROVE f[m + 1] = g[m + 1]
    OBVIOUS
  <2>2. /\ m + 1 \in 0 .. k /\ m + 1 \in 0 .. l /\ m + 1 # 0 /\ (m + 1) - 1 = m
        /\ m + 1 \in 1 .. n
    BY <2>1
  <2>3. f[m + 1] = IF m + 1 \in I THEN Append(f[m], s[m + 1]) ELSE f[m]
    BY <2>2 DEF Taking
  <2>4. g[m + 1] = IF m + 1 \in J THEN Append(g[m], t[m + 1]) ELSE g[m]
    BY <2>2 DEF Taking
  <2>5. f[m] = g[m]
    BY <1>2, <2>1
  <2>6. s[m + 1] = t[m + 1] /\ (m + 1 \in I <=> m + 1 \in J)
    BY <2>2
  <2>7. QED
    BY <2>3, <2>4, <2>5, <2>6
<1>3. \A m \in Nat : m \in N
  <2> HIDE DEF N
  <2>1. QED
    BY <1>1, <1>2, Induction
<1>4. QED
  BY <1>3

LEMMA ItemsOfEmpty == ASSUME NEW I PROVE ItemsAt(<<>>, I) = <<>>
<1>1. <<>> \in Seq({}) /\ Len(<<>>) = 0
  OBVIOUS
<1>2. PICK f : Taking(<<>>, I, 0, f) /\ ItemsAt(<<>>, I) = f[0]
  BY <1>1, ItemsAre
<1>3. QED
  BY <1>2 DEF Taking

\* One item more, if its position is one of them.
LEMMA ItemsOfAppend ==
    ASSUME NEW X, NEW s \in Seq(X), NEW x \in X, NEW I, NEW J,
           \A i \in 1 .. Len(s) : i \in I <=> i \in J
    PROVE  ItemsAt(Append(s, x), I)
             = IF Len(s) + 1 \in I THEN Append(ItemsAt(s, J), x) ELSE ItemsAt(s, J)
<1> DEFINE n == Len(s)
           t == Append(s, x)
<1>1. /\ n \in Nat /\ t \in Seq(X) /\ Len(t) = n + 1 /\ t[n + 1] = x
      /\ \A i \in 1 .. n : s[i] = t[i]
  BY AppendProperties
<1>2. PICK f : Taking(s, J, n, f) /\ ItemsAt(s, J) = f[n]
  BY ItemsAre
<1>3. PICK g : Taking(t, I, n + 1, g) /\ ItemsAt(t, I) = g[n + 1]
  BY <1>1, ItemsAre
<1> HIDE DEF t, n
<1>4. f[n] = g[n]
  <2>1. \A i \in 1 .. n : s[i] = t[i] /\ (i \in J <=> i \in I)
    BY <1>1 DEF n
  <2>2. n + 1 \in Nat /\ n <= n /\ n <= n + 1
    BY <1>1
  <2>3. QED
    BY <1>1, <1>2, <1>3, <2>1, <2>2, SameItems
<1>5. g[n + 1] = IF n + 1 \in I THEN Append(g[n], t[n + 1]) ELSE g[n]
  <2>1. n + 1 \in 0 .. n + 1 /\ n + 1 # 0 /\ (n + 1) - 1 = n
    BY <1>1
  <2>2. QED
    BY <1>3, <2>1 DEF Taking
<1>6. QED
  BY <1>1, <1>2, <1>3, <1>4, <1>5 DEF n, t

\* A text of some length is empty, or one symbol behind a shorter text.
LEMMA Shorter ==
    ASSUME NEW X, NEW n \in Nat, NEW s \in Seq(X), Len(s) = n + 1
    PROVE  \E r \in Seq(X), x \in X : Len(r) = n /\ s = Append(r, x)
<1>1. s # <<>>
  OBVIOUS
<1>2. QED
  BY <1>1, SequenceEmptyOrAppend, AppendProperties

LEMMA WithoutOfAppend ==
    ASSUME NEW X, NEW dropped, NEW s \in Seq(X), NEW x \in X
    PROVE  Without(Append(s, x), dropped)
             = IF x \in dropped THEN Without(s, dropped) ELSE Append(Without(s, dropped), x)
<1> DEFINE t == Append(s, x)
           I == {i \in DOMAIN t : t[i] \notin dropped}
           J == {i \in DOMAIN s : s[i] \notin dropped}
<1>1. /\ Len(s) \in Nat /\ DOMAIN s = 1 .. Len(s) /\ DOMAIN t = 1 .. Len(s) + 1
      /\ t[Len(s) + 1] = x /\ \A i \in 1 .. Len(s) : s[i] = t[i]
  BY AppendProperties
<1>2. \A i \in 1 .. Len(s) : i \in I <=> i \in J
  BY <1>1
<1>3. Len(s) + 1 \in I <=> x \notin dropped
  BY <1>1
<1>4. Without(t, dropped) = ItemsAt(t, I) /\ Without(s, dropped) = ItemsAt(s, J)
  BY DEF Without
<1> HIDE DEF I, J
<1>5. QED
  BY <1>2, <1>3, <1>4, ItemsOfAppend

LEMMA WithoutOfEmpty == ASSUME NEW dropped PROVE Without(<<>>, dropped) = <<>>
  BY ItemsOfEmpty DEF Without

LEMMA ItemsAreItems ==
    ASSUME NEW X, NEW I
    PROVE  \A s \in Seq(X) : ItemsAt(s, I) \in Seq(X)
<1> DEFINE N == {n \in Nat : \A s \in Seq(X) : Len(s) = n => ItemsAt(s, I) \in Seq(X)}
<1>1. 0 \in N
  <2>1. \A s \in Seq(X) : Len(s) = 0 => s = <<>>
    BY EmptySeq
  <2>2. <<>> \in Seq(X)
    OBVIOUS
  <2>3. QED
    BY <2>1, <2>2, ItemsOfEmpty
<1>2. ASSUME NEW n \in Nat, n \in N PROVE n + 1 \in N
  <2>1. SUFFICES ASSUME NEW s \in Seq(X), Len(s) = n + 1
                 PROVE  ItemsAt(s, I) \in Seq(X)
    OBVIOUS
  <2>2. PICK r \in Seq(X), x \in X : Len(r) = n /\ s = Append(r, x)
    BY <2>1, Shorter
  <2>3. ItemsAt(r, I) \in Seq(X)
    BY <1>2, <2>2
  <2>4. ItemsAt(s, I) = IF n + 1 \in I THEN Append(ItemsAt(r, I), x) ELSE ItemsAt(r, I)
    BY <2>2, ItemsOfAppend
  <2>5. QED
    BY <2>3, <2>4, AppendProperties
<1>3. \A n \in Nat : n \in N
  <2> HIDE DEF N
  <2>1. QED
    BY <1>1, <1>2, Induction
<1>4. QED
  BY <1>3

\* The words of two texts are those of the one, then those of the other.
LEMMA WithoutOfBoth ==
    ASSUME NEW X, NEW dropped
    PROVE  \A front, s \in Seq(X) :
             Without(front \o s, dropped) = Without(front, dropped) \o Without(s, dropped)
<1> DEFINE Both(front, s) ==
             Without(front \o s, dropped) = Without(front, dropped) \o Without(s, dropped)
           N == {n \in Nat : \A front, s \in Seq(X) : Len(s) = n => Both(front, s)}
<1>0. \A s \in Seq(X) : Without(s, dropped) \in Seq(X)
  <2>1. SUFFICES ASSUME NEW s \in Seq(X) PROVE Without(s, dropped) \in Seq(X)
    OBVIOUS
  <2>2. QED
    BY ItemsAreItems DEF Without
<1>a. \A n \in Nat, s \in Seq(X) :
        Len(s) = n + 1 => \E r \in Seq(X), x \in X : Len(r) = n /\ s = Append(r, x)
  BY Shorter
<1>b. \A s \in Seq(X), x \in X :
        Without(Append(s, x), dropped)
          = IF x \in dropped THEN Without(s, dropped) ELSE Append(Without(s, dropped), x)
  BY WithoutOfAppend
<1>c. \A front, r \in Seq(X), x \in X : Append(front \o r, x) = front \o Append(r, x)
  OBVIOUS
<1>1. 0 \in N
  <2>1. \A s \in Seq(X) : Len(s) = 0 => s = <<>>
    BY EmptySeq
  <2>2. \A front \in Seq(X) : Both(front, <<>>)
    BY <1>0, WithoutOfEmpty, ConcatEmptySeq
  <2>3. QED
    BY <2>1, <2>2
<1>2. ASSUME NEW n \in Nat, n \in N PROVE n + 1 \in N
  <2>1. SUFFICES ASSUME NEW front \in Seq(X), NEW s \in Seq(X), Len(s) = n + 1
                 PROVE  Both(front, s)
    OBVIOUS
  <2>2. PICK r \in Seq(X), x \in X : Len(r) = n /\ s = Append(r, x)
    BY <2>1, <1>a
  <2>3. front \o s = Append(front \o r, x) /\ front \o r \in Seq(X)
    BY <2>2, <1>c
  <2>4. Without(front \o r, dropped) = Without(front, dropped) \o Without(r, dropped)
    BY <1>2, <2>2
  <2>5. CASE x \in dropped
    BY <2>2, <2>3, <2>4, <2>5, <1>b
  <2>6. CASE x \notin dropped
    <3>1. Without(front \o s, dropped) = Append(Without(front, dropped) \o Without(r, dropped), x)
      BY <2>3, <2>4, <2>6, <1>b
    <3>2. Without(s, dropped) = Append(Without(r, dropped), x)
      BY <2>2, <2>6, <1>b
    <3>3. Without(front, dropped) \in Seq(X) /\ Without(r, dropped) \in Seq(X)
      BY <1>0, <2>2
    <3>4. Append(Without(front, dropped) \o Without(r, dropped), x)
            = Without(front, dropped) \o Append(Without(r, dropped), x)
      BY <2>2, <3>3, <1>c, ZenonT(30)
    <3>5. QED
      BY <3>1, <3>2, <3>4
  <2>7. QED
    BY <2>5, <2>6
<1>3. \A n \in Nat : n \in N
  <2> HIDE DEF N
  <2>1. QED
    BY <1>1, <1>2, Induction
<1>4. QED
  BY <1>3

\* If no word is left out, the words stay.
LEMMA WithoutOfItems ==
    ASSUME NEW X, NEW dropped, NEW I
    PROVE  \A s \in Seq(X) :
             (\A i \in 1 .. Len(s) : s[i] \notin dropped => i \in I)
               => Without(ItemsAt(s, I), dropped) = Without(s, dropped)
<1> DEFINE Left(s) == \A i \in 1 .. Len(s) : s[i] \notin dropped => i \in I
           N == {n \in Nat : \A s \in Seq(X) :
                   Len(s) = n /\ Left(s) => Without(ItemsAt(s, I), dropped) = Without(s, dropped)}
<1>1. 0 \in N
  <2>1. \A s \in Seq(X) : Len(s) = 0 => s = <<>>
    BY EmptySeq
  <2>2. QED
    BY <2>1, ItemsOfEmpty
<1>2. ASSUME NEW n \in Nat, n \in N PROVE n + 1 \in N
  <2>1. SUFFICES ASSUME NEW s \in Seq(X), Len(s) = n + 1, Left(s)
                 PROVE  Without(ItemsAt(s, I), dropped) = Without(s, dropped)
    OBVIOUS
  <2>2. PICK r \in Seq(X), x \in X : Len(r) = n /\ s = Append(r, x)
    BY <2>1, Shorter
  <2>3. s[n + 1] = x /\ \A i \in 1 .. n : s[i] = r[i]
    BY <2>2, AppendProperties
  <2>4. Left(r)
    <3>1. SUFFICES ASSUME NEW i \in 1 .. n, r[i] \notin dropped PROVE i \in I
      BY <2>2
    <3>2. i \in 1 .. Len(s)
      BY <2>1
    <3>3. QED
      BY <2>1, <2>3, <3>1, <3>2
  <2>5. Without(ItemsAt(r, I), dropped) = Without(r, dropped)
    BY <1>2, <2>2, <2>4
  <2>6. ItemsAt(s, I) = IF n + 1 \in I THEN Append(ItemsAt(r, I), x) ELSE ItemsAt(r, I)
    BY <2>2, ItemsOfAppend
  <2>7. ItemsAt(r, I) \in Seq(X)
    BY ItemsAreItems
  <2>8. x \notin dropped => n + 1 \in I
    BY <2>1, <2>3
  <2>9. Without(Append(ItemsAt(r, I), x), dropped)
          = IF x \in dropped THEN Without(r, dropped) ELSE Append(Without(r, dropped), x)
    BY <2>5, <2>7, WithoutOfAppend
  <2>10. Without(s, dropped) = IF x \in dropped THEN Without(r, dropped) ELSE Append(Without(r, dropped), x)
    BY <2>2, WithoutOfAppend
  <2>11. QED
    BY <2>5, <2>6, <2>8, <2>9, <2>10
<1>3. \A n \in Nat : n \in N
  <2> HIDE DEF N
  <2>1. QED
    BY <1>1, <1>2, Induction
<1>4. QED
  BY <1>3

\* What is left of a sequence, and that all of it is when nothing is dropped.
LEMMA WithoutFacts ==
    ASSUME NEW X, NEW dropped
    PROVE  \A s \in Seq(X) :
             /\ Without(s, dropped) \in Seq(X \ dropped)
             /\ s \in Seq(X \ dropped) => Without(s, dropped) = s
<1> DEFINE Good(s) == /\ Without(s, dropped) \in Seq(X \ dropped)
                      /\ s \in Seq(X \ dropped) => Without(s, dropped) = s
           N == {n \in Nat : \A s \in Seq(X) : Len(s) = n => Good(s)}
<1>1. 0 \in N
  <2>1. \A s \in Seq(X) : Len(s) = 0 => s = <<>>
    BY EmptySeq
  <2>2. <<>> \in Seq(X \ dropped)
    OBVIOUS
  <2>3. QED
    BY <2>1, <2>2, WithoutOfEmpty
<1>2. ASSUME NEW n \in Nat, n \in N PROVE n + 1 \in N
  <2>1. SUFFICES ASSUME NEW s \in Seq(X), Len(s) = n + 1 PROVE Good(s)
    OBVIOUS
  <2>2. PICK r \in Seq(X), x \in X : Len(r) = n /\ s = Append(r, x)
    BY <2>1, Shorter
  <2>3. Good(r)
    BY <1>2, <2>2
  <2>4. Without(s, dropped) = IF x \in dropped THEN Without(r, dropped) ELSE Append(Without(r, dropped), x)
    BY <2>2, WithoutOfAppend
  <2>5. Without(s, dropped) \in Seq(X \ dropped)
    <3>1. Without(r, dropped) \in Seq(X \ dropped)
      BY <2>3
    <3>2. CASE x \in dropped
      BY <2>4, <3>1, <3>2
    <3>3. CASE x \notin dropped
      <4>1. x \in X \ dropped
        BY <2>2, <3>3
      <4>2. Append(Without(r, dropped), x) \in Seq(X \ dropped)
        BY <3>1, <4>1, AppendProperties
      <4>3. QED
        BY <2>4, <3>3, <4>2
    <3>4. QED
      BY <3>2, <3>3
  <2>6. ASSUME s \in Seq(X \ dropped) PROVE Without(s, dropped) = s
    <3>1. Len(s) = n + 1 /\ s[n + 1] = x /\ \A i \in 1 .. n : s[i] = r[i]
      BY <2>2, AppendProperties
    <3>2. \A i \in 1 .. Len(s) : s[i] \in X \ dropped
      BY <2>6, ElementOfSeq
    <3>3. x \notin dropped
      BY <3>1, <3>2
    <3>4. \A i \in 1 .. Len(r) : r[i] \in X \ dropped
      BY <2>2, <3>1, <3>2
    <3>5. r \in Seq(X \ dropped)
      BY <2>2, <3>4, IsASeq
    <3>6. QED
      BY <2>2, <2>3, <2>4, <3>3, <3>5
  <2>7. QED
    BY <2>5, <2>6
<1>3. \A n \in Nat : n \in N
  <2> HIDE DEF N
  <2>1. QED
    BY <1>1, <1>2, Induction
<1>4. QED
  BY <1>3

\* A place that is looked for is the first one, or 0.
LEMMA FirstOfIs ==
    ASSUME NEW T, T \subseteq Nat
    PROVE  /\ T = {} => FirstOf(T) = 0
           /\ T # {} => FirstOf(T) \in T /\ \A j \in T : FirstOf(T) <= j
<1>1. T = {} => FirstOf(T) = 0
  BY DEF FirstOf
<1>2. ASSUME T # {} PROVE FirstOf(T) \in T /\ \A j \in T : FirstOf(T) <= j
  <2>1. \E i \in T : \A j \in T : i <= j
    BY <1>2, Minimum
  <2>2. FirstOf(T) = CHOOSE i \in T : \A j \in T : i <= j
    BY <1>2 DEF FirstOf
  <2>3. QED
    BY <2>1, <2>2
<1>3. QED
  BY <1>1, <1>2

-----------------------------------------------------------------------------
(* The mode: one timer, that of the last switch to read-write *)

Switchable ==
    /\ mode \in {"read-only", "read-write"}
    /\ since \in 0 .. Unswitched
    /\ mode = "read-write" /\ since # Unswitched => since < MODE_TIMEOUT
    /\ timers = IF mode = "read-write" /\ since # Unswitched
                THEN {MODE_TIMEOUT - since} ELSE {}

\* ReadWriteIsTimed: whatever is switched, refused, sent or mounted anew, the
\* read-write that was switched on last, or kept by a message since, ends
\* MODE_TIMEOUT after it was (setMode of the hook and the timer it keeps).
THEOREM ReadWriteEnds == FormSpec => []ReadWriteIsTimed
<1>0. MODE_TIMEOUT \in Nat \ {0} /\ Unswitched = MODE_TIMEOUT + 1
  BY ActionFormAssumption DEF Unswitched
<1>1. FormInit => Switchable
  BY <1>0 DEF FormInit, Switchable
<1>2. Switchable /\ [FormNext]_<<formVars, modeVars>> => Switchable'
  <2> SUFFICES ASSUME Switchable, [FormNext]_<<formVars, modeVars>> PROVE Switchable'
    OBVIOUS
  <2>1. CASE UNCHANGED <<mode, timers, since>>
    BY <2>1 DEF Switchable, Unswitched
  <2>2. ASSUME NEW newMode \in {"read-only", "read-write"}, SwitchWithinBudget(newMode)
        PROVE  Switchable'
    <3>1. CASE Switch(newMode)
      BY <1>0, <3>1 DEF Switch, ClearedTimers, Switchable, Unswitched
    <3>2. QED
      BY <2>1, <2>2, <3>1 DEF SwitchWithinBudget
  <2>3. CASE Tick
    <3>1. mode = "read-write" /\ since # Unswitched /\ timers = {MODE_TIMEOUT - since}
      BY <2>3 DEF Tick, Switchable
    <3>2. since \in Nat /\ since < MODE_TIMEOUT /\ since' = since + 1
      BY <1>0, <2>3, <3>1 DEF Tick, Switchable
    <3>3. CASE 1 \in timers
      BY <1>0, <2>3, <3>2, <3>3 DEF Tick, ClearedTimers, Switchable, Unswitched
    <3>4. CASE 1 \notin timers
      <4>1. mode' = mode /\ timers' = {t - 1 : t \in timers}
        BY <2>3, <3>4 DEF Tick
      <4>2. timers' = {MODE_TIMEOUT - since'}
        <5>1. timers' = {(MODE_TIMEOUT - since) - 1}
          BY <3>1, <4>1
        <5>2. QED
          BY <1>0, <3>2, <5>1
      <4>3. since' < MODE_TIMEOUT
        BY <1>0, <3>1, <3>2, <3>4
      <4>4. QED
        BY <1>0, <3>1, <3>2, <4>1, <4>2, <4>3 DEF Switchable, Unswitched
    <3>5. QED
      BY <3>3, <3>4
  <2>4. CASE Remount
    BY <1>0, <2>4 DEF Remount, ClearedTimers, Switchable, Unswitched
  <2>5. CASE EditValue \/ SubmissionStateChanges \/ PanelChanges \/ BudgetsArrive
    BY <2>1, <2>5 DEF EditValue, SubmissionStateChanges, PanelChanges, BudgetsArrive, modeVars
  <2>6. CASE HandleSubmit
    <3>1. UNCHANGED <<mode, timers, since>> \/ SwitchWithinBudget(mode)
      BY <2>6 DEF HandleSubmit
    <3>2. mode \in {"read-only", "read-write"}
      BY DEF Switchable
    <3>3. QED
      BY <2>1, <2>2, <3>1, <3>2
  <2>7. CASE SetMode
    BY <2>2, <2>7 DEF SetMode
  <2>8. CASE UNCHANGED <<formVars, modeVars>>
    BY <2>1, <2>8 DEF modeVars
  <2>9. QED
    BY <2>3, <2>4, <2>5, <2>6, <2>7, <2>8 DEF FormNext
<1>3. Switchable => ReadWriteIsTimed
  BY DEF Switchable, ReadWriteIsTimed
<1>4. QED
  BY <1>1, <1>2, <1>3, PTL DEF FormSpec

-----------------------------------------------------------------------------
(* The values of a cascade of selects *)

Field(n) == form.fields[n]
Len1 == Len(form.fields)

\* What the assumption says of an option of the n-th field.
OptionIs(n, option) ==
    /\ option.value # "blanks"
    /\ \A k \in DOMAIN option.dependsOn :
        /\ "blanks" \notin option.dependsOn[k]
        /\ \E e \in 1 .. n - 1 :
            /\ Field(e).key = k
            /\ Field(e).type = "checkbox" => option.dependsOn[k] \subseteq {"true", ""}

\* What it says of the form at hand.
LEMMA CascadeIs ==
    ASSUME form \in Forms
    PROVE  /\ Len1 \in Nat /\ DOMAIN form.fields = 1 .. Len1
           /\ Fields = {Field(n) : n \in 1 .. Len1}
           /\ \A n, e \in 1 .. Len1 : Field(n).key = Field(e).key => n = e
           /\ Keys = {Field(n).key : n \in 1 .. Len1}
           /\ \A n \in 1 .. Len1 :
                /\ DOMAIN Field(n).options \subseteq Nat
                /\ \A i \in DOMAIN Field(n).options : OptionIs(n, Field(n).options[i])
<1>1. form.fields \in Seq(Range(form.fields))
  BY ActionFormAssumption
<1>2. Len1 \in Nat /\ DOMAIN form.fields = 1 .. Len1
  BY <1>1 DEF Len1
<1>3. Fields = {Field(n) : n \in 1 .. Len1}
  BY <1>2 DEF Fields, ToSet, Field
<1>4. ASSUME NEW n \in 1 .. Len1, NEW e \in 1 .. Len1, Field(n).key = Field(e).key PROVE n = e
  <2>1. IsInjective([i \in DOMAIN form.fields |-> form.fields[i].key])
    BY ActionFormAssumption
  <2>2. QED
    BY <1>2, <1>4, <2>1 DEF IsInjective, Field
<1>5. Keys = {Field(n).key : n \in 1 .. Len1}
  BY <1>3 DEF Keys
<1>6. ASSUME NEW n \in 1 .. Len1
      PROVE  /\ DOMAIN Field(n).options \subseteq Nat
             /\ \A i \in DOMAIN Field(n).options : OptionIs(n, Field(n).options[i])
  <2>1. Field(n).options \in Seq(Range(Field(n).options))
    BY <1>2, ActionFormAssumption DEF Field
  <2>2. DOMAIN Field(n).options \subseteq Nat
    BY <2>1
  <2>3. n \in DOMAIN form.fields
    BY <1>2
  <2>4. \A i \in DOMAIN form.fields[n].options :
            /\ form.fields[n].options[i].value # "blanks"
            /\ \A k \in DOMAIN form.fields[n].options[i].dependsOn :
                /\ "blanks" \notin form.fields[n].options[i].dependsOn[k]
                /\ \E e \in 1 .. n - 1 :
                    /\ form.fields[e].key = k
                    /\ form.fields[e].type = "checkbox" =>
                           form.fields[n].options[i].dependsOn[k] \subseteq {"true", ""}
    BY <2>3, ActionFormAssumption
  <2>5. QED
    BY <2>2, <2>4 DEF Field, OptionIs
<1>7. QED
  BY <1>2, <1>3, <1>4, <1>5, <1>6

\* The values fit the first fields of the form: a select has one of the options
\* that the others allow, or none.
Fits(n, vals) ==
    /\ DOMAIN vals = Keys
    /\ \A e \in 1 .. n : Field(e).type = "select" /\ vals[Field(e).key] # "" =>
                            Offers(Field(e), vals, vals[Field(e).key])

\* Options are offered by the values of earlier fields.
LEMMA OffersDepend ==
    ASSUME form \in Forms, NEW n \in 1 .. Len1, NEW vals, NEW vals1,
           \A e \in 1 .. n - 1 : vals1[Field(e).key] = vals[Field(e).key]
    PROVE  AvailableOptions(Field(n), vals1) = AvailableOptions(Field(n), vals)
<1>1. ASSUME NEW i \in DOMAIN Field(n).options, NEW k \in DOMAIN Field(n).options[i].dependsOn
      PROVE  vals1[k] = vals[k]
  <2>1. OptionIs(n, Field(n).options[i])
    BY <1>1, CascadeIs
  <2>2. QED
    BY <2>1, ZenonT(30) DEF OptionIs
<1>2. QED
  BY <1>1 DEF AvailableOptions

\* The function that ReconcileSelectValues defines by recursion.
Reconciling(vals, n, next) ==
    next = [i \in 0 .. n |-> IF i = 0 THEN vals ELSE Reconciled(next[i - 1], form.fields[i])]

LEMMA ReconcilingExists ==
    ASSUME NEW vals
    PROVE  \A n \in Nat : \E next : Reconciling(vals, n, next)
<1> DEFINE N == {n \in Nat : \E next : Reconciling(vals, n, next)}
<1>1. 0 \in N
  <2> DEFINE first == [i \in 0 .. 0 |-> vals]
  <2>1. Reconciling(vals, 0, first)
    BY DEF Reconciling
  <2>2. QED
    BY <2>1
<1>2. ASSUME NEW n \in Nat, n \in N PROVE n + 1 \in N
  <2>1. PICK next : Reconciling(vals, n, next)
    BY <1>2
  <2> DEFINE more == [i \in 0 .. n + 1 |->
                        IF i = n + 1 THEN Reconciled(next[n], form.fields[i]) ELSE next[i]]
             step(f) == [i \in 0 .. n + 1 |->
                           IF i = 0 THEN vals ELSE Reconciled(f[i - 1], form.fields[i])]
  <2>2. ASSUME NEW i \in 0 .. n + 1 PROVE more[i] = step(more)[i]
    <3>1. CASE i = n + 1
      BY <3>1
    <3>2. CASE i # n + 1
      <4>1. i \in 0 .. n /\ (i # 0 => i - 1 \in 0 .. n)
        BY <3>2
      <4>2. next[i] = IF i = 0 THEN vals ELSE Reconciled(next[i - 1], form.fields[i])
        BY <2>1, <4>1 DEF Reconciling
      <4>3. QED
        BY <3>2, <4>1, <4>2
    <3>3. QED
      BY <3>1, <3>2
  <2>3. more = step(more)
    <3>1. DOMAIN more = 0 .. n + 1 /\ DOMAIN step(more) = 0 .. n + 1
      OBVIOUS
    <3>2. QED
      BY <2>2, <3>1
  <2>4. Reconciling(vals, n + 1, more)
    BY <2>3 DEF Reconciling
  <2>5. QED
    BY <2>4
<1>3. QED
  <2>1. \A n \in Nat : n \in N
    <3> HIDE DEF N
    <3>1. QED
      BY <1>1, <1>2, Induction
  <2>2. QED
    BY <2>1

\* One field more: it gets a value that fits, the fields before it keep theirs.
LEMMA ReconciledFits ==
    ASSUME form \in Forms, NEW n \in Nat, n + 1 <= Len1, NEW vals, Fits(n, vals)
    PROVE  Fits(n + 1, Reconciled(vals, Field(n + 1)))
<1> DEFINE f == Field(n + 1)
           new == Reconciled(vals, f)
<1>0. n + 1 \in 1 .. Len1 /\ f.key \in Keys /\ 1 .. n \subseteq 1 .. Len1
  BY CascadeIs
<1>1. CASE f.type # "select" \/ Offers(f, vals, vals[f.key])
  <2>1. new = vals
    BY <1>1 DEF Reconciled
  <2>2. \A e \in 1 .. n + 1 : e \in 1 .. n \/ e = n + 1
    OBVIOUS
  <2>3. QED
    BY <1>1, <2>1, <2>2 DEF Fits
<1>2. CASE ~(f.type # "select" \/ Offers(f, vals, vals[f.key]))
  <2> DEFINE v == IF f.autoSelect /\ AvailableOptions(f, vals) # {}
                  THEN f.options[FirstOption(f, vals)].value ELSE ""
  <2>1. new = [vals EXCEPT ![f.key] = v]
    BY <1>2 DEF Reconciled
  <2>2. v # "" => Offers(f, vals, v)
    <3>1. SUFFICES ASSUME AvailableOptions(f, vals) # {}
                   PROVE  FirstOption(f, vals) \in AvailableOptions(f, vals)
      BY DEF Offers
    <3>2. AvailableOptions(f, vals) \subseteq Nat
      BY <1>0, CascadeIs DEF AvailableOptions
    <3>3. \E i \in AvailableOptions(f, vals) : \A j \in AvailableOptions(f, vals) : i <= j
      BY <3>1, <3>2, Minimum
    <3>4. QED
      BY <3>3 DEF FirstOption
  <2> HIDE DEF v
  <2>3. DOMAIN new = Keys /\ new[f.key] = v /\ \A k \in Keys : k # f.key => new[k] = vals[k]
    BY <1>0, <2>1 DEF Fits
  <2>4. \A e \in 1 .. n : Field(e).key \in Keys /\ new[Field(e).key] = vals[Field(e).key]
    <3>1. \A e \in 1 .. n : Field(e).key # f.key /\ Field(e).key \in Keys
      BY <1>0, CascadeIs
    <3>2. QED
      BY <2>3, <3>1
  <2>5. ASSUME NEW e \in 1 .. n + 1
        PROVE  AvailableOptions(Field(e), new) = AvailableOptions(Field(e), vals)
    <3>1. e \in 1 .. Len1 /\ 1 .. e - 1 \subseteq 1 .. n
      BY <1>0
    <3>2. \A d \in 1 .. e - 1 : new[Field(d).key] = vals[Field(d).key]
      BY <2>4, <3>1
    <3> HIDE DEF new
    <3>3. QED
      BY <3>1, <3>2, OffersDepend
  <2>6. ASSUME NEW e \in 1 .. n + 1, Field(e).type = "select", new[Field(e).key] # ""
        PROVE  Offers(Field(e), new, new[Field(e).key])
    <3>1. CASE e = n + 1
      BY <2>2, <2>3, <2>5, <2>6, <3>1 DEF Offers
    <3>2. CASE e \in 1 .. n
      <4>1. Offers(Field(e), vals, vals[Field(e).key])
        BY <2>4, <2>6, <3>2 DEF Fits
      <4>2. QED
        BY <2>4, <2>5, <3>2, <4>1 DEF Offers
    <3>3. QED
      BY <3>1, <3>2
  <2>7. QED
    BY <2>3, <2>6 DEF Fits
<1>3. QED
  BY <1>1, <1>2

\* The values of a form fit after every change.
LEMMA ReconcileFits ==
    ASSUME form \in Forms, NEW vals, DOMAIN vals = Keys
    PROVE  Fits(Len1, ReconcileSelectValues(vals))
<1> DEFINE chosen == CHOOSE next :
             next = [i \in 0 .. Len1 |->
                       IF i = 0 THEN vals ELSE Reconciled(next[i - 1], form.fields[i])]
<1>0. Len1 \in Nat
  BY CascadeIs
<1>1. ReconcileSelectValues(vals) = chosen[Len1]
  BY DEF ReconcileSelectValues, Len1
<1>2. Reconciling(vals, Len1, chosen)
  <2>1. \E next : Reconciling(vals, Len1, next)
    BY <1>0, ReconcilingExists
  <2>2. QED
    BY <2>1 DEF Reconciling
<1> HIDE DEF chosen
<1> DEFINE N == {n \in Nat : n <= Len1 => Fits(n, chosen[n])}
<1>3. 0 \in N
  <2>1. chosen[0] = vals
    BY <1>0, <1>2 DEF Reconciling
  <2>2. Fits(0, vals)
    BY DEF Fits
  <2>3. Fits(0, chosen[0])
    BY <2>1, <2>2
  <2>4. QED
    BY <2>3
<1>4. ASSUME NEW n \in Nat, n \in N PROVE n + 1 \in N
  <2>1. SUFFICES ASSUME n + 1 <= Len1 PROVE Fits(n + 1, chosen[n + 1])
    OBVIOUS
  <2>2. n <= Len1 /\ n + 1 \in 0 .. Len1 /\ n + 1 # 0 /\ (n + 1) - 1 = n
    BY <1>0, <2>1
  <2>3. chosen[n + 1] = Reconciled(chosen[n], Field(n + 1))
    BY <1>2, <2>2 DEF Reconciling, Field
  <2>4. Fits(n, chosen[n])
    BY <1>4, <2>2
  <2>5. QED
    BY <2>1, <2>3, <2>4, ReconciledFits
<1>5. \A n \in Nat : n \in N
  <2> HIDE DEF N
  <2>1. QED
    BY <1>3, <1>4, Induction
<1>6. QED
  BY <1>0, <1>1, <1>5

\* What was submitted fits too: what is sent otherwise than it is kept is the
\* blanks of a text and a checkbox that is off, and no option depends on those.
LEMMA MergedFits ==
    ASSUME form \in Forms, Fits(Len1, values), ~RequiredMissing
    PROVE  LET Sent(k) == IF k \in DOMAIN Merged THEN Merged[k] ELSE ""
               sends == [k \in Keys |-> Sent(k)]
           IN  \A f \in Fields :
                  /\ f.type = "select" /\ sends[f.key] # "" /\ Keys \cap DOMAIN form.params = {} =>
                         Offers(f, sends, sends[f.key])
                  /\ f.required /\ f.type # "checkbox" => sends[f.key] # ""
<1> DEFINE Sent(k) == IF k \in DOMAIN Merged THEN Merged[k] ELSE ""
           sends == [k \in Keys |-> Sent(k)]
           Says(f) == IF f.type = "checkbox" THEN values[f.key] = "true"
                      ELSE Trim(values[f.key]) # ""
           said == {f.key : f \in {g \in Fields : Says(g)}}
           Apart == Keys \cap DOMAIN form.params = {}
<1>1. /\ \A k \in said : k \in DOMAIN Merged /\ Merged[k] = Trim(values[k])
      /\ Apart => \A k \in Keys \ said : k \notin DOMAIN Merged
  BY DEF Merged
<1>s. ASSUME NEW n \in 1 .. Len1, Says(Field(n)), Field(n).type # "checkbox"
      PROVE  sends[Field(n).key] = Trim(values[Field(n).key])
  <2> DEFINE k == Field(n).key
  <2>1. k \in Keys /\ Field(n) \in Fields
    BY CascadeIs
  <2>2. k \in said
    BY <1>s, <2>1
  <2>3. k \in DOMAIN Merged /\ Merged[k] = Trim(values[k])
    BY <1>1, <2>2
  <2>4. QED
    BY <2>1, <2>3
<1>2. ASSUME NEW n \in 1 .. Len1, Field(n).type # "checkbox", Apart
      PROVE  sends[Field(n).key] = Trim(values[Field(n).key])
  <2> DEFINE k == Field(n).key
  <2>1. k \in Keys /\ Field(n) \in Fields
    BY CascadeIs
  <2>3. CASE ~Says(Field(n))
    <3>1. k \notin said
      <4>1. SUFFICES ASSUME NEW g \in Fields, Says(g), g.key = k PROVE FALSE
        OBVIOUS
      <4>2. PICK e \in 1 .. Len1 : g = Field(e)
        <5>1. Fields = {Field(e) : e \in 1 .. Len1}
          BY CascadeIs
        <5> HIDE DEF Says, k
        <5>2. QED
          BY <4>1, <5>1
      <4>3. Field(e).key = Field(n).key
        BY <4>1, <4>2
      <4>4. e = n
        BY <4>3, CascadeIs
      <4>5. QED
        BY <2>3, <4>1, <4>2, <4>4
    <3>2. k \notin DOMAIN Merged
      BY <1>1, <1>2, <2>1, <3>1
    <3>3. Trim(values[k]) = ""
      BY <1>2, <2>3
    <3>4. QED
      BY <2>1, <3>2, <3>3
  <2>4. QED
    BY <1>2, <1>s, <2>3
<1>c. ASSUME NEW n \in 1 .. Len1, Field(n).type = "checkbox", values[Field(n).key] \in {"true", ""},
             Apart
      PROVE  sends[Field(n).key] = values[Field(n).key]
  <2> DEFINE k == Field(n).key
  <2>1. k \in Keys /\ Field(n) \in Fields
    BY CascadeIs
  <2>2. CASE values[k] = "true"
    <3>1. k \in said
      BY <1>c, <2>1, <2>2
    <3>2. k \in DOMAIN Merged /\ Merged[k] = Trim(values[k])
      BY <1>1, <3>1
    <3>3. Trim(values[k]) = values[k]
      BY <2>2 DEF Trim
    <3>4. QED
      BY <2>1, <3>2, <3>3
  <2>3. CASE values[k] = ""
    <3>1. k \notin said
      <4>1. SUFFICES ASSUME NEW g \in Fields, Says(g), g.key = k PROVE FALSE
        OBVIOUS
      <4>2. values[g.key] = "" /\ Trim("") = ""
        BY <2>3, <4>1 DEF Trim
      <4>3. QED
        BY <4>1, <4>2
    <3>2. k \notin DOMAIN Merged
      BY <1>1, <1>c, <2>1, <3>1
    <3>3. QED
      BY <2>1, <2>3, <3>2
  <2>4. QED
    BY <1>c, <2>2, <2>3
<1>3. ASSUME NEW n \in 1 .. Len1, Field(n).type = "select", Apart
      PROVE  sends[Field(n).key] = values[Field(n).key]
  <2>1. sends[Field(n).key] = Trim(values[Field(n).key])
    BY <1>2, <1>3
  <2>2. values[Field(n).key] # "blanks"
    <3>1. SUFFICES ASSUME values[Field(n).key] # "" PROVE values[Field(n).key] # "blanks"
      OBVIOUS
    <3>2. Offers(Field(n), values, values[Field(n).key])
      BY <1>3, <3>1 DEF Fits
    <3>3. PICK i \in DOMAIN Field(n).options :
              Field(n).options[i].value = values[Field(n).key]
      BY <3>2 DEF Offers, AvailableOptions
    <3>4. OptionIs(n, Field(n).options[i])
      BY CascadeIs
    <3>5. QED
      BY <3>3, <3>4 DEF OptionIs
  <2>3. QED
    BY <2>1, <2>2 DEF Trim
<1>4. ASSUME NEW n \in 1 .. Len1
      PROVE  /\ Field(n).type = "select" /\ sends[Field(n).key] # "" /\ Apart =>
                   Offers(Field(n), sends, sends[Field(n).key])
             /\ Field(n).required /\ Field(n).type # "checkbox" => sends[Field(n).key] # ""
  <2> HIDE DEF sends
  <2>1. ASSUME Field(n).type = "select", sends[Field(n).key] # "", Apart
        PROVE  Offers(Field(n), sends, sends[Field(n).key])
    <3>1. Offers(Field(n), values, values[Field(n).key])
      BY <1>3, <2>1 DEF Fits
    <3>2. PICK i \in AvailableOptions(Field(n), values) :
              Field(n).options[i].value = values[Field(n).key]
      BY <3>1 DEF Offers
    <3>3. i \in AvailableOptions(Field(n), sends)
      <4>1. i \in DOMAIN Field(n).options /\ OptionIs(n, Field(n).options[i])
        BY <3>2, CascadeIs DEF AvailableOptions
      <4>2. SUFFICES ASSUME NEW k \in DOMAIN Field(n).options[i].dependsOn
                     PROVE  sends[k] \in Field(n).options[i].dependsOn[k]
        BY <4>1 DEF AvailableOptions
      <4>3. values[k] \in Field(n).options[i].dependsOn[k] /\ values[k] # "blanks"
        <5>1. values[k] \in Field(n).options[i].dependsOn[k]
          BY DEF AvailableOptions
        <5>2. "blanks" \notin Field(n).options[i].dependsOn[k]
          BY <4>1 DEF OptionIs
        <5>3. QED
          BY <5>1, <5>2
      <4>4. PICK e \in 1 .. n - 1 :
                /\ Field(e).key = k
                /\ Field(e).type = "checkbox" =>
                       Field(n).options[i].dependsOn[k] \subseteq {"true", ""}
        BY <4>1 DEF OptionIs
      <4>5. e \in 1 .. Len1
        BY CascadeIs
      <4>6. CASE Field(e).type # "checkbox"
        BY <1>2, <2>1, <4>3, <4>4, <4>5, <4>6 DEF Trim
      <4>7. CASE Field(e).type = "checkbox"
        BY <1>c, <2>1, <4>3, <4>4, <4>5, <4>7
      <4>8. QED
        BY <4>6, <4>7
    <3>4. QED
      BY <1>3, <2>1, <3>2, <3>3 DEF Offers
  <2>2. Field(n).required => Trim(values[Field(n).key]) # ""
    BY CascadeIs DEF RequiredMissing
  <2>3. QED
    BY <1>s, <2>1, <2>2
<1>5. QED
  <2>1. \A f \in Fields : \E n \in 1 .. Len1 : f = Field(n)
    BY CascadeIs
  <2> HIDE DEF sends
  <2>2. \A f \in Fields : /\ f.type = "select" /\ sends[f.key] # "" /\ Apart =>
                                  Offers(f, sends, sends[f.key])
                          /\ f.required /\ f.type # "checkbox" => sends[f.key] # ""
    BY <1>4, <2>1
  <2>3. QED
    BY <2>2 DEF sends

Filled ==
    /\ form \in Forms /\ Fits(Len1, values) /\ SubmittedComplete
    /\ mode \in {"read-only", "read-write"}

\* SubmittedComplete: whatever the user changed and however the mode was
\* switched, a form sends no select that its other values rule out, no required
\* field empty, and nothing that needs read-write in read-only (setField,
\* reconcileSelectValues and handleSubmit of ActionFormBlock).
THEOREM SubmitsAreComplete == FormSpec => []SubmittedComplete
<1>1. ASSUME form \in Forms PROVE Fits(Len1, InitialValues)
  BY <1>1, ReconcileFits DEF InitialValues
<1>2. FormInit => Filled
  <2> SUFFICES ASSUME FormInit PROVE Filled
    OBVIOUS
  <2>1. /\ form \in Forms /\ values = InitialValues /\ params = NoParams
        /\ mode \in {"read-only", "read-write"}
    BY DEF FormInit
  <2>2. QED
    BY <1>1, <2>1 DEF Filled, SubmittedComplete
<1>3. Filled /\ [FormNext]_<<formVars, modeVars>> => Filled'
  <2> SUFFICES ASSUME Filled, [FormNext]_<<formVars, modeVars>> PROVE Filled'
    OBVIOUS
  <2>1. ASSUME form' = form, params' = params PROVE SubmittedComplete'
    BY <2>1, ZenonT(30) DEF Filled, SubmittedComplete, Fields, Keys, NoParams, Offers, AvailableOptions
  <2>2. ASSUME form' = form, Fits(Len1, values') PROVE Fits(Len1, values)'
    BY <2>2 DEF Fits, Len1, Field, Keys, Fields, Offers, AvailableOptions
  <2>m. mode' \in {"read-only", "read-write"}
    BY DEF Filled, FormNext, EditValue, HandleSubmit, SubmissionStateChanges, PanelChanges, SetMode,
           SwitchWithinBudget, Switch, Tick, BudgetsArrive, Remount, modeVars
  <2>3. CASE form' = form /\ params' = params /\ Fits(Len1, values')
    BY <2>1, <2>2, <2>3, <2>m DEF Filled
  <2>4. CASE EditValue
    <3>1. PICK field \in Fields :
              \E v : values' = ReconcileSelectValues([values EXCEPT ![field.key] = v])
      BY <2>4 DEF EditValue, SetField
    <3>2. \A v : DOMAIN [values EXCEPT ![field.key] = v] = Keys
      BY DEF Filled, Fits
    <3>3. Fits(Len1, values')
      BY <3>1, <3>2, ReconcileFits DEF Filled
    <3>4. QED
      BY <2>3, <2>4, <3>3 DEF EditValue, SetField
  <2>5. CASE HandleSubmit
    <3>1. /\ form' = form /\ values' \in {values, InitialValues}
          /\ params' = [of |-> Merged, mode |-> mode]
          /\ ~RequiredMissing /\ ~LockedReadOnly
      BY <2>5 DEF HandleSubmit, Rerender
    <3>2. form.gated => mode = "read-write"
      BY <3>1 DEF LockedReadOnly, ReadOnly, Filled
    <3>3. SubmittedComplete'
      <4> DEFINE Sent(k) == IF k \in DOMAIN Merged THEN Merged[k] ELSE ""
                 sends == [k \in Keys |-> Sent(k)]
      <4>1. params'.of = Merged /\ params'.mode = mode
        BY <3>1
      <4>2. \A f \in Fields :
               /\ f.type = "select" /\ sends[f.key] # "" /\ Keys \cap DOMAIN form.params = {} =>
                      Offers(f, sends, sends[f.key])
               /\ f.required /\ f.type # "checkbox" => sends[f.key] # ""
        BY <3>1, MergedFits DEF Filled
      <4>3. Fields' = Fields /\ Keys' = Keys
        BY <3>1 DEF Fields, Keys
      <4>4. [k \in Keys |-> IF k \in DOMAIN params'.of THEN params'.of[k] ELSE ""] = sends
        BY <4>1
      <4> DEFINE sent1 == [k \in Keys |-> IF k \in DOMAIN params'.of THEN params'.of[k] ELSE ""]
      <4>5. \A f, vals, v : Offers(f, vals, v)' <=> Offers(f, vals, v)
        BY DEF Offers, AvailableOptions
      <4>6. \A f \in Fields : /\ /\ f.type = "select" /\ sent1[f.key] # ""
                                 /\ Keys \cap DOMAIN form.params = {}
                                 => Offers(f, sent1, sent1[f.key])
                              /\ f.required /\ f.type # "checkbox" => sent1[f.key] # ""
        BY <4>2, <4>4
      <4> HIDE DEF sends, sent1
      <4>7. form'.gated => params'.mode = "read-write"
        BY <3>1, <3>2, <4>1
      <4>8. QED
        BY <3>1, <4>3, <4>6, <4>7 DEF SubmittedComplete, sent1, Offers, AvailableOptions
    <3>4. QED
      <4>1. Fits(Len1, values') /\ form' \in Forms
        BY <1>1, <3>1 DEF Filled
      <4>2. Fits(Len1, values)'
        BY <2>2, <3>1, <4>1
      <4>3. QED
        BY <2>m, <3>3, <4>1, <4>2 DEF Filled
  <2>6. CASE SetMode \/ Tick \/ SubmissionStateChanges \/ PanelChanges \/ BudgetsArrive
    BY <1>1, <2>3, <2>6 DEF SetMode, Tick, SubmissionStateChanges, PanelChanges, BudgetsArrive,
                            Rerender, Filled
  <2>7. CASE Remount
    BY <1>1, <2>3, <2>7 DEF Remount, Filled
  <2>8. CASE UNCHANGED <<formVars, modeVars>>
    BY <2>3, <2>8 DEF formVars, Filled
  <2>9. QED
    BY <2>4, <2>5, <2>6, <2>7, <2>8 DEF FormNext
<1>4. Filled => SubmittedComplete
  BY DEF Filled
<1>5. QED
  BY <1>2, <1>3, <1>4, PTL DEF FormSpec

-----------------------------------------------------------------------------
(* The split: what is on the screen, and what a reload would restore *)

Lengths == [unit : {"px", "%", "none"}, n : Int]

SplitTypes ==
    /\ sizing \in Sizings /\ container \in Containers
    /\ controlled \in BOOLEAN /\ canvas \in BOOLEAN /\ collapsed \in BOOLEAN
    /\ {width, pending, stored, dragged, start, persisted} \subseteq Int
    /\ css \in Lengths

\* An uncontrolled split shows what it stored, except during a drag.
FreeSplit ==
    ~controlled =>
        /\ stored = persisted /\ pending = 0
        /\ ~dragging => css = IF canvas THEN AssistantWidthCss ELSE Unset

\* A controlled one shows what the host passed, or what it was asked to pass.
HeldSplit ==
    controlled =>
        \/ css = Unset
        \/ canvas /\ css = Px(width)
        \/ canvas /\ pending # 0 /\ css = Px(pending)

Folded == persistedCollapsed = "1" <=> collapsed

SplitInv == SplitTypes /\ FreeSplit /\ HeldSplit /\ Folded

\* A width that was clamped is one: it is no 0, which stands for null.
LEMMA ClampedIsAWidth ==
    ASSUME NEW w \in Containers, NEW s \in Sizings, NEW px \in Int
    PROVE  ClampAssistantWidthPx(px, w, s) \in Nat \ {0}
<1>1. w \in Nat /\ w > 3 /\ s.min \in Nat /\ s.max \in Nat /\ s.max > 0
  BY AssistantSplitAssumption
<1>2. MaxPx(w, s) \in Nat /\ MaxPx(w, s) > 0
  <2>1. Percent(60, w) \in Nat /\ Percent(60, w) > 0
    BY <1>1 DEF Percent
  <2>2. QED
    BY <1>1, <2>1 DEF MaxPx, Smaller, ASSISTANT_WIDTH_PCT_MAX
<1>3. MinPx(w, s) \in Nat /\ MinPx(w, s) > 0
  <2>1. Percent(15, w) \in Nat /\ Percent(15, w) > 0
    BY <1>1 DEF Percent
  <2>2. QED
    BY <1>1, <1>2, <2>1 DEF MinPx, Smaller, Larger, ASSISTANT_WIDTH_PCT_MIN
<1>4. QED
  BY <1>2, <1>3 DEF ClampAssistantWidthPx, Larger, Smaller

\* Every length has a number of pixels.
LEMMA PixelsAreWhole ==
    ASSUME NEW w \in Containers, NEW length \in Lengths
    PROVE  Pixels(length, w) \in Int
<1>1. w \in Nat
  BY AssistantSplitAssumption
<1>2. length.unit \in {"px", "%", "none"} /\ length.n \in Int
  BY DEF Lengths
<1>3. \A n \in Int : Percent(n, w) \in Int
  <2>1. ASSUME NEW n \in Int PROVE n * w \in Int
    BY <1>1
  <2>2. \A m \in Int : (m + 50) \div 100 \in Int
    OBVIOUS
  <2>3. QED
    BY <2>1, <2>2 DEF Percent
<1>4. QED
  BY <1>2, <1>3 DEF Pixels

LEMMA LengthsAre ==
    /\ Unset \in Lengths
    /\ \A n \in Int : Px(n) \in Lengths /\ Px(n) # Unset
    /\ \A m, n \in Int : Px(m) = Px(n) => m = n
    /\ \A s \in Sizings : s.default \in Lengths
<1>1. \A s \in Sizings : s.default \in Lengths
  BY AssistantSplitAssumption DEF Lengths
<1>2. Unset \in Lengths
  BY DEF Unset, Lengths
<1>3. ASSUME NEW n \in Int PROVE Px(n) \in Lengths /\ Px(n) # Unset
  BY DEF Unset, Lengths, Px
<1>4. \A m, n \in Int : Px(m) = Px(n) => m = n
  BY DEF Px
<1>5. QED
  BY <1>1, <1>2, <1>3, <1>4

\* The width a drag or a key starts from.
LEMMA CurrentIsWhole ==
    ASSUME SplitTypes PROVE GetCurrentAssistantWidthPx \in Int
<1>1. Pixels(css, container) \in Int /\ sizing.min \in Nat /\ sizing.max \in Nat
  BY PixelsAreWhole, AssistantSplitAssumption DEF SplitTypes
<1>2. dragged \in Int
  BY DEF SplitTypes
<1>3. QED
  BY <1>1, <1>2 DEF GetCurrentAssistantWidthPx, Visible, Larger, Smaller

\* What Apply leaves: the width, and the host asked for it.
LEMMA AppliedIs ==
    ASSUME SplitTypes, NEW px \in Int, Apply(px)
    PROVE  /\ Clamped(px) \in Nat \ {0}
           /\ css' = Px(Clamped(px)) /\ css' \in Lengths /\ css' # Unset
           /\ pending' = IF controlled THEN Clamped(px) ELSE 0
           /\ pending' \in Int
<1>1. Clamped(px) \in Nat \ {0}
  BY ClampedIsAWidth DEF Clamped, SplitTypes
<1>2. QED
  BY <1>1, LengthsAre DEF Apply

\* The inductive step, for the actions of the user on the handle.
LEMMA CommittedHolds ==
    ASSUME SplitInv, HandleShown, NEW px \in Int, Commit(px),
           UNCHANGED <<splitHost, width, splitFold>>, start' \in Int
    PROVE  SplitInv'
<1>1. Apply(px) /\ Clamped(px) \in Nat \ {0}
  BY AppliedIs DEF Commit, SplitInv
<1>2. /\ css' = Px(Clamped(px)) /\ css' \in Lengths
      /\ pending' = (IF controlled THEN Clamped(px) ELSE 0) /\ pending' \in Int
  BY <1>1, AppliedIs DEF SplitInv
<1>3. /\ stored' = IF controlled THEN stored ELSE Clamped(px)
      /\ persisted' = Clamped(px) /\ dragged' = 0
  BY DEF Commit
<1>4. /\ sizing' = sizing /\ container' = container /\ controlled' = controlled /\ width' = width
      /\ canvas' = canvas /\ collapsed' = collapsed /\ persistedCollapsed' = persistedCollapsed
      /\ canvas
  BY DEF splitHost, splitFold, HandleShown
<1>5. SplitTypes'
  BY <1>1, <1>2, <1>3, <1>4 DEF SplitInv, SplitTypes
<1>6. FreeSplit'
  BY <1>1, <1>2, <1>3, <1>4 DEF FreeSplit, AssistantWidthCss
<1>7. HeldSplit'
  BY <1>1, <1>2, <1>4 DEF HeldSplit
<1>8. QED
  BY <1>4, <1>5, <1>6, <1>7 DEF SplitInv, Folded

LEMMA SplitStart == SplitInit => SplitInv
<1> SUFFICES ASSUME SplitInit PROVE SplitInv
  OBVIOUS
<1>1. /\ sizing \in Sizings /\ container \in Containers /\ sizing.default \in Lengths
  BY LengthsAre DEF SplitInit
<1>2. width \in Int
  BY <1>1, PixelsAreWhole, ClampedIsAWidth DEF SplitInit, ResolveAssistantWidthPx
<1>3. css = (IF controlled THEN Px(width) ELSE sizing.default) /\ css \in Lengths
  BY <1>1, <1>2, LengthsAre DEF SplitInit, AssistantWidthCss
<1>4. SplitTypes
  <2>1. /\ pending = 0 /\ stored = 0 /\ dragged = 0 /\ start = 0 /\ persisted = 0
        /\ controlled \in BOOLEAN /\ canvas = TRUE /\ collapsed = FALSE
    BY DEF SplitInit
  <2>2. {width, pending, stored, dragged, start, persisted} \subseteq Int
    BY <1>2, <2>1
  <2>3. QED
    BY <1>1, <1>3, <2>1, <2>2 DEF SplitTypes
<1>5. css = AssistantWidthCss /\ canvas = TRUE /\ stored = persisted /\ pending = 0
  BY DEF SplitInit
<1>6. FreeSplit
  BY <1>5 DEF FreeSplit
<1>7. HeldSplit
  BY <1>3, <1>5 DEF HeldSplit
<1>8. Folded
  BY DEF SplitInit, Folded
<1>9. QED
  BY <1>4, <1>6, <1>7, <1>8 DEF SplitInv

LEMMA SplitStep == SplitInv /\ [SplitNext]_splitVars => SplitInv'
<1> SUFFICES ASSUME SplitInv, [SplitNext]_splitVars PROVE SplitInv'
  OBVIOUS
<1>0. SplitTypes /\ sizing.default \in Lengths
  BY LengthsAre DEF SplitInv, SplitTypes
<1>1. CASE PointerDown
  <2>1. start' \in Int /\ dragging' = TRUE
    BY <1>0, <1>1, CurrentIsWhole DEF PointerDown
  <2>2. QED
    BY <1>1, <2>1 DEF PointerDown, SplitInv, SplitTypes, FreeSplit, HeldSplit, Folded, splitHost,
                      splitFold
<1>2. CASE PointerMove
  <2>1. PICK delta \in Deltas : Apply(start + delta) /\ dragged' = Clamped(start + delta)
    BY <1>2 DEF PointerMove
  <2>2. start + delta \in Int
    BY <1>0, AssistantSplitAssumption DEF SplitTypes
  <2>3. /\ dragged' \in Int /\ css' = Px(Clamped(start + delta)) /\ css' \in Lengths
        /\ pending' = (IF controlled THEN Clamped(start + delta) ELSE 0) /\ pending' \in Int
        /\ Clamped(start + delta) # 0
    BY <1>0, <2>1, <2>2, AppliedIs
  <2>4. canvas /\ dragging
    BY <1>2 DEF PointerMove, HandleShown
  <2>5. QED
    BY <1>2, <2>3, <2>4 DEF PointerMove, SplitInv, SplitTypes, FreeSplit, HeldSplit, Folded,
                            splitHost, splitDrag, splitFold
<1>3. CASE PointerUp
  <2>1. GetCurrentAssistantWidthPx \in Int /\ start' \in Int
    BY <1>0, <1>3, CurrentIsWhole DEF PointerUp
  <2>2. QED
    BY <1>3, <2>1, CommittedHolds DEF PointerUp
<1>4. CASE KeyDown
  <2>1. PICK delta \in Deltas : Commit(GetCurrentAssistantWidthPx + delta)
    BY <1>4 DEF KeyDown
  <2>2. GetCurrentAssistantWidthPx + delta \in Int
    <3>1. GetCurrentAssistantWidthPx \in Int /\ delta \in Int
      BY <1>0, CurrentIsWhole, AssistantSplitAssumption
    <3>2. QED
      BY <3>1
  <2>3. start' \in Int
    BY <1>0, <1>4 DEF KeyDown, splitDrag, SplitTypes
  <2>4. QED
    BY <1>4, <2>1, <2>2, <2>3, CommittedHolds DEF KeyDown
<1>5. CASE ResetAssistantWidth
  <2> DEFINE resetPx == ResolveAssistantWidthPx(sizing.default, container, sizing)
  <2>1. resetPx \in Nat \ {0}
    BY <1>0, PixelsAreWhole, ClampedIsAWidth DEF ResolveAssistantWidthPx, SplitTypes
  <2>2. /\ stored' = 0 /\ dragged' = 0 /\ persisted' = 0 /\ canvas
        /\ pending' = IF controlled THEN resetPx ELSE 0
        /\ ~controlled => css' = sizing.default
        /\ controlled => css' = Px(resetPx) \/ css' = Unset
        /\ sizing' = sizing /\ container' = container /\ controlled' = controlled
        /\ width' = width /\ start' = start /\ canvas' = canvas /\ collapsed' = collapsed
        /\ persistedCollapsed' = persistedCollapsed
    BY <1>5 DEF ResetAssistantWidth, splitHost, splitDrag, splitFold, HandleShown
  <2> HIDE DEF resetPx
  <2>3. css' \in Lengths
    BY <1>0, <2>1, <2>2, LengthsAre DEF SplitTypes
  <2>4. SplitTypes'
    BY <2>1, <2>2, <2>3 DEF SplitInv, SplitTypes
  <2>5. FreeSplit' /\ HeldSplit'
    BY <1>0, <2>1, <2>2 DEF SplitTypes, FreeSplit, HeldSplit, AssistantWidthCss
  <2>6. QED
    BY <2>2, <2>4, <2>5 DEF SplitInv, Folded
<1>6. CASE HostPassesWidth
  <2>1. /\ pending # 0 /\ width' = pending /\ pending' = 0
        /\ css' = IF width' # width /\ canvas THEN Px(width') ELSE css
        /\ dragged' \in Int
        /\ sizing' = sizing /\ container' = container /\ controlled' = controlled
        /\ stored' = stored /\ dragging' = dragging /\ start' = start /\ canvas' = canvas
        /\ collapsed' = collapsed /\ persistedCollapsed' = persistedCollapsed
        /\ persisted' = persisted
    BY <1>0, <1>6 DEF HostPassesWidth, splitHost, splitDrag, splitFold, SplitTypes
  <2>2. controlled
    BY <2>1 DEF SplitInv, FreeSplit
  <2>3. SplitTypes'
    BY <1>0, <2>1, LengthsAre DEF SplitTypes
  <2>4. HeldSplit'
    BY <2>1, <2>2 DEF SplitInv, HeldSplit
  <2>5. QED
    BY <2>1, <2>2, <2>3, <2>4 DEF SplitInv, FreeSplit, Folded
<1>7. CASE ToggleCanvas
  <2>1. /\ canvas' = ~canvas /\ dragged' = 0 /\ width' = width /\ pending' = pending
        /\ AssistantWidthCss = Unset => css' = css
        /\ AssistantWidthCss # Unset => css' = IF canvas THEN Unset ELSE AssistantWidthCss
        /\ sizing' = sizing /\ container' = container /\ controlled' = controlled
        /\ stored' = stored /\ dragging' = dragging /\ start' = start
        /\ collapsed' = collapsed /\ persistedCollapsed' = persistedCollapsed
        /\ persisted' = persisted
    BY <1>7 DEF ToggleCanvas, splitHost, splitDrag
  <2>2. AssistantWidthCss \in Lengths
        /\ AssistantWidthCss = (IF controlled THEN Px(width)
                               ELSE IF stored # 0 THEN Px(stored) ELSE sizing.default)
    BY <1>0, LengthsAre DEF AssistantWidthCss, SplitTypes
  <2>3. AssistantWidthCss' = AssistantWidthCss
    BY <2>1 DEF AssistantWidthCss
  <2>4. SplitTypes'
    BY <1>0, <2>1, <2>2, LengthsAre DEF SplitTypes
  <2>5. FreeSplit'
    BY <2>1, <2>3 DEF SplitInv, SplitTypes, FreeSplit
  <2>6. HeldSplit'
    <3>1. SUFFICES ASSUME controlled PROVE HeldSplit'
      BY <2>1 DEF HeldSplit
    <3>2. AssistantWidthCss = Px(width) /\ Px(width) # Unset
      BY <1>0, <2>2, <3>1, LengthsAre DEF SplitTypes
    <3>3. QED
      BY <1>0, <2>1, <3>2 DEF SplitTypes, HeldSplit
  <2>7. QED
    BY <2>1, <2>4, <2>5, <2>6 DEF SplitInv, Folded
<1>8. CASE SetAssistantCollapsed
  <2>1. /\ collapsed' = ~collapsed
        /\ persistedCollapsed' = IF collapsed THEN "0" ELSE "1"
        /\ dragged' = 0
        /\ UNCHANGED <<splitHost, width, pending, stored, splitDrag, css, canvas, persisted>>
    BY <1>8 DEF SetAssistantCollapsed
  <2>2. SplitTypes'
    BY <1>0, <2>1 DEF SplitTypes, splitHost, splitDrag
  <2>3. FreeSplit' /\ HeldSplit'
    BY <2>1 DEF SplitInv, FreeSplit, HeldSplit, AssistantWidthCss, splitHost, splitDrag
  <2>4. Folded'
    BY <1>0, <2>1 DEF Folded, SplitTypes
  <2>5. QED
    BY <2>2, <2>3, <2>4 DEF SplitInv
<1>9. CASE ResizeWindow
  BY <1>9 DEF ResizeWindow, SplitInv, SplitTypes, FreeSplit, HeldSplit, Folded,
              AssistantWidthCss, splitDrag, splitFold
<1>10. CASE Reload
  <2>1. /\ canvas /\ canvas' = canvas /\ persisted' = persisted /\ width' = width
        /\ persistedCollapsed' = persistedCollapsed
        /\ sizing' = sizing /\ container' = container /\ controlled' = controlled
        /\ stored' = IF controlled THEN 0 ELSE persisted
        /\ controlled => css' = Px(width)
        /\ ~controlled /\ persisted # 0 => css' = Px(persisted)
        /\ ~controlled /\ persisted = 0 => css' = sizing.default
        /\ collapsed' = (persistedCollapsed = "1")
        /\ pending' = 0 /\ dragged' = 0 /\ start' = 0
    BY <1>0, <1>10 DEF Reload, splitHost, RestoredCollapsed, SplitTypes
  <2>2. SplitTypes'
    BY <1>0, <2>1, LengthsAre DEF SplitTypes
  <2>3. FreeSplit' /\ HeldSplit'
    BY <1>0, <2>1 DEF SplitTypes, FreeSplit, HeldSplit, AssistantWidthCss
  <2>4. QED
    BY <2>1, <2>2, <2>3 DEF SplitInv, Folded
<1>11. CASE UNCHANGED splitVars
  BY <1>11 DEF SplitInv, SplitTypes, FreeSplit, HeldSplit, Folded, AssistantWidthCss,
               splitVars, splitHost, splitDrag, splitFold
<1>12. QED
  BY <1>1, <1>2, <1>3, <1>4, <1>5, <1>6, <1>7, <1>8, <1>9, <1>10, <1>11 DEF SplitNext

\* SplitSurvivesReload: for any row, bounds and moves, a reload shows the split
\* at the width the user left it at, and collapsed or not as it was
\* (commitAssistantWidthPx, resetAssistantWidth, the stored width and flag).
THEOREM ReloadShowsTheSplit == SplitSpec => SplitSurvivesReload
<1>1. ASSUME SplitInv, Reload, SplitSettled, ~(controlled /\ css = Unset)
      PROVE  Visible' = Visible /\ collapsed' = collapsed
  <2>1. canvas /\ ~dragging /\ pending = 0 /\ sizing' = sizing /\ container' = container
    BY <1>1 DEF Reload, SplitSettled, splitHost
  <2>2. css' = css
    <3>1. CASE controlled
      BY <1>1, <2>1, <3>1 DEF SplitInv, HeldSplit, Reload
    <3>2. CASE ~controlled
      BY <1>1, <2>1, <3>2 DEF SplitInv, FreeSplit, Reload, AssistantWidthCss
    <3>3. QED
      BY <3>1, <3>2
  <2>3. collapsed' = collapsed
    BY <1>1 DEF Reload, RestoredCollapsed, SplitInv, SplitTypes, Folded
  <2>4. QED
    BY <2>1, <2>2, <2>3 DEF Visible, Pixels
<1>2. SplitInv /\ [SplitNext]_splitVars
        => [Reload /\ SplitSettled /\ ~(controlled /\ css = Unset)
              => Visible' = Visible /\ collapsed' = collapsed]_splitVars
  BY <1>1
<1>3. QED
  BY SplitStart, SplitStep, <1>2, PTL DEF SplitSpec, SplitSurvivesReload

-----------------------------------------------------------------------------
(* A panel that was checked *)

Panels == [type : Types \cup {"none", "unknown"}, has : [Members -> Kinds]]

\* Each member is read in one way only.
LEMMA MembersAreApart ==
    ASSUME NEW type \in Types
    PROVE  /\ Lists(type) \cup Strings(type) \cup Numbers(type) \cup Objects(type)
                \cup OptionalStrings(type) \subseteq Members
           /\ Lists(type) \cap (Strings(type) \cup Numbers(type) \cup Objects(type)
                                 \cup OptionalStrings(type)) = {}
           /\ Strings(type) \cap (Numbers(type) \cup Objects(type) \cup OptionalStrings(type)) = {}
           /\ Numbers(type) \cap (Objects(type) \cup OptionalStrings(type)) = {}
           /\ Objects(type) \cap OptionalStrings(type) = {}
           /\ "title" \notin Lists(type) \cup Objects(type) \cup Numbers(type)
           /\ type = "callout" => Numbers(type) = {} /\ "title" \in Strings(type)
           /\ type = "alert-summary" => Objects(type) = {"data"}
           /\ type = "action-form" => Objects(type) = {"submit"}
           /\ type = "stat" => "value" \in Strings(type)
BY DEF Types, Members, Lists, Strings, Numbers, Objects, OptionalStrings

\* A type is one of Types, or nobody can tell.
LEMMA TypeIsKnown ==
    ASSUME NEW p \in Panels PROVE TypeOf(p) \in Types \cup {"none"}
<1> DEFINE has == p.has
           I == {i \in 1 .. Len(Rules(has)) : Rules(has)[i][1]}
<1>1. InferChartType(has) \in Types \cup {"none"}
  <2>1. CASE I = {}
    BY <2>1 DEF InferChartType, SelectInSeq
  <2>2. CASE I # {}
    <3>1. Min(I) \in I
      <4>1. \E x \in I : \A y \in I : x <= y
        <5>1. I \subseteq Nat
          BY DEF Rules
        <5> HIDE DEF I
        <5>2. QED
          BY <2>2, <5>1, Minimum
      <4>2. QED
        BY <4>1 DEF Min
    <3>2. Len(Rules(has)) = 12
      BY DEF Rules
    <3>3. \A i \in 1 .. 12 : Rules(has)[i][2] \in Types
      BY SMTT(30) DEF Rules, Types
    <3>4. InferChartType(has) = Rules(has)[Min(I)][2]
      <4>1. SelectInSeq(Rules(has), LAMBDA rule : rule[1]) = Min(I)
        BY <2>2 DEF SelectInSeq
      <4>2. Min(I) # 0
        BY <3>1, <3>2
      <4>3. QED
        BY <4>1, <4>2 DEF InferChartType
    <3>5. QED
      BY <3>1, <3>2, <3>3, <3>4
  <2>3. QED
    BY <2>1, <2>2
<1>2. QED
  BY <1>1 DEF TypeOf

\* A panel that reads the same in either mode, however often, without an error.
Readable(p) ==
    /\ p \in Panels /\ p.type \in Types
    /\ \A m \in Strings(p.type) : p.has[m] = "string"
    /\ \A m \in Numbers(p.type) : p.has[m] = "number"
    /\ \A m \in Objects(p.type) : p.has[m] = "record"
    /\ \A m \in Lists(p.type) : p.has[m] \in Arrays /\ p.has[m] \in WellFormed(p.type, m)
    /\ \A m \in Members : NormalizeMember(p.type, m, p.has[m]) = p.has[m]

LEMMA ReadableStays ==
    ASSUME NEW p, Readable(p), NEW how
    PROVE  p # NoPanel /\ TypeOf(p) = p.type /\ ~PanelErrs(p) /\ NormalizePanel(p, how) = p
<1>1. p \in Panels /\ p.type \in Types /\ p.has \in [Members -> Kinds]
  BY DEF Readable, Panels
<1>2. p # NoPanel /\ TypeOf(p) = p.type /\ p.type # "none"
  BY <1>1 DEF NoPanel, TypeOf, Types
<1>3. ASSUME NEW way PROVE ~Fatal(p.type, p.has, way)
  <2>1. \A m \in Strings(p.type) : AsString(p.type, m, p.has[m], way) = "string"
    BY DEF Readable, AsString
  <2>2. p.type = "alert-summary" => p.has["data"] = "record"
    BY <1>1, MembersAreApart DEF Readable
  <2>3. p.type = "action-form" => p.has["submit"] = "record"
    BY <1>1, MembersAreApart DEF Readable
  <2>4. QED
    BY <1>2, <2>1, <2>2, <2>3 DEF Fatal, Readable
<1>4. ~PanelErrs(p)
  BY <1>2, <1>3 DEF PanelErrs, Errs, Readable
<1>5. NormalizePanel(p, how) = [type |-> p.type, has |-> [m \in Members |-> p.has[m]]]
  <2>1. [m \in Members |-> NormalizeMember(p.type, m, p.has[m])] = [m \in Members |-> p.has[m]]
    BY DEF Readable
  <2>2. QED
    BY <1>2, <1>3, <2>1 DEF NormalizePanel
<1>6. [type |-> p.type, has |-> [m \in Members |-> p.has[m]]] = p
  BY <1>1 DEF Panels
<1>7. QED
  BY <1>2, <1>4, <1>5, <1>6

\* A list that was checked is read again as it was read first.
LEMMA FilteredStays ==
    ASSUME NEW type \in Types, NEW m \in Lists(type), NEW kind \in Arrays,
           kind \in WellFormed(type, m)
    PROVE  /\ Filtered(type, m, kind) \in Arrays
           /\ Filtered(type, m, kind) \in WellFormed(type, m)
           /\ Filtered(type, m, Filtered(type, m, kind)) = Filtered(type, m, kind)
<1>1. CASE type = "sparkline"
  BY <1>1 DEF Filtered, WellFormed, Arrays, RecordArrays
<1>2. CASE type # "sparkline"
  BY <1>2 DEF Filtered
<1>3. QED
  BY <1>1, <1>2

\* A panel without an error reads the same in either mode; what is read is
\* readable, if there is any.
LEMMA CheckedPanel ==
    ASSUME NEW p \in Panels, ~PanelErrs(p), NEW how \in Modes
    PROVE  /\ NormalizePanel(p, how) = NormalizePanel(p, "strict")
           /\ NormalizePanel(p, "strict") # NoPanel =>
                 /\ Readable(NormalizePanel(p, "strict"))
                 /\ NormalizePanel(p, "strict").type = TypeOf(p)
                 /\ p.has["title"] = "string" =>
                       NormalizePanel(p, "strict").has["title"] \in {"string", "absent"}
<1> DEFINE type == TypeOf(p)
           q == [type |-> type, has |-> [m \in Members |-> NormalizeMember(type, m, p.has[m])]]
<1>1. CASE type = "none"
  BY <1>1 DEF NormalizePanel, Fatal
<1>2. CASE type \in Types
  <2>1. ~Fatal(type, p.has, "strict")
    BY <1>2 DEF PanelErrs, Errs, Types
  <2>2. \A m \in Strings(type) : p.has[m] = "string"
    BY <2>1 DEF Fatal, AsString
  <2>3. \A m \in Numbers(type) : p.has[m] = "number"
    BY <2>1 DEF Fatal
  <2>4. \A m \in Objects(type) : p.has[m] = "record"
    BY <1>2, <2>1, MembersAreApart DEF Fatal, Objects
  <2>5. \A m \in Lists(type) : p.has[m] \in Arrays /\ p.has[m] \in WellFormed(type, m)
    BY <1>2 DEF PanelErrs, Errs, Types
  <2>6. ~Fatal(type, p.has, how)
    BY <2>1, <2>2 DEF Fatal, AsString
  <2>7. NormalizePanel(p, how) = q /\ NormalizePanel(p, "strict") = q
    BY <2>1, <2>6 DEF NormalizePanel
  <2>8. p.has \in [Members -> Kinds]
    BY DEF Panels
  <2> DEFINE again(m) == NormalizeMember(type, m, p.has[m])
  <2>9. ASSUME NEW m \in Members
        PROVE  /\ again(m) \in Kinds /\ NormalizeMember(type, m, again(m)) = again(m)
               /\ m \in Lists(type) => again(m) \in Arrays /\ again(m) \in WellFormed(type, m)
               /\ m \in Strings(type) => again(m) = "string"
               /\ m \in Numbers(type) => again(m) = "number"
               /\ m \in Objects(type) => again(m) = "record"
    <3>1. CASE m \in Lists(type)
      <4>1. \A kind : NormalizeMember(type, m, kind) = Filtered(type, m, kind)
        BY <1>2, <3>1, MembersAreApart DEF NormalizeMember
      <4>2. again(m) \in Arrays /\ again(m) \in WellFormed(type, m)
            /\ Filtered(type, m, again(m)) = again(m)
        BY <1>2, <2>5, <3>1, <4>1, FilteredStays
      <4>3. QED
        BY <1>2, <3>1, <4>1, <4>2, MembersAreApart DEF Kinds
    <3>2. CASE m \in Strings(type)
      <4>1. \A kind : NormalizeMember(type, m, kind) = "string"
        BY <1>2, <3>2, MembersAreApart DEF NormalizeMember
      <4>2. QED
        BY <1>2, <3>2, <4>1, MembersAreApart DEF Kinds
    <3>3. CASE m \in Objects(type)
      <4>1. \A kind : NormalizeMember(type, m, kind) = "record"
        BY <1>2, <3>3, MembersAreApart DEF NormalizeMember
      <4>2. QED
        BY <1>2, <3>3, <4>1, MembersAreApart DEF Kinds
    <3>4. CASE m \in OptionalStrings(type)
      <4>1. \A kind : NormalizeMember(type, m, kind) = IF kind = "string" THEN kind ELSE "absent"
        BY <1>2, <3>4, MembersAreApart DEF NormalizeMember
      <4>2. QED
        BY <1>2, <3>4, <4>1, MembersAreApart DEF Kinds
    <3>5. CASE m \notin Lists(type) \cup Strings(type) \cup Objects(type) \cup OptionalStrings(type)
      <4>1. \A kind : NormalizeMember(type, m, kind) = IF type = "callout" THEN "absent" ELSE kind
        BY <3>5 DEF NormalizeMember
      <4>2. type = "callout" => m \notin Numbers(type)
        BY <1>2, MembersAreApart
      <4>3. QED
        BY <2>3, <2>8, <3>5, <4>1, <4>2 DEF Kinds
    <3>6. QED
      BY <3>1, <3>2, <3>3, <3>4, <3>5
  <2>10. q \in Panels /\ q.type = type /\ \A m \in Members : q.has[m] = again(m)
    BY <1>2, <2>9 DEF Panels
  <2>11. Readable(q)
    <3> HIDE DEF q, again
    <3>1. Lists(type) \subseteq Members /\ Strings(type) \subseteq Members
          /\ Numbers(type) \subseteq Members /\ Objects(type) \subseteq Members
      BY <1>2, MembersAreApart
    <3>2. QED
      BY <1>2, <2>9, <2>10, <3>1 DEF Readable, again
  <2>12. p.has["title"] = "string" => q.has["title"] \in {"string", "absent"}
    <3>1. "title" \in Members /\ "title" \notin Lists(type) /\ "title" \notin Objects(type)
      BY <1>2, MembersAreApart DEF Members
    <3>2. QED
      BY <3>1 DEF NormalizeMember
  <2>13. QED
    BY <2>7, <2>10, <2>11, <2>12
<1>3. QED
  BY <1>1, <1>2, TypeIsKnown

\* An empty title makes no difference to a panel that needs none.
LEMMA TitledIsReadable ==
    ASSUME NEW p, Readable(p), p.has["title"] = "absent"
    PROVE  Readable([p EXCEPT !.has["title"] = "string"])
<1> DEFINE q == [p EXCEPT !.has["title"] = "string"]
<1>1. p \in Panels /\ p.type \in Types /\ p.has \in [Members -> Kinds]
  BY DEF Readable, Panels
<1>2. "title" \in Members /\ "string" \in Kinds
  BY DEF Members, Kinds
<1>3. /\ q \in Panels /\ q.type = p.type /\ q.has["title"] = "string"
      /\ \A m \in Members \ {"title"} : q.has[m] = p.has[m]
  BY <1>1, <1>2 DEF Panels
<1>4. /\ "title" \notin Lists(p.type) \cup Objects(p.type) \cup Numbers(p.type)
      /\ Lists(p.type) \cup Strings(p.type) \cup Numbers(p.type) \cup Objects(p.type) \subseteq Members
  BY <1>1, MembersAreApart
<1>5. "title" \notin Strings(p.type)
  BY DEF Readable
<1>6. p.type # "callout"
  BY <1>1, <1>5, MembersAreApart
<1>7. NormalizeMember(p.type, "title", "string") = "string"
  BY <1>4, <1>5, <1>6 DEF NormalizeMember
<1> HIDE DEF q
<1>8. \A m \in Members : NormalizeMember(p.type, m, q.has[m]) = q.has[m]
  BY <1>3, <1>7 DEF Readable
<1>9. Readable(q)
  BY <1>1, <1>3, <1>4, <1>5, <1>8 DEF Readable
<1>10. QED
  BY <1>9 DEF q

-----------------------------------------------------------------------------
(* A section and a payload that were checked *)

Sections == [layout : Layouts, titled : BOOLEAN, data : BOOLEAN, panel : Panels]

Contents == [shape : {"dashboard", "detail"}, named : BOOLEAN,
             panels : Seq(Panels), sections : Seq(Sections)]

\* What an empty title hides.
Untitled(s) == [s EXCEPT !.panel.has["title"] = "absent"]

ReadableSection(s) ==
    /\ s \in Sections /\ s.titled /\ s.layout # "none" /\ ~NoData(s)
    /\ s.layout \in PanelLayouts => Readable(s.panel) /\ Embedded(s).type = s.panel.type
    /\ s.layout = "properties" => s.panel.has["items"] \in {"records", "empty"}

LEMMA EmbeddedIsAPanel ==
    ASSUME NEW s \in Sections, s.layout \in PanelLayouts
    PROVE  /\ Embedded(s) \in Panels
           /\ s.layout # "chart" => TypeOf(Embedded(s)) = Embedded(s).type
           /\ s.layout = "chart" => Embedded(s).type = s.panel.type
           /\ \A t \in Sections : t.layout = s.layout /\ s.layout # "chart"
                                    => Embedded(t).type = Embedded(s).type
<1>1. s.panel \in Panels /\ s.panel.has \in [Members -> Kinds]
  BY DEF Sections, Panels
<1>2. Embedded(s).has \in [Members -> Kinds]
  BY <1>1 DEF Embedded, Kinds
<1>3. s.layout # "chart" => Embedded(s).type \in Types
  BY DEF Embedded, PanelLayouts, Types
<1>4. s.layout = "chart" => Embedded(s).type = s.panel.type
  BY DEF Embedded
<1>5. Embedded(s).type \in Types \cup {"none", "unknown"}
  BY <1>1, <1>3, <1>4 DEF Panels
<1>6. Embedded(s) \in Panels
  BY <1>2, <1>5 DEF Panels, Embedded
<1>7. \A t \in Sections : t.layout = s.layout /\ s.layout # "chart"
                            => Embedded(t).type = Embedded(s).type
  BY DEF Embedded, PanelLayouts
<1>8. QED
  BY <1>3, <1>4, <1>6, <1>7 DEF TypeOf

\* A readable section is kept as it is, up to an empty title.
LEMMA ReadableSectionStays ==
    ASSUME NEW s, ReadableSection(s), NEW how
    PROVE  /\ ~SectionErrs(s) /\ SectionKept(s, how)
           /\ Untitled(NormalizeSection(s, how)) = Untitled(s)
<1>1. s \in Sections /\ s.panel \in Panels /\ s.panel.has \in [Members -> Kinds]
  BY DEF ReadableSection, Sections, Panels
<1>2. CASE s.layout \in PanelLayouts
  <2> DEFINE e == Embedded(s)
             has == s.panel.has
             title == IF has["title"] = "absent" /\ s.layout \in {"chart", "table"}
                      THEN "string" ELSE has["title"]
  <2>1. "title" \in Members
    BY DEF Members
  <2>2. e = [type |-> s.panel.type, has |-> [has EXCEPT !["title"] = title]]
    BY <1>1, <1>2 DEF ReadableSection, Embedded
  <2>3. Readable(e)
    <3>1. CASE title = has["title"]
      <4>1. [has EXCEPT !["title"] = title] = has
        BY <1>1, <3>1
      <4>2. e = s.panel
        BY <1>1, <2>2, <4>1 DEF Panels
      <4>3. QED
        BY <1>2, <4>2 DEF ReadableSection
    <3>2. CASE title # has["title"]
      <4>1. has["title"] = "absent" /\ title = "string"
        BY <3>2
      <4>2. e = [s.panel EXCEPT !.has["title"] = "string"]
        BY <1>1, <2>2, <4>1 DEF Panels
      <4>3. QED
        BY <1>2, <4>1, <4>2, TitledIsReadable DEF ReadableSection
    <3>3. QED
      BY <3>1, <3>2
  <2>4. e # NoPanel /\ ~PanelErrs(e) /\ NormalizePanel(e, how) = e
    BY <2>3, ReadableStays
  <2>5. NormalizeSection(s, how) = [s EXCEPT !.panel = e]
    BY <1>2, <2>4 DEF NormalizeSection, PanelLayouts
  <2>6. Untitled([s EXCEPT !.panel = e]) = Untitled(s)
    <3>1. [[has EXCEPT !["title"] = title] EXCEPT !["title"] = "absent"]
            = [has EXCEPT !["title"] = "absent"]
      BY <1>1
    <3>2. [e EXCEPT !.has["title"] = "absent"] = [s.panel EXCEPT !.has["title"] = "absent"]
      <4> HIDE DEF has, title
      <4>1. QED
        BY <1>1, <2>2, <3>1 DEF Panels, has
    <3> HIDE DEF e, has
    <3>3. QED
      BY <1>1, <3>2 DEF Untitled, Sections
  <2>7. QED
    BY <1>2, <2>4, <2>5, <2>6 DEF ReadableSection, SectionErrs, SectionKept, PanelLayouts
<1>3. CASE s.layout \notin PanelLayouts
  <2>1. NormalizeSection(s, how) = s
    <3>1. CASE s.layout = "properties"
      <4>1. PropertyItems(s.panel.has["items"]) = s.panel.has["items"]
        BY <3>1 DEF ReadableSection, PropertyItems
      <4>2. NormalizeSection(s, how)
              = [s EXCEPT !.panel.has["items"] = s.panel.has["items"]]
        BY <1>3, <3>1, <4>1 DEF NormalizeSection
      <4>3. QED
        BY <1>1, <4>2 DEF Sections, Panels
    <3>2. CASE s.layout # "properties"
      BY <1>3, <3>2 DEF NormalizeSection
    <3>3. QED
      BY <3>1, <3>2
  <2>2. QED
    BY <1>3, <2>1 DEF ReadableSection, SectionErrs, SectionKept
<1>4. QED
  BY <1>2, <1>3

\* A section without an error reads the same in either mode, and readable.
LEMMA CheckedSection ==
    ASSUME NEW s \in Sections, ~SectionErrs(s), NEW how \in Modes
    PROVE  /\ SectionKept(s, how) <=> SectionKept(s, "strict")
           /\ NormalizeSection(s, how) = NormalizeSection(s, "strict")
           /\ SectionKept(s, "strict") => ReadableSection(NormalizeSection(s, "strict"))
<1> DEFINE read == NormalizeSection(s, "strict")
<1>1. s.panel \in Panels /\ s.panel.has \in [Members -> Kinds]
  BY DEF Sections, Panels
<1>2. s.titled /\ s.layout # "none" /\ ~NoData(s)
  BY DEF SectionErrs
<1>3. CASE s.layout \in PanelLayouts
  <2> DEFINE e == Embedded(s)
             q == NormalizePanel(e, "strict")
  <2>1. e \in Panels /\ ~PanelErrs(e)
    BY <1>3, EmbeddedIsAPanel DEF SectionErrs
  <2>2. NormalizePanel(e, how) = q /\ (q # NoPanel => Readable(q) /\ q.type = TypeOf(e))
    <3> HIDE DEF e
    <3>1. QED
      BY <2>1, CheckedPanel
  <2>3. /\ NormalizeSection(s, how) = [s EXCEPT !.panel = q]
        /\ read = [s EXCEPT !.panel = q]
    BY <1>3, <2>2 DEF NormalizeSection, PanelLayouts
  <2>4. SectionKept(s, how) <=> SectionKept(s, "strict")
    BY <2>2 DEF SectionKept
  <2>5. ASSUME SectionKept(s, "strict") PROVE ReadableSection(read)
    <3>1. Readable(q) /\ q.type = TypeOf(e) /\ q \in Panels
      BY <1>3, <2>2, <2>5 DEF SectionKept, Readable
    <3> HIDE DEF q
    <3>2. /\ read \in Sections /\ read.panel = q /\ read.layout = s.layout
          /\ read.titled = s.titled /\ read.data = s.data
      BY <2>3, <3>1 DEF Sections
    <3> HIDE DEF read
    <3>3. Embedded(read).type = read.panel.type
      BY <1>3, <3>1, <3>2, EmbeddedIsAPanel
    <3>4. QED
      BY <1>2, <1>3, <3>1, <3>2, <3>3 DEF ReadableSection, NoData, PanelLayouts
  <2>6. QED
    BY <2>3, <2>4, <2>5
<1>4. CASE s.layout \notin PanelLayouts
  <2>1. read = s
    <3>1. CASE s.layout = "properties"
      <4>1. PropertyItems(s.panel.has["items"]) = s.panel.has["items"]
        BY <3>1 DEF SectionErrs, PropertyItems
      <4>2. read = [s EXCEPT !.panel.has["items"] = s.panel.has["items"]]
        BY <1>4, <3>1, <4>1 DEF NormalizeSection
      <4>3. QED
        BY <1>1, <4>2 DEF Sections, Panels
    <3>2. CASE s.layout # "properties"
      BY <1>4, <3>2 DEF NormalizeSection
    <3>3. QED
      BY <3>1, <3>2
  <2>2. NormalizeSection(s, how) = read
    BY <1>4 DEF NormalizeSection
  <2>3. SectionKept(s, how) <=> SectionKept(s, "strict")
    BY <1>4 DEF SectionKept
  <2>4. s.layout = "properties" => s.panel.has["items"] \in {"records", "empty"}
    BY DEF SectionErrs
  <2>5. ReadableSection(s)
    BY <1>2, <1>4, <2>4 DEF ReadableSection
  <2>6. QED
    BY <2>1, <2>2, <2>3, <2>5
<1>5. QED
  BY <1>3, <1>4

\* The panels and the sections that a reading keeps.
ReadPanels(c, how) == Rendered([i \in DOMAIN c.panels |-> NormalizePanel(c.panels[i], how)])

DroppedSections(c, how) == {s \in ToSet(c.sections) : ~SectionKept(s, how)}

KeptSections(c, how) == Without(c.sections, DroppedSections(c, how))

ReadSections(c, how) ==
    [i \in DOMAIN KeptSections(c, how) |-> NormalizeSection(KeptSections(c, how)[i], how)]

LEMMA ReadingIs ==
    ASSUME NEW c \in Contents, c.named, NEW how
    PROVE  NormalizePayload(c, how)
             = [shape |-> c.shape, named |-> c.named, panels |-> ReadPanels(c, how),
                sections |-> ReadSections(c, how)]
<1>1. NormalizePayload(c, how) = [c EXCEPT !.panels = ReadPanels(c, how),
                                            !.sections = ReadSections(c, how)]
  BY DEF NormalizePayload, ReadPanels, ReadSections, KeptSections, DroppedSections
<1>2. QED
  BY <1>1 DEF Contents

ReadableContent(c) ==
    /\ c \in Contents /\ c.named
    /\ \A i \in DOMAIN c.panels : Readable(c.panels[i])
    /\ \A i \in DOMAIN c.sections : ReadableSection(c.sections[i])

\* A payload without an error reads the same in either mode, and readable.
LEMMA CheckedContent ==
    ASSUME NEW c \in Contents, ~PayloadErrs(c)
    PROVE  /\ NormalizePayload(c, "defensive") = NormalizePayload(c, "strict")
           /\ ReadableContent(NormalizePayload(c, "strict"))
<1>0. c.named /\ c.panels \in Seq(Panels) /\ c.sections \in Seq(Sections)
  BY DEF PayloadErrs, Contents
<1>1. {"strict", "defensive"} \subseteq Modes
  BY DEF Modes
<1>2. \A i \in DOMAIN c.panels : c.panels[i] \in Panels /\ ~PanelErrs(c.panels[i])
  BY <1>0 DEF PayloadErrs
<1>3. \A i \in DOMAIN c.sections : c.sections[i] \in Sections /\ ~SectionErrs(c.sections[i])
  BY <1>0 DEF PayloadErrs
<1>4. /\ ReadPanels(c, "defensive") = ReadPanels(c, "strict")
      /\ ReadPanels(c, "strict") \in Seq({p \in Panels : Readable(p)})
  <2> DEFINE read(how) == [i \in DOMAIN c.panels |-> NormalizePanel(c.panels[i], how)]
             X == {p \in Panels : Readable(p)}
             Y == X \cup {NoPanel}
  <2>1. \A i \in DOMAIN c.panels :
            /\ NormalizePanel(c.panels[i], "defensive") = NormalizePanel(c.panels[i], "strict")
            /\ NormalizePanel(c.panels[i], "strict") \in Y
    <3>1. \A i \in DOMAIN c.panels : NormalizePanel(c.panels[i], "strict") # NoPanel
                                        => Readable(NormalizePanel(c.panels[i], "strict"))
      BY <1>1, <1>2, CheckedPanel
    <3>2. QED
      BY <1>1, <1>2, <3>1, CheckedPanel DEF Readable
  <2>2. read("defensive") = read("strict")
    BY <2>1
  <2>3. read("strict") \in Seq(Y)
    <3>1. DOMAIN c.panels = 1 .. Len(c.panels) /\ Len(c.panels) \in Nat
      BY <1>0
    <3> HIDE DEF Y
    <3>2. QED
      BY <2>1, <3>1
  <2>4. Rendered(read("strict")) \in Seq(X)
    <3>1. Rendered(read("strict")) \in Seq(Y \ {NoPanel})
      <4> HIDE DEF read, Y
      <4>1. QED
        BY <2>3, WithoutFacts DEF Rendered
    <3>2. Y \ {NoPanel} \subseteq X
      OBVIOUS
    <3> HIDE DEF X, Y, read
    <3>3. QED
      BY <3>1, <3>2
  <2>5. QED
    BY <2>2, <2>4 DEF ReadPanels
<1>5. /\ ReadSections(c, "defensive") = ReadSections(c, "strict")
      /\ ReadSections(c, "strict") \in Seq({s \in Sections : ReadableSection(s)})
  <2> DEFINE dropped == DroppedSections(c, "strict")
             kept == {s \in ToSet(c.sections) : SectionKept(s, "strict")}
             these == KeptSections(c, "strict")
             X == {s \in Sections : ReadableSection(s)}
  <2>1. \A s \in ToSet(c.sections) : s \in Sections /\ ~SectionErrs(s)
    BY <1>3 DEF ToSet
  <2>2. DroppedSections(c, "defensive") = dropped
    BY <1>1, <2>1, CheckedSection DEF DroppedSections
  <2>3. KeptSections(c, "defensive") = these
    BY <2>2 DEF KeptSections
  <2>4. these \in Seq(kept)
    <3>1. c.sections \in Seq(ToSet(c.sections))
      <4>1. \A i \in 1 .. Len(c.sections) : c.sections[i] \in ToSet(c.sections)
        BY <1>0 DEF ToSet
      <4>2. QED
        BY <1>0, <4>1, IsASeq
    <3>2. these \in Seq(ToSet(c.sections) \ dropped)
      BY <3>1, WithoutFacts DEF KeptSections
    <3>3. ToSet(c.sections) \ dropped \subseteq kept
      BY DEF DroppedSections
    <3> HIDE DEF kept, these, dropped
    <3>4. QED
      BY <3>2, <3>3
  <2>5. DOMAIN these = 1 .. Len(these) /\ Len(these) \in Nat
        /\ \A i \in DOMAIN these : these[i] \in kept
    <3> HIDE DEF these, kept
    <3>1. QED
      BY <2>4
  <2>6. \A s \in kept : /\ NormalizeSection(s, "defensive") = NormalizeSection(s, "strict")
                        /\ ReadableSection(NormalizeSection(s, "strict"))
    BY <1>1, <2>1, CheckedSection
  <2> HIDE DEF kept, these
  <2>7. ReadSections(c, "defensive") = [i \in DOMAIN these |-> NormalizeSection(these[i], "strict")]
    BY <2>3, <2>5, <2>6 DEF ReadSections
  <2>8. ReadSections(c, "strict") = [i \in DOMAIN these |-> NormalizeSection(these[i], "strict")]
    BY DEF ReadSections, these
  <2>9. \A i \in 1 .. Len(these) : NormalizeSection(these[i], "strict") \in X
    BY <2>5, <2>6 DEF ReadableSection
  <2> HIDE DEF X
  <2>10. ReadSections(c, "strict") \in Seq(X)
    BY <2>5, <2>8, <2>9
  <2>11. QED
    BY <2>7, <2>8, <2>10 DEF X
<1>6. NormalizePayload(c, "defensive") = NormalizePayload(c, "strict")
  BY <1>0, <1>4, <1>5, ReadingIs
<1>7. ReadableContent(NormalizePayload(c, "strict"))
  <2> DEFINE read == NormalizePayload(c, "strict")
  <2>1. read = [shape |-> c.shape, named |-> c.named, panels |-> ReadPanels(c, "strict"),
                sections |-> ReadSections(c, "strict")]
    BY <1>0, ReadingIs
  <2>2. ReadPanels(c, "strict") \in Seq(Panels)
        /\ \A i \in DOMAIN ReadPanels(c, "strict") : Readable(ReadPanels(c, "strict")[i])
    BY <1>4
  <2>3. ReadSections(c, "strict") \in Seq(Sections)
        /\ \A i \in DOMAIN ReadSections(c, "strict") : ReadableSection(ReadSections(c, "strict")[i])
    BY <1>5
  <2>4. c.shape \in {"dashboard", "detail"} /\ c.named \in BOOLEAN
    BY DEF Contents
  <2> HIDE DEF read
  <2>5. read \in Contents
    BY <2>1, <2>2, <2>3, <2>4 DEF Contents
  <2>6. ReadableContent(read)
    BY <1>0, <2>1, <2>2, <2>3, <2>5 DEF ReadableContent
  <2>7. QED
    BY <2>6 DEF read
<1>8. QED
  BY <1>6, <1>7

\* A readable payload has no error, and shows itself when it is read again.
LEMMA ReadableContentStays ==
    ASSUME NEW c, ReadableContent(c), NEW how
    PROVE  /\ ~PayloadErrs(c)
           /\ Shown(NormalizePayload(c, how)) = Shown(c)
<1>0. c \in Contents /\ c.named /\ c.panels \in Seq(Panels) /\ c.sections \in Seq(Sections)
  BY DEF ReadableContent, Contents
<1>1. ~PayloadErrs(c)
  <2>1. \A i \in DOMAIN c.panels : ~PanelErrs(c.panels[i])
    BY ReadableStays DEF ReadableContent
  <2>2. \A i \in DOMAIN c.sections : ~SectionErrs(c.sections[i])
    BY ReadableSectionStays DEF ReadableContent
  <2>3. QED
    BY <1>0, <2>1, <2>2 DEF PayloadErrs
<1>2. ReadPanels(c, how) = c.panels
  <2>1. \A i \in DOMAIN c.panels : /\ NormalizePanel(c.panels[i], how) = c.panels[i]
                                   /\ c.panels[i] # NoPanel
    BY ReadableStays DEF ReadableContent
  <2>2. [i \in DOMAIN c.panels |-> NormalizePanel(c.panels[i], how)] = c.panels
    BY <1>0, <2>1
  <2>3. c.panels \in Seq(Panels \ {NoPanel})
    BY <1>0, <2>1, IsASeq
  <2>4. Rendered(c.panels) = c.panels
    BY <1>0, <2>3, WithoutFacts DEF Rendered
  <2>5. QED
    BY <2>2, <2>4 DEF ReadPanels
<1>3. KeptSections(c, how) = c.sections
  <2>1. \A i \in DOMAIN c.sections : SectionKept(c.sections[i], how)
    BY ReadableSectionStays DEF ReadableContent
  <2>2. \A i \in 1 .. Len(c.sections) : c.sections[i] \in Sections \ DroppedSections(c, how)
    BY <1>0, <2>1 DEF DroppedSections
  <2>3. c.sections \in Seq(Sections \ DroppedSections(c, how))
    BY <1>0, <2>2, IsASeq
  <2>4. QED
    BY <1>0, <2>3, WithoutFacts DEF KeptSections
<1>4. [i \in DOMAIN ReadSections(c, how) |-> Untitled(ReadSections(c, how)[i])]
        = [i \in DOMAIN c.sections |-> Untitled(c.sections[i])]
  <2>1. \A i \in DOMAIN c.sections :
            Untitled(NormalizeSection(c.sections[i], how)) = Untitled(c.sections[i])
    BY ReadableSectionStays DEF ReadableContent
  <2>2. ReadSections(c, how) = [i \in DOMAIN c.sections |-> NormalizeSection(c.sections[i], how)]
    BY <1>3 DEF ReadSections
  <2>3. QED
    BY <2>1, <2>2
<1>5. \A d \in [shape : {c.shape}, named : {c.named}, panels : {c.panels},
                sections : {c.sections, ReadSections(c, how)}] :
          Shown(d) = [shape |-> c.shape, named |-> c.named, panels |-> c.panels,
                      sections |-> [i \in DOMAIN d.sections |-> Untitled(d.sections[i])]]
  BY SMTT(30) DEF Shown, Untitled
<1>6. NormalizePayload(c, how)
        = [shape |-> c.shape, named |-> c.named, panels |-> c.panels,
           sections |-> ReadSections(c, how)]
  BY <1>0, <1>2, ReadingIs
<1>7. c = [shape |-> c.shape, named |-> c.named, panels |-> c.panels, sections |-> c.sections]
  BY <1>0 DEF Contents
<1>8. Shown(NormalizePayload(c, how)) = Shown(c)
  BY <1>4, <1>5, <1>6, <1>7
<1>9. QED
  BY <1>1, <1>8

-----------------------------------------------------------------------------
(* Whatever the model writes *)

PayloadInv == panel \in Panels /\ (content = NoContent \/ content \in Contents)

LEMMA NeedsAre ==
    /\ \A type \in Types : Needs(type) \in [Members -> Kinds]
    /\ NoPanel \in Panels /\ Stat \in Panels
<1>1. ASSUME NEW type \in Types, NEW m \in Members PROVE Needs(type)[m] \in Kinds
  BY MembersAreApart DEF Needs, Kinds, Arrays, RecordArrays
<1>2. \A type \in Types : Needs(type) \in [Members -> Kinds]
  BY <1>1 DEF Needs
<1>3. NoPanel \in Panels
  BY DEF NoPanel, Panels, Kinds
<1>4. Stat \in Panels
  BY <1>2 DEF Stat, Panels, Types
<1>5. QED
  BY <1>2, <1>3, <1>4

LEMMA PayloadStep == PayloadInv /\ [PayloadNext]_payloadVars => PayloadInv'
<1> SUFFICES ASSUME PayloadInv, [PayloadNext]_payloadVars PROVE PayloadInv'
  OBVIOUS
<1>1. CASE EditPanel
  <2>1. panel \in Panels /\ panel.has \in [Members -> Kinds]
    BY DEF PayloadInv, Panels
  <2>2. ASSUME NEW m \in Members, NEW kind \in Kinds, panel' = [panel EXCEPT !.has[m] = kind]
        PROVE  panel' \in Panels
    BY <2>1, <2>2 DEF Panels
  <2>3. panel' = [panel EXCEPT !.type = "unknown"] => panel' \in Panels
    BY <2>1 DEF Panels
  <2>4. QED
    BY <1>1, <2>2, <2>3 DEF EditPanel, PayloadInv
<1>2. CASE PutIntoDashboard
  <2>1. panel \in Panels /\ Stat \in Panels /\ panel' = panel
    BY <1>2, NeedsAre DEF PutIntoDashboard, PayloadInv
  <2>2. <<panel, Stat>> \in Seq(Panels) /\ <<>> \in Seq(Sections)
    BY <2>1
  <2>3. content' \in Contents
    BY <1>2, <2>2 DEF PutIntoDashboard, Contents
  <2>4. QED
    BY <2>1, <2>3 DEF PayloadInv
<1>3. CASE PutIntoDetail
  <2>1. panel \in Panels /\ NoPanel \in Panels /\ panel' = panel
    BY <1>3, NeedsAre DEF PutIntoDetail, PayloadInv
  <2>2. PICK layout \in Layouts, titled \in BOOLEAN, data \in BOOLEAN :
            content' = [shape |-> "detail", named |-> TRUE, panels |-> <<>>,
                        sections |-> <<[layout |-> layout, titled |-> titled, data |-> data,
                                        panel |-> panel],
                                       [layout |-> "text", titled |-> TRUE, data |-> TRUE,
                                        panel |-> NoPanel]>>]
    BY <1>3 DEF PutIntoDetail
  <2>3. /\ [layout |-> layout, titled |-> titled, data |-> data, panel |-> panel] \in Sections
        /\ [layout |-> "text", titled |-> TRUE, data |-> TRUE, panel |-> NoPanel] \in Sections
    BY <2>1 DEF Sections, Layouts
  <2>4. content' \in Contents
    <3>1. \A a, b \in Sections : <<a, b>> \in Seq(Sections)
      OBVIOUS
    <3>2. <<>> \in Seq(Panels)
      OBVIOUS
    <3>3. QED
      BY <2>2, <2>3, <3>1, <3>2 DEF Contents
  <2>5. QED
    BY <2>1, <2>4 DEF PayloadInv
<1>4. CASE UNCHANGED payloadVars
  BY <1>4 DEF PayloadInv, payloadVars
<1>5. QED
  BY <1>1, <1>2, <1>3, <1>4 DEF PayloadNext

\* CanvasShowsWhatItChecked: whatever members and types the model gets wrong, a
\* payload that the canvas lets in shows there what the transcript would show,
\* with nothing left to repair (normalizeCanvasContent, parseDashboard and
\* parseObjectDetail of chartTypes.ts).
THEOREM CanvasShowsThePayload == PayloadSpec => []CanvasShowsWhatItChecked
<1>1. PayloadInit => PayloadInv
  <2> SUFFICES ASSUME PayloadInit PROVE PayloadInv
    OBVIOUS
  <2>1. PICK type \in Types, named \in BOOLEAN :
            panel = [type |-> IF named THEN type ELSE "none", has |-> Needs(type)]
    BY DEF PayloadInit
  <2>2. panel \in Panels
    BY <2>1, NeedsAre DEF Panels
  <2>3. QED
    BY <2>2 DEF PayloadInit, PayloadInv
<1>2. PayloadInv => CanvasShowsWhatItChecked
  <2> DEFINE checked == NormalizeCanvasContent(content)
  <2> SUFFICES ASSUME PayloadInv, checked # NoContent
               PROVE  /\ ~PayloadErrs(checked)
                      /\ Shown(Render(checked)) = Shown(checked)
                      /\ Shown(Render(content)) = Shown(checked)
    BY DEF CanvasShowsWhatItChecked
  <2>1. content.shape # "none" /\ ~PayloadErrs(content)
        /\ checked = NormalizePayload(content, "strict")
    BY DEF NormalizeCanvasContent
  <2>2. content \in Contents
    BY <2>1 DEF PayloadInv, NoContent
  <2>3. ReadableContent(checked) /\ NormalizePayload(content, "defensive") = checked
    BY <2>1, <2>2, CheckedContent
  <2> HIDE DEF checked
  <2>4. checked.shape # "none"
    BY <2>3 DEF ReadableContent, Contents
  <2>5. ~PayloadErrs(checked) /\ Shown(NormalizePayload(checked, "defensive")) = Shown(checked)
    BY <2>3, ReadableContentStays
  <2>6. QED
    BY <2>1, <2>3, <2>4, <2>5 DEF Render, Parse
<1>3. QED
  BY <1>1, <1>2, PayloadStep, PTL DEF PayloadSpec

-----------------------------------------------------------------------------
(* What is written of an answer, and its words *)

ChartSymbols == Tokens \cup Fences

LEMMA WordsOfAppend ==
    ASSUME NEW s \in Seq(ChartSymbols), NEW x \in ChartSymbols
    PROVE  Words(Append(s, x))
             = IF x \in Fences \cup {"t"} THEN Words(s) ELSE Append(Words(s), x)
  BY WithoutOfAppend DEF Words

LEMMA WordsOfEmpty == Words(<<>>) = <<>>
  BY WithoutOfEmpty DEF Words

LEMMA WordsAreText ==
    ASSUME NEW I
    PROVE  \A s \in Seq(ChartSymbols) : ItemsAt(s, I) \in Seq(ChartSymbols)
  BY ItemsAreItems

\* The words of two texts are those of the one, then those of the other.
LEMMA WordsOfBoth ==
    ASSUME NEW a \in Seq(ChartSymbols)
    PROVE  \A b \in Seq(ChartSymbols) : Words(a \o b) = Words(a) \o Words(b)
  BY WithoutOfBoth, SMTT(30) DEF Words

\* If no word is left out, the words stay.
LEMMA WordsOfItems ==
    ASSUME NEW I
    PROVE  \A s \in Seq(ChartSymbols) :
             (\A i \in 1 .. Len(s) : s[i] \notin Fences \cup {"t"} => i \in I)
               => Words(ItemsAt(s, I)) = Words(s)
  BY WithoutOfItems DEF Words

-----------------------------------------------------------------------------
(* A walk over a text *)

\* The function that Walk defines by recursion, from a position on.
Going(steps, end, m, tail) ==
    tail = [i \in m .. end + 1 |->
              IF i > end THEN <<>> ELSE steps[i].text \o tail[steps[i].next]]

\* Every step of a walk goes on, and not past the end.
GoesOn(steps, end) == \A i \in 1 .. end : steps[i].next \in i + 1 .. end + 1

LEMMA GoingExists ==
    ASSUME NEW steps, NEW end \in Nat, GoesOn(steps, end)
    PROVE  \A k \in Nat : k <= end => \E tail : Going(steps, end, end + 1 - k, tail)
<1> DEFINE N == {k \in Nat : k <= end => \E tail : Going(steps, end, end + 1 - k, tail)}
<1>1. 0 \in N
  <2> DEFINE none == [i \in end + 1 .. end + 1 |-> <<>>]
  <2>1. none = [i \in end + 1 .. end + 1 |->
                  IF i > end THEN <<>> ELSE steps[i].text \o none[steps[i].next]]
    <3>1. \A i \in end + 1 .. end + 1 : i > end
      OBVIOUS
    <3>2. QED
      BY <3>1
  <2> HIDE DEF none
  <2>2. Going(steps, end, end + 1, none)
    BY <2>1 DEF Going
  <2>3. end + 1 - 0 = end + 1
    OBVIOUS
  <2>4. QED
    BY <2>2, <2>3
<1>2. ASSUME NEW k \in Nat, k \in N PROVE k + 1 \in N
  <2>1. SUFFICES ASSUME k + 1 <= end
                 PROVE  \E tail : Going(steps, end, end + 1 - (k + 1), tail)
    OBVIOUS
  <2> DEFINE m == end + 1 - (k + 1)
  <2>2. m \in 1 .. end /\ m + 1 = end + 1 - k /\ m \in Nat
    BY <2>1
  <2>3. PICK tail : Going(steps, end, m + 1, tail)
    BY <1>2, <2>1, <2>2
  <2> HIDE DEF m
  <2> DEFINE next(f, i) == IF i > end THEN <<>> ELSE steps[i].text \o f[steps[i].next]
             more == [i \in m .. end + 1 |-> IF i = m THEN next(tail, i) ELSE tail[i]]
             step(f) == [i \in m .. end + 1 |-> next(f, i)]
  <2>4. ASSUME NEW i \in m .. end + 1 PROVE more[i] = next(more, i)
    <3>1. i <= end => steps[i].next \in m + 1 .. end + 1
      BY <2>2 DEF GoesOn
    <3>2. i <= end => more[steps[i].next] = tail[steps[i].next]
      BY <2>2, <3>1
    <3>3. more[i] = next(tail, i)
      <4>1. CASE i = m
        BY <4>1
      <4>2. CASE i # m
        <5>1. i \in m + 1 .. end + 1
          BY <2>2, <4>2
        <5>2. tail[i] = next(tail, i)
          BY <2>3, <5>1 DEF Going
        <5>3. QED
          BY <4>2, <5>2
      <4>3. QED
        BY <4>1, <4>2
    <3>4. i <= end \/ i > end
      BY <2>2
    <3> HIDE DEF more
    <3>5. QED
      BY <3>2, <3>3, <3>4
  <2>5. more = step(more)
    <3>1. DOMAIN more = m .. end + 1 /\ DOMAIN step(more) = m .. end + 1
      OBVIOUS
    <3>2. QED
      BY <2>4, <3>1
  <2>6. Going(steps, end, m, more)
    BY <2>5 DEF Going
  <2>7. QED
    BY <2>6 DEF m
<1>3. \A k \in Nat : k \in N
  <2> HIDE DEF N
  <2>1. QED
    BY <1>1, <1>2, Induction
<1>4. QED
  BY <1>3

\* A walk is that function, from the first position on.
LEMMA WalkIs ==
    ASSUME NEW steps, NEW end \in Nat, GoesOn(steps, end)
    PROVE  \E tail : /\ Walk(steps, end) = tail[1] /\ tail[end + 1] = <<>>
                     /\ \A i \in 1 .. end : tail[i] = steps[i].text \o tail[steps[i].next]
<1> DEFINE chosen == CHOOSE tail :
             tail = [i \in 1 .. end + 1 |->
                       IF i > end THEN <<>>
                       ELSE LET step == steps[i] IN step.text \o tail[step.next]]
<1>1. Walk(steps, end) = chosen[1]
  BY DEF Walk
<1>2. \E tail : Going(steps, end, 1, tail)
  <2>1. end + 1 - end = 1 /\ end <= end
    OBVIOUS
  <2>2. QED
    BY <2>1, GoingExists
<1>3. Going(steps, end, 1, chosen)
  BY <1>2 DEF Going
<1> HIDE DEF chosen
<1>4. chosen[end + 1] = <<>>
  BY <1>3 DEF Going
<1>5. ASSUME NEW i \in 1 .. end
      PROVE  chosen[i] = steps[i].text \o chosen[steps[i].next]
  <2>1. i \in 1 .. end + 1 /\ ~(i > end)
    OBVIOUS
  <2>2. QED
    BY <1>3, <2>1 DEF Going
<1>6. QED
  BY <1>1, <1>4, <1>5

\* A step writes the words of what it passes over.
StepKeeps(s, step, i) ==
    /\ step.next \in i + 1 .. Len(s) + 1
    /\ step.text \in Seq(ChartSymbols)
    /\ Words(step.text) = Words(SubSeq(s, i, step.next - 1))

LEMMA WordsText == \A s \in Seq(ChartSymbols) : Words(s) \in Seq(ChartSymbols)
<1>1. SUFFICES ASSUME NEW s \in Seq(ChartSymbols) PROVE Words(s) \in Seq(ChartSymbols)
  OBVIOUS
<1>2. QED
  BY WordsAreText DEF Words, Without

\* What is cut out of a text is text; two pieces next to each other are one.
LEMMA Pieces ==
    ASSUME NEW s \in Seq(ChartSymbols), NEW i \in 1 .. Len(s) + 1,
           NEW j \in i .. Len(s) + 1, NEW l \in j - 1 .. Len(s)
    PROVE  /\ SubSeq(s, i, j - 1) \in Seq(ChartSymbols)
           /\ SubSeq(s, j, l) \in Seq(ChartSymbols)
           /\ SubSeq(s, i, l) = SubSeq(s, i, j - 1) \o SubSeq(s, j, l)
<1>1. Len(s) \in Nat
  OBVIOUS
<1>2. SubSeq(s, i, j - 1) \in Seq(ChartSymbols) /\ SubSeq(s, j, l) \in Seq(ChartSymbols)
  BY <1>1
<1>3. i \in 1 .. Len(s) + 1 /\ j - 1 \in i - 1 .. Len(s) /\ l \in j - 1 .. Len(s)
  BY <1>1
<1>4. SubSeq(s, i, j - 1) \o SubSeq(s, (j - 1) + 1, l) = SubSeq(s, i, l)
  BY <1>3, ConcatAdjacentSubSeq
<1>5. (j - 1) + 1 = j
  BY <1>1
<1>6. QED
  BY <1>2, <1>4, <1>5

\* If every step does, the walk writes the words of the text.
LEMMA WalkKeeps ==
    ASSUME NEW s \in Seq(ChartSymbols), NEW steps,
           \A i \in 1 .. Len(s) : StepKeeps(s, steps[i], i)
    PROVE  /\ Walk(steps, Len(s)) \in Seq(ChartSymbols)
           /\ Words(Walk(steps, Len(s))) = Words(s)
<1> DEFINE end == Len(s)
<1>1. end \in Nat /\ GoesOn(steps, end)
  BY DEF GoesOn, StepKeeps
<1>2. PICK chosen : /\ Walk(steps, end) = chosen[1] /\ chosen[end + 1] = <<>>
                    /\ \A i \in 1 .. end : chosen[i] = steps[i].text \o chosen[steps[i].next]
  <2> HIDE DEF end
  <2>1. QED
    BY <1>1, WalkIs
<1> DEFINE Kept(i) == chosen[i] \in Seq(ChartSymbols) /\ Words(chosen[i]) = Words(SubSeq(s, i, end))
           N == {k \in Nat : k <= end => \A i \in end + 1 - k .. end + 1 : Kept(i)}
<1>3. 0 \in N
  <2>1. SubSeq(s, end + 1, end) = <<>>
    BY <1>1, SubSeqEmpty
  <2>2. <<>> \in Seq(ChartSymbols)
    OBVIOUS
  <2>3. Kept(end + 1)
    BY <1>2, <2>1, <2>2
  <2>4. \A i \in end + 1 - 0 .. end + 1 : i = end + 1
    BY <1>1
  <2> HIDE DEF Kept
  <2>5. QED
    BY <2>3, <2>4
<1>4. ASSUME NEW k \in Nat, k \in N PROVE k + 1 \in N
  <2>1. SUFFICES ASSUME k + 1 <= end PROVE \A i \in end + 1 - (k + 1) .. end + 1 : Kept(i)
    OBVIOUS
  <2> DEFINE m == end + 1 - (k + 1)
             next == steps[m].next
  <2>2. m \in 1 .. end /\ m + 1 = end + 1 - k
    BY <1>1, <2>1
  <2>3. \A i \in m + 1 .. end + 1 : Kept(i)
    BY <1>4, <2>1, <2>2
  <2>4. StepKeeps(s, steps[m], m)
    BY <2>2
  <2> HIDE DEF m
  <2>5. next \in m + 1 .. end + 1
    BY <2>4 DEF StepKeeps
  <2>6. chosen[next] \in Seq(ChartSymbols) /\ Words(chosen[next]) = Words(SubSeq(s, next, end))
    BY <2>3, <2>5
  <2>7. chosen[m] = steps[m].text \o chosen[next]
    BY <1>2, <2>2
  <2>8. steps[m].text \in Seq(ChartSymbols) /\ Words(steps[m].text) = Words(SubSeq(s, m, next - 1))
    BY <2>4 DEF StepKeeps
  <2> HIDE DEF next
  <2>9. /\ SubSeq(s, m, next - 1) \in Seq(ChartSymbols) /\ SubSeq(s, next, end) \in Seq(ChartSymbols)
        /\ SubSeq(s, m, end) = SubSeq(s, m, next - 1) \o SubSeq(s, next, end)
    <3>1. m \in 1 .. Len(s) + 1 /\ next \in m .. Len(s) + 1 /\ Len(s) \in next - 1 .. Len(s)
      BY <1>1, <2>2, <2>5
    <3>2. QED
      BY <3>1, Pieces
  <2>10. Words(SubSeq(s, m, end)) = Words(SubSeq(s, m, next - 1)) \o Words(SubSeq(s, next, end))
    BY <2>9, WordsOfBoth
  <2>11. /\ Words(steps[m].text \o chosen[next]) = Words(steps[m].text) \o Words(chosen[next])
         /\ steps[m].text \o chosen[next] \in Seq(ChartSymbols)
    BY <2>6, <2>8, WordsOfBoth, ConcatProperties
  <2>12. Kept(m)
    BY <2>6, <2>7, <2>8, <2>10, <2>11
  <2>13. \A i \in m .. end + 1 : i = m \/ i \in m + 1 .. end + 1
    BY <1>1, <2>2
  <2> HIDE DEF Kept
  <2>14. QED
    BY <2>3, <2>12, <2>13 DEF m
<1>5. \A k \in Nat : k \in N
  <2> HIDE DEF N
  <2>1. QED
    BY <1>3, <1>4, Induction
<1>6. Kept(1)
  <2>1. \A i \in end + 1 - end .. end + 1 : Kept(i)
    <3>1. end \in N
      BY <1>1, <1>5
    <3>2. QED
      BY <1>1, <3>1
  <2>2. 1 \in end + 1 - end .. end + 1
    BY <1>1
  <2> HIDE DEF Kept
  <2>3. QED
    BY <2>1, <2>2
<1>7. SubSeq(s, 1, end) = s
  BY SubSeqFull
<1>8. QED
  BY <1>2, <1>6, <1>7

-----------------------------------------------------------------------------
(* The steps of the detector *)

LEMMA EndIs ==
    ASSUME NEW t \in Seq(ChartSymbols), NEW i \in 1 .. Len(t)
    PROVE  ObjectEnd(t, i) = 0 \/ ObjectEnd(t, i) \in i .. Len(t)
<1> DEFINE ends == {j \in i .. Len(t) : Scan(t, i)[j] = [depth |-> 0, string |-> FALSE]}
<1>1. ObjectEnd(t, i) = FirstOf(ends)
  BY DEF ObjectEnd
<1>2. ends \subseteq i .. Len(t) /\ ends \subseteq Nat
  OBVIOUS
<1> HIDE DEF ends
<1>3. QED
  BY <1>1, <1>2, FirstOfIs

LEMMA FirstIs ==
    ASSUME NEW t \in Seq(ChartSymbols), NEW i \in Nat, NEW S
    PROVE  \/ FirstAfter(t, i, S) = 0
           \/ FirstAfter(t, i, S) \in i + 1 .. Len(t) /\ t[FirstAfter(t, i, S)] \in S
<1> DEFINE js == {j \in i + 1 .. Len(t) : t[j] \in S}
<1>1. FirstAfter(t, i, S) = FirstOf(js)
  BY DEF FirstAfter
<1>2. js \subseteq Nat
  OBVIOUS
<1>3. \A j \in js : j \in i + 1 .. Len(t) /\ t[j] \in S
  OBVIOUS
<1> HIDE DEF js
<1>4. QED
  BY <1>1, <1>2, <1>3, FirstOfIs

\* The words of one symbol: a fence or a backtick has none.
LEMMA WordsOfOne ==
    ASSUME NEW x \in ChartSymbols
    PROVE  <<x>> \in Seq(ChartSymbols) /\ (x \in Fences \cup {"t"} => Words(<<x>>) = <<>>)
<1>1. <<>> \in Seq(ChartSymbols) /\ <<x>> \in Seq(ChartSymbols) /\ Append(<<>>, x) = <<x>>
  OBVIOUS
<1>2. Words(Append(<<>>, x)) = IF x \in Fences \cup {"t"} THEN <<>> ELSE Append(<<>>, x)
  BY <1>1, WordsOfAppend, WordsOfEmpty
<1>3. QED
  BY <1>1, <1>2

LEMMA OnePiece ==
    ASSUME NEW s \in Seq(ChartSymbols), NEW i \in 1 .. Len(s)
    PROVE  SubSeq(s, i, i) = <<s[i]>>
<1>1. SubSeq(s, i, i) \in Seq(ChartSymbols) /\ Len(SubSeq(s, i, i)) = 1
  OBVIOUS
<1>2. SubSeq(s, i, i)[1] = s[i]
  OBVIOUS
<1>3. <<s[i]>> \in Seq(ChartSymbols) /\ Len(<<s[i]>>) = 1 /\ <<s[i]>>[1] = s[i]
  OBVIOUS
<1>4. \A n \in 1 .. 1 : n = 1
  OBVIOUS
<1>5. QED
  BY <1>1, <1>2, <1>3, <1>4, SeqEqual

\* A step that writes the symbol it is at, and one that writes the rest.
LEMMA CopyingKeeps ==
    ASSUME NEW s \in Seq(ChartSymbols), NEW i \in 1 .. Len(s)
    PROVE  /\ StepKeeps(s, Writes(<<s[i]>>, i + 1), i)
           /\ StepKeeps(s, Writes(SubSeq(s, i, Len(s)), Len(s) + 1), i)
<1>1. Len(s) \in Nat /\ s[i] \in ChartSymbols
  OBVIOUS
<1>2. <<s[i]>> \in Seq(ChartSymbols)
  BY <1>1
<1>3. SubSeq(s, i, (i + 1) - 1) = <<s[i]>>
  <2>1. (i + 1) - 1 = i
    BY <1>1
  <2>2. QED
    BY <2>1, OnePiece
<1>4. SubSeq(s, i, Len(s)) \in Seq(ChartSymbols) /\ (Len(s) + 1) - 1 = Len(s)
  BY <1>1
<1>5. i + 1 \in i + 1 .. Len(s) + 1 /\ Len(s) + 1 \in i + 1 .. Len(s) + 1
  BY <1>1
<1>6. QED
  BY <1>2, <1>3, <1>4, <1>5 DEF StepKeeps, Writes

\* reassembleFencedJson, one step of its walk
MendStep(t, i) ==
    LET end == IF t[i] = "{" THEN ObjectEnd(t, i) ELSE 0
        o == SubSeq(t, i, end)
    IN  IF end # 0 /\ WithoutFences(o) # o /\ Renders(WithoutFences(o))
        THEN Writes(WithoutFences(o), end + 1)
        ELSE Writes(<<t[i]>>, i + 1)

LEMMA Mending ==
    ASSUME NEW t
    PROVE  Reassemble(t) = Walk([i \in DOMAIN t |-> MendStep(t, i)], Len(t))
  BY DEF Reassemble, MendStep

LEMMA MendStepKeeps ==
    ASSUME NEW t \in Seq(ChartSymbols), NEW i \in 1 .. Len(t)
    PROVE  StepKeeps(t, MendStep(t, i), i)
<1> DEFINE end == IF t[i] = "{" THEN ObjectEnd(t, i) ELSE 0
           o == SubSeq(t, i, end)
           Mends == end # 0 /\ WithoutFences(o) # o /\ Renders(WithoutFences(o))
<1>1. MendStep(t, i) = IF Mends THEN Writes(WithoutFences(o), end + 1)
                       ELSE Writes(<<t[i]>>, i + 1)
  BY DEF MendStep
<1>2. Len(t) \in Nat /\ DOMAIN t = 1 .. Len(t)
  OBVIOUS
<1>3. CASE Mends
  <2> DEFINE e == end
  <2>1. e \in i .. Len(t)
    BY <1>3, EndIs
  <2>2. MendStep(t, i) = Writes(WithoutFences(SubSeq(t, i, e)), e + 1)
    BY <1>1, <1>3
  <2> HIDE DEF e
  <2>3. SubSeq(t, i, e) \in Seq(ChartSymbols)
    BY <1>2, <2>1
  <2> DEFINE x == SubSeq(t, i, e)
             I == {j \in DOMAIN x : Scan(x, 1)[j].string \/ x[j] \notin Fences}
  <2>4. WithoutFences(x) = ItemsAt(x, I)
    BY DEF WithoutFences
  <2>5. \A j \in 1 .. Len(x) : x[j] \notin Fences \cup {"t"} => j \in I
    BY <2>3
  <2>6. ItemsAt(x, I) \in Seq(ChartSymbols) /\ Words(ItemsAt(x, I)) = Words(x)
    <3> HIDE DEF x, I
    <3>1. x \in Seq(ChartSymbols)
      BY <2>3 DEF x
    <3>2. QED
      BY <2>5, <3>1, WordsAreText, WordsOfItems
  <2>7. e + 1 \in i + 1 .. Len(t) + 1 /\ (e + 1) - 1 = e
    BY <1>2, <2>1
  <2> HIDE DEF I
  <2>8. QED
    BY <2>2, <2>4, <2>6, <2>7 DEF StepKeeps, Writes
<1>4. CASE ~Mends
  BY <1>1, <1>4, CopyingKeeps
<1>5. QED
  BY <1>3, <1>4

LEMMA ReassembleKeeps ==
    ASSUME NEW t \in Seq(ChartSymbols)
    PROVE  Reassemble(t) \in Seq(ChartSymbols) /\ Words(Reassemble(t)) = Words(t)
<1> DEFINE steps == [i \in DOMAIN t |-> MendStep(t, i)]
<1>1. \A i \in 1 .. Len(t) : StepKeeps(t, steps[i], i)
  BY MendStepKeeps
<1> HIDE DEF steps
<1>2. QED
  BY <1>1, WalkKeeps, Mending DEF steps

\* What stands between two fences or backticks has all the words.
LEMMA WordsBetween ==
    ASSUME NEW b \in Seq(ChartSymbols), NEW x \in Fences \cup {"t"}, NEW y \in Fences \cup {"t"},
           x \in ChartSymbols, y \in ChartSymbols
    PROVE  /\ <<x>> \o b \o <<y>> \in Seq(ChartSymbols)
           /\ Words(<<x>> \o b \o <<y>>) = Words(b)
           /\ Words(b \o <<y>>) = Words(b)
<1>1. /\ <<x>> \in Seq(ChartSymbols) /\ Words(<<x>>) = <<>>
      /\ <<y>> \in Seq(ChartSymbols) /\ Words(<<y>>) = <<>>
  BY WordsOfOne
<1>2. Words(b) \in Seq(ChartSymbols) /\ <<x>> \o b \in Seq(ChartSymbols)
  BY <1>1, WordsText
<1>3. <<>> \o Words(b) = Words(b) /\ Words(b) \o <<>> = Words(b)
  BY <1>2, ConcatEmptySeq
<1>4. Words(<<x>> \o b \o <<y>>) = Words(b)
  <2>1. Words(<<x>> \o b) = Words(<<x>>) \o Words(b)
    BY <1>1, WordsOfBoth
  <2>2. Words((<<x>> \o b) \o <<y>>) = Words(<<x>> \o b) \o Words(<<y>>)
    BY <1>1, <1>2, WordsOfBoth
  <2>3. QED
    BY <1>1, <1>3, <2>1, <2>2
<1>5. Words(b \o <<y>>) = Words(b)
  <2>1. Words(b \o <<y>>) = Words(b) \o Words(<<y>>)
    BY <1>1, WordsOfBoth
  <2>2. QED
    BY <1>1, <1>3, <2>1
<1>6. <<x>> \o b \o <<y>> \in Seq(ChartSymbols)
  BY <1>1, <1>2
<1>7. QED
  BY <1>4, <1>5, <1>6

LEMMA MarksAreSymbols == "D" \in Fences /\ "F" \in Fences /\ Fences \subseteq ChartSymbols
  BY DEF Fences, ChartSymbols

\* processSegment, one step of its walk
SegmentStep(s, i) ==
    LET Object(j) == SubSeq(s, j, ObjectEnd(s, j))
        Wraps(j) == s[j] = "{" /\ ObjectEnd(s, j) # 0 /\ Renders(Object(j))
    IN  CASE Wraps(i) ->
                Writes(<<"D">> \o Object(i) \o <<"F">>, AfterObject(s, ObjectEnd(s, i)))
          [] s[i] = "t" /\ i < Len(s) /\ Wraps(i + 1) -> Writes(<<>>, i + 1)
          [] s[i] = "{" /\ ObjectEnd(s, i) = 0 /\ Hints(s, i) ->
                Writes(SubSeq(s, i, Len(s)), Len(s) + 1)
          [] OTHER -> Writes(<<s[i]>>, i + 1)

LEMMA Segmenting ==
    ASSUME NEW s
    PROVE  ProcessSegment(s) = Walk([i \in DOMAIN s |-> SegmentStep(s, i)], Len(s))
  BY DEF ProcessSegment, SegmentStep

LEMMA SegmentStepKeeps ==
    ASSUME NEW s \in Seq(ChartSymbols)
    PROVE  \A i \in 1 .. Len(s) : StepKeeps(s, SegmentStep(s, i), i)
<1> DEFINE Object(i) == SubSeq(s, i, ObjectEnd(s, i))
           Wraps(i) == s[i] = "{" /\ ObjectEnd(s, i) # 0 /\ Renders(Object(i))
           Wrapping(i) == Writes(<<"D">> \o Object(i) \o <<"F">>, AfterObject(s, ObjectEnd(s, i)))
           Step(i) ==
             CASE Wraps(i) -> Wrapping(i)
               [] s[i] = "t" /\ i < Len(s) /\ Wraps(i + 1) -> Writes(<<>>, i + 1)
               [] s[i] = "{" /\ ObjectEnd(s, i) = 0 /\ Hints(s, i) ->
                     Writes(SubSeq(s, i, Len(s)), Len(s) + 1)
               [] OTHER -> Writes(<<s[i]>>, i + 1)
<1>1. \A i : SegmentStep(s, i) = Step(i)
  BY DEF SegmentStep
<1>2. Len(s) \in Nat /\ DOMAIN s = 1 .. Len(s)
  OBVIOUS
<1>3. ASSUME NEW i \in 1 .. Len(s), Wraps(i) PROVE StepKeeps(s, Wrapping(i), i)
  <2> DEFINE e == ObjectEnd(s, i)
  <2>1. e \in i .. Len(s)
    BY <1>3, EndIs
  <2>2. Wrapping(i) = Writes(<<"D">> \o SubSeq(s, i, e) \o <<"F">>, AfterObject(s, e))
    OBVIOUS
  <2> HIDE DEF e, Wrapping
  <2>3. SubSeq(s, i, e) \in Seq(ChartSymbols)
    BY <1>2, <2>1
  <2>4. /\ <<"D">> \o SubSeq(s, i, e) \o <<"F">> \in Seq(ChartSymbols)
        /\ Words(<<"D">> \o SubSeq(s, i, e) \o <<"F">>) = Words(SubSeq(s, i, e))
    BY <2>3, MarksAreSymbols, WordsBetween
  <2>5. CASE AfterObject(s, e) = e + 1
    <3>1. e + 1 \in i + 1 .. Len(s) + 1 /\ (e + 1) - 1 = e
      BY <1>2, <2>1
    <3>2. QED
      BY <2>2, <2>4, <2>5, <3>1 DEF StepKeeps, Writes
  <2>6. CASE AfterObject(s, e) = e + 2 /\ e < Len(s) /\ s[e + 1] = "t"
    <3>1. /\ e + 2 \in i + 1 .. Len(s) + 1 /\ (e + 2) - 1 = e + 1
          /\ e + 1 \in 1 .. Len(s) /\ (e + 1) - 1 = e
      BY <1>2, <2>1, <2>6
    <3>2. SubSeq(s, e + 1, e + 1) = <<"t">> /\ "t" \in ChartSymbols
      <4>1. s[e + 1] \in ChartSymbols
        BY <3>1
      <4>2. QED
        BY <2>6, <3>1, <4>1, OnePiece
    <3>3. SubSeq(s, i, e + 1) = SubSeq(s, i, e) \o SubSeq(s, e + 1, e + 1)
      <4>1. i \in 1 .. Len(s) + 1 /\ e + 1 \in i .. Len(s) + 1 /\ e + 1 \in (e + 1) - 1 .. Len(s)
        BY <1>2, <2>1, <2>6
      <4>2. SubSeq(s, i, e + 1) = SubSeq(s, i, (e + 1) - 1) \o SubSeq(s, e + 1, e + 1)
        BY <4>1, Pieces
      <4>3. QED
        BY <3>1, <4>2
    <3>4. Words(SubSeq(s, i, e + 1)) = Words(SubSeq(s, i, e))
      <4>1. "t" \in Fences \cup {"t"}
        OBVIOUS
      <4>2. Words(SubSeq(s, i, e) \o <<"t">>) = Words(SubSeq(s, i, e))
        BY <2>3, <3>2, <4>1, WordsBetween
      <4>3. QED
        BY <3>2, <3>3, <4>2
    <3>5. QED
      BY <2>2, <2>4, <2>6, <3>1, <3>4 DEF StepKeeps, Writes
  <2>7. QED
    BY <2>5, <2>6 DEF AfterObject
<1>4. ASSUME NEW i \in 1 .. Len(s) PROVE StepKeeps(s, Step(i), i)
  <2> HIDE DEF Wrapping
  <2>1. CASE Wraps(i)
    <3>1. Step(i) = Wrapping(i)
      <4>1. s[i] = "{"
        BY <2>1
      <4>2. QED
        BY <2>1, <4>1
    <3> HIDE DEF Step, Wraps
    <3>2. QED
      BY <1>3, <2>1, <3>1
  <2>2. CASE s[i] = "t" /\ i < Len(s) /\ Wraps(i + 1)
    <3>1. Step(i) = Writes(<<>>, i + 1)
      BY <2>2
    <3> HIDE DEF Step
    <3>2. /\ i + 1 \in i + 1 .. Len(s) + 1 /\ (i + 1) - 1 = i
          /\ "t" \in ChartSymbols /\ <<>> \in Seq(ChartSymbols)
      <4>1. i + 1 \in i + 1 .. Len(s) + 1 /\ (i + 1) - 1 = i
        BY <1>2
      <4>2. s[i] \in ChartSymbols /\ <<>> \in Seq(ChartSymbols)
        OBVIOUS
      <4>3. s[i] = "t"
        BY <2>2
      <4>4. QED
        BY <4>1, <4>2, <4>3
    <3>3. SubSeq(s, i, i) = <<"t">>
      BY <2>2, OnePiece
    <3>4. Words(SubSeq(s, i, i)) = <<>>
      BY <3>2, <3>3, WordsOfOne
    <3>5. QED
      BY <3>1, <3>2, <3>4, WordsOfEmpty DEF StepKeeps, Writes
  <2>3. CASE s[i] = "{" /\ ObjectEnd(s, i) = 0 /\ Hints(s, i)
    <3>1. Step(i) = Writes(SubSeq(s, i, Len(s)), Len(s) + 1)
      BY <2>3
    <3> HIDE DEF Step
    <3>2. QED
      BY <3>1, CopyingKeeps
  <2>4. CASE /\ ~Wraps(i) /\ ~(s[i] = "t" /\ i < Len(s) /\ Wraps(i + 1))
             /\ ~(s[i] = "{" /\ ObjectEnd(s, i) = 0 /\ Hints(s, i))
    <3> HIDE DEF Wraps
    <3>1. Step(i) = Writes(<<s[i]>>, i + 1)
      BY <2>4
    <3> HIDE DEF Step
    <3>2. QED
      BY <3>1, CopyingKeeps
  <2>5. QED
    BY <2>1, <2>2, <2>3, <2>4
<1>5. QED
  <2> HIDE DEF Step
  <2>1. QED
    BY <1>1, <1>4

LEMMA SegmentKeeps ==
    ASSUME NEW s \in Seq(ChartSymbols)
    PROVE  ProcessSegment(s) \in Seq(ChartSymbols) /\ Words(ProcessSegment(s)) = Words(s)
<1> DEFINE steps == [i \in DOMAIN s |-> SegmentStep(s, i)]
<1>1. \A i \in 1 .. Len(s) : StepKeeps(s, steps[i], i)
  BY SegmentStepKeeps
<1> HIDE DEF steps
<1>2. QED
  BY <1>1, WalkKeeps, Segmenting DEF steps

\* A block is its first symbol, its body and its last symbol.
LEMMA BlockIs ==
    ASSUME NEW s \in Seq(ChartSymbols), Len(s) >= 2
    PROVE  LET body == SubSeq(s, 2, Len(s) - 1)
           IN  body \in Seq(ChartSymbols) /\ s = <<s[1]>> \o body \o <<s[Len(s)]>>
<1> DEFINE n == Len(s)
           body == SubSeq(s, 2, n - 1)
<1>1. /\ n \in Nat /\ n >= 2 /\ 1 \in 1 .. n /\ n \in 1 .. n /\ (n - 1) + 1 = n /\ 2 - 1 = 1
      /\ 1 \in 1 .. n + 1 /\ 2 \in 1 .. n + 1 /\ n \in 2 - 1 .. n
      /\ n \in 2 .. n + 1 /\ n \in n - 1 .. n
  OBVIOUS
<1>2. body \in Seq(ChartSymbols)
  BY <1>1
<1>3. SubSeq(s, 1, n) = SubSeq(s, 1, 2 - 1) \o SubSeq(s, 2, n)
  BY <1>1, Pieces
<1>4. SubSeq(s, 2, n) = SubSeq(s, 2, n - 1) \o SubSeq(s, n, n)
  <2>1. 2 \in 1 .. n + 1
    BY <1>1
  <2>2. QED
    BY <1>1, <2>1, Pieces
<1>5. SubSeq(s, 1, n) = s
  BY SubSeqFull
<1>6. SubSeq(s, 1, 1) = <<s[1]>> /\ SubSeq(s, n, n) = <<s[n]>>
  BY <1>1, OnePiece
<1>7. <<s[1]>> \in Seq(ChartSymbols) /\ <<s[n]>> \in Seq(ChartSymbols)
  BY <1>1
<1>8. <<s[1]>> \o (body \o <<s[n]>>) = <<s[1]>> \o body \o <<s[n]>>
  <2> HIDE DEF n, body
  <2>1. QED
    BY <1>2, <1>7, ConcatAssociative
<1>9. QED
  BY <1>1, <1>2, <1>3, <1>4, <1>5, <1>6, <1>8

\* retagJsonFence, of a fence and what is up to the one it pairs with.
LEMMA RetagIs ==
    ASSUME NEW s
    PROVE  LET body == SubSeq(s, 2, Len(s) - 1)
           IN  RetagJsonFence(s) = <<"D">> \o body \o <<"F">> \/ RetagJsonFence(s) = s
  BY DEF RetagJsonFence

LEMMA RetagKeeps ==
    ASSUME NEW s \in Seq(ChartSymbols), Len(s) >= 2, s[1] \in Fences, s[Len(s)] \in Fences
    PROVE  RetagJsonFence(s) \in Seq(ChartSymbols) /\ Words(RetagJsonFence(s)) = Words(s)
<1> DEFINE n == Len(s)
           body == SubSeq(s, 2, n - 1)
<1>1. body \in Seq(ChartSymbols) /\ s = <<s[1]>> \o body \o <<s[n]>>
  BY BlockIs
<1>2. RetagJsonFence(s) = <<"D">> \o body \o <<"F">> \/ RetagJsonFence(s) = s
  BY RetagIs
<1>3. s[1] \in Fences /\ s[n] \in Fences
  OBVIOUS
<1> HIDE DEF body, n
<1>4. Words(s) = Words(body)
  <2>1. Words(<<s[1]>> \o body \o <<s[n]>>) = Words(body)
    BY <1>1, <1>3, MarksAreSymbols, WordsBetween
  <2>2. QED
    BY <1>1, <2>1
<1>5. /\ <<"D">> \o body \o <<"F">> \in Seq(ChartSymbols)
      /\ Words(<<"D">> \o body \o <<"F">>) = Words(body)
  BY <1>1, MarksAreSymbols, WordsBetween
<1>6. QED
  BY <1>2, <1>4, <1>5

\* wrapInlineChartJson of a repaired text, one step of its walk
WrapStep(t, i) ==
    LET open == FirstAfter(t, i - 1, Fences)
        close == IF open = 0 THEN 0 ELSE FirstAfter(t, open, Fences)
    IN  IF close = 0 THEN Writes(ProcessSegment(SubSeq(t, i, Len(t))), Len(t) + 1)
        ELSE Writes(ProcessSegment(SubSeq(t, i, open - 1))
                      \o RetagJsonFence(SubSeq(t, open, close)), close + 1)

Wrapped(t) == Walk([i \in DOMAIN t |-> WrapStep(t, i)], Len(t))

LEMMA WrapIs ==
    ASSUME NEW text
    PROVE  WrapInlineChartJson(text) = Wrapped(Reassemble(text))
  BY DEF WrapInlineChartJson, Wrapped, WrapStep

LEMMA WrapStepKeeps ==
    ASSUME NEW t \in Seq(ChartSymbols)
    PROVE  \A i \in 1 .. Len(t) : StepKeeps(t, WrapStep(t, i), i)
<1> DEFINE open(i) == FirstAfter(t, i - 1, Fences)
           close(i) == IF open(i) = 0 THEN 0 ELSE FirstAfter(t, open(i), Fences)
           Step(i) ==
             IF close(i) = 0 THEN Writes(ProcessSegment(SubSeq(t, i, Len(t))), Len(t) + 1)
             ELSE Writes(ProcessSegment(SubSeq(t, i, open(i) - 1))
                           \o RetagJsonFence(SubSeq(t, open(i), close(i))), close(i) + 1)
<1>1. \A i : WrapStep(t, i) = Step(i)
  BY DEF WrapStep
<1>2. t \in Seq(ChartSymbols)
  OBVIOUS
<1>3. Len(t) \in Nat /\ DOMAIN t = 1 .. Len(t)
  BY <1>2
<1>4. ASSUME NEW i \in 1 .. Len(t) PROVE StepKeeps(t, Step(i), i)
  <2>1. CASE close(i) = 0
    <3>1. Step(i) = Writes(ProcessSegment(SubSeq(t, i, Len(t))), Len(t) + 1)
      BY <2>1
    <3> HIDE DEF Step
    <3>2. SubSeq(t, i, Len(t)) \in Seq(ChartSymbols)
      BY <1>2, <1>3
    <3>3. Len(t) + 1 \in i + 1 .. Len(t) + 1 /\ (Len(t) + 1) - 1 = Len(t)
      BY <1>3
    <3> DEFINE prose == SubSeq(t, i, Len(t))
    <3>4. ProcessSegment(prose) \in Seq(ChartSymbols) /\ Words(ProcessSegment(prose)) = Words(prose)
      BY <3>2, SegmentKeeps
    <3>5. QED
      BY <3>1, <3>3, <3>4 DEF StepKeeps, Writes
  <2>2. CASE close(i) # 0
    <3> DEFINE o == open(i)
               c == close(i)
               prose == SubSeq(t, i, o - 1)
               fence == SubSeq(t, o, c)
    <3>1. o # 0 /\ c = FirstAfter(t, o, Fences)
      BY <2>2
    <3>2. o \in i .. Len(t) /\ t[o] \in Fences
      <4>1. i - 1 \in Nat /\ (i - 1) + 1 = i
        BY <1>3
      <4>2. QED
        BY <1>2, <3>1, <4>1, FirstIs
    <3>3. c \in o + 1 .. Len(t) /\ t[c] \in Fences
      <4>1. o \in Nat
        BY <1>3, <3>2
      <4> HIDE DEF o
      <4>2. c # 0 /\ c = FirstAfter(t, o, Fences)
        BY <2>2, <3>1
      <4> HIDE DEF c
      <4>3. QED
        BY <1>2, <4>1, <4>2, FirstIs
    <3>4. Step(i) = Writes(ProcessSegment(prose) \o RetagJsonFence(fence), c + 1)
      BY <2>2
    <3> HIDE DEF Step, o, c
    <3>5. prose \in Seq(ChartSymbols) /\ fence \in Seq(ChartSymbols) /\ SubSeq(t, i, c) = prose \o fence
      <4>1. /\ i \in 1 .. Len(t) + 1 /\ o \in i .. Len(t) + 1 /\ c \in o - 1 .. Len(t)
        BY <1>3, <3>2, <3>3
      <4>2. QED
        BY <1>2, <4>1, Pieces
    <3>6. Len(fence) >= 2 /\ fence[1] \in Fences /\ fence[Len(fence)] \in Fences
      <4>1. Len(fence) = c - o + 1
        BY <1>2, <1>3, <3>2, <3>3
      <4>2. fence[1] = t[o] /\ fence[c - o + 1] = t[c]
        BY <1>2, <1>3, <3>2, <3>3
      <4>3. QED
        BY <1>3, <3>2, <3>3, <4>1, <4>2
    <3> HIDE DEF prose, fence
    <3>7. ProcessSegment(prose) \in Seq(ChartSymbols) /\ Words(ProcessSegment(prose)) = Words(prose)
      BY <3>5, SegmentKeeps
    <3>8. RetagJsonFence(fence) \in Seq(ChartSymbols) /\ Words(RetagJsonFence(fence)) = Words(fence)
      BY <3>5, <3>6, RetagKeeps
    <3>9. /\ ProcessSegment(prose) \o RetagJsonFence(fence) \in Seq(ChartSymbols)
          /\ Words(ProcessSegment(prose) \o RetagJsonFence(fence)) = Words(SubSeq(t, i, c))
      <4>1. Words(prose \o fence) = Words(prose) \o Words(fence)
        BY <3>5, WordsOfBoth
      <4>2. Words(ProcessSegment(prose) \o RetagJsonFence(fence)) = Words(prose) \o Words(fence)
        BY <3>7, <3>8, WordsOfBoth
      <4>3. ProcessSegment(prose) \o RetagJsonFence(fence) \in Seq(ChartSymbols)
        BY <3>7, <3>8, ConcatProperties
      <4>4. QED
        BY <3>5, <4>1, <4>2, <4>3
    <3>10. c + 1 \in i + 1 .. Len(t) + 1 /\ (c + 1) - 1 = c
      BY <1>3, <3>2, <3>3
    <3>11. QED
      BY <3>4, <3>9, <3>10 DEF StepKeeps, Writes
  <2>3. QED
    BY <2>1, <2>2
<1>5. QED
  <2> HIDE DEF Step
  <2>1. QED
    BY <1>1, <1>4

LEMMA WrappedKeeps ==
    ASSUME NEW t \in Seq(ChartSymbols)
    PROVE  Wrapped(t) \in Seq(ChartSymbols) /\ Words(Wrapped(t)) = Words(t)
<1> DEFINE steps == [i \in DOMAIN t |-> WrapStep(t, i)]
<1>1. \A i \in 1 .. Len(t) : StepKeeps(t, steps[i], i)
  BY WrapStepKeeps
<1> HIDE DEF steps
<1>2. QED
  BY <1>1, WalkKeeps DEF steps, Wrapped

LEMMA WrapKeeps ==
    ASSUME NEW text \in Seq(ChartSymbols)
    PROVE  /\ WrapInlineChartJson(text) \in Seq(ChartSymbols)
           /\ Words(WrapInlineChartJson(text)) = Words(text)
  BY ReassembleKeeps, WrappedKeeps, WrapIs

\* AnswerIsKept: whatever an answer is made of, however long it grows and
\* wherever it is cut off, repairing, wrapping and retagging its chart JSON
\* leaves its words as they are (wrapInlineChartJson).
THEOREM AnswersKeepTheirWords == TextSpec => []AnswerIsKept
<1> DEFINE Inv == answer \in Seq(ChartSymbols)
<1>1. answer = <<>> => Inv
  OBVIOUS
<1>2. Inv /\ [StreamToken]_answer => Inv'
  <2>1. SUFFICES ASSUME Inv, StreamToken PROVE Inv'
    OBVIOUS
  <2>2. PICK token \in Tokens : answer' = Append(answer, token)
    BY <2>1 DEF StreamToken
  <2>3. token \in ChartSymbols
    BY DEF ChartSymbols
  <2>4. QED
    BY <2>1, <2>2, <2>3, AppendProperties
<1>3. Inv => AnswerIsKept
  BY WrapKeeps DEF AnswerIsKept
<1> HIDE DEF Inv
<1>4. QED
  BY <1>1, <1>2, <1>3, PTL DEF TextSpec

-----------------------------------------------------------------------------
(* Where an object ends, in a text that grows *)

\* What a scan makes of one symbol, and what it begins and ends with.
Sees(s, x) ==
    CASE x = "q" -> [s EXCEPT !.string = ~@]
      [] x = "{" /\ ~s.string -> [s EXCEPT !.depth = @ + 1]
      [] x = "}" /\ ~s.string -> [s EXCEPT !.depth = @ - 1]
      [] OTHER -> s

Even == [depth |-> 0, string |-> FALSE]

\* The function that Scan defines by recursion, up to a position.
Scanning(t, begin, n, scan) ==
    scan = [i \in begin - 1 .. n |-> IF i < begin THEN Even ELSE Sees(scan[i - 1], t[i])]

LEMMA ScanningExists ==
    ASSUME NEW t, NEW begin \in Nat \ {0}
    PROVE  \A k \in Nat : \E scan : Scanning(t, begin, begin - 1 + k, scan)
<1> DEFINE N == {k \in Nat : \E scan : Scanning(t, begin, begin - 1 + k, scan)}
<1>1. 0 \in N
  <2> DEFINE none == [i \in begin - 1 .. begin - 1 |-> Even]
  <2>1. begin - 1 + 0 = begin - 1 /\ \A i \in begin - 1 .. begin - 1 : i < begin
    OBVIOUS
  <2>2. none = [i \in begin - 1 .. begin - 1 |-> IF i < begin THEN Even ELSE Sees(none[i - 1], t[i])]
    BY <2>1
  <2> HIDE DEF none
  <2>3. QED
    BY <2>1, <2>2 DEF Scanning
<1>2. ASSUME NEW k \in Nat, k \in N PROVE k + 1 \in N
  <2> DEFINE m == begin - 1 + k
  <2>1. m \in Nat /\ begin - 1 + (k + 1) = m + 1 /\ begin - 1 <= m
    OBVIOUS
  <2>2. PICK scan : Scanning(t, begin, m, scan)
    BY <1>2
  <2> HIDE DEF m
  <2> DEFINE next(f, i) == IF i < begin THEN Even ELSE Sees(f[i - 1], t[i])
             more == [i \in begin - 1 .. m + 1 |-> IF i = m + 1 THEN next(scan, i) ELSE scan[i]]
             step(f) == [i \in begin - 1 .. m + 1 |-> next(f, i)]
  <2>3. ASSUME NEW i \in begin - 1 .. m + 1 PROVE more[i] = next(more, i)
    <3>1. i >= begin => i - 1 \in begin - 1 .. m
      BY <2>1
    <3>2. i >= begin => more[i - 1] = scan[i - 1]
      BY <2>1, <3>1
    <3>3. more[i] = next(scan, i)
      <4>1. CASE i = m + 1
        BY <4>1
      <4>2. CASE i # m + 1
        <5>1. i \in begin - 1 .. m
          BY <2>1, <4>2
        <5>2. scan[i] = next(scan, i)
          BY <2>2, <5>1 DEF Scanning
        <5>3. QED
          BY <4>2, <5>2
      <4>3. QED
        BY <4>1, <4>2
    <3> HIDE DEF more
    <3>4. i < begin \/ i >= begin
      BY <2>1
    <3>5. QED
      BY <3>2, <3>3, <3>4
  <2>4. more = step(more)
    <3>1. DOMAIN more = begin - 1 .. m + 1 /\ DOMAIN step(more) = begin - 1 .. m + 1
      OBVIOUS
    <3>2. QED
      BY <2>3, <3>1
  <2>5. Scanning(t, begin, m + 1, more)
    <3> HIDE DEF more
    <3>1. QED
      BY <2>4 DEF Scanning
  <2>6. QED
    BY <2>1, <2>5
<1>3. \A k \in Nat : k \in N
  <2> HIDE DEF N
  <2>1. QED
    BY <1>1, <1>2, Induction
<1>4. QED
  BY <1>3

LEMMA ScanIs ==
    ASSUME NEW t \in Seq(ChartSymbols), NEW begin \in 1 .. Len(t) + 1
    PROVE  /\ Scan(t, begin)[begin - 1] = Even
           /\ \A j \in begin .. Len(t) : Scan(t, begin)[j] = Sees(Scan(t, begin)[j - 1], t[j])
<1> DEFINE n == Len(t)
           chosen == CHOOSE scan :
             scan = [i \in begin - 1 .. n |->
                       IF i < begin THEN [depth |-> 0, string |-> FALSE]
                       ELSE LET s == scan[i - 1] IN
                            CASE t[i] = "q" -> [s EXCEPT !.string = ~@]
                              [] t[i] = "{" /\ ~s.string -> [s EXCEPT !.depth = @ + 1]
                              [] t[i] = "}" /\ ~s.string -> [s EXCEPT !.depth = @ - 1]
                              [] OTHER -> s]
<1>1. Scan(t, begin) = chosen
  BY DEF Scan
<1>2. n \in Nat /\ begin \in Nat \ {0} /\ begin - 1 <= n /\ n - (begin - 1) \in Nat
      /\ begin - 1 + (n - (begin - 1)) = n
  OBVIOUS
<1>3. \E scan : Scanning(t, begin, n, scan)
  <2> HIDE DEF n
  <2>1. QED
    BY <1>2, ScanningExists
<1>4. Scanning(t, begin, n, chosen)
  BY <1>3 DEF Scanning, Sees, Even
<1> HIDE DEF chosen, n
<1>5. chosen[begin - 1] = Even
  BY <1>2, <1>4 DEF Scanning
<1>6. ASSUME NEW j \in begin .. n PROVE chosen[j] = Sees(chosen[j - 1], t[j])
  <2>1. j \in begin - 1 .. n /\ ~(j < begin)
    BY <1>2
  <2>2. QED
    BY <1>4, <2>1 DEF Scanning
<1>7. QED
  BY <1>1, <1>5, <1>6 DEF n

\* A symbol more does not change what a scan has seen.
LEMMA ScanOn ==
    ASSUME NEW t \in Seq(ChartSymbols), NEW x \in ChartSymbols, NEW begin \in 1 .. Len(t) + 1
    PROVE  /\ \A j \in begin - 1 .. Len(t) : Scan(Append(t, x), begin)[j] = Scan(t, begin)[j]
           /\ Scan(Append(t, x), begin)[Len(t) + 1] = Sees(Scan(t, begin)[Len(t)], x)
<1> DEFINE n == Len(t)
           more == Append(t, x)
           f == Scan(t, begin)
           g == Scan(more, begin)
<1>1. /\ n \in Nat /\ more \in Seq(ChartSymbols) /\ Len(more) = n + 1 /\ more[n + 1] = x
      /\ \A j \in 1 .. n : more[j] = t[j]
  BY AppendProperties
<1>2. f[begin - 1] = Even /\ \A j \in begin .. n : f[j] = Sees(f[j - 1], t[j])
  BY ScanIs
<1>3. g[begin - 1] = Even /\ \A j \in begin .. n + 1 : g[j] = Sees(g[j - 1], more[j])
  <2>1. begin \in 1 .. Len(more) + 1
    BY <1>1
  <2> HIDE DEF more, n
  <2>2. QED
    BY <1>1, <2>1, ScanIs
<1>4. begin \in 1 .. n + 1
  OBVIOUS
<1> HIDE DEF n, more, f, g
<1> DEFINE N == {k \in Nat : begin - 1 + k <= n => g[begin - 1 + k] = f[begin - 1 + k]}
<1>5. 0 \in N
  BY <1>2, <1>3, <1>4
<1>6. ASSUME NEW k \in Nat, k \in N PROVE k + 1 \in N
  <2>1. SUFFICES ASSUME begin - 1 + (k + 1) <= n
                 PROVE  g[begin - 1 + (k + 1)] = f[begin - 1 + (k + 1)]
    OBVIOUS
  <2> DEFINE j == begin - 1 + (k + 1)
  <2>2. j \in begin .. n /\ j \in begin .. n + 1 /\ j \in 1 .. n /\ j - 1 = begin - 1 + k
    <3>1. n \in Nat /\ begin \in Nat /\ begin >= 1 /\ j = begin + k
      BY <1>1, <1>4
    <3>2. j <= n
      BY <2>1
    <3> HIDE DEF j
    <3>3. QED
      BY <3>1, <3>2
  <2>3. begin - 1 + k <= n
    BY <1>1, <1>4, <2>1
  <2>4. g[j - 1] = f[j - 1]
    BY <1>6, <2>2, <2>3
  <2> HIDE DEF j
  <2>5. g[j] = f[j]
    BY <1>1, <1>2, <1>3, <2>2, <2>4
  <2>6. QED
    BY <2>5 DEF j
<1>7. \A k \in Nat : k \in N
  <2> HIDE DEF N
  <2>1. QED
    BY <1>5, <1>6, Induction
<1>8. ASSUME NEW j \in begin - 1 .. n PROVE g[j] = f[j]
  <2>1. j - (begin - 1) \in Nat /\ begin - 1 + (j - (begin - 1)) = j /\ j <= n
    BY <1>1, <1>4
  <2>2. j - (begin - 1) \in N
    BY <1>7, <2>1
  <2>3. QED
    BY <2>1, <2>2
<1>9. g[n + 1] = Sees(f[n], x)
  <2>1. n + 1 \in begin .. n + 1 /\ (n + 1) - 1 = n /\ n \in begin - 1 .. n
    BY <1>1, <1>4
  <2>2. QED
    BY <1>1, <1>3, <1>8, <2>1
<1>10. QED
  BY <1>8, <1>9 DEF n, more, f, g

\* An object that ends, ends there in any longer text.
LEMMA EndOn ==
    ASSUME NEW t \in Seq(ChartSymbols), NEW x \in ChartSymbols, NEW i \in 1 .. Len(t),
           ObjectEnd(t, i) # 0
    PROVE  ObjectEnd(Append(t, x), i) = ObjectEnd(t, i)
<1> DEFINE n == Len(t)
           more == Append(t, x)
           old == {j \in i .. n : Scan(t, i)[j] = Even}
           new == {j \in i .. n + 1 : Scan(more, i)[j] = Even}
<1>1. n \in Nat /\ Len(more) = n + 1
  BY AppendProperties
<1>2. ObjectEnd(t, i) = FirstOf(old) /\ ObjectEnd(more, i) = FirstOf(new)
  BY <1>1 DEF ObjectEnd, Even
<1>3. \A j \in i .. n : Scan(more, i)[j] = Scan(t, i)[j]
  <2>1. i \in 1 .. Len(t) + 1 /\ \A j \in i .. n : j \in i - 1 .. Len(t)
    BY <1>1
  <2>2. QED
    BY <2>1, ScanOn
<1>4. old \subseteq Nat /\ new \subseteq Nat /\ old \subseteq new
      /\ \A j \in new : j \in old \/ j = n + 1
  BY <1>1, <1>3
<1>5. \A j \in old : j <= n
  BY <1>1
<1> HIDE DEF old, new, more
<1>6. FirstOf(old) \in old /\ \A j \in old : FirstOf(old) <= j
  BY <1>2, <1>4, FirstOfIs
<1>7. FirstOf(new) \in new /\ \A j \in new : FirstOf(new) <= j
  BY <1>4, <1>6, FirstOfIs
<1>8. FirstOf(new) <= FirstOf(old) /\ FirstOf(old) <= n
  BY <1>4, <1>5, <1>6, <1>7
<1>9. FirstOf(new) \in old
  <2>1. FirstOf(new) \in Nat /\ FirstOf(old) \in Nat
    BY <1>4, <1>6, <1>7
  <2>2. FirstOf(new) # n + 1
    BY <1>1, <1>8, <2>1
  <2>3. QED
    BY <1>4, <1>7, <2>2
<1>10. QED
  <2>1. FirstOf(new) \in Nat /\ FirstOf(old) \in Nat
    BY <1>4, <1>6, <1>7
  <2>2. QED
    BY <1>2, <1>6, <1>8, <1>9, <2>1 DEF more

-----------------------------------------------------------------------------
(* Two walks, over a text and over that text and a symbol more *)

\* A text stays as it is, or has one symbol more.
On(u, v, x) == v = u \/ v = Append(u, x)

LEMMA OnBehind ==
    ASSUME NEW x \in ChartSymbols, NEW u \in Seq(ChartSymbols), NEW a \in Seq(ChartSymbols), NEW b,
           On(a, b, x)
    PROVE  u \o a \in Seq(ChartSymbols) /\ On(u \o a, u \o b, x)
<1>1. u \o a \in Seq(ChartSymbols)
  BY ConcatProperties
<1>2. CASE b = a
  BY <1>1, <1>2 DEF On
<1>3. CASE b = Append(a, x)
  <2>1. <<x>> \in Seq(ChartSymbols)
    OBVIOUS
  <2>2. b = a \o <<x>> /\ Append(u \o a, x) = (u \o a) \o <<x>>
    BY <1>1, <1>3, AppendIsConcat
  <2>3. u \o (a \o <<x>>) = (u \o a) \o <<x>>
    BY <2>1, ConcatAssociative
  <2>4. QED
    BY <1>1, <2>2, <2>3 DEF On
<1>4. QED
  BY <1>2, <1>3 DEF On

\* If the steps that a walk takes agree with those of the longer text, but for
\* the last one, so does what is written.
LEMMA WalkOn ==
    ASSUME NEW x \in ChartSymbols, NEW end \in Nat, NEW steps, NEW more, NEW R, 1 \in R,
           GoesOn(steps, end), GoesOn(more, end + 1),
           \A i \in 1 .. end : i \in R =>
             /\ steps[i].text \in Seq(ChartSymbols)
             /\ \/ more[i] = steps[i] /\ steps[i].next \in R
                \/ /\ steps[i].next = end + 1 /\ more[i].next = end + 2
                   /\ On(steps[i].text, more[i].text, x),
           On(<<>>, more[end + 1].text, x)
    PROVE  On(Walk(steps, end), Walk(more, end + 1), x)
<1>1. PICK f : /\ Walk(steps, end) = f[1] /\ f[end + 1] = <<>>
               /\ \A i \in 1 .. end : f[i] = steps[i].text \o f[steps[i].next]
  BY WalkIs
<1>2. PICK g : /\ Walk(more, end + 1) = g[1] /\ g[end + 2] = <<>>
               /\ \A i \in 1 .. end + 1 : g[i] = more[i].text \o g[more[i].next]
  <2> DEFINE m == end + 1
  <2>1. m \in Nat /\ m + 1 = end + 2 /\ GoesOn(more, m)
    OBVIOUS
  <2> HIDE DEF m
  <2>2. \E g : /\ Walk(more, m) = g[1] /\ g[m + 1] = <<>>
               /\ \A i \in 1 .. m : g[i] = more[i].text \o g[more[i].next]
    BY <2>1, WalkIs
  <2>3. \E g : /\ Walk(more, m) = g[1] /\ g[end + 2] = <<>>
               /\ \A i \in 1 .. m : g[i] = more[i].text \o g[more[i].next]
    BY <2>1, <2>2
  <2>4. QED
    BY <2>3 DEF m
<1> DEFINE Good(i) == f[i] \in Seq(ChartSymbols) /\ On(f[i], g[i], x)
           N == {k \in Nat : k <= end => \A i \in end + 1 - k .. end + 1 : i \in R => Good(i)}
<1>3. \A u, v : u \in Seq(ChartSymbols) /\ On(u, v, x) => v \in Seq(ChartSymbols) /\ v \o <<>> = v
  <2>1. SUFFICES ASSUME NEW u \in Seq(ChartSymbols), NEW v, On(u, v, x)
                 PROVE  v \in Seq(ChartSymbols) /\ v \o <<>> = v
    OBVIOUS
  <2>2. v \in Seq(ChartSymbols)
    BY <2>1, AppendProperties DEF On
  <2>3. QED
    BY <2>2, ConcatEmptySeq
<1>4. 0 \in N
  <2>1. more[end + 1].next = end + 2
    <3>1. end + 1 \in 1 .. end + 1 /\ \A i \in (end + 1) + 1 .. (end + 1) + 1 : i = end + 2
      OBVIOUS
    <3>2. QED
      BY <3>1 DEF GoesOn
  <2>2. g[end + 1] = more[end + 1].text \o <<>>
    <3>1. end + 1 \in 1 .. end + 1
      OBVIOUS
    <3>2. QED
      BY <1>2, <2>1, <3>1
  <2>3. <<>> \in Seq(ChartSymbols)
    OBVIOUS
  <2>4. Good(end + 1)
    BY <1>1, <1>3, <2>2, <2>3
  <2>5. \A i \in end + 1 - 0 .. end + 1 : i = end + 1
    OBVIOUS
  <2> HIDE DEF Good
  <2>6. QED
    BY <2>4, <2>5
<1>5. ASSUME NEW k \in Nat, k \in N PROVE k + 1 \in N
  <2>1. SUFFICES ASSUME k + 1 <= end
                 PROVE  \A i \in end + 1 - (k + 1) .. end + 1 : i \in R => Good(i)
    OBVIOUS
  <2> DEFINE m == end + 1 - (k + 1)
             next == steps[m].next
  <2>2. m \in 1 .. end /\ m \in 1 .. end + 1 /\ m + 1 = end + 1 - k
    BY <2>1
  <2>3. \A i \in m + 1 .. end + 1 : i \in R => Good(i)
    BY <1>5, <2>1, <2>2
  <2> HIDE DEF m
  <2>4. next \in m + 1 .. end + 1
    BY <2>2 DEF GoesOn
  <2>5. f[m] = steps[m].text \o f[next] /\ g[m] = more[m].text \o g[more[m].next]
    BY <1>1, <1>2, <2>2
  <2>6. ASSUME m \in R PROVE Good(m)
    <3>1. steps[m].text \in Seq(ChartSymbols)
      BY <2>2, <2>6
    <3>2. CASE more[m] = steps[m] /\ next \in R
      <4>1. Good(next)
        BY <2>3, <2>4, <3>2
      <4>2. g[m] = steps[m].text \o g[next]
        BY <2>5, <3>2
      <4> HIDE DEF next
      <4>3. QED
        BY <2>5, <3>1, <4>1, <4>2, OnBehind
    <3>3. CASE next = end + 1 /\ more[m].next = end + 2 /\ On(steps[m].text, more[m].text, x)
      <4>1. f[m] = steps[m].text
        BY <1>1, <2>5, <3>1, <3>3, ConcatEmptySeq
      <4>2. g[m] = more[m].text
        BY <1>2, <1>3, <2>5, <3>1, <3>3
      <4>3. QED
        BY <3>1, <3>3, <4>1, <4>2
    <3>4. QED
      BY <2>2, <2>6, <3>2, <3>3
  <2>7. \A i \in m .. end + 1 : i = m \/ i \in m + 1 .. end + 1
    BY <2>2
  <2> HIDE DEF Good
  <2>8. QED
    BY <2>3, <2>6, <2>7 DEF m
<1>6. \A k \in Nat : k \in N
  <2> HIDE DEF N
  <2>1. QED
    BY <1>4, <1>5, Induction
<1>7. Good(1)
  <2>1. end \in N
    BY <1>6
  <2>2. 1 \in end + 1 - end .. end + 1 /\ end <= end
    OBVIOUS
  <2> HIDE DEF Good
  <2>3. QED
    BY <2>1, <2>2
<1>8. QED
  BY <1>1, <1>2, <1>7

\* What a walk writes is in a set, if its steps keep it there.
LEMMA WalkIn ==
    ASSUME NEW end \in Nat, NEW steps, NEW R, 1 \in R, GoesOn(steps, end), NEW G, <<>> \in G,
           \A i \in 1 .. end : i \in R =>
             steps[i].next \in R /\ \A v \in G : steps[i].text \o v \in G
    PROVE  Walk(steps, end) \in G
<1>1. PICK f : /\ Walk(steps, end) = f[1] /\ f[end + 1] = <<>>
               /\ \A i \in 1 .. end : f[i] = steps[i].text \o f[steps[i].next]
  BY WalkIs
<1> DEFINE N == {k \in Nat : k <= end => \A i \in end + 1 - k .. end + 1 : i \in R => f[i] \in G}
<1>2. 0 \in N
  <2>1. \A i \in end + 1 - 0 .. end + 1 : i = end + 1
    OBVIOUS
  <2>2. QED
    BY <1>1, <2>1
<1>3. ASSUME NEW k \in Nat, k \in N PROVE k + 1 \in N
  <2>1. SUFFICES ASSUME k + 1 <= end
                 PROVE  \A i \in end + 1 - (k + 1) .. end + 1 : i \in R => f[i] \in G
    OBVIOUS
  <2> DEFINE m == end + 1 - (k + 1)
             next == steps[m].next
  <2>2. m \in 1 .. end /\ m + 1 = end + 1 - k
    BY <2>1
  <2>3. \A i \in m + 1 .. end + 1 : i \in R => f[i] \in G
    BY <1>3, <2>1, <2>2
  <2> HIDE DEF m
  <2>4. next \in m + 1 .. end + 1
    BY <2>2 DEF GoesOn
  <2>5. m \in R => f[m] \in G
    BY <1>1, <2>2, <2>3, <2>4
  <2>6. \A i \in m .. end + 1 : i = m \/ i \in m + 1 .. end + 1
    BY <2>2
  <2>7. QED
    BY <2>3, <2>5, <2>6 DEF m
<1>4. \A k \in Nat : k \in N
  <2> HIDE DEF N
  <2>1. QED
    BY <1>2, <1>3, Induction
<1>5. QED
  <2>1. end \in N
    BY <1>4
  <2>2. 1 \in end + 1 - end .. end + 1 /\ end <= end
    OBVIOUS
  <2>3. QED
    BY <1>1, <2>1, <2>2

-----------------------------------------------------------------------------
(* The objects that a text leaves open *)

LEMMA EndIsNone ==
    ASSUME NEW t \in Seq(ChartSymbols), NEW i \in 1 .. Len(t)
    PROVE  ObjectEnd(t, i) = 0 <=> \A j \in i .. Len(t) : Scan(t, i)[j] # Even
<1> DEFINE ends == {j \in i .. Len(t) : Scan(t, i)[j] = Even}
<1>1. ObjectEnd(t, i) = FirstOf(ends)
  BY DEF ObjectEnd, Even
<1>2. ends \subseteq Nat /\ 0 \notin ends
  OBVIOUS
<1>3. ends = {} <=> \A j \in i .. Len(t) : Scan(t, i)[j] # Even
  OBVIOUS
<1> HIDE DEF ends
<1>4. QED
  BY <1>1, <1>2, <1>3, FirstOfIs, ZenonT(30)

\* Where the scans of the objects that nothing closes are at the end of a text.
LeftOpen(t, i) == t[i] = "{" /\ \A j \in i .. Len(t) : Scan(t, i)[j] # Even

Pending(t) == {Scan(t, i)[Len(t)] : i \in {j \in 1 .. Len(t) : LeftOpen(t, j)}}

\* What they are behind one symbol more: a brace begins another one.
Grown(P, x) == {Sees(s, x) : s \in P \cup (IF x = "{" THEN {Even} ELSE {})} \ {Even}

LEMMA CompleteIs ==
    ASSUME NEW t \in Seq(ChartSymbols)
    PROVE  Complete(t) <=> Pending(t) = {}
<1>1. DOMAIN t = 1 .. Len(t)
  OBVIOUS
<1>2. Complete(t) <=> \A i \in 1 .. Len(t) : ~LeftOpen(t, i)
  BY <1>1, EndIsNone DEF Complete, LeftOpen
<1>3. QED
  BY <1>2 DEF Pending

LEMMA PendingIsOpen ==
    ASSUME NEW t \in Seq(ChartSymbols)
    PROVE  Even \notin Pending(t)
<1>1. SUFFICES ASSUME NEW i \in 1 .. Len(t), LeftOpen(t, i) PROVE Scan(t, i)[Len(t)] # Even
  BY DEF Pending
<1>2. Len(t) \in i .. Len(t)
  OBVIOUS
<1>3. QED
  BY <1>1, <1>2 DEF LeftOpen

LEMMA PendingOfEmpty == Pending(<<>>) = {}
<1>1. Len(<<>>) = 0 /\ \A i \in 1 .. 0 : FALSE
  OBVIOUS
<1>2. QED
  BY <1>1 DEF Pending

LEMMA PendingOn ==
    ASSUME NEW t \in Seq(ChartSymbols), NEW x \in ChartSymbols
    PROVE  Pending(Append(t, x)) = Grown(Pending(t), x)
<1> DEFINE n == Len(t)
           more == Append(t, x)
<1>1. /\ n \in Nat /\ more \in Seq(ChartSymbols) /\ Len(more) = n + 1 /\ more[n + 1] = x
      /\ \A j \in 1 .. n : more[j] = t[j]
  BY AppendProperties
<1>2. ASSUME NEW i \in 1 .. n + 1
      PROVE  /\ \A j \in i - 1 .. n : Scan(more, i)[j] = Scan(t, i)[j]
             /\ Scan(more, i)[n + 1] = Sees(Scan(t, i)[n], x)
  BY ScanOn
<1> HIDE DEF n, more
<1>3. ASSUME NEW i \in 1 .. n
      PROVE  LeftOpen(more, i) <=> LeftOpen(t, i) /\ Sees(Scan(t, i)[n], x) # Even
  <2>1. i \in 1 .. n + 1 /\ n + 1 \in i .. n + 1
    BY <1>1
  <2>2. \A j \in i .. n + 1 : j \in i .. n \/ j = n + 1
    BY <1>1
  <2>3. \A j \in i .. n : j \in i .. n + 1 /\ j \in i - 1 .. n
    BY <1>1
  <2>4. more[i] = t[i]
    BY <1>1
  <2>5. (\A j \in i .. n + 1 : Scan(more, i)[j] # Even)
          <=> (\A j \in i .. n : Scan(t, i)[j] # Even) /\ Sees(Scan(t, i)[n], x) # Even
    BY <1>2, <2>1, <2>2, <2>3
  <2>6. QED
    BY <1>1, <2>4, <2>5 DEF LeftOpen, n
<1>4. LeftOpen(more, n + 1) <=> x = "{" /\ Sees(Even, x) # Even
  <2>1. n + 1 \in 1 .. n + 1 /\ \A j \in n + 1 .. n + 1 : j = n + 1
    BY <1>1
  <2>2. Scan(t, n + 1)[n] = Even
    <3>1. n + 1 \in 1 .. Len(t) + 1 /\ (n + 1) - 1 = n
      BY <1>1 DEF n
    <3>2. QED
      BY <3>1, ScanIs
  <2>3. Scan(more, n + 1)[n + 1] = Sees(Even, x)
    BY <1>2, <2>1, <2>2
  <2>4. n + 1 \in n + 1 .. n + 1
    BY <1>1
  <2>5. QED
    BY <1>1, <2>1, <2>3, <2>4 DEF LeftOpen
<1>5. Scan(more, n + 1)[n + 1] = Sees(Even, x)
  <2>1. n + 1 \in 1 .. Len(t) + 1 /\ (n + 1) - 1 = n /\ n + 1 \in 1 .. n + 1
    BY <1>1 DEF n
  <2>2. Scan(t, n + 1)[n] = Even
    BY <2>1, ScanIs
  <2>3. QED
    BY <1>2, <2>1, <2>2
<1>6. Pending(t) = {Scan(t, i)[n] : i \in {j \in 1 .. n : LeftOpen(t, j)}}
  BY DEF Pending, n
<1>7. Pending(more) = {Scan(more, i)[n + 1] : i \in {j \in 1 .. n + 1 : LeftOpen(more, j)}}
  BY <1>1 DEF Pending
<1>8. ASSUME NEW s \in Pending(more) PROVE s \in Grown(Pending(t), x)
  <2>1. PICK i \in 1 .. n + 1 : LeftOpen(more, i) /\ s = Scan(more, i)[n + 1]
    BY <1>7, <1>8
  <2>2. CASE i \in 1 .. n
    <3>1. s = Sees(Scan(t, i)[n], x) /\ s # Even /\ Scan(t, i)[n] \in Pending(t)
      BY <1>2, <1>3, <1>6, <2>1, <2>2
    <3>2. QED
      BY <3>1 DEF Grown
  <2>3. CASE i = n + 1
    BY <1>4, <1>5, <2>1, <2>3 DEF Grown
  <2>4. i \in 1 .. n \/ i = n + 1
    BY <1>1
  <2>5. QED
    BY <2>2, <2>3, <2>4
<1>9. ASSUME NEW s \in Grown(Pending(t), x) PROVE s \in Pending(more)
  <2>1. s # Even /\ (\/ \E p \in Pending(t) : s = Sees(p, x)
                     \/ x = "{" /\ s = Sees(Even, x))
    BY <1>9 DEF Grown
  <2>2. CASE \E p \in Pending(t) : s = Sees(p, x)
    <3>1. PICK i \in 1 .. n : LeftOpen(t, i) /\ s = Sees(Scan(t, i)[n], x)
      BY <1>6, <2>2
    <3>2. i \in 1 .. n + 1
      BY <1>1
    <3>3. s = Scan(more, i)[n + 1]
      BY <1>2, <3>1, <3>2
    <3>4. LeftOpen(more, i)
      BY <1>3, <2>1, <3>1
    <3>5. QED
      BY <1>7, <3>2, <3>3, <3>4
  <2>3. CASE x = "{" /\ s = Sees(Even, x)
    <3>1. n + 1 \in 1 .. n + 1
      BY <1>1
    <3>2. LeftOpen(more, n + 1)
      BY <1>4, <2>1, <2>3
    <3>3. s = Scan(more, n + 1)[n + 1]
      BY <1>5, <2>3
    <3>4. QED
      BY <1>7, <3>1, <3>2, <3>3
  <2>4. QED
    BY <2>1, <2>2, <2>3
<1>10. QED
  BY <1>8, <1>9 DEF more

LEMMA ShorterText ==
    ASSUME NEW n \in Nat, NEW t \in Seq(ChartSymbols), Len(t) = n + 1
    PROVE  \E r \in Seq(ChartSymbols), x \in ChartSymbols : Len(r) = n /\ t = Append(r, x)
<1>1. t # <<>>
  OBVIOUS
<1>2. QED
  BY <1>1, SequenceEmptyOrAppend, AppendProperties

\* Fences and backticks open and close nothing.
LEMMA PendingOfWords == \A t \in Seq(ChartSymbols) : Pending(Words(t)) = Pending(t)
<1> DEFINE N == {n \in Nat : \A t \in Seq(ChartSymbols) :
                   Len(t) = n => Pending(Words(t)) = Pending(t)}
<1>1. 0 \in N
  <2>1. \A t \in Seq(ChartSymbols) : Len(t) = 0 => t = <<>>
    BY EmptySeq
  <2>2. QED
    BY <2>1, WordsOfEmpty
<1>2. ASSUME NEW n \in Nat, n \in N PROVE n + 1 \in N
  <2>1. SUFFICES ASSUME NEW t \in Seq(ChartSymbols), Len(t) = n + 1
                 PROVE  Pending(Words(t)) = Pending(t)
    OBVIOUS
  <2>2. PICK r \in Seq(ChartSymbols), x \in ChartSymbols : Len(r) = n /\ t = Append(r, x)
    BY <2>1, ShorterText
  <2>3. Pending(Words(r)) = Pending(r)
    BY <1>2, <2>2
  <2>4. Pending(t) = Grown(Pending(r), x)
    BY <2>2, PendingOn
  <2>5. CASE x \in Fences \cup {"t"}
    <3>1. Pending(Words(t)) = Pending(r)
      BY <2>2, <2>3, <2>5, WordsOfAppend
    <3>2. x # "q" /\ x # "{" /\ x # "}"
      BY <2>5 DEF Fences
    <3>3. \A s : Sees(s, x) = s
      BY <3>2 DEF Sees
    <3>4. Even \notin Pending(r)
      BY PendingIsOpen
    <3>5. Grown(Pending(r), x) = Pending(r)
      BY <3>2, <3>3, <3>4 DEF Grown
    <3>6. QED
      BY <2>4, <3>1, <3>5
  <2>6. CASE x \notin Fences \cup {"t"}
    <3>1. Words(t) = Append(Words(r), x) /\ Words(r) \in Seq(ChartSymbols)
      BY <2>2, <2>6, WordsOfAppend, WordsText
    <3>2. QED
      BY <2>3, <2>4, <3>1, PendingOn
  <2>7. QED
    BY <2>5, <2>6
<1>3. \A n \in Nat : n \in N
  <2> HIDE DEF N
  <2>1. QED
    BY <1>1, <1>2, Induction
<1>4. QED
  BY <1>3

\* What the end of a text leaves open, the text does.
LEMMA PendingOfBoth ==
    ASSUME NEW a \in Seq(ChartSymbols)
    PROVE  \A b \in Seq(ChartSymbols) : Pending(b) \subseteq Pending(a \o b)
<1> DEFINE N == {n \in Nat : \A b \in Seq(ChartSymbols) :
                   Len(b) = n => Pending(b) \subseteq Pending(a \o b)}
<1>1. 0 \in N
  <2>1. \A b \in Seq(ChartSymbols) : Len(b) = 0 => b = <<>>
    BY EmptySeq
  <2>2. QED
    BY <2>1, PendingOfEmpty
<1>2. ASSUME NEW n \in Nat, n \in N PROVE n + 1 \in N
  <2>1. SUFFICES ASSUME NEW b \in Seq(ChartSymbols), Len(b) = n + 1
                 PROVE  Pending(b) \subseteq Pending(a \o b)
    OBVIOUS
  <2>2. PICK r \in Seq(ChartSymbols), x \in ChartSymbols : Len(r) = n /\ b = Append(r, x)
    BY <2>1, ShorterText
  <2>3. Pending(r) \subseteq Pending(a \o r)
    BY <1>2, <2>2
  <2>4. a \o r \in Seq(ChartSymbols) /\ a \o b = Append(a \o r, x)
    <3>1. <<x>> \in Seq(ChartSymbols) /\ a \o r \in Seq(ChartSymbols)
      BY ConcatProperties
    <3>2. b = r \o <<x>> /\ Append(a \o r, x) = (a \o r) \o <<x>>
      BY <2>2, <3>1, AppendIsConcat
    <3>3. (a \o r) \o <<x>> = a \o (r \o <<x>>)
      BY <3>1, ConcatAssociative, SMTT(30)
    <3>4. QED
      BY <3>1, <3>2, <3>3
  <2>5. Pending(b) = Grown(Pending(r), x) /\ Pending(a \o b) = Grown(Pending(a \o r), x)
    BY <2>2, <2>4, PendingOn
  <2>6. QED
    BY <2>3, <2>5 DEF Grown
<1>3. \A n \in Nat : n \in N
  <2> HIDE DEF N
  <2>1. QED
    BY <1>1, <1>2, Induction
<1>4. QED
  BY <1>3

LEMMA CompleteFrom ==
    ASSUME NEW t \in Seq(ChartSymbols), Complete(t), NEW i \in 1 .. Len(t) + 1
    PROVE  SubSeq(t, i, Len(t)) \in Seq(ChartSymbols) /\ Complete(SubSeq(t, i, Len(t)))
<1> DEFINE front == SubSeq(t, 1, i - 1)
           back == SubSeq(t, i, Len(t))
<1>1. front \in Seq(ChartSymbols) /\ back \in Seq(ChartSymbols) /\ t = front \o back
  <2>1. 1 \in 1 .. Len(t) + 1 /\ i \in 1 .. Len(t) + 1 /\ Len(t) \in i - 1 .. Len(t)
    OBVIOUS
  <2>2. SubSeq(t, 1, Len(t)) = t
    BY SubSeqFull
  <2>3. QED
    BY <2>1, <2>2, Pieces
<1> HIDE DEF front, back
<1>2. Pending(back) \subseteq Pending(t)
  BY <1>1, PendingOfBoth
<1>3. QED
  BY <1>1, <1>2, CompleteIs DEF back

LEMMA CompleteWords ==
    ASSUME NEW s \in Seq(ChartSymbols), NEW t \in Seq(ChartSymbols), Words(s) = Words(t),
           Complete(t)
    PROVE  Complete(s)
  BY CompleteIs, PendingOfWords

-----------------------------------------------------------------------------
(* The detector, on a text that grows and leaves nothing open *)

LEMMA PieceOn ==
    ASSUME NEW s \in Seq(ChartSymbols), NEW x \in ChartSymbols, NEW i \in 1 .. Len(s) + 1
    PROVE  /\ \A j \in i - 1 .. Len(s) : SubSeq(Append(s, x), i, j) = SubSeq(s, i, j)
           /\ SubSeq(s, i, Len(s)) \in Seq(ChartSymbols)
           /\ SubSeq(Append(s, x), i, Len(s) + 1) = Append(SubSeq(s, i, Len(s)), x)
<1> DEFINE n == Len(s)
           more == Append(s, x)
<1>1. /\ n \in Nat /\ more \in Seq(ChartSymbols) /\ Len(more) = n + 1 /\ more[n + 1] = x
      /\ \A j \in 1 .. n : more[j] = s[j] /\ s[j] \in ChartSymbols
  BY AppendProperties
<1>2. i \in 1 .. n + 1
  OBVIOUS
<1>3. ASSUME NEW j \in i - 1 .. n PROVE SubSeq(more, i, j) = SubSeq(s, i, j)
  <2> HIDE DEF n, more
  <2>1. i \in Int /\ j \in Int
    BY <1>1, <1>2
  <2>2. \A k \in i .. j : k \in 1 .. n
    BY <1>1, <1>2
  <2>3. \A k \in i .. j : s[k] \in ChartSymbols /\ more[k] \in ChartSymbols
    BY <1>1, <2>2
  <2>4. /\ SubSeq(s, i, j) \in Seq(ChartSymbols)
        /\ Len(SubSeq(s, i, j)) = IF i <= j THEN j - i + 1 ELSE 0
        /\ \A k \in 1 .. j - i + 1 : SubSeq(s, i, j)[k] = s[i + k - 1]
    BY <2>1, <2>3, SubSeqProperties
  <2>5. /\ SubSeq(more, i, j) \in Seq(ChartSymbols)
        /\ Len(SubSeq(more, i, j)) = IF i <= j THEN j - i + 1 ELSE 0
        /\ \A k \in 1 .. j - i + 1 : SubSeq(more, i, j)[k] = more[i + k - 1]
    BY <2>1, <2>3, SubSeqProperties
  <2>6. \A k \in 1 .. j - i + 1 : i + k - 1 \in 1 .. n
    BY <1>1, <1>2
  <2>7. \A k \in 1 .. Len(SubSeq(more, i, j)) : SubSeq(more, i, j)[k] = SubSeq(s, i, j)[k]
    <3>1. ASSUME NEW k \in 1 .. Len(SubSeq(more, i, j))
          PROVE  SubSeq(more, i, j)[k] = SubSeq(s, i, j)[k]
      <4>1. k \in 1 .. j - i + 1
        BY <1>1, <1>2, <2>5
      <4>2. QED
        BY <1>1, <2>4, <2>5, <2>6, <4>1
    <3>2. QED
      BY <3>1
  <2>8. Len(SubSeq(more, i, j)) = Len(SubSeq(s, i, j))
    BY <2>4, <2>5
  <2>9. QED
    BY <2>4, <2>5, <2>7, <2>8, SeqEqual
<1>4. SubSeq(s, i, n) \in Seq(ChartSymbols)
  OBVIOUS
<1>5. SubSeq(more, i, n + 1) = Append(SubSeq(s, i, n), x)
  <2> HIDE DEF n, more
  <2>1. i \in 1 .. Len(more) /\ n + 1 \in i .. Len(more) /\ (n + 1) - 1 = n /\ n \in i - 1 .. n
    BY <1>1, <1>2
  <2>2. SubSeq(more, i, n + 1) = SubSeq(more, i, (n + 1) - 1) \o <<more[n + 1]>>
    BY <1>1, <2>1, SubSeqRecursiveSecond
  <2>3. SubSeq(more, i, n + 1) = SubSeq(s, i, n) \o <<x>>
    BY <1>1, <1>3, <2>1, <2>2
  <2>4. QED
    BY <1>4, <2>3, AppendIsConcat
<1>6. QED
  BY <1>3, <1>4, <1>5

\* A brace that has just come in is open.
LEMMA BraceIsOpen ==
    ASSUME NEW s \in Seq(ChartSymbols), NEW x \in ChartSymbols
    PROVE  x = "{" => ObjectEnd(Append(s, x), Len(s) + 1) = 0
<1> DEFINE n == Len(s)
           more == Append(s, x)
<1>1. n \in Nat /\ more \in Seq(ChartSymbols) /\ Len(more) = n + 1
  BY AppendProperties
<1>2. n + 1 \in 1 .. Len(s) + 1 /\ (n + 1) - 1 = n /\ n + 1 \in 1 .. Len(more)
      /\ \A j \in n + 1 .. Len(more) : j = n + 1
  BY <1>1
<1>3. Scan(s, n + 1)[n] = Even
  BY <1>2, ScanIs
<1>4. Scan(more, n + 1)[n + 1] = Sees(Even, x)
  <2>1. Scan(more, n + 1)[n + 1] = Sees(Scan(s, n + 1)[n], x)
    BY <1>2, ScanOn
  <2>2. QED
    BY <1>3, <2>1
<1>5. x = "{" => Sees(Even, x) # Even
  <2>1. x = "{" => Sees(Even, x) = [Even EXCEPT !.depth = @ + 1]
    BY DEF Sees, Even
  <2>2. [Even EXCEPT !.depth = @ + 1].depth = 0 + 1
    BY DEF Even
  <2>3. Even.depth = 0 /\ 0 + 1 = 1 /\ 0 # 1
    BY DEF Even
  <2>4. QED
    BY <2>1, <2>2, <2>3
<1>6. x = "{" => \A j \in n + 1 .. Len(more) : Scan(more, n + 1)[j] # Even
  BY <1>2, <1>4, <1>5
<1> HIDE DEF n, more
<1>7. x = "{" => ObjectEnd(more, n + 1) = 0
  BY <1>1, <1>2, <1>6, EndIsNone
<1>8. QED
  BY <1>7 DEF n, more

WrapsAt(s, i) == s[i] = "{" /\ ObjectEnd(s, i) # 0 /\ Renders(SubSeq(s, i, ObjectEnd(s, i)))

LEMMA SegmentStepIs ==
    ASSUME NEW s, NEW i
    PROVE  /\ WrapsAt(s, i) =>
                SegmentStep(s, i) = Writes(<<"D">> \o SubSeq(s, i, ObjectEnd(s, i)) \o <<"F">>,
                                           AfterObject(s, ObjectEnd(s, i)))
           /\ s[i] = "t" /\ i < Len(s) /\ WrapsAt(s, i + 1) =>
                SegmentStep(s, i) = Writes(<<>>, i + 1)
           /\ ~WrapsAt(s, i) /\ ~(s[i] = "t" /\ i < Len(s) /\ WrapsAt(s, i + 1))
                /\ ~(s[i] = "{" /\ ObjectEnd(s, i) = 0 /\ Hints(s, i)) =>
                SegmentStep(s, i) = Writes(<<s[i]>>, i + 1)
  BY DEF SegmentStep, WrapsAt

LEMMA SegmentStepOn ==
    ASSUME NEW s \in Seq(ChartSymbols), Complete(s), NEW x \in ChartSymbols, NEW i \in 1 .. Len(s)
    PROVE  LET step == SegmentStep(s, i)
               more == SegmentStep(Append(s, x), i)
           IN  \/ more = step
               \/ step.next = Len(s) + 1 /\ more.next = Len(s) + 2 /\ more.text = step.text
<1> DEFINE n == Len(s)
           more == Append(s, x)
<1>1. /\ n \in Nat /\ more \in Seq(ChartSymbols) /\ Len(more) = n + 1 /\ more[n + 1] = x
      /\ \A j \in 1 .. n : more[j] = s[j]
  BY AppendProperties
<1>2. DOMAIN s = 1 .. n
  OBVIOUS
<1>3. ASSUME NEW j \in 1 .. n, s[j] = "{"
      PROVE  /\ ObjectEnd(s, j) # 0 /\ ObjectEnd(s, j) \in j .. n
             /\ ObjectEnd(more, j) = ObjectEnd(s, j)
             /\ SubSeq(more, j, ObjectEnd(s, j)) = SubSeq(s, j, ObjectEnd(s, j))
  <2>1. ObjectEnd(s, j) # 0
    BY <1>3, <1>2 DEF Complete
  <2>2. ObjectEnd(s, j) \in j .. n
    BY <2>1, EndIs
  <2>3. ObjectEnd(more, j) = ObjectEnd(s, j)
    BY <2>1, EndOn
  <2>4. j \in 1 .. Len(s) + 1 /\ ObjectEnd(s, j) \in j - 1 .. Len(s)
    BY <1>1, <2>2
  <2>5. QED
    BY <2>1, <2>2, <2>3, <2>4, PieceOn
<1>4. \A j \in 1 .. n : WrapsAt(more, j) <=> WrapsAt(s, j)
  BY <1>1, <1>3 DEF WrapsAt
<1>5. ~WrapsAt(more, n + 1)
  <2>1. x = "{" => ObjectEnd(more, n + 1) = 0
    BY BraceIsOpen
  <2>2. QED
    BY <1>1, <2>1 DEF WrapsAt
<1>6. n \in Nat /\ i \in 1 .. n
  OBVIOUS
<1> HIDE DEF n, more
<1>7. CASE WrapsAt(s, i)
  <2> DEFINE e == ObjectEnd(s, i)
             text == <<"D">> \o SubSeq(s, i, e) \o <<"F">>
  <2>1. s[i] = "{" /\ WrapsAt(more, i) /\ e \in i .. n
        /\ ObjectEnd(more, i) = e /\ SubSeq(more, i, e) = SubSeq(s, i, e)
    BY <1>3, <1>4, <1>6, <1>7 DEF WrapsAt
  <2>2. SegmentStep(s, i) = Writes(text, AfterObject(s, e))
    BY <1>7, SegmentStepIs
  <2>3. SegmentStep(more, i) = Writes(text, AfterObject(more, e))
    BY <2>1, SegmentStepIs, ZenonT(30)
  <2>4. e \in i .. n
    BY <2>1
  <2> HIDE DEF e, text
  <2>5. CASE e < n
    <3>1. e + 1 \in 1 .. n /\ e < n + 1
      BY <1>6, <2>4, <2>5
    <3>2. more[e + 1] = s[e + 1] /\ e < Len(more)
      BY <1>1, <3>1
    <3>3. e < Len(s)
      BY <2>5 DEF n
    <3>4. AfterObject(more, e) = AfterObject(s, e)
      BY <3>2, <3>3 DEF AfterObject
    <3>5. QED
      BY <2>2, <2>3, <3>4 DEF more
  <2>6. CASE e = n
    <3>1. AfterObject(s, e) = n + 1 /\ AfterObject(more, e) \in {n + 1, n + 2}
      BY <1>1, <2>6 DEF AfterObject, n
    <3>2. QED
      BY <2>2, <2>3, <3>1 DEF more, n, Writes
  <2>7. e < n \/ e = n
    BY <1>6, <2>4
  <2>8. QED
    BY <2>5, <2>6, <2>7
<1>8. CASE ~WrapsAt(s, i) /\ s[i] = "t" /\ i < n /\ WrapsAt(s, i + 1)
  <2>1. i + 1 \in 1 .. n /\ i < Len(more)
    BY <1>1, <1>6, <1>8
  <2>2. more[i] = "t" /\ WrapsAt(more, i + 1)
    BY <1>1, <1>4, <1>6, <1>8, <2>1
  <2>3. SegmentStep(more, i) = Writes(<<>>, i + 1)
    BY <2>1, <2>2, SegmentStepIs
  <2>4. SegmentStep(s, i) = Writes(<<>>, i + 1)
    BY <1>8, SegmentStepIs DEF n
  <2>5. QED
    BY <2>3, <2>4 DEF more
<1>9. CASE ~WrapsAt(s, i) /\ ~(s[i] = "t" /\ i < n /\ WrapsAt(s, i + 1))
  <2>1. ~WrapsAt(more, i) /\ more[i] = s[i]
    BY <1>1, <1>4, <1>6, <1>9
  <2>2. ~(s[i] = "{" /\ ObjectEnd(s, i) = 0) /\ ~(more[i] = "{" /\ ObjectEnd(more, i) = 0)
    BY <1>3, <1>6, <2>1
  <2>3. ~(more[i] = "t" /\ i < Len(more) /\ WrapsAt(more, i + 1))
    <3>1. i + 1 \in 1 .. n \/ i = n
      BY <1>1, <1>6
    <3>2. i + 1 \in 1 .. n => i < n
      BY <1>1, <1>6
    <3>3. QED
      BY <1>4, <1>5, <1>9, <2>1, <3>1, <3>2
  <2>4. SegmentStep(s, i) = Writes(<<s[i]>>, i + 1)
    BY <1>9, <2>2, SegmentStepIs DEF n
  <2>5. SegmentStep(more, i) = Writes(<<more[i]>>, i + 1)
    BY <2>1, <2>2, <2>3, SegmentStepIs
  <2>6. QED
    BY <2>1, <2>4, <2>5 DEF more
<1>10. QED
  BY <1>7, <1>8, <1>9

LEMMA SegmentOn ==
    ASSUME NEW s \in Seq(ChartSymbols), Complete(s), NEW x \in ChartSymbols
    PROVE  On(ProcessSegment(s), ProcessSegment(Append(s, x)), x)
<1> DEFINE n == Len(s)
           more == Append(s, x)
           steps == [i \in DOMAIN s |-> SegmentStep(s, i)]
           moreSteps == [i \in DOMAIN more |-> SegmentStep(more, i)]
<1>1. /\ n \in Nat /\ more \in Seq(ChartSymbols) /\ Len(more) = n + 1 /\ more[n + 1] = x
      /\ DOMAIN s = 1 .. n /\ DOMAIN more = 1 .. n + 1
  BY AppendProperties
<1>2. ProcessSegment(s) = Walk(steps, n) /\ ProcessSegment(more) = Walk(moreSteps, n + 1)
  BY <1>1, Segmenting
<1>3. \A i \in 1 .. n : steps[i] = SegmentStep(s, i)
  BY <1>1
<1>4. \A i \in 1 .. n + 1 : moreSteps[i] = SegmentStep(more, i)
  BY <1>1
<1>5. \A i \in 1 .. n : StepKeeps(s, SegmentStep(s, i), i)
  BY SegmentStepKeeps
<1>6. \A i \in 1 .. n + 1 : StepKeeps(more, SegmentStep(more, i), i)
  BY <1>1, SegmentStepKeeps
<1>7. \A i \in 1 .. n : LET step == SegmentStep(s, i)
                           next == SegmentStep(more, i)
                       IN  \/ next = step
                           \/ step.next = n + 1 /\ next.next = n + 2 /\ next.text = step.text
  BY SegmentStepOn
<1>8. SegmentStep(more, n + 1) = Writes(<<x>>, n + 2)
  <2>1. x = "{" => ObjectEnd(more, n + 1) = 0
    BY BraceIsOpen
  <2>2. ~WrapsAt(more, n + 1)
    BY <1>1, <2>1 DEF WrapsAt
  <2>3. ~(n + 1 < Len(more)) /\ (n + 1) + 1 = n + 2
    BY <1>1
  <2>4. ~(more[n + 1] = "{" /\ Hints(more, n + 1))
    <3>1. \A j \in n + 1 .. Len(more) : j = n + 1
      BY <1>1
    <3>2. QED
      BY <1>1, <3>1 DEF Hints
  <2> HIDE DEF n, more
  <2>5. QED
    BY <1>1, <2>2, <2>3, <2>4, SegmentStepIs
<1>9. n = Len(s)
  OBVIOUS
<1> HIDE DEF n, more, steps, moreSteps
<1>10. GoesOn(steps, n) /\ GoesOn(moreSteps, n + 1)
  BY <1>1, <1>3, <1>4, <1>5, <1>6, <1>9 DEF GoesOn, StepKeeps
<1>11. ASSUME NEW i \in 1 .. n
       PROVE  /\ steps[i].text \in Seq(ChartSymbols)
              /\ \/ moreSteps[i] = steps[i] /\ steps[i].next \in 1 .. n + 1
                 \/ /\ steps[i].next = n + 1 /\ moreSteps[i].next = n + 2
                    /\ On(steps[i].text, moreSteps[i].text, x)
  <2>1. i \in 1 .. n + 1
    BY <1>1
  <2>2. steps[i].text \in Seq(ChartSymbols)
    BY <1>3, <1>5 DEF StepKeeps
  <2>3. steps[i].next \in 1 .. n + 1
    BY <1>1, <1>10 DEF GoesOn
  <2>4. \/ moreSteps[i] = steps[i]
        \/ steps[i].next = n + 1 /\ moreSteps[i].next = n + 2 /\ moreSteps[i].text = steps[i].text
    BY <1>3, <1>4, <1>7, <2>1
  <2>5. QED
    BY <2>2, <2>3, <2>4 DEF On
<1>12. On(<<>>, moreSteps[n + 1].text, x)
  <2>1. n + 1 \in 1 .. n + 1 /\ Append(<<>>, x) = <<x>>
    BY <1>1
  <2>2. QED
    BY <1>4, <1>8, <2>1 DEF On, Writes
<1>13. 1 \in 1 .. n + 1
  BY <1>1
<1> DEFINE R == 1 .. n + 1
<1>14. QED
  <2> HIDE DEF R
  <2>1. \A i \in 1 .. n : i \in R =>
          /\ steps[i].text \in Seq(ChartSymbols)
          /\ \/ moreSteps[i] = steps[i] /\ steps[i].next \in R
             \/ /\ steps[i].next = n + 1 /\ moreSteps[i].next = n + 2
                /\ On(steps[i].text, moreSteps[i].text, x)
    BY <1>11 DEF R
  <2>2. 1 \in R
    BY <1>13 DEF R
  <2>3. On(Walk(steps, n), Walk(moreSteps, n + 1), x)
    BY <1>1, <1>10, <1>12, <2>1, <2>2, WalkOn
  <2>4. QED
    BY <1>2, <2>3 DEF more

-----------------------------------------------------------------------------
(* The fences of a text, and the blocks they pair up to *)

LEMMA CountIs ==
    ASSUME NEW t \in Seq(ChartSymbols)
    PROVE  FenceCount(t) \in Nat /\ ((\A i \in 1 .. Len(t) : t[i] \notin Fences) => FenceCount(t) = 0)
<1> DEFINE marks == {i \in DOMAIN t : t[i] \in Fences}
<1>1. marks \subseteq 1 .. Len(t) /\ FenceCount(t) = Cardinality(marks)
      /\ ((\A i \in 1 .. Len(t) : t[i] \notin Fences) => marks = {})
  BY DEF FenceCount
<1>2. IsFiniteSet(1 .. Len(t))
  <2>1. 1 \in Int /\ Len(t) \in Int
    OBVIOUS
  <2>2. QED
    BY <2>1, FS_Interval
<1> HIDE DEF marks
<1>3. IsFiniteSet(marks)
  BY <1>1, <1>2, FS_Subset
<1>4. QED
  BY <1>1, <1>3, FS_CardinalityType, FS_EmptySet

LEMMA CountOfAppend ==
    ASSUME NEW t \in Seq(ChartSymbols), NEW x \in ChartSymbols
    PROVE  FenceCount(Append(t, x)) = IF x \in Fences THEN FenceCount(t) + 1 ELSE FenceCount(t)
<1> DEFINE n == Len(t)
           more == Append(t, x)
           old == {i \in DOMAIN t : t[i] \in Fences}
           new == {i \in DOMAIN more : more[i] \in Fences}
<1>1. /\ n \in Nat /\ DOMAIN more = 1 .. n + 1 /\ DOMAIN t = 1 .. n /\ more[n + 1] = x
      /\ \A j \in 1 .. n : more[j] = t[j]
  BY AppendProperties
<1>2. FenceCount(t) = Cardinality(old) /\ FenceCount(more) = Cardinality(new)
  BY DEF FenceCount
<1>3. IsFiniteSet(old) /\ n + 1 \notin old
  <2>1. IsFiniteSet(1 .. n)
    BY <1>1, FS_Interval
  <2>2. old \subseteq 1 .. n /\ n + 1 \notin 1 .. n
    BY <1>1
  <2> HIDE DEF old, n
  <2>3. QED
    BY <2>1, <2>2, FS_Subset
<1>4. new = IF x \in Fences THEN old \cup {n + 1} ELSE old
  <2>1. \A i : i \in 1 .. n + 1 <=> i \in 1 .. n \/ i = n + 1
    BY <1>1
  <2> HIDE DEF n, more
  <2>2. QED
    BY <1>1, <2>1
<1> HIDE DEF old, new, n, more
<1>5. QED
  BY <1>2, <1>3, <1>4, FS_AddElement DEF more

LEMMA CountOfEmpty == FenceCount(<<>>) = 0
<1>1. <<>> \in Seq(ChartSymbols) /\ \A i \in 1 .. Len(<<>>) : <<>>[i] \notin Fences
  OBVIOUS
<1>2. QED
  BY <1>1, CountIs

LEMMA CountOfOne ==
    ASSUME NEW x \in ChartSymbols
    PROVE  <<x>> \in Seq(ChartSymbols) /\ FenceCount(<<x>>) = IF x \in Fences THEN 1 ELSE 0
<1>1. <<>> \in Seq(ChartSymbols) /\ <<x>> \in Seq(ChartSymbols) /\ Append(<<>>, x) = <<x>>
  OBVIOUS
<1>2. FenceCount(Append(<<>>, x)) = IF x \in Fences THEN 0 + 1 ELSE 0
  BY <1>1, CountOfAppend, CountOfEmpty
<1>3. QED
  BY <1>1, <1>2

LEMMA CountOfBoth ==
    ASSUME NEW a \in Seq(ChartSymbols)
    PROVE  \A b \in Seq(ChartSymbols) : FenceCount(a \o b) = FenceCount(a) + FenceCount(b)
<1> DEFINE N == {n \in Nat : \A b \in Seq(ChartSymbols) :
                   Len(b) = n => FenceCount(a \o b) = FenceCount(a) + FenceCount(b)}
<1>1. 0 \in N
  <2>1. \A b \in Seq(ChartSymbols) : Len(b) = 0 => b = <<>>
    BY EmptySeq
  <2>2. FenceCount(a \o <<>>) = FenceCount(a) + 0
    BY ConcatEmptySeq, CountIs
  <2>3. QED
    BY <2>1, <2>2, CountOfEmpty
<1>2. ASSUME NEW n \in Nat, n \in N PROVE n + 1 \in N
  <2>1. SUFFICES ASSUME NEW b \in Seq(ChartSymbols), Len(b) = n + 1
                 PROVE  FenceCount(a \o b) = FenceCount(a) + FenceCount(b)
    OBVIOUS
  <2>2. PICK r \in Seq(ChartSymbols), x \in ChartSymbols : Len(r) = n /\ b = Append(r, x)
    BY <2>1, ShorterText
  <2>3. FenceCount(a \o r) = FenceCount(a) + FenceCount(r)
    BY <1>2, <2>2
  <2>4. a \o r \in Seq(ChartSymbols) /\ a \o b = Append(a \o r, x)
    <3>1. <<x>> \in Seq(ChartSymbols) /\ a \o r \in Seq(ChartSymbols)
      BY ConcatProperties
    <3>2. b = r \o <<x>> /\ Append(a \o r, x) = (a \o r) \o <<x>>
      BY <2>2, <3>1, AppendIsConcat
    <3>3. (a \o r) \o <<x>> = a \o (r \o <<x>>)
      BY <3>1, ConcatAssociative, SMTT(30)
    <3>4. QED
      BY <3>1, <3>2, <3>3
  <2>5. FenceCount(b) = IF x \in Fences THEN FenceCount(r) + 1 ELSE FenceCount(r)
    BY <2>2, CountOfAppend
  <2>6. FenceCount(a \o b) = IF x \in Fences THEN FenceCount(a \o r) + 1 ELSE FenceCount(a \o r)
    BY <2>4, CountOfAppend
  <2>7. FenceCount(a) \in Nat /\ FenceCount(r) \in Nat
    BY CountIs
  <2>8. QED
    BY <2>3, <2>5, <2>6, <2>7
<1>3. \A n \in Nat : n \in N
  <2> HIDE DEF N
  <2>1. QED
    BY <1>1, <1>2, Induction
<1>4. QED
  BY <1>3

\* The first fence behind a position, and what is before it.
LEMMA FenceAfter ==
    ASSUME NEW t \in Seq(ChartSymbols), NEW i \in Nat
    PROVE  /\ FirstAfter(t, i, Fences) = 0 => \A j \in i + 1 .. Len(t) : t[j] \notin Fences
           /\ FirstAfter(t, i, Fences) # 0 =>
                /\ FirstAfter(t, i, Fences) \in i + 1 .. Len(t)
                /\ t[FirstAfter(t, i, Fences)] \in Fences
                /\ \A j \in i + 1 .. FirstAfter(t, i, Fences) - 1 : t[j] \notin Fences
<1> DEFINE js == {j \in i + 1 .. Len(t) : t[j] \in Fences}
           first == FirstAfter(t, i, Fences)
<1>1. first = FirstOf(js)
  BY DEF FirstAfter
<1>2. js \subseteq Nat /\ Len(t) \in Nat
  OBVIOUS
<1>3. \A j : j \in js <=> j \in i + 1 .. Len(t) /\ t[j] \in Fences
  OBVIOUS
<1>4. 0 \notin js
  BY <1>2
<1> HIDE DEF js, first
<1>5. first = 0 => js = {}
  BY <1>1, <1>2, <1>4, FirstOfIs
<1>6. first # 0 => first \in js /\ \A j \in js : first <= j
  BY <1>1, <1>2, FirstOfIs
<1>7. ASSUME first # 0 PROVE \A j \in i + 1 .. first - 1 : t[j] \notin Fences
  <2>1. first \in i + 1 .. Len(t)
    BY <1>3, <1>6, <1>7
  <2>2. \A j \in i + 1 .. first - 1 : j \in i + 1 .. Len(t) /\ ~(first <= j)
    BY <1>2, <2>1
  <2>3. QED
    BY <1>3, <1>6, <1>7, <2>2
<1>8. QED
  BY <1>3, <1>5, <1>6, <1>7 DEF first

\* The first fence stays the first one; one that comes in is the first if there
\* was none.
LEMMA FenceAfterOn ==
    ASSUME NEW t \in Seq(ChartSymbols), NEW x \in ChartSymbols, NEW i \in 0 .. Len(t)
    PROVE  /\ FirstAfter(t, i, Fences) # 0 =>
                FirstAfter(Append(t, x), i, Fences) = FirstAfter(t, i, Fences)
           /\ FirstAfter(t, i, Fences) = 0 =>
                FirstAfter(Append(t, x), i, Fences) = IF x \in Fences THEN Len(t) + 1 ELSE 0
<1> DEFINE n == Len(t)
           more == Append(t, x)
           f == FirstAfter(t, i, Fences)
           g == FirstAfter(more, i, Fences)
<1>1. /\ n \in Nat /\ more \in Seq(ChartSymbols) /\ Len(more) = n + 1 /\ more[n + 1] = x
      /\ \A j \in 1 .. n : more[j] = t[j]
  BY AppendProperties
<1>2. n \in Nat /\ i \in 0 .. n /\ i \in Nat
  OBVIOUS
<1>3. /\ f = 0 => \A j \in i + 1 .. n : t[j] \notin Fences
      /\ f # 0 => f \in i + 1 .. n /\ t[f] \in Fences /\ \A j \in i + 1 .. f - 1 : t[j] \notin Fences
  BY <1>2, FenceAfter
<1>4. /\ g = 0 => \A j \in i + 1 .. n + 1 : more[j] \notin Fences
      /\ g # 0 => /\ g \in i + 1 .. n + 1 /\ more[g] \in Fences
                  /\ \A j \in i + 1 .. g - 1 : more[j] \notin Fences
  <2> HIDE DEF n, more
  <2>1. QED
    BY <1>1, <1>2, FenceAfter
<1> HIDE DEF n, more, f, g
<1>5. ASSUME f # 0 PROVE g = f
  <2>1. f \in i + 1 .. n
    BY <1>3, <1>5
  <2>2. f \in 1 .. n /\ f \in i + 1 .. n + 1 /\ f \in Nat
    BY <1>2, <2>1
  <2>3. more[f] \in Fences
    BY <1>1, <1>3, <1>5, <2>2
  <2>4. g # 0
    BY <1>4, <2>2, <2>3
  <2>5. g \in i + 1 .. n + 1 /\ more[g] \in Fences
    BY <1>4, <2>4
  <2>6. ~(f < g)
    <3>1. f < g => f \in i + 1 .. g - 1
      BY <1>2, <2>1, <2>5
    <3>2. QED
      BY <1>4, <2>3, <2>4, <3>1
  <2>7. ~(g < f)
    <3>1. g < f => g \in i + 1 .. f - 1 /\ g \in 1 .. n
      BY <1>2, <2>1, <2>5
    <3>2. g < f => t[g] \in Fences
      BY <1>1, <2>5, <3>1
    <3>3. QED
      BY <1>3, <1>5, <3>1, <3>2
  <2>8. g \in Nat
    BY <1>2, <2>5
  <2>9. QED
    BY <2>2, <2>6, <2>7, <2>8
<1>6. ASSUME f = 0 PROVE g = IF x \in Fences THEN n + 1 ELSE 0
  <2>1. ASSUME NEW j \in i + 1 .. n + 1, more[j] \in Fences PROVE j = n + 1 /\ x \in Fences
    <3>1. (j \in 1 .. n /\ j \in i + 1 .. n) \/ j = n + 1
      BY <1>2
    <3>2. QED
      BY <1>1, <1>3, <1>6, <2>1, <3>1
  <2>2. g # 0 => g = n + 1 /\ x \in Fences
    BY <1>4, <2>1
  <2>3. n + 1 \in i + 1 .. n + 1
    BY <1>2
  <2>4. x \in Fences => g # 0
    BY <1>1, <1>4, <2>3
  <2>5. QED
    BY <2>2, <2>4
<1>7. QED
  BY <1>5, <1>6 DEF n, more, f, g

\* The fences of a piece are those of its two parts.
LEMMA CountOfParts ==
    ASSUME NEW t \in Seq(ChartSymbols), NEW i \in 1 .. Len(t) + 1, NEW j \in i .. Len(t) + 1,
           NEW l \in j - 1 .. Len(t)
    PROVE  FenceCount(SubSeq(t, i, l)) = FenceCount(SubSeq(t, i, j - 1)) + FenceCount(SubSeq(t, j, l))
  BY Pieces, CountOfBoth

LEMMA NoneInPiece ==
    ASSUME NEW t \in Seq(ChartSymbols), NEW i \in 1 .. Len(t) + 1, NEW j \in i - 1 .. Len(t),
           \A k \in i .. j : t[k] \notin Fences
    PROVE  /\ SubSeq(t, i, j) \in Seq(ChartSymbols)
           /\ \A k \in 1 .. Len(SubSeq(t, i, j)) : SubSeq(t, i, j)[k] \notin Fences
           /\ FenceCount(SubSeq(t, i, j)) = 0
<1> DEFINE piece == SubSeq(t, i, j)
<1>1. i \in Int /\ j \in Int /\ i >= 1 /\ j >= i - 1
  OBVIOUS
<1>2. \A k \in i .. j : t[k] \in ChartSymbols
  <2>1. \A k \in i .. j : k \in 1 .. Len(t)
    OBVIOUS
  <2>2. QED
    BY <2>1, ElementOfSeq
<1>3. /\ piece \in Seq(ChartSymbols)
      /\ Len(piece) = IF i <= j THEN j - i + 1 ELSE 0
      /\ \A k \in 1 .. j - i + 1 : piece[k] = t[i + k - 1]
  BY <1>1, <1>2, SubSeqProperties
<1> HIDE DEF piece
<1>4. ASSUME NEW k \in 1 .. Len(piece) PROVE piece[k] \notin Fences
  <2>1. k \in 1 .. j - i + 1 /\ i + k - 1 \in i .. j
    BY <1>1, <1>3
  <2>2. QED
    BY <1>3, <2>1
<1>5. FenceCount(piece) = 0
  BY <1>3, <1>4, CountIs
<1>6. QED
  BY <1>3, <1>4, <1>5 DEF piece

LEMMA CountOfBlock ==
    ASSUME NEW b \in Seq(ChartSymbols), NEW x \in Fences, NEW y \in Fences
    PROVE  /\ <<x>> \o b \o <<y>> \in Seq(ChartSymbols)
           /\ FenceCount(<<x>> \o b \o <<y>>) = FenceCount(b) + 2
<1>1. x \in ChartSymbols /\ y \in ChartSymbols
  BY MarksAreSymbols
<1>2. <<x>> \in Seq(ChartSymbols) /\ FenceCount(<<x>>) = 1
  BY <1>1, CountOfOne
<1>3. <<y>> \in Seq(ChartSymbols) /\ FenceCount(<<y>>) = 1
  BY <1>1, CountOfOne
<1>4. <<x>> \o b \in Seq(ChartSymbols) /\ FenceCount(<<x>> \o b) = 1 + FenceCount(b)
  BY <1>2, CountOfBoth, ConcatProperties
<1>5. (<<x>> \o b) \o <<y>> \in Seq(ChartSymbols)
      /\ FenceCount((<<x>> \o b) \o <<y>>) = (1 + FenceCount(b)) + 1
  BY <1>3, <1>4, CountOfBoth, ConcatProperties
<1>6. FenceCount(b) \in Nat
  BY CountIs
<1>7. QED
  BY <1>5, <1>6

\* retagJsonFence leaves a block a block.
LEMMA RetagCount ==
    ASSUME NEW s \in Seq(ChartSymbols), Len(s) >= 2, s[1] \in Fences, s[Len(s)] \in Fences
    PROVE  FenceCount(RetagJsonFence(s)) = FenceCount(s)
<1> DEFINE body == SubSeq(s, 2, Len(s) - 1)
<1>1. body \in Seq(ChartSymbols) /\ s = <<s[1]>> \o body \o <<s[Len(s)]>>
  BY BlockIs
<1>2. RetagJsonFence(s) = <<"D">> \o body \o <<"F">> \/ RetagJsonFence(s) = s
  BY RetagIs
<1> HIDE DEF body
<1>3. FenceCount(<<s[1]>> \o body \o <<s[Len(s)]>>) = FenceCount(body) + 2
  BY <1>1, CountOfBlock
<1>4. FenceCount(<<"D">> \o body \o <<"F">>) = FenceCount(body) + 2
  BY <1>1, MarksAreSymbols, CountOfBlock
<1>5. QED
  BY <1>1, <1>2, <1>3, <1>4

\* Texts whose fences pair up.
Paired == {u \in Seq(ChartSymbols) : FenceCount(u) % 2 = 0}

LEMMA PairedBoth ==
    ASSUME NEW u \in Paired, NEW v \in Paired
    PROVE  u \o v \in Paired
<1>1. /\ u \in Seq(ChartSymbols) /\ FenceCount(u) \in Nat /\ FenceCount(u) % 2 = 0
      /\ v \in Seq(ChartSymbols) /\ FenceCount(v) \in Nat /\ FenceCount(v) % 2 = 0
  BY CountIs DEF Paired
<1>2. u \o v \in Seq(ChartSymbols) /\ FenceCount(u \o v) = FenceCount(u) + FenceCount(v)
  BY <1>1, CountOfBoth, ConcatProperties
<1>3. \A m, n \in Nat : m % 2 = 0 /\ n % 2 = 0 => (m + n) % 2 = 0
  OBVIOUS
<1>4. QED
  BY <1>1, <1>2, <1>3 DEF Paired

\* Prose gets its fences in pairs.
LEMMA SegmentPairs ==
    ASSUME NEW s \in Seq(ChartSymbols), \A k \in 1 .. Len(s) : s[k] \notin Fences
    PROVE  ProcessSegment(s) \in Paired
<1> DEFINE n == Len(s)
           steps == [i \in DOMAIN s |-> SegmentStep(s, i)]
<1>1. n \in Nat /\ DOMAIN s = 1 .. n
  OBVIOUS
<1>2. ProcessSegment(s) = Walk(steps, n) /\ \A i \in 1 .. n : steps[i] = SegmentStep(s, i)
  BY <1>1, Segmenting
<1>3. \A i \in 1 .. n : StepKeeps(s, SegmentStep(s, i), i)
  BY SegmentStepKeeps
<1>4. ASSUME NEW i \in 1 .. n PROVE SegmentStep(s, i).text \in Paired
  <2>1. ASSUME NEW j \in i - 1 .. n PROVE SubSeq(s, i, j) \in Seq(ChartSymbols) /\ FenceCount(SubSeq(s, i, j)) = 0
    <3>1. i \in 1 .. Len(s) + 1 /\ j \in i - 1 .. Len(s) /\ \A k \in i .. j : k \in 1 .. Len(s)
      BY <1>1
    <3>2. QED
      BY <3>1, NoneInPiece
  <2>2. CASE WrapsAt(s, i)
    <3>1. ObjectEnd(s, i) \in i - 1 .. n
      <4>1. ObjectEnd(s, i) \in i .. n
        BY <2>2, EndIs DEF WrapsAt
      <4>2. QED
        BY <1>1, <4>1
    <3> DEFINE o == SubSeq(s, i, ObjectEnd(s, i))
    <3>2. o \in Seq(ChartSymbols) /\ FenceCount(o) = 0
      BY <2>1, <3>1
    <3>3. SegmentStep(s, i).text = <<"D">> \o o \o <<"F">>
      <4>1. SegmentStep(s, i) = Writes(<<"D">> \o o \o <<"F">>, AfterObject(s, ObjectEnd(s, i)))
        BY <2>2, SegmentStepIs
      <4> HIDE DEF o
      <4>2. QED
        BY <4>1 DEF Writes
    <3> HIDE DEF o
    <3>4. <<"D">> \o o \o <<"F">> \in Seq(ChartSymbols) /\ FenceCount(<<"D">> \o o \o <<"F">>) = 0 + 2
      BY <3>2, MarksAreSymbols, CountOfBlock
    <3>5. (0 + 2) % 2 = 0
      OBVIOUS
    <3>6. QED
      BY <3>3, <3>4, <3>5 DEF Paired
  <2>3. CASE ~WrapsAt(s, i)
    <3>1. \/ SegmentStep(s, i).text = <<>>
          \/ SegmentStep(s, i).text = SubSeq(s, i, n)
          \/ SegmentStep(s, i).text = <<s[i]>>
      BY <2>3 DEF SegmentStep, WrapsAt, Writes
    <3>2. n \in i - 1 .. n /\ i \in i - 1 .. n
      BY <1>1
    <3>3. SubSeq(s, i, n) \in Seq(ChartSymbols) /\ FenceCount(SubSeq(s, i, n)) = 0
      BY <2>1, <3>2
    <3>4. <<s[i]>> \in Seq(ChartSymbols) /\ FenceCount(<<s[i]>>) = 0
      BY <2>1, <3>2, OnePiece
    <3>5. <<>> \in Seq(ChartSymbols) /\ FenceCount(<<>>) = 0
      BY CountOfEmpty
    <3>6. 0 % 2 = 0
      OBVIOUS
    <3>7. QED
      BY <3>1, <3>3, <3>4, <3>5, <3>6 DEF Paired
  <2>4. QED
    BY <2>2, <2>3
<1>5. <<>> \in Paired
  <2>1. <<>> \in Seq(ChartSymbols) /\ 0 % 2 = 0
    OBVIOUS
  <2>2. QED
    BY <2>1, CountOfEmpty DEF Paired
<1> DEFINE R == 1 .. n + 1
<1>6. 1 \in R
  BY <1>1
<1> HIDE DEF steps
<1>7. GoesOn(steps, n)
  BY <1>1, <1>2, <1>3 DEF GoesOn, StepKeeps
<1>8. ASSUME NEW i \in 1 .. n
      PROVE  steps[i].next \in R /\ \A v \in Paired : steps[i].text \o v \in Paired
  <2>1. steps[i].next \in R
    <3>1. steps[i].next \in i + 1 .. n + 1
      BY <1>7 DEF GoesOn
    <3>2. QED
      BY <1>1, <3>1
  <2>2. steps[i].text \in Paired
    BY <1>2, <1>4
  <2>3. QED
    BY <2>1, <2>2, PairedBoth
<1> HIDE DEF R, n
<1>9. Walk(steps, n) \in Paired
  BY <1>1, <1>5, <1>6, <1>7, <1>8, WalkIn
<1>10. QED
  BY <1>2, <1>9

\* Where the fences of the rest of a text pair up, the walk stands at prose to
\* the end, or at prose and a block with such a rest behind it.
LEMMA PairedAhead ==
    ASSUME NEW t \in Seq(ChartSymbols), NEW i \in 1 .. Len(t),
           FenceCount(SubSeq(t, i, Len(t))) % 2 = 0
    PROVE  LET open == FirstAfter(t, i - 1, Fences)
               close == FirstAfter(t, open, Fences)
           IN  \/ open = 0 /\ \A j \in i .. Len(t) : t[j] \notin Fences
               \/ /\ open \in i .. Len(t) /\ \A j \in i .. open - 1 : t[j] \notin Fences
                  /\ close \in open + 1 .. Len(t) /\ t[open] \in Fences /\ t[close] \in Fences
                  /\ FenceCount(SubSeq(t, open, close)) = 2
                  /\ FenceCount(SubSeq(t, close + 1, Len(t))) % 2 = 0
<1> DEFINE n == Len(t)
           open == FirstAfter(t, i - 1, Fences)
           close == FirstAfter(t, open, Fences)
<1>1. n \in Nat /\ i \in 1 .. n /\ i - 1 \in Nat /\ (i - 1) + 1 = i
  OBVIOUS
<1>2. /\ open = 0 => \A j \in i .. n : t[j] \notin Fences
      /\ open # 0 => /\ open \in i .. n /\ t[open] \in Fences
                     /\ \A j \in i .. open - 1 : t[j] \notin Fences
  BY <1>1, FenceAfter
<1>3. ASSUME open # 0
      PROVE  /\ close = 0 => \A j \in open + 1 .. n : t[j] \notin Fences
             /\ close # 0 => /\ close \in open + 1 .. n /\ t[close] \in Fences
                             /\ \A j \in open + 1 .. close - 1 : t[j] \notin Fences
  <2>1. open \in Nat
    BY <1>1, <1>2, <1>3
  <2> HIDE DEF open
  <2>2. QED
    BY <2>1, FenceAfter
<1>4. FenceCount(SubSeq(t, i, n)) % 2 = 0
  OBVIOUS
<1>5. \A j \in 1 .. n : t[j] \in Fences => FenceCount(SubSeq(t, j, j)) = 1
  <2>1. SUFFICES ASSUME NEW j \in 1 .. n, t[j] \in Fences PROVE FenceCount(SubSeq(t, j, j)) = 1
    OBVIOUS
  <2>2. SubSeq(t, j, j) = <<t[j]>> /\ t[j] \in ChartSymbols
    BY OnePiece
  <2>3. QED
    BY <2>1, <2>2, CountOfOne
<1>6. n = Len(t)
  OBVIOUS
<1> HIDE DEF n, open, close
<1>7. CASE open # 0
  <2>1. open \in i .. n /\ open \in Nat /\ open \in 1 .. n
    BY <1>1, <1>2, <1>7
  <2>2. /\ FenceCount(SubSeq(t, i, n))
             = FenceCount(SubSeq(t, i, open - 1)) + FenceCount(SubSeq(t, open, n))
        /\ FenceCount(SubSeq(t, i, open - 1)) = 0
    <3>1. /\ i \in 1 .. n + 1 /\ open \in i .. n + 1 /\ n \in open - 1 .. n
          /\ open - 1 \in i - 1 .. n
      BY <1>1, <2>1
    <3>2. \A j \in i .. open - 1 : t[j] \notin Fences
      BY <1>2, <1>7
    <3>3. QED
      BY <1>6, <3>1, <3>2, CountOfParts, NoneInPiece
  <2>3. ASSUME close = 0 PROVE FALSE
    <3>1. /\ open \in 1 .. n + 1 /\ open + 1 \in open .. n + 1 /\ n \in (open + 1) - 1 .. n
          /\ (open + 1) - 1 = open /\ open + 1 \in 1 .. n + 1
      BY <1>1, <2>1
    <3>2. FenceCount(SubSeq(t, open, n))
            = FenceCount(SubSeq(t, open, open)) + FenceCount(SubSeq(t, open + 1, n))
      <4>1. FenceCount(SubSeq(t, open, n))
              = FenceCount(SubSeq(t, open, (open + 1) - 1)) + FenceCount(SubSeq(t, open + 1, n))
        BY <1>6, <3>1, CountOfParts
      <4>2. QED
        BY <3>1, <4>1
    <3>3. FenceCount(SubSeq(t, open + 1, n)) = 0
      <4>1. \A j \in open + 1 .. n : t[j] \notin Fences
        BY <1>3, <1>7, <2>3
      <4>2. QED
        BY <1>6, <3>1, <4>1, NoneInPiece
    <3>4. FenceCount(SubSeq(t, open, open)) = 1
      BY <1>2, <1>5, <1>7, <2>1
    <3>5. FenceCount(SubSeq(t, i, n)) = 0 + (1 + 0)
      BY <2>2, <3>2, <3>3, <3>4
    <3>6. QED
      BY <1>4, <3>5
  <2>4. close # 0
    BY <2>3
  <2>5. close \in open + 1 .. n /\ close \in 1 .. n /\ close \in Nat
    BY <1>1, <1>3, <1>7, <2>1, <2>4
  <2>6. t[open] \in Fences /\ t[close] \in Fences
    BY <1>2, <1>3, <1>7, <2>4
  <2>7. FenceCount(SubSeq(t, open, close)) = 2
    <3>1. /\ open \in 1 .. n + 1 /\ open + 1 \in open .. n + 1 /\ close \in (open + 1) - 1 .. n
          /\ (open + 1) - 1 = open /\ open + 1 \in 1 .. n + 1 /\ close \in open + 1 .. n + 1
          /\ close \in close - 1 .. n /\ close - 1 \in (open + 1) - 1 .. n
      BY <1>1, <2>1, <2>5
    <3>2. FenceCount(SubSeq(t, open, close))
            = FenceCount(SubSeq(t, open, open)) + FenceCount(SubSeq(t, open + 1, close))
      <4>1. FenceCount(SubSeq(t, open, close))
              = FenceCount(SubSeq(t, open, (open + 1) - 1)) + FenceCount(SubSeq(t, open + 1, close))
        BY <1>6, <3>1, CountOfParts
      <4>2. QED
        BY <3>1, <4>1
    <3>3. FenceCount(SubSeq(t, open + 1, close))
            = FenceCount(SubSeq(t, open + 1, close - 1)) + FenceCount(SubSeq(t, close, close))
      BY <1>6, <3>1, CountOfParts
    <3>4. FenceCount(SubSeq(t, open + 1, close - 1)) = 0
      <4>1. \A j \in open + 1 .. close - 1 : t[j] \notin Fences
        BY <1>3, <1>7, <2>4
      <4>2. QED
        BY <1>6, <3>1, <4>1, NoneInPiece
    <3>5. FenceCount(SubSeq(t, open, open)) = 1 /\ FenceCount(SubSeq(t, close, close)) = 1
      BY <1>5, <2>1, <2>5, <2>6
    <3>6. QED
      BY <3>2, <3>3, <3>4, <3>5
  <2>8. FenceCount(SubSeq(t, close + 1, n)) % 2 = 0
    <3>1. /\ open \in 1 .. n + 1 /\ close + 1 \in open .. n + 1 /\ n \in (close + 1) - 1 .. n
          /\ (close + 1) - 1 = close /\ close + 1 \in 1 .. n + 1
      BY <1>1, <2>1, <2>5
    <3>2. FenceCount(SubSeq(t, open, n))
            = FenceCount(SubSeq(t, open, close)) + FenceCount(SubSeq(t, close + 1, n))
      <4>1. FenceCount(SubSeq(t, open, n))
              = FenceCount(SubSeq(t, open, (close + 1) - 1)) + FenceCount(SubSeq(t, close + 1, n))
        BY <1>6, <3>1, CountOfParts
      <4>2. QED
        BY <3>1, <4>1
    <3>3. FenceCount(SubSeq(t, i, n)) = 0 + (2 + FenceCount(SubSeq(t, close + 1, n)))
      BY <2>2, <2>7, <3>2
    <3>4. FenceCount(SubSeq(t, close + 1, n)) \in Nat
      <4>1. SubSeq(t, close + 1, n) \in Seq(ChartSymbols)
        BY <1>6, <2>5
      <4>2. QED
        BY <4>1, CountIs
    <3>5. \A m \in Nat : (0 + (2 + m)) % 2 = 0 => m % 2 = 0
      OBVIOUS
    <3>6. QED
      BY <1>4, <3>3, <3>4, <3>5
  <2>9. \A j \in i .. open - 1 : t[j] \notin Fences
    BY <1>2, <1>7
  <2>10. QED
    BY <2>1, <2>5, <2>6, <2>7, <2>8, <2>9 DEF n, open, close
<1>8. CASE open = 0
  BY <1>2, <1>8 DEF n, open
<1>9. QED
  BY <1>7, <1>8

LEMMA WrapStepIs ==
    ASSUME NEW t, NEW i
    PROVE  LET open == FirstAfter(t, i - 1, Fences)
               close == FirstAfter(t, open, Fences)
           IN  /\ open = 0 \/ close = 0 =>
                    WrapStep(t, i) = Writes(ProcessSegment(SubSeq(t, i, Len(t))), Len(t) + 1)
               /\ open # 0 /\ close # 0 =>
                    WrapStep(t, i) = Writes(ProcessSegment(SubSeq(t, i, open - 1))
                                              \o RetagJsonFence(SubSeq(t, open, close)), close + 1)
  BY DEF WrapStep

LEMMA BlockEnds ==
    ASSUME NEW t \in Seq(ChartSymbols), NEW o \in 1 .. Len(t), NEW c \in o + 1 .. Len(t),
           t[o] \in Fences, t[c] \in Fences
    PROVE  LET fence == SubSeq(t, o, c)
           IN  /\ fence \in Seq(ChartSymbols) /\ Len(fence) >= 2
               /\ fence[1] \in Fences /\ fence[Len(fence)] \in Fences
<1> DEFINE fence == SubSeq(t, o, c)
<1>1. Len(t) \in Nat
  OBVIOUS
<1>2. fence \in Seq(ChartSymbols) /\ Len(fence) = c - o + 1
  BY <1>1
<1>3. fence[1] = t[o] /\ fence[c - o + 1] = t[c]
  BY <1>1
<1> HIDE DEF fence
<1>4. c - o + 1 >= 2
  BY <1>1
<1>5. QED
  BY <1>2, <1>3, <1>4 DEF fence

\* wrapInlineChartJson writes fences in pairs, if it reads them in pairs.
LEMMA WrappedPairs ==
    ASSUME NEW t \in Paired
    PROVE  Wrapped(t) \in Paired
<1> DEFINE n == Len(t)
           steps == [i \in DOMAIN t |-> WrapStep(t, i)]
           R == {i \in 1 .. n + 1 : FenceCount(SubSeq(t, i, n)) % 2 = 0}
<1>1. /\ t \in Seq(ChartSymbols) /\ FenceCount(t) % 2 = 0
      /\ n \in Nat /\ DOMAIN t = 1 .. n
  BY DEF Paired
<1>2. Wrapped(t) = Walk(steps, n) /\ \A i \in 1 .. n : steps[i] = WrapStep(t, i)
  BY <1>1 DEF Wrapped
<1>3. GoesOn(steps, n)
  <2>1. \A i \in 1 .. n : StepKeeps(t, WrapStep(t, i), i)
    BY <1>1, WrapStepKeeps
  <2> HIDE DEF steps
  <2>2. QED
    BY <1>2, <2>1 DEF GoesOn, StepKeeps
<1>4. 1 \in R /\ n + 1 \in R /\ <<>> \in Paired
  <2>1. SubSeq(t, 1, n) = t /\ SubSeq(t, n + 1, n) = <<>>
    BY <1>1, SubSeqFull, SubSeqEmpty
  <2>2. 1 \in 1 .. n + 1 /\ n + 1 \in 1 .. n + 1 /\ 0 % 2 = 0
    BY <1>1
  <2>3. <<>> \in Seq(ChartSymbols)
    OBVIOUS
  <2>4. QED
    BY <1>1, <2>1, <2>2, <2>3, CountOfEmpty DEF Paired
<1>5. n = Len(t)
  OBVIOUS
<1>6. \A i \in 1 .. n : i \in R <=> FenceCount(SubSeq(t, i, n)) % 2 = 0
  BY <1>1
<1>7. \A i \in 1 .. n : FenceCount(SubSeq(t, i + 1, n)) % 2 = 0 => i + 1 \in R
  BY <1>1
<1> HIDE DEF n, steps, R
<1>8. ASSUME NEW i \in 1 .. n, i \in R
      PROVE  steps[i].next \in R /\ \A v \in Paired : steps[i].text \o v \in Paired
  <2> DEFINE open == FirstAfter(t, i - 1, Fences)
             close == FirstAfter(t, open, Fences)
             prose == SubSeq(t, i, open - 1)
             fence == SubSeq(t, open, close)
  <2>1. \/ open = 0 /\ \A j \in i .. n : t[j] \notin Fences
        \/ /\ open \in i .. n /\ \A j \in i .. open - 1 : t[j] \notin Fences
           /\ close \in open + 1 .. n /\ t[open] \in Fences /\ t[close] \in Fences
           /\ FenceCount(fence) = 2
           /\ FenceCount(SubSeq(t, close + 1, n)) % 2 = 0
    BY <1>1, <1>5, <1>6, <1>8, PairedAhead
  <2>2. /\ open = 0 \/ close = 0 =>
             WrapStep(t, i) = Writes(ProcessSegment(SubSeq(t, i, n)), n + 1)
        /\ open # 0 /\ close # 0 =>
             WrapStep(t, i) = Writes(ProcessSegment(prose) \o RetagJsonFence(fence), close + 1)
    BY <1>5, WrapStepIs
  <2> HIDE DEF open, close
  <2>3. CASE open = 0 /\ \A j \in i .. n : t[j] \notin Fences
    <3>1. i \in 1 .. n + 1 /\ n \in i - 1 .. n
      BY <1>1
    <3>2. SubSeq(t, i, n) \in Seq(ChartSymbols)
          /\ \A k \in 1 .. Len(SubSeq(t, i, n)) : SubSeq(t, i, n)[k] \notin Fences
      BY <1>1, <1>5, <2>3, <3>1, NoneInPiece
    <3>3. ProcessSegment(SubSeq(t, i, n)) \in Paired
      BY <3>2, SegmentPairs
    <3>4. steps[i].next = n + 1 /\ steps[i].text = ProcessSegment(SubSeq(t, i, n))
      BY <1>2, <2>2, <2>3 DEF Writes
    <3>5. QED
      BY <1>4, <3>3, <3>4, PairedBoth
  <2>4. CASE /\ open \in i .. n /\ \A j \in i .. open - 1 : t[j] \notin Fences
             /\ close \in open + 1 .. n /\ t[open] \in Fences /\ t[close] \in Fences
             /\ FenceCount(fence) = 2
             /\ FenceCount(SubSeq(t, close + 1, n)) % 2 = 0
    <3>1. /\ open \in 1 .. n /\ close \in 1 .. n /\ open # 0 /\ close # 0
          /\ i \in 1 .. n + 1 /\ open - 1 \in i - 1 .. n
      BY <1>1, <2>4
    <3>2. prose \in Seq(ChartSymbols) /\ \A k \in 1 .. Len(prose) : prose[k] \notin Fences
      BY <1>1, <1>5, <2>4, <3>1, NoneInPiece
    <3>3. /\ fence \in Seq(ChartSymbols) /\ Len(fence) >= 2
          /\ fence[1] \in Fences /\ fence[Len(fence)] \in Fences
      BY <1>1, <1>5, <2>4, <3>1, BlockEnds
    <3>4. steps[i].next = close + 1
          /\ steps[i].text = ProcessSegment(prose) \o RetagJsonFence(fence)
      BY <1>2, <2>2, <3>1, SMTT(30) DEF Writes
    <3> HIDE DEF prose, fence
    <3>5. ProcessSegment(prose) \in Paired
      BY <3>2, SegmentPairs
    <3>6. RetagJsonFence(fence) \in Paired
      <4>1. RetagJsonFence(fence) \in Seq(ChartSymbols) /\ FenceCount(RetagJsonFence(fence)) = 2
        BY <2>4, <3>3, RetagKeeps, RetagCount
      <4>2. 2 % 2 = 0
        OBVIOUS
      <4>3. QED
        BY <4>1, <4>2 DEF Paired
    <3>7. steps[i].text \in Paired
      BY <3>4, <3>5, <3>6, PairedBoth
    <3>8. close + 1 \in R
      BY <1>7, <2>4, <3>1
    <3>9. QED
      BY <3>4, <3>7, <3>8, PairedBoth
  <2>5. QED
    BY <2>1, <2>3, <2>4
<1>9. Walk(steps, n) \in Paired
  BY <1>1, <1>3, <1>4, <1>8, WalkIn
<1>10. QED
  BY <1>2, <1>9

LEMMA NothingWritten == ProcessSegment(<<>>) = <<>> /\ Complete(<<>>)
<1> DEFINE steps == [i \in DOMAIN <<>> |-> SegmentStep(<<>>, i)]
<1>1. <<>> \in Seq(ChartSymbols) /\ Len(<<>>) = 0
  OBVIOUS
<1>2. ProcessSegment(<<>>) = Walk(steps, 0)
  BY <1>1, Segmenting
<1> HIDE DEF steps
<1>3. GoesOn(steps, 0)
  BY DEF GoesOn
<1>4. PICK f : Walk(steps, 0) = f[1] /\ f[0 + 1] = <<>>
  <2>1. 0 \in Nat
    OBVIOUS
  <2>2. QED
    BY <1>3, <2>1, WalkIs
<1>5. 0 + 1 = 1
  OBVIOUS
<1>6. Complete(<<>>)
  BY <1>1, CompleteIs, PendingOfEmpty
<1>7. QED
  BY <1>2, <1>4, <1>5, <1>6

\* Behind the last block, a symbol more is prose, whatever it is.
LEMMA LastWrapOn ==
    ASSUME NEW t \in Seq(ChartSymbols), Complete(t), NEW x \in ChartSymbols,
           NEW i \in 1 .. Len(t) + 1, FirstAfter(t, i - 1, Fences) = 0
    PROVE  /\ WrapStep(Append(t, x), i).next = Len(t) + 2
           /\ On(ProcessSegment(SubSeq(t, i, Len(t))), WrapStep(Append(t, x), i).text, x)
<1> DEFINE n == Len(t)
           more == Append(t, x)
           prose == SubSeq(t, i, n)
           open == FirstAfter(more, i - 1, Fences)
           close == FirstAfter(more, open, Fences)
<1>1. /\ n \in Nat /\ more \in Seq(ChartSymbols) /\ Len(more) = n + 1
      /\ i - 1 \in 0 .. n /\ (n + 1) + 1 = n + 2 /\ n + 1 \in Nat
  BY AppendProperties
<1>2. open = 0 \/ open = n + 1
  BY <1>1, FenceAfterOn
<1>3. open = 0 \/ close = 0
  <2>1. FirstAfter(more, n + 1, Fences) = 0 \/ FirstAfter(more, n + 1, Fences) \in (n + 1) + 1 .. Len(more)
    <3> HIDE DEF more
    <3>1. QED
      BY <1>1, FenceAfter
  <2>2. \A j \in (n + 1) + 1 .. Len(more) : FALSE
    BY <1>1
  <2>3. FirstAfter(more, n + 1, Fences) = 0
    BY <2>1, <2>2
  <2>4. QED
    BY <1>2, <2>3
<1>4. prose \in Seq(ChartSymbols) /\ SubSeq(more, i, n + 1) = Append(prose, x)
  BY PieceOn
<1>5. Complete(prose)
  BY CompleteFrom
<1>6. WrapStep(more, i) = Writes(ProcessSegment(SubSeq(more, i, Len(more))), Len(more) + 1)
  <2> HIDE DEF more
  <2>1. QED
    BY <1>3, WrapStepIs
<1>7. On(ProcessSegment(prose), ProcessSegment(Append(prose, x)), x)
  <2> HIDE DEF prose
  <2>1. QED
    BY <1>4, <1>5, SegmentOn
<1> HIDE DEF prose, more, n
<1>8. WrapStep(more, i).next = n + 2 /\ WrapStep(more, i).text = ProcessSegment(Append(prose, x))
  <2>1. Len(more) + 1 = n + 2
    BY <1>1
  <2>2. WrapStep(more, i) = Writes(ProcessSegment(Append(prose, x)), n + 2)
    BY <1>1, <1>4, <1>6, <2>1
  <2>3. QED
    BY <2>2 DEF Writes
<1>9. QED
  BY <1>7, <1>8 DEF prose, more, n

\* wrapInlineChartJson, of a repaired text that grows and leaves nothing open.
LEMMA WrappedOn ==
    ASSUME NEW t \in Paired, Complete(t), NEW x \in ChartSymbols
    PROVE  On(Wrapped(t), Wrapped(Append(t, x)), x)
<1> DEFINE n == Len(t)
           more == Append(t, x)
           steps == [i \in DOMAIN t |-> WrapStep(t, i)]
           moreSteps == [i \in DOMAIN more |-> WrapStep(more, i)]
           R == {i \in 1 .. n + 1 : FenceCount(SubSeq(t, i, n)) % 2 = 0}
<1>1. /\ t \in Seq(ChartSymbols) /\ FenceCount(t) % 2 = 0
      /\ n \in Nat /\ more \in Seq(ChartSymbols) /\ Len(more) = n + 1
      /\ DOMAIN t = 1 .. n /\ DOMAIN more = 1 .. n + 1
  BY AppendProperties DEF Paired
<1>2. Wrapped(t) = Walk(steps, n) /\ Wrapped(more) = Walk(moreSteps, n + 1)
  BY <1>1 DEF Wrapped
<1>3. \A i \in 1 .. n : steps[i] = WrapStep(t, i)
  BY <1>1
<1>4. \A i \in 1 .. n + 1 : moreSteps[i] = WrapStep(more, i)
  BY <1>1
<1>5. \A i \in 1 .. n : StepKeeps(t, WrapStep(t, i), i)
  BY <1>1, WrapStepKeeps
<1>6. \A i \in 1 .. n + 1 : StepKeeps(more, WrapStep(more, i), i)
  <2> HIDE DEF more
  <2>1. QED
    BY <1>1, WrapStepKeeps
<1>7. 1 \in R
  <2>1. SubSeq(t, 1, n) = t
    BY <1>1, SubSeqFull
  <2>2. 1 \in 1 .. n + 1
    BY <1>1
  <2>3. QED
    BY <1>1, <2>1, <2>2
<1>8. n = Len(t) /\ more = Append(t, x)
  OBVIOUS
<1>9. \A i \in 1 .. n : i \in R <=> FenceCount(SubSeq(t, i, n)) % 2 = 0
  BY <1>1
<1>10. \A i \in 1 .. n : FenceCount(SubSeq(t, i + 1, n)) % 2 = 0 => i + 1 \in R
  BY <1>1
<1> HIDE DEF n, more, steps, moreSteps, R
<1>11. GoesOn(steps, n) /\ GoesOn(moreSteps, n + 1)
  BY <1>1, <1>3, <1>4, <1>5, <1>6, <1>8 DEF GoesOn, StepKeeps
<1>12. ASSUME NEW i \in 1 .. n, i \in R
       PROVE  /\ steps[i].text \in Seq(ChartSymbols)
              /\ \/ moreSteps[i] = steps[i] /\ steps[i].next \in R
                 \/ /\ steps[i].next = n + 1 /\ moreSteps[i].next = n + 2
                    /\ On(steps[i].text, moreSteps[i].text, x)
  <2> DEFINE open == FirstAfter(t, i - 1, Fences)
             close == FirstAfter(t, open, Fences)
  <2>1. \/ open = 0 /\ \A j \in i .. n : t[j] \notin Fences
        \/ /\ open \in i .. n /\ close \in open + 1 .. n
           /\ FenceCount(SubSeq(t, close + 1, n)) % 2 = 0
    BY <1>1, <1>8, <1>9, <1>12, PairedAhead
  <2>2. /\ open = 0 \/ close = 0 =>
             WrapStep(t, i) = Writes(ProcessSegment(SubSeq(t, i, n)), n + 1)
        /\ open # 0 /\ close # 0 =>
             WrapStep(t, i) = Writes(ProcessSegment(SubSeq(t, i, open - 1))
                                       \o RetagJsonFence(SubSeq(t, open, close)), close + 1)
    BY <1>8, WrapStepIs
  <2>3. steps[i].text \in Seq(ChartSymbols)
    BY <1>3, <1>5 DEF StepKeeps
  <2>4. /\ i \in 1 .. n + 1 /\ i - 1 \in 0 .. n
    BY <1>1
  <2> HIDE DEF close
  <2>5. CASE open = 0
    <3>1. steps[i].next = n + 1 /\ steps[i].text = ProcessSegment(SubSeq(t, i, n))
      BY <1>3, <2>2, <2>5 DEF Writes
    <3>2. WrapStep(more, i).next = n + 2
          /\ On(ProcessSegment(SubSeq(t, i, n)), WrapStep(more, i).text, x)
      BY <1>1, <1>8, <2>4, <2>5, LastWrapOn
    <3>3. QED
      BY <1>4, <2>3, <2>4, <3>1, <3>2
  <2>6. CASE /\ open \in i .. n /\ close \in open + 1 .. n
             /\ FenceCount(SubSeq(t, close + 1, n)) % 2 = 0
    <3>1. /\ open \in 0 .. n /\ open \in 1 .. n + 1 /\ open # 0 /\ close # 0 /\ close \in 1 .. n
          /\ open - 1 \in i - 1 .. n /\ close \in open - 1 .. n
      BY <1>1, <2>4, <2>6
    <3>2. FirstAfter(more, i - 1, Fences) = open
      BY <1>1, <1>8, <2>4, <3>1, FenceAfterOn
    <3> HIDE DEF open
    <3>3. FirstAfter(more, open, Fences) = close
      BY <1>1, <1>8, <3>1, FenceAfterOn DEF close
    <3>4. /\ SubSeq(more, i, open - 1) = SubSeq(t, i, open - 1)
          /\ SubSeq(more, open, close) = SubSeq(t, open, close)
      BY <1>1, <1>8, <2>4, <3>1, PieceOn
    <3>5. WrapStep(more, i) = WrapStep(t, i)
      <4>1. WrapStep(more, i) = Writes(ProcessSegment(SubSeq(more, i, open - 1))
                                         \o RetagJsonFence(SubSeq(more, open, close)), close + 1)
        BY <3>1, <3>2, <3>3, WrapStepIs
      <4>2. QED
        BY <2>2, <3>1, <3>4, <4>1
    <3>6. steps[i].next = close + 1
      BY <1>3, <2>2, <3>1 DEF Writes
    <3>7. close + 1 \in R
      BY <1>10, <2>6, <3>1
    <3>8. QED
      BY <1>3, <1>4, <2>3, <2>4, <3>5, <3>6, <3>7
  <2>7. QED
    BY <2>1, <2>5, <2>6
<1>13. On(<<>>, moreSteps[n + 1].text, x)
  <2>1. n + 1 \in 1 .. n + 1 /\ (n + 1) - 1 = n
    BY <1>1
  <2>2. FirstAfter(t, n, Fences) = 0
    <3>1. FirstAfter(t, n, Fences) = 0 \/ FirstAfter(t, n, Fences) \in n + 1 .. Len(t)
      BY <1>1, FenceAfter
    <3>2. \A j \in n + 1 .. Len(t) : FALSE
      BY <1>1, <1>8
    <3>3. QED
      BY <3>1, <3>2
  <2>3. On(ProcessSegment(SubSeq(t, n + 1, n)), WrapStep(more, n + 1).text, x)
    BY <1>1, <1>8, <2>1, <2>2, LastWrapOn
  <2>4. SubSeq(t, n + 1, n) = <<>>
    BY <1>1, SubSeqEmpty
  <2>5. QED
    BY <1>4, <2>1, <2>3, <2>4, NothingWritten
<1>14. On(Walk(steps, n), Walk(moreSteps, n + 1), x)
  BY <1>1, <1>7, <1>11, <1>12, <1>13, WalkOn
<1>15. QED
  BY <1>2, <1>8, <1>14

\* reassembleFencedJson, of a text that grows and leaves nothing open.
LEMMA MendStepIs ==
    ASSUME NEW t, NEW i
    PROVE  LET end == ObjectEnd(t, i)
               o == SubSeq(t, i, end)
           IN  /\ ~(t[i] = "{" /\ end # 0) => MendStep(t, i) = Writes(<<t[i]>>, i + 1)
               /\ t[i] = "{" /\ end # 0 =>
                    MendStep(t, i) = IF WithoutFences(o) # o /\ Renders(WithoutFences(o))
                                     THEN Writes(WithoutFences(o), end + 1)
                                     ELSE Writes(<<t[i]>>, i + 1)
  BY DEF MendStep

LEMMA ReassembleOn ==
    ASSUME NEW t \in Seq(ChartSymbols), Complete(t), NEW x \in ChartSymbols
    PROVE  On(Reassemble(t), Reassemble(Append(t, x)), x)
<1> DEFINE n == Len(t)
           more == Append(t, x)
           steps == [i \in DOMAIN t |-> MendStep(t, i)]
           moreSteps == [i \in DOMAIN more |-> MendStep(more, i)]
<1>1. /\ n \in Nat /\ more \in Seq(ChartSymbols) /\ Len(more) = n + 1 /\ more[n + 1] = x
      /\ DOMAIN t = 1 .. n /\ DOMAIN more = 1 .. n + 1
      /\ \A j \in 1 .. n : more[j] = t[j]
  BY AppendProperties
<1>2. Reassemble(t) = Walk(steps, n) /\ Reassemble(more) = Walk(moreSteps, n + 1)
  BY <1>1, Mending
<1>3. \A i \in 1 .. n : steps[i] = MendStep(t, i)
  BY <1>1
<1>4. \A i \in 1 .. n + 1 : moreSteps[i] = MendStep(more, i)
  BY <1>1
<1>5. \A i \in 1 .. n : StepKeeps(t, MendStep(t, i), i)
  BY MendStepKeeps
<1>6. \A i \in 1 .. n + 1 : StepKeeps(more, MendStep(more, i), i)
  <2> HIDE DEF more
  <2>1. QED
    BY <1>1, MendStepKeeps
<1>7. \A i \in 1 .. n : t[i] = "{" => ObjectEnd(t, i) # 0
  BY <1>1 DEF Complete
<1>8. n = Len(t) /\ more = Append(t, x)
  OBVIOUS
<1> HIDE DEF n, more, steps, moreSteps
<1>9. GoesOn(steps, n) /\ GoesOn(moreSteps, n + 1)
  BY <1>1, <1>3, <1>4, <1>5, <1>6, <1>8 DEF GoesOn, StepKeeps
<1>10. ASSUME NEW i \in 1 .. n PROVE MendStep(more, i) = MendStep(t, i)
  <2>1. more[i] = t[i]
    BY <1>1
  <2>2. CASE t[i] = "{"
    <3> DEFINE end == ObjectEnd(t, i)
    <3>1. end # 0 /\ end \in i .. n /\ ObjectEnd(more, i) = end
      BY <1>7, <1>8, <2>2, EndIs, EndOn
    <3>2. i \in 1 .. Len(t) + 1 /\ end \in i - 1 .. Len(t)
      BY <1>1, <1>8, <3>1
    <3> HIDE DEF end
    <3>3. SubSeq(more, i, end) = SubSeq(t, i, end)
      BY <1>8, <3>2, PieceOn
    <3>4. QED
      BY <2>1, <2>2, <3>1, <3>3, MendStepIs DEF end
  <2>3. CASE t[i] # "{"
    BY <2>1, <2>3, MendStepIs
  <2>4. QED
    BY <2>2, <2>3
<1>11. On(<<>>, moreSteps[n + 1].text, x)
  <2>1. n + 1 \in 1 .. n + 1 /\ Append(<<>>, x) = <<x>>
    BY <1>1
  <2>2. x = "{" => ObjectEnd(more, n + 1) = 0
    BY <1>8, BraceIsOpen
  <2>3. MendStep(more, n + 1) = Writes(<<x>>, (n + 1) + 1)
    BY <1>1, <2>2, MendStepIs
  <2>4. QED
    BY <1>4, <2>1, <2>3 DEF On, Writes
<1> DEFINE R == 1 .. n + 1
<1>12. \A i \in 1 .. n : i \in R =>
         /\ steps[i].text \in Seq(ChartSymbols)
         /\ \/ moreSteps[i] = steps[i] /\ steps[i].next \in R
            \/ /\ steps[i].next = n + 1 /\ moreSteps[i].next = n + 2
               /\ On(steps[i].text, moreSteps[i].text, x)
  <2>1. ASSUME NEW i \in 1 .. n
        PROVE  /\ steps[i].text \in Seq(ChartSymbols)
               /\ moreSteps[i] = steps[i] /\ steps[i].next \in R
    <3>1. i \in 1 .. n + 1
      BY <1>1
    <3>2. steps[i].next \in R
      BY <1>1, <1>9 DEF GoesOn
    <3> HIDE DEF R
    <3>3. QED
      BY <1>3, <1>4, <1>5, <1>10, <3>1, <3>2 DEF StepKeeps
  <2> HIDE DEF R
  <2>2. QED
    BY <2>1
<1>13. 1 \in R
  BY <1>1
<1> HIDE DEF R
<1>14. On(Walk(steps, n), Walk(moreSteps, n + 1), x)
  BY <1>1, <1>9, <1>11, <1>12, <1>13, WalkOn
<1>15. QED
  BY <1>2, <1>8, <1>14

-----------------------------------------------------------------------------
(* What is hidden of an answer *)

\* The function that Unclosed defines by recursion, from a position on.
Seeks(t, i, seek) ==
    LET brace == FirstAfter(t, i - 1, {"{"}) IN
    CASE brace = 0 -> 0
      [] brace # 0 /\ ObjectEnd(t, brace) = 0 -> brace
      [] OTHER -> seek[ObjectEnd(t, brace) + 1]

Seeking(t, m, seek) == seek = [i \in m .. Len(t) + 1 |-> Seeks(t, i, seek)]

\* Either there is no brace ahead, or one that is open, or the search goes on
\* behind the object.
LEMMA SeeksIs ==
    ASSUME NEW t \in Seq(ChartSymbols), NEW i \in 1 .. Len(t) + 1
    PROVE  \/ \A f : Seeks(t, i, f) = 0
           \/ \E brace \in 1 .. Len(t) : /\ t[brace] = "{" /\ ObjectEnd(t, brace) = 0
                                         /\ \A f : Seeks(t, i, f) = brace
           \/ i <= Len(t) /\ \E j \in i + 1 .. Len(t) + 1 : \A f : Seeks(t, i, f) = f[j]
<1> DEFINE brace == FirstAfter(t, i - 1, {"{"})
           end == ObjectEnd(t, brace)
<1>1. Len(t) \in Nat /\ i - 1 \in Nat /\ (i - 1) + 1 = i
  OBVIOUS
<1>2. brace = 0 \/ (brace \in i .. Len(t) /\ t[brace] \in {"{"})
  BY <1>1, FirstIs
<1>3. brace # 0 => brace \in i .. Len(t) /\ brace \in 1 .. Len(t)
  <2>1. brace # 0 => brace \in i .. Len(t)
    BY <1>2
  <2>2. \A j \in i .. Len(t) : j \in 1 .. Len(t)
    OBVIOUS
  <2>3. QED
    BY <2>1, <2>2
<1>4. \A f : Seeks(t, i, f) = CASE brace = 0 -> 0
                                [] brace # 0 /\ end = 0 -> brace
                                [] OTHER -> f[end + 1]
  BY DEF Seeks
<1>5. brace # 0 => end = 0 \/ end \in brace .. Len(t)
  <2> HIDE DEF brace
  <2>1. QED
    BY <1>3, EndIs
<1> HIDE DEF brace, end
<1>6. CASE brace = 0
  BY <1>4, <1>6
<1>7. CASE brace # 0 /\ end = 0
  <2>1. brace \in 1 .. Len(t) /\ t[brace] = "{"
    BY <1>2, <1>3, <1>7
  <2>2. \A f : Seeks(t, i, f) = brace
    BY <1>4, <1>7
  <2>3. ObjectEnd(t, brace) = 0
    BY <1>7 DEF end
  <2>4. QED
    BY <2>1, <2>2, <2>3
<1>8. CASE brace # 0 /\ end # 0
  <2>1. brace \in i .. Len(t) /\ end \in brace .. Len(t)
    BY <1>2, <1>5, <1>8
  <2>2. end + 1 \in i + 1 .. Len(t) + 1 /\ i <= Len(t)
    BY <1>1, <2>1
  <2>3. \A f : Seeks(t, i, f) = f[end + 1]
    BY <1>4, <1>8
  <2>4. QED
    BY <2>2, <2>3
<1>9. QED
  BY <1>6, <1>7, <1>8

LEMMA SeekingExists ==
    ASSUME NEW t \in Seq(ChartSymbols)
    PROVE  \A k \in Nat : k <= Len(t) => \E seek : Seeking(t, Len(t) + 1 - k, seek)
<1> DEFINE n == Len(t)
           N == {k \in Nat : k <= n => \E seek : Seeking(t, n + 1 - k, seek)}
<1>1. n \in Nat /\ n = Len(t)
  OBVIOUS
<1> HIDE DEF n
<1>2. 0 \in N
  <2> DEFINE none == [i \in n + 1 .. n + 1 |-> Seeks(t, i, <<>>)]
  <2>1. n + 1 - 0 = n + 1 /\ n + 1 \in 1 .. n + 1 /\ ~(n + 1 <= n)
        /\ \A i \in n + 1 .. n + 1 : i = n + 1
    BY <1>1
  <2>2. Seeks(t, n + 1, none) = Seeks(t, n + 1, <<>>)
    <3> HIDE DEF none
    <3>1. QED
      BY <1>1, <2>1, SeeksIs
  <2>3. none = [i \in n + 1 .. n + 1 |-> Seeks(t, i, none)]
    <3>1. \A i \in n + 1 .. n + 1 : Seeks(t, i, <<>>) = Seeks(t, i, none)
      <4> HIDE DEF none
      <4>1. QED
        BY <2>1, <2>2
    <3>2. QED
      BY <3>1
  <2> HIDE DEF none
  <2>4. QED
    BY <1>1, <2>1, <2>3 DEF Seeking
<1>3. ASSUME NEW k \in Nat, k \in N PROVE k + 1 \in N
  <2>1. SUFFICES ASSUME k + 1 <= n PROVE \E seek : Seeking(t, n + 1 - (k + 1), seek)
    OBVIOUS
  <2> DEFINE m == n + 1 - (k + 1)
  <2>2. m \in 1 .. n /\ m + 1 = n + 1 - k /\ m \in 1 .. n + 1
    BY <1>1, <2>1
  <2>3. PICK seek : Seeking(t, m + 1, seek)
    BY <1>1, <1>3, <2>1, <2>2
  <2> HIDE DEF m
  <2> DEFINE more == [i \in m .. n + 1 |-> IF i = m THEN Seeks(t, m, seek) ELSE seek[i]]
  <2>4. \A j \in m + 1 .. n + 1 : more[j] = seek[j] /\ seek[j] = Seeks(t, j, seek)
    <3>1. seek = [i \in m + 1 .. n + 1 |-> Seeks(t, i, seek)]
      BY <1>1, <2>3 DEF Seeking
    <3>2. \A j \in m + 1 .. n + 1 : seek[j] = Seeks(t, j, seek)
      BY <3>1
    <3>3. \A j \in m + 1 .. n + 1 : j \in m .. n + 1 /\ j # m
      BY <2>2
    <3>4. QED
      BY <3>2, <3>3
  <2>5. ASSUME NEW i \in m .. n + 1 PROVE more[i] = Seeks(t, i, more)
    <3>1. i \in 1 .. n + 1 /\ (i = m \/ i \in m + 1 .. n + 1)
          /\ \A j \in i + 1 .. n + 1 : j \in m + 1 .. n + 1
      BY <1>1, <2>2
    <3>2. more[i] = Seeks(t, i, seek)
      <4>1. i = m => more[i] = Seeks(t, m, seek)
        OBVIOUS
      <4>2. QED
        BY <2>4, <3>1, <4>1
    <3> HIDE DEF more
    <3>3. Seeks(t, i, more) = Seeks(t, i, seek)
      BY <1>1, <2>4, <3>1, SeeksIs
    <3>4. QED
      BY <3>2, <3>3
  <2>6. more = [i \in m .. n + 1 |-> Seeks(t, i, more)]
    <3> DEFINE step(f) == [i \in m .. n + 1 |-> Seeks(t, i, f)]
    <3>1. DOMAIN more = m .. n + 1 /\ DOMAIN step(more) = m .. n + 1
      OBVIOUS
    <3>2. more = step(more)
      BY <2>5, <3>1
    <3>3. QED
      BY <3>2
  <2> HIDE DEF more
  <2>7. Seeking(t, m, more)
    BY <1>1, <2>6 DEF Seeking
  <2>8. QED
    BY <2>7 DEF m
<1>4. \A k \in Nat : k \in N
  <2> HIDE DEF N
  <2>1. QED
    BY <1>2, <1>3, Induction
<1>5. QED
  BY <1>1, <1>4

\* Only an open brace is found.
LEMMA UnclosedIs ==
    ASSUME NEW t \in Seq(ChartSymbols)
    PROVE  \/ Unclosed(t) = 0
           \/ /\ Unclosed(t) \in 1 .. Len(t) /\ t[Unclosed(t)] = "{"
              /\ ObjectEnd(t, Unclosed(t)) = 0
<1> DEFINE n == Len(t)
           chosen == CHOOSE from :
             from = [i \in 1 .. n + 1 |->
                       LET brace == FirstAfter(t, i - 1, {"{"}) IN
                       CASE brace = 0 -> 0
                         [] brace # 0 /\ ObjectEnd(t, brace) = 0 -> brace
                         [] OTHER -> from[ObjectEnd(t, brace) + 1]]
<1>1. Unclosed(t) = chosen[1]
  BY DEF Unclosed
<1>2. n \in Nat /\ n = Len(t)
  OBVIOUS
<1>3. \E seek : Seeking(t, 1, seek)
  <2>1. n + 1 - n = 1 /\ n <= n
    BY <1>2
  <2>2. QED
    BY <1>2, <2>1, SeekingExists
<1>4. Seeking(t, 1, chosen)
  BY <1>3 DEF Seeking, Seeks
<1> HIDE DEF chosen, n
<1>5. \A i \in 1 .. n + 1 : chosen[i] = Seeks(t, i, chosen)
  <2>1. chosen = [i \in 1 .. n + 1 |-> Seeks(t, i, chosen)]
    BY <1>2, <1>4 DEF Seeking
  <2>2. QED
    BY <2>1
<1> DEFINE G == {0} \cup {b \in 1 .. n : t[b] = "{" /\ ObjectEnd(t, b) = 0}
           N == {k \in Nat : k <= n => \A i \in n + 1 - k .. n + 1 : chosen[i] \in G}
<1>6. ASSUME NEW m \in 1 .. n + 1, \A i \in m + 1 .. n + 1 : chosen[i] \in G
      PROVE  chosen[m] \in G
  <2>1. chosen[m] = Seeks(t, m, chosen)
    BY <1>5
  <2>2. \/ Seeks(t, m, chosen) = 0
        \/ \E brace \in 1 .. n : /\ t[brace] = "{" /\ ObjectEnd(t, brace) = 0
                                 /\ Seeks(t, m, chosen) = brace
        \/ \E j \in m + 1 .. n + 1 : Seeks(t, m, chosen) = chosen[j]
    BY <1>2, SeeksIs
  <2>3. CASE Seeks(t, m, chosen) = 0
    BY <2>1, <2>3
  <2>4. CASE \E brace \in 1 .. n : /\ t[brace] = "{" /\ ObjectEnd(t, brace) = 0
                                   /\ Seeks(t, m, chosen) = brace
    BY <2>1, <2>4
  <2>5. CASE \E j \in m + 1 .. n + 1 : Seeks(t, m, chosen) = chosen[j]
    <3> HIDE DEF G
    <3>1. QED
      BY <1>6, <2>1, <2>5
  <2>6. QED
    BY <2>2, <2>3, <2>4, <2>5
<1> HIDE DEF G
<1>7. 0 \in N
  <2>1. /\ n + 1 \in 1 .. n + 1 /\ \A i \in (n + 1) + 1 .. n + 1 : FALSE
        /\ \A i \in n + 1 - 0 .. n + 1 : i = n + 1
    BY <1>2
  <2>2. chosen[n + 1] \in G
    BY <1>6, <2>1
  <2>3. QED
    BY <2>1, <2>2
<1>8. ASSUME NEW k \in Nat, k \in N PROVE k + 1 \in N
  <2>1. SUFFICES ASSUME k + 1 <= n PROVE \A i \in n + 1 - (k + 1) .. n + 1 : chosen[i] \in G
    OBVIOUS
  <2> DEFINE m == n + 1 - (k + 1)
  <2>2. /\ m \in 1 .. n + 1 /\ m + 1 = n + 1 - k /\ k <= n
        /\ \A i \in m .. n + 1 : i = m \/ i \in m + 1 .. n + 1
    BY <1>2, <2>1
  <2>3. \A i \in n + 1 - k .. n + 1 : chosen[i] \in G
    BY <1>8, <2>2
  <2> HIDE DEF m
  <2>4. \A i \in m + 1 .. n + 1 : chosen[i] \in G
    BY <2>2, <2>3
  <2>5. chosen[m] \in G
    BY <1>6, <2>2, <2>4
  <2>6. QED
    BY <2>2, <2>4, <2>5 DEF m
<1>9. \A k \in Nat : k \in N
  <2> HIDE DEF N
  <2>1. QED
    BY <1>7, <1>8, Induction
<1>10. chosen[1] \in G
  <2>1. n \in N
    BY <1>2, <1>9
  <2>2. n <= n /\ 1 \in n + 1 - n .. n + 1
    BY <1>2
  <2>3. QED
    BY <2>1, <2>2
<1>11. QED
  BY <1>1, <1>2, <1>10 DEF G

LEMMA LastFenceIs ==
    ASSUME NEW t \in Seq(ChartSymbols), NEW x \in Fences
    PROVE  LastFence(Append(t, x)) = Len(t) + 1
<1> DEFINE n == Len(t)
           more == Append(t, x)
<1>1. /\ n \in Nat /\ more \in Seq(ChartSymbols) /\ Len(more) = n + 1 /\ more[n + 1] = x
      /\ DOMAIN more = 1 .. n + 1
  BY AppendProperties, MarksAreSymbols
<1> HIDE DEF n, more
<1>2. ASSUME NEW i \in 1 .. n + 1, FirstAfter(more, i, Fences) = 0 PROVE i = n + 1
  <2>1. \A j \in i + 1 .. n + 1 : more[j] \notin Fences
    <3>1. i \in Nat
      BY <1>1
    <3>2. QED
      BY <1>1, <1>2, <3>1, FenceAfter
  <2>2. ~(n + 1 \in i + 1 .. n + 1)
    BY <1>1, <2>1
  <2>3. QED
    BY <1>1, <2>2
<1>3. FirstAfter(more, n + 1, Fences) = 0
  <2>1. n + 1 \in Nat /\ \A j \in (n + 1) + 1 .. n + 1 : FALSE
    BY <1>1
  <2>2. QED
    BY <1>1, <2>1, FenceAfter
<1>4. n + 1 \in DOMAIN more /\ more[n + 1] \in Fences
  BY <1>1
<1>5. \A i \in DOMAIN more : more[i] \in Fences /\ FirstAfter(more, i, Fences) = 0 => i = n + 1
  BY <1>1, <1>2
<1>6. LastFence(more) = n + 1
  BY <1>3, <1>4, <1>5 DEF LastFence
<1>7. QED
  BY <1>6 DEF n, more

\* Where a message is not cut off, it is shown as it is wrapped.
LEMMA ShownWhole ==
    ASSUME NEW text,
           LET t == WrapInlineChartJson(text)
           IN  /\ FenceIsOpen(t) => ~Hints(t, LastFence(t))
               /\ Unclosed(t) # 0 => ~Hints(t, Unclosed(t))
    PROVE  HideIncompleteChartJson(text) = WrapInlineChartJson(text)
  BY DEF HideIncompleteChartJson

\* Nothing is cut off of a text that leaves nothing open, nor of one that has
\* just got one symbol more.
LEMMA NothingCut ==
    ASSUME NEW t \in Paired, Complete(t)
    PROVE  ~FenceIsOpen(t) /\ Unclosed(t) = 0
<1>1. t \in Seq(ChartSymbols) /\ FenceCount(t) % 2 = 0 /\ DOMAIN t = 1 .. Len(t)
  BY DEF Paired
<1>2. \A i \in 1 .. Len(t) : t[i] = "{" => ObjectEnd(t, i) # 0
  BY <1>1 DEF Complete
<1>3. Unclosed(t) = 0
  BY <1>1, <1>2, UnclosedIs
<1>4. ~FenceIsOpen(t)
  BY <1>1 DEF FenceIsOpen
<1>5. QED
  BY <1>3, <1>4

LEMMA NothingCutOn ==
    ASSUME NEW t \in Paired, Complete(t), NEW x \in ChartSymbols
    PROVE  LET more == Append(t, x)
           IN  /\ FenceIsOpen(more) => ~Hints(more, LastFence(more))
               /\ Unclosed(more) # 0 => ~Hints(more, Unclosed(more))
<1> DEFINE n == Len(t)
           more == Append(t, x)
<1>1. /\ t \in Seq(ChartSymbols) /\ FenceCount(t) % 2 = 0
      /\ n \in Nat /\ more \in Seq(ChartSymbols) /\ Len(more) = n + 1 /\ more[n + 1] = x
      /\ \A j \in 1 .. n : more[j] = t[j]
      /\ DOMAIN t = 1 .. n
  BY AppendProperties DEF Paired
<1>2. n = Len(t) /\ more = Append(t, x)
  OBVIOUS
<1> HIDE DEF n, more
<1>3. x # "k" => ~Hints(more, n + 1)
  <2>1. \A j \in n + 1 .. Len(more) : j = n + 1
    BY <1>1
  <2>2. QED
    BY <1>1, <2>1 DEF Hints
<1>4. ASSUME FenceIsOpen(more) PROVE ~Hints(more, LastFence(more))
  <2>1. x \in Fences
    <3>1. FenceCount(more) = IF x \in Fences THEN FenceCount(t) + 1 ELSE FenceCount(t)
      BY <1>1, <1>2, CountOfAppend
    <3>2. FenceCount(more) % 2 = 1
      BY <1>4 DEF FenceIsOpen
    <3>3. QED
      BY <1>1, <3>1, <3>2
  <2>2. LastFence(more) = n + 1
    BY <1>1, <1>2, <2>1, LastFenceIs
  <2>3. x # "k"
    BY <2>1 DEF Fences
  <2>4. QED
    BY <1>3, <2>2, <2>3
<1>5. ASSUME Unclosed(more) # 0 PROVE ~Hints(more, Unclosed(more))
  <2> DEFINE u == Unclosed(more)
  <2>1. u \in 1 .. n + 1 /\ more[u] = "{" /\ ObjectEnd(more, u) = 0
    BY <1>1, <1>5, UnclosedIs
  <2> HIDE DEF u
  <2>2. ASSUME u \in 1 .. n PROVE FALSE
    <3>1. t[u] = "{"
      BY <1>1, <2>1, <2>2
    <3>2. ObjectEnd(t, u) # 0
      BY <1>1, <2>2, <3>1 DEF Complete
    <3>3. ObjectEnd(more, u) = ObjectEnd(t, u)
      BY <1>1, <1>2, <2>2, <3>2, EndOn
    <3>4. QED
      BY <2>1, <3>2, <3>3
  <2>3. u = n + 1
    <3>1. \A j \in 1 .. n + 1 : j \in 1 .. n \/ j = n + 1
      BY <1>1
    <3>2. QED
      BY <2>1, <2>2, <3>1
  <2>4. x # "k"
    BY <1>1, <2>1, <2>3
  <2>5. QED
    BY <1>3, <2>3, <2>4 DEF u
<1>6. QED
  BY <1>2, <1>4, <1>5

\* A symbol more takes no chart away.
LEMMA ChartsOn ==
    ASSUME NEW t \in Seq(ChartSymbols), NEW x \in ChartSymbols
    PROVE  Charts(t) \in Nat /\ Charts(Append(t, x)) >= Charts(t)
<1> DEFINE n == Len(t)
           more == Append(t, x)
           Is(s, i) == /\ s[i] = "D"
                       /\ LET close == FirstAfter(s, i, Fences)
                              body == SubSeq(s, i + 1, close - 1)
                          IN  close # 0 /\ IsObject(body) /\ Renders(body)
           old == {i \in DOMAIN t : Is(t, i)}
           new == {i \in DOMAIN more : Is(more, i)}
<1>1. /\ n \in Nat /\ DOMAIN more = 1 .. n + 1 /\ DOMAIN t = 1 .. n
      /\ \A j \in 1 .. n : more[j] = t[j]
  BY AppendProperties
<1>2. Charts(t) = Cardinality(old) /\ Charts(more) = Cardinality(new)
  BY DEF Charts
<1>3. ASSUME NEW i \in 1 .. n, Is(t, i) PROVE Is(more, i)
  <2> DEFINE close == FirstAfter(t, i, Fences)
             body == SubSeq(t, i + 1, close - 1)
  <2>1. t[i] = "D" /\ close # 0 /\ IsObject(body) /\ Renders(body)
    BY <1>3
  <2>2. i \in 0 .. n /\ i \in Nat
    BY <1>1
  <2>3. close \in i + 1 .. n
    BY <2>1, <2>2, FenceAfter
  <2>4. FirstAfter(more, i, Fences) = close
    BY <2>1, <2>2, FenceAfterOn
  <2>5. i + 1 \in 1 .. n + 1 /\ close - 1 \in (i + 1) - 1 .. n
    <3> HIDE DEF close
    <3>1. QED
      BY <1>1, <2>2, <2>3
  <2>6. SubSeq(more, i + 1, close - 1) = body
    BY <2>5, PieceOn
  <2>7. more[i] = "D"
    BY <1>1, <2>1
  <2> HIDE DEF close, body, more
  <2>8. QED
    BY <2>1, <2>4, <2>6, <2>7
<1>4. IsFiniteSet(1 .. n + 1)
  <2>1. 1 \in Int /\ n + 1 \in Int
    BY <1>1
  <2>2. QED
    BY <2>1, FS_Interval
<1> HIDE DEF Is
<1>5. old \subseteq new /\ new \subseteq 1 .. n + 1
  BY <1>1, <1>3
<1> HIDE DEF old, new, n, more
<1>6. IsFiniteSet(new)
  BY <1>4, <1>5, FS_Subset
<1>7. IsFiniteSet(old) /\ Cardinality(old) <= Cardinality(new)
  BY <1>5, <1>6, FS_Subset
<1>8. Cardinality(old) \in Nat /\ Cardinality(new) \in Nat
  BY <1>6, <1>7, FS_CardinalityType
<1>9. QED
  BY <1>2, <1>7, <1>8 DEF more

\* ShownChartStays: however an answer grows, a chart on screen stays there when
\* it has left no object open and, repaired, no fence: neither the repair nor the
\* wrapping of what comes reaches back (hideIncompleteChartJson, called anew on
\* the whole text at every token).
THEOREM ChartsStay == TextSpec => ShownChartStays
<1> DEFINE Inv == answer \in Seq(ChartSymbols)
           Stays == FenceCount(Reassemble(answer)) % 2 = 0 /\ Complete(answer) =>
             Charts(HideIncompleteChartJson(answer')) >= Charts(HideIncompleteChartJson(answer))
<1>1. answer = <<>> => Inv
  OBVIOUS
<1>2. Inv /\ [StreamToken]_answer => Inv'
  <2>1. SUFFICES ASSUME Inv, StreamToken PROVE Inv'
    OBVIOUS
  <2>2. PICK token \in Tokens : answer' = Append(answer, token)
    BY <2>1 DEF StreamToken
  <2>3. token \in ChartSymbols
    BY DEF ChartSymbols
  <2>4. QED
    BY <2>1, <2>2, <2>3, AppendProperties
<1>3. Inv /\ [StreamToken]_answer => [Stays]_answer
  <2>1. SUFFICES ASSUME Inv, StreamToken,
                        FenceCount(Reassemble(answer)) % 2 = 0, Complete(answer)
                 PROVE  Charts(HideIncompleteChartJson(answer'))
                          >= Charts(HideIncompleteChartJson(answer))
    OBVIOUS
  <2>2. PICK token \in Tokens : answer' = Append(answer, token)
    BY <2>1 DEF StreamToken
  <2>3. token \in ChartSymbols
    BY DEF ChartSymbols
  <2> DEFINE t == Reassemble(answer)
             w == WrapInlineChartJson(answer)
             v == WrapInlineChartJson(answer')
  <2>4. t \in Paired /\ Complete(t) /\ w = Wrapped(t)
    <3>1. t \in Seq(ChartSymbols) /\ Words(t) = Words(answer)
      BY <2>1, ReassembleKeeps
    <3>2. QED
      BY <2>1, <3>1, CompleteWords, WrapIs DEF Paired
  <2>5. w \in Paired /\ Complete(w)
    <3> HIDE DEF t
    <3>1. t \in Seq(ChartSymbols)
      BY <2>4 DEF Paired
    <3>2. Wrapped(t) \in Seq(ChartSymbols) /\ Words(Wrapped(t)) = Words(t)
      BY <3>1, WrappedKeeps
    <3>3. QED
      BY <2>4, <3>1, <3>2, WrappedPairs, CompleteWords
  <2>6. v = w \/ v = Append(w, token)
    <3>1. v = Wrapped(Reassemble(answer'))
      BY WrapIs
    <3>2. Reassemble(answer') = t \/ Reassemble(answer') = Append(t, token)
      BY <2>1, <2>2, <2>3, ReassembleOn DEF On
    <3> HIDE DEF t
    <3>3. Wrapped(Append(t, token)) = Wrapped(t) \/ Wrapped(Append(t, token)) = Append(Wrapped(t), token)
      BY <2>3, <2>4, WrappedOn DEF On
    <3>4. QED
      BY <2>4, <3>1, <3>2, <3>3
  <2> HIDE DEF w, v, t
  <2>7. HideIncompleteChartJson(answer) = w
    BY <2>5, NothingCut, ShownWhole DEF w
  <2>8. HideIncompleteChartJson(answer') = v
    <3>1. /\ FenceIsOpen(v) => ~Hints(v, LastFence(v))
          /\ Unclosed(v) # 0 => ~Hints(v, Unclosed(v))
      BY <2>3, <2>5, <2>6, NothingCut, NothingCutOn
    <3>2. QED
      BY <3>1, ShownWhole DEF v
  <2>9. w \in Seq(ChartSymbols)
    BY <2>5 DEF Paired
  <2>10. Charts(w) \in Nat /\ Charts(Append(w, token)) >= Charts(w)
    BY <2>3, <2>9, ChartsOn
  <2>11. Charts(v) >= Charts(w)
    <3>1. CASE v = w
      BY <2>10, <3>1
    <3>2. CASE v = Append(w, token)
      BY <2>10, <3>2
    <3>3. QED
      BY <2>6, <3>1, <3>2
  <2>12. QED
    BY <2>7, <2>8, <2>11
<1> HIDE DEF Inv
<1>4. QED
  BY <1>1, <1>2, <1>3, PTL DEF TextSpec, ShownChartStays

-----------------------------------------------------------------------------
(* Pieces of a sequence *)

\* A piece of a sequence, item by item.
LEMMA PieceIs ==
    ASSUME NEW X, NEW w \in Seq(X), NEW i \in Nat \ {0}, NEW j \in Nat,
           i <= j + 1, j <= Len(w)
    PROVE  /\ SubSeq(w, i, j) \in Seq(X)
           /\ Len(SubSeq(w, i, j)) = j + 1 - i
           /\ DOMAIN SubSeq(w, i, j) = 1 .. j + 1 - i
           /\ \A k \in 1 .. j + 1 - i : SubSeq(w, i, j)[k] = w[i + k - 1]
  OBVIOUS

LEMMA PieceOfPiece ==
    ASSUME NEW X, NEW w \in Seq(X), NEW i \in Nat \ {0}, NEW j \in Nat,
           i <= j + 1, j <= Len(w),
           NEW k \in Nat \ {0}, NEW l \in Nat, k <= l + 1, l <= j + 1 - i
    PROVE  SubSeq(SubSeq(w, i, j), k, l) = SubSeq(w, i + k - 1, i + l - 1)
<1> DEFINE s == SubSeq(w, i, j)
           t == SubSeq(s, k, l)
           u == SubSeq(w, i + k - 1, i + l - 1)
<1>1. s \in Seq(X) /\ Len(s) = j + 1 - i /\ \A n \in 1 .. j + 1 - i : s[n] = w[i + n - 1]
  BY PieceIs
<1>2. /\ i + k - 1 \in Nat \ {0} /\ i + l - 1 \in Nat
      /\ i + k - 1 <= i + l - 1 + 1 /\ i + l - 1 <= Len(w)
  BY LenProperties
<1>3. u \in Seq(X) /\ Len(u) = l + 1 - k /\ \A n \in 1 .. l + 1 - k : u[n] = w[(i + k - 1) + n - 1]
  BY <1>2, PieceIs
<1> HIDE DEF s, u
<1>4. t \in Seq(X) /\ Len(t) = l + 1 - k /\ \A n \in 1 .. l + 1 - k : t[n] = s[k + n - 1]
  BY <1>1, PieceIs
<1> HIDE DEF t
<1>5. \A n \in 1 .. l + 1 - k : t[n] = u[n]
  <2>1. SUFFICES ASSUME NEW n \in 1 .. l + 1 - k PROVE t[n] = u[n]
    OBVIOUS
  <2>2. k + n - 1 \in 1 .. j + 1 - i /\ i + (k + n - 1) - 1 = (i + k - 1) + n - 1
    OBVIOUS
  <2>3. s[k + n - 1] = w[i + (k + n - 1) - 1]
    BY <1>1, <2>2
  <2>4. QED
    BY <1>3, <1>4, <2>2, <2>3
<1>6. t = u
  BY <1>3, <1>4, <1>5, SeqEqual
<1>7. QED
  BY <1>6 DEF s, t, u

\* Two pieces that meet.
LEMMA PiecesMeet ==
    ASSUME NEW X, NEW w \in Seq(X), NEW i \in Nat \ {0}, NEW j \in Nat, NEW k \in Nat,
           i <= j + 1, j <= k, k <= Len(w)
    PROVE  SubSeq(w, i, j) \o SubSeq(w, j + 1, k) = SubSeq(w, i, k)
<1>1. i \in 1 .. Len(w) + 1 /\ j \in i - 1 .. Len(w) /\ k \in j .. Len(w)
  OBVIOUS
<1>2. QED
  BY <1>1, ConcatAdjacentSubSeq

\* A part of a piece is a part of the whole.
LEMMA IsAtPiece ==
    ASSUME NEW X, NEW w \in Seq(X), NEW i \in Nat \ {0}, NEW j \in Nat,
           i <= j + 1, j <= Len(w),
           NEW part \in Seq(X), NEW k \in Nat \ {0}
    PROVE  IsAt(SubSeq(w, i, j), k, part)
             <=> IsAt(w, i + k - 1, part) /\ i + k - 1 + Len(part) - 1 <= j
<1> DEFINE s == SubSeq(w, i, j)
<1>1. s \in Seq(X) /\ Len(s) = j + 1 - i /\ \A n \in 1 .. j + 1 - i : s[n] = w[i + n - 1]
  BY PieceIs
<1>2. DOMAIN part = 1 .. Len(part) /\ Len(part) \in Nat /\ Len(w) \in Nat
  OBVIOUS
<1> HIDE DEF s
<1>3. CASE k + Len(part) - 1 <= j + 1 - i
  <2>1. \A n \in 1 .. Len(part) : s[k + n - 1] = w[i + k - 1 + n - 1]
    <3>1. SUFFICES ASSUME NEW n \in 1 .. Len(part) PROVE s[k + n - 1] = w[i + k - 1 + n - 1]
      OBVIOUS
    <3>2. k + n - 1 \in 1 .. j + 1 - i /\ i + (k + n - 1) - 1 = i + k - 1 + n - 1
      BY <1>2, <1>3
    <3>3. QED
      BY <1>1, <3>2
  <2>2. i + k - 1 + Len(part) - 1 <= j /\ i + k - 1 + Len(part) - 1 <= Len(w)
    BY <1>2, <1>3
  <2>3. IsAt(s, k, part) <=> \A n \in 1 .. Len(part) : s[k + n - 1] = part[n]
    BY <1>1, <1>2, <1>3 DEF IsAt
  <2>4. IsAt(w, i + k - 1, part) <=> \A n \in 1 .. Len(part) : w[i + k - 1 + n - 1] = part[n]
    BY <1>2, <2>2 DEF IsAt
  <2>5. QED
    BY <2>1, <2>2, <2>3, <2>4 DEF s
<1>4. CASE ~(k + Len(part) - 1 <= j + 1 - i)
  <2>1. ~IsAt(s, k, part)
    BY <1>1, <1>4 DEF IsAt
  <2>2. ~(i + k - 1 + Len(part) - 1 <= j)
    BY <1>2, <1>4
  <2>3. QED
    BY <2>1, <2>2 DEF s
<1>5. QED
  BY <1>3, <1>4

-----------------------------------------------------------------------------
(* What a text says *)

\* What the panel is told, and what the tabs show.
Events == {"text", "canvas"} \X Symbols
TabShows == [TabIds -> Payloads \cup {"none"}]

\* Where the fence that opens at a position closes, or 0, and what it holds.
CloseOf(text, i) == FirstOf({j \in i + 5 .. Len(text) : IsAt(text, j, Closing)})
JsonOf(text, i) == Normalized(SubSeq(text, i + 5, CloseOf(text, i) - 1))

\* What is read at a position, given what is read behind it.
ReadAt(text, read, i) ==
    [tabs \in TabShows |->
       CASE i > Len(text) -> <<>>
         [] i <= Len(text) /\ ~Opens(text, i) ->
               (IF text[i] = "n" THEN <<>> ELSE << <<"text", text[i]>> >>) \o read[i + 1][tabs]
         [] i <= Len(text) /\ Opens(text, i) /\ CloseOf(text, i) = 0 -> <<>>
         [] OTHER ->
               IF /\ Len(JsonOf(text, i)) = 1 /\ JsonOf(text, i)[1] \in Payloads
                  /\ tabs[TabOf[JsonOf(text, i)[1]]] # JsonOf(text, i)[1]
               THEN << <<"canvas", JsonOf(text, i)[1]>> >>
                      \o read[CloseOf(text, i) + 4]
                             [[tabs EXCEPT ![TabOf[JsonOf(text, i)[1]]] = JsonOf(text, i)[1]]]
               ELSE read[CloseOf(text, i) + 4][tabs]]

\* The function that Readings defines by recursion, from a position on.
Read(text, from, read) ==
    read = [i \in from .. Len(text) + 1 |-> ReadAt(text, read, i)]

LEMMA SymbolsAre ==
    /\ Closing \in Seq(Symbols) /\ Len(Closing) = 4
    /\ \A k \in 1 .. 2 : CanvasFencePrefixes[k] \in Seq(Symbols) /\ Len(CanvasFencePrefixes[k]) = 5
  BY DEF Closing, CanvasFencePrefixes, Symbols

\* A place is in the text, if there is one.
LEMMA CloseIs ==
    ASSUME NEW text \in Seq(Symbols), NEW i \in Nat \ {0}
    PROVE  /\ CloseOf(text, i) \in Nat
           /\ CloseOf(text, i) # 0 =>
                /\ CloseOf(text, i) \in i + 5 .. Len(text)
                /\ IsAt(text, CloseOf(text, i), Closing)
                /\ CloseOf(text, i) + 3 <= Len(text)
           /\ \A j \in Nat : IsAt(text, j, Closing) /\ i + 5 <= j =>
                /\ CloseOf(text, i) # 0
                /\ CloseOf(text, i) <= j
<1> DEFINE T == {j \in i + 5 .. Len(text) : IsAt(text, j, Closing)}
<1>1. T \subseteq Nat /\ 0 \notin T /\ CloseOf(text, i) = FirstOf(T)
  BY DEF CloseOf
<1>2. \A j \in Nat : IsAt(text, j, Closing) => j + 3 <= Len(text)
  BY SymbolsAre DEF IsAt
<1>3. \A j \in Nat : IsAt(text, j, Closing) /\ i + 5 <= j => j \in T
  BY <1>2, LenProperties
<1>4. \A j \in T : j \in i + 5 .. Len(text) /\ IsAt(text, j, Closing)
  OBVIOUS
<1> HIDE DEF T
<1>5. /\ T = {} => FirstOf(T) = 0
      /\ T # {} => FirstOf(T) \in T /\ \A j \in T : FirstOf(T) <= j
  BY <1>1, FirstOfIs
<1>6. CASE T = {}
  <2>1. CloseOf(text, i) = 0 /\ \A j \in Nat : ~(IsAt(text, j, Closing) /\ i + 5 <= j)
    BY <1>1, <1>3, <1>5, <1>6
  <2>2. QED
    BY <2>1
<1>7. CASE T # {}
  <2>1. CloseOf(text, i) \in T /\ \A j \in T : CloseOf(text, i) <= j
    BY <1>1, <1>5, <1>7
  <2>2. CloseOf(text, i) \in i + 5 .. Len(text) /\ IsAt(text, CloseOf(text, i), Closing)
    BY <1>4, <2>1
  <2>3. CloseOf(text, i) \in Nat /\ CloseOf(text, i) # 0
    BY <1>1, <2>1
  <2>4. CloseOf(text, i) + 3 <= Len(text)
    BY <1>2, <2>2, <2>3
  <2>5. QED
    BY <1>3, <2>1, <2>2, <2>3, <2>4
<1>8. QED
  BY <1>6, <1>7

\* What is read at a position depends on what is read behind it only.
LEMMA ReadBehind ==
    ASSUME NEW text \in Seq(Symbols), NEW i \in 1 .. Len(text) + 1, NEW f, NEW g,
           \A j \in i + 1 .. Len(text) + 1 : f[j] = g[j]
    PROVE  ReadAt(text, f, i) = ReadAt(text, g, i)
<1>1. Len(text) \in Nat
  OBVIOUS
<1>2. i <= Len(text) => f[i + 1] = g[i + 1]
  BY <1>1
<1>3. CloseOf(text, i) # 0 => f[CloseOf(text, i) + 4] = g[CloseOf(text, i) + 4]
  <2>1. CloseOf(text, i) # 0 => CloseOf(text, i) + 4 \in i + 1 .. Len(text) + 1
    <3>1. CloseOf(text, i) # 0 => CloseOf(text, i) \in i + 5 .. Len(text) - 3
      BY CloseIs
    <3>2. i \in Nat
      BY <1>1
    <3>3. QED
      BY <1>1, <3>1, <3>2
  <2>2. QED
    BY <2>1
<1> DEFINE at(h, tabs) ==
       CASE i > Len(text) -> <<>>
         [] i <= Len(text) /\ ~Opens(text, i) ->
               (IF text[i] = "n" THEN <<>> ELSE << <<"text", text[i]>> >>) \o h[i + 1][tabs]
         [] i <= Len(text) /\ Opens(text, i) /\ CloseOf(text, i) = 0 -> <<>>
         [] OTHER ->
               IF /\ Len(JsonOf(text, i)) = 1 /\ JsonOf(text, i)[1] \in Payloads
                  /\ tabs[TabOf[JsonOf(text, i)[1]]] # JsonOf(text, i)[1]
               THEN << <<"canvas", JsonOf(text, i)[1]>> >>
                      \o h[CloseOf(text, i) + 4]
                          [[tabs EXCEPT ![TabOf[JsonOf(text, i)[1]]] = JsonOf(text, i)[1]]]
               ELSE h[CloseOf(text, i) + 4][tabs]
<1>4. \A tabs : at(f, tabs) = at(g, tabs)
  <2>1. SUFFICES ASSUME NEW tabs PROVE at(f, tabs) = at(g, tabs)
    OBVIOUS
  <2>2. CASE i > Len(text)
    BY <1>1, <2>2
  <2>3. CASE i <= Len(text) /\ ~Opens(text, i)
    BY <1>1, <1>2, <2>3
  <2>4. CASE i <= Len(text) /\ Opens(text, i) /\ CloseOf(text, i) = 0
    BY <1>1, <2>4
  <2>5. CASE i <= Len(text) /\ Opens(text, i) /\ CloseOf(text, i) # 0
    BY <1>1, <1>3, <2>5
  <2>6. QED
    BY <1>1, <2>2, <2>3, <2>4, <2>5
<1> HIDE DEF at
<1>5. [tabs \in TabShows |-> at(f, tabs)] = [tabs \in TabShows |-> at(g, tabs)]
  BY <1>4
<1>6. QED
  BY <1>5 DEF at, ReadAt

LEMMA ReadExists ==
    ASSUME NEW text \in Seq(Symbols)
    PROVE  \A k \in Nat : k <= Len(text) => \E read : Read(text, Len(text) + 1 - k, read)
<1> DEFINE len == Len(text)
           N == {k \in Nat : k <= len => \E read : Read(text, len + 1 - k, read)}
<1>0. len \in Nat
  OBVIOUS
<1>1. 0 \in N
  <2> DEFINE none == [i \in len + 1 .. len + 1 |-> ReadAt(text, <<>>, i)]
  <2>1. ASSUME NEW i \in len + 1 .. len + 1 PROVE ReadAt(text, <<>>, i) = ReadAt(text, none, i)
    <3>1. i \in 1 .. Len(text) + 1 /\ \A j \in i + 1 .. Len(text) + 1 : FALSE
      BY <1>0
    <3> HIDE DEF none
    <3>2. QED
      BY <3>1, ReadBehind
  <2>2. none = [i \in len + 1 .. len + 1 |-> ReadAt(text, none, i)]
    <3> DEFINE again == [i \in len + 1 .. len + 1 |-> ReadAt(text, none, i)]
    <3>1. \A i \in len + 1 .. len + 1 : none[i] = again[i]
      <4>1. SUFFICES ASSUME NEW i \in len + 1 .. len + 1 PROVE none[i] = again[i]
        OBVIOUS
      <4>2. none[i] = ReadAt(text, <<>>, i)
        OBVIOUS
      <4>3. again[i] = ReadAt(text, none, i)
        OBVIOUS
      <4> HIDE DEF none, again
      <4>4. QED
        BY <2>1, <4>2, <4>3
    <3>2. DOMAIN none = len + 1 .. len + 1 /\ DOMAIN again = len + 1 .. len + 1
      OBVIOUS
    <3>3. none = [i \in DOMAIN none |-> none[i]] /\ again = [i \in DOMAIN again |-> again[i]]
      OBVIOUS
    <3> HIDE DEF none, again
    <3>4. none = again
      BY <3>1, <3>2, <3>3
    <3>5. QED
      BY <3>4 DEF again
  <2> HIDE DEF none
  <2>3. Read(text, len + 1, none)
    BY <2>2 DEF Read
  <2>4. len + 1 - 0 = len + 1
    BY <1>0
  <2>5. QED
    BY <2>3, <2>4
<1>2. ASSUME NEW k \in Nat, k \in N PROVE k + 1 \in N
  <2>1. SUFFICES ASSUME k + 1 <= len PROVE \E read : Read(text, len + 1 - (k + 1), read)
    OBVIOUS
  <2> DEFINE m == len + 1 - (k + 1)
  <2>2. m \in 1 .. len /\ m + 1 = len + 1 - k /\ m \in Nat
    BY <1>0, <2>1
  <2>3. PICK read : Read(text, m + 1, read)
    BY <1>2, <2>1, <2>2
  <2> HIDE DEF m
  <2> DEFINE more == [i \in m .. len + 1 |-> IF i = m THEN ReadAt(text, read, i) ELSE read[i]]
             again == [i \in m .. len + 1 |-> ReadAt(text, more, i)]
  <2>4. \A i \in m .. len + 1 : more[i] = ReadAt(text, read, i)
    <3>1. SUFFICES ASSUME NEW i \in m .. len + 1 PROVE more[i] = ReadAt(text, read, i)
      OBVIOUS
    <3>2. CASE i = m
      BY <3>2
    <3>3. CASE i # m
      <4>1. i \in m + 1 .. len + 1
        BY <1>0, <2>2, <3>3
      <4>2. read[i] = ReadAt(text, read, i)
        BY <2>3, <4>1 DEF Read
      <4>3. QED
        BY <3>3, <4>2
    <3>4. QED
      BY <3>2, <3>3
  <2>5. \A j \in m + 1 .. len + 1 : read[j] = more[j]
    BY <1>0, <2>2
  <2>6. \A i \in m .. len + 1 : again[i] = ReadAt(text, more, i)
    OBVIOUS
  <2>7. DOMAIN more = m .. len + 1 /\ DOMAIN again = m .. len + 1
    OBVIOUS
  <2>8. more = [i \in DOMAIN more |-> more[i]] /\ again = [i \in DOMAIN again |-> again[i]]
    OBVIOUS
  <2> HIDE DEF more
  <2>9. \A i \in m .. len + 1 : more[i] = again[i]
    <3>1. SUFFICES ASSUME NEW i \in m .. len + 1 PROVE more[i] = again[i]
      OBVIOUS
    <3>2. i \in 1 .. len + 1 /\ \A j \in i + 1 .. len + 1 : read[j] = more[j]
      BY <1>0, <2>2, <2>5
    <3>3. ReadAt(text, read, i) = ReadAt(text, more, i)
      BY <3>2, ReadBehind
    <3> HIDE DEF again
    <3>4. QED
      BY <2>4, <2>6, <3>3
  <2>10. more = again
    <3> HIDE DEF again
    <3>1. QED
      BY <2>7, <2>8, <2>9
  <2>11. Read(text, m, more)
    BY <2>10 DEF Read
  <2>12. QED
    BY <2>11 DEF m
<1>3. \A k \in Nat : k \in N
  <2> HIDE DEF N
  <2>1. QED
    BY <1>1, <1>2, Induction
<1>4. QED
  BY <1>3

LEMMA ReadingsAre ==
    ASSUME NEW text \in Seq(Symbols)
    PROVE  \A i \in 1 .. Len(text) + 1 : Readings(text)[i] = ReadAt(text, Readings(text), i)
<1>1. PICK read : Read(text, 1, read)
  <2>1. Len(text) \in Nat /\ Len(text) <= Len(text) /\ Len(text) + 1 - Len(text) = 1
    BY LenProperties
  <2>2. QED
    BY <2>1, ReadExists
<1>2. Readings(text) = CHOOSE f : Read(text, 1, f)
  BY DEF Readings, Read, ReadAt, TabShows, CloseOf, JsonOf
<1>3. Read(text, 1, Readings(text))
  BY <1>1, <1>2
<1>4. QED
  BY <1>3 DEF Read

\* What is read from a position on.
Said(text, i, tabs) == Readings(text)[i][tabs]

\* A canvas is shown unless its tab shows it already.
Changes(tabs, json) ==
    Len(json) = 1 /\ json[1] \in Payloads /\ tabs[TabOf[json[1]]] # json[1]
Showing(tabs, json) ==
    IF Changes(tabs, json) THEN [tabs EXCEPT ![TabOf[json[1]]] = json[1]] ELSE tabs
Canvas(tabs, json) ==
    IF Changes(tabs, json) THEN << <<"canvas", json[1]>> >> ELSE <<>>

LEMMA ShowingIs ==
    ASSUME NEW tabs \in TabShows, NEW json
    PROVE  Showing(tabs, json) \in TabShows /\ Canvas(tabs, json) \in Seq(Events)
<1>1. CASE Changes(tabs, json)
  <2>1. TabOf[json[1]] \in TabIds /\ json[1] \in Payloads
    BY <1>1 DEF Changes, TabIds
  <2>2. Showing(tabs, json) = [tabs EXCEPT ![TabOf[json[1]]] = json[1]]
    BY <1>1 DEF Showing
  <2>3. [tabs EXCEPT ![TabOf[json[1]]] = json[1]] \in TabShows
    BY <2>1 DEF TabShows
  <2>4. <<"canvas", json[1]>> \in Events
    BY <2>1 DEF Events, Symbols
  <2>5. QED
    BY <1>1, <2>2, <2>3, <2>4 DEF Canvas
<1>2. CASE ~Changes(tabs, json)
  BY <1>2 DEF Showing, Canvas
<1>3. QED
  BY <1>1, <1>2

\* The end of a text says nothing, and an opening that does not close neither;
\* a symbol is said, unless it is a line break; a fence says its canvas.
LEMMA SaidIs ==
    ASSUME NEW text \in Seq(Symbols), NEW tabs \in TabShows
    PROVE  /\ Said(text, Len(text) + 1, tabs) = <<>>
           /\ \A i \in 1 .. Len(text) :
                /\ ~Opens(text, i) =>
                      Said(text, i, tabs)
                        = (IF text[i] = "n" THEN <<>> ELSE << <<"text", text[i]>> >>)
                            \o Said(text, i + 1, tabs)
                /\ Opens(text, i) /\ CloseOf(text, i) = 0 => Said(text, i, tabs) = <<>>
                /\ Opens(text, i) /\ CloseOf(text, i) # 0 =>
                      Said(text, i, tabs)
                        = IF Changes(tabs, JsonOf(text, i))
                          THEN Canvas(tabs, JsonOf(text, i))
                                 \o Said(text, CloseOf(text, i) + 4, Showing(tabs, JsonOf(text, i)))
                          ELSE Said(text, CloseOf(text, i) + 4, tabs)
<1>1. Len(text) \in Nat
  OBVIOUS
<1>2. Said(text, Len(text) + 1, tabs) = <<>>
  <2>1. Len(text) + 1 \in 1 .. Len(text) + 1 /\ Len(text) + 1 > Len(text)
    BY <1>1
  <2>2. Said(text, Len(text) + 1, tabs) = ReadAt(text, Readings(text), Len(text) + 1)[tabs]
    BY <2>1, ReadingsAre DEF Said
  <2>3. QED
    BY <1>1, <2>1, <2>2 DEF ReadAt
<1>3. ASSUME NEW i \in 1 .. Len(text)
      PROVE  /\ ~Opens(text, i) =>
                   Said(text, i, tabs)
                     = (IF text[i] = "n" THEN <<>> ELSE << <<"text", text[i]>> >>)
                         \o Said(text, i + 1, tabs)
             /\ Opens(text, i) /\ CloseOf(text, i) = 0 => Said(text, i, tabs) = <<>>
             /\ Opens(text, i) /\ CloseOf(text, i) # 0 =>
                   Said(text, i, tabs)
                     = IF Changes(tabs, JsonOf(text, i))
                       THEN Canvas(tabs, JsonOf(text, i))
                              \o Said(text, CloseOf(text, i) + 4, Showing(tabs, JsonOf(text, i)))
                       ELSE Said(text, CloseOf(text, i) + 4, tabs)
  <2>1. i \in 1 .. Len(text) + 1 /\ i <= Len(text) /\ ~(i > Len(text))
    BY <1>1
  <2>2. Said(text, i, tabs) = ReadAt(text, Readings(text), i)[tabs]
    BY <2>1, ReadingsAre DEF Said
  <2>3. CASE ~Opens(text, i)
    BY <2>1, <2>2, <2>3 DEF ReadAt, Said
  <2>4. CASE Opens(text, i) /\ CloseOf(text, i) = 0
    BY <2>1, <2>2, <2>4 DEF ReadAt
  <2>5. CASE Opens(text, i) /\ CloseOf(text, i) # 0
    BY <2>1, <2>2, <2>5 DEF ReadAt, Said, Changes, Canvas, Showing
  <2>6. QED
    BY <2>3, <2>4, <2>5
<1>4. QED
  BY <1>2, <1>3

\* It is a sequence of events.
LEMMA SaidIsText ==
    ASSUME NEW text \in Seq(Symbols)
    PROVE  \A i \in 1 .. Len(text) + 1 : \A tabs \in TabShows : Said(text, i, tabs) \in Seq(Events)
<1> DEFINE len == Len(text)
           Good(i) == \A tabs \in TabShows : Said(text, i, tabs) \in Seq(Events)
           N == {k \in Nat : k <= len => \A i \in len + 1 - k .. len + 1 : Good(i)}
<1>0. len \in Nat
  OBVIOUS
<1>1. 0 \in N
  <2>1. Good(len + 1)
    <3>1. SUFFICES ASSUME NEW tabs \in TabShows PROVE Said(text, len + 1, tabs) \in Seq(Events)
      OBVIOUS
    <3>2. Said(text, len + 1, tabs) = <<>>
      BY SaidIs
    <3>3. <<>> \in Seq(Events)
      OBVIOUS
    <3>4. QED
      BY <3>2, <3>3
  <2>2. \A i \in len + 1 - 0 .. len + 1 : i = len + 1
    BY <1>0
  <2> HIDE DEF Good
  <2>3. QED
    BY <2>1, <2>2
<1>2. ASSUME NEW k \in Nat, k \in N PROVE k + 1 \in N
  <2>1. SUFFICES ASSUME k + 1 <= len PROVE \A i \in len + 1 - (k + 1) .. len + 1 : Good(i)
    OBVIOUS
  <2> DEFINE m == len + 1 - (k + 1)
  <2>2. m \in 1 .. len /\ m + 1 = len + 1 - k /\ m \in Nat \ {0}
    BY <1>0, <2>1
  <2>3. \A i \in m + 1 .. len + 1 : Good(i)
    BY <1>2, <2>1, <2>2
  <2> HIDE DEF m
  <2>4. ASSUME NEW tabs \in TabShows PROVE Said(text, m, tabs) \in Seq(Events)
    <3>1. CASE ~Opens(text, m)
      <4>1. Said(text, m + 1, tabs) \in Seq(Events)
        BY <1>0, <2>2, <2>3
      <4> DEFINE head == IF text[m] = "n" THEN <<>> ELSE << <<"text", text[m]>> >>
      <4>2. head \in Seq(Events)
        <5>1. text[m] \in Symbols
          BY <2>2, ElementOfSeq
        <5>2. <<"text", text[m]>> \in Events
          BY <5>1 DEF Events
        <5>3. QED
          BY <5>2
      <4>3. Said(text, m, tabs) = head \o Said(text, m + 1, tabs)
        BY <2>2, <3>1, SaidIs
      <4> HIDE DEF head
      <4>4. QED
        BY <4>1, <4>2, <4>3, ConcatProperties
    <3>2. CASE Opens(text, m) /\ CloseOf(text, m) = 0
      <4>1. Said(text, m, tabs) = <<>>
        BY <2>2, <3>2, SaidIs
      <4>2. QED
        BY <4>1
    <3>3. CASE Opens(text, m) /\ CloseOf(text, m) # 0
      <4> DEFINE next == CloseOf(text, m) + 4
      <4>1. next \in m + 1 .. len + 1
        <5> DEFINE close == CloseOf(text, m)
        <5>1. close \in Nat /\ close \in m + 5 .. len /\ close + 3 <= len
          BY <2>2, <3>3, CloseIs
        <5> HIDE DEF close, len
        <5>2. QED
          BY <1>0, <2>2, <5>1 DEF close
      <4>2. \A shown \in TabShows : Said(text, next, shown) \in Seq(Events)
        BY <2>3, <4>1
      <4>3. /\ Showing(tabs, JsonOf(text, m)) \in TabShows
            /\ Canvas(tabs, JsonOf(text, m)) \in Seq(Events)
        BY ShowingIs
      <4>4. Said(text, m, tabs)
              = IF Changes(tabs, JsonOf(text, m))
                THEN Canvas(tabs, JsonOf(text, m))
                       \o Said(text, next, Showing(tabs, JsonOf(text, m)))
                ELSE Said(text, next, tabs)
        BY <2>2, <3>3, SaidIs
      <4> HIDE DEF next
      <4>5. /\ Said(text, next, tabs) \in Seq(Events)
            /\ Said(text, next, Showing(tabs, JsonOf(text, m))) \in Seq(Events)
        BY <4>2, <4>3
      <4>6. Canvas(tabs, JsonOf(text, m)) \o Said(text, next, Showing(tabs, JsonOf(text, m)))
              \in Seq(Events)
        BY <4>3, <4>5, ConcatProperties
      <4>7. QED
        BY <4>4, <4>5, <4>6
    <3>4. QED
      BY <3>1, <3>2, <3>3
  <2>5. Good(m)
    BY <2>4
  <2>6. \A i \in m .. len + 1 : i = m \/ i \in m + 1 .. len + 1
    BY <1>0, <2>2
  <2> HIDE DEF Good
  <2>7. QED
    BY <2>3, <2>5, <2>6 DEF m
<1>3. \A k \in Nat : k \in N
  <2> HIDE DEF N
  <2>1. QED
    BY <1>1, <1>2, Induction
<1>4. \A i \in 1 .. len + 1 : Good(i)
  <2>1. len \in N
    BY <1>0, <1>3
  <2>2. len + 1 - len = 1
    BY <1>0
  <2> HIDE DEF Good
  <2>3. QED
    BY <1>0, <2>1, <2>2
<1>5. QED
  BY <1>4

\* What a fence that closes says, in one.
LEMMA FenceSays ==
    ASSUME NEW text \in Seq(Symbols), NEW tabs \in TabShows, NEW i \in 1 .. Len(text),
           Opens(text, i), CloseOf(text, i) # 0
    PROVE  /\ CloseOf(text, i) + 4 \in 1 .. Len(text) + 1
           /\ Said(text, i, tabs)
                = Canvas(tabs, JsonOf(text, i))
                    \o Said(text, CloseOf(text, i) + 4, Showing(tabs, JsonOf(text, i)))
<1> DEFINE close == CloseOf(text, i)
           next == close + 4
           json == JsonOf(text, i)
<1>1. next \in 1 .. Len(text) + 1
  <2>1. close \in Nat /\ close + 3 <= Len(text) /\ Len(text) \in Nat
    BY CloseIs, LenProperties
  <2> HIDE DEF close
  <2>2. QED
    BY <2>1
<1>2. Said(text, i, tabs)
        = IF Changes(tabs, json) THEN Canvas(tabs, json) \o Said(text, next, Showing(tabs, json))
                                 ELSE Said(text, next, tabs)
  BY SaidIs
<1> HIDE DEF close, next, json
<1>3. CASE Changes(tabs, json)
  BY <1>1, <1>2, <1>3 DEF next, close, json
<1>4. CASE ~Changes(tabs, json)
  <2>1. Canvas(tabs, json) = <<>> /\ Showing(tabs, json) = tabs
    BY <1>4 DEF Canvas, Showing
  <2>2. Said(text, next, tabs) \in Seq(Events)
    BY <1>1, SaidIsText
  <2>3. <<>> \o Said(text, next, tabs) = Said(text, next, tabs)
    BY <2>2, ConcatEmptySeq
  <2>4. Said(text, i, tabs) = Canvas(tabs, json) \o Said(text, next, Showing(tabs, json))
    BY <1>2, <1>4, <2>1, <2>3
  <2>5. QED
    BY <1>1, <2>4 DEF next, close, json
<1>5. QED
  BY <1>3, <1>4

-----------------------------------------------------------------------------
(* What the interceptor writes, without the line breaks *)

LEMMA AsTextIs ==
    ASSUME NEW s \in Seq(Symbols)
    PROVE  /\ AsText(s) \in Seq(Events) /\ Len(AsText(s)) = Len(s)
           /\ \A i \in 1 .. Len(s) : AsText(s)[i] = <<"text", s[i]>>
<1>1. Len(s) \in Nat /\ DOMAIN s = 1 .. Len(s) /\ \A i \in 1 .. Len(s) : s[i] \in Symbols
  BY ElementOfSeq
<1>2. AsText(s) = [i \in 1 .. Len(s) |-> <<"text", s[i]>>]
  BY <1>1 DEF AsText
<1>3. \A i \in 1 .. Len(s) : <<"text", s[i]>> \in Events
  BY <1>1 DEF Events
<1>4. QED
  BY <1>1, <1>2, <1>3

LEMMA WithoutBreaksIs ==
    /\ \A events \in Seq(Events) : WithoutBreaks(events) \in Seq(Events)
    /\ \A events, more \in Seq(Events) :
         WithoutBreaks(events \o more) = WithoutBreaks(events) \o WithoutBreaks(more)
    /\ WithoutBreaks(<<>>) = <<>>
<1>1. \A events \in Seq(Events) : WithoutBreaks(events) \in Seq(Events)
  <2>1. SUFFICES ASSUME NEW events \in Seq(Events) PROVE WithoutBreaks(events) \in Seq(Events)
    OBVIOUS
  <2>2. WithoutBreaks(events) \in Seq(Events \ {<<"text", "n">>})
    BY WithoutFacts DEF WithoutBreaks
  <2>3. QED
    BY <2>2, SeqMonotonic
<1>2. \A events, more \in Seq(Events) :
        WithoutBreaks(events \o more) = WithoutBreaks(events) \o WithoutBreaks(more)
  BY WithoutOfBoth DEF WithoutBreaks
<1>3. WithoutBreaks(<<>>) = <<>>
  BY WithoutOfEmpty DEF WithoutBreaks
<1>4. QED
  BY <1>1, <1>2, <1>3

\* One symbol more.
LEMMA OneMore ==
    ASSUME NEW s \in Seq(Symbols), NEW x \in Symbols
    PROVE  WithoutBreaks(AsText(Append(s, x)))
             = WithoutBreaks(AsText(s)) \o (IF x = "n" THEN <<>> ELSE << <<"text", x>> >>)
<1> DEFINE t == Append(s, x)
           event == <<"text", x>>
<1>1. t \in Seq(Symbols) /\ Len(t) = Len(s) + 1 /\ t[Len(s) + 1] = x /\ \A i \in 1 .. Len(s) : t[i] = s[i]
  BY AppendProperties
<1>2. event \in Events /\ AsText(s) \in Seq(Events)
  BY AsTextIs DEF Events
<1>3. AsText(t) = Append(AsText(s), event)
  <2>1. /\ AsText(t) \in Seq(Events) /\ Len(AsText(t)) = Len(s) + 1
        /\ \A i \in 1 .. Len(s) + 1 : AsText(t)[i] = <<"text", t[i]>>
    BY <1>1, AsTextIs
  <2>2. /\ Len(AsText(s)) = Len(s) /\ Len(s) \in Nat
        /\ \A i \in 1 .. Len(s) : AsText(s)[i] = <<"text", s[i]>>
    BY AsTextIs, LenProperties
  <2>3. /\ Append(AsText(s), event) \in Seq(Events) /\ Len(Append(AsText(s), event)) = Len(s) + 1
        /\ Append(AsText(s), event)[Len(s) + 1] = event
        /\ \A i \in 1 .. Len(s) : Append(AsText(s), event)[i] = AsText(s)[i]
    BY <1>2, <2>2, AppendProperties
  <2> HIDE DEF t
  <2>4. \A i \in 1 .. Len(s) + 1 : AsText(t)[i] = Append(AsText(s), event)[i]
    <3>1. SUFFICES ASSUME NEW i \in 1 .. Len(s) + 1
                   PROVE  AsText(t)[i] = Append(AsText(s), event)[i]
      OBVIOUS
    <3>2. CASE i = Len(s) + 1
      BY <1>1, <2>1, <2>3, <3>2
    <3>3. CASE i # Len(s) + 1
      <4>1. i \in 1 .. Len(s)
        BY <2>2, <3>3
      <4>2. QED
        BY <1>1, <2>1, <2>2, <2>3, <4>1
    <3>4. QED
      BY <3>2, <3>3
  <2>5. QED
    BY <2>1, <2>3, <2>4, SeqEqual
<1>4. event \in {<<"text", "n">>} <=> x = "n"
  OBVIOUS
<1> HIDE DEF event, t
<1>5. WithoutBreaks(AsText(t))
        = IF x = "n" THEN WithoutBreaks(AsText(s)) ELSE Append(WithoutBreaks(AsText(s)), event)
  BY <1>2, <1>3, <1>4, WithoutOfAppend DEF WithoutBreaks
<1>6. WithoutBreaks(AsText(s)) \in Seq(Events)
  BY <1>2, WithoutBreaksIs
<1>7. CASE x = "n"
  BY <1>5, <1>6, <1>7, ConcatEmptySeq DEF t
<1>8. CASE x # "n"
  BY <1>2, <1>5, <1>6, <1>8, AppendIsConcat DEF t, event
<1>9. QED
  BY <1>7, <1>8

\* Up to an opening the text is said as it is written.
LEMMA SaidAsWritten ==
    ASSUME NEW text \in Seq(Symbols), NEW tabs \in TabShows, NEW i \in 1 .. Len(text) + 1
    PROVE  \A k \in Nat :
             i + k <= Len(text) + 1 /\ (\A j \in i .. i + k - 1 : ~Opens(text, j)) =>
               Said(text, i, tabs)
                 = WithoutBreaks(AsText(SubSeq(text, i, i + k - 1))) \o Said(text, i + k, tabs)
<1> DEFINE Piece(k) == WithoutBreaks(AsText(SubSeq(text, i, i + k - 1)))
           Quiet(k) == i + k <= Len(text) + 1 /\ \A j \in i .. i + k - 1 : ~Opens(text, j)
           N == {k \in Nat : Quiet(k) => Said(text, i, tabs) = Piece(k) \o Said(text, i + k, tabs)}
<1>0. Len(text) \in Nat
  OBVIOUS
<1>1. 0 \in N
  <2>1. SubSeq(text, i, i + 0 - 1) = <<>> /\ i + 0 = i
    BY <1>0, SubSeqEmpty
  <2>2. AsText(<<>>) = <<>>
    <3>1. <<>> \in Seq(Symbols) /\ Len(<<>>) = 0
      OBVIOUS
    <3>2. AsText(<<>>) \in Seq(Events) /\ Len(AsText(<<>>)) = 0
      BY <3>1, AsTextIs
    <3>3. QED
      BY <3>2, EmptySeq
  <2>3. Piece(0) = <<>>
    BY <2>1, <2>2, WithoutBreaksIs
  <2>4. Said(text, i, tabs) \in Seq(Events)
    BY SaidIsText
  <2> HIDE DEF Piece
  <2>5. Said(text, i, tabs) = Piece(0) \o Said(text, i + 0, tabs)
    BY <2>1, <2>3, <2>4, ConcatEmptySeq
  <2>6. QED
    BY <2>5
<1>2. ASSUME NEW k \in Nat, k \in N PROVE k + 1 \in N
  <2>1. SUFFICES ASSUME Quiet(k + 1)
                 PROVE  Said(text, i, tabs) = Piece(k + 1) \o Said(text, i + (k + 1), tabs)
    OBVIOUS
  <2> DEFINE m == i + k
             head == IF text[m] = "n" THEN <<>> ELSE << <<"text", text[m]>> >>
  <2>2. m \in 1 .. Len(text) /\ i + (k + 1) = m + 1 /\ i + (k + 1) - 1 = m
    BY <1>0, <2>1
  <2>3. Quiet(k) /\ ~Opens(text, m)
    <3>1. i + k <= Len(text) + 1 /\ m \in i .. i + (k + 1) - 1
      BY <1>0, <2>1
    <3>2. \A j \in i .. i + k - 1 : j \in i .. i + (k + 1) - 1
      BY <1>0
    <3>3. QED
      BY <2>1, <3>1, <3>2
  <2>4. Said(text, i, tabs) = Piece(k) \o Said(text, m, tabs)
    BY <1>2, <2>3
  <2> DEFINE s == SubSeq(text, i, m - 1)
  <2>5. s \in Seq(Symbols) /\ text[m] \in Symbols
    BY <1>0, <2>2, PieceIs, ElementOfSeq
  <2>6. SubSeq(text, i, m) = Append(s, text[m])
    <3>1. i \in Int /\ m \in Int /\ i <= m /\ \A j \in i .. m : text[j] \in Symbols
      BY <1>0, <2>2, ElementOfSeq
    <3>2. QED
      BY <3>1, SubSeqRecursiveSecond
  <2> HIDE DEF m
  <2>7. Said(text, m, tabs) = head \o Said(text, m + 1, tabs)
    BY <2>2, <2>3, SaidIs
  <2>8. WithoutBreaks(AsText(Append(s, text[m]))) = WithoutBreaks(AsText(s)) \o head
    BY <2>5, OneMore
  <2>9. Piece(k) = WithoutBreaks(AsText(s))
    BY DEF m
  <2>10. Piece(k + 1) = Piece(k) \o head
    <3>1. Piece(k + 1) = WithoutBreaks(AsText(SubSeq(text, i, m)))
      BY <2>2
    <3> HIDE DEF Piece, s, head
    <3>2. QED
      BY <2>6, <2>8, <2>9, <3>1
  <2> HIDE DEF s, Piece
  <2>11. Piece(k) \in Seq(Events) /\ head \in Seq(Events) /\ Said(text, m + 1, tabs) \in Seq(Events)
    <3>1. Piece(k) \in Seq(Events)
      BY <2>5, <2>9, AsTextIs, WithoutBreaksIs
    <3>2. <<"text", text[m]>> \in Events
      BY <2>5 DEF Events
    <3>3. head \in Seq(Events)
      BY <3>2
    <3>4. m + 1 \in 1 .. Len(text) + 1
      BY <1>0, <2>2
    <3>5. Said(text, m + 1, tabs) \in Seq(Events)
      BY <3>4, SaidIsText
    <3>6. QED
      BY <3>1, <3>3, <3>5
  <2> HIDE DEF head
  <2>12. (Piece(k) \o head) \o Said(text, m + 1, tabs) = Piece(k) \o (head \o Said(text, m + 1, tabs))
    BY <2>11, ConcatAssociative, SMTT(30)
  <2>13. QED
    BY <2>2, <2>4, <2>7, <2>10, <2>12
<1>3. \A k \in Nat : k \in N
  <2> HIDE DEF N
  <2>1. QED
    BY <1>1, <1>2, Induction
<1>4. QED
  BY <1>3

\* Line breaks are skipped.
LEMMA BreaksSayNothing ==
    ASSUME NEW text \in Seq(Symbols), NEW tabs \in TabShows, NEW i \in 1 .. Len(text) + 1,
           NEW k \in i .. Len(text) + 1, \A j \in i .. k - 1 : text[j] = "n"
    PROVE  Said(text, i, tabs) = Said(text, k, tabs)
<1> DEFINE s == SubSeq(text, i, k - 1)
           break == <<"text", "n">>
<1>0. Len(text) \in Nat
  OBVIOUS
<1>1. \A j \in i .. i + (k - i) - 1 : ~Opens(text, j)
  <2>1. SUFFICES ASSUME NEW j \in i .. i + (k - i) - 1, Opens(text, j) PROVE FALSE
    OBVIOUS
  <2>2. text[j] = "n" /\ j + 1 - 1 = j
    BY <1>0
  <2>3. text[j + 1 - 1] = "t"
    BY <2>1, SMTT(30) DEF Opens, IsAt, CanvasFencePrefixes
  <2>4. QED
    BY <2>2, <2>3
<1>2. Said(text, i, tabs) = WithoutBreaks(AsText(s)) \o Said(text, k, tabs)
  <2>1. k - i \in Nat /\ i + (k - i) = k /\ k <= Len(text) + 1 /\ i + (k - i) - 1 = k - 1
    BY <1>0
  <2>2. QED
    BY <1>1, <2>1, SaidAsWritten
<1>3. WithoutBreaks(AsText(s)) = <<>>
  <2>1. s \in Seq(Symbols) /\ Len(s) = k - i /\ \A j \in 1 .. k - i : s[j] = text[i + j - 1]
    <3>1. i \in Nat \ {0} /\ k - 1 \in Nat /\ i <= k - 1 + 1 /\ k - 1 <= Len(text) /\ k - 1 + 1 - i = k - i
      BY <1>0
    <3>2. QED
      BY <3>1, PieceIs
  <2>2. \A j \in 1 .. k - i : s[j] = "n"
    <3>1. SUFFICES ASSUME NEW j \in 1 .. k - i PROVE s[j] = "n"
      OBVIOUS
    <3>2. i + j - 1 \in i .. k - 1
      BY <1>0
    <3>3. QED
      BY <2>1, <3>2
  <2> DEFINE events == AsText(s)
  <2> HIDE DEF s
  <2>3. /\ events \in Seq(Events) /\ Len(events) = Len(s)
        /\ \A j \in 1 .. Len(s) : events[j] = <<"text", s[j]>>
    BY <2>1, AsTextIs
  <2> HIDE DEF events
  <2>4. AsText(s) \in Seq({break})
    <3>1. \A j \in 1 .. Len(events) : events[j] \in {break}
      BY <2>1, <2>2, <2>3
    <3>2. Len(events) \in Nat /\ events = [j \in 1 .. Len(events) |-> events[j]]
      BY <2>3
    <3> HIDE DEF break
    <3>3. events \in Seq({break})
      BY <3>1, <3>2
    <3>4. QED
      BY <3>3 DEF events
  <2>5. WithoutBreaks(AsText(s)) \in Seq({break} \ {<<"text", "n">>})
    BY <2>4, WithoutFacts DEF WithoutBreaks
  <2>6. {break} \ {<<"text", "n">>} = {}
    OBVIOUS
  <2>7. QED
    BY <2>5, <2>6, EmptySeq
<1>4. Said(text, k, tabs) \in Seq(Events)
  <2>1. k \in 1 .. Len(text) + 1
    BY <1>0
  <2>2. QED
    BY <2>1, SaidIsText
<1>5. QED
  BY <1>2, <1>3, <1>4, ConcatEmptySeq

-----------------------------------------------------------------------------
(* Where a text has a part *)

\* The first place, or 0.
LEMMA IndexIs ==
    ASSUME NEW text \in Seq(Symbols), NEW part \in Seq(Symbols), Len(part) > 0
    PROVE  /\ IndexOf(text, part) \in Nat
           /\ IndexOf(text, part) # 0 => IsAt(text, IndexOf(text, part), part)
           /\ \A i \in Nat \ {0} :
                IsAt(text, i, part) => IndexOf(text, part) # 0 /\ IndexOf(text, part) <= i
<1> DEFINE T == {i \in DOMAIN text : IsAt(text, i, part)}
<1>1. Len(text) \in Nat /\ DOMAIN text = 1 .. Len(text) /\ Len(part) \in Nat
  OBVIOUS
<1>2. T \subseteq Nat /\ 0 \notin T /\ IndexOf(text, part) = FirstOf(T)
  BY <1>1 DEF IndexOf
<1>3. \A i \in Nat \ {0} : IsAt(text, i, part) => i \in T
  <2>1. SUFFICES ASSUME NEW i \in Nat \ {0}, IsAt(text, i, part) PROVE i \in DOMAIN text
    OBVIOUS
  <2>2. i + Len(part) - 1 <= Len(text)
    BY <2>1 DEF IsAt
  <2>3. QED
    BY <1>1, <2>2
<1>4. \A i \in T : IsAt(text, i, part)
  OBVIOUS
<1> HIDE DEF T
<1>5. /\ T = {} => FirstOf(T) = 0
      /\ T # {} => FirstOf(T) \in T /\ \A j \in T : FirstOf(T) <= j
  BY <1>2, FirstOfIs
<1>6. CASE T = {}
  BY <1>2, <1>3, <1>5, <1>6
<1>7. CASE T # {}
  <2>1. IndexOf(text, part) \in T /\ \A j \in T : IndexOf(text, part) <= j
    BY <1>2, <1>5, <1>7
  <2>2. IndexOf(text, part) \in Nat /\ IndexOf(text, part) # 0
    BY <1>2, <2>1
  <2>3. QED
    BY <1>3, <1>4, <2>1, <2>2
<1>8. QED
  BY <1>6, <1>7

\* The first place in what is held of a text, in terms of the text.
LEMMA IndexInPiece ==
    ASSUME NEW w \in Seq(Symbols), NEW i \in Nat \ {0}, NEW m \in Nat,
           i <= m + 1, m <= Len(w), NEW part \in Seq(Symbols), Len(part) > 0
    PROVE  LET at == IndexOf(SubSeq(w, i, m), part) IN
           /\ at \in Nat
           /\ at # 0 => /\ IsAt(w, i + at - 1, part) /\ i + at - 1 + Len(part) - 1 <= m
                        /\ i + at - 1 \in Nat \ {0} /\ i <= i + at - 1
           /\ \A j \in Nat : i <= j /\ IsAt(w, j, part) /\ j + Len(part) - 1 <= m =>
                at # 0 /\ i + at - 1 <= j
<1> DEFINE s == SubSeq(w, i, m)
           at == IndexOf(s, part)
<1>1. s \in Seq(Symbols)
  BY PieceIs
<1>2. at \in Nat
  BY <1>1, IndexIs
<1>3. ASSUME at # 0
      PROVE  /\ IsAt(w, i + at - 1, part) /\ i + at - 1 + Len(part) - 1 <= m
             /\ i + at - 1 \in Nat \ {0} /\ i <= i + at - 1
  <2>1. IsAt(s, at, part) /\ at \in Nat \ {0}
    BY <1>1, <1>2, <1>3, IndexIs
  <2> HIDE DEF at
  <2>2. IsAt(w, i + at - 1, part) /\ i + at - 1 + Len(part) - 1 <= m
    BY <2>1, IsAtPiece
  <2>3. QED
    BY <2>1, <2>2
<1>4. ASSUME NEW j \in Nat, i <= j, IsAt(w, j, part), j + Len(part) - 1 <= m
      PROVE  at # 0 /\ i + at - 1 <= j
  <2>1. j + 1 - i \in Nat \ {0} /\ i + (j + 1 - i) - 1 = j
    BY <1>4
  <2>2. IsAt(s, j + 1 - i, part)
    BY <1>4, <2>1, IsAtPiece
  <2>3. at # 0 /\ at <= j + 1 - i
    BY <1>1, <2>1, <2>2, IndexIs
  <2> HIDE DEF at
  <2>4. QED
    BY <1>2, <2>3
<1> HIDE DEF at
<1>5. /\ at \in Nat
      /\ at # 0 => /\ IsAt(w, i + at - 1, part) /\ i + at - 1 + Len(part) - 1 <= m
                   /\ i + at - 1 \in Nat \ {0} /\ i <= i + at - 1
      /\ \A j \in Nat : i <= j /\ IsAt(w, j, part) /\ j + Len(part) - 1 <= m =>
           at # 0 /\ i + at - 1 <= j
  BY <1>2, <1>3, <1>4
<1>6. QED
  BY <1>5 DEF at

\* An opening, symbol by symbol.
LEMMA OpeningIs ==
    ASSUME NEW w \in Seq(Symbols), NEW i \in Nat \ {0}, Opens(w, i)
    PROVE  /\ i + 4 <= Len(w) /\ i \in DOMAIN w
           /\ w[i] = "t" /\ w[i + 1] = "t" /\ w[i + 2] = "t" /\ w[i + 3] = "c"
<1>1. PICK k \in 1 .. 2 : IsAt(w, i, CanvasFencePrefixes[k])
  BY DEF Opens
<1> DEFINE part == CanvasFencePrefixes[k]
<1>0. part \in Seq(Symbols) /\ Len(part) = 5 /\ DOMAIN part = 1 .. 5
  BY SymbolsAre
<1> HIDE DEF part
<1>2. i + 4 <= Len(w)
  <2>1. i + Len(part) - 1 <= Len(w)
    BY <1>1 DEF IsAt, part
  <2>2. QED
    BY <1>0, <2>1
<1>3. \A j \in 1 .. 5 : w[i + j - 1] = part[j]
  BY <1>0, <1>1 DEF IsAt, part
<1>4. w[i + 1 - 1] = "t" /\ w[i + 2 - 1] = "t" /\ w[i + 3 - 1] = "t" /\ w[i + 4 - 1] = "c"
  BY <1>3 DEF part, CanvasFencePrefixes
<1>5. i + 1 - 1 = i /\ i + 2 - 1 = i + 1 /\ i + 3 - 1 = i + 2 /\ i + 4 - 1 = i + 3
  OBVIOUS
<1>6. QED
  BY <1>2, <1>4, <1>5

\* The first symbols of a text.
Text(w, l) == SubSeq(w, 1, l)

\* What the beginning of a text has is what the text has there.
LEMMA BeginningIs ==
    ASSUME NEW w \in Seq(Symbols), NEW l \in Nat, l <= Len(w)
    PROVE  /\ Text(w, l) \in Seq(Symbols) /\ Len(Text(w, l)) = l
           /\ \A i \in 1 .. l : Text(w, l)[i] = w[i]
           /\ \A i \in Nat \ {0} :
                /\ Opens(Text(w, l), i) <=> Opens(w, i) /\ i + 4 <= l
                /\ IsAt(Text(w, l), i, Closing) <=> IsAt(w, i, Closing) /\ i + 3 <= l
           /\ \A i \in Nat \ {0}, j \in Nat :
                i <= j + 1 /\ j <= l => SubSeq(Text(w, l), i, j) = SubSeq(w, i, j)
<1>1. 1 \in Nat \ {0} /\ 1 <= l + 1 /\ l + 1 - 1 = l
  OBVIOUS
<1>2. /\ Text(w, l) \in Seq(Symbols) /\ Len(Text(w, l)) = l
      /\ \A i \in 1 .. l : Text(w, l)[i] = w[1 + i - 1]
  BY <1>1, PieceIs DEF Text
<1>3. \A part \in Seq(Symbols), i \in Nat \ {0} :
        IsAt(Text(w, l), i, part) <=> IsAt(w, 1 + i - 1, part) /\ 1 + i - 1 + Len(part) - 1 <= l
  BY <1>1, IsAtPiece DEF Text
<1>4. ASSUME NEW i \in Nat \ {0}
      PROVE  /\ Opens(Text(w, l), i) <=> Opens(w, i) /\ i + 4 <= l
             /\ IsAt(Text(w, l), i, Closing) <=> IsAt(w, i, Closing) /\ i + 3 <= l
  <2>1. 1 + i - 1 = i /\ i + 5 - 1 = i + 4 /\ i + 4 - 1 = i + 3
    OBVIOUS
  <2>2. \A k \in 1 .. 2 : IsAt(Text(w, l), i, CanvasFencePrefixes[k])
                            <=> IsAt(w, i, CanvasFencePrefixes[k]) /\ i + 4 <= l
    BY <1>3, <2>1, SymbolsAre
  <2>3. IsAt(Text(w, l), i, Closing) <=> IsAt(w, i, Closing) /\ i + 3 <= l
    BY <1>3, <2>1, SymbolsAre
  <2>4. QED
    BY <2>2, <2>3 DEF Opens
<1>5. ASSUME NEW i \in Nat \ {0}, NEW j \in Nat, i <= j + 1, j <= l
      PROVE  SubSeq(Text(w, l), i, j) = SubSeq(w, i, j)
  <2>1. j <= l + 1 - 1 /\ 1 + i - 1 = i /\ 1 + j - 1 = j
    BY <1>5
  <2>2. SubSeq(SubSeq(w, 1, l), i, j) = SubSeq(w, 1 + i - 1, 1 + j - 1)
    BY <1>1, <1>5, <2>1, PieceOfPiece
  <2>3. QED
    BY <2>1, <2>2 DEF Text
<1>6. \A i \in 1 .. l : Text(w, l)[i] = w[i]
  <2>1. \A i \in 1 .. l : 1 + i - 1 = i
    OBVIOUS
  <2>2. QED
    BY <1>2, <2>1
<1>7. QED
  BY <1>2, <1>4, <1>5, <1>6

-----------------------------------------------------------------------------
(* A pass *)

States == [buffer : Seq(Symbols), inside : BOOLEAN, lastValid : TabShows, out : Seq(Events)]

LEMMA ChangedStates ==
    ASSUME NEW s \in States
    PROVE  /\ \A b \in Seq(Symbols), i \in BOOLEAN :
                [s EXCEPT !.buffer = b, !.inside = i] \in States
           /\ \A b \in Seq(Symbols) : [s EXCEPT !.buffer = b] \in States
  BY DEF States

\* An event is appended, and the tab shows it, if its content is valid and new.
LEMMA EmitCanvasEventIs ==
    ASSUME NEW s \in States, NEW body \in Seq(Symbols)
    PROVE  LET json == Normalized(body)
               e == EmitCanvasEvent(s, body)
           IN  /\ e \in States /\ e.buffer = s.buffer /\ e.inside = s.inside
               /\ e.lastValid = Showing(s.lastValid, json)
               /\ e.out = s.out \o Canvas(s.lastValid, json)
<1> DEFINE json == Normalized(body)
           e == EmitCanvasEvent(s, body)
           x == json[1]
<1>1. s.lastValid \in TabShows /\ s.out \in Seq(Events)
  BY DEF States
<1>2. CASE Changes(s.lastValid, json)
  <2>1. e = [s EXCEPT !.lastValid[TabOf[x]] = x, !.out = Append(@, <<"canvas", x>>)]
    BY <1>2 DEF EmitCanvasEvent, Changes
  <2>2. /\ Showing(s.lastValid, json) = [s.lastValid EXCEPT ![TabOf[x]] = x]
        /\ Canvas(s.lastValid, json) = << <<"canvas", x>> >>
    BY <1>2 DEF Showing, Canvas
  <2>3. Showing(s.lastValid, json) \in TabShows /\ x \in Payloads
    BY <1>1, <1>2, ShowingIs DEF Changes
  <2>4. <<"canvas", x>> \in Events
    BY <2>3 DEF Events, Symbols
  <2> HIDE DEF x, json
  <2>5. /\ e.buffer = s.buffer /\ e.inside = s.inside
        /\ e.lastValid = Showing(s.lastValid, json)
        /\ e.out = Append(s.out, <<"canvas", x>>)
        /\ e = [buffer |-> e.buffer, inside |-> e.inside, lastValid |-> e.lastValid, out |-> e.out]
    BY <2>1, <2>2 DEF States
  <2> HIDE DEF e
  <2>6. Append(s.out, <<"canvas", x>>) = s.out \o Canvas(s.lastValid, json)
    BY <1>1, <2>2, <2>4, AppendIsConcat
  <2>7. e.out \in Seq(Events)
    BY <1>1, <2>4, <2>5, AppendProperties
  <2>8. e \in States
    BY <2>3, <2>5, <2>7 DEF States
  <2>9. QED
    BY <2>5, <2>6, <2>8 DEF e, json
<1>3. CASE ~Changes(s.lastValid, json)
  <2>1. e = s
    BY <1>3 DEF EmitCanvasEvent, Changes
  <2>2. Showing(s.lastValid, json) = s.lastValid /\ Canvas(s.lastValid, json) = <<>>
    BY <1>3 DEF Showing, Canvas
  <2>3. s.out \o <<>> = s.out
    BY <1>1, ConcatEmptySeq
  <2> HIDE DEF e, json
  <2>4. QED
    BY <2>1, <2>2, <2>3 DEF e, json
<1>4. QED
  BY <1>2, <1>3

LEMMA EmitTextIs ==
    ASSUME NEW s \in States, NEW text \in Seq(Symbols)
    PROVE  LET e == EmitText(s, text) IN
           /\ e \in States /\ e.buffer = s.buffer /\ e.inside = s.inside
           /\ e.lastValid = s.lastValid /\ e.out = s.out \o AsText(text)
           /\ WithoutBreaks(e.out) = WithoutBreaks(s.out) \o WithoutBreaks(AsText(text))
<1>1. s.out \in Seq(Events) /\ AsText(text) \in Seq(Events)
  BY AsTextIs DEF States
<1>2. s.out \o AsText(text) \in Seq(Events)
  BY <1>1, ConcatProperties
<1>3. EmitText(s, text) = [s EXCEPT !.out = s.out \o AsText(text)]
  BY DEF EmitText
<1>4. WithoutBreaks(s.out \o AsText(text)) = WithoutBreaks(s.out) \o WithoutBreaks(AsText(text))
  BY <1>1, WithoutBreaksIs
<1>5. QED
  BY <1>2, <1>3, <1>4 DEF States

\* Leading line breaks are dropped.
LEMMA TrimLeftIs ==
    ASSUME NEW w \in Seq(Symbols), NEW i \in Nat \ {0}, NEW m \in Nat, i <= m + 1, m <= Len(w)
    PROVE  \E k \in i .. m + 1 : /\ TrimLeft(SubSeq(w, i, m)) = SubSeq(w, k, m)
                                 /\ \A j \in i .. k - 1 : w[j] = "n"
<1> DEFINE s == SubSeq(w, i, m)
           T == {j \in DOMAIN s : s[j] # "n"}
           first == FirstOf(T)
<1>1. /\ s \in Seq(Symbols) /\ Len(s) = m + 1 - i /\ DOMAIN s = 1 .. m + 1 - i
      /\ \A j \in 1 .. m + 1 - i : s[j] = w[i + j - 1]
  BY PieceIs
<1>2. T \subseteq Nat /\ 0 \notin T
  BY <1>1
<1>3. /\ T = {} => first = 0
      /\ T # {} => first \in T /\ \A j \in T : first <= j
  <2> HIDE DEF T
  <2>1. QED
    BY <1>2, FirstOfIs
<1>4. TrimLeft(s) = IF first = 0 THEN <<>> ELSE SubSeq(s, first, Len(s))
  BY DEF TrimLeft, From
<1> HIDE DEF s, first
<1>5. CASE T = {}
  <2>1. m + 1 \in i .. m + 1 /\ SubSeq(w, m + 1, m) = <<>>
    BY SubSeqEmpty
  <2>2. \A j \in i .. m + 1 - 1 : w[j] = "n"
    <3>1. SUFFICES ASSUME NEW j \in i .. m + 1 - 1 PROVE w[j] = "n"
      OBVIOUS
    <3>2. j + 1 - i \in 1 .. m + 1 - i /\ i + (j + 1 - i) - 1 = j
      OBVIOUS
    <3>3. s[j + 1 - i] = "n"
      BY <1>1, <1>5, <3>2
    <3>4. QED
      BY <1>1, <3>2, <3>3
  <2>3. TrimLeft(s) = <<>>
    BY <1>3, <1>4, <1>5
  <2> DEFINE k == m + 1
  <2>4. /\ k \in i .. m + 1 /\ TrimLeft(SubSeq(w, i, m)) = SubSeq(w, k, m)
        /\ \A j \in i .. k - 1 : w[j] = "n"
    BY <2>1, <2>2, <2>3 DEF s
  <2> HIDE DEF k
  <2>5. QED
    BY <2>4
<1>6. CASE T # {}
  <2>1. first \in T /\ \A j \in T : first <= j
    BY <1>3, <1>6
  <2>2. first \in 1 .. m + 1 - i /\ first # 0 /\ first \in Nat \ {0}
    BY <1>1, <2>1
  <2> DEFINE k == i + first - 1
  <2>3. k \in i .. m + 1
    BY <2>2
  <2>4. SubSeq(s, first, Len(s)) = SubSeq(w, k, m)
    <3>1. first <= m + 1 - i + 1 /\ i + (m + 1 - i) - 1 = m /\ m + 1 - i \in Nat
      BY <2>2
    <3>2. SubSeq(SubSeq(w, i, m), first, m + 1 - i) = SubSeq(w, i + first - 1, i + (m + 1 - i) - 1)
      BY <2>2, <3>1, PieceOfPiece
    <3>3. QED
      BY <1>1, <3>1, <3>2 DEF s
  <2>5. \A j \in i .. k - 1 : w[j] = "n"
    <3>1. SUFFICES ASSUME NEW j \in i .. k - 1 PROVE w[j] = "n"
      OBVIOUS
    <3>2. j + 1 - i \in 1 .. m + 1 - i /\ i + (j + 1 - i) - 1 = j /\ ~(first <= j + 1 - i)
      BY <2>2
    <3>3. s[j + 1 - i] = "n"
      BY <1>1, <2>1, <3>2
    <3>4. QED
      BY <1>1, <3>2, <3>3
  <2> HIDE DEF k
  <2>6. QED
    BY <1>4, <2>2, <2>3, <2>4, <2>5 DEF s
<1>7. QED
  BY <1>5, <1>6

\* What a pass makes of a state is a state.
LEMMA PassIsState ==
    ASSUME NEW s \in States
    PROVE  Pass(s) \in States
<1>1. s.buffer \in Seq(Symbols) /\ Len(s.buffer) \in Nat
  BY DEF States
<1>2. \A i \in Int : From(s.buffer, i) = SubSeq(s.buffer, i, Len(s.buffer))
  BY DEF From
<1>a. \A text \in Seq(Symbols), i \in Nat \ {0}, j \in Nat :
        j <= Len(text) => SubSeq(text, i, j) \in Seq(Symbols)
  <2>1. SUFFICES ASSUME NEW text \in Seq(Symbols), NEW i \in Nat \ {0}, NEW j \in Nat, j <= Len(text)
                 PROVE  SubSeq(text, i, j) \in Seq(Symbols)
    OBVIOUS
  <2>2. \A k \in i .. j : text[k] \in Symbols
    BY <2>1, ElementOfSeq, LenProperties
  <2>3. QED
    BY <2>2, SubSeqProperties
<1>b. \A text \in Seq(Symbols), i \in Nat \ {0} : From(text, i) \in Seq(Symbols)
  BY <1>a, LenProperties DEF From
<1>c. \A text \in Seq(Symbols) : TrimLeft(text) \in Seq(Symbols)
  <2>1. SUFFICES ASSUME NEW text \in Seq(Symbols) PROVE TrimLeft(text) \in Seq(Symbols)
    OBVIOUS
  <2>2. SubSeq(text, 1, Len(text)) = text
    BY SubSeqFull
  <2>3. 1 \in Nat \ {0} /\ Len(text) \in Nat /\ 1 <= Len(text) + 1 /\ Len(text) <= Len(text)
    BY LenProperties
  <2>4. PICK k \in 1 .. Len(text) + 1 : TrimLeft(SubSeq(text, 1, Len(text))) = SubSeq(text, k, Len(text))
    BY <2>3, TrimLeftIs
  <2>5. SubSeq(text, k, Len(text)) \in Seq(Symbols)
    BY <1>a, <2>3
  <2>6. QED
    BY <2>2, <2>4, <2>5
<1> DEFINE close == IndexOf(s.buffer, Closing)
           found == {k \in 1 .. 2 : IndexOf(s.buffer, CanvasFencePrefixes[k]) # 0}
           open == IndexOf(s.buffer, CanvasFencePrefixes[FirstOf(found)])
           body == From(s.buffer, open + 5)
           line == IndexOf(body, <<"n">>)
<1>3. CASE s.inside /\ close = 0
  BY <1>3 DEF Pass
<1>4. CASE s.inside /\ close # 0
  <2>1. close \in Nat \ {0} /\ close - 1 \in Nat /\ close - 1 <= Len(s.buffer) /\ close + 4 \in Nat \ {0}
    <3>0. Closing \in Seq(Symbols) /\ Len(Closing) > 0
      BY SymbolsAre
    <3>1. close \in Nat /\ IsAt(s.buffer, close, Closing)
      BY <1>1, <1>4, <3>0, IndexIs
    <3> HIDE DEF close
    <3>2. close + 3 <= Len(s.buffer)
      BY <3>1, SymbolsAre DEF IsAt
    <3>3. QED
      BY <1>1, <1>4, <3>1, <3>2
  <2> DEFINE e == EmitCanvasEvent(s, SubSeq(s.buffer, 1, close - 1))
             b == TrimLeft(From(s.buffer, close + 4))
  <2>2. Pass(s) = [e EXCEPT !.buffer = b, !.inside = FALSE]
    BY <1>4, SymbolsAre DEF Pass
  <2> HIDE DEF close
  <2>3. SubSeq(s.buffer, 1, close - 1) \in Seq(Symbols)
    BY <1>1, <1>a, <2>1
  <2>4. e \in States
    BY <2>3, EmitCanvasEventIs
  <2>5. b \in Seq(Symbols)
    BY <1>1, <1>b, <1>c, <2>1
  <2> HIDE DEF e, b
  <2>6. QED
    BY <2>2, <2>4, <2>5, ChangedStates
<1>5. CASE ~s.inside /\ found # {}
  <2>1. FirstOf(found) \in found
    <3>1. found \subseteq Nat
      OBVIOUS
    <3> HIDE DEF found
    <3>2. QED
      BY <1>5, <3>1, FirstOfIs
  <2>2. open \in Nat \ {0} /\ open - 1 \in Nat /\ open - 1 <= Len(s.buffer) /\ open + 5 \in Nat \ {0}
    <3> DEFINE part == CanvasFencePrefixes[FirstOf(found)]
    <3>1. part \in Seq(Symbols) /\ Len(part) = 5 /\ open # 0
      BY <2>1, SymbolsAre
    <3> HIDE DEF part
    <3>2. open \in Nat /\ IsAt(s.buffer, open, part)
      BY <1>1, <3>1, IndexIs DEF part
    <3> HIDE DEF open
    <3>3. open + 4 <= Len(s.buffer)
      <4>1. open + Len(part) - 1 <= Len(s.buffer)
        BY <3>2 DEF IsAt
      <4>2. QED
        BY <1>1, <3>1, <3>2, <4>1
    <3>4. QED
      BY <1>1, <3>1, <3>2, <3>3 DEF open
  <2> DEFINE e == EmitText(s, SubSeq(s.buffer, 1, open - 1))
             b == IF line = 0 THEN <<>> ELSE From(body, line + 1)
  <2>3. Pass(s) = [e EXCEPT !.buffer = b, !.inside = TRUE]
    BY <1>5 DEF Pass
  <2> HIDE DEF open, found
  <2>4. SubSeq(s.buffer, 1, open - 1) \in Seq(Symbols)
    BY <1>1, <1>a, <2>2
  <2>5. e \in States
    BY <2>4, EmitTextIs
  <2>6. body \in Seq(Symbols)
    BY <1>1, <1>b, <2>2
  <2>7. line \in Nat
    <3>1. <<"n">> \in Seq(Symbols) /\ Len(<<"n">>) > 0
      BY DEF Symbols
    <3> HIDE DEF body
    <3>2. QED
      BY <2>6, <3>1, IndexIs
  <2> HIDE DEF line
  <2>8. From(body, line + 1) \in Seq(Symbols)
    BY <1>b, <2>6, <2>7
  <2>9. <<>> \in Seq(Symbols)
    OBVIOUS
  <2>10. b \in Seq(Symbols)
    BY <2>8, <2>9
  <2> HIDE DEF e, b
  <2>11. QED
    BY <2>3, <2>5, <2>10, ChangedStates
<1>6. CASE ~s.inside /\ found = {} /\ PartialMatch(s.buffer)
  BY <1>6 DEF Pass
<1>7. CASE ~s.inside /\ found = {} /\ ~PartialMatch(s.buffer)
  <2> DEFINE e == EmitText(s, s.buffer)
  <2>1. Pass(s) = [e EXCEPT !.buffer = <<>>]
    BY <1>7 DEF Pass
  <2>2. e \in States
    BY <1>1, EmitTextIs
  <2>3. <<>> \in Seq(Symbols)
    OBVIOUS
  <2> HIDE DEF e
  <2>4. QED
    BY <2>1, <2>2, <2>3, ChangedStates
<1>8. QED
  <2>1. s.inside \in BOOLEAN
    BY DEF States
  <2>2. QED
    BY <1>3, <1>4, <1>5, <1>6, <1>7, <2>1

RegularAnswers == {w \in Answers : Regular(w)}

\* What is regular in the fences of an answer.
LEMMA AnswersAre ==
    ASSUME NEW w \in RegularAnswers
    PROVE  /\ w \in Seq(Symbols)
           /\ \A i \in Nat \ {0} : Opens(w, i) =>
                /\ i > 1 => w[i - 1] = "n"
                /\ i + 5 <= Len(w) => w[i + 5] = "n"
                /\ ~IsAt(w, i + 5, Closing)
                /\ IsAt(w, i, CanvasFencePrefixes[2]) =>
                     \A j \in Nat \ {0} :
                        IsAt(w, j, CanvasFencePrefixes[1]) /\ i < j => j - i >= MaxToken
<1>1. w \in Seq(Symbols) /\ Regular(w)
  BY FencesAssumption DEF RegularAnswers
<1>2. \A i \in Nat \ {0} : Opens(w, i) => i \in DOMAIN w
  BY <1>1, OpeningIs
<1>3. \A i \in Nat \ {0} : IsAt(w, i, CanvasFencePrefixes[1]) => Opens(w, i)
  BY DEF Opens
<1>4. \A i \in DOMAIN w : Opens(w, i) =>
        /\ i > 1 => w[i - 1] = "n"
        /\ i + 5 <= Len(w) => w[i + 5] = "n"
        /\ ~IsAt(w, i + 5, Closing)
        /\ IsAt(w, i, CanvasFencePrefixes[2]) =>
             \A j \in DOMAIN w :
                IsAt(w, j, CanvasFencePrefixes[1]) /\ i < j => j - i >= MaxToken
  BY <1>1 DEF Regular
<1>5. QED
  BY <1>1, <1>2, <1>3, <1>4

\* Within one token, no object detail opens behind a dashboard.
LEMMA OneOpening ==
    ASSUME NEW w \in RegularAnswers, NEW m \in Nat, NEW g \in Int, m <= g + 3 + MaxToken,
           NEW i \in Nat \ {0}, IsAt(w, i, CanvasFencePrefixes[2]), g <= i,
           NEW j \in Nat \ {0}, IsAt(w, j, CanvasFencePrefixes[1]), j + 4 <= m
    PROVE  j <= i
<1>1. MaxToken \in Nat
  BY FencesAssumption
<1>2. Opens(w, i)
  BY DEF Opens
<1>3. i < j => j - i >= MaxToken
  BY <1>2, AnswersAre
<1>4. QED
  BY <1>1, <1>3

\* Of what the first m symbols of an answer w say, and what may follow them, s has
\* written all but what is said from p on.
Written(s, w, m, shown, p) ==
    \A l \in m .. Len(w) :
        Said(Text(w, l), 1, shown) = WithoutBreaks(s.out) \o Said(Text(w, l), p, s.lastValid)

\* A fence opens at p, and its content is held from q on; no place closes it that
\* lies before g.
Within(s, w, m, g, p, q) ==
    /\ Opens(w, p) /\ p + 4 <= m
    /\ q \in p + 5 .. p + 6 /\ q <= m + 1 /\ (q = p + 6 => w[p + 5] = "n")
    /\ s.buffer = SubSeq(w, q, m)
    /\ \A c \in Nat : IsAt(w, c, Closing) /\ q <= c /\ c + 3 <= m => g <= c

\* Prose is held from p on; no fence opens in it before g.
Outside(s, w, m, g, p) ==
    /\ s.buffer = SubSeq(w, p, m)
    /\ \A j \in Nat : Opens(w, j) /\ p <= j /\ j + 4 <= m => g <= j

Follows(s, w, m, g, shown) ==
    \E p \in 1 .. m + 1 :
        /\ Written(s, w, m, shown, p)
        /\ IF s.inside THEN \E q \in Nat : Within(s, w, m, g, p, q) ELSE Outside(s, w, m, g, p)

\* Nothing more can be made of what is held.
Settled(s) ==
    IF s.inside THEN IndexOf(s.buffer, Closing) = 0
    ELSE /\ \A k \in 1 .. 2 : IndexOf(s.buffer, CanvasFencePrefixes[k]) = 0
         /\ s.buffer = <<>> \/ PartialMatch(s.buffer)

LEMMA EventsConcat ==
    ASSUME NEW a \in Seq(Events), NEW b \in Seq(Events), NEW c \in Seq(Events)
    PROVE  (a \o b) \o c = a \o (b \o c)
  BY ConcatAssociative

\* From one position to another that says the same, behind what is written of it.
LEMMA WrittenOn ==
    ASSUME NEW w \in Seq(Symbols), NEW m \in Nat, m <= Len(w), NEW shown \in TabShows,
           NEW s \in States, NEW t \in States, NEW p \in 1 .. m + 1, NEW q \in 1 .. m + 1,
           NEW more \in Seq(Events),
           Written(s, w, m, shown, p),
           WithoutBreaks(t.out) = WithoutBreaks(s.out) \o more,
           \A l \in m .. Len(w) :
             Said(Text(w, l), p, s.lastValid) = more \o Said(Text(w, l), q, t.lastValid)
    PROVE  Written(t, w, m, shown, q)
<1>1. SUFFICES ASSUME NEW l \in m .. Len(w)
               PROVE  Said(Text(w, l), 1, shown)
                        = WithoutBreaks(t.out) \o Said(Text(w, l), q, t.lastValid)
  BY DEF Written
<1> DEFINE front == WithoutBreaks(s.out)
           back == Said(Text(w, l), q, t.lastValid)
<1>2. Said(Text(w, l), 1, shown) = front \o (more \o back)
  BY DEF Written
<1>3. front \in Seq(Events)
  BY WithoutBreaksIs DEF States
<1>4. back \in Seq(Events)
  <2>1. l \in Nat /\ l <= Len(w) /\ q \in 1 .. l + 1 /\ t.lastValid \in TabShows
    BY LenProperties DEF States
  <2>2. Text(w, l) \in Seq(Symbols) /\ Len(Text(w, l)) = l
    BY <2>1, BeginningIs
  <2>3. QED
    BY <2>1, <2>2, SaidIsText
<1> HIDE DEF front, back
<1>5. (front \o more) \o back = front \o (more \o back)
  BY <1>3, <1>4, EventsConcat
<1>6. QED
  BY <1>2, <1>5 DEF front, back

\* An opening that is not in the first m symbols is not read in them; a text that is
\* read up to a position without an opening is written as it is.
LEMMA ReadsOn ==
    ASSUME NEW w \in Seq(Symbols), NEW m \in Nat, m <= Len(w), NEW l \in m .. Len(w),
           NEW p \in 1 .. m + 1, NEW q \in p .. m + 1, NEW tabs \in TabShows,
           \A j \in p .. q - 1 : ~(Opens(w, j) /\ j + 4 <= l)
    PROVE  /\ SubSeq(w, p, q - 1) \in Seq(Symbols)
           /\ Said(Text(w, l), p, tabs)
                = WithoutBreaks(AsText(SubSeq(w, p, q - 1))) \o Said(Text(w, l), q, tabs)
<1> DEFINE text == Text(w, l)
           k == q - p
<1>1. l \in Nat /\ l <= Len(w) /\ Len(w) \in Nat
  BY LenProperties
<1>2. /\ text \in Seq(Symbols) /\ Len(text) = l
      /\ \A j \in Nat \ {0} : Opens(text, j) <=> Opens(w, j) /\ j + 4 <= l
      /\ \A i \in Nat \ {0}, j \in Nat : i <= j + 1 /\ j <= l => SubSeq(text, i, j) = SubSeq(w, i, j)
  BY <1>1, BeginningIs
<1> HIDE DEF text
<1>3. k \in Nat /\ p + k = q /\ p + k - 1 = q - 1 /\ p + k <= Len(text) + 1 /\ p \in 1 .. Len(text) + 1
  BY <1>1, <1>2
<1>4. \A j \in p .. p + k - 1 : ~Opens(text, j)
  <2>1. SUFFICES ASSUME NEW j \in p .. p + k - 1 PROVE ~Opens(text, j)
    OBVIOUS
  <2>2. j \in p .. q - 1 /\ j \in Nat \ {0}
    BY <1>3
  <2>3. QED
    BY <1>2, <2>2
<1> HIDE DEF k
<1>5. Said(text, p, tabs)
        = WithoutBreaks(AsText(SubSeq(text, p, p + k - 1))) \o Said(text, p + k, tabs)
  BY <1>2, <1>3, <1>4, SaidAsWritten
<1>6. p \in Nat \ {0} /\ q - 1 \in Nat /\ p <= q - 1 + 1 /\ q - 1 <= l /\ q - 1 <= Len(w)
  BY <1>1
<1>7. SubSeq(text, p, q - 1) = SubSeq(w, p, q - 1)
  BY <1>2, <1>6
<1>8. SubSeq(w, p, q - 1) \in Seq(Symbols)
  BY <1>6, PieceIs
<1>9. QED
  BY <1>3, <1>5, <1>7, <1>8 DEF text

LEMMA CanvasHasNoBreaks ==
    ASSUME NEW tabs \in TabShows, NEW json
    PROVE  WithoutBreaks(Canvas(tabs, json)) = Canvas(tabs, json)
<1>1. Canvas(tabs, json) \in Seq(Events)
  BY ShowingIs
<1>2. CASE Changes(tabs, json)
  <2>1. Canvas(tabs, json) = << <<"canvas", json[1]>> >>
    BY <1>2 DEF Canvas
  <2>2. <<"canvas", json[1]>> \in Events
    BY <1>2 DEF Changes, Events, Symbols
  <2>3. <<"canvas", json[1]>> # <<"text", "n">>
    OBVIOUS
  <2>4. <<"canvas", json[1]>> \in Events \ {<<"text", "n">>}
    BY <2>2, <2>3
  <2>5. Canvas(tabs, json) \in Seq(Events \ {<<"text", "n">>})
    BY <2>1, <2>4
  <2>6. QED
    BY <1>1, <2>5, WithoutFacts DEF WithoutBreaks
<1>3. CASE ~Changes(tabs, json)
  BY <1>3, WithoutBreaksIs DEF Canvas
<1>4. QED
  BY <1>2, <1>3

\* A line break before content does not change it.
LEMMA BreakBeforeContent ==
    ASSUME NEW w \in Seq(Symbols), NEW i \in Nat \ {0}, NEW j \in Nat, i <= j, j <= Len(w),
           w[i] = "n"
    PROVE  Normalized(SubSeq(w, i, j)) = Normalized(SubSeq(w, i + 1, j))
<1> DEFINE head == SubSeq(w, i, i)
           tail == SubSeq(w, i + 1, j)
<1>1. head \o tail = SubSeq(w, i, j)
  BY PiecesMeet
<1>2. head \in Seq(Symbols) /\ Len(head) = 1 /\ \A k \in 1 .. 1 : head[k] = "n"
  <2>1. i <= i + 1 /\ i \in Nat /\ i <= Len(w) /\ i + 1 - i = 1 /\ i + 1 - 1 = i
    BY LenProperties
  <2>2. head \in Seq(Symbols) /\ Len(head) = i + 1 - i /\ \A k \in 1 .. i + 1 - i : head[k] = w[i + k - 1]
    BY <2>1, PieceIs
  <2> HIDE DEF head
  <2>3. QED
    BY <2>1, <2>2
<1>3. tail \in Seq(Symbols)
  BY PieceIs
<1> HIDE DEF head, tail
<1>4. Without(head, {"n"}) = <<>>
  <2>1. head \in Seq({"n"})
    <3>1. head = [k \in 1 .. 1 |-> head[k]] /\ \A k \in 1 .. 1 : head[k] \in {"n"}
      BY <1>2
    <3>2. [k \in 1 .. 1 |-> head[k]] \in Seq({"n"})
      BY <3>1
    <3>3. QED
      BY <3>1, <3>2
  <2>2. Without(head, {"n"}) \in Seq({"n"} \ {"n"})
    BY <2>1, WithoutFacts
  <2>3. {"n"} \ {"n"} = {}
    OBVIOUS
  <2>4. QED
    BY <2>2, <2>3, EmptySeq
<1>5. Without(head \o tail, {"n"}) = Without(head, {"n"}) \o Without(tail, {"n"})
  BY <1>2, <1>3, WithoutOfBoth
<1>6. Without(tail, {"n"}) \in Seq(Symbols \ {"n"})
  BY <1>3, WithoutFacts
<1>7. <<>> \o Without(tail, {"n"}) = Without(tail, {"n"})
  BY <1>6, ConcatEmptySeq
<1>8. QED
  BY <1>1, <1>4, <1>5, <1>7 DEF Normalized, tail

\* The fence closes: what was held from it on makes the canvas that its text says.
LEMMA PassCloses ==
    ASSUME NEW w \in RegularAnswers, NEW m \in Nat, m <= Len(w), NEW g \in Int, NEW shown \in TabShows,
           NEW s \in States, Follows(s, w, m, g, shown),
           s.inside, IndexOf(s.buffer, Closing) # 0
    PROVE  Follows(Pass(s), w, m, g, shown) /\ Len(Pass(s).buffer) + 4 <= Len(s.buffer)
<1>1. w \in Seq(Symbols) /\ Len(w) \in Nat /\ s.lastValid \in TabShows
  BY AnswersAre, LenProperties DEF States
<1>2. PICK p \in 1 .. m + 1 : Written(s, w, m, shown, p) /\ \E q \in Nat : Within(s, w, m, g, p, q)
  BY DEF Follows
<1>3. PICK q \in Nat : Within(s, w, m, g, p, q)
  BY <1>2
<1>4. /\ Opens(w, p) /\ p + 4 <= m /\ p \in Nat \ {0}
      /\ q \in p + 5 .. p + 6 /\ q <= m + 1 /\ (q = p + 6 => w[p + 5] = "n") /\ q \in Nat \ {0}
      /\ s.buffer = SubSeq(w, q, m)
      /\ \A c \in Nat : IsAt(w, c, Closing) /\ q <= c /\ c + 3 <= m => g <= c
  BY <1>2, <1>3 DEF Within
<1> DEFINE at == IndexOf(s.buffer, Closing)
           c == q + at - 1
<1>5. /\ at \in Nat \ {0} /\ IsAt(w, c, Closing) /\ c + 3 <= m /\ c \in Nat \ {0} /\ q <= c
      /\ \A j \in Nat : q <= j /\ IsAt(w, j, Closing) /\ j + 3 <= m => c <= j
  <2>1. Closing \in Seq(Symbols) /\ Len(Closing) = 4 /\ Len(Closing) > 0
    BY SymbolsAre
  <2>2. /\ at \in Nat
        /\ at # 0 => /\ IsAt(w, q + at - 1, Closing) /\ q + at - 1 + Len(Closing) - 1 <= m
                     /\ q + at - 1 \in Nat \ {0} /\ q <= q + at - 1
        /\ \A j \in Nat : q <= j /\ IsAt(w, j, Closing) /\ j + Len(Closing) - 1 <= m =>
             at # 0 /\ q + at - 1 <= j
    BY <1>1, <1>4, <2>1, IndexInPiece
  <2> HIDE DEF at
  <2>3. \A j \in Nat : j + 4 - 1 = j + 3
    OBVIOUS
  <2>4. at # 0
    BY DEF at
  <2>5. QED
    BY <2>1, <2>2, <2>3, <2>4
<1> DEFINE json == Normalized(SubSeq(w, q, c - 1))
           t == Pass(s)
<1>6. SubSeq(s.buffer, 1, at - 1) = SubSeq(w, q, c - 1) /\ SubSeq(w, q, c - 1) \in Seq(Symbols)
  <2> HIDE DEF at
  <2>1. /\ at - 1 \in Nat /\ 1 <= at - 1 + 1 /\ at - 1 <= m + 1 - q /\ q + 1 - 1 = q
        /\ q + (at - 1) - 1 = c - 1 /\ c - 1 \in Nat /\ q <= c - 1 + 1 /\ c - 1 <= Len(w)
    BY <1>1, <1>4, <1>5
  <2>2. SubSeq(SubSeq(w, q, m), 1, at - 1) = SubSeq(w, q + 1 - 1, q + (at - 1) - 1)
    BY <1>1, <1>4, <2>1, PieceOfPiece, SMTT(30)
  <2> HIDE DEF c
  <2>3. SubSeq(w, q, c - 1) \in Seq(Symbols)
    BY <1>1, <1>4, <2>1, PieceIs
  <2>4. QED
    BY <1>4, <2>1, <2>2, <2>3
<1>7. From(s.buffer, at + 4) = SubSeq(w, c + 4, m)
  <2> HIDE DEF at
  <2>1. /\ at + 4 \in Nat \ {0} /\ m + 1 - q \in Nat /\ at + 4 <= m + 1 - q + 1
        /\ q + (at + 4) - 1 = c + 4 /\ q + (m + 1 - q) - 1 = m /\ m + 1 - q <= m + 1 - q
    BY <1>4, <1>5
  <2>2. SubSeq(SubSeq(w, q, m), at + 4, m + 1 - q) = SubSeq(w, q + (at + 4) - 1, q + (m + 1 - q) - 1)
    <3> DEFINE i == at + 4
               len == m + 1 - q
    <3>1. i \in Nat \ {0} /\ len \in Nat /\ i <= len + 1 /\ len <= m + 1 - q /\ q <= m + 1
      BY <1>4, <2>1
    <3> HIDE DEF i, len
    <3>2. SubSeq(SubSeq(w, q, m), i, len) = SubSeq(w, q + i - 1, q + len - 1)
      BY <1>1, <1>4, <3>1, PieceOfPiece
    <3>3. QED
      BY <3>2 DEF i, len
  <2>3. Len(s.buffer) = m + 1 - q
    BY <1>1, <1>4, PieceIs
  <2>4. QED
    BY <1>4, <2>1, <2>2, <2>3 DEF From
<1>8. PICK d \in c + 4 .. m + 1 : /\ TrimLeft(SubSeq(w, c + 4, m)) = SubSeq(w, d, m)
                                  /\ \A j \in c + 4 .. d - 1 : w[j] = "n"
  <2> HIDE DEF c
  <2>1. c + 4 \in Nat \ {0} /\ c + 4 <= m + 1
    BY <1>5
  <2>2. QED
    BY <1>1, <2>1, TrimLeftIs
<1>9. /\ t \in States /\ t.buffer = SubSeq(w, d, m) /\ t.inside = FALSE
      /\ t.lastValid = Showing(s.lastValid, json)
      /\ t.out = s.out \o Canvas(s.lastValid, json)
  <2> DEFINE e == EmitCanvasEvent(s, SubSeq(w, q, c - 1))
  <2>1. t = [EmitCanvasEvent(s, SubSeq(s.buffer, 1, at - 1)) EXCEPT
               !.buffer = TrimLeft(From(s.buffer, at + 4)), !.inside = FALSE]
    BY SymbolsAre DEF Pass
  <2> HIDE DEF at, c, t
  <2>2. t = [e EXCEPT !.buffer = SubSeq(w, d, m), !.inside = FALSE]
    BY <1>6, <1>7, <1>8, <2>1
  <2>3. /\ e \in States /\ e.lastValid = Showing(s.lastValid, json)
        /\ e.out = s.out \o Canvas(s.lastValid, json)
    BY <1>6, EmitCanvasEventIs
  <2> HIDE DEF e, json
  <2>4. t.buffer = SubSeq(w, d, m) /\ t.inside = FALSE /\ t.lastValid = e.lastValid /\ t.out = e.out
    BY <2>2, <2>3 DEF States
  <2>5. t \in States
    BY PassIsState DEF t
  <2>6. QED
    BY <2>3, <2>4, <2>5
<1> DEFINE more == Canvas(s.lastValid, json)
<1>10. /\ more \in Seq(Events) /\ Showing(s.lastValid, json) \in TabShows
       /\ WithoutBreaks(t.out) = WithoutBreaks(s.out) \o more
  <2> HIDE DEF json, t
  <2>1. more \in Seq(Events) /\ WithoutBreaks(more) = more /\ Showing(s.lastValid, json) \in TabShows
    BY <1>1, ShowingIs, CanvasHasNoBreaks
  <2> HIDE DEF more
  <2>2. s.out \in Seq(Events) /\ t.out = s.out \o more
    BY <1>9 DEF States, more
  <2>3. QED
    BY <2>1, <2>2, WithoutBreaksIs
<1> HIDE DEF t, at, c
<1>11. ASSUME NEW l \in m .. Len(w)
       PROVE  Said(Text(w, l), p, s.lastValid) = more \o Said(Text(w, l), d, t.lastValid)
  <2> DEFINE text == Text(w, l)
             x == CloseOf(text, p)
  <2>1. l \in Nat /\ l <= Len(w)
    BY <1>1
  <2>2. /\ text \in Seq(Symbols) /\ Len(text) = l
        /\ \A i \in 1 .. l : text[i] = w[i]
        /\ \A i \in Nat \ {0} :
             /\ Opens(text, i) <=> Opens(w, i) /\ i + 4 <= l
             /\ IsAt(text, i, Closing) <=> IsAt(w, i, Closing) /\ i + 3 <= l
        /\ \A i \in Nat \ {0}, j \in Nat : i <= j + 1 /\ j <= l => SubSeq(text, i, j) = SubSeq(w, i, j)
    BY <1>1, <2>1, BeginningIs
  <2> HIDE DEF text
  <2>3. Opens(text, p) /\ IsAt(text, c, Closing) /\ p + 5 <= c
    BY <1>4, <1>5, <2>1, <2>2
  <2>4. x # 0 /\ x = c
    <3>1. x # 0 /\ x <= c /\ x \in Nat /\ x \in p + 5 .. Len(text) /\ IsAt(text, x, Closing)
      BY <1>4, <1>5, <2>2, <2>3, CloseIs
    <3> HIDE DEF x
    <3>2. IsAt(w, x, Closing) /\ x + 3 <= m
      BY <1>5, <2>2, <3>1
    <3>3. x # p + 5
      BY <1>4, <3>2, AnswersAre
    <3>4. CASE q <= x
      BY <1>5, <3>1, <3>2, <3>4
    <3>5. CASE ~(q <= x)
      BY <1>4, <3>1, <3>3, <3>5
    <3>6. QED
      BY <3>1, <3>4, <3>5 DEF x
  <2>5. JsonOf(text, p) = json
    <3>1. JsonOf(text, p) = Normalized(SubSeq(text, p + 5, c - 1))
      BY <2>4 DEF JsonOf
    <3>2. p + 5 \in Nat \ {0} /\ c - 1 \in Nat /\ p + 5 <= c - 1 + 1 /\ c - 1 <= l /\ c - 1 <= Len(w)
      BY <1>1, <1>4, <1>5, <2>1, <2>3
    <3>3. SubSeq(text, p + 5, c - 1) = SubSeq(w, p + 5, c - 1)
      BY <2>2, <3>2
    <3>4. CASE q = p + 5
      BY <3>1, <3>3, <3>4
    <3>5. CASE q = p + 6
      <4>1. p + 5 <= c - 1 /\ w[p + 5] = "n" /\ p + 5 + 1 = q
        BY <1>4, <1>5, <3>5
      <4>2. Normalized(SubSeq(w, p + 5, c - 1)) = Normalized(SubSeq(w, p + 5 + 1, c - 1))
        BY <1>1, <3>2, <4>1, BreakBeforeContent
      <4>3. QED
        BY <3>1, <3>3, <4>1, <4>2
    <3>6. QED
      BY <1>4, <3>4, <3>5
  <2>6. Said(text, p, s.lastValid) = more \o Said(text, c + 4, t.lastValid)
    <3>1. p \in 1 .. Len(text)
      BY <1>4, <2>1, <2>2
    <3> HIDE DEF json
    <3>2. Said(text, p, s.lastValid)
            = Canvas(s.lastValid, json) \o Said(text, c + 4, Showing(s.lastValid, json))
      BY <1>1, <2>2, <2>3, <2>4, <2>5, <3>1, FenceSays
    <3>3. QED
      BY <1>9, <3>2
  <2>7. Said(text, c + 4, t.lastValid) = Said(text, d, t.lastValid)
    <3>1. c + 4 \in 1 .. Len(text) + 1 /\ d \in c + 4 .. Len(text) + 1 /\ t.lastValid \in TabShows
      BY <1>5, <1>8, <1>9, <1>10, <2>1, <2>2
    <3>2. \A j \in c + 4 .. d - 1 : text[j] = "n"
      <4>1. \A j \in c + 4 .. d - 1 : j \in 1 .. l
        BY <1>5, <1>8, <2>1
      <4>2. QED
        BY <1>8, <2>2, <4>1
    <3>3. QED
      BY <2>2, <3>1, <3>2, BreaksSayNothing
  <2>8. QED
    BY <2>6, <2>7 DEF text
<1> HIDE DEF more
<1>12. Written(t, w, m, shown, d)
  <2>1. d \in 1 .. m + 1
    BY <1>5, <1>8
  <2>2. QED
    BY <1>1, <1>2, <1>9, <1>10, <1>11, <2>1, WrittenOn
<1>13. Outside(t, w, m, g, d)
  <2>1. g <= c /\ c <= d
    BY <1>4, <1>5, <1>8
  <2>2. \A j \in Nat : d <= j => g <= j
    BY <1>5, <1>8, <2>1
  <2>3. QED
    BY <1>9, <2>2 DEF Outside
<1>14. d \in 1 .. m + 1
  BY <1>5, <1>8
<1>15. Follows(t, w, m, g, shown)
  BY <1>9, <1>12, <1>13, <1>14 DEF Follows
<1>16. Len(t.buffer) + 4 <= Len(s.buffer)
  <2>1. Len(s.buffer) = m + 1 - q
    BY <1>1, <1>4, PieceIs
  <2>2. d \in Nat \ {0} /\ d <= m + 1
    BY <1>14
  <2>3. Len(t.buffer) = m + 1 - d
    BY <1>1, <1>9, <2>2, PieceIs
  <2>4. QED
    BY <1>4, <1>5, <1>8, <2>1, <2>3
<1>17. QED
  BY <1>15, <1>16 DEF t

\* A fence opens: what was held before it is written, its first line is left out.
LEMMA PassOpens ==
    ASSUME NEW w \in RegularAnswers, NEW m \in Nat, m <= Len(w), NEW g \in Int, m <= g + 3 + MaxToken,
           NEW shown \in TabShows,
           NEW s \in States, Follows(s, w, m, g, shown), ~s.inside,
           \E k \in 1 .. 2 : IndexOf(s.buffer, CanvasFencePrefixes[k]) # 0
    PROVE  Follows(Pass(s), w, m, g, shown) /\ Len(Pass(s).buffer) + 4 <= Len(s.buffer)
<1>1. w \in Seq(Symbols) /\ Len(w) \in Nat /\ s.lastValid \in TabShows
  BY AnswersAre, LenProperties DEF States
<1>2. PICK p \in 1 .. m + 1 : Written(s, w, m, shown, p) /\ Outside(s, w, m, g, p)
  BY DEF Follows
<1>3. /\ s.buffer = SubSeq(w, p, m) /\ p \in Nat \ {0} /\ p <= m + 1
      /\ \A j \in Nat : Opens(w, j) /\ p <= j /\ j + 4 <= m => g <= j
  BY <1>2 DEF Outside
<1> DEFINE found == {k \in 1 .. 2 : IndexOf(s.buffer, CanvasFencePrefixes[k]) # 0}
           first == FirstOf(found)
           part == CanvasFencePrefixes[first]
           at == IndexOf(s.buffer, part)
           j == p + at - 1
<1>4. first \in 1 .. 2 /\ at # 0 /\ found # {}
  <2>1. found # {} /\ found \subseteq Nat
    OBVIOUS
  <2>2. first \in found
    <3> HIDE DEF found
    <3>1. QED
      BY <2>1, FirstOfIs
  <2>3. QED
    BY <2>1, <2>2
<1> HIDE DEF first
<1>5. part \in Seq(Symbols) /\ Len(part) = 5
  BY <1>4, SymbolsAre
<1>6. /\ at \in Nat \ {0} /\ j \in Nat \ {0} /\ p <= j /\ IsAt(w, j, part) /\ j + 4 <= m
  <2> HIDE DEF part
  <2>1. /\ at \in Nat
        /\ at # 0 => /\ IsAt(w, p + at - 1, part) /\ p + at - 1 + Len(part) - 1 <= m
                     /\ p + at - 1 \in Nat \ {0} /\ p <= p + at - 1
    <3>1. at = IndexOf(SubSeq(w, p, m), part) /\ Len(part) > 0
      BY <1>3, <1>5
    <3> HIDE DEF at
    <3>2. QED
      BY <1>1, <1>3, <1>5, <3>1, IndexInPiece
  <2> HIDE DEF at
  <2>2. p + at - 1 + 5 - 1 = j + 4
    BY <2>1
  <2>3. QED
    BY <1>4, <1>5, <2>1, <2>2
<1>7. Opens(w, j) /\ g <= j
  <2>1. Opens(w, j)
    BY <1>4, <1>6 DEF Opens
  <2> HIDE DEF j
  <2>2. QED
    BY <1>3, <1>6, <2>1
\* A fence before it would open with the other word.
<1>k. ASSUME NEW i \in p .. j - 1, NEW k \in 1 .. 2, IsAt(w, i, CanvasFencePrefixes[k])
      PROVE  IndexOf(s.buffer, CanvasFencePrefixes[k]) # 0 /\ k # first
  <2> DEFINE word == CanvasFencePrefixes[k]
             place == IndexOf(s.buffer, word)
  <2>0. word \in Seq(Symbols) /\ Len(word) = 5
    BY SymbolsAre
  <2>1. Len(word) > 0
    BY <2>0
  <2>2. i \in Nat /\ p <= i /\ i < j /\ i + 5 - 1 <= m
    <3> HIDE DEF j
    <3>1. QED
      BY <1>3, <1>6
  <2> HIDE DEF word
  <2>3. place # 0 /\ p + place - 1 <= i
    <3>1. place = IndexOf(SubSeq(w, p, m), word) /\ IsAt(w, i, word) /\ i + Len(word) - 1 <= m
      BY <1>3, <1>k, <2>0, <2>2 DEF word
    <3> HIDE DEF place
    <3>2. QED
      BY <1>1, <1>3, <2>0, <2>1, <2>2, <3>1, IndexInPiece
  <2>4. k # first
    <3>1. SUFFICES ASSUME k = first PROVE FALSE
      OBVIOUS
    <3>2. place = at
      BY <3>1 DEF word
    <3> HIDE DEF place, at
    <3>3. at \in Nat /\ p \in Nat
      BY <1>3, <1>6
    <3>4. QED
      BY <2>2, <2>3, <3>2, <3>3
  <2>5. QED
    BY <2>3, <2>4 DEF word
<1>8. \A i \in p .. j - 1 : ~Opens(w, i)
  <2>1. SUFFICES ASSUME NEW i \in p .. j - 1, NEW k \in 1 .. 2, IsAt(w, i, CanvasFencePrefixes[k])
                 PROVE  FALSE
    BY DEF Opens
  <2>2. k \in found /\ k # first /\ first <= k
    <3>1. IndexOf(s.buffer, CanvasFencePrefixes[k]) # 0 /\ k # first
      BY <1>k, <2>1
    <3>2. k \in found /\ found \subseteq Nat
      BY <3>1
    <3> HIDE DEF found
    <3>3. QED
      BY <3>1, <3>2, FirstOfIs DEF first
  <2>3. first = 1 /\ k = 2
    BY <1>4, <2>2
  <2>4. IsAt(w, j, CanvasFencePrefixes[1]) /\ IsAt(w, i, CanvasFencePrefixes[2])
    BY <1>6, <2>1, <2>3
  <2> HIDE DEF j
  <2>5. i \in Nat \ {0} /\ i < j /\ i + 4 <= m
    BY <1>3, <1>6, <2>1
  <2>6. Opens(w, i)
    BY <2>1 DEF Opens
  <2>7. g <= i
    BY <1>3, <2>5, <2>6
  <2>8. j <= i
    BY <1>6, <2>4, <2>5, <2>7, OneOpening
  <2>9. QED
    BY <1>6, <2>5, <2>8
<1> DEFINE body == From(s.buffer, at + 5)
           line == IndexOf(body, <<"n">>)
           b == IF line = 0 THEN <<>> ELSE From(body, line + 1)
           t == Pass(s)
           held == SubSeq(w, p, j - 1)
<1>9. SubSeq(s.buffer, 1, at - 1) = held /\ held \in Seq(Symbols)
  <2> HIDE DEF at
  <2>1. /\ at - 1 \in Nat /\ 1 <= at - 1 + 1 /\ at - 1 <= m + 1 - p /\ p + 1 - 1 = p
        /\ p + (at - 1) - 1 = j - 1 /\ j - 1 \in Nat /\ p <= j - 1 + 1 /\ j - 1 <= Len(w)
    BY <1>1, <1>3, <1>6
  <2>2. SubSeq(SubSeq(w, p, m), 1, at - 1) = SubSeq(w, p + 1 - 1, p + (at - 1) - 1)
    <3> DEFINE len == at - 1
    <3>1. len \in Nat /\ 1 \in Nat \ {0} /\ 1 <= len + 1 /\ len <= m + 1 - p
      BY <2>1
    <3> HIDE DEF len
    <3>2. SubSeq(SubSeq(w, p, m), 1, len) = SubSeq(w, p + 1 - 1, p + len - 1)
      BY <1>1, <1>3, <3>1, PieceOfPiece
    <3>3. QED
      BY <3>2 DEF len
  <2> HIDE DEF j
  <2>3. held \in Seq(Symbols)
    BY <1>1, <1>3, <2>1, PieceIs
  <2>4. QED
    BY <1>3, <2>1, <2>2, <2>3
<1>10. body = SubSeq(w, j + 5, m)
  <2> HIDE DEF at
  <2> DEFINE i == at + 5
             len == m + 1 - p
  <2>1. /\ i \in Nat \ {0} /\ len \in Nat /\ i <= len + 1 /\ len <= m + 1 - p
        /\ p + i - 1 = j + 5 /\ p + len - 1 = m
    BY <1>3, <1>6
  <2> HIDE DEF i, len, j
  <2>2. SubSeq(SubSeq(w, p, m), i, len) = SubSeq(w, p + i - 1, p + len - 1)
    BY <1>1, <1>3, <2>1, PieceOfPiece
  <2>3. Len(s.buffer) = len
    BY <1>1, <1>3, PieceIs DEF len
  <2>4. QED
    BY <1>3, <2>1, <2>2, <2>3 DEF From, i
<1> HIDE DEF body, j
<1>11. PICK q \in j + 5 .. j + 6 : q <= m + 1 /\ (q = j + 6 => w[j + 5] = "n") /\ b = SubSeq(w, q, m)
  <2>1. <<"n">> \in Seq(Symbols) /\ Len(<<"n">>) = 1 /\ Len(<<"n">>) > 0
    BY DEF Symbols
  <2> DEFINE break == <<"n">>
  <2> HIDE DEF break
  <2>2. /\ line \in Nat
        /\ line # 0 => j + 5 + line - 1 + Len(break) - 1 <= m /\ j + 5 <= j + 5 + line - 1
        /\ \A i \in Nat : j + 5 <= i /\ IsAt(w, i, break) /\ i + Len(break) - 1 <= m =>
             line # 0 /\ j + 5 + line - 1 <= i
    <3>1. j + 5 \in Nat \ {0} /\ j + 5 <= m + 1
      BY <1>6
    <3>2. break \in Seq(Symbols) /\ Len(break) > 0
      BY <2>1 DEF break
    <3>3. line = IndexOf(SubSeq(w, j + 5, m), break)
      BY <1>10 DEF break
    <3> HIDE DEF line
    <3>4. QED
      BY <1>1, <3>1, <3>2, <3>3, IndexInPiece
  <2>3. CASE j + 5 <= m
    <3>1. w[j + 5] = "n"
      BY <1>1, <1>6, <1>7, <2>3, AnswersAre
    <3>2. IsAt(w, j + 5, break)
      <4>1. DOMAIN break = 1 .. 1 /\ break[1] = "n" /\ Len(break) = 1
        BY DEF break
      <4>2. j + 5 + 1 - 1 = j + 5 /\ j + 5 <= Len(w)
        BY <1>1, <1>6, <2>3
      <4>3. QED
        BY <3>1, <4>1, <4>2 DEF IsAt
    <3>3. line = 1
      <4>1. Len(break) = 1 /\ j + 5 \in Nat /\ j + 5 + 1 - 1 <= m
        BY <1>6, <2>1, <2>3 DEF break
      <4> HIDE DEF line
      <4>2. line # 0 /\ j + 5 + line - 1 <= j + 5
        BY <2>2, <3>2, <4>1
      <4>3. QED
        BY <2>2, <4>1, <4>2
    <3>4. From(body, 2) = SubSeq(w, j + 6, m)
      <4> DEFINE i == j + 5
                 len == m + 1 - i
      <4>1. /\ i \in Nat \ {0} /\ i <= m + 1 /\ len \in Nat /\ 2 \in Nat \ {0} /\ 2 <= len + 1
            /\ len <= m + 1 - i /\ i + 2 - 1 = j + 6 /\ i + len - 1 = m
        BY <1>6, <2>3
      <4>2. body = SubSeq(w, i, m)
        BY <1>10
      <4> HIDE DEF i, len
      <4>3. SubSeq(SubSeq(w, i, m), 2, len) = SubSeq(w, i + 2 - 1, i + len - 1)
        BY <1>1, <4>1, PieceOfPiece
      <4>4. Len(body) = len
        BY <1>1, <4>1, <4>2, PieceIs DEF len
      <4>5. QED
        BY <4>1, <4>2, <4>3, <4>4 DEF From
    <3>5. b = SubSeq(w, j + 6, m)
      BY <3>3, <3>4
    <3>6. j + 6 \in j + 5 .. j + 6 /\ j + 6 <= m + 1
      BY <1>6, <2>3
    <3> HIDE DEF b
    <3>7. QED
      BY <3>1, <3>5, <3>6
  <2>4. CASE ~(j + 5 <= m)
    <3>1. m < j + 5 /\ j + 5 \in j + 5 .. j + 6 /\ j + 5 <= m + 1 /\ j + 5 # j + 6
      BY <1>6, <2>4
    <3>2. line = 0
      <4>1. Len(break) = 1
        BY DEF break
      <4> HIDE DEF line
      <4>2. QED
        BY <1>6, <2>2, <2>4, <4>1
    <3>3. b = SubSeq(w, j + 5, m)
      <4>1. SubSeq(w, j + 5, m) = <<>>
        BY <1>6, <3>1, SubSeqEmpty
      <4>2. QED
        BY <3>2, <4>1
    <3> HIDE DEF b
    <3>4. QED
      BY <3>1, <3>3
  <2>5. QED
    BY <2>3, <2>4
<1>12. /\ t \in States /\ t.buffer = SubSeq(w, q, m) /\ t.inside = TRUE
       /\ t.lastValid = s.lastValid
       /\ WithoutBreaks(t.out) = WithoutBreaks(s.out) \o WithoutBreaks(AsText(held))
  <2> DEFINE e == EmitText(s, held)
  <2>1. t = [EmitText(s, SubSeq(s.buffer, 1, at - 1)) EXCEPT !.buffer = b, !.inside = TRUE]
    BY <1>4 DEF Pass, first, body
  <2> HIDE DEF at, b, t, held
  <2>2. t = [e EXCEPT !.buffer = SubSeq(w, q, m), !.inside = TRUE]
    BY <1>9, <1>11, <2>1
  <2>3. /\ e \in States /\ e.lastValid = s.lastValid
        /\ WithoutBreaks(e.out) = WithoutBreaks(s.out) \o WithoutBreaks(AsText(held))
    BY <1>9, EmitTextIs
  <2> HIDE DEF e
  <2>4. t.buffer = SubSeq(w, q, m) /\ t.inside = TRUE /\ t.lastValid = e.lastValid /\ t.out = e.out
    BY <2>2, <2>3 DEF States
  <2>5. t \in States
    BY PassIsState DEF t
  <2>6. QED
    BY <2>3, <2>4, <2>5
<1> DEFINE more == WithoutBreaks(AsText(held))
<1>13. more \in Seq(Events)
  BY <1>9, AsTextIs, WithoutBreaksIs
<1>14. \A l \in m .. Len(w) :
         Said(Text(w, l), p, s.lastValid) = more \o Said(Text(w, l), j, t.lastValid)
  <2>1. SUFFICES ASSUME NEW l \in m .. Len(w)
                 PROVE  Said(Text(w, l), p, s.lastValid) = more \o Said(Text(w, l), j, t.lastValid)
    OBVIOUS
  <2>2. j \in p .. m + 1 /\ \A i \in p .. j - 1 : ~(Opens(w, i) /\ i + 4 <= l)
    BY <1>6, <1>8
  <2> HIDE DEF t, at
  <2>3. Said(Text(w, l), p, s.lastValid)
          = WithoutBreaks(AsText(SubSeq(w, p, j - 1))) \o Said(Text(w, l), j, s.lastValid)
    BY <1>1, <2>2, ReadsOn
  <2>4. QED
    BY <1>12, <2>3
<1> HIDE DEF more, at, t, b, line
<1>15. j \in 1 .. m + 1
  BY <1>6
<1>16. Written(t, w, m, shown, j)
  BY <1>1, <1>2, <1>12, <1>13, <1>14, <1>15, WrittenOn DEF more
<1>17. Within(t, w, m, g, j, q)
  <2>1. \A c \in Nat : q <= c => g <= c
    BY <1>6, <1>7, <1>11
  <2>2. QED
    BY <1>6, <1>7, <1>11, <1>12, <2>1 DEF Within
<1>18. q \in Nat \ {0}
  BY <1>6, <1>11
<1>19. Follows(t, w, m, g, shown)
  BY <1>12, <1>15, <1>16, <1>17, <1>18 DEF Follows
<1>20. Len(t.buffer) + 4 <= Len(s.buffer)
  <2>1. Len(s.buffer) = m + 1 - p
    BY <1>1, <1>3, PieceIs
  <2>2. Len(t.buffer) = m + 1 - q
    BY <1>1, <1>11, <1>12, <1>18, PieceIs
  <2>3. QED
    BY <1>3, <1>6, <1>11, <1>18, <2>1, <2>2
<1>21. QED
  BY <1>19, <1>20 DEF t

\* The end of a text ends with a part if the part stands there.
LEMMA EndsWithIs ==
    ASSUME NEW w \in Seq(Symbols), NEW p \in Nat \ {0}, NEW m \in Nat, p <= m + 1, m <= Len(w),
           NEW part \in Seq(Symbols), NEW i \in Nat \ {0}, p <= i, i + Len(part) = m + 1,
           IsAt(w, i, part)
    PROVE  EndsWith(SubSeq(w, p, m), part)
<1> DEFINE s == SubSeq(w, p, m)
<1>1. s \in Seq(Symbols) /\ Len(s) = m + 1 - p /\ Len(part) \in Nat
  BY PieceIs, LenProperties
<1> DEFINE k == i + 1 - p
<1>2. /\ k \in Nat \ {0} /\ p + k - 1 = i /\ p + k - 1 + Len(part) - 1 <= m
      /\ Len(part) <= m + 1 - p /\ m + 1 - p - Len(part) + 1 = k
  BY <1>1
<1> HIDE DEF k
<1>3. IsAt(s, k, part)
  BY <1>2, IsAtPiece
<1>4. QED
  BY <1>1, <1>2, <1>3 DEF EndsWith

\* An opening that is cut is held.
LEMMA CutOpening ==
    ASSUME NEW w \in RegularAnswers, NEW m \in Nat, m <= Len(w), NEW p \in 1 .. m + 1,
           NEW i \in p .. m, Opens(w, i), m < i + 4
    PROVE  PartialMatch(SubSeq(w, p, m))
<1> DEFINE s == SubSeq(w, p, m)
           n == m + 1 - i
<1>1. w \in Seq(Symbols) /\ Len(w) \in Nat /\ p \in Nat \ {0} /\ p <= m + 1 /\ i \in Nat \ {0}
  BY AnswersAre, LenProperties
<1>2. /\ i + 4 <= Len(w)
      /\ w[i] = "t" /\ w[i + 1] = "t" /\ w[i + 2] = "t" /\ w[i + 3] = "c"
  BY <1>1, OpeningIs
<1>3. n \in 1 .. 4 /\ i + n = m + 1
  OBVIOUS
<1>4. s \in Seq(Symbols) /\ Len(s) = m + 1 - p /\ \A k \in 1 .. m + 1 - p : s[k] = w[p + k - 1]
  BY <1>1, PieceIs
<1> HIDE DEF n
<1>5. CASE n = 4
  <2> DEFINE part == <<"t", "t", "t", "c">>
  <2>1. part \in Seq(Symbols) /\ Len(part) = 4 /\ DOMAIN part = 1 .. 4
    BY DEF Symbols
  <2>2. part[1] = "t" /\ part[2] = "t" /\ part[3] = "t" /\ part[4] = "c"
    OBVIOUS
  <2> HIDE DEF part
  <2>3. IsAt(w, i, part)
    <3>1. i + 1 - 1 = i /\ i + 2 - 1 = i + 1 /\ i + 3 - 1 = i + 2 /\ i + 4 - 1 = i + 3 /\ i + 3 <= Len(w)
      BY <1>1, <1>2
    <3>2. \A k \in 1 .. 4 : k = 1 \/ k = 2 \/ k = 3 \/ k = 4
      OBVIOUS
    <3>3. \A k \in 1 .. 4 : w[i + k - 1] = part[k]
      BY <1>2, <2>2, <3>1, <3>2
    <3>4. QED
      BY <2>1, <3>1, <3>3 DEF IsAt
  <2>4. EndsWith(s, part)
    <3>1. i + Len(part) = m + 1 /\ p <= i
      BY <1>3, <1>5, <2>1
    <3>2. QED
      BY <1>1, <2>1, <2>3, <3>1, EndsWithIs
  <2>5. QED
    BY <2>4 DEF PartialMatch, part
<1>6. CASE n \in 1 .. 3
  <2> DEFINE part == [k \in 1 .. n |-> "t"]
  <2>1. part \in Seq(Symbols) /\ Len(part) = n /\ DOMAIN part = 1 .. n /\ \A k \in 1 .. n : part[k] = "t"
    <3>1. "t" \in Symbols /\ n \in Nat
      BY <1>6 DEF Symbols
    <3>2. QED
      BY <3>1
  <2> HIDE DEF part
  <2>2. IsAt(w, i, part)
    <3>1. i + 1 - 1 = i /\ i + 2 - 1 = i + 1 /\ i + 3 - 1 = i + 2 /\ i + n - 1 <= Len(w)
      BY <1>1, <1>2, <1>6
    <3>2. \A k \in 1 .. n : k = 1 \/ k = 2 \/ k = 3
      BY <1>6
    <3>3. \A k \in 1 .. n : w[i + k - 1] = part[k]
      BY <1>2, <2>1, <3>1, <3>2
    <3>4. QED
      BY <2>1, <3>1, <3>3 DEF IsAt
  <2>3. EndsWith(s, part)
    <3>1. i + Len(part) = m + 1 /\ p <= i
      BY <1>3, <2>1
    <3>2. QED
      BY <1>1, <2>1, <2>2, <3>1, EndsWithIs
  <2>4. Len(s) = n \/ s[Len(s) - n] = "n"
    <3>1. CASE i = p
      BY <1>3, <1>4, <3>1 DEF n
    <3>2. CASE i # p
      <4>1. i > 1 /\ w[i - 1] = "n"
        BY <1>1, <3>2, AnswersAre
      <4>2. Len(s) - n \in 1 .. m + 1 - p /\ p + (Len(s) - n) - 1 = i - 1
        BY <1>1, <1>4, <3>2, SMTT(30) DEF n
      <4>3. QED
        BY <1>4, <4>1, <4>2
    <3>3. QED
      BY <3>1, <3>2
  <2>5. QED
    BY <1>6, <2>3, <2>4 DEF PartialMatch, part
<1>7. QED
  BY <1>3, <1>5, <1>6

\* Prose in which no fence may open is written.
LEMMA PassEmits ==
    ASSUME NEW w \in RegularAnswers, NEW m \in Nat, m <= Len(w), NEW g \in Int, NEW shown \in TabShows,
           NEW s \in States, Follows(s, w, m, g, shown), ~s.inside,
           \A k \in 1 .. 2 : IndexOf(s.buffer, CanvasFencePrefixes[k]) = 0,
           ~PartialMatch(s.buffer)
    PROVE  Follows(Pass(s), w, m, g, shown) /\ Pass(s).buffer = <<>> /\ ~Pass(s).inside
<1>1. w \in Seq(Symbols) /\ Len(w) \in Nat /\ s.lastValid \in TabShows /\ s.buffer \in Seq(Symbols)
  BY AnswersAre, LenProperties DEF States
<1>2. PICK p \in 1 .. m + 1 : Written(s, w, m, shown, p) /\ Outside(s, w, m, g, p)
  BY DEF Follows
<1>3. s.buffer = SubSeq(w, p, m) /\ p \in Nat \ {0} /\ p <= m + 1
  BY <1>2 DEF Outside
<1>4. \A i \in p .. m : ~Opens(w, i)
  <2>1. SUFFICES ASSUME NEW i \in p .. m, Opens(w, i) PROVE FALSE
    OBVIOUS
  <2>2. CASE m < i + 4
    <3>1. PartialMatch(SubSeq(w, p, m))
      BY <2>1, <2>2, CutOpening
    <3>2. QED
      BY <1>3, <3>1
  <2>3. CASE ~(m < i + 4)
    <3>1. PICK k \in 1 .. 2 : IsAt(w, i, CanvasFencePrefixes[k])
      BY <2>1 DEF Opens
    <3> DEFINE part == CanvasFencePrefixes[k]
    <3>2. part \in Seq(Symbols) /\ Len(part) = 5
      BY SymbolsAre
    <3>3. i \in Nat /\ p <= i /\ i + 5 - 1 <= m
      BY <2>3
    <3> HIDE DEF part
    <3>4. IndexOf(SubSeq(w, p, m), part) # 0
      <4>1. IsAt(w, i, part) /\ i + Len(part) - 1 <= m /\ Len(part) > 0
        BY <3>1, <3>2, <3>3 DEF part
      <4>2. QED
        BY <1>1, <1>3, <3>2, <3>3, <4>1, IndexInPiece, ZenonT(30)
    <3>5. QED
      BY <1>3, <3>4 DEF part
  <2>4. QED
    BY <2>2, <2>3
<1> DEFINE t == Pass(s)
           more == WithoutBreaks(AsText(s.buffer))
<1>5. /\ t \in States /\ t.buffer = <<>> /\ t.inside = FALSE /\ t.lastValid = s.lastValid
      /\ WithoutBreaks(t.out) = WithoutBreaks(s.out) \o more
  <2> DEFINE e == EmitText(s, s.buffer)
  <2>1. t = [e EXCEPT !.buffer = <<>>]
    BY DEF Pass
  <2> HIDE DEF t
  <2>2. /\ e \in States /\ e.lastValid = s.lastValid /\ e.inside = s.inside
        /\ WithoutBreaks(e.out) = WithoutBreaks(s.out) \o more
    BY <1>1, EmitTextIs
  <2>3. s.inside = FALSE
    BY DEF States
  <2> HIDE DEF e
  <2>4. t.buffer = <<>> /\ t.inside = e.inside /\ t.lastValid = e.lastValid /\ t.out = e.out
    BY <2>1, <2>2 DEF States
  <2>5. t \in States
    BY PassIsState DEF t
  <2> HIDE DEF more
  <2>6. QED
    BY <2>2, <2>3, <2>4, <2>5
<1> HIDE DEF t
<1>6. more \in Seq(Events)
  BY <1>1, AsTextIs, WithoutBreaksIs
<1>7. \A l \in m .. Len(w) :
        Said(Text(w, l), p, s.lastValid) = more \o Said(Text(w, l), m + 1, t.lastValid)
  <2>1. SUFFICES ASSUME NEW l \in m .. Len(w)
                 PROVE  Said(Text(w, l), p, s.lastValid) = more \o Said(Text(w, l), m + 1, t.lastValid)
    OBVIOUS
  <2>2. m + 1 \in p .. m + 1 /\ m + 1 - 1 = m /\ \A i \in p .. m + 1 - 1 : ~(Opens(w, i) /\ i + 4 <= l)
    BY <1>3, <1>4
  <2>3. Said(Text(w, l), p, s.lastValid)
          = WithoutBreaks(AsText(SubSeq(w, p, m + 1 - 1))) \o Said(Text(w, l), m + 1, s.lastValid)
    BY <1>1, <2>2, ReadsOn, SMTT(30)
  <2>4. QED
    BY <1>3, <1>5, <2>2, <2>3
<1> HIDE DEF more
<1>8. m + 1 \in 1 .. m + 1
  OBVIOUS
<1>9. Written(t, w, m, shown, m + 1)
  BY <1>1, <1>2, <1>5, <1>6, <1>7, <1>8, WrittenOn
<1>10. Outside(t, w, m, g, m + 1)
  <2>1. SubSeq(w, m + 1, m) = <<>>
    BY SubSeqEmpty
  <2>2. \A j \in Nat : ~(m + 1 <= j /\ j + 4 <= m)
    OBVIOUS
  <2>3. QED
    BY <1>5, <2>1, <2>2 DEF Outside
<1>11. Follows(t, w, m, g, shown)
  BY <1>5, <1>8, <1>9, <1>10 DEF Follows
<1>12. QED
  BY <1>5, <1>11 DEF t

\* A pass follows the answer, and either nothing is left for another one or four
\* symbols less are held.
LEMMA PassFollows ==
    ASSUME NEW w \in RegularAnswers, NEW m \in Nat, m <= Len(w), NEW g \in Int, m <= g + 3 + MaxToken,
           NEW shown \in TabShows, NEW s \in States, Follows(s, w, m, g, shown)
    PROVE  /\ Follows(Pass(s), w, m, g, shown)
           /\ Settled(s) => Settled(Pass(s))
           /\ Settled(Pass(s)) \/ Len(Pass(s).buffer) + 4 <= Len(s.buffer)
<1> DEFINE none == \A k \in 1 .. 2 : IndexOf(s.buffer, CanvasFencePrefixes[k]) = 0
           found == {k \in 1 .. 2 : IndexOf(s.buffer, CanvasFencePrefixes[k]) # 0}
<1>1. none <=> found = {}
  OBVIOUS
<1>2. CASE s.inside /\ IndexOf(s.buffer, Closing) = 0
  <2>1. Pass(s) = s
    BY <1>2 DEF Pass
  <2>2. Settled(s)
    BY <1>2 DEF Settled
  <2>3. QED
    BY <2>1, <2>2
<1>3. CASE s.inside /\ IndexOf(s.buffer, Closing) # 0
  <2>1. ~Settled(s)
    BY <1>3 DEF Settled
  <2>2. QED
    BY <1>3, <2>1, PassCloses
<1>4. CASE ~s.inside /\ ~none
  <2>1. ~Settled(s)
    BY <1>4 DEF Settled
  <2>2. QED
    BY <1>4, <2>1, PassOpens
<1>5. CASE ~s.inside /\ none /\ PartialMatch(s.buffer)
  <2>1. Pass(s) = s
    BY <1>1, <1>5 DEF Pass
  <2>2. Settled(s)
    BY <1>5 DEF Settled
  <2>3. QED
    BY <2>1, <2>2
<1>6. CASE ~s.inside /\ none /\ ~PartialMatch(s.buffer)
  <2>1. Follows(Pass(s), w, m, g, shown) /\ Pass(s).buffer = <<>> /\ ~Pass(s).inside
    BY <1>6, PassEmits
  <2>2. Settled(Pass(s))
    <3>1. \A k \in 1 .. 2 : IndexOf(<<>>, CanvasFencePrefixes[k]) = 0
      <4>1. SUFFICES ASSUME NEW k \in 1 .. 2, IndexOf(<<>>, CanvasFencePrefixes[k]) # 0 PROVE FALSE
        OBVIOUS
      <4> DEFINE part == CanvasFencePrefixes[k]
                 at == IndexOf(<<>>, part)
      <4>2. part \in Seq(Symbols) /\ Len(part) = 5
        BY SymbolsAre
      <4>3. <<>> \in Seq(Symbols) /\ Len(<<>>) = 0
        OBVIOUS
      <4> HIDE DEF part
      <4>4. at \in Nat /\ IsAt(<<>>, at, part)
        <5>1. Len(part) > 0 /\ at # 0
          BY <4>1, <4>2 DEF part
        <5>2. QED
          BY <4>2, <4>3, <5>1, IndexIs
      <4> HIDE DEF at
      <4>5. at + Len(part) - 1 <= Len(<<>>)
        BY <4>4 DEF IsAt
      <4>6. QED
        BY <4>2, <4>3, <4>4, <4>5
    <3>2. QED
      BY <2>1, <3>1 DEF Settled
  <2>3. QED
    BY <2>1, <2>2
<1>7. QED
  BY <1>2, <1>3, <1>4, <1>5, <1>6

-----------------------------------------------------------------------------
(* All passes *)

\* The function that Settle defines by recursion.
Passing(s, n, after) ==
    after = [i \in 0 .. n |-> IF i = 0 THEN s ELSE Pass(after[i - 1])]

LEMMA PassingExists ==
    ASSUME NEW s
    PROVE  \A n \in Nat : \E after : Passing(s, n, after)
<1> DEFINE N == {n \in Nat : \E after : Passing(s, n, after)}
<1>1. 0 \in N
  <2> DEFINE once == [i \in 0 .. 0 |-> s]
  <2>1. Passing(s, 0, once)
    BY DEF Passing
  <2>2. QED
    BY <2>1
<1>2. ASSUME NEW n \in Nat, n \in N PROVE n + 1 \in N
  <2>1. PICK after : Passing(s, n, after)
    BY <1>2
  <2> DEFINE more == [i \in 0 .. n + 1 |-> IF i = n + 1 THEN Pass(after[i - 1]) ELSE after[i]]
             step(f) == [i \in 0 .. n + 1 |-> IF i = 0 THEN s ELSE Pass(f[i - 1])]
  <2>2. ASSUME NEW i \in 0 .. n + 1 PROVE more[i] = step(more)[i]
    <3>1. CASE i = n + 1
      BY <3>1
    <3>2. CASE i # n + 1
      <4>1. i \in 0 .. n /\ (i # 0 => i - 1 \in 0 .. n)
        BY <3>2
      <4>2. after[i] = IF i = 0 THEN s ELSE Pass(after[i - 1])
        BY <2>1, <4>1 DEF Passing
      <4>3. QED
        BY <3>2, <4>1, <4>2
    <3>3. QED
      BY <3>1, <3>2
  <2>3. more = step(more)
    <3>1. DOMAIN more = 0 .. n + 1 /\ DOMAIN step(more) = 0 .. n + 1
      OBVIOUS
    <3>2. QED
      BY <2>2, <3>1
  <2>4. Passing(s, n + 1, more)
    BY <2>3 DEF Passing
  <2>5. QED
    BY <2>4
<1>3. QED
  <2>1. \A n \in Nat : n \in N
    <3> HIDE DEF N
    <3>1. QED
      BY <1>1, <1>2, Induction
  <2>2. QED
    BY <2>1

LEMMA PassingIs ==
    ASSUME NEW s, NEW n \in Nat, NEW after, Passing(s, n, after)
    PROVE  after[0] = s /\ \A i \in Nat : i < n => after[i + 1] = Pass(after[i])
<1>1. after[0] = s
  BY DEF Passing
<1>2. ASSUME NEW i \in Nat, i < n PROVE after[i + 1] = Pass(after[i])
  <2>1. i + 1 \in 0 .. n /\ i + 1 # 0 /\ (i + 1) - 1 = i
    BY <1>2
  <2>2. after[i + 1] = Pass(after[(i + 1) - 1])
    BY <2>1 DEF Passing
  <2>3. QED
    BY <2>1, <2>2
<1>3. QED
  BY <1>1, <1>2

\* Four symbols less with every pass, and no pass is left out.
LEMMA EnoughPasses ==
    ASSUME NEW len \in Nat
    PROVE  len \div 4 + 1 \in Nat /\ len < 4 * (len \div 4 + 1)
  OBVIOUS

\* What holds before the passes and survives each of them holds behind them.
LEMMA SettleLeadsTo ==
    ASSUME NEW s \in States, NEW F, s \in F[0],
           \A n \in Nat : \A t \in F[n] : Pass(t) \in F[n + 1]
    PROVE  Settle(s) \in F[Len(s.buffer) \div 4 + 1]
<1> DEFINE passes == Len(s.buffer) \div 4 + 1
           chosen == CHOOSE after : Passing(s, passes, after)
<1>1. passes \in Nat
  BY LenProperties, EnoughPasses DEF States
<1>2. Settle(s) = chosen[passes]
  BY DEF Settle, Passing
<1>3. Passing(s, passes, chosen)
  BY <1>1, PassingExists
<1> HIDE DEF passes, chosen
<1>4. chosen[0] = s /\ \A n \in Nat : n < passes => chosen[n + 1] = Pass(chosen[n])
  BY <1>1, <1>3, PassingIs
<1> DEFINE N == {n \in Nat : n <= passes => chosen[n] \in F[n]}
<1>5. 0 \in N
  BY <1>4
<1>6. ASSUME NEW n \in Nat, n \in N PROVE n + 1 \in N
  <2>1. SUFFICES ASSUME n + 1 <= passes PROVE chosen[n + 1] \in F[n + 1]
    OBVIOUS
  <2>2. n < passes /\ n <= passes
    BY <1>1, <2>1
  <2>3. chosen[n + 1] = Pass(chosen[n])
    BY <1>4, <2>2
  <2>4. chosen[n] \in F[n]
    BY <1>6, <2>2
  <2>5. Pass(chosen[n]) \in F[n + 1]
    BY <2>4
  <2>6. QED
    BY <2>3, <2>5
<1>7. \A n \in Nat : n \in N
  <2> HIDE DEF N
  <2>1. QED
    BY <1>5, <1>6, Induction
<1>8. chosen[passes] \in F[passes]
  BY <1>1, <1>7
<1>9. QED
  BY <1>2, <1>8 DEF passes

LEMMA SettleIsState ==
    ASSUME NEW s \in States
    PROVE  Settle(s) \in States
<1> DEFINE F == [n \in Nat |-> States]
<1>1. s \in F[0] /\ \A n \in Nat : \A t \in F[n] : Pass(t) \in F[n + 1]
  BY PassIsState
<1>2. Len(s.buffer) \div 4 + 1 \in Nat
  BY LenProperties, EnoughPasses DEF States
<1>3. F[Len(s.buffer) \div 4 + 1] = States
  BY <1>2
<1> HIDE DEF F
<1>4. QED
  BY <1>1, <1>3, SettleLeadsTo

\* When all passes are done, nothing is left for another one.
LEMMA SettleFollows ==
    ASSUME NEW w \in RegularAnswers, NEW m \in Nat, m <= Len(w), NEW g \in Int, m <= g + 3 + MaxToken,
           NEW shown \in TabShows, NEW s \in States, Follows(s, w, m, g, shown)
    PROVE  Settle(s) \in States /\ Settled(Settle(s)) /\ Follows(Settle(s), w, m, g, shown)
<1> DEFINE len == Len(s.buffer)
           F == [n \in Nat |-> {t \in States : /\ Follows(t, w, m, g, shown)
                                               /\ Settled(t) \/ Len(t.buffer) + 4 * n <= len}]
           passes == len \div 4 + 1
<1>1. len \in Nat
  BY LenProperties DEF States
<1>2. s \in F[0]
  BY <1>1
<1>3. ASSUME NEW n \in Nat, NEW t \in F[n] PROVE Pass(t) \in F[n + 1]
  <2>1. t \in States /\ Follows(t, w, m, g, shown) /\ (Settled(t) \/ Len(t.buffer) + 4 * n <= len)
    OBVIOUS
  <2>2. /\ Pass(t) \in States /\ Follows(Pass(t), w, m, g, shown)
        /\ Settled(t) => Settled(Pass(t))
        /\ Settled(Pass(t)) \/ Len(Pass(t).buffer) + 4 <= Len(t.buffer)
    BY <2>1, PassIsState, PassFollows
  <2>3. Len(t.buffer) \in Nat /\ Len(Pass(t).buffer) \in Nat
    BY <2>1, <2>2, LenProperties DEF States
  <2> HIDE DEF len
  <2>4. Settled(Pass(t)) \/ Len(Pass(t).buffer) + 4 * (n + 1) <= len
    <3>1. CASE Settled(t)
      BY <2>2, <3>1
    <3>2. CASE Settled(Pass(t))
      BY <3>2
    <3>3. CASE ~Settled(t) /\ ~Settled(Pass(t))
      <4> DEFINE a == Len(Pass(t).buffer)
                 b == Len(t.buffer)
      <4>1. a + 4 <= b /\ b + 4 * n <= len /\ a \in Nat /\ b \in Nat
        BY <2>1, <2>2, <2>3, <3>3
      <4> HIDE DEF a, b
      <4>2. a + 4 * (n + 1) <= len
        BY <1>1, <4>1
      <4>3. QED
        BY <4>2 DEF a
    <3>4. QED
      BY <3>1, <3>2, <3>3
  <2>5. n + 1 \in Nat
    OBVIOUS
  <2>6. QED
    BY <2>2, <2>4, <2>5
<1>4. Settle(s) \in F[passes]
  <2> HIDE DEF F
  <2>1. QED
    BY <1>2, <1>3, SettleLeadsTo
<1>5. passes \in Nat /\ len < 4 * passes
  BY <1>1, EnoughPasses
<1>6. /\ Settle(s) \in States /\ Follows(Settle(s), w, m, g, shown)
      /\ Settled(Settle(s)) \/ Len(Settle(s).buffer) + 4 * passes <= len
  <2> HIDE DEF passes, len
  <2>1. QED
    BY <1>4, <1>5
<1>7. Len(Settle(s).buffer) \in Nat
  BY <1>6, LenProperties DEF States
<1> DEFINE left == Len(Settle(s).buffer)
<1>8. ~(left + 4 * passes <= len)
  <2>1. left \in Nat
    BY <1>7
  <2> HIDE DEF passes, len, left
  <2>2. QED
    BY <1>1, <1>5, <2>1
<1> HIDE DEF passes, len, left
<1>9. QED
  BY <1>6, <1>8 DEF left

-----------------------------------------------------------------------------
(* Tokens, and the end of a text *)

\* What was held had no closing and no opening left, so that those of the longer
\* text end in the token.
LEMMA HandleTokenFollows ==
    ASSUME NEW w \in RegularAnswers, NEW m \in Nat, NEW n \in 1 .. MaxToken, m + n <= Len(w),
           NEW shown \in TabShows, NEW s \in States, Settled(s), Follows(s, w, m, 0, shown)
    PROVE  LET t == HandleToken(s, SubSeq(w, m + 1, m + n)) IN
           t \in States /\ Settled(t) /\ Follows(t, w, m + n, 0, shown)
<1> DEFINE token == SubSeq(w, m + 1, m + n)
           t == [s EXCEPT !.buffer = s.buffer \o token]
           l == m + n
           g == m - 3
<1>1. w \in Seq(Symbols) /\ Len(w) \in Nat /\ MaxToken \in Nat /\ s.buffer \in Seq(Symbols)
  BY AnswersAre, LenProperties, FencesAssumption DEF States
<1>2. n \in Nat /\ l \in Nat /\ m <= l /\ l <= Len(w) /\ m <= Len(w) /\ g \in Int /\ l <= g + 3 + MaxToken
  BY <1>1
<1>3. token \in Seq(Symbols)
  <2>1. m + 1 \in Nat \ {0} /\ m + 1 <= m + n + 1 /\ m + n \in Nat
    BY <1>2
  <2>2. QED
    BY <1>1, <2>1, PieceIs
<1>4. s.buffer \o token \in Seq(Symbols)
  BY <1>1, <1>3, ConcatProperties
<1>5. /\ t \in States /\ t.buffer = s.buffer \o token /\ t.inside = s.inside
      /\ t.lastValid = s.lastValid /\ t.out = s.out
  BY <1>4 DEF States
<1>6. HandleToken(s, token) = Settle(t)
  BY DEF HandleToken
<1>7. PICK p \in 1 .. m + 1 :
        /\ Written(s, w, m, shown, p)
        /\ IF s.inside THEN \E q \in Nat : Within(s, w, m, 0, p, q) ELSE Outside(s, w, m, 0, p)
  BY DEF Follows
<1>8. \A q \in Nat \ {0} : q <= m + 1 /\ s.buffer = SubSeq(w, q, m) => t.buffer = SubSeq(w, q, l)
  <2>1. SUFFICES ASSUME NEW q \in Nat \ {0}, q <= m + 1, s.buffer = SubSeq(w, q, m)
                 PROVE  t.buffer = SubSeq(w, q, l)
    OBVIOUS
  <2> HIDE DEF t, l
  <2>2. SubSeq(w, q, m) \o SubSeq(w, m + 1, l) = SubSeq(w, q, l)
    BY <1>1, <1>2, <2>1, PiecesMeet
  <2>3. QED
    BY <1>5, <2>1, <2>2 DEF l
<1> HIDE DEF t, token, l, g
<1>9. Written(t, w, l, shown, p) /\ p \in 1 .. l + 1
  BY <1>1, <1>2, <1>5, <1>7, SMTT(30) DEF Written
<1>10. ASSUME s.inside PROVE Follows(t, w, l, g, shown)
  <2>1. PICK q \in Nat : Within(s, w, m, 0, p, q)
    BY <1>7, <1>10
  <2>2. /\ Opens(w, p) /\ p + 4 <= m /\ q \in p + 5 .. p + 6 /\ q <= m + 1
        /\ (q = p + 6 => w[p + 5] = "n") /\ s.buffer = SubSeq(w, q, m) /\ q \in Nat \ {0}
    BY <2>1 DEF Within
  <2>3. ASSUME NEW c \in Nat, IsAt(w, c, Closing), q <= c, c + 3 <= l PROVE g <= c
    <3>1. ~(c + 3 <= m)
      <4>1. SUFFICES ASSUME c + 3 <= m PROVE FALSE
        OBVIOUS
      <4>2. IndexOf(SubSeq(w, q, m), Closing) = 0
        BY <1>10, <2>2 DEF Settled
      <4>3. Closing \in Seq(Symbols) /\ Len(Closing) = 4 /\ Len(Closing) > 0 /\ c + 4 - 1 <= m
        BY <4>1, SymbolsAre
      <4>4. QED
        BY <1>1, <1>2, <2>2, <2>3, <4>2, <4>3, IndexInPiece
    <3>2. QED
      BY <3>1 DEF g
  <2>4. Within(t, w, l, g, p, q)
    <3>1. p + 4 <= l /\ q <= l + 1
      BY <1>2, <2>2
    <3>2. t.buffer = SubSeq(w, q, l)
      BY <1>8, <2>2
    <3>3. QED
      BY <2>2, <2>3, <3>1, <3>2 DEF Within
  <2>5. QED
    BY <1>5, <1>9, <1>10, <2>4 DEF Follows
<1>11. ASSUME ~s.inside PROVE Follows(t, w, l, g, shown)
  <2>1. Outside(s, w, m, 0, p)
    BY <1>7, <1>11
  <2>2. s.buffer = SubSeq(w, p, m) /\ p \in Nat \ {0} /\ p <= m + 1
    BY <2>1 DEF Outside
  <2>3. ASSUME NEW j \in Nat, Opens(w, j), p <= j, j + 4 <= l PROVE g <= j
    <3>1. ~(j + 4 <= m)
      <4>1. SUFFICES ASSUME j + 4 <= m PROVE FALSE
        OBVIOUS
      <4>2. PICK k \in 1 .. 2 : IsAt(w, j, CanvasFencePrefixes[k])
        BY <2>3 DEF Opens
      <4> DEFINE part == CanvasFencePrefixes[k]
      <4>3. IndexOf(SubSeq(w, p, m), part) = 0
        BY <1>11, <2>2 DEF Settled
      <4>4. part \in Seq(Symbols) /\ Len(part) = 5
        BY SymbolsAre
      <4>5. IsAt(w, j, part)
        BY <4>2
      <4> HIDE DEF part
      <4>6. Len(part) > 0 /\ j + Len(part) - 1 <= m
        BY <4>1, <4>4
      <4>7. QED
        BY <1>1, <1>2, <2>2, <2>3, <4>3, <4>4, <4>5, <4>6, IndexInPiece
    <3>2. QED
      BY <3>1 DEF g
  <2>4. Outside(t, w, l, g, p)
    <3>1. t.buffer = SubSeq(w, p, l)
      BY <1>8, <2>2
    <3>2. QED
      BY <2>3, <3>1 DEF Outside
  <2>5. QED
    BY <1>5, <1>9, <1>11, <2>4 DEF Follows
<1>12. Follows(t, w, l, g, shown)
  BY <1>10, <1>11
<1>13. Settle(t) \in States /\ Settled(Settle(t)) /\ Follows(Settle(t), w, l, g, shown)
  BY <1>2, <1>5, <1>12, SettleFollows
<1>14. Follows(Settle(t), w, l, 0, shown)
  BY <1>13 DEF Follows, Within, Outside
<1>15. QED
  BY <1>6, <1>13, <1>14 DEF l, token

LEMMA HandleTokenIsState ==
    ASSUME NEW s \in States, NEW token \in Seq(Symbols)
    PROVE  HandleToken(s, token) \in States
<1> DEFINE t == [s EXCEPT !.buffer = s.buffer \o token]
<1>1. s.buffer \in Seq(Symbols)
  BY DEF States
<1>2. s.buffer \o token \in Seq(Symbols)
  BY <1>1, ConcatProperties
<1>3. t \in States
  BY <1>2, ChangedStates
<1>4. HandleToken(s, token) = Settle(t)
  BY DEF HandleToken
<1> HIDE DEF t
<1>5. QED
  BY <1>3, <1>4, SettleIsState

LEMMA FlushedIsState ==
    ASSUME NEW s \in States
    PROVE  /\ Flushed(s) \in States /\ Flushed(s).buffer = <<>> /\ ~Flushed(s).inside
           /\ Flushed(s).out = IF s.inside THEN s.out ELSE s.out \o AsText(s.buffer)
<1> DEFINE e == IF s.inside THEN s ELSE EmitText(s, s.buffer)
<1>1. s.buffer \in Seq(Symbols) /\ <<>> \in Seq(Symbols)
  BY DEF States
<1>2. e \in States /\ e.out = IF s.inside THEN s.out ELSE s.out \o AsText(s.buffer)
  BY <1>1, EmitTextIs
<1>3. Flushed(s) = [e EXCEPT !.buffer = <<>>, !.inside = FALSE]
  BY DEF Flushed
<1> HIDE DEF e
<1>4. QED
  BY <1>1, <1>2, <1>3 DEF States

\* At the end all is written that the text says.
LEMMA FlushedSays ==
    ASSUME NEW w \in RegularAnswers, NEW m \in Nat, m <= Len(w),
           NEW shown \in TabShows, NEW s \in States, Settled(s), Follows(s, w, m, 0, shown)
    PROVE  WithoutBreaks(Flushed(s).out) = Said(Text(w, m), 1, shown)
<1> DEFINE text == Text(w, m)
<1>1. /\ w \in Seq(Symbols) /\ Len(w) \in Nat /\ s.lastValid \in TabShows
      /\ s.buffer \in Seq(Symbols) /\ s.out \in Seq(Events)
  BY AnswersAre, LenProperties DEF States
<1>2. PICK p \in 1 .. m + 1 :
        /\ Written(s, w, m, shown, p)
        /\ IF s.inside THEN \E q \in Nat : Within(s, w, m, 0, p, q) ELSE Outside(s, w, m, 0, p)
  BY DEF Follows
<1>3. Said(text, 1, shown) = WithoutBreaks(s.out) \o Said(text, p, s.lastValid)
  BY <1>1, <1>2 DEF Written
<1>4. /\ text \in Seq(Symbols) /\ Len(text) = m
      /\ \A i \in Nat \ {0} :
           /\ Opens(text, i) <=> Opens(w, i) /\ i + 4 <= m
           /\ IsAt(text, i, Closing) <=> IsAt(w, i, Closing) /\ i + 3 <= m
  BY <1>1, BeginningIs
<1>5. WithoutBreaks(s.out) \in Seq(Events)
  BY <1>1, WithoutBreaksIs
<1> HIDE DEF text
<1>6. CASE s.inside
  <2>1. PICK q \in Nat : Within(s, w, m, 0, p, q)
    BY <1>2, <1>6
  <2>2. /\ Opens(w, p) /\ p + 4 <= m /\ q \in p + 5 .. p + 6 /\ q <= m + 1
        /\ s.buffer = SubSeq(w, q, m) /\ q \in Nat \ {0} /\ p \in Nat \ {0}
    BY <2>1 DEF Within
  <2> DEFINE x == CloseOf(text, p)
  <2>3. x = 0
    <3>1. SUFFICES ASSUME x # 0 PROVE FALSE
      OBVIOUS
    <3>2. x \in Nat /\ x \in p + 5 .. Len(text) /\ IsAt(text, x, Closing)
      BY <1>4, <2>2, <3>1, CloseIs
    <3> HIDE DEF x
    <3>3. IsAt(w, x, Closing) /\ x + 3 <= m
      BY <1>4, <3>1, <3>2
    <3>4. x # p + 5
      BY <2>2, <3>3, AnswersAre
    <3>5. q <= x
      BY <2>2, <3>2, <3>4
    <3>6. IndexOf(SubSeq(w, q, m), Closing) = 0
      BY <1>6, <2>2 DEF Settled
    <3>7. Closing \in Seq(Symbols) /\ Len(Closing) = 4 /\ Len(Closing) > 0 /\ x + 4 - 1 <= m
      BY <3>2, <3>3, SymbolsAre
    <3>8. QED
      BY <1>1, <2>2, <3>2, <3>3, <3>5, <3>6, <3>7, IndexInPiece
  <2>4. Said(text, p, s.lastValid) = <<>>
    <3>1. p \in 1 .. Len(text) /\ Opens(text, p)
      BY <1>4, <2>2
    <3>2. QED
      BY <1>1, <1>4, <2>3, <3>1, SaidIs
  <2>5. Flushed(s).out = s.out
    BY <1>6, FlushedIsState
  <2>6. WithoutBreaks(s.out) \o <<>> = WithoutBreaks(s.out)
    BY <1>5, ConcatEmptySeq
  <2>7. QED
    BY <1>3, <2>4, <2>5, <2>6 DEF text
<1>7. CASE ~s.inside
  <2>1. Outside(s, w, m, 0, p)
    BY <1>2, <1>7
  <2>2. s.buffer = SubSeq(w, p, m) /\ p \in Nat \ {0} /\ p <= m + 1
    BY <2>1 DEF Outside
  <2>3. \A j \in p .. m + 1 - 1 : ~(Opens(w, j) /\ j + 4 <= m)
    <3>1. SUFFICES ASSUME NEW j \in p .. m + 1 - 1, Opens(w, j), j + 4 <= m PROVE FALSE
      OBVIOUS
    <3>2. PICK k \in 1 .. 2 : IsAt(w, j, CanvasFencePrefixes[k])
      BY <3>1 DEF Opens
    <3> DEFINE part == CanvasFencePrefixes[k]
    <3>3. IndexOf(SubSeq(w, p, m), part) = 0
      BY <1>7, <2>2 DEF Settled
    <3>4. part \in Seq(Symbols) /\ Len(part) = 5
      BY SymbolsAre
    <3>5. IsAt(w, j, part)
      BY <3>2
    <3> HIDE DEF part
    <3>6. Len(part) > 0 /\ j + Len(part) - 1 <= m /\ j \in Nat /\ p <= j
      BY <3>1, <3>4
    <3>7. QED
      BY <1>1, <2>2, <3>3, <3>4, <3>5, <3>6, IndexInPiece
  <2> DEFINE last == WithoutBreaks(AsText(s.buffer))
  <2>4. Said(text, p, s.lastValid) = last \o Said(text, m + 1, s.lastValid)
    <3> DEFINE q == m + 1
               l == m
    <3>1. l \in m .. Len(w) /\ q \in p .. m + 1 /\ q - 1 = m
      BY <1>1, <2>2
    <3>2. \A j \in p .. q - 1 : ~(Opens(w, j) /\ j + 4 <= l)
      BY <2>3
    <3> HIDE DEF q, l
    <3>3. Said(Text(w, l), p, s.lastValid)
            = WithoutBreaks(AsText(SubSeq(w, p, q - 1))) \o Said(Text(w, l), q, s.lastValid)
      BY <1>1, <3>1, <3>2, ReadsOn, ZenonT(30)
    <3>4. QED
      BY <2>2, <3>1, <3>3 DEF text, q, l
  <2>5. Said(text, m + 1, s.lastValid) = <<>>
    BY <1>1, <1>4, SaidIs
  <2>6. last \in Seq(Events) /\ AsText(s.buffer) \in Seq(Events)
    BY <1>1, AsTextIs, WithoutBreaksIs
  <2>7. WithoutBreaks(s.out \o AsText(s.buffer)) = WithoutBreaks(s.out) \o last
    BY <1>1, <2>6, WithoutBreaksIs
  <2>8. Flushed(s).out = s.out \o AsText(s.buffer)
    BY <1>7, FlushedIsState
  <2> HIDE DEF last
  <2>9. last \o <<>> = last
    BY <2>6, ConcatEmptySeq
  <2>10. QED
    BY <1>3, <2>4, <2>5, <2>7, <2>8, <2>9 DEF text
<1>8. QED
  BY <1>6, <1>7

-----------------------------------------------------------------------------
(* The interceptor in a run of the agent *)

FencesTyped ==
    /\ Interceptor \in States /\ before \in TabShows /\ ended \in BOOLEAN
    /\ sent \in Seq(Symbols) /\ rest \in Seq(Symbols) /\ sent \o rest \in Answers

\* Nothing is held between two streams.
HoldsNothing == ended => buffer = <<>> /\ ~inside

\* While a stream of regular fences is read, what is written and what is held make up what was sent.
FollowsAnswer ==
    ~ended /\ ~retried /\ Regular(sent \o rest) =>
      Settled(Interceptor) /\ Follows(Interceptor, sent \o rest, Len(sent), 0, before)

FencesInv == FencesTyped /\ HoldsNothing /\ FollowsAnswer /\ EmitsWhatWasWritten

\* Before the first token.
LEMMA BeginsAfresh ==
    ASSUME NEW w \in Seq(Symbols), NEW s \in States, s.buffer = <<>>, ~s.inside, s.out = <<>>
    PROVE  Settled(s) /\ Follows(s, w, 0, 0, s.lastValid)
<1>1. w \in Seq(Symbols) /\ Len(w) \in Nat /\ s.lastValid \in TabShows
  BY LenProperties DEF States
<1>2. \A k \in 1 .. 2 : IndexOf(<<>>, CanvasFencePrefixes[k]) = 0
  <2>1. SUFFICES ASSUME NEW k \in 1 .. 2, IndexOf(<<>>, CanvasFencePrefixes[k]) # 0 PROVE FALSE
    OBVIOUS
  <2> DEFINE part == CanvasFencePrefixes[k]
             at == IndexOf(<<>>, part)
  <2>2. part \in Seq(Symbols) /\ Len(part) = 5
    BY SymbolsAre
  <2>3. <<>> \in Seq(Symbols) /\ Len(<<>>) = 0
    OBVIOUS
  <2> HIDE DEF part
  <2>4. at \in Nat /\ IsAt(<<>>, at, part)
    <3>1. Len(part) > 0 /\ at # 0
      BY <2>1, <2>2 DEF part
    <3>2. QED
      BY <2>2, <2>3, <3>1, IndexIs
  <2> HIDE DEF at
  <2>5. at + Len(part) - 1 <= Len(<<>>)
    BY <2>4 DEF IsAt
  <2>6. QED
    BY <2>2, <2>3, <2>4, <2>5
<1>3. Settled(s)
  BY <1>2 DEF Settled
<1>4. Written(s, w, 0, s.lastValid, 1)
  <2>1. SUFFICES ASSUME NEW l \in 0 .. Len(w)
                 PROVE  Said(Text(w, l), 1, s.lastValid)
                          = WithoutBreaks(s.out) \o Said(Text(w, l), 1, s.lastValid)
    BY DEF Written
  <2>2. l \in Nat /\ l <= Len(w)
    BY <1>1
  <2>3. Text(w, l) \in Seq(Symbols) /\ Len(Text(w, l)) = l
    BY <1>1, <2>2, BeginningIs
  <2>4. 1 \in 1 .. Len(Text(w, l)) + 1
    BY <2>2, <2>3
  <2>5. Said(Text(w, l), 1, s.lastValid) \in Seq(Events)
    BY <1>1, <2>3, <2>4, SaidIsText
  <2>6. WithoutBreaks(s.out) = <<>>
    BY WithoutBreaksIs
  <2>7. <<>> \o Said(Text(w, l), 1, s.lastValid) = Said(Text(w, l), 1, s.lastValid)
    BY <2>5, ConcatEmptySeq
  <2>8. QED
    BY <2>6, <2>7
<1>5. Outside(s, w, 0, 0, 1)
  <2>1. SubSeq(w, 1, 0) = <<>>
    BY SubSeqEmpty
  <2>2. QED
    BY <2>1 DEF Outside
<1>6. 1 \in 1 .. 0 + 1
  OBVIOUS
<1>7. QED
  BY <1>3, <1>4, <1>5, <1>6 DEF Follows

LEMMA SymbolsConcat ==
    ASSUME NEW a \in Seq(Symbols), NEW b \in Seq(Symbols), NEW c \in Seq(Symbols)
    PROVE  (a \o b) \o c = a \o (b \o c)
  BY ConcatAssociative

\* A token moves the first symbols of what is to come to what was sent.
LEMMA TokenMoves ==
    ASSUME NEW s \in Seq(Symbols), NEW r \in Seq(Symbols), NEW n \in Nat, 1 <= n, n <= Len(r)
    PROVE  LET token == SubSeq(r, 1, n) IN
           /\ token \in Seq(Symbols) /\ From(r, n + 1) \in Seq(Symbols)
           /\ s \o token \in Seq(Symbols) /\ Len(s \o token) = Len(s) + n
           /\ (s \o token) \o From(r, n + 1) = s \o r
           /\ token = SubSeq(s \o r, Len(s) + 1, Len(s) + n)
<1> DEFINE token == SubSeq(r, 1, n)
           others == From(r, n + 1)
<1>1. Len(s) \in Nat /\ Len(r) \in Nat
  OBVIOUS
<1>2. token \in Seq(Symbols) /\ Len(token) = n
  <2>1. 1 <= n + 1 /\ n + 1 - 1 = n
    OBVIOUS
  <2>2. QED
    BY <2>1, PieceIs
<1>3. others \in Seq(Symbols)
  <2>1. n + 1 \in Nat \ {0} /\ n + 1 <= Len(r) + 1 /\ Len(r) <= Len(r)
    BY <1>1
  <2>2. QED
    BY <1>1, <2>1, PieceIs DEF From
<1>4. token \o others = r
  <2>1. 1 <= n + 1 /\ Len(r) <= Len(r)
    BY <1>1
  <2>2. SubSeq(r, 1, n) \o SubSeq(r, n + 1, Len(r)) = SubSeq(r, 1, Len(r))
    BY <1>1, <2>1, PiecesMeet
  <2>3. QED
    BY <2>2, SubSeqFull DEF From
<1>5. token = SubSeq(s \o r, Len(s) + 1, Len(s) + n)
  <2>1. /\ Len(s) + 1 \in Len(s) + 1 .. Len(s) + Len(r) /\ Len(s) + n \in Len(s) + 1 .. Len(s) + Len(r)
        /\ Len(s) + 1 - Len(s) = 1 /\ Len(s) + n - Len(s) = n
    BY <1>1
  <2>2. SubSeq(s \o r, Len(s) + 1, Len(s) + n) = SubSeq(r, Len(s) + 1 - Len(s), Len(s) + n - Len(s))
    BY <2>1, SubSeqOfConcat2
  <2>3. QED
    BY <2>1, <2>2
<1> HIDE DEF token, others
<1>6. s \o token \in Seq(Symbols) /\ Len(s \o token) = Len(s) + n
  BY <1>2, ConcatProperties
<1>7. (s \o token) \o others = s \o (token \o others)
  BY <1>2, <1>3, SymbolsConcat, ZenonT(30)
<1>8. QED
  BY <1>2, <1>3, <1>4, <1>5, <1>6, <1>7 DEF token, others

\* What was sent is the beginning of the answer.
LEMMA SentIsBeginning ==
    ASSUME NEW s \in Seq(Symbols), NEW r \in Seq(Symbols)
    PROVE  /\ Text(s \o r, Len(s)) = s /\ Len(s) \in Nat
           /\ Len(s \o r) = Len(s) + Len(r) /\ Len(s) <= Len(s \o r)
<1>1. /\ Len(s) \in Nat /\ Len(r) \in Nat
      /\ s \o r \in Seq(Symbols) /\ Len(s \o r) = Len(s) + Len(r)
      /\ \A i \in 1 .. Len(s) + Len(r) : (s \o r)[i] = IF i <= Len(s) THEN s[i] ELSE r[i - Len(s)]
  BY ConcatProperties
<1> DEFINE w == s \o r
<1>2. Len(s) <= Len(w)
  BY <1>1
<1> HIDE DEF w
<1>3. /\ Text(w, Len(s)) \in Seq(Symbols) /\ Len(Text(w, Len(s))) = Len(s)
      /\ \A i \in 1 .. Len(s) : Text(w, Len(s))[i] = w[i]
  BY <1>1, <1>2, BeginningIs DEF w
<1>4. \A i \in 1 .. Len(s) : w[i] = s[i]
  BY <1>1 DEF w
<1> DEFINE t == Text(w, Len(s))
<1> HIDE DEF t
<1>5. t = s
  BY <1>3, <1>4, SeqEqual DEF t
<1>6. QED
  BY <1>1, <1>2, <1>5 DEF t, w

LEMMA BecomesIs ==
    ASSUME NEW s \in States, Becomes(s)
    PROVE  Interceptor' = s
  BY DEF Becomes, States, Interceptor

LEMMA FencesInitInv == FencesInit => FencesInv
<1> SUFFICES ASSUME FencesInit PROVE FencesInv
  OBVIOUS
<1> USE DEF FencesInit
<1>1. rest \in Answers /\ rest \in Seq(Symbols) /\ sent = <<>> /\ sent \in Seq(Symbols) /\ ended = FALSE
  BY FencesAssumption
<1>2. sent \o rest = rest /\ Len(sent) = 0
  BY <1>1, ConcatEmptySeq
<1>3. before \in TabShows /\ Interceptor \in States
  <2>1. lastValid \in TabShows /\ before = lastValid
    BY DEF TabShows
  <2>2. <<>> \in Seq(Symbols) /\ <<>> \in Seq(Events)
    OBVIOUS
  <2>3. QED
    BY <2>1, <2>2 DEF States, Interceptor
<1>4. Settled(Interceptor) /\ Follows(Interceptor, rest, 0, 0, Interceptor.lastValid)
  <2>1. Interceptor.buffer = <<>> /\ ~Interceptor.inside /\ Interceptor.out = <<>>
    BY DEF Interceptor
  <2>2. QED
    BY <1>1, <1>3, <2>1, BeginsAfresh
<1>5. Interceptor.lastValid = before
  BY DEF Interceptor
<1>6. FencesTyped /\ HoldsNothing
  BY <1>1, <1>2, <1>3 DEF FencesTyped, HoldsNothing
<1>7. FollowsAnswer
  BY <1>2, <1>4, <1>5 DEF FollowsAnswer
<1>8. EmitsWhatWasWritten
  BY DEF EmitsWhatWasWritten
<1>9. QED
  BY <1>6, <1>7, <1>8 DEF FencesInv

LEMMA TokenInv == FencesInv /\ Token => FencesInv'
<1> SUFFICES ASSUME FencesInv, Token PROVE FencesInv'
  OBVIOUS
<1>1. FencesTyped
  BY DEF FencesInv
<1>2. PICK n \in 1 .. MaxToken :
        /\ ~ended /\ n <= Len(rest)
        /\ Becomes(HandleToken(Interceptor, SubSeq(rest, 1, n)))
        /\ sent' = sent \o SubSeq(rest, 1, n) /\ rest' = From(rest, n + 1)
        /\ UNCHANGED <<before, retried, ended, streams>>
  BY DEF Token
<1>3. n \in Nat /\ 1 <= n /\ n <= Len(rest) /\ sent \in Seq(Symbols) /\ rest \in Seq(Symbols)
  BY <1>1, <1>2, FencesAssumption DEF FencesTyped
<1> DEFINE w == sent \o rest
           token == SubSeq(rest, 1, n)
           s == HandleToken(Interceptor, token)
<1>4. /\ token \in Seq(Symbols) /\ rest' \in Seq(Symbols) /\ sent' \in Seq(Symbols)
      /\ Len(sent') = Len(sent) + n /\ sent' \o rest' = w
      /\ token = SubSeq(w, Len(sent) + 1, Len(sent) + n)
  BY <1>2, <1>3, TokenMoves
<1>5. w \in Answers /\ Interceptor \in States /\ before \in TabShows
  BY <1>1 DEF FencesTyped
<1>6. s \in States
  BY <1>4, <1>5, HandleTokenIsState
<1>7. Interceptor' = s
  BY <1>2, <1>6, BecomesIs
<1> HIDE DEF w, token
<1>8. FencesTyped'
  BY <1>1, <1>2, <1>4, <1>5, <1>6, <1>7 DEF FencesTyped
<1>9. ended' = FALSE
  BY <1>1, <1>2 DEF FencesTyped
<1>10. HoldsNothing' /\ EmitsWhatWasWritten'
  BY <1>9 DEF HoldsNothing, EmitsWhatWasWritten
<1>11. ASSUME ~retried, Regular(w)
       PROVE  Settled(s) /\ Follows(s, w, Len(sent) + n, 0, before)
  <2>1. Settled(Interceptor) /\ Follows(Interceptor, w, Len(sent), 0, before)
    BY <1>2, <1>11 DEF FencesInv, FollowsAnswer, w
  <2>r. w \in RegularAnswers
    BY <1>5, <1>11 DEF RegularAnswers
  <2>2. Len(sent) \in Nat /\ Len(sent) + n <= Len(w)
    BY <1>3, SentIsBeginning DEF w
  <2> DEFINE m == Len(sent)
  <2> HIDE DEF m
  <2>3. s = HandleToken(Interceptor, SubSeq(w, m + 1, m + n))
    BY <1>4 DEF m
  <2> HIDE DEF s
  <2>4. Settled(s) /\ Follows(s, w, m + n, 0, before)
    BY <1>5, <2>r, <2>1, <2>2, <2>3, HandleTokenFollows DEF m
  <2>5. QED
    BY <2>4 DEF m
<1>12. FollowsAnswer'
  BY <1>2, <1>4, <1>7, <1>11 DEF FollowsAnswer
<1>13. QED
  BY <1>8, <1>10, <1>12 DEF FencesInv

LEMMA FlushInv == FencesInv /\ Flush => FencesInv'
<1> SUFFICES ASSUME FencesInv, Flush PROVE FencesInv'
  OBVIOUS
<1> DEFINE s == Flushed(Interceptor)
<1>1. /\ FencesTyped /\ ~ended /\ ended' = TRUE /\ Becomes(s)
      /\ rest' = rest /\ sent' = sent /\ before' = before /\ retried' = retried
  BY DEF FencesInv, Flush
<1>2. s \in States /\ s.buffer = <<>> /\ ~s.inside
  BY <1>1, FlushedIsState DEF FencesTyped
<1>3. Interceptor' = s
  BY <1>1, <1>2, BecomesIs
<1>4. FencesTyped'
  BY <1>1, <1>2, <1>3 DEF FencesTyped
<1>5. HoldsNothing'
  BY <1>1, <1>2 DEF HoldsNothing, Becomes
<1>6. FollowsAnswer'
  BY <1>1 DEF FollowsAnswer
<1>7. ASSUME ~retried, Regular(sent \o rest) PROVE WithoutBreaks(s.out) = Reading(sent, before)
  <2> DEFINE w == sent \o rest
             m == Len(sent)
  <2>1. Settled(Interceptor) /\ Follows(Interceptor, w, m, 0, before)
    BY <1>1, <1>7 DEF FencesInv, FollowsAnswer
  <2>2. /\ w \in RegularAnswers /\ Interceptor \in States /\ before \in TabShows
        /\ Text(w, m) = sent /\ m \in Nat /\ m <= Len(w)
    BY <1>1, <1>7, SentIsBeginning DEF FencesTyped, RegularAnswers
  <2> HIDE DEF w, m
  <2>3. WithoutBreaks(s.out) = Said(Text(w, m), 1, before)
    BY <2>1, <2>2, FlushedSays
  <2>4. QED
    BY <2>2, <2>3 DEF Said, Reading
<1> HIDE DEF s
<1>8. EmitsWhatWasWritten'
  BY <1>1, <1>7 DEF EmitsWhatWasWritten, Becomes
<1>9. QED
  BY <1>4, <1>5, <1>6, <1>8 DEF FencesInv

LEMMA NextRoundInv == FencesInv /\ NextRound => FencesInv'
<1> SUFFICES ASSUME FencesInv, NextRound PROVE FencesInv'
  OBVIOUS
<1>1. /\ FencesTyped /\ HoldsNothing /\ ended
      /\ rest' \in Answers /\ ended' = FALSE /\ sent' = <<>> /\ out' = <<>>
      /\ before' = lastValid /\ retried' = FALSE
      /\ buffer' = buffer /\ inside' = inside /\ lastValid' = lastValid
  BY DEF FencesInv, NextRound
<1>2. rest' \in Seq(Symbols) /\ sent' \in Seq(Symbols)
  BY <1>1, FencesAssumption
<1>3. sent' \o rest' = rest' /\ Len(sent') = 0
  BY <1>1, <1>2, ConcatEmptySeq
<1>4. Interceptor' \in States /\ before' \in TabShows
  <2>1. <<>> \in Seq(Events)
    OBVIOUS
  <2>2. QED
    BY <1>1, <2>1 DEF FencesTyped, States, Interceptor
<1>5. /\ Interceptor'.buffer = <<>> /\ ~Interceptor'.inside
      /\ Interceptor'.out = <<>> /\ Interceptor'.lastValid = before'
  BY <1>1 DEF Interceptor, HoldsNothing
<1>6. Settled(Interceptor') /\ Follows(Interceptor', rest', 0, 0, before')
  <2> DEFINE s == Interceptor'
  <2>1. s \in States /\ s.buffer = <<>> /\ ~s.inside /\ s.out = <<>> /\ s.lastValid = before'
    BY <1>4, <1>5
  <2> HIDE DEF s
  <2>2. Settled(s) /\ Follows(s, rest', 0, 0, s.lastValid)
    BY <1>2, <2>1, BeginsAfresh
  <2>3. QED
    BY <2>1, <2>2 DEF s
<1>7. FencesTyped'
  BY <1>1, <1>2, <1>3, <1>4 DEF FencesTyped
<1>8. FollowsAnswer'
  BY <1>3, <1>6 DEF FollowsAnswer
<1>9. HoldsNothing' /\ EmitsWhatWasWritten'
  BY <1>1 DEF HoldsNothing, EmitsWhatWasWritten
<1>10. QED
  BY <1>7, <1>8, <1>9 DEF FencesInv

LEMMA RetryInv == FencesInv /\ Retry => FencesInv'
<1> SUFFICES ASSUME FencesInv, Retry PROVE FencesInv'
  OBVIOUS
<1>1. /\ FencesTyped /\ ~ended /\ ended' = ended
      /\ rest' \in Answers /\ sent' = <<>> /\ out' = <<>>
      /\ before' = lastValid /\ retried' = TRUE
      /\ buffer' = buffer /\ inside' = inside /\ lastValid' = lastValid
  BY DEF FencesInv, Retry
<1>2. rest' \in Seq(Symbols) /\ sent' \in Seq(Symbols)
  BY <1>1, FencesAssumption
<1>3. sent' \o rest' = rest'
  BY <1>1, <1>2, ConcatEmptySeq
<1>4. Interceptor' \in States /\ before' \in TabShows
  <2>1. <<>> \in Seq(Events)
    OBVIOUS
  <2>2. QED
    BY <1>1, <2>1 DEF FencesTyped, States, Interceptor
<1>5. FencesTyped'
  BY <1>1, <1>2, <1>3, <1>4 DEF FencesTyped
<1>6. HoldsNothing' /\ FollowsAnswer' /\ EmitsWhatWasWritten'
  BY <1>1 DEF HoldsNothing, FollowsAnswer, EmitsWhatWasWritten
<1>7. QED
  BY <1>5, <1>6 DEF FencesInv

\* The interceptor is invisible but for the fences: whatever an answer of regular
\* fences says and whatever was said before it, however it is cut into tokens and
\* wherever it is broken off, HandleToken and Flush write its prose and open its
\* canvases as if it had been read at once.
THEOREM FencesAreInvisible == FencesSpec => []EmitsWhatWasWritten
<1>1. FencesInv /\ [FencesNext]_fenceVars => FencesInv'
  <2> SUFFICES ASSUME FencesInv, [FencesNext]_fenceVars PROVE FencesInv'
    OBVIOUS
  <2>1. CASE Token
    BY <2>1, TokenInv
  <2>2. CASE Flush
    BY <2>2, FlushInv
  <2>3. CASE NextRound
    BY <2>3, NextRoundInv
  <2>4. CASE Retry
    BY <2>4, RetryInv
  <2>5. CASE UNCHANGED fenceVars
    BY <2>5 DEF fenceVars, FencesInv, FencesTyped, HoldsNothing, FollowsAnswer,
                EmitsWhatWasWritten, Interceptor
  <2>6. QED
    BY <2>1, <2>2, <2>3, <2>4, <2>5 DEF FencesNext
<1>2. FencesInv => EmitsWhatWasWritten
  BY DEF FencesInv
<1>3. QED
  BY FencesInitInv, <1>1, <1>2, PTL DEF FencesSpec
=============================================================================
