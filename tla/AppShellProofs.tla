--------------------------- MODULE AppShellProofs ---------------------------
(***************************************************************************)
(* The safety properties of CanvasTabs and AppShell, for any ids, pages    *)
(* and any limit of tabs: first what the operations on tabs and handoffs   *)
(* do to a panel with one tab per id and one handoff per tab, then the     *)
(* invariant of the shell around them.                                     *)
(***************************************************************************)
EXTENDS AppShell, SequenceTheorems, WellFoundedInduction, TLAPS

-----------------------------------------------------------------------------
(* Sequences *)

\* Every nonempty set of numbers has a least one.
LEMMA Minimum ==
    ASSUME NEW T, T \subseteq Nat, T # {}
    PROVE  \E x \in T : \A y \in T : x <= y
<1>1. IsWellFoundedOn(OpToRel(<, Nat), Nat)
  BY NatLessThanWellFounded
<1>2. PICK x \in T : \A y \in T : ~(<<y, x>> \in OpToRel(<, Nat))
  BY <1>1, WFMin
<1>3. \A y \in T : ~(y < x)
  BY <1>2 DEF OpToRel
<1>4. QED
  BY <1>3

\* The first of some indices, as Victim and reconcileInteractiveHandoff take it.
LEMMA FirstIs ==
    ASSUME NEW I, I \subseteq Nat, I # {}
    PROVE  LET first == CHOOSE i \in I : \A j \in I : i <= j IN
           first \in I /\ \A j \in I : first <= j
BY Minimum

\* What is left of a sequence without the entry at v.
LEMMA RemoveAtFacts ==
    ASSUME NEW S, NEW s \in Seq(S), NEW v \in 1 .. Len(s)
    PROVE  /\ RemoveAt(s, v) \in Seq(S)
           /\ Len(RemoveAt(s, v)) = Len(s) - 1
           /\ \A i \in 1 .. Len(s) - 1 : RemoveAt(s, v)[i] = s[IF i < v THEN i ELSE i + 1]
<1> DEFINE a == SubSeq(s, 1, v - 1)
           b == SubSeq(s, v + 1, Len(s))
<1>1. a \in Seq(S) /\ Len(a) = v - 1 /\ \A i \in 1 .. v - 1 : a[i] = s[i]
  BY SubSeqProperties
<1>2. b \in Seq(S) /\ Len(b) = Len(s) - v /\ \A i \in 1 .. Len(s) - v : b[i] = s[i + v]
  BY SubSeqProperties
<1>3. RemoveAt(s, v) = a \o b
  BY DEF RemoveAt
<1>4. /\ a \o b \in Seq(S) /\ Len(a \o b) = Len(a) + Len(b)
      /\ \A i \in 1 .. Len(a) + Len(b) : (a \o b)[i] = IF i <= Len(a) THEN a[i] ELSE b[i - Len(a)]
  <2> HIDE DEF a, b
  <2>1. QED
    BY <1>1, <1>2, ConcatProperties
<1>5. ASSUME NEW i \in 1 .. Len(s) - 1 PROVE (a \o b)[i] = s[IF i < v THEN i ELSE i + 1]
  <2> HIDE DEF a, b
  <2>1. CASE i < v
    BY <1>1, <1>2, <1>4, <2>1
  <2>2. CASE ~(i < v)
    <3>1. i - Len(a) \in 1 .. Len(s) - v /\ (i - Len(a)) + v = i + 1
      BY <1>1, <2>2
    <3>2. (a \o b)[i] = b[i - Len(a)]
      BY <1>1, <1>2, <1>4, <2>2
    <3>3. QED
      BY <1>2, <2>2, <3>1, <3>2
  <2>3. QED
    BY <2>1, <2>2
<1>6. QED
  <2> HIDE DEF a, b
  <2>1. Len(a) + Len(b) = Len(s) - 1
    BY <1>1, <1>2
  <2>2. QED
    BY <1>3, <1>4, <1>5, <2>1

\* Induction, on a set of numbers.
LEMMA Induction ==
    ASSUME NEW N, 0 \in N, \A n \in Nat : n \in N => n + 1 \in N
    PROVE  \A n \in Nat : n \in N
<1> DEFINE T == Nat \ N
<1>1. SUFFICES ASSUME T # {} PROVE FALSE
  OBVIOUS
<1>2. PICK x \in T : \A y \in T : x <= y
  <2>1. T \subseteq Nat
    OBVIOUS
  <2> HIDE DEF T
  <2>2. QED
    BY <1>1, <2>1, Minimum
<1>3. x # 0 /\ x - 1 \in Nat /\ x - 1 \in N
  BY <1>2
<1>4. QED
  BY <1>2, <1>3

-----------------------------------------------------------------------------
(* The tabs of other ids *)

\* The function that Without defines by recursion.
IsKept(s, id, n, kept) ==
    kept = [i \in 0 .. n |->
              IF i = 0 THEN <<>>
              ELSE IF s[i].id = id THEN kept[i - 1]
              ELSE Append(kept[i - 1], s[i])]

LEMMA KeptExists ==
    ASSUME NEW s, NEW id
    PROVE  \A n \in Nat : \E kept : IsKept(s, id, n, kept)
<1> DEFINE N == {n \in Nat : \E kept : IsKept(s, id, n, kept)}
<1>1. 0 \in N
  <2> DEFINE none == [i \in 0 .. 0 |-> <<>>]
  <2>1. IsKept(s, id, 0, none)
    BY DEF IsKept
  <2>2. QED
    BY <2>1
<1>2. ASSUME NEW n \in Nat, n \in N PROVE n + 1 \in N
  <2>1. PICK kept : IsKept(s, id, n, kept)
    BY <1>2
  <2> DEFINE more == [i \in 0 .. n + 1 |->
                        IF i = n + 1
                        THEN IF s[i].id = id THEN kept[n] ELSE Append(kept[n], s[i])
                        ELSE kept[i]]
             next(f) == [i \in 0 .. n + 1 |->
                           IF i = 0 THEN <<>>
                           ELSE IF s[i].id = id THEN f[i - 1]
                           ELSE Append(f[i - 1], s[i])]
  <2>2. ASSUME NEW i \in 0 .. n + 1 PROVE more[i] = next(more)[i]
    <3>1. CASE i = n + 1
      BY <3>1
    <3>2. CASE i # n + 1
      <4>1. i \in 0 .. n /\ (i # 0 => i - 1 \in 0 .. n)
        BY <3>2
      <4>2. kept[i] = IF i = 0 THEN <<>>
                      ELSE IF s[i].id = id THEN kept[i - 1]
                      ELSE Append(kept[i - 1], s[i])
        BY <2>1, <4>1 DEF IsKept
      <4>3. QED
        BY <3>2, <4>1, <4>2
    <3>3. QED
      BY <3>1, <3>2
  <2>3. more = next(more)
    <3>1. DOMAIN more = 0 .. n + 1 /\ DOMAIN next(more) = 0 .. n + 1
      OBVIOUS
    <3>2. QED
      BY <2>2, <3>1
  <2>4. IsKept(s, id, n + 1, more)
    BY <2>3 DEF IsKept
  <2>5. QED
    BY <2>4
<1>3. QED
  <2>1. \A n \in Nat : n \in N
    <3> HIDE DEF N
    <3>1. QED
      BY <1>1, <1>2, Induction
  <2>2. QED
    BY <2>1

LEMMA WithoutIsKept ==
    ASSUME NEW S, NEW s \in Seq(S), NEW id
    PROVE  \E kept : IsKept(s, id, Len(s), kept) /\ Without(s, id) = kept[Len(s)]
<1> DEFINE chosen == CHOOSE kept :
             kept = [i \in 0 .. Len(s) |->
                       IF i = 0 THEN <<>>
                       ELSE IF s[i].id = id THEN kept[i - 1]
                       ELSE Append(kept[i - 1], s[i])]
<1>1. Without(s, id) = chosen[Len(s)]
  BY DEF Without
<1>2. Len(s) \in Nat
  OBVIOUS
<1>3. \E kept : IsKept(s, id, Len(s), kept)
  BY <1>2, KeptExists
<1>4. IsKept(s, id, Len(s), chosen)
  BY <1>3 DEF IsKept
<1>5. QED
  BY <1>1, <1>4

\* What the filter keeps: nothing of the id, everything else, no tab twice; and
\* it is shorter exactly for having dropped something.
Keeps(s, id, n, k) ==
    /\ k \in Seq(Tab) /\ Len(k) <= n
    /\ \A a \in 1 .. Len(k) : \E j \in 1 .. n : k[a] = s[j] /\ s[j].id # id
    /\ \A j \in 1 .. n : s[j].id # id => \E a \in 1 .. Len(k) : k[a] = s[j]
    /\ (\E j \in 1 .. n : s[j].id = id) => Len(k) < n

OneTabPerId(s) == \A i, j \in 1 .. Len(s) : s[i].id = s[j].id => i = j

LEMMA WithoutFacts ==
    ASSUME NEW s \in Seq(Tab), NEW id
    PROVE  /\ Keeps(s, id, Len(s), Without(s, id))
           /\ OneTabPerId(s) => OneTabPerId(Without(s, id))
<1>1. PICK kept : IsKept(s, id, Len(s), kept) /\ Without(s, id) = kept[Len(s)]
  BY WithoutIsKept
<1> DEFINE Good(n) == n <= Len(s) =>
                         /\ Keeps(s, id, n, kept[n])
                         /\ OneTabPerId(s) => OneTabPerId(kept[n])
           N == {n \in Nat : Good(n)}
<1>2. 0 \in N
  <2>1. kept[0] = <<>>
    BY <1>1 DEF IsKept
  <2>2. kept[0] \in Seq(Tab) /\ Len(kept[0]) = 0
    BY <2>1
  <2>3. QED
    BY <2>2 DEF Keeps, OneTabPerId
<1>3. ASSUME NEW n \in Nat, n \in N PROVE n + 1 \in N
  <2> SUFFICES ASSUME n + 1 <= Len(s) PROVE Good(n + 1)
    OBVIOUS
  <2>1. /\ Keeps(s, id, n, kept[n])
        /\ OneTabPerId(s) => OneTabPerId(kept[n])
    BY <1>3
  <2>2. kept[n + 1] = IF s[n + 1].id = id THEN kept[n] ELSE Append(kept[n], s[n + 1])
    <3>1. n + 1 \in 0 .. Len(s) /\ n + 1 # 0 /\ (n + 1) - 1 = n
      OBVIOUS
    <3>2. QED
      BY <1>1, <3>1 DEF IsKept
  <2>3. s[n + 1] \in Tab
    OBVIOUS
  <2>4. CASE s[n + 1].id = id
    BY <2>1, <2>2, <2>4 DEF Keeps
  <2>5. CASE s[n + 1].id # id
    <3> DEFINE k == kept[n]  k1 == kept[n + 1]
    <3>1. k \in Seq(Tab) /\ k1 = Append(k, s[n + 1])
      BY <2>1, <2>2, <2>5 DEF Keeps
    <3>2. /\ k1 \in Seq(Tab) /\ Len(k1) = Len(k) + 1
          /\ k1[Len(k) + 1] = s[n + 1]
          /\ \A a \in 1 .. Len(k) : k1[a] = k[a]
      <4> HIDE DEF k, k1
      <4>1. QED
        BY <2>3, <3>1
    <3> HIDE DEF k1
    <3>3. Keeps(s, id, n + 1, k1)
      <4>1. k1 \in Seq(Tab) /\ Len(k1) <= n + 1
        BY <2>1, <3>2 DEF Keeps
      <4>2. \A a \in 1 .. Len(k1) : \E j \in 1 .. n + 1 : k1[a] = s[j] /\ s[j].id # id
        <5>1. TAKE a \in 1 .. Len(k1)
        <5>2. CASE a = Len(k) + 1
          BY <2>5, <3>2, <5>2
        <5>3. CASE a \in 1 .. Len(k)
          BY <2>1, <3>2, <5>3 DEF Keeps
        <5>4. QED
          BY <3>1, <3>2, <5>2, <5>3
      <4>3. \A j \in 1 .. n + 1 : s[j].id # id => \E a \in 1 .. Len(k1) : k1[a] = s[j]
        <5>1. TAKE j \in 1 .. n + 1
        <5>2. CASE j = n + 1
          BY <3>2, <5>2
        <5>3. CASE j \in 1 .. n
          BY <2>1, <3>2, <5>3 DEF Keeps
        <5>4. QED
          BY <5>2, <5>3
      <4>4. (\E j \in 1 .. n + 1 : s[j].id = id) => Len(k1) < n + 1
        BY <2>1, <2>5, <3>2 DEF Keeps
      <4>5. QED
        BY <4>1, <4>2, <4>3, <4>4 DEF Keeps
    <3>4. ASSUME OneTabPerId(s) PROVE OneTabPerId(k1)
      <4>1. OneTabPerId(k)
        BY <2>1, <3>4
      <4>2. \A a \in 1 .. Len(k) : k[a].id # s[n + 1].id
        <5>1. TAKE a \in 1 .. Len(k)
        <5>2. PICK j \in 1 .. n : k[a] = s[j]
          BY <2>1 DEF Keeps
        <5>3. QED
          BY <3>4, <5>2 DEF OneTabPerId
      <4>3. SUFFICES ASSUME NEW a \in 1 .. Len(k1), NEW b \in 1 .. Len(k1), k1[a].id = k1[b].id
                     PROVE  a = b
        BY DEF OneTabPerId
      <4>4. Len(k) \in Nat /\ Len(k1) = Len(k) + 1
        BY <3>1, <3>2
      <4>5. CASE a \in 1 .. Len(k) /\ b \in 1 .. Len(k)
        BY <3>2, <4>1, <4>3, <4>5 DEF OneTabPerId
      <4>6. CASE a \in 1 .. Len(k) /\ b = Len(k) + 1
        BY <3>2, <4>2, <4>3, <4>6
      <4>7. CASE a = Len(k) + 1 /\ b \in 1 .. Len(k)
        BY <3>2, <4>2, <4>3, <4>7
      <4>8. QED
        BY <4>4, <4>5, <4>6, <4>7
    <3>5. QED
      BY <3>3, <3>4 DEF k1
  <2>6. QED
    BY <2>4, <2>5
<1>4. \A n \in Nat : n \in N
  <2> HIDE DEF N
  <2>1. QED
    BY <1>2, <1>3, Induction
<1>5. QED
  BY <1>1, <1>4

-----------------------------------------------------------------------------
(* The operations on tabs *)

\* A panel of the right type with one tab per id.
TabsOK == TabsTypeOK /\ OneTabPerId(tabs)

\* findIndex finds the tab of an open id.
LEMMA IndexOfIs ==
    ASSUME TabsOK, NEW id \in Open
    PROVE  /\ IndexOf(id) \in 1 .. Len(tabs) /\ tabs[IndexOf(id)].id = id
           /\ \A i \in 1 .. Len(tabs) : tabs[i].id = id => i = IndexOf(id)
<1>1. DOMAIN tabs = 1 .. Len(tabs)
  BY DEF TabsOK, TabsTypeOK
<1>2. \E i \in DOMAIN tabs : tabs[i].id = id
  BY DEF Open
<1>3. IndexOf(id) \in DOMAIN tabs /\ tabs[IndexOf(id)].id = id
  BY <1>2 DEF IndexOf
<1>4. QED
  BY <1>1, <1>3 DEF TabsOK, OneTabPerId

\* Whom a new tab replaces: the oldest evictable tab, in its place in the list.
LEMMA VictimIs ==
    ASSUME TabsOK, Victim # 0
    PROVE  /\ Victim \in 1 .. Len(tabs) /\ tabs[Victim].evictable
           /\ \A k \in 1 .. Victim - 1 : ~tabs[k].evictable
<1>1. Evictable \subseteq Nat /\ Evictable # {} /\ Evictable \subseteq 1 .. Len(tabs)
  BY DEF Victim, Evictable, TabsOK, TabsTypeOK
<1>2. Victim \in Evictable /\ \A j \in Evictable : Victim <= j
  BY <1>1, FirstIs DEF Victim
<1>3. QED
  BY <1>1, <1>2 DEF Evictable, TabsOK, TabsTypeOK

\* What addOrFocusCanvasTab makes of the list.
Added(tab) ==
    /\ tabs' \in Seq(Tab) /\ OneTabPerId(tabs')
    /\ tab.id \in Open'
    /\ \A i \in 1 .. Len(tabs') :
          \/ tabs'[i] = tab
          \/ tabs'[i].id # tab.id /\ \E j \in 1 .. Len(tabs) : tabs'[i] = tabs[j]
    /\ \A i \in 1 .. Len(tabs) :
          \/ tabs[i].id \in Open'
          \/ /\ tabs[i].evictable
             /\ Len(tabs) >= MaxTabs
             /\ \A k \in 1 .. i - 1 : ~tabs[k].evictable

\* The ids of a list.
LEMMA OpenIs ==
    ASSUME tabs \in Seq(Tab)
    PROVE  Open = {tabs[i].id : i \in 1 .. Len(tabs)} /\ Open \subseteq TabIds
<1>1. DOMAIN tabs = 1 .. Len(tabs) /\ \A i \in 1 .. Len(tabs) : tabs[i] \in Tab
  OBVIOUS
<1>2. \A i \in 1 .. Len(tabs) : tabs[i].id \in TabIds
  BY <1>1 DEF Tab
<1>3. QED
  BY <1>1, <1>2 DEF Open

\* The list with a tab of a new id at its end.
LEMMA AppendFacts ==
    ASSUME NEW s \in Seq(Tab), OneTabPerId(s), NEW tab \in Tab,
           \A i \in 1 .. Len(s) : s[i].id # tab.id
    PROVE  /\ Append(s, tab) \in Seq(Tab) /\ OneTabPerId(Append(s, tab))
           /\ Len(Append(s, tab)) = Len(s) + 1 /\ Append(s, tab)[Len(s) + 1] = tab
           /\ \A i \in 1 .. Len(s) : Append(s, tab)[i] = s[i]
<1> DEFINE t == Append(s, tab)
<1>1. /\ t \in Seq(Tab) /\ Len(t) = Len(s) + 1 /\ t[Len(s) + 1] = tab
      /\ \A i \in 1 .. Len(s) : t[i] = s[i]
  OBVIOUS
<1>2. ASSUME NEW a \in 1 .. Len(t), NEW b \in 1 .. Len(t), t[a].id = t[b].id PROVE a = b
  <2> HIDE DEF t
  <2>1. CASE a \in 1 .. Len(s) /\ b \in 1 .. Len(s)
    BY <1>1, <1>2, <2>1 DEF OneTabPerId
  <2>2. CASE a = Len(s) + 1 \/ b = Len(s) + 1
    BY <1>1, <1>2, <2>2
  <2>3. QED
    BY <1>1, <2>1, <2>2
<1>3. QED
  BY <1>1, <1>2 DEF OneTabPerId

LEMMA AddOrFocusFacts ==
    ASSUME TabsOK, NEW tab \in Tab, AddOrFocus(tab)
    PROVE  Added(tab)
<1>1. /\ tabs \in Seq(Tab) /\ tab.id \in TabIds
      /\ Open = {tabs[i].id : i \in 1 .. Len(tabs)} /\ OneTabPerId(tabs)
  BY OpenIs DEF TabsOK, TabsTypeOK, Tab
<1>2. tabs' \in Seq(Tab) => Open' = {tabs'[i].id : i \in 1 .. Len(tabs')}
  BY DEF Open
<1>3. CASE tab.id \in Open
  <2> DEFINE n == IndexOf(tab.id)
  <2>1. /\ n \in 1 .. Len(tabs) /\ tabs[n].id = tab.id
        /\ \A i \in 1 .. Len(tabs) : tabs[i].id = tab.id => i = n
    BY <1>3, IndexOfIs
  <2>2. tabs' = [tabs EXCEPT ![n] = tab]
    BY <1>3 DEF AddOrFocus
  <2> HIDE DEF n
  <2>3. /\ tabs' \in Seq(Tab) /\ Len(tabs') = Len(tabs) /\ tabs'[n] = tab
        /\ \A i \in 1 .. Len(tabs) : i # n => tabs'[i] = tabs[i]
    BY <1>1, <2>1, <2>2
  <2>4. \A i \in 1 .. Len(tabs) : tabs'[i].id = tabs[i].id
    BY <2>1, <2>3
  <2>5. Open' = Open /\ OneTabPerId(tabs')
    BY <1>1, <1>2, <2>3, <2>4 DEF OneTabPerId
  <2>6. QED
    BY <1>1, <1>3, <2>1, <2>2, <2>3, <2>5 DEF Added
<1>4. CASE tab.id \notin Open
  <2> DEFINE v == IF Len(tabs) >= MaxTabs THEN Victim ELSE 0
             s == IF v = 0 THEN tabs ELSE RemoveAt(tabs, v)
  <2>1. tabs' = Append(s, tab)
    BY <1>4 DEF AddOrFocus
  <2>2. /\ s \in Seq(Tab) /\ OneTabPerId(s)
        /\ \A i \in 1 .. Len(s) : \E j \in 1 .. Len(tabs) : s[i] = tabs[j]
        /\ \A j \in 1 .. Len(tabs) : j # v => \E i \in 1 .. Len(s) : s[i] = tabs[j]
        /\ v # 0 => /\ v \in 1 .. Len(tabs) /\ tabs[v].evictable /\ Len(tabs) >= MaxTabs
                    /\ \A k \in 1 .. v - 1 : ~tabs[k].evictable
    <3>1. CASE v = 0
      BY <1>1, <3>1
    <3>2. CASE v # 0
      <4>1. /\ v \in 1 .. Len(tabs) /\ tabs[v].evictable /\ Len(tabs) >= MaxTabs
            /\ \A k \in 1 .. v - 1 : ~tabs[k].evictable
        BY <3>2, VictimIs
      <4>2. s = RemoveAt(tabs, v)
        BY <3>2
      <4> HIDE DEF v, s
      <4>3. /\ s \in Seq(Tab) /\ Len(s) = Len(tabs) - 1
            /\ \A i \in 1 .. Len(tabs) - 1 : s[i] = tabs[IF i < v THEN i ELSE i + 1]
        BY <1>1, <4>1, <4>2, RemoveAtFacts
      <4>4. OneTabPerId(s)
        <5>1. SUFFICES ASSUME NEW a \in 1 .. Len(s), NEW b \in 1 .. Len(s), s[a].id = s[b].id
                       PROVE  a = b
          BY DEF OneTabPerId
        <5> DEFINE old(i) == IF i < v THEN i ELSE i + 1
        <5>2. old(a) \in 1 .. Len(tabs) /\ old(b) \in 1 .. Len(tabs)
          BY <4>1, <4>3
        <5>3. s[a] = tabs[old(a)] /\ s[b] = tabs[old(b)]
          BY <4>3
        <5>4. old(a) = old(b)
          <6> HIDE DEF old
          <6>1. QED
            BY <1>1, <5>1, <5>2, <5>3 DEF OneTabPerId
        <5>5. QED
          BY <4>1, <5>4
      <4>5. \A i \in 1 .. Len(s) : \E j \in 1 .. Len(tabs) : s[i] = tabs[j]
        BY <4>1, <4>3
      <4>6. \A j \in 1 .. Len(tabs) : j # v => \E i \in 1 .. Len(s) : s[i] = tabs[j]
        <5>1. TAKE j \in 1 .. Len(tabs)
        <5>2. CASE j < v
          BY <4>1, <4>3, <5>2
        <5>3. CASE j > v
          <6>1. j - 1 \in 1 .. Len(s) /\ ~(j - 1 < v) /\ (j - 1) + 1 = j
            BY <4>1, <4>3, <5>3
          <6>2. s[j - 1] = tabs[j]
            BY <4>3, <6>1
          <6>3. QED
            BY <6>1, <6>2
        <5>4. QED
          BY <4>1, <5>2, <5>3
      <4>7. QED
        BY <4>1, <4>3, <4>4, <4>5, <4>6
    <3>3. QED
      BY <3>1, <3>2
  <2> HIDE DEF v, s
  <2>3. \A i \in 1 .. Len(s) : s[i].id # tab.id
    BY <1>1, <1>4, <2>2
  <2>4. /\ tabs' \in Seq(Tab) /\ OneTabPerId(tabs') /\ Len(tabs') = Len(s) + 1
        /\ tabs'[Len(s) + 1] = tab /\ \A i \in 1 .. Len(s) : tabs'[i] = s[i]
    BY <2>1, <2>2, <2>3, AppendFacts
  <2>5. Len(s) \in Nat /\ 1 .. Len(tabs') = (1 .. Len(s)) \cup {Len(s) + 1}
    BY <2>2, <2>4
  <2>6. Open' = {s[i].id : i \in 1 .. Len(s)} \cup {tab.id}
    BY <1>2, <2>4, <2>5
  <2>7. \A i \in 1 .. Len(tabs') :
          \/ tabs'[i] = tab
          \/ tabs'[i].id # tab.id /\ \E j \in 1 .. Len(tabs) : tabs'[i] = tabs[j]
    <3>1. TAKE i \in 1 .. Len(tabs')
    <3>2. CASE i = Len(s) + 1
      BY <2>4, <3>2
    <3>3. CASE i \in 1 .. Len(s)
      <4>1. tabs'[i] = s[i] /\ s[i].id # tab.id
        BY <2>3, <2>4, <3>3
      <4>2. PICK j \in 1 .. Len(tabs) : s[i] = tabs[j]
        BY <2>2, <3>3
      <4>3. QED
        BY <4>1, <4>2
    <3>4. QED
      BY <2>5, <3>2, <3>3
  <2>8. \A i \in 1 .. Len(tabs) : i # v => tabs[i].id \in Open'
    BY <2>2, <2>6
  <2>9. \A i \in 1 .. Len(tabs) :
          \/ tabs[i].id \in Open'
          \/ /\ tabs[i].evictable
             /\ Len(tabs) >= MaxTabs
             /\ \A k \in 1 .. i - 1 : ~tabs[k].evictable
    BY <2>2, <2>8
  <2>10. QED
    BY <2>4, <2>6, <2>7, <2>9 DEF Added
<1>5. QED
  BY <1>3, <1>4

\* What closeCanvasTab makes of the list.
LEMMA CloseFacts ==
    ASSUME TabsOK, NEW id, Drops(id)
    PROVE  /\ tabs' \in Seq(Tab) /\ OneTabPerId(tabs') /\ Open' = Open \ {id}
           /\ \A i \in 1 .. Len(tabs') :
                 tabs'[i].id # id /\ \E j \in 1 .. Len(tabs) : tabs'[i] = tabs[j]
           /\ id \in Open => Len(tabs') < Len(tabs)
<1>1. tabs \in Seq(Tab) /\ OneTabPerId(tabs) /\ tabs' = Without(tabs, id)
  BY DEF TabsOK, TabsTypeOK, Drops
<1>2. Keeps(tabs, id, Len(tabs), tabs') /\ OneTabPerId(tabs')
  BY <1>1, WithoutFacts
<1>3. Open = {tabs[i].id : i \in 1 .. Len(tabs)}
  BY <1>1, OpenIs
<1>4. tabs' \in Seq(Tab) /\ Open' = {tabs'[i].id : i \in 1 .. Len(tabs')}
  BY <1>2 DEF Keeps, Open
<1>5. \A i \in 1 .. Len(tabs') :
        tabs'[i].id # id /\ \E j \in 1 .. Len(tabs) : tabs'[i] = tabs[j]
  BY <1>2 DEF Keeps
<1>6. Open' \subseteq Open \ {id}
  BY <1>3, <1>4, <1>5
<1>7. Open \ {id} \subseteq Open'
  <2>1. \A j \in 1 .. Len(tabs) : tabs[j].id # id => \E a \in 1 .. Len(tabs') : tabs'[a] = tabs[j]
    BY <1>2 DEF Keeps
  <2>2. QED
    BY <1>3, <1>4, <2>1
<1>8. id \in Open => Len(tabs') < Len(tabs)
  BY <1>2, <1>3 DEF Keeps
<1>9. QED
  BY <1>2, <1>4, <1>5, <1>6, <1>7, <1>8

\* ... and of the tab that is shown: if that was closed, another one or none.
\* Nothing but None is shown of no tabs, and one of them otherwise.
Shows(t, open) == IF open = {} THEN t = None ELSE t \in open

LEMMA MovesFacts ==
    ASSUME TabsOK, NEW id \in TabIds, Drops(id)
    PROVE  /\ Moves(id) \in [Focus -> Focus]
           /\ \A t \in Focus : Shows(refocus[t], Open) => Shows(Moves(id)[t], Open')
<1>1. tabs' \in Seq(Tab) /\ Open' = Open \ {id} /\ refocus \in [Focus -> Focus]
  BY CloseFacts DEF TabsOK, TabsTypeOK
<1> DEFINE last == IF tabs' = <<>> THEN None ELSE Last(tabs').id
<1>2. Open' = {tabs'[i].id : i \in 1 .. Len(tabs')}
  BY <1>1 DEF Open
<1>3. Shows(last, Open') /\ last \in Focus
  <2>1. CASE tabs' = <<>>
    BY <1>2, <2>1 DEF Shows, Focus
  <2>2. CASE tabs' # <<>>
    <3>1. Len(tabs') \in 1 .. Len(tabs') /\ tabs'[Len(tabs')] \in Tab
      BY <1>1, <2>2
    <3>2. last = tabs'[Len(tabs')].id
      BY <2>2 DEF Last
    <3>3. QED
      BY <1>2, <3>1, <3>2 DEF Shows, Focus, Tab
  <2>3. QED
    BY <2>1, <2>2
<1>4. Moves(id) = [t \in Focus |-> IF refocus[t] # id THEN refocus[t] ELSE last]
  BY DEF Moves
<1> HIDE DEF last
<1>5. ASSUME NEW t \in Focus, Shows(refocus[t], Open) PROVE Shows(Moves(id)[t], Open')
  <2>1. None \notin TabIds
    BY CanvasTabsAssumption
  <2>2. CASE refocus[t] = id
    BY <1>3, <1>4, <2>2
  <2>3. CASE refocus[t] # id
    BY <1>1, <1>4, <1>5, <2>1, <2>3 DEF Shows
  <2>4. QED
    BY <2>2, <2>3
<1>6. QED
  BY <1>1, <1>3, <1>4, <1>5

\* A summary changes no id and nothing else of a tab.
LEMMA SummaryFacts ==
    ASSUME TabsOK, NEW id, NEW summary \in Pages, SetSummary(id, summary)
    PROVE  /\ tabs' \in Seq(Tab) /\ OneTabPerId(tabs') /\ Open' = Open
           /\ Len(tabs') = Len(tabs)
           /\ \A i \in 1 .. Len(tabs) :
                 /\ tabs[i].id # id => tabs'[i] = tabs[i]
                 /\ tabs[i].id = id => tabs'[i] = [tabs[i] EXCEPT !.summary = summary]
<1>1. tabs \in Seq(Tab) /\ OneTabPerId(tabs) /\ DOMAIN tabs = 1 .. Len(tabs)
  BY DEF TabsOK, TabsTypeOK
<1>2. tabs' = [i \in 1 .. Len(tabs) |->
                 IF tabs[i].id = id THEN [tabs[i] EXCEPT !.summary = summary] ELSE tabs[i]]
  BY <1>1 DEF SetSummary
<1>3. \A i \in 1 .. Len(tabs) : tabs'[i] \in Tab /\ tabs'[i].id = tabs[i].id
  <2>1. TAKE i \in 1 .. Len(tabs)
  <2>2. tabs[i] \in Tab
    BY <1>1
  <2>3. /\ [tabs[i] EXCEPT !.summary = summary] \in Tab
        /\ [tabs[i] EXCEPT !.summary = summary].id = tabs[i].id
    BY <2>2 DEF Tab
  <2>4. QED
    BY <1>2, <2>2, <2>3
<1>4. tabs' \in Seq(Tab) /\ Len(tabs') = Len(tabs) /\ DOMAIN tabs' = 1 .. Len(tabs)
  <2>1. Len(tabs) \in Nat
    BY <1>1
  <2>2. QED
    BY <1>2, <1>3, <2>1
<1>5. Open' = Open /\ OneTabPerId(tabs')
  BY <1>1, <1>3, <1>4 DEF Open, OneTabPerId
<1>6. QED
  BY <1>2, <1>4, <1>5

-----------------------------------------------------------------------------
(* Handoffs *)

OneHandoffPerTab(h) == \A i, j \in 1 .. Len(h) : h[i].tab = h[j].tab => i = j

\* reconcileInteractiveHandoff leaves the tab of this event with at most one
\* handoff, none if there is nothing to hand off, and the others alone.
LEMMA ReconciledFacts ==
    ASSUME handoffs \in Seq(Handoff), OneHandoffPerTab(handoffs),
           NEW id \in TabIds, NEW kind, kind = None \/ kind \in Kinds
    PROVE  LET h == Reconciled(id, kind) IN
           /\ h \in Seq(Handoff) /\ OneHandoffPerTab(h)
           /\ \A i \in 1 .. Len(h) :
                 \/ h[i].tab = id /\ kind # None
                 \/ h[i].tab # id /\ \E j \in 1 .. Len(handoffs) : h[i] = handoffs[j]
<1> DEFINE of == HandoffsOf(id)
           first == CHOOSE i \in of : \A j \in of : i <= j
           new == [tab |-> id, kind |-> kind]
<1>1. of = {i \in 1 .. Len(handoffs) : handoffs[i].tab = id}
  BY DEF HandoffsOf
<1>2. of # {} => /\ first \in 1 .. Len(handoffs) /\ handoffs[first].tab = id
                 /\ \A i \in 1 .. Len(handoffs) : handoffs[i].tab = id => i = first
  <2>1. of \subseteq Nat
    BY <1>1
  <2>2. of # {} => first \in of
    <3> HIDE DEF of
    <3>1. QED
      BY <2>1, FirstIs
  <2>3. QED
    BY <1>1, <2>2 DEF OneHandoffPerTab
<1>3. kind # None => new \in Handoff
  BY DEF Handoff
<1> HIDE DEF first
<1>4. CASE kind = None /\ of = {}
  <2>1. Reconciled(id, kind) = handoffs
    BY <1>4 DEF Reconciled
  <2>2. QED
    BY <1>1, <1>4, <2>1
<1>5. CASE kind = None /\ of # {}
  <2> DEFINE h == RemoveAt(handoffs, first)
             old(i) == IF i < first THEN i ELSE i + 1
  <2>1. Reconciled(id, kind) = h
    BY <1>5 DEF Reconciled, first
  <2>2. first \in 1 .. Len(handoffs) /\ Len(handoffs) \in Nat
    BY <1>2, <1>5
  <2>3. /\ h \in Seq(Handoff) /\ Len(h) = Len(handoffs) - 1
        /\ \A i \in 1 .. Len(handoffs) - 1 : h[i] = handoffs[old(i)]
    BY <2>2, RemoveAtFacts
  <2> HIDE DEF h
  <2>4. \A i \in 1 .. Len(h) : old(i) \in 1 .. Len(handoffs) /\ old(i) # first /\ h[i] = handoffs[old(i)]
    BY <2>2, <2>3
  <2>5. \A a, b \in 1 .. Len(h) : old(a) = old(b) => a = b
    BY <2>2
  <2> HIDE DEF old
  <2>6. OneHandoffPerTab(h)
    BY <2>4, <2>5 DEF OneHandoffPerTab
  <2>7. \A i \in 1 .. Len(h) : h[i].tab # id /\ \E j \in 1 .. Len(handoffs) : h[i] = handoffs[j]
    BY <1>2, <1>5, <2>4
  <2>8. QED
    BY <2>1, <2>3, <2>6, <2>7
<1>6. CASE kind # None /\ of = {}
  <2> DEFINE h == Append(handoffs, new)
  <2>1. Reconciled(id, kind) = h
    BY <1>6 DEF Reconciled
  <2>2. /\ h \in Seq(Handoff) /\ Len(h) = Len(handoffs) + 1
        /\ h[Len(handoffs) + 1] = new /\ \A i \in 1 .. Len(handoffs) : h[i] = handoffs[i]
    BY <1>3, <1>6
  <2>3. Len(handoffs) \in Nat /\ \A i \in 1 .. Len(handoffs) : handoffs[i].tab # id
    BY <1>1, <1>6
  <2> HIDE DEF h
  <2>4. OneHandoffPerTab(h)
    <3>1. SUFFICES ASSUME NEW a \in 1 .. Len(h), NEW b \in 1 .. Len(h), h[a].tab = h[b].tab
                   PROVE  a = b
      BY DEF OneHandoffPerTab
    <3>2. CASE a \in 1 .. Len(handoffs) /\ b \in 1 .. Len(handoffs)
      BY <2>2, <3>1, <3>2 DEF OneHandoffPerTab
    <3>3. CASE a = Len(handoffs) + 1 \/ b = Len(handoffs) + 1
      BY <2>2, <2>3, <3>1, <3>3
    <3>4. QED
      BY <2>2, <2>3, <3>2, <3>3
  <2>5. \A i \in 1 .. Len(h) :
          \/ h[i].tab = id
          \/ h[i].tab # id /\ \E j \in 1 .. Len(handoffs) : h[i] = handoffs[j]
    BY <2>2, <2>3
  <2>6. QED
    BY <1>6, <2>1, <2>2, <2>4, <2>5
<1>7. CASE kind # None /\ of # {}
  <2> DEFINE h == [handoffs EXCEPT ![first] = new]
  <2>1. Reconciled(id, kind) = h
    BY <1>7 DEF Reconciled, first
  <2>2. first \in 1 .. Len(handoffs) /\ handoffs[first].tab = id
    BY <1>2, <1>7
  <2>3. /\ h \in Seq(Handoff) /\ Len(h) = Len(handoffs) /\ h[first] = new
        /\ \A i \in 1 .. Len(handoffs) : i # first => h[i] = handoffs[i]
    BY <1>3, <1>7, <2>2
  <2> HIDE DEF h
  <2>4. \A i \in 1 .. Len(handoffs) : h[i].tab = handoffs[i].tab
    BY <2>2, <2>3
  <2>5. OneHandoffPerTab(h)
    BY <2>3, <2>4 DEF OneHandoffPerTab
  <2>6. \A i \in 1 .. Len(h) :
          \/ h[i].tab = id
          \/ h[i].tab # id /\ \E j \in 1 .. Len(handoffs) : h[i] = handoffs[j]
    BY <2>2, <2>3
  <2>7. QED
    BY <1>7, <2>1, <2>3, <2>5, <2>6
<1>8. QED
  BY <1>4, <1>5, <1>6, <1>7

\* ... seen as sets of tabs.
LEMMA ReconciledLeaves ==
    ASSUME handoffs \in Seq(Handoff), OneHandoffPerTab(handoffs),
           NEW id \in TabIds, NEW kind, kind = None \/ kind \in Kinds,
           handoffs' = Reconciled(id, kind)
    PROVE  /\ handoffs' \in Seq(Handoff) /\ OneHandoffPerTab(handoffs')
           /\ HandedOff' \subseteq (HandedOff \ {id}) \cup IF kind = None THEN {} ELSE {id}
<1>1. /\ handoffs' \in Seq(Handoff) /\ OneHandoffPerTab(handoffs')
      /\ \A i \in 1 .. Len(handoffs') :
            \/ handoffs'[i].tab = id /\ kind # None
            \/ handoffs'[i].tab # id /\ \E j \in 1 .. Len(handoffs) : handoffs'[i] = handoffs[j]
  BY ReconciledFacts
<1>2. /\ HandedOff = {handoffs[i].tab : i \in 1 .. Len(handoffs)}
      /\ HandedOff' = {handoffs'[i].tab : i \in 1 .. Len(handoffs')}
  BY <1>1 DEF HandedOff
<1>3. ASSUME NEW i \in 1 .. Len(handoffs')
      PROVE  \/ handoffs'[i].tab = id /\ kind # None
             \/ handoffs'[i].tab \in HandedOff \ {id}
  BY <1>1, <1>2
<1>4. QED
  BY <1>1, <1>2, <1>3

LEMMA HandedOffIs ==
    ASSUME handoffs \in Seq(Handoff)
    PROVE  /\ HandedOff = {handoffs[i].tab : i \in 1 .. Len(handoffs)}
           /\ HandedOff \subseteq TabIds
<1>1. DOMAIN handoffs = 1 .. Len(handoffs) /\ \A i \in 1 .. Len(handoffs) : handoffs[i] \in Handoff
  OBVIOUS
<1>2. \A i \in 1 .. Len(handoffs) : handoffs[i].tab \in TabIds
  BY <1>1 DEF Handoff
<1>3. QED
  BY <1>1, <1>2 DEF HandedOff

-----------------------------------------------------------------------------
(* The inductive invariant *)

\* What rendering will show: unless a closed tab was focused, an open tab if
\* there is one.
Focusing ==
    /\ ~pending => refocus = Kept
    /\ ~crossed => Shows(refocus[active], Open)

\* One handoff per tab, and it leads there, with two exceptions.
Handing ==
    /\ OneHandoffPerTab(handoffs)
    /\ HandedOff \subseteq Open \cup inlined \cup {bubble} \cup evicted \cup replaced

PanelInv ==
    /\ TabsTypeOK
    /\ OneTabPerId(tabs)
    /\ Focusing
    /\ Handing

\* A tab of the host is the reserved one, with the page the shell remembers.
HostPage ==
    \A i \in 1 .. Len(tabs) : tabs[i].host =>
        /\ tabs[i].id = Nav
        /\ openedDest # None /\ tabs[i].page = openedDest

\* What the shell remembers is the page of the address, once its effect has run,
\* unless either names none.
Address == ~urlDue /\ url # None /\ openedDest # None => openedDest = url

\* An override that outlives its effect says what the region says.
RegionOverride == ~regionDue /\ override # None => override = region

IInv ==
    /\ TypeOK
    /\ PanelInv
    /\ HostPage
    /\ Address
    /\ RegionOverride

-----------------------------------------------------------------------------
(* What any step does to the tabs and the transcript *)

Opens(tab, kind) ==
    /\ AddOrFocus(tab)
    /\ handoffs' = handoffs \/ handoffs' = Reconciled(tab.id, kind)
    /\ UNCHANGED <<bubble, inlined>>

Inlines(id, kind) ==
    /\ bubble' = id
    /\ handoffs' = Reconciled(id, kind)
    /\ evicted' = evicted \ {id}
    /\ replaced' = (replaced \cup {bubble}) \cap (HandedOff' \ {id})
    /\ Later
    /\ UNCHANGED <<tabs, active, refocus, crossed, inlined>>

TabStep ==
    \/ UNCHANGED tabVars
    \/ \E tab \in Tab, kind \in Kinds \cup {None} : Opens(tab, kind)
    \/ \E id \in TabIds : CloseTab(id) \/ CloseClicked(id) \/ PickTab(id)
    \/ \E id \in TabIds, kind \in Kinds \cup {None} : Inlines(id, kind)
    \/ \E summary \in Pages : SetSummary(Nav, summary)
    \/ NextTurn
    \/ Render
    \/ ClearTranscript

\* The reserved tab with its page is a tab of the host that stays.
NavTab(dest) == [id |-> Nav, host |-> TRUE, evictable |-> FALSE,
                 page |-> dest, summary |-> dest]

LEMMA OpenHostTabIs ==
    ASSUME NEW dest \in Pages, OpenHostTab(Nav, dest)
    PROVE  /\ NavTab(dest) \in Tab /\ AddOrFocus(NavTab(dest))
           /\ Opens(NavTab(dest), None)
BY DEF OpenHostTab, NavTab, Tab, TabIds, Opens

\* What the engine's event does.
EventTab(event) == [id |-> event.id, host |-> FALSE, evictable |-> TRUE,
                    page |-> None, summary |-> None]

LEMMA EventIs ==
    ASSUME NEW event \in Events, NEW inline, CanvasOpen(event, inline)
    PROVE  /\ event.id \in TabIds
           /\ HandoffOf(event) \in Kinds \cup {None}
           /\ EventTab(event) \in Tab
           /\ \/ event.close /\ CloseTab(event.id)
              \/ ~event.close /\ Inlines(event.id, HandoffOf(event))
              \/ ~event.close /\ Opens(EventTab(event), HandoffOf(event))
<1>1. event.id \in TabIds /\ event.handoff \in Kinds \cup {None}
  BY DEF Events, TabIds, Kinds
<1>2. EventTab(event) \in Tab /\ HandoffOf(event) \in Kinds \cup {None}
  BY <1>1 DEF EventTab, Tab, HandoffOf
<1>3. CanvasInlines(event) => ~event.close /\ Inlines(event.id, HandoffOf(event))
  BY DEF CanvasInlines, Inlines
<1>4. CanvasOpens(event) => ~event.close /\ Opens(EventTab(event), HandoffOf(event))
  BY DEF CanvasOpens, Opens, EventTab
<1>5. QED
  BY <1>1, <1>2, <1>3, <1>4 DEF CanvasOpen, CanvasCloses

LEMMA EventStep ==
    ASSUME NEW event \in Events, NEW inline, CanvasOpen(event, inline)
    PROVE  TabStep
<1>1. CASE CloseTab(event.id)
  BY <1>1, EventIs DEF TabStep
<1>2. CASE Inlines(event.id, HandoffOf(event))
  BY <1>2, EventIs DEF TabStep
<1>3. CASE Opens(EventTab(event), HandoffOf(event))
  BY <1>3, EventIs DEF TabStep
<1>4. QED
  BY <1>1, <1>2, <1>3, EventIs

LEMMA HostTabStep ==
    ASSUME NEW dest \in Pages, OpenHostTab(Nav, dest)
    PROVE  TabStep
BY OpenHostTabIs DEF TabStep

LEMMA DestinationStep ==
    ASSUME NEW id \in TabIds, FocusDestination(id)
    PROVE  TabStep
BY DEF FocusDestination, TabStep

\* Every step of the panel of CanvasTabs is such a step, ...
LEMMA PanelTabStep ==
    ASSUME [TabsNext]_tabVars
    PROVE  TabStep
<1>1. ASSUME NEW event \in Events, NEW inline \in BOOLEAN, CanvasOpen(event, inline) PROVE TabStep
  BY <1>1, EventStep
<1>2. ASSUME NEW page \in Pages, OpenHostTab(Nav, page) PROVE TabStep
  BY <1>2, HostTabStep
<1>3. ASSUME NEW id \in TabIds, CloseClicked(id) \/ PickTab(id) PROVE TabStep
  BY <1>3 DEF TabStep
<1>4. ASSUME NEW id \in TabIds, FocusDestination(id) PROVE TabStep
  BY <1>4, DestinationStep
<1>5. NextTurn \/ ClearTranscript \/ Render \/ UNCHANGED tabVars => TabStep
  BY DEF TabStep
<1>6. QED
  BY <1>1, <1>2, <1>3, <1>4, <1>5 DEF TabsNext

\* ... and every step of the shell.
LEMMA ShellTabStep ==
    ASSUME TypeOK, [Next]_vars
    PROVE  TabStep
<1>1. ASSUME NEW dest \in Pages, OpenNav(dest) PROVE TabStep
  BY <1>1, HostTabStep DEF OpenNav, OpenDestinationTab
<1>2. CASE UrlEffect
  <2>1. url \in Pages \/ UNCHANGED tabVars
    BY <1>2 DEF UrlEffect, TypeOK
  <2>2. QED
    BY <1>2, <2>1, HostTabStep DEF UrlEffect, OpenDestinationTab, TabStep
<1>3. ASSUME NEW event \in Events, EngineCanvas(event) PROVE TabStep
  BY <1>3, EventStep DEF EngineCanvas
<1>4. CASE PagePublishes
  <2>1. PICK summary \in {loading, None} : PublishSummary(summary)
    BY <1>4 DEF PagePublishes
  <2>2. (IF summary = None THEN openedDest ELSE summary) \in Pages \cup {None}
    BY <2>1 DEF TypeOK
  <2>3. QED
    BY <2>1, <2>2 DEF PublishSummary, TabStep
<1>5. CASE PanelRenders
  BY <1>5 DEF PanelRenders, TabStep
<1>6. ASSUME NEW id \in TabIds, UserClosesTab(id) PROVE TabStep
  BY <1>6 DEF UserClosesTab, TabStep
<1>7. ASSUME NEW id \in TabIds, UserPicksTab(id) PROVE TabStep
  BY <1>7 DEF UserPicksTab, TabStep
<1>8. ASSUME NEW id \in TabIds, ActivateHandoff(id) PROVE TabStep
  BY <1>8, DestinationStep DEF ActivateHandoff
<1>9. CASE UserClears
  BY <1>9 DEF UserClears, TabStep
<1>10. CASE UserSends
  BY <1>10 DEF UserSends, TabStep
<1>11. ASSUME NEW r \in Regions, PickRegion(r) PROVE UNCHANGED tabVars
  BY <1>11 DEF PickRegion
<1>12. ASSUME NEW dest, HostUrl(dest) PROVE UNCHANGED tabVars
  BY <1>12 DEF HostUrl
<1>13. PageLoads \/ Resize \/ RegionEffect \/ UNCHANGED vars => UNCHANGED tabVars
  BY DEF PageLoads, Resize, RegionEffect, vars
<1>14. CASE UNCHANGED tabVars
  BY <1>14 DEF TabStep
<1>15. QED
  BY <1>1, <1>2, <1>3, <1>4, <1>5, <1>6, <1>7, <1>8, <1>9, <1>10, <1>11, <1>12, <1>13, <1>14 DEF Next, EngineStep, ShellStep

-----------------------------------------------------------------------------
(* The panel, step by step *)

\* A screen of a panel of the right type.
LEMMA ScreenIs ==
    ASSUME tabs \in Seq(Tab), handoffs \in Seq(Handoff)
    PROVE  Screen \in [tabs : SUBSET TabIds, handoffs : SUBSET TabIds]
BY OpenIs, HandedOffIs DEF Screen

LEMMA KeptIs == Kept \in [Focus -> Focus] /\ \A t \in Focus : Kept[t] = t
BY DEF Kept

\* A rendering of the panel as the events so far make it.
LEMMA RenderedIs ==
    ASSUME tabs' \in Seq(Tab), handoffs' \in Seq(Handoff), active' \in Focus, AtOnce,
           ~crossed' => Shows(active', Open')
    PROVE  /\ pending' \in BOOLEAN /\ refocus' \in [Focus -> Focus] /\ Focusing'
           /\ screen' \in [tabs : SUBSET TabIds, handoffs : SUBSET TabIds]
<1>1. Screen' \in [tabs : SUBSET TabIds, handoffs : SUBSET TabIds]
  <2>1. /\ DOMAIN tabs' = 1 .. Len(tabs') /\ \A i \in 1 .. Len(tabs') : tabs'[i] \in Tab
        /\ DOMAIN handoffs' = 1 .. Len(handoffs')
        /\ \A i \in 1 .. Len(handoffs') : handoffs'[i] \in Handoff
    OBVIOUS
  <2>2. \A i \in 1 .. Len(tabs') : tabs'[i].id \in TabIds
    BY <2>1 DEF Tab
  <2>3. \A i \in 1 .. Len(handoffs') : handoffs'[i].tab \in TabIds
    BY <2>1 DEF Handoff
  <2>4. Open' \subseteq TabIds /\ HandedOff' \subseteq TabIds
    BY <2>1, <2>2, <2>3 DEF Open, HandedOff
  <2>5. QED
    BY <2>4 DEF Screen
<1>2. refocus' = Kept /\ pending' = FALSE /\ screen' = Screen' /\ Kept' = Kept
  BY DEF AtOnce, Kept, Focus, TabIds
<1>3. refocus'[active'] = active'
  BY <1>2, KeptIs
<1>4. QED
  BY <1>1, <1>2, <1>3, KeptIs DEF Focusing

LEMMA OpensPanel ==
    ASSUME PanelInv, NEW tab \in Tab, NEW kind \in Kinds \cup {None}, Opens(tab, kind)
    PROVE  PanelInv'
<1>1. /\ TabsOK /\ tab.id \in TabIds /\ handoffs \in Seq(Handoff) /\ OneHandoffPerTab(handoffs)
      /\ refocus \in [Focus -> Focus]
  BY DEF TabsOK, PanelInv, TabsTypeOK, Handing, Tab
<1>2. /\ AddOrFocus(tab) /\ bubble' = bubble /\ inlined' = inlined
      /\ handoffs' = handoffs \/ handoffs' = Reconciled(tab.id, kind)
  BY DEF Opens
<1>3. /\ active' = tab.id /\ crossed' = (tab.id \notin Open' \/ refocus[tab.id] # tab.id)
      /\ evicted' = (evicted \cup (Open \ Open')) \cap (HandedOff' \ {tab.id})
      /\ replaced' = replaced \cap (HandedOff' \ {tab.id})
      /\ pending' = TRUE /\ screen' = screen /\ refocus' = refocus
  BY <1>2 DEF AddOrFocus, Focused, Later
<1>4. tabs' \in Seq(Tab) /\ OneTabPerId(tabs') /\ tab.id \in Open'
  BY <1>1, <1>2, AddOrFocusFacts DEF Added
<1>5. /\ handoffs' \in Seq(Handoff) /\ OneHandoffPerTab(handoffs')
      /\ HandedOff' \subseteq HandedOff \cup {tab.id}
  <2>1. CASE handoffs' = handoffs
    BY <1>1, <2>1 DEF HandedOff
  <2>2. CASE handoffs' = Reconciled(tab.id, kind)
    BY <1>1, <2>2, ReconciledLeaves
  <2>3. QED
    BY <1>2, <2>1, <2>2
<1>6. HandedOff \subseteq Open \cup inlined \cup {bubble} \cup evicted \cup replaced
  BY DEF PanelInv, Handing
<1>7. Handing'
  BY <1>2, <1>3, <1>4, <1>5, <1>6 DEF Handing
<1>8. Focusing'
  BY <1>3, <1>4 DEF Focusing, Shows
<1>9. TabsTypeOK'
  <2>1. HandedOff \subseteq TabIds
    BY <1>1, HandedOffIs
  <2>2. HandedOff' \subseteq TabIds
    BY <1>1, <1>5, <2>1
  <2>3. evicted' \subseteq TabIds /\ replaced' \subseteq TabIds
    BY <1>3, <2>2
  <2>4. active' \in Focus /\ crossed' \in BOOLEAN
    BY <1>1, <1>3 DEF Focus
  <2>5. QED
    BY <1>2, <1>3, <1>4, <1>5, <2>3, <2>4 DEF PanelInv, TabsTypeOK, Focus, TabIds
<1>10. QED
  BY <1>4, <1>7, <1>8, <1>9 DEF PanelInv

\* What both closings do to the list and the transcript.
LEMMA DropsPanel ==
    ASSUME PanelInv, NEW id \in TabIds, Drops(id)
    PROVE  /\ tabs' \in Seq(Tab) /\ OneTabPerId(tabs')
           /\ handoffs' \in Seq(Handoff) /\ Handing'
           /\ evicted' \subseteq TabIds /\ replaced' \subseteq TabIds
           /\ UNCHANGED <<bubble, inlined, crossed>>
           /\ Moves(id) \in [Focus -> Focus] /\ Moves(id)[active] \in Focus
           /\ ~crossed => Shows(Moves(id)[active], Open')
<1>1. /\ TabsOK /\ handoffs \in Seq(Handoff) /\ OneHandoffPerTab(handoffs)
      /\ active \in Focus /\ evicted \subseteq TabIds /\ replaced \subseteq TabIds
      /\ HandedOff \subseteq Open \cup inlined \cup {bubble} \cup evicted \cup replaced
      /\ ~crossed => Shows(refocus[active], Open)
  BY DEF TabsOK, PanelInv, TabsTypeOK, Handing, Focusing
<1>2. tabs' \in Seq(Tab) /\ OneTabPerId(tabs') /\ Open' = Open \ {id}
  BY <1>1, CloseFacts
<1>3. /\ Moves(id) \in [Focus -> Focus]
      /\ ~crossed => Shows(Moves(id)[active], Open')
  BY <1>1, MovesFacts
<1>4. /\ handoffs' = Reconciled(id, None) /\ UNCHANGED <<bubble, inlined, crossed>>
      /\ evicted' = evicted \ {id} /\ replaced' = replaced \ {id}
  BY DEF Drops
<1>5. handoffs' \in Seq(Handoff) /\ OneHandoffPerTab(handoffs') /\ HandedOff' \subseteq HandedOff \ {id}
  BY <1>1, <1>4, ReconciledLeaves
<1>6. Handing'
  BY <1>1, <1>2, <1>4, <1>5 DEF Handing
<1>7. QED
  BY <1>1, <1>2, <1>3, <1>4, <1>5, <1>6

LEMMA ClosesPanel ==
    ASSUME PanelInv, NEW id \in TabIds, CloseTab(id)
    PROVE  PanelInv'
<1>1. /\ tabs' \in Seq(Tab) /\ OneTabPerId(tabs')
      /\ handoffs' \in Seq(Handoff) /\ Handing'
      /\ evicted' \subseteq TabIds /\ replaced' \subseteq TabIds
      /\ UNCHANGED <<bubble, inlined, crossed>>
      /\ Moves(id) \in [Focus -> Focus] /\ Moves(id)[active] \in Focus
      /\ ~crossed => Shows(Moves(id)[active], Open')
  BY DropsPanel DEF CloseTab
<1>2. pending' = TRUE /\ screen' = screen
  BY DEF CloseTab, Later
<1>3. active \in Focus /\ refocus \in [Focus -> Focus] /\ (~pending => refocus = Kept)
  BY DEF PanelInv, TabsTypeOK, Focusing
<1>4. /\ active' \in Focus /\ refocus' \in [Focus -> Focus]
      /\ refocus'[active'] = Moves(id)[active]
  <2>1. CASE ~pending /\ active' = Moves(id)[active] /\ UNCHANGED refocus
    BY <1>1, <1>3, <2>1, KeptIs
  <2>2. CASE refocus' = Moves(id) /\ UNCHANGED active
    BY <1>1, <1>3, <2>2
  <2>3. QED
    BY <2>1, <2>2 DEF CloseTab
<1>5. Focusing'
  BY <1>1, <1>2, <1>4 DEF Focusing
<1>6. TabsTypeOK'
  BY <1>1, <1>2, <1>4 DEF PanelInv, TabsTypeOK, Focus, TabIds
<1>7. QED
  BY <1>1, <1>5, <1>6 DEF PanelInv

LEMMA ClicksPanel ==
    ASSUME PanelInv, NEW id \in TabIds, CloseClicked(id)
    PROVE  PanelInv'
<1>1. /\ tabs' \in Seq(Tab) /\ OneTabPerId(tabs')
      /\ handoffs' \in Seq(Handoff) /\ Handing'
      /\ evicted' \subseteq TabIds /\ replaced' \subseteq TabIds
      /\ UNCHANGED <<bubble, inlined, crossed>>
      /\ Moves(id)[active] \in Focus
      /\ ~crossed => Shows(Moves(id)[active], Open')
  BY DropsPanel DEF CloseClicked
<1>2. active' = Moves(id)[active] /\ AtOnce
  BY DEF CloseClicked
<1>3. /\ pending' \in BOOLEAN /\ refocus' \in [Focus -> Focus] /\ Focusing'
      /\ screen' \in [tabs : SUBSET TabIds, handoffs : SUBSET TabIds]
  BY <1>1, <1>2, RenderedIs
<1>4. TabsTypeOK'
  BY <1>1, <1>2, <1>3 DEF PanelInv, TabsTypeOK, Focus, TabIds
<1>5. QED
  BY <1>1, <1>3, <1>4 DEF PanelInv

\* A rendering that leaves the list alone: of what was asked for, or of a tab
\* the user picks.
LEMMA RendersPanel ==
    ASSUME PanelInv, tabs' = tabs, AtOnce,
           handoffs' \in Seq(Handoff), Handing',
           \/ active' = refocus[active] /\ crossed' = crossed
           \/ \E id \in TabIds : active' = refocus[id] /\ Focused(id),
           bubble' \in Focus, inlined' \subseteq TabIds,
           evicted' \subseteq TabIds, replaced' \subseteq TabIds
    PROVE  PanelInv'
<1>1. /\ tabs' \in Seq(Tab) /\ OneTabPerId(tabs') /\ Open' = Open
      /\ active \in Focus /\ refocus \in [Focus -> Focus] /\ crossed \in BOOLEAN
      /\ ~crossed => Shows(refocus[active], Open)
  BY DEF PanelInv, TabsTypeOK, Focusing, Open
<1>2. active' \in Focus /\ crossed' \in BOOLEAN /\ (~crossed' => Shows(active', Open'))
  <2>1. CASE active' = refocus[active] /\ crossed' = crossed
    BY <1>1, <2>1
  <2>2. ASSUME NEW id \in TabIds, active' = refocus[id], Focused(id)
        PROVE  active' \in Focus /\ crossed' \in BOOLEAN /\ (~crossed' => Shows(active', Open'))
    BY <1>1, <2>2 DEF Focused, Shows, Focus
  <2>3. QED
    BY <2>1, <2>2
<1>3. /\ pending' \in BOOLEAN /\ refocus' \in [Focus -> Focus] /\ Focusing'
      /\ screen' \in [tabs : SUBSET TabIds, handoffs : SUBSET TabIds]
  BY <1>1, <1>2, RenderedIs
<1>4. TabsTypeOK'
  BY <1>1, <1>2, <1>3 DEF TabsTypeOK, Focus, TabIds
<1>5. QED
  BY <1>1, <1>3, <1>4 DEF PanelInv

LEMMA InlinesPanel ==
    ASSUME PanelInv, NEW id \in TabIds, NEW kind \in Kinds \cup {None}, Inlines(id, kind)
    PROVE  PanelInv'
<1>1. handoffs \in Seq(Handoff) /\ OneHandoffPerTab(handoffs)
  BY DEF PanelInv, TabsTypeOK, Handing
<1>2. /\ handoffs' \in Seq(Handoff) /\ OneHandoffPerTab(handoffs')
      /\ HandedOff' \subseteq HandedOff \cup {id}
  BY <1>1, ReconciledLeaves DEF Inlines
<1>3. /\ bubble' = id /\ evicted' = evicted \ {id} /\ inlined' = inlined
      /\ replaced' = (replaced \cup {bubble}) \cap (HandedOff' \ {id})
      /\ pending' = TRUE /\ screen' = screen /\ tabs' = tabs /\ active' = active
      /\ refocus' = refocus /\ crossed' = crossed
  BY DEF Inlines, Later
<1>4. Open' = Open
  BY <1>3 DEF Open
<1>5. Handing'
  BY <1>2, <1>3, <1>4 DEF PanelInv, Handing
<1>6. HandedOff \subseteq TabIds
  BY <1>1, HandedOffIs
<1>7. replaced' \subseteq TabIds
  BY <1>2, <1>3, <1>6
<1>8. Focusing'
  BY <1>3, <1>4 DEF PanelInv, Focusing
<1>9. QED
  BY <1>2, <1>3, <1>5, <1>7, <1>8 DEF PanelInv, TabsTypeOK, Focus, TabIds

LEMMA PanelStep ==
    ASSUME PanelInv, TabStep
    PROVE  PanelInv'
<1>a. handoffs \in Seq(Handoff) /\ Handing /\ TabsTypeOK /\ TabsOK
  BY DEF PanelInv, TabsTypeOK, TabsOK
<1>1. CASE UNCHANGED tabVars
  <2>1. UNCHANGED <<Open, HandedOff, Kept>>
    BY <1>1 DEF tabVars, focusVars, bubbleVars, Open, HandedOff, Kept, Focus, TabIds
  <2>2. QED
    BY <1>1, <2>1 DEF tabVars, focusVars, bubbleVars, PanelInv, TabsTypeOK, Focusing, Handing, Focus, TabIds
<1>2. ASSUME NEW tab \in Tab, NEW kind \in Kinds \cup {None}, Opens(tab, kind) PROVE PanelInv'
  BY <1>2, OpensPanel
<1>3. ASSUME NEW id \in TabIds, CloseTab(id) PROVE PanelInv'
  BY <1>3, ClosesPanel
<1>4. ASSUME NEW id \in TabIds, CloseClicked(id) PROVE PanelInv'
  BY <1>4, ClicksPanel
<1>5. ASSUME NEW id \in TabIds, PickTab(id) PROVE PanelInv'
  <2>1. /\ tabs' = tabs /\ handoffs' = handoffs /\ UNCHANGED <<bubble, inlined, replaced, evicted>>
        /\ active' = refocus[id] /\ Focused(id) /\ AtOnce
    BY <1>5 DEF PickTab, bubbleVars
  <2>2. Handing'
    BY <1>a, <2>1 DEF Handing, Open, HandedOff
  <2>3. QED
    BY <1>a, <2>1, <2>2, RendersPanel DEF TabsTypeOK
<1>6. ASSUME NEW id \in TabIds, NEW kind \in Kinds \cup {None}, Inlines(id, kind) PROVE PanelInv'
  BY <1>6, InlinesPanel
<1>7. ASSUME NEW summary \in Pages, SetSummary(Nav, summary) PROVE PanelInv'
  <2>1. tabs' \in Seq(Tab) /\ OneTabPerId(tabs') /\ Open' = Open
    BY <1>7, <1>a, SummaryFacts
  <2>2. /\ UNCHANGED <<active, refocus, crossed, handoffs, bubble, inlined, replaced, evicted>>
        /\ pending' = TRUE /\ screen' = screen
    BY <1>7 DEF SetSummary, bubbleVars, Later
  <2>3. HandedOff' = HandedOff
    BY <2>2 DEF HandedOff
  <2>4. QED
    BY <2>1, <2>2, <2>3 DEF PanelInv, TabsTypeOK, Focusing, Handing, Focus, TabIds
<1>8. CASE NextTurn
  <2>1. /\ inlined' = inlined \cup ({bubble} \ {None}) /\ bubble' = None
        /\ UNCHANGED <<tabs, active, refocus, pending, screen, crossed, handoffs, evicted, replaced>>
    BY <1>8 DEF NextTurn, focusVars
  <2>2. UNCHANGED <<Open, HandedOff, Kept>>
    BY <2>1 DEF Open, HandedOff, Kept, Focus, TabIds
  <2>3. HandedOff \subseteq TabIds /\ None \notin TabIds
    BY <1>a, HandedOffIs, CanvasTabsAssumption
  <2>4. Handing'
    BY <1>a, <2>1, <2>2, <2>3 DEF Handing
  <2>5. inlined' \subseteq TabIds
    BY <1>a, <2>1 DEF TabsTypeOK, Focus
  <2>6. QED
    BY <2>1, <2>2, <2>4, <2>5 DEF PanelInv, TabsTypeOK, Focusing, Focus, TabIds
<1>9. CASE Render
  <2>1. /\ tabs' = tabs /\ handoffs' = handoffs /\ UNCHANGED <<bubble, inlined, replaced, evicted>>
        /\ active' = refocus[active] /\ crossed' = crossed /\ AtOnce
    BY <1>9 DEF Render, bubbleVars
  <2>2. Handing'
    BY <1>a, <2>1 DEF Handing, Open, HandedOff
  <2>3. QED
    BY <1>a, <2>1, <2>2, RendersPanel DEF TabsTypeOK
<1>10. CASE ClearTranscript
  <2>1. /\ tabs' = tabs /\ handoffs' = <<>> /\ bubble' = None /\ inlined' = {}
        /\ evicted' = {} /\ replaced' = {}
        /\ active' = refocus[active] /\ crossed' = crossed /\ AtOnce
    BY <1>10 DEF ClearTranscript
  <2>2. handoffs' \in Seq(Handoff) /\ Len(handoffs') = 0 /\ HandedOff' = {}
    BY <2>1 DEF HandedOff
  <2>3. Handing'
    BY <2>2 DEF Handing, OneHandoffPerTab
  <2>4. QED
    BY <2>1, <2>2, <2>3, RendersPanel DEF Focus
<1>11. QED
  BY <1>1, <1>2, <1>3, <1>4, <1>5, <1>6, <1>7, <1>8, <1>9, <1>10 DEF TabStep

\* The panel starts without tabs and without a transcript.
LEMMA PanelInit ==
    ASSUME TabsInit
    PROVE  PanelInv
<1>1. /\ tabs = <<>> /\ handoffs = <<>> /\ tabs \in Seq(Tab) /\ handoffs \in Seq(Handoff)
      /\ Open = {} /\ HandedOff = {}
  BY DEF TabsInit, Open, HandedOff
<1>2. screen \in [tabs : SUBSET TabIds, handoffs : SUBSET TabIds]
  BY <1>1, ScreenIs DEF TabsInit
<1>3. refocus \in [Focus -> Focus] /\ active = None /\ active \in Focus /\ refocus[active] = None
  BY KeptIs DEF TabsInit, Focus
<1>4. TabsTypeOK
  BY <1>1, <1>2, <1>3 DEF TabsInit, TabsTypeOK, Focus
<1>5. QED
  BY <1>1, <1>3, <1>4 DEF TabsInit, PanelInv, Focusing, Handing, Shows, OneTabPerId, OneHandoffPerTab

-----------------------------------------------------------------------------
(* The shell, step by step *)

\* What the shell remembers and shows keeps its type.
LEMMA ChromeTypeStep ==
    ASSUME TypeOK, [Next]_vars
    PROVE  /\ {small', urlDue', regionDue'} \subseteq BOOLEAN
           /\ {openedDest', url', loading'} \subseteq Pages \cup {None}
           /\ region' \in Regions /\ override' \in {"canvas", None}
<1> DEFINE ChromeOK ==
             /\ {small, urlDue, regionDue} \subseteq BOOLEAN
             /\ {openedDest, url, loading} \subseteq Pages \cup {None}
             /\ region \in Regions /\ override \in {"canvas", None}
<1> USE DEF chromeVars, destVars
<1>a. ChromeOK /\ mobileLayout \in BOOLEAN
  BY AppShellAssumption DEF TypeOK
<1>1. ASSUME NEW dest \in Pages, OpenNav(dest) PROVE ChromeOK'
  BY <1>1, <1>a DEF OpenNav, OpenDestinationTab, Regions
<1>2. ASSUME NEW dest \in Pages \cup {None}, HostUrl(dest) PROVE ChromeOK'
  BY <1>2, <1>a DEF HostUrl
<1>3. CASE UrlEffect
  BY <1>3, <1>a DEF UrlEffect, OpenDestinationTab
<1>4. ASSUME NEW event \in Events, EngineCanvas(event) PROVE ChromeOK'
  BY <1>4, <1>a DEF EngineCanvas
<1>5. CASE PageLoads
  BY <1>5, <1>a DEF PageLoads
<1>6. CASE PagePublishes
  BY <1>6, <1>a DEF PagePublishes
<1>7. CASE PanelRenders
  BY <1>7, <1>a DEF PanelRenders
<1>8. ASSUME NEW id \in TabIds, UserClosesTab(id) PROVE ChromeOK'
  BY <1>8, <1>a DEF UserClosesTab
<1>9. ASSUME NEW id \in TabIds, UserPicksTab(id) PROVE ChromeOK'
  BY <1>9, <1>a DEF UserPicksTab
<1>10. ASSUME NEW id \in TabIds, ActivateHandoff(id) PROVE ChromeOK'
  BY <1>10, <1>a DEF ActivateHandoff, Regions
<1>11. CASE UserClears
  BY <1>11, <1>a DEF UserClears
<1>12. CASE UserSends
  BY <1>12, <1>a DEF UserSends
<1>13. ASSUME NEW r \in Regions, PickRegion(r) PROVE ChromeOK'
  BY <1>13, <1>a DEF PickRegion
<1>14. CASE Resize
  BY <1>14, <1>a DEF Resize
<1>15. CASE RegionEffect
  BY <1>15, <1>a DEF RegionEffect
<1>16. CASE UNCHANGED vars
  BY <1>16, <1>a DEF vars
<1>17. QED
  BY <1>1, <1>2, <1>3, <1>4, <1>5, <1>6, <1>7, <1>8, <1>9, <1>10, <1>11, <1>12, <1>13, <1>14, <1>15, <1>16 DEF Next, EngineStep, ShellStep

\* Of the tabs only a page the shell opens is the host's, and what the shell
\* remembers changes with it, or when the engine closes the reserved tab.
LEMMA HostPageStep ==
    ASSUME TypeOK, PanelInv, HostPage, [Next]_vars
    PROVE  HostPage'
<1>a. TabsOK /\ tabs \in Seq(Tab)
  BY DEF TabsOK, TabsTypeOK, PanelInv
<1>b. ASSUME UNCHANGED <<tabs, openedDest>> PROVE HostPage'
  BY <1>b DEF HostPage
<1>c. ASSUME NEW dest \in Pages, OpenDestinationTab(dest) PROVE HostPage'
  <2>1. NavTab(dest) \in Tab /\ AddOrFocus(NavTab(dest)) /\ openedDest' = dest
    BY <1>c, OpenHostTabIs DEF OpenDestinationTab
  <2>2. Added(NavTab(dest)) /\ dest # None
    BY <1>a, <2>1, AddOrFocusFacts, CanvasTabsAssumption
  <2>3. ASSUME NEW i \in 1 .. Len(tabs'), tabs'[i].host
        PROVE  tabs'[i].id = Nav /\ tabs'[i].page = dest
    <3>1. CASE tabs'[i] = NavTab(dest)
      BY <3>1 DEF NavTab
    <3>2. CASE tabs'[i].id # NavTab(dest).id /\ \E j \in 1 .. Len(tabs) : tabs'[i] = tabs[j]
      BY <2>3, <3>2 DEF HostPage, NavTab
    <3>3. QED
      BY <2>2, <3>1, <3>2 DEF Added
  <2>4. QED
    BY <2>1, <2>2, <2>3 DEF HostPage
<1>d. ASSUME NEW id \in TabIds, Drops(id), openedDest' = openedDest PROVE HostPage'
  BY <1>a, <1>d, CloseFacts DEF HostPage
<1> USE DEF chromeVars, destVars
<1>1. ASSUME NEW dest \in Pages, OpenNav(dest) PROVE HostPage'
  BY <1>1, <1>c DEF OpenNav
<1>2. ASSUME NEW dest \in Pages \cup {None}, HostUrl(dest) PROVE HostPage'
  BY <1>2, <1>b DEF HostUrl, tabVars
<1>3. CASE UrlEffect
  BY <1>3, <1>b, <1>c DEF UrlEffect, TypeOK, tabVars
<1>4. ASSUME NEW event \in Events, EngineCanvas(event) PROVE HostPage'
  <2>1. CanvasOpen(event, small /\ ~mobileLayout)
    BY <1>4 DEF EngineCanvas
  <2>2. CASE event.close /\ CloseTab(event.id) /\ event.id # Nav
    BY <1>4, <1>d, <2>1, <2>2, EventIs DEF EngineCanvas, CloseTab
  <2>3. CASE event.close /\ CloseTab(event.id) /\ event.id = Nav
    <3>1. \A i \in 1 .. Len(tabs') : tabs'[i].id # Nav /\ \E j \in 1 .. Len(tabs) : tabs'[i] = tabs[j]
      BY <1>a, <2>3, CloseFacts DEF CloseTab
    <3>2. QED
      BY <3>1 DEF HostPage
  <2>4. CASE ~event.close /\ Inlines(event.id, HandoffOf(event))
    BY <1>4, <1>b, <2>4 DEF EngineCanvas, Inlines
  <2>5. CASE ~event.close /\ Opens(EventTab(event), HandoffOf(event))
    <3>1. Added(EventTab(event))
      BY <1>a, <2>1, <2>5, EventIs, AddOrFocusFacts DEF Opens
    <3>2. \A i \in 1 .. Len(tabs') : tabs'[i].host => \E j \in 1 .. Len(tabs) : tabs'[i] = tabs[j]
      BY <3>1 DEF Added, EventTab
    <3>3. openedDest' = openedDest
      BY <1>4, <2>5 DEF EngineCanvas
    <3>4. QED
      BY <3>2, <3>3 DEF HostPage
  <2>6. QED
    BY <2>1, <2>2, <2>3, <2>4, <2>5, EventIs
<1>5. CASE PageLoads
  BY <1>5, <1>b DEF PageLoads, tabVars
<1>6. CASE PagePublishes
  <2>1. PICK summary \in {loading, None} : PublishSummary(summary)
    BY <1>6 DEF PagePublishes
  <2> DEFINE about == IF summary = None THEN openedDest ELSE summary
  <2>2. about \in Pages \cup {None}
    BY <2>1 DEF TypeOK
  <2>3. openedDest' = openedDest
    BY <1>6 DEF PagePublishes
  <2>4. UNCHANGED tabVars \/ (about \in Pages /\ SetSummary(Nav, about))
    BY <2>1, <2>2 DEF PublishSummary
  <2>5. CASE UNCHANGED tabVars
    BY <1>b, <2>3, <2>5 DEF tabVars
  <2>6. CASE about \in Pages /\ SetSummary(Nav, about)
    <3> HIDE DEF about
    <3>1. /\ Len(tabs') = Len(tabs)
          /\ \A i \in 1 .. Len(tabs) :
                /\ tabs[i].id # Nav => tabs'[i] = tabs[i]
                /\ tabs[i].id = Nav => tabs'[i] = [tabs[i] EXCEPT !.summary = about]
      BY <1>a, <2>6, SummaryFacts
    <3>2. \A i \in 1 .. Len(tabs) :
             tabs'[i].host = tabs[i].host /\ tabs'[i].id = tabs[i].id /\ tabs'[i].page = tabs[i].page
      <4>1. TAKE i \in 1 .. Len(tabs)
      <4>2. tabs[i] \in Tab
        BY <1>a
      <4>3. QED
        BY <3>1, <4>2 DEF Tab
    <3>3. QED
      BY <2>3, <3>1, <3>2 DEF HostPage
  <2>7. QED
    BY <2>4, <2>5, <2>6
<1>7. CASE PanelRenders
  BY <1>7, <1>b DEF PanelRenders, Render
<1>8. ASSUME NEW id \in TabIds, UserClosesTab(id) PROVE HostPage'
  BY <1>8, <1>d DEF UserClosesTab, CloseClicked
<1>9. ASSUME NEW id \in TabIds, UserPicksTab(id) PROVE HostPage'
  BY <1>9, <1>b DEF UserPicksTab, PickTab
<1>10. ASSUME NEW id \in TabIds, ActivateHandoff(id) PROVE HostPage'
  BY <1>10, <1>b DEF ActivateHandoff, FocusDestination, PickTab, tabVars
<1>11. CASE UserClears
  BY <1>11, <1>b DEF UserClears, ClearTranscript
<1>12. CASE UserSends
  BY <1>12, <1>b DEF UserSends, NextTurn
<1>13. ASSUME NEW r \in Regions, PickRegion(r) PROVE HostPage'
  BY <1>13, <1>b DEF PickRegion, tabVars
<1>14. CASE Resize
  BY <1>14, <1>b DEF Resize, tabVars
<1>15. CASE RegionEffect
  BY <1>15, <1>b DEF RegionEffect, tabVars
<1>16. CASE UNCHANGED vars
  BY <1>16, <1>b DEF vars, tabVars
<1>17. QED
  BY <1>1, <1>2, <1>3, <1>4, <1>5, <1>6, <1>7, <1>8, <1>9, <1>10, <1>11, <1>12, <1>13, <1>14, <1>15, <1>16 DEF Next, EngineStep, ShellStep

\* Whoever opens a page is heard by the host, and the effect of an address opens
\* its page unless it is the one remembered.
LEMMA AddressStep ==
    ASSUME TypeOK, Address, [Next]_vars
    PROVE  Address'
<1> USE DEF Address, chromeVars, destVars
<1>1. ASSUME NEW dest \in Pages, OpenNav(dest) PROVE Address'
  BY <1>1 DEF OpenNav, OpenDestinationTab
<1>2. ASSUME NEW dest \in Pages \cup {None}, HostUrl(dest) PROVE Address'
  BY <1>2 DEF HostUrl, TypeOK
<1>3. CASE UrlEffect
  BY <1>3 DEF UrlEffect, OpenDestinationTab
<1>4. ASSUME NEW event \in Events, EngineCanvas(event) PROVE Address'
  BY <1>4 DEF EngineCanvas
<1>5. CASE PageLoads
  BY <1>5 DEF PageLoads
<1>6. CASE PagePublishes
  BY <1>6 DEF PagePublishes
<1>7. CASE PanelRenders
  BY <1>7 DEF PanelRenders
<1>8. ASSUME NEW id \in TabIds, UserClosesTab(id) PROVE Address'
  BY <1>8 DEF UserClosesTab
<1>9. ASSUME NEW id \in TabIds, UserPicksTab(id) PROVE Address'
  BY <1>9 DEF UserPicksTab
<1>10. ASSUME NEW id \in TabIds, ActivateHandoff(id) PROVE Address'
  BY <1>10 DEF ActivateHandoff
<1>11. CASE UserClears
  BY <1>11 DEF UserClears
<1>12. CASE UserSends
  BY <1>12 DEF UserSends
<1>13. ASSUME NEW r \in Regions, PickRegion(r) PROVE Address'
  BY <1>13 DEF PickRegion
<1>14. CASE Resize
  BY <1>14 DEF Resize
<1>15. CASE RegionEffect
  BY <1>15 DEF RegionEffect
<1>16. CASE UNCHANGED vars
  BY <1>16 DEF vars
<1>17. QED
  BY <1>1, <1>2, <1>3, <1>4, <1>5, <1>6, <1>7, <1>8, <1>9, <1>10, <1>11, <1>12, <1>13, <1>14, <1>15, <1>16 DEF Next, EngineStep, ShellStep

\* The region changes together with its effect's becoming due, and an override
\* is set together with the region.
LEMMA RegionStep ==
    ASSUME TypeOK, RegionOverride, [Next]_vars
    PROVE  RegionOverride'
<1>a. regionDue \in BOOLEAN /\ mobileLayout \in BOOLEAN
  BY AppShellAssumption DEF TypeOK
<1> USE DEF RegionOverride, chromeVars, destVars
<1>1. ASSUME NEW dest \in Pages, OpenNav(dest) PROVE RegionOverride'
  BY <1>1, <1>a DEF OpenNav, OpenDestinationTab
<1>2. ASSUME NEW dest \in Pages \cup {None}, HostUrl(dest) PROVE RegionOverride'
  BY <1>2, <1>a DEF HostUrl
<1>3. CASE UrlEffect
  BY <1>3, <1>a DEF UrlEffect, OpenDestinationTab
<1>4. ASSUME NEW event \in Events, EngineCanvas(event) PROVE RegionOverride'
  BY <1>4, <1>a DEF EngineCanvas
<1>5. CASE PageLoads
  BY <1>5, <1>a DEF PageLoads
<1>6. CASE PagePublishes
  BY <1>6, <1>a DEF PagePublishes
<1>7. CASE PanelRenders
  BY <1>7, <1>a DEF PanelRenders
<1>8. ASSUME NEW id \in TabIds, UserClosesTab(id) PROVE RegionOverride'
  BY <1>8, <1>a DEF UserClosesTab
<1>9. ASSUME NEW id \in TabIds, UserPicksTab(id) PROVE RegionOverride'
  BY <1>9, <1>a DEF UserPicksTab
<1>10. ASSUME NEW id \in TabIds, ActivateHandoff(id) PROVE RegionOverride'
  BY <1>10, <1>a DEF ActivateHandoff
<1>11. CASE UserClears
  BY <1>11, <1>a DEF UserClears
<1>12. CASE UserSends
  BY <1>12, <1>a DEF UserSends
<1>13. ASSUME NEW r \in Regions, PickRegion(r) PROVE RegionOverride'
  BY <1>13, <1>a DEF PickRegion
<1>14. CASE Resize
  BY <1>14, <1>a DEF Resize
<1>15. CASE RegionEffect
  BY <1>15, <1>a DEF RegionEffect
<1>16. CASE UNCHANGED vars
  BY <1>16, <1>a DEF vars
<1>17. QED
  BY <1>1, <1>2, <1>3, <1>4, <1>5, <1>6, <1>7, <1>8, <1>9, <1>10, <1>11, <1>12, <1>13, <1>14, <1>15, <1>16 DEF Next, EngineStep, ShellStep

\* All of the invariant, in every reachable state.
THEOREM Inductive == Spec => []IInv
<1>1. ASSUME Init PROVE IInv
  <2>1. PanelInv /\ tabs = <<>>
    BY <1>1, PanelInit DEF Init, TabsInit
  <2>2. TypeOK
    BY <1>1, <2>1 DEF Init, TypeOK, PanelInv
  <2>3. QED
    BY <1>1, <2>1, <2>2 DEF IInv, Init, HostPage, Address, RegionOverride
<1>2. ASSUME IInv, [Next]_vars PROVE IInv'
  <2>1. PanelInv'
    BY <1>2, ShellTabStep, PanelStep DEF IInv
  <2>2. TypeOK'
    BY <1>2, <2>1, ChromeTypeStep DEF IInv, TypeOK, PanelInv
  <2>3. HostPage' /\ Address' /\ RegionOverride'
    BY <1>2, HostPageStep, AddressStep, RegionStep DEF IInv
  <2>4. QED
    BY <2>1, <2>2, <2>3 DEF IInv
<1>3. QED
  BY <1>1, <1>2, PTL DEF Spec

\* The panel by itself.
LEMMA PanelInductive == TabsSpec => []PanelInv
<1>1. TabsInit => PanelInv
  BY PanelInit
<1>2. ASSUME PanelInv, [TabsNext]_tabVars PROVE PanelInv'
  BY <1>2, PanelTabStep, PanelStep
<1>3. QED
  BY <1>1, <1>2, PTL DEF TabsSpec

-----------------------------------------------------------------------------
(* Theorems *)

LEMMA ShownIs ==
    ASSUME PanelInv
    PROVE  OneOpenTabIsActive
<1>1. tabs \in Seq(Tab) /\ OneTabPerId(tabs) /\ active \in Focus
  BY DEF PanelInv, TabsTypeOK
<1>2. Open = {tabs[i].id : i \in 1 .. Len(tabs)}
  BY <1>1, OpenIs
<1>3. Open = {} <=> tabs = <<>>
  <2>1. tabs # <<>> => 1 \in 1 .. Len(tabs)
    BY <1>1
  <2>2. tabs = <<>> => 1 .. Len(tabs) = {}
    OBVIOUS
  <2>3. QED
    BY <1>2, <2>1, <2>2
<1>4. ASSUME ~pending, ~crossed PROVE Shows(active, Open)
  BY <1>1, <1>4, KeptIs DEF PanelInv, Focusing
<1>5. QED
  BY <1>1, <1>3, <1>4 DEF OneOpenTabIsActive, Shows, Distinct, OneTabPerId

LEMMA LeadIs ==
    ASSUME PanelInv
    PROVE  HandoffsLead
BY DEF PanelInv, TabsTypeOK, Handing, OneHandoffPerTab, HandedOff, HandoffsLead, Distinct, Leads

\* The panel never has two tabs of one id, and whenever it is rendered it shows
\* an open one exactly if there is any, whoever opens, closes, evicts and picks:
\* of the updates that React delays, only one asking for a tab that was closed
\* in the same rendering can take the focus away.
THEOREM OneTabIsShown == (TabsSpec \/ Spec) => []OneOpenTabIsActive
<1>1. PanelInv => OneOpenTabIsActive
  BY ShownIs
<1>2. IInv => PanelInv
  BY DEF IInv
<1>3. QED
  BY Inductive, PanelInductive, <1>1, <1>2, PTL

\* Every handoff of the transcript has its tab open or its canvas inline, unless
\* the tab was evicted or its bubble had its id replaced:
\* reconcileInteractiveHandoff follows all closings.
THEOREM HandoffsLeadSomewhere == (TabsSpec \/ Spec) => []HandoffsLead
<1>1. PanelInv => HandoffsLead
  BY LeadIs
<1>2. IInv => PanelInv
  BY DEF IInv
<1>3. QED
  BY Inductive, PanelInductive, <1>1, <1>2, PTL

\* The reserved tab shows the page that the shell remembers, and that of the
\* host's address once the effects have run.
THEOREM ReservedTabFollowsAddress == Spec => []NavFollowsUrl
<1>1. ASSUME IInv, NEW dest \in Pages, NavShows(dest)
      PROVE  openedDest = dest /\ (~urlDue /\ url # None => url = dest)
  <2> DEFINE n == IndexOf(Nav)
  <2>1. Nav \in Open /\ tabs[n].host /\ tabs[n].page = dest
    BY <1>1 DEF NavShows
  <2>2. n \in 1 .. Len(tabs)
    BY <1>1, <2>1, IndexOfIs DEF IInv, PanelInv, TabsOK
  <2> HIDE DEF n
  <2>3. openedDest # None /\ openedDest = dest
    BY <1>1, <2>1, <2>2 DEF IInv, HostPage
  <2>4. QED
    BY <1>1, <2>3 DEF IInv, Address
<1>2. IInv => NavFollowsUrl
  BY <1>1 DEF NavFollowsUrl
<1>3. QED
  BY Inductive, <1>2, PTL

\* A narrow panel never stays on a region that its switch takes for the other.
THEOREM RegionsAreSwitchable == Spec => []RegionIsSwitchable
<1>1. IInv => RegionIsSwitchable
  BY DEF IInv, RegionOverride, RegionIsSwitchable, Settled, EffectiveRegion
<1>2. QED
  BY Inductive, <1>1, PTL

\* A tab that leaves a list that does not shrink is the oldest evictable one of a
\* full panel: addOrFocusCanvasTab spares the reserved tab.
THEOREM EvictionsSpare == (TabsSpec \/ Spec) => EvictionSpares
<1> DEFINE Spares ==
             Len(tabs') >= Len(tabs) =>
               \A i \in DOMAIN tabs :
                  (\A j \in DOMAIN tabs' : tabs'[j].id # tabs[i].id) =>
                      /\ tabs[i].evictable
                      /\ Len(tabs) >= MaxTabs
                      /\ \A k \in 1 .. i - 1 : ~tabs[k].evictable
<1>1. ASSUME PanelInv, TabStep PROVE [Spares]_tabs
  <2>1. TabsOK /\ tabs \in Seq(Tab)
    BY <1>1 DEF PanelInv, TabsTypeOK, TabsOK
  <2>2. Open = {tabs[i].id : i \in DOMAIN tabs} /\ Open' = {tabs'[j].id : j \in DOMAIN tabs'}
    BY DEF Open
  <2>3. ASSUME Open \subseteq Open' PROVE Spares
    BY <2>2, <2>3
  <2>4. ASSUME NEW tab \in Tab, AddOrFocus(tab) PROVE Spares
    <3>1. Added(tab)
      BY <2>1, <2>4, AddOrFocusFacts
    <3>2. DOMAIN tabs = 1 .. Len(tabs)
      BY <2>1
    <3>3. ASSUME NEW i \in DOMAIN tabs, \A j \in DOMAIN tabs' : tabs'[j].id # tabs[i].id
          PROVE  tabs[i].id \notin Open'
      BY <2>2, <3>3
    <3>4. QED
      BY <3>1, <3>2, <3>3 DEF Added
  <2>5. ASSUME NEW id \in TabIds, Drops(id) PROVE Spares
    <3>1. /\ tabs' \in Seq(Tab) /\ Open' = Open \ {id}
          /\ id \in Open => Len(tabs') < Len(tabs)
      BY <2>1, <2>5, CloseFacts
    <3>2. CASE id \in Open
      BY <2>1, <3>1, <3>2
    <3>3. CASE id \notin Open
      BY <2>3, <3>1, <3>3
    <3>4. QED
      BY <3>2, <3>3
  <2>6. ASSUME NEW summary \in Pages, SetSummary(Nav, summary) PROVE Spares
    BY <2>1, <2>3, <2>6, SummaryFacts
  <2>7. \/ \E tab \in Tab : AddOrFocus(tab)
        \/ \E id \in TabIds : Drops(id)
        \/ \E summary \in Pages : SetSummary(Nav, summary)
        \/ tabs' = tabs
    <3> USE DEF tabVars, focusVars
    <3>1. ASSUME NEW tab \in Tab, NEW kind, Opens(tab, kind) PROVE AddOrFocus(tab)
      BY <3>1 DEF Opens
    <3>2. ASSUME NEW id, NEW kind, Inlines(id, kind) PROVE tabs' = tabs
      BY <3>2 DEF Inlines
    <3>3. ASSUME NEW id PROVE /\ CloseTab(id) \/ CloseClicked(id) => Drops(id)
                              /\ PickTab(id) => tabs' = tabs
      BY DEF CloseTab, CloseClicked, PickTab
    <3>4. NextTurn \/ Render \/ ClearTranscript \/ UNCHANGED tabVars => tabs' = tabs
      BY DEF NextTurn, Render, ClearTranscript
    <3>5. QED
      BY <1>1, <3>1, <3>2, <3>3, <3>4 DEF TabStep
  <2>8. QED
    BY <2>4, <2>5, <2>6, <2>7
<1>2. ASSUME PanelInv, [TabsNext]_tabVars PROVE [Spares]_tabs
  BY <1>1, <1>2, PanelTabStep
<1>3. ASSUME IInv, [Next]_vars PROVE [Spares]_tabs
  BY <1>1, <1>3, ShellTabStep DEF IInv
<1>4. QED
  BY Inductive, PanelInductive, <1>2, <1>3, PTL DEF Spec, TabsSpec, EvictionSpares
=============================================================================
