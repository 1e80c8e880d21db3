--------------------------- MODULE TurnViewProofs ---------------------------
(***************************************************************************)
(* The safety properties of TurnView, for any batches, any number of       *)
(* clicks and any bound on the text: first what the operations on the      *)
(* transcript return, then the invariant, layer by layer: where the turn   *)
(* is, what lies ahead of it, the dialogs, the cards and the bubbles.      *)
(***************************************************************************)
EXTENDS TurnView, SequenceTheorems, WellFoundedInduction, TLAPS

-----------------------------------------------------------------------------
(* Numbers *)

\* Every nonempty set of numbers has a least one.
LEMMA Minimum ==
    ASSUME NEW T, T \subseteq Nat, T # {}
    PROVE  \E x \in T : \A y \in T : x <= y
<1>1. IsWellFoundedOn(OpToRel(<, Nat), Nat)
  BY NatLessThanWellFounded
<1>2. PICK x \in T : \A y \in T : ~(<<y, x>> \in OpToRel(<, Nat))
  BY <1>1, WFMin
<1>3. \A y \in T : ~(y < x)
  BY <1>2 DEF OpToRel
<1>4. QED
  BY <1>3

\* A nonempty set of indices has a last one: the least distance from the end.
LEMMA Maximum ==
    ASSUME NEW n \in Nat, NEW I, I \subseteq 1 .. n, I # {}
    PROVE  \E x \in I : \A y \in I : y <= x
<1> DEFINE T == {n - i : i \in I}
<1>1. T \subseteq Nat /\ T # {}
  <2>1. \A i \in I : i \in Nat /\ i <= n
    OBVIOUS
  <2>2. \A i \in I : n - i \in Nat
    BY <2>1
  <2>3. QED
    BY <2>2
<1>2. PICK d \in T : \A e \in T : d <= e
  <2> HIDE DEF T
  <2>1. QED
    BY <1>1, Minimum
<1>3. PICK x \in I : d = n - x
  BY <1>2
<1>4. ASSUME NEW y \in I PROVE y <= x
  <2>1. n - y \in T
    OBVIOUS
  <2>2. n - x <= n - y
    BY <1>2, <1>3, <2>1
  <2>3. x \in Nat /\ y \in Nat
    OBVIOUS
  <2>4. QED
    BY <2>2, <2>3
<1>5. QED
  BY <1>4

\* Induction, on a set of numbers.
LEMMA Induction ==
    ASSUME NEW N, 0 \in N, \A n \in Nat : n \in N => n + 1 \in N
    PROVE  \A n \in Nat : n \in N
<1> DEFINE T == Nat \ N
<1>1. SUFFICES ASSUME T # {} PROVE FALSE
  OBVIOUS
<1>2. PICK x \in T : \A y \in T : x <= y
  <2>1. T \subseteq Nat
    OBVIOUS
  <2> HIDE DEF T
  <2>2. QED
    BY <1>1, <2>1, Minimum
<1>3. x # 0 /\ x - 1 \in Nat /\ x - 1 \in N
  BY <1>2
<1>4. QED
  BY <1>2, <1>3

-----------------------------------------------------------------------------
(* The transcript without its empty bubbles *)

\* The function that WithoutEmpty defines by recursion, up to an index.
IsKept(s, ts, n, kept) ==
    kept = [i \in 0 .. n |->
              IF i = 0 THEN <<>>
              ELSE IF IsEmpty(s[i], ts) THEN kept[i - 1]
              ELSE Append(kept[i - 1], s[i])]

LEMMA KeptExists ==
    ASSUME NEW s, NEW ts
    PROVE  \A n \in Nat : \E kept : IsKept(s, ts, n, kept)
<1> DEFINE N == {n \in Nat : \E kept : IsKept(s, ts, n, kept)}
<1>1. 0 \in N
  <2> DEFINE none == [i \in 0 .. 0 |-> <<>>]
  <2>1. IsKept(s, ts, 0, none)
    BY DEF IsKept
  <2>2. QED
    BY <2>1
<1>2. ASSUME NEW n \in Nat, n \in N PROVE n + 1 \in N
  <2>1. PICK kept : IsKept(s, ts, n, kept)
    BY <1>2
  <2> DEFINE more == [i \in 0 .. n + 1 |->
                        IF i = n + 1
                        THEN IF IsEmpty(s[i], ts) THEN kept[n] ELSE Append(kept[n], s[i])
                        ELSE kept[i]]
             next1(f) == [i \in 0 .. n + 1 |->
                            IF i = 0 THEN <<>>
                            ELSE IF IsEmpty(s[i], ts) THEN f[i - 1]
                            ELSE Append(f[i - 1], s[i])]
  <2>2. ASSUME NEW i \in 0 .. n + 1 PROVE more[i] = next1(more)[i]
    <3>1. CASE i = n + 1
      BY <3>1
    <3>2. CASE i # n + 1
      <4>1. i \in 0 .. n /\ (i # 0 => i - 1 \in 0 .. n)
        BY <3>2
      <4>2. kept[i] = IF i = 0 THEN <<>>
                      ELSE IF IsEmpty(s[i], ts) THEN kept[i - 1]
                      ELSE Append(kept[i - 1], s[i])
        BY <2>1, <4>1 DEF IsKept
      <4>3. QED
        BY <3>2, <4>1, <4>2
    <3>3. QED
      BY <3>1, <3>2
  <2>3. more = next1(more)
    <3>1. DOMAIN more = 0 .. n + 1 /\ DOMAIN next1(more) = 0 .. n + 1
      OBVIOUS
    <3>2. QED
      BY <2>2, <3>1
  <2>4. IsKept(s, ts, n + 1, more)
    BY <2>3 DEF IsKept
  <2>5. QED
    BY <2>4
<1>3. QED
  <2>1. \A n \in Nat : n \in N
    <3> HIDE DEF N
    <3>1. QED
      BY <1>1, <1>2, Induction
  <2>2. QED
    BY <2>1

\* What is left are messages of the transcript, and none is an empty bubble of
\* the turns in question.
LEMMA WithoutEmptyFacts ==
    ASSUME messages \in Seq(Message), NEW ts
    PROVE  /\ WithoutEmpty(ts) \in Seq(Message)
           /\ \A a \in 1 .. Len(WithoutEmpty(ts)) :
                 \E j \in 1 .. Len(messages) : /\ WithoutEmpty(ts)[a] = messages[j]
                                               /\ ~IsEmpty(messages[j], ts)
<1> DEFINE len == Len(messages)
           chosen == CHOOSE kept :
             kept = [i \in 0 .. len |->
                       IF i = 0 THEN <<>>
                       ELSE IF IsEmpty(messages[i], ts) THEN kept[i - 1]
                       ELSE Append(kept[i - 1], messages[i])]
<1>1. WithoutEmpty(ts) = chosen[len]
  BY DEF WithoutEmpty
<1>2. len \in Nat
  OBVIOUS
<1>3. \E kept : IsKept(messages, ts, len, kept)
  BY <1>2, KeptExists
<1>4. IsKept(messages, ts, len, chosen)
  BY <1>3 DEF IsKept
<1> HIDE DEF chosen
<1> DEFINE Good(n) == n <= len =>
                        /\ chosen[n] \in Seq(Message)
                        /\ \A a \in 1 .. Len(chosen[n]) :
                              \E j \in 1 .. n : /\ chosen[n][a] = messages[j]
                                                /\ ~IsEmpty(messages[j], ts)
           N == {n \in Nat : Good(n)}
<1>5. 0 \in N
  <2>1. chosen[0] = <<>>
    BY <1>2, <1>4 DEF IsKept
  <2>2. chosen[0] \in Seq(Message) /\ Len(chosen[0]) = 0
    BY <2>1
  <2>3. QED
    BY <2>2
<1>6. ASSUME NEW n \in Nat, n \in N PROVE n + 1 \in N
  <2> SUFFICES ASSUME n + 1 <= len PROVE Good(n + 1)
    OBVIOUS
  <2>1. Good(n) /\ n <= len
    BY <1>2, <1>6
  <2>2. chosen[n + 1] = IF IsEmpty(messages[n + 1], ts) THEN chosen[n]
                        ELSE Append(chosen[n], messages[n + 1])
    <3>1. n + 1 \in 0 .. len /\ n + 1 # 0 /\ (n + 1) - 1 = n
      BY <1>2
    <3>2. QED
      BY <1>4, <3>1 DEF IsKept
  <2>3. messages[n + 1] \in Message
    OBVIOUS
  <2>4. CASE IsEmpty(messages[n + 1], ts)
    BY <2>1, <2>2, <2>4
  <2>5. CASE ~IsEmpty(messages[n + 1], ts)
    <3> DEFINE k == chosen[n]  k1 == chosen[n + 1]
    <3>1. k \in Seq(Message) /\ k1 = Append(k, messages[n + 1])
      BY <2>1, <2>2, <2>5
    <3>2. /\ k1 \in Seq(Message) /\ Len(k1) = Len(k) + 1
          /\ k1[Len(k) + 1] = messages[n + 1]
          /\ \A a \in 1 .. Len(k) : k1[a] = k[a]
      <4> HIDE DEF k, k1
      <4>1. QED
        BY <2>3, <3>1
    <3>3. ASSUME NEW a \in 1 .. Len(k1)
          PROVE  \E j \in 1 .. n + 1 : k1[a] = messages[j] /\ ~IsEmpty(messages[j], ts)
      <4> HIDE DEF k1
      <4>1. CASE a = Len(k) + 1
        BY <2>5, <3>2, <4>1
      <4>2. CASE a \in 1 .. Len(k)
        <5>1. PICK j \in 1 .. n : k[a] = messages[j] /\ ~IsEmpty(messages[j], ts)
          BY <2>1, <4>2
        <5>2. j \in 1 .. n + 1 /\ k1[a] = messages[j]
          BY <3>2, <4>2, <5>1
        <5>3. QED
          BY <5>1, <5>2
      <4>3. QED
        BY <3>1, <3>2, <4>1, <4>2
    <3>4. QED
      BY <3>2, <3>3
  <2>6. QED
    BY <2>4, <2>5
<1>7. \A n \in Nat : n \in N
  <2> HIDE DEF N
  <2>1. QED
    BY <1>5, <1>6, Induction
<1>8. Good(len)
  BY <1>2, <1>7
<1>9. QED
  BY <1>1, <1>2, <1>8

-----------------------------------------------------------------------------
(* The bubble that is written to, the card that is found *)

\* What an edit of the running turn's bubble leaves of the transcript.
Edited(texts) ==
    /\ messages' \in Seq(Message) /\ Len(messages') = Len(messages)
    /\ \A i \in 1 .. Len(messages) :
          \/ messages'[i] = messages[i]
             /\ ~(messages[i].role = "assistant" /\ messages[i].turn = turn)
          \/ /\ messages[i].role = "assistant" /\ messages[i].turn = turn
             /\ messages'[i].role = "assistant" /\ messages'[i].turn = turn
             /\ messages'[i].text \in texts

LEMMA EditFacts ==
    ASSUME messages \in Seq(Message)
    PROVE  /\ messages' = Edit(More) => Edited(1 .. MaxText)
           /\ messages' = Edit(LAMBDA n : 1) => Edited({1})
           /\ messages' = Edit(LAMBDA n : 0) => Edited({0})
<1> DEFINE m(i) == messages[i]
           mine(i) == messages[i].role = "assistant" /\ messages[i].turn = turn
<1>0. MaxText \in Nat \ {0} /\ DOMAIN messages = 1 .. Len(messages)
  BY TurnViewAssumption
<1>1. ASSUME NEW i \in 1 .. Len(messages), mine(i), NEW n \in 0 .. MaxText
      PROVE  /\ [m(i) EXCEPT !.text = n] \in Message
             /\ [m(i) EXCEPT !.text = n].role = "assistant"
             /\ [m(i) EXCEPT !.text = n].turn = turn
             /\ [m(i) EXCEPT !.text = n].text = n
             /\ m(i).text \in 0 .. MaxText
  <2>1. m(i) \in [role : {"user", "assistant"}, turn : Turns, text : 0 .. MaxText]
    BY <1>1 DEF Message
  <2>2. QED
    BY <1>1, <2>1 DEF Message
<1>2. ASSUME messages' = Edit(More) PROVE Edited(1 .. MaxText)
  <2>1. /\ DOMAIN messages' = 1 .. Len(messages)
        /\ \A i \in 1 .. Len(messages) :
              messages'[i] = IF mine(i) THEN [m(i) EXCEPT !.text = More(m(i).text)] ELSE m(i)
    BY <1>0, <1>2 DEF Edit
  <2>2. \A n \in 0 .. MaxText : More(n) \in 1 .. MaxText
    BY <1>0 DEF More
  <2>3. ASSUME NEW i \in 1 .. Len(messages)
        PROVE  /\ messages'[i] \in Message
               /\ mine(i) => /\ messages'[i].role = "assistant" /\ messages'[i].turn = turn
                             /\ messages'[i].text \in 1 .. MaxText
               /\ ~mine(i) => messages'[i] = messages[i]
    <3>1. CASE mine(i)
      <4> DEFINE new == More(m(i).text)
      <4>1. new \in 0 .. MaxText /\ new \in 1 .. MaxText
        <5>1. 0 \in 0 .. MaxText
          BY <1>0
        <5>2. m(i).text \in 0 .. MaxText
          <6> HIDE DEF m, mine
          <6>1. QED
            BY <1>1, <3>1, <5>1
        <5>3. new \in 1 .. MaxText
          <6> HIDE DEF m
          <6>1. QED
            BY <2>2, <5>2
        <5>4. QED
          BY <1>0, <5>3
      <4>2. messages'[i] = [m(i) EXCEPT !.text = new]
        BY <2>1, <3>1
      <4> HIDE DEF new, mine, m
      <4>3. QED
        BY <1>1, <3>1, <4>1, <4>2
    <3>2. CASE ~mine(i)
      <4>1. messages'[i] = messages[i] /\ messages[i] \in Message
        BY <2>1, <3>2
      <4>2. QED
        BY <3>2, <4>1
    <3>3. QED
      BY <3>1, <3>2
  <2>4. messages' \in Seq(Message) /\ Len(messages') = Len(messages)
    <3>1. messages' = [i \in 1 .. Len(messages) |-> messages'[i]]
      BY <1>0, <1>2 DEF Edit
    <3>2. QED
      BY <2>1, <2>3, <3>1
  <2>5. QED
    BY <2>3, <2>4 DEF Edited
<1>3. ASSUME messages' = Edit(LAMBDA n : 1) PROVE Edited({1})
  <2>1. /\ DOMAIN messages' = 1 .. Len(messages)
        /\ \A i \in 1 .. Len(messages) :
              messages'[i] = IF mine(i) THEN [m(i) EXCEPT !.text = 1] ELSE m(i)
    BY <1>0, <1>3 DEF Edit
  <2>2. 1 \in 0 .. MaxText
    BY <1>0
  <2>3. ASSUME NEW i \in 1 .. Len(messages)
        PROVE  /\ messages'[i] \in Message
               /\ mine(i) => /\ messages'[i].role = "assistant" /\ messages'[i].turn = turn
                             /\ messages'[i].text = 1
               /\ ~mine(i) => messages'[i] = messages[i]
    <3>1. CASE mine(i)
      <4> DEFINE new == 1
      <4>1. new \in 0 .. MaxText /\ new = 1
        BY <2>2
      <4>2. messages'[i] = [m(i) EXCEPT !.text = new]
        BY <2>1, <3>1
      <4> HIDE DEF new, mine, m
      <4>3. QED
        BY <1>1, <3>1, <4>1, <4>2
    <3>2. CASE ~mine(i)
      <4>1. messages'[i] = messages[i] /\ messages[i] \in Message
        BY <2>1, <3>2
      <4>2. QED
        BY <3>2, <4>1
    <3>3. QED
      BY <3>1, <3>2
  <2>4. messages' \in Seq(Message) /\ Len(messages') = Len(messages)
    <3>1. messages' = [i \in 1 .. Len(messages) |-> messages'[i]]
      BY <1>0, <1>3 DEF Edit
    <3>2. QED
      BY <2>1, <2>3, <3>1
  <2>5. QED
    BY <2>3, <2>4 DEF Edited
<1>4. ASSUME messages' = Edit(LAMBDA n : 0) PROVE Edited({0})
  <2>1. /\ DOMAIN messages' = 1 .. Len(messages)
        /\ \A i \in 1 .. Len(messages) :
              messages'[i] = IF mine(i) THEN [m(i) EXCEPT !.text = 0] ELSE m(i)
    BY <1>0, <1>4 DEF Edit
  <2>2. 0 \in 0 .. MaxText
    BY <1>0
  <2>3. ASSUME NEW i \in 1 .. Len(messages)
        PROVE  /\ messages'[i] \in Message
               /\ mine(i) => /\ messages'[i].role = "assistant" /\ messages'[i].turn = turn
                             /\ messages'[i].text = 0
               /\ ~mine(i) => messages'[i] = messages[i]
    <3>1. CASE mine(i)
      <4> DEFINE new == 0
      <4>1. new \in 0 .. MaxText /\ new = 0
        BY <2>2
      <4>2. messages'[i] = [m(i) EXCEPT !.text = new]
        BY <2>1, <3>1
      <4> HIDE DEF new, mine, m
      <4>3. QED
        BY <1>1, <3>1, <4>1, <4>2
    <3>2. CASE ~mine(i)
      <4>1. messages'[i] = messages[i] /\ messages[i] \in Message
        BY <2>1, <3>2
      <4>2. QED
        BY <3>2, <4>1
    <3>3. QED
      BY <3>1, <3>2
  <2>4. messages' \in Seq(Message) /\ Len(messages') = Len(messages)
    <3>1. messages' = [i \in 1 .. Len(messages) |-> messages'[i]]
      BY <1>0, <1>4 DEF Edit
    <3>2. QED
      BY <2>1, <2>3, <3>1
  <2>5. QED
    BY <2>3, <2>4 DEF Edited
<1>5. QED
  BY <1>2, <1>3, <1>4

\* The card of a result is the last one of its tool, if there is one.
LEMMA LastCardIs ==
    ASSUME messages \in Seq(Message), NEW c
    PROVE  \/ LastCard(c) = 0 /\ CardsOf(c) = {}
           \/ /\ LastCard(c) \in CardsOf(c)
              /\ \A j \in CardsOf(c) : j <= LastCard(c)
<1>1. CASE CardsOf(c) = {}
  BY <1>1 DEF LastCard
<1>2. CASE CardsOf(c) # {}
  <2>1. CardsOf(c) \subseteq 1 .. Len(messages) /\ Len(messages) \in Nat
    BY DEF CardsOf
  <2>2. \E i \in CardsOf(c) : \A j \in CardsOf(c) : j <= i
    BY <1>2, <2>1, Maximum
  <2>3. QED
    BY <1>2, <2>2 DEF LastCard
<1>3. QED
  BY <1>1, <1>2

-----------------------------------------------------------------------------
(* The invariant *)

\* Where the running turn is.
Phases ==
    /\ streaming <=> phase # "idle"
    /\ streaming => turn # 0 /\ ending[turn] = "none" /\ next \in 1 .. Len(Batch) + 1
    /\ phase \in {"batch", "calls", "results"} => next <= Len(Batch)
    /\ phase = "closing" => approvalQueue = <<>>

\* Nothing has happened yet to the turns ahead.
Future ==
    /\ \A t \in Turns : t > turn =>
          ending[t] = "none" /\ \A c \in Range(BatchOf[t]) : verdict[c] = "none"
    /\ \A i \in 1 .. Len(messages) : messages[i].turn <= turn

\* Calls wait only while their batch runs.  An answer that is on its way, if it
\* was given to the only dialog there was, is the answer to the one on top.
Dialogs ==
    /\ phase \in {"model", "calls", "results", "erred", "closing"} =>
          \A c \in Range(Batch) : verdict[c] # "pending"
    /\ \A p \in Clicks : post[p].phase = "unused" => post[p].target = None
    /\ ~rushed =>
          /\ \A p, q \in InFlight : p = q
          /\ \A p \in InFlight :
                \/ approvalQueue # <<>> /\ post[p].target = Head(approvalQueue)
                \/ approvalQueue = <<>> /\ phase \in {"closing", "idle"}

\* A card is executing because its result is the next event, in which case it
\* is the last message, or because its turn was interrupted.
CardRuns(i) ==
    \/ ending[messages[i].turn] \in {"cut", "broken", "stopped"}
    \/ /\ phase = "results" /\ messages[i].turn = turn /\ i = Len(messages)
       /\ ToolOf(messages[i].call) = ToolOf(Batch[next])

Cards ==
    \A i \in 1 .. Len(messages) :
        messages[i].role = "tool" /\ messages[i].status = "executing" => CardRuns(i)

\* A bubble is empty because its turn still writes, or was cut.
BubbleWaits(i) ==
    \/ ending[messages[i].turn] = "cut"
    \/ messages[i].turn = turn /\ phase \in {"model", "batch", "calls", "results"}

Bubbles ==
    \A i \in 1 .. Len(messages) :
        messages[i].role = "assistant" /\ messages[i].text = 0 => BubbleWaits(i)

IInv == /\ TypeOK /\ Phases /\ Future /\ Dialogs /\ Cards /\ Bubbles
        /\ NoApprovalSkipped /\ NoStaleDialog

LEMMA Init_IInv == Init => IInv
<1> SUFFICES ASSUME Init PROVE IInv
  OBVIOUS
<1>1. TypeOK
  <2>1. turn \in 0 .. Len(BatchOf) /\ next \in Nat
    BY TurnViewAssumption DEF Init
  <2>2. messages \in Seq(Message) /\ approvalQueue \in Seq(Calls)
    BY DEF Init
  <2>3. post \in [Clicks -> [target : Calls \cup {None}, verdict : {"approved", "denied"},
                             phase : {"unused", "sent", "handled", "over"}]]
    BY DEF Init
  <2>4. /\ verdict \in [Calls -> {"none", "pending", "approved", "denied"}]
        /\ ending \in [Turns -> {"none", "done", "error", "cut", "broken", "stopped", "refused"}]
    BY DEF Init
  <2>5. QED
    BY <2>1, <2>2, <2>3, <2>4 DEF Init, TypeOK
<1>2. Len(messages) = 0 /\ Range(approvalQueue) = {}
  BY DEF Init, Range
<1>3. Phases /\ Future
  <2>1. \A t \in Turns : BatchOf[t] \in Seq(Calls)
    BY TurnViewAssumption DEF Turns
  <2>2. QED
    BY <1>2, <2>1 DEF Init, Phases, Future, Range
<1>4. Dialogs /\ Cards /\ Bubbles
  BY <1>2 DEF Init, Dialogs, Cards, Bubbles, InFlight
<1>5. NoApprovalSkipped /\ NoStaleDialog
  BY <1>2 DEF Init, NoApprovalSkipped, NoStaleDialog
<1>6. QED
  BY <1>1, <1>3, <1>4, <1>5 DEF IInv

\* The batch of a turn.
LEMMA BatchIs ==
    ASSUME NEW t \in Turns
    PROVE  /\ BatchOf[t] \in Seq(Calls) /\ Range(BatchOf[t]) \subseteq Calls
           /\ \A i \in 1 .. Len(BatchOf[t]) : BatchOf[t][i] \in Range(BatchOf[t])
BY TurnViewAssumption DEF Turns, Range

\* No call is made by two turns.
LEMMA OneTurnPerCall ==
    ASSUME NEW t \in Turns, NEW u \in Turns, Range(BatchOf[t]) \cap Range(BatchOf[u]) # {}
    PROVE  t = u
BY TurnViewAssumption DEF Range

\* A running turn is one of the turns.
LEMMA Running ==
    ASSUME TypeOK, Phases, streaming
    PROVE  /\ turn \in Turns /\ Batch \in Seq(Calls) /\ Range(Batch) \subseteq Calls
           /\ ending[turn] = "none" /\ phase # "idle"
<1>1. turn \in Turns
  BY DEF TypeOK, Phases, Turns
<1>2. QED
  BY <1>1, BatchIs DEF Phases, Batch

\* The queue after one dialog more, and without its first one.
LEMMA QueueFacts ==
    ASSUME NEW q \in Seq(Calls)
    PROVE  /\ \A c \in Calls : /\ Append(q, c) \in Seq(Calls) /\ Append(q, c) # <<>>
                               /\ Range(Append(q, c)) = Range(q) \cup {c}
                               /\ q # <<>> => Head(Append(q, c)) = Head(q)
           /\ q # <<>> => /\ Head(q) \in Range(q) /\ Head(q) \in Calls
                          /\ Tail(q) \in Seq(Calls)
                          /\ Range(q) = {Head(q)} \cup Range(Tail(q))
<1>1. ASSUME NEW c \in Calls
      PROVE  /\ Append(q, c) \in Seq(Calls) /\ Append(q, c) # <<>>
             /\ Range(Append(q, c)) = Range(q) \cup {c}
             /\ q # <<>> => Head(Append(q, c)) = Head(q)
  <2>1. /\ Append(q, c) \in Seq(Calls) /\ Len(Append(q, c)) = Len(q) + 1
        /\ \A i \in 1 .. Len(q) : Append(q, c)[i] = q[i]
        /\ Append(q, c)[Len(q) + 1] = c
    BY AppendProperties
  <2>2. 1 .. Len(q) + 1 = 1 .. Len(q) \cup {Len(q) + 1} /\ Len(q) \in Nat
    OBVIOUS
  <2>3. Range(Append(q, c)) = Range(q) \cup {c}
    BY <2>1, <2>2 DEF Range
  <2>4. QED
    BY <2>1, <2>3
<1>2. ASSUME q # <<>>
      PROVE  /\ Head(q) \in Range(q) /\ Head(q) \in Calls
             /\ Tail(q) \in Seq(Calls)
             /\ Range(q) = {Head(q)} \cup Range(Tail(q))
  <2>1. /\ Tail(q) \in Seq(Calls) /\ Len(Tail(q)) = Len(q) - 1 /\ Len(q) \in Nat \ {0}
        /\ Head(q) = q[1] /\ \A i \in 1 .. Len(q) - 1 : Tail(q)[i] = q[i + 1]
    BY <1>2, HeadTailProperties
  <2>2. Head(q) \in Range(q) /\ Head(q) \in Calls
    BY <2>1 DEF Range
  <2>3. ASSUME NEW c \in Range(q) PROVE c = Head(q) \/ c \in Range(Tail(q))
    <3>1. PICK i \in 1 .. Len(q) : c = q[i]
      BY DEF Range
    <3>2. CASE i = 1
      BY <2>1, <3>1, <3>2
    <3>3. CASE i # 1
      <4>1. i - 1 \in 1 .. Len(q) - 1 /\ (i - 1) + 1 = i
        BY <2>1, <3>3
      <4>2. Tail(q)[i - 1] = c
        BY <2>1, <3>1, <4>1
      <4>3. QED
        <5>1. i - 1 \in DOMAIN Tail(q)
          BY <2>1, <4>1
        <5>2. QED
          BY <4>2, <5>1 DEF Range
    <3>4. QED
      BY <3>2, <3>3
  <2>4. Range(Tail(q)) \subseteq Range(q)
    <3>1. \A i \in 1 .. Len(q) - 1 : i + 1 \in 1 .. Len(q)
      BY <2>1
    <3>2. QED
      BY <2>1, <3>1 DEF Range
  <2>5. QED
    BY <2>1, <2>2, <2>3, <2>4
<1>3. QED
  BY <1>1, <1>2

-----------------------------------------------------------------------------
(* What each step does to the transcript *)

\* The four ways in which it changes: a message more at the end, the running
\* bubble edited, messages dropped, the status of the last card set.
LEMMA Appends ==
    ASSUME messages \in Seq(Message), NEW m \in Message, messages' = Append(messages, m)
    PROVE  /\ messages' \in Seq(Message) /\ Len(messages') = Len(messages) + 1
           /\ \A i \in 1 .. Len(messages) : messages'[i] = messages[i]
           /\ messages'[Len(messages')] = m
BY AppendProperties

LEMMA Sends ==
    ASSUME TypeOK, Send
    PROVE  /\ turn' \in Turns
           /\ messages' \in Seq(Message) /\ Len(messages') = Len(messages) + 2
           /\ \A i \in 1 .. Len(messages) : messages'[i] = messages[i]
           /\ messages'[Len(messages) + 1] = [role |-> "user", turn |-> turn', text |-> 1]
           /\ messages'[Len(messages) + 2] = [role |-> "assistant", turn |-> turn', text |-> 0]
<1> DEFINE u == [role |-> "user", turn |-> turn', text |-> 1]
           a == [role |-> "assistant", turn |-> turn', text |-> 0]
<1>1. turn' \in Turns
  <2>1. turn \in Nat /\ Len(BatchOf) \in Nat /\ turn < Len(BatchOf) /\ turn' = turn + 1
    BY TurnViewAssumption DEF TypeOK, Send
  <2>2. QED
    BY <2>1 DEF Turns
<1>2. u \in Message /\ a \in Message
  BY <1>1, TurnViewAssumption DEF Message
<1> HIDE DEF u, a
<1>3. messages \in Seq(Message) /\ <<u, a>> \in Seq(Message)
  BY <1>2 DEF TypeOK
<1>4. messages' = messages \o <<u, a>>
  BY DEF Send, u, a
<1>5. messages' \in Seq(Message) /\ Len(messages') = Len(messages) + 2
  BY <1>3, <1>4
<1>6. \A i \in 1 .. Len(messages) : messages'[i] = messages[i]
  BY <1>3, <1>4
<1>7. messages'[Len(messages) + 1] = u /\ messages'[Len(messages) + 2] = a
  BY <1>3, <1>4
<1>8. QED
  BY <1>1, <1>5, <1>6, <1>7 DEF u, a

\* Messages are dropped, and none of the rest is an empty bubble of some turns.
Dropped(ts) ==
    /\ messages' \in Seq(Message)
    /\ \A a \in 1 .. Len(messages') :
          \E j \in 1 .. Len(messages) :
             messages'[a] = messages[j] /\ ~IsEmpty(messages[j], ts)

LEMMA Drops ==
    ASSUME messages \in Seq(Message), NEW ts, messages' = WithoutEmpty(ts)
    PROVE  Dropped(ts)
BY WithoutEmptyFacts DEF Dropped

\* The result reaches the last card of its tool.
CardSet ==
    LET i == LastCard(Batch[next]) IN
    /\ messages' \in Seq(Message) /\ Len(messages') = Len(messages)
    /\ \A k \in 1 .. Len(messages) : k # i => messages'[k] = messages[k]
    /\ i # 0 => /\ i \in 1 .. Len(messages) /\ messages[i].role = "tool"
                /\ messages'[i].role = "tool" /\ messages'[i].turn = messages[i].turn
                /\ messages'[i].status # "executing"

LEMMA SetsCard ==
    ASSUME TypeOK, ReadToolResult
    PROVE  CardSet
<1> DEFINE i == LastCard(Batch[next])
<1>1. messages \in Seq(Message)
  BY DEF TypeOK
<1>2. \/ i = 0
      \/ i \in 1 .. Len(messages) /\ i # 0 /\ messages[i].role = "tool"
  <2>1. i = 0 \/ i \in CardsOf(Batch[next])
    BY <1>1, LastCardIs
  <2>2. QED
    BY <1>1, <2>1 DEF CardsOf
<1>3. PICK failed \in BOOLEAN :
        messages' = IF i = 0 THEN messages
                    ELSE [messages EXCEPT ![i].status =
                             IF failed THEN "failed" ELSE "completed"]
  BY DEF ReadToolResult
<1> HIDE DEF i
<1>4. CASE i = 0
  BY <1>1, <1>3, <1>4 DEF CardSet, i
<1>5. CASE i # 0
  <2> DEFINE status == IF failed THEN "failed" ELSE "completed"
             new == [messages[i] EXCEPT !.status = status]
  <2>1. messages[i] \in [role : {"tool"}, turn : Turns, call : Calls,
                         status : {"executing", "completed", "failed"}]
    BY <1>1, <1>2, <1>5 DEF Message
  <2>2. /\ new \in Message /\ new.role = "tool" /\ new.turn = messages[i].turn
        /\ new.status # "executing"
    BY <2>1 DEF Message
  <2>3. messages' = [messages EXCEPT ![i] = new]
    BY <1>3, <1>5
  <2> HIDE DEF new
  <2>4. /\ messages' \in Seq(Message) /\ Len(messages') = Len(messages)
        /\ messages'[i] = new
        /\ \A k \in 1 .. Len(messages) : k # i => messages'[k] = messages[k]
    BY <1>1, <1>2, <1>5, <2>2, <2>3
  <2>5. QED
    BY <1>2, <1>5, <2>2, <2>4 DEF CardSet, i
<1>6. QED
  BY <1>4, <1>5

\* The call whose events are read is one of the batch.
LEMMA NextIs ==
    ASSUME TypeOK, Phases, phase \in {"calls", "results"}
    PROVE  next \in 1 .. Len(Batch) /\ Batch[next] \in Calls /\ streaming
<1>1. streaming
  BY DEF Phases
<1>2. next \in 1 .. Len(Batch)
  BY <1>1, Running DEF Phases
<1>3. QED
  BY <1>1, <1>2, Running

LEMMA ReadsCall ==
    ASSUME TypeOK, Phases, ReadToolCall
    PROVE  \/ messages' = messages
           \/ \E m \in Message :
                 /\ m.role = "tool" /\ m.turn = turn /\ m.call = Batch[next]
                 /\ messages' = Append(messages, m)
<1> DEFINE m == [role |-> "tool", turn |-> turn, call |-> Batch[next], status |-> "executing"]
<1>1. turn \in Turns /\ Batch[next] \in Calls
  BY NextIs, Running DEF ReadToolCall
<1>2. m \in Message /\ m.role = "tool" /\ m.turn = turn /\ m.call = Batch[next]
  BY <1>1 DEF Message
<1>3. messages' = messages \/ messages' = Append(messages, m)
  BY DEF ReadToolCall
<1> HIDE DEF m
<1>4. QED
  BY <1>2, <1>3

LEMMA TypeStep ==
    ASSUME TypeOK, Phases, Next
    PROVE  TypeOK'
<1> DEFINE Endings == {"none", "done", "error", "cut", "broken", "stopped", "refused"}
<1>0. \A how \in Endings : End(how) =>
         /\ streaming' \in BOOLEAN /\ phase' = "idle" /\ ending' \in [Turns -> Endings]
         /\ UNCHANGED <<post, turn, verdict, next, gated, rushed>>
  BY DEF End, TypeOK
<1>1. CASE Send
  <2>1. messages' \in Seq(Message)
    BY <1>1, Sends
  <2>2. turn' \in 0 .. Len(BatchOf)
    BY <1>1, Sends DEF Turns
  <2>3. QED
    BY <1>1, <2>1, <2>2 DEF Send, TypeOK
<1>2. CASE RespondError
  <2>1. messages' \in Seq(Message)
    BY <1>2, EditFacts DEF RespondError, Edited, TypeOK
  <2>2. QED
    BY <1>0, <1>2, <2>1 DEF RespondError, TypeOK
<1>3. CASE ReadEnd
  <2>1. \E how \in Endings : End(how)
    BY <1>3 DEF ReadEnd
  <2>2. QED
    BY <1>0, <1>3, <2>1 DEF ReadEnd, TypeOK
<1>4. CASE Breaks
  <2>1. messages' \in Seq(Message)
    BY <1>4, EditFacts DEF Breaks, Edited, TypeOK
  <2>2. QED
    BY <1>0, <1>4, <2>1 DEF Breaks, TypeOK
<1>5. CASE Cancel /\ messages' \in Seq(Message)
  <2>1. approvalQueue' \in Seq(Calls)
    BY <1>5 DEF Cancel
  <2>2. ending' \in [Turns -> Endings]
    BY <1>5 DEF Cancel, TypeOK
  <2>3. QED
    BY <1>5, <2>1, <2>2 DEF Cancel, TypeOK
<1>6. CASE Stop
  <2>1. messages' \in Seq(Message)
    BY <1>6, Drops DEF Stop, Dropped, TypeOK
  <2>2. QED
    BY <1>5, <1>6, <2>1 DEF Stop
<1>7. CASE Clear
  BY <1>5, <1>7 DEF Clear
<1>8. CASE ReadMessage
  <2>1. messages' \in Seq(Message)
    BY <1>8, EditFacts DEF ReadMessage, Edited, TypeOK
  <2>2. QED
    BY <1>8, <2>1 DEF ReadMessage, ServerFrame, TypeOK
<1>9. CASE StartBatch
  <2>1. messages' \in Seq(Message)
    BY <1>9, EditFacts DEF StartBatch, Edited, TypeOK
  <2>2. QED
    BY <1>9, <2>1 DEF StartBatch, ServerFrame, TypeOK
<1>10. CASE FlushBatch
  BY <1>10 DEF FlushBatch, ServerFrame, TypeOK
<1>11. CASE ReadToolCall
  <2>1. messages' \in Seq(Message)
    BY <1>11, ReadsCall, Appends DEF TypeOK
  <2>2. QED
    BY <1>11, <2>1 DEF ReadToolCall, ServerFrame, TypeOK
<1>12. CASE ReadToolResult
  <2>1. messages' \in Seq(Message)
    BY <1>12, SetsCard DEF CardSet
  <2>2. next' \in Nat /\ phase' \in {"model", "calls"}
    BY <1>12 DEF ReadToolResult, TypeOK
  <2>3. QED
    BY <1>12, <2>1, <2>2 DEF ReadToolResult, ServerFrame, TypeOK
<1>13. CASE ReadError
  <2>1. messages' \in Seq(Message)
    BY <1>13, EditFacts DEF ReadError, Edited, TypeOK
  <2>2. QED
    BY <1>13, <2>1 DEF ReadError, ServerFrame, TypeOK
<1>14. CASE ReadDone
  <2>1. messages' \in Seq(Message)
    BY <1>14, Drops DEF ReadDone, Dropped, TypeOK
  <2>2. QED
    BY <1>14, <2>1 DEF ReadDone, ServerFrame, TypeOK
<1>15. ASSUME NEW c \in Calls, RequireApproval(c) PROVE TypeOK'
  <2>1. approvalQueue' \in Seq(Calls)
    BY <1>15 DEF RequireApproval, TypeOK
  <2>2. QED
    BY <1>15, <2>1 DEF RequireApproval, ServerFrame, TypeOK
<1>16. ASSUME NEW c \in Calls, TimeOut(c) PROVE TypeOK'
  BY <1>16 DEF TimeOut, ServerFrame, TypeOK
<1>17. ASSUME NEW p \in Clicks, Handle(p) PROVE TypeOK'
  <2>1. verdict' \in [Calls -> {"none", "pending", "approved", "denied"}]
    BY <1>17 DEF Handle, TypeOK
  <2>2. post' \in [Clicks -> [target : Calls \cup {None}, verdict : {"approved", "denied"},
                              phase : {"unused", "sent", "handled", "over"}]]
    BY <1>17 DEF Handle, TypeOK
  <2>3. QED
    BY <1>17, <2>1, <2>2 DEF Handle, ui, TypeOK
<1>18. ASSUME NEW p \in Clicks, Returns(p) PROVE TypeOK'
  <2>1. approvalQueue' \in Seq(Calls)
    BY <1>18, QueueFacts DEF Returns, TypeOK
  <2>2. post' \in [Clicks -> [target : Calls \cup {None}, verdict : {"approved", "denied"},
                              phase : {"unused", "sent", "handled", "over"}]]
    BY <1>18 DEF Returns, TypeOK
  <2>3. QED
    BY <1>18, <2>1, <2>2 DEF Returns, server, TypeOK
<1>19. ASSUME NEW p \in Clicks, NEW v \in {"approved", "denied"}, Answer(p, v) PROVE TypeOK'
  <2>1. Pending \in Calls
    BY <1>19, QueueFacts DEF Answer, Pending, TypeOK
  <2>2. post' \in [Clicks -> [target : Calls \cup {None}, verdict : {"approved", "denied"},
                              phase : {"unused", "sent", "handled", "over"}]]
    BY <1>19, <2>1 DEF Answer, TypeOK
  <2>3. rushed' \in BOOLEAN
    BY <1>19 DEF Answer, TypeOK
  <2>4. QED
    BY <1>19, <2>2, <2>3 DEF Answer, ui, server, TypeOK
<1>20. QED
  BY <1>1, <1>2, <1>3, <1>4, <1>6, <1>7, <1>8, <1>9, <1>10, <1>11, <1>12, <1>13, <1>14,
     <1>15, <1>16, <1>17, <1>18, <1>19 DEF Next

-----------------------------------------------------------------------------
(* Where the turn is, and what lies ahead of it *)

LEMMA PhasesStep ==
    ASSUME TypeOK, Phases, Future, Next
    PROVE  Phases'
<1>0. streaming => turn \in Turns /\ Len(Batch) \in Nat
  BY Running
<1>1. CASE Send
  <2>1. turn' \in Turns /\ turn' > turn /\ turn' # 0 /\ Batch' = BatchOf[turn']
    BY <1>1, Sends DEF Send, TypeOK, Turns, Batch
  <2>2. ending[turn'] = "none" /\ Len(Batch') \in Nat
    BY <2>1, BatchIs DEF Future
  <2>3. next' \in 1 .. Len(Batch') + 1
    BY <1>1, <2>2 DEF Send
  <2>4. QED
    BY <1>1, <2>1, <2>2, <2>3 DEF Send, Phases
<1>2. CASE RespondError \/ ReadEnd \/ Breaks \/ Stop \/ Clear
  BY <1>2 DEF RespondError, ReadEnd, Breaks, Stop, Clear, End, Cancel, Phases
<1>3. CASE ReadMessage
  BY <1>3 DEF ReadMessage, ServerFrame, Phases, Batch
<1>4. CASE StartBatch
  <2>1. Batch # <<>> /\ next = 1 /\ phase = "model" /\ streaming
    BY <1>4 DEF StartBatch, Phases
  <2>2. 1 <= Len(Batch)
    BY <2>1, Running
  <2>3. QED
    BY <1>4, <2>1, <2>2 DEF StartBatch, ServerFrame, Phases, Batch
<1>5. CASE FlushBatch \/ ReadToolCall
  BY <1>5 DEF FlushBatch, ReadToolCall, ServerFrame, Phases, Batch
<1>6. CASE ReadToolResult
  <2>1. next \in 1 .. Len(Batch) /\ streaming
    BY <1>6, NextIs DEF ReadToolResult
  <2>2. /\ next' = next + 1
        /\ phase' = IF next = Len(Batch) THEN "model" ELSE "calls"
        /\ UNCHANGED <<turn, ending, streaming>>
    BY <1>6 DEF ReadToolResult, ServerFrame
  <2>3. Len(Batch) \in Nat
    BY <1>0, <2>1
  <2>4. next' \in 1 .. Len(Batch) + 1 /\ (phase' = "calls" => next' <= Len(Batch))
    BY <2>1, <2>2, <2>3
  <2>5. QED
    BY <2>1, <2>2, <2>4 DEF Phases, Batch
<1>7. CASE ReadError \/ ReadDone
  BY <1>7 DEF ReadError, ReadDone, ServerFrame, Phases, Batch
<1>8. ASSUME NEW c \in Calls, RequireApproval(c) \/ TimeOut(c) PROVE Phases'
  BY <1>8 DEF RequireApproval, TimeOut, ServerFrame, Phases, Batch
<1>9. ASSUME NEW p \in Clicks, Handle(p) \/ Returns(p) PROVE Phases'
  BY <1>9 DEF Handle, Returns, ui, server, Phases, Batch
<1>10. ASSUME NEW p \in Clicks, NEW v \in {"approved", "denied"}, Answer(p, v) PROVE Phases'
  BY <1>10 DEF Answer, ui, server, Phases, Batch
<1>11. QED
  BY <1>1, <1>2, <1>3, <1>4, <1>5, <1>6, <1>7, <1>8, <1>9, <1>10 DEF Next

\* A step reaches no turn but the running one: the turns ahead keep their end,
\* and the verdicts of their calls.
LEMMA FutureStep ==
    ASSUME TypeOK, Phases, Future, Next
    PROVE  Future'
<1> DEFINE Ahead == \A t \in Turns : t > turn' =>
                       /\ ending'[t] = ending[t]
                       /\ \A c \in Range(BatchOf[t]) : verdict[c] = "none" => verdict'[c] = "none"
           Sent == \A i \in 1 .. Len(messages') : messages'[i].turn <= turn'
<1>0. turn \in Nat /\ Turns \subseteq Nat /\ messages \in Seq(Message) /\ Len(messages) \in Nat
  BY TurnViewAssumption DEF TypeOK, Turns
<1>1. (turn' = turn /\ messages' = messages) => Sent
  BY DEF Future
<1>2. turn' = turn /\ (\E ts : Dropped(ts)) => Sent
  BY DEF Future, Dropped
<1>3. turn' = turn /\ (\E texts : Edited(texts)) => Sent
  <2> SUFFICES ASSUME turn' = turn, NEW texts, Edited(texts), NEW i \in 1 .. Len(messages)
               PROVE  messages'[i].turn <= turn
    BY DEF Edited
  <2>1. messages'[i] = messages[i] \/ messages'[i].turn = turn
    BY DEF Edited
  <2>2. QED
    BY <1>0, <2>1 DEF Future
<1>4. ASSUME NEW t \in Turns, streaming, NEW how, End(how), t > turn
      PROVE  ending'[t] = ending[t]
  BY <1>0, <1>4, Running DEF End, TypeOK
<1>5. ASSUME NEW t \in Turns, Cancel, t > turn
      PROVE  ending'[t] = ending[t]
  BY <1>0, <1>5 DEF Cancel, TypeOK
<1>6. CASE Send
  <2>1. turn' = turn + 1 /\ turn' \in Turns /\ UNCHANGED <<ending, verdict>>
    BY <1>6, Sends DEF Send
  <2>2. ASSUME NEW i \in 1 .. Len(messages') PROVE messages'[i].turn <= turn'
    <3>1. /\ messages'[Len(messages) + 1].turn = turn'
          /\ messages'[Len(messages) + 2].turn = turn'
          /\ Len(messages') = Len(messages) + 2
          /\ \A k \in 1 .. Len(messages) : messages'[k] = messages[k]
      BY <1>6, Sends
    <3>2. CASE i \in 1 .. Len(messages)
      <4>1. messages'[i].turn = messages[i].turn /\ messages[i].turn <= turn
        BY <3>1, <3>2 DEF Future
      <4>2. messages[i] \in Message
        BY <1>0, <3>2
      <4>3. messages[i].turn \in Turns
        BY <4>2 DEF Message
      <4>4. messages[i].turn \in Nat
        BY <1>0, <4>3
      <4>5. messages[i].turn <= turn'
        <5> DEFINE sent == messages[i].turn
        <5>1. sent \in Nat /\ sent <= turn
          BY <4>1, <4>4
        <5> HIDE DEF sent
        <5>2. sent <= turn'
          BY <1>0, <2>1, <5>1
        <5>3. QED
          BY <5>2 DEF sent
      <4>6. QED
        BY <4>1, <4>5
    <3>3. CASE i \in {Len(messages) + 1, Len(messages) + 2}
      BY <1>0, <2>1, <3>1, <3>3
    <3>4. QED
      BY <1>0, <3>1, <3>2, <3>3
  <2>3. ASSUME NEW t \in Turns, t > turn' PROVE t > turn
    BY <1>0, <2>1, <2>3
  <2>4. QED
    BY <2>1, <2>2, <2>3 DEF Future
<1>7. CASE turn' = turn /\ Ahead /\ Sent
  BY <1>7 DEF Future
<1>8. CASE RespondError
  <2>1. streaming /\ End("refused") /\ Edited({1})
    BY <1>8, EditFacts DEF RespondError, Phases, TypeOK
  <2>2. turn' = turn /\ verdict' = verdict
    BY <2>1 DEF End
  <2>3. QED
    BY <1>3, <1>4, <1>7, <2>1, <2>2
<1>9. CASE ReadEnd
  <2>1. PICK how : streaming /\ End(how) /\ messages' = messages
    BY <1>9 DEF ReadEnd
  <2>2. turn' = turn /\ verdict' = verdict
    BY <2>1 DEF End
  <2>3. QED
    BY <1>1, <1>4, <1>7, <2>1, <2>2
<1>10. CASE Breaks
  <2>1. streaming /\ End("broken") /\ Edited(1 .. MaxText)
    BY <1>10, EditFacts DEF Breaks, TypeOK
  <2>2. turn' = turn /\ verdict' = verdict
    BY <2>1 DEF End
  <2>3. QED
    BY <1>3, <1>4, <1>7, <2>1, <2>2
<1>11. CASE Stop
  <2>1. Cancel /\ Dropped(Turns)
    BY <1>0, <1>11, Drops DEF Stop
  <2>2. turn' = turn /\ verdict' = verdict
    BY <2>1 DEF Cancel
  <2>3. QED
    BY <1>2, <1>5, <1>7, <2>1, <2>2
<1>12. CASE Clear
  <2>1. Cancel /\ Len(messages') = 0
    BY <1>12 DEF Clear
  <2>2. turn' = turn /\ verdict' = verdict
    BY <2>1 DEF Cancel
  <2>3. QED
    BY <1>5, <1>7, <2>1, <2>2
<1>13. CASE ReadMessage \/ ReadError
  <2>1. Edited(1 .. MaxText) /\ UNCHANGED <<turn, verdict, ending>>
    BY <1>13, EditFacts DEF ReadMessage, ReadError, ServerFrame, TypeOK
  <2>2. QED
    BY <1>3, <1>7, <2>1
<1>14. CASE StartBatch
  <2>1. Edited({0}) /\ UNCHANGED <<turn, ending>>
    BY <1>14, EditFacts DEF StartBatch, ServerFrame, TypeOK
  <2>2. streaming /\ turn \in Turns
    BY <1>14, Running DEF StartBatch, Phases
  <2>3. \A c \in Calls : c \notin Range(Batch) => verdict'[c] = verdict[c]
    BY <1>14 DEF StartBatch
  <2>4. ASSUME NEW t \in Turns, t > turn, NEW c \in Range(BatchOf[t])
        PROVE  verdict'[c] = verdict[c]
    <3>1. c \in Calls /\ t # turn
      BY <1>0, <2>4, BatchIs
    <3>2. c \notin Range(Batch)
      BY <2>2, <3>1, OneTurnPerCall DEF Batch
    <3>3. QED
      BY <2>3, <3>1, <3>2
  <2>5. QED
    BY <1>3, <1>7, <2>1, <2>4
<1>15. CASE FlushBatch
  BY <1>1, <1>7, <1>15 DEF FlushBatch, ServerFrame
<1>16. CASE ReadToolCall
  <2>1. UNCHANGED <<turn, verdict, ending>>
    BY <1>16 DEF ReadToolCall, ServerFrame
  <2>2. Sent
    <3>1. CASE messages' = messages
      BY <1>1, <2>1, <3>1
    <3>2. CASE \E m \in Message : m.turn = turn /\ messages' = Append(messages, m)
      <4>1. PICK m \in Message : m.turn = turn /\ messages' = Append(messages, m)
        BY <3>2
      <4>2. /\ Len(messages') = Len(messages) + 1
            /\ \A i \in 1 .. Len(messages) : messages'[i] = messages[i]
            /\ messages'[Len(messages')] = m
        BY <1>0, <4>1, Appends
      <4>3. \A i \in 1 .. Len(messages') : i \in 1 .. Len(messages) \/ i = Len(messages')
        BY <1>0, <4>2
      <4>4. QED
        BY <1>0, <2>1, <4>1, <4>2, <4>3 DEF Future
    <3>3. QED
      BY <1>16, <3>1, <3>2, ReadsCall
  <2>3. QED
    BY <1>7, <2>1, <2>2
<1>17. CASE ReadToolResult
  <2>1. UNCHANGED <<turn, verdict, ending>>
    BY <1>17 DEF ReadToolResult, ServerFrame
  <2>2. Sent
    <3>1. CardSet
      BY <1>17, SetsCard
    <3>2. Len(messages') = Len(messages)
          /\ \A i \in 1 .. Len(messages) : messages'[i].turn = messages[i].turn
      BY <1>0, <3>1 DEF CardSet
    <3>3. QED
      BY <2>1, <3>2 DEF Future
  <2>3. QED
    BY <1>7, <2>1, <2>2
<1>18. CASE ReadDone
  <2>1. Dropped({turn}) /\ UNCHANGED <<turn, verdict, ending>>
    BY <1>0, <1>18, Drops DEF ReadDone, ServerFrame
  <2>2. QED
    BY <1>2, <1>7, <2>1
<1>19. ASSUME NEW c \in Calls, RequireApproval(c) PROVE Future'
  <2>1. UNCHANGED <<turn, messages, ending>> /\ verdict' = [verdict EXCEPT ![c] = "pending"]
    BY <1>19 DEF RequireApproval, ServerFrame
  <2>2. streaming /\ turn \in Turns /\ c \in Range(BatchOf[turn])
    BY <1>19, Running DEF RequireApproval, Phases, Batch
  <2>3. \A t \in Turns : t > turn => c \notin Range(BatchOf[t])
    <3>1. SUFFICES ASSUME NEW t \in Turns, t > turn, c \in Range(BatchOf[t]) PROVE FALSE
      OBVIOUS
    <3>2. t = turn
      BY <2>2, <3>1, OneTurnPerCall
    <3>3. QED
      BY <1>0, <3>1, <3>2
  <2>4. \A d \in Calls : d # c => verdict'[d] = verdict[d]
    BY <2>1 DEF TypeOK
  <2>5. QED
    BY <1>1, <1>7, <2>1, <2>3, <2>4, BatchIs
<1>20. ASSUME NEW c \in Calls, TimeOut(c) PROVE Future'
  <2>1. /\ UNCHANGED <<turn, messages, ending>>
        /\ \A d \in Calls : verdict[d] = "none" => verdict'[d] = "none"
    BY <1>20 DEF TimeOut, ServerFrame, TypeOK
  <2>2. QED
    BY <1>1, <1>7, <2>1, BatchIs
<1>21. ASSUME NEW p \in Clicks, Handle(p) PROVE Future'
  <2>1. /\ UNCHANGED <<turn, messages, ending>>
        /\ \A d \in Calls : verdict[d] = "none" => verdict'[d] = "none"
    BY <1>21 DEF Handle, ui, TypeOK
  <2>2. QED
    BY <1>1, <1>7, <2>1, BatchIs
<1>22. ASSUME NEW p \in Clicks, Returns(p) \/ \E v \in {"approved", "denied"} : Answer(p, v)
       PROVE  Future'
  BY <1>1, <1>7, <1>22 DEF Returns, Answer, ui, server
<1>23. QED
  BY <1>6, <1>8, <1>9, <1>10, <1>11, <1>12, <1>13, <1>14, <1>15, <1>16, <1>17, <1>18,
     <1>19, <1>20, <1>21, <1>22 DEF Next

-----------------------------------------------------------------------------
(* The dialogs *)

LEMMA DialogsStep ==
    ASSUME TypeOK, Phases, Future, Dialogs, Next
    PROVE  Dialogs'
<1> DEFINE Decided == phase' \in {"model", "calls", "results", "erred", "closing"} =>
                         \A c \in Range(Batch') : verdict'[c] # "pending"
           OnTop == ~rushed' => \A p \in InFlight' :
                       \/ approvalQueue' # <<>> /\ post'[p].target = Head(approvalQueue')
                       \/ approvalQueue' = <<>> /\ phase' \in {"closing", "idle"}
<1>1. ASSUME UNCHANGED <<post, rushed>>, Decided, OnTop PROVE Dialogs'
  BY <1>1 DEF Dialogs, InFlight
<1>2. ASSUME UNCHANGED <<post, rushed, approvalQueue>>,
             phase \notin {"closing", "idle"} \/ phase' \in {"closing", "idle"}
      PROVE  OnTop
  BY <1>2 DEF Dialogs, InFlight
<1>3. CASE Send
  <2>1. turn' \in Turns /\ turn' > turn /\ Batch' = BatchOf[turn']
    BY <1>3, Sends DEF Send, TypeOK, Turns, Batch
  <2>2. \A c \in Range(Batch') : verdict'[c] = "none"
    BY <1>3, <2>1 DEF Send, Future
  <2>3. ~rushed' => InFlight' = {}
    BY <1>3 DEF Send, InFlight
  <2>4. post' = post
    BY <1>3 DEF Send
  <2>5. QED
    BY <2>2, <2>3, <2>4 DEF Dialogs
<1>4. CASE RespondError \/ ReadEnd \/ Breaks
  <2>1. UNCHANGED <<post, rushed, approvalQueue>> /\ phase' = "idle"
    BY <1>4 DEF RespondError, ReadEnd, Breaks, End
  <2>2. QED
    BY <1>1, <1>2, <2>1
<1>5. CASE Stop \/ Clear
  <2>1. UNCHANGED <<post, rushed>> /\ phase' = "idle" /\ approvalQueue' = <<>>
    BY <1>5 DEF Stop, Clear, Cancel
  <2>2. QED
    BY <1>1, <2>1
<1>6. CASE ReadMessage \/ ReadError
  <2>1. UNCHANGED <<post, rushed, approvalQueue, verdict, turn>> /\ phase = "model"
    BY <1>6 DEF ReadMessage, ReadError, ServerFrame
  <2>2. QED
    BY <1>1, <1>2, <2>1 DEF Dialogs, Batch
<1>7. CASE StartBatch
  BY <1>1, <1>2, <1>7 DEF StartBatch, ServerFrame
<1>8. CASE FlushBatch
  <2>1. /\ UNCHANGED <<post, rushed, approvalQueue, verdict, turn>> /\ phase = "batch"
        /\ \A c \in Range(Batch) : verdict[c] \in {"approved", "denied"}
    BY <1>8 DEF FlushBatch, ServerFrame
  <2>2. QED
    BY <1>1, <1>2, <2>1 DEF Batch
<1>9. CASE ReadToolCall \/ ReadToolResult
  <2>1. UNCHANGED <<post, rushed, approvalQueue, verdict, turn>> /\ phase \in {"calls", "results"}
    BY <1>9 DEF ReadToolCall, ReadToolResult, ServerFrame
  <2>2. QED
    BY <1>1, <1>2, <2>1 DEF Dialogs, Batch
<1>10. CASE ReadDone
  <2>1. /\ UNCHANGED <<post, rushed, verdict, turn>> /\ phase = "model"
        /\ approvalQueue' = <<>> /\ phase' = "closing"
    BY <1>10 DEF ReadDone, ServerFrame
  <2>2. QED
    BY <1>1, <2>1 DEF Dialogs, Batch
<1>11. ASSUME NEW c \in Calls, RequireApproval(c) PROVE Dialogs'
  <2>1. /\ UNCHANGED <<post, rushed, phase>> /\ phase = "batch"
        /\ approvalQueue' = Append(approvalQueue, c) /\ approvalQueue \in Seq(Calls)
    BY <1>11 DEF RequireApproval, ServerFrame, TypeOK
  <2>2. approvalQueue' # <<>> /\ (approvalQueue # <<>> => Head(approvalQueue') = Head(approvalQueue))
    BY <2>1, QueueFacts
  <2>3. QED
    BY <1>1, <2>1, <2>2 DEF Dialogs, InFlight
<1>12. ASSUME NEW c \in Calls, TimeOut(c) PROVE Dialogs'
  <2>1. /\ UNCHANGED <<post, rushed, phase, turn, approvalQueue>>
        /\ \A d \in Calls : verdict[d] # "pending" => verdict'[d] # "pending"
    BY <1>12 DEF TimeOut, ServerFrame, TypeOK
  <2>2. Decided
    BY <2>1, Running DEF Dialogs, Batch, Phases
  <2>3. QED
    BY <1>1, <2>1, <2>2 DEF Dialogs, InFlight
<1>13. ASSUME NEW p \in Clicks, Handle(p) PROVE Dialogs'
  <2>1. /\ UNCHANGED <<rushed, phase, turn, approvalQueue>>
        /\ \A d \in Calls : verdict[d] # "pending" => verdict'[d] # "pending"
    BY <1>13 DEF Handle, ui, TypeOK
  <2>2. Decided
    BY <2>1, Running DEF Dialogs, Batch, Phases
  <2>3. /\ InFlight' = InFlight
        /\ \A q \in Clicks : post'[q].target = post[q].target
        /\ \A q \in Clicks : post'[q].phase = "unused" => post[q].phase = "unused"
    BY <1>13 DEF Handle, InFlight, TypeOK
  <2>4. QED
    BY <2>1, <2>2, <2>3 DEF Dialogs, InFlight
<1>14. ASSUME NEW p \in Clicks, Returns(p) PROVE Dialogs'
  <2>1. UNCHANGED <<rushed, phase, turn, verdict>>
    BY <1>14 DEF Returns, server
  <2>2. Decided
    BY <2>1 DEF Dialogs, Batch
  <2>3. /\ InFlight' = InFlight \ {p} /\ p \in InFlight
        /\ \A q \in Clicks : post'[q].target = post[q].target
        /\ \A q \in Clicks : post'[q].phase = "unused" => post[q].phase = "unused"
    BY <1>14 DEF Returns, InFlight, TypeOK
  <2>4. ~rushed => InFlight' = {}
    BY <2>3 DEF Dialogs
  <2>5. QED
    BY <2>1, <2>2, <2>3, <2>4 DEF Dialogs
<1>15. ASSUME NEW p \in Clicks, NEW v \in {"approved", "denied"}, Answer(p, v) PROVE Dialogs'
  <2>1. UNCHANGED <<phase, turn, verdict, approvalQueue>>
    BY <1>15 DEF Answer, ui, server
  <2>2. Decided
    BY <2>1 DEF Dialogs, Batch
  <2>3. Pending = Head(approvalQueue) /\ approvalQueue # <<>>
    BY <1>15 DEF Answer, Pending
  <2>4. /\ InFlight' = InFlight \cup {p}
        /\ post'[p].target = Head(approvalQueue)
        /\ \A q \in Clicks : post'[q].phase = "unused" => q # p /\ post'[q] = post[q]
    BY <1>15, <2>3 DEF Answer, InFlight, TypeOK
  <2>5. ~rushed' => InFlight' = {p}
    BY <1>15, <2>4 DEF Answer
  <2>6. QED
    BY <2>1, <2>2, <2>3, <2>4, <2>5 DEF Dialogs
<1>16. QED
  BY <1>3, <1>4, <1>5, <1>6, <1>7, <1>8, <1>9, <1>10, <1>11, <1>12, <1>13, <1>14, <1>15
     DEF Next

\* A call of the running batch can only begin to wait with its dialog, and its
\* dialog can only leave the queue answered.
LEMMA SkippedStep ==
    ASSUME TypeOK, Phases, Dialogs, Dialogs', Phases', TypeOK', NoApprovalSkipped, Next
    PROVE  NoApprovalSkipped'
<1>1. CASE phase' # "batch"
  <2>1. streaming' => phase' \in {"model", "calls", "results", "erred", "closing"}
    BY <1>1 DEF Phases, TypeOK
  <2>2. QED
    BY <2>1 DEF Dialogs, NoApprovalSkipped
<1>2. approvalQueue \in Seq(Calls) /\ (streaming => Range(Batch) \subseteq Calls)
  BY Running DEF TypeOK
<1>3. CASE StartBatch
  <2>1. /\ phase = "model" /\ turn' = turn /\ streaming
        /\ \A c \in Calls : verdict'[c] = "pending" => verdict[c] = "pending"
    BY <1>3 DEF StartBatch, ServerFrame, TypeOK, Phases
  <2>2. QED
    BY <1>2, <2>1 DEF Dialogs, NoApprovalSkipped, Batch
<1>4. ASSUME NEW c \in Calls, RequireApproval(c) PROVE NoApprovalSkipped'
  <2>1. /\ UNCHANGED <<post, turn, rushed, streaming>>
        /\ \A d \in Calls : d # c => verdict'[d] = verdict[d]
        /\ Range(approvalQueue') = Range(approvalQueue) \cup {c}
    BY <1>2, <1>4, QueueFacts DEF RequireApproval, ServerFrame, TypeOK
  <2>2. QED
    BY <1>2, <2>1 DEF NoApprovalSkipped, Batch
<1>5. ASSUME NEW c \in Calls, TimeOut(c) PROVE NoApprovalSkipped'
  <2>1. /\ UNCHANGED <<post, turn, rushed, streaming, approvalQueue>>
        /\ \A d \in Calls : verdict'[d] = "pending" => verdict[d] = "pending"
    BY <1>5 DEF TimeOut, ServerFrame, TypeOK
  <2>2. QED
    BY <1>2, <2>1 DEF NoApprovalSkipped, Batch
<1>6. ASSUME NEW p \in Clicks, Handle(p) PROVE NoApprovalSkipped'
  <2>1. /\ UNCHANGED <<turn, rushed, streaming, approvalQueue>>
        /\ \A d \in Calls : verdict'[d] = "pending" => verdict[d] = "pending"
        /\ \A q \in Clicks : post'[q].target = post[q].target
    BY <1>6 DEF Handle, ui, TypeOK
  <2>2. QED
    BY <1>2, <2>1 DEF NoApprovalSkipped, Batch
<1>7. ASSUME NEW p \in Clicks, Returns(p) PROVE NoApprovalSkipped'
  <2>1. /\ UNCHANGED <<turn, rushed, streaming, verdict>>
        /\ \A q \in Clicks : post'[q].target = post[q].target
        /\ approvalQueue' = IF approvalQueue = <<>> THEN <<>> ELSE Tail(approvalQueue)
    BY <1>7 DEF Returns, server, TypeOK
  <2>2. CASE approvalQueue = <<>>
    BY <2>1, <2>2 DEF NoApprovalSkipped, Batch
  <2>3. CASE approvalQueue # <<>>
    <3>1. Range(approvalQueue) = {Head(approvalQueue)} \cup Range(approvalQueue')
      BY <1>2, <2>1, <2>3, QueueFacts
    <3>2. ~rushed => post[p].target = Head(approvalQueue)
      BY <1>7, <2>3 DEF Returns, Dialogs, InFlight
    <3>3. QED
      BY <2>1, <3>1, <3>2 DEF NoApprovalSkipped, Batch
  <2>4. QED
    BY <2>2, <2>3
<1>8. ASSUME NEW p \in Clicks, NEW v \in {"approved", "denied"}, Answer(p, v)
      PROVE  NoApprovalSkipped'
  <2>1. /\ UNCHANGED <<turn, streaming, verdict, approvalQueue>> /\ (rushed => rushed')
        /\ \A q \in Clicks : q # p => post'[q].target = post[q].target
        /\ post[p].target = None
    BY <1>8 DEF Answer, ui, server, TypeOK, Dialogs
  <2>2. None \notin Calls
    BY TurnViewAssumption
  <2>3. QED
    BY <1>2, <2>1, <2>2 DEF NoApprovalSkipped, Batch
<1>9. QED
  <2>1. ASSUME phase' = "batch"
        PROVE  \/ StartBatch
               \/ \E c \in Calls : RequireApproval(c) \/ TimeOut(c)
               \/ \E p \in Clicks : Handle(p) \/ Returns(p)
               \/ \E p \in Clicks, v \in {"approved", "denied"} : Answer(p, v)
    BY <2>1 DEF Next, Send, RespondError, ReadEnd, Breaks, Stop, Clear, End, Cancel,
         ReadMessage, FlushBatch, ReadToolCall, ReadToolResult, ReadError, ReadDone
  <2>2. QED
    BY <1>1, <1>3, <1>4, <1>5, <1>6, <1>7, <1>8, <2>1

\* What leaves the queue leaves it with the end of the turn that asked, and only
\* the running turn asks.
LEMMA StaleStep ==
    ASSUME TypeOK, Phases, NoStaleDialog, Next
    PROVE  NoStaleDialog'
<1> DEFINE Same == \A t \in Turns : ending'[t] \in {"done", "stopped"} =>
                                      ending[t] \in {"done", "stopped"}
<1>0. approvalQueue \in Seq(Calls)
  BY DEF TypeOK
<1>1. CASE Same /\ Range(approvalQueue') \subseteq Range(approvalQueue)
  BY <1>1 DEF NoStaleDialog
<1>2. CASE approvalQueue' = <<>>
  BY <1>2 DEF NoStaleDialog, Range
<1>3. ASSUME NEW how, End(how), how \notin {"done", "stopped"} PROVE Same
  BY <1>3 DEF End, TypeOK
<1>4. CASE RespondError \/ Breaks
  BY <1>1, <1>3, <1>4 DEF RespondError, Breaks
<1>5. CASE ReadEnd
  <2>1. CASE phase = "closing"
    BY <1>2, <1>5, <2>1 DEF ReadEnd, Phases
  <2>2. CASE phase # "closing"
    BY <1>1, <1>3, <1>5, <2>2 DEF ReadEnd
  <2>3. QED
    BY <2>1, <2>2
<1>6. CASE Stop \/ Clear \/ ReadDone
  BY <1>2, <1>6 DEF Stop, Clear, ReadDone, Cancel
<1>7. CASE Send \/ ReadMessage \/ StartBatch \/ FlushBatch \/ ReadToolCall \/ ReadToolResult
           \/ ReadError
  BY <1>1, <1>7 DEF Send, ReadMessage, StartBatch, FlushBatch, ReadToolCall, ReadToolResult,
                    ReadError, ServerFrame
<1>8. ASSUME NEW c \in Calls, RequireApproval(c) PROVE NoStaleDialog'
  <2>1. /\ ending' = ending /\ phase = "batch" /\ c \in Range(Batch)
        /\ Range(approvalQueue') = Range(approvalQueue) \cup {c}
    BY <1>0, <1>8, QueueFacts DEF RequireApproval, ServerFrame
  <2>2. turn \in Turns /\ ending[turn] = "none"
    BY <2>1, Running DEF Phases
  <2>3. ASSUME NEW t \in Turns, ending[t] \in {"done", "stopped"} PROVE c \notin Range(BatchOf[t])
    <3>1. t # turn
      BY <2>2, <2>3
    <3>2. QED
      BY <2>1, <2>2, <3>1, OneTurnPerCall DEF Batch
  <2>4. QED
    BY <2>1, <2>3 DEF NoStaleDialog
<1>9. ASSUME NEW c \in Calls, TimeOut(c) PROVE NoStaleDialog'
  BY <1>1, <1>9 DEF TimeOut, ServerFrame
<1>10. ASSUME NEW p \in Clicks, Handle(p) \/ \E v \in {"approved", "denied"} : Answer(p, v)
       PROVE  NoStaleDialog'
  BY <1>1, <1>10 DEF Handle, Answer, ui
<1>11. ASSUME NEW p \in Clicks, Returns(p) PROVE NoStaleDialog'
  <2>1. ending' = ending /\ Range(approvalQueue') \subseteq Range(approvalQueue)
    BY <1>0, <1>11, QueueFacts DEF Returns
  <2>2. QED
    BY <1>1, <2>1
<1>12. QED
  BY <1>4, <1>5, <1>6, <1>7, <1>8, <1>9, <1>10, <1>11 DEF Next

-----------------------------------------------------------------------------
(* The cards and the bubbles *)

\* A message of the transcript has its turn among the turns.
LEMMA MessageIs ==
    ASSUME messages \in Seq(Message), NEW i \in 1 .. Len(messages)
    PROVE  messages[i] \in Message /\ messages[i].turn \in Turns
<1>1. messages[i] \in Message
  OBVIOUS
<1>2. QED
  BY <1>1 DEF Message

Interrupted == {"cut", "broken", "stopped"}

IsRunning(m) == m.role = "tool" /\ m.status = "executing"

LEMMA CardsStep ==
    ASSUME TypeOK, Phases, Cards, Next
    PROVE  Cards'
<1> DEFINE OldCards == \A a \in 1 .. Len(messages') : IsRunning(messages'[a]) =>
                          \E j \in 1 .. Len(messages) : messages'[a] = messages[j]
           StillInterrupted == \A t \in Turns : ending[t] \in Interrupted =>
                                                ending'[t] \in Interrupted
           Flushed == phase = "results" => ending'[turn] \in Interrupted
<1>0. messages \in Seq(Message) /\ Len(messages) \in Nat /\ DOMAIN ending = Turns
  BY DEF TypeOK
<1>1. ASSUME OldCards, StillInterrupted, Flushed PROVE Cards'
  <2> SUFFICES ASSUME NEW a \in 1 .. Len(messages'), IsRunning(messages'[a])
               PROVE  ending'[messages'[a].turn] \in Interrupted
    BY DEF Cards, CardRuns, IsRunning, Interrupted
  <2>1. PICK j \in 1 .. Len(messages) : messages'[a] = messages[j]
    BY <1>1
  <2>2. ending[messages[j].turn] \in Interrupted \/ (phase = "results" /\ messages[j].turn = turn)
    BY <2>1 DEF Cards, CardRuns, IsRunning, Interrupted
  <2>3. messages[j].turn \in Turns
    BY <1>0, MessageIs
  <2>4. QED
    BY <1>1, <2>1, <2>2, <2>3
<1>2. (messages' = messages \/ \E ts : Dropped(ts)) => OldCards
  BY DEF Dropped
<1>3. (\E texts : Edited(texts)) => OldCards
  BY DEF Edited, IsRunning
<1>4. ending' = ending => StillInterrupted
  OBVIOUS
<1>5. ASSUME NEW how, streaming, End(how)
      PROVE  StillInterrupted /\ turn \in Turns /\ ending'[turn] = how
  BY <1>0, <1>5, Running DEF End, Interrupted
<1>6. ASSUME Cancel PROVE StillInterrupted /\ Flushed
  <2>1. CASE streaming
    BY <1>0, <1>6, <2>1, Running DEF Cancel, Interrupted
  <2>2. CASE ~streaming
    BY <1>6, <2>2 DEF Cancel, Phases
  <2>3. QED
    BY <2>1, <2>2
<1>7. CASE Send
  <2>1. ending' = ending /\ phase # "results"
    BY <1>7 DEF Send, Phases
  <2>2. OldCards
    <3>1. SUFFICES ASSUME NEW a \in 1 .. Len(messages'), IsRunning(messages'[a])
                   PROVE  a \in 1 .. Len(messages) /\ messages'[a] = messages[a]
      OBVIOUS
    <3>2. /\ messages'[Len(messages) + 1].role = "user"
          /\ messages'[Len(messages) + 2].role = "assistant"
          /\ Len(messages') = Len(messages) + 2
          /\ \A k \in 1 .. Len(messages) : messages'[k] = messages[k]
      BY <1>7, Sends
    <3>3. a # Len(messages) + 1 /\ a # Len(messages) + 2
      BY <3>1, <3>2 DEF IsRunning
    <3>4. QED
      BY <1>0, <3>2, <3>3
  <2>3. QED
    BY <1>1, <1>4, <2>1, <2>2
<1>8. CASE RespondError
  <2>1. streaming /\ End("refused") /\ Edited({1}) /\ phase = "model"
    BY <1>0, <1>8, EditFacts DEF RespondError, Phases
  <2>2. QED
    BY <1>1, <1>3, <1>5, <2>1
<1>9. CASE ReadEnd
  <2>1. PICK how : streaming /\ End(how) /\ messages' = messages /\ (phase = "results" => how = "cut")
    BY <1>9 DEF ReadEnd
  <2>2. QED
    BY <1>1, <1>2, <1>5, <2>1 DEF Interrupted
<1>10. CASE Breaks
  <2>1. streaming /\ End("broken") /\ Edited(1 .. MaxText)
    BY <1>0, <1>10, EditFacts DEF Breaks
  <2>2. QED
    BY <1>1, <1>3, <1>5, <2>1 DEF Interrupted
<1>11. CASE Stop
  <2>1. Cancel /\ Dropped(Turns)
    BY <1>0, <1>11, Drops DEF Stop
  <2>2. QED
    BY <1>1, <1>2, <1>6, <2>1
<1>12. CASE Clear
  <2>1. Len(messages') = 0
    BY <1>12 DEF Clear
  <2>2. QED
    BY <2>1 DEF Cards
<1>13. CASE ReadMessage \/ ReadError
  <2>1. Edited(1 .. MaxText) /\ ending' = ending /\ phase # "results"
    BY <1>0, <1>13, EditFacts DEF ReadMessage, ReadError, ServerFrame
  <2>2. QED
    BY <1>1, <1>3, <1>4, <2>1
<1>14. CASE StartBatch
  <2>1. Edited({0}) /\ ending' = ending /\ phase # "results"
    BY <1>0, <1>14, EditFacts DEF StartBatch, ServerFrame
  <2>2. QED
    BY <1>1, <1>3, <1>4, <2>1
<1>15. CASE FlushBatch
  <2>1. messages' = messages /\ ending' = ending /\ phase # "results"
    BY <1>15 DEF FlushBatch, ServerFrame
  <2>2. QED
    BY <1>1, <1>2, <1>4, <2>1
<1>16. CASE ReadToolCall
  <2>1. /\ UNCHANGED <<turn, next, ending>> /\ phase = "calls" /\ phase' = "results"
    BY <1>16 DEF ReadToolCall, ServerFrame
  <2>2. CASE messages' = messages
    BY <1>1, <1>2, <1>4, <2>1, <2>2
  <2>3. CASE \E m \in Message : /\ m.role = "tool" /\ m.turn = turn /\ m.call = Batch[next]
                                /\ messages' = Append(messages, m)
    <3>1. PICK m \in Message : /\ m.role = "tool" /\ m.turn = turn /\ m.call = Batch[next]
                               /\ messages' = Append(messages, m)
      BY <2>3
    <3>2. /\ Len(messages') = Len(messages) + 1
          /\ \A i \in 1 .. Len(messages) : messages'[i] = messages[i]
          /\ messages'[Len(messages')] = m
      BY <1>0, <3>1, Appends
    <3> SUFFICES ASSUME NEW a \in 1 .. Len(messages'), IsRunning(messages'[a])
                 PROVE  CardRuns(a)'
      BY DEF Cards, IsRunning
    <3>3. CASE a = Len(messages')
      BY <2>1, <3>1, <3>2, <3>3 DEF CardRuns, Batch
    <3>4. CASE a # Len(messages')
      <4>1. a \in 1 .. Len(messages) /\ messages'[a] = messages[a]
        BY <1>0, <3>2, <3>4
      <4>2. ending[messages[a].turn] \in {"cut", "broken", "stopped"}
        BY <2>1, <4>1 DEF Cards, CardRuns, IsRunning
      <4>3. QED
        BY <2>1, <4>1, <4>2 DEF CardRuns
    <3>5. QED
      BY <3>3, <3>4
  <2>4. QED
    BY <1>16, <2>2, <2>3, ReadsCall
<1>17. CASE ReadToolResult
  <2> DEFINE c == Batch[next]  i == LastCard(c)
  <2>1. CardSet /\ ending' = ending /\ phase = "results"
    BY <1>17, SetsCard DEF ReadToolResult, ServerFrame
  <2> SUFFICES ASSUME NEW a \in 1 .. Len(messages'), IsRunning(messages'[a])
               PROVE  ending[messages'[a].turn] \in Interrupted
    BY <2>1 DEF Cards, CardRuns, IsRunning, Interrupted
  <2>2. a \in 1 .. Len(messages) /\ a # i /\ messages'[a] = messages[a]
    BY <2>1 DEF CardSet, IsRunning
  <2>3. ASSUME a = Len(messages), ToolOf(messages[a].call) = ToolOf(c) PROVE FALSE
    <3>1. a \in CardsOf(c)
      BY <1>0, <2>2, <2>3 DEF CardsOf, IsRunning
    <3>2. i \in CardsOf(c) /\ a <= i
      BY <1>0, <3>1, LastCardIs
    <3>3. i \in 1 .. Len(messages)
      BY <1>0, <3>2 DEF CardsOf
    <3>4. i = a
      <4> HIDE DEF i, c
      <4>1. QED
        BY <1>0, <2>3, <3>2, <3>3
    <3>5. QED
      BY <2>2, <3>4
  <2>4. QED
    BY <2>2, <2>3 DEF Cards, CardRuns, IsRunning, Interrupted
<1>18. CASE ReadDone
  <2>1. Dropped({turn}) /\ ending' = ending /\ phase # "results"
    BY <1>0, <1>18, Drops DEF ReadDone, ServerFrame
  <2>2. QED
    BY <1>1, <1>2, <1>4, <2>1
<1>19. CASE UNCHANGED <<messages, ending, turn, phase, next>>
  BY <1>19 DEF Cards, CardRuns, Batch
<1>20. QED
  <2>1. ASSUME \/ \E c \in Calls : RequireApproval(c) \/ TimeOut(c)
               \/ \E p \in Clicks : Handle(p) \/ Returns(p)
               \/ \E p \in Clicks, v \in {"approved", "denied"} : Answer(p, v)
        PROVE  UNCHANGED <<messages, ending, turn, phase, next>>
    BY <2>1 DEF RequireApproval, TimeOut, Handle, Returns, Answer, ServerFrame, ui, server
  <2>2. QED
    BY <1>7, <1>8, <1>9, <1>10, <1>11, <1>12, <1>13, <1>14, <1>15, <1>16, <1>17, <1>18,
       <1>19, <2>1 DEF Next

IsBlank(m) == m.role = "assistant" /\ m.text = 0

LEMMA BubblesStep ==
    ASSUME TypeOK, Phases, Bubbles, Next
    PROVE  Bubbles'
<1> DEFINE Writing == {"model", "batch", "calls", "results"}
           Others == \A a \in 1 .. Len(messages') : IsBlank(messages'[a]) =>
                        \E j \in 1 .. Len(messages) :
                           messages'[a] = messages[j] /\ messages[j].turn # turn
           Old == \A a \in 1 .. Len(messages') : IsBlank(messages'[a]) =>
                     \E j \in 1 .. Len(messages) : messages'[a] = messages[j]
           StillCut == \A t \in Turns : t # turn => ending'[t] = ending[t]
<1>0. messages \in Seq(Message) /\ Len(messages) \in Nat /\ DOMAIN ending = Turns
  BY DEF TypeOK
<1>1. ASSUME Others, StillCut PROVE Bubbles'
  <2> SUFFICES ASSUME NEW a \in 1 .. Len(messages'), IsBlank(messages'[a])
               PROVE  ending'[messages'[a].turn] = "cut"
    BY DEF Bubbles, BubbleWaits, IsBlank
  <2>1. PICK j \in 1 .. Len(messages) : messages'[a] = messages[j] /\ messages[j].turn # turn
    BY <1>1
  <2>2. ending[messages[j].turn] = "cut" /\ messages[j].turn \in Turns
    BY <1>0, <2>1, MessageIs DEF Bubbles, BubbleWaits, IsBlank
  <2>3. QED
    BY <1>1, <2>1, <2>2
<1>2. ASSUME Old, UNCHANGED <<turn, ending>>, phase \in Writing => phase' \in Writing
      PROVE  Bubbles'
  <2> SUFFICES ASSUME NEW a \in 1 .. Len(messages'), IsBlank(messages'[a])
               PROVE  BubbleWaits(a)'
    BY DEF Bubbles, IsBlank
  <2>1. PICK j \in 1 .. Len(messages) : messages'[a] = messages[j]
    BY <1>2
  <2>2. BubbleWaits(j)
    BY <2>1 DEF Bubbles, IsBlank
  <2>3. QED
    BY <1>2, <2>1, <2>2 DEF BubbleWaits
<1>3. ASSUME NEW texts, Edited(texts), 0 \notin texts PROVE Others
  BY <1>3 DEF Edited, IsBlank
<1>4. ASSUME NEW how, End(how) PROVE StillCut
  BY <1>0, <1>4 DEF End
<1>5. CASE Send
  <2>1. /\ messages'[Len(messages) + 1].role = "user"
        /\ messages'[Len(messages) + 2].turn = turn'
        /\ Len(messages') = Len(messages) + 2
        /\ \A k \in 1 .. Len(messages) : messages'[k] = messages[k]
    BY <1>5, Sends
  <2>2. phase = "idle" /\ phase' = "model" /\ ending' = ending
    BY <1>5 DEF Send, Phases
  <2> SUFFICES ASSUME NEW a \in 1 .. Len(messages'), IsBlank(messages'[a])
               PROVE  BubbleWaits(a)'
    BY DEF Bubbles, IsBlank
  <2>3. CASE a \in 1 .. Len(messages)
    <3>1. ending[messages[a].turn] = "cut"
      BY <2>1, <2>2, <2>3 DEF Bubbles, BubbleWaits, IsBlank
    <3>2. QED
      BY <2>1, <2>2, <2>3, <3>1 DEF BubbleWaits
  <2>4. CASE a \notin 1 .. Len(messages)
    <3>1. a = Len(messages) + 1 \/ a = Len(messages) + 2
      BY <1>0, <2>1, <2>4
    <3>2. a = Len(messages) + 2
      BY <2>1, <3>1 DEF IsBlank
    <3>3. QED
      BY <2>1, <2>2, <3>2 DEF BubbleWaits
  <2>5. QED
    BY <2>3, <2>4
<1>6. CASE RespondError
  <2>1. End("refused") /\ Edited({1})
    BY <1>0, <1>6, EditFacts DEF RespondError
  <2>2. QED
    BY <1>1, <1>3, <1>4, <2>1
<1>7. CASE ReadEnd
  <2>1. PICK how : End(how) /\ messages' = messages /\ streaming
                   /\ (phase \in Writing => how = "cut")
    BY <1>7 DEF ReadEnd
  <2>2. turn \in Turns /\ ending'[turn] = how /\ StillCut /\ ending[turn] = "none"
    BY <1>0, <1>4, <2>1, Running DEF End
  <2> SUFFICES ASSUME NEW a \in 1 .. Len(messages), IsBlank(messages[a])
               PROVE  ending'[messages[a].turn] = "cut"
    BY <2>1 DEF Bubbles, BubbleWaits, IsBlank
  <2>3. messages[a].turn \in Turns /\ BubbleWaits(a)
    BY <1>0, MessageIs DEF Bubbles, IsBlank
  <2>4. QED
    BY <2>1, <2>2, <2>3 DEF BubbleWaits
<1>8. CASE Breaks
  <2>1. End("broken") /\ Edited(1 .. MaxText)
    BY <1>0, <1>8, EditFacts DEF Breaks
  <2>2. 0 \notin 1 .. MaxText
    BY TurnViewAssumption
  <2>3. QED
    BY <1>1, <1>3, <1>4, <2>1, <2>2
<1>9. CASE Stop
  <2>1. Dropped(Turns)
    BY <1>0, <1>9, Drops DEF Stop
  <2>2. ASSUME NEW a \in 1 .. Len(messages') PROVE ~IsBlank(messages'[a])
    BY <1>0, <2>1, MessageIs DEF Dropped, IsEmpty, IsBlank
  <2>3. QED
    BY <2>2 DEF Bubbles, IsBlank
<1>10. CASE Clear
  <2>1. Len(messages') = 0
    BY <1>10 DEF Clear
  <2>2. QED
    BY <2>1 DEF Bubbles
<1>11. CASE ReadMessage \/ ReadError
  <2>1. Edited(1 .. MaxText) /\ ending' = ending
    BY <1>0, <1>11, EditFacts DEF ReadMessage, ReadError, ServerFrame
  <2>2. 0 \notin 1 .. MaxText
    BY TurnViewAssumption
  <2>3. QED
    BY <1>1, <1>3, <2>1, <2>2
<1>12. CASE StartBatch
  <2>1. Edited({0}) /\ UNCHANGED <<turn, ending>> /\ phase' = "batch"
    BY <1>0, <1>12, EditFacts DEF StartBatch, ServerFrame
  <2> SUFFICES ASSUME NEW a \in 1 .. Len(messages), IsBlank(messages'[a])
               PROVE  BubbleWaits(a)'
    BY <2>1 DEF Bubbles, IsBlank, Edited
  <2>2. CASE messages'[a] = messages[a] /\ messages[a].turn # turn
    BY <2>1, <2>2 DEF Bubbles, BubbleWaits, IsBlank
  <2>3. CASE messages'[a].turn = turn
    BY <2>1, <2>3 DEF BubbleWaits
  <2>4. QED
    BY <2>1, <2>2, <2>3 DEF Edited, IsBlank
<1>13. CASE FlushBatch
  BY <1>2, <1>13 DEF FlushBatch, ServerFrame
<1>14. CASE ReadToolCall
  <2>1. UNCHANGED <<turn, ending>> /\ phase' = "results"
    BY <1>14 DEF ReadToolCall, ServerFrame
  <2>2. Old
    <3>1. CASE messages' = messages
      BY <3>1
    <3>2. CASE \E m \in Message : m.role = "tool" /\ messages' = Append(messages, m)
      <4>1. PICK m \in Message : m.role = "tool" /\ messages' = Append(messages, m)
        BY <3>2
      <4>2. /\ Len(messages') = Len(messages) + 1
            /\ \A i \in 1 .. Len(messages) : messages'[i] = messages[i]
            /\ messages'[Len(messages')].role = "tool"
        BY <1>0, <4>1, Appends
      <4>3. ASSUME NEW a \in 1 .. Len(messages'), IsBlank(messages'[a])
            PROVE  a \in 1 .. Len(messages) /\ messages'[a] = messages[a]
        <5>1. a # Len(messages')
          BY <4>2, <4>3 DEF IsBlank
        <5>2. QED
          BY <1>0, <4>2, <5>1
      <4>4. QED
        BY <4>3
    <3>3. QED
      BY <1>14, <3>1, <3>2, ReadsCall
  <2>3. QED
    BY <1>2, <2>1, <2>2
<1>15. CASE ReadToolResult
  <2>1. CardSet /\ UNCHANGED <<turn, ending>> /\ phase' \in Writing
    BY <1>15, SetsCard DEF ReadToolResult, ServerFrame
  <2>2. Old
    BY <2>1 DEF CardSet, IsBlank
  <2>3. QED
    BY <1>2, <2>1, <2>2
<1>16. CASE ReadDone
  <2>1. Dropped({turn}) /\ ending' = ending
    BY <1>0, <1>16, Drops DEF ReadDone, ServerFrame
  <2>2. Others
    BY <2>1 DEF Dropped, IsEmpty, IsBlank
  <2>3. QED
    BY <1>1, <2>1, <2>2
<1>17. CASE UNCHANGED <<messages, ending, turn, phase>>
  BY <1>17 DEF Bubbles, BubbleWaits
<1>18. QED
  <2>1. ASSUME \/ \E c \in Calls : RequireApproval(c) \/ TimeOut(c)
               \/ \E p \in Clicks : Handle(p) \/ Returns(p)
               \/ \E p \in Clicks, v \in {"approved", "denied"} : Answer(p, v)
        PROVE  UNCHANGED <<messages, ending, turn, phase>>
    BY <2>1 DEF RequireApproval, TimeOut, Handle, Returns, Answer, ServerFrame, ui, server
  <2>2. QED
    BY <1>5, <1>6, <1>7, <1>8, <1>9, <1>10, <1>11, <1>12, <1>13, <1>14, <1>15, <1>16,
       <1>17, <2>1 DEF Next

-----------------------------------------------------------------------------
(* The properties *)

\* The invariant holds in every state of every behaviour.
THEOREM Inductive == Spec => []IInv
<1>1. IInv /\ [Next]_vars => IInv'
  <2> SUFFICES ASSUME IInv, [Next]_vars PROVE IInv'
    OBVIOUS
  <2>1. CASE Next
    <3>1. TypeOK' /\ Phases' /\ Future'
      BY <2>1, TypeStep, PhasesStep, FutureStep DEF IInv
    <3>2. Dialogs' /\ Cards' /\ Bubbles'
      BY <2>1, DialogsStep, CardsStep, BubblesStep DEF IInv
    <3>3. NoApprovalSkipped' /\ NoStaleDialog'
      BY <2>1, <3>1, <3>2, SkippedStep, StaleStep DEF IInv
    <3>4. QED
      BY <3>1, <3>2, <3>3 DEF IInv
  <2>2. CASE UNCHANGED vars
    BY <2>2 DEF vars, ui, server, IInv, TypeOK, Phases, Future, Dialogs, Cards, CardRuns,
         Bubbles, BubbleWaits, NoApprovalSkipped, NoStaleDialog, InFlight, Batch
  <2>3. QED
    BY <2>1, <2>2
<1>2. QED
  BY <1>1, Init_IInv, PTL DEF Spec

\* NoApprovalSkipped: the user is asked about every call that waits, whatever
\* the batches and however many clicks, as long as no dialog is answered twice
\* and no answer outlives its turn (handleSSEEvent, approveAction, denyAction).
THEOREM EveryApprovalIsAsked == Spec => []NoApprovalSkipped
<1>1. IInv => NoApprovalSkipped
  BY DEF IInv
<1>2. QED
  BY <1>1, Inductive, PTL

\* NoStaleDialog: a turn that was done or stopped asks nothing any more (the
\* queue is emptied by the done event and by cancelCurrentRequest).
THEOREM DialogsEndWithTheirTurn == Spec => []NoStaleDialog
<1>1. IInv => NoStaleDialog
  BY DEF IInv
<1>2. QED
  BY <1>1, Inductive, PTL

\* TurnsEndClean: a turn that came to its end leaves no card executing and no
\* bubble empty, though results find their card by the name of the tool alone.
THEOREM NothingIsLeftExecuting == Spec => []TurnsEndClean
<1>1. ASSUME IInv PROVE TurnsEndClean
  <2> SUFFICES ASSUME NEW i \in DOMAIN messages, ending[messages[i].turn] \in {"done", "error"}
               PROVE  /\ messages[i].role = "tool" => messages[i].status # "executing"
                      /\ messages[i].role = "assistant" => messages[i].text # 0
    BY DEF TurnsEndClean
  <2>1. i \in 1 .. Len(messages)
    BY <1>1 DEF IInv, TypeOK
  <2>2. phase # "idle" => ending[turn] = "none"
    BY <1>1 DEF IInv, Phases
  <2>3. QED
    BY <1>1, <2>1, <2>2 DEF IInv, Cards, CardRuns, Bubbles, BubbleWaits
<1>2. QED
  BY <1>1, Inductive, PTL
=============================================================================
