------------------------- MODULE ChatSessionsProofs -------------------------
(***************************************************************************)
(* The safety properties of ChatSessions, for any sets of requests and     *)
(* names and any window size.                                              *)
(***************************************************************************)
EXTENDS ChatSessions, SequenceTheorems, TLAPS

-----------------------------------------------------------------------------
(* What AddMessage does to a history without system messages, which is     *)
(* every history the chat service keeps: it appends, then drops messages   *)
(* from the front.                                                         *)

\* A history that holds messages and does not start with a system message has
\* no leading system messages to preserve (trimWindow's sysCount is 0).
LEMMA SysCountZero ==
    ASSUME NEW S, NEW h \in Seq(S), Len(h) > 0, h[1].role # "system"
    PROVE  SysCount(h) = 0
<1>1. \A n \in 0 .. Len(h) :
        (/\ \A i \in 1 .. n : h[i].role = "system"
         /\ n < Len(h) => h[n + 1].role # "system") <=> n = 0
  <2>1. \A n \in 0 .. Len(h) : (\A i \in 1 .. n : h[i].role = "system") => n = 0
    OBVIOUS
  <2>2. QED BY <2>1
<1>2. 0 \in 0 .. Len(h)
  OBVIOUS
<1>3. QED
  BY <1>1, <1>2 DEF SysCount

\* The window limit is positive whatever the manager was configured with.
LEMMA WindowLimitPositive ==
    ASSUME NEW max \in Int
    PROVE  WindowLimit(max) \in Nat \ {0}
BY DEF WindowLimit, DefaultMaxMessages

\* t is the history h and then msg, with the k oldest messages dropped.
IsWindowOf(t, h, msg) ==
    /\ Len(t) > 0
    /\ \E k \in 0 .. Len(h) :
         /\ Len(t) = Len(h) + 1 - k
         /\ \A j \in 1 .. Len(h) + 1 - k : t[j] = Append(h, msg)[j + k]

\* AddMessage on a history without system messages: the result is the old
\* history and the new message with the k oldest messages dropped, the new
\* message is kept, and the result is no longer than the window.
LEMMA AddMessageDropsOldest ==
    ASSUME NEW S, NEW h \in Seq(S), NEW msg \in S, NEW max \in Int,
           \A s \in S : s.role # "system"
    PROVE  /\ AddMessage(h, msg, max) \in Seq(S)
           /\ Len(AddMessage(h, msg, max)) <= WindowLimit(max)
           /\ IsWindowOf(AddMessage(h, msg, max), h, msg)
<1> DEFINE a == Append(h, msg)
           limit == WindowLimit(max)
           excess == Len(a) - limit
           t == AddMessage(h, msg, max)
<1>1. a \in Seq(S) /\ Len(a) = Len(h) + 1 /\ a[1].role # "system"
  OBVIOUS
<1>2. limit \in Nat \ {0}
  BY WindowLimitPositive
<1>3. SysCount(a) = 0
  <2> HIDE DEF a
  <2>1. Len(a) > 0
    BY <1>1
  <2>2. QED BY <1>1, <2>1, SysCountZero
<1>4. SubSeq(a, 1, 0) = <<>> /\ SubSeq(a, 0 + 1, Len(a)) = a
  BY <1>1
<1>5. CASE excess <= 0
  <2>1. t = a
    BY <1>1, <1>2, <1>5 DEF AddMessage, TrimWindow
  <2>2. /\ t \in Seq(S) /\ Len(t) > 0 /\ Len(t) <= limit
        /\ Len(t) = Len(h) + 1 - 0
        /\ \A j \in 1 .. Len(h) + 1 - 0 : t[j] = a[j + 0]
    BY <2>1, <1>1, <1>2, <1>5
  <2>3. 0 \in 0 .. Len(h)
    OBVIOUS
  <2>4. QED BY <2>2, <2>3 DEF IsWindowOf
<1>6. CASE excess > 0
  <2>1. excess \in 1 .. Len(h) /\ ~(excess >= Len(a)) /\ ~(excess <= 0)
    BY <1>1, <1>2, <1>6
  <2>2. t = <<>> \o SubSeq(a, excess + 1, Len(a))
    BY <1>3, <1>4, <2>1 DEF AddMessage, TrimWindow
  <2>3. SubSeq(a, excess + 1, Len(a)) \in Seq(S)
    BY <1>1, <2>1
  <2>4. t = SubSeq(a, excess + 1, Len(a))
    BY <2>2, <2>3
  <2>5. /\ Len(t) = Len(h) + 1 - excess
        /\ \A j \in 1 .. Len(h) + 1 - excess : t[j] = a[j + excess]
    <3> HIDE DEF t, a, excess, limit
    <3>1. \A i \in excess + 1 .. Len(a) : a[i] \in S
      BY <1>1, <2>1
    <3>2. excess + 1 \in Int /\ Len(a) \in Int
      BY <1>1, <2>1
    <3>3. /\ Len(SubSeq(a, excess + 1, Len(a))) =
               IF excess + 1 <= Len(a) THEN Len(a) - (excess + 1) + 1 ELSE 0
          /\ \A i \in 1 .. Len(a) - (excess + 1) + 1 :
               SubSeq(a, excess + 1, Len(a))[i] = a[(excess + 1) + i - 1]
      BY <3>1, <3>2, SubSeqProperties
    <3>4. Len(a) - (excess + 1) + 1 = Len(h) + 1 - excess /\ excess + 1 <= Len(a)
      BY <1>1, <2>1
    <3>5. \A j \in 1 .. Len(h) + 1 - excess : (excess + 1) + j - 1 = j + excess
      BY <2>1
    <3>6. QED BY <2>4, <3>3, <3>4, <3>5
  <2>6. t \in Seq(S) /\ excess \in 0 .. Len(h)
    BY <2>1, <2>3, <2>4
  <2>7. Len(t) > 0 /\ Len(t) <= limit
    BY <2>5, <2>1, <1>1, <1>2
  <2> HIDE DEF t, excess, limit, a
  <2>8. QED
    BY <2>5, <2>6, <2>7 DEF t, limit, a, IsWindowOf
<1>7. excess \in Int
  BY <1>1, <1>2
<1> HIDE DEF t, excess, limit
<1>8. excess <= 0 \/ excess > 0
  BY <1>7
<1>9. QED
  BY <1>5, <1>6, <1>8 DEF t, limit

-----------------------------------------------------------------------------
(* Facts about the constants and the action that appends to a history *)

LEMMA ConstantFacts ==
    /\ Msgs \subseteq Procs /\ Dels \subseteq Procs /\ Msgs \subseteq IDs
    /\ \A p \in Procs : p \in Msgs \/ p \in Dels
    /\ \A m \in Msgs : m \notin Dels /\ m # None
    /\ \A d \in Dels : d # None
    /\ None \notin IDs
    /\ MaxMessages \in Int
BY ChatSessionsAssumption DEF IDs, Procs

\* Appending to a history keeps it a sequence of user and assistant messages.
LEMMA AddMessageType ==
    ASSUME NEW h \in Seq(Message), NEW msg \in Message
    PROVE  AddMessage(h, msg, MaxMessages) \in Seq(Message)
<1>1. \A s \in Message : s.role # "system"
  BY DEF Message
<1>2. QED
  BY <1>1, AddMessageDropsOldest, ConstantFacts

-----------------------------------------------------------------------------
LEMMA TypeStep == TypeOK /\ Naming /\ [Next]_vars => TypeOK'
<1> SUFFICES ASSUME TypeOK, Naming, [Next]_vars PROVE TypeOK'
  OBVIOUS
<1> USE ConstantFacts DEF TypeOK, Goto, sessionVars, MsgPcs, DelPcs, HoldingPcs
<1>1. ASSUME NEW m \in Msgs, NEW i \in IDs, GetOrCreate(m, i) PROVE TypeOK'
  <2>1. CASE sessions[i] # None
    <3>1. sessions[i] \in Msgs
      BY <2>1
    <3>2. pc' = [pc EXCEPT ![m] = "acquire"] /\ sess' = [sess EXCEPT ![m] = sessions[i]]
      BY <1>1, <2>1 DEF GetOrCreate
    <3>3. sess' \in [Procs -> Msgs \cup {None}]
      BY <3>1, <3>2
    <3>4. QED BY <1>1, <3>2, <3>3 DEF GetOrCreate
  <2>2. CASE sessions[i] = None
    <3>1. pc' = [pc EXCEPT ![m] = "create"] /\ sess' = sess
      BY <1>1, <2>2 DEF GetOrCreate
    <3>2. QED BY <1>1, <3>1 DEF GetOrCreate
  <2>3. QED BY <2>1, <2>2
<1>2. ASSUME NEW m \in Msgs, GetOrCreateSlow(m) PROVE TypeOK'
  <2>1. id[m] \in IDs
    BY <1>2 DEF GetOrCreateSlow, Naming
  <2>2. CASE sessions[id[m]] # None
    <3>1. sessions[id[m]] \in Msgs
      BY <2>1, <2>2
    <3>2. sess' = [sess EXCEPT ![m] = sessions[id[m]]] /\ sessions' = sessions
      BY <1>2, <2>2 DEF GetOrCreateSlow
    <3>3. sess' \in [Procs -> Msgs \cup {None}]
      BY <3>1, <3>2
    <3>4. QED BY <1>2, <3>2, <3>3 DEF GetOrCreateSlow
  <2>3. CASE sessions[id[m]] = None
    <3>1. /\ sess' = [sess EXCEPT ![m] = m]
          /\ sessions' = [sessions EXCEPT ![id[m]] = m]
      BY <1>2, <2>3 DEF GetOrCreateSlow
    <3>2. QED BY <1>2, <2>1, <3>1 DEF GetOrCreateSlow
  <2>4. QED BY <2>2, <2>3
<1>3. ASSUME NEW m \in Msgs, Create(m) PROVE TypeOK'
  BY <1>3 DEF Create
<1>4. ASSUME NEW m \in Msgs, AcquireTurn(m) PROVE TypeOK'
  <2>1. sess[m] \in Msgs
    BY <1>4 DEF AcquireTurn, Naming
  <2>2. PICK l \in {"refused", "acquired", "waiting"} : pc' = [pc EXCEPT ![m] = l]
    BY <1>4 DEF AcquireTurn
  <2>3. turnActive' \in [Msgs -> BOOLEAN]
    BY <1>4, <2>1 DEF AcquireTurn
  <2>4. QED BY <1>4, <2>2, <2>3 DEF AcquireTurn
<1>5. ASSUME NEW m \in Msgs, AcquireCancelled(m) PROVE TypeOK'
  BY <1>5 DEF AcquireCancelled
<1>6. ASSUME NEW m \in Msgs, Register(m) PROVE TypeOK'
  BY <1>6 DEF Register
<1>7. ASSUME NEW m \in Msgs, AddUserMessage(m) PROVE TypeOK'
  BY <1>7, AddMessageType DEF AddUserMessage, AppendTo, Message
<1>8. ASSUME NEW m \in Msgs, AddAssistantMessage(m) PROVE TypeOK'
  BY <1>8, AddMessageType DEF AddAssistantMessage, AppendTo, Message
<1>9. ASSUME NEW m \in Msgs, Unregister(m) PROVE TypeOK'
  BY <1>9 DEF Unregister
<1>10. ASSUME NEW m \in Msgs, ReleaseTurn(m) PROVE TypeOK'
  BY <1>10 DEF ReleaseTurn
<1>11. ASSUME NEW d \in Dels, NEW i \in IDs, DeleteCancels(d, i) PROVE TypeOK'
  BY <1>11 DEF DeleteCancels, CancelActive
<1>12. ASSUME NEW d \in Dels, DeleteLookup(d) PROVE TypeOK'
  <2>1. id[d] \in IDs
    BY <1>12 DEF DeleteLookup, Naming
  <2>2. CASE sessions[id[d]] = None
    <3>1. /\ pc' = [pc EXCEPT ![d] = "done"] /\ sess' = sess
          /\ reply' = [reply EXCEPT ![d] = "ok"]
      BY <1>12, <2>2 DEF DeleteLookup
    <3>2. QED BY <1>12, <3>1 DEF DeleteLookup
  <2>3. CASE sessions[id[d]] # None
    <3>1. sessions[id[d]] \in Msgs
      BY <2>1, <2>3
    <3>2. /\ sess' = [sess EXCEPT ![d] = sessions[id[d]]]
          /\ pc' = [pc EXCEPT ![d] = "close"] /\ reply' = reply
      BY <1>12, <2>3 DEF DeleteLookup
    <3>3. sess' \in [Procs -> Msgs \cup {None}]
      BY <3>1, <3>2
    <3>4. QED BY <1>12, <3>2, <3>3 DEF DeleteLookup
  <2>4. QED BY <2>2, <2>3
<1>13. ASSUME NEW d \in Dels, Close(d) PROVE TypeOK'
  BY <1>13 DEF Close
<1>14. ASSUME NEW d \in Dels, DeleteDetaches(d) PROVE TypeOK'
  BY <1>14 DEF DeleteDetaches
<1>15. ASSUME NEW d \in Dels, DeleteIfSame(d) PROVE TypeOK'
  BY <1>15 DEF DeleteIfSame
<1>16. ASSUME NEW i \in IDs, PostChatStop(i) PROVE TypeOK'
  BY <1>16 DEF PostChatStop, CancelActive
<1>17. ASSUME NEW p \in Procs, Disconnect(p) PROVE TypeOK'
  BY <1>17 DEF Disconnect
<1>18. CASE UNCHANGED vars
  BY <1>18 DEF vars
<1>19. QED
  BY <1>1, <1>2, <1>3, <1>4, <1>5, <1>6, <1>7, <1>8, <1>9, <1>10, <1>11, <1>12,
     <1>13, <1>14, <1>15, <1>16, <1>17, <1>18 DEF Next, MsgStep, DelStep

-----------------------------------------------------------------------------
LEMMA NamingStep == TypeOK /\ Naming /\ [Next]_vars => Naming'
<1> SUFFICES ASSUME TypeOK, Naming, [Next]_vars PROVE Naming'
  OBVIOUS
<1> USE ConstantFacts DEF TypeOK, Naming, Goto, sessionVars, MsgPcs, DelPcs, HoldingPcs
<1>1. ASSUME NEW m \in Msgs, NEW i \in IDs, GetOrCreate(m, i) PROVE Naming'
  <2>1. id' = [id EXCEPT ![m] = i] /\ i # None /\ pc[m] = "start" /\ sess[m] = None
    BY <1>1 DEF GetOrCreate
  <2>2. i \in Msgs => id[i] = i
    BY <1>1, ChatSessionsAssumption DEF GetOrCreate, KnownIDs
  <2>3. \A p \in Procs : sess[p] # m
    BY <2>1
  <2>4. CASE sessions[i] # None
    <3>1. sessions[i] \in Msgs /\ sessions[i] # m
      BY <2>1, <2>4
    <3>2. pc' = [pc EXCEPT ![m] = "acquire"] /\ sess' = [sess EXCEPT ![m] = sessions[i]]
      BY <1>1, <2>4 DEF GetOrCreate
    <3>3. QED BY <1>1, <2>1, <2>2, <2>3, <3>1, <3>2 DEF GetOrCreate
  <2>5. CASE sessions[i] = None
    <3>1. pc' = [pc EXCEPT ![m] = "create"] /\ sess' = sess
      BY <1>1, <2>5 DEF GetOrCreate
    <3>2. QED BY <1>1, <2>1, <2>2, <2>3, <3>1 DEF GetOrCreate
  <2>6. QED BY <2>4, <2>5
<1>2. ASSUME NEW m \in Msgs, GetOrCreateSlow(m) PROVE Naming'
  <2>1. id[m] \in IDs /\ sess[m] = None /\ pc[m] = "create"
    BY <1>2 DEF GetOrCreateSlow
  <2>2. \A p \in Procs : sess[p] # m
    BY <2>1
  <2>3. pc' = [pc EXCEPT ![m] = "acquire"]
    BY <1>2 DEF GetOrCreateSlow
  <2>4. CASE sessions[id[m]] # None
    <3>1. sessions[id[m]] \in Msgs /\ sessions[id[m]] # m
      BY <2>1, <2>4
    <3>2. sess' = [sess EXCEPT ![m] = sessions[id[m]]] /\ sessions' = sessions
      BY <1>2, <2>4 DEF GetOrCreateSlow
    <3>3. QED BY <1>2, <2>1, <2>2, <2>3, <3>1, <3>2 DEF GetOrCreateSlow
  <2>5. CASE sessions[id[m]] = None
    <3>1. /\ sess' = [sess EXCEPT ![m] = m]
          /\ sessions' = [sessions EXCEPT ![id[m]] = m]
      BY <1>2, <2>5 DEF GetOrCreateSlow
    <3>2. QED BY <1>2, <2>1, <2>2, <2>3, <3>1 DEF GetOrCreateSlow
  <2>6. QED BY <2>4, <2>5
<1>3. ASSUME NEW m \in Msgs, Create(m) PROVE Naming'
  BY <1>3 DEF Create
<1>4. ASSUME NEW m \in Msgs, AcquireTurn(m) PROVE Naming'
  <2>1. sess[m] \in Msgs /\ sess[sess[m]] = sess[m] /\ pc[m] \in {"acquire", "woken"}
    BY <1>4 DEF AcquireTurn
  <2>2. PICK l \in {"refused", "acquired", "waiting"} : pc' = [pc EXCEPT ![m] = l]
    BY <1>4 DEF AcquireTurn
  <2>3. \A o \in Msgs : o # sess[m] => turnActive'[o] = turnActive[o]
    BY <1>4, <2>1 DEF AcquireTurn
  <2>4. UNCHANGED <<sessions, turnClosed, messages, id, sess>>
    BY <1>4 DEF AcquireTurn
  <2>5. \A o \in Msgs : sess'[o] # o =>
            ~turnActive'[o] /\ ~turnClosed'[o] /\ messages'[o] = <<>>
    BY <2>1, <2>3, <2>4
  <2>6. \A p \in Procs : p # m => pc'[p] = pc[p]
    BY <2>2
  <2>7. pc'[m] \notin {"start", "create"} /\ pc[m] \notin {"start", "create"} /\ id[m] # None
    BY <2>1, <2>2
  <2>8. sessions' = sessions /\ id' = id /\ sess' = sess
    BY <2>4
  <2>9. \A q \in Msgs : sess[q] = None <=> pc'[q] \in {"start", "create"}
    BY <2>1, <2>6, <2>7
  <2>10. \A p \in Procs : id[p] = None <=> pc'[p] = "start"
    BY <2>6, <2>7
  <2>11. QED BY <2>5, <2>6, <2>8, <2>9, <2>10
<1>5. ASSUME NEW m \in Msgs, AcquireCancelled(m) PROVE Naming'
  BY <1>5 DEF AcquireCancelled
<1>6. ASSUME NEW m \in Msgs, Register(m) PROVE Naming'
  BY <1>6 DEF Register
<1>7. ASSUME NEW m \in Msgs, AddUserMessage(m) PROVE Naming'
  BY <1>7 DEF AddUserMessage, AppendTo
<1>8. ASSUME NEW m \in Msgs, AddAssistantMessage(m) PROVE Naming'
  BY <1>8 DEF AddAssistantMessage, AppendTo
<1>9. ASSUME NEW m \in Msgs, Unregister(m) PROVE Naming'
  BY <1>9 DEF Unregister
<1>10. ASSUME NEW m \in Msgs, ReleaseTurn(m) PROVE Naming'
  BY <1>10 DEF ReleaseTurn
<1>11. ASSUME NEW d \in Dels, NEW i \in IDs, DeleteCancels(d, i) PROVE Naming'
  <2>1. i # None /\ pc[d] = "start"
    BY <1>11 DEF DeleteCancels
  <2>2. i \in Msgs => id[i] = i
    BY <1>11, ChatSessionsAssumption DEF DeleteCancels, KnownIDs
  <2>3. \A p \in Procs : sess[p] # d
    OBVIOUS
  <2>4. QED BY <1>11, <2>1, <2>2, <2>3 DEF DeleteCancels
<1>12. ASSUME NEW d \in Dels, DeleteLookup(d) PROVE Naming'
  <2>1. id[d] \in IDs /\ pc[d] = "lookup"
    BY <1>12 DEF DeleteLookup
  <2>2. \A p \in Procs : sess[p] # d
    OBVIOUS
  <2>3. CASE sessions[id[d]] = None
    <3>1. pc' = [pc EXCEPT ![d] = "done"] /\ sess' = sess
      BY <1>12, <2>3 DEF DeleteLookup
    <3>2. QED BY <1>12, <2>1, <2>2, <3>1 DEF DeleteLookup
  <2>4. CASE sessions[id[d]] # None
    <3>1. sessions[id[d]] \in Msgs
      BY <2>1, <2>4
    <3>2. sess' = [sess EXCEPT ![d] = sessions[id[d]]] /\ pc' = [pc EXCEPT ![d] = "close"]
      BY <1>12, <2>4 DEF DeleteLookup
    <3>3. QED BY <1>12, <2>1, <2>2, <3>1, <3>2 DEF DeleteLookup
  <2>5. QED BY <2>3, <2>4
<1>13. ASSUME NEW d \in Dels, Close(d) PROVE Naming'
  BY <1>13 DEF Close
<1>14. ASSUME NEW d \in Dels, DeleteDetaches(d) PROVE Naming'
  BY <1>14 DEF DeleteDetaches
<1>15. ASSUME NEW d \in Dels, DeleteIfSame(d) PROVE Naming'
  BY <1>15 DEF DeleteIfSame
<1>16. ASSUME NEW i \in IDs, PostChatStop(i) PROVE Naming'
  BY <1>16 DEF PostChatStop, CancelActive
<1>17. ASSUME NEW p \in Procs, Disconnect(p) PROVE Naming'
  BY <1>17 DEF Disconnect
<1>18. CASE UNCHANGED vars
  BY <1>18 DEF vars
<1>19. QED
  BY <1>1, <1>2, <1>3, <1>4, <1>5, <1>6, <1>7, <1>8, <1>9, <1>10, <1>11, <1>12, <1>13, <1>14, <1>15, <1>16, <1>17, <1>18 DEF Next, MsgStep, DelStep

-----------------------------------------------------------------------------
LEMMA TurnsStep == TypeOK /\ Naming /\ Naming' /\ Turns /\ [Next]_vars => Turns'
<1> SUFFICES ASSUME TypeOK, Naming, Naming', Turns, [Next]_vars PROVE Turns'
  OBVIOUS
<1> USE ConstantFacts DEF TypeOK, Naming, Holding, Turns, UniqueHolder, ActiveIsHeld,
                           WaiterSeesActive, CloserHasClosed, OrphanIsDead,
                           Goto, sessionVars, MsgPcs, DelPcs, HoldingPcs
<1>1. ASSUME NEW m \in Msgs, NEW i \in IDs, GetOrCreate(m, i) PROVE Turns'
  <2>1. pc[m] = "start" /\ sess[m] = None /\ id' = [id EXCEPT ![m] = i]
    BY <1>1 DEF GetOrCreate
  <2>2. /\ \A p \in Procs : p # m => pc'[p] = pc[p] /\ sess'[p] = sess[p] /\ id'[p] = id[p]
        /\ pc'[m] \in {"acquire", "create"} /\ sess'[m] # m
    <3>1. CASE sessions[i] # None
      <4>1. sessions[i] # m
        BY <2>1, <3>1
      <4>2. pc' = [pc EXCEPT ![m] = "acquire"] /\ sess' = [sess EXCEPT ![m] = sessions[i]]
        BY <1>1, <3>1 DEF GetOrCreate
      <4>3. QED BY <2>1, <4>1, <4>2
    <3>2. CASE sessions[i] = None
      <4>1. pc' = [pc EXCEPT ![m] = "create"] /\ sess' = sess
        BY <1>1, <3>2 DEF GetOrCreate
      <4>2. QED BY <2>1, <4>1
    <3>3. QED BY <3>1, <3>2
  <2>3. sessions' = sessions /\ turnActive' = turnActive /\ turnClosed' = turnClosed
    BY <1>1 DEF GetOrCreate
  <2>4. UniqueHolder'
    BY <2>1, <2>2, <2>3
  <2>5. ActiveIsHeld'
    <3>1. \A n \in Msgs : (Holding(n)' <=> Holding(n)) /\ (Holding(n) => sess'[n] = sess[n])
      BY <2>1, <2>2
    <3> HIDE DEF Holding
    <3>2. QED BY <3>1, <2>3
  <2>6. WaiterSeesActive'
    BY <2>1, <2>2, <2>3
  <2>7. CloserHasClosed'
    BY <2>1, <2>2, <2>3
  <2>8. OrphanIsDead'
    BY <2>1, <2>2, <2>3
  <2>9. QED BY <2>4, <2>5, <2>6, <2>7, <2>8
<1>2. ASSUME NEW m \in Msgs, GetOrCreateSlow(m) PROVE Turns'
  <2>1. pc[m] = "create" /\ sess[m] = None /\ id[m] \in IDs /\ id' = id
    BY <1>2 DEF GetOrCreateSlow
  <2>2. pc' = [pc EXCEPT ![m] = "acquire"] /\ turnActive' = turnActive /\ turnClosed' = turnClosed
    BY <1>2 DEF GetOrCreateSlow
  <2>3. CASE sessions[id[m]] # None
    <3>1. sessions[id[m]] \in Msgs /\ sessions[id[m]] # m
      BY <2>1, <2>3
    <3>2. sess' = [sess EXCEPT ![m] = sessions[id[m]]] /\ sessions' = sessions
      BY <1>2, <2>3 DEF GetOrCreateSlow
    <3>3. QED BY <2>1, <2>2, <3>1, <3>2
  <2>4. CASE sessions[id[m]] = None
    <3>1. /\ sess' = [sess EXCEPT ![m] = m]
          /\ sessions' = [sessions EXCEPT ![id[m]] = m]
      BY <1>2, <2>4 DEF GetOrCreateSlow
    <3>2. \A o \in Msgs : sess[o] = o /\ sessions'[id[o]] # o => sessions[id[o]] # o
      BY <2>1, <2>4, <3>1
    <3>3. QED BY <2>1, <2>2, <3>1, <3>2
  <2>5. QED BY <2>3, <2>4
<1>3. ASSUME NEW m \in Msgs, Create(m) PROVE Turns'
  BY <1>3 DEF Create
<1>4. ASSUME NEW m \in Msgs, AcquireTurn(m) PROVE Turns'
  <2>1. sess[m] \in Msgs /\ pc[m] \in {"acquire", "woken"}
    <3>1. pc[m] = "acquire" \/ pc[m] = "woken"
      BY <1>4 DEF AcquireTurn
    <3>2. sess[m] # None
      BY <3>1
    <3>3. QED BY <3>1, <3>2
  <2>2. UNCHANGED <<sessions, turnClosed, id, sess>>
    BY <1>4 DEF AcquireTurn
  <2>3. CASE turnClosed[sess[m]] /\ turnActive' = turnActive /\ pc' = [pc EXCEPT ![m] = "refused"]
    BY <2>1, <2>2, <2>3
  <2>4. CASE /\ ~turnClosed[sess[m]] /\ ~turnActive[sess[m]]
             /\ turnActive' = [turnActive EXCEPT ![sess[m]] = TRUE]
             /\ pc' = [pc EXCEPT ![m] = "acquired"]
    <3>1. UniqueHolder'
      BY <2>1, <2>2, <2>4
    <3>2. ActiveIsHeld'
      BY <2>1, <2>2, <2>4
    <3>3. WaiterSeesActive'
      BY <2>1, <2>2, <2>4
    <3>4. CloserHasClosed'
      BY <2>1, <2>2, <2>4
    <3>5. OrphanIsDead'
      BY <2>1, <2>2, <2>4
    <3>6. QED BY <3>1, <3>2, <3>3, <3>4, <3>5
  <2>5. CASE turnActive[sess[m]] /\ turnActive' = turnActive /\ pc' = [pc EXCEPT ![m] = "waiting"]
    BY <2>1, <2>2, <2>5
  <2>6. QED BY <1>4, <2>3, <2>4, <2>5 DEF AcquireTurn
<1>5. ASSUME NEW m \in Msgs, AcquireCancelled(m) PROVE Turns'
  <2>1. pc' = [pc EXCEPT ![m] = "refused"] /\ pc[m] \in {"waiting", "woken"}
    BY <1>5 DEF AcquireCancelled
  <2>2. UNCHANGED <<sessions, turnActive, turnClosed, id, sess>>
    BY <1>5 DEF AcquireCancelled
  <2>3. QED BY <2>1, <2>2
<1>6. ASSUME NEW m \in Msgs, Register(m) PROVE Turns'
  BY <1>6 DEF Register
<1>7. ASSUME NEW m \in Msgs, AddUserMessage(m) PROVE Turns'
  BY <1>7 DEF AddUserMessage, AppendTo
<1>8. ASSUME NEW m \in Msgs, AddAssistantMessage(m) PROVE Turns'
  BY <1>8 DEF AddAssistantMessage, AppendTo
<1>9. ASSUME NEW m \in Msgs, Unregister(m) PROVE Turns'
  BY <1>9 DEF Unregister
<1>10. ASSUME NEW m \in Msgs, ReleaseTurn(m) PROVE Turns'
  BY <1>10 DEF ReleaseTurn
<1>11. ASSUME NEW d \in Dels, NEW i \in IDs, DeleteCancels(d, i) PROVE Turns'
  BY <1>11 DEF DeleteCancels, CancelActive
<1>12. ASSUME NEW d \in Dels, DeleteLookup(d) PROVE Turns'
  <2>1. UNCHANGED <<sessions, turnActive, turnClosed, id>>
    BY <1>12 DEF DeleteLookup
  <2>2. /\ \A p \in Procs : p # d => pc'[p] = pc[p] /\ sess'[p] = sess[p]
        /\ pc'[d] \in {"done", "close"}
    BY <1>12 DEF DeleteLookup
  <2>3. UniqueHolder'
    BY <2>1, <2>2
  <2>4. ActiveIsHeld'
    <3>1. \A n \in Msgs : (Holding(n)' <=> Holding(n)) /\ sess'[n] = sess[n]
      BY <2>2
    <3>2. turnActive' = turnActive
      BY <2>1
    <3>3. \A n \in Msgs : sess[n] \in Msgs \cup {None}
      OBVIOUS
    <3> HIDE DEF Holding
    <3>4. \A n \in Msgs : Holding(n)' => turnActive'[sess'[n]]
      BY <3>1, <3>2
    <3>5. \A o \in Msgs : turnActive'[o] => \E n \in Msgs : Holding(n)' /\ sess'[n] = o
      BY <3>1, <3>2
    <3>6. QED BY <3>4, <3>5
  <2>5. WaiterSeesActive'
    BY <2>1, <2>2
  <2>6. CloserHasClosed'
    BY <2>1, <2>2
  <2>7. OrphanIsDead'
    BY <2>1, <2>2
  <2>8. QED BY <2>3, <2>4, <2>5, <2>6, <2>7
<1>13. ASSUME NEW d \in Dels, Close(d) PROVE Turns'
  BY <1>13 DEF Close
<1>14. ASSUME NEW d \in Dels, DeleteDetaches(d) PROVE Turns'
  BY <1>14 DEF DeleteDetaches
<1>15. ASSUME NEW d \in Dels, DeleteIfSame(d) PROVE Turns'
  BY <1>15 DEF DeleteIfSame
<1>16. ASSUME NEW i \in IDs, PostChatStop(i) PROVE Turns'
  BY <1>16 DEF PostChatStop, CancelActive
<1>17. ASSUME NEW p \in Procs, Disconnect(p) PROVE Turns'
  BY <1>17 DEF Disconnect
<1>18. CASE UNCHANGED vars
  BY <1>18 DEF vars
<1>19. QED
  BY <1>1, <1>2, <1>3, <1>4, <1>5, <1>6, <1>7, <1>8, <1>9, <1>10, <1>11, <1>12, <1>13, <1>14, <1>15, <1>16, <1>17, <1>18 DEF Next, MsgStep, DelStep

-----------------------------------------------------------------------------
(* What the first three layers give *)

\* A turn runs on the object the manager holds for its ID.
LEMMA LiveObject == TypeOK /\ Naming /\ Turns => TurnOnLiveObject
<1> SUFFICES ASSUME TypeOK, Naming, Turns, NEW m \in Msgs, Holding(m)
             PROVE  sessions[id[m]] = sess[m]
  BY DEF TurnOnLiveObject
<1>1. sess[m] \in Msgs /\ sess[sess[m]] = sess[m] /\ id[sess[m]] = id[m]
  <2>1. sess[m] # None
    BY ConstantFacts DEF Naming, Holding, HoldingPcs
  <2>2. QED BY <2>1, ConstantFacts DEF TypeOK, Naming
<1>2. turnActive[sess[m]]
  BY DEF Turns, ActiveIsHeld
<1>3. QED
  BY <1>1, <1>2 DEF Turns, OrphanIsDead

\* So turns of one ID share their object, of which there is one holder.
LEMMA Exclusive == TypeOK /\ Naming /\ Turns => NoOverlap
<1> SUFFICES ASSUME TypeOK, Naming, Turns, NEW m \in Msgs, NEW n \in Msgs,
                    Holding(m), Holding(n), id[m] = id[n]
             PROVE  m = n
  BY DEF NoOverlap
<1>1. sess[m] = sess[n]
  BY LiveObject DEF TurnOnLiveObject
<1>2. QED
  BY <1>1 DEF Turns, UniqueHolder

\* Whoever waits, waits for a holder.
LEMMA Awaited == TypeOK /\ Naming /\ Turns => NoLostWakeup
<1> SUFFICES ASSUME TypeOK, Naming, Turns, NEW p \in Procs, pc[p] = "waiting"
             PROVE  \E m \in Msgs : Holding(m) /\ sess[m] = sess[p]
  BY DEF NoLostWakeup
<1>1. sess[p] \in Msgs
  <2>1. sess[p] # None
    BY ConstantFacts DEF Naming
  <2>2. QED BY <2>1 DEF TypeOK
<1>2. turnActive[sess[p]]
  BY DEF Turns, WaiterSeesActive
<1>3. QED
  BY <1>1, <1>2 DEF Turns, ActiveIsHeld

-----------------------------------------------------------------------------
LEMMA RegistrationStep == TypeOK /\ Naming /\ NoOverlap /\ Registration /\ [Next]_vars => Registration'
<1> SUFFICES ASSUME TypeOK, Naming, NoOverlap, Registration, [Next]_vars PROVE Registration'
  OBVIOUS
<1> USE ConstantFacts DEF TypeOK, Naming, NoOverlap, Holding, Registration, Goto, sessionVars, MsgPcs, DelPcs, HoldingPcs
<1>1. ASSUME NEW m \in Msgs, NEW i \in IDs, GetOrCreate(m, i) PROVE Registration'
  BY <1>1 DEF GetOrCreate
<1>2. ASSUME NEW m \in Msgs, GetOrCreateSlow(m) PROVE Registration'
  BY <1>2 DEF GetOrCreateSlow
<1>3. ASSUME NEW m \in Msgs, Create(m) PROVE Registration'
  BY <1>3 DEF Create
<1>4. ASSUME NEW m \in Msgs, AcquireTurn(m) PROVE Registration'
  <2>1. PICK l \in {"refused", "acquired", "waiting"} : pc' = [pc EXCEPT ![m] = l]
    BY <1>4 DEF AcquireTurn
  <2>2. pc[m] \in {"acquire", "woken"} /\ UNCHANGED <<activeContexts, id>>
    BY <1>4 DEF AcquireTurn
  <2>3. QED BY <2>1, <2>2
<1>5. ASSUME NEW m \in Msgs, AcquireCancelled(m) PROVE Registration'
  BY <1>5 DEF AcquireCancelled
<1>6. ASSUME NEW m \in Msgs, Register(m) PROVE Registration'
  BY <1>6 DEF Register
<1>7. ASSUME NEW m \in Msgs, AddUserMessage(m) PROVE Registration'
  BY <1>7 DEF AddUserMessage, AppendTo
<1>8. ASSUME NEW m \in Msgs, AddAssistantMessage(m) PROVE Registration'
  BY <1>8 DEF AddAssistantMessage, AppendTo
<1>9. ASSUME NEW m \in Msgs, Unregister(m) PROVE Registration'
  BY <1>9 DEF Unregister
<1>10. ASSUME NEW m \in Msgs, ReleaseTurn(m) PROVE Registration'
  BY <1>10 DEF ReleaseTurn
<1>11. ASSUME NEW d \in Dels, NEW i \in IDs, DeleteCancels(d, i) PROVE Registration'
  BY <1>11 DEF DeleteCancels, CancelActive
<1>12. ASSUME NEW d \in Dels, DeleteLookup(d) PROVE Registration'
  BY <1>12 DEF DeleteLookup
<1>13. ASSUME NEW d \in Dels, Close(d) PROVE Registration'
  BY <1>13 DEF Close
<1>14. ASSUME NEW d \in Dels, DeleteDetaches(d) PROVE Registration'
  BY <1>14 DEF DeleteDetaches
<1>15. ASSUME NEW d \in Dels, DeleteIfSame(d) PROVE Registration'
  BY <1>15 DEF DeleteIfSame
<1>16. ASSUME NEW i \in IDs, PostChatStop(i) PROVE Registration'
  BY <1>16 DEF PostChatStop, CancelActive
<1>17. ASSUME NEW p \in Procs, Disconnect(p) PROVE Registration'
  BY <1>17 DEF Disconnect
<1>18. CASE UNCHANGED vars
  BY <1>18 DEF vars
<1>19. QED
  BY <1>1, <1>2, <1>3, <1>4, <1>5, <1>6, <1>7, <1>8, <1>9, <1>10, <1>11, <1>12, <1>13, <1>14, <1>15, <1>16, <1>17, <1>18 DEF Next, MsgStep, DelStep

-----------------------------------------------------------------------------
LEMMA RunningIsStoppableStep == TypeOK /\ Naming /\ NoOverlap /\ RunningIsStoppable /\ [Next]_vars => RunningIsStoppable'
<1> SUFFICES ASSUME TypeOK, Naming, NoOverlap, RunningIsStoppable, [Next]_vars PROVE RunningIsStoppable'
  OBVIOUS
<1> USE ConstantFacts DEF TypeOK, Naming, NoOverlap, Holding, RunningIsStoppable, Goto, sessionVars, MsgPcs, DelPcs, HoldingPcs
<1>1. ASSUME NEW m \in Msgs, NEW i \in IDs, GetOrCreate(m, i) PROVE RunningIsStoppable'
  BY <1>1 DEF GetOrCreate
<1>2. ASSUME NEW m \in Msgs, GetOrCreateSlow(m) PROVE RunningIsStoppable'
  BY <1>2 DEF GetOrCreateSlow
<1>3. ASSUME NEW m \in Msgs, Create(m) PROVE RunningIsStoppable'
  BY <1>3 DEF Create
<1>4. ASSUME NEW m \in Msgs, AcquireTurn(m) PROVE RunningIsStoppable'
  BY <1>4 DEF AcquireTurn
<1>5. ASSUME NEW m \in Msgs, AcquireCancelled(m) PROVE RunningIsStoppable'
  BY <1>5 DEF AcquireCancelled
<1>6. ASSUME NEW m \in Msgs, Register(m) PROVE RunningIsStoppable'
  BY <1>6 DEF Register
<1>7. ASSUME NEW m \in Msgs, AddUserMessage(m) PROVE RunningIsStoppable'
  BY <1>7 DEF AddUserMessage, AppendTo
<1>8. ASSUME NEW m \in Msgs, AddAssistantMessage(m) PROVE RunningIsStoppable'
  BY <1>8 DEF AddAssistantMessage, AppendTo
<1>9. ASSUME NEW m \in Msgs, Unregister(m) PROVE RunningIsStoppable'
  BY <1>9 DEF Unregister
<1>10. ASSUME NEW m \in Msgs, ReleaseTurn(m) PROVE RunningIsStoppable'
  BY <1>10 DEF ReleaseTurn
<1>11. ASSUME NEW d \in Dels, NEW i \in IDs, DeleteCancels(d, i) PROVE RunningIsStoppable'
  BY <1>11 DEF DeleteCancels, CancelActive
<1>12. ASSUME NEW d \in Dels, DeleteLookup(d) PROVE RunningIsStoppable'
  BY <1>12 DEF DeleteLookup
<1>13. ASSUME NEW d \in Dels, Close(d) PROVE RunningIsStoppable'
  BY <1>13 DEF Close
<1>14. ASSUME NEW d \in Dels, DeleteDetaches(d) PROVE RunningIsStoppable'
  BY <1>14 DEF DeleteDetaches
<1>15. ASSUME NEW d \in Dels, DeleteIfSame(d) PROVE RunningIsStoppable'
  BY <1>15 DEF DeleteIfSame
<1>16. ASSUME NEW i \in IDs, PostChatStop(i) PROVE RunningIsStoppable'
  BY <1>16 DEF PostChatStop, CancelActive
<1>17. ASSUME NEW p \in Procs, Disconnect(p) PROVE RunningIsStoppable'
  BY <1>17 DEF Disconnect
<1>18. CASE UNCHANGED vars
  BY <1>18 DEF vars
<1>19. QED
  BY <1>1, <1>2, <1>3, <1>4, <1>5, <1>6, <1>7, <1>8, <1>9, <1>10, <1>11, <1>12, <1>13, <1>14, <1>15, <1>16, <1>17, <1>18 DEF Next, MsgStep, DelStep

-----------------------------------------------------------------------------
LEMMA RepliesStep == TypeOK /\ Naming /\ Turns /\ Replies /\ [Next]_vars => Replies'
<1> SUFFICES ASSUME TypeOK, Naming, Turns, Replies, [Next]_vars PROVE Replies'
  OBVIOUS
<1> USE ConstantFacts DEF TypeOK, Naming, Replies, Goto, sessionVars, MsgPcs, DelPcs, HoldingPcs
<1>1. ASSUME NEW m \in Msgs, NEW i \in IDs, GetOrCreate(m, i) PROVE Replies'
  BY <1>1 DEF GetOrCreate
<1>2. ASSUME NEW m \in Msgs, GetOrCreateSlow(m) PROVE Replies'
  BY <1>2 DEF GetOrCreateSlow
<1>3. ASSUME NEW m \in Msgs, Create(m) PROVE Replies'
  BY <1>3 DEF Create
<1>4. ASSUME NEW m \in Msgs, AcquireTurn(m) PROVE Replies'
  BY <1>4 DEF AcquireTurn
<1>5. ASSUME NEW m \in Msgs, AcquireCancelled(m) PROVE Replies'
  BY <1>5 DEF AcquireCancelled
<1>6. ASSUME NEW m \in Msgs, Register(m) PROVE Replies'
  BY <1>6 DEF Register
<1>7. ASSUME NEW m \in Msgs, AddUserMessage(m) PROVE Replies'
  BY <1>7 DEF AddUserMessage, AppendTo
<1>8. ASSUME NEW m \in Msgs, AddAssistantMessage(m) PROVE Replies'
  BY <1>8 DEF AddAssistantMessage, AppendTo
<1>9. ASSUME NEW m \in Msgs, Unregister(m) PROVE Replies'
  BY <1>9 DEF Unregister
<1>10. ASSUME NEW m \in Msgs, ReleaseTurn(m) PROVE Replies'
  BY <1>10 DEF ReleaseTurn
<1>11. ASSUME NEW d \in Dels, NEW i \in IDs, DeleteCancels(d, i) PROVE Replies'
  BY <1>11 DEF DeleteCancels, CancelActive
<1>12. ASSUME NEW d \in Dels, DeleteLookup(d) PROVE Replies'
  BY <1>12 DEF DeleteLookup
<1>13. ASSUME NEW d \in Dels, Close(d) PROVE Replies'
  BY <1>13 DEF Close
<1>14. ASSUME NEW d \in Dels, DeleteDetaches(d) PROVE Replies'
  BY <1>14 DEF DeleteDetaches
<1>15. ASSUME NEW d \in Dels, DeleteIfSame(d) PROVE Replies'
  BY <1>15 DEF DeleteIfSame
<1>16. ASSUME NEW i \in IDs, PostChatStop(i) PROVE Replies'
  BY <1>16 DEF PostChatStop, CancelActive
<1>17. ASSUME NEW p \in Procs, Disconnect(p) PROVE Replies'
  BY <1>17 DEF Disconnect
<1>18. CASE UNCHANGED vars
  BY <1>18 DEF vars
<1>19. QED
  BY <1>1, <1>2, <1>3, <1>4, <1>5, <1>6, <1>7, <1>8, <1>9, <1>10, <1>11, <1>12, <1>13, <1>14, <1>15, <1>16, <1>17, <1>18 DEF Next, MsgStep, DelStep

-----------------------------------------------------------------------------
(* History *)

\* Adding a message by the other role keeps a history alternating.
LEMMA AddMessageAlternates ==
    ASSUME NEW h \in Seq(Message), NEW msg \in Message,
           Alternates(h), ~EndsWith(h, msg.role)
    PROVE  /\ Alternates(AddMessage(h, msg, MaxMessages))
           /\ EndsWith(AddMessage(h, msg, MaxMessages), msg.role)
<1> DEFINE a == Append(h, msg)
           t == AddMessage(h, msg, MaxMessages)
<1>1. \A s \in Message : s.role # "system"
  BY DEF Message
<1>2. t \in Seq(Message) /\ IsWindowOf(t, h, msg)
  BY <1>1, AddMessageDropsOldest, ConstantFacts
<1> HIDE DEF t
<1>3. PICK c \in 0 .. Len(h) :
        /\ Len(t) = Len(h) + 1 - c
        /\ \A j \in 1 .. Len(h) + 1 - c : t[j] = a[j + c]
  BY <1>2 DEF IsWindowOf
<1>4. a[Len(h) + 1] = msg /\ \A k \in 1 .. Len(h) : a[k] = h[k]
  OBVIOUS
<1>5. \A x \in 1 .. Len(h) : a[x].role # a[x + 1].role
  <2> SUFFICES ASSUME NEW x \in 1 .. Len(h) PROVE a[x].role # a[x + 1].role
    OBVIOUS
  <2>1. CASE x = Len(h)
    BY <2>1, <1>4 DEF EndsWith
  <2>2. CASE x # Len(h)
    <3>1. x \in 1 .. Len(h) - 1 /\ x + 1 \in 1 .. Len(h)
      BY <2>2
    <3>2. QED BY <3>1, <1>4 DEF Alternates
  <2>3. QED BY <2>1, <2>2
<1> HIDE DEF a
<1>6. EndsWith(t, msg.role)
  <2>1. Len(t) \in 1 .. Len(h) + 1 - c /\ Len(t) + c = Len(h) + 1
    BY <1>2, <1>3
  <2>2. t[Len(t)] = msg
    BY <2>1, <1>3, <1>4
  <2>3. QED BY <1>2, <2>1, <2>2 DEF EndsWith
<1>7. Alternates(t)
  <2> SUFFICES ASSUME NEW k \in 1 .. Len(t) - 1 PROVE t[k].role # t[k + 1].role
    BY DEF Alternates
  <2>1. k \in 1 .. Len(h) + 1 - c /\ k + 1 \in 1 .. Len(h) + 1 - c
    BY <1>3, <1>2
  <2>2. PICK x \in 1 .. Len(h) : x = k + c
    BY <2>1, <1>2, <1>3
  <2>3. t[k] = a[x] /\ t[k + 1] = a[x + 1]
    BY <2>1, <2>2, <1>3
  <2>4. QED BY <2>3, <1>5
<1>8. QED
  BY <1>6, <1>7 DEF t

\* A step that appends nothing and neither starts nor ends a running turn
\* leaves the histories as they were.
LEMMA HistoryFrame ==
    ASSUME RolesAlternate, messages' = messages,
           \A m \in Msgs : pc'[m] = "running" <=> pc[m] = "running",
           \A m \in Msgs : pc[m] = "running" => sess'[m] = sess[m]
    PROVE  RolesAlternate'
<1>1. \A o \in Msgs : AwaitsAnswer(o)' <=> AwaitsAnswer(o)
  BY DEF AwaitsAnswer
<1>2. QED
  BY <1>1 DEF RolesAlternate

\* A step in which the holder m appends a message by the role not yet heard.
LEMMA HistoryAppend ==
    ASSUME RolesAlternate, TypeOK, NEW m \in Msgs, sess[m] \in Msgs,
           NEW role \in {"user", "assistant"},
           AppendTo(sess[m], role, m), sess' = sess,
           ~EndsWith(messages[sess[m]], role),
           AwaitsAnswer(sess[m])' <=> role = "user",
           \A o \in Msgs : o # sess[m] => (AwaitsAnswer(o)' <=> AwaitsAnswer(o))
    PROVE  RolesAlternate'
<1> DEFINE o == sess[m]
           msg == [role |-> role, turn |-> m]
           t == AddMessage(messages[o], msg, MaxMessages)
<1>1. messages[o] \in Seq(Message) /\ msg \in Message /\ msg.role = role
  BY DEF TypeOK, Message
<1>2. messages' = [messages EXCEPT ![o] = t]
  BY DEF AppendTo
<1>3. Alternates(t) /\ EndsWith(t, role)
  <2>1. Alternates(messages[o]) /\ ~EndsWith(messages[o], msg.role)
    BY <1>1 DEF RolesAlternate
  <2> HIDE DEF msg, o
  <2>2. QED BY <1>1, <2>1, AddMessageAlternates
<1>4. messages'[o] = t /\ \A q \in Msgs : q # o => messages'[q] = messages[q]
  BY <1>2 DEF TypeOK
<1> HIDE DEF t
<1>5. EndsWith(t, "user") <=> role = "user"
  BY <1>3 DEF EndsWith
<1>6. ASSUME NEW q \in Msgs
      PROVE  Alternates(messages'[q]) /\ (EndsWith(messages'[q], "user") <=> AwaitsAnswer(q)')
  <2>1. CASE q = o
    <3>1. messages'[q] = t /\ (AwaitsAnswer(q)' <=> role = "user")
      BY <2>1, <1>4 DEF AwaitsAnswer
    <3>2. QED BY <3>1, <1>3, <1>5
  <2>2. CASE q # o
    BY <2>2, <1>4 DEF RolesAlternate
  <2>3. QED BY <2>1, <2>2
<1>7. QED
  BY <1>6 DEF RolesAlternate

LEMMA HistoryStep ==
    TypeOK /\ Naming /\ Turns /\ RolesAlternate /\ [Next]_vars => RolesAlternate'
<1> SUFFICES ASSUME TypeOK, Naming, Turns, RolesAlternate, [Next]_vars
             PROVE  RolesAlternate'
  OBVIOUS
<1> USE ConstantFacts DEF Goto, sessionVars
<1>1. ASSUME NEW m \in Msgs, NEW i \in IDs, GetOrCreate(m, i) PROVE RolesAlternate'
  BY <1>1, HistoryFrame DEF GetOrCreate, TypeOK, Naming
<1>2. ASSUME NEW m \in Msgs, GetOrCreateSlow(m) PROVE RolesAlternate'
  BY <1>2, HistoryFrame DEF GetOrCreateSlow, TypeOK, Naming
<1>3. ASSUME NEW m \in Msgs, Create(m) PROVE RolesAlternate'
  BY <1>3, HistoryFrame DEF Create, TypeOK, Naming
<1>4. ASSUME NEW m \in Msgs, AcquireTurn(m) PROVE RolesAlternate'
  BY <1>4, HistoryFrame DEF AcquireTurn, TypeOK, Naming
<1>5. ASSUME NEW m \in Msgs, AcquireCancelled(m) PROVE RolesAlternate'
  BY <1>5, HistoryFrame DEF AcquireCancelled, TypeOK, Naming
<1>6. ASSUME NEW m \in Msgs, Register(m) PROVE RolesAlternate'
  BY <1>6, HistoryFrame DEF Register, TypeOK, Naming
<1>7. ASSUME NEW m \in Msgs, AddUserMessage(m) PROVE RolesAlternate'
  <2>1. pc[m] = "registered" /\ Holding(m)
    BY <1>7 DEF AddUserMessage, Holding, HoldingPcs
  <2>2. sess[m] \in Msgs
    <3>1. sess[m] # None
      BY <2>1 DEF Naming
    <3>2. QED BY <3>1 DEF TypeOK
  <2>3. \A n \in Msgs : pc[n] = "running" /\ sess[n] = sess[m] => n = m
    BY <2>1 DEF Turns, UniqueHolder, Holding, HoldingPcs
  <2>4. pc' = [pc EXCEPT ![m] = "running"] /\ sess' = sess
    BY <1>7 DEF AddUserMessage
  <2>5. AwaitsAnswer(sess[m])' <=> TRUE
    BY <2>1, <2>3, <2>4 DEF AwaitsAnswer, TypeOK
  <2>6. \A o \in Msgs : o # sess[m] => (AwaitsAnswer(o)' <=> AwaitsAnswer(o))
    BY <2>1, <2>4 DEF AwaitsAnswer, TypeOK
  <2>7. ~EndsWith(messages[sess[m]], "user")
    <3>1. AwaitsAnswer(sess[m]) <=> FALSE
      BY <2>1, <2>3 DEF AwaitsAnswer
    <3>2. QED BY <3>1, <2>2 DEF RolesAlternate, EndsWith
  <2>8. AppendTo(sess[m], "user", m)
    BY <1>7 DEF AddUserMessage
  <2>9. QED BY <2>2, <2>4, <2>5, <2>6, <2>7, <2>8, HistoryAppend
<1>8. ASSUME NEW m \in Msgs, AddAssistantMessage(m) PROVE RolesAlternate'
  <2>1. pc[m] = "running" /\ Holding(m)
    BY <1>8 DEF AddAssistantMessage, Holding, HoldingPcs
  <2>2. sess[m] \in Msgs
    <3>1. sess[m] # None
      BY <2>1 DEF Naming
    <3>2. QED BY <3>1 DEF TypeOK
  <2>3. \A n \in Msgs : pc[n] = "running" /\ sess[n] = sess[m] => n = m
    BY <2>1 DEF Turns, UniqueHolder, Holding, HoldingPcs
  <2>4. pc' = [pc EXCEPT ![m] = "committed"] /\ sess' = sess
    BY <1>8 DEF AddAssistantMessage
  <2>5. AwaitsAnswer(sess[m])' <=> FALSE
    BY <2>1, <2>3, <2>4 DEF AwaitsAnswer, TypeOK
  <2>6. \A o \in Msgs : o # sess[m] => (AwaitsAnswer(o)' <=> AwaitsAnswer(o))
    BY <2>1, <2>4 DEF AwaitsAnswer, TypeOK
  <2>7. ~EndsWith(messages[sess[m]], "assistant")
    <3>1. AwaitsAnswer(sess[m]) <=> TRUE
      BY <2>1, <2>3 DEF AwaitsAnswer
    <3>2. QED BY <3>1, <2>2 DEF RolesAlternate, EndsWith
  <2>8. AppendTo(sess[m], "assistant", m)
    BY <1>8 DEF AddAssistantMessage
  <2>9. QED BY <2>2, <2>4, <2>5, <2>6, <2>7, <2>8, HistoryAppend
<1>9. ASSUME NEW m \in Msgs, Unregister(m) PROVE RolesAlternate'
  BY <1>9, HistoryFrame DEF Unregister, TypeOK, Naming
<1>10. ASSUME NEW m \in Msgs, ReleaseTurn(m) PROVE RolesAlternate'
  BY <1>10, HistoryFrame DEF ReleaseTurn, TypeOK, Naming
<1>11. ASSUME NEW d \in Dels, NEW i \in IDs, DeleteCancels(d, i) PROVE RolesAlternate'
  BY <1>11, HistoryFrame DEF DeleteCancels, TypeOK, Naming
<1>12. ASSUME NEW d \in Dels, DeleteLookup(d) PROVE RolesAlternate'
  BY <1>12, HistoryFrame DEF DeleteLookup, TypeOK, Naming
<1>13. ASSUME NEW d \in Dels, Close(d) PROVE RolesAlternate'
  BY <1>13, HistoryFrame DEF Close, TypeOK, Naming
<1>14. ASSUME NEW d \in Dels, DeleteDetaches(d) PROVE RolesAlternate'
  BY <1>14, HistoryFrame DEF DeleteDetaches, TypeOK, Naming
<1>15. ASSUME NEW d \in Dels, DeleteIfSame(d) PROVE RolesAlternate'
  BY <1>15, HistoryFrame DEF DeleteIfSame, TypeOK, Naming
<1>16. ASSUME NEW i \in IDs, PostChatStop(i) PROVE RolesAlternate'
  BY <1>16, HistoryFrame DEF PostChatStop, TypeOK, Naming
<1>17. ASSUME NEW p \in Procs, Disconnect(p) PROVE RolesAlternate'
  BY <1>17, HistoryFrame DEF Disconnect, TypeOK, Naming
<1>18. CASE UNCHANGED vars
  BY <1>18, HistoryFrame DEF vars
<1>19. QED
  BY <1>1, <1>2, <1>3, <1>4, <1>5, <1>6, <1>7, <1>8, <1>9, <1>10, <1>11, <1>12, <1>13, <1>14, <1>15, <1>16, <1>17, <1>18 DEF Next, MsgStep, DelStep

-----------------------------------------------------------------------------
LEMMA InitIInv == Init => IInv
<1> SUFFICES ASSUME Init PROVE IInv
  OBVIOUS
<1> USE ConstantFacts DEF Init
<1>1. TypeOK
  BY DEF TypeOK, MsgPcs, DelPcs
<1>2. Naming
  BY DEF Naming
<1>3. Turns
  BY DEF Turns, UniqueHolder, ActiveIsHeld, WaiterSeesActive, CloserHasClosed,
         OrphanIsDead, Holding, HoldingPcs
<1>4. Registration /\ RunningIsStoppable /\ Replies
  BY DEF Registration, RunningIsStoppable, Replies
<1>5. RolesAlternate
  BY DEF RolesAlternate, Alternates, EndsWith, AwaitsAnswer
<1>6. QED
  BY <1>1, <1>2, <1>3, <1>4, <1>5 DEF IInv

LEMMA NextIInv == IInv /\ [Next]_vars => IInv'
<1> SUFFICES ASSUME IInv, [Next]_vars PROVE IInv'
  OBVIOUS
<1>1. TypeOK' /\ Naming'
  BY TypeStep, NamingStep DEF IInv
<1>2. Turns'
  BY <1>1, TurnsStep DEF IInv
<1>3. NoOverlap
  BY Exclusive DEF IInv
<1>4. Registration' /\ RunningIsStoppable' /\ Replies' /\ RolesAlternate'
  BY <1>3, RegistrationStep, RunningIsStoppableStep, RepliesStep, HistoryStep DEF IInv
<1>5. QED
  BY <1>1, <1>2, <1>4 DEF IInv

\* The inductive invariant holds in every reachable state, whatever the sets of
\* requests and names and whatever the window size.
THEOREM Inductive == Spec => []IInv
BY InitIInv, NextIInv, PTL DEF Spec

\* Two turns of the same session ID never run at once (AcquireTurn, Close and
\* DeleteContext together).
THEOREM TurnsNeverOverlap == Spec => []NoOverlap
<1>1. IInv => NoOverlap
  BY Exclusive DEF IInv
<1>2. QED BY <1>1, Inductive, PTL

\* Whoever is blocked on a turn has a running turn to wake it (ReleaseTurn
\* closes the channel every waiter holds).
THEOREM NoWakeupIsLost == Spec => []NoLostWakeup
<1>1. IInv => NoLostWakeup
  BY Awaited DEF IInv
<1>2. QED BY <1>1, Inductive, PTL

\* Turns only ever write to the object the manager hands out for their ID.
THEOREM TurnsUseLiveObjects == Spec => []TurnOnLiveObject
<1>1. IInv => TurnOnLiveObject
  BY LiveObject DEF IInv
<1>2. QED BY <1>1, Inductive, PTL

\* A stop or a delete cancels the holder of the session or nobody, and reaches
\* every uncancelled turn from its registration to its answer.
THEOREM StopTargetsHolder == Spec => [](CancelsOnlyHolder /\ RunningIsStoppable)
<1>1. IInv => CancelsOnlyHolder
  <2> SUFFICES ASSUME IInv, NEW i \in IDs, activeContexts[i] # None
               PROVE  Holding(activeContexts[i]) /\ id[activeContexts[i]] = i
    BY DEF CancelsOnlyHolder
  <2>1. activeContexts[i] \in Msgs
    BY DEF IInv, TypeOK
  <2>2. QED BY <2>1 DEF IInv, Registration, Holding, HoldingPcs
<1>2. IInv => RunningIsStoppable
  BY DEF IInv
<1>3. QED BY <1>1, <1>2, Inductive, PTL

\* What a delete answered 200 for is closed, idle and out of the manager.
THEOREM DeletesForget == Spec => []DeleteForgets
<1>1. IInv => DeleteForgets
  <2> SUFFICES ASSUME IInv, NEW d \in Dels, reply[d] = "ok", sess[d] # None
               PROVE  /\ turnClosed[sess[d]] /\ ~turnActive[sess[d]]
                      /\ \A i \in IDs : sessions[i] # sess[d]
    BY DEF DeleteForgets
  <2>1. sess[d] \in Msgs /\ sess[sess[d]] = sess[d] /\ id[sess[d]] = id[d]
    BY ConstantFacts DEF IInv, TypeOK, Naming
  <2>2. sessions[id[sess[d]]] # sess[d]
    BY <2>1 DEF IInv, Replies
  <2>3. \A i \in IDs : sessions[i] # sess[d]
    BY <2>1, <2>2 DEF IInv, Naming
  <2>4. QED BY <2>1, <2>2, <2>3 DEF IInv, Turns, OrphanIsDead
<1>2. QED BY <1>1, Inductive, PTL

\* Histories alternate between user and assistant for every window size.
THEOREM HistoriesAlternate == Spec => []RolesAlternate
<1>1. IInv => RolesAlternate
  BY DEF IInv
<1>2. QED BY <1>1, Inductive, PTL

-----------------------------------------------------------------------------
(* ChatSessions implements Conversations *)

\* With one holder at most, the phase of an ID is the phase of its holder.
PhaseIsHolders ==
    \A i \in IDs :
        /\ HoldersOf(i) = {} => PhaseOf(i) = "idle"
        /\ \A m \in Msgs : HoldersOf(i) = {m} =>
             /\ pc[m] \in {"acquired", "registered"} => PhaseOf(i) = "begun"
             /\ pc[m] = "running" => PhaseOf(i) = "asked"
             /\ pc[m] \in {"committed", "unregistered"} => PhaseOf(i) = "answered"

LEMMA PhaseOfHolder == PhaseIsHolders
<1> SUFFICES ASSUME NEW i \in IDs
             PROVE  /\ HoldersOf(i) = {} => PhaseOf(i) = "idle"
                    /\ \A m \in Msgs : HoldersOf(i) = {m} =>
                         /\ pc[m] \in {"acquired", "registered"} => PhaseOf(i) = "begun"
                         /\ pc[m] = "running" => PhaseOf(i) = "asked"
                         /\ pc[m] \in {"committed", "unregistered"} => PhaseOf(i) = "answered"
  BY DEF PhaseIsHolders
<1>1. HoldersOf(i) = {} => PhaseOf(i) = "idle"
  BY DEF PhaseOf
<1>2. ASSUME NEW m \in Msgs, HoldersOf(i) = {m}, pc[m] \in {"acquired", "registered"}
      PROVE  PhaseOf(i) = "begun"
  BY <1>2 DEF PhaseOf
<1>3. ASSUME NEW m \in Msgs, HoldersOf(i) = {m}, pc[m] = "running"
      PROVE  PhaseOf(i) = "asked"
  BY <1>3 DEF PhaseOf
<1>4. ASSUME NEW m \in Msgs, HoldersOf(i) = {m}, pc[m] \in {"committed", "unregistered"}
      PROVE  PhaseOf(i) = "answered"
  BY <1>4 DEF PhaseOf
<1>5. QED
  BY <1>1, <1>2, <1>3, <1>4

LEMMA PhaseOfHolderNext == PhaseIsHolders'
BY PhaseOfHolder, PTL

\* A holder is the only holder of its ID, and runs on the entry of its ID.
HolderFacts ==
    \A m \in Msgs : Holding(m) =>
        /\ id[m] \in IDs /\ sess[m] \in Msgs
        /\ HoldersOf(id[m]) = {m}
        /\ sessions[id[m]] = sess[m]

LEMMA IInvHolderFacts == IInv => HolderFacts
<1> SUFFICES ASSUME IInv, NEW m \in Msgs, Holding(m)
             PROVE  /\ id[m] \in IDs /\ sess[m] \in Msgs
                    /\ HoldersOf(id[m]) = {m}
                    /\ sessions[id[m]] = sess[m]
  BY DEF HolderFacts
<1>1. sess[m] # None /\ id[m] # None
  BY ConstantFacts DEF IInv, Naming, Holding, HoldingPcs
<1>2. sess[m] \in Msgs /\ id[m] \in IDs
  BY <1>1, ConstantFacts DEF IInv, TypeOK
<1>3. HoldersOf(id[m]) = {m}
  BY Exclusive DEF IInv, NoOverlap, HoldersOf
<1>4. sessions[id[m]] = sess[m]
  BY LiveObject DEF IInv, TurnOnLiveObject
<1>5. QED BY <1>2, <1>3, <1>4

LEMMA IInvHolderFactsNext == IInv' => HolderFacts'
BY IInvHolderFacts, PTL

\* Steps that no conversation notices.
LEMMA Invisible ==
    ASSUME IInv, IInv',
           \A m \in Msgs : Holding(m)' <=> Holding(m),
           \A m \in Msgs : Holding(m) =>
               /\ id'[m] = id[m]
               /\ \/ pc[m] \in {"acquired", "registered"} /\ pc'[m] \in {"acquired", "registered"}
                  \/ pc[m] = "running" /\ pc'[m] = "running"
                  \/ /\ pc[m] \in {"committed", "unregistered"}
                     /\ pc'[m] \in {"committed", "unregistered"},
           \A i \in IDs : LogOf(i)' = LogOf(i)
    PROVE  UNCHANGED Conv!vars
<1>1. \A i \in IDs : HoldersOf(i)' = HoldersOf(i)
  BY DEF HoldersOf
<1>2. ASSUME NEW i \in IDs PROVE PhaseOf(i)' = PhaseOf(i)
  <2>1. CASE HoldersOf(i) = {}
    BY <2>1, <1>1, PhaseOfHolder, PhaseOfHolderNext DEF PhaseIsHolders
  <2>2. CASE HoldersOf(i) # {}
    <3>1. PICK m \in Msgs : Holding(m) /\ id[m] = i
      BY <2>2 DEF HoldersOf
    <3>2. HoldersOf(i) = {m} /\ HoldersOf(i)' = {m}
      BY <3>1, <1>1, IInvHolderFacts DEF HolderFacts
    <3>3. QED
      BY <3>1, <3>2, PhaseOfHolder, PhaseOfHolderNext DEF PhaseIsHolders
  <2>3. QED BY <2>1, <2>2
<1>3. QED
  BY <1>1, <1>2 DEF Conv!vars

\* Steps that leave holders, manager and histories alone are invisible.
LEMMA Silent ==
    ASSUME IInv, IInv', sessions' = sessions, messages' = messages,
           NEW p \in Procs, ~Holding(p), ~Holding(p)',
           \A q \in Procs : q # p => id'[q] = id[q] /\
               (q \in Msgs /\ pc[q] # "waiting" => pc'[q] = pc[q]),
           \A q \in Procs : pc[q] = "waiting" /\ q # p => pc'[q] \in {"waiting", "woken"}
    PROVE  UNCHANGED Conv!vars
<1>1. \A m \in Msgs : m # p => (Holding(m)' <=> Holding(m)) /\ (Holding(m) => pc'[m] = pc[m])
  BY ConstantFacts DEF Holding, HoldingPcs
<1>2. \A i \in IDs : LogOf(i)' = LogOf(i)
  BY DEF LogOf
<1>3. \A m \in Msgs : Holding(m)' <=> Holding(m)
  BY <1>1
<1>4. \A m \in Msgs : Holding(m) => m # p /\ id'[m] = id[m] /\ pc'[m] = pc[m]
  BY <1>1, ConstantFacts
<1>5. QED
  BY <1>2, <1>3, <1>4, Invisible DEF Holding, HoldingPcs

\* AcquireTurn begins a turn of a conversation nobody holds.
LEMMA AcquireBegins ==
    ASSUME IInv, IInv', NEW m \in Msgs, AcquireTurn(m)
    PROVE  [Conv!Next]_(Conv!vars)
<1> DEFINE i == id[m]
<1>1. pc[m] \in {"acquire", "woken"} /\ ~Holding(m) /\ m \in Procs
  BY ConstantFacts DEF AcquireTurn, Holding, HoldingPcs
<1>2. i \in IDs /\ sess[m] \in Msgs /\ sess[sess[m]] = sess[m] /\ id[sess[m]] = i
  <2>1. sess[m] # None /\ id[m] # None
    BY <1>1, ConstantFacts DEF IInv, Naming
  <2>2. QED BY <2>1, ConstantFacts DEF IInv, Naming, TypeOK
<1>3. UNCHANGED <<sessions, messages, id, sess>>
  BY DEF AcquireTurn
<1>4. CASE pc' = [pc EXCEPT ![m] = "acquired"] /\ ~turnClosed[sess[m]] /\ ~turnActive[sess[m]]
  <2>1. \A n \in Msgs : (Holding(n)' <=> Holding(n) \/ n = m) /\ (n # m => pc'[n] = pc[n])
    BY <1>4, ConstantFacts DEF Holding, HoldingPcs, IInv, TypeOK
  <2>2. sessions[i] = sess[m]
    BY <1>2, <1>4 DEF IInv, Turns, OrphanIsDead
  <2>3. HoldersOf(i) = {}
    <3> SUFFICES ASSUME NEW n \in Msgs, Holding(n), id[n] = i PROVE FALSE
      BY DEF HoldersOf
    <3>1. sess[n] = sess[m]
      BY <2>2, IInvHolderFacts DEF HolderFacts
    <3>2. QED BY <3>1, <1>4 DEF IInv, Turns, ActiveIsHeld
  <2>4. HoldersOf(i)' = {m} /\ pc'[m] = "acquired"
    <3>1. Holding(m)' /\ id'[m] = i
      BY <2>1, <1>3
    <3>2. pc'[m] = "acquired"
      BY <1>1, <1>4 DEF IInv, TypeOK
    <3>3. QED BY <3>1, <3>2, <1>3, IInvHolderFactsNext DEF HolderFacts
  <2>5. \A j \in IDs : j # i => HoldersOf(j)' = HoldersOf(j)
    BY <2>1, <1>3 DEF HoldersOf
  <2>6. \A j \in IDs : j # i => PhaseOf(j)' = PhaseOf(j)
    <3> SUFFICES ASSUME NEW j \in IDs, j # i PROVE PhaseOf(j)' = PhaseOf(j)
      OBVIOUS
    <3>1. \A n \in HoldersOf(j) : pc'[n] = pc[n]
      BY <2>1 DEF HoldersOf
    <3>2. QED BY <3>1, <2>5 DEF PhaseOf
  <2>7. PhaseOf(i)' = "begun"
    <3>1. i' = i
      BY <1>3
    <3>2. QED BY <2>4, <3>1, <1>2, PhaseOfHolderNext DEF PhaseIsHolders
  <2>8. \A j \in IDs : LogOf(j)' = LogOf(j)
    BY <1>3 DEF LogOf
  <2>9. Conv!Begin(m, i)
    BY <1>2, <2>3, <2>4, <2>5, <2>6, <2>7, <2>8, <1>3 DEF Conv!Begin
  <2>10. QED BY <2>9, <1>2 DEF Conv!Next
<1>5. CASE \E l \in {"refused", "waiting"} : pc' = [pc EXCEPT ![m] = l]
  <2>1. ~Holding(m)' /\ \A q \in Procs : q # m => pc'[q] = pc[q]
    BY <1>5, <1>1 DEF Holding, HoldingPcs, IInv, TypeOK
  <2>2. QED BY <2>1, <1>1, <1>3, Silent
<1>6. QED
  BY <1>4, <1>5 DEF AcquireTurn, Goto

\* Appending to the holder's history says something in its conversation.
LEMMA AppendSays ==
    ASSUME IInv, IInv', NEW m \in Msgs, NEW l, NEW role,
           Holding(m), l \in HoldingPcs,
           pc' = [pc EXCEPT ![m] = l], UNCHANGED <<sessions, id, sess>>,
           AppendTo(sess[m], role, m)
    PROVE  /\ id[m] \in IDs /\ HoldersOf(id[m]) = {m} /\ pc'[m] = l
           /\ \A j \in IDs : HoldersOf(j)' = HoldersOf(j)
           /\ \A j \in IDs : j # id[m] => PhaseOf(j)' = PhaseOf(j) /\ LogOf(j)' = LogOf(j)
           /\ LogOf(id[m])' = AddMessage(LogOf(id[m]), [role |-> role, turn |-> m], MaxMessages)
<1> DEFINE i == id[m]
<1>1. i \in IDs /\ sess[m] \in Msgs /\ HoldersOf(i) = {m} /\ sessions[i] = sess[m]
  BY IInvHolderFacts DEF HolderFacts
<1>2. \A n \in Msgs : (Holding(n)' <=> Holding(n)) /\ (n # m => pc'[n] = pc[n])
  BY ConstantFacts DEF Holding, IInv, TypeOK
<1>3. \A j \in IDs : HoldersOf(j)' = HoldersOf(j)
  BY <1>2 DEF HoldersOf
<1>4. ASSUME NEW j \in IDs, j # i PROVE PhaseOf(j)' = PhaseOf(j)
  <2>1. \A n \in HoldersOf(j) : pc'[n] = pc[n]
    BY <1>2, <1>4 DEF HoldersOf
  <2>2. QED BY <2>1, <1>3 DEF PhaseOf
<1>5. /\ messages'[sess[m]] = AddMessage(messages[sess[m]], [role |-> role, turn |-> m], MaxMessages)
      /\ \A o \in Msgs : o # sess[m] => messages'[o] = messages[o]
  BY <1>1 DEF AppendTo, IInv, TypeOK
<1>6. ASSUME NEW j \in IDs, j # i PROVE LogOf(j)' = LogOf(j)
  <2>1. sessions[j] # sess[m]
    BY <1>1, <1>6, ConstantFacts DEF IInv, Naming
  <2>2. sessions[j] = None \/ sessions[j] \in Msgs
    BY DEF IInv, TypeOK
  <2>3. QED BY <2>1, <2>2, <1>5 DEF LogOf
<1>7. LogOf(i) = messages[sess[m]] /\ LogOf(i)' = messages'[sess[m]]
  BY <1>1, ConstantFacts DEF LogOf
<1>8. pc'[m] = l
  BY ConstantFacts DEF IInv, TypeOK
<1>9. QED
  BY <1>1, <1>3, <1>4, <1>5, <1>6, <1>7, <1>8

\* The instance's window operators are SessionWindow's.
LEMMA ConvAddMessage ==
    \A h, msg, max : Conv!AddMessage(h, msg, max) = AddMessage(h, msg, max)
<1>1. \A msgs : Conv!SysCount(msgs) = SysCount(msgs)
  BY DEF Conv!SysCount, SysCount
<1>2. \A max : Conv!WindowLimit(max) = WindowLimit(max)
  BY DEF Conv!WindowLimit, WindowLimit, Conv!DefaultMaxMessages, DefaultMaxMessages
<1>3. \A msgs, max : Conv!TrimWindow(msgs, max) = TrimWindow(msgs, max)
  BY <1>1, <1>2 DEF Conv!TrimWindow, TrimWindow
<1>4. QED BY <1>3 DEF Conv!AddMessage, AddMessage

\* The user's message is a question, asked by the holder.
LEMMA AddUserAsks ==
    ASSUME IInv, IInv', NEW m \in Msgs, AddUserMessage(m)
    PROVE  [Conv!Next]_(Conv!vars)
<1> DEFINE i == id[m]
<1>1. Holding(m) /\ pc[m] = "registered"
  BY DEF AddUserMessage, Holding, HoldingPcs
<1>2. /\ pc' = [pc EXCEPT ![m] = "running"] /\ UNCHANGED <<sessions, id, sess>>
      /\ AppendTo(sess[m], "user", m)
  BY DEF AddUserMessage, Goto
<1>3. /\ i \in IDs /\ HoldersOf(i) = {m} /\ pc'[m] = "running"
      /\ \A j \in IDs : HoldersOf(j)' = HoldersOf(j)
      /\ \A j \in IDs : j # i => PhaseOf(j)' = PhaseOf(j) /\ LogOf(j)' = LogOf(j)
      /\ LogOf(i)' = AddMessage(LogOf(i), [role |-> "user", turn |-> m], MaxMessages)
  BY <1>1, <1>2, AppendSays DEF HoldingPcs
<1>4. PhaseOf(i) = "begun"
  BY <1>1, <1>3, PhaseOfHolder DEF PhaseIsHolders
<1>5. i' = i
  BY <1>2
<1>6. PhaseOf(i)' = "asked"
  BY <1>3, <1>5, PhaseOfHolderNext DEF PhaseIsHolders
<1>7. Conv!Ask(m, i)
  <2>1. \A j \in IDs : PhaseOf(j)' = IF j = i THEN "asked" ELSE PhaseOf(j)
    BY <1>3, <1>5, <1>6
  <2>2. \A j \in IDs : LogOf(j)' =
          IF j = i THEN AddMessage(LogOf(i), [role |-> "user", turn |-> m], MaxMessages)
          ELSE LogOf(j)
    BY <1>3, <1>5
  <2>3. QED BY <1>3, <1>4, <2>1, <2>2, ConvAddMessage DEF Conv!Ask, Conv!Say
<1>8. QED BY <1>3, <1>7 DEF Conv!Next

\* The assistant's message answers it.
LEMMA AddAssistantAnswers ==
    ASSUME IInv, IInv', NEW m \in Msgs, AddAssistantMessage(m)
    PROVE  [Conv!Next]_(Conv!vars)
<1> DEFINE i == id[m]
<1>1. Holding(m) /\ pc[m] = "running"
  BY DEF AddAssistantMessage, Holding, HoldingPcs
<1>2. /\ pc' = [pc EXCEPT ![m] = "committed"] /\ UNCHANGED <<sessions, id, sess>>
      /\ AppendTo(sess[m], "assistant", m)
  BY DEF AddAssistantMessage, Goto
<1>3. /\ i \in IDs /\ HoldersOf(i) = {m} /\ pc'[m] = "committed"
      /\ \A j \in IDs : HoldersOf(j)' = HoldersOf(j)
      /\ \A j \in IDs : j # i => PhaseOf(j)' = PhaseOf(j) /\ LogOf(j)' = LogOf(j)
      /\ LogOf(i)' = AddMessage(LogOf(i), [role |-> "assistant", turn |-> m], MaxMessages)
  BY <1>1, <1>2, AppendSays DEF HoldingPcs
<1>4. PhaseOf(i) = "asked"
  BY <1>1, <1>3, PhaseOfHolder DEF PhaseIsHolders
<1>5. i' = i
  BY <1>2
<1>6. PhaseOf(i)' = "answered"
  BY <1>3, <1>5, PhaseOfHolderNext DEF PhaseIsHolders
<1>7. Conv!Answer(m, i)
  <2>1. \A j \in IDs : PhaseOf(j)' = IF j = i THEN "answered" ELSE PhaseOf(j)
    BY <1>3, <1>5, <1>6
  <2>2. \A j \in IDs : LogOf(j)' =
          IF j = i THEN AddMessage(LogOf(i), [role |-> "assistant", turn |-> m], MaxMessages)
          ELSE LogOf(j)
    BY <1>3, <1>5
  <2>3. QED BY <1>3, <1>4, <2>1, <2>2, ConvAddMessage DEF Conv!Answer, Conv!Say
<1>8. QED BY <1>3, <1>7 DEF Conv!Next

\* ReleaseTurn ends the turn; the requests it wakes were not holders.
LEMMA ReleaseEnds ==
    ASSUME IInv, IInv', NEW m \in Msgs, ReleaseTurn(m)
    PROVE  [Conv!Next]_(Conv!vars)
<1> DEFINE i == id[m]
<1>1. Holding(m) /\ pc[m] = "unregistered"
  BY DEF ReleaseTurn, Holding, HoldingPcs
<1>2. i \in IDs /\ HoldersOf(i) = {m}
  BY <1>1, IInvHolderFacts DEF HolderFacts
<1>3. UNCHANGED <<sessions, messages, id, sess>>
  BY DEF ReleaseTurn
<1>4. \A n \in Msgs : n # m => pc'[n] = pc[n] \/ (pc[n] = "waiting" /\ pc'[n] = "woken")
  BY ConstantFacts DEF ReleaseTurn
<1>5. pc'[m] = "done"
  BY ConstantFacts DEF ReleaseTurn
<1>6. \A n \in Msgs : (Holding(n)' <=> Holding(n) /\ n # m) /\ (Holding(n) /\ n # m => pc'[n] = pc[n])
  BY <1>4, <1>5 DEF Holding, HoldingPcs
<1>7. HoldersOf(i)' = {}
  BY <1>2, <1>3, <1>6 DEF HoldersOf
<1>8. \A j \in IDs : j # i => HoldersOf(j)' = HoldersOf(j)
  BY <1>3, <1>6 DEF HoldersOf
<1>9. ASSUME NEW j \in IDs, j # i PROVE PhaseOf(j)' = PhaseOf(j)
  <2>1. \A n \in HoldersOf(j) : pc'[n] = pc[n]
    BY <1>6, <1>9 DEF HoldersOf
  <2>2. QED BY <2>1, <1>8, <1>9 DEF PhaseOf
<1>10. PhaseOf(i) = "answered"
  BY <1>1, <1>2, PhaseOfHolder DEF PhaseIsHolders
<1>11. PhaseOf(i)' = "idle"
  <2>1. i' = i
    BY <1>3
  <2>2. QED BY <1>2, <1>7, <2>1, PhaseOfHolderNext DEF PhaseIsHolders
<1>12. \A j \in IDs : LogOf(j)' = LogOf(j)
  BY <1>3 DEF LogOf
<1>13. Conv!End(m, i)
  BY <1>2, <1>3, <1>7, <1>8, <1>9, <1>10, <1>11, <1>12 DEF Conv!End
<1>14. QED BY <1>2, <1>13 DEF Conv!Next

\* deleteSessionIfSame forgets the conversation of the object it closed, and
\* nothing when that object has been replaced.
LEMMA DeleteForgetsLog ==
    ASSUME IInv, IInv', NEW d \in Dels, DeleteIfSame(d)
    PROVE  [Conv!Next]_(Conv!vars)
<1> DEFINE i == id[d]
<1>1. /\ pc[d] \in {"woken", "remove"} /\ pc' = [pc EXCEPT ![d] = "done"]
      /\ UNCHANGED <<turnActive, messages, id, sess>>
  BY DEF DeleteIfSame, Goto, sessionVars
<1>2. d \in Procs /\ ~Holding(d) /\ ~Holding(d)'
  BY ConstantFacts DEF Holding
<1>3. i \in IDs /\ sess[d] \in Msgs
  <2>1. i # None /\ sess[d] # None
    BY <1>1, <1>2 DEF IInv, Naming
  <2>2. QED BY <1>2, <2>1 DEF IInv, TypeOK
<1>4. \A n \in Msgs : pc'[n] = pc[n] /\ (Holding(n)' <=> Holding(n))
  BY <1>1, ConstantFacts DEF Holding, IInv, TypeOK
<1>5. CASE sessions[i] # sess[d]
  <2>1. sessions' = sessions
    BY <1>5 DEF DeleteIfSame
  <2>2. \A q \in Procs : q # d => pc'[q] = pc[q]
    BY <1>1 DEF IInv, TypeOK
  <2>3. QED BY <1>1, <1>2, <2>1, <2>2, Silent
<1>6. CASE sessions[i] = sess[d]
  <2>1. sessions' = [sessions EXCEPT ![i] = None]
    BY <1>6 DEF DeleteIfSame
  <2>2. ~turnActive[sess[d]]
    BY <1>1 DEF IInv, Turns, CloserHasClosed
  <2>3. HoldersOf(i) = {}
    <3> SUFFICES ASSUME NEW n \in Msgs, Holding(n), id[n] = i PROVE FALSE
      BY DEF HoldersOf
    <3>1. sess[n] = sess[d]
      BY <1>6, IInvHolderFacts DEF HolderFacts
    <3>2. QED BY <2>2, <3>1 DEF IInv, Turns, ActiveIsHeld
  <2>4. \A j \in IDs : HoldersOf(j)' = HoldersOf(j)
    BY <1>1, <1>4 DEF HoldersOf
  <2>5. \A j \in IDs : PhaseOf(j)' = PhaseOf(j)
    BY <1>4, <2>4 DEF PhaseOf, HoldersOf
  <2>6. sessions'[i] = None /\ \A j \in IDs : j # i => sessions'[j] = sessions[j]
    BY <1>3, <2>1 DEF IInv, TypeOK
  <2>7. \A j \in IDs : j # i => LogOf(j)' = LogOf(j)
    BY <1>1, <2>6 DEF LogOf
  <2>8. LogOf(i)' = <<>>
    BY <1>1, <2>6 DEF LogOf
  <2>9. Conv!Forget(i)
    BY <1>1, <1>3, <2>3, <2>4, <2>5, <2>7, <2>8 DEF Conv!Forget
  <2>10. QED BY <1>3, <2>9 DEF Conv!Next
<1>7. QED BY <1>5, <1>6

\* A new object enters the manager under an ID that had none, with no history.
LEMMA Allocates ==
    ASSUME IInv, IInv', NEW m \in Msgs, NEW i \in IDs,
           pc[m] \in {"start", "create"}, pc' = [pc EXCEPT ![m] = "acquire"],
           sessions[i] = None, sessions' = [sessions EXCEPT ![i] = m],
           messages' = messages, \A n \in Msgs : n # m => id'[n] = id[n]
    PROVE  UNCHANGED Conv!vars
<1>1. pc'[m] = "acquire" /\ \A n \in Msgs : n # m => pc'[n] = pc[n]
  BY ConstantFacts DEF IInv, TypeOK
<1>2. \A n \in Msgs : Holding(n)' <=> Holding(n)
  BY <1>1 DEF Holding, HoldingPcs
<1>3. \A n \in Msgs : Holding(n) => n # m
  BY DEF Holding, HoldingPcs
<1>4. messages[m] = <<>>
  <2>1. sess[m] = None
    BY DEF IInv, Naming
  <2>2. QED BY <2>1, ConstantFacts DEF IInv, Naming
<1>5. sessions'[i] = m /\ \A j \in IDs : j # i => sessions'[j] = sessions[j]
  BY DEF IInv, TypeOK
<1>6. LogOf(i)' = LogOf(i)
  BY <1>4, <1>5 DEF LogOf
<1>7. \A j \in IDs : LogOf(j)' = LogOf(j)
  BY <1>5, <1>6 DEF LogOf
<1>8. QED
  BY <1>1, <1>2, <1>3, <1>7, Invisible DEF Holding, HoldingPcs

\* The other steps of a message request are invisible.
LEMMA MsgStepRefines ==
    ASSUME IInv, IInv', NEW m \in Msgs, MsgStep(m)
    PROVE  [Conv!Next]_(Conv!vars)
<1>1. CASE GetOrCreateSlow(m)
  <2>1. /\ pc[m] = "create" /\ pc' = [pc EXCEPT ![m] = "acquire"]
        /\ UNCHANGED <<messages, id>>
    BY <1>1 DEF GetOrCreateSlow, Goto, sessionVars
  <2>2. id[m] \in IDs
    BY <2>1, ConstantFacts DEF IInv, TypeOK, Naming
  <2>3. CASE sessions[id[m]] = None
    BY <1>1, <2>1, <2>2, <2>3, Allocates DEF GetOrCreateSlow
  <2>4. CASE sessions[id[m]] # None
    <3>1. sessions' = sessions
      BY <1>1, <2>4 DEF GetOrCreateSlow
    <3>2. m \in Procs /\ ~Holding(m) /\ ~Holding(m)' /\ \A q \in Procs : q # m => pc'[q] = pc[q]
      BY <2>1, ConstantFacts DEF Holding, HoldingPcs, IInv, TypeOK
    <3>3. QED BY <2>1, <3>1, <3>2, Silent
  <2>5. QED BY <2>3, <2>4
<1>2. CASE AcquireTurn(m)
  BY <1>2, AcquireBegins
<1>3. CASE AcquireCancelled(m)
  <2>1. /\ pc[m] \in {"waiting", "woken"} /\ pc' = [pc EXCEPT ![m] = "refused"]
        /\ UNCHANGED <<sessions, messages, id>>
    BY <1>3 DEF AcquireCancelled, Goto, sessionVars
  <2>2. m \in Procs /\ ~Holding(m) /\ ~Holding(m)' /\ \A q \in Procs : q # m => pc'[q] = pc[q]
    BY <2>1, ConstantFacts DEF Holding, HoldingPcs, IInv, TypeOK
  <2>3. QED BY <2>1, <2>2, Silent
<1>4. ASSUME NEW l, \/ pc[m] = "acquired" /\ l = "registered"
                    \/ pc[m] = "committed" /\ l = "unregistered",
             pc' = [pc EXCEPT ![m] = l], UNCHANGED <<sessions, messages, id>>
      PROVE  UNCHANGED Conv!vars
  <2>1. pc'[m] = l /\ \A n \in Msgs : n # m => pc'[n] = pc[n]
    BY <1>4, ConstantFacts DEF IInv, TypeOK
  <2>2. \A n \in Msgs : Holding(n)' <=> Holding(n)
    BY <1>4, <2>1 DEF Holding, HoldingPcs
  <2>3. \A j \in IDs : LogOf(j)' = LogOf(j)
    BY <1>4 DEF LogOf
  <2>4. QED BY <1>4, <2>1, <2>2, <2>3, Invisible DEF Holding, HoldingPcs
<1>5. CASE Register(m)
  BY <1>4, <1>5 DEF Register, Goto, sessionVars
<1>6. CASE AddUserMessage(m)
  BY <1>6, AddUserAsks
<1>7. CASE AddAssistantMessage(m)
  BY <1>7, AddAssistantAnswers
<1>8. CASE Unregister(m)
  BY <1>4, <1>8 DEF Unregister, Goto, sessionVars
<1>9. CASE ReleaseTurn(m)
  BY <1>9, ReleaseEnds
<1>10. QED
  BY <1>1, <1>2, <1>3, <1>5, <1>6, <1>7, <1>8, <1>9 DEF MsgStep

\* Arrivals and the steps of a delete request before its last are invisible:
\* they move one request that holds no turn.
LEMMA OthersRefine ==
    ASSUME IInv, IInv', NEW p \in Procs, NEW l, ~Holding(p), l \notin HoldingPcs,
           pc' = [pc EXCEPT ![p] = l], \A q \in Procs : q # p => id'[q] = id[q],
           UNCHANGED <<sessions, messages>>
    PROVE  UNCHANGED Conv!vars
<1>1. pc'[p] = l /\ \A q \in Procs : q # p => pc'[q] = pc[q]
  BY DEF IInv, TypeOK
<1>2. ~Holding(p)'
  BY <1>1 DEF Holding
<1>3. QED BY <1>1, <1>2, Silent

LEMMA StepRefines ==
    ASSUME IInv, IInv', [Next]_vars
    PROVE  [Conv!Next]_(Conv!vars)
<1>1. ASSUME UNCHANGED <<sessions, messages, pc, id>> PROVE UNCHANGED Conv!vars
  <2>1. \A n \in Msgs : Holding(n)' <=> Holding(n)
    BY <1>1 DEF Holding
  <2>2. \A j \in IDs : LogOf(j)' = LogOf(j)
    BY <1>1 DEF LogOf
  <2>3. QED BY <1>1, <2>1, <2>2, Invisible DEF Holding, HoldingPcs
<1>2. ASSUME NEW m \in Msgs, NEW i \in IDs, GetOrCreate(m, i)
      PROVE  UNCHANGED Conv!vars
  <2>1. /\ pc[m] = "start" /\ id' = [id EXCEPT ![m] = i]
        /\ pc' = [pc EXCEPT ![m] = "acquire"] \/ pc' = [pc EXCEPT ![m] = "create"]
        /\ UNCHANGED <<sessions, messages>>
    BY <1>2 DEF GetOrCreate, Goto, sessionVars
  <2>2. m \in Procs /\ ~Holding(m) /\ \A q \in Procs : q # m => id'[q] = id[q]
    BY <2>1, ConstantFacts DEF Holding, HoldingPcs, IInv, TypeOK
  <2>3. "acquire" \notin HoldingPcs /\ "create" \notin HoldingPcs
    BY DEF HoldingPcs
  <2>4. QED BY <2>1, <2>2, <2>3, OthersRefine
<1>3. ASSUME NEW m \in Msgs, Create(m) PROVE UNCHANGED Conv!vars
  <2>1. /\ pc[m] = "start" /\ pc' = [pc EXCEPT ![m] = "acquire"]
        /\ id' = [id EXCEPT ![m] = m] /\ messages' = messages
        /\ sessions' = [sessions EXCEPT ![m] = m]
    BY <1>3 DEF Create, Goto, sessionVars
  <2>2. m \in IDs /\ \A n \in Msgs : n # m => id'[n] = id[n]
    BY <2>1, ConstantFacts DEF IInv, TypeOK
  <2>3. sessions[m] = None
    <3> SUFFICES ASSUME sessions[m] # None PROVE FALSE
      OBVIOUS
    <3>1. id[sessions[m]] = m /\ sessions[m] \in Procs
      BY <2>2, ConstantFacts DEF IInv, TypeOK, Naming
    <3>2. id[m] = m
      BY <3>1 DEF IInv, Naming
    <3>3. id[m] = None
      BY <2>1, ConstantFacts DEF IInv, Naming
    <3>4. QED BY <3>2, <3>3, ConstantFacts
  <2>4. QED BY <2>1, <2>2, <2>3, Allocates
<1>4. ASSUME NEW d \in Dels, NEW i \in IDs, DeleteCancels(d, i)
      PROVE  UNCHANGED Conv!vars
  <2>1. /\ pc' = [pc EXCEPT ![d] = "lookup"] /\ id' = [id EXCEPT ![d] = i]
        /\ UNCHANGED <<sessions, messages>>
    BY <1>4 DEF DeleteCancels, Goto, sessionVars
  <2>2. d \in Procs /\ ~Holding(d) /\ \A q \in Procs : q # d => id'[q] = id[q]
    BY <2>1, ConstantFacts DEF Holding, IInv, TypeOK
  <2>3. QED BY <2>1, <2>2, OthersRefine DEF HoldingPcs
<1>5. ASSUME NEW d \in Dels, DelStep(d) PROVE [Conv!Next]_(Conv!vars)
  <2>1. CASE DeleteIfSame(d)
    BY <2>1, DeleteForgetsLog
  <2>2. d \in Procs /\ ~Holding(d)
    BY ConstantFacts DEF Holding
  <2>3. CASE DeleteLookup(d)
    <3>1. /\ pc' = [pc EXCEPT ![d] = "done"] \/ pc' = [pc EXCEPT ![d] = "close"]
          /\ UNCHANGED <<sessions, messages, id>>
      BY <2>3 DEF DeleteLookup, Goto, sessionVars
    <3>2. QED BY <2>2, <3>1, OthersRefine DEF HoldingPcs
  <2>4. CASE Close(d)
    <3>1. /\ pc' = [pc EXCEPT ![d] = "waiting"] \/ pc' = [pc EXCEPT ![d] = "remove"]
          /\ UNCHANGED <<sessions, messages, id>>
      BY <2>4 DEF Close, Goto
    <3>2. QED BY <2>2, <3>1, OthersRefine DEF HoldingPcs
  <2>5. CASE DeleteDetaches(d)
    <3>1. /\ pc' = [pc EXCEPT ![d] = "close"]
          /\ UNCHANGED <<sessions, messages, id>>
      BY <2>5 DEF DeleteDetaches, Goto, sessionVars
    <3>2. QED BY <2>2, <3>1, OthersRefine DEF HoldingPcs
  <2>6. QED BY <1>5, <2>1, <2>3, <2>4, <2>5 DEF DelStep
<1>6. ASSUME NEW i \in IDs, PostChatStop(i) PROVE UNCHANGED Conv!vars
  BY <1>1, <1>6 DEF PostChatStop, sessionVars
<1>7. ASSUME NEW p \in Procs, Disconnect(p) PROVE UNCHANGED Conv!vars
  BY <1>1, <1>7 DEF Disconnect, sessionVars
<1>8. ASSUME UNCHANGED vars PROVE UNCHANGED Conv!vars
  BY <1>1, <1>8 DEF vars
<1>9. QED
  BY <1>2, <1>3, <1>4, <1>5, <1>6, <1>7, <1>8, MsgStepRefines DEF Next

LEMMA InitRefines == Init => Conv!Init
<1> SUFFICES ASSUME Init PROVE Conv!Init
  OBVIOUS
<1>1. \A m \in Msgs : ~Holding(m)
  BY ConstantFacts DEF Init, Holding, HoldingPcs
<1>2. \A i \in IDs : HoldersOf(i) = {}
  BY <1>1 DEF HoldersOf
<1>3. \A i \in IDs : PhaseOf(i) = "idle"
  BY <1>2, PhaseOfHolder DEF PhaseIsHolders
<1>4. \A i \in IDs : LogOf(i) = <<>>
  BY DEF Init, LogOf
<1>5. QED BY <1>2, <1>3, <1>4 DEF Conv!Init

\* The session layer, with its objects, locks, wait channels, registrations,
\* deletes and stops, shows its callers one conversation per session ID: one
\* turn at a time, one question and one answer per turn, and a log that is
\* only forgotten between turns.
THEOREM Refinement == Spec => ImplementsConversations
<1>1. IInv /\ IInv' /\ [Next]_vars => [Conv!Next]_(Conv!vars)
  BY StepRefines
<1>2. QED
  BY <1>1, InitRefines, Inductive, PTL DEF Spec, ImplementsConversations, Conv!Spec
=============================================================================
