-------------------------- MODULE ChatPanelProofs --------------------------
(***************************************************************************)
(* ChatPanel for any number of messages, stops and queue switches: its     *)
(* refs agree with its requests, and it implements Submissions.            *)
(***************************************************************************)
EXTENDS ChatPanel, TLAPS

-----------------------------------------------------------------------------
(* The inductive invariant, in layers.                                      *)

\* What a request took from the refs when it started is not newer than they
\* are: a stop or a clear, which counts them up, leaves every request behind.
Past ==
    \A m \in Msgs :
        /\ req[m].epoch <= epoch
        /\ req[m].token # None => req[m].token <= generation
        /\ mounted /\ Live(m) /\ req[m].token = generation => Current(m)

\* A message is sent or queued only once it was submitted, and the prompt the
\* panel is looking at was submitted only if lastSentRef says so.
Submitted ==
    /\ slot \subseteq calls
    /\ \A m \in Msgs : req[m].phase # "new" => m \in calls
    /\ prompt # None => prompt \notin calls
    /\ view.prompt # None /\ view.prompt \in calls => lastSent = view.prompt

\* An interactive request of this generation runs.
Continuing == \E m \in Msgs : Live(m) /\ req[m].token = generation

\* interactiveActiveRef is held by the queued submission or by the running one,
\* never by both; the controls say "queued" only while the slot is full.
Claimed ==
    mounted =>
        /\ Continuing => interactiveActive /\ queued = None
        /\ queued # None => interactiveActive /\ queued.msg \in slot
        /\ submission = "queued" => queued # None

\* A commit that shows a queued submission hands over that submission, unless a
\* click in between has emptied the slot, in which case nothing runs either.
HandOver ==
    /\ mounted /\ view.submission = "queued" /\ effects \in {"due", "dispatch"}
         /\ queued = None
       => ~Continuing /\ (effects = "due" => urgent)
    /\ ~mounted => queued = None

IInv == TypeOK /\ Past /\ NoOrphan /\ Submitted /\ Claimed /\ HandOver

-----------------------------------------------------------------------------
(* What the shared parts of the actions do to the requests.                 *)

\* runMessage starts one request, under the refs as they are, and touches no
\* other.
LEMMA RunMessageStarts ==
    ASSUME TypeOK, NEW m \in Msgs, NEW token \in Nat \union {None}, RunMessage(m, token)
    PROVE  /\ req' \in [Msgs -> Request]
           /\ req'[m] = [phase |-> "open", epoch |-> epoch, token |-> token,
                         sent |-> view.session, done |-> FALSE, aborted |-> FALSE,
                         conversation |-> conversation]
           /\ \A n \in Msgs \ {m} : req'[n] = req[n]
<1>1. view.session \in Nat \union {None} /\ epoch \in Nat /\ conversation \in Nat
  BY DEF TypeOK, View
<1>2. [phase |-> "open", epoch |-> epoch, token |-> token,
       sent |-> view.session, done |-> FALSE, aborted |-> FALSE,
       conversation |-> conversation] \in Request
  BY <1>1 DEF Request
<1>3. QED
  BY <1>2 DEF TypeOK, RunMessage

\* The end of a request makes it a stranger to the refs.
LEMMA SettleEnds ==
    ASSUME TypeOK, NEW m \in Msgs, NEW allow \in BOOLEAN, Settle(m, allow)
    PROVE  /\ req' \in [Msgs -> Request]
           /\ req'[m].phase = "over" /\ req'[m].epoch = 0 /\ req'[m].token = None
           /\ \A n \in Msgs \ {m} : req'[n] = req[n]
<1>1. Blank("over") \in Request
  BY DEF Blank, Request
<1>2. QED
  BY <1>1 DEF TypeOK, Settle, Blank

\* A stop, a clear or an unmount marks the request of abortRef, and nothing else.
LEMMA AbortMarks ==
    ASSUME TypeOK, Abort
    PROVE  /\ req' \in [Msgs -> Request]
           /\ \A m \in Msgs :
                /\ req'[m].phase = req[m].phase /\ req'[m].epoch = req[m].epoch
                /\ req'[m].token = req[m].token
                /\ req[m].aborted => req'[m].aborted
                /\ m = abortRef => req'[m].aborted
<1>1. CASE abortRef = None
  BY <1>1, ChatPanelAssumption DEF TypeOK, Abort
<1>2. CASE abortRef # None
  <2>1. abortRef \in Msgs
    BY <1>2 DEF TypeOK
  <2>2. req' = [req EXCEPT ![abortRef].aborted = TRUE]
    BY <1>2 DEF Abort
  <2>3. [req[abortRef] EXCEPT !.aborted = TRUE] \in Request
    BY <2>1 DEF TypeOK, Request
  <2>4. \A m \in Msgs : req[m] \in Request
    BY DEF TypeOK
  <2>5. req' \in [Msgs -> Request]
    BY <2>1, <2>2, <2>3 DEF TypeOK
  <2>6. \A m \in Msgs : req'[m] = IF m = abortRef
                                   THEN [req[m] EXCEPT !.aborted = TRUE] ELSE req[m]
    BY <2>1, <2>2 DEF TypeOK
  <2>7. QED BY <2>4, <2>5, <2>6 DEF Request
<1>3. QED BY <1>1, <1>2

-----------------------------------------------------------------------------
(* The actions that may start a request, as one fact.                       *)

\* A typed line or a prompt starts a request only if none is active and no
\* submission holds interactiveActiveRef; otherwise it changes nothing.
LEMMA SendMessageEffect ==
    ASSUME TypeOK, NEW m \in Msgs, SendMessage(m)
    PROVE  \/ /\ ~requestActive /\ ~interactiveActive /\ ~view.streaming
              /\ RunMessage(m, None)
           \/ UNCHANGED <<requestActive, streaming, abortRef, req>>
BY DEF SendMessage, Refused, TypeOK

-----------------------------------------------------------------------------
(* Type correctness *)

LEMMA InitTyped == Init => TypeOK
<1> SUFFICES ASSUME Init PROVE TypeOK
  OBVIOUS
<1>1. Blank("new") \in Request
  BY DEF Blank, Request
<1>2. req \in [Msgs -> Request]
  BY <1>1 DEF Init
<1>3. view \in View
  BY DEF Init, View, Submission
<1>4. QED
  BY <1>2, <1>3 DEF Init, TypeOK, Submission

LEMMA NextTyped == TypeOK /\ [Next]_vars => TypeOK'
<1> SUFFICES ASSUME TypeOK, [Next]_vars PROVE TypeOK'
  OBVIOUS
<1> USE DEF TypeOK
<1>1. ASSUME NEW m \in Typed, Send(m) PROVE TypeOK'
  <2>1. m \in Msgs /\ calls' = calls \union {m}
    BY <1>1 DEF Send, Msgs
  <2>2. SendMessage(m)
    BY <1>1 DEF Send
  <2>3. /\ req' \in [Msgs -> Request] /\ requestActive' \in BOOLEAN
        /\ streaming' \in BOOLEAN /\ abortRef' \in Msgs \union {None}
    BY <2>1, <2>2, SendMessageEffect, RunMessageStarts DEF RunMessage
  <2>4. QED
    BY <1>1, <2>1, <2>2, <2>3 DEF Send, SendMessage, props, react
<1>2. ASSUME NEW m \in Actions, SendInteractive(m) PROVE TypeOK'
  <2>1. m \in Msgs /\ calls' = calls \union {m}
    BY <1>2 DEF SendInteractive, Msgs
  <2>2. CASE ActLegacy(m)
    <3>1. /\ req' \in [Msgs -> Request] /\ requestActive' \in BOOLEAN
          /\ streaming' \in BOOLEAN /\ abortRef' \in Msgs \union {None}
      BY <2>1, <2>2, SendMessageEffect, RunMessageStarts DEF RunMessage, ActLegacy
    <3>2. QED
      BY <1>2, <2>1, <2>2, <3>1 DEF SendInteractive, ActLegacy, SendMessage, props, react
  <2>3. CASE ActRefused
    BY <1>2, <2>1, <2>3 DEF SendInteractive, ActRefused, refs, state, props, react
  <2>4. CASE ActStart(m)
    <3>1. /\ req' \in [Msgs -> Request] /\ requestActive' \in BOOLEAN
          /\ streaming' \in BOOLEAN /\ abortRef' \in Msgs \union {None}
      BY <2>1, <2>4, RunMessageStarts DEF RunMessage, ActStart
    <3>2. QED
      BY <1>2, <2>1, <2>4, <3>1 DEF SendInteractive, ActStart, props, react, Submission
  <2>5. CASE ActQueue(m)
    BY <1>2, <2>1, <2>5 DEF SendInteractive, ActQueue, props, react, Submission
  <2>6. QED
    BY <1>2, <2>2, <2>3, <2>4, <2>5 DEF SendInteractive
<1>3. ASSUME NEW p \in Prompts, HostPrompts(p) PROVE TypeOK'
  BY <1>3 DEF HostPrompts, refs, state, react, history
<1>4. ASSUME NEW m \in Msgs, Respond(m) \/ ReadDone(m) PROVE TypeOK'
  <2>1. req[m] \in Request
    BY <1>4
  <2>2. req' \in [Msgs -> Request]
    <3>1. /\ [req[m] EXCEPT !.phase = "reading"] \in Request
          /\ [req[m] EXCEPT !.done = TRUE] \in Request
      BY <2>1 DEF Request
    <3>2. \/ req' = [req EXCEPT ![m] = [req[m] EXCEPT !.phase = "reading"]]
          \/ req' = [req EXCEPT ![m] = [req[m] EXCEPT !.done = TRUE]]
      BY <1>4 DEF Respond, ReadDone
    <3>3. QED BY <3>1, <3>2
  <2>3. session' \in Nat \union {None}
    BY <1>4, <2>1 DEF Respond, ReadDone, Request, state
  <2>4. QED
    <3>1. /\ UNCHANGED <<refs, streaming, submission>>
          /\ EventFrame
      BY <1>4 DEF Respond, ReadDone, state
    <3>2. QED
      BY <2>2, <2>3, <3>1 DEF EventFrame, refs, props, react, history
<1>5. ASSUME NEW m \in Msgs, Ends(m) PROVE TypeOK'
  <2>1. PICK allow \in BOOLEAN : Settle(m, allow)
    BY <1>5 DEF Ends, RespondError, ReadEnd, Breaks, EndStale, Request
  <2>2. UNCHANGED session /\ EventFrame
    BY <1>5 DEF Ends, RespondError, ReadEnd, Breaks, EndStale
  <2>3. req' \in [Msgs -> Request]
    BY <2>1, SettleEnds
  <2>4. QED
    <3>1. /\ handoffAllowed' \in BOOLEAN /\ requestActive' \in BOOLEAN
          /\ streaming' \in BOOLEAN
      BY <2>1 DEF Settle
    <3>2. abortRef' \in Msgs \union {None}
      BY <2>1 DEF Settle
    <3>3. interactiveActive' \in BOOLEAN /\ submission' \in Submission
      BY <2>1 DEF Settle, Submission
    <3>4. UNCHANGED <<epoch, generation, queued, mounted>>
      BY <2>1 DEF Settle
    <3>5. QED
      BY <2>2, <2>3, <3>1, <3>2, <3>3, <3>4 DEF EventFrame, props, react, history
<1>6. ASSUME Stop \/ Clear PROVE TypeOK'
  <2>1. Abort /\ CancelCurrentRequest
    BY <1>6 DEF Stop, Clear, CancelCurrentRequest
  <2>2. req' \in [Msgs -> Request]
    BY <2>1, AbortMarks
  <2>3. QED
    <3>1. /\ epoch' \in Nat /\ generation' \in Nat
          /\ requestActive' = FALSE /\ handoffAllowed' = TRUE /\ interactiveActive' = FALSE
          /\ queued' = None /\ abortRef' = None /\ streaming' = FALSE
          /\ submission' \in Submission /\ UNCHANGED mounted
      BY <2>1 DEF CancelCurrentRequest, Submission
    <3>2. /\ session' \in Nat \union {None} /\ conversation' \in Nat
          /\ urgent' = TRUE
      BY <1>6 DEF Stop, Clear, history
    <3>3. UNCHANGED <<lastSent, props, view, effects, calls, slot, consumed, strayed>>
      BY <1>6 DEF Stop, Clear, history
    <3>4. QED
      BY <2>2, <3>1, <3>2, <3>3 DEF props
<1>7. ASSUME Unmount PROVE TypeOK'
  <2>1. Abort
    BY <1>7 DEF Unmount, CleanUp
  <2>2. req' \in [Msgs -> Request]
    BY <2>1, AbortMarks
  <2>3. QED
    <3>1. /\ epoch' \in Nat /\ generation' \in Nat /\ mounted' = FALSE
          /\ requestActive' = FALSE /\ interactiveActive' = FALSE /\ queued' = None
          /\ UNCHANGED <<abortRef, handoffAllowed, lastSent, state, props, react, history>>
      BY <1>7 DEF Unmount, CleanUp
    <3>2. QED
      BY <2>2, <3>1 DEF state, props, react, history
<1>8. ASSUME HostSwitchesQueue PROVE TypeOK'
  BY <1>8 DEF HostSwitchesQueue, refs, state, react, history
<1>9. ASSUME Commit PROVE TypeOK'
  <2>1. Rendered \in View
    <3>1. (view.queueing /\ ~queueing) \in BOOLEAN
      OBVIOUS
    <3>2. QED BY <3>1 DEF Rendered, View
  <2>2. view' \in View /\ effects' = "due" /\ urgent' = FALSE
    BY <1>9, <2>1 DEF Commit
  <2>3. QED
    BY <1>9, <2>2 DEF Commit, refs, state, props, history
<1>10. ASSUME QueueEffect PROVE TypeOK'
  <2>1. generation' \in Nat
    BY <1>10 DEF QueueEffect
  <2>2. interactiveActive' \in BOOLEAN
    BY <1>10 DEF QueueEffect
  <2>3. queued' \in [msg : Actions, generation : Nat] \union {None}
    BY <1>10 DEF QueueEffect
  <2>4. submission' \in Submission
    BY <1>10 DEF QueueEffect, Submission
  <2>5. QED
    BY <1>10, <2>1, <2>2, <2>3, <2>4 DEF QueueEffect, props, history
<1>11. ASSUME DispatchEffect PROVE TypeOK'
  <2>1. CASE DispatchNothing
    BY <1>11, <2>1 DEF DispatchEffect, DispatchNothing, refs, state, props, history
  <2>2. CASE DispatchDrops
    BY <1>11, <2>2 DEF DispatchEffect, DispatchDrops, props, history, Submission
  <2>3. CASE DispatchSends
    <3>1. queued # None /\ queued.msg \in Msgs /\ queued.generation \in Nat
      BY <2>3 DEF DispatchSends, Deliverable, Msgs
    <3>2. /\ req' \in [Msgs -> Request] /\ requestActive' \in BOOLEAN
          /\ streaming' \in BOOLEAN /\ abortRef' \in Msgs \union {None}
      BY <2>3, <3>1, RunMessageStarts DEF RunMessage, DispatchSends
    <3>3. QED
      BY <1>11, <2>3, <3>2 DEF DispatchEffect, DispatchSends, props, history, Submission
  <2>4. QED
    BY <1>11, <2>1, <2>2, <2>3 DEF DispatchEffect
<1>12. ASSUME PromptEffect PROVE TypeOK'
  <2>1. CASE PromptSends
    <3>1. view.prompt \in Prompts /\ view.prompt \in Msgs
      BY <2>1 DEF PromptSends, PromptDue, View, Msgs
    <3>2. /\ req' \in [Msgs -> Request] /\ requestActive' \in BOOLEAN
          /\ streaming' \in BOOLEAN /\ abortRef' \in Msgs \union {None}
      BY <2>1, <3>1, SendMessageEffect, RunMessageStarts DEF RunMessage, PromptSends
    <3>3. strayed' \in BOOLEAN
      BY <2>1, Zenon DEF PromptSends
    <3>4. QED
      BY <1>12, <2>1, <3>1, <3>2, <3>3 DEF PromptEffect, PromptSends, SendMessage
  <2>2. CASE PromptWaits
    BY <1>12, <2>2 DEF PromptEffect, PromptWaits, refs, state
  <2>3. QED
    BY <1>12, <2>1, <2>2 DEF PromptEffect
<1>13. CASE UNCHANGED vars
  BY <1>13 DEF vars, refs, state, props, react, history
<1>14. QED
  BY <1>1, <1>2, <1>3, <1>4, <1>5, <1>6, <1>7, <1>8, <1>9, <1>10, <1>11, <1>12, <1>13
     DEF Next, React

THEOREM TypeCorrect == Spec => []TypeOK
BY InitTyped, NextTyped, PTL DEF Spec

-----------------------------------------------------------------------------
(* The requests and the refs: what each kind of step does to Past, NoOrphan *)
(* and Continuing.                                                          *)

RequestLayer == TypeOK /\ Past /\ NoOrphan

\* There is at most one current request, the one of abortRef.
LEMMA CurrentIsRef ==
    ASSUME RequestLayer, NEW m \in Msgs, Live(m), Current(m)
    PROVE  requestActive /\ abortRef = m
BY DEF RequestLayer, NoOrphan, Current

\* A step that leaves the refs and what they say about each request alone.
LEMMA FrameKeeps ==
    ASSUME RequestLayer, TypeOK',
           UNCHANGED <<epoch, generation, mounted, requestActive, abortRef>>,
           \A n \in Msgs : /\ Live(n)' <=> Live(n)
                           /\ req'[n].epoch = req[n].epoch
                           /\ req'[n].token = req[n].token
                           /\ req'[n].aborted = req[n].aborted
    PROVE  Past' /\ NoOrphan' /\ (Continuing' <=> Continuing)
<1>1. \A n \in Msgs : Current(n)' <=> Current(n)
  BY DEF Current
<1>2. Past'
  BY <1>1 DEF RequestLayer, Past
<1>3. NoOrphan'
  BY <1>1 DEF RequestLayer, NoOrphan
<1>4. Continuing' <=> Continuing
  BY DEF Continuing
<1>5. QED BY <1>2, <1>3, <1>4

\* The start of a request while none is active.
LEMMA StartKeeps ==
    ASSUME RequestLayer, TypeOK', mounted, ~requestActive,
           NEW m \in Msgs, NEW token \in {None, generation}, RunMessage(m, token),
           UNCHANGED <<epoch, generation, mounted>>
    PROVE  /\ Past' /\ NoOrphan'
           /\ Continuing' => Continuing \/ token = generation
<1>1. epoch \in Nat /\ generation \in Nat /\ token \in Nat \union {None} /\ TypeOK
  BY DEF RequestLayer, TypeOK
<1>2. /\ req'[m].phase = "open" /\ req'[m].epoch = epoch /\ req'[m].token = token
      /\ \A n \in Msgs \ {m} : req'[n] = req[n]
  <2>1. /\ req'[m] = [phase |-> "open", epoch |-> epoch, token |-> token,
                     sent |-> view.session, done |-> FALSE, aborted |-> FALSE,
                     conversation |-> conversation]
        /\ \A n \in Msgs \ {m} : req'[n] = req[n]
    BY <1>1, RunMessageStarts
  <2>2. QED BY <2>1
<1>3. Live(m)' /\ Current(m)'
  BY <1>2 DEF Live, Current
<1>4. \A n \in Msgs \ {m} : (Live(n)' <=> Live(n)) /\ (Current(n)' <=> Current(n))
  BY <1>2 DEF Live, Current
<1>5. Past'
  BY <1>1, <1>2, <1>3, <1>4 DEF RequestLayer, Past
<1>6. \A n \in Msgs : Live(n) => ~Current(n) /\ req[n].aborted
  BY DEF RequestLayer, NoOrphan
<1>7. requestActive' = TRUE /\ abortRef' = m
  BY DEF RunMessage
<1>8. NoOrphan'
  BY <1>2, <1>3, <1>4, <1>6, <1>7 DEF NoOrphan
<1>9. Continuing' => Continuing \/ token = generation
  BY <1>2, <1>4 DEF Continuing
<1>10. QED BY <1>5, <1>8, <1>9

\* The end of a request: an interactive one of this generation was the only one.
LEMMA SettleKeeps ==
    ASSUME RequestLayer, TypeOK', NEW m \in Msgs, NEW allow \in BOOLEAN,
           Live(m), Settle(m, allow)
    PROVE  /\ Past' /\ NoOrphan'
           /\ Continuing' => Continuing
           /\ Continuing' /\ mounted => req[m].token # generation
<1>1. TypeOK /\ UNCHANGED <<epoch, generation, mounted>>
  BY DEF RequestLayer, Settle
<1>2. /\ req'[m].phase = "over" /\ req'[m].epoch = 0 /\ req'[m].token = None
      /\ \A n \in Msgs \ {m} : req'[n] = req[n]
  BY <1>1, SettleEnds
<1>3. ~Live(m)'
  BY <1>2 DEF Live
<1>4. \A n \in Msgs \ {m} : (Live(n)' <=> Live(n)) /\ (Current(n)' <=> Current(n))
  BY <1>1, <1>2 DEF Live, Current
<1>5. epoch \in Nat /\ generation \in Nat
  BY <1>1 DEF TypeOK
<1>6. Past'
  BY <1>1, <1>2, <1>3, <1>4, <1>5 DEF RequestLayer, Past
<1>7. NoOrphan'
  <2>1. CASE Current(m)
    <3>1. \A n \in Msgs \ {m} : Live(n) => ~Current(n) /\ req[n].aborted
      BY <2>1, CurrentIsRef DEF RequestLayer, NoOrphan
    <3>2. requestActive' = FALSE
      BY <2>1 DEF Settle
    <3>3. QED BY <1>2, <1>3, <1>4, <3>1, <3>2 DEF NoOrphan
  <2>2. CASE ~Current(m)
    <3>1. UNCHANGED <<requestActive, abortRef>>
      BY <2>2 DEF Settle
    <3>2. QED
      BY <1>1, <1>2, <1>3, <1>4, <2>2, <3>1 DEF RequestLayer, NoOrphan
  <2>3. QED BY <2>1, <2>2
<1>8. Continuing' => \E n \in Msgs \ {m} : Live(n) /\ req[n].token = generation
  BY <1>1, <1>2, <1>3, <1>4 DEF Continuing
<1>9. Continuing' /\ mounted => req[m].token # generation
  <2> SUFFICES ASSUME Continuing', mounted, req[m].token = generation PROVE FALSE
    OBVIOUS
  <2>1. PICK n \in Msgs \ {m} : Live(n) /\ req[n].token = generation
    BY <1>8
  <2>2. Current(m) /\ Current(n)
    BY <2>1 DEF RequestLayer, Past
  <2>3. abortRef = m /\ abortRef = n
    BY <2>1, <2>2, CurrentIsRef
  <2>4. QED BY <2>1, <2>3
<1>10. QED BY <1>6, <1>7, <1>8, <1>9 DEF Continuing

\* A stop, a clear or an unmount leaves every request behind, and aborts the one
\* that was current.
LEMMA CancelKeeps ==
    ASSUME RequestLayer, TypeOK', Abort, epoch' = epoch + 1,
           generation' = generation + 1, requestActive' = FALSE
    PROVE  Past' /\ NoOrphan' /\ ~Continuing'
<1>1. TypeOK /\ epoch \in Nat /\ generation \in Nat
  BY DEF RequestLayer, TypeOK
<1>2. \A n \in Msgs :
        /\ req'[n].phase = req[n].phase /\ req'[n].epoch = req[n].epoch
        /\ req'[n].token = req[n].token
        /\ req[n].aborted => req'[n].aborted
        /\ n = abortRef => req'[n].aborted
  BY <1>1, AbortMarks
<1>3. \A n \in Msgs : req[n].epoch \in Nat /\ req[n].token \in Nat \union {None}
  BY <1>1 DEF TypeOK, Request
<1>4. \A n \in Msgs : /\ req'[n].epoch < epoch'
                      /\ req'[n].token # None => req'[n].token < generation'
  BY <1>1, <1>2, <1>3 DEF RequestLayer, Past
<1>5. generation' # None
  BY <1>1, ChatPanelAssumption
<1>6. \A n \in Msgs : req'[n].epoch # epoch' /\ req'[n].token # generation'
  <2> TAKE n \in Msgs
  <2>1. epoch' \in Nat /\ generation' \in Nat
    BY <1>1
  <2>2. req'[n].epoch \in Nat /\ req'[n].token \in Nat \union {None}
    BY <1>2, <1>3
  <2>3. QED BY <1>4, <1>5, <2>1, <2>2
<1>7. \A n \in Msgs : ~Current(n)'
  BY <1>6 DEF Current
<1>8. Past'
  <2> SUFFICES ASSUME NEW n \in Msgs
               PROVE  /\ req'[n].epoch <= epoch'
                      /\ req'[n].token # None => req'[n].token <= generation'
                      /\ req'[n].token # generation'
    BY DEF Past
  <2>1. req'[n].epoch \in Nat /\ req'[n].token \in Nat \union {None}
    BY <1>2, <1>3
  <2>2. QED BY <1>1, <1>4, <1>6, <2>1
<1>9. \A n \in Msgs : Live(n)' => req'[n].aborted
  BY <1>2 DEF RequestLayer, NoOrphan, Live
<1>10. NoOrphan'
  BY <1>7, <1>9 DEF NoOrphan
<1>11. ~Continuing'
  BY <1>6 DEF Continuing
<1>12. QED BY <1>8, <1>10, <1>11

\* Switching the queue off leaves the interactive requests behind, no others.
LEMMA SwitchOffKeeps ==
    ASSUME RequestLayer, TypeOK', generation' = generation + 1,
           UNCHANGED <<epoch, mounted, requestActive, abortRef, req>>
    PROVE  Past' /\ NoOrphan' /\ ~Continuing'
<1>1. generation \in Nat /\ None \notin Nat
  BY ChatPanelAssumption DEF RequestLayer, TypeOK
<1>2. \A n \in Msgs : req[n].token \in Nat \union {None}
  BY DEF RequestLayer, TypeOK, Request
<1>3. \A n \in Msgs :
        /\ req[n].token # generation'
        /\ req[n].token # None => req[n].token <= generation'
  BY <1>1, <1>2 DEF RequestLayer, Past
<1>4. Past'
  BY <1>3 DEF RequestLayer, Past
<1>5. NoOrphan'
  BY DEF RequestLayer, NoOrphan, Live, Current
<1>6. ~Continuing'
  BY <1>3 DEF Continuing
<1>7. QED BY <1>4, <1>5, <1>6

-----------------------------------------------------------------------------
(* The inductive invariant                                                  *)

LEMMA InitIInv == Init => IInv
<1> SUFFICES ASSUME Init PROVE IInv
  OBVIOUS
<1>1. \A m \in Msgs : req[m] = Blank("new")
  BY DEF Init
<1>2. \A m \in Msgs : /\ req[m].phase = "new" /\ req[m].epoch = 0
                      /\ req[m].token = None /\ ~Live(m)
  BY <1>1 DEF Blank, Live
<1>3. ~Continuing
  BY <1>2 DEF Continuing
<1>4. Past /\ NoOrphan
  BY <1>2 DEF Init, Past, NoOrphan
<1>5. Submitted
  BY <1>2 DEF Init, Submitted
<1>6. Claimed /\ HandOver
  BY <1>3 DEF Init, Claimed, HandOver
<1>7. QED
  BY <1>4, <1>5, <1>6, InitTyped DEF IInv

\* A submission that is not a prompt.
LEMMA SubmittedKeeps ==
    ASSUME TypeOK, Submitted, NEW m \in Msgs, m \notin Prompts,
           calls' = calls \union {m}, slot' \subseteq slot \union {m},
           \A n \in Msgs \ {m} : req'[n].phase = req[n].phase,
           UNCHANGED <<prompt, view, lastSent>>
    PROVE  Submitted'
<1>1. prompt \in Prompts \union {None} /\ view.prompt \in Prompts \union {None}
  BY DEF TypeOK, View
<1>2. prompt' # None => prompt' \notin calls'
  BY <1>1 DEF Submitted
<1>3. view'.prompt # None /\ view'.prompt \in calls' => lastSent' = view'.prompt
  BY <1>1 DEF Submitted
<1>4. slot' \subseteq calls' /\ \A n \in Msgs : req'[n].phase # "new" => n \in calls'
  BY DEF Submitted
<1>5. QED BY <1>2, <1>3, <1>4 DEF Submitted

\* A typed line or a prompt: it starts a request only while nothing is claimed.
LEMMA SendKeeps ==
    ASSUME IInv, TypeOK', mounted, NEW m \in Msgs, SendMessage(m)
    PROVE  /\ Past' /\ NoOrphan' /\ (Continuing' => Continuing)
           /\ \A n \in Msgs \ {m} : req'[n].phase = req[n].phase
           /\ UNCHANGED <<interactiveActive, queued, submission, mounted>>
<1>1. RequestLayer /\ TypeOK
  BY DEF IInv, RequestLayer
<1>2. UNCHANGED <<epoch, generation, interactiveActive, queued, submission, mounted>>
  BY DEF SendMessage
<1>3. CASE ~requestActive /\ RunMessage(m, None)
  <2>1. Past' /\ NoOrphan' /\ (Continuing' => Continuing \/ None = generation)
    BY <1>1, <1>2, <1>3, StartKeeps
  <2>2. None # generation
    BY <1>1, ChatPanelAssumption DEF TypeOK
  <2>3. \A n \in Msgs \ {m} : req'[n].phase = req[n].phase
    BY <1>1, <1>3, RunMessageStarts
  <2>4. QED BY <1>2, <2>1, <2>2, <2>3
<1>4. CASE UNCHANGED <<requestActive, streaming, abortRef, req>>
  <2>1. \A n \in Msgs : /\ Live(n)' <=> Live(n)
                        /\ req'[n].epoch = req[n].epoch
                        /\ req'[n].token = req[n].token
                        /\ req'[n].aborted = req[n].aborted
    BY <1>4 DEF Live
  <2>2. Past' /\ NoOrphan' /\ (Continuing' <=> Continuing)
    BY <1>1, <1>2, <1>4, <2>1, FrameKeeps
  <2>3. QED BY <1>2, <1>4, <2>2
<1>5. QED
  BY <1>1, <1>3, <1>4, SendMessageEffect

LEMMA SendIInv == ASSUME IInv, TypeOK', NEW m \in Typed, Send(m) PROVE IInv'
<1>1. m \in Msgs /\ m \notin Prompts /\ mounted /\ SendMessage(m)
  BY ChatPanelAssumption DEF Send, CanCall, Msgs
<1>2. /\ Past' /\ NoOrphan' /\ (Continuing' => Continuing)
      /\ \A n \in Msgs \ {m} : req'[n].phase = req[n].phase
      /\ UNCHANGED <<interactiveActive, queued, submission, mounted>>
  BY <1>1, SendKeeps
<1>3. /\ calls' = calls \union {m}
      /\ UNCHANGED <<lastSent, prompt, view, effects, urgent, slot>>
  BY DEF Send, props, react
<1>4. Submitted'
  BY <1>1, <1>2, <1>3, SubmittedKeeps DEF IInv
<1>5. Claimed'
  BY <1>2, <1>3 DEF IInv, Claimed
<1>6. HandOver'
  BY <1>2, <1>3 DEF IInv, HandOver
<1>7. QED BY <1>2, <1>4, <1>5, <1>6 DEF IInv

LEMMA SendInteractiveIInv ==
    ASSUME IInv, TypeOK', NEW m \in Actions, SendInteractive(m) PROVE IInv'
<1>1. m \in Msgs /\ m \notin Prompts /\ mounted /\ Calm
  BY ChatPanelAssumption DEF SendInteractive, CanCall, Msgs
<1>2. /\ calls' = calls \union {m}
      /\ UNCHANGED <<lastSent, prompt, view, effects, urgent>>
  BY DEF SendInteractive, props, react
<1>3. RequestLayer /\ TypeOK
  BY DEF IInv, RequestLayer
<1>4. CASE ActLegacy(m)
  <2>1. /\ Past' /\ NoOrphan' /\ (Continuing' => Continuing)
        /\ \A n \in Msgs \ {m} : req'[n].phase = req[n].phase
        /\ UNCHANGED <<interactiveActive, queued, submission, mounted, slot>>
    BY <1>1, <1>4, SendKeeps DEF ActLegacy
  <2>2. Submitted'
    BY <1>1, <1>2, <2>1, SubmittedKeeps DEF IInv
  <2>3. Claimed'
    BY <2>1 DEF IInv, Claimed
  <2>4. HandOver'
    BY <1>2, <2>1 DEF IInv, HandOver
  <2>5. QED BY <2>1, <2>2, <2>3, <2>4 DEF IInv
<1>5. CASE ActRefused
  <2>1. UNCHANGED <<epoch, generation, mounted, requestActive, abortRef, req,
                    interactiveActive, queued, submission, slot>>
    BY <1>5 DEF ActRefused, refs, state
  <2>2. Past' /\ NoOrphan' /\ (Continuing' <=> Continuing)
    BY <1>3, <2>1, FrameKeeps DEF Live
  <2>3. Submitted'
    BY <1>1, <1>2, <2>1, SubmittedKeeps DEF IInv
  <2>4. Claimed' /\ HandOver'
    BY <1>1, <1>2, <2>1, <2>2 DEF IInv, Claimed, HandOver
  <2>5. QED BY <2>2, <2>3, <2>4 DEF IInv
<1>6. CASE ActStart(m)
  <2>1. /\ ~interactiveActive /\ ~requestActive /\ RunMessage(m, generation)
        /\ interactiveActive' = TRUE /\ submission' = "continuing"
        /\ UNCHANGED <<epoch, generation, queued, mounted, slot>>
    BY <1>6 DEF ActStart, Busy
  <2>2. generation \in Nat
    BY <1>3 DEF TypeOK
  <2>3. Past' /\ NoOrphan'
    BY <1>1, <1>3, <2>1, StartKeeps
  <2>4. \A n \in Msgs \ {m} : req'[n] = req[n]
    BY <1>1, <1>3, <2>1, <2>2, RunMessageStarts
  <2>5. queued = None
    BY <1>1, <2>1 DEF IInv, Claimed
  <2>6. Submitted'
    BY <1>1, <1>2, <2>1, <2>4, SubmittedKeeps DEF IInv
  <2>7. Claimed'
    BY <2>1, <2>5 DEF Claimed
  <2>8. HandOver'
    <3>1. mounted /\ ~(view.submission = "queued" /\ effects = "due")
      BY <1>1, <2>5 DEF IInv, HandOver, Calm
    <3>2. effects # "dispatch"
      BY <1>1 DEF Calm
    <3>3. QED BY <1>2, <2>1, <3>1, <3>2 DEF HandOver
  <2>9. QED BY <2>3, <2>6, <2>7, <2>8 DEF IInv
<1>7. CASE ActQueue(m)
  <2>1. /\ ~interactiveActive /\ interactiveActive' = TRUE
        /\ queued' = [msg |-> m, generation |-> generation]
        /\ slot' = slot \union {m}
        /\ UNCHANGED <<epoch, generation, mounted, requestActive, abortRef, req>>
    BY <1>7 DEF ActQueue
  <2>2. Past' /\ NoOrphan' /\ (Continuing' <=> Continuing)
    BY <1>3, <2>1, FrameKeeps DEF Live
  <2>3. queued' # None /\ queued'.msg = m
    <3>1. queued' \in [msg : Actions, generation : Nat]
      BY <1>3, <2>1 DEF TypeOK
    <3>2. QED
      BY <2>1, <3>1, ChatPanelAssumption
  <2>4. ~Continuing
    BY <1>1, <2>1 DEF IInv, Claimed
  <2>5. Submitted'
    BY <1>1, <1>2, <2>1, SubmittedKeeps DEF IInv
  <2>6. Claimed'
    BY <2>1, <2>2, <2>3, <2>4 DEF Claimed
  <2>7. HandOver'
    BY <1>1, <2>1, <2>3 DEF HandOver
  <2>8. QED BY <2>2, <2>5, <2>6, <2>7 DEF IInv
<1>8. QED
  BY <1>4, <1>5, <1>6, <1>7 DEF SendInteractive

\* What neither starts nor ends a request, nor touches the queue.
LEMMA QuietKeeps ==
    ASSUME IInv, TypeOK',
           UNCHANGED <<epoch, generation, mounted, requestActive, abortRef,
                       interactiveActive, queued, submission, slot>>,
           \A n \in Msgs : /\ Live(n)' <=> Live(n)
                           /\ req'[n].epoch = req[n].epoch
                           /\ req'[n].token = req[n].token
                           /\ req'[n].aborted = req[n].aborted
    PROVE  Past' /\ NoOrphan' /\ (Continuing' <=> Continuing) /\ Claimed'
<1>1. Past' /\ NoOrphan' /\ (Continuing' <=> Continuing)
  BY FrameKeeps DEF IInv, RequestLayer
<1>2. Claimed'
  BY <1>1 DEF IInv, Claimed
<1>3. QED BY <1>1, <1>2

LEMMA HostIInv ==
    ASSUME IInv, TypeOK',
           HostSwitchesQueue \/ \E p \in Prompts : HostPrompts(p)
    PROVE  IInv'
<1>1. /\ UNCHANGED <<epoch, generation, mounted, requestActive, abortRef, req,
                     interactiveActive, queued, submission, slot>>
      /\ UNCHANGED <<lastSent, view, effects, urgent, calls>>
      /\ prompt' = prompt \/ (prompt' \in Prompts /\ prompt' \notin calls)
  BY DEF HostSwitchesQueue, HostPrompts, CanCall, refs, state, react, history
<1>2. Past' /\ NoOrphan' /\ (Continuing' <=> Continuing) /\ Claimed'
  BY <1>1, QuietKeeps DEF Live
<1>3. Submitted'
  BY <1>1 DEF IInv, Submitted
<1>4. HandOver'
  BY <1>1, <1>2 DEF IInv, HandOver
<1>5. QED BY <1>2, <1>3, <1>4 DEF IInv

LEMMA EventIInv ==
    ASSUME IInv, TypeOK', NEW m \in Msgs, Respond(m) \/ ReadDone(m)
    PROVE  IInv'
<1>1. /\ UNCHANGED <<epoch, generation, mounted, requestActive, abortRef,
                     interactiveActive, queued, submission, slot>>
      /\ UNCHANGED <<lastSent, prompt, view, effects, urgent, calls>>
  BY DEF Respond, ReadDone, EventFrame, refs, state, props, react, history
<1>2. Live(m)
  BY DEF Respond, ReadDone, Answerable, Live
<1>3. req \in [Msgs -> Request] /\ req[m] \in Request
  BY DEF IInv, TypeOK
<1>4. /\ \A n \in Msgs \ {m} : req'[n] = req[n]
      /\ req'[m].phase \in {"open", "reading"}
      /\ req'[m].epoch = req[m].epoch
      /\ req'[m].token = req[m].token
      /\ req'[m].aborted = req[m].aborted
  <2>1. CASE Respond(m)
    BY <1>3, <2>1 DEF Respond, Request
  <2>2. CASE ReadDone(m)
    BY <1>3, <2>2 DEF ReadDone, Request
  <2>3. QED BY <2>1, <2>2
<1>5. \A n \in Msgs : /\ Live(n)' <=> Live(n)
                      /\ req'[n].epoch = req[n].epoch
                      /\ req'[n].token = req[n].token
                      /\ req'[n].aborted = req[n].aborted
  BY <1>2, <1>4 DEF Live
<1>6. Past' /\ NoOrphan' /\ (Continuing' <=> Continuing) /\ Claimed'
  BY <1>1, <1>5, QuietKeeps
<1>7. Submitted'
  <2>1. \A n \in Msgs : req'[n].phase # "new" => n \in calls
    BY <1>2, <1>4 DEF IInv, Submitted, Live
  <2>2. QED
    BY <1>1, <2>1 DEF IInv, Submitted
<1>8. HandOver'
  BY <1>1, <1>6 DEF IInv, HandOver
<1>9. QED BY <1>6, <1>7, <1>8 DEF IInv

LEMMA EndsIInv ==
    ASSUME IInv, TypeOK', NEW m \in Msgs, Ends(m)
    PROVE  IInv'
<1>1. PICK allow \in BOOLEAN : Settle(m, allow)
  BY DEF Ends, RespondError, ReadEnd, Breaks, EndStale, IInv, TypeOK, Request
<1>2. Live(m)
  BY DEF Ends, RespondError, ReadEnd, Breaks, EndStale, Answerable, Live
<1>3. UNCHANGED <<lastSent, prompt, view, effects, urgent, calls, slot>>
  BY DEF Ends, RespondError, ReadEnd, Breaks, EndStale, EventFrame, props, react, history
<1>4. UNCHANGED <<epoch, generation, queued, mounted>>
  BY <1>1 DEF Settle
<1>5. RequestLayer /\ TypeOK
  BY DEF IInv, RequestLayer
<1>6. /\ Past' /\ NoOrphan' /\ (Continuing' => Continuing)
      /\ (Continuing' /\ mounted => req[m].token # generation)
  BY <1>1, <1>2, <1>5, SettleKeeps
<1>7. Submitted'
  <2>1. \A n \in Msgs \ {m} : req'[n] = req[n]
    BY <1>1, <1>5, SettleEnds
  <2>2. m \in calls
    BY <1>2 DEF IInv, Submitted, Live
  <2>3. QED
    BY <1>3, <2>1, <2>2 DEF IInv, Submitted
<1>8. Claimed'
  <2>1. CASE mounted /\ req[m].token = generation
    <3>1. Continuing
      BY <1>2, <2>1 DEF Continuing
    <3>2. queued = None /\ ~Continuing'
      BY <1>6, <2>1, <3>1 DEF IInv, Claimed
    <3>3. submission' = "idle"
      BY <1>1, <2>1 DEF Settle
    <3>4. QED BY <1>4, <3>2, <3>3 DEF Claimed
  <2>2. CASE ~(mounted /\ req[m].token = generation)
    <3>1. UNCHANGED <<interactiveActive, submission>>
      BY <1>1, <2>2 DEF Settle
    <3>2. QED BY <1>3, <1>4, <1>6, <3>1 DEF IInv, Claimed
  <2>3. QED BY <2>1, <2>2
<1>9. HandOver'
  BY <1>3, <1>4, <1>6 DEF IInv, HandOver
<1>10. QED BY <1>6, <1>7, <1>8, <1>9 DEF IInv

LEMMA CancelIInv ==
    ASSUME IInv, TypeOK', Stop \/ Clear \/ Unmount
    PROVE  IInv'
<1>1. /\ Abort /\ epoch' = epoch + 1 /\ generation' = generation + 1
      /\ requestActive' = FALSE /\ queued' = None
  BY DEF Stop, Clear, Unmount, CancelCurrentRequest, CleanUp
<1>2. UNCHANGED <<lastSent, prompt, view, effects, calls, slot>>
  BY DEF Stop, Clear, Unmount, state, props, react, history
<1>3. mounted' => submission' = "idle" /\ urgent'
  BY DEF Stop, Clear, Unmount, CancelCurrentRequest
<1>4. RequestLayer /\ TypeOK
  BY DEF IInv, RequestLayer
<1>5. Past' /\ NoOrphan' /\ ~Continuing'
  BY <1>1, <1>4, CancelKeeps
<1>6. Submitted'
  <2>1. \A n \in Msgs : req'[n].phase = req[n].phase
    BY <1>1, <1>4, AbortMarks
  <2>2. QED
    BY <1>2, <2>1 DEF IInv, Submitted
<1>7. Claimed'
  BY <1>1, <1>3, <1>5 DEF Claimed
<1>8. HandOver'
  BY <1>1, <1>3, <1>5 DEF HandOver
<1>9. QED BY <1>5, <1>6, <1>7, <1>8 DEF IInv

LEMMA CommitIInv == ASSUME IInv, TypeOK', Commit PROVE IInv'
<1>1. /\ UNCHANGED <<epoch, generation, mounted, requestActive, abortRef, req,
                     interactiveActive, queued, submission, slot>>
      /\ UNCHANGED <<lastSent, prompt, calls>>
      /\ mounted /\ effects' = "due"
      /\ view'.submission = submission /\ view'.prompt = prompt
  BY DEF Commit, Rendered, refs, state, props, history
<1>2. Past' /\ NoOrphan' /\ (Continuing' <=> Continuing) /\ Claimed'
  BY <1>1, QuietKeeps DEF Live
<1>3. Submitted'
  BY <1>1 DEF IInv, Submitted
<1>4. HandOver'
  BY <1>1 DEF IInv, HandOver, Claimed
<1>5. QED BY <1>2, <1>3, <1>4 DEF IInv

LEMMA QueueEffectIInv == ASSUME IInv, TypeOK', QueueEffect PROVE IInv'
<1>1. /\ UNCHANGED <<epoch, mounted, requestActive, abortRef, req, slot>>
      /\ UNCHANGED <<lastSent, prompt, view, calls>>
      /\ mounted /\ effects = "due" /\ effects' = "dispatch"
  BY DEF QueueEffect, props, history
<1>2. Submitted'
  BY <1>1 DEF IInv, Submitted
<1>3. CASE view.switchedOff
  <2>1. generation' = generation + 1 /\ queued' = None /\ submission' = "idle"
    BY <1>3 DEF QueueEffect
  <2>2. Past' /\ NoOrphan' /\ ~Continuing'
    BY <1>1, <2>1, SwitchOffKeeps DEF IInv, RequestLayer
  <2>3. Claimed' /\ HandOver'
    BY <1>1, <2>1, <2>2 DEF Claimed, HandOver
  <2>4. QED BY <1>2, <2>2, <2>3 DEF IInv
<1>4. CASE ~view.switchedOff
  <2>1. UNCHANGED <<generation, interactiveActive, queued, submission>>
    BY <1>4 DEF QueueEffect
  <2>2. Past' /\ NoOrphan' /\ (Continuing' <=> Continuing) /\ Claimed'
    BY <1>1, <2>1, QuietKeeps DEF Live
  <2>3. HandOver'
    BY <1>1, <2>1, <2>2 DEF IInv, HandOver
  <2>4. QED BY <1>2, <2>2, <2>3 DEF IInv
<1>5. QED BY <1>3, <1>4

LEMMA DispatchIInv == ASSUME IInv, TypeOK', DispatchEffect PROVE IInv'
<1>1. /\ mounted /\ effects = "dispatch" /\ effects' = "prompt"
      /\ UNCHANGED <<lastSent, prompt, view, calls, slot>>
  BY DEF DispatchEffect, props, history
<1>2. TypeOK /\ RequestLayer
  BY DEF IInv, RequestLayer
<1>3. CASE DispatchNothing
  <2>1. UNCHANGED <<epoch, generation, mounted, requestActive, abortRef, req,
                    interactiveActive, queued, submission>>
    BY <1>3 DEF DispatchNothing, refs, state
  <2>2. Past' /\ NoOrphan' /\ (Continuing' <=> Continuing) /\ Claimed'
    BY <1>1, <2>1, QuietKeeps DEF Live
  <2>3. Submitted' /\ HandOver'
    BY <1>1, <2>1 DEF IInv, Submitted, HandOver
  <2>4. QED BY <2>2, <2>3 DEF IInv
<1>4. CASE Waiting /\ queued' = None /\ submission' = "idle"
           /\ UNCHANGED <<epoch, generation, mounted, requestActive, abortRef, req>>
  <2>1. ~Continuing
    BY <1>1, <1>4 DEF IInv, Claimed, HandOver, Waiting
  <2>2. Past' /\ NoOrphan' /\ (Continuing' <=> Continuing)
    BY <1>2, <1>4, FrameKeeps DEF Live
  <2>3. Claimed' /\ HandOver' /\ Submitted'
    BY <1>1, <1>4, <2>1, <2>2 DEF IInv, Claimed, HandOver, Submitted
  <2>4. QED BY <2>2, <2>3 DEF IInv
<1>5. CASE DispatchSends /\ ~Refused(TRUE)
  <2>1. /\ Deliverable /\ queued' = None /\ submission' = "continuing"
        /\ RunMessage(queued.msg, queued.generation)
        /\ UNCHANGED <<interactiveActive, epoch, generation, mounted>>
        /\ ~requestActive
    BY <1>5 DEF DispatchSends, Refused
  <2>2. queued # None /\ queued.msg \in Msgs /\ queued.generation = generation
    BY <1>2, <2>1 DEF Deliverable, TypeOK, Msgs
  <2>3. Past' /\ NoOrphan'
    BY <1>1, <1>2, <2>1, <2>2, StartKeeps
  <2>4. interactiveActive /\ queued.msg \in slot
    BY <1>1, <2>2 DEF IInv, Claimed
  <2>5. \A n \in Msgs \ {queued.msg} : req'[n] = req[n]
    BY <1>2, <2>1, <2>2, RunMessageStarts DEF TypeOK
  <2>6. Submitted'
    BY <1>1, <2>4, <2>5 DEF IInv, Submitted
  <2>7. Claimed' /\ HandOver'
    BY <1>1, <2>1, <2>4 DEF Claimed, HandOver
  <2>8. QED BY <2>3, <2>6, <2>7 DEF IInv
<1>6. QED
  <2>1. CASE DispatchDrops
    BY <1>4, <2>1 DEF DispatchDrops
  <2>2. CASE DispatchSends /\ Refused(TRUE)
    BY <1>4, <2>2 DEF DispatchSends
  <2>3. QED
    BY <1>3, <1>5, <2>1, <2>2 DEF DispatchEffect

LEMMA PromptIInv == ASSUME IInv, TypeOK', PromptEffect PROVE IInv'
<1>1. /\ mounted /\ effects' = "none" /\ UNCHANGED <<view, slot>>
  BY DEF PromptEffect
<1>2. TypeOK
  BY DEF IInv
<1>3. CASE PromptSends
  <2>1. /\ view.prompt # None /\ lastSent' = view.prompt
        /\ SendMessage(view.prompt) /\ calls' = calls \union {view.prompt}
        /\ prompt' = None
    BY <1>3 DEF PromptSends, PromptDue
  <2>2. view.prompt \in Prompts /\ view.prompt \in Msgs
    BY <1>2, <2>1 DEF TypeOK, View, Msgs
  <2>3. /\ Past' /\ NoOrphan' /\ (Continuing' => Continuing)
        /\ \A n \in Msgs \ {view.prompt} : req'[n].phase = req[n].phase
        /\ UNCHANGED <<interactiveActive, queued, submission, mounted>>
    BY <1>1, <2>1, <2>2, SendKeeps
  <2>4. Submitted'
    BY <1>1, <2>1, <2>3 DEF IInv, Submitted
  <2>5. Claimed' /\ HandOver'
    BY <1>1, <2>3 DEF IInv, Claimed, HandOver
  <2>6. QED BY <2>3, <2>4, <2>5 DEF IInv
<1>4. CASE PromptWaits
  <2>1. /\ UNCHANGED <<epoch, generation, mounted, requestActive, abortRef, req,
                       interactiveActive, queued, submission, calls, prompt>>
        /\ view.prompt # None => lastSent' = lastSent
    BY <1>4 DEF PromptWaits, refs, state
  <2>2. Past' /\ NoOrphan' /\ (Continuing' <=> Continuing) /\ Claimed'
    BY <1>1, <2>1, QuietKeeps DEF Live
  <2>3. Submitted' /\ HandOver'
    BY <1>1, <2>1 DEF IInv, Submitted, HandOver
  <2>4. QED BY <2>2, <2>3 DEF IInv
<1>5. QED BY <1>3, <1>4 DEF PromptEffect

LEMMA NextIInv == IInv /\ [Next]_vars => IInv'
<1> SUFFICES ASSUME IInv, [Next]_vars PROVE IInv'
  OBVIOUS
<1>1. TypeOK'
  BY NextTyped DEF IInv
<1>2. CASE UNCHANGED vars
  <2>1. UNCHANGED <<epoch, generation, mounted, requestActive, abortRef, req,
                    interactiveActive, queued, submission, slot>>
    BY <1>2 DEF vars, refs, state, history
  <2>2. UNCHANGED <<lastSent, prompt, view, effects, urgent, calls>>
    BY <1>2 DEF vars, props, react, history
  <2>3. Past' /\ NoOrphan' /\ (Continuing' <=> Continuing) /\ Claimed'
    BY <1>1, <2>1, QuietKeeps DEF Live
  <2>4. Submitted' /\ HandOver'
    BY <2>1, <2>2, <2>3 DEF IInv, Submitted, HandOver
  <2>5. QED BY <1>1, <2>3, <2>4 DEF IInv
<1>3. CASE Next
  BY <1>1, <1>3, SendIInv, SendInteractiveIInv, HostIInv, EventIInv, EndsIInv, CancelIInv,
     CommitIInv, QueueEffectIInv, DispatchIInv, PromptIInv DEF Next, React
<1>4. QED BY <1>2, <1>3

\* The inductive invariant holds in every reachable state.
THEOREM Inductive == Spec => []IInv
BY InitIInv, NextIInv, PTL DEF Spec

\* requestActiveRef is set exactly while a current request lives, and whatever
\* else is still open has been aborted, after any number of stops, clears,
\* queue switches and unmounts at any points (cancelCurrentRequest).
THEOREM NoRequestIsOrphaned == Spec => []NoOrphan
<1>1. IInv => NoOrphan
  BY DEF IInv
<1>2. QED BY <1>1, Inductive, PTL

-----------------------------------------------------------------------------
(* The refinement                                                           *)

\* The submission that runs is the one of abortRef.
RunsRef == RunningMsg = IF mounted /\ requestActive THEN abortRef ELSE None

LEMMA RunningIsRef == IInv => RunsRef
<1> SUFFICES ASSUME IInv
             PROVE  RunningMsg = IF mounted /\ requestActive THEN abortRef ELSE None
  BY DEF RunsRef
<1>1. \A m \in Msgs : Live(m) /\ Current(m) => mounted /\ requestActive /\ abortRef = m
  BY CurrentIsRef DEF IInv, RequestLayer, Current
<1>2. CASE mounted /\ requestActive
  <2>1. PICK m \in Msgs : Live(m) /\ Current(m)
    BY <1>2 DEF IInv, NoOrphan
  <2>2. RunningMsg = m
    BY <1>1, <2>1 DEF RunningMsg
  <2>3. QED BY <1>1, <1>2, <2>1, <2>2
<1>3. CASE ~(mounted /\ requestActive)
  BY <1>1, <1>3 DEF RunningMsg
<1>4. QED BY <1>2, <1>3

LEMMA RunningIsRefNext == IInv' => RunsRef'
BY RunningIsRef, PTL

\* What Submissions sees of the panel.
Waits == IF queued = None THEN None ELSE queued.msg
Taken == slot \union {m \in Msgs : req[m].phase # "new"}

LEMMA QueuedIsMsg ==
    ASSUME IInv
    PROVE  /\ Taken \subseteq calls
           /\ queued # None => queued.msg \in Msgs /\ queued.msg # None
           /\ None \notin Msgs
<1>1. None \notin Msgs
  BY ChatPanelAssumption
<1>2. queued # None => queued.msg \in Msgs
  BY DEF IInv, TypeOK, Msgs
<1>3. Taken \subseteq calls
  BY DEF IInv, Submitted, Taken
<1>4. QED BY <1>1, <1>2, <1>3

\* A step in which the panel's requests stay what they are, as Submissions sees them.
LEMMA Stutters ==
    ASSUME IInv, IInv', UNCHANGED <<mounted, requestActive, queued, slot>>,
           requestActive => UNCHANGED abortRef,
           \A n \in Msgs : (req'[n].phase = "new") <=> (req[n].phase = "new")
    PROVE  UNCHANGED Sub!vars
<1>1. RunningMsg' = RunningMsg
  <2>1. RunningMsg' = IF mounted' /\ requestActive' THEN abortRef' ELSE None
    BY RunningIsRefNext DEF RunsRef
  <2>2. QED BY <2>1, RunningIsRef DEF RunsRef
<1>2. Waits' = Waits /\ Taken' = Taken
  BY DEF Waits, Taken
<1>3. QED BY <1>1, <1>2 DEF Sub!vars, Waits, Taken

\* A request that starts while nothing runs and nothing waits.
LEMMA Starts ==
    ASSUME IInv, IInv', NEW m \in Msgs, m \notin calls, ~requestActive, queued = None,
           queued' = None, slot' = slot, mounted', requestActive', abortRef' = m,
           \A n \in Msgs \ {m} : req'[n].phase = req[n].phase,
           req'[m].phase = "open"
    PROVE  Sub!Start(m)
<1>1. RunningMsg = None
  BY RunningIsRef DEF RunsRef
<1>2. RunningMsg' = m
  <2>1. RunningMsg' = IF mounted' /\ requestActive' THEN abortRef' ELSE None
    BY RunningIsRefNext DEF RunsRef
  <2>2. QED BY <2>1
<1>3. Waits = None /\ Waits' = None
  BY DEF Waits
<1>4. m \notin Taken /\ Taken' = Taken \union {m}
  BY QueuedIsMsg DEF Taken
<1>5. QED BY <1>1, <1>2, <1>3, <1>4 DEF Sub!Start, Waits, Taken

LEMMA SendRefines ==
    ASSUME IInv, IInv', mounted, NEW m \in Msgs, m \notin calls, SendMessage(m), slot' = slot
    PROVE  Sub!Start(m) \/ UNCHANGED Sub!vars
<1>1. TypeOK /\ UNCHANGED <<queued, mounted>>
  BY DEF IInv, SendMessage
<1>2. CASE ~requestActive /\ ~interactiveActive /\ RunMessage(m, None)
  <2>1. /\ req'[m].phase = "open" /\ \A n \in Msgs \ {m} : req'[n] = req[n]
    <3>1. /\ req'[m] = [phase |-> "open", epoch |-> epoch, token |-> None,
                       sent |-> view.session, done |-> FALSE, aborted |-> FALSE,
                       conversation |-> conversation]
          /\ \A n \in Msgs \ {m} : req'[n] = req[n]
      BY <1>1, <1>2, RunMessageStarts
    <3>2. QED BY <3>1
  <2>2. requestActive' = TRUE /\ abortRef' = m
    BY <1>2 DEF RunMessage
  <2>3. queued = None
    BY <1>2 DEF IInv, Claimed
  <2>4. QED BY <1>1, <1>2, <2>1, <2>2, <2>3, Starts
<1>3. CASE UNCHANGED <<requestActive, streaming, abortRef, req>>
  BY <1>1, <1>3, Stutters
<1>4. QED BY <1>1, <1>2, <1>3, SendMessageEffect

LEMMA SendInteractiveRefines ==
    ASSUME IInv, IInv', NEW m \in Actions, SendInteractive(m)
    PROVE  Sub!Next \/ UNCHANGED Sub!vars
<1>1. m \in Msgs /\ m \notin calls /\ mounted /\ TypeOK
  BY DEF SendInteractive, CanCall, Msgs, IInv
<1>2. CASE ActLegacy(m)
  BY <1>1, <1>2, SendRefines DEF ActLegacy, Sub!Next
<1>3. CASE ActRefused
  <2>1. UNCHANGED <<mounted, requestActive, queued, slot, abortRef, req>>
    BY <1>3 DEF ActRefused, refs
  <2>2. QED BY <2>1, Stutters
<1>4. CASE ActStart(m)
  <2>1. /\ ~interactiveActive /\ ~requestActive /\ RunMessage(m, generation)
        /\ UNCHANGED <<queued, mounted, slot>> /\ generation \in Nat
    BY <1>1, <1>4 DEF ActStart, Busy, TypeOK
  <2>2. /\ req'[m] = [phase |-> "open", epoch |-> epoch, token |-> generation,
                     sent |-> view.session, done |-> FALSE, aborted |-> FALSE,
                     conversation |-> conversation]
        /\ \A n \in Msgs \ {m} : req'[n] = req[n]
    BY <1>1, <2>1, RunMessageStarts
  <2>3. req'[m].phase = "open"
    BY <2>2
  <2>4. requestActive' = TRUE /\ abortRef' = m
    BY <2>1 DEF RunMessage
  <2>5. queued = None
    BY <1>1, <2>1 DEF IInv, Claimed
  <2>6. Sub!Start(m)
    BY <1>1, <2>1, <2>2, <2>3, <2>4, <2>5, Starts
  <2>7. QED BY <1>1, <2>6 DEF Sub!Next
<1>5. CASE ActQueue(m)
  <2>1. /\ ~interactiveActive /\ queued' = [msg |-> m, generation |-> generation]
        /\ slot' = slot \union {m}
        /\ UNCHANGED <<mounted, requestActive, abortRef, req>>
    BY <1>5 DEF ActQueue
  <2>2. queued = None
    BY <1>1, <2>1 DEF IInv, Claimed
  <2>3. queued' # None /\ queued'.msg = m
    <3>1. queued' \in [msg : Actions, generation : Nat]
      BY <1>1, <2>1 DEF TypeOK
    <3>2. QED BY <2>1, <3>1, ChatPanelAssumption
  <2>4. RunningMsg' = RunningMsg
    <3>1. RunningMsg' = IF mounted' /\ requestActive' THEN abortRef' ELSE None
      BY RunningIsRefNext DEF RunsRef
    <3>2. QED BY <2>1, <3>1, RunningIsRef DEF RunsRef
  <2>5. Waits = None /\ Waits' = m
    BY <2>2, <2>3 DEF Waits
  <2>6. m \notin Taken /\ Taken' = Taken \union {m}
    BY <1>1, <2>1, QueuedIsMsg DEF Taken
  <2>7. Sub!Enqueue(m)
    BY <2>4, <2>5, <2>6 DEF Sub!Enqueue, Waits, Taken
  <2>8. QED BY <1>1, <2>7 DEF Sub!Next
<1>6. QED BY <1>2, <1>3, <1>4, <1>5 DEF SendInteractive

LEMMA EventRefines ==
    ASSUME IInv, IInv', NEW m \in Msgs, Respond(m) \/ ReadDone(m)
    PROVE  UNCHANGED Sub!vars
<1>1. UNCHANGED <<mounted, requestActive, queued, slot, abortRef>>
  BY DEF Respond, ReadDone, EventFrame, refs, state, history
<1>2. req \in [Msgs -> Request] /\ req[m] \in Request /\ req[m].phase # "new"
  BY DEF IInv, TypeOK, Respond, ReadDone, Answerable
<1>3. \A n \in Msgs : (req'[n].phase = "new") <=> (req[n].phase = "new")
  <2>1. CASE Respond(m)
    BY <1>2, <2>1 DEF Respond, Request
  <2>2. CASE ReadDone(m)
    BY <1>2, <2>2 DEF ReadDone, Request
  <2>3. QED BY <2>1, <2>2
<1>4. QED BY <1>1, <1>3, Stutters

LEMMA EndsRefines ==
    ASSUME IInv, IInv', NEW m \in Msgs, Ends(m)
    PROVE  Sub!Next \/ UNCHANGED Sub!vars
<1>1. PICK allow \in BOOLEAN : Settle(m, allow)
  BY DEF Ends, RespondError, ReadEnd, Breaks, EndStale, IInv, TypeOK, Request
<1>2. Live(m) /\ RequestLayer
  BY DEF Ends, RespondError, ReadEnd, Breaks, EndStale, Answerable, Live, IInv, RequestLayer
<1>3. UNCHANGED <<queued, mounted, slot>>
  BY <1>1 DEF Settle, Ends, RespondError, ReadEnd, Breaks, EndStale, EventFrame, history
<1>4. \A n \in Msgs : (req'[n].phase = "new") <=> (req[n].phase = "new")
  <2>1. req'[m].phase = "over" /\ \A n \in Msgs \ {m} : req'[n] = req[n]
    BY <1>1, SettleEnds DEF IInv
  <2>2. req[m].phase # "new"
    BY <1>2 DEF Live
  <2>3. QED BY <2>1, <2>2
<1>5. CASE ~Current(m)
  <2>1. UNCHANGED <<requestActive, abortRef>>
    BY <1>1, <1>5 DEF Settle
  <2>2. QED BY <1>3, <1>4, <2>1, Stutters
<1>6. CASE Current(m)
  <2>1. mounted /\ requestActive /\ abortRef = m /\ requestActive' = FALSE
    BY <1>1, <1>2, <1>6, CurrentIsRef DEF Settle, Current
  <2>2. RunningMsg = m /\ m # None
    BY <2>1, RunningIsRef, ChatPanelAssumption DEF RunsRef
  <2>3. RunningMsg' = None
    <3>1. RunningMsg' = IF mounted' /\ requestActive' THEN abortRef' ELSE None
      BY RunningIsRefNext DEF RunsRef
    <3>2. QED BY <2>1, <3>1
  <2>4. Waits' = Waits /\ Taken' = Taken
    BY <1>3, <1>4 DEF Waits, Taken
  <2>5. Sub!Finish
    BY <2>2, <2>3, <2>4 DEF Sub!Finish, Waits, Taken
  <2>6. QED BY <2>5 DEF Sub!Next
<1>7. QED BY <1>5, <1>6

LEMMA CancelRefines ==
    ASSUME IInv, IInv', Stop \/ Clear \/ Unmount
    PROVE  Sub!Next
<1>1. Abort /\ requestActive' = FALSE /\ queued' = None /\ slot' = slot
  BY DEF Stop, Clear, Unmount, CancelCurrentRequest, CleanUp, history
<1>2. RunningMsg' = None
  <2>1. RunningMsg' = IF mounted' /\ requestActive' THEN abortRef' ELSE None
    BY RunningIsRefNext DEF RunsRef
  <2>2. QED BY <1>1, <2>1
<1>3. \A n \in Msgs : req'[n].phase = req[n].phase
  BY <1>1, AbortMarks DEF IInv
<1>4. Waits' = None /\ Taken' = Taken
  BY <1>1, <1>3 DEF Waits, Taken
<1>5. QED BY <1>2, <1>4 DEF Sub!Next, Sub!Cancel, Waits, Taken

\* The slot is given up.
LEMMA Discards ==
    ASSUME IInv, IInv', queued' = None,
           UNCHANGED <<mounted, requestActive, abortRef, req, slot>>
    PROVE  Sub!Next \/ UNCHANGED Sub!vars
<1>1. CASE queued = None
  BY <1>1, Stutters
<1>2. CASE queued # None
  <2>1. RunningMsg' = RunningMsg
    <3>1. RunningMsg' = IF mounted' /\ requestActive' THEN abortRef' ELSE None
      BY RunningIsRefNext DEF RunsRef
    <3>2. QED BY <3>1, RunningIsRef DEF RunsRef
  <2>2. Waits # None /\ Waits' = None /\ Taken' = Taken
    BY <1>2, QueuedIsMsg DEF Waits, Taken
  <2>3. QED BY <2>1, <2>2 DEF Sub!Next, Sub!Discard, Waits, Taken
<1>3. QED BY <1>1, <1>2

LEMMA DispatchRefines ==
    ASSUME IInv, IInv', DispatchEffect
    PROVE  Sub!Next \/ UNCHANGED Sub!vars
<1>1. mounted /\ UNCHANGED slot /\ TypeOK
  BY DEF DispatchEffect, history, IInv
<1>2. CASE DispatchNothing
  <2>1. UNCHANGED <<mounted, requestActive, queued, abortRef, req>>
    BY <1>2 DEF DispatchNothing, refs
  <2>2. QED BY <1>1, <2>1, Stutters
<1>3. CASE DispatchDrops \/ (DispatchSends /\ Refused(TRUE))
  <2>1. queued' = None /\ UNCHANGED <<mounted, requestActive, abortRef, req>>
    BY <1>3 DEF DispatchDrops, DispatchSends
  <2>2. QED BY <1>1, <2>1, Discards
<1>4. CASE DispatchSends /\ ~Refused(TRUE)
  <2>1. /\ queued # None /\ queued' = None /\ ~requestActive /\ UNCHANGED mounted
        /\ RunMessage(queued.msg, queued.generation)
    BY <1>4 DEF DispatchSends, Refused, Deliverable
  <2>2. queued.msg \in Msgs /\ queued.generation \in Nat /\ queued.msg \in slot
    BY <1>1, <2>1 DEF IInv, TypeOK, Claimed, Msgs
  <2>3. /\ req'[queued.msg] =
             [phase |-> "open", epoch |-> epoch, token |-> queued.generation,
              sent |-> view.session, done |-> FALSE, aborted |-> FALSE,
              conversation |-> conversation]
        /\ \A n \in Msgs \ {queued.msg} : req'[n] = req[n]
    BY <1>1, <2>1, <2>2, RunMessageStarts
  <2>4. requestActive' = TRUE /\ abortRef' = queued.msg
    BY <2>1 DEF RunMessage
  <2>5. RunningMsg = None
    BY <2>1, RunningIsRef DEF RunsRef
  <2>6. RunningMsg' = queued.msg
    <3>1. RunningMsg' = IF mounted' /\ requestActive' THEN abortRef' ELSE None
      BY RunningIsRefNext DEF RunsRef
    <3>2. QED BY <1>1, <2>1, <2>4, <3>1
  <2>7. Waits = queued.msg /\ Waits # None /\ Waits' = None
    BY <2>1, QueuedIsMsg DEF Waits
  <2>8. Taken' = Taken
    <3>1. \A n \in Msgs \ {queued.msg} : req'[n].phase = req[n].phase
      BY <2>3
    <3>2. QED BY <1>1, <2>2, <3>1 DEF Taken
  <2>9. Sub!Promote
    BY <2>5, <2>6, <2>7, <2>8 DEF Sub!Promote, Waits, Taken
  <2>10. QED BY <2>9 DEF Sub!Next
<1>5. QED BY <1>2, <1>3, <1>4 DEF DispatchEffect

LEMMA PromptRefines ==
    ASSUME IInv, IInv', PromptEffect
    PROVE  Sub!Next \/ UNCHANGED Sub!vars
<1>1. mounted /\ UNCHANGED slot
  BY DEF PromptEffect
<1>2. CASE PromptSends
  <2>1. /\ view.prompt # None /\ lastSent # view.prompt /\ SendMessage(view.prompt)
    BY <1>2 DEF PromptSends, PromptDue
  <2>2. view.prompt \in Msgs /\ view.prompt \notin calls
    <3>1. view.prompt \in Prompts
      BY <2>1 DEF IInv, TypeOK, View
    <3>2. QED BY <2>1, <3>1 DEF IInv, Submitted, Msgs
  <2>3. PICK p \in Msgs : p = view.prompt
    BY <2>2
  <2>4. Sub!Start(p) \/ UNCHANGED Sub!vars
    <3>1. p \notin calls /\ SendMessage(p)
      BY <2>1, <2>2, <2>3
    <3>2. QED BY <1>1, <3>1, SendRefines
  <2>5. QED BY <2>4 DEF Sub!Next
<1>3. CASE PromptWaits
  <2>1. UNCHANGED <<mounted, requestActive, queued, abortRef, req>>
    BY <1>3 DEF PromptWaits, refs
  <2>2. QED BY <1>1, <2>1, Stutters
<1>4. QED BY <1>2, <1>3 DEF PromptEffect

LEMMA StepRefines == IInv /\ IInv' /\ [Next]_vars => [Sub!Next]_(Sub!vars)
<1> SUFFICES ASSUME IInv, IInv', [Next]_vars PROVE Sub!Next \/ UNCHANGED Sub!vars
  OBVIOUS
<1>1. ASSUME NEW m \in Typed, Send(m) PROVE Sub!Next \/ UNCHANGED Sub!vars
  <2>1. m \in Msgs /\ m \notin calls /\ mounted /\ SendMessage(m) /\ slot' = slot
    BY <1>1 DEF Send, CanCall, Msgs
  <2>2. QED BY <2>1, SendRefines DEF Sub!Next
<1>2. ASSUME \/ HostSwitchesQueue \/ Commit \/ UNCHANGED vars
             \/ \E p \in Prompts : HostPrompts(p)
      PROVE  UNCHANGED Sub!vars
  <2>1. UNCHANGED <<mounted, requestActive, queued, slot, abortRef, req>>
    BY <1>2 DEF HostSwitchesQueue, HostPrompts, Commit, vars, refs, history
  <2>2. QED BY <2>1, Stutters
<1>3. ASSUME QueueEffect PROVE Sub!Next \/ UNCHANGED Sub!vars
  <2>1. UNCHANGED <<mounted, requestActive, abortRef, req, slot>>
    BY <1>3 DEF QueueEffect, history
  <2>2. queued' = None \/ queued' = queued
    BY <1>3 DEF QueueEffect
  <2>3. QED BY <2>1, <2>2, Discards, Stutters
<1>4. QED
  BY <1>1, <1>2, <1>3, SendInteractiveRefines, EventRefines, EndsRefines, CancelRefines,
     DispatchRefines, PromptRefines DEF Next, React

LEMMA InitRefines == Init => Sub!Init
<1> SUFFICES ASSUME Init PROVE Sub!Init
  OBVIOUS
<1>1. RunningMsg = None
  BY InitIInv, RunningIsRef DEF RunsRef, Init
<1>2. \A m \in Msgs : req[m].phase = "new"
  <2>1. \A m \in Msgs : req[m] = Blank("new")
    BY DEF Init
  <2>2. QED BY <2>1 DEF Blank
<1>3. Waits = None /\ Taken = {}
  BY <1>2 DEF Init, Waits, Taken
<1>4. QED BY <1>1, <1>3 DEF Sub!Init, Waits, Taken

\* However clicks, typed lines, prompts, stops and the queue switch fall between
\* two commits, for any number of them: the panel runs one request at a time,
\* sends every submission at most once, and lets nothing overtake the queued one
\* (runMessage, sendInteractiveMessage and the effect that hands the slot over).
THEOREM Refinement == Spec => ImplementsSubmissions
BY StepRefines, InitRefines, Inductive, PTL DEF Spec, ImplementsSubmissions, Sub!Spec

-----------------------------------------------------------------------------
(* What a commit shows, and the sessions of the requests: the second layer. *)

\* While a current request lives the panel streams, and so does every commit
\* made since its answer began.
Shown ==
    mounted =>
        /\ streaming <=> requestActive
        /\ \A m \in Msgs : Current(m) /\ req[m].phase = "reading" => view.streaming

\* A commit that does not stream shows the session as it is, unless a click in
\* between has cleared it.
SessionShown == mounted /\ ~urgent /\ ~view.streaming => view.session = session

\* The slot holds a message of this generation, a click that empties it is still
\* to be committed, and nothing runs when it is handed over.
SlotIsNext ==
    mounted /\ queued # None =>
        /\ ~urgent
        /\ queued.generation = generation
        /\ (/\ view.submission = "queued" /\ effects \in {"due", "dispatch"}
            /\ ~view.streaming) => ~requestActive

\* A current request belongs to this conversation.
OwnConversation ==
    /\ \A m \in Msgs : Live(m) /\ Current(m) =>
         /\ req[m].conversation = conversation
         /\ req[m].sent \in {None, conversation} \/ strayed
    /\ ClearIsFinal

ShownInv == Shown /\ SessionShown /\ SlotIsNext /\ OwnConversation

LEMMA InitShown == Init => ShownInv
<1> SUFFICES ASSUME Init PROVE ShownInv
  OBVIOUS
<1>1. \A m \in Msgs : req[m].phase = "new" /\ ~Live(m)
  <2>1. \A m \in Msgs : req[m] = Blank("new")
    BY DEF Init
  <2>2. QED BY <2>1 DEF Blank, Live
<1>2. QED
  BY <1>1 DEF Init, ShownInv, Shown, SessionShown, SlotIsNext, OwnConversation, ClearIsFinal

\* No request is current unless requestActiveRef says so.
LEMMA NoneCurrent ==
    ASSUME IInv, ~requestActive, NEW m \in Msgs
    PROVE  ~(Live(m) /\ Current(m))
BY CurrentIsRef DEF IInv, RequestLayer

LEMMA NoneCurrentNext ==
    ASSUME IInv', ~requestActive', NEW m \in Msgs
    PROVE  ~(Live(m)' /\ Current(m)')
<1>1. mounted' => (requestActive' <=> \E n \in Msgs : Live(n)' /\ Current(n)')
  BY DEF IInv, NoOrphan
<1>2. QED BY <1>1 DEF Current

\* A step that leaves the requests alone, and what is shown of them.
LEMMA FrameShows ==
    ASSUME ShownInv,
           UNCHANGED <<mounted, streaming, requestActive, view, epoch, req, session,
                       conversation, strayed, urgent>>
    PROVE  Shown' /\ SessionShown' /\ OwnConversation'
BY DEF ShownInv, Shown, SessionShown, OwnConversation, ClearIsFinal, Live, Current

\* The start of a request, with a session of this conversation.
LEMMA StartShows ==
    ASSUME IInv, ShownInv, mounted, ~requestActive,
           NEW m \in Msgs, NEW token \in Nat \union {None}, RunMessage(m, token),
           view.session \in {None, conversation} \/ strayed', strayed => strayed',
           UNCHANGED <<epoch, mounted, view, session, conversation, urgent>>
    PROVE  Shown' /\ SessionShown' /\ OwnConversation'
<1>1. /\ req'[m] = [phase |-> "open", epoch |-> epoch, token |-> token,
                   sent |-> view.session, done |-> FALSE, aborted |-> FALSE,
                   conversation |-> conversation]
      /\ \A n \in Msgs \ {m} : req'[n] = req[n]
  BY RunMessageStarts DEF IInv
<1>2. /\ req'[m].phase = "open" /\ req'[m].sent = view.session
      /\ req'[m].conversation = conversation
  BY <1>1
<1>3. requestActive' = TRUE /\ streaming' = TRUE
  BY DEF RunMessage
<1>4. \A n \in Msgs \ {m} : (Live(n)' <=> Live(n)) /\ (Current(n)' <=> Current(n))
  BY <1>1 DEF Live, Current
<1>5. Shown'
  BY <1>1, <1>2, <1>3, <1>4 DEF ShownInv, Shown
<1>6. SessionShown'
  BY DEF ShownInv, SessionShown
<1>7. ClearIsFinal'
  BY DEF ShownInv, OwnConversation, ClearIsFinal
<1>8. OwnConversation'
  BY <1>2, <1>4, <1>7, NoneCurrent DEF OwnConversation
<1>9. QED BY <1>5, <1>6, <1>8

LEMMA SendShows ==
    ASSUME IInv, ShownInv, mounted, NEW m \in Msgs, SendMessage(m),
           view.session \in {None, conversation} \/ strayed' \/ view.streaming,
           strayed => strayed',
           UNCHANGED <<view, conversation, urgent>>
    PROVE  /\ Shown' /\ SessionShown' /\ OwnConversation'
           /\ queued # None => requestActive' = requestActive
<1>1. TypeOK /\ UNCHANGED <<epoch, mounted, session, queued>>
  BY DEF IInv, SendMessage
<1>2. CASE /\ ~requestActive /\ ~interactiveActive /\ ~view.streaming
           /\ RunMessage(m, None)
  <2>1. Shown' /\ SessionShown' /\ OwnConversation'
    BY <1>1, <1>2, StartShows
  <2>2. queued = None
    BY <1>2 DEF IInv, Claimed
  <2>3. QED BY <2>1, <2>2
<1>3. CASE UNCHANGED <<requestActive, streaming, abortRef, req>>
  <2>1. Shown' /\ SessionShown'
    BY <1>1, <1>3 DEF ShownInv, Shown, SessionShown, Current
  <2>2. OwnConversation'
    BY <1>1, <1>3 DEF ShownInv, OwnConversation, ClearIsFinal, Live, Current
  <2>3. QED BY <1>3, <2>1, <2>2
<1>4. QED BY <1>1, <1>2, <1>3, SendMessageEffect

\* What a click sees before it sends: the session of this conversation.
LEMMA CalmSession ==
    ASSUME ShownInv, mounted, ~urgent, ~view.streaming
    PROVE  view.session = session /\ (view.session \in {None, conversation} \/ strayed)
BY DEF ShownInv, SessionShown, OwnConversation, ClearIsFinal

LEMMA SendShown ==
    ASSUME IInv, ShownInv, NEW m \in Typed, Send(m) PROVE ShownInv'
<1>1. /\ m \in Msgs /\ mounted /\ ~urgent /\ ~view.streaming /\ SendMessage(m)
      /\ UNCHANGED <<view, conversation, urgent, strayed, effects>>
  BY DEF Send, CanCall, Calm, Msgs, react
<1>2. /\ Shown' /\ SessionShown' /\ OwnConversation'
      /\ queued # None => requestActive' = requestActive
  BY <1>1, CalmSession, SendShows
<1>3. UNCHANGED <<mounted, queued, generation>>
  BY <1>1 DEF SendMessage
<1>4. SlotIsNext'
  BY <1>1, <1>2, <1>3 DEF ShownInv, SlotIsNext
<1>5. QED BY <1>2, <1>4 DEF ShownInv

LEMMA SendInteractiveShown ==
    ASSUME IInv, ShownInv, NEW m \in Actions, SendInteractive(m) PROVE ShownInv'
<1>1. /\ m \in Msgs /\ mounted /\ Calm /\ ~urgent /\ TypeOK
      /\ UNCHANGED <<view, conversation, urgent, strayed, effects>>
  BY DEF SendInteractive, CanCall, Calm, Msgs, react, IInv
<1>2. CASE ActLegacy(m)
  <2>1. /\ Shown' /\ SessionShown' /\ OwnConversation'
        /\ queued # None => requestActive' = requestActive
    BY <1>1, <1>2, CalmSession, SendShows DEF ActLegacy
  <2>2. UNCHANGED <<mounted, queued, generation>>
    BY <1>2 DEF ActLegacy, SendMessage
  <2>3. SlotIsNext'
    BY <1>1, <2>1, <2>2 DEF ShownInv, SlotIsNext
  <2>4. QED BY <2>1, <2>3 DEF ShownInv
<1>3. CASE ActRefused
  <2>1. UNCHANGED <<mounted, streaming, requestActive, epoch, req, session, queued,
                    generation>>
    BY <1>3 DEF ActRefused, refs, state
  <2>2. SlotIsNext'
    BY <1>1, <2>1 DEF ShownInv, SlotIsNext
  <2>3. QED BY <1>1, <2>1, <2>2, FrameShows DEF ShownInv
<1>4. CASE ActStart(m)
  <2>1. /\ ~interactiveActive /\ ~requestActive /\ ~view.streaming
        /\ RunMessage(m, generation)
        /\ UNCHANGED <<epoch, queued, mounted, session>> /\ generation \in Nat
    BY <1>1, <1>4 DEF ActStart, Busy, TypeOK
  <2>2. view.session \in {None, conversation} \/ strayed
    BY <1>1, <2>1, CalmSession
  <2>3. Shown' /\ SessionShown' /\ OwnConversation'
    BY <1>1, <2>1, <2>2, StartShows
  <2>4. queued' = None
    BY <1>1, <2>1 DEF IInv, Claimed
  <2>5. SlotIsNext'
    BY <2>4 DEF SlotIsNext
  <2>6. QED BY <2>3, <2>5 DEF ShownInv
<1>5. CASE ActQueue(m)
  <2>1. /\ ~interactiveActive /\ queued' = [msg |-> m, generation |-> generation]
        /\ UNCHANGED <<mounted, streaming, requestActive, epoch, req, session, generation>>
    BY <1>5 DEF ActQueue
  <2>2. queued = None
    BY <1>1, <2>1 DEF IInv, Claimed
  <2>3. ~(view.submission = "queued" /\ effects \in {"due", "dispatch"})
    BY <1>1, <2>2 DEF IInv, HandOver, Calm
  <2>4. queued'.generation = generation'
    BY <1>1, <2>1
  <2>5. SlotIsNext'
    BY <1>1, <2>3, <2>4 DEF SlotIsNext
  <2>6. QED BY <1>1, <2>1, <2>5, FrameShows DEF ShownInv
<1>6. QED BY <1>2, <1>3, <1>4, <1>5 DEF SendInteractive

LEMMA EventShown ==
    ASSUME IInv, ShownInv, NEW m \in Msgs, Respond(m) \/ ReadDone(m)
    PROVE  ShownInv'
<1>1. /\ UNCHANGED <<mounted, streaming, requestActive, view, epoch, queued, generation,
                     conversation, strayed, urgent, effects>>
      /\ mounted /\ Current(m)
  BY DEF Respond, ReadDone, Answerable, Current, EventFrame, refs, state, react, history
<1>2. req \in [Msgs -> Request] /\ req[m] \in Request
  BY DEF IInv, TypeOK
<1>3. /\ \A n \in Msgs \ {m} : req'[n] = req[n]
      /\ req'[m].epoch = req[m].epoch /\ req'[m].sent = req[m].sent
      /\ req'[m].conversation = req[m].conversation
  <2>1. CASE Respond(m)
    BY <1>2, <2>1 DEF Respond, Request
  <2>2. CASE ReadDone(m)
    BY <1>2, <2>2 DEF ReadDone, Request
  <2>3. QED BY <2>1, <2>2
<1>4. Live(m) /\ view.streaming
  BY <1>1 DEF Respond, ReadDone, Answerable, Live, ShownInv, Shown
<1>5. \A n \in Msgs : Current(n)' <=> Current(n)
  BY <1>1, <1>3 DEF Current
<1>6. Shown' /\ SessionShown'
  BY <1>1, <1>3, <1>4, <1>5 DEF ShownInv, Shown, SessionShown
<1>7. SlotIsNext'
  BY <1>1 DEF ShownInv, SlotIsNext
<1>8. /\ req[m].conversation = conversation
      /\ req[m].sent \in {None, conversation} \/ strayed
  BY <1>1, <1>4 DEF ShownInv, OwnConversation
<1>9. ClearIsFinal'
  <2>1. CASE Respond(m)
    BY <1>1, <2>1 DEF Respond, state, ShownInv, OwnConversation, ClearIsFinal
  <2>2. CASE ReadDone(m)
    BY <1>1, <1>8, <2>2 DEF ReadDone, ClearIsFinal
  <2>3. QED BY <2>1, <2>2
<1>10. OwnConversation'
  <2>1. \A n \in Msgs \ {m} : Live(n)' <=> Live(n)
    BY <1>3 DEF Live
  <2>2. QED
    BY <1>1, <1>3, <1>5, <1>8, <1>9, <2>1 DEF ShownInv, OwnConversation
<1>11. QED BY <1>6, <1>7, <1>10 DEF ShownInv

LEMMA EndsShown ==
    ASSUME IInv, IInv', ShownInv, NEW m \in Msgs, Ends(m)
    PROVE  ShownInv'
<1>1. PICK allow \in BOOLEAN : Settle(m, allow)
  BY DEF Ends, RespondError, ReadEnd, Breaks, EndStale, IInv, TypeOK, Request
<1>2. Live(m) /\ UNCHANGED <<view, session, conversation, strayed, urgent, effects>>
  BY DEF Ends, RespondError, ReadEnd, Breaks, EndStale, Answerable, Live, EventFrame, react,
         history
<1>3. UNCHANGED <<epoch, generation, queued, mounted>>
  BY <1>1 DEF Settle
<1>4. /\ req'[m].phase = "over"
      /\ \A n \in Msgs \ {m} : req'[n] = req[n]
  BY <1>1, SettleEnds DEF IInv
<1>5. \A n \in Msgs \ {m} : (Live(n)' <=> Live(n)) /\ (Current(n)' <=> Current(n))
  BY <1>3, <1>4 DEF Live, Current
<1>6. \/ requestActive' = FALSE /\ streaming' = FALSE
      \/ UNCHANGED <<requestActive, streaming>>
  BY <1>1 DEF Settle
<1>7. Shown'
  BY <1>2, <1>3, <1>4, <1>5, <1>6 DEF ShownInv, Shown
<1>8. SessionShown'
  BY <1>2, <1>3 DEF ShownInv, SessionShown
<1>9. SlotIsNext'
  BY <1>2, <1>3, <1>6 DEF ShownInv, SlotIsNext
<1>10. OwnConversation'
  <2>1. ~Live(m)'
    BY <1>4 DEF Live
  <2>2. ClearIsFinal'
    BY <1>2 DEF ShownInv, OwnConversation, ClearIsFinal
  <2>3. QED
    BY <1>2, <1>4, <1>5, <2>1, <2>2 DEF ShownInv, OwnConversation
<1>11. QED BY <1>7, <1>8, <1>9, <1>10 DEF ShownInv

LEMMA CancelShown ==
    ASSUME IInv, IInv', ShownInv, Stop \/ Clear \/ Unmount
    PROVE  ShownInv'
<1>1. /\ requestActive' = FALSE /\ queued' = None
      /\ mounted' => streaming' = FALSE /\ urgent'
      /\ UNCHANGED strayed
  BY DEF Stop, Clear, Unmount, CancelCurrentRequest, CleanUp, history
<1>2. \A m \in Msgs : ~(Live(m)' /\ Current(m)')
  BY <1>1, NoneCurrentNext
<1>3. Shown'
  BY <1>1, <1>2 DEF Shown, Live
<1>4. SessionShown' /\ SlotIsNext'
  BY <1>1 DEF SessionShown, SlotIsNext
<1>5. ClearIsFinal'
  BY <1>1 DEF Stop, Clear, Unmount, state, history, ShownInv, OwnConversation, ClearIsFinal
<1>6. QED BY <1>2, <1>3, <1>4, <1>5 DEF ShownInv, OwnConversation

LEMMA CommitShown == ASSUME IInv, ShownInv, Commit PROVE ShownInv'
<1>1. /\ UNCHANGED <<epoch, generation, mounted, requestActive, req, queued, streaming,
                     session, conversation, strayed>>
      /\ mounted /\ urgent' = FALSE
      /\ view'.streaming = streaming /\ view'.session = session
  BY DEF Commit, Rendered, refs, state, history
<1>2. \A m \in Msgs : Current(m)' <=> Current(m)
  BY <1>1 DEF Current
<1>3. Shown'
  BY <1>1, <1>2, NoneCurrent DEF ShownInv, Shown, Live
<1>4. SessionShown'
  BY <1>1 DEF SessionShown
<1>5. SlotIsNext'
  BY <1>1 DEF ShownInv, Shown, SlotIsNext
<1>6. OwnConversation'
  BY <1>1, <1>2 DEF ShownInv, OwnConversation, ClearIsFinal, Live
<1>7. QED BY <1>3, <1>4, <1>5, <1>6 DEF ShownInv

LEMMA QueueEffectShown == ASSUME IInv, ShownInv, QueueEffect PROVE ShownInv'
<1>1. /\ UNCHANGED <<epoch, mounted, requestActive, req, streaming, session, view,
                     conversation, strayed, urgent>>
      /\ effects = "due"
      /\ queued' = None \/ UNCHANGED <<queued, generation>>
  BY DEF QueueEffect, history
<1>2. SlotIsNext'
  BY <1>1 DEF ShownInv, SlotIsNext
<1>3. QED BY <1>1, <1>2, FrameShows DEF ShownInv

\* The message of the slot is sent: nothing runs when it is handed over.
LEMMA HandOverSends ==
    ASSUME IInv, ShownInv, DispatchEffect, DispatchSends
    PROVE  /\ ~Refused(TRUE) /\ queued.msg \in Msgs /\ queued.generation \in Nat
           /\ RunMessage(queued.msg, queued.generation)
           /\ view.session = session /\ (view.session \in {None, conversation} \/ strayed)
<1>1. /\ mounted /\ effects = "dispatch" /\ queued # None
      /\ view.submission = "queued" /\ ~view.streaming
  BY DEF DispatchEffect, DispatchSends, Deliverable, Waiting
<1>2. ~requestActive /\ ~urgent
  BY <1>1 DEF ShownInv, SlotIsNext
<1>3. ~Refused(TRUE)
  BY <1>1, <1>2 DEF Refused
<1>4. RunMessage(queued.msg, queued.generation)
  BY <1>3 DEF DispatchSends
<1>5. queued.msg \in Msgs /\ queued.generation \in Nat
  BY <1>1 DEF IInv, TypeOK, Msgs
<1>6. QED BY <1>1, <1>2, <1>3, <1>4, <1>5, CalmSession

LEMMA DispatchShown == ASSUME IInv, ShownInv, DispatchEffect PROVE ShownInv'
<1>1. /\ mounted /\ effects' = "prompt"
      /\ UNCHANGED <<view, urgent, conversation, strayed>>
  BY DEF DispatchEffect, history
<1>2. CASE DispatchNothing \/ DispatchDrops
  <2>1. /\ UNCHANGED <<mounted, streaming, requestActive, epoch, req, session, generation>>
        /\ queued' = None \/ queued' = queued
    BY <1>2 DEF DispatchNothing, DispatchDrops, refs, state
  <2>2. SlotIsNext'
    BY <1>1, <2>1 DEF ShownInv, SlotIsNext
  <2>3. QED BY <1>1, <2>1, <2>2, FrameShows DEF ShownInv
<1>3. CASE DispatchSends
  <2>1. /\ ~Refused(TRUE) /\ queued.msg \in Msgs /\ queued.generation \in Nat
        /\ RunMessage(queued.msg, queued.generation)
        /\ view.session \in {None, conversation} \/ strayed
    BY <1>3, HandOverSends
  <2>2. ~requestActive /\ queued' = None /\ UNCHANGED <<epoch, mounted, session>>
    BY <1>3, <2>1 DEF DispatchSends, Refused
  <2>3. Shown' /\ SessionShown' /\ OwnConversation'
    BY <1>1, <2>1, <2>2, StartShows
  <2>4. SlotIsNext'
    BY <2>2 DEF SlotIsNext
  <2>5. QED BY <2>3, <2>4 DEF ShownInv
<1>4. QED BY <1>2, <1>3 DEF DispatchEffect

LEMMA PromptShown == ASSUME IInv, ShownInv, PromptEffect PROVE ShownInv'
<1>1. /\ mounted /\ effects' = "none" /\ UNCHANGED <<view, urgent, conversation>>
  BY DEF PromptEffect
<1>2. CASE PromptSends
  <2>1. /\ view.prompt # None /\ SendMessage(view.prompt)
        /\ strayed' = (strayed \/ view.session \notin {None, conversation})
    BY <1>2 DEF PromptSends, PromptDue
  <2>2. PICK p \in Msgs : p = view.prompt
    BY <2>1 DEF IInv, TypeOK, View, Msgs
  <2>3. view.session \in {None, conversation} \/ strayed'
    BY <2>1
  <2>4. strayed => strayed'
    BY <2>1
  <2>5. SendMessage(p)
    BY <2>1, <2>2
  <2>6. Shown' /\ SessionShown' /\ OwnConversation'
    BY <1>1, <2>3, <2>4, <2>5, SendShows
  <2>7. UNCHANGED <<mounted, queued, generation>>
    BY <2>1 DEF SendMessage
  <2>8. SlotIsNext'
    BY <1>1, <2>7 DEF ShownInv, SlotIsNext
  <2>9. QED BY <2>6, <2>8 DEF ShownInv
<1>3. CASE PromptWaits
  <2>1. UNCHANGED <<mounted, streaming, requestActive, epoch, req, session, queued,
                    generation, strayed>>
    BY <1>3 DEF PromptWaits, refs, state
  <2>2. SlotIsNext'
    BY <1>1, <2>1 DEF ShownInv, SlotIsNext
  <2>3. QED BY <1>1, <2>1, <2>2, FrameShows DEF ShownInv
<1>4. QED BY <1>2, <1>3 DEF PromptEffect

LEMMA NextShown == IInv /\ IInv' /\ ShownInv /\ [Next]_vars => ShownInv'
<1> SUFFICES ASSUME IInv, IInv', ShownInv, [Next]_vars PROVE ShownInv'
  OBVIOUS
<1>1. ASSUME \/ HostSwitchesQueue \/ UNCHANGED vars
             \/ \E p \in Prompts : HostPrompts(p)
      PROVE  ShownInv'
  <2>1. UNCHANGED <<mounted, streaming, requestActive, view, epoch, req, session,
                    conversation, strayed, urgent, queued, generation, effects>>
    BY <1>1 DEF HostSwitchesQueue, HostPrompts, vars, refs, state, react, history
  <2>2. SlotIsNext'
    BY <2>1 DEF ShownInv, SlotIsNext
  <2>3. QED BY <2>1, <2>2, FrameShows DEF ShownInv
<1>2. QED
  BY <1>1, SendShown, SendInteractiveShown, EventShown, EndsShown, CancelShown, CommitShown,
     QueueEffectShown, DispatchShown, PromptShown DEF Next, React

LEMMA InductiveShown == Spec => []ShownInv
BY InitIInv, InitShown, NextIInv, NextShown, Inductive, PTL DEF Spec

\* After a clear, neither a stream that goes on nor a late done brings the
\* session of an earlier conversation back (clear and the done case of
\* useChatPanel), unless a prompt that was already due carried it over.
THEOREM ClearsAreFinal == Spec => []ClearIsFinal
BY InductiveShown, PTL DEF ShownInv, OwnConversation

\* What a step does to the slot: it leaves it alone, fills it while it is empty,
\* gives it up with its generation, or hands its message over.
LEMMA SlotLeft ==
    ASSUME IInv, ShownInv, [Next]_vars, queued # None, queued' = None
    PROVE  \/ req'[queued.msg].phase = "open"
           \/ generation' # generation
           \/ ~handoffAllowed
<1>1. generation \in Nat /\ TypeOK
  BY DEF IInv, TypeOK
<1>2. CASE Stop \/ Clear \/ Unmount
  <2>1. generation' = generation + 1
    BY <1>2 DEF Stop, Clear, Unmount, CancelCurrentRequest, CleanUp
  <2>2. QED BY <1>1, <2>1
<1>3. CASE QueueEffect
  <2>1. generation' = generation + 1
    BY <1>3 DEF QueueEffect
  <2>2. QED BY <1>1, <2>1
<1>4. CASE DispatchEffect
  <2>1. CASE DispatchNothing
    BY <2>1 DEF DispatchNothing, refs
  <2>2. CASE DispatchDrops
    <3>1. queued.generation = generation
      BY <1>4 DEF DispatchEffect, ShownInv, SlotIsNext
    <3>2. QED BY <2>2, <3>1 DEF DispatchDrops, Deliverable
  <2>3. CASE DispatchSends
    <3>1. /\ queued.msg \in Msgs /\ queued.generation \in Nat
          /\ RunMessage(queued.msg, queued.generation)
      BY <1>4, <2>3, HandOverSends
    <3>2. req'[queued.msg] =
            [phase |-> "open", epoch |-> epoch, token |-> queued.generation,
             sent |-> view.session, done |-> FALSE, aborted |-> FALSE,
             conversation |-> conversation]
      BY <1>1, <3>1, RunMessageStarts
    <3>3. QED BY <3>2
  <2>4. QED BY <1>4, <2>1, <2>2, <2>3 DEF DispatchEffect
<1>5. ASSUME NEW m \in Typed, Send(m) PROVE FALSE
  BY <1>5 DEF Send, SendMessage
<1>6. ASSUME NEW m \in Actions, SendInteractive(m) PROVE FALSE
  <2>1. queued' = queued \/ queued' = [msg |-> m, generation |-> generation]
    BY <1>6 DEF SendInteractive, ActLegacy, SendMessage, ActRefused, ActStart, ActQueue, refs
  <2>2. [msg |-> m, generation |-> generation] # None
    BY <1>1, ChatPanelAssumption
  <2>3. QED BY <2>1, <2>2
<1>7. ASSUME NEW p \in Prompts, HostPrompts(p) PROVE FALSE
  BY <1>7 DEF HostPrompts, refs
<1>8. ASSUME NEW m \in Msgs, Respond(m) \/ ReadDone(m) \/ Ends(m) PROVE FALSE
  BY <1>8 DEF Respond, ReadDone, Ends, RespondError, ReadEnd, Breaks, EndStale, Settle, refs
<1>9. CASE PromptEffect
  BY <1>9 DEF PromptEffect, PromptSends, PromptWaits, SendMessage, refs
<1>10. CASE HostSwitchesQueue \/ Commit \/ UNCHANGED vars
  BY <1>10 DEF HostSwitchesQueue, Commit, vars, refs
<1>11. QED
  BY <1>2, <1>3, <1>4, <1>5, <1>6, <1>7, <1>8, <1>9, <1>10 DEF Next, React

\* The queued action of sendInteractiveMessage is sent, or given up with its
\* generation or behind a turn that ended without done: no other send that comes
\* first makes the dispatch effect lose it.
THEOREM QueuedSubmissionsSurvive == Spec => QueuedIsNotLost
<1>1. ASSUME IInv, ShownInv, [Next]_vars
      PROVE  [\A m \in Actions:
                queued # None /\ queued.msg = m /\ queued' = None =>
                  \/ req'[m].phase = "open"
                  \/ generation' # generation
                  \/ ~handoffAllowed]_vars
  BY <1>1, SlotLeft
<1>2. QED BY <1>1, Inductive, InductiveShown, PTL DEF Spec, QueuedIsNotLost

\* A step that starts a request of a line or an action sends it with the session
\* of the panel.
LEMMA SentNow ==
    ASSUME IInv, ShownInv, [Next]_vars,
           NEW n \in Typed \union Actions, req[n].phase = "new", req'[n].phase = "open"
    PROVE  req'[n].sent = session
<1>1. TypeOK /\ n \in Msgs /\ req \in [Msgs -> Request]
  BY DEF IInv, TypeOK, Msgs
<1>2. ASSUME NEW m \in Msgs, NEW token \in Nat \union {None}, RunMessage(m, token),
             view.session = session
      PROVE  req'[n].sent = session
  <2>1. /\ req'[m] = [phase |-> "open", epoch |-> epoch, token |-> token,
                     sent |-> view.session, done |-> FALSE, aborted |-> FALSE,
                     conversation |-> conversation]
        /\ \A k \in Msgs \ {m} : req'[k] = req[k]
    BY <1>1, <1>2, RunMessageStarts
  <2>2. n = m
    BY <1>1, <2>1
  <2>3. QED BY <1>2, <2>1, <2>2
<1>3. ASSUME NEW m \in Msgs, SendMessage(m), view.session = session
      PROVE  req'[n].sent = session
  <2>1. RunMessage(m, None) \/ UNCHANGED req
    BY <1>1, <1>3, SendMessageEffect
  <2>2. QED BY <1>2, <1>3, <2>1
<1>4. ASSUME NEW m \in Typed, Send(m) PROVE req'[n].sent = session
  <2>1. m \in Msgs /\ mounted /\ ~urgent /\ ~view.streaming /\ SendMessage(m)
    BY <1>4 DEF Send, CanCall, Calm, Msgs
  <2>2. QED BY <1>3, <2>1, CalmSession
<1>5. ASSUME NEW m \in Actions, SendInteractive(m) PROVE req'[n].sent = session
  <2>1. m \in Msgs /\ mounted /\ ~urgent
    BY <1>5 DEF SendInteractive, CanCall, Calm, Msgs
  <2>2. CASE ActRefused \/ ActQueue(m)
    <3>1. UNCHANGED req
      BY <2>2 DEF ActRefused, ActQueue
    <3>2. QED BY <3>1
  <2>3. CASE ActLegacy(m)
    <3>1. SendMessage(m)
      BY <2>3 DEF ActLegacy
    <3>2. CASE view.streaming
      BY <3>1, <3>2 DEF SendMessage, Refused
    <3>3. CASE ~view.streaming
      BY <3>1, <3>3, <2>1, <1>3, CalmSession
    <3>4. QED BY <3>2, <3>3
  <2>4. CASE ActStart(m)
    <3>1. ~view.streaming /\ RunMessage(m, generation) /\ generation \in Nat
      BY <1>1, <2>4 DEF ActStart, Busy, TypeOK
    <3>2. QED BY <3>1, <2>1, <1>2, CalmSession
  <2>5. QED BY <1>5, <2>2, <2>3, <2>4 DEF SendInteractive
<1>6. ASSUME DispatchEffect PROVE req'[n].sent = session
  <2>1. CASE DispatchNothing \/ DispatchDrops
    <3>1. UNCHANGED req
      BY <2>1 DEF DispatchNothing, DispatchDrops
    <3>2. QED BY <3>1
  <2>2. CASE DispatchSends
    <3>1. /\ queued.msg \in Msgs /\ queued.generation \in Nat
          /\ RunMessage(queued.msg, queued.generation) /\ view.session = session
      BY <1>6, <2>2, HandOverSends
    <3>2. QED BY <3>1, <1>2
  <2>3. QED BY <1>6, <2>1, <2>2 DEF DispatchEffect
<1>7. ASSUME PromptEffect PROVE FALSE
  <2>1. CASE PromptSends
    <3>1. view.prompt # None /\ SendMessage(view.prompt)
      BY <2>1 DEF PromptSends, PromptDue
    <3>2. PICK p \in Prompts : p = view.prompt
      BY <1>1, <3>1 DEF TypeOK, View
    <3>3. p \in Msgs /\ p # n
      BY ChatPanelAssumption DEF Msgs
    <3>4. CASE RunMessage(p, None)
      <4>1. req'[n] = req[n]
        BY <1>1, <3>3, <3>4, RunMessageStarts
      <4>2. QED BY <4>1
    <3>5. CASE UNCHANGED req
      BY <3>5
    <3>6. QED BY <1>1, <3>1, <3>2, <3>3, <3>4, <3>5, SendMessageEffect
  <2>2. CASE PromptWaits
    BY <2>2 DEF PromptWaits
  <2>3. QED BY <1>7, <2>1, <2>2 DEF PromptEffect
<1>8. ASSUME NEW m \in Msgs, Respond(m) \/ ReadDone(m) PROVE FALSE
  <2>1. req[m].phase # "new" /\ \A k \in Msgs \ {m} : req'[k] = req[k]
    BY <1>1, <1>8 DEF Respond, ReadDone, Answerable
  <2>2. QED BY <1>1, <2>1
<1>9. ASSUME NEW m \in Msgs, Ends(m) PROVE FALSE
  <2>1. Settle(m, TRUE) \/ Settle(m, FALSE) \/ Settle(m, req[m].done)
    BY <1>9 DEF Ends, RespondError, ReadEnd, Breaks, EndStale
  <2>2. req' = [req EXCEPT ![m] = Blank("over")]
    BY <2>1 DEF Settle
  <2>3. req'[n] = req[n] \/ req'[n] = Blank("over")
    BY <1>1, <2>2
  <2>4. QED BY <2>3 DEF Blank
<1>10. ASSUME Stop \/ Clear \/ Unmount PROVE FALSE
  <2>1. Abort
    BY <1>10 DEF Stop, Clear, Unmount, CancelCurrentRequest, CleanUp
  <2>2. req'[n].phase = req[n].phase
    BY <1>1, <2>1 DEF Abort, TypeOK, Request
  <2>3. QED BY <2>2
<1>11. ASSUME \/ HostSwitchesQueue \/ Commit \/ QueueEffect \/ UNCHANGED vars
              \/ \E p \in Prompts : HostPrompts(p)
       PROVE  FALSE
  <2>1. UNCHANGED req
    BY <1>11 DEF HostSwitchesQueue, Commit, QueueEffect, HostPrompts, vars
  <2>2. QED BY <2>1
<1>12. QED
  BY <1>4, <1>5, <1>6, <1>7, <1>8, <1>9, <1>10, <1>11 DEF Next, React

\* runMessage sends a typed line or an action with the session the panel has at
\* that moment, although it reads it from the last commit.
THEOREM SentWithCurrentSession == Spec => SentWithSession
<1>1. ASSUME IInv, ShownInv, [Next]_vars
      PROVE  [\A m \in Typed \union Actions:
                req[m].phase = "new" /\ req'[m].phase = "open" => req'[m].sent = session]_vars
  BY <1>1, SentNow
<1>2. QED BY <1>1, Inductive, InductiveShown, PTL DEF Spec, SentWithSession

=============================================================================
