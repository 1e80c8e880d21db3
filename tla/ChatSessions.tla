---------------------------- MODULE ChatSessions ----------------------------
(***************************************************************************)
(* Sessions and turns: session.Manager, session.Session and the handlers   *)
(* of POST /chat/message, DELETE /chat/session and POST /chat/stop.        *)
(*                                                                         *)
(* A step is one critical section of the Go code (a mutex-protected block, *)
(* one sync.Map operation, one append to the owned history) or one branch  *)
(* of a select.  Every request is served by its own goroutine, so steps of *)
(* different requests interleave freely.  A request that fails the body    *)
(* validation returns before it touches any of this state and has no step. *)
(*                                                                         *)
(* A session object is named after the message request whose GetOrCreate   *)
(* allocated it, and a generated session ID after the request it was       *)
(* generated for: both are fresh by construction, as they are in the code. *)
(***************************************************************************)
EXTENDS SessionWindow

CONSTANTS Names,        \* session IDs clients choose themselves
          Msgs,         \* POST /chat/message requests
          Dels,         \* DELETE /chat/session requests
          MaxMessages,  \* Manager.maxMsg
          None

ASSUME ChatSessionsAssumption ==
    /\ Names \cap Msgs = {} /\ Names \cap Dels = {} /\ Msgs \cap Dels = {}
    /\ None \notin Names \cup Msgs \cup Dels
    /\ MaxMessages \in Int

IDs   == Names \cup Msgs
Procs == Msgs \cup Dels

VARIABLES
    sessions,        \* Manager.sessions: ID -> session object or None
    turnActive,      \* Session.turnActive, per object
    turnClosed,      \* Session.turnClosed, per object
    messages,        \* Session.Messages, per object
    activeContexts,  \* the server's activeContexts: ID -> request to cancel
    pc,              \* where each request's goroutine stands
    id,              \* the session ID a request names (or was given)
    sess,            \* the session object a request works on
    cancelled,       \* whether a request's context is cancelled
    reply            \* what a delete request has answered its client

vars == <<sessions, turnActive, turnClosed, messages, activeContexts,
          pc, id, sess, cancelled, reply>>

\* A turn's life between AcquireTurn and ReleaseTurn, in order.
HoldingPcs == {"acquired", "registered", "running", "committed", "unregistered"}
MsgPcs == {"start", "create", "acquire", "waiting", "woken", "refused", "done"}
              \cup HoldingPcs
DelPcs == {"start", "lookup", "close", "waiting", "woken", "remove", "done"}

Holding(m) == m \in Msgs /\ pc[m] \in HoldingPcs

\* The IDs a client can name: its own, and those generated by now.
KnownIDs == Names \cup {m \in Msgs : id[m] = m}

Message == [role : {"user", "assistant"}, turn : Msgs]

TypeOK ==
    /\ sessions \in [IDs -> Msgs \cup {None}]
    /\ turnActive \in [Msgs -> BOOLEAN]
    /\ turnClosed \in [Msgs -> BOOLEAN]
    /\ messages \in [Msgs -> Seq(Message)]
    /\ activeContexts \in [IDs -> Msgs \cup {None}]
    /\ pc \in [Procs -> MsgPcs \cup DelPcs]
    /\ \A m \in Msgs : pc[m] \in MsgPcs
    /\ \A d \in Dels : pc[d] \in DelPcs
    /\ id \in [Procs -> IDs \cup {None}]
    /\ sess \in [Procs -> Msgs \cup {None}]
    /\ cancelled \in [Procs -> BOOLEAN]
    /\ reply \in [Dels -> {"none", "ok", "timeout"}]

Init ==
    /\ sessions = [i \in IDs |-> None]
    /\ turnActive = [o \in Msgs |-> FALSE]
    /\ turnClosed = [o \in Msgs |-> FALSE]
    /\ messages = [o \in Msgs |-> <<>>]
    /\ activeContexts = [i \in IDs |-> None]
    /\ pc = [p \in Procs |-> "start"]
    /\ id = [p \in Procs |-> None]
    /\ sess = [p \in Procs |-> None]
    /\ cancelled = [p \in Procs |-> FALSE]
    /\ reply = [d \in Dels |-> "none"]

Goto(p, label) == pc' = [pc EXCEPT ![p] = label]

sessionVars == <<turnActive, turnClosed, messages>>

-----------------------------------------------------------------------------
(* POST /chat/message *)

\* GetOrCreate with an ID: the lookup under the read lock.
GetOrCreate(m, i) ==
    /\ pc[m] = "start" /\ i \in KnownIDs
    /\ id' = [id EXCEPT ![m] = i]
    /\ IF sessions[i] # None
         THEN Goto(m, "acquire") /\ sess' = [sess EXCEPT ![m] = sessions[i]]
         ELSE Goto(m, "create") /\ UNCHANGED sess
    /\ UNCHANGED <<sessions, sessionVars, activeContexts, cancelled, reply>>

\* Mutant: the entry is not looked up again under the write lock.
GetOrCreateUnchecked(m) ==
    /\ pc[m] = "create"
    /\ sess' = [sess EXCEPT ![m] = m]
    /\ sessions' = [sessions EXCEPT ![id[m]] = m]
    /\ Goto(m, "acquire")
    /\ UNCHANGED <<sessionVars, activeContexts, id, cancelled, reply>>

\* GetOrCreate, second half: looked up again under the write lock, allocated
\* only if it is still missing.
GetOrCreateSlow(m) ==
    /\ pc[m] = "create"
    /\ IF sessions[id[m]] # None
         THEN sess' = [sess EXCEPT ![m] = sessions[id[m]]] /\ UNCHANGED sessions
         ELSE /\ sess' = [sess EXCEPT ![m] = m]
              /\ sessions' = [sessions EXCEPT ![id[m]] = m]
    /\ Goto(m, "acquire")
    /\ UNCHANGED <<sessionVars, activeContexts, id, cancelled, reply>>

\* GetOrCreate("") is create(): a new object under a generated ID.
Create(m) ==
    /\ pc[m] = "start"
    /\ id' = [id EXCEPT ![m] = m]
    /\ sess' = [sess EXCEPT ![m] = m]
    /\ sessions' = [sessions EXCEPT ![m] = m]
    /\ Goto(m, "acquire")
    /\ UNCHANGED <<sessionVars, activeContexts, cancelled, reply>>

\* One iteration of AcquireTurn's loop, up to the select.  The context is not
\* consulted here: a cancelled request still takes a free turn.
AcquireTurn(m) ==
    LET o == sess[m] IN
    /\ pc[m] \in {"acquire", "woken"}
    /\ \/ turnClosed[o] /\ Goto(m, "refused") /\ UNCHANGED turnActive
       \/ /\ ~turnClosed[o] /\ ~turnActive[o]
          /\ turnActive' = [turnActive EXCEPT ![o] = TRUE]
          /\ Goto(m, "acquired")
       \/ ~turnClosed[o] /\ turnActive[o] /\ Goto(m, "waiting") /\ UNCHANGED turnActive
    /\ UNCHANGED <<sessions, turnClosed, messages, activeContexts, id, sess,
                   cancelled, reply>>

\* The select's ctx.Done() branch; it may win even when the wait channel has
\* been closed too.
AcquireCancelled(m) ==
    /\ pc[m] \in {"waiting", "woken"}
    /\ cancelled[m]
    /\ Goto(m, "refused")
    /\ UNCHANGED <<sessions, sessionVars, activeContexts, id, sess, cancelled, reply>>

\* activeContexts.Store(sess.ID, cancel)
Register(m) ==
    /\ pc[m] = "acquired"
    /\ activeContexts' = [activeContexts EXCEPT ![id[m]] = m]
    /\ Goto(m, "registered")
    /\ UNCHANGED <<sessions, sessionVars, id, sess, cancelled, reply>>

AppendTo(o, role, m) ==
    messages' = [messages EXCEPT ![o] =
                   AddMessage(@, [role |-> role, turn |-> m], MaxMessages)]

\* runChatWithOptions appends the user's message before it runs the agent ...
AddUserMessage(m) ==
    /\ pc[m] = "registered"
    /\ AppendTo(sess[m], "user", m)
    /\ Goto(m, "running")
    /\ UNCHANGED <<sessions, turnActive, turnClosed, activeContexts, id, sess,
                   cancelled, reply>>

\* Mutant: a cancelled turn adds no assistant message.
AddAssistantUnlessCancelled(m) ==
    /\ pc[m] = "running"
    /\ IF cancelled[m] THEN UNCHANGED messages ELSE AppendTo(sess[m], "assistant", m)
    /\ Goto(m, "committed")
    /\ UNCHANGED <<sessions, turnActive, turnClosed, activeContexts, id, sess,
                   cancelled, reply>>

\* ... and exactly one assistant message when the agent returns, completed,
\* failed or cancelled.
AddAssistantMessage(m) ==
    /\ pc[m] = "running"
    /\ AppendTo(sess[m], "assistant", m)
    /\ Goto(m, "committed")
    /\ UNCHANGED <<sessions, turnActive, turnClosed, activeContexts, id, sess,
                   cancelled, reply>>

\* Mutant: the registration outlives the turn.
UnregisterForgotten(m) ==
    /\ pc[m] = "committed"
    /\ Goto(m, "unregistered")
    /\ UNCHANGED <<sessions, sessionVars, activeContexts, id, sess, cancelled, reply>>

\* The deferred calls, in LIFO order: activeContexts.Delete first ...
Unregister(m) ==
    /\ pc[m] = "committed"
    /\ activeContexts' = [activeContexts EXCEPT ![id[m]] = None]
    /\ Goto(m, "unregistered")
    /\ UNCHANGED <<sessions, sessionVars, id, sess, cancelled, reply>>

\* Mutant: only one of those blocked on the wait channel is woken.
ReleaseTurnWakingOne(m) ==
    LET blocked == {p \in Procs \ {m} : sess[p] = sess[m] /\ pc[p] = "waiting"} IN
    /\ pc[m] = "unregistered"
    /\ turnActive' = [turnActive EXCEPT ![sess[m]] = FALSE]
    /\ \/ blocked = {} /\ Goto(m, "done")
       \/ \E p \in blocked : pc' = [pc EXCEPT ![m] = "done", ![p] = "woken"]
    /\ cancelled' = [cancelled EXCEPT ![m] = TRUE]
    /\ UNCHANGED <<sessions, turnClosed, messages, activeContexts, id, sess, reply>>

\* ... then ReleaseTurn, which closes the wait channel and so wakes every
\* acquirer and closer blocked on it, then cancel().
ReleaseTurn(m) ==
    LET o == sess[m] IN
    /\ pc[m] = "unregistered"
    /\ turnActive' = [turnActive EXCEPT ![o] = FALSE]
    /\ pc' = [p \in Procs |->
                CASE p = m -> "done"
                  [] p # m /\ turnActive[o] /\ sess[p] = o /\ pc[p] = "waiting" -> "woken"
                  [] OTHER -> pc[p]]
    /\ cancelled' = [cancelled EXCEPT ![m] = TRUE]
    /\ UNCHANGED <<sessions, turnClosed, messages, activeContexts, id, sess, reply>>

-----------------------------------------------------------------------------
(* DELETE /chat/session *)

\* activeContexts.LoadAndDelete and, if a turn was registered, its cancel.
CancelActive(i) ==
    /\ activeContexts' = [activeContexts EXCEPT ![i] = None]
    /\ cancelled' = IF activeContexts[i] = None THEN cancelled
                    ELSE [cancelled EXCEPT ![activeContexts[i]] = TRUE]

DeleteCancels(d, i) ==
    /\ pc[d] = "start" /\ i \in KnownIDs
    /\ id' = [id EXCEPT ![d] = i]
    /\ CancelActive(i)
    /\ Goto(d, "lookup")
    /\ UNCHANGED <<sessions, sessionVars, sess, reply>>

\* DeleteContext finds the object to close, or nothing to do.
DeleteLookup(d) ==
    LET o == sessions[id[d]] IN
    /\ pc[d] = "lookup"
    /\ \/ /\ o = None
          /\ Goto(d, "done")
          /\ reply' = [reply EXCEPT ![d] = "ok"]
          /\ UNCHANGED sess
       \/ /\ o # None
          /\ Goto(d, "close")
          /\ sess' = [sess EXCEPT ![d] = o]
          /\ UNCHANGED reply
    /\ UNCHANGED <<sessions, sessionVars, activeContexts, id, cancelled>>

\* Mutant: Close does not wait for the active turn.
CloseWithoutWaiting(d) ==
    /\ pc[d] = "close"
    /\ turnClosed' = [turnClosed EXCEPT ![sess[d]] = TRUE]
    /\ Goto(d, "remove")
    /\ UNCHANGED <<sessions, turnActive, messages, activeContexts, id, sess,
                   cancelled, reply>>

\* Session.Close up to its select.
Close(d) ==
    LET o == sess[d] IN
    /\ pc[d] = "close"
    /\ turnClosed' = [turnClosed EXCEPT ![o] = TRUE]
    /\ Goto(d, IF turnActive[o] THEN "waiting" ELSE "remove")
    /\ UNCHANGED <<sessions, turnActive, messages, activeContexts, id, sess,
                   cancelled, reply>>

\* Mutant: nobody finishes a delete whose request was cancelled.
DeleteGivesUp(d) ==
    /\ pc[d] \in {"waiting", "woken"}
    /\ cancelled[d] /\ reply[d] = "none"
    /\ reply' = [reply EXCEPT ![d] = "timeout"]
    /\ Goto(d, "done")
    /\ UNCHANGED <<sessions, sessionVars, activeContexts, id, sess, cancelled>>

\* Close gave up because the delete request was cancelled: the client gets
\* 408 and a goroutine closes the same object again, with a context that is
\* never cancelled.
DeleteDetaches(d) ==
    /\ pc[d] \in {"waiting", "woken"}
    /\ cancelled[d] /\ reply[d] = "none"
    /\ reply' = [reply EXCEPT ![d] = "timeout"]
    /\ Goto(d, "close")
    /\ UNCHANGED <<sessions, sessionVars, activeContexts, id, sess, cancelled>>

\* deleteSessionIfSame, by the handler (which then answers 200) or by its
\* background goroutine.
DeleteIfSame(d) ==
    /\ pc[d] \in {"woken", "remove"}
    /\ sessions' = IF sessions[id[d]] = sess[d]
                   THEN [sessions EXCEPT ![id[d]] = None] ELSE sessions
    /\ reply' = IF reply[d] = "none" THEN [reply EXCEPT ![d] = "ok"] ELSE reply
    /\ Goto(d, "done")
    /\ UNCHANGED <<sessionVars, activeContexts, id, sess, cancelled>>

-----------------------------------------------------------------------------
(* POST /chat/stop, and clients going away *)

\* Any number of stops may arrive, at any time; one that finds no registered
\* turn changes nothing.
PostChatStop(i) ==
    /\ activeContexts[i] # None
    /\ CancelActive(i)
    /\ UNCHANGED <<sessions, sessionVars, pc, id, sess, reply>>

\* The client closes its connection while the request is being served.
Disconnect(p) ==
    /\ pc[p] \notin {"start", "refused", "done"}
    /\ ~cancelled[p]
    /\ cancelled' = [cancelled EXCEPT ![p] = TRUE]
    /\ UNCHANGED <<sessions, sessionVars, activeContexts, pc, id, sess, reply>>

-----------------------------------------------------------------------------
\* The steps a goroutine takes on its own once its request has arrived.
MsgStep(m) ==
    \/ GetOrCreateSlow(m) \/ AcquireTurn(m) \/ AcquireCancelled(m) \/ Register(m)
    \/ AddUserMessage(m) \/ AddAssistantMessage(m) \/ Unregister(m) \/ ReleaseTurn(m)

DelStep(d) == DeleteLookup(d) \/ Close(d) \/ DeleteDetaches(d) \/ DeleteIfSame(d)

Next ==
    \/ \E m \in Msgs, i \in IDs : GetOrCreate(m, i)
    \/ \E m \in Msgs : Create(m) \/ MsgStep(m)
    \/ \E d \in Dels, i \in IDs : DeleteCancels(d, i)
    \/ \E d \in Dels : DelStep(d)
    \/ \E i \in IDs : PostChatStop(i)
    \/ \E p \in Procs : Disconnect(p)

Spec == Init /\ [][Next]_vars

(***************************************************************************)
(* The Go scheduler runs every runnable goroutine, and an agent run ends:  *)
(* its loop is bounded and the provider and the tools answer (README).     *)
(* Clients owe us nothing: no fairness on arrivals, stops or disconnects.  *)
(***************************************************************************)
FairSpec ==
    /\ Spec
    /\ \A m \in Msgs : WF_vars(MsgStep(m))
    /\ \A d \in Dels : WF_vars(DelStep(d))

-----------------------------------------------------------------------------
(* Properties *)

\* No two turns of the same session ID ever run at the same time, not even
\* when the session was deleted and recreated in between (the comment on
\* DeleteContext: closing before removal keeps waiters on the old object from
\* overlapping a recreated session).
NoOverlap ==
    \A m, n \in Msgs : Holding(m) /\ Holding(n) /\ id[m] = id[n] => m = n

\* Nobody sleeps on a turn that has already been released: whoever is blocked
\* in the select of AcquireTurn or Close waits for a turn that is running and
\* whose ReleaseTurn will wake it.
NoLostWakeup ==
    \A p \in Procs : pc[p] = "waiting" =>
        \E m \in Msgs : Holding(m) /\ sess[m] = sess[p]

\* The session object a turn runs on is the one the manager would hand to the
\* next request for that ID: history is never written to an orphaned object.
TurnOnLiveObject ==
    \A m \in Msgs : Holding(m) => sessions[id[m]] = sess[m]

\* A running turn that nobody has cancelled is always the one a stop or a
\* delete of its session would cancel (the comment in PostChatMessage: a
\* waiter must never replace the active turn's cancel function).
RunningIsStoppable ==
    \A m \in Msgs : pc[m] \in {"registered", "running"} /\ ~cancelled[m] =>
        activeContexts[id[m]] = m

\* A stop or a delete only ever cancels the turn now holding the session:
\* never a waiter, never a turn that is over.
CancelsOnlyHolder ==
    \A i \in IDs : activeContexts[i] # None =>
        /\ Holding(activeContexts[i])
        /\ id[activeContexts[i]] = i

\* Once a delete has answered 200 the object it closed is gone for good:
\* closed, not running, and no longer what the manager hands out.
DeleteForgets ==
    \A d \in Dels : reply[d] = "ok" /\ sess[d] # None =>
        /\ turnClosed[sess[d]] /\ ~turnActive[sess[d]]
        /\ \A i \in IDs : sessions[i] # sess[d]

Alternates(h) == \A k \in 1 .. Len(h) - 1 : h[k].role # h[k + 1].role

EndsWith(h, role) == h # <<>> /\ h[Len(h)].role = role

AwaitsAnswer(o) == \E m \in Msgs : pc[m] = "running" /\ sess[m] = o

\* The history of a session alternates between user and assistant, and ends
\* with a question exactly while its turn is running (CHANGELOG v0.3.0:
\* interrupted turns preserve valid role alternation), window trimming included.
RolesAlternate ==
    \A o \in Msgs :
        /\ Alternates(messages[o])
        /\ EndsWith(messages[o], "user") <=> AwaitsAnswer(o)

(***************************************************************************)
(* The inductive invariant behind the safety properties, in layers: each   *)
(* is preserved by every step given the ones before it.                    *)
(***************************************************************************)

\* Objects and IDs: an object belongs to one ID for ever, the requests and the
\* manager entry that refer to it agree on that ID, and an object not yet
\* allocated is in its zero state.
Naming ==
    /\ \A m \in Msgs : sess[m] = None <=> pc[m] \in {"start", "create"}
    /\ \A d \in Dels : pc[d] \in {"close", "waiting", "woken", "remove"} => sess[d] # None
    /\ \A d \in Dels : pc[d] \in {"start", "lookup"} => sess[d] = None
    /\ \A p \in Procs : id[p] = None <=> pc[p] = "start"
    /\ \A p \in Procs : id[p] \in Msgs => id[id[p]] = id[p]
    /\ \A p \in Procs : sess[p] # None => sess[sess[p]] = sess[p] /\ id[sess[p]] = id[p]
    /\ \A i \in IDs : sessions[i] # None =>
          sess[sessions[i]] = sessions[i] /\ id[sessions[i]] = i
    /\ \A o \in Msgs : sess[o] # o =>
          ~turnActive[o] /\ ~turnClosed[o] /\ messages[o] = <<>>

\* Turns and closing: turnActive is exactly the presence of one holder; a
\* closer past its wait has closed an object that will never run again; an
\* object that left the manager is such an object.
UniqueHolder ==
    \A m, n \in Msgs : Holding(m) /\ Holding(n) /\ sess[m] = sess[n] => m = n

ActiveIsHeld ==
    /\ \A m \in Msgs : Holding(m) => turnActive[sess[m]]
    /\ \A o \in Msgs : turnActive[o] => \E m \in Msgs : Holding(m) /\ sess[m] = o

WaiterSeesActive == \A p \in Procs : pc[p] = "waiting" => turnActive[sess[p]]

CloserHasClosed ==
    /\ \A d \in Dels : pc[d] \in {"waiting", "woken", "remove"} => turnClosed[sess[d]]
    /\ \A d \in Dels : pc[d] \in {"woken", "remove"} => ~turnActive[sess[d]]

OrphanIsDead ==
    \A o \in Msgs : sess[o] = o /\ sessions[id[o]] # o => turnClosed[o] /\ ~turnActive[o]

Turns == UniqueHolder /\ ActiveIsHeld /\ WaiterSeesActive /\ CloserHasClosed /\ OrphanIsDead

\* What is registered for an ID is its one holder, between Register and
\* Unregister.
Registration ==
    \A i \in IDs : activeContexts[i] # None =>
        /\ pc[activeContexts[i]] \in {"registered", "running", "committed"}
        /\ id[activeContexts[i]] = i

\* A delete that answered 200 is over, and so is what it found.
Replies ==
    \A d \in Dels : reply[d] = "ok" =>
        /\ pc[d] = "done"
        /\ sess[d] # None => sessions[id[d]] # sess[d]

IInv == TypeOK /\ Naming /\ Turns /\ Registration /\ RunningIsStoppable /\ Replies /\ RolesAlternate

\* A closed session object is eventually removed, even when the delete request
\* that closed it was cancelled (comment in DeleteContext: no permanently
\* closed entry is stranded).
ClosedIsRemoved ==
    \A o \in Msgs : turnClosed[o] ~> (\A i \in IDs : sessions[i] # o)

\* Every chat message that got a session is eventually answered: it runs to
\* its end or is refused; every delete eventually replies.
RequestsEnd ==
    /\ \A m \in Msgs : (pc[m] # "start") ~> (pc[m] \in {"done", "refused"})
    /\ \A d \in Dels : (pc[d] # "start") ~> (reply[d] # "none")

\* The session layer implements one conversation per ID.
HoldersOf(i) == {m \in Msgs : Holding(m) /\ id[m] = i}

PhaseOf(i) ==
    CASE \E m \in HoldersOf(i) : pc[m] \in {"acquired", "registered"} -> "begun"
      [] \E m \in HoldersOf(i) : pc[m] = "running" -> "asked"
      [] \E m \in HoldersOf(i) : pc[m] \in {"committed", "unregistered"} -> "answered"
      [] OTHER -> "idle"

LogOf(i) == IF sessions[i] = None THEN <<>> ELSE messages[sessions[i]]

Conv == INSTANCE Conversations WITH
            Turns   <- Msgs,
            holders <- [i \in IDs |-> HoldersOf(i)],
            phase   <- [i \in IDs |-> PhaseOf(i)],
            log     <- [i \in IDs |-> LogOf(i)]

\* Every step is a step of one conversation per session ID, or invisible.
ImplementsConversations == Conv!Spec
=============================================================================
