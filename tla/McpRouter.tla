----------------------------- MODULE McpRouter -----------------------------
(***************************************************************************)
(* The MCP router: its table of connections, the tool index made from it,  *)
(* CallTool with its one reconnect-and-retry, and the discovery goroutine  *)
(* that keeps the table in line with what is deployed.                     *)
(*                                                                         *)
(* A step is one critical section of Router.mu or one request to an MCP    *)
(* server outside of it.  Connect holds the lock from the close of the old *)
(* session to the new index, so it is one step whatever it talks to.       *)
(*                                                                         *)
(* The MCP servers and the SDK are modelled by what the router can observe *)
(* of them: a session is lost when its server restarts or the router       *)
(* closes it, a call on a lost session is refused with one of the errors   *)
(* isStaleSessionErr knows, and a refused call was not run.                *)
(***************************************************************************)
EXTENDS Integers, FiniteSets

CONSTANTS Servers,      \* server names
          Tools,        \* tool names
          Calls,        \* tool calls the agent makes
          Configs,      \* versions of a server's configuration
          Compared,     \* what serverConfigsEqual reads of each
          ToolOf,       \* the tool a call names
          Offers,       \* the tools a server lists
          Boot,         \* the configuration ConnectAll is given, per server or None
          MaxFaults,    \* bound on restarts, redeployments and failed connects
          None

Connection == [session : Nat, cfg : Configs]

ASSUME McpRouterAssumption ==
    /\ IsFiniteSet(Servers)
    /\ DOMAIN Compared = Configs
    /\ ToolOf \in [Calls -> Tools]
    /\ Offers \in [Servers -> SUBSET Tools]
    /\ Boot \in [Servers -> Configs \cup {None}]
    /\ MaxFaults \in Nat
    /\ None \notin Servers \cup Configs \cup Connection

VARIABLES
    servers,    \* Router.servers: name -> connection or None
    toolMap,    \* Router.toolMap: tool -> server name or None
    opened,     \* how many sessions the router has opened so far
    open,       \* the sessions it has not closed
    lost,       \* the sessions their servers have forgotten
    deployed,   \* what discovery would find: name -> configuration or None
    faults,     \* restarts, redeployments and failed connects so far
    failed,     \* whether a connect has failed
    panicked,   \* whether a nil connection has been dereferenced
    pc, server, conn, outcome,  \* CallTool: position, serverName, sc, result
    rpc, want, current, todo, drifted  \* reconcile: position and locals

routerVars == <<servers, toolMap, opened, open>>
faultVars  == <<faults, failed>>
worldVars  == <<lost, deployed, faultVars>>
callVars   == <<pc, server, conn, outcome, panicked>>
reconcileVars == <<rpc, want, current, todo, drifted>>
vars == <<routerVars, worldVars, callVars, reconcileVars>>

TypeOK ==
    /\ servers \in [Servers -> Connection \cup {None}]
    /\ toolMap \in [Tools -> Servers \cup {None}]
    /\ opened \in Nat /\ open \subseteq 1 .. opened /\ lost \subseteq 1 .. opened
    /\ deployed \in [Servers -> Configs \cup {None}]
    /\ faults \in 0 .. MaxFaults
    /\ failed \in BOOLEAN /\ panicked \in BOOLEAN
    /\ pc \in [Calls -> {"start", "send", "reconnect", "refetch", "retry", "done"}]
    /\ server \in [Calls -> Servers \cup {None}]
    /\ conn \in [Calls -> Connection \cup {None}]
    /\ outcome \in [Calls -> {"none", "ok", "failed", "unknown"}]
    /\ rpc \in {"startup", "idle", "list", "sweep"}
    /\ want \in [Servers -> Configs \cup {None}]
    /\ current \subseteq Servers /\ todo \subseteq Servers
    /\ drifted \in Servers \cup {None}

Init ==
    /\ servers = [s \in Servers |-> None]
    /\ toolMap = [t \in Tools |-> None]
    /\ opened = 0 /\ open = {} /\ lost = {}
    /\ deployed \in [Servers -> Configs \cup {None}]
    /\ faults = 0 /\ failed = FALSE /\ panicked = FALSE
    /\ pc = [c \in Calls |-> "start"]
    /\ server = [c \in Calls |-> None]
    /\ conn = [c \in Calls |-> None]
    /\ outcome = [c \in Calls |-> "none"]
    /\ rpc = "startup"
    /\ want = Boot /\ current = {} /\ todo = {s \in Servers : Boot[s] # None}
    /\ drifted = None

-----------------------------------------------------------------------------
(* The router's own operations *)

Connected == {s \in Servers : servers[s] # None}

\* rebuildToolIndex walks the servers in the order of a Go map, which is any
\* order, and the first to offer a name keeps it.
Orders ==
    {r \in [Servers -> 1 .. Cardinality(Servers)] :
        \A s, u \in Servers : r[s] = r[u] => s = u}

FirstOffering(r, up, t) ==
    LET offering == {s \in up : t \in Offers[s]} IN
    IF offering = {} THEN None
    ELSE CHOOSE s \in offering : \A u \in offering : r[s] <= r[u]

RebuildToolIndex(up) ==
    \E r \in Orders : toolMap' = [t \in Tools |-> FirstOffering(r, up, t)]

SessionOf(s) == IF servers[s] = None THEN {} ELSE {servers[s].session}

\* Mutant: the session replaced is never closed.
ConnectLeaking(s, cfg) ==
    /\ opened' = opened + 1
    /\ open' = open \cup {opened + 1}
    /\ servers' = [servers EXCEPT ![s] = [session |-> opened + 1, cfg |-> cfg]]
    /\ RebuildToolIndex(Connected \cup {s})
    /\ UNCHANGED faultVars

\* Connect closes the existing session and drops the entry first ...
ConnectSucceeds(s, cfg) ==
    /\ opened' = opened + 1
    /\ open' = (open \ SessionOf(s)) \cup {opened + 1}
    /\ servers' = [servers EXCEPT ![s] = [session |-> opened + 1, cfg |-> cfg]]
    /\ RebuildToolIndex(Connected \cup {s})
    /\ UNCHANGED faultVars

\* ... and returns early, the index as it was, when the new session or its
\* tool list cannot be had.
ConnectFails(s) ==
    /\ faults < MaxFaults
    /\ faults' = faults + 1 /\ failed' = TRUE
    /\ open' = open \ SessionOf(s)
    /\ servers' = [servers EXCEPT ![s] = None]
    /\ UNCHANGED <<toolMap, opened>>

\* Mutant: the index is left as it was.
DisconnectKeepingIndex(s) ==
    IF servers[s] = None THEN UNCHANGED routerVars
    ELSE /\ open' = open \ SessionOf(s)
         /\ servers' = [servers EXCEPT ![s] = None]
         /\ UNCHANGED <<toolMap, opened>>

Disconnect(s) ==
    IF servers[s] = None THEN UNCHANGED routerVars
    ELSE /\ open' = open \ SessionOf(s)
         /\ servers' = [servers EXCEPT ![s] = None]
         /\ RebuildToolIndex(Connected \ {s})
         /\ UNCHANGED opened

-----------------------------------------------------------------------------
(* CallTool *)

\* A call that returns leaves its locals behind.
Finish(c, result) ==
    /\ pc' = [pc EXCEPT ![c] = "done"]
    /\ outcome' = [outcome EXCEPT ![c] = result]
    /\ server' = [server EXCEPT ![c] = None]
    /\ conn' = [conn EXCEPT ![c] = None]

Proceed(c, label, s, sc) ==
    /\ pc' = [pc EXCEPT ![c] = label]
    /\ server' = [server EXCEPT ![c] = s]
    /\ conn' = [conn EXCEPT ![c] = sc]
    /\ UNCHANGED outcome

Goto(c, label) == Proceed(c, label, server[c], conn[c])

\* The index and the table are read under one lock; the connection is used
\* after it is released.
Route(c) ==
    LET s == toolMap[ToolOf[c]] IN
    /\ pc[c] = "start" /\ rpc # "startup"
    /\ IF s = None
         THEN Finish(c, "unknown") ELSE Proceed(c, "send", s, servers[s])
    /\ UNCHANGED <<routerVars, worldVars, reconcileVars, panicked>>

Usable(session) == session \in open \ lost

\* sc.session.CallTool with sc nil.
SendPanics(c) ==
    /\ pc[c] = "send" /\ conn[c] = None
    /\ panicked' = TRUE
    /\ UNCHANGED <<routerVars, worldVars, reconcileVars, pc, server, conn, outcome>>

\* The first attempt: served, refused as stale, or failed otherwise.
Send(c) ==
    /\ pc[c] = "send" /\ conn[c] # None
    /\ \/ Usable(conn[c].session) /\ Finish(c, "ok")
       \/ ~Usable(conn[c].session) /\ Goto(c, "reconnect")
       \/ Finish(c, "failed")
    /\ UNCHANGED <<routerVars, worldVars, reconcileVars, panicked>>

\* r.Connect with the configuration of the stale connection.
Reconnect(c) ==
    /\ pc[c] = "reconnect"
    /\ \/ ConnectSucceeds(server[c], conn[c].cfg) /\ Goto(c, "refetch")
       \/ ConnectFails(server[c]) /\ Finish(c, "failed")
    /\ UNCHANGED <<lost, deployed, reconcileVars, panicked>>

\* Mutant: the retry uses the connection the call started with.
RefetchNothing(c) ==
    /\ pc[c] = "refetch"
    /\ Goto(c, "retry")
    /\ UNCHANGED <<routerVars, worldVars, reconcileVars, panicked>>

Refetch(c) ==
    LET sc == servers[server[c]] IN
    /\ pc[c] = "refetch"
    /\ IF sc = None THEN Finish(c, "failed") ELSE Proceed(c, "retry", server[c], sc)
    /\ UNCHANGED <<routerVars, worldVars, reconcileVars, panicked>>

\* The retry is the last attempt, whatever it answers.
Retry(c) ==
    /\ pc[c] = "retry"
    /\ \/ Usable(conn[c].session) /\ Finish(c, "ok")
       \/ Finish(c, "failed")
    /\ UNCHANGED <<routerVars, worldVars, reconcileVars, panicked>>

-----------------------------------------------------------------------------
(* ConnectAll and reconcile *)

\* ConnectAll: one server after the other, given up after maxAttempts; calls
\* come only when it is through.
ConnectAll(s) ==
    /\ rpc = "startup" /\ s \in todo
    /\ ConnectSucceeds(s, want[s]) \/ ConnectFails(s)
    /\ todo' = todo \ {s}
    /\ UNCHANGED <<lost, deployed, callVars, rpc, want, current, drifted>>

\* Everything done: the locals are gone.
BackToIdle ==
    /\ rpc' = "idle"
    /\ want' = [s \in Servers |-> None] /\ current' = {}
    /\ UNCHANGED <<routerVars, worldVars, callVars, todo, drifted>>

StartServing ==
    /\ rpc = "startup" /\ todo = {}
    /\ BackToIdle

\* A tick: Discover ...
Discover ==
    /\ rpc = "idle"
    /\ want' = deployed
    /\ rpc' = "list"
    /\ UNCHANGED <<routerVars, worldVars, callVars, current, todo, drifted>>

\* ... then ConnectedServers.
List ==
    /\ rpc = "list"
    /\ current' = Connected
    /\ todo' = Connected \cup {s \in Servers : want[s] # None}
    /\ rpc' = "sweep"
    /\ UNCHANGED <<routerVars, worldVars, callVars, want, drifted>>

DisconnectRemoved(s) ==
    /\ rpc = "sweep" /\ s \in todo /\ want[s] = None
    /\ Disconnect(s)
    /\ todo' = todo \ {s}
    /\ UNCHANGED <<worldVars, callVars, rpc, want, current, drifted>>

\* The second loop starts when the first is through.
Visiting(s) ==
    /\ rpc = "sweep" /\ drifted = None /\ s \in todo
    /\ \A u \in todo : want[u] # None

ConnectNew(s) ==
    /\ Visiting(s) /\ s \notin current
    /\ ConnectSucceeds(s, want[s]) \/ ConnectFails(s)
    /\ todo' = todo \ {s}
    /\ UNCHANGED <<lost, deployed, callVars, rpc, want, current, drifted>>

\* Name, endpoint, read-only tools and static headers.
serverConfigsEqual(a, b) == Compared[a] = Compared[b]

\* Mutant: connected servers are taken to be up to date.
CheckNothing(s) ==
    /\ Visiting(s) /\ s \in current
    /\ drifted' = None
    /\ todo' = todo \ {s}
    /\ UNCHANGED <<routerVars, worldVars, callVars, rpc, want, current>>

\* ServerConfigOf, then Connect if the configuration has drifted: two critical
\* sections.
CheckDrift(s) ==
    /\ Visiting(s) /\ s \in current
    /\ drifted' = IF servers[s] # None /\ ~serverConfigsEqual(servers[s].cfg, want[s])
                THEN s ELSE None
    /\ todo' = todo \ {s}
    /\ UNCHANGED <<routerVars, worldVars, callVars, rpc, want, current>>

ReconnectDrifted ==
    /\ drifted # None
    /\ ConnectSucceeds(drifted, want[drifted]) \/ ConnectFails(drifted)
    /\ drifted' = None
    /\ UNCHANGED <<lost, deployed, callVars, rpc, want, current, todo>>

EndTick ==
    /\ rpc = "sweep" /\ todo = {} /\ drifted = None
    /\ BackToIdle

-----------------------------------------------------------------------------
(* The world outside *)

\* A server restarts and forgets its session.
Restart(s) ==
    /\ faults < MaxFaults /\ SessionOf(s) \ lost # {}
    /\ lost' = lost \cup SessionOf(s)
    /\ faults' = faults + 1
    /\ UNCHANGED <<routerVars, callVars, reconcileVars, deployed, failed>>

\* A container is started, stopped or relabelled.
Redeploy(s, cfg) ==
    /\ faults < MaxFaults /\ deployed[s] # cfg
    /\ deployed' = [deployed EXCEPT ![s] = cfg]
    /\ faults' = faults + 1
    /\ UNCHANGED <<routerVars, callVars, reconcileVars, lost, failed>>

-----------------------------------------------------------------------------
CallStep(c) ==
    Route(c) \/ SendPanics(c) \/ Send(c) \/ Reconnect(c) \/ Refetch(c) \/ Retry(c)

ReconcileStep ==
    \/ StartServing \/ Discover \/ List \/ ReconnectDrifted \/ EndTick
    \/ \E s \in Servers :
          ConnectAll(s) \/ DisconnectRemoved(s) \/ ConnectNew(s) \/ CheckDrift(s)

\* A panic in a tool call's goroutine ends the process.
Next ==
    \/ ~panicked /\ \E c \in Calls : CallStep(c)
    \/ ~panicked /\ ReconcileStep
    \/ ~panicked /\ \E s \in Servers : Restart(s)
    \/ ~panicked /\ \E s \in Servers, cfg \in Configs \cup {None} : Redeploy(s, cfg)

Spec == Init /\ [][Next]_vars

\* The ticker ticks and the discovery goroutine runs.
Fairness == WF_vars(~panicked /\ ReconcileStep)

FairSpec == Spec /\ Fairness

-----------------------------------------------------------------------------
(* Properties *)

\* The router never loses track of a session: what it has opened and not
\* closed is exactly what its table holds, through failed connects, reconnects
\* by several calls at once, and discovery.
NoSessionLeak == open = UNION {SessionOf(s) : s \in Servers}

\* The retry of a call goes to a session opened after the one that was stale,
\* whichever call or tick opened it.
RetryIsFresh ==
    [][\A c \in Calls : pc[c] = "refetch" /\ pc'[c] = "retry" =>
          conn'[c].session > conn[c].session]_vars

\* Unless a connect has failed, the index names exactly the tools of the connected
\* servers, each with a connected server that offers it.
Indexed(t) ==
    /\ toolMap[t] = None <=> \A s \in Connected : t \notin Offers[s]
    /\ toolMap[t] # None => toolMap[t] \in Connected /\ t \in Offers[toolMap[t]]

IndexIsExact == ~failed => \A t \in Tools : Indexed(t)

InLine(s) ==
    IF deployed[s] = None THEN servers[s] = None
    ELSE servers[s] # None /\ serverConfigsEqual(servers[s].cfg, deployed[s])

\* Discovery repairs whatever failed connects have dropped and reconnecting calls
\* have put back: once servers stay as they are deployed and connects succeed,
\* the table comes to hold exactly those, each with its deployed configuration
\* as far as serverConfigsEqual reads it; unless the process has ended.
Converges == <>[](panicked \/ \A s \in Servers : InLine(s))

-----------------------------------------------------------------------------
(* What the comments say and the code does not *)

\* ConnectAll: the router gracefully handles missing servers at tool-call time.
\* No call dereferences a missing connection.
MissingServerIsHandled == ~panicked

\* reconcile: reconnect any server whose config has drifted.  A server that stays
\* connected comes to have the configuration it is deployed with, all that
\* Connect uses of it.
ConfigsTakeEffect ==
    <>[](panicked \/ \A s \in Connected : deployed[s] # None => servers[s].cfg = deployed[s])
=============================================================================
