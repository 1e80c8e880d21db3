-------------------------- MODULE McpRouterProofs --------------------------
(***************************************************************************)
(* The safety properties of McpRouter, for any servers, tools, calls,      *)
(* configurations and faults: sessions and retries whatever fails, the     *)
(* index and the connection a call finds until a connect has failed.       *)
(***************************************************************************)
EXTENDS McpRouter, FiniteSetTheorems, WellFoundedInduction, TLAPS

-----------------------------------------------------------------------------
(* The inductive invariant *)

\* What reconcile connects has a configuration, and its locals outlive no tick.
Locals ==
    /\ rpc = "startup" => \A s \in todo : want[s] # None
    /\ drifted # None => rpc = "sweep" /\ want[drifted] # None

\* No two servers share a session, and all of them have been opened.
Table ==
    /\ \A s \in Connected : servers[s].session \in 1 .. opened
    /\ \A s, u \in Connected : servers[s].session = servers[u].session => s = u

\* A call past its first attempt knows its server and a connection of old; when
\* it has reconnected, whatever its server has now is younger than that.
CallLocal(c) ==
    /\ pc[c] \in {"send", "reconnect", "refetch", "retry"} => server[c] # None
    /\ pc[c] \in {"reconnect", "refetch", "retry"} => conn[c] # None
    /\ conn[c] # None => conn[c].session <= opened
    /\ pc[c] = "refetch" /\ server[c] \in Connected =>
          servers[server[c]].session > conn[c].session

CallLocals == \A c \in Calls : CallLocal(c)

\* Until a connect fails, what the index names is there when a call reads it.
Reliable ==
    ~failed =>
        /\ \A t \in Tools : Indexed(t)
        /\ MissingServerIsHandled
        /\ \A c \in Calls : pc[c] = "send" => conn[c] # None

IInv ==
    /\ TypeOK
    /\ Locals
    /\ Table
    /\ CallLocals
    /\ NoSessionLeak
    /\ Reliable

-----------------------------------------------------------------------------
(* The tool index *)

\* Every nonempty set of numbers has a least one.
LEMMA Minimum ==
    ASSUME NEW T, T \subseteq Nat, T # {}
    PROVE  \E x \in T : \A y \in T : x <= y
<1>1. IsWellFoundedOn(OpToRel(<, Nat), Nat)
  BY NatLessThanWellFounded
<1>2. PICK x \in T : \A y \in T : ~(<<y, x>> \in OpToRel(<, Nat))
  BY <1>1, WFMin
<1>3. \A y \in T : ~(y < x)
  BY <1>2 DEF OpToRel
<1>4. QED
  BY <1>3

\* Whatever the order of the walk, a tool goes to a server that offers it, and
\* is without one only if none does.
LEMMA FirstOfferingFacts ==
    ASSUME NEW r \in Orders, NEW up \in SUBSET Servers, NEW t \in Tools
    PROVE  /\ FirstOffering(r, up, t) = None <=> \A s \in up : t \notin Offers[s]
           /\ FirstOffering(r, up, t) # None =>
                 FirstOffering(r, up, t) \in up /\ t \in Offers[FirstOffering(r, up, t)]
<1> DEFINE offering == {s \in up : t \in Offers[s]}
<1>1. CASE offering = {}
  BY <1>1, McpRouterAssumption DEF FirstOffering
<1>2. CASE offering # {}
  <2> DEFINE ranks == {r[s] : s \in offering}
  <2>1. Cardinality(Servers) \in Nat
    BY McpRouterAssumption, FS_CardinalityType
  <2>2. r \in [Servers -> 1 .. Cardinality(Servers)]
    BY DEF Orders
  <2>3. ranks \subseteq Nat /\ ranks # {}
    BY <1>2, <2>1, <2>2
  <2>4. PICK s \in offering : \A u \in offering : r[s] <= r[u]
    <3> HIDE DEF ranks
    <3>1. PICK x \in ranks : \A y \in ranks : x <= y
      BY <2>3, Minimum
    <3>2. QED
      BY <3>1 DEF ranks
  <2>5. FirstOffering(r, up, t) \in offering
    <3> HIDE DEF offering
    <3>1. FirstOffering(r, up, t) = CHOOSE v \in offering : \A u \in offering : r[v] <= r[u]
      BY <1>2 DEF FirstOffering, offering
    <3>2. QED
      BY <3>1, <2>4
  <2>6. QED
    BY <2>5, McpRouterAssumption
<1>3. QED
  BY <1>1, <1>2

\* rebuildToolIndex makes an exact index of the servers it walks.
LEMMA RebuildIsExact ==
    ASSUME NEW up \in SUBSET Servers, RebuildToolIndex(up)
    PROVE  /\ toolMap' \in [Tools -> Servers \cup {None}]
           /\ \A t \in Tools :
                 /\ toolMap'[t] = None <=> \A s \in up : t \notin Offers[s]
                 /\ toolMap'[t] # None => toolMap'[t] \in up /\ t \in Offers[toolMap'[t]]
<1>1. PICK r \in Orders : toolMap' = [t \in Tools |-> FirstOffering(r, up, t)]
  BY DEF RebuildToolIndex
<1>2. \A t \in Tools : FirstOffering(r, up, t) \in Servers \cup {None}
  BY FirstOfferingFacts
<1>3. toolMap' \in [Tools -> Servers \cup {None}]
  BY <1>1, <1>2
<1>4. \A t \in Tools : toolMap'[t] = FirstOffering(r, up, t)
  BY <1>1
<1>5. QED
  BY <1>3, <1>4, FirstOfferingFacts

-----------------------------------------------------------------------------
(* What a step does to the table *)

\* The router's state changes by a whole connect or disconnect, whoever asks.
RouterStep ==
    \/ UNCHANGED routerVars
    \/ \E s \in Servers, cfg \in Configs : ConnectSucceeds(s, cfg)
    \/ \E s \in Servers : ConnectFails(s)
    \/ \E s \in Servers : Disconnect(s)

LEMMA EveryRouterStep == TypeOK /\ Locals /\ CallLocals /\ [Next]_vars => RouterStep
<1> SUFFICES ASSUME TypeOK, Locals, CallLocals, [Next]_vars PROVE RouterStep
  OBVIOUS
<1> USE DEF TypeOK, RouterStep
<1>1. ASSUME NEW c \in Calls, Reconnect(c) PROVE RouterStep
  <2>1. server[c] \in Servers /\ conn[c] \in Connection
    BY <1>1 DEF Reconnect, CallLocals, CallLocal
  <2>2. conn[c].cfg \in Configs
    BY <2>1 DEF Connection
  <2>3. QED
    BY <1>1, <2>1, <2>2 DEF Reconnect
<1>2. ASSUME NEW c \in Calls, CallStep(c), ~Reconnect(c) PROVE RouterStep
  BY <1>2 DEF CallStep, Route, SendPanics, Send, Refetch, Retry
<1>3. ASSUME NEW s \in Servers, ConnectAll(s) PROVE RouterStep
  BY <1>3 DEF ConnectAll, Locals
<1>4. ASSUME NEW s \in Servers, ConnectNew(s) PROVE RouterStep
  BY <1>4 DEF ConnectNew, Visiting
<1>5. CASE ReconnectDrifted
  BY <1>5 DEF ReconnectDrifted, Locals
<1>6. ASSUME NEW s \in Servers, DisconnectRemoved(s) PROVE RouterStep
  BY <1>6 DEF DisconnectRemoved
<1>7. CASE StartServing \/ Discover \/ List \/ EndTick \/ \E s \in Servers : CheckDrift(s)
  BY <1>7 DEF StartServing, Discover, List, EndTick, CheckDrift, BackToIdle
<1>8. CASE \E s \in Servers : Restart(s) \/ \E cfg \in Configs \cup {None} : Redeploy(s, cfg)
  BY <1>8 DEF Restart, Redeploy
<1>9. CASE UNCHANGED vars
  BY <1>9 DEF vars
<1>10. QED
  BY <1>1, <1>2, <1>3, <1>4, <1>5, <1>6, <1>7, <1>8, <1>9 DEF Next, ReconcileStep

\* A connect, a failed connect and a disconnect as they change the table.
LEMMA ConnectFacts ==
    ASSUME TypeOK, NEW s \in Servers, NEW cfg \in Configs, ConnectSucceeds(s, cfg)
    PROVE  /\ opened' = opened + 1
           /\ open' = (open \ SessionOf(s)) \cup {opened + 1}
           /\ servers' \in [Servers -> Connection \cup {None}]
           /\ servers'[s].session = opened + 1
           /\ \A u \in Servers \ {s} : servers'[u] = servers[u]
           /\ Connected' = Connected \cup {s}
           /\ toolMap' \in [Tools -> Servers \cup {None}]
<1> DEFINE sc == [session |-> opened + 1, cfg |-> cfg]
<1>1. sc \in Connection /\ sc.session = opened + 1
  BY DEF TypeOK, Connection
<1>2. sc # None
  BY <1>1, McpRouterAssumption
<1>3. /\ servers' \in [Servers -> Connection \cup {None}]
      /\ servers'[s] = sc
      /\ \A u \in Servers \ {s} : servers'[u] = servers[u]
  BY <1>1 DEF ConnectSucceeds, TypeOK
<1>4. Connected' = Connected \cup {s}
  BY <1>2, <1>3 DEF Connected
<1>5. toolMap' \in [Tools -> Servers \cup {None}]
  BY RebuildIsExact DEF ConnectSucceeds, Connected
<1>6. QED
  BY <1>1, <1>3, <1>4, <1>5 DEF ConnectSucceeds

LEMMA DropFacts ==
    ASSUME TypeOK, NEW s \in Servers,
           ConnectFails(s) \/ (servers[s] # None /\ Disconnect(s))
    PROVE  /\ opened' = opened
           /\ open' = open \ SessionOf(s)
           /\ servers' \in [Servers -> Connection \cup {None}]
           /\ \A u \in Servers \ {s} : servers'[u] = servers[u]
           /\ Connected' = Connected \ {s}
           /\ toolMap' \in [Tools -> Servers \cup {None}]
<1>1. servers' = [servers EXCEPT ![s] = None] /\ opened' = opened /\ open' = open \ SessionOf(s)
  BY DEF ConnectFails, Disconnect
<1>2. /\ servers' \in [Servers -> Connection \cup {None}]
      /\ servers'[s] = None
      /\ \A u \in Servers \ {s} : servers'[u] = servers[u]
  BY <1>1 DEF TypeOK
<1>3. Connected' = Connected \ {s}
  BY <1>2 DEF Connected
<1>4. toolMap' \in [Tools -> Servers \cup {None}]
  BY RebuildIsExact DEF TypeOK, ConnectFails, Disconnect, Connected
<1>5. QED
  BY <1>1, <1>2, <1>3, <1>4

\* From the step of the router: its three kinds of change.
LEMMA RouterCases ==
    ASSUME TypeOK, Locals, CallLocals, [Next]_vars
    PROVE  \/ UNCHANGED routerVars
           \/ \E s \in Servers, cfg \in Configs : ConnectSucceeds(s, cfg)
           \/ \E s \in Servers :
                 ConnectFails(s) \/ (servers[s] # None /\ Disconnect(s))
BY EveryRouterStep DEF RouterStep, Disconnect

\* Sessions only get younger: what a server has after a step it had before, or
\* it is the session just opened.
LEMMA Younger ==
    ASSUME TypeOK, Locals, CallLocals, [Next]_vars
    PROVE  /\ opened' \in Nat /\ opened' >= opened
           /\ \A s \in Connected' :
                 \/ s \in Connected /\ servers'[s] = servers[s]
                 \/ servers'[s].session = opened + 1 /\ opened' = opened + 1
<1>1. CASE UNCHANGED routerVars
  BY <1>1 DEF routerVars, Connected, TypeOK
<1>2. ASSUME NEW s \in Servers, NEW cfg \in Configs, ConnectSucceeds(s, cfg)
      PROVE  /\ opened' = opened + 1
             /\ \A u \in Connected' :
                   \/ u \in Connected /\ servers'[u] = servers[u]
                   \/ servers'[u].session = opened + 1
  BY <1>2, ConnectFacts DEF Connected
<1>3. ASSUME NEW s \in Servers, ConnectFails(s) \/ (servers[s] # None /\ Disconnect(s))
      PROVE  /\ opened' = opened
             /\ \A u \in Connected' : u \in Connected /\ servers'[u] = servers[u]
  BY <1>3, DropFacts DEF Connected
<1>4. QED
  BY <1>1, <1>2, <1>3, RouterCases DEF TypeOK

-----------------------------------------------------------------------------
(* Preservation *)

\* Nothing is connected and no call has come before ConnectAll begins.
LEMMA InitInv == Init => IInv
<1> SUFFICES ASSUME Init PROVE IInv
  OBVIOUS
<1>1. TypeOK
  <2>1. /\ servers \in [Servers -> Connection \cup {None}]
        /\ toolMap \in [Tools -> Servers \cup {None}]
        /\ opened \in Nat /\ open \subseteq 1 .. opened /\ lost \subseteq 1 .. opened
    BY DEF Init
  <2>2. /\ deployed \in [Servers -> Configs \cup {None}]
        /\ faults \in 0 .. MaxFaults
    BY McpRouterAssumption DEF Init
  <2>3. /\ failed \in BOOLEAN /\ panicked \in BOOLEAN
        /\ pc \in [Calls -> {"start", "send", "reconnect", "refetch", "retry", "done"}]
        /\ server \in [Calls -> Servers \cup {None}]
        /\ conn \in [Calls -> Connection \cup {None}]
        /\ outcome \in [Calls -> {"none", "ok", "failed", "unknown"}]
    BY DEF Init
  <2>4. /\ rpc \in {"startup", "idle", "list", "sweep"}
        /\ want \in [Servers -> Configs \cup {None}]
        /\ current \subseteq Servers /\ todo \subseteq Servers
        /\ drifted \in Servers \cup {None}
    BY McpRouterAssumption DEF Init
  <2>5. QED
    BY <2>1, <2>2, <2>3, <2>4 DEF TypeOK
<1>2. Locals /\ Table /\ CallLocals
  BY DEF Init, Locals, Table, CallLocals, CallLocal, Connected
<1>3. NoSessionLeak
  BY DEF Init, NoSessionLeak, SessionOf
<1>4. Reliable
  BY DEF Init, Reliable, Indexed, MissingServerIsHandled, Connected
<1>5. QED
  BY <1>1, <1>2, <1>3, <1>4 DEF IInv

\* The router's own variables.
LEMMA RouterTypeStep ==
    ASSUME TypeOK, Locals, Table, CallLocals, NoSessionLeak, [Next]_vars
    PROVE  /\ servers' \in [Servers -> Connection \cup {None}]
           /\ toolMap' \in [Tools -> Servers \cup {None}]
           /\ opened' \in Nat /\ open' \subseteq 1 .. opened'
<1>1. CASE UNCHANGED routerVars
  BY <1>1 DEF routerVars, TypeOK
<1>2. ASSUME NEW s \in Servers, NEW cfg \in Configs, ConnectSucceeds(s, cfg)
      PROVE  /\ servers' \in [Servers -> Connection \cup {None}]
             /\ toolMap' \in [Tools -> Servers \cup {None}]
             /\ opened' \in Nat /\ open' \subseteq 1 .. opened'
  <2>1. /\ opened \in Nat /\ open \subseteq 1 .. opened
        /\ opened' = opened + 1 /\ open' \subseteq open \cup {opened + 1}
    BY <1>2, ConnectFacts DEF TypeOK
  <2>2. QED
    BY <1>2, <2>1, ConnectFacts
<1>3. ASSUME NEW s \in Servers, ConnectFails(s) \/ (servers[s] # None /\ Disconnect(s))
      PROVE  /\ servers' \in [Servers -> Connection \cup {None}]
             /\ toolMap' \in [Tools -> Servers \cup {None}]
             /\ opened' \in Nat /\ open' \subseteq 1 .. opened'
  BY <1>3, DropFacts DEF TypeOK
<1>4. QED
  BY <1>1, <1>2, <1>3, RouterCases

\* Sessions are numbered as they are opened, each by one connect of one server.
LEMMA TableStep ==
    ASSUME TypeOK, Locals, Table, CallLocals, [Next]_vars
    PROVE  Table'
<1>1. CASE UNCHANGED routerVars
  BY <1>1 DEF routerVars, Table, Connected
<1>2. ASSUME NEW s \in Servers, NEW cfg \in Configs, ConnectSucceeds(s, cfg)
      PROVE  Table'
  <2>1. opened' = opened + 1 /\ opened \in Nat /\ servers'[s].session = opened + 1
    BY <1>2, ConnectFacts DEF TypeOK
  <2>2. \A u \in Connected' : u # s => u \in Connected /\ servers'[u] = servers[u]
    BY <1>2, ConnectFacts DEF Connected
  <2>3. \A u \in Connected' : u # s => servers'[u].session \in 1 .. opened
    BY <2>2 DEF Table
  <2>4. QED
    BY <2>1, <2>2, <2>3 DEF Table
<1>3. ASSUME NEW s \in Servers, ConnectFails(s) \/ (servers[s] # None /\ Disconnect(s))
      PROVE  Table'
  <2>1. opened' = opened /\ \A u \in Connected' : u \in Connected /\ servers'[u] = servers[u]
    BY <1>3, DropFacts DEF Connected
  <2>2. QED
    BY <2>1 DEF Table
<1>4. QED
  BY <1>1, <1>2, <1>3, RouterCases

\* A connect closes the session it replaces, and the numbers tell it from all
\* the others.
LEMMA NoLeakStep ==
    ASSUME TypeOK, Locals, Table, CallLocals, NoSessionLeak, [Next]_vars
    PROVE  NoSessionLeak'
<1>1. CASE UNCHANGED routerVars
  BY <1>1 DEF routerVars, NoSessionLeak, SessionOf
<1>2. open = {servers[s].session : s \in Connected}
  BY DEF NoSessionLeak, SessionOf, Connected
<1>3. ASSUME NEW s \in Servers
      PROVE  open \ SessionOf(s) = {servers[u].session : u \in Connected \ {s}}
  BY <1>2 DEF SessionOf, Connected, Table
<1>4. ASSUME open' = {servers'[s].session : s \in Connected'} PROVE NoSessionLeak'
  BY <1>4 DEF NoSessionLeak, SessionOf, Connected
<1>5. ASSUME NEW s \in Servers, NEW cfg \in Configs, ConnectSucceeds(s, cfg)
      PROVE  NoSessionLeak'
  <2>1. open' = {servers[u].session : u \in Connected \ {s}} \cup {servers'[s].session}
    BY <1>3, <1>5, ConnectFacts
  <2>2. \A u \in Connected \ {s} : servers'[u] = servers[u]
    BY <1>5, ConnectFacts DEF Connected
  <2>3. Connected' = Connected \cup {s}
    BY <1>5, ConnectFacts
  <2>4. QED
    BY <1>4, <2>1, <2>2, <2>3
<1>6. ASSUME NEW s \in Servers, ConnectFails(s) \/ (servers[s] # None /\ Disconnect(s))
      PROVE  NoSessionLeak'
  <2>1. open' = {servers[u].session : u \in Connected \ {s}}
    BY <1>3, <1>6, DropFacts
  <2>2. \A u \in Connected \ {s} : servers'[u] = servers[u]
    BY <1>6, DropFacts DEF Connected
  <2>3. Connected' = Connected \ {s}
    BY <1>6, DropFacts
  <2>4. QED
    BY <1>4, <2>1, <2>2, <2>3
<1>7. QED
  BY <1>1, <1>5, <1>6, RouterCases

-----------------------------------------------------------------------------
(* Who changes what *)

\* A step is one of a call, of the discovery goroutine, or of the world, and
\* each of them writes its own variables only.
LEMMA WhoSteps ==
    ASSUME [Next]_vars
    PROVE  \/ /\ \E c \in Calls : CallStep(c)
              /\ UNCHANGED <<lost, deployed, reconcileVars>>
           \/ /\ ReconcileStep
              /\ UNCHANGED <<lost, deployed, callVars>>
           \/ /\ \/ \E s \in Servers : Restart(s)
                 \/ \E s \in Servers, cfg \in Configs \cup {None} : Redeploy(s, cfg)
              /\ UNCHANGED <<routerVars, callVars, reconcileVars>>
           \/ UNCHANGED vars
<1>1. ASSUME NEW c \in Calls, CallStep(c)
      PROVE  UNCHANGED <<lost, deployed, reconcileVars>>
  <2>1. CASE Route(c)
    BY <2>1 DEF worldVars, Route, Finish, Proceed
  <2>2. CASE SendPanics(c)
    BY <2>2 DEF worldVars, SendPanics
  <2>3. CASE Send(c)
    BY <2>3 DEF worldVars, Send, Finish, Goto, Proceed
  <2>4. CASE Reconnect(c)
    BY <2>4 DEF worldVars, Reconnect, Finish, Goto, Proceed
  <2>5. CASE Refetch(c)
    BY <2>5 DEF worldVars, Refetch, Finish, Proceed
  <2>6. CASE Retry(c)
    BY <2>6 DEF worldVars, Retry, Finish
  <2>7. QED
    BY <1>1, <2>1, <2>2, <2>3, <2>4, <2>5, <2>6 DEF CallStep
<1>2. ASSUME ReconcileStep PROVE UNCHANGED <<lost, deployed, callVars>>
  <2>1. ASSUME NEW s \in Servers, ConnectAll(s) PROVE UNCHANGED <<lost, deployed, callVars>>
    BY <2>1 DEF worldVars, ConnectAll
  <2>2. ASSUME NEW s \in Servers, DisconnectRemoved(s) PROVE UNCHANGED <<lost, deployed, callVars>>
    BY <2>2 DEF worldVars, DisconnectRemoved
  <2>3. ASSUME NEW s \in Servers, ConnectNew(s) PROVE UNCHANGED <<lost, deployed, callVars>>
    BY <2>3 DEF worldVars, ConnectNew, Visiting
  <2>4. ASSUME NEW s \in Servers, CheckDrift(s) PROVE UNCHANGED <<lost, deployed, callVars>>
    BY <2>4 DEF worldVars, CheckDrift, Visiting
  <2>5. CASE StartServing
    BY <2>5 DEF worldVars, StartServing, BackToIdle
  <2>6. CASE Discover
    BY <2>6 DEF worldVars, Discover
  <2>7. CASE List
    BY <2>7 DEF worldVars, List
  <2>8. CASE ReconnectDrifted
    BY <2>8 DEF worldVars, ReconnectDrifted
  <2>9. CASE EndTick
    BY <2>9 DEF worldVars, EndTick, BackToIdle
  <2>10. QED
    BY <1>2, <2>1, <2>2, <2>3, <2>4, <2>5, <2>6, <2>7, <2>8, <2>9 DEF ReconcileStep
<1>3. ASSUME NEW s \in Servers, Restart(s) \/ \E cfg \in Configs \cup {None} : Redeploy(s, cfg)
      PROVE  UNCHANGED <<routerVars, callVars, reconcileVars>>
  BY <1>3 DEF Restart, Redeploy
<1>4. QED
  BY <1>1, <1>2, <1>3 DEF Next

\* Faults are counted, and a failed connect is remembered.
LEMMA FaultStep ==
    ASSUME [Next]_vars
    PROVE  \/ UNCHANGED faultVars
           \/ faults < MaxFaults /\ faults' = faults + 1 /\ failed' \in {failed, TRUE}
<1> DEFINE Counted == \/ UNCHANGED faultVars
                      \/ /\ faults < MaxFaults /\ faults' = faults + 1
                         /\ failed' \in {failed, TRUE}
<1>1. ASSUME NEW s, NEW cfg, ConnectSucceeds(s, cfg) \/ ConnectFails(s) PROVE Counted
  BY <1>1 DEF ConnectSucceeds, ConnectFails
<1>2. ASSUME NEW c \in Calls, CallStep(c) PROVE Counted
  <2>1. CASE Reconnect(c)
    BY <1>1, <2>1 DEF Reconnect
  <2>2. CASE ~Reconnect(c)
    BY <1>2, <2>2 DEF CallStep, Route, SendPanics, Send, Refetch, Retry, worldVars
  <2>3. QED
    BY <2>1, <2>2
<1>3. ASSUME ReconcileStep PROVE Counted
  <2>1. ASSUME NEW s \in Servers, ConnectAll(s) \/ ConnectNew(s) PROVE Counted
    BY <1>1, <2>1 DEF ConnectAll, ConnectNew
  <2>2. CASE ReconnectDrifted
    BY <1>1, <2>2 DEF ReconnectDrifted
  <2>3. ASSUME NEW s \in Servers, DisconnectRemoved(s) \/ CheckDrift(s) PROVE Counted
    BY <2>3 DEF DisconnectRemoved, CheckDrift, worldVars
  <2>4. CASE StartServing \/ Discover \/ List \/ EndTick
    BY <2>4 DEF StartServing, Discover, List, EndTick, BackToIdle, worldVars
  <2>5. QED
    BY <1>3, <2>1, <2>2, <2>3, <2>4 DEF ReconcileStep
<1>4. ASSUME NEW s \in Servers, Restart(s) \/ \E cfg \in Configs \cup {None} : Redeploy(s, cfg)
      PROVE  Counted
  BY <1>4 DEF Restart, Redeploy
<1>5. CASE UNCHANGED vars
  BY <1>5 DEF vars, worldVars
<1>6. QED
  BY <1>2, <1>3, <1>4, <1>5 DEF Next

\* The variables outside of the router.
LEMMA WorldTypeStep ==
    ASSUME TypeOK, Locals, Table, CallLocals, [Next]_vars
    PROVE  /\ lost' \subseteq 1 .. opened'
           /\ deployed' \in [Servers -> Configs \cup {None}]
           /\ faults' \in 0 .. MaxFaults /\ failed' \in BOOLEAN
<1>1. opened \in Nat /\ opened' \in Nat /\ opened' >= opened
  BY Younger DEF TypeOK
<1>2. lost' \subseteq 1 .. opened
  <2>1. ASSUME NEW s \in Servers PROVE SessionOf(s) \subseteq 1 .. opened
    BY DEF Table, SessionOf, Connected
  <2>2. QED
    BY <2>1, WhoSteps DEF TypeOK, worldVars, vars, Restart, Redeploy
<1>3. lost' \subseteq 1 .. opened'
  BY <1>1, <1>2
<1>4. deployed' \in [Servers -> Configs \cup {None}]
  BY WhoSteps DEF TypeOK, worldVars, vars, Restart, Redeploy
<1>5. faults' \in 0 .. MaxFaults
  <2>1. MaxFaults \in Nat /\ faults \in 0 .. MaxFaults
    BY McpRouterAssumption DEF TypeOK
  <2>2. faults' = faults \/ (faults < MaxFaults /\ faults' = faults + 1)
    BY FaultStep, Zenon DEF faultVars
  <2>3. QED
    BY <2>1, <2>2
<1>b. failed' \in BOOLEAN
  BY FaultStep DEF TypeOK, faultVars
<1>6. QED
  BY <1>3, <1>4, <1>5, <1>b

\* The locals of the calls.
LEMMA CallTypeStep ==
    ASSUME TypeOK, CallLocals, [Next]_vars
    PROVE  /\ panicked' \in BOOLEAN
           /\ pc' \in [Calls -> {"start", "send", "reconnect", "refetch", "retry", "done"}]
           /\ server' \in [Calls -> Servers \cup {None}]
           /\ conn' \in [Calls -> Connection \cup {None}]
           /\ outcome' \in [Calls -> {"none", "ok", "failed", "unknown"}]
<1> DEFINE CallsOK ==
             /\ panicked \in BOOLEAN
             /\ pc \in [Calls -> {"start", "send", "reconnect", "refetch", "retry", "done"}]
             /\ server \in [Calls -> Servers \cup {None}]
             /\ conn \in [Calls -> Connection \cup {None}]
             /\ outcome \in [Calls -> {"none", "ok", "failed", "unknown"}]
<1>1. /\ CallsOK
      /\ toolMap \in [Tools -> Servers \cup {None}] /\ ToolOf \in [Calls -> Tools]
      /\ servers \in [Servers -> Connection \cup {None}]
  BY McpRouterAssumption DEF TypeOK
<1>2. ASSUME NEW c \in Calls, CallStep(c) PROVE CallsOK'
  <2>1. CASE Route(c)
    BY <2>1, <1>1 DEF Route, Finish, Proceed
  <2>2. CASE SendPanics(c)
    BY <2>2, <1>1 DEF SendPanics
  <2>3. CASE Send(c)
    BY <2>3, <1>1 DEF Send, Finish, Goto, Proceed
  <2>4. CASE Reconnect(c)
    BY <2>4, <1>1 DEF Reconnect, Finish, Goto, Proceed
  <2>5. CASE Refetch(c)
    <3>1. server[c] \in Servers
      BY <1>1, <2>5 DEF Refetch, CallLocals, CallLocal
    <3>2. QED
      BY <1>1, <2>5, <3>1 DEF Refetch, Finish, Proceed
  <2>6. CASE Retry(c)
    BY <2>6, <1>1 DEF Retry, Finish
  <2>7. QED
    BY <1>2, <2>1, <2>2, <2>3, <2>4, <2>5, <2>6 DEF CallStep
<1>3. ASSUME UNCHANGED callVars PROVE CallsOK'
  BY <1>1, <1>3 DEF callVars
<1>4. QED
  BY <1>2, <1>3, WhoSteps DEF vars

\* The locals of reconcile.
LEMMA ReconcileTypeStep ==
    ASSUME TypeOK, [Next]_vars
    PROVE  /\ rpc' \in {"startup", "idle", "list", "sweep"}
           /\ want' \in [Servers -> Configs \cup {None}]
           /\ current' \subseteq Servers /\ todo' \subseteq Servers
           /\ drifted' \in Servers \cup {None}
<1> DEFINE ReconcileOK ==
             /\ rpc \in {"startup", "idle", "list", "sweep"}
             /\ want \in [Servers -> Configs \cup {None}]
             /\ current \subseteq Servers /\ todo \subseteq Servers
             /\ drifted \in Servers \cup {None}
<1>1. ReconcileOK /\ deployed \in [Servers -> Configs \cup {None}]
  BY DEF TypeOK
<1>2. ASSUME ReconcileStep PROVE ReconcileOK'
  <2>1. ASSUME NEW s \in Servers, ConnectAll(s) PROVE ReconcileOK'
    BY <2>1, <1>1 DEF ConnectAll
  <2>2. ASSUME NEW s \in Servers, DisconnectRemoved(s) PROVE ReconcileOK'
    BY <2>2, <1>1 DEF DisconnectRemoved
  <2>3. ASSUME NEW s \in Servers, ConnectNew(s) PROVE ReconcileOK'
    BY <2>3, <1>1 DEF ConnectNew, Visiting
  <2>4. ASSUME NEW s \in Servers, CheckDrift(s) PROVE ReconcileOK'
    BY <2>4, <1>1 DEF CheckDrift, Visiting
  <2>5. CASE StartServing
    BY <2>5, <1>1 DEF StartServing, BackToIdle
  <2>6. CASE Discover
    BY <2>6, <1>1 DEF Discover
  <2>7. CASE List
    BY <2>7, <1>1 DEF List, Connected
  <2>8. CASE ReconnectDrifted
    BY <2>8, <1>1 DEF ReconnectDrifted
  <2>9. CASE EndTick
    BY <2>9, <1>1 DEF EndTick, BackToIdle
  <2>10. QED
    BY <1>2, <2>1, <2>2, <2>3, <2>4, <2>5, <2>6, <2>7, <2>8, <2>9 DEF ReconcileStep
<1>3. ASSUME UNCHANGED reconcileVars PROVE ReconcileOK'
  BY <1>1, <1>3 DEF reconcileVars
<1>4. QED
  BY <1>2, <1>3, WhoSteps DEF vars

\* Every step keeps all of them in their types.
LEMMA TypeStep ==
    ASSUME TypeOK, Locals, Table, CallLocals, NoSessionLeak, [Next]_vars
    PROVE  TypeOK'
BY RouterTypeStep, WorldTypeStep, CallTypeStep, ReconcileTypeStep DEF TypeOK

\* A server is queued for a connect only with a configuration, and a tick is
\* over only when no drifted server is left.
LEMMA LocalsStep ==
    ASSUME TypeOK, Locals, [Next]_vars
    PROVE  Locals'
<1> USE DEF Locals
<1>1. drifted \in Servers \cup {None}
  BY DEF TypeOK
<1>2. ASSUME ReconcileStep PROVE Locals'
  <2>1. ASSUME NEW s \in Servers, ConnectAll(s) PROVE Locals'
    BY <2>1, <1>1 DEF ConnectAll
  <2>2. ASSUME NEW s \in Servers, DisconnectRemoved(s) PROVE Locals'
    BY <2>2, <1>1 DEF DisconnectRemoved
  <2>3. ASSUME NEW s \in Servers, ConnectNew(s) PROVE Locals'
    BY <2>3, <1>1 DEF ConnectNew, Visiting
  <2>4. ASSUME NEW s \in Servers, CheckDrift(s) PROVE Locals'
    BY <2>4, <1>1 DEF CheckDrift, Visiting
  <2>5. CASE StartServing
    BY <2>5, <1>1 DEF StartServing, BackToIdle
  <2>6. CASE Discover
    BY <2>6, <1>1 DEF Discover
  <2>7. CASE List
    BY <2>7, <1>1 DEF List
  <2>8. CASE ReconnectDrifted
    BY <2>8, <1>1 DEF ReconnectDrifted
  <2>9. CASE EndTick
    BY <2>9, <1>1 DEF EndTick, BackToIdle
  <2>10. QED
    BY <1>2, <2>1, <2>2, <2>3, <2>4, <2>5, <2>6, <2>7, <2>8, <2>9 DEF ReconcileStep
<1>3. ASSUME UNCHANGED reconcileVars PROVE Locals'
  BY <1>3 DEF reconcileVars
<1>4. QED
  BY <1>2, <1>3, WhoSteps DEF vars

\* A call gets older connections, its server younger ones.
LEMMA CallLocalsStep ==
    ASSUME TypeOK, Locals, Table, CallLocals, [Next]_vars
    PROVE  CallLocals'
<1>1. /\ opened \in Nat /\ opened' \in Nat /\ opened' >= opened
      /\ \A s \in Connected' :
            \/ s \in Connected /\ servers'[s] = servers[s]
            \/ servers'[s].session = opened + 1
  BY Younger DEF TypeOK
<1>2. \A c \in Calls : conn[c] # None => conn[c].session \in Nat
  BY DEF TypeOK, Connection
<1>3. ASSUME NEW c \in Calls, UNCHANGED <<pc[c], server[c], conn[c]>>
      PROVE  CallLocal(c)'
  BY <1>1, <1>2, <1>3 DEF CallLocals, CallLocal
<1>4. ASSUME NEW c \in Calls, CallStep(c) PROVE CallLocals'
  <2>a. ASSUME NEW d \in Calls \ {c} PROVE CallLocal(d)'
    <3>1. UNCHANGED <<pc[d], server[d], conn[d]>>
      BY <1>4 DEF CallStep, Route, SendPanics, Send, Reconnect, Refetch, Retry,
                  Finish, Goto, Proceed, TypeOK
    <3>2. QED
      BY <1>3, <3>1
  <2>b. ASSUME CallLocal(c)' PROVE CallLocals'
    BY <2>a, <2>b DEF CallLocals
  <2>c. CallLocal(c)
    BY DEF CallLocals
  <2>1. CASE Route(c)
    <3>1. toolMap[ToolOf[c]] \in Servers \cup {None}
      BY McpRouterAssumption DEF TypeOK
    <3>2. servers[toolMap[ToolOf[c]]] # None /\ toolMap[ToolOf[c]] # None =>
             servers[toolMap[ToolOf[c]]].session \in 1 .. opened
      BY <3>1 DEF Table, Connected
    <3>3. CallLocal(c)'
      BY <1>1, <2>1, <3>1, <3>2 DEF Route, Finish, Proceed, TypeOK, CallLocal, routerVars
    <3>4. QED
      BY <2>b, <3>3
  <2>2. CASE SendPanics(c)
    BY <2>2, <1>1, <2>b, <2>c DEF SendPanics, TypeOK, CallLocal, routerVars
  <2>3. CASE Send(c)
    BY <2>3, <1>1, <2>b, <2>c DEF Send, Finish, Goto, Proceed, TypeOK, CallLocal, routerVars
  <2>4. CASE Reconnect(c)
    <3>1. /\ server[c] # None /\ server[c] \in Servers
          /\ conn[c] # None /\ conn[c].session \in Nat /\ conn[c].cfg \in Configs
      BY <2>4, <2>c DEF Reconnect, CallLocal, TypeOK, Connection
    <3>2. CASE ConnectSucceeds(server[c], conn[c].cfg) /\ Goto(c, "refetch")
      <4>1. servers'[server[c]].session = opened + 1
        BY <3>1, <3>2, ConnectFacts
      <4>2. pc'[c] = "refetch" /\ server'[c] = server[c] /\ conn'[c] = conn[c]
        BY <3>2 DEF Goto, Proceed, TypeOK
      <4>3. CallLocal(c)'
        BY <1>1, <2>c, <3>1, <4>1, <4>2 DEF CallLocal
      <4>4. QED
        BY <2>b, <4>3
    <3>3. CASE Finish(c, "failed")
      BY <2>b, <3>3 DEF Finish, CallLocal, TypeOK
    <3>4. QED
      BY <2>4, <3>2, <3>3 DEF Reconnect
  <2>5. CASE Refetch(c)
    <3>1. server[c] # None /\ server[c] \in Servers /\ conn[c] # None
      BY <2>5, <2>c DEF Refetch, CallLocal, TypeOK
    <3>2. servers[server[c]] # None => servers[server[c]].session \in 1 .. opened
      BY <3>1 DEF Table, Connected
    <3>3. CallLocal(c)'
      BY <1>1, <2>5, <3>1, <3>2 DEF Refetch, Finish, Proceed, TypeOK, CallLocal, routerVars
    <3>4. QED
      BY <2>b, <3>3
  <2>6. CASE Retry(c)
    BY <2>6, <1>1, <2>b, <2>c DEF Retry, Finish, TypeOK, CallLocal, routerVars
  <2>7. QED
    BY <1>4, <2>1, <2>2, <2>3, <2>4, <2>5, <2>6 DEF CallStep
<1>5. QED
  BY <1>3, <1>4, WhoSteps DEF vars, callVars, CallLocals


\* Unless a connect fails the index is rebuilt with every change of the table.
LEMMA IndexStep ==
    ASSUME TypeOK, Locals, CallLocals, ~failed', \A t \in Tools : Indexed(t), [Next]_vars
    PROVE  \A t \in Tools : Indexed(t)'
<1>1. CASE UNCHANGED routerVars
  BY <1>1 DEF routerVars, Indexed, Connected
<1>2. ASSUME NEW up \in SUBSET Servers, RebuildToolIndex(up), Connected' = up
      PROVE  \A t \in Tools : Indexed(t)'
  BY <1>2, RebuildIsExact DEF Indexed
<1>3. ASSUME NEW s \in Servers, NEW cfg \in Configs, ConnectSucceeds(s, cfg)
      PROVE  \A t \in Tools : Indexed(t)'
  <2>1. Connected' = Connected \cup {s} /\ Connected \cup {s} \in SUBSET Servers
    BY <1>3, ConnectFacts DEF Connected
  <2>2. QED
    BY <1>2, <1>3, <2>1 DEF ConnectSucceeds
<1>4. ASSUME NEW s \in Servers, servers[s] # None /\ Disconnect(s)
      PROVE  \A t \in Tools : Indexed(t)'
  <2>1. Connected' = Connected \ {s} /\ Connected \ {s} \in SUBSET Servers
    BY <1>4, DropFacts DEF Connected
  <2>2. QED
    BY <1>2, <1>4, <2>1 DEF Disconnect
<1>5. QED
  BY <1>1, <1>3, <1>4, RouterCases DEF ConnectFails

\* A call reads an exact index, so the connection it takes along exists.
LEMMA ReliableStep ==
    ASSUME TypeOK, Locals, CallLocals, Reliable, [Next]_vars
    PROVE  Reliable'
<1> SUFFICES ASSUME ~failed'
             PROVE  /\ \A t \in Tools : Indexed(t)'
                    /\ MissingServerIsHandled'
                    /\ \A c \in Calls : pc'[c] = "send" => conn'[c] # None
  BY DEF Reliable
<1>a. ~failed
  BY FaultStep DEF faultVars
<1>1. /\ (\A t \in Tools : Indexed(t)) /\ ~panicked
      /\ \A c \in Calls : pc[c] = "send" => conn[c] # None
  BY <1>a DEF Reliable, MissingServerIsHandled
<1>2. \A t \in Tools : Indexed(t)'
  BY <1>1, IndexStep
<1>3. ASSUME NEW c \in Calls, CallStep(c)
      PROVE  ~panicked' /\ \A d \in Calls : pc'[d] = "send" => conn'[d] # None
  <2> USE <1>1 DEF TypeOK
  <2>1. CASE Route(c)
    <3>1. toolMap[ToolOf[c]] # None => servers[toolMap[ToolOf[c]]] # None
      BY McpRouterAssumption DEF Indexed, Connected
    <3>2. QED
      BY <2>1, <3>1 DEF Route, Finish, Proceed
  <2>2. CASE SendPanics(c)
    BY <2>2 DEF SendPanics
  <2>3. CASE Send(c)
    BY <2>3 DEF Send, Finish, Goto, Proceed
  <2>4. CASE Reconnect(c)
    BY <2>4 DEF Reconnect, Finish, Goto, Proceed
  <2>5. CASE Refetch(c)
    BY <2>5 DEF Refetch, Finish, Proceed
  <2>6. CASE Retry(c)
    BY <2>6 DEF Retry, Finish
  <2>7. QED
    BY <1>3, <2>1, <2>2, <2>3, <2>4, <2>5, <2>6 DEF CallStep
<1>4. QED
  BY <1>1, <1>2, <1>3, WhoSteps DEF vars, callVars, MissingServerIsHandled

\* All of the invariant, in every reachable state.
THEOREM Inductive == Spec => []IInv
<1>1. IInv /\ [Next]_vars => IInv'
  BY TypeStep, LocalsStep, TableStep, CallLocalsStep, NoLeakStep, ReliableStep DEF IInv
<1>2. QED
  BY InitInv, <1>1, PTL DEF Spec

-----------------------------------------------------------------------------
(* Theorems *)

\* The router closes every session it does not hold, whichever of Connect,
\* Disconnect, CallTool's reconnect and reconcile replaced it.
THEOREM SessionsAreNotLeaked == Spec => []NoSessionLeak
<1>1. IInv => NoSessionLeak
  BY DEF IInv
<1>2. QED
  BY Inductive, <1>1, PTL

\* The one retry of CallTool is sent on a session younger than the one that was
\* stale, also when another call or reconcile has reconnected meanwhile.
THEOREM RetriesAreFresh == Spec => RetryIsFresh
<1>1. ASSUME IInv, [Next]_vars, NEW c \in Calls, pc[c] = "refetch", pc'[c] = "retry"
      PROVE  conn'[c].session > conn[c].session
  <2>1. Refetch(c)
    BY <1>1 DEF IInv, TypeOK, Next, CallStep, Route, SendPanics, Send, Reconnect, Refetch, Retry,
                Finish, Goto, Proceed, ReconcileStep, StartServing, Discover, List, EndTick,
                ReconnectDrifted, ConnectAll, DisconnectRemoved, ConnectNew, CheckDrift,
                BackToIdle, Restart, Redeploy, callVars, vars
  <2>2. server[c] \in Servers /\ servers[server[c]] # None /\ conn'[c] = servers[server[c]]
    BY <1>1, <2>1 DEF Refetch, Finish, Proceed, IInv, TypeOK, CallLocals, CallLocal
  <2>3. QED
    BY <1>1, <2>2 DEF IInv, CallLocals, CallLocal, Connected
<1>2. IInv /\ [Next]_vars =>
         [\A c \in Calls : pc[c] = "refetch" /\ pc'[c] = "retry" =>
             conn'[c].session > conn[c].session]_vars
  BY <1>1
<1>3. QED
  BY Inductive, <1>2, PTL DEF Spec, RetryIsFresh

\* As long as no connect has failed, the tool index names exactly what the
\* connected servers offer, over connects, disconnects and reconnects.
THEOREM IndexFollowsTable == Spec => []IndexIsExact
<1>1. IInv => IndexIsExact
  BY DEF IInv, Reliable, IndexIsExact
<1>2. QED
  BY Inductive, <1>1, PTL

\* The missing connection that CallTool dereferences takes a connect that failed:
\* without one, no call ever finds a server of the index gone.
THEOREM PanicTakesAFailedConnect == Spec => [](panicked => failed)
<1>1. IInv => (panicked => failed)
  BY DEF IInv, Reliable, MissingServerIsHandled
<1>2. QED
  BY Inductive, <1>1, PTL
=============================================================================
