----------------------- MODULE ConnectionManagerProofs -----------------------
(***************************************************************************)
(* Theorems about ConnectionManager, for any users, devices, connections,  *)
(* requests and tools.  IInv is the inductive invariant: the three safety  *)
(* invariants strengthened with what is known of a request that has not    *)
(* been sent and of the names a client was given.                          *)
(***************************************************************************)
EXTENDS ConnectionManager, ToolNamesProofs

\* A request that has not been handled yet was sent on no connection.
IdleUnsent == \A r \in Reqs : calls[r] = "idle" => via[r] = NoConn

\* A name is a tool's own, or carries the prefix of the tool's device.
Named(e) == e.name \in {e.tool, Joined(e.device, e.tool)}

\* So is every name some client was given.
SeenNamed == \A u \in Users : \A e \in seen[u] : Named(e)

IInv ==
  /\ TypeOK
  /\ RegistryExact
  /\ PendingExact
  /\ Isolation
  /\ IdleUnsent
  /\ SeenNamed

-----------------------------------------------------------------------------
(* The operators the relay's handlers are built from. *)

\* What getToolsForUser lists is a well-typed name with a device of the user.
LEMMA ToolsForUserType ==
  ASSUME TypeOK, NEW u \in Users
  PROVE  ToolsForUser(u) \subseteq [name : PublicNames, device : Names, tool : Tools]
<1> SUFFICES ASSUME NEW c \in connections[u], NEW t \in tools[c]
             PROVE  /\ PublicName(u, c, t) \in PublicNames
                    /\ NameOf[c] \in Names /\ t \in Tools
  BY DEF ToolsForUser
<1>1. NameOf[c] \in Names /\ t \in Tools
  BY ConnAssumption DEF TypeOK
<1> QED
  BY <1>1 DEF PublicName, PublicNames

\* Every listed name is the tool's own or carries the prefix of its own device.
LEMMA ToolsForUserNamed ==
  ASSUME NEW u \in Users
  PROVE  \A e \in ToolsForUser(u) : Named(e)
BY DEF ToolsForUser, PublicName, Named

\* sendRequest finds a connection of the calling user.
LEMMA CandidatesOwn ==
  ASSUME TypeOK, RegistryExact, NEW u \in Users, NEW n, NEW c \in Candidates(u, n)
  PROVE  c \in Conns /\ c \in connections[u] /\ UserOf[c] = u
BY DEF TypeOK, RegistryExact, Candidates

\* A user's list holds one connection per device name.
LEMMA OnePerDevice ==
  ASSUME RegistryExact, NEW u \in Users,
         NEW c \in connections[u], NEW d \in connections[u], NameOf[c] = NameOf[d]
  PROVE  c = d
BY DEF RegistryExact

\* Device names and tool names are sequences of characters.
LEMMA NamesAreStrings ==
  /\ Underscore \in Chars
  /\ \A m \in Names : m \in Seq(Chars)
  /\ \A t \in Tools : t \in Seq(Chars)
BY ConnAssumption DEF Chars

\* The connection found for a name has a tool listed under it at this moment, and
\* the name without the prefix is that tool's own.
LEMMA FoundListed ==
  ASSUME TypeOK, RegistryExact, NEW u \in Users, NEW n, NEW c \in Candidates(u, n)
  PROVE  \E t \in tools[c] : n = PublicName(u, c, t) /\ OriginalName(u, NameOf[c], n) = t
<1>1. c \in Conns /\ c \in connections[u] /\ NameOf[c] \in Names
  BY CandidatesOwn, ConnAssumption
<1>2. PICK e \in ToolsForUser(u) : e.name = n /\ e.device = NameOf[c]
  BY DEF Candidates
<1>3. PICK d \in connections[u] : \E t \in tools[d] :
        e = [name |-> PublicName(u, d, t), device |-> NameOf[d], tool |-> t]
  BY <1>2 DEF ToolsForUser
<1>4. d = c
  BY <1>1, <1>2, <1>3, OnePerDevice
<1>5. PICK t \in tools[c] : n = PublicName(u, c, t)
  BY <1>2, <1>3, <1>4
<1>6. t \in Tools
  BY <1>1, <1>5 DEF TypeOK
<1>7. Stripped(NameOf[c], Joined(NameOf[c], t)) = t
  BY <1>1, <1>6, NamesAreStrings, StripJoined
<1>8. OriginalName(u, NameOf[c], n) = t
  BY <1>5, <1>7 DEF OriginalName, PublicName
<1> QED
  BY <1>5, <1>8

-----------------------------------------------------------------------------
(* Type correctness and the inductive invariant. *)

LEMMA InitInv == Init => IInv
<1> SUFFICES ASSUME Init PROVE IInv
  OBVIOUS
<1>1. TypeOK
  BY ConnAssumption DEF Init, TypeOK
<1>2. RegistryExact
  BY ConnAssumption DEF Init, RegistryExact, Live
<1>3. PendingExact /\ Isolation /\ IdleUnsent /\ SeenNamed
  BY DEF Init, PendingExact, Isolation, IdleUnsent, SeenNamed
<1> QED
  BY <1>1, <1>2, <1>3 DEF IInv

LEMMA StepType == IInv /\ [Next]_vars => TypeOK'
<1> SUFFICES ASSUME IInv, [Next]_vars PROVE TypeOK'
  OBVIOUS
<1> USE ConnAssumption DEF IInv
<1>1. ASSUME NEW c \in Conns, AddConnection(c) PROVE TypeOK'
  BY <1>1 DEF AddConnection, RegisterReplacing, TypeOK
<1>2. ASSUME NEW c \in Conns, WsClose(c) PROVE TypeOK'
  BY <1>2 DEF WsClose, RemoveConnection, TypeOK
<1>3. ASSUME NEW c \in Conns, GoQuiet(c) \/ Ping(c) PROVE TypeOK'
  <2>1. PICK b \in BOOLEAN : quiet' = [quiet EXCEPT ![c] = b]
    BY <1>3 DEF GoQuiet, Ping
  <2>2. UNCHANGED <<ws, tools, registry, pending, timers, calls, via, method, atAgent, seen, latest>>
    BY <1>3 DEF GoQuiet, Ping, relayVars
  <2> QED
    BY <2>1, <2>2 DEF registry, TypeOK
<1>4. ASSUME NEW c \in Conns, NEW ts \in ToolLists, ReceiveTools(c, ts) PROVE TypeOK'
  BY <1>4 DEF ReceiveTools, relayVars, registry, TypeOK
<1>5. CASE StaleSweep
  BY <1>5 DEF StaleSweep, relayVars, registry, TypeOK
<1>6. ASSUME NEW u \in Users, ListTools(u) PROVE TypeOK'
  <2>1. ToolsForUser(u) \subseteq [name : PublicNames, device : Names, tool : Tools]
    BY ToolsForUserType
  <2> QED
    BY <1>6, <2>1 DEF ListTools, relayVars, registry, TypeOK
<1>7. ASSUME NEW r \in Reqs, NEW n \in PublicNames, CallTool(r, n) PROVE TypeOK'
  <2>1. CallerOf[r] \in Users
    OBVIOUS
  <2>2. PICK c \in Candidates(CallerOf[r], n) : SendRequest(r, c, OriginalName(CallerOf[r], NameOf[c], n))
    BY <1>7 DEF CallTool, registry
  <2>3. c \in Conns
    BY <2>1, <2>2, CandidatesOwn
  <2>4. OriginalName(CallerOf[r], NameOf[c], n) \in Tools
    <3>1. OriginalName(CallerOf[r], NameOf[c], n) \in tools[c]
      BY <2>1, <2>2, FoundListed
    <3> QED
      BY <2>3, <3>1 DEF TypeOK
  <2> QED
    BY <1>7, <2>2, <2>3, <2>4 DEF CallTool, SendRequest, TypeOK, Outcomes, registry
<1>8. ASSUME NEW r \in Reqs, NEW n \in PublicNames, CallUnknownTool(r, n) PROVE TypeOK'
  BY <1>8 DEF CallUnknownTool, TypeOK, Outcomes, registry
<1>9. ASSUME NEW c \in Conns, NEW r \in Reqs, NEW o \in {"result", "error"},
             ReceiveAnswer(c, r, o)
      PROVE  TypeOK'
  BY <1>9 DEF ReceiveAnswer, Settle, TypeOK, Outcomes, registry
<1>10. ASSUME NEW r \in Reqs, RequestTimeout(r) PROVE TypeOK'
  BY <1>10 DEF RequestTimeout, Settle, TypeOK, Outcomes, registry
<1>11. CASE UNCHANGED vars
  BY <1>11 DEF vars, TypeOK, registry
<1> QED
  BY <1>1, <1>2, <1>3, <1>4, <1>5, <1>6, <1>7, <1>8, <1>9, <1>10, <1>11 DEF Next

LEMMA StepRegistry == IInv /\ [Next]_vars => RegistryExact'
<1> SUFFICES ASSUME IInv, [Next]_vars PROVE RegistryExact'
  OBVIOUS
<1> USE ConnAssumption DEF IInv
<1>1. ASSUME NEW c \in Conns, AddConnection(c) PROVE RegistryExact'
  BY <1>1 DEF AddConnection, RegisterReplacing, TypeOK, RegistryExact, Live
<1>2. ASSUME NEW c \in Conns, WsClose(c) PROVE RegistryExact'
  BY <1>2 DEF WsClose, RemoveConnection, TypeOK, RegistryExact, Live
<1>3. CASE StaleSweep
  BY <1>3 DEF StaleSweep, relayVars, registry, TypeOK, RegistryExact, Live
<1>4. CASE UNCHANGED <<ws, connections, latest>>
  BY <1>4 DEF RegistryExact, Live
<1>5. ASSUME NEW c \in Conns, GoQuiet(c) \/ Ping(c) PROVE UNCHANGED <<ws, connections, latest>>
  BY <1>5 DEF GoQuiet, Ping, relayVars, registry
<1>6. ASSUME NEW c \in Conns, NEW ts \in ToolLists, ReceiveTools(c, ts)
      PROVE  UNCHANGED <<ws, connections, latest>>
  BY <1>6 DEF ReceiveTools, relayVars, registry
<1>7. ASSUME NEW u \in Users, ListTools(u) PROVE UNCHANGED <<ws, connections, latest>>
  BY <1>7 DEF ListTools, relayVars, registry
<1>8. ASSUME NEW r \in Reqs, NEW n \in PublicNames, CallTool(r, n) \/ CallUnknownTool(r, n)
      PROVE  UNCHANGED <<ws, connections, latest>>
  BY <1>8 DEF CallTool, CallUnknownTool, registry
<1>9. ASSUME NEW c \in Conns, NEW r \in Reqs, NEW o, ReceiveAnswer(c, r, o)
      PROVE  UNCHANGED <<ws, connections, latest>>
  BY <1>9 DEF ReceiveAnswer, registry
<1>10. ASSUME NEW r \in Reqs, RequestTimeout(r) PROVE UNCHANGED <<ws, connections, latest>>
  BY <1>10 DEF RequestTimeout, registry
<1>11. CASE UNCHANGED vars
  BY <1>4, <1>11 DEF vars, registry
<1> QED
  BY <1>1, <1>2, <1>3, <1>4, <1>5, <1>6, <1>7, <1>8, <1>9, <1>10, <1>11 DEF Next

\* The variables that record what became of each request.
requestVars == <<pending, timers, calls, via, atAgent>>

\* Steps of connections, agents' registrations and listings touch no request.
LEMMA OtherSteps ==
  ASSUME \/ \E c \in Conns : AddConnection(c) \/ WsClose(c) \/ GoQuiet(c) \/ Ping(c)
         \/ \E c \in Conns, ts \in ToolLists : ReceiveTools(c, ts)
         \/ StaleSweep
         \/ \E u \in Users : ListTools(u)
         \/ UNCHANGED vars
  PROVE  UNCHANGED requestVars
BY DEF AddConnection, WsClose, RemoveConnection, GoQuiet, Ping, ReceiveTools, StaleSweep,
       ListTools, relayVars, registry, vars, requestVars

LEMMA StepRequests ==
  IInv /\ [Next]_vars => PendingExact' /\ Isolation' /\ IdleUnsent'
<1> SUFFICES ASSUME IInv, [Next]_vars PROVE PendingExact' /\ Isolation' /\ IdleUnsent'
  OBVIOUS
<1> USE ConnAssumption DEF IInv
<1>1. CASE UNCHANGED requestVars
  BY <1>1 DEF requestVars, PendingExact, Isolation, IdleUnsent
<1>2. ASSUME NEW r \in Reqs, NEW n \in PublicNames, CallTool(r, n)
      PROVE  PendingExact' /\ Isolation' /\ IdleUnsent'
  <2>1. PICK c \in Candidates(CallerOf[r], n) : SendRequest(r, c, OriginalName(CallerOf[r], NameOf[c], n))
    BY <1>2 DEF CallTool
  <2>2. c \in Conns /\ UserOf[c] = CallerOf[r]
    BY <2>1, CandidatesOwn
  <2>3. \A d \in Conns : r \notin atAgent[d]
    BY <1>2 DEF CallTool, IdleUnsent, Isolation
  <2>4. PendingExact'
    BY <2>1 DEF SendRequest, TypeOK, PendingExact
  <2>5. Isolation'
    BY <2>1, <2>2, <2>3 DEF SendRequest, TypeOK, Isolation
  <2>6. IdleUnsent'
    BY <2>1 DEF SendRequest, TypeOK, IdleUnsent
  <2> QED
    BY <2>4, <2>5, <2>6
<1>3. ASSUME NEW r \in Reqs, NEW n \in PublicNames, CallUnknownTool(r, n)
      PROVE  PendingExact' /\ Isolation' /\ IdleUnsent'
  BY <1>3 DEF CallUnknownTool, TypeOK, PendingExact, Isolation, IdleUnsent
<1>4. ASSUME NEW c \in Conns, NEW r \in Reqs, NEW o \in {"result", "error"},
             ReceiveAnswer(c, r, o)
      PROVE  PendingExact' /\ Isolation' /\ IdleUnsent'
  <2>1. PendingExact'
    <3>1. CASE r \in pending
      <4>1. pending' = pending \ {r} /\ timers' = timers \ {r} /\ calls' = [calls EXCEPT ![r] = o]
        BY <1>4, <3>1 DEF ReceiveAnswer, Settle, PendingExact
      <4> QED
        BY <4>1 DEF TypeOK, PendingExact
    <3>2. CASE r \notin pending
      BY <1>4, <3>2 DEF ReceiveAnswer, PendingExact
    <3> QED
      BY <3>1, <3>2
  <2>2. IdleUnsent'
    BY <1>4 DEF ReceiveAnswer, Settle, TypeOK, PendingExact, IdleUnsent
  <2>3. Isolation'
    BY <1>4 DEF ReceiveAnswer, TypeOK, Isolation
  <2> QED
    BY <2>1, <2>2, <2>3
<1>5. ASSUME NEW r \in Reqs, RequestTimeout(r)
      PROVE  PendingExact' /\ Isolation' /\ IdleUnsent'
  BY <1>5 DEF RequestTimeout, Settle, TypeOK, PendingExact, Isolation, IdleUnsent
<1> QED
  BY <1>1, <1>2, <1>3, <1>4, <1>5, OtherSteps DEF Next

LEMMA StepSeen == IInv /\ [Next]_vars => SeenNamed'
<1> SUFFICES ASSUME IInv, [Next]_vars PROVE SeenNamed'
  OBVIOUS
<1>1. ASSUME NEW u \in Users, ListTools(u) PROVE SeenNamed'
  BY <1>1, ToolsForUserNamed DEF ListTools, IInv, TypeOK, SeenNamed
<1>2. ASSUME ~ \E u \in Users : ListTools(u) PROVE seen' = seen
  BY <1>2 DEF Next, vars, AddConnection, WsClose, GoQuiet, Ping, ReceiveTools, StaleSweep,
              CallTool, CallUnknownTool, ReceiveAnswer, RequestTimeout
<1> QED
  BY <1>1, <1>2 DEF SeenNamed, IInv

LEMMA StepInv == IInv /\ [Next]_vars => IInv'
BY StepType, StepRegistry, StepRequests, StepSeen DEF IInv

\* The inductive invariant holds in every reachable state.
LEMMA Invariance == Spec => []IInv
<1>1. Init => IInv
  BY InitInv
<1>2. IInv /\ [Next]_vars => IInv'
  BY StepInv
<1> QED
  BY <1>1, <1>2, PTL DEF Spec

\* The relay's variables keep their types under every order of connects, closes,
\* calls, answers and timeouts.
THEOREM TypeCorrect == Spec => []TypeOK
<1>1. IInv => TypeOK
  BY DEF IInv
<1> QED
  BY <1>1, Invariance, PTL

\* addConnection and removeConnection keep the registry exact: a late close of a
\* replaced connection never unlists its successor, and no closed one stays listed.
THEOREM RegistryStaysExact == Spec => []RegistryExact
<1>1. IInv => RegistryExact
  BY DEF IInv
<1> QED
  BY <1>1, Invariance, PTL

\* sendRequest, handleMessage and the timeout keep the pending table, the armed
\* timers and the unsettled promises equal.
THEOREM PendingStaysExact == Spec => []PendingExact
<1>1. IInv => PendingExact
  BY DEF IInv
<1> QED
  BY <1>1, Invariance, PTL

\* A tool call never reaches an agent of another user.
THEOREM CallsStayIsolated == Spec => []Isolation
<1>1. IInv => Isolation
  BY DEF IInv
<1> QED
  BY <1>1, Invariance, PTL

-----------------------------------------------------------------------------
(* Routing. *)

LEMMA CallRouted ==
  ASSUME IInv, NEW r \in Reqs, NEW n \in PublicNames
  PROVE  Routed(r, n)
<1> SUFFICES ASSUME CallTool(r, n) PROVE Routed(r, n)
  BY DEF Routed
<1> USE DEF IInv
<1>1. PICK u : u = CallerOf[r]
  OBVIOUS
<1>2. u \in Users
  BY <1>1, ConnAssumption
<1>3. PICK c \in Candidates(u, n) : SendRequest(r, c, OriginalName(u, NameOf[c], n))
  BY <1>1 DEF CallTool
<1>4. c \in Conns /\ c \in connections[u] /\ NameOf[c] \in Names
  BY <1>2, <1>3, CandidatesOwn, ConnAssumption
<1>5. PICK t \in tools[c] : n = PublicName(u, c, t) /\ OriginalName(u, NameOf[c], n) = t
  BY <1>2, <1>3, FoundListed
<1>6. via'[r] = c /\ method'[r] = t
  BY <1>3, <1>4, <1>5 DEF SendRequest, TypeOK
<1>7. t \in Tools
  BY <1>4, <1>5 DEF TypeOK
<1>8. ASSUME Clear(n), NEW e \in seen[u], e.name = n
      PROVE  /\ t = e.tool
             /\ \/ NameOf[c] = e.device
                \/ n = e.tool /\ connections[u] = {c}
  <2>1. PICK d \in Names, o \in Tools : d = e.device /\ o = e.tool
    BY <1>2 DEF TypeOK
  <2>2. n \in {o, Joined(d, o)}
    BY <1>2, <1>8, <2>1 DEF SeenNamed, Named
  <2>3. /\ n \in Tools => \A m \in Names, y \in Tools : n # Joined(m, y)
        /\ \A m1, m2 \in Names, y1, y2 \in Tools :
             n = Joined(m1, y1) /\ n = Joined(m2, y2) => m1 = m2
    BY <1>8 DEF Clear
  <2>4. CASE MultiDevice(u)
    <3>1. n = Joined(NameOf[c], t)
      BY <1>5, <2>4 DEF PublicName
    <3>2. n = Joined(d, o) /\ d = NameOf[c]
      BY <1>4, <1>7, <2>1, <2>2, <2>3, <3>1
    <3>3. Stripped(d, Joined(d, o)) = o /\ Stripped(d, Joined(d, t)) = t
      BY <1>7, <2>1, NamesAreStrings, StripJoined
    <3> QED
      BY <2>1, <3>1, <3>2, <3>3
  <2>5. CASE ~MultiDevice(u)
    <3>1. n = t /\ connections[u] = {c}
      BY <1>4, <1>5, <2>5 DEF PublicName, MultiDevice
    <3> QED
      BY <1>7, <2>1, <2>2, <2>3, <3>1
  <2> QED
    BY <2>4, <2>5
<1> QED
  BY <1>1, <1>4, <1>5, <1>6, <1>8 DEF Routed

\* A call goes to an agent of its user under a name the agent registered; and if
\* its name is clear, to the tool and the device its client saw it listed for,
\* however devices came and went since: but a bare name goes to the only device
\* that is left, whichever that is.
THEOREM CallsRoutedAsListed == Spec => RoutedAsListed
<1>1. IInv => \A r \in Reqs, n \in PublicNames : Routed(r, n)
  BY CallRouted
<1> QED
  BY <1>1, Invariance, PTL DEF Spec, RoutedAsListed

\* What users must keep to for every name to be clear, and nothing in the code asks
\* of them: no device name has "__" in it or "_" at its end, and no tool's name, which
\* begins with its server's key, begins with a device name and "__".
THEOREM ClearNames ==
  ASSUME \A m \in Names : Findable(m),
         \A m \in Names, t \in Tools : ~Prefixed(m, t)
  PROVE  \A n \in PublicNames : Clear(n)
<1> SUFFICES ASSUME NEW n \in PublicNames PROVE Clear(n)
  OBVIOUS
<1>1. ASSUME NEW m \in Names, NEW t \in Tools, n = Joined(m, t)
      PROVE  ServerOf(n) = m /\ Prefixed(m, n)
  BY <1>1, NamesAreStrings, NamesSplit, StripJoined
<1> QED
  BY <1>1 DEF Clear

-----------------------------------------------------------------------------
(* The relay implements ToolCall: the safety part of the refinement. *)

\* The requests some agent holds, and what the client knows of each.
work  == UNION {atAgent[c] : c \in Conns}
phase == [r \in Reqs |-> Phase(r)]

LEMMA InitRefines == Init => TC!Init
BY DEF Init, Phase, TC!Init

\* A step that leaves every request's promise and message alone is a stutter.
LEMMA StutterRefines == UNCHANGED requestVars => UNCHANGED TC!vars
BY DEF requestVars, Phase, TC!vars

\* Setting the outcome of one request changes the phase of that request only.
LEMMA PhaseOfOne ==
  ASSUME TypeOK, NEW r \in Reqs, NEW o, calls' = [calls EXCEPT ![r] = o]
  PROVE  phase' = [phase EXCEPT ![r] = Phase(r)'] /\ calls'[r] = o
BY DEF TypeOK, phase, Phase

LEMMA StepRefines == IInv /\ [Next]_vars => [TC!Next]_(TC!vars)
<1> SUFFICES ASSUME IInv, [Next]_vars PROVE TC!Next \/ UNCHANGED TC!vars
  OBVIOUS
<1> USE ConnAssumption DEF IInv
<1>1. CASE UNCHANGED requestVars
  BY <1>1, StutterRefines
<1>2. ASSUME NEW r \in Reqs, NEW n \in PublicNames, CallTool(r, n) PROVE TC!Accept(r)
  <2>1. PICK c \in Candidates(CallerOf[r], n) : SendRequest(r, c, OriginalName(CallerOf[r], NameOf[c], n))
    BY <1>2 DEF CallTool
  <2>2. c \in Conns
    BY <2>1, CandidatesOwn
  <2>3. Phase(r) = "idle" /\ Phase(r)' = "waiting"
    BY <1>2, <2>1 DEF CallTool, SendRequest, Phase, TypeOK
  <2>4. phase' = [phase EXCEPT ![r] = "waiting"]
    BY <2>1, <2>3, PhaseOfOne DEF SendRequest
  <2>5. work' \in {work, work \cup {r}}
    <3>1. CASE atAgent' = atAgent
      BY <3>1 DEF work
    <3>2. CASE atAgent' = [atAgent EXCEPT ![c] = @ \cup {r}]
      BY <2>2, <3>2 DEF work, TypeOK
    <3> QED
      BY <2>1, <3>1, <3>2 DEF SendRequest
  <2> QED
    BY <2>3, <2>4, <2>5 DEF phase, work, TC!Accept
<1>3. ASSUME NEW r \in Reqs, NEW n \in PublicNames, CallUnknownTool(r, n) PROVE TC!Refuse(r)
  <2>1. Phase(r) = "idle" /\ Phase(r)' = "refused"
    BY <1>3 DEF CallUnknownTool, Phase, TypeOK
  <2>2. phase' = [phase EXCEPT ![r] = "refused"]
    BY <1>3, <2>1, PhaseOfOne DEF CallUnknownTool
  <2> QED
    BY <1>3, <2>1, <2>2 DEF phase, CallUnknownTool, TC!Refuse
<1>4. ASSUME NEW c \in Conns, NEW r \in Reqs, NEW o \in {"result", "error"},
             ReceiveAnswer(c, r, o)
      PROVE  TC!Answer(r)
  <2>1. r \in work
    BY <1>4 DEF ReceiveAnswer, work
  <2>2. work' = work \ {r}
    <3>1. \A d \in Conns \ {c} : r \notin atAgent[d]
      BY <1>4 DEF ReceiveAnswer, Isolation
    <3>2. atAgent' = [atAgent EXCEPT ![c] = @ \ {r}]
      BY <1>4 DEF ReceiveAnswer
    <3> QED
      BY <3>1, <3>2 DEF work, TypeOK
  <2>3. CASE calls[r] = "waiting"
    <3>1. calls' = [calls EXCEPT ![r] = o]
      BY <1>4, <2>3 DEF ReceiveAnswer, Settle, PendingExact
    <3>2. Phase(r) = "waiting" /\ Phase(r)' = "answered"
      BY <2>3, <3>1, PhaseOfOne DEF Phase
    <3>3. phase' = [phase EXCEPT ![r] = "answered"]
      BY <3>1, <3>2, PhaseOfOne
    <3> QED
      BY <2>1, <2>2, <3>2, <3>3 DEF phase, work, TC!Answer
  <2>4. CASE calls[r] # "waiting"
    <3>1. calls' = calls
      BY <1>4, <2>4 DEF ReceiveAnswer, Settle, PendingExact
    <3>2. Phase(r) # "waiting" /\ phase' = phase
      BY <2>4, <3>1 DEF Phase, phase, TypeOK
    <3> QED
      BY <2>1, <2>2, <3>2 DEF phase, work, TC!Answer
  <2> QED
    BY <2>3, <2>4
<1>5. ASSUME NEW r \in Reqs, RequestTimeout(r) PROVE TC!Expire(r)
  <2>1. calls[r] = "waiting" /\ calls' = [calls EXCEPT ![r] = "timeout"]
    BY <1>5 DEF RequestTimeout, Settle, PendingExact
  <2>2. calls'[r] = "timeout"
    BY <2>1 DEF TypeOK
  <2>3. Phase(r) = "waiting" /\ Phase(r)' = "expired"
    BY <2>1, <2>2 DEF Phase
  <2>4. phase' = [phase EXCEPT ![r] = "expired"]
    BY <2>1, <2>3, PhaseOfOne
  <2> QED
    BY <1>5, <2>3, <2>4 DEF phase, RequestTimeout, TC!Expire
<1>6. ASSUME NEW r \in Reqs, TC!Accept(r) \/ TC!Refuse(r) \/ TC!Answer(r) \/ TC!Expire(r)
      PROVE  TC!Next
  BY <1>6 DEF TC!Next
<1> QED
  BY <1>1, <1>2, <1>3, <1>4, <1>5, <1>6, OtherSteps DEF Next

\* Every tools/call is refused at once or handed to at most one agent, and gets
\* one outcome that no later answer or timeout changes.
THEOREM RelayImplementsToolCall == Spec => TC!Init /\ [][TC!Next]_(TC!vars)
BY InitRefines, StepRefines, Invariance, PTL DEF Spec

\* Of ToolCall, and so of the relay: a call that has an outcome keeps it, a
\* call is handed out once, and only an agent that holds it can answer it.
THEOREM CallsHandedOnce == Spec => TC!HandedOnce
<1>1. [TC!Next]_(TC!vars) => [\A r \in Reqs : TC!Once(r)]_(TC!vars)
  <2> SUFFICES ASSUME TC!Next, NEW r \in Reqs PROVE TC!Once(r)
    OBVIOUS
  <2>1. CASE TC!Lose
    BY <2>1 DEF TC!Lose, TC!Once
  <2>2. ASSUME NEW q \in Reqs, TC!Refuse(q) PROVE TC!Once(r)
    BY <2>2 DEF TC!Refuse, TC!Once
  <2>3. ASSUME NEW q \in Reqs, TC!Accept(q) PROVE TC!Once(r)
    BY <2>3 DEF TC!Accept, TC!Once
  <2>4. ASSUME NEW q \in Reqs, TC!Answer(q) PROVE TC!Once(r)
    BY <2>4 DEF TC!Answer, TC!Once
  <2>5. ASSUME NEW q \in Reqs, TC!Expire(q) PROVE TC!Once(r)
    BY <2>5 DEF TC!Expire, TC!Once
  <2> QED
    BY <2>1, <2>2, <2>3, <2>4, <2>5 DEF TC!Next
<1> QED
  BY <1>1, RelayImplementsToolCall, PTL DEF TC!HandedOnce

=============================================================================
