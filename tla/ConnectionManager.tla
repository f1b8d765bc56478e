-------------------------- MODULE ConnectionManager --------------------------
(***************************************************************************)
(* The relay: its registry of agent connections, the table of tool calls   *)
(* that wait for an agent, and the MCP handlers that list tools and route  *)
(* calls (src/connection-manager.ts, src/relay-mcp-server.ts).             *)
(*                                                                         *)
(* A connection is one accepted websocket; the user and the device name of *)
(* its handshake are the constants UserOf and NameOf.  A request is one    *)
(* tools/call of an MCP client, made with the token of user CallerOf; its  *)
(* randomUUID is the request itself.  The relay is one Node process: each  *)
(* handler below runs to completion, so each is one action.                *)
(*                                                                         *)
(* Device names and tool names are sequences of characters (ToolNames):    *)
(* nothing keeps "__" out of them, so that the names of two devices' tools *)
(* may be one.                                                             *)
(***************************************************************************)
EXTENDS ToolNames, FiniteSets

CONSTANTS
  Users, Names, Conns, Reqs, Tools,
  ToolLists,  \* the lists of tools an agent may register
  UserOf,     \* [Conns -> Users]: the user of the connection's access token
  NameOf,     \* [Conns -> Names]: the ?name= of the connection
  CallerOf,   \* [Reqs -> Users]: the user of the request's access token
  NoConn,     \* no connection
  NoName      \* no tool name

ASSUME ConnAssumption ==
  /\ UserOf \in [Conns -> Users]
  /\ NameOf \in [Conns -> Names]
  /\ CallerOf \in [Reqs -> Users]
  /\ Names \subseteq Seq(Chars) /\ Tools \subseteq Seq(Chars)
  /\ ToolLists \subseteq SUBSET Tools
  /\ NoConn \notin Conns /\ NoName \notin Tools

\* The names a client may have been shown: bare, or with a device's prefix.
PublicNames == Tools \cup {Joined(m, t) : m \in Names, t \in Tools}

VARIABLES
  ws,           \* the websocket behind each connection
  quiet,        \* no ping on it for STALE_THRESHOLD_MS
  tools,        \* conn.tools: what its agent last registered
  connections,  \* the registry: user -> listed connections
  older,        \* the order of each user's list: what is before a connection in it
  pending,      \* the requests in the pending table
  timers,       \* the requests whose two-minute timer is armed
  calls,        \* the promise each request's handler awaits
  via,          \* the connection each request was sent on
  method,       \* the tool name in the message sent
  atAgent,      \* the requests an agent received on a connection and not answered
  seen,         \* the last tools/list of each user's client: names with what they name
  latest        \* history: the last connection accepted for a user and a name

registry == <<connections, older>>
relayVars == <<registry, pending, timers, calls, via, method>>
vars == <<ws, quiet, tools, registry, pending, timers, calls, via, method, atAgent, seen, latest>>

Outcomes == {"result", "error", "timeout", "unknown"}

Init ==
  /\ ws = [c \in Conns |-> "unused"]
  /\ quiet = [c \in Conns |-> FALSE]
  /\ tools = [c \in Conns |-> {}]
  /\ connections = [u \in Users |-> {}]
  /\ older = [c \in Conns |-> {}]
  /\ pending = {}
  /\ timers = {}
  /\ calls = [r \in Reqs |-> "idle"]
  /\ via = [r \in Reqs |-> NoConn]
  /\ method = [r \in Reqs |-> NoName]
  /\ atAgent = [c \in Conns |-> {}]
  /\ seen = [u \in Users |-> {}]
  /\ latest = [u \in Users |-> [n \in Names |-> NoConn]]

-----------------------------------------------------------------------------
(* The registry. *)

\* The user's connections once c replaces the one with the same name.
RegisterReplacing(c) ==
  {d \in connections[UserOf[c]] : NameOf[d] # NameOf[c]} \cup {c}

\* The upgrade of a websocket whose token was verified: c is pushed last.
AddConnection(c) ==
  /\ ws[c] = "unused"
  /\ ws' = [ws EXCEPT ![c] = "open"]
  /\ connections' = [connections EXCEPT ![UserOf[c]] = RegisterReplacing(c)]
  /\ older' = [older EXCEPT ![c] = RegisterReplacing(c) \ {c}]
  /\ latest' = [latest EXCEPT ![UserOf[c]][NameOf[c]] = c]
  /\ UNCHANGED <<quiet, tools, pending, timers, calls, via, method, atAgent, seen>>

\* Mutant: the closed connection is looked up by its name.
RemoveConnectionByName(c) ==
  connections' = [connections EXCEPT ![UserOf[c]] = {d \in @ : NameOf[d] # NameOf[c]}]

\* Mutant: the user's entry is deleted with the last connection and never defaulted.
RemoveConnectionEntry(c) ==
  connections' = IF connections[UserOf[c]] \subseteq {c}
                   THEN [u \in Users \ {UserOf[c]} |-> connections[u]]
                   ELSE [connections EXCEPT ![UserOf[c]] = @ \ {c}]

RemoveConnection(c) ==
  connections' = [connections EXCEPT ![UserOf[c]] = @ \ {c}]

\* The 'close' event, which comes last on a websocket: the connection object is
\* garbage from here on, and its fields are reset.
WsClose(c) ==
  /\ ws[c] \in {"open", "terminated"}
  /\ ws' = [ws EXCEPT ![c] = "closed"]
  /\ quiet' = [quiet EXCEPT ![c] = FALSE]
  /\ tools' = [tools EXCEPT ![c] = {}]
  /\ RemoveConnection(c)
  /\ older' = [d \in Conns |-> IF d = c THEN {} ELSE older[d] \ {c}]
  /\ UNCHANGED <<pending, timers, calls, via, method, atAgent, seen, latest>>

\* Ninety seconds pass with no ping on c.
GoQuiet(c) ==
  /\ ws[c] = "open"
  /\ ~quiet[c]
  /\ quiet' = [quiet EXCEPT ![c] = TRUE]
  /\ UNCHANGED <<ws, tools, relayVars, atAgent, seen, latest>>

\* The 'ping' event refreshes lastPingAt.
Ping(c) ==
  /\ ws[c] = "open"
  /\ quiet[c]
  /\ quiet' = [quiet EXCEPT ![c] = FALSE]
  /\ UNCHANGED <<ws, tools, relayVars, atAgent, seen, latest>>

\* What the sweep finds: listed connections with no ping for too long.
Stale == {c \in UNION {connections[u] : u \in Users} : quiet[c]}

\* The periodic check walks the registry and terminates what is stale.
StaleSweep ==
  /\ \E c \in Stale : ws[c] = "open"
  /\ ws' = [c \in Conns |-> IF c \in Stale /\ ws[c] = "open" THEN "terminated" ELSE ws[c]]
  /\ UNCHANGED <<quiet, tools, relayVars, atAgent, seen, latest>>

-----------------------------------------------------------------------------
(* Listing tools. *)

MultiDevice(u) == \E c, d \in connections[u] : c # d

PublicName(u, c, t) == IF MultiDevice(u) THEN Joined(NameOf[c], t) ELSE t

\* getToolsForUser: every tool of every listed connection, under its public name.
ToolsForUser(u) ==
  UNION {{[name |-> PublicName(u, c, t), device |-> NameOf[c], tool |-> t] : t \in tools[c]} :
           c \in connections[u]}

\* tools/list, answered to a client that keeps the names and what each one names.
ListTools(u) ==
  /\ seen[u] # ToolsForUser(u)
  /\ seen' = [seen EXCEPT ![u] = ToolsForUser(u)]
  /\ UNCHANGED <<ws, quiet, tools, relayVars, atAgent, latest>>

\* A 'tools' message, on a listed connection or on one that was replaced.
ReceiveTools(c, ts) ==
  /\ ws[c] \in {"open", "terminated"}
  /\ tools[c] # ts
  /\ tools' = [tools EXCEPT ![c] = ts]
  /\ UNCHANGED <<ws, quiet, relayVars, atAgent, seen, latest>>

-----------------------------------------------------------------------------
(* Calling a tool. *)

\* Mutant: the device is looked up among the connections of every user.
CandidatesOfAll(u, n) ==
  {c \in UNION {connections[v] : v \in Users} :
     \E tool \in ToolsForUser(u) : tool.name = n /\ tool.device = NameOf[c]}

\* The connections the call may take: those whose device offers the name.
Candidates(u, n) ==
  {c \in connections[u] :
     \E tool \in ToolsForUser(u) : tool.name = n /\ tool.device = NameOf[c]}

\* Mutant: the device prefix goes to the agent with the name.
OriginalNameKept(u, device, n) == n

\* The name without the prefix of the device found for it.
OriginalName(u, device, n) == IF MultiDevice(u) THEN Stripped(device, n) ELSE n

\* Resolving or rejecting a promise a second time has no effect.
Settle(r, outcome) ==
  calls' = IF calls[r] = "waiting" THEN [calls EXCEPT ![r] = outcome] ELSE calls

\* Mutant: the timer is armed only once the message could be written.
SendRequestTimerLate(r, c, m) ==
  /\ calls' = [calls EXCEPT ![r] = "waiting"]
  /\ via' = [via EXCEPT ![r] = c]
  /\ method' = [method EXCEPT ![r] = m]
  /\ pending' = pending \cup {r}
  /\ timers' = IF ws[c] = "open" THEN timers \cup {r} ELSE timers
  /\ atAgent' = IF ws[c] = "open" THEN [atAgent EXCEPT ![c] = @ \cup {r}] ELSE atAgent

\* A message written to a websocket that is going down is dropped silently.
SendRequest(r, c, m) ==
  /\ calls' = [calls EXCEPT ![r] = "waiting"]
  /\ via' = [via EXCEPT ![r] = c]
  /\ method' = [method EXCEPT ![r] = m]
  /\ pending' = pending \cup {r}
  /\ timers' = timers \cup {r}
  /\ atAgent' = IF ws[c] = "open" THEN [atAgent EXCEPT ![c] = @ \cup {r}] ELSE atAgent

\* The first device of the list that offers the name gets the call.
CallTool(r, n) ==
  /\ calls[r] = "idle"
  /\ \E c \in Candidates(CallerOf[r], n) :
       /\ older[c] \cap Candidates(CallerOf[r], n) = {}
       /\ SendRequest(r, c, OriginalName(CallerOf[r], NameOf[c], n))
  /\ UNCHANGED <<ws, quiet, tools, registry, seen, latest>>

CallUnknownTool(r, n) ==
  /\ calls[r] = "idle"
  /\ Candidates(CallerOf[r], n) = {}
  /\ calls' = [calls EXCEPT ![r] = "unknown"]
  /\ UNCHANGED <<ws, quiet, tools, registry, pending, timers, via, method, atAgent, seen, latest>>

\* The agent answers on the connection it was asked on: 'response' or 'error'.
ReceiveAnswer(c, r, outcome) ==
  /\ ws[c] \in {"open", "terminated"}
  /\ r \in atAgent[c]
  /\ atAgent' = [atAgent EXCEPT ![c] = @ \ {r}]
  /\ IF r \in pending
       THEN /\ pending' = pending \ {r}
            /\ timers' = timers \ {r}
            /\ Settle(r, outcome)
       ELSE UNCHANGED <<pending, timers, calls>>
  /\ UNCHANGED <<ws, quiet, tools, registry, via, method, seen, latest>>

RequestTimeout(r) ==
  /\ r \in timers
  /\ timers' = timers \ {r}
  /\ pending' = pending \ {r}
  /\ Settle(r, "timeout")
  /\ UNCHANGED <<ws, quiet, tools, registry, via, method, atAgent, seen, latest>>

-----------------------------------------------------------------------------

Next ==
  \/ \E c \in Conns : AddConnection(c) \/ WsClose(c) \/ GoQuiet(c) \/ Ping(c)
  \/ \E c \in Conns, ts \in ToolLists : ReceiveTools(c, ts)
  \/ StaleSweep
  \/ \E u \in Users : ListTools(u)
  \/ \E r \in Reqs, n \in PublicNames : CallTool(r, n) \/ CallUnknownTool(r, n)
  \/ \E c \in Conns, r \in Reqs, o \in {"result", "error"} : ReceiveAnswer(c, r, o)
  \/ \E r \in Reqs : RequestTimeout(r)

\* What the relay's own event loop owes: timers fire, and a websocket it
\* terminated reports its close.  Agents, clients and networks owe nothing.
Fairness ==
  /\ \A r \in Reqs : WF_vars(RequestTimeout(r))
  /\ WF_vars(StaleSweep)
  /\ \A c \in Conns : WF_vars(ws[c] = "terminated" /\ WsClose(c))

Spec == Init /\ [][Next]_vars /\ Fairness

-----------------------------------------------------------------------------
(* Properties. *)

\* Every variable has its type.
TypeOK ==
  /\ ws \in [Conns -> {"unused", "open", "terminated", "closed"}]
  /\ quiet \in [Conns -> BOOLEAN]
  /\ tools \in [Conns -> SUBSET Tools]
  /\ connections \in [Users -> SUBSET Conns]
  /\ older \in [Conns -> SUBSET Conns]
  /\ pending \in SUBSET Reqs
  /\ timers \in SUBSET Reqs
  /\ calls \in [Reqs -> {"idle", "waiting"} \cup Outcomes]
  /\ via \in [Reqs -> Conns \cup {NoConn}]
  /\ method \in [Reqs -> Tools \cup {NoName}]
  /\ atAgent \in [Conns -> SUBSET Reqs]
  /\ seen \in [Users -> SUBSET [name : PublicNames, device : Names, tool : Tools]]
  /\ latest \in [Users -> [Names -> Conns \cup {NoConn}]]

Live(c) == ws[c] \in {"open", "terminated"}

\* The registry lists exactly the live connections that are the newest of
\* their user and name, whatever the order of connects and of late closes.
RegistryExact ==
  \A u \in Users :
    connections[u] =
      {c \in Conns : UserOf[c] = u /\ Live(c) /\ latest[u][NameOf[c]] = c}

\* The pending table, the armed timers and the unsettled promises are the same
\* requests: none waits without a timer, no timer outlives its request.
PendingExact ==
  /\ pending = {r \in Reqs : calls[r] = "waiting"}
  /\ timers = pending

\* A call is only ever held by the agent it was sent to, which belongs to the
\* calling user: calls of different users never cross.
Isolation ==
  \A c \in Conns : \A r \in atAgent[c] : via[r] = c /\ UserOf[c] = CallerOf[r]

\* A name that stands for one thing only: no two devices have a tool of that name,
\* and it is not both a prefixed name and a tool's own.
Clear(n) ==
  LET Owners == {m \in Names : \E t \in Tools : n = Joined(m, t)}
  IN /\ \A m, o \in Owners : m = o
     /\ n \in Tools => Owners = {}

\* Where the call of r under the name n goes: to an agent of the caller, under a
\* name by which that agent registered a tool, and listed at this moment as n.
\* If n is clear it is the tool that the client saw, on the device it saw it on;
\* only a bare name may find another device, and then the only one there is.
Routed(r, n) ==
  CallTool(r, n) =>
    LET u == CallerOf[r]
        c == via'[r]
    IN /\ c \in connections[u] /\ method'[r] \in tools[c]
       /\ PublicName(u, c, method'[r]) = n
       /\ Clear(n) =>
            \A e \in seen[u] : e.name = n =>
              /\ method'[r] = e.tool
              /\ \/ NameOf[c] = e.device
                 \/ n = e.tool /\ connections[u] = {c}

\* Every call is routed as its client saw the tool listed, though devices come
\* and go between the listing and the call and names gain and lose their prefix.
RoutedAsListed == [][\A r \in Reqs, n \in PublicNames : Routed(r, n)]_vars

\* Each tools/call is one ToolCall, its outcomes named as the client sees them.
Phase(r) ==
  CASE calls[r] \in {"idle", "waiting"}  -> calls[r]
    [] calls[r] \in {"result", "error"} -> "answered"
    [] calls[r] = "timeout"             -> "expired"
    [] OTHER                            -> "refused"

TC == INSTANCE ToolCall WITH
        phase <- [r \in Reqs |-> Phase(r)],
        work  <- UNION {atAgent[c] : c \in Conns}

\* The relay implements ToolCall: each call has one outcome, and has it in the end.
ImplementsToolCall == TC!Spec

=============================================================================
