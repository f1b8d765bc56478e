------------------------------- MODULE Tunnel -------------------------------
(***************************************************************************)
(* The messages between relay and agent (WsMessage of src/types.ts): tools *)
(* calls and their answers, restarts and the tools they register, for one  *)
(* device and its connections, one after another                           *)
(* (src/connection-manager.ts, src/relay-mcp-server.ts, src/agent.ts).     *)
(*                                                                         *)
(* A websocket keeps its messages in order until it is lost.  The agent    *)
(* handles each message as it comes, without waiting for the handlers of   *)
(* earlier ones, which interleave at every await and share one variable,   *)
(* the current servers.                                                    *)
(***************************************************************************)
EXTENDS ToolNames, FiniteSets

CONSTANTS
  Reqs,       \* tools/call requests
  Restarts,   \* calls of the restart tool
  Tools,      \* [server |-> key, name |-> its tool], as the configuration may start them
  MaxLosses,  \* how often the connection is lost
  NoTool

ASSUME TunnelAssumption ==
  /\ Reqs \cap Restarts = {}
  /\ \A tool \in Tools : /\ tool = [server |-> tool.server, name |-> tool.name]
                         /\ tool.server \in Seq(Chars) /\ tool.name \in Seq(Chars)
  /\ NoTool \notin Tools
  /\ MaxLosses \in Nat

Epochs == 1..(MaxLosses + 1)

VARIABLES
  calls,     \* the promise each request's handler awaits
  asked,     \* the tool it asks for
  via,       \* the connection it was sent on
  relay,     \* the connection the relay lists, 0 if none
  tools,     \* conn.tools of that connection
  toolsGen,  \* history: the generation those tools are of
  epoch,     \* the agent's connection
  linked,    \* it carries messages
  down, up,  \* the messages on it, to the agent and to the relay
  serving,   \* the call of a server whose answer the agent awaits, for each request
  servers,   \* the agent's variable: a generation of servers, and those that started
  spawned,   \* how many generations were spawned so far
  closed,    \* the generations whose clients are closed
  restarts,  \* the agent's handlers of restart messages
  calm       \* history: no restart overlapped another on this connection

relayVars == <<calls, asked, via, relay, tools, toolsGen>>
wire == <<epoch, linked, down, up>>
agentVars == <<serving, servers, spawned, closed, restarts, calm>>
vars == <<relayVars, wire, agentVars>>

Request(r) == [type |-> "request", id |-> r]
RestartMsg(h) == [type |-> "restart", id |-> h]
Answer(r, outcome) == [type |-> outcome, id |-> r]
ToolsMsg(ts, g) == [type |-> "tools", tools |-> ts, gen |-> g]

Keys == {tool.server : tool \in Tools}
Offered(keys) == {tool \in Tools : tool.server \in keys}
NoCall == [gen |-> 0, tool |-> NoTool]
NoServers == [gen |-> 0, keys |-> {}]

Restarting(h) == restarts[h].at \in {"closing", "spawning", "listing"}
\* The agent's first connection is open, and its tools are on their way.
Init ==
  /\ calls = [r \in Reqs |-> "idle"]
  /\ asked = [r \in Reqs |-> NoTool]
  /\ via = [r \in Reqs |-> 0]
  /\ relay = 1 /\ tools = {} /\ toolsGen = 0
  /\ epoch = 1 /\ linked = TRUE /\ down = <<>>
  /\ spawned = 1 /\ closed = {}
  /\ servers \in [gen : {1}, keys : SUBSET Keys]
  /\ \E ts \in SUBSET Offered(servers.keys) : up = <<ToolsMsg(ts, 1)>>
  /\ serving = [r \in Reqs |-> NoCall]
  /\ restarts = [h \in Restarts |-> [at |-> "none", servers |-> NoServers]]
  /\ calm = TRUE

-----------------------------------------------------------------------------
(* The relay. *)

\* Relay and agent have the same connection.
Joint == linked /\ relay = epoch

\* Mutant: what is sent on a lost connection is kept for the next.
SendKept(msg) == down' = Append(down, msg)

\* ws.send to the agent: what is sent on a lost connection is lost.
Send(msg) == down' = IF Joint THEN Append(down, msg) ELSE down

\* tools/call of a tool its client saw listed, or not listed any more.
CallTool(r, tool) ==
  /\ calls[r] = "idle"
  /\ relay # 0 /\ tool \in tools
  /\ calls' = [calls EXCEPT ![r] = "waiting"]
  /\ asked' = [asked EXCEPT ![r] = tool]
  /\ via' = [via EXCEPT ![r] = relay]
  /\ Send(Request(r))
  /\ UNCHANGED <<relay, tools, toolsGen, epoch, linked, up, agentVars>>

CallUnknownTool(r, tool) ==
  /\ calls[r] = "idle"
  /\ tool \notin tools
  /\ calls' = [calls EXCEPT ![r] = "unknown"]
  /\ UNCHANGED <<asked, via, relay, tools, toolsGen, wire, agentVars>>

\* The restart tool.
CallRestart(h) ==
  /\ restarts[h].at = "none"
  /\ relay # 0
  /\ Send(RestartMsg(h))
  /\ restarts' = [restarts EXCEPT ![h].at = IF Joint THEN "sent" ELSE "done"]
  /\ UNCHANGED <<relayVars, epoch, linked, up, serving, servers, spawned, closed, calm>>

\* handleMessage of the first message that arrives.
ReceiveTools ==
  /\ up # <<>> /\ Head(up).type = "tools"
  /\ tools' = Head(up).tools /\ toolsGen' = Head(up).gen
  /\ up' = Tail(up)
  /\ UNCHANGED <<calls, asked, via, relay, epoch, linked, down, agentVars>>

\* Mutant: an answer settles its call without a look at the pending table.
ReceiveAnswerUnchecked ==
  /\ up # <<>> /\ Head(up).type # "tools"
  /\ calls' = [calls EXCEPT ![Head(up).id] = Head(up).type]
  /\ up' = Tail(up)
  /\ UNCHANGED <<asked, via, relay, tools, toolsGen, epoch, linked, down, agentVars>>

\* A call that timed out is not pending, and its late answer is ignored.
ReceiveAnswer ==
  /\ up # <<>> /\ Head(up).type # "tools"
  /\ LET r == Head(up).id IN
       calls' = IF calls[r] = "waiting" THEN [calls EXCEPT ![r] = Head(up).type] ELSE calls
  /\ up' = Tail(up)
  /\ UNCHANGED <<asked, via, relay, tools, toolsGen, epoch, linked, down, agentVars>>

RequestTimeout(r) ==
  /\ calls[r] = "waiting"
  /\ calls' = [calls EXCEPT ![r] = "timeout"]
  /\ UNCHANGED <<asked, via, relay, tools, toolsGen, wire, agentVars>>

\* The relay sees the close of a connection that was lost; the calls sent on it
\* stay pending.
RemoveConnection ==
  /\ relay # 0 /\ ~Joint
  /\ relay' = 0 /\ tools' = {} /\ toolsGen' = 0
  /\ UNCHANGED <<calls, asked, via, wire, agentVars>>

-----------------------------------------------------------------------------
(* The agent. *)

Reply(msg) == up' = Append(up, msg)

\* What the tool name of a request names.
Named(r) ==
  LET name == Joined(asked[r].server, asked[r].name)
  IN [server |-> ServerOf(name), name |-> ToolOf(name)]

\* Mutant: a name without a server is logged, not answered.
ReceiveRequestUnanswered(r) ==
  /\ down # <<>> /\ Head(down) = Request(r)
  /\ down' = Tail(down)
  /\ serving' = IF Named(r).server \in servers.keys
                  THEN [serving EXCEPT ![r] = [gen |-> servers.gen, tool |-> Named(r)]]
                  ELSE serving
  /\ UNCHANGED <<relayVars, epoch, linked, up, servers, spawned, closed, restarts, calm>>

\* A request is looked up in the servers of the moment, and its answer awaited.
\* A name that names none of them is answered at once.
ReceiveRequest(r) ==
  /\ down # <<>> /\ Head(down) = Request(r)
  /\ down' = Tail(down)
  /\ IF Named(r).server \in servers.keys
       THEN /\ serving' = [serving EXCEPT ![r] = [gen |-> servers.gen, tool |-> Named(r)]]
            /\ UNCHANGED up
       ELSE Reply(Answer(r, "error")) /\ UNCHANGED serving
  /\ UNCHANGED <<relayVars, epoch, linked, servers, spawned, closed, restarts, calm>>

\* Mutant: a client that is closed forgets the calls it was asked.
CallSettlesOpen(r, outcome) ==
  /\ serving[r] # NoCall
  /\ serving[r].gen \notin closed
  /\ serving' = [serving EXCEPT ![r] = NoCall]
  /\ Reply(Answer(r, outcome))
  /\ UNCHANGED <<relayVars, epoch, linked, down, servers, spawned, closed, restarts, calm>>

\* The server answers; a client that is closed, or the timeout of its library,
\* rejects the call.
CallSettles(r, outcome) ==
  /\ serving[r] # NoCall
  /\ outcome = "response" => serving[r].gen \notin closed
  /\ serving' = [serving EXCEPT ![r] = NoCall]
  /\ Reply(Answer(r, outcome))
  /\ UNCHANGED <<relayVars, epoch, linked, down, servers, spawned, closed, restarts, calm>>

\* Mutant: a restart that comes while another is at work is taken for the same.
ReceiveRestartOnce(h) ==
  /\ down # <<>> /\ Head(down) = RestartMsg(h)
  /\ down' = Tail(down)
  /\ restarts' = [restarts EXCEPT ![h] =
       IF \E g \in Restarts : Restarting(g) THEN [at |-> "done", servers |-> NoServers]
                                           ELSE [at |-> "closing", servers |-> servers]]
  /\ UNCHANGED <<relayVars, epoch, linked, up, serving, servers, spawned, closed, calm>>

ReceiveRestart(h) ==
  /\ down # <<>> /\ Head(down) = RestartMsg(h)
  /\ down' = Tail(down)
  /\ restarts' = [restarts EXCEPT ![h] = [at |-> "closing", servers |-> servers]]
  /\ calm' = (calm /\ \A g \in Restarts : ~Restarting(g))
  /\ UNCHANGED <<relayVars, epoch, linked, up, serving, servers, spawned, closed>>

\* The servers of the moment are closed, and new ones started, as far as they start.
RestartSpawns(h, keys) ==
  /\ restarts[h].at = "closing"
  /\ closed' = closed \cup {restarts[h].servers.gen}
  /\ spawned' = spawned + 1
  /\ restarts' = [restarts EXCEPT ![h] =
                    [at |-> "spawning", servers |-> [gen |-> spawned + 1, keys |-> keys]]]
  /\ UNCHANGED <<relayVars, wire, serving, servers, calm>>

\* Mutant: the new servers never reach the variable the handlers share.
RestartSpawnedLocal(h) ==
  /\ restarts[h].at = "spawning"
  /\ restarts' = [restarts EXCEPT ![h].at = "listing"]
  /\ UNCHANGED <<relayVars, wire, serving, servers, spawned, closed, calm>>

RestartSpawned(h) ==
  /\ restarts[h].at = "spawning"
  /\ servers' = restarts[h].servers
  /\ restarts' = [restarts EXCEPT ![h].at = "listing"]
  /\ UNCHANGED <<relayVars, wire, serving, spawned, closed, calm>>

\* What the new servers list is sent; one that cannot list its tools is left out.
RestartListed(h, ts) ==
  /\ restarts[h].at = "listing"
  /\ ts \subseteq Offered(restarts[h].servers.keys)
  /\ Reply(ToolsMsg(ts, restarts[h].servers.gen))
  /\ restarts' = [restarts EXCEPT ![h] = [at |-> "done", servers |-> NoServers]]
  /\ UNCHANGED <<relayVars, epoch, linked, down, serving, servers, spawned, closed, calm>>

-----------------------------------------------------------------------------
(* The connection. *)

\* The connection is lost, and with it its messages and what the handlers of the
\* old one have still to send; the agent closes its servers.
Lose ==
  /\ linked /\ epoch <= MaxLosses
  /\ linked' = FALSE
  /\ down' = <<>> /\ up' = <<>>
  /\ serving' = [r \in Reqs |-> NoCall]
  /\ closed' = closed \cup {servers.gen}
  /\ restarts' = [h \in Restarts |->
       IF restarts[h].at = "none" THEN restarts[h] ELSE [at |-> "done", servers |-> NoServers]]
  /\ UNCHANGED <<relayVars, epoch, servers, spawned, calm>>

\* The agent connects again with new servers, and its connection replaces the old.
Connect(keys, ts) ==
  /\ ~linked
  /\ linked' = TRUE /\ epoch' = epoch + 1
  /\ relay' = epoch + 1 /\ tools' = {} /\ toolsGen' = 0
  /\ spawned' = spawned + 1
  /\ servers' = [gen |-> spawned + 1, keys |-> keys]
  /\ ts \subseteq Offered(keys)
  /\ Reply(ToolsMsg(ts, spawned + 1))
  /\ calm' = TRUE
  /\ UNCHANGED <<calls, asked, via, down, serving, closed, restarts>>

-----------------------------------------------------------------------------

RelayReceives == ReceiveTools \/ ReceiveAnswer
AgentReceives == (\E r \in Reqs : ReceiveRequest(r)) \/ (\E h \in Restarts : ReceiveRestart(h))
Settles(r) == \E outcome \in {"response", "error"} : CallSettles(r, outcome)
RestartGoesOn(h) ==
  \/ \E keys \in SUBSET Keys : RestartSpawns(h, keys)
  \/ RestartSpawned(h)
  \/ \E ts \in SUBSET Tools : RestartListed(h, ts)

Next ==
  \/ \E r \in Reqs, tool \in Tools : CallTool(r, tool) \/ CallUnknownTool(r, tool)
  \/ \E r \in Reqs : RequestTimeout(r) \/ Settles(r)
  \/ \E h \in Restarts : CallRestart(h) \/ RestartGoesOn(h)
  \/ RelayReceives \/ AgentReceives
  \/ RemoveConnection \/ Lose
  \/ \E keys \in SUBSET Keys, ts \in SUBSET Tools : Connect(keys, ts)

\* A connection that is not lost delivers, timers fire, every call of a local
\* server settles and every restart goes on: their library bounds each of them.
Fairness ==
  /\ WF_vars(RelayReceives) /\ WF_vars(AgentReceives)
  /\ \A r \in Reqs : WF_vars(RequestTimeout(r)) /\ WF_vars(Settles(r))
  /\ \A h \in Restarts : WF_vars(RestartGoesOn(h))

Spec == Init /\ [][Next]_vars /\ Fairness

-----------------------------------------------------------------------------
(* Properties. *)

ToolsMsgs == [type : {"tools"}, tools : SUBSET Tools, gen : Nat]
Answers == [type : {"response", "error"}, id : Reqs]
Requests == [type : {"request"}, id : Reqs] \cup [type : {"restart"}, id : Restarts]

RelayOK ==
  /\ calls \in [Reqs -> {"idle", "waiting", "response", "error", "timeout", "unknown"}]
  /\ asked \in [Reqs -> Tools \cup {NoTool}]
  /\ via \in [Reqs -> 0..epoch]
  /\ relay \in 0..epoch
  /\ tools \in SUBSET Tools
  /\ toolsGen \in Nat

WireOK ==
  /\ epoch \in Epochs
  /\ linked \in BOOLEAN
  /\ down \in Seq(Requests)
  /\ up \in Seq(ToolsMsgs \cup Answers)
  /\ ~linked => down = <<>> /\ up = <<>>

\* A server may be asked for a tool that it does not have.
Served == [gen : Nat \ {0}, tool : [server : Keys, name : Seq(Chars)]]

AgentOK ==
  /\ serving \in [Reqs -> {NoCall} \cup Served]
  /\ servers \in [gen : Nat \ {0}, keys : SUBSET Keys]
  /\ spawned \in Nat \ {0}
  /\ closed \in SUBSET (1..spawned)
  /\ restarts \in [Restarts -> [at : {"none", "sent", "closing", "spawning", "listing", "done"},
                                servers : [gen : 0..spawned, keys : SUBSET Keys]]]
  /\ servers.gen <= spawned
  /\ calm \in BOOLEAN

\* Every variable has its type; a lost connection carries nothing.
TypeOK == RelayOK /\ WireOK /\ AgentOK

\* Where the call of a request is: on its way, at its server, or on its way back.
Places(r) ==
  {<<"down", i>> : i \in {j \in 1..Len(down) : down[j] = Request(r)}}
  \cup {<<"up", i>> : i \in {j \in 1..Len(up) : up[j].type # "tools" /\ up[j].id = r}}
  \cup {<<"agent", g>> : g \in {serving[r].gen} \ {0}}

\* A call that waits on a connection that works is in one place, through restarts
\* and unknown servers, and no call is ever in two.
NoCallLost ==
  \A r \in Reqs :
    /\ \A p, q \in Places(r) : p = q
    /\ linked /\ via[r] = epoch /\ calls[r] = "waiting" => Places(r) # {}

\* The call reaches the server whose tool its client was shown, under the tool's
\* own name, if that server runs, and no server if not.
Routed(r) ==
  serving'[r] = IF asked[r].server \in servers.keys
                  THEN [gen |-> servers.gen, tool |-> asked[r]]
                  ELSE NoCall

\* So does every call of a server whose key can be found again in a name, wherever
\* else underscores are and whatever the keys of the other servers.
RoutedToOwner ==
  [][\A r \in Reqs : ReceiveRequest(r) /\ Findable(asked[r].server) => Routed(r)]_vars

\* Nothing on the connection or in the agent is about to change the tools.
Quiet ==
  /\ Joint
  /\ \A h \in Restarts : ~Restarting(h)
  /\ \A i \in 1..Len(up) : up[i].type # "tools"

\* Unless restarts overlapped, what the relay lists once they are done is what
\* the servers offer that the agent will call.
ToolsCurrent ==
  calm /\ Quiet => toolsGen = servers.gen /\ tools \subseteq Offered(servers.keys)

\* No call stays in the tunnel for ever, though servers are closed under it: what
\* the client waits for on a connection that works is not the timeout.
CallsLeave == \A r \in Reqs : Places(r) # {} ~> Places(r) = {}

\* "Tools will update shortly": a restart message that is not lost brings tools of
\* servers younger than the message, whatever else is restarting.
RestartTakesEffect ==
  \A h \in Restarts, g \in 1..(MaxLosses + 1 + Cardinality(Restarts)) :
    restarts[h].at = "sent" /\ spawned = g ~> toolsGen > g \/ ~linked

\* Each tools/call is one ToolCall.
Phase(r) ==
  CASE calls[r] \in {"idle", "waiting"}    -> calls[r]
    [] calls[r] \in {"response", "error"} -> "answered"
    [] calls[r] = "timeout"               -> "expired"
    [] OTHER                              -> "refused"

TC == INSTANCE ToolCall WITH
        phase <- [r \in Reqs |-> Phase(r)],
        work  <- {r \in Reqs : Places(r) # {}}

\* Relay and agent together implement ToolCall, losses of the connection included.
ImplementsToolCall == TC!Spec

=============================================================================
