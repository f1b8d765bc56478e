# A TLA+ model of mcp-local-tunnel

mcp-local-tunnel lets a remote MCP client use the MCP servers of a laptop. A
**relay** with a public URL answers the client over HTTP; an **agent** on the
laptop keeps a websocket to the relay and runs the local servers; a **stub**,
started by the laptop's own MCP client for each of its sessions, starts one
shared agent **daemon** and keeps it alive. This directory holds TLA+ modules
that model these parts from the code in `src/src/`, the configurations TLC
checks them with, and proofs that TLAPS checks. Paths below are relative to
`src/src/`.

## 1. Inventory

| component | state | operations | interacts with |
|---|---|---|---|
| connection manager (`connection-manager.ts`) | registry user -> connections, pending table of requests with a timer each, per connection: last ping, tools | add and remove a connection, stale sweep, list tools, send a request, answer, time out | agents over websockets, the MCP server by call and promise |
| relay MCP server (`relay-mcp-server.ts`) | none of its own | tools/list, tools/call, status, restart | the MCP client, the connection manager |
| relay HTTP server (`relay-server.ts`) | none of its own | /authorize, /callback, /mcp, websocket upgrade | browsers, MCP clients, agents, the OAuth provider |
| OAuth provider (`oauth-provider.ts`, `crypto.ts`) | the key; everything else travels in sealed tokens | authorize, complete, exchange a code, refresh, verify | the relay HTTP server, the upstream OIDC provider |
| OIDC client (`oidc-client.ts`) | cached discovery document, key set | discovery, authorize URL, code exchange | the upstream provider |
| redirect URI policy (`redirect-uri.ts`) | none | classify a URI | the relay HTTP server |
| agent (`agent.ts`) | per connect(): websocket, servers, timers; per agent: stop flag, current websocket and servers | connect, keepalive, call a tool, restart the servers, reconnect, stop | the relay, local server processes, the login |
| agent login (`agent-auth.ts`) | the token cache file, shared by processes | read, refresh, browser login, write | the OAuth provider, the browser |
| daemon (`daemon.ts`) | socket file, PID file, count of sessions, grace timer, PID check | probe, unlink, bind, start the agent, accept and lose sessions, shut down, yield | stubs through the socket, other daemons through the two files, the agent |
| stub (`stub-server.ts`) | its connection to the daemon | connect, log in, spawn a daemon, poll, end | the daemon, its parent session |
| configuration, paths, pages, entry points | none | parsing, naming, HTML, wiring | all of them |

What is hard here: agents come, go, reconnect and vanish without a word while
clients list tools and call them; answers race with timers; stubs and daemons
are separate processes that share two files with no lock; restart messages,
closes and stop() interleave at every `await` of the agent over one closure
variable; tokens expire while the network is down. `PROJECT.json` lists these
hazards with their lines and the property that answers each.

What makes each component correct:

* connection manager: the registry is exactly the newest live connection of
  each device; a waiting call has a timer and settles once; calls never cross
  users; a call goes to the device and tool its client saw listed, as far as the
  name tells them apart;
* daemon and stub: at most one daemon serves in the end; what a crash leaves
  behind is taken over; the last session takes the daemon with it;
* agent: one chain of connections, resumed after every loss; every server
  process has somebody to close it;
* relay and agent together: a call on its way is in one place, reaches the
  server whose tool was called, as far as a name gives back its key, and leaves the
  tunnel; the tools listed are those
  of the servers that run; neither end gives up a connection that works, and
  both notice in time one that does not;
* sign-in of MCP clients: what the relay remembers of the login provider ages
  out; a code goes to a hosted URI only if the list or the user agrees;
* login and OAuth: a token is good for its type, client, user and time, and an
  agent whose token the relay refuses gets another one.

## 2. Modules

| module | models |
|---|---|
| `ToolCall` | the promise of the relay about one tools/call (abstract) |
| `ConnectionManager` | `connection-manager.ts`, `relay-mcp-server.ts`, many users and devices; implements `ToolCall` |
| `Tunnel` | the messages between relay and agent for one device, over connections that get lost; implements `ToolCall` |
| `ToolNames` | how names are joined, split and stripped in `agent.ts`, `connection-manager.ts` and `relay-mcp-server.ts`; used by `ConnectionManager` and `Tunnel` |
| `KeepAlive` | the clocks of one connection, in `agent.ts` and `connection-manager.ts` |
| `Agent` | `agent.ts`: connections, servers, restarts, stop(); implements `ReconnectLoop` |
| `ReconnectLoop` | what an agent is to the relay: one chain of connections (abstract) |
| `Daemon` | `daemon.ts`, `stub-server.ts` |
| `Login` | `agent-auth.ts`, `oauth-provider.ts`, `crypto.ts`, /callback and the upgrade of `relay-server.ts` |
| `SignIn` | /authorize and /callback of `relay-server.ts` for MCP clients, `oidc-client.ts` |
| `RedirectUri` | `redirect-uri.ts`; used by `SignIn` |
| `*Proofs` | the theorems about the module they are named after |
| `MC*` | the instances for TLC |

The modules cut the system where its parts meet. `Tunnel` composes the relay's
and the agent's half of a connection, each reduced to what the other can see of
it; `ConnectionManager` is the relay with all its connections and `Agent` the
agent with all its servers and timers. `Agent` sees of `Login` that a login
succeeds or throws, and of `KeepAlive` that a silent connection ends in a pong
timeout.

### ConnectionManager

A connection is one accepted websocket with the user of its token and the
device name of its handshake (`UserOf`, `NameOf`); a request is one tools/call.
`connections`, `pending`, `timers` and `calls` are `connections`,
`pendingRequests`, the timers in it and the promise `sendRequest` returned;
`ws`, `quiet` and `tools` are the fields of a connection, and `older` the order of
a user's list; `atAgent` and `seen` are what agents and clients hold; `latest` is a history variable for the
properties. The relay is one Node process and the handlers modelled here do not
await between reading and writing this state, so each is one action:
`AddConnection`, `WsClose`, `Ping`, `StaleSweep`, `ReceiveTools`, `ListTools`,
`CallTool`, `CallUnknownTool`, `ReceiveAnswer`, `RequestTimeout`; `GoQuiet` is
the passing of ninety silent seconds. A replaced connection stays open, may
still register tools and answer, and closes later: that is the code's
behaviour, and `RegistryExact` says that it harms nobody. When a connection is
stale and swept is the business of `KeepAlive`.

Device names and tool names are sequences of characters: `PublicName` joins them
(`Joined`), and `OriginalName` takes a prefix off by what the name begins with
(`Stripped`), so that two devices' tools may have one name and a tool's own name
may look prefixed. `CallTool` then takes the first device of the list, as `find()`
does. An entry of `seen` is a name with the device and tool the client was shown
under it. `Clear` says of which names there is only one reading; `RoutedAsListed`
says where the call of such a name goes, and of every name that the call goes to an
agent that registered the tool. An agent registers one of `ToolLists`. Of the two tools the relay
adds by itself, `status` only reads, and `restart` is an action of `Tunnel`.
A closed connection is garbage; its fields are reset to keep the state finite.

### Daemon

Session `s` is one stub; the daemon it may spawn is also called `s`. `sock` and
`pidFile` are the two files, by the process that wrote them; `backlog` holds
what the kernel connected and `accepted` what the daemon counts in
`connectionCount`, the probe of another starting daemon included, as in the
code. Every system call on a file is a step of its own (`Probe`, `UnlinkStale`,
`Bind`, `WritePid`, `CleanUp`/`UnlinkPid`); the callbacks of one daemon do not
interleave with each other. The existence check and the read of the PID file
are one step, as are `WritePid` and the call of `startAgent`. A `Crash` may
strike in any state; signals only once their handlers are installed. Unix only:
named pipes leave no file behind.

### Agent

An attempt is one call of `connect()` with its closure; `servers[k]` is the
closure variable that message and close handlers share, a generation of local
processes. Every `await` is a step boundary: spawning and listing (`Spawned`),
the token (`LoginOk`, `LoginFails`), the handshake (`Open`, `Drop`), the
closing, spawning and listing of a restart (`RestartArrives`, `RestartSpawns`,
`RestartSpawned`, `RestartDone`), `stop()` (`Stop`, `StopSettles`). A tool call
changes nothing here and is in `Tunnel`; the reconnect delay is abstracted to "a
timer is armed". `calm` is a history variable: it turns false when a restart
overlaps another restart, a lost websocket or stop().

`Loop` maps the whole of it to the one state of `ReconnectLoop`: where the only
attempt that is underway is, or that a timer is armed, or how the agent ended.
Servers, restarts and the closures of lost connections map to nothing. The
abstract loop resumes after every loss; after stop() it arms no timer, and a loop
stopped with a websocket in hand never dials again (`StopIsFinal`).

### Tunnel

One device over its connections, one after another (`epoch`). `down` and `up`
are the messages of the current connection, in order; `Lose` drops them, together
with what the old handlers have still to send, and the relay may learn of it
before or after the agent is back (`RemoveConnection`, `Connect`). On the
relay's side a request is its promise (`calls`); on the agent's side every
message handler is a process of its own: `ReceiveRequest` reads the servers of
the moment and `CallSettles` sends the answer, and a restart goes through the
awaits of its handler with its own servers in hand (`restarts`) and publishes
them in the shared variable (`RestartSpawned`). A request names its tool by the
joined name of `ToolNames`, split again by the agent. What the agent starts is
any part of the configuration, and what a server lists any part of its tools:
both may fail. A generation's client, once closed, rejects the calls it was
asked. `calm` says that no two restarts overlapped on the connection.

### ToolNames

A key or a device name, a tool name and the joined name are sequences of
characters, of which the underscore matters. The agent splits a name at its first
`__`. `Findable` is the condition under which a key is found again in a name (no
`__`, no `_` at the end). The configuration does not enforce it (`types.ts:35`), and
neither does the model: a call of a tool whose key is not findable answers
"Unknown server" or reaches another server. The theorem `FindableExactly` says that
the condition is exact. The relay takes a device's prefix off only if the name
begins with it.

### KeepAlive

One connection after the relay accepted its upgrade. The agent's interval and
pong timeout and the relay's sweep are countdowns, the time since the last ping
and since the last pong are ages, and `Tick` moves them; a laptop that sleeps
stops the agent's two. Any callback may be up to `Lag` late. A message takes at
most `Delay` on a network that works, and at most one message is under way: the
pong timeout is shorter than the ping interval. The code compares times of
`Date.now()`; the model assumes that this clock goes forward steadily.

### Login

Processes of the laptop (stubs and agents) call `getAccessToken` over one cache
file, and the relay answers them from nothing but its key: states, codes and
tokens are records of a type, a key and a time left, and `Unseals` is `unseal`.
The steps follow the awaits of `getAccessToken` and the relay's handlers. The
cache file is truncated and then written (`SaveBegins`, `Saved`): a process that
reads in between finds no tokens and opens the browser, as one does that finds
the file of a process killed there. A `Restart` draws a new key, as the relay
does without a configured secret. Times are times left, and `Tick` takes one
from each, so that the clock needs no bound. A request and its answer take at
most `Delay`: `fetch` has no such limit, and an answer later than half the
sixty seconds of the buffer is where the guarantee of `TokenInTime` ends. One
user logs in; the OAuth flows of MCP clients use the same stateless handlers
and share nothing with the agent's. The relay always sends a refresh token, so
a cache without one does not arise.

`Agent` sees of this module that a login succeeds (`LoginOk`) or throws
(`LoginFails`); `ConnectionManager` that an upgrade with a good token adds a
connection (`AddConnection`).

### SignIn and RedirectUri

A flow is one MCP client in one browser: /authorize, the login at the provider,
/callback with its requests for the document, the tokens and the keys, the
confirmation page, and the client's redemption of its code. The relay awaits
each request, and other flows run meanwhile (`Serve`, `Discovered`, `Exchanged`,
`Verified`, `NotVerified`, `FetchFails`). What it keeps between requests is the
cached document with its time (`doc`) and the key set (`jwks`). The provider is
a counter: each `Move` gives its endpoints and keys new URIs, and what is
addressed to an old one fails. A `Restart` forgets both caches and may bring
another list, and keeps the key, as it does with a configured secret: without one,
the default, a restart makes `relay-server.ts:100-104` refuse the state of every
sign-in under way, and `OutageBounded` says nothing of that (`Login` does draw new
keys); the browser carries the sealed state through it and repeats a
callback that was cut off, whose code the provider may have redeemed.
`RedirectUri` is `checkRedirectUri` over what it looks at in a URI. A browser
that reloads a callback or a confirmation page without a restart is left out: it
sees only that its code is spent.

## 3. Runs

| run | checks | bounds |
|---|---|---|
| `cm_users` | `TypeOK`, `RegistryExact`, `PendingExact`, `Isolation`, `ImplementsToolCall` | two users whose devices share a name, a reconnect of one of them, a request each |
| `cm_devices` | `RoutedAsListed` | one user, a device `l` that reconnects and a device `l_`, three tools of which joined names may be one or be another's own, one request; the two connections of `l` are symmetric |
| `keepalive` | `TypeOK`, `NoFalseAlarm`, `RelayNotices`, `AgentNotices` | the code's 30 : 10 : 90 : 60 in units of ten thirds of a second, delay and lag one unit, one fault |
| `daemon` | `TypeOK`, `NeverOrphaned`, `SoloOwnership`, `DuplicatesSeen`, `GivesUpOnlyToAnother`, `DuplicatesResolved`, `ServedOrDropped`, `DiesWithSessions` | two sessions at any time, one crash or signal |
| `daemon_two` | finding: `OneDaemonWins` | two sessions, no fault |
| `daemon_yield` | finding: `YieldedLeavesFiles` | three sessions, no fault |
| `agent` | `TypeOK`, `OneChain`, `NoServersLeaked`, `Resumes`, `StopEndsServers`, `ImplementsReconnectLoop` | three drops, two restarts at any time, failing logins, stop() |
| `agent_restart` | finding: `RestartIdempotent` | two restarts at once |
| `agent_token` | finding: `Reconnects` with logins that fail | one drop |
| `tunnel` | `TypeOK`, `NoCallLost`, `ToolsCurrent`, `RoutedToOwner`, `CallsLeave`, `RestartTakesEffect`, `ImplementsToolCall` | one call, two restarts, one loss; a server whose key and tool have underscores everywhere a findable key and a tool may have them |
| `login` | `TypeOK`, `TokenInTime`, `LoginInTime`, `Recovers` | a stub and an agent, three faults; access 4, refresh 5, buffer 2, window 2, state 2, code 1, delay 1 |
| `signin` | `TypeOK`, `DocFresh`, `OutageBounded`, `ConsentFirst`, `RequestsAnswered` | a hosted, a local and an invalid client, one move, one restart, two lists; document 2, state 1, code 1, delay 1 |

Two properties hold only of runs of the system without overlaps, and say so by a
history variable rather than by a smaller instance: `NoServersLeaked` and
`StopEndsServers` (`calm`), and `SoloOwnership` and `GivesUpOnlyToAnother` (`solo`:
no daemon was starting or stopping when another session began). TLC explores the
overlaps all the same, for the other properties.

Why the bounds are enough: a replaced, a current and a foreign connection are
all the registry distinguishes; two devices are where names gain and lose their
prefix, and their two names and three tools make a clear name, a name of two
devices' tools and a prefixed name that is another tool's own; a request is independent of every other but for the registry, and two
of different users are where they could cross. Two daemons race pairwise for
the files. The agent's second drop and restart are the first that find state left
behind by another one. In `login` every time is as small as its
assumption allows, so that each comparison meets both its sides; the access
token outlives the buffer by two ticks and the refresh token the access token
by one, so that caches are used, refreshed and given up. In `tunnel` calls share nothing but
the order of the messages and the servers, so that one call under two restarts
and a reconnect meets every generation there can be. In `signin` two flows ask
for the document at once, and the third is refused. In `keepalive` the sweep
starts at any phase. Deadlock is not checked: sessions end, connections and
requests are used up, and a stopped agent really stops.

## 4. Fairness

* `ConnectionManager`: timers fire and the sweep's interval runs, and a
  websocket the relay terminated reports its close (`ws` emits it without the
  peer). Agents, clients and networks owe nothing.
* `Daemon`: a process that is not killed runs its pending callbacks; `startAgent`
  and `stop()` settle; a stub notices a closed socket. Sessions owe nothing: no
  session has to end, to be accepted in time, or to succeed.
* `Agent`: every await settles, because spawns, logins and closes end by
  themselves or by the operating system; timers fire. A handshake has no timeout
  in the code: that it opens or fails is asked of the relay and the network.
  The network may stay silent for ever after it: only the pong timeout ends that.
  `ImplementsReconnectLoop` shows that this is enough for the fairness that
  `ReconnectLoop` states of the loop.
* `Tunnel`: a connection that is not lost delivers, the relay's timer fires,
  every call of a local server settles, because the library rejects it after
  sixty seconds or when the client is closed, and every restart goes on. No
  connection has to come back.
* `KeepAlive`: none. Its properties bound how long something may last, and no
  timer is passed by for more than `Lag`, by the guards of `Tick`.
* `SignIn`: `fetch` answers or fails, by the limits of its library. No user has
  to log in.
* `Login`: the clock runs, requests are answered or fail, and an agent that lost
  its connection calls `getAccessToken` again (the reconnect timer). Nobody has
  to start a process or to log in: a login that does not come times out.

## 5. Findings

Each is a counterexample of a violation run and quotes the sentence it is
against in `PROJECT.json`.

* `daemon_two`: of two daemons that start together, the slower unlinks the
  socket the faster has just bound; both start their agents. `DuplicatesResolved`
  shows that the PID file ends this.
* `daemon_yield`: a daemon that yields still has its grace timer, whose
  `shutdownNow` deletes the other daemon's socket and PID file.
* `agent_restart`: two restart messages at once leave two sets of servers.
* `agent_token`: a login that fails in a reconnect is an unhandled rejection and
  ends the process. `Login` shows how it comes to that: the token expired, the
  refresh cannot reach the relay, and the browser login that follows cannot
  either.

Some behaviours the models have are worth knowing, though they are no findings:
a tool listed under its bare name is looked for by that name alone, so that the
call goes to another device that has come in place of the one it was listed for
(the one exception in `Routed`);
two devices can list two tools under one name, since `__` is joined between names
that may have underscores (`_s__t` of `l` and `s__t` of `l_` are both `l___s__t`), and
the first device of the list gets the call (`NamesCoincide` says that there are always
such names, and `ClearNames` what names keep out of it);
the tools of a server whose key has `__` in it or `_` at its end are listed like all
others, and no call ever reaches them (`OtherKeysNeverReached`): it reaches no server,
or another one;
the grace timer may end a daemon whose next session is connected but not yet
accepted (`StubDropped`; `ServedOrDropped` shows that the stub learns of it); an
agent stopped while its reconnect timer is armed connects once more (`Reconnect`
does not look at `stop`); a connection that was replaced leaves the registry the
sweep walks, so it is not terminated however long it is silent (`Swept`); two
overlapping restarts may leave the relay with the tools of the older servers
(`ToolsCurrent` needs `calm`); and a login provider that moves its keys locks new
sign-ins out until the relay restarts (`jwks` in `OutageBounded`).

## 6. Theorems

They hold for every value of the constants that meets the named assumptions
(`ConnAssumption`, `DaemonAssumption`, `AgentAssumption`, `SignInAssumption` and
`TunnelAssumption`, which only say of what type the constants are; `LoginAssumption`
and `KeepAliveAssumption`, which also order the times as the code's constants are
ordered). No assumption is made of the characters in a name.

* `ConnectionManagerProofs`: `TypeCorrect`, `RegistryStaysExact`,
  `PendingStaysExact`, `CallsStayIsolated`, `CallsRoutedAsListed`,
  `ClearNames`, `RelayImplementsToolCall`, `CallsHandedOnce`. The inductive invariant `IInv` adds to the
  properties that a request that was not sent has no connection and is at no
  agent (`IdleUnsent`), and that a name a client has seen is the tool's own or
  joined of its device and its tool (`SeenNamed`): without the first a call could be
  held twice, and without the second nothing would tie a prefix to a device.
  `RegistryExact` gives that a user has one connection per device name
  (`OnePerDevice`), on which the routing rests, and `StripJoined` that the name the
  agent gets is that of the tool it was looked up by (`FoundListed`). `ClearNames`
  gives the condition under which `CallsRoutedAsListed` speaks of every name. The refinement is proved step by step: its safety
  part, `TC!Init /\ [][TC!Next]_TC!vars`. What `ToolCall` promises of every step
  (`HandedOnce`) then holds of the relay (`CallsHandedOnce`), and of the tunnel.
* `DaemonProofs`: `TypeCorrect`, `NoDaemonOrphaned`, `ServingDaemonOwnsFiles`,
  `StaleFilesNoObstacle`, `SessionsCountedOnce`, `DuplicatesDetected`.
  Types alone are not inductive: a process that does not listen must have no client and no timer, and a daemon of a session that has
  not spawned it must be unborn. `SoloOwnership` needs that at most one daemon
  is anywhere between its birth and its death while sessions wait their turn,
  and what each of its states owns. The last two hold however startups,
  shutdowns and crashes overlap: a client is with one daemon and there once
  (`CountedOnce`, with who cannot be connected yet, `Unconnected`), and every
  daemon that serves checks its PID file (`Checking`), which names one process.
* `AgentProofs`: `TypeCorrect`, `OneChainOnly`, `NoLeak`,
  `AgentImplementsReconnectLoop`, `StopEndsLoop`. `OneChain` is inductive
  with the types; `NoLeak` needs where a restart at work keeps its generation.
  The refinement needs `CurrentExact`: `currentWs`, the variable stop() closes, is
  the websocket of the attempt that is underway whenever it has one, so that stop()
  never closes one that is gone in place of the one in use. `StopEndsLoop` is
  `StopIsFinal` of the abstract loop, carried over by the refinement.
* `LoginProofs`: `TypeCorrect`, `TokensArriveInTime`, `LoginsArriveInTime`. The
  inductive invariant `TimeInv` carries the time through the whole path: a token
  in an answer is good for its full time but what the answer took (`InHand`), so
  the expiry recorded in the cache is at most `Delay` too late (`CacheSound`), so
  a token taken with more than `Buffer` left is good for the `Delay` it takes to
  connect (`InHand` again), whatever processes write the cache in between.
* `KeepAliveProofs`: `TypeCorrect`, `NoFalseAlarms`, `RelayNoticesInTime`,
  `AgentNoticesInTime`. While no fault has happened, the invariant accounts for
  the one message under way: what is left of the pong timeout covers what is left
  of the ping's and the pong's way, and the relay's age is what passed of the
  interval and of the way. The two bounds on noticing need only the phase of
  the sweep and of the interval, and hold with any faults.
* `SignInProofs`: `TypeCorrect`, `DocumentsFresh`, `OutagesBounded`,
  `ConsentComesFirst`, `ValidAlways`. The invariant says of each flow (`FlowCurrent`) that the
  place it is asking, if the provider has left it, was left no longer ago than
  its request has been under way, and that of a flow that exchanges its code no
  longer ago than that and the age a cached document may have had; the cached
  document's time left then bounds the time since the move. `ValidAlways` is why
  /callback need not look for an invalid URI again when the list has changed;
  `ConsentComesFirst` rests on it.
* `ToolNamesProofs`: `StripJoined`, `NamesCoincide`, `NamesSplit`, `FindableExactly`.
  `NamesCoincide` is why `RoutedAsListed` cannot do without `Clear`. `NamesSplit`
  says that for every findable key and every tool name the first `__` of the joined
  name is the one the agent put there; the routing rests on it. `FindableExactly`
  adds its converse: any other key is lost in every name made of it. A first `__`
  exists by the least-number principle (`Least`), which follows from the
  well-foundedness of the naturals.
* `TunnelProofs`: `TypeCorrect`, `NoCallEverLost`, `CallsRouted`,
  `OtherKeysNeverReached`, `TunnelImplementsToolCall`, `CallsHandedOnce`,
  `ToolsStayCurrent`. `CallsRouted` is about the servers whose keys are findable, and
  `OtherKeysNeverReached` about all others; the run `tunnel` has a findable key only,
  since every further server multiplies what a restart may start. The
  invariant follows each call (`CallInv`): at most one message of its kind each way, in
  one of its three places, and in none before it is made; what is asked for on the way is a tool, since names can only
  be split that were joined; and a lost connection leaves no call at the agent and
  no restart at work (`AgentInv`). The refinement follows, because every step but
  a call, an answer and a loss keeps the calls that are held (`Kept`). For the
  tools (`ToolsInv`), the last message of tools under way, or else what the relay
  lists, is of the servers of the moment whenever no restart is at work.

Out of the prover's reach, and checked by TLC only: the liveness properties
(`DuplicatesResolved`, `ServedOrDropped`,
`DiesWithSessions`, `Resumes`, `StopEndsServers`, `CallsLeave`,
`RestartTakesEffect`, `Recovers`, `RequestsAnswered`) and the fairness part of the
refinements.
Every safety property of the passing runs is also a theorem.

## 7. Not modelled

`pages.ts` renders HTML, of which only the confirmation is a step of a sign-in;
`config.ts`, `types.ts` and `ipc-path.ts` parse and name things; `index.ts` and
`relay.ts` wire the parts; encryption, HTTP, JSON-RPC and websocket framing belong
to libraries; dynamic registration and revocation keep no state; the named pipes
of Windows have no files to race for. `ipc-path.ts` names a daemon after the
path of its configuration as it was given, so that two directories with a default
configuration share one: a matter of naming that no module here can see.

## 8. Plan

1. For `Daemon`, what holds of the socket file when startups overlap;
   `DuplicatesDetected` and `SessionsCountedOnce` speak of the PID file and of
   the sessions.
2. For `Login`, an abstract specification of a session's credentials.
