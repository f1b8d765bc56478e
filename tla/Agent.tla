-------------------------------- MODULE Agent --------------------------------
(***************************************************************************)
(* The agent: one call of startAgent, its websocket to the relay with the  *)
(* reconnect loop, the local MCP servers it spawns for each connection,    *)
(* the restart messages and stop() (src/agent.ts).                         *)
(*                                                                         *)
(* Each call of connect() has its own closure: an attempt.  Each call of   *)
(* spawnServers starts a generation of server processes; those that fail   *)
(* to start are left out of it.  Every await is a step boundary.           *)
(***************************************************************************)
EXTENDS Naturals, FiniteSets

CONSTANTS
  MaxDrops,       \* how many times the network drops, silences or refuses a websocket
  MaxRestarts,    \* how many restart messages arrive
  TokenMayFail    \* may getAccessToken throw?

ASSUME AgentAssumption ==
  /\ MaxDrops \in Nat
  /\ MaxRestarts \in Nat
  /\ TokenMayFail \in BOOLEAN

Attempts == 1..(MaxDrops + 1)
Restarts == 1..MaxRestarts
Gens     == 1..(MaxDrops + 1 + MaxRestarts)

VARIABLES
  phase,           \* where each attempt is
  servers,         \* the variable of each attempt's closure: a generation, 0 before
  restarts,        \* the message handlers that restart the servers
  spawned,         \* how many generations were spawned so far
  alive,           \* the generations whose processes run
  closing,         \* the generations some closeServers is at work on
  backoff,         \* how many reconnect timers are armed
  currentWs,       \* the attempt whose websocket stop() closes, 0 before
  currentServers,  \* the generation stop() closes, 0 before
  stop,            \* stop() was not called, is pending, or has settled
  process,         \* the process is up, startAgent rejected, or it crashed
  drops,           \* the faults of the network so far
  calm             \* history: no restart overlapped another, a lost websocket or stop()

vars == <<phase, servers, restarts, spawned, alive, closing, backoff, currentWs,
          currentServers, stop, process, drops, calm>>

Phases == {"unused", "spawning", "login", "connecting", "open", "silent", "closing", "closed"}

\* The attempt has a websocket that has not reported its close.
HasWs(k) == phase[k] \in {"connecting", "open", "silent", "closing"}

\* connect() has been called on the attempt and its websocket has not closed.
Underway(k) == phase[k] \in {"spawning", "login"} \/ HasWs(k)

Restarting(h) == restarts[h].at \in {"closing", "spawning", "listing"}

Init ==
  /\ phase = [k \in Attempts |-> IF k = 1 THEN "spawning" ELSE "unused"]
  /\ servers = [k \in Attempts |-> IF k = 1 THEN 1 ELSE 0]
  /\ restarts = [h \in Restarts |-> [at |-> "unused", on |-> 1, gen |-> 0]]
  /\ spawned = 1
  /\ alive = {1}
  /\ closing = {}
  /\ backoff = 0
  /\ currentWs = 0
  /\ currentServers = 0
  /\ stop = "no"
  /\ process = "up"
  /\ drops = 0
  /\ calm = TRUE

\* spawnServers begins: the next generation's processes start.
SpawnServers ==
  /\ spawned' = spawned + 1
  /\ alive' = alive \cup {spawned + 1}

\* Mutant: what is already closed is closed again.
CloseServersAgain(gens) == closing' = closing \cup gens

\* client.close() on each server; a second close of the same ones does nothing.
CloseServers(gens) == closing' = closing \cup (gens \cap alive)

ServersClosed(g) ==
  /\ process = "up"
  /\ g \in closing
  /\ closing' = closing \ {g}
  /\ alive' = alive \ {g}
  /\ UNCHANGED <<phase, servers, restarts, spawned, backoff, currentWs, currentServers, stop,
                 process, drops, calm>>

-----------------------------------------------------------------------------
(* Connecting. *)

\* The servers are up and their tools listed; the token is awaited.
Spawned(k) ==
  /\ process = "up"
  /\ phase[k] = "spawning"
  /\ phase' = [phase EXCEPT ![k] = "login"]
  /\ UNCHANGED <<servers, restarts, spawned, alive, closing, backoff, currentWs,
                 currentServers, stop, process, drops, calm>>

LoginOk(k) ==
  /\ process = "up"
  /\ phase[k] = "login"
  /\ phase' = [phase EXCEPT ![k] = "connecting"]
  /\ currentWs' = k
  /\ currentServers' = servers[k]
  /\ UNCHANGED <<servers, restarts, spawned, alive, closing, backoff, stop, process, drops, calm>>

\* getAccessToken throws.  The first connect() is awaited by startAgent, which
\* rejects; a later one is called with void, and the rejection ends the process.
LoginFails(k) ==
  /\ process = "up"
  /\ TokenMayFail
  /\ phase[k] = "login"
  /\ process' = IF k = 1 THEN "rejected" ELSE "crashed"
  /\ UNCHANGED <<phase, servers, restarts, spawned, alive, closing, backoff, currentWs,
                 currentServers, stop, drops, calm>>

\* The 'open' event; the tools are sent and the pings begin.
Open(k) ==
  /\ process = "up"
  /\ phase[k] = "connecting"
  /\ phase' = [phase EXCEPT ![k] = "open"]
  /\ UNCHANGED <<servers, restarts, spawned, alive, closing, backoff, currentWs,
                 currentServers, stop, process, drops, calm>>

\* Mutant: the servers of a lost connection are kept for the next one.
OnCloseKeepingServers(k) ==
  /\ phase' = [phase EXCEPT ![k] = "closed"]
  /\ UNCHANGED closing
  /\ backoff' = IF stop = "no" THEN backoff + 1 ELSE backoff

\* Mutant: the close handler does not ask whether the agent was stopped.
OnCloseStopped(k) ==
  /\ phase' = [phase EXCEPT ![k] = "closed"]
  /\ CloseServers({servers[k]})
  /\ backoff' = backoff + 1

\* The 'close' handler: the servers go, and a timer will connect again.
OnClose(k) ==
  /\ phase' = [phase EXCEPT ![k] = "closed"]
  /\ CloseServers({servers[k]})
  /\ backoff' = IF stop = "no" THEN backoff + 1 ELSE backoff

\* The websocket finishes closing after close() or terminate().
CloseEvent(k) ==
  /\ process = "up"
  /\ phase[k] = "closing"
  /\ OnClose(k)
  /\ UNCHANGED <<servers, restarts, spawned, alive, currentWs, currentServers, stop, process,
                 drops, calm>>

\* The relay refuses the websocket, or the network drops it and says so.
Drop(k) ==
  /\ process = "up"
  /\ drops < MaxDrops
  /\ drops' = drops + 1
  /\ phase[k] \in {"connecting", "open", "silent"}
  /\ calm' = (calm /\ \A h \in Restarts : ~Restarting(h))
  /\ OnClose(k)
  /\ UNCHANGED <<servers, restarts, spawned, alive, currentWs, currentServers, stop, process>>

\* The network dies without a word: nothing arrives any more.
Silence(k) ==
  /\ process = "up"
  /\ drops < MaxDrops
  /\ drops' = drops + 1
  /\ phase[k] = "open"
  /\ calm' = (calm /\ \A h \in Restarts : ~Restarting(h))
  /\ phase' = [phase EXCEPT ![k] = "silent"]
  /\ UNCHANGED <<servers, restarts, spawned, alive, closing, backoff, currentWs,
                 currentServers, stop, process>>

\* Mutant: a pong that does not come is ignored.
PongTimeoutIgnored(k) == FALSE

\* Mutant: the timeout reconnects by itself, and the close event does it again.
PongTimeoutReconnects(k) ==
  /\ process = "up"
  /\ phase[k] = "silent"
  /\ phase' = [phase EXCEPT ![k] = "closing"]
  /\ backoff' = backoff + 1
  /\ UNCHANGED <<servers, restarts, spawned, alive, closing, currentWs, currentServers, stop,
                 process, drops, calm>>

\* A ping was not answered in time: the websocket is terminated.
PongTimeout(k) ==
  /\ process = "up"
  /\ phase[k] = "silent"
  /\ phase' = [phase EXCEPT ![k] = "closing"]
  /\ UNCHANGED <<servers, restarts, spawned, alive, closing, backoff, currentWs,
                 currentServers, stop, process, drops, calm>>

\* The reconnect timer fires and calls connect(), whatever stop() has done since.
Reconnect(k) ==
  /\ process = "up"
  /\ backoff > 0
  /\ phase[k] = "unused"
  /\ \A j \in Attempts : j < k => phase[j] # "unused"
  /\ backoff' = backoff - 1
  /\ phase' = [phase EXCEPT ![k] = "spawning"]
  /\ servers' = [servers EXCEPT ![k] = spawned + 1]
  /\ SpawnServers
  /\ UNCHANGED <<restarts, closing, currentWs, currentServers, stop, process, drops, calm>>

-----------------------------------------------------------------------------
(* A restart message. *)

\* Messages arrive until the websocket has closed.
RestartArrives(h, k) ==
  /\ process = "up"
  /\ restarts[h].at = "unused"
  /\ phase[k] \in {"open", "closing"}
  /\ calm' = (calm /\ phase[k] = "open" /\ \A g \in Restarts : ~Restarting(g))
  /\ restarts' = [restarts EXCEPT ![h] = [at |-> "closing", on |-> k, gen |-> servers[k]]]
  /\ CloseServers({servers[k]})
  /\ UNCHANGED <<phase, servers, spawned, alive, backoff, currentWs, currentServers, stop,
                 process, drops>>

RestartSpawns(h) ==
  /\ process = "up"
  /\ restarts[h].at = "closing"
  /\ restarts[h].gen \notin alive
  /\ restarts' = [restarts EXCEPT ![h] = [at |-> "spawning", on |-> @.on, gen |-> spawned + 1]]
  /\ SpawnServers
  /\ UNCHANGED <<phase, servers, closing, backoff, currentWs, currentServers, stop, process,
                 drops, calm>>

\* Mutant: the new servers never reach the variable the handlers share.
RestartSpawnedLocal(h) ==
  /\ process = "up"
  /\ restarts[h].at = "spawning"
  /\ restarts' = [restarts EXCEPT ![h].at = "listing"]
  /\ UNCHANGED <<phase, servers, spawned, alive, closing, backoff, currentWs, currentServers,
                 stop, process, drops, calm>>

\* The new servers replace the closure's, whatever is in it by now.
RestartSpawned(h) ==
  /\ process = "up"
  /\ restarts[h].at = "spawning"
  /\ restarts' = [restarts EXCEPT ![h].at = "listing"]
  /\ servers' = [servers EXCEPT ![restarts[h].on] = restarts[h].gen]
  /\ UNCHANGED <<phase, spawned, alive, closing, backoff, currentWs, currentServers, stop,
                 process, drops, calm>>

\* The new tools are listed and sent, or dropped on a websocket that is gone.
RestartDone(h) ==
  /\ process = "up"
  /\ restarts[h].at = "listing"
  /\ restarts' = [restarts EXCEPT ![h].at = "done"]
  /\ UNCHANGED <<phase, servers, spawned, alive, closing, backoff, currentWs, currentServers,
                 stop, process, drops, calm>>

-----------------------------------------------------------------------------
(* stop(), once startAgent has returned its handle. *)

\* close() on the websocket, if it is still there.
CloseCurrentWs ==
  phase' = [k \in Attempts |-> IF k = currentWs /\ HasWs(k) THEN "closing" ELSE phase[k]]

Stop ==
  /\ process = "up"
  /\ stop = "no"
  /\ currentWs # 0
  /\ calm' = (calm /\ HasWs(currentWs) /\ \A h \in Restarts : ~Restarting(h))
  /\ stop' = "pending"
  /\ CloseCurrentWs
  /\ CloseServers({currentServers})
  /\ UNCHANGED <<servers, restarts, spawned, alive, backoff, currentWs, currentServers, process,
                 drops>>

StopSettles ==
  /\ process = "up"
  /\ stop = "pending"
  /\ currentServers \notin alive
  /\ stop' = "settled"
  /\ UNCHANGED <<phase, servers, restarts, spawned, alive, closing, backoff, currentWs,
                 currentServers, process, drops, calm>>

-----------------------------------------------------------------------------

Next ==
  \/ \E g \in Gens : ServersClosed(g)
  \/ \E k \in Attempts :
       \/ Spawned(k) \/ LoginOk(k) \/ LoginFails(k) \/ Open(k) \/ Reconnect(k)
       \/ CloseEvent(k) \/ Drop(k) \/ Silence(k) \/ PongTimeout(k)
  \/ \E h \in Restarts, k \in Attempts : RestartArrives(h, k)
  \/ \E h \in Restarts : RestartSpawns(h) \/ RestartSpawned(h) \/ RestartDone(h)
  \/ Stop
  \/ StopSettles

\* Every await of the agent settles: spawns, logins and closes have timeouts of
\* their own; timers fire.  The handshake has none: that a websocket opens or is
\* refused is asked of the relay and the network, which owe nothing else.
Fairness ==
  /\ \A g \in Gens : WF_vars(ServersClosed(g))
  /\ \A k \in Attempts :
       /\ WF_vars(Spawned(k))
       /\ WF_vars(LoginOk(k) \/ LoginFails(k))
       /\ WF_vars(Open(k) \/ (phase[k] = "connecting" /\ Drop(k)))
       /\ WF_vars(Reconnect(k))
       /\ WF_vars(CloseEvent(k))
       /\ WF_vars(PongTimeout(k))
  /\ \A h \in Restarts : WF_vars(RestartSpawns(h) \/ RestartSpawned(h) \/ RestartDone(h))
  /\ WF_vars(StopSettles)

Spec == Init /\ [][Next]_vars /\ Fairness

-----------------------------------------------------------------------------
(* Properties. *)

\* Every variable has its type, and only servers that run are being closed.
TypeOK ==
  /\ phase \in [Attempts -> Phases]
  /\ servers \in [Attempts -> 0..spawned]
  /\ restarts \in [Restarts -> [at : {"unused", "closing", "spawning", "listing", "done"},
                                on : Attempts, gen : 0..spawned]]
  /\ spawned \in Nat \ {0}
  /\ alive \in SUBSET (1..spawned)
  /\ closing \in SUBSET alive
  /\ backoff \in Nat
  /\ currentWs \in Attempts \cup {0}
  /\ currentServers \in 0..spawned
  /\ stop \in {"no", "pending", "settled"}
  /\ process \in {"up", "rejected", "crashed"}
  /\ drops \in 0..MaxDrops
  /\ calm \in BOOLEAN

\* The agent is one device to the relay: it never has two attempts underway,
\* nor an armed reconnect timer beside one, however closes, pong timeouts,
\* restarts and stop() interleave; and it has one or the other until it is stopped.
OneChain ==
  /\ \A j, k \in Attempts : Underway(j) /\ Underway(k) => j = k
  /\ backoff <= 1
  /\ backoff = 1 => \A k \in Attempts : ~Underway(k)
  /\ stop = "no" => backoff = 1 \/ \E k \in Attempts : Underway(k)

\* Unless a restart overlaps another, a lost websocket or stop(), every generation
\* of servers that runs has somebody to close it: the attempt it serves, a close at
\* work, or the restart that is spawning it.
NoServersLeaked ==
  calm => \A g \in alive :
    \/ g \in closing
    \/ \E k \in Attempts : Underway(k) /\ servers[k] = g
    \/ \E h \in Restarts :
         restarts[h].at = "spawning" /\ restarts[h].gen = g /\ Underway(restarts[h].on)

Connected == \E k \in Attempts : phase[k] = "open"

\* An agent that lost its relay, noticed or not, connects again, however often it
\* is lost, unless it is stopped or a login fails.
Resumes == ~Connected ~> Connected \/ stop # "no" \/ process # "up"

\* The reconnect loop as it reads: an agent that lost its relay connects again
\* unless it is stopped.  (One whose startAgent rejected never had a connection.)
Reconnects ==
  ~Connected ~> Connected \/ stop # "no" \/ process = "rejected"

\* Unless restarts overlapped, or stop() came while no websocket was there, no
\* server process is left behind for good once stop() has settled.
StopEndsServers == stop = "settled" ~> alive = {} \/ ~calm

\* The restart tool is declared idempotent: when no restart is at work any more,
\* one set of local servers runs, however many times it was called.
RestartIdempotent ==
  (\A h \in Restarts : ~Restarting(h)) => Cardinality(alive \ closing) <= 1

InPhase(names) == \E k \in Attempts : phase[k] \in names

\* The chain as the relay sees it; the first attempt is the one before any websocket.
Loop ==
  IF process # "up" THEN process ELSE
  CASE backoff > 0                    -> "waiting"
    [] InPhase({"spawning", "login"}) -> IF currentWs = 0 THEN "launching" ELSE "redialling"
    [] InPhase({"connecting"})        -> "connecting"
    [] InPhase({"open"})              -> "connected"
    [] InPhase({"silent"})            -> "deaf"
    [] InPhase({"closing"})           -> "closing"
    [] OTHER                          -> "ended"

RL == INSTANCE ReconnectLoop WITH loop <- Loop, stopped <- stop # "no"

\* The attempts, timers and websockets of the agent make up one reconnect loop.
ImplementsReconnectLoop == RL!Spec

=============================================================================
