----------------------------- MODULE AgentProofs -----------------------------
(***************************************************************************)
(* Theorems about Agent, for any number of network faults and restarts.    *)
(***************************************************************************)
EXTENDS Agent, TLAPS

LEMMA InitType == Init => TypeOK
BY AgentAssumption DEF Init, TypeOK, Attempts, Restarts, Phases

\* A new generation gets a number of its own.
LEMMA SpawnType ==
  ASSUME TypeOK, SpawnServers
  PROVE  /\ spawned' \in Nat \ {0}
         /\ alive' \in SUBSET (1..spawned') /\ alive \subseteq alive'
         /\ 0..spawned \subseteq 0..spawned' /\ spawned + 1 \in 0..spawned'
         /\ spawned + 1 \notin alive
BY DEF TypeOK, SpawnServers

LEMMA StepType == TypeOK /\ [Next]_vars => TypeOK'
<1> SUFFICES ASSUME TypeOK, [Next]_vars PROVE TypeOK'
  OBVIOUS
<1> USE AgentAssumption DEF TypeOK, Phases
<1>1. CASE UNCHANGED vars
  BY <1>1 DEF vars
<1>2. ASSUME NEW g \in Gens, ServersClosed(g) PROVE TypeOK'
  BY <1>2 DEF ServersClosed
<1>3. ASSUME NEW k \in Attempts,
             Spawned(k) \/ LoginOk(k) \/ LoginFails(k) \/ Open(k) \/ PongTimeout(k)
      PROVE  TypeOK'
  <2>1. CASE Spawned(k) \/ Open(k) \/ PongTimeout(k)
    BY <2>1 DEF Spawned, Open, PongTimeout
  <2>2. CASE LoginOk(k)
    BY <2>2 DEF LoginOk
  <2>3. CASE LoginFails(k)
    BY <2>3 DEF LoginFails
  <2> QED
    BY <1>3, <2>1, <2>2, <2>3
<1>4. ASSUME NEW k \in Attempts, Reconnect(k) PROVE TypeOK'
  <2>1. SpawnServers
    BY <1>4 DEF Reconnect
  <2>2. backoff' \in Nat
    BY <1>4 DEF Reconnect
  <2>3. servers' \in [Attempts -> 0..spawned']
    BY <1>4, <2>1, SpawnType DEF Reconnect
  <2>4. restarts' \in [Restarts -> [at : {"unused", "closing", "spawning", "listing", "done"},
                                    on : Attempts, gen : 0..spawned']]
    BY <1>4, <2>1, SpawnType DEF Reconnect
  <2> QED
    BY <1>4, <2>1, <2>2, <2>3, <2>4, SpawnType DEF Reconnect
<1>5. ASSUME NEW k \in Attempts, CloseEvent(k) \/ Drop(k) \/ Silence(k) PROVE TypeOK'
  <2>1. ASSUME OnClose(k)
        PROVE  backoff' \in Nat /\ closing' \in SUBSET alive /\ phase' \in [Attempts -> Phases]
    <3>1. phase' = [phase EXCEPT ![k] = "closed"] /\ backoff' \in {backoff, backoff + 1}
      BY <2>1 DEF OnClose
    <3>2. closing' = closing \cup ({servers[k]} \cap alive)
      BY <2>1 DEF OnClose, CloseServers
    <3>3. closing' \subseteq alive
      BY <3>2
    <3>4. backoff' \in Nat
      BY <3>1
    <3>5. phase' \in [Attempts -> Phases]
      BY <3>1
    <3> QED
      BY <3>3, <3>4, <3>5
  <2>2. ASSUME drops < MaxDrops, drops' = drops + 1 PROVE drops' \in 0..MaxDrops
    BY <2>2
  <2>3. CASE CloseEvent(k)
    BY <2>1, <2>3 DEF CloseEvent
  <2>4. CASE Drop(k)
    BY <2>1, <2>2, <2>4 DEF Drop
  <2>5. CASE Silence(k)
    BY <2>2, <2>5 DEF Silence
  <2> QED
    BY <1>5, <2>3, <2>4, <2>5
<1>6. ASSUME NEW h \in Restarts, NEW k \in Attempts, RestartArrives(h, k) PROVE TypeOK'
  BY <1>6 DEF RestartArrives, CloseServers
<1>7. ASSUME NEW h \in Restarts, RestartSpawns(h) PROVE TypeOK'
  <2>1. SpawnServers
    BY <1>7 DEF RestartSpawns
  <2>2. servers' \in [Attempts -> 0..spawned']
    BY <1>7, <2>1, SpawnType DEF RestartSpawns
  <2>3. restarts' \in [Restarts -> [at : {"unused", "closing", "spawning", "listing", "done"},
                                    on : Attempts, gen : 0..spawned']]
    BY <1>7, <2>1, SpawnType DEF RestartSpawns
  <2> QED
    BY <1>7, <2>1, <2>2, <2>3, SpawnType DEF RestartSpawns
<1>8. ASSUME NEW h \in Restarts, RestartSpawned(h) \/ RestartDone(h) PROVE TypeOK'
  BY <1>8 DEF RestartSpawned, RestartDone
<1>9. CASE Stop
  BY <1>9 DEF Stop, CloseCurrentWs, CloseServers, HasWs
<1>10. CASE StopSettles
  BY <1>10 DEF StopSettles
<1> QED
  BY <1>1, <1>2, <1>3, <1>4, <1>5, <1>6, <1>7, <1>8, <1>9, <1>10 DEF Next

\* The agent's variables keep their types; only processes that run are closed.
THEOREM TypeCorrect == Spec => []TypeOK
BY InitType, StepType, PTL DEF Spec

-----------------------------------------------------------------------------
(* One chain of connections. *)

\* A step that leaves every attempt as far underway as it was, and the timer.
LEMMA SameChain ==
  ASSUME OneChain, backoff' = backoff, stop' = "no" => stop = "no",
         \A k \in Attempts : Underway(k)' <=> Underway(k)
  PROVE  OneChain'
BY DEF OneChain

LEMMA StepChain == TypeOK /\ OneChain /\ [Next]_vars => OneChain'
<1> SUFFICES ASSUME TypeOK, OneChain, [Next]_vars PROVE OneChain'
  OBVIOUS
<1>1. CASE UNCHANGED <<phase, backoff>> /\ (stop' = "no" => stop = "no")
  BY <1>1 DEF OneChain, Underway, HasWs
<1>2. ASSUME NEW k \in Attempts,
             Spawned(k) \/ LoginOk(k) \/ Open(k) \/ Silence(k) \/ PongTimeout(k)
      PROVE  OneChain'
  <2>1. backoff' = backoff /\ stop' = stop
    BY <1>2 DEF Spawned, LoginOk, Open, Silence, PongTimeout
  <2>2. \A j \in Attempts : Underway(j)' <=> Underway(j)
    BY <1>2 DEF Spawned, LoginOk, Open, Silence, PongTimeout, Underway, HasWs, TypeOK
  <2> QED
    BY <2>1, <2>2, SameChain
<1>3. ASSUME NEW k \in Attempts, CloseEvent(k) \/ Drop(k) PROVE OneChain'
  <2>1. /\ phase' = [phase EXCEPT ![k] = "closed"]
        /\ backoff' = IF stop = "no" THEN backoff + 1 ELSE backoff
        /\ stop' = stop /\ Underway(k)
    BY <1>3 DEF CloseEvent, Drop, OnClose, Underway, HasWs
  <2>2. \A j \in Attempts : ~Underway(j)'
    BY <2>1 DEF OneChain, Underway, HasWs, TypeOK
  <2>3. backoff = 0 /\ backoff' \in {0, 1} /\ (stop = "no" => backoff' = 1)
    BY <2>1 DEF OneChain, TypeOK
  <2> QED
    BY <2>1, <2>2, <2>3 DEF OneChain
<1>4. ASSUME NEW k \in Attempts, Reconnect(k) PROVE OneChain'
  <2>1. /\ phase' = [phase EXCEPT ![k] = "spawning"]
        /\ backoff = 1 /\ backoff' = 0
    BY <1>4 DEF Reconnect, OneChain, TypeOK
  <2>2. \A j \in Attempts : Underway(j)' <=> j = k
    BY <2>1 DEF OneChain, Underway, HasWs, TypeOK
  <2> QED
    BY <2>1, <2>2 DEF OneChain
<1>5. CASE Stop
  <2>1. backoff' = backoff /\ stop' # "no"
    BY <1>5 DEF Stop
  <2>2. \A j \in Attempts : Underway(j)' <=> Underway(j)
    BY <1>5 DEF Stop, CloseCurrentWs, Underway, HasWs, TypeOK
  <2> QED
    BY <2>1, <2>2, SameChain
<1>6. ASSUME NEW k \in Attempts, LoginFails(k) PROVE UNCHANGED <<phase, backoff, stop>>
  BY <1>6 DEF LoginFails
<1>7. ASSUME NEW h \in Restarts,
             \/ RestartSpawns(h) \/ RestartSpawned(h) \/ RestartDone(h)
             \/ \E k \in Attempts : RestartArrives(h, k)
      PROVE  UNCHANGED <<phase, backoff, stop>>
  BY <1>7 DEF RestartSpawns, RestartSpawned, RestartDone, RestartArrives
<1>8. ASSUME (\E g \in Gens : ServersClosed(g)) \/ StopSettles \/ UNCHANGED vars
      PROVE  UNCHANGED <<phase, backoff>> /\ (stop' = "no" => stop = "no")
  BY <1>8 DEF ServersClosed, StopSettles, vars
<1> QED
  BY <1>1, <1>2, <1>3, <1>4, <1>5, <1>6, <1>7, <1>8 DEF Next

\* Close events, pong timeouts, restarts and stop() in any order leave the agent
\* with one attempt underway or one timer that will start one, never two, and
\* never with neither before stop() was called.
THEOREM OneChainOnly == Spec => []OneChain
<1>1. Init => OneChain
  BY AgentAssumption DEF Init, OneChain, Underway, HasWs, Attempts
<1> QED
  BY <1>1, StepChain, TypeCorrect, PTL DEF Spec

-----------------------------------------------------------------------------
(* No server process is leaked when restarts overlap nothing. *)

\* What is calm after a step was calm before it.
LEMMA CalmBefore == [Next]_vars /\ calm' => calm
BY DEF Next, vars, ServersClosed, Spawned, LoginOk, LoginFails, Open, Reconnect, CloseEvent,
       Drop, Silence, PongTimeout, RestartArrives, RestartSpawns, RestartSpawned, RestartDone,
       Stop, StopSettles

\* A restart at work is the only one, on an open websocket; the servers it
\* replaces are the attempt's own, and gone once it spawns new ones.
CalmRestart ==
  /\ \A g, h \in Restarts : Restarting(g) /\ Restarting(h) => g = h
  /\ \A h \in Restarts : Restarting(h) =>
       /\ phase[restarts[h].on] = "open"
       /\ restarts[h].at = "closing" => restarts[h].gen = servers[restarts[h].on]
       /\ restarts[h].at = "spawning" => servers[restarts[h].on] \notin alive

\* A generation that runs has somebody to close it (NoServersLeaked says this of all).
Owned(g) ==
  \/ g \in closing
  \/ \E k \in Attempts : Underway(k) /\ servers[k] = g
  \/ \E h \in Restarts :
       restarts[h].at = "spawning" /\ restarts[h].gen = g /\ Underway(restarts[h].on)

LeakInv == TypeOK /\ OneChain /\ (calm => CalmRestart /\ \A g \in alive : Owned(g))

LEMMA InitLeak == Init => LeakInv
BY InitType, AgentAssumption
   DEF Init, LeakInv, OneChain, CalmRestart, Owned, Restarting, Underway, HasWs, Attempts

LEMMA StepLeak == LeakInv /\ [Next]_vars => LeakInv'
<1> SUFFICES ASSUME LeakInv, [Next]_vars, calm'
             PROVE  CalmRestart' /\ \A g \in alive' : Owned(g)'
  BY StepType, StepChain, AgentAssumption DEF LeakInv
<1>0. TypeOK /\ OneChain /\ CalmRestart /\ \A g \in alive : Owned(g)
  BY CalmBefore DEF LeakInv
<1> USE AgentAssumption DEF TypeOK, Restarting
<1>1. CASE UNCHANGED <<phase, servers, restarts, alive, closing>>
  BY <1>0, <1>1 DEF CalmRestart, Owned, Underway, HasWs
<1>2. ASSUME NEW x \in Gens, ServersClosed(x) PROVE CalmRestart' /\ \A g \in alive' : Owned(g)'
  <2>1. CalmRestart'
    BY <1>0, <1>2 DEF ServersClosed, CalmRestart
  <2>2. \A g \in alive' : g \in alive /\ Owned(g) /\ (g \in closing => g \in closing')
    BY <1>0, <1>2 DEF ServersClosed
  <2> QED
    BY <1>2, <2>1, <2>2 DEF ServersClosed, Owned, Underway, HasWs
\* The attempt moves on, or its websocket begins to close: it stays underway.
<1>3. ASSUME UNCHANGED <<servers, restarts, alive>>, closing \subseteq closing',
             \A k \in Attempts : Underway(k) => Underway(k)',
             \A k \in Attempts : phase[k] = "open" =>
               phase'[k] = "open" \/ \A h \in Restarts : ~Restarting(h)
      PROVE  CalmRestart' /\ \A g \in alive' : Owned(g)'
  <2>1. CalmRestart'
    BY <1>0, <1>3 DEF CalmRestart
  <2>2. \A g \in alive' : Owned(g)'
    BY <1>0, <1>3 DEF Owned
  <2> QED
    BY <2>1, <2>2
<1>4. ASSUME NEW k \in Attempts,
             \/ Spawned(k) \/ LoginOk(k) \/ LoginFails(k) \/ Open(k)
             \/ Silence(k) \/ PongTimeout(k)
      PROVE  CalmRestart' /\ \A g \in alive' : Owned(g)'
  <2>1. UNCHANGED <<servers, restarts, alive, closing>>
    BY <1>4 DEF Spawned, LoginOk, LoginFails, Open, Silence, PongTimeout
  <2>2. \A j \in Attempts : Underway(j) => Underway(j)'
    BY <1>0, <1>4 DEF Spawned, LoginOk, LoginFails, Open, Silence, PongTimeout, Underway, HasWs
  <2>3. \A j \in Attempts : phase[j] = "open" =>
          phase'[j] = "open" \/ \A h \in Restarts : ~Restarting(h)
    BY <1>0, <1>4 DEF Spawned, LoginOk, LoginFails, Open, Silence, PongTimeout
  <2> QED
    BY <1>3, <2>1, <2>2, <2>3
<1>5. CASE Stop
  <2>1. UNCHANGED <<servers, restarts, alive>> /\ closing \subseteq closing'
    BY <1>5 DEF Stop, CloseServers
  <2>2. \A j \in Attempts : Underway(j) => Underway(j)'
    BY <1>0, <1>5 DEF Stop, CloseCurrentWs, Underway, HasWs
  <2>3. \A h \in Restarts : ~Restarting(h)
    BY <1>5 DEF Stop
  <2> QED
    BY <1>3, <2>1, <2>2, <2>3
<1>6. ASSUME NEW k \in Attempts, CloseEvent(k) \/ Drop(k)
      PROVE  CalmRestart' /\ \A g \in alive' : Owned(g)'
  <2>1. /\ phase' = [phase EXCEPT ![k] = "closed"]
        /\ closing' = closing \cup ({servers[k]} \cap alive)
        /\ UNCHANGED <<servers, restarts, alive>>
        /\ HasWs(k)
    BY <1>6 DEF CloseEvent, Drop, OnClose, CloseServers, HasWs
  <2>2. \A h \in Restarts : Restarting(h) => restarts[h].on # k
    BY <1>0, <1>6 DEF CloseEvent, Drop, CalmRestart
  <2>3. CalmRestart'
    BY <1>0, <2>1, <2>2 DEF CalmRestart
  <2>4. \A j \in Attempts \ {k} : Underway(j) => Underway(j)'
    BY <1>0, <2>1 DEF Underway, HasWs
  <2>5. ASSUME NEW g \in alive' PROVE Owned(g)'
    BY <1>0, <2>1, <2>2, <2>4 DEF Owned
  <2> QED
    BY <2>3, <2>5
<1>7. ASSUME NEW k \in Attempts, Reconnect(k)
      PROVE  CalmRestart' /\ \A g \in alive' : Owned(g)'
  <2>1. /\ phase' = [phase EXCEPT ![k] = "spawning"]
        /\ servers' = [servers EXCEPT ![k] = spawned + 1]
        /\ alive' = alive \cup {spawned + 1}
        /\ phase[k] = "unused"
        /\ UNCHANGED <<restarts, closing>>
    BY <1>7 DEF Reconnect, SpawnServers
  <2>2. \A h \in Restarts : Restarting(h) => restarts[h].on # k
    BY <1>0, <2>1 DEF CalmRestart
  <2>3. \A j \in Attempts : servers[j] # spawned + 1
    BY <1>0
  <2>4. CalmRestart'
    BY <1>0, <2>1, <2>2, <2>3 DEF CalmRestart
  <2>5. \A j \in Attempts : Underway(j) => j # k /\ Underway(j)'
    BY <1>0, <2>1 DEF Underway, HasWs
  <2>6. Underway(k)' /\ servers'[k] = spawned + 1
    BY <1>0, <2>1 DEF Underway
  <2>7. ASSUME NEW g \in alive' PROVE Owned(g)'
    BY <1>0, <2>1, <2>2, <2>5, <2>6 DEF Owned
  <2> QED
    BY <2>4, <2>7
<1>8. ASSUME NEW h \in Restarts, NEW k \in Attempts, RestartArrives(h, k)
      PROVE  CalmRestart' /\ \A g \in alive' : Owned(g)'
  <2>1. /\ phase[k] = "open" /\ \A g \in Restarts : ~Restarting(g)
        /\ restarts' = [restarts EXCEPT ![h] =
                          [at |-> "closing", on |-> k, gen |-> servers[k]]]
        /\ closing \subseteq closing'
        /\ UNCHANGED <<phase, servers, alive>>
    BY <1>8 DEF RestartArrives, CloseServers
  <2>2. CalmRestart'
    BY <1>0, <2>1 DEF CalmRestart
  <2>3. \A g \in alive' : Owned(g)'
    BY <1>0, <2>1 DEF Owned, Underway, HasWs
  <2> QED
    BY <2>2, <2>3
<1>9. ASSUME NEW h \in Restarts, RestartSpawns(h)
      PROVE  CalmRestart' /\ \A g \in alive' : Owned(g)'
  <2> DEFINE k == restarts[h].on
  <2>1. /\ restarts[h].at = "closing" /\ restarts[h].gen \notin alive
        /\ restarts' = [restarts EXCEPT ![h] =
                          [at |-> "spawning", on |-> k, gen |-> spawned + 1]]
        /\ alive' = alive \cup {spawned + 1}
        /\ UNCHANGED <<phase, servers, closing>>
    BY <1>9 DEF RestartSpawns, SpawnServers
  <2>2. k \in Attempts /\ servers[k] \notin alive /\ servers[k] # spawned + 1
    BY <1>0, <2>1 DEF CalmRestart
  <2>3. phase[k] = "open" /\ Underway(k)'
    BY <1>0, <2>1 DEF CalmRestart, Underway, HasWs
  <2>4. /\ restarts'[h].at = "spawning" /\ restarts'[h].on = k
        /\ restarts'[h].gen = spawned + 1
        /\ \A g \in Restarts \ {h} : restarts'[g] = restarts[g]
    BY <1>0, <2>1
  <2>5. CalmRestart'
    BY <1>0, <2>1, <2>2, <2>3, <2>4 DEF CalmRestart
  <2>6. ASSUME NEW g \in alive' PROVE Owned(g)'
    <3>1. CASE g = spawned + 1
      BY <2>3, <2>4, <3>1 DEF Owned
    <3>2. CASE g \in alive
      BY <1>0, <2>1, <2>4, <3>2 DEF Owned, Underway, HasWs
    <3> QED
      BY <2>1, <3>1, <3>2
  <2> QED
    BY <2>5, <2>6
<1>10. ASSUME NEW h \in Restarts, RestartSpawned(h)
       PROVE  CalmRestart' /\ \A g \in alive' : Owned(g)'
  <2> DEFINE k == restarts[h].on
  <2>1. /\ restarts[h].at = "spawning"
        /\ restarts' = [restarts EXCEPT ![h].at = "listing"]
        /\ servers' = [servers EXCEPT ![k] = restarts[h].gen]
        /\ UNCHANGED <<phase, alive, closing>>
    BY <1>10 DEF RestartSpawned
  <2>2. k \in Attempts /\ phase[k] = "open" /\ servers[k] \notin alive
    BY <1>0, <2>1 DEF CalmRestart
  <2>3. CalmRestart'
    BY <1>0, <2>1 DEF CalmRestart
  <2>4. ASSUME NEW g \in alive' PROVE Owned(g)'
    <3>1. Underway(k)' /\ servers'[k] = restarts[h].gen
      BY <1>0, <2>1, <2>2 DEF Underway, HasWs
    <3>2. \A j \in Attempts : j # k => servers'[j] = servers[j]
      BY <1>0, <2>1
    <3>3. \A x \in Restarts : restarts[x].at = "spawning" => x = h
      BY <1>0, <2>1 DEF CalmRestart
    <3> QED
      BY <1>0, <2>1, <2>2, <3>1, <3>2, <3>3 DEF Owned, Underway, HasWs
  <2> QED
    BY <2>3, <2>4
<1>11. ASSUME NEW h \in Restarts, RestartDone(h)
       PROVE  CalmRestart' /\ \A g \in alive' : Owned(g)'
  <2>1. /\ restarts[h].at = "listing"
        /\ restarts' = [restarts EXCEPT ![h].at = "done"]
        /\ UNCHANGED <<phase, servers, alive, closing>>
    BY <1>11 DEF RestartDone
  <2>2. CalmRestart'
    BY <1>0, <2>1 DEF CalmRestart
  <2>3. \A g \in alive' : Owned(g)'
    BY <1>0, <2>1 DEF Owned, Underway, HasWs
  <2> QED
    BY <2>2, <2>3
<1>12. CASE StopSettles \/ UNCHANGED vars
  BY <1>1, <1>12 DEF StopSettles, vars
<1> QED
  BY <1>2, <1>4, <1>5, <1>6, <1>7, <1>8, <1>9, <1>10, <1>11, <1>12 DEF Next

\* Reconnects, one restart at a time and stop() leave no server process that
\* nobody is going to close.
THEOREM NoLeak == Spec => []NoServersLeaked
<1>1. LeakInv => NoServersLeaked
  BY DEF LeakInv, NoServersLeaked, Owned
<1> QED
  BY <1>1, InitLeak, StepLeak, PTL DEF Spec

-----------------------------------------------------------------------------
(* The agent implements ReconnectLoop. *)

\* stop() holds the websocket that is there; before the first one is dialled the
\* first attempt is underway, and it is never used again.
CurrentExact ==
  /\ \A k \in Attempts : HasWs(k) => currentWs = k
  /\ currentWs = 0 <=> phase[1] \in {"spawning", "login"}
  /\ phase[1] # "unused"

LoopInv == TypeOK /\ OneChain /\ CurrentExact

LEMMA InitLoop == Init => LoopInv
<1> SUFFICES ASSUME Init PROVE LoopInv
  OBVIOUS
<1>1. TypeOK
  BY InitType
<1>2. 1 \in Attempts
  BY AgentAssumption DEF Attempts
<1>3. OneChain /\ CurrentExact
  BY <1>2 DEF Init, OneChain, CurrentExact, Underway, HasWs
<1> QED
  BY <1>1, <1>3 DEF LoopInv

LEMMA StepCurrent == LoopInv /\ [Next]_vars => CurrentExact'
<1> SUFFICES ASSUME TypeOK, OneChain, CurrentExact, [Next]_vars PROVE CurrentExact'
  BY DEF LoopInv
<1>0. 1 \in Attempts
  BY AgentAssumption DEF Attempts
<1>1. CASE UNCHANGED <<phase, currentWs>>
  BY <1>1 DEF CurrentExact, HasWs
<1>2. ASSUME NEW k \in Attempts, LoginOk(k) PROVE CurrentExact'
  <2>1. phase[k] = "login" /\ phase' = [phase EXCEPT ![k] = "connecting"] /\ currentWs' = k
    BY <1>2 DEF LoginOk
  <2>2. \A j \in Attempts : ~HasWs(j)
    BY <2>1 DEF OneChain, Underway, HasWs
  <2>3. \A j \in Attempts : HasWs(j)' => j = k
    BY <2>1, <2>2 DEF HasWs, TypeOK
  <2>4. phase'[1] \notin {"spawning", "login", "unused"}
    BY <1>0, <2>1 DEF CurrentExact, OneChain, Underway, TypeOK
  <2>5. k # 0
    BY DEF Attempts
  <2> QED
    BY <2>1, <2>3, <2>4, <2>5 DEF CurrentExact
<1>3. ASSUME NEW k \in Attempts, NEW at \in Phases,
             phase' = [phase EXCEPT ![k] = at], currentWs' = currentWs,
             HasWs(k)' => HasWs(k),
             phase[k] \in {"spawning", "login"} <=> at \in {"spawning", "login"},
             at # "unused"
      PROVE  CurrentExact'
  <2>1. \A j \in Attempts : HasWs(j)' => HasWs(j)
    BY <1>3 DEF HasWs, TypeOK
  <2>2. phase'[1] \in {"spawning", "login"} <=> phase[1] \in {"spawning", "login"}
    BY <1>0, <1>3 DEF TypeOK
  <2>3. phase'[1] # "unused"
    BY <1>0, <1>3 DEF CurrentExact, TypeOK
  <2> QED
    BY <1>3, <2>1, <2>2, <2>3 DEF CurrentExact
<1>4. ASSUME NEW k \in Attempts, Spawned(k) PROVE CurrentExact'
  BY <1>3, <1>4 DEF Spawned, HasWs, TypeOK, Phases
<1>5. ASSUME NEW k \in Attempts, Open(k) \/ Silence(k) \/ PongTimeout(k) PROVE CurrentExact'
  <2>1. CASE Open(k)
    BY <1>3, <2>1 DEF Open, HasWs, TypeOK, Phases
  <2>2. CASE Silence(k)
    BY <1>3, <2>2 DEF Silence, HasWs, TypeOK, Phases
  <2>3. CASE PongTimeout(k)
    BY <1>3, <2>3 DEF PongTimeout, HasWs, TypeOK, Phases
  <2> QED
    BY <1>5, <2>1, <2>2, <2>3
<1>6. ASSUME NEW k \in Attempts, CloseEvent(k) \/ Drop(k) PROVE CurrentExact'
  <2>1. /\ phase' = [phase EXCEPT ![k] = "closed"] /\ currentWs' = currentWs
        /\ HasWs(k)
    BY <1>6 DEF CloseEvent, Drop, OnClose, HasWs
  <2> QED
    BY <1>3, <2>1 DEF HasWs, TypeOK, Phases
<1>7. ASSUME NEW k \in Attempts, Reconnect(k) PROVE CurrentExact'
  <2>1. /\ phase' = [phase EXCEPT ![k] = "spawning"] /\ currentWs' = currentWs
        /\ phase[k] = "unused" /\ k # 1
    BY <1>7 DEF Reconnect, CurrentExact
  <2>2. phase'[1] = phase[1]
    BY <1>0, <2>1 DEF TypeOK
  <2>3. \A j \in Attempts : HasWs(j)' => HasWs(j)
    BY <2>1 DEF HasWs, TypeOK
  <2> QED
    BY <2>1, <2>2, <2>3 DEF CurrentExact
<1>8. CASE Stop
  <2>1. /\ currentWs' = currentWs
        /\ phase' = [k \in Attempts |-> IF k = currentWs /\ HasWs(k) THEN "closing" ELSE phase[k]]
    BY <1>8 DEF Stop, CloseCurrentWs
  <2>2. \A k \in Attempts : HasWs(k)' => HasWs(k)
    BY <2>1 DEF HasWs
  <2>3. phase'[1] = phase[1] \/ (HasWs(1) /\ phase'[1] = "closing")
    BY <1>0, <2>1
  <2> QED
    BY <2>1, <2>2, <2>3 DEF CurrentExact, HasWs
<1>9. ASSUME NEW h \in Restarts,
             \/ RestartSpawns(h) \/ RestartSpawned(h) \/ RestartDone(h)
             \/ \E k \in Attempts : RestartArrives(h, k)
      PROVE  UNCHANGED <<phase, currentWs>>
  BY <1>9 DEF RestartSpawns, RestartSpawned, RestartDone, RestartArrives
<1>10. ASSUME \/ \E g \in Gens : ServersClosed(g)
              \/ \E k \in Attempts : LoginFails(k)
              \/ StopSettles \/ UNCHANGED vars
       PROVE  UNCHANGED <<phase, currentWs>>
  BY <1>10 DEF ServersClosed, LoginFails, StopSettles, vars
<1> QED
  BY <1>1, <1>2, <1>4, <1>5, <1>6, <1>7, <1>8, <1>9, <1>10 DEF Next

\* The one attempt that is underway, or the timer, is where the loop is.
LoopExact ==
  /\ backoff > 0 => Loop = "waiting"
  /\ \A k \in Attempts :
       /\ phase[k] \in {"spawning", "login"} =>
            Loop = IF currentWs = 0 THEN "launching" ELSE "redialling"
       /\ phase[k] = "connecting" => Loop = "connecting"
       /\ phase[k] = "open" => Loop = "connected"
       /\ phase[k] = "silent" => Loop = "deaf"
       /\ phase[k] = "closing" => Loop = "closing"
  /\ backoff = 0 /\ (\A k \in Attempts : ~Underway(k)) => Loop = "ended"

LEMMA LoopIs == LoopInv /\ process = "up" => LoopExact
<1> SUFFICES ASSUME LoopInv, process = "up" PROVE LoopExact
  OBVIOUS
<1>1. ASSUME backoff > 0 PROVE Loop = "waiting"
  <2>1. \A k \in Attempts : ~Underway(k)
    BY <1>1 DEF LoopInv, OneChain, TypeOK
  <2>2. /\ ~InPhase({"spawning", "login"}) /\ ~InPhase({"connecting"}) /\ ~InPhase({"open"})
        /\ ~InPhase({"silent"}) /\ ~InPhase({"closing"})
    BY <2>1 DEF InPhase, Underway, HasWs
  <2> QED
    BY <1>1, <2>2 DEF Loop
<1>2. ASSUME NEW k \in Attempts, Underway(k)
      PROVE  /\ ~(backoff > 0)
             /\ \A names : InPhase(names) /\ names \subseteq
                  {"spawning", "login", "connecting", "open", "silent", "closing"} =>
                    phase[k] \in names
             /\ \A names : phase[k] \in names => InPhase(names)
  <2>1. ~(backoff > 0)
    BY <1>2 DEF LoopInv, OneChain, TypeOK
  <2>2. ASSUME NEW names, InPhase(names),
               names \subseteq {"spawning", "login", "connecting", "open", "silent", "closing"}
        PROVE  phase[k] \in names
    <3>1. PICK j \in Attempts : phase[j] \in names
      BY <2>2 DEF InPhase
    <3>2. Underway(j)
      BY <2>2, <3>1 DEF Underway, HasWs
    <3> QED
      BY <1>2, <3>1, <3>2 DEF LoopInv, OneChain
  <2>3. ASSUME NEW names, phase[k] \in names PROVE InPhase(names)
    BY <2>3 DEF InPhase
  <2> QED
    BY <2>1, <2>2, <2>3
<1>3. ASSUME NEW k \in Attempts
      PROVE  /\ phase[k] \in {"spawning", "login"} =>
                  Loop = IF currentWs = 0 THEN "launching" ELSE "redialling"
             /\ phase[k] = "connecting" => Loop = "connecting"
             /\ phase[k] = "open" => Loop = "connected"
             /\ phase[k] = "silent" => Loop = "deaf"
             /\ phase[k] = "closing" => Loop = "closing"
  <2>1. CASE ~Underway(k)
    BY <2>1 DEF Underway, HasWs
  <2>2. CASE Underway(k)
    <3>1. InPhase({"spawning", "login"}) <=> phase[k] \in {"spawning", "login"}
      BY <1>2, <2>2
    <3>2. InPhase({"connecting"}) <=> phase[k] = "connecting"
      BY <1>2, <2>2
    <3>3. InPhase({"open"}) <=> phase[k] = "open"
      BY <1>2, <2>2
    <3>4. InPhase({"silent"}) <=> phase[k] = "silent"
      BY <1>2, <2>2
    <3>5. InPhase({"closing"}) <=> phase[k] = "closing"
      BY <1>2, <2>2
    <3> QED
      BY <1>2, <2>2, <3>1, <3>2, <3>3, <3>4, <3>5 DEF Loop
  <2> QED
    BY <2>1, <2>2
<1>4. ASSUME backoff = 0, \A k \in Attempts : ~Underway(k) PROVE Loop = "ended"
  <2>1. /\ ~InPhase({"spawning", "login"}) /\ ~InPhase({"connecting"}) /\ ~InPhase({"open"})
        /\ ~InPhase({"silent"}) /\ ~InPhase({"closing"})
    BY <1>4 DEF InPhase, Underway, HasWs
  <2> QED
    BY <1>4, <2>1 DEF Loop
<1> QED
  BY <1>1, <1>3, <1>4 DEF LoopExact

LEMMA StepLoop == LoopInv /\ [Next]_vars => LoopInv'
BY StepType, StepChain, StepCurrent DEF LoopInv

\* Each step of the agent is the step of the loop that its name suggests, or none.
LEMMA StepImplements == LoopInv /\ LoopInv' /\ [Next]_vars => [RL!Next]_RL!vars
<1> SUFFICES ASSUME LoopInv, LoopInv', [Next]_vars PROVE [RL!Next]_RL!vars
  OBVIOUS
<1>a. /\ process = "up" => LoopExact
      /\ process' = "up" => LoopExact'
  <2>1. process = "up" => LoopExact
    BY LoopIs
  <2>2. LoopInv' /\ (process = "up")' => LoopExact'
    BY LoopIs, PTL
  <2> QED
    BY <2>1, <2>2
<1>b. TypeOK /\ OneChain /\ CurrentExact
  BY DEF LoopInv
<1>1. CASE UNCHANGED <<phase, backoff, currentWs, process>> /\ (stop' = "no" <=> stop = "no")
  BY <1>1 DEF RL!vars, Loop, InPhase
<1>2. ASSUME NEW k \in Attempts, Spawned(k) PROVE [RL!Next]_RL!vars
  <2>1. /\ process = "up" /\ process' = "up" /\ phase[k] = "spawning" /\ phase'[k] = "login"
        /\ UNCHANGED <<currentWs, stop>>
    BY <1>2, <1>b DEF Spawned, TypeOK
  <2>2. Loop' = Loop
    BY <1>a, <2>1 DEF LoopExact
  <2> QED
    BY <2>1, <2>2 DEF RL!vars
<1>3. ASSUME NEW k \in Attempts, LoginOk(k) PROVE RL!Dial
  <2>1. /\ process = "up" /\ process' = "up" /\ phase[k] = "login" /\ phase'[k] = "connecting"
        /\ stop' = stop
    BY <1>3, <1>b DEF LoginOk, TypeOK
  <2>2. Loop \in {"launching", "redialling"} /\ Loop' = "connecting"
    BY <1>a, <2>1 DEF LoopExact
  <2> QED
    BY <2>1, <2>2 DEF RL!Dial
<1>4. ASSUME NEW k \in Attempts, LoginFails(k) PROVE RL!Fail
  <2>1. /\ process = "up" /\ process' = IF k = 1 THEN "rejected" ELSE "crashed"
        /\ phase[k] = "login" /\ stop' = stop
    BY <1>4 DEF LoginFails
  <2>2. k = 1 <=> currentWs = 0
    <3>1. 1 \in Attempts
      BY AgentAssumption DEF Attempts
    <3> QED
      BY <1>b, <2>1, <3>1 DEF CurrentExact, OneChain, Underway
  <2>3. Loop = IF k = 1 THEN "launching" ELSE "redialling"
    BY <1>a, <2>1, <2>2 DEF LoopExact
  <2>4. Loop' = process'
    BY <2>1 DEF Loop
  <2> QED
    BY <2>1, <2>3, <2>4 DEF RL!Fail
<1>5. ASSUME NEW k \in Attempts, Open(k) PROVE RL!Establish
  <2>1. /\ process = "up" /\ process' = "up" /\ phase[k] = "connecting" /\ phase'[k] = "open"
        /\ stop' = stop
    BY <1>5, <1>b DEF Open, TypeOK
  <2> QED
    BY <1>a, <2>1 DEF LoopExact, RL!Establish
<1>6. ASSUME NEW k \in Attempts, Silence(k) PROVE RL!Deafen
  <2>1. /\ process = "up" /\ process' = "up" /\ phase[k] = "open" /\ phase'[k] = "silent"
        /\ stop' = stop
    BY <1>6, <1>b DEF Silence, TypeOK
  <2> QED
    BY <1>a, <2>1 DEF LoopExact, RL!Deafen
<1>7. ASSUME NEW k \in Attempts, PongTimeout(k) PROVE RL!HangUp
  <2>1. /\ process = "up" /\ process' = "up" /\ phase[k] = "silent" /\ phase'[k] = "closing"
        /\ stop' = stop
    BY <1>7, <1>b DEF PongTimeout, TypeOK
  <2> QED
    BY <1>a, <2>1 DEF LoopExact, RL!HangUp
<1>8. ASSUME NEW k \in Attempts, CloseEvent(k) \/ Drop(k) PROVE RL!Lose
  <2>1. /\ process = "up" /\ process' = "up" /\ stop' = stop
        /\ phase[k] \in {"connecting", "open", "silent", "closing"}
        /\ phase' = [phase EXCEPT ![k] = "closed"]
        /\ backoff' = IF stop = "no" THEN backoff + 1 ELSE backoff
    BY <1>8 DEF CloseEvent, Drop, OnClose
  <2>2. Loop \in RL!Dialled
    BY <1>a, <2>1 DEF LoopExact, RL!Dialled
  <2>3. backoff = 0 /\ \A j \in Attempts : ~Underway(j)'
    BY <1>b, <2>1 DEF OneChain, Underway, HasWs, TypeOK
  <2>4. Loop' = IF stop # "no" THEN "ended" ELSE "waiting"
    BY <1>a, <2>1, <2>3 DEF LoopExact
  <2> QED
    BY <2>1, <2>2, <2>4 DEF RL!Lose
<1>9. ASSUME NEW k \in Attempts, Reconnect(k) PROVE RL!Redial
  <2>1. /\ process = "up" /\ process' = "up" /\ backoff > 0 /\ phase'[k] = "spawning"
        /\ UNCHANGED <<currentWs, stop>>
    BY <1>9, <1>b DEF Reconnect, TypeOK
  <2>2. currentWs # 0
    BY <1>b, <2>1, AgentAssumption DEF CurrentExact, OneChain, Underway, Attempts, TypeOK
  <2> QED
    BY <1>a, <2>1, <2>2 DEF LoopExact, RL!Redial
<1>10. CASE Stop
  <2>1. /\ process = "up" /\ process' = "up" /\ stop = "no" /\ stop' # "no"
        /\ currentWs # 0 /\ currentWs \in Attempts
        /\ UNCHANGED <<backoff, currentWs>>
        /\ phase' = [k \in Attempts |-> IF k = currentWs /\ HasWs(k) THEN "closing" ELSE phase[k]]
    BY <1>10, <1>b DEF Stop, CloseCurrentWs, TypeOK
  <2>2. CASE HasWs(currentWs)
    <3>1. Loop \in RL!Dialled
      BY <1>a, <2>1, <2>2 DEF LoopExact, HasWs, RL!Dialled
    <3>2. phase'[currentWs] = "closing"
      BY <2>1, <2>2
    <3>3. Loop' = "closing"
      BY <1>a, <2>1, <3>2 DEF LoopExact
    <3> QED
      BY <2>1, <3>1, <3>3 DEF RL!Stop, RL!Next
  <2>3. CASE ~HasWs(currentWs)
    <3>1. \A k \in Attempts : ~HasWs(k)
      BY <1>b, <2>3 DEF CurrentExact
    <3>2. \A k \in Attempts : phase'[k] = phase[k]
      BY <2>1, <3>1
    <3>3. Loop' = Loop
      BY <2>1, <3>2 DEF Loop, InPhase
    <3>4. backoff = 1 \/ \E k \in Attempts : phase[k] \in {"spawning", "login"}
      BY <1>b, <2>1, <3>1 DEF OneChain, Underway
    <3>5. Loop \in {"waiting", "redialling"}
      BY <1>a, <2>1, <3>4 DEF LoopExact
    <3> QED
      BY <2>1, <3>3, <3>5 DEF RL!Stop, RL!Next, RL!Dialled
  <2> QED
    BY <2>2, <2>3
<1>11. ASSUME NEW h \in Restarts,
              \/ RestartSpawns(h) \/ RestartSpawned(h) \/ RestartDone(h)
              \/ \E k \in Attempts : RestartArrives(h, k)
       PROVE  UNCHANGED <<phase, backoff, currentWs, process, stop>>
  BY <1>11 DEF RestartSpawns, RestartSpawned, RestartDone, RestartArrives
<1>12. ASSUME (\E g \in Gens : ServersClosed(g)) \/ StopSettles \/ UNCHANGED vars
       PROVE  UNCHANGED <<phase, backoff, currentWs, process>> /\ (stop' = "no" <=> stop = "no")
  BY <1>12 DEF ServersClosed, StopSettles, vars
<1> QED
  BY <1>1, <1>2, <1>3, <1>4, <1>5, <1>6, <1>7, <1>8, <1>9, <1>10, <1>11, <1>12
     DEF Next, RL!Next

LEMMA LoopInvariance == Spec => []LoopInv
BY InitLoop, StepLoop, PTL DEF Spec

\* Whatever closes, pong timeouts, restarts, failing logins and stop() do to each
\* other, the relay sees one reconnect loop: every step of the agent is a step of
\* ReconnectLoop or none of its business (the safety part of ImplementsReconnectLoop).
THEOREM AgentImplementsReconnectLoop == Spec => RL!Init /\ [][RL!Next]_RL!vars
<1>1. Init => RL!Init
  <2> SUFFICES ASSUME Init PROVE RL!Init
    OBVIOUS
  <2>1. LoopInv /\ process = "up" /\ currentWs = 0 /\ stop = "no"
    BY InitLoop DEF Init
  <2>2. phase[1] \in {"spawning", "login"} /\ 1 \in Attempts
    BY <2>1, AgentAssumption DEF LoopInv, CurrentExact, Attempts
  <2> QED
    BY <2>1, <2>2, LoopIs DEF LoopExact, RL!Init
<1> QED
  BY <1>1, StepImplements, LoopInvariance, PTL DEF Spec

\* After stop() no timer is armed, and an agent that was connected when it was
\* stopped, or that has closed since, never dials again.
THEOREM StopEndsLoop == Spec => RL!StopIsFinal
<1>1. [RL!Next]_RL!vars /\ stop # "no" =>
        \/ UNCHANGED RL!vars
        \/ /\ Loop' = "waiting" => Loop = "waiting"
           /\ Loop \in {"closing", "ended"} => Loop' \in {"closing", "ended"}
  BY DEF RL!Next, RL!Dial, RL!Fail, RL!Establish, RL!Deafen, RL!HangUp, RL!Lose, RL!Redial,
         RL!Stop, RL!Dialled, RL!vars
<1> QED
  BY <1>1, AgentImplementsReconnectLoop, PTL DEF RL!StopIsFinal

=============================================================================
