------------------------------ MODULE KeepAlive ------------------------------
(***************************************************************************)
(* The four clocks that watch one websocket between agent and relay: the   *)
(* agent's ping interval and pong timeout (src/agent.ts), the relay's age  *)
(* of the last ping and its sweep (src/connection-manager.ts).             *)
(*                                                                         *)
(* The agent is a laptop that may fall asleep, and the network between     *)
(* them may go dead without a word and come back.  Countdowns and ages     *)
(* replace points in time, so that the clock needs no bound.  The code's   *)
(* constants are PingEvery 30 s, PongWithin 10 s, StaleAfter 90 s and      *)
(* SweepEvery 60 s.                                                        *)
(***************************************************************************)
EXTENDS Integers

CONSTANTS
  PingEvery, PongWithin,    \* PING_INTERVAL_MS, PONG_TIMEOUT_MS
  StaleAfter, SweepEvery,   \* STALE_THRESHOLD_MS, STALE_CHECK_INTERVAL_MS
  Delay,      \* the most a message takes on a network without fault
  Lag,        \* the most a timer's callback is late
  MaxFaults   \* how often the laptop sleeps or the network goes dead

ASSUME KeepAliveAssumption ==
  /\ {PingEvery, PongWithin, StaleAfter, SweepEvery} \subseteq Nat \ {0}
  /\ {Delay, Lag, MaxFaults} \subseteq Nat
  /\ Delay + Delay < PongWithin
  /\ PongWithin + Lag < PingEvery
  /\ PingEvery + Lag + Delay + Delay <= StaleAfter

VARIABLES
  agent,     \* the agent's end: "terminated" by it, "lost" when it saw the close
  relay,     \* the relay's end, likewise
  listed,    \* the connection is in the relay's registry
  wire,      \* the message on its way: the 101 answer, a ping, a pong, or none
  transit,   \* how long it may still take
  pingIn,    \* when the ping interval is due
  awaiting,  \* the pong timeout is armed
  pongIn,    \* when it is due
  age,       \* how long ago lastPingAt is
  sweepIn,   \* when the sweep is due
  deaf,      \* how long the agent, awake, has heard no pong
  awake, linked,  \* the laptop is awake, the network carries messages
  faults     \* how often they were not

agentVars == <<agent, pingIn, awaiting, pongIn, deaf>>
relayVars == <<relay, listed, age, sweepIn>>
wireVars == <<wire, transit>>
worldVars == <<awake, linked, faults>>
vars == <<agentVars, relayVars, wireVars, worldVars>>

Up == {"connecting", "open"}

\* The relay has accepted the upgrade, and its 101 answer is on the way.
Init ==
  /\ agent = "connecting" /\ relay = "open" /\ listed = TRUE
  /\ wire = "accept" /\ transit = Delay
  /\ pingIn = PingEvery /\ awaiting = FALSE /\ pongIn = 0 /\ deaf = 0
  /\ age = 0 /\ sweepIn \in 0..SweepEvery
  /\ awake = TRUE /\ linked = TRUE /\ faults = 0

Send(msg) == wire' = msg /\ transit' = Delay
Received == wire' = "none" /\ transit' = 0

-----------------------------------------------------------------------------
(* The agent. *)

\* The 'open' event starts the interval.
OpenEvent ==
  /\ awake /\ linked /\ agent = "connecting" /\ wire = "accept"
  /\ agent' = "open" /\ pingIn' = PingEvery
  /\ Received
  /\ UNCHANGED <<awaiting, pongIn, deaf, relayVars, worldVars>>

\* Mutants: the pong is given a whole ping interval; and pings come as often as
\* pongs are due, each of them arming the timeout anew.
RearmPatient == pingIn' = PingEvery /\ awaiting' = TRUE /\ pongIn' = PingEvery
RearmOften == pingIn' = PongWithin /\ awaiting' = TRUE /\ pongIn' = PongWithin

\* The interval repeats, and each ping arms the pong timeout anew.
Rearm == pingIn' = PingEvery /\ awaiting' = TRUE /\ pongIn' = PongWithin

SendPing ==
  /\ awake /\ agent = "open" /\ pingIn <= 0
  /\ Send("ping")
  /\ Rearm
  /\ UNCHANGED <<agent, deaf, relayVars, worldVars>>

\* Mutant: a pong leaves the timeout armed.
DisarmNever == UNCHANGED awaiting

\* clearTimeout(pongTimeout).
Disarm == awaiting' = FALSE

ReceivePong ==
  /\ awake /\ linked /\ agent = "open" /\ wire = "pong"
  /\ Disarm /\ deaf' = 0
  /\ Received
  /\ UNCHANGED <<agent, pingIn, pongIn, relayVars, worldVars>>

\* The agent's end closes; the close handler disarms the timers.
AgentEnds(how) ==
  /\ awake /\ agent \in Up
  /\ agent' = how
  /\ Disarm
  /\ UNCHANGED <<pingIn, pongIn, deaf, relayVars, wireVars, worldVars>>

PongTimeout == agent = "open" /\ awaiting /\ pongIn <= 0 /\ AgentEnds("terminated")

\* stop(), or the end of the process; or the relay's close arrives.
AgentCloses == AgentEnds("closed")
AgentSeesClose == relay # "open" /\ linked /\ AgentEnds("lost")

-----------------------------------------------------------------------------
(* The relay. *)

\* The 'ping' event; the library answers with a pong.
ReceivePing ==
  /\ linked /\ relay = "open" /\ wire = "ping"
  /\ age' = 0
  /\ Send("pong")
  /\ UNCHANGED <<relay, listed, sweepIn, agentVars, worldVars>>

\* Mutant: three pings may be missed on top of the threshold.
SweptLate == listed /\ age > StaleAfter + 3 * PingEvery

\* The sweep walks the registry only.
Swept == listed /\ age > StaleAfter

\* ws.terminate(); its close event follows at once and unlists the connection.
Terminate == relay' = "terminated" /\ listed' = FALSE

Sweep ==
  /\ sweepIn <= 0
  /\ sweepIn' = SweepEvery
  /\ IF relay = "open" /\ Swept THEN Terminate ELSE UNCHANGED <<relay, listed>>
  /\ UNCHANGED <<age, agentVars, wireVars, worldVars>>

\* The close of the agent's end arrives.
RelaySeesClose ==
  /\ linked /\ relay = "open" /\ agent \notin Up
  /\ relay' = "closed" /\ listed' = FALSE
  /\ UNCHANGED <<age, sweepIn, agentVars, wireVars, worldVars>>

\* A newer connection of the same user and name takes its place.
Replaced ==
  /\ relay = "open" /\ listed
  /\ listed' = FALSE
  /\ UNCHANGED <<relay, age, sweepIn, agentVars, wireVars, worldVars>>

-----------------------------------------------------------------------------
(* The laptop, the network and the clock. *)

Fault ==
  /\ faults < MaxFaults
  /\ faults' = faults + 1
  /\ \/ awake /\ awake' = FALSE /\ UNCHANGED linked
     \/ linked /\ linked' = FALSE /\ UNCHANGED awake
  /\ UNCHANGED <<agentVars, relayVars, wireVars>>

Recover ==
  /\ \/ ~awake /\ awake' = TRUE /\ UNCHANGED linked
     \/ ~linked /\ linked' = TRUE /\ UNCHANGED awake
  /\ UNCHANGED <<faults, agentVars, relayVars, wireVars>>

\* Somebody still waits for the message on its way.
Expected ==
  \/ wire = "ping" /\ relay = "open"
  \/ wire = "accept" /\ agent = "connecting"
  \/ wire = "pong" /\ agent = "open"

\* No timer is later than Lag, and without a fault no message than Delay.  A
\* laptop that sleeps stops the agent's timers.
Tick ==
  /\ sweepIn > -Lag
  /\ agent = "open" /\ awake => pingIn > -Lag /\ (awaiting => pongIn > -Lag)
  /\ faults = 0 /\ Expected => transit > 0
  /\ sweepIn' = sweepIn - 1
  /\ age' = IF relay = "open" /\ listed THEN age + 1 ELSE age
  /\ IF agent = "open" /\ awake
       THEN /\ pingIn' = pingIn - 1
            /\ pongIn' = IF awaiting THEN pongIn - 1 ELSE pongIn
            /\ deaf' = deaf + 1
       ELSE UNCHANGED <<pingIn, pongIn, deaf>>
  /\ transit' = IF transit > 0 THEN transit - 1 ELSE 0
  /\ UNCHANGED <<agent, awaiting, relay, listed, wire, worldVars>>

-----------------------------------------------------------------------------

AgentStep == OpenEvent \/ SendPing \/ ReceivePong \/ PongTimeout
RelayStep == ReceivePing \/ Sweep

Next ==
  \/ AgentStep \/ AgentCloses \/ AgentSeesClose
  \/ RelayStep \/ RelaySeesClose \/ Replaced
  \/ Fault \/ Recover \/ Tick

\* Every property is about how long something may last, which the guards of
\* Tick settle: no fairness is needed.
Spec == Init /\ [][Next]_vars

-----------------------------------------------------------------------------
(* Properties. *)

EndsOK ==
  /\ agent \in Up \cup {"terminated", "lost", "closed"}
  /\ relay \in {"open", "terminated", "closed"}
  /\ listed \in BOOLEAN /\ awaiting \in BOOLEAN
  /\ awake \in BOOLEAN /\ linked \in BOOLEAN
  /\ wire \in {"none", "accept", "ping", "pong"}

ClocksOK ==
  /\ transit \in 0..Delay
  /\ pingIn \in -Lag..PingEvery
  /\ pongIn \in -Lag..PongWithin
  /\ sweepIn \in -Lag..SweepEvery
  /\ age \in Nat /\ deaf \in Nat
  /\ faults \in 0..MaxFaults

\* Every variable has its type, and no timer is later than Lag.
TypeOK == EndsOK /\ ClocksOK

\* While the laptop is awake and the network works, neither end gives the other
\* up: ping interval, pong timeout, threshold and sweep fit together, from the
\* first ping on and whenever the sweep falls due.
NoFalseAlarm ==
  faults = 0 =>
    /\ agent \in Up \cup {"closed"}
    /\ relay = "terminated" => agent = "closed"

\* A device the relay still lists has a websocket the relay did not give up and
\* pinged at most a threshold and a sweep ago, whatever became of the laptop and
\* the network.
RelayNotices ==
  listed => relay = "open" /\ age <= StaleAfter + SweepEvery + Lag

\* An agent that is awake with an open websocket heard the relay at most a ping
\* interval and a pong timeout ago: on a dead network it gives up by then.
AgentNotices == agent = "open" => deaf <= PingEvery + PongWithin + Lag + Lag

=============================================================================
