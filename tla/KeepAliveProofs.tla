--------------------------- MODULE KeepAliveProofs ---------------------------
(***************************************************************************)
(* The timing theorems of KeepAlive.  Each is an inequality between an age *)
(* and a countdown: while time passes one grows as the other shrinks, so   *)
(* that only the events that reset one of them matter.                     *)
(***************************************************************************)
EXTENDS KeepAlive, TLAPS

\* The agent's timers: what it has not heard for, and what is left of the wait.
AgentTimers ==
  /\ awaiting => agent = "open"
  /\ awaiting => pingIn = pongIn + PingEvery - PongWithin
  /\ agent = "connecting" => deaf = 0
  /\ agent = "open" /\ ~awaiting => deaf + pingIn <= PingEvery
  /\ awaiting => deaf + pongIn <= PingEvery + Lag + PongWithin

\* The relay's: the age of the last ping, and what is left to the sweep.
RelayTimers ==
  listed => relay = "open" /\ age + sweepIn <= StaleAfter + SweepEvery

\* Without a fault, where the two ends are in the exchange of ping and pong, how
\* old the last ping is, and that the pong comes before its timeout.
Opening == wire = "accept" /\ age + transit <= Delay

Resting == wire = "none" /\ age + pingIn <= PingEvery + Delay

Pinging ==
  /\ wire = "ping"
  /\ age + transit <= PingEvery + Lag + Delay + Delay
  /\ transit + PongWithin <= pongIn + Delay

Ponging ==
  /\ wire = "pong"
  /\ age + pingIn <= PingEvery + Delay
  /\ age + transit <= Delay
  /\ transit + PongWithin <= pongIn + Delay + Delay

Healthy ==
  faults = 0 =>
    /\ awake /\ linked
    /\ agent \in Up \cup {"closed"}
    /\ agent \in Up => relay = "open"
    /\ agent = "connecting" => Opening
    /\ agent = "open" /\ ~awaiting => Resting
    /\ awaiting => Pinging \/ Ponging

IInv == TypeOK /\ AgentTimers /\ RelayTimers /\ Healthy

-----------------------------------------------------------------------------

\* The constants are numbers that fit together.
LEMMA Numbers ==
  /\ PingEvery \in Nat /\ PongWithin \in Nat /\ StaleAfter \in Nat /\ SweepEvery \in Nat
  /\ PingEvery > 0 /\ PongWithin > 0 /\ StaleAfter > 0 /\ SweepEvery > 0
  /\ Delay \in Nat /\ Lag \in Nat /\ MaxFaults \in Nat
  /\ Delay + Delay < PongWithin
  /\ PongWithin + Lag < PingEvery
  /\ PingEvery + Lag + Delay + Delay <= StaleAfter
BY KeepAliveAssumption DEF KeepAliveAssumption

\* The relay accepts the connection in a state that satisfies the invariant.
LEMMA InitIInv == Init => IInv
<1> SUFFICES ASSUME Init
             PROVE  IInv
  OBVIOUS
<1> USE Numbers DEF Init
<1>1. EndsOK
  BY DEF EndsOK, Up
<1>2. ClocksOK
  BY DEF ClocksOK
<1>3. AgentTimers /\ RelayTimers
  BY DEF AgentTimers, RelayTimers
<1>4. Healthy
  BY DEF Healthy, Opening, Up
<1> QED
  BY <1>1, <1>2, <1>3, <1>4 DEF IInv, TypeOK

\* Steps keep the types of the two ends and of what is between them.
LEMMA StepEnds ==
  ASSUME EndsOK, [Next]_vars
  PROVE  EndsOK'
<1> USE Numbers DEF EndsOK, Up, Send, Received,
                    vars, agentVars, relayVars, wireVars, worldVars
<1>1. CASE OpenEvent
  BY <1>1 DEF OpenEvent
<1>2. CASE SendPing
  BY <1>2 DEF SendPing, Rearm
<1>3. CASE ReceivePong
  BY <1>3 DEF ReceivePong, Disarm
<1>4. CASE PongTimeout
  BY <1>4 DEF PongTimeout, AgentEnds, Disarm
<1>5. CASE AgentCloses \/ AgentSeesClose
  BY <1>5 DEF AgentCloses, AgentSeesClose, AgentEnds, Disarm
<1>6. CASE ReceivePing
  BY <1>6 DEF ReceivePing
<1>7. CASE Sweep
  BY <1>7 DEF Sweep, Swept, Terminate
<1>8. CASE RelaySeesClose \/ Replaced
  BY <1>8 DEF RelaySeesClose, Replaced
<1>9. CASE Fault \/ Recover
  BY <1>9 DEF Fault, Recover
<1>10. CASE Tick
  BY <1>10 DEF Tick
<1>11. CASE UNCHANGED vars
  BY <1>11
<1> QED
  BY <1>1, <1>2, <1>3, <1>4, <1>5, <1>6, <1>7, <1>8, <1>9, <1>10, <1>11
  DEF Next, AgentStep, RelayStep

\* They keep those of the clocks: time stops for a timer that is due.
LEMMA StepClocks ==
  ASSUME TypeOK, AgentTimers, [Next]_vars
  PROVE  ClocksOK'
<1> USE Numbers DEF TypeOK, EndsOK, ClocksOK, AgentTimers, Send, Received,
                    vars, agentVars, relayVars, wireVars, worldVars
<1>1. CASE OpenEvent
  BY <1>1 DEF OpenEvent
<1>2. CASE SendPing
  BY <1>2 DEF SendPing, Rearm
<1>3. CASE ReceivePong
  BY <1>3 DEF ReceivePong, Disarm
<1>4. CASE PongTimeout
  BY <1>4 DEF PongTimeout, AgentEnds, Disarm
<1>5. CASE AgentCloses \/ AgentSeesClose
  BY <1>5 DEF AgentCloses, AgentSeesClose, AgentEnds, Disarm
<1>6. CASE ReceivePing
  BY <1>6 DEF ReceivePing
<1>7. CASE Sweep
  BY <1>7 DEF Sweep, Swept, Terminate
<1>8. CASE RelaySeesClose \/ Replaced
  BY <1>8 DEF RelaySeesClose, Replaced
<1>9. CASE Fault \/ Recover
  BY <1>9 DEF Fault, Recover
<1>10. CASE Tick
  BY <1>10 DEF Tick
<1>11. CASE UNCHANGED vars
  BY <1>11
<1> QED
  BY <1>1, <1>2, <1>3, <1>4, <1>5, <1>6, <1>7, <1>8, <1>9, <1>10, <1>11
  DEF Next, AgentStep, RelayStep

\* They keep what ties the agent's silence to its timers.
LEMMA StepAgentTimers ==
  ASSUME TypeOK, AgentTimers, [Next]_vars
  PROVE  AgentTimers'
<1> USE Numbers DEF TypeOK, EndsOK, ClocksOK, AgentTimers, Up,
                    vars, agentVars, relayVars, wireVars, worldVars
<1>1. CASE OpenEvent
  BY <1>1 DEF OpenEvent
<1>2. CASE SendPing
  BY <1>2 DEF SendPing, Rearm
<1>3. CASE ReceivePong
  BY <1>3 DEF ReceivePong, Disarm
<1>4. CASE PongTimeout
  BY <1>4 DEF PongTimeout, AgentEnds, Disarm
<1>5. CASE AgentCloses \/ AgentSeesClose
  BY <1>5 DEF AgentCloses, AgentSeesClose, AgentEnds, Disarm
<1>6. CASE ReceivePing
  BY <1>6 DEF ReceivePing
<1>7. CASE Sweep
  BY <1>7 DEF Sweep, Swept, Terminate
<1>8. CASE RelaySeesClose \/ Replaced
  BY <1>8 DEF RelaySeesClose, Replaced
<1>9. CASE Fault \/ Recover
  BY <1>9 DEF Fault, Recover
<1>10. CASE Tick
  BY <1>10 DEF Tick
<1>11. CASE UNCHANGED vars
  BY <1>11
<1> QED
  BY <1>1, <1>2, <1>3, <1>4, <1>5, <1>6, <1>7, <1>8, <1>9, <1>10, <1>11
  DEF Next, AgentStep, RelayStep

\* And what ties the age of the last ping to the sweep.
LEMMA StepRelayTimers ==
  ASSUME TypeOK, RelayTimers, [Next]_vars
  PROVE  RelayTimers'
<1> USE Numbers DEF RelayTimers,
                    vars, agentVars, relayVars, wireVars, worldVars
<1>0. age \in Nat /\ sweepIn \in Int /\ listed \in BOOLEAN
  BY DEF TypeOK, EndsOK, ClocksOK
<1> USE <1>0
<1>1. CASE OpenEvent
  BY <1>1 DEF OpenEvent
<1>2. CASE SendPing
  BY <1>2 DEF SendPing, Rearm
<1>3. CASE ReceivePong
  BY <1>3 DEF ReceivePong, Disarm
<1>4. CASE PongTimeout
  BY <1>4 DEF PongTimeout, AgentEnds, Disarm
<1>5. CASE AgentCloses \/ AgentSeesClose
  BY <1>5 DEF AgentCloses, AgentSeesClose, AgentEnds, Disarm
<1>6. CASE ReceivePing
  BY <1>6 DEF ReceivePing
<1>7. CASE Sweep
  <2>1. CASE Swept
    BY <1>7, <2>1 DEF Sweep, Terminate
  <2>2. CASE ~Swept
    <3>1. listed => age <= StaleAfter
      BY <2>2 DEF Swept
    <3>2. relay' = relay /\ listed' = listed /\ age' = age /\ sweepIn' = SweepEvery
      BY <1>7, <2>2 DEF Sweep
    <3> QED
      BY <3>1, <3>2
  <2> QED
    BY <2>1, <2>2
<1>8. CASE RelaySeesClose \/ Replaced
  BY <1>8 DEF RelaySeesClose, Replaced
<1>9. CASE Fault \/ Recover
  BY <1>9 DEF Fault, Recover
<1>10. CASE Tick
  BY <1>10 DEF Tick
<1>11. CASE UNCHANGED vars
  BY <1>11
<1> QED
  BY <1>1, <1>2, <1>3, <1>4, <1>5, <1>6, <1>7, <1>8, <1>9, <1>10, <1>11
  DEF Next, AgentStep, RelayStep

\* While nothing fails, neither end's timer runs out on the other.
LEMMA StepHealthy ==
  ASSUME IInv, [Next]_vars
  PROVE  Healthy'
<1> SUFFICES ASSUME faults' = 0
             PROVE  Healthy'
  BY DEF Healthy
<1> USE Numbers DEF IInv, TypeOK, EndsOK, ClocksOK, AgentTimers, Healthy, Opening, Resting,
                    Pinging, Ponging, Up, Send, Received, vars, agentVars, relayVars, wireVars,
                    worldVars
<1>1. CASE OpenEvent
  BY <1>1 DEF OpenEvent
<1>2. CASE SendPing
  BY <1>2 DEF SendPing, Rearm
<1>3. CASE ReceivePong
  BY <1>3 DEF ReceivePong, Disarm
<1>4. CASE PongTimeout
  BY <1>4 DEF PongTimeout, AgentEnds, Disarm
<1>5. CASE AgentCloses \/ AgentSeesClose
  BY <1>5 DEF AgentCloses, AgentSeesClose, AgentEnds, Disarm
<1>6. CASE ReceivePing
  BY <1>6 DEF ReceivePing
<1>7. CASE Sweep
  BY <1>7 DEF Sweep, Swept, Terminate
<1>8. CASE RelaySeesClose \/ Replaced
  BY <1>8 DEF RelaySeesClose, Replaced
<1>9. CASE Fault \/ Recover
  BY <1>9 DEF Fault, Recover
<1>10. CASE Tick
  BY <1>10 DEF Tick, Expected
<1>11. CASE UNCHANGED vars
  BY <1>11
<1> QED
  BY <1>1, <1>2, <1>3, <1>4, <1>5, <1>6, <1>7, <1>8, <1>9, <1>10, <1>11
  DEF Next, AgentStep, RelayStep

\* The invariant is inductive.
LEMMA Inductive == Spec => []IInv
<1>1. IInv /\ [Next]_vars => IInv'
  BY StepEnds, StepClocks, StepAgentTimers, StepRelayTimers, StepHealthy DEF IInv, TypeOK
<1> QED
  BY InitIInv, <1>1, PTL DEF Spec

-----------------------------------------------------------------------------

\* Every variable keeps its type, and no timer is later than Lag.
THEOREM TypeCorrect == Spec => []TypeOK
BY Inductive, PTL DEF IInv

\* For all times that fit: a healthy agent and its relay never give each other up.
THEOREM NoFalseAlarms == Spec => []NoFalseAlarm
<1>1. IInv => NoFalseAlarm
  BY DEF IInv, Healthy, NoFalseAlarm, Up, TypeOK, EndsOK
<1> QED
  BY <1>1, Inductive, PTL

\* For all times: a listed device has its websocket, and pinged at most a threshold
\* and a sweep ago.
THEOREM RelayNoticesInTime == Spec => []RelayNotices
<1>1. IInv => RelayNotices
  BY Numbers DEF IInv, RelayTimers, RelayNotices, TypeOK, ClocksOK
<1> QED
  BY <1>1, Inductive, PTL

\* For all times: an agent that hears nothing gives its websocket up in time.
THEOREM AgentNoticesInTime == Spec => []AgentNotices
<1>1. IInv => AgentNotices
  BY Numbers DEF IInv, AgentTimers, AgentNotices, TypeOK, EndsOK, ClocksOK
<1> QED
  BY <1>1, Inductive, PTL

=============================================================================
