---------------------------- MODULE ReconnectLoop ----------------------------
(***************************************************************************)
(* What an agent is to the relay: one device, whose connections follow one *)
(* another.  It dials again after each loss, which it always comes to      *)
(* notice; once it is stopped it arms no further timer, and once stopped   *)
(* with a websocket in hand it never dials again.  Agent implements it.    *)
(***************************************************************************)

VARIABLES
  loop,    \* where the one chain of connections is
  stopped  \* stop() has been called

vars == <<loop, stopped>>

Dialled == {"connecting", "connected", "deaf", "closing"}

LoopStates ==
  {"launching", "redialling", "waiting", "ended", "rejected", "crashed"} \cup Dialled

Init == loop = "launching" /\ stopped = FALSE

\* The servers are up and the token is there.
Dial ==
  /\ loop \in {"launching", "redialling"}
  /\ loop' = "connecting"
  /\ UNCHANGED stopped

\* There is no token: startAgent rejects, or the process of a reconnect ends.
Fail ==
  /\ \/ loop = "launching" /\ loop' = "rejected"
     \/ loop = "redialling" /\ loop' = "crashed"
  /\ UNCHANGED stopped

Establish ==
  /\ loop = "connecting"
  /\ loop' = "connected"
  /\ UNCHANGED stopped

\* The network dies without a word, which only the pong timeout notices.
Deafen ==
  /\ loop = "connected"
  /\ loop' = "deaf"
  /\ UNCHANGED stopped

HangUp ==
  /\ loop = "deaf"
  /\ loop' = "closing"
  /\ UNCHANGED stopped

\* The websocket reports its close: the one event that arms the timer.
Lose ==
  /\ loop \in Dialled
  /\ loop' = IF stopped THEN "ended" ELSE "waiting"
  /\ UNCHANGED stopped

\* The timer fires, whatever stop() has done since.
Redial ==
  /\ loop = "waiting"
  /\ loop' = "redialling"
  /\ UNCHANGED stopped

\* stop() closes the websocket if there is one, and disarms no timer.
Stop ==
  /\ loop \in Dialled \cup {"waiting", "redialling"}
  /\ ~stopped
  /\ stopped' = TRUE
  /\ loop' = IF loop \in Dialled THEN "closing" ELSE loop

Next == Dial \/ Fail \/ Establish \/ Deafen \/ HangUp \/ Lose \/ Redial \/ Stop

Fairness ==
  /\ WF_vars(Dial \/ Fail)
  /\ WF_vars(loop = "connecting" /\ (Establish \/ Lose))
  /\ WF_vars(HangUp)
  /\ WF_vars(loop = "closing" /\ Lose)
  /\ WF_vars(Redial)

Spec == Init /\ [][Next]_vars /\ Fairness

-----------------------------------------------------------------------------

\* Once stopped, the loop arms no further timer, and from a websocket that is
\* closing it goes nowhere but to its end: the only attempts that stop() leaves
\* are the one whose timer was armed already and the one it interrupted.
StopIsFinal ==
  [][stopped => /\ loop' = "waiting" => loop = "waiting"
                /\ loop \in {"closing", "ended"} => loop' \in {"closing", "ended"}]_vars

=============================================================================
