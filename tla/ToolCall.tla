------------------------------ MODULE ToolCall ------------------------------
(***************************************************************************)
(* What the relay promises to the MCP client about one tools/call request: *)
(* it is refused at once or handed to at most one agent, it is never       *)
(* handed out again, it gets exactly one outcome, and it gets it whether   *)
(* or not the agent ever answers.  ConnectionManager implements it, and so *)
(* does Tunnel, the relay and an agent over connections that get lost.     *)
(***************************************************************************)

CONSTANT Reqs

VARIABLES
  phase,  \* what the client knows of each request
  work    \* the requests some agent holds and has not answered

vars == <<phase, work>>

Phases == {"idle", "waiting", "answered", "expired", "refused"}

Init ==
  /\ phase = [r \in Reqs |-> "idle"]
  /\ work = {}

\* No connected device offers the tool: the client is told so at once.
Refuse(r) ==
  /\ phase[r] = "idle"
  /\ phase' = [phase EXCEPT ![r] = "refused"]
  /\ UNCHANGED work

\* The call is handed to an agent, or lost on a connection that is going down.
Accept(r) ==
  /\ phase[r] = "idle"
  /\ phase' = [phase EXCEPT ![r] = "waiting"]
  /\ work' \in {work, work \cup {r}}

\* The agent's answer counts only while the client is still waiting.
Answer(r) ==
  /\ r \in work
  /\ work' = work \ {r}
  /\ phase' = IF phase[r] = "waiting" THEN [phase EXCEPT ![r] = "answered"] ELSE phase

\* The connections of some agents are lost, and what they held with them.
Lose ==
  /\ work' \in SUBSET work
  /\ UNCHANGED phase

\* The client is told that the request timed out; an agent may still hold it.
Expire(r) ==
  /\ phase[r] = "waiting"
  /\ phase' = [phase EXCEPT ![r] = "expired"]
  /\ UNCHANGED work

Next == Lose \/ \E r \in Reqs : Refuse(r) \/ Accept(r) \/ Answer(r) \/ Expire(r)

Spec == Init /\ [][Next]_vars /\ \A r \in Reqs : WF_vars(Expire(r))

-----------------------------------------------------------------------------

\* An outcome is final; an agent gets a call only in the step that accepts it,
\* so never a second time; and the client gets no answer but from an agent that
\* holds the call.
Once(r) ==
  /\ phase[r] \notin {"idle", "waiting"} => phase'[r] = phase[r]
  /\ r \in work' \ work => phase[r] = "idle" /\ phase'[r] = "waiting"
  /\ phase'[r] = "answered" => r \in work \/ phase[r] = "answered"

HandedOnce == [][\A r \in Reqs : Once(r)]_vars

=============================================================================
