---------------------------- MODULE DaemonProofs ----------------------------
(***************************************************************************)
(* Theorems about Daemon, for any number of sessions and faults: no daemon *)
(* is orphaned, whatever overlaps; and without overlapping startups and    *)
(* shutdowns the files always belong to the daemon that serves.            *)
(***************************************************************************)
EXTENDS Daemon, TLAPS

\* A session's daemon is not born before its stub has logged in.
Unborn == \A s \in Sessions : stub[s] \in {"idle", "auth"} => daemon[s] = "unborn"

LEMMA InitType == Init => TypeOK /\ Unborn
BY DaemonAssumption DEF Init, TypeOK, Unborn, StubStates, DaemonStates, Clients, Listening

\* A step of a stub leaves every daemon's own variables alone.
StubStep(s) ==
  \/ StartStub(s) \/ SpawnDaemon(s) \/ PollConnects(s)
  \/ StubFails(s) \/ EndSession(s) \/ StubDropped(s)

LEMMA StubStepType ==
  ASSUME TypeOK, Unborn, NEW s \in Sessions, StubStep(s)
  PROVE  TypeOK' /\ Unborn'
<1> USE DaemonAssumption DEF TypeOK, Unborn, StubStates, DaemonStates, Clients, Listening,
                             SocketLive
<1>1. CASE StartStub(s)
  BY <1>1 DEF StartStub, Connect
<1>2. CASE SpawnDaemon(s)
  BY <1>2 DEF SpawnDaemon
<1>3. CASE PollConnects(s)
  BY <1>3 DEF PollConnects, Connect
<1>4. CASE StubFails(s) \/ EndSession(s) \/ StubDropped(s)
  BY <1>4 DEF StubFails, EndSession, StubDropped
<1> QED
  BY <1>1, <1>2, <1>3, <1>4 DEF StubStep

LEMMA DaemonStepType ==
  ASSUME TypeOK, Unborn, NEW d \in Sessions, DaemonNext(d) \/ Signal(d) \/ Crash(d)
  PROVE  TypeOK' /\ Unborn'
<1> USE DaemonAssumption DEF TypeOK, Unborn, DaemonStates, Listening, Step, CleanUp
<1>1. CASE Probe(d)
  BY <1>1 DEF Probe, Connect, Exit, SocketLive, Clients
<1>2. CASE UnlinkStale(d) \/ WritePid(d) \/ AgentStarted(d) \/ AgentFailed(d)
  BY <1>2 DEF UnlinkStale, WritePid, AgentStarted, AgentFailed
<1>3. CASE Bind(d)
  BY <1>3 DEF Bind, Exit
<1>4. ASSUME NEW client \in Clients, Accept(d, client) \/ Close(d, client) PROVE TypeOK' /\ Unborn'
  BY <1>4 DEF Accept, Close, Looping
<1>5. CASE GraceTimer(d)
  BY <1>5 DEF GraceTimer, ShutdownNow, Looping
<1>6. CASE UnlinkPid(d)
  BY <1>6 DEF UnlinkPid, Exit
<1>7. CASE AgentStopped(d)
  BY <1>7 DEF AgentStopped, Exit
<1>8. CASE PidFileDeleted(d)
  BY <1>8 DEF PidFileDeleted, ShutdownNow, Looping
<1>9. CASE PidFileTaken(d)
  BY <1>9 DEF PidFileTaken, Exit, Looping
<1>10. CASE Signal(d)
  BY <1>10 DEF Signal, ShutdownNow
<1>11. CASE Crash(d)
  BY <1>11 DEF Crash, Exit
<1> QED
  BY <1>1, <1>2, <1>3, <1>4, <1>5, <1>6, <1>7, <1>8, <1>9, <1>10, <1>11 DEF DaemonNext

LEMMA StepType == TypeOK /\ Unborn /\ [Next]_vars => TypeOK' /\ Unborn'
<1>1. TypeOK /\ Unborn /\ UNCHANGED vars => TypeOK' /\ Unborn'
  BY DEF vars, TypeOK, Unborn, Listening
<1> QED
  BY <1>1, StubStepType, DaemonStepType DEF Next, StubStep

\* The processes, files and connections keep their types under every interleaving,
\* crash and signal; a process that does not listen has no clients and no timer.
THEOREM TypeCorrect == Spec => []TypeOK
BY InitType, StepType, PTL DEF Spec

-----------------------------------------------------------------------------
(* No orphan. *)

\* Whatever the order of accepts, closes and timeouts around the start of the
\* agent, a running daemon has a session or will look again whether it has one.
THEOREM NoDaemonOrphaned == Spec => []NeverOrphaned
<1>1. Init => NeverOrphaned
  BY DEF Init, NeverOrphaned
<1>2. TypeOK /\ NeverOrphaned /\ [Next]_vars => NeverOrphaned'
  <2> SUFFICES ASSUME TypeOK, NeverOrphaned, [Next]_vars PROVE NeverOrphaned'
    OBVIOUS
  <2> USE DEF TypeOK, NeverOrphaned, DaemonStates, Step, CleanUp, Exit
  <2>1. CASE UNCHANGED <<daemon, timer, accepted>>
    BY <2>1
  <2>2. ASSUME NEW s \in Sessions, StubStep(s) PROVE NeverOrphaned'
    BY <2>2 DEF StubStep, StartStub, SpawnDaemon, PollConnects, StubFails, EndSession,
                StubDropped
  <2>3. ASSUME NEW d \in Sessions,
               \/ Probe(d) \/ UnlinkStale(d) \/ Bind(d) \/ WritePid(d) \/ AgentStarted(d)
               \/ AgentFailed(d) \/ UnlinkPid(d) \/ AgentStopped(d)
        PROVE  NeverOrphaned'
    BY <2>3 DEF Probe, UnlinkStale, Bind, WritePid, AgentStarted, AgentFailed, UnlinkPid,
                AgentStopped
  <2>4. ASSUME NEW d \in Sessions, NEW client \in Clients, Accept(d, client) \/ Close(d, client)
        PROVE  NeverOrphaned'
    BY <2>4 DEF Accept, Close
  <2>5. ASSUME NEW d \in Sessions, GraceTimer(d) PROVE NeverOrphaned'
    BY <2>5 DEF GraceTimer, ShutdownNow
  <2>6. ASSUME NEW d \in Sessions,
               PidFileDeleted(d) \/ PidFileTaken(d) \/ Signal(d) \/ Crash(d)
        PROVE  NeverOrphaned'
    BY <2>6 DEF PidFileDeleted, PidFileTaken, Signal, Crash, ShutdownNow
  <2> QED
    BY <2>1, <2>2, <2>3, <2>4, <2>5, <2>6 DEF Next, StubStep, DaemonNext, vars
<1> QED
  BY <1>1, <1>2, TypeCorrect, PTL DEF Spec

-----------------------------------------------------------------------------
(* Ownership of the files, when startups and shutdowns do not overlap. *)

\* The session has a process at work on the files, or is about to have one.
Active(s) == daemon[s] \notin {"unborn", "dead"} \/ stub[s] = "auth"

\* At most one session is active; its daemon finds the path free when it binds,
\* owns the socket file from then on, and the PID file once it is written.
Owns(d) ==
  /\ daemon[d] = "binding" => sock = NoOne
  /\ daemon[d] = "writing" => sock = d
  /\ Serving(d) => sock = d /\ pidFile = d

Alone ==
  /\ \A d, e \in Sessions : Active(d) /\ Active(e) => d = e
  /\ \A d \in Sessions : Owns(d)

SoloInv == TypeOK /\ Unborn /\ (solo => Alone)

LEMMA InitSolo == Init => SoloInv
BY InitType, DaemonAssumption DEF Init, SoloInv, Alone, Unborn, Active, Owns, Serving

\* What is solo after a step was solo before it.
LEMMA SoloBefore == [Next]_vars /\ solo' => solo
BY DEF Next, DaemonNext, vars, StartStub, SpawnDaemon, PollConnects, StubFails, EndSession,
       StubDropped, Probe, UnlinkStale, Bind, WritePid, AgentStarted, AgentFailed, Accept, Close,
       GraceTimer, UnlinkPid, AgentStopped, PidFileDeleted, PidFileTaken, Signal, Crash

\* A session starts to log in only when no daemon is left.
LEMMA StartAlone ==
  ASSUME SoloInv, NEW s \in Sessions, StartStub(s), solo', ~SocketLive
  PROVE  \A e \in Sessions : ~Active(e)
<1>1. Settled /\ solo
  BY DEF StartStub
<1>2. \A e \in Sessions : daemon[e] # "running"
  BY <1>1, DaemonAssumption DEF SoloInv, Alone, Owns, Serving, SocketLive, Listening
<1> QED
  BY <1>1, <1>2 DEF Settled, Active

LEMMA StepSolo == SoloInv /\ [Next]_vars => SoloInv'
<1> SUFFICES ASSUME SoloInv, [Next]_vars, solo' PROVE Alone'
  BY StepType DEF SoloInv
<1>0. TypeOK /\ Unborn /\ Alone
  BY SoloBefore DEF SoloInv
<1> USE <1>0, DaemonAssumption
        DEF Alone, TypeOK, StubStates, DaemonStates, Unborn, Active, Owns, Serving, Step,
            CleanUp, Exit
<1>1. CASE UNCHANGED vars
  BY <1>1 DEF vars
<1>2. ASSUME NEW s \in Sessions, StartStub(s) PROVE Alone'
  <2>1. CASE SocketLive
    BY <1>2, <2>1 DEF StartStub
  <2>2. CASE ~SocketLive
    <3>1. \A e \in Sessions : ~Active(e)
      BY <1>2, <2>2, StartAlone
    <3> QED
      BY <1>2, <2>2, <3>1 DEF StartStub
  <2> QED
    BY <2>1, <2>2
<1>3. ASSUME NEW s \in Sessions, SpawnDaemon(s) PROVE Alone'
  BY <1>3 DEF SpawnDaemon
<1>4. ASSUME NEW s \in Sessions,
             PollConnects(s) \/ StubFails(s) \/ EndSession(s) \/ StubDropped(s)
      PROVE  Alone'
  <2>1. UNCHANGED <<daemon, sock, pidFile>>
    BY <1>4 DEF PollConnects, StubFails, EndSession, StubDropped
  <2>2. PICK state \in {"connected", "failed", "ended", "dropped"} :
          stub' = [stub EXCEPT ![s] = state]
    BY <1>4 DEF PollConnects, StubFails, EndSession, StubDropped
  <2>3. \A e \in Sessions : stub'[e] = "auth" => stub[e] = "auth"
    BY <2>2
  <2> QED
    BY <2>1, <2>3
<1>5. ASSUME NEW d \in Sessions, Probe(d) PROVE Alone'
  BY <1>5 DEF Probe
<1>6. ASSUME NEW d \in Sessions, UnlinkStale(d) PROVE Alone'
  BY <1>6 DEF UnlinkStale
<1>7. ASSUME NEW d \in Sessions, Bind(d) PROVE Alone'
  <2>1. daemon[d] = "binding" /\ sock = NoOne
    <3>1. daemon[d] = "binding" /\ Owns(d)
      BY <1>7 DEF Bind
    <3> QED
      BY <3>1
  <2>2. /\ sock' = d /\ daemon' = [daemon EXCEPT ![d] = "writing"]
        /\ UNCHANGED <<stub, pidFile>>
    BY <1>7, <2>1 DEF Bind
  <2>3. \A e \in Sessions : Active(e)' => Active(e)
    BY <2>1, <2>2
  <2>4. \A e \in Sessions : Owns(e)'
    BY <2>1, <2>2
  <2> QED
    BY <2>3, <2>4
<1>8. ASSUME NEW d \in Sessions, WritePid(d) PROVE Alone'
  BY <1>8 DEF WritePid
<1>9. ASSUME NEW d \in Sessions, AgentStarted(d) \/ AgentFailed(d) PROVE Alone'
  <2>1. CASE AgentStarted(d)
    BY <2>1 DEF AgentStarted
  <2>2. CASE AgentFailed(d)
    BY <2>2 DEF AgentFailed
  <2> QED
    BY <1>9, <2>1, <2>2
<1>10. ASSUME NEW d \in Sessions, NEW client \in Clients, Accept(d, client) \/ Close(d, client)
       PROVE  Alone'
  BY <1>10 DEF Accept, Close
<1>11. ASSUME NEW d \in Sessions, GraceTimer(d) PROVE Alone'
  BY <1>11 DEF GraceTimer, ShutdownNow, Looping
<1>12. ASSUME NEW d \in Sessions, UnlinkPid(d) \/ AgentStopped(d) PROVE Alone'
  <2>1. CASE UnlinkPid(d)
    BY <2>1 DEF UnlinkPid
  <2>2. CASE AgentStopped(d)
    BY <2>2 DEF AgentStopped
  <2> QED
    BY <1>12, <2>1, <2>2
<1>13. ASSUME NEW d \in Sessions, PidFileDeleted(d) \/ PidFileTaken(d) PROVE Alone'
  <2>1. CASE PidFileDeleted(d)
    BY <2>1 DEF PidFileDeleted, ShutdownNow, Looping
  <2>2. CASE PidFileTaken(d)
    BY <2>2 DEF PidFileTaken, Looping
  <2> QED
    BY <1>13, <2>1, <2>2
<1>14. ASSUME NEW d \in Sessions, Signal(d) \/ Crash(d) PROVE Alone'
  <2>1. CASE Signal(d)
    BY <2>1 DEF Signal, ShutdownNow
  <2>2. CASE Crash(d)
    BY <2>2 DEF Crash
  <2> QED
    BY <1>14, <2>1, <2>2
<1> QED
  BY <1>1, <1>2, <1>3, <1>4, <1>5, <1>6, <1>7, <1>8, <1>9, <1>10, <1>11, <1>12, <1>13,
     <1>14 DEF Next, DaemonNext

\* The socket and the PID file belong to the daemon that serves, though any
\* number of its predecessors crashed and left theirs behind.
THEOREM ServingDaemonOwnsFiles == Spec => []SoloOwnership
<1>1. SoloInv => SoloOwnership
  BY DEF SoloInv, Alone, SoloOwnership, Owns
<1> QED
  BY <1>1, InitSolo, StepSolo, PTL DEF Spec

\* What a crashed daemon left behind never keeps the next one from serving.
THEOREM StaleFilesNoObstacle == Spec => GivesUpOnlyToAnother
<1> DEFINE GivesUp ==
      solo => \A d \in Sessions :
        (Probe(d) \/ Bind(d)) /\ daemon'[d] = "dead" => SocketLive
<1>1. SoloInv => GivesUp
  BY DaemonAssumption
     DEF SoloInv, Alone, TypeOK, Owns, Probe, Bind, Step
<1> QED
  BY <1>1, InitSolo, StepSolo, PTL DEF Spec, GivesUpOnlyToAnother

-----------------------------------------------------------------------------
(* What holds although startups and shutdowns overlap. *)

\* Each client has at most one connection, so that the cardinality of accepted is
\* connectionCount, and a client that has not connected yet has none.
Holds(d, client) == client \in backlog[d] \cup accepted[d]

CountedOnce ==
  /\ \A d, e \in Sessions : \A client \in Clients :
       Holds(d, client) /\ Holds(e, client) => d = e
  /\ \A d \in Sessions : backlog[d] \cap accepted[d] = {}

Unconnected ==
  \A s, d \in Sessions :
    /\ stub[s] \in {"idle", "auth", "polling"} => ~Holds(d, <<"stub", s>>)
    /\ daemon[s] \in {"unborn", "probing"} => ~Holds(d, <<"probe", s>>)

\* A daemon that serves looks after its PID file.
Checking == \A d \in Sessions : Serving(d) => pidCheck[d] = "on"

\* Those that have not connected yet.
Fresh == {"idle", "auth", "polling"}
Early == {"unborn", "probing"}

\* A step by which nobody connects.
LEMMA CountKept ==
  ASSUME CountedOnce, Unconnected,
         \A d \in Sessions :
           /\ backlog'[d] \cup accepted'[d] \subseteq backlog[d] \cup accepted[d]
           /\ backlog'[d] \cap accepted'[d] = {},
         \A s \in Sessions : stub'[s] \in Fresh => stub[s] \in Fresh,
         \A s \in Sessions : daemon'[s] \in Early => daemon[s] \in Early
  PROVE  CountedOnce' /\ Unconnected'
<1>1. \A d \in Sessions : \A client : Holds(d, client)' => Holds(d, client)
  BY DEF Holds
<1>2. CountedOnce'
  BY <1>1 DEF CountedOnce
<1>3. Unconnected'
  BY <1>1 DEF Unconnected, Fresh, Early
<1> QED
  BY <1>2, <1>3

\* A step by which one client connects that had not connected before.
LEMMA CountConnect ==
  ASSUME TypeOK, CountedOnce, Unconnected,
         NEW client \in Clients, sock \in Sessions, Connect(client),
         \A d \in Sessions : ~Holds(d, client),
         \A d \in Sessions : accepted'[d] \subseteq accepted[d],
         \A s \in Sessions : stub'[s] \in Fresh => stub[s] \in Fresh /\ client # <<"stub", s>>,
         \A s \in Sessions : daemon'[s] \in Early => daemon[s] \in Early /\ client # <<"probe", s>>
  PROVE  CountedOnce' /\ Unconnected'
<1>1. /\ backlog'[sock] = backlog[sock] \cup {client}
      /\ \A d \in Sessions : d # sock => backlog'[d] = backlog[d]
  BY DEF Connect, TypeOK
<1>2. \A d \in Sessions : \A c : Holds(d, c)' => Holds(d, c) \/ (d = sock /\ c = client)
  BY <1>1 DEF Holds
<1>3. CountedOnce'
  <2>1. ASSUME NEW d \in Sessions, NEW e \in Sessions, NEW c \in Clients,
               Holds(d, c)', Holds(e, c)'
        PROVE  d = e
    BY <1>2, <2>1 DEF CountedOnce
  <2>2. ASSUME NEW d \in Sessions PROVE (backlog[d] \cap accepted[d])' = {}
    BY <1>1 DEF CountedOnce, Holds
  <2> QED
    BY <2>1, <2>2 DEF CountedOnce
<1>4. Unconnected'
  BY <1>2 DEF Unconnected, Fresh, Early
<1> QED
  BY <1>3, <1>4

CountInv == TypeOK /\ Unborn /\ CountedOnce /\ Unconnected

LEMMA StepCount == CountInv /\ [Next]_vars => CountInv'
<1> SUFFICES ASSUME TypeOK, Unborn, CountedOnce, Unconnected, [Next]_vars
             PROVE  CountedOnce' /\ Unconnected'
  BY StepType DEF CountInv
<1>0. \A d \in Sessions : backlog[d] \cap accepted[d] = {}
  BY DEF CountedOnce
<1>1. CASE UNCHANGED <<backlog, accepted, stub, daemon>>
  BY <1>0, <1>1, CountKept
<1>2. ASSUME NEW s \in Sessions, StartStub(s), SocketLive PROVE CountedOnce' /\ Unconnected'
  <2>1. /\ stub[s] = "idle" /\ stub' = [stub EXCEPT ![s] = "connected"]
        /\ Connect(<<"stub", s>>) /\ UNCHANGED <<daemon, accepted>> /\ sock \in Sessions
    BY <1>2 DEF StartStub, SocketLive, TypeOK
  <2>2. <<"stub", s>> \in Clients /\ \A d \in Sessions : ~Holds(d, <<"stub", s>>)
    BY <2>1 DEF Unconnected, Clients
  <2>3. \A e \in Sessions : stub'[e] \in Fresh =>
          stub[e] \in Fresh /\ <<"stub", s>> # <<"stub", e>>
    BY <2>1 DEF TypeOK, Fresh
  <2>4. \A e \in Sessions : daemon'[e] \in Early =>
          daemon[e] \in Early /\ <<"stub", s>> # <<"probe", e>>
    BY <2>1
  <2> QED
    BY <2>1, <2>2, <2>3, <2>4, CountConnect
<1>3. ASSUME NEW s \in Sessions, PollConnects(s) PROVE CountedOnce' /\ Unconnected'
  <2>1. /\ stub[s] = "polling" /\ stub' = [stub EXCEPT ![s] = "connected"]
        /\ Connect(<<"stub", s>>) /\ UNCHANGED <<daemon, accepted>> /\ sock \in Sessions
    BY <1>3 DEF PollConnects, SocketLive, TypeOK
  <2>2. <<"stub", s>> \in Clients /\ \A d \in Sessions : ~Holds(d, <<"stub", s>>)
    BY <2>1 DEF Unconnected, Clients
  <2>3. \A e \in Sessions : stub'[e] \in Fresh =>
          stub[e] \in Fresh /\ <<"stub", s>> # <<"stub", e>>
    BY <2>1 DEF TypeOK, Fresh
  <2>4. \A e \in Sessions : daemon'[e] \in Early =>
          daemon[e] \in Early /\ <<"stub", s>> # <<"probe", e>>
    BY <2>1
  <2> QED
    BY <2>1, <2>2, <2>3, <2>4, CountConnect
<1>4. ASSUME NEW s \in Sessions, StartStub(s), ~SocketLive PROVE CountedOnce' /\ Unconnected'
  <2>1. /\ stub[s] \in Fresh /\ stub' = [stub EXCEPT ![s] = "auth"]
        /\ UNCHANGED <<backlog, accepted, daemon>>
    BY <1>4 DEF StartStub, Fresh
  <2>2. \A e \in Sessions : stub'[e] \in Fresh => stub[e] \in Fresh
    BY <2>1 DEF TypeOK
  <2> QED
    BY <1>0, <2>1, <2>2, CountKept
<1>5. ASSUME NEW s \in Sessions, SpawnDaemon(s) PROVE CountedOnce' /\ Unconnected'
  <2>1. /\ stub[s] \in Fresh /\ stub' = [stub EXCEPT ![s] = "polling"]
        /\ daemon[s] \in Early /\ daemon' = [daemon EXCEPT ![s] = "probing"]
        /\ UNCHANGED <<backlog, accepted>>
    BY <1>5 DEF SpawnDaemon, Unborn, Fresh, Early
  <2>2. \A e \in Sessions : stub'[e] \in Fresh => stub[e] \in Fresh
    BY <2>1 DEF TypeOK
  <2>3. \A e \in Sessions : daemon'[e] \in Early => daemon[e] \in Early
    BY <2>1 DEF TypeOK
  <2> QED
    BY <1>0, <2>1, <2>2, <2>3, CountKept
<1>6. ASSUME NEW s \in Sessions, StubFails(s) \/ EndSession(s) \/ StubDropped(s)
      PROVE  CountedOnce' /\ Unconnected'
  <2>1. PICK state \in {"failed", "ended", "dropped"} : stub' = [stub EXCEPT ![s] = state]
    BY <1>6 DEF StubFails, EndSession, StubDropped
  <2>2. \A e \in Sessions : stub'[e] \in Fresh => stub[e] \in Fresh
    BY <2>1 DEF TypeOK, Fresh
  <2>3. UNCHANGED <<backlog, accepted, daemon>>
    BY <1>6 DEF StubFails, EndSession, StubDropped
  <2> QED
    BY <1>0, <2>2, <2>3, CountKept
<1>7. ASSUME NEW d \in Sessions, Probe(d), SocketLive PROVE CountedOnce' /\ Unconnected'
  <2>1. /\ daemon[d] = "probing" /\ daemon' = [daemon EXCEPT ![d] = "dead"]
        /\ accepted' = [accepted EXCEPT ![d] = {}]
        /\ Connect(<<"probe", d>>) /\ UNCHANGED stub /\ sock \in Sessions
    BY <1>7 DEF Probe, Exit, SocketLive, TypeOK
  <2>2. <<"probe", d>> \in Clients /\ \A e \in Sessions : ~Holds(e, <<"probe", d>>)
    BY <2>1 DEF Unconnected, Clients
  <2>3. \A e \in Sessions : stub'[e] \in Fresh =>
          stub[e] \in Fresh /\ <<"probe", d>> # <<"stub", e>>
    BY <2>1
  <2>4. \A e \in Sessions : daemon'[e] \in Early =>
          daemon[e] \in Early /\ <<"probe", d>> # <<"probe", e>>
    BY <2>1 DEF TypeOK, Early
  <2>5. \A e \in Sessions : accepted'[e] \subseteq accepted[e]
    BY <2>1 DEF TypeOK
  <2> QED
    BY <2>1, <2>2, <2>3, <2>4, <2>5, CountConnect
\* A daemon that is past its probe moves on and may drop its clients.
<1>8. ASSUME NEW d \in Sessions, NEW state \in DaemonStates \ Early,
             daemon' = [daemon EXCEPT ![d] = state], UNCHANGED stub,
             \A e \in Sessions : backlog'[e] \in {backlog[e], {}} /\ accepted'[e] \in {accepted[e], {}}
      PROVE  CountedOnce' /\ Unconnected'
  <2>1. \A e \in Sessions : daemon'[e] \in Early => daemon[e] \in Early
    BY <1>8 DEF TypeOK
  <2>2. \A e \in Sessions :
          /\ backlog'[e] \cup accepted'[e] \subseteq backlog[e] \cup accepted[e]
          /\ backlog'[e] \cap accepted'[e] = {}
    BY <1>0, <1>8
  <2> QED
    BY <1>8, <2>1, <2>2, CountKept
<1>9. ASSUME NEW d \in Sessions,
             \/ Probe(d) /\ ~SocketLive
             \/ UnlinkStale(d) \/ Bind(d) \/ WritePid(d) \/ AgentStarted(d) \/ AgentFailed(d)
      PROVE  CountedOnce' /\ Unconnected'
  <2>1. PICK state \in DaemonStates \ Early : daemon' = [daemon EXCEPT ![d] = state]
    BY <1>9 DEF Probe, UnlinkStale, Bind, WritePid, AgentStarted, AgentFailed, CleanUp, Step,
                Exit, DaemonStates, Early
  <2>2. UNCHANGED <<stub, backlog>>
    BY <1>9 DEF Probe, UnlinkStale, Bind, WritePid, AgentStarted, AgentFailed
  <2>3. accepted' = accepted \/ accepted' = [accepted EXCEPT ![d] = {}]
    BY <1>9 DEF Probe, UnlinkStale, Bind, WritePid, AgentStarted, AgentFailed, Exit
  <2>4. \A e \in Sessions : accepted'[e] \in {accepted[e], {}}
    BY <2>3 DEF TypeOK
  <2> QED
    BY <1>8, <2>1, <2>2, <2>4
<1>10. ASSUME NEW d \in Sessions, GraceTimer(d) PROVE CountedOnce' /\ Unconnected'
  <2>1. UNCHANGED <<stub, backlog, accepted>>
    BY <1>10 DEF GraceTimer
  <2>2. CASE accepted[d] = {}
    <3>1. PICK state \in DaemonStates \ Early : daemon' = [daemon EXCEPT ![d] = state]
      BY <1>10, <2>2 DEF GraceTimer, ShutdownNow, CleanUp, Step, DaemonStates, Early
    <3> QED
      BY <1>8, <2>1, <3>1
  <2>3. CASE accepted[d] # {}
    BY <1>1, <1>10, <2>1, <2>3 DEF GraceTimer
  <2> QED
    BY <2>2, <2>3
<1>11. ASSUME NEW d \in Sessions, UnlinkPid(d) \/ AgentStopped(d) \/ Crash(d)
       PROVE  CountedOnce' /\ Unconnected'
  <2>1. PICK state \in DaemonStates \ Early : daemon' = [daemon EXCEPT ![d] = state]
    BY <1>11 DEF UnlinkPid, AgentStopped, Crash, Step, Exit, DaemonStates, Early
  <2>2. /\ stub' = stub
        /\ backlog' = backlog \/ backlog' = [backlog EXCEPT ![d] = {}]
        /\ accepted' = accepted \/ accepted' = [accepted EXCEPT ![d] = {}]
    BY <1>11 DEF UnlinkPid, AgentStopped, Crash, Exit
  <2>3. \A e \in Sessions : backlog'[e] \in {backlog[e], {}} /\ accepted'[e] \in {accepted[e], {}}
    BY <2>2 DEF TypeOK
  <2> QED
    BY <1>8, <2>1, <2>2, <2>3
<1>12. ASSUME NEW d \in Sessions, PidFileDeleted(d) \/ PidFileTaken(d) \/ Signal(d)
       PROVE  CountedOnce' /\ Unconnected'
  <2>1. PICK state \in DaemonStates \ Early : daemon' = [daemon EXCEPT ![d] = state]
    BY <1>12 DEF PidFileDeleted, PidFileTaken, Signal, ShutdownNow, CleanUp, Step, Exit,
                 DaemonStates, Early
  <2>2. /\ stub' = stub
        /\ backlog' = backlog \/ backlog' = [backlog EXCEPT ![d] = {}]
        /\ accepted' = accepted \/ accepted' = [accepted EXCEPT ![d] = {}]
    BY <1>12 DEF PidFileDeleted, PidFileTaken, Signal, Exit
  <2>3. \A e \in Sessions : backlog'[e] \in {backlog[e], {}} /\ accepted'[e] \in {accepted[e], {}}
    BY <2>2 DEF TypeOK
  <2> QED
    BY <1>8, <2>1, <2>2, <2>3
<1>13. ASSUME NEW d \in Sessions, NEW client \in Clients, Accept(d, client) \/ Close(d, client)
       PROVE  CountedOnce' /\ Unconnected'
  <2>1. /\ UNCHANGED <<stub, daemon>>
        /\ client \in backlog[d] \cup accepted[d]
        /\ \/ /\ backlog' = [backlog EXCEPT ![d] = @ \ {client}]
              /\ accepted' = [accepted EXCEPT ![d] = @ \cup {client}]
              /\ client \in backlog[d]
           \/ /\ backlog' = backlog
              /\ accepted' = [accepted EXCEPT ![d] = @ \ {client}]
    BY <1>13 DEF Accept, Close
  <2>2. \A e \in Sessions :
          /\ backlog'[e] \cup accepted'[e] \subseteq backlog[e] \cup accepted[e]
          /\ backlog'[e] \cap accepted'[e] = {}
    BY <1>0, <2>1 DEF TypeOK
  <2> QED
    BY <2>1, <2>2, CountKept
<1>14. CASE UNCHANGED vars
  BY <1>1, <1>14 DEF vars
<1> QED
  BY <1>2, <1>3, <1>4, <1>5, <1>6, <1>7, <1>9, <1>10, <1>11, <1>12, <1>13, <1>14
     DEF Next, DaemonNext

\* However startups, probes, sessions, shutdowns and crashes interleave, nobody is
\* counted by two daemons, or twice by one.
THEOREM SessionsCountedOnce == Spec => []CountedOnce
<1>1. Init => CountInv
  BY InitType DEF Init, CountInv, Unborn, CountedOnce, Unconnected, Holds
<1>2. CountInv => CountedOnce
  BY DEF CountInv
<1> QED
  BY <1>1, <1>2, StepCount, PTL DEF Spec

\* Two daemons that serve side by side cannot overlook each other: each of them
\* runs its PID check, and the PID file names one of them at most.
THEOREM DuplicatesDetected == Spec => []DuplicatesSeen
<1>1. Init => Checking
  BY DEF Init, Checking, Serving
<1>2. TypeOK /\ Checking /\ [Next]_vars => Checking'
  <2> SUFFICES ASSUME TypeOK, Checking, [Next]_vars PROVE Checking'
    OBVIOUS
  <2> USE DEF TypeOK, Checking, Serving, Step, CleanUp, Exit
  <2>1. CASE UNCHANGED <<daemon, pidCheck>>
    BY <2>1
  <2>2. ASSUME NEW s \in Sessions, StubStep(s) PROVE Checking'
    BY <2>2 DEF StubStep, StartStub, SpawnDaemon, PollConnects, StubFails, EndSession,
                StubDropped
  <2>3. ASSUME NEW d \in Sessions, Probe(d) \/ UnlinkStale(d) \/ Bind(d) \/ WritePid(d)
        PROVE  Checking'
    BY <2>3 DEF Probe, UnlinkStale, Bind, WritePid
  <2>4. ASSUME NEW d \in Sessions,
               AgentStarted(d) \/ AgentFailed(d) \/ UnlinkPid(d) \/ AgentStopped(d)
        PROVE  Checking'
    BY <2>4 DEF AgentStarted, AgentFailed, UnlinkPid, AgentStopped
  <2>5. ASSUME NEW d \in Sessions, NEW client \in Clients, Accept(d, client) \/ Close(d, client)
        PROVE  Checking'
    BY <2>1, <2>5 DEF Accept, Close
  <2>6. ASSUME NEW d \in Sessions, GraceTimer(d) \/ Signal(d) \/ Crash(d) PROVE Checking'
    BY <2>6 DEF GraceTimer, Signal, Crash, ShutdownNow
  <2>7. ASSUME NEW d \in Sessions, PidFileDeleted(d) PROVE Checking'
    BY <2>7 DEF PidFileDeleted, ShutdownNow
  <2>8. ASSUME NEW d \in Sessions, PidFileTaken(d) PROVE Checking'
    BY <2>8 DEF PidFileTaken
  <2> QED
    BY <2>1, <2>2, <2>3, <2>4, <2>5, <2>6, <2>7, <2>8 DEF Next, StubStep, DaemonNext, vars
<1>3. Checking => DuplicatesSeen
  BY DEF Checking, DuplicatesSeen
<1> QED
  BY <1>1, <1>2, <1>3, TypeCorrect, PTL DEF Spec

=============================================================================
