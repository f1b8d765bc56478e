------------------------------- MODULE Daemon -------------------------------
(***************************************************************************)
(* The agent daemon and the sessions that start, share and outlive it      *)
(* (src/daemon.ts, src/stub-server.ts).                                    *)
(*                                                                         *)
(* A session is one stub process.  It connects to the daemon's socket or,  *)
(* when nothing listens there, spawns a daemon and polls; the daemon that  *)
(* session s spawns is named s.  The processes share two files: the IPC    *)
(* socket and the PID file.  They interleave at every system call that     *)
(* touches a file, but a daemon runs its callbacks one at a time: between  *)
(* bind and the PID file no event is handled.  This is the Unix side; the  *)
(* named pipes of win32 leave no file behind.                              *)
(***************************************************************************)
EXTENDS Naturals, FiniteSets

CONSTANTS
  Sessions,
  NoOne,     \* no such file
  MaxFaults  \* how many crashes and signals a run may see

ASSUME DaemonAssumption ==
  /\ NoOne \notin Sessions
  /\ MaxFaults \in Nat

VARIABLES
  stub,      \* the stub process of each session
  daemon,    \* the daemon process each session may spawn
  sock,      \* the process that created the socket file, dead or alive
  pidFile,   \* the process the PID file names
  backlog,   \* clients the kernel connected and the daemon has not accepted
  accepted,  \* clients the daemon counts: connectionCount is the cardinality
  timer,     \* the daemons whose shutdownTimer is armed
  pidCheck,  \* the PID check of each daemon: off, on, or stopped and why
  faults,    \* the crashes and signals so far
  solo       \* history: no session started while a daemon started up or shut down

vars == <<stub, daemon, sock, pidFile, backlog, accepted, timer, pidCheck, faults, solo>>

\* What connects to a socket: a session's stub, or the probe of a starting daemon.
Clients == {"stub", "probe"} \X Sessions

StubStates == {"idle", "auth", "polling", "connected", "failed", "ended", "dropped"}

DaemonStates ==
  {"unborn", "probing", "unlinking", "binding", "writing", "starting", "running",
   "cleaning", "failing", "stopping", "dead"}

Init ==
  /\ stub = [s \in Sessions |-> "idle"]
  /\ daemon = [d \in Sessions |-> "unborn"]
  /\ sock = NoOne
  /\ pidFile = NoOne
  /\ backlog = [d \in Sessions |-> {}]
  /\ accepted = [d \in Sessions |-> {}]
  /\ timer = {}
  /\ pidCheck = [d \in Sessions |-> "off"]
  /\ faults = 0
  /\ solo = TRUE

\* The process holds a listening socket, whether or not a file still leads to it.
Listening(d) ==
  daemon[d] \in {"writing", "starting", "running", "cleaning", "failing", "stopping"}

\* Mutant: the socket is taken to be live because its file exists.
SocketExists == sock # NoOne

\* A connect to the socket's path succeeds.
SocketLive == sock # NoOne /\ Listening(sock)

\* The event loop turns: the daemon has reached the start of its agent.
Looping(d) == daemon[d] \in {"starting", "running", "stopping"}

\* The other end of the client's connection is closed.
HungUp(client) == client[1] = "probe" \/ stub[client[2]] # "connected"

Attached(s, d) == stub[s] = "connected" /\ <<"stub", s>> \in backlog[d] \cup accepted[d]

-----------------------------------------------------------------------------
(* The stub. *)

\* The kernel puts a new connection in the listener's backlog.
Connect(client) == backlog' = [backlog EXCEPT ![sock] = @ \cup {client}]

\* No daemon is starting up or shutting down, and no session is starting one.
Settled ==
  /\ \A d \in Sessions : daemon[d] \in {"unborn", "running", "dead"}
  /\ \A s \in Sessions : stub[s] \notin {"auth", "polling"}

\* The fast path, or the login that precedes spawning a daemon.
StartStub(s) ==
  /\ stub[s] = "idle"
  /\ solo' = (solo /\ Settled)
  /\ \/ /\ SocketLive
        /\ stub' = [stub EXCEPT ![s] = "connected"]
        /\ Connect(<<"stub", s>>)
     \/ /\ ~SocketLive
        /\ stub' = [stub EXCEPT ![s] = "auth"]
        /\ UNCHANGED backlog
  /\ UNCHANGED <<daemon, sock, pidFile, accepted, timer, pidCheck, faults>>

SpawnDaemon(s) ==
  /\ stub[s] = "auth"
  /\ stub' = [stub EXCEPT ![s] = "polling"]
  /\ daemon' = [daemon EXCEPT ![s] = "probing"]
  /\ UNCHANGED <<sock, pidFile, backlog, accepted, timer, pidCheck, faults, solo>>

PollConnects(s) ==
  /\ stub[s] = "polling"
  /\ SocketLive
  /\ stub' = [stub EXCEPT ![s] = "connected"]
  /\ Connect(<<"stub", s>>)
  /\ UNCHANGED <<daemon, sock, pidFile, accepted, timer, pidCheck, faults, solo>>

\* The login fails, or the thirty seconds of polling are over.
StubFails(s) ==
  /\ stub[s] \in {"auth", "polling"}
  /\ stub' = [stub EXCEPT ![s] = "failed"]
  /\ UNCHANGED <<daemon, sock, pidFile, backlog, accepted, timer, pidCheck, faults, solo>>

\* The session ends: its stub destroys the socket, or is killed before it has one.
EndSession(s) ==
  /\ stub[s] \in {"auth", "polling", "connected"}
  /\ stub' = [stub EXCEPT ![s] = "ended"]
  /\ UNCHANGED <<daemon, sock, pidFile, backlog, accepted, timer, pidCheck, faults, solo>>

\* The daemon closed the socket: the stub exits.
StubDropped(s) ==
  /\ stub[s] = "connected"
  /\ \A d \in Sessions : ~Attached(s, d)
  /\ stub' = [stub EXCEPT ![s] = "dropped"]
  /\ UNCHANGED <<daemon, sock, pidFile, backlog, accepted, timer, pidCheck, faults, solo>>

-----------------------------------------------------------------------------
(* The daemon starts. *)

\* The process is gone: its sockets close, its files stay.
Exit(d) ==
  /\ daemon' = [daemon EXCEPT ![d] = "dead"]
  /\ accepted' = [accepted EXCEPT ![d] = {}]
  /\ timer' = timer \ {d}
  /\ pidCheck' = [pidCheck EXCEPT ![d] = "off"]

Step(d, next) == daemon' = [daemon EXCEPT ![d] = next]

\* isSocketLive connects; the connection counts as a session at the other end.
Probe(d) ==
  /\ daemon[d] = "probing"
  /\ \/ /\ SocketLive
        /\ Connect(<<"probe", d>>)
        /\ Exit(d)
     \/ /\ ~SocketLive
        /\ Step(d, "unlinking")
        /\ UNCHANGED <<backlog, accepted, timer, pidCheck>>
  /\ UNCHANGED <<stub, sock, pidFile, faults, solo>>

\* Mutant: a socket file whose daemon died is left in place.
UnlinkStaleNever(d) ==
  /\ daemon[d] = "unlinking"
  /\ Step(d, "binding")
  /\ UNCHANGED <<stub, sock, pidFile, backlog, accepted, timer, pidCheck, faults, solo>>

\* The path is unlinked, whatever it leads to by now.
UnlinkStale(d) ==
  /\ daemon[d] = "unlinking"
  /\ sock' = NoOne
  /\ Step(d, "binding")
  /\ UNCHANGED <<stub, pidFile, backlog, accepted, timer, pidCheck, faults, solo>>

\* server.listen; EADDRINUSE when a file is in the way.
Bind(d) ==
  /\ daemon[d] = "binding"
  /\ \/ /\ sock = NoOne
        /\ sock' = d
        /\ Step(d, "writing")
        /\ UNCHANGED <<accepted, timer, pidCheck>>
     \/ /\ sock # NoOne
        /\ Exit(d)
        /\ UNCHANGED sock
  /\ UNCHANGED <<stub, pidFile, backlog, faults, solo>>

\* Mutant: the PID file of a predecessor is kept.
WritePidOnce(d) ==
  /\ daemon[d] = "writing"
  /\ pidFile' = IF pidFile = NoOne THEN d ELSE pidFile
  /\ pidCheck' = [pidCheck EXCEPT ![d] = "on"]
  /\ Step(d, "starting")
  /\ UNCHANGED <<stub, sock, backlog, accepted, timer, faults, solo>>

\* Mutant: the PID check begins with the agent rather than with the file.
WritePidUnchecked(d) ==
  /\ daemon[d] = "writing"
  /\ pidFile' = d
  /\ Step(d, "starting")
  /\ UNCHANGED <<stub, sock, backlog, accepted, timer, pidCheck, faults, solo>>

\* The PID file, the PID check's interval, and the call of startAgent.
WritePid(d) ==
  /\ daemon[d] = "writing"
  /\ pidFile' = d
  /\ pidCheck' = [pidCheck EXCEPT ![d] = "on"]
  /\ Step(d, "starting")
  /\ UNCHANGED <<stub, sock, backlog, accepted, timer, faults, solo>>

\* Mutant: the grace period begins only when a session has left.
AgentStartedUntimed(d) ==
  /\ daemon[d] = "starting"
  /\ Step(d, "running")
  /\ UNCHANGED <<stub, sock, pidFile, backlog, accepted, timer, pidCheck, faults, solo>>

\* startAgent settled: the grace period begins, whoever is connected already.
AgentStarted(d) ==
  /\ daemon[d] = "starting"
  /\ timer' = timer \cup {d}
  /\ Step(d, "running")
  /\ UNCHANGED <<stub, sock, pidFile, backlog, accepted, pidCheck, faults, solo>>

\* cleanup() first unlinks the socket's path; UnlinkPid is its second half.
CleanUp(d, next) ==
  /\ sock' = NoOne
  /\ Step(d, next)

AgentFailed(d) ==
  /\ daemon[d] = "starting"
  /\ CleanUp(d, "failing")
  /\ UNCHANGED <<stub, pidFile, backlog, accepted, timer, pidCheck, faults, solo>>

-----------------------------------------------------------------------------
(* Sessions come and go. *)

Accept(d, client) ==
  /\ Looping(d)
  /\ client \in backlog[d]
  /\ backlog' = [backlog EXCEPT ![d] = @ \ {client}]
  /\ accepted' = [accepted EXCEPT ![d] = @ \cup {client}]
  /\ timer' = timer \ {d}
  /\ UNCHANGED <<stub, daemon, sock, pidFile, pidCheck, faults, solo>>

\* Mutant: only a stub's disconnection starts the grace period.
CloseStubOnly(d, client) ==
  /\ Looping(d)
  /\ client \in accepted[d]
  /\ HungUp(client)
  /\ accepted' = [accepted EXCEPT ![d] = @ \ {client}]
  /\ timer' = IF accepted[d] = {client} /\ client[1] = "stub" THEN timer \cup {d} ELSE timer
  /\ UNCHANGED <<stub, daemon, sock, pidFile, backlog, pidCheck, faults, solo>>

\* The 'close' event: the last session to leave starts the grace period.
Close(d, client) ==
  /\ Looping(d)
  /\ client \in accepted[d]
  /\ HungUp(client)
  /\ accepted' = [accepted EXCEPT ![d] = @ \ {client}]
  /\ timer' = IF accepted[d] = {client} THEN timer \cup {d} ELSE timer
  /\ UNCHANGED <<stub, daemon, sock, pidFile, backlog, pidCheck, faults, solo>>

-----------------------------------------------------------------------------
(* The daemon shuts down. *)

\* shutdownNow: with no agent yet there is nothing to stop before the exit.
ShutdownNow(d) == CleanUp(d, IF daemon[d] = "starting" THEN "failing" ELSE "cleaning")

GraceTimer(d) ==
  /\ Looping(d)
  /\ d \in timer
  /\ timer' = timer \ {d}
  /\ IF accepted[d] = {} THEN ShutdownNow(d) ELSE UNCHANGED <<daemon, sock>>
  /\ UNCHANGED <<stub, pidFile, backlog, accepted, pidCheck, faults, solo>>

UnlinkPid(d) ==
  /\ daemon[d] \in {"cleaning", "failing"}
  /\ pidFile' = NoOne
  /\ IF daemon[d] = "cleaning"
       THEN Step(d, "stopping") /\ UNCHANGED <<backlog, accepted, timer, pidCheck>>
       ELSE Exit(d) /\ backlog' = [backlog EXCEPT ![d] = {}]
  /\ UNCHANGED <<stub, sock, faults, solo>>

\* Mutant: the exit waits until every session has hung up.
AgentStoppedWaiting(d) ==
  /\ daemon[d] = "stopping"
  /\ accepted[d] = {}
  /\ Exit(d)
  /\ backlog' = [backlog EXCEPT ![d] = {}]
  /\ UNCHANGED <<stub, sock, pidFile, faults, solo>>

\* agentHandle.stop() settled.
AgentStopped(d) ==
  /\ daemon[d] = "stopping"
  /\ Exit(d)
  /\ backlog' = [backlog EXCEPT ![d] = {}]
  /\ UNCHANGED <<stub, sock, pidFile, faults, solo>>

PidFileDeleted(d) ==
  /\ Looping(d)
  /\ pidCheck[d] = "on"
  /\ pidFile = NoOne
  /\ pidCheck' = [pidCheck EXCEPT ![d] = "deleted"]
  /\ ShutdownNow(d)
  /\ UNCHANGED <<stub, pidFile, backlog, accepted, timer, faults, solo>>

\* Mutant: a daemon that lost the PID file only looks for its absence.
PidFileTakenIgnored(d) == FALSE

\* The PID file names another daemon: this one goes without cleaning up.
PidFileTaken(d) ==
  /\ Looping(d)
  /\ pidCheck[d] = "on"
  /\ pidFile \notin {d, NoOne}
  /\ IF daemon[d] = "starting"
       THEN Exit(d) /\ backlog' = [backlog EXCEPT ![d] = {}]
       ELSE /\ pidCheck' = [pidCheck EXCEPT ![d] = "yielded"]
            /\ Step(d, "stopping")
            /\ UNCHANGED <<backlog, accepted, timer>>
  /\ UNCHANGED <<stub, sock, pidFile, faults, solo>>

\* SIGINT or SIGTERM, once the handlers are installed.
Signal(d) ==
  /\ faults < MaxFaults
  /\ faults' = faults + 1
  /\ daemon[d] \in {"running", "stopping"}
  /\ ShutdownNow(d)
  /\ UNCHANGED <<stub, pidFile, backlog, accepted, timer, pidCheck, solo>>

\* The process is killed, or an error nobody handles ends it.
Crash(d) ==
  /\ faults < MaxFaults
  /\ faults' = faults + 1
  /\ daemon[d] \notin {"unborn", "dead"}
  /\ Exit(d)
  /\ backlog' = [backlog EXCEPT ![d] = {}]
  /\ UNCHANGED <<stub, sock, pidFile, solo>>

-----------------------------------------------------------------------------

\* What the daemon's own process does when nothing kills it.
DaemonNext(d) ==
  \/ Probe(d) \/ UnlinkStale(d) \/ Bind(d) \/ WritePid(d)
  \/ AgentStarted(d) \/ AgentFailed(d)
  \/ \E client \in Clients : Accept(d, client) \/ Close(d, client)
  \/ GraceTimer(d) \/ UnlinkPid(d) \/ AgentStopped(d)
  \/ PidFileDeleted(d) \/ PidFileTaken(d)

Next ==
  \/ \E s \in Sessions : StartStub(s) \/ SpawnDaemon(s) \/ PollConnects(s)
                         \/ StubFails(s) \/ EndSession(s) \/ StubDropped(s)
  \/ \E d \in Sessions : DaemonNext(d) \/ Signal(d) \/ Crash(d)

\* Each pending callback of a daemon is eventually run, startAgent and stop
\* eventually settle, and a stub notices a closed socket.  Sessions and their
\* users owe nothing.
Fairness ==
  /\ \A d \in Sessions :
       /\ WF_vars(Probe(d) \/ UnlinkStale(d) \/ Bind(d) \/ WritePid(d) \/ UnlinkPid(d))
       /\ WF_vars(AgentStarted(d) \/ AgentFailed(d))
       /\ WF_vars(GraceTimer(d))
       /\ WF_vars(PidFileDeleted(d) \/ PidFileTaken(d))
       /\ WF_vars(AgentStopped(d))
       /\ \A client \in Clients : WF_vars(Accept(d, client) \/ Close(d, client))
  /\ \A s \in Sessions : WF_vars(StubDropped(s))

Spec == Init /\ [][Next]_vars /\ Fairness

-----------------------------------------------------------------------------
(* Properties. *)

\* Every variable has its type, and only a process that listens has clients.
TypeOK ==
  /\ stub \in [Sessions -> StubStates]
  /\ daemon \in [Sessions -> DaemonStates]
  /\ sock \in Sessions \cup {NoOne}
  /\ pidFile \in Sessions \cup {NoOne}
  /\ backlog \in [Sessions -> SUBSET Clients]
  /\ accepted \in [Sessions -> SUBSET Clients]
  /\ timer \in SUBSET Sessions
  /\ pidCheck \in [Sessions -> {"off", "on", "deleted", "yielded"}]
  /\ faults \in 0..MaxFaults
  /\ solo \in BOOLEAN
  /\ \A d \in Sessions : ~Listening(d) => backlog[d] = {} /\ accepted[d] = {} /\ d \notin timer

\* A running daemon with no session left has its grace period running: whatever
\* probes and sessions came and went, and whenever, it is not there for good.
NeverOrphaned ==
  \A d \in Sessions : daemon[d] = "running" => d \in timer \/ accepted[d] # {}

Serving(d) == daemon[d] \in {"starting", "running"}

\* Unless sessions start in the middle of a startup or a shutdown, the daemon
\* that serves owns both files, though its predecessor may have crashed.
SoloOwnership ==
  solo => \A d \in Sessions : Serving(d) => sock = d /\ pidFile = d

\* A daemon gives up on starting only when another one listens, so that what a
\* crashed daemon left behind does not keep the next one from serving.
GivesUpOnlyToAnother ==
  [][solo => \A d \in Sessions :
       (Probe(d) \/ Bind(d)) /\ daemon'[d] = "dead" => SocketLive]_vars

\* Of two daemons that serve side by side, however their startups, shutdowns and
\* crashes overlapped, one is always in a position to see it: its PID check runs,
\* and the PID file does not name it.
DuplicatesSeen ==
  \A d, e \in Sessions : Serving(d) /\ Serving(e) /\ d # e =>
    \E x \in {d, e} : pidCheck[x] = "on" /\ pidFile # x

\* Two daemons that serve side by side do not do so for good.
DuplicatesResolved ==
  \A d, e \in Sessions :
    d # e => (Serving(d) /\ Serving(e) ~> ~(Serving(d) /\ Serving(e)))

Served(s) == \E d \in Sessions : Serving(d) /\ <<"stub", s>> \in accepted[d]

\* No session hangs on a daemon that is going away: a stub that is connected, be
\* it only in the backlog when the grace period ends, is served or dropped.
ServedOrDropped ==
  \A s \in Sessions : stub[s] = "connected" ~> stub[s] # "connected" \/ Served(s)

NoSession == \A s \in Sessions : stub[s] \notin {"auth", "polling", "connected"}

\* The daemon shuts down after the last session ends: with no session left, no
\* daemon stays, until a new session starts.
DiesWithSessions ==
  NoSession ~> (\A d \in Sessions : daemon[d] \in {"unborn", "dead"}) \/ ~NoSession

\* The comment on ensureDaemonAndConnect: if two stubs both spawn a daemon, one
\* daemon wins the IPC socket and the other exits.
OneDaemonWins == \A d, e \in Sessions : Serving(d) /\ Serving(e) => d = e

\* The comment on the PID check: a daemon that found the PID file to belong to
\* another one does not clean up.
YieldedLeavesFiles ==
  [][\A d \in Sessions : UnlinkPid(d) /\ pidCheck[d] = "yielded" =>
       pidFile \in {d, NoOne}]_vars

=============================================================================
