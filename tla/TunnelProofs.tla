---------------------------- MODULE TunnelProofs ----------------------------
(***************************************************************************)
(* Theorems about Tunnel, for any number of calls, restarts and lost       *)
(* connections, and servers and tools of any names.                        *)
(***************************************************************************)
EXTENDS Tunnel, ToolNamesProofs

-----------------------------------------------------------------------------
(* Messages of some kind in a sequence: none, or at most one. *)

Free(s, E) == \A i \in 1..Len(s) : s[i] \notin E

Once(s, E) == \A i, j \in 1..Len(s) : s[i] \in E /\ s[j] \in E => i = j

LEMMA EmptyFree ==
  ASSUME NEW E
  PROVE  Free(<<>>, E) /\ Once(<<>>, E)
BY DEF Free, Once

\* A message that is sent is one more of its kind.
LEMMA AppendFree ==
  ASSUME NEW M, NEW s \in Seq(M), NEW m \in M, NEW t, t = Append(s, m), NEW E
  PROVE  /\ t \in Seq(M)
         /\ m \in E => ~Free(t, E)
         /\ m \notin E => (Free(t, E) <=> Free(s, E))
         /\ Once(s, E) /\ (m \notin E \/ Free(s, E)) => Once(t, E)
<1>1. /\ t \in Seq(M) /\ Len(s) \in Nat /\ Len(t) = Len(s) + 1 /\ t[Len(s) + 1] = m
      /\ \A i \in 1..Len(s) : t[i] = s[i]
  BY AppendProperties, LenProperties
<1>2. \A i \in 1..Len(t) : i \in 1..Len(s) \/ i = Len(s) + 1
  BY <1>1
<1>3. \A i \in 1..Len(s) : i \in 1..Len(t)
  BY <1>1
<1>4. Len(s) + 1 \in 1..Len(t)
  BY <1>1
<1>5. m \in E => ~Free(t, E)
  BY <1>1, <1>4 DEF Free
<1>6. m \notin E => (Free(t, E) <=> Free(s, E))
  BY <1>1, <1>2, <1>3 DEF Free
<1>7. Once(s, E) /\ (m \notin E \/ Free(s, E)) => Once(t, E)
  BY <1>1, <1>2, <1>3 DEF Free, Once
<1> QED
  BY <1>1, <1>5, <1>6, <1>7

\* A message that is received was the first of its kind.
LEMMA TailFree ==
  ASSUME NEW M, NEW s \in Seq(M), s # <<>>, NEW t, t = Tail(s), NEW E
  PROVE  /\ t \in Seq(M) /\ Head(s) \in M
         /\ Head(s) \in E => ~Free(s, E)
         /\ Head(s) \notin E => (Free(t, E) <=> Free(s, E))
         /\ Free(s, E) => Free(t, E)
         /\ Once(s, E) => Once(t, E)
         /\ Once(s, E) /\ Head(s) \in E => Free(t, E)
<1>1. /\ t \in Seq(M) /\ Head(s) \in M /\ Head(s) = s[1] /\ Len(s) \in Nat /\ Len(s) > 0
      /\ Len(t) = Len(s) - 1 /\ \A i \in 1..Len(t) : t[i] = s[i + 1]
  BY HeadTailProperties, LenProperties, EmptySeq
<1>2. \A i \in 1..Len(t) : i + 1 \in 1..Len(s) /\ i + 1 # 1
  BY <1>1
<1>3. \A i \in 1..Len(s) : i = 1 \/ (i - 1 \in 1..Len(t) /\ (i - 1) + 1 = i)
  BY <1>1
<1>4. 1 \in 1..Len(s)
  BY <1>1
<1>5. Head(s) \in E => ~Free(s, E)
  BY <1>1, <1>4 DEF Free
<1>6. Free(s, E) => Free(t, E)
  BY <1>1, <1>2 DEF Free
<1>7. Head(s) \notin E => (Free(t, E) => Free(s, E))
  BY <1>1, <1>3 DEF Free
<1>8. Once(s, E) => Once(t, E)
  BY <1>1, <1>2 DEF Once
<1>9. Once(s, E) /\ Head(s) \in E => Free(t, E)
  BY <1>1, <1>2, <1>4 DEF Once, Free
<1> QED
  BY <1>1, <1>5, <1>6, <1>7, <1>8, <1>9

-----------------------------------------------------------------------------
(* The inductive invariant: where the call of each request is. *)

RequestOf(r) == {Request(r)}
AnswersOf(r) == {Answer(r, "response"), Answer(r, "error")}

InDown(r) == ~Free(down, RequestOf(r))
InUp(r) == ~Free(up, AnswersOf(r))
AtAgent(r) == serving[r] # NoCall

\* In one place at most, in one if it is waited for on a connection that works,
\* in none before it is made; and what is asked for on the way is a tool.
CallInv(r) ==
  /\ Once(down, RequestOf(r)) /\ Once(up, AnswersOf(r))
  /\ ~(InDown(r) /\ InUp(r)) /\ ~(InDown(r) /\ AtAgent(r)) /\ ~(InUp(r) /\ AtAgent(r))
  /\ calls[r] \in {"idle", "unknown"} => ~InDown(r) /\ ~InUp(r) /\ ~AtAgent(r)
  /\ linked /\ via[r] = epoch /\ calls[r] = "waiting" => InDown(r) \/ InUp(r) \/ AtAgent(r)
  /\ InDown(r) => asked[r] \in Tools

\* A restart at work has servers in hand; a connection is not lost too often, and
\* with it what the agent works on.
AgentInv ==
  /\ \A h \in Restarts : Restarting(h) => restarts[h].servers.gen # 0
  /\ ~linked => /\ epoch <= MaxLosses
                /\ \A r \in Reqs : ~AtAgent(r)
                /\ \A h \in Restarts : ~Restarting(h)

IInv == TypeOK /\ AgentInv /\ \A r \in Reqs : CallInv(r)

UpMsgs == ToolsMsgs \cup Answers

\* A call that is somewhere, and a step that changes this of none.
Held(r) == InDown(r) \/ InUp(r) \/ AtAgent(r)
Kept == \A r \in Reqs : Held(r)' <=> Held(r)

\* Messages are told apart by their types and ids.
LEMMA DownMsgs ==
  ASSUME NEW r \in Reqs
  PROVE  /\ Request(r) \in Requests /\ Request(r) \in RequestOf(r)
         /\ \A s \in Reqs : Request(s) \in RequestOf(r) => s = r
         /\ \A h \in Restarts : RestartMsg(h) \notin RequestOf(r)
<1>1. \A s \in Reqs : Request(s) \in RequestOf(r) => s = r
  <2> SUFFICES ASSUME NEW s \in Reqs, Request(s) = Request(r) PROVE s = r
    BY DEF RequestOf
  <2>1. Request(s).id = s /\ Request(r).id = r
    BY DEF Request
  <2> QED
    BY <2>1
<1>2. \A h \in Restarts : RestartMsg(h) \notin RequestOf(r)
  <2> SUFFICES ASSUME NEW h \in Restarts, RestartMsg(h) = Request(r) PROVE FALSE
    BY DEF RequestOf
  <2>1. RestartMsg(h).type = "restart" /\ Request(r).type = "request"
    BY DEF RestartMsg, Request
  <2> QED
    BY <2>1
<1>3. Request(r) \in Requests /\ Request(r) \in RequestOf(r)
  BY DEF Requests, Request, RequestOf
<1> QED
  BY <1>1, <1>2, <1>3

LEMMA RestartMsgs == \A h \in Restarts : RestartMsg(h) \in Requests
BY DEF RestartMsg, Requests

LEMMA AnswerMsgs ==
  ASSUME NEW r \in Reqs, NEW outcome \in {"response", "error"}
  PROVE  /\ Answer(r, outcome) \in UpMsgs /\ Answer(r, outcome) \in AnswersOf(r)
         /\ \A s \in Reqs : Answer(r, outcome) \in AnswersOf(s) => s = r
<1>1. \A s \in Reqs : Answer(r, outcome) \in AnswersOf(s) => s = r
  <2> SUFFICES ASSUME NEW s \in Reqs, NEW o, Answer(r, outcome) = Answer(s, o) PROVE s = r
    BY DEF AnswersOf
  <2>1. Answer(r, outcome).id = r /\ Answer(s, o).id = s
    BY DEF Answer
  <2> QED
    BY <2>1
<1>2. Answer(r, outcome) \in UpMsgs /\ Answer(r, outcome) \in AnswersOf(r)
  BY DEF UpMsgs, Answers, Answer, AnswersOf
<1> QED
  BY <1>1, <1>2

LEMMA ToolsMsgsUp ==
  ASSUME NEW ts \in SUBSET Tools, NEW g \in Nat
  PROVE  /\ ToolsMsg(ts, g) \in UpMsgs
         /\ \A r \in Reqs : ToolsMsg(ts, g) \notin AnswersOf(r)
<1>1. ToolsMsg(ts, g) \in UpMsgs
  BY DEF UpMsgs, ToolsMsgs, ToolsMsg
<1>2. ASSUME NEW r \in Reqs, NEW o \in {"response", "error"} PROVE ToolsMsg(ts, g) # Answer(r, o)
  <2>1. ToolsMsg(ts, g).type = "tools" /\ Answer(r, o).type = o
    BY DEF ToolsMsg, Answer
  <2> QED
    BY <2>1
<1> QED
  BY <1>1, <1>2 DEF AnswersOf

\* What the relay receives is a message of tools or an answer.
LEMMA UpKinds ==
  ASSUME NEW m \in UpMsgs
  PROVE  /\ m.type = "tools" => /\ m.tools \in SUBSET Tools /\ m.gen \in Nat
                                /\ \A r \in Reqs : m \notin AnswersOf(r)
         /\ m.type # "tools" => /\ m.id \in Reqs /\ m.type \in {"response", "error"}
                                /\ m \in AnswersOf(m.id)
                                /\ \A r \in Reqs : m \in AnswersOf(r) => r = m.id
<1>1. CASE m \in ToolsMsgs
  <2>1. m = ToolsMsg(m.tools, m.gen) /\ m.tools \in SUBSET Tools /\ m.gen \in Nat /\ m.type = "tools"
    BY <1>1 DEF ToolsMsgs, ToolsMsg
  <2> QED
    BY <2>1, ToolsMsgsUp
<1>2. CASE m \in Answers
  <2>1. m = Answer(m.id, m.type) /\ m.id \in Reqs /\ m.type \in {"response", "error"}
    BY <1>2 DEF Answers, Answer
  <2> QED
    BY <2>1, AnswerMsgs
<1> QED
  BY <1>1, <1>2 DEF UpMsgs

\* The four ways the messages change.
LEMMA DownSent ==
  ASSUME down \in Seq(Requests), NEW m \in Requests, down' = Append(down, m)
  PROVE  /\ down' \in Seq(Requests)
         /\ \A r \in Reqs :
              /\ m \in RequestOf(r) => InDown(r)'
              /\ m \notin RequestOf(r) => (InDown(r)' <=> InDown(r))
              /\ Once(down, RequestOf(r)) /\ (m \notin RequestOf(r) \/ ~InDown(r)) =>
                   Once(down, RequestOf(r))'
<1>1. down' \in Seq(Requests)
  BY AppendFree
<1>2. ASSUME NEW r \in Reqs
      PROVE  /\ m \in RequestOf(r) => ~Free(down', RequestOf(r))
             /\ m \notin RequestOf(r) => (Free(down', RequestOf(r)) <=> Free(down, RequestOf(r)))
             /\ Once(down, RequestOf(r)) /\ (m \notin RequestOf(r) \/ Free(down, RequestOf(r))) =>
                  Once(down', RequestOf(r))
  BY AppendFree
<1> QED
  BY <1>1, <1>2 DEF InDown

LEMMA DownTaken ==
  ASSUME down \in Seq(Requests), down # <<>>, down' = Tail(down)
  PROVE  /\ down' \in Seq(Requests)
         /\ \A r \in Reqs :
              /\ InDown(r)' => InDown(r)
              /\ Head(down) \notin RequestOf(r) => (InDown(r)' <=> InDown(r))
              /\ Once(down, RequestOf(r)) => Once(down, RequestOf(r))'
              /\ Head(down) \in RequestOf(r) => InDown(r)
              /\ Once(down, RequestOf(r)) /\ Head(down) \in RequestOf(r) => ~InDown(r)'
<1>1. down' \in Seq(Requests)
  BY TailFree
<1>2. ASSUME NEW r \in Reqs
      PROVE  /\ Free(down, RequestOf(r)) => Free(down', RequestOf(r))
             /\ Head(down) \notin RequestOf(r) =>
                  (Free(down', RequestOf(r)) <=> Free(down, RequestOf(r)))
             /\ Once(down, RequestOf(r)) => Once(down', RequestOf(r))
             /\ Head(down) \in RequestOf(r) => ~Free(down, RequestOf(r))
             /\ Once(down, RequestOf(r)) /\ Head(down) \in RequestOf(r) =>
                  Free(down', RequestOf(r))
  BY TailFree
<1> QED
  BY <1>1, <1>2 DEF InDown

LEMMA UpSent ==
  ASSUME up \in Seq(UpMsgs), NEW m \in UpMsgs, up' = Append(up, m)
  PROVE  /\ up' \in Seq(UpMsgs)
         /\ \A r \in Reqs :
              /\ m \in AnswersOf(r) => InUp(r)'
              /\ m \notin AnswersOf(r) => (InUp(r)' <=> InUp(r))
              /\ Once(up, AnswersOf(r)) /\ (m \notin AnswersOf(r) \/ ~InUp(r)) =>
                   Once(up, AnswersOf(r))'
<1>1. up' \in Seq(UpMsgs)
  BY AppendFree
<1>2. ASSUME NEW r \in Reqs
      PROVE  /\ m \in AnswersOf(r) => ~Free(up', AnswersOf(r))
             /\ m \notin AnswersOf(r) => (Free(up', AnswersOf(r)) <=> Free(up, AnswersOf(r)))
             /\ Once(up, AnswersOf(r)) /\ (m \notin AnswersOf(r) \/ Free(up, AnswersOf(r))) =>
                  Once(up', AnswersOf(r))
  BY AppendFree
<1> QED
  BY <1>1, <1>2 DEF InUp

LEMMA UpTaken ==
  ASSUME up \in Seq(UpMsgs), up # <<>>, up' = Tail(up)
  PROVE  /\ up' \in Seq(UpMsgs) /\ Head(up) \in UpMsgs
         /\ \A r \in Reqs :
              /\ InUp(r)' => InUp(r)
              /\ Head(up) \notin AnswersOf(r) => (InUp(r)' <=> InUp(r))
              /\ Once(up, AnswersOf(r)) => Once(up, AnswersOf(r))'
              /\ Head(up) \in AnswersOf(r) => InUp(r)
              /\ Once(up, AnswersOf(r)) /\ Head(up) \in AnswersOf(r) => ~InUp(r)'
<1>1. up' \in Seq(UpMsgs) /\ Head(up) \in UpMsgs
  BY TailFree
<1>2. ASSUME NEW r \in Reqs
      PROVE  /\ Free(up, AnswersOf(r)) => Free(up', AnswersOf(r))
             /\ Head(up) \notin AnswersOf(r) => (Free(up', AnswersOf(r)) <=> Free(up, AnswersOf(r)))
             /\ Once(up, AnswersOf(r)) => Once(up', AnswersOf(r))
             /\ Head(up) \in AnswersOf(r) => ~Free(up, AnswersOf(r))
             /\ Once(up, AnswersOf(r)) /\ Head(up) \in AnswersOf(r) => Free(up', AnswersOf(r))
  BY TailFree
<1> QED
  BY <1>1, <1>2 DEF InUp

\* Keys and tool names are sequences of characters.
LEMMA ToolsAreStrings ==
  /\ Underscore \in Chars
  /\ \A tool \in Tools : /\ tool = [server |-> tool.server, name |-> tool.name]
                         /\ tool.server \in Seq(Chars) /\ tool.name \in Seq(Chars)
BY TunnelAssumption DEF TunnelAssumption, Chars

\* The agent takes a request for what was asked, if the key is found again.
LEMMA NamedAsked ==
  ASSUME NEW r \in Reqs, asked[r] \in Tools, Findable(asked[r].server)
  PROVE  Named(r) = asked[r]
<1> DEFINE tool == asked[r]
<1>1. /\ tool = [server |-> tool.server, name |-> tool.name]
      /\ Underscore \in Chars /\ tool.server \in Seq(Chars) /\ tool.name \in Seq(Chars)
  BY ToolsAreStrings
<1>2. /\ ServerOf(Joined(tool.server, tool.name)) = tool.server
      /\ ToolOf(Joined(tool.server, tool.name)) = tool.name
  BY <1>1, NamesSplit
<1>3. Named(r) = [server |-> tool.server, name |-> tool.name]
  BY <1>2 DEF Named
<1> QED
  BY <1>1, <1>3

\* Whatever it takes it for, it is some tool of some server.
LEMMA NamedTyped ==
  ASSUME NEW r \in Reqs, asked[r] \in Tools
  PROVE  Named(r) = [server |-> Named(r).server, name |-> Named(r).name]
         /\ Named(r).name \in Seq(Chars)
<1> DEFINE tool == asked[r]
<1>1. Underscore \in Chars /\ tool.server \in Seq(Chars) /\ tool.name \in Seq(Chars)
  BY ToolsAreStrings
<1>2. ToolOf(Joined(tool.server, tool.name)) \in Seq(Chars)
  BY <1>1, ToolOfTyped
<1> QED
  BY <1>2 DEF Named

-----------------------------------------------------------------------------
(* What a step leaves alone. *)

LEMMA RelayFrame == RelayOK /\ UNCHANGED <<relayVars, epoch>> => RelayOK'
BY DEF RelayOK, relayVars

LEMMA WireFrame == WireOK /\ UNCHANGED wire => WireOK'
BY DEF WireOK, wire

LEMMA AgentFrame == AgentOK /\ UNCHANGED agentVars => AgentOK'
BY DEF AgentOK, agentVars

LEMMA AgentInvFrame ==
  AgentInv /\ UNCHANGED <<linked, epoch, serving, restarts>> => AgentInv'
BY DEF AgentInv, Restarting, AtAgent

\* A call stays where it is, though its client may learn that it is unknown or late.
LEMMA CallFrame ==
  ASSUME NEW r \in Reqs, CallInv(r), UNCHANGED <<asked, via, linked, epoch, down, up>>,
         serving'[r] = serving[r],
         \/ calls'[r] = calls[r]
         \/ calls[r] = "idle" /\ calls'[r] = "unknown"
         \/ calls[r] = "waiting" /\ calls'[r] = "timeout"
  PROVE  CallInv(r)' /\ (Held(r)' <=> Held(r))
<1>1. /\ InDown(r)' <=> InDown(r)
      /\ InUp(r)' <=> InUp(r)
      /\ AtAgent(r)' <=> AtAgent(r)
  BY DEF InDown, InUp, AtAgent
<1> QED
  BY <1>1 DEF CallInv, Held

-----------------------------------------------------------------------------

LEMMA InitIInv == Init => IInv
<1> SUFFICES ASSUME Init PROVE IInv
  OBVIOUS
<1>1. PICK ts \in SUBSET Offered(servers.keys) : up = <<ToolsMsg(ts, 1)>>
  BY DEF Init
<1>2. PICK m : m = ToolsMsg(ts, 1)
  OBVIOUS
<1>3. m \in UpMsgs /\ \A r \in Reqs : m \notin AnswersOf(r)
  <2>1. ts \in SUBSET Tools
    BY DEF Offered
  <2> QED
    BY <1>2, <2>1, ToolsMsgsUp
<1>4. up \in Seq(UpMsgs) /\ Len(up) = 1 /\ up[1] = m
  BY <1>1, <1>2, <1>3
<1>5. \A r \in Reqs : ~InUp(r) /\ Once(up, AnswersOf(r))
  BY <1>3, <1>4 DEF InUp, Free, Once
<1>6. \A r \in Reqs : ~InDown(r) /\ Once(down, RequestOf(r)) /\ ~AtAgent(r)
  BY EmptyFree DEF Init, InDown, AtAgent
<1>7. RelayOK
  BY DEF Init, RelayOK
<1>8. WireOK
  BY <1>4, TunnelAssumption DEF Init, WireOK, UpMsgs, Epochs, TunnelAssumption
<1>9. AgentOK
  BY DEF Init, AgentOK, NoServers
<1>10. AgentInv
  BY DEF Init, AgentInv, Restarting
<1>11. \A r \in Reqs : CallInv(r)
  BY <1>5, <1>6 DEF CallInv, Init
<1> QED
  BY <1>7, <1>8, <1>9, <1>10, <1>11 DEF IInv, TypeOK

LEMMA StepCallTool ==
  ASSUME IInv, NEW r \in Reqs, NEW tool \in Tools, CallTool(r, tool)
  PROVE  IInv' /\ ~Held(r) /\ \A q \in Reqs \ {r} : Held(q)' <=> Held(q)
<1>1. /\ calls[r] = "idle" /\ calls'[r] = "waiting"
      /\ asked'[r] = tool /\ via'[r] = relay
      /\ \A q \in Reqs \ {r} : calls'[q] = calls[q] /\ asked'[q] = asked[q] /\ via'[q] = via[q]
  BY DEF CallTool, IInv, TypeOK, RelayOK
<1>2. RelayOK'
  BY DEF CallTool, IInv, TypeOK, RelayOK
<1>3. AgentOK' /\ AgentInv'
  BY AgentFrame, AgentInvFrame DEF CallTool, IInv, TypeOK, agentVars
<1>4. UNCHANGED <<up, linked, epoch, serving>>
  BY DEF CallTool, agentVars
<1>5. \A q \in Reqs : /\ InUp(q)' <=> InUp(q)
                      /\ AtAgent(q)' <=> AtAgent(q)
                      /\ Once(up, AnswersOf(q))' <=> Once(up, AnswersOf(q))
                      /\ CallInv(q)
  BY <1>4 DEF InUp, AtAgent, IInv
<1>6. ~Held(r)
  BY <1>1, <1>5 DEF CallInv, Held
<1>7. CASE Joint
  <2>1. down' = Append(down, Request(r)) /\ Request(r) \in Requests /\ down \in Seq(Requests)
    BY <1>7, DownMsgs DEF CallTool, Send, IInv, TypeOK, WireOK
  <2>2. down' \in Seq(Requests)
        /\ \A q \in Reqs :
              /\ Request(r) \in RequestOf(q) => InDown(q)'
              /\ Request(r) \notin RequestOf(q) => (InDown(q)' <=> InDown(q))
              /\ Once(down, RequestOf(q)) /\ (Request(r) \notin RequestOf(q) \/ ~InDown(q)) =>
                   Once(down, RequestOf(q))'
    BY <2>1, DownSent
  <2>3. WireOK'
    BY <1>4, <1>7, <2>2 DEF IInv, TypeOK, WireOK, Joint
  <2>4. CallInv(r)'
    BY <1>1, <1>4, <1>5, <2>2, DownMsgs DEF CallInv
  <2>5. \A q \in Reqs \ {r} : CallInv(q)' /\ (Held(q)' <=> Held(q))
    BY <1>1, <1>4, <1>5, <2>2, DownMsgs DEF CallInv, Held
  <2> QED
    BY <1>2, <1>3, <1>6, <2>3, <2>4, <2>5 DEF IInv, TypeOK
<1>8. CASE ~Joint
  <2>1. down' = down
    BY <1>8 DEF CallTool, Send
  <2>2. WireOK'
    BY <1>4, <2>1 DEF IInv, TypeOK, WireOK
  <2>3. \A q \in Reqs : InDown(q)' <=> InDown(q)
    BY <2>1 DEF InDown
  <2>4. CallInv(r)'
    BY <1>1, <1>4, <1>5, <1>8, <2>1, <2>3 DEF CallInv, Joint
  <2>5. \A q \in Reqs \ {r} : CallInv(q)' /\ (Held(q)' <=> Held(q))
    BY <1>1, <1>4, <1>5, <2>1, <2>3 DEF CallInv, Held
  <2> QED
    BY <1>2, <1>3, <1>6, <2>2, <2>4, <2>5 DEF IInv, TypeOK
<1> QED
  BY <1>7, <1>8

LEMMA StepCallUnknownTool ==
  ASSUME IInv, NEW r \in Reqs, NEW tool \in Tools, CallUnknownTool(r, tool)
  PROVE  IInv' /\ Kept
<1>1. RelayOK'
  BY DEF CallUnknownTool, wire, IInv, TypeOK, RelayOK
<1>2. WireOK' /\ AgentOK' /\ AgentInv'
  BY WireFrame, AgentFrame, AgentInvFrame DEF CallUnknownTool, wire, agentVars, IInv, TypeOK
<1>3. \A q \in Reqs : CallInv(q)' /\ (Held(q)' <=> Held(q))
  BY CallFrame DEF CallUnknownTool, wire, agentVars, IInv, TypeOK, RelayOK
<1> QED
  BY <1>1, <1>2, <1>3 DEF IInv, TypeOK, Kept

LEMMA StepRequestTimeout ==
  ASSUME IInv, NEW r \in Reqs, RequestTimeout(r)
  PROVE  IInv' /\ Kept
<1>1. RelayOK'
  BY DEF RequestTimeout, wire, IInv, TypeOK, RelayOK
<1>2. WireOK' /\ AgentOK' /\ AgentInv'
  BY WireFrame, AgentFrame, AgentInvFrame DEF RequestTimeout, wire, agentVars, IInv, TypeOK
<1>3. \A q \in Reqs : CallInv(q)' /\ (Held(q)' <=> Held(q))
  BY CallFrame DEF RequestTimeout, wire, agentVars, IInv, TypeOK, RelayOK
<1> QED
  BY <1>1, <1>2, <1>3 DEF IInv, TypeOK, Kept

LEMMA StepRemoveConnection ==
  ASSUME IInv, RemoveConnection
  PROVE  IInv' /\ Kept
<1>1. RelayOK'
  BY DEF RemoveConnection, wire, IInv, TypeOK, RelayOK, WireOK, Epochs
<1>2. WireOK' /\ AgentOK' /\ AgentInv'
  BY WireFrame, AgentFrame, AgentInvFrame DEF RemoveConnection, wire, agentVars, IInv, TypeOK
<1>3. \A q \in Reqs : CallInv(q)' /\ (Held(q)' <=> Held(q))
  BY CallFrame DEF RemoveConnection, wire, agentVars, IInv
<1> QED
  BY <1>1, <1>2, <1>3 DEF IInv, TypeOK, Kept

\* Calls stay where they are while other messages come and go.
LEMMA CallsFrame ==
  ASSUME \A r \in Reqs : CallInv(r),
         UNCHANGED <<calls, asked, via, linked, epoch, serving>>,
         \A r \in Reqs : /\ InDown(r)' <=> InDown(r)
                         /\ InUp(r)' <=> InUp(r)
                         /\ Once(down, RequestOf(r))' /\ Once(up, AnswersOf(r))'
  PROVE  (\A r \in Reqs : CallInv(r)') /\ Kept
<1>1. \A r \in Reqs : AtAgent(r)' <=> AtAgent(r)
  BY DEF AtAgent
<1> QED
  BY <1>1 DEF CallInv, Held, Kept

LEMMA StepCallRestart ==
  ASSUME IInv, NEW h \in Restarts, CallRestart(h)
  PROVE  IInv' /\ Kept
<1>1. PICK at \in {"sent", "done"} :
        /\ restarts' = [restarts EXCEPT ![h].at = at]
        /\ \/ down' = Append(down, RestartMsg(h)) /\ linked
           \/ down' = down
  BY DEF CallRestart, Send, Joint
<1>2. /\ UNCHANGED <<calls, asked, via, linked, epoch, up, serving>>
      /\ UNCHANGED <<servers, spawned, closed, calm>>
      /\ RelayOK'
  BY RelayFrame DEF CallRestart, relayVars, IInv, TypeOK
<1>3. AgentOK'
  BY <1>1, <1>2 DEF IInv, TypeOK, AgentOK
<1>4. AgentInv'
  <2>1. \A g \in Restarts : Restarting(g)' => Restarting(g) /\ restarts'[g] = restarts[g]
    BY <1>1 DEF Restarting, IInv, TypeOK, AgentOK
  <2> QED
    BY <1>2, <2>1 DEF IInv, AgentInv, AtAgent
<1>5. \A r \in Reqs : (InUp(r)' <=> InUp(r)) /\ Once(up, AnswersOf(r))'
  BY <1>2 DEF InUp, IInv, CallInv
<1>6. /\ WireOK'
      /\ \A r \in Reqs : (InDown(r)' <=> InDown(r)) /\ Once(down, RequestOf(r))'
  <2>1. CASE down' = down
    BY <1>2, <2>1 DEF InDown, IInv, TypeOK, WireOK, CallInv
  <2>2. CASE down' = Append(down, RestartMsg(h)) /\ linked
    <3>1. RestartMsg(h) \in Requests /\ \A r \in Reqs : RestartMsg(h) \notin RequestOf(r)
      BY RestartMsgs, DownMsgs
    <3>2. down \in Seq(Requests)
      BY DEF IInv, TypeOK, WireOK
    <3>3. /\ down' \in Seq(Requests)
          /\ \A r \in Reqs : /\ InDown(r)' <=> InDown(r)
                             /\ Once(down, RequestOf(r)) => Once(down, RequestOf(r))'
      BY <2>2, <3>1, <3>2, DownSent
    <3> QED
      BY <1>2, <2>2, <3>3 DEF IInv, TypeOK, WireOK, CallInv
  <2> QED
    BY <1>1, <2>1, <2>2
<1>7. (\A r \in Reqs : CallInv(r)') /\ Kept
  BY <1>2, <1>5, <1>6, CallsFrame DEF IInv
<1> QED
  BY <1>2, <1>3, <1>4, <1>6, <1>7 DEF IInv, TypeOK

LEMMA StepReceiveTools ==
  ASSUME IInv, ReceiveTools
  PROVE  IInv' /\ Kept
<1>1. /\ up \in Seq(UpMsgs) /\ up # <<>> /\ up' = Tail(up) /\ Head(up).type = "tools"
      /\ tools' = Head(up).tools /\ toolsGen' = Head(up).gen
      /\ UNCHANGED <<calls, asked, via, relay, epoch, linked, down, serving, restarts>>
  BY DEF ReceiveTools, agentVars, IInv, TypeOK, WireOK, UpMsgs
<1>2. /\ up' \in Seq(UpMsgs) /\ Head(up) \in UpMsgs
      /\ \A r \in Reqs :
           /\ Head(up) \notin AnswersOf(r) => (InUp(r)' <=> InUp(r))
           /\ Once(up, AnswersOf(r)) => Once(up, AnswersOf(r))'
  BY <1>1, UpTaken
<1>3. /\ tools' \in SUBSET Tools /\ toolsGen' \in Nat
      /\ \A r \in Reqs : Head(up) \notin AnswersOf(r)
  BY <1>1, <1>2, UpKinds
<1>4. RelayOK'
  BY <1>1, <1>3 DEF IInv, TypeOK, RelayOK
<1>5. WireOK'
  <2>1. linked
    BY <1>1 DEF IInv, TypeOK, WireOK
  <2> QED
    BY <1>1, <1>2, <2>1 DEF IInv, TypeOK, WireOK, UpMsgs
<1>6. AgentOK' /\ AgentInv'
  BY AgentFrame, AgentInvFrame DEF ReceiveTools, agentVars, IInv, TypeOK
<1>7. \A r \in Reqs : (InDown(r)' <=> InDown(r)) /\ Once(down, RequestOf(r))'
  BY <1>1 DEF InDown, IInv, CallInv
<1>8. (\A r \in Reqs : CallInv(r)') /\ Kept
  <2>1. \A r \in Reqs : (InUp(r)' <=> InUp(r)) /\ Once(up, AnswersOf(r))'
    BY <1>2, <1>3 DEF IInv, CallInv
  <2> QED
    BY <1>1, <1>7, <2>1, CallsFrame DEF IInv
<1> QED
  BY <1>4, <1>5, <1>6, <1>8 DEF IInv, TypeOK

LEMMA StepReceiveAnswer ==
  ASSUME IInv, ReceiveAnswer
  PROVE  /\ IInv'
         /\ \E r \in Reqs, outcome \in {"response", "error"} :
              /\ calls' = IF calls[r] = "waiting" THEN [calls EXCEPT ![r] = outcome] ELSE calls
              /\ Held(r) /\ ~Held(r)' /\ \A q \in Reqs \ {r} : Held(q)' <=> Held(q)
<1> DEFINE m == Head(up)
<1>1. /\ up \in Seq(UpMsgs) /\ up # <<>> /\ up' = Tail(up) /\ m.type # "tools"
      /\ calls' = IF calls[m.id] = "waiting" THEN [calls EXCEPT ![m.id] = m.type] ELSE calls
      /\ UNCHANGED <<asked, via, relay, tools, toolsGen, epoch, linked, down, serving, restarts>>
  BY DEF ReceiveAnswer, agentVars, IInv, TypeOK, WireOK, UpMsgs
<1>2. /\ up' \in Seq(UpMsgs) /\ m \in UpMsgs
      /\ \A r \in Reqs :
           /\ InUp(r)' => InUp(r)
           /\ m \notin AnswersOf(r) => (InUp(r)' <=> InUp(r))
           /\ Once(up, AnswersOf(r)) => Once(up, AnswersOf(r))'
           /\ m \in AnswersOf(r) => InUp(r)
           /\ Once(up, AnswersOf(r)) /\ m \in AnswersOf(r) => ~InUp(r)'
  BY <1>1, UpTaken
<1> HIDE DEF m
<1>3. PICK id : id = m.id
  OBVIOUS
<1>4. PICK outcome : outcome = m.type
  OBVIOUS
<1>5. /\ id \in Reqs /\ outcome \in {"response", "error"} /\ m \in AnswersOf(id)
      /\ \A r \in Reqs : m \in AnswersOf(r) => r = id
  BY <1>1, <1>2, <1>3, <1>4, UpKinds
<1>6. calls' = IF calls[id] = "waiting" THEN [calls EXCEPT ![id] = outcome] ELSE calls
  BY <1>1, <1>3, <1>4
<1>7. RelayOK'
  BY <1>1, <1>5, <1>6 DEF IInv, TypeOK, RelayOK
<1>8. WireOK'
  <2>1. linked
    BY <1>1 DEF IInv, TypeOK, WireOK
  <2> QED
    BY <1>1, <1>2, <2>1 DEF IInv, TypeOK, WireOK, UpMsgs
<1>9. AgentOK' /\ AgentInv'
  BY AgentFrame, AgentInvFrame DEF ReceiveAnswer, agentVars, IInv, TypeOK
<1>10. \A r \in Reqs : /\ InDown(r)' <=> InDown(r)
                       /\ AtAgent(r)' <=> AtAgent(r)
                       /\ Once(down, RequestOf(r))' <=> Once(down, RequestOf(r))
                       /\ CallInv(r)
  BY <1>1 DEF InDown, AtAgent, IInv
<1>11. CallInv(id)' /\ Held(id) /\ ~Held(id)'
  <2>1. calls[id] \notin {"idle", "unknown"} /\ calls'[id] \notin {"idle", "unknown", "waiting"}
    BY <1>2, <1>5, <1>6, <1>10 DEF CallInv, IInv, TypeOK, RelayOK
  <2> QED
    BY <1>1, <1>2, <1>5, <1>10, <2>1 DEF CallInv, Held
<1>12. ASSUME NEW r \in Reqs \ {id} PROVE CallInv(r)' /\ (Held(r)' <=> Held(r))
  <2>1. calls'[r] = calls[r]
    BY <1>5, <1>6, <1>12 DEF IInv, TypeOK, RelayOK
  <2>2. m \notin AnswersOf(r)
    BY <1>5, <1>12
  <2> QED
    BY <1>1, <1>2, <1>10, <1>12, <2>1, <2>2 DEF CallInv, Held
<1> QED
  BY <1>5, <1>6, <1>7, <1>8, <1>9, <1>11, <1>12 DEF IInv, TypeOK

LEMMA StepReceiveRequest ==
  ASSUME IInv, NEW r \in Reqs, ReceiveRequest(r)
  PROVE  IInv' /\ Kept
<1>1. /\ down \in Seq(Requests) /\ down # <<>> /\ down' = Tail(down) /\ Head(down) = Request(r)
      /\ UNCHANGED <<calls, asked, via, linked, epoch, restarts, servers, spawned, closed, calm>>
      /\ up \in Seq(UpMsgs)
  BY DEF ReceiveRequest, relayVars, IInv, TypeOK, WireOK, UpMsgs
<1>2. /\ down' \in Seq(Requests)
      /\ \A q \in Reqs :
           /\ Head(down) \notin RequestOf(q) => (InDown(q)' <=> InDown(q))
           /\ Once(down, RequestOf(q)) => Once(down, RequestOf(q))'
           /\ Head(down) \in RequestOf(q) => InDown(q)
           /\ Once(down, RequestOf(q)) /\ Head(down) \in RequestOf(q) => ~InDown(q)'
  BY <1>1, DownTaken
<1>3. /\ \A q \in Reqs : CallInv(q)
      /\ InDown(r) /\ ~InDown(r)' /\ ~InUp(r) /\ ~AtAgent(r) /\ asked[r] \in Tools
      /\ calls[r] \notin {"idle", "unknown"}
      /\ \A q \in Reqs : Once(down, RequestOf(q))'
      /\ \A q \in Reqs \ {r} : InDown(q)' <=> InDown(q)
  BY <1>1, <1>2, DownMsgs DEF IInv, CallInv
<1>4. linked
  BY <1>1 DEF IInv, TypeOK, WireOK
<1>5. RelayOK'
  BY RelayFrame DEF ReceiveRequest, relayVars, IInv, TypeOK
<1>6. PICK tool : tool = Named(r)
  OBVIOUS
<1>7. tool = [server |-> tool.server, name |-> tool.name] /\ tool.name \in Seq(Chars)
  BY <1>3, <1>6, NamedTyped
<1>8. CASE tool.server \in servers.keys
  <2>1. serving' = [serving EXCEPT ![r] = [gen |-> servers.gen, tool |-> tool]] /\ up' = up
    BY <1>6, <1>8 DEF ReceiveRequest
  <2>2. PICK call : call = [gen |-> servers.gen, tool |-> tool]
    OBVIOUS
  <2>3. call \in Served /\ call # NoCall
    <3>1. servers.gen \in Nat \ {0} /\ tool.server \in Keys
      BY <1>8 DEF IInv, TypeOK, AgentOK
    <3>2. tool \in [server : Keys, name : Seq(Chars)]
      BY <1>7, <3>1
    <3> QED
      BY <2>2, <3>1, <3>2 DEF NoCall, Served
  <2>4. serving' = [serving EXCEPT ![r] = call]
    BY <2>1, <2>2
  <2>5. /\ AgentOK'
        /\ AtAgent(r)' /\ \A q \in Reqs \ {r} : AtAgent(q)' <=> AtAgent(q)
    BY <1>1, <2>3, <2>4 DEF AtAgent, IInv, TypeOK, AgentOK
  <2>6. AgentInv'
    BY <1>1, <1>4 DEF AgentInv, Restarting, IInv
  <2>7. WireOK'
    BY <1>1, <1>2, <1>4, <2>1 DEF IInv, TypeOK, WireOK
  <2>8. \A q \in Reqs : /\ InUp(q)' <=> InUp(q)
                        /\ Once(up, AnswersOf(q))'
    BY <1>3, <2>1 DEF InUp, CallInv
  <2>9. \A q \in Reqs : CallInv(q)' /\ (Held(q)' <=> Held(q))
    BY <1>1, <1>3, <2>5, <2>8 DEF CallInv, Held
  <2> QED
    BY <1>5, <2>5, <2>6, <2>7, <2>9 DEF IInv, TypeOK, Kept
<1>9. CASE tool.server \notin servers.keys
  <2>1. up' = Append(up, Answer(r, "error")) /\ serving' = serving
    BY <1>6, <1>9 DEF ReceiveRequest, Reply
  <2>2. /\ up' \in Seq(UpMsgs)
        /\ InUp(r)' /\ \A q \in Reqs \ {r} : InUp(q)' <=> InUp(q)
        /\ \A q \in Reqs : Once(up, AnswersOf(q))'
    <3>1. /\ Answer(r, "error") \in UpMsgs /\ Answer(r, "error") \in AnswersOf(r)
          /\ \A q \in Reqs : Answer(r, "error") \in AnswersOf(q) => q = r
      BY AnswerMsgs
    <3>2. /\ up' \in Seq(UpMsgs)
          /\ \A q \in Reqs :
              /\ Answer(r, "error") \in AnswersOf(q) => InUp(q)'
              /\ Answer(r, "error") \notin AnswersOf(q) => (InUp(q)' <=> InUp(q))
              /\ Once(up, AnswersOf(q)) /\ (Answer(r, "error") \notin AnswersOf(q) \/ ~InUp(q)) =>
                   Once(up, AnswersOf(q))'
      BY <1>1, <2>1, <3>1, UpSent
    <3> QED
      BY <1>3, <3>1, <3>2 DEF CallInv
  <2>3. AgentOK' /\ AgentInv'
    BY <1>1, <2>1, AgentFrame, AgentInvFrame DEF agentVars, IInv, TypeOK
  <2>4. WireOK'
    BY <1>1, <1>2, <1>4, <2>2 DEF IInv, TypeOK, WireOK, UpMsgs
  <2>5. \A q \in Reqs : AtAgent(q)' <=> AtAgent(q)
    BY <2>1 DEF AtAgent
  <2>6. \A q \in Reqs : CallInv(q)' /\ (Held(q)' <=> Held(q))
    BY <1>1, <1>3, <2>2, <2>5 DEF CallInv, Held
  <2> QED
    BY <1>5, <2>3, <2>4, <2>6 DEF IInv, TypeOK, Kept
<1> QED
  BY <1>8, <1>9

LEMMA StepCallSettles ==
  ASSUME IInv, NEW r \in Reqs, NEW outcome \in {"response", "error"}, CallSettles(r, outcome)
  PROVE  IInv' /\ Kept
<1>1. /\ up \in Seq(UpMsgs) /\ up' = Append(up, Answer(r, outcome))
      /\ AtAgent(r) /\ serving' = [serving EXCEPT ![r] = NoCall]
      /\ UNCHANGED <<calls, asked, via, linked, epoch, down, restarts,
                     servers, spawned, closed, calm>>
  BY DEF CallSettles, Reply, AtAgent, relayVars, IInv, TypeOK, WireOK, UpMsgs
<1>2. /\ AgentOK'
      /\ ~AtAgent(r)' /\ \A q \in Reqs \ {r} : AtAgent(q)' <=> AtAgent(q)
  <2>1. PICK none : none = NoCall
    OBVIOUS
  <2>2. serving' = [serving EXCEPT ![r] = none]
        /\ serving \in [Reqs -> {none} \cup Served]
    BY <1>1, <2>1 DEF IInv, TypeOK, AgentOK
  <2>3. serving' \in [Reqs -> {none} \cup Served]
        /\ serving'[r] = none /\ \A q \in Reqs \ {r} : serving'[q] = serving[q]
    BY <2>2
  <2> QED
    BY <1>1, <2>1, <2>3 DEF AtAgent, IInv, TypeOK, AgentOK
<1>3. /\ \A q \in Reqs : CallInv(q)
      /\ ~InUp(r) /\ ~InDown(r) /\ calls[r] \notin {"idle", "unknown"}
      /\ linked
  BY <1>1 DEF IInv, CallInv, AgentInv
<1>4. /\ up' \in Seq(UpMsgs)
      /\ InUp(r)' /\ \A q \in Reqs \ {r} : InUp(q)' <=> InUp(q)
      /\ \A q \in Reqs : Once(up, AnswersOf(q))'
  <2>1. /\ Answer(r, outcome) \in UpMsgs /\ Answer(r, outcome) \in AnswersOf(r)
        /\ \A q \in Reqs : Answer(r, outcome) \in AnswersOf(q) => q = r
    BY AnswerMsgs
  <2>2. /\ up' \in Seq(UpMsgs)
        /\ \A q \in Reqs :
            /\ Answer(r, outcome) \in AnswersOf(q) => InUp(q)'
            /\ Answer(r, outcome) \notin AnswersOf(q) => (InUp(q)' <=> InUp(q))
            /\ Once(up, AnswersOf(q)) /\ (Answer(r, outcome) \notin AnswersOf(q) \/ ~InUp(q)) =>
                 Once(up, AnswersOf(q))'
    BY <1>1, <2>1, UpSent
  <2> QED
    BY <1>3, <2>1, <2>2 DEF CallInv
<1>5. RelayOK'
  BY RelayFrame DEF CallSettles, relayVars, IInv, TypeOK
<1>6. WireOK'
  BY <1>1, <1>3, <1>4 DEF IInv, TypeOK, WireOK, UpMsgs
<1>7. AgentInv'
  BY <1>1, <1>3 DEF AgentInv, Restarting, IInv
<1>8. \A q \in Reqs : (InDown(q)' <=> InDown(q)) /\ Once(down, RequestOf(q))'
  BY <1>1, <1>3 DEF InDown, CallInv
<1>9. \A q \in Reqs : CallInv(q)' /\ (Held(q)' <=> Held(q))
  BY <1>1, <1>2, <1>3, <1>4, <1>8 DEF CallInv, Held
<1> QED
  BY <1>2, <1>5, <1>6, <1>7, <1>9 DEF IInv, TypeOK, Kept

LEMMA StepReceiveRestart ==
  ASSUME IInv, NEW h \in Restarts, ReceiveRestart(h)
  PROVE  IInv' /\ Kept
<1>1. /\ down \in Seq(Requests) /\ down # <<>> /\ down' = Tail(down)
      /\ Head(down) = RestartMsg(h)
      /\ restarts' = [restarts EXCEPT ![h] = [at |-> "closing", servers |-> servers]]
      /\ calm' = (calm /\ \A g \in Restarts : ~Restarting(g))
      /\ UNCHANGED <<calls, asked, via, linked, epoch, up, serving, servers, spawned, closed>>
  BY DEF ReceiveRestart, relayVars, IInv, TypeOK, WireOK
<1>2. /\ down' \in Seq(Requests)
      /\ \A r \in Reqs :
           /\ Head(down) \notin RequestOf(r) => (InDown(r)' <=> InDown(r))
           /\ Once(down, RequestOf(r)) => Once(down, RequestOf(r))'
  BY <1>1, DownTaken
<1>3. \A r \in Reqs : /\ InDown(r)' <=> InDown(r)
                      /\ Once(down, RequestOf(r))'
  BY <1>1, <1>2, DownMsgs DEF IInv, CallInv
<1>4. \A r \in Reqs : (InUp(r)' <=> InUp(r)) /\ Once(up, AnswersOf(r))'
  BY <1>1 DEF InUp, IInv, CallInv
<1>5. (\A r \in Reqs : CallInv(r)') /\ Kept
  BY <1>1, <1>3, <1>4, CallsFrame DEF IInv
<1>6. PICK new : new = [at |-> "closing", servers |-> servers]
  OBVIOUS
<1>7. /\ new.at = "closing" /\ new.servers = servers /\ servers.gen # 0
      /\ new \in [at : {"none", "sent", "closing", "spawning", "listing", "done"},
                  servers : [gen : 0..spawned, keys : SUBSET Keys]]
  <2>1. servers.gen \in Nat \ {0} /\ servers.gen <= spawned /\ spawned \in Nat
        /\ servers \in [gen : 0..spawned, keys : SUBSET Keys]
    BY DEF IInv, TypeOK, AgentOK
  <2> QED
    BY <1>6, <2>1
<1>8. restarts' = [restarts EXCEPT ![h] = new]
  BY <1>1, <1>6
<1>9. calm' \in BOOLEAN
  BY <1>1
<1>10. AgentOK'
  BY <1>1, <1>7, <1>8, <1>9 DEF IInv, TypeOK, AgentOK
<1>11. AgentInv'
  <2>1. linked
    BY <1>1 DEF IInv, TypeOK, WireOK
  <2> QED
    BY <1>1, <1>7, <1>8, <2>1 DEF IInv, TypeOK, AgentOK, AgentInv, Restarting, AtAgent
<1>12. RelayOK'
  BY RelayFrame DEF ReceiveRestart, IInv, TypeOK
<1>13. WireOK'
  BY <1>1, <1>2 DEF IInv, TypeOK, WireOK
<1> QED
  BY <1>5, <1>10, <1>11, <1>12, <1>13 DEF IInv, TypeOK

LEMMA StepRestartSpawns ==
  ASSUME IInv, NEW h \in Restarts, NEW keys \in SUBSET Keys, RestartSpawns(h, keys)
  PROVE  IInv' /\ Kept
<1>1. PICK new : new = [at |-> "spawning", servers |-> [gen |-> spawned + 1, keys |-> keys]]
  OBVIOUS
<1>2. /\ restarts[h].at = "closing" /\ spawned' = spawned + 1
      /\ closed' = closed \cup {restarts[h].servers.gen}
      /\ restarts' = [restarts EXCEPT ![h] = new]
      /\ UNCHANGED <<calls, asked, via, epoch, linked, down, up, serving, servers, calm>>
  BY <1>1 DEF RestartSpawns, relayVars, wire
<1>3. /\ spawned \in Nat \ {0} /\ spawned' \in Nat \ {0} /\ spawned' = spawned + 1
      /\ restarts[h].servers.gen \in 1..spawned
  BY <1>2 DEF IInv, TypeOK, AgentOK, AgentInv, Restarting
<1>4. /\ new.servers.gen # 0
      /\ new \in [at : {"none", "sent", "closing", "spawning", "listing", "done"},
                  servers : [gen : 0..spawned', keys : SUBSET Keys]]
  <2>1. spawned + 1 \in 0..spawned' /\ spawned + 1 # 0
    BY <1>3
  <2> QED
    BY <1>1, <2>1
<1>5. AgentOK'
  <2>1. \A g \in Restarts : restarts[g] \in
          [at : {"none", "sent", "closing", "spawning", "listing", "done"},
           servers : [gen : 0..spawned', keys : SUBSET Keys]]
    <3>1. 0..spawned \subseteq 0..spawned'
      BY <1>3
    <3> QED
      BY <3>1 DEF IInv, TypeOK, AgentOK
  <2>2. restarts' \in [Restarts -> [at : {"none", "sent", "closing", "spawning", "listing", "done"},
                                    servers : [gen : 0..spawned', keys : SUBSET Keys]]]
    BY <1>2, <1>4, <2>1 DEF IInv, TypeOK, AgentOK
  <2>3. closed' \in SUBSET (1..spawned')
    <3>1. closed \in SUBSET (1..spawned) /\ 1..spawned \subseteq 1..spawned'
      BY <1>3 DEF IInv, TypeOK, AgentOK
    <3> QED
      BY <1>2, <1>3, <3>1
  <2>4. servers.gen <= spawned'
    BY <1>3 DEF IInv, TypeOK, AgentOK
  <2> QED
    BY <1>2, <1>3, <2>2, <2>3, <2>4 DEF IInv, TypeOK, AgentOK
<1>6. AgentInv'
  <2>1. linked
    BY <1>2 DEF IInv, AgentInv, Restarting
  <2> QED
    BY <1>2, <1>4, <2>1 DEF IInv, TypeOK, AgentOK, AgentInv, Restarting, AtAgent
<1>7. RelayOK' /\ WireOK'
  BY RelayFrame, WireFrame DEF RestartSpawns, wire, IInv, TypeOK
<1>8. \A r \in Reqs : CallInv(r)' /\ (Held(r)' <=> Held(r))
  BY <1>2, CallFrame DEF IInv
<1> QED
  BY <1>5, <1>6, <1>7, <1>8 DEF IInv, TypeOK, Kept

LEMMA StepRestartSpawned ==
  ASSUME IInv, NEW h \in Restarts, RestartSpawned(h)
  PROVE  IInv' /\ Kept
<1>1. /\ Restarting(h) /\ servers' = restarts[h].servers
      /\ restarts' = [restarts EXCEPT ![h].at = "listing"]
      /\ UNCHANGED <<calls, asked, via, epoch, linked, down, up, serving, spawned, closed, calm>>
  BY DEF RestartSpawned, Restarting, relayVars, wire
<1>2. servers' \in [gen : Nat \ {0}, keys : SUBSET Keys] /\ servers'.gen <= spawned
  <2>1. restarts[h].servers \in [gen : 0..spawned, keys : SUBSET Keys]
        /\ restarts[h].servers.gen # 0 /\ spawned \in Nat
    BY <1>1 DEF IInv, TypeOK, AgentOK, AgentInv
  <2> QED
    BY <1>1, <2>1
<1>3. AgentOK'
  BY <1>1, <1>2 DEF IInv, TypeOK, AgentOK
<1>4. AgentInv'
  <2>1. \A g \in Restarts : Restarting(g)' => Restarting(g)
          /\ restarts'[g].servers = restarts[g].servers
    BY <1>1 DEF Restarting, IInv, TypeOK, AgentOK
  <2> QED
    BY <1>1, <2>1 DEF IInv, AgentInv, AtAgent
<1>5. RelayOK' /\ WireOK'
  BY RelayFrame, WireFrame DEF RestartSpawned, wire, IInv, TypeOK
<1>6. \A r \in Reqs : CallInv(r)' /\ (Held(r)' <=> Held(r))
  BY <1>1, CallFrame DEF IInv
<1> QED
  BY <1>3, <1>4, <1>5, <1>6 DEF IInv, TypeOK, Kept

LEMMA StepRestartListed ==
  ASSUME IInv, NEW h \in Restarts, NEW ts \in SUBSET Tools, RestartListed(h, ts)
  PROVE  IInv' /\ Kept
<1>1. PICK gen : gen = restarts[h].servers.gen
  OBVIOUS
<1>2. /\ up \in Seq(UpMsgs) /\ up' = Append(up, ToolsMsg(ts, gen))
      /\ restarts[h].at = "listing" /\ gen \in Nat
      /\ restarts' = [restarts EXCEPT ![h] = [at |-> "done", servers |-> NoServers]]
      /\ UNCHANGED <<calls, asked, via, linked, epoch, down, serving,
                     servers, spawned, closed, calm>>
  BY <1>1 DEF RestartListed, Reply, relayVars, IInv, TypeOK, WireOK, AgentOK, UpMsgs
<1>3. /\ up' \in Seq(UpMsgs)
      /\ \A r \in Reqs : (InUp(r)' <=> InUp(r)) /\ Once(up, AnswersOf(r))'
  <2>1. ToolsMsg(ts, gen) \in UpMsgs /\ \A r \in Reqs : ToolsMsg(ts, gen) \notin AnswersOf(r)
    BY <1>2, ToolsMsgsUp
  <2>2. /\ up' \in Seq(UpMsgs)
        /\ \A r \in Reqs :
             /\ InUp(r)' <=> InUp(r)
             /\ Once(up, AnswersOf(r)) => Once(up, AnswersOf(r))'
    BY <1>2, <2>1, UpSent
  <2> QED
    BY <2>2 DEF IInv, CallInv
<1>4. \A r \in Reqs : (InDown(r)' <=> InDown(r)) /\ Once(down, RequestOf(r))'
  BY <1>2 DEF InDown, IInv, CallInv
<1>5. (\A r \in Reqs : CallInv(r)') /\ Kept
  BY <1>2, <1>3, <1>4, CallsFrame DEF IInv
<1>6. AgentOK'
  <2>1. PICK done : done = [at |-> "done", servers |-> NoServers]
    OBVIOUS
  <2>2. done \in [at : {"none", "sent", "closing", "spawning", "listing", "done"},
                  servers : [gen : 0..spawned, keys : SUBSET Keys]]
    BY <2>1 DEF NoServers, IInv, TypeOK, AgentOK
  <2> QED
    BY <1>2, <2>1, <2>2 DEF IInv, TypeOK, AgentOK
<1>7. AgentInv'
  BY <1>2 DEF IInv, TypeOK, AgentOK, AgentInv, Restarting, AtAgent
<1>8. RelayOK'
  BY RelayFrame DEF RestartListed, IInv, TypeOK
<1>9. WireOK'
  <2>1. linked
    BY <1>2 DEF IInv, AgentInv, Restarting
  <2> QED
    BY <1>2, <1>3, <2>1 DEF IInv, TypeOK, WireOK, UpMsgs
<1> QED
  BY <1>5, <1>6, <1>7, <1>8, <1>9 DEF IInv, TypeOK

\* A lost connection has no call on it and none behind it.
LEMMA StepLose ==
  ASSUME IInv, Lose
  PROVE  IInv' /\ \A r \in Reqs : ~Held(r)'
<1>1. PICK done : done = [at |-> "done", servers |-> NoServers]
  OBVIOUS
<1>2. /\ linked' = FALSE /\ down' = <<>> /\ up' = <<>> /\ epoch <= MaxLosses
      /\ serving' = [r \in Reqs |-> NoCall]
      /\ closed' = closed \cup {servers.gen}
      /\ restarts' = [h \in Restarts |-> IF restarts[h].at = "none" THEN restarts[h] ELSE done]
      /\ UNCHANGED <<calls, asked, via, epoch, servers, spawned, calm>>
  BY <1>1 DEF Lose, relayVars
<1>3. RelayOK'
  BY RelayFrame DEF Lose, IInv, TypeOK
<1>4. WireOK'
  <2>1. <<>> \in Seq(Requests) /\ <<>> \in Seq(ToolsMsgs \cup Answers)
    OBVIOUS
  <2>2. epoch' \in Epochs /\ linked' \in BOOLEAN
    BY <1>2 DEF IInv, TypeOK, WireOK
  <2> QED
    BY <1>2, <2>1, <2>2 DEF WireOK
<1>5. AgentOK'
  <2>1. /\ spawned \in Nat \ {0} /\ servers.gen \in 1..spawned /\ closed \in SUBSET (1..spawned)
        /\ servers \in [gen : Nat \ {0}, keys : SUBSET Keys] /\ calm \in BOOLEAN
    BY DEF IInv, TypeOK, AgentOK
  <2>2. done \in [at : {"none", "sent", "closing", "spawning", "listing", "done"},
                  servers : [gen : 0..spawned, keys : SUBSET Keys]]
    BY <1>1, <2>1 DEF NoServers
  <2>3. restarts' \in [Restarts -> [at : {"none", "sent", "closing", "spawning", "listing", "done"},
                                    servers : [gen : 0..spawned, keys : SUBSET Keys]]]
    BY <1>2, <2>2 DEF IInv, TypeOK, AgentOK
  <2>4. closed' \in SUBSET (1..spawned)
    BY <1>2, <2>1
  <2>5. serving' \in [Reqs -> {NoCall} \cup Served]
    BY <1>2
  <2>6. servers.gen <= spawned
    BY <2>1
  <2> QED
    BY <1>2, <2>1, <2>3, <2>4, <2>5, <2>6 DEF AgentOK
<1>6. \A r \in Reqs : ~AtAgent(r)'
  BY <1>2 DEF AtAgent
<1>7. AgentInv'
  <2>1. \A h \in Restarts : ~Restarting(h)'
    BY <1>1, <1>2 DEF Restarting
  <2> QED
    BY <1>2, <1>6, <2>1 DEF AgentInv
<1>8. \A r \in Reqs : /\ ~InDown(r)' /\ ~InUp(r)'
                      /\ Once(down, RequestOf(r))' /\ Once(up, AnswersOf(r))'
  <2>1. ASSUME NEW r \in Reqs
        PROVE  /\ Free(down', RequestOf(r)) /\ Free(up', AnswersOf(r))
               /\ Once(down', RequestOf(r)) /\ Once(up', AnswersOf(r))
    BY <1>2, EmptyFree
  <2> QED
    BY <2>1 DEF InDown, InUp
<1>9. \A r \in Reqs : CallInv(r)' /\ ~Held(r)'
  BY <1>2, <1>6, <1>8 DEF CallInv, Held
<1> QED
  BY <1>3, <1>4, <1>5, <1>7, <1>9 DEF IInv, TypeOK

\* A new connection starts with a message of tools, and no call waits on it yet.
LEMMA StepConnect ==
  ASSUME IInv, NEW keys \in SUBSET Keys, NEW ts \in SUBSET Tools, Connect(keys, ts)
  PROVE  IInv' /\ Kept
<1>1. PICK gen : gen = spawned + 1
  OBVIOUS
<1>2. /\ ~linked /\ linked' = TRUE /\ epoch' = epoch + 1
      /\ relay' = epoch + 1 /\ tools' = {} /\ toolsGen' = 0
      /\ spawned' = gen /\ servers' = [gen |-> gen, keys |-> keys] /\ calm' = TRUE
      /\ up' = Append(up, ToolsMsg(ts, gen))
      /\ UNCHANGED <<calls, asked, via, down, serving, closed, restarts>>
  BY <1>1 DEF Connect, Reply
<1>3. /\ epoch \in Nat /\ epoch <= MaxLosses /\ MaxLosses \in Nat
      /\ spawned \in Nat \ {0} /\ gen \in Nat \ {0}
      /\ up \in Seq(UpMsgs)
  BY <1>1, <1>2, TunnelAssumption
     DEF IInv, TypeOK, WireOK, AgentOK, AgentInv, Epochs, UpMsgs, TunnelAssumption
<1>4. /\ up' \in Seq(UpMsgs)
      /\ \A r \in Reqs : (InUp(r)' <=> InUp(r)) /\ Once(up, AnswersOf(r))'
  <2>1. ToolsMsg(ts, gen) \in UpMsgs /\ \A r \in Reqs : ToolsMsg(ts, gen) \notin AnswersOf(r)
    BY <1>3, ToolsMsgsUp
  <2>2. /\ up' \in Seq(UpMsgs)
        /\ \A r \in Reqs :
             /\ InUp(r)' <=> InUp(r)
             /\ Once(up, AnswersOf(r)) => Once(up, AnswersOf(r))'
    BY <1>2, <1>3, <2>1, UpSent
  <2> QED
    BY <2>2 DEF IInv, CallInv
<1>5. RelayOK'
  <2>1. via' \in [Reqs -> 0..epoch'] /\ relay' \in 0..epoch'
    <3>1. 0..epoch \subseteq 0..epoch' /\ epoch' \in 0..epoch'
      BY <1>2, <1>3
    <3> QED
      BY <1>2, <3>1 DEF IInv, TypeOK, RelayOK
  <2> QED
    BY <1>2, <2>1 DEF IInv, TypeOK, RelayOK
<1>6. WireOK'
  <2>1. epoch' \in Epochs
    BY <1>2, <1>3 DEF Epochs, IInv, TypeOK, WireOK
  <2> QED
    BY <1>2, <1>4, <2>1 DEF IInv, TypeOK, WireOK, UpMsgs
<1>7. AgentOK'
  <2>1. restarts' \in [Restarts -> [at : {"none", "sent", "closing", "spawning", "listing", "done"},
                                    servers : [gen : 0..spawned', keys : SUBSET Keys]]]
    <3>1. 0..spawned \subseteq 0..spawned'
      BY <1>1, <1>2, <1>3
    <3>2. \A h \in Restarts : restarts[h] \in
            [at : {"none", "sent", "closing", "spawning", "listing", "done"},
             servers : [gen : 0..spawned', keys : SUBSET Keys]]
      BY <3>1 DEF IInv, TypeOK, AgentOK
    <3> QED
      BY <1>2, <3>2 DEF IInv, TypeOK, AgentOK
  <2>2. closed' \in SUBSET (1..spawned')
    <3>1. 1..spawned \subseteq 1..spawned'
      BY <1>1, <1>2, <1>3
    <3> QED
      BY <1>2, <3>1 DEF IInv, TypeOK, AgentOK
  <2>3. servers' \in [gen : Nat \ {0}, keys : SUBSET Keys] /\ servers'.gen <= spawned'
        /\ spawned' \in Nat \ {0}
    BY <1>2, <1>3
  <2> QED
    BY <1>2, <2>1, <2>2, <2>3 DEF IInv, TypeOK, AgentOK
<1>8. AgentInv'
  BY <1>2 DEF IInv, AgentInv, Restarting
<1>9. \A r \in Reqs : /\ InDown(r)' <=> InDown(r)
                      /\ AtAgent(r)' <=> AtAgent(r)
                      /\ Once(down, RequestOf(r))'
  BY <1>2 DEF InDown, AtAgent, IInv, CallInv
<1>10. \A r \in Reqs : via'[r] # epoch'
  BY <1>2, <1>3 DEF IInv, TypeOK, RelayOK
<1>11. \A r \in Reqs : CallInv(r)' /\ (Held(r)' <=> Held(r))
  BY <1>2, <1>4, <1>9, <1>10 DEF IInv, CallInv, Held
<1> QED
  BY <1>5, <1>6, <1>7, <1>8, <1>11 DEF IInv, TypeOK, Kept

LEMMA StepStutter == IInv /\ UNCHANGED vars => IInv' /\ Kept
<1> SUFFICES ASSUME IInv, UNCHANGED vars PROVE IInv' /\ Kept
  OBVIOUS
<1>1. RelayOK' /\ WireOK' /\ AgentOK' /\ AgentInv'
  BY RelayFrame, WireFrame, AgentFrame, AgentInvFrame DEF vars, relayVars, wire, agentVars, IInv, TypeOK
<1>2. \A r \in Reqs : CallInv(r)' /\ (Held(r)' <=> Held(r))
  BY CallFrame DEF vars, relayVars, wire, agentVars, IInv
<1> QED
  BY <1>1, <1>2 DEF IInv, TypeOK, Kept

LEMMA NextIInv == IInv /\ [Next]_vars => IInv'
<1> SUFFICES ASSUME IInv, [Next]_vars PROVE IInv'
  OBVIOUS
<1>1. ASSUME NEW r \in Reqs, NEW tool \in Tools, CallTool(r, tool) \/ CallUnknownTool(r, tool)
      PROVE  IInv'
  BY <1>1, StepCallTool, StepCallUnknownTool
<1>2. ASSUME NEW r \in Reqs, RequestTimeout(r) \/ Settles(r) PROVE IInv'
  BY <1>2, StepRequestTimeout, StepCallSettles DEF Settles
<1>3. ASSUME NEW h \in Restarts, CallRestart(h) \/ RestartGoesOn(h) PROVE IInv'
  BY <1>3, StepCallRestart, StepRestartSpawns, StepRestartSpawned, StepRestartListed
     DEF RestartGoesOn
<1>4. CASE RelayReceives
  BY <1>4, StepReceiveTools, StepReceiveAnswer DEF RelayReceives
<1>5. CASE AgentReceives
  BY <1>5, StepReceiveRequest, StepReceiveRestart DEF AgentReceives
<1>6. CASE RemoveConnection \/ Lose
  BY <1>6, StepRemoveConnection, StepLose
<1>7. ASSUME NEW keys \in SUBSET Keys, NEW ts \in SUBSET Tools, Connect(keys, ts) PROVE IInv'
  BY <1>7, StepConnect
<1>8. CASE UNCHANGED vars
  BY <1>8, StepStutter
<1> QED
  BY <1>1, <1>2, <1>3, <1>4, <1>5, <1>6, <1>7, <1>8 DEF Next

LEMMA Invariance == Spec => []IInv
BY InitIInv, NextIInv, PTL DEF Spec

-----------------------------------------------------------------------------

\* Every variable has its type, and a lost connection carries nothing, however
\* often it is lost and whatever the configuration starts.
THEOREM TypeCorrect == Spec => []TypeOK
<1>1. IInv => TypeOK
  BY DEF IInv
<1> QED
  BY <1>1, Invariance, PTL

\* The places of a call, one by one.
LEMMA PlacesOf ==
  ASSUME IInv, NEW r \in Reqs
  PROVE  /\ \A p \in Places(r) :
              \/ InDown(r) /\ \E i \in 1..Len(down) : down[i] \in RequestOf(r) /\ p = <<"down", i>>
              \/ InUp(r) /\ \E i \in 1..Len(up) : up[i] \in AnswersOf(r) /\ p = <<"up", i>>
              \/ AtAgent(r) /\ p = <<"agent", serving[r].gen>>
         /\ InDown(r) \/ InUp(r) \/ AtAgent(r) => Places(r) # {}
<1>1. up \in Seq(UpMsgs) /\ serving[r] \in {NoCall} \cup Served
  BY DEF IInv, TypeOK, WireOK, AgentOK, UpMsgs
<1>2. \A i \in 1..Len(up) : up[i] \in UpMsgs
  BY <1>1
<1>3. \A i \in 1..Len(up) : up[i].type # "tools" /\ up[i].id = r <=> up[i] \in AnswersOf(r)
  BY <1>2, UpKinds
<1>4. AtAgent(r) <=> serving[r].gen # 0
  BY <1>1 DEF AtAgent, NoCall, Served
<1>5. \A i \in 1..Len(down) : down[i] \in RequestOf(r) <=> down[i] = Request(r)
  BY DEF RequestOf
<1>6. InDown(r) <=> \E i \in 1..Len(down) : down[i] \in RequestOf(r)
  BY DEF InDown, Free
<1>7. InUp(r) <=> \E i \in 1..Len(up) : up[i] \in AnswersOf(r)
  BY DEF InUp, Free
<1>8. \A p : p \in Places(r) <=>
        \/ \E i \in 1..Len(down) : down[i] = Request(r) /\ p = <<"down", i>>
        \/ \E i \in 1..Len(up) : up[i].type # "tools" /\ up[i].id = r /\ p = <<"up", i>>
        \/ serving[r].gen # 0 /\ p = <<"agent", serving[r].gen>>
  BY Zenon DEF Places
<1>9. \A p \in Places(r) :
        \/ InDown(r) /\ \E i \in 1..Len(down) : down[i] \in RequestOf(r) /\ p = <<"down", i>>
        \/ InUp(r) /\ \E i \in 1..Len(up) : up[i] \in AnswersOf(r) /\ p = <<"up", i>>
        \/ AtAgent(r) /\ p = <<"agent", serving[r].gen>>
  BY <1>3, <1>4, <1>5, <1>6, <1>7, <1>8
<1>10. InDown(r) \/ InUp(r) \/ AtAgent(r) => \E p : p \in Places(r)
  BY <1>3, <1>4, <1>5, <1>6, <1>7, <1>8
<1> QED
  BY <1>9, <1>10

\* No call is in two places, and one that waits on a connection that works is in
\* one, however requests, answers, restarts and losses interleave.
THEOREM NoCallEverLost == Spec => []NoCallLost
<1>1. ASSUME IInv PROVE NoCallLost
  <2>1. ASSUME NEW r \in Reqs, NEW p \in Places(r), NEW q \in Places(r) PROVE p = q
    <3>1. CallInv(r)
      BY <1>1 DEF IInv
    <3>2. CASE InDown(r)
      <4>1. ~InUp(r) /\ ~AtAgent(r) /\ Once(down, RequestOf(r))
        BY <3>1, <3>2 DEF CallInv
      <4>2. PICK i \in 1..Len(down) : down[i] \in RequestOf(r) /\ p = <<"down", i>>
        BY <1>1, <2>1, <4>1, PlacesOf
      <4>3. PICK j \in 1..Len(down) : down[j] \in RequestOf(r) /\ q = <<"down", j>>
        BY <1>1, <2>1, <4>1, PlacesOf
      <4> QED
        BY <4>1, <4>2, <4>3 DEF Once
    <3>3. CASE InUp(r)
      <4>1. ~InDown(r) /\ ~AtAgent(r) /\ Once(up, AnswersOf(r))
        BY <3>1, <3>3 DEF CallInv
      <4>2. PICK i \in 1..Len(up) : up[i] \in AnswersOf(r) /\ p = <<"up", i>>
        BY <1>1, <2>1, <4>1, PlacesOf
      <4>3. PICK j \in 1..Len(up) : up[j] \in AnswersOf(r) /\ q = <<"up", j>>
        BY <1>1, <2>1, <4>1, PlacesOf
      <4> QED
        BY <4>1, <4>2, <4>3 DEF Once
    <3>4. CASE ~InDown(r) /\ ~InUp(r)
      BY <1>1, <2>1, <3>4, PlacesOf
    <3> QED
      BY <3>2, <3>3, <3>4
  <2>2. ASSUME NEW r \in Reqs, linked, via[r] = epoch, calls[r] = "waiting" PROVE Places(r) # {}
    <3>1. InDown(r) \/ InUp(r) \/ AtAgent(r)
      BY <1>1, <2>2 DEF IInv, CallInv
    <3> QED
      BY <1>1, <3>1, PlacesOf
  <2> QED
    BY <2>1, <2>2 DEF NoCallLost
<1> QED
  BY <1>1, Invariance, PTL

\* What the agent makes of a request it receives.
LEMMA RequestTaken ==
  ASSUME IInv, NEW r \in Reqs, ReceiveRequest(r)
  PROVE  /\ asked[r] \in Tools
         /\ serving'[r] = IF Named(r).server \in servers.keys
                            THEN [gen |-> servers.gen, tool |-> Named(r)]
                            ELSE NoCall
<1>1. down \in Seq(Requests) /\ down # <<>> /\ down' = Tail(down) /\ Head(down) = Request(r)
  BY DEF ReceiveRequest, IInv, TypeOK, WireOK
<1>2. InDown(r)
  BY <1>1, DownTaken, DownMsgs
<1>3. asked[r] \in Tools /\ serving[r] = NoCall
  BY <1>2 DEF IInv, CallInv, AtAgent
<1>4. PICK tool : tool = Named(r)
  OBVIOUS
<1>5. PICK call : call = [gen |-> servers.gen, tool |-> tool]
  OBVIOUS
<1>6. serving' = IF tool.server \in servers.keys THEN [serving EXCEPT ![r] = call] ELSE serving
  BY <1>4, <1>5 DEF ReceiveRequest
<1>7. r \in DOMAIN serving
  BY DEF IInv, TypeOK, AgentOK
<1> QED
  BY <1>3, <1>4, <1>5, <1>6, <1>7

\* If the key of the server is found again in a name, a request reaches the server
\* of the tool that was asked for, under the tool's own name, if that server runs,
\* and no server if not, whatever the keys of the others.
THEOREM CallsRouted == Spec => RoutedToOwner
<1>1. ASSUME IInv, NEW r \in Reqs, ReceiveRequest(r), Findable(asked[r].server)
      PROVE  Routed(r)
  <2>1. asked[r] \in Tools
    BY <1>1, RequestTaken
  <2>2. Named(r) = asked[r]
    BY <1>1, <2>1, NamedAsked
  <2> QED
    BY <1>1, <2>2, RequestTaken DEF Routed
<1>2. IInv /\ [Next]_vars =>
        [\A r \in Reqs : ReceiveRequest(r) /\ Findable(asked[r].server) => Routed(r)]_vars
  BY <1>1
<1> QED
  BY <1>2, Invariance, PTL DEF Spec, RoutedToOwner

\* And under no other key: such a tool is listed, and no call of it ever reaches it.
THEOREM OtherKeysNeverReached ==
  Spec => [][\A r \in Reqs : ReceiveRequest(r) /\ ~Findable(asked[r].server) =>
                               serving'[r].tool # asked[r]]_vars
<1>1. ASSUME IInv, NEW r \in Reqs, ReceiveRequest(r), ~Findable(asked[r].server)
      PROVE  serving'[r].tool # asked[r]
  <2>1. asked[r] \in Tools
    BY <1>1, RequestTaken
  <2>2. PICK key, name : key = asked[r].server /\ name = asked[r].name
    OBVIOUS
  <2>3. Underscore \in Chars /\ key \in Seq(Chars) /\ name \in Seq(Chars)
    BY <2>1, <2>2, ToolsAreStrings
  <2>4. ServerOf(Joined(key, name)) # key
    BY <1>1, <2>2, <2>3, FindableExactly
  <2>5. Named(r).server # key
    BY <2>2, <2>4 DEF Named
  <2>6. serving'[r].tool \in {Named(r), NoTool}
    <3>1. PICK tool, call : tool = Named(r) /\ call = serving'[r]
      OBVIOUS
    <3>2. call = [gen |-> servers.gen, tool |-> tool] \/ call = [gen |-> 0, tool |-> NoTool]
      BY <1>1, <3>1, RequestTaken DEF NoCall
    <3>3. call.tool \in {tool, NoTool}
      BY <3>2
    <3> QED
      BY <3>1, <3>3
  <2>7. NoTool # asked[r]
    BY <2>1, TunnelAssumption DEF TunnelAssumption
  <2> QED
    BY <2>2, <2>5, <2>6, <2>7
<1>2. IInv /\ [Next]_vars =>
        [\A r \in Reqs : ReceiveRequest(r) /\ ~Findable(asked[r].server) =>
                           serving'[r].tool # asked[r]]_vars
  BY <1>1
<1> QED
  BY <1>2, Invariance, PTL DEF Spec

-----------------------------------------------------------------------------
(* Tunnel implements ToolCall. *)

\* The calls at work are those that are somewhere.
LEMMA PlacesHeld == IInv => \A r \in Reqs : Places(r) # {} <=> Held(r)
BY PlacesOf DEF Held

LEMMA InitRefines == Init => TC!Init
<1> SUFFICES ASSUME Init PROVE TC!Init
  OBVIOUS
<1>1. IInv
  BY InitIInv
<1>2. \A r \in Reqs : ~Held(r)
  BY <1>1 DEF Held, IInv, CallInv, Init
<1>3. \A r \in Reqs : Places(r) = {}
  BY <1>1, <1>2, PlacesHeld
<1>4. \A r \in Reqs : Phase(r) = "idle"
  BY DEF Init, Phase
<1> QED
  BY <1>3, <1>4 DEF TC!Init

LEMMA StepRefines == IInv /\ IInv' /\ [Next]_vars => [TC!Next]_(TC!vars)
<1> SUFFICES ASSUME IInv, IInv', [Next]_vars PROVE TC!Next \/ UNCHANGED TC!vars
  OBVIOUS
<1> DEFINE phase == [r \in Reqs |-> Phase(r)]
           work == {r \in Reqs : Places(r) # {}}
<1>1. work = {r \in Reqs : Held(r)}
  BY PlacesHeld
<1>2. work' = {r \in Reqs : Held(r)'}
  <2>1. (\A r \in Reqs : Places(r) # {} <=> Held(r))'
    BY PlacesHeld, PTL
  <2> QED
    BY <2>1
<1>3. Kept => work' = work
  BY <1>1, <1>2 DEF Kept
<1>4. UNCHANGED calls => phase' = phase
  BY DEF Phase
<1>5. /\ calls \in [Reqs -> {"idle", "waiting", "response", "error", "timeout", "unknown"}]
      /\ \A r \in Reqs : phase[r] = Phase(r)
  BY DEF IInv, TypeOK, RelayOK
<1>6. ASSUME NEW r \in Reqs, NEW outcome \in {"idle", "waiting", "response", "error", "timeout", "unknown"},
             calls' = [calls EXCEPT ![r] = outcome]
      PROVE  phase' = [phase EXCEPT ![r] = CASE outcome \in {"idle", "waiting"} -> outcome
                                             [] outcome \in {"response", "error"} -> "answered"
                                             [] outcome = "timeout" -> "expired"
                                             [] OTHER -> "refused"]
  BY <1>5, <1>6 DEF Phase
<1> HIDE DEF phase, work
<1>7. ASSUME UNCHANGED calls, Kept PROVE UNCHANGED TC!vars
  BY <1>3, <1>4, <1>7 DEF TC!vars, phase, work
<1>8. ASSUME NEW r \in Reqs, NEW tool \in Tools, CallTool(r, tool) PROVE TC!Accept(r)
  <2>1. calls[r] = "idle" /\ calls' = [calls EXCEPT ![r] = "waiting"]
    BY <1>8 DEF CallTool
  <2>2. ~Held(r) /\ \A q \in Reqs \ {r} : Held(q)' <=> Held(q)
    BY <1>8, StepCallTool
  <2>3. phase[r] = "idle" /\ phase' = [phase EXCEPT ![r] = "waiting"]
    BY <1>5, <1>6, <2>1 DEF Phase
  <2>4. work' \in {work, work \cup {r}}
    BY <1>1, <1>2, <2>2
  <2> QED
    BY <2>3, <2>4 DEF TC!Accept, phase, work
<1>9. ASSUME NEW r \in Reqs, NEW tool \in Tools, CallUnknownTool(r, tool) PROVE TC!Refuse(r)
  <2>1. calls[r] = "idle" /\ calls' = [calls EXCEPT ![r] = "unknown"]
    BY <1>9 DEF CallUnknownTool
  <2>2. phase[r] = "idle" /\ phase' = [phase EXCEPT ![r] = "refused"]
    BY <1>5, <1>6, <2>1 DEF Phase
  <2>3. work' = work
    BY <1>3, <1>9, StepCallUnknownTool
  <2> QED
    BY <2>2, <2>3 DEF TC!Refuse, phase, work
<1>10. ASSUME NEW r \in Reqs, RequestTimeout(r) PROVE TC!Expire(r)
  <2>1. calls[r] = "waiting" /\ calls' = [calls EXCEPT ![r] = "timeout"]
    BY <1>10 DEF RequestTimeout
  <2>2. phase[r] = "waiting" /\ phase' = [phase EXCEPT ![r] = "expired"]
    BY <1>5, <1>6, <2>1 DEF Phase
  <2>3. work' = work
    BY <1>3, <1>10, StepRequestTimeout
  <2> QED
    BY <2>2, <2>3 DEF TC!Expire, phase, work
<1>11. ASSUME ReceiveAnswer PROVE \E r \in Reqs : TC!Answer(r)
  <2>1. PICK r \in Reqs, outcome \in {"response", "error"} :
          /\ calls' = IF calls[r] = "waiting" THEN [calls EXCEPT ![r] = outcome] ELSE calls
          /\ Held(r) /\ ~Held(r)' /\ \A q \in Reqs \ {r} : Held(q)' <=> Held(q)
    BY <1>11, StepReceiveAnswer
  <2>2. r \in work /\ work' = work \ {r}
    BY <1>1, <1>2, <2>1
  <2>3. phase' = IF phase[r] = "waiting" THEN [phase EXCEPT ![r] = "answered"] ELSE phase
    <3>1. CASE calls[r] = "waiting"
      BY <1>5, <1>6, <2>1, <3>1 DEF Phase
    <3>2. CASE calls[r] # "waiting"
      BY <1>4, <1>5, <2>1, <3>2 DEF Phase
    <3> QED
      BY <3>1, <3>2
  <2> QED
    BY <2>2, <2>3 DEF TC!Answer, phase, work
<1>12. ASSUME Lose PROVE TC!Lose
  <2>1. work' = {} /\ phase' = phase
    BY <1>2, <1>4, <1>12, StepLose DEF Lose, relayVars
  <2> QED
    BY <2>1 DEF TC!Lose, phase, work
<1>13. ASSUME NEW r \in Reqs, Settles(r) PROVE UNCHANGED TC!vars
  BY <1>7, <1>13, StepCallSettles DEF Settles, CallSettles, relayVars
<1>14. ASSUME NEW h \in Restarts, CallRestart(h) \/ RestartGoesOn(h) PROVE UNCHANGED TC!vars
  <2>1. Kept
    BY <1>14, StepCallRestart, StepRestartSpawns, StepRestartSpawned, StepRestartListed
       DEF RestartGoesOn
  <2>2. UNCHANGED calls
    BY <1>14 DEF CallRestart, RestartGoesOn, RestartSpawns, RestartSpawned, RestartListed, relayVars
  <2> QED
    BY <1>7, <2>1, <2>2
<1>15. ASSUME ReceiveTools \/ RemoveConnection PROVE UNCHANGED TC!vars
  BY <1>7, <1>15, StepReceiveTools, StepRemoveConnection DEF ReceiveTools, RemoveConnection
<1>16. ASSUME AgentReceives PROVE UNCHANGED TC!vars
  <2>1. Kept
    BY <1>16, StepReceiveRequest, StepReceiveRestart DEF AgentReceives
  <2>2. UNCHANGED calls
    BY <1>16 DEF AgentReceives, ReceiveRequest, ReceiveRestart, relayVars
  <2> QED
    BY <1>7, <2>1, <2>2
<1>17. ASSUME NEW keys \in SUBSET Keys, NEW ts \in SUBSET Tools, Connect(keys, ts)
       PROVE  UNCHANGED TC!vars
  BY <1>7, <1>17, StepConnect DEF Connect
<1>18. ASSUME UNCHANGED vars PROVE UNCHANGED TC!vars
  BY <1>7, <1>18, StepStutter DEF vars, relayVars
<1>19. ASSUME NEW r \in Reqs, TC!Accept(r) \/ TC!Refuse(r) \/ TC!Answer(r) \/ TC!Expire(r)
       PROVE  TC!Next
  BY <1>19 DEF TC!Next
<1>20. TC!Lose => TC!Next
  BY DEF TC!Next
<1> QED
  BY <1>8, <1>9, <1>10, <1>11, <1>12, <1>13, <1>14, <1>15, <1>16, <1>17, <1>18, <1>19, <1>20
     DEF Next, RelayReceives

\* Every tools/call is refused at once or handed to one agent at most, and gets one
\* outcome, through restarts of the servers and losses of the connection.
THEOREM TunnelImplementsToolCall == Spec => TC!Init /\ [][TC!Next]_(TC!vars)
BY InitRefines, StepRefines, Invariance, PTL DEF Spec

\* Of ToolCall, and so of relay and agent, on every connection they have: a call that has an outcome keeps it, a
\* call is handed out once, and only an agent that holds it can answer it.
THEOREM CallsHandedOnce == Spec => TC!HandedOnce
<1>1. [TC!Next]_(TC!vars) => [\A r \in Reqs : TC!Once(r)]_(TC!vars)
  <2> SUFFICES ASSUME TC!Next, NEW r \in Reqs PROVE TC!Once(r)
    OBVIOUS
  <2>1. CASE TC!Lose
    BY <2>1 DEF TC!Lose, TC!Once
  <2>2. ASSUME NEW q \in Reqs, TC!Refuse(q) PROVE TC!Once(r)
    BY <2>2 DEF TC!Refuse, TC!Once
  <2>3. ASSUME NEW q \in Reqs, TC!Accept(q) PROVE TC!Once(r)
    BY <2>3 DEF TC!Accept, TC!Once
  <2>4. ASSUME NEW q \in Reqs, TC!Answer(q) PROVE TC!Once(r)
    BY <2>4 DEF TC!Answer, TC!Once
  <2>5. ASSUME NEW q \in Reqs, TC!Expire(q) PROVE TC!Once(r)
    BY <2>5 DEF TC!Expire, TC!Once
  <2> QED
    BY <2>1, <2>2, <2>3, <2>4, <2>5 DEF TC!Next
<1> QED
  BY <1>1, TunnelImplementsToolCall, PTL DEF TC!HandedOnce

-----------------------------------------------------------------------------
(* The tools the relay lists. *)

\* What a message of tools says is what these servers offer.
Good(ts, g, srv) == g = srv.gen /\ ts \subseteq Offered(srv.keys)

NoTools(s) == \A i \in 1..Len(s) : s[i].type # "tools"

\* The last message of tools in a sequence is of these servers.
LastGood(s, srv) ==
  \A i \in 1..Len(s) :
    s[i].type = "tools" /\ (\A j \in 1..Len(s) : s[j].type = "tools" => j <= i)
      => Good(s[i].tools, s[i].gen, srv)

\* Without overlaps one restart is at work at most; what it lists are the servers
\* of the moment; and while none is, they are what the relay hears of last.
ToolsInv ==
  /\ linked => relay = epoch
  /\ calm => \A g, h \in Restarts : Restarting(g) /\ Restarting(h) => g = h
  /\ calm => \A h \in Restarts : restarts[h].at = "listing" => restarts[h].servers = servers
  /\ calm /\ linked /\ (\A h \in Restarts : ~Restarting(h)) =>
       LastGood(up, servers) /\ (NoTools(up) => Good(tools, toolsGen, servers))

LEMMA LastAppended ==
  ASSUME NEW M, NEW s \in Seq(M), NEW m \in M, NEW t, t = Append(s, m), NEW srv
  PROVE  /\ m.type = "tools" /\ Good(m.tools, m.gen, srv) => LastGood(t, srv) /\ ~NoTools(t)
         /\ m.type # "tools" => /\ LastGood(s, srv) => LastGood(t, srv)
                                /\ NoTools(t) => NoTools(s)
<1>1. /\ Len(s) \in Nat /\ Len(t) = Len(s) + 1 /\ t[Len(s) + 1] = m
      /\ \A i \in 1..Len(s) : t[i] = s[i] /\ i \in 1..Len(t)
      /\ Len(s) + 1 \in 1..Len(t)
  BY AppendProperties, LenProperties
<1>2. \A i \in 1..Len(t) : i \in 1..Len(s) \/ i = Len(s) + 1
  BY <1>1
<1>3. \A i \in 1..Len(s) : ~(Len(s) + 1 <= i)
  BY <1>1
<1>4. ASSUME m.type = "tools", Good(m.tools, m.gen, srv) PROVE LastGood(t, srv) /\ ~NoTools(t)
  <2>1. ~NoTools(t)
    BY <1>1, <1>4 DEF NoTools
  <2>2. ASSUME NEW i \in 1..Len(t), \A j \in 1..Len(t) : t[j].type = "tools" => j <= i
        PROVE  i = Len(s) + 1
    BY <1>1, <1>2, <1>3, <1>4, <2>2
  <2> QED
    BY <1>1, <1>4, <2>1, <2>2 DEF LastGood
<1>5. ASSUME m.type # "tools", LastGood(s, srv) PROVE LastGood(t, srv)
  <2> SUFFICES ASSUME NEW i \in 1..Len(t), t[i].type = "tools",
                      \A j \in 1..Len(t) : t[j].type = "tools" => j <= i
               PROVE  Good(t[i].tools, t[i].gen, srv)
    BY DEF LastGood
  <2>1. i \in 1..Len(s) /\ t[i] = s[i]
    BY <1>1, <1>2, <1>5
  <2>2. \A j \in 1..Len(s) : s[j].type = "tools" => j <= i
    BY <1>1
  <2> QED
    BY <1>5, <2>1, <2>2 DEF LastGood
<1>6. m.type # "tools" /\ NoTools(t) => NoTools(s)
  BY <1>1 DEF NoTools
<1> QED
  BY <1>4, <1>5, <1>6

LEMMA LastTaken ==
  ASSUME NEW M, NEW s \in Seq(M), s # <<>>, NEW t, t = Tail(s), NEW srv, LastGood(s, srv)
  PROVE  /\ LastGood(t, srv)
         /\ NoTools(t) /\ Head(s).type = "tools" => Good(Head(s).tools, Head(s).gen, srv)
         /\ NoTools(t) /\ Head(s).type # "tools" => NoTools(s)
<1>1. /\ Head(s) = s[1] /\ Len(s) \in Nat /\ Len(s) > 0
      /\ Len(t) = Len(s) - 1 /\ \A i \in 1..Len(t) : t[i] = s[i + 1]
  BY HeadTailProperties, LenProperties, EmptySeq
<1>2. /\ \A i \in 1..Len(t) : i + 1 \in 1..Len(s)
      /\ \A i \in 1..Len(s) : i = 1 \/ (i - 1 \in 1..Len(t) /\ (i - 1) + 1 = i)
      /\ 1 \in 1..Len(s)
  BY <1>1
<1>3. LastGood(t, srv)
  <2> SUFFICES ASSUME NEW i \in 1..Len(t), t[i].type = "tools",
                      \A j \in 1..Len(t) : t[j].type = "tools" => j <= i
               PROVE  Good(t[i].tools, t[i].gen, srv)
    BY DEF LastGood
  <2>1. i + 1 \in 1..Len(s) /\ s[i + 1] = t[i] /\ i \in Nat /\ i >= 1
    BY <1>1, <1>2
  <2>2. ASSUME NEW j \in 1..Len(s), s[j].type = "tools" PROVE j <= i + 1
    <3>1. CASE j = 1
      BY <2>1, <3>1
    <3>2. CASE j # 1
      <4>1. j - 1 \in 1..Len(t) /\ t[j - 1] = s[j]
        BY <1>1, <1>2, <2>2, <3>2
      <4>2. j - 1 <= i
        BY <2>2, <4>1
      <4> QED
        BY <2>1, <4>2
    <3> QED
      BY <3>1, <3>2
  <2> QED
    BY <2>1, <2>2 DEF LastGood
<1>4. ASSUME NoTools(t), Head(s).type = "tools" PROVE Good(Head(s).tools, Head(s).gen, srv)
  <2>1. \A j \in 1..Len(s) : s[j].type = "tools" => j <= 1
    BY <1>1, <1>2, <1>4 DEF NoTools
  <2> QED
    BY <1>1, <1>2, <1>4, <2>1 DEF LastGood
<1>5. ASSUME NoTools(t), Head(s).type # "tools" PROVE NoTools(s)
  <2> SUFFICES ASSUME NEW i \in 1..Len(s) PROVE s[i].type # "tools"
    BY DEF NoTools
  <2>1. CASE i = 1
    BY <1>1, <1>5, <2>1
  <2>2. CASE i # 1
    <3>1. i - 1 \in 1..Len(t) /\ t[i - 1] = s[i]
      BY <1>1, <1>2, <2>2
    <3> QED
      BY <1>5, <3>1 DEF NoTools
  <2> QED
    BY <2>1, <2>2
<1> QED
  BY <1>3, <1>4, <1>5

LEMMA ToolsFrame ==
  ToolsInv /\ UNCHANGED <<linked, relay, epoch, calm, restarts, servers, up, tools, toolsGen>>
    => ToolsInv'
BY DEF ToolsInv, Restarting

LEMMA InitTools == Init => ToolsInv
<1> SUFFICES ASSUME Init PROVE ToolsInv
  OBVIOUS
<1>1. PICK ts \in SUBSET Offered(servers.keys) : up = <<ToolsMsg(ts, 1)>>
  BY DEF Init
<1>2. PICK m : m = ToolsMsg(ts, 1)
  OBVIOUS
<1>3. m.type = "tools" /\ m.tools = ts /\ m.gen = 1 /\ servers.gen = 1
  BY <1>2 DEF ToolsMsg, Init
<1>4. Len(up) = 1 /\ up[1] = m
  BY <1>1, <1>2
<1>5. LastGood(up, servers) /\ ~NoTools(up)
  BY <1>3, <1>4 DEF LastGood, NoTools, Good
<1> QED
  BY <1>5 DEF Init, ToolsInv, Restarting

\* An answer on its way to the relay.
LEMMA ToolsAnswered ==
  ASSUME IInv, ToolsInv, NEW r \in Reqs, NEW outcome \in {"response", "error"},
         up' = Append(up, Answer(r, outcome)),
         UNCHANGED <<linked, relay, epoch, calm, restarts, servers, tools, toolsGen>>
  PROVE  ToolsInv'
<1>1. PICK m : m = Answer(r, outcome)
  OBVIOUS
<1>2. /\ up \in Seq(UpMsgs) /\ m \in UpMsgs /\ m.type # "tools" /\ up' = Append(up, m)
  BY <1>1, AnswerMsgs DEF Answer, IInv, TypeOK, WireOK, UpMsgs
<1>3. /\ LastGood(up, servers) => LastGood(up', servers)
      /\ NoTools(up') => NoTools(up)
  BY <1>2, LastAppended
<1>4. \A h \in Restarts : Restarting(h)' <=> Restarting(h)
  BY DEF Restarting
<1> QED
  BY <1>3, <1>4 DEF ToolsInv

LEMMA ToolsReceived ==
  ASSUME IInv, ToolsInv, RelayReceives
  PROVE  ToolsInv'
<1>1. /\ up \in Seq(UpMsgs) /\ up # <<>> /\ up' = Tail(up)
      /\ UNCHANGED <<linked, relay, epoch, calm, restarts, servers>>
      /\ \/ Head(up).type = "tools" /\ tools' = Head(up).tools /\ toolsGen' = Head(up).gen
         \/ Head(up).type # "tools" /\ UNCHANGED <<tools, toolsGen>>
  BY DEF RelayReceives, ReceiveTools, ReceiveAnswer, agentVars, IInv, TypeOK, WireOK, UpMsgs
<1>2. \A h \in Restarts : Restarting(h)' <=> Restarting(h)
  BY <1>1 DEF Restarting
<1>3. ASSUME calm, linked, \A h \in Restarts : ~Restarting(h)
      PROVE  LastGood(up', servers') /\ (NoTools(up') => Good(tools', toolsGen', servers'))
  <2>1. LastGood(up, servers) /\ (NoTools(up) => Good(tools, toolsGen, servers))
    BY <1>3 DEF ToolsInv
  <2>2. /\ LastGood(up', servers)
        /\ NoTools(up') /\ Head(up).type = "tools" => Good(Head(up).tools, Head(up).gen, servers)
        /\ NoTools(up') /\ Head(up).type # "tools" => NoTools(up)
    BY <1>1, <2>1, LastTaken
  <2> QED
    BY <1>1, <2>1, <2>2
<1> QED
  BY <1>1, <1>2, <1>3 DEF ToolsInv

LEMMA ToolsAgentReceives ==
  ASSUME IInv, ToolsInv, AgentReceives
  PROVE  ToolsInv'
<1>1. ASSUME NEW r \in Reqs, ReceiveRequest(r) PROVE ToolsInv'
  <2>1. UNCHANGED <<linked, relay, epoch, calm, restarts, servers, tools, toolsGen>>
        /\ (up' = up \/ up' = Append(up, Answer(r, "error")))
    BY <1>1 DEF ReceiveRequest, Reply, relayVars
  <2> QED
    BY <2>1, ToolsAnswered, ToolsFrame
<1>2. ASSUME NEW h \in Restarts, ReceiveRestart(h) PROVE ToolsInv'
  <2>1. PICK new : new = [at |-> "closing", servers |-> servers]
    OBVIOUS
  <2>2. /\ restarts' = [restarts EXCEPT ![h] = new] /\ new.at = "closing"
        /\ calm' = (calm /\ \A g \in Restarts : ~Restarting(g))
        /\ UNCHANGED <<linked, relay, epoch>>
    BY <1>2, <2>1 DEF ReceiveRestart, relayVars
  <2>3. /\ Restarting(h)' /\ restarts'[h].at # "listing"
        /\ \A g \in Restarts \ {h} : restarts'[g] = restarts[g] /\ (Restarting(g)' <=> Restarting(g))
    BY <2>2 DEF Restarting, IInv, TypeOK, AgentOK
  <2>4. \A g \in Restarts : restarts[g].at = "listing" => Restarting(g)
    BY DEF Restarting
  <2> QED
    BY <2>2, <2>3, <2>4 DEF ToolsInv
<1> QED
  BY <1>1, <1>2 DEF AgentReceives

LEMMA ToolsRestarts ==
  ASSUME IInv, IInv', ToolsInv, NEW h \in Restarts, CallRestart(h) \/ RestartGoesOn(h)
  PROVE  ToolsInv'
<1>1. CASE CallRestart(h)
  <2>1. PICK at \in {"sent", "done"} : restarts' = [restarts EXCEPT ![h].at = at]
    BY <1>1 DEF CallRestart
  <2>2. restarts[h].at = "none"
        /\ UNCHANGED <<linked, relay, epoch, calm, servers, up, tools, toolsGen>>
    BY <1>1 DEF CallRestart, relayVars
  <2>3. /\ \A g \in Restarts : Restarting(g)' <=> Restarting(g)
        /\ \A g \in Restarts : restarts'[g].at = "listing" => restarts'[g] = restarts[g]
    BY <2>1, <2>2 DEF Restarting, IInv, TypeOK, AgentOK
  <2> QED
    BY <2>2, <2>3 DEF ToolsInv
<1>2. ASSUME NEW keys \in SUBSET Keys, RestartSpawns(h, keys) PROVE ToolsInv'
  <2>1. PICK new : new = [at |-> "spawning", servers |-> [gen |-> spawned + 1, keys |-> keys]]
    OBVIOUS
  <2>2. /\ restarts' = [restarts EXCEPT ![h] = new] /\ new.at = "spawning" /\ Restarting(h)
        /\ UNCHANGED <<linked, relay, epoch, calm, servers>>
    BY <1>2, <2>1 DEF RestartSpawns, Restarting, relayVars, wire
  <2>3. /\ Restarting(h)' /\ restarts'[h].at # "listing"
        /\ \A g \in Restarts \ {h} : restarts'[g] = restarts[g] /\ (Restarting(g)' <=> Restarting(g))
    BY <2>2 DEF Restarting, IInv, TypeOK, AgentOK
  <2> QED
    BY <2>2, <2>3 DEF ToolsInv
<1>3. CASE RestartSpawned(h)
  <2>1. /\ restarts' = [restarts EXCEPT ![h].at = "listing"] /\ servers' = restarts[h].servers
        /\ Restarting(h) /\ UNCHANGED <<linked, relay, epoch, calm>>
    BY <1>3 DEF RestartSpawned, Restarting, relayVars, wire
  <2>2. /\ Restarting(h)' /\ restarts'[h].servers = servers'
        /\ \A g \in Restarts \ {h} : restarts'[g] = restarts[g] /\ (Restarting(g)' <=> Restarting(g))
    BY <2>1 DEF Restarting, IInv, TypeOK, AgentOK
  <2>3. \A g \in Restarts : restarts[g].at = "listing" => Restarting(g)
    BY DEF Restarting
  <2> QED
    BY <2>1, <2>2, <2>3 DEF ToolsInv
<1>4. ASSUME NEW ts \in SUBSET Tools, RestartListed(h, ts) PROVE ToolsInv'
  <2>1. PICK done : done = [at |-> "done", servers |-> NoServers]
    OBVIOUS
  <2>2. PICK m : m = ToolsMsg(ts, restarts[h].servers.gen)
    OBVIOUS
  <2>3. /\ restarts[h].at = "listing" /\ restarts' = [restarts EXCEPT ![h] = done]
        /\ done.at = "done" /\ up' = Append(up, m)
        /\ m.type = "tools" /\ m.tools = ts /\ m.gen = restarts[h].servers.gen
        /\ ts \subseteq Offered(restarts[h].servers.keys)
        /\ UNCHANGED <<linked, relay, epoch, calm, servers>>
    BY <1>4, <2>1, <2>2 DEF RestartListed, Reply, ToolsMsg, relayVars
  <2>4. up \in Seq(UpMsgs) /\ m \in UpMsgs
    <3>1. restarts[h].servers.gen \in Nat
      BY DEF IInv, TypeOK, AgentOK
    <3> QED
      BY <2>2, <3>1, ToolsMsgsUp DEF IInv, TypeOK, WireOK, UpMsgs
  <2>5. /\ ~Restarting(h)' /\ restarts'[h].at # "listing"
        /\ \A g \in Restarts \ {h} : restarts'[g] = restarts[g] /\ (Restarting(g)' <=> Restarting(g))
    BY <2>3 DEF Restarting, IInv, TypeOK, AgentOK
  <2>6. calm => LastGood(up', servers') /\ ~NoTools(up')
    <3>1. calm => Good(m.tools, m.gen, servers)
      BY <2>3 DEF ToolsInv, Good
    <3> QED
      BY <2>3, <2>4, <3>1, LastAppended
  <2> QED
    BY <2>3, <2>5, <2>6 DEF ToolsInv
<1> QED
  BY <1>1, <1>2, <1>3, <1>4 DEF RestartGoesOn

LEMMA ToolsConnection ==
  ASSUME IInv, IInv', ToolsInv,
         \/ RemoveConnection \/ Lose
         \/ \E keys \in SUBSET Keys, ts \in SUBSET Tools : Connect(keys, ts)
  PROVE  ToolsInv'
<1>1. CASE RemoveConnection
  <2>1. /\ ~linked /\ UNCHANGED <<linked, epoch, calm, restarts, servers>>
    BY <1>1 DEF RemoveConnection, Joint, wire, agentVars, ToolsInv
  <2> QED
    BY <2>1 DEF ToolsInv, Restarting
<1>2. CASE Lose
  <2>1. PICK done : done = [at |-> "done", servers |-> NoServers]
    OBVIOUS
  <2>2. /\ linked' = FALSE
        /\ restarts' = [h \in Restarts |-> IF restarts[h].at = "none" THEN restarts[h] ELSE done]
    BY <1>2, <2>1 DEF Lose
  <2>3. \A h \in Restarts : ~Restarting(h)' /\ restarts'[h].at # "listing"
    BY <2>1, <2>2 DEF Restarting
  <2> QED
    BY <2>2, <2>3 DEF ToolsInv
<1>3. ASSUME NEW keys \in SUBSET Keys, NEW ts \in SUBSET Tools, Connect(keys, ts)
      PROVE  ToolsInv'
  <2>1. PICK m : m = ToolsMsg(ts, spawned + 1)
    OBVIOUS
  <2>2. /\ ~linked /\ relay' = epoch' /\ restarts' = restarts
        /\ servers' = [gen |-> spawned + 1, keys |-> keys]
        /\ ts \subseteq Offered(keys) /\ up' = Append(up, m)
        /\ m.type = "tools" /\ m.tools = ts /\ m.gen = spawned + 1
    BY <1>3, <2>1 DEF Connect, Reply, ToolsMsg
  <2>3. \A h \in Restarts : ~Restarting(h)' /\ restarts'[h].at # "listing"
    BY <2>2 DEF IInv, AgentInv, Restarting
  <2>4. up \in Seq(UpMsgs) /\ m \in UpMsgs
    <3>1. spawned + 1 \in Nat
      BY DEF IInv, TypeOK, AgentOK
    <3> QED
      BY <2>1, <3>1, ToolsMsgsUp DEF IInv, TypeOK, WireOK, UpMsgs
  <2>5. Good(m.tools, m.gen, servers')
    BY <2>2 DEF Good
  <2>6. LastGood(up', servers') /\ ~NoTools(up')
    <3>1. PICK srv : srv = servers'
      OBVIOUS
    <3>2. up' = Append(up, m) /\ m.type = "tools" /\ Good(m.tools, m.gen, srv)
      BY <2>2, <2>5, <3>1
    <3>3. LastGood(up', srv) /\ ~NoTools(up')
      BY <2>4, <3>2, LastAppended
    <3> QED
      BY <3>1, <3>3
  <2> QED
    BY <2>2, <2>3, <2>6 DEF ToolsInv
<1> QED
  BY <1>1, <1>2, <1>3

LEMMA NextTools == IInv /\ IInv' /\ ToolsInv /\ [Next]_vars => ToolsInv'
<1> SUFFICES ASSUME IInv, IInv', ToolsInv, [Next]_vars PROVE ToolsInv'
  OBVIOUS
<1>1. ASSUME NEW r \in Reqs, NEW tool \in Tools, CallTool(r, tool) \/ CallUnknownTool(r, tool)
      PROVE  ToolsInv'
  BY <1>1, ToolsFrame DEF CallTool, CallUnknownTool, wire, agentVars
<1>2. ASSUME NEW r \in Reqs, RequestTimeout(r) PROVE ToolsInv'
  BY <1>2, ToolsFrame DEF RequestTimeout, wire, agentVars
<1>3. ASSUME NEW r \in Reqs, Settles(r) PROVE ToolsInv'
  <2>1. PICK outcome \in {"response", "error"} : CallSettles(r, outcome)
    BY <1>3 DEF Settles
  <2> QED
    BY <2>1, ToolsAnswered DEF CallSettles, Reply, relayVars
<1>4. ASSUME NEW h \in Restarts, CallRestart(h) \/ RestartGoesOn(h) PROVE ToolsInv'
  BY <1>4, ToolsRestarts
<1>5. CASE RelayReceives \/ AgentReceives
  BY <1>5, ToolsReceived, ToolsAgentReceives
<1>6. CASE RemoveConnection \/ Lose
  BY <1>6, ToolsConnection
<1>7. ASSUME NEW keys \in SUBSET Keys, NEW ts \in SUBSET Tools, Connect(keys, ts)
      PROVE  ToolsInv'
  BY <1>7, ToolsConnection
<1>8. CASE UNCHANGED vars
  BY <1>8, ToolsFrame DEF vars, relayVars, wire, agentVars
<1> QED
  BY <1>1, <1>2, <1>3, <1>4, <1>5, <1>6, <1>7, <1>8 DEF Next

\* Once restarts that did not overlap are done and the connection is quiet, the
\* relay lists what the agent's servers offer, and of no others.
THEOREM ToolsStayCurrent == Spec => []ToolsCurrent
<1>1. ToolsInv => ToolsCurrent
  BY DEF ToolsInv, ToolsCurrent, Quiet, Joint, NoTools, Good
<1> QED
  BY <1>1, InitTools, NextTools, Invariance, PTL DEF Spec

=============================================================================
