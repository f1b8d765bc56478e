---------------------------- MODULE SignInProofs ----------------------------
(***************************************************************************)
(* Theorems about SignIn, for any number of flows, moves and restarts, any *)
(* lists of URIs and any times.                                            *)
(***************************************************************************)
EXTENDS SignIn, TLAPS

-----------------------------------------------------------------------------
(* The inductive invariant: the place a flow uses, if the provider is not  *)
(* there any more, it left no longer ago than the flow's request started,  *)
(* or, with a cached document, than the document may have been old then.   *)

FlowCurrent(f) ==
  LET fl == flows[f] IN
  /\ fl.at \in Discovering \cup {"verifying"} /\ fl.ver \notin {0, upstream} => since <= fl.wait
  /\ fl.at = "exchanging" /\ fl.ver # upstream => since < DocTTL + Delay + fl.wait
  /\ fl.at = "verifying" => jwks # 0 /\ fl.ver # 0

IInv == TypeOK /\ DocFresh /\ \A f \in Flows : FlowCurrent(f)

Flow == [at : FlowStates, ver : Nat, wait : 0..Delay, left : Nat \cup {-1}, code : {"unused", "redeemed"}]

LEMMA Times ==
  /\ {DocTTL, PendingTTL, CodeTTL, Delay} \subseteq Nat \ {0}
  /\ MaxRestarts \in Nat /\ Long = DocTTL + 2 * Delay
BY SignInAssumption DEF Long

\* What a restart makes of a flow is a flow, and waits for nothing.
LEMMA InterruptedFlow ==
  ASSUME NEW fl \in Flow, NEW new \in Interrupted(fl)
  PROVE  /\ new \in Flow /\ new.at \notin Waiting
         /\ (new.at = fl.at) \/ (fl.at \in Waiting /\ new.at \in {"idle", "returning"})
<1>1. CASE fl.at \notin Waiting
  <2>1. new = fl
    BY <1>1 DEF Interrupted
  <2> QED
    BY <1>1, <2>1
<1>2. CASE fl.at = "discovering"
  <2>1. new = Idle
    BY <1>2 DEF Interrupted, Waiting, Discovering
  <2>2. Idle \in Flow /\ Idle.at = "idle" /\ fl.at \in Waiting
    BY <1>2, Times DEF Idle, Flow, FlowStates, Waiting, Discovering
  <2> QED
    BY <2>1, <2>2 DEF Waiting, Discovering
<1>3. CASE fl.at \in Waiting /\ fl.at # "discovering"
  <2>1. PICK c \in {"unused", "redeemed"} :
          new = [Idle EXCEPT !.at = "returning", !.left = fl.left, !.code = c]
    BY <1>3 DEF Interrupted, Flow
  <2>2. new = [at |-> "returning", ver |-> 0, wait |-> 0, left |-> fl.left, code |-> c]
    BY <2>1 DEF Idle
  <2>3. new \in Flow /\ new.at = "returning"
    BY <2>2, Times DEF Flow, FlowStates
  <2> QED
    BY <1>3, <2>3 DEF Waiting, Discovering
<1> QED
  BY <1>1, <1>2, <1>3

LEMMA InitIInv == Init => IInv
<1> SUFFICES ASSUME Init PROVE IInv
  OBVIOUS
<1>1. Idle \in Flow
  BY Times DEF Idle, Flow, FlowStates, Waiting, Discovering
<1>2. TypeOK
  <2>1. flows \in [Flows -> Flow]
    BY <1>1 DEF Init
  <2>2. Long \in Nat /\ doc \in [ver : Nat, left : 0..DocTTL]
    BY Times DEF Init, NoDoc
  <2> QED
    BY <2>1, <2>2, Times DEF Init, TypeOK, Flow
<1>3. DocFresh /\ \A f \in Flows : FlowCurrent(f)
  BY DEF Init, DocFresh, FlowCurrent, NoDoc, Idle, Discovering
<1> QED
  BY <1>2, <1>3 DEF IInv

\* A step that changes one flow, and of the rest at most the cached document and
\* where the keys are, keeps the invariant if it does for that flow.
LEMMA OneFlow ==
  ASSUME IInv, NEW f \in Flows, NEW new \in Flow,
         flows' = [flows EXCEPT ![f] = new],
         doc' \in [ver : Nat, left : 0..DocTTL], DocFresh',
         jwks' \in Nat, jwks # 0 => jwks' # 0,
         FlowCurrent(f)', UNCHANGED <<upstream, since, allowed, restarts>>
  PROVE  IInv'
<1>1. TypeOK'
  BY DEF IInv, TypeOK, Flow
<1>2. ASSUME NEW g \in Flows PROVE FlowCurrent(g)'
  <2>1. CASE g = f
    BY <2>1
  <2>2. CASE g # f
    <3>1. flows'[g] = flows[g]
      BY <2>2 DEF IInv, TypeOK
    <3> QED
      BY <3>1 DEF IInv, FlowCurrent
  <2> QED
    BY <2>1, <2>2
<1> QED
  BY <1>1, <1>2 DEF IInv

\* A flow that waits for nothing, and a record of it.
LEMMA RestingFlow ==
  ASSUME NEW new \in Flow, NEW f \in Flows, new.at \notin Waiting, flows'[f] = new
  PROVE  FlowCurrent(f)'
BY DEF FlowCurrent, Waiting

\* What Goes makes of a flow.
Gone(fl, state, ver) == [fl EXCEPT !.at = state, !.ver = ver, !.wait = 0]

LEMMA GoneFields ==
  ASSUME NEW fl \in Flow, NEW state \in FlowStates, NEW ver \in Nat, NEW new, new = Gone(fl, state, ver)
  PROVE  new \in Flow /\ new.at = state /\ new.ver = ver /\ new.wait = 0
<1> HIDE DEF FlowStates
<1>1. 0 \in 0..Delay
  BY Times
<1> QED
  BY <1>1 DEF Gone, Flow

LEMMA GoesFlow ==
  ASSUME IInv, NEW f \in Flows, NEW state \in FlowStates, NEW ver \in Nat, Goes(f, state, ver)
  PROVE  LET new == Gone(flows[f], state, ver) IN
         /\ new \in Flow /\ flows' = [flows EXCEPT ![f] = new] /\ flows'[f] = new
<1>1. flows[f] \in Flow /\ flows \in [Flows -> Flow]
  BY DEF IInv, TypeOK, Flow
<1>2. Gone(flows[f], state, ver) \in Flow
  BY <1>1, GoneFields
<1> QED
  BY <1>1, <1>2 DEF Goes, Gone

\* A flow that goes where it waits for nothing, or ends, keeps the invariant.
LEMMA EndsKeeps ==
  ASSUME IInv, NEW f \in Flows, NEW state \in FlowStates \ Waiting, Ends(f, state),
         UNCHANGED <<upstream, since, doc, jwks, allowed, restarts>>
  PROVE  IInv'
<1> DEFINE new == [Idle EXCEPT !.at = state]
<1>1. new \in Flow /\ new.at = state
  BY Times DEF Idle, Flow
<1>2. flows' = [flows EXCEPT ![f] = new] /\ flows'[f] = new
  BY DEF Ends, IInv, TypeOK
<1> HIDE DEF new
<1>3. FlowCurrent(f)'
  BY <1>1, <1>2, RestingFlow
<1>4. doc' \in [ver : Nat, left : 0..DocTTL] /\ DocFresh' /\ jwks' \in Nat /\ (jwks # 0 => jwks' # 0)
  BY DEF IInv, TypeOK, DocFresh
<1> QED
  BY <1>1, <1>2, <1>3, <1>4, OneFlow

LEMMA StepServe ==
  ASSUME IInv, NEW f \in Flows, Serve(f)
  PROVE  IInv'
<1> DEFINE new == [flows[f] EXCEPT !.ver = upstream]
<1>1. flows[f] \in Flow /\ upstream \in Nat
  BY DEF IInv, TypeOK, Flow
<1>2. new \in Flow
  BY <1>1 DEF Flow
<1>3. flows' = [flows EXCEPT ![f] = new] /\ flows'[f] = new
  BY DEF Serve, IInv, TypeOK
<1>4. FlowCurrent(f)'
  BY <1>1, <1>3 DEF Serve, FlowCurrent, Flow, Discovering
<1> HIDE DEF new
<1> QED
  BY <1>2, <1>3, <1>4, OneFlow DEF Serve, IInv, TypeOK, DocFresh

LEMMA StepDiscovered ==
  ASSUME IInv, NEW f \in Flows, NEW ttl \in 0..DocTTL, Discovered(f, ttl)
  PROVE  IInv'
<1>1. flows[f] \in Flow /\ upstream \in Nat /\ since \in Nat /\ jwks \in Nat
  BY Times DEF IInv, TypeOK, Flow
<1>2. PICK next \in {"upstream", "exchanging"} : Goes(f, next, flows[f].ver)
  BY DEF Discovered
<1> DEFINE new == Gone(flows[f], next, flows[f].ver)
<1>3. next \in FlowStates /\ flows[f].ver \in Nat
  BY <1>1 DEF FlowStates, Waiting, Flow
<1>4. new \in Flow /\ flows' = [flows EXCEPT ![f] = new] /\ flows'[f] = new
  BY <1>2, <1>3, GoesFlow
<1>5. flows[f].ver # upstream => since <= Delay
  BY <1>1, Times DEF IInv, FlowCurrent, Discovered, Flow
<1>6. /\ doc' = [ver |-> flows[f].ver, left |-> ttl]
      /\ UNCHANGED <<upstream, since, jwks, allowed, restarts>>
  BY DEF Discovered
<1>7. doc' \in [ver : Nat, left : 0..DocTTL] /\ DocFresh'
  BY <1>1, <1>3, <1>5, <1>6, Times DEF DocFresh
<1>8. new.at = next /\ new.ver = flows[f].ver /\ new.wait = 0
  <2>1. PICK gone : gone = new
    OBVIOUS
  <2>2. gone.at = next /\ gone.ver = flows[f].ver /\ gone.wait = 0
    BY ONLY <1>1, <1>3, <2>1, GoneFields
  <2> QED
    BY ONLY <2>1, <2>2
<1>9. FlowCurrent(f)'
  BY <1>1, <1>2, <1>4, <1>5, <1>6, <1>8, Times DEF FlowCurrent, Discovering
<1> HIDE DEF new
<1> QED
  BY <1>1, <1>4, <1>6, <1>7, <1>9, OneFlow

LEMMA StepAuthorize ==
  ASSUME IInv, NEW f \in Flows, Authorize(f)
  PROVE  IInv'
<1>1. PICK next \in {"upstream", "discovering"}, ver \in Nat :
        /\ next = "discovering" => ver = 0
        /\ flows' = [flows EXCEPT ![f] =
                       [Idle EXCEPT !.at = next, !.ver = ver, !.left = PendingTTL]]
  <2>1. CASE Fresh
    BY <2>1 DEF Authorize, AuthorizeUrl, IInv, TypeOK
  <2>2. CASE ~Fresh
    BY <2>2 DEF Authorize, AuthorizeUrl
  <2> QED
    BY <2>1, <2>2
<1> DEFINE new == [Idle EXCEPT !.at = next, !.ver = ver, !.left = PendingTTL]
<1>2. flows' = [flows EXCEPT ![f] = new]
  BY <1>1
<1>3. new \in Flow /\ new.at = next /\ new.ver = ver
  <2>1. Idle \in Flow /\ next \in FlowStates /\ PendingTTL \in Nat
    BY Times DEF Idle, Flow, FlowStates, Waiting, Discovering
  <2> QED
    BY <2>1 DEF Flow
<1>4. flows'[f] = new
  BY <1>2 DEF IInv, TypeOK
<1>5. FlowCurrent(f)'
  BY <1>1, <1>3, <1>4 DEF FlowCurrent, Discovering
<1>6. UNCHANGED <<upstream, since, doc, jwks, allowed, restarts>>
  BY DEF Authorize, AuthorizeUrl
<1>7. doc' \in [ver : Nat, left : 0..DocTTL] /\ DocFresh' /\ jwks' \in Nat /\ (jwks # 0 => jwks' # 0)
  BY <1>6 DEF IInv, TypeOK, DocFresh
<1> HIDE DEF new
<1> QED
  BY <1>2, <1>3, <1>5, <1>6, <1>7, OneFlow

LEMMA StepLogIn ==
  ASSUME IInv, NEW f \in Flows, LogIn(f)
  PROVE  IInv'
<1> DEFINE new == Gone(flows[f], "returning", 0)
<1>1. new \in Flow /\ flows' = [flows EXCEPT ![f] = new] /\ flows'[f] = new
  BY GoesFlow DEF LogIn, FlowStates
<1>2. new.at \notin Waiting
  BY DEF Gone, Waiting, Discovering
<1> HIDE DEF new
<1>3. FlowCurrent(f)'
  BY <1>1, <1>2, RestingFlow
<1> QED
  BY <1>1, <1>3, OneFlow DEF LogIn, IInv, TypeOK, DocFresh

LEMMA StepCallback ==
  ASSUME IInv, NEW f \in Flows, Callback(f)
  PROVE  IInv'
<1>1. UNCHANGED <<upstream, since, doc, jwks, allowed, restarts>>
  BY DEF Callback
<1>2. doc' \in [ver : Nat, left : 0..DocTTL] /\ DocFresh' /\ jwks' \in Nat /\ (jwks # 0 => jwks' # 0)
  BY <1>1 DEF IInv, TypeOK, DocFresh
<1>3. CASE Ends(f, "idle")
  BY <1>1, <1>3, EndsKeeps DEF FlowStates, Waiting, Discovering
<1>4. CASE Fresh /\ Goes(f, "exchanging", doc.ver)
  <2> DEFINE new == Gone(flows[f], "exchanging", doc.ver)
  <2>1. doc.ver \in Nat /\ doc.left \in Nat /\ since \in Nat
    BY Times DEF IInv, TypeOK
  <2>2. new \in Flow /\ flows' = [flows EXCEPT ![f] = new] /\ flows'[f] = new
    BY <1>4, <2>1, GoesFlow DEF FlowStates, Waiting
  <2>3. FlowCurrent(f)'
    <3>1. new.at = "exchanging" /\ new.ver = doc.ver /\ new.wait = 0
      <4>1. flows[f] \in Flow /\ "exchanging" \in FlowStates
        BY DEF IInv, TypeOK, Flow, FlowStates, Waiting
      <4> QED
        BY <2>1, <4>1, GoneFields
    <3>2. doc.ver # upstream => since < DocTTL + Delay
      BY <1>4, <2>1, Times DEF IInv, DocFresh, Fresh
    <3> QED
      BY <1>1, <2>1, <2>2, <3>1, <3>2, Times DEF FlowCurrent, Discovering
  <2> HIDE DEF new
  <2> QED
    BY <1>1, <1>2, <2>2, <2>3, OneFlow
<1>5. CASE Goes(f, "rediscovering", 0)
  <2> DEFINE new == Gone(flows[f], "rediscovering", 0)
  <2>1. new \in Flow /\ flows' = [flows EXCEPT ![f] = new] /\ flows'[f] = new
    BY <1>5, GoesFlow DEF FlowStates, Waiting, Discovering
  <2>2. FlowCurrent(f)'
    <3>1. new.at = "rediscovering" /\ new.ver = 0
      BY GoneFields DEF FlowStates, Waiting, Discovering, IInv, TypeOK, Flow
    <3> QED
      BY <2>1, <3>1 DEF FlowCurrent
  <2> HIDE DEF new
  <2> QED
    BY <1>1, <1>2, <2>1, <2>2, OneFlow
<1> QED
  BY <1>3, <1>4, <1>5 DEF Callback

LEMMA StepExchanged ==
  ASSUME IInv, NEW f \in Flows, Exchanged(f)
  PROVE  IInv'
<1>1. flows[f] \in Flow /\ upstream \in Nat \ {0} /\ jwks \in Nat
  BY DEF IInv, TypeOK, Flow
<1>2. UNCHANGED <<upstream, since, doc, allowed, restarts>>
  BY DEF Exchanged
<1>3. CASE flows[f].ver = upstream /\ flows[f].code = "unused"
  <2> DEFINE new == [flows[f] EXCEPT !.at = "verifying", !.wait = 0, !.code = "redeemed"]
  <2>1. new \in Flow
    <3>1. "verifying" \in FlowStates /\ 0 \in 0..Delay
      BY Times DEF FlowStates, Waiting
    <3> QED
      BY <1>1, <3>1 DEF Flow
  <2>2. new.at = "verifying" /\ new.ver = upstream
    BY <1>1, <1>3 DEF Flow
  <2>3. flows' = [flows EXCEPT ![f] = new] /\ flows'[f] = new
    BY <1>3 DEF Exchanged, IInv, TypeOK
  <2>4. jwks' \in Nat /\ jwks' # 0
    BY <1>1, <1>3 DEF Exchanged
  <2>5. FlowCurrent(f)'
    BY <1>1, <1>2, <2>2, <2>3, <2>4 DEF FlowCurrent
  <2>6. doc' \in [ver : Nat, left : 0..DocTTL] /\ DocFresh'
    BY <1>2 DEF IInv, TypeOK, DocFresh
  <2> HIDE DEF new
  <2> QED
    BY <1>2, <2>1, <2>3, <2>4, <2>5, <2>6, OneFlow
<1>4. CASE ~(flows[f].ver = upstream /\ flows[f].code = "unused")
  BY <1>4, <1>2, EndsKeeps DEF Exchanged, FlowStates, Waiting, Discovering
<1> QED
  BY <1>3, <1>4

LEMMA StepVerified ==
  ASSUME IInv, NEW f \in Flows, Verified(f)
  PROVE  IInv'
<1>1. flows[f] \in Flow /\ flows \in [Flows -> Flow]
  BY DEF IInv, TypeOK, Flow
<1>2. UNCHANGED <<upstream, since, doc, jwks, allowed, restarts>>
  BY DEF Verified
<1>3. PICK next \in {"confirming", "coded"} :
        flows' = [flows EXCEPT ![f] = [flows[f] EXCEPT !.at = next, !.wait = 0, !.left = CodeTTL]]
  BY DEF Verified
<1> DEFINE new == [flows[f] EXCEPT !.at = next, !.wait = 0, !.left = CodeTTL]
<1>4. next \in FlowStates /\ next \notin Waiting /\ 0 \in 0..Delay /\ CodeTTL \in Nat
  BY Times DEF FlowStates, Waiting, Discovering
<1>5. new \in Flow /\ new.at \notin Waiting
  BY <1>1, <1>4 DEF Flow
<1>6. flows' = [flows EXCEPT ![f] = new] /\ flows'[f] = new
  BY <1>1, <1>3
<1> HIDE DEF new
<1>7. FlowCurrent(f)'
  BY <1>5, <1>6, RestingFlow
<1> QED
  BY <1>2, <1>5, <1>6, <1>7, OneFlow DEF IInv, TypeOK, DocFresh

LEMMA StepConfirm ==
  ASSUME IInv, NEW f \in Flows, Confirm(f)
  PROVE  IInv'
<1> DEFINE new == [flows[f] EXCEPT !.at = "coded"]
<1>1. flows[f] \in Flow /\ flows \in [Flows -> Flow]
  BY DEF IInv, TypeOK, Flow
<1>2. new \in Flow /\ new.at \notin Waiting
  BY <1>1 DEF Flow, FlowStates, Waiting, Discovering
<1>3. flows' = [flows EXCEPT ![f] = new] /\ flows'[f] = new
  BY <1>1 DEF Confirm
<1> HIDE DEF new
<1>4. FlowCurrent(f)'
  BY <1>2, <1>3, RestingFlow
<1> QED
  BY <1>2, <1>3, <1>4, OneFlow DEF Confirm, IInv, TypeOK, DocFresh

LEMMA StepFlow ==
  ASSUME IInv, NEW f \in Flows,
         \/ Authorize(f) \/ LogIn(f) \/ Callback(f) \/ Answered(f)
         \/ Confirm(f) \/ Redeem(f) \/ GiveUp(f)
  PROVE  IInv'
<1> USE DEF FlowStates, Waiting, Discovering
<1>1. CASE NotVerified(f)
  BY <1>1, EndsKeeps DEF NotVerified
<1>2. CASE FetchFails(f)
  BY <1>2, EndsKeeps DEF FetchFails
<1>3. CASE Redeem(f)
  BY <1>3, EndsKeeps DEF Redeem
<1>4. CASE GiveUp(f)
  BY <1>4, EndsKeeps DEF GiveUp
<1> QED
  BY <1>1, <1>2, <1>3, <1>4, StepServe, StepDiscovered, StepAuthorize, StepLogIn, StepCallback,
     StepExchanged, StepVerified, StepConfirm DEF Answered

-----------------------------------------------------------------------------
(* Steps of the world. *)

\* A move makes every place of before a late one, and starts the count again.
LEMMA StepMove ==
  ASSUME IInv, Move
  PROVE  IInv'
<1>1. upstream' \in Nat \ {0} /\ since' = 0 /\ UNCHANGED <<doc, jwks, allowed, flows, restarts>>
  BY DEF IInv, TypeOK, Move
<1>2. TypeOK'
  BY <1>1, Times DEF IInv, TypeOK
<1>3. DocFresh'
  BY <1>1, Times DEF IInv, TypeOK, DocFresh
<1>4. ASSUME NEW f \in Flows PROVE FlowCurrent(f)'
  <2>1. flows[f].wait \in Nat
    BY Times DEF IInv, TypeOK
  <2> QED
    BY <1>1, <2>1, Times DEF IInv, FlowCurrent
<1> QED
  BY <1>2, <1>3, <1>4 DEF IInv

\* While time passes, what is late and what is waited for age together, and a
\* cached document loses what the other gains.
LEMMA StepTick ==
  ASSUME IInv, Tick
  PROVE  IInv'
<1>1. since \in Nat /\ since' \in 0..Long /\ since' <= since + 1
  <2>1. since \in 0..Long /\ Long \in Nat /\ since' = IF since < Long THEN since + 1 ELSE since
    <3>1. Long \in Nat
      BY Times
    <3>2. since \in 0..Long
      BY DEF IInv, TypeOK
    <3>3. since' = IF since < Long THEN since + 1 ELSE since
      BY DEF Tick
    <3> QED
      BY <3>1, <3>2, <3>3
  <2> QED
    BY <2>1
<1>2. UNCHANGED <<upstream, jwks, allowed, restarts>>
  BY DEF Tick
<1>3. ASSUME NEW f \in Flows
      PROVE  /\ flows'[f] \in Flow /\ flows'[f].at = flows[f].at /\ flows'[f].ver = flows[f].ver
             /\ flows[f].at \in Waiting => flows'[f].wait = flows[f].wait + 1
  <2> DEFINE w == IF flows[f].at \in Waiting THEN flows[f].wait + 1 ELSE flows[f].wait
             l == IF flows[f].left >= 0 THEN flows[f].left - 1 ELSE flows[f].left
  <2>1. flows[f] \in Flow /\ flows'[f] = [flows[f] EXCEPT !.wait = w, !.left = l]
    <3>1. flows[f] \in Flow
      BY DEF IInv, TypeOK, Flow
    <3> QED
      BY <3>1, Zenon DEF Tick
  <2>2. w \in 0..Delay
    <3>1. flows[f].wait \in 0..Delay /\ Delay \in Nat
      BY <2>1, Times DEF Flow
    <3>2. flows[f].at \in Waiting => flows[f].wait < Delay
      BY DEF Tick
    <3> QED
      BY <3>1, <3>2
  <2>3. l \in Nat \cup {-1}
    BY <2>1 DEF Flow
  <2>4. flows[f].at \in Waiting => w = flows[f].wait + 1
    OBVIOUS
  <2> HIDE DEF w, l
  <2> QED
    BY <2>1, <2>2, <2>3, <2>4 DEF Flow
<1>4. doc' \in [ver : Nat, left : 0..DocTTL] /\ doc'.ver = doc.ver
      /\ (doc'.left > 0 => doc.left = doc'.left + 1)
  <2> DEFINE l == IF doc.left > 0 THEN doc.left - 1 ELSE 0
  <2>1. doc \in [ver : Nat, left : 0..DocTTL] /\ doc' = [doc EXCEPT !.left = l]
    BY DEF IInv, TypeOK, Tick
  <2>2. l \in 0..DocTTL /\ (l > 0 => doc.left = l + 1)
    BY <2>1, Times
  <2> HIDE DEF l
  <2> QED
    BY <2>1, <2>2
<1>5. TypeOK'
  <2>1. flows' \in [Flows -> Flow]
    <3>1. flows' = [f \in Flows |-> flows'[f]]
      BY DEF Tick
    <3> QED
      BY <1>3, <3>1
  <2> QED
    BY <1>1, <1>2, <1>4, <2>1 DEF IInv, TypeOK, Flow
<1>6. DocFresh'
  <2>1. doc.left \in Nat /\ doc'.left \in Nat
    BY <1>4, Times DEF IInv, TypeOK
  <2> QED
    BY <1>1, <1>2, <1>4, <2>1, Times DEF IInv, DocFresh
<1>7. ASSUME NEW f \in Flows PROVE FlowCurrent(f)'
  <2>1. flows[f].wait \in Nat /\ flows'[f].wait \in Nat /\ since' \in Nat
    BY <1>1, <1>3, Times DEF IInv, TypeOK, Flow
  <2>2. flows[f].at \in Discovering \cup {"verifying", "exchanging"} => flows[f].at \in Waiting
    BY DEF Waiting
  <2> QED
    BY <1>1, <1>2, <1>3, <2>1, <2>2, Times DEF IInv, FlowCurrent
<1> QED
  BY <1>5, <1>6, <1>7 DEF IInv

\* A restart leaves no flow waiting.
LEMMA StepRestart ==
  ASSUME IInv, NEW list \in Lists, Restart(list)
  PROVE  IInv'
<1>1. doc' = NoDoc /\ jwks' = 0 /\ allowed' = list /\ restarts' \in 0..MaxRestarts
      /\ UNCHANGED <<upstream, since>>
  BY Times DEF IInv, TypeOK, Restart
<1>2. ASSUME NEW f \in Flows PROVE flows'[f] \in Flow /\ flows'[f].at \notin Waiting
  <2>1. flows[f] \in Flow /\ flows'[f] \in Interrupted(flows[f])
    BY DEF IInv, TypeOK, Flow, Restart
  <2> QED
    BY <2>1, InterruptedFlow
<1>3. flows' \in [Flows -> Flow]
  <2>1. flows' = [f \in Flows |-> flows'[f]]
    BY DEF Restart
  <2> QED
    BY <1>2, <2>1
<1>4. TypeOK'
  BY <1>1, <1>3, Times DEF IInv, TypeOK, NoDoc, Flow
<1>5. DocFresh'
  BY <1>1 DEF DocFresh, NoDoc
<1>6. ASSUME NEW f \in Flows PROVE FlowCurrent(f)'
  BY <1>2, RestingFlow
<1> QED
  BY <1>4, <1>5, <1>6 DEF IInv

LEMMA StepIInv == IInv /\ [Next]_vars => IInv'
<1> SUFFICES ASSUME IInv, [Next]_vars PROVE IInv'
  OBVIOUS
<1>1. CASE UNCHANGED vars
  BY <1>1 DEF vars, IInv, TypeOK, DocFresh, FlowCurrent
<1>2. ASSUME NEW f \in Flows,
             \/ Authorize(f) \/ LogIn(f) \/ Callback(f) \/ Answered(f)
             \/ Confirm(f) \/ Redeem(f) \/ GiveUp(f)
      PROVE  IInv'
  BY <1>2, StepFlow
<1> QED
  BY <1>1, <1>2, StepMove, StepTick, StepRestart DEF Next

-----------------------------------------------------------------------------
(* The theorems. *)

\* Every reachable state satisfies the inductive invariant, whatever the times are.
THEOREM Invariance == Spec => []IInv
BY InitIInv, StepIInv, PTL DEF Spec

\* Every variable has its type.
THEOREM TypeCorrect == Spec => []TypeOK
<1>1. IInv => TypeOK
  BY DEF IInv
<1> QED
  BY <1>1, Invariance, PTL

\* However many flows ask for the document at once, the cache believes none past
\* its time and one Delay after the provider moved (DocFresh).
THEOREM DocumentsFresh == Spec => []DocFresh
<1>1. IInv => DocFresh
  BY DEF IInv
<1> QED
  BY <1>1, Invariance, PTL

\* Where the steps that Goes and Ends describe leave a flow.
LEMMA Moved ==
  ASSUME NEW f \in Flows, flows \in [Flows -> Flow]
  PROVE  /\ \A state, ver : Goes(f, state, ver) => flows'[f].at = state /\ flows'[f].ver = ver
         /\ \A state : Ends(f, state) => flows'[f].at = state
<1>1. ASSUME NEW state, NEW ver, Goes(f, state, ver)
      PROVE  flows'[f].at = state /\ flows'[f].ver = ver
  <2>1. flows[f] \in Flow
    OBVIOUS
  <2>2. flows'[f] = [flows[f] EXCEPT !.at = state, !.ver = ver, !.wait = 0]
    BY <1>1 DEF Goes
  <2> QED
    BY <2>1, <2>2 DEF Flow
<1>2. ASSUME NEW state, Ends(f, state) PROVE flows'[f].at = state
  <2>1. flows'[f] = [Idle EXCEPT !.at = state]
    BY <1>2 DEF Ends
  <2> QED
    BY <2>1 DEF Idle
<1> QED
  BY <1>1, <1>2

\* Where each step leaves its flow.
LEMMA Lands ==
  ASSUME NEW f \in Flows, flows \in [Flows -> Flow]
  PROVE  /\ Authorize(f) => flows'[f].at \in {"upstream", "discovering"}
         /\ LogIn(f) => flows'[f].at \in {"returning"}
         /\ Callback(f) => flows'[f].at \in {"idle", "rediscovering", "exchanging"}
         /\ Serve(f) => flows'[f].at \in {flows[f].at}
         /\ (\E ttl \in 0..DocTTL : Discovered(f, ttl)) => flows'[f].at \in {"upstream", "exchanging"}
         /\ Exchanged(f) => flows'[f].at \in {"verifying", "rejected"}
         /\ Verified(f) => flows'[f].at \in {"confirming", "coded"}
         /\ NotVerified(f) => flows'[f].at \in {"rejected"}
         /\ FetchFails(f) => flows'[f].at \in {"idle"}
         /\ Confirm(f) => flows'[f].at \in {"coded"}
         /\ Redeem(f) => flows'[f].at \in {"signedIn", "idle"}
         /\ GiveUp(f) => flows'[f].at \in {"idle"}
<1>0. flows[f] \in Flow
  OBVIOUS
<1>1. ASSUME Authorize(f) PROVE flows'[f].at \in {"upstream", "discovering"}
  BY <1>0, <1>1 DEF Authorize, AuthorizeUrl, Idle
<1>2. ASSUME LogIn(f) PROVE flows'[f].at \in {"returning"}
  BY <1>0, <1>2, Moved DEF LogIn
<1>3. ASSUME Callback(f) PROVE flows'[f].at \in {"idle", "rediscovering", "exchanging"}
  BY <1>0, <1>3, Moved DEF Callback
<1>4. ASSUME Serve(f) PROVE flows'[f].at \in {flows[f].at}
  BY <1>0, <1>4 DEF Serve, Flow
<1>5. ASSUME \E ttl \in 0..DocTTL : Discovered(f, ttl) PROVE flows'[f].at \in {"upstream", "exchanging"}
  BY <1>0, <1>5, Moved DEF Discovered
<1>6. ASSUME Exchanged(f) PROVE flows'[f].at \in {"verifying", "rejected"}
  BY <1>0, <1>6, Moved DEF Exchanged, Flow
<1>7. ASSUME Verified(f) PROVE flows'[f].at \in {"confirming", "coded"}
  BY <1>0, <1>7 DEF Verified, Flow
<1>8. ASSUME NotVerified(f) PROVE flows'[f].at \in {"rejected"}
  BY <1>0, <1>8, Moved DEF NotVerified
<1>9. ASSUME FetchFails(f) PROVE flows'[f].at \in {"idle"}
  BY <1>0, <1>9, Moved DEF FetchFails
<1>10. ASSUME Confirm(f) PROVE flows'[f].at \in {"coded"}
  BY <1>0, <1>10 DEF Confirm, Flow
<1>11. ASSUME Redeem(f) PROVE flows'[f].at \in {"signedIn", "idle"}
  BY <1>0, <1>11, Moved DEF Redeem
<1>12. ASSUME GiveUp(f) PROVE flows'[f].at \in {"idle"}
  BY <1>0, <1>12, Moved DEF GiveUp
<1> QED
  BY <1>1, <1>2, <1>3, <1>4, <1>5, <1>6, <1>7, <1>8, <1>9, <1>10, <1>11, <1>12

\* A step of one flow is no step of another.
LEMMA OneAtATime ==
  ASSUME TypeOK, NEW f \in Flows, NEW g \in Flows, f # g,
         \/ Authorize(g) \/ LogIn(g) \/ Callback(g) \/ Answered(g)
         \/ Confirm(g) \/ Redeem(g) \/ GiveUp(g)
  PROVE  flows'[f] = flows[f]
BY DEF TypeOK, Authorize, AuthorizeUrl, LogIn, Callback, Answered, Confirm, Redeem, GiveUp, Serve, Discovered,
       Exchanged, Verified, NotVerified, FetchFails, Goes, Ends

\* Who changes where a flow is: a step of its own, or a restart, which
\* only sends it back.
LEMMA OwnStep ==
  ASSUME IInv, [Next]_vars, NEW f \in Flows, flows'[f].at # flows[f].at,
         flows[f].at \in Waiting => flows'[f].at \notin {"idle", "returning"}
  PROVE  \/ Authorize(f) \/ LogIn(f) \/ Callback(f) \/ Answered(f)
         \/ Confirm(f) \/ Redeem(f) \/ GiveUp(f)
<1>1. flows[f] \in Flow /\ TypeOK
  BY DEF IInv, TypeOK, Flow
<1>2. ~UNCHANGED flows
  OBVIOUS
<1>3. ~Tick
  <2>1. ASSUME Tick PROVE flows'[f].at = flows[f].at
    BY <1>1, <2>1 DEF Tick, Flow
  <2> QED
    BY <2>1
<1>4. ASSUME NEW list \in Lists, Restart(list) PROVE FALSE
  <2>1. flows'[f] \in Interrupted(flows[f])
    BY <1>4 DEF Restart
  <2> QED
    BY <1>1, <2>1, InterruptedFlow
<1>5. PICK g \in Flows : \/ Authorize(g) \/ LogIn(g) \/ Callback(g) \/ Answered(g)
                         \/ Confirm(g) \/ Redeem(g) \/ GiveUp(g)
  BY <1>2, <1>3, <1>4 DEF Next, Move, vars
<1>6. g = f
  BY <1>1, <1>5, OneAtATime
<1> QED
  BY <1>5, <1>6

\* A flow that is under way has a URI that is not invalid, whatever the list is.
Valid == \A f \in Flows : flows[f].at \notin {"idle", "rejected"} => ~Invalid(Uri[f])

LEMMA StepValid == IInv /\ Valid /\ [Next]_vars => Valid'
<1> SUFFICES ASSUME IInv, Valid, [Next]_vars, NEW f \in Flows,
                    flows'[f].at \notin {"idle", "rejected"}, flows[f].at \in {"idle", "rejected"}
             PROVE  ~Invalid(Uri[f])
  BY DEF Valid
<1>1. \/ Authorize(f) \/ LogIn(f) \/ Callback(f) \/ Answered(f)
      \/ Confirm(f) \/ Redeem(f) \/ GiveUp(f)
  BY OwnStep DEF Waiting, Discovering
<1>2. Authorize(f)
  BY <1>1 DEF LogIn, Callback, Answered, Confirm, Redeem, GiveUp, Serve, Discovered, Exchanged,
          Verified, NotVerified, FetchFails, At, Waiting, Discovering
<1> QED
  BY <1>2 DEF Authorize, AuthorizeUrl, Verdict

\* /authorize turns an invalid URI away for good: /callback looks only for consent,
\* and needs no more, because no list makes an invalid URI valid.
THEOREM ValidAlways == Spec => []Valid
<1>1. Init => Valid
  BY DEF Init, Valid, Idle
<1> QED
  BY <1>1, StepValid, Invariance, PTL DEF Spec

\* Sign-ins go wrong for no other reason and no longer than OutageBounded says.
THEOREM OutagesBounded == Spec => OutageBounded
<1>1. ASSUME IInv, [Next]_vars, NEW f \in Flows, SentAstray(f)
      PROVE  since < Long
  <2>1. Authorize(f) \/ \E ttl \in 0..DocTTL : Discovered(f, ttl)
    <3>1. flows'[f].at # flows[f].at /\ flows'[f].at = "upstream"
      BY <1>1 DEF SentAstray, At
    <3>2. flows[f] \in Flow /\ flows \in [Flows -> Flow]
      BY <1>1 DEF IInv, TypeOK, Flow
    <3>3. \/ Authorize(f) \/ LogIn(f) \/ Callback(f) \/ Answered(f)
          \/ Confirm(f) \/ Redeem(f) \/ GiveUp(f)
      BY <1>1, <3>1, OwnStep
    <3> QED
      BY <3>1, <3>2, <3>3, Lands DEF Answered
  <2>2. flows[f] \in Flow /\ flows \in [Flows -> Flow] /\ since \in Nat /\ doc.left \in Nat
    BY <1>1, Times DEF IInv, TypeOK, Flow
  <2>3. CASE Authorize(f)
    <3>1. flows'[f].at = "upstream" /\ flows'[f].ver # upstream
      BY <1>1 DEF SentAstray
    <3>2. Fresh /\ doc.ver # upstream
      <4>1. flows'[f] = [Idle EXCEPT !.at = IF Fresh THEN "upstream" ELSE "discovering",
                                     !.ver = IF Fresh THEN doc.ver ELSE 0,
                                     !.left = PendingTTL]
        BY <2>2, <2>3 DEF Authorize, AuthorizeUrl
      <4> QED
        BY <3>1, <4>1 DEF Idle
    <3> QED
      BY <1>1, <2>2, <3>2, Times DEF IInv, DocFresh, Fresh
  <2>4. ASSUME NEW ttl \in 0..DocTTL, Discovered(f, ttl) PROVE since < Long
    <3>1. flows'[f].ver = flows[f].ver /\ flows'[f].ver # upstream
      BY <1>1, <2>2, <2>4 DEF SentAstray, Discovered, Goes, Flow
    <3>2. since <= flows[f].wait
      BY <1>1, <2>4, <3>1 DEF IInv, FlowCurrent, Discovered
    <3> QED
      BY <2>2, <3>2, Times DEF Flow
  <2> QED
    BY <2>1, <2>3, <2>4
<1>2. ASSUME IInv, [Next]_vars, NEW f \in Flows, Rejected(f)
      PROVE  \/ flows[f].ver # upstream /\ since < Long
             \/ jwks \notin {0, upstream}
             \/ At(f, "exchanging") /\ flows[f].code = "redeemed"
  <2>1. flows[f] \in Flow /\ flows \in [Flows -> Flow] /\ since \in Nat
    BY <1>2, Times DEF IInv, TypeOK, Flow
  <2>2. Exchanged(f) \/ NotVerified(f)
    <3>1. flows'[f].at # flows[f].at /\ flows'[f].at = "rejected"
      BY <1>2 DEF Rejected, At
    <3>2. \/ Authorize(f) \/ LogIn(f) \/ Callback(f) \/ Answered(f)
          \/ Confirm(f) \/ Redeem(f) \/ GiveUp(f)
      BY <1>2, <3>1, OwnStep
    <3> QED
      BY <2>1, <3>1, <3>2, Lands DEF Answered
  <2>3. CASE Exchanged(f)
    <3>1. At(f, "exchanging") /\ (flows[f].ver # upstream \/ flows[f].code = "redeemed")
      BY <1>2, <2>1, <2>3 DEF Exchanged, Rejected, At, Flow
    <3>2. flows[f].ver # upstream => since < DocTTL + Delay + flows[f].wait
      BY <1>2, <3>1 DEF IInv, FlowCurrent, At
    <3> QED
      BY <2>1, <3>1, <3>2, Times DEF Flow
  <2>4. CASE NotVerified(f)
    <3>1. /\ jwks # flows[f].ver \/ jwks # upstream
          /\ jwks # 0 /\ flows[f].ver # 0
          /\ flows[f].ver # upstream => since <= flows[f].wait
      BY <1>2, <2>4 DEF NotVerified, IInv, FlowCurrent, At
    <3>2. flows[f].ver # upstream => since < Long
      BY <2>1, <3>1, Times DEF Flow
    <3> QED
      BY <3>1, <3>2
  <2> QED
    BY <2>2, <2>3, <2>4
<1>3. IInv /\ [Next]_vars =>
        [\A f \in Flows :
           /\ SentAstray(f) => since < Long
           /\ Rejected(f) => \/ flows[f].ver # upstream /\ since < Long
                             \/ jwks \notin {0, upstream}
                             \/ At(f, "exchanging") /\ flows[f].code = "redeemed"]_vars
  BY <1>1, <1>2
<1> QED
  BY <1>3, Invariance, PTL DEF Spec, OutageBounded

\* No hosted URI gets a code past the list and the user, whatever restarts.
THEOREM ConsentComesFirst == Spec => ConsentFirst
<1>1. ASSUME IInv, Valid, [Next]_vars, NEW f \in Flows,
             ~At(f, "coded"), flows'[f].at = "coded", IsWeb(Uri[f])
      PROVE  At(f, "confirming") \/ Listed(Uri[f], allowed)
  <2>1. flows[f] \in Flow /\ flows \in [Flows -> Flow]
    BY <1>1 DEF IInv, TypeOK, Flow
  <2>2. Verified(f) \/ Confirm(f)
    <3>1. flows'[f].at # flows[f].at /\ flows'[f].at = "coded"
      BY <1>1 DEF At
    <3>2. \/ Authorize(f) \/ LogIn(f) \/ Callback(f) \/ Answered(f)
          \/ Confirm(f) \/ Redeem(f) \/ GiveUp(f)
      BY <1>1, <3>1, OwnStep
    <3> QED
      BY <2>1, <3>1, <3>2, Lands DEF Answered
  <2>3. CASE Confirm(f)
    BY <2>3 DEF Confirm
  <2>4. CASE Verified(f)
    <3>1. Verdict(Uri[f], allowed) # "needs_consent"
      <4>1. flows'[f].at = IF Verdict(Uri[f], allowed) = "needs_consent" THEN "confirming" ELSE "coded"
        BY <2>1, <2>4 DEF Verified, Flow
      <4> QED
        BY <1>1, <4>1
    <3> QED
      <4>1. ~Invalid(Uri[f])
        BY <1>1, <2>4 DEF Valid, Verified, At
      <4> QED
        BY <1>1, <3>1, <4>1 DEF Verdict
  <2> QED
    BY <2>2, <2>3, <2>4
<1>2. IInv /\ Valid /\ [Next]_vars =>
        [\A f \in Flows :
           ~At(f, "coded") /\ flows'[f].at = "coded" /\ IsWeb(Uri[f]) =>
             At(f, "confirming") \/ Listed(Uri[f], allowed)]_vars
  BY <1>1
<1> QED
  BY <1>2, Invariance, ValidAlways, PTL DEF Spec, ConsentFirst

=============================================================================
