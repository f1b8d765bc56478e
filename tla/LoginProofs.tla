----------------------------- MODULE LoginProofs -----------------------------
(***************************************************************************)
(* Theorems about Login, for every choice of the times that meets          *)
(* LoginAssumption and any number of processes and faults: no token and no *)
(* login arrives at the relay too late.                                    *)
(***************************************************************************)
EXTENDS Login, TLAPS

\* A step of process p with the relay.
ProcStep(p) ==
  \/ Progress(p) \/ Authorize(p) \/ Callback(p)
  \/ RequestFails(p) \/ ConnectionLost(p) \/ Killed(p)

LEMMA Constants ==
  /\ AccessTTL \in Nat /\ RefreshTTL \in Nat /\ CodeTTL \in Nat /\ PendingTTL \in Nat
  /\ Buffer \in Nat /\ LoginWindow \in Nat /\ Delay \in Nat /\ MaxFaults \in Nat
  /\ Delay + Delay <= Buffer /\ Buffer < AccessTTL
  /\ LoginWindow <= PendingTTL /\ Delay <= CodeTTL
BY LoginAssumption

-----------------------------------------------------------------------------
(* Types. *)

LEMMA InitType == Init => TypeOK
BY Constants DEF Init, TypeOK, Blobs, States, Waiting, Nothing, NoGrant, NoCache

LEMMA SealType ==
  ASSUME TypeOK, NEW type \in {"pending", "auth_code", "access", "refresh"}, NEW ttl \in Nat
  PROVE  Seal(type, ttl) \in Blobs /\ Seal(type, ttl).key = key
BY Constants DEF Seal, Blobs, TypeOK

LEMMA NothingType == Nothing \in Blobs /\ Nothing.key = 0
BY Constants DEF Nothing, Blobs

LEMMA NothingFits == TypeOK => Nothing.key <= key /\ key \in Nat
BY Constants DEF TypeOK, Nothing

\* The parts of TypeOK.
Grants   == [access : Blobs, refresh : Blobs]
CountsOK == key \in 0..faults /\ faults \in 0..MaxFaults
CacheOK  ==
  /\ file \in {"absent", "torn", "whole"}
  /\ cache \in [access : Blobs, refresh : Blobs, expires : Nat \cup {-1}]
  /\ cache.access.key <= key /\ cache.refresh.key <= key
ProcsOK  ==
  /\ pc \in [Procs -> States]
  /\ cred \in [Procs -> Blobs]
  /\ left \in [Procs -> Nat]
  /\ \A q \in Procs : cred[q].key <= key
GrantsOK ==
  /\ grant \in [Procs -> Grants]
  /\ \A q \in Procs : grant[q].access.key <= key /\ grant[q].refresh.key <= key

LEMMA TypeParts == TypeOK <=> CountsOK /\ CacheOK /\ ProcsOK /\ GrantsOK
BY DEF TypeOK, CountsOK, CacheOK, ProcsOK, GrantsOK, Grants

LEMMA BecomeType ==
  ASSUME ProcsOK, NEW p \in Procs, NEW state \in States, NEW blob \in Blobs, NEW time \in Nat,
         blob.key <= key, Become(p, state, blob, time), key' = key
  PROVE  ProcsOK'
BY DEF Become, ProcsOK

LEMMA ReturnType ==
  ASSUME TypeOK, NEW p \in Procs, NEW token \in Blobs, token.key <= key, Return(p, token),
         key' = key
  PROVE  ProcsOK'
<1> ProcsOK
  BY TypeParts
<1>1. CASE Become(p, "connecting", token, Delay)
  BY <1>1, BecomeType, Constants DEF States, Waiting
<1>2. CASE Become(p, "idle", Nothing, 0)
  BY <1>2, BecomeType, NothingType, NothingFits DEF States
<1> QED
  BY <1>1, <1>2 DEF Return

\* A process that goes on with nothing in hand.
LEMMA BecomeEmptyType ==
  ASSUME TypeOK, NEW p \in Procs, NEW state \in States, NEW time \in Nat,
         Become(p, state, Nothing, time), key' = key
  PROVE  ProcsOK'
BY TypeParts, BecomeType, NothingType, NothingFits

LEMMA GrantType ==
  ASSUME GrantsOK, NEW p \in Procs, NEW g \in Grants, g.access.key <= key, g.refresh.key <= key,
         grant' = [grant EXCEPT ![p] = g], key' = key
  PROVE  GrantsOK'
BY DEF GrantsOK, Grants

LEMMA NoGrantType ==
  ASSUME TypeOK, NEW p \in Procs, grant' = [grant EXCEPT ![p] = NoGrant], key' = key
  PROVE  GrantsOK'
<1>1. NoGrant \in Grants /\ NoGrant.access.key <= key /\ NoGrant.refresh.key <= key
  BY NothingType, NothingFits DEF NoGrant, Grants
<1> QED
  BY <1>1, GrantType, TypeParts

LEMMA TokensType ==
  ASSUME TypeOK, NEW p \in Procs, grant' = [grant EXCEPT ![p] = Tokens], key' = key
  PROVE  GrantsOK'
<1>1. /\ Seal("access", AccessTTL) \in Blobs /\ Seal("access", AccessTTL).key = key
      /\ Seal("refresh", RefreshTTL) \in Blobs /\ Seal("refresh", RefreshTTL).key = key
  BY SealType, Constants
<1>2. key <= key
  BY NothingFits
<1>3. Tokens \in Grants /\ Tokens.access.key <= key /\ Tokens.refresh.key <= key
  BY <1>1, <1>2 DEF Tokens, Grants
<1> QED
  BY <1>3, GrantType, TypeParts

LEMMA FaultType ==
  ASSUME CountsOK, key' = key, faults' = faults \/ (faults < MaxFaults /\ faults' = faults + 1)
  PROVE  CountsOK'
BY Constants DEF CountsOK

LEMMA ProcType ==
  ASSUME TypeOK, NEW p \in Procs, ProcStep(p)
  PROVE  TypeOK'
<1>0. CountsOK /\ CacheOK /\ ProcsOK /\ GrantsOK
  BY TypeParts
<1>a. /\ cache.access \in Blobs /\ cache.access.key <= key
      /\ cache.refresh \in Blobs /\ cache.refresh.key <= key
      /\ grant[p].access \in Blobs /\ grant[p].access.key <= key
      /\ grant[p].refresh \in Blobs /\ grant[p].refresh.key <= key
  BY <1>0 DEF CacheOK, GrantsOK, Grants
<1>b. ProcStep(p) => key' = key
  BY DEF ProcStep, Progress, UseCached, StartRefresh, StartLogin, OpenBrowser, LoginTimeout,
         SaveBegins, Saved, ExchangeCode, ExchangeRefresh, Upgrade, Authorize, Callback,
         RequestFails, ConnectionLost, Killed
<1>1. CountsOK'
  BY <1>0, <1>b, FaultType
     DEF ProcStep, Progress, UseCached, StartRefresh, StartLogin, OpenBrowser, LoginTimeout,
         SaveBegins, Saved, ExchangeCode, ExchangeRefresh, Upgrade, Authorize, Callback,
         RequestFails, ConnectionLost, Killed
<1>2. CacheOK'
  <2>1. CASE SaveBegins(p)
    BY <1>0, <1>b, <2>1, NothingType, NothingFits DEF SaveBegins, CacheOK, NoCache
  <2>2. CASE Saved(p)
    BY <1>a, <1>b, <2>2, Constants DEF Saved, CacheOK
  <2>3. CASE UNCHANGED <<file, cache>>
    BY <1>0, <1>b, <2>3 DEF CacheOK
  <2> QED
    BY <2>1, <2>2, <2>3
       DEF ProcStep, Progress, UseCached, StartRefresh, StartLogin, OpenBrowser, LoginTimeout,
           ExchangeCode, ExchangeRefresh, Upgrade, Authorize, Callback, RequestFails,
           ConnectionLost, Killed
<1>3. GrantsOK'
  <2>1. CASE grant' = [grant EXCEPT ![p] = NoGrant]
    BY <1>b, <2>1, NoGrantType
  <2>2. CASE grant' = [grant EXCEPT ![p] = Tokens]
    BY <1>b, <2>2, TokensType
  <2>3. CASE UNCHANGED grant
    BY <1>0, <1>b, <2>3 DEF GrantsOK
  <2> QED
    BY <2>1, <2>2, <2>3
       DEF ProcStep, Progress, UseCached, StartRefresh, StartLogin, OpenBrowser, LoginTimeout,
           SaveBegins, Saved, ExchangeCode, ExchangeRefresh, AnswerTokens, Upgrade, Authorize,
           Callback, RequestFails, ConnectionLost, Killed
<1>4. ProcsOK'
  <2>1. CASE UseCached(p) \/ Saved(p)
    BY <1>a, <1>b, <2>1, ReturnType DEF UseCached, Saved
  <2>2. CASE StartRefresh(p)
    BY <1>0, <1>a, <1>b, <2>2, BecomeType, Constants DEF StartRefresh, States, Waiting
  <2>3. CASE StartLogin(p) \/ OpenBrowser(p) \/ LoginTimeout(p) \/ SaveBegins(p) \/ Killed(p)
    BY <1>b, <2>3, BecomeEmptyType, Constants
       DEF StartLogin, OpenBrowser, LoginTimeout, SaveBegins, Killed, States, Waiting
  <2>4. CASE Upgrade(p) \/ ConnectionLost(p) \/ RequestFails(p)
    BY <1>b, <2>4, BecomeEmptyType, Constants
       DEF Upgrade, ConnectionLost, RequestFails, States, Waiting
  <2>5. CASE AnswerTokens(p)
    BY <1>0, <1>b, <2>5 DEF AnswerTokens, ProcsOK, States, Waiting
  <2>6. CASE ExchangeCode(p) \/ ExchangeRefresh(p)
    BY <1>b, <2>5, <2>6, BecomeEmptyType, Constants
       DEF ExchangeCode, ExchangeRefresh, States, Waiting
  <2>7. CASE Authorize(p)
    <3>1. Seal("pending", PendingTTL) \in Blobs /\ Seal("pending", PendingTTL).key <= key
      BY SealType, NothingFits, Constants
    <3> QED
      BY <1>0, <1>b, <2>7, <3>1 DEF Authorize, ProcsOK
  <2>8. CASE Callback(p)
    <3>1. Seal("auth_code", CodeTTL) \in Blobs /\ Seal("auth_code", CodeTTL).key <= key
      BY SealType, NothingFits, Constants
    <3>2. left[p] \in Nat
      BY <1>0 DEF ProcsOK
    <3> QED
      BY <1>0, <1>b, <2>8, <3>1, <3>2, BecomeType, BecomeEmptyType, Constants
         DEF Callback, States, Waiting
  <2> QED
    BY <2>1, <2>2, <2>3, <2>4, <2>6, <2>7, <2>8 DEF ProcStep, Progress
<1> QED
  BY <1>1, <1>2, <1>3, <1>4 DEF TypeOK, CountsOK, CacheOK, ProcsOK, GrantsOK, Grants

LEMMA AgedType ==
  ASSUME NEW blob \in Blobs
  PROVE  Aged(blob) \in Blobs /\ Aged(blob).key = blob.key /\ Aged(blob).type = blob.type
         /\ Aged(blob).left = Less(blob.left)
BY DEF Aged, Less, Blobs

LEMMA TickType ==
  ASSUME TypeOK, Tick
  PROVE  TypeOK'
<1>0. CountsOK /\ CacheOK /\ ProcsOK /\ GrantsOK
  BY TypeParts
<1>1. CountsOK'
  BY <1>0 DEF Tick, CountsOK
<1>2. CacheOK'
  <2>1. cache.access \in Blobs /\ cache.refresh \in Blobs /\ cache.expires \in Nat \cup {-1}
    BY <1>0 DEF CacheOK
  <2>2. Less(cache.expires) \in Nat \cup {-1}
    BY <2>1 DEF Less
  <2> QED
    BY <1>0, <2>1, <2>2, AgedType DEF Tick, CacheOK
<1>3. ProcsOK'
  BY <1>0, AgedType DEF Tick, ProcsOK
<1>4. GrantsOK'
  BY <1>0, AgedType DEF Tick, GrantsOK, Grants
<1> QED
  BY <1>1, <1>2, <1>3, <1>4 DEF TypeOK, CountsOK, CacheOK, ProcsOK, GrantsOK, Grants

LEMMA RestartType ==
  ASSUME TypeOK, Restart
  PROVE  TypeOK'
<1>0. CountsOK /\ CacheOK /\ ProcsOK /\ GrantsOK
  BY TypeParts
<1>1. CountsOK' /\ key \in Nat /\ key' = key + 1
  BY <1>0, Constants DEF Restart, CountsOK
<1>2. CacheOK'
  BY <1>0, <1>1 DEF Restart, CacheOK, Blobs
<1>3. ProcsOK'
  BY <1>0, <1>1 DEF Restart, ProcsOK, States, Waiting, Blobs
<1>4. GrantsOK'
  BY <1>0, <1>1 DEF Restart, GrantsOK, Grants, Blobs
<1> QED
  BY <1>1, <1>2, <1>3, <1>4 DEF TypeOK, CountsOK, CacheOK, ProcsOK, GrantsOK, Grants

LEMMA StepType == TypeOK /\ [Next]_vars => TypeOK'
<1>1. TypeOK /\ UNCHANGED vars => TypeOK'
  BY DEF TypeOK, vars
<1> QED
  BY <1>1, ProcType, TickType, RestartType DEF Next, ProcStep

\* The files, blobs and clocks keep their types, and no blob is sealed with a
\* key the relay has not drawn yet.
THEOREM TypeCorrect == Spec => []TypeOK
BY InitType, StepType, PTL DEF Spec


-----------------------------------------------------------------------------
(* Nothing arrives too late. *)

\* The blob, unless the relay lost its key, is good for this long.
GoodFor(blob, time) == blob.key = key => blob.left >= time

\* No wait is longer than it may be.
WaitBounded(p) ==
  /\ pc[p] \in {"refreshing", "exchanging", "answered", "connecting"} => left[p] <= Delay
  /\ pc[p] = "saving" => left[p] = 0
  /\ pc[p] = "browser" => left[p] <= LoginWindow

\* What a process waits with is good to the end of its wait; the token in an answer
\* is still good for its whole time but what the answer has been under way.
InHand(p) ==
  /\ pc[p] = "connecting" => cred[p].type = "access" /\ GoodFor(cred[p], left[p])
  /\ pc[p] = "browser" /\ cred[p].type = "pending" => GoodFor(cred[p], left[p])
  /\ pc[p] = "exchanging" => GoodFor(cred[p], left[p])
  /\ pc[p] \in {"answered", "saving"} =>
       grant[p].access.type = "access" /\ GoodFor(grant[p].access, (AccessTTL - Delay) + left[p])

\* The recorded expiry is at most Delay later than the relay's.
CacheSound ==
  file = "whole" => cache.access.type = "access" /\ GoodFor(cache.access, cache.expires - Delay)

TimeInv ==
  /\ TypeOK
  /\ CacheSound
  /\ \A p \in Procs : WaitBounded(p) /\ InHand(p)

LEMMA InitTime == Init => TimeInv
BY InitType DEF Init, TimeInv, CacheSound, WaitBounded, InHand

\* A process that goes on without a token in hand.
LEMMA BecomeTime ==
  ASSUME TypeOK, NEW p \in Procs, WaitBounded(p), InHand(p), key' = key,
         NEW state \in States \ {"connecting", "answered", "saving"}, NEW blob, NEW time,
         Become(p, state, blob, time),
         state \in {"refreshing", "exchanging"} => time <= Delay,
         state = "browser" => time <= LoginWindow,
         state \in {"browser", "exchanging"} => blob = Nothing \/ GoodFor(blob, time),
         state = "exchanging" => GoodFor(blob, time)
  PROVE  WaitBounded(p)' /\ InHand(p)'
BY DEF Become, WaitBounded, InHand, GoodFor, TypeOK, Nothing

LEMMA ReturnTime ==
  ASSUME TypeOK, NEW p \in Procs, NEW token, key' = key, Return(p, token),
         token.type = "access", GoodFor(token, Delay)
  PROVE  WaitBounded(p)' /\ InHand(p)'
BY Constants DEF Return, Become, WaitBounded, InHand, GoodFor, TypeOK

\* A step of p leaves what the others wait with alone.
LEMMA OthersTime ==
  ASSUME TypeOK, NEW p \in Procs, NEW q \in Procs \ {p}, ProcStep(p), WaitBounded(q), InHand(q)
  PROVE  WaitBounded(q)' /\ InHand(q)'
<1>1. /\ key' = key /\ pc'[q] = pc[q] /\ cred'[q] = cred[q] /\ left'[q] = left[q]
      /\ grant'[q] = grant[q]
  BY DEF ProcStep, Progress, UseCached, StartRefresh, StartLogin, OpenBrowser, LoginTimeout,
         SaveBegins, Saved, ExchangeCode, ExchangeRefresh, AnswerTokens, Upgrade, Authorize,
         Callback, RequestFails, ConnectionLost, Killed, Return, Become, TypeOK
<1> QED
  BY <1>1 DEF WaitBounded, InHand, GoodFor

LEMMA ProcTime ==
  ASSUME TimeInv, NEW p \in Procs, ProcStep(p)
  PROVE  CacheSound' /\ WaitBounded(p)' /\ InHand(p)'
<1>0. TypeOK /\ CacheSound /\ WaitBounded(p) /\ InHand(p) /\ left[p] \in Nat
  BY DEF TimeInv, TypeOK
<1>1. CASE UseCached(p)
  <2>1. cache.access.type = "access" /\ GoodFor(cache.access, Delay)
    <3>1. cache.expires \in Nat \cup {-1} /\ cache.access.left \in Nat \cup {-1}
      BY <1>0 DEF TypeOK, Blobs
    <3> QED
      BY <1>0, <1>1, <3>1, Constants DEF UseCached, GoodEnough, CacheSound, GoodFor
  <2> QED
    BY <1>0, <1>1, <2>1, ReturnTime DEF UseCached, CacheSound, GoodFor
<1>2. CASE StartRefresh(p) \/ StartLogin(p) \/ OpenBrowser(p) \/ LoginTimeout(p)
  BY <1>0, <1>2, BecomeTime, Constants
     DEF StartRefresh, StartLogin, OpenBrowser, LoginTimeout, CacheSound, GoodFor, States, Waiting
<1>3. CASE SaveBegins(p)
  BY <1>0, <1>3, Constants
     DEF SaveBegins, Become, CacheSound, WaitBounded, InHand, GoodFor, TypeOK, Blobs, Grants
<1>4. CASE Saved(p)
  <2>1. grant[p].access.type = "access" /\ GoodFor(grant[p].access, AccessTTL - Delay)
    BY <1>0, <1>4, Constants DEF Saved, WaitBounded, InHand
  <2>2. GoodFor(grant[p].access, Delay)
    <3>1. grant[p].access.left \in Int
      BY <1>0 DEF TypeOK, Blobs
    <3> QED
      BY <2>1, <3>1, Constants DEF GoodFor
  <2> QED
    BY <1>0, <1>4, <2>1, <2>2, ReturnTime DEF Saved, CacheSound, GoodFor
<1>5. CASE /\ AnswerTokens(p) /\ pc[p] \in {"refreshing", "exchanging"}
           /\ UNCHANGED <<key, file, cache>>
  BY <1>0, <1>5, Constants
     DEF AnswerTokens, Tokens, Seal, CacheSound, WaitBounded, InHand, GoodFor, TypeOK
<1>6. CASE ExchangeCode(p) \/ ExchangeRefresh(p)
  BY <1>0, <1>5, <1>6, BecomeTime
     DEF ExchangeCode, ExchangeRefresh, CacheSound, GoodFor, States, Waiting
<1>7. CASE Upgrade(p) \/ RequestFails(p) \/ ConnectionLost(p) \/ Killed(p)
  BY <1>0, <1>7, BecomeTime
     DEF Upgrade, RequestFails, ConnectionLost, Killed, CacheSound, GoodFor, States, Waiting
<1>8. CASE Authorize(p)
  BY <1>0, <1>8, Constants
     DEF Authorize, Seal, CacheSound, WaitBounded, InHand, GoodFor, TypeOK
<1>9. CASE Callback(p)
  BY <1>0, <1>9, BecomeTime, Constants
     DEF Callback, Seal, WaitBounded, CacheSound, GoodFor, States, Waiting
<1> QED
  BY <1>1, <1>2, <1>3, <1>4, <1>6, <1>7, <1>8, <1>9 DEF ProcStep, Progress

LEMMA AgedGood ==
  ASSUME NEW blob \in Blobs, NEW time \in Int, time > -1, GoodFor(blob, time), key' = key
  PROVE  Aged(blob).key = key' => Aged(blob).left >= time - 1
BY AgedType DEF GoodFor, Less, Blobs

LEMMA TickTime ==
  ASSUME TimeInv, Tick
  PROVE  CacheSound' /\ \A p \in Procs : WaitBounded(p)' /\ InHand(p)'
<1>0. TypeOK /\ CacheSound
  BY DEF TimeInv
<1>1. CacheSound'
  <2>1. cache.access \in Blobs /\ cache.expires \in Nat \cup {-1}
    BY <1>0 DEF TypeOK
  <2> QED
    BY <1>0, <2>1, AgedType, Constants DEF Tick, CacheSound, GoodFor, Less, Blobs
<1>2. ASSUME NEW p \in Procs PROVE WaitBounded(p)' /\ InHand(p)'
  <2>1. /\ WaitBounded(p) /\ InHand(p) /\ left[p] \in Nat
        /\ cred[p] \in Blobs /\ grant[p].access \in Blobs
    BY <1>0 DEF TimeInv, TypeOK
  <2>2. /\ key' = key /\ pc'[p] = pc[p] /\ cred'[p] = Aged(cred[p])
        /\ grant'[p].access = Aged(grant[p].access)
        /\ pc[p] \in Waiting => left[p] > 0 /\ left'[p] = left[p] - 1
    BY DEF Tick
  <2>3. WaitBounded(p)'
    BY <2>1, <2>2, Constants DEF WaitBounded, Waiting
  <2>4. InHand(p)'
    BY <2>1, <2>2, AgedType, AgedGood, Constants DEF InHand, GoodFor, Waiting
  <2> QED
    BY <2>3, <2>4
<1> QED
  BY <1>1, <1>2

\* A new key leaves nothing to be good for.
LEMMA RestartTime ==
  ASSUME TimeInv, Restart
  PROVE  CacheSound' /\ \A p \in Procs : WaitBounded(p)' /\ InHand(p)'
<1>1. TypeOK /\ CacheSound /\ key \in Nat
  BY NothingFits DEF TimeInv
<1>2. CacheSound'
  BY <1>1 DEF Restart, CacheSound, GoodFor, TypeOK, Blobs
<1>3. ASSUME NEW p \in Procs PROVE WaitBounded(p)' /\ InHand(p)'
  <2>1. WaitBounded(p) /\ InHand(p)
    BY DEF TimeInv
  <2>2. /\ cred[p].key \in Nat /\ cred[p].key <= key
        /\ grant[p].access.key \in Nat /\ grant[p].access.key <= key
    BY <1>1 DEF TypeOK, Blobs
  <2>3. /\ key' = key + 1 /\ cred' = cred /\ grant' = grant /\ left' = left
        /\ pc'[p] = pc[p] \/ pc'[p] = "lost"
    BY DEF Restart
  <2> QED
    BY <1>1, <2>1, <2>2, <2>3 DEF WaitBounded, InHand, GoodFor
<1> QED
  BY <1>2, <1>3

LEMMA StepTime == TimeInv /\ [Next]_vars => TimeInv'
<1> SUFFICES ASSUME TimeInv, [Next]_vars PROVE TimeInv'
  OBVIOUS
<1>1. TypeOK'
  BY StepType DEF TimeInv
<1>2. CASE UNCHANGED vars
  BY <1>1, <1>2 DEF TimeInv, vars, CacheSound, WaitBounded, InHand, GoodFor
<1>3. ASSUME NEW p \in Procs, ProcStep(p) PROVE TimeInv'
  BY <1>1, <1>3, ProcTime, OthersTime DEF TimeInv
<1>4. CASE Tick
  BY <1>1, <1>4, TickTime DEF TimeInv
<1>5. CASE Restart
  BY <1>1, <1>5, RestartTime DEF TimeInv
<1> QED
  BY <1>2, <1>3, <1>4, <1>5 DEF Next, ProcStep

\* The token an agent connects with, cached or fresh, is still good when it reaches
\* the relay, unless the relay lost the key it was sealed with.
THEOREM TokensArriveInTime == Spec => []TokenInTime
<1>1. TimeInv => TokenInTime
  BY DEF TimeInv, TokenInTime, InHand, GoodFor, TypeOK, Blobs
<1> QED
  BY <1>1, InitTime, StepTime, PTL DEF Spec

\* While the agent waits for a login, neither its state nor its code expires.
THEOREM LoginsArriveInTime == Spec => []LoginInTime
<1>1. ASSUME TimeInv PROVE LoginInTime
  <2> SUFFICES ASSUME NEW p \in Procs, cred[p].key = key,
                      \/ pc[p] = "browser" /\ cred[p].type = "pending"
                      \/ pc[p] = "exchanging"
               PROVE  cred[p].left >= 0
    BY DEF LoginInTime
  <2>1. cred[p] \in Blobs /\ left[p] \in Nat
    BY <1>1 DEF TimeInv, TypeOK
  <2>2. cred[p].left >= left[p]
    BY <1>1 DEF TimeInv, InHand, GoodFor
  <2> QED
    BY <2>1, <2>2 DEF Blobs
<1> QED
  BY <1>1, InitTime, StepTime, PTL DEF Spec

=============================================================================
