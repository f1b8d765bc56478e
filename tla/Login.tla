-------------------------------- MODULE Login --------------------------------
(***************************************************************************)
(* How a process of the laptop gets the access token it connects with, and *)
(* the relay's side of it (src/agent-auth.ts, src/oauth-provider.ts,       *)
(* src/crypto.ts, /callback and the upgrade of src/relay-server.ts).       *)
(*                                                                         *)
(* The relay keeps nothing but its key: states, codes and tokens are       *)
(* sealed blobs, modelled as records of their type, the key they are       *)
(* sealed with and the time they are still good for.  The laptop keeps one *)
(* cache file, shared by its processes.  All times are times left: a Tick  *)
(* takes one from each, and -1 is past.                                    *)
(***************************************************************************)
EXTENDS Integers

CONSTANTS
  Procs,        \* the processes that call getAccessToken
  Agents,       \* those that go on to connect; the others are stubs
  AccessTTL, RefreshTTL, CodeTTL, PendingTTL,  \* what the relay seals for
  Buffer,       \* how much must be left of a cached token
  LoginWindow,  \* how long the agent waits for the browser
  Delay,        \* the most time a request and its answer take
  MaxFaults     \* how many requests fail, processes are killed and secrets are lost

ASSUME LoginAssumption ==
  /\ Agents \subseteq Procs
  /\ {AccessTTL, RefreshTTL, CodeTTL, PendingTTL, Buffer, LoginWindow, Delay} \subseteq Nat \ {0}
  /\ Delay + Delay <= Buffer
  /\ Buffer < AccessTTL
  /\ LoginWindow <= PendingTTL
  /\ Delay <= CodeTTL
  /\ MaxFaults \in Nat

VARIABLES
  key,     \* the relay's key: how many times it restarted with a random secret
  file,    \* the cache file: absent, torn (truncated and not yet written) or whole
  cache,   \* what was last written to it
  pc,      \* where each process is
  cred,    \* the sealed blob it presents, or its browser does
  grant,   \* the tokens in the answer it waits for
  left,    \* the time what it waits for may still take
  faults   \* the faults so far

vars == <<key, file, cache, pc, cred, grant, left, faults>>

\* A process that waits: for an answer, for the browser, or for the disk.
Waiting == {"login", "browser", "exchanging", "refreshing", "answered", "saving", "connecting"}

States == Waiting \cup {"idle", "connected", "lost", "failed"}

Nothing == [type |-> "none", key |-> 0, left |-> -1]
NoGrant == [access |-> Nothing, refresh |-> Nothing]
NoCache == [access |-> Nothing, refresh |-> Nothing, expires |-> -1]

Init ==
  /\ key = 0
  /\ file = "absent"
  /\ cache = NoCache
  /\ pc = [p \in Procs |-> "idle"]
  /\ cred = [p \in Procs |-> Nothing]
  /\ grant = [p \in Procs |-> NoGrant]
  /\ left = [p \in Procs |-> 0]
  /\ faults = 0

Seal(type, ttl) == [type |-> type, key |-> key, left |-> ttl]

\* unseal returns the payload: of this type, under this key, in time.
Unseals(blob, type) == blob.type = type /\ blob.key = key /\ blob.left >= 0

\* The answer of the token endpoint.
Tokens == [access |-> Seal("access", AccessTTL), refresh |-> Seal("refresh", RefreshTTL)]

Become(p, state, blob, time) ==
  /\ pc' = [pc EXCEPT ![p] = state]
  /\ cred' = [cred EXCEPT ![p] = blob]
  /\ left' = [left EXCEPT ![p] = time]

\* getAccessToken returns: an agent connects with the token, a stub drops it.
Return(p, token) ==
  IF p \in Agents THEN Become(p, "connecting", token, Delay) ELSE Become(p, "idle", Nothing, 0)

-----------------------------------------------------------------------------
(* getAccessToken. *)

Called(p) == pc[p] \in {"idle", "lost", "failed"}

\* Mutant: a token is used to its last moment.
GoodEnoughUnbuffered == cache.expires >= 0

\* The cached token is not about to expire.
GoodEnough == cache.expires > Buffer

UseCached(p) ==
  /\ Called(p)
  /\ file = "whole"
  /\ GoodEnough
  /\ Return(p, cache.access)
  /\ UNCHANGED <<key, file, cache, grant, faults>>

StartRefresh(p) ==
  /\ Called(p)
  /\ file = "whole"
  /\ ~GoodEnough
  /\ Become(p, "refreshing", cache.refresh, Delay)
  /\ UNCHANGED <<key, file, cache, grant, faults>>

\* No cache file, or one that does not parse.
StartLogin(p) ==
  /\ Called(p)
  /\ file # "whole"
  /\ Become(p, "login", Nothing, Delay)
  /\ UNCHANGED <<key, file, cache, grant, faults>>

\* The endpoints are known, the callback server listens, the browser is opened.
OpenBrowser(p) ==
  /\ pc[p] = "login"
  /\ Become(p, "browser", Nothing, LoginWindow)
  /\ UNCHANGED <<key, file, cache, grant, faults>>

LoginTimeout(p) ==
  /\ pc[p] = "browser"
  /\ left[p] = 0
  /\ Become(p, "failed", Nothing, 0)
  /\ UNCHANGED <<key, file, cache, grant, faults>>

\* The answer is here; writing the cache file begins by truncating it.
SaveBegins(p) ==
  /\ pc[p] = "answered"
  /\ file' = "torn"
  /\ cache' = NoCache
  /\ Become(p, "saving", Nothing, 0)
  /\ UNCHANGED <<key, grant, faults>>

\* Mutant: an answer that does not say when it expires is saved as it is.
SavedNoExpiry(p) ==
  /\ pc[p] = "saving"
  /\ file' = "whole"
  /\ cache' = grant[p]
  /\ grant' = [grant EXCEPT ![p] = NoGrant]
  /\ Return(p, grant[p].access)
  /\ UNCHANGED <<key, faults>>

\* The file is written, and the token returned.
Saved(p) ==
  /\ pc[p] = "saving"
  /\ file' = "whole"
  /\ cache' = [access |-> grant[p].access, refresh |-> grant[p].refresh, expires |-> AccessTTL]
  /\ grant' = [grant EXCEPT ![p] = NoGrant]
  /\ Return(p, grant[p].access)
  /\ UNCHANGED <<key, faults>>

\* A request or its answer is lost: a refresh falls back to the login, and a
\* login throws.
RequestFails(p) ==
  /\ faults < MaxFaults
  /\ faults' = faults + 1
  /\ pc[p] \in {"refreshing", "login", "exchanging", "answered"}
  /\ IF cred[p].type = "refresh"
       THEN Become(p, "login", Nothing, Delay)
       ELSE Become(p, "failed", Nothing, 0)
  /\ grant' = [grant EXCEPT ![p] = NoGrant]
  /\ UNCHANGED <<key, file, cache>>

-----------------------------------------------------------------------------
(* The relay. *)

\* Mutant: the state is sealed for as long as a code.
AuthorizeBriefly(p) ==
  /\ pc[p] = "browser"
  /\ cred[p] = Nothing
  /\ cred' = [cred EXCEPT ![p] = Seal("pending", CodeTTL)]
  /\ UNCHANGED <<key, file, cache, pc, grant, left, faults>>

\* /authorize, each time the browser asks for it.
Authorize(p) ==
  /\ pc[p] = "browser"
  /\ cred[p] = Nothing
  /\ cred' = [cred EXCEPT ![p] = Seal("pending", PendingTTL)]
  /\ UNCHANGED <<key, file, cache, pc, grant, left, faults>>

\* /callback, once the user has logged in: the code, or an error page.
Callback(p) ==
  /\ pc[p] = "browser"
  /\ cred[p] # Nothing
  /\ IF Unseals(cred[p], "pending")
       THEN Become(p, "exchanging", Seal("auth_code", CodeTTL), Delay)
       ELSE Become(p, "browser", Nothing, left[p])
  /\ UNCHANGED <<key, file, cache, grant, faults>>

\* The token endpoint answers with new tokens.
AnswerTokens(p) ==
  /\ grant' = [grant EXCEPT ![p] = Tokens]
  /\ pc' = [pc EXCEPT ![p] = "answered"]
  /\ UNCHANGED <<cred, left>>

ExchangeCode(p) ==
  /\ pc[p] = "exchanging"
  /\ IF Unseals(cred[p], "auth_code")
       THEN AnswerTokens(p)
       ELSE Become(p, "failed", Nothing, 0) /\ UNCHANGED grant
  /\ UNCHANGED <<key, file, cache, faults>>

\* Mutant: a refresh the relay refuses is taken for a passing fault.
ExchangeRefreshGivesUp(p) ==
  /\ pc[p] = "refreshing"
  /\ IF Unseals(cred[p], "refresh")
       THEN AnswerTokens(p)
       ELSE Become(p, "lost", Nothing, 0) /\ UNCHANGED grant
  /\ UNCHANGED <<key, file, cache, faults>>

\* A refresh token the relay refuses sends the agent to the browser.
ExchangeRefresh(p) ==
  /\ pc[p] = "refreshing"
  /\ IF Unseals(cred[p], "refresh")
       THEN AnswerTokens(p)
       ELSE Become(p, "login", Nothing, Delay) /\ UNCHANGED grant
  /\ UNCHANGED <<key, file, cache, faults>>

\* The upgrade of a websocket: verifyAccessToken, or 401.
Upgrade(p) ==
  /\ pc[p] = "connecting"
  /\ Become(p, IF Unseals(cred[p], "access") THEN "connected" ELSE "lost", Nothing, 0)
  /\ UNCHANGED <<key, file, cache, grant, faults>>

\* The relay restarts and, with no secret configured, draws a new key.
Restart ==
  /\ faults < MaxFaults
  /\ faults' = faults + 1
  /\ key' = key + 1
  /\ pc' = [p \in Procs |-> IF pc[p] = "connected" THEN "lost" ELSE pc[p]]
  /\ UNCHANGED <<file, cache, cred, grant, left>>

-----------------------------------------------------------------------------
(* The network, the processes and the clock. *)

\* A connection, or an attempt at one, is lost; only the latter is bounded.
ConnectionLost(p) ==
  /\ \/ pc[p] = "connected" /\ UNCHANGED faults
     \/ pc[p] = "connecting" /\ faults < MaxFaults /\ faults' = faults + 1
  /\ Become(p, "lost", Nothing, 0)
  /\ UNCHANGED <<key, file, cache, grant>>

\* The process is killed, in the middle of writing the file perhaps.
Killed(p) ==
  /\ faults < MaxFaults
  /\ faults' = faults + 1
  /\ pc[p] \notin {"idle", "failed"}
  /\ Become(p, "failed", Nothing, 0)
  /\ grant' = [grant EXCEPT ![p] = NoGrant]
  /\ UNCHANGED <<key, file, cache>>

Less(time) == IF time = -1 THEN -1 ELSE time - 1
Aged(blob) == [blob EXCEPT !.left = Less(@)]

\* Time passes while nobody's wait is due to end.
Tick ==
  /\ \A p \in Procs : pc[p] \in Waiting => left[p] > 0
  /\ left' = [p \in Procs |-> IF pc[p] \in Waiting THEN left[p] - 1 ELSE left[p]]
  /\ cred' = [p \in Procs |-> Aged(cred[p])]
  /\ grant' = [p \in Procs |->
                 [access |-> Aged(grant[p].access), refresh |-> Aged(grant[p].refresh)]]
  /\ cache' = [access |-> Aged(cache.access), refresh |-> Aged(cache.refresh),
               expires |-> Less(cache.expires)]
  /\ UNCHANGED <<key, file, pc, faults>>

-----------------------------------------------------------------------------

\* What process p does, and the relay for it, while nothing fails.
Progress(p) ==
  \/ UseCached(p) \/ StartRefresh(p) \/ StartLogin(p) \/ OpenBrowser(p) \/ LoginTimeout(p)
  \/ SaveBegins(p) \/ Saved(p) \/ ExchangeCode(p) \/ ExchangeRefresh(p) \/ Upgrade(p)

Next ==
  \/ \E p \in Procs : \/ Progress(p) \/ Authorize(p) \/ Callback(p)
                      \/ RequestFails(p) \/ ConnectionLost(p) \/ Killed(p)
  \/ Restart
  \/ Tick

\* Clocks run, requests are answered, and an agent that lost its connection calls
\* getAccessToken again.  Nobody has to start a process or to log in.
Fairness ==
  /\ WF_vars(Tick)
  /\ \A p \in Procs : WF_vars(pc[p] \in Waiting \cup {"lost"} /\ Progress(p))

Spec == Init /\ [][Next]_vars /\ Fairness

-----------------------------------------------------------------------------
(* Properties. *)

Blobs == [type : {"none", "pending", "auth_code", "access", "refresh"},
          key : 0..MaxFaults, left : Nat \cup {-1}]

\* Every variable has its type, and no blob is sealed with a key yet to come.
TypeOK ==
  /\ key \in 0..faults
  /\ faults \in 0..MaxFaults
  /\ file \in {"absent", "torn", "whole"}
  /\ cache \in [access : Blobs, refresh : Blobs, expires : Nat \cup {-1}]
  /\ pc \in [Procs -> States]
  /\ cred \in [Procs -> Blobs]
  /\ grant \in [Procs -> [access : Blobs, refresh : Blobs]]
  /\ left \in [Procs -> Nat]
  /\ cache.access.key <= key /\ cache.refresh.key <= key
  /\ \A p \in Procs : /\ cred[p].key <= key
                      /\ grant[p].access.key <= key
                      /\ grant[p].refresh.key <= key

\* The token an agent connects with has not expired when it reaches the relay,
\* though it comes from a cache two processes write, and its recorded expiry was
\* computed by the agent when the answer arrived: only a new key refuses it.
TokenInTime ==
  \A p \in Procs :
    pc[p] = "connecting" => cred[p].type = "access" /\ (cred[p].key = key => cred[p].left >= 0)

\* The relay does not refuse a login for its time while the agent waits for it:
\* the state outlives the agent's window, and the code its exchange.
LoginInTime ==
  \A p \in Procs :
    /\ pc[p] = "browser" /\ cred[p].type = "pending" /\ cred[p].key = key => cred[p].left >= 0
    /\ pc[p] = "exchanging" /\ cred[p].key = key => cred[p].left >= 0

\* An agent that lost the relay, though it lost its key too and refuses what is
\* cached, connects again, unless its login fails: it does not present the same
\* refused token for ever.
Recovers == \A p \in Procs : pc[p] = "lost" ~> pc[p] \in {"connected", "failed"}

=============================================================================
