------------------------------- MODULE SignIn -------------------------------
(***************************************************************************)
(* Signing in an MCP client at the relay (/authorize and /callback of      *)
(* src/relay-server.ts, src/oidc-client.ts, src/oauth-provider.ts).        *)
(*                                                                         *)
(* The relay sends the browser to the login provider and redeems what it   *)
(* comes back with.  Where to is in the provider's discovery document,     *)
(* which it caches; the keys it checks ID tokens with are from the first   *)
(* document it needed them of.  The provider may move: give its endpoints  *)
(* and its keys new URIs, of which the document then tells.  Each flow is  *)
(* carried by the browser, in a sealed state and then in a sealed code, so *)
(* the relay may restart under it.                                         *)
(***************************************************************************)
EXTENDS Integers, RedirectUri

CONSTANTS
  Flows,                \* the clients that sign in
  Uri,                  \* [Flows -> the redirect URI of each]
  Lists,                \* the allowedRedirectUris a relay may be configured with
  DocTTL,               \* the longest max-age of a discovery document
  PendingTTL, CodeTTL,  \* what states and codes are sealed for
  Delay,                \* the most time a request of the relay and its answer take
  MaxMoves, MaxRestarts

ASSUME SignInAssumption ==
  /\ {DocTTL, PendingTTL, CodeTTL, Delay} \subseteq Nat \ {0}
  /\ {MaxMoves, MaxRestarts} \subseteq Nat
  /\ Uri \in [Flows -> [parses : BOOLEAN, protocol : STRING, hash : BOOLEAN,
                        loopback : BOOLEAN, target : Seq(STRING)]]

VARIABLES
  upstream,  \* how often the provider moved, from 1 on
  since,     \* history: the time since it did
  doc,       \* the cached document: where the provider was, and the time left to believe it
  jwks,      \* where its keys were when they were first needed, 0 if not yet
  allowed,   \* the list the relay was started with
  flows,     \* [f |-> where it is, the place of the provider it uses, the time its request
             \*  has taken, the time left of its state or code, the provider's code]
  restarts

vars == <<upstream, since, doc, jwks, allowed, flows, restarts>>

\* Long enough since a move for nothing to be left of it.
Long == DocTTL + 2 * Delay
NoDoc == [ver |-> 0, left |-> 0]
\* No flow, or one that ended.
Idle == [at |-> "idle", ver |-> 0, wait |-> 0, left |-> -1, code |-> "unused"]

\* The relay waits: for a document, for the tokens, for the keys.
Discovering == {"discovering", "rediscovering"}
Waiting == Discovering \cup {"exchanging", "verifying"}

Init ==
  /\ upstream = 1 /\ since = Long
  /\ doc = NoDoc /\ jwks = 0
  /\ allowed \in Lists
  /\ flows = [f \in Flows |-> Idle]
  /\ restarts = 0

At(f, state) == flows[f].at = state

Goes(f, state, ver) ==
  flows' = [flows EXCEPT ![f].at = state, ![f].ver = ver, ![f].wait = 0]

Ends(f, state) == flows' = [flows EXCEPT ![f] = [Idle EXCEPT !.at = state]]

-----------------------------------------------------------------------------
(* The discovery document. *)

\* Mutant: a document once cached is used for ever.
FreshForever == doc.ver # 0

\* Date.now() < this.discoveryExpiresAt
Fresh == doc.left > 0

\* The provider answers with where it is now; the answer is on its way.
Serve(f) ==
  /\ flows[f].at \in Discovering
  /\ flows[f].ver = 0
  /\ flows' = [flows EXCEPT ![f].ver = upstream]
  /\ UNCHANGED <<upstream, since, doc, jwks, allowed, restarts>>

\* Mutant: a max-age is added to what is left of the document before.
DiscoveredProlonged(f, ttl) ==
  /\ flows[f].at \in Discovering
  /\ flows[f].ver # 0
  /\ doc' = [ver |-> flows[f].ver, left |-> doc.left + ttl]
  /\ Goes(f, IF At(f, "discovering") THEN "upstream" ELSE "exchanging", flows[f].ver)
  /\ UNCHANGED <<upstream, since, jwks, allowed, restarts>>

\* Mutant: the first document is kept, as the first keys are.
DiscoveredFirst(f, ttl) ==
  /\ flows[f].at \in Discovering
  /\ flows[f].ver # 0
  /\ doc' = [ver |-> IF doc.ver = 0 THEN flows[f].ver ELSE doc.ver, left |-> ttl]
  /\ Goes(f, IF At(f, "discovering") THEN "upstream" ELSE "exchanging", flows[f].ver)
  /\ UNCHANGED <<upstream, since, jwks, allowed, restarts>>

\* The answer is here: it is cached, whatever another flow cached since this one
\* asked, and its flow goes on.
Discovered(f, ttl) ==
  /\ flows[f].at \in Discovering
  /\ flows[f].ver # 0
  /\ doc' = [ver |-> flows[f].ver, left |-> ttl]
  /\ Goes(f, IF At(f, "discovering") THEN "upstream" ELSE "exchanging", flows[f].ver)
  /\ UNCHANGED <<upstream, since, jwks, allowed, restarts>>

-----------------------------------------------------------------------------
(* /authorize and the login. *)

\* buildAuthorizeUrl: at once by a fresh document, or when there is one.
AuthorizeUrl ==
  [Idle EXCEPT !.at = IF Fresh THEN "upstream" ELSE "discovering",
               !.ver = IF Fresh THEN doc.ver ELSE 0,
               !.left = PendingTTL]

\* A client starts, or starts again; one whose URI is invalid is told so.
Authorize(f) ==
  /\ flows[f].at \in {"idle", "rejected"}
  /\ Verdict(Uri[f], allowed) # "invalid"
  /\ flows' = [flows EXCEPT ![f] = AuthorizeUrl]
  /\ UNCHANGED <<upstream, since, doc, jwks, allowed, restarts>>

\* The user logs in, where the provider is, and is sent back with a code.
LogIn(f) ==
  /\ At(f, "upstream")
  /\ flows[f].ver = upstream
  /\ Goes(f, "returning", 0)
  /\ UNCHANGED <<upstream, since, doc, jwks, allowed, restarts>>

\* The user closes the page; the provider is not there or sends no code.
GiveUp(f) ==
  /\ flows[f].at \in {"upstream", "returning", "confirming", "coded"}
  /\ Ends(f, "idle")
  /\ UNCHANGED <<upstream, since, doc, jwks, allowed, restarts>>

-----------------------------------------------------------------------------
(* /callback *)

Callback(f) ==
  /\ At(f, "returning")
  /\ IF flows[f].left < 0 THEN Ends(f, "idle")
     ELSE IF Fresh THEN Goes(f, "exchanging", doc.ver)
     ELSE Goes(f, "rediscovering", 0)
  /\ UNCHANGED <<upstream, since, doc, jwks, allowed, restarts>>

\* The provider redeems a code once, where it is now; the keys are remembered
\* when they are first needed.
Exchanged(f) ==
  /\ At(f, "exchanging")
  /\ IF flows[f].ver = upstream /\ flows[f].code = "unused"
       THEN /\ flows' = [flows EXCEPT ![f].at = "verifying", ![f].wait = 0, ![f].code = "redeemed"]
            /\ jwks' = IF jwks = 0 THEN flows[f].ver ELSE jwks
       ELSE Ends(f, "rejected") /\ UNCHANGED jwks
  /\ UNCHANGED <<upstream, since, doc, allowed, restarts>>

\* Mutant: the second check of the URI goes by the defaults.
VerifiedByDefaults(f) ==
  /\ At(f, "verifying")
  /\ jwks = flows[f].ver
  /\ \E list \in Lists :
       flows' = [flows EXCEPT ![f].at = IF Verdict(Uri[f], list) = "needs_consent"
                                          THEN "confirming" ELSE "coded",
                              ![f].wait = 0, ![f].left = CodeTTL]
  /\ UNCHANGED <<upstream, since, doc, jwks, allowed, restarts>>

\* The ID token is good: a code is sealed, and handed over at once or after the
\* page that names where it goes.
Verified(f) ==
  /\ At(f, "verifying")
  /\ jwks = flows[f].ver
  /\ flows' = [flows EXCEPT ![f].at = IF Verdict(Uri[f], allowed) = "needs_consent"
                                        THEN "confirming" ELSE "coded",
                            ![f].wait = 0, ![f].left = CodeTTL]
  /\ UNCHANGED <<upstream, since, doc, jwks, allowed, restarts>>

\* The key it is signed with is not where the keys were, or they are no longer there.
NotVerified(f) ==
  /\ At(f, "verifying")
  /\ jwks # flows[f].ver \/ jwks # upstream
  /\ Ends(f, "rejected")
  /\ UNCHANGED <<upstream, since, doc, jwks, allowed, restarts>>

Confirm(f) ==
  /\ At(f, "confirming")
  /\ flows' = [flows EXCEPT ![f].at = "coded"]
  /\ UNCHANGED <<upstream, since, doc, jwks, allowed, restarts>>

\* The client redeems its code.
Redeem(f) ==
  /\ At(f, "coded")
  /\ Ends(f, IF flows[f].left >= 0 THEN "signedIn" ELSE "idle")
  /\ UNCHANGED <<upstream, since, doc, jwks, allowed, restarts>>

\* Mutant: a request that fails is sent again, and again.
FetchFailsRetried(f) ==
  /\ flows[f].at \in Waiting
  /\ flows' = [flows EXCEPT ![f].ver = IF flows[f].at \in Discovering THEN 0 ELSE flows[f].ver,
                            ![f].wait = 0]
  /\ UNCHANGED <<upstream, since, doc, jwks, allowed, restarts>>

\* A request fails, or its answer is not what it should be: the browser is told so.
FetchFails(f) ==
  /\ flows[f].at \in Waiting
  /\ Ends(f, "idle")
  /\ UNCHANGED <<upstream, since, doc, jwks, allowed, restarts>>

-----------------------------------------------------------------------------
(* The world. *)

Move ==
  /\ upstream <= MaxMoves
  /\ upstream' = upstream + 1
  /\ since' = 0
  /\ UNCHANGED <<doc, jwks, allowed, flows, restarts>>

\* What a restart makes of a flow: the browser may send its callback again, and
\* the provider may have redeemed the code though nobody saw the answer.
Interrupted(flow) ==
  IF flow.at \notin Waiting THEN {flow}
  ELSE IF flow.at = "discovering" THEN {Idle}
  ELSE {[Idle EXCEPT !.at = "returning", !.left = flow.left, !.code = c] :
          c \in {flow.code} \cup IF flow.at = "exchanging" /\ flow.ver = upstream
                                THEN {"redeemed"} ELSE {}}

\* The relay restarts with the same secret: states and codes stay good, the caches
\* are gone, and the list may be another.
Restart(list) ==
  /\ restarts < MaxRestarts
  /\ restarts' = restarts + 1
  /\ doc' = NoDoc /\ jwks' = 0 /\ allowed' = list
  /\ flows' \in [Flows -> UNION {Interrupted(flows[f]) : f \in Flows}]
  /\ \A f \in Flows : flows'[f] \in Interrupted(flows[f])
  /\ UNCHANGED <<upstream, since>>

\* Time passes, and no request of the relay takes longer than Delay.
Tick ==
  /\ \A f \in Flows : flows[f].at \in Waiting => flows[f].wait < Delay
  /\ since' = IF since < Long THEN since + 1 ELSE since
  /\ doc' = [doc EXCEPT !.left = IF @ > 0 THEN @ - 1 ELSE 0]
  /\ flows' = [f \in Flows |->
       [flows[f] EXCEPT !.wait = IF flows[f].at \in Waiting THEN @ + 1 ELSE @,
                        !.left = IF @ >= 0 THEN @ - 1 ELSE @]]
  /\ UNCHANGED <<upstream, jwks, allowed, restarts>>

-----------------------------------------------------------------------------

\* What the relay waits for comes, or fails.
Answered(f) ==
  \/ Serve(f) \/ (\E ttl \in 0..DocTTL : Discovered(f, ttl))
  \/ Exchanged(f) \/ Verified(f) \/ NotVerified(f) \/ FetchFails(f)

Next ==
  \/ \E f \in Flows : \/ Authorize(f) \/ LogIn(f) \/ Callback(f) \/ Answered(f)
                      \/ Confirm(f) \/ Redeem(f) \/ GiveUp(f)
  \/ Move \/ Tick
  \/ \E list \in Lists : Restart(list)

\* fetch answers or fails, in the end.
Spec == Init /\ [][Next]_vars /\ \A f \in Flows : WF_vars(Answered(f))

-----------------------------------------------------------------------------
(* Properties. *)

FlowStates ==
  Waiting \cup {"idle", "upstream", "returning", "confirming", "coded", "signedIn", "rejected"}

\* Every variable has its type.
TypeOK ==
  /\ upstream \in Nat \ {0}
  /\ since \in 0..Long
  /\ doc \in [ver : Nat, left : 0..DocTTL]
  /\ jwks \in Nat
  /\ allowed \in Lists
  /\ flows \in [Flows -> [at : FlowStates, ver : Nat, wait : 0..Delay,
                         left : Nat \cup {-1}, code : {"unused", "redeemed"}]]
  /\ restarts \in 0..MaxRestarts

\* However the flows' requests for the document interleave, none leaves one in the
\* cache that is believed past DocTTL and one Delay after the provider moved.
DocFresh == doc.ver # upstream /\ doc.left > 0 => since + doc.left <= DocTTL + Delay

\* What may go wrong with a flow that is not its user's doing.
Rejected(f) == ~At(f, "rejected") /\ flows'[f].at = "rejected"
SentAstray(f) == ~At(f, "upstream") /\ flows'[f].at = "upstream" /\ flows'[f].ver # upstream

\* A browser is sent to where the provider no longer is only if the provider moved
\* lately: by the document's time and two requests.  And a login that the user
\* completed is rejected only then, or if the keys are no longer where they first
\* were, or if its code was redeemed before a restart: never because the list
\* changed, another flow was at work, or a relay restarted that has its secret from
\* the configuration and so keeps its key (Restart).
OutageBounded ==
  [][\A f \in Flows :
       /\ SentAstray(f) => since < Long
       /\ Rejected(f) => \/ flows[f].ver # upstream /\ since < Long
                         \/ jwks \notin {0, upstream}
                         \/ At(f, "exchanging") /\ flows[f].code = "redeemed"]_vars

\* A code goes to a hosted URI only if the list of the relay that hands it over has
\* the URI, or the user read where it goes, whatever the list was at /authorize.
ConsentFirst ==
  [][\A f \in Flows :
       ~At(f, "coded") /\ flows'[f].at = "coded" /\ IsWeb(Uri[f]) =>
         At(f, "confirming") \/ Listed(Uri[f], allowed)]_vars

\* The browser that waits for /authorize or /callback is answered, whatever fails
\* behind it.
RequestsAnswered == \A f \in Flows : flows[f].at \in Waiting ~> flows[f].at \notin Waiting

=============================================================================
