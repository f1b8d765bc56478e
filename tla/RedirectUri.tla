----------------------------- MODULE RedirectUri -----------------------------
(***************************************************************************)
(* The policy for the URIs the relay hands codes to (src/redirect-uri.ts). *)
(* A URI is what the policy looks at: whether it parses, its protocol and  *)
(* hash, whether its host is a loopback one, and its origin and path, a    *)
(* sequence of the pieces that entries of the list may end after.          *)
(***************************************************************************)
EXTENDS Naturals, Sequences

\* BLOCKED_SCHEMES, of which each stands for the others.
Blocked == {"javascript:", "data:", "file:"}

Web == {"http:", "https:"}

IsWeb(uri) == uri.protocol \in Web /\ ~uri.loopback

\* A trailing * matches any suffix.
Matches(entry, target) ==
  IF entry.star
    THEN /\ Len(entry.text) <= Len(target)
         /\ SubSeq(target, 1, Len(entry.text)) = entry.text
    ELSE target = entry.text

Listed(uri, list) == \E entry \in list : Matches(entry, uri.target)

Invalid(uri) == ~uri.parses \/ uri.protocol \in Blocked \/ uri.hash

\* checkRedirectUri
Verdict(uri, list) ==
  IF Invalid(uri) THEN "invalid"
  ELSE IF IsWeb(uri) /\ ~Listed(uri, list) THEN "needs_consent"
  ELSE "allowed"

=============================================================================
