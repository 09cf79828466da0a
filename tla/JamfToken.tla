----------------------------- MODULE JamfToken -----------------------------
(***************************************************************************)
(* The Jamf client's cached access token (internal/provider/jamf/          *)
(* client.go).  The client is built once and serves request after request, *)
(* page by page, in cycle after cycle.  There is one Jamf source at most   *)
(* (internal/config/validate.go), and it reads its listings one after the  *)
(* other (internal/app/build.go), so that requests never overlap and       *)
(* tokenMu is always free.  What does happen meanwhile is that tokens grow *)
(* old and are revoked, at any moment, and that calls fail.                *)
(***************************************************************************)
EXTENDS Integers, FiniteSets

CONSTANTS MaxRetired, \* bound: tokens that grow old or are revoked
          MaxFaults   \* bound: calls that fail otherwise

ASSUME BoundAssumption == MaxRetired \in Nat /\ MaxFaults \in Nat

\* Tokens are numbered in the order they are issued; Jamf issues none twice.
NoToken == 0

Attempts == 1..2

VARIABLES issued,      \* Jamf: how many tokens it has issued
          revoked,     \* tokens that Jamf refuses
          aged,        \* tokens within tokenRefreshLeeway of their expiry, or past it
          faults,      \* calls that have failed so far
          accessToken, \* the client: the cached token
          pc,          \* what the request under way is doing, or "idle"
          attempt,     \* which attempt it is
          token,       \* the token of this attempt
          outcome,     \* how the last request ended, "none" before the first
          refused      \* history: the token refused at the first attempt

server == <<issued, revoked, aged>>
request == <<pc, attempt, token, outcome, refused>>
vars == <<server, faults, accessToken, request>>

Tokens == 1..issued
Retired == aged \cup revoked

----------------------------------------------------------------------------
(* Jamf and the clock.                                                     *)

\* The expiry of a token comes within the leeway.
Age(t) ==
  /\ t \notin Retired /\ Cardinality(Retired) < MaxRetired
  /\ aged' = aged \cup {t}
  /\ UNCHANGED <<issued, revoked, faults, accessToken, request>>

\* A token is refused from now on: it has expired, or was revoked before.
Revoke(t) ==
  /\ t \notin revoked
  /\ t \in aged \/ Cardinality(Retired) < MaxRetired
  /\ revoked' = revoked \cup {t}
  /\ UNCHANGED <<issued, aged, faults, accessToken, request>>

----------------------------------------------------------------------------
(* A request.                                                              *)

Ends(how) == pc' = "idle" /\ outcome' = how

BeginRequest ==
  /\ pc = "idle"
  /\ pc' = "token" /\ attempt' = 1 /\ refused' = NoToken
  /\ UNCHANGED <<server, faults, accessToken, token, outcome>>

\* Fault: the expiry of the cached token is not checked, only that there is one.
Usable_Expired == accessToken # NoToken

Usable == accessToken # NoToken /\ accessToken \notin aged

\* token, when the cached one will do.
UseCached ==
  /\ pc = "token" /\ Usable
  /\ token' = accessToken
  /\ pc' = "request"
  /\ UNCHANGED <<server, faults, accessToken, attempt, outcome, refused>>

\* Otherwise one is asked for.
StartFetch ==
  /\ pc = "token" /\ ~Usable
  /\ pc' = "fetch"
  /\ UNCHANGED <<server, faults, accessToken, attempt, token, outcome, refused>>

Fetched ==
  /\ pc = "fetch"
  /\ issued' = issued + 1
  /\ accessToken' = issued' /\ token' = issued'
  /\ pc' = "request"
  /\ UNCHANGED <<revoked, aged, faults, attempt, outcome, refused>>

\* The token request fails or its reply is of no use: the cache stays as it is.
FetchFails ==
  /\ pc = "fetch" /\ faults < MaxFaults
  /\ faults' = faults + 1
  /\ Ends("failed")
  /\ UNCHANGED <<server, accessToken, attempt, token, refused>>

Accepted ==
  /\ pc = "request" /\ token \notin revoked
  /\ Ends("accepted")
  /\ UNCHANGED <<server, faults, accessToken, attempt, token, refused>>

\* The call fails or is answered with another status than those expected, which
\* is not tried again.
RequestFails ==
  /\ pc = "request" /\ faults < MaxFaults
  /\ faults' = faults + 1
  /\ Ends("failed")
  /\ UNCHANGED <<server, accessToken, attempt, token, refused>>

\* Fault: off by one, a third attempt is made.
Unauthorized_OffByOne ==
  /\ pc = "request" /\ token \in revoked
  /\ pc' = "invalidate" /\ refused' = token
  /\ UNCHANGED <<server, faults, accessToken, attempt, token, outcome>>

\* Fault: it is tried again at once, and nothing is discarded.
Unauthorized_Retries ==
  /\ pc = "request" /\ token \in revoked
  /\ pc' = "token" /\ UNCHANGED refused
  /\ UNCHANGED <<server, faults, accessToken, attempt, token, outcome>>

\* 401: the first time the token is to be discarded, the second time the
\* request has failed, and the cache keeps the token that was refused.
Unauthorized ==
  /\ pc = "request" /\ token \in revoked
  /\ IF attempt = 1
       THEN pc' = "invalidate" /\ refused' = token /\ UNCHANGED outcome
       ELSE Ends("unauthorized") /\ UNCHANGED refused
  /\ UNCHANGED <<server, faults, accessToken, attempt, token>>

\* Fault: nothing is dropped, the second attempt finds the same token.
Discarded_Never == accessToken

\* The cache without the token of this attempt.
Discarded == IF accessToken = token THEN NoToken ELSE accessToken

\* invalidateToken, and around the loop.
Invalidate ==
  /\ pc = "invalidate"
  /\ accessToken' = Discarded
  /\ attempt' = attempt + 1
  /\ pc' = "token"
  /\ UNCHANGED <<server, faults, token, outcome, refused>>

----------------------------------------------------------------------------
Init ==
  /\ issued = 0 /\ revoked = {} /\ aged = {} /\ faults = 0
  /\ accessToken = NoToken
  /\ pc = "idle" /\ attempt = 1 /\ token = NoToken
  /\ outcome = "none" /\ refused = NoToken

\* What happens of itself under the loop of run: cycles, and so requests, follow
\* one another, and a call is answered or runs into defaultHTTPTimeout.
Step ==
  \/ BeginRequest \/ UseCached \/ StartFetch \/ Fetched \/ FetchFails
  \/ Accepted \/ RequestFails \/ Unauthorized \/ Invalidate

Next == Step \/ \E t \in Tokens : Age(t) \/ Revoke(t)

Spec == Init /\ [][Next]_vars /\ WF_vars(Step)

----------------------------------------------------------------------------
(* Properties.                                                             *)

TypeOK ==
  /\ issued \in Nat /\ Retired \subseteq Tokens
  /\ faults \in 0..MaxFaults
  /\ accessToken \in {NoToken} \cup Tokens
  /\ pc \in {"idle", "token", "fetch", "request", "invalidate"}
  /\ attempt \in Attempts
  /\ token \in {NoToken} \cup Tokens
  /\ outcome \in {"none", "accepted", "failed", "unauthorized"}
  /\ refused \in {NoToken} \cup Tokens

\* A request fails as unauthorized only after two different tokens were refused:
\* the second attempt is made with another one, and the revocation of a single
\* token fails no request.
OneRefusalSurvived ==
  pc = "idle" /\ outcome = "unauthorized" =>
    refused # token /\ {refused, token} \subseteq revoked

\* An attempt is made with the last token issued, and a cached one is not within
\* the leeway of its expiry when it is taken.
TakesLatest ==
  [][pc # "request" /\ pc' = "request" => token' = issued' /\ token' \notin aged]_vars

\* Whatever was revoked or failed before, and whatever token the cache was left
\* with (a request refused twice leaves a refused one): once tokens last and
\* calls are answered, every request succeeds.
Recovers == <>[](outcome = "accepted")
=============================================================================
