-------------------------- MODULE JamfTokenProofs --------------------------
(***************************************************************************)
(* Theorems about JamfToken, for any number of requests, of tokens that    *)
(* end early and of calls that fail.                                       *)
(***************************************************************************)
EXTENDS JamfToken, TLAPS

\* The cache holds the last token, or nothing.
CacheIsLast == accessToken \in {NoToken, issued}

\* What is about to be discarded was refused, at the first attempt.
DiscardsRefused ==
  pc = "invalidate" => token \in revoked /\ refused = token /\ attempt = 1

\* What makes the second attempt differ from the first: the token refused then
\* is no longer the cached one when a token is taken again, and stays refused.
RetryDiffers ==
  /\ attempt = 2 /\ pc \in {"token", "fetch"} =>
       refused \in revoked /\ refused # accessToken
  /\ attempt = 2 /\ pc = "request" => refused \in revoked /\ refused # token

IInv == TypeOK /\ CacheIsLast /\ DiscardsRefused /\ RetryDiffers /\ OneRefusalSurvived

----------------------------------------------------------------------------
\* The initial states are fine.
LEMMA InvInit == Init => IInv
BY BoundAssumption
   DEF Init, IInv, TypeOK, CacheIsLast, DiscardsRefused, RetryDiffers, OneRefusalSurvived,
       Tokens, Retired, NoToken, Attempts

\* Jamf and the clock: tokens only become less usable.
LEMMA ServerKeepsInv ==
  ASSUME IInv, NEW t \in Tokens, Age(t) \/ Revoke(t)
  PROVE  IInv'
<1>1. /\ revoked \subseteq revoked' /\ issued' = issued
      /\ aged' \subseteq Tokens /\ revoked' \subseteq Tokens
  BY DEF Age, Revoke, IInv, TypeOK, Retired
<1>2. UNCHANGED <<faults, accessToken, request>>
  BY DEF Age, Revoke
<1>. QED
  BY <1>1, <1>2
     DEF IInv, TypeOK, CacheIsLast, DiscardsRefused, RetryDiffers, OneRefusalSurvived,
         Tokens, Retired, request

\* A request's steps up to the call.
LEMMA TokenStepKeepsInv ==
  ASSUME IInv, BeginRequest \/ UseCached \/ StartFetch \/ Fetched \/ FetchFails
  PROVE  IInv'
<1>. USE DEF IInv, TypeOK, CacheIsLast, DiscardsRefused, RetryDiffers, OneRefusalSurvived,
             Tokens, Retired, Attempts, server, NoToken
<1>1. CASE BeginRequest
  BY <1>1 DEF BeginRequest
<1>2. CASE UseCached
  BY <1>2 DEF UseCached, Usable
<1>3. CASE StartFetch
  BY <1>3 DEF StartFetch
<1>4. CASE Fetched
  <2>1. issued \in Nat /\ issued' = issued + 1 /\ issued' \notin revoked
    BY <1>4 DEF Fetched
  <2>. QED
    BY <1>4, <2>1 DEF Fetched
<1>5. CASE FetchFails
  BY <1>5, BoundAssumption DEF FetchFails, Ends
<1>. QED
  BY <1>1, <1>2, <1>3, <1>4, <1>5

\* The answer to the call, and what becomes of a refused token.
LEMMA AnswerKeepsInv ==
  ASSUME IInv, Accepted \/ RequestFails \/ Unauthorized \/ Invalidate
  PROVE  IInv'
<1>. USE DEF IInv, TypeOK, CacheIsLast, DiscardsRefused, RetryDiffers, OneRefusalSurvived,
             Tokens, Retired, Attempts, server, NoToken
<1>1. CASE Accepted
  BY <1>1 DEF Accepted, Ends
<1>2. CASE RequestFails
  BY <1>2, BoundAssumption DEF RequestFails, Ends
<1>3. CASE Unauthorized
  BY <1>3 DEF Unauthorized, Ends
<1>4. CASE Invalidate
  <2>1. token \in revoked /\ refused = token /\ token # NoToken /\ attempt = 1
    BY <1>4 DEF Invalidate
  <2>2. Discarded \in {NoToken, accessToken} /\ Discarded # token
    BY <2>1 DEF Discarded
  <2>. QED
    BY <1>4, <2>1, <2>2 DEF Invalidate
<1>. QED
  BY <1>1, <1>2, <1>3, <1>4

\* The invariant is inductive.
LEMMA InvInductive == IInv /\ [Next]_vars => IInv'
<1>. SUFFICES ASSUME IInv, [Next]_vars PROVE IInv'
  OBVIOUS
<1>1. CASE Step
  BY <1>1, TokenStepKeepsInv, AnswerKeepsInv DEF Step
<1>2. CASE \E t \in Tokens : Age(t) \/ Revoke(t)
  BY <1>2, ServerKeepsInv
<1>3. CASE UNCHANGED vars
  BY <1>3 DEF vars, server, request, IInv, TypeOK, CacheIsLast, DiscardsRefused, RetryDiffers,
              OneRefusalSurvived, Tokens, Retired
<1>. QED
  BY <1>1, <1>2, <1>3 DEF Next

----------------------------------------------------------------------------
\* The states of the token cache are well formed; in particular no request makes
\* a third attempt, however many tokens are refused.
THEOREM TokenTypeCorrect == Spec => []TypeOK
<1>1. IInv => TypeOK
  BY DEF IInv
<1>. QED
  BY <1>1, InvInit, InvInductive, PTL DEF Spec

\* A request fails as unauthorized only after two different tokens were refused:
\* that a single token is revoked fails no request, whatever earlier requests have
\* left in the cache.
THEOREM RefusalSurvived == Spec => []OneRefusalSurvived
<1>1. IInv => OneRefusalSurvived
  BY DEF IInv
<1>. QED
  BY <1>1, InvInit, InvInductive, PTL DEF Spec

\* Every attempt is made with the last token issued, and none from the cache is
\* within the leeway of its expiry when it is taken.
THEOREM LatestIsTaken == Spec => TakesLatest
<1>1. IInv /\ [Next]_vars =>
        (pc # "request" /\ pc' = "request" => token' = issued' /\ token' \notin aged)
  <2>. SUFFICES ASSUME IInv, [Next]_vars, pc # "request", pc' = "request"
                PROVE  token' = issued' /\ token' \notin aged
    OBVIOUS
  <2>1. UseCached \/ Fetched
    BY DEF Next, Step, Age, Revoke, BeginRequest, StartFetch, FetchFails, Accepted, RequestFails,
           Unauthorized, Invalidate, Ends, vars, request
  <2>2. CASE UseCached
    BY <2>2 DEF UseCached, Usable, IInv, CacheIsLast, server
  <2>3. CASE Fetched
    BY <2>3 DEF Fetched, IInv, TypeOK, Tokens, Retired
  <2>. QED
    BY <2>1, <2>2, <2>3
<1>. QED
  BY <1>1, InvInit, InvInductive, PTL DEF Spec, TakesLatest
=============================================================================
