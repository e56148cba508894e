----------------------------- MODULE RequestAuth -----------------------------
(***************************************************************************)
(* Signed requests to a facilitator (src/src/x402-request-auth.ts and the  *)
(* body-hash variant), verified within a clock tolerance by two            *)
(* deployments that each keep one of the contributed nonce trackers; and   *)
(* the single-use passkey challenges of passkey-challenge-tracker.ts.      *)
(* The network is external: it may delay, duplicate or drop a request, or  *)
(* deliver its headers with another path or body.                          *)
(***************************************************************************)
EXTENDS Integers, Sequences, FiniteSets

CONSTANTS RAMethods, RAPaths, RABodies,  \* RABodies: string bodies, the empty one included
          RAEmpty, RAAbsent, RAStream,   \* "", no body, a body that is not a string
          RATicks,                       \* clock ticks per second (timestamps are floored)
          RATolerance,                   \* toleranceSeconds
          RAMaxAge,                      \* maxAgeMs of a challenge, in ticks
          RAChallenges, RANone,
          RAMaxSent, RAEnd               \* bounds: requests signed, and the last tick

ASSUME RAAssumption == /\ RAEmpty \in RABodies /\ RATicks \in Nat \ {0}
                       /\ RATolerance \in Nat /\ RAMaxAge \in Nat
                       /\ RAMaxSent \in Nat /\ RAEnd \in Nat

VARIABLES
    raClock,
    raSent,       \* the signed requests in the network, and when each was signed
    raSeen,       \* per deployment: what its tracker has recorded
    raAccepted,   \* history: [request, server, path, body, at]
    raIssued,     \* ChallengeTracker: challenge -> the time it was registered, or RANone
    raConsumed,   \* ChallengeTracker: consumed
    raUses        \* history: per challenge, its registrations and accepted uses

raVars == <<raClock, raSent, raSeen, raAccepted, raIssued, raConsumed, raUses>>

RAInit == /\ raClock = 0 /\ raSent = {} /\ raAccepted = {}
          /\ raSeen = [s \in {"account", "session"} |-> {}]
          /\ raIssued = [c \in RAChallenges |-> RANone] /\ raConsumed = {}
          /\ raUses = [c \in RAChallenges |-> [registered |-> 0, used |-> 0]]

-----------------------------------------------------------------------------
(* Signing. *)

\* What createSignedFetch signs of a body: a string as it is, anything else as "".
RASignedBody(body) == IF body \in RABodies THEN body ELSE RAEmpty

\* computeBodyBinding: an absent and an empty body are told apart.
RABinding(body) == IF body = RAAbsent THEN <<"absent">>
                   ELSE IF body = RAEmpty THEN <<"empty">> ELSE <<"sha256", body>>

\* Mutant: the path is left out.
RACanonicalNoPath(via, method, path, seconds, nonce, body) ==
    <<method, seconds, nonce, IF via = "bodyHash" THEN RABinding(body) ELSE RASignedBody(body)>>

\* canonicalRequestString, and canonicalRequestStringWithBodyHash.
RACanonical(via, method, path, seconds, nonce, body) ==
    <<method, path, seconds, nonce,
      IF via = "bodyHash" THEN RABinding(body) ELSE RASignedBody(body)>>

\* signFacilitatorRequest: the timestamp in whole seconds and a fresh nonce.  The
\* signature is the canonical string under the shared secret.
RASign == \E via \in {"raw", "bodyHash"}, m \in RAMethods, p \in RAPaths,
             b \in RABodies \cup {RAAbsent, RAStream} :
    LET seconds == raClock \div RATicks
        nonce   == Cardinality(raSent)
        body    == IF via = "raw" THEN RASignedBody(b) ELSE b
    IN  /\ Cardinality(raSent) < RAMaxSent /\ (via = "bodyHash" => b # RAStream)
        /\ raSent' = raSent \cup
              {[via |-> via, method |-> m, path |-> p, body |-> b, seconds |-> seconds,
                nonce |-> nonce, at |-> raClock,
                signature |-> RACanonical(via, m, p, seconds, nonce, body)]}
        /\ UNCHANGED <<raClock, raSeen, raAccepted, raIssued, raConsumed, raUses>>

-----------------------------------------------------------------------------
(* Verification. *)

\* Math.abs(nowSeconds - requestSeconds) <= tolerance.
RAInTolerance(seconds) == LET d == raClock \div RATicks - seconds
                          IN  -RATolerance <= d /\ d <= RATolerance

\* verifyFacilitatorRequest, on the path and body that were received.
RAVerify(q, path, body) == /\ RAInTolerance(q.seconds)
                           /\ RACanonical(q.via, q.method, path, q.seconds, q.nonce, body) = q.signature

\* checkAndConsume: the nonce is new for the account (one account here).
RACheckAndConsume(q) == /\ q.nonce \notin raSeen["account"]
                        /\ raSeen' = [raSeen EXCEPT !["account"] = @ \cup {q.nonce}]

\* claim: the nonce is new for the session, whatever the resource.
RAClaim(q, resource) == /\ \A e \in raSeen["session"] : e[1] # q.nonce
                        /\ raSeen' = [raSeen EXCEPT !["session"] = @ \cup {<<q.nonce, resource>>}]

\* A deployment receives the headers of q with some path and body, and accepts.
RAAccept == \E q \in raSent, p \in RAPaths, b \in RABodies \cup {RAAbsent}, s \in DOMAIN raSeen :
    /\ RAVerify(q, p, b)
    /\ IF s = "account" THEN RACheckAndConsume(q) ELSE RAClaim(q, p)
    /\ raAccepted' = raAccepted \cup
          {[request |-> q, server |-> s, path |-> p, body |-> b, at |-> raClock]}
    /\ UNCHANGED <<raClock, raSent, raIssued, raConsumed, raUses>>

-----------------------------------------------------------------------------
(* ChallengeTracker. *)

\* pruneExpired: the challenges it drops.
RAPruned == {c \in RAChallenges : raIssued[c] # RANone /\ raIssued[c] < raClock - RAMaxAge}

\* register: expired challenges are dropped, and the challenge may be used (again).
RARegister(c) ==
    /\ raUses[c].registered < 2
    /\ raIssued' = [d \in RAChallenges |->
          IF d = c THEN raClock ELSE IF d \in RAPruned THEN RANone ELSE raIssued[d]]
    /\ raConsumed' = raConsumed \ (RAPruned \cup {c})
    /\ raUses' = [raUses EXCEPT ![c].registered = @ + 1]
    /\ UNCHANGED <<raClock, raSent, raSeen, raAccepted>>

\* consume accepts: not consumed, registered, and not older than maxAgeMs.
RAConsume(c) == /\ c \notin raConsumed /\ raIssued[c] # RANone
                /\ raClock - raIssued[c] <= RAMaxAge
                /\ raConsumed' = raConsumed \cup {c}
                /\ raIssued' = [raIssued EXCEPT ![c] = RANone]
                /\ raUses' = [raUses EXCEPT ![c].used = @ + 1]
                /\ UNCHANGED <<raClock, raSent, raSeen, raAccepted>>

RATick == /\ raClock < RAEnd /\ raClock' = raClock + 1
          /\ UNCHANGED <<raSent, raSeen, raAccepted, raIssued, raConsumed, raUses>>

RANext == RASign \/ RAAccept \/ RATick
          \/ \E c \in RAChallenges : RARegister(c) \/ RAConsume(c)

RASpec == RAInit /\ [][RANext]_raVars

-----------------------------------------------------------------------------
RATypeOK == /\ raClock \in 0..RAEnd /\ Cardinality(raSent) <= RAMaxSent
            /\ raIssued \in [RAChallenges -> 0..RAEnd \cup {RANone}]
            /\ raConsumed \subseteq RAChallenges

(***************************************************************************)
(* What a deployment accepts is what was signed: the same path, and the    *)
(* same string body (with the body hash an absent body is not an empty     *)
(* one), once per deployment however often the network delivers it, and    *)
(* less than the tolerance and a second after it was signed.  A body that  *)
(* is not a string is covered by the signature only as an empty one.  And  *)
(* a passkey challenge is used at most once per registration.              *)
(***************************************************************************)
RANothingIsReplayed ==
    /\ \A a \in raAccepted :
          /\ a.path = a.request.path
          /\ a.request.via = "raw" => RASignedBody(a.body) = RASignedBody(a.request.body)
          /\ a.request.via = "bodyHash" => a.body = a.request.body
          /\ a.at - a.request.at < (RATolerance + 1) * RATicks
          /\ \A b \in raAccepted : a.server = b.server /\ a.request = b.request => a = b
    /\ \A c \in RAChallenges : raUses[c].used <= raUses[c].registered
=============================================================================
