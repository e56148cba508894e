---------------------------- MODULE SigningProofs ----------------------------
(***************************************************************************)
(* What the wallet signs: payment authorizations, whatever entries an RPC  *)
(* returns, and requests to a facilitator, whatever the network delivers.  *)
(* Last, the type correctness of the wallet's side as TLC runs it          *)
(* (MCWallet).                                                             *)
(***************************************************************************)
EXTENDS WalletProofs, MCWallet, SequenceTheorems, FiniteSetTheorems, TLAPS

-----------------------------------------------------------------------------
(* Whole units. *)

\* Division by a positive number, as the inequalities that define it.
LEMMA DivisionBounds ==
    ASSUME NEW x \in Int, NEW n \in Nat \ {0}
    PROVE  /\ x \div n \in Int
           /\ (x \div n) * n <= x
           /\ x < (x \div n) * n + n
OBVIOUS

\* A product with a positive number keeps the order.
LEMMA ProductIsMonotone ==
    ASSUME NEW a \in Int, NEW b \in Int, NEW n \in Nat, a <= b
    PROVE  a * n <= b * n
OBVIOUS

\* Two instants whose whole seconds differ by at most k are less than k + 1
\* seconds apart: what flooring the timestamps costs.
LEMMA FlooredDistance ==
    ASSUME NEW x \in Nat, NEW y \in Nat, NEW n \in Nat \ {0}, NEW k \in Nat,
           x \div n - y \div n <= k
    PROVE  x - y < (k + 1) * n
<1> DEFINE p == x \div n
           q == y \div n
<1>1. p \in Int /\ q \in Int /\ x < p * n + n /\ q * n <= y
  BY DivisionBounds
<1>2. p - q <= k
  OBVIOUS
<1> HIDE DEF p, q
<1>3. p <= q + k
  BY <1>1, <1>2
<1>4. p * n <= (q + k) * n
  BY <1>1, <1>3, ProductIsMonotone
<1>5. (q + k) * n = q * n + k * n /\ (k + 1) * n = k * n + n
  BY <1>1
<1>6. p * n \in Int /\ q * n \in Int /\ k * n \in Int /\ (q + k) * n \in Int
  BY <1>1
<1>7. p * n <= q * n + k * n
  BY <1>4, <1>5, <1>6
<1>8. x - y < k * n + n
  BY <1>1, <1>6, <1>7
<1> QED BY <1>5, <1>8

-----------------------------------------------------------------------------
(* Signed requests. *)

\* What signFacilitatorRequest put into the network.
RASentAreSigned ==
    \A q \in raSent :
        /\ q.via \in {"raw", "bodyHash"} /\ q.at \in Nat /\ q.seconds = q.at \div RATicks
        /\ q.signature = RACanonical(q.via, q.method, q.path, q.seconds, q.nonce,
                                     IF q.via = "raw" THEN RASignedBody(q.body) ELSE q.body)

\* A deployment's tracker holds the nonce of everything the deployment accepted.
RAAcceptedAreSeen ==
    \A a \in raAccepted :
        \/ a.server = "account" /\ a.request.nonce \in raSeen["account"]
        \/ a.server = "session" /\ \E e \in raSeen["session"] : e[1] = a.request.nonce

\* A challenge that is registered now has a use left.
RARegisteredIsUnused ==
    \A c \in RAChallenges :
        /\ raUses[c] \in [registered: Nat, used: Nat]
        /\ raUses[c].used <= raUses[c].registered
        /\ raIssued[c] # RANone => raUses[c].used < raUses[c].registered

\* The inductive invariant of the signed requests.
RAInd == /\ raClock \in Nat
         /\ DOMAIN raSeen = {"account", "session"}
         /\ DOMAIN raIssued = RAChallenges /\ DOMAIN raUses = RAChallenges
         /\ RASentAreSigned /\ RAAcceptedAreSeen /\ RARegisteredIsUnused /\ RANothingIsReplayed

\* Nothing is signed, accepted or registered at the start.
LEMMA RAInitInd == RAInit => RAInd
BY DEF RAInit, RAInd, RASentAreSigned, RAAcceptedAreSeen, RARegisteredIsUnused, RANothingIsReplayed

\* The body a signature covers determines the body it is accepted with: a string
\* body in either scheme, and with the body hash also whether there is one.
LEMMA RACanonicalBindsTheBody ==
    ASSUME NEW via \in {"raw", "bodyHash"}, NEW m, NEW p, NEW sec, NEW nonce, NEW body, NEW path, NEW b,
           RACanonical(via, m, path, sec, nonce, b)
             = RACanonical(via, m, p, sec, nonce, IF via = "raw" THEN RASignedBody(body) ELSE body)
    PROVE  /\ path = p
           /\ via = "raw" => RASignedBody(b) = RASignedBody(body)
           /\ via = "bodyHash" => b = body
<1>1. path = p
  BY DEF RACanonical
<1>2. CASE via = "raw"
  <2>1. RASignedBody(b) = RASignedBody(RASignedBody(body))
    BY <1>2 DEF RACanonical
  <2>2. RASignedBody(RASignedBody(body)) = RASignedBody(body)
    BY RAAssumption DEF RASignedBody
  <2> QED BY <1>1, <1>2, <2>1, <2>2
<1>3. CASE via = "bodyHash"
  <2>1. RABinding(b) = RABinding(body)
    BY <1>3 DEF RACanonical
  <2>2. <<"absent">> # <<"empty">>
    OBVIOUS
  <2>3. \A y, z : <<"sha256", y>> = <<"sha256", z>> => y = z
    OBVIOUS
  <2>4. \A y : <<"absent">> # <<"sha256", y>> /\ <<"empty">> # <<"sha256", y>>
    OBVIOUS
  <2>5. b = body
    BY <2>1, <2>2, <2>3, <2>4 DEF RABinding
  <2> QED BY <1>1, <1>3, <2>5
<1> QED BY <1>2, <1>3

\* A deployment that accepts a request has verified it and had not seen it.
LEMMA RAAcceptKeepsTheInvariant == RAInd /\ RAAccept => RAInd'
<1> SUFFICES ASSUME RAInd, RAAccept PROVE RAInd'
  OBVIOUS
<1>1. PICK q \in raSent, p \in RAPaths, b \in RABodies \cup {RAAbsent}, s \in DOMAIN raSeen :
        /\ RAVerify(q, p, b)
        /\ IF s = "account" THEN RACheckAndConsume(q) ELSE RAClaim(q, p)
        /\ raAccepted' = raAccepted \cup
              {[request |-> q, server |-> s, path |-> p, body |-> b, at |-> raClock]}
        /\ UNCHANGED <<raClock, raSent, raIssued, raConsumed, raUses>>
  BY DEF RAAccept
<1> DEFINE new == [request |-> q, server |-> s, path |-> p, body |-> b, at |-> raClock]
<1>2. s \in {"account", "session"} /\ DOMAIN raSeen' = {"account", "session"}
  BY <1>1 DEF RAInd, RACheckAndConsume, RAClaim
<1>3. RAAcceptedAreSeen'
  <2>1. CASE s = "account"
    <3>1. /\ raSeen'["account"] = raSeen["account"] \cup {q.nonce}
          /\ raSeen'["session"] = raSeen["session"]
      BY <1>1, <2>1 DEF RAInd, RACheckAndConsume
    <3>2. ASSUME NEW a \in raAccepted'
          PROVE  \/ a.server = "account" /\ a.request.nonce \in raSeen'["account"]
                 \/ a.server = "session" /\ \E e \in raSeen'["session"] : e[1] = a.request.nonce
      BY <1>1, <2>1, <3>1 DEF RAInd, RAAcceptedAreSeen
    <3> QED BY <3>2 DEF RAAcceptedAreSeen
  <2>2. CASE s = "session"
    <3>1. /\ raSeen'["session"] = raSeen["session"] \cup {<<q.nonce, p>>}
          /\ raSeen'["account"] = raSeen["account"]
      BY <1>1, <2>2 DEF RAInd, RAClaim
    <3>2. <<q.nonce, p>>[1] = q.nonce
      OBVIOUS
    <3>3. ASSUME NEW a \in raAccepted'
          PROVE  \/ a.server = "account" /\ a.request.nonce \in raSeen'["account"]
                 \/ a.server = "session" /\ \E e \in raSeen'["session"] : e[1] = a.request.nonce
      <4>1. CASE a \in raAccepted
        BY <3>1, <4>1 DEF RAInd, RAAcceptedAreSeen
      <4>2. CASE a = new
        <5>1. a.server = "session" /\ a.request.nonce = q.nonce
          BY <2>2, <4>2
        <5>2. <<q.nonce, p>> \in raSeen'["session"]
          BY <3>1
        <5> QED BY <3>2, <5>1, <5>2
      <4> QED BY <1>1, <4>1, <4>2
    <3> QED BY <3>3 DEF RAAcceptedAreSeen
  <2> QED BY <1>2, <2>1, <2>2
<1>4. \A a \in raAccepted : ~(a.server = s /\ a.request = q)
  BY <1>1, <1>2 DEF RAInd, RAAcceptedAreSeen, RACheckAndConsume, RAClaim
<1>5. /\ p = q.path
      /\ q.via = "raw" => RASignedBody(b) = RASignedBody(q.body)
      /\ q.via = "bodyHash" => b = q.body
  <2>1. /\ q.via \in {"raw", "bodyHash"}
        /\ RACanonical(q.via, q.method, p, q.seconds, q.nonce, b)
             = RACanonical(q.via, q.method, q.path, q.seconds, q.nonce,
                           IF q.via = "raw" THEN RASignedBody(q.body) ELSE q.body)
    BY <1>1 DEF RAInd, RASentAreSigned, RAVerify
  <2> HIDE DEF new
  <2> QED BY <2>1, RACanonicalBindsTheBody
<1>6. raClock - q.at < (RATolerance + 1) * RATicks
  <2>1. raClock \in Nat /\ q.at \in Nat /\ q.seconds = q.at \div RATicks
    BY <1>1 DEF RAInd, RASentAreSigned
  <2>2. raClock \div RATicks - q.at \div RATicks <= RATolerance
    BY <1>1, <2>1 DEF RAVerify, RAInTolerance
  <2> QED BY <2>1, <2>2, RAAssumption, FlooredDistance
<1>7. RANothingIsReplayed'
  <2>1. ASSUME NEW a \in raAccepted'
        PROVE  /\ a.path = a.request.path
               /\ a.request.via = "raw" => RASignedBody(a.body) = RASignedBody(a.request.body)
               /\ a.request.via = "bodyHash" => a.body = a.request.body
               /\ a.at - a.request.at < (RATolerance + 1) * RATicks
    BY <1>1, <1>5, <1>6 DEF RAInd, RANothingIsReplayed
  <2>2. ASSUME NEW a \in raAccepted', NEW d \in raAccepted', a.server = d.server, a.request = d.request
        PROVE  a = d
    BY <1>1, <1>4, <2>2 DEF RAInd, RANothingIsReplayed
  <2>3. \A c \in RAChallenges : raUses'[c].used <= raUses'[c].registered
    BY <1>1 DEF RAInd, RANothingIsReplayed
  <2> QED BY <2>1, <2>2, <2>3 DEF RANothingIsReplayed
<1> QED BY <1>1, <1>2, <1>3, <1>7 DEF RAInd, RASentAreSigned, RARegisteredIsUnused

\* Every step keeps the invariant.
LEMMA RANextInd == RAInd /\ [RANext]_raVars => RAInd'
<1> SUFFICES ASSUME RAInd, [RANext]_raVars PROVE RAInd'
  OBVIOUS
<1>1. ASSUME RASign PROVE RAInd'
  <2>1. UNCHANGED <<raClock, raSeen, raAccepted, raIssued, raConsumed, raUses>>
    BY <1>1 DEF RASign
  <2>2. RASentAreSigned'
    BY <1>1 DEF RASign, RAInd, RASentAreSigned
  <2> QED BY <2>1, <2>2 DEF RAInd, RAAcceptedAreSeen, RARegisteredIsUnused, RANothingIsReplayed
<1>2. ASSUME RAAccept PROVE RAInd'
  BY <1>2, RAAcceptKeepsTheInvariant
<1>3. ASSUME RATick PROVE RAInd'
  BY <1>3 DEF RATick, RAInd, RASentAreSigned, RAAcceptedAreSeen, RARegisteredIsUnused, RANothingIsReplayed
<1>4. ASSUME NEW c \in RAChallenges, RARegister(c) PROVE RAInd'
  <2>1. RARegisteredIsUnused'
    BY <1>4 DEF RARegister, RAInd, RARegisteredIsUnused
  <2>2. UNCHANGED <<raClock, raSent, raSeen, raAccepted>>
        /\ DOMAIN raIssued' = RAChallenges /\ DOMAIN raUses' = RAChallenges
    BY <1>4 DEF RARegister, RAInd
  <2> QED BY <2>1, <2>2 DEF RAInd, RASentAreSigned, RAAcceptedAreSeen, RARegisteredIsUnused,
                            RANothingIsReplayed
<1>5. ASSUME NEW c \in RAChallenges, RAConsume(c) PROVE RAInd'
  <2>1. RARegisteredIsUnused'
    BY <1>5 DEF RAConsume, RAInd, RARegisteredIsUnused
  <2>2. UNCHANGED <<raClock, raSent, raSeen, raAccepted>>
        /\ DOMAIN raIssued' = RAChallenges /\ DOMAIN raUses' = RAChallenges
    BY <1>5 DEF RAConsume, RAInd
  <2> QED BY <2>1, <2>2 DEF RAInd, RASentAreSigned, RAAcceptedAreSeen, RARegisteredIsUnused,
                            RANothingIsReplayed
<1>6. ASSUME UNCHANGED raVars PROVE RAInd'
  BY <1>6 DEF raVars, RAInd, RASentAreSigned, RAAcceptedAreSeen, RARegisteredIsUnused, RANothingIsReplayed
<1> QED BY <1>1, <1>2, <1>3, <1>4, <1>5, <1>6 DEF RANext

\* x402-request-auth.ts and the trackers: however the network delays, repeats or
\* rewrites, a deployment accepts a signed request at most once, with the path and
\* body that were signed, and in time; and a passkey challenge is used at most
\* once per registration.  For every tolerance, clock and number of requests.
THEOREM NothingIsReplayed == RASpec => []RANothingIsReplayed
<1>1. RAInd => RANothingIsReplayed
  BY DEF RAInd
<1> QED BY <1>1, RAInitInd, RANextInd, PTL DEF RASpec

-----------------------------------------------------------------------------
(* Payment signing. *)

\* Every entry a simulation, or another caller of the signer, can come up with.
PSAnyEntry == UNION {PSEntries(s, req) : s \in PSSigners, req \in PSRequirements}

PSAtTheSigner == {"signing", "prompt", "authorizing", "denying"}

\* Where the call is and what it has: the entries are fixed once they are built,
\* an entry reaches the signer only when it is the intended one, and nothing is
\* left to do when a payload leaves.
PSProgress ==
    /\ psAuth \in Seq(PSAnyEntry)
    /\ psPc \in {"idle", "building"} => psAuth = <<>> /\ psSigs = <<>> /\ psNext = 1
    /\ psPc # "done" => psOutcome = "none"
    /\ psPc \in {"building", "ledger", "loop", "resimulating"} => psVia # "host"
    /\ psPc \notin {"idle", "done"} => psSigner \in PSSigners /\ psReq \in PSRequirements
    /\ psPc = "ledger" => psNext = 1 /\ PSSigned = {}
    /\ psPc \in PSAtTheSigner =>
           /\ psNext \in DOMAIN psAuth /\ psNext \notin PSSigned
           /\ psVia # "host" => psAuth[psNext] = PSIntended(psSigner, psReq)
    /\ psPc = "resimulating" => psNext > Len(psAuth) /\ PSSigned # {}

\* The loop invariant of createPaymentPayload and buildSignedPayment: exactly the
\* wallet's own entries before the index are signed, and they are the intended
\* payment.
PSLoopInvariant ==
    psVia # "host" =>
        /\ \A i \in PSSigned : i < psNext /\ psAuth[i] = PSIntended(psSigner, psReq)
        /\ \A i \in DOMAIN psAuth : i < psNext /\ PSOwn(psSigner, psAuth[i]) => i \in PSSigned
        /\ psOutcome = "payload" => psNext > Len(psAuth) /\ PSSigned # {}

\* The expiration is fixed before the loop, and every signature carries it.
PSExpiryInvariant ==
    /\ psPc \in {"building", "ledger"} => psCeiling \in PSCeilings
    /\ PSSigned # {} => psReq \in PSRequirements
    /\ \A i \in PSSigned : psSigs[i].exp = psExp
    /\ psVia # "host" /\ (psPc \in PSAtTheSigner \cup {"loop", "resimulating"} \/ PSSigned # {}) =>
           /\ psCeiling = PSNone \/ psVia = "scheme" =>
                  psExp <= psRead + PSMaxSeconds \div PSLedgerSeconds - 2
           /\ psVia = "scheme" \/ PSWindow(psReq) >= 3 => psExp <= psRead + PSWindow(psReq)

\* The audit trail so far: a "deny" ends the call, and an "authorize" whose hook
\* rejected leads to it.
PSTrailInvariant ==
    /\ PSTrailMatchesSignatures
    /\ psPc \notin {"denying", "done"} => Cardinality(PSAuthorized) = Cardinality(PSSigned)
    /\ psPc # "done" => \A k \in DOMAIN psTrail : psTrail[k] # "deny"

\* The inductive invariant of the payment signing.
PSInd == PSTypeOK /\ PSProgress /\ PSLoopInvariant /\ PSExpiryInvariant /\ PSTrailInvariant

\* The larger and the smaller of two integers.
LEMMA PSMaxMin ==
    ASSUME NEW a \in Int, NEW b \in Int
    PROVE  /\ Max({a, b}) \in Int /\ Max({a, b}) \in {a, b} /\ Max({a, b}) >= a /\ Max({a, b}) >= b
           /\ Min({a, b}) \in Int /\ Min({a, b}) \in {a, b} /\ Min({a, b}) <= a /\ Min({a, b}) <= b
BY DEF Max, Min

\* Rounding up is monotone.
LEMMA PSCeilDivIsMonotone ==
    ASSUME NEW a \in Int, NEW b \in Int, NEW n \in Nat \ {0}, a <= b
    PROVE  PSCeilDiv(a, n) \in Int /\ PSCeilDiv(a, n) <= PSCeilDiv(b, n)
<1> DEFINE p == (a + n - 1) \div n
           q == (b + n - 1) \div n
<1>1. p \in Int /\ q \in Int /\ p * n <= a + n - 1 /\ b + n - 1 < q * n + n
  BY DivisionBounds
<1>2. PSCeilDiv(a, n) = p /\ PSCeilDiv(b, n) = q
  BY DEF PSCeilDiv
<1> HIDE DEF p, q
<1>3. p * n < (q + 1) * n
  BY <1>1
<1>4. ~(q + 1 <= p)
  <2> SUFFICES ASSUME q + 1 <= p PROVE FALSE
    OBVIOUS
  <2>1. (q + 1) * n <= p * n
    BY <1>1, ProductIsMonotone
  <2>2. (q + 1) * n \in Int /\ p * n \in Int
    BY <1>1
  <2> QED BY <1>3, <2>1, <2>2
<1> QED BY <1>1, <1>2, <1>4

\* On a whole number of ledgers rounding up changes nothing.
LEMMA PSCeilDivIsExact ==
    ASSUME NEW a \in Nat, NEW n \in Nat \ {0}, a % n = 0
    PROVE  PSCeilDiv(a, n) = a \div n
<1> DEFINE k == a \div n
           q == (a + n - 1) \div n
<1>1. k \in Int /\ a = k * n
  BY DivisionBounds
<1>2. q \in Int /\ q * n <= a + n - 1 /\ a + n - 1 < q * n + n
  BY DivisionBounds
<1>3. PSCeilDiv(a, n) = q
  BY DEF PSCeilDiv
<1> HIDE DEF k, q
<1>4. k * n \in Int /\ q * n \in Int /\ (k + 1) * n = k * n + n /\ (q + 1) * n = q * n + n
  BY <1>1, <1>2
<1>5. ~(k + 1 <= q)
  <2> SUFFICES ASSUME k + 1 <= q PROVE FALSE
    OBVIOUS
  <2>1. (k + 1) * n <= q * n
    BY <1>1, <1>2, ProductIsMonotone
  <2> QED BY <1>1, <1>2, <1>4, <2>1
<1>6. ~(q + 1 <= k)
  <2> SUFFICES ASSUME q + 1 <= k PROVE FALSE
    OBVIOUS
  <2>1. (q + 1) * n <= k * n
    BY <1>1, <1>2, ProductIsMonotone
  <2> QED BY <1>1, <1>2, <1>4, <2>1
<1>7. q = k
  BY <1>1, <1>2, <1>5, <1>6
<1> QED BY <1>3, <1>7 DEF k

\* expirationLedgersFor: what it lets through is within the facilitator's window
\* and two ledgers short of the longest expiration.
LEMMA PSSchemeOffsetBounds ==
    ASSUME NEW req \in PSRequirements
    PROVE  /\ PSWindow(req) \in Int /\ PSSchemeOffset(req) \in Nat
           /\ PSSchemeOffset(req) >= 5 =>
                 /\ PSSchemeOffset(req) <= PSWindow(req)
                 /\ PSSchemeOffset(req) <= PSMaxSeconds \div PSLedgerSeconds - 2
<1> DEFINE t == Min({req.timeout, PSMaxSeconds})
           k == PSCeilDiv(t, PSLedgerSeconds)
<1>1. req.timeout \in Int /\ PSMaxSeconds \in Int /\ PSLedgerSeconds \in Nat \ {0}
  BY PSAssumption, PSInputsAssumption
<1>2. t \in Int /\ t <= req.timeout /\ t <= PSMaxSeconds
  <2> QED BY <1>1, PSMaxMin, Zenon
<1> HIDE DEF t
<1>3. /\ k \in Int /\ k <= PSCeilDiv(req.timeout, PSLedgerSeconds)
      /\ k <= PSCeilDiv(PSMaxSeconds, PSLedgerSeconds)
      /\ PSCeilDiv(req.timeout, PSLedgerSeconds) \in Int
  BY <1>1, <1>2, PSCeilDivIsMonotone
<1>4. PSCeilDiv(PSMaxSeconds, PSLedgerSeconds) = PSMaxSeconds \div PSLedgerSeconds
  BY PSAssumption, PSCeilDivIsExact
<1>5. PSMaxSeconds \div PSLedgerSeconds \in Int
  BY <1>1, DivisionBounds
<1>6. PSWindow(req) = PSCeilDiv(req.timeout, PSLedgerSeconds)
  BY DEF PSWindow
<1>7. PSSchemeOffset(req) = Max({k - 2, 3})
  BY DEF PSSchemeOffset, t
<1> HIDE DEF k
<1>8. k - 2 \in Int /\ 3 \in Int
  BY <1>3
<1>9. Max({k - 2, 3}) \in {k - 2, 3} /\ Max({k - 2, 3}) \in Int /\ Max({k - 2, 3}) >= 3
  BY <1>8, PSMaxMin, Zenon
<1> QED BY <1>3, <1>4, <1>5, <1>6, <1>7, <1>9

\* expirationOffsetFor: within the default ceiling when none is configured, and
\* within the facilitator's window unless the floor of three ledgers wins.
LEMMA PSClientOffsetBounds ==
    ASSUME NEW req \in PSRequirements, NEW c \in PSCeilings
    PROVE  /\ PSClientOffset(req, c) \in Nat
           /\ c = PSNone => PSClientOffset(req, c) <= PSMaxSeconds \div PSLedgerSeconds - 2
           /\ PSWindow(req) >= 3 => PSClientOffset(req, c) <= PSWindow(req)
<1> DEFINE most == IF c = PSNone THEN PSMaxSeconds \div PSLedgerSeconds - 2 ELSE c
           least == Min({PSWindow(req) - 2, most})
<1>1. PSWindow(req) \in Int
  BY PSSchemeOffsetBounds
<1>2. PSMaxSeconds \div PSLedgerSeconds \in Int /\ PSMaxSeconds \div PSLedgerSeconds >= 5
  BY PSAssumption, DivisionBounds
<1>3. most \in Int /\ PSWindow(req) - 2 \in Int
  BY <1>1, <1>2, PSInputsAssumption
<1>4. PSClientOffset(req, c) = Max({least, 3})
  BY DEF PSClientOffset
<1>5. c = PSNone => most = PSMaxSeconds \div PSLedgerSeconds - 2
  OBVIOUS
<1> HIDE DEF most
<1>6. least \in Int /\ least <= PSWindow(req) - 2 /\ least <= most
  BY <1>3, PSMaxMin, Zenon
<1> HIDE DEF least
<1>7. Max({least, 3}) \in {least, 3} /\ Max({least, 3}) \in Int /\ Max({least, 3}) >= 3
  <2>1. 3 \in Int
    OBVIOUS
  <2> QED BY <1>6, <2>1, PSMaxMin, Zenon
<1> QED BY <1>1, <1>2, <1>3, <1>4, <1>5, <1>6, <1>7

\* No signer, no entry and no event at the start.
LEMMA PSInitInd == PSInit => PSInd
<1> SUFFICES ASSUME PSInit PROVE PSInd
  OBVIOUS
<1>1. PSSigned = {} /\ psAuth = <<>> /\ Len(psAuth) = 0 /\ DOMAIN psAuth = {}
  BY DEF PSInit, PSSigned
<1>2. PSTypeOK
  BY <1>1 DEF PSInit, PSTypeOK
<1>3. PSProgress /\ PSLoopInvariant /\ PSExpiryInvariant
  BY <1>1 DEF PSInit, PSProgress, PSLoopInvariant, PSExpiryInvariant, PSAtTheSigner
<1>4. PSAuthorized = {}
  BY DEF PSInit, PSAuthorized
<1>5. PSTrailInvariant
  BY <1>1, <1>4 DEF PSInit, PSTrailInvariant, PSTrailMatchesSignatures, PSAuthorized
<1> QED BY <1>2, <1>3, <1>5 DEF PSInd

\* A step that moves the call along and touches neither entries nor signatures.
LEMMA PSMoveKeepsTheInvariant ==
    ASSUME PSInd, PSLoopEnd \/ PSResimulate \/ PSSign \/ PSPrompt
    PROVE  PSInd'
<1>1. UNCHANGED <<psVia, psSigner, psReq, psCeiling, psAuth, psNext, psSigs, psRead, psLedger, psExp, psTrail>>
  BY DEF PSLoopEnd, PSResimulate, PSSign, PSPrompt
<1>2. PSSigned' = PSSigned
  BY <1>1 DEF PSSigned
<1>3. /\ psPc \in {"loop", "resimulating"} /\ psPc' \in {"resimulating", "done"}
        /\ (psPc' = "resimulating" \/ psOutcome' = "payload" => psNext > Len(psAuth) /\ PSSigned # {})
        /\ (psPc' # "done" => psOutcome' = psOutcome) /\ psOutcome' # "signFailed"
      \/ /\ psPc \in {"signing", "prompt"} /\ psPc' \in PSAtTheSigner /\ psOutcome' = psOutcome
  BY DEF PSInd, PSProgress, PSLoopEnd, PSResimulate, PSAuthErrors, PSSign, PSPrompt, PSFail, PSGo, PSAtTheSigner
<1>4. PSTypeOK'
  BY <1>1, <1>3 DEF PSInd, PSTypeOK, PSAtTheSigner
<1>5. PSProgress'
  BY <1>1, <1>2, <1>3 DEF PSInd, PSProgress, PSAtTheSigner, PSIntended
<1>6. PSLoopInvariant'
  BY <1>1, <1>2, <1>3 DEF PSInd, PSProgress, PSAtTheSigner, PSLoopInvariant, PSIntended, PSOwn
<1>7. PSExpiryInvariant'
  BY <1>1, <1>2, <1>3 DEF PSInd, PSExpiryInvariant, PSAtTheSigner, PSWindow
<1>8. PSTrailInvariant'
  BY <1>1, <1>2, <1>3 DEF PSInd, PSProgress, PSTrailInvariant, PSTrailMatchesSignatures, PSAuthorized, PSAtTheSigner
<1> QED BY <1>4, <1>5, <1>6, <1>7, <1>8 DEF PSInd

\* One turn of the loop: past a foreign entry, or to the signer with the intended one.
LEMMA PSLoopKeepsTheInvariant ==
    ASSUME PSInd, PSLoop
    PROVE  PSInd'
<1>1. UNCHANGED <<psVia, psSigner, psReq, psCeiling, psAuth, psSigs, psRead, psLedger, psExp, psTrail>>
      /\ psPc = "loop" /\ psNext <= Len(psAuth) /\ psVia # "host" /\ psOutcome = "none"
  BY DEF PSLoop, PSInd, PSProgress
<1>2. PSSigned' = PSSigned
  BY <1>1 DEF PSSigned
<1>3. psNext \in DOMAIN psAuth /\ DOMAIN psAuth = 1..Len(psAuth) /\ Len(psAuth) \in Nat
  BY <1>1 DEF PSInd, PSTypeOK, PSProgress
<1>4. \/ /\ ~PSOwn(psSigner, psAuth[psNext]) /\ psNext' = psNext + 1
         /\ psPc' = "loop" /\ psOutcome' = psOutcome
      \/ /\ psAuth[psNext] = PSIntended(psSigner, psReq) /\ psNext' = psNext
         /\ psPc' = "signing" /\ psOutcome' = psOutcome
      \/ psNext' = psNext /\ psPc' = "done" /\ psOutcome' = "mismatch"
  BY DEF PSLoop, PSGo, PSFail, PSInvocationMatches
<1>5. PSTypeOK'
  BY <1>1, <1>3, <1>4 DEF PSInd, PSTypeOK
<1>6. psNext \notin PSSigned
  BY <1>1, <1>3 DEF PSInd, PSLoopInvariant
<1>7. PSProgress'
  BY <1>1, <1>2, <1>3, <1>4, <1>6 DEF PSInd, PSProgress, PSAtTheSigner, PSIntended
<1>8. PSLoopInvariant'
  <2>1. psNext' \in {psNext, psNext + 1} /\ psNext \in Nat
    BY <1>3, <1>4
  <2>2. ASSUME NEW i \in PSSigned PROVE i < psNext' /\ psAuth[i] = PSIntended(psSigner, psReq)
    <3>1. i < psNext /\ psAuth[i] = PSIntended(psSigner, psReq) /\ i \in Nat
      BY <1>1, <1>3 DEF PSInd, PSTypeOK, PSLoopInvariant, PSSigned
    <3> QED BY <2>1, <3>1
  <2>3. ASSUME NEW i \in DOMAIN psAuth, i < psNext', PSOwn(psSigner, psAuth[i]) PROVE i \in PSSigned
    <3>1. i < psNext \/ (i = psNext /\ psNext' = psNext + 1)
      BY <1>3, <2>1, <2>3
    <3> QED BY <1>1, <1>4, <2>1, <2>3, <3>1 DEF PSInd, PSLoopInvariant
  <2> QED BY <1>1, <1>2, <1>4, <2>2, <2>3 DEF PSLoopInvariant, PSIntended, PSOwn
<1>9. PSExpiryInvariant'
  BY <1>1, <1>2, <1>4 DEF PSInd, PSExpiryInvariant, PSAtTheSigner, PSWindow
<1>10. PSTrailInvariant'
  BY <1>1, <1>2, <1>4 DEF PSInd, PSTrailInvariant, PSTrailMatchesSignatures, PSAuthorized
<1> QED BY <1>5, <1>7, <1>8, <1>9, <1>10 DEF PSInd

\* A signature is put on the entry at the index, and on no other.
LEMMA PSMapOntoSigns ==
    ASSUME PSInd, psPc = "authorizing", psSigs' = PSMapOnto(psNext)
    PROVE  /\ DOMAIN psSigs' = DOMAIN psSigs
           /\ PSSigned' = PSSigned \cup {psNext} /\ psNext \notin PSSigned
           /\ psSigs'[psNext].exp = psExp
           /\ \A i \in PSSigned : psSigs'[i] = psSigs[i]
<1> DEFINE sig == [map |-> PSSignatureMap(psSigner), exp |-> psExp]
<1>1. /\ psNext \in DOMAIN psSigs /\ psNext \notin PSSigned
      /\ psSigner \in PSSigners /\ psExp \in Nat
  BY DEF PSInd, PSTypeOK, PSProgress, PSAtTheSigner
<1>2. sig \in [map: {PSSignatureMap(s) : s \in PSSigners}, exp: Nat] /\ sig.exp = psExp
  BY <1>1
<1>3. sig # PSNone
  BY <1>2, PSNoneAssumption
<1>4. psSigs' = [psSigs EXCEPT ![psNext] = sig]
  BY DEF PSMapOnto
<1> HIDE DEF sig
<1>5. /\ DOMAIN psSigs' = DOMAIN psSigs /\ psSigs'[psNext] = sig
      /\ \A i \in DOMAIN psSigs : i # psNext => psSigs'[i] = psSigs[i]
  BY <1>1, <1>4
<1> QED BY <1>1, <1>2, <1>3, <1>5 DEF PSSigned

\* An "authorize" more in the trail.
LEMMA PSAuthorizeEvent ==
    ASSUME PSInd, psTrail' = Append(psTrail, "authorize")
    PROVE  /\ psTrail' \in Seq({"authorize", "deny"})
           /\ Cardinality(PSAuthorized') = Cardinality(PSAuthorized) + 1
           /\ psPc # "done" => \A k \in DOMAIN psTrail' : psTrail'[k] # "deny"
<1> DEFINE n == Len(psTrail)
<1>1. /\ psTrail \in Seq({"authorize", "deny"}) /\ n \in Nat /\ DOMAIN psTrail = 1..n
      /\ DOMAIN psTrail' = 1..(n + 1) /\ psTrail'[n + 1] = "authorize"
      /\ \A k \in 1..n : psTrail'[k] = psTrail[k]
  BY DEF PSInd, PSTypeOK
<1>2. PSAuthorized' = PSAuthorized \cup {n + 1} /\ n + 1 \notin PSAuthorized
  BY <1>1 DEF PSAuthorized
<1>3. IsFiniteSet(PSAuthorized)
  <2>1. IsFiniteSet(1..n) /\ PSAuthorized \subseteq 1..n
    BY <1>1, FS_Interval DEF PSAuthorized
  <2> QED BY <2>1, FS_Subset
<1>4. psPc # "done" => \A k \in DOMAIN psTrail' : psTrail'[k] # "deny"
  BY <1>1 DEF PSInd, PSTrailInvariant
<1>5. psTrail' \in Seq({"authorize", "deny"})
  BY <1>1
<1> HIDE DEF n
<1>6. Cardinality(PSAuthorized \cup {n + 1}) = Cardinality(PSAuthorized) + 1
  BY <1>2, <1>3, FS_AddElement
<1> QED BY <1>2, <1>4, <1>5, <1>6

\* The audited signature comes back: the trail and the signatures grow together.
LEMMA PSAuthorizeKeepsTheInvariant ==
    ASSUME PSInd, PSAuthorize
    PROVE  PSInd'
<1>1. /\ psPc = "authorizing" /\ psOutcome = "none"
      /\ UNCHANGED <<psVia, psSigner, psReq, psCeiling, psAuth, psRead, psLedger, psExp>>
      /\ psSigner \in PSSigners /\ psReq \in PSRequirements
      /\ psNext \in DOMAIN psAuth /\ DOMAIN psAuth = 1..Len(psAuth) /\ Len(psAuth) \in Nat
      /\ psVia # "host" => psAuth[psNext] = PSIntended(psSigner, psReq)
  BY DEF PSAuthorize, PSInd, PSProgress, PSAtTheSigner
<1>2. CASE /\ psTrail' \in {psTrail, Append(psTrail, "authorize")}
           /\ psPc' = "denying" /\ psOutcome' = psOutcome /\ UNCHANGED <<psSigs, psNext>>
  <2>1. PSSigned' = PSSigned
    BY <1>2 DEF PSSigned
  <2>2. PSTypeOK'
    BY <1>1, <1>2, PSAuthorizeEvent DEF PSInd, PSTypeOK
  <2>3. PSProgress'
    BY <1>1, <1>2, <2>1 DEF PSInd, PSProgress, PSAtTheSigner, PSIntended
  <2>4. PSLoopInvariant' /\ PSExpiryInvariant'
    BY <1>1, <1>2, <2>1 DEF PSInd, PSLoopInvariant, PSIntended, PSOwn, PSExpiryInvariant, PSAtTheSigner,
                            PSWindow
  <2>5. PSTrailInvariant'
    <3>1. Cardinality(PSAuthorized) = Cardinality(PSSigned) /\ \A k \in DOMAIN psTrail : psTrail[k] # "deny"
      BY <1>1 DEF PSInd, PSTrailInvariant
    <3>2. CASE psTrail' = psTrail
      <4>1. PSAuthorized' = PSAuthorized
        BY <3>2 DEF PSAuthorized
      <4> QED BY <1>2, <2>1, <3>1, <3>2, <4>1 DEF PSTrailInvariant, PSTrailMatchesSignatures
    <3>3. CASE psTrail' = Append(psTrail, "authorize")
      BY <1>1, <1>2, <2>1, <3>1, <3>3, PSAuthorizeEvent DEF PSTrailInvariant, PSTrailMatchesSignatures
    <3> QED BY <1>2, <3>2, <3>3
  <2> QED BY <2>2, <2>3, <2>4, <2>5 DEF PSInd
<1>3. CASE /\ psTrail' = Append(psTrail, "authorize") /\ psSigs' = PSMapOnto(psNext)
           /\ IF psVia = "host" THEN PSFail("payload") /\ UNCHANGED psNext
              ELSE psNext' = psNext + 1 /\ PSGo("loop")
  <2>1. /\ DOMAIN psSigs' = DOMAIN psSigs
        /\ PSSigned' = PSSigned \cup {psNext} /\ psNext \notin PSSigned
        /\ psSigs'[psNext].exp = psExp
        /\ \A i \in PSSigned : psSigs'[i] = psSigs[i]
    BY <1>1, <1>3, PSMapOntoSigns
  <2>2. /\ psVia = "host" => psPc' = "done" /\ psOutcome' = "payload" /\ psNext' = psNext
        /\ psVia # "host" => psPc' = "loop" /\ psOutcome' = "none" /\ psNext' = psNext + 1
    BY <1>1, <1>3 DEF PSFail, PSGo
  <2>3. PSTypeOK'
    <3>1. psTrail' \in Seq({"authorize", "deny"})
      BY <1>3 DEF PSInd, PSTypeOK
    <3>2. psNext' \in 1..(Len(psAuth) + 1)
      BY <1>1, <2>2
    <3> QED BY <1>1, <2>1, <2>2, <3>1, <3>2 DEF PSInd, PSTypeOK
  <2>4. PSProgress'
    BY <1>1, <2>1, <2>2 DEF PSInd, PSProgress, PSAtTheSigner
  <2>5. PSLoopInvariant'
    <3> SUFFICES ASSUME psVia # "host" PROVE PSLoopInvariant'
      BY <1>1 DEF PSLoopInvariant
    <3>1. ASSUME NEW i \in PSSigned' PROVE i < psNext' /\ psAuth[i] = PSIntended(psSigner, psReq)
      <4>1. CASE i = psNext
        BY <1>1, <2>2, <4>1
      <4>2. CASE i \in PSSigned
        <5>1. i < psNext /\ psAuth[i] = PSIntended(psSigner, psReq) /\ i \in DOMAIN psAuth
          BY <4>2 DEF PSInd, PSTypeOK, PSLoopInvariant, PSSigned
        <5> QED BY <1>1, <2>2, <5>1
      <4> QED BY <2>1, <4>1, <4>2
    <3>2. ASSUME NEW i \in DOMAIN psAuth, i < psNext', PSOwn(psSigner, psAuth[i]) PROVE i \in PSSigned'
      <4>1. i < psNext \/ i = psNext
        BY <1>1, <2>2, <3>2
      <4> QED BY <2>1, <3>2, <4>1 DEF PSInd, PSLoopInvariant
    <3> QED BY <1>1, <2>2, <3>1, <3>2 DEF PSLoopInvariant, PSIntended, PSOwn
  <2>6. PSExpiryInvariant'
    BY <1>1, <2>1, <2>2 DEF PSInd, PSExpiryInvariant, PSAtTheSigner, PSWindow
  <2>7. PSTrailInvariant'
    <3>1. IsFiniteSet(PSSigned)
      <4>1. IsFiniteSet(1..Len(psAuth)) /\ PSSigned \subseteq 1..Len(psAuth)
        BY <1>1, FS_Interval DEF PSInd, PSTypeOK, PSSigned
      <4> QED BY <4>1, FS_Subset
    <3>2. Cardinality(PSSigned \cup {psNext}) = Cardinality(PSSigned) + 1
      BY <2>1, <3>1, FS_AddElement
    <3>3. Cardinality(PSAuthorized) = Cardinality(PSSigned)
      BY <1>1 DEF PSInd, PSTrailInvariant
    <3>4. /\ Cardinality(PSAuthorized') = Cardinality(PSAuthorized) + 1
          /\ \A k \in DOMAIN psTrail' : psTrail'[k] # "deny"
      BY <1>1, <1>3, PSAuthorizeEvent
    <3> QED BY <2>1, <2>2, <3>2, <3>3, <3>4 DEF PSTrailInvariant, PSTrailMatchesSignatures
  <2> QED BY <2>3, <2>4, <2>5, <2>6, <2>7 DEF PSInd
<1> QED BY <1>2, <1>3 DEF PSAuthorize, PSGo

\* The refusal is reported, or its report is lost; either way the call fails.
LEMMA PSDenyKeepsTheInvariant ==
    ASSUME PSInd, PSDeny
    PROVE  PSInd'
<1>1. /\ psPc = "denying" /\ psPc' = "done" /\ psOutcome' = "signFailed"
      /\ UNCHANGED <<psVia, psSigner, psReq, psCeiling, psAuth, psNext, psSigs, psRead, psLedger, psExp>>
  BY DEF PSDeny, PSFail
<1>2. PSSigned' = PSSigned
  BY <1>1 DEF PSSigned
<1>3. PSTypeOK'
  BY <1>1 DEF PSInd, PSTypeOK, PSDeny
<1>4. PSProgress' /\ PSLoopInvariant'
  BY <1>1, <1>2 DEF PSInd, PSProgress, PSAtTheSigner, PSLoopInvariant, PSIntended, PSOwn
<1>5. PSExpiryInvariant'
  BY <1>1, <1>2 DEF PSInd, PSExpiryInvariant, PSAtTheSigner, PSWindow
<1>6. PSTrailInvariant'
  <2>1. CASE psTrail' = psTrail
    BY <1>1, <1>2, <2>1 DEF PSInd, PSTrailInvariant, PSTrailMatchesSignatures, PSAuthorized
  <2>2. CASE psTrail' = Append(psTrail, "deny")
    <3> DEFINE n == Len(psTrail)
    <3>1. /\ n \in Nat /\ DOMAIN psTrail = 1..n
          /\ DOMAIN psTrail' = 1..(n + 1) /\ psTrail'[n + 1] = "deny" /\ Len(psTrail') = n + 1
          /\ \A k \in 1..n : psTrail'[k] = psTrail[k]
      BY <2>2 DEF PSInd, PSTypeOK
    <3>2. PSAuthorized' = PSAuthorized
      BY <3>1 DEF PSAuthorized
    <3>3. \A k \in DOMAIN psTrail' : psTrail'[k] = "deny" => k = n + 1
      BY <1>1, <3>1 DEF PSInd, PSTrailInvariant
    <3> QED BY <1>1, <1>2, <3>1, <3>2, <3>3 DEF PSInd, PSTrailInvariant, PSTrailMatchesSignatures
  <2> QED BY <2>1, <2>2 DEF PSDeny
<1> QED BY <1>3, <1>4, <1>5, <1>6 DEF PSInd

\* Before there are entries: a signer is created, a payment begins.
LEMMA PSBeginKeepsTheInvariant ==
    ASSUME PSInd, PSCreateSigner \/ PSPay
    PROVE  PSInd'
<1>1. /\ psPc = "idle" /\ UNCHANGED <<psAuth, psNext, psSigs, psRead, psLedger, psExp, psTrail>>
      /\ psAuth = <<>> /\ psSigs = <<>> /\ psNext = 1 /\ psOutcome = "none"
  BY DEF PSCreateSigner, PSPay, PSInd, PSProgress
<1>2. PSSigned = {} /\ PSSigned' = {}
  BY <1>1 DEF PSSigned
<1>3. /\ psVia' \in {"scheme", "client", "host"} /\ psReq' \in PSRequirements \cup {PSNone}
      /\ psSigner' \in PSSigners \cup {PSNone}
      /\ psPc' \in {"idle", "building", "done"} /\ psOutcome' \in {"none", "badConfig", "refused"}
      /\ psPc' # "done" => psOutcome' = "none"
      /\ psPc' = "building" => /\ psVia' # "host" /\ psReq' \in PSRequirements /\ psCeiling' \in PSCeilings
                               /\ psSigner' \in PSSigners
  BY <1>1 DEF PSCreateSigner, PSPay, PSFail, PSGo, PSInd, PSTypeOK
<1>4. PSTypeOK'
  BY <1>1, <1>3 DEF PSInd, PSTypeOK
<1>5. PSProgress'
  BY <1>1, <1>2, <1>3 DEF PSInd, PSProgress, PSAtTheSigner
<1>6. PSLoopInvariant' /\ PSExpiryInvariant'
  BY <1>1, <1>2, <1>3 DEF PSLoopInvariant, PSExpiryInvariant, PSAtTheSigner
<1>7. PSTrailInvariant'
  BY <1>1, <1>2, <1>3 DEF PSInd, PSTrailInvariant, PSTrailMatchesSignatures, PSAuthorized
<1> QED BY <1>4, <1>5, <1>6, <1>7 DEF PSInd

\* Another caller hands the signer one entry.
LEMMA PSDirectKeepsTheInvariant ==
    ASSUME PSInd, PSDirect
    PROVE  PSInd'
<1>1. /\ psPc = "idle" /\ psPc' = "signing" /\ psOutcome' = psOutcome /\ psOutcome = "none"
      /\ UNCHANGED <<psSigner, psCeiling, psNext, psRead, psLedger, psTrail>>
      /\ psSigs = <<>> /\ psNext = 1 /\ psSigner \in PSSigners /\ psVia' = "host"
  BY DEF PSDirect, PSGo, PSInd, PSTypeOK, PSProgress
<1>2. PICK req \in PSRequirements : \E e \in PSEntries(psSigner, req) :
        psReq' = req /\ psAuth' = <<e>> /\ psSigs' = <<PSNone>>
  BY DEF PSDirect
<1>3. PICK e \in PSEntries(psSigner, req) : psReq' = req /\ psAuth' = <<e>> /\ psSigs' = <<PSNone>>
  BY <1>2
<1>4. e \in PSAnyEntry
  BY <1>1 DEF PSAnyEntry
<1>5. /\ psAuth' \in Seq(PSAnyEntry) /\ Len(psAuth') = 1 /\ DOMAIN psAuth' = 1..1
      /\ DOMAIN psSigs' = 1..1 /\ psSigs'[1] = PSNone
  BY <1>3, <1>4
<1>6. PSSigned = {} /\ PSSigned' = {}
  BY <1>1, <1>5 DEF PSSigned
<1>7. PSTypeOK'
  BY <1>1, <1>3, <1>5 DEF PSDirect, PSInd, PSTypeOK
<1>8. PSProgress'
  BY <1>1, <1>3, <1>5, <1>6 DEF PSProgress, PSAtTheSigner
<1>9. PSLoopInvariant' /\ PSExpiryInvariant'
  BY <1>1, <1>6 DEF PSLoopInvariant, PSExpiryInvariant
<1>10. PSTrailInvariant'
  BY <1>1, <1>6 DEF PSInd, PSTrailInvariant, PSTrailMatchesSignatures, PSAuthorized
<1> QED BY <1>7, <1>8, <1>9, <1>10 DEF PSInd

\* The simulation answers with any entries, none of them signed.
LEMMA PSBuiltKeepsTheInvariant ==
    ASSUME PSInd, PSBuilt
    PROVE  PSInd'
<1>1. /\ psPc = "building" /\ psOutcome = "none" /\ psVia # "host" /\ psNext = 1
      /\ UNCHANGED <<psVia, psSigner, psReq, psCeiling, psNext, psRead, psLedger, psExp, psTrail>>
      /\ psSigs = <<>> /\ psAuth = <<>> /\ psSigner \in PSSigners /\ psReq \in PSRequirements
      /\ psCeiling \in PSCeilings
  BY DEF PSBuilt, PSInd, PSProgress, PSExpiryInvariant
<1>2. PSSigned = {}
  BY <1>1 DEF PSSigned
<1>3. CASE psPc' = "done" /\ psOutcome' = "notBuilt" /\ UNCHANGED <<psAuth, psSigs>>
  <2>1. PSSigned' = {}
    BY <1>1, <1>3 DEF PSSigned
  <2>2. PSTypeOK'
    BY <1>1, <1>3 DEF PSInd, PSTypeOK
  <2>3. PSProgress' /\ PSLoopInvariant' /\ PSExpiryInvariant'
    BY <1>1, <1>3, <2>1 DEF PSInd, PSProgress, PSLoopInvariant, PSExpiryInvariant, PSAtTheSigner
  <2>4. PSTrailInvariant'
    BY <1>1, <1>2, <1>3, <2>1 DEF PSInd, PSTrailInvariant, PSTrailMatchesSignatures, PSAuthorized
  <2> QED BY <2>2, <2>3, <2>4 DEF PSInd
<1>4. CASE /\ \E n \in 0..PSMaxEntries : psAuth' \in [1..n -> PSEntries(psSigner, psReq)]
           /\ psSigs' = [i \in DOMAIN psAuth' |-> PSNone] /\ psPc' = "ledger" /\ psOutcome' = psOutcome
  <2>1. PICK n \in 0..PSMaxEntries : psAuth' \in [1..n -> PSEntries(psSigner, psReq)]
    BY <1>4
  <2>2. n \in Nat /\ PSEntries(psSigner, psReq) \subseteq PSAnyEntry
    BY <1>1, PSInputsAssumption DEF PSAnyEntry
  <2>3. psAuth' \in Seq(PSAnyEntry)
    <3>1. psAuth' \in [1..n -> PSAnyEntry]
      <4> HIDE DEF PSAnyEntry
      <4> QED BY <2>1, <2>2
    <3> HIDE DEF PSAnyEntry
    <3> QED BY <2>2, <3>1, SeqDef
  <2>4. DOMAIN psAuth' = 1..Len(psAuth') /\ Len(psAuth') \in Nat
    BY <2>3
  <2>5. PSSigned' = {} /\ DOMAIN psSigs' = DOMAIN psAuth'
    BY <1>4 DEF PSSigned
  <2>6. PSTypeOK'
    BY <1>1, <1>4, <2>4, <2>5 DEF PSInd, PSTypeOK
  <2>7. PSProgress'
    BY <1>1, <1>4, <2>3, <2>5 DEF PSInd, PSProgress, PSAtTheSigner
  <2>8. PSLoopInvariant' /\ PSExpiryInvariant'
    BY <1>1, <1>4, <2>4, <2>5 DEF PSLoopInvariant, PSExpiryInvariant, PSAtTheSigner
  <2>9. PSTrailInvariant'
    BY <1>1, <1>2, <1>4, <2>5 DEF PSInd, PSTrailInvariant, PSTrailMatchesSignatures, PSAuthorized
  <2> QED BY <2>6, <2>7, <2>8, <2>9 DEF PSInd
<1> QED BY <1>3, <1>4 DEF PSBuilt, PSFail, PSGo

\* The expiration is fixed, inside the window and below the ceiling.
LEMMA PSLatestLedgerKeepsTheInvariant ==
    ASSUME PSInd, PSLatestLedger
    PROVE  PSInd'
<1>1. /\ psPc = "ledger" /\ psOutcome = "none" /\ psVia \in {"scheme", "client"} /\ psNext = 1
      /\ UNCHANGED <<psVia, psSigner, psReq, psCeiling, psAuth, psNext, psSigs, psLedger, psTrail>>
      /\ psRead' = psLedger /\ PSSigned = {} /\ psSigner \in PSSigners /\ psReq \in PSRequirements
      /\ psCeiling \in PSCeilings
  BY DEF PSLatestLedger, PSInd, PSTypeOK, PSProgress, PSExpiryInvariant
<1>2. PSSigned' = {}
  BY <1>1 DEF PSSigned
<1>3. psLedger \in Nat
  BY DEF PSInd, PSTypeOK
<1>4. /\ psExp' \in Nat /\ psPc' \in {"loop", "done"} /\ psOutcome' \in {"none", "unworkableTimeout"}
      /\ psPc' # "done" => psOutcome' = "none"
      /\ psPc' = "loop" =>
            /\ psCeiling = PSNone \/ psVia = "scheme" =>
                   psExp' <= psLedger + PSMaxSeconds \div PSLedgerSeconds - 2
            /\ psVia = "scheme" \/ PSWindow(psReq) >= 3 => psExp' <= psLedger + PSWindow(psReq)
  <2> DEFINE k == PSMaxSeconds \div PSLedgerSeconds
  <2>1. k \in Int /\ PSWindow(psReq) \in Int
    BY <1>1, PSAssumption, DivisionBounds, PSSchemeOffsetBounds
  <2>2. CASE psVia = "client"
    <3> DEFINE o == PSClientOffset(psReq, psCeiling)
    <3>1. o \in Nat /\ (psCeiling = PSNone => o <= k - 2) /\ (PSWindow(psReq) >= 3 => o <= PSWindow(psReq))
      BY <1>1, PSClientOffsetBounds
    <3>2. psExp' = psLedger + o /\ psPc' = "loop" /\ psOutcome' = "none"
      BY <1>1, <2>2 DEF PSLatestLedger, PSGo
    <3> HIDE DEF o, k
    <3>3. /\ psCeiling = PSNone => psExp' <= psLedger + k - 2
          /\ PSWindow(psReq) >= 3 => psExp' <= psLedger + PSWindow(psReq)
          /\ psExp' \in Nat
      BY <1>3, <2>1, <3>1, <3>2
    <3> QED BY <2>2, <3>2, <3>3 DEF k
  <2>3. CASE psVia = "scheme"
    <3> DEFINE o == PSSchemeOffset(psReq)
    <3>1. o \in Nat /\ (o >= 5 => o <= k - 2 /\ o <= PSWindow(psReq))
      BY <1>1, PSSchemeOffsetBounds
    <3>2. /\ psExp' = psLedger + o
          /\ IF o < 5 THEN psPc' = "done" /\ psOutcome' = "unworkableTimeout"
             ELSE psPc' = "loop" /\ psOutcome' = "none"
      BY <1>1, <2>3 DEF PSLatestLedger, PSGo, PSFail
    <3> HIDE DEF o, k
    <3>3. /\ psPc' = "loop" => psExp' <= psLedger + k - 2 /\ psExp' <= psLedger + PSWindow(psReq)
          /\ psExp' \in Nat
      BY <1>3, <2>1, <3>1, <3>2
    <3> QED BY <2>3, <3>2, <3>3 DEF k
  <2> QED BY <1>1, <2>2, <2>3
<1>5. PSTypeOK'
  BY <1>1, <1>3, <1>4 DEF PSInd, PSTypeOK
<1>6. PSProgress'
  BY <1>1, <1>2, <1>4 DEF PSInd, PSProgress, PSAtTheSigner
<1>7. PSLoopInvariant'
  BY <1>1, <1>2, <1>4 DEF PSInd, PSTypeOK, PSProgress, PSLoopInvariant
<1>8. PSExpiryInvariant'
  BY <1>1, <1>2, <1>4 DEF PSExpiryInvariant, PSAtTheSigner, PSWindow
<1>9. PSTrailInvariant'
  BY <1>1, <1>2, <1>4 DEF PSInd, PSTrailInvariant, PSTrailMatchesSignatures, PSAuthorized
<1> QED BY <1>5, <1>6, <1>7, <1>8, <1>9 DEF PSInd

\* Every step keeps the invariant.
LEMMA PSNextInd == PSInd /\ [PSNext]_psVars => PSInd'
<1> SUFFICES ASSUME PSInd, [PSNext]_psVars PROVE PSInd'
  OBVIOUS
<1>1. ASSUME PSLedgerCloses PROVE PSInd'
  <2>1. PSSigned' = PSSigned
    BY <1>1 DEF PSLedgerCloses, PSSigned
  <2>2. PSTypeOK'
    BY <1>1 DEF PSLedgerCloses, PSInd, PSTypeOK
  <2>3. PSProgress' /\ PSLoopInvariant'
    BY <1>1, <2>1 DEF PSLedgerCloses, PSInd, PSProgress, PSAtTheSigner, PSLoopInvariant, PSIntended, PSOwn
  <2>4. PSExpiryInvariant' /\ PSTrailInvariant'
    BY <1>1, <2>1 DEF PSLedgerCloses, PSInd, PSExpiryInvariant, PSAtTheSigner, PSWindow,
                      PSTrailInvariant, PSTrailMatchesSignatures, PSAuthorized
  <2> QED BY <2>2, <2>3, <2>4 DEF PSInd
<1>2. ASSUME UNCHANGED psVars PROVE PSInd'
  <2>1. PSSigned' = PSSigned
    BY <1>2 DEF psVars, PSSigned
  <2>2. PSTypeOK' /\ PSProgress' /\ PSLoopInvariant'
    <3>1. PSTypeOK' /\ PSProgress'
      BY <1>2, <2>1 DEF psVars, PSInd, PSTypeOK, PSProgress, PSAtTheSigner
    <3>2. PSLoopInvariant'
      BY <1>2, <2>1 DEF psVars, PSInd, PSAtTheSigner, PSLoopInvariant, PSIntended, PSOwn
    <3> QED BY <3>1, <3>2
  <2>3. PSExpiryInvariant' /\ PSTrailInvariant'
    BY <1>2, <2>1 DEF psVars, PSInd, PSExpiryInvariant, PSAtTheSigner, PSWindow,
                      PSTrailInvariant, PSTrailMatchesSignatures, PSAuthorized
  <2> QED BY <2>2, <2>3 DEF PSInd
<1> QED
  BY <1>1, <1>2, PSBeginKeepsTheInvariant, PSDirectKeepsTheInvariant, PSBuiltKeepsTheInvariant,
     PSLatestLedgerKeepsTheInvariant, PSLoopKeepsTheInvariant, PSMoveKeepsTheInvariant,
     PSAuthorizeKeepsTheInvariant, PSDenyKeepsTheInvariant
     DEF PSNext

\* createPaymentPayload and buildSignedPayment: whatever and however many entries
\* the RPC returns, only the cleared transfer is signed, and a payload leaves
\* only when all of the wallet's own entries, at least one, are signed.
THEOREM OnlyIntendedPaymentsAreSigned == PSSpec => []PSOnlyIntendedPaymentsAreSigned
<1>1. PSInd => PSOnlyIntendedPaymentsAreSigned
  <2> SUFFICES ASSUME PSInd, psVia # "host"
               PROVE  /\ \A i \in PSSigned : psAuth[i] = PSIntended(psSigner, psReq)
                      /\ psOutcome = "payload" =>
                            /\ PSSigned # {}
                            /\ \A i \in DOMAIN psAuth : PSOwn(psSigner, psAuth[i]) => i \in PSSigned
    BY DEF PSOnlyIntendedPaymentsAreSigned
  <2>1. DOMAIN psAuth = 1..Len(psAuth) /\ Len(psAuth) \in Nat /\ psNext \in Nat
    BY DEF PSInd, PSTypeOK, PSProgress
  <2> QED BY <2>1 DEF PSInd, PSLoopInvariant
<1> QED BY <1>1, PSInitInd, PSNextInd, PTL DEF PSSpec

\* expirationLedgersFor and expirationOffsetFor, with the ledger read before any
\* prompt: no signature outlives the ceiling or the facilitator's window, at
\* whatever later ledger it is looked at.
THEOREM SignaturesExpireInTheWindow == PSSpec => []PSExpiryStaysInWindow
<1>1. PSInd => PSExpiryStaysInWindow
  <2> SUFFICES ASSUME PSInd, NEW i \in PSSigned, psVia # "host"
               PROVE  /\ psCeiling = PSNone \/ psVia = "scheme" =>
                            psSigs[i].exp <= psRead + PSMaxSeconds \div PSLedgerSeconds - 2
                      /\ psVia = "scheme" \/ PSWindow(psReq) >= 3 =>
                            psSigs[i].exp <= psLedger + PSWindow(psReq)
    BY DEF PSExpiryStaysInWindow
  <2>1. psSigs[i].exp = psExp /\ psReq \in PSRequirements /\ PSSigned # {}
    BY DEF PSInd, PSExpiryInvariant
  <2>2. PSWindow(psReq) \in Int
    BY <2>1, PSSchemeOffsetBounds
  <2>3. psRead \in Int /\ psLedger \in Int /\ psRead <= psLedger /\ psExp \in Int
    BY DEF PSInd, PSTypeOK
  <2>4. /\ psCeiling = PSNone \/ psVia = "scheme" =>
             psExp <= psRead + PSMaxSeconds \div PSLedgerSeconds - 2
        /\ psVia = "scheme" \/ PSWindow(psReq) >= 3 => psExp <= psRead + PSWindow(psReq)
    BY <2>1 DEF PSInd, PSExpiryInvariant
  <2> QED BY <2>1, <2>2, <2>3, <2>4
<1> QED BY <1>1, PSInitInd, PSNextInd, PTL DEF PSSpec

\* onSignerAction: the audit trail has one "authorize" for each signature that
\* left the signer, one more only when the hook stored it and rejected and the call
\* fails, and a "deny" only at the end of a call that failed.
THEOREM AuditTrailMatchesSignatures == PSSpec => []PSTrailMatchesSignatures
<1>1. PSInd => PSTrailMatchesSignatures
  BY DEF PSInd, PSTrailInvariant
<1> QED BY <1>1, PSInitInd, PSNextInd, PTL DEF PSSpec

-----------------------------------------------------------------------------
(* The order of the signature map. *)

\* Every list of numbers can be put in order.
LEMMA PSOrderExists ==
    ASSUME NEW q \in Seq(Nat)
    PROVE  \E p \in [DOMAIN q -> DOMAIN q] : PSInOrder(q, p)
<1> DEFINE n == Len(q)
           I == 1 .. n
           Le(i, j) == q[i] < q[j] \/ (q[i] = q[j] /\ i <= j)
           Upto(i) == {j \in I : Le(j, i)}
           rank == [i \in I |-> Cardinality(Upto(i))]
           p == [k \in I |-> CHOOSE i \in I : rank[i] = k]
<1>1. n \in Nat /\ DOMAIN q = I /\ \A i \in I : q[i] \in Nat
  BY LenProperties, ElementOfSeq
<1> HIDE DEF n
<1>2. IsFiniteSet(I) /\ Cardinality(I) = n
  BY <1>1, FS_Interval
<1>3. \A i \in I : IsFiniteSet(Upto(i)) /\ Cardinality(Upto(i)) \in Nat /\ Cardinality(Upto(i)) <= n
  <2> TAKE i \in I
  <2>1. Upto(i) \subseteq I
    OBVIOUS
  <2> HIDE DEF Upto, I
  <2> QED BY <1>2, <2>1, FS_Subset, FS_CardinalityType
<1>4. \A i \in I : Le(i, i)
  BY <1>1
<1>5. \A i, j \in I : Le(i, j) \/ Le(j, i)
  BY <1>1
<1>6. \A i, j \in I : Le(i, j) /\ Le(j, i) => i = j
  BY <1>1
<1>7. \A i, j, k \in I : Le(i, j) /\ Le(j, k) => Le(i, k)
  BY <1>1
<1>8. \A i, j \in I : Le(i, j) => q[i] <= q[j]
  BY <1>1
<1> HIDE DEF Le, I
<1>9. \A i \in I : Cardinality(Upto(i)) \in 1 .. n
  <2> TAKE i \in I
  <2>1. i \in Upto(i)
    BY <1>4
  <2>2. Cardinality(Upto(i)) # 0
    BY <1>3, <2>1, FS_EmptySet
  <2> HIDE DEF Upto
  <2> QED BY <1>1, <1>3, <2>2
<1>10. ASSUME NEW i \in I, NEW j \in I, Le(i, j), i # j PROVE Cardinality(Upto(i)) < Cardinality(Upto(j))
  <2>1. Upto(i) \subseteq Upto(j) /\ j \in Upto(j) /\ j \notin Upto(i)
    BY <1>4, <1>6, <1>7, <1>10
  <2> HIDE DEF Upto
  <2>2. Cardinality(Upto(i)) <= Cardinality(Upto(j)) /\ Cardinality(Upto(j)) # Cardinality(Upto(i))
    BY <1>3, <2>1, FS_Subset
  <2> QED BY <1>3, <2>2
<1> HIDE DEF Upto
<1>11. rank \in [I -> I]
  BY <1>9 DEF I
<1>12. ASSUME NEW i \in I, NEW j \in I, rank[i] = rank[j] PROVE i = j
  <2>1. Cardinality(Upto(i)) = Cardinality(Upto(j)) /\ Cardinality(Upto(i)) \in Nat
    BY <1>3, <1>12
  <2> QED BY <1>3, <1>5, <1>10, <2>1
<1>13. \A k \in I : \E i \in I : rank[i] = k
  <2>0. DOMAIN rank = I
    OBVIOUS
  <2> HIDE DEF rank
  <2>1. rank \in Injection(I, I)
    BY <1>11, <1>12, <2>0 DEF Injection, IsInjective
  <2>2. rank \in Surjection(I, I)
    BY <1>2, <2>1, FS_Injection
  <2> QED BY <2>2 DEF Surjection
<1>14. \A k \in I : p[k] \in I /\ rank[p[k]] = k
  <2> HIDE DEF rank
  <2> QED BY <1>13
<1>15. p \in [I -> I] /\ DOMAIN p = I
  <2> HIDE DEF rank
  <2> QED BY <1>13
<1>16. \A i, j \in I : i # j => rank[i] # rank[j]
  BY <1>12
<1>17. ASSUME NEW i \in I, NEW j \in I, i < j PROVE q[p[i]] <= q[p[j]]
  <2>1. p[i] \in I /\ p[j] \in I /\ Cardinality(Upto(p[i])) = i /\ Cardinality(Upto(p[j])) = j
    BY <1>14
  <2> HIDE DEF p, rank
  <2>2. i \in Int /\ j \in Int
    BY <1>1 DEF I
  <2>3. ASSUME Le(p[j], p[i]), p[i] # p[j] PROVE FALSE
    <3>1. Cardinality(Upto(p[j])) < Cardinality(Upto(p[i]))
      BY <1>10, <2>1, <2>3
    <3> QED BY <1>17, <2>1, <2>2, <3>1
  <2>4. Le(p[i], p[j])
    BY <1>5, <2>1, <2>3
  <2> QED BY <1>8, <2>1, <2>4
<1> HIDE DEF rank, p
<1>18. IsInjective(p)
  BY <1>14, <1>15 DEF IsInjective
<1>19. PSInOrder(q, p)
  BY <1>1, <1>15, <1>17, <1>18 DEF PSInOrder
<1> QED BY <1>1, <1>15, <1>19

\* The sorted policies: the configured ones, in order, and none twice that is not
\* configured twice.
LEMMA PSSortedIsSorted ==
    ASSUME NEW q \in Seq(Nat)
    PROVE  /\ \A i \in DOMAIN q : PSSorted(q)[i] \in Nat
           /\ \A i, j \in DOMAIN q : i < j => PSSorted(q)[i] < PSSorted(q)[j]
                                           \/ (PSSorted(q)[i] = PSSorted(q)[j] /\ ~IsInjective(q))
<1> DEFINE place == CHOOSE p \in [DOMAIN q -> DOMAIN q] : PSInOrder(q, p)
<1>1. place \in [DOMAIN q -> DOMAIN q] /\ PSInOrder(q, place)
  BY PSOrderExists
<1>2. \A i \in DOMAIN q : PSSorted(q)[i] = q[place[i]]
  BY DEF PSSorted
<1>3. \A i \in DOMAIN q : q[i] \in Nat /\ i \in Nat
  BY LenProperties, ElementOfSeq
<1> HIDE DEF place
<1>4. \A i \in DOMAIN q : place[i] \in DOMAIN q /\ q[place[i]] \in Nat
  BY <1>1, <1>3
<1>5. \A i, j \in DOMAIN q : i < j => q[place[i]] < q[place[j]] \/ q[place[i]] = q[place[j]]
  BY <1>1, <1>4 DEF PSInOrder
<1>6. ASSUME NEW i \in DOMAIN q, NEW j \in DOMAIN q, i < j, q[place[i]] = q[place[j]], IsInjective(q) PROVE FALSE
  <2>1. place[i] = place[j]
    BY <1>4, <1>6 DEF IsInjective
  <2>2. DOMAIN place = DOMAIN q
    BY <1>1
  <2>3. i = j
    BY <1>1, <2>1, <2>2 DEF PSInOrder, IsInjective
  <2> QED BY <1>3, <1>6, <2>3
<1>7. ASSUME NEW i \in DOMAIN q, NEW j \in DOMAIN q, i < j
      PROVE  PSSorted(q)[i] < PSSorted(q)[j] \/ (PSSorted(q)[i] = PSSorted(q)[j] /\ ~IsInjective(q))
  <2>1. PSSorted(q)[i] = q[place[i]] /\ PSSorted(q)[j] = q[place[j]]
    BY <1>2
  <2>2. q[place[i]] < q[place[j]] \/ q[place[i]] = q[place[j]]
    BY <1>5, <1>7
  <2>3. q[place[i]] = q[place[j]] => ~IsInjective(q)
    BY <1>6, <1>7
  <2> QED BY <2>1, <2>2, <2>3
<1>8. \A i \in DOMAIN q : PSSorted(q)[i] \in Nat
  BY <1>2, <1>4
<1> QED BY <1>7, <1>8

PSKeyBefore(a, b) == a[1] < b[1] \/ (a[1] = b[1] /\ a[2] < b[2])

\* setSignatureMap's order, for a session key.
LEMMA PSSessionMapInOrder ==
    ASSUME NEW s \in PSSigners, s.key = "session", NEW j \in DOMAIN PSSignatureMap(s),
           NEW k \in DOMAIN PSSignatureMap(s), j < k
    PROVE  LET m == PSSignatureMap(s)
           IN  PSKeyBefore(m[j], m[k]) \/ (m[j] = m[k] /\ ~IsInjective(s.policies))
<1> DEFINE q == s.policies
           n == Len(q)
           one == <<PSSignerKey(s)>>
           rest == [i \in DOMAIN q |-> PSPolicyKey(PSSorted(q)[i])]
           m == PSSignatureMap(s)
<1>1. q \in Seq(Nat)
  BY PSInputsAssumption
<1> HIDE DEF q
<1>2. n \in Nat /\ DOMAIN q = 1 .. n
  BY <1>1, LenProperties
<1> DEFINE K == {PSSignerKey(s)} \cup {PSPolicyKey(PSSorted(q)[i]) : i \in DOMAIN q}
<1>3. one \in Seq(K) /\ Len(one) = 1 /\ one[1] = PSSignerKey(s)
  OBVIOUS
<1>4. rest \in Seq(K) /\ Len(rest) = n
  <2>1. rest \in [1 .. n -> K]
    BY <1>2
  <2> HIDE DEF rest, K
  <2> QED BY <1>2, <2>1
<1>5. m = one \o rest
  BY DEF PSSignatureMap, q
<1> HIDE DEF one, K, m
<1>6. \A i \in 1 .. n : rest[i] = PSPolicyKey(PSSorted(q)[i])
  BY <1>2
<1> HIDE DEF rest
<1>7. /\ m \in Seq(K) /\ Len(m) = 1 + n
      /\ \A i \in 1 .. 1 + n : m[i] = IF i <= 1 THEN one[i] ELSE rest[i - 1]
  <2>1. /\ one \o rest \in Seq(K) /\ Len(one \o rest) = Len(one) + Len(rest)
        /\ \A i \in 1 .. Len(one) + Len(rest) :
              (one \o rest)[i] = IF i <= Len(one) THEN one[i] ELSE rest[i - Len(one)]
    BY ONLY <1>3, <1>4, ConcatProperties
  <2> QED BY ONLY <1>3, <1>4, <1>5, <2>1
<1>8. DOMAIN m = 1 .. 1 + n
  BY ONLY <1>7, LenProperties
<1>9. j \in 1 .. 1 + n /\ k \in 1 .. 1 + n
  BY <1>8 DEF m
<1>10. k - 1 \in 1 .. n /\ m[k] = PSPolicyKey(PSSorted(q)[k - 1])
  <2>1. ~(k <= 1) /\ k - 1 \in 1 .. n
    BY <1>2, <1>9
  <2> QED BY <1>6, <1>7, <1>9, <2>1
<1>11. CASE j = 1
  <2>1. m[j] = <<1, s.address>>
    BY <1>3, <1>7, <1>9, <1>11 DEF PSSignerKey
  <2> QED BY <1>10, <2>1 DEF PSPolicyKey, PSKeyBefore, m
<1>12. CASE j # 1
  <2>1. ~(j <= 1) /\ j - 1 \in 1 .. n /\ j - 1 < k - 1
    BY <1>2, <1>9, <1>12
  <2>2. m[j] = PSPolicyKey(PSSorted(q)[j - 1])
    BY <1>6, <1>7, <1>9, <2>1
  <2>3. PSSorted(q)[j - 1] < PSSorted(q)[k - 1] \/ (PSSorted(q)[j - 1] = PSSorted(q)[k - 1] /\ ~IsInjective(q))
    BY <1>1, <1>2, <1>10, <2>1, PSSortedIsSorted
  <2> QED BY <1>10, <2>2, <2>3 DEF PSPolicyKey, PSKeyBefore, m, q
<1> QED BY <1>11, <1>12

\* Every signature carries the map of the signer that was configured.
PSMapInvariant == \A i \in PSSigned : psSigner \in PSSigners /\ psSigs[i].map = PSSignatureMap(psSigner)

LEMMA PSMapInvariantStep == PSInd /\ PSMapInvariant /\ [PSNext]_psVars => PSMapInvariant'
<1> SUFFICES ASSUME PSInd, PSMapInvariant, [PSNext]_psVars PROVE PSMapInvariant'
  OBVIOUS
<1>1. CASE psSigs' = psSigs /\ psSigner' = psSigner
  BY <1>1 DEF PSMapInvariant, PSSigned
<1>2. ASSUME \A i \in DOMAIN psSigs' : psSigs'[i] = PSNone PROVE PSMapInvariant'
  BY <1>2 DEF PSMapInvariant, PSSigned
<1>3. CASE PSCreateSigner
  <2>1. psSigs' = psSigs /\ psSigs = <<>>
    BY <1>3 DEF PSCreateSigner, PSInd, PSProgress
  <2> QED BY <1>2, <2>1
<1>4. CASE PSDirect
  <2>1. psSigs' = <<PSNone>>
    BY <1>4 DEF PSDirect
  <2> QED BY <1>2, <2>1
<1>5. CASE PSBuilt
  <2>1. psSigs' = [i \in DOMAIN psAuth' |-> PSNone] \/ (psSigs' = psSigs /\ psSigner' = psSigner)
    BY <1>5 DEF PSBuilt
  <2> QED BY <1>1, <1>2, <2>1
<1>6. CASE PSAuthorize
  <2>1. psPc = "authorizing" /\ psSigner' = psSigner /\ psSigner \in PSSigners
    BY <1>6 DEF PSAuthorize, PSInd, PSProgress
  <2>2. CASE psSigs' = PSMapOnto(psNext)
    <3>1. PSSigned' = PSSigned \cup {psNext} /\ \A i \in PSSigned : psSigs'[i] = psSigs[i]
      BY <2>1, <2>2, PSMapOntoSigns
    <3>2. psNext \in DOMAIN psSigs
      BY <2>1 DEF PSInd, PSTypeOK, PSProgress, PSAtTheSigner
    <3>3. psSigs'[psNext].map = PSSignatureMap(psSigner)
      <4> DEFINE sig == [map |-> PSSignatureMap(psSigner), exp |-> psExp]
      <4>1. psSigs'[psNext] = sig
        BY <2>2, <3>2 DEF PSMapOnto
      <4> QED BY <4>1
    <3>4. PSSignatureMap(psSigner)' = PSSignatureMap(psSigner)
      BY <2>1 DEF PSSignatureMap, PSSignerKey
    <3> QED BY <2>1, <3>1, <3>3, <3>4 DEF PSMapInvariant
  <2> QED BY <1>1, <1>6, <2>1, <2>2 DEF PSAuthorize
<1> QED BY <1>1, <1>3, <1>4, <1>5, <1>6
        DEF PSNext, psVars, PSPay, PSLatestLedger, PSLoop, PSLoopEnd, PSResimulate, PSSign, PSPrompt, PSDeny,
            PSLedgerCloses

\* What leaves the signers of x402-signer.ts is in the audit trail, expires in
\* time, and carries a signature map in the order Soroban requires when a
\* session key made it: for every number of policies and of entries, and
\* whatever the simulation returns.
THEOREM SignaturesAreSound == PSSpec => []PSSignaturesAreSound
<1>1. PSInit => PSMapInvariant
  BY DEF PSInit, PSMapInvariant, PSSigned
<1>2. PSInd /\ PSMapInvariant => PSSessionMapIsOrdered
  <2> SUFFICES ASSUME PSMapInvariant, psSigner.key = "session", NEW i \in PSSigned,
                      NEW j \in DOMAIN psSigs[i].map, NEW k \in DOMAIN psSigs[i].map, j < k
               PROVE  LET m == psSigs[i].map
                      IN  PSKeyBefore(m[j], m[k]) \/ (m[j] = m[k] /\ ~IsInjective(psSigner.policies))
    BY DEF PSSessionMapIsOrdered, PSMapIsOrdered, PSKeyBefore
  <2>1. psSigner \in PSSigners /\ psSigs[i].map = PSSignatureMap(psSigner)
    BY DEF PSMapInvariant
  <2> QED BY <2>1, PSSessionMapInOrder
<1>3. PSSpec => []PSInd
  BY PSInitInd, PSNextInd, PTL DEF PSSpec
<1>4. PSSpec => []PSSessionMapIsOrdered
  BY <1>1, <1>2, <1>3, PSMapInvariantStep, PTL DEF PSSpec
<1> QED BY <1>4, AuditTrailMatchesSignatures, SignaturesExpireInTheWindow, PTL DEF PSSignaturesAreSound

-----------------------------------------------------------------------------
(* Type correctness of the wallet's side as a whole. *)

RATyped == RATypeOK /\ IsFiniteSet(raSent)

LEMMA RAInitTyped == RAInit => RATyped
  BY FS_EmptySet, RAAssumption DEF RAInit, RATyped, RATypeOK

LEMMA RANextTyped == RATyped /\ [RANext]_raVars => RATyped'
<1> SUFFICES ASSUME RATyped, [RANext]_raVars PROVE RATyped'
  OBVIOUS
<1> USE DEF RATyped, RATypeOK
<1>1. CASE RASign
  <2>1. UNCHANGED <<raClock, raIssued, raConsumed>> /\ Cardinality(raSent) < RAMaxSent
    BY <1>1 DEF RASign
  <2>2. PICK q : raSent' = raSent \cup {q}
    BY <1>1 DEF RASign
  <2>3. /\ IsFiniteSet(raSent') /\ Cardinality(raSent) \in Nat
        /\ Cardinality(raSent') = IF q \in raSent THEN Cardinality(raSent) ELSE Cardinality(raSent) + 1
    BY <2>2, FS_AddElement, FS_CardinalityType
  <2>4. Cardinality(raSent') <= RAMaxSent
    BY <2>1, <2>3, RAAssumption
  <2> QED BY <2>1, <2>3, <2>4
<1>2. CASE RAAccept
  BY <1>2 DEF RAAccept
<1>3. CASE RATick
  BY <1>3, RAAssumption DEF RATick
<1>4. ASSUME NEW c \in RAChallenges, RARegister(c) PROVE RATyped'
  BY <1>4 DEF RARegister
<1>5. ASSUME NEW c \in RAChallenges, RAConsume(c) PROVE RATyped'
  BY <1>5 DEF RAConsume
<1>6. CASE UNCHANGED raVars
  BY <1>6 DEF raVars
<1> QED BY <1>1, <1>2, <1>3, <1>4, <1>5, <1>6 DEF RANext

WalletInd == SSInd /\ PCInd /\ PSInd /\ RATyped

\* The four components of the wallet's side keep no state in common, so the type of
\* each, which its own inductive invariant implies, is kept by every step of the
\* whole.
THEOREM WalletTypeSafety == Spec => []TypeOK
<1>1. Init => WalletInd
  BY SSInitInd, PCInitInd, PSInitInd, RAInitTyped DEF Init, WalletInd
<1>2. WalletInd /\ [Next]_vars => WalletInd'
  <2> SUFFICES ASSUME WalletInd, [Next]_vars PROVE WalletInd'
    OBVIOUS
  <2>1. [SSNext]_ssVars /\ [PCNext]_pcVars /\ [PSNext]_psVars /\ [RANext]_raVars
    BY DEF Next, vars
  <2> QED BY <2>1, SSNextInd, PCNextInd, PSNextInd, RANextTyped DEF WalletInd
<1>3. WalletInd => TypeOK
  BY DEF WalletInd, TypeOK, SSInd, PCInd, PSInd, RATyped
<1> QED BY <1>1, <1>2, <1>3, PTL DEF Spec

\* Every behaviour of the wallet's side is a behaviour of the store, the connector, the
\* payment signer and the request signer, so that what is proved of one of them holds
\* of it there.
THEOREM WalletIsItsParts == Spec => SSSpec /\ PCSpec /\ PSSpec /\ RASpec
<1>1. Init => SSInit /\ PCInit /\ PSInit /\ RAInit
  BY DEF Init
<1>2. [Next]_vars => [SSNext]_ssVars /\ [PCNext]_pcVars /\ [PSNext]_psVars /\ [RANext]_raVars
  BY DEF Next, vars
<1> QED BY <1>1, <1>2, PTL DEF Spec, SSSpec, PCSpec, PSSpec, RASpec
=============================================================================
