--------------------------- MODULE PaymentSigning ---------------------------
(***************************************************************************)
(* How one x402 payment is signed: the smart-account scheme of the MCP     *)
(* payer and buildSignedPayment of the SDK's client both simulate a        *)
(* transfer, take the authorization entries an untrusted RPC returns, and  *)
(* hand the wallet's own ones to a signer (a session key, or a passkey     *)
(* behind a prompt).  Another caller in the host may hand the same signer  *)
(* an entry directly.                                                      *)
(*                                                                         *)
(* A contract address is a number, ordered as its bytes; 0 is a string     *)
(* that is not a contract id.                                              *)
(***************************************************************************)
EXTENDS Integers, Sequences, SequencesExt, FiniteSets, FiniteSetsExt

CONSTANTS PSSigners,        \* signer configurations
          PSRequirements,   \* payment requirements a caller has cleared
          PSCeilings,       \* expirationLedgerOffset options, PSNone when omitted
          PSNone,
          PSLedgerSeconds,  \* ESTIMATED_LEDGER_SECONDS
          PSMaxSeconds,     \* MAX_EXPIRATION_SECONDS
          PSMaxEntries,     \* bound: entries one simulation returns
          PSMaxLedger       \* bound: ledgers that close meanwhile

\* 5 and 300 in the code: the longest expiration is a whole number of ledgers.
ASSUME PSAssumption == /\ PSLedgerSeconds \in Nat \ {0} /\ PSMaxSeconds \in Nat
                       /\ PSMaxSeconds % PSLedgerSeconds = 0
                       /\ PSMaxSeconds \div PSLedgerSeconds >= 5

ASSUME PSInputsAssumption == /\ \A req \in PSRequirements : req.timeout \in Nat
                             /\ PSCeilings \subseteq Int \cup {PSNone}
                             /\ PSNone \notin PSSigners
                             /\ \A s \in PSSigners : s.policies \in Seq(Nat)
                             /\ PSMaxEntries \in Nat

VARIABLES
    psPc,       \* where the call is suspended
    psVia,      \* "scheme", "client" or "host": who calls the signer
    psSigner,   \* the signer's configuration, PSNone before it is created
    psReq,      \* the requirements being paid
    psCeiling,  \* the client's expirationLedgerOffset
    psAuth,     \* the operation's auth entries as the RPC returned them
    psNext,     \* the loop's index
    psSigs,     \* psSigs[i]: the signature put on entry i, PSNone when none
    psRead,     \* the ledger getLatestLedger returned
    psLedger,   \* the network's ledger
    psExp,      \* expirationLedger
    psTrail,    \* onSignerAction events, in order
    psOutcome

psVars == <<psPc, psVia, psSigner, psReq, psCeiling, psAuth, psNext, psSigs, psRead,
            psLedger, psExp, psTrail, psOutcome>>

PSInit == /\ psPc = "idle" /\ psVia = "scheme"
          /\ psSigner = PSNone /\ psReq = PSNone /\ psCeiling = PSNone
          /\ psAuth = <<>> /\ psNext = 1 /\ psSigs = <<>>
          /\ psRead = 0 /\ psLedger = 0 /\ psExp = 0
          /\ psTrail = <<>> /\ psOutcome = "none"

-----------------------------------------------------------------------------
(* Signer configuration. *)

\* assertValidCapabilityRules: 0 stands for text that is neither a name nor "*".
PSValidCapabilities(rules) == \A r \in rules : r.resourceType # 0 /\ r.action # "malformed"

\* createSessionKeySigner checks its policies; createPasskeyX402Signer does not.
PSValidSigner(s) ==
    /\ s.address # 0
    /\ s.key = "session" => 0 \notin Range(s.policies)
    /\ PSValidCapabilities(s.capabilities)

PSAny == -1   \* the wildcard "*" where a contract is named

\* evaluateCapability: an empty rule set permits everything.
PSCapabilityAllows(rules, entry) ==
    \/ rules = {}
    \/ \E r \in rules : /\ r.resourceType \in {PSAny, entry.contract}
                        /\ r.action \in {"*", entry.function}

-----------------------------------------------------------------------------
(* Authorization entries. *)

\* The entry that authorises exactly transfer(from, payTo, amount) by the wallet.
PSIntended(s, req) ==
    [version |-> 1, address |-> s.address, contractFn |-> TRUE, contract |-> req.asset,
     function |-> "transfer", args |-> 3, from |-> s.address, to |-> req.payTo,
     amount |-> req.amount, subs |-> 0]

\* What a simulation may hold: the intended entry, or one field of it changed.
PSEntries(s, req) ==
    LET e == PSIntended(s, req)
    IN  {e, [e EXCEPT !.version = 2], [e EXCEPT !.address = 99],
         [e EXCEPT !.contractFn = FALSE], [e EXCEPT !.contract = 99],
         [e EXCEPT !.function = "approve"], [e EXCEPT !.args = 4],
         [e EXCEPT !.from = 99], [e EXCEPT !.to = 99],
         [e EXCEPT !.amount = req.amount + 1], [e EXCEPT !.subs = 1]}

\* The two `continue`s of the loop: not a V1 credential, or another account's.
PSOwn(s, e) == e.version = 1 /\ e.address = s.address

\* Mutant: the recipient is left to the on-chain policy.
PSInvocationMatchesAnyPayee(e, s, req) == [e EXCEPT !.to = req.payTo] = PSIntended(s, req)

\* assertAuthEntryInvocation, after PSOwn: every field, and no sub-invocation.
PSInvocationMatches(e, s, req) == e = PSIntended(s, req)

-----------------------------------------------------------------------------
(* Expiration. *)

PSCeilDiv(a, b) == (a + b - 1) \div b

\* The facilitator's own maxLedger, relative to its current ledger.
PSWindow(req) == PSCeilDiv(req.timeout, PSLedgerSeconds)

\* expirationLedgersFor (before its refusal below five ledgers).
PSSchemeOffset(req) ==
    Max({PSCeilDiv(Min({req.timeout, PSMaxSeconds}), PSLedgerSeconds) - 2, 3})

\* expirationOffsetFor.
PSClientOffset(req, ceiling) ==
    LET most == IF ceiling = PSNone THEN PSMaxSeconds \div PSLedgerSeconds - 2 ELSE ceiling
    IN  Max({Min({PSWindow(req) - 2, most}), 3})

-----------------------------------------------------------------------------
PSFail(why) == psPc' = "done" /\ psOutcome' = why

PSGo(where) == psPc' = where /\ UNCHANGED psOutcome

PSKnownNetwork(req) == req.network \in {"testnet", "pubnet"}

\* createSessionKeySigner and createPasskeyX402Signer.
PSCreateSigner ==
    /\ psPc = "idle" /\ psSigner = PSNone
    /\ \E s \in PSSigners :
        \/ ~PSValidSigner(s) /\ PSFail("badConfig") /\ UNCHANGED psSigner
        \/ PSValidSigner(s) /\ psSigner' = s /\ PSGo("idle")
    /\ UNCHANGED <<psVia, psReq, psCeiling, psAuth, psNext, psSigs, psRead, psLedger, psExp, psTrail>>

\* createPaymentPayload (via "scheme") or buildSignedPayment (via "client") begins.
PSPay ==
    /\ psPc = "idle" /\ psSigner # PSNone
    /\ \E via \in {"scheme", "client"}, req \in PSRequirements, c \in PSCeilings :
        /\ psVia' = via /\ psReq' = req /\ psCeiling' = c
        /\ IF PSKnownNetwork(req) /\ (via = "scheme" => req.sponsored)
           THEN PSGo("building")
           ELSE PSFail("refused")
    /\ UNCHANGED <<psSigner, psAuth, psNext, psSigs, psRead, psLedger, psExp, psTrail>>

\* Another caller of the same signer hands it one entry.
PSDirect ==
    /\ psPc = "idle" /\ psSigner # PSNone
    /\ \E req \in PSRequirements : \E e \in PSEntries(psSigner, req) :
        /\ psVia' = "host" /\ psReq' = req
        /\ psAuth' = <<e>> /\ psSigs' = <<PSNone>>
    /\ psExp' = psLedger + 1
    /\ PSGo("signing")
    /\ UNCHANGED <<psSigner, psCeiling, psNext, psRead, psLedger, psTrail>>

\* AssembledTransaction.build: the simulation answers, or holds no transaction.
PSBuilt ==
    /\ psPc = "building"
    /\ \/ /\ \E n \in 0..PSMaxEntries : psAuth' \in [1..n -> PSEntries(psSigner, psReq)]
          /\ psSigs' = [i \in DOMAIN psAuth' |-> PSNone]
          /\ PSGo("ledger")
       \/ PSFail("notBuilt") /\ UNCHANGED <<psAuth, psSigs>>
    /\ UNCHANGED <<psVia, psSigner, psReq, psCeiling, psNext, psRead, psLedger, psExp, psTrail>>

\* getLatestLedger answers and the expiration is fixed, before any prompt.
PSLatestLedger ==
    /\ psPc = "ledger"
    /\ psRead' = psLedger
    /\ IF psVia = "client"
       THEN psExp' = psLedger + PSClientOffset(psReq, psCeiling) /\ PSGo("loop")
       ELSE /\ psExp' = psLedger + PSSchemeOffset(psReq)
            /\ IF PSSchemeOffset(psReq) < 5 THEN PSFail("unworkableTimeout") ELSE PSGo("loop")
    /\ UNCHANGED <<psVia, psSigner, psReq, psCeiling, psAuth, psNext, psSigs, psLedger, psTrail>>

PSSigned == {i \in DOMAIN psSigs : psSigs[i] # PSNone}

\* One turn of the loop: skip a foreign entry, refuse a wrong one, sign ours.
PSLoop ==
    /\ psPc = "loop" /\ psNext <= Len(psAuth)
    /\ LET e == psAuth[psNext] IN
        \/ ~PSOwn(psSigner, e) /\ psNext' = psNext + 1 /\ PSGo("loop")
        \/ /\ PSOwn(psSigner, e) /\ UNCHANGED psNext
           /\ IF PSInvocationMatches(e, psSigner, psReq) THEN PSGo("signing")
              ELSE PSFail("mismatch")
    /\ UNCHANGED <<psVia, psSigner, psReq, psCeiling, psAuth, psSigs, psRead, psLedger, psExp, psTrail>>

\* The loop ends.  The scheme simulates again, so that __check_auth runs.
PSLoopEnd ==
    /\ psPc = "loop" /\ psNext > Len(psAuth)
    /\ IF PSSigned = {} THEN PSFail("nothingToSign")
       ELSE IF psVia = "client" THEN PSFail("payload") ELSE PSGo("resimulating")
    /\ UNCHANGED <<psVia, psSigner, psReq, psCeiling, psAuth, psNext, psSigs, psRead, psLedger, psExp, psTrail>>

\* SmartAccountAuthError: the diagnostics hold a failed policy__ call, or none.
PSAuthErrors == {"policyRejected", "authFailed"}

\* tx.simulate: accepted, refused by a policy, or failed otherwise.
PSResimulate ==
    /\ psPc = "resimulating"
    /\ \E how \in {"payload"} \cup PSAuthErrors : PSFail(how)
    /\ UNCHANGED <<psVia, psSigner, psReq, psCeiling, psAuth, psNext, psSigs, psRead, psLedger, psExp, psTrail>>

-----------------------------------------------------------------------------
(* signAuthEntry.  Both signers run it inside try/catch: every path through *)
(* the try returns or throws, and the catch rethrows.                      *)

\* policySignerKey rejects an address that is not a contract's.
PSPoliciesParse(s) == 0 \notin Range(s.policies)

\* A map key: its variant, numbered in the order of the variants' names, and an address.
PSSignerKey(s) == IF s.key = "session" THEN <<1, s.address>>   \* Ed25519
                                       ELSE <<3, s.address>>   \* Secp256r1

PSPolicyKey(policy) == <<2, policy>>                           \* Policy

\* A rearrangement of the places of q that puts its values in order.
PSInOrder(q, p) == /\ p \in [DOMAIN q -> DOMAIN q] /\ IsInjective(p)
                   /\ \A i, j \in DOMAIN q : i < j => q[p[i]] <= q[p[j]]

\* sort(comparePolicyAddresses): the configured policies in address order.
PSSorted(q) == LET place == CHOOSE p \in [DOMAIN q -> DOMAIN q] : PSInOrder(q, p)
               IN  [i \in DOMAIN q |-> q[place[i]]]

\* setSignatureMap: the signing key first, then the policies in address order.
PSSignatureMap(s) ==
    <<PSSignerKey(s)>> \o [i \in DOMAIN s.policies |-> PSPolicyKey(PSSorted(s.policies)[i])]

ASSUME PSNoneAssumption == PSNone \notin [map: {PSSignatureMap(s) : s \in PSSigners}, exp: Nat]

\* The signature put on entry i, with the expiration it was hashed with.
PSMapOnto(i) == [psSigs EXCEPT ![i] = [map |-> PSSignatureMap(psSigner), exp |-> psExp]]

\* The entry is checked and hashed; the passkey waits for its ceremony.
PSSign ==
    /\ psPc = "signing"
    /\ IF ~PSOwn(psSigner, psAuth[psNext]) THEN PSGo("denying")
       ELSE \/ psSigner.key = "passkey" /\ PSGo("prompt")
            \/ /\ psSigner.key = "session"
               /\ PSGo("authorizing")
    /\ UNCHANGED <<psVia, psSigner, psReq, psCeiling, psAuth, psNext, psSigs, psRead, psLedger, psExp, psTrail>>

\* webAuthn.sign: the person approves, or cancels.
PSPrompt ==
    /\ psPc = "prompt"
    /\ \E approved \in BOOLEAN :
        IF approved /\ PSPoliciesParse(psSigner) THEN PSGo("authorizing") ELSE PSGo("denying")
    /\ UNCHANGED <<psVia, psSigner, psReq, psCeiling, psAuth, psNext, psSigs, psRead, psLedger, psExp, psTrail>>

\* Mutant: the signed entry is returned whether or not the audit hook took the event.
PSAuthorizeUnaudited ==
    /\ psPc = "authorizing"
    /\ psSigs' = PSMapOnto(psNext)
    /\ \E ok \in BOOLEAN : psTrail' = IF ok THEN Append(psTrail, "authorize") ELSE psTrail
    /\ IF psVia = "host" THEN PSFail("payload") /\ UNCHANGED psNext
       ELSE psNext' = psNext + 1 /\ PSGo("loop")
    /\ UNCHANGED <<psVia, psSigner, psReq, psCeiling, psAuth, psRead, psLedger, psExp>>

\* fire("authorize"): the signed entry is returned only once the hook has resolved.
\* A hook that rejects may have stored the event first.
PSAuthorize ==
    /\ psPc = "authorizing"
    /\ \/ /\ psTrail' = Append(psTrail, "authorize")
          /\ psSigs' = PSMapOnto(psNext)
          /\ IF psVia = "host" THEN PSFail("payload") /\ UNCHANGED psNext
             ELSE psNext' = psNext + 1 /\ PSGo("loop")
       \/ /\ psTrail' \in {psTrail, Append(psTrail, "authorize")}
          /\ PSGo("denying") /\ UNCHANGED <<psSigs, psNext>>
    /\ UNCHANGED <<psVia, psSigner, psReq, psCeiling, psAuth, psRead, psLedger, psExp>>

\* catch: fire("deny"), and throw whether or not that hook resolves.
PSDeny ==
    /\ psPc = "denying"
    /\ psTrail' \in {psTrail, Append(psTrail, "deny")}
    /\ PSFail("signFailed")
    /\ UNCHANGED <<psVia, psSigner, psReq, psCeiling, psAuth, psNext, psSigs, psRead, psLedger, psExp>>

\* A ledger closes, before the payment or while it waits.
PSLedgerCloses ==
    /\ psLedger < PSMaxLedger
    /\ psLedger' = psLedger + 1
    /\ UNCHANGED <<psPc, psVia, psSigner, psReq, psCeiling, psAuth, psNext, psSigs, psRead, psExp, psTrail, psOutcome>>

PSNext == \/ PSCreateSigner \/ PSPay \/ PSDirect \/ PSBuilt \/ PSLatestLedger \/ PSLoop
          \/ PSLoopEnd \/ PSResimulate \/ PSSign \/ PSPrompt \/ PSAuthorize \/ PSDeny
          \/ PSLedgerCloses

PSSpec == PSInit /\ [][PSNext]_psVars

-----------------------------------------------------------------------------
PSTypeOK ==
    /\ psPc \in {"idle", "building", "ledger", "loop", "signing", "prompt", "authorizing",
                 "denying", "resimulating", "done"}
    /\ psVia \in {"scheme", "client", "host"}
    /\ psSigner \in PSSigners \cup {PSNone} /\ psReq \in PSRequirements \cup {PSNone}
    /\ DOMAIN psSigs = DOMAIN psAuth
    /\ psNext \in 1..(Len(psAuth) + 1)
    /\ psLedger \in Nat /\ psRead \in 0..psLedger /\ psExp \in Nat
    /\ psTrail \in Seq({"authorize", "deny"})

(***************************************************************************)
(* Whatever entries the RPC returns, the payment path signs only entries   *)
(* that authorise exactly the cleared transfer from this wallet, and a     *)
(* payload leaves only when every such entry is signed and at least one    *)
(* is (the loops of createPaymentPayload and buildSignedPayment).          *)
(***************************************************************************)
PSOnlyIntendedPaymentsAreSigned ==
    psVia # "host" =>
        /\ \A i \in PSSigned : psAuth[i] = PSIntended(psSigner, psReq)
        /\ psOutcome = "payload" =>
              /\ PSSigned # {}
              /\ \A i \in DOMAIN psAuth : PSOwn(psSigner, psAuth[i]) => i \in PSSigned

PSAuthorized == {k \in DOMAIN psTrail : psTrail[k] = "authorize"}

(***************************************************************************)
(* The audit trail matches what left the signer: one "authorize" for each  *)
(* signed entry, a "deny" only as the last event of a call that failed.    *)
(* An entry whose hook rejects is not handed back, so the trail has one    *)
(* "authorize" too many at most, and only in a call that fails: the hook   *)
(* stored the event and rejected (signAuthEntry, await fire("authorize")). *)
(***************************************************************************)
PSTrailMatchesSignatures ==
    /\ \/ Cardinality(PSAuthorized) = Cardinality(PSSigned)
       \/ /\ Cardinality(PSAuthorized) = Cardinality(PSSigned) + 1
          /\ psPc = "denying" \/ psOutcome = "signFailed"
    /\ \A k \in DOMAIN psTrail :
          psTrail[k] = "deny" => k = Len(psTrail) /\ psOutcome = "signFailed"

(***************************************************************************)
(* A signature never outlives the default ceiling, and for any timeout of  *)
(* five ledgers or more (all the scheme signs) it stays inside the window  *)
(* the facilitator derives from the same timeout, at whatever later ledger *)
(* it looks.  For shorter timeouts the client's floor of three ledgers     *)
(* wins (expirationOffsetFor).                                             *)
(***************************************************************************)
PSExpiryStaysInWindow ==
    \A i \in PSSigned :
        LET exp == psSigs[i].exp
        IN  psVia # "host" =>
              /\ psCeiling = PSNone \/ psVia = "scheme" =>
                     exp <= psRead + PSMaxSeconds \div PSLedgerSeconds - 2
              /\ psVia = "scheme" \/ PSWindow(psReq) >= 3 => exp <= psLedger + PSWindow(psReq)

(***************************************************************************)
(* The keys of a signature map are in ScVal order, as Soroban requires: by *)
(* variant name, then by policy address.  "Ed25519" sorts before "Policy"  *)
(* and "Secp256r1" after it.  No key is there twice, unless the            *)
(* configuration names a policy twice (createSessionKeySigner does not     *)
(* refuse that; the MCP server's configuration does).                      *)
(***************************************************************************)
PSMapIsOrdered ==
    LET before(a, b) == a[1] < b[1] \/ (a[1] = b[1] /\ a[2] < b[2])
        repeated(a, b) == a = b /\ ~IsInjective(psSigner.policies)
    IN  \A i \in PSSigned :
            LET m == psSigs[i].map
            IN  \A j, k \in DOMAIN m : j < k => before(m[j], m[k]) \/ repeated(m[j], m[k])

(***************************************************************************)
(* The same order, for session keys: what setSignatureMap's comment        *)
(* works out.                                                              *)
(***************************************************************************)
PSSessionMapIsOrdered ==
    psSigner # PSNone /\ psSigner.key = "session" => PSMapIsOrdered

(***************************************************************************)
(* "the signer refuses to sign outside its configured capabilities"        *)
(* (x402-signer-capabilities.ts).                                          *)
(***************************************************************************)
PSSignedWithinCapabilities ==
    \A i \in PSSigned : PSCapabilityAllows(psSigner.capabilities, psAuth[i])

\* What leaves the signers of x402-signer.ts is in the audit trail, expires within
\* the default ceiling and the facilitator's window (a timeout too short for the
\* floor of three ledgers excepted), and a
\* session key's signature map is sorted as the host requires.
PSSignaturesAreSound == PSTrailMatchesSignatures /\ PSExpiryStaysInWindow /\ PSSessionMapIsOrdered
=============================================================================
