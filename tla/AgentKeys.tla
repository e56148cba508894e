----------------------------- MODULE AgentKeys ------------------------------
(***************************************************************************)
(* The hardened agents facade (contrib agent-mint-guard.ts) over the       *)
(* wallet's signers on chain, with revokeWithRetry and the verification of *)
(* what a mint really left (contrib agent-verification.ts).  Calls         *)
(* overlap; one action is the code between two awaits.  A grant set is     *)
(* [tokens, policies]: what the key may touch and what must co-sign.       *)
(***************************************************************************)
EXTENDS Integers, Sequences, FiniteSets, SequencesExt

CONSTANTS AKCalls, AKKeys,
          AKInputs,    \* mint() inputs: [grants, expires]
          AKNow,       \* the present, in seconds
          AKRetries,   \* revokeWithRetry's maxRetries
          AKNone

ASSUME AKRetriesAssumption == AKRetries \in Nat

\* The grants of a mint() input and the policies of a grant are arrays.
ASSUME AKInputsAssumption == \A m \in AKInputs :
    /\ m.grants \in Seq(Range(m.grants))
    /\ \A i \in DOMAIN m.grants : m.grants[i].policies \in Seq(Range(m.grants[i].policies))

VARIABLES
    akMode,      \* idempotencyMode
    akRevoked,   \* revokedKeys
    akChain,     \* akChain[k]: the grants of the signer on chain, or AKNone
    akPc, akWork, akTry,
    akAnswer,    \* what the call returned
    akAbsent,    \* history: the key was absent at some time during the call
    akMemo,      \* history: the answer came from revokedKeys
    akMisread    \* history: the call's failed removal merely read like "not found"

akVars == <<akMode, akRevoked, akChain, akPc, akWork, akTry, akAnswer, akAbsent, akMemo, akMisread>>

AKInit == /\ akMode = AKNone /\ akRevoked = {} /\ akChain = [k \in AKKeys |-> AKNone]
          /\ akPc = [c \in AKCalls |-> "idle"] /\ akWork = [c \in AKCalls |-> AKNone]
          /\ akTry = [c \in AKCalls |-> 0] /\ akAnswer = [c \in AKCalls |-> "none"]
          /\ akAbsent = [c \in AKCalls |-> FALSE] /\ akMemo = {} /\ akMisread = {}

AKConfigure == /\ akMode = AKNone /\ akMode' \in {"noop", "throw-not-found"}
               /\ UNCHANGED <<akRevoked, akChain, akPc, akWork, akTry, akAnswer, akAbsent, akMemo, akMisread>>

-----------------------------------------------------------------------------
\* assertNoDuplicatePolicies, on every grant: some policy, each an id, none twice.
AKGrantOk(g) == g.policies # <<>> /\ "invalid" \notin Range(g.policies) /\ IsInjective(g.policies)

\* validateExpiresAt.
AKExpiryOk(e) == e # AKNone => e > AKNow

\* validateMint.
AKMintOk(m) == m.grants # <<>> /\ (\A i \in DOMAIN m.grants : AKGrantOk(m.grants[i])) /\ AKExpiryOk(m.expires)

\* What the wallet stores of a mint.
AKStored(m) == [tokens |-> {m.grants[i].token : i \in DOMAIN m.grants},
                policies |-> UNION {Range(m.grants[i].policies) : i \in DOMAIN m.grants}]

\* verifyAgentSignerGrants: wider before narrower.
AKVerify(expected, actual) ==
    CASE actual = AKNone -> "absent"
      [] ~(actual.tokens \subseteq expected.tokens /\ expected.policies \subseteq actual.policies) -> "more"
      [] actual # expected -> "less"
      [] OTHER -> "same"

-----------------------------------------------------------------------------
AKEnd(c, answer) == /\ akPc' = [akPc EXCEPT ![c] = "ended"]
                    /\ akAnswer' = [akAnswer EXCEPT ![c] = answer]

\* Each chain step notes, for every running revocation, whether its key is there.
AKWatch == akAbsent' = [c \in AKCalls |->
    \/ akAbsent[c]
    \/ akPc[c] = "removing" /\ akWork[c].key \in AKKeys /\ akChain'[akWork[c].key] = AKNone]

\* mint.
AKMint(c) == \E k \in AKKeys, m \in AKInputs :
    /\ akMode # AKNone /\ akPc[c] = "idle"
    /\ IF AKMintOk(m)
       THEN /\ akPc' = [akPc EXCEPT ![c] = "adding"] /\ UNCHANGED akAnswer
            /\ akWork' = [akWork EXCEPT ![c] = [key |-> k, input |-> m]]
       ELSE AKEnd(c, "refused") /\ UNCHANGED akWork
    /\ UNCHANGED <<akMode, akRevoked, akChain, akTry, akAbsent, akMemo, akMisread>>

\* addAgentKey: the signer is written, replacing what was there; it may lose its answer.
AKAdd(c) == /\ akPc[c] = "adding"
            /\ \E reply \in {"ok", "failed", "lost"} :
                /\ akChain' = IF reply = "failed" THEN akChain
                              ELSE [akChain EXCEPT ![akWork[c].key] = AKStored(akWork[c].input)]
                /\ IF reply = "ok" THEN akPc' = [akPc EXCEPT ![c] = "minted"] /\ UNCHANGED akAnswer
                   ELSE AKEnd(c, "threw")
            /\ AKWatch
            /\ UNCHANGED <<akMode, akRevoked, akWork, akTry, akMemo, akMisread>>

\* The operator verifies the mint against the chain.
AKVerified(c) == /\ akPc[c] = "minted"
                 /\ AKEnd(c, AKVerify(AKStored(akWork[c].input), akChain[akWork[c].key]))
                 /\ UNCHANGED <<akMode, akRevoked, akChain, akWork, akTry, akAbsent, akMemo, akMisread>>

\* A key this facade has revoked is answered from the memo; any other is asked for.
AKFromMemo(c, k) == /\ k \in akRevoked /\ akMemo' = akMemo \cup {c}
                    /\ AKEnd(c, IF akMode = "noop" THEN "revoked" ELSE "notFound")

AKAsk(c, k) == /\ k \notin akRevoked /\ akPc' = [akPc EXCEPT ![c] = "removing"]
               /\ UNCHANGED <<akAnswer, akMemo>>

\* revoke begins.
AKRevoke(c) == \E k \in AKKeys :
    /\ akMode # AKNone /\ akPc[c] = "idle"
    /\ akWork' = [akWork EXCEPT ![c] = [key |-> k]]
    /\ akAbsent' = [akAbsent EXCEPT ![c] = akChain[k] = AKNone]
    /\ AKFromMemo(c, k) \/ AKAsk(c, k)
    /\ UNCHANGED <<akMode, akRevoked, akChain, akTry, akMisread>>

\* Mutant: any error is taken to mean that the key is gone.
AKIsNotFoundAny(reply, text) == reply # "ok"

\* The errors revoke takes for an already revoked key: whatever the runtime means,
\* an error whose message reads like "not found" (the regular expression on
\* err.message; text says whether it matches).
AKIsNotFound(reply, text) == reply # "ok" /\ text

\* removeAgentKey answers: done; no such key; or an error of any other cause, with
\* or without effect, in any words.  revokeWithRetry tries again on an error.
AKRemove(c) ==
    /\ akPc[c] = "removing"
    /\ LET k == akWork[c].key IN
       \E reply \in IF akChain[k] = AKNone THEN {"notFound", "failed"} ELSE {"ok", "failed", "lost"},
          text \in BOOLEAN :
        /\ reply = "notFound" => text
        /\ akChain' = IF reply \in {"ok", "lost"} THEN [akChain EXCEPT ![k] = AKNone] ELSE akChain
        /\ akRevoked' = IF reply = "ok" THEN akRevoked \cup {k} ELSE akRevoked
        /\ akMisread' = IF reply = "failed" /\ text THEN akMisread \cup {c} ELSE akMisread
        /\ \/ reply = "ok" /\ AKEnd(c, "revoked") /\ UNCHANGED <<akTry, akMemo>>
           \/ /\ AKIsNotFound(reply, text) /\ UNCHANGED <<akTry, akMemo>>
              /\ AKEnd(c, IF akMode = "noop" THEN "alreadyRevoked" ELSE "notFound")
           \/ /\ reply # "ok" /\ ~AKIsNotFound(reply, text)
              /\ IF akTry[c] < AKRetries
                 THEN akTry' = [akTry EXCEPT ![c] = @ + 1] /\ (AKFromMemo(c, k) \/ AKAsk(c, k))
                 ELSE AKEnd(c, "threw") /\ UNCHANGED <<akTry, akMemo>>
    /\ AKWatch
    /\ UNCHANGED <<akMode, akWork>>

AKNext == \/ AKConfigure
          \/ \E c \in AKCalls : \/ AKMint(c) \/ AKAdd(c) \/ AKVerified(c)
                                \/ AKRevoke(c) \/ AKRemove(c)

AKSpec == AKInit /\ [][AKNext]_akVars

-----------------------------------------------------------------------------
AKTypeOK == /\ akRevoked \subseteq AKKeys /\ akMemo \subseteq AKCalls /\ akMisread \subseteq AKCalls
            /\ akPc \in [AKCalls -> {"idle", "adding", "minted", "removing", "ended"}]
            /\ akTry \in [AKCalls -> 0..AKRetries] /\ akAbsent \in [AKCalls -> BOOLEAN]
            /\ DOMAIN akChain = AKKeys /\ DOMAIN akWork = AKCalls /\ DOMAIN akAnswer = AKCalls

AKSaysGone == {c \in AKCalls : akAnswer[c] \in {"revoked", "alreadyRevoked", "notFound"}}

\* The call removed the key and was told so.
AKConfirms(c, k) == akAnswer[c] = "revoked" /\ c \notin akMemo /\ akAbsent[c] /\ akWork[c].key = k

(***************************************************************************)
(* A revocation that asked the chain, through however many retries, lost   *)
(* answers and mints in between, says the key is gone only when it was, at *)
(* some time during the call.  The one exception is the code's own reading *)
(* of error messages: a removal that failed for another cause, in words    *)
(* the regular expression matches, is reported as already revoked too;     *)
(* even then the key is not remembered as revoked, so the next revocation  *)
(* asks the chain again: revokedKeys holds only keys whose removal a call  *)
(* of this facade saw confirmed.  And no key is ever on chain without a    *)
(* policy that must co-sign.                                               *)
(***************************************************************************)
AKRevocationsAreTrue ==
    /\ \A c \in AKSaysGone \ (akMemo \cup akMisread) : akAbsent[c]
    /\ \A k \in akRevoked : \E c \in AKCalls : AKConfirms(c, k)
    /\ \A k \in AKKeys : akChain[k] # AKNone => akChain[k].policies # {}

(***************************************************************************)
(* The same of every revocation, also one answered from revokedKeys or     *)
(* from an error's wording: "On-chain removal is the remote kill switch:   *)
(* the key stops signing immediately" (agent-mint-guard.ts), and           *)
(* revokeWithRetry "recognizes that the key was revoked on-chain".         *)
(***************************************************************************)
AKRevokedMeansGone == \A c \in AKSaysGone : akAbsent[c]
=============================================================================
