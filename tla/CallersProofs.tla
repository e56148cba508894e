--------------------------- MODULE CallersProofs ----------------------------
(***************************************************************************)
(* Proofs about the components that several callers use at once, for every *)
(* number of callers, keys, accounts, networks and retries: agent keys,    *)
(* idempotency keys, the caches, the wallet client, the policy deployment  *)
(* and the spend ledgers; the type correctness of the whole; last, the     *)
(* amounts people are shown and type, for every text and every amount.     *)
(***************************************************************************)
EXTENDS MCCallers, Sums,
        SequenceTheorems, FiniteSetTheorems, TLAPS

-----------------------------------------------------------------------------
(* Agent keys. *)

\* What a suspended call knows: the mint it carries was validated, and a revocation
\* whose key is not on chain now has seen it absent.
AKCallsAreSound == \A c \in AKCalls :
    /\ akPc[c] \in {"adding", "minted"} =>
           akWork[c].key \in AKKeys /\ akWork[c].input \in AKInputs /\ AKMintOk(akWork[c].input)
    /\ akPc[c] = "removing" =>
           akWork[c].key \in AKKeys /\ (akChain[akWork[c].key] = AKNone => akAbsent[c])
    /\ akPc[c] # "ended" => akAnswer[c] = "none" /\ c \notin akMemo

\* The inductive invariant of the agent keys.
AKInd == AKTypeOK /\ AKCallsAreSound /\ AKRevocationsAreTrue

\* A validated mint leaves a signer that some policy must co-sign for.
LEMMA AKStoredHasPolicies ==
    ASSUME NEW m \in AKInputs, AKMintOk(m)
    PROVE  AKStored(m).policies # {}
<1>1. 1 \in DOMAIN m.grants
  BY AKInputsAssumption DEF AKMintOk
<1>2. m.grants[1].policies # <<>>
  BY <1>1 DEF AKMintOk, AKGrantOk
<1>3. 1 \in DOMAIN m.grants[1].policies
  BY <1>1, <1>2, AKInputsAssumption
<1>4. m.grants[1].policies[1] \in Range(m.grants[1].policies)
  BY <1>3 DEF Range
<1> QED BY <1>1, <1>4 DEF AKStored

\* Ending a call touches no other call.
LEMMA AKEndIsLocal ==
    ASSUME AKInd, NEW c \in AKCalls, NEW answer, AKEnd(c, answer)
    PROVE  /\ akPc' \in [AKCalls -> {"idle", "adding", "minted", "removing", "ended"}]
           /\ DOMAIN akAnswer' = AKCalls
           /\ akPc'[c] = "ended" /\ akAnswer'[c] = answer
           /\ \A d \in AKCalls \ {c} : akPc'[d] = akPc[d] /\ akAnswer'[d] = akAnswer[d]
  BY DEF AKEnd, AKInd, AKTypeOK

\* Whatever happens on chain, a revocation that is running keeps account of it.
LEMMA AKWatchNotes ==
    ASSUME AKInd, AKWatch, DOMAIN akChain' = AKKeys
    PROVE  /\ akAbsent' \in [AKCalls -> BOOLEAN]
           /\ \A c \in AKCalls : akAbsent[c] => akAbsent'[c]
           /\ \A c \in AKCalls : akPc[c] = "removing" /\ akChain'[akWork[c].key] = AKNone => akAbsent'[c]
  BY DEF AKWatch, AKInd, AKTypeOK, AKCallsAreSound

\* What one running call does leaves the confirmed revocations of the others.
LEMMA AKConfirmationsStand ==
    ASSUME AKInd, NEW c \in AKCalls, akPc[c] # "ended",
           akRevoked' = akRevoked, akMemo' \subseteq akMemo \cup {c},
           \A d \in AKCalls \ {c} : /\ akAnswer'[d] = akAnswer[d] /\ akWork'[d] = akWork[d]
                                    /\ akAbsent[d] => akAbsent'[d]
    PROVE  \A k \in akRevoked' : \E d \in AKCalls : AKConfirms(d, k)'
<1> SUFFICES ASSUME NEW k \in akRevoked PROVE \E d \in AKCalls : AKConfirms(d, k)'
  OBVIOUS
<1>1. PICK d \in AKCalls : AKConfirms(d, k)
  BY DEF AKInd, AKRevocationsAreTrue
<1>2. d # c
  BY <1>1 DEF AKInd, AKCallsAreSound, AKConfirms
<1> QED BY <1>1, <1>2 DEF AKConfirms

\* A mint that is refused leaves nothing; one that goes on was validated.
LEMMA AKMintPreserves ==
    ASSUME AKInd, NEW c \in AKCalls, AKMint(c)
    PROVE  AKInd'
<1>1. PICK k \in AKKeys, m \in AKInputs :
        IF AKMintOk(m)
        THEN /\ akPc' = [akPc EXCEPT ![c] = "adding"] /\ UNCHANGED akAnswer
             /\ akWork' = [akWork EXCEPT ![c] = [key |-> k, input |-> m]]
        ELSE AKEnd(c, "refused") /\ UNCHANGED akWork
  BY DEF AKMint
<1>2. /\ akPc[c] = "idle"
      /\ UNCHANGED <<akMode, akRevoked, akChain, akTry, akAbsent, akMemo, akMisread>>
  BY DEF AKMint
<1>3. CASE AKMintOk(m)
  <2>1. AKTypeOK'
    BY <1>1, <1>2, <1>3 DEF AKInd, AKTypeOK
  <2>2. AKCallsAreSound'
    BY <1>1, <1>2, <1>3 DEF AKInd, AKTypeOK, AKCallsAreSound, AKMintOk, AKGrantOk, AKExpiryOk
  <2>3. \A j \in akRevoked' : \E d \in AKCalls : AKConfirms(d, j)'
    BY <1>1, <1>2, <1>3, AKConfirmationsStand DEF AKInd, AKTypeOK
  <2>4. AKRevocationsAreTrue'
    BY <1>1, <1>2, <1>3, <2>3 DEF AKInd, AKRevocationsAreTrue, AKSaysGone
  <2> QED BY <2>1, <2>2, <2>4 DEF AKInd
<1>4. CASE ~AKMintOk(m)
  <2>1. AKEnd(c, "refused") /\ UNCHANGED akWork
    BY <1>1, <1>4
  <2>2. /\ akPc' \in [AKCalls -> {"idle", "adding", "minted", "removing", "ended"}]
        /\ DOMAIN akAnswer' = AKCalls
        /\ akPc'[c] = "ended" /\ akAnswer'[c] = "refused"
        /\ \A d \in AKCalls \ {c} : akPc'[d] = akPc[d] /\ akAnswer'[d] = akAnswer[d]
    BY <2>1, AKEndIsLocal
  <2>3. AKTypeOK'
    BY <1>2, <2>1, <2>2 DEF AKInd, AKTypeOK
  <2>4. AKCallsAreSound'
    BY <1>2, <2>1, <2>2 DEF AKInd, AKCallsAreSound, AKMintOk, AKGrantOk, AKExpiryOk
  <2>5. \A j \in akRevoked' : \E d \in AKCalls : AKConfirms(d, j)'
    BY <1>2, <2>1, <2>2, AKConfirmationsStand
  <2>6. AKRevocationsAreTrue'
    BY <1>2, <2>1, <2>2, <2>5 DEF AKInd, AKRevocationsAreTrue, AKSaysGone
  <2> QED BY <2>3, <2>4, <2>6 DEF AKInd
<1> QED BY <1>3, <1>4

\* What reaches the chain of a mint, its answer lost or not, has its policies.
LEMMA AKAddPreserves ==
    ASSUME AKInd, NEW c \in AKCalls, AKAdd(c)
    PROVE  AKInd'
<1>1. PICK reply \in {"ok", "failed", "lost"} :
        /\ akChain' = IF reply = "failed" THEN akChain
                      ELSE [akChain EXCEPT ![akWork[c].key] = AKStored(akWork[c].input)]
        /\ IF reply = "ok" THEN akPc' = [akPc EXCEPT ![c] = "minted"] /\ UNCHANGED akAnswer
           ELSE AKEnd(c, "threw")
  BY DEF AKAdd
<1>2. akPc[c] = "adding" /\ AKWatch /\ UNCHANGED <<akMode, akRevoked, akWork, akTry, akMemo, akMisread>>
  BY DEF AKAdd
<1>3. /\ akWork[c].key \in AKKeys /\ akWork[c].input \in AKInputs
      /\ AKStored(akWork[c].input).policies # {}
  BY <1>2, AKStoredHasPolicies DEF AKInd, AKCallsAreSound
<1>4. /\ DOMAIN akChain' = AKKeys
      /\ \A k \in AKKeys : akChain'[k] = akChain[k] \/ akChain'[k] = AKStored(akWork[c].input)
  BY <1>1 DEF AKInd, AKTypeOK
<1>5. /\ akAbsent' \in [AKCalls -> BOOLEAN]
      /\ \A d \in AKCalls : akAbsent[d] => akAbsent'[d]
      /\ \A d \in AKCalls : akPc[d] = "removing" /\ akChain'[akWork[d].key] = AKNone => akAbsent'[d]
  BY <1>2, <1>4, AKWatchNotes
<1>6. /\ akPc' \in [AKCalls -> {"idle", "adding", "minted", "removing", "ended"}]
      /\ DOMAIN akAnswer' = AKCalls
      /\ \/ akPc'[c] = "minted" /\ akAnswer'[c] = "none"
         \/ akPc'[c] = "ended" /\ akAnswer'[c] = "threw"
      /\ \A d \in AKCalls \ {c} : akPc'[d] = akPc[d] /\ akAnswer'[d] = akAnswer[d]
  <2>1. CASE reply = "ok"
    BY <1>1, <1>2, <2>1 DEF AKInd, AKTypeOK, AKCallsAreSound
  <2>2. CASE reply # "ok"
    BY <1>1, <2>2, AKEndIsLocal
  <2> QED BY <2>1, <2>2
<1>7. AKTypeOK'
  BY <1>2, <1>4, <1>5, <1>6 DEF AKInd, AKTypeOK
<1>8. AKCallsAreSound'
  BY <1>2, <1>5, <1>6 DEF AKInd, AKCallsAreSound, AKMintOk, AKGrantOk, AKExpiryOk
<1>9. \A j \in akRevoked' : \E d \in AKCalls : AKConfirms(d, j)'
  BY <1>2, <1>5, <1>6, AKConfirmationsStand
<1>10. AKRevocationsAreTrue'
  BY <1>2, <1>3, <1>4, <1>5, <1>6, <1>9 DEF AKInd, AKRevocationsAreTrue, AKSaysGone
<1> QED BY <1>7, <1>8, <1>10 DEF AKInd

\* A revocation starts by noting whether its key is there.
LEMMA AKRevokePreserves ==
    ASSUME AKInd, NEW c \in AKCalls, AKRevoke(c)
    PROVE  AKInd'
<1>1. PICK k \in AKKeys :
        /\ akWork' = [akWork EXCEPT ![c] = [key |-> k]]
        /\ akAbsent' = [akAbsent EXCEPT ![c] = akChain[k] = AKNone]
        /\ AKFromMemo(c, k) \/ AKAsk(c, k)
  BY DEF AKRevoke
<1>2. akPc[c] = "idle" /\ UNCHANGED <<akMode, akRevoked, akChain, akTry, akMisread>>
  BY DEF AKRevoke
<1>3. /\ akWork'[c].key = k /\ akAbsent' \in [AKCalls -> BOOLEAN]
      /\ akAbsent'[c] = (akChain[k] = AKNone) /\ DOMAIN akWork' = AKCalls
      /\ \A d \in AKCalls \ {c} : akWork'[d] = akWork[d] /\ akAbsent'[d] = akAbsent[d]
  BY <1>1 DEF AKInd, AKTypeOK
<1>4. CASE AKFromMemo(c, k)
  <2>1. PICK answer : AKEnd(c, answer) /\ akMemo' = akMemo \cup {c}
    BY <1>4 DEF AKFromMemo
  <2>2. /\ akPc' \in [AKCalls -> {"idle", "adding", "minted", "removing", "ended"}]
        /\ DOMAIN akAnswer' = AKCalls
        /\ akPc'[c] = "ended" /\ akAnswer'[c] = answer
        /\ \A d \in AKCalls \ {c} : akPc'[d] = akPc[d] /\ akAnswer'[d] = akAnswer[d]
    BY <2>1, AKEndIsLocal
  <2>3. AKTypeOK'
    BY <1>2, <1>3, <2>1, <2>2 DEF AKInd, AKTypeOK
  <2>4. AKCallsAreSound'
    BY <1>2, <1>3, <2>1, <2>2 DEF AKInd, AKCallsAreSound, AKMintOk, AKGrantOk, AKExpiryOk
  <2>5. \A j \in akRevoked' : \E d \in AKCalls : AKConfirms(d, j)'
    BY <1>2, <1>3, <2>1, <2>2, AKConfirmationsStand
  <2>6. AKRevocationsAreTrue'
    BY <1>2, <1>3, <2>1, <2>2, <2>5 DEF AKInd, AKRevocationsAreTrue, AKSaysGone
  <2> QED BY <2>3, <2>4, <2>6 DEF AKInd
<1>5. CASE AKAsk(c, k)
  <2>1. AKTypeOK'
    BY <1>2, <1>3, <1>5 DEF AKInd, AKTypeOK, AKAsk
  <2>2. AKCallsAreSound'
    BY <1>2, <1>3, <1>5
    DEF AKInd, AKTypeOK, AKCallsAreSound, AKAsk, AKMintOk, AKGrantOk, AKExpiryOk
  <2>3. AKRevocationsAreTrue'
    BY <1>2, <1>3, <1>5 DEF AKInd, AKCallsAreSound, AKRevocationsAreTrue, AKSaysGone, AKConfirms, AKAsk
  <2> QED BY <2>1, <2>2, <2>3 DEF AKInd
<1> QED BY <1>1, <1>4, <1>5

\* A revocation says the key is gone when the chain removed it, or had not got it;
\* after a lost answer it asks again, and what the chain did has been noted.
LEMMA AKRemovePreserves ==
    ASSUME AKInd, NEW c \in AKCalls, AKRemove(c)
    PROVE  AKInd'
<1> DEFINE k == akWork[c].key
<1>1. PICK reply \in IF akChain[k] = AKNone THEN {"notFound", "failed"} ELSE {"ok", "failed", "lost"},
           text \in BOOLEAN :
        /\ reply = "notFound" => text
        /\ akMisread' = IF reply = "failed" /\ text THEN akMisread \cup {c} ELSE akMisread
        /\ akChain' = IF reply \in {"ok", "lost"} THEN [akChain EXCEPT ![k] = AKNone] ELSE akChain
        /\ akRevoked' = IF reply = "ok" THEN akRevoked \cup {k} ELSE akRevoked
        /\ \/ reply = "ok" /\ AKEnd(c, "revoked") /\ UNCHANGED <<akTry, akMemo>>
           \/ /\ AKIsNotFound(reply, text) /\ UNCHANGED <<akTry, akMemo>>
              /\ AKEnd(c, IF akMode = "noop" THEN "alreadyRevoked" ELSE "notFound")
           \/ /\ reply # "ok" /\ ~AKIsNotFound(reply, text)
              /\ IF akTry[c] < AKRetries
                 THEN akTry' = [akTry EXCEPT ![c] = @ + 1] /\ (AKFromMemo(c, k) \/ AKAsk(c, k))
                 ELSE AKEnd(c, "threw") /\ UNCHANGED <<akTry, akMemo>>
  BY DEF AKRemove
<1>2. akPc[c] = "removing" /\ AKWatch /\ UNCHANGED <<akMode, akWork>>
  BY DEF AKRemove
<1>3. k \in AKKeys
  BY <1>2 DEF AKInd, AKCallsAreSound
<1>4. /\ DOMAIN akChain' = AKKeys /\ akRevoked' \subseteq AKKeys
      /\ \A j \in AKKeys : akChain'[j] = akChain[j] \/ akChain'[j] = AKNone
      /\ reply \in {"ok", "notFound", "lost"} => akChain'[k] = AKNone
      /\ akMisread' \subseteq AKCalls /\ akMisread \subseteq akMisread'
      /\ reply # "ok" => akRevoked' = akRevoked
      /\ reply = "ok" => akRevoked' = akRevoked \cup {k}
  BY <1>1, <1>3 DEF AKInd, AKTypeOK
<1>5. /\ akAbsent' \in [AKCalls -> BOOLEAN]
      /\ \A d \in AKCalls : akAbsent[d] => akAbsent'[d]
      /\ \A d \in AKCalls : akPc[d] = "removing" /\ akChain'[akWork[d].key] = AKNone => akAbsent'[d]
  BY <1>2, <1>4, AKWatchNotes
<1> HIDE DEF k
<1>6. CASE \E answer : /\ AKEnd(c, answer)
                       /\ akTry' \in [AKCalls -> 0..AKRetries]
                       /\ akMemo' \subseteq AKCalls /\ akMemo \subseteq akMemo'
                       /\ c \in akMemo' \cup akMisread' \/ akAbsent'[c] \/ answer = "threw"
                       /\ reply = "ok" => answer = "revoked" /\ c \notin akMemo'
                       /\ akMemo' \subseteq akMemo \cup {c}
  <2>1. PICK answer : /\ AKEnd(c, answer)
                      /\ akTry' \in [AKCalls -> 0..AKRetries]
                      /\ akMemo' \subseteq AKCalls /\ akMemo \subseteq akMemo'
                      /\ c \in akMemo' \cup akMisread' \/ akAbsent'[c] \/ answer = "threw"
                      /\ reply = "ok" => answer = "revoked" /\ c \notin akMemo'
                      /\ akMemo' \subseteq akMemo \cup {c}
    BY <1>6
  <2>2. /\ akPc' \in [AKCalls -> {"idle", "adding", "minted", "removing", "ended"}]
        /\ DOMAIN akAnswer' = AKCalls
        /\ akPc'[c] = "ended" /\ akAnswer'[c] = answer
        /\ \A d \in AKCalls \ {c} : akPc'[d] = akPc[d] /\ akAnswer'[d] = akAnswer[d]
    BY <2>1, AKEndIsLocal
  <2>3. AKTypeOK'
    BY <1>2, <1>4, <1>5, <2>1, <2>2 DEF AKInd, AKTypeOK
  <2>4. AKCallsAreSound'
    BY <1>2, <1>5, <2>1, <2>2 DEF AKInd, AKCallsAreSound, AKMintOk, AKGrantOk, AKExpiryOk
  <2>5. \A d \in AKSaysGone' \ (akMemo' \cup akMisread') : akAbsent'[d]
    BY <1>4, <1>5, <2>1, <2>2 DEF AKInd, AKRevocationsAreTrue, AKSaysGone
  <2>6. \A j \in AKKeys : akChain'[j] # AKNone => akChain'[j].policies # {}
    BY <1>4 DEF AKInd, AKRevocationsAreTrue
  <2>7. ASSUME NEW j \in akRevoked' PROVE \E d \in AKCalls : AKConfirms(d, j)'
    <3>1. CASE j \in akRevoked
      <4>1. PICK d \in AKCalls : AKConfirms(d, j)
        BY <3>1 DEF AKInd, AKRevocationsAreTrue
      <4>2. d # c
        BY <1>2, <4>1 DEF AKInd, AKCallsAreSound, AKConfirms
      <4> QED BY <1>2, <1>5, <2>1, <2>2, <4>1, <4>2 DEF AKConfirms
    <3>2. CASE j = k /\ reply = "ok"
      BY <1>2, <1>4, <1>5, <2>1, <2>2, <3>2 DEF AKConfirms, k
    <3> QED BY <1>4, <3>1, <3>2
  <2>8. AKRevocationsAreTrue'
    BY <2>5, <2>6, <2>7 DEF AKRevocationsAreTrue
  <2> QED BY <2>3, <2>4, <2>8 DEF AKInd
<1>7. CASE reply # "ok" /\ akTry' = [akTry EXCEPT ![c] = @ + 1] /\ akTry[c] < AKRetries /\ AKAsk(c, k)
  <2>1. akPc' = akPc /\ akAnswer' = akAnswer /\ akMemo' = akMemo
    BY <1>2, <1>7 DEF AKAsk, AKInd, AKTypeOK
  <2>2. akTry' \in [AKCalls -> 0..AKRetries]
    BY <1>7, AKRetriesAssumption DEF AKInd, AKTypeOK
  <2>3. AKTypeOK'
    BY <1>2, <1>4, <1>5, <2>1, <2>2 DEF AKInd, AKTypeOK
  <2>4. AKCallsAreSound'
    BY <1>2, <1>5, <2>1 DEF AKInd, AKCallsAreSound, AKMintOk, AKGrantOk, AKExpiryOk
  <2>5. AKRevocationsAreTrue'
    BY <1>2, <1>4, <1>5, <1>7, <2>1 DEF AKInd, AKRevocationsAreTrue, AKSaysGone, AKConfirms
  <2> QED BY <2>3, <2>4, <2>5 DEF AKInd
<1>8. CASE reply = "ok" /\ AKEnd(c, "revoked") /\ UNCHANGED <<akTry, akMemo>>
  BY <1>2, <1>4, <1>5, <1>6, <1>8 DEF AKInd, AKTypeOK, AKCallsAreSound, k
<1>9. CASE /\ AKIsNotFound(reply, text) /\ UNCHANGED <<akTry, akMemo>>
           /\ AKEnd(c, IF akMode = "noop" THEN "alreadyRevoked" ELSE "notFound")
  BY <1>1, <1>2, <1>4, <1>5, <1>6, <1>9 DEF AKInd, AKTypeOK, AKIsNotFound, k
<1>10. CASE reply # "ok" /\ akTry' = [akTry EXCEPT ![c] = @ + 1] /\ akTry[c] < AKRetries /\ AKFromMemo(c, k)
  <2>1. akTry' \in [AKCalls -> 0..AKRetries]
    BY <1>10, AKRetriesAssumption DEF AKInd, AKTypeOK
  <2> QED BY <1>6, <1>10, <2>1 DEF AKFromMemo, AKInd, AKTypeOK
<1>11. CASE reply # "ok" /\ AKEnd(c, "threw") /\ UNCHANGED <<akTry, akMemo>>
  BY <1>6, <1>11 DEF AKInd, AKTypeOK
<1> QED BY <1>1, <1>7, <1>8, <1>9, <1>10, <1>11 DEF k

LEMMA AKInitInd == AKInit => AKInd
BY AKRetriesAssumption DEF AKInit, AKInd, AKTypeOK, AKCallsAreSound, AKRevocationsAreTrue, AKSaysGone, AKConfirms

LEMMA AKNextInd == AKInd /\ [AKNext]_akVars => AKInd'
<1> SUFFICES ASSUME AKInd, [AKNext]_akVars PROVE AKInd'
  OBVIOUS
<1>1. CASE AKConfigure
  BY <1>1 DEF AKConfigure, AKInd, AKTypeOK, AKCallsAreSound, AKRevocationsAreTrue, AKSaysGone, AKConfirms,
              AKMintOk, AKGrantOk, AKExpiryOk
<1>2. CASE UNCHANGED akVars
  BY <1>2 DEF akVars, AKInd, AKTypeOK, AKCallsAreSound, AKRevocationsAreTrue, AKSaysGone, AKConfirms,
              AKMintOk, AKGrantOk, AKExpiryOk
<1>3. ASSUME NEW c \in AKCalls, AKVerified(c) PROVE AKInd'
  <2> DEFINE answer == AKVerify(AKStored(akWork[c].input), akChain[akWork[c].key])
  <2>1. /\ AKEnd(c, answer)
        /\ UNCHANGED <<akMode, akRevoked, akChain, akWork, akTry, akAbsent, akMemo, akMisread>>
    BY <1>3 DEF AKVerified
  <2>2. answer \in {"absent", "more", "less", "same"}
    BY DEF AKVerify
  <2> HIDE DEF answer
  <2>3. /\ akPc' \in [AKCalls -> {"idle", "adding", "minted", "removing", "ended"}]
        /\ DOMAIN akAnswer' = AKCalls
        /\ akPc'[c] = "ended" /\ akAnswer'[c] = answer
        /\ \A d \in AKCalls \ {c} : akPc'[d] = akPc[d] /\ akAnswer'[d] = akAnswer[d]
    BY <2>1, AKEndIsLocal
  <2>4. AKTypeOK'
    BY <2>1, <2>3 DEF AKInd, AKTypeOK
  <2>5. AKCallsAreSound'
    BY <2>1, <2>3 DEF AKInd, AKCallsAreSound, AKMintOk, AKGrantOk, AKExpiryOk
  <2>6. \A j \in akRevoked' : \E d \in AKCalls : AKConfirms(d, j)'
    BY <1>3, <2>1, <2>3, AKConfirmationsStand DEF AKVerified
  <2>7. AKRevocationsAreTrue'
    BY <2>1, <2>2, <2>3, <2>6 DEF AKInd, AKRevocationsAreTrue, AKSaysGone
  <2> QED BY <2>4, <2>5, <2>7 DEF AKInd
<1> QED BY <1>1, <1>2, <1>3, AKMintPreserves, AKAddPreserves, AKRevokePreserves, AKRemovePreserves
        DEF AKNext

\* A revocation through the hardened facade that asked the chain says that the key
\* is gone only when it was gone at some time during the call, whatever was minted,
\* lost or retried in between, unless the removal failed with a message that reads
\* like "not found"; what is remembered as revoked was really removed; and no key is ever
\* on chain without a policy that must co-sign (agent-mint-guard.ts).
THEOREM RevocationsAreTrue == AKSpec => []AKRevocationsAreTrue
<1>1. AKInd => AKRevocationsAreTrue
  BY DEF AKInd
<1> QED BY <1>1, AKInitInd, AKNextInd, PTL DEF AKSpec

-----------------------------------------------------------------------------
(* Idempotent submission. *)

IDEntry == [key : IDKeys, payload : IDPayloads, owner : IDCalls]

\* An entry of the cache is the request of its owner, which has submitted it.
IDCacheIsTrue == \A e \in Range(idCache) :
    /\ idPromise[e.owner] # "none"
    /\ idAsk[e.owner].key = e.key /\ idAsk[e.owner].payload = e.payload

\* A keyed submission that has not failed is in the cache unless its entry was
\* evicted or cleared.
IDRemembered == \A c \in IDCalls :
    idPromise[c] \in {"sent", "ok"} /\ idAsk[c].key # IDNone /\ c \notin idForgot
        => \E e \in Range(idCache) : e.owner = c

\* A call waits for, and returns the result of, a submission of its own payload.
IDWaitsForItsPayload == \A c \in IDCalls :
    /\ idPc[c] \in {"waiting", "ok"} =>
           idPromise[idOwner[c]] # "none" /\ idAsk[idOwner[c]].payload = idAsk[c].payload
    /\ idPc[c] = "ok" => idPromise[idOwner[c]] = "ok"
    /\ idPc[c] = "idle" => idOwner[c] = c /\ idPromise[c] = "none"
    /\ idPromise[c] = "ok" => c \in idLanded

\* Of one key, at most one submission is neither failed nor forgotten.
IDAtMostOnce == \A c, d \in IDCalls :
    c # d /\ idPromise[c] # "none" /\ idPromise[d] # "none" /\ idAsk[c].key = idAsk[d].key
        => \/ idAsk[c].key = IDNone \/ {c, d} \cap idForgot # {}
           \/ "error" \in {idPromise[c], idPromise[d]}

\* The inductive invariant of the idempotent submissions.
IDInd == IDTypeOK /\ IDCacheIsTrue /\ IDRemembered /\ IDWaitsForItsPayload /\ IDAtMostOnce

\* An insertion keeps the new entry, forgets old ones only, and respects the bound.
LEMMA IDInsertedKeepsTheNew ==
    ASSUME idCache \in Seq(IDEntry), NEW e \in IDEntry
    PROVE  /\ IDInserted(e) \in Seq(IDEntry) /\ Len(IDInserted(e)) <= IDMaxEntries
           /\ Range(IDInserted(e)) \subseteq Range(idCache) \cup {e}
           /\ e \in Range(IDInserted(e))
<1> DEFINE all == Append(idCache, e)
           m == IDMaxEntries
           n == Len(all)
           cut == SubSeq(all, n - m + 1, n)
<1>1. /\ all \in Seq(IDEntry) /\ n \in Nat \ {0} /\ all[n] = e /\ m \in Nat \ {0}
      /\ \A i \in 1..n : all[i] \in Range(idCache) \cup {e}
  BY IDAssumption DEF Range
<1>2. CASE n > m
  <2>1. /\ cut \in Seq(IDEntry) /\ Len(cut) = m
        /\ \A i \in 1..m : cut[i] = all[n - m + i]
    BY <1>1, <1>2
  <2>2. IDInserted(e) = cut
    BY <1>2 DEF IDInserted
  <2> HIDE DEF all, cut, n, m
  <2>3. cut[m] = e /\ \A i \in 1..m : cut[i] \in Range(idCache) \cup {e}
    <3>1. \A i \in 1..m : n - m + i \in 1..n
      BY <1>1, <1>2
    <3>2. n - m + m = n /\ m \in 1..m
      BY <1>1
    <3> QED BY <1>1, <2>1, <3>1, <3>2
  <2>4. Len(cut) <= IDMaxEntries
    BY <2>1, <1>1 DEF m
  <2>5. DOMAIN cut = 1..m /\ m \in DOMAIN cut
    BY <1>1, <2>1
  <2>6. Range(cut) \subseteq Range(idCache) \cup {e} /\ e \in Range(cut)
    BY <2>3, <2>5 DEF Range
  <2> QED BY <2>1, <2>2, <2>4, <2>6
<1>3. CASE ~(n > m)
  <2>1. IDInserted(e) = all
    BY <1>3 DEF IDInserted
  <2> HIDE DEF n
  <2> QED BY <1>1, <1>3, <2>1 DEF Range, n
<1> QED BY <1>2, <1>3

\* RemoveAt drops one position; the others keep their order.
LEMMA RemoveAtIsTheRest ==
    ASSUME NEW S, NEW q \in Seq(S), NEW i \in 1..Len(q)
    PROVE  /\ RemoveAt(q, i) \in Seq(S) /\ Len(RemoveAt(q, i)) = Len(q) - 1
           /\ \A j \in 1..(Len(q) - 1) : RemoveAt(q, i)[j] = IF j < i THEN q[j] ELSE q[j + 1]
<1> DEFINE s == SubSeq(q, 1, i - 1)
           t == SubSeq(q, i + 1, Len(q))
<1>1. Len(q) \in Nat
  OBVIOUS
<1>2. s \in Seq(S) /\ Len(s) = i - 1 /\ \A j \in 1..(i - 1) : s[j] = q[j]
  BY <1>1
<1>3. t \in Seq(S) /\ Len(t) = Len(q) - i /\ \A j \in 1..(Len(q) - i) : t[j] = q[j + i]
  BY <1>1
<1>4. RemoveAt(q, i) = s \o t
  BY DEF RemoveAt
<1> HIDE DEF s, t
<1>5. /\ s \o t \in Seq(S) /\ Len(s \o t) = Len(q) - 1
      /\ \A j \in 1..(Len(q) - 1) : (s \o t)[j] = IF j < i THEN s[j] ELSE t[j - i + 1]
  <2>1. s \in Seq(S) /\ t \in Seq(S)
    BY <1>2, <1>3
  <2>2. /\ s \o t \in Seq(S) /\ Len(s \o t) = Len(s) + Len(t)
        /\ \A j \in 1..(Len(s) + Len(t)) :
              (s \o t)[j] = IF j <= Len(s) THEN s[j] ELSE t[j - Len(s)]
    BY ONLY <2>1, ConcatProperties
  <2>3. Len(s) = i - 1 /\ Len(t) = Len(q) - i /\ i \in 1..Len(q)
    BY <1>2, <1>3
  <2>4. s \o t \in Seq(S) /\ Len(s \o t) = Len(q) - 1
    BY ONLY <1>1, <2>2, <2>3
  <2>5. ASSUME NEW j \in 1..(Len(q) - 1)
        PROVE  (s \o t)[j] = IF j < i THEN s[j] ELSE t[j - i + 1]
    <3>1. j \in 1..(Len(s) + Len(t)) /\ (j < i <=> j <= Len(s)) /\ j - Len(s) = j - i + 1
      BY ONLY <1>1, <2>3, j \in 1..(Len(q) - 1)
    <3> QED BY ONLY <2>2, <3>1
  <2> QED BY ONLY <2>4, <2>5
<1>6. \A j \in 1..(Len(q) - 1) : (s \o t)[j] = IF j < i THEN q[j] ELSE q[j + 1]
  <2> SUFFICES ASSUME NEW j \in 1..(Len(q) - 1)
               PROVE  (s \o t)[j] = IF j < i THEN q[j] ELSE q[j + 1]
    OBVIOUS
  <2>1. CASE j < i
    BY <1>1, <1>2, <1>5, <2>1
  <2>2. CASE ~(j < i)
    <3>1. j - i + 1 \in 1..(Len(q) - i) /\ (j - i + 1) + i = j + 1
      BY <1>1, <2>2
    <3> QED BY <1>3, <1>5, <2>2, <3>1
  <2> QED BY <2>1, <2>2
<1> QED BY <1>4, <1>5, <1>6

\* A failed submission takes its own entry along, and no other.
LEMMA IDDropFailedKeepsOthers ==
    ASSUME idCache \in Seq(IDEntry), NEW c \in IDCalls
    PROVE  /\ IDDropFailed(c) \in Seq(IDEntry) /\ Len(IDDropFailed(c)) <= Len(idCache)
           /\ Range(IDDropFailed(c)) \subseteq Range(idCache)
           /\ \A e \in Range(idCache) : e.owner # c => e \in Range(IDDropFailed(c))
<1> DEFINE mine == {i \in DOMAIN idCache : idCache[i].owner = c}
           n == Len(idCache)
<1>1. CASE mine = {}
  BY <1>1 DEF IDDropFailed
<1>2. CASE mine # {}
  <2>1. PICK i \in mine : IDDropFailed(c) = RemoveAt(idCache, i)
    BY <1>2 DEF IDDropFailed
  <2>2. i \in 1..n /\ idCache[i].owner = c /\ n \in Nat /\ DOMAIN idCache = 1..n
    BY <2>1
  <2> DEFINE r == RemoveAt(idCache, i)
  <2>3. /\ r \in Seq(IDEntry) /\ Len(r) = n - 1
        /\ \A j \in 1..(n - 1) : r[j] = IF j < i THEN idCache[j] ELSE idCache[j + 1]
    BY <2>2, RemoveAtIsTheRest
  <2> HIDE DEF r, n
  <2>4. DOMAIN r = 1..(n - 1)
    BY <2>3
  <2>5. Range(r) \subseteq Range(idCache)
    <3>1. \A j \in 1..(n - 1) : \E l \in 1..n : r[j] = idCache[l]
      <4> SUFFICES ASSUME NEW j \in 1..(n - 1) PROVE \E l \in 1..n : r[j] = idCache[l]
        OBVIOUS
      <4>1. j \in 1..n /\ j + 1 \in 1..n /\ (r[j] = idCache[j] \/ r[j] = idCache[j + 1])
        BY ONLY <2>2, <2>3, j \in 1..(n - 1)
      <4> QED BY ONLY <4>1, Zenon
    <3> QED BY ONLY <2>2, <2>4, <3>1, Zenon DEF Range
  <2>6. ASSUME NEW e \in Range(idCache), e.owner # c PROVE e \in Range(r)
    <3>1. PICK j \in 1..n : idCache[j] = e
      BY <2>2 DEF Range
    <3>2. j # i
      BY <2>2, <2>6, <3>1
    <3>3. CASE j < i
      <4>1. j \in 1..(n - 1) /\ r[j] = e
        BY <2>2, <2>3, <3>1, <3>3
      <4> QED BY <2>4, <4>1 DEF Range
    <3>4. CASE j > i
      <4>1. j - 1 \in 1..(n - 1) /\ ~(j - 1 < i) /\ (j - 1) + 1 = j
        BY <2>2, <3>4
      <4>2. r[j - 1] = e
        BY <2>3, <3>1, <4>1
      <4> QED BY <2>4, <4>1, <4>2 DEF Range
    <3> QED BY <2>2, <3>2, <3>3, <3>4
  <2>7. Len(r) <= Len(idCache)
    BY <2>2, <2>3 DEF n
  <2> QED BY <2>1, <2>3, <2>5, <2>6, <2>7 DEF r
<1> QED BY <1>1, <1>2

\* A call that starts keeps what is known of the others: only a call whose key has
\* no entry submits under it.
LEMMA IDSubmitPreserves ==
    ASSUME IDInd, NEW c \in IDCalls, IDSubmit(c)
    PROVE  IDInd'
<1>1. PICK k \in IDKeys \cup {IDNone, IDInvalid}, p \in IDPayloads :
        /\ idAsk' = [idAsk EXCEPT ![c] = [key |-> k, payload |-> p]]
        /\ \/ /\ k = IDNone /\ IDSends(c) /\ UNCHANGED <<idCache, idForgot>>
           \/ /\ k # IDNone /\ ~IDKeyOk(k)
              /\ idPc' = [idPc EXCEPT ![c] = "refused"]
              /\ UNCHANGED <<idCache, idForgot, idOwner, idPromise>>
           \/ \E e \in IDEntries(k) :
              /\ idPc' = [idPc EXCEPT ![c] = IF IDSamePayload(e, p) THEN "waiting" ELSE "refused"]
              /\ idOwner' = [idOwner EXCEPT ![c] = e.owner]
              /\ UNCHANGED <<idCache, idForgot, idPromise>>
           \/ /\ k # IDNone /\ IDKeyOk(k) /\ IDEntries(k) = {}
              /\ IDSends(c)
              /\ idCache' = IDInserted([key |-> k, payload |-> p, owner |-> c])
              /\ idForgot' = idForgot \cup {e.owner : e \in Range(idCache) \ Range(idCache')}
  BY DEF IDSubmit
<1>2. idPc[c] = "idle" /\ UNCHANGED <<idLanded, idCreate>>
  BY DEF IDSubmit
<1>3. /\ idAsk'[c].key = k /\ idAsk'[c].payload = p /\ DOMAIN idAsk' = IDCalls
      /\ \A d \in IDCalls \ {c} : idAsk'[d] = idAsk[d]
      /\ idOwner[c] = c /\ idPromise[c] = "none"
  BY <1>1, <1>2 DEF IDInd, IDTypeOK, IDWaitsForItsPayload
<1>4. /\ idCache \in Seq(IDEntry) /\ Len(idCache) <= IDMaxEntries
      /\ \A e \in Range(idCache) : e \in IDEntry /\ e.owner \in IDCalls \ {c}
  <2>1. idCache \in Seq(IDEntry) /\ Len(idCache) <= IDMaxEntries
    BY DEF IDInd, IDTypeOK, IDEntry
  <2>2. \A e \in Range(idCache) : e \in IDEntry
    BY <2>1 DEF Range
  <2>3. \A e \in IDEntry : e.owner \in IDCalls
    BY DEF IDEntry
  <2> QED BY <1>3, <2>1, <2>2, <2>3 DEF IDInd, IDCacheIsTrue
<1>5. \A d \in IDCalls : idPc[d] \in {"waiting", "ok"} => idOwner[d] \in IDCalls \ {c}
  BY <1>2, <1>3 DEF IDInd, IDTypeOK, IDWaitsForItsPayload
<1>6. ASSUME k = IDNone, IDSends(c), UNCHANGED <<idCache, idForgot>> PROVE IDInd'
  <2>1. IDTypeOK'
    BY <1>2, <1>3, <1>6 DEF IDInd, IDTypeOK, IDSends
  <2>2. IDCacheIsTrue'
    BY <1>3, <1>4, <1>6 DEF IDInd, IDTypeOK, IDSends, IDCacheIsTrue
  <2>3. IDRemembered'
    BY <1>3, <1>6 DEF IDInd, IDTypeOK, IDSends, IDRemembered
  <2>4. IDWaitsForItsPayload'
    BY <1>2, <1>3, <1>5, <1>6 DEF IDInd, IDTypeOK, IDSends, IDWaitsForItsPayload
  <2>5. IDAtMostOnce'
    BY <1>3, <1>6 DEF IDInd, IDTypeOK, IDSends, IDAtMostOnce
  <2> QED BY <2>1, <2>2, <2>3, <2>4, <2>5 DEF IDInd
<1>7. ASSUME idPc' = [idPc EXCEPT ![c] = "refused"],
             UNCHANGED <<idCache, idForgot, idOwner, idPromise>>
      PROVE  IDInd'
  <2>1. IDTypeOK'
    BY <1>2, <1>3, <1>7 DEF IDInd, IDTypeOK
  <2>2. IDCacheIsTrue'
    BY <1>3, <1>4, <1>7 DEF IDInd, IDCacheIsTrue
  <2>3. IDRemembered'
    BY <1>3, <1>7 DEF IDInd, IDRemembered
  <2>4. IDWaitsForItsPayload'
    BY <1>2, <1>3, <1>5, <1>7 DEF IDInd, IDTypeOK, IDWaitsForItsPayload
  <2>5. IDAtMostOnce'
    BY <1>3, <1>7 DEF IDInd, IDAtMostOnce
  <2> QED BY <2>1, <2>2, <2>3, <2>4, <2>5 DEF IDInd
<1>8. ASSUME NEW e \in IDEntries(k),
             idPc' = [idPc EXCEPT ![c] = IF IDSamePayload(e, p) THEN "waiting" ELSE "refused"],
             idOwner' = [idOwner EXCEPT ![c] = e.owner],
             UNCHANGED <<idCache, idForgot, idPromise>>
      PROVE  IDInd'
  <2>1. /\ e \in Range(idCache) /\ e.owner \in IDCalls \ {c}
        /\ idPromise[e.owner] # "none" /\ idAsk[e.owner].payload = e.payload
    BY <1>4 DEF IDEntries, IDInd, IDCacheIsTrue
  <2>2. IDTypeOK'
    BY <1>2, <1>3, <1>8, <2>1 DEF IDInd, IDTypeOK
  <2>3. IDCacheIsTrue'
    BY <1>3, <1>4, <1>8 DEF IDInd, IDCacheIsTrue
  <2>4. IDRemembered'
    BY <1>3, <1>8 DEF IDInd, IDRemembered
  <2>5. IDWaitsForItsPayload'
    BY <1>2, <1>3, <1>5, <1>8, <2>1 DEF IDInd, IDTypeOK, IDWaitsForItsPayload, IDSamePayload
  <2>6. IDAtMostOnce'
    BY <1>3, <1>8 DEF IDInd, IDAtMostOnce
  <2> QED BY <2>2, <2>3, <2>4, <2>5, <2>6 DEF IDInd
<1>9. ASSUME k # IDNone, IDKeyOk(k), IDEntries(k) = {}, IDSends(c),
             idCache' = IDInserted([key |-> k, payload |-> p, owner |-> c]),
             idForgot' = idForgot \cup {e.owner : e \in Range(idCache) \ Range(idCache')}
      PROVE  IDInd'
  <2> DEFINE new == [key |-> k, payload |-> p, owner |-> c]
  <2>1. new \in IDEntry
    BY <1>9 DEF IDEntry, IDKeyOk
  <2>2. /\ idCache' \in Seq(IDEntry) /\ Len(idCache') <= IDMaxEntries
        /\ Range(idCache') \subseteq Range(idCache) \cup {new}
        /\ new \in Range(idCache')
    BY <1>4, <1>9, <2>1, IDInsertedKeepsTheNew
  <2>3. new.owner = c /\ new.key = k /\ new.payload = p
    OBVIOUS
  <2> HIDE DEF new
  <2>4. /\ idPromise'[c] = "sent" /\ idPc'[c] = "waiting" /\ idOwner' = idOwner
        /\ \A d \in IDCalls \ {c} : idPromise'[d] = idPromise[d] /\ idPc'[d] = idPc[d]
        /\ idPromise' \in [IDCalls -> {"none", "sent", "ok", "error"}]
        /\ idPc' \in [IDCalls -> {"idle", "waiting", "ok", "error", "refused"}]
    BY <1>9 DEF IDInd, IDTypeOK, IDSends
  <2>5. IDTypeOK'
    BY <1>2, <1>3, <2>2, <2>4 DEF IDInd, IDTypeOK, IDEntry
  <2>6. IDCacheIsTrue'
    BY <1>3, <1>4, <2>2, <2>3, <2>4 DEF IDInd, IDCacheIsTrue
  <2>7. IDRemembered'
    <3> SUFFICES ASSUME NEW d \in IDCalls, idPromise'[d] \in {"sent", "ok"},
                        idAsk'[d].key # IDNone, d \notin idForgot'
                 PROVE  \E e \in Range(idCache') : e.owner = d
      BY DEF IDRemembered
    <3>1. CASE d = c
      BY <2>2, <2>3, <3>1
    <3>2. CASE d # c
      <4>1. PICK e \in Range(idCache) : e.owner = d
        BY <1>3, <1>9, <2>4, <3>2 DEF IDInd, IDRemembered
      <4>2. e \in Range(idCache')
        BY <1>9, <4>1
      <4> QED BY <4>1, <4>2
    <3> QED BY <3>1, <3>2
  <2>8. IDWaitsForItsPayload'
    BY <1>2, <1>3, <1>5, <2>4 DEF IDInd, IDTypeOK, IDWaitsForItsPayload
  <2>9. IDAtMostOnce'
    <3>1. ASSUME NEW d \in IDCalls \ {c}, idPromise[d] # "none", idAsk[d].key = k
          PROVE  d \in idForgot \/ idPromise[d] = "error"
      <4>1. \A e \in Range(idCache) : e.owner # d
        BY <1>9, <3>1 DEF IDEntries, IDInd, IDCacheIsTrue
      <4> QED BY <1>9, <3>1, <4>1 DEF IDInd, IDRemembered, IDTypeOK
    <3>2. idForgot \subseteq idForgot'
      BY <1>9
    <3> QED BY <1>3, <2>4, <3>1, <3>2 DEF IDInd, IDAtMostOnce
  <2> QED BY <2>5, <2>6, <2>7, <2>8, <2>9 DEF IDInd
<1> QED BY <1>1, <1>6, <1>7, <1>8, <1>9

\* An answer settles the owner's promise; success means the payment landed.
LEMMA IDAnswerPreserves ==
    ASSUME IDInd, NEW c \in IDCalls, IDAnswer(c)
    PROVE  IDInd'
<1>1. PICK result \in {"ok", "error"}, lands \in BOOLEAN :
        /\ idPromise[c] = "sent" /\ (result = "ok" => lands)
        /\ idPromise' = [idPromise EXCEPT ![c] = result]
        /\ idLanded' = IF lands THEN idLanded \cup {c} ELSE idLanded
        /\ UNCHANGED <<idCache, idPc, idAsk, idOwner, idForgot, idCreate>>
  BY DEF IDAnswer
<1>2. /\ idPromise' \in [IDCalls -> {"none", "sent", "ok", "error"}] /\ idPromise'[c] = result
      /\ \A d \in IDCalls \ {c} : idPromise'[d] = idPromise[d]
  BY <1>1 DEF IDInd, IDTypeOK
<1>3. IDTypeOK'
  BY <1>1, <1>2 DEF IDInd, IDTypeOK
<1>4. IDCacheIsTrue' /\ IDRemembered'
  BY <1>1, <1>2 DEF IDInd, IDTypeOK, IDCacheIsTrue, IDRemembered, Range
<1>5. IDWaitsForItsPayload'
  BY <1>1, <1>2 DEF IDInd, IDTypeOK, IDWaitsForItsPayload
<1>6. IDAtMostOnce'
  BY <1>1, <1>2 DEF IDInd, IDAtMostOnce
<1> QED BY <1>3, <1>4, <1>5, <1>6 DEF IDInd

\* A caller that resumes forgets only its own failed entry.
LEMMA IDResumePreserves ==
    ASSUME IDInd, NEW c \in IDCalls, IDResume(c)
    PROVE  IDInd'
<1>1. /\ idPc[c] = "waiting" /\ idPromise[idOwner[c]] \in {"ok", "error"}
      /\ idPc' = [idPc EXCEPT ![c] = idPromise[idOwner[c]]]
      /\ idCache' = IF idOwner[c] = c /\ idPromise[c] = "error" THEN IDDropFailed(c) ELSE idCache
      /\ UNCHANGED <<idAsk, idOwner, idPromise, idLanded, idForgot, idCreate>>
  BY DEF IDResume
<1>2. idCache \in Seq(IDEntry) /\ Len(idCache) <= IDMaxEntries /\ Len(idCache) \in Nat
  BY DEF IDInd, IDTypeOK, IDEntry
<1>3. /\ idCache' \in Seq(IDEntry) /\ Len(idCache') <= IDMaxEntries
      /\ Range(idCache') \subseteq Range(idCache)
      /\ \A e \in Range(idCache) : e \notin Range(idCache') => e.owner = c /\ idPromise[c] = "error"
  <2>1. CASE idOwner[c] = c /\ idPromise[c] = "error"
    <3>1. idCache' = IDDropFailed(c)
      BY <1>1, <2>1
    <3>2. /\ idCache' \in Seq(IDEntry) /\ Len(idCache') <= Len(idCache)
          /\ Range(idCache') \subseteq Range(idCache)
          /\ \A e \in Range(idCache) : e.owner # c => e \in Range(idCache')
      BY <1>2, <3>1, IDDropFailedKeepsOthers
    <3> QED BY <1>2, <2>1, <3>2, IDAssumption
  <2>2. CASE ~(idOwner[c] = c /\ idPromise[c] = "error")
    BY <1>1, <1>2, <2>2
  <2> QED BY <2>1, <2>2
<1>4. IDTypeOK'
  BY <1>1, <1>3 DEF IDInd, IDTypeOK, IDEntry
<1>5. IDCacheIsTrue'
  BY <1>1, <1>3 DEF IDInd, IDCacheIsTrue
<1>6. IDRemembered'
  BY <1>1, <1>3 DEF IDInd, IDRemembered
<1>7. IDWaitsForItsPayload'
  BY <1>1 DEF IDInd, IDTypeOK, IDWaitsForItsPayload
<1>8. IDAtMostOnce'
  BY <1>1 DEF IDInd, IDAtMostOnce
<1> QED BY <1>4, <1>5, <1>6, <1>7, <1>8 DEF IDInd

LEMMA IDInitInd == IDInit => IDInd
<1> SUFFICES ASSUME IDInit PROVE IDInd
  OBVIOUS
<1>1. IDTypeOK
  BY IDAssumption DEF IDInit, IDTypeOK
<1> QED BY <1>1 DEF IDInit, IDInd, IDCacheIsTrue, IDRemembered, IDWaitsForItsPayload, IDAtMostOnce, Range

LEMMA IDNextInd == IDInd /\ [IDNext]_idVars => IDInd'
<1> SUFFICES ASSUME IDInd, [IDNext]_idVars PROVE IDInd'
  OBVIOUS
<1>1. CASE IDClear
  <2>1. /\ idCache' = <<>>
        /\ idForgot' = idForgot \cup {e.owner : e \in Range(idCache)}
        /\ UNCHANGED <<idPc, idAsk, idOwner, idPromise, idLanded, idCreate>>
    BY <1>1 DEF IDClear
  <2>2. IDTypeOK'
    BY <2>1, IDAssumption DEF IDInd, IDTypeOK
  <2>3. IDCacheIsTrue'
    BY <2>1 DEF IDCacheIsTrue, Range
  <2>4. IDRemembered'
    BY <2>1 DEF IDInd, IDRemembered
  <2>5. IDWaitsForItsPayload' /\ IDAtMostOnce'
    BY <2>1 DEF IDInd, IDWaitsForItsPayload, IDAtMostOnce
  <2> QED BY <2>2, <2>3, <2>4, <2>5 DEF IDInd
<1>2. CASE IDCreateStart \/ IDCreateAttempt
  <2>1. UNCHANGED <<idCache, idPc, idAsk, idOwner, idPromise, idLanded, idForgot>>
    BY <1>2 DEF IDCreateStart, IDCreateAttempt
  <2>2. idCreate' \in [pc : {"idle", "attempt", "ok", "definite", "ambiguous"}, n : Nat,
                       attempt : Nat, seen : SUBSET Nat]
    <3> DEFINE pcs == {"idle", "attempt", "ok", "definite", "ambiguous"}
               num == Nat
               sets == SUBSET Nat
    <3>0. /\ idCreate \in [pc : pcs, n : num, attempt : num, seen : sets]
          /\ idCreate.n + 1 \in num /\ idCreate.attempt + 1 \in num /\ 1 \in num
          /\ idCreate.seen \in sets /\ idCreate.seen \cup {idCreate.n} \in sets
      BY DEF IDInd, IDTypeOK
    <3> HIDE DEF num, sets
    <3>1. CASE IDCreateStart
      <4>1. idCreate' = [idCreate EXCEPT !.pc = "attempt", !.n = @ + 1, !.attempt = 1]
        BY <3>1 DEF IDCreateStart
      <4>2. idCreate' \in [pc : pcs, n : num, attempt : num, seen : sets]
        BY <3>0, <4>1
      <4> QED BY <4>2 DEF num, sets
    <3>2. CASE IDCreateAttempt
      <4>1. PICK result \in {"answered", "notConnected", "lost"}, reaches \in BOOLEAN :
              idCreate' = [idCreate EXCEPT
                !.seen = IF reaches THEN @ \cup {idCreate.n} ELSE @,
                !.attempt = @ + 1,
                !.pc = IF result = "answered" THEN "ok"
                       ELSE IF IDDefinite(result) THEN "definite"
                       ELSE IF idCreate.attempt = IDAttempts THEN "ambiguous" ELSE "attempt"]
        BY <3>2 DEF IDCreateAttempt
      <4>2. idCreate' \in [pc : pcs, n : num, attempt : num, seen : sets]
        BY <3>0, <4>1
      <4> QED BY <4>2 DEF num, sets
    <3> QED BY <1>2, <3>1, <3>2
  <2>3. IDTypeOK'
    BY <2>1, <2>2 DEF IDInd, IDTypeOK
  <2> QED BY <2>1, <2>3
          DEF IDInd, IDCacheIsTrue, IDRemembered, IDWaitsForItsPayload, IDAtMostOnce
<1>3. CASE UNCHANGED idVars
  BY <1>3 DEF idVars, IDInd, IDTypeOK, IDCacheIsTrue, IDRemembered, IDWaitsForItsPayload, IDAtMostOnce
<1> QED BY <1>1, <1>2, <1>3, IDSubmitPreserves, IDAnswerPreserves, IDResumePreserves DEF IDNext

\* A key submits once while it is remembered: of two submissions of one key one
\* failed or was evicted or cleared, whatever answers come late; and a caller told of
\* success, its own or a shared one, has its payload on chain (withIdempotency).
THEOREM OneSubmissionPerKey == IDSpec => []IDOneSubmissionPerKey
<1>1. IDInd => IDOneSubmissionPerKey
  BY DEF IDInd, IDTypeOK, IDWaitsForItsPayload, IDAtMostOnce, IDOneSubmissionPerKey
<1> QED BY <1>1, IDInitInd, IDNextInd, PTL DEF IDSpec

-----------------------------------------------------------------------------
(* Caches. *)

\* Nothing happens before a cache is configured.
CAStartsEmpty == (caKind = CANone) =>
    /\ \A n \in CANets : caEntry[n] = CANone
    /\ \A c \in CACalls : caCall[c].pc = "idle"

\* What is known of the answer of call a: it was sampled after the call began; if
\* it is older than an invalidation, its network is tainted; an authorization is the
\* current one, or its network is tainted.
CASound(a) ==
    /\ a.pc \in {"reading", "answering"} =>
           a.net \in CANets /\ a.began <= caClock /\ (a.old => a.net \in caTainted)
    /\ a.pc = "answering" =>
           /\ a.began <= a.readAt
           /\ (caKind = "authorization" /\ a.net \notin caTainted) => (a.value \in {0, caTruth[a.net]})

CACallsAreSound == \A c \in CACalls : CASound(caCall[c])

\* The inductive invariant of the caches.
CAInd == CATypeOK /\ CAStartsEmpty /\ CACallsAreSound /\ CAEntriesAreExplained

\* The keys in use are keys.
LEMMA CAUsedAreNets == CAUsed \subseteq CANets
  BY CANetsAssumption DEF CAUsed

\* A call that has not begun has no answer.
LEMMA CAIdleIsACall == CAIdle \in CACall /\ CAIdle.pc = "idle" /\ CAIdle.old = FALSE
  BY CABoundsAssumption DEF CAIdle, CACall

\* One call changes and nothing else that the others are about.
LEMMA CAOneCallChanges ==
    ASSUME CAInd, NEW c \in CACalls, NEW r \in CACall,
           caCall' = [caCall EXCEPT ![c] = r], CASound(r),
           caKind # CANone, UNCHANGED <<caKind, caClock, caTruth, caTainted>>
    PROVE  /\ caCall' \in [CACalls -> CACall]
           /\ CACallsAreSound' /\ CAStartsEmpty'
<1>1. caCall' \in [CACalls -> CACall] /\ \A d \in CACalls : caCall'[d] = caCall[d] \/ caCall'[d] = r
  BY DEF CAInd, CATypeOK
<1>2. CACallsAreSound'
  BY <1>1 DEF CAInd, CACallsAreSound, CASound
<1> QED BY <1>1, <1>2 DEF CAStartsEmpty

\* The entries stay explained when some are dropped.
LEMMA CADroppingExplains ==
    ASSUME CAInd, UNCHANGED <<caKind, caTruth, caTainted>>,
           caEntry' \in [CANets -> CAStored \cup {CANone}],
           \A n \in CANets : caEntry'[n] = caEntry[n] \/ caEntry'[n] = CANone
    PROVE  CAEntriesAreExplained'
  BY DEF CAInd, CAEntriesAreExplained

\* A hit changes one call only.
LEMMA CAGetHitPreserves ==
    ASSUME CAInd, NEW c \in CACalls, CAGetHit(c)
    PROVE  CAInd'
<1>1. PICK n \in CAUsed :
        /\ CAHit(n)
        /\ caCall' = [caCall EXCEPT ![c] =
              [CAIdle EXCEPT !.pc = "done", !.net = n, !.value = caEntry[n].value]]
  BY DEF CAGetHit
<1>2. caKind # CANone /\ UNCHANGED <<caKind, caClock, caTruth, caEntry, caPending, caTainted>>
  BY DEF CAGetHit
<1> DEFINE r == [CAIdle EXCEPT !.pc = "done", !.net = n, !.value = caEntry[n].value]
<1>3. n \in CANets /\ caEntry[n].value \in 0..CAVersions
  BY <1>1, CAUsedAreNets DEF CAHit, CAInd, CATypeOK, CAStored
<1>4. r \in CACall /\ r.pc = "done"
  BY <1>3, CAIdleIsACall DEF CACall
<1> HIDE DEF r
<1>5. caCall' \in [CACalls -> CACall] /\ CACallsAreSound' /\ CAStartsEmpty'
  BY <1>1, <1>2, <1>4, CAOneCallChanges DEF r, CASound
<1>6. CATypeOK' /\ CAEntriesAreExplained'
  BY <1>2, <1>5 DEF CAInd, CATypeOK, CAEntriesAreExplained
<1> QED BY <1>5, <1>6 DEF CAInd

\* A call that asks starts a read of its own or joins the one in flight.
LEMMA CAAskIsSound ==
    ASSUME CAInd, NEW c \in CACalls, NEW n \in CANets, NEW asked \in 0..CAVersions, CAAsk(c, n, asked)
    PROVE  /\ caPending' \in [CANets -> CACalls \cup {CANone}]
           /\ \E r \in CACall : /\ caCall' = [caCall EXCEPT ![c] = r] /\ CASound(r)
                                /\ r.pc = "reading" /\ ~r.old
<1> DEFINE joins == CAShares /\ caPending[n] # CANone
           r == [CAIdle EXCEPT !.pc = "reading", !.net = n, !.began = caClock, !.asked = asked,
                               !.shares = IF joins THEN caPending[n] ELSE CANone]
<1>1. caCall' = [caCall EXCEPT ![c] = r]
  BY DEF CAAsk
<1>2. caPending[n] \in CACalls \cup {CANone} /\ caClock \in 0..CAEnd
  BY DEF CAInd, CATypeOK
<1>3. r \in CACall /\ r.pc = "reading" /\ r.net = n /\ r.began = caClock /\ r.old = FALSE
  BY <1>2, CAIdleIsACall DEF CACall
<1>4. CASound(r)
  BY <1>2, <1>3 DEF CASound
<1>5. caPending' \in [CANets -> CACalls \cup {CANone}]
  BY DEF CAAsk, CAInd, CATypeOK
<1> QED BY <1>1, <1>3, <1>4, <1>5

\* A miss starts or joins a read; it may drop a stale entry.
LEMMA CAGetMissPreserves ==
    ASSUME CAInd, NEW c \in CACalls, CAGetMiss(c)
    PROVE  CAInd'
<1>1. PICK n \in CAUsed :
        /\ CAAsk(c, n, 0)
        /\ caEntry' = IF caKind \in {"scoped", "instrumented"}
                      THEN [caEntry EXCEPT ![n] = CANone] ELSE caEntry
  BY DEF CAGetMiss
<1>2. caKind # CANone /\ UNCHANGED <<caKind, caClock, caTruth, caTainted>>
  BY DEF CAGetMiss
<1>3. n \in CANets /\ 0 \in 0..CAVersions
  BY CAUsedAreNets, CABoundsAssumption
<1>4. caPending' \in [CANets -> CACalls \cup {CANone}]
  BY <1>1, <1>3, CAAskIsSound
<1>5. PICK r \in CACall : caCall' = [caCall EXCEPT ![c] = r] /\ CASound(r)
  BY <1>1, <1>3, CAAskIsSound
<1>6. caCall' \in [CACalls -> CACall] /\ CACallsAreSound' /\ CAStartsEmpty'
  BY <1>2, <1>5, CAOneCallChanges
<1>7. /\ caEntry' \in [CANets -> CAStored \cup {CANone}]
      /\ \A m \in CANets : caEntry'[m] = caEntry[m] \/ caEntry'[m] = CANone
  BY <1>1 DEF CAInd, CATypeOK
<1>8. CAEntriesAreExplained'
  BY <1>2, <1>7, CADroppingExplains
<1>9. CATypeOK'
  BY <1>2, <1>4, <1>6, <1>7 DEF CAInd, CATypeOK
<1> QED BY <1>6, <1>8, <1>9 DEF CAInd

\* What is sampled is true now, and not before the call began.
LEMMA CASamplePreserves ==
    ASSUME CAInd, NEW c \in CACalls, CASample(c)
    PROVE  CAInd'
<1>1. PICK v \in CAReadings(caCall[c].net) :
        caCall' = [caCall EXCEPT ![c].pc = "answering", ![c].value = v, ![c].readAt = caClock]
  BY DEF CASample
<1>2. /\ caCall[c].pc = "reading"
      /\ UNCHANGED <<caKind, caClock, caTruth, caEntry, caPending, caTainted>>
  BY DEF CASample
<1> DEFINE a == caCall[c]
           r == [a EXCEPT !.pc = "answering", !.value = v, !.readAt = caClock]
<1>3. /\ a \in CACall /\ a.net \in CANets /\ a.began <= caClock /\ (a.old => a.net \in caTainted)
      /\ caClock \in 0..CAEnd /\ v \in {0, caTruth[a.net]} /\ v \in 0..CAVersions
  BY <1>1, <1>2, CABoundsAssumption DEF CAInd, CATypeOK, CACallsAreSound, CASound, CAReadings
<1>4. caCall' = [caCall EXCEPT ![c] = r]
  BY <1>1
<1>5. /\ r \in CACall /\ r.net = a.net /\ r.pc = "answering" /\ r.value = v /\ r.old = a.old
      /\ r.began = a.began /\ r.readAt = caClock
  <2> HIDE DEF a
  <2> QED BY <1>3 DEF CACall
<1> HIDE DEF r, a
<1>6. CASound(r)
  BY <1>3, <1>5 DEF CASound
<1>7. caKind # CANone
  BY <1>2 DEF CAInd, CAStartsEmpty
<1>8. caCall' \in [CACalls -> CACall] /\ CACallsAreSound' /\ CAStartsEmpty'
  BY <1>2, <1>4, <1>5, <1>6, <1>7, CAOneCallChanges
<1>9. CATypeOK' /\ CAEntriesAreExplained'
  BY <1>2, <1>8 DEF CAInd, CATypeOK, CAEntriesAreExplained
<1> QED BY <1>8, <1>9 DEF CAInd

\* A late answer is stored under its own network, with the lifetime its cache gives
\* it, and whatever was invalidated since.
LEMMA CAAnswerPreserves ==
    ASSUME CAInd, NEW c \in CACalls, CAAnswer(c)
    PROVE  CAInd'
<1> DEFINE a == caCall[c]
           e == [value |-> a.value, net |-> a.net, expires |-> CAExpires(a.began), readAt |-> a.readAt,
                 old |-> a.old, created |-> IF caKind = "status" THEN caClock ELSE 0]
<1>1. /\ a.pc = "answering"
      /\ caEntry' = IF CAKeeps(a.value) THEN [caEntry EXCEPT ![a.net] = e] ELSE caEntry
      /\ caPending' = [caPending EXCEPT ![a.net] = CANone]
      /\ caCall' = [d \in CACalls |->
           IF d = c \/ caCall[d].shares = c
           THEN [CAIdle EXCEPT !.pc = "done", !.net = a.net, !.value = a.value, !.asked = caCall[d].asked]
           ELSE caCall[d]]
      /\ UNCHANGED <<caKind, caClock, caTruth, caTainted>>
  BY DEF CAAnswer
<1>2. /\ a.value \in 0..CAVersions /\ a.began \in 0..CAEnd /\ a.readAt \in 0..CAEnd /\ a.old \in BOOLEAN
      /\ a.net \in CANets /\ a.began <= a.readAt /\ caClock \in 0..CAEnd
      /\ a.old => a.net \in caTainted
      /\ (caKind = "authorization" /\ a.net \notin caTainted) => (a.value \in {0, caTruth[a.net]})
  BY <1>1 DEF CAInd, CATypeOK, CACallsAreSound, CASound, CACall
<1>3. caKind # CANone
  BY <1>1 DEF CAInd, CAStartsEmpty
<1>4. /\ CAExpires(a.began) \in Nat
      /\ caKind \in {"resource", "negative"} => CAExpires(a.began) = a.began + CATtl
  BY <1>2, CABoundsAssumption DEF CAExpires
<1> HIDE DEF a
<1>5. e \in CAStored
  BY <1>2, <1>4, CABoundsAssumption DEF CAStored
<1>6. /\ e.value = a.value /\ e.net = a.net /\ e.expires = CAExpires(a.began)
      /\ e.readAt = a.readAt /\ e.old = a.old
  OBVIOUS
<1> HIDE DEF e
<1>7. /\ caEntry' \in [CANets -> CAStored \cup {CANone}]
      /\ \A n \in CANets : \/ caEntry'[n] = caEntry[n]
                           \/ n = a.net /\ caEntry'[n] = e /\ CAKeeps(a.value)
  BY <1>1, <1>2, <1>5 DEF CAInd, CATypeOK
<1>8. caKind = "authorization" /\ CAKeeps(a.value) => a.value # 0
  BY DEF CAKeeps
<1>9. CAEntriesAreExplained'
  <2>1. /\ e.net = a.net
        /\ (caKind \in {"resource", "negative"}) => (e.expires <= e.readAt + CATtl)
        /\ e.old => (a.net \in caTainted)
        /\ CAKeeps(a.value) /\ caKind = "authorization" /\ a.net \notin caTainted => e.value = caTruth[a.net]
    BY <1>2, <1>4, <1>6, <1>8, CABoundsAssumption
  <2> QED BY <1>1, <1>7, <2>1 DEF CAInd, CAEntriesAreExplained
<1>10. \A d \in CACalls : \/ caCall'[d] = caCall[d]
                          \/ caCall'[d] \in CACall /\ caCall'[d].pc = "done"
  <2> SUFFICES ASSUME NEW d \in CACalls, caCall'[d] # caCall[d]
               PROVE  caCall'[d] \in CACall /\ caCall'[d].pc = "done"
    OBVIOUS
  <2>1. caCall'[d] = [CAIdle EXCEPT !.pc = "done", !.net = a.net, !.value = a.value, !.asked = caCall[d].asked]
    BY <1>1
  <2>2. caCall[d].asked \in 0..CAVersions
    BY DEF CAInd, CATypeOK, CACall
  <2> QED BY <1>2, <2>1, <2>2, CAIdleIsACall DEF CACall
<1>11. caCall' \in [CACalls -> CACall]
  BY <1>1, <1>10 DEF CAInd, CATypeOK
<1>12. CACallsAreSound'
  <2> SUFFICES ASSUME NEW d \in CACalls PROVE CASound(caCall[d])'
    BY DEF CACallsAreSound
  <2>1. CASE caCall'[d] = caCall[d]
    <3>1. CASound(caCall[d])
      BY DEF CAInd, CACallsAreSound
    <3>2. UNCHANGED <<caKind, caClock, caTruth, caTainted>>
      BY <1>1
    <3> QED BY <2>1, <3>1, <3>2 DEF CASound
  <2>2. CASE caCall'[d].pc = "done"
    BY <2>2 DEF CASound
  <2> QED BY <1>10, <2>1, <2>2
<1>13. caPending' \in [CANets -> CACalls \cup {CANone}]
  BY <1>1 DEF CAInd, CATypeOK
<1>14. CATypeOK'
  BY <1>1, <1>7, <1>11, <1>13 DEF CAInd, CATypeOK
<1> QED BY <1>1, <1>3, <1>9, <1>12, <1>14 DEF CAInd, CAStartsEmpty

\* A call that has used its result starts afresh.
LEMMA CAReturnPreserves ==
    ASSUME CAInd, NEW c \in CACalls, CAReturn(c)
    PROVE  CAInd'
<1>1. /\ caCall[c].pc = "done" /\ caCall' = [caCall EXCEPT ![c] = CAIdle]
      /\ UNCHANGED <<caKind, caClock, caTruth, caEntry, caPending, caTainted>>
  BY DEF CAReturn
<1>2. CAIdle \in CACall /\ CAIdle.pc = "idle"
  BY CAIdleIsACall
<1>3. caKind # CANone
  BY <1>1 DEF CAInd, CAStartsEmpty
<1>4. CASound(CAIdle)
  BY <1>2 DEF CASound
<1>5. caCall' \in [CACalls -> CACall] /\ CACallsAreSound' /\ CAStartsEmpty'
  BY <1>1, <1>2, <1>3, <1>4, CAOneCallChanges
<1>6. CATypeOK' /\ CAEntriesAreExplained'
  BY <1>1, <1>5 DEF CAInd, CATypeOK, CAEntriesAreExplained
<1> QED BY <1>5, <1>6 DEF CAInd

\* An invalidation of nets taints the networks whose reads it overtakes, and clears
\* the taint of the others.
LEMMA CATaintsTheOvertaken ==
    ASSUME CAInd, NEW nets \in SUBSET CANets
    PROVE  /\ CATaints(nets) \subseteq CANets
           /\ \A n \in CANets \ nets : n \in CATaints(nets) <=> n \in caTainted
           /\ \A c \in CACalls : caCall[c].pc \in {"reading", "answering"} /\ caCall[c].net \in nets
                  => caCall[c].net \in CATaints(nets)
  BY DEF CATaints, CAUnderWay, CAInd, CATypeOK

\* The answers it overtakes are marked.
LEMMA CAOutdatedMarks ==
    ASSUME CAInd, NEW nets \in SUBSET CANets
    PROVE  /\ CAOutdated(nets) \in [CACalls -> CACall]
           /\ \A c \in CACalls :
                 LET a == caCall[c]
                     b == CAOutdated(nets)[c]
                 IN  /\ b.pc = a.pc /\ b.net = a.net /\ b.began = a.began /\ b.readAt = a.readAt
                     /\ b.value = a.value
                     /\ b.old = a.old \/ a.net \in nets
<1> SUFFICES ASSUME NEW c \in CACalls
             PROVE  LET a == caCall[c]
                        b == CAOutdated(nets)[c]
                    IN  /\ b \in CACall
                        /\ b.pc = a.pc /\ b.net = a.net /\ b.began = a.began /\ b.readAt = a.readAt
                        /\ b.value = a.value
                        /\ b.old = a.old \/ a.net \in nets
  BY DEF CAOutdated
<1> DEFINE a == caCall[c]
<1>1. a \in CACall
  BY DEF CAInd, CATypeOK
<1>2. CAOutdated(nets)[c] = IF a.net \in nets /\ a.pc = "answering" THEN [a EXCEPT !.old = TRUE] ELSE a
  BY DEF CAOutdated
<1> HIDE DEF a
<1>3. /\ [a EXCEPT !.old = TRUE] \in CACall
      /\ LET b == [a EXCEPT !.old = TRUE]
         IN  /\ b.pc = a.pc /\ b.net = a.net /\ b.began = a.began /\ b.readAt = a.readAt
             /\ b.value = a.value
  BY <1>1 DEF CACall
<1> QED BY <1>1, <1>2, <1>3 DEF a

\* An invalidation removes the entries, and taints the networks it is late for.
LEMMA CAInvalidatePreserves ==
    ASSUME CAInd, CAInvalidate
    PROVE  CAInd'
<1>1. PICK nets \in SUBSET CANets :
        /\ LET left == CADropped(nets)
           IN  caEntry' = [n \in CANets |-> IF left[n] = CANone THEN CANone
                                            ELSE [left[n] EXCEPT !.old = @ \/ n \in nets]]
        /\ caCall' = CAOutdated(nets)
        /\ caPending' = [n \in CANets |-> IF caKind = "dedupe" /\ n \in nets THEN CANone ELSE caPending[n]]
        /\ caTainted' = CATaints(nets)
  BY CAUsedAreNets DEF CAInvalidate
<1>2. caKind \notin {CANone, "authorization"} /\ UNCHANGED <<caKind, caClock, caTruth>>
  BY DEF CAInvalidate
<1>3. \A n \in CANets : caEntry'[n] = IF n \in nets THEN CANone ELSE caEntry[n]
  <2> SUFFICES ASSUME NEW n \in CANets PROVE caEntry'[n] = IF n \in nets THEN CANone ELSE caEntry[n]
    OBVIOUS
  <2>1. CASE n \in nets
    BY <1>1, <2>1 DEF CADropped
  <2>2. CASE n \notin nets /\ caEntry[n] = CANone
    BY <1>1, <2>2 DEF CADropped
  <2>3. CASE n \notin nets /\ caEntry[n] # CANone
    <3> DEFINE x == caEntry[n]
    <3>1. x \in CAStored
      BY <2>3 DEF CAInd, CATypeOK
    <3>2. caEntry'[n] = [x EXCEPT !.old = @ \/ n \in nets]
      BY <1>1, <2>3 DEF CADropped
    <3> HIDE DEF x
    <3>3. [x EXCEPT !.old = @ \/ n \in nets] = [x EXCEPT !.old = x.old]
      BY <2>3, <3>1 DEF CAStored
    <3>4. [x EXCEPT !.old = x.old] = x
      BY <3>1 DEF CAStored
    <3> QED BY <2>3, <3>2, <3>3, <3>4 DEF x
  <2> QED BY <2>1, <2>2, <2>3
<1>4. caEntry' \in [CANets -> CAStored \cup {CANone}]
  BY <1>1, <1>3 DEF CAInd, CATypeOK
<1>5. CAEntriesAreExplained'
  BY <1>1, <1>2, <1>3, CATaintsTheOvertaken DEF CAInd, CAEntriesAreExplained
<1>6. CACallsAreSound'
  BY <1>1, <1>2, CATaintsTheOvertaken, CAOutdatedMarks DEF CAInd, CACallsAreSound, CASound
<1>7. caCall' \in [CACalls -> CACall] /\ caTainted' \subseteq CANets
  BY <1>1, CATaintsTheOvertaken, CAOutdatedMarks
<1>8. caPending' \in [CANets -> CACalls \cup {CANone}]
  BY <1>1 DEF CAInd, CATypeOK
<1>9. CATypeOK'
  BY <1>2, <1>4, <1>7, <1>8 DEF CAInd, CATypeOK
<1> QED BY <1>2, <1>5, <1>6, <1>9 DEF CAInd, CAStartsEmpty

\* A refresh invalidates, then asks.
LEMMA CARefreshPreserves ==
    ASSUME CAInd, NEW c \in CACalls, CARefresh(c)
    PROVE  CAInd'
<1>1. PICK n \in CAUsed : /\ caEntry' = [caEntry EXCEPT ![n] = CANone]
                          /\ CAAsk(c, n, caTruth[n])
                          /\ caTainted' = CATaints({n})
  BY DEF CARefresh
<1>2. caKind = "template" /\ caKind # CANone /\ UNCHANGED <<caKind, caClock, caTruth>>
  BY CANetsAssumption DEF CARefresh, Kinds
<1>3. n \in CANets /\ caTruth[n] \in 0..CAVersions
  BY CAUsedAreNets, CABoundsAssumption DEF CAInd, CATypeOK
<1>4. caPending' \in [CANets -> CACalls \cup {CANone}]
  BY <1>1, <1>3, CAAskIsSound
<1>5. PICK r \in CACall : caCall' = [caCall EXCEPT ![c] = r] /\ CASound(r) /\ r.pc = "reading" /\ ~r.old
  BY <1>1, <1>3, CAAskIsSound
<1>6. /\ caCall' \in [CACalls -> CACall]
      /\ \A d \in CACalls : caCall'[d] = caCall[d] \/ caCall'[d] = r
  BY <1>5 DEF CAInd, CATypeOK
<1>7. /\ CATaints({n}) \subseteq CANets
      /\ \A m \in CANets \ {n} : m \in CATaints({n}) <=> m \in caTainted
      /\ \A d \in CACalls : caCall[d].pc \in {"reading", "answering"} /\ caCall[d].net = n
             => n \in CATaints({n})
  BY <1>3, CATaintsTheOvertaken
<1>8. CACallsAreSound'
  BY <1>1, <1>2, <1>5, <1>6, <1>7 DEF CAInd, CACallsAreSound, CASound
<1>9. /\ caEntry' \in [CANets -> CAStored \cup {CANone}]
      /\ \A m \in CANets : caEntry'[m] = IF m = n THEN CANone ELSE caEntry[m]
  BY <1>1 DEF CAInd, CATypeOK
<1>10. CAEntriesAreExplained'
  BY <1>1, <1>2, <1>7, <1>9 DEF CAInd, CAEntriesAreExplained
<1>11. CATypeOK'
  BY <1>1, <1>2, <1>4, <1>6, <1>7, <1>9 DEF CAInd, CATypeOK
<1> QED BY <1>2, <1>8, <1>10, <1>11 DEF CAInd, CAStartsEmpty

\* A rotation drops the entries of the retired key; an entry of an older key is
\* there only because an earlier rotation overtook its read.
LEMMA CARotatePreserves ==
    ASSUME CAInd, CARotate
    PROVE  CAInd'
<1>1. PICK n \in CAUsed :
        /\ caTruth[n] < CAVersions
        /\ caTruth' = [caTruth EXCEPT ![n] = @ + 1]
        /\ caEntry' = [caEntry EXCEPT ![n] = IF @ # CANone /\ @.value = caTruth[n] THEN CANone ELSE @]
        /\ caCall' = CAOutdated({n})
        /\ caTainted' = caTainted \cup CATaints({n})
  BY DEF CARotate
<1>2. caKind = "authorization" /\ caKind # CANone /\ UNCHANGED <<caKind, caClock, caPending>>
  BY CANetsAssumption DEF CARotate, Kinds
<1>3. n \in CANets
  BY CAUsedAreNets
<1>4. /\ caTruth' \in [CANets -> 1..CAVersions]
      /\ \A m \in CANets \ {n} : caTruth'[m] = caTruth[m]
  BY <1>1, <1>3, CABoundsAssumption DEF CAInd, CATypeOK
<1>5. /\ caEntry' \in [CANets -> CAStored \cup {CANone}]
      /\ \A m \in CANets \ {n} : caEntry'[m] = caEntry[m]
      /\ caEntry'[n] # CANone => caEntry'[n] = caEntry[n] /\ caEntry[n].value # caTruth[n]
  BY <1>1, <1>3 DEF CAInd, CATypeOK
<1>6. /\ CATaints({n}) \subseteq CANets
      /\ \A m \in CANets \ {n} : m \in CATaints({n}) <=> m \in caTainted
      /\ \A d \in CACalls : caCall[d].pc \in {"reading", "answering"} /\ caCall[d].net = n
             => n \in CATaints({n})
  BY <1>3, CATaintsTheOvertaken
<1>7. CAEntriesAreExplained'
  BY <1>1, <1>2, <1>4, <1>5, <1>6 DEF CAInd, CAEntriesAreExplained
<1>8. /\ caCall' \in [CACalls -> CACall]
      /\ \A d \in CACalls :
            LET a == caCall[d]
                b == caCall'[d]
            IN  /\ b.pc = a.pc /\ b.net = a.net /\ b.began = a.began /\ b.readAt = a.readAt
                /\ b.value = a.value
                /\ b.old = a.old \/ a.net = n
  <2>1. {n} \in SUBSET CANets
    BY <1>3
  <2>2. \A d \in CACalls :
          LET a == caCall[d]
              b == CAOutdated({n})[d]
          IN  /\ b.pc = a.pc /\ b.net = a.net /\ b.began = a.began /\ b.readAt = a.readAt
              /\ b.value = a.value
              /\ b.old = a.old \/ a.net \in {n}
    BY <2>1, CAOutdatedMarks
  <2>3. CAOutdated({n}) \in [CACalls -> CACall]
    BY <2>1, CAOutdatedMarks
  <2> QED BY <1>1, <2>2, <2>3
<1>9. CACallsAreSound'
  <2> SUFFICES ASSUME NEW d \in CACalls PROVE CASound(caCall[d])'
    BY DEF CACallsAreSound
  <2>1. CASound(caCall[d])
    BY DEF CAInd, CACallsAreSound
  <2>2. caTainted \subseteq caTainted' /\ caClock' = caClock /\ caKind' = caKind
    BY <1>1, <1>2
  <2>3. /\ caCall'[d].pc = caCall[d].pc /\ caCall'[d].net = caCall[d].net
        /\ caCall'[d].began = caCall[d].began /\ caCall'[d].readAt = caCall[d].readAt
        /\ caCall'[d].value = caCall[d].value
        /\ caCall'[d].old = caCall[d].old \/ caCall[d].net = n
    BY <1>8
  <2>4. CASE caCall[d].net = n
    <3>1. caCall[d].pc \in {"reading", "answering"} => n \in caTainted'
      BY <1>1, <1>6, <2>4
    <3> QED BY <2>1, <2>2, <2>3, <2>4, <3>1 DEF CASound
  <2>5. CASE caCall[d].net # n
    <3>1. caCall[d].net \in CANets => caTruth'[caCall[d].net] = caTruth[caCall[d].net]
      BY <1>4, <2>5
    <3> QED BY <2>1, <2>2, <2>3, <2>5, <3>1 DEF CASound
  <2> QED BY <2>4, <2>5
<1>10. CATypeOK'
  BY <1>1, <1>2, <1>4, <1>5, <1>6, <1>8 DEF CAInd, CATypeOK
<1> QED BY <1>2, <1>7, <1>9, <1>10 DEF CAInd, CAStartsEmpty

\* A primed entry is true when it is stored.
LEMMA CAPrimePreserves ==
    ASSUME CAInd, CAPrime
    PROVE  CAInd'
<1>1. PICK n \in CAUsed :
        caEntry' = [caEntry EXCEPT ![n] = [value |-> caTruth[n], net |-> n, expires |-> caClock + CATtl,
                                           readAt |-> caClock, old |-> FALSE, created |-> 0]]
  BY DEF CAPrime
<1>2. caKind = "balance" /\ caKind # CANone /\ UNCHANGED <<caKind, caClock, caTruth, caCall, caPending, caTainted>>
  BY CANetsAssumption DEF CAPrime, Kinds
<1> DEFINE e == [value |-> caTruth[n], net |-> n, expires |-> caClock + CATtl,
                 readAt |-> caClock, old |-> FALSE, created |-> 0]
<1>3. n \in CANets /\ caTruth[n] \in 0..CAVersions /\ caClock \in 0..CAEnd /\ caClock + CATtl \in Nat
  BY CAUsedAreNets, CABoundsAssumption DEF CAInd, CATypeOK
<1>4. e \in CAStored /\ e.net = n /\ e.old = FALSE
  BY <1>3, CABoundsAssumption DEF CAStored
<1> HIDE DEF e
<1>5. /\ caEntry' \in [CANets -> CAStored \cup {CANone}]
      /\ \A m \in CANets : caEntry'[m] = IF m = n THEN e ELSE caEntry[m]
  BY <1>1, <1>4 DEF CAInd, CATypeOK, e
<1>6. CAEntriesAreExplained'
  BY <1>2, <1>4, <1>5 DEF CAInd, CAEntriesAreExplained
<1>7. CATypeOK' /\ CACallsAreSound'
  BY <1>2, <1>5 DEF CAInd, CATypeOK, CACallsAreSound, CASound
<1> QED BY <1>2, <1>6, <1>7 DEF CAInd, CAStartsEmpty

LEMMA CAInitInd == CAInit => CAInd
<1> SUFFICES ASSUME CAInit PROVE CAInd
  OBVIOUS
<1>1. CAIdle \in CACall /\ CAIdle.pc = "idle"
  BY CAIdleIsACall
<1>2. CATypeOK
  BY <1>1, CABoundsAssumption DEF CAInit, CATypeOK
<1> QED BY <1>1, <1>2 DEF CAInit, CAInd, CAStartsEmpty, CACallsAreSound, CASound, CAEntriesAreExplained

LEMMA CANextInd == CAInd /\ [CANext]_caVars => CAInd'
<1> SUFFICES ASSUME CAInd, [CANext]_caVars PROVE CAInd'
  OBVIOUS
<1>1. CASE CAConfigure
  <2>1. /\ caKind = CANone /\ caKind' \in Kinds
        /\ UNCHANGED <<caClock, caTruth, caEntry, caCall, caPending, caTainted>>
    BY <1>1 DEF CAConfigure
  <2>2. CATypeOK' /\ CACallsAreSound'
    BY <2>1 DEF CAInd, CATypeOK, CAStartsEmpty, CACallsAreSound, CASound
  <2> QED BY <2>1, <2>2, CANetsAssumption DEF CAInd, CAStartsEmpty, CAEntriesAreExplained
<1>2. CASE CACleanup
  <2>1. /\ caKind = "status"
        /\ caEntry' = [n \in CANets |-> IF caEntry[n] # CANone /\ caEntry[n].created >= caClock - CATtl
                                        THEN caEntry[n] ELSE CANone]
        /\ UNCHANGED <<caKind, caClock, caTruth, caCall, caPending, caTainted>>
    BY <1>2 DEF CACleanup
  <2>2. /\ caEntry' \in [CANets -> CAStored \cup {CANone}]
        /\ \A n \in CANets : caEntry'[n] = caEntry[n] \/ caEntry'[n] = CANone
    BY <2>1 DEF CAInd, CATypeOK
  <2>3. CAEntriesAreExplained'
    BY <2>1, <2>2, CADroppingExplains
  <2>4. CATypeOK' /\ CACallsAreSound' /\ CAStartsEmpty'
    BY <2>1, <2>2 DEF CAInd, CATypeOK, CACallsAreSound, CASound, CAStartsEmpty
  <2> QED BY <2>3, <2>4 DEF CAInd
<1>3. CASE CAChange
  <2>1. PICK n \in CAUsed : /\ caKind \notin {CANone, "authorization"}
                            /\ caTruth[n] < CAVersions
                            /\ caTruth' = [caTruth EXCEPT ![n] = @ + 1]
    BY <1>3 DEF CAChange
  <2>2. UNCHANGED <<caKind, caClock, caEntry, caCall, caPending, caTainted>>
    BY <1>3 DEF CAChange
  <2>3. CATypeOK'
    BY <2>1, <2>2, CAUsedAreNets, CABoundsAssumption DEF CAInd, CATypeOK
  <2> QED BY <2>1, <2>2, <2>3
          DEF CAInd, CAStartsEmpty, CACallsAreSound, CASound, CAEntriesAreExplained
<1>4. CASE CATick
  <2>1. /\ caClock < CAEnd /\ caClock' = caClock + 1
        /\ UNCHANGED <<caKind, caTruth, caEntry, caCall, caPending, caTainted>>
    BY <1>4 DEF CATick
  <2>2. CATypeOK'
    BY <2>1, CABoundsAssumption DEF CAInd, CATypeOK
  <2>3. CACallsAreSound'
    BY <2>1, CABoundsAssumption DEF CAInd, CATypeOK, CACall, CACallsAreSound, CASound
  <2> QED BY <2>1, <2>2, <2>3 DEF CAInd, CAStartsEmpty, CAEntriesAreExplained
<1>5. CASE UNCHANGED caVars
  BY <1>5 DEF caVars, CAInd, CATypeOK, CAStartsEmpty, CACallsAreSound, CASound, CAEntriesAreExplained
<1> QED BY <1>1, <1>2, <1>3, <1>4, <1>5, CAGetHitPreserves, CAGetMissPreserves, CASamplePreserves,
           CAAnswerPreserves, CAReturnPreserves, CAInvalidatePreserves, CARefreshPreserves,
           CARotatePreserves, CAPrimePreserves
        DEF CANext

\* In every cache, an entry belongs to the network it is kept for, is not served past
\* a lifetime counted from the call, and outlives an invalidation or a key rotation
\* only when a read was under way at the time.
THEOREM EntriesAreExplained == CASpec => []CAEntriesAreExplained
<1>1. CAInd => CAEntriesAreExplained
  BY DEF CAInd
<1> QED BY <1>1, CAInitInd, CANextInd, PTL DEF CASpec

-----------------------------------------------------------------------------
(* The wallet client. *)

\* What a suspended call carries: the account it was asked to act for.
WCCarries(pc, work, asked) ==
    /\ pc \in {"simulating", "signing", "submitting"} => work.from = asked
    /\ pc = "paying402" => asked \in {WCNone, WCSigner}
    /\ pc \in {"deploying", "resumingPolicy", "resumingMint", "resumingRevoke", "attaching", "minting",
               "revoking"} => work = asked /\ asked \in WCAccounts

WCCallsCarry == \A c \in WCCalls :
    /\ WCCarries(wcPc[c], wcWork[c], wcAsked[c])
    /\ wcPc[c] = "creating" => wcWork[c] \in WCAccounts
    /\ wcPc[c] = "rotating" => wcWork[c] \in wcOnChain

\* Effects belong to calls that have begun, and a call that is about to record has
\* attached.
WCEffectsHaveCalls ==
    /\ \A p \in wcPaid : p.call \in WCCalls /\ wcPc[p.call] # "idle"
    /\ \A c \in WCCalls : wcPc[c] = "recording" => \E x \in wcAttached : x.call = c

\* The kit has a wallet as soon as there is a session.
WCKitIsSet ==
    /\ wcSession # WCNone => wcKit # WCNone
    /\ \A c \in WCCalls : wcAsked[c] # WCNone \/ wcPc[c] \in {"creating", "rotating"} => wcKit # WCNone

\* Unless something stranded the kit: at most one create() or connect() is running;
\* the kit is on the session's wallet except while that one has moved it; and every
\* other running call that overlapped none acts for the present session.
WCKitFollows == ~wcStranded =>
    /\ \A c, d \in WCSwitching : c = d
    /\ WCSwitching = {} => wcKit = wcSession
    /\ \A c \in WCSwitching :
          wcKit = IF wcPc[c] \in {"ceremony", "connecting"} THEN wcSession ELSE wcWork[c]
    /\ \A c \in WCRunning \ WCSwitching :
          c \in wcOverlapped \/ (WCSwitching = {} /\ wcSession = wcAsked[c])

\* The inductive invariant of the wallet client.
WCInd == /\ WCTypeOK /\ WCCallsCarry /\ WCEffectsHaveCalls /\ WCKitIsSet /\ WCKitFollows
         /\ WCSessionIsDeployed /\ WCPaymentsComeFromTheSession /\ WCAttachesWhereBound

\* A running call that switches nothing finds the kit where it was asked to act.
LEMMA WCKitIsAsked ==
    ASSUME WCInd, NEW c \in WCRunning \ WCSwitching
    PROVE  wcKit = wcAsked[c] \/ c \in wcOverlapped \/ wcStranded
  BY DEF WCInd, WCKitFollows

\* A call that begins does what its state says and nothing to the others.
LEMMA WCBeginPreserves ==
    ASSUME WCInd, NEW c \in WCCalls, NEW where \in WCPcs \ {"idle", "creating", "rotating", "recording"},
           NEW work, WCBegin(c, where, work), WCCarries(where, work, wcSession)
    PROVE  WCInd'
<1>1. /\ wcPc[c] = "idle" /\ wcPc' = [wcPc EXCEPT ![c] = where]
      /\ wcWork' = [wcWork EXCEPT ![c] = work] /\ wcAsked' = [wcAsked EXCEPT ![c] = wcSession]
      /\ wcOverlapped' = IF where \in {"ceremony", "connecting"}
                         THEN wcOverlapped \cup WCRunning \cup {c}
                         ELSE IF WCSwitching # {} THEN wcOverlapped \cup {c} ELSE wcOverlapped
      /\ wcStranded' = \/ wcStranded
                       \/ where \in {"ceremony", "connecting"} /\ WCSwitching # {}
      /\ UNCHANGED <<wcSession, wcKit, wcOnChain, wcPaid, wcAttached, wcRecorded, wcAgents>>
  BY DEF WCBegin, WCMove, wcChain
<1>2. /\ wcPc'[c] = where /\ wcWork'[c] = work /\ wcAsked'[c] = wcSession
      /\ \A d \in WCCalls \ {c} : wcPc'[d] = wcPc[d] /\ wcWork'[d] = wcWork[d] /\ wcAsked'[d] = wcAsked[d]
      /\ wcPc' \in [WCCalls -> WCPcs] /\ wcAsked' \in [WCCalls -> WCAccounts \cup {WCNone}]
      /\ DOMAIN wcWork' = WCCalls
      /\ wcSession \in WCAccounts \cup {WCNone}
  BY <1>1 DEF WCInd, WCTypeOK
<1>3. /\ wcOverlapped \subseteq wcOverlapped' /\ wcOverlapped' \subseteq WCCalls
      /\ wcStranded => wcStranded' /\ wcStranded' \in BOOLEAN
  BY <1>1 DEF WCInd, WCTypeOK, WCRunning
<1>4. WCTypeOK'
  BY <1>1, <1>2, <1>3 DEF WCInd, WCTypeOK
<1>5. WCCallsCarry'
  BY <1>1, <1>2 DEF WCInd, WCCallsCarry, WCCarries
<1>6. WCEffectsHaveCalls'
  BY <1>1, <1>2 DEF WCInd, WCEffectsHaveCalls
<1>7. WCKitIsSet'
  BY <1>1, <1>2 DEF WCInd, WCKitIsSet
<1>8. WCSessionIsDeployed' /\ WCAttachesWhereBound'
  BY <1>1, <1>3 DEF WCInd, WCSessionIsDeployed, WCAttachesWhereBound
<1>9. WCPaymentsComeFromTheSession'
  BY <1>1, <1>2 DEF WCInd, WCPaymentsComeFromTheSession, WCEffectsHaveCalls
<1>10. WCKitFollows'
  <2>1. CASE where \in {"ceremony", "connecting"}
    <3>1. WCSwitching' = WCSwitching \cup {c}
      BY <1>2, <2>1 DEF WCSwitching
    <3>2. WCRunning' = WCRunning \cup {c}
      BY <1>2, <2>1 DEF WCRunning, WCEnded
    <3>3. wcOverlapped' = wcOverlapped \cup WCRunning'
      BY <1>1, <2>1, <3>2
    <3>4. ~wcStranded' => ~wcStranded /\ WCSwitching = {}
      BY <1>1, <2>1
    <3> QED BY <1>1, <1>2, <2>1, <3>1, <3>3, <3>4 DEF WCInd, WCKitFollows
  <2>2. CASE where \notin {"ceremony", "connecting"}
    <3>1. WCSwitching' = WCSwitching /\ c \notin WCSwitching
      BY <1>1, <1>2, <2>2 DEF WCSwitching
    <3>2. WCRunning' \subseteq WCRunning \cup {c} /\ WCSwitching \subseteq WCCalls
      BY <1>2 DEF WCRunning, WCSwitching
    <3>3. wcStranded' = wcStranded
      BY <1>1, <2>2 DEF WCInd, WCTypeOK
    <3>4. WCSwitching # {} => c \in wcOverlapped'
      BY <1>1, <2>2
    <3> QED BY <1>1, <1>2, <1>3, <3>1, <3>2, <3>3, <3>4 DEF WCInd, WCKitFollows, WCRunning
  <2> QED BY <2>1, <2>2
<1> QED BY <1>4, <1>5, <1>6, <1>7, <1>8, <1>9, <1>10 DEF WCInd

\* A refused call has done nothing.
LEMMA WCRefusePreserves ==
    ASSUME WCInd, NEW c \in WCCalls, WCRefuse(c)
    PROVE  WCInd'
<1>1. WCBegin(c, "threw", WCNone)
  BY DEF WCRefuse
<1>2. "threw" \in WCPcs \ {"idle", "creating", "rotating", "recording"}
  BY DEF WCPcs
<1>3. WCCarries("threw", WCNone, wcSession)
  BY DEF WCCarries
<1> QED BY <1>1, <1>2, <1>3, WCBeginPreserves

\* A step of a call that switches nothing: the session, the kit and the history stay,
\* and what it pays, attaches and mints is accounted for.
LEMMA WCStepPreserves ==
    ASSUME WCInd, NEW c \in WCRunning \ WCSwitching,
           NEW where \in WCPcs \ {"idle", "ceremony", "creating", "connecting", "rotating"},
           WCMove(c, where), UNCHANGED <<wcSession, wcKit, wcOnChain, wcHist>>,
           DOMAIN wcWork' = WCCalls, \A d \in WCCalls \ {c} : wcWork'[d] = wcWork[d],
           WCCarries(where, wcWork'[c], wcAsked[c]),
           \A p \in wcPaid' \ wcPaid :
               /\ p.call = c
               /\ p.from = wcAsked[c] \/ (p.to = WCNone /\ wcAsked[c] = WCNone),
           wcAttached \subseteq wcAttached',
           \A x \in wcAttached' \ wcAttached :
               /\ x.bound \in WCAccounts /\ x.wallet \in WCAccounts
               /\ x.wallet = x.bound \/ x.call \in wcOverlapped \/ wcStranded,
           where = "recording" => \E x \in wcAttached' : x.call = c,
           wcRecorded' \subseteq wcRecorded \cup {c},
           c \in wcRecorded' \ wcRecorded => \E x \in wcAttached : x.call = c,
           \A a \in wcAgents' \ wcAgents : a.wallet = a.asked \/ a.call \in wcOverlapped \/ wcStranded
    PROVE  WCInd'
<1>1. /\ UNCHANGED <<wcSession, wcKit, wcOnChain, wcAsked, wcOverlapped, wcStranded>>
      /\ wcPc' = [wcPc EXCEPT ![c] = where] /\ c \in WCCalls
      /\ wcPc[c] \notin {"idle", "ceremony", "creating", "connecting", "rotating"}
  BY DEF wcHist, WCMove, WCRunning, WCSwitching, WCEnded
<1>2. /\ wcPc'[c] = where /\ wcPc' \in [WCCalls -> WCPcs]
      /\ \A d \in WCCalls \ {c} : wcPc'[d] = wcPc[d]
  BY <1>1 DEF WCInd, WCTypeOK
<1>3. WCTypeOK'
  BY <1>1, <1>2 DEF WCInd, WCTypeOK
<1>4. WCCallsCarry'
  BY <1>1, <1>2 DEF WCInd, WCCallsCarry, WCCarries
<1>5. WCEffectsHaveCalls'
  BY <1>1, <1>2 DEF WCInd, WCEffectsHaveCalls
<1>6. WCKitIsSet'
  BY <1>1, <1>2 DEF WCInd, WCKitIsSet
<1>7. WCSwitching' = WCSwitching /\ WCRunning' \subseteq WCRunning
  BY <1>1, <1>2 DEF WCSwitching, WCRunning, WCEnded
<1>8. WCKitFollows'
  <2>1. \A d \in WCSwitching : wcPc'[d] = wcPc[d] /\ wcWork'[d] = wcWork[d]
    BY <1>2 DEF WCSwitching
  <2> QED BY <1>1, <1>7, <2>1 DEF WCInd, WCKitFollows
<1>9. WCSessionIsDeployed'
  BY <1>1 DEF WCInd, WCSessionIsDeployed
<1>10. WCPaymentsComeFromTheSession'
  BY <1>1 DEF WCInd, WCPaymentsComeFromTheSession
<1>11. WCAttachesWhereBound'
  BY <1>1 DEF WCInd, WCAttachesWhereBound
<1> QED BY <1>3, <1>4, <1>5, <1>6, <1>8, <1>9, <1>10, <1>11 DEF WCInd

\* create() and connect() move the kit, and then the session; when one of them fails
\* in between, the kit is stranded.
LEMMA WCSwitchPreserves ==
    ASSUME WCInd, NEW c \in WCCalls, WCCeremony(c) \/ WCCreated(c) \/ WCLookup(c) \/ WCConnected(c)
    PROVE  WCInd'
<1>1. /\ c \in WCSwitching
      /\ UNCHANGED <<wcPaid, wcAttached, wcRecorded, wcAgents, wcAsked, wcOverlapped>>
  BY DEF WCCeremony, WCCreated, WCLookup, WCConnected, WCSwitching, wcChain, wcHist
<1>2. \/ /\ wcPc[c] = "ceremony" /\ wcPc' = [wcPc EXCEPT ![c] = "creating"]
         /\ wcKit' \in WCAccounts /\ wcWork' = [wcWork EXCEPT ![c] = wcKit']
         /\ UNCHANGED <<wcSession, wcOnChain, wcStranded>>
      \/ /\ wcPc[c] = "connecting" /\ wcPc' = [wcPc EXCEPT ![c] = "rotating"]
         /\ wcKit' \in wcOnChain /\ wcWork' = [wcWork EXCEPT ![c] = wcKit']
         /\ UNCHANGED <<wcSession, wcOnChain, wcStranded>>
      \/ /\ wcPc[c] \in {"ceremony", "connecting"} /\ wcPc' = [wcPc EXCEPT ![c] = "threw"]
         /\ UNCHANGED <<wcKit, wcWork, wcSession, wcOnChain, wcStranded>>
      \/ /\ wcPc[c] = "creating" /\ wcPc' = [wcPc EXCEPT ![c] = "returned"]
         /\ wcOnChain' = wcOnChain \cup {wcWork[c]} /\ wcSession' = wcWork[c]
         /\ wcStranded' = wcStranded /\ UNCHANGED <<wcKit, wcWork>>
      \/ /\ wcPc[c] = "creating" /\ wcPc' = [wcPc EXCEPT ![c] = "threw"]
         /\ wcOnChain' \in {wcOnChain, wcOnChain \cup {wcWork[c]}} /\ wcStranded'
         /\ wcStranded' \in BOOLEAN /\ UNCHANGED <<wcSession, wcKit, wcWork>>
      \/ /\ wcPc[c] = "rotating" /\ wcPc' = [wcPc EXCEPT ![c] = "returned"]
         /\ wcSession' = wcWork[c] /\ UNCHANGED <<wcOnChain, wcKit, wcWork, wcStranded>>
  <2>1. CASE WCCeremony(c)
    BY <2>1 DEF WCCeremony, WCMove, wcChain, wcHist
  <2>2. CASE WCCreated(c)
    BY <2>2 DEF WCCreated, WCMove, Replies, WCInd, WCTypeOK
  <2>3. CASE WCLookup(c)
    BY <2>3 DEF WCLookup, WCMove, wcChain, wcHist
  <2>4. CASE WCConnected(c)
    BY <2>4 DEF WCConnected, WCMove, wcChain, wcHist
  <2> QED BY <2>1, <2>2, <2>3, <2>4
<1>3. /\ \A d \in WCCalls \ {c} : wcPc'[d] = wcPc[d] /\ wcWork'[d] = wcWork[d]
      /\ wcPc' \in [WCCalls -> WCPcs] /\ DOMAIN wcWork' = WCCalls
      /\ wcOnChain \subseteq wcOnChain' /\ (wcStranded => wcStranded') /\ wcStranded' \in BOOLEAN
  BY <1>2 DEF WCInd, WCTypeOK, WCPcs
<1>4. /\ wcPc[c] = "creating" => wcWork[c] \in WCAccounts
      /\ wcPc[c] = "rotating" => wcWork[c] \in wcOnChain
      /\ wcPc[c] \in {"creating", "rotating"} => wcKit # WCNone
      /\ wcOnChain \subseteq WCAccounts /\ WCNone \notin WCAccounts
  BY WCAccountsAssumption DEF WCInd, WCTypeOK, WCCallsCarry, WCKitIsSet
<1>5. WCTypeOK'
  BY <1>1, <1>2, <1>3, <1>4 DEF WCInd, WCTypeOK
<1>6. wcPc'[c] \in {"creating", "rotating", "threw", "returned"}
  BY <1>2 DEF WCInd, WCTypeOK
<1>7. WCCallsCarry'
  <2>1. /\ wcPc'[c] = "creating" => wcWork'[c] \in WCAccounts
        /\ wcPc'[c] = "rotating" => wcWork'[c] \in wcOnChain'
    BY <1>2, <1>3 DEF WCInd, WCTypeOK
  <2> QED BY <1>1, <1>3, <1>6, <2>1 DEF WCInd, WCCallsCarry, WCCarries
<1>8. WCEffectsHaveCalls'
  BY <1>1, <1>3, <1>6 DEF WCInd, WCEffectsHaveCalls
<1>9. /\ wcKit # WCNone => wcKit' # WCNone
      /\ wcPc'[c] \in {"creating", "rotating"} => wcKit' # WCNone
      /\ wcSession' # WCNone => wcKit' # WCNone
  BY <1>2, <1>4 DEF WCInd, WCTypeOK, WCKitIsSet
<1>10. WCKitIsSet'
  BY <1>1, <1>3, <1>9 DEF WCInd, WCKitIsSet
<1>11. WCSessionIsDeployed'
  BY <1>2, <1>4 DEF WCInd, WCSessionIsDeployed
<1>12. WCPaymentsComeFromTheSession' /\ WCAttachesWhereBound'
  BY <1>1, <1>3 DEF WCInd, WCPaymentsComeFromTheSession, WCAttachesWhereBound
<1>13. WCKitFollows'
  <2> SUFFICES ASSUME ~wcStranded' PROVE WCKitFollows'
    BY DEF WCKitFollows
  <2>1. /\ WCSwitching = {c} /\ WCRunning \ WCSwitching \subseteq wcOverlapped
        /\ wcKit = IF wcPc[c] \in {"ceremony", "connecting"} THEN wcSession ELSE wcWork[c]
    BY <1>1, <1>3 DEF WCInd, WCKitFollows
  <2>2. WCSwitching' = IF wcPc'[c] \in {"creating", "rotating"} THEN {c} ELSE {}
    BY <1>3, <1>6, <2>1 DEF WCSwitching
  <2>3. WCRunning' \ WCSwitching' \subseteq wcOverlapped'
    <3>1. WCRunning' \ {c} \subseteq WCRunning \ {c}
      BY <1>3 DEF WCRunning
    <3>2. c \in WCRunning' => c \in WCSwitching'
      BY <1>6, <2>2 DEF WCRunning, WCEnded
    <3> QED BY <1>1, <2>1, <3>1, <3>2
  <2>4. CASE wcPc'[c] \in {"creating", "rotating"}
    <3>1. wcKit' = wcWork'[c] /\ wcPc'[c] \notin {"ceremony", "connecting"}
      BY <1>2, <2>4 DEF WCInd, WCTypeOK
    <3> QED BY <2>2, <2>3, <2>4, <3>1 DEF WCKitFollows
  <2>5. CASE wcPc'[c] \notin {"creating", "rotating"}
    <3>1. wcKit' = wcSession'
      BY <1>2, <2>1, <2>5 DEF WCInd, WCTypeOK
    <3> QED BY <2>2, <2>3, <2>5, <3>1 DEF WCKitFollows
  <2> QED BY <2>4, <2>5
<1> QED BY <1>5, <1>7, <1>8, <1>10, <1>11, <1>12, <1>13 DEF WCInd

\* The calls that begin.
LEMMA WCBeginningsPreserve ==
    ASSUME WCInd, NEW c \in WCCalls,
           \/ WCCreate(c) \/ WCConnect(c) \/ WCPay(c) \/ WCPolicyRead(c) \/ WCDeploy(c)
           \/ WCMint(c) \/ WCRevoke(c) \/ WCX402(c)
    PROVE  WCInd'
<1>0. wcSession # WCNone => wcSession \in WCAccounts
  BY DEF WCInd, WCTypeOK
<1>1. CASE WCRefuse(c)
  BY <1>1, WCRefusePreserves
<1>2. CASE \E where \in {"ceremony", "connecting", "reading"} : \E work : WCBegin(c, where, work)
  <2>0. PICK where \in {"ceremony", "connecting", "reading"} : \E work : WCBegin(c, where, work)
    BY <1>2
  <2>1. PICK work : WCBegin(c, where, work)
    BY <2>0
  <2>2. where \in WCPcs \ {"idle", "creating", "rotating", "recording"}
    BY DEF WCPcs
  <2>3. WCCarries(where, work, wcSession)
    BY DEF WCCarries
  <2> QED BY <2>1, <2>2, <2>3, WCBeginPreserves
<1>3. CASE WCPay(c)
  <2>1. CASE \E p \in WCPayments :
               WCBegin(c, "simulating", [from |-> wcSession, to |-> p.to, amount |-> p.amount])
    <3>1. PICK p \in WCPayments :
               WCBegin(c, "simulating", [from |-> wcSession, to |-> p.to, amount |-> p.amount])
      BY <2>1
    <3>2. "simulating" \in WCPcs \ {"idle", "creating", "rotating", "recording"}
      BY DEF WCPcs
    <3>3. WCCarries("simulating", [from |-> wcSession, to |-> p.to, amount |-> p.amount], wcSession)
      BY DEF WCCarries
    <3> QED BY <3>1, <3>2, <3>3, WCBeginPreserves
  <2> QED BY <1>1, <1>3, <2>1 DEF WCPay
<1>4. CASE \E where \in {"deploying", "resumingMint", "resumingRevoke"} :
             WCBegin(c, where, wcSession) /\ wcSession # WCNone
  <2>1. PICK where \in {"deploying", "resumingMint", "resumingRevoke"} : WCBegin(c, where, wcSession)
    BY <1>4
  <2>2. where \in WCPcs \ {"idle", "creating", "rotating", "recording"}
    BY DEF WCPcs
  <2>3. WCCarries(where, wcSession, wcSession)
    BY <1>0, <1>4 DEF WCCarries
  <2> QED BY <2>1, <2>2, <2>3, WCBeginPreserves
<1>5. CASE WCX402(c)
  <2>1. CASE wcSession \in {WCNone, WCSigner} /\ WCBegin(c, "paying402", wcSession)
    <3>1. "paying402" \in WCPcs \ {"idle", "creating", "rotating", "recording"}
      BY DEF WCPcs
    <3>2. WCCarries("paying402", wcSession, wcSession)
      BY <2>1 DEF WCCarries
    <3> QED BY <2>1, <3>1, <3>2, WCBeginPreserves
  <2> QED BY <1>1, <1>5, <2>1 DEF WCX402
<1>6. CASE WCCreate(c) \/ WCConnect(c) \/ WCPolicyRead(c)
  BY <1>1, <1>2, <1>6 DEF WCCreate, WCConnect, WCPolicyRead
<1>7. CASE WCDeploy(c) \/ WCMint(c) \/ WCRevoke(c)
  BY <1>1, <1>4, <1>7 DEF WCDeploy, WCMint, WCRevoke
<1> QED BY <1>3, <1>5, <1>6, <1>7

\* A step with no effect outside the call.
LEMMA WCQuietStepPreserves ==
    ASSUME WCInd, NEW c \in WCRunning \ WCSwitching,
           NEW where \in WCPcs \ {"idle", "ceremony", "creating", "connecting", "rotating", "recording"},
           WCMove(c, where), UNCHANGED <<wcSession, wcKit, wcChain, wcHist>>,
           DOMAIN wcWork' = WCCalls, \A d \in WCCalls \ {c} : wcWork'[d] = wcWork[d],
           WCCarries(where, wcWork'[c], wcAsked[c])
    PROVE  WCInd'
<1>1. UNCHANGED <<wcSession, wcKit, wcOnChain, wcHist, wcPaid, wcAttached, wcRecorded, wcAgents>>
  BY DEF wcChain
<1> QED BY <1>1, WCStepPreserves

\* The other steps of the calls, one case for each await.
LEMMA WCStepsPreserve ==
    ASSUME WCInd, NEW c \in WCCalls,
           \/ WCSimulated(c) \/ WCSigned(c) \/ WCSubmitted(c) \/ WCPolicyAnswer(c) \/ WCInstance(c)
           \/ WCResume(c) \/ WCAttach(c) \/ WCRecord(c) \/ WCMinted(c) \/ WCRevoked(c) \/ WCX402Done(c)
    PROVE  WCInd'
<1>1. c \in WCRunning \ WCSwitching
  BY DEF WCSimulated, WCSigned, WCSubmitted, WCPolicyAnswer, WCInstance, WCResume, WCAttach, WCRecord,
         WCMinted, WCRevoked, WCX402Done, WCRunning, WCSwitching, WCEnded
<1>2. DOMAIN wcWork = WCCalls /\ WCCarries(wcPc[c], wcWork[c], wcAsked[c])
  BY DEF WCInd, WCTypeOK, WCCallsCarry
<1>3. /\ wcKit = wcAsked[c] \/ c \in wcOverlapped \/ wcStranded
      /\ wcAsked[c] \in WCAccounts => wcKit \in WCAccounts
  <2>1. wcKit = wcAsked[c] \/ c \in wcOverlapped \/ wcStranded
    BY <1>1, WCKitIsAsked
  <2>2. wcAsked[c] \in WCAccounts => wcKit \in WCAccounts
    BY WCAccountsAssumption DEF WCInd, WCTypeOK, WCKitIsSet
  <2> QED BY <2>1, <2>2
<1>4. {"threw", "returned", "recording", "signing", "submitting", "resumingPolicy", "attaching",
       "minting", "revoking"} \subseteq WCPcs \ {"idle", "ceremony", "creating", "connecting", "rotating"}
  BY DEF WCPcs
<1>5. \A w : WCCarries("threw", w, wcAsked[c]) /\ WCCarries("returned", w, wcAsked[c])
             /\ WCCarries("recording", w, wcAsked[c])
  BY DEF WCCarries
<1>6. CASE WCSimulated(c) \/ WCPolicyAnswer(c) \/ WCInstance(c)
  <2>1. PICK where \in {"signing", "threw", "returned", "resumingPolicy"} :
          /\ WCMove(c, where)
          /\ \/ wcPc[c] = "simulating" /\ where \in {"signing", "threw"}
             \/ wcPc[c] = "deploying" /\ where \in {"resumingPolicy", "threw"}
             \/ where \in {"returned", "threw"}
    BY <1>6 DEF WCSimulated, WCPolicyAnswer, WCInstance, Replies
  <2>2. UNCHANGED <<wcSession, wcKit, wcChain, wcWork, wcHist>>
    BY <1>6 DEF WCSimulated, WCPolicyAnswer, WCInstance
  <2>3. WCCarries(where, wcWork'[c], wcAsked[c])
    BY <1>2, <1>5, <2>1, <2>2 DEF WCCarries
  <2> QED BY <1>1, <1>2, <1>4, <2>1, <2>2, <2>3, WCQuietStepPreserves
<1>7. CASE WCSigned(c)
  <2>1. CASE /\ wcWork' = [wcWork EXCEPT ![c] = [from |-> wcWork[c].from, to |-> wcWork[c].to,
                                                 amount |-> wcWork[c].amount, signedBy |-> wcKit]]
             /\ WCMove(c, "submitting")
    <3>1. WCCarries("submitting", wcWork'[c], wcAsked[c])
      BY <1>1, <1>2, <1>7, <2>1 DEF WCCarries, WCSigned, WCRunning
    <3>2. DOMAIN wcWork' = WCCalls /\ \A d \in WCCalls \ {c} : wcWork'[d] = wcWork[d]
      BY <1>2, <2>1
    <3> QED BY <1>1, <1>4, <1>7, <2>1, <3>1, <3>2, WCQuietStepPreserves DEF WCSigned
  <2>2. CASE WCMove(c, "threw") /\ UNCHANGED wcWork
    BY <1>1, <1>2, <1>4, <1>5, <1>7, <2>2, WCQuietStepPreserves DEF WCSigned
  <2> QED BY <1>7, <2>1, <2>2 DEF WCSigned
<1>8. CASE WCResume(c)
  <2>1. /\ wcPc[c] \in {"resumingPolicy", "resumingMint", "resumingRevoke"}
        /\ UNCHANGED <<wcSession, wcChain, wcWork, wcHist>>
    BY <1>8 DEF WCResume
  <2>2. wcKit' = wcKit
    BY <1>2, <1>3, <1>8, <2>1, WCAccountsAssumption DEF WCResume, WCCarries
  <2>3. PICK where \in {"attaching", "minting", "revoking"} : WCMove(c, where)
    BY <1>8 DEF WCResume
  <2>4. WCCarries(where, wcWork'[c], wcAsked[c])
    BY <1>2, <2>1 DEF WCCarries
  <2> QED BY <1>1, <1>2, <1>4, <2>1, <2>2, <2>3, <2>4, WCQuietStepPreserves
<1>9. CASE WCSubmitted(c)
  <2>1. PICK where \in {"returned", "threw"} :
          /\ WCMove(c, where)
          /\ wcPaid' \subseteq wcPaid \cup {[call |-> c, from |-> wcWork[c].from, to |-> wcWork[c].to]}
    BY <1>9 DEF WCSubmitted
  <2>2. UNCHANGED <<wcSession, wcKit, wcOnChain, wcAttached, wcRecorded, wcAgents, wcWork, wcHist>>
    BY <1>9 DEF WCSubmitted
  <2>3. wcWork[c].from = wcAsked[c]
    BY <1>2, <1>9 DEF WCSubmitted, WCCarries
  <2>4. \A p \in wcPaid' \ wcPaid : p.call = c /\ p.from = wcAsked[c]
    BY <2>1, <2>3
  <2> QED BY <1>1, <1>2, <1>4, <1>5, <2>1, <2>2, <2>4, WCStepPreserves
<1>10. CASE WCX402Done(c)
  <2>1. PICK where \in {"returned", "threw"} :
          /\ WCMove(c, where)
          /\ wcPaid' \subseteq wcPaid \cup {[call |-> c, from |-> WCSigner, to |-> WCNone]}
    BY <1>10 DEF WCX402Done
  <2>2. UNCHANGED <<wcSession, wcKit, wcOnChain, wcAttached, wcRecorded, wcAgents, wcWork, wcHist>>
    BY <1>10 DEF WCX402Done
  <2>3. wcAsked[c] \in {WCNone, WCSigner}
    BY <1>2, <1>10 DEF WCX402Done, WCCarries
  <2>4. \A p \in wcPaid' \ wcPaid :
          p.call = c /\ (p.from = wcAsked[c] \/ (p.to = WCNone /\ wcAsked[c] = WCNone))
    BY <2>1, <2>3
  <2> QED BY <1>1, <1>2, <1>4, <1>5, <2>1, <2>2, <2>4, WCStepPreserves
<1>11. CASE WCAttach(c)
  <2> DEFINE x == [call |-> c, bound |-> wcAsked[c], wallet |-> wcKit]
  <2>1. PICK where \in {"recording", "threw"} :
          /\ WCMove(c, where)
          /\ wcAttached' = wcAttached \cup {x} \/ (wcAttached' = wcAttached /\ where = "threw")
    BY <1>11 DEF WCAttach, Replies
  <2>2. UNCHANGED <<wcSession, wcKit, wcOnChain, wcPaid, wcRecorded, wcAgents, wcWork, wcHist>>
    BY <1>11 DEF WCAttach
  <2>3. wcAsked[c] \in WCAccounts
    BY <1>2, <1>11 DEF WCAttach, WCCarries
  <2>4. /\ x.call = c /\ x.bound \in WCAccounts /\ x.wallet \in WCAccounts
        /\ x.wallet = x.bound \/ x.call \in wcOverlapped \/ wcStranded
    BY <1>3, <2>3
  <2> HIDE DEF x
  <2>5. where = "recording" => \E y \in wcAttached' : y.call = c
    BY <2>1, <2>4
  <2> QED BY <1>1, <1>2, <1>4, <1>5, <2>1, <2>2, <2>4, <2>5, WCStepPreserves
<1>12. CASE WCRecord(c)
  <2>1. PICK where \in {"returned", "threw"} : WCMove(c, where) /\ wcRecorded' \subseteq wcRecorded \cup {c}
    BY <1>12 DEF WCRecord
  <2>2. UNCHANGED <<wcSession, wcKit, wcOnChain, wcPaid, wcAttached, wcAgents, wcWork, wcHist>>
    BY <1>12 DEF WCRecord
  <2>3. \E x \in wcAttached : x.call = c
    BY <1>12 DEF WCRecord, WCInd, WCEffectsHaveCalls
  <2> QED BY <1>1, <1>2, <1>4, <1>5, <2>1, <2>2, <2>3, WCStepPreserves
<1>13. CASE WCMinted(c) \/ WCRevoked(c)
  <2> DEFINE a == [call |-> c, asked |-> wcAsked[c], wallet |-> wcKit]
  <2>1. PICK where \in {"returned", "threw"} : WCMove(c, where) /\ wcAgents' \subseteq wcAgents \cup {a}
    BY <1>13 DEF WCMinted, WCRevoked
  <2>2. UNCHANGED <<wcSession, wcKit, wcOnChain, wcPaid, wcAttached, wcRecorded, wcWork, wcHist>>
    BY <1>13 DEF WCMinted, WCRevoked
  <2>3. a.wallet = a.asked \/ a.call \in wcOverlapped \/ wcStranded
    BY <1>3
  <2> HIDE DEF a
  <2> QED BY <1>1, <1>2, <1>4, <1>5, <2>1, <2>2, <2>3, WCStepPreserves
<1> QED BY <1>6, <1>7, <1>8, <1>9, <1>10, <1>11, <1>12, <1>13

LEMMA WCInitInd == WCInit => WCInd
<1> SUFFICES ASSUME WCInit PROVE WCInd
  OBVIOUS
<1>1. WCTypeOK
  BY WCAccountsAssumption DEF WCInit, WCTypeOK, WCPcs
<1>2. WCCallsCarry /\ WCEffectsHaveCalls /\ WCKitIsSet
  BY DEF WCInit, WCCallsCarry, WCCarries, WCEffectsHaveCalls, WCKitIsSet
<1>3. WCKitFollows
  BY DEF WCInit, WCKitFollows, WCSwitching, WCRunning, WCEnded
<1> QED BY <1>1, <1>2, <1>3
        DEF WCInit, WCInd, WCSessionIsDeployed, WCPaymentsComeFromTheSession, WCAttachesWhereBound

LEMMA WCNextInd == WCInd /\ [WCNext]_wcVars => WCInd'
<1> SUFFICES ASSUME WCInd, [WCNext]_wcVars PROVE WCInd'
  OBVIOUS
<1>1. CASE UNCHANGED wcVars
  BY <1>1 DEF wcVars, WCInd, WCTypeOK, WCCallsCarry, WCCarries, WCEffectsHaveCalls, WCKitIsSet,
              WCKitFollows, WCSwitching, WCRunning, WCSessionIsDeployed, WCPaymentsComeFromTheSession,
              WCAttachesWhereBound
<1> QED BY <1>1, WCSwitchPreserves, WCBeginningsPreserve, WCStepsPreserve DEF WCNext

\* The client acts for the account the caller meant, however create(), connect(),
\* payments, deployments and mints interleave, fail and lose their answers: sessions
\* are of deployed accounts, payments come from the session's account of the time,
\* and only an overlap or a stranded kit puts a policy or a key on another wallet.
THEOREM ActsForTheSession == WCSpec => []WCActsForTheSession
<1>1. WCInd => WCActsForTheSession
  BY DEF WCInd, WCActsForTheSession
<1> QED BY <1>1, WCInitInd, WCNextInd, PTL DEF WCSpec

-----------------------------------------------------------------------------
(* Policy deployments. *)

PDIsUndone(j, s) == \E i \in DOMAIN pdUndone[j] : pdUndone[j][i].step = s

PDIsReported(j, s) == \E i \in DOMAIN pdUndone[j] : pdUndone[j][i] = [step |-> s, ok |-> FALSE]

\* A job that has not begun has had no effect.
PDPendingIsClean(j) == pdPc[j] \in {"idle", "queued", "refused"} =>
    /\ pdKnown[j] = {} /\ pdUndone[j] = <<>> /\ pdError[j] = PDNone /\ pdPrompts[j] = 0
    /\ \A s \in Steps : pdEffect[j][s] = 0

\* The plain and the resumable saga: what is known to be attached is, once, and the
\* record comes after.
PDForwardIsSound(j) == pdKind[j] # "rollback" =>
    /\ pdPc[j] \notin {"generate", "simulate", "undo"}
    /\ pdPc[j] \in {"instance", "attach"} =>
           pdEffect[j]["attach"] = 0 /\ pdEffect[j]["record"] = 0 /\ pdPrompts[j] = 0
    /\ "attach" \in pdKnown[j] => pdEffect[j]["attach"] = 1
    /\ pdPc[j] \in {"record", "done"} => "attach" \in pdKnown[j]
    /\ pdPc[j] = "done" => pdEffect[j]["record"] >= 1
    /\ pdEffect[j]["record"] >= 1 => "attach" \in pdKnown[j]
    /\ pdPrompts[j] <= 1
    /\ pdError[j] # PDNone /\ "attach" \in pdError[j] => "attach" \in pdKnown[j]

\* The rollback saga: what it knows of stands until it is undone, in reverse order.
PDBackwardIsSound(j) == pdKind[j] = "rollback" =>
    /\ pdPc[j] # "attach" /\ "attach" \notin pdKnown[j]
    /\ pdError[j] # PDNone => "attach" \notin pdError[j]
    /\ pdPc[j] = "generate" => pdEffect[j]["generate"] = 0
    /\ pdPc[j] \in {"generate", "simulate", "instance"} =>
           "instance" \notin pdKnown[j] /\ pdEffect[j]["instance"] = 0
    /\ pdPc[j] \notin {"undo", "threw"} => pdUndone[j] = <<>>
    /\ \A s \in {"generate", "instance"} : s \in pdKnown[j] =>
           IF PDIsUndone(j, s) THEN pdEffect[j][s] = 0 \/ PDIsReported(j, s) ELSE pdEffect[j][s] = 1
    /\ PDIsUndone(j, "generate") /\ "instance" \in pdKnown[j] => PDIsUndone(j, "instance")
    /\ pdPc[j] = "threw" => \A s \in {"generate", "instance"} : s \in pdKnown[j] => PDIsUndone(j, s)

PDJobIsSound(j) == PDPendingIsClean(j) /\ PDForwardIsSound(j) /\ PDBackwardIsSound(j)

\* The queue: settled jobs, at most one that runs, then the waiting ones.
PDQueueIsSound ==
    /\ \A n \in 1..Len(pdQueue) :
          /\ n <= pdLast => pdPc[pdQueue[n]] \in {"done", "threw"}
          /\ n = pdLast + 1 => pdPc[pdQueue[n]] \notin PDEnded
          /\ n > pdLast + 1 => pdPc[pdQueue[n]] = "queued"
    /\ \A j \in PDJobs : pdPc[j] \notin {"idle", "refused"} => \E n \in 1..Len(pdQueue) : pdQueue[n] = j
    /\ ~pdAlarm

\* The inductive invariant of the deployments.
PDInd == PDTyped /\ PDQueueIsSound /\ \A j \in PDJobs : PDJobIsSound(j)

\* The sequence number of a job is its place in the queue.
LEMMA PDSequenceIsThePlace ==
    ASSUME PDInd, NEW n \in 1..Len(pdQueue)
    PROVE  PDSequence(pdQueue[n]) = n
<1>1. DOMAIN pdQueue = 1..Len(pdQueue)
  BY DEF PDInd, PDTyped
<1>2. \A m \in DOMAIN pdQueue : pdQueue[m] = pdQueue[n] => m = n
  BY <1>1 DEF PDInd, PDTyped, IsInjective
<1> QED BY <1>1, <1>2 DEF PDSequence

\* The job that runs is the one after the last that completed.
LEMMA PDRunningIsNext ==
    ASSUME PDInd, NEW j \in PDJobs, pdPc[j] \notin PDEnded \cup {"queued"}
    PROVE  /\ pdLast + 1 \in 1..Len(pdQueue) /\ pdQueue[pdLast + 1] = j
           /\ PDSequence(j) = pdLast + 1
<1>1. PICK n \in 1..Len(pdQueue) : pdQueue[n] = j
  BY DEF PDInd, PDQueueIsSound, PDEnded
<1>2. pdLast \in Nat /\ Len(pdQueue) \in Nat
  BY DEF PDInd, PDTyped
<1>3. n = pdLast + 1
  BY <1>1, <1>2 DEF PDInd, PDQueueIsSound, PDEnded
<1> QED BY <1>1, <1>3, PDSequenceIsThePlace

\* A step of one job leaves the others sound.
LEMMA PDOthersStaySound ==
    ASSUME PDInd, NEW j \in PDJobs,
           \A d \in PDJobs \ {j} :
              /\ pdPc'[d] = pdPc[d] /\ pdKind'[d] = pdKind[d] /\ pdKnown'[d] = pdKnown[d]
              /\ pdEffect'[d] = pdEffect[d] /\ pdUndone'[d] = pdUndone[d] /\ pdError'[d] = pdError[d]
              /\ pdPrompts'[d] = pdPrompts[d],
           PDJobIsSound(j)'
    PROVE  \A d \in PDJobs : PDJobIsSound(d)'
<1> SUFFICES ASSUME NEW d \in PDJobs \ {j} PROVE PDJobIsSound(d)'
  OBVIOUS
<1>1. PDJobIsSound(d)
  BY DEF PDInd
<1> QED BY <1>1 DEF PDJobIsSound, PDPendingIsClean, PDForwardIsSound, PDBackwardIsSound,
                    PDIsUndone, PDIsReported

\* The queue stays sound when the running job goes on ...
LEMMA PDGoingOnKeepsTheQueue ==
    ASSUME PDInd, NEW j \in PDJobs, pdPc[j] \notin PDEnded \cup {"queued"},
           NEW where \in Steps \cup {"undo"}, PDMove(j, where), UNCHANGED <<pdQueue, pdLast, pdAlarm>>
    PROVE  PDQueueIsSound'
<1>1. pdQueue[pdLast + 1] = j /\ pdLast \in Nat /\ pdQueue \in Seq(PDJobs) /\ Len(pdQueue) \in Nat
  BY PDRunningIsNext DEF PDInd, PDTyped
<1>2. pdPc'[j] = where /\ \A d \in PDJobs \ {j} : pdPc'[d] = pdPc[d]
  BY DEF PDMove, PDInd, PDTyped
<1>3. where \notin PDEnded \cup {"queued"}
  BY DEF PDEnded, Steps
<1>4. \A n \in 1..Len(pdQueue) : pdQueue[n] = j => n = pdLast + 1
  BY <1>1, PDSequenceIsThePlace, PDRunningIsNext
<1>5. \A n \in 1..Len(pdQueue) : pdQueue[n] \in PDJobs
  BY <1>1
<1>6. /\ \A n \in 1..Len(pdQueue) :
            /\ n <= pdLast => pdPc[pdQueue[n]] \in {"done", "threw"}
            /\ n = pdLast + 1 => pdPc[pdQueue[n]] \notin PDEnded
            /\ n > pdLast + 1 => pdPc[pdQueue[n]] = "queued"
      /\ \A d \in PDJobs : pdPc[d] \notin {"idle", "refused"} => \E n \in 1..Len(pdQueue) : pdQueue[n] = d
      /\ ~pdAlarm'
  BY DEF PDInd, PDQueueIsSound
<1>7. \A n \in 1..Len(pdQueue) :
        /\ n <= pdLast => pdPc'[pdQueue[n]] \in {"done", "threw"}
        /\ n = pdLast + 1 => pdPc'[pdQueue[n]] \notin PDEnded
        /\ n > pdLast + 1 => pdPc'[pdQueue[n]] = "queued"
  BY ONLY <1>1, <1>2, <1>3, <1>4, <1>5, <1>6
<1>8. \A d \in PDJobs : pdPc'[d] \notin {"idle", "refused"} => \E n \in 1..Len(pdQueue) : pdQueue[n] = d
  <2> SUFFICES ASSUME NEW d \in PDJobs, pdPc'[d] \notin {"idle", "refused"}
               PROVE  \E n \in 1..Len(pdQueue) : pdQueue[n] = d
    OBVIOUS
  <2>1. CASE d = j
    BY <1>6, <2>1 DEF PDEnded
  <2>2. CASE d # j
    BY <1>2, <1>6, <2>2
  <2> QED BY <2>1, <2>2
<1> QED BY ONLY <1>6, <1>7, <1>8, UNCHANGED <<pdQueue, pdLast, pdAlarm>> DEF PDQueueIsSound

\* ... and when it ends.
LEMMA PDFinishKeepsTheQueue ==
    ASSUME PDInd, NEW j \in PDJobs, pdPc[j] \notin PDEnded \cup {"queued"},
           NEW how \in {"done", "threw"}, PDFinish(j, how), UNCHANGED <<pdQueue, pdAlarm>>
    PROVE  PDQueueIsSound' /\ pdLast' \in 0..Len(pdQueue')
<1>1. /\ pdLast + 1 \in 1..Len(pdQueue) /\ pdQueue[pdLast + 1] = j /\ PDSequence(j) = pdLast + 1
      /\ pdLast \in Nat /\ pdQueue \in Seq(PDJobs) /\ Len(pdQueue) \in Nat
  BY PDRunningIsNext DEF PDInd, PDTyped
<1>2. pdLast' = pdLast + 1 /\ pdPc'[j] = how /\ \A d \in PDJobs \ {j} : pdPc'[d] = pdPc[d]
  BY <1>1 DEF PDFinish, PDMove, PDInd, PDTyped
<1>3. \A n \in 1..Len(pdQueue) : pdQueue[n] \in PDJobs /\ (pdQueue[n] = j => n = pdLast + 1)
  BY <1>1, PDSequenceIsThePlace
<1>4. \A n \in 1..Len(pdQueue) :
        /\ n <= pdLast + 1 => pdPc'[pdQueue[n]] \in {"done", "threw"}
        /\ n > pdLast + 1 => pdPc'[pdQueue[n]] = "queued"
  BY <1>1, <1>2, <1>3 DEF PDInd, PDQueueIsSound
<1>5. \A d \in PDJobs : pdPc'[d] \notin {"idle", "refused"} => \E n \in 1..Len(pdQueue) : pdQueue[n] = d
  BY <1>1, <1>2 DEF PDInd, PDQueueIsSound
<1> QED BY <1>1, <1>2, <1>4, <1>5 DEF PDInd, PDQueueIsSound, PDEnded

\* A job is asked for: refused, or put at the end of the queue.
LEMMA PDSubmitPreserves ==
    ASSUME PDInd, NEW j \in PDJobs, PDSubmit(j)
    PROVE  PDInd'
<1>1. PICK kind \in {"plain", "resumable", "rollback"} :
        /\ \/ pdQueue' = Append(pdQueue, j) /\ PDMove(j, "queued")
           \/ PDMove(j, "refused") /\ UNCHANGED pdQueue
        /\ pdKind' = [pdKind EXCEPT ![j] = kind]
  BY DEF PDSubmit
<1>2. /\ pdPc[j] = "idle"
      /\ UNCHANGED <<pdLast, pdAlarm, pdTry, pdKnown, pdEffect, pdUndone, pdError, pdPrompts>>
  BY DEF PDSubmit
<1>3. /\ pdQueue \in Seq(PDJobs) /\ Len(pdQueue) \in Nat /\ pdLast \in 0..Len(pdQueue)
      /\ \A n \in 1..Len(pdQueue) : pdQueue[n] \in PDJobs \ {j}
  <2>1. /\ pdQueue \in Seq(PDJobs) /\ Len(pdQueue) \in Nat /\ pdLast \in 0..Len(pdQueue)
        /\ pdLast \in Nat
    BY DEF PDInd, PDTyped
  <2>2. ASSUME NEW n \in 1..Len(pdQueue) PROVE pdQueue[n] \in PDJobs \ {j}
    <3>1. pdQueue[n] \in PDJobs /\ n \in Nat
      BY <2>1
    <3>2. n <= pdLast \/ n = pdLast + 1 \/ n > pdLast + 1
      BY <2>1, <3>1
    <3>3. pdPc[pdQueue[n]] # "idle"
      BY <3>2 DEF PDInd, PDQueueIsSound, PDEnded
    <3> QED BY <1>2, <3>1, <3>3
  <2> QED BY <2>1, <2>2
<1>4. /\ pdPc'[j] \in {"queued", "refused"} /\ pdKind'[j] = kind
      /\ pdPc' \in [PDJobs -> PDEnded \cup Steps \cup {"queued", "undo"}]
      /\ pdKind' \in [PDJobs -> {"plain", "resumable", "rollback"}]
      /\ \A d \in PDJobs \ {j} : pdPc'[d] = pdPc[d] /\ pdKind'[d] = pdKind[d]
  <2>1. /\ pdKind'[j] = kind /\ pdKind' \in [PDJobs -> {"plain", "resumable", "rollback"}]
        /\ \A d \in PDJobs \ {j} : pdKind'[d] = pdKind[d]
    BY <1>1 DEF PDInd, PDTyped
  <2>2. PICK where \in {"queued", "refused"} : PDMove(j, where)
    BY <1>1
  <2>3. where \in PDEnded \cup Steps \cup {"queued", "undo"}
    BY DEF PDEnded
  <2>4. /\ pdPc'[j] = where /\ pdPc' \in [PDJobs -> PDEnded \cup Steps \cup {"queued", "undo"}]
        /\ \A d \in PDJobs \ {j} : pdPc'[d] = pdPc[d]
    BY <2>2, <2>3 DEF PDMove, PDInd, PDTyped
  <2> QED BY <2>1, <2>4
<1>5. PDJobIsSound(j)'
  <2>1. PDPendingIsClean(j)
    BY DEF PDInd, PDJobIsSound
  <2> QED BY <1>2, <1>4, <2>1
          DEF PDJobIsSound, PDPendingIsClean, PDForwardIsSound, PDBackwardIsSound, PDIsUndone, Steps
<1>6. \A d \in PDJobs : PDJobIsSound(d)'
  BY <1>2, <1>4, <1>5, PDOthersStaySound
<1>7. PDTyped' /\ PDQueueIsSound'
  <2>1. CASE pdQueue' = Append(pdQueue, j) /\ PDMove(j, "queued")
    <3> DEFINE n == Len(pdQueue)
    <3>1. /\ pdQueue' \in Seq(PDJobs) /\ Len(pdQueue') = n + 1 /\ pdQueue'[n + 1] = j
          /\ \A i \in 1..n : pdQueue'[i] = pdQueue[i]
      BY <1>3, <2>1
    <3>2. DOMAIN pdQueue' = 1..(n + 1) /\ DOMAIN pdQueue = 1..n
      BY <1>3, <3>1
    <3> HIDE DEF n
    <3>3. IsInjective(pdQueue')
      <4> SUFFICES ASSUME NEW a \in 1..(n + 1), NEW b \in 1..(n + 1), pdQueue'[a] = pdQueue'[b]
                   PROVE  a = b
        BY <3>2 DEF IsInjective
      <4>1. n \in Nat /\ \A i \in 1..n : pdQueue'[i] # j
        BY <1>3, <3>1 DEF n
      <4>2. \A c, d \in 1..n : pdQueue[c] = pdQueue[d] => c = d
        BY <3>2 DEF PDInd, PDTyped, IsInjective
      <4>3. CASE a \in 1..n /\ b \in 1..n
        BY <3>1, <4>2, <4>3
      <4>4. CASE a = n + 1 \/ b = n + 1
        BY <3>1, <4>1, <4>4
      <4> QED BY <4>1, <4>3, <4>4
    <3>4. pdLast' \in 0..Len(pdQueue')
      BY <1>2, <1>3, <3>1 DEF n
    <3>5. PDTyped'
      BY <1>2, <1>4, <3>1, <3>3, <3>4 DEF PDInd, PDTyped
    <3>6. pdPc'[j] = "queued"
      BY <2>1 DEF PDMove, PDInd, PDTyped
    <3>7. \A i \in 1..(n + 1) :
            /\ i <= pdLast => pdPc'[pdQueue'[i]] \in {"done", "threw"}
            /\ i = pdLast + 1 => pdPc'[pdQueue'[i]] \notin PDEnded
            /\ i > pdLast + 1 => pdPc'[pdQueue'[i]] = "queued"
      <4> SUFFICES ASSUME NEW i \in 1..(n + 1)
                   PROVE  /\ i <= pdLast => pdPc'[pdQueue'[i]] \in {"done", "threw"}
                          /\ i = pdLast + 1 => pdPc'[pdQueue'[i]] \notin PDEnded
                          /\ i > pdLast + 1 => pdPc'[pdQueue'[i]] = "queued"
        OBVIOUS
      <4>1. CASE i \in 1..n
        BY <1>3, <1>4, <3>1, <4>1 DEF PDInd, PDQueueIsSound, n
      <4>2. CASE i = n + 1
        BY <1>3, <3>1, <3>6, <4>2 DEF PDEnded, n
      <4> QED BY <1>3, <4>1, <4>2 DEF n
    <3>8. \A d \in PDJobs : pdPc'[d] \notin {"idle", "refused"} => \E i \in 1..(n + 1) : pdQueue'[i] = d
      <4> SUFFICES ASSUME NEW d \in PDJobs, pdPc'[d] \notin {"idle", "refused"}
                   PROVE  \E i \in 1..(n + 1) : pdQueue'[i] = d
        OBVIOUS
      <4>1. CASE d = j
        BY <1>3, <3>1, <4>1 DEF n
      <4>2. CASE d # j
        <5>1. PICK i \in 1..n : pdQueue[i] = d
          BY <1>4, <4>2 DEF PDInd, PDQueueIsSound, n
        <5> QED BY <1>3, <3>1, <5>1 DEF n
      <4> QED BY <4>1, <4>2
    <3>9. PDQueueIsSound'
      BY <1>2, <3>1, <3>7, <3>8 DEF PDInd, PDQueueIsSound
    <3> QED BY <3>5, <3>9
  <2>2. CASE PDMove(j, "refused") /\ UNCHANGED pdQueue
    <3>1. pdPc'[j] = "refused"
      BY <2>2 DEF PDMove, PDInd, PDTyped
    <3>2. PDTyped'
      BY <1>2, <1>4, <2>2 DEF PDInd, PDTyped
    <3> QED BY <1>2, <1>3, <1>4, <2>2, <3>1, <3>2 DEF PDInd, PDQueueIsSound
  <2> QED BY <1>1, <2>1, <2>2
<1> QED BY <1>6, <1>7 DEF PDInd

\* A task starts when all before it have settled: its number is then the next one.
LEMMA PDBeginPreserves ==
    ASSUME PDInd, NEW j \in PDJobs, PDBegin(j)
    PROVE  PDInd'
<1>1. /\ pdPc[j] = "queued" /\ PDTurn(j)
      /\ pdAlarm' = (pdAlarm \/ PDSequence(j) # pdLast + 1)
      /\ PDMove(j, IF pdKind[j] = "rollback" THEN "generate" ELSE "instance")
      /\ UNCHANGED <<pdQueue, pdLast, pdKind, pdTry, pdKnown, pdEffect, pdUndone, pdError, pdPrompts>>
  BY DEF PDBegin
<1>2. pdLast \in Nat /\ pdQueue \in Seq(PDJobs) /\ Len(pdQueue) \in Nat
  BY DEF PDInd, PDTyped
<1>3. PICK n \in 1..Len(pdQueue) : pdQueue[n] = j
  BY <1>1 DEF PDInd, PDQueueIsSound
<1>4. PDSequence(j) = n
  BY <1>3, PDSequenceIsThePlace
<1>5. n = pdLast + 1
  <2>1. ~(n <= pdLast)
    BY <1>1, <1>3 DEF PDInd, PDQueueIsSound
  <2>2. ~(n > pdLast + 1)
    <3> SUFFICES ASSUME n > pdLast + 1 PROVE FALSE
      OBVIOUS
    <3>1. pdLast + 1 \in 1..(n - 1) /\ pdLast + 1 \in 1..Len(pdQueue)
      BY <1>2, <1>3
    <3>2. pdPc[pdQueue[pdLast + 1]] \in {"done", "threw"}
      BY <1>1, <1>4, <3>1 DEF PDTurn
    <3> QED BY <3>1, <3>2 DEF PDInd, PDQueueIsSound, PDEnded
  <2> QED BY <1>2, <1>3, <2>1, <2>2
<1>6. /\ pdPc'[j] = IF pdKind[j] = "rollback" THEN "generate" ELSE "instance"
      /\ pdPc' \in [PDJobs -> PDEnded \cup Steps \cup {"queued", "undo"}]
      /\ \A d \in PDJobs \ {j} : pdPc'[d] = pdPc[d]
  BY <1>1 DEF PDMove, PDInd, PDTyped, Steps
<1>7. ~pdAlarm'
  BY <1>1, <1>4, <1>5 DEF PDInd, PDQueueIsSound
<1>8. PDJobIsSound(j)'
  <2>1. PDPendingIsClean(j)
    BY DEF PDInd, PDJobIsSound
  <2> QED BY <1>1, <1>6, <2>1
          DEF PDJobIsSound, PDPendingIsClean, PDForwardIsSound, PDBackwardIsSound, PDIsUndone, Steps
<1>9. \A d \in PDJobs : PDJobIsSound(d)'
  BY <1>1, <1>6, <1>8, PDOthersStaySound
<1>10. PDTyped'
  BY <1>1, <1>6 DEF PDInd, PDTyped
<1>11. PDQueueIsSound'
  <2>1. \A m \in 1..Len(pdQueue) : pdQueue[m] \in PDJobs /\ (pdQueue[m] = j => m = pdLast + 1)
    BY <1>2, <1>4, <1>5, PDSequenceIsThePlace
  <2>2. pdPc'[j] \notin PDEnded
    BY <1>6 DEF PDEnded
  <2>3. /\ \A m \in 1..Len(pdQueue) :
              /\ m <= pdLast => pdPc[pdQueue[m]] \in {"done", "threw"}
              /\ m = pdLast + 1 => pdPc[pdQueue[m]] \notin PDEnded
              /\ m > pdLast + 1 => pdPc[pdQueue[m]] = "queued"
        /\ \A d \in PDJobs : pdPc[d] \notin {"idle", "refused"} => \E m \in 1..Len(pdQueue) : pdQueue[m] = d
    BY DEF PDInd, PDQueueIsSound
  <2>4. \A m \in 1..Len(pdQueue) :
           /\ m <= pdLast => pdPc'[pdQueue[m]] \in {"done", "threw"}
           /\ m = pdLast + 1 => pdPc'[pdQueue[m]] \notin PDEnded
           /\ m > pdLast + 1 => pdPc'[pdQueue[m]] = "queued"
    BY ONLY <1>2, <1>6, <2>1, <2>2, <2>3
  <2>5. \A d \in PDJobs : pdPc'[d] \notin {"idle", "refused"} => \E m \in 1..Len(pdQueue) : pdQueue[m] = d
    <3>1. \E m \in 1..Len(pdQueue) : pdQueue[m] = j
      BY <1>3
    <3> QED BY ONLY <1>6, <2>3, <3>1, Zenon
  <2>6. pdQueue' = pdQueue /\ pdLast' = pdLast
    BY <1>1
  <2> QED BY ONLY <1>7, <2>4, <2>5, <2>6 DEF PDQueueIsSound
<1> QED BY <1>9, <1>10, <1>11 DEF PDInd

\* A step that took effect and is known, that is tried again, or that has failed.
LEMMA PDStepPreserves ==
    ASSUME PDInd, NEW j \in PDJobs, NEW step \in Steps, PDStep(j, step)
    PROVE  PDInd'
<1>1. PICK reply \in {"ok", "refused", "transit", "lost"} :
        /\ IF reply \in {"ok", "lost"} THEN PDTookEffect(j, step) ELSE UNCHANGED pdEffect
        /\ CASE reply = "ok" -> PDGoOn(j, step)
             [] reply \in {"transit", "lost"} /\ PDRetries(j, step) ->
                    /\ pdTry' = [pdTry EXCEPT ![j] = @ + 1]
                    /\ UNCHANGED <<pdPc, pdLast, pdKnown, pdError>>
             [] OTHER -> PDGiveUp(j)
  BY DEF PDStep
<1>2. /\ pdPc[j] = step
      /\ pdPrompts' = [pdPrompts EXCEPT ![j] = @ + (IF step = "attach" THEN 1 ELSE 0)]
      /\ UNCHANGED <<pdQueue, pdAlarm, pdKind, pdUndone>>
  BY DEF PDStep
<1>3. pdPc[j] \notin PDEnded \cup {"queued"}
  BY <1>2 DEF Steps, PDEnded
<1>4. /\ pdEffect' \in [PDJobs -> [Steps -> Nat]]
      /\ \A s \in Steps \ {step} : pdEffect'[j][s] = pdEffect[j][s]
      /\ pdEffect'[j][step] = IF reply \in {"ok", "lost"} THEN pdEffect[j][step] + 1 ELSE pdEffect[j][step]
      /\ \A d \in PDJobs \ {j} : pdEffect'[d] = pdEffect[d]
  <2>1. CASE reply \in {"ok", "lost"}
    <3>1. pdEffect' = [pdEffect EXCEPT ![j][step] = @ + 1]
      BY <1>1, <2>1 DEF PDTookEffect
    <3> QED BY <2>1, <3>1 DEF PDInd, PDTyped
  <2>2. CASE reply \notin {"ok", "lost"}
    BY <1>1, <2>2 DEF PDInd, PDTyped
  <2> QED BY <2>1, <2>2
<1>5. /\ pdPrompts' \in [PDJobs -> Nat]
      /\ pdPrompts'[j] = IF step = "attach" THEN pdPrompts[j] + 1 ELSE pdPrompts[j]
      /\ \A d \in PDJobs \ {j} : pdPrompts'[d] = pdPrompts[d]
  BY <1>2 DEF PDInd, PDTyped
<1>6. /\ PDJobIsSound(j) /\ pdPrompts[j] \in Nat /\ \A s \in Steps : pdEffect[j][s] \in Nat
      /\ pdKnown[j] \subseteq Steps
  BY DEF PDInd, PDTyped
<1>7. CASE PDGoOn(j, step) /\ reply = "ok"
  <2>1. /\ pdTry' = [pdTry EXCEPT ![j] = 0] /\ pdKnown' = [pdKnown EXCEPT ![j] = @ \cup {step}]
        /\ UNCHANGED pdError
    BY <1>7 DEF PDGoOn
  <2>2. /\ pdKnown'[j] = pdKnown[j] \cup {step} /\ pdKnown' \in [PDJobs -> SUBSET Steps]
        /\ \A d \in PDJobs \ {j} : pdKnown'[d] = pdKnown[d]
    BY <2>1 DEF PDInd, PDTyped
  <2>3. PDNextStep(j, step) \in {"simulate", "instance", "attach", "record", "done"}
    BY DEF PDNextStep, Steps
  <2>4. /\ pdPc'[j] = PDNextStep(j, step)
        /\ pdPc' \in [PDJobs -> PDEnded \cup Steps \cup {"queued", "undo"}]
        /\ \A d \in PDJobs \ {j} : pdPc'[d] = pdPc[d]
    BY <1>7, <2>3 DEF PDGoOn, PDFinish, PDMove, PDInd, PDTyped, PDEnded, Steps
  <2>5. PDQueueIsSound' /\ pdLast' \in 0..Len(pdQueue')
    <3>1. CASE PDNextStep(j, step) = "done"
      BY <1>2, <1>3, <1>7, <3>1, PDFinishKeepsTheQueue DEF PDGoOn
    <3>2. CASE PDNextStep(j, step) # "done"
      <4>1. PDNextStep(j, step) \in Steps \cup {"undo"}
        BY <2>3, <3>2 DEF Steps
      <4> QED BY <1>2, <1>3, <1>7, <3>2, <4>1, PDGoingOnKeepsTheQueue DEF PDGoOn, PDInd, PDTyped
    <3> QED BY <3>1, <3>2
  <2>6. PDTyped'
    BY <1>2, <1>4, <1>5, <2>1, <2>2, <2>4, <2>5 DEF PDInd, PDTyped
  <2>7. PDJobIsSound(j)'
    <3>1. PDPendingIsClean(j)'
      BY <2>3, <2>4 DEF PDPendingIsClean
    <3>2. PDForwardIsSound(j)'
      BY <1>2, <1>4, <1>5, <1>6, <1>7, <2>1, <2>2, <2>4
      DEF PDJobIsSound, PDForwardIsSound, PDNextStep, Steps
    <3>3. PDBackwardIsSound(j)'
      <4> SUFFICES ASSUME pdKind[j] = "rollback" PROVE PDBackwardIsSound(j)'
        BY <1>2 DEF PDBackwardIsSound
      <4>1. pdUndone'[j] = <<>> /\ pdUndone[j] = <<>> /\ step # "attach"
        BY <1>2, <1>3, <1>6 DEF PDJobIsSound, PDBackwardIsSound, PDEnded, Steps
      <4>2. \A s : ~PDIsUndone(j, s) /\ ~PDIsUndone(j, s)'
        BY <4>1 DEF PDIsUndone
      <4>3. PDNextStep(j, step) = CASE step = "generate" -> "simulate"
                                    [] step = "simulate" -> "instance"
                                    [] step = "instance" -> "record"
                                    [] step = "record" -> "done"
        BY <4>1 DEF PDNextStep, Steps
      <4> QED BY <1>2, <1>4, <1>6, <1>7, <2>1, <2>2, <2>4, <4>1, <4>2, <4>3
              DEF PDJobIsSound, PDBackwardIsSound, Steps
    <3> QED BY <3>1, <3>2, <3>3 DEF PDJobIsSound
  <2>8. \A d \in PDJobs : PDJobIsSound(d)'
    BY <1>2, <1>4, <1>5, <2>1, <2>2, <2>4, <2>7, PDOthersStaySound
  <2> QED BY <2>5, <2>6, <2>8 DEF PDInd
<1>8. CASE /\ reply \in {"transit", "lost"} /\ PDRetries(j, step)
           /\ pdTry' = [pdTry EXCEPT ![j] = @ + 1] /\ UNCHANGED <<pdPc, pdLast, pdKnown, pdError>>
  <2>1. pdKind[j] = "resumable" /\ step # "attach"
    BY <1>8 DEF PDRetries
  <2>2. PDJobIsSound(j)'
    BY <1>2, <1>3, <1>4, <1>5, <1>6, <1>8, <2>1
    DEF PDJobIsSound, PDPendingIsClean, PDForwardIsSound, PDBackwardIsSound, Steps, PDEnded
  <2>3. \A d \in PDJobs : PDJobIsSound(d)'
    BY <1>2, <1>4, <1>5, <1>8, <2>2, PDOthersStaySound
  <2>4. PDTyped' /\ PDQueueIsSound'
    BY <1>2, <1>4, <1>5, <1>8 DEF PDInd, PDTyped, PDQueueIsSound
  <2> QED BY <2>3, <2>4 DEF PDInd
<1>9. CASE PDGiveUp(j) /\ reply # "ok"
  <2>1. pdTry' = [pdTry EXCEPT ![j] = 0] /\ UNCHANGED pdKnown
    BY <1>9 DEF PDGiveUp
  <2>2. CASE pdKind[j] = "rollback"
    <3>1. PDMove(j, "undo") /\ UNCHANGED <<pdLast, pdError>>
      BY <1>9, <2>2 DEF PDGiveUp
    <3>2. /\ pdPc'[j] = "undo" /\ \A d \in PDJobs \ {j} : pdPc'[d] = pdPc[d]
          /\ pdPc' \in [PDJobs -> PDEnded \cup Steps \cup {"queued", "undo"}]
      BY <3>1 DEF PDMove, PDInd, PDTyped
    <3>3. PDTyped'
      BY <1>2, <1>4, <1>5, <2>1, <3>1, <3>2 DEF PDInd, PDTyped
    <3>4. PDQueueIsSound'
      BY <1>2, <1>3, <3>1, PDGoingOnKeepsTheQueue
    <3>5. /\ pdUndone[j] = <<>> /\ pdUndone'[j] = <<>> /\ step # "attach"
          /\ step \in {"generate", "instance"} => step \notin pdKnown[j]
      <4>1. pdUndone[j] = <<>> /\ pdUndone'[j] = <<>> /\ step # "attach"
        BY <1>2, <1>3, <1>6, <2>2 DEF PDJobIsSound, PDBackwardIsSound, PDEnded, Steps
      <4>2. \A s : ~PDIsUndone(j, s)
        BY <4>1 DEF PDIsUndone
      <4> QED BY <1>2, <1>6, <2>2, <4>1, <4>2 DEF PDJobIsSound, PDBackwardIsSound
    <3>6. PDJobIsSound(j)'
      BY <1>2, <1>4, <1>6, <2>1, <2>2, <3>1, <3>2, <3>5
      DEF PDJobIsSound, PDPendingIsClean, PDForwardIsSound, PDBackwardIsSound, PDIsUndone, Steps
    <3>7. \A d \in PDJobs : PDJobIsSound(d)'
      BY <1>2, <1>4, <1>5, <2>1, <3>1, <3>2, <3>6, PDOthersStaySound
    <3> QED BY <3>3, <3>4, <3>7 DEF PDInd
  <2>3. CASE pdKind[j] # "rollback"
    <3>1. /\ PDFinish(j, "threw")
          /\ pdError' = [pdError EXCEPT ![j] = IF pdKind[j] = "resumable" THEN pdKnown[j] ELSE {}]
      BY <1>9, <2>3 DEF PDGiveUp
    <3>2. /\ pdPc'[j] = "threw" /\ \A d \in PDJobs \ {j} : pdPc'[d] = pdPc[d] /\ pdError'[d] = pdError[d]
          /\ pdPc' \in [PDJobs -> PDEnded \cup Steps \cup {"queued", "undo"}]
          /\ DOMAIN pdError' = PDJobs
          /\ pdError'[j] = pdKnown[j] \/ pdError'[j] = {}
      BY <3>1 DEF PDFinish, PDMove, PDInd, PDTyped, PDEnded
    <3>3. PDQueueIsSound' /\ pdLast' \in 0..Len(pdQueue')
      BY <1>2, <1>3, <3>1, PDFinishKeepsTheQueue
    <3>4. PDTyped'
      BY <1>2, <1>4, <1>5, <2>1, <3>2, <3>3 DEF PDInd, PDTyped
    <3>5. PDJobIsSound(j)'
      BY <1>2, <1>4, <1>5, <1>6, <1>9, <2>1, <2>3, <3>2
      DEF PDJobIsSound, PDPendingIsClean, PDForwardIsSound, PDBackwardIsSound, Steps
    <3>6. \A d \in PDJobs : PDJobIsSound(d)'
      BY <1>2, <1>4, <1>5, <2>1, <3>2, <3>5, PDOthersStaySound
    <3> QED BY <3>3, <3>4, <3>6 DEF PDInd
  <2> QED BY <2>2, <2>3
<1> QED BY <1>1, <1>7, <1>8, <1>9

\* A resumed deployment records what is attached.
LEMMA PDResumePreserves ==
    ASSUME PDInd, NEW j \in PDJobs, PDResume(j)
    PROVE  PDInd'
<1>1. PICK reply \in {"ok", "refused", "lost"} :
        /\ IF reply = "refused" THEN UNCHANGED pdEffect ELSE PDTookEffect(j, "record")
        /\ PDMove(j, IF reply = "ok" THEN "done" ELSE "threw")
  BY DEF PDResume
<1>2. /\ pdPc[j] = "threw" /\ pdError[j] # PDNone /\ "attach" \in pdError[j]
      /\ UNCHANGED <<pdQueue, pdLast, pdAlarm, pdKind, pdTry, pdKnown, pdUndone, pdError, pdPrompts>>
  BY DEF PDResume
<1>3. /\ pdEffect' \in [PDJobs -> [Steps -> Nat]]
      /\ \A s \in Steps \ {"record"} : pdEffect'[j][s] = pdEffect[j][s]
      /\ pdEffect'[j]["record"] = IF reply = "refused" THEN pdEffect[j]["record"] ELSE pdEffect[j]["record"] + 1
      /\ \A d \in PDJobs \ {j} : pdEffect'[d] = pdEffect[d]
  <2>1. CASE reply # "refused"
    <3>1. pdEffect' = [pdEffect EXCEPT ![j]["record"] = @ + 1]
      BY <1>1, <2>1 DEF PDTookEffect
    <3> QED BY <2>1, <3>1 DEF PDInd, PDTyped, Steps
  <2>2. CASE reply = "refused"
    BY <1>1, <2>2 DEF PDInd, PDTyped
  <2> QED BY <2>1, <2>2
<1>4. /\ pdPc'[j] = IF reply = "ok" THEN "done" ELSE "threw"
      /\ pdPc' \in [PDJobs -> PDEnded \cup Steps \cup {"queued", "undo"}]
      /\ \A d \in PDJobs \ {j} : pdPc'[d] = pdPc[d]
  BY <1>1 DEF PDMove, PDInd, PDTyped, PDEnded
<1>5. /\ PDJobIsSound(j) /\ pdKind[j] # "rollback" /\ pdEffect[j]["record"] \in Nat
      /\ "attach" \in pdKnown[j]
  BY <1>2 DEF PDInd, PDTyped, PDJobIsSound, PDBackwardIsSound, PDForwardIsSound, Steps
<1>6. PDJobIsSound(j)'
  BY <1>2, <1>3, <1>4, <1>5
  DEF PDJobIsSound, PDPendingIsClean, PDForwardIsSound, PDBackwardIsSound, Steps
<1>7. \A d \in PDJobs : PDJobIsSound(d)'
  BY <1>2, <1>3, <1>4, <1>6, PDOthersStaySound
<1>8. PDTyped'
  BY <1>2, <1>3, <1>4 DEF PDInd, PDTyped
<1>9. PDQueueIsSound'
  <2>1. \A n \in 1..Len(pdQueue) : pdQueue[n] \in PDJobs
    BY DEF PDInd, PDTyped
  <2> QED BY <1>2, <1>4, <2>1 DEF PDInd, PDQueueIsSound, PDEnded
<1> QED BY <1>7, <1>8, <1>9 DEF PDInd

\* A compensation undoes the last completed step that is left.
LEMMA PDUndoPreserves ==
    ASSUME PDInd, NEW j \in PDJobs, PDUndo(j)
    PROVE  PDInd'
<1> DEFINE q == pdUndone[j]
<1>0. PICK step \in {"generate", "instance"} : step = PDUndoNext(j)
  BY DEF PDUndoNext
<1>1. PICK reply \in {"ok", "failed", "lost"} :
        /\ pdUndone' = [pdUndone EXCEPT ![j] = Append(@, [step |-> step, ok |-> reply = "ok"])]
        /\ pdEffect' = IF reply = "failed" THEN pdEffect ELSE [pdEffect EXCEPT ![j][step] = @ - 1]
  BY <1>0 DEF PDUndo
<1>2. /\ pdPc[j] = "undo" /\ PDToUndo(j) # {}
      /\ UNCHANGED <<pdQueue, pdLast, pdAlarm, pdPc, pdKind, pdTry, pdKnown, pdError, pdPrompts>>
  BY DEF PDUndo
<1>3. /\ step \in {"generate", "instance"} /\ step \in pdKnown[j] /\ ~PDIsUndone(j, step)
      /\ step = "generate" /\ "instance" \in pdKnown[j] => PDIsUndone(j, "instance")
  BY <1>0, <1>2 DEF PDUndoNext, PDToUndo, PDIsUndone
<1>4. PDJobIsSound(j) /\ pdKind[j] = "rollback"
  BY <1>2 DEF PDInd, PDJobIsSound, PDForwardIsSound
<1>5. pdEffect[j][step] = 1
  BY <1>3, <1>4 DEF PDJobIsSound, PDBackwardIsSound
<1>6. /\ pdEffect' \in [PDJobs -> [Steps -> Nat]]
      /\ \A s \in Steps \ {step} : pdEffect'[j][s] = pdEffect[j][s]
      /\ reply # "failed" => pdEffect'[j][step] = 0
      /\ \A d \in PDJobs \ {j} : pdEffect'[d] = pdEffect[d]
  <2>1. step \in Steps
    BY <1>3 DEF Steps
  <2>2. CASE reply # "failed"
    BY <1>1, <1>5, <2>1, <2>2 DEF PDInd, PDTyped
  <2>3. CASE reply = "failed"
    BY <1>1, <2>3 DEF PDInd, PDTyped
  <2> QED BY <2>2, <2>3
<1> DEFINE e == [step |-> step, ok |-> reply = "ok"]
           U == [step : {"generate", "instance"}, ok : BOOLEAN]
<1>7. e \in U /\ e.step = step /\ (reply # "ok" => e = [step |-> step, ok |-> FALSE])
  BY <1>3
<1> HIDE DEF e, U
<1>8. q \in Seq(U)
  BY DEF PDInd, PDTyped, U
<1>9. /\ pdUndone' \in [PDJobs -> Seq(U)] /\ pdUndone'[j] = Append(q, e)
      /\ \A d \in PDJobs \ {j} : pdUndone'[d] = pdUndone[d]
  BY <1>1, <1>7, <1>8 DEF PDInd, PDTyped, e, U
<1>10. /\ DOMAIN pdUndone'[j] = 1..(Len(q) + 1) /\ DOMAIN q = 1..Len(q) /\ Len(q) \in Nat
       /\ pdUndone'[j][Len(q) + 1] = e
       /\ \A i \in 1..Len(q) : pdUndone'[j][i] = q[i]
  BY <1>7, <1>8, <1>9
<1>11. /\ PDIsUndone(j, step)' /\ (reply # "ok" => PDIsReported(j, step)')
       /\ \A s \in {"generate", "instance"} :
            /\ s # step => (PDIsUndone(j, s)' <=> PDIsUndone(j, s))
            /\ PDIsReported(j, s) => PDIsReported(j, s)'
  <2>1. Len(q) + 1 \in DOMAIN pdUndone'[j] /\ pdUndone'[j][Len(q) + 1].step = step
    BY <1>7, <1>10
  <2>2. PDIsUndone(j, step)'
    BY <2>1 DEF PDIsUndone
  <2>3. reply # "ok" => PDIsReported(j, step)'
    BY <1>7, <1>10, <2>1 DEF PDIsReported
  <2>4. ASSUME NEW s \in {"generate", "instance"}
        PROVE  /\ s # step => (PDIsUndone(j, s)' <=> PDIsUndone(j, s))
               /\ PDIsReported(j, s) => PDIsReported(j, s)'
    <3>1. PDIsUndone(j, s) => PDIsUndone(j, s)'
      BY <1>10 DEF PDIsUndone
    <3>2. PDIsReported(j, s) => PDIsReported(j, s)'
      BY <1>10 DEF PDIsReported
    <3>3. s # step /\ PDIsUndone(j, s)' => PDIsUndone(j, s)
      <4> SUFFICES ASSUME s # step, NEW i \in DOMAIN pdUndone'[j], pdUndone'[j][i].step = s
                   PROVE  \E k \in DOMAIN q : q[k].step = s
        BY DEF PDIsUndone
      <4>1. i # Len(q) + 1
        BY <2>1
      <4>2. i \in 1..Len(q)
        BY <1>10, <4>1
      <4> QED BY <1>10, <4>2
    <3> QED BY <3>1, <3>2, <3>3
  <2> QED BY <2>2, <2>3, <2>4
<1>12. PDJobIsSound(j)'
  <2>1. PDPendingIsClean(j)' /\ PDForwardIsSound(j)'
    BY <1>2, <1>4 DEF PDPendingIsClean, PDForwardIsSound
  <2>2. \A s \in {"generate", "instance"} : s \in pdKnown[j] =>
           IF PDIsUndone(j, s)' THEN pdEffect'[j][s] = 0 \/ PDIsReported(j, s)' ELSE pdEffect'[j][s] = 1
    <3> SUFFICES ASSUME NEW s \in {"generate", "instance"}, s \in pdKnown[j]
                 PROVE  IF PDIsUndone(j, s)' THEN pdEffect'[j][s] = 0 \/ PDIsReported(j, s)'
                        ELSE pdEffect'[j][s] = 1
      OBVIOUS
    <3>1. CASE s = step
      BY <1>6, <1>11, <3>1
    <3>2. CASE s # step
      <4>1. pdEffect'[j][s] = pdEffect[j][s]
        BY <1>6, <3>2 DEF Steps
      <4> QED BY <1>4, <1>11, <3>2, <4>1 DEF PDJobIsSound, PDBackwardIsSound
    <3> QED BY <3>1, <3>2
  <2>3. PDIsUndone(j, "generate")' /\ "instance" \in pdKnown[j] => PDIsUndone(j, "instance")'
    <3>1. CASE step = "generate"
      BY <1>3, <1>11, <3>1
    <3>2. CASE step = "instance"
      BY <1>11, <3>2
    <3> QED BY <1>3, <3>1, <3>2
  <2>4. PDBackwardIsSound(j)'
    BY <1>2, <1>4, <2>2, <2>3 DEF PDJobIsSound, PDBackwardIsSound
  <2> QED BY <2>1, <2>4 DEF PDJobIsSound
<1>13. \A d \in PDJobs : PDJobIsSound(d)'
  BY <1>2, <1>6, <1>9, <1>12, PDOthersStaySound
<1>14. PDTyped'
  BY <1>2, <1>6, <1>9 DEF PDInd, PDTyped, U
<1>15. PDQueueIsSound'
  BY <1>2 DEF PDInd, PDQueueIsSound
<1> QED BY <1>13, <1>14, <1>15 DEF PDInd

\* The rollback ends when nothing is left to undo.
LEMMA PDUndoDonePreserves ==
    ASSUME PDInd, NEW j \in PDJobs, PDUndoDone(j)
    PROVE  PDInd'
<1>1. /\ pdPc[j] = "undo" /\ PDToUndo(j) = {} /\ PDFinish(j, "threw")
      /\ pdError' = [pdError EXCEPT ![j] = pdKnown[j]]
      /\ UNCHANGED <<pdQueue, pdAlarm, pdKind, pdTry, pdKnown, pdEffect, pdUndone, pdPrompts>>
  BY DEF PDUndoDone
<1>2. pdPc[j] \notin PDEnded \cup {"queued"}
  BY <1>1 DEF PDEnded
<1>3. /\ pdPc'[j] = "threw" /\ pdError'[j] = pdKnown[j] /\ DOMAIN pdError' = PDJobs
      /\ \A d \in PDJobs \ {j} : pdPc'[d] = pdPc[d] /\ pdError'[d] = pdError[d]
      /\ pdPc' \in [PDJobs -> PDEnded \cup Steps \cup {"queued", "undo"}]
  BY <1>1 DEF PDFinish, PDMove, PDInd, PDTyped, PDEnded
<1>4. PDQueueIsSound' /\ pdLast' \in 0..Len(pdQueue')
  BY <1>1, <1>2, PDFinishKeepsTheQueue
<1>5. PDTyped'
  BY <1>1, <1>3, <1>4 DEF PDInd, PDTyped
<1>6. PDJobIsSound(j) /\ pdKind[j] = "rollback"
  BY <1>1 DEF PDInd, PDJobIsSound, PDForwardIsSound
<1>7. \A s \in {"generate", "instance"} : s \in pdKnown[j] => PDIsUndone(j, s)
  BY <1>1 DEF PDToUndo, PDIsUndone
<1>8. PDJobIsSound(j)'
  <2>1. \A s : /\ PDIsUndone(j, s)' <=> PDIsUndone(j, s)
               /\ PDIsReported(j, s)' <=> PDIsReported(j, s)
    BY <1>1 DEF PDIsUndone, PDIsReported
  <2> QED BY <1>1, <1>3, <1>6, <1>7, <2>1
          DEF PDJobIsSound, PDPendingIsClean, PDForwardIsSound, PDBackwardIsSound
<1>9. \A d \in PDJobs : PDJobIsSound(d)'
  BY <1>1, <1>3, <1>8, PDOthersStaySound
<1> QED BY <1>4, <1>5, <1>9 DEF PDInd

LEMMA PDInitInd == PDInit => PDInd
<1> SUFFICES ASSUME PDInit PROVE PDInd
  OBVIOUS
<1>1. PDTyped
  BY DEF PDInit, PDTyped, PDEnded, IsInjective, Steps
<1>2. PDQueueIsSound
  BY DEF PDInit, PDQueueIsSound
<1>3. ASSUME NEW j \in PDJobs PROVE PDJobIsSound(j)
  BY DEF PDInit, PDJobIsSound, PDPendingIsClean, PDForwardIsSound, PDBackwardIsSound, Steps
<1> QED BY <1>1, <1>2, <1>3 DEF PDInd

LEMMA PDNextInd == PDInd /\ [PDNext]_pdVars => PDInd'
<1> SUFFICES ASSUME PDInd, [PDNext]_pdVars PROVE PDInd'
  OBVIOUS
<1>1. CASE UNCHANGED pdVars
  <2>1. PDTyped' /\ PDQueueIsSound'
    BY <1>1 DEF pdVars, PDInd, PDTyped, PDQueueIsSound
  <2>2. ASSUME NEW j \in PDJobs PROVE PDJobIsSound(j)'
    <3>1. PDJobIsSound(j)
      BY DEF PDInd
    <3>2. \A s : (PDIsUndone(j, s)' <=> PDIsUndone(j, s)) /\ (PDIsReported(j, s)' <=> PDIsReported(j, s))
      BY <1>1 DEF pdVars, PDIsUndone, PDIsReported
    <3> QED BY <1>1, <3>1, <3>2
            DEF pdVars, PDJobIsSound, PDPendingIsClean, PDForwardIsSound, PDBackwardIsSound
  <2> QED BY <2>1, <2>2 DEF PDInd
<1> QED BY <1>1, PDSubmitPreserves, PDBeginPreserves, PDStepPreserves, PDResumePreserves,
           PDUndoPreserves, PDUndoDonePreserves
        DEF PDNext

\* Deployments of one wallet run one at a time and in the order they were asked for,
\* a failed one not holding up the rest; and what a saga reports of itself, done, to
\* be resumed or rolled back, is what it left (policy-batch-ordering.ts and the
\* deployment sagas), for every number of deployments and of retries.
THEOREM DeploymentsAreTrue == PDSpec => []PDDeploymentsAreTrue
<1>1. PDInd => PDDeploymentsAreTrue
  <2> SUFFICES ASSUME PDInd PROVE PDDeploymentsAreTrue
    OBVIOUS
  <2>1. PDQueueKeepsOrder
    <3> DEFINE running == {j \in PDJobs : pdPc[j] \notin PDEnded \cup {"queued"}}
    <3>1. running \in SUBSET {pdQueue[pdLast + 1]}
      BY PDRunningIsNext
    <3>2. Cardinality(running) <= 1
      <4> HIDE DEF running
      <4>1. IsFiniteSet({pdQueue[pdLast + 1]}) /\ Cardinality({pdQueue[pdLast + 1]}) = 1
        BY FS_Singleton
      <4> QED BY <3>1, <4>1, FS_Subset
    <3> QED BY <3>2 DEF PDInd, PDQueueIsSound, PDQueueKeepsOrder
  <2>2. ASSUME NEW j \in PDJobs
        PROVE  /\ pdKind[j] # "rollback" =>
                     /\ pdPc[j] = "done" => pdEffect[j].attach = 1 /\ pdEffect[j].record >= 1
                     /\ pdEffect[j].record >= 1 => pdEffect[j].attach = 1
                     /\ pdPrompts[j] <= 1
                     /\ pdError[j] # PDNone /\ "attach" \in pdError[j] => pdEffect[j].attach = 1
               /\ pdKind[j] = "rollback" =>
                     /\ PDIsUndone(j, "generate") /\ "instance" \in pdKnown[j] => PDIsUndone(j, "instance")
                     /\ pdPc[j] = "threw" => \A s \in {"generate", "instance"} :
                           s \in pdKnown[j] => pdEffect[j][s] = 0 \/ PDIsReported(j, s)
    <3>1. PDJobIsSound(j)
      BY DEF PDInd
    <3> QED BY <3>1 DEF PDJobIsSound, PDForwardIsSound, PDBackwardIsSound
  <2>3. PDResultsAreTrue
    BY <2>2 DEF PDResultsAreTrue, PDIsUndone, PDIsReported
  <2> QED BY <2>1, <2>3 DEF PDDeploymentsAreTrue
<1> QED BY <1>1, PDInitInd, PDNextInd, PTL DEF PDSpec
-----------------------------------------------------------------------------
(* The spend ledgers. *)

SLPcs == {"idle", "paying", "saving", "record", "exclusive", "spent", "setting", "checking"}

\* What the calls under way asked for.
SLAsked == SumFunction([c \in SLCalls |-> slCall[c].amount])

SLTyped ==
    /\ slKind \in SLKinds \cup {SLNone} /\ slUp \in BOOLEAN /\ slRaced \in BOOLEAN
    /\ slSpent \in Nat /\ slReserved \in Nat /\ slPaid \in Nat /\ slMissed \in Nat /\ slCrashed \in Nat
    /\ slDisk \in Nat \cup {Torn}
    /\ slCall \in [SLCalls -> [pc : SLPcs, amount : Nat, paid : Nat, snap : Nat]]
    /\ slQueue \in Seq([call : SLCalls, op : {"record", "exclusive", "spent"}])

\* What a call may hold, and in which ledger it may be where.
SLShape ==
    /\ \A c \in SLCalls :
          /\ slCall[c].paid <= slCall[c].amount
          /\ slCall[c].pc \in {"idle", "saving"} => slCall[c].amount = 0
          /\ slCall[c].pc = "saving" => slKind = "durable"
          /\ IF slKind = "shared" THEN slCall[c].pc \notin {"paying", "saving"}
             ELSE slCall[c].pc \in {"idle", "paying", "saving"}
          /\ ~slUp => slCall[c].pc = "idle"
    /\ slDisk = Torn => slKind = "durable"

\* A ledger that has not been started, or is down.
SLFresh ==
    /\ slKind = SLNone => ~slUp /\ slCrashed = 0
    /\ ~slUp => slSpent = 0 /\ slReserved = 0
    /\ ~slUp /\ slCrashed = 0 => slPaid = 0 /\ slDisk = 0

\* Reservations hold what was asked for.
SLReserveOk == slKind = "reserve" /\ slCrashed = 0 =>
    slReserved = SLAsked /\ slSpent + SLUnderWay = slPaid /\ slSpent + slReserved <= SLCeiling

\* What is not booked and not under way was missed.
SLCountOk == slKind \in {"caps", "timeout", "context"} /\ slCrashed = 0 =>
    slPaid <= slSpent + SLUnderWay + slMissed

\* The tracker booked what was asked for and is not paid yet, too.
SLTrackerOk == slKind = "tracker" /\ slCrashed = 0 =>
    slPaid + SLAsked <= slSpent + SLUnderWay /\ slSpent <= SLCeiling

\* While no save raced or failed, the file is current or the one save under way makes it so.
SLDurableOk == slKind = "durable" /\ ~slRaced =>
    /\ slUp => /\ slPaid = slSpent + SLUnderWay
               /\ \A c \in SLSaving : slCall[c].snap = slSpent
               /\ \A c, d \in SLSaving : c = d
               /\ SLSaving = {} => slDisk = slSpent
    /\ ~slUp => slDisk = slPaid

\* A record that has read the total is the head of the chain, so the total is still that.
SLSharedOk == slKind = "shared" =>
    /\ slCrashed = 0 => slDisk = slSpent
    /\ \A c \in SLCalls : slCall[c].pc = "setting" =>
          slQueue # <<>> /\ Head(slQueue).call = c /\ Head(slQueue).op = "record" /\ slCall[c].snap = slDisk

SLInd == /\ SLTyped /\ SLShape /\ SLFresh
         /\ SLReserveOk /\ SLCountOk /\ SLTrackerOk /\ SLDurableOk /\ SLSharedOk

\* The two sums after a step of one call.
LEMMA SLSumsChange ==
    ASSUME SLTyped, SLTyped', NEW c \in SLCalls, NEW to, slCall' = [slCall EXCEPT ![c] = to]
    PROVE  /\ SLUnderWay \in Nat /\ SLUnderWay' \in Nat /\ SLAsked \in Nat /\ SLAsked' \in Nat
           /\ slCall[c].paid <= SLUnderWay /\ slCall[c].amount <= SLAsked
           /\ SLUnderWay' = SLUnderWay - slCall[c].paid + to.paid
           /\ SLAsked' = SLAsked - slCall[c].amount + to.amount
<1> DEFINE paid == [d \in SLCalls |-> slCall[d].paid]
           amount == [d \in SLCalls |-> slCall[d].amount]
<1>1. PICK p0, p1, q0, q1 : p0 = paid /\ p1 = paid' /\ q0 = amount /\ q1 = amount'
  OBVIOUS
<1>2. p0 \in [SLCalls -> Nat] /\ q0 \in [SLCalls -> Nat]
  BY <1>1 DEF SLTyped
<1>3. p1 \in [SLCalls -> Nat] /\ q1 \in [SLCalls -> Nat]
  BY <1>1 DEF SLTyped
<1>4. \A d \in SLCalls : slCall'[d] = IF d = c THEN to ELSE slCall[d]
  BY DEF SLTyped
<1>5. \A d \in SLCalls : d # c => p1[d] = p0[d] /\ q1[d] = q0[d]
  BY <1>1, <1>4
<1>6. p0[c] = slCall[c].paid /\ p1[c] = to.paid /\ q0[c] = slCall[c].amount /\ q1[c] = to.amount
  BY <1>1, <1>4
<1>7. /\ SumFunction(p0) \in Nat /\ SumFunction(p1) \in Nat /\ p0[c] <= SumFunction(p0)
      /\ SumFunction(p1) = SumFunction(p0) - p0[c] + p1[c]
  <2>1. /\ IsFiniteSet(SLCalls) /\ c \in SLCalls /\ p0 \in [SLCalls -> Nat] /\ p1 \in [SLCalls -> Nat]
        /\ \A d \in SLCalls : d # c => p1[d] = p0[d]
    BY <1>2, <1>3, <1>5, SLAssumption
  <2> QED BY ONLY <2>1, SumChange
<1>8. /\ SumFunction(q0) \in Nat /\ SumFunction(q1) \in Nat /\ q0[c] <= SumFunction(q0)
      /\ SumFunction(q1) = SumFunction(q0) - q0[c] + q1[c]
  <2>1. /\ IsFiniteSet(SLCalls) /\ c \in SLCalls /\ q0 \in [SLCalls -> Nat] /\ q1 \in [SLCalls -> Nat]
        /\ \A d \in SLCalls : d # c => q1[d] = q0[d]
    BY <1>2, <1>3, <1>5, SLAssumption
  <2> QED BY ONLY <2>1, SumChange
<1>9. SLUnderWay = SumFunction(p0) /\ SLUnderWay' = SumFunction(p1)
  BY <1>1 DEF SLUnderWay
<1>10. SLAsked = SumFunction(q0) /\ SLAsked' = SumFunction(q1)
  BY <1>1 DEF SLAsked
<1> QED BY <1>6, <1>7, <1>8, <1>9, <1>10

\* No call is paid more than it asked for.
LEMMA SLPaidIsAsked ==
    ASSUME SLTyped, SLShape
    PROVE  SLUnderWay \in Nat /\ SLAsked \in Nat /\ SLUnderWay <= SLAsked
<1>1. PICK p, a : p = [d \in SLCalls |-> slCall[d].paid] /\ a = [d \in SLCalls |-> slCall[d].amount]
  OBVIOUS
<1>2. p \in [SLCalls -> Nat] /\ a \in [SLCalls -> Nat] /\ p \in [SLCalls -> Int] /\ a \in [SLCalls -> Int]
  BY <1>1 DEF SLTyped
<1>3. \A d \in SLCalls : p[d] <= a[d]
  BY <1>1 DEF SLShape
<1>4. SumFunction(p) <= SumFunction(a)
  BY <1>2, <1>3, SLAssumption, SumMonotone
<1>5. SumFunction(p) \in Nat /\ SumFunction(a) \in Nat
  BY <1>2, SLAssumption, SumIsNat
<1> QED BY <1>1, <1>4, <1>5 DEF SLUnderWay, SLAsked

\* Calls that hold nothing add nothing.
LEMMA SLNothingUnderWay ==
    ASSUME \A c \in SLCalls : slCall[c].paid = 0
    PROVE  SLUnderWay = 0
<1>1. [c \in SLCalls |-> slCall[c].paid] = [c \in SLCalls |-> 0]
  OBVIOUS
<1> QED BY <1>1, SLAssumption, SumOfZeros DEF SLUnderWay

\* The same for what was asked for.
LEMMA SLNothingAsked ==
    ASSUME \A c \in SLCalls : slCall[c].amount = 0
    PROVE  SLAsked = 0
<1>1. [c \in SLCalls |-> slCall[c].amount] = [c \in SLCalls |-> 0]
  OBVIOUS
<1> QED BY <1>1, SLAssumption, SumOfZeros DEF SLAsked

\* A ledger that is down has no call under way.
LEMMA SLDownIsIdle ==
    ASSUME SLTyped, SLShape, ~slUp
    PROVE  SLUnderWay = 0 /\ SLAsked = 0
<1>1. \A c \in SLCalls : slCall[c].amount = 0 /\ slCall[c].paid \in Nat /\ slCall[c].paid <= slCall[c].amount
  BY DEF SLTyped, SLShape
<1>2. \A c \in SLCalls : slCall[c].paid = 0
  BY <1>1
<1> QED BY <1>1, <1>2, SLNothingUnderWay, SLNothingAsked

\* The ledger is configured and started.
LEMMA SLStartPreserves ==
    ASSUME SLInd, SLConfigure \/ SLStart
    PROVE  SLInd'
<1>1. /\ ~slUp /\ UNCHANGED <<slReserved, slDisk, slCall, slQueue, slPaid, slMissed, slCrashed, slRaced>>
      /\ SLUnderWay = 0 /\ SLAsked = 0 /\ SLUnderWay' = 0 /\ SLAsked' = 0
  <2>1. ~slUp /\ UNCHANGED <<slReserved, slDisk, slCall, slQueue, slPaid, slMissed, slCrashed, slRaced>>
    BY DEF SLInd, SLFresh, SLConfigure, SLStart
  <2>2. SLUnderWay' = SLUnderWay /\ SLAsked' = SLAsked
    BY <2>1 DEF SLUnderWay, SLAsked
  <2> QED BY <2>1, <2>2, SLDownIsIdle DEF SLInd
<1>2. slSpent = 0 /\ slReserved = 0 /\ \A c \in SLCalls : slCall[c].pc = "idle" /\ slCall[c].amount = 0
  BY <1>1 DEF SLInd, SLFresh, SLShape
<1>3. CASE SLConfigure
  <2>1. /\ slKind = SLNone /\ slKind' \in SLKinds /\ UNCHANGED <<slUp, slSpent>> /\ slCrashed = 0
        /\ slPaid = 0 /\ slDisk = 0
    BY <1>1, <1>3 DEF SLInd, SLFresh, SLConfigure
  <2>2. SLTyped' /\ SLFresh'
    BY <1>1, <2>1 DEF SLInd, SLTyped, SLFresh
  <2>3. SLShape'
    BY <1>1, <1>2, <2>1 DEF SLInd, SLShape, Torn
  <2>4. SLReserveOk' /\ SLCountOk' /\ SLTrackerOk'
    BY <1>1, <1>2, <2>1, SLAssumption DEF SLInd, SLTyped, SLReserveOk, SLCountOk, SLTrackerOk
  <2>5. SLDurableOk'
    BY <1>1, <2>1 DEF SLDurableOk
  <2>6. SLSharedOk'
    BY <1>1, <1>2, <2>1 DEF SLSharedOk
  <2> QED BY <2>2, <2>3, <2>4, <2>5, <2>6 DEF SLInd
<1>4. CASE SLStart
  <2>1. /\ slUp' /\ slUp' \in BOOLEAN /\ slKind # SLNone /\ slKind' = slKind /\ (slKind = "durable" => slDisk # Torn)
        /\ slSpent' = IF slKind = "durable" THEN slDisk ELSE 0
    BY <1>4 DEF SLStart
  <2>2. SLTyped' /\ SLFresh'
    BY <1>1, <1>2, <2>1 DEF SLInd, SLTyped, SLFresh
  <2>3. SLShape'
    BY <1>1, <1>2, <2>1 DEF SLInd, SLShape
  <2>4. SLReserveOk' /\ SLCountOk' /\ SLTrackerOk'
    BY <1>1, <1>2, <2>1, SLAssumption DEF SLInd, SLTyped, SLReserveOk, SLCountOk, SLTrackerOk
  <2>5. SLDurableOk'
    <3>1. SLSaving' = {}
      BY <1>1, <1>2 DEF SLSaving
    <3> QED BY <1>1, <2>1, <3>1 DEF SLInd, SLTyped, SLDurableOk
  <2>6. SLSharedOk'
    <3>1. slCrashed = 0 => slDisk = 0
      BY <1>1 DEF SLInd, SLFresh
    <3> QED BY <1>1, <1>2, <2>1, <3>1 DEF SLInd, SLSharedOk
  <2> QED BY <2>2, <2>3, <2>4, <2>5, <2>6 DEF SLInd
<1> QED BY <1>3, <1>4

\* The process dies.
LEMMA SLCrashPreserves ==
    ASSUME SLInd, SLCrash
    PROVE  SLInd'
<1>1. /\ slUp /\ slUp' = FALSE /\ slSpent' = 0 /\ slReserved' = 0 /\ slQueue' = <<>> /\ slKind' = slKind
      /\ slCall' = [c \in SLCalls |-> SLIdle] /\ slCrashed' = slCrashed + 1 /\ UNCHANGED <<slPaid, slMissed>>
      /\ slRaced' = (slRaced \/ SLSaving # {} \/ \E c \in SLCalls : slCall[c].paid > 0)
      /\ slDisk' \in {slDisk} \cup {Torn : c \in SLSaving} \cup {slCall[c].snap : c \in SLSaving}
  BY DEF SLCrash
<1>2. slCrashed' \in Nat /\ slCrashed' # 0 /\ slRaced' \in BOOLEAN
  BY <1>1 DEF SLInd, SLTyped
<1>3. slDisk' \in Nat \cup {Torn} /\ (slDisk' = Torn => slKind = "durable")
  <2>1. \A c \in SLSaving : slCall[c].snap \in Nat /\ slKind = "durable"
    BY DEF SLInd, SLTyped, SLShape, SLSaving
  <2> QED BY <1>1, <2>1 DEF SLInd, SLTyped, SLShape, Torn
<1>4. SLTyped'
  <2>1. slCall' \in [SLCalls -> [pc : SLPcs, amount : Nat, paid : Nat, snap : Nat]]
    BY <1>1 DEF SLIdle, SLPcs
  <2>2. slQueue' \in Seq([call : SLCalls, op : {"record", "exclusive", "spent"}])
    BY <1>1
  <2>3. slUp' \in BOOLEAN
    BY <1>1, Zenon
  <2> QED BY <1>1, <1>2, <1>3, <2>1, <2>2, <2>3 DEF SLInd, SLTyped
<1>5. \A c \in SLCalls : slCall'[c].pc = "idle" /\ slCall'[c].amount = 0 /\ slCall'[c].paid = 0
  BY <1>1 DEF SLIdle
<1>6. SLShape'
  BY <1>1, <1>3, <1>5 DEF SLShape
<1>7. SLFresh'
  BY <1>1, <1>2 DEF SLInd, SLFresh
<1>8. SLReserveOk' /\ SLCountOk' /\ SLTrackerOk'
  BY <1>2 DEF SLReserveOk, SLCountOk, SLTrackerOk
<1>9. SLDurableOk'
  <2> SUFFICES ASSUME slKind = "durable", ~slRaced' PROVE slDisk' = slPaid
    BY <1>1 DEF SLDurableOk
  <2>1. SLSaving = {} /\ ~slRaced /\ \A c \in SLCalls : slCall[c].paid = 0
    <3>1. ~(slRaced \/ SLSaving # {} \/ \E c \in SLCalls : slCall[c].paid > 0)
      BY <1>1, Zenon
    <3>2. \A c \in SLCalls : slCall[c].paid \in Nat
      BY DEF SLInd, SLTyped
    <3> QED BY <3>1, <3>2
  <2>2. slDisk' = slDisk /\ slDisk = slSpent /\ slPaid = slSpent + SLUnderWay
    BY <1>1, <2>1 DEF SLInd, SLDurableOk
  <2> QED BY <2>1, <2>2, SLNothingUnderWay DEF SLInd, SLTyped
<1>10. SLSharedOk'
  BY <1>2, <1>5 DEF SLSharedOk
<1> QED BY <1>4, <1>6, <1>7, <1>8, <1>9, <1>10 DEF SLInd

\* A step that moves one call of a running ledger.
SLMove(c, to) ==
    /\ slUp /\ slUp' = slUp /\ slKind' = slKind /\ slCrashed' = slCrashed
    /\ slCall' = [slCall EXCEPT ![c] = to]
    /\ to \in [pc : SLPcs, amount : Nat, paid : Nat, snap : Nat]
    /\ to.paid <= to.amount
    /\ to.pc \in {"idle", "saving"} => to.amount = 0
    /\ to.pc = "saving" => slKind = "durable"
    /\ slKind = "shared" => to.pc \notin {"paying", "saving"}
    /\ slKind # "shared" => to.pc \in {"idle", "paying", "saving"}

\* The shape of the state, and the two sums, after such a step.
LEMMA SLMoves ==
    ASSUME SLInd, NEW c \in SLCalls, NEW to, SLMove(c, to),
           slSpent' \in Nat /\ slReserved' \in Nat /\ slPaid' \in Nat /\ slMissed' \in Nat,
           slDisk' \in Nat \/ slDisk' = slDisk, slRaced' \in BOOLEAN,
           slQueue' \in Seq([call : SLCalls, op : {"record", "exclusive", "spent"}])
    PROVE  /\ SLTyped' /\ SLShape' /\ SLFresh'
           /\ SLUnderWay \in Nat /\ SLUnderWay' \in Nat /\ SLAsked \in Nat /\ SLAsked' \in Nat
           /\ SLUnderWay' = SLUnderWay - slCall[c].paid + to.paid
           /\ SLAsked' = SLAsked - slCall[c].amount + to.amount
           /\ \A d \in SLCalls : slCall'[d] = IF d = c THEN to ELSE slCall[d]
<1>0. SLTyped /\ SLShape /\ SLFresh
  BY DEF SLInd
<1>1. \A d \in SLCalls : slCall'[d] = IF d = c THEN to ELSE slCall[d]
  BY <1>0 DEF SLTyped, SLMove
<1>2. slUp /\ slUp' = slUp /\ slKind' = slKind /\ slCrashed' = slCrashed
  BY DEF SLMove
<1>3. slDisk' \in Nat \cup {Torn} /\ (slDisk' = Torn => slKind = "durable")
  BY <1>0 DEF SLTyped, SLShape, Torn
<1>4. SLTyped'
  <2>1. slCall' \in [SLCalls -> [pc : SLPcs, amount : Nat, paid : Nat, snap : Nat]]
    BY <1>0 DEF SLTyped, SLMove
  <2> QED BY <1>0, <1>2, <1>3, <2>1 DEF SLTyped
<1>5. SLFresh'
  BY <1>0, <1>2 DEF SLFresh
<1>6. SLShape'
  <2> SUFFICES ASSUME NEW d \in SLCalls
               PROVE  /\ slCall'[d].paid <= slCall'[d].amount
                      /\ slCall'[d].pc \in {"idle", "saving"} => slCall'[d].amount = 0
                      /\ slCall'[d].pc = "saving" => slKind = "durable"
                      /\ IF slKind = "shared" THEN slCall'[d].pc \notin {"paying", "saving"}
                         ELSE slCall'[d].pc \in {"idle", "paying", "saving"}
    BY <1>2, <1>3 DEF SLShape
  <2>1. CASE d = c
    BY <1>1, <2>1 DEF SLMove
  <2>2. CASE d # c
    BY <1>0, <1>1, <2>2 DEF SLShape
  <2> QED BY <2>1, <2>2
<1>7. slCall' = [slCall EXCEPT ![c] = to]
  BY DEF SLMove
<1>8. /\ SLUnderWay \in Nat /\ SLUnderWay' \in Nat /\ SLAsked \in Nat /\ SLAsked' \in Nat
      /\ SLUnderWay' = SLUnderWay - slCall[c].paid + to.paid
      /\ SLAsked' = SLAsked - slCall[c].amount + to.amount
  BY ONLY <1>0, <1>4, <1>7, c \in SLCalls, SLSumsChange
<1> QED BY <1>1, <1>4, <1>5, <1>6, <1>8

\* A call of another ledger says nothing about the shared one.
LEMMA SLSharedKept ==
    ASSUME slKind # "shared", slKind' = slKind
    PROVE  SLSharedOk'
BY DEF SLSharedOk

\* A payment is asked for.
LEMMA SLAskPreserves ==
    ASSUME SLInd, NEW c \in SLCalls, SLAsk(c)
    PROVE  SLInd'
<1>1. PICK a \in SLAmounts :
        /\ SLFits(a) /\ slCall' = [slCall EXCEPT ![c] = [SLIdle EXCEPT !.pc = "paying", !.amount = a]]
        /\ slReserved' = IF slKind = "reserve" THEN slReserved + a ELSE slReserved
        /\ slSpent' = IF slKind = "tracker" THEN slSpent + a ELSE slSpent
  BY DEF SLAsk, SLGo
<1>2. /\ slUp /\ slKind # "shared" /\ slCall[c].pc = "idle"
      /\ slKind' = slKind /\ slUp' = slUp /\ slDisk' = slDisk /\ slQueue' = slQueue
      /\ slPaid' = slPaid /\ slMissed' = slMissed /\ slCrashed' = slCrashed /\ slRaced' = slRaced
  BY DEF SLAsk
<1>a. a \in Nat
  BY SLAssumption
<1>4. PICK to : SLMove(c, to) /\ to.paid = 0 /\ to.amount = a /\ to.pc = "paying"
  <2>1. PICK to : to = [SLIdle EXCEPT !.pc = "paying", !.amount = a]
    OBVIOUS
  <2>2. to.paid = 0 /\ to.amount = a /\ to.pc = "paying"
    BY <2>1 DEF SLIdle
  <2>3. to \in [pc : SLPcs, amount : Nat, paid : Nat, snap : Nat]
    BY <1>a, <2>1 DEF SLIdle, SLPcs
  <2>4. slCall' = [slCall EXCEPT ![c] = to]
    BY <1>1, <2>1
  <2>5. SLMove(c, to)
    BY <1>2, <1>a, <2>2, <2>3, <2>4 DEF SLMove
  <2> QED BY <2>2, <2>5
<1>5. slCall[c].paid = 0 /\ slCall[c].amount = 0
  BY <1>2 DEF SLInd, SLTyped, SLShape
<1>6. slSpent' \in Nat /\ slReserved' \in Nat /\ slPaid' \in Nat /\ slMissed' \in Nat
  BY <1>1, <1>2, <1>a DEF SLInd, SLTyped
<1>7. slRaced' \in BOOLEAN /\ slQueue' \in Seq([call : SLCalls, op : {"record", "exclusive", "spent"}])
  BY <1>2, Zenon DEF SLInd, SLTyped
<1>8. /\ SLTyped' /\ SLShape' /\ SLFresh'
      /\ SLUnderWay \in Nat /\ SLAsked \in Nat /\ SLUnderWay' = SLUnderWay - slCall[c].paid + to.paid
      /\ SLAsked' = SLAsked - slCall[c].amount + to.amount
      /\ \A d \in SLCalls : slCall'[d] = IF d = c THEN to ELSE slCall[d]
  BY ONLY <1>2, <1>4, <1>6, <1>7, SLInd, c \in SLCalls, SLMoves
<1>9. SLUnderWay' = SLUnderWay /\ SLAsked' = SLAsked + a
  BY <1>4, <1>5, <1>8, <1>a
<1>b. SLUnderWay \in Nat /\ SLAsked \in Nat /\ slSpent \in Nat /\ slReserved \in Nat /\ slPaid \in Nat
      /\ slMissed \in Nat /\ SLCeiling \in Nat
  BY <1>8, SLAssumption DEF SLInd, SLTyped
<1>10. SLReserveOk' /\ SLCountOk' /\ SLTrackerOk'
  <2>1. SLReserveOk'
    BY <1>1, <1>2, <1>9, <1>a, <1>b DEF SLInd, SLReserveOk, SLFits
  <2>2. SLCountOk'
    BY <1>1, <1>2, <1>9 DEF SLInd, SLCountOk
  <2>3. SLTrackerOk'
    BY <1>1, <1>2, <1>9, <1>a, <1>b DEF SLInd, SLTrackerOk, SLFits
  <2> QED BY <2>1, <2>2, <2>3
<1>11. SLDurableOk'
  <2>1. SLSaving' = SLSaving /\ \A d \in SLSaving : slCall'[d] = slCall[d]
    BY <1>2, <1>4, <1>8 DEF SLSaving
  <2> QED BY <1>1, <1>2, <1>9, <2>1 DEF SLInd, SLDurableOk
<1>12. SLSharedOk'
  BY <1>2, SLSharedKept
<1> QED BY <1>8, <1>10, <1>11, <1>12 DEF SLInd

\* A payment settles on chain.
LEMMA SLSettlesPreserves ==
    ASSUME SLInd, NEW c \in SLCalls, SLSettles(c)
    PROVE  SLInd'
<1>1. PICK s \in IF slKind = "reserve" THEN 1..slCall[c].amount ELSE {slCall[c].amount} :
        slCall' = [slCall EXCEPT ![c] = [slCall[c] EXCEPT !.paid = s]] /\ slPaid' = slPaid + s
  BY DEF SLSettles, SLGo
<1>2. /\ slCall[c].pc = "paying" /\ slCall[c].paid = 0
      /\ slKind' = slKind /\ slUp' = slUp /\ slDisk' = slDisk /\ slQueue' = slQueue /\ slSpent' = slSpent
      /\ slReserved' = slReserved /\ slMissed' = slMissed /\ slCrashed' = slCrashed /\ slRaced' = slRaced
  BY DEF SLSettles
<1>3. slUp /\ slKind # "shared" /\ slCall[c] \in [pc : SLPcs, amount : Nat, paid : Nat, snap : Nat]
  BY <1>2 DEF SLInd, SLTyped, SLShape
<1>a. s \in Nat /\ s <= slCall[c].amount
  BY <1>1, <1>3
<1>4. PICK to : /\ to = [slCall[c] EXCEPT !.paid = s] /\ SLMove(c, to) /\ to.paid = s
                /\ to.amount = slCall[c].amount /\ to.pc = "paying"
  <2>1. PICK to : to = [slCall[c] EXCEPT !.paid = s]
    OBVIOUS
  <2>2. to.paid = s /\ to.amount = slCall[c].amount /\ to.pc = "paying"
    BY <1>2, <1>3, <2>1
  <2>3. to \in [pc : SLPcs, amount : Nat, paid : Nat, snap : Nat]
    BY <1>3, <1>a, <2>1
  <2>4. SLMove(c, to)
    BY <1>1, <1>2, <1>3, <1>a, <2>1, <2>2, <2>3 DEF SLMove
  <2> QED BY <2>1, <2>2, <2>4
<1>6. slSpent' \in Nat /\ slReserved' \in Nat /\ slPaid' \in Nat /\ slMissed' \in Nat
  BY <1>1, <1>2, <1>a DEF SLInd, SLTyped
<1>7. slRaced' \in BOOLEAN /\ slQueue' \in Seq([call : SLCalls, op : {"record", "exclusive", "spent"}])
  BY <1>2, Zenon DEF SLInd, SLTyped
<1>8. /\ SLTyped' /\ SLShape' /\ SLFresh'
      /\ SLUnderWay \in Nat /\ SLAsked \in Nat /\ SLUnderWay' = SLUnderWay - slCall[c].paid + to.paid
      /\ SLAsked' = SLAsked - slCall[c].amount + to.amount
      /\ \A d \in SLCalls : slCall'[d] = IF d = c THEN to ELSE slCall[d]
  BY ONLY <1>2, <1>4, <1>6, <1>7, SLInd, c \in SLCalls, SLMoves
<1>9. SLUnderWay' = SLUnderWay + s /\ SLAsked' = SLAsked
  BY <1>2, <1>3, <1>4, <1>8, <1>a
<1>b. SLUnderWay \in Nat /\ SLAsked \in Nat /\ slSpent \in Nat /\ slReserved \in Nat /\ slPaid \in Nat
      /\ slMissed \in Nat
  BY <1>8 DEF SLInd, SLTyped
<1>c. slPaid' = slPaid + s
  BY <1>1
<1>10. SLReserveOk' /\ SLCountOk' /\ SLTrackerOk'
  <2>1. SLReserveOk'
    BY <1>2, <1>9, <1>a, <1>b, <1>c DEF SLInd, SLReserveOk
  <2>2. SLCountOk'
    BY <1>2, <1>9, <1>a, <1>b, <1>c DEF SLInd, SLCountOk
  <2>3. SLTrackerOk'
    BY <1>2, <1>9, <1>a, <1>b, <1>c DEF SLInd, SLTrackerOk
  <2> QED BY <2>1, <2>2, <2>3
<1>11. SLDurableOk'
  <2>1. SLSaving' = SLSaving /\ \A d \in SLSaving : slCall'[d] = slCall[d]
    BY <1>2, <1>4, <1>8 DEF SLSaving
  <2> QED BY <1>2, <1>3, <1>9, <1>a, <1>b, <1>c, <2>1 DEF SLInd, SLDurableOk
<1>12. SLSharedOk'
  BY <1>2, <1>3, SLSharedKept
<1> QED BY <1>8, <1>10, <1>11, <1>12 DEF SLInd

\* The record of an idle call, and of one that saves.
LEMMA SLRecords ==
    ASSUME NEW n \in Nat
    PROVE  /\ SLIdle \in [pc : SLPcs, amount : Nat, paid : Nat, snap : Nat]
           /\ SLIdle.pc = "idle" /\ SLIdle.amount = 0 /\ SLIdle.paid = 0
           /\ [SLIdle EXCEPT !.pc = "saving", !.snap = n] \in [pc : SLPcs, amount : Nat, paid : Nat, snap : Nat]
           /\ [SLIdle EXCEPT !.pc = "saving", !.snap = n].pc = "saving"
           /\ [SLIdle EXCEPT !.pc = "saving", !.snap = n].amount = 0
           /\ [SLIdle EXCEPT !.pc = "saving", !.snap = n].paid = 0
           /\ [SLIdle EXCEPT !.pc = "saving", !.snap = n].snap = n
<1>1. SLIdle \in [pc : SLPcs, amount : Nat, paid : Nat, snap : Nat]
  BY DEF SLIdle, SLPcs
<1>2. [SLIdle EXCEPT !.pc = "saving", !.snap = n] \in [pc : SLPcs, amount : Nat, paid : Nat, snap : Nat]
  BY DEF SLIdle, SLPcs
<1> QED BY <1>1, <1>2 DEF SLIdle

\* A call ends.
LEMMA SLEnds ==
    ASSUME SLInd, NEW c \in SLCalls, slUp, slUp' = slUp /\ slKind' = slKind /\ slCrashed' = slCrashed,
           slCall' = [slCall EXCEPT ![c] = SLIdle],
           slSpent' \in Nat /\ slReserved' \in Nat /\ slPaid' \in Nat /\ slMissed' \in Nat,
           slDisk' \in Nat \/ slDisk' = slDisk, slRaced' \in BOOLEAN,
           slQueue' \in Seq([call : SLCalls, op : {"record", "exclusive", "spent"}])
    PROVE  /\ SLTyped' /\ SLShape' /\ SLFresh'
           /\ SLUnderWay \in Nat /\ SLUnderWay' \in Nat /\ SLAsked \in Nat /\ SLAsked' \in Nat
           /\ SLUnderWay' = SLUnderWay - slCall[c].paid
           /\ SLAsked' = SLAsked - slCall[c].amount
           /\ \A d \in SLCalls : slCall'[d] = IF d = c THEN SLIdle ELSE slCall[d]
<1>1. 0 \in Nat
  OBVIOUS
<1>2. /\ SLIdle \in [pc : SLPcs, amount : Nat, paid : Nat, snap : Nat]
      /\ SLIdle.pc = "idle" /\ SLIdle.amount = 0 /\ SLIdle.paid = 0
  BY <1>1, SLRecords
<1>3. SLMove(c, SLIdle)
  BY <1>2 DEF SLMove
<1>4. /\ SLTyped' /\ SLShape' /\ SLFresh'
      /\ SLUnderWay \in Nat /\ SLUnderWay' \in Nat /\ SLAsked \in Nat /\ SLAsked' \in Nat
      /\ SLUnderWay' = SLUnderWay - slCall[c].paid + SLIdle.paid
      /\ SLAsked' = SLAsked - slCall[c].amount + SLIdle.amount
      /\ \A d \in SLCalls : slCall'[d] = IF d = c THEN SLIdle ELSE slCall[d]
  BY <1>3, SLMoves
<1>5. slCall[c].paid \in Nat /\ slCall[c].amount \in Nat
  BY DEF SLInd, SLTyped
<1>6. SLUnderWay' = SLUnderWay - slCall[c].paid /\ SLAsked' = SLAsked - slCall[c].amount
  BY ONLY <1>2, <1>4, <1>5
<1> QED BY <1>4, <1>6, Zenon

\* The answer of a paid request, in a ledger in memory.
LEMMA SLBookInMemory ==
    ASSUME SLInd, NEW c \in SLCalls, SLBook(c), ~SLRecordDurable(c)
    PROVE  SLInd'
<1>1. /\ slCall[c].pc = "paying" /\ slKind' = slKind /\ slUp' = slUp /\ slDisk' = slDisk
      /\ slQueue' = slQueue /\ slPaid' = slPaid /\ slCrashed' = slCrashed
  BY DEF SLBook
<1>2. slUp /\ slKind # "shared" /\ slCall[c].paid <= slCall[c].amount
  BY <1>1 DEF SLInd, SLShape
<1>3. /\ slCall[c].paid \in Nat /\ slCall[c].amount \in Nat /\ slSpent \in Nat /\ slReserved \in Nat
      /\ slPaid \in Nat /\ slMissed \in Nat /\ SLCeiling \in Nat
  BY SLAssumption DEF SLInd, SLTyped
<1>4. slQueue' \in Seq([call : SLCalls, op : {"record", "exclusive", "spent"}]) /\ slRaced \in BOOLEAN
  BY <1>1, Zenon DEF SLInd, SLTyped
<1> DEFINE p == slCall[c].paid
           a == slCall[c].amount
<1>5. \/ /\ slKind = "reserve" /\ slReserved' = slReserved - a /\ slReserved >= a /\ slSpent' = slSpent + p
         /\ slMissed' = slMissed
      \/ /\ slKind \in {"caps", "timeout", "context"} /\ slReserved' = slReserved
         /\ \/ slSpent' = slSpent + p /\ slMissed' = slMissed
            \/ slSpent' = slSpent + a /\ slMissed' = slMissed
            \/ slSpent' = slSpent /\ slMissed' = slMissed + p
      \/ /\ slKind = "tracker" /\ slReserved' = slReserved /\ slSpent' = slSpent /\ slMissed' = slMissed
  <2>1. CASE SLSettleReserved(c)
    BY <2>1 DEF SLSettleReserved
  <2>2. CASE SLRecordCapped(c)
    BY <2>2 DEF SLRecordCapped
  <2>3. CASE SLRecordPlain(c)
    BY <2>3 DEF SLRecordPlain
  <2>4. CASE SLTimeoutBooked(c)
    BY <2>4 DEF SLTimeoutBooked
  <2>5. CASE SLTimeoutReset(c)
    BY <2>5 DEF SLTimeoutReset
  <2> QED BY <2>1, <2>2, <2>3, <2>4, <2>5 DEF SLBook
<1>6. slCall' = [slCall EXCEPT ![c] = SLIdle] /\ slRaced' = slRaced
  BY DEF SLBook, SLGo, SLSettleReserved, SLRecordCapped, SLRecordPlain, SLTimeoutBooked, SLTimeoutReset
<1>7. slSpent' \in Nat /\ slReserved' \in Nat /\ slPaid' \in Nat /\ slMissed' \in Nat
  BY <1>1, <1>3, <1>5
<1>8. slRaced' \in BOOLEAN
  BY <1>4, <1>6, Zenon
<1>9. /\ SLTyped' /\ SLShape' /\ SLFresh'
      /\ SLUnderWay \in Nat /\ SLUnderWay' \in Nat /\ SLAsked \in Nat /\ SLAsked' \in Nat
      /\ SLUnderWay' = SLUnderWay - slCall[c].paid
      /\ SLAsked' = SLAsked - slCall[c].amount
  BY ONLY <1>1, <1>2, <1>4, <1>6, <1>7, <1>8, SLInd, c \in SLCalls, SLEnds
<1>10. SLReserveOk'
  BY <1>1, <1>2, <1>3, <1>5, <1>9 DEF SLInd, SLReserveOk
<1>11. SLCountOk'
  BY <1>1, <1>2, <1>3, <1>5, <1>9 DEF SLInd, SLCountOk
<1>12. SLTrackerOk'
  BY <1>1, <1>2, <1>3, <1>5, <1>9 DEF SLInd, SLTrackerOk
<1>13. SLDurableOk'
  BY <1>1, <1>5 DEF SLDurableOk
<1>14. SLSharedOk'
  BY <1>1, <1>2, SLSharedKept
<1> QED BY <1>9, <1>10, <1>11, <1>12, <1>13, <1>14 DEF SLInd

\* The durable ledger records, and starts to save.
LEMMA SLBookDurable ==
    ASSUME SLInd, NEW c \in SLCalls, SLBook(c), SLRecordDurable(c)
    PROVE  SLInd'
<1>1. /\ slCall[c].pc = "paying" /\ slKind' = slKind /\ slUp' = slUp /\ slDisk' = slDisk /\ slKind = "durable"
      /\ slQueue' = slQueue /\ slPaid' = slPaid /\ slCrashed' = slCrashed /\ slReserved' = slReserved
      /\ slMissed' = slMissed
  BY DEF SLBook, SLRecordDurable
<1>2. slUp /\ slCall[c].paid <= slCall[c].amount
  BY <1>1 DEF SLInd, SLShape
<1>3. /\ slCall[c].paid \in Nat /\ slCall[c].amount \in Nat /\ slSpent \in Nat /\ slReserved \in Nat
      /\ slPaid \in Nat /\ slMissed \in Nat
  BY DEF SLInd, SLTyped
<1>4. slQueue' \in Seq([call : SLCalls, op : {"record", "exclusive", "spent"}]) /\ slRaced \in BOOLEAN
  BY <1>1, Zenon DEF SLInd, SLTyped
<1>5. slSpent' = slSpent + slCall[c].paid
  BY DEF SLRecordDurable
<1>6. slRaced' = (slRaced \/ SLSaving # {})
  BY DEF SLRecordDurable
<1>7. slSpent' \in Nat /\ slReserved' \in Nat /\ slPaid' \in Nat /\ slMissed' \in Nat
  BY <1>1, <1>3, <1>5
<1>8. slRaced' \in BOOLEAN
  BY <1>6, Zenon
<1>9. ~slRaced' => ~slRaced /\ SLSaving = {}
  BY <1>6, Zenon
<1>10. SLReserveOk' /\ SLCountOk' /\ SLTrackerOk' /\ SLSharedOk'
  BY <1>1 DEF SLReserveOk, SLCountOk, SLTrackerOk, SLSharedOk
<1>11. CASE slCall[c].paid = 0
  <2>1. slCall' = [slCall EXCEPT ![c] = SLIdle]
    BY <1>11 DEF SLRecordDurable, SLGo
  <2>2. /\ SLTyped' /\ SLShape' /\ SLFresh'
        /\ SLUnderWay \in Nat /\ SLUnderWay' = SLUnderWay - slCall[c].paid
        /\ \A d \in SLCalls : slCall'[d] = IF d = c THEN SLIdle ELSE slCall[d]
    BY ONLY <1>1, <1>2, <1>4, <1>7, <1>8, <2>1, SLInd, c \in SLCalls, SLEnds
  <2>3. SLSaving' = SLSaving
    BY <1>1, <2>2 DEF SLSaving, SLIdle
  <2>4. SLUnderWay' = SLUnderWay /\ slSpent' = slSpent
    BY <1>3, <1>5, <1>11, <2>2
  <2>5. SLDurableOk'
    BY <1>1, <1>2, <1>9, <2>3, <2>4 DEF SLInd, SLDurableOk
  <2> QED BY <1>10, <2>2, <2>5 DEF SLInd
<1>12. CASE slCall[c].paid # 0
  <2>1. PICK to : to = [SLIdle EXCEPT !.pc = "saving", !.snap = slSpent + slCall[c].paid]
    OBVIOUS
  <2>2. slCall' = [slCall EXCEPT ![c] = to]
    BY <1>12, <2>1 DEF SLRecordDurable, SLGo
  <2>3. slSpent + slCall[c].paid \in Nat
    BY <1>3
  <2>4. /\ to \in [pc : SLPcs, amount : Nat, paid : Nat, snap : Nat]
        /\ to.pc = "saving" /\ to.amount = 0 /\ to.paid = 0 /\ to.snap = slSpent + slCall[c].paid
    BY <2>1, <2>3, SLRecords
  <2>5. SLMove(c, to)
    BY <1>1, <1>2, <2>2, <2>4 DEF SLMove
  <2>6. /\ SLTyped' /\ SLShape' /\ SLFresh'
        /\ SLUnderWay \in Nat /\ SLUnderWay' = SLUnderWay - slCall[c].paid + to.paid
        /\ \A d \in SLCalls : slCall'[d] = IF d = c THEN to ELSE slCall[d]
    BY ONLY <1>1, <1>4, <1>7, <1>8, <2>5, SLInd, c \in SLCalls, SLMoves
  <2>7. SLSaving' = SLSaving \cup {c}
    BY <2>4, <2>6 DEF SLSaving
  <2>8. SLUnderWay' = SLUnderWay - slCall[c].paid /\ slCall'[c].snap = slSpent'
    BY <1>3, <1>5, <2>4, <2>6
  <2>9. slSpent' + SLUnderWay' = slSpent + SLUnderWay
    BY <1>3, <1>5, <2>6, <2>8
  <2>10. SLDurableOk'
    BY <1>1, <1>2, <1>9, <2>7, <2>8, <2>9 DEF SLInd, SLDurableOk
  <2> QED BY <1>10, <2>6, <2>10 DEF SLInd
<1> QED BY <1>11, <1>12

\* The file holds the snapshot, or the save failed.
LEMMA SLSavedPreserves ==
    ASSUME SLInd, NEW c \in SLCalls, SLSaved(c)
    PROVE  SLInd'
<1>1. /\ slCall[c].pc = "saving" /\ slKind' = slKind /\ slUp' = slUp /\ slSpent' = slSpent
      /\ slQueue' = slQueue /\ slPaid' = slPaid /\ slCrashed' = slCrashed /\ slReserved' = slReserved
      /\ slMissed' = slMissed /\ slCall' = [slCall EXCEPT ![c] = SLIdle]
  BY DEF SLSaved, SLGo
<1>2. slUp /\ slKind = "durable" /\ slCall[c].paid = 0 /\ slCall[c].snap \in Nat
  BY <1>1 DEF SLInd, SLShape, SLTyped
<1>3. slSpent' \in Nat /\ slReserved' \in Nat /\ slPaid' \in Nat /\ slMissed' \in Nat
  BY <1>1 DEF SLInd, SLTyped
<1>4. slQueue' \in Seq([call : SLCalls, op : {"record", "exclusive", "spent"}]) /\ slRaced \in BOOLEAN
  BY <1>1, Zenon DEF SLInd, SLTyped
<1>5. (slDisk' = slCall[c].snap /\ slRaced' = slRaced) \/ (slRaced' = TRUE /\ slDisk' = slDisk)
  BY DEF SLSaved
<1>6. slRaced' \in BOOLEAN
  BY <1>4, <1>5, Zenon
<1>7. slDisk' \in Nat \/ slDisk' = slDisk
  BY <1>2, <1>5
<1>8. /\ SLTyped' /\ SLShape' /\ SLFresh'
      /\ SLUnderWay \in Nat /\ SLUnderWay' = SLUnderWay - slCall[c].paid
      /\ \A d \in SLCalls : slCall'[d] = IF d = c THEN SLIdle ELSE slCall[d]
  BY ONLY <1>1, <1>2, <1>3, <1>4, <1>6, <1>7, SLInd, c \in SLCalls, SLEnds
<1>9. SLSaving' = SLSaving \ {c} /\ c \in SLSaving
  BY <1>1, <1>8 DEF SLSaving, SLIdle
<1>10. SLReserveOk' /\ SLCountOk' /\ SLTrackerOk' /\ SLSharedOk'
  BY <1>1, <1>2 DEF SLReserveOk, SLCountOk, SLTrackerOk, SLSharedOk
<1>11. SLDurableOk'
  <2> SUFFICES ASSUME ~slRaced' PROVE SLDurableOk'
    BY DEF SLDurableOk
  <2>1. ~slRaced /\ slDisk' = slCall[c].snap
    BY <1>5
  <2>2. /\ slPaid = slSpent + SLUnderWay /\ slCall[c].snap = slSpent /\ \A d \in SLSaving : d = c
    BY <1>2, <1>9, <2>1 DEF SLInd, SLDurableOk
  <2>3. SLSaving' = {} /\ SLUnderWay' = SLUnderWay
    BY <1>2, <1>8, <1>9, <2>2
  <2> QED BY <1>1, <1>2, <2>1, <2>2, <2>3 DEF SLDurableOk
<1> QED BY <1>8, <1>10, <1>11 DEF SLInd

\* The first item of a chain, and a chain that grows or shrinks.
LEMMA SLChain ==
    ASSUME NEW S, NEW q \in Seq(S), NEW x \in S
    PROVE  /\ Append(q, x) \in Seq(S) /\ Append(q, x) # <<>>
           /\ q # <<>> => Head(Append(q, x)) = Head(q) /\ Tail(q) \in Seq(S) /\ Head(q) \in S
BY AppendProperties, HeadTailProperties

\* A shared tracker is no other ledger.
LEMMA SLOnlyShared ==
    ASSUME slKind = "shared", slKind' = slKind
    PROVE  SLReserveOk' /\ SLCountOk' /\ SLTrackerOk' /\ SLDurableOk'
BY DEF SLReserveOk, SLCountOk, SLTrackerOk, SLDurableOk

\* An operation of the shared tracker takes its place in the chain.
LEMMA SLSharedPreserves ==
    ASSUME SLInd, NEW c \in SLCalls, SLShared(c)
    PROVE  SLInd'
<1>1. PICK op \in {"record", "exclusive", "spent"}, a \in SLAmounts :
        /\ slQueue' = Append(slQueue, [call |-> c, op |-> op])
        /\ slCall' = [slCall EXCEPT ![c] = [SLIdle EXCEPT !.pc = op, !.amount = a]]
  BY DEF SLShared, SLEnqueue, SLGo
<1>2. /\ slUp /\ slKind = "shared" /\ slCall[c].pc = "idle"
      /\ slKind' = slKind /\ slUp' = slUp /\ slDisk' = slDisk /\ slSpent' = slSpent /\ slReserved' = slReserved
      /\ slPaid' = slPaid /\ slMissed' = slMissed /\ slCrashed' = slCrashed /\ slRaced' = slRaced
  BY DEF SLShared
<1>3. PICK to : SLMove(c, to) /\ to.pc = op
  <2>1. PICK to : to = [SLIdle EXCEPT !.pc = op, !.amount = a]
    OBVIOUS
  <2>2. to.paid = 0 /\ to.amount = a /\ to.pc = op /\ a \in Nat
    BY <2>1, SLAssumption DEF SLIdle
  <2>3. to \in [pc : SLPcs, amount : Nat, paid : Nat, snap : Nat]
    BY <2>1, <2>2 DEF SLIdle, SLPcs
  <2>4. slCall' = [slCall EXCEPT ![c] = to]
    BY <1>1, <2>1
  <2>5. SLMove(c, to)
    BY <1>2, <2>2, <2>3, <2>4 DEF SLMove
  <2> QED BY <2>2, <2>5
<1>4. slSpent' \in Nat /\ slReserved' \in Nat /\ slPaid' \in Nat /\ slMissed' \in Nat
  BY <1>2 DEF SLInd, SLTyped
<1>5. slRaced' \in BOOLEAN /\ slQueue \in Seq([call : SLCalls, op : {"record", "exclusive", "spent"}])
  BY <1>2, Zenon DEF SLInd, SLTyped
<1>6. [call |-> c, op |-> op] \in [call : SLCalls, op : {"record", "exclusive", "spent"}]
  OBVIOUS
<1>7. /\ slQueue' \in Seq([call : SLCalls, op : {"record", "exclusive", "spent"}]) /\ slQueue' # <<>>
      /\ slQueue # <<>> => Head(slQueue') = Head(slQueue)
  BY ONLY <1>1, <1>5, <1>6, SLChain
<1>8. /\ SLTyped' /\ SLShape' /\ SLFresh'
      /\ \A d \in SLCalls : slCall'[d] = IF d = c THEN to ELSE slCall[d]
  BY ONLY <1>2, <1>3, <1>4, <1>5, <1>7, SLInd, c \in SLCalls, SLMoves
<1>9. SLSharedOk'
  <2>1. \A d \in SLCalls : slCall'[d].pc = "setting" => slCall'[d] = slCall[d]
    BY <1>3, <1>8
  <2> QED BY <1>2, <1>7, <2>1 DEF SLInd, SLSharedOk
<1> QED BY <1>2, <1>8, <1>9, SLOnlyShared DEF SLInd

\* The chain runs its first operation: a record reads and then writes the total, an exclusive
\* section asks for the total and then records, a read ends.
LEMMA SLTrackerStepPreserves ==
    ASSUME SLInd, NEW c \in SLCalls, SLTrackerStep(c)
    PROVE  SLInd'
<1>1. /\ slKind' = slKind /\ slUp' = slUp /\ slReserved' = slReserved /\ slPaid' = slPaid
      /\ slMissed' = slMissed /\ slCrashed' = slCrashed /\ slRaced' = slRaced
  BY DEF SLTrackerStep, SLGetItem, SLSetItem, SLExclusive, SLSpent
<1>2. slQueue # <<>> /\ Head(slQueue).call = c
  BY DEF SLTrackerStep, SLGetItem, SLSetItem, SLExclusive, SLSpent, SLRuns
<1>3. slCall[c].pc \in {"record", "setting", "exclusive", "spent", "checking"}
  BY DEF SLTrackerStep, SLGetItem, SLSetItem, SLExclusive, SLSpent
<1>4. slKind = "shared" /\ slUp
  BY <1>3 DEF SLInd, SLShape
<1>5. /\ slCall[c] \in [pc : SLPcs, amount : Nat, paid : Nat, snap : Nat] /\ slDisk \in Nat /\ slSpent \in Nat
      /\ slCall[c].paid <= slCall[c].amount
  BY <1>4 DEF SLInd, SLTyped, SLShape
<1>6. slReserved' \in Nat /\ slPaid' \in Nat /\ slMissed' \in Nat
  BY <1>1 DEF SLInd, SLTyped
<1>7. slRaced' \in BOOLEAN /\ slQueue \in Seq([call : SLCalls, op : {"record", "exclusive", "spent"}])
  BY <1>1, Zenon DEF SLInd, SLTyped
<1>8. SLReserveOk' /\ SLCountOk' /\ SLTrackerOk' /\ SLDurableOk'
  BY <1>1, <1>4, SLOnlyShared
<1>9. [call |-> c, op |-> "spent"] \in [call : SLCalls, op : {"record", "exclusive", "spent"}]
  OBVIOUS
<1>10. /\ Tail(slQueue) \in Seq([call : SLCalls, op : {"record", "exclusive", "spent"}])
       /\ Append(slQueue, [call |-> c, op |-> "spent"]) \in Seq([call : SLCalls, op : {"record", "exclusive", "spent"}])
  BY ONLY <1>2, <1>7, <1>9, SLChain
<1>11. /\ slCrashed = 0 => slDisk = slSpent
       /\ \A d \in SLCalls : slCall[d].pc = "setting" =>
             Head(slQueue).call = d /\ Head(slQueue).op = "record" /\ slCall[d].snap = slDisk
  BY <1>4 DEF SLInd, SLSharedOk
<1>12. CASE SLGetItem(c)
  <2>1. /\ Head(slQueue).op = "record" /\ slQueue' = slQueue /\ slDisk' = slDisk /\ slSpent' = slSpent
        /\ slCall' = [slCall EXCEPT ![c] = [slCall[c] EXCEPT !.pc = "setting", !.snap = slDisk]]
    BY <1>2, <1>12 DEF SLGetItem, SLRuns, SLGo
  <2>2. PICK to : to = [slCall[c] EXCEPT !.pc = "setting", !.snap = slDisk]
    OBVIOUS
  <2>3. /\ to.pc = "setting" /\ to.snap = slDisk /\ to.paid = slCall[c].paid /\ to.amount = slCall[c].amount
    BY <1>5, <2>2
  <2>4. to \in [pc : SLPcs, amount : Nat, paid : Nat, snap : Nat]
    BY <1>5, <2>2 DEF SLPcs
  <2>5. SLMove(c, to)
    BY <1>1, <1>4, <1>5, <2>1, <2>2, <2>3, <2>4 DEF SLMove
  <2>6. slSpent' \in Nat /\ slQueue' \in Seq([call : SLCalls, op : {"record", "exclusive", "spent"}])
    BY <1>5, <1>7, <2>1
  <2>7. /\ SLTyped' /\ SLShape' /\ SLFresh'
        /\ \A d \in SLCalls : slCall'[d] = IF d = c THEN to ELSE slCall[d]
    BY ONLY <1>6, <1>7, <2>1, <2>5, <2>6, SLInd, c \in SLCalls, SLMoves
  <2>8. SLSharedOk'
    BY <1>1, <1>2, <1>11, <2>1, <2>3, <2>7 DEF SLSharedOk
  <2> QED BY <1>8, <2>7, <2>8 DEF SLInd
<1>13. CASE SLExclusive(c)
  <2>1. /\ Head(slQueue).op = "exclusive" /\ slDisk' = slDisk /\ slSpent' = slSpent
        /\ slQueue' = Append(slQueue, [call |-> c, op |-> "spent"])
        /\ slCall' = [slCall EXCEPT ![c] = [slCall[c] EXCEPT !.pc = "checking"]]
    BY <1>2, <1>13 DEF SLExclusive, SLRuns, SLGo
  <2>2. PICK to : to = [slCall[c] EXCEPT !.pc = "checking"]
    OBVIOUS
  <2>3. /\ to.pc = "checking" /\ to.paid = slCall[c].paid /\ to.amount = slCall[c].amount
    BY <1>5, <2>2
  <2>4. to \in [pc : SLPcs, amount : Nat, paid : Nat, snap : Nat]
    BY <1>5, <2>2 DEF SLPcs
  <2>5. SLMove(c, to)
    BY <1>1, <1>4, <1>5, <2>1, <2>2, <2>3, <2>4 DEF SLMove
  <2>6. slSpent' \in Nat /\ slQueue' \in Seq([call : SLCalls, op : {"record", "exclusive", "spent"}])
    BY <1>5, <1>10, <2>1
  <2>7. /\ SLTyped' /\ SLShape' /\ SLFresh'
        /\ \A d \in SLCalls : slCall'[d] = IF d = c THEN to ELSE slCall[d]
    BY ONLY <1>6, <1>7, <2>1, <2>5, <2>6, SLInd, c \in SLCalls, SLMoves
  <2>8. \A d \in SLCalls : slCall'[d].pc # "setting"
    BY <1>11, <2>1, <2>3, <2>7
  <2>9. SLSharedOk'
    BY <1>1, <1>11, <2>1, <2>8 DEF SLSharedOk
  <2> QED BY <1>8, <2>7, <2>9 DEF SLInd
<1>14. CASE SLSetItem(c) \/ SLSpent(c)
  <2>1. slQueue' = Tail(slQueue) /\ slCall' = [slCall EXCEPT ![c] = SLIdle]
    BY <1>14 DEF SLSetItem, SLSpent, SLDequeue, SLGo
  <2>2. PICK n \in Nat : slDisk' = slDisk + n /\ slSpent' = slSpent + n
    <3>1. CASE SLSetItem(c)
      <4>1. slCall[c].snap = slDisk
        BY <1>11, <3>1 DEF SLSetItem
      <4>2. \/ slDisk' = slDisk + slCall[c].amount /\ slSpent' = slSpent + slCall[c].amount
            \/ slDisk' = slDisk + 0 /\ slSpent' = slSpent + 0
        BY <1>5, <3>1, <4>1 DEF SLSetItem
      <4> QED BY <1>5, <4>2
    <3>2. CASE SLSpent(c)
      <4>1. \/ slDisk' = slDisk + slCall[c].amount /\ slSpent' = slSpent + slCall[c].amount
            \/ slDisk' = slDisk + 0 /\ slSpent' = slSpent + 0
        BY <3>2 DEF SLSpent
      <4> QED BY <1>5, <4>1
    <3> QED BY <1>14, <3>1, <3>2
  <2>3. \A d \in SLCalls : d # c => slCall[d].pc # "setting"
    BY <1>2, <1>11
  <2>4. slSpent' \in Nat /\ slDisk' \in Nat
    BY <1>5, <2>2
  <2>5. slQueue' \in Seq([call : SLCalls, op : {"record", "exclusive", "spent"}])
    BY <1>10, <2>1
  <2>6. /\ SLTyped' /\ SLShape' /\ SLFresh'
        /\ \A d \in SLCalls : slCall'[d] = IF d = c THEN SLIdle ELSE slCall[d]
    BY ONLY <1>1, <1>4, <1>6, <1>7, <2>1, <2>4, <2>5, SLInd, c \in SLCalls, SLEnds
  <2>7. \A d \in SLCalls : slCall'[d].pc # "setting"
    BY <2>3, <2>6 DEF SLIdle
  <2>8. SLSharedOk'
    BY <1>1, <1>5, <1>11, <2>2, <2>7 DEF SLSharedOk
  <2> QED BY <1>8, <2>6, <2>8 DEF SLInd
<1> QED BY <1>12, <1>13, <1>14 DEF SLTrackerStep

\* The invariant of the spend ledgers is inductive.
LEMMA SLNextPreserves ==
    ASSUME SLInd, [SLNext]_slVars
    PROVE  SLInd'
<1>1. CASE UNCHANGED slVars
  <2>1. /\ slKind' = slKind /\ slUp' = slUp /\ slSpent' = slSpent /\ slReserved' = slReserved
        /\ slDisk' = slDisk /\ slCall' = slCall /\ slQueue' = slQueue /\ slPaid' = slPaid
        /\ slMissed' = slMissed /\ slCrashed' = slCrashed /\ slRaced' = slRaced
    BY <1>1 DEF slVars
  <2>2. SLUnderWay' = SLUnderWay /\ SLAsked' = SLAsked /\ SLSaving' = SLSaving
    BY <2>1 DEF SLUnderWay, SLAsked, SLSaving
  <2>3. SLTyped' /\ SLShape' /\ SLFresh' /\ SLSharedOk'
    BY <2>1 DEF SLInd, SLTyped, SLShape, SLFresh, SLSharedOk
  <2>4. SLReserveOk' /\ SLCountOk' /\ SLTrackerOk' /\ SLDurableOk'
    BY <2>1, <2>2 DEF SLInd, SLReserveOk, SLCountOk, SLTrackerOk, SLDurableOk
  <2> QED BY <2>3, <2>4 DEF SLInd
<1>2. CASE SLConfigure \/ SLStart \/ SLCrash
  BY <1>2, SLStartPreserves, SLCrashPreserves
<1>3. ASSUME NEW c \in SLCalls,
             SLAsk(c) \/ SLSettles(c) \/ SLBook(c) \/ SLSaved(c) \/ SLShared(c) \/ SLTrackerStep(c)
      PROVE  SLInd'
  BY <1>3, SLAskPreserves, SLSettlesPreserves, SLBookInMemory, SLBookDurable, SLSavedPreserves,
     SLSharedPreserves, SLTrackerStepPreserves
<1> QED BY <1>1, <1>2, <1>3 DEF SLNext

LEMMA SLInitInd == SLInit => SLInd
<1> SUFFICES ASSUME SLInit PROVE SLInd
  OBVIOUS
<1>1. /\ slKind = SLNone /\ slUp = FALSE /\ slSpent = 0 /\ slReserved = 0 /\ slDisk = 0
      /\ slCall = [c \in SLCalls |-> SLIdle] /\ slQueue = <<>>
      /\ slPaid = 0 /\ slMissed = 0 /\ slCrashed = 0 /\ slRaced = FALSE
  BY DEF SLInit
<1>2. \A c \in SLCalls : slCall[c].pc = "idle" /\ slCall[c].amount = 0 /\ slCall[c].paid = 0
  BY <1>1 DEF SLIdle
<1>3. SLTyped
  <2>1. slCall \in [SLCalls -> [pc : SLPcs, amount : Nat, paid : Nat, snap : Nat]]
    BY <1>1 DEF SLIdle, SLPcs
  <2>2. slUp \in BOOLEAN /\ slRaced \in BOOLEAN
    BY <1>1, Zenon
  <2>3. slQueue \in Seq([call : SLCalls, op : {"record", "exclusive", "spent"}])
    BY <1>1
  <2> QED BY <1>1, <2>1, <2>2, <2>3 DEF SLTyped
<1>4. SLShape /\ SLFresh
  BY <1>1, <1>2 DEF SLShape, SLFresh, Torn
<1>5. SLUnderWay = 0 /\ SLAsked = 0
  BY <1>2, SLNothingUnderWay, SLNothingAsked
<1>6. SLReserveOk /\ SLCountOk /\ SLTrackerOk
  BY <1>1, <1>5, SLAssumption DEF SLReserveOk, SLCountOk, SLTrackerOk
<1>7. SLDurableOk
  BY <1>1 DEF SLDurableOk
<1>8. SLSharedOk
  BY <1>1, <1>2 DEF SLSharedOk
<1> QED BY <1>3, <1>4, <1>6, <1>7, <1>8 DEF SLInd

\* The books of every spend ledger cover what was settled on chain: with reservations all of
\* it and never more than the ceiling, with caps, timeouts and contexts all but what an error
\* path skipped, with the tracker at most what was booked, with the durable ledger all of it
\* across restarts while no save raced or was lost, with the shared tracker every record.
THEOREM BooksCoverTheChain == SLSpec => []SLBooksCoverTheChain
<1>1. SLInd => SLBooksCoverTheChain
  <2> SUFFICES ASSUME SLInd PROVE SLBooksCoverTheChain
    OBVIOUS
  <2>1. SLUnderWay \in Nat /\ SLAsked \in Nat /\ SLUnderWay <= SLAsked
    BY SLPaidIsAsked DEF SLInd
  <2>2. slSpent \in Nat /\ slReserved \in Nat /\ slPaid \in Nat /\ slMissed \in Nat /\ SLCeiling \in Nat
    BY SLAssumption DEF SLInd, SLTyped
  <2>3. (slKind = "reserve" /\ slCrashed = 0) =>
          slPaid <= SLCeiling /\ SLRemaining >= 0 /\ slSpent + SLUnderWay = slPaid
    BY <2>1, <2>2 DEF SLInd, SLReserveOk, SLRemaining
  <2>4. (slKind = "tracker" /\ slCrashed = 0) => (slPaid <= slSpent /\ slSpent <= SLCeiling)
    BY <2>1, <2>2 DEF SLInd, SLTrackerOk
  <2> QED BY <2>3, <2>4 DEF SLInd, SLBooksCoverTheChain, SLCountOk, SLDurableOk, SLSharedOk
<1> QED BY <1>1, SLInitInd, SLNextPreserves, PTL DEF SLSpec
-----------------------------------------------------------------------------
(* Type correctness of the whole. *)

\* The steps a saga takes after the given one.
PDLater(step) ==
    CASE step = "generate" -> {"simulate", "instance", "attach", "record"}
      [] step = "simulate" -> {"instance", "attach", "record"}
      [] step = "instance" -> {"attach", "record"}
      [] step = "attach" -> {"record"}
      [] step = "record" -> {}

\* Each attempt of a step takes effect at most once, and no step does before its turn.
PDAttemptsBound(j) ==
    /\ pdTry[j] \in 0 .. (PDAttempts - 1)
    /\ \A s \in Steps : pdEffect[j][s] <= PDAttempts + 2
    /\ pdPc[j] \notin Steps => pdTry[j] = 0
    /\ pdPc[j] \in Steps =>
         /\ pdEffect[j][pdPc[j]] <= pdTry[j]
         /\ \A s \in PDLater(pdPc[j]) : pdEffect[j][s] = 0

PDBounded == DOMAIN pdTry = PDJobs /\ \A j \in PDJobs : PDAttemptsBound(j)

LEMMA PDInitBounded == PDInit => PDBounded
BY PDAssumption DEF PDInit, PDBounded, PDAttemptsBound, Steps

\* A step of one job leaves the others' attempts and effects alone.
LEMMA PDOthersBounded ==
    ASSUME PDBounded, NEW j \in PDJobs, DOMAIN pdTry' = PDJobs, PDAttemptsBound(j)',
           \A d \in PDJobs \ {j} : pdTry'[d] = pdTry[d] /\ pdEffect'[d] = pdEffect[d] /\ pdPc'[d] = pdPc[d]
    PROVE  PDBounded'
BY DEF PDBounded, PDAttemptsBound

LEMMA PDStepBounded ==
    ASSUME PDInd, PDBounded, NEW j \in PDJobs, NEW step \in Steps, PDStep(j, step)
    PROVE  PDBounded'
<1>1. PICK reply \in {"ok", "refused", "transit", "lost"} :
        /\ IF reply \in {"ok", "lost"} THEN PDTookEffect(j, step) ELSE UNCHANGED pdEffect
        /\ CASE reply = "ok" -> PDGoOn(j, step)
             [] reply \in {"transit", "lost"} /\ PDRetries(j, step) ->
                    /\ pdTry' = [pdTry EXCEPT ![j] = @ + 1]
                    /\ UNCHANGED <<pdPc, pdLast, pdKnown, pdError>>
             [] OTHER -> PDGiveUp(j)
  BY DEF PDStep
<1>2. /\ pdPc[j] = step /\ PDAttemptsBound(j) /\ \A s \in Steps : pdEffect[j][s] \in Nat
      /\ pdPc \in [PDJobs -> PDEnded \cup Steps \cup {"queued", "undo"}] /\ DOMAIN pdTry = PDJobs
  BY DEF PDStep, PDBounded, PDInd, PDTyped
<1>3. /\ \A s \in Steps \ {step} : pdEffect'[j][s] = pdEffect[j][s]
      /\ pdEffect'[j][step] \in {pdEffect[j][step], pdEffect[j][step] + 1}
      /\ \A d \in PDJobs \ {j} : pdEffect'[d] = pdEffect[d]
  <2>1. CASE reply \in {"ok", "lost"}
    <3>1. pdEffect' = [pdEffect EXCEPT ![j][step] = @ + 1]
      BY <1>1, <2>1 DEF PDTookEffect
    <3> QED BY <3>1 DEF PDInd, PDTyped
  <2>2. CASE reply \notin {"ok", "lost"}
    BY <1>1, <2>2
  <2> QED BY <2>1, <2>2
<1>4. pdEffect[j][step] <= pdTry[j] /\ pdTry[j] \in 0 .. (PDAttempts - 1) /\ \A s \in PDLater(step) : pdEffect[j][s] = 0
  BY <1>2 DEF PDAttemptsBound
<1>5. \A s \in Steps : pdEffect'[j][s] <= PDAttempts + 2
  BY <1>2, <1>3, <1>4, PDAssumption DEF PDAttemptsBound
<1>6. CASE PDGoOn(j, step)
  <2>1. PDNextStep(j, step) \in PDLater(step) \cup {"done"} /\ PDLater(step) \subseteq Steps \ {step}
    BY DEF PDNextStep, PDLater, Steps
  <2>2. pdTry' = [pdTry EXCEPT ![j] = 0]
    BY <1>6 DEF PDGoOn
  <2>3. pdPc' = [pdPc EXCEPT ![j] = PDNextStep(j, step)]
    BY <1>6 DEF PDGoOn, PDFinish, PDMove
  <2>4. pdPc'[j] = PDNextStep(j, step) /\ pdTry'[j] = 0 /\ DOMAIN pdTry' = PDJobs
    BY <1>2, <2>2, <2>3
  <2>5. pdPc'[j] \in Steps => PDLater(pdPc'[j]) \subseteq PDLater(step) /\ pdPc'[j] \in PDLater(step)
    BY <2>1, <2>4 DEF PDNextStep, PDLater, Steps
  <2>6. \A s \in PDLater(step) : pdEffect'[j][s] = 0
    BY <1>3, <1>4, <2>1
  <2>7. PDAttemptsBound(j)'
    BY <1>5, <2>4, <2>5, <2>6, PDAssumption DEF PDAttemptsBound
  <2>8. \A d \in PDJobs \ {j} : pdTry'[d] = pdTry[d] /\ pdPc'[d] = pdPc[d]
    BY <1>2, <2>2, <2>3
  <2> QED BY <1>3, <2>4, <2>7, <2>8, PDOthersBounded
<1>7. CASE PDRetries(j, step) /\ pdTry' = [pdTry EXCEPT ![j] = @ + 1] /\ pdPc' = pdPc
  <2>1. pdTry'[j] = pdTry[j] + 1 /\ DOMAIN pdTry' = PDJobs /\ pdPc'[j] = step
    BY <1>2, <1>7
  <2>2. pdTry'[j] \in 0 .. (PDAttempts - 1)
    BY <1>4, <1>7, <2>1, PDAssumption DEF PDRetries
  <2>3. PDLater(step) \subseteq Steps \ {step}
    BY DEF PDLater, Steps
  <2>4. pdEffect'[j][step] <= pdTry'[j] /\ \A s \in PDLater(step) : pdEffect'[j][s] = 0
    BY <1>2, <1>3, <1>4, <2>1, <2>3
  <2>5. PDAttemptsBound(j)'
    BY <1>5, <2>1, <2>2, <2>4 DEF PDAttemptsBound
  <2>6. \A d \in PDJobs \ {j} : pdTry'[d] = pdTry[d] /\ pdPc'[d] = pdPc[d]
    BY <1>2, <1>7
  <2> QED BY <1>3, <2>1, <2>5, <2>6, PDOthersBounded
<1>8. CASE PDGiveUp(j)
  <2>1. pdTry' = [pdTry EXCEPT ![j] = 0]
    BY <1>8 DEF PDGiveUp
  <2>2. PICK where \in {"undo", "threw"} : pdPc' = [pdPc EXCEPT ![j] = where]
    BY <1>8 DEF PDGiveUp, PDFinish, PDMove
  <2>3. pdPc'[j] \notin Steps /\ pdTry'[j] = 0 /\ DOMAIN pdTry' = PDJobs
    BY <1>2, <2>1, <2>2 DEF Steps
  <2>4. PDAttemptsBound(j)'
    BY <1>5, <2>3, PDAssumption DEF PDAttemptsBound
  <2>5. \A d \in PDJobs \ {j} : pdTry'[d] = pdTry[d] /\ pdPc'[d] = pdPc[d]
    BY <1>2, <2>1, <2>2
  <2> QED BY <1>3, <2>3, <2>4, <2>5, PDOthersBounded
<1> QED BY <1>1, <1>6, <1>7, <1>8

LEMMA PDNextBounded == PDInd /\ PDBounded /\ [PDNext]_pdVars => PDBounded'
<1> SUFFICES ASSUME PDInd, PDBounded, [PDNext]_pdVars PROVE PDBounded'
  OBVIOUS
<1>1. /\ pdPc \in [PDJobs -> PDEnded \cup Steps \cup {"queued", "undo"}]
      /\ pdEffect \in [PDJobs -> [Steps -> Nat]] /\ DOMAIN pdTry = PDJobs
      /\ \A j \in PDJobs : PDAttemptsBound(j)
  BY DEF PDInd, PDTyped, PDBounded
<1>2. ASSUME NEW j \in PDJobs, PDSubmit(j) PROVE PDBounded'
  <2>1. PICK where \in {"queued", "refused"} : pdPc' = [pdPc EXCEPT ![j] = where]
    BY <1>2 DEF PDSubmit, PDMove
  <2>2. UNCHANGED <<pdTry, pdEffect>> /\ pdPc[j] \notin Steps
    BY <1>2 DEF PDSubmit, Steps
  <2>3. pdPc'[j] \notin Steps /\ \A d \in PDJobs \ {j} : pdPc'[d] = pdPc[d]
    BY <1>1, <2>1 DEF Steps
  <2>4. PDAttemptsBound(j)'
    BY <1>1, <2>2, <2>3 DEF PDAttemptsBound
  <2> QED BY <1>1, <2>2, <2>3, <2>4, PDOthersBounded
<1>3. ASSUME NEW j \in PDJobs, PDBegin(j) PROVE PDBounded'
  <2>1. PICK where \in {"generate", "instance"} : pdPc' = [pdPc EXCEPT ![j] = where]
    BY <1>3 DEF PDBegin, PDMove
  <2>2. UNCHANGED <<pdTry, pdEffect>> /\ pdPc[j] = "queued" /\ "queued" \notin Steps
    BY <1>3 DEF PDBegin, Steps
  <2>3. pdPc'[j] = where /\ \A d \in PDJobs \ {j} : pdPc'[d] = pdPc[d]
    BY <1>1, <2>1
  <2>4. \A s \in Steps : pdEffect[j][s] = 0
    BY <2>2 DEF PDInd, PDJobIsSound, PDPendingIsClean
  <2>5. where \in Steps /\ PDLater(where) \subseteq Steps
    BY DEF PDLater, Steps
  <2>6. pdTry[j] \in 0 .. (PDAttempts - 1) /\ pdTry[j] = 0 /\ 0 <= PDAttempts + 2
    BY <1>1, <2>2, PDAssumption DEF PDAttemptsBound
  <2>7. /\ \A s \in Steps : pdEffect'[j][s] = 0
        /\ pdTry'[j] = 0 /\ pdPc'[j] = where
    BY <2>2, <2>3, <2>4, <2>6
  <2>8. PDAttemptsBound(j)'
    <3>1. pdTry'[j] \in 0 .. (PDAttempts - 1) /\ \A s \in Steps : pdEffect'[j][s] <= PDAttempts + 2
      BY <2>2, <2>6, <2>7
    <3>2. pdPc'[j] \notin Steps => pdTry'[j] = 0
      BY <2>7
    <3>3. pdEffect'[j][where] = 0 /\ \A s \in PDLater(where) : pdEffect'[j][s] = 0
      BY <2>5, <2>7
    <3>4. pdEffect'[j][pdPc'[j]] <= pdTry'[j] /\ \A s \in PDLater(pdPc'[j]) : pdEffect'[j][s] = 0
      BY <2>7, <3>3
    <3> QED BY <3>1, <3>2, <3>4 DEF PDAttemptsBound
  <2> QED BY <1>1, <2>2, <2>3, <2>8, PDOthersBounded
<1>4. ASSUME NEW j \in PDJobs, PDResume(j) PROVE PDBounded'
  <2>1. pdPc[j] = "threw" /\ pdEffect[j].record < 2 /\ UNCHANGED pdTry
    BY <1>4 DEF PDResume
  <2>2. PICK where \in {"done", "threw"} : pdPc' = [pdPc EXCEPT ![j] = where]
    BY <1>4 DEF PDResume, PDMove
  <2>3. pdEffect' = pdEffect \/ pdEffect' = [pdEffect EXCEPT ![j]["record"] = @ + 1]
    BY <1>4 DEF PDResume, PDTookEffect
  <2>4. /\ \A d \in PDJobs \ {j} : pdEffect'[d] = pdEffect[d] /\ pdPc'[d] = pdPc[d]
        /\ \A s \in Steps \ {"record"} : pdEffect'[j][s] = pdEffect[j][s]
        /\ pdEffect'[j]["record"] \in {pdEffect[j]["record"], pdEffect[j]["record"] + 1}
    BY <1>1, <2>2, <2>3 DEF Steps
  <2>5. pdPc'[j] \notin Steps /\ pdPc[j] \notin Steps
    BY <1>1, <2>1, <2>2 DEF Steps
  <2>6. \A s \in Steps : pdEffect'[j][s] <= PDAttempts + 2
    <3>1. pdEffect[j]["record"] \in Nat
      BY <1>1 DEF Steps
    <3>2. pdEffect'[j]["record"] <= PDAttempts + 2
      BY <2>1, <2>4, <3>1, PDAssumption
    <3> QED BY <1>1, <2>4, <3>2 DEF PDAttemptsBound
  <2>7. PDAttemptsBound(j)'
    BY <1>1, <2>1, <2>5, <2>6 DEF PDAttemptsBound
  <2> QED BY <1>1, <2>1, <2>4, <2>7, PDOthersBounded
<1>5. ASSUME NEW j \in PDJobs, PDUndo(j) PROVE PDBounded'
  <2>1. pdPc[j] = "undo" /\ UNCHANGED <<pdTry, pdPc>>
    BY <1>5 DEF PDUndo
  <2>2. PICK step \in {"generate", "instance"} :
            pdEffect' = pdEffect \/ pdEffect' = [pdEffect EXCEPT ![j][step] = @ - 1]
    BY <1>5 DEF PDUndo, PDUndoNext
  <2>3. /\ \A d \in PDJobs \ {j} : pdEffect'[d] = pdEffect[d]
        /\ \A s \in Steps \ {step} : pdEffect'[j][s] = pdEffect[j][s]
        /\ pdEffect'[j][step] \in {pdEffect[j][step], pdEffect[j][step] - 1} /\ step \in Steps
    BY <1>1, <2>2 DEF Steps
  <2>4. \A s \in Steps : pdEffect'[j][s] <= PDAttempts + 2
    <3>1. pdEffect[j][step] \in Nat /\ pdEffect[j][step] <= PDAttempts + 2
      BY <1>1, <2>3 DEF PDAttemptsBound
    <3>2. pdEffect'[j][step] <= PDAttempts + 2
      BY <2>3, <3>1, PDAssumption
    <3> QED BY <1>1, <2>3, <3>2 DEF PDAttemptsBound
  <2>5. PDAttemptsBound(j)'
    BY <1>1, <2>1, <2>4 DEF PDAttemptsBound, Steps
  <2> QED BY <1>1, <2>1, <2>3, <2>5, PDOthersBounded
<1>6. ASSUME NEW j \in PDJobs, PDUndoDone(j) PROVE PDBounded'
  <2>1. pdPc[j] = "undo" /\ UNCHANGED <<pdTry, pdEffect>> /\ pdPc' = [pdPc EXCEPT ![j] = "threw"]
    BY <1>6 DEF PDUndoDone, PDFinish, PDMove
  <2>2. pdPc'[j] \notin Steps /\ pdPc[j] \notin Steps /\ \A d \in PDJobs \ {j} : pdPc'[d] = pdPc[d]
    BY <1>1, <2>1 DEF Steps
  <2>3. PDAttemptsBound(j)'
    BY <1>1, <2>1, <2>2 DEF PDAttemptsBound
  <2> QED BY <1>1, <2>1, <2>2, <2>3, PDOthersBounded
<1>7. CASE UNCHANGED pdVars
  BY <1>1, <1>7 DEF pdVars, PDBounded, PDAttemptsBound
<1> QED BY <1>2, <1>3, <1>4, <1>5, <1>6, <1>7, PDStepBounded DEF PDNext

CallersInd == WCInd /\ AKInd /\ PDInd /\ PDBounded /\ CAInd /\ IDInd /\ SLInd

\* The six components that several callers use at once keep no state in common, so
\* the type of each, which its own inductive invariant implies, is kept by every step
\* of the whole, for every number of callers.
THEOREM CallersTypeSafety == Spec => []TypeOK
<1>1. Init => CallersInd
  BY WCInitInd, AKInitInd, PDInitInd, PDInitBounded, CAInitInd, IDInitInd, SLInitInd DEF Init, CallersInd
<1>2. CallersInd /\ [Next]_vars => CallersInd'
  <2> SUFFICES ASSUME CallersInd, [Next]_vars PROVE CallersInd'
    OBVIOUS
  <2>1. /\ [WCNext]_wcVars /\ [AKNext]_akVars /\ [PDNext]_pdVars
        /\ [CANext]_caVars /\ [IDNext]_idVars /\ [SLNext]_slVars
    BY DEF Next, vars
  <2> QED BY <2>1, WCNextInd, AKNextInd, PDNextInd, PDNextBounded, CANextInd, IDNextInd, SLNextPreserves
          DEF CallersInd
<1>3. CallersInd => TypeOK
  <2> SUFFICES ASSUME CallersInd PROVE TypeOK
    OBVIOUS
  <2>1. WCTypeOK /\ AKTypeOK /\ CATypeOK /\ IDTypeOK
    BY DEF CallersInd, WCInd, AKInd, CAInd, IDInd
  <2>2. SLTypeOK
    BY DEF CallersInd, SLInd, SLTyped, SLTypeOK
  <2>3. ASSUME NEW j \in PDJobs
        PROVE  pdTry[j] < PDAttempts /\ \A s \in Steps : pdEffect[j][s] \in 0..(PDAttempts + 2)
    <3>1. pdTry[j] \in 0 .. (PDAttempts - 1) /\ \A s \in Steps : pdEffect[j][s] <= PDAttempts + 2
      BY DEF CallersInd, PDBounded, PDAttemptsBound
    <3>2. \A s \in Steps : pdEffect[j][s] \in Nat
      BY DEF CallersInd, PDInd, PDTyped
    <3> QED BY <3>1, <3>2, PDAssumption
  <2>4. PDTypeOK
    BY <2>3 DEF CallersInd, PDInd, PDTypeOK
  <2> QED BY <2>1, <2>2, <2>4 DEF TypeOK
<1> QED BY <1>1, <1>2, <1>3, PTL DEF Spec

\* Every behaviour of the whole is a behaviour of each of the six, so that what the
\* theorems above say of one of them holds of it there.
THEOREM CallersAreTheirParts ==
    Spec => WCSpec /\ AKSpec /\ PDSpec /\ CASpec /\ IDSpec /\ SLSpec
<1>1. Init => WCInit /\ AKInit /\ PDInit /\ CAInit /\ IDInit /\ SLInit
  BY DEF Init
<1>2. [Next]_vars => /\ [WCNext]_wcVars /\ [AKNext]_akVars /\ [PDNext]_pdVars
                     /\ [CANext]_caVars /\ [IDNext]_idVars /\ [SLNext]_slVars
  BY DEF Next, vars
<1> QED BY <1>1, <1>2, PTL DEF Spec, WCSpec, AKSpec, PDSpec, CASpec, IDSpec, SLSpec
-----------------------------------------------------------------------------
(* Amounts. *)

\* The greatest of a set of positions is one of them.
LEMMA AMMaxIsGreatest ==
    ASSUME NEW n \in Nat, NEW s \in SUBSET (0..n), s # {}
    PROVE  Max(s) \in s /\ \A y \in s : Max(s) >= y
<1> DEFINE T == {k \in Nat : \A r \in SUBSET (0..k) : r # {} => \E x \in r : \A y \in r : x >= y}
<1>1. 0 \in T
  <2>1. 0..0 = {0} /\ 0 >= 0
    OBVIOUS
  <2>2. \A r \in SUBSET (0..0) : r # {} => r = {0}
    BY <2>1
  <2> QED BY <2>1, <2>2
<1>2. ASSUME NEW k \in T PROVE k + 1 \in T
  <2> SUFFICES ASSUME NEW r \in SUBSET (0..(k + 1)), r # {} PROVE \E x \in r : \A y \in r : x >= y
    OBVIOUS
  <2>1. CASE k + 1 \in r
    <3>1. \A y \in r : k + 1 >= y
      OBVIOUS
    <3> QED BY <2>1, <3>1
  <2>2. CASE k + 1 \notin r
    <3>1. r \in SUBSET (0..k)
      BY <2>2
    <3> QED BY <3>1
  <2> QED BY <2>1, <2>2
<1>3. T = Nat
  <2>1. T \in SUBSET Nat
    OBVIOUS
  <2> HIDE DEF T
  <2> QED BY <1>1, <1>2, <2>1, SetInduction
<1>4. \E x \in s : \A y \in s : x >= y
  BY <1>3
<1> QED BY <1>4 DEF Max

\* One step of the fold that reads a text as a number, and the function it iterates.
AMStep(g, t, s) == IF s = {} THEN 0 ELSE 10 * g[s \ {Max(s)}] + t[Max(s)]

AMIsFold(g, t, S) == g = [s \in SUBSET S |-> AMStep(g, t, s)]

\* The recursive definition of the fold has a solution.
LEMMA AMFoldExists == ASSUME NEW t, NEW len \in Nat PROVE \E g : AMIsFold(g, t, 1..len)
<1> DEFINE T == {n \in Nat : \E g : g = [s \in SUBSET (1..n) |-> AMStep(g, t, s)]}
<1>1. 0 \in T
  <2> DEFINE g == [s \in SUBSET (1..0) |-> 0]
  <2>1. \A s \in SUBSET (1..0) : s = {}
    OBVIOUS
  <2>2. \A s \in SUBSET (1..0) : AMStep(g, t, s) = 0
    BY <2>1 DEF AMStep
  <2>3. g = [s \in SUBSET (1..0) |-> AMStep(g, t, s)]
    BY <2>2
  <2> QED BY <2>3
<1>2. ASSUME NEW n \in T PROVE n + 1 \in T
  <2>1. PICK g : g = [s \in SUBSET (1..n) |-> AMStep(g, t, s)]
    OBVIOUS
  <2> DEFINE h == [s \in SUBSET (1..(n + 1)) |-> AMStep(g, t, s)]
  <2>2. SUBSET (1..n) \subseteq SUBSET (1..(n + 1))
    OBVIOUS
  <2>3. \A s \in SUBSET (1..n) : h[s] = g[s]
    BY <2>1, <2>2, Zenon
  <2>4. ASSUME NEW s \in SUBSET (1..(n + 1)) PROVE AMStep(g, t, s) = AMStep(h, t, s)
    <3>1. CASE s = {}
      BY <3>1 DEF AMStep
    <3>2. CASE s # {}
      <4>1. Max(s) \in s /\ \A y \in s : Max(s) >= y
        <5>1. n + 1 \in Nat /\ s \in SUBSET (0..(n + 1))
          OBVIOUS
        <5> QED BY <3>2, <5>1, AMMaxIsGreatest
      <4>2. s \ {Max(s)} \in SUBSET (1..n)
        <5> SUFFICES ASSUME NEW y \in s, y # Max(s) PROVE y \in 1..n
          OBVIOUS
        <5>1. /\ n \in Nat /\ y \in 1..(n + 1) /\ Max(s) \in 1..(n + 1) /\ Max(s) >= y
          BY <4>1
        <5> QED BY ONLY <5>1, y # Max(s)
      <4>3. h[s \ {Max(s)}] = g[s \ {Max(s)}]
        BY <2>3, <4>2
      <4> HIDE DEF h
      <4> QED BY <3>2, <4>3 DEF AMStep
    <3> QED BY <3>1, <3>2
  <2>5. h = [s \in SUBSET (1..(n + 1)) |-> AMStep(h, t, s)]
    BY <2>4, Zenon
  <2> HIDE DEF h
  <2> QED BY <2>5
<1>3. T = Nat
  <2>1. T \in SUBSET Nat
    OBVIOUS
  <2> HIDE DEF T
  <2> QED BY <1>1, <1>2, <2>1, SetInduction
<1>4. len \in T
  BY <1>3
<1> QED BY <1>4 DEF AMIsFold

\* The values a text of digits takes as it is read from its first character on.
AMReads(v, t) == /\ v \in [0..Len(t) -> Nat] /\ v[0] = 0
                 /\ \A i \in 1..Len(t) : v[i] = 10 * v[i - 1] + t[i]

\* Reading from left to right is what the fold computes.
LEMMA AMReadLeftToRight ==
    ASSUME NEW t \in Seq(Nat), NEW v, AMReads(v, t)
    PROVE  AMNumber(t) = v[Len(t)]
<1>1. AMNumber(t) = (CHOOSE h : AMIsFold(h, t, DOMAIN t))[DOMAIN t]
  BY Zenon DEF AMNumber, FoldLeft, MapThenFoldSet, AMIsFold, AMStep
<1>2. DOMAIN t = 1..Len(t) /\ Len(t) \in Nat /\ \A i \in 1..Len(t) : t[i] \in Nat
  OBVIOUS
<1> DEFINE g == CHOOSE h : AMIsFold(h, t, 1..Len(t))
<1>3. AMIsFold(g, t, 1..Len(t))
  BY <1>2, AMFoldExists
<1>4. AMNumber(t) = g[1..Len(t)]
  BY <1>1, <1>2
<1> HIDE DEF g
<1>5. \A s \in SUBSET (1..Len(t)) : g[s] = AMStep(g, t, s)
  BY <1>3, Zenon DEF AMIsFold
<1> DEFINE T == {n \in Nat : n <= Len(t) => g[1..n] = v[n]}
<1>6. 0 \in T
  <2>1. 1..0 = {} /\ 1..0 \in SUBSET (1..Len(t))
    OBVIOUS
  <2>2. g[1..0] = 0
    BY <1>5, <2>1 DEF AMStep
  <2> QED BY <2>2 DEF AMReads
<1>7. ASSUME NEW n \in T PROVE n + 1 \in T
  <2> SUFFICES ASSUME n + 1 <= Len(t) PROVE g[1..(n + 1)] = v[n + 1]
    OBVIOUS
  <2>1. g[1..n] = v[n] /\ n \in Nat
    BY <1>2
  <2> DEFINE s == 1..(n + 1)
  <2>2. s \in SUBSET (1..Len(t)) /\ s # {} /\ n + 1 \in s
    <3>1. \A y \in s : y \in 1..Len(t)
      BY <1>2, <2>1
    <3>2. n + 1 \in s
      BY <2>1
    <3> QED BY <3>1, <3>2
  <2>3. Max(s) = n + 1
    <3>1. Max(s) \in s /\ \A y \in s : Max(s) >= y
      <4>1. s \in SUBSET (0..Len(t))
        BY <1>2, <2>2
      <4> QED BY <1>2, <2>2, <4>1, AMMaxIsGreatest
    <3> QED BY <2>1, <2>2, <3>1
  <2>4. s \ {n + 1} = 1..n
    BY <2>1
  <2>5. n + 1 \in 1..Len(t) /\ (n + 1) - 1 = n
    BY <1>2, <2>1
  <2>6. v[n + 1] = 10 * v[n] + t[n + 1]
    BY <2>5 DEF AMReads
  <2> HIDE DEF s
  <2>7. g[s] = 10 * g[1..n] + t[n + 1]
    BY <1>5, <2>2, <2>3, <2>4 DEF AMStep
  <2> QED BY <2>1, <2>6, <2>7 DEF s
<1>8. T = Nat
  <2>1. T \in SUBSET Nat
    OBVIOUS
  <2> HIDE DEF T
  <2> QED BY <1>6, <1>7, <2>1, SetInduction
<1> QED BY <1>2, <1>4, <1>8

\* Every text of digits can be read so.
LEMMA AMCanBeRead == ASSUME NEW t \in Seq(Nat) PROVE \E v : AMReads(v, t)
<1> DEFINE Reads(v, n) == /\ v \in [0..n -> Nat] /\ v[0] = 0
                          /\ \A i \in 1..n : v[i] = 10 * v[i - 1] + t[i]
           T == {n \in Nat : n <= Len(t) => \E v : Reads(v, n)}
<1>1. Len(t) \in Nat /\ \A i \in 1..Len(t) : t[i] \in Nat
  OBVIOUS
<1>2. 0 \in T
  <2> DEFINE v == [i \in 0..0 |-> 0]
  <2>1. 0 \in 0..0 /\ \A i \in 1..0 : FALSE
    <3>1. 0 \in 0..0
      OBVIOUS
    <3>2. \A i \in 1..0 : FALSE
      OBVIOUS
    <3> QED BY ONLY <3>1, <3>2
  <2>2. v \in [0..0 -> Nat] /\ v[0] = 0
    BY <2>1
  <2> HIDE DEF v
  <2>3. Reads(v, 0)
    BY <2>1, <2>2
  <2> QED BY <2>3
<1>3. ASSUME NEW n \in T PROVE n + 1 \in T
  <2> HIDE DEF Reads
  <2> SUFFICES ASSUME n + 1 <= Len(t) PROVE \E v : Reads(v, n + 1)
    OBVIOUS
  <2> USE DEF Reads
  <2>1. n \in Nat /\ n <= Len(t) /\ n + 1 \in 1..Len(t)
    BY <1>1
  <2>2. PICK v : Reads(v, n)
    BY <2>1
  <2> DEFINE w == [i \in 0..(n + 1) |-> IF i = n + 1 THEN 10 * v[n] + t[n + 1] ELSE v[i]]
  <2>3. v[n] \in Nat /\ t[n + 1] \in Nat
    BY <1>1, <2>1, <2>2
  <2>4. \A i \in 0..(n + 1) : i = n + 1 \/ i \in 0..n
    BY <2>1
  <2>5. w \in [0..(n + 1) -> Nat]
    <3> DEFINE last == 10 * v[n] + t[n + 1]
    <3>1. last \in Nat
      BY <2>3
    <3> HIDE DEF last
    <3>2. \A i \in 0..(n + 1) : (IF i = n + 1 THEN last ELSE v[i]) \in Nat
      BY <2>2, <2>4, <3>1
    <3> QED BY <3>2 DEF last
  <2>6. w[0] = 0 /\ w[n + 1] = 10 * v[n] + t[n + 1] /\ \A i \in 0..n : w[i] = v[i]
    BY <2>1, <2>2
  <2> HIDE DEF w
  <2>7. ASSUME NEW i \in 1..(n + 1) PROVE w[i] = 10 * w[i - 1] + t[i]
    <3>1. CASE i = n + 1
      <4>1. i - 1 = n /\ n \in 0..n
        BY <2>1, <3>1
      <4> QED BY <2>6, <3>1, <4>1
    <3>2. CASE i # n + 1
      <4>1. i \in 1..n /\ i \in 0..n /\ i - 1 \in 0..n
        BY <2>1, <3>2
      <4> QED BY <2>2, <2>6, <4>1
    <3> QED BY <3>1, <3>2
  <2>8. Reads(w, n + 1)
    BY <2>5, <2>6, <2>7
  <2> QED BY <2>8
<1>4. T = Nat
  <2>1. T \in SUBSET Nat
    OBVIOUS
  <2> HIDE DEF T
  <2> QED BY <1>2, <1>3, <2>1, SetInduction
<1>5. \E v : Reads(v, Len(t))
  <2> HIDE DEF Reads
  <2>1. \A n \in Nat : n <= Len(t) => \E v : Reads(v, n)
    BY <1>4
  <2> QED BY <1>1, <2>1
<1> QED BY <1>5 DEF AMReads

\* A text of naturals, digits among them, reads as a natural number.
LEMMA AMNumberIsNat == ASSUME NEW t \in Seq(Nat) PROVE AMNumber(t) \in Nat
<1>1. PICK v : AMReads(v, t)
  BY AMCanBeRead
<1>2. AMNumber(t) = v[Len(t)] /\ Len(t) \in Nat
  BY <1>1, AMReadLeftToRight
<1> QED BY <1>1, <1>2 DEF AMReads

\* One more digit.
LEMMA AMNumberAppend ==
    ASSUME NEW t \in Seq(Nat), NEW c \in Nat
    PROVE  AMNumber(Append(t, c)) = 10 * AMNumber(t) + c
<1> DEFINE n == Len(t)
           u == Append(t, c)
<1>1. n \in Nat /\ u \in Seq(Nat) /\ Len(u) = n + 1 /\ u[n + 1] = c /\ \A i \in 1..n : u[i] = t[i]
  OBVIOUS
<1>2. PICK v : AMReads(v, t)
  BY AMCanBeRead
<1>3. v \in [0..n -> Nat] /\ v[0] = 0 /\ \A i \in 1..n : v[i] = 10 * v[i - 1] + t[i]
  BY <1>2 DEF AMReads
<1>4. AMNumber(t) = v[n] /\ v[n] \in Nat
  BY <1>1, <1>2, <1>3, AMReadLeftToRight
<1> HIDE DEF n, u
<1> DEFINE w == [i \in 0..(n + 1) |-> IF i = n + 1 THEN 10 * v[n] + c ELSE v[i]]
<1>5. \A i \in 0..(n + 1) : i = n + 1 \/ i \in 0..n
  BY <1>1
<1>6. w \in [0..(n + 1) -> Nat]
  BY <1>3, <1>4, <1>5
<1>7. w[0] = 0 /\ w[n + 1] = 10 * v[n] + c /\ \A i \in 0..n : w[i] = v[i]
  BY <1>1, <1>3
<1> HIDE DEF w
<1>8. ASSUME NEW i \in 1..(n + 1) PROVE w[i] = 10 * w[i - 1] + u[i]
  <2>1. CASE i = n + 1
    <3>1. i - 1 = n /\ n \in 0..n
      BY <1>1, <2>1
    <3> QED BY <1>1, <1>7, <2>1, <3>1
  <2>2. CASE i # n + 1
    <3>1. i \in 1..n /\ i \in 0..n /\ i - 1 \in 0..n
      BY <1>1, <2>2
    <3> QED BY <1>1, <1>3, <1>7, <3>1
  <2> QED BY <2>1, <2>2
<1>9. AMReads(w, u)
  BY <1>1, <1>6, <1>7, <1>8 DEF AMReads
<1>10. AMNumber(u) = w[n + 1]
  BY <1>1, <1>9, AMReadLeftToRight
<1> QED BY <1>4, <1>7, <1>10 DEF u

\* Zeros before a text, and the empty text.
LEMMA AMNumberPadded ==
    ASSUME NEW t \in Seq(Nat), NEW k \in Nat
    PROVE  AMNumber([i \in 1..k |-> 0] \o t) = AMNumber(t)
<1> DEFINE n == Len(t)
           z == [i \in 1..k |-> 0]
           u == z \o t
<1>1. n \in Nat /\ z \in Seq(Nat) /\ Len(z) = k /\ \A i \in 1..k : z[i] = 0
  OBVIOUS
<1>2. u \in Seq(Nat) /\ Len(u) = k + n /\ \A i \in 1..(k + n) : u[i] = IF i <= k THEN z[i] ELSE t[i - k]
  <2> HIDE DEF z
  <2> QED BY <1>1
<1>3. PICK v : AMReads(v, t)
  BY AMCanBeRead
<1>4. v \in [0..n -> Nat] /\ v[0] = 0 /\ \A i \in 1..n : v[i] = 10 * v[i - 1] + t[i]
  BY <1>3 DEF AMReads
<1>5. AMNumber(t) = v[n]
  BY <1>3, AMReadLeftToRight
<1> HIDE DEF n, u, z
<1> DEFINE w == [i \in 0..(k + n) |-> IF i <= k THEN 0 ELSE v[i - k]]
<1>6. w \in [0..(k + n) -> Nat]
  <2>1. ASSUME NEW i \in 0..(k + n), ~(i <= k) PROVE v[i - k] \in Nat
    <3>1. i - k \in 0..n
      BY <1>1, <2>1
    <3> QED BY <1>4, <3>1
  <2> QED BY <2>1
<1>7. ASSUME NEW i \in 0..(k + n), i >= k PROVE w[i] = v[i - k]
  <2>1. CASE i = k
    <3>1. i <= k /\ i - k = 0
      BY <2>1
    <3> QED BY <1>4, <3>1
  <2>2. CASE i # k
    <3>1. ~(i <= k)
      BY <1>1, <1>7, <2>2
    <3> QED BY <3>1
  <2> QED BY <2>1, <2>2
<1>8. \A i \in 0..(k + n) : i <= k => w[i] = 0
  OBVIOUS
<1> HIDE DEF w
<1>9. ASSUME NEW i \in 1..(k + n) PROVE w[i] = 10 * w[i - 1] + u[i]
  <2>1. i \in 0..(k + n) /\ i - 1 \in 0..(k + n)
    BY <1>1
  <2>2. CASE i <= k
    <3>1. i - 1 <= k /\ i \in 1..k
      BY <1>1, <2>2
    <3>2. w[i] = 0 /\ w[i - 1] = 0 /\ u[i] = 0
      BY <1>1, <1>2, <1>8, <2>1, <2>2, <3>1
    <3> QED BY <3>2
  <2>3. CASE ~(i <= k)
    <3> DEFINE j == i - k
    <3>1. i >= k /\ i - 1 >= k /\ j \in 1..n /\ (i - 1) - k = j - 1
      BY <1>1, <2>3
    <3>2. w[i] = v[j] /\ w[i - 1] = v[j - 1]
      BY <1>7, <2>1, <3>1
    <3>3. u[i] = t[j]
      BY <1>2, <2>3
    <3> HIDE DEF j
    <3> QED BY <1>4, <3>1, <3>2, <3>3
  <2> QED BY <2>2, <2>3
<1>10. w[0] = 0
  BY <1>1, <1>8
<1>11. AMReads(w, u)
  BY <1>2, <1>6, <1>9, <1>10 DEF AMReads
<1>12. AMNumber(u) = w[k + n]
  BY <1>2, <1>11, AMReadLeftToRight
<1>13. w[k + n] = v[n]
  <2>1. k + n \in 0..(k + n) /\ k + n >= k /\ (k + n) - k = n
    BY <1>1
  <2> QED BY <1>7, <2>1
<1> QED BY <1>5, <1>12, <1>13 DEF u, z

LEMMA AMNumberEmpty == AMNumber(<<>>) = 0
<1>1. <<>> \in Seq(Nat) /\ Len(<<>>) = 0
  OBVIOUS
<1>2. AMReads([i \in 0..0 |-> 0], <<>>)
  BY <1>1 DEF AMReads
<1>3. AMNumber(<<>>) = [i \in 0..0 |-> 0][Len(<<>>)]
  BY <1>1, <1>2, AMReadLeftToRight
<1> QED BY <1>1, <1>3

\* The least of a set of positions is one of them.
LEMMA AMMinIsLeast ==
    ASSUME NEW n \in Nat, NEW s \in SUBSET (1..n), s # {}
    PROVE  Min(s) \in s
<1> DEFINE T == {k \in Nat : \A r \in SUBSET (1..k) : r # {} => \E x \in r : \A y \in r : x =< y}
<1>1. 0 \in T
  <2>1. 1..0 = {}
    OBVIOUS
  <2>2. \A r \in SUBSET (1..0) : r = {}
    BY <2>1
  <2> QED BY <2>2
<1>2. ASSUME NEW k \in T PROVE k + 1 \in T
  <2> SUFFICES ASSUME NEW r \in SUBSET (1..(k + 1)), r # {} PROVE \E x \in r : \A y \in r : x =< y
    OBVIOUS
  <2>1. CASE r \cap (1..k) = {}
    <3>1. \A y \in r : y = k + 1
      <4> SUFFICES ASSUME NEW y \in r PROVE y = k + 1
        OBVIOUS
      <4>1. k \in Nat /\ y \in 1..(k + 1) /\ ~(y \in 1..k)
        BY <2>1
      <4> QED BY ONLY <4>1
    <3>2. k + 1 =< k + 1
      OBVIOUS
    <3> QED BY <3>1, <3>2
  <2>2. CASE r \cap (1..k) # {}
    <3>1. r \cap (1..k) \in SUBSET (1..k)
      OBVIOUS
    <3>2. PICK x \in r \cap (1..k) : \A y \in r \cap (1..k) : x =< y
      BY <2>2, <3>1
    <3>3. \A y \in r : y \in r \cap (1..k) \/ y = k + 1
      OBVIOUS
    <3>4. x =< k + 1
      BY <3>2
    <3> QED BY <3>2, <3>3, <3>4
  <2> QED BY <2>1, <2>2
<1>3. T = Nat
  <2>1. T \in SUBSET Nat
    OBVIOUS
  <2> HIDE DEF T
  <2> QED BY <1>1, <1>2, <2>1, SetInduction
<1>4. \E x \in s : \A y \in s : x =< y
  BY <1>3
<1> QED BY <1>4 DEF Min

\* What padding adds.
LEMMA AMMaxWithZero == ASSUME NEW x \in Int PROVE Max({x, 0}) = IF x >= 0 THEN x ELSE 0
<1>1. \E m \in {x, 0} : \A y \in {x, 0} : m >= y
  OBVIOUS
<1>2. Max({x, 0}) \in {x, 0} /\ \A y \in {x, 0} : Max({x, 0}) >= y
  BY <1>1 DEF Max
<1> QED BY <1>2

\* Trimming drops the last characters, all of them the one it trims.
LEMMA AMTrimEndKeeps ==
    ASSUME NEW S, NEW u \in Seq(S), NEW c
    PROVE  \E k \in 0..Len(u) : AMTrimEnd(u, c) = SubSeq(u, 1, k) /\ \A i \in (k + 1)..Len(u) : u[i] = c
<1> DEFINE P == {0} \cup {i \in DOMAIN u : u[i] # c}
<1>1. Len(u) \in Nat /\ DOMAIN u = 1..Len(u)
  OBVIOUS
<1>2. P \in SUBSET (0..Len(u)) /\ P # {}
  BY <1>1
<1>3. Max(P) \in P /\ \A y \in P : Max(P) >= y
  <2> HIDE DEF P
  <2> QED BY <1>1, <1>2, AMMaxIsGreatest
<1>4. Max(P) \in 0..Len(u)
  BY <1>2, <1>3
<1>5. AMTrimEnd(u, c) = SubSeq(u, 1, Max(P))
  BY DEF AMTrimEnd
<1>6. ASSUME NEW i \in (Max(P) + 1)..Len(u) PROVE u[i] = c
  <2> DEFINE k == Max(P)
  <2>1. k \in 0..Len(u) /\ \A y \in P : k >= y
    BY <1>3, <1>4
  <2>2. i \in (k + 1)..Len(u)
    OBVIOUS
  <2>3. (i \in P => k >= i) /\ (u[i] # c /\ i \in DOMAIN u => i \in P)
    BY <2>1
  <2> HIDE DEF k, P
  <2>4. i \in 1..Len(u) /\ ~(k >= i)
    BY <1>1, <2>1, <2>2
  <2> QED BY <1>1, <2>3, <2>4
<1> HIDE DEF P
<1> QED BY <1>4, <1>5, <1>6

\* Trimming a text leaves a text over the same characters.
LEMMA AMTrimmedIsText ==
    ASSUME NEW S, NEW t \in Seq(S)
    PROVE  AMTrim(t) \in Seq(S)
<1>1. ASSUME NEW u \in Seq(S), NEW c PROVE AMTrimEnd(u, c) \in Seq(S)
  <2>1. PICK k \in 0..Len(u) : AMTrimEnd(u, c) = SubSeq(u, 1, k)
    BY AMTrimEndKeeps
  <2>2. SubSeq(u, 1, k) \in Seq(S)
    OBVIOUS
  <2> QED BY <2>1, <2>2
<1>2. ASSUME NEW u \in Seq(S) PROVE Reverse(u) \in Seq(S)
  <2>1. Len(u) \in Nat /\ \A i \in 1..Len(u) : (Len(u) - i) + 1 \in 1..Len(u)
    OBVIOUS
  <2>2. \A i \in 1..Len(u) : u[(Len(u) - i) + 1] \in S
    BY <2>1
  <2>3. [i \in 1..Len(u) |-> u[(Len(u) - i) + 1]] \in [1..Len(u) -> S]
    BY <2>2
  <2> QED BY <2>1, <2>3 DEF Reverse
<1>3. AMTrimEnd(t, Blank) \in Seq(S)
  BY <1>1
<1>4. Reverse(AMTrimEnd(t, Blank)) \in Seq(S)
  BY <1>2, <1>3
<1>5. AMTrimEnd(Reverse(AMTrimEnd(t, Blank)), Blank) \in Seq(S)
  BY <1>1, <1>4
<1> QED BY <1>2, <1>5 DEF AMTrim

\* The powers of ten.
LEMMA AMPowers ==
    /\ AMTenTo \in [Nat -> Nat \ {0}] /\ AMTenTo[0] = 1
    /\ \A n \in Nat : AMTenTo[n + 1] = 10 * AMTenTo[n]
<1> DEFINE V == Nat \ {0}
           base == [n \in Nat |-> 1]
           F == [x \in Nat \X V |-> 10 * x[2]]
           p == [n \in Nat |-> IF n = 0 THEN 0 ELSE n - 1]
<1>1. base \in [Nat -> V] /\ p \in [Nat -> Nat] /\ \A n \in Nat : n \in {0} \/ p[n] < n
  OBVIOUS
<1>2. F \in [Nat \X V -> V]
  <2>1. \A x \in Nat \X V : 10 * x[2] \in V
    OBVIOUS
  <2> QED BY <2>1
<1>3. \E g \in [Nat -> V] : \A n \in Nat : g[n] = IF n \in {0} THEN base[n] ELSE F[<<n, g[p[n]]>>]
  <2> DEFINE B == {0}
  <2>1. \A n \in Nat : n \in B \/ p[n] < n
    BY <1>1
  <2>2. base \in [Nat -> V]
    BY <1>1
  <2>3. p \in [Nat -> Nat]
    BY <1>1
  <2> HIDE DEF V, base, F, p, B
  <2>4. RecursiveOn(V, B, base, F, p)
    BY <1>2, <2>1, <2>2, <2>3, RecursionOnNat
  <2> QED BY <2>4 DEF B, RecursiveOn
<1>4. PICK g \in [Nat -> V] : \A n \in Nat : g[n] = IF n \in {0} THEN base[n] ELSE F[<<n, g[p[n]]>>]
  BY <1>3
<1>5. ASSUME NEW n \in Nat PROVE g[n] = IF n = 0 THEN 1 ELSE 10 * g[n - 1]
  <2>1. g[n] = IF n \in {0} THEN base[n] ELSE F[<<n, g[p[n]]>>]
    BY <1>4
  <2>2. CASE n = 0
    BY <2>1, <2>2
  <2>3. CASE n # 0
    <3>1. p[n] = n - 1 /\ g[p[n]] \in V
      BY <2>3
    <3>2. F[<<n, g[p[n]]>>] = 10 * g[p[n]]
      BY <3>1
    <3> QED BY <2>1, <2>3, <3>1, <3>2
  <2> QED BY <2>2, <2>3
<1>6. g = [n \in Nat |-> IF n = 0 THEN 1 ELSE 10 * g[n - 1]]
  BY <1>5
<1>7. AMTenTo = [n \in Nat |-> IF n = 0 THEN 1 ELSE 10 * AMTenTo[n - 1]]
  BY <1>6, Zenon DEF AMTenTo
<1>8. \A n \in Nat : AMTenTo[n] = IF n = 0 THEN 1 ELSE 10 * AMTenTo[n - 1]
  BY <1>7, Zenon
<1>9. AMTenTo[0] = 1 /\ \A n \in Nat : AMTenTo[n + 1] = 10 * AMTenTo[n]
  <2>1. \A n \in Nat : n + 1 \in Nat /\ n + 1 # 0 /\ (n + 1) - 1 = n
    OBVIOUS
  <2> QED BY <1>8, <2>1
<1> DEFINE T == {n \in Nat : AMTenTo[n] \in Nat \ {0}}
<1>10. T = Nat
  <2>1. T \in SUBSET Nat /\ 0 \in T /\ \A n \in T : n + 1 \in T
    BY <1>9
  <2> HIDE DEF T
  <2> QED BY <2>1, SetInduction
<1>11. AMTenTo \in [Nat -> Nat \ {0}]
  <2>1. \A n \in Nat : AMTenTo[n] \in Nat \ {0}
    BY <1>10
  <2>2. \E h : AMTenTo = [n \in Nat |-> h[n]]
    <3> DEFINE h == [n \in Nat |-> IF n = 0 THEN 1 ELSE 10 * AMTenTo[n - 1]]
    <3>1. AMTenTo = [n \in Nat |-> h[n]]
      BY <1>7
    <3> QED BY <3>1
  <2> QED BY <2>1, <2>2
<1> QED BY <1>9, <1>11

\* What the pattern accepts starts with a digit, its fraction is what follows the
\* dot, and it reads as a natural number of base units.
LEMMA AMNumbersAreRead ==
    ASSUME NEW t \in Seq(0..Blank), AMIsNumber(t), NEW d \in Nat
    PROVE  /\ t # <<>> /\ t[1] # Minus
           /\ Len(AMFraction(t)) = IF Dot \in Range(t) THEN Len(t) - SelectInSeq(t, LAMBDA c : c = Dot) ELSE 0
           /\ Len(AMFraction(t)) \in Nat /\ AMBaseUnits(t, d) \in Nat
<1> DEFINE dot == SelectInSeq(t, LAMBDA c : c = Dot)
           I == {i \in 1..Len(t) : t[i] = Dot}
<1>1. Len(t) \in Nat /\ DOMAIN t = 1..Len(t) /\ t # <<>> /\ Len(t) > 0
  BY DEF AMIsNumber
<1>2. \A i \in 1..Len(t) : t[i] \in 0..Dot
  BY <1>1 DEF AMIsNumber, Range
<1>3. t \in Seq(Nat)
  <2>1. \A i \in 1..Len(t) : t[i] \in Nat
    BY <1>2 DEF Dot
  <2> QED BY <1>1, <2>1
<1>4. t[1] # Minus
  BY <1>1, <1>2 DEF Dot, Minus
<1>5. Dot \in Range(t) => dot \in 1..Len(t)
  <2> SUFFICES ASSUME Dot \in Range(t) PROVE dot \in 1..Len(t)
    OBVIOUS
  <2>1. I # {} /\ I \in SUBSET (1..Len(t))
    BY <1>1 DEF Range
  <2>2. dot = IF I # {} THEN Min(I) ELSE 0
    BY Zenon DEF SelectInSeq
  <2> HIDE DEF I, dot
  <2>3. Min(I) \in I
    BY <1>1, <2>1, AMMinIsLeast
  <2> QED BY <2>1, <2>2, <2>3
<1> HIDE DEF dot
<1>6. /\ AMFraction(t) = IF Dot \in Range(t) THEN SubSeq(t, dot + 1, Len(t)) ELSE <<>>
      /\ AMWhole(t) = IF Dot \in Range(t) THEN SubSeq(t, 1, dot - 1) ELSE t
  BY DEF AMFraction, AMWhole, dot
<1>7. /\ AMFraction(t) \in Seq(Nat) /\ AMWhole(t) \in Seq(Nat)
      /\ Len(AMFraction(t)) = IF Dot \in Range(t) THEN Len(t) - dot ELSE 0
  <2>1. CASE Dot \in Range(t)
    <3>1. dot \in Nat /\ 1 <= dot /\ dot <= Len(t)
      BY <1>1, <1>5, <2>1
    <3>2. SubSeq(t, dot + 1, Len(t)) \in Seq(Nat) /\ Len(SubSeq(t, dot + 1, Len(t))) = Len(t) - dot
      <4>1. dot + 1 \in 1..(Len(t) + 1) /\ Len(t) \in dot..Len(t)
        BY <1>1, <3>1
      <4>2. /\ SubSeq(t, dot + 1, Len(t)) \in Seq(Nat)
            /\ Len(SubSeq(t, dot + 1, Len(t))) =
                 IF dot + 1 <= Len(t) THEN Len(t) - (dot + 1) + 1 ELSE 0
        BY <1>1, <1>3, <4>1, SubSeqProperties
      <4>3. CASE dot + 1 <= Len(t)
        BY <1>1, <3>1, <4>2, <4>3
      <4>4. CASE ~(dot + 1 <= Len(t))
        <5> DEFINE len == Len(t)
        <5>1. dot \in Nat /\ len \in Nat /\ dot <= len /\ ~(dot + 1 <= len)
          BY <1>1, <3>1, <4>4
        <5>2. len - dot = 0
          <6> HIDE DEF len
          <6> QED BY ONLY <5>1
        <5> QED BY <4>2, <4>4, <5>2
      <4> QED BY <4>3, <4>4
    <3>3. SubSeq(t, 1, dot - 1) \in Seq(Nat)
      BY <1>1, <1>3, <3>1
    <3> QED BY <1>6, <2>1, <3>2, <3>3
  <2>2. CASE Dot \notin Range(t)
    BY <1>3, <1>6, <2>2
  <2> QED BY <2>1, <2>2
<1>8. Len(AMFraction(t)) \in Nat
  BY <1>7
<1>9. AMPadEnd(AMFraction(t), d) \in Seq(Nat)
  <2> DEFINE len == Max({d - Len(AMFraction(t)), 0})
  <2>1. len \in Nat
    <3> DEFINE x == d - Len(AMFraction(t))
    <3>1. x \in Int
      BY <1>8
    <3> HIDE DEF x
    <3>2. Max({x, 0}) \in Nat
      BY <3>1, AMMaxWithZero
    <3> QED BY <3>2 DEF x
  <2> HIDE DEF len
  <2>2. [i \in 1..len |-> 0] \in Seq(Nat)
    BY <2>1
  <2>3. AMPadEnd(AMFraction(t), d) = AMFraction(t) \o [i \in 1..len |-> 0]
    BY DEF AMPadEnd, len
  <2> QED BY <1>7, <2>2, <2>3
<1>10. AMBaseUnits(t, d) \in Nat
  <2>1. AMNumber(AMWhole(t)) \in Nat /\ AMNumber(AMPadEnd(AMFraction(t), d)) \in Nat
    BY <1>7, <1>9, AMNumberIsNat
  <2>2. AMTenTo[d] \in Nat
    BY AMPowers
  <2> DEFINE whole == AMNumber(AMWhole(t))
             base == AMTenTo[d]
  <2>3. whole * base \in Nat
    <3> HIDE DEF whole, base
    <3>1. whole \in Nat /\ base \in Nat
      BY <2>1, <2>2 DEF whole, base
    <3> QED BY ONLY <3>1
  <2> QED BY <2>1, <2>3 DEF AMBaseUnits
<1> QED BY <1>1, <1>4, <1>7, <1>8, <1>10 DEF dot

\* Two ways of agreeing: one reason, or one value.
LEMMA AMRefusals ==
    ASSUME NEW t, NEW d, NEW why, AMTryParse(t, d) = [ok |-> FALSE, reason |-> why],
           AMParse(t, d) = -1, AMValidate(t, d) = why
    PROVE  AMAgree(t, d)
<1> DEFINE r == AMTryParse(t, d)
<1>1. r.ok = FALSE /\ r.reason = why
  OBVIOUS
<1> HIDE DEF r
<1> QED BY <1>1, Zenon DEF AMAgree, r

LEMMA AMAcceptances ==
    ASSUME NEW t, NEW d, NEW v, AMTryParse(t, d) = [ok |-> TRUE, value |-> v],
           AMParse(t, d) = v, v # -1, AMValidate(t, d) = "valid"
    PROVE  AMAgree(t, d)
<1> DEFINE r == AMTryParse(t, d)
<1>1. r.ok = TRUE /\ r.value = v
  OBVIOUS
<1> HIDE DEF r
<1> QED BY <1>1, Zenon DEF AMAgree, r

\* The wallet's parser, the form's parser and the form's validator
\* (parseTokenAmount, tryParseTokenAmount, validateAmount) accept the same texts,
\* with the same value, and the form's two give the same reason for refusing any other:
\* for every text, of any length, and every number of decimals.
THEOREM ParsersAgree == \A text \in Seq(0..Blank), d \in Nat : AMAgree(text, d)
<1> SUFFICES ASSUME NEW text \in Seq(0..Blank), NEW d \in Nat PROVE AMAgree(text, d)
  OBVIOUS
<1> DEFINE t == AMTrim(text)
           units == AMBaseUnits(t, d)
           places == IF Dot \in Range(t) THEN Len(t) - SelectInSeq(t, LAMBDA c : c = Dot) ELSE 0
<1>1. t \in Seq(0..Blank)
  BY AMTrimmedIsText
<1>2. AMIsNumber(t) => /\ t # <<>> /\ t[1] # Minus
                       /\ Len(AMFraction(t)) = places /\ Len(AMFraction(t)) \in Nat /\ units \in Nat
  <2> HIDE DEF t
  <2> QED BY <1>1, AMNumbersAreRead
<1>3. AMParse(text, d) = IF AMIsNumber(t) /\ Len(AMFraction(t)) <= d /\ units > 0 THEN units ELSE -1
  BY DEF AMParse
<1>4. AMValidate(text, d) =
        IF t = <<>> THEN "empty"
        ELSE IF t[1] = Minus THEN "negative"
        ELSE IF ~AMIsNumber(t) THEN "not-a-number"
        ELSE IF places > d THEN "too-many-decimals"
        ELSE IF units = 0 THEN "zero" ELSE "valid"
  BY DEF AMValidate
<1>5. AMTryParse(text, d) =
        CASE t = <<>> -> [ok |-> FALSE, reason |-> "empty"]
          [] t # <<>> /\ t[1] = Minus -> [ok |-> FALSE, reason |-> "negative"]
          [] t # <<>> /\ t[1] # Minus /\ ~AMIsNumber(t) -> [ok |-> FALSE, reason |-> "not-a-number"]
          [] AMIsNumber(t) /\ Len(AMFraction(t)) > d -> [ok |-> FALSE, reason |-> "too-many-decimals"]
          [] AMIsNumber(t) /\ Len(AMFraction(t)) <= d ->
                IF units = 0 THEN [ok |-> FALSE, reason |-> "zero"] ELSE [ok |-> TRUE, value |-> units]
  BY DEF AMTryParse
<1> HIDE DEF t, units, places
<1>6. CASE ~AMIsNumber(t)
  <2> DEFINE why == IF t = <<>> THEN "empty" ELSE IF t[1] = Minus THEN "negative" ELSE "not-a-number"
  <2>1. AMTryParse(text, d) = [ok |-> FALSE, reason |-> why]
    BY <1>5, <1>6
  <2>2. AMParse(text, d) = -1 /\ AMValidate(text, d) = why
    BY <1>3, <1>4, <1>6
  <2> QED BY <2>1, <2>2, AMRefusals
<1>7. CASE AMIsNumber(t) /\ Len(AMFraction(t)) > d
  <2>1. AMTryParse(text, d) = [ok |-> FALSE, reason |-> "too-many-decimals"]
    BY <1>2, <1>5, <1>7
  <2>2. AMParse(text, d) = -1 /\ AMValidate(text, d) = "too-many-decimals"
    BY <1>2, <1>3, <1>4, <1>7
  <2> QED BY <2>1, <2>2, AMRefusals
<1>8. CASE AMIsNumber(t) /\ Len(AMFraction(t)) <= d /\ units = 0
  <2>1. AMTryParse(text, d) = [ok |-> FALSE, reason |-> "zero"]
    BY <1>2, <1>5, <1>8
  <2>2. AMParse(text, d) = -1 /\ AMValidate(text, d) = "zero"
    BY <1>2, <1>3, <1>4, <1>8
  <2> QED BY <2>1, <2>2, AMRefusals
<1>9. CASE AMIsNumber(t) /\ Len(AMFraction(t)) <= d /\ units # 0
  <2>1. AMTryParse(text, d) = [ok |-> TRUE, value |-> units]
    BY <1>2, <1>5, <1>9
  <2>2. AMParse(text, d) = units /\ AMValidate(text, d) = "valid" /\ units # -1
    BY <1>2, <1>3, <1>4, <1>9
  <2> QED BY <2>1, <2>2, AMAcceptances
<1>10. Len(AMFraction(t)) > d \/ Len(AMFraction(t)) <= d \/ ~AMIsNumber(t)
  BY <1>2
<1> QED BY <1>6, <1>7, <1>8, <1>9, <1>10

\* The digits of a number: at least one, and one more for each division by ten.
LEMMA AMDigitsUnfold ==
    /\ \A n \in Nat : AMDigits[n] \in Seq(0..9) /\ AMDigits[n] # <<>>
    /\ \A n \in Nat : AMDigits[n] = IF n < 10 THEN <<n>> ELSE Append(AMDigits[n \div 10], n % 10)
<1> DEFINE V == Seq(0..9) \ {<<>>}
           base == [n \in Nat |-> <<n % 10>>]
           F == [x \in Nat \X V |-> Append(x[2], x[1] % 10)]
           p == [n \in Nat |-> n \div 10]
<1>1. \A n \in Nat : n % 10 \in 0..9 /\ n \div 10 \in Nat /\ (n < 10 => n % 10 = n) /\ (~(n < 10) => n \div 10 < n)
  OBVIOUS
<1>2. base \in [Nat -> V]
  <2>1. \A n \in Nat : <<n % 10>> \in V
    BY <1>1
  <2> QED BY <2>1
<1>3. p \in [Nat -> Nat] /\ \A n \in Nat : p[n] = n \div 10
  BY <1>1
<1>4. F \in [Nat \X V -> V]
  <2>1. ASSUME NEW m \in Nat, NEW u \in V PROVE Append(u, m % 10) \in V
    <3>1. m % 10 \in 0..9 /\ u \in Seq(0..9)
      BY <1>1
    <3>2. Append(u, m % 10) \in Seq(0..9) /\ Append(u, m % 10) # <<>>
      <4> DEFINE c == m % 10
      <4> HIDE DEF c, V
      <4>1. c \in 0..9
        BY <3>1 DEF c
      <4>2. Append(u, c) \in Seq(0..9) /\ Append(u, c) # <<>>
        BY <3>1, <4>1, AppendProperties
      <4> QED BY <4>2 DEF c
    <3> QED BY <3>2
  <2>2. \A x \in Nat \X V : x[1] \in Nat /\ x[2] \in V
    OBVIOUS
  <2> HIDE DEF V
  <2>3. \A x \in Nat \X V : Append(x[2], x[1] % 10) \in V
    BY <2>1, <2>2
  <2> QED BY <2>3
<1>5. \E g \in [Nat -> V] : \A n \in Nat : g[n] = IF n \in 0..9 THEN base[n] ELSE F[<<n, g[p[n]]>>]
  <2> DEFINE B == 0..9
  <2>1. \A n \in Nat : n \in B \/ p[n] < n
    <3> SUFFICES ASSUME NEW n \in Nat, ~(n \in B) PROVE p[n] < n
      OBVIOUS
    <3>1. ~(n < 10)
      OBVIOUS
    <3> QED BY <1>1, <1>3, <3>1
  <2> HIDE DEF V, base, F, p, B
  <2>2. RecursiveOn(V, B, base, F, p)
    BY <1>2, <1>3, <1>4, <2>1, RecursionOnNat
  <2> QED BY <2>2 DEF B, RecursiveOn
<1>6. PICK g \in [Nat -> V] : \A n \in Nat : g[n] = IF n \in 0..9 THEN base[n] ELSE F[<<n, g[p[n]]>>]
  BY <1>5
<1>7. ASSUME NEW n \in Nat PROVE g[n] = IF n < 10 THEN <<n>> ELSE Append(g[n \div 10], n % 10)
  <2>1. CASE n < 10
    <3>1. n \in 0..9 /\ n % 10 = n
      BY <2>1
    <3>2. g[n] = base[n]
      BY <1>6, <3>1
    <3> QED BY <2>1, <3>1, <3>2
  <2>2. CASE ~(n < 10)
    <3>1. n \notin 0..9
      BY <2>2
    <3>2. g[n] = F[<<n, g[p[n]]>>]
      BY <1>6, <3>1
    <3>3. p[n] = n \div 10 /\ n \div 10 \in Nat
      BY <1>1, <1>3
    <3>4. g[n \div 10] \in V
      BY <3>3
    <3>5. F[<<n, g[n \div 10]>>] = Append(g[n \div 10], n % 10)
      <4> DEFINE u == g[n \div 10]
      <4>1. u \in V
        BY <3>4
      <4> HIDE DEF u, V
      <4>2. F[<<n, u>>] = Append(u, n % 10)
        BY <4>1
      <4> QED BY <4>2 DEF u
    <3> HIDE DEF F, p
    <3> QED BY <2>2, <3>2, <3>3, <3>5
  <2> QED BY <2>1, <2>2
<1>8. g = [n \in Nat |-> IF n < 10 THEN <<n>> ELSE Append(g[n \div 10], n % 10)]
  <2> HIDE DEF V
  <2> QED BY <1>7
<1>9. AMDigits = [n \in Nat |-> IF n < 10 THEN <<n>> ELSE Append(AMDigits[n \div 10], n % 10)]
  BY <1>8, Zenon DEF AMDigits
<1>10. \A n \in Nat : AMDigits[n] = IF n < 10 THEN <<n>> ELSE Append(AMDigits[n \div 10], n % 10)
  BY <1>9, Zenon
<1> DEFINE T == {n \in Nat : \A m \in 0..n : AMDigits[m] \in V}
<1> HIDE DEF V
<1>11. ASSUME NEW m \in Nat, m < 10 \/ AMDigits[m \div 10] \in V PROVE AMDigits[m] \in V
  <2>1. CASE m < 10
    <3>1. AMDigits[m] = <<m>>
      BY <1>10, <2>1
    <3>2. m \in 0..9
      BY <2>1
    <3>3. <<m>> \in V
      BY <3>2 DEF V
    <3> QED BY <3>1, <3>3
  <2>2. CASE ~(m < 10)
    <3> DEFINE u == AMDigits[m \div 10]
    <3>1. u \in V /\ AMDigits[m] = Append(u, m % 10)
      BY <1>10, <1>11, <2>2
    <3> HIDE DEF u
    <3>2. <<m, u>> \in Nat \X V
      BY <3>1
    <3>3. F[<<m, u>>] = Append(u, m % 10)
      BY <3>2
    <3> HIDE DEF F
    <3> QED BY <1>4, <3>1, <3>2, <3>3
  <2> QED BY <2>1, <2>2
<1>12. T = Nat
  <2>1. 0 \in T
    <3>1. \A m \in 0..0 : m \in Nat /\ m < 10
      OBVIOUS
    <3> QED BY <1>11, <3>1
  <2>2. ASSUME NEW n \in T PROVE n + 1 \in T
    <3>1. ASSUME NEW m \in 0..(n + 1) PROVE AMDigits[m] \in V
      <4>1. m \in Nat /\ (m < 10 \/ m \div 10 \in 0..n)
        OBVIOUS
      <4> QED BY <1>11, <4>1
    <3> QED BY <3>1
  <2>3. T \in SUBSET Nat
    OBVIOUS
  <2> HIDE DEF T
  <2> QED BY <2>1, <2>2, <2>3, SetInduction
<1>13. \A n \in Nat : AMDigits[n] \in V
  <2>1. \A n \in Nat : n \in 0..n
    OBVIOUS
  <2> QED BY <1>12, <2>1
<1> QED BY <1>10, <1>13 DEF V

\* The digits of a number read as that number.
LEMMA AMDigitsAreRead == \A n \in Nat : AMNumber(AMDigits[n]) = n
<1> DEFINE T == {n \in Nat : \A m \in 0..n : AMNumber(AMDigits[m]) = m}
<1>1. ASSUME NEW m \in Nat, m < 10 \/ AMNumber(AMDigits[m \div 10]) = m \div 10
      PROVE  AMNumber(AMDigits[m]) = m
  <2>1. CASE m < 10
    <3>1. AMDigits[m] = <<m>>
      BY <2>1, AMDigitsUnfold
    <3>2. <<m>> = Append(<<>>, m) /\ <<>> \in Seq(Nat)
      OBVIOUS
    <3>3. AMNumber(Append(<<>>, m)) = 10 * AMNumber(<<>>) + m
      BY <3>2, AMNumberAppend
    <3> QED BY <3>1, <3>2, <3>3, AMNumberEmpty
  <2>2. CASE ~(m < 10)
    <3> DEFINE u == AMDigits[m \div 10]
               c == m % 10
    <3>1. m \div 10 \in Nat /\ c \in Nat /\ m = 10 * (m \div 10) + c
      OBVIOUS
    <3>2. u \in Seq(0..9) /\ AMDigits[m] = Append(u, c)
      BY <2>2, <3>1, AMDigitsUnfold
    <3>3. AMNumber(u) = m \div 10
      BY <1>1, <2>2
    <3> HIDE DEF u, c
    <3>4. u \in Seq(Nat)
      BY <3>2
    <3>5. AMNumber(Append(u, c)) = 10 * AMNumber(u) + c
      BY <3>1, <3>4, AMNumberAppend
    <3> QED BY <3>1, <3>2, <3>3, <3>5
  <2> QED BY <2>1, <2>2
<1>2. T = Nat
  <2>1. 0 \in T
    <3>1. \A m \in 0..0 : m \in Nat /\ m < 10
      OBVIOUS
    <3> QED BY <1>1, <3>1
  <2>2. ASSUME NEW n \in T PROVE n + 1 \in T
    <3>1. ASSUME NEW m \in 0..(n + 1) PROVE AMNumber(AMDigits[m]) = m
      <4>1. m \in Nat /\ (m < 10 \/ m \div 10 \in 0..n)
        OBVIOUS
      <4> QED BY <1>1, <4>1
    <3> QED BY <3>1
  <2>3. T \in SUBSET Nat
    OBVIOUS
  <2> HIDE DEF T
  <2> QED BY <2>1, <2>2, <2>3, SetInduction
<1>3. \A n \in Nat : n \in 0..n
  OBVIOUS
<1> QED BY <1>2, <1>3

\* A number below a power of ten has no more digits than its exponent.
LEMMA AMDigitsFit ==
    ASSUME NEW k \in Nat, k > 0, NEW n \in Nat, n < AMTenTo[k]
    PROVE  Len(AMDigits[n]) <= k
<1> DEFINE T == {j \in Nat : \A m \in Nat : m < AMTenTo[j + 1] => Len(AMDigits[m]) <= j + 1}
<1>1. ASSUME NEW m \in Nat PROVE /\ m < 10 => Len(AMDigits[m]) = 1
                                 /\ ~(m < 10) => Len(AMDigits[m]) = Len(AMDigits[m \div 10]) + 1
  <2>1. CASE m < 10
    <3>1. AMDigits[m] = <<m>>
      BY <2>1, AMDigitsUnfold
    <3>2. Len(<<m>>) = 1
      OBVIOUS
    <3> QED BY <2>1, <3>1, <3>2
  <2>2. CASE ~(m < 10)
    <3> DEFINE u == AMDigits[m \div 10]
    <3>1. m \div 10 \in Nat
      OBVIOUS
    <3>2. u \in Seq(0..9) /\ AMDigits[m] = Append(u, m % 10)
      BY <2>2, <3>1, AMDigitsUnfold
    <3> HIDE DEF u
    <3>3. Len(Append(u, m % 10)) = Len(u) + 1
      BY <3>2
    <3> QED BY <2>2, <3>2, <3>3 DEF u
  <2> QED BY <2>1, <2>2
<1>2. 0 \in T
  <2>1. AMTenTo[0] = 1 /\ AMTenTo[0 + 1] = 10 * AMTenTo[0]
    BY AMPowers
  <2>2. AMTenTo[0 + 1] = 10
    BY <2>1
  <2>3. ASSUME NEW m \in Nat, m < AMTenTo[0 + 1] PROVE Len(AMDigits[m]) <= 0 + 1
    <3>1. Len(AMDigits[m]) = 1
      BY <1>1, <2>2, <2>3
    <3> QED BY <3>1
  <2> QED BY <2>3
<1>3. ASSUME NEW j \in T PROVE j + 1 \in T
  <2> SUFFICES ASSUME NEW m \in Nat, m < AMTenTo[(j + 1) + 1] PROVE Len(AMDigits[m]) <= (j + 1) + 1
    OBVIOUS
  <2> DEFINE x == AMTenTo[j + 1]
  <2>1. j + 1 \in Nat /\ j \in Nat
    OBVIOUS
  <2>2. AMTenTo[(j + 1) + 1] = 10 * x /\ x \in Nat
    BY <2>1, AMPowers
  <2>3. CASE m < 10
    <3>1. Len(AMDigits[m]) = 1
      BY <1>1, <2>3
    <3> QED BY <2>1, <3>1
  <2>4. CASE ~(m < 10)
    <3>1. m \div 10 \in Nat /\ m \div 10 < x
      <4> HIDE DEF x
      <4> QED BY <2>2
    <3>2. Len(AMDigits[m \div 10]) <= j + 1
      BY <3>1
    <3>3. Len(AMDigits[m \div 10]) \in Nat /\ Len(AMDigits[m]) = Len(AMDigits[m \div 10]) + 1
      BY <1>1, <2>4, <3>1, AMDigitsUnfold
    <3> QED BY <2>1, <3>2, <3>3
  <2> QED BY <2>3, <2>4
<1>4. T = Nat
  <2>1. T \in SUBSET Nat
    OBVIOUS
  <2> HIDE DEF T
  <2> QED BY <1>2, <1>3, <2>1, SetInduction
<1>5. k - 1 \in Nat /\ (k - 1) + 1 = k
  OBVIOUS
<1> QED BY <1>4, <1>5

\* A text with no blank is its own trimming.
LEMMA AMTrimIdle == ASSUME NEW t \in Seq(0..Dot) PROVE AMTrim(t) = t
<1>1. ASSUME NEW u \in Seq(0..Dot) PROVE AMTrimEnd(u, Blank) = u
  <2>1. PICK k \in 0..Len(u) : /\ AMTrimEnd(u, Blank) = SubSeq(u, 1, k)
                               /\ \A i \in (k + 1)..Len(u) : u[i] = Blank
    BY AMTrimEndKeeps
  <2>2. Len(u) \in Nat /\ \A i \in 1..Len(u) : u[i] \in 0..10
    BY DEF Dot
  <2>3. k = Len(u)
    <3> SUFFICES ASSUME k # Len(u) PROVE FALSE
      OBVIOUS
    <3>1. Len(u) \in (k + 1)..Len(u) /\ Len(u) \in 1..Len(u)
      BY <2>2
    <3>2. u[Len(u)] = Blank /\ u[Len(u)] \in 0..10
      BY <2>1, <2>2, <3>1
    <3> QED BY <3>2 DEF Blank
  <2>4. SubSeq(u, 1, Len(u)) = u
    OBVIOUS
  <2> QED BY <2>1, <2>3, <2>4
<1>2. Reverse(t) \in Seq(0..Dot) /\ Reverse(Reverse(t)) = t
  <2> DEFINE len == Len(t)
             r == [i \in 1..len |-> t[(len - i) + 1]]
  <2> DEFINE S == 0..Dot
  <2>1. t \in Seq(S)
    OBVIOUS
  <2> HIDE DEF S
  <2>2. len \in Nat /\ \A i \in 1..len : (len - i) + 1 \in 1..len /\ (len - ((len - i) + 1)) + 1 = i
    <3>1. len \in Nat
      BY <2>1
    <3> HIDE DEF len
    <3> QED BY <3>1
  <2>3. t \in [1..len -> S]
    BY <2>1
  <2>4. Reverse(t) = r
    BY DEF Reverse
  <2> HIDE DEF len
  <2>5. r \in [1..len -> S] /\ \A i \in 1..len : r[(len - i) + 1] = t[i]
    BY <2>2, <2>3
  <2> HIDE DEF r
  <2>6. r \in Seq(S) /\ Len(r) = len
    BY <2>2, <2>5
  <2>7. [i \in 1..len |-> r[(len - i) + 1]] = t
    BY <2>3, <2>5
  <2> QED BY <2>4, <2>6, <2>7 DEF Reverse, S
<1>3. AMTrimEnd(t, Blank) = t /\ AMTrimEnd(Reverse(t), Blank) = Reverse(t)
  BY <1>1, <1>2
<1> QED BY <1>2, <1>3 DEF AMTrim

\* Padding a fraction to the number of decimals keeps its number; trimming its last
\* zeros and padding it again gives it back.
LEMMA AMPadStartFills ==
    ASSUME NEW u \in Seq(0..9), NEW d \in Nat, Len(u) <= d
    PROVE  /\ AMPadStart(u, d) \in Seq(0..9) /\ Len(AMPadStart(u, d)) = d
           /\ AMNumber(AMPadStart(u, d)) = AMNumber(u)
<1> DEFINE k == d - Len(u)
           z == [i \in 1..k |-> 0]
<1>1. Len(u) \in Nat /\ u \in Seq(Nat)
  OBVIOUS
<1>2. k \in Nat /\ k + Len(u) = d
  BY <1>1
<1>3. Max({k, 0}) = k
  <2>1. k \in Int /\ k >= 0
    BY <1>2
  <2> HIDE DEF k
  <2> QED BY <2>1, AMMaxWithZero
<1>4. AMPadStart(u, d) = z \o u
  BY <1>3 DEF AMPadStart
<1> HIDE DEF k
<1>5. z \in Seq(0..9) /\ Len(z) = k
  BY <1>2
<1>6. AMNumber(z \o u) = AMNumber(u)
  BY <1>1, <1>2, AMNumberPadded
<1> HIDE DEF z
<1>7. z \o u \in Seq(0..9) /\ Len(z \o u) = k + Len(u)
  BY <1>5
<1> QED BY <1>2, <1>4, <1>6, <1>7

LEMMA AMTrimmedZerosReturn ==
    ASSUME NEW u \in Seq(0..9)
    PROVE  /\ AMTrimEnd(u, 0) \in Seq(0..9) /\ Len(AMTrimEnd(u, 0)) <= Len(u)
           /\ AMPadEnd(AMTrimEnd(u, 0), Len(u)) = u
<1> DEFINE d == Len(u)
<1>1. d \in Nat /\ u \in [1..d -> 0..9]
  OBVIOUS
<1>2. PICK k \in 0..d : AMTrimEnd(u, 0) = SubSeq(u, 1, k) /\ \A i \in (k + 1)..d : u[i] = 0
  BY AMTrimEndKeeps
<1> DEFINE f == SubSeq(u, 1, k)
           z == [i \in 1..(d - k) |-> 0]
<1>3. k \in Nat /\ d - k \in Nat /\ k <= d
  BY <1>1
<1>4. f \in Seq(0..9) /\ Len(f) = k /\ \A i \in 1..k : f[i] = u[i]
  BY <1>1, <1>3
<1>5. z \in Seq(0..9) /\ Len(z) = d - k /\ \A i \in 1..(d - k) : z[i] = 0
  <2> HIDE DEF d
  <2> QED BY <1>3
<1>6. AMPadEnd(f, d) = f \o z
  <2>1. Max({d - k, 0}) = d - k
    <3> DEFINE x == d - k
    <3>1. x \in Int /\ x >= 0
      BY <1>3
    <3> HIDE DEF x
    <3>2. Max({x, 0}) = x
      BY <3>1, AMMaxWithZero
    <3> QED BY <3>2 DEF x
  <2> HIDE DEF f, d
  <2> QED BY <1>4, <2>1 DEF AMPadEnd
<1> HIDE DEF d, f, z
<1>7. /\ f \o z \in Seq(0..9) /\ Len(f \o z) = d
      /\ \A i \in 1..d : (f \o z)[i] = IF i <= k THEN f[i] ELSE z[i - k]
  <2>1. /\ f \o z \in Seq(0..9) /\ Len(f \o z) = Len(f) + Len(z)
        /\ \A i \in 1..(Len(f) + Len(z)) :
              (f \o z)[i] = IF i <= Len(f) THEN f[i] ELSE z[i - Len(f)]
    BY <1>4, <1>5, ConcatProperties
  <2>2. Len(f) + Len(z) = d /\ Len(f) = k
    BY <1>1, <1>3, <1>4, <1>5
  <2> QED BY <2>1, <2>2
<1>8. ASSUME NEW i \in 1..d PROVE (f \o z)[i] = u[i]
  <2>1. CASE i <= k
    <3>1. i \in 1..k
      BY <1>3, <2>1
    <3>2. (f \o z)[i] = f[i]
      BY <1>7, <2>1
    <3> QED BY <1>4, <3>1, <3>2
  <2>2. CASE ~(i <= k)
    <3>1. i - k \in 1..(d - k) /\ i \in (k + 1)..d
      BY <1>1, <1>3, <2>2
    <3>2. (f \o z)[i] = z[i - k]
      BY <1>7, <2>2
    <3> QED BY <1>2, <1>5, <3>1, <3>2
  <2> QED BY <2>1, <2>2
<1>9. f \o z = u
  <2>1. f \o z \in [1..d -> 0..9]
    <3> DEFINE s == f \o z
    <3>1. s \in Seq(0..9) /\ Len(s) = d
      BY <1>7
    <3> HIDE DEF s
    <3>2. s \in [1..d -> 0..9]
      BY <3>1
    <3> QED BY <3>2 DEF s
  <2> QED BY <1>1, <1>8, <2>1
<1> QED BY <1>2, <1>3, <1>4, <1>6, <1>9 DEF d, f

\* A whole part and a fraction, joined by a dot, are taken apart again.
LEMMA AMShownIsSplit ==
    ASSUME NEW w \in Seq(0..9), w # <<>>, NEW f \in Seq(0..9), NEW t,
           t = w \o (IF f = <<>> THEN <<>> ELSE <<Dot>> \o f)
    PROVE  AMTrim(t) = t /\ AMIsNumber(t) /\ AMWhole(t) = w /\ AMFraction(t) = f
<1>1. Len(w) \in Nat /\ Len(w) > 0 /\ Len(f) \in Nat /\ w \in Seq(0..Dot) /\ f \in Seq(0..Dot)
  BY DEF Dot
<1>2. (\A i \in 1..Len(w) : w[i] \in 0..9) /\ \A i \in 1..Len(f) : f[i] \in 0..9
  OBVIOUS
<1>3. CASE f = <<>>
  <2>1. t = w
    BY <1>3, ConcatEmptySeq
  <2>2. \A i \in 1..Len(t) : t[i] \in 0..9 /\ t[i] # Dot
    BY <1>2, <2>1 DEF Dot
  <2>3. DOMAIN t = 1..Len(t) /\ {i \in DOMAIN t : t[i] = Dot} = {} /\ Dot \notin Range(t)
    BY <2>1, <2>2 DEF Range
  <2>4. Range(t) \subseteq 0..Dot
    <3> SUFFICES ASSUME NEW c \in Range(t) PROVE c \in 0..Dot
      OBVIOUS
    <3>1. PICK i \in DOMAIN t : c = t[i]
      BY DEF Range
    <3>2. c \in 0..9
      BY <2>2, <2>3, <3>1
    <3> QED BY <3>2 DEF Dot
  <2>5. Cardinality({}) = 0
    BY FS_EmptySet
  <2>6. Cardinality({i \in DOMAIN t : t[i] = Dot}) <= 1
    <3> DEFINE I == {i \in DOMAIN t : t[i] = Dot}
    <3>1. I = {}
      BY <2>3
    <3> HIDE DEF I
    <3>2. Cardinality(I) <= 1
      BY <2>5, <3>1
    <3> QED BY <3>2 DEF I
  <2>7. t # <<>> /\ t[1] # Dot /\ Last(t) # Dot
    <3>1. 1 \in 1..Len(t) /\ Len(t) \in 1..Len(t)
      BY <1>1, <2>1
    <3> QED BY <2>1, <2>2, <3>1 DEF Last
  <2>8. AMTrim(t) = t
    BY <1>1, <2>1, AMTrimIdle
  <2>9. AMIsNumber(t)
    BY <2>4, <2>6, <2>7 DEF AMIsNumber
  <2>10. AMWhole(t) = w /\ AMFraction(t) = f
    BY <1>3, <2>1, <2>3 DEF AMWhole, AMFraction
  <2> QED BY <2>8, <2>9, <2>10
<1>4. CASE f # <<>>
  <2> DEFINE n == Len(w)
             m == Len(f)
             u == <<Dot>> \o f
  <2>1. n \in Nat /\ n > 0 /\ m \in Nat /\ m > 0
    BY <1>1, <1>4
  <2>2. <<Dot>> \in Seq(0..Dot) /\ Len(<<Dot>>) = 1 /\ <<Dot>>[1] = Dot
    BY DEF Dot
  <2>3. /\ u \in Seq(0..Dot) /\ Len(u) = 1 + m /\ u[1] = Dot
        /\ \A j \in 1..m : u[1 + j] = f[j]
    <3> DEFINE e == <<Dot>>
    <3>1. e \in Seq(0..Dot) /\ Len(e) = 1 /\ e[1] = Dot
      BY <2>2
    <3> HIDE DEF e
    <3>2. /\ e \o f \in Seq(0..Dot) /\ Len(e \o f) = Len(e) + Len(f)
          /\ \A i \in 1..(Len(e) + Len(f)) : (e \o f)[i] = IF i <= Len(e) THEN e[i] ELSE f[i - Len(e)]
      BY <1>1, <3>1, ConcatProperties
    <3>3. (e \o f)[1] = Dot
      <4>1. 1 \in 1..(1 + m)
        BY <2>1
      <4> QED BY <3>1, <3>2, <4>1
    <3>4. ASSUME NEW j \in 1..m PROVE (e \o f)[1 + j] = f[j]
      <4>1. 1 + j \in 1..(1 + m) /\ ~(1 + j <= 1) /\ (1 + j) - 1 = j
        BY <2>1
      <4> QED BY <3>1, <3>2, <4>1
    <3> QED BY <3>1, <3>2, <3>3, <3>4 DEF e
  <2>4. t = w \o u
    BY <1>4
  <2> HIDE DEF u, n, m
  <2>5. /\ t \in Seq(0..Dot) /\ Len(t) = n + 1 + m
        /\ \A i \in 1..n : t[i] = w[i]
        /\ t[n + 1] = Dot
        /\ \A j \in 1..m : t[n + 1 + j] = f[j]
    <3>1. /\ w \o u \in Seq(0..Dot) /\ Len(w \o u) = Len(w) + Len(u)
          /\ \A i \in 1..(Len(w) + Len(u)) : (w \o u)[i] = IF i <= Len(w) THEN w[i] ELSE u[i - Len(w)]
      BY <1>1, <2>3, ConcatProperties
    <3>2. Len(w) = n /\ n + (1 + m) = n + 1 + m
      BY <2>1 DEF n
    <3>3. t \in Seq(0..Dot) /\ Len(t) = n + 1 + m /\
          \A i \in 1..(n + 1 + m) : t[i] = IF i <= n THEN w[i] ELSE u[i - n]
      BY <2>3, <2>4, <3>1, <3>2
    <3>4. \A i \in 1..n : i \in 1..(n + 1 + m) /\ i <= n
      BY <2>1
    <3>5. n + 1 \in 1..(n + 1 + m) /\ ~(n + 1 <= n) /\ (n + 1) - n = 1
      BY <2>1
    <3>6. ASSUME NEW j \in 1..m PROVE t[n + 1 + j] = f[j]
      <4>1. n + 1 + j \in 1..(n + 1 + m) /\ ~(n + 1 + j <= n) /\ (n + 1 + j) - n = 1 + j
        BY <2>1
      <4> QED BY <2>3, <3>3, <4>1
    <3>7. t[n + 1] = Dot
      BY <2>3, <3>3, <3>5
    <3> QED BY <3>3, <3>4, <3>6, <3>7
  <2>6. Len(t) \in Nat /\ DOMAIN t = 1..Len(t) /\ \A i \in 1..Len(t) : t[i] \in 0..Dot
    <3> DEFINE S == 0..Dot
    <3>1. t \in Seq(S)
      BY <2>5
    <3> HIDE DEF S
    <3>2. Len(t) \in Nat /\ DOMAIN t = 1..Len(t) /\ \A i \in 1..Len(t) : t[i] \in S
      BY ONLY <3>1
    <3> QED BY <3>2 DEF S
  <2>7. ASSUME NEW i \in 1..Len(t), i # n + 1 PROVE t[i] # Dot
    <3>1. CASE i <= n
      <4>1. i \in 1..n
        BY <2>1, <3>1
      <4>2. t[i] = w[i] /\ w[i] \in 0..9
        BY <1>2, <2>5, <4>1 DEF n
      <4>3. Dot \notin 0..9
        BY DEF Dot
      <4> QED BY ONLY <4>2, <4>3
    <3>2. CASE ~(i <= n)
      <4> DEFINE j == i - (n + 1)
      <4>1. j \in 1..m /\ i = n + 1 + j
        BY <2>1, <2>5, <2>7, <3>2
      <4> HIDE DEF j
      <4>2. t[i] = f[j] /\ f[j] \in 0..9
        BY <1>2, <2>5, <4>1 DEF m
      <4>3. Dot \notin 0..9
        BY DEF Dot
      <4> QED BY ONLY <4>2, <4>3
    <3> QED BY <3>1, <3>2
  <2>8. {i \in 1..Len(t) : t[i] = Dot} = {n + 1} /\ n + 1 \in 1..Len(t)
    <3>1. n + 1 \in 1..Len(t)
      BY <2>1, <2>5
    <3> QED BY <2>5, <2>7, <3>1
  <2>9. Dot \in Range(t) /\ Range(t) \subseteq 0..Dot
    <3>1. n + 1 \in DOMAIN t /\ t[n + 1] = Dot
      BY <2>5, <2>6, <2>8
    <3>2. \A i \in DOMAIN t : t[i] \in 0..Dot
      BY <2>6
    <3> QED BY ONLY <3>1, <3>2, Zenon DEF Range
  <2>10. Cardinality({i \in DOMAIN t : t[i] = Dot}) <= 1
    <3>1. Cardinality({n + 1}) = 1
      BY FS_Singleton
    <3> DEFINE I == {i \in DOMAIN t : t[i] = Dot}
    <3>2. I = {n + 1}
      BY <2>6, <2>8
    <3> HIDE DEF I
    <3>3. Cardinality(I) <= 1
      BY <3>1, <3>2
    <3> QED BY <3>3 DEF I
  <2>11. t # <<>> /\ t[1] # Dot /\ Last(t) # Dot
    <3>1. 1 \in 1..Len(t) /\ Len(t) \in 1..Len(t) /\ 1 # n + 1 /\ Len(t) # n + 1
      BY <2>1, <2>5
    <3>2. t # <<>>
      BY <3>1
    <3> QED BY <2>7, <3>1, <3>2 DEF Last
  <2>12. SelectInSeq(t, LAMBDA c : c = Dot) = n + 1
    <3> DEFINE I == {i \in 1..Len(t) : t[i] = Dot}
    <3>1. SelectInSeq(t, LAMBDA c : c = Dot) = IF I # {} THEN Min(I) ELSE 0
      BY Zenon DEF SelectInSeq
    <3>2. I = {n + 1} /\ I \in SUBSET (1..Len(t)) /\ I # {}
      BY <2>8
    <3> HIDE DEF I
    <3>3. Min(I) \in I
      BY <2>6, <3>2, AMMinIsLeast
    <3> QED BY <3>1, <3>2, <3>3
  <2>13. AMIsNumber(t)
    BY <2>9, <2>10, <2>11 DEF AMIsNumber
  <2>14. AMTrim(t) = t
    BY <2>5, AMTrimIdle
  <2>15. AMWhole(t) = w
    <3>1. AMWhole(t) = SubSeq(t, 1, n)
      <4>1. (n + 1) - 1 = n
        BY <2>1
      <4> QED BY <2>9, <2>12, <4>1 DEF AMWhole
    <3>2. SubSeq(t, 1, n) = [i \in 1..n |-> t[i]]
      <4>1. 1..n = 1..((1 + n) - 1) /\ n <= Len(t)
        BY <2>1, <2>5
      <4> QED BY <2>1, <2>5, <4>1
    <3>3. w = [i \in 1..n |-> w[i]]
      BY DEF n
    <3> QED BY <2>5, <3>1, <3>2, <3>3
  <2>16. AMFraction(t) = f
    <3>1. AMFraction(t) = SubSeq(t, (n + 1) + 1, Len(t))
      BY <2>9, <2>12 DEF AMFraction
    <3> DEFINE s == SubSeq(t, (n + 1) + 1, Len(t))
    <3>2. s \in Seq(0..Dot) /\ Len(s) = m /\ \A j \in 1..m : s[j] = t[n + 1 + j]
      <4> DEFINE a == (n + 1) + 1
                 b == Len(t)
      <4>1. a \in 1..(Len(t) + 1) /\ b \in (a - 1)..Len(t) /\ a <= b /\ b - a + 1 = m
        BY <2>1, <2>5
      <4>2. \A j \in 1..m : a + j - 1 = n + 1 + j
        BY <2>1
      <4> HIDE DEF a, b
      <4>3. /\ SubSeq(t, a, b) \in Seq(0..Dot)
            /\ Len(SubSeq(t, a, b)) = IF a <= b THEN b - a + 1 ELSE 0
            /\ \A j \in 1..(b - a + 1) : SubSeq(t, a, b)[j] = t[a + j - 1]
        <5>1. a \in Int /\ b \in Int
          BY <2>1, <2>6 DEF a, b
        <5>2. \A i \in a..b : t[i] \in 0..Dot
          <6>1. \A i \in a..b : i \in 1..Len(t)
            BY <2>6, <4>1
          <6> QED BY <2>6, <6>1
        <5> DEFINE S == 0..Dot
        <5>3. \A i \in a..b : t[i] \in S
          BY <5>2
        <5> HIDE DEF S
        <5>4. /\ SubSeq(t, a, b) \in Seq(S)
              /\ Len(SubSeq(t, a, b)) = IF a <= b THEN b - a + 1 ELSE 0
              /\ \A j \in 1..(b - a + 1) : SubSeq(t, a, b)[j] = t[a + j - 1]
          BY ONLY <5>1, <5>3, SubSeqProperties
        <5> QED BY <5>4 DEF S
      <4>4. /\ SubSeq(t, a, b) \in Seq(0..Dot) /\ Len(SubSeq(t, a, b)) = m
            /\ \A j \in 1..m : SubSeq(t, a, b)[j] = t[n + 1 + j]
        BY <4>1, <4>2, <4>3
      <4> QED BY <4>4 DEF a, b
    <3> HIDE DEF s
    <3>3. Len(s) = Len(f) /\ \A j \in 1..Len(s) : s[j] = f[j]
      BY <2>5, <3>2 DEF m
    <3>4. s = f
      BY <1>1, <3>2, <3>3, SeqEqual
    <3> QED BY <3>1, <3>4 DEF s
  <2> QED BY <2>13, <2>14, <2>15, <2>16
<1> QED BY <1>3, <1>4

\* Division by a power of ten.
LEMMA AMDivision ==
    ASSUME NEW a \in Nat, NEW b \in Nat \ {0}
    PROVE  a \div b \in Nat /\ a % b \in Nat /\ a % b < b /\ a = (a \div b) * b + (a % b)
<1>1. a \div b \in Nat
  OBVIOUS
<1>2. a % b \in Nat /\ a % b < b
  OBVIOUS
<1>3. a = b * (a \div b) + (a % b)
  <2>1. a \in Nat /\ b \in Nat /\ b > 0
    OBVIOUS
  <2> QED BY ONLY <2>1, SMT
<1>4. b * (a \div b) = (a \div b) * b
  <2> DEFINE q == a \div b
  <2>1. q \in Nat /\ b \in Nat
    BY <1>1
  <2> HIDE DEF q
  <2>2. b * q = q * b
    BY ONLY <2>1, SMT
  <2> QED BY <2>2 DEF q
<1>5. a = (a \div b) * b + (a % b)
  BY <1>3, <1>4, Zenon
<1> QED BY <1>1, <1>2, <1>5, Zenon

\* What the wallet shows can be typed back, exactly: formatTokenAmount's text for any
\* positive amount, in a token of any number of decimals, is parsed by
\* parseTokenAmount as that amount.
THEOREM ShownCanBeTyped == \A a \in Nat \ {0}, d \in Nat : AMParse(AMFormat(a, d), d) = a
<1> SUFFICES ASSUME NEW a \in Nat \ {0}, NEW d \in Nat PROVE AMParse(AMFormat(a, d), d) = a
  OBVIOUS
<1> DEFINE base == AMTenTo[d]
           whole == a \div base
           rest == a % base
           pad == IF d = 0 THEN <<>> ELSE AMPadStart(AMDigits[rest], d)
           f == AMTrimEnd(pad, 0)
           t == AMDigits[whole] \o (IF f = <<>> THEN <<>> ELSE <<Dot>> \o f)
<1>1. base \in Nat \ {0} /\ (d = 0 => base = 1)
  BY AMPowers
<1>2. whole \in Nat /\ rest \in Nat /\ rest < base /\ a = whole * base + rest
  <2> HIDE DEF base
  <2> QED BY <1>1, AMDivision
<1>3. AMFormat(a, d) = t
  <2>1. ~(a < 0)
    OBVIOUS
  <2>2. AMFormat(a, d) = <<>> \o AMDigits[whole] \o (IF f = <<>> THEN <<>> ELSE <<Dot>> \o f)
    BY <2>1 DEF AMFormat
  <2> HIDE DEF whole, f
  <2>3. <<>> \o AMDigits[whole] = AMDigits[whole]
    BY <1>2, AMDigitsUnfold, ConcatEmptySeq
  <2> QED BY <2>2, <2>3
<1> HIDE DEF base, whole, rest
<1>4. pad \in Seq(0..9) /\ Len(pad) = d /\ AMNumber(pad) = rest
  <2>1. CASE d = 0
    <3>1. pad = <<>> /\ rest = 0
      BY <1>1, <1>2, <2>1
    <3> HIDE DEF pad
    <3>2. AMNumber(pad) = rest
      BY <3>1, AMNumberEmpty
    <3>3. pad \in Seq(0..9) /\ Len(pad) = d
      BY <2>1, <3>1
    <3> QED BY <3>2, <3>3
  <2>2. CASE d # 0
    <3>1. AMDigits[rest] \in Seq(0..9) /\ AMNumber(AMDigits[rest]) = rest
      BY <1>2, AMDigitsUnfold, AMDigitsAreRead
    <3>2. Len(AMDigits[rest]) <= d
      <4>1. d > 0 /\ rest < AMTenTo[d]
        BY <1>2, <2>2 DEF base
      <4> QED BY <1>2, <4>1, AMDigitsFit
    <3>3. pad = AMPadStart(AMDigits[rest], d)
      BY <2>2
    <3> HIDE DEF pad
    <3> QED BY <3>1, <3>2, <3>3, AMPadStartFills
  <2> QED BY <2>1, <2>2
<1> HIDE DEF pad
<1>5. f \in Seq(0..9) /\ Len(f) <= d /\ AMPadEnd(f, d) = pad
  BY <1>4, AMTrimmedZerosReturn
<1> HIDE DEF f
<1>6. AMTrim(t) = t /\ AMIsNumber(t) /\ AMWhole(t) = AMDigits[whole] /\ AMFraction(t) = f
  <2> DEFINE w == AMDigits[whole]
  <2>1. w \in Seq(0..9) /\ w # <<>>
    BY <1>2, AMDigitsUnfold
  <2>2. t = w \o (IF f = <<>> THEN <<>> ELSE <<Dot>> \o f)
    OBVIOUS
  <2> HIDE DEF w, t
  <2>3. AMTrim(t) = t /\ AMIsNumber(t) /\ AMWhole(t) = w /\ AMFraction(t) = f
    BY <1>5, <2>1, <2>2, AMShownIsSplit
  <2> QED BY <2>3 DEF w
<1> HIDE DEF t
<1>7. AMBaseUnits(t, d) = a
  <2>1. AMNumber(AMDigits[whole]) = whole
    BY <1>2, AMDigitsAreRead
  <2>2. AMBaseUnits(t, d) = whole * base + rest
    BY <1>4, <1>5, <1>6, <2>1 DEF AMBaseUnits, base
  <2> QED BY <1>2, <2>2
<1>8. a > 0
  OBVIOUS
<1> QED BY <1>3, <1>5, <1>6, <1>7, <1>8 DEF AMParse
=============================================================================
