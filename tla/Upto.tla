-------------------------------- MODULE Upto --------------------------------
(***************************************************************************)
(* Metered ("upto") payments: the buyer signs a ceiling and the chain      *)
(* moves at most that much.  The buyer checks the option and signs the     *)
(* simulated entries (contrib upto-buyer.ts), a session budget reserves    *)
(* the ceiling and debits what settled (upto-settlement-receipt.ts), the   *)
(* settlements of one facilitator run one after the other, and the         *)
(* facilitator is external: it may lose its answer, and what it answers    *)
(* may be false.                                                           *)
(***************************************************************************)
EXTENDS Integers, Sequences, FiniteSets, Functions, SequencesExt

CONSTANTS UPCalls,                \* concurrent payments of one asset
          UPCeilings,             \* the amounts a challenge may ask for
          UPMaxAmount, UPBudget,  \* maxAmount per call, and the session's ceiling
          UPNone, UPBad           \* undefined; an amount string that is not all digits

ASSUME UPAssumption == /\ IsFiniteSet(UPCalls)
                       /\ UPCeilings \subseteq Nat /\ UPMaxAmount \in Nat /\ UPBudget \in Nat

VARIABLES
    upPc, upCeiling,      \* per call: where it is, and the ceiling it authorizes
    upSigned,             \* per call: the entries it signed
    upQueue, upTail,      \* UptoSettlementQueue: who waits, and how the last one ended
    upAsked, upRan,       \* history: the settlements queued, and those started, in order
    upMoved,              \* external: what the chain moved for the call
    upHeader,             \* per call: the decoded settle header, or UPNone
    upReceipt,            \* per call: the receipt debited
    upReserved, upSpent,  \* createSessionBudget, for the asset
    upProbe               \* the last probe of the facilitator

upVars == <<upPc, upCeiling, upSigned, upQueue, upTail, upAsked, upRan, upMoved, upHeader,
            upReceipt, upReserved, upSpent, upProbe>>

UPInit == /\ upPc = [b \in UPCalls |-> "idle"] /\ upCeiling = [b \in UPCalls |-> 0]
          /\ upSigned = [b \in UPCalls |-> {}] /\ upQueue = <<>> /\ upTail = "resolved"
          /\ upAsked = <<>> /\ upRan = <<>> /\ upMoved = [b \in UPCalls |-> 0]
          /\ upHeader = [b \in UPCalls |-> UPNone] /\ upReceipt = [b \in UPCalls |-> UPNone]
          /\ upReserved = 0 /\ upSpent = 0 /\ upProbe = "none"

-----------------------------------------------------------------------------
(* The option and the entries to sign. *)

UPOffer(a) == [scheme |-> "upto", sponsored |-> TRUE, contract |-> "trusted", amount |-> a]

\* Offers: well-formed ones, and ones wrong in one field.
UPOffers == {UPOffer(a) : a \in UPCeilings \cup {UPBad}}
            \cup {[UPOffer(1) EXCEPT !.scheme = "exact"],
                  [UPOffer(1) EXCEPT !.sponsored = FALSE],
                  [UPOffer(1) EXCEPT !.contract = "sellers"]}

\* assertUptoRequirement accepts.
UPRequirementOk(r) == /\ r.scheme = "upto" /\ r.sponsored /\ r.contract = "trusted"
                      /\ r.amount # UPBad /\ r.amount <= UPMaxAmount

\* The payer's entry for a ceiling: settle(token, from, to, ceiling, expiry, nonce, actual, void).
UPEntry(c) == [address |-> "payer", contract |-> "trusted", fn |-> "settle", to |-> "payTo",
               ceiling |-> c, actual |-> c, nonce |-> "ours"]

\* What the simulation may answer: no transaction, or up to two entries.
UPSimulations(c) ==
    LET bad == {[UPEntry(c) EXCEPT !.to = "other"], [UPEntry(c) EXCEPT !.ceiling = c + 1],
                [UPEntry(c) EXCEPT !.nonce = "other"], [UPEntry(c) EXCEPT !.fn = "transfer"]}
        some == bad \cup {UPEntry(c), [UPEntry(c) EXCEPT !.address = "other"]}
    IN  {<<>>} \cup {<<e>> : e \in some} \cup {<<UPEntry(c), e>> : e \in some}

\* assertExpectedUptoInvocation.
UPExpected(e, c) == e = UPEntry(c)

\* The entries of the payer in a simulated transaction.
UPOwn(sim) == {e \in Range(sim) : e.address = "payer"}

-----------------------------------------------------------------------------
(* The settle header and the receipt. *)

\* decodeUptoSettlement: the figure, UPNone, or UPBad when it throws.
UPDecodeUpto(h, ceiling) ==
    IF h = UPNone \/ ~h.success \/ ~h.hash \/ h.amount \in {UPNone, UPBad} THEN UPNone
    ELSE IF h.amount > ceiling THEN UPBad ELSE h.amount

\* parseSettledAmount.
UPParseSettled(raw) == IF raw \in {UPNone, UPBad} THEN UPNone ELSE raw

\* buildSettlementReceipt.
UPBuildReceipt(ceiling, raw) ==
    LET reported == UPParseSettled(raw) IN
    IF reported = UPNone THEN [ceiling |-> ceiling, settled |-> ceiling, source |-> "fallback"]
    ELSE IF reported > ceiling
    THEN [ceiling |-> ceiling, settled |-> ceiling, source |-> "clamped"]
    ELSE [ceiling |-> ceiling, settled |-> reported, source |-> "facilitator"]

\* settlementReceiptFromResponse.
UPReceiptFrom(h, ceiling) ==
    IF h = UPNone \/ ~h.hash \/ ~h.success THEN UPNone ELSE UPBuildReceipt(ceiling, h.amount)

\* The kinds of SpendOutcome, told apart as classifySettlement tells them: a failure
\* without a transaction is positive evidence that nothing reached the chain.
UPOutcome(h, ceiling) == CASE UPReceiptFrom(h, ceiling) # UPNone -> "settled"
                           [] h # UPNone /\ ~h.success /\ ~h.hash -> "not-spent"
                           [] OTHER -> "indeterminate"

\* resolveSpendDebit: a receipt's settled amount, nothing when nothing was spent, and
\* the whole ceiling when what happened is not known.
UPDebit(h, ceiling) == CASE UPOutcome(h, ceiling) = "settled" -> UPReceiptFrom(h, ceiling).settled
                         [] UPOutcome(h, ceiling) = "not-spent" -> 0
                         [] OTHER -> ceiling

-----------------------------------------------------------------------------
(* The session budget. *)

\* Mutant: what is reserved by others is not counted.
UPFitsSpentOnly(amount) == upSpent + amount <= UPBudget

\* reserve: the amount fits beside what is spent and reserved.
UPFits(amount) == upSpent + upReserved + amount <= UPBudget

\* dropReservation, floored at zero.
UPDrop(amount) == upReserved' = IF upReserved >= amount THEN upReserved - amount ELSE 0

UPRemaining == IF UPBudget > upSpent + upReserved THEN UPBudget - (upSpent + upReserved) ELSE 0

-----------------------------------------------------------------------------
(* A payment. *)

\* The offer is checked and its ceiling reserved, or the call is refused.  After a
\* probe that found a mismatch the buyer does not start.
UPStart(b) == \E r \in UPOffers :
    /\ upPc[b] = "idle" /\ upProbe \in {"none", "compatible"}
    /\ LET ok == UPRequirementOk(r) /\ UPFits(r.amount) IN
       /\ upPc' = [upPc EXCEPT ![b] = IF ok THEN "reserved" ELSE "refused"]
       /\ upCeiling' = [upCeiling EXCEPT ![b] = IF ok THEN r.amount ELSE 0]
       /\ upReserved' = IF ok THEN upReserved + r.amount ELSE upReserved
    /\ UNCHANGED <<upSigned, upQueue, upTail, upAsked, upRan, upMoved, upHeader, upReceipt, upSpent, upProbe>>

\* createUptoPaymentPayload: every entry of the payer must match, and one must be
\* there; otherwise the call is refused and its reservation released.
UPBuild(b) == \E sim \in UPSimulations(upCeiling[b]) :
    /\ upPc[b] = "reserved"
    /\ LET own == UPOwn(sim)
           ok  == own # {} /\ \A e \in own : UPExpected(e, upCeiling[b])
       IN  /\ upPc' = [upPc EXCEPT ![b] = IF ok THEN "queued" ELSE "refused"]
           /\ upSigned' = [upSigned EXCEPT ![b] = IF ok THEN own ELSE {}]
           /\ upQueue' = IF ok THEN Append(upQueue, b) ELSE upQueue
           /\ upAsked' = IF ok THEN Append(upAsked, b) ELSE upAsked
           /\ IF ok THEN UNCHANGED upReserved ELSE UPDrop(upCeiling[b])
    /\ UNCHANGED <<upCeiling, upTail, upRan, upMoved, upHeader, upReceipt, upSpent, upProbe>>

\* UptoSettlementQueue.run: the head starts when the one before it has ended.
UPRun == /\ upQueue # <<>> /\ upPc[Head(upQueue)] = "queued"
         /\ upPc' = [upPc EXCEPT ![Head(upQueue)] = "sent"]
         /\ upRan' = Append(upRan, Head(upQueue))
         /\ UNCHANGED <<upCeiling, upSigned, upQueue, upTail, upAsked, upMoved, upHeader,
                        upReceipt, upReserved, upSpent, upProbe>>

\* External: the chain moves at most a signed ceiling; zero when it refuses.
UPChain(b) == UNION {0..e.ceiling : e \in upSigned[b]}

\* External: the facilitator's answers, true or not: a success, with or without a
\* usable hash, reporting any amount, nothing or rubbish; a failure before the
\* submission (no hash) or after it.
UPHeaders(ceiling) ==
    [success : {TRUE}, hash : BOOLEAN, amount : 0..(ceiling + 1) \cup {UPNone, UPBad}]
    \cup [success : {FALSE}, hash : BOOLEAN, amount : {UPNone}]

\* this.tail = current.then(ok, ok): the next one starts whatever happened.
UPEnds(b, ok) == upTail' = "resolved" /\ upQueue' = Tail(upQueue)

\* The settlement ends: answered, or lost on the way (the chain may have moved).
UPSettled(b) == \E moved \in UPChain(b) :
    /\ upPc[b] = "sent"
    /\ upMoved' = [upMoved EXCEPT ![b] = moved]
    /\ \E h \in UPHeaders(upCeiling[b]) \cup {UPNone} :
          /\ upHeader' = [upHeader EXCEPT ![b] = h]
          /\ UPEnds(b, h # UPNone)
    /\ upPc' = [upPc EXCEPT ![b] = "answered"]
    /\ UNCHANGED <<upCeiling, upSigned, upAsked, upRan, upReceipt, upReserved, upSpent, upProbe>>

\* settle or, when nothing was spent, release: the reservation is dropped and the
\* debit recorded.
UPRecord(b) ==
    /\ upPc[b] = "answered"
    /\ upReceipt' = [upReceipt EXCEPT ![b] = UPReceiptFrom(upHeader[b], upCeiling[b])]
    /\ upSpent' = upSpent + UPDebit(upHeader[b], upCeiling[b])
    /\ UPDrop(upCeiling[b])
    /\ upPc' = [upPc EXCEPT ![b] =
                   IF UPOutcome(upHeader[b], upCeiling[b]) = "not-spent" THEN "released" ELSE "done"]
    /\ UNCHANGED <<upCeiling, upSigned, upQueue, upTail, upAsked, upRan, upMoved, upHeader, upProbe>>

-----------------------------------------------------------------------------
(* The capability probe, before any payment. *)

\* extractNetworks, extractSchemes, extractFeeSponsorship: the first spelling present.
UPExtractNetworks(d) == IF d.networks # UPNone THEN d.networks
                        ELSE IF d.supportedNetworks # UPNone THEN d.supportedNetworks
                        ELSE IF d.network # UPNone THEN {d.network} ELSE {}

UPExtractSchemes(d) == IF d.schemes # UPNone THEN d.schemes
                       ELSE IF d.supportedSchemes # UPNone THEN d.supportedSchemes ELSE {}

UPExtractSponsorship(d) == IF d.areFeesSponsored # UPNone THEN d.areFeesSponsored
                           ELSE IF d.feeSponsorship # UPNone THEN d.feeSponsorship
                           ELSE IF d.sponsorsFees # UPNone THEN d.sponsorsFees ELSE FALSE

\* checkCapabilityMismatches against a local configuration that wants all three.
UPMismatches(d) == {f \in {"network", "scheme", "areFeesSponsored"} :
    CASE f = "network" -> "testnet" \notin UPExtractNetworks(d)
      [] f = "scheme"  -> "upto" \notin UPExtractSchemes(d)
      [] f = "areFeesSponsored" -> ~UPExtractSponsorship(d)}

\* Bodies an endpoint may answer with; UPNone: an error, a refusal or the timeout.
UPBodies == {UPNone} \cup
    [networks : {UPNone, {"pubnet"}}, supportedNetworks : {UPNone, {"testnet"}},
     network : {UPNone, "testnet"}, schemes : {UPNone, {}}, supportedSchemes : {UPNone, {"upto"}},
     areFeesSponsored : {UPNone, TRUE}, feeSponsorship : {UPNone, FALSE}, sponsorsFees : {UPNone, TRUE}]

\* probeFacilitator: /capabilities, then /health; null when neither answers.
UPProbe(capabilities, health) == IF capabilities # UPNone THEN capabilities ELSE health

\* The buyer probes and compares; it goes on only without a mismatch.
UPPreflight ==
    /\ upProbe = "none" /\ \A b \in UPCalls : upPc[b] = "idle"
    /\ \E capabilities, health \in UPBodies :
          LET d == UPProbe(capabilities, health) IN
          upProbe' = IF d = UPNone THEN "null" ELSE IF UPMismatches(d) = {} THEN "compatible" ELSE "mismatch"
    /\ UNCHANGED <<upPc, upCeiling, upSigned, upQueue, upTail, upAsked, upRan, upMoved, upHeader,
                   upReceipt, upReserved, upSpent>>

UPNext == \/ UPRun \/ UPPreflight
          \/ \E b \in UPCalls : UPStart(b) \/ UPBuild(b) \/ UPSettled(b) \/ UPRecord(b)

UPSpec == UPInit /\ [][UPNext]_upVars

-----------------------------------------------------------------------------
UPTypeOK ==
    /\ upPc \in [UPCalls -> {"idle", "reserved", "queued", "sent", "answered", "done", "released",
                         "refused"}]
    /\ upReserved \in Nat /\ upSpent \in Nat /\ UPRemaining \in 0..UPBudget

\* What a call in flight holds of the budget, and what the chain took for an ended one.
UPHeld(b) == IF upPc[b] \in {"reserved", "queued", "sent", "answered"} THEN upCeiling[b] ELSE 0

\* The facilitator's answer admits to less than the chain moved: a smaller amount, or a
\* failure before the submission when something moved.
UPUnderReports(h, moved) ==
    /\ h # UPNone
    /\ \/ h.success /\ h.hash /\ h.amount \notin {UPNone, UPBad} /\ h.amount < moved
       \/ ~h.success /\ ~h.hash /\ moved > 0

UPTaken(b) == IF upPc[b] \in {"done", "released"} /\ ~UPUnderReports(upHeader[b], upMoved[b])
              THEN upMoved[b] ELSE 0

(***************************************************************************)
(* The budget covers the chain.  However the calls interleave, and when    *)
(* the facilitator's answer is lost, says nothing of the amount, is        *)
(* rubbish or claims too much, what the chain moved is held by the         *)
(* reservation of a call in flight or is part of what was debited; only an *)
(* answer that admits to less than was moved is believed.  Reservations    *)
(* and debits together never pass the session's ceiling, whatever is       *)
(* answered, and a receipt that names the facilitator as its source shows  *)
(* the figure the buyer's own decoder reads (upto-buyer.ts).               *)
(***************************************************************************)
UPBudgetCoversTheChain ==
    /\ upSpent + upReserved <= UPBudget
    /\ upReserved = SumFunction([b \in UPCalls |-> UPHeld(b)])
    /\ SumFunction([b \in UPCalls |-> UPTaken(b)]) <= upSpent
    /\ \A b \in UPCalls : upMoved[b] <= upCeiling[b]
    /\ \A b \in UPCalls : upPc[b] = "done" /\ upReceipt[b] # UPNone /\ upReceipt[b].source = "facilitator" =>
          upReceipt[b].settled = UPDecodeUpto(upHeader[b], upCeiling[b])

(***************************************************************************)
(* The settlement queue runs every settlement it was given, one at a time, *)
(* each once and in the order they were queued, also after one that        *)
(* rejected.                                                               *)
(***************************************************************************)
UPQueueRunsInTurn ==
    /\ Cardinality({b \in UPCalls : upPc[b] = "sent"}) <= 1
    /\ \A b \in UPCalls : upPc[b] \in {"queued", "sent"} => b \in Range(upQueue)
    /\ IsInjective(upRan)
    /\ Len(upRan) <= Len(upAsked) /\ \A i \in 1..Len(upRan) : upRan[i] = upAsked[i]

\* Capped settlements (upto-settlement-receipt.ts): the budget covers what the
\* chain moved unless the facilitator admits to less, and the settlements of one
\* facilitator run one at a time, in the order they were queued.
UPSettlementsAreSound == UPBudgetCoversTheChain /\ UPQueueRunsInTurn

-----------------------------------------------------------------------------
(* What the session budget amounts to. *)

\* A call is charged when it is settled in the budget, free when it was refused or
\* its reservation was released.
UPStatus(b) == CASE upPc[b] = "done" -> "charged"
                 [] upPc[b] \in {"refused", "released"} -> "free"
                 [] OTHER -> "open"

UPAtomic == INSTANCE SpendBudget WITH
    Calls <- UPCalls, Assets <- {"asset"},
    Ceiling <- [a \in {"asset"} |-> UPBudget],
    spent <- [a \in {"asset"} |-> upSpent],
    status <- [b \in UPCalls |-> UPStatus(b)]

\* Reserving, signing, queueing and settling, overlapped in any way and whatever the
\* facilitator answers or loses, amount to one check-and-debit step per call
\* (upto-settlement-receipt.ts, createSessionBudget).
UPImplementsBudget == UPAtomic!Spec
=============================================================================
