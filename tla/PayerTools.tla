----------------------------- MODULE PayerTools ------------------------------
(***************************************************************************)
(* Around the MCP payer: quoting, the catalogue search and its dry run, the*)
(* signer with its selection tripwire, the tracing, metrics, mainnet       *)
(* confirmation and circuit breaker contributed for it.  The quote and the *)
(* catalogue are pure and compared with the guards of the payer itself; the*)
(* machine interleaves calls that share one signer.  External: the         *)
(* catalogue, the seller, and the x402 client library, which may hand the  *)
(* hook any requirement at all.  An option is named after the call that    *)
(* cleared it.                                                             *)
(***************************************************************************)
EXTENDS Integers, Sequences, FiniteSets, FiniteSetsExt, SequencesExt, X402Guards

CONSTANTS PTCalls, PTPrices, PTMax,   \* calls; prices asked; max_amount
          PTBudget,                   \* session ceiling of the one asset
          PTNone

ASSUME PTAssumption == /\ PTPrices \subseteq Nat /\ PTMax \in Nat /\ PTBudget \in Nat
                       /\ PTNone \notin PTCalls \cup {"pay", "sign", "foreign", "indeterminate"} /\ "foreign" \notin PTCalls

VARIABLES ptOp, ptPc, ptPrice, ptExpected, ptHolder, ptSigned, ptSpans, ptLeft, ptMetrics, ptFails, ptStreak, ptOut

ptVars == <<ptOp, ptPc, ptPrice, ptExpected, ptHolder, ptSigned, ptSpans, ptLeft, ptMetrics, ptFails, ptStreak, ptOut>>

-----------------------------------------------------------------------------
(* protocol.ts and Payer.quote *)

\* assertV2Challenge: an object of version 2 with at least one option.
assertV2Challenge(ch) == ch.object /\ ch.version = 2 /\ Len(ch.accepts) > 0

\* clearOneOption under NO_PRICE_LIMIT, then the session's remaining ceiling.  A refusal is
\* part of the answer.
PTQuote(ch, allowed, remaining) ==
    IF Refusal(ch.accepts, allowed, 1000) # "none" THEN [payable |-> FALSE, selected |-> PTNone]
    ELSE LET o == SelectRequirements(ch.accepts, allowed)
         IN [payable |-> o.amount <= remaining, selected |-> o]

\* What pay() would do with the same challenge: clear one option within maxAmount and the
\* ledger's ceiling.
PTPays(ch, allowed, maxAmount, remaining) ==
    /\ Refusal(ch.accepts, allowed, maxAmount) = "none"
    /\ SelectRequirements(ch.accepts, allowed).amount <= remaining

\* narrowTo keeps the cleared option only; toGuardView keeps positions, so the option
\* cleared is the seller's own at that position.
narrowTo(ch, o) == [ch EXCEPT !.accepts = <<o>>]

PTOptions == PaymentOption({"usdc", "eurc"}, {Malformed, 1, 3})

\* A challenge is quoted payable exactly when pay(), allowed to spend the quoted price, goes
\* on to sign that option, alone.
ASSUME PTQuoteAgreesWithPay ==
    \A acc \in UNION {[1..n -> PTOptions] : n \in 1..2}, left \in {0, 2, 3} :
        LET ch == [object |-> TRUE, version |-> 2, accepts |-> acc]
            q == PTQuote(ch, {"usdc"}, left)
        IN /\ q.payable <=> (q.selected # PTNone /\ PTPays(ch, {"usdc"}, q.selected.amount, left))
           /\ q.payable => /\ SelectRequirements(narrowTo(ch, q.selected).accepts, {"usdc"}) = q.selected
                           /\ assertV2Challenge(narrowTo(ch, q.selected))

-----------------------------------------------------------------------------
(* pay-and-call.ts *)

\* The first payable entry of one catalogue resource (0 for none): network, scheme, allowed
\* asset, sponsored fees and a price that parses.
PTFirstPayable(accepts, allowed) ==
    LET ok == {i \in DOMAIN accepts : /\ accepts[i].onNetwork /\ accepts[i].asset \in allowed
                                      /\ accepts[i].sponsored /\ accepts[i].amount >= 0}
    IN IF ok = {} THEN 0 ELSE Min(ok)

\* One candidate per resource, sorted by amount.
selectCandidates(resources, allowed) ==
    LET found == SelectSeq(resources, LAMBDA r : PTFirstPayable(r, allowed) # 0)
        amounts == [k \in DOMAIN found |-> found[k][PTFirstPayable(found[k], allowed)].amount]
    IN SortSeq(amounts, <)

\* One option per resource is taken, the first payable one: the list is ascending, has one
\* entry per payable resource, and its head is the least of those; and nothing is offered
\* that the payer would then refuse for its asset, network or fees.
ASSUME PTCandidatesAreSorted ==
    \A r1, r2 \in {<<o>> : o \in PTOptions} \cup {<<o, p>> : o \in {x \in PTOptions : x.asset = "eurc"}, p \in PTOptions} :
        LET s == selectCandidates(<<r1, r2>>, {"usdc"})
        IN /\ \A i \in 1..Len(s) - 1 : s[i] <= s[i + 1]
           /\ Len(s) = Cardinality({k \in 1..2 : Refusal(<<r1, r2>>[k], {"usdc"}, 1000) = "none"})

-----------------------------------------------------------------------------
(* Small pure pieces *)

\* truncateUtf8 over bytes "a" (one-byte character), "L" (lead of a two-byte one) and "c"
\* (its continuation): at the limit a character cut in half decodes to a replacement
\* character, which is stripped.
truncateUtf8(bytes, max) == IF Len(bytes) <= max THEN bytes
                            ELSE LET cut == SubSeq(bytes, 1, max)
                                 IN IF Len(cut) > 0 /\ Last(cut) = "L" THEN Front(cut) ELSE cut

ASSUME PTTruncatedIsWhole == \A max \in 0..4, chars \in UNION {[1..n -> {<<"a">>, <<"L", "c">>}] : n \in 0..3} :
    LET t == truncateUtf8(FlattenSeq(chars), max)
    IN /\ Len(t) <= max \/ t = FlattenSeq(chars)
       /\ \E k \in 0..Len(chars) : t = FlattenSeq(SubSeq(chars, 1, k))

\* confirmMainnetPayment: whether the payment goes ahead.
confirmMainnetPayment(real, yes, interactive, answer) ==
    ~real \/ yes \/ (interactive /\ answer = "YES")

\* Nothing real is spent without --yes or a typed YES; elsewhere nobody is asked.
ASSUME PTRealFundsAreConfirmed == \A real, yes, tty \in BOOLEAN, ans \in {"YES", "no"} :
    (confirmMainnetPayment(real, yes, tty, ans) /\ real) => (yes \/ (tty /\ ans = "YES"))

\* isFacilitatorFailure as the breaker calls it: with `ok` and `error` only, so a response's
\* status never reaches it; every error but a rejection and a refusal of the breaker counts.
isFacilitatorFailure(result) == result \notin {"2xx", "402", "5xx", "PaymentRejectedError", "CircuitOpenError"}

\* The failures its header comment names.
PTIsOutage(result) == result \in {"5xx", "FacilitatorServerError", "network"}

-----------------------------------------------------------------------------
(* The machine.  A call quotes, dry-runs, pays (serialised by the payer's mutex), or uses *)
(* the signer directly. *)

PTOps == {"quote", "dry", "pay", "sign"}

PTInit == /\ ptOp = [c \in PTCalls |-> PTNone] /\ ptPc = [c \in PTCalls |-> "idle"] /\ ptPrice = [c \in PTCalls |-> 0]
          /\ ptExpected = PTNone /\ ptHolder = PTNone /\ ptSigned = [c \in PTCalls |-> PTNone]
          /\ ptSpans = [c \in PTCalls |-> 0] /\ ptLeft = PTBudget /\ ptMetrics = [ok |-> 0, amount |-> 0, failed |-> 0, refused |-> 0]
          /\ ptFails = 0 /\ ptStreak = 0 /\ ptOut = [c \in PTCalls |-> PTNone]

PTGoto(c, where) == ptPc' = [ptPc EXCEPT ![c] = where] /\ UNCHANGED <<ptOut, ptHolder>>

PTEnd(c, out) == /\ ptPc' = [ptPc EXCEPT ![c] = "done"] /\ ptOut' = [ptOut EXCEPT ![c] = out]
                 /\ ptHolder' = IF ptHolder = c THEN PTNone ELSE ptHolder

\* payAndCallWithDryRun's discover: the budget first, then the search, then the cheapest
\* candidate within max_amount.  A quote and a pay name their URL themselves.
PTStart(c) == \E op \in PTOps :
    /\ ptPc[c] = "idle" /\ ptOp' = [ptOp EXCEPT ![c] = op]
    /\ IF op = "sign" THEN PTGoto(c, "sign") ELSE PTGoto(c, IF op = "dry" THEN "search" ELSE "probe")
    /\ UNCHANGED <<ptPrice, ptExpected, ptSigned, ptSpans, ptLeft, ptMetrics, ptFails, ptStreak>>

PTSearch(c) == \E advertised \in SUBSET PTPrices, up \in BOOLEAN :
    /\ ptPc[c] = "search"
    /\ CASE ptLeft = 0 -> PTEnd(c, "exhausted")
         [] ptLeft > 0 /\ ~up -> PTEnd(c, "searchFailed")
         [] OTHER -> IF \E p \in advertised : p <= PTMax THEN PTGoto(c, "probe") ELSE PTEnd(c, "noPayable")
    /\ UNCHANGED <<ptOp, ptPrice, ptExpected, ptSigned, ptSpans, ptLeft, ptMetrics, ptFails, ptStreak>>

\* tracePaymentSigner and tracePaymentFetch open a span around what they wrap.
PTSpanStarts(c) == ptSpans' = [ptSpans EXCEPT ![c] = @ + 1]

\* The first request, inside its "quote" span; pay() holds the mutex from here.
PTProbeSent(c) == /\ ptPc[c] = "probe" /\ (ptOp[c] = "pay" => ptHolder = PTNone)
                  /\ ptHolder' = IF ptOp[c] = "pay" THEN c ELSE ptHolder
                  /\ ptPc' = [ptPc EXCEPT ![c] = "probing"] /\ PTSpanStarts(c)
                  /\ UNCHANGED <<ptOp, ptPrice, ptExpected, ptSigned, ptLeft, ptMetrics, ptFails, ptStreak, ptOut>>

\* inSpan's finally: the span ends however the request does.
PTSpanEnds(c) == ptSpans' = [ptSpans EXCEPT ![c] = @ - 1]

\* It fails, needs no payment, or is challenged: a quote reports, pay() clears or refuses.
PTProbe(c) == /\ ptPc[c] = "probing" /\ PTSpanEnds(c)
    /\ \/ \E how \in {"fetchFailed", "unpaid", "badChallenge"} : PTEnd(c, how) /\ UNCHANGED <<ptPrice, ptMetrics>>
       \/ \E p \in PTPrices :
          /\ ptPrice' = [ptPrice EXCEPT ![c] = p]
          /\ IF ptOp[c] # "pay" THEN PTEnd(c, IF p <= ptLeft THEN "payable" ELSE "notPayable") /\ UNCHANGED ptMetrics
             ELSE IF p > PTMax THEN PTEnd(c, "refused") /\ UNCHANGED ptMetrics
             ELSE IF p > ptLeft THEN PTEnd(c, "ceiling") /\ ptMetrics' = [ptMetrics EXCEPT !.refused = @ + 1]
             ELSE PTGoto(c, "sign") /\ UNCHANGED ptMetrics
    /\ UNCHANGED <<ptOp, ptExpected, ptSigned, ptLeft, ptFails, ptStreak>>

\* signPayment, the same in both signers: the one cleared option is recorded, then the library is asked for a payload.
PTSign(c) == /\ ptPc[c] = "sign" /\ PTGoto(c, "hook") /\ ptExpected' = c /\ PTSpanStarts(c)
             /\ UNCHANGED <<ptOp, ptPrice, ptSigned, ptLeft, ptMetrics, ptFails, ptStreak>>

\* Mutant: the hook only checks that something was cleared.
PTTripwireAny(selected) == ptExpected # PTNone

\* onBeforePaymentCreation: something was cleared, and this is the very object.
PTTripwire(selected) == ptExpected # PTNone /\ selected = ptExpected

\* The hook runs inside createPaymentPayload.  The library hands it an option some call
\* cleared, this one or another, or one nobody cleared; and another call may have replaced or
\* forgotten what was recorded.
PTHook(c) == \E selected \in PTCalls \cup {"foreign"} :
    /\ ptPc[c] = "hook"
    /\ IF PTTripwire(selected) THEN ptSigned' = [ptSigned EXCEPT ![c] = selected] /\ PTGoto(c, "built")
       ELSE ptSigned' = ptSigned /\ PTGoto(c, "mismatch")
    /\ UNCHANGED <<ptOp, ptPrice, ptExpected, ptSpans, ptLeft, ptMetrics, ptFails, ptStreak>>

\* signPayment's finally forgets the option, whoever's it is by then.
PTSignEnds(c) == /\ ptPc[c] \in {"built", "mismatch"} /\ ptExpected' = PTNone /\ PTSpanEnds(c)
                 /\ IF ptPc[c] = "mismatch" THEN PTEnd(c, "mismatch")
                    ELSE IF ptOp[c] = "sign" THEN PTEnd(c, "signed") ELSE PTGoto(c, "submit")
                 /\ UNCHANGED <<ptOp, ptPrice, ptSigned, ptLeft, ptMetrics, ptFails, ptStreak>>

\* How the paid requests end (their retries are Payer's): settled is debited and counted,
\* an unreadable settlement is debited and counted as a failure, a rejection is only counted.
PTSubmit(c) == /\ ptPc[c] = "submit"
               /\ \/ /\ ptLeft' = ptLeft - ptPrice[c] /\ PTEnd(c, "paid")
                     /\ ptMetrics' = [ptMetrics EXCEPT !.ok = @ + 1, !.amount = @ + ptPrice[c]]
                  \/ /\ ptLeft' = ptLeft - ptPrice[c] /\ PTEnd(c, "indeterminate")
                     /\ ptMetrics' = [ptMetrics EXCEPT !.failed = @ + 1]
                  \/ ptLeft' = ptLeft /\ PTEnd(c, "failed") /\ ptMetrics' = [ptMetrics EXCEPT !.failed = @ + 1]
               /\ UNCHANGED <<ptOp, ptPrice, ptExpected, ptSigned, ptSpans, ptFails, ptStreak>>

\* withX402CircuitBreaker around a facilitator call while closed: failures in a row, as the
\* breaker counts them and as its comment defines them.
PTGuarded == \E r \in {"2xx", "402", "5xx", "PaymentRejectedError", "FacilitatorServerError", "DisallowedAssetError", "network"} :
    /\ ptFails < 2 /\ ptStreak < 2
    /\ ptFails' = (IF isFacilitatorFailure(r) THEN ptFails + 1 ELSE 0)
    /\ ptStreak' = (IF PTIsOutage(r) THEN ptStreak + 1 ELSE 0)
    /\ UNCHANGED <<ptOp, ptPc, ptPrice, ptExpected, ptHolder, ptSigned, ptSpans, ptLeft, ptMetrics, ptOut>>

PTNext == PTGuarded \/ \E c \in PTCalls :
    PTStart(c) \/ PTSearch(c) \/ PTProbeSent(c) \/ PTProbe(c) \/ PTSign(c) \/ PTHook(c) \/ PTSignEnds(c) \/ PTSubmit(c)

PTSpec == PTInit /\ [][PTNext]_ptVars

PTTypeOK == /\ ptOp \in [PTCalls -> PTOps \cup {PTNone}] /\ ptExpected \in PTCalls \cup {PTNone}
            /\ ptPc \in [PTCalls -> {"idle", "search", "probe", "probing", "sign", "hook", "built", "mismatch", "submit", "done"}]
            /\ ptHolder \in PTCalls \cup {PTNone} /\ ptSigned \in [PTCalls -> PTCalls \cup {PTNone, "foreign"}]
            /\ ptSpans \in [PTCalls -> 0..1] /\ ptLeft \in 0..PTBudget

\* Whatever the library hands the hook and whatever calls interleave on one signer, a payload
\* is only built for an option that a call cleared for signing; and as long as nobody uses the
\* signer but pay(), whose calls take turns, for the option of the very call that signs
\* (signer.ts).  Quotes and dry runs sign nothing; a finished call has no span open; the
\* metrics never report more spend than left the budget, and exactly that unless some
\* settlement could not be read, which is debited and not counted as spend (payer.ts, metrics.ts).
PTOnlyClearedIsSigned == /\ \A c \in PTCalls :
                              /\ ptSigned[c] # PTNone => /\ ptSigned[c] \in PTCalls
                                                         /\ ptOp[ptSigned[c]] \in {"pay", "sign"}
                                                         /\ (\A d \in PTCalls : ptOp[d] # "sign") => ptSigned[c] = c
                              /\ ptOp[c] \in {"quote", "dry"} => ptSigned[c] = PTNone
                              /\ ptPc[c] = "done" => ptSpans[c] = 0
                         /\ ptMetrics.amount <= PTBudget - ptLeft
                         /\ (\A c \in PTCalls : ptOut[c] # "indeterminate") => ptMetrics.amount = PTBudget - ptLeft

\* Header comment of facilitator-health-probe.ts: only transport failures and HTTP 5xx count
\* as outages, so the breaker's streak is the streak of those.
PTOutagesAreCounted == ptFails = ptStreak
=============================================================================
