-------------------------------- MODULE Payer --------------------------------
(***************************************************************************)
(* The MCP x402 payer (src/packages/mcp-x402-payer): pay() calls of one    *)
(* server session, serialised by the promise-chain mutex of ledger.ts,     *)
(* each running the fetch / clear / sign / pay-and-retry loop of payer.ts  *)
(* against the session ledger.                                             *)
(*                                                                         *)
(* JavaScript runs to the next `await` without interruption, so one action *)
(* is the code between two awaits.  The resource server, the facilitator   *)
(* and the chain are external: their answers are inputs, and every signed  *)
(* payload has a fate of its own that outlives the call that sent it.      *)
(***************************************************************************)
EXTENDS X402Guards

CONSTANTS Calls,         \* pay() invocations made in one session
          Assets,        \* assets with a configured session ceiling
          Ceiling,       \* [Assets -> Nat], VELLAR_X402_ASSETS
          OfferedAssets, \* assets sellers ask for, configured or not
          Challenges,    \* `accepts` arrays a 402 may carry
          MaxAmounts,    \* max_amount arguments, Malformed included
          MAX_ATTEMPTS,  \* 3 in payer.ts
          NoOption       \* "no option cleared": undefined

ASSUME CeilingAssumption == Ceiling \in [Assets -> Nat]

ASSUME AttemptsAssumption == MAX_ATTEMPTS \in Nat \ {0}

ASSUME MaxAmountsAssumption == MaxAmounts \subseteq Int

ASSUME ChallengesAssumption ==
    /\ Challenges \subseteq Seq(PaymentOption(OfferedAssets, Int))
    /\ NoOption \notin PaymentOption(OfferedAssets, Int)

VARIABLES
    queue,      \* the mutex's promise chain: Head is the call inside it
    pc,         \* where each call is suspended
    maxAmount,  \* the call's max_amount argument
    chosen,     \* the option the guards cleared
    attempt,    \* loop counter of payExclusively
    spent,      \* the session ledger's map
    expected,   \* the signer tripwire's expected.current
    payload,    \* fate of the payload signed at each attempt of each call
    debits,     \* history: how often record() ran for the call
    outcome     \* how the call ended

vars == <<queue, pc, maxAmount, chosen, attempt, spent, expected, payload,
          debits, outcome>>

\* Suspension points inside the mutex.
Critical == {"fetching", "signing", "paying", "reading"}

(***************************************************************************)
(* A payload is "sent" once its request left; the chain settles it at most *)
(* once, or it is dead (rejected, never submitted, or expired).            *)
(***************************************************************************)
Fates == {"unsigned", "sent", "dead", "settled"}

Outcomes == {"none", "invalidAmount", "fetchFailed", "unpaid", "badChallenge",
             "refused", "overCeiling", "signFailed", "rejected", "dropped",
             "indeterminate", "paid", "bodyLost", "settlementFailed",
             "noResult"}

-----------------------------------------------------------------------------
(* The session ledger (createSpendLedger). *)

FitsCeiling(asset, amount) == spent[asset] + amount <= Ceiling[asset]

RemainingFor(asset) == IF Ceiling[asset] > spent[asset]
                       THEN Ceiling[asset] - spent[asset] ELSE 0

Record(c) == /\ spent' = [spent EXCEPT ![chosen[c].asset] = @ + chosen[c].amount]
             /\ debits' = [debits EXCEPT ![c] = @ + 1]

-----------------------------------------------------------------------------
Init ==
    /\ queue = << >>
    /\ pc = [c \in Calls |-> "idle"]
    /\ maxAmount = [c \in Calls |-> 0]
    /\ chosen = [c \in Calls |-> NoOption]
    /\ attempt = [c \in Calls |-> 0]
    /\ spent = [a \in Assets |-> 0]
    /\ expected = NoOption
    /\ payload = [c \in Calls |-> [n \in 1..MAX_ATTEMPTS |-> "unsigned"]]
    /\ debits = [c \in Calls |-> 0]
    /\ outcome = [c \in Calls |-> "none"]

\* The mutex runs fn when the previous link settled, whatever its outcome.
Enqueue(c) == /\ queue' = Append(queue, c)
              /\ pc' = [pc EXCEPT ![c] = "queued"]

\* Mutant: a failed call leaves a rejected tail behind and nobody runs after it.
FinishBreaksChain(c, how) ==
    /\ pc' = [pc EXCEPT ![c] = "done"]
    /\ outcome' = [outcome EXCEPT ![c] = how]
    /\ queue' = IF how \in {"paid", "unpaid"} THEN Tail(queue) ELSE queue

\* The call's promise settles and the next link of the chain may start.
Finish(c, how) == /\ pc' = [pc EXCEPT ![c] = "done"]
                  /\ outcome' = [outcome EXCEPT ![c] = how]
                  /\ queue' = Tail(queue)

Suspend(c, where) == /\ pc' = [pc EXCEPT ![c] = where]
                     /\ UNCHANGED <<queue, outcome>>

\* pay(url, maxAmount): exclusive(() => payExclusively(...)).
Pay(c) ==
    /\ pc[c] = "idle"
    /\ \E m \in MaxAmounts : maxAmount' = [maxAmount EXCEPT ![c] = m]
    /\ Enqueue(c)
    /\ UNCHANGED <<chosen, attempt, spent, expected, payload, debits, outcome>>

(***************************************************************************)
(* payAndCall: refuse a malformed max_amount or an exhausted session, else *)
(* search the Bazaar OUTSIDE the mutex.                                    *)
(***************************************************************************)
PayAndCall(c) ==
    /\ pc[c] = "idle"
    /\ \E m \in MaxAmounts :
        /\ maxAmount' = [maxAmount EXCEPT ![c] = m]
        /\ IF ParsesAsAmount(m) /\ \E a \in Assets : RemainingFor(a) > 0
           THEN /\ pc' = [pc EXCEPT ![c] = "searching"]
                /\ UNCHANGED outcome
           ELSE /\ pc' = [pc EXCEPT ![c] = "done"]
                /\ outcome' = [outcome EXCEPT ![c] = "noResult"]
    /\ UNCHANGED <<queue, chosen, attempt, spent, expected, payload, debits>>

\* The search failed or found nothing affordable, or its cheapest hit is paid
\* for through pay(); the catalog's price is a claim, so it is not kept.
SearchAnswer(c) ==
    /\ pc[c] = "searching"
    /\ \/ Enqueue(c) /\ UNCHANGED outcome
       \/ /\ pc' = [pc EXCEPT ![c] = "done"]
          /\ outcome' = [outcome EXCEPT ![c] = "noResult"]
          /\ UNCHANGED queue
    /\ UNCHANGED <<maxAmount, chosen, attempt, spent, expected, payload, debits>>

\* Mutant: no mutex, every call runs at once.
BeginUnserialised(c) ==
    /\ pc[c] = "queued"
    /\ IF ParsesAsAmount(maxAmount[c])
       THEN Suspend(c, "fetching")
       ELSE Finish(c, "invalidAmount")
    /\ UNCHANGED <<maxAmount, chosen, attempt, spent, expected, payload, debits>>

\* The previous link of the chain has settled: payExclusively starts.
Begin(c) ==
    /\ pc[c] = "queued"
    /\ queue # << >> /\ Head(queue) = c
    /\ IF ParsesAsAmount(maxAmount[c])
       THEN Suspend(c, "fetching")
       ELSE Finish(c, "invalidAmount")
    /\ UNCHANGED <<maxAmount, chosen, attempt, spent, expected, payload, debits>>

\* Mutant: the session ceiling is not checked before signing.
StartAttemptUnchecked(c, n, option) ==
    /\ Suspend(c, "signing")
    /\ attempt' = [attempt EXCEPT ![c] = n]
    /\ expected' = option

(***************************************************************************)
(* The top of the loop: re-check the ceiling, then signPayment, which sets *)
(* the tripwire and suspends.  `option` is the cleared option.             *)
(***************************************************************************)
StartAttempt(c, n, option) ==
    IF FitsCeiling(option.asset, option.amount)
    THEN /\ Suspend(c, "signing")
         /\ attempt' = [attempt EXCEPT ![c] = n]
         /\ expected' = option
    ELSE Finish(c, "overCeiling") /\ UNCHANGED <<attempt, expected>>

\* The unpaid request answered 402 with these `accepts`.
Challenged(c, accepts) ==
    IF Refusal(accepts, Assets, maxAmount[c]) # "none"
    THEN Finish(c, "refused") /\ UNCHANGED <<chosen, attempt, expected>>
    ELSE LET option == SelectRequirements(accepts, Assets)
         IN  /\ chosen' = [chosen EXCEPT ![c] = option]
             /\ StartAttempt(c, 1, option)

\* The unpaid request comes back.
FirstResponse(c) ==
    /\ pc[c] = "fetching"
    /\ \/ \E how \in {"fetchFailed", "unpaid", "badChallenge"} :
            Finish(c, how) /\ UNCHANGED <<chosen, attempt, expected>>
       \/ \E accepts \in Challenges : Challenged(c, accepts)
    /\ UNCHANGED <<maxAmount, spent, payload, debits>>

\* signPayment resolves (and the paid request is sent) or rejects; either way
\* its finally block clears the tripwire.
SignDone(c) ==
    /\ pc[c] = "signing"
    /\ expected' = NoOption
    /\ \/ /\ expected = chosen[c]   \* onBeforePaymentCreation, by identity
          /\ Suspend(c, "paying")
          /\ payload' = [payload EXCEPT ![c][attempt[c]] = "sent"]
       \/ Finish(c, "signFailed") /\ UNCHANGED payload
    /\ UNCHANGED <<maxAmount, chosen, attempt, spent, debits>>

\* `continue`: the next iteration, or the SettlementFailedError after the loop.
RetryOrGiveUp(c) ==
    /\ IF attempt[c] < MAX_ATTEMPTS
       THEN StartAttempt(c, attempt[c] + 1, chosen[c])
       ELSE Finish(c, "settlementFailed") /\ UNCHANGED <<attempt, expected>>
    /\ UNCHANGED <<spent, debits>>

\* A paid response with status 402 or >= 400.
PaymentFailed(c, settle) ==
    IF IsRetryableSettleFailure(settle)
    THEN RetryOrGiveUp(c)
    ELSE Finish(c, "rejected") /\ UNCHANGED <<attempt, expected, spent, debits>>

\* Mutant: the ledger is debited only on a confirmed settlement.
AnsweredIndeterminateFree(c, settle) ==
    LET kind == ClassifySettlement(settle)
    IN  \/ kind = "not-spent" /\ RetryOrGiveUp(c)
        \/ /\ kind = "indeterminate"
           /\ Finish(c, "indeterminate")
           /\ UNCHANGED <<attempt, expected, spent, debits>>
        \/ /\ kind = "settled"
           /\ Record(c)
           /\ Suspend(c, "reading")
           /\ UNCHANGED <<attempt, expected>>

\* A paid response with any other status.
PaymentAnswered(c, settle) ==
    LET kind == ClassifySettlement(settle)
    IN  \/ kind = "not-spent" /\ RetryOrGiveUp(c)
        \/ /\ kind = "indeterminate"
           /\ Record(c)
           /\ Finish(c, "indeterminate")
           /\ UNCHANGED <<attempt, expected>>
        \/ /\ kind = "settled"
           /\ Record(c)
           /\ Suspend(c, "reading")
           /\ UNCHANGED <<attempt, expected>>

(***************************************************************************)
(* What a settle header may say of a payload with this fate: "not spent"   *)
(* is said only of a dead payload and an unqualified hash only of a settled *)
(* one.  A missing, garbled or contradictory header says nothing.           *)
(***************************************************************************)
Truthful(settle, fate) ==
    /\ settle.success = "false" /\ settle.tx = "empty" => fate = "dead"
    /\ settle.success # "false" /\ settle.tx = "hash" => fate = "settled"

\* The paid request comes back, or fails on the wire.
PaidResponse(c) ==
    /\ pc[c] = "paying"
    /\ \/ \E settle \in SettleResult :
            /\ Truthful(settle, payload[c][attempt[c]])
            /\ PaymentFailed(c, settle) \/ PaymentAnswered(c, settle)
       \/ Finish(c, "dropped") /\ UNCHANGED <<attempt, expected, spent, debits>>
    /\ UNCHANGED <<maxAmount, chosen, payload>>

\* readContent after a confirmed settlement: the body arrives or the read fails.
ReadBody(c) ==
    /\ pc[c] = "reading"
    /\ Finish(c, "paid") \/ Finish(c, "bodyLost")
    /\ UNCHANGED <<maxAmount, chosen, attempt, spent, expected, payload, debits>>

\* External: the facilitator gets the payload onto the chain, or it never will.
Facilitator(c, n) ==
    /\ payload[c][n] = "sent"
    /\ \E fate \in {"settled", "dead"} : payload' = [payload EXCEPT ![c][n] = fate]
    /\ UNCHANGED <<queue, pc, maxAmount, chosen, attempt, spent, expected,
                   debits, outcome>>

\* Nothing left to do: every call ended and every payload met its fate.
Idle == /\ \A c \in Calls : pc[c] = "done"
        /\ \A c \in Calls, n \in 1..MAX_ATTEMPTS : payload[c][n] # "sent"
        /\ UNCHANGED vars

Step(c) == \/ SearchAnswer(c) \/ Begin(c) \/ FirstResponse(c) \/ SignDone(c)
           \/ PaidResponse(c) \/ ReadBody(c)

Next == \/ \E c \in Calls : Pay(c) \/ PayAndCall(c) \/ Step(c)
        \/ \E c \in Calls, n \in 1..MAX_ATTEMPTS : Facilitator(c, n)
        \/ Idle

Spec == Init /\ [][Next]_vars

(***************************************************************************)
(* Every pending promise settles: a fetch answers or rejects and a signing *)
(* round trip ends.  The code sets no timeout of its own, so this is an    *)
(* assumption on fetch and on the RPC client.                              *)
(***************************************************************************)
Fairness == /\ \A c \in Calls : WF_vars(Step(c))
            /\ \A c \in Calls, n \in 1..MAX_ATTEMPTS : WF_vars(Facilitator(c, n))

FairSpec == Spec /\ Fairness

-----------------------------------------------------------------------------
(* Properties. *)

\* Every variable stays in its domain: the queue holds calls, the ledger holds
\* naturals, and a call past its first response has an option of a configured
\* asset with a parsed amount.
TypeOK ==
    /\ queue \in Seq(Calls)
    /\ pc \in [Calls -> Critical \cup {"idle", "searching", "queued", "done"}]
    /\ maxAmount \in [Calls -> Int]
    /\ attempt \in [Calls -> 0..MAX_ATTEMPTS]
    /\ spent \in [Assets -> Nat]
    /\ payload \in [Calls -> [1..MAX_ATTEMPTS -> Fates]]
    /\ debits \in [Calls -> Nat]
    /\ outcome \in [Calls -> Outcomes]
    /\ DOMAIN chosen = Calls
    /\ \A c \in Calls : pc[c] \in {"signing", "paying"} =>
            /\ chosen[c].asset \in Assets
            /\ chosen[c].amount \in Nat
            /\ attempt[c] >= 1

\* At most one call is between its first fetch and its result (createMutex).
MutualExclusion ==
    \A c \in Calls : pc[c] \in Critical => queue # << >> /\ Head(queue) = c

\* A call that passed assertWithinCeiling still fits when it records: nothing
\* was debited between its check and its debit.
ClearedStillFits ==
    \A c \in Calls : pc[c] \in {"signing", "paying"} =>
        FitsCeiling(chosen[c].asset, chosen[c].amount)

\* The loop's bookkeeping: attempts before the current one left dead payloads,
\* later ones signed nothing, and the current one is signed once "paying".
AttemptsAreFresh ==
    \A c \in Calls : \A n \in 1..MAX_ATTEMPTS :
        /\ n < attempt[c] => payload[c][n] = "dead"
        /\ n > attempt[c] => payload[c][n] = "unsigned"
        /\ n = attempt[c] /\ pc[c] = "signing" => payload[c][n] = "unsigned"
        /\ n = attempt[c] /\ pc[c] = "paying" => payload[c][n] # "unsigned"

\* The ledger never exceeds an asset's session ceiling, although the check and
\* the debit of one payment are several awaits apart and calls overlap.
CeilingRespected == \A a \in Assets : spent[a] <= Ceiling[a]

\* However often a call re-signs, at most one of its payloads settled or still
\* can: a retry happens only after the earlier payload is known dead.
OneLivePayload ==
    \A c \in Calls : \A m, n \in 1..MAX_ATTEMPTS :
        payload[c][m] \in {"sent", "settled"} /\ payload[c][n] \in {"sent", "settled"}
            => m = n

\* SettlementFailedError says that nothing was spent on any attempt.
SettlementFailedMeansNothingSpent ==
    \A c \in Calls : outcome[c] = "settlementFailed" =>
        /\ debits[c] = 0
        /\ \A n \in 1..MAX_ATTEMPTS : payload[c][n] = "dead"

\* A call that returns (or loses) its content was settled by exactly the payload
\* of its last attempt and debited exactly once.
PaidMeansSettledAndDebitedOnce ==
    \A c \in Calls : outcome[c] \in {"paid", "bodyLost"} =>
        /\ debits[c] = 1
        /\ payload[c][attempt[c]] = "settled"

\* Money that moved on the chain is in the ledger, except for calls still
\* waiting for their answer and calls that ended in an HTTP error status or a
\* dropped connection after the payload was sent.
UndebitedSpendIsAnError ==
    \A c \in Calls, n \in 1..MAX_ATTEMPTS :
        payload[c][n] = "settled" =>
            \/ debits[c] = 1
            \/ pc[c] = "paying"
            \/ outcome[c] \in {"rejected", "dropped"}

\* The signer's tripwire is armed only while a call signs, and then holds that
\* call's own cleared option: overlapping calls cannot swap options.
TripwireHoldsTheClearedOption ==
    /\ \A c \in Calls : pc[c] = "signing" => expected = chosen[c]
    /\ expected # NoOption => \E c \in Calls : pc[c] = "signing"

\* Overlapping calls do not touch each other's payment: one call at a time is
\* between its fetch and its debit, what it cleared still fits when it records,
\* and the signer compares with its own option.
CallsDoNotMix == MutualExclusion /\ ClearedStillFits /\ TripwireHoldsTheClearedOption

\* What a call tells its caller about the money is what happened to it.
OutcomesAreTrue == SettlementFailedMeansNothingSpent /\ PaidMeansSettledAndDebitedOnce

\* payer.ts: "a ledger that ignored it would under-count real spend and let the
\* ceiling be exceeded later": every settled payment of a finished call is in
\* the ledger.
SettledPaymentsAreDebited ==
    \A c \in Calls :
        pc[c] = "done" /\ (\E n \in 1..MAX_ATTEMPTS : payload[c][n] = "settled")
            => debits[c] = 1

\* Every call that was issued ends: no lost wake-up in the promise chain, no
\* unbounded retry.
EveryCallEnds == \A c \in Calls : pc[c] # "idle" ~> pc[c] = "done"

\* The queue, the retries and the late debit implement one atomic
\* check-and-debit per call.
Budget == INSTANCE SpendBudget WITH
    status <- [c \in Calls |-> IF debits[c] > 0 THEN "charged"
                                ELSE IF pc[c] = "done" THEN "free" ELSE "open"]

ImplementsBudget == Budget!Spec
=============================================================================
