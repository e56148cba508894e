------------------------------ MODULE TxSubmit ------------------------------
(***************************************************************************)
(* Submitting a transaction and waiting for its result: the rate-limited   *)
(* RPC submitter (src/src/tx-rpc.ts), the wrappers contributed around it   *)
(* (retrying, relayer fallback, dead letter), and the polling loops        *)
(* (src/src/tx-status.ts, its jittered and cached variants, and the one    *)
(* that counts attempts).                                                  *)
(*                                                                         *)
(* The RPC and the ledger are external.  A submission is answered, fails   *)
(* without effect, or reaches the ledger and loses its answer.  Tokens are *)
(* counted in parts: TSToken parts are one token, and each unit of time    *)
(* adds TSRefill parts.                                                    *)
(***************************************************************************)
EXTENDS Integers, Sequences, FiniteSets

CONSTANTS TSCapacity, TSToken, TSRefill,    \* the token bucket
          TSMaxAttempts, TSBaseDelay,       \* the retrying wrappers
          TSTimeout, TSInterval, TSMaxDelay, TSPolls, TSCacheTtl,  \* the polling loops
          TSNone,
          TSEnd                             \* bound: the clock stops here

ASSUME TSAssumption ==
    /\ TSCapacity \in Nat \ {0} /\ TSToken \in Nat \ {0} /\ TSRefill \in Nat \ {0}
    /\ TSMaxAttempts \in Nat \ {0} /\ TSPolls \in Nat \ {0}
    /\ TSTimeout \in Nat /\ TSInterval \in Nat /\ TSEnd \in Nat

VARIABLES
    tsClock,
    tsTokens, tsRefilled,  \* the bucket: its parts, and when they were counted
    tsAccepted,            \* history: when the bucket let submissions through
    tsRetryAt,             \* the retryAfter of the last refusal, as a time, or TSNone
    tsLedger,              \* the transaction: "absent", "pending", "success", "failed"
    tsPc, tsVia,           \* where the call is, and through which wrapper
    tsAttempt, tsWake,     \* the wrapper's or loop's attempt, and its timer
    tsDeadline,
    tsCache,               \* the cached reader's entry: [status, expires] or TSNone
    tsOutcome

tsBucket == <<tsTokens, tsRefilled, tsAccepted, tsRetryAt>>

tsVars == <<tsClock, tsBucket, tsLedger, tsPc, tsVia, tsAttempt, tsWake, tsDeadline, tsCache,
            tsOutcome>>

TSInit == /\ tsClock = 0 /\ tsTokens = TSCapacity * TSToken /\ tsRefilled = 0
          /\ tsAccepted = <<>> /\ tsRetryAt = TSNone /\ tsLedger = "absent"
          /\ tsPc = "idle" /\ tsVia = "direct" /\ tsAttempt = 0 /\ tsWake = 0
          /\ tsDeadline = 0 /\ tsCache = TSNone /\ tsOutcome = "none"

-----------------------------------------------------------------------------
(* TokenBucket. *)

\* Mutant: the refill is not capped.
TSRefillsUncapped(t) == tsTokens + (t - tsRefilled) * TSRefill

\* #refill: what the bucket holds at time t.
TSHolds(t) == LET n == tsTokens + (t - tsRefilled) * TSRefill
              IN  IF n > TSCapacity * TSToken THEN TSCapacity * TSToken ELSE n

\* Mutant: the wait is rounded down.
TSUntilNextFloor(n) == IF n >= TSToken THEN 0 ELSE (TSToken - n) \div TSRefill

\* msUntilNextToken.
TSUntilNext(n) == IF n >= TSToken THEN 0 ELSE (TSToken - n + TSRefill - 1) \div TSRefill

\* tryConsume.
TSConsume(granted) ==
    LET n == TSHolds(tsClock) IN
    /\ granted = (n >= TSToken)
    /\ tsRefilled' = tsClock
    /\ tsTokens' = IF granted THEN n - TSToken ELSE n
    /\ tsAccepted' = IF granted THEN Append(tsAccepted, tsClock) ELSE tsAccepted
    /\ tsRetryAt' = IF granted THEN TSNone ELSE tsClock + TSUntilNext(n)

-----------------------------------------------------------------------------
(* Submission. *)

TSWrappers == {"direct", "retrying", "fallback", "deadLetter"}

TSStart == /\ tsPc = "idle"
           /\ tsVia' \in TSWrappers /\ tsAttempt' = 1 /\ tsPc' = "send"
           /\ UNCHANGED <<tsClock, tsBucket, tsLedger, tsWake, tsDeadline, tsCache, tsOutcome>>

\* An attempt has thrown.  Without a wrapper that is the end.
TSGiveUp(what) == tsPc' = "done" /\ tsOutcome' = what /\ UNCHANGED <<tsAttempt, tsWake>>

\* Another attempt, after a delay.
TSTryAgain(delay) == /\ tsAttempt' = tsAttempt + 1 /\ tsPc' = "backoff"
                     /\ tsWake' = tsClock + delay /\ UNCHANGED tsOutcome

\* RetryingSubmitter: baseDelay * 2^(attempt - 1) between attempts.
TSRetrying == /\ tsVia = "retrying"
              /\ IF tsAttempt < TSMaxAttempts THEN TSTryAgain(TSBaseDelay * 2 ^ (tsAttempt - 1))
                 ELSE TSGiveUp("notSubmitted")

\* RelayerFallbackSubmitter: the fallback at once, and only once.
TSFallBack == /\ tsVia = "fallback"
              /\ IF tsAttempt < 2
                 THEN tsAttempt' = 2 /\ tsPc' = "send" /\ UNCHANGED <<tsWake, tsOutcome>>
                 ELSE TSGiveUp("notSubmitted")

\* retryPaymentWithDeadLetter: the same delays, and a dead letter instead of a throw.
TSDeadLetter == /\ tsVia = "deadLetter"
                /\ IF tsAttempt < TSMaxAttempts THEN TSTryAgain(TSBaseDelay * 2 ^ (tsAttempt - 1))
                   ELSE TSGiveUp("deadLetter")

TSAttemptFailed == \/ tsVia = "direct" /\ TSGiveUp("notSubmitted")
                   \/ TSRetrying \/ TSFallBack \/ TSDeadLetter

\* submitTransaction: the limiter, then the request.
TSSend ==
    /\ tsPc = "send"
    /\ \/ /\ TSConsume(TRUE) /\ tsPc' = "sending"
          /\ UNCHANGED <<tsAttempt, tsWake, tsOutcome>>
       \/ TSConsume(FALSE) /\ TSAttemptFailed
    /\ UNCHANGED <<tsClock, tsLedger, tsVia, tsDeadline, tsCache>>

\* sendTransaction: a hash, or an error with or without effect.
TSSendAnswer ==
    /\ tsPc = "sending"
    /\ \/ /\ tsLedger' = IF tsLedger = "absent" THEN "pending" ELSE tsLedger
          /\ \/ tsPc' = "submitted" /\ UNCHANGED <<tsAttempt, tsWake, tsOutcome>>
             \/ TSAttemptFailed
       \/ TSAttemptFailed /\ UNCHANGED tsLedger
    /\ UNCHANGED <<tsClock, tsBucket, tsVia, tsDeadline, tsCache>>

TSBackedOff == /\ tsPc = "backoff" /\ tsClock >= tsWake /\ tsPc' = "send"
               /\ UNCHANGED <<tsClock, tsBucket, tsLedger, tsVia, tsAttempt, tsWake, tsDeadline,
                              tsCache, tsOutcome>>

-----------------------------------------------------------------------------
(* Waiting. *)

TSLoops == {"plain", "jittered", "cached", "counted"}

\* The caller waits for the transaction, through one of the loops.
TSWait ==
    /\ tsPc = "submitted" /\ tsClock + TSTimeout < TSEnd
    /\ tsVia' \in TSLoops /\ tsDeadline' = tsClock + TSTimeout
    /\ tsAttempt' = 1 /\ tsPc' = "reading"
    /\ UNCHANGED <<tsClock, tsBucket, tsLedger, tsWake, tsCache, tsOutcome>>

TSReturn(what) == tsPc' = "done" /\ tsOutcome' = what /\ UNCHANGED <<tsAttempt, tsWake>>

\* computeJitteredDelay draws from 0..(3/2 interval), capped.
TSJitters == {d \in 0..((TSInterval * 3) \div 2) : d <= TSMaxDelay}

TSDelays == IF tsVia = "jittered" THEN TSJitters ELSE {TSInterval}

\* pollUntilFinal counts attempts; the other loops have a deadline.
TSCounted == tsVia = "counted"

\* Mutant: the deadline is not looked at before sleeping.
TSPollAgainForever == \E d \in TSDelays :
    tsPc' = "sleeping" /\ tsWake' = tsClock + d /\ tsAttempt' = 1 /\ UNCHANGED tsOutcome

\* Still pending: sleep, unless that would pass the deadline (or the last attempt).
TSPollAgain == \E d \in TSDelays :
    IF IF TSCounted THEN tsAttempt >= TSPolls ELSE tsClock + d > tsDeadline
    THEN TSReturn("timeout")
    ELSE /\ tsPc' = "sleeping" /\ tsWake' = tsClock + d /\ UNCHANGED tsOutcome
         /\ tsAttempt' = IF TSCounted THEN tsAttempt + 1 ELSE tsAttempt

\* Mutant: a failed read of the plain loop is reported as a failed transaction.
TSReadGivesUp ==
    /\ tsPc = "reading"
    /\ \/ tsLedger \in {"success", "failed"} /\ TSReturn(tsLedger)
       \/ tsLedger = "pending" /\ TSPollAgain
       \/ TSReturn("failed")
    /\ UNCHANGED <<tsClock, tsBucket, tsLedger, tsVia, tsDeadline, tsCache>>

TSCacheHit == tsVia = "cached" /\ tsCache # TSNone /\ tsCache.expires > tsClock

\* getStatus answers or throws.  Only the plain loop carries on after a throw.
TSRead ==
    /\ tsPc = "reading" /\ ~TSCacheHit
    /\ \/ /\ tsLedger \in {"success", "failed"} /\ TSReturn(tsLedger)
          /\ tsCache' = IF tsVia = "cached" /\ TSCacheTtl > 0
                        THEN [status |-> tsLedger, expires |-> tsClock + TSCacheTtl]
                        ELSE tsCache
       \/ tsLedger = "pending" /\ TSPollAgain /\ UNCHANGED tsCache
       \/ tsVia = "plain" /\ TSPollAgain /\ UNCHANGED tsCache
       \/ tsVia # "plain" /\ TSReturn("readFailed") /\ UNCHANGED tsCache
    /\ UNCHANGED <<tsClock, tsBucket, tsLedger, tsVia, tsDeadline>>

\* A final status cached by an earlier wait is returned without a read.
TSReadCached ==
    /\ tsPc = "reading" /\ TSCacheHit
    /\ TSReturn(tsCache.status)
    /\ UNCHANGED <<tsClock, tsBucket, tsLedger, tsVia, tsDeadline, tsCache>>

\* The sleep is over (where the clock stops, every timer has run out).
TSSlept == /\ tsPc = "sleeping" /\ (tsClock >= tsWake \/ tsClock = TSEnd) /\ tsPc' = "reading"
           /\ UNCHANGED <<tsClock, tsBucket, tsLedger, tsVia, tsAttempt, tsWake, tsDeadline,
                          tsCache, tsOutcome>>

\* The caller waits again for the same transaction, or submits another one.
TSAgain ==
    /\ tsPc = "done"
    /\ tsOutcome' = "none"
    /\ \/ tsLedger # "absent" /\ tsPc' = "submitted" /\ UNCHANGED <<tsLedger, tsCache>>
       \/ tsPc' = "idle" /\ tsLedger' = "absent" /\ tsCache' = TSNone
    /\ UNCHANGED <<tsClock, tsBucket, tsVia, tsAttempt, tsWake, tsDeadline>>

\* The transaction is included in a ledger, once.
TSInclude == /\ tsLedger = "pending" /\ tsLedger' \in {"success", "failed"}
             /\ UNCHANGED <<tsClock, tsBucket, tsPc, tsVia, tsAttempt, tsWake, tsDeadline,
                            tsCache, tsOutcome>>

TSTick == /\ tsClock < TSEnd /\ tsClock' = tsClock + 1
          /\ UNCHANGED <<tsBucket, tsLedger, tsPc, tsVia, tsAttempt, tsWake, tsDeadline,
                         tsCache, tsOutcome>>

TSNext == \/ TSStart \/ TSSend \/ TSSendAnswer \/ TSBackedOff \/ TSWait \/ TSRead
          \/ TSReadCached \/ TSSlept \/ TSAgain \/ TSInclude \/ TSTick

TSSpec == TSInit /\ [][TSNext]_tsVars

-----------------------------------------------------------------------------
TSTypeOK ==
    /\ tsClock \in 0..TSEnd /\ tsRefilled \in 0..tsClock
    /\ tsTokens \in 0..(TSCapacity * TSToken)
    /\ tsLedger \in {"absent", "pending", "success", "failed"}
    /\ tsPc \in {"idle", "send", "sending", "backoff", "submitted", "reading", "sleeping", "done"}
    /\ tsVia \in TSWrappers \cup TSLoops
    /\ tsOutcome \in {"none", "notSubmitted", "deadLetter", "success", "failed", "timeout",
                      "readFailed"}

(***************************************************************************)
(* The bucket bounds submissions over every interval, not only since the   *)
(* start: between two accepted submissions t apart there are at most the   *)
(* capacity plus what t refills.  And a refusal's retryAfter is enough:    *)
(* if nothing was taken meanwhile, a token is there by then.               *)
(***************************************************************************)
TSRateIsBounded ==
    /\ \A i, j \in DOMAIN tsAccepted : i <= j =>
          (j - i + 1) * TSToken <=
              TSCapacity * TSToken + (tsAccepted[j] - tsAccepted[i]) * TSRefill
    /\ tsRetryAt # TSNone /\ tsClock >= tsRetryAt => TSHolds(tsClock) >= TSToken

(***************************************************************************)
(* A wait reports what the ledger holds: never a final status it does not  *)
(* have, and a timeout only when another interval would pass the deadline  *)
(* (or the last attempt is used).  A read that throws is never taken for   *)
(* the transaction's failure.                                              *)
(***************************************************************************)
TSReportsTheLedger ==
    /\ tsOutcome \in {"success", "failed"} => tsLedger = tsOutcome
    /\ tsOutcome = "timeout" /\ tsVia # "counted" =>
          tsClock + (TSInterval * 3) \div 2 > tsDeadline
    /\ tsPc = "sleeping" /\ tsVia # "counted" => tsWake <= tsDeadline

(***************************************************************************)
(* A wait ends: whatever the reader answers or throws, the deadline comes. *)
(***************************************************************************)
TSWaitsEnd == tsPc \in {"reading", "sleeping"} ~> tsPc = "done"
=============================================================================
