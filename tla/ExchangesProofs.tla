--------------------------- MODULE ExchangesProofs ---------------------------
(***************************************************************************)
(* Proofs about the components whose hazard is what the other side         *)
(* answers: the rate-limited submitter and the polling loops (TxSubmit),   *)
(* the "upto" settlement (Upto), the payer's tools (PayerTools), the       *)
(* command line (CommandLine), the MCP server (McpServer), the circuit     *)
(* breaker (CircuitBreaker), the fetch wrappers (FetchGuards), the         *)
(* session helpers (SessionExtras), the paged reads (Paging), the release  *)
(* gates (ReleaseGates) and the offline tools (OfflineTools); and, last,   *)
(* the type correctness of all of them as TLC runs them (MCExchanges).     *)
(***************************************************************************)
EXTENDS MCExchanges, Sums, SequenceTheorems, FiniteSetTheorems, TLAPS

-----------------------------------------------------------------------------
(* The token bucket. *)

TSFull == TSCapacity * TSToken

\* The part of the type invariant that the bucket's arithmetic needs.
TSBucketTyped ==
    /\ tsClock \in Nat /\ tsRefilled \in Nat /\ tsRefilled <= tsClock
    /\ tsTokens \in Nat /\ tsTokens <= TSFull
    /\ tsAccepted \in Seq(Nat)

\* What has been let through since the i-th acceptance, with what is left, is at
\* most a full bucket and what was refilled since.
TSRunningBound == \A i \in 1..Len(tsAccepted) :
    /\ tsAccepted[i] <= tsRefilled
    /\ (Len(tsAccepted) - i + 1) * TSToken + tsTokens <= TSFull + (tsRefilled - tsAccepted[i]) * TSRefill

\* The bound itself, between any two acceptances.
TSPairsBound == \A i, j \in 1..Len(tsAccepted) : i <= j =>
    (j - i + 1) * TSToken <= TSFull + (tsAccepted[j] - tsAccepted[i]) * TSRefill

\* A refusal names a time at which a token has been refilled.
TSRetrySuffices == tsRetryAt # TSNone =>
    /\ tsRetryAt \in Int
    /\ TSToken <= tsTokens + (tsRetryAt - tsRefilled) * TSRefill

TSBucketInd == TSBucketTyped /\ TSRunningBound /\ TSPairsBound /\ TSRetrySuffices

\* A bucket holds at least one token when it is full.
LEMMA TSFullHoldsAToken == TSFull \in Nat /\ TSToken <= TSFull
<1>1. TSCapacity \in Nat /\ TSCapacity >= 1 /\ TSToken \in Nat /\ TSToken >= 1
  BY TSAssumption
<1>2. \A c, t \in Nat : c >= 1 => t <= c * t /\ c * t \in Nat
  OBVIOUS
<1> QED BY <1>1, <1>2 DEF TSFull

\* The wait msUntilNextToken names refills what is missing.
LEMMA TSWaitRefills ==
    ASSUME NEW n \in Nat
    PROVE  TSUntilNext(n) \in Nat /\ TSToken <= n + TSUntilNext(n) * TSRefill
<1>1. TSToken \in Nat /\ TSRefill \in Nat /\ TSRefill >= 1
  BY TSAssumption
<1>2. CASE n >= TSToken
  <2>1. TSUntilNext(n) = 0
    BY <1>2 DEF TSUntilNext
  <2> QED BY <1>1, <1>2, <2>1
<1>3. CASE ~(n >= TSToken)
  <2> DEFINE x == TSToken - n + TSRefill - 1
             q == x \div TSRefill
  <2>1. x \in Nat /\ x >= TSRefill
    BY <1>1, <1>3
  <2>2. TSUntilNext(n) = q
    BY <1>3 DEF TSUntilNext
  <2> HIDE DEF x
  <2>3. q \in Nat /\ x < q * TSRefill + TSRefill
    BY <1>1, <2>1, SMTT(30)
  <2> HIDE DEF q
  <2>4. q * TSRefill \in Int
    BY <1>1, <2>3
  <2> QED BY <1>1, <2>2, <2>3, <2>4 DEF x
<1> QED BY <1>2, <1>3

\* Products distribute over a later refill.
LEMMA TSRefillsAddUp ==
    ASSUME NEW a \in Int, NEW b \in Int, NEW c \in Int, NEW r \in Int
    PROVE  /\ (b - a) * r = (b - c) * r + (c - a) * r
           /\ (a + 1) * r = a * r + r
           /\ a * r \in Int /\ (b - a) * r \in Int /\ (c - a) * r \in Int
OBVIOUS

\* A refill moves the running bound.
LEMMA TSBoundMoves ==
    ASSUME NEW taken \in Int, NEW left \in Int, NEW full \in Int, NEW since \in Int,
           NEW refill \in Int, NEW n \in Int,
           taken + left <= full + since, n <= left + refill
    PROVE  taken + n <= full + (refill + since)
OBVIOUS

\* What the bucket holds now, for a bound that a full bucket respects.
LEMMA TSHoldsIsBounded ==
    ASSUME TSBucketTyped
    PROVE  /\ TSHolds(tsClock) \in Nat /\ TSHolds(tsClock) <= TSFull
           /\ TSHolds(tsClock) <= tsTokens + (tsClock - tsRefilled) * TSRefill
           /\ (tsClock - tsRefilled) * TSRefill \in Nat
<1>1. TSFull \in Nat /\ TSRefill \in Nat /\ tsTokens \in Nat
  BY TSFullHoldsAToken, TSAssumption DEF TSBucketTyped
<1>2. tsClock - tsRefilled \in Nat
  BY DEF TSBucketTyped
<1>3. \A a, b \in Nat : a * b \in Nat
  OBVIOUS
<1>4. (tsClock - tsRefilled) * TSRefill \in Nat
  BY <1>1, <1>2, <1>3
<1> QED BY <1>1, <1>4 DEF TSHolds, TSFull

\* Only tryConsume touches the bucket; everything else may let the clock go on.
LEMMA TSIdleKeepsTheBucket ==
    ASSUME TSBucketInd, UNCHANGED tsBucket, tsClock' \in Nat, tsClock' >= tsClock
    PROVE  TSBucketInd'
BY DEF TSBucketInd, TSBucketTyped, TSRunningBound, TSPairsBound, TSRetrySuffices, tsBucket

\* tryConsume refuses: the bucket is refilled and the wait is enough.
LEMMA TSRefusalKeepsTheBucket ==
    ASSUME TSBucketInd, TSConsume(FALSE), UNCHANGED tsClock
    PROVE  TSBucketInd'
<1> DEFINE n == TSHolds(tsClock)
<1>1. /\ tsRefilled' = tsClock /\ tsTokens' = n /\ tsAccepted' = tsAccepted
      /\ tsRetryAt' = tsClock + TSUntilNext(n) /\ tsClock' = tsClock
  BY DEF TSConsume
<1>2. n \in Nat /\ n <= TSFull /\ n <= tsTokens + (tsClock - tsRefilled) * TSRefill
  BY TSHoldsIsBounded DEF TSBucketInd
<1> HIDE DEF n
<1>3. TSRefill \in Nat /\ TSToken \in Nat /\ TSFull \in Nat
  BY TSAssumption, TSFullHoldsAToken
<1>4. TSBucketTyped'
  BY <1>1, <1>2 DEF TSBucketInd, TSBucketTyped
<1>5. TSPairsBound'
  BY <1>1 DEF TSBucketInd, TSPairsBound
<1>6. TSRunningBound'
  <2> SUFFICES ASSUME NEW i \in 1..Len(tsAccepted)
               PROVE  /\ tsAccepted[i] <= tsClock
                      /\ (Len(tsAccepted) - i + 1) * TSToken + n <= TSFull + (tsClock - tsAccepted[i]) * TSRefill
    BY <1>1 DEF TSRunningBound
  <2>1. /\ tsAccepted[i] \in Nat /\ tsAccepted[i] <= tsRefilled /\ tsRefilled \in Nat /\ tsClock \in Nat
        /\ tsRefilled <= tsClock /\ Len(tsAccepted) - i + 1 \in Int /\ tsTokens \in Nat
        /\ (Len(tsAccepted) - i + 1) * TSToken + tsTokens <= TSFull + (tsRefilled - tsAccepted[i]) * TSRefill
    BY DEF TSBucketInd, TSBucketTyped, TSRunningBound
  <2>2. (tsClock - tsAccepted[i]) * TSRefill
          = (tsClock - tsRefilled) * TSRefill + (tsRefilled - tsAccepted[i]) * TSRefill
    BY <1>3, <2>1, TSRefillsAddUp
  <2>3. /\ (Len(tsAccepted) - i + 1) * TSToken \in Int
        /\ (tsClock - tsRefilled) * TSRefill \in Int
        /\ (tsRefilled - tsAccepted[i]) * TSRefill \in Int
    BY <1>3, <2>1, TSRefillsAddUp
  <2> DEFINE taken == (Len(tsAccepted) - i + 1) * TSToken
             since == (tsRefilled - tsAccepted[i]) * TSRefill
             refill == (tsClock - tsRefilled) * TSRefill
  <2>4. taken + n <= TSFull + (refill + since)
    <3>1. /\ taken \in Int /\ since \in Int /\ refill \in Int /\ taken + tsTokens <= TSFull + since
          /\ n <= tsTokens + refill
      BY <1>2, <2>1, <2>3
    <3> HIDE DEF taken, since, refill
    <3> QED BY <1>2, <1>3, <2>1, <3>1, TSBoundMoves
  <2> QED BY <2>1, <2>2, <2>4
<1>7. TSRetrySuffices'
  <2>1. TSUntilNext(n) \in Nat /\ TSToken <= n + TSUntilNext(n) * TSRefill /\ tsClock \in Nat
    BY <1>2, TSWaitRefills DEF TSBucketInd, TSBucketTyped
  <2>2. (tsClock + TSUntilNext(n)) - tsClock = TSUntilNext(n)
    BY <2>1
  <2>3. tsRetryAt' \in Int /\ (tsRetryAt' - tsRefilled') = TSUntilNext(n)
    BY <1>1, <2>1, <2>2
  <2> QED BY <1>1, <2>1, <2>3 DEF TSRetrySuffices
<1> QED BY <1>4, <1>5, <1>6, <1>7 DEF TSBucketInd

\* tryConsume grants: one more acceptance, one token less.
LEMMA TSGrantKeepsTheBucket ==
    ASSUME TSBucketInd, TSConsume(TRUE), UNCHANGED tsClock
    PROVE  TSBucketInd'
<1> DEFINE n == TSHolds(tsClock)
           len == Len(tsAccepted)
<1>1. /\ tsRefilled' = tsClock /\ tsTokens' = n - TSToken /\ tsAccepted' = Append(tsAccepted, tsClock)
      /\ tsRetryAt' = TSNone /\ tsClock' = tsClock /\ n >= TSToken
  BY DEF TSConsume
<1>2. n \in Nat /\ n <= TSFull /\ n <= tsTokens + (tsClock - tsRefilled) * TSRefill
  BY TSHoldsIsBounded DEF TSBucketInd
<1> HIDE DEF n
<1>3. TSRefill \in Nat /\ TSToken \in Nat /\ TSFull \in Nat /\ TSToken <= TSFull
  BY TSAssumption, TSFullHoldsAToken
<1>4. /\ tsClock \in Nat /\ tsAccepted \in Seq(Nat) /\ len \in Nat
      /\ tsRefilled \in Nat /\ tsRefilled <= tsClock /\ tsTokens \in Nat
  BY DEF TSBucketInd, TSBucketTyped
<1>5. /\ tsAccepted' \in Seq(Nat) /\ Len(tsAccepted') = len + 1 /\ tsAccepted'[len + 1] = tsClock
      /\ \A i \in 1..len : tsAccepted'[i] = tsAccepted[i] /\ tsAccepted[i] \in Nat
  BY <1>1, <1>4
<1> HIDE DEF len
<1>6. TSBucketTyped'
  BY <1>1, <1>2, <1>3, <1>4, <1>5 DEF TSBucketTyped
<1>7. ASSUME NEW i \in 1..(len + 1)
      PROVE  /\ tsAccepted'[i] <= tsClock
             /\ (len + 1 - i + 1) * TSToken + (n - TSToken) <= TSFull + (tsClock - tsAccepted'[i]) * TSRefill
  <2>1. CASE i = len + 1
    <3>1. (len + 1 - i + 1) * TSToken = TSToken /\ (tsClock - tsAccepted'[i]) * TSRefill = 0
      BY <1>3, <1>4, <1>5, <2>1
    <3>2. tsAccepted'[i] <= tsClock /\ TSToken + (n - TSToken) <= TSFull + 0
      BY <1>2, <1>3, <1>4, <1>5, <2>1
    <3> QED BY <3>1, <3>2
  <2>2. CASE i \in 1..len
    <3> DEFINE k == len - i + 1
    <3>1. /\ tsAccepted[i] \in Nat /\ tsAccepted[i] <= tsRefilled /\ k \in Nat
          /\ k * TSToken + tsTokens <= TSFull + (tsRefilled - tsAccepted[i]) * TSRefill
      <4>1. tsAccepted[i] <= tsRefilled /\ k * TSToken + tsTokens <= TSFull + (tsRefilled - tsAccepted[i]) * TSRefill
        BY ONLY TSBucketInd, <2>2 DEF TSBucketInd, TSRunningBound, len
      <4>2. tsAccepted[i] \in Nat /\ k \in Nat
        BY ONLY <1>4, <1>5, <2>2
      <4> QED BY ONLY <4>1, <4>2
    <3>2. len + 1 - i + 1 = k + 1
      BY <1>4, <2>2
    <3> HIDE DEF k
    <3>3. (tsClock - tsAccepted[i]) * TSRefill
            = (tsClock - tsRefilled) * TSRefill + (tsRefilled - tsAccepted[i]) * TSRefill
      BY <1>3, <1>4, <3>1, TSRefillsAddUp
    <3>4. (k + 1) * TSToken = k * TSToken + TSToken
      BY <1>3, <3>1, TSRefillsAddUp
    <3>5. /\ k * TSToken \in Int /\ (tsClock - tsRefilled) * TSRefill \in Int
          /\ (tsRefilled - tsAccepted[i]) * TSRefill \in Int
      BY <1>3, <1>4, <3>1, TSRefillsAddUp
    <3>6. k * TSToken + TSToken + (n - TSToken) <= TSFull + (tsClock - tsAccepted[i]) * TSRefill
      <4> DEFINE taken == k * TSToken
                 since == (tsRefilled - tsAccepted[i]) * TSRefill
                 refill == (tsClock - tsRefilled) * TSRefill
                 w == (tsClock - tsAccepted[i]) * TSRefill
      <4>1. /\ taken \in Int /\ since \in Int /\ refill \in Int /\ taken + tsTokens <= TSFull + since
            /\ n <= tsTokens + refill /\ w = refill + since
        BY <1>2, <3>1, <3>3, <3>5
      <4> HIDE DEF taken, since, refill, w
      <4>2. taken + n <= TSFull + (refill + since)
        BY <1>2, <1>3, <1>4, <4>1, TSBoundMoves
      <4>3. taken + TSToken + (n - TSToken) <= TSFull + w
        BY <1>2, <1>3, <4>1, <4>2
      <4> QED BY <4>3 DEF taken, w
    <3>7. tsAccepted'[i] = tsAccepted[i] /\ tsAccepted[i] <= tsClock
      BY <1>4, <1>5, <2>2, <3>1
    <3>8. (len + 1 - i + 1) * TSToken + (n - TSToken) <= TSFull + (tsClock - tsAccepted[i]) * TSRefill
      BY ONLY <3>2, <3>4, <3>6, Zenon
    <3> QED BY ONLY <3>7, <3>8, Zenon
  <2> QED BY <1>4, <2>1, <2>2
<1>8. TSRunningBound'
  <2> SUFFICES ASSUME NEW i \in 1..Len(tsAccepted')
               PROVE  /\ tsAccepted'[i] <= tsRefilled'
                      /\ (Len(tsAccepted') - i + 1) * TSToken + tsTokens'
                            <= TSFull + (tsRefilled' - tsAccepted'[i]) * TSRefill
    BY DEF TSRunningBound
  <2>1. i \in 1..(len + 1) /\ Len(tsAccepted') - i + 1 = len + 1 - i + 1
    BY <1>4, <1>5
  <2>2. /\ tsAccepted'[i] <= tsClock
        /\ (len + 1 - i + 1) * TSToken + (n - TSToken) <= TSFull + (tsClock - tsAccepted'[i]) * TSRefill
    BY <1>7, <2>1
  <2> QED BY <1>1, <2>1, <2>2, Zenon
<1>9. TSPairsBound'
  <2> SUFFICES ASSUME NEW i \in 1..(len + 1), NEW j \in 1..(len + 1), i <= j
               PROVE  (j - i + 1) * TSToken <= TSFull + (tsAccepted'[j] - tsAccepted'[i]) * TSRefill
    BY <1>5 DEF TSPairsBound
  <2>1. CASE j = len + 1
    <3>1. /\ (j - i + 1) * TSToken + (n - TSToken) <= TSFull + (tsClock - tsAccepted'[i]) * TSRefill
          /\ tsAccepted'[j] = tsClock
      <4>1. (len + 1 - i + 1) * TSToken + (n - TSToken) <= TSFull + (tsClock - tsAccepted'[i]) * TSRefill
        BY <1>7
      <4>2. tsAccepted'[j] = tsClock /\ j - i + 1 = len + 1 - i + 1
        BY <1>4, <1>5, <2>1
      <4> QED BY <4>1, <4>2, Zenon
    <3>2. tsAccepted'[i] \in Nat /\ j - i + 1 \in Int
      BY <1>4, <1>5
    <3>3. (j - i + 1) * TSToken \in Int /\ (tsClock - tsAccepted'[i]) * TSRefill \in Int
      BY <1>3, <1>4, <3>2, TSRefillsAddUp
    <3> DEFINE taken == (j - i + 1) * TSToken
               w == (tsClock - tsAccepted'[i]) * TSRefill
    <3>4. taken \in Int /\ w \in Int /\ taken + (n - TSToken) <= TSFull + w
      BY <3>1, <3>3
    <3>5. taken <= TSFull + w
      <4> HIDE DEF taken, w
      <4> QED BY <1>1, <1>2, <1>3, <3>4
    <3> QED BY <3>1, <3>5
  <2>2. CASE j \in 1..len
    <3>1. i \in 1..len
      BY <1>4, <2>2
    <3> QED BY <1>5, <2>2, <3>1 DEF TSBucketInd, TSPairsBound, len
  <2> QED BY <1>4, <2>1, <2>2
<1>10. TSRetrySuffices'
  BY <1>1 DEF TSRetrySuffices
<1> QED BY <1>6, <1>8, <1>9, <1>10 DEF TSBucketInd

LEMMA TSBucketInitInd == TSInit => TSBucketInd
<1> SUFFICES ASSUME TSInit PROVE TSBucketInd
  OBVIOUS
<1>1. TSFull \in Nat /\ tsTokens = TSFull /\ tsAccepted = <<>> /\ Len(tsAccepted) = 0
  BY TSFullHoldsAToken DEF TSInit, TSFull
<1> QED BY <1>1
        DEF TSInit, TSBucketInd, TSBucketTyped, TSRunningBound, TSPairsBound, TSRetrySuffices

LEMMA TSBucketNextInd == TSBucketInd /\ [TSNext]_tsVars => TSBucketInd'
<1> SUFFICES ASSUME TSBucketInd, [TSNext]_tsVars PROVE TSBucketInd'
  OBVIOUS
<1>0. tsClock \in Nat
  BY DEF TSBucketInd, TSBucketTyped
<1>1. CASE TSSend
  BY <1>1, TSGrantKeepsTheBucket, TSRefusalKeepsTheBucket DEF TSSend
<1>2. CASE TSTick
  BY <1>0, <1>2, TSIdleKeepsTheBucket DEF TSTick
<1>3. CASE UNCHANGED tsBucket /\ UNCHANGED tsClock
  BY <1>0, <1>3, TSIdleKeepsTheBucket
<1>4. CASE UNCHANGED tsVars
  BY <1>3, <1>4 DEF tsVars
<1> QED BY <1>1, <1>2, <1>3, <1>4
        DEF TSNext, TSStart, TSSendAnswer, TSBackedOff, TSWait, TSRead, TSReadCached, TSSlept,
            TSAgain, TSInclude

\* The bucket bounds the submissions over every interval, and a refusal's retryAfter
\* is enough (TokenBucket in tx-rpc.ts), for every capacity, rate and sequence of
\* calls.
THEOREM RateIsBounded == TSSpec => []TSRateIsBounded
<1>1. TSBucketInd => TSRateIsBounded
  <2> SUFFICES ASSUME TSBucketInd PROVE TSRateIsBounded
    OBVIOUS
  <2>1. /\ DOMAIN tsAccepted = 1..Len(tsAccepted) /\ tsClock \in Nat /\ tsRefilled \in Nat
        /\ tsTokens \in Nat /\ TSRefill \in Nat /\ TSToken \in Nat
    BY TSAssumption DEF TSBucketInd, TSBucketTyped
  <2>2. \A i, j \in DOMAIN tsAccepted : i <= j =>
          (j - i + 1) * TSToken <= TSCapacity * TSToken + (tsAccepted[j] - tsAccepted[i]) * TSRefill
    BY <2>1 DEF TSBucketInd, TSPairsBound, TSFull
  <2>3. ASSUME tsRetryAt # TSNone, tsClock >= tsRetryAt
        PROVE  TSHolds(tsClock) >= TSToken
    <3>1. tsRetryAt \in Int /\ TSToken <= tsTokens + (tsRetryAt - tsRefilled) * TSRefill
      BY <2>3 DEF TSBucketInd, TSRetrySuffices
    <3>2. (tsClock - tsRefilled) * TSRefill
            = (tsClock - tsRetryAt) * TSRefill + (tsRetryAt - tsRefilled) * TSRefill
      BY <2>1, <3>1, TSRefillsAddUp
    <3>3. tsClock - tsRetryAt \in Nat /\ \A a, b \in Nat : a * b \in Nat
      BY <2>1, <2>3, <3>1
    <3>4. (tsClock - tsRetryAt) * TSRefill \in Nat
      BY <2>1, <3>3
    <3>5. (tsRetryAt - tsRefilled) * TSRefill \in Int
      BY <2>1, <3>1, TSRefillsAddUp
    <3>6. TSToken <= tsTokens + (tsClock - tsRefilled) * TSRefill
      BY <2>1, <3>1, <3>2, <3>4, <3>5
    <3> QED BY <2>1, <3>6, TSFullHoldsAToken DEF TSHolds, TSFull
  <2> QED BY <2>2, <2>3 DEF TSRateIsBounded
<1> QED BY <1>1, TSBucketInitInd, TSBucketNextInd, PTL DEF TSSpec

-----------------------------------------------------------------------------
(* Waiting for a transaction. *)

\* The times the loops compare.
TSTimesTyped == tsClock \in Nat /\ tsDeadline \in Nat

\* A call that has not ended has no outcome yet.
TSOpenHasNoOutcome == tsPc # "done" => tsOutcome = "none"

\* A cached status is the ledger's, and final.
TSCacheIsTrue == tsCache # TSNone => tsCache.status \in {"success", "failed"} /\ tsCache.status = tsLedger

TSWaitInd == TSTimesTyped /\ TSOpenHasNoOutcome /\ TSCacheIsTrue /\ TSReportsTheLedger

\* Every delay a loop draws is within the longest one.
LEMMA TSDelaysAreBounded ==
    \A d \in TSDelays : d \in Nat /\ d <= (TSInterval * 3) \div 2
<1>1. TSInterval \in Nat
  BY TSAssumption
<1>2. TSInterval <= (TSInterval * 3) \div 2 /\ (TSInterval * 3) \div 2 \in Nat
  BY <1>1
<1> QED BY <1>1, <1>2 DEF TSDelays, TSJitters

\* An attempt that failed ends the call without a final status, or it goes on.
LEMMA TSFailedAttemptEnds ==
    ASSUME TSAttemptFailed, tsOutcome = "none"
    PROVE  \/ tsPc' \in {"backoff", "send"} /\ tsOutcome' = "none"
           \/ tsPc' = "done" /\ tsOutcome' \in {"notSubmitted", "deadLetter"}
BY DEF TSAttemptFailed, TSGiveUp, TSTryAgain, TSRetrying, TSFallBack, TSDeadLetter

\* A submission's step leaves the ledger's reports alone.
LEMMA TSSubmissionsKeepReports ==
    ASSUME TSWaitInd, TSStart \/ TSSend \/ TSSendAnswer \/ TSBackedOff
    PROVE  TSWaitInd'
<1>1. tsPc # "done" /\ tsOutcome = "none" /\ UNCHANGED <<tsClock, tsDeadline, tsCache>>
  BY DEF TSWaitInd, TSOpenHasNoOutcome, TSStart, TSSend, TSSendAnswer, TSBackedOff
<1>2. /\ \/ tsPc' \in {"send", "sending", "submitted", "backoff"} /\ tsOutcome' = "none"
         \/ tsPc' = "done" /\ tsOutcome' \in {"notSubmitted", "deadLetter"}
  BY <1>1, TSFailedAttemptEnds DEF TSStart, TSSend, TSSendAnswer, TSBackedOff
<1>3. tsLedger' = tsLedger \/ (tsLedger = "absent" /\ tsLedger' = "pending")
  BY DEF TSStart, TSSend, TSSendAnswer, TSBackedOff
<1>4. tsPc' # "sleeping" /\ tsOutcome' \notin {"success", "failed", "timeout"}
  BY <1>2
<1> QED BY <1>1, <1>2, <1>3, <1>4
        DEF TSWaitInd, TSTimesTyped, TSOpenHasNoOutcome, TSCacheIsTrue, TSReportsTheLedger

\* A loop that polls again sleeps within the deadline, or reports a timeout when the
\* longest delay would pass it.
LEMMA TSPollAgainIsTimely ==
    ASSUME TSTimesTyped, tsOutcome = "none", TSPollAgain
    PROVE  \/ /\ tsPc' = "sleeping" /\ tsOutcome' = "none"
              /\ tsVia # "counted" => tsWake' <= tsDeadline
           \/ /\ tsPc' = "done" /\ tsOutcome' = "timeout"
              /\ tsVia # "counted" => tsClock + (TSInterval * 3) \div 2 > tsDeadline
<1>1. PICK d \in TSDelays :
        IF IF TSCounted THEN tsAttempt >= TSPolls ELSE tsClock + d > tsDeadline
        THEN TSReturn("timeout")
        ELSE tsPc' = "sleeping" /\ tsWake' = tsClock + d /\ UNCHANGED tsOutcome
  BY DEF TSPollAgain
<1> DEFINE longest == (TSInterval * 3) \div 2
<1>2. d \in Nat /\ longest \in Int /\ d <= longest
  BY TSDelaysAreBounded, TSAssumption
<1> HIDE DEF longest
<1>3. CASE TSReturn("timeout") /\ (IF TSCounted THEN tsAttempt >= TSPolls ELSE tsClock + d > tsDeadline)
  <2>1. tsVia # "counted" => tsClock + longest > tsDeadline
    BY <1>2, <1>3 DEF TSCounted, TSTimesTyped
  <2> QED BY <1>3, <2>1 DEF TSReturn, longest
<1>4. CASE /\ tsPc' = "sleeping" /\ tsWake' = tsClock + d /\ UNCHANGED tsOutcome
           /\ ~(IF TSCounted THEN tsAttempt >= TSPolls ELSE tsClock + d > tsDeadline)
  <2>1. tsVia # "counted" => tsWake' <= tsDeadline
    BY <1>2, <1>4 DEF TSCounted, TSTimesTyped
  <2> QED BY <1>4, <2>1
<1> QED BY <1>1, <1>3, <1>4

\* A read reports what the ledger holds.
LEMMA TSReadsReport ==
    ASSUME TSWaitInd, TSRead
    PROVE  TSWaitInd'
<1>1. tsOutcome = "none" /\ tsPc = "reading" /\ UNCHANGED <<tsClock, tsLedger, tsVia, tsDeadline>>
  BY DEF TSWaitInd, TSOpenHasNoOutcome, TSRead
<1>2. TSTimesTyped'
  BY <1>1 DEF TSWaitInd, TSTimesTyped
<1>3. CASE /\ tsLedger \in {"success", "failed"} /\ TSReturn(tsLedger)
           /\ \/ tsCache' = tsCache
              \/ tsCache' = [status |-> tsLedger, expires |-> tsClock + TSCacheTtl]
  <2>1. tsPc' = "done" /\ tsOutcome' = tsLedger /\ tsLedger' = tsLedger
    BY <1>1, <1>3 DEF TSReturn
  <2>2. TSCacheIsTrue'
    BY <1>1, <1>3 DEF TSWaitInd, TSCacheIsTrue
  <2> QED BY <1>2, <1>3, <2>1, <2>2 DEF TSWaitInd, TSOpenHasNoOutcome, TSReportsTheLedger
<1>4. CASE TSPollAgain /\ UNCHANGED tsCache
  <2>1. TSCacheIsTrue'
    BY <1>1, <1>4 DEF TSWaitInd, TSCacheIsTrue
  <2> QED BY <1>1, <1>2, <1>4, <2>1, TSPollAgainIsTimely
          DEF TSWaitInd, TSOpenHasNoOutcome, TSReportsTheLedger
<1>5. CASE TSReturn("readFailed") /\ UNCHANGED tsCache
  <2>1. TSCacheIsTrue'
    BY <1>1, <1>5 DEF TSWaitInd, TSCacheIsTrue
  <2> QED BY <1>1, <1>2, <1>5, <2>1 DEF TSWaitInd, TSOpenHasNoOutcome, TSReportsTheLedger, TSReturn
<1> QED BY <1>3, <1>4, <1>5 DEF TSRead

\* A wait reports the ledger: never a final status it does not have, whatever the
\* reader throws, and a timeout only when another delay would pass the deadline
\* (tx-status.ts and its variants), for every interval, deadline and cache lifetime.
THEOREM WaitsReportTheLedger == TSSpec => []TSReportsTheLedger
<1>1. TSInit => TSWaitInd
  BY DEF TSInit, TSWaitInd, TSTimesTyped, TSOpenHasNoOutcome, TSCacheIsTrue, TSReportsTheLedger
<1>2. TSWaitInd /\ [TSNext]_tsVars => TSWaitInd'
  <2> SUFFICES ASSUME TSWaitInd, [TSNext]_tsVars PROVE TSWaitInd'
    OBVIOUS
  <2>1. CASE TSStart \/ TSSend \/ TSSendAnswer \/ TSBackedOff
    BY <2>1, TSSubmissionsKeepReports
  <2>2. CASE TSRead
    BY <2>2, TSReadsReport
  <2>3. CASE TSWait
    <3>1. tsClock + TSTimeout \in Nat
      BY TSAssumption DEF TSWaitInd, TSTimesTyped
    <3> QED BY <2>3, <3>1
            DEF TSWait, TSWaitInd, TSTimesTyped, TSOpenHasNoOutcome, TSCacheIsTrue, TSReportsTheLedger
  <2>4. CASE TSReadCached
    BY <2>4 DEF TSReadCached, TSCacheHit, TSReturn, TSWaitInd, TSTimesTyped, TSOpenHasNoOutcome,
                TSCacheIsTrue, TSReportsTheLedger
  <2>5. CASE TSSlept
    BY <2>5 DEF TSSlept, TSWaitInd, TSTimesTyped, TSOpenHasNoOutcome, TSCacheIsTrue, TSReportsTheLedger
  <2>6. CASE TSAgain
    BY <2>6 DEF TSAgain, TSWaitInd, TSTimesTyped, TSOpenHasNoOutcome, TSCacheIsTrue, TSReportsTheLedger
  <2>7. CASE TSInclude
    BY <2>7 DEF TSInclude, TSWaitInd, TSTimesTyped, TSOpenHasNoOutcome, TSCacheIsTrue, TSReportsTheLedger
  <2>8. CASE TSTick
    <3> DEFINE longest == (TSInterval * 3) \div 2
    <3>1. longest \in Int
      BY TSAssumption
    <3>2. tsClock + longest > tsDeadline => tsClock + 1 + longest > tsDeadline
      BY <3>1 DEF TSWaitInd, TSTimesTyped
    <3> HIDE DEF longest
    <3>3. tsOutcome = "timeout" /\ tsVia # "counted" => tsClock' + longest > tsDeadline
      BY <2>8, <3>2 DEF TSTick, TSWaitInd, TSReportsTheLedger, longest
    <3>4. (tsOutcome = "timeout" /\ tsVia # "counted" => tsClock + longest > tsDeadline)'
      BY <2>8, <3>3 DEF TSTick, longest
    <3> QED BY <2>8, <3>4
            DEF TSTick, TSWaitInd, TSTimesTyped, TSOpenHasNoOutcome, TSCacheIsTrue, TSReportsTheLedger, longest
  <2>9. CASE UNCHANGED tsVars
    BY <2>9 DEF tsVars, TSWaitInd, TSTimesTyped, TSOpenHasNoOutcome, TSCacheIsTrue, TSReportsTheLedger
  <2> QED BY <2>1, <2>2, <2>3, <2>4, <2>5, <2>6, <2>7, <2>8, <2>9 DEF TSNext
<1>3. TSWaitInd => TSReportsTheLedger
  BY DEF TSWaitInd
<1> QED BY <1>1, <1>2, <1>3, PTL DEF TSSpec

-----------------------------------------------------------------------------
(* The calls that share the payer's signer. *)

PTPcs == {"idle", "search", "probe", "probing", "sign", "hook", "built", "mismatch", "submit", "done"}

\* The part of the type invariant the proof needs.
PTTyped == /\ ptPc \in [PTCalls -> PTPcs] /\ ptOp \in [PTCalls -> PTOps \cup {PTNone}]
           /\ ptSigned \in [PTCalls -> PTCalls \cup {PTNone, "foreign"}] /\ ptSpans \in [PTCalls -> Nat]
           /\ ptPrice \in [PTCalls -> Nat] /\ ptLeft \in Int
           /\ ptMetrics \in [ok : Nat, amount : Int, failed : Nat, refused : Nat]

\* A span is open exactly while a wrapped request or signature is under way, and only a
\* call that pays or signs reaches the signer.
PTCallIsSound(c) ==
    /\ ptSpans[c] = IF ptPc[c] \in {"probing", "hook", "built", "mismatch"} THEN 1 ELSE 0
    /\ ptPc[c] = "idle" => ptSigned[c] = PTNone
    /\ ptOp[c] \in {"quote", "dry"} =>
          ptSigned[c] = PTNone /\ ptPc[c] \notin {"sign", "hook", "built", "mismatch", "submit"}

PTInd == PTTyped /\ \A c \in PTCalls : PTCallIsSound(c)

\* A step of one call leaves the others sound.
LEMMA PTOthersStaySound ==
    ASSUME PTInd, NEW c \in PTCalls, PTCallIsSound(c)',
           \A d \in PTCalls \ {c} : /\ ptPc'[d] = ptPc[d] /\ ptOp'[d] = ptOp[d]
                                    /\ ptSigned'[d] = ptSigned[d] /\ ptSpans'[d] = ptSpans[d]
    PROVE  \A d \in PTCalls : PTCallIsSound(d)'
BY DEF PTInd, PTCallIsSound

\* Where a call may go.
LEMMA PTMoves ==
    ASSUME PTTyped, NEW c \in PTCalls, NEW where \in PTPcs,
           ptPc' = [ptPc EXCEPT ![c] = where]
    PROVE  /\ ptPc' \in [PTCalls -> PTPcs] /\ ptPc'[c] = where
           /\ \A d \in PTCalls \ {c} : ptPc'[d] = ptPc[d]
BY DEF PTTyped

\* Spans open and close one at a time.
LEMMA PTSpansMove ==
    ASSUME PTTyped, NEW c \in PTCalls, NEW n \in Nat, ptSpans' = [ptSpans EXCEPT ![c] = n]
    PROVE  /\ ptSpans' \in [PTCalls -> Nat] /\ ptSpans'[c] = n
           /\ \A d \in PTCalls \ {c} : ptSpans'[d] = ptSpans[d]
BY DEF PTTyped

\* A call begins, or searches the catalogue.
LEMMA PTBeginningsPreserve ==
    ASSUME PTInd, NEW c \in PTCalls, PTStart(c) \/ PTSearch(c)
    PROVE  PTInd'
<1>0. PTTyped /\ PTCallIsSound(c)
  BY DEF PTInd
<1>1. CASE PTStart(c)
  <2>1. PICK op \in PTOps :
          /\ ptPc[c] = "idle" /\ ptOp' = [ptOp EXCEPT ![c] = op]
          /\ ptPc' = [ptPc EXCEPT ![c] = IF op = "sign" THEN "sign" ELSE IF op = "dry" THEN "search" ELSE "probe"]
    BY <1>1 DEF PTStart, PTGoto
  <2>2. UNCHANGED <<ptPrice, ptSigned, ptSpans, ptLeft, ptMetrics>>
    BY <1>1 DEF PTStart
  <2>3. PICK where \in PTPcs : /\ ptPc' = [ptPc EXCEPT ![c] = where]
                               /\ where = IF op = "sign" THEN "sign" ELSE IF op = "dry" THEN "search" ELSE "probe"
    BY <2>1 DEF PTPcs
  <2>4. /\ ptPc' \in [PTCalls -> PTPcs] /\ ptPc'[c] = where /\ \A d \in PTCalls \ {c} : ptPc'[d] = ptPc[d]
    BY <1>0, <2>3, PTMoves
  <2>5. /\ ptOp' \in [PTCalls -> PTOps \cup {PTNone}] /\ ptOp'[c] = op
        /\ \A d \in PTCalls \ {c} : ptOp'[d] = ptOp[d]
    BY <1>0, <2>1 DEF PTTyped
  <2>6. PTCallIsSound(c)'
    BY <1>0, <2>1, <2>2, <2>3, <2>4, <2>5 DEF PTCallIsSound
  <2>7. PTTyped'
    BY <1>0, <2>2, <2>4, <2>5 DEF PTTyped
  <2>8. \A d \in PTCalls : PTCallIsSound(d)'
    BY <2>2, <2>4, <2>5, <2>6, PTOthersStaySound
  <2> QED BY <2>2, <2>7, <2>8 DEF PTInd
<1>2. CASE PTSearch(c)
  <2>1. PICK where \in {"probe", "done"} : ptPc[c] = "search" /\ ptPc' = [ptPc EXCEPT ![c] = where]
    BY <1>2 DEF PTSearch, PTGoto, PTEnd
  <2>2. UNCHANGED <<ptOp, ptPrice, ptSigned, ptSpans, ptLeft, ptMetrics>>
    BY <1>2 DEF PTSearch
  <2>3. /\ ptPc' \in [PTCalls -> PTPcs] /\ ptPc'[c] = where /\ \A d \in PTCalls \ {c} : ptPc'[d] = ptPc[d]
    BY <1>0, <2>1, PTMoves DEF PTPcs
  <2>4. PTCallIsSound(c)'
    BY <1>0, <2>1, <2>2, <2>3 DEF PTCallIsSound
  <2>5. PTTyped'
    BY <1>0, <2>2, <2>3 DEF PTTyped
  <2>6. \A d \in PTCalls : PTCallIsSound(d)'
    BY <2>2, <2>3, <2>4, PTOthersStaySound
  <2> QED BY <2>2, <2>5, <2>6 DEF PTInd
<1> QED BY <1>1, <1>2

\* The probe, in its span.
LEMMA PTProbesPreserve ==
    ASSUME PTInd, NEW c \in PTCalls, PTProbeSent(c) \/ PTProbe(c)
    PROVE  PTInd'
<1>0. PTTyped /\ PTCallIsSound(c)
  BY DEF PTInd
<1>1. CASE PTProbeSent(c)
  <2>1. /\ ptPc[c] = "probe" /\ ptPc' = [ptPc EXCEPT ![c] = "probing"]
        /\ ptSpans' = [ptSpans EXCEPT ![c] = ptSpans[c] + 1]
        /\ UNCHANGED <<ptOp, ptPrice, ptSigned, ptLeft, ptMetrics>>
    BY <1>1 DEF PTProbeSent, PTSpanStarts
  <2>2. /\ ptPc' \in [PTCalls -> PTPcs] /\ ptPc'[c] = "probing" /\ \A d \in PTCalls \ {c} : ptPc'[d] = ptPc[d]
    BY <1>0, <2>1, PTMoves DEF PTPcs
  <2>3. /\ ptSpans' \in [PTCalls -> Nat] /\ ptSpans'[c] = 1 /\ \A d \in PTCalls \ {c} : ptSpans'[d] = ptSpans[d]
    <3>1. ptSpans[c] = 0
      BY <1>0, <2>1 DEF PTCallIsSound
    <3>2. ptSpans' = [ptSpans EXCEPT ![c] = 1]
      BY <2>1, <3>1
    <3> QED BY <1>0, <3>2, PTSpansMove
  <2>4. PTCallIsSound(c)'
    BY <1>0, <2>1, <2>2, <2>3 DEF PTCallIsSound
  <2>5. PTTyped'
    BY <1>0, <2>1, <2>2, <2>3 DEF PTTyped
  <2>6. \A d \in PTCalls : PTCallIsSound(d)'
    BY <2>1, <2>2, <2>3, <2>4, PTOthersStaySound
  <2> QED BY <2>1, <2>5, <2>6 DEF PTInd
<1>2. CASE PTProbe(c)
  <2>1. /\ ptPc[c] = "probing" /\ ptSpans' = [ptSpans EXCEPT ![c] = ptSpans[c] - 1]
        /\ UNCHANGED <<ptOp, ptSigned, ptLeft>>
    BY <1>2 DEF PTProbe, PTSpanEnds
  <2>2. PICK where \in {"done", "sign"} :
          /\ ptPc' = [ptPc EXCEPT ![c] = where] /\ (where = "sign" => ptOp[c] = "pay")
          /\ ptMetrics' = ptMetrics \/ ptMetrics' = [ptMetrics EXCEPT !.refused = @ + 1]
          /\ ptPrice' = ptPrice \/ \E p \in PTPrices : ptPrice' = [ptPrice EXCEPT ![c] = p]
    BY <1>2 DEF PTProbe, PTGoto, PTEnd
  <2>3. /\ ptPc' \in [PTCalls -> PTPcs] /\ ptPc'[c] = where /\ \A d \in PTCalls \ {c} : ptPc'[d] = ptPc[d]
    BY <1>0, <2>2, PTMoves DEF PTPcs
  <2>4. /\ ptSpans' \in [PTCalls -> Nat] /\ ptSpans'[c] = 0 /\ \A d \in PTCalls \ {c} : ptSpans'[d] = ptSpans[d]
    <3>1. ptSpans[c] = 1
      BY <1>0, <2>1 DEF PTCallIsSound
    <3>2. ptSpans' = [ptSpans EXCEPT ![c] = 0]
      BY <2>1, <3>1
    <3> QED BY <1>0, <3>2, PTSpansMove
  <2>5. ptPrice' \in [PTCalls -> Nat]
    BY <1>0, <2>2, PTAssumption DEF PTTyped
  <2>6. /\ ptMetrics' \in [ok : Nat, amount : Int, failed : Nat, refused : Nat]
        /\ ptMetrics'.amount = ptMetrics.amount
    BY <1>0, <2>2 DEF PTTyped
  <2>7. PTCallIsSound(c)'
    BY <1>0, <2>1, <2>2, <2>3, <2>4 DEF PTCallIsSound
  <2>8. PTTyped'
    BY <1>0, <2>1, <2>3, <2>4, <2>5, <2>6 DEF PTTyped
  <2>9. \A d \in PTCalls : PTCallIsSound(d)'
    BY <2>1, <2>3, <2>4, <2>7, PTOthersStaySound
  <2> QED BY <2>1, <2>6, <2>8, <2>9 DEF PTInd
<1> QED BY <1>1, <1>2

\* The signature: recorded, checked by the tripwire, forgotten.
LEMMA PTSignaturesPreserve ==
    ASSUME PTInd, NEW c \in PTCalls, PTSign(c) \/ PTHook(c) \/ PTSignEnds(c)
    PROVE  PTInd'
<1>0. PTTyped /\ PTCallIsSound(c)
  BY DEF PTInd
<1>1. CASE PTSign(c)
  <2>1. /\ ptPc[c] = "sign" /\ ptPc' = [ptPc EXCEPT ![c] = "hook"]
        /\ ptSpans' = [ptSpans EXCEPT ![c] = ptSpans[c] + 1]
        /\ UNCHANGED <<ptOp, ptPrice, ptSigned, ptLeft, ptMetrics>>
    BY <1>1 DEF PTSign, PTGoto, PTSpanStarts
  <2>2. /\ ptPc' \in [PTCalls -> PTPcs] /\ ptPc'[c] = "hook" /\ \A d \in PTCalls \ {c} : ptPc'[d] = ptPc[d]
    BY <1>0, <2>1, PTMoves DEF PTPcs
  <2>3. /\ ptSpans' \in [PTCalls -> Nat] /\ ptSpans'[c] = 1 /\ \A d \in PTCalls \ {c} : ptSpans'[d] = ptSpans[d]
    <3>1. ptSpans[c] = 0
      BY <1>0, <2>1 DEF PTCallIsSound
    <3>2. ptSpans' = [ptSpans EXCEPT ![c] = 1]
      BY <2>1, <3>1
    <3> QED BY <1>0, <3>2, PTSpansMove
  <2>4. PTCallIsSound(c)'
    BY <1>0, <2>1, <2>2, <2>3 DEF PTCallIsSound
  <2>5. PTTyped'
    BY <1>0, <2>1, <2>2, <2>3 DEF PTTyped
  <2>6. \A d \in PTCalls : PTCallIsSound(d)'
    BY <2>1, <2>2, <2>3, <2>4, PTOthersStaySound
  <2> QED BY <2>1, <2>5, <2>6 DEF PTInd
<1>2. CASE PTHook(c)
  <2>1. /\ ptPc[c] = "hook" /\ UNCHANGED <<ptOp, ptPrice, ptSpans, ptLeft, ptMetrics>>
        /\ ptSigned' = ptSigned \/ \E o \in PTCalls \cup {"foreign"} : ptSigned' = [ptSigned EXCEPT ![c] = o]
    BY <1>2 DEF PTHook
  <2>2. PICK where \in {"built", "mismatch"} : ptPc' = [ptPc EXCEPT ![c] = where]
    BY <1>2 DEF PTHook, PTGoto
  <2>3. /\ ptPc' \in [PTCalls -> PTPcs] /\ ptPc'[c] = where /\ \A d \in PTCalls \ {c} : ptPc'[d] = ptPc[d]
    BY <1>0, <2>2, PTMoves DEF PTPcs
  <2>4. /\ ptSigned' \in [PTCalls -> PTCalls \cup {PTNone, "foreign"}]
        /\ \A d \in PTCalls \ {c} : ptSigned'[d] = ptSigned[d]
    BY <1>0, <2>1 DEF PTTyped
  <2>5. PTCallIsSound(c)'
    BY <1>0, <2>1, <2>3, <2>4 DEF PTCallIsSound
  <2>6. PTTyped'
    BY <1>0, <2>1, <2>3, <2>4 DEF PTTyped
  <2>7. \A d \in PTCalls : PTCallIsSound(d)'
    BY <2>1, <2>3, <2>4, <2>5, PTOthersStaySound
  <2> QED BY <2>1, <2>6, <2>7 DEF PTInd
<1>3. CASE PTSignEnds(c)
  <2>1. /\ ptPc[c] \in {"built", "mismatch"} /\ ptSpans' = [ptSpans EXCEPT ![c] = ptSpans[c] - 1]
        /\ UNCHANGED <<ptOp, ptPrice, ptSigned, ptLeft, ptMetrics>>
    BY <1>3 DEF PTSignEnds, PTSpanEnds
  <2>2. PICK where \in {"submit", "done"} : ptPc' = [ptPc EXCEPT ![c] = where]
    BY <1>3 DEF PTSignEnds, PTGoto, PTEnd
  <2>3. /\ ptPc' \in [PTCalls -> PTPcs] /\ ptPc'[c] = where /\ \A d \in PTCalls \ {c} : ptPc'[d] = ptPc[d]
    BY <1>0, <2>2, PTMoves DEF PTPcs
  <2>4. /\ ptSpans' \in [PTCalls -> Nat] /\ ptSpans'[c] = 0 /\ \A d \in PTCalls \ {c} : ptSpans'[d] = ptSpans[d]
    <3>1. ptSpans[c] = 1
      BY <1>0, <2>1 DEF PTCallIsSound
    <3>2. ptSpans' = [ptSpans EXCEPT ![c] = 0]
      BY <2>1, <3>1
    <3> QED BY <1>0, <3>2, PTSpansMove
  <2>5. PTCallIsSound(c)'
    BY <1>0, <2>1, <2>3, <2>4 DEF PTCallIsSound
  <2>6. PTTyped'
    BY <1>0, <2>1, <2>3, <2>4 DEF PTTyped
  <2>7. \A d \in PTCalls : PTCallIsSound(d)'
    BY <2>1, <2>3, <2>4, <2>5, PTOthersStaySound
  <2> QED BY <2>1, <2>6, <2>7 DEF PTInd
<1> QED BY <1>1, <1>2, <1>3

\* The paid request.
LEMMA PTSubmitPreserves ==
    ASSUME PTInd, NEW c \in PTCalls, PTSubmit(c)
    PROVE  PTInd'
<1>0. PTTyped /\ PTCallIsSound(c)
  BY DEF PTInd
<1>1. /\ ptPc[c] = "submit" /\ ptPc' = [ptPc EXCEPT ![c] = "done"]
      /\ UNCHANGED <<ptOp, ptPrice, ptSigned, ptSpans>>
  BY DEF PTSubmit, PTEnd
<1>2. /\ ptPc' \in [PTCalls -> PTPcs] /\ ptPc'[c] = "done" /\ \A d \in PTCalls \ {c} : ptPc'[d] = ptPc[d]
  BY <1>0, <1>1, PTMoves DEF PTPcs
<1>3. ptLeft' \in Int /\ ptMetrics' \in [ok : Nat, amount : Int, failed : Nat, refused : Nat]
  <2>1. ptPrice[c] \in Nat /\ ptLeft \in Int /\ ptMetrics.amount \in Int /\ ptMetrics.ok \in Nat
    BY <1>0 DEF PTTyped
  <2>2. ptLeft' \in Int
    BY <2>1 DEF PTSubmit
  <2>3. CASE ptMetrics' = [ptMetrics EXCEPT !.ok = @ + 1, !.amount = @ + ptPrice[c]]
    <3>1. ptMetrics.amount + ptPrice[c] \in Int /\ ptMetrics.ok + 1 \in Nat
      BY <2>1
    <3> QED BY <1>0, <2>2, <2>3, <3>1 DEF PTTyped
  <2>4. CASE ptMetrics' = [ptMetrics EXCEPT !.failed = @ + 1]
    BY <1>0, <2>2, <2>4 DEF PTTyped
  <2> QED BY <2>3, <2>4 DEF PTSubmit
<1>4. PTCallIsSound(c)'
  BY <1>0, <1>1, <1>2 DEF PTCallIsSound
<1>5. PTTyped'
  BY <1>0, <1>1, <1>2, <1>3 DEF PTTyped
<1>6. \A d \in PTCalls : PTCallIsSound(d)'
  BY <1>1, <1>2, <1>4, PTOthersStaySound
<1> QED BY <1>5, <1>6 DEF PTInd

LEMMA PTInitInd == PTInit => PTInd
<1> SUFFICES ASSUME PTInit PROVE PTInd
  OBVIOUS
<1>1. PTTyped
  BY PTAssumption DEF PTInit, PTTyped, PTPcs
<1> QED BY <1>1, PTAssumption DEF PTInit, PTInd, PTCallIsSound

LEMMA PTNextInd == PTInd /\ [PTNext]_ptVars => PTInd'
<1> SUFFICES ASSUME PTInd, [PTNext]_ptVars PROVE PTInd'
  OBVIOUS
<1>1. CASE PTGuarded
  BY <1>1 DEF PTGuarded, PTInd, PTTyped, PTCallIsSound
<1>2. CASE UNCHANGED ptVars
  BY <1>2 DEF ptVars, PTInd, PTTyped, PTCallIsSound
<1> QED BY <1>1, <1>2, PTBeginningsPreserve, PTProbesPreserve, PTSignaturesPreserve, PTSubmitPreserves
        DEF PTNext

\* A call that pays holds the payer's mutex from its first request until it ends,
\* and what it cleared still fits the session's ceiling when it is debited: nobody
\* else can have drawn on it.
PTHoldsWhatFits(c) ==
    /\ ptPc[c] # "idle" => ptOp[c] \in PTOps
    /\ ptPc[c] = "submit" => ptOp[c] = "pay"
    /\ ptOp[c] = "pay" /\ ptPc[c] \in {"probing", "sign", "hook", "built", "mismatch", "submit"} => ptHolder = c
    /\ ptOp[c] = "pay" /\ ptPc[c] \in {"sign", "hook", "built", "submit"} => ptPrice[c] <= ptLeft

PTSerialised ==
    /\ ptExpected \in PTCalls \cup {PTNone} /\ ptHolder \in PTCalls \cup {PTNone}
    /\ ptLeft \in 0..PTBudget
    /\ \A c \in PTCalls : PTHoldsWhatFits(c)

\* A step of one call leaves the others' promises alone as long as it takes the
\* mutex only when it is free, and gives up only its own.
LEMMA PTOthersHoldOn ==
    ASSUME PTTyped, PTSerialised, NEW c \in PTCalls, PTHoldsWhatFits(c)',
           \A d \in PTCalls \ {c} : ptPc'[d] = ptPc[d] /\ ptOp'[d] = ptOp[d] /\ ptPrice'[d] = ptPrice[d],
           ptHolder' = ptHolder \/ ptHolder \in {c, PTNone},
           ptLeft' = ptLeft \/ ptHolder = c
    PROVE  \A d \in PTCalls : PTHoldsWhatFits(d)'
<1> SUFFICES ASSUME NEW d \in PTCalls, d # c PROVE PTHoldsWhatFits(d)'
  OBVIOUS
<1>1. PTHoldsWhatFits(d) /\ d # PTNone
  BY PTAssumption DEF PTSerialised
<1>2. ptPc'[d] = ptPc[d] /\ ptOp'[d] = ptOp[d] /\ ptPrice'[d] = ptPrice[d]
  OBVIOUS
<1>3. CASE ptHolder = d
  BY <1>1, <1>2, <1>3 DEF PTHoldsWhatFits
<1>4. CASE ptHolder # d
  BY <1>1, <1>2, <1>4 DEF PTHoldsWhatFits
<1> QED BY <1>3, <1>4

\* The end of a call gives up the mutex if the call has it.
LEMMA PTEnds ==
    ASSUME PTTyped, PTSerialised, NEW c \in PTCalls, NEW out, PTEnd(c, out)
    PROVE  /\ ptPc' = [ptPc EXCEPT ![c] = "done"] /\ ptHolder' \in PTCalls \cup {PTNone}
           /\ ptHolder' = ptHolder \/ ptHolder = c
BY DEF PTEnd, PTSerialised

LEMMA PTStepHolds ==
    ASSUME PTInd, PTSerialised, NEW c \in PTCalls,
           PTStart(c) \/ PTSearch(c) \/ PTProbeSent(c) \/ PTProbe(c) \/ PTSign(c) \/ PTHook(c) \/ PTSignEnds(c) \/ PTSubmit(c)
    PROVE  PTSerialised'
<1>0. PTTyped /\ PTCallIsSound(c) /\ PTHoldsWhatFits(c) /\ c # PTNone /\ PTBudget \in Nat
  BY PTAssumption DEF PTInd, PTSerialised
<1>1. CASE PTStart(c)
  <2>1. PICK op \in PTOps :
          /\ ptPc[c] = "idle" /\ ptOp' = [ptOp EXCEPT ![c] = op]
          /\ ptPc' = [ptPc EXCEPT ![c] = IF op = "sign" THEN "sign" ELSE IF op = "dry" THEN "search" ELSE "probe"]
    BY <1>1 DEF PTStart, PTGoto
  <2>2. UNCHANGED <<ptPrice, ptExpected, ptHolder, ptLeft>>
    BY <1>1 DEF PTStart, PTGoto
  <2>3. /\ ptOp'[c] = op /\ \A d \in PTCalls \ {c} : ptOp'[d] = ptOp[d] /\ ptPc'[d] = ptPc[d]
        /\ ptPc'[c] = IF op = "sign" THEN "sign" ELSE IF op = "dry" THEN "search" ELSE "probe"
    BY <1>0, <2>1 DEF PTTyped
  <2>4. PTHoldsWhatFits(c)'
    BY <2>3 DEF PTHoldsWhatFits
  <2>5. \A d \in PTCalls : PTHoldsWhatFits(d)'
    BY <1>0, <2>2, <2>3, <2>4, PTOthersHoldOn
  <2> QED BY <2>2, <2>5 DEF PTSerialised
<1>2. CASE PTSearch(c)
  <2>1. /\ ptPc[c] = "search" /\ UNCHANGED <<ptOp, ptPrice, ptExpected, ptLeft>>
        /\ (\E out : PTEnd(c, out)) \/ PTGoto(c, "probe")
    BY <1>2 DEF PTSearch
  <2>2. PICK where \in {"probe", "done"} :
          /\ ptPc' = [ptPc EXCEPT ![c] = where] /\ ptHolder' \in PTCalls \cup {PTNone}
          /\ ptHolder' = ptHolder \/ ptHolder = c
    BY <1>0, <2>1, PTEnds DEF PTGoto, PTSerialised
  <2>3. ptPc'[c] = where /\ \A d \in PTCalls \ {c} : ptPc'[d] = ptPc[d]
    BY <1>0, <2>2 DEF PTTyped
  <2>4. PTHoldsWhatFits(c)'
    BY <1>0, <2>1, <2>2, <2>3 DEF PTHoldsWhatFits
  <2>5. \A d \in PTCalls : PTHoldsWhatFits(d)'
    BY <1>0, <2>1, <2>2, <2>3, <2>4, PTOthersHoldOn
  <2> QED BY <2>1, <2>2, <2>5 DEF PTSerialised
<1>3. CASE PTProbeSent(c)
  <2>1. /\ ptPc[c] = "probe" /\ ptPc' = [ptPc EXCEPT ![c] = "probing"]
        /\ UNCHANGED <<ptOp, ptPrice, ptExpected, ptLeft>>
        /\ ptOp[c] = "pay" => ptHolder = PTNone
        /\ ptHolder' = IF ptOp[c] = "pay" THEN c ELSE ptHolder
    BY <1>3 DEF PTProbeSent
  <2>2. ptPc'[c] = "probing" /\ \A d \in PTCalls \ {c} : ptPc'[d] = ptPc[d]
    BY <1>0, <2>1 DEF PTTyped
  <2>3. PTHoldsWhatFits(c)'
    BY <1>0, <2>1, <2>2 DEF PTHoldsWhatFits
  <2>4. ptHolder' \in PTCalls \cup {PTNone} /\ (ptHolder' = ptHolder \/ ptHolder \in {c, PTNone})
    BY <2>1 DEF PTSerialised
  <2>5. \A d \in PTCalls : PTHoldsWhatFits(d)'
    BY <1>0, <2>1, <2>2, <2>3, <2>4, PTOthersHoldOn
  <2> QED BY <2>1, <2>4, <2>5 DEF PTSerialised
<1>4. CASE PTProbe(c)
  <2>1. /\ ptPc[c] = "probing" /\ UNCHANGED <<ptOp, ptExpected, ptLeft>>
    BY <1>4 DEF PTProbe
  <2>2. \/ /\ \E out : PTEnd(c, out)
           /\ ptPrice' = ptPrice \/ \E p \in PTPrices : ptPrice' = [ptPrice EXCEPT ![c] = p]
        \/ /\ PTGoto(c, "sign") /\ ptOp[c] = "pay"
           /\ \E p \in PTPrices : ptPrice' = [ptPrice EXCEPT ![c] = p] /\ ~(p > ptLeft)
    BY <1>4 DEF PTProbe
  <2>3. PICK where \in {"done", "sign"} :
          /\ ptPc' = [ptPc EXCEPT ![c] = where] /\ ptHolder' \in PTCalls \cup {PTNone}
          /\ ptHolder' = ptHolder \/ ptHolder = c
          /\ where = "sign" => ptHolder' = ptHolder
          /\ where = "sign" => \E p \in PTPrices : ptPrice' = [ptPrice EXCEPT ![c] = p] /\ ~(p > ptLeft)
    <3>1. CASE \E out : PTEnd(c, out)
      BY <1>0, <3>1, PTEnds
    <3>2. CASE /\ PTGoto(c, "sign")
               /\ \E p \in PTPrices : ptPrice' = [ptPrice EXCEPT ![c] = p] /\ ~(p > ptLeft)
      BY <3>2 DEF PTGoto, PTSerialised
    <3> QED BY <2>2, <3>1, <3>2
  <2>4. ptPc'[c] = where /\ \A d \in PTCalls \ {c} : ptPc'[d] = ptPc[d] /\ ptPrice'[d] = ptPrice[d]
    BY <1>0, <2>2, <2>3 DEF PTTyped
  <2>5. where = "sign" => ptPrice'[c] <= ptLeft
    <3> SUFFICES ASSUME where = "sign" PROVE ptPrice'[c] <= ptLeft
      OBVIOUS
    <3>1. PICK p \in PTPrices : ptPrice' = [ptPrice EXCEPT ![c] = p] /\ ~(p > ptLeft)
      BY <2>3
    <3>2. ptPrice'[c] = p /\ p \in Nat /\ ptLeft \in Int
      BY <1>0, <3>1, PTAssumption DEF PTTyped
    <3> QED BY <3>1, <3>2
  <2>6. PTHoldsWhatFits(c)'
    BY <1>0, <2>1, <2>3, <2>4, <2>5 DEF PTHoldsWhatFits
  <2>7. \A d \in PTCalls : PTHoldsWhatFits(d)'
    BY <1>0, <2>1, <2>3, <2>4, <2>6, PTOthersHoldOn
  <2> QED BY <2>1, <2>3, <2>7 DEF PTSerialised
<1>5. CASE PTSign(c)
  <2>1. /\ ptPc[c] = "sign" /\ ptPc' = [ptPc EXCEPT ![c] = "hook"] /\ ptExpected' = c
        /\ UNCHANGED <<ptOp, ptPrice, ptHolder, ptLeft>>
    BY <1>5 DEF PTSign, PTGoto
  <2>2. ptPc'[c] = "hook" /\ \A d \in PTCalls \ {c} : ptPc'[d] = ptPc[d]
    BY <1>0, <2>1 DEF PTTyped
  <2>3. PTHoldsWhatFits(c)'
    BY <1>0, <2>1, <2>2 DEF PTHoldsWhatFits
  <2>4. \A d \in PTCalls : PTHoldsWhatFits(d)'
    BY <1>0, <2>1, <2>2, <2>3, PTOthersHoldOn
  <2> QED BY <2>1, <2>4 DEF PTSerialised
<1>6. CASE PTHook(c)
  <2>1. /\ ptPc[c] = "hook" /\ UNCHANGED <<ptOp, ptPrice, ptExpected, ptLeft, ptHolder>>
    BY <1>6 DEF PTHook, PTGoto
  <2>2. PICK where \in {"built", "mismatch"} : ptPc' = [ptPc EXCEPT ![c] = where]
    BY <1>6 DEF PTHook, PTGoto
  <2>3. ptPc'[c] = where /\ \A d \in PTCalls \ {c} : ptPc'[d] = ptPc[d]
    BY <1>0, <2>2 DEF PTTyped
  <2>4. PTHoldsWhatFits(c)'
    BY <1>0, <2>1, <2>3 DEF PTHoldsWhatFits
  <2>5. \A d \in PTCalls : PTHoldsWhatFits(d)'
    BY <1>0, <2>1, <2>3, <2>4, PTOthersHoldOn
  <2> QED BY <2>1, <2>5 DEF PTSerialised
<1>7. CASE PTSignEnds(c)
  <2>1. /\ ptPc[c] \in {"built", "mismatch"} /\ ptExpected' = PTNone /\ UNCHANGED <<ptOp, ptPrice, ptLeft>>
        /\ (\E out : PTEnd(c, out)) \/ (PTGoto(c, "submit") /\ ptPc[c] = "built" /\ ptOp[c] # "sign")
    BY <1>7 DEF PTSignEnds
  <2>2. PICK where \in {"submit", "done"} :
          /\ ptPc' = [ptPc EXCEPT ![c] = where] /\ ptHolder' \in PTCalls \cup {PTNone}
          /\ ptHolder' = ptHolder \/ ptHolder = c
          /\ where = "submit" => ptPc[c] = "built" /\ ptOp[c] # "sign" /\ ptHolder' = ptHolder
    <3>1. CASE \E out : PTEnd(c, out)
      BY <1>0, <3>1, PTEnds
    <3>2. CASE PTGoto(c, "submit") /\ ptPc[c] = "built" /\ ptOp[c] # "sign"
      BY <3>2 DEF PTGoto, PTSerialised
    <3> QED BY <2>1, <3>1, <3>2
  <2>3. ptPc'[c] = where /\ \A d \in PTCalls \ {c} : ptPc'[d] = ptPc[d]
    BY <1>0, <2>2 DEF PTTyped
  <2>4. where = "submit" => ptOp[c] = "pay"
    BY <1>0, <2>2 DEF PTHoldsWhatFits, PTCallIsSound, PTOps
  <2>5. PTHoldsWhatFits(c)'
    BY <1>0, <2>1, <2>2, <2>3, <2>4 DEF PTHoldsWhatFits
  <2>6. \A d \in PTCalls : PTHoldsWhatFits(d)'
    BY <1>0, <2>1, <2>2, <2>3, <2>5, PTOthersHoldOn
  <2> QED BY <2>1, <2>2, <2>6 DEF PTSerialised
<1>8. CASE PTSubmit(c)
  <2>1. /\ ptPc[c] = "submit" /\ UNCHANGED <<ptOp, ptPrice, ptExpected>>
        /\ ptLeft' = ptLeft - ptPrice[c] \/ ptLeft' = ptLeft
        /\ \E out : PTEnd(c, out)
    BY <1>8 DEF PTSubmit
  <2>2. /\ ptPc' = [ptPc EXCEPT ![c] = "done"] /\ ptHolder' \in PTCalls \cup {PTNone}
        /\ ptHolder' = ptHolder \/ ptHolder = c
    BY <1>0, <2>1, PTEnds
  <2>3. ptPc'[c] = "done" /\ \A d \in PTCalls \ {c} : ptPc'[d] = ptPc[d]
    BY <1>0, <2>2 DEF PTTyped
  <2>4. ptHolder = c /\ ptPrice[c] <= ptLeft /\ ptOp[c] = "pay"
    BY <1>0, <2>1 DEF PTHoldsWhatFits
  <2>5. ptLeft' \in 0..PTBudget
    <3>1. ptPrice[c] \in Nat /\ ptLeft \in Nat /\ ptLeft <= PTBudget
      BY <1>0 DEF PTTyped, PTSerialised
    <3> QED BY <1>0, <2>1, <2>4, <3>1
  <2>6. PTHoldsWhatFits(c)'
    BY <1>0, <2>1, <2>3 DEF PTHoldsWhatFits
  <2>7. \A d \in PTCalls : PTHoldsWhatFits(d)'
    BY <1>0, <2>1, <2>2, <2>3, <2>4, <2>6, PTOthersHoldOn
  <2> QED BY <2>1, <2>2, <2>5, <2>7 DEF PTSerialised
<1> QED BY <1>1, <1>2, <1>3, <1>4, <1>5, <1>6, <1>7, <1>8

LEMMA PTSerialisedInit == PTInit => PTSerialised
BY PTAssumption DEF PTInit, PTSerialised, PTHoldsWhatFits

LEMMA PTSerialisedNext == PTInd /\ PTSerialised /\ [PTNext]_ptVars => PTSerialised'
<1> SUFFICES ASSUME PTInd, PTSerialised, [PTNext]_ptVars PROVE PTSerialised'
  OBVIOUS
<1>1. CASE PTGuarded
  BY <1>1 DEF PTGuarded, PTSerialised, PTHoldsWhatFits
<1>2. CASE UNCHANGED ptVars
  BY <1>2 DEF ptVars, PTSerialised, PTHoldsWhatFits
<1> QED BY <1>1, <1>2, PTStepHolds DEF PTNext

\* What the signer expects was cleared by a call that signs; and while only pay() uses the
\* signer, the call inside it is the one that is expected.
PTTurns ==
    /\ \A c \in PTCalls : ptPc[c] = "idle" => ptOp[c] = PTNone
    /\ ptExpected # PTNone => ptOp[ptExpected] \in {"pay", "sign"}
    /\ \A c \in PTCalls : ptSigned[c] # PTNone => ptSigned[c] \in PTCalls /\ ptOp[ptSigned[c]] \in {"pay", "sign"}
    /\ (\A d \in PTCalls : ptOp[d] # "sign") =>
          \A c \in PTCalls : ptSigned[c] \in {PTNone, c} /\ (ptPc[c] = "hook" => ptExpected = c)

LEMMA PTTurnsInit == PTInit => PTTurns
BY DEF PTInit, PTTurns

\* A step that leaves the signer and the operations alone.
LEMMA PTTurnsElsewhere ==
    ASSUME PTTurns, NEW c \in PTCalls, UNCHANGED <<ptOp, ptExpected, ptSigned>>, ptPc'[c] \notin {"idle", "hook"},
           \A d \in PTCalls \ {c} : ptPc'[d] = ptPc[d]
    PROVE  PTTurns'
<1>1. \A d \in PTCalls : (ptPc'[d] = "hook" => ptPc[d] = "hook") /\ (ptPc'[d] = "idle" => ptPc[d] = "idle")
  OBVIOUS
<1> QED BY <1>1 DEF PTTurns

\* Inside the signer, while only pay() uses it: whoever else holds the mutex is the same call.
LEMMA PTOneInside ==
    ASSUME PTInd, PTSerialised, \A d \in PTCalls : ptOp[d] # "sign",
           NEW c \in PTCalls, NEW d \in PTCalls,
           ptPc[c] \in {"sign", "hook", "built", "mismatch"}, ptPc[d] \in {"sign", "hook", "built", "mismatch"}
    PROVE  c = d
<1>1. \A e \in {c, d} : ptOp[e] = "pay"
  BY DEF PTInd, PTCallIsSound, PTSerialised, PTHoldsWhatFits, PTOps
<1> QED BY <1>1 DEF PTSerialised, PTHoldsWhatFits

LEMMA PTTurnsStep ==
    ASSUME PTInd, PTSerialised, PTTurns, NEW c \in PTCalls,
           PTStart(c) \/ PTSearch(c) \/ PTProbeSent(c) \/ PTProbe(c) \/ PTSign(c) \/ PTHook(c) \/ PTSignEnds(c) \/ PTSubmit(c)
    PROVE  PTTurns'
<1>0. PTTyped /\ PTCallIsSound(c) /\ PTHoldsWhatFits(c) /\ c # PTNone
  BY PTAssumption DEF PTInd, PTSerialised
<1>1. CASE PTStart(c)
  <2>1. PICK op \in PTOps : ptPc[c] = "idle" /\ ptOp' = [ptOp EXCEPT ![c] = op]
    BY <1>1 DEF PTStart
  <2>2. PICK where \in {"sign", "search", "probe"} : ptPc' = [ptPc EXCEPT ![c] = where]
    BY <1>1 DEF PTStart, PTGoto
  <2>3. UNCHANGED <<ptExpected, ptSigned>>
    BY <1>1 DEF PTStart
  <2>4. /\ ptPc'[c] = where /\ ptOp'[c] = op
        /\ \A d \in PTCalls \ {c} : ptPc'[d] = ptPc[d] /\ ptOp'[d] = ptOp[d]
    BY <1>0, <2>1, <2>2 DEF PTTyped
  <2>5. ptOp[c] = PTNone /\ ptOp[c] \notin {"pay", "sign"}
    BY <2>1, PTAssumption DEF PTTurns
  <2>6. ptExpected # c /\ \A d \in PTCalls : ptSigned[d] # c
    BY <1>0, <2>5 DEF PTTurns
  <2>7. \A d \in PTCalls : ptPc'[d] = "idle" => ptOp'[d] = PTNone
    BY <2>4 DEF PTTurns
  <2>8. ptExpected' # PTNone => ptOp'[ptExpected'] \in {"pay", "sign"}
    BY <2>3, <2>4, <2>6 DEF PTTurns, PTSerialised
  <2>9. \A d \in PTCalls : ptSigned'[d] # PTNone => ptSigned'[d] \in PTCalls /\ ptOp'[ptSigned'[d]] \in {"pay", "sign"}
    BY <2>3, <2>4, <2>6 DEF PTTurns
  <2>10. ASSUME \A d \in PTCalls : ptOp'[d] # "sign"
         PROVE  \A d \in PTCalls : ptSigned'[d] \in {PTNone, d} /\ (ptPc'[d] = "hook" => ptExpected' = d)
    <3>1. \A d \in PTCalls : ptOp[d] # "sign"
      BY <2>4, <2>5, <2>10
    <3> QED BY <2>3, <2>4, <3>1 DEF PTTurns
  <2> QED BY <2>7, <2>8, <2>9, <2>10 DEF PTTurns
<1>2. CASE PTSearch(c)
  <2>1. PICK where \in {"probe", "done"} : ptPc' = [ptPc EXCEPT ![c] = where]
    BY <1>2 DEF PTSearch, PTGoto, PTEnd
  <2>2. ptPc'[c] = where /\ \A d \in PTCalls \ {c} : ptPc'[d] = ptPc[d]
    BY <1>0, <2>1 DEF PTTyped
  <2> QED BY <1>2, <2>2, PTTurnsElsewhere DEF PTSearch
<1>3. CASE PTProbeSent(c)
  <2>1. ptPc'[c] = "probing" /\ \A d \in PTCalls \ {c} : ptPc'[d] = ptPc[d]
    BY <1>0, <1>3 DEF PTTyped, PTProbeSent
  <2> QED BY <1>3, <2>1, PTTurnsElsewhere DEF PTProbeSent
<1>4. CASE PTProbe(c)
  <2>1. PICK where \in {"done", "sign"} : ptPc' = [ptPc EXCEPT ![c] = where]
    BY <1>4 DEF PTProbe, PTGoto, PTEnd
  <2>2. ptPc'[c] = where /\ \A d \in PTCalls \ {c} : ptPc'[d] = ptPc[d]
    BY <1>0, <2>1 DEF PTTyped
  <2> QED BY <1>4, <2>2, PTTurnsElsewhere DEF PTProbe
<1>5. CASE PTSign(c)
  <2>1. /\ ptPc[c] = "sign" /\ ptPc' = [ptPc EXCEPT ![c] = "hook"] /\ ptExpected' = c /\ UNCHANGED <<ptOp, ptSigned>>
    BY <1>5 DEF PTSign, PTGoto
  <2>2. ptPc'[c] = "hook" /\ \A d \in PTCalls \ {c} : ptPc'[d] = ptPc[d]
    BY <1>0, <2>1 DEF PTTyped
  <2>3. ptOp[c] \in {"pay", "sign"}
    BY <1>0, <2>1 DEF PTHoldsWhatFits, PTCallIsSound, PTOps
  <2>4. ASSUME \A d \in PTCalls : ptOp[d] # "sign", NEW d \in PTCalls, ptPc'[d] = "hook"
        PROVE  ptExpected' = d
    <3>1. CASE d # c
      BY <2>1, <2>2, <2>4, <3>1, PTOneInside
    <3> QED BY <2>1, <3>1
  <2> QED BY <2>1, <2>2, <2>3, <2>4 DEF PTTurns
<1>6. CASE PTHook(c)
  <2>1. PICK selected \in PTCalls \cup {"foreign"} :
          \/ PTTripwire(selected) /\ ptSigned' = [ptSigned EXCEPT ![c] = selected]
          \/ ptSigned' = ptSigned
    BY <1>6 DEF PTHook
  <2>2. PICK where \in {"built", "mismatch"} : ptPc' = [ptPc EXCEPT ![c] = where]
    BY <1>6 DEF PTHook, PTGoto
  <2>3. ptPc[c] = "hook" /\ UNCHANGED <<ptOp, ptExpected>>
    BY <1>6 DEF PTHook
  <2>4. ptPc'[c] = where /\ \A d \in PTCalls \ {c} : ptPc'[d] = ptPc[d]
    BY <1>0, <2>2 DEF PTTyped
  <2>5. /\ ptSigned'[c] = ptSigned[c] \/ (ptSigned'[c] = ptExpected /\ ptExpected # PTNone)
        /\ \A d \in PTCalls \ {c} : ptSigned'[d] = ptSigned[d]
    BY <1>0, <2>1 DEF PTTyped, PTTripwire
  <2>6. ptExpected # PTNone => ptExpected \in PTCalls /\ ptOp[ptExpected] \in {"pay", "sign"}
    BY DEF PTTurns, PTSerialised
  <2>7. \A d \in PTCalls : ptSigned'[d] # PTNone => ptSigned'[d] \in PTCalls /\ ptOp[ptSigned'[d]] \in {"pay", "sign"}
    BY <2>5, <2>6 DEF PTTurns
  <2>8. (\A d \in PTCalls : ptOp[d] # "sign") => \A d \in PTCalls : ptSigned'[d] \in {PTNone, d}
    BY <2>3, <2>5 DEF PTTurns
  <2>9. \A d \in PTCalls : (ptPc'[d] = "hook" => ptPc[d] = "hook") /\ (ptPc'[d] = "idle" => ptPc[d] = "idle")
    BY <2>4
  <2> QED BY <2>3, <2>6, <2>7, <2>8, <2>9 DEF PTTurns
<1>7. CASE PTSignEnds(c)
  <2>1. ptPc[c] \in {"built", "mismatch"} /\ ptExpected' = PTNone /\ UNCHANGED <<ptOp, ptSigned>>
    BY <1>7 DEF PTSignEnds
  <2>2. PICK where \in {"submit", "done"} : ptPc' = [ptPc EXCEPT ![c] = where]
    BY <1>7 DEF PTSignEnds, PTGoto, PTEnd
  <2>3. ptPc'[c] = where /\ \A d \in PTCalls \ {c} : ptPc'[d] = ptPc[d]
    BY <1>0, <2>2 DEF PTTyped
  <2>4. ASSUME \A d \in PTCalls : ptOp[d] # "sign", NEW d \in PTCalls, ptPc'[d] = "hook"
        PROVE  FALSE
    <3>1. d # c /\ ptPc[d] = "hook"
      BY <2>3, <2>4
    <3> QED BY <2>1, <2>4, <3>1, PTOneInside
  <2> QED BY <2>1, <2>3, <2>4 DEF PTTurns
<1>8. CASE PTSubmit(c)
  <2>1. ptPc'[c] = "done" /\ \A d \in PTCalls \ {c} : ptPc'[d] = ptPc[d]
    BY <1>0, <1>8 DEF PTTyped, PTSubmit, PTEnd
  <2> QED BY <1>8, <2>1, PTTurnsElsewhere DEF PTSubmit
<1> QED BY <1>1, <1>2, <1>3, <1>4, <1>5, <1>6, <1>7, <1>8

LEMMA PTTurnsNext == PTInd /\ PTSerialised /\ PTTurns /\ [PTNext]_ptVars => PTTurns'
<1> SUFFICES ASSUME PTInd, PTSerialised, PTTurns, [PTNext]_ptVars PROVE PTTurns'
  OBVIOUS
<1>1. CASE PTGuarded
  BY <1>1 DEF PTGuarded, PTTurns
<1>2. CASE UNCHANGED ptVars
  BY <1>2 DEF ptVars, PTTurns
<1> QED BY <1>1, <1>2, PTTurnsStep DEF PTNext

\* The metrics against the budget.
PTMoney ==
    /\ DOMAIN ptOut = PTCalls /\ \A c \in PTCalls : ptPc[c] # "done" => ptOut[c] # "indeterminate"
    /\ ptMetrics.amount <= PTBudget - ptLeft
    /\ (\A c \in PTCalls : ptOut[c] # "indeterminate") => ptMetrics.amount = PTBudget - ptLeft

LEMMA PTMoneyInit == PTInit => PTMoney
BY PTAssumption DEF PTInit, PTMoney

\* A step of a call that is not over yet and moves no money.
LEMMA PTMoneyElsewhere ==
    ASSUME PTTyped, PTMoney, NEW c \in PTCalls, ptPc[c] # "done", ptLeft' = ptLeft, ptMetrics'.amount = ptMetrics.amount,
           NEW where \in PTPcs, NEW out, out # "indeterminate", ptPc' = [ptPc EXCEPT ![c] = where],
           ptOut' = ptOut \/ ptOut' = [ptOut EXCEPT ![c] = out]
    PROVE  PTMoney'
<1>1. ptPc'[c] = where /\ \A d \in PTCalls \ {c} : ptPc'[d] = ptPc[d]
  BY DEF PTTyped
<1>2. /\ DOMAIN ptOut' = PTCalls /\ ptOut'[c] # "indeterminate" /\ ptOut[c] # "indeterminate"
      /\ \A d \in PTCalls \ {c} : ptOut'[d] = ptOut[d]
  BY DEF PTMoney
<1>3. \A d \in PTCalls : ptPc'[d] # "done" => ptOut'[d] # "indeterminate"
  BY <1>1, <1>2 DEF PTMoney
<1>4. (\A d \in PTCalls : ptOut'[d] # "indeterminate") => \A d \in PTCalls : ptOut[d] # "indeterminate"
  BY <1>2
<1> QED BY <1>2, <1>3, <1>4 DEF PTMoney

LEMMA PTMoneyStep ==
    ASSUME PTInd, PTMoney, NEW c \in PTCalls,
           PTStart(c) \/ PTSearch(c) \/ PTProbeSent(c) \/ PTProbe(c) \/ PTSign(c) \/ PTHook(c) \/ PTSignEnds(c) \/ PTSubmit(c)
    PROVE  PTMoney'
<1>0. PTTyped /\ PTBudget \in Nat
  BY PTAssumption DEF PTInd
<1>1. CASE PTStart(c) \/ PTSearch(c)
  <2>1. /\ ptPc[c] # "done" /\ ptLeft' = ptLeft /\ ptMetrics' = ptMetrics
        /\ \E where \in PTPcs, out \in {"exhausted", "searchFailed", "noPayable"} :
              ptPc' = [ptPc EXCEPT ![c] = where] /\ (ptOut' = ptOut \/ ptOut' = [ptOut EXCEPT ![c] = out])
    BY <1>1 DEF PTStart, PTSearch, PTGoto, PTEnd, PTPcs
  <2> QED BY <1>0, <2>1, PTMoneyElsewhere
<1>2. CASE PTProbeSent(c) \/ PTSign(c) \/ PTHook(c)
  <2>1. /\ ptPc[c] # "done" /\ ptLeft' = ptLeft /\ ptMetrics' = ptMetrics /\ ptOut' = ptOut
        /\ \E where \in PTPcs : ptPc' = [ptPc EXCEPT ![c] = where]
    BY <1>2 DEF PTProbeSent, PTSign, PTHook, PTGoto, PTPcs
  <2> QED BY <1>0, <2>1, PTMoneyElsewhere
<1>3. CASE PTProbe(c)
  <2>1. /\ ptPc[c] # "done" /\ ptLeft' = ptLeft
        /\ ptMetrics' = ptMetrics \/ ptMetrics' = [ptMetrics EXCEPT !.refused = @ + 1]
        /\ \E where \in PTPcs, out \in {"fetchFailed", "unpaid", "badChallenge", "payable", "notPayable", "refused", "ceiling"} :
              ptPc' = [ptPc EXCEPT ![c] = where] /\ (ptOut' = ptOut \/ ptOut' = [ptOut EXCEPT ![c] = out])
    BY <1>3 DEF PTProbe, PTGoto, PTEnd, PTPcs
  <2>2. ptMetrics'.amount = ptMetrics.amount
    BY <1>0, <2>1 DEF PTTyped
  <2> QED BY <1>0, <2>1, <2>2, PTMoneyElsewhere
<1>4. CASE PTSignEnds(c)
  <2>1. /\ ptPc[c] # "done" /\ ptLeft' = ptLeft /\ ptMetrics' = ptMetrics
        /\ \E where \in PTPcs, out \in {"mismatch", "signed"} :
              ptPc' = [ptPc EXCEPT ![c] = where] /\ (ptOut' = ptOut \/ ptOut' = [ptOut EXCEPT ![c] = out])
    BY <1>4 DEF PTSignEnds, PTGoto, PTEnd, PTPcs
  <2> QED BY <1>0, <2>1, PTMoneyElsewhere
<1>5. CASE PTSubmit(c)
  <2>0. /\ ptPc[c] = "submit" /\ ptPc' = [ptPc EXCEPT ![c] = "done"] /\ "done" \in PTPcs
        /\ ptPrice[c] \in Nat /\ ptLeft \in Int /\ ptMetrics.amount \in Int
    BY <1>0, <1>5 DEF PTSubmit, PTEnd, PTTyped, PTPcs
  <2>1. CASE ptLeft' = ptLeft /\ ptOut' = [ptOut EXCEPT ![c] = "failed"] /\ ptMetrics' = [ptMetrics EXCEPT !.failed = @ + 1]
    <3>1. ptMetrics'.amount = ptMetrics.amount
      BY <1>0, <2>1 DEF PTTyped
    <3>2. ptPc[c] # "done" /\ "failed" # "indeterminate"
      BY <2>0
    <3> QED BY <1>0, <2>0, <2>1, <3>1, <3>2, PTMoneyElsewhere
  <2>2. ptPc'[c] = "done" /\ \A d \in PTCalls \ {c} : ptPc'[d] = ptPc[d]
    BY <1>0, <2>0 DEF PTTyped
  <2>3. CASE /\ ptLeft' = ptLeft - ptPrice[c] /\ ptOut' = [ptOut EXCEPT ![c] = "paid"]
             /\ ptMetrics' = [ptMetrics EXCEPT !.ok = @ + 1, !.amount = @ + ptPrice[c]]
    <3>1. ptMetrics'.amount = ptMetrics.amount + ptPrice[c]
      BY <1>0, <2>3 DEF PTTyped
    <3>2. /\ DOMAIN ptOut' = PTCalls /\ ptOut'[c] = "paid" /\ ptOut[c] # "indeterminate"
          /\ \A d \in PTCalls \ {c} : ptOut'[d] = ptOut[d]
      BY <2>0, <2>3 DEF PTMoney
    <3>3. (\A d \in PTCalls : ptOut'[d] # "indeterminate") => \A d \in PTCalls : ptOut[d] # "indeterminate"
      BY <3>2
    <3>4. \A d \in PTCalls : ptPc'[d] # "done" => ptOut'[d] # "indeterminate"
      BY <2>2, <3>2 DEF PTMoney
    <3>5. ptMetrics'.amount <= PTBudget - ptLeft'
      BY <1>0, <2>0, <2>3, <3>1 DEF PTMoney
    <3>6. ptMetrics.amount = PTBudget - ptLeft => ptMetrics'.amount = PTBudget - ptLeft'
      BY <1>0, <2>0, <2>3, <3>1
    <3> QED BY <3>2, <3>3, <3>4, <3>5, <3>6 DEF PTMoney
  <2>4. CASE /\ ptLeft' = ptLeft - ptPrice[c] /\ ptOut' = [ptOut EXCEPT ![c] = "indeterminate"]
             /\ ptMetrics' = [ptMetrics EXCEPT !.failed = @ + 1]
    <3>1. ptMetrics'.amount = ptMetrics.amount
      BY <1>0, <2>4 DEF PTTyped
    <3>2. /\ DOMAIN ptOut' = PTCalls /\ ptOut'[c] = "indeterminate"
          /\ \A d \in PTCalls \ {c} : ptOut'[d] = ptOut[d]
      BY <2>4 DEF PTMoney
    <3>3. \A d \in PTCalls : ptPc'[d] # "done" => ptOut'[d] # "indeterminate"
      BY <2>2, <3>2 DEF PTMoney
    <3>4. ptMetrics'.amount <= PTBudget - ptLeft'
      BY <1>0, <2>0, <2>4, <3>1 DEF PTMoney
    <3> QED BY <3>2, <3>3, <3>4 DEF PTMoney
  <2> QED BY <1>5, <2>1, <2>3, <2>4 DEF PTSubmit, PTEnd
<1> QED BY <1>1, <1>2, <1>3, <1>4, <1>5

LEMMA PTMoneyNext == PTInd /\ PTMoney /\ [PTNext]_ptVars => PTMoney'
<1> SUFFICES ASSUME PTInd, PTMoney, [PTNext]_ptVars PROVE PTMoney'
  OBVIOUS
<1>1. CASE PTGuarded
  BY <1>1 DEF PTGuarded, PTMoney
<1>2. CASE UNCHANGED ptVars
  BY <1>2 DEF ptVars, PTMoney
<1> QED BY <1>1, <1>2, PTMoneyStep DEF PTNext

\* Whatever the library hands the hook and whatever calls share the signer, a payload is
\* built only for an option a call cleared for signing, and for the signing call's own while
\* only pay() uses the signer; quotes and dry runs sign nothing, every span is closed, and the
\* metrics report what left the budget less what was debited unread (signer.ts, payer.ts,
\* payment-tracing.ts, metrics.ts), for every number of calls, prices and budget.
THEOREM OnlyClearedIsSigned == PTSpec => []PTOnlyClearedIsSigned
<1>1. PTInd /\ PTTurns /\ PTMoney => PTOnlyClearedIsSigned
  <2> SUFFICES ASSUME PTInd, PTTurns, PTMoney PROVE PTOnlyClearedIsSigned
    OBVIOUS
  <2>1. ASSUME NEW c \in PTCalls, ptSigned[c] # PTNone
        PROVE  /\ ptSigned[c] \in PTCalls /\ ptOp[ptSigned[c]] \in {"pay", "sign"}
               /\ (\A d \in PTCalls : ptOp[d] # "sign") => ptSigned[c] = c
    BY <2>1 DEF PTTurns
  <2>2. ASSUME NEW c \in PTCalls
        PROVE  (ptOp[c] \in {"quote", "dry"} => ptSigned[c] = PTNone) /\ (ptPc[c] = "done" => ptSpans[c] = 0)
    BY DEF PTInd, PTCallIsSound
  <2> QED BY <2>1, <2>2 DEF PTMoney, PTOnlyClearedIsSigned
<1> QED BY <1>1, PTInitInd, PTNextInd, PTSerialisedInit, PTSerialisedNext, PTTurnsInit, PTTurnsNext, PTMoneyInit, PTMoneyNext,
        PTL DEF PTSpec

-----------------------------------------------------------------------------
(* The command line. *)

\* An invocation has an exit code only once it has ended; where it is says which
\* command it runs; the watch sleeps only while an interval fits, so it reads at most one
\* late timer past its deadline.
CLInd ==
    /\ clClock \in Nat /\ clDeadline \in Nat
    /\ clPc # "done" => clExit = -1
    /\ clPc = "start" => clPaid = FALSE
    /\ clPc \in {"probe", "select", "sign"} => clCmd \in {"pay", "settle", "dry"}
    /\ clPc \in {"pay", "answer"} => clCmd \in {"pay", "settle"}
    /\ clPc \in {"poll", "sleep"} => clCmd = "watch"
    /\ clPc = "sleep" => clClock + CLInterval <= clDeadline
    /\ clPc = "poll" => clClock <= clDeadline + CLLate
    /\ clCmd = "watch" => clPc \in {"poll", "sleep", "done", "start"}
    /\ CLExitCodesAreTrue

\* The exit codes of a settlement: 3 only when nothing was spent.
LEMMA CLSettlementCodes ==
    ASSUME NEW settle \in SettleResult, NEW fate, CLTruthful(settle, fate)
    PROVE  /\ handleSettlementOutcome(settle) \in {0, 3, 5}
           /\ handleSettlementOutcome(settle) = 3 => fate = "none"
<1>1. ClassifySettlement(settle) \in {"settled", "not-spent", "indeterminate"}
  BY DEF ClassifySettlement
<1>2. ClassifySettlement(settle) = "not-spent" => settle.success = "false" /\ settle.tx = "empty"
  BY DEF ClassifySettlement, IsRetryableSettleFailure
<1>3. /\ handleSettlementOutcome(settle) \in {0, 3, 5}
      /\ handleSettlementOutcome(settle) = 3 => ClassifySettlement(settle) = "not-spent"
  BY <1>1 DEF handleSettlementOutcome, CLExitCode
<1> QED BY <1>2, <1>3 DEF CLTruthful

\* The paying commands, from their arguments to the answer.
LEMMA CLPaymentsPreserve ==
    ASSUME CLInd, CLPayStart \/ CLProbe \/ CLSelect \/ CLSign \/ CLPaidSent \/ CLAnswer
    PROVE  CLInd'
<1>1. CASE CLPayStart
  BY <1>1 DEF CLPayStart, CLInd, CLExitCodesAreTrue, CLExit, CLGoto
<1>2. CASE CLProbe
  <2>1. \/ clPc' = "done" /\ clExit' \in {0, 1}
        \/ clPc' = "select" /\ clExit' = clExit
    BY <1>2 DEF CLProbe, CLExit, CLGoto
  <2>2. clPc = "probe" /\ UNCHANGED <<clCmd, clPaid, clLedger, clClock, clDeadline>>
    BY <1>2 DEF CLProbe
  <2> QED BY <2>1, <2>2 DEF CLInd, CLExitCodesAreTrue
<1>3. CASE CLSelect
  <2>1. \/ clPc' = "done" /\ clExit' = 1
        \/ clPc' = "sign" /\ clExit' = clExit
    BY <1>3 DEF CLSelect, CLExit, CLGoto
  <2>2. clPc = "select" /\ UNCHANGED <<clCmd, clPaid, clLedger, clClock, clDeadline>>
    BY <1>3 DEF CLSelect
  <2> QED BY <2>1, <2>2 DEF CLInd, CLExitCodesAreTrue
<1>4. CASE CLSign
  <2>1. \/ clPc' = "done" /\ clExit' \in {0, 1}
        \/ clPc' = "pay" /\ clExit' = clExit /\ clCmd # "dry"
    BY <1>4 DEF CLSign, CLExit, CLGoto
  <2>2. clPc = "sign" /\ UNCHANGED <<clCmd, clPaid, clLedger, clClock, clDeadline>>
    BY <1>4 DEF CLSign
  <2> QED BY <2>1, <2>2 DEF CLInd, CLExitCodesAreTrue
<1>5. CASE CLPaidSent
  BY <1>5 DEF CLPaidSent, CLInd, CLExitCodesAreTrue, CLGoto
<1>6. CASE CLAnswer
  <2>1. clPc' = "done" /\ clExit' \in {0, 1, 3, 5} /\ (clExit' = 3 => clLedger = "none")
    BY <1>6, CLSettlementCodes DEF CLAnswer, CLExit
  <2>2. clPc = "answer" /\ UNCHANGED <<clCmd, clPaid, clLedger, clClock, clDeadline>>
    BY <1>6 DEF CLAnswer
  <2> QED BY <2>1, <2>2 DEF CLInd, CLExitCodesAreTrue
<1> QED BY <1>1, <1>2, <1>3, <1>4, <1>5, <1>6

\* The commands that make one request and end.
LEMMA CLRequestsPreserve ==
    ASSUME CLInd, CLQuote \/ CLSearch \/ CLInspect \/ CLDoctor \/ CLPreflight
    PROVE  CLInd'
<1>1. /\ clPc = "start" /\ clPc' = "done" /\ clExit' \in {0, 1}
      /\ clCmd' \in {"quote", "search", "inspect", "doctor", "preflight"}
      /\ UNCHANGED <<clPaid, clLedger, clClock, clDeadline>>
  <2>1. CASE CLQuote \/ CLSearch \/ CLInspect
    BY <2>1 DEF CLQuote, CLSearch, CLInspect, CLExit
  <2>2. CASE CLDoctor
    BY <2>2 DEF CLDoctor, CLExit
  <2>3. CASE CLPreflight
    BY <2>3 DEF CLPreflight, CLExit
  <2> QED BY <2>1, <2>2, <2>3
<1> QED BY <1>1 DEF CLInd, CLExitCodesAreTrue

\* The watch, while the ledger closes.
LEMMA CLWatchPreserves ==
    ASSUME CLInd, CLWatch \/ CLPoll \/ CLSlept \/ CLLedgerCloses
    PROVE  CLInd'
<1>1. CASE CLWatch
  <2>1. clClock + CLTimeout \in Nat /\ clClock <= clClock + CLTimeout + CLLate
        /\ clClock <= clClock + CLTimeout + 2 * CLLate
    BY CLAssumption DEF CLInd
  <2> QED BY <1>1, <2>1 DEF CLWatch, CLInd, CLExitCodesAreTrue, CLGoto
<1>2. CASE CLPoll
  <2>1. PICK took \in 0..CLLate :
           /\ clPc = "poll" /\ UNCHANGED <<clCmd, clPaid, clLedger, clDeadline>> /\ clClock' = clClock + took
           /\ \/ clPc' = "done" /\ clExit' = 0 /\ clLedger = "success"
              \/ clPc' = "done" /\ clExit' = 1 /\ clLedger = "failed"
              \/ clPc' = "done" /\ clExit' = 2 /\ clClock + took + CLInterval > clDeadline
              \/ clPc' = "sleep" /\ clExit' = clExit /\ ~(clClock + took + CLInterval > clDeadline)
    BY <1>2 DEF CLPoll, CLWaitOn, CLExit, CLGoto
  <2>2. clClock' \in Nat /\ clClock' <= clDeadline + 2 * CLLate
    BY <2>1, CLAssumption DEF CLInd
  <2>3. clPc' = "sleep" => clClock' + CLInterval <= clDeadline
    BY <2>1, CLAssumption DEF CLInd
  <2> QED BY <2>1, <2>2, <2>3 DEF CLInd, CLExitCodesAreTrue
<1>3. CASE CLSlept
  <2>1. PICK late \in 0..CLLate : clClock' = clClock + CLInterval + late
    BY <1>3 DEF CLSlept
  <2>2. clPc = "sleep" /\ clPc' = "poll" /\ clExit' = clExit /\ UNCHANGED <<clCmd, clPaid, clLedger, clDeadline>>
    BY <1>3 DEF CLSlept, CLGoto
  <2>3. clClock' \in Nat /\ clClock' <= clDeadline + CLLate /\ clClock' <= clDeadline + 2 * CLLate
    BY <2>1, <2>2, CLAssumption DEF CLInd
  <2> QED BY <2>2, <2>3 DEF CLInd, CLExitCodesAreTrue
<1>4. CASE CLLedgerCloses
  BY <1>4 DEF CLLedgerCloses, CLInd, CLExitCodesAreTrue
<1> QED BY <1>1, <1>2, <1>3, <1>4

\* A script may act on an exit code: "not spent" is reported only when nothing
\* reached the ledger, a watch reports what the ledger says, gives up only when no
\* interval fits and overruns its deadline by at most a late timer and a slow read, and only
\* pay sends a payment (the cli commands), for every timeout, interval and lateness.
THEOREM ExitCodesAreTrue == CLSpec => []CLExitCodesAreTrue
<1> USE CLAssumption
<1>1. CLInit => CLInd
  BY DEF CLInit, CLInd, CLExitCodesAreTrue
<1>2. CLInd /\ [CLNext]_clVars => CLInd'
  <2> SUFFICES ASSUME CLInd, [CLNext]_clVars PROVE CLInd'
    OBVIOUS
  <2>1. CASE UNCHANGED clVars
    BY <2>1 DEF clVars, CLInd, CLExitCodesAreTrue
  <2> QED BY <2>1, CLPaymentsPreserve, CLRequestsPreserve, CLWatchPreserves DEF CLNext
<1>3. CLInd => CLExitCodesAreTrue
  BY DEF CLInd
<1> QED BY <1>1, <1>2, <1>3, PTL DEF CLSpec

-----------------------------------------------------------------------------
(* The MCP server. *)

\* The secret is registered before anything that could quote it is built, stdout is
\* diverted before a tool is served, and an environment that loads is ready.
MSInd ==
    /\ msEnv \in MSEnvs
    /\ msPc \in {"registered", "built", "serving"} => "secret" \in msSecrets
    /\ msPc = "serving" => msDiverted
    /\ msCall # "none" => msPc = "serving"
    /\ msPc = "down" => msChecked.ready = MSReadiness(msEnv)
    /\ msChecked \in [ready : BOOLEAN, preflight : {"none", "problems", "accepted", "rejected"}]
    /\ MSOutputIsClean /\ MSChecksAgree

\* The rules are written twice: what the process accepts, the readiness check
\* calls ready.
LEMMA MSLoadedIsReady ==
    ASSUME NEW e \in MSEnvs, MSLoads(e)
    PROVE  MSReadiness(e)
<1>1. e.inline \in {"unset", "valid", "invalid"}
  BY DEF MSEnvs
<1> QED BY <1>1 DEF MSLoads, MSSecretOk, MSNetworkOk, MSBytesOk, MSPoliciesOk, MSReadiness

\* With the secret registered no quotation of it survives.
LEMMA MSRedactedIsClean ==
    ASSUME NEW q \in MSQuotes, "secret" \in msSecrets \/ q = "none"
    PROVE  MSRedact(q) = "none"
BY DEF MSRedact, MSQuotes

\* What is logged goes to stderr, redacted.
LEMMA MSLoggedIsRedacted ==
    ASSUME NEW level, NEW q, NEW l \in MSLogged(level, q), NEW e \in l
    PROVE  e.chan = "stderr" /\ e.secret = MSRedact(q)
BY DEF MSLogged, MSLine

\* sanitizeUntrusted leaves no fence, whatever the text.
LEMMA MSSanitizedHasNoFence ==
    ASSUME NEW text
    PROVE  LET shown == MSRenderUntrusted(text)
           IN  \A i \in DOMAIN shown : i + 1 \in DOMAIN shown => ~(shown[i] = "F" /\ shown[i + 1] = "E")
<1> DEFINE t == MSDropFormat(text)
           shown == MSDropFences(t)
<1> HIDE DEF t
<1> SUFFICES ASSUME NEW i \in DOMAIN shown, i + 1 \in DOMAIN shown, shown[i] = "F", shown[i + 1] = "E"
             PROVE  FALSE
  BY DEF MSRenderUntrusted, MSSanitize, t
<1>1. i \in DOMAIN t /\ i + 1 \in DOMAIN t
  BY DEF MSDropFences
<1>2. t[i] = "F" /\ ~(i + 1 \in DOMAIN t /\ t[i + 1] = "E")
  BY <1>1 DEF MSDropFences
<1>3. t[i + 1] = "E"
  BY <1>1 DEF MSDropFences
<1> QED BY <1>1, <1>2, <1>3

\* Before the process starts: the environment and its checks.
LEMMA MSPreparationsPreserve ==
    ASSUME MSInd, MSConfigure \/ MSPreflight \/ MSStart
    PROVE  MSInd'
<1>1. CASE MSConfigure
  <2>1. PICK e \in MSEnvs : /\ msPc = "unset" /\ msEnv' = e /\ msPc' = "down"
                            /\ msChecked' = [msChecked EXCEPT !.ready = MSReadiness(e)]
    BY <1>1 DEF MSConfigure
  <2>2. UNCHANGED <<msSecrets, msDiverted, msCall, msLog, msShown, msHealth>>
    BY <1>1 DEF MSConfigure
  <2>3. MSReadiness(e) \in BOOLEAN
    BY DEF MSReadiness
  <2>4. /\ msChecked' \in [ready : BOOLEAN, preflight : {"none", "problems", "accepted", "rejected"}]
        /\ msChecked'.ready = MSReadiness(e) /\ msChecked'.preflight = msChecked.preflight
    BY <2>1, <2>3 DEF MSInd
  <2>5. MSReadiness(msEnv)' = MSReadiness(e)
    BY <2>1
  <2> QED BY <2>1, <2>2, <2>4, <2>5 DEF MSInd, MSOutputIsClean, MSChecksAgree
<1>2. CASE MSPreflight
  <2>1. PICK chain \in MSChains :
          msChecked' = [msChecked EXCEPT !.preflight =
            IF ~MSPreflightOk(msEnv, chain) THEN "problems"
            ELSE IF msEnv.wallet = "unset" \/ (chain.signer # "missing" /\ chain.limits \subseteq Range(msEnv.policies))
            THEN "accepted" ELSE "rejected"]
    BY <1>2 DEF MSPreflight
  <2>2. UNCHANGED <<msEnv, msPc, msSecrets, msDiverted, msCall, msLog, msShown, msHealth>> /\ msPc = "down"
    BY <1>2 DEF MSPreflight
  <2>3. MSPreflightOk(msEnv, chain) =>
          msEnv.wallet = "unset" \/ (chain.signer # "missing" /\ chain.limits \subseteq Range(msEnv.policies))
    BY DEF MSPreflightOk, MSRequired
  <2>4. /\ msChecked' \in [ready : BOOLEAN, preflight : {"none", "problems", "accepted", "rejected"}]
        /\ msChecked'.ready = msChecked.ready /\ msChecked'.preflight \in {"problems", "accepted"}
    BY <2>1, <2>3 DEF MSInd
  <2>5. MSReadiness(msEnv)' = MSReadiness(msEnv)
    BY <2>2
  <2> QED BY <2>2, <2>4, <2>5 DEF MSInd, MSOutputIsClean, MSChecksAgree
<1>3. CASE MSStart
  <2>1. MSLoads(msEnv) => msChecked.ready
    BY <1>3, MSLoadedIsReady DEF MSInd, MSStart
  <2>2. msCall = "none"
    BY <1>3 DEF MSInd, MSStart
  <2>3. PICK q \in MSQuotes : msLog' = msLog \/ msLog' = msLog \cup {MSLine("load", "stderr", MSRedact(q))}
    BY <1>3 DEF MSStart, MSLoadQuotes, MSQuotes
  <2>4. MSRedact(q) \in {"none", "embedded"}
    BY DEF MSRedact, MSQuotes
  <2>5. \A e \in msLog' : /\ e.secret = "none" \/ (e.at = "load" /\ e.secret = "embedded")
                          /\ e.chan # "protocol"
    BY <2>3, <2>4 DEF MSInd, MSOutputIsClean, MSLine
  <2>6. MSOutputIsClean'
    BY <1>3, <2>5 DEF MSStart, MSInd, MSOutputIsClean
  <2> QED BY <1>3, <2>1, <2>2, <2>6 DEF MSStart, MSInd, MSChecksAgree
<1> QED BY <1>1, <1>2, <1>3

\* The process is built and served, and the health check kills it.
LEMMA MSLifePreserves ==
    ASSUME MSInd, MSRegister \/ MSBuild \/ MSServe \/ MSSettleHealth \/ \E t \in MSTools : MSCallTool(t)
    PROVE  MSInd'
<1>1. CASE MSRegister
  BY <1>1 DEF MSRegister, MSInd, MSOutputIsClean, MSChecksAgree
<1>2. CASE MSBuild
  <2>1. PICK q \in MSQuotes :
          msLog' = msLog \/ msLog' = msLog \cup {MSLine("run", "stderr", MSRedact(q))}
    BY <1>2 DEF MSBuild
  <2>2. MSRedact(q) = "none"
    BY <1>2, MSRedactedIsClean DEF MSBuild, MSInd
  <2>3. \A e \in msLog' : /\ e.secret = "none" \/ (e.at = "load" /\ e.secret = "embedded")
                          /\ e.chan # "protocol"
    BY <2>1, <2>2 DEF MSInd, MSOutputIsClean, MSLine
  <2> QED BY <1>2, <2>3 DEF MSBuild, MSInd, MSOutputIsClean, MSChecksAgree
<1>3. CASE MSServe
  BY <1>3 DEF MSServe, MSInd, MSOutputIsClean, MSChecksAgree
<1>4. CASE MSSettleHealth
  BY <1>4 DEF MSSettleHealth, MSInd, MSOutputIsClean, MSChecksAgree
<1>5. CASE \E t \in MSTools : MSCallTool(t)
  BY <1>5 DEF MSCallTool, MSNothing, MSInd, MSOutputIsClean, MSChecksAgree
<1> QED BY <1>1, <1>2, <1>3, <1>4, <1>5

\* The tools' output.
LEMMA MSToolsPreserve ==
    ASSUME MSInd, MSPrint \/ MSAnswer \/ MSThrow \/ MSBudget
    PROVE  MSInd'
<1>1. UNCHANGED <<msEnv, msPc, msSecrets, msDiverted, msHealth, msChecked>> /\ msPc = "serving"
  BY DEF MSInd, MSPrint, MSAnswer, MSThrow, MSBudget
<1>2. "secret" \in msSecrets /\ msDiverted
  BY <1>1 DEF MSInd
<1>3. \A e \in msLog' : /\ e.secret = "none" \/ (e.at = "load" /\ e.secret = "embedded")
                        /\ e.chan # "protocol"
  <2>1. \A e \in msLog : /\ e.secret = "none" \/ (e.at = "load" /\ e.secret = "embedded")
                         /\ e.chan # "protocol"
    BY DEF MSInd, MSOutputIsClean
  <2>2. \A q \in MSQuotes : MSRedact(q) = "none"
    BY <1>2, MSRedactedIsClean
  <2>3. CASE MSPrint
    BY <1>2, <2>1, <2>2, <2>3 DEF MSPrint, MSLine
  <2>4. CASE MSAnswer
    <3>1. PICK l \in MSLogged("info", "none") : msLog' = msLog \cup l
      BY <2>4 DEF MSAnswer
    <3>2. \A e \in l : e.chan = "stderr" /\ e.secret = "none"
      BY <2>2, <3>1, MSLoggedIsRedacted DEF MSQuotes
    <3> QED BY <2>1, <3>1, <3>2
  <2>5. CASE MSThrow
    <3>1. PICK q \in MSQuotes : \E l \in MSLogged("warn", q) :
            msLog' = msLog \cup l \cup {MSLine("run", "result", MSRedact(q))}
      BY <2>5 DEF MSThrow
    <3>2. PICK l \in MSLogged("warn", q) :
            msLog' = msLog \cup l \cup {MSLine("run", "result", MSRedact(q))}
      BY <3>1
    <3>3. \A e \in l : e.chan = "stderr" /\ e.secret = "none"
      BY <2>2, <3>2, MSLoggedIsRedacted
    <3> QED BY <2>1, <2>2, <3>2, <3>3 DEF MSLine
  <2>6. CASE MSBudget
    BY <2>1, <2>6 DEF MSBudget, MSLine
  <2> QED BY <2>3, <2>4, <2>5, <2>6
<1>4. \A i \in DOMAIN msShown'.fence : i + 1 \in DOMAIN msShown'.fence =>
          ~(msShown'.fence[i] = "F" /\ msShown'.fence[i + 1] = "E")
  <2>1. CASE MSAnswer
    <3>1. PICK text, open : msShown' = [fence |-> MSRenderUntrusted(text), open |-> open]
      BY <2>1 DEF MSAnswer
    <3>2. msShown'.fence = MSRenderUntrusted(text)
      BY <3>1
    <3> QED BY <3>2, MSSanitizedHasNoFence
  <2>2. CASE MSThrow
    <3>1. msShown'.fence = <<>>
      BY <2>2 DEF MSThrow
    <3> QED BY <3>1
  <2>3. CASE msShown' = msShown
    BY <2>3 DEF MSInd, MSOutputIsClean
  <2> QED BY <2>1, <2>2, <2>3 DEF MSPrint, MSBudget
<1>5. MSOutputIsClean'
  BY <1>3, <1>4 DEF MSOutputIsClean
<1>6. MSChecksAgree'
  BY <1>1 DEF MSInd, MSChecksAgree
<1> QED BY <1>1, <1>2, <1>5, <1>6 DEF MSInd

\* Nothing the server emits once its configuration is loaded holds the secret, the
\* protocol channel carries the protocol only, no fenced text shows a fence of its own,
\* and the readiness check, the preflight and the health check say what is so (bin.ts,
\* server.ts, output.ts, x402-untrusted.ts), for texts of every length.
THEOREM ServerIsSafe == MSSpec => []MSServerIsSafe
<1>1. MSInit => MSInd
  <2> SUFFICES ASSUME MSInit PROVE MSInd
    OBVIOUS
  <2>1. msEnv \in MSEnvs
    BY DEF MSInit, MSEnvs, MSEntries
  <2> QED BY <2>1 DEF MSInit, MSNothing, MSInd, MSOutputIsClean, MSChecksAgree
<1>2. MSInd /\ [MSNext]_msVars => MSInd'
  <2> SUFFICES ASSUME MSInd, [MSNext]_msVars PROVE MSInd'
    OBVIOUS
  <2>1. CASE UNCHANGED msVars
    BY <2>1 DEF msVars, MSInd, MSOutputIsClean, MSChecksAgree
  <2> QED BY <2>1, MSPreparationsPreserve, MSLifePreserves, MSToolsPreserve DEF MSNext
<1>3. MSInd => MSServerIsSafe
  BY DEF MSInd, MSServerIsSafe
<1> QED BY <1>1, <1>2, <1>3, PTL DEF MSSpec
-----------------------------------------------------------------------------
(* The circuit breaker. *)

\* The inductive invariant: in this code the streak explains the state, and the trials
\* of the current half-open episode are all still running.
CBStreakExplains ==
    /\ cbState = "closed" <=> cbStreak < CBFailureThreshold
    /\ cbFailures = cbStreak
    /\ cbState # "closed" => cbTripped = CBFailureThreshold

CBInd == CBTypeOK /\ CBStreakExplains /\ CBProbesAreOutstanding

\* It holds of a new breaker.
LEMMA CBInitInd == CBInit => CBInd
BY CBThresholdAssumption, CBDurationAssumption, CBTrialsAssumption
   DEF CBInit, CBInd, CBTypeOK, CBStreakExplains,
       CBProbesAreOutstanding

\* What the state getter's transition leaves behind: an open breaker that cooled
\* down has no trials yet.
LEMMA CBObservedProbes ==
    ASSUME CBInd
    PROVE  /\ CBObservedState \in {"closed", "open", "half-open"}
           /\ CBObservedUsed \in 0..CBHalfOpenMaxCalls
           /\ CBObservedTrials \subseteq CBCalls
           /\ CBObservedState = "closed" <=> cbState = "closed"
           /\ CBObservedState = "half-open" =>
                  /\ CBObservedTrials \subseteq cbRunning
                  /\ Cardinality(CBObservedTrials) = CBObservedUsed
<1>1. Cardinality({}) = 0
  BY FS_EmptySet
<1> QED
  BY <1>1, CBTrialsAssumption
     DEF CBInd, CBTypeOK, CBProbesAreOutstanding, CBObservedState, CBObservedUsed, CBObservedTrials

\* The state getter moves an open breaker that cooled down.
LEMMA CBReadPreserves ==
    ASSUME CBInd, CBReadState
    PROVE  CBInd'
<1> USE DEF CBInd
<1>1. CBTypeOK'
  BY CBObservedProbes DEF CBTypeOK, CBReadState
<1>2. CBStreakExplains'
  BY CBObservedProbes DEF CBStreakExplains, CBReadState
<1>3. CBProbesAreOutstanding'
  BY CBObservedProbes DEF CBProbesAreOutstanding, CBReadState
<1> QED BY <1>1, <1>2, <1>3

\* execute() lets a call through.
LEMMA CBAdmitPreserves ==
    ASSUME CBInd, NEW c \in CBCalls, CBAdmit(c)
    PROVE  CBInd'
<1> USE DEF CBInd
<1>1. /\ cbState' = CBObservedState /\ cbRunning' = cbRunning \cup {c}
      /\ cbFailures' = cbFailures /\ cbAge' = cbAge /\ cbStreak' = cbStreak /\ cbTripped' = cbTripped
      /\ c \notin cbRunning
  BY DEF CBAdmit
<1>2. CBStreakExplains'
  BY <1>1, CBObservedProbes DEF CBStreakExplains
<1>3. CASE CBObservedState = "half-open"
  <2>1. /\ CBObservedUsed < CBHalfOpenMaxCalls
        /\ cbHalfOpenUsed' = CBObservedUsed + 1
        /\ cbTrials' = CBObservedTrials \cup {c}
    BY <1>3 DEF CBAdmit
  <2>2. /\ CBObservedTrials \subseteq cbRunning /\ CBObservedTrials \subseteq CBCalls
        /\ CBObservedUsed \in 0..CBHalfOpenMaxCalls
        /\ Cardinality(CBObservedTrials) = CBObservedUsed
    BY <1>3, CBObservedProbes
  <2>3. IsFiniteSet(CBObservedTrials) /\ c \notin CBObservedTrials
    BY <1>1, <2>2, CBCallsAssumption, FS_Subset
  <2>4. Cardinality(CBObservedTrials \cup {c}) = Cardinality(CBObservedTrials) + 1
    BY <2>3, FS_AddElement
  <2>5. CBTypeOK'
    BY <1>1, <2>1, <2>2, CBObservedProbes, CBTrialsAssumption DEF CBTypeOK
  <2>6. CBProbesAreOutstanding'
    BY <1>1, <2>1, <2>2, <2>4 DEF CBProbesAreOutstanding
  <2> QED BY <1>2, <2>5, <2>6
<1>4. CASE CBObservedState = "closed"
  <2>1. cbHalfOpenUsed' = CBObservedUsed /\ cbTrials' = CBObservedTrials
    BY <1>4 DEF CBAdmit
  <2> QED
    BY <1>1, <1>2, <1>4, <2>1, CBObservedProbes DEF CBTypeOK, CBProbesAreOutstanding
<1> QED BY <1>3, <1>4 DEF CBAdmit

\* A call ends.
LEMMA CBSettlePreserves ==
    ASSUME CBInd, NEW c \in CBCalls, CBSettle(c)
    PROVE  CBInd'
<1> USE CBThresholdAssumption, CBDurationAssumption, CBTrialsAssumption DEF CBInd
<1>1. CASE CBSettleSuccess(c)
  BY <1>1 DEF CBSettleSuccess, CBClose, CBTypeOK, CBStreakExplains, CBProbesAreOutstanding
<1>2. CASE CBSettleFailure(c)
  <2>1. CBTypeOK'
    BY <1>2 DEF CBSettleFailure, CBRecordFailure, CBOpen, CBTypeOK
  <2>2. CBStreakExplains'
    BY <1>2 DEF CBSettleFailure, CBRecordFailure, CBOpen, CBTypeOK,
                CBStreakExplains
  <2>3. cbState' # "half-open"
    BY <1>2 DEF CBSettleFailure, CBRecordFailure, CBOpen
  <2> QED BY <2>1, <2>2, <2>3 DEF CBProbesAreOutstanding
<1> QED BY <1>1, <1>2 DEF CBSettle

\* Every step of the breaker.
LEMMA CBNextInd == CBInd /\ [CBNext]_cbVars => CBInd'
<1> SUFFICES ASSUME CBInd, [CBNext]_cbVars PROVE CBInd'
  OBVIOUS
<1>1. ASSUME NEW c \in CBCalls, CBAdmit(c) \/ CBRefuse(c) \/ CBSettle(c)
      PROVE  CBInd'
  BY <1>1, CBAdmitPreserves, CBReadPreserves, CBSettlePreserves DEF CBRefuse
<1>2. CASE CBReset
  BY <1>2, CBThresholdAssumption, CBDurationAssumption, CBTrialsAssumption
     DEF CBReset, CBClose, CBInd, CBTypeOK, CBStreakExplains,
         CBProbesAreOutstanding
<1>3. CASE CBTick
  BY <1>3, CBDurationAssumption
     DEF CBTick, CBInd, CBTypeOK, CBStreakExplains,
         CBProbesAreOutstanding
<1>4. CASE UNCHANGED cbVars
  BY <1>4 DEF cbVars, CBInd, CBTypeOK, CBStreakExplains,
              CBProbesAreOutstanding
<1> QED BY <1>1, <1>2, <1>3, <1>4, CBReadPreserves DEF CBNext

\* The breaker is open or probing only after its threshold of consecutive failures, closed
\* only below it, with failureCount that number, and a half-open breaker's trials are all
\* outstanding (circuit-breaker.ts, execute), for every interleaving of any number of calls.
THEOREM BreakerIsSafe == CBSpec => [](CBTypeOK /\ CBBreakerIsSound)
<1>1. CBSpec => []CBInd
  BY CBInitInd, CBNextInd, PTL DEF CBSpec
<1>2. CBInd => CBTypeOK /\ CBBreakerIsSound
  BY DEF CBInd, CBStreakExplains, CBBreakerIsSound, CBOpensAtTheThreshold
<1> QED BY <1>1, <1>2, PTL
-----------------------------------------------------------------------------
(* Capped settlements. *)

UPPcs == {"idle", "reserved", "queued", "sent", "answered", "done", "released", "refused"}

UPTyped ==
    /\ upPc \in [UPCalls -> UPPcs]
    /\ upCeiling \in [UPCalls -> Nat] /\ upMoved \in [UPCalls -> Nat]
    /\ DOMAIN upSigned = UPCalls /\ DOMAIN upHeader = UPCalls /\ DOMAIN upReceipt = UPCalls
    /\ upReserved \in Nat /\ upSpent \in Nat

\* The session budget against the reservations and the chain.
UPMoney ==
    /\ upSpent + upReserved <= UPBudget
    /\ upReserved = SumFunction([b \in UPCalls |-> UPHeld(b)])
    /\ SumFunction([b \in UPCalls |-> UPTaken(b)]) <= upSpent

\* What a call signed bounds what the chain moves for it, and the header and the
\* receipt it has are answers to that.
UPCallSound(b) ==
    /\ upMoved[b] <= upCeiling[b]
    /\ upPc[b] \in {"idle", "reserved", "queued", "sent", "refused"} => upMoved[b] = 0
    /\ upSigned[b] \subseteq {UPEntry(upCeiling[b])}
    /\ upPc[b] = "idle" => upSigned[b] = {}
    /\ upPc[b] \in {"answered", "done", "released"} =>
          upHeader[b] = UPNone \/ upHeader[b] \in UPHeaders(upCeiling[b])
    /\ upPc[b] = "done" => upReceipt[b] = UPReceiptFrom(upHeader[b], upCeiling[b])

\* The queue holds the queued and the sent calls once each, only its head is sent,
\* and what ran has left the queue or is its head.
UPQueueSound ==
    /\ upQueue \in Seq(UPCalls)
    /\ \A i, j \in 1..Len(upQueue) : upQueue[i] = upQueue[j] => i = j
    /\ \A i \in 1..Len(upQueue) : /\ upPc[upQueue[i]] \in {"queued", "sent"}
                                  /\ i # 1 => upPc[upQueue[i]] = "queued"
    /\ \A b \in UPCalls : upPc[b] \in {"queued", "sent"} => \E i \in 1..Len(upQueue) : upQueue[i] = b
    /\ upRan \in Seq(UPCalls)
    /\ \A i, j \in 1..Len(upRan) : upRan[i] = upRan[j] => i = j
    /\ \A i \in 1..Len(upRan) : upPc[upRan[i]] \in {"sent", "answered", "done", "released"}

\* One when the head of the queue has been sent.
UPOnTheWay == IF Len(upQueue) # 0 /\ upPc[upQueue[1]] = "sent" THEN 1 ELSE 0

\* What was asked for is what ran, followed by what waits.
UPOrdered ==
    /\ upAsked \in Seq(UPCalls)
    /\ Len(upAsked) = Len(upRan) + Len(upQueue) - UPOnTheWay /\ UPOnTheWay <= Len(upRan)
    /\ \A i \in 1..Len(upRan) : upRan[i] = upAsked[i]
    /\ \A i \in 1..Len(upQueue) : upAsked[Len(upAsked) - Len(upQueue) + i] = upQueue[i]

UPInd == UPTyped /\ UPMoney /\ (\A b \in UPCalls : UPCallSound(b)) /\ UPQueueSound /\ UPOrdered

\* resolveSpendDebit: what is debited is at most the ceiling and, unless the answer
\* admits to less, at least what moved; and a receipt the facilitator is named for
\* shows what the buyer's decoder reads.
LEMMA UPDebitCovers ==
    ASSUME NEW moved \in Nat, NEW ceiling \in Nat, moved <= ceiling,
           NEW h, h = UPNone \/ h \in UPHeaders(ceiling)
    PROVE  LET r == UPReceiptFrom(h, ceiling)
           IN  /\ UPDebit(h, ceiling) \in Nat /\ UPDebit(h, ceiling) <= ceiling
               /\ ~UPUnderReports(h, moved) => moved <= UPDebit(h, ceiling)
               /\ UPOutcome(h, ceiling) = "not-spent" => UPDebit(h, ceiling) = 0
               /\ r # UPNone /\ r.source = "facilitator" => r.settled = UPDecodeUpto(h, ceiling)
<1> DEFINE r == UPReceiptFrom(h, ceiling)
<1>1. CASE h = UPNone
  <2>1. r = UPNone /\ UPOutcome(h, ceiling) = "indeterminate"
    BY <1>1 DEF UPReceiptFrom, UPOutcome
  <2>2. UPDebit(h, ceiling) = ceiling
    BY <2>1 DEF UPDebit
  <2> QED BY <2>1, <2>2
<1>2. CASE h # UPNone /\ ~h.success
  <2>1. r = UPNone
    BY <1>2 DEF UPReceiptFrom
  <2>2. CASE h.hash
    <3>1. UPOutcome(h, ceiling) = "indeterminate"
      BY <1>2, <2>1, <2>2 DEF UPOutcome
    <3>2. UPDebit(h, ceiling) = ceiling
      BY <3>1 DEF UPDebit
    <3> QED BY <2>1, <3>1, <3>2
  <2>3. CASE ~h.hash
    <3>1. UPOutcome(h, ceiling) = "not-spent"
      BY <1>2, <2>1, <2>3 DEF UPOutcome
    <3>2. UPDebit(h, ceiling) = 0
      BY <3>1 DEF UPDebit
    <3>3. ~UPUnderReports(h, moved) => moved = 0
      BY <1>2, <2>3 DEF UPUnderReports
    <3> QED BY <2>1, <3>2, <3>3
  <2> QED BY <2>2, <2>3
<1>3. CASE h # UPNone /\ h.success
  <2>1. h \in UPHeaders(ceiling)
    BY <1>3
  <2>2. UPOutcome(h, ceiling) = IF r # UPNone THEN "settled" ELSE "indeterminate"
    BY <1>3 DEF UPOutcome
  <2>3. UPDebit(h, ceiling) = IF r # UPNone THEN r.settled ELSE ceiling
    BY <2>2 DEF UPDebit
  <2>4. CASE ~h.hash
    <3>1. r = UPNone
      BY <1>3, <2>4 DEF UPReceiptFrom
    <3> QED BY <2>2, <2>3, <3>1
  <2>5. CASE h.hash
    <3>1. h.amount \in (0..(ceiling + 1)) \cup {UPNone, UPBad}
      BY <2>1 DEF UPHeaders
    <3>2. r = UPBuildReceipt(ceiling, h.amount)
      BY <1>3, <2>5 DEF UPReceiptFrom
    <3>3. CASE h.amount \in {UPNone, UPBad}
      <4>1. r = [ceiling |-> ceiling, settled |-> ceiling, source |-> "fallback"]
        BY <3>2, <3>3 DEF UPBuildReceipt, UPParseSettled
      <4> QED BY <2>2, <2>3, <4>1
    <3>4. CASE h.amount \notin {UPNone, UPBad}
      <4>1. h.amount \in 0..(ceiling + 1) /\ UPParseSettled(h.amount) = h.amount /\ h.amount # UPNone
        BY <3>1, <3>4 DEF UPParseSettled
      <4>2. CASE h.amount > ceiling
        <5>1. r = [ceiling |-> ceiling, settled |-> ceiling, source |-> "clamped"]
          BY <3>2, <4>1, <4>2 DEF UPBuildReceipt
        <5> QED BY <2>2, <2>3, <5>1
      <4>3. CASE ~(h.amount > ceiling)
        <5>1. r = [ceiling |-> ceiling, settled |-> h.amount, source |-> "facilitator"]
          BY <3>2, <4>1, <4>3 DEF UPBuildReceipt
        <5>2. UPDecodeUpto(h, ceiling) = h.amount
          BY <1>3, <2>5, <3>4, <4>3 DEF UPDecodeUpto
        <5>3. ~UPUnderReports(h, moved) => moved <= h.amount
          BY <1>3, <2>5, <3>4, <4>1 DEF UPUnderReports
        <5>4. h.amount \in Nat /\ h.amount <= ceiling
          BY <4>1, <4>3
        <5> QED BY <2>2, <2>3, <5>1, <5>2, <5>3, <5>4
      <4> QED BY <4>2, <4>3
    <3> QED BY <3>3, <3>4
  <2> QED BY <2>4, <2>5
<1> QED BY <1>1, <1>2, <1>3

\* The two sums after a step of one call.
LEMMA UPSumsChange ==
    ASSUME UPTyped, UPTyped', UPMoney, NEW b \in UPCalls,
           \A c \in UPCalls : c # b => /\ upPc'[c] = upPc[c] /\ upCeiling'[c] = upCeiling[c]
                                      /\ upMoved'[c] = upMoved[c] /\ upHeader'[c] = upHeader[c]
    PROVE  /\ UPHeld(b) <= upReserved
           /\ SumFunction([c \in UPCalls |-> UPHeld(c)])' = upReserved - UPHeld(b) + UPHeld(b)'
           /\ SumFunction([c \in UPCalls |-> UPTaken(c)]) \in Nat
           /\ SumFunction([c \in UPCalls |-> UPTaken(c)])'
                 = SumFunction([c \in UPCalls |-> UPTaken(c)]) - UPTaken(b) + UPTaken(b)'
<1> DEFINE held == [c \in UPCalls |-> UPHeld(c)]
           taken == [c \in UPCalls |-> UPTaken(c)]
<1>1. PICK h0, h1, t0, t1 : h0 = held /\ h1 = held' /\ t0 = taken /\ t1 = taken'
  OBVIOUS
<1>2. h0 \in [UPCalls -> Nat] /\ t0 \in [UPCalls -> Nat]
  BY <1>1 DEF UPTyped, UPHeld, UPTaken
<1>3. h1 \in [UPCalls -> Nat] /\ t1 \in [UPCalls -> Nat]
  BY <1>1 DEF UPTyped, UPHeld, UPTaken
<1>4. \A c \in UPCalls : c # b => h1[c] = h0[c] /\ t1[c] = t0[c]
  BY <1>1 DEF UPHeld, UPTaken
<1>5. /\ h0[b] <= SumFunction(h0)
      /\ SumFunction(h1) = SumFunction(h0) - h0[b] + h1[b]
  BY <1>2, <1>3, <1>4, UPAssumption, SumChange
<1>6. SumFunction(t0) \in Nat /\ SumFunction(t1) = SumFunction(t0) - t0[b] + t1[b]
  BY <1>2, <1>3, <1>4, UPAssumption, SumChange
<1>7. h0[b] = UPHeld(b) /\ h1[b] = UPHeld(b)' /\ t0[b] = UPTaken(b) /\ t1[b] = UPTaken(b)'
  BY <1>1
<1> QED BY <1>1, <1>5, <1>6, <1>7 DEF UPMoney

\* A step leaves a call it does not touch as sound as it was.
LEMMA UPUntouched ==
    ASSUME NEW c \in UPCalls, UPCallSound(c),
           upPc'[c] = upPc[c] /\ upCeiling'[c] = upCeiling[c] /\ upSigned'[c] = upSigned[c],
           upMoved'[c] = upMoved[c] /\ upHeader'[c] = upHeader[c] /\ upReceipt'[c] = upReceipt[c]
    PROVE  UPCallSound(c)'
BY DEF UPCallSound

\* Nothing is queued or started, and the head of the queue stays as it was.
LEMMA UPOrderUntouched ==
    ASSUME UPOrdered, UNCHANGED <<upQueue, upAsked, upRan>>, UPOnTheWay' = UPOnTheWay
    PROVE  UPOrdered'
BY DEF UPOrdered

\* A call that is not in the queue may change its step without entering the queue.
LEMMA UPQueueUntouched ==
    ASSUME UPTyped, UPQueueSound, NEW b \in UPCalls, UNCHANGED <<upQueue, upRan>>, NEW to \in UPPcs,
           upPc' = [upPc EXCEPT ![b] = to], upPc[b] \notin {"queued", "sent"}, to \notin {"queued", "sent"},
           upPc[b] = "answered" => to \in {"done", "released"}, upPc[b] \notin {"done", "released"}
    PROVE  UPQueueSound' /\ UPOnTheWay' = UPOnTheWay
<1>1. \A i \in 1..Len(upQueue) : upQueue[i] \in UPCalls /\ upQueue[i] # b
  BY DEF UPQueueSound
<1>2. \A i \in 1..Len(upRan) : upRan[i] \in UPCalls /\ (upRan[i] = b => upPc[b] = "answered" /\ to \in {"done", "released"})
  BY DEF UPQueueSound
<1>3. \A c \in UPCalls : upPc'[c] = IF c = b THEN to ELSE upPc[c]
  BY DEF UPTyped
<1>4. \A i \in 1..Len(upQueue) : upPc'[upQueue[i]] = upPc[upQueue[i]]
  BY <1>1, <1>3
<1>5. \A i \in 1..Len(upRan) : upPc'[upRan[i]] \in {"sent", "answered", "done", "released"}
  BY <1>2, <1>3 DEF UPQueueSound
<1>6. \A c \in UPCalls : upPc'[c] \in {"queued", "sent"} => upPc[c] \in {"queued", "sent"}
  BY <1>3
<1>7. upQueue' = upQueue /\ upRan' = upRan
  OBVIOUS
<1>8. \A i \in 1..Len(upQueue) : /\ upPc'[upQueue[i]] \in {"queued", "sent"}
                                 /\ i # 1 => upPc'[upQueue[i]] = "queued"
  BY <1>4 DEF UPQueueSound
<1>9. \A c \in UPCalls : upPc'[c] \in {"queued", "sent"} => \E i \in 1..Len(upQueue) : upQueue[i] = c
  BY <1>6 DEF UPQueueSound
<1>10. /\ upQueue \in Seq(UPCalls) /\ upRan \in Seq(UPCalls)
       /\ \A i, j \in 1..Len(upQueue) : upQueue[i] = upQueue[j] => i = j
       /\ \A i, j \in 1..Len(upRan) : upRan[i] = upRan[j] => i = j
  BY DEF UPQueueSound
<1>11. /\ upQueue' \in Seq(UPCalls) /\ upRan' \in Seq(UPCalls)
       /\ \A i, j \in 1..Len(upQueue') : upQueue'[i] = upQueue'[j] => i = j
       /\ \A i, j \in 1..Len(upRan') : upRan'[i] = upRan'[j] => i = j
  BY ONLY <1>7, <1>10
<1>12. \A i \in 1..Len(upQueue') : /\ upPc'[upQueue'[i]] \in {"queued", "sent"}
                                   /\ i # 1 => upPc'[upQueue'[i]] = "queued"
  BY ONLY <1>7, <1>8
<1>13. \A c \in UPCalls : upPc'[c] \in {"queued", "sent"} => \E i \in 1..Len(upQueue') : upQueue'[i] = c
  BY ONLY <1>7, <1>9
<1>14. \A i \in 1..Len(upRan') : upPc'[upRan'[i]] \in {"sent", "answered", "done", "released"}
  BY ONLY <1>5, <1>7
<1>15. UPQueueSound'
  BY ONLY <1>11, <1>12, <1>13, <1>14, Zenon DEF UPQueueSound
<1>16. UPOnTheWay' = UPOnTheWay
  <2>1. Len(upQueue) \in Nat
    BY <1>10
  <2>2. Len(upQueue) # 0 => upPc'[upQueue[1]] = upPc[upQueue[1]]
    BY <1>4, <2>1
  <2> QED BY <1>7, <2>2 DEF UPOnTheWay
<1> QED BY <1>15, <1>16

\* The offer is checked and its ceiling reserved.
LEMMA UPStartPreserves ==
    ASSUME UPInd, NEW b \in UPCalls, UPStart(b)
    PROVE  UPInd'
<1>1. PICK r \in UPOffers :
        LET ok == UPRequirementOk(r) /\ UPFits(r.amount) IN
        /\ upPc' = [upPc EXCEPT ![b] = IF ok THEN "reserved" ELSE "refused"]
        /\ upCeiling' = [upCeiling EXCEPT ![b] = IF ok THEN r.amount ELSE 0]
        /\ upReserved' = IF ok THEN upReserved + r.amount ELSE upReserved
  BY DEF UPStart
<1>2. PICK a, to : /\ to \in {"reserved", "refused"} /\ a \in Nat /\ (to = "refused" => a = 0)
                   /\ upPc' = [upPc EXCEPT ![b] = to] /\ upCeiling' = [upCeiling EXCEPT ![b] = a]
                   /\ upReserved' = upReserved + a /\ upSpent + upReserved + a <= UPBudget
  <2>1. CASE UPRequirementOk(r) /\ UPFits(r.amount)
    <3>1. r.amount \in UPCeilings \cup {UPBad, 1}
      BY DEF UPOffers, UPOffer
    <3>2. r.amount \in Nat
      <4>1. r.amount # UPBad
        BY <2>1 DEF UPRequirementOk
      <4>2. r.amount \in UPCeilings \/ r.amount = 1
        BY <3>1, <4>1
      <4>3. UPCeilings \subseteq Nat
        BY UPAssumption
      <4>4. PICK x : x = r.amount
        OBVIOUS
      <4>5. x \in UPCeilings \/ x = 1
        BY <4>2, <4>4
      <4>6. x \in Nat
        <5>1. CASE x \in UPCeilings
          BY <4>3, <5>1, Zenon
        <5>2. CASE x = 1
          BY <5>2
        <5> QED BY <4>5, <5>1, <5>2
      <4> QED BY <4>4, <4>6
    <3> QED BY <1>1, <2>1, <3>2 DEF UPFits
  <2>2. CASE ~(UPRequirementOk(r) /\ UPFits(r.amount))
    <3>1. /\ upPc' = [upPc EXCEPT ![b] = "refused"] /\ upCeiling' = [upCeiling EXCEPT ![b] = 0]
          /\ upReserved' = upReserved
      BY <1>1, <2>2
    <3>2. upReserved + 0 = upReserved /\ upSpent + upReserved + 0 <= UPBudget
      BY UPAssumption DEF UPInd, UPTyped, UPMoney
    <3> QED BY <3>1, <3>2
  <2> QED BY <2>1, <2>2
<1>3. /\ upPc[b] = "idle"
      /\ UNCHANGED <<upSigned, upQueue, upTail, upAsked, upRan, upMoved, upHeader, upReceipt, upSpent, upProbe>>
  BY DEF UPStart
<1>4. UPTyped'
  BY <1>2, <1>3 DEF UPInd, UPTyped, UPPcs
<1>5. UPMoney'
  <2>1. /\ SumFunction([c \in UPCalls |-> UPHeld(c)])' = upReserved - UPHeld(b) + UPHeld(b)'
        /\ SumFunction([c \in UPCalls |-> UPTaken(c)])'
              = SumFunction([c \in UPCalls |-> UPTaken(c)]) - UPTaken(b) + UPTaken(b)'
        /\ SumFunction([c \in UPCalls |-> UPTaken(c)]) \in Nat
    BY <1>2, <1>3, <1>4, UPSumsChange DEF UPInd, UPTyped
  <2>2. UPHeld(b) = 0 /\ UPHeld(b)' = a /\ UPTaken(b) = 0 /\ UPTaken(b)' = 0
    BY <1>2, <1>3 DEF UPInd, UPTyped, UPHeld, UPTaken
  <2> QED BY <1>2, <1>3, <2>1, <2>2, UPAssumption DEF UPInd, UPTyped, UPMoney
<1>6. ASSUME NEW c \in UPCalls PROVE UPCallSound(c)'
  <2>1. CASE c = b
    BY <1>2, <1>3, <2>1 DEF UPInd, UPTyped, UPCallSound
  <2>2. CASE c # b
    BY <1>2, <1>3, <2>2, UPUntouched DEF UPInd, UPTyped
  <2> QED BY <2>1, <2>2
<1>7. UPQueueSound' /\ UPOrdered'
  <2>1. to \in UPPcs /\ to \notin {"queued", "sent"}
    BY <1>2 DEF UPPcs
  <2>2. UPQueueSound' /\ UPOnTheWay' = UPOnTheWay
    BY <1>2, <1>3, <2>1, UPQueueUntouched DEF UPInd
  <2> QED BY <1>3, <2>2, UPOrderUntouched DEF UPInd
<1> QED BY <1>4, <1>5, <1>6, <1>7 DEF UPInd

\* A settlement is recorded.
LEMMA UPRecordPreserves ==
    ASSUME UPInd, NEW b \in UPCalls, UPRecord(b)
    PROVE  UPInd'
<1>1. PICK receipt, to :
        /\ receipt = UPReceiptFrom(upHeader[b], upCeiling[b])
        /\ upReceipt' = [upReceipt EXCEPT ![b] = receipt]
        /\ to \in {"done", "released"} /\ upPc' = [upPc EXCEPT ![b] = to]
  BY DEF UPRecord
<1>2. /\ upPc[b] = "answered" /\ upSpent' = upSpent + UPDebit(upHeader[b], upCeiling[b])
      /\ upReserved' = IF upReserved >= upCeiling[b] THEN upReserved - upCeiling[b] ELSE 0
      /\ UNCHANGED <<upCeiling, upSigned, upQueue, upTail, upAsked, upRan, upMoved, upHeader, upProbe>>
  BY DEF UPRecord, UPDrop
<1>3. PICK debit \in Nat : /\ debit = UPDebit(upHeader[b], upCeiling[b]) /\ debit <= upCeiling[b]
                           /\ ~UPUnderReports(upHeader[b], upMoved[b]) => upMoved[b] <= debit
  <2>1. /\ upMoved[b] \in Nat /\ upCeiling[b] \in Nat /\ upMoved[b] <= upCeiling[b]
        /\ upHeader[b] = UPNone \/ upHeader[b] \in UPHeaders(upCeiling[b])
    BY <1>2 DEF UPInd, UPTyped, UPCallSound
  <2>2. PICK m, k, h : m = upMoved[b] /\ k = upCeiling[b] /\ h = upHeader[b]
    OBVIOUS
  <2>3. UPDebit(h, k) \in Nat /\ UPDebit(h, k) <= k /\ (~UPUnderReports(h, m) => m <= UPDebit(h, k))
    BY <2>1, <2>2, UPDebitCovers
  <2> QED BY <2>2, <2>3
<1>4. UPTyped'
  <2>1. upReserved' \in Nat /\ upSpent' \in Nat
    BY <1>1, <1>2, <1>3 DEF UPInd, UPTyped
  <2> QED BY <1>1, <1>2, <2>1 DEF UPInd, UPTyped, UPPcs
<1>5. UPMoney'
  <2>1. /\ UPHeld(b) <= upReserved
        /\ SumFunction([c \in UPCalls |-> UPHeld(c)])' = upReserved - UPHeld(b) + UPHeld(b)'
        /\ SumFunction([c \in UPCalls |-> UPTaken(c)])'
              = SumFunction([c \in UPCalls |-> UPTaken(c)]) - UPTaken(b) + UPTaken(b)'
        /\ SumFunction([c \in UPCalls |-> UPTaken(c)]) \in Nat
    BY <1>1, <1>2, <1>4, UPSumsChange DEF UPInd, UPTyped
  <2>2. /\ UPHeld(b) = upCeiling[b] /\ UPHeld(b)' = 0 /\ UPTaken(b) = 0
        /\ UPTaken(b)' = IF UPUnderReports(upHeader[b], upMoved[b]) THEN 0 ELSE upMoved[b]
    BY <1>1, <1>2 DEF UPInd, UPTyped, UPHeld, UPTaken
  <2>3. upReserved' = upReserved - upCeiling[b] /\ upSpent' = upSpent + debit
    BY <1>1, <1>2, <1>3, <2>1, <2>2
  <2>4. upCeiling[b] \in Nat /\ upMoved[b] \in Nat /\ upReserved \in Nat /\ upSpent \in Nat
    BY DEF UPInd, UPTyped
  <2>5. UPTaken(b)' \in Nat /\ UPTaken(b)' <= debit
    BY <1>3, <2>2, <2>4
  <2> QED BY <1>3, <2>1, <2>2, <2>3, <2>4, <2>5, UPAssumption DEF UPInd, UPMoney
<1>6. ASSUME NEW c \in UPCalls PROVE UPCallSound(c)'
  <2>1. CASE c = b
    BY <1>1, <1>2, <2>1 DEF UPInd, UPTyped, UPCallSound
  <2>2. CASE c # b
    BY <1>1, <1>2, <2>2, UPUntouched DEF UPInd, UPTyped
  <2> QED BY <2>1, <2>2
<1>7. UPQueueSound' /\ UPOrdered'
  <2>1. UPQueueSound' /\ UPOnTheWay' = UPOnTheWay
    BY <1>1, <1>2, UPQueueUntouched DEF UPInd, UPPcs
  <2> QED BY <1>2, <2>1, UPOrderUntouched DEF UPInd
<1> QED BY <1>4, <1>5, <1>6, <1>7 DEF UPInd

\* The entries are built and the call is queued, or its reservation dropped.
LEMMA UPBuildPreserves ==
    ASSUME UPInd, NEW b \in UPCalls, UPBuild(b)
    PROVE  UPInd'
<1>1. PICK sim :
        LET own == UPOwn(sim)
            ok  == own # {} /\ \A e \in own : UPExpected(e, upCeiling[b])
        IN  /\ upPc' = [upPc EXCEPT ![b] = IF ok THEN "queued" ELSE "refused"]
            /\ upSigned' = [upSigned EXCEPT ![b] = IF ok THEN own ELSE {}]
            /\ upQueue' = IF ok THEN Append(upQueue, b) ELSE upQueue
            /\ upAsked' = IF ok THEN Append(upAsked, b) ELSE upAsked
            /\ IF ok THEN UNCHANGED upReserved ELSE UPDrop(upCeiling[b])
  BY DEF UPBuild
<1>2. /\ upPc[b] = "reserved"
      /\ UNCHANGED <<upCeiling, upTail, upRan, upMoved, upHeader, upReceipt, upSpent, upProbe>>
  BY DEF UPBuild
<1>3. PICK signed, to :
        /\ signed \subseteq {UPEntry(upCeiling[b])}
        /\ upPc' = [upPc EXCEPT ![b] = to] /\ upSigned' = [upSigned EXCEPT ![b] = signed]
        /\ \/ /\ to = "queued" /\ upQueue' = Append(upQueue, b) /\ upAsked' = Append(upAsked, b)
              /\ upReserved' = upReserved
           \/ /\ to = "refused" /\ upQueue' = upQueue /\ upAsked' = upAsked
              /\ upReserved' = IF upReserved >= upCeiling[b] THEN upReserved - upCeiling[b] ELSE 0
  <2> DEFINE own == UPOwn(sim)
  <2>1. CASE own # {} /\ \A e \in own : UPExpected(e, upCeiling[b])
    <3>1. own \subseteq {UPEntry(upCeiling[b])}
      BY <2>1 DEF UPExpected
    <3> HIDE DEF own
    <3>2. /\ upPc' = [upPc EXCEPT ![b] = "queued"] /\ upSigned' = [upSigned EXCEPT ![b] = own]
          /\ upQueue' = Append(upQueue, b) /\ upAsked' = Append(upAsked, b) /\ upReserved' = upReserved
      BY <1>1, <2>1 DEF own
    <3> QED BY <3>1, <3>2
  <2>2. CASE ~(own # {} /\ \A e \in own : UPExpected(e, upCeiling[b]))
    <3>1. /\ upPc' = [upPc EXCEPT ![b] = "refused"] /\ upSigned' = [upSigned EXCEPT ![b] = {}]
          /\ upQueue' = upQueue /\ upAsked' = upAsked
          /\ upReserved' = IF upReserved >= upCeiling[b] THEN upReserved - upCeiling[b] ELSE 0
      BY <1>1, <2>2 DEF UPDrop
    <3> QED BY <3>1
  <2> QED BY <2>1, <2>2
<1>4. UPTyped'
  <2>1. upReserved' \in Nat
    BY <1>3 DEF UPInd, UPTyped
  <2> QED BY <1>2, <1>3, <2>1 DEF UPInd, UPTyped, UPPcs
<1>5. UPMoney'
  <2>1. /\ UPHeld(b) <= upReserved
        /\ SumFunction([c \in UPCalls |-> UPHeld(c)])' = upReserved - UPHeld(b) + UPHeld(b)'
        /\ SumFunction([c \in UPCalls |-> UPTaken(c)])'
              = SumFunction([c \in UPCalls |-> UPTaken(c)]) - UPTaken(b) + UPTaken(b)'
        /\ SumFunction([c \in UPCalls |-> UPTaken(c)]) \in Nat
    BY <1>2, <1>3, <1>4, UPSumsChange DEF UPInd, UPTyped
  <2>2. /\ UPHeld(b) = upCeiling[b] /\ UPTaken(b) = 0 /\ UPTaken(b)' = 0
        /\ UPHeld(b)' = IF to = "queued" THEN upCeiling[b] ELSE 0
    BY <1>2, <1>3 DEF UPInd, UPTyped, UPHeld, UPTaken
  <2>3. upReserved' = upReserved - UPHeld(b) + UPHeld(b)' /\ upReserved' <= upReserved
    BY <1>3, <2>1, <2>2 DEF UPInd, UPTyped
  <2>4. upReserved \in Nat /\ upReserved' \in Nat /\ upSpent \in Nat
    BY <1>4 DEF UPInd, UPTyped
  <2> QED BY <1>2, <2>1, <2>2, <2>3, <2>4, UPAssumption DEF UPInd, UPMoney
<1>6. ASSUME NEW c \in UPCalls PROVE UPCallSound(c)'
  <2>1. CASE c = b
    BY <1>2, <1>3, <2>1 DEF UPInd, UPTyped, UPCallSound
  <2>2. CASE c # b
    BY <1>2, <1>3, <2>2, UPUntouched DEF UPInd, UPTyped
  <2> QED BY <2>1, <2>2
<1>7. UPQueueSound' /\ UPOrdered'
  <2>1. CASE to = "refused"
    <3>1. to \in UPPcs /\ UNCHANGED <<upQueue, upAsked, upRan>> /\ to \notin {"queued", "sent"}
      BY <1>2, <1>3, <2>1 DEF UPPcs
    <3>2. UPQueueSound' /\ UPOnTheWay' = UPOnTheWay
      BY <1>2, <1>3, <3>1, UPQueueUntouched DEF UPInd
    <3> QED BY <3>1, <3>2, UPOrderUntouched DEF UPInd
  <2>2. CASE to = "queued"
    <3> DEFINE n == Len(upQueue)
    <3>1. upQueue \in Seq(UPCalls) /\ n \in Nat /\ upRan \in Seq(UPCalls)
      BY DEF UPInd, UPQueueSound
    <3>2. /\ upQueue' \in Seq(UPCalls) /\ Len(upQueue') = n + 1 /\ upQueue'[n + 1] = b
          /\ \A i \in 1..n : upQueue'[i] = upQueue[i]
      <4>1. upQueue' = Append(upQueue, b)
        BY <1>3, <2>2
      <4> QED BY <3>1, <4>1
    <3>3. \A c \in UPCalls : upPc'[c] = IF c = b THEN "queued" ELSE upPc[c]
      BY <1>3, <2>2 DEF UPInd, UPTyped
    <3>4. \A i \in 1..n : upQueue[i] \in UPCalls /\ upQueue[i] # b
      BY <1>2, <3>1 DEF UPInd, UPQueueSound
    <3>5. \A i \in 1..Len(upRan) : upRan[i] \in UPCalls /\ upRan[i] # b
      BY <1>2, <3>1 DEF UPInd, UPQueueSound
    <3> HIDE DEF n
    <3>6. \A i \in 1..(n + 1) : i \in 1..n \/ i = n + 1
      BY <3>1
    <3>7. \A i, j \in 1..n : upQueue[i] = upQueue[j] => i = j
      BY DEF UPInd, UPQueueSound, n
    <3>8. \A i, j \in 1..(n + 1) : upQueue'[i] = upQueue'[j] => i = j
      BY <3>2, <3>4, <3>6, <3>7
    <3>9. \A i \in 1..n : upPc[upQueue[i]] \in {"queued", "sent"} /\ (i # 1 => upPc[upQueue[i]] = "queued")
      BY DEF UPInd, UPQueueSound, n
    <3>10. \A i \in 1..(n + 1) : /\ upPc'[upQueue'[i]] \in {"queued", "sent"}
                                 /\ i # 1 => upPc'[upQueue'[i]] = "queued"
      BY <3>2, <3>3, <3>4, <3>6, <3>9
    <3>11. \A c \in UPCalls : upPc'[c] \in {"queued", "sent"} => \E i \in 1..(n + 1) : upQueue'[i] = c
      <4> SUFFICES ASSUME NEW c \in UPCalls, upPc'[c] \in {"queued", "sent"}
                   PROVE  \E i \in 1..(n + 1) : upQueue'[i] = c
        OBVIOUS
      <4>1. CASE c = b
        BY <3>1, <3>2, <4>1
      <4>2. CASE c # b
        <5>1. PICK i \in 1..n : upQueue[i] = c
          BY <3>3, <4>2 DEF UPInd, UPQueueSound, n
        <5> QED BY <3>1, <3>2, <5>1
      <4> QED BY <4>1, <4>2
    <3>12. \A i \in 1..Len(upRan) : upPc'[upRan[i]] \in {"sent", "answered", "done", "released"}
      BY <3>3, <3>5 DEF UPInd, UPQueueSound
    <3>13. UPQueueSound'
      BY <1>2, <3>2, <3>8, <3>10, <3>11, <3>12 DEF UPInd, UPQueueSound
    <3> DEFINE k == Len(upAsked)
    <3>14. /\ upAsked \in Seq(UPCalls) /\ k \in Nat
           /\ k = Len(upRan) + n - UPOnTheWay /\ UPOnTheWay <= Len(upRan)
           /\ \A i \in 1..Len(upRan) : upRan[i] = upAsked[i]
           /\ \A i \in 1..n : upAsked[k - n + i] = upQueue[i]
      BY DEF UPInd, UPOrdered, n
    <3>15. /\ upAsked' \in Seq(UPCalls) /\ Len(upAsked') = k + 1 /\ upAsked'[k + 1] = b
           /\ \A i \in 1..k : upAsked'[i] = upAsked[i]
      <4>1. upAsked' = Append(upAsked, b)
        BY <1>3, <2>2
      <4> QED BY <3>14, <4>1
    <3>16. UPOnTheWay' = UPOnTheWay /\ UPOnTheWay \in 0..1 /\ (n = 0 => UPOnTheWay = 0)
      <4>1. CASE n = 0
        <5>1. upQueue'[1] = b /\ upPc'[b] = "queued"
          BY <3>2, <3>3, <4>1
        <5> QED BY <4>1, <5>1 DEF UPOnTheWay, n
      <4>2. CASE n # 0
        <5>1. upQueue'[1] = upQueue[1] /\ upPc'[upQueue[1]] = upPc[upQueue[1]]
          BY <3>1, <3>2, <3>3, <3>4, <4>2
        <5>2. Len(upQueue') # 0
          BY <3>1, <3>2
        <5> QED BY <4>2, <5>1, <5>2 DEF UPOnTheWay, n
      <4> QED BY <4>1, <4>2
    <3> HIDE DEF k
    <3>17. Len(upRan) \in Nat /\ Len(upRan) <= k
      BY <3>1, <3>14, <3>16
    <3>18. \A i \in 1..Len(upRan) : upRan[i] = upAsked'[i]
      BY <3>14, <3>15, <3>17
    <3>19. \A i \in 1..(n + 1) : upAsked'[(k + 1) - (n + 1) + i] = upQueue'[i]
      <4> SUFFICES ASSUME NEW i \in 1..(n + 1) PROVE upAsked'[(k + 1) - (n + 1) + i] = upQueue'[i]
        OBVIOUS
      <4>1. CASE i \in 1..n
        <5>1. (k + 1) - (n + 1) + i = k - n + i /\ k - n + i \in 1..k
          <6>1. n <= k
            BY <3>1, <3>14, <3>16, <3>17
          <6>2. k \in Nat /\ n \in Nat
            BY <3>1, <3>14
          <6> QED BY <4>1, <6>1, <6>2
        <5> QED BY <3>2, <3>14, <3>15, <4>1, <5>1
      <4>2. CASE i = n + 1
        <5>1. (k + 1) - (n + 1) + i = k + 1
          BY <3>1, <3>14, <4>2
        <5> QED BY <3>2, <3>15, <4>2, <5>1
      <4> QED BY <3>6, <4>1, <4>2
    <3>20. k + 1 = Len(upRan) + (n + 1) - UPOnTheWay
      <4>1. k = Len(upRan) + n - UPOnTheWay
        BY <3>14
      <4>2. k \in Nat /\ n \in Nat /\ Len(upRan) \in Nat
        BY <3>1, <3>14, <3>17
      <4>3. CASE UPOnTheWay = 0
        BY <4>1, <4>2, <4>3
      <4>4. CASE UPOnTheWay = 1
        BY <4>1, <4>2, <4>4
      <4>5. UPOnTheWay = 0 \/ UPOnTheWay = 1
        BY <3>16
      <4> QED BY <4>3, <4>4, <4>5
    <3>21. UPOrdered'
      BY <1>2, <3>2, <3>14, <3>15, <3>16, <3>18, <3>19, <3>20 DEF UPOrdered
    <3> QED BY <3>13, <3>21
  <2> QED BY <1>3, <2>1, <2>2
<1> QED BY <1>4, <1>5, <1>6, <1>7 DEF UPInd

\* The head of the queue is sent.
LEMMA UPRunPreserves ==
    ASSUME UPInd, UPRun
    PROVE  UPInd'
<1> DEFINE n == Len(upQueue)
           m == Len(upRan)
<1>1. upQueue \in Seq(UPCalls) /\ upQueue # <<>> /\ n \in Nat /\ n # 0 /\ upRan \in Seq(UPCalls) /\ m \in Nat
  BY DEF UPInd, UPQueueSound, UPRun
<1>2. PICK b \in UPCalls : b = Head(upQueue) /\ b = upQueue[1]
  BY <1>1
<1>3. /\ upPc[b] = "queued" /\ upPc' = [upPc EXCEPT ![b] = "sent"] /\ upRan' = Append(upRan, b)
      /\ UNCHANGED <<upCeiling, upSigned, upQueue, upTail, upAsked, upMoved, upHeader, upReceipt,
                     upReserved, upSpent, upProbe>>
  BY <1>2 DEF UPRun
<1>4. UPTyped'
  BY <1>3 DEF UPInd, UPTyped, UPPcs
<1>5. UPMoney'
  <2>1. /\ SumFunction([c \in UPCalls |-> UPHeld(c)])' = upReserved - UPHeld(b) + UPHeld(b)'
        /\ SumFunction([c \in UPCalls |-> UPTaken(c)])'
              = SumFunction([c \in UPCalls |-> UPTaken(c)]) - UPTaken(b) + UPTaken(b)'
        /\ SumFunction([c \in UPCalls |-> UPTaken(c)]) \in Nat
    BY <1>3, <1>4, UPSumsChange DEF UPInd, UPTyped
  <2>2. UPHeld(b) \in Nat /\ UPHeld(b)' = UPHeld(b) /\ UPTaken(b) = 0 /\ UPTaken(b)' = 0
    BY <1>3 DEF UPInd, UPTyped, UPHeld, UPTaken
  <2> QED BY <1>3, <2>1, <2>2 DEF UPInd, UPTyped, UPMoney
<1>6. ASSUME NEW c \in UPCalls PROVE UPCallSound(c)'
  <2>1. CASE c = b
    BY <1>3, <2>1 DEF UPInd, UPTyped, UPCallSound
  <2>2. CASE c # b
    BY <1>3, <2>2, UPUntouched DEF UPInd, UPTyped
  <2> QED BY <2>1, <2>2
<1>7. UPQueueSound' /\ UPOrdered'
  <2>1. \A c \in UPCalls : upPc'[c] = IF c = b THEN "sent" ELSE upPc[c]
    BY <1>3 DEF UPInd, UPTyped
  <2>2. \A i \in 1..n : upQueue[i] \in UPCalls /\ (upQueue[i] = b => i = 1)
    BY <1>1, <1>2 DEF UPInd, UPQueueSound
  <2>3. \A i \in 1..m : upRan[i] \in UPCalls /\ upRan[i] # b
    <3>1. \A i \in 1..m : upPc[upRan[i]] \in {"sent", "answered", "done", "released"}
      BY DEF UPInd, UPQueueSound
    <3>2. \A i \in 1..m : upRan[i] \in UPCalls
      BY <1>1
    <3> QED BY <1>3, <3>1, <3>2
  <2>4. /\ upRan' \in Seq(UPCalls) /\ Len(upRan') = m + 1 /\ upRan'[m + 1] = b
        /\ \A i \in 1..m : upRan'[i] = upRan[i]
    BY <1>1, <1>3
  <2>5. \A i \in 1..n : upPc[upQueue[i]] \in {"queued", "sent"} /\ (i # 1 => upPc[upQueue[i]] = "queued")
    BY DEF UPInd, UPQueueSound
  <2>6. \A i, j \in 1..m : upRan[i] = upRan[j] => i = j
    BY DEF UPInd, UPQueueSound
  <2>7. \A i \in 1..m : upPc[upRan[i]] \in {"sent", "answered", "done", "released"}
    BY DEF UPInd, UPQueueSound
  <2>8. \A c \in UPCalls : upPc[c] \in {"queued", "sent"} => \E i \in 1..n : upQueue[i] = c
    BY DEF UPInd, UPQueueSound
  <2> HIDE DEF n, m
  <2>9. \A i \in 1..(m + 1) : i \in 1..m \/ i = m + 1
    BY <1>1
  <2>10. \A i, j \in 1..(m + 1) : upRan'[i] = upRan'[j] => i = j
    BY <2>3, <2>4, <2>6, <2>9
  <2>11. \A i \in 1..(m + 1) : upPc'[upRan'[i]] \in {"sent", "answered", "done", "released"}
    BY <2>1, <2>3, <2>4, <2>7, <2>9
  <2>12. \A i \in 1..n : /\ upPc'[upQueue[i]] \in {"queued", "sent"}
                         /\ i # 1 => upPc'[upQueue[i]] = "queued"
    BY <2>1, <2>2, <2>5
  <2>13. \A c \in UPCalls : upPc'[c] \in {"queued", "sent"} => \E i \in 1..n : upQueue[i] = c
    BY <1>3, <2>1, <2>8
  <2>14. UPQueueSound'
    BY <1>3, <2>4, <2>10, <2>11, <2>12, <2>13 DEF UPInd, UPQueueSound, n
  <2> DEFINE k == Len(upAsked)
  <2>15. UPOnTheWay = 0 /\ UPOnTheWay' = 1
    <3>1. upPc'[b] = "sent"
      BY <2>1
    <3> QED BY <1>1, <1>2, <1>3, <3>1 DEF UPOnTheWay, n
  <2>16. /\ upAsked \in Seq(UPCalls) /\ k = m + n
         /\ \A i \in 1..m : upRan[i] = upAsked[i]
         /\ \A i \in 1..n : upAsked[k - n + i] = upQueue[i]
    BY <1>1, <2>15 DEF UPInd, UPOrdered, n, m
  <2> HIDE DEF k
  <2>17. upAsked[m + 1] = b
    <3>1. 1 \in 1..n /\ k - n + 1 = m + 1
      BY <1>1, <2>16
    <3> QED BY <1>2, <2>16, <3>1
  <2>18. \A i \in 1..(m + 1) : upRan'[i] = upAsked[i]
    BY <2>4, <2>9, <2>16, <2>17
  <2>19. k = (m + 1) + n - 1 /\ 1 <= m + 1
    BY <1>1, <2>16
  <2>20. UPOrdered'
    BY <1>3, <2>4, <2>15, <2>16, <2>18, <2>19 DEF UPOrdered, n, k
  <2> QED BY <2>14, <2>20
<1> QED BY <1>4, <1>5, <1>6, <1>7 DEF UPInd

\* A settlement ends, answered or lost.
LEMMA UPSettledPreserves ==
    ASSUME UPInd, NEW b \in UPCalls, UPSettled(b)
    PROVE  UPInd'
<1> DEFINE n == Len(upQueue)
<1>1. PICK moved \in UPChain(b) :
        /\ upMoved' = [upMoved EXCEPT ![b] = moved]
        /\ \E h \in UPHeaders(upCeiling[b]) \cup {UPNone} :
              upHeader' = [upHeader EXCEPT ![b] = h] /\ UPEnds(b, h # UPNone)
  BY DEF UPSettled
<1>2. PICK h : /\ h = UPNone \/ h \in UPHeaders(upCeiling[b])
               /\ upHeader' = [upHeader EXCEPT ![b] = h] /\ upQueue' = Tail(upQueue)
  BY <1>1 DEF UPEnds
<1>3. /\ upPc[b] = "sent" /\ upPc' = [upPc EXCEPT ![b] = "answered"]
      /\ UNCHANGED <<upCeiling, upSigned, upAsked, upRan, upReceipt, upReserved, upSpent, upProbe>>
  BY DEF UPSettled
<1>4. moved \in Nat /\ moved <= upCeiling[b] /\ upCeiling[b] \in Nat
  <2>1. PICK e \in upSigned[b] : moved \in 0..e.ceiling
    BY <1>1 DEF UPChain
  <2>2. e = UPEntry(upCeiling[b])
    BY <2>1 DEF UPInd, UPCallSound
  <2>3. e.ceiling = upCeiling[b]
    BY <2>2 DEF UPEntry
  <2>4. upCeiling[b] \in Nat
    BY DEF UPInd, UPTyped
  <2> QED BY <2>1, <2>3, <2>4
<1>5. UPTyped'
  BY <1>1, <1>2, <1>3, <1>4 DEF UPInd, UPTyped, UPPcs
<1>6. UPMoney'
  <2>1. /\ SumFunction([c \in UPCalls |-> UPHeld(c)])' = upReserved - UPHeld(b) + UPHeld(b)'
        /\ SumFunction([c \in UPCalls |-> UPTaken(c)])'
              = SumFunction([c \in UPCalls |-> UPTaken(c)]) - UPTaken(b) + UPTaken(b)'
        /\ SumFunction([c \in UPCalls |-> UPTaken(c)]) \in Nat
    BY <1>1, <1>2, <1>3, <1>5, UPSumsChange DEF UPInd, UPTyped
  <2>2. UPHeld(b) \in Nat /\ UPHeld(b)' = UPHeld(b) /\ UPTaken(b) = 0 /\ UPTaken(b)' = 0
    BY <1>3 DEF UPInd, UPTyped, UPHeld, UPTaken
  <2> QED BY <1>3, <2>1, <2>2 DEF UPInd, UPTyped, UPMoney
<1>7. ASSUME NEW c \in UPCalls PROVE UPCallSound(c)'
  <2>1. CASE c = b
    BY <1>1, <1>2, <1>3, <1>4, <2>1 DEF UPInd, UPTyped, UPCallSound
  <2>2. CASE c # b
    BY <1>1, <1>2, <1>3, <2>2, UPUntouched DEF UPInd, UPTyped
  <2> QED BY <2>1, <2>2
<1>8. UPQueueSound' /\ UPOrdered'
  <2>1. upQueue \in Seq(UPCalls) /\ n \in Nat /\ upRan \in Seq(UPCalls)
    BY DEF UPInd, UPQueueSound
  <2>2. \A i \in 1..n : upPc[upQueue[i]] \in {"queued", "sent"} /\ (i # 1 => upPc[upQueue[i]] = "queued")
    BY DEF UPInd, UPQueueSound
  <2>3. \A c \in UPCalls : upPc[c] \in {"queued", "sent"} => \E i \in 1..n : upQueue[i] = c
    BY DEF UPInd, UPQueueSound
  <2>4. n # 0 /\ upQueue[1] = b
    BY <1>3, <2>1, <2>2, <2>3
  <2>5. /\ upQueue' \in Seq(UPCalls) /\ Len(upQueue') = n - 1
        /\ \A i \in 1..(n - 1) : upQueue'[i] = upQueue[i + 1]
    <3>1. upQueue # <<>>
      BY <2>4
    <3> QED BY <1>2, <2>1, <3>1
  <2>6. \A i, j \in 1..n : upQueue[i] = upQueue[j] => i = j
    BY DEF UPInd, UPQueueSound
  <2>7. \A c \in UPCalls : upPc'[c] = IF c = b THEN "answered" ELSE upPc[c]
    BY <1>3 DEF UPInd, UPTyped
  <2>8. \A i \in 1..n : upQueue[i] \in UPCalls
    BY <2>1
  <2> HIDE DEF n
  <2>9. \A i \in 1..(n - 1) : i + 1 \in 1..n /\ i + 1 # 1
    BY <2>1
  <2>10. \A i, j \in 1..(n - 1) : upQueue'[i] = upQueue'[j] => i = j
    <3> SUFFICES ASSUME NEW i \in 1..(n - 1), NEW j \in 1..(n - 1), upQueue'[i] = upQueue'[j] PROVE i = j
      OBVIOUS
    <3>1. i + 1 = j + 1
      BY <2>5, <2>6, <2>9
    <3> QED BY <2>1, <3>1
  <2>11. \A i \in 1..(n - 1) : upPc'[upQueue'[i]] = "queued"
    <3> SUFFICES ASSUME NEW i \in 1..(n - 1) PROVE upPc'[upQueue'[i]] = "queued"
      OBVIOUS
    <3>1. upQueue'[i] = upQueue[i + 1] /\ upPc[upQueue[i + 1]] = "queued" /\ upQueue[i + 1] \in UPCalls
      BY <2>2, <2>5, <2>8, <2>9
    <3> QED BY <1>3, <2>7, <3>1
  <2>12. \A c \in UPCalls : upPc'[c] \in {"queued", "sent"} => \E i \in 1..(n - 1) : upQueue'[i] = c
    <3> SUFFICES ASSUME NEW c \in UPCalls, upPc'[c] \in {"queued", "sent"}
                 PROVE  \E i \in 1..(n - 1) : upQueue'[i] = c
      OBVIOUS
    <3>1. c # b /\ upPc[c] \in {"queued", "sent"}
      BY <2>7
    <3>2. PICK i \in 1..n : upQueue[i] = c
      BY <2>3, <3>1
    <3>3. i # 1
      BY <2>4, <3>1, <3>2
    <3>4. i - 1 \in 1..(n - 1) /\ (i - 1) + 1 = i
      BY <2>1, <3>3
    <3> QED BY <2>5, <3>2, <3>4
  <2>13. \A i \in 1..Len(upRan) : upPc'[upRan[i]] \in {"sent", "answered", "done", "released"}
    BY <2>1, <2>7 DEF UPInd, UPQueueSound
  <2>14. UPQueueSound'
    BY <1>3, <2>5, <2>10, <2>11, <2>12, <2>13 DEF UPInd, UPQueueSound
  <2> DEFINE k == Len(upAsked)
             m == Len(upRan)
  <2>15. UPOnTheWay = 1
    BY <1>3, <2>4 DEF UPOnTheWay, n
  <2>16. /\ upAsked \in Seq(UPCalls) /\ k \in Nat /\ m \in Nat /\ k = m + n - 1
         /\ \A i \in 1..m : upRan[i] = upAsked[i]
         /\ \A i \in 1..n : upAsked[k - n + i] = upQueue[i]
    <3>1. upAsked \in Seq(UPCalls)
      BY DEF UPInd, UPOrdered
    <3>2. k \in Nat
      BY <3>1
    <3>3. m \in Nat
      BY DEF UPInd, UPQueueSound
    <3>4. k = m + n - UPOnTheWay
      BY DEF UPInd, UPOrdered, n
    <3>5. k = m + n - 1
      BY <2>15, <3>4
    <3>6. \A i \in 1..m : upRan[i] = upAsked[i]
      BY DEF UPInd, UPOrdered
    <3>7. \A i \in 1..n : upAsked[k - n + i] = upQueue[i]
      BY DEF UPInd, UPOrdered, n
    <3> QED BY <3>1, <3>2, <3>3, <3>5, <3>6, <3>7
  <2>17. UPOnTheWay' = 0
    <3>1. CASE n - 1 = 0
      BY <2>5, <3>1 DEF UPOnTheWay
    <3>2. CASE n - 1 # 0
      <4>1. 1 \in 1..(n - 1)
        BY <2>1, <2>4, <3>2
      <4>2. upPc'[upQueue'[1]] = "queued"
        BY <2>11, <4>1
      <4> QED BY <4>2 DEF UPOnTheWay
    <3> QED BY <3>1, <3>2
  <2> HIDE DEF k, m
  <2>18. \A i \in 1..(n - 1) : upAsked[k - (n - 1) + i] = upQueue'[i]
    <3> SUFFICES ASSUME NEW i \in 1..(n - 1) PROVE upAsked[k - (n - 1) + i] = upQueue'[i]
      OBVIOUS
    <3>1. k - (n - 1) + i = k - n + (i + 1) /\ i + 1 \in 1..n
      BY <2>1, <2>16
    <3> QED BY <2>5, <2>16, <3>1
  <2>19. k = m + (n - 1) - 0 /\ 0 <= m
    BY <2>1, <2>16
  <2>20. UPOrdered'
    BY <1>3, <2>5, <2>16, <2>17, <2>18, <2>19 DEF UPOrdered, k, m
  <2> QED BY <2>14, <2>20
<1> QED BY <1>5, <1>6, <1>7, <1>8 DEF UPInd

\* The inductive invariant holds of a new session.
LEMMA UPInitInd == UPInit => UPInd
<1> SUFFICES ASSUME UPInit PROVE UPInd
  OBVIOUS
<1>1. UPTyped
  BY DEF UPInit, UPTyped, UPPcs
<1>2. UPMoney
  <2>1. /\ [b \in UPCalls |-> UPHeld(b)] = [b \in UPCalls |-> 0]
        /\ [b \in UPCalls |-> UPTaken(b)] = [b \in UPCalls |-> 0]
    BY DEF UPInit, UPHeld, UPTaken
  <2>2. SumFunction([b \in UPCalls |-> 0]) = 0
    BY UPAssumption, SumOfZeros
  <2>3. upSpent = 0 /\ upReserved = 0
    BY DEF UPInit
  <2> QED BY <2>1, <2>2, <2>3, UPAssumption DEF UPMoney
<1>3. \A b \in UPCalls : UPCallSound(b)
  BY DEF UPInit, UPCallSound
<1>4. UPQueueSound /\ UPOrdered
  BY DEF UPInit, UPQueueSound, UPOrdered, UPOnTheWay
<1> QED BY <1>1, <1>2, <1>3, <1>4 DEF UPInd

\* It implies what the run checks.
LEMMA UPIndIsSound == UPInd => UPSettlementsAreSound
<1> SUFFICES ASSUME UPInd PROVE UPSettlementsAreSound
  OBVIOUS
<1>1. ASSUME NEW b \in UPCalls, upPc[b] = "done", upReceipt[b] # UPNone, upReceipt[b].source = "facilitator"
      PROVE  upReceipt[b].settled = UPDecodeUpto(upHeader[b], upCeiling[b])
  <2>1. PICK m, k, h, r : m = upMoved[b] /\ k = upCeiling[b] /\ h = upHeader[b] /\ r = upReceipt[b]
    OBVIOUS
  <2>2. /\ m \in Nat /\ k \in Nat /\ m <= k /\ (h = UPNone \/ h \in UPHeaders(k))
        /\ r = UPReceiptFrom(h, k)
    BY <1>1, <2>1 DEF UPInd, UPTyped, UPCallSound
  <2>3. r.settled = UPDecodeUpto(h, k)
    BY <1>1, <2>1, <2>2, UPDebitCovers
  <2> QED BY <2>1, <2>3
<1>2. UPBudgetCoversTheChain
  BY <1>1 DEF UPInd, UPMoney, UPCallSound, UPBudgetCoversTheChain
<1>3. Cardinality({b \in UPCalls : upPc[b] = "sent"}) <= 1
  <2> DEFINE sent == {b \in UPCalls : upPc[b] = "sent"}
  <2>1. \A b \in sent : upQueue[1] = b
    BY DEF UPInd, UPQueueSound
  <2>2. sent = {} \/ sent = {upQueue[1]}
    BY <2>1
  <2> HIDE DEF sent
  <2>3. Cardinality(sent) = 0 \/ Cardinality(sent) = 1
    BY <2>2, FS_EmptySet, FS_Singleton
  <2> QED BY <2>3 DEF sent
<1>4. \A b \in UPCalls : upPc[b] \in {"queued", "sent"} => b \in Range(upQueue)
  BY DEF UPInd, UPQueueSound, Range
<1>5. IsInjective(upRan)
  BY DEF UPInd, UPQueueSound, IsInjective
<1>6. Len(upRan) <= Len(upAsked) /\ \A i \in 1..Len(upRan) : upRan[i] = upAsked[i]
  <2>1. Len(upRan) \in Nat /\ Len(upQueue) \in Nat /\ Len(upAsked) \in Nat
    BY DEF UPInd, UPQueueSound, UPOrdered
  <2>2. UPOnTheWay \in 0..1 /\ (Len(upQueue) = 0 => UPOnTheWay = 0)
    BY DEF UPOnTheWay
  <2> QED BY <2>1, <2>2 DEF UPInd, UPOrdered
<1> QED BY <1>2, <1>3, <1>4, <1>5, <1>6 DEF UPSettlementsAreSound, UPQueueRunsInTurn

LEMMA UPNextInd == UPInd /\ [UPNext]_upVars => UPInd'
<1> SUFFICES ASSUME UPInd, [UPNext]_upVars PROVE UPInd'
  OBVIOUS
<1>1. CASE UPPreflight \/ UNCHANGED upVars
  <2>1. UNCHANGED <<upPc, upCeiling, upSigned, upQueue, upTail, upAsked, upRan, upMoved, upHeader, upReceipt,
                    upReserved, upSpent>>
    BY <1>1 DEF UPPreflight, upVars
  <2>2. UPTyped' /\ UPQueueSound' /\ UPOrdered'
    BY <2>1 DEF UPInd, UPTyped, UPQueueSound, UPOrdered, UPOnTheWay
  <2>3. UPMoney'
    BY <2>1 DEF UPInd, UPMoney, UPHeld, UPTaken
  <2>4. \A c \in UPCalls : UPCallSound(c)'
    BY <2>1, UPUntouched DEF UPInd
  <2> QED BY <2>2, <2>3, <2>4 DEF UPInd
<1> QED BY <1>1, UPRunPreserves, UPStartPreserves, UPBuildPreserves, UPSettledPreserves, UPRecordPreserves DEF UPNext

\* However any number of calls interleave, and whatever a facilitator reports, loses or
\* refuses: reservations and debits stay within the session's ceiling; they cover what
\* the chain moved, except for a call whose answer admits to less; and settlements run
\* one at a time, each once, in the order they were queued (upto-settlement-receipt.ts,
\* upto-buyer.ts), for every budget and set of ceilings.
THEOREM SettlementsAreSound == UPSpec => []UPSettlementsAreSound
BY UPNextInd, UPInitInd, UPIndIsSound, PTL DEF UPSpec

\* One call ends, charged or free, and the others stay as they were.
LEMMA UPStatusChanges ==
    ASSUME UPTyped, NEW b \in UPCalls, NEW to \in UPPcs, upPc' = [upPc EXCEPT ![b] = to]
    PROVE  [c \in UPCalls |-> UPStatus(c)]' = [[c \in UPCalls |-> UPStatus(c)] EXCEPT ![b] =
              CASE to = "done" -> "charged" [] to \in {"refused", "released"} -> "free" [] OTHER -> "open"]
<1> DEFINE new == CASE to = "done" -> "charged" [] to \in {"refused", "released"} -> "free" [] OTHER -> "open"
<1>1. \A c \in UPCalls : UPStatus(c)' = IF c = b THEN new ELSE UPStatus(c)
  <2> SUFFICES ASSUME NEW c \in UPCalls PROVE UPStatus(c)' = IF c = b THEN new ELSE UPStatus(c)
    OBVIOUS
  <2>1. CASE c = b
    <3>1. upPc'[b] = to
      BY DEF UPTyped
    <3> QED BY <2>1, <3>1 DEF UPStatus
  <2>2. CASE c # b
    <3>1. upPc'[c] = upPc[c]
      BY <2>2 DEF UPTyped
    <3> QED BY <2>2, <3>1 DEF UPStatus
  <2> QED BY <2>1, <2>2
<1> HIDE DEF new
<1>2. [c \in UPCalls |-> UPStatus(c)]' = [[c \in UPCalls |-> UPStatus(c)] EXCEPT ![b] = new]
  BY <1>1
<1> QED BY <1>2 DEF new

\* A step of one call that ends nothing, refuses the call, or records its debit.
LEMMA UPOpenStep ==
    ASSUME UPInd, NEW b \in UPCalls, NEW to \in UPPcs, upPc' = [upPc EXCEPT ![b] = to],
           upPc[b] \notin {"done", "released", "refused"}, to # "done", UNCHANGED upSpent
    PROVE  [UPAtomic!Next]_(UPAtomic!vars)
<1> DEFINE status == [c \in UPCalls |-> UPStatus(c)]
           ledger == [a \in {"asset"} |-> upSpent]
<1>1. status[b] = "open"
  BY DEF UPStatus
<1>2. status' = [status EXCEPT ![b] = CASE to = "done" -> "charged" [] to \in {"refused", "released"} -> "free" [] OTHER -> "open"]
  BY UPStatusChanges DEF UPInd
<1>3. ledger' = ledger
  OBVIOUS
<1>4. CASE to \in {"refused", "released"}
  <2>1. status' = [status EXCEPT ![b] = "free"]
    BY <1>2, <1>4
  <2>2. UPAtomic!Refuse(b)
    BY <1>1, <1>3, <2>1 DEF UPAtomic!Refuse
  <2> QED BY <2>2 DEF UPAtomic!Next
<1>5. CASE to \notin {"refused", "released"}
  <2>1. status' = [status EXCEPT ![b] = "open"]
    BY <1>2, <1>5
  <2>2. DOMAIN status = UPCalls /\ status = [c \in UPCalls |-> status[c]]
    OBVIOUS
  <2> HIDE DEF status, ledger
  <2>3. status' = status
    BY <1>1, <2>1, <2>2
  <2> QED BY <1>3, <2>3 DEF UPAtomic!vars, status, ledger
<1> QED BY <1>4, <1>5

\* Recording a settlement charges the call, or frees it when nothing was spent.
LEMMA UPRecordEnds ==
    ASSUME UPInd, UPInd', NEW b \in UPCalls, UPRecord(b)
    PROVE  [UPAtomic!Next]_(UPAtomic!vars)
<1> DEFINE status == [c \in UPCalls |-> UPStatus(c)]
           ledger == [a \in {"asset"} |-> upSpent]
<1>1. upPc[b] = "answered"
  BY DEF UPRecord
<1>2. status[b] = "open"
  BY <1>1 DEF UPStatus
<1>3. PICK m, k, h : m = upMoved[b] /\ k = upCeiling[b] /\ h = upHeader[b]
  OBVIOUS
<1>4. m \in Nat /\ k \in Nat /\ m <= k /\ (h = UPNone \/ h \in UPHeaders(k))
  BY <1>1, <1>3 DEF UPInd, UPTyped, UPCallSound
<1>5. UPDebit(h, k) \in Nat /\ (UPOutcome(h, k) = "not-spent" => UPDebit(h, k) = 0)
  BY <1>4, UPDebitCovers
<1>6. upSpent' = upSpent + UPDebit(h, k) /\ upSpent \in Nat
  BY <1>3 DEF UPRecord, UPInd, UPTyped
<1>7. CASE UPOutcome(h, k) = "not-spent"
  <2>1. upPc' = [upPc EXCEPT ![b] = "released"]
    BY <1>3, <1>7 DEF UPRecord
  <2>2. UNCHANGED upSpent
    BY <1>5, <1>6, <1>7
  <2> QED BY <1>1, <2>1, <2>2, UPOpenStep DEF UPPcs
<1>8. CASE UPOutcome(h, k) # "not-spent"
  <2>1. upPc' = [upPc EXCEPT ![b] = "done"]
    BY <1>3, <1>8 DEF UPRecord
  <2>2. status' = [status EXCEPT ![b] = "charged"]
    <3>1. "done" \in UPPcs
      BY DEF UPPcs
    <3>2. status' = [status EXCEPT ![b] = CASE "done" = "done" -> "charged" [] "done" \in {"refused", "released"} -> "free" [] OTHER -> "open"]
      BY <2>1, <3>1, UPStatusChanges DEF UPInd
    <3> QED BY <3>2
  <2>3. upSpent' \in upSpent..UPBudget
    <3>1. upSpent' + upReserved' <= UPBudget /\ upSpent' \in Nat /\ upReserved' \in Nat
      BY DEF UPInd, UPMoney, UPTyped
    <3> QED BY <1>5, <1>6, <3>1, UPAssumption
  <2>4. ledger'["asset"] \in ledger["asset"]..[a \in {"asset"} |-> UPBudget]["asset"]
    BY <2>3
  <2>5. ledger' = [ledger EXCEPT !["asset"] = ledger'["asset"]]
    OBVIOUS
  <2>6. UPAtomic!Charge(b)
    BY <1>2, <2>2, <2>4, <2>5 DEF UPAtomic!Charge
  <2> QED BY <2>6 DEF UPAtomic!Next
<1> QED BY <1>7, <1>8

LEMMA UPStepRefines == UPInd /\ UPInd' /\ [UPNext]_upVars => [UPAtomic!Next]_(UPAtomic!vars)
<1> SUFFICES ASSUME UPInd, UPInd', [UPNext]_upVars PROVE [UPAtomic!Next]_(UPAtomic!vars)
  OBVIOUS
<1>1. CASE UPPreflight \/ UNCHANGED upVars
  <2>1. UNCHANGED <<upPc, upSpent>>
    BY <1>1 DEF UPPreflight, upVars
  <2>2. \A c \in UPCalls : UPStatus(c)' = UPStatus(c)
    BY <2>1 DEF UPStatus
  <2> QED BY <2>1, <2>2 DEF UPAtomic!vars
<1>2. CASE UPRun
  <2>1. /\ upPc[Head(upQueue)] = "queued" /\ upPc' = [upPc EXCEPT ![Head(upQueue)] = "sent"]
        /\ UNCHANGED upSpent /\ upQueue # <<>>
    BY <1>2 DEF UPRun
  <2>2. Head(upQueue) \in UPCalls
    BY <2>1 DEF UPInd, UPQueueSound
  <2> QED BY <2>1, <2>2, UPOpenStep DEF UPPcs
<1>3. ASSUME NEW b \in UPCalls, UPStart(b) PROVE [UPAtomic!Next]_(UPAtomic!vars)
  <2>1. PICK to \in {"reserved", "refused"} : upPc' = [upPc EXCEPT ![b] = to]
    BY <1>3 DEF UPStart
  <2>2. upPc[b] = "idle" /\ UNCHANGED upSpent
    BY <1>3 DEF UPStart
  <2> QED BY <2>1, <2>2, UPOpenStep DEF UPPcs
<1>4. ASSUME NEW b \in UPCalls, UPBuild(b) PROVE [UPAtomic!Next]_(UPAtomic!vars)
  <2>1. PICK to \in {"queued", "refused"} : upPc' = [upPc EXCEPT ![b] = to]
    BY <1>4 DEF UPBuild
  <2>2. upPc[b] = "reserved" /\ UNCHANGED upSpent
    BY <1>4 DEF UPBuild
  <2> QED BY <2>1, <2>2, UPOpenStep DEF UPPcs
<1>5. ASSUME NEW b \in UPCalls, UPSettled(b) PROVE [UPAtomic!Next]_(UPAtomic!vars)
  <2>1. upPc[b] = "sent" /\ upPc' = [upPc EXCEPT ![b] = "answered"] /\ UNCHANGED upSpent
    BY <1>5 DEF UPSettled
  <2> QED BY <2>1, UPOpenStep DEF UPPcs
<1>6. ASSUME NEW b \in UPCalls, UPRecord(b) PROVE [UPAtomic!Next]_(UPAtomic!vars)
  BY <1>6, UPRecordEnds
<1> QED BY <1>1, <1>2, <1>3, <1>4, <1>5, <1>6 DEF UPNext

\* Reserving the ceiling, signing, queueing and settling what was metered, with any
\* number of calls in flight and any answer lost or false, amount to one atomic
\* check-and-debit per call: the promise the payer makes with its mutex, the session
\* budget keeps without one (upto-settlement-receipt.ts, createSessionBudget).
THEOREM MeteredPaymentsRefineSpendBudget == UPSpec => UPImplementsBudget
<1>1. UPInit => UPAtomic!Init
  BY DEF UPInit, UPAtomic!Init, UPStatus
<1>2. UPSpec => []UPInd
  BY UPInitInd, UPNextInd, PTL DEF UPSpec
<1> QED BY <1>1, <1>2, UPStepRefines, PTL DEF UPSpec, UPImplementsBudget, UPAtomic!Spec

-----------------------------------------------------------------------------
(* The fetch wrappers. *)

\* Where nothing of the round under way is signed yet.
FGUnsigned == {"idle", "probing", "confirming", "first", "sign", "signing", "asked", "sleeping"}

\* Where a wrapper may be, and what it may hold there.
FGShape ==
    /\ fgWrap \in FGWraps \cup {FGNone} /\ fgPc \in FGUnsigned \cup {"signed", "checked", "paid", "done"}
    /\ fgPc = "idle" <=> fgWrap = FGNone
    /\ fgWrap \in FGPlain => fgPc \in {"first", "asked", "sleeping", "done"}
    /\ fgPc \in {"asked", "sleeping"} => fgWrap \in {"read", "write"}
    /\ fgPc \in {"probing", "confirming"} => fgWrap = "confirm"
    /\ fgPc # "done" => fgOut = FGNone
    /\ fgPrice \in Nat /\ fgTries \in Nat /\ fgSigned \in Seq(Nat)
    /\ fgLimit = FGMax \/ (fgLimit = FGLower /\ fgWrap = "lower")

\* What each round signed: one price within its limit.
FGRoundsOk ==
    /\ fgPc \in FGUnsigned /\ fgLimit = FGMax => fgSigned = <<>>
    /\ fgPc \in {"signed", "checked", "paid"} /\ fgLimit = FGMax => fgSigned = <<fgPrice>>
    /\ fgLimit # FGMax => Len(fgSigned) >= 1 /\ (fgPc \in FGUnsigned => Len(fgSigned) = 1)
    /\ Len(fgSigned) <= IF fgLimit = FGMax THEN 1 ELSE 2
    /\ \A i \in 1..Len(fgSigned) : fgSigned[i] <= IF i = 1 THEN FGMax ELSE FGLower
    /\ fgPc \in {"sign", "signing"} => fgPrice <= fgLimit
    /\ fgOut \in {"fallback", "refused", "declined"} /\ fgWrap # "lower" => fgSigned = <<>>

\* Where the payment went.
FGSentOk ==
    /\ fgPc \in FGUnsigned \cup {"signed", "checked"} /\ fgWrap # "lower" => fgSent = {}
    /\ fgWrap = "redirect" => fgSent \subseteq {"seller"}

\* What was reported on the way.
FGEventsOk ==
    /\ fgWrap = "telemetry" /\ fgPc # "done" => fgEvents = <<>>
    /\ fgWrap = "telemetry" /\ fgPc = "done" => fgEvents = IF fgOut = "settled" THEN fgSigned ELSE <<>>
    /\ fgWrap = FGNone => fgEvents = <<>>
    /\ fgWrap = "trace" =>
          /\ fgPc = "first" => fgEvents = <<>>
          /\ fgPc \in {"sign", "signing"} => fgEvents = <<"discovery", "quote">>
          /\ fgPc \in {"signed", "checked", "paid"} => fgEvents = <<"discovery", "quote", "sign">>
          /\ fgPc = "done" => fgEvents \in {<<>>, <<"discovery">>, <<"discovery", "quote">>,
                                            <<"discovery", "quote", "sign failed">>, <<"discovery", "quote", "sign">>,
                                            <<"discovery", "quote", "sign", "submit", "settlement">>}

\* Redirects followed, and attempts made.
FGTriesOk ==
    /\ fgWrap = "redirect" => fgTries <= FGHops
    /\ fgPc \in {"idle", "probing", "confirming"} => fgTries = 0
    /\ fgWrap \in {"read", "write"} =>
          IF fgPc \in {"asked", "done"} THEN fgTries <= FGMaxAttempts ELSE fgTries < FGMaxAttempts

FGInd == FGShape /\ FGRoundsOk /\ FGSentOk /\ FGEventsOk /\ FGTriesOk

\* Sequences of one length with the same elements.
LEMMA FGSameElements ==
    ASSUME NEW S, NEW s \in Seq(S), NEW t \in Seq(S), Len(s) = Len(t), \A i \in 1..Len(s) : s[i] = t[i]
    PROVE  s = t
OBVIOUS

\* Three steps of a trace.
LEMMA FGThirdStep ==
    ASSUME NEW a, NEW b, NEW c
    PROVE  <<a, b>> \o <<c>> = <<a, b, c>>
<1> DEFINE s == <<a, b>> \o <<c>>
           t == <<a, b, c>>
           S == {a, b, c}
<1>1. <<a, b>> \in Seq(S) /\ <<c>> \in Seq(S)
  OBVIOUS
<1>2. s \in Seq(S) /\ t \in Seq(S) /\ Len(s) = 3 /\ Len(t) = 3
  BY <1>1
<1>3. s[1] = a /\ s[2] = b /\ s[3] = c
  BY <1>1
<1>4. \A i \in 1..3 : i = 1 \/ i = 2 \/ i = 3
  OBVIOUS
<1>5. \A i \in 1..3 : s[i] = t[i]
  BY <1>3, <1>4
<1> HIDE DEF s, t, S
<1> QED BY <1>2, <1>5, FGSameElements DEF s, t

\* Five steps of a trace.
LEMMA FGLastSteps ==
    ASSUME NEW a, NEW b, NEW c, NEW d, NEW e
    PROVE  <<a, b, c>> \o <<d, e>> = <<a, b, c, d, e>>
<1> DEFINE s == <<a, b, c>> \o <<d, e>>
           t == <<a, b, c, d, e>>
           S == {a, b, c, d, e}
<1>1. <<a, b, c>> \in Seq(S) /\ <<d, e>> \in Seq(S)
  OBVIOUS
<1>2. s \in Seq(S) /\ t \in Seq(S) /\ Len(s) = 5 /\ Len(t) = 5
  BY <1>1
<1>3. s[1] = a /\ s[2] = b /\ s[3] = c /\ s[4] = d /\ s[5] = e
  BY <1>1
<1>4. \A i \in 1..5 : i = 1 \/ i = 2 \/ i = 3 \/ i = 4 \/ i = 5
  OBVIOUS
<1>5. \A i \in 1..5 : s[i] = t[i]
  BY <1>3, <1>4
<1> HIDE DEF s, t, S
<1> QED BY <1>2, <1>5, FGSameElements DEF s, t

\* A sequence that agrees with the beginning of another is a prefix of it.
LEMMA FGPrefix ==
    ASSUME NEW S, NEW s \in Seq(S), NEW t \in Seq(S), Len(s) <= Len(t), \A i \in 1..Len(s) : s[i] = t[i]
    PROVE  IsPrefix(s, t)
<1> DEFINE a == SubSeq(s, 1, Len(s))
           b == SubSeq(t, 1, Len(s))
<1>1. a \in Seq(S) /\ b \in Seq(S) /\ Len(a) = Len(s) /\ Len(b) = Len(s)
  OBVIOUS
<1>2. \A i \in 1..Len(s) : a[i] = s[i] /\ b[i] = t[i]
  OBVIOUS
<1>3. \A i \in 1..Len(a) : a[i] = b[i]
  BY <1>1, <1>2
<1> HIDE DEF a, b
<1> QED BY <1>1, <1>3, FGSameElements DEF a, b, IsPrefix

\* The beginnings of a sequence of five.
LEMMA FGBeginnings ==
    ASSUME NEW a, NEW b, NEW c, NEW d, NEW e
    PROVE  /\ IsPrefix(<<>>, <<a, b, c, d, e>>) /\ IsPrefix(<<a>>, <<a, b, c, d, e>>)
           /\ IsPrefix(<<a, b>>, <<a, b, c, d, e>>) /\ IsPrefix(<<a, b, c>>, <<a, b, c, d, e>>)
           /\ IsPrefix(<<a, b, c, d, e>>, <<a, b, c, d, e>>) /\ IsPrefix(<<a, b, c>>, <<a, b, c>>)
<1>1. PICK S : S = {a, b, c, d, e}
  OBVIOUS
<1>2. PICK t : t = <<a, b, c, d, e>>
  OBVIOUS
<1>3. t \in Seq(S) /\ Len(t) = 5 /\ t[1] = a /\ t[2] = b /\ t[3] = c
  BY <1>1, <1>2
<1>4. IsPrefix(<<>>, t)
  <2>1. <<>> \in Seq(S) /\ Len(<<>>) = 0 /\ \A i \in 1..0 : FALSE
    OBVIOUS
  <2>2. PICK s : s = <<>>
    OBVIOUS
  <2>3. s \in Seq(S) /\ Len(s) = 0 /\ \A i \in 1..Len(s) : s[i] = t[i]
    BY <2>1, <2>2
  <2>a. Len(s) <= Len(t) /\ t \in Seq(S)
    BY <1>3, <2>3
  <2>4. IsPrefix(s, t)
    BY ONLY <2>3, <2>a, FGPrefix
  <2> QED BY <2>2, <2>4
<1>5. IsPrefix(<<a>>, t)
  <2>1. PICK s : s = <<a>>
    OBVIOUS
  <2>2. s \in Seq(S) /\ Len(s) = 1 /\ s[1] = a /\ \A i \in 1..1 : i = 1
    BY <1>1, <2>1
  <2>3. \A i \in 1..Len(s) : s[i] = t[i]
    BY <1>3, <2>2
  <2>4. IsPrefix(s, t)
    BY ONLY <1>3, <2>2, <2>3, FGPrefix
  <2> QED BY <2>1, <2>4
<1>6. IsPrefix(<<a, b>>, t)
  <2>1. PICK s : s = <<a, b>>
    OBVIOUS
  <2>2. s \in Seq(S) /\ Len(s) = 2 /\ s[1] = a /\ s[2] = b /\ \A i \in 1..2 : i = 1 \/ i = 2
    BY <1>1, <2>1
  <2>3. \A i \in 1..Len(s) : s[i] = t[i]
    BY <1>3, <2>2
  <2>4. IsPrefix(s, t)
    BY ONLY <1>3, <2>2, <2>3, FGPrefix
  <2> QED BY <2>1, <2>4
<1>7. IsPrefix(<<a, b, c>>, t) /\ IsPrefix(<<a, b, c>>, <<a, b, c>>)
  <2>1. PICK s : s = <<a, b, c>>
    OBVIOUS
  <2>2. s \in Seq(S) /\ Len(s) = 3 /\ s[1] = a /\ s[2] = b /\ s[3] = c /\ \A i \in 1..3 : i = 1 \/ i = 2 \/ i = 3
    BY <1>1, <2>1
  <2>3. \A i \in 1..Len(s) : s[i] = t[i]
    BY <1>3, <2>2
  <2>4. IsPrefix(s, t)
    BY ONLY <1>3, <2>2, <2>3, FGPrefix
  <2>5. IsPrefix(s, s)
    BY ONLY <2>2, FGPrefix
  <2> QED BY <2>1, <2>4, <2>5
<1>8. IsPrefix(t, t)
  BY ONLY <1>3, FGPrefix
<1> QED BY <1>2, <1>4, <1>5, <1>6, <1>7, <1>8

\* The traces the invariant names are prefixes of a full one.
LEMMA FGTracesArePrefixes ==
    ASSUME NEW s \in {<<>>, <<"discovery">>, <<"discovery", "quote">>, <<"discovery", "quote", "sign failed">>,
                      <<"discovery", "quote", "sign">>, <<"discovery", "quote", "sign", "submit", "settlement">>}
    PROVE  \E full \in {<<"discovery", "quote", "sign", "submit", "settlement">>,
                        <<"discovery", "quote", "sign failed">>} : IsPrefix(s, full)
<1>1. CASE s = <<"discovery", "quote", "sign failed">>
  <2>1. IsPrefix(s, <<"discovery", "quote", "sign failed">>)
    BY <1>1, FGBeginnings
  <2> QED BY <2>1
<1>2. CASE s # <<"discovery", "quote", "sign failed">>
  <2>1. IsPrefix(s, <<"discovery", "quote", "sign", "submit", "settlement">>)
    BY <1>2, FGBeginnings
  <2> QED BY <2>1
<1> QED BY <1>1, <1>2

\* The first element of a sequence.
LEMMA FGFirstElement ==
    ASSUME NEW p \in Nat
    PROVE  Append(<<>>, p) = <<p>> /\ Len(<<p>>) = 1 /\ <<p>>[1] = p /\ \A i \in 1..1 : i = 1
OBVIOUS


\* The invariant of the wrappers is inductive.
LEMMA FGNextPreserves ==
    ASSUME FGInd, [FGNext]_fgVars
    PROVE  FGInd'
<1> USE FGAssumption DEF FGInd
<1>1. CASE FGCall
  <2>1. FGShape'
    BY <1>1 DEF FGShape, FGWraps, FGPlain, FGUnsigned, FGOutcomes,
       FGCall, FGEnd
  <2>2. FGRoundsOk'
    BY <1>1 DEF FGShape, FGRoundsOk, FGWraps, FGPlain, FGUnsigned, FGOutcomes,
       FGCall, FGEnd
  <2>3. FGSentOk'
    BY <1>1 DEF FGShape, FGSentOk, FGWraps, FGPlain, FGUnsigned, FGOutcomes,
       FGCall, FGEnd
  <2>4. FGEventsOk'
    BY <1>1 DEF FGShape, FGEventsOk, FGWraps, FGPlain, FGUnsigned, FGOutcomes,
       FGCall, FGEnd
  <2>5. FGTriesOk'
    <3>1. fgTries' = fgTries /\ fgWrap = FGNone
      BY <1>1 DEF FGCall
    <3>2. fgTries' = 0
      BY <3>1 DEF FGShape, FGTriesOk
    <3>3. FGMaxAttempts' \in Nat /\ FGMaxAttempts' >= 1
      BY DEF FGMaxAttempts
    <3> QED BY <3>2, <3>3 DEF FGTriesOk
  <2> QED BY <2>1, <2>2, <2>3, <2>4, <2>5
<1>2. CASE FGProbe
  <2>1. FGShape'
    <3>1. fgPrice' \in Nat
      BY <1>2 DEF FGProbe
    <3>2. fgPc' \in {"done", "confirming", "first"} /\ fgWrap = "confirm" /\ (fgPc' # "done" => fgOut' = fgOut)
      BY <1>2 DEF FGProbe, FGEnd, FGShape
    <3> QED BY <1>2, <3>1, <3>2 DEF FGShape, FGPlain, FGUnsigned, FGProbe
  <2>2. FGRoundsOk'
    BY <1>2 DEF FGShape, FGRoundsOk, FGWraps, FGPlain, FGUnsigned, FGOutcomes,
       FGProbe, FGEnd
  <2>3. FGSentOk'
    BY <1>2 DEF FGShape, FGSentOk, FGWraps, FGPlain, FGUnsigned, FGOutcomes,
       FGProbe, FGEnd
  <2>4. FGEventsOk'
    BY <1>2 DEF FGShape, FGEventsOk, FGWraps, FGPlain, FGUnsigned, FGOutcomes,
       FGProbe, FGEnd
  <2>5. FGTriesOk'
    BY <1>2 DEF FGShape, FGTriesOk, FGMaxAttempts, FGWraps, FGPlain, FGUnsigned, FGOutcomes,
       FGProbe, FGEnd
  <2> QED BY <2>1, <2>2, <2>3, <2>4, <2>5
<1>3. CASE FGConfirm
  <2>1. FGShape'
    BY <1>3 DEF FGShape, FGWraps, FGPlain, FGUnsigned, FGOutcomes,
       FGConfirm, FGEnd
  <2>2. FGRoundsOk'
    BY <1>3 DEF FGShape, FGRoundsOk, FGWraps, FGPlain, FGUnsigned, FGOutcomes,
       FGConfirm, FGEnd
  <2>3. FGSentOk'
    BY <1>3 DEF FGShape, FGSentOk, FGWraps, FGPlain, FGUnsigned, FGOutcomes,
       FGConfirm, FGEnd
  <2>4. FGEventsOk'
    BY <1>3 DEF FGShape, FGEventsOk, FGWraps, FGPlain, FGUnsigned, FGOutcomes,
       FGConfirm, FGEnd
  <2>5. FGTriesOk'
    BY <1>3 DEF FGShape, FGTriesOk, FGMaxAttempts, FGWraps, FGPlain, FGUnsigned, FGOutcomes,
       FGConfirm, FGEnd
  <2> QED BY <2>1, <2>2, <2>3, <2>4, <2>5
<1>4. CASE FGFree
  <2>1. FGShape'
    BY <1>4 DEF FGShape, FGWraps, FGPlain, FGUnsigned, FGOutcomes,
       FGFree, FGEnd, FGTrace
  <2>2. FGRoundsOk'
    BY <1>4 DEF FGShape, FGRoundsOk, FGWraps, FGPlain, FGUnsigned, FGOutcomes,
       FGFree, FGEnd, FGTrace
  <2>3. FGSentOk'
    BY <1>4 DEF FGShape, FGSentOk, FGWraps, FGPlain, FGUnsigned, FGOutcomes,
       FGFree, FGEnd, FGTrace
  <2>4. FGEventsOk'
    <3>1. fgPc = "first" /\ fgPc' = "done" /\ fgOut' = "unpaid" /\ fgWrap' = fgWrap /\ fgSigned' = fgSigned
      BY <1>4 DEF FGFree, FGEnd
    <3>2. CASE fgWrap = "trace"
      <4>1. fgEvents' = <<>> \o <<"discovery">>
        BY <1>4, <3>1, <3>2 DEF FGFree, FGTrace, FGEventsOk
      <4>2. fgEvents' = <<"discovery">>
        BY <4>1
      <4>3. fgWrap' = "trace" /\ fgWrap' # FGNone
        BY <3>1, <3>2 DEF FGWraps
      <4> QED BY <3>1, <4>2, <4>3 DEF FGEventsOk
    <3>3. CASE fgWrap # "trace"
      BY <1>4, <3>1, <3>3 DEF FGFree, FGTrace, FGEventsOk, FGShape
    <3> QED BY <3>2, <3>3
  <2>5. FGTriesOk'
    BY <1>4 DEF FGShape, FGTriesOk, FGMaxAttempts, FGWraps, FGPlain, FGUnsigned, FGOutcomes,
       FGFree, FGEnd, FGTrace
  <2> QED BY <2>1, <2>2, <2>3, <2>4, <2>5
<1>5. CASE FGChallenge
  <2>1. FGShape'
    BY <1>5 DEF FGShape, FGWraps, FGPlain, FGUnsigned, FGOutcomes,
       FGChallenge, FGEnd, FGTrace
  <2>2. FGRoundsOk'
    <3>1. /\ fgPc = "first" /\ fgWrap' = fgWrap /\ fgLimit' = fgLimit /\ fgSigned' = fgSigned
          /\ (fgPc' = "done" /\ fgOut' = "refused") \/ (fgPc' = "sign" /\ fgOut' = fgOut /\ fgPrice' <= fgLimit)
      <4>1. fgLimit \in Nat
        BY DEF FGShape
      <4>2. PICK p \in FGPrices : fgPrice' = p /\ IF p > fgLimit THEN FGEnd("refused") ELSE fgPc' = "sign" /\ fgOut' = fgOut
        BY <1>5 DEF FGChallenge
      <4>3. p \in Nat
        OBVIOUS
      <4>4. (fgPc' = "done" /\ fgOut' = "refused") \/ (fgPc' = "sign" /\ fgOut' = fgOut /\ fgPrice' <= fgLimit)
        BY <4>1, <4>2, <4>3 DEF FGEnd
      <4> QED BY <1>5, <4>4 DEF FGChallenge
    <3>2. fgWrap # "lower" => fgSigned = <<>>
      BY <3>1 DEF FGShape, FGRoundsOk, FGUnsigned
    <3> QED BY <3>1, <3>2 DEF FGShape, FGRoundsOk, FGUnsigned, FGOutcomes
  <2>3. FGSentOk'
    BY <1>5 DEF FGShape, FGSentOk, FGWraps, FGPlain, FGUnsigned, FGOutcomes,
       FGChallenge, FGEnd, FGTrace
  <2>4. FGEventsOk'
    <3>1. /\ fgPc = "first" /\ fgWrap' = fgWrap /\ fgSigned' = fgSigned
          /\ (fgPc' = "done" /\ fgOut' = "refused") \/ (fgPc' = "sign" /\ fgOut' = fgOut)
      BY <1>5 DEF FGChallenge, FGEnd
    <3>2. CASE fgWrap = "trace"
      <4>1. fgEvents' = <<>> \o <<"discovery", "quote">>
        BY <1>5, <3>1, <3>2 DEF FGChallenge, FGTrace, FGEventsOk
      <4>2. fgEvents' = <<"discovery", "quote">>
        BY <4>1
      <4>3. fgWrap' = "trace" /\ fgWrap' # FGNone
        BY <3>1, <3>2 DEF FGWraps
      <4> QED BY <3>1, <4>2, <4>3 DEF FGEventsOk
    <3>3. CASE fgWrap # "trace"
      BY <1>5, <3>1, <3>3 DEF FGChallenge, FGTrace, FGEventsOk, FGShape
    <3> QED BY <3>2, <3>3
  <2>5. FGTriesOk'
    BY <1>5 DEF FGShape, FGTriesOk, FGMaxAttempts, FGWraps, FGPlain, FGUnsigned, FGOutcomes,
       FGChallenge, FGEnd, FGTrace
  <2> QED BY <2>1, <2>2, <2>3, <2>4, <2>5
<1>6. CASE FGNothingOffered
  <2>1. FGShape'
    BY <1>6 DEF FGShape, FGWraps, FGPlain, FGUnsigned, FGOutcomes,
       FGNothingOffered, FGEnd
  <2>2. FGRoundsOk'
    BY <1>6 DEF FGShape, FGRoundsOk, FGWraps, FGPlain, FGUnsigned, FGOutcomes,
       FGNothingOffered, FGEnd
  <2>3. FGSentOk'
    BY <1>6 DEF FGShape, FGSentOk, FGWraps, FGPlain, FGUnsigned, FGOutcomes,
       FGNothingOffered, FGEnd
  <2>4. FGEventsOk'
    BY <1>6 DEF FGShape, FGEventsOk, FGWraps, FGPlain, FGUnsigned, FGOutcomes,
       FGNothingOffered, FGEnd
  <2>5. FGTriesOk'
    BY <1>6 DEF FGShape, FGTriesOk, FGMaxAttempts, FGWraps, FGPlain, FGUnsigned, FGOutcomes,
       FGNothingOffered, FGEnd
  <2> QED BY <2>1, <2>2, <2>3, <2>4, <2>5
<1>7. CASE FGRedirect
  <2>0. /\ fgPc \in {"first", "paid"} /\ fgWrap = "redirect" /\ fgWrap' = fgWrap /\ fgTries \in Nat
        /\ \/ fgTries' = fgTries + 1 /\ fgTries < FGHops /\ fgPc' = fgPc /\ fgOut' = fgOut
           \/ fgTries' = fgTries /\ fgPc' = "done"
    BY <1>7 DEF FGRedirect, FGEnd, FGShape
  <2>1. FGShape'
    <3>1. UNCHANGED <<fgPrice, fgSigned, fgLimit>>
      BY <1>7 DEF FGRedirect
    <3>2. fgTries' \in Nat /\ fgPc' \in {"first", "paid", "done"} /\ (fgPc' # "done" => fgOut' = FGNone)
      BY <2>0 DEF FGShape
    <3> QED BY <2>0, <3>1, <3>2 DEF FGShape, FGPlain, FGUnsigned, FGWraps
  <2>2. FGRoundsOk'
    BY <1>7 DEF FGShape, FGRoundsOk, FGWraps, FGPlain, FGUnsigned, FGOutcomes,
       FGRedirect, FGEnd, FGFollows
  <2>3. FGSentOk'
    BY <1>7 DEF FGShape, FGSentOk, FGWraps, FGPlain, FGUnsigned, FGOutcomes,
       FGRedirect, FGEnd, FGFollows
  <2>4. FGEventsOk'
    BY <1>7 DEF FGShape, FGEventsOk, FGWraps, FGPlain, FGUnsigned, FGOutcomes,
       FGRedirect, FGEnd, FGFollows
  <2>5. FGTriesOk'
    BY <2>0 DEF FGTriesOk
  <2> QED BY <2>1, <2>2, <2>3, <2>4, <2>5
<1>8. CASE FGSignStart
  <2>1. FGShape'
    BY <1>8 DEF FGShape, FGWraps, FGPlain, FGUnsigned, FGOutcomes,
       FGSignStart, FGEnd
  <2>2. FGRoundsOk'
    BY <1>8 DEF FGShape, FGRoundsOk, FGWraps, FGPlain, FGUnsigned, FGOutcomes,
       FGSignStart, FGEnd
  <2>3. FGSentOk'
    BY <1>8 DEF FGShape, FGSentOk, FGWraps, FGPlain, FGUnsigned, FGOutcomes,
       FGSignStart, FGEnd
  <2>4. FGEventsOk'
    BY <1>8 DEF FGShape, FGEventsOk, FGWraps, FGPlain, FGUnsigned, FGOutcomes,
       FGSignStart, FGEnd
  <2>5. FGTriesOk'
    BY <1>8 DEF FGShape, FGTriesOk, FGMaxAttempts, FGWraps, FGPlain, FGUnsigned, FGOutcomes,
       FGSignStart, FGEnd
  <2> QED BY <2>1, <2>2, <2>3, <2>4, <2>5
<1>9. CASE FGSignDone
  <2>0. /\ fgPc = "signing" /\ fgWrap' = fgWrap /\ fgLimit' = fgLimit /\ fgPrice' = fgPrice
        /\ fgPc' = "signed" /\ fgOut' = fgOut /\ fgTries' = fgTries
    BY <1>9 DEF FGSignDone
  <2>b. fgSigned' = Append(fgSigned, fgPrice) /\ fgPrice \in Nat /\ fgSigned \in Seq(Nat)
    BY <1>9 DEF FGSignDone, FGShape
  <2>a. /\ fgSigned' \in Seq(Nat) /\ Len(fgSigned') = Len(fgSigned) + 1
        /\ \A i \in 1..Len(fgSigned) : fgSigned'[i] = fgSigned[i]
        /\ fgSigned'[Len(fgSigned) + 1] = fgPrice
    BY ONLY <2>b, AppendProperties
  <2>1. FGShape'
    <3>1. fgTries' \in Nat /\ fgOut' = FGNone
      BY <2>0 DEF FGShape
    <3> QED BY <2>0, <2>a, <2>b, <3>1 DEF FGShape, FGPlain, FGUnsigned, FGWraps
  <2>2. FGRoundsOk'
    <3>1. CASE fgLimit = FGMax
      <4>1. fgSigned = <<>> /\ fgPrice <= FGMax
        BY <2>0, <3>1 DEF FGRoundsOk, FGUnsigned
      <4>2. fgSigned' = <<fgPrice>> /\ Len(fgSigned') = 1 /\ fgSigned'[1] = fgPrice
        <5>1. fgSigned' = Append(<<>>, fgPrice) /\ fgPrice \in Nat
          BY <2>b, <4>1
        <5> QED BY ONLY <5>1, FGFirstElement
      <4>3. \A i \in 1..Len(fgSigned') : i = 1
        BY <4>2
      <4>4. fgOut' \notin {"fallback", "refused", "declined"} /\ fgPc' = "signed"
        BY <2>0 DEF FGShape, FGOutcomes
      <4>5. \A i \in 1..Len(fgSigned') : fgSigned'[i] <= IF i = 1 THEN FGMax ELSE FGLower
        BY <4>1, <4>2, <4>3
      <4>6. fgLimit' = FGMax /\ fgPrice' = fgPrice /\ Len(fgSigned') <= 1
        <5>1. fgLimit' = FGMax /\ fgPrice' = fgPrice
          BY ONLY <2>0, <3>1, Zenon
        <5>2. Len(fgSigned') <= 1
          BY ONLY <4>2
        <5> QED BY <5>1, <5>2
      <4> QED BY <4>2, <4>4, <4>5, <4>6 DEF FGRoundsOk, FGUnsigned
    <3>2. CASE fgLimit # FGMax
      <4>1. fgLimit = FGLower /\ fgWrap = "lower" /\ Len(fgSigned) = 1 /\ fgPrice <= FGLower
        BY <2>0, <3>2 DEF FGRoundsOk, FGUnsigned, FGShape
      <4>2. Len(fgSigned') = 2 /\ fgSigned'[1] <= FGMax /\ fgSigned'[2] <= FGLower
        BY <2>a, <4>1 DEF FGRoundsOk
      <4>3. \A i \in 1..2 : i = 1 \/ i = 2
        OBVIOUS
      <4>4. fgOut' \notin {"fallback", "refused", "declined"} /\ fgPc' = "signed"
        BY <2>0 DEF FGShape, FGOutcomes
      <4>5. \A i \in 1..Len(fgSigned') : fgSigned'[i] <= IF i = 1 THEN FGMax ELSE FGLower
        BY <4>2, <4>3
      <4>6. fgLimit' # FGMax /\ fgWrap' = "lower" /\ Len(fgSigned') <= 2 /\ Len(fgSigned') >= 1
        <5>1. fgLimit' # FGMax /\ fgWrap' = "lower"
          BY ONLY <2>0, <3>2, <4>1, Zenon
        <5>2. Len(fgSigned') <= 2 /\ Len(fgSigned') >= 1
          BY ONLY <4>2
        <5> QED BY <5>1, <5>2
      <4> QED BY <4>4, <4>5, <4>6 DEF FGRoundsOk, FGUnsigned
    <3> QED BY <3>1, <3>2
  <2>3. FGSentOk'
    BY <1>9 DEF FGShape, FGSentOk, FGWraps, FGPlain, FGUnsigned, FGOutcomes,
       FGSignDone, FGEnd, FGTrace
  <2>4. FGEventsOk'
    <3>1. CASE fgWrap = "trace"
      <4>1. fgEvents' = <<"discovery", "quote">> \o <<"sign">>
        BY <1>9, <2>0, <3>1 DEF FGSignDone, FGTrace, FGEventsOk
      <4>2. fgEvents' = <<"discovery", "quote", "sign">>
        BY <4>1, FGThirdStep
      <4>3. fgWrap' = "trace" /\ fgWrap' # FGNone
        BY <2>0, <3>1 DEF FGWraps
      <4> QED BY <2>0, <4>2, <4>3 DEF FGEventsOk
    <3>2. CASE fgWrap # "trace"
      <4>1. fgEvents' = fgEvents
        BY <1>9, <3>2 DEF FGSignDone, FGTrace
      <4>2. fgWrap # FGNone
        BY <2>0 DEF FGShape
      <4>3. CASE fgWrap = "telemetry"
        BY <2>0, <4>1, <4>3 DEF FGEventsOk
      <4> QED BY <2>0, <3>2, <4>2, <4>3 DEF FGEventsOk
    <3> QED BY <3>1, <3>2
  <2>5. FGTriesOk'
    <3>1. fgWrap \notin {"read", "write"}
      BY <2>0 DEF FGShape, FGPlain
    <3> QED BY <2>0, <3>1 DEF FGTriesOk
  <2> QED BY <2>1, <2>2, <2>3, <2>4, <2>5
<1>10. CASE FGSignFails
  <2>1. FGShape'
    BY <1>10 DEF FGShape, FGWraps, FGPlain, FGUnsigned, FGOutcomes,
       FGSignFails, FGEnd, FGTrace
  <2>2. FGRoundsOk'
    BY <1>10 DEF FGShape, FGRoundsOk, FGWraps, FGPlain, FGUnsigned, FGOutcomes,
       FGSignFails, FGEnd, FGTrace
  <2>3. FGSentOk'
    BY <1>10 DEF FGShape, FGSentOk, FGWraps, FGPlain, FGUnsigned, FGOutcomes,
       FGSignFails, FGEnd, FGTrace
  <2>4. FGEventsOk'
    <3>1. fgPc = "signing" /\ fgPc' = "done" /\ fgOut' = "not signed" /\ fgWrap' = fgWrap /\ fgSigned' = fgSigned
      BY <1>10 DEF FGSignFails, FGEnd
    <3>2. CASE fgWrap = "trace"
      <4>1. fgEvents' = <<"discovery", "quote">> \o <<"sign failed">>
        BY <1>10, <3>1, <3>2 DEF FGSignFails, FGTrace, FGEventsOk
      <4>2. fgEvents' = <<"discovery", "quote", "sign failed">>
        BY <4>1, FGThirdStep
      <4>3. fgWrap' = "trace" /\ fgWrap' # FGNone
        BY <3>1, <3>2 DEF FGWraps
      <4> QED BY <3>1, <4>2, <4>3 DEF FGEventsOk
    <3>3. CASE fgWrap # "trace"
      BY <1>10, <3>1, <3>3 DEF FGSignFails, FGTrace, FGEventsOk, FGShape
    <3> QED BY <3>2, <3>3
  <2>5. FGTriesOk'
    BY <1>10 DEF FGShape, FGTriesOk, FGMaxAttempts, FGWraps, FGPlain, FGUnsigned, FGOutcomes,
       FGSignFails, FGEnd, FGTrace
  <2> QED BY <2>1, <2>2, <2>3, <2>4, <2>5
<1>11. CASE FGPaid
  <2>1. FGShape'
    BY <1>11 DEF FGShape, FGWraps, FGPlain, FGUnsigned, FGOutcomes,
       FGPaid, FGEnd, FGCompleted
  <2>2. FGRoundsOk'
    BY <1>11 DEF FGShape, FGRoundsOk, FGWraps, FGPlain, FGUnsigned, FGOutcomes,
       FGPaid, FGEnd, FGCompleted
  <2>3. FGSentOk'
    BY <1>11 DEF FGShape, FGSentOk, FGWraps, FGPlain, FGUnsigned, FGOutcomes,
       FGPaid, FGEnd, FGCompleted
  <2>4. FGEventsOk'
    <3>1. PICK settled \in BOOLEAN :
            /\ fgPc = "paid" /\ fgPc' = "done" /\ fgOut' = (IF settled THEN "settled" ELSE "paid")
            /\ fgEvents' = CASE fgWrap = "trace" -> fgEvents \o <<"submit", "settlement">>
                              [] fgWrap = "telemetry" -> fgEvents \o FGCompleted(settled)
                              [] OTHER -> fgEvents
      BY <1>11 DEF FGPaid, FGEnd
    <3>2. fgWrap' = fgWrap /\ fgSigned' = fgSigned /\ fgWrap # FGNone
      BY <1>11, <3>1 DEF FGPaid, FGShape
    <3>3. CASE fgWrap = "trace"
      <4>1. fgEvents' = <<"discovery", "quote", "sign">> \o <<"submit", "settlement">>
        BY <3>1, <3>3 DEF FGEventsOk
      <4>2. fgEvents' = <<"discovery", "quote", "sign", "submit", "settlement">>
        BY <4>1, FGLastSteps
      <4> QED BY <3>1, <3>2, <3>3, <4>2 DEF FGEventsOk
    <3>4. CASE fgWrap = "telemetry"
      <4>1. fgEvents = <<>> /\ fgSigned = <<fgPrice>> /\ fgPrice \in Nat
        BY <3>1, <3>4 DEF FGEventsOk, FGRoundsOk, FGShape
      <4>2. fgEvents' = fgEvents \o FGCompleted(settled)
        BY <3>1, <3>4
      <4>3. CASE settled
        <5>1. fgEvents' = <<>> \o <<fgPrice>>
          BY <4>1, <4>2, <4>3 DEF FGCompleted
        <5>a. fgEvents' = <<fgPrice>>
          BY <4>1, <5>1
        <5>2. fgEvents' = fgSigned /\ fgOut' = "settled"
          BY <3>1, <4>1, <4>3, <5>a
        <5> QED BY <3>1, <3>2, <3>4, <5>2 DEF FGEventsOk
      <4>4. CASE ~settled
        <5>1. fgEvents' = <<>> \o <<>>
          BY <4>1, <4>2, <4>4 DEF FGCompleted
        <5>2. fgEvents' = <<>> /\ fgOut' = "paid"
          BY <3>1, <4>4, <5>1
        <5> QED BY <3>1, <3>2, <3>4, <5>2 DEF FGEventsOk
      <4> QED BY <4>3, <4>4
    <3> QED BY <3>2, <3>3, <3>4 DEF FGEventsOk
  <2>5. FGTriesOk'
    BY <1>11 DEF FGShape, FGTriesOk, FGMaxAttempts, FGWraps, FGPlain, FGUnsigned, FGOutcomes,
       FGPaid, FGEnd, FGCompleted
  <2> QED BY <2>1, <2>2, <2>3, <2>4, <2>5
<1>12. CASE FGRejected
  <2>0. /\ fgPc = "paid" /\ fgWrap' = fgWrap /\ fgSigned' = fgSigned /\ fgPrice' = fgPrice
        /\ \/ fgWrap = "lower" /\ fgLimit # FGLower /\ fgLimit' = FGLower /\ fgPc' = "first" /\ fgOut' = fgOut
           \/ fgPc' = "done" /\ fgOut' = "rejected" /\ fgLimit' = fgLimit
    BY <1>12 DEF FGRejected, FGEnd
  <2>1. FGShape'
    BY <1>12 DEF FGShape, FGWraps, FGPlain, FGUnsigned, FGOutcomes, FGRejected, FGEnd, FGTrace
  <2>2. FGRoundsOk'
    <3>1. CASE fgPc' = "done"
      BY <2>0, <3>1 DEF FGShape, FGRoundsOk, FGUnsigned
    <3>2. CASE fgPc' = "first"
      <4>1. fgLimit = FGMax /\ fgLimit' = FGLower /\ FGLower # FGMax /\ fgWrap = "lower"
        BY <2>0, <3>2 DEF FGShape
      <4>2. fgSigned = <<fgPrice>> /\ Len(fgSigned) = 1
        BY <2>0, <4>1 DEF FGRoundsOk
      <4> QED BY <2>0, <3>2, <4>1, <4>2 DEF FGRoundsOk
    <3> QED BY <2>0, <3>1, <3>2
  <2>3. FGSentOk'
    BY <1>12 DEF FGShape, FGSentOk, FGWraps, FGPlain, FGUnsigned, FGOutcomes,
       FGRejected, FGEnd, FGTrace
  <2>4. FGEventsOk'
    <3>1. CASE fgWrap = "trace"
      <4>1. fgEvents' = <<"discovery", "quote", "sign">> \o <<"submit", "settlement">>
        BY <1>12, <2>0, <3>1 DEF FGRejected, FGTrace, FGEventsOk
      <4>2. fgEvents' = <<"discovery", "quote", "sign", "submit", "settlement">>
        BY <4>1, FGLastSteps
      <4>3. fgWrap' = "trace" /\ fgWrap' # FGNone
        BY <2>0, <3>1 DEF FGWraps
      <4> QED BY <2>0, <4>2, <4>3 DEF FGEventsOk
    <3>2. CASE fgWrap # "trace"
      <4>1. fgEvents' = fgEvents /\ fgWrap # FGNone
        BY <1>12, <2>0, <3>2 DEF FGRejected, FGTrace, FGShape
      <4> QED BY <2>0, <3>2, <4>1 DEF FGEventsOk
    <3> QED BY <3>1, <3>2
  <2>5. FGTriesOk'
    BY <1>12 DEF FGShape, FGTriesOk, FGMaxAttempts, FGWraps, FGPlain, FGUnsigned, FGOutcomes,
       FGRejected, FGEnd, FGTrace
  <2> QED BY <2>1, <2>2, <2>3, <2>4, <2>5
<1>13. CASE FGAbortError
  <2>1. FGShape'
    BY <1>13 DEF FGShape, FGWraps, FGPlain, FGUnsigned, FGOutcomes,
       FGAbortError, FGEnd
  <2>2. FGRoundsOk'
    BY <1>13 DEF FGShape, FGRoundsOk, FGWraps, FGPlain, FGUnsigned, FGOutcomes,
       FGAbortError, FGEnd
  <2>3. FGSentOk'
    BY <1>13 DEF FGShape, FGSentOk, FGWraps, FGPlain, FGUnsigned, FGOutcomes,
       FGAbortError, FGEnd
  <2>4. FGEventsOk'
    BY <1>13 DEF FGShape, FGEventsOk, FGWraps, FGPlain, FGUnsigned, FGOutcomes,
       FGAbortError, FGEnd
  <2>5. FGTriesOk'
    BY <1>13 DEF FGShape, FGTriesOk, FGMaxAttempts, FGWraps, FGPlain, FGUnsigned, FGOutcomes,
       FGAbortError, FGEnd
  <2> QED BY <2>1, <2>2, <2>3, <2>4, <2>5
<1>14. CASE FGAttempt
  <2>0. /\ fgPc = "asked" /\ fgWrap \in {"read", "write"} /\ fgWrap' = fgWrap /\ fgTries' = fgTries /\ fgTries \in Nat
        /\ FGMaxAttempts \in Nat /\ FGMaxAttempts' = FGMaxAttempts
        /\ \/ fgPc' = "done"
           \/ fgPc' = "sleeping" /\ fgOut' = fgOut /\ fgTries < FGMaxAttempts
    <3>1. fgTries \in Nat /\ FGMaxAttempts \in Nat /\ fgTries' = fgTries /\ fgWrap' = fgWrap
      BY <1>14 DEF FGShape, FGMaxAttempts, FGAttempt
    <3>2. PICK answer \in {"ok", "retryable", "failed"} :
            CASE answer = "ok" -> FGEnd("ok")
              [] answer = "failed" /\ fgAborted -> FGEnd("failed")
              [] answer # "ok" /\ fgTries >= FGMaxAttempts -> FGEnd(answer)
              [] OTHER -> fgPc' = "sleeping" /\ fgOut' = fgOut
      BY <1>14 DEF FGAttempt
    <3>3. fgPc' = "done" \/ (fgPc' = "sleeping" /\ fgOut' = fgOut /\ ~(fgTries >= FGMaxAttempts))
      BY <3>2 DEF FGEnd
    <3>4. fgPc = "asked" /\ fgWrap \in {"read", "write"}
      BY <1>14 DEF FGAttempt, FGShape
    <3> QED BY <3>1, <3>3, <3>4 DEF FGMaxAttempts
  <2>1. FGShape'
    BY <1>14, <2>0 DEF FGShape, FGPlain, FGUnsigned, FGAttempt
  <2>2. FGRoundsOk'
    BY <1>14 DEF FGShape, FGRoundsOk, FGWraps, FGPlain, FGUnsigned, FGOutcomes,
       FGAttempt, FGEnd
  <2>3. FGSentOk'
    BY <1>14 DEF FGShape, FGSentOk, FGWraps, FGPlain, FGUnsigned, FGOutcomes,
       FGAttempt, FGEnd
  <2>4. FGEventsOk'
    BY <1>14 DEF FGShape, FGEventsOk, FGWraps, FGPlain, FGUnsigned, FGOutcomes,
       FGAttempt, FGEnd
  <2>5. FGTriesOk'
    BY <2>0 DEF FGTriesOk
  <2> QED BY <2>1, <2>2, <2>3, <2>4, <2>5
<1>15. CASE FGSlept
  <2>1. FGShape'
    BY <1>15 DEF FGShape, FGWraps, FGPlain, FGUnsigned, FGOutcomes,
       FGSlept, FGEnd
  <2>2. FGRoundsOk'
    BY <1>15 DEF FGShape, FGRoundsOk, FGWraps, FGPlain, FGUnsigned, FGOutcomes,
       FGSlept, FGEnd
  <2>3. FGSentOk'
    BY <1>15 DEF FGShape, FGSentOk, FGWraps, FGPlain, FGUnsigned, FGOutcomes,
       FGSlept, FGEnd
  <2>4. FGEventsOk'
    BY <1>15 DEF FGShape, FGEventsOk, FGWraps, FGPlain, FGUnsigned, FGOutcomes,
       FGSlept, FGEnd
  <2>5. FGTriesOk'
    <3>1. /\ fgTries' = fgTries /\ fgWrap' = fgWrap /\ FGMaxAttempts' = FGMaxAttempts /\ FGMaxAttempts \in Nat
          /\ fgTries \in Nat /\ fgPc = "sleeping" /\ fgPc' = "first"
      BY <1>15 DEF FGSlept, FGMaxAttempts, FGShape
    <3> QED BY <3>1 DEF FGTriesOk
  <2> QED BY <2>1, <2>2, <2>3, <2>4, <2>5
<1>16. CASE FGAnswer
  <2>1. FGShape'
    BY <1>16 DEF FGShape, FGWraps, FGPlain, FGUnsigned, FGOutcomes,
       FGAnswer, FGEnd
  <2>2. FGRoundsOk'
    BY <1>16 DEF FGShape, FGRoundsOk, FGWraps, FGPlain, FGUnsigned, FGOutcomes,
       FGAnswer, FGEnd
  <2>3. FGSentOk'
    BY <1>16 DEF FGShape, FGSentOk, FGWraps, FGPlain, FGUnsigned, FGOutcomes,
       FGAnswer, FGEnd
  <2>4. FGEventsOk'
    BY <1>16 DEF FGShape, FGEventsOk, FGWraps, FGPlain, FGUnsigned, FGOutcomes,
       FGAnswer, FGEnd
  <2>5. FGTriesOk'
    BY <1>16 DEF FGShape, FGTriesOk, FGMaxAttempts, FGWraps, FGPlain, FGUnsigned, FGOutcomes,
       FGAnswer, FGEnd
  <2> QED BY <2>1, <2>2, <2>3, <2>4, <2>5
<1>17. CASE FGTimer
  <2>1. FGShape'
    BY <1>17 DEF FGShape, FGWraps, FGPlain, FGUnsigned, FGOutcomes,
       FGTimer, FGEnd
  <2>2. FGRoundsOk'
    BY <1>17 DEF FGShape, FGRoundsOk, FGWraps, FGPlain, FGUnsigned, FGOutcomes,
       FGTimer, FGEnd
  <2>3. FGSentOk'
    BY <1>17 DEF FGShape, FGSentOk, FGWraps, FGPlain, FGUnsigned, FGOutcomes,
       FGTimer, FGEnd
  <2>4. FGEventsOk'
    BY <1>17 DEF FGShape, FGEventsOk, FGWraps, FGPlain, FGUnsigned, FGOutcomes,
       FGTimer, FGEnd
  <2>5. FGTriesOk'
    BY <1>17 DEF FGShape, FGTriesOk, FGMaxAttempts, FGWraps, FGPlain, FGUnsigned, FGOutcomes,
       FGTimer, FGEnd
  <2> QED BY <2>1, <2>2, <2>3, <2>4, <2>5
<1>18. CASE FGSwitch
  <2>1. FGShape'
    BY <1>18 DEF FGShape, FGWraps, FGPlain, FGUnsigned, FGOutcomes,
       FGSwitch
  <2>2. FGRoundsOk'
    BY <1>18 DEF FGShape, FGRoundsOk, FGWraps, FGPlain, FGUnsigned, FGOutcomes,
       FGSwitch
  <2>3. FGSentOk'
    BY <1>18 DEF FGShape, FGSentOk, FGWraps, FGPlain, FGUnsigned, FGOutcomes,
       FGSwitch
  <2>4. FGEventsOk'
    BY <1>18 DEF FGShape, FGEventsOk, FGWraps, FGPlain, FGUnsigned, FGOutcomes,
       FGSwitch
  <2>5. FGTriesOk'
    BY <1>18 DEF FGShape, FGTriesOk, FGMaxAttempts, FGWraps, FGPlain, FGUnsigned, FGOutcomes,
       FGSwitch
  <2> QED BY <2>1, <2>2, <2>3, <2>4, <2>5
<1>19. CASE FGAbort
  <2>1. FGShape'
    BY <1>19 DEF FGShape, FGWraps, FGPlain, FGUnsigned, FGOutcomes,
       FGAbort
  <2>2. FGRoundsOk'
    BY <1>19 DEF FGShape, FGRoundsOk, FGWraps, FGPlain, FGUnsigned, FGOutcomes,
       FGAbort
  <2>3. FGSentOk'
    BY <1>19 DEF FGShape, FGSentOk, FGWraps, FGPlain, FGUnsigned, FGOutcomes,
       FGAbort
  <2>4. FGEventsOk'
    BY <1>19 DEF FGShape, FGEventsOk, FGWraps, FGPlain, FGUnsigned, FGOutcomes,
       FGAbort
  <2>5. FGTriesOk'
    BY <1>19 DEF FGShape, FGTriesOk, FGMaxAttempts, FGWraps, FGPlain, FGUnsigned, FGOutcomes,
       FGAbort
  <2> QED BY <2>1, <2>2, <2>3, <2>4, <2>5
<1>21. CASE FGSessionCheck
  <2>1. FGShape'
    BY <1>21 DEF FGShape, FGWraps, FGPlain, FGUnsigned, FGOutcomes,
       FGSessionCheck, FGEnd
  <2>2. FGRoundsOk'
    BY <1>21 DEF FGShape, FGRoundsOk, FGWraps, FGPlain, FGUnsigned, FGOutcomes,
       FGSessionCheck, FGEnd
  <2>3. FGSentOk'
    BY <1>21 DEF FGShape, FGSentOk, FGWraps, FGPlain, FGUnsigned, FGOutcomes,
       FGSessionCheck, FGEnd
  <2>4. FGEventsOk'
    BY <1>21 DEF FGShape, FGEventsOk, FGWraps, FGPlain, FGUnsigned, FGOutcomes,
       FGSessionCheck, FGEnd
  <2>5. FGTriesOk'
    BY <1>21 DEF FGShape, FGTriesOk, FGMaxAttempts, FGWraps, FGPlain, FGUnsigned, FGOutcomes,
       FGSessionCheck, FGEnd
  <2> QED BY <2>1, <2>2, <2>3, <2>4, <2>5
<1>22. CASE FGSend
  <2>1. FGShape'
    BY <1>22 DEF FGShape, FGWraps, FGPlain, FGUnsigned, FGOutcomes,
       FGSend
  <2>2. FGRoundsOk'
    BY <1>22 DEF FGShape, FGRoundsOk, FGWraps, FGPlain, FGUnsigned, FGOutcomes,
       FGSend
  <2>3. FGSentOk'
    BY <1>22 DEF FGShape, FGSentOk, FGWraps, FGPlain, FGUnsigned, FGOutcomes,
       FGSend
  <2>4. FGEventsOk'
    BY <1>22 DEF FGShape, FGEventsOk, FGWraps, FGPlain, FGUnsigned, FGOutcomes,
       FGSend
  <2>5. FGTriesOk'
    <3>1. fgWrap \notin {"read", "write"} /\ fgWrap' = fgWrap /\ fgTries' = 0
      BY <1>22 DEF FGSend, FGShape, FGPlain
    <3> QED BY <3>1 DEF FGTriesOk
  <2> QED BY <2>1, <2>2, <2>3, <2>4, <2>5
<1>23. CASE FGRequest
  <2>0. /\ fgPc = "first" /\ fgWrap \in {"read", "write"} /\ fgWrap' = fgWrap /\ fgTries \in Nat
        /\ FGMaxAttempts \in Nat /\ FGMaxAttempts' = FGMaxAttempts
        /\ \/ fgPc' = "done" /\ fgTries' = fgTries
           \/ fgPc' = "asked" /\ fgOut' = fgOut /\ fgTries' = fgTries + 1
    BY <1>23 DEF FGRequest, FGEnd, FGShape, FGMaxAttempts
  <2>1. FGShape'
    BY <1>23, <2>0 DEF FGShape, FGPlain, FGUnsigned, FGRequest
  <2>2. FGRoundsOk'
    BY <1>23 DEF FGShape, FGRoundsOk, FGWraps, FGPlain, FGUnsigned, FGOutcomes,
       FGRequest, FGEnd
  <2>3. FGSentOk'
    BY <1>23 DEF FGShape, FGSentOk, FGWraps, FGPlain, FGUnsigned, FGOutcomes,
       FGRequest, FGEnd
  <2>4. FGEventsOk'
    BY <1>23 DEF FGShape, FGEventsOk, FGWraps, FGPlain, FGUnsigned, FGOutcomes,
       FGRequest, FGEnd
  <2>5. FGTriesOk'
    BY <2>0 DEF FGTriesOk
  <2> QED BY <2>1, <2>2, <2>3, <2>4, <2>5
<1>20. CASE UNCHANGED fgVars
  <2>1. FGShape' /\ FGSentOk'
    BY <1>20 DEF FGShape, FGSentOk, fgVars
  <2>2. FGTriesOk'
    BY <1>20 DEF FGTriesOk, FGMaxAttempts, fgVars
  <2>3. FGRoundsOk'
    BY <1>20 DEF FGRoundsOk, fgVars
  <2>4. FGEventsOk'
    BY <1>20 DEF FGEventsOk, fgVars
  <2> QED BY <2>1, <2>2, <2>3, <2>4
<1> QED
  BY <1>1, <1>2, <1>3, <1>4, <1>5, <1>6, <1>7, <1>8, <1>9, <1>10, <1>11, <1>12, <1>13, <1>14, <1>15, <1>16, <1>17, <1>18, <1>19, <1>20, <1>21, <1>22, <1>23
  DEF FGNext

LEMMA FGInitInd == FGInit => FGInd
<1> SUFFICES ASSUME FGInit PROVE FGInd
  OBVIOUS
<1>1. fgSigned = <<>> /\ Len(fgSigned) = 0
  BY DEF FGInit
<1>2. FGShape /\ FGTriesOk
  BY <1>1, FGAssumption DEF FGInit, FGShape, FGTriesOk, FGUnsigned, FGPlain, FGWraps
<1>a. /\ fgPc = "idle" /\ fgLimit = FGMax /\ fgOut = FGNone /\ fgWrap = FGNone /\ fgSent = {} /\ fgEvents = <<>>
      /\ fgOut \notin {"fallback", "refused", "declined", "session, discarded"}
      /\ fgWrap \notin {"redirect", "telemetry", "trace"}
  BY FGAssumption DEF FGInit, FGWraps, FGOutcomes
<1>b. FGRoundsOk
  <2>1. 1..Len(fgSigned) = {}
    BY <1>1
  <2>2. \A i \in 1..Len(fgSigned) : fgSigned[i] <= IF i = 1 THEN FGMax ELSE FGLower
    BY <2>1
  <2>3. Len(fgSigned) <= 1
    BY <1>1
  <2>4. fgPc \notin {"signed", "checked", "paid", "sign", "signing"} /\ fgOut \notin {"fallback", "refused", "declined"}
    BY <1>a
  <2>5. fgLimit = FGMax /\ fgSigned = <<>>
    BY <1>1, <1>a
  <2> QED BY ONLY <2>2, <2>3, <2>4, <2>5, Zenon DEF FGRoundsOk
<1>3. FGRoundsOk /\ FGSentOk /\ FGEventsOk
  BY <1>1, <1>a, <1>b DEF FGSentOk, FGEventsOk
<1> QED BY <1>2, <1>3 DEF FGInd

\* What the session guard saw.  Sessions are never reused, so a session that is there when
\* the guard looks again was there when the signature came back.
FGSessionOk ==
    /\ fgConnects \in Nat /\ fgSession \in 0..fgConnects /\ fgBefore \in 0..fgConnects
    /\ fgWrap = "session" /\ fgPc = "signed" /\ FGStillThere => fgAfter = fgBefore
    /\ fgWrap = "session" /\ (fgPc = "checked" \/ fgSent # {}) => fgAfter = fgBefore /\ fgAfter # 0
    /\ fgSent # {} => fgOut # "session, discarded"

LEMMA FGSessionInit == FGInit => FGSessionOk
<1> SUFFICES ASSUME FGInit PROVE FGSessionOk
  OBVIOUS
<1>1. fgConnects = 1 /\ fgSession = 1 /\ fgBefore = 0 /\ fgPc = "idle" /\ fgSent = {}
  BY DEF FGInit
<1>2. 1 \in Nat /\ 1 \in 0..1 /\ 0 \in 0..1
  OBVIOUS
<1> QED BY <1>1, <1>2 DEF FGSessionOk

LEMMA FGSessionNext ==
    ASSUME FGInd, FGSessionOk, [FGNext]_fgVars
    PROVE  FGSessionOk'
<1> DEFINE Elsewhere ==
             /\ UNCHANGED <<fgConnects, fgSession, fgBefore, fgAfter>> /\ fgPc' \notin {"signed", "checked"}
             /\ fgSent' = fgSent \/ (fgPc = "paid" /\ fgWrap = "redirect" /\ fgOut' = fgOut)
             /\ fgWrap' = fgWrap \/ (fgSent = {} /\ fgSent' = {})
             /\ fgOut' # "session, discarded" \/ fgOut' = fgOut
<1> HIDE DEF Elsewhere
<1>1. CASE FGSwitch
  <2>1. UNCHANGED <<fgWrap, fgPc, fgBefore, fgAfter, fgSent, fgOut>>
    BY <1>1 DEF FGSwitch
  <2>2. /\ fgConnects' \in Nat /\ fgSession' \in 0..fgConnects' /\ fgBefore' \in 0..fgConnects'
        /\ ~FGStillThere'
    <3>1. fgConnects \in Nat /\ fgSession \in 0..fgConnects /\ fgBefore \in 0..fgConnects
      BY DEF FGSessionOk
    <3>2. CASE fgSession' = 0 /\ fgConnects' = fgConnects
      BY <2>1, <3>1, <3>2 DEF FGStillThere
    <3>3. CASE fgConnects' = fgConnects + 1 /\ fgSession' = fgConnects + 1
      BY <2>1, <3>1, <3>3 DEF FGStillThere
    <3> QED BY <1>1, <3>2, <3>3 DEF FGSwitch
  <2> QED BY <2>1, <2>2 DEF FGSessionOk
<1>2. CASE FGSignStart
  BY <1>2, FGAssumption DEF FGSignStart, FGEnd, FGSessionOk, FGStillThere, FGInd, FGSentOk, FGShape, FGUnsigned
<1>3. CASE FGSignDone
  BY <1>3 DEF FGSignDone, FGSessionOk, FGStillThere, FGInd, FGSentOk, FGShape, FGUnsigned
<1>4. CASE FGSessionCheck
  BY <1>4 DEF FGSessionCheck, FGEnd, FGSessionOk, FGStillThere, FGInd, FGSentOk, FGShape, FGUnsigned
<1>5. CASE FGSend
  BY <1>5, FGAssumption DEF FGSend, FGSessionOk, FGStillThere, FGInd, FGShape, FGOutcomes
<1>6. CASE Elsewhere
  BY <1>6, FGAssumption DEF Elsewhere, FGSessionOk, FGInd, FGShape, FGOutcomes
<1>7. CASE FGAbort \/ UNCHANGED fgVars
  <2>1. UNCHANGED <<fgConnects, fgSession, fgBefore, fgAfter, fgWrap, fgPc, fgSent, fgOut>>
    BY <1>7 DEF FGAbort, fgVars
  <2> QED BY <2>1 DEF FGSessionOk, FGStillThere
<1>8. FGCall => Elsewhere
  <2> SUFFICES ASSUME FGCall PROVE Elsewhere
    OBVIOUS
  <2>1. fgPc = "idle" /\ fgSent' = fgSent
    BY DEF FGCall, FGInd, FGShape
  <2>2. fgWrap # "lower"
    BY FGAssumption DEF FGCall, FGWraps
  <2>3. fgSent = {}
    BY <2>1, <2>2 DEF FGInd, FGSentOk, FGUnsigned
  <2> QED BY <2>1, <2>3 DEF Elsewhere, FGCall, FGEnd
<1>13. FGProbe \/ FGConfirm => Elsewhere
  BY DEF Elsewhere, FGProbe, FGConfirm, FGEnd
<1>9. FGFree \/ FGChallenge \/ FGNothingOffered \/ FGRedirect => Elsewhere
  BY DEF Elsewhere, FGFree, FGChallenge, FGNothingOffered, FGRedirect, FGEnd
<1>10. FGSignFails \/ FGPaid \/ FGRejected \/ FGAbortError => Elsewhere
  BY DEF Elsewhere, FGSignFails, FGPaid, FGRejected, FGAbortError, FGEnd
<1>11. FGRequest \/ FGSlept \/ FGAnswer \/ FGTimer => Elsewhere
  BY DEF Elsewhere, FGRequest, FGSlept, FGAnswer, FGTimer, FGEnd
<1>12. FGAttempt => Elsewhere
  BY DEF Elsewhere, FGAttempt, FGEnd
<1> QED BY <1>1, <1>2, <1>3, <1>4, <1>5, <1>6, <1>7, <1>8, <1>9, <1>10, <1>11, <1>12, <1>13 DEF FGNext

\* Under every wrapper, whatever the seller, the network and the user do in between: what is
\* signed is within the limit in force and at most one price a round; it goes only where the
\* redirect guard allows, and under the session guard nowhere unless the session that was live
\* when the signature came back is the one signing began under; it is reported exactly.
THEOREM WrappersHold == FGSpec => []FGWrappersHold
<1>1. FGInd /\ [FGNext]_fgVars => FGInd'
  BY FGNextPreserves
<1>3. FGInd /\ FGSessionOk /\ [FGNext]_fgVars => FGSessionOk'
  BY FGSessionNext
<1>2. FGInd /\ FGSessionOk => FGWrappersHold
  <2> SUFFICES ASSUME FGInd, FGSessionOk PROVE FGWrappersHold
    OBVIOUS
  <2>1. DOMAIN fgSigned = 1..Len(fgSigned)
    BY DEF FGInd, FGShape
  <2>2. /\ \A i \in DOMAIN fgSigned : fgSigned[i] <= IF i = 1 THEN FGMax ELSE FGLower
        /\ (fgOut \in {"fallback", "refused", "declined"} /\ fgWrap # "lower") => (fgSigned = <<>>)
    BY <2>1 DEF FGInd, FGRoundsOk
  <2>3. Len(fgSigned) <= IF fgWrap = "lower" THEN 2 ELSE 1
    <3>1. Len(fgSigned) \in Nat
      BY DEF FGInd, FGShape
    <3> QED BY <3>1 DEF FGInd, FGShape, FGRoundsOk
  <2>4. /\ (fgWrap = "redirect") => (fgSent \subseteq {"seller"} /\ fgTries <= FGHops)
        /\ (fgWrap = "session" /\ fgSent # {}) => (fgAfter = fgBefore /\ fgAfter # 0 /\ fgOut # "session, discarded")
    BY DEF FGInd, FGSentOk, FGTriesOk, FGSessionOk
  <2>5. (fgWrap = "telemetry" /\ fgPc = "done") => (fgEvents = IF fgOut = "settled" THEN fgSigned ELSE <<>>)
    BY DEF FGInd, FGEventsOk
  <2>6. (fgWrap = "trace") =>
          \E full \in {<<"discovery", "quote", "sign", "submit", "settlement">>,
                       <<"discovery", "quote", "sign failed">>} : IsPrefix(fgEvents, full)
    <3> SUFFICES ASSUME fgWrap = "trace"
                 PROVE  fgEvents \in {<<>>, <<"discovery">>, <<"discovery", "quote">>,
                                      <<"discovery", "quote", "sign failed">>, <<"discovery", "quote", "sign">>,
                                      <<"discovery", "quote", "sign", "submit", "settlement">>}
      BY FGTracesArePrefixes
    <3>1. fgPc \in {"first", "sign", "signing", "signed", "checked", "paid", "done"}
      BY FGAssumption DEF FGInd, FGShape, FGUnsigned, FGPlain, FGWraps
    <3> QED BY <3>1 DEF FGInd, FGEventsOk
  <2>7. (fgWrap \in {"read", "write"}) => (fgTries <= IF fgWrap = "write" THEN 1 ELSE FGAttempts)
    BY FGAssumption DEF FGInd, FGShape, FGTriesOk, FGMaxAttempts
  <2> QED BY <2>2, <2>3, <2>4, <2>5, <2>6, <2>7 DEF FGWrappersHold
<1> QED BY FGInitInd, FGSessionInit, <1>1, <1>2, <1>3, PTL DEF FGSpec

-----------------------------------------------------------------------------
(***************************************************************************)
(* Offline and operations tools.                                           *)
(***************************************************************************)

\* How many of the first i recordings of a fixture are of method m.
OTCount(rec, m, i) == Cardinality({j \in 1..i : rec[j].method = m})

OTRecordings == [method : OTMethods, params : {stripSensitive(p) : p \in OTParams}]

\* What is signed is the hash of the expected invocation.
OTSignedOk ==
    /\ otPayload = OTNone \/ otPayload = [to |-> OTPayee, expiration |-> OTExpiration]
    /\ \A s \in otSigned : s.signature = [to |-> OTPayee, expiration |-> OTExpiration]

OTReplyTypes == [at : Nat, method : OTMethods, params : OTParams]

\* A reply is a recording already consumed, and later replies of its method are
\* later recordings.
OTRepliesOk ==
    /\ otRecorded \in Seq(OTRecordings) /\ otConsumed \in [OTMethods -> Nat]
    /\ otReplies \in Seq(OTReplyTypes)
    /\ \A k \in DOMAIN otReplies :
        LET r == otReplies[k]
        IN  /\ r.at \in 1..Len(otRecorded)
            /\ otRecorded[r.at] = [method |-> r.method, params |-> r.params]
            /\ OTCount(otRecorded, r.method, r.at) <= otConsumed[r.method]
            /\ \A j \in DOMAIN otReplies : j < k /\ otReplies[j].method = r.method => otReplies[j].at < r.at

\* The events of a connect are those of its step.
OTNames == {"started", "ceremony started", "ceremony completed", "lookup started", "lookup completed",
            "succeeded", "failed"}
OTStarted == <<"started", "ceremony started">>
OTFunnel == <<"ceremony completed", "lookup started", "lookup completed", "succeeded">>
OTEventsOf(step) ==
    CASE step = "idle" -> <<>>
      [] step = "waiting" -> OTStarted
      [] step = "connected" -> OTStarted \o OTFunnel
      [] step = "failed" -> Append(OTStarted, "failed")

OTConnectsOk ==
    /\ otConnect \in [OTCalls -> {"idle", "waiting", "connected", "failed"}]
    /\ otEvents = [c \in OTCalls |-> OTEventsOf(otConnect[c])]

\* The keys of a rotation follow its step.
OTKeysOk ==
    \/ otRotation = 0 /\ otKeys = {"old"}
    \/ otRotation = 1 /\ otKeys = {"old", "new"}
    \/ otRotation \in {2, 3} /\ otKeys = {"new"}
    \/ otRotation = -1 /\ otKeys # {}

OTInd == OTSignedOk /\ OTRepliesOk /\ OTConnectsOk /\ OTKeysOk

\* Nothing happened at the start.
LEMMA OTInitInd == OTInit => OTInd
<1> SUFFICES ASSUME OTInit PROVE OTInd
  OBVIOUS
<1>1. OTSignedOk
  BY DEF OTInit, OTSignedOk
<1>2. OTRepliesOk
  BY DEF OTInit, OTRepliesOk
<1>3. OTConnectsOk
  <2>1. OTEventsOf("idle") = <<>>
    BY DEF OTEventsOf
  <2>2. otConnect = [c \in OTCalls |-> "idle"] /\ otEvents = [c \in OTCalls |-> <<>>]
    BY DEF OTInit
  <2> HIDE DEF OTEventsOf
  <2>3. otEvents = [c \in OTCalls |-> OTEventsOf(otConnect[c])]
    BY <2>1, <2>2
  <2> QED BY <2>2, <2>3 DEF OTConnectsOk
<1>4. OTKeysOk
  BY DEF OTInit, OTKeysOk
<1> QED BY <1>1, <1>2, <1>3, <1>4 DEF OTInd

\* A recording is appended while nothing was replayed.
LEMMA OTRecordOk == OTRepliesOk /\ OTRecord => OTRepliesOk'
<1> SUFFICES ASSUME OTRepliesOk, OTRecord PROVE OTRepliesOk'
  OBVIOUS
<1>1. PICK p \in OTParams, m \in OTMethods :
        otRecorded' = Append(otRecorded, [method |-> m, params |-> stripSensitive(p)])
  BY DEF OTRecord
<1>2. [method |-> m, params |-> stripSensitive(p)] \in OTRecordings
  BY DEF OTRecordings
<1>3. otRecorded' \in Seq(OTRecordings)
  <2> HIDE DEF OTRecordings
  <2> QED BY <1>1, <1>2 DEF OTRepliesOk
<1>4. otReplies = <<>> /\ otReplies' = otReplies /\ otConsumed' = otConsumed
  BY DEF OTRecord
<1> QED BY <1>3, <1>4 DEF OTRepliesOk

\* Fewer recordings of a method lie before an earlier index.
LEMMA OTCountGrows ==
    ASSUME NEW rec, NEW m, NEW i \in Nat, NEW k \in Nat, i <= k
    PROVE  OTCount(rec, m, i) <= OTCount(rec, m, k) /\ OTCount(rec, m, i) \in Nat /\ OTCount(rec, m, k) \in Nat
<1> DEFINE A == {j \in 1..i : rec[j].method = m}
           B == {j \in 1..k : rec[j].method = m}
<1>1. A \subseteq B /\ B \subseteq 1..k
  OBVIOUS
<1>2. IsFiniteSet(1..k)
  BY FS_Interval
<1> HIDE DEF A, B
<1>3. IsFiniteSet(B)
  BY <1>1, <1>2, FS_Subset
<1>4. IsFiniteSet(A) /\ Cardinality(A) <= Cardinality(B)
  BY <1>1, <1>3, FS_Subset
<1>5. Cardinality(A) \in Nat /\ Cardinality(B) \in Nat
  BY <1>3, <1>4, FS_CardinalityType
<1> QED BY <1>4, <1>5 DEF A, B, OTCount

\* A replay consumes the next recording of its method.
LEMMA OTReplayOk == OTRepliesOk /\ OTReplay => OTRepliesOk'
<1> SUFFICES ASSUME OTRepliesOk, OTReplay PROVE OTRepliesOk'
  OBVIOUS
<1>1. PICK m \in OTMethods, p \in OTParams : \E i \in OTNth(m, otConsumed[m] + 1) :
        /\ otConsumed' = [otConsumed EXCEPT ![m] = @ + 1]
        /\ otReplies' = IF otRecorded[i].params = p
                        THEN Append(otReplies, [at |-> i, method |-> m, params |-> p])
                        ELSE otReplies
  BY DEF OTReplay
<1>2. PICK i \in OTNth(m, otConsumed[m] + 1) :
        /\ otConsumed' = [otConsumed EXCEPT ![m] = @ + 1]
        /\ otReplies' = IF otRecorded[i].params = p
                        THEN Append(otReplies, [at |-> i, method |-> m, params |-> p])
                        ELSE otReplies
  BY <1>1
<1> DEFINE new == [at |-> i, method |-> m, params |-> p]
<1>3. /\ otRecorded \in Seq(OTRecordings) /\ otConsumed \in [OTMethods -> Nat]
      /\ otReplies \in Seq(OTReplyTypes) /\ otRecorded' = otRecorded
      /\ DOMAIN otRecorded = 1..Len(otRecorded) /\ Len(otRecorded) \in Nat
  BY DEF OTRepliesOk, OTReplay
<1>4. i \in 1..Len(otRecorded) /\ i \in Nat /\ otRecorded[i].method = m /\ OTCount(otRecorded, m, i) = otConsumed[m] + 1
  BY <1>3 DEF OTNth, OTCount
<1>5. /\ otConsumed' \in [OTMethods -> Nat] /\ otConsumed'[m] = otConsumed[m] + 1
      /\ \A n \in OTMethods : otConsumed[n] <= otConsumed'[n] /\ otConsumed[n] \in Nat /\ otConsumed'[n] \in Nat
  BY <1>2, <1>3
<1>6. ASSUME NEW k \in DOMAIN otReplies
      PROVE  LET r == otReplies[k]
             IN  /\ r \in OTReplyTypes /\ r.at \in 1..Len(otRecorded) /\ r.method \in OTMethods /\ r.at \in Nat
                 /\ otRecorded[r.at] = [method |-> r.method, params |-> r.params]
                 /\ OTCount(otRecorded, r.method, r.at) <= otConsumed[r.method]
                 /\ OTCount(otRecorded, r.method, r.at) <= otConsumed'[r.method]
                 /\ \A j \in DOMAIN otReplies : j < k /\ otReplies[j].method = r.method => otReplies[j].at < r.at
  <2> DEFINE r == otReplies[k]
  <2>1. r \in OTReplyTypes
    BY <1>3
  <2>2. r.at \in Nat /\ r.method \in OTMethods
    BY <2>1 DEF OTReplyTypes
  <2>3. /\ r.at \in 1..Len(otRecorded)
        /\ otRecorded[r.at] = [method |-> r.method, params |-> r.params]
        /\ OTCount(otRecorded, r.method, r.at) <= otConsumed[r.method]
        /\ \A j \in DOMAIN otReplies : j < k /\ otReplies[j].method = r.method => otReplies[j].at < r.at
    BY DEF OTRepliesOk
  <2> HIDE DEF r
  <2>4. OTCount(otRecorded, r.method, r.at) \in Nat
    BY <2>2, OTCountGrows
  <2>5. OTCount(otRecorded, r.method, r.at) <= otConsumed'[r.method]
    BY <1>5, <2>2, <2>3, <2>4
  <2> QED BY <2>1, <2>2, <2>3, <2>5 DEF r
<1>8. CASE otReplies' = otReplies
  <2>1. ASSUME NEW k \in DOMAIN otReplies
        PROVE  LET r == otReplies[k]
               IN  /\ r.at \in 1..Len(otRecorded)
                   /\ otRecorded[r.at] = [method |-> r.method, params |-> r.params]
                   /\ OTCount(otRecorded, r.method, r.at) <= otConsumed'[r.method]
                   /\ \A j \in DOMAIN otReplies : j < k /\ otReplies[j].method = r.method => otReplies[j].at < r.at
    BY <1>6
  <2> QED BY <1>3, <1>5, <1>8, <2>1 DEF OTRepliesOk
<1>9. CASE otReplies' = Append(otReplies, new) /\ otRecorded[i].params = p
  <2>1. new \in OTReplyTypes /\ new.at = i /\ new.method = m /\ new.params = p
    BY <1>4 DEF OTReplyTypes
  <2> HIDE DEF new
  <2>2. /\ otReplies' \in Seq(OTReplyTypes) /\ DOMAIN otReplies' = 1..(Len(otReplies) + 1)
        /\ DOMAIN otReplies = 1..Len(otReplies) /\ Len(otReplies) \in Nat
        /\ \A k \in 1..Len(otReplies) : otReplies'[k] = otReplies[k]
        /\ otReplies'[Len(otReplies) + 1] = new
    BY <1>3, <1>9, <2>1
  <2>3. otRecorded[i] = [method |-> m, params |-> p]
    <3>1. otRecorded[i] \in OTRecordings
      BY <1>3, <1>4
    <3>2. PICK a, b : otRecorded[i] = [method |-> a, params |-> b]
      BY <3>1 DEF OTRecordings
    <3> QED BY <1>4, <1>9, <3>2
  <2>4. ASSUME NEW k \in DOMAIN otReplies'
        PROVE  LET r == otReplies'[k]
               IN  /\ r.at \in 1..Len(otRecorded)
                   /\ otRecorded[r.at] = [method |-> r.method, params |-> r.params]
                   /\ OTCount(otRecorded, r.method, r.at) <= otConsumed'[r.method]
                   /\ \A j \in DOMAIN otReplies' :
                        j < k /\ otReplies'[j].method = r.method => otReplies'[j].at < r.at
    <3>1. CASE k = Len(otReplies) + 1
      <4>1. otReplies'[k] = new
        BY <2>2, <3>1
      <4>2. OTCount(otRecorded, m, i) <= otConsumed'[m]
        BY <1>3, <1>4, <1>5
      <4>3. ASSUME NEW j \in DOMAIN otReplies', j < k, otReplies'[j].method = m
            PROVE  otReplies'[j].at < i
        <5> DEFINE q == otReplies[j]
        <5>1. j \in DOMAIN otReplies /\ otReplies'[j] = q
          BY <2>2, <3>1, <4>3
        <5>2. q.at \in Nat /\ q.method = m /\ OTCount(otRecorded, m, q.at) <= otConsumed[m]
          BY <1>6, <4>3, <5>1
        <5> HIDE DEF q
        <5>3. CASE i <= q.at
          <6>1. OTCount(otRecorded, m, i) <= OTCount(otRecorded, m, q.at) /\ OTCount(otRecorded, m, q.at) \in Nat
            BY <1>4, <5>2, <5>3, OTCountGrows
          <6> QED BY <1>4, <1>5, <5>2, <6>1
        <5> QED BY <1>4, <5>1, <5>2, <5>3
      <4> QED BY <1>4, <2>1, <2>3, <4>1, <4>2, <4>3
    <3>2. CASE k # Len(otReplies) + 1
      <4>1. k \in DOMAIN otReplies /\ otReplies'[k] = otReplies[k]
        BY <2>2, <3>2
      <4>2. \A j \in DOMAIN otReplies' : j < k => j \in DOMAIN otReplies /\ otReplies'[j] = otReplies[j]
        BY <2>2, <4>1
      <4> QED BY <1>6, <4>1, <4>2
    <3> QED BY <3>1, <3>2
  <2> QED BY <1>3, <1>5, <2>2, <2>4 DEF OTRepliesOk
<1> QED BY <1>2, <1>8, <1>9

\* The events of a connect, one by one.
LEMMA OTStartedIs ==
    /\ OTStarted \in Seq(OTNames) /\ Len(OTStarted) = 2 /\ DOMAIN OTStarted = 1..2
    /\ OTStarted[1] = "started" /\ OTStarted[2] = "ceremony started"
<1>1. OTStarted \in Seq(OTNames)
  BY DEF OTStarted, OTNames
<1>2. Len(OTStarted) = 2
  BY DEF OTStarted
<1>3. OTStarted[1] = "started" /\ OTStarted[2] = "ceremony started"
  BY DEF OTStarted
<1>4. DOMAIN OTStarted = 1..2
  BY DEF OTStarted
<1> QED BY <1>1, <1>2, <1>3, <1>4, Zenon

\* The events of a connect that ended well.
LEMMA OTConnectedIs ==
    LET e == OTStarted \o OTFunnel
    IN  /\ Len(e) = 6 /\ DOMAIN e = 1..6
        /\ e[1] = "started" /\ e[2] = "ceremony started" /\ e[3] = "ceremony completed"
        /\ e[4] = "lookup started" /\ e[5] = "lookup completed" /\ e[6] = "succeeded"
<1>1. OTFunnel \in Seq(OTNames)
  BY DEF OTFunnel, OTNames
<1>2. Len(OTFunnel) = 4
  BY DEF OTFunnel
<1>3. /\ OTFunnel[1] = "ceremony completed" /\ OTFunnel[2] = "lookup started"
      /\ OTFunnel[3] = "lookup completed" /\ OTFunnel[4] = "succeeded"
  BY DEF OTFunnel
<1> DEFINE e == OTStarted \o OTFunnel
<1>4. /\ e \in Seq(OTNames) /\ Len(e) = Len(OTStarted) + Len(OTFunnel)
      /\ \A k \in 1..(Len(OTStarted) + Len(OTFunnel)) :
            e[k] = IF k <= Len(OTStarted) THEN OTStarted[k] ELSE OTFunnel[k - Len(OTStarted)]
  <2>1. OTStarted \in Seq(OTNames)
    BY OTStartedIs
  <2> QED BY ONLY <1>1, <2>1, ConcatProperties
<1> HIDE DEF e
<1>5. Len(OTStarted) = 2 /\ Len(e) = 2 + 4
  BY <1>2, <1>4, OTStartedIs, Zenon
<1>6. Len(e) = 6 /\ DOMAIN e = 1..6
  <2>1. Len(e) = 6
    BY <1>5
  <2>2. DOMAIN e = 1..Len(e)
    BY ONLY <1>4
  <2> QED BY <2>1, <2>2
<1>9. \A k \in 1..6 : e[k] = IF k <= 2 THEN OTStarted[k] ELSE OTFunnel[k - 2]
  <2>1. \A k \in 1..(2 + 4) : e[k] = IF k <= 2 THEN OTStarted[k] ELSE OTFunnel[k - 2]
    BY <1>2, <1>4, <1>5, Zenon
  <2> QED BY <2>1
<1>7. e[1] = OTStarted[1] /\ e[2] = OTStarted[2]
  BY <1>9
<1>8. e[3] = OTFunnel[1] /\ e[4] = OTFunnel[2] /\ e[5] = OTFunnel[3] /\ e[6] = OTFunnel[4]
  BY <1>9
<1> QED BY <1>3, <1>6, <1>7, <1>8, OTStartedIs DEF e

\* The events of a connect that failed.
LEMMA OTFailedIs ==
    LET e == Append(OTStarted, "failed")
    IN  /\ Len(e) = 3 /\ DOMAIN e = 1..3
        /\ e[1] = "started" /\ e[2] = "ceremony started" /\ e[3] = "failed"
<1> DEFINE e == Append(OTStarted, "failed")
<1>1. /\ e \in Seq(OTNames) /\ Len(e) = Len(OTStarted) + 1
      /\ \A k \in 1..Len(OTStarted) : e[k] = OTStarted[k]
      /\ e[Len(OTStarted) + 1] = "failed"
  <2>1. OTStarted \in Seq(OTNames) /\ "failed" \in OTNames
    BY OTStartedIs DEF OTNames
  <2> QED BY ONLY <2>1, AppendProperties
<1> HIDE DEF e
<1>2. Len(OTStarted) = 2 /\ OTStarted[1] = "started" /\ OTStarted[2] = "ceremony started"
  BY OTStartedIs, Zenon
<1>3. Len(e) = 3 /\ DOMAIN e = 1..3
  <2>1. Len(e) = 2 + 1
    BY <1>1, <1>2, Zenon
  <2>2. DOMAIN e = 1..Len(e)
    BY ONLY <1>1
  <2> QED BY <2>1, <2>2
<1>4. (\A k \in 1..2 : e[k] = OTStarted[k]) /\ e[2 + 1] = "failed"
  BY <1>1, <1>2, Zenon
<1>5. e[1] = OTStarted[1] /\ e[2] = OTStarted[2] /\ e[3] = "failed"
  BY <1>4
<1> QED BY <1>2, <1>3, <1>5, Zenon DEF e

\* A settled connect has its closing event last, and a pending one has none.
LEMMA OTEventsClose ==
    ASSUME NEW step \in {"idle", "waiting", "connected", "failed"}
    PROVE  LET e == OTEventsOf(step)
               ends == {k \in DOMAIN e : e[k] \in {"succeeded", "failed"}}
           IN  IF step \in {"connected", "failed"}
               THEN ends = {Len(e)} /\ ((Last(e) = "succeeded") = (step = "connected"))
               ELSE ends = {}
<1> DEFINE e == OTEventsOf(step)
           ends == {k \in DOMAIN e : e[k] \in {"succeeded", "failed"}}
<1>1. CASE step = "idle"
  <2>1. e = <<>>
    BY <1>1 DEF OTEventsOf
  <2> HIDE DEF e
  <2>2. ends = {}
    BY <2>1
  <2> QED BY <1>1, <2>2 DEF e
<1>2. CASE step = "waiting"
  <2>1. e = OTStarted
    BY <1>2 DEF OTEventsOf
  <2> HIDE DEF e
  <2>2. DOMAIN e = 1..2 /\ e[1] = "started" /\ e[2] = "ceremony started"
    BY <2>1, OTStartedIs
  <2>3. \A k \in 1..2 : k = 1 \/ k = 2
    OBVIOUS
  <2>4. ends = {}
    BY <2>2, <2>3
  <2> QED BY <1>2, <2>4 DEF e
<1>3. CASE step = "connected"
  <2>1. e = OTStarted \o OTFunnel
    BY <1>3 DEF OTEventsOf
  <2> HIDE DEF e
  <2>2. /\ Len(e) = 6 /\ DOMAIN e = 1..6
        /\ e[1] = "started" /\ e[2] = "ceremony started" /\ e[3] = "ceremony completed"
        /\ e[4] = "lookup started" /\ e[5] = "lookup completed" /\ e[6] = "succeeded"
    BY <2>1, OTConnectedIs
  <2>4. \A k \in 1..6 : k = 1 \/ k = 2 \/ k = 3 \/ k = 4 \/ k = 5 \/ k = 6
    OBVIOUS
  <2>5. ends = {6}
    <3>1. \A k \in 1..6 : e[k] \in {"succeeded", "failed"} => k = 6
      <4> TAKE k \in 1..6
      <4>1. k = 1 \/ k = 2 \/ k = 3 \/ k = 4 \/ k = 5 \/ k = 6
        BY <2>4
      <4> QED BY <2>2, <4>1
    <3>2. e[6] \in {"succeeded", "failed"}
      BY <2>2, Zenon
    <3>3. DOMAIN e = 1..6
      BY <2>2, Zenon
    <3>4. 6 \in 1..6
      OBVIOUS
    <3> QED BY <3>1, <3>2, <3>3, <3>4
  <2>6. Last(e) = "succeeded"
    BY <2>2 DEF Last
  <2> QED BY <1>3, <2>2, <2>5, <2>6 DEF e
<1>4. CASE step = "failed"
  <2>1. e = Append(OTStarted, "failed")
    BY <1>4 DEF OTEventsOf
  <2> HIDE DEF e
  <2>2. /\ Len(e) = 3 /\ DOMAIN e = 1..3
        /\ e[1] = "started" /\ e[2] = "ceremony started" /\ e[3] = "failed"
    BY <2>1, OTFailedIs
  <2>4. \A k \in 1..3 : k = 1 \/ k = 2 \/ k = 3
    OBVIOUS
  <2>5. ends = {3}
    <3>1. \A k \in 1..3 : e[k] \in {"succeeded", "failed"} => k = 3
      <4> TAKE k \in 1..3
      <4>1. k = 1 \/ k = 2 \/ k = 3
        BY <2>4
      <4> QED BY <2>2, <4>1
    <3>2. e[3] \in {"succeeded", "failed"}
      BY <2>2, Zenon
    <3>3. DOMAIN e = 1..3
      BY <2>2, Zenon
    <3>4. 3 \in 1..3
      OBVIOUS
    <3> QED BY <3>1, <3>2, <3>3, <3>4
  <2>6. Last(e) = "failed"
    BY <2>2 DEF Last
  <2> QED BY <1>4, <2>2, <2>5, <2>6 DEF e
<1> QED BY <1>1, <1>2, <1>3, <1>4

\* Each event is emitted at its step.
LEMMA OTConnectOk ==
    ASSUME OTConnectsOk, NEW c \in OTCalls, OTConnectStart(c) \/ OTConnectEnd(c)
    PROVE  OTConnectsOk'
<1>1. /\ OTEventsOf("waiting") = OTStarted /\ OTEventsOf("connected") = OTStarted \o OTFunnel
      /\ OTEventsOf("failed") = Append(OTStarted, "failed")
  BY DEF OTEventsOf
<1>2. /\ otConnect \in [OTCalls -> {"idle", "waiting", "connected", "failed"}]
      /\ otEvents = [d \in OTCalls |-> OTEventsOf(otConnect[d])]
  BY DEF OTConnectsOk
<1> HIDE DEF OTEventsOf
<1>3. \E step \in {"waiting", "connected", "failed"} :
        /\ otConnect' = [otConnect EXCEPT ![c] = step]
        /\ otEvents' = [otEvents EXCEPT ![c] = OTEventsOf(step)]
  <2>1. CASE OTConnectStart(c)
    BY <1>1, <2>1 DEF OTConnectStart, OTStarted
  <2>2. CASE OTConnectEnd(c)
    <3>1. otEvents[c] = OTStarted
      BY <1>1, <1>2, <2>2 DEF OTConnectEnd
    <3>2. CASE /\ otConnect' = [otConnect EXCEPT ![c] = "connected"]
               /\ otEvents' = [otEvents EXCEPT ![c] = @ \o OTFunnel]
      BY <1>1, <1>2, <3>1, <3>2
    <3>3. CASE /\ otConnect' = [otConnect EXCEPT ![c] = "failed"]
               /\ otEvents' = [otEvents EXCEPT ![c] = Append(@, "failed")]
      BY <1>1, <1>2, <3>1, <3>3
    <3> QED BY <2>2, <3>2, <3>3 DEF OTConnectEnd, OTFunnel
  <2> QED BY <2>1, <2>2
<1>4. PICK step \in {"waiting", "connected", "failed"} :
        /\ otConnect' = [otConnect EXCEPT ![c] = step]
        /\ otEvents' = [otEvents EXCEPT ![c] = OTEventsOf(step)]
  BY <1>3
<1>5. otConnect' \in [OTCalls -> {"idle", "waiting", "connected", "failed"}]
  BY <1>2, <1>4
<1>6. otEvents' = [d \in OTCalls |-> OTEventsOf(otConnect'[d])]
  BY <1>2, <1>4
<1> QED BY <1>5, <1>6 DEF OTConnectsOk

\* Each tool leaves the state of the others alone.
LEMMA OTNextInd == OTInd /\ [OTNext]_otVars => OTInd'
<1> SUFFICES ASSUME OTInd, [OTNext]_otVars PROVE OTInd'
  OBVIOUS
<1> USE DEF OTInd
<1>1. ASSUME UNCHANGED otOffline PROVE OTSignedOk'
  BY <1>1 DEF OTSignedOk, otOffline
<1>2. ASSUME UNCHANGED otReplay PROVE OTRepliesOk'
  BY <1>2 DEF OTRepliesOk, otReplay, OTCount
<1>3. ASSUME UNCHANGED otTelemetry PROVE OTConnectsOk'
  BY <1>3 DEF OTConnectsOk, otTelemetry
<1>4. ASSUME UNCHANGED otRotating PROVE OTKeysOk'
  BY <1>4 DEF OTKeysOk, otRotating
<1>5. CASE OTOfflineNext
  <2>1. OTSignedOk'
    BY <1>5 DEF OTOfflineNext, OTExport, OTAssemble, OTHash, OTEntries, OTSignedOk
  <2>2. UNCHANGED otReplay /\ UNCHANGED otTelemetry /\ UNCHANGED otRotating
    BY <1>5 DEF OTOfflineNext, OTExport, OTAssemble
  <2> QED BY <1>2, <1>3, <1>4, <2>1, <2>2
<1>6. CASE OTReplayNext
  <2>1. OTRepliesOk'
    BY <1>6, OTRecordOk, OTReplayOk DEF OTReplayNext
  <2>2. UNCHANGED otOffline /\ UNCHANGED otTelemetry /\ UNCHANGED otRotating
    BY <1>6 DEF OTReplayNext, OTRecord, OTReplay
  <2> QED BY <1>1, <1>3, <1>4, <2>1, <2>2
<1>7. CASE OTRotate
  <2>1. OTKeysOk'
    BY <1>7 DEF OTRotate, OTKeysOk
  <2>2. UNCHANGED otOffline /\ UNCHANGED otReplay /\ UNCHANGED otTelemetry
    BY <1>7 DEF OTRotate
  <2> QED BY <1>1, <1>2, <1>3, <2>1, <2>2
<1>8. ASSUME NEW c \in OTCalls, OTConnectStart(c) \/ OTConnectEnd(c) PROVE OTInd'
  <2>1. OTConnectsOk'
    BY <1>8, OTConnectOk
  <2>2. UNCHANGED otOffline /\ UNCHANGED otReplay /\ UNCHANGED otRotating
    BY <1>8 DEF OTConnectStart, OTConnectEnd
  <2> QED BY <1>1, <1>2, <1>4, <2>1, <2>2
<1>9. CASE UNCHANGED otVars
  BY <1>1, <1>2, <1>3, <1>4, <1>9 DEF otVars
<1> QED BY <1>5, <1>6, <1>7, <1>8, <1>9 DEF OTNext, OTOtherNext

\* Offline signing, replay, telemetry and key rotation (offline-signer.ts,
\* rpc-replay.ts, connect-telemetry.ts, rotate-mcp-payer-key.ts): what the wallet
\* accepts is what was expected, every reply is its own recording, in order, every
\* settled connect is reported once and truly, and some key can always sign.
THEOREM ToolsHold == OTSpec => []OTToolsHold
<1>1. OTInd => OTToolsHold
  <2> SUFFICES ASSUME OTInd PROVE OTToolsHold
    OBVIOUS
  <2>1. OTAcceptedIsExpected
    BY DEF OTInd, OTSignedOk, OTAcceptedIsExpected, OTVerifies, OTHash
  <2>2. OTRepliesMatch
    BY DEF OTInd, OTRepliesOk, OTRepliesMatch
  <2>3. OTFunnelsEnd
    <3> SUFFICES ASSUME NEW c \in OTCalls
                 PROVE  LET ends == {k \in DOMAIN otEvents[c] : otEvents[c][k] \in {"succeeded", "failed"}}
                        IN  IF otConnect[c] \in {"connected", "failed"}
                            THEN /\ ends = {Len(otEvents[c])}
                                 /\ (Last(otEvents[c]) = "succeeded") = (otConnect[c] = "connected")
                            ELSE ends = {}
      BY DEF OTFunnelsEnd
    <3>1. otConnect[c] \in {"idle", "waiting", "connected", "failed"} /\ otEvents[c] = OTEventsOf(otConnect[c])
      BY DEF OTInd, OTConnectsOk
    <3> HIDE DEF OTEventsOf
    <3> QED BY <3>1, OTEventsClose
  <2>4. OTRotationKeepsAKey
    BY DEF OTInd, OTKeysOk, OTRotationKeepsAKey
  <2> QED BY <2>1, <2>2, <2>3, <2>4 DEF OTToolsHold
<1> QED BY <1>1, OTInitInd, OTNextInd, PTL DEF OTSpec
-----------------------------------------------------------------------------
(* The helpers around the session store. *)

SXPlaces == {"idle", "kit", "start", "ending", "waits", "done"}

\* The part of the type invariant that the helpers' promises rest on.
SXTyped == /\ sxUse \in SXUses \cup {SXNone} /\ sxPc \in [SXCalls -> SXPlaces] /\ sxMine \in [SXCalls -> Nat]
           /\ sxGen \in Nat /\ sxFlight \in Nat /\ sxDisposed \in BOOLEAN
           /\ sxOut \in [SXCalls -> SXOutcomes \cup {SXNone}]

\* Before a helper is chosen nothing has happened.
SXFresh == sxUse = SXNone =>
    /\ sxLive = SXNone /\ sxFlight = 0 /\ ~sxDisposed
    /\ \A c \in SXCalls : sxPc[c] = "idle" /\ sxOut[c] = SXNone

\* Only a resume that was applied, is about to be undone, or failed to be, owns the live
\* session.
SXResumeOk == sxUse = "resume" => \A c \in SXCalls :
    /\ sxPc[c] # "done" => sxOut[c] = SXNone
    /\ sxLive = c => (sxPc[c] = "ending" \/ (sxPc[c] = "done" /\ sxOut[c] \in {"applied", "error"}))

SXManagerOk == (sxUse = "refresh" /\ sxDisposed) => sxLive = sxAtStop

\* One ceremony at most, and everyone who waits, waits for the latest.
SXCeremonyOk == sxUse \in {"once", "exclusive"} =>
    /\ sxFlight <= 1
    /\ \A c \in SXCalls : sxPc[c] = "waits" => sxFlight = 1 /\ sxMine[c] = sxGen

\* A value too new to read is still there, and with it nobody holds a session to save.
SXLoadOk ==
    /\ (sxUse = "load" /\ ~assertSessionSchemaSupported(sxStored)) => sxLive = SXNone
    /\ \A c \in SXCalls : sxOut[c] = "schema_too_new" => (sxUse = "load" /\ ~assertSessionSchemaSupported(sxStored))

SXInd == SXTyped /\ SXFresh /\ SXResumeOk /\ SXManagerOk /\ SXCeremonyOk /\ SXLoadOk

LEMMA SXInitInd == SXInit => SXInd
<1> SUFFICES ASSUME SXInit PROVE SXInd
  OBVIOUS
<1>0. SXNone \notin SXUses /\ SXNone # "schema_too_new"
  BY SXAssumption DEF SXOutcomes
<1>1. SXTyped
  BY DEF SXInit, SXTyped, SXPlaces
<1>2. SXFresh /\ SXLoadOk
  BY <1>0 DEF SXInit, SXFresh, SXLoadOk
<1>3. SXResumeOk /\ SXManagerOk /\ SXCeremonyOk
  BY <1>0 DEF SXInit, SXResumeOk, SXManagerOk, SXCeremonyOk, SXUses
<1> QED BY <1>1, <1>2, <1>3 DEF SXInd

\* A helper's step leaves the promises of the others alone: they are about another use.
LEMMA SXOneHelper ==
    ASSUME SXInd, sxUse' = sxUse, SXTyped', sxUse \in SXUses,
           sxUse = "resume" => SXResumeOk', sxUse = "refresh" => SXManagerOk',
           sxUse \in {"once", "exclusive"} => SXCeremonyOk',
           sxUse = "load" => SXLoadOk',
           sxUse # "load" => \A c \in SXCalls : sxOut'[c] # "schema_too_new"
    PROVE  SXInd'
<1>1. sxUse # SXNone
  BY SXAssumption
<1>2. SXFresh'
  BY <1>1 DEF SXFresh
<1>3. SXResumeOk' /\ SXManagerOk' /\ SXCeremonyOk'
  BY DEF SXResumeOk, SXManagerOk, SXCeremonyOk
<1>4. SXLoadOk'
  BY DEF SXLoadOk
<1> QED BY <1>2, <1>3, <1>4 DEF SXInd

LEMMA SXConfigureInd == SXInd /\ SXConfigure => SXInd'
<1> SUFFICES ASSUME SXInd, SXConfigure PROVE SXInd'
  OBVIOUS
<1> USE DEF SXInd
<1>1. PICK u \in SXUses : /\ sxUse = SXNone /\ sxUse' = u
                          /\ UNCHANGED <<sxPc, sxMine, sxGen, sxDisposed, sxLive, sxFlight, sxAtStop, sxOut>>
  BY DEF SXConfigure
<1>2. /\ sxLive' = SXNone /\ sxFlight' = 0 /\ ~sxDisposed'
      /\ \A c \in SXCalls : sxPc'[c] = "idle" /\ sxOut'[c] = SXNone
  BY <1>1 DEF SXFresh
<1>3. SXNone \notin SXCalls /\ u # SXNone /\ SXNone # "schema_too_new"
  BY SXAssumption DEF SXOutcomes
<1>4. SXTyped'
  BY <1>1 DEF SXTyped
<1>5. SXFresh' /\ SXManagerOk'
  BY <1>1, <1>2, <1>3 DEF SXFresh, SXManagerOk
<1>6. SXResumeOk' /\ SXCeremonyOk'
  BY <1>2, <1>3 DEF SXResumeOk, SXCeremonyOk
<1>7. SXLoadOk'
  BY <1>2, <1>3 DEF SXLoadOk
<1> QED BY <1>4, <1>5, <1>6, <1>7

\* The guarded resume.
LEMMA SXResumeInd ==
    ASSUME SXInd, NEW c \in SXCalls, SXBegin(c) \/ SXKitDone(c) \/ SXStart(c) \/ SXEnd(c) \/ SXDispose
    PROVE  SXInd'
<1> USE DEF SXInd
<1>0. SXNone \notin SXCalls /\ SXNone \notin SXOutcomes
  BY SXAssumption
<1>1. sxUse = "resume" /\ sxUse' = sxUse /\ sxFlight' = sxFlight
  BY DEF SXBegin, SXKitDone, SXStart, SXEnd, SXDispose
<1>2. /\ sxGen' \in Nat /\ sxDisposed' \in BOOLEAN /\ sxMine' \in [SXCalls -> Nat]
  <2>1. CASE SXBegin(c)
    BY <2>1 DEF SXBegin, SXTyped
  <2>2. CASE SXKitDone(c) \/ SXStart(c) \/ SXEnd(c)
    BY <2>2 DEF SXKitDone, SXStart, SXEnd, SXTyped
  <2>3. CASE SXDispose
    BY <2>3 DEF SXDispose, SXTyped
  <2> QED BY <2>1, <2>2, <2>3
<1>3. \/ sxPc' = sxPc /\ sxOut' = sxOut /\ sxLive' = sxLive
      \/ sxPc[c] = "idle" /\ sxLive' = sxLive /\ (SXDone(c, "stale") \/ SXGoto(c, "kit"))
      \/ sxPc[c] = "kit" /\ sxLive' = sxLive /\ (SXDone(c, "stale") \/ SXDone(c, "error") \/ SXGoto(c, "start"))
      \/ sxPc[c] = "start" /\ sxLive' = sxLive /\ SXDone(c, "error")
      \/ sxPc[c] = "start" /\ sxLive' = c /\ (SXDone(c, "applied") \/ SXGoto(c, "ending"))
      \/ sxPc[c] = "ending" /\ sxLive' = SXNone /\ SXDone(c, "stale")
      \/ sxPc[c] = "ending" /\ sxLive' = sxLive /\ SXDone(c, "error")
  <2>1. CASE SXBegin(c)
    BY <2>1 DEF SXBegin
  <2>2. CASE SXKitDone(c)
    BY <2>2 DEF SXKitDone
  <2>3. CASE SXStart(c)
    BY <2>3 DEF SXStart, SXStarted
  <2>4. CASE SXEnd(c) \/ SXDispose
    BY <2>4 DEF SXEnd, SXDispose
  <2> QED BY <2>1, <2>2, <2>3, <2>4
<1>4. PICK to \in SXPlaces, out \in {"stale", "error", "applied"} \cup {SXNone} :
        \/ sxPc' = sxPc /\ sxOut' = sxOut /\ sxLive' = sxLive
        \/ /\ sxPc[c] # "done" /\ sxPc' = [sxPc EXCEPT ![c] = to] /\ sxOut' = [sxOut EXCEPT ![c] = out]
           /\ out = SXNone <=> to # "done"
           /\ \/ sxLive' = sxLive /\ (sxPc[c] = "ending" => out = "error")
              \/ sxLive' = SXNone
              \/ sxLive' = c /\ (out = "applied" \/ to = "ending")
  <2>1. ASSUME NEW to, SXGoto(c, to), sxPc[c] # "done" PROVE sxOut' = [sxOut EXCEPT ![c] = SXNone] /\ sxPc' = [sxPc EXCEPT ![c] = to]
    BY <1>1, <2>1 DEF SXGoto, SXResumeOk, SXTyped
  <2>2. ASSUME NEW to, SXDone(c, to) PROVE sxOut' = [sxOut EXCEPT ![c] = to] /\ sxPc' = [sxPc EXCEPT ![c] = "done"]
    BY <2>2 DEF SXDone
  <2>3. SXNone \notin {"stale", "error", "applied"}
    BY <1>0 DEF SXOutcomes
  <2> HIDE DEF SXInd
  <2> QED BY <1>3, <2>1, <2>2, <2>3, Zenon DEF SXPlaces
<1>5. SXTyped'
  BY <1>1, <1>2, <1>4 DEF SXTyped, SXOutcomes
<1>6. SXResumeOk'
  <2>1. CASE sxPc' = sxPc /\ sxOut' = sxOut /\ sxLive' = sxLive
    BY <1>1, <2>1 DEF SXResumeOk
  <2>2. CASE ~(sxPc' = sxPc /\ sxOut' = sxOut /\ sxLive' = sxLive)
    <3>1. /\ sxPc[c] # "done" /\ sxPc' = [sxPc EXCEPT ![c] = to] /\ sxOut' = [sxOut EXCEPT ![c] = out]
          /\ out = SXNone <=> to # "done"
          /\ \/ sxLive' = sxLive /\ (sxPc[c] = "ending" => out = "error")
             \/ sxLive' = SXNone
             \/ sxLive' = c /\ (out = "applied" \/ to = "ending")
      BY <1>4, <2>2
    <3>2. SXNone # "applied" /\ SXNone # "error"
      BY <1>0 DEF SXOutcomes
    <3>3. ASSUME NEW d \in SXCalls, d # c PROVE sxPc'[d] = sxPc[d] /\ sxOut'[d] = sxOut[d] /\ (sxLive' = d => sxLive = d)
      BY <1>0, <3>1, <3>3 DEF SXTyped
    <3>4. sxPc'[c] = to /\ sxOut'[c] = out /\ (sxLive' = c => (to = "ending" \/ out \in {"applied", "error"}))
      BY <1>0, <1>1, <3>1 DEF SXTyped, SXResumeOk
    <3> QED BY <1>1, <3>1, <3>2, <3>3, <3>4 DEF SXResumeOk
  <2> QED BY <2>1, <2>2
<1>7. \A d \in SXCalls : sxOut'[d] # "schema_too_new"
  BY <1>0, <1>1, <1>4 DEF SXLoadOk, SXTyped, SXOutcomes
<1> QED BY <1>1, <1>5, <1>6, <1>7, SXOneHelper DEF SXUses

LEMMA SXVerifiedInd == ASSUME SXInd, NEW c \in SXCalls, SXVerified(c) PROVE SXInd'
<1> USE DEF SXInd
<1>1. sxUse = "verified" /\ UNCHANGED <<sxUse, sxMine, sxGen, sxDisposed, sxFlight>>
  BY DEF SXVerified
<1>2. PICK out \in {"applied", "revoked", "unknown"} : SXDone(c, out)
  BY DEF SXVerified
<1>3. SXTyped'
  BY <1>1, <1>2 DEF SXDone, SXTyped, SXPlaces, SXOutcomes
<1>4. \A d \in SXCalls : sxOut'[d] # "schema_too_new"
  BY <1>1, <1>2 DEF SXDone, SXLoadOk, SXTyped
<1> QED BY <1>1, <1>3, <1>4, SXOneHelper DEF SXUses

\* The auto-refresh manager.
LEMMA SXManagerInd ==
    ASSUME SXInd, SXManagerStart \/ SXManagerFire \/ SXManagerDone \/ SXManagerStop
    PROVE  SXInd'
<1> USE DEF SXInd
<1>1. sxUse = "refresh" /\ UNCHANGED <<sxUse, sxPc, sxMine, sxOut>>
  BY DEF SXManagerStart, SXManagerFire, SXManagerDone, SXManagerStop
<1>2. SXTyped'
  <2>1. CASE SXManagerStart \/ SXManagerStop
    <3>1. sxGen' = sxGen \/ sxGen' = sxGen + 1
      BY <2>1, Zenon DEF SXManagerStart, SXManagerStop
    <3>2. sxDisposed' \in BOOLEAN /\ sxFlight' = sxFlight
      BY <2>1, Zenon DEF SXManagerStart, SXManagerStop
    <3> QED BY <1>1, <3>1, <3>2 DEF SXTyped
  <2>2. CASE SXManagerFire
    BY <1>1, <2>2 DEF SXManagerFire, SXTyped
  <2>3. CASE SXManagerDone
    BY <1>1, <2>3 DEF SXManagerDone, SXTyped
  <2> QED BY <2>1, <2>2, <2>3
<1>3. SXManagerOk'
  <2>1. CASE SXManagerStart \/ SXManagerStop
    BY <1>1, <2>1 DEF SXManagerStart, SXManagerStop, SXManagerOk
  <2>2. CASE SXManagerFire
    BY <1>1, <2>2 DEF SXManagerFire, SXManagerOk
  <2>3. CASE SXManagerDone
    <3>1. UNCHANGED <<sxDisposed, sxAtStop>> /\ (sxDisposed => sxLive' = sxLive)
      BY <2>3 DEF SXManagerDone, SXApply
    <3> QED BY <1>1, <3>1 DEF SXManagerOk
  <2> QED BY <2>1, <2>2, <2>3
<1>4. \A d \in SXCalls : sxOut'[d] # "schema_too_new"
  BY <1>1 DEF SXLoadOk
<1> QED BY <1>1, <1>2, <1>3, <1>4, SXOneHelper DEF SXUses

\* A caller joins the ceremony in flight, starts one, or is refused.
LEMMA SXCeremonyInd == ASSUME SXInd, NEW c \in SXCalls, SXCeremony(c) PROVE SXInd'
<1> USE DEF SXInd
<1>1. sxUse \in {"once", "exclusive"} /\ sxPc[c] = "idle" /\ UNCHANGED <<sxUse, sxDisposed>>
  BY DEF SXCeremony
<1>2. CASE sxFlight = 0
  <2>1. /\ sxFlight' = 1 /\ sxGen' = sxGen + 1 /\ sxMine' = [sxMine EXCEPT ![c] = sxGen + 1] /\ SXGoto(c, "waits")
    BY <1>2 DEF SXCeremony
  <2>2. \A d \in SXCalls : sxPc[d] # "waits"
    BY <1>1, <1>2 DEF SXCeremonyOk
  <2>3. SXTyped'
    BY <1>1, <2>1 DEF SXGoto, SXTyped, SXPlaces
  <2>4. SXCeremonyOk'
    BY <2>1, <2>2 DEF SXCeremonyOk, SXGoto, SXTyped
  <2>5. \A d \in SXCalls : sxOut'[d] # "schema_too_new"
    BY <1>1, <2>1 DEF SXLoadOk, SXGoto
  <2> QED BY <1>1, <2>3, <2>4, <2>5, SXOneHelper DEF SXUses
<1>3. CASE sxUse = "once" /\ sxFlight > 0
  <2>1. UNCHANGED <<sxFlight, sxGen>> /\ sxMine' = [sxMine EXCEPT ![c] = sxGen] /\ SXGoto(c, "waits")
    BY <1>3 DEF SXCeremony, SXTyped
  <2>2. sxFlight = 1
    BY <1>3 DEF SXCeremonyOk, SXTyped
  <2>3. SXTyped'
    BY <1>1, <2>1 DEF SXGoto, SXTyped, SXPlaces
  <2>4. SXCeremonyOk'
    BY <1>1, <2>1, <2>2 DEF SXCeremonyOk, SXGoto, SXTyped
  <2>5. \A d \in SXCalls : sxOut'[d] # "schema_too_new"
    BY <1>1, <2>1 DEF SXLoadOk, SXGoto
  <2> QED BY <1>1, <2>3, <2>4, <2>5, SXOneHelper DEF SXUses
<1>4. CASE ~(sxFlight = 0) /\ ~(sxUse = "once" /\ sxFlight > 0)
  <2>1. UNCHANGED <<sxFlight, sxGen, sxMine>> /\ SXDone(c, "refused")
    BY <1>4 DEF SXCeremony
  <2>2. SXTyped'
    BY <1>1, <2>1 DEF SXDone, SXTyped, SXPlaces, SXOutcomes
  <2>3. SXCeremonyOk'
    BY <1>1, <2>1 DEF SXCeremonyOk, SXDone, SXTyped
  <2>4. \A d \in SXCalls : sxOut'[d] # "schema_too_new"
    BY <1>1, <2>1 DEF SXLoadOk, SXDone, SXTyped
  <2> QED BY <1>1, <2>2, <2>3, <2>4, SXOneHelper DEF SXUses
<1> QED BY <1>2, <1>3, <1>4

LEMMA SXCeremonyEndsInd == SXInd /\ SXCeremonyEnds => SXInd'
<1> SUFFICES ASSUME SXInd, SXCeremonyEnds PROVE SXInd'
  OBVIOUS
<1> USE DEF SXInd
<1>1. PICK out \in {"applied", "error"} :
        /\ sxUse \in {"once", "exclusive"} /\ sxFlight' = 0 /\ UNCHANGED <<sxUse, sxMine, sxGen, sxDisposed>>
        /\ sxPc' = [c \in SXCalls |-> IF sxPc[c] = "waits" THEN "done" ELSE sxPc[c]]
        /\ sxOut' = [c \in SXCalls |-> IF sxPc[c] = "waits" THEN out ELSE sxOut[c]]
  BY DEF SXCeremonyEnds
<1>2. SXTyped'
  BY <1>1 DEF SXTyped, SXPlaces, SXOutcomes
<1>3. SXCeremonyOk'
  BY <1>1 DEF SXCeremonyOk, SXTyped
<1>4. \A d \in SXCalls : sxOut'[d] # "schema_too_new"
  BY <1>1 DEF SXLoadOk
<1> QED BY <1>1, <1>2, <1>3, <1>4, SXOneHelper DEF SXUses

\* The retention window and the network guard.
LEMMA SXGuardsInd ==
    ASSUME SXInd, NEW c \in SXCalls, SXLoadRetained(c) \/ SXNetworkRestore(c)
    PROVE  SXInd'
<1> USE DEF SXInd
<1>1. sxUse \in {"retention", "network"} /\ UNCHANGED <<sxUse, sxMine, sxGen, sxDisposed, sxFlight>>
  BY DEF SXLoadRetained, SXNetworkRestore
<1>2. PICK out \in {"expired", "connected", "network_mismatch", "none"} : SXDone(c, out)
  BY DEF SXLoadRetained, SXNetworkRestore
<1>3. SXTyped'
  BY <1>1, <1>2 DEF SXDone, SXTyped, SXPlaces, SXOutcomes
<1>4. \A d \in SXCalls : sxOut'[d] # "schema_too_new"
  BY <1>1, <1>2 DEF SXDone, SXLoadOk, SXTyped
<1> QED BY <1>1, <1>3, <1>4, SXOneHelper DEF SXUses

\* The schema check and the versioned adapter: what is too new is neither removed nor
\* overwritten.
LEMMA SXLoadInd ==
    ASSUME SXInd, NEW c \in SXCalls, SXRestore(c) \/ SXSave(c)
    PROVE  SXInd'
<1> USE DEF SXInd
<1> DEFINE new(x) == ~assertSessionSchemaSupported(x)
<1>1. sxUse = "load" /\ UNCHANGED <<sxUse, sxMine, sxGen, sxDisposed, sxFlight>>
  BY DEF SXRestore, SXSave
<1>2. /\ \E out \in SXOutcomes : SXDone(c, out) /\ (out = "schema_too_new" => new(sxStored))
      /\ new(sxStored) => sxStored' = sxStored
      /\ new(sxStored') => sxLive' = SXNone
  <2>1. CASE SXRestore(c)
    BY <2>1 DEF SXRestore, SXOutcomes
  <2>4. CASE SXSave(c)
    <3>1. ~new([shape |-> "bare", v |-> 1, ok |-> TRUE])
      BY DEF assertSessionSchemaSupported
    <3>2. ~new(sxStored)
      BY <1>1, <2>4, Zenon DEF SXSave, SXLoadOk
    <3>3. \/ sxStored' = [shape |-> "bare", v |-> 1, ok |-> TRUE] /\ SXDone(c, "saved")
          \/ sxStored' = sxStored /\ SXDone(c, "not persisted")
      BY <2>4 DEF SXSave
    <3> HIDE DEF new
    <3> QED BY <3>1, <3>2, <3>3 DEF SXOutcomes
  <2> QED BY <2>1, <2>4
<1>3. PICK out \in SXOutcomes : SXDone(c, out) /\ (out = "schema_too_new" => new(sxStored))
  BY <1>2
<1>4. SXTyped'
  BY <1>1, <1>3 DEF SXDone, SXTyped, SXPlaces
<1>5. SXLoadOk'
  <2>1. \A d \in SXCalls : sxOut'[d] = "schema_too_new" => new(sxStored)
    BY <1>3 DEF SXDone, SXLoadOk, SXTyped
  <2> QED BY <1>1, <1>2, <2>1 DEF SXLoadOk
<1> QED BY <1>1, <1>4, <1>5, SXOneHelper DEF SXUses

LEMMA SXNextInd == SXInd /\ [SXNext]_sxVars => SXInd'
<1> SUFFICES ASSUME SXInd, [SXNext]_sxVars PROVE SXInd'
  OBVIOUS
<1>1. CASE UNCHANGED sxVars
  BY <1>1 DEF sxVars, SXInd, SXTyped, SXFresh, SXResumeOk, SXManagerOk, SXCeremonyOk, SXLoadOk
<1>2. CASE SXDispose /\ SXCalls = {}
  <2>1. sxUse = "resume" /\ UNCHANGED <<sxUse, sxPc, sxMine, sxGen, sxFlight, sxOut>> /\ sxDisposed' = TRUE
    BY <1>2 DEF SXDispose
  <2>2. SXTyped'
    BY <2>1 DEF SXInd, SXTyped
  <2> QED BY <1>2, <2>1, <2>2, SXOneHelper DEF SXUses, SXResumeOk
<1> QED BY <1>1, <1>2, SXConfigureInd, SXResumeInd, SXVerifiedInd, SXManagerInd, SXCeremonyInd, SXCeremonyEndsInd, SXGuardsInd, SXLoadInd DEF SXNext

\* The helpers around the session store (resume-guard.ts, auto-refresh-manager.ts,
\* react-strict-mode.ts, exclusive-ceremonies.ts, session-schema-guard.ts): a resume that
\* reports itself stale leaves no session of its own behind, a stopped manager takes up no
\* session, there is one ceremony at a time and everyone waiting waits for it, and the
\* schema check keeps what a newer SDK wrote; for any number of callers.
THEOREM HelpersHold == SXSpec => []SXHelpersHold
<1>1. SXInd => SXHelpersHold
  <2> SUFFICES ASSUME SXInd PROVE SXHelpersHold
    OBVIOUS
  <2> USE DEF SXInd
  <2>1. sxUse = "resume" => \A c \in SXCalls : sxOut[c] = "stale" => sxLive # c
    BY SXAssumption DEF SXResumeOk, SXOutcomes
  <2>2. \A c \in SXCalls : sxOut[c] = "schema_too_new" => ~assertSessionSchemaSupported(sxStored)
    BY DEF SXLoadOk
  <2> QED BY <2>1, <2>2 DEF SXHelpersHold, SXManagerOk, SXCeremonyOk
<1> QED BY <1>1, SXInitInd, SXNextInd, PTL DEF SXSpec
-----------------------------------------------------------------------------
(* The steps of a release. *)

\* An enumeration of a finite set lists its elements, each once.
LEMMA SetToSeqEnumerates ==
    ASSUME NEW S, IsFiniteSet(S)
    PROVE  /\ Cardinality(S) \in Nat
           /\ SetToSeq(S) \in [1 .. Cardinality(S) -> S]
           /\ IsInjective(SetToSeq(S))
<1>1. Cardinality(S) \in Nat /\ ExistsBijection(1 .. Cardinality(S), S)
  BY FS_CardinalityType
<1>2. \E f \in [1 .. Cardinality(S) -> S] : IsInjective(f)
  BY <1>1 DEF ExistsBijection, Bijection, Injection
<1> QED BY <1>1, <1>2 DEF SetToSeq

LEMMA RGChecksAreListed == Len(RGChecks) \in Nat
<1> DEFINE U == {[host |-> "facilitator", path |-> "/"], [host |-> "blog", path |-> "/"],
                 [host |-> "facilitator", path |-> "/docs"]}
           V == {[host |-> "explorer", path |-> "/"]}
           P == planChecks(U, V)
<1>1. P = {probeTargetFor([host |-> "facilitator", path |-> "/"])} \cup {probeTargetFor([host |-> "blog", path |-> "/"])}
          \cup {probeTargetFor([host |-> "facilitator", path |-> "/docs"])} \cup {probeTargetFor([host |-> "explorer", path |-> "/"])}
  BY Zenon DEF planChecks
<1>2. IsFiniteSet(P)
  <2> HIDE DEF P
  <2> QED BY <1>1, FS_Singleton, FS_Union
<1>3. RGChecks = SetToSeq(P)
  BY DEF RGChecks
<1> HIDE DEF P
<1>4. Cardinality(P) \in Nat /\ SetToSeq(P) \in [1 .. Cardinality(P) -> P]
  BY <1>2, SetToSeqEnumerates
<1>5. SetToSeq(P) \in Seq(P)
  BY <1>4
<1> QED BY <1>3, <1>5, LenProperties

\* Everything below the pool's index was answered, or a worker is at it.
RGGateInd ==
    /\ rgNext \in 1 .. Len(RGChecks) + 1
    /\ rgBusy \in [RGWorkers -> 0 .. Len(RGChecks)]
    /\ \A i \in 1 .. rgNext - 1 : i \in DOMAIN rgResults \/ \E w \in RGWorkers : rgBusy[w] = i
    /\ rgExit # -1 => RGPoolDone
    /\ rgExit = 0 => RGFailures = {}

\* What is being released, and what is still to be written.
RGVersions == Nat \X Nat \X Nat
RGRanges == [op : {"^", "*", "workspace:"}, v : RGVersions, parts : {3}]
RGEntries == [version : RGVersions, range : RGRanges, others : SUBSET RGRanges]
RGSteps == {"idle", "write", "workspaces", "done", "failed", "refused"}

RGWriterTyped ==
    /\ rgManifest \in [{RGRoot} \cup RGWorkspaces -> RGEntries]
    /\ rgRelease \in [step : RGSteps, next : RGVersions,
                      todo : SUBSET RGWorkspaces, bumps : {rgRelease.bumps}]

RGWriterInd ==
    /\ RGWriterTyped
    /\ rgRelease.step \in {"write", "workspaces"} => \A w \in rgRelease.todo : rgRelease.bumps[w] \in RGKinds
    /\ rgRelease.step = "write" => rgRelease.todo = DOMAIN rgRelease.bumps
    /\ rgRelease.step \in {"write", "workspaces", "failed"} => RGAffected(rgRelease.next) = rgRelease.todo
    /\ rgRelease.step \in {"workspaces", "done"} => rgManifest[RGRoot].version = rgRelease.next
    /\ rgRelease.step = "failed" /\ rgRelease.todo # DOMAIN rgRelease.bumps => rgManifest[RGRoot].version = rgRelease.next
    /\ rgRelease.step = "done" => RGAffected(rgRelease.next) = {}

RGRegistryInd ==
    /\ "latest" \in DOMAIN rgTags
    /\ RGLatestIsDeliberate

RGInstallInd == rgInstall \in -2 .. 8 /\ (rgScratch /\ rgInstall \in {-1, 0, 8} => rgKeep)

RGInd == RGGateInd /\ RGWriterInd /\ RGRegistryInd /\ RGInstallInd

\* A version compares equal to itself.
LEMMA RGSameVersion == ASSUME NEW v PROVE compareVersions(v, v) = 0
  BY DEF compareVersions

\* The first number that differs decides.
LEMMA RGLowerVersion ==
    ASSUME NEW v \in RGVersions, NEW w \in RGVersions, NEW k \in 1 .. 3, v[k] < w[k],
           \A j \in 1 .. 3 : j < k => v[j] = w[j]
    PROVE  compareVersions(v, w) = -1
<1> DEFINE d == {i \in 1 .. 3 : v[i] # w[i]}
<1>0. \A i \in 1 .. 3 : v[i] \in Nat /\ w[i] \in Nat
  BY DEF RGVersions
<1>1. k \in d /\ \A j \in d : k <= j
  BY <1>0
<1>2. \A i \in d : (\A j \in d : i <= j) => i = k
  BY <1>1
<1>3. (CHOOSE i \in d : \A j \in d : i <= j) = k
  BY <1>1, <1>2
<1>4. d # {} /\ compareVersions(v, w) = IF d = {} THEN 0 ELSE IF v[CHOOSE i \in d : \A j \in d : i <= j] < w[CHOOSE i \in d : \A j \in d : i <= j] THEN -1 ELSE 1
  BY <1>1, Zenon DEF compareVersions
<1> HIDE DEF d
<1> QED BY <1>3, <1>4

\* The range the writer gives a workspace admits the release it is written for.
LEMMA RGRangeAdmits ==
    ASSUME NEW v \in RGVersions
    PROVE  RGRange(v) \in RGRanges /\ RCReleaseSatisfies(v, RGRange(v))
<1>1. PICK a, b, c \in Nat : v = <<a, b, c>>
  BY DEF RGVersions
<1>2. compareVersions(v, v) = 0
  BY RGSameVersion
<1>3. compareVersions(v, upperBoundForCaret(v)) = -1
  <2>1. CASE a > 0
    <3>1. upperBoundForCaret(v) = <<a + 1, 0, 0>>
      BY <1>1, <2>1 DEF upperBoundForCaret
    <3> DEFINE u == <<a + 1, 0, 0>>
    <3>2. u \in RGVersions /\ 1 \in 1 .. 3 /\ v[1] < u[1] /\ \A j \in 1 .. 3 : j < 1 => v[j] = u[j]
      BY <1>1 DEF RGVersions
    <3> QED BY <3>1, <3>2, RGLowerVersion
  <2>2. CASE a = 0 /\ b > 0
    <3>1. upperBoundForCaret(v) = <<0, b + 1, 0>>
      BY <1>1, <2>2 DEF upperBoundForCaret
    <3> DEFINE u == <<0, b + 1, 0>>
    <3>2. u \in RGVersions /\ 2 \in 1 .. 3 /\ v[2] < u[2] /\ \A j \in 1 .. 3 : j < 2 => v[j] = u[j]
      BY <1>1, <2>2 DEF RGVersions
    <3> QED BY <3>1, <3>2, RGLowerVersion
  <2>3. CASE a = 0 /\ b = 0
    <3>1. upperBoundForCaret(v) = <<0, 0, c + 1>>
      BY <1>1, <2>3 DEF upperBoundForCaret
    <3> DEFINE u == <<0, 0, c + 1>>
    <3>2. u \in RGVersions /\ 3 \in 1 .. 3 /\ v[3] < u[3] /\ \A j \in 1 .. 3 : j < 3 => v[j] = u[j]
      BY <1>1, <2>3 DEF RGVersions
    <3> QED BY <3>1, <3>2, RGLowerVersion
  <2> QED BY <2>1, <2>2, <2>3
<1>4. RGRange(v).op = "^" /\ RGRange(v).v = v /\ RGRange(v) \in RGRanges
  BY DEF RGRange, RGRanges
<1> QED BY <1>2, <1>3, <1>4 DEF RCReleaseSatisfies

LEMMA RGInitInd == RGInit => RGInd
<1> SUFFICES ASSUME RGInit PROVE RGInd
  OBVIOUS
<1>1. RGGateInd
  <2>1. rgNext = 1 /\ rgExit = -1 /\ rgBusy = [w \in RGWorkers |-> 0]
    BY DEF RGInit
  <2> QED BY <2>1, RGChecksAreListed DEF RGGateInd
<1>2. RGWriterInd
  <2>1. <<0, 1, 1>> \in RGVersions /\ <<0, 0, 0>> \in RGVersions
    BY DEF RGVersions
  <2>2. RGRange(<<0, 1, 1>>) \in RGRanges
    BY <2>1 DEF RGRange, RGRanges
  <2>3. rgManifest \in [{RGRoot} \cup RGWorkspaces -> RGEntries]
    <3>1. [version |-> <<0, 1, 1>>, range |-> RGRange(<<0, 1, 1>>), others |-> {}] \in RGEntries
      BY <2>1, <2>2 DEF RGEntries
    <3> HIDE DEF RGEntries
    <3> QED BY <3>1 DEF RGInit
  <2>4. rgRelease = [step |-> "idle", next |-> <<0, 0, 0>>, todo |-> {}, bumps |-> <<>>]
    BY DEF RGInit
  <2>5. RGWriterTyped
    BY <2>1, <2>3, <2>4 DEF RGWriterTyped, RGSteps
  <2> QED BY <2>4, <2>5 DEF RGWriterInd
<1>3. RGRegistryInd
  BY DEF RGInit, RGRegistryInd, RGLatestIsDeliberate
<1>4. RGInstallInd
  BY DEF RGInit, RGInstallInd
<1> QED BY <1>1, <1>2, <1>3, <1>4 DEF RGInd

\* The pool of workers.
LEMMA RGGateStep == RGGateInd /\ RGGateNext => RGGateInd'
<1> SUFFICES ASSUME RGGateInd, RGGateNext PROVE RGGateInd'
  OBVIOUS
<1> DEFINE N == Len(RGChecks)
<1>0. N \in Nat
  BY RGChecksAreListed
<1> HIDE DEF N
<1>1. CASE RGAuditDefaults
  BY <1>1 DEF RGAuditDefaults, RGGateInd, RGPoolDone, RGFailures
<1>2. CASE RGReport
  <2>1. UNCHANGED <<rgNext, rgBusy, rgResults>> /\ RGPoolDone /\ (rgExit' = 0 => RGFailures = {})
    <3>1. UNCHANGED <<rgNext, rgBusy, rgResults>> /\ RGPoolDone
      BY <1>2, Zenon DEF RGReport
    <3>2. CASE RGFailures = {}
      BY <3>1, <3>2
    <3>3. CASE RGFailures # {}
      <4>1. rgExit' = 1
        BY <1>2, <3>3, Zenon DEF RGReport
      <4> QED BY <3>1, <4>1
    <3> QED BY <3>2, <3>3
  <2> QED BY <2>1 DEF RGGateInd, RGPoolDone, RGFailures
<1>3. ASSUME NEW w \in RGWorkers, RGTake(w) PROVE RGGateInd'
  <2>1. /\ rgExit = -1 /\ rgBusy[w] = 0 /\ rgNext <= N /\ rgBusy' = [rgBusy EXCEPT ![w] = rgNext]
        /\ rgNext' = rgNext + 1 /\ rgExit' = -1 /\ rgResults' = rgResults
    BY <1>3 DEF RGTake, N
  <2>2. /\ rgNext \in 1 .. N + 1 /\ rgBusy \in [RGWorkers -> 0 .. N]
        /\ \A i \in 1 .. rgNext - 1 : i \in DOMAIN rgResults \/ \E v \in RGWorkers : rgBusy[v] = i
    BY DEF RGGateInd, N
  <2>3. rgNext' \in 1 .. N + 1 /\ rgBusy' \in [RGWorkers -> 0 .. N]
    BY <1>0, <2>1, <2>2
  <2>4. ASSUME NEW i \in 1 .. rgNext' - 1 PROVE i \in DOMAIN rgResults' \/ \E v \in RGWorkers : rgBusy'[v] = i
    <3>1. CASE i = rgNext
      BY <2>1, <2>2, <3>1
    <3>2. CASE i # rgNext
      <4>1. i \in 1 .. rgNext - 1 /\ i # 0
        BY <2>1, <2>2, <3>2
      <4>2. CASE i \in DOMAIN rgResults
        BY <2>1, <4>2
      <4>3. CASE \E v \in RGWorkers : rgBusy[v] = i
        <5>1. PICK v \in RGWorkers : rgBusy[v] = i
          BY <4>3
        <5>2. v # w /\ rgBusy'[v] = i
          BY <2>1, <2>2, <4>1, <5>1
        <5> QED BY <5>2
      <4> QED BY <2>2, <4>1, <4>2, <4>3
    <3> QED BY <3>1, <3>2
  <2> QED BY <2>1, <2>3, <2>4 DEF RGGateInd, N
<1>4. ASSUME NEW w \in RGWorkers, RGProbed(w) PROVE RGGateInd'
  <2>1. /\ rgBusy[w] # 0 /\ rgBusy' = [rgBusy EXCEPT ![w] = 0] /\ rgNext' = rgNext /\ rgExit' = rgExit
        /\ DOMAIN rgResults' = DOMAIN rgResults \cup {rgBusy[w]}
    BY <1>4 DEF RGProbed
  <2>2. /\ rgNext \in 1 .. N + 1 /\ rgBusy \in [RGWorkers -> 0 .. N]
        /\ \A i \in 1 .. rgNext - 1 : i \in DOMAIN rgResults \/ \E v \in RGWorkers : rgBusy[v] = i
    BY DEF RGGateInd, N
  <2>3. rgExit = -1
    BY <2>1, Zenon DEF RGGateInd, RGPoolDone
  <2>4. rgBusy' \in [RGWorkers -> 0 .. N]
    BY <1>0, <2>1, <2>2
  <2>5. ASSUME NEW i \in 1 .. rgNext - 1 PROVE i \in DOMAIN rgResults' \/ \E v \in RGWorkers : rgBusy'[v] = i
    <3>1. CASE i \in DOMAIN rgResults
      BY <2>1, <3>1
    <3>2. CASE \E v \in RGWorkers : rgBusy[v] = i
      <4>1. PICK v \in RGWorkers : rgBusy[v] = i
        BY <3>2
      <4>2. CASE v = w
        BY <2>1, <4>1, <4>2
      <4>3. CASE v # w
        BY <2>1, <2>2, <4>1, <4>3
      <4> QED BY <4>2, <4>3
    <3> QED BY <2>2, <3>1, <3>2
  <2> QED BY <2>1, <2>2, <2>3, <2>4, <2>5 DEF RGGateInd, N
<1> QED BY <1>1, <1>2, <1>3, <1>4 DEF RGGateNext

\* Refusing leaves the manifests alone.
LEMMA RGRefuseStep == RGWriterInd /\ RGRefuse /\ UNCHANGED rgManifest => RGWriterInd'
<1> SUFFICES ASSUME RGWriterInd, RGRefuse, UNCHANGED rgManifest PROVE RGWriterInd'
  OBVIOUS
<1>1. rgRelease \in [step : RGSteps, next : RGVersions, todo : SUBSET RGWorkspaces, bumps : {rgRelease.bumps}]
  BY DEF RGWriterInd, RGWriterTyped
<1>2. /\ rgRelease'.step = "refused"
      /\ rgRelease' \in [step : RGSteps, next : RGVersions, todo : SUBSET RGWorkspaces, bumps : {rgRelease'.bumps}]
  BY <1>1 DEF RGRefuse, RGSteps
<1>3. RGWriterTyped'
  BY <1>2 DEF RGWriterInd, RGWriterTyped
<1> QED BY <1>2, <1>3 DEF RGWriterInd

\* A plan starts with every workspace that its release leaves behind.
LEMMA RGPlanStep == RGWriterInd /\ RGPlan => RGWriterInd'
<1> SUFFICES ASSUME RGWriterInd, RGPlan PROVE RGWriterInd'
  OBVIOUS
<1>1. rgManifest' = rgManifest
  BY DEF RGPlan
<1>2. PICK next \in {<<0, 2, 0>>, <<1, 0, 0>>, <<2, 0, 0>>} :
        \/ RGRefuse
        \/ \E bumps \in [RGAffected(next) -> RGKinds] :
              rgRelease' = [step |-> "write", next |-> next, todo |-> RGAffected(next), bumps |-> bumps]
  BY DEF RGPlan
<1>3. CASE RGRefuse
  BY <1>1, <1>3, RGRefuseStep
<1>4. CASE \E bumps \in [RGAffected(next) -> RGKinds] :
              rgRelease' = [step |-> "write", next |-> next, todo |-> RGAffected(next), bumps |-> bumps]
  <2>1. PICK bumps \in [RGAffected(next) -> RGKinds] :
          rgRelease' = [step |-> "write", next |-> next, todo |-> RGAffected(next), bumps |-> bumps]
    BY <1>4
  <2>2. next \in RGVersions /\ RGAffected(next) \subseteq RGWorkspaces
    BY DEF RGVersions, RGAffected
  <2>3. RGWriterTyped'
    BY <1>1, <2>1, <2>2 DEF RGWriterTyped, RGWriterInd, RGSteps
  <2>4. RGAffected(rgRelease.next)' = RGAffected(next)
    BY <1>1, <2>1 DEF RGAffected
  <2>5. /\ rgRelease'.step = "write" /\ rgRelease'.todo = RGAffected(next) /\ rgRelease'.bumps = bumps
        /\ DOMAIN bumps = RGAffected(next)
    BY <2>1
  <2> QED BY <2>3, <2>4, <2>5 DEF RGWriterInd
<1> QED BY <1>2, <1>3, <1>4

\* The declarations of the workspaces, before a release.
LEMMA RGEditStep == RGWriterInd /\ RGEdit => RGWriterInd'
<1> SUFFICES ASSUME RGWriterInd, RGEdit PROVE RGWriterInd'
  OBVIOUS
<1>1. PICK w \in RGWorkspaces, d \in RGDeclarations :
        rgManifest' = [rgManifest EXCEPT ![w] = [version |-> rgManifest[w].version, range |-> d.range, others |-> d.others]]
  BY DEF RGEdit
<1>2. rgRelease' = rgRelease /\ rgRelease.step = "idle"
  BY DEF RGEdit
<1>3. rgManifest \in [{RGRoot} \cup RGWorkspaces -> RGEntries]
  BY DEF RGWriterInd, RGWriterTyped
<1>4. d.range \in RGRanges /\ d.others \in SUBSET RGRanges
  <2>1. <<0, 1, 1>> \in RGVersions
    BY DEF RGVersions
  <2> QED BY <2>1 DEF RGDeclarations, RGRange, RGRanges
<1>5. [version |-> rgManifest[w].version, range |-> d.range, others |-> d.others] \in RGEntries
  BY <1>3, <1>4 DEF RGEntries
<1>6. rgManifest' \in [{RGRoot} \cup RGWorkspaces -> RGEntries]
  BY <1>1, <1>3, <1>5
<1>7. RGWriterTyped'
  BY <1>2, <1>6 DEF RGWriterInd, RGWriterTyped
<1> QED BY <1>2, <1>7 DEF RGWriterInd

\* Ending half-way leaves what was to be written.
LEMMA RGFailStep ==
    ASSUME RGWriterInd, rgRelease.step \in {"write", "workspaces"},
           rgRelease' = [rgRelease EXCEPT !.step = "failed"], UNCHANGED rgManifest
    PROVE  RGWriterInd'
<1>1. rgRelease \in [step : RGSteps, next : RGVersions, todo : SUBSET RGWorkspaces, bumps : {rgRelease.bumps}]
  BY DEF RGWriterInd, RGWriterTyped
<1>2. /\ rgRelease'.step = "failed" /\ rgRelease'.next = rgRelease.next
      /\ rgRelease'.todo = rgRelease.todo /\ rgRelease'.bumps = rgRelease.bumps
      /\ rgRelease' \in [step : RGSteps, next : RGVersions, todo : SUBSET RGWorkspaces, bumps : {rgRelease'.bumps}]
  BY <1>1 DEF RGSteps
<1>3. RGWriterTyped'
  BY <1>2 DEF RGWriterInd, RGWriterTyped
<1>4. RGAffected(rgRelease.next)' = rgRelease'.todo
  BY <1>2 DEF RGAffected, RGWriterInd
<1>5. rgRelease.todo # DOMAIN rgRelease.bumps => rgManifest'[RGRoot].version = rgRelease.next
  BY DEF RGWriterInd
<1> QED BY <1>2, <1>3, <1>4, <1>5 DEF RGWriterInd

LEMMA RGWriteRootStep == RGWriterInd /\ RGWriteRoot => RGWriterInd'
<1> SUFFICES ASSUME RGWriterInd, RGWriteRoot PROVE RGWriterInd'
  OBVIOUS
<1> DEFINE r == rgRelease
           after == IF r.todo = {} THEN "done" ELSE "workspaces"
<1>1. CASE /\ rgManifest' = [rgManifest EXCEPT ![RGRoot].version = r.next]
           /\ rgRelease' = [rgRelease EXCEPT !.step = after]
  <2>1. r.step = "write"
    BY DEF RGWriteRoot
  <2>2. /\ rgManifest \in [{RGRoot} \cup RGWorkspaces -> RGEntries]
        /\ rgRelease \in [step : RGSteps, next : RGVersions, todo : SUBSET RGWorkspaces, bumps : {rgRelease.bumps}]
    BY DEF RGWriterInd, RGWriterTyped
  <2>3. /\ rgManifest' \in [{RGRoot} \cup RGWorkspaces -> RGEntries]
        /\ rgManifest'[RGRoot].version = r.next
        /\ \A w \in RGWorkspaces : rgManifest'[w] = rgManifest[w]
    <3>1. rgManifest[RGRoot] \in RGEntries /\ r.next \in RGVersions
      BY <2>2
    <3>2. /\ [rgManifest[RGRoot] EXCEPT !.version = r.next] \in RGEntries
          /\ [rgManifest[RGRoot] EXCEPT !.version = r.next].version = r.next
      BY <3>1 DEF RGEntries
    <3>3. rgManifest' = [rgManifest EXCEPT ![RGRoot] = [rgManifest[RGRoot] EXCEPT !.version = r.next]]
      BY <1>1
    <3> QED BY <2>2, <3>2, <3>3, RGRootAssumption
  <2>4. /\ rgRelease'.step = after /\ rgRelease'.next = r.next /\ rgRelease'.todo = r.todo /\ rgRelease'.bumps = r.bumps
        /\ rgRelease' \in [step : RGSteps, next : RGVersions, todo : SUBSET RGWorkspaces, bumps : {rgRelease'.bumps}]
    BY <1>1, <2>2 DEF RGSteps
  <2>5. RGAffected(rgRelease.next)' = RGAffected(r.next)
    BY <2>3, <2>4 DEF RGAffected
  <2>6. /\ RGAffected(r.next) = r.todo
        /\ \A w \in r.todo : r.bumps[w] \in RGKinds
    BY <2>1 DEF RGWriterInd
  <2>7. RGWriterTyped'
    BY <2>3, <2>4 DEF RGWriterTyped
  <2> QED BY <2>3, <2>4, <2>5, <2>6, <2>7 DEF RGWriterInd
<1>2. CASE rgRelease' = [rgRelease EXCEPT !.step = "failed"] /\ UNCHANGED rgManifest
  BY <1>2, RGFailStep DEF RGWriteRoot
<1> QED BY <1>1, <1>2 DEF RGWriteRoot

\* A written workspace admits the release, and the others are as they were.
LEMMA RGWriteWorkspaceStep == RGWriterInd /\ RGWriteWorkspace => RGWriterInd'
<1> SUFFICES ASSUME RGWriterInd, RGWriteWorkspace PROVE RGWriterInd'
  OBVIOUS
<1> DEFINE r == rgRelease
<1>1. PICK w \in r.todo :
        \/ /\ RGBumpIsValid(r.bumps[w])
           /\ rgManifest' = [rgManifest EXCEPT ![w] = [version |-> bumpVersion(rgManifest[w].version, r.bumps[w]),
                                                       range |-> RGRange(r.next), others |-> rgManifest[w].others]]
           /\ rgRelease' = [rgRelease EXCEPT !.todo = r.todo \ {w},
                              !.step = IF r.todo = {w} THEN "done" ELSE r.step]
        \/ rgRelease' = [rgRelease EXCEPT !.step = "failed"] /\ UNCHANGED rgManifest
  BY DEF RGWriteWorkspace
<1>2. /\ rgManifest \in [{RGRoot} \cup RGWorkspaces -> RGEntries]
      /\ rgRelease \in [step : RGSteps, next : RGVersions, todo : SUBSET RGWorkspaces, bumps : {rgRelease.bumps}]
  BY DEF RGWriterInd, RGWriterTyped
<1>3. /\ r.step = "workspaces" /\ RGAffected(r.next) = r.todo /\ rgManifest[RGRoot].version = r.next
      /\ \A v \in r.todo : r.bumps[v] \in RGKinds
  BY DEF RGWriterInd, RGWriteWorkspace
<1> DEFINE v == rgManifest[w].version
           b == bumpVersion(v, r.bumps[w])
           e == [version |-> b, range |-> RGRange(r.next), others |-> rgManifest[w].others]
           to == IF r.todo = {w} THEN "done" ELSE "workspaces"
<1>4. CASE /\ RGBumpIsValid(r.bumps[w])
           /\ rgManifest' = [rgManifest EXCEPT ![w] = e]
           /\ rgRelease' = [rgRelease EXCEPT !.todo = r.todo \ {w}, !.step = IF r.todo = {w} THEN "done" ELSE r.step]
  <2>1. w \in RGWorkspaces /\ w # RGRoot /\ v \in RGVersions /\ r.next \in RGVersions /\ rgManifest[w].others \subseteq RGRanges
    BY <1>2, RGRootAssumption DEF RGEntries
  <2>2. b \in RGVersions
    <3>1. r.bumps[w] \in {"patch", "minor", "major", "exact"}
      BY <1>3, <1>4 DEF RGKinds, RGBumpIsValid
    <3>2. v[1] \in Nat /\ v[2] \in Nat /\ v[3] \in Nat
      BY <2>1 DEF RGVersions
    <3> HIDE DEF v
    <3> QED BY <3>1, <3>2 DEF bumpVersion, RGVersions
  <2>3. RGRange(r.next) \in RGRanges /\ RCReleaseSatisfies(r.next, RGRange(r.next))
    BY <2>1, RGRangeAdmits
  <2>4. /\ rgManifest' = [rgManifest EXCEPT ![w] = e]
        /\ rgRelease' = [rgRelease EXCEPT !.todo = r.todo \ {w}, !.step = to]
    BY <1>3, <1>4
  <2>5. e \in RGEntries /\ e.range = RGRange(r.next)
    <3> HIDE DEF b, v
    <3> QED BY <2>1, <2>2, <2>3 DEF RGEntries
  <2> HIDE DEF b, v, to, e
  <2>6. /\ rgManifest' \in [{RGRoot} \cup RGWorkspaces -> RGEntries]
        /\ rgManifest'[w].range = RGRange(r.next)
        /\ rgManifest'[RGRoot] = rgManifest[RGRoot]
        /\ \A x \in RGWorkspaces \ {w} : rgManifest'[x] = rgManifest[x]
    BY <1>2, <2>1, <2>4, <2>5
  <2>7. /\ rgRelease'.step = to /\ rgRelease'.next = r.next /\ rgRelease'.todo = r.todo \ {w}
        /\ rgRelease'.bumps = r.bumps
        /\ rgRelease' \in [step : RGSteps, next : RGVersions, todo : SUBSET RGWorkspaces, bumps : {rgRelease'.bumps}]
    BY <1>2, <2>4 DEF to, RGSteps
  <2>8. RGAffected(rgRelease.next)' = RGAffected(r.next) \ {w}
    BY <2>3, <2>6, <2>7 DEF RGAffected
  <2>9. RGWriterTyped'
    BY <2>6, <2>7 DEF RGWriterTyped
  <2> QED BY <1>3, <2>6, <2>7, <2>8, <2>9 DEF RGWriterInd, to
<1>5. CASE rgRelease' = [rgRelease EXCEPT !.step = "failed"] /\ UNCHANGED rgManifest
  BY <1>3, <1>5, RGFailStep
<1> QED BY <1>1, <1>4, <1>5

\* The dist-tags.
LEMMA RGRegistryStep == RGRegistryInd /\ RGRegistryNext => RGRegistryInd'
<1> SUFFICES ASSUME RGRegistryInd, RGRegistryNext PROVE RGRegistryInd'
  OBVIOUS
<1>1. CASE RGPublish
  <2>1. PICK version \in [n : 1 .. RGPublishes, pre : BOOLEAN] : publish(version)
    BY <1>1 DEF RGPublish
  <2>2. rgPromoted' = rgPromoted
    BY <1>1 DEF RGPublish
  <2>3. CASE version.pre
    <3>1. distTagFor(version) = "next"
      BY <2>3 DEF distTagFor
    <3>2. "latest" \in DOMAIN rgTags' /\ rgTags'["latest"] = rgTags["latest"] /\ rgPublished \subseteq rgPublished'
      BY <2>1, <3>1 DEF publish, RGRegistryInd
    <3> QED BY <2>2, <3>2 DEF RGRegistryInd, RGLatestIsDeliberate
  <2>4. CASE ~version.pre
    <3>1. distTagFor(version) = "latest"
      BY <2>4 DEF distTagFor
    <3>2. "latest" \in DOMAIN rgTags' /\ rgTags'["latest"] = version /\ version \in rgPublished'
      BY <2>1, <3>1 DEF publish, RGRegistryInd
    <3> QED BY <2>2, <2>4, <3>2 DEF RGRegistryInd, RGLatestIsDeliberate
  <2> QED BY <2>3, <2>4
<1>2. CASE RGPromote
  BY <1>2 DEF RGPromote, RGRegistryInd, RGLatestIsDeliberate
<1> QED BY <1>1, <1>2 DEF RGRegistryNext

\* The isolated install.
LEMMA RGInstallStepInd == RGInstallInd /\ RGRestNext => RGInstallInd'
<1> SUFFICES ASSUME RGInstallInd, RGRestNext PROVE RGInstallInd'
  OBVIOUS
<1>1. CASE RGInstallStart
  <2>1. rgInstall' \in {1, -2}
    BY <1>1 DEF RGInstallStart
  <2> QED BY <2>1 DEF RGInstallInd
<1>2. CASE RGInstallDirectories
  BY <1>2 DEF RGInstallDirectories, RGInstallInd
<1>3. CASE RGInstallStep
  <2>1. Len(RGInstallSteps) = 7 /\ DOMAIN RGInstallSteps = 1 .. 7
    BY DEF RGInstallSteps
  <2>2. PICK ok \in RGInstallPasses(rgInstall) :
           /\ rgInstall' = IF ok THEN rgInstall + 1 ELSE -1
           /\ rgScratch' = ((ok /\ rgInstall < Len(RGInstallSteps)) \/ rgKeep)
    BY <1>3 DEF RGInstallStep
  <2>3. rgInstall \in 2 .. 7 /\ rgKeep' = rgKeep
    BY <1>3, <2>1 DEF RGInstallStep
  <2>4. rgScratch' => ((ok /\ rgInstall < 7) \/ rgKeep')
    BY <2>1, <2>2, <2>3
  <2>5. CASE ok
    <3>1. rgInstall' = rgInstall + 1 /\ (rgScratch' => rgInstall < 7 \/ rgKeep')
      BY <2>2, <2>4, <2>5
    <3> QED BY <2>3, <3>1 DEF RGInstallInd
  <2>6. CASE ~ok
    <3>1. rgInstall' = -1 /\ (rgScratch' => rgKeep')
      BY <2>2, <2>4, <2>6
    <3> QED BY <3>1 DEF RGInstallInd
  <2> QED BY <2>5, <2>6
<1>4. CASE RGAuditLicense
  BY <1>4 DEF RGAuditLicense, RGInstallInd
<1> QED BY <1>1, <1>2, <1>3, <1>4 DEF RGRestNext

\* Each machine leaves the state of the others alone.
LEMMA RGNextInd == RGInd /\ [RGNextStep]_rgVars => RGInd'
<1> SUFFICES ASSUME RGInd, [RGNextStep]_rgVars PROVE RGInd'
  OBVIOUS
<1> USE DEF RGInd
<1>1. ASSUME UNCHANGED rgGate PROVE RGGateInd'
  BY <1>1 DEF RGGateInd, RGPoolDone, RGFailures, rgGate
<1>2. ASSUME UNCHANGED rgWriter PROVE RGWriterInd'
  <2>1. rgManifest' = rgManifest /\ rgRelease' = rgRelease
    BY <1>2 DEF rgWriter
  <2> QED BY <2>1 DEF RGWriterInd, RGWriterTyped, RGAffected
<1>3. ASSUME UNCHANGED rgRegistry PROVE RGRegistryInd'
  BY <1>3 DEF RGRegistryInd, RGLatestIsDeliberate, rgRegistry
<1>4. ASSUME UNCHANGED rgRest PROVE RGInstallInd'
  BY <1>4 DEF RGInstallInd, rgRest
<1>5. CASE RGGateNext
  <2>1. UNCHANGED rgWriter /\ UNCHANGED rgRegistry /\ UNCHANGED rgRest
    BY <1>5 DEF RGGateNext, RGAuditDefaults, RGReport, RGTake, RGProbed
  <2> QED BY <1>2, <1>3, <1>4, <1>5, <2>1, RGGateStep
<1>6. CASE RGWriterNext
  <2>1. UNCHANGED rgGate /\ UNCHANGED rgRegistry /\ UNCHANGED rgRest
    BY <1>6 DEF RGWriterNext, RGPlan, RGEdit, RGWriteRoot, RGWriteWorkspace
  <2>2. RGWriterInd'
    BY <1>6, RGPlanStep, RGEditStep, RGWriteRootStep, RGWriteWorkspaceStep DEF RGWriterNext
  <2> QED BY <1>1, <1>3, <1>4, <2>1, <2>2
<1>7. CASE RGRegistryNext
  <2>1. UNCHANGED rgGate /\ UNCHANGED rgWriter /\ UNCHANGED rgRest
    BY <1>7 DEF RGRegistryNext, RGPublish, RGPromote
  <2> QED BY <1>1, <1>2, <1>4, <1>7, <2>1, RGRegistryStep
<1>8. CASE RGRestNext
  <2>1. UNCHANGED rgGate /\ UNCHANGED rgWriter /\ UNCHANGED rgRegistry
    BY <1>8 DEF RGRestNext, RGInstallStart, RGInstallDirectories, RGInstallStep, RGAuditLicense
  <2> QED BY <1>1, <1>2, <1>3, <1>8, <2>1, RGInstallStepInd
<1>9. CASE UNCHANGED rgVars
  BY <1>1, <1>2, <1>3, <1>4, <1>9 DEF rgVars
<1> QED BY <1>5, <1>6, <1>7, <1>8, <1>9 DEF RGNextStep

\* A release (doc-url-gate.mjs, breaking-release.mjs, canary-dist-tag-rollout.ts, the
\* isolated install): the URL gate passes only when every operated URL answered, whatever
\* the number of workers; a breaking release leaves excluding ranges only in what it had
\* still to write when it stopped, of those it reads, the first of each workspace; latest
\* names a prerelease only by promotion; and the steps of an install leave its scratch
\* directory behind only under keepTemp.
THEOREM ReleaseIsGated == RGSpec => []RGReleaseIsGated
<1>1. RGInd => RGReleaseIsGated
  <2> SUFFICES ASSUME RGInd PROVE RGReleaseIsGated
    OBVIOUS
  <2>1. RGGateIsComplete
    <3> SUFFICES ASSUME rgExit = 0, NEW i \in 1 .. Len(RGChecks), RGChecks[i].gating
                 PROVE  i \in DOMAIN rgResults /\ rgResults[i]
      BY DEF RGGateIsComplete
    <3>1. RGPoolDone /\ RGFailures = {}
      BY DEF RGInd, RGGateInd
    <3>2. i \in 1 .. rgNext - 1 /\ i # 0
      BY <3>1, RGChecksAreListed DEF RGPoolDone, RGInd, RGGateInd
    <3>3. i \in DOMAIN rgResults
      BY <3>1, <3>2 DEF RGPoolDone, RGInd, RGGateInd
    <3>4. rgResults[i]
      BY <3>1, <3>3, Zenon DEF RGFailures
    <3> QED BY <3>3, <3>4
  <2>2. RGReleaseIsAccounted
    BY DEF RGInd, RGWriterInd, RGReleaseIsAccounted
  <2>3. RGLatestIsDeliberate /\ RGScratchIsRemoved
    BY DEF RGInd, RGRegistryInd, RGInstallInd, RGScratchIsRemoved
  <2> QED BY <2>1, <2>2, <2>3 DEF RGReleaseIsGated
<1> QED BY <1>1, RGInitInd, RGNextInd, PTL DEF RGSpec
-----------------------------------------------------------------------------
(* Reading in pieces. *)

\* The sorted list holds every id once, in increasing order.
LEMMA PGSortedIsSorted ==
    ASSUME NEW ids \in SUBSET Int, IsFiniteSet(ids)
    PROVE  LET n == Cardinality(ids)
               s == PGSorted(ids)
           IN  /\ n \in Nat /\ s \in [1 .. n -> ids]
               /\ \A i, j \in 1 .. n : i < j => s[i] < s[j]
               /\ \A x \in ids : \E i \in 1 .. n : s[i] = x
<1> DEFINE n == Cardinality(ids)
           s == PGSorted(ids)
           Upto(x) == {y \in ids : y <= x}
           rank == [x \in ids |-> Cardinality(Upto(x))]
<1>1. n \in Nat
  BY FS_CardinalityType
<1>2. \A x \in ids : IsFiniteSet(Upto(x)) /\ Cardinality(Upto(x)) \in Nat /\ Cardinality(Upto(x)) <= n
  BY FS_Subset, FS_CardinalityType
<1>3. \A x \in ids : Cardinality(Upto(x)) >= 1
  <2> TAKE x \in ids
  <2>1. x \in Upto(x)
    OBVIOUS
  <2>2. Cardinality(Upto(x)) # 0
    BY <1>2, <2>1, FS_EmptySet
  <2> QED BY <1>2, <2>2
<1>4. ASSUME NEW x \in ids, NEW y \in ids, x < y PROVE Cardinality(Upto(x)) < Cardinality(Upto(y))
  <2>1. Upto(x) \subseteq Upto(y) /\ y \in Upto(y) /\ y \notin Upto(x)
    <3>1. x \in Int /\ y \in Int /\ \A z \in ids : z \in Int
      OBVIOUS
    <3>2. \A z \in ids : z <= x => z <= y
      BY <1>4, <3>1
    <3>3. y <= y /\ ~(y <= x)
      BY <1>4, <3>1
    <3> QED BY <3>2, <3>3
  <2>2. Cardinality(Upto(x)) <= Cardinality(Upto(y)) /\ Cardinality(Upto(y)) # Cardinality(Upto(x))
    BY <1>2, <2>1, FS_Subset
  <2> QED BY <1>2, <2>2
<1> HIDE DEF Upto
<1>5. rank \in [ids -> 1 .. n]
  BY <1>1, <1>2, <1>3
<1>6. \A x, y \in ids : x < y => rank[x] < rank[y]
  BY <1>4
<1>7. IsInjective(rank)
  <2>1. ASSUME NEW x \in ids, NEW y \in ids, rank[x] = rank[y] PROVE x = y
    <3>1. rank[x] \in Int /\ rank[y] \in Int
      BY <1>5, <1>1
    <3>2. ~(x < y) /\ ~(y < x)
      BY <1>6, <2>1, <3>1
    <3> QED BY <3>2
  <2>2. DOMAIN rank = ids
    OBVIOUS
  <2> HIDE DEF rank
  <2> QED BY <2>1, <2>2 DEF IsInjective
<1>8. rank \in Surjection(ids, 1 .. n)
  <2>1. rank \in Injection(ids, 1 .. n)
    BY <1>5, <1>7 DEF Injection
  <2>2. IsFiniteSet(1 .. n) /\ Cardinality(1 .. n) = n
    BY <1>1, FS_Interval
  <2> QED BY <2>1, <2>2, FS_Injection
<1>9. \A k \in 1 .. n : \E x \in ids : rank[x] = k
  BY <1>8 DEF Surjection
<1>10. \A k \in 1 .. n : s[k] \in ids /\ rank[s[k]] = k
  <2>1. \A k \in 1 .. n : s[k] = CHOOSE x \in ids : Cardinality(Upto(x)) = k
    BY DEF PGSorted, Upto
  <2>2. \A k \in 1 .. n : \E x \in ids : Cardinality(Upto(x)) = k
    BY <1>9
  <2> HIDE DEF s
  <2>3. \A k \in 1 .. n : s[k] \in ids /\ Cardinality(Upto(s[k])) = k
    BY <2>1, <2>2
  <2> QED BY <2>3
<1>11. s \in [1 .. n -> ids]
  <2> DEFINE kth(k) == CHOOSE r \in ids : Cardinality({x \in ids : x <= r}) = k
  <2>1. s = [k \in 1 .. n |-> kth(k)]
    BY Zenon DEF PGSorted
  <2> HIDE DEF s, n, kth
  <2>2. \A k \in 1 .. n : s[k] = kth(k)
    BY <2>1
  <2>3. \A k \in 1 .. n : kth(k) \in ids
    BY <1>10, <2>2
  <2> QED BY <2>1, <2>3
<1> HIDE DEF rank, s, n
<1>12. ASSUME NEW i \in 1 .. n, NEW j \in 1 .. n, i < j PROVE s[i] < s[j]
  <2>1. s[i] \in Int /\ s[j] \in Int /\ s[i] \in ids /\ s[j] \in ids
    BY <1>10
  <2>2. ~(s[j] < s[i]) /\ s[i] # s[j]
    BY <1>1, <1>6, <1>10, <1>12, <2>1
  <2> QED BY <2>1, <2>2
<1>13. ASSUME NEW x \in ids PROVE \E i \in 1 .. n : s[i] = x
  <2>1. rank[x] \in 1 .. n /\ rank[s[rank[x]]] = rank[x] /\ s[rank[x]] \in ids
    BY <1>5, <1>10
  <2>2. DOMAIN rank = ids
    BY <1>5
  <2>3. s[rank[x]] = x
    BY <1>7, <2>1, <2>2 DEF IsInjective
  <2> QED BY <2>1, <2>3
<1> QED BY <1>1, <1>11, <1>12, <1>13 DEF n, s

\* A set of places that holds every earlier one is counted by its last.
LEMMA PGPrefixIsCounted ==
    ASSUME NEW n \in Nat, NEW D \in SUBSET (1 .. n), \A j \in D : \A i \in 1 .. n : i < j => i \in D
    PROVE  Cardinality(D) \in 0 .. n /\ \A i \in 1 .. n : i \in D <=> i <= Cardinality(D)
<1> DEFINE T == {k \in Nat : k <= n => \E m \in 0 .. k : D \cap (1 .. k) = 1 .. m}
<1>1. 0 \in T
  <2>1. D \cap (1 .. 0) = 1 .. 0
    OBVIOUS
  <2> QED BY <2>1
<1>2. ASSUME NEW k \in T PROVE k + 1 \in T
  <2> SUFFICES ASSUME k + 1 <= n PROVE \E m \in 0 .. k + 1 : D \cap (1 .. k + 1) = 1 .. m
    OBVIOUS
  <2>1. PICK m \in 0 .. k : D \cap (1 .. k) = 1 .. m
    OBVIOUS
  <2>2. CASE k + 1 \in D
    <3>1. D \cap (1 .. k + 1) = 1 .. k + 1
      BY <2>2
    <3> QED BY <3>1
  <2>3. CASE k + 1 \notin D
    <3>1. D \cap (1 .. k + 1) = 1 .. m
      BY <2>1, <2>3
    <3> QED BY <3>1
  <2> QED BY <2>2, <2>3
<1>3. T = Nat
  <2>1. T \in SUBSET Nat
    OBVIOUS
  <2> HIDE DEF T
  <2> QED BY <1>1, <1>2, <2>1, SetInduction
<1>4. PICK m \in 0 .. n : D = 1 .. m
  <2>1. \E m \in 0 .. n : D \cap (1 .. n) = 1 .. m
    BY <1>3
  <2>2. D \cap (1 .. n) = D
    OBVIOUS
  <2> QED BY <2>1, <2>2
<1>5. Cardinality(D) = m
  BY <1>4, FS_Interval
<1> QED BY <1>4, <1>5

\* One page after the anchor a: it goes on in order, skips nothing up to its last
\* entry, and is the last one only when nothing is left.  -1 is before every id.
LEMMA PGPageIsSound ==
    ASSUME NEW catalog, NEW q, NEW cursor, NEW a \in Int,
           DOMAIN catalog \subseteq PGIds, q.limit \in PGPageSizes,
           IF cursor = <<>> THEN a = -1 ELSE decodeCursor(cursor)[1] = a
    PROVE  LET out == paginateResources(catalog, q, cursor)
               page == out.resources
               M == {r \in DOMAIN catalog : matchesFilters(catalog[r], q)}
           IN  /\ page \in Seq(PGIds)
               /\ \A i \in 1 .. Len(page) : a < page[i]
               /\ \A i, j \in 1 .. Len(page) : i < j => page[i] < page[j]
               /\ out.next_cursor = <<>> => \A x \in M : a < x => \E i \in 1 .. Len(page) : page[i] = x
               /\ out.next_cursor # <<>> => \E b \in PGIds :
                     /\ decodeCursor(out.next_cursor)[1] = b /\ a < b
                     /\ \A i \in 1 .. Len(page) : page[i] <= b
                     /\ \A x \in M : a < x /\ x <= b => \E i \in 1 .. Len(page) : page[i] = x
<1> DEFINE M == {r \in DOMAIN catalog : matchesFilters(catalog[r], q)}
           f == PGSorted(M)
           n == Cardinality(M)
           start == PGStart(f, cursor)
           end == PGAtMost(start + q.limit, n)
           page == SubSeq(f, start + 1, end)
           more == start + Len(page) < n
           next == IF more /\ page # <<>> THEN encodeCursor(<<Last(page)>>) ELSE <<>>
<1>1. M \in SUBSET Int /\ IsFiniteSet(M) /\ \A x \in M : x \in PGIds /\ x \in 0 .. 255
  <2>1. M \in SUBSET (0 .. 255) /\ \A x \in M : x \in PGIds
    BY PGPagesAssumption
  <2>2. IsFiniteSet(0 .. 255)
    <3>1. 0 \in Int /\ 255 \in Int
      OBVIOUS
    <3> QED BY ONLY <3>1, FS_Interval
  <2> HIDE DEF M
  <2>3. IsFiniteSet(M)
    BY <2>1, <2>2, FS_Subset
  <2> QED BY <2>1, <2>3
<1>2. paginateResources(catalog, q, cursor) = [resources |-> SubSeq(f, start + 1, PGAtMost(start + q.limit, Len(f))),
          next_cursor |-> IF start + Len(SubSeq(f, start + 1, PGAtMost(start + q.limit, Len(f)))) < Len(f)
                             /\ SubSeq(f, start + 1, PGAtMost(start + q.limit, Len(f))) # <<>>
                          THEN encodeCursor(<<Last(SubSeq(f, start + 1, PGAtMost(start + q.limit, Len(f))))>>) ELSE <<>>]
  BY Zenon DEF paginateResources
<1> HIDE DEF M
<1>3. /\ n \in Nat /\ f \in [1 .. n -> M]
      /\ \A i, j \in 1 .. n : i < j => f[i] < f[j]
      /\ \A x \in M : \E i \in 1 .. n : f[i] = x
  BY <1>1, PGSortedIsSorted
<1> HIDE DEF f, n
<1>4. Len(f) = n
  BY <1>3
<1>5. paginateResources(catalog, q, cursor) = [resources |-> page, next_cursor |-> next]
  BY <1>2, <1>4
<1>6. start \in 0 .. n /\ \A i \in 1 .. n : f[i] <= a <=> i <= start
  <2>1. CASE cursor = <<>>
    <3>1. start = 0 /\ a = -1
      BY <2>1 DEF PGStart
    <3>2. \A i \in 1 .. n : f[i] \in 0 .. 255
      BY <1>1, <1>3
    <3>3. \A i \in 1 .. n : ~(f[i] <= -1)
      <4>1. \A v \in 0 .. 255 : ~(v <= -1)
        OBVIOUS
      <4> QED BY <3>2, <4>1, Zenon
    <3>4. \A i \in 1 .. n : ~(i <= 0)
      BY <1>3
    <3>5. 0 \in 0 .. n
      BY <1>3
    <3> HIDE DEF start
    <3> QED BY <3>1, <3>3, <3>4, <3>5, Zenon
  <2>2. CASE cursor # <<>>
    <3> DEFINE D == {i \in 1 .. n : f[i] <= a}
    <3>1. start = Cardinality(D)
      BY <1>4, <2>2 DEF PGStart
    <3> HIDE DEF start
    <3>2. \A j \in D : \A i \in 1 .. n : i < j => i \in D
      <4> SUFFICES ASSUME NEW j \in D, NEW i \in 1 .. n, i < j PROVE f[i] <= a
        OBVIOUS
      <4>1. f[i] \in Int /\ f[j] \in Int /\ f[j] <= a /\ f[i] < f[j]
        BY <1>1, <1>3
      <4> QED BY <4>1
    <3>3. \A i \in 1 .. n : i \in D <=> f[i] <= a
      OBVIOUS
    <3>4. D \in SUBSET (1 .. n)
      OBVIOUS
    <3> HIDE DEF D
    <3>5. Cardinality(D) \in 0 .. n /\ \A i \in 1 .. n : i \in D <=> i <= Cardinality(D)
      BY <1>3, <3>2, <3>4, PGPrefixIsCounted
    <3> QED BY <3>1, <3>3, <3>5
  <2> QED BY <2>1, <2>2
<1> HIDE DEF start
<1>7. /\ end \in start .. n /\ (end < n => end >= start + 1)
  BY <1>3, <1>6, PGPagesAssumption DEF PGAtMost, PGPageSizes
<1> HIDE DEF end
<1>8. /\ page \in Seq(M) /\ Len(page) = end - start
      /\ \A i \in 1 .. end - start : page[i] = f[start + i]
  <2>1. start + 1 \in Int /\ end \in Int /\ \A i \in start + 1 .. end : f[i] \in M
    BY <1>3, <1>6, <1>7
  <2>2. /\ SubSeq(f, start + 1, end) \in Seq(M)
        /\ Len(SubSeq(f, start + 1, end)) = IF start + 1 <= end THEN end - (start + 1) + 1 ELSE 0
        /\ \A i \in 1 .. end - (start + 1) + 1 : SubSeq(f, start + 1, end)[i] = f[(start + 1) + i - 1]
    BY ONLY <2>1, SubSeqProperties
  <2>3. Len(page) = end - start
    BY <1>3, <1>6, <1>7, <2>2
  <2>4. \A i \in 1 .. end - start : page[i] = f[start + i]
    <3> HIDE DEF page
    <3> SUFFICES ASSUME NEW i \in 1 .. end - start PROVE page[i] = f[start + i]
      OBVIOUS
    <3>1. (start + 1) + i - 1 = start + i /\ i \in 1 .. end - (start + 1) + 1
      BY <1>3, <1>6, <1>7
    <3> QED BY <2>2, <3>1 DEF page
  <2> QED BY <2>2, <2>3, <2>4
<1> HIDE DEF page
<1>9. page \in Seq(PGIds)
  BY <1>1, <1>8, SeqMonotonic
<1>10. ASSUME NEW i \in 1 .. Len(page) PROVE /\ a < page[i] /\ page[i] \in 0 .. 255
                                            /\ start + i \in 1 .. n /\ page[i] = f[start + i]
  <2>1. start + i \in 1 .. n /\ ~(start + i <= start) /\ page[i] = f[start + i]
    BY <1>3, <1>6, <1>7, <1>8
  <2>2. f[start + i] \in 0 .. 255 /\ ~(f[start + i] <= a)
    BY <1>1, <1>3, <1>6, <2>1
  <2>3. \A v \in 0 .. 255 : ~(v <= a) => a < v
    OBVIOUS
  <2> QED BY <2>1, <2>2, <2>3
<1>11. ASSUME NEW i \in 1 .. Len(page), NEW j \in 1 .. Len(page), i < j PROVE page[i] < page[j]
  <2>1. start + i < start + j
    BY <1>3, <1>6, <1>7, <1>8, <1>11
  <2> QED BY <1>3, <1>10, <2>1
<1>12. ASSUME NEW k \in 1 .. n, start < k, k <= end PROVE \E i \in 1 .. Len(page) : page[i] = f[k]
  <2>1. k - start \in 1 .. Len(page) /\ start + (k - start) = k
    BY <1>3, <1>6, <1>7, <1>8, <1>12
  <2> QED BY <1>8, <2>1
<1>13. ASSUME next = <<>>, NEW x \in M, a < x PROVE \E i \in 1 .. Len(page) : page[i] = x
  <2>1. end = n
    <3> SUFFICES ASSUME end < n PROVE FALSE
      BY <1>7, <1>3, <1>6
    <3>1. Len(page) >= 1 /\ start + Len(page) < n
      BY <1>3, <1>6, <1>7, <1>8
    <3>2. page # <<>>
      BY <1>8, <3>1
    <3>3. Last(page) \in 0 .. 255
      BY <1>8, <1>10, <3>1 DEF Last
    <3> QED BY <1>13, <3>1, <3>2, <3>3, PGByteCursors
  <2>2. PICK k \in 1 .. n : f[k] = x
    BY <1>3
  <2>3. start < k
    BY <1>1, <1>6, <1>13, <2>2
  <2> QED BY <1>12, <2>1, <2>2, <2>3
<1>14. ASSUME next # <<>>
       PROVE  \E b \in PGIds : /\ decodeCursor(next)[1] = b /\ a < b
                               /\ \A i \in 1 .. Len(page) : page[i] <= b
                               /\ \A x \in M : a < x /\ x <= b => \E i \in 1 .. Len(page) : page[i] = x
  <2>1. page # <<>> /\ next = encodeCursor(<<Last(page)>>)
    BY <1>14
  <2>2. Len(page) \in 1 .. n /\ end \in 1 .. n /\ start + Len(page) = end
    BY <1>3, <1>6, <1>7, <1>8, <2>1
  <2> DEFINE b == Last(page)
  <2>3. b = page[Len(page)] /\ b = f[end] /\ b \in 0 .. 255 /\ a < b
    BY <1>10, <2>2 DEF Last
  <2>4. b \in PGIds
    <3>1. f[end] \in M
      BY <1>3, <2>2
    <3> QED BY <1>1, <2>3, <3>1
  <2>5. decodeCursor(next)[1] = b
    <3>1. decodeCursor(encodeCursor(<<b>>)) = <<b>>
      BY <2>3, PGByteCursors
    <3> QED BY <2>1, <3>1
  <2>6. \A i \in 1 .. Len(page) : page[i] <= b
    <3> SUFFICES ASSUME NEW i \in 1 .. Len(page) PROVE page[i] <= b
      OBVIOUS
    <3> HIDE DEF b
    <3>0. page[i] \in Int /\ b \in Int /\ Len(page) \in 1 .. Len(page)
      <4>1. page[i] \in 0 .. 255 /\ b \in 0 .. 255
        BY <1>10, <2>3
      <4>2. \A v \in 0 .. 255 : v \in Int
        OBVIOUS
      <4>3. Len(page) \in 1 .. Len(page)
        BY <2>2, <1>3
      <4> QED BY <4>1, <4>2, <4>3
    <3>1. CASE i = Len(page)
      <4>1. page[i] = b
        BY <2>3, <3>1, Zenon
      <4> QED BY <3>0, <4>1
    <3>2. CASE i # Len(page)
      <4>1. i < Len(page)
        BY <2>2, <3>2
      <4>2. page[i] < page[Len(page)]
        BY <1>11, <3>0, <4>1
      <4> QED BY <2>3, <3>0, <4>2
    <3> QED BY <3>1, <3>2
  <2>7. ASSUME NEW x \in M, a < x, x <= b PROVE \E i \in 1 .. Len(page) : page[i] = x
    <3>1. PICK k \in 1 .. n : f[k] = x
      BY <1>3
    <3>2. start < k
      BY <1>1, <1>6, <2>7, <3>1
    <3>3. k <= end
      <4> SUFFICES ASSUME end < k PROVE FALSE
        BY <1>3, <2>2
      <4>1. f[end] < f[k] /\ x \in Int /\ b \in Int
        BY <1>1, <1>3, <2>2, <2>3
      <4>2. b < x
        BY <2>3, <3>1, <4>1
      <4> HIDE DEF b
      <4> QED BY <2>7, <4>1, <4>2
    <3> QED BY <1>12, <3>1, <3>2, <3>3
  <2> HIDE DEF b, next
  <2> QED BY <2>3, <2>4, <2>5, <2>6, <2>7
<1> HIDE DEF next
<1>15. /\ paginateResources(catalog, q, cursor).resources = page
       /\ paginateResources(catalog, q, cursor).next_cursor = next
  BY <1>5
<1> QED BY <1>9, <1>10, <1>11, <1>13, <1>14, <1>15 DEF M

PGIncreasing(s) == \A i, j \in 1 .. Len(s) : i < j => s[i] < s[j]

PGHolds(s, x) == \E i \in 1 .. Len(s) : s[i] = x

\* Every listing that stayed and is not after the anchor has been returned.
PGWalked(a) == /\ decodeCursor(pgWalk.cursor)[1] = a
               /\ \A i \in 1 .. Len(pgSeen) : pgSeen[i] <= a
               /\ \A r \in pgStable : r <= a => PGHolds(pgSeen, r)

PGWalkInd ==
    /\ DOMAIN pgCatalog \subseteq PGIds
    /\ pgWalk \in [state : {"idle", "walking", "done", "refused"}, query : {pgWalk.query}, cursor : {pgWalk.cursor}]
    /\ pgSeen \in Seq(PGIds) /\ PGIncreasing(pgSeen)
    /\ pgWalk.state \in {"idle", "refused"} => pgSeen = <<>> /\ pgStable = {}
    /\ pgWalk.state = "walking" =>
         /\ pgWalk.query.limit \in PGPageSizes /\ pgWalk.cursor # <<>>
         /\ \A r \in pgStable : r \in DOMAIN pgCatalog /\ matchesFilters(pgCatalog[r], pgWalk.query)
         /\ \E a \in PGIds : PGWalked(a)
    /\ pgWalk.state = "done" => \A r \in pgStable : PGHolds(pgSeen, r)


LEMMA PGIdsAreInts == \A x \in PGIds : x \in Int /\ -1 < x
<1>1. \A v \in 0 .. 255 : v \in Int /\ -1 < v
  OBVIOUS
<1> QED BY <1>1, PGPagesAssumption

LEMMA PGSeqOfIds == ASSUME NEW s \in Seq(PGIds) PROVE \A i \in 1 .. Len(s) : s[i] \in Int
<1>1. \A i \in 1 .. Len(s) : s[i] \in PGIds
  BY ElementOfSeq
<1> QED BY <1>1, PGIdsAreInts

\* Numbers in increasing order stay so when greater ones follow.
LEMMA PGIncreasingConcat ==
    ASSUME NEW s \in Seq(PGIds), NEW t \in Seq(PGIds), NEW a \in Int, PGIncreasing(s), PGIncreasing(t),
           \A i \in 1 .. Len(s) : s[i] <= a, \A i \in 1 .. Len(t) : a < t[i]
    PROVE  /\ s \o t \in Seq(PGIds) /\ PGIncreasing(s \o t)
           /\ \A x : PGHolds(s \o t, x) <=> PGHolds(s, x) \/ PGHolds(t, x)
           /\ \A i \in 1 .. Len(s \o t) : (s \o t)[i] <= a \/ \E j \in 1 .. Len(t) : (s \o t)[i] = t[j]
<1> DEFINE u == s \o t
<1>1. /\ u \in Seq(PGIds) /\ Len(u) = Len(s) + Len(t) /\ Len(s) \in Nat /\ Len(t) \in Nat
      /\ \A i \in 1 .. Len(s) + Len(t) : u[i] = IF i <= Len(s) THEN s[i] ELSE t[i - Len(s)]
  <2>1. Len(s) \in Nat /\ Len(t) \in Nat
    BY ONLY s \in Seq(PGIds), t \in Seq(PGIds), LenProperties
  <2>2. /\ u \in Seq(PGIds) /\ Len(u) = Len(s) + Len(t)
        /\ \A i \in 1 .. Len(s) + Len(t) : u[i] = IF i <= Len(s) THEN s[i] ELSE t[i - Len(s)]
    BY ONLY s \in Seq(PGIds), t \in Seq(PGIds), ConcatProperties
  <2> QED BY <2>1, <2>2
<1> HIDE DEF u
<1>2. \A i \in 1 .. Len(s) : s[i] \in Int
  BY PGSeqOfIds
<1>3. \A i \in 1 .. Len(t) : t[i] \in Int
  BY PGSeqOfIds
<1>4. \A i \in 1 .. Len(u) : \/ i \in 1 .. Len(s) /\ u[i] = s[i]
                             \/ Len(s) < i /\ i - Len(s) \in 1 .. Len(t) /\ u[i] = t[i - Len(s)]
  <2> SUFFICES ASSUME NEW i \in 1 .. Len(u)
               PROVE  \/ i \in 1 .. Len(s) /\ u[i] = s[i]
                      \/ Len(s) < i /\ i - Len(s) \in 1 .. Len(t) /\ u[i] = t[i - Len(s)]
    OBVIOUS
  <2>1. /\ i \in 1 .. Len(s) + Len(t) /\ i \in Nat /\ Len(s) \in Nat /\ Len(t) \in Nat
        /\ u[i] = IF i <= Len(s) THEN s[i] ELSE t[i - Len(s)]
    BY <1>1
  <2>2. CASE i <= Len(s)
    BY <2>1, <2>2
  <2>3. CASE ~(i <= Len(s))
    BY <2>1, <2>3
  <2> QED BY <2>2, <2>3
<1>5. \A i \in 1 .. Len(s) : i \in 1 .. Len(u) /\ u[i] = s[i]
  <2> SUFFICES ASSUME NEW i \in 1 .. Len(s) PROVE i \in 1 .. Len(u) /\ u[i] = s[i]
    OBVIOUS
  <2>1. i \in 1 .. Len(s) + Len(t) /\ i <= Len(s)
    BY <1>1
  <2> QED BY <1>1, <2>1
<1>6. \A i \in 1 .. Len(t) : i + Len(s) \in 1 .. Len(u) /\ u[i + Len(s)] = t[i]
  <2> SUFFICES ASSUME NEW i \in 1 .. Len(t) PROVE i + Len(s) \in 1 .. Len(u) /\ u[i + Len(s)] = t[i]
    OBVIOUS
  <2>1. i + Len(s) \in 1 .. Len(s) + Len(t) /\ ~(i + Len(s) <= Len(s)) /\ i + Len(s) - Len(s) = i
    BY <1>1
  <2> QED BY <1>1, <2>1
<1>7. ASSUME NEW i \in 1 .. Len(u), NEW j \in 1 .. Len(u), i < j PROVE u[i] < u[j]
  <2>1. CASE j \in 1 .. Len(s) /\ u[j] = s[j]
    <3>1. i \in 1 .. Len(s) /\ u[i] = s[i]
      BY <1>1, <1>5, <1>7, <2>1
    <3> QED BY <1>7, <2>1, <3>1 DEF PGIncreasing
  <2>2. CASE i \in 1 .. Len(s) /\ u[i] = s[i] /\ j - Len(s) \in 1 .. Len(t) /\ u[j] = t[j - Len(s)]
    <3>1. u[i] \in Int /\ u[i] <= a
      BY <1>2, <2>2
    <3>2. u[j] \in Int /\ a < u[j]
      BY <1>3, <2>2
    <3> QED BY <3>1, <3>2
  <2>3. CASE i - Len(s) \in 1 .. Len(t) /\ u[i] = t[i - Len(s)] /\ j - Len(s) \in 1 .. Len(t) /\ u[j] = t[j - Len(s)]
    <3>1. i - Len(s) < j - Len(s)
      BY <1>1, <1>7
    <3> QED BY <2>3, <3>1 DEF PGIncreasing
  <2> QED BY <1>4, <2>1, <2>2, <2>3
<1>8. \A x : PGHolds(u, x) <=> PGHolds(s, x) \/ PGHolds(t, x)
  BY <1>4, <1>5, <1>6 DEF PGHolds
<1>9. \A i \in 1 .. Len(u) : u[i] <= a \/ \E j \in 1 .. Len(t) : u[i] = t[j]
  BY <1>4
<1> QED BY <1>1, <1>7, <1>8, <1>9 DEF PGIncreasing, u

LEMMA PGDiscoverInd == PGWalkInd /\ PGDiscover => PGWalkInd'
<1> SUFFICES ASSUME PGWalkInd, PGDiscover PROVE PGWalkInd'
  OBVIOUS
<1>1. PICK q \in PGQueries :
        IF q.limit \notin PGPageSizes
        THEN /\ pgWalk' = [state |-> "refused", query |-> q, cursor |-> <<>>]
             /\ UNCHANGED <<pgSeen, pgStable>>
        ELSE LET page == paginateResources(pgCatalog, q, <<>>)
             IN /\ pgSeen' = page.resources
                /\ pgStable' = {r \in DOMAIN pgCatalog : matchesFilters(pgCatalog[r], q)}
                /\ pgWalk' = [state |-> IF page.next_cursor = <<>> THEN "done" ELSE "walking",
                              query |-> q, cursor |-> page.next_cursor]
  BY DEF PGDiscover
<1>2. pgWalk.state = "idle" /\ pgCatalog' = pgCatalog
  BY DEF PGDiscover
<1>3. CASE q.limit \notin PGPageSizes
  <2>1. pgWalk' = [state |-> "refused", query |-> q, cursor |-> <<>>] /\ UNCHANGED <<pgSeen, pgStable>>
    BY <1>1, <1>3
  <2> QED BY <1>2, <2>1 DEF PGWalkInd, PGIncreasing
<1>4. CASE q.limit \in PGPageSizes
  <2> DEFINE out == paginateResources(pgCatalog, q, <<>>)
             page == out.resources
             M == {r \in DOMAIN pgCatalog : matchesFilters(pgCatalog[r], q)}
  <2>1. /\ pgSeen' = page /\ pgStable' = M
        /\ pgWalk' = [state |-> IF out.next_cursor = <<>> THEN "done" ELSE "walking",
                      query |-> q, cursor |-> out.next_cursor]
    BY <1>1, <1>4
  <2>2. /\ page \in Seq(PGIds)
        /\ \A i \in 1 .. Len(page) : -1 < page[i]
        /\ \A i, j \in 1 .. Len(page) : i < j => page[i] < page[j]
        /\ out.next_cursor = <<>> => \A x \in M : -1 < x => \E i \in 1 .. Len(page) : page[i] = x
        /\ out.next_cursor # <<>> => \E b \in PGIds :
              /\ decodeCursor(out.next_cursor)[1] = b /\ -1 < b
              /\ \A i \in 1 .. Len(page) : page[i] <= b
              /\ \A x \in M : -1 < x /\ x <= b => \E i \in 1 .. Len(page) : page[i] = x
    <3>1. -1 \in Int /\ DOMAIN pgCatalog \subseteq PGIds
      BY DEF PGWalkInd
    <3> QED BY <1>4, <3>1, PGPageIsSound
  <2>3. \A x \in M : -1 < x
    BY PGIdsAreInts DEF PGWalkInd
  <2>4. \A r \in M : r \in DOMAIN pgCatalog /\ matchesFilters(pgCatalog[r], q)
    OBVIOUS
  <2> HIDE DEF out, M
  <2>5. CASE out.next_cursor = <<>>
    <3>1. pgWalk' = [state |-> "done", query |-> q, cursor |-> out.next_cursor]
      BY <2>1, <2>5
    <3>2. \A r \in M : PGHolds(page, r)
      BY <2>2, <2>3, <2>5 DEF PGHolds
    <3> HIDE DEF page
    <3> QED BY <1>2, <2>1, <2>2, <3>1, <3>2 DEF PGWalkInd, PGIncreasing
  <2>6. CASE out.next_cursor # <<>>
    <3>1. pgWalk' = [state |-> "walking", query |-> q, cursor |-> out.next_cursor]
      BY <2>1, <2>6
    <3>2. PICK b \in PGIds : /\ decodeCursor(out.next_cursor)[1] = b
                             /\ \A i \in 1 .. Len(page) : page[i] <= b
                             /\ \A x \in M : x <= b => PGHolds(page, x)
      BY <2>2, <2>3, <2>6 DEF PGHolds
    <3> HIDE DEF page
    <3>3. PGWalked(b)'
      BY <2>1, <3>1, <3>2 DEF PGWalked
    <3> QED BY <1>2, <1>4, <2>1, <2>2, <2>4, <2>6, <3>1, <3>3 DEF PGWalkInd, PGIncreasing
  <2> QED BY <2>5, <2>6
<1> QED BY <1>3, <1>4

LEMMA PGNextPageInd == PGWalkInd /\ PGNextPage => PGWalkInd'
<1> SUFFICES ASSUME PGWalkInd, PGNextPage PROVE PGWalkInd'
  OBVIOUS
<1> DEFINE q == pgWalk.query
           out == paginateResources(pgCatalog, q, pgWalk.cursor)
           page == out.resources
           to == IF out.next_cursor = <<>> THEN "done" ELSE "walking"
           M == {r \in DOMAIN pgCatalog : matchesFilters(pgCatalog[r], q)}
<1>1. /\ pgWalk.state = "walking" /\ pgSeen' = pgSeen \o page /\ pgCatalog' = pgCatalog /\ pgStable' = pgStable
      /\ pgWalk' = [pgWalk EXCEPT !.cursor = out.next_cursor, !.state = to]
  BY DEF PGNextPage
<1>2. PICK a \in PGIds : PGWalked(a)
  BY <1>1 DEF PGWalkInd
<1>3. a \in Int
  BY PGIdsAreInts
<1>4. /\ DOMAIN pgCatalog \subseteq PGIds /\ q.limit \in PGPageSizes /\ pgWalk.cursor # <<>>
      /\ \A r \in pgStable : r \in M
  BY <1>1 DEF PGWalkInd
<1>5. /\ page \in Seq(PGIds)
      /\ \A i \in 1 .. Len(page) : a < page[i]
      /\ \A i, j \in 1 .. Len(page) : i < j => page[i] < page[j]
      /\ out.next_cursor = <<>> => \A x \in M : a < x => \E i \in 1 .. Len(page) : page[i] = x
      /\ out.next_cursor # <<>> => \E b \in PGIds :
            /\ decodeCursor(out.next_cursor)[1] = b /\ a < b
            /\ \A i \in 1 .. Len(page) : page[i] <= b
            /\ \A x \in M : a < x /\ x <= b => \E i \in 1 .. Len(page) : page[i] = x
  <2>1. IF pgWalk.cursor = <<>> THEN a = -1 ELSE decodeCursor(pgWalk.cursor)[1] = a
    BY <1>2, <1>4 DEF PGWalked
  <2> QED BY <1>3, <1>4, <2>1, PGPageIsSound
<1>6. pgWalk' = [state |-> to, query |-> q, cursor |-> out.next_cursor]
  BY <1>1 DEF PGWalkInd
<1> HIDE DEF out, page
<1>7. /\ pgSeen' \in Seq(PGIds) /\ PGIncreasing(pgSeen')
      /\ \A x : PGHolds(pgSeen', x) <=> PGHolds(pgSeen, x) \/ PGHolds(page, x)
      /\ \A i \in 1 .. Len(pgSeen') : pgSeen'[i] <= a \/ \E j \in 1 .. Len(page) : pgSeen'[i] = page[j]
  <2>1. PGIncreasing(page) /\ PGIncreasing(pgSeen) /\ pgSeen \in Seq(PGIds)
    BY <1>5 DEF PGWalkInd, PGIncreasing
  <2>2. \A i \in 1 .. Len(pgSeen) : pgSeen[i] <= a
    BY <1>2 DEF PGWalked
  <2>3. page \in Seq(PGIds) /\ \A i \in 1 .. Len(page) : a < page[i]
    BY <1>5
  <2>4. pgSeen' = pgSeen \o page
    BY <1>1
  <2> QED BY ONLY <1>3, <2>1, <2>2, <2>3, <2>4, PGIncreasingConcat
<1>8. \A r \in pgStable : r \in Int /\ (r <= a => PGHolds(pgSeen, r))
  BY <1>2, <1>4, PGIdsAreInts DEF PGWalked
<1>9. CASE out.next_cursor = <<>>
  <2>1. ASSUME NEW r \in pgStable PROVE PGHolds(pgSeen', r)
    <3>1. CASE r <= a
      BY <1>7, <1>8, <3>1
    <3>2. CASE ~(r <= a)
      <4>1. a < r
        BY <1>3, <1>8, <3>2
      <4>2. PGHolds(page, r)
        BY <1>4, <1>5, <1>9, <4>1 DEF PGHolds
      <4> QED BY <1>7, <4>2
    <3> QED BY <3>1, <3>2
  <2>2. pgWalk' = [state |-> "done", query |-> q, cursor |-> out.next_cursor]
    BY <1>6, <1>9
  <2> HIDE DEF M, q
  <2>3. /\ pgWalk'.state = "done"
        /\ pgWalk' \in [state : {"idle", "walking", "done", "refused"}, query : {(pgWalk').query}, cursor : {(pgWalk').cursor}]
    BY <2>2
  <2> QED BY <1>1, <1>4, <1>7, <2>1, <2>3 DEF PGWalkInd
<1>10. CASE out.next_cursor # <<>>
  <2>1. PICK b \in PGIds : /\ decodeCursor(out.next_cursor)[1] = b /\ a < b
                           /\ \A i \in 1 .. Len(page) : page[i] <= b
                           /\ \A x \in M : a < x /\ x <= b => \E i \in 1 .. Len(page) : page[i] = x
    BY <1>5, <1>10
  <2>2. pgWalk' = [state |-> "walking", query |-> q, cursor |-> out.next_cursor]
    BY <1>6, <1>10
  <2>3. b \in Int
    BY PGIdsAreInts
  <2>4. ASSUME NEW i \in 1 .. Len(pgSeen') PROVE pgSeen'[i] <= b
    <3>1. pgSeen'[i] \in Int
      BY <1>7, PGSeqOfIds
    <3>2. CASE pgSeen'[i] <= a
      BY <1>3, <2>1, <2>3, <3>1, <3>2
    <3>3. CASE \E j \in 1 .. Len(page) : pgSeen'[i] = page[j]
      BY <2>1, <3>3
    <3> QED BY <1>7, <3>2, <3>3
  <2>5. ASSUME NEW r \in pgStable, r <= b PROVE PGHolds(pgSeen', r)
    <3>1. CASE r <= a
      BY <1>7, <1>8, <3>1
    <3>2. CASE ~(r <= a)
      <4>1. a < r
        BY <1>3, <1>8, <3>2
      <4>2. PGHolds(page, r)
        BY <1>4, <2>1, <2>5, <4>1 DEF PGHolds
      <4> QED BY <1>7, <4>2
    <3> QED BY <3>1, <3>2
  <2>6. PGWalked(b)'
    BY <1>1, <2>1, <2>2, <2>4, <2>5 DEF PGWalked
  <2>7. \A r \in pgStable : r \in DOMAIN pgCatalog /\ matchesFilters(pgCatalog[r], q)
    BY <1>4
  <2> HIDE DEF M, to, q
  <2>8. /\ pgWalk'.state = "walking" /\ pgWalk'.query = q /\ pgWalk'.cursor # <<>>
        /\ pgWalk' \in [state : {"idle", "walking", "done", "refused"}, query : {(pgWalk').query}, cursor : {(pgWalk').cursor}]
    BY <1>10, <2>2
  <2> QED BY <1>1, <1>4, <1>7, <2>6, <2>7, <2>8 DEF PGWalkInd
<1> QED BY <1>9, <1>10

\* A listing that goes is no longer owed; one that comes was not.
LEMMA PGCatalogInd == PGWalkInd /\ PGCatalogChanges => PGWalkInd'
<1> SUFFICES ASSUME PGWalkInd, PGCatalogChanges PROVE PGWalkInd'
  OBVIOUS
<1>1. pgWalk' = pgWalk /\ pgSeen' = pgSeen
  BY DEF PGCatalogChanges
<1>2. /\ DOMAIN pgCatalog' \subseteq PGIds /\ pgStable' \subseteq pgStable
      /\ \A r \in pgStable' : r \in DOMAIN pgCatalog => r \in DOMAIN pgCatalog' /\ pgCatalog'[r] = pgCatalog[r]
  <2>0. DOMAIN pgCatalog \subseteq PGIds
    BY DEF PGWalkInd
  <2>1. PICK r \in PGIds :
          IF r \in DOMAIN pgCatalog
          THEN /\ pgCatalog' = [x \in DOMAIN pgCatalog \ {r} |-> pgCatalog[x]]
               /\ pgStable' = pgStable \ {r}
          ELSE /\ \E offer \in PGOffers :
                    pgCatalog' = [x \in DOMAIN pgCatalog \cup {r} |->
                                    IF x = r THEN offer ELSE pgCatalog[x]]
               /\ UNCHANGED pgStable
    BY DEF PGCatalogChanges
  <2>2. CASE r \in DOMAIN pgCatalog
    BY <2>0, <2>1, <2>2
  <2>3. CASE r \notin DOMAIN pgCatalog
    <3>1. PICK offer \in PGOffers : pgCatalog' = [x \in DOMAIN pgCatalog \cup {r} |->
                                                    IF x = r THEN offer ELSE pgCatalog[x]]
      BY <2>1, <2>3
    <3> QED BY <2>0, <2>1, <2>3, <3>1
  <2> QED BY <2>2, <2>3
<1>3. pgWalk.state = "walking" =>
         /\ \A r \in pgStable' : r \in DOMAIN pgCatalog' /\ matchesFilters(pgCatalog'[r], pgWalk.query)
         /\ \E a \in PGIds : PGWalked(a)'
  <2> SUFFICES ASSUME pgWalk.state = "walking"
               PROVE  /\ \A r \in pgStable' : r \in DOMAIN pgCatalog' /\ matchesFilters(pgCatalog'[r], pgWalk.query)
                      /\ \E a \in PGIds : PGWalked(a)'
    OBVIOUS
  <2>1. \A r \in pgStable : r \in DOMAIN pgCatalog /\ matchesFilters(pgCatalog[r], pgWalk.query)
    BY DEF PGWalkInd
  <2>2. PICK a \in PGIds : PGWalked(a)
    BY DEF PGWalkInd
  <2>3. PGWalked(a)'
    BY <1>1, <1>2, <2>2 DEF PGWalked
  <2> QED BY <1>2, <2>1, <2>3
<1> QED BY <1>1, <1>2, <1>3 DEF PGWalkInd

LEMMA PGNewWalkInd == PGWalkInd /\ PGNewWalk => PGWalkInd'
<1> SUFFICES ASSUME PGWalkInd, PGNewWalk PROVE PGWalkInd'
  OBVIOUS
<1>1. pgCatalog' = pgCatalog /\ pgWalk' = PGNoWalk /\ pgSeen' = <<>> /\ pgStable' = {}
  BY DEF PGNewWalk
<1>2. <<>> \in Seq(PGIds) /\ PGIncreasing(<<>>)
  BY DEF PGIncreasing
<1>3. /\ PGNoWalk.state = "idle"
      /\ PGNoWalk \in [state : {"idle", "walking", "done", "refused"}, query : {PGNoWalk.query}, cursor : {PGNoWalk.cursor}]
  BY DEF PGNoWalk
<1> QED BY <1>1, <1>2, <1>3 DEF PGWalkInd

\* A new element at the end of a sequence without repetitions.
LEMMA PGAppendNew ==
    ASSUME NEW S, NEW s \in Seq(S), NEW e \in S, IsInjective(s), e \notin ToSet(s)
    PROVE  /\ Append(s, e) \in Seq(S) /\ IsInjective(Append(s, e))
           /\ ToSet(Append(s, e)) = ToSet(s) \cup {e}
<1> DEFINE u == Append(s, e)
<1>1. /\ u \in Seq(S) /\ Len(u) = Len(s) + 1 /\ u[Len(s) + 1] = e
      /\ \A i \in 1 .. Len(s) : u[i] = s[i]
  BY ONLY s \in Seq(S), e \in S, AppendProperties
<1>2. Len(s) \in Nat /\ DOMAIN s = 1 .. Len(s)
  BY ONLY s \in Seq(S), LenProperties
<1>3. DOMAIN u = 1 .. Len(s) + 1
  BY ONLY <1>1, LenProperties
<1> HIDE DEF u
<1>4. \A i \in DOMAIN u : i = Len(s) + 1 \/ i \in DOMAIN s
  BY <1>2, <1>3
<1>5. \A i \in DOMAIN s : i \in DOMAIN u /\ u[i] = s[i] /\ s[i] # e
  BY <1>1, <1>2, <1>3 DEF ToSet
<1>6. Len(s) + 1 \in DOMAIN u
  BY <1>2, <1>3
<1>7. IsInjective(u)
  <2> SUFFICES ASSUME NEW a \in DOMAIN u, NEW b \in DOMAIN u, u[a] = u[b] PROVE a = b
    BY DEF IsInjective
  <2>1. CASE a = Len(s) + 1 /\ b = Len(s) + 1
    BY <2>1
  <2>2. CASE a \in DOMAIN s /\ b \in DOMAIN s
    BY <1>5, <2>2 DEF IsInjective
  <2>3. CASE a \in DOMAIN s /\ b = Len(s) + 1
    BY <1>1, <1>5, <2>3
  <2>4. CASE b \in DOMAIN s /\ a = Len(s) + 1
    BY <1>1, <1>5, <2>4
  <2> QED BY <1>4, <2>1, <2>2, <2>3, <2>4
<1>8. ToSet(u) = ToSet(s) \cup {e}
  <2>1. ASSUME NEW x \in ToSet(u) PROVE x \in ToSet(s) \cup {e}
    <3>1. PICK i \in DOMAIN u : x = u[i]
      BY DEF ToSet
    <3> QED BY <1>1, <1>4, <1>5, <3>1 DEF ToSet
  <2>2. ASSUME NEW x \in ToSet(s) \cup {e} PROVE x \in ToSet(u)
    BY <1>1, <1>5, <1>6 DEF ToSet
  <2> QED BY <2>1, <2>2
<1> QED BY <1>1, <1>7, <1>8 DEF u

PGMergeStep(g, history, batch, i) ==
    IF i = 0 THEN history
    ELSE IF batch[i] \in ToSet(g[i - 1]) THEN g[i - 1]
    ELSE Append(g[i - 1], batch[i])

PGIsMerge(g, history, batch, n) == g = [i \in 0 .. n |-> PGMergeStep(g, history, batch, i)]

\* The loop of mergeBatch is well defined.
LEMMA PGMergeExists ==
    ASSUME NEW history, NEW batch, NEW n \in Nat
    PROVE  \E g : PGIsMerge(g, history, batch, n)
<1> USE DEF PGIsMerge
<1> DEFINE T == {m \in Nat : \E g : g = [i \in 0 .. m |-> PGMergeStep(g, history, batch, i)]}
<1>1. 0 \in T
  <2> DEFINE g == [i \in 0 .. 0 |-> history]
  <2>1. \A i \in 0 .. 0 : PGMergeStep(g, history, batch, i) = history
    BY DEF PGMergeStep
  <2>2. g = [i \in 0 .. 0 |-> PGMergeStep(g, history, batch, i)]
    BY <2>1
  <2> QED BY <2>2
<1>2. ASSUME NEW m \in T PROVE m + 1 \in T
  <2>1. PICK g : g = [i \in 0 .. m |-> PGMergeStep(g, history, batch, i)]
    OBVIOUS
  <2> DEFINE h == [i \in 0 .. m + 1 |-> PGMergeStep(g, history, batch, i)]
  <2>2. \A i \in 0 .. m : i \in 0 .. m + 1
    OBVIOUS
  <2>3. \A i \in 0 .. m : h[i] = g[i]
    BY <2>1, <2>2, Zenon
  <2>4. ASSUME NEW i \in 0 .. m + 1
        PROVE  PGMergeStep(g, history, batch, i) = PGMergeStep(h, history, batch, i)
    <3>1. CASE i = 0
      BY <3>1 DEF PGMergeStep
    <3>2. CASE i # 0
      <4>1. i - 1 \in 0 .. m
        BY <3>2
      <4>2. h[i - 1] = g[i - 1]
        BY <2>3, <4>1
      <4> HIDE DEF h
      <4> QED BY <3>2, <4>2 DEF PGMergeStep
    <3> QED BY <3>1, <3>2
  <2>5. h = [i \in 0 .. m + 1 |-> PGMergeStep(h, history, batch, i)]
    BY <2>4, Zenon
  <2> HIDE DEF h
  <2>6. \E gg : gg = [i \in 0 .. m + 1 |-> PGMergeStep(gg, history, batch, i)]
    BY <2>5
  <2> QED BY <2>6
<1> HIDE DEF T
<1>3. T \subseteq Nat
  BY DEF T
<1>4. T = Nat
  BY <1>1, <1>2, <1>3, SetInduction
<1> QED BY <1>4 DEF T

\* mergeBatch: no transaction twice, and either the history grew or it is the same.
LEMMA PGMergeIsSound ==
    ASSUME NEW history \in Seq(Nat), NEW batch \in Seq(Nat), IsInjective(history)
    PROVE  LET new == mergeBatch(history, batch)
           IN  /\ new \in Seq(Nat) /\ IsInjective(new)
               /\ new = history \/ Len(history) < Len(new)
<1> DEFINE n == Len(batch)
           merged == CHOOSE g : PGIsMerge(g, history, batch, n)
           Good(s) == /\ s \in Seq(Nat) /\ IsInjective(s)
                      /\ s = history \/ Len(history) < Len(s)
           T == {m \in Nat : m <= n => Good(merged[m])}
<1>1. n \in Nat /\ \A i \in 1 .. n : batch[i] \in Nat
  BY LenProperties, ElementOfSeq
<1>2. mergeBatch(history, batch) = merged[n]
  BY Zenon DEF mergeBatch, PGMergeStep, PGIsMerge
<1>3. merged = [i \in 0 .. n |-> PGMergeStep(merged, history, batch, i)]
  <2>1. \E g : PGIsMerge(g, history, batch, n)
    BY <1>1, PGMergeExists
  <2>2. PGIsMerge(merged, history, batch, n)
    BY <2>1
  <2> HIDE DEF merged, n
  <2> QED BY <2>2 DEF PGIsMerge
<1> HIDE DEF merged, n
<1>4. Good(merged[0])
  <2>1. merged[0] = history
    BY <1>1, <1>3 DEF PGMergeStep
  <2> QED BY <2>1
<1>5. ASSUME NEW m \in Nat, m + 1 <= n, Good(merged[m]) PROVE Good(merged[m + 1])
  <2> DEFINE s == merged[m]
             e == batch[m + 1]
  <2>1. merged[m + 1] = IF e \in ToSet(s) THEN s ELSE Append(s, e)
    <3>1. m + 1 \in 0 .. n /\ m + 1 # 0 /\ (m + 1) - 1 = m
      BY <1>1, <1>5
    <3>2. merged[m + 1] = PGMergeStep(merged, history, batch, m + 1)
      BY <1>3, <3>1
    <3> QED BY <3>1, <3>2 DEF PGMergeStep
  <2>2. e \in Nat /\ s \in Seq(Nat) /\ IsInjective(s)
    BY <1>1, <1>5
  <2>3. CASE e \in ToSet(s)
    BY <1>5, <2>1, <2>3
  <2>4. CASE e \notin ToSet(s)
    <3>1. Append(s, e) \in Seq(Nat) /\ IsInjective(Append(s, e))
      BY <2>2, <2>4, PGAppendNew
    <3>2. Len(Append(s, e)) = Len(s) + 1 /\ Len(s) \in Nat /\ Len(history) \in Nat
      BY <2>2, AppendProperties, LenProperties
    <3>3. s = history \/ Len(history) < Len(s)
      BY <1>5
    <3> HIDE DEF s, e
    <3>4. Len(history) < Len(Append(s, e))
      BY <3>2, <3>3
    <3> QED BY <2>1, <2>4, <3>1, <3>4
  <2> QED BY <2>3, <2>4
<1> HIDE DEF Good
<1>6. 0 \in T
  BY <1>4
<1>7. ASSUME NEW m \in T PROVE m + 1 \in T
  BY <1>1, <1>5
<1> HIDE DEF T
<1>8. T \subseteq Nat
  BY DEF T
<1>9. T = Nat
  BY <1>6, <1>7, <1>8, SetInduction
<1>10. Good(merged[n])
  BY <1>1, <1>9 DEF T
<1> QED BY <1>2, <1>10 DEF Good

PGHistoryInd ==
    /\ pgLedger \in Nat /\ pgPolls \subseteq Seq(Nat)
    /\ pgHistory \in Seq(Nat) /\ PGHistoryIsDeduplicated

LEMMA PGHistoryStep == PGHistoryInd /\ PGSyncNext => PGHistoryInd'
<1> SUFFICES ASSUME PGHistoryInd, PGSyncNext PROVE PGHistoryInd'
  OBVIOUS
<1> USE DEF PGHistoryInd, PGHistoryIsDeduplicated
<1>1. CASE PGTransaction
  <2>1. pgLedger' = pgLedger + 1 /\ UNCHANGED <<pgPolls, pgHistory, pgLastId>>
    BY <1>1 DEF PGTransaction
  <2> QED BY <2>1
<1>2. ASSUME PGIssuePoll PROVE pgPolls' \subseteq Seq(Nat)
  <2>1. PICK batch \in PGBatches : pgPolls' = pgPolls \cup {batch}
    BY <1>2 DEF PGIssuePoll
  <2>2. PICK lo \in 0 .. pgLedger : batch = [i \in 1 .. pgLedger - lo |-> lo + i]
    BY DEF PGBatches
  <2>3. pgLedger - lo \in Nat /\ \A i \in 1 .. pgLedger - lo : lo + i \in Nat
    OBVIOUS
  <2>4. batch \in Seq(Nat)
    BY <2>2, <2>3
  <2> QED BY <2>1, <2>4
<1>3. CASE PGStartWorker
  BY <1>2, <1>3 DEF PGStartWorker
<1>4. CASE PGInterval
  BY <1>2, <1>4 DEF PGInterval
<1>5. CASE PGStopWorker
  BY <1>5 DEF PGStopWorker
<1>6. CASE PGMerge
  <2>1. PICK batch \in pgPolls :
          /\ pgPolls' = pgPolls \ {batch}
          /\ pgHistory' = mergeBatch(pgHistory, batch)
          /\ pgLastId' = IF Len(pgHistory') > Len(pgHistory) THEN Last(pgHistory') ELSE pgLastId
          /\ pgLedger' = pgLedger
    BY <1>6 DEF PGMerge
  <2>2. /\ pgHistory' \in Seq(Nat) /\ IsInjective(pgHistory')
        /\ pgHistory' = pgHistory \/ Len(pgHistory) < Len(pgHistory')
    BY <2>1, PGMergeIsSound
  <2>3. Len(pgHistory) \in Nat /\ Len(pgHistory') \in Nat
    BY <2>2, LenProperties
  <2>4. CASE pgHistory' = pgHistory
    <3>1. ~(Len(pgHistory') > Len(pgHistory))
      BY <2>3, <2>4
    <3> QED BY <2>1, <2>2, <2>4, <3>1
  <2>5. CASE Len(pgHistory) < Len(pgHistory')
    <3>1. pgLastId' = Last(pgHistory')
      BY <2>1, <2>5
    <3>2. pgHistory' # <<>>
      BY <2>3, <2>5, EmptySeq
    <3> QED BY <2>1, <2>2, <3>1, <3>2
  <2> QED BY <2>2, <2>4, <2>5
<1> QED BY <1>1, <1>3, <1>4, <1>5, <1>6 DEF PGSyncNext

\* Taking the first n of a queue without repetitions.
LEMMA PGTakeFirst ==
    ASSUME NEW S, NEW s \in Seq(S), IsInjective(s), NEW n \in 0 .. Len(s)
    PROVE  LET t == SubSeq(s, 1, n)
               r == SubSeq(s, n + 1, Len(s))
           IN  /\ IsFiniteSet(ToSet(t)) /\ Cardinality(ToSet(t)) = n
               /\ r \in Seq(S) /\ Len(r) = Len(s) - n /\ IsInjective(r)
               /\ ToSet(t) \subseteq ToSet(s) /\ ToSet(r) \subseteq ToSet(s)
               /\ ToSet(t) \cap ToSet(r) = {}
<1> DEFINE t == SubSeq(s, 1, n)
           r == SubSeq(s, n + 1, Len(s))
<1>1. Len(s) \in Nat /\ DOMAIN s = 1 .. Len(s) /\ \A i \in 1 .. Len(s) : s[i] \in S
  BY LenProperties, ElementOfSeq
<1>2. t \in Seq(S) /\ Len(t) = n /\ \A i \in 1 .. n : t[i] = s[i]
  <2>1. 1 \in Int /\ n \in Int /\ \A i \in 1 .. n : s[i] \in S
    BY <1>1
  <2>2. /\ t \in Seq(S) /\ Len(t) = (IF 1 <= n THEN n - 1 + 1 ELSE 0)
        /\ \A i \in 1 .. n - 1 + 1 : t[i] = s[1 + i - 1]
    BY ONLY <2>1, SubSeqProperties
  <2> HIDE DEF t
  <2>0. n \in Nat
    BY <1>1
  <2>3. n - 1 + 1 = n /\ Len(t) = n
    <3>1. Len(t) = IF 1 <= n THEN n - 1 + 1 ELSE 0
      BY <2>2
    <3> QED BY ONLY <2>0, <3>1
  <2>4. \A i \in 1 .. n : 1 + i - 1 = i
    BY <1>1
  <2> QED BY <2>2, <2>3, <2>4
<1>3. r \in Seq(S) /\ Len(r) = Len(s) - n /\ \A i \in 1 .. Len(s) - n : r[i] = s[n + i]
  <2>1. n + 1 \in Int /\ Len(s) \in Int /\ \A i \in n + 1 .. Len(s) : s[i] \in S
    BY <1>1
  <2>2. /\ r \in Seq(S) /\ Len(r) = (IF n + 1 <= Len(s) THEN Len(s) - (n + 1) + 1 ELSE 0)
        /\ \A i \in 1 .. Len(s) - (n + 1) + 1 : r[i] = s[n + 1 + i - 1]
    BY ONLY <2>1, SubSeqProperties
  <2> HIDE DEF r
  <2>3. Len(r) = Len(s) - n /\ Len(s) - (n + 1) + 1 = Len(s) - n
    <3>1. n \in Nat /\ Len(s) \in Nat /\ n <= Len(s)
      BY <1>1
    <3>2. Len(r) = IF n + 1 <= Len(s) THEN Len(s) - (n + 1) + 1 ELSE 0
      BY <2>2
    <3> QED BY ONLY <3>1, <3>2
  <2>4. \A i \in 1 .. Len(s) - n : n + 1 + i - 1 = n + i
    BY <1>1
  <2> QED BY <2>2, <2>3, <2>4
<1>4. DOMAIN t = 1 .. n
  BY ONLY <1>2, LenProperties
<1>5. DOMAIN r = 1 .. Len(s) - n
  BY ONLY <1>3, LenProperties
<1> HIDE DEF t, r
<1>6. \A i \in DOMAIN t : i \in DOMAIN s /\ i <= n /\ t[i] = s[i]
  BY <1>1, <1>2, <1>4
<1>7. \A i \in DOMAIN r : n + i \in DOMAIN s /\ n < n + i /\ r[i] = s[n + i]
  BY <1>1, <1>3, <1>5
<1>8. IsFiniteSet(ToSet(t)) /\ Cardinality(ToSet(t)) = n
  <2>1. t \in Bijection(1 .. n, ToSet(t))
    <3>1. t = [i \in 1 .. n |-> t[i]]
      BY ONLY <1>2, <1>4, SeqDef, t \in Seq(S)
    <3>2. t \in [1 .. n -> ToSet(t)]
      BY <1>4, <3>1 DEF ToSet
    <3>3. \A a, b \in 1 .. n : t[a] = t[b] => a = b
      BY <1>4, <1>6 DEF IsInjective
    <3>4. \A x \in ToSet(t) : \E a \in 1 .. n : t[a] = x
      BY <1>4 DEF ToSet
    <3> QED BY <1>4, <3>2, <3>3, <3>4 DEF Bijection, Injection, Surjection, IsInjective
  <2>2. IsFiniteSet(1 .. n) /\ Cardinality(1 .. n) = n
    BY <1>1, FS_Interval
  <2>3. ExistsBijection(1 .. n, ToSet(t))
    BY <2>1 DEF ExistsBijection
  <2> QED BY <2>2, <2>3, FS_Bijection
<1>9. IsInjective(r)
  <2> SUFFICES ASSUME NEW a \in DOMAIN r, NEW b \in DOMAIN r, r[a] = r[b] PROVE a = b
    BY DEF IsInjective
  <2>1. n + a = n + b
    BY <1>7 DEF IsInjective
  <2> QED BY <1>1, <1>5, <2>1
<1>10. ToSet(t) \subseteq ToSet(s) /\ ToSet(r) \subseteq ToSet(s)
  BY <1>6, <1>7 DEF ToSet
<1>11. ToSet(t) \cap ToSet(r) = {}
  <2> SUFFICES ASSUME NEW i \in DOMAIN t, NEW j \in DOMAIN r, t[i] = r[j] PROVE FALSE
    BY DEF ToSet
  <2>1. i = n + j
    BY <1>6, <1>7 DEF IsInjective
  <2> QED BY <1>1, <1>4, <1>5, <1>6, <1>7, <2>1
<1> QED BY <1>3, <1>8, <1>9, <1>10, <1>11 DEF t, r

\* What waits is not in flight, and no slot is free while something waits.
PGQueueInd ==
    /\ pgQueue \in Seq(PGTasks) /\ IsInjective(pgQueue)
    /\ ToSet(pgQueue) \cap pgActive = {}
    /\ IsFiniteSet(pgActive) /\ Cardinality(pgActive) <= PGSlots
    /\ PGNoSlotIsWasted

LEMMA PGDrainFills ==
    ASSUME NEW queue \in Seq(PGTasks), NEW active, IsInjective(queue), ToSet(queue) \cap active = {},
           IsFiniteSet(active), Cardinality(active) <= PGSlots, PGDrain(queue, active)
    PROVE  PGQueueInd'
<1> DEFINE free == PGSlots - Cardinality(active)
           n == IF free < Len(queue) THEN free ELSE Len(queue)
           t == SubSeq(queue, 1, n)
           r == SubSeq(queue, n + 1, Len(queue))
<1>1. pgQueue' = r /\ pgActive' = active \cup ToSet(t)
  BY DEF PGDrain
<1>2. PGSlots \in Nat /\ Cardinality(active) \in Nat /\ Len(queue) \in Nat
  BY PGSlotsAssumption, FS_CardinalityType, LenProperties
<1>3. n \in 0 .. Len(queue) /\ n <= free /\ (n = free \/ n = Len(queue))
  BY <1>2
<1>4. /\ IsFiniteSet(ToSet(t)) /\ Cardinality(ToSet(t)) = n
      /\ r \in Seq(PGTasks) /\ Len(r) = Len(queue) - n /\ IsInjective(r)
      /\ ToSet(t) \subseteq ToSet(queue) /\ ToSet(r) \subseteq ToSet(queue)
      /\ ToSet(t) \cap ToSet(r) = {}
  <2> HIDE DEF n
  <2> QED BY <1>3, PGTakeFirst
<1> HIDE DEF n, t, r
<1>5. IsFiniteSet(pgActive') /\ Cardinality(pgActive') = Cardinality(active) + n
  <2>1. active \cap ToSet(t) = {}
    BY <1>4
  <2>2. /\ IsFiniteSet(active \cup ToSet(t))
        /\ Cardinality(active \cup ToSet(t)) = Cardinality(active) + Cardinality(ToSet(t)) - Cardinality(active \cap ToSet(t))
    BY <1>4, FS_Union
  <2>3. Cardinality(active \cap ToSet(t)) = 0
    BY <2>1, FS_EmptySet
  <2> QED BY <1>1, <1>2, <1>3, <1>4, <2>2, <2>3
<1>6. ToSet(pgQueue') \cap pgActive' = {}
  BY <1>1, <1>4
<1>7. Cardinality(pgActive') <= PGSlots
  BY <1>2, <1>3, <1>5
<1>8. pgQueue' # <<>> => Cardinality(pgActive') = PGSlots
  <2> SUFFICES ASSUME r # <<>> PROVE Cardinality(pgActive') = PGSlots
    BY <1>1
  <2>1. Len(r) # 0
    BY <1>4, EmptySeq
  <2> QED BY <1>2, <1>3, <1>4, <1>5, <2>1
<1> QED BY <1>1, <1>4, <1>5, <1>6, <1>7, <1>8 DEF PGQueueInd, PGNoSlotIsWasted

LEMMA PGQueueStep == PGQueueInd /\ PGFetchNext => PGQueueInd'
<1> SUFFICES ASSUME PGQueueInd, PGFetchNext PROVE PGQueueInd'
  OBVIOUS
<1>1. CASE PGEnqueue
  <2>1. PICK e \in PGTasks \ (pgActive \cup ToSet(pgQueue)) : PGDrain(Append(pgQueue, e), pgActive)
    BY <1>1 DEF PGEnqueue
  <2> DEFINE queue == Append(pgQueue, e)
  <2>2. queue \in Seq(PGTasks) /\ IsInjective(queue) /\ ToSet(queue) = ToSet(pgQueue) \cup {e}
    BY PGAppendNew DEF PGQueueInd
  <2> HIDE DEF queue
  <2>3. ToSet(queue) \cap pgActive = {}
    BY <2>2 DEF PGQueueInd
  <2>4. PGDrain(queue, pgActive)
    BY <2>1 DEF queue
  <2>5. IsFiniteSet(pgActive) /\ Cardinality(pgActive) <= PGSlots
    BY DEF PGQueueInd
  <2> QED BY ONLY <2>2, <2>3, <2>4, <2>5, PGDrainFills
<1>2. CASE PGSettled
  <2>1. PICK e \in pgActive : PGDrain(pgQueue, pgActive \ {e})
    BY <1>2 DEF PGSettled
  <2>2. /\ IsFiniteSet(pgActive \ {e}) /\ Cardinality(pgActive) \in Nat
        /\ Cardinality(pgActive \ {e}) = Cardinality(pgActive) - 1
    BY FS_RemoveElement, FS_CardinalityType DEF PGQueueInd
  <2>3. Cardinality(pgActive \ {e}) <= PGSlots /\ ToSet(pgQueue) \cap (pgActive \ {e}) = {}
    BY <2>2, PGSlotsAssumption DEF PGQueueInd
  <2>4. pgQueue \in Seq(PGTasks) /\ IsInjective(pgQueue)
    BY DEF PGQueueInd
  <2> QED BY ONLY <2>1, <2>2, <2>3, <2>4, PGDrainFills
<1> QED BY <1>1, <1>2 DEF PGFetchNext

PGInd == PGWalkInd /\ PGHistoryInd /\ PGQueueInd

LEMMA PGInitInd == PGInit => PGInd
<1> SUFFICES ASSUME PGInit PROVE PGInd
  OBVIOUS
<1>1. PGWalkInd
  <2>1. /\ PGNoWalk.state = "idle"
        /\ PGNoWalk \in [state : {"idle", "walking", "done", "refused"}, query : {PGNoWalk.query}, cursor : {PGNoWalk.cursor}]
    BY DEF PGNoWalk
  <2>2. <<>> \in Seq(PGIds) /\ PGIncreasing(<<>>)
    BY DEF PGIncreasing
  <2>3. DOMAIN pgCatalog = PGIds /\ pgWalk = PGNoWalk /\ pgSeen = <<>> /\ pgStable = {}
    BY DEF PGInit
  <2> QED BY <2>1, <2>2, <2>3 DEF PGWalkInd
<1>2. PGHistoryInd
  BY DEF PGInit, PGHistoryInd, PGHistoryIsDeduplicated, IsInjective
<1>3. PGQueueInd
  <2>1. IsFiniteSet({}) /\ Cardinality({}) = 0 /\ 0 <= PGSlots
    BY FS_EmptySet, PGSlotsAssumption
  <2>2. <<>> \in Seq(PGTasks) /\ IsInjective(<<>>)
    BY DEF IsInjective
  <2> QED BY <2>1, <2>2 DEF PGInit, PGQueueInd, PGNoSlotIsWasted
<1> QED BY <1>1, <1>2, <1>3 DEF PGInd

LEMMA PGNextInd == PGInd /\ [PGNext]_pgVars => PGInd'
<1> SUFFICES ASSUME PGInd, [PGNext]_pgVars PROVE PGInd'
  OBVIOUS
<1>1. ASSUME UNCHANGED <<pgCatalog, pgWalk, pgSeen, pgStable>> PROVE PGWalkInd'
  BY <1>1 DEF PGInd, PGWalkInd, PGWalked
<1>2. ASSUME UNCHANGED <<pgLedger, pgPolls, pgHistory, pgLastId>> PROVE PGHistoryInd'
  BY <1>2 DEF PGInd, PGHistoryInd, PGHistoryIsDeduplicated
<1>3. ASSUME UNCHANGED <<pgQueue, pgActive>> PROVE PGQueueInd'
  BY <1>3 DEF PGInd, PGQueueInd, PGNoSlotIsWasted
<1>4. CASE PGDiscoveryNext
  <2>1. PGWalkInd'
    BY <1>4, PGDiscoverInd, PGNextPageInd, PGCatalogInd, PGNewWalkInd DEF PGInd, PGDiscoveryNext
  <2>2. UNCHANGED pgSync /\ UNCHANGED pgFetches
    BY <1>4 DEF PGDiscoveryNext, PGDiscover, PGNextPage, PGCatalogChanges, PGNewWalk
  <2> QED BY <1>2, <1>3, <2>1, <2>2 DEF PGInd, pgSync, pgFetches
<1>5. CASE PGSyncNext
  <2>1. PGHistoryInd'
    BY <1>5, PGHistoryStep DEF PGInd
  <2>2. UNCHANGED pgDiscovery /\ UNCHANGED pgFetches
    BY <1>5 DEF PGSyncNext, PGTransaction, PGStartWorker, PGInterval, PGStopWorker, PGMerge
  <2> QED BY <1>1, <1>3, <2>1, <2>2 DEF PGInd, pgDiscovery, pgFetches
<1>6. CASE PGFetchNext
  <2>1. PGQueueInd'
    BY <1>6, PGQueueStep DEF PGInd
  <2>2. UNCHANGED pgDiscovery /\ UNCHANGED pgSync
    BY <1>6 DEF PGFetchNext, PGEnqueue, PGSettled
  <2> QED BY <1>1, <1>2, <2>1, <2>2 DEF PGInd, pgDiscovery, pgSync
<1>7. CASE UNCHANGED pgVars
  BY <1>1, <1>2, <1>3, <1>7 DEF PGInd, pgVars, pgDiscovery, pgSync, pgFetches
<1> QED BY <1>4, <1>5, <1>6, <1>7 DEF PGNext

LEMMA PGIndIsSound == PGInd => PGReadsAreSound
<1> SUFFICES ASSUME PGInd PROVE PGReadsAreSound
  OBVIOUS
<1>1. pgSeen \in Seq(PGIds) /\ PGIncreasing(pgSeen)
  BY DEF PGInd, PGWalkInd
<1>2. DOMAIN pgSeen = 1 .. Len(pgSeen) /\ Len(pgSeen) \in Nat /\ \A i \in 1 .. Len(pgSeen) : pgSeen[i] \in Int
  BY <1>1, LenProperties, PGSeqOfIds
<1>3. IsInjective(pgSeen)
  <2> SUFFICES ASSUME NEW a \in 1 .. Len(pgSeen), NEW b \in 1 .. Len(pgSeen), pgSeen[a] = pgSeen[b], a # b
               PROVE  FALSE
    BY <1>2 DEF IsInjective
  <2>1. CASE a < b
    BY <1>1, <1>2, <2>1 DEF PGIncreasing
  <2>2. CASE b < a
    BY <1>1, <1>2, <2>2 DEF PGIncreasing
  <2> QED BY <1>2, <2>1, <2>2
<1>4. pgWalk.state = "done" => pgStable \subseteq ToSet(pgSeen)
  BY <1>2 DEF PGInd, PGWalkInd, PGHolds, ToSet
<1> QED BY <1>3, <1>4 DEF PGReadsAreSound, PGWalkIsComplete, PGInd, PGHistoryInd, PGQueueInd

\* The three readers of Paging.tla, whatever the catalogue, the queries, the page
\* limit, the number of polls and of slots: a walk over the pages
\* (x402-discovery-pagination.ts) returns every listing that stayed and none
\* twice, the worker's history (tx-history-sync-worker.ts) holds no transaction
\* twice and ends with lastSeenId(), and the fetch queue
\* (rate-limited-fetch-queue.ts) leaves no slot free while a fetch waits.
THEOREM ReadsAreSound == PGSpec => []PGReadsAreSound
<1>1. PGInit => PGInd
  BY PGInitInd
<1>2. PGInd /\ [PGNext]_pgVars => PGInd'
  BY PGNextInd
<1>3. PGInd => PGReadsAreSound
  BY PGIndIsSound
<1> QED BY <1>1, <1>2, <1>3, PTL DEF PGSpec
-----------------------------------------------------------------------------
(* Type correctness of the whole. *)

\* What the submission and the polling loops take from finite sets.
TSEnums ==
    /\ tsClock \in 0..TSEnd
    /\ tsLedger \in {"absent", "pending", "success", "failed"}
    /\ tsPc \in {"idle", "send", "sending", "backoff", "submitted", "reading", "sleeping", "done"}
    /\ tsVia \in TSWrappers \cup TSLoops
    /\ tsOutcome \in {"none", "notSubmitted", "deadLetter", "success", "failed", "timeout",
                      "readFailed"}
    /\ tsCache # TSNone => tsCache.status \in {"success", "failed"}

LEMMA TSTyped == TSSpec => []TSTypeOK
<1>1. TSInit => TSEnums
  BY TSAssumption DEF TSInit, TSEnums, TSWrappers
<1>2. TSEnums /\ [TSNext]_tsVars => TSEnums'
  <2> SUFFICES ASSUME TSEnums, [TSNext]_tsVars PROVE TSEnums'
    OBVIOUS
  <2> USE DEF TSEnums
  <2>1. CASE TSStart
    BY <2>1 DEF TSStart
  <2>2. CASE TSSend \/ TSSendAnswer
    <3>1. TSAttemptFailed => tsPc' \in {"done", "backoff", "send"} /\ tsOutcome' \in {tsOutcome, "notSubmitted", "deadLetter"}
      BY DEF TSAttemptFailed, TSRetrying, TSFallBack, TSDeadLetter, TSTryAgain, TSGiveUp
    <3> QED BY <2>2, <3>1 DEF TSSend, TSSendAnswer
  <2>3. CASE TSBackedOff
    BY <2>3 DEF TSBackedOff
  <2>4. CASE TSWait
    BY <2>4 DEF TSWait
  <2>5. CASE TSRead
    <3>1. TSPollAgain => tsPc' \in {"done", "sleeping"} /\ tsOutcome' \in {tsOutcome, "timeout"}
      BY DEF TSPollAgain, TSReturn
    <3> QED BY <2>5, <3>1 DEF TSRead, TSReturn
  <2>6. CASE TSReadCached
    BY <2>6 DEF TSReadCached, TSCacheHit, TSReturn
  <2>7. CASE TSSlept
    BY <2>7 DEF TSSlept
  <2>8. CASE TSAgain
    BY <2>8 DEF TSAgain
  <2>9. CASE TSInclude
    BY <2>9 DEF TSInclude
  <2>10. CASE TSTick
    BY <2>10, TSAssumption DEF TSTick
  <2>11. CASE UNCHANGED tsVars
    BY <2>11 DEF tsVars
  <2> QED BY <2>1, <2>2, <2>3, <2>4, <2>5, <2>6, <2>7, <2>8, <2>9, <2>10, <2>11 DEF TSNext
<1>3. TSEnums /\ TSBucketInd => TSTypeOK
  BY TSFullHoldsAToken DEF TSEnums, TSBucketInd, TSBucketTyped, TSTypeOK, TSFull
<1> QED BY <1>1, <1>2, <1>3, TSBucketInitInd, TSBucketNextInd, PTL DEF TSSpec
-----------------------------------------------------------------------------
LEMMA MSTyped == MSSpec => []MSTypeOK
<1>1. MSInit => MSTypeOK
  BY DEF MSInit, MSTypeOK
<1>2. MSTypeOK /\ [MSNext]_msVars => MSTypeOK'
  <2> SUFFICES ASSUME MSTypeOK, [MSNext]_msVars PROVE MSTypeOK'
    OBVIOUS
  <2> USE DEF MSTypeOK
  <2>1. CASE MSConfigure \/ MSPreflight \/ MSStart
    BY <2>1 DEF MSConfigure, MSPreflight, MSStart
  <2>2. CASE MSRegister \/ MSBuild \/ MSServe
    BY <2>2 DEF MSRegister, MSBuild, MSServe
  <2>3. CASE MSPrint \/ MSAnswer \/ MSThrow \/ MSBudget \/ MSSettleHealth
    BY <2>3 DEF MSPrint, MSAnswer, MSThrow, MSBudget, MSSettleHealth
  <2>4. ASSUME NEW t \in MSTools, MSCallTool(t) PROVE MSTypeOK'
    BY <2>4 DEF MSCallTool
  <2>5. CASE UNCHANGED msVars
    BY <2>5 DEF msVars
  <2> QED BY <2>1, <2>2, <2>3, <2>4, <2>5 DEF MSNext
<1> QED BY <1>1, <1>2, PTL DEF MSSpec

-----------------------------------------------------------------------------
\* A challenge has at most two options, so where one is on the network there is a
\* first of the cheapest and a first.
LEMMA CLSelections ==
    ASSUME NEW accepts, DOMAIN accepts \subseteq 1..2, \A i \in DOMAIN accepts : accepts[i].amount \in Int,
           OnNetwork(accepts) # {}
    PROVE  /\ Cheapest(accepts, OnNetwork(accepts)) \in 1..2
           /\ Min(OnNetwork(accepts)) \in 1..2
<1> DEFINE I == OnNetwork(accepts)
<1>1. I \subseteq DOMAIN accepts /\ I \subseteq {1, 2} /\ I # {}
  BY DEF OnNetwork
<1>2. \E i \in I : \A j \in I : \/ accepts[i].amount < accepts[j].amount
                                \/ accepts[i].amount = accepts[j].amount /\ i <= j
  <2> HIDE DEF I
  <2>1. CASE I = {1} \/ I = {2}
    BY <1>1, <2>1
  <2>2. CASE I = {1, 2}
    <3>1. accepts[1].amount \in Int /\ accepts[2].amount \in Int
      BY <1>1, <2>2
    <3>2. CASE accepts[2].amount < accepts[1].amount
      BY <2>2, <3>1, <3>2
    <3>3. CASE ~(accepts[2].amount < accepts[1].amount)
      BY <2>2, <3>1, <3>3
    <3> QED BY <3>2, <3>3
  <2> QED BY <1>1, <2>1, <2>2
<1>3. Cheapest(accepts, I) \in I
  <2> HIDE DEF I
  <2> QED BY <1>2 DEF Cheapest
<1>4. \E i \in I : \A j \in I : i <= j
  <2> HIDE DEF I
  <2> QED BY <1>1
<1>5. Min(I) \in I
  <2> HIDE DEF I
  <2> QED BY <1>4 DEF Min
<1> HIDE DEF I
<1> QED BY <1>1, <1>3, <1>5 DEF I

\* What the command line's type invariant needs to be inductive: the options of a
\* challenge, and that one is on the network where one is signed.
CLShape ==
    /\ CLTypeOK
    /\ DOMAIN clAccepts \subseteq 1..2
    /\ clPc = "sign" => OnNetwork(clAccepts) # {}

LEMMA CLTyped == CLSpec => []CLTypeOK
<1>1. CLInit => CLShape
  <2> SUFFICES ASSUME CLInit PROVE CLShape
    OBVIOUS
  <2>1. clAccepts = <<>> /\ clAccepts \in Seq(CLOptions) /\ DOMAIN clAccepts = {}
    BY DEF CLInit
  <2>2. clPaid \in BOOLEAN
    BY Zenon DEF CLInit
  <2> QED BY <2>1, <2>2 DEF CLInit, CLShape, CLTypeOK
<1>2. CLShape /\ [CLNext]_clVars => CLShape'
  <2> SUFFICES ASSUME CLShape, [CLNext]_clVars PROVE CLShape'
    OBVIOUS
  <2>0. /\ clAccepts \in Seq(CLOptions) /\ DOMAIN clAccepts \subseteq 1..2
        /\ \A i \in DOMAIN clAccepts : clAccepts[i].amount \in Int
    <3>1. clAccepts \in Seq(CLOptions) /\ DOMAIN clAccepts \subseteq 1..2
      BY DEF CLShape, CLTypeOK
    <3>2. \A i \in DOMAIN clAccepts : clAccepts[i] \in CLOptions
      BY <3>1
    <3> QED BY <3>1, <3>2, CLAssumption DEF CLOptions, PaymentOption
  <2>1. CASE CLPayStart
    BY <2>1 DEF CLPayStart, CLShape, CLTypeOK, CLExit, CLGoto, CLCommands
  <2>2. CASE CLProbe
    <3>1. /\ \/ clPc' = "done" /\ clExit' \in {0, 1} /\ clAccepts' = clAccepts
             \/ clPc' = "select" /\ clExit' = clExit /\ clAccepts' \in UNION {[1..n -> CLOptions] : n \in 1..2}
          /\ UNCHANGED <<clCmd, clChosen, clSigned, clPaid, clLedger, clClock, clDeadline>>
      BY <2>2 DEF CLProbe, CLExit, CLGoto
    <3>2. ASSUME clAccepts' \in UNION {[1..n -> CLOptions] : n \in 1..2}
          PROVE  clAccepts' \in Seq(CLOptions) /\ DOMAIN clAccepts' \subseteq 1..2
      <4>1. PICK n \in 1..2 : clAccepts' \in [1..n -> CLOptions]
        BY <3>2
      <4> QED BY <4>1
    <3> QED BY <2>0, <3>1, <3>2 DEF CLShape, CLTypeOK
  <2>3. CASE CLSelect
    <3>1. /\ clChosen' = selectRequirement(clAccepts)
          /\ \/ clPc' = "done" /\ clExit' = 1
             \/ clPc' = "sign" /\ clExit' = clExit /\ selectRequirement(clAccepts) # 0
          /\ UNCHANGED <<clCmd, clAccepts, clSigned, clPaid, clLedger, clClock, clDeadline>>
      BY <2>3 DEF CLSelect, CLExit, CLGoto
    <3>2. clChosen' \in 0..2 /\ (clChosen' # 0 => OnNetwork(clAccepts) # {})
      BY <2>0, <3>1, CLSelections DEF selectRequirement
    <3>3. OnNetwork(clAccepts') = OnNetwork(clAccepts)
      BY <3>1
    <3> QED BY <3>1, <3>2, <3>3 DEF CLShape, CLTypeOK
  <2>4. CASE CLSign
    <3>1. /\ clSigned' \in {clSigned, Min(OnNetwork(clAccepts))} /\ clPc = "sign"
          /\ \/ clPc' = "done" /\ clExit' \in {0, 1}
             \/ clPc' = "pay" /\ clExit' = clExit
          /\ UNCHANGED <<clCmd, clAccepts, clChosen, clPaid, clLedger, clClock, clDeadline>>
      BY <2>4 DEF CLSign, CLExit, CLGoto
    <3>2. Min(OnNetwork(clAccepts)) \in 1..2
      BY <2>0, <3>1, CLSelections DEF CLShape
    <3> QED BY <3>1, <3>2 DEF CLShape, CLTypeOK
  <2>5. CASE CLPaidSent
    BY <2>5 DEF CLPaidSent, CLGoto, CLShape, CLTypeOK
  <2>6. CASE CLAnswer
    <3>1. clPc' = "done" /\ UNCHANGED <<clCmd, clAccepts, clChosen, clSigned, clPaid, clLedger, clClock, clDeadline>>
      BY <2>6 DEF CLAnswer, CLExit
    <3>2. clExit' \in {0, 1, 3, 5}
      BY <2>6, CLSettlementCodes DEF CLAnswer, CLExit
    <3> QED BY <3>1, <3>2 DEF CLShape, CLTypeOK
  <2>7. CASE CLQuote \/ CLSearch \/ CLInspect \/ CLDoctor \/ CLPreflight
    <3>1. /\ clPc' = "done" /\ clExit' \in {0, 1} /\ clCmd' \in CLCommands
          /\ UNCHANGED <<clAccepts, clChosen, clSigned, clPaid, clLedger, clClock, clDeadline>>
      <4>1. CASE CLQuote
        BY <4>1 DEF CLQuote, CLExit, CLCommands
      <4>2. CASE CLSearch
        BY <4>2 DEF CLSearch, CLExit, CLCommands
      <4>3. CASE CLInspect
        BY <4>3 DEF CLInspect, CLExit, CLCommands
      <4>4. CASE CLDoctor
        BY <4>4 DEF CLDoctor, CLExit, CLCommands
      <4>5. CASE CLPreflight
        BY <4>5 DEF CLPreflight, CLExit, CLCommands
      <4> QED BY <2>7, <4>1, <4>2, <4>3, <4>4, <4>5
    <3> QED BY <3>1 DEF CLShape, CLTypeOK
  <2>8. CASE CLWatch
    BY <2>8, CLAssumption DEF CLWatch, CLGoto, CLShape, CLTypeOK, CLCommands
  <2>9. CASE CLPoll
    <3>1. PICK took \in 0..CLLate :
             /\ \/ clPc' = "done" /\ clExit' \in {0, 1, 2}
                \/ clPc' = "sleep" /\ clExit' = clExit
             /\ clClock' = clClock + took
             /\ UNCHANGED <<clCmd, clAccepts, clChosen, clSigned, clPaid, clLedger, clDeadline>>
      BY <2>9 DEF CLPoll, CLWaitOn, CLExit, CLGoto
    <3>2. clClock' \in Nat
      BY <3>1, CLAssumption DEF CLShape, CLTypeOK
    <3> QED BY <3>1, <3>2 DEF CLShape, CLTypeOK
  <2>10. CASE CLSlept
    <3>1. PICK late \in 0..CLLate : clClock' = clClock + CLInterval + late
      BY <2>10 DEF CLSlept
    <3>2. clClock' \in Nat
      BY <3>1, CLAssumption DEF CLShape, CLTypeOK
    <3> QED BY <2>10, <3>2 DEF CLSlept, CLGoto, CLShape, CLTypeOK
  <2>11. CASE CLLedgerCloses
    BY <2>11 DEF CLLedgerCloses, CLShape, CLTypeOK
  <2>12. CASE UNCHANGED clVars
    BY <2>12 DEF clVars, CLShape, CLTypeOK
  <2> QED BY <2>1, <2>2, <2>3, <2>4, <2>5, <2>6, <2>7, <2>8, <2>9, <2>10, <2>11, <2>12 DEF CLNext
<1>3. CLShape => CLTypeOK
  BY DEF CLShape
<1> QED BY <1>1, <1>2, <1>3, PTL DEF CLSpec
-----------------------------------------------------------------------------
LEMMA UPTypedAlways == UPSpec => []UPTypeOK
<1>1. UPInd => UPTypeOK
  BY UPAssumption DEF UPInd, UPTyped, UPPcs, UPTypeOK, UPRemaining
<1> QED BY <1>1, UPInitInd, UPNextInd, PTL DEF UPSpec

-----------------------------------------------------------------------------
\* How a wrapped request may have ended.
FGEnds == fgAborted \in BOOLEAN /\ fgOut \in FGOutcomes \cup {FGNone}

LEMMA FGTyped == FGSpec => []FGTypeOK
<1>1. FGInit => FGEnds
  <2>1. FGInit => fgAborted \in BOOLEAN
    BY Zenon DEF FGInit
  <2> QED BY <2>1 DEF FGInit, FGEnds
<1>2. FGEnds /\ [FGNext]_fgVars => FGEnds'
  <2> SUFFICES ASSUME FGEnds, [FGNext]_fgVars PROVE FGEnds'
    OBVIOUS
  <2>1. fgAborted' \in BOOLEAN
    <3>1. CASE FGAbort
      BY <3>1, Zenon DEF FGAbort
    <3>2. CASE fgAborted' = fgAborted
      BY <3>2 DEF FGEnds
    <3> QED BY <3>1, <3>2
            DEF FGNext, FGCall, FGProbe, FGConfirm, FGFree, FGChallenge, FGNothingOffered, FGRedirect,
                FGSignStart, FGSignDone, FGSignFails, FGSessionCheck, FGSend, FGPaid, FGRejected, FGAbortError,
                FGRequest, FGAttempt, FGSlept,
                FGAnswer, FGTimer, FGSwitch, fgVars
  <2>2. fgOut' \in FGOutcomes \cup {fgOut}
    <3>1. CASE FGCall \/ FGProbe \/ FGConfirm
      BY <3>1 DEF FGCall, FGProbe, FGConfirm, FGEnd, FGOutcomes
    <3>2. CASE FGFree \/ FGChallenge \/ FGNothingOffered \/ FGRedirect
      BY <3>2 DEF FGFree, FGChallenge, FGNothingOffered, FGRedirect, FGEnd, FGOutcomes
    <3>3. CASE FGSignStart \/ FGSignDone \/ FGSignFails \/ FGSessionCheck \/ FGSend
      BY <3>3 DEF FGSignStart, FGSignDone, FGSignFails, FGSessionCheck, FGSend, FGEnd, FGOutcomes
    <3>4. CASE FGPaid \/ FGRejected
      BY <3>4 DEF FGPaid, FGRejected, FGEnd, FGOutcomes
    <3>5. CASE FGAbortError
      BY <3>5 DEF FGAbortError, FGEnd, FGOutcomes
    <3>6. CASE FGAttempt
      BY <3>6 DEF FGAttempt, FGEnd, FGOutcomes
    <3>7. CASE FGRequest \/ FGSlept \/ FGAnswer \/ FGTimer
      BY <3>7 DEF FGRequest, FGSlept, FGAnswer, FGTimer, FGEnd, FGOutcomes
    <3>8. CASE FGSwitch \/ FGAbort \/ UNCHANGED fgVars
      BY <3>8 DEF FGSwitch, FGAbort, fgVars
    <3> QED BY <3>1, <3>2, <3>3, <3>4, <3>5, <3>6, <3>7, <3>8 DEF FGNext
  <2> QED BY <2>1, <2>2 DEF FGEnds
<1>3. FGEnds /\ FGInd /\ FGSessionOk => FGTypeOK
  BY DEF FGEnds, FGInd, FGShape, FGUnsigned, FGSessionOk, FGTypeOK
<1>4. FGInd /\ [FGNext]_fgVars => FGInd'
  BY FGNextPreserves
<1>5. FGInd /\ FGSessionOk /\ [FGNext]_fgVars => FGSessionOk'
  BY FGSessionNext
<1> QED BY <1>1, <1>2, <1>3, <1>4, <1>5, FGInitInd, FGSessionInit, PTL DEF FGSpec

-----------------------------------------------------------------------------
\* What the session helpers keep beside what their promises rest on.
SXRest == sxKit \in BOOLEAN /\ sxStored \in SXStoredValues /\ sxTimers \in Nat /\ sxWrites \in Nat

LEMMA SXTypedAlways == SXSpec => []SXTypeOK
<1>0. SXAbsent \in SXStoredValues /\ [shape |-> "bare", v |-> 1, ok |-> TRUE] \in SXStoredValues
  <2> DEFINE saved == [shape |-> "bare", v |-> 1, ok |-> TRUE]
  <2>1. PICK yes \in BOOLEAN : saved = [shape |-> "bare", v |-> 1, ok |-> yes]
    BY Zenon
  <2>2. saved \in {[shape |-> s, v |-> v, ok |-> ok] : s \in {"bare", "env"}, v \in 0..3, ok \in BOOLEAN}
    BY <2>1
  <2>3. saved.shape = "bare" /\ saved \notin {[shape |-> "env", v |-> 0, ok |-> ok] : ok \in BOOLEAN}
    OBVIOUS
  <2> HIDE DEF saved
  <2>4. saved \in SXStoredValues /\ SXAbsent \in SXStoredValues
    BY <2>2, <2>3 DEF SXStoredValues, SXShapes
  <2> QED BY <2>4 DEF saved
<1>1. SXInit => SXRest
  <2>1. SXInit => sxKit \in BOOLEAN
    BY Zenon DEF SXInit
  <2> QED BY <1>0, <2>1 DEF SXInit, SXRest
<1>2. SXRest /\ [SXNext]_sxVars => SXRest'
  <2> SUFFICES ASSUME SXRest, [SXNext]_sxVars PROVE SXRest'
    OBVIOUS
  <2>0. sxKit \in BOOLEAN /\ sxStored \in SXStoredValues /\ sxTimers \in Nat /\ sxWrites \in Nat
    BY DEF SXRest
  <2>1. CASE SXConfigure
    <3>1. sxStored' \in SXStoredValues /\ UNCHANGED <<sxKit, sxTimers, sxWrites>>
      BY <2>0, <2>1 DEF SXConfigure
    <3> QED BY <2>0, <3>1 DEF SXRest
  <2>2. CASE SXDispose \/ SXCeremonyEnds
    BY <2>0, <2>2 DEF SXDispose, SXCeremonyEnds, SXRest
  <2>3. CASE SXManagerStart \/ SXManagerFire \/ SXManagerDone \/ SXManagerStop
    <3>1. UNCHANGED <<sxKit, sxStored, sxWrites>>
      BY <2>3 DEF SXManagerStart, SXManagerFire, SXManagerDone, SXManagerStop
    <3>2. sxTimers' \in Nat
      BY <2>0, <2>3 DEF SXManagerStart, SXManagerFire, SXManagerDone, SXManagerStop
    <3> QED BY <2>0, <3>1, <3>2 DEF SXRest
  <2>4. ASSUME NEW c \in SXCalls, SXBegin(c) \/ SXEnd(c) \/ SXCeremony(c) \/ SXRestore(c) PROVE SXRest'
    BY <2>0, <2>4 DEF SXBegin, SXEnd, SXCeremony, SXRestore, SXRest
  <2>5. ASSUME NEW c \in SXCalls, SXKitDone(c) \/ SXVerified(c) PROVE SXRest'
    <3>1. UNCHANGED <<sxStored, sxTimers, sxWrites>>
      BY <2>5 DEF SXKitDone, SXVerified
    <3>2. sxKit' \in BOOLEAN
      <4>1. \/ sxKit' = TRUE \/ sxKit' = sxKit
            \/ \E ans \in {"signer", "revoked", "unknown"} : sxKit' = (ans = "signer")
        BY <2>5, Zenon DEF SXKitDone, SXVerified
      <4> QED BY <2>0, <4>1, Zenon
    <3> QED BY <2>0, <3>1, <3>2 DEF SXRest
  <2>6. ASSUME NEW c \in SXCalls, SXStart(c) PROVE SXRest'
    <3>1. UNCHANGED <<sxKit, sxStored, sxTimers>>
      BY <2>6 DEF SXStart
    <3>2. sxWrites' \in Nat
      BY <2>0, <2>6 DEF SXStart
    <3> QED BY <2>0, <3>1, <3>2 DEF SXRest
  <2>7. ASSUME NEW c \in SXCalls, SXLoadRetained(c) \/ SXNetworkRestore(c) \/ SXSave(c) PROVE SXRest'
    <3>1. UNCHANGED <<sxKit, sxTimers, sxWrites>>
      BY <2>7 DEF SXLoadRetained, SXNetworkRestore, SXSave
    <3>2. sxStored' \in {sxStored, SXAbsent, [shape |-> "bare", v |-> 1, ok |-> TRUE]}
      <4>1. CASE SXLoadRetained(c)
        BY <4>1 DEF SXLoadRetained
      <4>2. CASE SXNetworkRestore(c)
        BY <4>2 DEF SXNetworkRestore
      <4>3. CASE SXSave(c)
        BY <4>3 DEF SXSave
      <4> QED BY <2>7, <4>1, <4>2, <4>3
    <3> QED BY <1>0, <2>0, <3>1, <3>2 DEF SXRest
  <2>8. CASE UNCHANGED sxVars
    BY <2>0, <2>8 DEF sxVars, SXRest
  <2> QED BY <2>1, <2>2, <2>3, <2>4, <2>5, <2>6, <2>7, <2>8 DEF SXNext
<1>3. SXInd /\ SXRest => SXTypeOK
  BY DEF SXInd, SXTyped, SXPlaces, SXRest, SXTypeOK
<1> QED BY <1>1, <1>2, <1>3, SXInitInd, SXNextInd, PTL DEF SXSpec
-----------------------------------------------------------------------------
\* What the history worker keeps beside its history.
PGWorker == pgLedger \in 0..PGTxs /\ pgTimer \in BOOLEAN

LEMMA PGTyped == PGSpec => []PGTypeOK
<1>1. PGInit => PGWorker
  <2>1. PGInit => pgTimer \in BOOLEAN
    BY Zenon DEF PGInit
  <2> QED BY <2>1, PGPagesAssumption DEF PGInit, PGWorker
<1>2. PGWorker /\ [PGNext]_pgVars => PGWorker'
  <2> SUFFICES ASSUME PGWorker, [PGNext]_pgVars PROVE PGWorker'
    OBVIOUS
  <2>1. CASE UNCHANGED pgSync
    BY <2>1 DEF pgSync, PGWorker
  <2>2. CASE PGTransaction
    BY <2>2, PGPagesAssumption DEF PGTransaction, PGWorker
  <2>3. CASE PGStartWorker \/ PGStopWorker
    <3>1. pgTimer' \in BOOLEAN
      BY <2>3, Zenon DEF PGStartWorker, PGStopWorker
    <3>2. pgLedger' = pgLedger
      BY <2>3 DEF PGStartWorker, PGStopWorker
    <3> QED BY <3>1, <3>2 DEF PGWorker
  <2>4. CASE PGInterval \/ PGMerge
    BY <2>4 DEF PGInterval, PGMerge, PGWorker
  <2> QED BY <2>1, <2>2, <2>3, <2>4
          DEF PGNext, PGDiscoveryNext, PGDiscover, PGNextPage, PGNewWalk, PGCatalogChanges, PGSyncNext,
              PGFetchNext, PGEnqueue, PGSettled, pgVars
<1>3. PGInd /\ PGWorker => PGTypeOK
  <2> SUFFICES ASSUME PGInd, PGWorker PROVE PGTypeOK
    OBVIOUS
  <2>1. /\ DOMAIN pgCatalog \subseteq PGIds /\ pgSeen \in Seq(PGIds)
        /\ pgWalk.state \in {"idle", "walking", "done", "refused"}
    BY DEF PGInd, PGWalkInd
  <2>2. ToSet(pgSeen) \subseteq PGIds
    BY <2>1 DEF ToSet
  <2>3. pgStable \subseteq PGIds
    <3>1. CASE pgWalk.state = "walking"
      BY <2>1, <3>1 DEF PGInd, PGWalkInd
    <3>2. CASE pgWalk.state = "done"
      BY <2>1, <3>2 DEF PGInd, PGWalkInd, PGHolds
    <3>3. CASE pgWalk.state \in {"idle", "refused"}
      BY <3>3 DEF PGInd, PGWalkInd
    <3> QED BY <2>1, <3>1, <3>2, <3>3
  <2> QED BY <2>1, <2>2, <2>3 DEF PGInd, PGQueueInd, PGWorker, PGTypeOK
<1> QED BY <1>1, <1>2, <1>3, PGInitInd, PGNextInd, PTL DEF PGSpec

-----------------------------------------------------------------------------
\* What the release gates keep beside what their verdict rests on.
RGRestTyped ==
    /\ rgExit \in -1 .. 1
    /\ DOMAIN rgResults \subseteq 1 .. Len(RGChecks)
    /\ DOMAIN rgTags \subseteq {"latest", "next"}
    /\ rgScratch \in BOOLEAN /\ rgKeep \in BOOLEAN

LEMMA RGTyped == RGSpec => []RGTypeOK
<1>1. RGInit => RGRestTyped
  <2> SUFFICES ASSUME RGInit PROVE RGRestTyped
    OBVIOUS
  <2>1. rgScratch \in BOOLEAN /\ rgKeep \in BOOLEAN
    BY Zenon DEF RGInit
  <2>2. DOMAIN rgResults = {} /\ DOMAIN rgTags = {"latest"}
    BY DEF RGInit
  <2> QED BY <2>1, <2>2 DEF RGInit, RGRestTyped
<1>2. RGInd /\ RGRestTyped /\ [RGNextStep]_rgVars => RGRestTyped'
  <2> SUFFICES ASSUME RGInd, RGRestTyped, [RGNextStep]_rgVars PROVE RGRestTyped'
    OBVIOUS
  <2>1. CASE RGAuditDefaults \/ RGReport
    <3>1. rgExit' \in {rgExit, 0, 1} /\ UNCHANGED <<rgResults, rgTags, rgScratch, rgKeep>>
      BY <2>1 DEF RGAuditDefaults, RGReport, rgRegistry, rgRest
    <3> QED BY <3>1 DEF RGRestTyped
  <2>2. ASSUME NEW w \in RGWorkers, RGTake(w) PROVE RGRestTyped'
    BY <2>2 DEF RGTake, rgRegistry, rgRest, RGRestTyped
  <2>3. ASSUME NEW w \in RGWorkers, RGProbed(w) PROVE RGRestTyped'
    <3>1. rgBusy[w] # 0 /\ DOMAIN rgResults' = DOMAIN rgResults \cup {rgBusy[w]} /\ UNCHANGED <<rgExit, rgTags, rgScratch, rgKeep>>
      BY <2>3 DEF RGProbed, rgRegistry, rgRest
    <3>2. rgBusy[w] \in 1 .. Len(RGChecks)
      BY <3>1, RGChecksAreListed DEF RGInd, RGGateInd
    <3> QED BY <3>1, <3>2 DEF RGRestTyped
  <2>4. CASE RGWriterNext
    BY <2>4 DEF RGWriterNext, RGPlan, RGEdit, RGWriteRoot, RGWriteWorkspace, rgGate, rgRegistry, rgRest, RGRestTyped
  <2>5. CASE RGRegistryNext
    <3>1. UNCHANGED <<rgExit, rgResults, rgScratch, rgKeep>>
      BY <2>5 DEF RGRegistryNext, RGPublish, RGPromote, rgGate, rgRest
    <3>2. DOMAIN rgTags' \subseteq DOMAIN rgTags \cup {"latest", "next"}
      <4>1. CASE RGPublish
        BY <4>1 DEF RGPublish, publish, distTagFor
      <4>2. CASE RGPromote
        BY <4>2 DEF RGPromote
      <4> QED BY <2>5, <4>1, <4>2 DEF RGRegistryNext
    <3> QED BY <3>1, <3>2 DEF RGRestTyped
  <2>6. CASE RGInstallStart \/ RGInstallDirectories
    <3>1. rgScratch' \in BOOLEAN /\ rgKeep' \in BOOLEAN
      <4>1. CASE RGInstallStart
        BY <4>1, Zenon DEF RGInstallStart
      <4>2. CASE RGInstallDirectories
        BY <4>2, Zenon DEF RGInstallDirectories, RGRestTyped
      <4> QED BY <2>6, <4>1, <4>2
    <3>2. UNCHANGED <<rgExit, rgResults, rgTags>>
      BY <2>6 DEF RGInstallStart, RGInstallDirectories, rgGate, rgRegistry
    <3> QED BY <3>1, <3>2 DEF RGRestTyped
  <2>7. CASE RGInstallStep
    <3>1. PICK ok \in RGInstallPasses(rgInstall) : rgScratch' = ((ok /\ rgInstall < Len(RGInstallSteps)) \/ rgKeep)
      BY <2>7 DEF RGInstallStep
    <3>2. rgScratch' \in BOOLEAN
      BY ONLY <3>1, Zenon
    <3> QED BY <2>7, <3>2 DEF RGInstallStep, rgGate, rgRegistry, RGRestTyped
  <2>8. CASE RGAuditLicense
    BY <2>8 DEF RGAuditLicense, rgGate, rgRegistry, RGRestTyped
  <2>9. CASE UNCHANGED rgVars
    BY <2>9 DEF rgVars, rgGate, rgRegistry, rgRest, RGRestTyped
  <2> QED BY <2>1, <2>2, <2>3, <2>4, <2>5, <2>6, <2>7, <2>8, <2>9 DEF RGNextStep, RGGateNext, RGRestNext
<1>3. RGInd /\ RGRestTyped => RGTypeOK
  <2> SUFFICES ASSUME RGInd, RGRestTyped PROVE RGTypeOK
    OBVIOUS
  <2>1. rgRelease.step \in RGSteps
    BY DEF RGInd, RGWriterInd, RGWriterTyped
  <2> QED BY <2>1 DEF RGSteps, RGInd, RGGateInd, RGInstallInd, RGRestTyped, RGTypeOK
<1> QED BY <1>1, <1>2, <1>3, RGInitInd, RGNextInd, PTL DEF RGSpec

-----------------------------------------------------------------------------
\* What the offline tools keep beside what their promises rest on: no more is
\* replayed than was recorded.
OTBounded ==
    /\ otEntry \in OTEntries \cup {OTNone} /\ (otSigned = {} \/ \E s : otSigned = {s})
    /\ otRecorded \in Seq(OTRecordings) /\ Len(otRecorded) <= OTRequests
    /\ otConsumed \in [OTMethods -> Nat] /\ \A m \in OTMethods : otConsumed[m] <= Len(otRecorded)
    /\ otRotation \in -1 .. 3 /\ otKeys \subseteq {"old", "new"}

LEMMA OTTyped == OTSpec => []OTTypeOK
<1>1. OTInit => OTBounded
  <2> SUFFICES ASSUME OTInit PROVE OTBounded
    OBVIOUS
  <2>1. otRecorded = <<>> /\ otRecorded \in Seq(OTRecordings) /\ Len(otRecorded) = 0
    BY DEF OTInit
  <2>2. otConsumed \in [OTMethods -> Nat] /\ \A m \in OTMethods : otConsumed[m] = 0
    BY DEF OTInit
  <2> QED BY <2>1, <2>2, OTAssumption DEF OTInit, OTBounded
<1>2. OTInd /\ OTInd' /\ OTBounded /\ [OTNext]_otVars => OTBounded'
  <2> SUFFICES ASSUME OTInd, OTInd', OTBounded, [OTNext]_otVars PROVE OTBounded'
    OBVIOUS
  <2>0. /\ otRecorded' \in Seq(OTRecordings) /\ otConsumed' \in [OTMethods -> Nat]
        /\ otRecorded \in Seq(OTRecordings) /\ Len(otRecorded) \in Nat
    BY DEF OTInd, OTRepliesOk
  <2>1. CASE OTExport
    BY <2>1 DEF OTExport, otReplay, otRotating, OTBounded
  <2>2. CASE OTAssemble
    BY <2>2 DEF OTAssemble, otReplay, otRotating, OTBounded
  <2>3. CASE OTRecord
    <3>1. /\ UNCHANGED <<otEntry, otSigned, otConsumed, otRotation, otKeys>> /\ Len(otRecorded) < OTRequests
          /\ \E r : otRecorded' = Append(otRecorded, r)
      BY <2>3 DEF OTRecord, otOffline, otRotating
    <3>2. Len(otRecorded') = Len(otRecorded) + 1
      BY <2>0, <3>1
    <3>3. Len(otRecorded') <= OTRequests
      BY <2>0, <3>1, <3>2, OTAssumption
    <3>4. \A m \in OTMethods : otConsumed'[m] <= Len(otRecorded')
      <4> SUFFICES ASSUME NEW m \in OTMethods PROVE otConsumed'[m] <= Len(otRecorded')
        OBVIOUS
      <4>1. otConsumed'[m] = otConsumed[m] /\ otConsumed[m] \in Nat /\ otConsumed[m] <= Len(otRecorded)
        BY <3>1 DEF OTBounded
      <4> QED BY <2>0, <3>2, <4>1
    <3> QED BY <2>0, <3>1, <3>3, <3>4 DEF OTBounded
  <2>4. CASE OTReplay
    <3>1. UNCHANGED <<otEntry, otSigned, otRecorded, otRotation, otKeys>>
      BY <2>4 DEF OTReplay, otOffline, otRotating
    <3>2. PICK m \in OTMethods, p \in OTParams :
            \E i \in OTNth(m, otConsumed[m] + 1) : otConsumed' = [otConsumed EXCEPT ![m] = @ + 1]
      BY <2>4 DEF OTReplay
    <3>3. PICK i \in OTNth(m, otConsumed[m] + 1) : otConsumed' = [otConsumed EXCEPT ![m] = @ + 1]
      BY <3>2
    <3>4. i \in 1..Len(otRecorded) /\ OTCount(otRecorded, m, i) = otConsumed[m] + 1
      BY <2>0, <3>3 DEF OTNth, OTCount
    <3>5. OTCount(otRecorded, m, i) <= i
      <4> DEFINE S == {j \in 1..i : otRecorded[j].method = m}
      <4>1. IsFiniteSet(1..i) /\ Cardinality(1..i) = i
        BY <3>4, FS_Interval
      <4>2. S \subseteq 1..i
        OBVIOUS
      <4>3. Cardinality(S) <= i
        BY <4>1, <4>2, FS_Subset
      <4> QED BY <4>3 DEF OTCount
    <3>6. otConsumed[m] + 1 <= Len(otRecorded)
      <4>1. otConsumed[m] \in Nat /\ i \in Nat /\ i <= Len(otRecorded)
        BY <2>0, <3>4 DEF OTBounded
      <4> QED BY <2>0, <3>4, <3>5, <4>1
    <3>7. \A n \in OTMethods : otConsumed'[n] <= Len(otRecorded)
      BY <3>3, <3>6 DEF OTBounded
    <3> QED BY <2>0, <3>1, <3>7 DEF OTBounded
  <2>5. CASE OTRotate
    <3>1. UNCHANGED <<otEntry, otSigned, otRecorded, otConsumed>>
      BY <2>5 DEF OTRotate, otOffline, otReplay
    <3>2. otRotation' \in -1 .. 3 /\ otKeys' \subseteq {"old", "new"}
      BY <2>5 DEF OTRotate, OTBounded
    <3> QED BY <2>0, <3>1, <3>2 DEF OTBounded
  <2>6. ASSUME NEW c \in OTCalls, OTConnectStart(c) \/ OTConnectEnd(c) PROVE OTBounded'
    BY <2>6 DEF OTConnectStart, OTConnectEnd, otOffline, otReplay, otRotating, OTBounded
  <2>7. CASE UNCHANGED otVars
    BY <2>7 DEF otVars, otOffline, otReplay, otRotating, OTBounded
  <2> QED BY <2>1, <2>2, <2>3, <2>4, <2>5, <2>6, <2>7
          DEF OTNext, OTOfflineNext, OTReplayNext, OTOtherNext
<1>3. OTInd /\ OTBounded => OTTypeOK
  <2> SUFFICES ASSUME OTInd, OTBounded PROVE OTTypeOK
    OBVIOUS
  <2>1. Cardinality(otSigned) <= 1
    <3>1. CASE otSigned = {}
      BY <3>1, FS_EmptySet
    <3>2. ASSUME NEW s, otSigned = {s} PROVE Cardinality(otSigned) <= 1
      BY <3>2, FS_Singleton
    <3> QED BY <3>1, <3>2 DEF OTBounded
  <2>2. otConsumed \in [OTMethods -> 0..OTRequests]
    <3>1. Len(otRecorded) \in Nat /\ Len(otRecorded) <= OTRequests /\ otConsumed \in [OTMethods -> Nat]
      BY DEF OTBounded
    <3>2. \A m \in OTMethods : otConsumed[m] \in 0..OTRequests
      BY <3>1, OTAssumption DEF OTBounded
    <3> QED BY <3>1, <3>2
  <2> QED BY <2>1, <2>2 DEF OTInd, OTConnectsOk, OTBounded, OTTypeOK
<1> QED BY <1>1, <1>2, <1>3, OTInitInd, OTNextInd, PTL DEF OTSpec

LEMMA PTTypedAlways == PTSpec => []PTTypeOK
<1>3. PTInd /\ PTSerialised => PTTypeOK
  <2> SUFFICES ASSUME PTInd, PTSerialised PROVE PTTypeOK
    OBVIOUS
  <2>1. \A c \in PTCalls : ptSpans[c] \in 0..1
    BY DEF PTInd, PTCallIsSound
  <2>2. ptSpans \in [PTCalls -> 0..1]
    BY <2>1 DEF PTInd, PTTyped
  <2> QED BY <2>2 DEF PTInd, PTTyped, PTPcs, PTSerialised, PTTypeOK
<1> QED BY <1>3, PTInitInd, PTNextInd, PTSerialisedInit, PTSerialisedNext, PTL DEF PTSpec

\* The components keep no state in common: a step of the whole is a step of one of
\* them and leaves the others alone, so every behaviour of the whole is a behaviour of
\* each, and what the theorems above say of a component holds of it there.
THEOREM ExchangesAreTheirParts ==
    Spec => /\ TSSpec /\ UPSpec /\ MSSpec /\ SXSpec /\ FGSpec /\ PTSpec
            /\ CLSpec /\ PGSpec /\ RGSpec /\ OTSpec /\ CBSpec
<1>1. Init => /\ TSInit /\ UPInit /\ MSInit /\ SXInit /\ FGInit /\ PTInit
              /\ CLInit /\ PGInit /\ RGInit /\ OTInit /\ CBInit
  BY DEF Init
<1>2. [Next]_vars => [TSNext]_tsVars /\ [UPNext]_upVars /\ [MSNext]_msVars
  BY DEF Next, vars
<1>3. [Next]_vars => [SXNext]_sxVars /\ [FGNext]_fgVars /\ [PTNext]_ptVars
  BY DEF Next, vars
<1>4. [Next]_vars => [CLNext]_clVars /\ [CBNext]_cbVars
  BY DEF Next, vars
<1>5. [Next]_vars => [PGNext]_pgVars
  BY DEF Next, vars, PGNext
<1>6. [Next]_vars => [RGNextStep]_rgVars
  BY DEF Next, vars, RGNextStep
<1>7. [Next]_vars => [OTNext]_otVars
  BY DEF Next, vars, OTNext
<1>8. Spec => Init /\ [][Next]_vars
  BY PTL DEF Spec
<1>9. Spec => TSSpec /\ UPSpec /\ MSSpec /\ SXSpec
  BY <1>1, <1>2, <1>3, <1>8, PTL DEF TSSpec, UPSpec, MSSpec, SXSpec
<1>10. Spec => FGSpec /\ PTSpec /\ CLSpec /\ CBSpec
  BY <1>1, <1>3, <1>4, <1>8, PTL DEF FGSpec, PTSpec, CLSpec, CBSpec
<1>11. Spec => PGSpec /\ RGSpec /\ OTSpec
  BY <1>1, <1>5, <1>6, <1>7, <1>8, PTL DEF PGSpec, RGSpec, OTSpec
<1> QED BY <1>9, <1>10, <1>11

\* Whatever the other side answers, the state of every one of these components keeps
\* the values its code gives it: no clock passes its end, no budget is overdrawn, no
\* queue, pool or counter passes its limit, for every value of the constants.
THEOREM ExchangesTypeSafety == Spec => []TypeOK
<1>1. Spec => [](TSTypeOK /\ UPTypeOK /\ MSTypeOK /\ SXTypeOK)
  BY ExchangesAreTheirParts, TSTyped, UPTypedAlways, MSTyped, SXTypedAlways, PTL
<1>2. Spec => [](FGTypeOK /\ PTTypeOK /\ CLTypeOK /\ PGTypeOK)
  BY ExchangesAreTheirParts, FGTyped, PTTypedAlways, CLTyped, PGTyped, PTL
<1>3. Spec => [](RGTypeOK /\ OTTypeOK /\ CBTypeOK)
  BY ExchangesAreTheirParts, RGTyped, OTTyped, BreakerIsSafe, PTL
<1> QED BY <1>1, <1>2, <1>3, PTL DEF TypeOK
=============================================================================
