--------------------------- MODULE CircuitBreaker ---------------------------
(***************************************************************************)
(* The circuit breaker every backend call of the wallet client runs under  *)
(* (src/src/circuit-breaker.ts).  execute() decides admission              *)
(* synchronously, awaits the wrapped call, and classifies its result when  *)
(* it settles: calls overlap, and a result may arrive in a state other     *)
(* than the one its call was admitted in.                                  *)
(*                                                                         *)
(* The code reads the clock only in now() - openedAt >= openDurationMs, so *)
(* the model keeps the age of the last open(), saturated at CBOpenDuration. *)
(***************************************************************************)
EXTENDS Naturals, FiniteSets

CONSTANTS CBCalls,             \* concurrent callers; each may call again
          CBFailureThreshold,  \* failureThreshold, 5 by default
          CBOpenDuration,      \* openDurationMs, in clock ticks
          CBHalfOpenMaxCalls   \* halfOpenMaxCalls, 1 by default

ASSUME CBThresholdAssumption == CBFailureThreshold \in Nat \ {0}

ASSUME CBDurationAssumption == CBOpenDuration \in Nat

ASSUME CBTrialsAssumption == CBHalfOpenMaxCalls \in Nat \ {0}

ASSUME CBCallsAssumption == IsFiniteSet(CBCalls)

VARIABLES
    cbState,         \* "closed", "open" or "half-open"
    cbFailures,      \* consecutive failures recorded
    cbAge,           \* now() - openedAt, saturated
    cbHalfOpenUsed,  \* trial calls admitted since the last halfOpen()
    cbRunning,       \* callers whose fn() has not settled
    cbTrials,        \* history: callers admitted since the last halfOpen()
    cbStreak,        \* history: results that failed since the last that did not,
                     \* or since reset(); saturated at CBFailureThreshold
    cbTripped        \* history: cbStreak at the last open()

cbVars == <<cbState, cbFailures, cbAge, cbHalfOpenUsed, cbRunning, cbTrials, cbStreak, cbTripped>>

CBInit == /\ cbState = "closed"
          /\ cbFailures = 0
          /\ cbAge = 0
          /\ cbHalfOpenUsed = 0
          /\ cbRunning = {}
          /\ cbTrials = {}
          /\ cbStreak = 0
          /\ cbTripped = 0

\* now() - openedAt >= openDurationMs
CBCooledDown == cbAge = CBOpenDuration

\* The state getter turns an open breaker whose cooldown elapsed half-open.
CBObservedState == IF cbState = "open" /\ CBCooledDown THEN "half-open" ELSE cbState

\* Mutant: halfOpen() does not reset the number of trials used.
CBObservedUsedKept == cbHalfOpenUsed

CBObservedUsed == IF cbState = "open" /\ CBCooledDown THEN 0 ELSE cbHalfOpenUsed

CBObservedTrials == IF cbState = "open" /\ CBCooledDown THEN {} ELSE cbTrials

\* Reading `state` from outside, with the transition the getter makes.
CBReadState == /\ cbState' = CBObservedState
               /\ cbHalfOpenUsed' = CBObservedUsed
               /\ cbTrials' = CBObservedTrials
               /\ UNCHANGED <<cbFailures, cbAge, cbRunning, cbStreak, cbTripped>>

\* execute(fn), refused with CircuitOpenError; the getter's transition stays.
CBRefuse(c) ==
    /\ c \notin cbRunning
    /\ \/ CBObservedState = "open"
       \/ CBObservedState = "half-open" /\ CBObservedUsed >= CBHalfOpenMaxCalls
    /\ CBReadState

\* execute(fn), admitted: a half-open trial is counted before fn() starts.
CBAdmit(c) ==
    /\ c \notin cbRunning
    /\ \/ CBObservedState = "closed"
       \/ CBObservedState = "half-open" /\ CBObservedUsed < CBHalfOpenMaxCalls
    /\ cbState' = CBObservedState
    /\ cbRunning' = cbRunning \cup {c}
    /\ IF CBObservedState = "half-open"
       THEN /\ cbHalfOpenUsed' = CBObservedUsed + 1
            /\ cbTrials' = CBObservedTrials \cup {c}
       ELSE /\ cbHalfOpenUsed' = CBObservedUsed
            /\ cbTrials' = CBObservedTrials
    /\ UNCHANGED <<cbFailures, cbAge, cbStreak, cbTripped>>

\* open()
CBOpen == /\ cbState' = "open"
          /\ cbAge' = 0
          /\ cbFailures' = CBFailureThreshold

\* close()
CBClose == /\ cbState' = "closed"
           /\ cbFailures' = 0
           /\ cbAge' = 0
           /\ cbHalfOpenUsed' = 0

\* Mutant: the threshold is exceeded before the breaker opens.
CBRecordFailureOffByOne ==
    IF cbState = "half-open" \/ cbFailures + 1 > CBFailureThreshold
    THEN CBOpen /\ UNCHANGED cbHalfOpenUsed
    ELSE cbFailures' = cbFailures + 1 /\ UNCHANGED <<cbState, cbAge, cbHalfOpenUsed>>

\* recordFailure(): a half-open breaker reopens at once, any other at the
\* threshold, an open one included (which restarts its cooldown).
CBRecordFailure ==
    IF cbState = "half-open" \/ cbFailures + 1 >= CBFailureThreshold
    THEN CBOpen /\ UNCHANGED cbHalfOpenUsed
    ELSE cbFailures' = cbFailures + 1 /\ UNCHANGED <<cbState, cbAge, cbHalfOpenUsed>>

\* fn() settled and classify() counts it as a failure.
CBSettleFailure(c) ==
    /\ c \in cbRunning
    /\ cbRunning' = cbRunning \ {c}
    /\ CBRecordFailure
    /\ cbStreak' = IF cbStreak < CBFailureThreshold THEN cbStreak + 1 ELSE cbStreak
    /\ cbTripped' = IF cbState' = "open" THEN cbStreak' ELSE cbTripped
    /\ UNCHANGED cbTrials

\* fn() settled and classify() does not count it as a failure: resolved, a
\* rejection the isFailure predicate excuses, or one with an undefined reason.
CBSettleSuccess(c) ==
    /\ c \in cbRunning
    /\ cbRunning' = cbRunning \ {c}
    /\ CBClose
    /\ cbStreak' = 0
    /\ UNCHANGED <<cbTrials, cbTripped>>

\* reset()
CBReset == /\ CBClose
           /\ cbStreak' = 0
           /\ UNCHANGED <<cbRunning, cbTrials, cbTripped>>

CBTick == /\ cbAge < CBOpenDuration
          /\ cbAge' = cbAge + 1
          /\ UNCHANGED <<cbState, cbFailures, cbHalfOpenUsed, cbRunning, cbTrials, cbStreak, cbTripped>>

CBSettle(c) == CBSettleFailure(c) \/ CBSettleSuccess(c)

CBNext == \/ \E c \in CBCalls : CBAdmit(c) \/ CBRefuse(c) \/ CBSettle(c)
          \/ CBReadState \/ CBReset \/ CBTick

CBSpec == CBInit /\ [][CBNext]_cbVars

-----------------------------------------------------------------------------
(* Properties. *)

\* Every variable stays in its domain.
CBTypeOK ==
    /\ cbState \in {"closed", "open", "half-open"}
    /\ cbFailures \in 0..CBFailureThreshold
    /\ cbAge \in 0..CBOpenDuration
    /\ cbHalfOpenUsed \in 0..CBHalfOpenMaxCalls
    /\ cbRunning \subseteq CBCalls
    /\ cbTrials \subseteq CBCalls
    /\ cbStreak \in 0..CBFailureThreshold
    /\ cbTripped \in 0..CBFailureThreshold

\* A closed breaker has not seen its threshold of consecutive failures, and reports
\* how many it saw, whatever order overlapping calls settle in; and one that is open,
\* or probing, was opened by no fewer.
CBOpensAtTheThreshold ==
    /\ cbState = "closed" => cbFailures = cbStreak /\ cbStreak < CBFailureThreshold
    /\ cbState # "closed" => cbTripped = CBFailureThreshold

\* Every trial a half-open breaker counted is still running, so a half-open
\* breaker that refuses calls has a probe that will decide it: trials are never
\* used up by calls that already settled.
CBProbesAreOutstanding ==
    cbState = "half-open" =>
        cbTrials \subseteq cbRunning /\ Cardinality(cbTrials) = cbHalfOpenUsed

\* A breaker that refuses calls comes back to deciding: with time passing and
\* calls being made and settling, it neither stays open nor half-open for ever.
CBRecovers == /\ cbState = "open" ~> cbState # "open"
              /\ cbState = "half-open" ~> cbState # "half-open"

\* However late the results of overlapping calls arrive: the breaker is open or probing
\* only after its threshold of consecutive failures, closed only below it, and the
\* half-open trials counted are exactly those still running.  How an open breaker may
\* come to be closed again is not part of it: see CBOpenLastsTheCooldown.
CBBreakerIsSound == CBOpensAtTheThreshold /\ CBProbesAreOutstanding

\* The comment at circuit-breaker.ts:11-15: an open breaker refuses calls until its
\* cooldown, and then probes.  A call admitted before the opening that succeeds late
\* closes it at once.
CBOpenLastsTheCooldown == [][cbState = "open" /\ cbState' = "closed" => CBReset]_cbVars
=============================================================================
