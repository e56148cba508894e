----------------------------- MODULE PayerProofs -----------------------------
(***************************************************************************)
(* The payer's ceiling, retry and accounting invariants, and that it       *)
(* implements SpendBudget, for every number of calls, every ceiling and    *)
(* every set of challenges.                                                *)
(***************************************************************************)
EXTENDS Payer, X402GuardsProofs

\* How a call's progress, its debit count and its outcome go together: debits
\* happen only on the way to "reading" or "indeterminate", and an outcome is set
\* exactly when the call is done.
Bookkeeping ==
    \A c \in Calls :
        /\ outcome[c] # "none" <=> pc[c] = "done"
        /\ pc[c] \in {"idle", "searching", "queued", "fetching"} => attempt[c] = 0
        /\ attempt[c] = 0 => outcome[c] \notin {"paid", "bodyLost", "settlementFailed"}
        /\ debits[c] = IF \/ pc[c] = "reading"
                          \/ outcome[c] \in {"paid", "bodyLost", "indeterminate"}
                       THEN 1 ELSE 0
        /\ pc[c] = "reading" \/ outcome[c] \in {"paid", "bodyLost"} =>
               attempt[c] >= 1 /\ payload[c][attempt[c]] = "settled"
        /\ outcome[c] = "settlementFailed" =>
               attempt[c] = MAX_ATTEMPTS /\ payload[c][attempt[c]] = "dead"
        /\ outcome[c] \notin {"none", "paid", "bodyLost", "indeterminate",
                              "rejected", "dropped", "settlementFailed"}
           /\ attempt[c] >= 1 => payload[c][attempt[c]] = "unsigned"

\* The inductive invariant behind every safety theorem of this module.
IInv == /\ TypeOK
        /\ MutualExclusion
        /\ ClearedStillFits
        /\ CeilingRespected
        /\ AttemptsAreFresh
        /\ Bookkeeping

-----------------------------------------------------------------------------
(* What the queue operations preserve. *)

\* The call inside the mutex leaves it: nobody else was inside, so nobody is.
LEMMA FinishLeavesNobodyInside ==
    ASSUME IInv, NEW c \in Calls, NEW how \in Outcomes,
           queue # << >>, Head(queue) = c, Finish(c, how)
    PROVE  /\ queue' \in Seq(Calls)
           /\ MutualExclusion'
<1>1. queue' \in Seq(Calls)
  BY DEF IInv, TypeOK, Finish
<1>2. \A d \in Calls : pc'[d] \notin Critical
  BY DEF IInv, TypeOK, MutualExclusion, Finish, Critical
<1> QED BY <1>1, <1>2 DEF MutualExclusion

\* A call that moves between suspension points inside the mutex stays its head.
LEMMA SuspendKeepsTheHead ==
    ASSUME IInv, NEW c \in Calls, NEW where \in Critical,
           queue # << >>, Head(queue) = c, Suspend(c, where)
    PROVE  /\ queue' \in Seq(Calls)
           /\ MutualExclusion'
BY DEF IInv, TypeOK, MutualExclusion, Suspend, Critical

\* Joining the queue does not change who is at its head.
LEMMA EnqueueKeepsTheHead ==
    ASSUME IInv, NEW c \in Calls, pc[c] \notin Critical, Enqueue(c)
    PROVE  /\ queue' \in Seq(Calls)
           /\ MutualExclusion'
<1>1. queue' \in Seq(Calls)
  BY DEF IInv, TypeOK, Enqueue
<1>2. queue # << >> => queue' # << >> /\ Head(queue') = Head(queue)
  BY DEF IInv, TypeOK, Enqueue
<1>3. \A d \in Calls : pc'[d] \in Critical => pc[d] \in Critical
  BY DEF IInv, TypeOK, Enqueue, Critical
<1> QED BY <1>1, <1>2, <1>3 DEF IInv, MutualExclusion

\* The option a challenge leads to is of a configured asset and has a parsed
\* price, so the ledger can be consulted for it.
LEMMA ClearedOptionIsPayable ==
    ASSUME NEW accepts \in Challenges, NEW m \in Int,
           Refusal(accepts, Assets, m) = "none"
    PROVE  /\ SelectRequirements(accepts, Assets).asset \in Assets
           /\ SelectRequirements(accepts, Assets).amount \in Nat
<1>1. accepts \in Seq(PaymentOption(OfferedAssets, Int))
  BY ChallengesAssumption
<1>2. Len(accepts) \in Nat /\ DOMAIN accepts = 1..Len(accepts)
  BY <1>1
<1>3. \A i \in 1..Len(accepts) : accepts[i].amount \in Int
  <2> TAKE i \in 1..Len(accepts)
  <2>1. accepts[i] \in PaymentOption(OfferedAssets, Int)
    BY <1>1
  <2> QED BY <2>1 DEF PaymentOption
<1> QED BY <1>2, <1>3, SelectionIsCleared

-----------------------------------------------------------------------------
(* IInv is inductive: one lemma per action. *)

LEMMA InitIInv == Init => IInv
<1> SUFFICES ASSUME Init PROVE IInv
  OBVIOUS
<1> USE DEF Init
<1>1. TypeOK
  BY AttemptsAssumption DEF TypeOK, Critical, Fates, Outcomes
<1>2. MutualExclusion /\ ClearedStillFits
  BY DEF MutualExclusion, ClearedStillFits, Critical
<1>3. CeilingRespected
  BY CeilingAssumption DEF CeilingRespected
<1>4. AttemptsAreFresh
  BY AttemptsAssumption DEF AttemptsAreFresh
<1>5. Bookkeeping
  BY AttemptsAssumption DEF Bookkeeping
<1> QED BY <1>1, <1>2, <1>3, <1>4, <1>5 DEF IInv

LEMMA PayIInv ==
    ASSUME IInv, NEW c \in Calls, Pay(c)
    PROVE  IInv'
<1> USE DEF IInv
<1>1. queue' \in Seq(Calls) /\ MutualExclusion'
  BY EnqueueKeepsTheHead, TRUE DEF Pay, Critical
<1>2. TypeOK'
  BY <1>1, MaxAmountsAssumption DEF TypeOK, Pay, Enqueue, Critical
<1>3. ClearedStillFits' /\ CeilingRespected' /\ AttemptsAreFresh' /\ Bookkeeping'
  BY DEF TypeOK, Pay, Enqueue, ClearedStillFits, FitsCeiling, CeilingRespected,
         AttemptsAreFresh, Bookkeeping
<1> QED BY <1>1, <1>2, <1>3

LEMMA PayAndCallIInv ==
    ASSUME IInv, NEW c \in Calls, PayAndCall(c)
    PROVE  IInv'
<1> USE DEF IInv
<1>1. PICK m \in MaxAmounts : maxAmount' = [maxAmount EXCEPT ![c] = m]
  BY DEF PayAndCall
<1>2. \E where \in {"searching", "done"} : pc' = [pc EXCEPT ![c] = where]
  BY DEF PayAndCall
<1>3. TypeOK'
  <2>1. maxAmount' \in [Calls -> Int]
    BY <1>1, MaxAmountsAssumption DEF TypeOK
  <2>2. pc' \in [Calls -> Critical \cup {"idle", "searching", "queued", "done"}]
    BY <1>2 DEF TypeOK
  <2>3. outcome' \in [Calls -> Outcomes]
    <3>1. outcome' = outcome \/ outcome' = [outcome EXCEPT ![c] = "noResult"]
      BY DEF PayAndCall
    <3> QED BY <3>1 DEF TypeOK, Outcomes
  <2> QED BY <1>2, <2>1, <2>2, <2>3 DEF TypeOK, PayAndCall
<1>4. MutualExclusion'
  BY <1>2 DEF TypeOK, PayAndCall, MutualExclusion, Critical
<1>5. ClearedStillFits' /\ CeilingRespected' /\ AttemptsAreFresh'
  BY <1>2 DEF TypeOK, PayAndCall, ClearedStillFits, FitsCeiling, CeilingRespected,
         AttemptsAreFresh
<1>6. Bookkeeping'
  BY DEF TypeOK, PayAndCall, Bookkeeping
<1> QED BY <1>3, <1>4, <1>5, <1>6

LEMMA SearchAnswerIInv ==
    ASSUME IInv, NEW c \in Calls, SearchAnswer(c)
    PROVE  IInv'
<1> USE DEF IInv
<1>1. CASE Enqueue(c) /\ UNCHANGED outcome
  <2>1. queue' \in Seq(Calls) /\ MutualExclusion'
    BY <1>1, EnqueueKeepsTheHead DEF SearchAnswer, Critical
  <2>2. TypeOK'
    BY <1>1, <2>1 DEF TypeOK, SearchAnswer, Enqueue, Critical
  <2>3. ClearedStillFits' /\ CeilingRespected' /\ AttemptsAreFresh' /\ Bookkeeping'
    BY <1>1 DEF TypeOK, SearchAnswer, Enqueue, ClearedStillFits, FitsCeiling,
                CeilingRespected, AttemptsAreFresh, Bookkeeping
  <2> QED BY <2>1, <2>2, <2>3
<1>2. CASE /\ pc' = [pc EXCEPT ![c] = "done"]
           /\ outcome' = [outcome EXCEPT ![c] = "noResult"]
           /\ UNCHANGED queue
  <2>1. TypeOK'
    BY <1>2 DEF TypeOK, SearchAnswer, Critical, Outcomes
  <2>2. MutualExclusion' /\ ClearedStillFits' /\ CeilingRespected' /\ AttemptsAreFresh'
    BY <1>2 DEF TypeOK, SearchAnswer, MutualExclusion, Critical, ClearedStillFits,
                FitsCeiling, CeilingRespected, AttemptsAreFresh
  <2>3. Bookkeeping'
    BY <1>2 DEF TypeOK, SearchAnswer, Bookkeeping
  <2> QED BY <2>1, <2>2, <2>3
<1> QED BY <1>1, <1>2 DEF SearchAnswer

\* A call that ends without a debit, from a suspension point where that is
\* consistent with its payloads.
LEMMA FinishUndebitedIInv ==
    ASSUME IInv, NEW c \in Calls, NEW how \in Outcomes, Finish(c, how),
           queue # << >>, Head(queue) = c, pc[c] # "done", pc[c] # "reading",
           UNCHANGED <<maxAmount, attempt, spent, payload, debits>>,
           DOMAIN chosen' = Calls, \A d \in Calls : d # c => chosen'[d] = chosen[d],
           how \notin {"none", "paid", "bodyLost", "indeterminate"},
           how = "settlementFailed" =>
               attempt[c] = MAX_ATTEMPTS /\ payload[c][attempt[c]] = "dead",
           how \in {"rejected", "dropped", "settlementFailed"} \/ attempt[c] = 0
               \/ payload[c][attempt[c]] = "unsigned"
    PROVE  IInv'
<1> USE DEF IInv
<1>1. queue' \in Seq(Calls) /\ MutualExclusion'
  BY FinishLeavesNobodyInside
<1>2. TypeOK'
  BY <1>1 DEF TypeOK, Finish, Critical
<1>3. ClearedStillFits' /\ CeilingRespected' /\ AttemptsAreFresh'
  <2>1. CeilingRespected'
    BY DEF CeilingRespected
  <2>2. ClearedStillFits'
    BY DEF TypeOK, Finish, ClearedStillFits, FitsCeiling
  <2>3. AttemptsAreFresh'
    <3>1. \A d \in Calls : pc'[d] = pc[d] \/ pc'[d] = "done"
      BY DEF TypeOK, Finish
    <3> QED BY <3>1 DEF AttemptsAreFresh
  <2> QED BY <2>1, <2>2, <2>3
<1>4. Bookkeeping'
  <2> SUFFICES ASSUME NEW d \in Calls PROVE Bookkeeping!(d)'
    BY DEF Bookkeeping
  <2>1. CASE d = c
    BY <2>1, AttemptsAssumption DEF TypeOK, Finish, Bookkeeping
  <2>2. CASE d # c
    BY <2>2 DEF TypeOK, Finish, Bookkeeping
  <2> QED BY <2>1, <2>2
<1> QED BY <1>1, <1>2, <1>3, <1>4

LEMMA BeginIInv ==
    ASSUME IInv, NEW c \in Calls, Begin(c)
    PROVE  IInv'
<1> USE DEF IInv
<1>1. CASE Finish(c, "invalidAmount")
  <2>1. /\ pc[c] = "queued" /\ queue # << >> /\ Head(queue) = c
        /\ UNCHANGED <<maxAmount, chosen, attempt, spent, payload, debits>>
    BY DEF Begin
  <2>2. attempt[c] = 0
    BY <2>1 DEF Bookkeeping
  <2>3. DOMAIN chosen' = Calls
    BY <2>1 DEF TypeOK
  <2> HIDE DEF IInv
  <2> QED BY <1>1, <2>1, <2>2, <2>3, FinishUndebitedIInv DEF Outcomes
<1>2. CASE Suspend(c, "fetching")
  <2>1. queue' \in Seq(Calls) /\ MutualExclusion'
    BY <1>2, SuspendKeepsTheHead DEF Begin, Critical
  <2>2. TypeOK'
    BY <1>2, <2>1 DEF TypeOK, Begin, Suspend, Critical
  <2>3. ClearedStillFits' /\ CeilingRespected' /\ AttemptsAreFresh' /\ Bookkeeping'
    BY <1>2 DEF TypeOK, Begin, Suspend, ClearedStillFits, FitsCeiling,
                CeilingRespected, AttemptsAreFresh, Bookkeeping
  <2> QED BY <2>1, <2>2, <2>3
<1> QED BY <1>1, <1>2 DEF Begin

\* Entering attempt n of the loop with an option of a configured asset: the
\* re-check makes ClearedStillFits true for the call, and attempt n is unsigned.
LEMMA StartAttemptIInv ==
    ASSUME IInv, NEW c \in Calls, NEW n \in 1..MAX_ATTEMPTS, NEW option,
           pc[c] \in {"fetching", "paying"}, n = attempt[c] + 1,
           attempt[c] >= 1 => payload[c][attempt[c]] = "dead",
           option.asset \in Assets, option.amount \in Nat,
           FitsCeiling(option.asset, option.amount),
           StartAttempt(c, n, option),
           DOMAIN chosen' = Calls, chosen'[c] = option,
           \A d \in Calls : d # c => chosen'[d] = chosen[d],
           UNCHANGED <<maxAmount, spent, payload, debits>>
    PROVE  IInv'
<1> USE DEF IInv
<1>1. /\ Suspend(c, "signing")
      /\ attempt' = [attempt EXCEPT ![c] = n]
  BY DEF StartAttempt
<1>2. queue # << >> /\ Head(queue) = c
  BY DEF MutualExclusion, Critical
<1>3. queue' \in Seq(Calls) /\ MutualExclusion'
  BY <1>1, <1>2, SuspendKeepsTheHead DEF Critical
<1>4. /\ pc' = [pc EXCEPT ![c] = "signing"]
      /\ outcome' = outcome
  BY <1>1 DEF Suspend
<1>5. TypeOK'
  <2>1. attempt' \in [Calls -> 0..MAX_ATTEMPTS]
    BY <1>1, AttemptsAssumption DEF TypeOK
  <2>2. pc' \in [Calls -> Critical \cup {"idle", "searching", "queued", "done"}]
    BY <1>4 DEF TypeOK, Critical
  <2>3. \A d \in Calls : pc'[d] \in {"signing", "paying"} =>
            /\ chosen'[d].asset \in Assets
            /\ chosen'[d].amount \in Nat
            /\ attempt'[d] >= 1
    BY <1>1, <1>4 DEF TypeOK
  <2> QED BY <1>3, <1>4, <2>1, <2>2, <2>3 DEF TypeOK
<1>6. ClearedStillFits'
  BY <1>4 DEF TypeOK, ClearedStillFits, FitsCeiling
<1>7. CeilingRespected'
  BY DEF CeilingRespected
<1>8. AttemptsAreFresh'
  BY <1>1, <1>4, AttemptsAssumption DEF TypeOK, AttemptsAreFresh
<1>9. Bookkeeping'
  <2> SUFFICES ASSUME NEW d \in Calls PROVE Bookkeeping!(d)'
    BY DEF Bookkeeping
  <2>1. CASE d = c
    BY <1>1, <1>4, <2>1, AttemptsAssumption DEF TypeOK, Bookkeeping
  <2>2. CASE d # c
    BY <1>1, <1>4, <2>2 DEF TypeOK, Bookkeeping
  <2> QED BY <2>1, <2>2
<1> QED BY <1>3, <1>5, <1>6, <1>7, <1>8, <1>9

LEMMA FirstResponseIInv ==
    ASSUME IInv, NEW c \in Calls, FirstResponse(c)
    PROVE  IInv'
<1> USE DEF IInv
<1>1. /\ queue # << >> /\ Head(queue) = c /\ pc[c] = "fetching"
      /\ attempt[c] = 0
      /\ UNCHANGED <<maxAmount, spent, payload, debits>>
  BY DEF FirstResponse, MutualExclusion, Critical, Bookkeeping
<1>2. ASSUME NEW how \in {"fetchFailed", "unpaid", "badChallenge"},
             Finish(c, how), UNCHANGED <<chosen, attempt, expected>>
      PROVE  IInv'
  BY <1>1, <1>2, FinishUndebitedIInv DEF Outcomes, TypeOK
<1>3. ASSUME NEW accepts \in Challenges, Challenged(c, accepts)
      PROVE  IInv'
  <2> DEFINE option == SelectRequirements(accepts, Assets)
  <2>1. CASE Refusal(accepts, Assets, maxAmount[c]) # "none"
    <3>1. Finish(c, "refused") /\ UNCHANGED <<chosen, attempt, expected>>
      BY <1>3, <2>1 DEF Challenged
    <3> QED BY <1>1, <3>1, FinishUndebitedIInv DEF Outcomes, TypeOK
  <2>2. CASE Refusal(accepts, Assets, maxAmount[c]) = "none"
    <3>1. chosen' = [chosen EXCEPT ![c] = option] /\ StartAttempt(c, 1, option)
      BY <1>3, <2>2 DEF Challenged
    <3>2. option.asset \in Assets /\ option.amount \in Nat
      BY <2>2, ClearedOptionIsPayable DEF TypeOK
    <3>3. /\ DOMAIN chosen' = Calls /\ chosen'[c] = option
          /\ \A d \in Calls : d # c => chosen'[d] = chosen[d]
      BY <3>1 DEF TypeOK
    <3> HIDE DEF option
    <3>4. CASE FitsCeiling(option.asset, option.amount)
      BY <1>1, <3>1, <3>2, <3>3, <3>4, StartAttemptIInv, AttemptsAssumption
    <3>5. CASE ~FitsCeiling(option.asset, option.amount)
      <4>1. Finish(c, "overCeiling") /\ UNCHANGED <<attempt, expected>>
        BY <3>1, <3>5 DEF StartAttempt
      <4> QED BY <1>1, <3>3, <4>1, FinishUndebitedIInv DEF Outcomes
    <3> QED BY <3>4, <3>5
  <2> QED BY <2>1, <2>2
<1> QED BY <1>2, <1>3 DEF FirstResponse

LEMMA SignDoneIInv ==
    ASSUME IInv, NEW c \in Calls, SignDone(c)
    PROVE  IInv'
<1> USE DEF IInv
<1>1. /\ queue # << >> /\ Head(queue) = c /\ pc[c] = "signing"
      /\ attempt[c] \in 1..MAX_ATTEMPTS
      /\ payload[c][attempt[c]] = "unsigned"
      /\ UNCHANGED <<maxAmount, chosen, attempt, spent, debits>>
  BY AttemptsAssumption
     DEF SignDone, MutualExclusion, Critical, TypeOK, AttemptsAreFresh
<1>2. CASE Finish(c, "signFailed") /\ UNCHANGED payload
  BY <1>1, <1>2, FinishUndebitedIInv DEF Outcomes, TypeOK
<1>3. CASE /\ Suspend(c, "paying")
           /\ payload' = [payload EXCEPT ![c][attempt[c]] = "sent"]
  <2>1. queue' \in Seq(Calls) /\ MutualExclusion'
    BY <1>1, <1>3, SuspendKeepsTheHead DEF Critical
  <2>2. /\ pc' = [pc EXCEPT ![c] = "paying"]
        /\ outcome' = outcome
    BY <1>3 DEF Suspend
  <2>3. payload' \in [Calls -> [1..MAX_ATTEMPTS -> Fates]]
    BY <1>1, <1>3 DEF TypeOK, Fates
  <2>4. TypeOK'
    BY <1>1, <2>1, <2>2, <2>3 DEF TypeOK, Critical
  <2>5. ClearedStillFits' /\ CeilingRespected'
    BY <1>1, <2>2 DEF TypeOK, ClearedStillFits, FitsCeiling, CeilingRespected
  <2>6. AttemptsAreFresh'
    <3> SUFFICES ASSUME NEW d \in Calls, NEW n \in 1..MAX_ATTEMPTS
                 PROVE  AttemptsAreFresh!(d)!(n)'
      BY DEF AttemptsAreFresh
    <3>1. CASE d = c /\ n = attempt[c]
      BY <1>1, <1>3, <2>2, <3>1, AttemptsAssumption DEF TypeOK
    <3>2. CASE ~(d = c /\ n = attempt[c])
      <4>1. payload'[d][n] = payload[d][n]
        BY <1>1, <1>3, <3>2 DEF TypeOK
      <4>2. d # c => pc'[d] = pc[d]
        BY <2>2 DEF TypeOK
      <4>3. pc'[c] = "paying"
        BY <2>2 DEF TypeOK
      <4>4. attempt'[d] = attempt[d]
        BY <1>1
      <4>5. AttemptsAreFresh!(d)!(n)
        BY DEF AttemptsAreFresh
      <4> QED BY <3>2, <4>1, <4>2, <4>3, <4>4, <4>5
    <3> QED BY <3>1, <3>2
  <2>7. Bookkeeping'
    <3> SUFFICES ASSUME NEW d \in Calls PROVE Bookkeeping!(d)'
      BY DEF Bookkeeping
    <3>1. CASE d = c
      BY <1>1, <1>3, <2>2, <3>1, AttemptsAssumption DEF TypeOK, Bookkeeping
    <3>2. CASE d # c
      BY <1>1, <1>3, <2>2, <3>2 DEF TypeOK, Bookkeeping
    <3> QED BY <3>1, <3>2
  <2> QED BY <2>1, <2>4, <2>5, <2>6, <2>7
<1> QED BY <1>2, <1>3 DEF SignDone

\* Recording a payment that was cleared keeps the ledger under its ceilings:
\* mutual exclusion says that no other call was cleared against the old balance.
LEMMA RecordKeepsCeilings ==
    ASSUME IInv, NEW c \in Calls, pc[c] = "paying", Record(c),
           pc'[c] \notin {"signing", "paying"},
           \A d \in Calls : d # c => pc'[d] = pc[d],
           UNCHANGED chosen
    PROVE  /\ spent' \in [Assets -> Nat] /\ debits' \in [Calls -> Nat]
           /\ CeilingRespected' /\ ClearedStillFits'
<1> USE DEF IInv
<1>1. spent' \in [Assets -> Nat] /\ debits' \in [Calls -> Nat]
  BY DEF TypeOK, Record
<1>2. CeilingRespected'
  BY CeilingAssumption
     DEF TypeOK, Record, CeilingRespected, ClearedStillFits, FitsCeiling
<1>3. \A d \in Calls : pc'[d] \notin {"signing", "paying"}
  BY DEF MutualExclusion, Critical
<1> QED BY <1>1, <1>2, <1>3 DEF ClearedStillFits

LEMMA PaidResponseIInv ==
    ASSUME IInv, NEW c \in Calls, PaidResponse(c)
    PROVE  IInv'
<1> USE DEF IInv
<1> DEFINE n == attempt[c]
<1>1. /\ queue # << >> /\ Head(queue) = c /\ pc[c] = "paying"
      /\ n \in 1..MAX_ATTEMPTS /\ debits[c] = 0 /\ outcome[c] = "none"
      /\ UNCHANGED <<maxAmount, chosen, payload>>
      /\ chosen[c].asset \in Assets /\ chosen[c].amount \in Nat
  <2>1. pc[c] = "paying" /\ UNCHANGED <<maxAmount, chosen, payload>>
    BY DEF PaidResponse
  <2>2. queue # << >> /\ Head(queue) = c
    BY <2>1 DEF MutualExclusion, Critical
  <2>3. /\ n \in 1..MAX_ATTEMPTS
        /\ chosen[c].asset \in Assets /\ chosen[c].amount \in Nat
    BY <2>1, AttemptsAssumption DEF TypeOK
  <2>4. debits[c] = 0 /\ outcome[c] = "none"
    BY <2>1 DEF Bookkeeping
  <2> QED BY <2>1, <2>2, <2>3, <2>4
<1>2. CASE RetryOrGiveUp(c) /\ payload[c][n] = "dead"
  <2>1. CASE n < MAX_ATTEMPTS
    <3>1. StartAttempt(c, n + 1, chosen[c]) /\ UNCHANGED <<spent, debits>>
      BY <1>2, <2>1 DEF RetryOrGiveUp
    <3>2. FitsCeiling(chosen[c].asset, chosen[c].amount)
      BY <1>1 DEF ClearedStillFits
    <3>3. n + 1 \in 1..MAX_ATTEMPTS
      BY <1>1, <2>1, AttemptsAssumption
    <3>4. /\ DOMAIN chosen' = Calls /\ chosen'[c] = chosen[c]
          /\ \A d \in Calls : d # c => chosen'[d] = chosen[d]
          /\ UNCHANGED <<maxAmount, spent, payload, debits>>
      BY <1>1, <3>1 DEF TypeOK
    <3> HIDE DEF IInv
    <3> QED
      BY <1>1, <1>2, <3>1, <3>2, <3>3, <3>4, StartAttemptIInv
  <2>2. CASE ~(n < MAX_ATTEMPTS)
    <3>1. /\ Finish(c, "settlementFailed")
          /\ UNCHANGED <<attempt, expected, spent, debits>>
      BY <1>2, <2>2 DEF RetryOrGiveUp
    <3>2. n = MAX_ATTEMPTS
      BY <1>1, <2>2, AttemptsAssumption
    <3> QED
      BY <1>1, <1>2, <3>1, <3>2, FinishUndebitedIInv DEF TypeOK, Outcomes
  <2> QED BY <2>1, <2>2
<1>3. ASSUME NEW how \in {"rejected", "dropped"}, Finish(c, how),
             UNCHANGED <<attempt, expected, spent, debits>>
      PROVE  IInv'
  BY <1>1, <1>3, FinishUndebitedIInv DEF TypeOK, Outcomes
<1>4. CASE Record(c) /\ Finish(c, "indeterminate") /\ UNCHANGED <<attempt, expected>>
  <2>1. queue' \in Seq(Calls) /\ MutualExclusion'
    BY <1>1, <1>4, FinishLeavesNobodyInside DEF Outcomes
  <2>2. /\ pc' = [pc EXCEPT ![c] = "done"]
        /\ outcome' = [outcome EXCEPT ![c] = "indeterminate"]
        /\ debits' = [debits EXCEPT ![c] = @ + 1]
    BY <1>4 DEF Finish, Record
  <2>3. /\ spent' \in [Assets -> Nat] /\ debits' \in [Calls -> Nat]
        /\ CeilingRespected' /\ ClearedStillFits'
    BY <1>1, <1>4, <2>2, RecordKeepsCeilings DEF TypeOK
  <2>4. TypeOK'
    BY <1>1, <1>4, <2>1, <2>2, <2>3 DEF TypeOK, Critical, Outcomes
  <2>5. AttemptsAreFresh'
    BY <1>1, <1>4, <2>2 DEF TypeOK, AttemptsAreFresh
  <2>6. Bookkeeping'
    <3> SUFFICES ASSUME NEW d \in Calls PROVE Bookkeeping!(d)'
      BY DEF Bookkeeping
    <3>1. CASE d = c
      BY <1>1, <1>4, <2>2, <3>1 DEF TypeOK, Bookkeeping
    <3>2. CASE d # c
      BY <1>1, <1>4, <2>2, <3>2 DEF TypeOK, Bookkeeping
    <3> QED BY <3>1, <3>2
  <2> QED BY <2>1, <2>3, <2>4, <2>5, <2>6
<1>5. CASE /\ Record(c) /\ Suspend(c, "reading") /\ UNCHANGED <<attempt, expected>>
           /\ payload[c][n] = "settled"
  <2>1. queue' \in Seq(Calls) /\ MutualExclusion'
    BY <1>1, <1>5, SuspendKeepsTheHead DEF Critical
  <2>2. /\ pc' = [pc EXCEPT ![c] = "reading"]
        /\ outcome' = outcome
        /\ debits' = [debits EXCEPT ![c] = @ + 1]
    BY <1>5 DEF Suspend, Record
  <2>3. /\ spent' \in [Assets -> Nat] /\ debits' \in [Calls -> Nat]
        /\ CeilingRespected' /\ ClearedStillFits'
    BY <1>1, <1>5, <2>2, RecordKeepsCeilings DEF TypeOK
  <2>4. TypeOK'
    BY <1>1, <1>5, <2>1, <2>2, <2>3 DEF TypeOK, Critical
  <2>5. AttemptsAreFresh'
    BY <1>1, <1>5, <2>2 DEF TypeOK, AttemptsAreFresh
  <2>6. Bookkeeping'
    <3> SUFFICES ASSUME NEW d \in Calls PROVE Bookkeeping!(d)'
      BY DEF Bookkeeping
    <3>1. CASE d = c
      BY <1>1, <1>5, <2>2, <3>1 DEF TypeOK, Bookkeeping
    <3>2. CASE d # c
      BY <1>1, <1>5, <2>2, <3>2 DEF TypeOK, Bookkeeping
    <3> QED BY <3>1, <3>2
  <2> QED BY <2>1, <2>3, <2>4, <2>5, <2>6
<1>6. ASSUME NEW settle \in SettleResult, Truthful(settle, payload[c][n]),
             PaymentFailed(c, settle) \/ PaymentAnswered(c, settle)
      PROVE  IInv'
  <2>1. CASE PaymentFailed(c, settle)
    BY <1>2, <1>3, <1>6, <2>1
       DEF PaymentFailed, IsRetryableSettleFailure, Truthful
  <2>2. CASE PaymentAnswered(c, settle)
    <3>1. ClassifySettlement(settle) = "not-spent" => payload[c][n] = "dead"
      BY <1>6 DEF ClassifySettlement, IsRetryableSettleFailure, Truthful
    <3>2. ClassifySettlement(settle) = "settled" => payload[c][n] = "settled"
      BY <1>6 DEF ClassifySettlement, IsRetryableSettleFailure, Truthful,
                  SettleResult, NoSettle
    <3> QED BY <1>2, <1>4, <1>5, <2>2, <3>1, <3>2 DEF PaymentAnswered
  <2> QED BY <1>6, <2>1, <2>2
<1> QED BY <1>3, <1>6 DEF PaidResponse

LEMMA ReadBodyIInv ==
    ASSUME IInv, NEW c \in Calls, ReadBody(c)
    PROVE  IInv'
<1> USE DEF IInv
<1>1. PICK how \in {"paid", "bodyLost"} : Finish(c, how)
  BY DEF ReadBody
<1>2. /\ queue # << >> /\ Head(queue) = c /\ pc[c] = "reading"
      /\ UNCHANGED <<maxAmount, chosen, attempt, spent, payload, debits>>
  BY DEF ReadBody, MutualExclusion, Critical
<1>3. queue' \in Seq(Calls) /\ MutualExclusion'
  BY <1>1, <1>2, FinishLeavesNobodyInside DEF Outcomes
<1>4. TypeOK'
  BY <1>1, <1>2, <1>3 DEF TypeOK, Finish, Critical, Outcomes
<1>5. ClearedStillFits' /\ CeilingRespected' /\ AttemptsAreFresh'
  <2>1. CeilingRespected'
    BY <1>2 DEF CeilingRespected
  <2>2. ClearedStillFits'
    BY <1>1, <1>2 DEF TypeOK, Finish, ClearedStillFits, FitsCeiling
  <2>3. AttemptsAreFresh'
    <3>1. \A d \in Calls : pc'[d] = pc[d] \/ pc'[d] = "done"
      BY <1>1 DEF TypeOK, Finish
    <3> QED BY <1>2, <3>1 DEF AttemptsAreFresh
  <2> QED BY <2>1, <2>2, <2>3
<1>6. Bookkeeping'
  BY <1>1, <1>2 DEF TypeOK, Finish, Bookkeeping
<1> QED BY <1>3, <1>4, <1>5, <1>6

\* A payload that settled or still can was signed by the current attempt.
LEMMA LivePayloadIsCurrent ==
    ASSUME IInv, NEW c \in Calls, NEW n \in 1..MAX_ATTEMPTS,
           payload[c][n] \in {"sent", "settled"}
    PROVE  n = attempt[c] /\ pc[c] # "signing"
<1>1. n \in Int /\ attempt[c] \in Int
  BY AttemptsAssumption DEF IInv, TypeOK
<1>2. ~(n < attempt[c]) /\ ~(n > attempt[c])
  BY DEF IInv, AttemptsAreFresh
<1>3. n = attempt[c]
  BY <1>1, <1>2
<1>4. pc[c] # "signing"
  BY <1>3 DEF IInv, AttemptsAreFresh
<1> QED BY <1>3, <1>4

LEMMA FacilitatorIInv ==
    ASSUME IInv, NEW c \in Calls, NEW n \in 1..MAX_ATTEMPTS, Facilitator(c, n)
    PROVE  IInv'
<1> USE DEF IInv
<1>1. PICK fate \in {"settled", "dead"} : payload' = [payload EXCEPT ![c][n] = fate]
  BY DEF Facilitator
<1>2. /\ payload[c][n] = "sent"
      /\ UNCHANGED <<queue, pc, maxAmount, chosen, attempt, spent, expected,
                     debits, outcome>>
  BY DEF Facilitator
<1>3. n = attempt[c] /\ pc[c] # "signing"
  BY <1>2, LivePayloadIsCurrent
<1>4. payload' \in [Calls -> [1..MAX_ATTEMPTS -> Fates]]
  BY <1>1 DEF TypeOK, Fates
<1>5. /\ payload'[c][n] = fate
      /\ \A d \in Calls : \A m \in 1..MAX_ATTEMPTS :
             ~(d = c /\ m = n) => payload'[d][m] = payload[d][m]
  BY <1>1 DEF TypeOK
<1>6. TypeOK'
  BY <1>2, <1>4 DEF TypeOK
<1>7. MutualExclusion' /\ ClearedStillFits' /\ CeilingRespected'
  BY <1>2 DEF MutualExclusion, ClearedStillFits, FitsCeiling, CeilingRespected
<1>8. AttemptsAreFresh'
  <2> SUFFICES ASSUME NEW d \in Calls, NEW m \in 1..MAX_ATTEMPTS
               PROVE  AttemptsAreFresh!(d)!(m)'
    BY DEF AttemptsAreFresh
  <2>1. CASE d = c /\ m = n
    BY <1>2, <1>3, <1>5, <2>1, AttemptsAssumption
  <2>2. CASE ~(d = c /\ m = n)
    BY <1>2, <1>5, <2>2 DEF AttemptsAreFresh
  <2> QED BY <2>1, <2>2
<1>9. Bookkeeping'
  <2> SUFFICES ASSUME NEW d \in Calls PROVE Bookkeeping!(d)'
    BY DEF Bookkeeping
  <2>1. CASE d = c
    BY <1>2, <1>3, <1>5, <2>1, AttemptsAssumption DEF TypeOK, Bookkeeping
  <2>2. CASE d # c
    <3>1. \A m \in 1..MAX_ATTEMPTS : payload'[d][m] = payload[d][m]
      BY <1>5, <2>2
    <3>2. attempt[d] >= 1 => attempt[d] \in 1..MAX_ATTEMPTS
      BY AttemptsAssumption DEF TypeOK
    <3> QED BY <1>2, <3>1, <3>2, AttemptsAssumption DEF TypeOK, Bookkeeping
  <2> QED BY <2>1, <2>2
<1> QED BY <1>6, <1>7, <1>8, <1>9

LEMMA NextIInv == IInv /\ [Next]_vars => IInv'
<1> SUFFICES ASSUME IInv, [Next]_vars PROVE IInv'
  OBVIOUS
<1>1. ASSUME NEW c \in Calls, Pay(c) \/ PayAndCall(c) \/ Step(c)
      PROVE  IInv'
  BY <1>1, PayIInv, PayAndCallIInv, SearchAnswerIInv, BeginIInv, FirstResponseIInv,
     SignDoneIInv, PaidResponseIInv, ReadBodyIInv DEF Step
<1>2. ASSUME NEW c \in Calls, NEW n \in 1..MAX_ATTEMPTS, Facilitator(c, n)
      PROVE  IInv'
  BY <1>2, FacilitatorIInv
<1>3. CASE UNCHANGED vars
  BY <1>3 DEF vars, IInv, TypeOK, MutualExclusion, ClearedStillFits, FitsCeiling,
              CeilingRespected, AttemptsAreFresh, Bookkeeping
<1> QED BY <1>1, <1>2, <1>3 DEF Next, Idle

\* The inductive invariant holds in every reachable state.
THEOREM Invariance == Spec => []IInv
BY InitIInv, NextIInv, PTL DEF Spec

\* Type correctness of the payer.
THEOREM TypeCorrect == Spec => []TypeOK
<1>1. IInv => TypeOK
  BY DEF IInv
<1> QED BY <1>1, Invariance, PTL

\* For any number of overlapping pay() and payAndCall() calls, the session ledger
\* never exceeds an asset's ceiling (ledger.ts, createMutex).
THEOREM CeilingHolds == Spec => []CeilingRespected
<1>1. IInv => CeilingRespected
  BY DEF IInv
<1> QED BY <1>1, Invariance, PTL

\* No call ever has two payloads that settled or still may: the retry loop of
\* payExclusively cannot pay twice, however long it is.
THEOREM NoDoublePayment == Spec => []OneLivePayload
<1>1. IInv => OneLivePayload
  BY LivePayloadIsCurrent DEF OneLivePayload
<1> QED BY <1>1, Invariance, PTL

\* What a finished call reports: SettlementFailedError really means that nothing
\* was spent, and a paid call was settled and debited exactly once.
THEOREM OutcomesHold == Spec => []OutcomesAreTrue
<1>1. IInv => SettlementFailedMeansNothingSpent
  <2> SUFFICES ASSUME IInv, NEW c \in Calls, outcome[c] = "settlementFailed"
               PROVE  /\ debits[c] = 0
                      /\ \A n \in 1..MAX_ATTEMPTS : payload[c][n] = "dead"
    BY DEF SettlementFailedMeansNothingSpent
  <2>1. debits[c] = 0 /\ attempt[c] = MAX_ATTEMPTS /\ payload[c][MAX_ATTEMPTS] = "dead"
    BY DEF IInv, Bookkeeping
  <2>2. \A n \in 1..MAX_ATTEMPTS : n < MAX_ATTEMPTS \/ n = MAX_ATTEMPTS
    BY AttemptsAssumption
  <2> QED BY <2>1, <2>2 DEF IInv, AttemptsAreFresh
<1>2. IInv => PaidMeansSettledAndDebitedOnce
  BY DEF IInv, Bookkeeping, PaidMeansSettledAndDebitedOnce
<1>3. IInv => OutcomesAreTrue
  BY <1>1, <1>2 DEF OutcomesAreTrue
<1> QED BY <1>3, Invariance, PTL

\* Settled money missing from the ledger belongs to a call that still waits, or
\* that ended in an HTTP error or a dropped connection.
THEOREM AccountingHolds == Spec => []UndebitedSpendIsAnError
<1>1. IInv => UndebitedSpendIsAnError
  <2> SUFFICES ASSUME IInv, NEW c \in Calls, NEW n \in 1..MAX_ATTEMPTS,
                      payload[c][n] = "settled"
               PROVE  \/ debits[c] = 1
                      \/ pc[c] = "paying"
                      \/ outcome[c] \in {"rejected", "dropped"}
    BY DEF UndebitedSpendIsAnError
  <2>1. n = attempt[c] /\ attempt[c] >= 1 /\ pc[c] # "signing"
    BY LivePayloadIsCurrent, AttemptsAssumption
  <2>2. pc[c] \in {"paying", "reading", "done"}
    <3>1. attempt[c] # 0
      BY <2>1
    <3>2. pc[c] \notin {"idle", "searching", "queued", "fetching"}
      BY <3>1 DEF IInv, Bookkeeping
    <3> QED BY <2>1, <3>2 DEF IInv, TypeOK, Critical
  <2>3. CASE pc[c] = "done"
    BY <2>1, <2>3 DEF IInv, TypeOK, Bookkeeping
  <2> QED BY <2>2, <2>3 DEF IInv, Bookkeeping
<1> QED BY <1>1, Invariance, PTL

-----------------------------------------------------------------------------
(* The signer's tripwire. *)

\* A step of one call that neither enters nor leaves "signing" and leaves
\* expected.current alone keeps the tripwire as it is.
LEMMA OtherStepsKeepTheTripwire ==
    ASSUME IInv, TripwireHoldsTheClearedOption, NEW c \in Calls,
           pc[c] # "signing", NEW where, where # "signing",
           pc' = [pc EXCEPT ![c] = where], expected' = expected,
           \A d \in Calls : d # c => chosen'[d] = chosen[d]
    PROVE  TripwireHoldsTheClearedOption'
<1>1. \A d \in Calls : pc'[d] = "signing" <=> d # c /\ pc[d] = "signing"
  BY DEF IInv, TypeOK
<1>2. \A d \in Calls : pc'[d] = "signing" => expected' = chosen'[d]
  BY <1>1 DEF TripwireHoldsTheClearedOption
<1>3. expected' # NoOption => \E d \in Calls : pc'[d] = "signing"
  BY <1>1 DEF TripwireHoldsTheClearedOption
<1> QED BY <1>2, <1>3 DEF TripwireHoldsTheClearedOption

\* signPayment arms the tripwire with the option of the only call that signs.
LEMMA StartAttemptArmsTheTripwire ==
    ASSUME IInv, TripwireHoldsTheClearedOption, NEW c \in Calls, NEW n, NEW option,
           pc[c] \in {"fetching", "paying"}, StartAttempt(c, n, option),
           chosen'[c] = option,
           \A d \in Calls : d # c => chosen'[d] = chosen[d]
    PROVE  TripwireHoldsTheClearedOption'
<1>1. CASE Suspend(c, "signing") /\ expected' = option
  <2>1. pc' = [pc EXCEPT ![c] = "signing"]
    BY <1>1 DEF Suspend
  <2>2. \A d \in Calls : d # c => pc[d] # "signing"
    BY DEF IInv, MutualExclusion, Critical
  <2>3. \A d \in Calls : pc'[d] = "signing" <=> d = c
    BY <2>1, <2>2 DEF IInv, TypeOK
  <2> QED BY <1>1, <2>3 DEF TripwireHoldsTheClearedOption
<1>2. CASE Finish(c, "overCeiling") /\ expected' = expected
  BY <1>2, OtherStepsKeepTheTripwire DEF Finish
<1> QED BY <1>1, <1>2 DEF StartAttempt

\* Every step keeps the tripwire with the call that signs.
LEMMA NextTripwire ==
    ASSUME IInv, TripwireHoldsTheClearedOption, [Next]_vars
    PROVE  TripwireHoldsTheClearedOption'
<1>1. ASSUME NEW c \in Calls, Pay(c) PROVE TripwireHoldsTheClearedOption'
  BY <1>1, OtherStepsKeepTheTripwire DEF Pay, Enqueue
<1>2. ASSUME NEW c \in Calls, PayAndCall(c) PROVE TripwireHoldsTheClearedOption'
  BY <1>2, OtherStepsKeepTheTripwire DEF PayAndCall
<1>3. ASSUME NEW c \in Calls, SearchAnswer(c) PROVE TripwireHoldsTheClearedOption'
  BY <1>3, OtherStepsKeepTheTripwire DEF SearchAnswer, Enqueue
<1>4. ASSUME NEW c \in Calls, Begin(c) PROVE TripwireHoldsTheClearedOption'
  BY <1>4, OtherStepsKeepTheTripwire DEF Begin, Suspend, Finish
<1>5. ASSUME NEW c \in Calls, FirstResponse(c) PROVE TripwireHoldsTheClearedOption'
  <2>1. pc[c] = "fetching"
    BY <1>5 DEF FirstResponse
  <2>2. ASSUME NEW how, Finish(c, how), UNCHANGED <<chosen, expected>>
        PROVE  TripwireHoldsTheClearedOption'
    BY <2>1, <2>2, OtherStepsKeepTheTripwire DEF Finish
  <2>3. ASSUME NEW accepts \in Challenges, Challenged(c, accepts)
        PROVE  TripwireHoldsTheClearedOption'
    <3>1. CASE Finish(c, "refused") /\ UNCHANGED <<chosen, expected>>
      BY <2>2, <3>1
    <3>2. ASSUME NEW option, chosen' = [chosen EXCEPT ![c] = option],
                 StartAttempt(c, 1, option)
          PROVE  TripwireHoldsTheClearedOption'
      <4>1. chosen'[c] = option /\ \A d \in Calls : d # c => chosen'[d] = chosen[d]
        BY <3>2 DEF IInv, TypeOK
      <4> QED BY <2>1, <3>2, <4>1, StartAttemptArmsTheTripwire
    <3> QED BY <2>3, <3>1, <3>2 DEF Challenged
  <2> QED BY <1>5, <2>2, <2>3 DEF FirstResponse
<1>6. ASSUME NEW c \in Calls, SignDone(c) PROVE TripwireHoldsTheClearedOption'
  <2>1. pc[c] = "signing" /\ expected' = NoOption
    BY <1>6 DEF SignDone
  <2>2. \A d \in Calls : d # c => pc[d] # "signing"
    BY <2>1 DEF IInv, MutualExclusion, Critical
  <2>3. \A d \in Calls : pc'[d] # "signing"
    BY <1>6, <2>2 DEF SignDone, Suspend, Finish, IInv, TypeOK
  <2> QED BY <2>1, <2>3 DEF TripwireHoldsTheClearedOption
<1>7. ASSUME NEW c \in Calls, PaidResponse(c) PROVE TripwireHoldsTheClearedOption'
  <2>1. pc[c] = "paying" /\ chosen' = chosen
    BY <1>7 DEF PaidResponse
  <2>2. ASSUME NEW how, Finish(c, how), expected' = expected
        PROVE  TripwireHoldsTheClearedOption'
    BY <2>1, <2>2, OtherStepsKeepTheTripwire DEF Finish
  <2>3. CASE RetryOrGiveUp(c)
    <3>1. CASE StartAttempt(c, attempt[c] + 1, chosen[c])
      BY <2>1, <3>1, StartAttemptArmsTheTripwire
    <3> QED BY <2>2, <2>3, <3>1 DEF RetryOrGiveUp
  <2>4. CASE Suspend(c, "reading") /\ expected' = expected
    BY <2>1, <2>4, OtherStepsKeepTheTripwire DEF Suspend
  <2>5. ASSUME NEW settle, PaymentFailed(c, settle) \/ PaymentAnswered(c, settle)
        PROVE  TripwireHoldsTheClearedOption'
    BY <2>2, <2>3, <2>4, <2>5 DEF PaymentFailed, PaymentAnswered
  <2> QED BY <1>7, <2>2, <2>5 DEF PaidResponse
<1>8. ASSUME NEW c \in Calls, ReadBody(c) PROVE TripwireHoldsTheClearedOption'
  BY <1>8, OtherStepsKeepTheTripwire DEF ReadBody, Finish
<1>9. CASE UNCHANGED <<pc, chosen, expected>>
  BY <1>9 DEF TripwireHoldsTheClearedOption
<1>10. ASSUME NEW c \in Calls, NEW n \in 1..MAX_ATTEMPTS, Facilitator(c, n)
       PROVE  TripwireHoldsTheClearedOption'
  BY <1>9, <1>10 DEF Facilitator
<1>11. CASE UNCHANGED vars
  BY <1>9, <1>11 DEF vars
<1> QED BY <1>1, <1>2, <1>3, <1>4, <1>5, <1>6, <1>7, <1>8, <1>10, <1>11
        DEF Next, Step, Idle

\* Overlapping calls never touch each other's payment: one at a time is between
\* its fetch and its debit, what it cleared still fits, and the signer compares
\* with its own option (createMutex, signer.ts's expected.current).
THEOREM CallsStayApart == Spec => []CallsDoNotMix
<1>1. Init => TripwireHoldsTheClearedOption
  BY DEF Init, TripwireHoldsTheClearedOption
<1>2. Spec => []TripwireHoldsTheClearedOption
  BY <1>1, NextTripwire, Invariance, PTL DEF Spec
<1>3. IInv /\ TripwireHoldsTheClearedOption => CallsDoNotMix
  BY DEF IInv, CallsDoNotMix
<1> QED BY <1>2, <1>3, Invariance, PTL

-----------------------------------------------------------------------------
(* The payer implements SpendBudget. *)

\* The abstract status of a call (the refinement mapping of Payer!Budget).
StatusOf(c) == IF debits[c] > 0 THEN "charged"
               ELSE IF pc[c] = "done" THEN "free" ELSE "open"

\* A debit is an abstract Charge: the call was open, and the ledger grows in one
\* asset, to no more than its ceiling.
LEMMA RecordIsCharge ==
    ASSUME IInv, IInv', NEW c \in Calls, pc[c] = "paying", Record(c),
           \A d \in Calls : d # c => pc'[d] = pc[d]
    PROVE  Budget!Charge(c)
<1>1. /\ chosen[c].asset \in Assets /\ chosen[c].amount \in Nat
      /\ debits[c] = 0 /\ debits' = [debits EXCEPT ![c] = 1]
  <2>1. outcome[c] = "none"
    BY DEF IInv, Bookkeeping
  <2>2. debits[c] = 0
    BY <2>1 DEF IInv, Bookkeeping
  <2> QED BY <2>2 DEF IInv, TypeOK, Record
<1> DEFINE a == chosen[c].asset
<1>2. spent'[a] \in spent[a]..Ceiling[a]
  <2>1. spent[a] \in Nat /\ spent'[a] = spent[a] + chosen[c].amount
    BY <1>1 DEF IInv, TypeOK, Record
  <2>2. spent'[a] <= Ceiling[a] /\ Ceiling[a] \in Nat
    BY <1>1, CeilingAssumption DEF IInv, CeilingRespected
  <2> QED BY <1>1, <2>1, <2>2
<1>3. spent' = [spent EXCEPT ![a] = spent'[a]]
  BY <1>1 DEF IInv, TypeOK, Record
<1>4. [d \in Calls |-> StatusOf(d)'] = [[d \in Calls |-> StatusOf(d)] EXCEPT ![c] = "charged"]
  <2>1. StatusOf(c)' = "charged"
    BY <1>1 DEF StatusOf, IInv, TypeOK
  <2>2. \A d \in Calls : d # c => StatusOf(d)' = StatusOf(d)
    BY <1>1 DEF StatusOf, IInv, TypeOK
  <2> QED BY <2>1, <2>2
<1>5. StatusOf(c) = "open"
  BY <1>1 DEF StatusOf
<1> HIDE DEF a
<1> QED BY <1>1, <1>2, <1>3, <1>4, <1>5 DEF Budget!Charge, StatusOf, a

\* A step that debits nothing is an abstract Refuse of the call that ended, or
\* leaves the abstract state alone.
LEMMA UndebitedStepRefines ==
    ASSUME IInv, NEW c \in Calls, UNCHANGED <<spent, debits>>,
           pc[c] # "done", NEW where, pc' = [pc EXCEPT ![c] = where]
    PROVE  Budget!Refuse(c) \/ UNCHANGED Budget!vars
<1>1. CASE StatusOf(c)' = StatusOf(c)
  <2>1. \A d \in Calls : StatusOf(d)' = StatusOf(d)
    BY <1>1 DEF StatusOf, IInv, TypeOK
  <2> QED BY <2>1 DEF StatusOf, Budget!vars
<1>2. CASE StatusOf(c)' # StatusOf(c)
  <2>1. StatusOf(c) = "open" /\ StatusOf(c)' = "free"
    BY <1>2 DEF StatusOf, IInv, TypeOK
  <2>2. [d \in Calls |-> StatusOf(d)'] = [[d \in Calls |-> StatusOf(d)] EXCEPT ![c] = "free"]
    BY <2>1 DEF StatusOf, IInv, TypeOK
  <2> QED BY <2>1, <2>2 DEF Budget!Refuse, StatusOf
<1> QED BY <1>1, <1>2

LEMMA StepRefines ==
    ASSUME IInv, IInv', [Next]_vars
    PROVE  [Budget!Next]_(Budget!vars)
<1>1. ASSUME NEW c \in Calls, Pay(c) \/ PayAndCall(c) \/ SearchAnswer(c) \/ Begin(c)
                              \/ FirstResponse(c) \/ SignDone(c) \/ ReadBody(c)
      PROVE  Budget!Refuse(c) \/ UNCHANGED Budget!vars
  <2>1. /\ UNCHANGED <<spent, debits>>
        /\ pc[c] # "done"
    BY <1>1 DEF Pay, PayAndCall, SearchAnswer, Begin, FirstResponse, SignDone, ReadBody
  <2>2. \E where : pc' = [pc EXCEPT ![c] = where]
    BY <1>1 DEF Pay, PayAndCall, SearchAnswer, Begin, FirstResponse, SignDone, ReadBody,
                Challenged, StartAttempt, Finish, Suspend, Enqueue
  <2> QED BY <2>1, <2>2, UndebitedStepRefines
<1>2. ASSUME NEW c \in Calls, PaidResponse(c)
      PROVE  Budget!Charge(c) \/ Budget!Refuse(c) \/ UNCHANGED Budget!vars
  <2>1. pc[c] = "paying"
    BY <1>2 DEF PaidResponse
  <2>2. PICK where : pc' = [pc EXCEPT ![c] = where]
    BY <1>2 DEF PaidResponse, PaymentFailed, PaymentAnswered, RetryOrGiveUp,
                StartAttempt, Finish, Suspend
  <2>3. UNCHANGED <<spent, debits>> \/ Record(c)
    BY <1>2 DEF PaidResponse, PaymentFailed, PaymentAnswered, RetryOrGiveUp
  <2>4. \A d \in Calls : d # c => pc'[d] = pc[d]
    BY <2>2 DEF IInv, TypeOK
  <2> QED BY <2>1, <2>2, <2>3, <2>4, UndebitedStepRefines, RecordIsCharge
<1>3. CASE UNCHANGED <<spent, debits, pc>>
  BY <1>3 DEF Budget!vars
<1>4. ASSUME NEW c \in Calls, NEW n \in 1..MAX_ATTEMPTS, Facilitator(c, n)
      PROVE  UNCHANGED <<spent, debits, pc>>
  BY <1>4 DEF Facilitator
<1>5. Idle \/ UNCHANGED vars => UNCHANGED <<spent, debits, pc>>
  BY DEF Idle, vars
<1> QED BY <1>1, <1>2, <1>3, <1>4, <1>5 DEF Next, Step, Budget!Next

\* The whole payer (queue, retries, tripwire and late debit) implements one
\* atomic check-and-debit per call.
THEOREM RefinesSpendBudget == Spec => ImplementsBudget
<1>1. Init => Budget!Init
  BY DEF Init, Budget!Init
<1> QED BY <1>1, StepRefines, Invariance, PTL DEF Spec, ImplementsBudget, Budget!Spec
=============================================================================
