-------------------------- MODULE X402ClientProofs --------------------------
(***************************************************************************)
(* What the SDK's x402 client signs, for every number of overlapping       *)
(* calls, every list of budget rules and every set of challenges.          *)
(***************************************************************************)
EXTENDS X402Client, X402GuardsProofs, Sums

\* The guards and the rule of the payment hold for the option call c carries.
WithinLimits(c) ==
    /\ option[c] # NoOption
    /\ option[c].amount <= limit[c]
    /\ option[c].asset \in AllowedAssets
    /\ rules # << >> =>
        /\ checked[c] # 0
        /\ option[c].amount <= rules[checked[c]].maxAmount
        /\ rules[checked[c]].merchant \in {Wildcard, option[c].payTo}
        /\ rules[checked[c]].category \in {Wildcard, option[c].category}
        /\ ~\E i \in 1..(checked[c] - 1) :
               \A at \in 0..(HoursPerDay * DaysPerWeek - 1) : Matches(rules[i], option[c], at)

\* A call whose guards were passed: it waits for the tracker, signs or pays, or
\* it ended with a signature.
Cleared(c) == \/ pc[c] \in {"checking", "signing", "paying"}
              \/ outcome[c] \in {"signed", "paid"}

\* The inductive invariant: a call keeps what it was cleared for until it ends,
\* and has no outcome before.
IInv == /\ TypeOK
        /\ \A c \in Calls : pc[c] # "done" => outcome[c] = "none"
        /\ \A c \in Calls : Cleared(c) => WithinLimits(c)
        /\ \A c \in Calls : pc[c] = "checking" => checked[c] # 0

-----------------------------------------------------------------------------
(* What the operators of the model return. *)

\* The larger of two integers.
LEMMA MaxOfTwo ==
    ASSUME NEW a \in Int, NEW b \in Int
    PROVE  Max({a, b}) \in {a, b} /\ Max({a, b}) >= a /\ Max({a, b}) >= b
BY DEF Max

\* A remainder is below the divisor.
LEMMA RemainderInRange ==
    ASSUME NEW n \in Nat \ {0}, NEW x \in Nat
    PROVE  x % n \in 0..(n - 1)
OBVIOUS

\* The product of the hours in a day and the days in a week is positive.
LEMMA WeekIsPositive == HoursPerDay * DaysPerWeek \in Nat \ {0}
BY ClockAssumption

\* rules.find returns the first rule that matches at that time, or nothing.
LEMMA FirstMatch ==
    ASSUME rules \in RuleSets, NEW opt, NEW at
    PROVE  LET i == MatchingBudgetRule(opt, at)
           IN  /\ i \in RuleIndex \cup {0}
               /\ i # 0 => /\ Matches(rules[i], opt, at)
                           /\ \A j \in 1..(i - 1) : ~Matches(rules[j], opt, at)
<1> DEFINE M == {i \in RuleIndex : Matches(rules[i], opt, at)}
<1>1. M \subseteq Nat /\ 0 \notin M /\ RuleIndex = 1..Len(rules) /\ Len(rules) \in Nat
  BY RulesAssumption DEF RuleIndex
<1>2. CASE M = {}
  BY <1>2 DEF MatchingBudgetRule
<1>3. CASE M # {}
  <2>1. PICK m \in M : \A y \in M : m <= y
    <3> HIDE DEF M
    <3> QED BY <1>1, <1>3, LeastNatural
  <2>2. Min(M) \in M /\ \A y \in M : Min(M) <= y
    <3> HIDE DEF M
    <3> QED BY <2>1 DEF Min
  <2>3. MatchingBudgetRule(opt, at) = Min(M)
    BY <1>3 DEF MatchingBudgetRule
  <2>4. ASSUME NEW j \in 1..(Min(M) - 1) PROVE ~Matches(rules[j], opt, at)
    <3>1. Min(M) \in Nat /\ Min(M) <= Len(rules) /\ Min(M) >= 1
      BY <2>2, <1>1
    <3>2. j \in RuleIndex /\ ~(Min(M) <= j)
      BY <3>1, <1>1
    <3>3. j \notin M
      <4> HIDE DEF M
      <4> QED BY <3>2, <2>2
    <3> QED BY <3>2, <3>3
  <2>5. Min(M) # 0
    BY <1>1, <2>2
  <2> QED BY <2>2, <2>3, <2>4, <2>5
<1> QED BY <1>2, <1>3

-----------------------------------------------------------------------------
(* What the parts of an action preserve. *)

\* Counting calls in progress stays within the bound.
LEMMA EnterKeepsThePeak ==
    ASSUME TypeOK, NEW c \in Calls, Enter(c)
    PROVE  peak' \in 0..MaxOverlap
<1>1. Cardinality(Active) \in Nat
  BY OverlapAssumption, FS_Subset, FS_CardinalityType DEF Active
<1>2. peak \in 0..MaxOverlap /\ peak' = Max({peak, Cardinality(Active) + 1})
      /\ Cardinality(Active) < MaxOverlap
  BY DEF TypeOK, Enter
<1>3. Max({peak, Cardinality(Active) + 1}) \in {peak, Cardinality(Active) + 1}
  <2>1. peak \in Int /\ Cardinality(Active) + 1 \in Int
    BY <1>1, <1>2, OverlapAssumption
  <2> QED BY <2>1, MaxOfTwo, Zenon
<1> QED BY <1>1, <1>2, <1>3, OverlapAssumption

\* Ending a call, or leaving one for its next await, gives a legal state of the
\* calls.
LEMMA ProgressIsTyped ==
    ASSUME TypeOK, NEW c \in Calls
    PROVE  /\ \A how \in Outcomes : Finish(c, how) =>
                  /\ pc' \in [Calls -> {"idle", "fetching", "checking", "signing", "paying", "done"}]
                  /\ outcome' \in [Calls -> Outcomes]
           /\ \A where \in {"fetching", "checking", "signing", "paying"} : Suspend(c, where) =>
                  /\ pc' \in [Calls -> {"idle", "fetching", "checking", "signing", "paying", "done"}]
                  /\ outcome' \in [Calls -> Outcomes]
BY DEF TypeOK, Finish, Suspend

\* A requirement that passed the guards, given to buildSignedPayment: whatever
\* the call is left waiting for, the budget rule it matched lets it pay.
LEMMA BuildSignedPaymentIsWithinLimits ==
    ASSUME IInv, NEW c \in Calls, NEW opt \in Offered,
           pc[c] # "done", BuildSignedPayment(c, opt),
           limit' \in [Calls -> Int], \A d \in Calls \ {c} : limit'[d] = limit[d],
           opt.asset \in AllowedAssets, opt.amount \in Nat, opt.amount <= limit'[c],
           UNCHANGED <<rules, records, recorded, spent, now>>,
           peak' \in 0..MaxOverlap
    PROVE  IInv'
<1> DEFINE i == MatchingBudgetRule(opt, now)
<1>0. opt # NoOption
  BY ChallengesAssumption
<1>1. /\ i \in RuleIndex \cup {0}
      /\ i # 0 => /\ Matches(rules[i], opt, now)
                  /\ \A j \in 1..(i - 1) : ~Matches(rules[j], opt, now)
  BY FirstMatch DEF IInv, TypeOK
<1>2. i # 0 => rules[i].maxAmount \in Nat /\ rules[i].periodMaxAmount \in Nat
  BY <1>1, RulesAssumption DEF IInv, TypeOK, RuleIndex, ValidRule
<1>3. /\ option' = [option EXCEPT ![c] = opt]
      /\ \/ Suspend(c, "signing") /\ UNCHANGED <<checked, seen>> /\ rules = << >>
         \/ Finish(c, "denied") /\ UNCHANGED <<checked, seen>>
         \/ /\ checked' = [checked EXCEPT ![c] = i] /\ i # 0
            /\ ~(opt.amount > rules[i].maxAmount)
            /\ Suspend(c, "signing") /\ UNCHANGED seen
         \/ /\ checked' = [checked EXCEPT ![c] = i] /\ i # 0
            /\ ~(opt.amount > rules[i].maxAmount)
            /\ Suspend(c, "checking") /\ seen' = [seen EXCEPT ![c] = spent[i]]
  BY DEF BuildSignedPayment
<1> HIDE DEF i
<1>4. TypeOK'
  <2>1. option' \in [Calls -> Offered \cup {NoOption}]
    BY <1>3 DEF IInv, TypeOK
  <2>2. \A d \in Calls : option'[d] # NoOption => option'[d].amount \in Nat
    BY <1>3 DEF IInv, TypeOK
  <2>3. checked' \in [Calls -> RuleIndex \cup {0}]
    BY <1>1, <1>3 DEF IInv, TypeOK
  <2>4. seen' \in [Calls -> Nat]
    BY <1>1, <1>3 DEF IInv, TypeOK
  <2>5. /\ pc' \in [Calls -> {"idle", "fetching", "checking", "signing", "paying", "done"}]
        /\ outcome' \in [Calls -> Outcomes]
    BY <1>3, ProgressIsTyped DEF IInv, Outcomes
  <2> QED BY <2>1, <2>2, <2>3, <2>4, <2>5 DEF IInv, TypeOK, RuleIndex
<1>5. \A d \in Calls : pc'[d] # "done" => outcome'[d] = "none"
  BY <1>3 DEF IInv, TypeOK, Suspend, Finish
<1>6. \A d \in Calls : pc'[d] = "checking" => checked'[d] # 0
  BY <1>3 DEF IInv, TypeOK, Suspend, Finish
<1>7. ASSUME NEW d \in Calls, d # c, Cleared(d)' PROVE WithinLimits(d)'
  <2>1. Cleared(d)
    BY <1>3, <1>7 DEF IInv, TypeOK, Suspend, Finish, Cleared
  <2>2. option'[d] = option[d] /\ checked'[d] = checked[d] /\ limit'[d] = limit[d]
    BY <1>3, <1>7 DEF IInv, TypeOK
  <2>3. WithinLimits(d)
    BY <2>1 DEF IInv
  <2> QED BY <2>2, <2>3 DEF WithinLimits, Matches, MatchesWindow
<1>8. ASSUME Cleared(c)' PROVE WithinLimits(c)'
  <2>1. option'[c] = opt
    BY <1>3 DEF IInv, TypeOK
  <2>2. ~Finish(c, "denied")
    BY <1>8 DEF IInv, TypeOK, Finish, Cleared
  <2>3. CASE rules = << >>
    BY <2>1, <2>3, <1>0 DEF WithinLimits
  <2>4. CASE rules # << >>
    <3>1. checked'[c] = i /\ i # 0 /\ opt.amount <= rules[i].maxAmount
      <4>1. checked' = [checked EXCEPT ![c] = i] /\ i # 0 /\ ~(opt.amount > rules[i].maxAmount)
        BY ONLY <1>3, <2>2, <2>4, Zenon
      <4>2. checked'[c] = i
        BY <4>1 DEF IInv, TypeOK
      <4> QED BY <1>1, <1>2, <4>1, <4>2
    <3>2. rules[i].merchant \in {Wildcard, opt.payTo} /\ rules[i].category \in {Wildcard, opt.category}
      BY <1>1, <3>1 DEF Matches
    <3>3. now \in 0..(HoursPerDay * DaysPerWeek - 1)
      BY DEF IInv, TypeOK
    <3>4. ~\E j \in 1..(i - 1) :
             \A at \in 0..(HoursPerDay * DaysPerWeek - 1) : Matches(rules[j], opt, at)
      BY <1>1, <3>1, <3>3
    <3> QED BY <1>0, <2>1, <3>1, <3>2, <3>4 DEF WithinLimits, Matches, MatchesWindow
  <2> QED BY <2>3, <2>4
<1> QED BY <1>4, <1>5, <1>6, <1>7, <1>8 DEF IInv

-----------------------------------------------------------------------------
(* The invariant. *)

\* A step that leaves what a call was cleared for alone, and clears nobody new,
\* keeps every cleared payment within its limits.
LEMMA ClearedStaysWithinLimits ==
    ASSUME IInv, UNCHANGED <<rules, option, limit, checked>>,
           \A d \in Calls : Cleared(d)' => Cleared(d)
    PROVE  \A d \in Calls : Cleared(d)' => WithinLimits(d)'
<1> SUFFICES ASSUME NEW d \in Calls, Cleared(d)' PROVE WithinLimits(d)'
  OBVIOUS
<1>1. WithinLimits(d)
  BY DEF IInv
<1> QED BY <1>1 DEF WithinLimits, Matches, MatchesWindow

\* No call is in progress at the start.
LEMMA InitIInv == Init => IInv
<1> SUFFICES ASSUME Init PROVE IInv
  OBVIOUS
<1>1. TypeOK
  BY OverlapAssumption, ClockAssumption DEF Init, TypeOK, Outcomes, RuleIndex
<1> QED BY <1>1 DEF Init, IInv, Cleared

\* Every step keeps the invariant.
LEMMA NextIInv == IInv /\ [Next]_vars => IInv'
<1> SUFFICES ASSUME IInv, [Next]_vars PROVE IInv'
  OBVIOUS
<1> USE DEF IInv
<1>1. ASSUME NEW c \in Calls, Fetch(c) PROVE IInv'
  <2>1. peak' \in 0..MaxOverlap
    BY <1>1, EnterKeepsThePeak DEF Fetch
  <2>2. TypeOK'
    BY <1>1, <2>1, MaxAmountsAssumption DEF Fetch, Enter, Suspend, TypeOK, RuleIndex
  <2>3. ASSUME NEW d \in Calls, Cleared(d)' PROVE d # c /\ WithinLimits(d)'
    <3>1. d # c /\ Cleared(d)
      BY <1>1, <2>3 DEF Fetch, Enter, Suspend, TypeOK, Cleared
    <3>2. limit'[d] = limit[d] /\ WithinLimits(d)
      BY <1>1, <3>1 DEF Fetch, TypeOK
    <3> QED BY <1>1, <3>1, <3>2 DEF Fetch, WithinLimits, Matches, MatchesWindow
  <2> QED BY <1>1, <2>2, <2>3 DEF Fetch, Enter, Suspend, TypeOK
<1>2. ASSUME NEW c \in Calls, CreatePayment(c) PROVE IInv'
  <2>1. peak' \in 0..MaxOverlap
    BY <1>2, EnterKeepsThePeak DEF CreatePayment
  <2>2. PICK m \in MaxAmounts, accepts \in Challenges : \E i \in DOMAIN accepts :
          /\ limit' = [limit EXCEPT ![c] = m]
          /\ \/ Finish(c, "refused") /\ UNCHANGED <<option, checked, seen>>
             \/ /\ accepts[i].asset \in AllowedAssets /\ ParsesAsAmount(accepts[i].amount)
                /\ ~(accepts[i].amount > m)
                /\ BuildSignedPayment(c, accepts[i])
    BY <1>2 DEF CreatePayment
  <2>3. PICK i \in DOMAIN accepts :
          /\ limit' = [limit EXCEPT ![c] = m]
          /\ \/ Finish(c, "refused") /\ UNCHANGED <<option, checked, seen>>
             \/ /\ accepts[i].asset \in AllowedAssets /\ ParsesAsAmount(accepts[i].amount)
                /\ ~(accepts[i].amount > m)
                /\ BuildSignedPayment(c, accepts[i])
    BY <2>2
  <2>4. accepts[i] \in Offered /\ accepts[i].amount \in Int /\ m \in Int
    BY ChallengesAssumption, MaxAmountsAssumption DEF Offered
  <2>5. /\ limit' \in [Calls -> Int] /\ limit'[c] = m
        /\ \A d \in Calls \ {c} : limit'[d] = limit[d]
        /\ UNCHANGED <<rules, records, recorded, spent, now>> /\ pc[c] = "idle"
    BY <1>2, <2>3, <2>4 DEF CreatePayment, Enter, TypeOK
  <2>6. CASE BuildSignedPayment(c, accepts[i]) /\ accepts[i].asset \in AllowedAssets
             /\ ParsesAsAmount(accepts[i].amount) /\ ~(accepts[i].amount > m)
    <3>1. accepts[i].amount \in Nat /\ accepts[i].amount <= limit'[c]
      BY <2>4, <2>5, <2>6 DEF ParsesAsAmount
    <3> QED BY <2>1, <2>4, <2>5, <2>6, <3>1, BuildSignedPaymentIsWithinLimits
  <2>7. CASE Finish(c, "refused") /\ UNCHANGED <<option, checked, seen>>
    <3>1. TypeOK'
      BY <2>1, <2>5, <2>7, ProgressIsTyped DEF TypeOK, Outcomes, RuleIndex
    <3>2. ASSUME NEW d \in Calls, Cleared(d)' PROVE d # c /\ WithinLimits(d)'
      <4>1. d # c /\ Cleared(d)
        BY <2>7, <3>2 DEF Finish, TypeOK, Cleared
      <4> QED BY <2>5, <2>7, <4>1 DEF WithinLimits, Matches, MatchesWindow
    <3> QED BY <2>7, <3>1, <3>2 DEF Finish, TypeOK
  <2> QED BY <2>3, <2>6, <2>7
<1>3. ASSUME NEW c \in Calls, FirstResponse(c) PROVE IInv'
  <2>1. UNCHANGED <<rules, limit, records, recorded, spent, now, peak>> /\ pc[c] = "fetching"
    BY <1>3 DEF FirstResponse
  <2>2. ASSUME NEW how \in {"fetchFailed", "unpaid", "refused"}, Finish(c, how),
               UNCHANGED <<option, checked, seen>>
        PROVE  IInv'
    <3>1. TypeOK'
      BY <2>1, <2>2, ProgressIsTyped DEF TypeOK, Outcomes, RuleIndex
    <3>2. \A d \in Calls : Cleared(d)' => Cleared(d)
      BY <2>2 DEF Finish, TypeOK, Cleared
    <3>3. \A d \in Calls : Cleared(d)' => WithinLimits(d)'
      BY <2>1, <2>2, <3>2, ClearedStaysWithinLimits
    <3> QED BY <2>2, <3>1, <3>3 DEF Finish, TypeOK
  <2>3. ASSUME NEW accepts \in Challenges, Refusal(accepts, AllowedAssets, limit[c]) = "none",
               BuildSignedPayment(c, SelectRequirements(accepts, AllowedAssets))
        PROVE  IInv'
    <3> DEFINE opt == SelectRequirements(accepts, AllowedAssets)
    <3>1. DOMAIN accepts = 1..Len(accepts) /\ Len(accepts) \in Nat
      BY ChallengesAssumption
    <3>2. \A i \in DOMAIN accepts : accepts[i] \in Offered /\ accepts[i].amount \in Int
      BY ChallengesAssumption DEF Offered
    <3>3. limit[c] \in Int
      BY DEF TypeOK
    <3>4. /\ \E i \in DOMAIN accepts : opt = accepts[i]
          /\ opt.asset \in AllowedAssets /\ opt.amount \in Nat /\ opt.amount <= limit[c]
      BY <2>3, <3>1, <3>2, <3>3, SelectionIsCleared
    <3>5. opt \in Offered
      BY <3>2, <3>4
    <3> HIDE DEF opt
    <3>6. BuildSignedPayment(c, opt)
      BY <2>3 DEF opt
    <3>7. limit' \in [Calls -> Int] /\ peak' \in 0..MaxOverlap
      BY <2>1 DEF TypeOK
    <3> QED BY <2>1, <3>4, <3>5, <3>6, <3>7, BuildSignedPaymentIsWithinLimits
  <2> QED BY <1>3, <2>2, <2>3 DEF FirstResponse
<1>4. ASSUME NEW c \in Calls, CheckPeriod(c) PROVE IInv'
  <2>1. TypeOK'
    BY <1>4, ProgressIsTyped DEF CheckPeriod, TypeOK, Outcomes, RuleIndex
  <2>2. \A d \in Calls : Cleared(d)' => Cleared(d)
    BY <1>4 DEF CheckPeriod, Finish, Suspend, TypeOK, Cleared
  <2>3. \A d \in Calls : Cleared(d)' => WithinLimits(d)'
    BY <1>4, <2>2, ClearedStaysWithinLimits DEF CheckPeriod
  <2> QED BY <1>4, <2>1, <2>3 DEF CheckPeriod, Finish, Suspend, TypeOK
<1>5. ASSUME NEW c \in Calls, SignDone(c) PROVE IInv'
  <2>1. TypeOK'
    BY <1>5, ProgressIsTyped DEF SignDone, TypeOK, Outcomes, RuleIndex
  <2>2. \A d \in Calls : Cleared(d)' => Cleared(d)
    BY <1>5 DEF SignDone, Finish, Suspend, TypeOK, Cleared
  <2>3. \A d \in Calls : Cleared(d)' => WithinLimits(d)'
    BY <1>5, <2>2, ClearedStaysWithinLimits DEF SignDone
  <2> QED BY <1>5, <2>1, <2>3 DEF SignDone, Finish, Suspend, TypeOK
<1>6. ASSUME NEW c \in Calls, PaidResponse(c) PROVE IInv'
  <2>1. WithinLimits(c) /\ option[c].amount \in Nat
    BY <1>6 DEF PaidResponse, Cleared, WithinLimits, TypeOK
  <2>2. MatchingBudgetRule(option[c], now) \in RuleIndex \cup {0}
    BY FirstMatch DEF TypeOK
  <2>3. spent' \in [RuleIndex -> Nat] /\ recorded' \in [Calls -> RuleIndex \cup {0}]
    BY <1>6, <2>1, <2>2 DEF PaidResponse, TypeOK
  <2>4. TypeOK'
    BY <1>6, <2>3, ProgressIsTyped DEF PaidResponse, TypeOK, Outcomes, RuleIndex
  <2>5. \A d \in Calls : Cleared(d)' => Cleared(d)
    BY <1>6 DEF PaidResponse, Finish, TypeOK, Cleared
  <2>6. \A d \in Calls : Cleared(d)' => WithinLimits(d)'
    BY <1>6, <2>5, ClearedStaysWithinLimits DEF PaidResponse
  <2> QED BY <1>6, <2>4, <2>6 DEF PaidResponse, Finish, TypeOK
<1>7. ASSUME Tick PROVE IInv'
  <2>1. now' \in 0..(HoursPerDay * DaysPerWeek - 1)
    <3> DEFINE week == HoursPerDay * DaysPerWeek
    <3>1. week \in Nat \ {0}
      BY WeekIsPositive
    <3>2. now \in 0..(week - 1) /\ now' = (now + 1) % week
      BY <1>7 DEF Tick, TypeOK
    <3> HIDE DEF week
    <3>3. now' \in 0..(week - 1)
      BY <3>1, <3>2, RemainderInRange
    <3> QED BY <3>3 DEF week
  <2>2. TypeOK'
    BY <1>7, <2>1 DEF Tick, TypeOK, RuleIndex
  <2>3. \A d \in Calls : Cleared(d)' => WithinLimits(d)'
    BY <1>7, ClearedStaysWithinLimits DEF Tick, Cleared
  <2> QED BY <1>7, <2>2, <2>3 DEF Tick
<1>8. ASSUME UNCHANGED vars PROVE IInv'
  <2>1. TypeOK'
    BY <1>8 DEF vars, TypeOK, RuleIndex
  <2>2. \A d \in Calls : Cleared(d)' => WithinLimits(d)'
    BY <1>8, ClearedStaysWithinLimits DEF vars, Cleared
  <2> QED BY <1>8, <2>1, <2>2 DEF vars
<1> QED BY <1>1, <1>2, <1>3, <1>4, <1>5, <1>6, <1>7, <1>8 DEF Next

\* The client's state stays in its domain: in particular the tracker's totals
\* never become negative or undefined, whatever rule a payment is recorded under.
THEOREM X402ClientTypeSafety == Spec => []TypeOK
<1>1. IInv => TypeOK
  BY DEF IInv
<1> QED BY <1>1, InitIInv, NextIInv, PTL DEF Spec

\* x402-client.ts: whatever calls overlap, nothing is signed above maxAmount,
\* outside allowedAssets, above the matching rule's ceiling, or past an earlier
\* rule that fits it at every hour.
THEOREM X402ClientSignsWithinLimits == Spec => []SignedIsWithinLimits
<1>1. IInv => SignedIsWithinLimits
  BY DEF IInv, SignedIsWithinLimits, Cleared, WithinLimits
<1> QED BY <1>1, InitIInv, NextIInv, PTL DEF Spec

-----------------------------------------------------------------------------
(***************************************************************************)
(* The period budgets.  A call is charged, as far as the bound goes, when  *)
(* it reads the tracker and will pass the check: from then on its amount   *)
(* is in InFlight, and an accepted payment only moves it to the tracker.   *)
(***************************************************************************)

\* The calls that read the tracker for rule i, and whose payment fits what they read.
InFlight(i) ==
    {c \in Calls : /\ pc[c] \in {"checking", "signing", "paying"} /\ checked[c] = i
                   /\ seen[c] + option[c].amount <= rules[i].periodMaxAmount}

\* The calls whose spend is recorded under rule i.
RecordedUnder(i) == {c \in Calls : outcome[c] = "paid" /\ recorded[c] = i}

\* What overlapping calls can spend under rule i.
Ceiling(i) == rules[i].periodMaxAmount + Max({peak - 1, 0}) * rules[i].maxAmount

\* The tracker and the calls in flight together stay below it.
Fits(i) == Periodic(i) => spent[i] + Total(InFlight(i)) <= Ceiling(i)

\* A call past the check passed it.
PassedTheCheck ==
    \A c \in Calls : pc[c] \in {"signing", "paying"} /\ Periodic(checked[c]) =>
        seen[c] + option[c].amount <= rules[checked[c]].periodMaxAmount

\* The rule a call was checked under is the one it would match now.
RuleIsKept ==
    \A c \in Calls : pc[c] \in {"checking", "signing", "paying"} =>
        checked[c] = MatchingBudgetRule(option[c], now)

\* The inductive invariant of the budgets, on top of IInv.
BInv == /\ TrackerCountsAccepted
        /\ Cardinality(Active) <= peak
        /\ PassedTheCheck
        /\ \A c \in Calls : outcome[c] # "paid" => recorded[c] = 0
        /\ Timeless => RuleIsKept /\ RecordedUnderCheckedRule /\ \A i \in RuleIndex : Fits(i)

\* The amounts of a set of calls, for the options o.
Amounts(o, C) == [c \in C |-> o[c].amount]

\* Taking one call out of a total.
LEMMA AmountsSum ==
    ASSUME NEW o, NEW C, IsFiniteSet(C), \A c \in C : o[c].amount \in Nat
    PROVE  /\ SumFunction(Amounts(o, C)) \in Nat
           /\ C = {} => SumFunction(Amounts(o, C)) = 0
           /\ \A c \in C : /\ SumFunction(Amounts(o, C \ {c})) \in Nat
                           /\ SumFunction(Amounts(o, C)) = o[c].amount + SumFunction(Amounts(o, C \ {c}))
<1>1. Amounts(o, C) \in [C -> Nat] /\ Amounts(o, C) \in [C -> Int]
  BY DEF Amounts
<1>2. \A c \in C : /\ Amounts(o, C)[c] = o[c].amount
                   /\ [d \in C \ {c} |-> Amounts(o, C)[d]] = Amounts(o, C \ {c})
                   /\ Amounts(o, C \ {c}) \in [C \ {c} -> Nat]
                   /\ IsFiniteSet(C \ {c})
  BY FS_RemoveElement DEF Amounts
<1>3. SumFunction(Amounts(o, C)) \in Nat
  BY <1>1, SumIsNat
<1>4. C = {} => SumFunction(Amounts(o, C)) = 0
  BY <1>1, SumIsInt
<1>5. ASSUME NEW c \in C
      PROVE  /\ SumFunction(Amounts(o, C \ {c})) \in Nat
             /\ SumFunction(Amounts(o, C)) = o[c].amount + SumFunction(Amounts(o, C \ {c}))
  <2>1. SumFunction(Amounts(o, C)) = Amounts(o, C)[c] + SumFunction([d \in C \ {c} |-> Amounts(o, C)[d]])
    <3>1. IsFiniteSet(C) /\ Amounts(o, C) \in [C -> Int] /\ c \in C
      BY <1>1
    <3> QED BY ONLY <3>1, SumSplit
  <2>2. SumFunction(Amounts(o, C \ {c})) \in Nat
    BY <1>2, SumIsNat
  <2> QED BY <1>2, <2>1, <2>2
<1> QED BY <1>3, <1>4, <1>5

\* A total depends only on the options of its calls.
LEMMA AmountsSame ==
    ASSUME NEW o, NEW p, NEW C, \A c \in C : o[c] = p[c]
    PROVE  Amounts(o, C) = Amounts(p, C)
BY DEF Amounts

\* Products with a natural are monotone.
LEMMA TimesMonotone ==
    ASSUME NEW a \in Nat, NEW b \in Nat, NEW m \in Nat, a <= b
    PROVE  a * m <= b * m /\ a * m \in Nat /\ b * m \in Nat
OBVIOUS

\* Rules no window switches are matched alike at all hours.
LEMMA TimelessMatch ==
    ASSUME Timeless, NEW opt,
           NEW at \in 0..(HoursPerDay * DaysPerWeek - 1), NEW later \in 0..(HoursPerDay * DaysPerWeek - 1)
    PROVE  MatchingBudgetRule(opt, at) = MatchingBudgetRule(opt, later)
<1>1. \A i \in RuleIndex : Matches(rules[i], opt, at) <=> Matches(rules[i], opt, later)
  BY DEF Timeless, Matches
<1>2. {i \in RuleIndex : Matches(rules[i], opt, at)} = {i \in RuleIndex : Matches(rules[i], opt, later)}
  BY <1>1
<1> QED BY <1>2 DEF MatchingBudgetRule

\* The calls in flight under a rule are in progress, and each pays a natural
\* amount within the rule's ceiling for one payment.
LEMMA InFlightFacts ==
    ASSUME IInv, NEW i \in RuleIndex
    PROVE  /\ IsFiniteSet(InFlight(i)) /\ InFlight(i) \subseteq Active /\ InFlight(i) \subseteq Calls
           /\ \A c \in InFlight(i) : option[c].amount \in Nat /\ option[c].amount <= rules[i].maxAmount
           /\ rules[i].maxAmount \in Nat /\ rules[i].periodMaxAmount \in Nat /\ i \in Nat \ {0}
           /\ spent[i] \in Nat
           /\ Total(InFlight(i)) = SumFunction(Amounts(option, InFlight(i)))
<1>1. IsFiniteSet(InFlight(i)) /\ InFlight(i) \subseteq Calls
  BY OverlapAssumption, FS_Subset DEF InFlight
<1>2. InFlight(i) \subseteq Active
  BY DEF InFlight, Active
<1>3. /\ rules[i].maxAmount \in Nat /\ rules[i].periodMaxAmount \in Nat /\ i \in Nat \ {0}
      /\ rules # << >>
  BY RulesAssumption DEF IInv, TypeOK, RuleIndex, ValidRule
<1>4. \A c \in InFlight(i) : option[c].amount \in Nat /\ option[c].amount <= rules[i].maxAmount
  BY <1>3 DEF InFlight, IInv, Cleared, WithinLimits, TypeOK
<1>5. spent[i] \in Nat
  BY DEF IInv, TypeOK
<1> QED BY <1>1, <1>2, <1>3, <1>4, <1>5 DEF Total, Amounts

\* The call that enters is counted.
LEMMA EnterCounts ==
    ASSUME IInv, Cardinality(Active) <= peak, NEW c \in Calls, Enter(c),
           \A d \in Calls \ {c} : pc'[d] = pc[d]
    PROVE  Cardinality(Active)' <= peak' /\ peak <= peak' /\ peak' \in Nat
<1>1. Active \subseteq Calls /\ IsFiniteSet(Active) /\ Cardinality(Active) \in Nat
  BY OverlapAssumption, FS_Subset, FS_CardinalityType DEF Active
<1>2. Active' \subseteq Active \cup {c} /\ c \notin Active
  BY DEF Active, Enter
<1>3. IsFiniteSet(Active \cup {c}) /\ Cardinality(Active \cup {c}) = Cardinality(Active) + 1
  BY <1>1, <1>2, FS_AddElement
<1>4. Cardinality(Active') \in Nat /\ Cardinality(Active') <= Cardinality(Active) + 1
  BY <1>2, <1>3, FS_Subset, FS_CardinalityType
<1>5. peak \in Int /\ peak' = Max({peak, Cardinality(Active) + 1}) /\ peak \in Nat
  BY OverlapAssumption DEF IInv, TypeOK, Enter
<1>6. peak' \in {peak, Cardinality(Active) + 1} /\ peak' >= peak /\ peak' >= Cardinality(Active) + 1
  <2>1. Cardinality(Active) + 1 \in Int
    BY <1>1
  <2> QED BY <1>5, <2>1, MaxOfTwo
<1> QED BY <1>1, <1>4, <1>5, <1>6

\* A call already in progress adds none.
LEMMA MoveCounts ==
    ASSUME IInv, Cardinality(Active) <= peak, NEW c \in Calls, pc[c] \notin {"idle", "done"},
           \A d \in Calls \ {c} : pc'[d] = pc[d], peak' = peak
    PROVE  Cardinality(Active)' <= peak' /\ peak <= peak' /\ peak' \in Nat
<1>1. Active \subseteq Calls /\ IsFiniteSet(Active) /\ Cardinality(Active) \in Nat
  BY OverlapAssumption, FS_Subset, FS_CardinalityType DEF Active
<1>2. Active' \subseteq Active
  BY DEF Active
<1>3. Cardinality(Active') \in Nat /\ Cardinality(Active') <= Cardinality(Active)
  BY <1>1, <1>2, FS_Subset, FS_CardinalityType
<1>4. peak \in Nat
  BY OverlapAssumption DEF IInv, TypeOK
<1> QED BY <1>1, <1>3, <1>4

\* The number of extra overlapping calls grows with the number of calls.
LEMMA ExtraCallsGrow ==
    ASSUME NEW p \in Nat, NEW q \in Nat, p <= q
    PROVE  /\ Max({p - 1, 0}) \in Nat /\ Max({q - 1, 0}) \in Nat
           /\ Max({p - 1, 0}) <= Max({q - 1, 0})
           /\ q # 0 => Max({q - 1, 0}) = q - 1
<1> DEFINE a == Max({p - 1, 0})
           b == Max({q - 1, 0})
<1>1. a \in {p - 1, 0} /\ a >= p - 1 /\ a >= 0
  BY MaxOfTwo
<1>2. b \in {q - 1, 0} /\ b >= q - 1 /\ b >= 0
  BY MaxOfTwo
<1> HIDE DEF a, b
<1>3. a \in Nat /\ b \in Nat /\ a <= b /\ (q # 0 => b = q - 1)
  BY <1>1, <1>2
<1> QED BY <1>3 DEF a, b

\* More overlap never lowers the bound.
LEMMA CeilingGrows ==
    ASSUME IInv, NEW i \in RuleIndex, rules' = rules, peak' \in Nat, peak <= peak'
    PROVE  Ceiling(i) \in Nat /\ Ceiling(i)' \in Nat /\ Ceiling(i) <= Ceiling(i)'
<1>1. rules[i].maxAmount \in Nat /\ rules[i].periodMaxAmount \in Nat
  BY InFlightFacts
<1>2. peak \in Nat
  BY OverlapAssumption DEF IInv, TypeOK
<1> DEFINE a == Max({peak - 1, 0})
           b == Max({peak' - 1, 0})
<1>5. Ceiling(i) = rules[i].periodMaxAmount + a * rules[i].maxAmount
  BY DEF Ceiling
<1>6. Ceiling(i)' = rules[i].periodMaxAmount + b * rules[i].maxAmount
  BY DEF Ceiling
<1>7. a \in Nat /\ b \in Nat /\ a <= b
  BY <1>2, ExtraCallsGrow
<1> HIDE DEF a, b
<1>8. /\ a * rules[i].maxAmount <= b * rules[i].maxAmount
      /\ a * rules[i].maxAmount \in Nat /\ b * rules[i].maxAmount \in Nat
  BY <1>1, <1>7, TimesMonotone
<1> QED BY <1>1, <1>5, <1>6, <1>8

\* Calls that leave, or stay as they are, keep the bound of a rule whose total
\* does not change.
LEMMA FitsWhenCallsLeave ==
    ASSUME IInv, IInv', NEW i \in RuleIndex, Fits(i), NEW c,
           rules' = rules, spent'[i] = spent[i], peak' \in Nat, peak <= peak',
           InFlight(i)' = InFlight(i) \/ InFlight(i)' = InFlight(i) \ {c},
           \A d \in InFlight(i)' : option'[d] = option[d]
    PROVE  Fits(i)'
<1> SUFFICES ASSUME Periodic(i) PROVE spent'[i] + Total(InFlight(i))' <= Ceiling(i)'
  BY DEF Fits, Periodic
<1> DEFINE W == InFlight(i)
           V == InFlight(i)'
<1>1. /\ IsFiniteSet(W) /\ \A d \in W : option[d].amount \in Nat
      /\ spent[i] \in Nat /\ Total(W) = SumFunction(Amounts(option, W))
  BY InFlightFacts
<1>2. Total(InFlight(i))' = SumFunction(Amounts(option', V))
  BY DEF Total, Amounts
<1>3. spent[i] + Total(W) <= Ceiling(i)
  BY DEF Fits
<1>4. Ceiling(i) \in Nat /\ Ceiling(i)' \in Nat /\ Ceiling(i) <= Ceiling(i)'
  BY CeilingGrows
<1>5. V = W \/ V = W \ {c}
  OBVIOUS
<1>6. \A d \in V : option'[d] = option[d]
  OBVIOUS
<1> HIDE DEF W, V
<1>7. Amounts(option', V) = Amounts(option, V)
  BY <1>6, AmountsSame
<1>8. /\ SumFunction(Amounts(option, W)) \in Nat /\ SumFunction(Amounts(option, V)) \in Nat
      /\ SumFunction(Amounts(option, V)) <= SumFunction(Amounts(option, W))
  <2>1. CASE V = W
    BY <1>1, <2>1, AmountsSum
  <2>2. CASE V # W
    <3>1. V = W \ {c} /\ c \in W
      BY <1>5, <2>2
    <3> DEFINE a == SumFunction(Amounts(option, W))
               b == SumFunction(Amounts(option, W \ {c}))
    <3>2. a \in Nat /\ b \in Nat /\ a = option[c].amount + b /\ option[c].amount \in Nat
      BY <1>1, <3>1, AmountsSum
    <3>3. b <= a
      <4> HIDE DEF a, b
      <4> QED BY <3>2
    <3> QED BY <3>1, <3>2, <3>3
  <2> QED BY <2>1, <2>2
<1> QED BY <1>1, <1>2, <1>3, <1>4, <1>7, <1>8

\* A payment that is not accepted leaves the books alone.
LEMMA BooksStay ==
    ASSUME IInv, TrackerCountsAccepted, UNCHANGED <<rules, spent>>,
           \A i \in RuleIndex : RecordedUnder(i)' = RecordedUnder(i),
           \A d \in Calls : outcome[d] = "paid" => option'[d] = option[d]
    PROVE  TrackerCountsAccepted'
<1> SUFFICES ASSUME NEW i \in RuleIndex PROVE spent'[i] = Total(RecordedUnder(i))'
  BY DEF TrackerCountsAccepted, RecordedUnder, RuleIndex
<1>1. spent[i] = SumFunction(Amounts(option, RecordedUnder(i)))
  BY DEF TrackerCountsAccepted, RecordedUnder, Total, Amounts
<1>2. Total(RecordedUnder(i))' = SumFunction(Amounts(option', RecordedUnder(i)'))
  BY DEF Total, Amounts
<1>3. Amounts(option', RecordedUnder(i)) = Amounts(option, RecordedUnder(i))
  <2>1. \A d \in RecordedUnder(i) : option'[d] = option[d]
    BY DEF RecordedUnder
  <2> HIDE DEF RecordedUnder
  <2> QED BY <2>1, AmountsSame
<1> QED BY <1>1, <1>2, <1>3

\* A step of one call that selects no option and is not an accepted payment.
LEMMA MoveKeepsBudgets ==
    ASSUME IInv, IInv', BInv, NEW c \in Calls, pc[c] # "done",
           UNCHANGED <<rules, option, seen, checked, recorded, spent, now>>,
           \A d \in Calls \ {c} : pc'[d] = pc[d] /\ outcome'[d] = outcome[d],
           outcome'[c] # "paid",
           pc'[c] \in {"checking", "signing", "paying"} => pc[c] \in {"checking", "signing", "paying"},
           pc'[c] \in {"signing", "paying"} /\ pc[c] \notin {"signing", "paying"} =>
               ~(seen[c] + option[c].amount > rules[checked[c]].periodMaxAmount),
           Cardinality(Active)' <= peak', peak <= peak', peak' \in Nat
    PROVE  BInv'
<1>1. outcome[c] # "paid"
  BY DEF IInv
<1>2. TrackerCountsAccepted'
  <2>1. \A i \in RuleIndex : RecordedUnder(i)' = RecordedUnder(i)
    BY <1>1 DEF RecordedUnder
  <2> QED BY <2>1, BooksStay DEF BInv
<1>3. PassedTheCheck'
  <2> SUFFICES ASSUME NEW d \in Calls, pc'[d] \in {"signing", "paying"}, Periodic(checked[d])
               PROVE  seen[d] + option[d].amount <= rules[checked[d]].periodMaxAmount
    BY DEF PassedTheCheck, Periodic
  <2>1. CASE pc[d] \in {"signing", "paying"}
    BY <2>1 DEF BInv, PassedTheCheck
  <2>2. CASE pc[d] \notin {"signing", "paying"}
    <3>1. d = c /\ pc[c] = "checking"
      BY <2>2
    <3>2. Cleared(c) /\ checked[c] \in RuleIndex
      BY <3>1 DEF Cleared, IInv, TypeOK
    <3>3. seen[c] \in Nat /\ option[c].amount \in Nat /\ rules[checked[c]].periodMaxAmount \in Nat
      BY <3>2, InFlightFacts DEF IInv, WithinLimits, TypeOK
    <3> QED BY <2>2, <3>1, <3>3
  <2> QED BY <2>1, <2>2
<1>4. ASSUME Timeless'
      PROVE  RuleIsKept' /\ RecordedUnderCheckedRule' /\ \A i \in RuleIndex : Fits(i)'
  <2>1. Timeless
    BY <1>4 DEF Timeless, RuleIndex, MatchesWindow
  <2>2. RuleIsKept'
    <3> SUFFICES ASSUME NEW d \in Calls, pc'[d] \in {"checking", "signing", "paying"}
                 PROVE  checked'[d] = MatchingBudgetRule(option[d], now)'
      BY DEF RuleIsKept
    <3>1. pc[d] \in {"checking", "signing", "paying"}
      OBVIOUS
    <3>2. checked[d] = MatchingBudgetRule(option[d], now)
      BY <2>1, <3>1 DEF BInv, RuleIsKept
    <3> QED BY <3>2 DEF MatchingBudgetRule, Matches, MatchesWindow, RuleIndex
  <2>3. RecordedUnderCheckedRule'
    BY <2>1, <1>1 DEF BInv, RecordedUnderCheckedRule, Periodic
  <2>4. ASSUME NEW i \in RuleIndex PROVE Fits(i)'
    <3>1. InFlight(i)' = InFlight(i) \/ InFlight(i)' = InFlight(i) \ {c}
      BY DEF InFlight
    <3>2. Fits(i)
      BY <2>1 DEF BInv
    <3>3. spent'[i] = spent[i] /\ rules' = rules /\ \A d \in InFlight(i)' : option'[d] = option[d]
      OBVIOUS
    <3> QED BY <3>1, <3>2, <3>3, FitsWhenCallsLeave
  <2> QED BY <2>2, <2>3, <2>4
<1>5. \A d \in Calls : outcome'[d] # "paid" => recorded'[d] = 0
  BY <1>1 DEF BInv
<1> QED BY <1>2, <1>3, <1>4, <1>5 DEF BInv, RuleIndex

\* An hour passes: nothing that was spent or is in flight depends on it.
LEMMA TickKeepsBudgets ==
    ASSUME IInv, IInv', BInv, UNCHANGED <<rules, pc, option, seen, checked, recorded, spent, outcome, peak>>
    PROVE  BInv'
<1>1. TrackerCountsAccepted'
  <2>1. \A i \in RuleIndex : RecordedUnder(i)' = RecordedUnder(i)
    BY DEF RecordedUnder
  <2> QED BY <2>1, BooksStay DEF BInv
<1>2. PassedTheCheck' /\ Cardinality(Active)' <= peak'
  BY DEF BInv, PassedTheCheck, Periodic, Active
<1>3. ASSUME Timeless'
      PROVE  RuleIsKept' /\ RecordedUnderCheckedRule' /\ \A i \in RuleIndex : Fits(i)'
  <2>1. Timeless
    BY <1>3 DEF Timeless, RuleIndex, MatchesWindow
  <2>2. RuleIsKept'
    <3> SUFFICES ASSUME NEW d \in Calls, pc[d] \in {"checking", "signing", "paying"}
                 PROVE  checked'[d] = MatchingBudgetRule(option[d], now)'
      BY DEF RuleIsKept
    <3>1. checked[d] = MatchingBudgetRule(option[d], now)
      BY <2>1 DEF BInv, RuleIsKept
    <3>2. now \in 0..(HoursPerDay * DaysPerWeek - 1) /\ now' \in 0..(HoursPerDay * DaysPerWeek - 1)
      BY DEF IInv, TypeOK
    <3>3. MatchingBudgetRule(option[d], now) = MatchingBudgetRule(option[d], now')
      BY <2>1, <3>2, TimelessMatch
    <3> QED BY <3>1, <3>3 DEF MatchingBudgetRule, Matches, MatchesWindow, RuleIndex
  <2>3. RecordedUnderCheckedRule'
    BY <2>1 DEF BInv, RecordedUnderCheckedRule, Periodic
  <2>4. \A i \in RuleIndex : Fits(i)'
    BY <2>1 DEF BInv, Fits, Periodic, Total, InFlight, Ceiling, RuleIndex
  <2> QED BY <2>2, <2>3, <2>4
<1> QED BY <1>1, <1>2, <1>3 DEF BInv, RuleIndex

\* The paid request is accepted: the amount leaves the calls in flight and enters
\* the tracker.
LEMMA AcceptedKeepsBudgets ==
    ASSUME IInv, IInv', BInv, NEW c \in Calls, pc[c] = "paying", Finish(c, "paid"),
           UNCHANGED <<rules, option, seen, checked, now, peak>>,
           LET i == MatchingBudgetRule(option[c], now)
           IN  IF i # 0 /\ rules[i].periodMaxAmount # 0
               THEN /\ spent' = [spent EXCEPT ![i] = @ + option[c].amount]
                    /\ recorded' = [recorded EXCEPT ![c] = i]
               ELSE UNCHANGED <<spent, recorded>>
    PROVE  BInv'
<1> DEFINE i == MatchingBudgetRule(option[c], now)
<1>1. i \in RuleIndex \cup {0}
  BY FirstMatch DEF IInv, TypeOK
<1>2. \/ /\ Periodic(i) /\ spent' = [spent EXCEPT ![i] = @ + option[c].amount]
         /\ recorded' = [recorded EXCEPT ![c] = i]
      \/ ~Periodic(i) /\ UNCHANGED <<spent, recorded>>
  BY DEF Periodic
<1>3. Timeless => checked[c] = i
  BY DEF BInv, RuleIsKept
<1>4. MatchingBudgetRule(option[c], now) = i
  OBVIOUS
<1> HIDE DEF i
<1>5. option[c].amount \in Nat
  BY DEF IInv, Cleared, WithinLimits, TypeOK
<1>6. /\ outcome[c] = "none" /\ recorded[c] = 0 /\ pc'[c] = "done" /\ outcome'[c] = "paid"
      /\ \A d \in Calls \ {c} : pc'[d] = pc[d] /\ outcome'[d] = outcome[d] /\ recorded'[d] = recorded[d]
  BY <1>2 DEF Finish, IInv, BInv, TypeOK
<1>7. Periodic(i) => i \in RuleIndex /\ recorded'[c] = i /\ spent'[i] = spent[i] + option[c].amount
  BY <1>1, <1>2 DEF Periodic, IInv, TypeOK
<1>8. \A j \in RuleIndex : ~(j = i /\ Periodic(i)) => spent'[j] = spent[j]
  BY <1>1, <1>2 DEF IInv, TypeOK
<1>9. ~Periodic(i) => recorded'[c] = 0
  BY <1>2, <1>6
<1>10. TrackerCountsAccepted'
  <2> SUFFICES ASSUME NEW j \in RuleIndex PROVE spent'[j] = Total(RecordedUnder(j))'
    BY DEF TrackerCountsAccepted, RecordedUnder, RuleIndex
  <2> DEFINE R == RecordedUnder(j)
             Q == RecordedUnder(j)'
  <2>1. spent[j] = SumFunction(Amounts(option, R))
    BY DEF BInv, TrackerCountsAccepted, RecordedUnder, Total, Amounts
  <2>2. Total(RecordedUnder(j))' = SumFunction(Amounts(option, Q))
    BY DEF Total, Amounts
  <2>3. IsFiniteSet(Q) /\ (\A d \in Q : option[d].amount \in Nat) /\ c \notin R /\ j \in Nat \ {0}
    <3>1. IsFiniteSet(Q) /\ c \notin R
      BY <1>6, OverlapAssumption, FS_Subset DEF RecordedUnder
    <3>2. \A d \in Q : option[d].amount \in Nat
      BY <1>5, <1>6 DEF RecordedUnder, IInv, Cleared, WithinLimits, TypeOK
    <3> QED BY <3>1, <3>2, InFlightFacts
  <2>4. CASE j = i /\ Periodic(i)
    <3>1. c \in Q /\ Q \ {c} = R
      BY <1>6, <1>7, <2>4 DEF RecordedUnder
    <3>2. SumFunction(Amounts(option, Q)) = option[c].amount + SumFunction(Amounts(option, Q \ {c}))
          /\ SumFunction(Amounts(option, Q \ {c})) \in Nat
      <4> HIDE DEF Q
      <4> QED BY <2>3, <3>1, AmountsSum
    <3>3. spent'[j] = spent[j] + option[c].amount
      BY <1>7, <2>4
    <3> HIDE DEF Q, R
    <3>4. SumFunction(Amounts(option, Q)) = option[c].amount + spent[j] /\ spent[j] \in Nat
      BY <2>1, <3>1, <3>2
    <3> QED BY <1>5, <2>2, <3>3, <3>4
  <2>5. CASE ~(j = i /\ Periodic(i))
    <3>1. Q = R
      BY <1>6, <1>7, <1>9, <2>3, <2>5 DEF RecordedUnder
    <3> QED BY <1>8, <2>1, <2>2, <2>5, <3>1
  <2> QED BY <2>4, <2>5
<1>11. PassedTheCheck' /\ (\A d \in Calls : outcome'[d] # "paid" => recorded'[d] = 0)
  BY <1>6 DEF BInv, PassedTheCheck, Periodic
<1>12. Cardinality(Active)' <= peak' /\ peak <= peak' /\ peak' \in Nat
  BY <1>6, MoveCounts DEF BInv
<1>13. ASSUME Timeless'
       PROVE  RuleIsKept' /\ RecordedUnderCheckedRule' /\ \A j \in RuleIndex : Fits(j)'
  <2>1. Timeless
    BY <1>13 DEF Timeless, RuleIndex, MatchesWindow
  <2>2. RuleIsKept'
    <3> SUFFICES ASSUME NEW d \in Calls, pc'[d] \in {"checking", "signing", "paying"}
                 PROVE  checked'[d] = MatchingBudgetRule(option[d], now)'
      BY DEF RuleIsKept
    <3>1. pc[d] \in {"checking", "signing", "paying"}
      BY <1>6
    <3>2. checked[d] = MatchingBudgetRule(option[d], now)
      BY <2>1, <3>1 DEF BInv, RuleIsKept
    <3> QED BY <3>2 DEF MatchingBudgetRule, Matches, MatchesWindow, RuleIndex
  <2>3. RecordedUnderCheckedRule'
    <3> SUFFICES ASSUME NEW d \in Calls, outcome'[d] = "paid"
                 PROVE  recorded'[d] = IF Periodic(checked[d]) THEN checked[d] ELSE 0
      BY DEF RecordedUnderCheckedRule, Periodic
    <3>1. CASE d = c
      BY <1>3, <1>7, <1>9, <2>1, <3>1
    <3>2. CASE d # c
      BY <1>6, <2>1, <3>2 DEF BInv, RecordedUnderCheckedRule
    <3> QED BY <3>1, <3>2
  <2>4. ASSUME NEW j \in RuleIndex PROVE Fits(j)'
    <3>1. InFlight(j)' = InFlight(j) \ {c}
      BY <1>6 DEF InFlight
    <3>2. Fits(j)
      BY <2>1 DEF BInv
    <3>3. CASE ~(j = i /\ Periodic(i))
      <4>1. spent'[j] = spent[j] /\ rules' = rules /\ \A d \in InFlight(j)' : option'[d] = option[d]
        BY <1>8, <3>3
      <4> QED BY <1>12, <3>1, <3>2, <4>1, FitsWhenCallsLeave
    <3>4. CASE j = i /\ Periodic(i)
      <4> DEFINE W == InFlight(j)
      <4>1. c \in W
        BY <1>3, <2>1, <3>4 DEF InFlight, BInv, PassedTheCheck
      <4>2. /\ IsFiniteSet(W) /\ \A d \in W : option[d].amount \in Nat
            /\ spent[j] \in Nat /\ Total(W) = SumFunction(Amounts(option, W))
        BY InFlightFacts
      <4>3. Total(InFlight(j))' = SumFunction(Amounts(option, W \ {c}))
        BY <3>1 DEF Total, Amounts
      <4>4. Ceiling(j)' = Ceiling(j) /\ Periodic(j)' = Periodic(j)
        BY DEF Ceiling, Periodic
      <4>5. spent[j] + Total(W) <= Ceiling(j)
        BY <3>2, <3>4 DEF Fits
      <4> HIDE DEF W
      <4>6. /\ SumFunction(Amounts(option, W)) = option[c].amount + SumFunction(Amounts(option, W \ {c}))
            /\ SumFunction(Amounts(option, W \ {c})) \in Nat
        BY <4>1, <4>2, AmountsSum
      <4>7. spent'[j] + Total(InFlight(j))' = spent[j] + Total(W)
        BY <1>5, <1>7, <3>4, <4>2, <4>3, <4>6
      <4> QED BY <4>4, <4>5, <4>7 DEF Fits
    <3> QED BY <3>3, <3>4
  <2> QED BY <2>2, <2>3, <2>4
<1> QED BY <1>10, <1>11, <1>12, <1>13 DEF BInv, RuleIndex

\* buildSignedPayment for a cleared requirement: the call joins the calls in
\* flight only when what the tracker holds leaves room for it, so that the others
\* in flight are the whole overspend.
LEMMA BuildKeepsBudgets ==
    ASSUME IInv, IInv', BInv, NEW c \in Calls, NEW opt, pc[c] \in {"idle", "fetching"},
           BuildSignedPayment(c, opt), opt.amount \in Nat,
           UNCHANGED <<rules, recorded, spent, now>>,
           Cardinality(Active)' <= peak', peak <= peak', peak' \in Nat
    PROVE  BInv'
<1> DEFINE i == MatchingBudgetRule(opt, now)
<1>1. i \in RuleIndex \cup {0}
  BY FirstMatch DEF IInv, TypeOK
<1>2. /\ option' = [option EXCEPT ![c] = opt]
      /\ \/ Suspend(c, "signing") /\ UNCHANGED <<checked, seen>> /\ rules = << >>
         \/ Finish(c, "denied") /\ UNCHANGED <<checked, seen>>
         \/ /\ checked' = [checked EXCEPT ![c] = i] /\ rules[i].periodMaxAmount = 0
            /\ Suspend(c, "signing") /\ UNCHANGED seen
         \/ /\ checked' = [checked EXCEPT ![c] = i]
            /\ Suspend(c, "checking") /\ seen' = [seen EXCEPT ![c] = spent[i]]
  BY DEF BuildSignedPayment
<1>3. MatchingBudgetRule(opt, now) = i
  OBVIOUS
<1> HIDE DEF i
<1>4. /\ option'[c] = opt
      /\ \A d \in Calls \ {c} : /\ option'[d] = option[d] /\ checked'[d] = checked[d] /\ seen'[d] = seen[d]
                                /\ pc'[d] = pc[d] /\ outcome'[d] = outcome[d]
  BY <1>2 DEF IInv, TypeOK, Suspend, Finish
<1>5. outcome[c] = "none" /\ outcome'[c] # "paid"
  BY <1>2 DEF IInv, TypeOK, Suspend, Finish
<1>6. rules = << >> => RuleIndex = {}
  BY DEF RuleIndex
<1>7. \/ pc'[c] = "signing" /\ rules = << >> /\ checked'[c] = 0 /\ i = 0
      \/ pc'[c] = "done"
      \/ pc'[c] = "signing" /\ checked'[c] = i /\ rules[i].periodMaxAmount = 0
      \/ pc'[c] = "checking" /\ checked'[c] = i /\ seen'[c] = spent[i]
  BY <1>1, <1>2, <1>6 DEF IInv, TypeOK, Suspend, Finish
<1>8. TrackerCountsAccepted'
  <2>1. \A j \in RuleIndex : RecordedUnder(j)' = RecordedUnder(j)
    BY <1>4, <1>5 DEF RecordedUnder
  <2>2. \A d \in Calls : outcome[d] = "paid" => option'[d] = option[d]
    BY <1>4, <1>5
  <2> QED BY <2>1, <2>2, BooksStay DEF BInv
<1>9. PassedTheCheck'
  <2> SUFFICES ASSUME NEW d \in Calls, pc'[d] \in {"signing", "paying"}, Periodic(checked'[d])
               PROVE  seen'[d] + option'[d].amount <= rules[checked'[d]].periodMaxAmount
    BY DEF PassedTheCheck, Periodic
  <2>1. d # c
    BY <1>7 DEF Periodic
  <2> QED BY <1>4, <2>1 DEF BInv, PassedTheCheck
<1>10. \A d \in Calls : outcome'[d] # "paid" => recorded'[d] = 0
  BY <1>4, <1>5 DEF BInv
<1>11. ASSUME Timeless'
       PROVE  RuleIsKept' /\ RecordedUnderCheckedRule' /\ \A j \in RuleIndex : Fits(j)'
  <2>1. Timeless
    BY <1>11 DEF Timeless, RuleIndex, MatchesWindow
  <2>2. RuleIsKept'
    <3> SUFFICES ASSUME NEW d \in Calls, pc'[d] \in {"checking", "signing", "paying"}
                 PROVE  checked'[d] = MatchingBudgetRule(option[d], now)'
      BY DEF RuleIsKept
    <3>1. CASE d = c
      <4>1. checked'[c] = MatchingBudgetRule(opt, now)
        BY <1>3, <1>7, <3>1
      <4> QED BY <1>4, <3>1, <4>1 DEF MatchingBudgetRule, Matches, MatchesWindow, RuleIndex
    <3>2. CASE d # c
      <4>1. checked[d] = MatchingBudgetRule(option[d], now)
        BY <1>4, <2>1, <3>2 DEF BInv, RuleIsKept
      <4> QED BY <1>4, <3>2, <4>1 DEF MatchingBudgetRule, Matches, MatchesWindow, RuleIndex
    <3> QED BY <3>1, <3>2
  <2>3. RecordedUnderCheckedRule'
    BY <1>4, <1>5, <2>1 DEF BInv, RecordedUnderCheckedRule, Periodic
  <2>4. ASSUME NEW j \in RuleIndex PROVE Fits(j)'
    <3> DEFINE W == InFlight(j)
               V == InFlight(j)'
    <3>1. Fits(j) /\ c \notin W /\ W \subseteq Calls
      BY <2>1 DEF BInv, InFlight
    <3>2. V = W \/ (c \in V /\ V \ {c} = W)
      BY <1>4, <3>1 DEF InFlight
    <3>3. CASE V = W
      <4>1. spent'[j] = spent[j] /\ rules' = rules /\ \A d \in InFlight(j)' : option'[d] = option[d]
        BY <1>4, <3>1, <3>3
      <4> QED BY <3>1, <3>3, <4>1, FitsWhenCallsLeave
    <3>4. CASE c \in V /\ V \ {c} = W
      <4> SUFFICES ASSUME Periodic(j) PROVE spent[j] + Total(InFlight(j))' <= Ceiling(j)'
        BY DEF Fits, Periodic
      <4>1. pc'[c] = "checking" /\ checked'[c] = j /\ j = i /\ seen'[c] = spent[j]
            /\ spent[j] + opt.amount <= rules[j].periodMaxAmount
        BY <1>4, <1>6, <1>7, <3>4 DEF InFlight, Periodic
      <4>2. /\ IsFiniteSet(W) /\ (\A d \in W : option[d].amount \in Nat /\ option[d].amount <= rules[j].maxAmount)
            /\ spent[j] \in Nat /\ rules[j].maxAmount \in Nat /\ rules[j].periodMaxAmount \in Nat
        BY InFlightFacts
      <4>3. IsFiniteSet(V) /\ V \subseteq Active' /\ \A d \in V : option'[d].amount \in Nat
        <5>1. IsFiniteSet(V) /\ V \subseteq Active'
          BY OverlapAssumption, FS_Subset DEF InFlight, Active
        <5>2. \A d \in V : option'[d].amount \in Nat
          BY <1>4, <3>1, <3>4, <4>2
        <5> QED BY <5>1, <5>2
      <4>4. Total(InFlight(j))' = SumFunction(Amounts(option', V))
        BY DEF Total, Amounts
      <4>5. Ceiling(j)' = rules[j].periodMaxAmount + Max({peak' - 1, 0}) * rules[j].maxAmount
        BY DEF Ceiling
      <4>6. \A d \in W : option'[d] = option[d]
        BY <1>4, <3>1
      <4>7. IsFiniteSet(Active') /\ c \in Active'
        BY <4>1, OverlapAssumption, FS_Subset DEF Active
      <4> HIDE DEF W, V
      <4> DEFINE rest == SumFunction(Amounts(option, W))
                 n == Cardinality(W)
                 e == Max({peak' - 1, 0})
                 m == rules[j].maxAmount
      <4>8. SumFunction(Amounts(option', V)) = opt.amount + rest /\ rest \in Nat
        <5>1. /\ SumFunction(Amounts(option', V)) = option'[c].amount + SumFunction(Amounts(option', V \ {c}))
              /\ SumFunction(Amounts(option', V \ {c})) \in Nat
          BY <3>4, <4>3, AmountsSum
        <5>2. Amounts(option', W) = Amounts(option, W)
          BY <4>6, AmountsSame
        <5> QED BY <1>4, <3>4, <5>1, <5>2
      <4>9. rest <= n * m /\ n \in Nat
        <5>1. Amounts(option, W) \in [W -> Int] /\ \A d \in W : Amounts(option, W)[d] <= m
          BY <4>2 DEF Amounts
        <5> QED BY <4>2, <5>1, SumAtMost, FS_CardinalityType
      <4>10. e \in Nat /\ n <= e
        <5>1. n + 1 = Cardinality(V) /\ Cardinality(V) <= Cardinality(Active') /\ Cardinality(Active') \in Nat
          BY <3>4, <4>3, <4>7, <4>9, FS_RemoveElement, FS_Subset, FS_CardinalityType
        <5>2. peak' # 0 /\ n <= peak' - 1
          BY <4>9, <5>1
        <5>3. e = peak' - 1 /\ e \in Nat
          BY <5>2, ExtraCallsGrow
        <5> HIDE DEF n, e
        <5> QED BY <5>2, <5>3
      <4>11. n * m <= e * m /\ n * m \in Nat /\ e * m \in Nat
        <5> HIDE DEF n, e, m
        <5>1. m \in Nat
          BY <4>2 DEF m
        <5> QED BY <4>9, <4>10, <5>1, TimesMonotone
      <4>12. Ceiling(j)' = rules[j].periodMaxAmount + e * m
        BY <4>5
      <4> HIDE DEF rest, n, e, m
      <4> QED BY <4>1, <4>2, <4>4, <4>8, <4>9, <4>11, <4>12
    <3> QED BY <3>2, <3>3, <3>4
  <2> QED BY <2>2, <2>3, <2>4
<1> QED BY <1>8, <1>9, <1>10, <1>11 DEF BInv, RuleIndex

\* buildSignedPayment leaves the other calls where they are.
LEMMA BuildTouchesOne ==
    ASSUME TypeOK, NEW c \in Calls, NEW opt, BuildSignedPayment(c, opt)
    PROVE  \A d \in Calls \ {c} : pc'[d] = pc[d] /\ outcome'[d] = outcome[d]
<1>1. (\E where : Suspend(c, where)) \/ (\E how : Finish(c, how))
  BY DEF BuildSignedPayment
<1> QED BY <1>1 DEF Suspend, Finish, TypeOK

\* Nothing is spent at the start.
LEMMA InitBInv == Init => BInv
<1> SUFFICES ASSUME Init PROVE BInv
  OBVIOUS
<1>1. IInv
  BY InitIInv
<1>2. Active = {} /\ Cardinality(Active) = 0 /\ peak = 0
  BY FS_EmptySet DEF Init, Active
<1>3. \A i \in RuleIndex : RecordedUnder(i) = {} /\ InFlight(i) = {} /\ spent[i] = 0
  BY DEF Init, RecordedUnder, InFlight
<1>4. SumFunction(Amounts(option, {})) = 0
  BY FS_EmptySet, AmountsSum
<1>5. TrackerCountsAccepted
  BY <1>3, <1>4 DEF TrackerCountsAccepted, RecordedUnder, Total, Amounts
<1>6. ASSUME NEW i \in RuleIndex PROVE Fits(i)
  <2>1. Total(InFlight(i)) = 0 /\ spent[i] = 0
    BY <1>3, <1>4 DEF Total, Amounts
  <2>2. rules[i].periodMaxAmount \in Nat /\ rules[i].maxAmount \in Nat
    BY <1>1, InFlightFacts
  <2>3. Max({peak - 1, 0}) = 0
    <3>1. Max({0 - 1, 0}) \in {0 - 1, 0} /\ Max({0 - 1, 0}) >= 0
      BY MaxOfTwo
    <3> QED BY <1>2, <3>1
  <2> QED BY <2>1, <2>2, <2>3 DEF Fits, Ceiling
<1> QED BY <1>2, <1>5, <1>6 DEF Init, BInv, PassedTheCheck, RuleIsKept, RecordedUnderCheckedRule

\* Every step keeps the budgets.
LEMMA NextBInv == IInv /\ IInv' /\ BInv /\ [Next]_vars => BInv'
<1> SUFFICES ASSUME IInv, IInv', BInv, [Next]_vars PROVE BInv'
  OBVIOUS
<1>0. Cardinality(Active) <= peak
  BY DEF BInv
<1>1. ASSUME NEW c \in Calls, Fetch(c) PROVE BInv'
  <2>1. /\ UNCHANGED <<rules, option, seen, checked, recorded, spent, now>> /\ Enter(c)
        /\ pc[c] = "idle" /\ pc'[c] = "fetching" /\ outcome' = outcome
        /\ \A d \in Calls \ {c} : pc'[d] = pc[d] /\ outcome'[d] = outcome[d]
    BY <1>1 DEF Fetch, Enter, Suspend, IInv, TypeOK
  <2>2. outcome'[c] # "paid"
    BY <2>1 DEF IInv
  <2>3. Cardinality(Active)' <= peak' /\ peak <= peak' /\ peak' \in Nat
    BY <1>0, <2>1, EnterCounts
  <2> QED BY <2>1, <2>2, <2>3, MoveKeepsBudgets
<1>2. ASSUME NEW c \in Calls, CreatePayment(c) PROVE BInv'
  <2>1. /\ UNCHANGED <<rules, recorded, spent, now>> /\ Enter(c) /\ pc[c] = "idle"
    BY <1>2 DEF CreatePayment, Enter
  <2>2. \/ Finish(c, "refused") /\ UNCHANGED <<option, checked, seen>>
        \/ \E opt \in Offered : ParsesAsAmount(opt.amount) /\ BuildSignedPayment(c, opt)
    BY <1>2 DEF CreatePayment, Offered
  <2>3. \A d \in Calls \ {c} : pc'[d] = pc[d] /\ outcome'[d] = outcome[d]
    <3>1. TypeOK
      BY DEF IInv
    <3> QED BY <2>2, <3>1, BuildTouchesOne DEF Finish, TypeOK
  <2>4. Cardinality(Active)' <= peak' /\ peak <= peak' /\ peak' \in Nat
    BY <1>0, <2>1, <2>3, EnterCounts
  <2>5. CASE Finish(c, "refused") /\ UNCHANGED <<option, checked, seen>>
    <3>1. pc'[c] = "done" /\ outcome'[c] = "refused"
      BY <2>5 DEF Finish, IInv, TypeOK
    <3> QED BY <2>1, <2>3, <2>4, <2>5, <3>1, MoveKeepsBudgets
  <2>6. ASSUME NEW opt \in Offered, ParsesAsAmount(opt.amount), BuildSignedPayment(c, opt) PROVE BInv'
    <3>1. opt.amount \in Nat
      BY <2>6, ChallengesAssumption DEF ParsesAsAmount
    <3> QED BY <2>1, <2>4, <2>6, <3>1, BuildKeepsBudgets
  <2> QED BY <2>2, <2>5, <2>6
<1>3. ASSUME NEW c \in Calls, FirstResponse(c) PROVE BInv'
  <2>1. UNCHANGED <<rules, recorded, spent, now, peak>> /\ pc[c] = "fetching"
    BY <1>3 DEF FirstResponse
  <2>2. \/ \E how \in {"fetchFailed", "unpaid", "refused"} :
             Finish(c, how) /\ UNCHANGED <<option, checked, seen>>
        \/ \E accepts \in Challenges :
             /\ Refusal(accepts, AllowedAssets, limit[c]) = "none"
             /\ BuildSignedPayment(c, SelectRequirements(accepts, AllowedAssets))
    BY <1>3 DEF FirstResponse
  <2>3. \A d \in Calls \ {c} : pc'[d] = pc[d] /\ outcome'[d] = outcome[d]
    <3>1. TypeOK
      BY DEF IInv
    <3> QED BY <2>2, <3>1, BuildTouchesOne DEF Finish, TypeOK
  <2>4. Cardinality(Active)' <= peak' /\ peak <= peak' /\ peak' \in Nat
    BY <1>0, <2>1, <2>3, MoveCounts
  <2>5. ASSUME NEW how \in {"fetchFailed", "unpaid", "refused"}, Finish(c, how),
               UNCHANGED <<option, checked, seen>>
        PROVE  BInv'
    <3>1. pc'[c] = "done" /\ outcome'[c] # "paid"
      BY <2>5 DEF Finish, IInv, TypeOK
    <3> QED BY <2>1, <2>3, <2>4, <2>5, <3>1, MoveKeepsBudgets
  <2>6. ASSUME NEW accepts \in Challenges, Refusal(accepts, AllowedAssets, limit[c]) = "none",
               BuildSignedPayment(c, SelectRequirements(accepts, AllowedAssets))
        PROVE  BInv'
    <3> DEFINE opt == SelectRequirements(accepts, AllowedAssets)
    <3>1. DOMAIN accepts = 1..Len(accepts) /\ Len(accepts) \in Nat
      BY ChallengesAssumption
    <3>2. \A k \in DOMAIN accepts : accepts[k].amount \in Int
      BY ChallengesAssumption DEF Offered
    <3>3. limit[c] \in Int
      BY DEF IInv, TypeOK
    <3>4. opt.amount \in Nat
      BY <2>6, <3>1, <3>2, <3>3, SelectionIsCleared
    <3>5. BuildSignedPayment(c, opt)
      BY <2>6
    <3> HIDE DEF opt
    <3> QED BY <2>1, <2>4, <3>4, <3>5, BuildKeepsBudgets
  <2> QED BY <2>2, <2>5, <2>6
<1>4. ASSUME NEW c \in Calls, CheckPeriod(c) PROVE BInv'
  <2>1. /\ UNCHANGED <<rules, option, seen, checked, recorded, spent, now, peak>> /\ pc[c] = "checking"
        /\ \/ pc'[c] = "done"
           \/ pc'[c] = "signing" /\ ~(seen[c] + option[c].amount > rules[checked[c]].periodMaxAmount)
        /\ \A d \in Calls \ {c} : pc'[d] = pc[d] /\ outcome'[d] = outcome[d]
        /\ outcome'[c] \in {outcome[c], "denied"}
    BY <1>4 DEF CheckPeriod, Finish, Suspend, IInv, TypeOK
  <2>2. outcome'[c] # "paid"
    BY <2>1 DEF IInv
  <2>3. Cardinality(Active)' <= peak' /\ peak <= peak' /\ peak' \in Nat
    BY <1>0, <2>1, MoveCounts
  <2> QED BY <2>1, <2>2, <2>3, MoveKeepsBudgets
<1>5. ASSUME NEW c \in Calls, SignDone(c) PROVE BInv'
  <2>1. /\ UNCHANGED <<rules, option, seen, checked, recorded, spent, now, peak>> /\ pc[c] = "signing"
        /\ pc'[c] \in {"done", "paying"}
        /\ \A d \in Calls \ {c} : pc'[d] = pc[d] /\ outcome'[d] = outcome[d]
        /\ outcome'[c] \in {outcome[c], "signFailed", "signed"}
    BY <1>5 DEF SignDone, Finish, Suspend, IInv, TypeOK
  <2>2. outcome'[c] # "paid"
    BY <2>1 DEF IInv
  <2>3. Cardinality(Active)' <= peak' /\ peak <= peak' /\ peak' \in Nat
    BY <1>0, <2>1, MoveCounts
  <2> QED BY <2>1, <2>2, <2>3, MoveKeepsBudgets
<1>6. ASSUME NEW c \in Calls, PaidResponse(c) PROVE BInv'
  <2>1. UNCHANGED <<rules, option, seen, checked, now, peak>> /\ pc[c] = "paying"
    BY <1>6 DEF PaidResponse
  <2>2. CASE (Finish(c, "dropped") \/ Finish(c, "rejected")) /\ UNCHANGED <<spent, recorded>>
    <3>1. /\ pc'[c] = "done" /\ outcome'[c] # "paid"
          /\ \A d \in Calls \ {c} : pc'[d] = pc[d] /\ outcome'[d] = outcome[d]
      BY <2>2 DEF Finish, IInv, TypeOK
    <3>2. Cardinality(Active)' <= peak' /\ peak <= peak' /\ peak' \in Nat
      BY <1>0, <2>1, <3>1, MoveCounts
    <3> QED BY <2>1, <2>2, <3>1, <3>2, MoveKeepsBudgets
  <2>3. CASE /\ Finish(c, "paid")
             /\ LET i == MatchingBudgetRule(option[c], now)
                IN  IF i # 0 /\ rules[i].periodMaxAmount # 0
                    THEN /\ spent' = [spent EXCEPT ![i] = @ + option[c].amount]
                         /\ recorded' = [recorded EXCEPT ![c] = i]
                    ELSE UNCHANGED <<spent, recorded>>
    BY <2>1, <2>3, AcceptedKeepsBudgets
  <2> QED BY <1>6, <2>2, <2>3 DEF PaidResponse
<1>7. ASSUME Tick PROVE BInv'
  BY <1>7, TickKeepsBudgets DEF Tick
<1>8. ASSUME UNCHANGED vars PROVE BInv'
  BY <1>8, TickKeepsBudgets DEF vars
<1> QED BY <1>1, <1>2, <1>3, <1>4, <1>5, <1>6, <1>7, <1>8 DEF Next

\* x402-budget-attributes.ts, with no lock between check and record: the tracker
\* counts exactly the accepted payments, and n overlapping calls exceed the period
\* ceiling of a rule by at most n - 1 payments, whatever calls come and go.
THEOREM PeriodBudgetsHold == Spec => []PeriodBudgetsAreAccounted
<1>1. IInv /\ BInv => PeriodBudgetsAreAccounted
  <2> SUFFICES ASSUME IInv, BInv, Timeless, NEW i \in RuleIndex, Periodic(i)
               PROVE  Total(PaidUnder(i)) <= Ceiling(i)
    BY DEF BInv, PeriodBudgetsAreAccounted, OverspendIsBounded, Ceiling
  <2>1. PaidUnder(i) = RecordedUnder(i)
    BY InFlightFacts DEF BInv, RecordedUnderCheckedRule, PaidUnder, RecordedUnder, Periodic
  <2>2. spent[i] = Total(RecordedUnder(i))
    BY DEF BInv, TrackerCountsAccepted, RecordedUnder
  <2>3. spent[i] + Total(InFlight(i)) <= Ceiling(i)
    BY DEF BInv, Fits
  <2>4. Total(InFlight(i)) \in Nat /\ spent[i] \in Nat
    <3> DEFINE W == InFlight(i)
    <3>1. /\ IsFiniteSet(W) /\ \A d \in W : option[d].amount \in Nat
          /\ spent[i] \in Nat /\ Total(W) = SumFunction(Amounts(option, W))
      BY InFlightFacts
    <3> HIDE DEF W
    <3>2. SumFunction(Amounts(option, W)) \in Nat
      BY <3>1, AmountsSum
    <3> QED BY <3>1, <3>2 DEF W
  <2>5. Ceiling(i) \in Int
    <3>1. peak \in Nat /\ rules[i].maxAmount \in Nat /\ rules[i].periodMaxAmount \in Nat
      BY OverlapAssumption, InFlightFacts DEF IInv, TypeOK
    <3>2. Max({peak - 1, 0}) \in Nat
      BY <3>1, ExtraCallsGrow
    <3> QED BY <3>1, <3>2 DEF Ceiling
  <2> QED BY <2>1, <2>2, <2>3, <2>4, <2>5
<1> QED BY <1>1, InitIInv, NextIInv, InitBInv, NextBInv, PTL DEF Spec
=============================================================================
