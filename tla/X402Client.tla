----------------------------- MODULE X402Client -----------------------------
(***************************************************************************)
(* The SDK's own x402 client (src/src/x402-client.ts) and the attribute    *)
(* budgets it enforces (src/src/x402-budget-attributes.ts): overlapping    *)
(* fetch() and createPayment() calls share one tracker, with no mutex.  A  *)
(* call matches a budget rule and reads the tracker before it signs, and   *)
(* fetch() matches again, at a later time, to record what it spent.        *)
(*                                                                         *)
(* One action is the code between two awaits.  Resource servers, the RPC   *)
(* and the signer are external: their answers are inputs.                  *)
(***************************************************************************)
EXTENDS X402Guards, FiniteSets, FiniteSetsExt

CONSTANTS Calls,          \* fetch() and createPayment() invocations
          RuleSets,       \* budgetAttributes a client may be configured with
          AllowedAssets,  \* allowedAssets (all offered assets when omitted)
          Challenges,     \* `accepts` arrays a 402 may carry
          MaxAmounts,     \* maxAmount options, in base units
          Wildcard,       \* the wildcard "*"
          HoursPerDay,    \* 24
          DaysPerWeek,    \* 7
          MaxOverlap,     \* bound: calls in progress at one time
          NoOption        \* no requirement selected yet

(***************************************************************************)
(* assertValidBudgetAttributeRules.  periodMaxAmount = 0 stands for an     *)
(* omitted one; an omitted hour range is the whole day and an omitted      *)
(* daysUtc is every day.                                                   *)
(***************************************************************************)
ValidRule(rule) ==
    /\ rule.maxAmount \in Nat \ {0}
    /\ rule.periodMaxAmount \in Nat
    /\ rule.startHour \in 0..(HoursPerDay - 1)
    /\ rule.endHour \in 0..(HoursPerDay - 1)
    /\ rule.days \subseteq 0..(DaysPerWeek - 1)

ASSUME RulesAssumption ==
    \A rs \in RuleSets : /\ Len(rs) \in Nat /\ DOMAIN rs = 1..Len(rs)
                         /\ \A i \in DOMAIN rs : ValidRule(rs[i])

ASSUME ClockAssumption == HoursPerDay \in Nat \ {0} /\ DaysPerWeek \in Nat \ {0}

ASSUME MaxAmountsAssumption == MaxAmounts \subseteq Int

ASSUME OverlapAssumption == IsFiniteSet(Calls) /\ MaxOverlap \in Nat

\* The requirements some 402 offers.
Offered == UNION {{accepts[i] : i \in DOMAIN accepts} : accepts \in Challenges}

ASSUME ChallengesAssumption ==
    /\ \A accepts \in Challenges : Len(accepts) \in Nat /\ DOMAIN accepts = 1..Len(accepts)
    /\ \A opt \in Offered : opt.amount \in Int
    /\ NoOption \notin Offered

VARIABLES
    rules,     \* budgetAttributes, in configured order
    pc,        \* where each call is suspended
    option,    \* the requirement the call pays
    records,   \* the call came through fetch(), which records its spend
    limit,     \* the call's maxAmount
    seen,      \* what tracker.spent(rule) returned
    checked,   \* index of the rule assertBudgetAttributes matched, or 0
    recorded,  \* history: index of the rule the spend was recorded under, or 0
    spent,     \* the in-memory tracker
    now,       \* hours since the start of the week
    outcome,   \* how the call ended
    peak       \* history: most calls in progress at one time so far

vars == <<rules, pc, option, records, limit, seen, checked, recorded, spent, now,
          outcome, peak>>

RuleIndex == DOMAIN rules

Outcomes == {"none", "fetchFailed", "unpaid", "refused", "denied", "signFailed",
             "signed", "rejected", "dropped", "paid"}

Init == /\ rules \in RuleSets
        /\ pc = [c \in Calls |-> "idle"]
        /\ option = [c \in Calls |-> NoOption]
        /\ records = [c \in Calls |-> FALSE]
        /\ limit = [c \in Calls |-> 0]
        /\ seen = [c \in Calls |-> 0]
        /\ checked = [c \in Calls |-> 0]
        /\ recorded = [c \in Calls |-> 0]
        /\ spent = [i \in RuleIndex |-> 0]
        /\ now \in 0..(HoursPerDay * DaysPerWeek - 1)
        /\ outcome = [c \in Calls |-> "none"]
        /\ peak = 0

-----------------------------------------------------------------------------
(* Rule matching. *)

\* matchesWindow: both ends inclusive, wrapping past midnight when start > end.
MatchesWindow(rule, at) ==
    LET hour == at % HoursPerDay
    IN  /\ at \div HoursPerDay \in rule.days
        /\ IF rule.startHour <= rule.endHour
           THEN hour >= rule.startHour /\ hour <= rule.endHour
           ELSE hour >= rule.startHour \/ hour <= rule.endHour

Matches(rule, opt, at) ==
    /\ rule.merchant \in {Wildcard, opt.payTo}
    /\ rule.category \in {Wildcard, opt.category}
    /\ MatchesWindow(rule, at)

\* rules.find: the first match, or 0 for undefined.
MatchingBudgetRule(opt, at) ==
    LET M == {i \in RuleIndex : Matches(rules[i], opt, at)}
    IN  IF M = {} THEN 0 ELSE Min(M)

-----------------------------------------------------------------------------
Active == {c \in Calls : pc[c] \notin {"idle", "done"}}

\* A call begins: the bound on overlapping calls, and the history of it.
Enter(c) == /\ pc[c] = "idle" /\ Cardinality(Active) < MaxOverlap
            /\ peak' = Max({peak, Cardinality(Active) + 1})

Suspend(c, where) == pc' = [pc EXCEPT ![c] = where] /\ UNCHANGED outcome

Finish(c, how) == /\ pc' = [pc EXCEPT ![c] = "done"]
                  /\ outcome' = [outcome EXCEPT ![c] = how]

\* fetch(url, init): the unpaid request leaves.
Fetch(c) ==
    /\ Enter(c)
    /\ \E m \in MaxAmounts : limit' = [limit EXCEPT ![c] = m]
    /\ records' = [records EXCEPT ![c] = TRUE]
    /\ Suspend(c, "fetching")
    /\ UNCHANGED <<rules, option, seen, checked, recorded, spent, now>>

(***************************************************************************)
(* buildSignedPayment up to its first await: no rule configured skips the  *)
(* check, no rule matching or a payment above the rule's own ceiling is    *)
(* denied, and a rule with a period ceiling reads the tracker.             *)
(***************************************************************************)
BuildSignedPayment(c, opt) ==
    LET i == MatchingBudgetRule(opt, now)
    IN  /\ option' = [option EXCEPT ![c] = opt]
        /\ IF rules = << >>
           THEN Suspend(c, "signing") /\ UNCHANGED <<checked, seen>>
           ELSE IF i = 0 \/ opt.amount > rules[i].maxAmount
           THEN Finish(c, "denied") /\ UNCHANGED <<checked, seen>>
           ELSE /\ checked' = [checked EXCEPT ![c] = i]
                /\ IF rules[i].periodMaxAmount = 0
                   THEN Suspend(c, "signing") /\ UNCHANGED seen
                   ELSE Suspend(c, "checking")
                        /\ seen' = [seen EXCEPT ![c] = spent[i]]

\* fetch(): the unpaid request comes back.
FirstResponse(c) ==
    /\ pc[c] = "fetching"
    /\ \/ \E how \in {"fetchFailed", "unpaid"} :
            Finish(c, how) /\ UNCHANGED <<option, checked, seen>>
       \/ \E accepts \in Challenges :
            IF Refusal(accepts, AllowedAssets, limit[c]) # "none"
            THEN Finish(c, "refused") /\ UNCHANGED <<option, checked, seen>>
            ELSE BuildSignedPayment(c, SelectRequirements(accepts, AllowedAssets))
    /\ UNCHANGED <<rules, limit, records, recorded, spent, now, peak>>

\* Mutant: createPayment trusts the requirement it is given.
CreatePaymentUnguarded(c) ==
    /\ Enter(c)
    /\ \E m \in MaxAmounts, accepts \in Challenges : \E i \in DOMAIN accepts :
        /\ ParsesAsAmount(accepts[i].amount)
        /\ limit' = [limit EXCEPT ![c] = m]
        /\ BuildSignedPayment(c, accepts[i])
    /\ UNCHANGED <<rules, records, recorded, spent, now>>

\* NETWORKS[requirements.network]: our own network is listed; another one may be.
Listed(opt) == {TRUE, opt.onNetwork}

\* createPayment(requirements, opts): any single requirement, re-guarded; and
\* buildSignedPayment refuses a network it does not know.
CreatePayment(c) ==
    /\ Enter(c)
    /\ \E m \in MaxAmounts, accepts \in Challenges : \E i \in DOMAIN accepts :
       \E listed \in Listed(accepts[i]) :
        /\ limit' = [limit EXCEPT ![c] = m]
        /\ IF \/ accepts[i].asset \notin AllowedAssets
              \/ ~ParsesAsAmount(accepts[i].amount)
              \/ accepts[i].amount > m
              \/ ~listed
           THEN Finish(c, "refused") /\ UNCHANGED <<option, checked, seen>>
           ELSE BuildSignedPayment(c, accepts[i])
    /\ UNCHANGED <<rules, records, recorded, spent, now>>

\* assertBudgetAttributes after `await tracker.spent(rule)`.
CheckPeriod(c) ==
    /\ pc[c] = "checking"
    /\ IF seen[c] + option[c].amount > rules[checked[c]].periodMaxAmount
       THEN Finish(c, "denied") ELSE Suspend(c, "signing")
    /\ UNCHANGED <<rules, option, records, limit, seen, checked, recorded, spent, now,
                   peak>>

\* Simulation, auth-entry check and signing: they fail, fetch() sends the paid
\* request, or createPayment() returns the signed header.
SignDone(c) ==
    /\ pc[c] = "signing"
    /\ \/ Finish(c, "signFailed")
       \/ IF records[c] THEN Suspend(c, "paying") ELSE Finish(c, "signed")
    /\ UNCHANGED <<rules, option, records, limit, seen, checked, recorded, spent, now,
                   peak>>

\* Mutant: spend is recorded before the status is looked at.
PaidResponseEager(c) ==
    /\ pc[c] = "paying"
    /\ LET i == MatchingBudgetRule(option[c], now)
       IN  /\ Finish(c, "rejected") \/ Finish(c, "paid")
           /\ IF i # 0 /\ rules[i].periodMaxAmount # 0
              THEN /\ spent' = [spent EXCEPT ![i] = @ + option[c].amount]
                   /\ recorded' = [recorded EXCEPT ![c] = i]
              ELSE UNCHANGED <<spent, recorded>>
    /\ UNCHANGED <<rules, option, records, limit, seen, checked, now, peak>>

\* The paid request fails on the wire, answers >= 400, or is accepted; then the
\* rule is matched again, at the time of the answer, and its total grows.
PaidResponse(c) ==
    /\ pc[c] = "paying"
    /\ \/ /\ Finish(c, "dropped") \/ Finish(c, "rejected")
          /\ UNCHANGED <<spent, recorded>>
       \/ LET i == MatchingBudgetRule(option[c], now)
          IN  /\ Finish(c, "paid")
              /\ IF i # 0 /\ rules[i].periodMaxAmount # 0
                 THEN /\ spent' = [spent EXCEPT ![i] = @ + option[c].amount]
                      /\ recorded' = [recorded EXCEPT ![c] = i]
                 ELSE UNCHANGED <<spent, recorded>>
    /\ UNCHANGED <<rules, option, records, limit, seen, checked, now, peak>>

\* An hour passes; the week starts over.
Tick == /\ now' = (now + 1) % (HoursPerDay * DaysPerWeek)
        /\ UNCHANGED <<rules, pc, option, records, limit, seen, checked, recorded, spent,
                       outcome, peak>>

Next == \/ \E c \in Calls : \/ Fetch(c) \/ CreatePayment(c) \/ FirstResponse(c)
                            \/ CheckPeriod(c) \/ SignDone(c) \/ PaidResponse(c)
        \/ Tick

Spec == Init /\ [][Next]_vars

-----------------------------------------------------------------------------
(* Properties. *)

Periodic(i) == i # 0 /\ rules[i].periodMaxAmount # 0

Total(C) == SumFunction([c \in C |-> option[c].amount])

\* What was really paid by fetch() calls that were checked against rule i.
PaidUnder(i) == {c \in Calls : outcome[c] = "paid" /\ checked[c] = i}

\* Every variable stays in its domain.
TypeOK ==
    /\ rules \in RuleSets
    /\ pc \in [Calls -> {"idle", "fetching", "checking", "signing", "paying", "done"}]
    /\ option \in [Calls -> Offered \cup {NoOption}]
    /\ \A c \in Calls : option[c] # NoOption => option[c].amount \in Nat
    /\ records \in [Calls -> BOOLEAN]
    /\ limit \in [Calls -> Int]
    /\ seen \in [Calls -> Nat]
    /\ checked \in [Calls -> RuleIndex \cup {0}]
    /\ recorded \in [Calls -> RuleIndex \cup {0}]
    /\ spent \in [RuleIndex -> Nat]
    /\ now \in 0..(HoursPerDay * DaysPerWeek - 1)
    /\ outcome \in [Calls -> Outcomes]
    /\ peak \in 0..MaxOverlap

\* Nothing is signed, on the fetch() path or the direct one, that is above the
\* caller's maxAmount, in an asset outside allowedAssets, or above the
\* per-payment ceiling of the rule for its merchant and category; and a rule
\* listed earlier that fits it at every hour is never bypassed by a later one.
SignedIsWithinLimits ==
    \A c \in Calls : pc[c] \in {"signing", "paying"} \/ outcome[c] \in {"signed", "paid"} =>
        /\ option[c].amount <= limit[c]
        /\ option[c].asset \in AllowedAssets
        /\ rules # << >> =>
            /\ checked[c] # 0
            /\ option[c].amount <= rules[checked[c]].maxAmount
            /\ rules[checked[c]].merchant \in {Wildcard, option[c].payTo}
            /\ rules[checked[c]].category \in {Wildcard, option[c].category}
            /\ ~\E i \in 1..(checked[c] - 1) :
                   \A at \in 0..(HoursPerDay * DaysPerWeek - 1) : Matches(rules[i], option[c], at)

\* The tracker holds exactly the accepted payments, each under one rule: a
\* rejected, dropped or failed payment consumes no budget.
TrackerCountsAccepted ==
    \A i \in RuleIndex :
        spent[i] = Total({c \in Calls : outcome[c] = "paid" /\ recorded[c] = i})

\* No rule is switched by the clock.
Timeless == \A i \in RuleIndex : \A at \in 0..(HoursPerDay * DaysPerWeek - 1) :
                MatchesWindow(rules[i], at)

\* With rules no window switches, overlapping fetches exceed a period ceiling by
\* at most one payment per extra overlapping call; a client that awaits each call
\* before the next (peak = 1) respects the ceiling exactly.
OverspendIsBounded ==
    Timeless => \A i \in RuleIndex : Periodic(i) =>
        Total(PaidUnder(i))
            <= rules[i].periodMaxAmount + Max({peak - 1, 0}) * rules[i].maxAmount

\* The period budgets, as the tracker keeps them and as money went out.
PeriodBudgetsAreAccounted == TrackerCountsAccepted /\ OverspendIsBounded

\* x402-budget-attributes.ts: periodMaxAmount is a "Cumulative ceiling across all
\* payments matching this rule": payments cleared under a rule never exceed it.
PeriodCeilingHolds ==
    \A i \in RuleIndex : Periodic(i) => Total(PaidUnder(i)) <= rules[i].periodMaxAmount

\* x402-budget-attributes.ts: after the payment "find the SAME rule afterward":
\* accepted spend is recorded under the rule that was checked.
RecordedUnderCheckedRule ==
    \A c \in Calls : outcome[c] = "paid" =>
        recorded[c] = IF Periodic(checked[c]) THEN checked[c] ELSE 0
=============================================================================
