---------------------------- MODULE MCX402Client ----------------------------
(* Overlapping fetches of two merchants under three budget rules. *)
EXTENDS X402Client, TLC

CONSTANTS f1, f2, f3, usdc, other, shop, farm, groceries, untagged

Opt(asset, amount, payTo, category) ==
    [onNetwork |-> TRUE, sponsored |-> TRUE, asset |-> asset, amount |-> amount,
     payTo |-> payTo, category |-> category]

Rule(merchant, category, maxAmount, period, start, end, days) ==
    [merchant |-> merchant, category |-> category, maxAmount |-> maxAmount,
     periodMaxAmount |-> period, startHour |-> start, endHour |-> end, days |-> days]

Always == 0..(DaysPerWeek - 1)

\* A merchant rule without a period, then a category rule and a catch-all with one,
\* the latter's below its own per-payment ceiling.
MCTimelessRules ==
    << Rule(shop, Wildcard, 2, 0, 0, HoursPerDay - 1, Always),
       Rule(Wildcard, groceries, 2, 3, 0, HoursPerDay - 1, Always),
       Rule(Wildcard, Wildcard, 2, 1, 0, HoursPerDay - 1, Always) >>

\* Groceries in the window that wraps past midnight; anything, every other day.
MCWindowRules ==
    << Rule(Wildcard, groceries, 2, 3, HoursPerDay - 1, 0, Always),
       Rule(Wildcard, Wildcard, 1, 2, 0, HoursPerDay - 1, {0}) >>

MCTimeless == {MCTimelessRules}

MCWindows == {MCWindowRules}

\* Also no attribute budget at all.
MCRuleSets == {MCTimelessRules, MCWindowRules, << >>}

\* Prices below, at and above the ceilings, a cheaper second option, an asset
\* outside the allow list, another network and a malformed amount.
MCChallenges ==
    { << Opt(usdc, 1, farm, groceries) >>,
      << Opt(usdc, 3, farm, groceries), Opt(usdc, 2, farm, groceries) >>,
      << Opt(usdc, 2, shop, groceries) >>,
      << Opt(usdc, 1, farm, untagged) >>,
      << Opt(other, 1, farm, groceries) >>,
      << [Opt(usdc, 1, shop, groceries) EXCEPT !.onNetwork = FALSE] >>,
      << Opt(usdc, Malformed, farm, groceries) >> }

MCMaxAmounts == {1, 3}

MCSymmetry == Permutations(Calls)
=============================================================================
