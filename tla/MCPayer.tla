------------------------------- MODULE MCPayer -------------------------------
(* A session with two overlapping pay() calls over two assets. *)
EXTENDS Payer, FiniteSets, TLC

CONSTANTS c1, c2, usdc, eurc, other

Opt(asset, amount) ==
    [onNetwork |-> TRUE, sponsored |-> TRUE, asset |-> asset, amount |-> amount]

MCCeiling == (usdc :> 2) @@ (eurc :> 1)

\* Prices below, at and above what is left of the ceilings; an option list whose
\* cheapest element is not its first; one no guard accepts.
MCChallenges ==
    { << Opt(usdc, 1) >>,
      << Opt(usdc, 2), Opt(eurc, 1) >>,
      << Opt(usdc, 2) >>,
      << Opt(other, 1) >>,
      << Opt(usdc, 1), Opt(usdc, Malformed) >>,
      << [Opt(usdc, 1) EXCEPT !.sponsored = FALSE] >> }

MCMaxAmounts == {Malformed, 2}
=============================================================================
