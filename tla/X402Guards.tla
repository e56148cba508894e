----------------------------- MODULE X402Guards -----------------------------
(***************************************************************************)
(* The pure payment guards of src/src/x402-guards.ts, shared by the SDK's  *)
(* x402 client and by the MCP payer.  A payment option of a decoded 402    *)
(* challenge keeps only what the guards read; a settle header keeps only   *)
(* what the retry decision reads.                                          *)
(***************************************************************************)
EXTENDS Integers, Sequences

\* An amount string the digits-only test of parseAmount refuses ("1e5", "-3").
Malformed == -1

\* parseAmount throws InvalidRequirementsError unless this holds.
ParsesAsAmount(amount) == amount >= 0

(***************************************************************************)
(* One element of `accepts`.  onNetwork: scheme is "exact" and the network *)
(* is ours.  sponsored: extra.areFeesSponsored === true (absent and false  *)
(* are refused alike).                                                     *)
(***************************************************************************)
PaymentOption(Assets, Amounts) ==
    [onNetwork: BOOLEAN, sponsored: BOOLEAN, asset: Assets, amount: Amounts]

OnNetwork(accepts) == {i \in DOMAIN accepts : accepts[i].onNetwork}

Candidates(accepts) == {i \in OnNetwork(accepts) : accepts[i].sponsored}

Allowed(accepts, allowedAssets) ==
    {i \in Candidates(accepts) : accepts[i].asset \in allowedAssets}

\* The reduce with a strict < keeps the FIRST of the cheapest options.
Cheapest(accepts, I) ==
    CHOOSE i \in I : \A j \in I : \/ accepts[i].amount < accepts[j].amount
                                  \/ accepts[i].amount = accepts[j].amount /\ i <= j

\* Mutant: amounts are compared without parsing them first.
RefusalUnparsed(accepts, allowedAssets, maxAmount) ==
    LET allowed == Allowed(accepts, allowedAssets)
    IN  CASE Candidates(accepts) = {} -> "NoUsablePaymentOption"
          [] Candidates(accepts) # {} /\ allowed = {} -> "DisallowedAsset"
          [] OTHER -> IF accepts[Cheapest(accepts, allowed)].amount > maxAmount
                      THEN "MaxAmountExceeded" ELSE "none"

\* The typed error selectRequirements throws, or "none".
Refusal(accepts, allowedAssets, maxAmount) ==
    LET allowed == Allowed(accepts, allowedAssets)
    IN  CASE OnNetwork(accepts) = {}  -> "NoUsablePaymentOption"
          [] OnNetwork(accepts) # {} /\ Candidates(accepts) = {}
                                      -> "NoUsablePaymentOption"
          [] Candidates(accepts) # {} /\ allowed = {} -> "DisallowedAsset"
          [] allowed # {} /\ \E i \in allowed : ~ParsesAsAmount(accepts[i].amount)
                                      -> "InvalidRequirements"
          [] OTHER -> IF accepts[Cheapest(accepts, allowed)].amount > maxAmount
                      THEN "MaxAmountExceeded" ELSE "none"

\* The option selectRequirements returns when it does not throw.
SelectRequirements(accepts, allowedAssets) ==
    accepts[Cheapest(accepts, Allowed(accepts, allowedAssets))]

(***************************************************************************)
(* The facilitator's settle result as carried on a paid response.          *)
(* tx = "hash" is a well-formed 32-byte hex hash, "garbled" any other      *)
(* non-empty string.  NoSettle: no header, or one that does not decode.    *)
(***************************************************************************)
NoSettle == [success |-> "absent", tx |-> "noHeader"]

SettleResult ==
    [success: {"true", "false", "absent"}, tx: {"empty", "hash", "garbled"}]
        \cup {NoSettle}

IsRetryableSettleFailure(settle) ==
    settle # NoSettle /\ settle.success = "false" /\ settle.tx = "empty"

\* Mutant: anything but a well-formed hash counts as "nothing was spent".
ClassifyCollapsed(settle) ==
    CASE settle = NoSettle  -> "indeterminate"
      [] settle.tx = "hash" -> "settled"
      [] OTHER              -> "not-spent"

ClassifySettlement(settle) ==
    CASE settle = NoSettle                 -> "indeterminate"
      [] IsRetryableSettleFailure(settle)  -> "not-spent"
      [] settle.tx \in {"empty", "garbled"} /\ ~IsRetryableSettleFailure(settle)
                                           -> "indeterminate"
      [] settle.tx = "hash" /\ settle.success = "false" -> "indeterminate"
      [] OTHER                             -> "settled"
=============================================================================
