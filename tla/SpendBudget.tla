----------------------------- MODULE SpendBudget -----------------------------
(***************************************************************************)
(* What the MCP payer promises about money, with no queue, network or      *)
(* retries: each payment call is charged at most once, the ceiling check   *)
(* and the debit are one atomic step, and a call that ended uncharged      *)
(* stays so.  Payer.tla implements this, and so does the session budget    *)
(* of the metered payments, Upto.tla.                                      *)
(***************************************************************************)
EXTENDS Naturals

CONSTANTS Calls,        \* the pay() invocations of one server session
          Assets,       \* configured assets
          Ceiling       \* [Assets -> Nat], the operator's session ceilings

VARIABLES spent,        \* [Assets -> Nat], the session ledger
          status        \* [Calls -> {"open", "charged", "free"}]

vars == <<spent, status>>

Init == /\ spent = [a \in Assets |-> 0]
        /\ status = [c \in Calls |-> "open"]

\* Check and debit together: the price is whatever the ledger grew by.
Charge(c) ==
    /\ status[c] = "open"
    /\ \E a \in Assets : /\ spent'[a] \in spent[a]..Ceiling[a]
                         /\ spent' = [spent EXCEPT ![a] = spent'[a]]
    /\ status' = [status EXCEPT ![c] = "charged"]

Refuse(c) ==
    /\ status[c] = "open"
    /\ status' = [status EXCEPT ![c] = "free"]
    /\ UNCHANGED spent

Next == \E c \in Calls : Charge(c) \/ Refuse(c)

Spec == Init /\ [][Next]_vars
=============================================================================
