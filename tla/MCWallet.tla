------------------------------ MODULE MCWallet ------------------------------
(***************************************************************************)
(* The wallet's side, for TLC: the session store, the passkey connector,   *)
(* the payment signers and the signed requests.  They share no state;      *)
(* focus says which one a behaviour is about, and the others stay in their *)
(* initial state.                                                          *)
(***************************************************************************)
EXTENDS TLC, SessionStore, PasskeyConnector, PaymentSigning, RequestAuth

MCSigners ==
    {[key |-> k, address |-> 9, policies |-> p, capabilities |-> c] :
        k \in {"session", "passkey"}, p \in {<<>>, <<2, 1>>},
        c \in {{}, {[resourceType |-> 5, action |-> "transfer"]}}}
    \cup {[key |-> "session", address |-> 0, policies |-> <<>>, capabilities |-> {}],
          [key |-> "session", address |-> 9, policies |-> <<0>>, capabilities |-> {}],
          [key |-> "session", address |-> 9, policies |-> <<2, 1, 2>>, capabilities |-> {}],
          [key |-> "passkey", address |-> 9, policies |-> <<0>>, capabilities |-> {}],
          [key |-> "passkey", address |-> 9, policies |-> <<>>,
           capabilities |-> {[resourceType |-> 5, action |-> "malformed"]}]}

MCRequirement == [network |-> "testnet", sponsored |-> TRUE, asset |-> 5, payTo |-> 7,
                  amount |-> 2, timeout |-> 16]
MCRequirements ==
    {[MCRequirement EXCEPT !.timeout = t] : t \in {2, 16, 40}}
    \cup {[MCRequirement EXCEPT !.asset = 6], [MCRequirement EXCEPT !.network = "elsewhere"],
          [MCRequirement EXCEPT !.network = "pubnet", !.sponsored = FALSE]}

MCSymmetry == Permutations(SSAccounts) \cup Permutations(PCCalls)

VARIABLE focus  \* the component this behaviour is about

vars == <<focus, ssVars, pcVars, psVars, raVars>>

Init ==
    /\ focus \in {"session", "connector", "signing", "auth"}
    /\ SSInit
    /\ PCInit
    /\ PSInit
    /\ RAInit
    /\ focus # "session" => ssSyncStorage /\ ssStored = SSNone

Next ==
    \/ focus = "session" /\ SSNext
       /\ UNCHANGED <<focus, pcVars, psVars, raVars>>
    \/ focus = "connector" /\ PCNext
       /\ UNCHANGED <<focus, ssVars, psVars, raVars>>
    \/ focus = "signing" /\ PSNext
       /\ UNCHANGED <<focus, ssVars, pcVars, raVars>>
    \/ focus = "auth" /\ RANext
       /\ UNCHANGED <<focus, ssVars, pcVars, psVars>>

Spec == Init /\ [][Next]_vars

\* The state of every component has the values its code gives it.
TypeOK ==
    /\ SSTypeOK /\ PCTypeOK /\ PSTypeOK /\ RATypeOK
=============================================================================
