----------------------------- MODULE MCCallers ------------------------------
(***************************************************************************)
(* The components whose hazard is several callers at once, for TLC.  They  *)
(* share no state; focus says which one a behaviour is about, and the      *)
(* others stay in their initial state.  Amounts comes along for its        *)
(* assumptions, which TLC evaluates.                                       *)
(***************************************************************************)
EXTENDS TLC, Amounts, WalletClient, AgentKeys, PolicyDeploy, Caches, Idempotency, SpendLedgers

CONSTANTS a1, a2, shop

MCPayments == {[valid |-> TRUE, to |-> t, amount |-> 1] : t \in {shop, a1}}
    \cup {[valid |-> FALSE, to |-> shop, amount |-> 1], [valid |-> TRUE, to |-> shop, amount |-> 0]}

MCGrant(t, p) == <<[token |-> t, policies |-> p]>>
MCMints ==
    {[publicKey |-> TRUE, grants |-> MCGrant(TRUE, <<TRUE>>), expires |-> e] :
        e \in {WCNone, [unit |-> "date", at |-> 5999], [unit |-> "seconds", at |-> 6]}}
    \cup {[publicKey |-> FALSE, grants |-> MCGrant(TRUE, <<TRUE>>), expires |-> WCNone],
          [publicKey |-> TRUE, grants |-> <<>>, expires |-> WCNone],
          [publicKey |-> TRUE, grants |-> MCGrant(TRUE, <<>>), expires |-> WCNone],
          [publicKey |-> TRUE, grants |-> MCGrant(TRUE, <<TRUE, FALSE>>), expires |-> WCNone]}

MCKeyGrant(t, p) == [token |-> t, policies |-> p]
MCInputs ==
    {[grants |-> <<MCKeyGrant("t1", <<"p1">>)>>, expires |-> AKNone],
     [grants |-> <<MCKeyGrant("t1", <<"p1", "p2">>), MCKeyGrant("t2", <<"p2">>)>>, expires |-> 6],
     [grants |-> <<MCKeyGrant("t1", <<"p1", "p1">>)>>, expires |-> AKNone],
     [grants |-> <<MCKeyGrant("t1", <<"p1">>)>>, expires |-> 5],
     [grants |-> <<>>, expires |-> AKNone]}

MCDefinition == [typed |-> TRUE, owners |-> <<"o1", "o2">>, threshold |-> 2, limits |-> 0,
                 delay |-> 0, contracts |-> <<>>]
MCDefinitions ==
    {MCDefinition, [MCDefinition EXCEPT !.owners = <<"o1", "o1">>],
     [MCDefinition EXCEPT !.threshold = 3], [MCDefinition EXCEPT !.limits = -1]}

\* The client, the agent keys and the idempotency keys share one set of callers,
\* the deployment queue, the caches and the ledgers another.
MCSymmetry == Permutations(WCCalls) \cup Permutations(CACalls)

VARIABLE focus  \* the component this behaviour is about

vars == <<focus, wcVars, akVars, pdVars, caVars, idVars, slVars>>

Init ==
    /\ focus \in {"client", "keys", "policies", "caches", "idempotency", "ledgers"}
    /\ WCInit
    /\ AKInit
    /\ PDInit
    /\ CAInit
    /\ IDInit
    /\ SLInit

Next ==
    \/ focus = "client" /\ WCNext
       /\ UNCHANGED <<focus, akVars, pdVars, caVars, idVars, slVars>>
    \/ focus = "keys" /\ AKNext
       /\ UNCHANGED <<focus, wcVars, pdVars, caVars, idVars, slVars>>
    \/ focus = "policies" /\ PDNext
       /\ UNCHANGED <<focus, wcVars, akVars, caVars, idVars, slVars>>
    \/ focus = "caches" /\ CANext
       /\ UNCHANGED <<focus, wcVars, akVars, pdVars, idVars, slVars>>
    \/ focus = "idempotency" /\ IDNext
       /\ UNCHANGED <<focus, wcVars, akVars, pdVars, caVars, slVars>>
    \/ focus = "ledgers" /\ SLNext
       /\ UNCHANGED <<focus, wcVars, akVars, pdVars, caVars, idVars>>

Spec == Init /\ [][Next]_vars

\* The state of every component has the values its code gives it.
TypeOK ==
    /\ WCTypeOK /\ AKTypeOK /\ PDTypeOK /\ CATypeOK /\ IDTypeOK
    /\ SLTypeOK
=============================================================================
