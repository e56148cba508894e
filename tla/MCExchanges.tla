---------------------------- MODULE MCExchanges -----------------------------
(***************************************************************************)
(* The components whose hazard is what the other side answers, for TLC.    *)
(* They share no state; focus says which one a behaviour is about, and the *)
(* others stay in their initial state.  Paging, ReleaseGates and           *)
(* OfflineTools hold several independent machines each, which take a focus *)
(* of their own.                                                           *)
(***************************************************************************)
EXTENDS TxSubmit, Upto, McpServer, SessionExtras, FetchGuards, PayerTools, CommandLine, Paging, ReleaseGates, OfflineTools, CircuitBreaker

MCQueries == {[network |-> n, assets |-> a, limit |-> l] :
                n \in {{}, {"test"}}, a \in {{}, {{"usdc"}}, {{}}}, l \in 0 .. 2}

VARIABLE focus  \* the component this behaviour is about

vars == <<focus, tsVars, upVars, msVars, sxVars, fgVars, ptVars, clVars, pgVars, rgVars, otVars, cbVars>>

Init ==
    /\ focus \in {"submit", "upto", "server", "helpers", "guards", "tools", "cli", "discovery", "sync", "fetches", "gate", "writer", "registry", "install", "offline", "replay", "connect", "breaker"}
    /\ TSInit
    /\ UPInit
    /\ MSInit
    /\ SXInit
    /\ FGInit
    /\ PTInit
    /\ CLInit
    /\ PGInit
    /\ RGInit
    /\ OTInit
    /\ CBInit

Next ==
    \/ focus = "submit" /\ TSNext
       /\ UNCHANGED <<focus, upVars, msVars, sxVars, fgVars, ptVars, clVars, pgVars, rgVars, otVars, cbVars>>
    \/ focus = "upto" /\ UPNext
       /\ UNCHANGED <<focus, tsVars, msVars, sxVars, fgVars, ptVars, clVars, pgVars, rgVars, otVars, cbVars>>
    \/ focus = "server" /\ MSNext
       /\ UNCHANGED <<focus, tsVars, upVars, sxVars, fgVars, ptVars, clVars, pgVars, rgVars, otVars, cbVars>>
    \/ focus = "helpers" /\ SXNext
       /\ UNCHANGED <<focus, tsVars, upVars, msVars, fgVars, ptVars, clVars, pgVars, rgVars, otVars, cbVars>>
    \/ focus = "guards" /\ FGNext
       /\ UNCHANGED <<focus, tsVars, upVars, msVars, sxVars, ptVars, clVars, pgVars, rgVars, otVars, cbVars>>
    \/ focus = "tools" /\ PTNext
       /\ UNCHANGED <<focus, tsVars, upVars, msVars, sxVars, fgVars, clVars, pgVars, rgVars, otVars, cbVars>>
    \/ focus = "cli" /\ CLNext
       /\ UNCHANGED <<focus, tsVars, upVars, msVars, sxVars, fgVars, ptVars, pgVars, rgVars, otVars, cbVars>>
    \/ focus = "discovery" /\ PGDiscoveryNext
       /\ UNCHANGED <<focus, tsVars, upVars, msVars, sxVars, fgVars, ptVars, clVars, rgVars, otVars, cbVars>>
    \/ focus = "sync" /\ PGSyncNext
       /\ UNCHANGED <<focus, tsVars, upVars, msVars, sxVars, fgVars, ptVars, clVars, rgVars, otVars, cbVars>>
    \/ focus = "fetches" /\ PGFetchNext
       /\ UNCHANGED <<focus, tsVars, upVars, msVars, sxVars, fgVars, ptVars, clVars, rgVars, otVars, cbVars>>
    \/ focus = "gate" /\ RGGateNext
       /\ UNCHANGED <<focus, tsVars, upVars, msVars, sxVars, fgVars, ptVars, clVars, pgVars, otVars, cbVars>>
    \/ focus = "writer" /\ RGWriterNext
       /\ UNCHANGED <<focus, tsVars, upVars, msVars, sxVars, fgVars, ptVars, clVars, pgVars, otVars, cbVars>>
    \/ focus = "registry" /\ RGRegistryNext
       /\ UNCHANGED <<focus, tsVars, upVars, msVars, sxVars, fgVars, ptVars, clVars, pgVars, otVars, cbVars>>
    \/ focus = "install" /\ RGRestNext
       /\ UNCHANGED <<focus, tsVars, upVars, msVars, sxVars, fgVars, ptVars, clVars, pgVars, otVars, cbVars>>
    \/ focus = "offline" /\ OTOfflineNext
       /\ UNCHANGED <<focus, tsVars, upVars, msVars, sxVars, fgVars, ptVars, clVars, pgVars, rgVars, cbVars>>
    \/ focus = "replay" /\ OTReplayNext
       /\ UNCHANGED <<focus, tsVars, upVars, msVars, sxVars, fgVars, ptVars, clVars, pgVars, rgVars, cbVars>>
    \/ focus = "connect" /\ OTOtherNext
       /\ UNCHANGED <<focus, tsVars, upVars, msVars, sxVars, fgVars, ptVars, clVars, pgVars, rgVars, cbVars>>
    \/ focus = "breaker" /\ CBNext
       /\ UNCHANGED <<focus, tsVars, upVars, msVars, sxVars, fgVars, ptVars, clVars, pgVars, rgVars, otVars>>

\* The RPC is polled on a timer, and time passes: the event loop runs what is
\* due, so a read, a sleep and the clock are never postponed for ever.
FairSubmit(action) ==
    /\ focus = "submit" /\ action
    /\ UNCHANGED <<focus, upVars, msVars, sxVars, fgVars, ptVars, clVars, pgVars, rgVars, otVars, cbVars>>

\* Time passes, every call the breaker admitted settles, and callers keep
\* calling.  The second is an assumption on the wrapped backend: execute() itself
\* sets no timeout.
FairBreaker(action) ==
    /\ focus = "breaker" /\ action
    /\ UNCHANGED <<focus, tsVars, upVars, msVars, sxVars, fgVars, ptVars, clVars, pgVars, rgVars, otVars>>

Spec == /\ Init /\ [][Next]_vars
        /\ WF_vars(FairSubmit(TSTick))
        /\ WF_vars(FairSubmit(TSRead \/ TSReadCached))
        /\ WF_vars(FairSubmit(TSSlept))
        /\ WF_vars(FairBreaker(CBTick))
        /\ \A c \in CBCalls : WF_vars(FairBreaker(CBSettle(c))) /\ WF_vars(FairBreaker(CBAdmit(c)))

\* The state of every component has the values its code gives it.
TypeOK ==
    /\ TSTypeOK /\ UPTypeOK /\ MSTypeOK
    /\ SXTypeOK /\ FGTypeOK /\ PTTypeOK /\ CLTypeOK /\ PGTypeOK
    /\ RGTypeOK /\ OTTypeOK /\ CBTypeOK
=============================================================================
