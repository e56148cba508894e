---------------------------- MODULE SessionStore ----------------------------
(***************************************************************************)
(* The wallet's session store (src/src/session.ts): start, touch, end,     *)
(* restore, dispose and the refresh timer, over a storage adapter whose    *)
(* save/clear/load are awaited.  Calls overlap: one action starts a call   *)
(* (up to its await), one lets the storage act, one resumes the call.      *)
(*                                                                         *)
(* The web and memory adapters act when called and their awaits resume in  *)
(* call order (ssSyncStorage).  Any other adapter may act later and in any *)
(* order.                                                                  *)
(***************************************************************************)
EXTENDS Naturals, Sequences, FiniteSets

CONSTANTS SSAccounts,     \* wallets a session may be for
          SSNone,         \* null
          SSMaxInFlight,  \* bound: calls awaiting storage at one time
          SSMaxClock,     \* bound: values of lastActiveAt
          SSStorageModes, \* which kinds of storage adapter to consider
          SSRefresh       \* TRUE when refreshIntervalMs is set

ASSUME SSBoundsAssumption == SSMaxInFlight \in Nat /\ SSMaxClock \in Nat

ASSUME SSSwitchAssumption == SSStorageModes \subseteq BOOLEAN /\ SSRefresh \in BOOLEAN

VARIABLES
    ssSyncStorage, \* TRUE for createWebStorageAdapter / createMemoryStorageAdapter
    ssSession,    \* the store's session, or None
    ssStatus,     \* "loading", "connected" or "disconnected"
    ssTimer,      \* the store's interval handle is set
    ssIntervals,  \* live setInterval timers
    ssDisposed,   \* the disposed latch
    ssStored,     \* what the adapter holds; None when empty or unreadable
    ssInflight,   \* calls suspended at their storage await, in call order
    ssClock,      \* time stamps for lastActiveAt
    ssEnded       \* history: an end() finished and nothing reconnected since

ssVars == <<ssSyncStorage, ssSession, ssStatus, ssTimer, ssIntervals, ssDisposed, ssStored,
          ssInflight, ssClock, ssEnded>>

SSSession == [account: SSAccounts, lastActiveAt: 0..SSMaxClock]

ASSUME SSNoneAssumption == SSNone \notin SSSession

(***************************************************************************)
(* A suspended call.  arg is what it saves, or what its load returned;     *)
(* result says whether the storage operation is pending, took effect or    *)
(* rejected without effect.                                                *)
(***************************************************************************)
SSOperation == [kind: {"start", "touch", "end", "restore"},
              arg: SSSession \cup {SSNone}, result: {"pending", "ok", "failed"}]

SSInit == /\ ssSyncStorage \in SSStorageModes
          /\ ssSession = SSNone
          /\ ssStatus = "loading"
          /\ ssTimer = FALSE
          /\ ssIntervals = 0
          /\ ssDisposed = FALSE
          /\ ssStored \in {SSNone} \cup [account: SSAccounts, lastActiveAt: {0}]
          /\ ssInflight = << >>
          /\ ssClock = 0
          /\ ssEnded = FALSE

\* The storage operation of a call: save, clear or load.
SSStoredAfter(op) == CASE op.kind \in {"start", "touch"} -> op.arg
                     [] op.kind = "end"                -> SSNone
                     [] op.kind = "restore"            -> ssStored

\* The storage gets to a pending operation: it takes effect or rejects.
SSPerform(op, settled) ==
    \/ /\ ssStored' = SSStoredAfter(op)
       /\ settled = [op EXCEPT !.result = "ok",
                               !.arg = IF op.kind = "restore" THEN ssStored ELSE op.arg]
    \/ /\ ssSyncStorage => op.kind # "restore"   \* unreadable content is None
       /\ settled = [op EXCEPT !.result = "failed"]
       /\ UNCHANGED ssStored

\* A call runs up to its await; a synchronous adapter acts right there.
SSAwait(op) ==
    /\ Len(ssInflight) < SSMaxInFlight
    /\ IF ssSyncStorage
       THEN \E settled \in SSOperation : /\ SSPerform(op, settled)
                                       /\ ssInflight' = Append(ssInflight, settled)
       ELSE /\ ssInflight' = Append(ssInflight, op)
            /\ UNCHANGED ssStored

SSOp(kind, arg) == [kind |-> kind, arg |-> arg, result |-> "pending"]

\* start(session)
SSStart(a) ==
    /\ SSAwait(SSOp("start", [account |-> a, lastActiveAt |-> ssClock]))
    /\ ssEnded' = FALSE
    /\ UNCHANGED <<ssSyncStorage, ssSession, ssStatus, ssTimer, ssIntervals, ssDisposed, ssClock>>

\* touch(): the session is read now and written back after the await.
SSTouch ==
    /\ ssSession # SSNone
    /\ SSAwait(SSOp("touch", [ssSession EXCEPT !.lastActiveAt = ssClock]))
    /\ UNCHANGED <<ssSyncStorage, ssSession, ssStatus, ssTimer, ssIntervals, ssDisposed, ssClock, ssEnded>>

\* An interval fires: a fire-and-forget touch(), a no-op when disconnected.
SSIntervalFires ==
    /\ ssIntervals > 0 /\ ~ssDisposed
    /\ SSTouch

\* end()
SSEnd ==
    /\ SSAwait(SSOp("end", SSNone))
    /\ UNCHANGED <<ssSyncStorage, ssSession, ssStatus, ssTimer, ssIntervals, ssDisposed, ssClock, ssEnded>>

\* restore()
SSRestore ==
    /\ SSAwait(SSOp("restore", SSNone))
    /\ ssEnded' = FALSE
    /\ UNCHANGED <<ssSyncStorage, ssSession, ssStatus, ssTimer, ssIntervals, ssDisposed, ssClock>>

\* An asynchronous adapter gets to one of the pending operations.
SSStorageActs(i) ==
    /\ ssInflight[i].result = "pending"
    /\ \E settled \in SSOperation : /\ SSPerform(ssInflight[i], settled)
                                 /\ ssInflight' = [ssInflight EXCEPT ![i] = settled]
    /\ UNCHANGED <<ssSyncStorage, ssSession, ssStatus, ssTimer, ssIntervals, ssDisposed, ssClock, ssEnded>>

SSWithout(i) == SubSeq(ssInflight, 1, i - 1) \o SubSeq(ssInflight, i + 1, Len(ssInflight))

\* A storage await of a synchronous adapter settles in call order.
SSMayResume(i) == ssSyncStorage => i = 1

\* Mutant: a torn-down store still starts its timer.
SSStartRefreshAfterDispose ==
    IF ssTimer \/ ~SSRefresh
    THEN UNCHANGED <<ssTimer, ssIntervals>>
    ELSE ssTimer' = TRUE /\ ssIntervals' = ssIntervals + 1

\* startRefresh()
SSStartRefresh ==
    IF ssDisposed \/ ssTimer \/ ~SSRefresh
    THEN UNCHANGED <<ssTimer, ssIntervals>>
    ELSE ssTimer' = TRUE /\ ssIntervals' = ssIntervals + 1

\* Mutant: stopRefresh() does not look whether a timer runs.
SSStopRefreshUnguarded == ssTimer' = FALSE /\ ssIntervals' = ssIntervals - 1

\* stopRefresh()
SSStopRefresh ==
    IF ssTimer THEN ssTimer' = FALSE /\ ssIntervals' = ssIntervals - 1
    ELSE UNCHANGED <<ssTimer, ssIntervals>>

\* start() after its save.
SSResumeStart(i) ==
    /\ ssInflight[i].kind = "start"
    /\ ssSession' = ssInflight[i].arg
    /\ ssStatus' = "connected"
    /\ SSStartRefresh
    /\ UNCHANGED ssEnded

\* touch() after its save: only the session is set.
SSResumeTouch(i) ==
    /\ ssInflight[i].kind = "touch"
    /\ ssSession' = ssInflight[i].arg
    /\ UNCHANGED <<ssStatus, ssTimer, ssIntervals, ssEnded>>

\* end() after its clear.
SSResumeEnd(i) ==
    /\ ssInflight[i].kind = "end"
    /\ SSStopRefresh
    /\ ssSession' = SSNone
    /\ ssStatus' = "disconnected"
    /\ ssEnded' = ~\E j \in DOMAIN SSWithout(i) : SSWithout(i)[j].kind \in {"start", "restore"}

\* restore() after its load; a failed load and an invalid value disconnect.
SSResumeRestore(i) ==
    /\ ssInflight[i].kind = "restore"
    /\ ssSession' = ssInflight[i].arg
    /\ IF ssInflight[i].arg = SSNone
       THEN ssStatus' = "disconnected" /\ UNCHANGED <<ssTimer, ssIntervals>>
       ELSE ssStatus' = "connected" /\ SSStartRefresh
    /\ UNCHANGED ssEnded

\* The storage operation rejected: start, touch and end stop there with nothing
\* set, restore treats it as an empty store.
SSResumeFailed(i) ==
    /\ IF ssInflight[i].kind = "restore"
       THEN ssSession' = SSNone /\ ssStatus' = "disconnected"
       ELSE UNCHANGED <<ssSession, ssStatus>>
    /\ UNCHANGED <<ssTimer, ssIntervals, ssEnded>>

SSResume(i) ==
    /\ ssInflight[i].result # "pending" /\ SSMayResume(i)
    /\ ssInflight' = SSWithout(i)
    /\ IF ssInflight[i].result = "failed" THEN SSResumeFailed(i)
       ELSE SSResumeStart(i) \/ SSResumeTouch(i) \/ SSResumeEnd(i) \/ SSResumeRestore(i)
    /\ UNCHANGED <<ssSyncStorage, ssDisposed, ssStored, ssClock>>

\* dispose()
SSDispose ==
    /\ ssDisposed' = TRUE
    /\ SSStopRefresh
    /\ UNCHANGED <<ssSyncStorage, ssSession, ssStatus, ssStored, ssInflight, ssClock, ssEnded>>

SSClockTicks == /\ ssClock < SSMaxClock
                /\ ssClock' = ssClock + 1
                /\ UNCHANGED <<ssSyncStorage, ssSession, ssStatus, ssTimer, ssIntervals, ssDisposed, ssStored,
                               ssInflight, ssEnded>>

SSNext == \/ \E a \in SSAccounts : SSStart(a)
          \/ SSTouch \/ SSIntervalFires \/ SSEnd \/ SSRestore \/ SSDispose \/ SSClockTicks
          \/ \E i \in DOMAIN ssInflight : SSStorageActs(i) \/ SSResume(i)

SSSpec == SSInit /\ [][SSNext]_ssVars

-----------------------------------------------------------------------------
(* Properties. *)

\* Every variable stays in its domain.
SSTypeOK ==
    /\ ssSyncStorage \in SSStorageModes
    /\ ssSession \in SSSession \cup {SSNone}
    /\ ssStatus \in {"loading", "connected", "disconnected"}
    /\ ssTimer \in BOOLEAN /\ ssDisposed \in BOOLEAN /\ ssEnded \in BOOLEAN
    /\ ssIntervals \in Nat
    /\ ssStored \in SSSession \cup {SSNone}
    /\ ssInflight \in Seq(SSOperation) /\ Len(ssInflight) <= SSMaxInFlight
    /\ ssClock \in 0..SSMaxClock

\* A disposed store has no interval and never gets one, although a start() or a
\* restore() that was awaiting storage when dispose() ran resumes afterwards.
SSDisposedIsQuiet == ssDisposed => ~ssTimer /\ ssIntervals = 0

\* The handle accounts for every live interval: overlapping connects, restores
\* and ends never leak one that no dispose() can stop.
SSNoLeakedInterval == ssIntervals = IF ssTimer THEN 1 ELSE 0

\* A connected store has a session, whatever awaits resume in between.
SSConnectedHasSession == ssStatus = "connected" => ssSession # SSNone

\* With the web or the memory adapter, once no call is suspended the store shows
\* exactly what is persisted: the last call wins in both places.
SSStorageAgrees == ssSyncStorage /\ ssInflight = << >> /\ ssStatus # "loading" => ssSession = ssStored

\* session.ts: end() is to "End the session and clear persisted state": when it
\* finished and nothing reconnected since, both are empty.
SSEndedStaysEnded == ssEnded => ssSession = SSNone /\ ssStored = SSNone

\* session.ts, whatever awaits overlap: the timer, the state the application
\* sees and the persisted session never contradict each other.
SSStoreIsConsistent ==
    SSDisposedIsQuiet /\ SSNoLeakedInterval /\ SSConnectedHasSession /\ SSStorageAgrees
=============================================================================
