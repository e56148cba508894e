---------------------------- MODULE SessionExtras ----------------------------
(***************************************************************************)
(* What the contributions put around the session store: cache keys and the *)
(* stored schema (pure operators, checked below), and the helpers that run *)
(* concurrently with it: a guarded resume, an auto-refresh timer, the one- *)
(* ceremony-at-a-time wrappers, and the loading adapters (schema guard,    *)
(* retention, network guard, quota tolerance).  One run uses one helper.   *)
(* External: the kit's ceremony, the browser's storage, the clock.         *)
(***************************************************************************)
EXTENDS Integers, Sequences, FiniteSets, SequencesExt

CONSTANTS SXCalls,      \* concurrent callers; a resume's session is named after its caller
          SXLives,      \* bound: refreshes and restarts of the timer
          SXNone        \* no session, no outcome, no helper chosen

VARIABLES sxUse, sxPc, sxMine, sxGen, sxDisposed, sxKit, sxLive, sxStored, sxTimers, sxFlight, sxAtStop,
          sxOut, sxWrites

sxVars == <<sxUse, sxPc, sxMine, sxGen, sxDisposed, sxKit, sxLive, sxStored, sxTimers, sxFlight, sxAtStop, sxOut, sxWrites>>

-----------------------------------------------------------------------------
(* Cache keys.  Text is a sequence of one-character strings. *)

\* A segment's escapes: "%" first, then the separator.
encodeSegment(s) == FlattenSeq([i \in DOMAIN s |-> CASE s[i] = "%" -> <<"%", "2", "5">>
                                                     [] s[i] = ":" -> <<"%", "3", "A">> [] OTHER -> <<s[i]>>])

\* replaceAll of a three-character escape by one character, left to right.
SXReplace(s, esc, by) ==
    LET from[i \in 1..Len(s) + 3] ==
            IF i > Len(s) THEN <<>>
            ELSE IF i + 2 <= Len(s) /\ SubSeq(s, i, i + 2) = esc THEN <<by>> \o from[i + 3]
            ELSE <<s[i]>> \o from[i + 1]
    IN from[1]

\* Undone in the opposite order.
decodeSegment(s) == SXReplace(SXReplace(s, <<"%", "3", "A">>, ":"), <<"%", "2", "5">>, "%")

\* vellar:session:v1:<network>:<wallet>; the three fixed segments and the network are one
\* character each here.  An empty wallet id and an unknown network are refused.
sessionCacheKey(net, wallet) == IF wallet = <<>> \/ net \notin {"t", "m"} THEN <<>>
                                ELSE <<"p", ":", "n", ":", "v", ":", net, ":">> \o encodeSegment(wallet)

sessionCacheScope(net) == <<"p", ":", "n", ":", "v", ":">> \o (IF net = "" THEN <<>> ELSE <<net, ":">>)

\* key.split(":")
SXSplit(key) == LET cuts == {i \in DOMAIN key : key[i] = ":"} \cup {0, Len(key) + 1}
                    at == SetToSortSeq(cuts, <)
                IN [k \in 1..Len(at) - 1 |-> SubSeq(key, at[k] + 1, at[k + 1] - 1)]

\* The parts of a key, or SXNone where parsing throws.
parseSessionCacheKey(key) == LET s == SXSplit(key)
    IN IF /\ Len(s) = 5 /\ s[1] = <<"p">> /\ s[2] = <<"n">> /\ s[3] = <<"v">> /\ s[5] # <<>>
          /\ decodeSegment(s[4]) \in {<<"t">>, <<"m">>}
       THEN <<decodeSegment(s[4])[1], decodeSegment(s[5])>> ELSE <<>>

isSessionCacheKey(key) == parseSessionCacheKey(key) # <<>>

\* The keys list() and clearScope() visit.
SXInScope(keys, net) == {k \in keys : IsPrefix(sessionCacheScope(net), k) /\ isSessionCacheKey(k)}

SXWallets == UNION {[1..n -> {"%", ":", "2", "5", "3", "A", "c"}] : n \in 1..3}

\* A key parses back to the parts it was built from, whatever the wallet id holds; different
\* wallets have different keys; and a scope visits exactly the keys of its network, leaving
\* other applications' keys alone.
ASSUME SXKeysRoundTrip ==
    /\ \A w \in SXWallets : parseSessionCacheKey(sessionCacheKey("t", w)) = <<"t", w>>
    /\ LET pick == {<<":">>, <<"%">>, <<"%", "3", "A">>, <<"c", ":", "m">>, <<"m", ":", "c">>}
           keys == {sessionCacheKey(net, w) : net \in {"t", "m"}, w \in pick} \cup {<<"p", ":", "n", ":", "v", ":", "t", ":">>,
                    <<"o">>, <<"p", ":", "n", ":", "v", ":", "m", ":", "c", ":", "c">>}
       IN /\ SXInScope(keys, "m") = {sessionCacheKey("m", w) : w \in pick}
          /\ SXInScope(keys, "") = SXInScope(keys, "m") \cup SXInScope(keys, "t")

-----------------------------------------------------------------------------
(* Stored shapes: a bare session (v the version stamped on it, 0 for none), an envelope *)
(* around one, unreadable text, some other JSON; ok: the session's fields are valid. *)

SXShapes == {[shape |-> s, v |-> v, ok |-> ok] : s \in {"bare", "env"}, v \in 0..3, ok \in BOOLEAN}
            \ {[shape |-> "env", v |-> 0, ok |-> ok] : ok \in BOOLEAN}       \* no writer makes these
SXAbsent == [shape |-> "absent", v |-> 0, ok |-> FALSE]
SXText == [shape |-> "text", v |-> 0, ok |-> FALSE]
SXOther == [shape |-> "other", v |-> 0, ok |-> FALSE]
SXStoredValues == SXShapes \cup {SXAbsent, SXText, SXOther}

isWalletSession(x) == x.shape = "bare" /\ x.ok

detectSchemaVersion(x) == CASE isWalletSession(x) -> 0
                            [] x.shape = "env" /\ x.ok /\ x.v \in 0..2 -> x.v
                            [] OTHER -> -1

SXEnvelope2 == [shape |-> "env", v |-> 2, ok |-> TRUE]

\* outcome, and the envelope returned (SXAbsent for null; a dry run returns none).
migrateStoredSession(x, dry) == LET from == detectSchemaVersion(x)
                                    out == CASE from = -1 -> "unsupported" [] from = 2 -> "up-to-date" [] OTHER -> "migrated"
    IN [out |-> out, from |-> from,
        env |-> IF dry \/ from = -1 THEN SXAbsent ELSE IF from = 2 THEN x ELSE SXEnvelope2]

\* The value storage holds after migrateStorage.
migrateStorage(x, dry, clear) ==
    LET r == migrateStoredSession(x, dry)
    IN IF dry \/ x = SXAbsent THEN x ELSE IF r.out = "migrated" THEN r.env
       ELSE IF r.out = "unsupported" /\ clear THEN SXAbsent ELSE x

\* Whether loadAndMigrateSession returns a session.
loadAndMigrateSession(x, dry, clear) ==
    \/ migrateStoredSession(x, dry).env # SXAbsent
    \/ dry /\ detectSchemaVersion(x) \in {0, 1}

\* Migrating again changes nothing; a dry run reports what the migration does, touches
\* nothing and returns the same session; and without clearUnsupported a value this version
\* cannot read is kept, so that a newer SDK still can.
ASSUME SXMigrationIsSafe == \A x \in SXStoredValues, clear \in BOOLEAN :
    LET y == migrateStorage(x, FALSE, clear) IN
    /\ migrateStorage(y, FALSE, clear) = y
    /\ migrateStorage(x, TRUE, clear) = x
    /\ migrateStoredSession(x, TRUE).out = migrateStoredSession(x, FALSE).out
    /\ (x # SXEnvelope2) => (loadAndMigrateSession(x, TRUE, clear) = loadAndMigrateSession(x, FALSE, clear))
    /\ (detectSchemaVersion(x) = -1 /\ ~clear) => y = x

\* issue-220: only an envelope of version 1 is accepted; saving wraps.
unwrapSession(x) == x.shape = "env" /\ x.v = 1 /\ x.ok

\* issue-282: either shape of the session's fields, migrated on load.
SXLoadMigrated(x) == IF x.shape \in {"bare", "env"} /\ x.ok THEN [x EXCEPT !.shape = "env"] ELSE SXAbsent

ASSUME SXLoadedTwice == \A x \in SXShapes : SXLoadMigrated(SXLoadMigrated(x)) = SXLoadMigrated(x)
                                            /\ (unwrapSession(x) => detectSchemaVersion(x) = 1)

\* isSessionExpired: a last-activity in the future counts as age 0; an unreadable one (-1)
\* is expired; 0 stands for Infinity (never).
isSessionExpired(last, maxAge, now) ==
    maxAge # 0 /\ (last = -1 \/ (IF now > last THEN now - last ELSE 0) > maxAge)

\* checkIdleExpiry compares the same age without the clamp, and checkSessionExpiry refuses
\* from the instant of expiry on.
checkIdleExpiry(last, maxAge, now) == last # -1 /\ now - last > maxAge

checkSessionExpiry(expires, now) == now >= expires

ASSUME SXClocksAgree == \A last \in 0..4, max \in 1..3, now \in 0..6 :
    /\ checkIdleExpiry(last, max, now) = isSessionExpired(last, max, now)
    /\ isSessionExpired(last, max, now) => checkSessionExpiry(last + max, now)

-----------------------------------------------------------------------------
SXUses == {"resume", "verified", "refresh", "once", "exclusive", "load", "retention", "network"}

SXOutcomes == {"stale", "error", "applied", "revoked", "unknown", "refused", "corrupted", "schema_too_new",
               "connected", "none", "expired", "network_mismatch", "saved", "not persisted"}

ASSUME SXAssumption == SXNone \notin SXCalls \cup SXUses \cup SXOutcomes

SXInit == /\ sxUse = SXNone /\ sxPc = [c \in SXCalls |-> "idle"] /\ sxMine = [c \in SXCalls |-> 0] /\ sxGen = 0
          /\ sxDisposed = FALSE /\ sxKit = FALSE /\ sxLive = SXNone /\ sxStored = SXAbsent /\ sxTimers = 0
          /\ sxFlight = 0 /\ sxAtStop = SXNone /\ sxOut = [c \in SXCalls |-> SXNone] /\ sxWrites = 0

\* The page uses one helper; a loading adapter finds something an earlier page left.
SXConfigure == \E u \in SXUses, x \in SXStoredValues :
    /\ sxUse = SXNone /\ sxUse' = u /\ sxStored' = IF u \in {"load", "retention", "network"} THEN x ELSE sxStored
    /\ UNCHANGED <<sxPc, sxMine, sxGen, sxDisposed, sxKit, sxLive, sxTimers, sxFlight, sxAtStop, sxOut, sxWrites>>

SXDone(c, out) == sxPc' = [sxPc EXCEPT ![c] = "done"] /\ sxOut' = [sxOut EXCEPT ![c] = out]

SXGoto(c, where) == sxPc' = [sxPc EXCEPT ![c] = where] /\ sxOut' = sxOut

(* resumeAndStartSession *)

\* ResumeGuard.begin()'s closure.
SXIsCurrent(c) == ~sxDisposed /\ sxMine[c] = sxGen

SXBegin(c) == /\ sxUse = "resume" /\ sxPc[c] = "idle"
              /\ sxGen' = sxGen + 1 /\ sxMine' = [sxMine EXCEPT ![c] = sxGen + 1]
              /\ IF sxDisposed THEN SXDone(c, "stale") ELSE SXGoto(c, "kit")
              /\ UNCHANGED <<sxUse, sxDisposed, sxKit, sxLive, sxStored, sxTimers, sxFlight, sxAtStop, sxWrites>>

\* resumeKitConnection: at once when the kit already has a wallet; else its ceremony may fail.
SXKitDone(c) == /\ sxUse = "resume" /\ sxPc[c] = "kit"
                /\ \/ /\ sxKit' = TRUE
                      /\ IF SXIsCurrent(c) THEN SXGoto(c, "start") ELSE SXDone(c, "stale")
                   \/ /\ ~sxKit /\ sxKit' = sxKit /\ SXDone(c, IF SXIsCurrent(c) THEN "error" ELSE "stale")
                /\ UNCHANGED <<sxUse, sxMine, sxGen, sxDisposed, sxLive, sxStored, sxTimers, sxFlight, sxAtStop, sxWrites>>

\* Mutant: the generation is not checked again after start().
SXStartedUnchecked(c) == sxPc' = [sxPc EXCEPT ![c] = "done"] /\ sxOut' = [sxOut EXCEPT ![c] = IF SXIsCurrent(c) THEN "applied" ELSE "stale"]

\* After start(): a resume overtaken meanwhile undoes it.
SXStarted(c) == IF SXIsCurrent(c) THEN SXDone(c, "applied") ELSE SXGoto(c, "ending")

\* start()'s save settles: session and storage change together, or the save throws.
SXStart(c) == /\ sxUse = "resume" /\ sxPc[c] = "start"
              /\ \/ sxLive' = c /\ sxWrites' = sxWrites + (IF sxDisposed THEN 1 ELSE 0) /\ SXStarted(c)
                 \/ UNCHANGED <<sxLive, sxWrites>> /\ SXDone(c, "error")
              /\ UNCHANGED <<sxUse, sxMine, sxGen, sxDisposed, sxKit, sxStored, sxTimers, sxFlight, sxAtStop>>

\* end() clears storage first; when that fails the error goes to the caller and the session stays.
SXEnd(c) == /\ sxUse = "resume" /\ sxPc[c] = "ending"
            /\ \/ sxLive' = SXNone /\ SXDone(c, "stale")
               \/ sxLive' = sxLive /\ SXDone(c, "error")
            /\ UNCHANGED <<sxUse, sxMine, sxGen, sxDisposed, sxKit, sxStored, sxTimers, sxFlight, sxAtStop, sxWrites>>

SXDispose == /\ sxUse = "resume" /\ ~sxDisposed /\ sxDisposed' = TRUE
             /\ UNCHANGED <<sxUse, sxPc, sxMine, sxGen, sxKit, sxLive, sxStored, sxTimers, sxFlight, sxAtStop, sxOut, sxWrites>>

\* resumeKitConnectionWithVerification: the chain is asked first unless the kit already has a
\* wallet or the caller skips it; a revoked key and an unanswered question both throw.
SXVerified(c) == /\ sxUse = "verified" /\ sxPc[c] = "idle"
                 /\ \/ sxKit /\ SXDone(c, "applied") /\ sxKit' = sxKit
                    \/ ~sxKit /\ \E ans \in {"signer", "revoked", "unknown"} :
                          SXDone(c, IF ans = "signer" THEN "applied" ELSE ans) /\ sxKit' = (ans = "signer")
                 /\ UNCHANGED <<sxUse, sxMine, sxGen, sxDisposed, sxLive, sxStored, sxTimers, sxFlight, sxAtStop, sxWrites>>

(* AutoRefreshManager; sxGen numbers the sessions minted, sxDisposed is `stopped`. *)

\* start() arms a timer without clearing an earlier one.
SXManagerStart == /\ sxUse = "refresh" /\ sxGen < SXLives /\ sxGen' = sxGen + 1
                  /\ sxLive' = sxGen + 1 /\ sxDisposed' = FALSE /\ sxTimers' = sxTimers + 1
                  /\ UNCHANGED <<sxUse, sxPc, sxMine, sxKit, sxStored, sxFlight, sxAtStop, sxOut, sxWrites>>

\* A timer fires: runRefresh does nothing once stopped.
SXManagerFire == /\ sxUse = "refresh" /\ sxTimers > 0 /\ sxTimers' = sxTimers - 1
                 /\ sxFlight' = IF sxDisposed \/ sxLive = SXNone THEN sxFlight ELSE sxFlight + 1
                 /\ UNCHANGED <<sxUse, sxPc, sxMine, sxGen, sxDisposed, sxKit, sxLive, sxStored, sxAtStop, sxOut, sxWrites>>

\* `stopped` is read again after the refresh.
SXApply == ~sxDisposed

\* The refresh answers: dropped once stopped, else stored and the next timer armed; a failed
\* one is reported and nothing is armed again.
SXManagerDone == /\ sxUse = "refresh" /\ sxFlight > 0 /\ sxFlight' = sxFlight - 1
                 /\ \/ /\ sxGen < SXLives /\ sxGen' = sxGen + 1
                       /\ IF SXApply THEN sxLive' = sxGen + 1 /\ sxTimers' = sxTimers + 1 ELSE UNCHANGED <<sxLive, sxTimers>>
                    \/ UNCHANGED <<sxGen, sxLive, sxTimers>>
                 /\ UNCHANGED <<sxUse, sxPc, sxMine, sxDisposed, sxKit, sxStored, sxAtStop, sxOut, sxWrites>>

\* stop() clears the timer it knows: the last one armed.
SXManagerStop == /\ sxUse = "refresh" /\ sxLive # SXNone /\ ~sxDisposed
                 /\ sxDisposed' = TRUE /\ sxAtStop' = sxLive
                 /\ \E left \in {sxTimers, sxTimers - 1} \cap Nat : sxTimers' = left
                 /\ UNCHANGED <<sxUse, sxPc, sxMine, sxGen, sxKit, sxLive, sxStored, sxFlight, sxOut, sxWrites>>

(* connectOnce and withExclusiveCeremonies: sxFlight ceremonies run. *)

\* The second caller shares the first one's promise, or is refused.
SXCeremony(c) == /\ sxUse \in {"once", "exclusive"} /\ sxPc[c] = "idle"
                 /\ CASE sxFlight = 0 -> sxFlight' = 1 /\ sxGen' = sxGen + 1 /\ sxMine' = [sxMine EXCEPT ![c] = sxGen + 1] /\ SXGoto(c, "waits")
                      [] sxUse = "once" /\ sxFlight > 0 -> /\ SXGoto(c, "waits") /\ UNCHANGED <<sxFlight, sxGen>>
                                                           /\ sxMine' = [sxMine EXCEPT ![c] = sxGen]
                      [] OTHER -> SXDone(c, "refused") /\ UNCHANGED <<sxFlight, sxGen, sxMine>>
                 /\ UNCHANGED <<sxUse, sxDisposed, sxKit, sxLive, sxStored, sxTimers, sxAtStop, sxWrites>>

\* It settles for everyone waiting on it, and the slot is free again, whatever the outcome.
SXCeremonyEnds == \E out \in {"applied", "error"} :
    /\ sxUse \in {"once", "exclusive"} /\ sxFlight > 0 /\ sxFlight' = 0
    /\ LET on == {c \in SXCalls : sxPc[c] = "waits"} IN
       /\ sxPc' = [c \in SXCalls |-> IF c \in on THEN "done" ELSE sxPc[c]]
       /\ sxOut' = [c \in SXCalls |-> IF c \in on THEN out ELSE sxOut[c]]
    /\ sxLive' = IF out = "applied" THEN sxGen ELSE sxLive
    /\ UNCHANGED <<sxUse, sxMine, sxGen, sxDisposed, sxKit, sxStored, sxTimers, sxAtStop, sxWrites>>

(* Loading *)

\* assertSessionSchemaSupported: a whole version above 1 on the value itself.
assertSessionSchemaSupported(x) == x.shape \in {"bare", "env"} => x.v <= 1

\* restoreWithSchemaCheck: the store is restored only from a value this version reads;
\* storage is left alone.
SXRestore(c) == /\ sxUse = "load" /\ sxPc[c] = "idle"
                /\ LET x == sxStored IN
                   /\ SXDone(c, CASE x = SXText -> "corrupted" [] ~assertSessionSchemaSupported(x) -> "schema_too_new"
                                  [] isWalletSession(x) -> "connected" [] OTHER -> "none")
                   /\ sxLive' = IF isWalletSession(x) /\ assertSessionSchemaSupported(x) THEN c ELSE SXNone
                /\ UNCHANGED <<sxUse, sxMine, sxGen, sxDisposed, sxKit, sxStored, sxTimers, sxFlight, sxAtStop, sxWrites>>

\* withSessionRetention: an expired session is cleared from storage, best effort, and not
\* loaded; its schema is not looked at.
SXLoadRetained(c) == /\ sxUse = "retention" /\ sxPc[c] = "idle"
                     /\ \E expired, cleared \in BOOLEAN :
                          LET found == isWalletSession(sxStored) IN
                          /\ sxLive' = IF found /\ ~expired THEN c ELSE SXNone
                          /\ sxStored' = IF found /\ expired /\ cleared THEN SXAbsent ELSE sxStored
                          /\ SXDone(c, IF found THEN IF expired THEN "expired" ELSE "connected" ELSE "none")
                     /\ UNCHANGED <<sxUse, sxMine, sxGen, sxDisposed, sxKit, sxTimers, sxFlight, sxAtStop, sxWrites>>

\* The network guard's restore: a session of another network is cleared (a failing clear
\* ends in the catch, disconnected without that reason), one of this network connects,
\* anything else disconnects; the schema is not looked at.
SXNetworkRestore(c) == /\ sxUse = "network" /\ sxPc[c] = "idle"
                       /\ \E same, cleared \in BOOLEAN :
                            LET found == isWalletSession(sxStored) IN
                            /\ sxLive' = IF found /\ same THEN c ELSE SXNone
                            /\ sxStored' = IF found /\ ~same /\ cleared THEN SXAbsent ELSE sxStored
                            /\ SXDone(c, CASE found /\ same -> "connected"
                                           [] found /\ ~same /\ cleared -> "network_mismatch"
                                           [] OTHER -> "none")
                       /\ UNCHANGED <<sxUse, sxMine, sxGen, sxDisposed, sxKit, sxTimers, sxFlight, sxAtStop, sxWrites>>

\* The versioned adapter stamps what it saves; over quota the session stays in memory only.
SXSave(c) == /\ sxUse = "load" /\ sxPc[c] = "idle" /\ sxLive # SXNone
             /\ \/ sxStored' = [shape |-> "bare", v |-> 1, ok |-> TRUE] /\ SXDone(c, "saved")
                \/ sxStored' = sxStored /\ SXDone(c, "not persisted")
             /\ UNCHANGED <<sxUse, sxMine, sxGen, sxDisposed, sxKit, sxLive, sxTimers, sxFlight, sxAtStop, sxWrites>>

SXNext == \/ SXConfigure \/ SXDispose \/ SXManagerStart \/ SXManagerFire \/ SXManagerDone \/ SXManagerStop \/ SXCeremonyEnds
          \/ \E c \in SXCalls : SXBegin(c) \/ SXKitDone(c) \/ SXStart(c) \/ SXEnd(c) \/ SXVerified(c) \/ SXCeremony(c)
                                \/ SXRestore(c) \/ SXLoadRetained(c) \/ SXNetworkRestore(c) \/ SXSave(c)

SXSpec == SXInit /\ [][SXNext]_sxVars

SXTypeOK == /\ sxUse \in SXUses \cup {SXNone} /\ sxPc \in [SXCalls -> {"idle", "kit", "start", "ending", "waits", "done"}]
            /\ sxMine \in [SXCalls -> Nat] /\ sxGen \in Nat /\ sxDisposed \in BOOLEAN /\ sxKit \in BOOLEAN
            /\ sxStored \in SXStoredValues /\ sxTimers \in Nat /\ sxFlight \in Nat /\ sxWrites \in Nat
            /\ sxOut \in [SXCalls -> SXOutcomes \cup {SXNone}]

\* What each helper promises.  A resume that reports itself stale, overtaken or torn down
\* at whatever point, leaves no session of its own behind (resume-guard.ts).  After stop()
\* the manager takes up no session it did not have then, although refreshes and leaked
\* timers may still be outstanding (auto-refresh-manager.ts).  Everyone who shared or was
\* refused a ceremony saw one in flight, never two (react-strict-mode.ts,
\* exclusive-ceremonies.ts).  And a page that restores through the schema check and saves
\* through the versioned adapter keeps what a newer SDK wrote (session-schema-guard.ts).
SXHelpersHold ==
    /\ sxUse = "resume" => \A c \in SXCalls : sxOut[c] = "stale" => sxLive # c
    /\ (sxUse = "refresh" /\ sxDisposed) => sxLive \in {sxAtStop, SXNone}
    /\ sxUse \in {"once", "exclusive"} => (sxFlight <= 1 /\ \A c \in SXCalls : sxPc[c] = "waits" => sxMine[c] = sxGen)
    /\ \A c \in SXCalls : sxOut[c] = "schema_too_new" => ~assertSessionSchemaSupported(sxStored)

\* Doc: getSession() is "null before start() / after stop()" (auto-refresh-manager.ts:67).
\* The code does not keep this: stop() leaves the session where it is.
SXStoppedHasNoSession == (sxUse = "refresh" /\ sxDisposed) => sxLive = SXNone

\* Doc: after dispose() an in-flight resume makes no store mutation and no storage write.
SXDisposedWritesNothing == sxWrites = 0
=============================================================================
