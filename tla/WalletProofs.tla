---------------------------- MODULE WalletProofs ----------------------------
(***************************************************************************)
(* The session store and the passkey connector, for every number of        *)
(* overlapping calls, accounts and session keys.                           *)
(***************************************************************************)
EXTENDS SessionStore, PasskeyConnector, SequenceTheorems, TLAPS

-----------------------------------------------------------------------------
(* The session store. *)

\* What the storage holds right after a call's operation took effect.
SSPersisted(op) == IF op.kind = "end" THEN SSNone ELSE op.arg

\* A suspended start() or touch() carries a session, never null.
SSSavesASession ==
    \A i \in DOMAIN ssInflight : ssInflight[i].kind \in {"start", "touch"} => ssInflight[i].arg # SSNone

\* The web and memory adapters act at once, and their load never rejects.
SSSettledAtOnce ==
    ssSyncStorage => \A i \in DOMAIN ssInflight :
        /\ ssInflight[i].result # "pending"
        /\ ssInflight[i].kind = "restore" => ssInflight[i].result = "ok"

\* With those adapters, what is persisted is the doing of the last suspended call
\* whose operation took effect; when there is none, the store already shows it.
SSLastEffectPersists ==
    ssSyncStorage =>
        /\ \A i \in DOMAIN ssInflight :
               /\ ssInflight[i].result = "ok"
               /\ \A j \in DOMAIN ssInflight : j > i => ssInflight[j].result = "failed"
               => ssStored = SSPersisted(ssInflight[i])
        /\ (\A i \in DOMAIN ssInflight : ssInflight[i].result = "failed") /\ ssStatus # "loading"
               => ssSession = ssStored

\* The inductive invariant of the session store.
SSInd == /\ SSTypeOK /\ SSDisposedIsQuiet /\ SSNoLeakedInterval /\ SSConnectedHasSession
         /\ SSSavesASession /\ SSSettledAtOnce /\ SSLastEffectPersists

\* A resumed call leaves the sequence of suspended calls; the others keep their
\* order.
LEMMA SSWithoutIsTheRest ==
    ASSUME NEW S, ssInflight \in Seq(S), NEW i \in DOMAIN ssInflight
    PROVE  /\ SSWithout(i) \in Seq(S) /\ Len(SSWithout(i)) = Len(ssInflight) - 1
           /\ \A j \in DOMAIN SSWithout(i) :
                 SSWithout(i)[j] = IF j < i THEN ssInflight[j] ELSE ssInflight[j + 1]
<1> DEFINE q == ssInflight
           s == SubSeq(q, 1, i - 1)
           t == SubSeq(q, i + 1, Len(q))
<1>1. i \in 1..Len(q) /\ Len(q) \in Nat
  OBVIOUS
<1>2. s \in Seq(S) /\ Len(s) = i - 1 /\ \A j \in 1..(i - 1) : s[j] = q[j]
  BY <1>1
<1>3. t \in Seq(S) /\ Len(t) = Len(q) - i /\ \A j \in 1..(Len(q) - i) : t[j] = q[j + i]
  BY <1>1
<1>4. SSWithout(i) = s \o t
  BY DEF SSWithout
<1> HIDE DEF s, t
<1>5. /\ s \o t \in Seq(S) /\ Len(s \o t) = Len(q) - 1
      /\ \A j \in 1..(Len(q) - 1) : (s \o t)[j] = IF j < i THEN s[j] ELSE t[j - i + 1]
  <2>1. s \in Seq(S) /\ t \in Seq(S)
    BY <1>2, <1>3
  <2>2. /\ s \o t \in Seq(S) /\ Len(s \o t) = Len(s) + Len(t)
        /\ \A j \in 1..(Len(s) + Len(t)) :
              (s \o t)[j] = IF j <= Len(s) THEN s[j] ELSE t[j - Len(s)]
    BY ONLY <2>1, ConcatProperties
  <2>3. Len(s) = i - 1 /\ Len(t) = Len(q) - i /\ i \in 1..Len(q)
    BY <1>2, <1>3
  <2>4. s \o t \in Seq(S) /\ Len(s \o t) = Len(q) - 1
    BY ONLY <1>1, <2>2, <2>3
  <2>5. ASSUME NEW j \in 1..(Len(q) - 1)
        PROVE  (s \o t)[j] = IF j < i THEN s[j] ELSE t[j - i + 1]
    <3>1. j \in 1..(Len(s) + Len(t)) /\ (j < i <=> j <= Len(s)) /\ j - Len(s) = j - i + 1
      BY ONLY <1>1, <2>3, j \in 1..(Len(q) - 1)
    <3> QED BY ONLY <2>2, <3>1
  <2> QED BY ONLY <2>4, <2>5
<1>6. \A j \in 1..(Len(q) - 1) : (s \o t)[j] = IF j < i THEN q[j] ELSE q[j + 1]
  <2> SUFFICES ASSUME NEW j \in 1..(Len(q) - 1)
               PROVE  (s \o t)[j] = IF j < i THEN q[j] ELSE q[j + 1]
    OBVIOUS
  <2>1. CASE j < i
    BY <1>1, <1>2, <1>5, <2>1
  <2>2. CASE ~(j < i)
    <3>1. j - i + 1 \in 1..(Len(q) - i) /\ (j - i + 1) + i = j + 1
      BY <1>1, <2>2
    <3>2. t[j - i + 1] = q[j + 1]
      BY <1>3, <3>1
    <3> QED BY <1>5, <2>2, <3>2
  <2> QED BY <2>1, <2>2
<1>7. DOMAIN (s \o t) = 1..(Len(q) - 1)
  BY <1>5
<1> QED BY <1>4, <1>5, <1>6, <1>7

\* A call that starts and reaches its storage await keeps what is known of the
\* suspended calls and of the storage.
LEMMA SSAwaitKeepsTheQueue ==
    ASSUME SSInd, NEW op \in SSOperation, op.result = "pending", SSAwait(op),
           op.kind \in {"start", "touch"} => op.arg # SSNone,
           UNCHANGED <<ssSyncStorage, ssSession, ssStatus>>
    PROVE  /\ ssInflight' \in Seq(SSOperation) /\ Len(ssInflight') <= SSMaxInFlight
           /\ ssStored' \in SSSession \cup {SSNone}
           /\ SSSavesASession' /\ SSSettledAtOnce' /\ SSLastEffectPersists'
<1> DEFINE n == Len(ssInflight)
<1>0. /\ ssInflight \in Seq(SSOperation) /\ n \in Nat /\ n + 1 <= SSMaxInFlight
      /\ ssStored \in SSSession \cup {SSNone}
  BY SSBoundsAssumption DEF SSInd, SSTypeOK, SSAwait
<1>1. CASE ~ssSyncStorage
  <2>1. ssInflight' = Append(ssInflight, op) /\ ssStored' = ssStored
    BY <1>1 DEF SSAwait
  <2>2. SSSavesASession'
    BY <1>0, <2>1 DEF SSInd, SSSavesASession
  <2> QED BY <1>0, <1>1, <2>1, <2>2 DEF SSSettledAtOnce, SSLastEffectPersists
<1>2. CASE ssSyncStorage
  <2>1. PICK settled \in SSOperation :
            SSPerform(op, settled) /\ ssInflight' = Append(ssInflight, settled)
    BY <1>2 DEF SSAwait
  <2>2. /\ ssInflight' \in Seq(SSOperation) /\ Len(ssInflight') = n + 1
        /\ ssInflight'[n + 1] = settled /\ DOMAIN ssInflight' = 1..(n + 1)
        /\ DOMAIN ssInflight = 1..n
        /\ \A i \in 1..n : ssInflight'[i] = ssInflight[i]
    BY <1>0, <2>1
  <2>3. /\ settled.kind = op.kind /\ settled.result \in {"ok", "failed"}
        /\ settled.kind # "restore" => settled.arg = op.arg
        /\ settled.result = "ok" => ssStored' = SSPersisted(settled)
        /\ settled.result = "failed" => ssStored' = ssStored /\ settled.kind # "restore"
    BY <1>2, <2>1 DEF SSPerform, SSStoredAfter, SSPersisted, SSOperation
  <2>4. ssStored' \in SSSession \cup {SSNone}
    BY <1>0, <2>3 DEF SSPersisted, SSOperation
  <2>5. SSSavesASession'
    BY <2>2, <2>3 DEF SSInd, SSSavesASession
  <2>6. SSSettledAtOnce'
    BY <2>2, <2>3 DEF SSInd, SSSettledAtOnce
  <2>7. SSLastEffectPersists'
    <3>1. CASE settled.result = "ok"
      <4>1. ASSUME NEW i \in 1..(n + 1),
                   \A j \in 1..(n + 1) : j > i => ssInflight'[j].result = "failed"
            PROVE  i = n + 1
        BY <1>0, <2>2, <3>1, <4>1
      <4> QED BY <1>0, <2>2, <2>3, <3>1, <4>1 DEF SSLastEffectPersists, SSPersisted
    <3>2. CASE settled.result = "failed"
      <4>1. ASSUME NEW i \in 1..(n + 1), ssInflight'[i].result = "ok",
                   \A j \in 1..(n + 1) : j > i => ssInflight'[j].result = "failed"
            PROVE  ssStored' = SSPersisted(ssInflight'[i])
        <5>1. i \in 1..n /\ ssInflight[i].result = "ok"
          BY <1>0, <2>2, <3>2, <4>1
        <5>2. \A j \in 1..n : j > i => ssInflight[j].result = "failed"
          BY <1>0, <2>2, <4>1
        <5>3. ssStored = SSPersisted(ssInflight[i])
          BY <1>2, <2>2, <5>1, <5>2 DEF SSInd, SSLastEffectPersists
        <5> QED BY <2>2, <2>3, <3>2, <5>1, <5>3 DEF SSPersisted
      <4>2. ASSUME \A i \in 1..(n + 1) : ssInflight'[i].result = "failed", ssStatus # "loading"
            PROVE  ssSession = ssStored'
        <5>1. \A i \in 1..n : ssInflight[i].result = "failed"
          BY <1>0, <2>2, <4>2
        <5> QED BY <1>2, <2>2, <2>3, <3>2, <4>2, <5>1 DEF SSInd, SSLastEffectPersists
      <4> QED BY <2>2, <4>1, <4>2 DEF SSLastEffectPersists, SSPersisted
    <3> QED BY <2>3, <3>1, <3>2
  <2> QED BY <1>0, <2>2, <2>4, <2>5, <2>6, <2>7
<1> QED BY <1>1, <1>2 DEF SSInd, SSTypeOK

\* An asynchronous adapter that gets to a pending operation keeps it too.
LEMMA SSStorageActsKeepsTheQueue ==
    ASSUME SSInd, NEW i \in DOMAIN ssInflight, SSStorageActs(i)
    PROVE  SSInd'
<1>1. ~ssSyncStorage /\ ssSyncStorage' = ssSyncStorage
  BY DEF SSInd, SSSettledAtOnce, SSStorageActs
<1>2. PICK settled \in SSOperation : /\ SSPerform(ssInflight[i], settled)
                                     /\ ssInflight' = [ssInflight EXCEPT ![i] = settled]
  BY DEF SSStorageActs
<1>3. ssInflight \in Seq(SSOperation) /\ ssInflight[i] \in SSOperation
  BY DEF SSInd, SSTypeOK
<1>4. /\ settled.kind = ssInflight[i].kind
      /\ settled.kind # "restore" => settled.arg = ssInflight[i].arg
  BY <1>2, <1>3 DEF SSPerform, SSOperation
<1>5. ssStored' \in SSSession \cup {SSNone}
  BY <1>2, <1>3 DEF SSInd, SSTypeOK, SSPerform, SSStoredAfter, SSOperation
<1>6. /\ ssInflight' \in Seq(SSOperation) /\ Len(ssInflight') = Len(ssInflight)
      /\ DOMAIN ssInflight' = DOMAIN ssInflight
      /\ \A j \in DOMAIN ssInflight : ssInflight'[j] = IF j = i THEN settled ELSE ssInflight[j]
  BY <1>2, <1>3
<1>7. SSSavesASession'
  BY <1>4, <1>6 DEF SSInd, SSSavesASession
<1>8. SSSettledAtOnce' /\ SSLastEffectPersists'
  BY <1>1 DEF SSSettledAtOnce, SSLastEffectPersists
<1>9. SSTypeOK' /\ SSDisposedIsQuiet' /\ SSNoLeakedInterval' /\ SSConnectedHasSession'
  BY <1>5, <1>6 DEF SSInd, SSTypeOK, SSStorageActs, SSDisposedIsQuiet, SSNoLeakedInterval,
                    SSConnectedHasSession
<1> QED BY <1>7, <1>8, <1>9 DEF SSInd

\* Starting and stopping the refresh timer keeps the handle and the live
\* intervals in step.
LEMMA SSTimerIsAccounted ==
    ASSUME SSInd, (SSStartRefresh /\ ssDisposed' = ssDisposed) \/ SSStopRefresh
    PROVE  /\ ssTimer' \in BOOLEAN /\ ssIntervals' \in Nat
           /\ SSNoLeakedInterval' /\ SSDisposedIsQuiet'
<1>1. /\ ssTimer \in BOOLEAN /\ ssIntervals = IF ssTimer THEN 1 ELSE 0
      /\ ssDisposed => ~ssTimer
  BY DEF SSInd, SSTypeOK, SSNoLeakedInterval, SSDisposedIsQuiet
<1>2. CASE SSStopRefresh
  <2>1. ssTimer' = FALSE /\ ssIntervals' = 0
    BY <1>1, <1>2 DEF SSStopRefresh
  <2> QED BY <2>1 DEF SSNoLeakedInterval, SSDisposedIsQuiet
<1>3. CASE SSStartRefresh /\ ssDisposed' = ssDisposed
  <2>1. CASE ssTimer' = ssTimer /\ ssIntervals' = ssIntervals
    BY <1>1, <1>3, <2>1 DEF SSNoLeakedInterval, SSDisposedIsQuiet
  <2>2. CASE ssTimer' = TRUE /\ ssIntervals' = 1 /\ ~ssDisposed
    BY <1>3, <2>2 DEF SSNoLeakedInterval, SSDisposedIsQuiet
  <2>3. ~ssTimer => ssIntervals + 1 = 1
    BY <1>1
  <2> QED BY <1>3, <2>1, <2>2, <2>3 DEF SSStartRefresh
<1> QED BY <1>2, <1>3

\* A resumed call keeps the invariant: with the web and memory adapters the store
\* takes over what the call persisted, or nothing when it failed.
LEMMA SSResumeKeepsTheInvariant ==
    ASSUME SSInd, NEW i \in DOMAIN ssInflight, SSResume(i)
    PROVE  SSInd'
<1> DEFINE op == ssInflight[i]
<1>1. /\ ssInflight \in Seq(SSOperation) /\ op \in SSOperation
      /\ Len(ssInflight) \in Nat /\ Len(ssInflight) <= SSMaxInFlight
  BY DEF SSInd, SSTypeOK
<1>2. /\ ssInflight' \in Seq(SSOperation) /\ Len(ssInflight') = Len(ssInflight) - 1
      /\ \A j \in DOMAIN ssInflight' :
            ssInflight'[j] = IF j < i THEN ssInflight[j] ELSE ssInflight[j + 1]
  BY <1>1, SSWithoutIsTheRest DEF SSResume
<1>3. UNCHANGED <<ssSyncStorage, ssDisposed, ssStored, ssClock>> /\ op.result # "pending"
  BY DEF SSResume
<1>4. /\ ssTimer' \in BOOLEAN /\ ssIntervals' \in Nat
      /\ SSNoLeakedInterval' /\ SSDisposedIsQuiet'
  <2>1. CASE UNCHANGED <<ssTimer, ssIntervals>>
    BY <1>3, <2>1 DEF SSInd, SSTypeOK, SSNoLeakedInterval, SSDisposedIsQuiet
  <2>2. CASE SSStartRefresh \/ SSStopRefresh
    BY <1>3, <2>2, SSTimerIsAccounted
  <2> QED BY <2>1, <2>2 DEF SSResume, SSResumeFailed, SSResumeStart, SSResumeTouch, SSResumeEnd,
                            SSResumeRestore
<1>5. /\ op.result = "ok" => ssSession' = SSPersisted(op) /\ ssStatus' \in {ssStatus, "connected", "disconnected"}
      /\ op.result = "failed" /\ op.kind # "restore" => UNCHANGED <<ssSession, ssStatus>>
      /\ op.result = "failed" /\ op.kind = "restore" => ssSession' = SSNone /\ ssStatus' = "disconnected"
      /\ ssStatus' = "connected" => ssSession' # SSNone
  <2>1. op.kind \in {"start", "touch"} => op.arg # SSNone
    BY DEF SSInd, SSSavesASession
  <2>2. ssStatus = "connected" => ssSession # SSNone
    BY DEF SSInd, SSConnectedHasSession
  <2>3. CASE op.result = "failed"
    BY <2>2, <2>3 DEF SSResume, SSResumeFailed
  <2>4. CASE op.result # "failed"
    BY <2>1, <2>4 DEF SSResume, SSResumeStart, SSResumeTouch, SSResumeEnd, SSResumeRestore, SSPersisted
  <2> QED BY <2>3, <2>4
<1>6. ssEnded' \in BOOLEAN
  BY DEF SSInd, SSTypeOK, SSResume, SSResumeFailed, SSResumeStart, SSResumeTouch, SSResumeEnd,
         SSResumeRestore
<1>7. /\ ssSession' \in SSSession \cup {SSNone}
      /\ ssStatus' \in {"loading", "connected", "disconnected"}
  BY <1>1, <1>3, <1>5 DEF SSInd, SSTypeOK, SSPersisted, SSOperation
<1>8. SSTypeOK'
  BY <1>1, <1>2, <1>3, <1>4, <1>6, <1>7, SSBoundsAssumption DEF SSInd, SSTypeOK
<1>9. \A j \in DOMAIN ssInflight' : \E k \in DOMAIN ssInflight : ssInflight'[j] = ssInflight[k]
  BY <1>1, <1>2
<1>10. SSSavesASession' /\ SSSettledAtOnce'
  BY <1>3, <1>9 DEF SSInd, SSSavesASession, SSSettledAtOnce
<1>11. SSConnectedHasSession'
  BY <1>5 DEF SSConnectedHasSession
<1>12. SSLastEffectPersists'
  <2> SUFFICES ASSUME ssSyncStorage PROVE SSLastEffectPersists'
    BY <1>3 DEF SSLastEffectPersists
  <2> DEFINE n == Len(ssInflight)
  <2>1. i = 1 /\ DOMAIN ssInflight = 1..n /\ DOMAIN ssInflight' = 1..(n - 1) /\ n \in Nat
    BY <1>1, <1>2 DEF SSResume, SSMayResume
  <2>2. \A j \in 1..(n - 1) : ssInflight'[j] = ssInflight[j + 1]
    BY <1>2, <2>1
  <2>3. ASSUME NEW j \in 1..(n - 1), ssInflight'[j].result = "ok",
               \A k \in 1..(n - 1) : k > j => ssInflight'[k].result = "failed"
        PROVE  ssStored' = SSPersisted(ssInflight'[j])
    <3>1. ASSUME NEW k \in 1..n, k > j + 1 PROVE ssInflight[k].result = "failed"
      <4>1. k - 1 \in 1..(n - 1) /\ k - 1 > j /\ (k - 1) + 1 = k
        BY <2>1, <3>1
      <4> QED BY <2>2, <2>3, <4>1
    <3>2. j + 1 \in 1..n /\ ssInflight[j + 1].result = "ok"
      BY <2>1, <2>2, <2>3
    <3>3. ssStored = SSPersisted(ssInflight[j + 1])
      BY <2>1, <3>1, <3>2 DEF SSInd, SSLastEffectPersists
    <3> QED BY <1>3, <2>2, <3>3 DEF SSPersisted
  <2>4. ASSUME \A j \in 1..(n - 1) : ssInflight'[j].result = "failed", ssStatus' # "loading"
        PROVE  ssSession' = ssStored'
    <3>1. ASSUME NEW k \in 1..n, k > 1 PROVE ssInflight[k].result = "failed"
      <4>1. k - 1 \in 1..(n - 1) /\ (k - 1) + 1 = k
        BY <2>1, <3>1
      <4> QED BY <2>2, <2>4, <4>1
    <3>2. CASE op.result = "ok"
      <4>1. ssStored = SSPersisted(op)
        BY <2>1, <3>1, <3>2 DEF SSInd, SSLastEffectPersists
      <4> QED BY <1>3, <1>5, <3>2, <4>1
    <3>3. CASE op.result = "failed"
      <4>1. op.kind # "restore"
        BY <3>3 DEF SSInd, SSSettledAtOnce
      <4>2. \A k \in 1..n : ssInflight[k].result = "failed"
        BY <2>1, <3>1, <3>3
      <4> QED BY <1>3, <1>5, <2>1, <2>4, <3>3, <4>1, <4>2 DEF SSInd, SSLastEffectPersists
    <3> QED BY <1>1, <1>3, <3>2, <3>3 DEF SSOperation
  <2> QED BY <2>1, <2>3, <2>4 DEF SSLastEffectPersists, SSPersisted
<1> QED BY <1>4, <1>8, <1>10, <1>11, <1>12 DEF SSInd

\* The store starts empty and loading.
LEMMA SSInitInd == SSInit => SSInd
<1> SUFFICES ASSUME SSInit PROVE SSInd
  OBVIOUS
<1>1. SSTypeOK
  <2>1. ssStored \in SSSession \cup {SSNone} /\ ssClock \in 0..SSMaxClock
    BY SSBoundsAssumption DEF SSInit, SSSession
  <2>2. ssInflight \in Seq(SSOperation) /\ Len(ssInflight) <= SSMaxInFlight
    BY SSBoundsAssumption DEF SSInit
  <2> QED BY <2>1, <2>2 DEF SSInit, SSTypeOK
<1>2. SSDisposedIsQuiet /\ SSNoLeakedInterval /\ SSConnectedHasSession
  BY DEF SSInit, SSDisposedIsQuiet, SSNoLeakedInterval, SSConnectedHasSession
<1>3. SSSavesASession /\ SSSettledAtOnce /\ SSLastEffectPersists
  BY DEF SSInit, SSSavesASession, SSSettledAtOnce, SSLastEffectPersists
<1> QED BY <1>1, <1>2, <1>3 DEF SSInd

\* Every step of the store keeps the invariant.
LEMMA SSNextInd == SSInd /\ [SSNext]_ssVars => SSInd'
<1> SUFFICES ASSUME SSInd, [SSNext]_ssVars PROVE SSInd'
  OBVIOUS
<1> DEFINE Others == UNCHANGED <<ssSyncStorage, ssSession, ssStatus, ssTimer, ssIntervals, ssDisposed, ssClock>>
<1>1. ASSUME NEW op \in SSOperation, op.result = "pending", SSAwait(op), Others, ssEnded' \in BOOLEAN,
             op.kind \in {"start", "touch"} => op.arg # SSNone
      PROVE  SSInd'
  <2>1. /\ ssInflight' \in Seq(SSOperation) /\ Len(ssInflight') <= SSMaxInFlight
        /\ ssStored' \in SSSession \cup {SSNone}
        /\ SSSavesASession' /\ SSSettledAtOnce' /\ SSLastEffectPersists'
    BY <1>1, SSAwaitKeepsTheQueue
  <2>2. SSTypeOK' /\ SSDisposedIsQuiet' /\ SSNoLeakedInterval' /\ SSConnectedHasSession'
    BY <1>1, <2>1 DEF SSInd, SSTypeOK, SSDisposedIsQuiet, SSNoLeakedInterval, SSConnectedHasSession
  <2> QED BY <2>1, <2>2 DEF SSInd
<1> HIDE DEF Others
<1>2. ASSUME NEW a \in SSAccounts, SSStart(a) PROVE SSInd'
  <2> DEFINE op == SSOp("start", [account |-> a, lastActiveAt |-> ssClock])
  <2>1. op \in SSOperation /\ op.result = "pending" /\ op.arg # SSNone
    BY SSNoneAssumption DEF SSInd, SSTypeOK, SSOp, SSOperation, SSSession
  <2>2. SSAwait(op) /\ Others /\ ssEnded' \in BOOLEAN
    BY <1>2 DEF SSStart, Others
  <2> HIDE DEF op
  <2> QED BY <1>1, <2>1, <2>2
<1>3. ASSUME SSTouch PROVE SSInd'
  <2> DEFINE op == SSOp("touch", [ssSession EXCEPT !.lastActiveAt = ssClock])
  <2>1. [ssSession EXCEPT !.lastActiveAt = ssClock] \in SSSession
    BY <1>3 DEF SSTouch, SSInd, SSTypeOK, SSSession
  <2>2. op \in SSOperation /\ op.result = "pending" /\ op.arg # SSNone
    BY <2>1, SSNoneAssumption DEF SSOp, SSOperation
  <2>3. SSAwait(op) /\ Others /\ ssEnded' \in BOOLEAN
    BY <1>3 DEF SSTouch, Others, SSInd, SSTypeOK
  <2> HIDE DEF op
  <2> QED BY <1>1, <2>2, <2>3
<1>4. ASSUME SSIntervalFires PROVE SSInd'
  BY <1>3, <1>4 DEF SSIntervalFires
<1>5. ASSUME SSEnd PROVE SSInd'
  <2> DEFINE op == SSOp("end", SSNone)
  <2>1. op \in SSOperation /\ op.result = "pending" /\ op.kind = "end"
    BY DEF SSOp, SSOperation
  <2>2. SSAwait(op) /\ Others /\ ssEnded' \in BOOLEAN
    BY <1>5 DEF SSEnd, Others, SSInd, SSTypeOK
  <2> HIDE DEF op
  <2> QED BY <1>1, <2>1, <2>2
<1>6. ASSUME SSRestore PROVE SSInd'
  <2> DEFINE op == SSOp("restore", SSNone)
  <2>1. op \in SSOperation /\ op.result = "pending" /\ op.kind = "restore"
    BY DEF SSOp, SSOperation
  <2>2. SSAwait(op) /\ Others /\ ssEnded' \in BOOLEAN
    BY <1>6 DEF SSRestore, Others, SSInd, SSTypeOK
  <2> HIDE DEF op
  <2> QED BY <1>1, <2>1, <2>2
<1>7. ASSUME SSDispose PROVE SSInd'
  <2>1. ssTimer' \in BOOLEAN /\ ssIntervals' \in Nat /\ SSNoLeakedInterval' /\ SSDisposedIsQuiet'
    BY <1>7, SSTimerIsAccounted DEF SSDispose
  <2>2. SSTypeOK' /\ SSConnectedHasSession'
    BY <1>7, <2>1 DEF SSDispose, SSInd, SSTypeOK, SSConnectedHasSession
  <2>3. SSSavesASession' /\ SSSettledAtOnce' /\ SSLastEffectPersists'
    BY <1>7 DEF SSDispose, SSInd, SSSavesASession, SSSettledAtOnce, SSLastEffectPersists, SSPersisted
  <2> QED BY <2>1, <2>2, <2>3 DEF SSInd
<1>8. ASSUME SSClockTicks PROVE SSInd'
  <2>1. SSTypeOK'
    BY <1>8, SSBoundsAssumption DEF SSClockTicks, SSInd, SSTypeOK
  <2>2. SSSavesASession' /\ SSSettledAtOnce' /\ SSLastEffectPersists'
    BY <1>8 DEF SSClockTicks, SSInd, SSSavesASession, SSSettledAtOnce, SSLastEffectPersists, SSPersisted
  <2>3. SSDisposedIsQuiet' /\ SSNoLeakedInterval' /\ SSConnectedHasSession'
    BY <1>8 DEF SSClockTicks, SSInd, SSDisposedIsQuiet, SSNoLeakedInterval, SSConnectedHasSession
  <2> QED BY <2>1, <2>2, <2>3 DEF SSInd
<1>9. ASSUME UNCHANGED ssVars PROVE SSInd'
  <2>1. SSSavesASession' /\ SSSettledAtOnce' /\ SSLastEffectPersists'
    BY <1>9 DEF ssVars, SSInd, SSSavesASession, SSSettledAtOnce, SSLastEffectPersists, SSPersisted
  <2>2. SSTypeOK' /\ SSDisposedIsQuiet' /\ SSNoLeakedInterval' /\ SSConnectedHasSession'
    BY <1>9 DEF ssVars, SSInd, SSTypeOK, SSDisposedIsQuiet, SSNoLeakedInterval, SSConnectedHasSession
  <2> QED BY <2>1, <2>2 DEF SSInd
<1>10. ASSUME NEW i \in DOMAIN ssInflight, SSStorageActs(i) \/ SSResume(i) PROVE SSInd'
  BY <1>10, SSStorageActsKeepsTheQueue, SSResumeKeepsTheInvariant
<1> QED BY <1>2, <1>3, <1>4, <1>5, <1>6, <1>7, <1>8, <1>9, <1>10 DEF SSNext

\* session.ts, for every number of overlapping calls and either kind of storage:
\* a disposed store is quiet, no interval leaks, a connected store has a session,
\* and with the web or memory adapter the last call wins in memory and on disk.
THEOREM SessionStoreIsConsistent == SSSpec => []SSStoreIsConsistent
<1>1. SSInd => SSStoreIsConsistent
  <2> SUFFICES ASSUME SSInd PROVE SSStoreIsConsistent
    OBVIOUS
  <2>1. SSStorageAgrees
    BY DEF SSInd, SSLastEffectPersists, SSStorageAgrees
  <2> QED BY <2>1 DEF SSInd, SSStoreIsConsistent
<1> QED BY <1>1, SSInitInd, SSNextInd, PTL DEF SSSpec

-----------------------------------------------------------------------------
(* The passkey connector. *)

\* What a suspended connector call carries is good for what it will do: a
\* rotation is about a wallet on chain and, once its own key is minted, it will
\* revoke an older key than the active one.
PCCallsAreSound ==
    \A c \in PCCalls :
        /\ pcPc[c] \in {"minting", "revoking"} => pcContract[c] \in pcDeployed
        /\ pcPc[c] = "submitting" => pcContract[c] \in PCWallets
        /\ pcPc[c] = "minting" => pcPrevious[c] <= pcMinted /\ pcTarget[c] = pcContract[c]
        /\ pcPc[c] = "revoking" => pcPrevious[c] # 0 /\ pcPrevious[c] < pcActive

\* Without overlap at most one call is in progress, the key it is about to
\* replace is the active one, and after its mint the active one is its wallet's.
PCOneAtATime ==
    ~pcOverlapped => \A c \in PCCalls :
        /\ pcPc[c] = "minting" => pcPrevious[c] = pcActive
        /\ pcPc[c] = "revoking" => pcOwner[pcActive] = pcContract[c]
        /\ \A d \in PCCalls : pcPc[c] # "idle" /\ pcPc[d] # "idle" => c = d

\* The inductive invariant of the connector.
PCInd == /\ PCTypeOK /\ PCSessionsAreUsable /\ PCCallsAreSound
         /\ PCOneAtATime /\ PCStaleKeysAreExplained

\* The connector starts with no call, no key and no session.
LEMMA PCInitInd == PCInit => PCInd
<1> SUFFICES ASSUME PCInit PROVE PCInd
  OBVIOUS
<1>1. PCTypeOK
  <2>1. /\ pcPrevious \in [PCCalls -> 0..PCMaxKeys] /\ pcFresh \in [PCCalls -> 0..PCMaxKeys]
        /\ pcMinted \in 0..PCMaxKeys /\ pcActive \in 0..pcMinted
    BY PCBoundsAssumption DEF PCInit
  <2>2. /\ pcPc \in [PCCalls -> {"idle", "registering", "submitting", "ceremony", "minting", "revoking"}]
        /\ pcContract \in [PCCalls -> PCWallets \cup {PCNone}]
        /\ pcTarget \in [PCCalls -> PCWallets \cup {PCNone}]
        /\ pcOwner \in [PCKeys -> PCWallets \cup {PCNone}]
    BY DEF PCInit
  <2> QED BY <2>1, <2>2, PCWalletsAssumption DEF PCInit, PCTypeOK
<1>2. PCSessionsAreUsable
  BY DEF PCInit, PCSessionsAreUsable, PCReportedWalletsAreDeployed, PCActiveKeyIsValid,
         PCActiveKeyIsTheSessions
<1>3. PCCallsAreSound /\ PCOneAtATime /\ PCStaleKeysAreExplained
  BY DEF PCInit, PCCallsAreSound, PCOneAtATime, PCStaleKeysAreExplained
<1> QED BY <1>1, <1>2, <1>3 DEF PCInd

\* A call begins: no wallet, key or session is touched.
LEMMA PCBeginKeepsTheInvariant ==
    ASSUME PCInd, NEW c \in PCCalls, NEW where \in {"registering", "ceremony"}, PCBegin(c, where)
    PROVE  PCInd'
<1>1. PCTypeOK'
  BY DEF PCInd, PCTypeOK, PCBegin, pcRotationVars
<1>2. PCSessionsAreUsable' /\ PCCallsAreSound'
  BY DEF PCInd, PCTypeOK, PCBegin, pcRotationVars, PCSessionsAreUsable, PCReportedWalletsAreDeployed,
         PCActiveKeyIsValid, PCActiveKeyIsTheSessions, PCCallsAreSound
<1>3. PCOneAtATime'
  BY DEF PCInd, PCTypeOK, PCBegin, pcRotationVars, PCActive, PCOneAtATime
<1>4. PCStaleKeysAreExplained'
  BY DEF PCInd, PCTypeOK, PCBegin, pcRotationVars, PCStaleKeysAreExplained
<1> QED BY <1>1, <1>2, <1>3, <1>4 DEF PCInd

\* A step that only moves one call, outside a rotation, to another place or back
\* to its caller, possibly deploying or reporting a wallet.
LEMMA PCRegisterKeepsTheInvariant ==
    ASSUME PCInd, NEW c \in PCCalls, PCRegisterDone(c) \/ PCSubmitDone(c)
    PROVE  PCInd'
<1>1. /\ UNCHANGED <<pcTarget, pcPrevious, pcFresh, pcActive, pcMinted, pcOwner, pcValid, pcSurvivors,
                     pcUnrevoked, pcLapsed, pcOverlapped>>
      /\ pcPc[c] \in {"registering", "submitting"}
      /\ \E where \in {"idle", "submitting"} : pcPc' = [pcPc EXCEPT ![c] = where]
  BY DEF PCRegisterDone, PCSubmitDone, PCReturn, pcRotationVars
<1>2. /\ pcDeployed \subseteq pcDeployed' /\ pcDeployed' \subseteq PCWallets
      /\ pcSessions' \subseteq pcDeployed' /\ pcRotated' \in {pcRotated, PCNone}
  BY DEF PCInd, PCTypeOK, PCSessionsAreUsable, PCReportedWalletsAreDeployed, PCCallsAreSound,
         PCRegisterDone, PCSubmitDone
<1>3. /\ pcContract' \in [PCCalls -> PCWallets \cup {PCNone}]
      /\ pcKitWallet' \in PCWallets \cup {PCNone}
      /\ \A d \in PCCalls : d # c => pcContract'[d] = pcContract[d]
      /\ pcPc'[c] = "submitting" => pcContract'[c] \in PCWallets
  BY DEF PCInd, PCTypeOK, PCRegisterDone, PCSubmitDone, PCReturn
<1>4. PCTypeOK'
  BY <1>1, <1>2, <1>3 DEF PCInd, PCTypeOK
<1>5. PCSessionsAreUsable'
  <2>1. PCActiveKeyIsTheSessions'
    BY <1>1, <1>2 DEF PCInd, PCTypeOK, PCSessionsAreUsable, PCActiveKeyIsTheSessions
  <2> QED BY <1>1, <1>2, <2>1 DEF PCInd, PCSessionsAreUsable, PCReportedWalletsAreDeployed,
                                  PCActiveKeyIsValid
<1>6. PCCallsAreSound'
  BY <1>1, <1>2, <1>3 DEF PCInd, PCTypeOK, PCCallsAreSound
<1>7. PCOneAtATime'
  BY <1>1 DEF PCInd, PCTypeOK, PCOneAtATime
<1>8. PCStaleKeysAreExplained'
  BY <1>1 DEF PCInd, PCTypeOK, PCStaleKeysAreExplained
<1> QED BY <1>4, <1>5, <1>6, <1>7, <1>8 DEF PCInd

\* The ceremony ends: the rotation it may start notes the key that is active.
LEMMA PCCeremonyKeepsTheInvariant ==
    ASSUME PCInd, NEW c \in PCCalls, PCCeremonyDone(c)
    PROVE  PCInd'
<1>1. PCTypeOK'
  BY PCBoundsAssumption DEF PCInd, PCTypeOK, PCCeremonyDone, PCReturn
<1>2. PCSessionsAreUsable'
  BY DEF PCInd, PCTypeOK, PCCeremonyDone, PCReturn, PCSessionsAreUsable, PCReportedWalletsAreDeployed,
         PCActiveKeyIsValid, PCActiveKeyIsTheSessions
<1>3. PCCallsAreSound'
  BY DEF PCInd, PCTypeOK, PCCeremonyDone, PCReturn, PCCallsAreSound
<1>4. PCOneAtATime'
  BY DEF PCInd, PCTypeOK, PCCeremonyDone, PCReturn, PCOneAtATime
<1>5. PCStaleKeysAreExplained'
  BY DEF PCInd, PCTypeOK, PCCeremonyDone, PCReturn, PCStaleKeysAreExplained
<1> QED BY <1>1, <1>2, <1>3, <1>4, <1>5 DEF PCInd

\* A mint that reached the chain: one more key, on the call's wallet.
LEMMA PCMintOnChainIsTyped ==
    ASSUME PCInd, NEW c \in PCCalls, PCMintOnChain(c)
    PROVE  /\ pcMinted' = pcMinted + 1 /\ pcMinted' \in 1..PCMaxKeys
           /\ pcOwner' \in [PCKeys -> PCWallets \cup {PCNone}]
           /\ pcValid' = pcValid \cup {pcMinted + 1} /\ pcValid' \subseteq 1..pcMinted'
           /\ pcOwner'[pcMinted + 1] = pcTarget[c]
BY PCBoundsAssumption DEF PCInd, PCTypeOK, PCMintOnChain, PCKeys

\* mint() resolves: the fresh key is a signer before it becomes the active one,
\* and the one it replaces is on its way to be revoked.
LEMMA PCMintResolvedKeepsTheInvariant ==
    ASSUME PCInd, NEW c \in PCCalls, PCMintDone(c), PCMintResolved(c)
    PROVE  PCInd'
<1>1. /\ pcMinted \in Nat /\ pcMinted' = pcMinted + 1 /\ pcMinted' \in 1..PCMaxKeys
      /\ pcOwner' \in [PCKeys -> PCWallets \cup {PCNone}]
      /\ pcValid' = pcValid \cup {pcMinted + 1} /\ pcValid' \subseteq 1..pcMinted'
      /\ pcOwner'[pcMinted + 1] = pcTarget[c]
  BY PCMintOnChainIsTyped, PCBoundsAssumption DEF PCMintResolved, PCInd, PCTypeOK
<1>2. /\ pcPc[c] = "minting" /\ pcActive' = pcMinted + 1
      /\ UNCHANGED <<pcContract, pcPrevious, pcKitWallet, pcDeployed, pcUnrevoked, pcLapsed,
                     pcOverlapped, pcSurvivors>>
      /\ pcContract[c] \in pcDeployed /\ pcPrevious[c] <= pcMinted /\ pcTarget[c] = pcContract[c]
  BY DEF PCMintDone, PCMintResolved, PCInd, PCCallsAreSound
<1>3. /\ pcPrevious[c] = 0 => pcPc' = [pcPc EXCEPT ![c] = "idle"] /\ pcTarget' = pcTarget
                               /\ pcSessions' = pcSessions \cup {pcContract[c]} /\ pcRotated' = pcContract[c]
      /\ pcPrevious[c] # 0 => /\ pcPc' = [pcPc EXCEPT ![c] = "revoking"] /\ pcSessions' = pcSessions
                               /\ pcRotated' = pcRotated
                               /\ pcTarget' = [pcTarget EXCEPT ![c] = pcKitWallet]
  BY DEF PCMintResolved, PCConnected, PCReturn
<1>4. PCTypeOK'
  <2>1. /\ pcPc' \in [PCCalls -> {"idle", "registering", "submitting", "ceremony", "minting", "revoking"}]
        /\ pcTarget' \in [PCCalls -> PCWallets \cup {PCNone}]
        /\ pcSessions' \subseteq PCWallets /\ pcRotated' \in PCWallets \cup {PCNone}
    BY <1>2, <1>3 DEF PCInd, PCTypeOK
  <2>2. pcFresh' \in [PCCalls -> 0..PCMaxKeys] /\ pcActive' \in 0..pcMinted'
    BY <1>1, <1>2 DEF PCInd, PCTypeOK, PCMintResolved
  <2>3. 1..pcMinted \subseteq 1..pcMinted' /\ pcMinted' \in 0..PCMaxKeys
    BY <1>1
  <2> QED BY <1>1, <1>2, <2>1, <2>2, <2>3 DEF PCInd, PCTypeOK
<1>5. PCSessionsAreUsable'
  <2>1. PCActiveKeyIsTheSessions'
    <3>1. CASE pcPrevious[c] = 0
      BY <1>1, <1>2, <1>3, <3>1 DEF PCActiveKeyIsTheSessions
    <3>2. CASE pcPrevious[c] # 0
      BY <1>3, <3>2 DEF PCInd, PCTypeOK, PCActiveKeyIsTheSessions
    <3> QED BY <3>1, <3>2
  <2> QED BY <1>1, <1>2, <1>3, <2>1 DEF PCInd, PCSessionsAreUsable, PCReportedWalletsAreDeployed,
                                        PCActiveKeyIsValid
<1>6. PCCallsAreSound'
  <2> SUFFICES ASSUME NEW d \in PCCalls
               PROVE  /\ pcPc'[d] \in {"minting", "revoking"} => pcContract'[d] \in pcDeployed'
                      /\ pcPc'[d] = "submitting" => pcContract'[d] \in PCWallets
                      /\ pcPc'[d] = "minting" => pcPrevious'[d] <= pcMinted' /\ pcTarget'[d] = pcContract'[d]
                      /\ pcPc'[d] = "revoking" => pcPrevious'[d] # 0 /\ pcPrevious'[d] < pcActive'
    BY DEF PCCallsAreSound
  <2>1. pcPrevious[d] \in Nat /\ pcActive \in Nat /\ pcActive <= pcMinted
    BY <1>1, PCBoundsAssumption DEF PCInd, PCTypeOK
  <2>2. CASE d = c
    BY <1>1, <1>2, <1>3, <2>1, <2>2 DEF PCInd, PCTypeOK
  <2>3. CASE d # c
    BY <1>1, <1>2, <1>3, <2>1, <2>3 DEF PCInd, PCTypeOK, PCCallsAreSound
  <2> QED BY <2>2, <2>3
<1>7. PCOneAtATime'
  <2> SUFFICES ASSUME ~pcOverlapped', NEW d \in PCCalls
               PROVE  /\ pcPc'[d] = "minting" => pcPrevious'[d] = pcActive'
                      /\ pcPc'[d] = "revoking" => pcOwner'[pcActive'] = pcContract'[d]
                      /\ \A e \in PCCalls : pcPc'[d] # "idle" /\ pcPc'[e] # "idle" => d = e
    BY DEF PCOneAtATime
  <2>1. \A e \in PCCalls : pcPc'[e] # "idle" => e = c
    BY <1>2, <1>3 DEF PCInd, PCTypeOK, PCOneAtATime
  <2>2. pcPc'[c] # "minting"
    BY <1>3 DEF PCInd, PCTypeOK
  <2> QED BY <1>1, <1>2, <2>1, <2>2
<1>8. PCStaleKeysAreExplained'
  <2> SUFFICES ASSUME ~pcOverlapped, NEW k \in pcValid'
               PROVE  \/ k = pcActive' \/ k \in pcSurvivors' \cup pcUnrevoked'
                      \/ \E d \in PCCalls : pcPc'[d] = "revoking" /\ pcPrevious'[d] = k
    BY <1>2 DEF PCStaleKeysAreExplained
  <2>1. CASE k = pcMinted + 1
    BY <1>2, <2>1
  <2>2. CASE k \in pcValid /\ k = pcActive
    <3>1. pcPrevious[c] = k /\ k # 0
      BY <1>2, <2>2 DEF PCInd, PCTypeOK, PCOneAtATime
    <3> QED BY <1>2, <1>3, <3>1 DEF PCInd, PCTypeOK
  <2>3. CASE k \in pcValid /\ k # pcActive
    <3>1. ASSUME NEW d \in PCCalls, pcPc[d] = "revoking" PROVE FALSE
      BY <1>2, <3>1 DEF PCInd, PCOneAtATime
    <3> QED BY <1>2, <2>3, <3>1 DEF PCInd, PCStaleKeysAreExplained
  <2> QED BY <1>1, <2>1, <2>2, <2>3
<1> QED BY <1>4, <1>5, <1>6, <1>7, <1>8 DEF PCInd

\* mint() rejects: the old key stays, and a new one that reached the chain all
\* the same is known to survive.
LEMMA PCMintRejectedKeepsTheInvariant ==
    ASSUME PCInd, NEW c \in PCCalls, PCMintDone(c), PCMintRejected(c)
    PROVE  PCInd'
<1>1. /\ pcPc[c] = "minting" /\ pcContract[c] \in pcDeployed
      /\ UNCHANGED <<pcContract, pcPrevious, pcKitWallet, pcDeployed, pcUnrevoked, pcLapsed,
                     pcOverlapped, pcActive, pcFresh, pcTarget>>
      /\ pcPc' = [pcPc EXCEPT ![c] = "idle"] /\ pcSessions' = pcSessions \cup {pcContract[c]}
      /\ pcRotated' = PCNone
  BY DEF PCMintDone, PCMintRejected, PCConnected, PCReturn, PCInd, PCCallsAreSound
<1>2. /\ pcMinted \in 0..PCMaxKeys /\ pcMinted' \in 0..PCMaxKeys /\ pcMinted <= pcMinted'
      /\ pcOwner' \in [PCKeys -> PCWallets \cup {PCNone}]
      /\ pcValid \subseteq pcValid' /\ pcValid' \subseteq 1..pcMinted'
      /\ pcSurvivors \subseteq pcSurvivors' /\ pcSurvivors' \subseteq 1..pcMinted'
      /\ pcValid' \ pcValid \subseteq pcSurvivors'
  <2>1. pcMinted \in 0..PCMaxKeys /\ pcValid \subseteq 1..pcMinted /\ pcSurvivors \subseteq 1..pcMinted
        /\ pcOwner \in [PCKeys -> PCWallets \cup {PCNone}]
    BY DEF PCInd, PCTypeOK
  <2>2. CASE PCMintOnChain(c) /\ pcSurvivors' = pcSurvivors \cup {pcMinted + 1}
    BY <2>1, <2>2, PCMintOnChainIsTyped, PCBoundsAssumption
  <2>3. CASE UNCHANGED <<pcMinted, pcOwner, pcValid, pcSurvivors>>
    BY <2>1, <2>3, PCBoundsAssumption
  <2> QED BY <2>2, <2>3 DEF PCMintRejected
<1>3. PCTypeOK'
  <2>1. 1..pcMinted \subseteq 1..pcMinted' /\ 0..pcMinted \subseteq 0..pcMinted'
    BY <1>2, PCBoundsAssumption
  <2>2. /\ pcPc' \in [PCCalls -> {"idle", "registering", "submitting", "ceremony", "minting", "revoking"}]
        /\ pcSessions' \subseteq PCWallets
    BY <1>1 DEF PCInd, PCTypeOK
  <2> QED BY <1>1, <1>2, <2>1, <2>2 DEF PCInd, PCTypeOK
<1>4. PCSessionsAreUsable'
  BY <1>1, <1>2 DEF PCInd, PCSessionsAreUsable, PCReportedWalletsAreDeployed, PCActiveKeyIsValid,
         PCActiveKeyIsTheSessions
<1>5. PCCallsAreSound'
  BY <1>1, <1>2, PCBoundsAssumption DEF PCInd, PCTypeOK, PCCallsAreSound
<1>6. PCOneAtATime'
  BY <1>1 DEF PCInd, PCTypeOK, PCOneAtATime
<1>7. PCStaleKeysAreExplained'
  BY <1>1, <1>2 DEF PCInd, PCTypeOK, PCStaleKeysAreExplained
<1> QED BY <1>3, <1>4, <1>5, <1>6, <1>7 DEF PCInd

\* revoke() ends: the key it may have removed is older than the active one.
LEMMA PCRevokeKeepsTheInvariant ==
    ASSUME PCInd, NEW c \in PCCalls, PCRevokeDone(c)
    PROVE  PCInd'
<1>1. /\ pcPc[c] = "revoking" /\ pcContract[c] \in pcDeployed
      /\ UNCHANGED <<pcContract, pcTarget, pcPrevious, pcFresh, pcActive, pcKitWallet, pcMinted, pcOwner,
                     pcDeployed, pcSurvivors, pcOverlapped>>
      /\ pcPc' = [pcPc EXCEPT ![c] = "idle"] /\ pcSessions' = pcSessions \cup {pcContract[c]}
      /\ pcRotated' = pcContract[c]
  BY DEF PCRevokeDone, PCConnected, PCReturn, PCInd, PCCallsAreSound
<1>2. pcPrevious[c] \in 1..pcMinted /\ pcPrevious[c] < pcActive /\ pcActive \in Nat
  BY <1>1, PCBoundsAssumption DEF PCInd, PCTypeOK, PCCallsAreSound
<1>3. /\ pcValid' \subseteq pcValid /\ pcValid \ {pcPrevious[c]} \subseteq pcValid'
      /\ pcPrevious[c] \in pcValid' => pcPrevious[c] \in pcUnrevoked'
      /\ pcUnrevoked \subseteq pcUnrevoked' /\ pcUnrevoked' \subseteq pcUnrevoked \cup {pcPrevious[c]}
      /\ pcLapsed' \subseteq pcUnrevoked'
  BY DEF PCRevokeDone, PCRevokedKey, PCInd, PCTypeOK
<1>4. PCTypeOK'
  <2>1. /\ pcPc' \in [PCCalls -> {"idle", "registering", "submitting", "ceremony", "minting", "revoking"}]
        /\ pcSessions' \subseteq PCWallets
    BY <1>1 DEF PCInd, PCTypeOK
  <2> QED BY <1>1, <1>2, <1>3, <2>1 DEF PCInd, PCTypeOK
<1>5. PCSessionsAreUsable'
  <2>1. PCActiveKeyIsTheSessions'
    BY <1>1, <1>2 DEF PCInd, PCOneAtATime, PCActiveKeyIsTheSessions
  <2> QED BY <1>1, <1>2, <1>3, <2>1 DEF PCInd, PCSessionsAreUsable, PCReportedWalletsAreDeployed,
                                        PCActiveKeyIsValid
<1>6. PCCallsAreSound'
  BY <1>1 DEF PCInd, PCTypeOK, PCCallsAreSound
<1>7. PCOneAtATime'
  BY <1>1 DEF PCInd, PCTypeOK, PCOneAtATime
<1>8. PCStaleKeysAreExplained'
  <2> SUFFICES ASSUME ~pcOverlapped, NEW k \in pcValid'
               PROVE  \/ k = pcActive \/ k \in pcSurvivors \cup pcUnrevoked'
                      \/ \E d \in PCCalls : pcPc'[d] = "revoking" /\ pcPrevious[d] = k
    BY <1>1 DEF PCStaleKeysAreExplained
  <2>1. CASE k = pcPrevious[c]
    BY <1>3, <2>1
  <2>2. CASE k # pcPrevious[c]
    <3>1. k \in pcValid
      BY <1>3
    <3>2. ASSUME NEW d \in PCCalls, pcPc[d] = "revoking", pcPrevious[d] = k PROVE pcPc'[d] = "revoking"
      BY <1>1, <2>2, <3>2 DEF PCInd, PCTypeOK
    <3> QED BY <1>3, <3>1, <3>2 DEF PCInd, PCStaleKeysAreExplained
  <2> QED BY <2>1, <2>2
<1> QED BY <1>4, <1>5, <1>6, <1>7, <1>8 DEF PCInd

\* A page load forgets the calls and the active key, and says so of the keys.
LEMMA PCPageLoadKeepsTheInvariant ==
    ASSUME PCInd, PCPageLoad
    PROVE  PCInd'
<1>1. PCTypeOK'
  BY PCBoundsAssumption DEF PCInd, PCTypeOK, PCPageLoad
<1>2. PCSessionsAreUsable'
  BY DEF PCInd, PCPageLoad, PCSessionsAreUsable, PCReportedWalletsAreDeployed, PCActiveKeyIsValid,
         PCActiveKeyIsTheSessions
<1>3. PCCallsAreSound' /\ PCOneAtATime'
  BY DEF PCPageLoad, PCCallsAreSound, PCOneAtATime
<1>4. PCStaleKeysAreExplained'
  BY DEF PCPageLoad, PCStaleKeysAreExplained
<1> QED BY <1>1, <1>2, <1>3, <1>4 DEF PCInd

\* Every step of the connector keeps the invariant.
LEMMA PCNextInd == PCInd /\ [PCNext]_pcVars => PCInd'
<1> SUFFICES ASSUME PCInd, [PCNext]_pcVars PROVE PCInd'
  OBVIOUS
<1>1. ASSUME NEW c \in PCCalls, PCCreateWallet(c) \/ PCConnectWallet(c) PROVE PCInd'
  BY <1>1, PCBeginKeepsTheInvariant DEF PCCreateWallet, PCConnectWallet
<1>2. ASSUME NEW c \in PCCalls, PCRegisterDone(c) \/ PCSubmitDone(c) PROVE PCInd'
  BY <1>2, PCRegisterKeepsTheInvariant
<1>3. ASSUME NEW c \in PCCalls, PCCeremonyDone(c) PROVE PCInd'
  BY <1>3, PCCeremonyKeepsTheInvariant
<1>4. ASSUME NEW c \in PCCalls, PCMintDone(c) PROVE PCInd'
  <2>1. PCMintResolved(c) \/ PCMintRejected(c)
    BY <1>4 DEF PCMintDone
  <2> QED BY <1>4, <2>1, PCMintResolvedKeepsTheInvariant, PCMintRejectedKeepsTheInvariant
<1>5. ASSUME NEW c \in PCCalls, PCRevokeDone(c) PROVE PCInd'
  BY <1>5, PCRevokeKeepsTheInvariant
<1>6. ASSUME PCPageLoad PROVE PCInd'
  BY <1>6, PCPageLoadKeepsTheInvariant
<1>7. ASSUME UNCHANGED pcVars PROVE PCInd'
  BY <1>7 DEF pcVars, PCInd, PCTypeOK, PCSessionsAreUsable, PCReportedWalletsAreDeployed,
              PCActiveKeyIsValid, PCActiveKeyIsTheSessions, PCCallsAreSound, PCOneAtATime, PCStaleKeysAreExplained
<1> QED BY <1>1, <1>2, <1>3, <1>4, <1>5, <1>6, <1>7 DEF PCNext

\* passkeykit-connector.ts: whatever calls overlap and whatever fails, a reported
\* wallet is on chain and the active session key is a signer on chain; with calls
\* one at a time, once a connect that minted returned its session, the active key
\* is a signer of that session's wallet.
THEOREM ConnectorSessionsAreUsable == PCSpec => []PCSessionsAreUsable
<1>1. PCInd => PCSessionsAreUsable
  BY DEF PCInd
<1> QED BY <1>1, PCInitInd, PCNextInd, PTL DEF PCSpec

\* passkeykit-connector.ts: connects made one at a time leave no session key on
\* chain that is not active, being revoked, or known to have survived a failure.
THEOREM ConnectorKeysAreExplained == PCSpec => []PCStaleKeysAreExplained
<1>1. PCInd => PCStaleKeysAreExplained
  BY DEF PCInd
<1> QED BY <1>1, PCInitInd, PCNextInd, PTL DEF PCSpec
=============================================================================
