----------------------------- MODULE FetchGuards -----------------------------
(***************************************************************************)
(* The wrappers contributed around one request: the x402 client's paid     *)
(* fetch (probe, 402, sign, paid retry), with a confirmation gate, a       *)
(* redirect guard, an accepts guard, a session guard on the signer, an     *)
(* abort signal, a timeout with a fallback response, a retry at a lower    *)
(* limit, telemetry and a trace; the wallet backend behind a retrying      *)
(* POST; the policy simulation and the RPC health check behind a timer.    *)
(* One run wraps one request once.  The seller is external: it prices every*)
(* challenge afresh and may redirect; so are the user, who confirms,       *)
(* aborts and switches sessions, and the network.                          *)
(***************************************************************************)
EXTENDS Integers, Sequences, FiniteSets, SequencesExt

CONSTANTS FGPrices, FGMax,     \* prices a seller asks; maxAmount
          FGThreshold,         \* confirmationThreshold
          FGLower,             \* fallbackMaxAmount
          FGHops, FGAttempts,  \* maxRedirects; maxAttempts of a retryable request
          FGConnects,          \* bound: sessions started
          FGNone

\* How a request may end.
FGOutcomes == {"unpaid", "paid", "settled", "rejected", "refused", "declined", "not signed", "session, not signed",
               "session, discarded", "redirect refused", "aborted", "aborted, not signed", "fallback",
               "ok", "retryable", "failed", "timed out"}

FGWraps == {"confirm", "redirect", "accepts", "session", "abort", "fallback", "lower", "telemetry",
            "trace", "read", "write", "simulate", "health"}

ASSUME FGAssumption == /\ FGPrices \subseteq Nat /\ FGMax \in Nat /\ FGLower \in Nat
                       /\ FGHops \in Nat /\ FGAttempts \in Nat \ {0}
                       /\ FGNone \notin FGOutcomes \cup FGWraps

VARIABLES
    fgWrap,      \* the wrapper configured
    fgPc,
    fgLimit,     \* the maxAmount the inner client runs under
    fgPrice,     \* price of the challenge in hand
    fgConfirmed, \* price the user confirmed
    fgTries,     \* redirects followed, or attempts made
    fgConnects,  \* sessions started so far; the last is the live one, if any is
    fgSession,   \* the live session (its createdAt), 0 for none
    fgBefore,    \* the session seen before signing
    fgAfter,     \* history: the session live when the signature came back
    fgAborted,
    fgSigned,    \* history: prices signed, in order
    fgSent,      \* history: origins the signed payment went to
    fgEvents,    \* telemetry events, or the steps of the trace
    fgOut        \* how the request ended

fgVars == <<fgWrap, fgPc, fgLimit, fgPrice, fgConfirmed, fgConnects, fgTries, fgSession, fgBefore, fgAfter, fgAborted,
            fgSigned, fgSent, fgEvents, fgOut>>

\* Wrappers around something else than the paid fetch.
FGPlain == {"read", "write", "simulate", "health"}

FGInit == /\ fgWrap = FGNone /\ fgPc = "idle" /\ fgLimit = FGMax /\ fgPrice = 0 /\ fgConfirmed = 0
          /\ fgConnects = 1 /\ fgTries = 0 /\ fgSession = 1 /\ fgBefore = 0 /\ fgAfter = 0 /\ fgAborted = FALSE
          /\ fgSigned = <<>> /\ fgSent = {} /\ fgEvents = <<>> /\ fgOut = FGNone

FGEnd(out) == fgPc' = "done" /\ fgOut' = out

FGTrace(steps) == fgEvents' = IF fgWrap = "trace" THEN fgEvents \o steps ELSE fgEvents

\* The call.  An aborted signal is refused before any network call; the confirmation gate
\* probes first.
FGCall == \E w \in FGWraps :
    /\ fgWrap = FGNone /\ fgWrap' = w
    /\ IF w = "abort" /\ fgAborted THEN FGEnd("aborted, not signed")
       ELSE fgPc' = (IF w = "confirm" THEN "probing" ELSE "first") /\ fgOut' = fgOut
    /\ UNCHANGED <<fgLimit, fgPrice, fgConfirmed, fgConnects, fgTries, fgSession, fgBefore, fgAfter, fgAborted, fgSigned,
                   fgSent, fgEvents>>

-----------------------------------------------------------------------------
(* withConfirmationThreshold.fetch *)

FGNeedsConfirmation(price) == price >= FGThreshold

\* The probe: no payment needed, nothing payable within maxAmount (selectRequirements
\* throws), or a price.
FGProbe == \E p \in FGPrices \cup {0} :
    /\ fgPc = "probing"
    /\ IF p > FGMax THEN FGEnd("refused") ELSE fgOut' = fgOut /\ fgPc' =
          IF p > 0 /\ FGNeedsConfirmation(p) THEN "confirming" ELSE "first"
    /\ fgPrice' = p
    /\ UNCHANGED <<fgWrap, fgLimit, fgConfirmed, fgConnects, fgTries, fgSession, fgBefore, fgAfter, fgAborted, fgSigned,
                   fgSent, fgEvents>>

\* The user approves or declines (PaymentNotConfirmedError).
FGConfirm == /\ fgPc = "confirming"
             /\ \/ fgConfirmed' = fgPrice /\ fgPc' = "first" /\ fgOut' = fgOut
                \/ fgConfirmed' = fgConfirmed /\ FGEnd("declined")
             /\ UNCHANGED <<fgWrap, fgLimit, fgPrice, fgConnects, fgTries, fgSession, fgBefore, fgAfter, fgAborted, fgSigned,
                            fgSent, fgEvents>>

-----------------------------------------------------------------------------
(* The client's fetch. *)

\* The resource needs no payment.
FGFree == /\ fgPc = "first" /\ fgWrap \notin FGPlain /\ FGEnd("unpaid") /\ FGTrace(<<"discovery">>)
          /\ UNCHANGED <<fgWrap, fgLimit, fgPrice, fgConfirmed, fgConnects, fgTries, fgSession, fgBefore, fgAfter, fgAborted,
                         fgSigned, fgSent>>

\* A challenge: over the limit is refused.
FGChallenge == \E p \in FGPrices :
    /\ fgPc = "first" /\ fgWrap \notin FGPlain
    /\ fgPrice' = p
    /\ IF p > fgLimit THEN FGEnd("refused") ELSE fgPc' = "sign" /\ fgOut' = fgOut
    /\ FGTrace(<<"discovery", "quote">>)
    /\ UNCHANGED <<fgWrap, fgLimit, fgConfirmed, fgConnects, fgTries, fgSession, fgBefore, fgAfter, fgAborted, fgSigned, fgSent>>

\* createAcceptsGuardedFetch: accepts missing, not an array or empty; a challenge that does
\* not decode is passed through and refused by the client.
FGNothingOffered == /\ fgPc = "first" /\ fgWrap = "accepts" /\ FGEnd("refused")
                    /\ UNCHANGED <<fgWrap, fgLimit, fgPrice, fgConfirmed, fgConnects, fgTries, fgSession, fgBefore, fgAfter,
                                   fgAborted, fgSigned, fgSent, fgEvents>>

\* createRedirectGuardedFetch: only within the origin the call began with.
FGFollows(to) == to = "seller"

\* A redirect, on either request: opaque, or to another origin, or one too many: refused.
FGRedirect == \E to \in {"seller", "other", "opaque"} :
    /\ fgPc \in {"first", "paid"} /\ fgWrap = "redirect"
    /\ IF FGFollows(to) /\ fgTries < FGHops
       THEN /\ fgTries' = fgTries + 1 /\ UNCHANGED <<fgPc, fgOut>>
            /\ fgSent' = IF fgPc = "paid" THEN fgSent \cup {to} ELSE fgSent
       ELSE FGEnd("redirect refused") /\ UNCHANGED <<fgTries, fgSent>>
    /\ UNCHANGED <<fgWrap, fgLimit, fgPrice, fgConfirmed, fgConnects, fgSession, fgBefore, fgAfter, fgAborted, fgSigned, fgEvents>>

\* withSessionGuard: refused unless the wallet session is live.
FGSignStart == /\ fgPc = "sign"
               /\ IF fgWrap = "session" /\ fgSession = 0
                  THEN FGEnd("session, not signed") ELSE fgPc' = "signing" /\ fgOut' = fgOut
               /\ fgBefore' = fgSession
               /\ UNCHANGED <<fgWrap, fgLimit, fgPrice, fgConfirmed, fgConnects, fgTries, fgSession, fgAfter, fgAborted,
                              fgSigned, fgSent, fgEvents>>

\* The signer answers.  The payment has one entry of the payer's; PaymentSigning has several.
FGSignDone == /\ fgPc = "signing" /\ FGTrace(<<"sign">>)
              /\ fgSigned' = Append(fgSigned, fgPrice) /\ fgAfter' = fgSession /\ fgPc' = "signed"
              /\ UNCHANGED <<fgWrap, fgLimit, fgPrice, fgConfirmed, fgConnects, fgTries, fgSession, fgBefore, fgAborted,
                             fgSent, fgOut>>

\* Mutant: the session is not looked at again.
FGStillThereUnchecked == TRUE

\* Live, and not a new one: createdAt is compared.
FGStillThere == fgSession # 0 /\ fgSession = fgBefore

\* ... the session guard discards the signature unless the session is still there.
FGSessionCheck == /\ fgPc = "signed"
                  /\ IF fgWrap = "session" /\ ~FGStillThere THEN FGEnd("session, discarded")
                     ELSE fgPc' = "checked" /\ fgOut' = fgOut
                  /\ UNCHANGED <<fgWrap, fgLimit, fgPrice, fgConfirmed, fgConnects, fgTries, fgSession, fgBefore, fgAfter,
                                 fgAborted, fgSigned, fgSent, fgEvents>>

\* The paid request; the session is not looked at any more.
FGSend == /\ fgPc = "checked" /\ fgPc' = "paid" /\ fgTries' = 0 /\ fgSent' = fgSent \cup {"seller"}
          /\ UNCHANGED <<fgWrap, fgLimit, fgPrice, fgConfirmed, fgConnects, fgSession, fgBefore, fgAfter, fgAborted,
                         fgSigned, fgEvents, fgOut>>

\* The signer refuses.
FGSignFails == /\ fgPc = "signing" /\ FGEnd("not signed") /\ FGTrace(<<"sign failed">>)
               /\ UNCHANGED <<fgWrap, fgLimit, fgPrice, fgConfirmed, fgConnects, fgTries, fgSession, fgBefore, fgAfter,
                              fgAborted, fgSigned, fgSent>>

\* buildPaymentCompletedEvent: one event for a settlement, none for anything else.
FGCompleted(settled) == IF settled THEN <<fgPrice>> ELSE <<>>

\* The paid answer, with or without a settlement header; withPaymentTelemetry emits
\* the event, and a sink that throws changes nothing.
FGPaid == \E settled \in BOOLEAN :
    /\ fgPc = "paid" /\ FGEnd(IF settled THEN "settled" ELSE "paid")
    /\ fgEvents' = CASE fgWrap = "trace" -> fgEvents \o <<"submit", "settlement">>
                     [] fgWrap = "telemetry" -> fgEvents \o FGCompleted(settled)
                     [] OTHER -> fgEvents
    /\ UNCHANGED <<fgWrap, fgLimit, fgPrice, fgConfirmed, fgConnects, fgTries, fgSession, fgBefore, fgAfter, fgAborted,
                   fgSigned, fgSent>>

\* PaymentRejectedError: fetchWithPaymentFallback fetches once more, under the lower limit.
FGRejected == /\ fgPc = "paid" /\ FGTrace(<<"submit", "settlement">>)
              /\ IF fgWrap = "lower" /\ fgLimit # FGLower
                 THEN fgLimit' = FGLower /\ fgPc' = "first" /\ fgOut' = fgOut
                 ELSE FGEnd("rejected") /\ fgLimit' = fgLimit
              /\ UNCHANGED <<fgWrap, fgPrice, fgConfirmed, fgConnects, fgTries, fgSession, fgBefore, fgAfter, fgAborted,
                             fgSigned, fgSent>>

\* The caller's abort reaches the two requests: AbortError.  withClientAbortSignal leaves
\* `signed` at its default; the fallback client answers its fallback response if it is the
\* first request (also of its own timer), and passes the error on otherwise.
FGAbortError == /\ fgPc \in {"first", "paid"} /\ fgWrap \notin FGPlain
                /\ fgAborted \/ (fgWrap = "fallback" /\ fgPc = "first")
                /\ FGEnd(CASE fgWrap = "abort" -> "aborted, not signed"
                           [] fgWrap = "fallback" /\ fgPc = "first" -> "fallback"
                           [] OTHER -> "aborted")
                /\ UNCHANGED <<fgWrap, fgLimit, fgPrice, fgConfirmed, fgConnects, fgTries, fgSession, fgBefore, fgAfter,
                               fgAborted, fgSigned, fgSent, fgEvents>>

-----------------------------------------------------------------------------
(* The retrying backend and the timers. *)

\* computeBackoffDelay without jitter: doubling, up to maxDelayMs.
FGBackoff(attempt, base, max) == IF base * 2^(attempt - 1) < max THEN base * 2^(attempt - 1) ELSE max

\* READ is retryable, WRITE is not.
FGMaxAttempts == IF fgWrap = "read" THEN FGAttempts ELSE 1

\* fetchWithRetry: every turn of the loop begins with the signal, then sends the request.
FGRequest == /\ fgPc = "first" /\ fgWrap \in {"read", "write"}
             /\ \/ fgAborted /\ FGEnd("aborted") /\ fgTries' = fgTries
                \/ ~fgAborted /\ fgPc' = "asked" /\ fgOut' = fgOut /\ fgTries' = fgTries + 1
             /\ UNCHANGED <<fgWrap, fgLimit, fgPrice, fgConfirmed, fgConnects, fgSession, fgBefore, fgAfter, fgAborted,
                            fgSigned, fgSent, fgEvents>>

\* One that is answered with a retryable status, or fails with the signal quiet, is sent
\* again after a pause until the attempts are used up.
FGAttempt == \E answer \in {"ok", "retryable", "failed"} :
    /\ fgPc = "asked"
    /\ CASE answer = "ok" -> FGEnd("ok")
         [] answer = "failed" /\ fgAborted -> FGEnd("failed")
         [] answer # "ok" /\ fgTries >= FGMaxAttempts -> FGEnd(answer)
         [] OTHER -> fgPc' = "sleeping" /\ fgOut' = fgOut
    /\ UNCHANGED <<fgWrap, fgLimit, fgPrice, fgConfirmed, fgConnects, fgTries, fgSession, fgBefore, fgAfter, fgAborted,
                   fgSigned, fgSent, fgEvents>>

\* The pause is not cut short by the signal.
FGSlept == /\ fgPc = "sleeping" /\ fgPc' = "first"
           /\ UNCHANGED <<fgWrap, fgLimit, fgPrice, fgConfirmed, fgConnects, fgTries, fgSession, fgBefore, fgAfter,
                          fgAborted, fgSigned, fgSent, fgEvents, fgOut>>

\* The answer of a simulation, and of a ping raced against its timeout ...
FGAnswer == /\ fgPc = "first" /\ fgWrap \in {"simulate", "health"}
            /\ \E out \in {"ok", "failed"} : FGEnd(out)
            /\ UNCHANGED <<fgWrap, fgLimit, fgPrice, fgConfirmed, fgConnects, fgTries, fgSession, fgBefore, fgAfter, fgAborted,
                           fgSigned, fgSent, fgEvents>>

\* ... and the timer: PolicySimulateTimeoutError, { reachable: false }.
FGTimer == /\ fgPc = "first" /\ fgWrap \in {"simulate", "health"} /\ FGEnd("timed out")
           /\ UNCHANGED <<fgWrap, fgLimit, fgPrice, fgConfirmed, fgConnects, fgTries, fgSession, fgBefore, fgAfter, fgAborted,
                          fgSigned, fgSent, fgEvents>>

-----------------------------------------------------------------------------
\* The user disconnects (or the session expires idle), or connects anew.
FGSwitch == /\ fgPc # "done"
            /\ \/ fgSession # 0 /\ fgSession' = 0 /\ fgConnects' = fgConnects
               \/ fgConnects < FGConnects /\ fgConnects' = fgConnects + 1 /\ fgSession' = fgConnects + 1
            /\ UNCHANGED <<fgWrap, fgPc, fgLimit, fgPrice, fgConfirmed, fgTries, fgBefore, fgAfter, fgAborted,
                           fgSigned, fgSent, fgEvents, fgOut>>

FGAbort == /\ fgPc # "done" /\ ~fgAborted /\ fgAborted' = TRUE
           /\ UNCHANGED <<fgWrap, fgPc, fgLimit, fgPrice, fgConfirmed, fgConnects, fgTries, fgSession, fgBefore, fgAfter,
                          fgSigned, fgSent, fgEvents, fgOut>>

FGNext == \/ FGCall \/ FGProbe \/ FGConfirm \/ FGFree \/ FGChallenge \/ FGNothingOffered \/ FGRedirect
          \/ FGSignStart \/ FGSignDone \/ FGSignFails \/ FGSessionCheck \/ FGSend
          \/ FGPaid \/ FGRejected \/ FGAbortError
          \/ FGRequest \/ FGAttempt \/ FGSlept \/ FGAnswer \/ FGTimer \/ FGSwitch \/ FGAbort

FGSpec == FGInit /\ [][FGNext]_fgVars

-----------------------------------------------------------------------------
FGTypeOK == /\ fgWrap \in FGWraps \cup {FGNone} /\ fgAborted \in BOOLEAN
            /\ fgPc \in {"idle", "probing", "confirming", "first", "sign", "signing", "signed", "checked", "paid",
                       "asked", "sleeping", "done"}
            /\ fgConnects \in Nat /\ fgSession \in 0..fgConnects
            /\ fgOut \in FGOutcomes \cup {FGNone}

\* The delays of fetchWithRetry grow and stay under the maximum.
ASSUME FGBackoffIsBounded == \A n \in 1..6 : /\ FGBackoff(n, 200, 2000) <= 2000
                                             /\ FGBackoff(n, 200, 2000) <= FGBackoff(n + 1, 200, 2000)

(***************************************************************************)
(* Whatever the seller, the network and the user do in between: a payment  *)
(* is signed within the limit in force and at most twice (the second time  *)
(* under the lower limit); under the redirect guard it goes nowhere but to *)
(* the origin that was called; under the session guard it goes nowhere     *)
(* unless the session that was live when the signature came back is the    *)
(* one signing began under (a session that ends after the guard's second   *)
(* look, before the request leaves, is not noticed by anyone); a fallback  *)
(* response means that nothing was signed; telemetry reports exactly the   *)
(* settled payment; the trace is in order; a write is sent once.           *)
(***************************************************************************)
FGWrappersHold ==
    /\ \A i \in DOMAIN fgSigned : fgSigned[i] <= IF i = 1 THEN FGMax ELSE FGLower
    /\ Len(fgSigned) <= IF fgWrap = "lower" THEN 2 ELSE 1
    /\ (fgWrap = "redirect") => (fgSent \subseteq {"seller"} /\ fgTries <= FGHops)
    /\ (fgWrap = "session" /\ fgSent # {}) => (fgAfter = fgBefore /\ fgAfter # 0 /\ fgOut # "session, discarded")
    /\ (fgOut \in {"fallback", "refused", "declined"} /\ fgWrap # "lower") => (fgSigned = <<>>)
    /\ (fgWrap = "telemetry" /\ fgPc = "done") =>
          (fgEvents = IF fgOut = "settled" THEN fgSigned ELSE <<>>)
    /\ (fgWrap = "trace") =>
          \E full \in {<<"discovery", "quote", "sign", "submit", "settlement">>,
                       <<"discovery", "quote", "sign failed">>} : IsPrefix(fgEvents, full)
    /\ (fgWrap \in {"read", "write"}) => (fgTries <= IF fgWrap = "write" THEN 1 ELSE FGAttempts)

(***************************************************************************)
(* "a payment whose amount meets or exceeds confirmationThreshold blocks   *)
(* on a confirm callback before the wrapped client ever signs it."  It     *)
(* does not hold for fetch: what is confirmed is the probe's price, what   *)
(* is signed is the price of the next challenge.                           *)
(***************************************************************************)
FGSignedIsConfirmed == fgWrap = "confirm" =>
    \A i \in DOMAIN fgSigned : FGNeedsConfirmation(fgSigned[i]) => fgSigned[i] = fgConfirmed

(***************************************************************************)
(* X402AbortedError.paymentMayHaveBeenSigned: "false is a clean cancel;    *)
(* true means at least one auth entry was signed before the abort."        *)
(***************************************************************************)
FGCleanCancelIsClean == fgOut = "aborted, not signed" => fgSigned = <<>>
=============================================================================
