---------------------------- MODULE OfflineTools ----------------------------
(***************************************************************************)
(* Tools around a signing key, in contrib/: the offline signer, which      *)
(* exports what is to be signed and assembles the signature later          *)
(* (offline-signing), the recorder and replayer of RPC traffic             *)
(* (rpc-replay-harness), the telemetry around connectWallet, the rotation  *)
(* of the payer's key, and three decisions without state.                  *)
(***************************************************************************)
EXTENDS Integers, Sequences, SequencesExt, FiniteSets

CONSTANTS OTCalls,     \* overlapping connectWallet calls
          OTRequests,  \* bound: requests recorded
          OTNone

ASSUME OTAssumption == OTRequests \in Nat

VARIABLES
    otEntry,     \* the entry the offline signature was asked for
    otPayload,   \* what exportPayload returned, OTNone before
    otSigned,    \* the entries assembleSignature returned
    otRecorded,  \* the fixture
    otConsumed,  \* recordings consumed
    otReplies,   \* history: <<index, asked>> of each reply of the replay
    otConnect,   \* each connect: its step and how it ended
    otEvents,    \* each connect's events, as handed to the hook
    otKeys,      \* keys that may sign, in the rotation
    otRotation   \* step of the rotation

otOffline == <<otEntry, otPayload, otSigned>>
otReplay == <<otRecorded, otConsumed, otReplies>>
otTelemetry == <<otConnect, otEvents>>
otRotating == <<otKeys, otRotation>>
otVars == <<otOffline, otReplay, otTelemetry, otRotating>>

-----------------------------------------------------------------------------
(* Offline signing.  An entry is what the RPC returned: the payee it pays, *)
(* its credential's version and the expiration ledger it carries.          *)

OTPayee == "shop"     \* the expected invocation's recipient
OTExpiration == 7     \* the expiration ledger asked for

OTEntries == [to : {OTPayee, "other"}, version : {1, 2}, expiration : {0, OTExpiration}]

\* The payload hash: it binds the invocation and the expiration.
OTHash(e, expiration) == [to |-> e.to, expiration |-> expiration]

\* Mutant: the entry is exported as the RPC returned it.
OTExportUnchecked ==
    /\ otPayload = OTNone
    /\ \E e \in {x \in OTEntries : x.version = 1} :
        otEntry' = e /\ otPayload' = OTHash(e, OTExpiration)
    /\ UNCHANGED <<otSigned, otReplay, otTelemetry, otRotating>>

\* exportPayload: the invocation is asserted first, then the credential's
\* version; the expiration is set on the decoded copy, which is dropped.
OTExport ==
    /\ otPayload = OTNone
    /\ \E e \in {x \in OTEntries : x.to = OTPayee /\ x.version = 1} :
        otEntry' = e /\ otPayload' = OTHash(e, OTExpiration)
    /\ UNCHANGED <<otSigned, otReplay, otTelemetry, otRotating>>

\* assembleSignature: the map is put on the entry it is given, decoded anew; a
\* V2 credential throws. The caller may hand over the exported entry, or one it
\* simulated again.
OTAssemble ==
    /\ otPayload # OTNone /\ otSigned = {}
    /\ \E e \in {x \in OTEntries : x.version = 1} :
        otSigned' = {[entry |-> e, signature |-> otPayload]}
    /\ UNCHANGED <<otEntry, otPayload, otReplay, otTelemetry, otRotating>>

\* The wallet contract hashes the entry it receives, with the expiration in it.
OTVerifies(s) == s.signature = OTHash(s.entry, s.entry.expiration)

-----------------------------------------------------------------------------
(* Recording and replay.  A parameter is a sequence of words; "s1" and     *)
(* "s2" are the configured secrets, "seed" has the shape of a secret seed. *)

OTMethods == {"get", "send"}
OTSecrets == <<"s1", "s2">>
OTParams == {<<"x">>, <<"s1">>, <<"s2", "s1">>, <<"s1", "s1">>, <<"x", "seed">>, <<"s1", "seed">>}

\* stripSensitive: the first configured secret that occurs is replaced, once;
\* only a value without any is searched for a seed, and replaced whole.
stripSensitive(value) ==
    LET hits == SelectSeq(OTSecrets, LAMBDA s : s \in ToSet(value))
    IN IF hits # <<>>
       THEN [value EXCEPT ![SelectInSeq(value, LAMBDA w : w = hits[1])] = "stripped"]
       ELSE IF "seed" \in ToSet(value) THEN <<"stripped">> ELSE value

\* assertNoSecretsInRecording looks for the configured secrets only; a fixture
\* that passes it is written, and replayed.
OTRecordingIsClean(recording) ==
    \A i \in DOMAIN recording : ToSet(recording[i].params) \cap ToSet(OTSecrets) = {}

\* recordInteractions: one request after the other, stripped.
OTRecord ==
    /\ otReplies = <<>> /\ Len(otRecorded) < OTRequests
    /\ \E p \in OTParams, m \in OTMethods :
        otRecorded' = Append(otRecorded, [method |-> m, params |-> stripSensitive(p)])
    /\ UNCHANGED <<otConsumed, otReplies, otOffline, otTelemetry, otRotating>>

\* byMethod.get(m)[n - 1]: the index of the n-th recording of a method, if there
\* are as many.
OTNth(m, n) ==
    {i \in DOMAIN otRecorded : /\ otRecorded[i].method = m
                               /\ Cardinality({j \in 1..i : otRecorded[j].method = m}) = n}

\* The handler: the next recording of the method is consumed, and answered only
\* when the parameters are equal; otherwise it throws.
OTReplay ==
    /\ OTRecordingIsClean(otRecorded)
    /\ \E m \in OTMethods, p \in OTParams : \E i \in OTNth(m, otConsumed[m] + 1) :
        /\ otConsumed' = [otConsumed EXCEPT ![m] = @ + 1]
        /\ otReplies' = IF otRecorded[i].params = p
                        THEN Append(otReplies, [at |-> i, method |-> m, params |-> p])
                        ELSE otReplies
    /\ UNCHANGED <<otRecorded, otOffline, otTelemetry, otRotating>>

-----------------------------------------------------------------------------
(* withConnectTelemetry. *)

\* connectWallet is called: two events, then the wrapped connector.
OTConnectStart(c) ==
    /\ otConnect[c] = "idle"
    /\ otConnect' = [otConnect EXCEPT ![c] = "waiting"]
    /\ otEvents' = [otEvents EXCEPT ![c] = <<"started", "ceremony started">>]
    /\ UNCHANGED <<otOffline, otReplay, otRotating>>

\* The connector resolves, and the rest of the funnel is emitted at once, or it
\* throws. emit() catches what the hook throws, so that the caller sees exactly
\* what the connector did.
OTConnectEnd(c) ==
    /\ otConnect[c] = "waiting"
    /\ \/ /\ otConnect' = [otConnect EXCEPT ![c] = "connected"]
          /\ otEvents' = [otEvents EXCEPT ![c] = @ \o <<"ceremony completed", "lookup started",
                                                        "lookup completed", "succeeded">>]
       \/ /\ otConnect' = [otConnect EXCEPT ![c] = "failed"]
          /\ otEvents' = [otEvents EXCEPT ![c] = Append(@, "failed")]
    /\ UNCHANGED <<otOffline, otReplay, otRotating>>

-----------------------------------------------------------------------------
(* The rotation of the payer's key. *)

\* runRotationDryRun in its order; revoke may fail, which ends the run.
OTRotate ==
    /\ otRotation \in 0 .. 2
    /\ \/ /\ otRotation' = otRotation + 1
          /\ otKeys' = CASE otRotation = 0 -> otKeys \cup {"new"}
                         [] otRotation = 1 -> otKeys \ {"old"}
                         [] otRotation = 2 -> otKeys
       \/ otRotation < 2 /\ otRotation' = -1 /\ UNCHANGED otKeys
    /\ UNCHANGED <<otOffline, otReplay, otTelemetry>>

-----------------------------------------------------------------------------

OTInit ==
    /\ otEntry = OTNone /\ otPayload = OTNone /\ otSigned = {}
    /\ otRecorded = <<>> /\ otConsumed = [m \in OTMethods |-> 0] /\ otReplies = <<>>
    /\ otConnect = [c \in OTCalls |-> "idle"] /\ otEvents = [c \in OTCalls |-> <<>>]
    /\ otKeys = {"old"} /\ otRotation = 0

OTOfflineNext == OTExport \/ OTAssemble
OTReplayNext == OTRecord \/ OTReplay
OTOtherNext == OTRotate \/ \E c \in OTCalls : OTConnectStart(c) \/ OTConnectEnd(c)
OTNext == OTOfflineNext \/ OTReplayNext \/ OTOtherNext

OTSpec == OTInit /\ [][OTNext]_otVars

OTTypeOK ==
    /\ otEntry \in OTEntries \cup {OTNone} /\ Cardinality(otSigned) <= 1
    /\ Len(otRecorded) <= OTRequests
    /\ otConsumed \in [OTMethods -> 0..OTRequests]
    /\ otConnect \in [OTCalls -> {"idle", "waiting", "connected", "failed"}]
    /\ otKeys \subseteq {"old", "new"} /\ otRotation \in -1 .. 3

\* An assembled entry that the wallet accepts pays the expected recipient and
\* expires when it was asked to, whichever entry it was assembled on: the V-1
\* check of exportPayload reaches through the air gap.
OTAcceptedIsExpected ==
    \A s \in otSigned : OTVerifies(s) => s.entry.to = OTPayee /\ s.entry.expiration = OTExpiration

\* Every reply comes from a recording of that method with those parameters, each
\* recording answers at most once, and in the order of the fixture.
OTRepliesMatch ==
    \A i \in DOMAIN otReplies :
        LET r == otReplies[i] IN
        /\ otRecorded[r.at] = [method |-> r.method, params |-> r.params]
        /\ \A j \in DOMAIN otReplies :
             j < i /\ otReplies[j].method = r.method => otReplies[j].at < r.at

\* A settled connect has exactly one closing event, the last, and it says what
\* the caller got.
OTFunnelsEnd ==
    \A c \in OTCalls :
        LET ends == {i \in DOMAIN otEvents[c] : otEvents[c][i] \in {"succeeded", "failed"}} IN
        IF otConnect[c] \in {"connected", "failed"}
        THEN /\ ends = {Len(otEvents[c])}
             /\ (Last(otEvents[c]) = "succeeded") = (otConnect[c] = "connected")
        ELSE ends = {}

\* At every moment of a rotation some key can sign, and after it only the new.
OTRotationKeepsAKey == otKeys # {} /\ (otRotation = 3 => otKeys = {"new"})

\* An assembled entry the wallet accepts is the expected one
\* (offline-signer.ts); a replay answers each request with its own recording
\* (rpc-replay.ts); a settled connect has one closing event, and it is true
\* (connect-telemetry.ts); and a rotation never leaves the payer without a key.
OTToolsHold ==
    OTAcceptedIsExpected /\ OTRepliesMatch /\ OTFunnelsEnd /\ OTRotationKeepsAKey

-----------------------------------------------------------------------------
(* Decisions without state. *)

\* looksLikeMissingPolicyCosigner: #110, and no policy was called.
looksLikeMissingPolicyCosigner(detail) == "#110" \in detail /\ "policy__" \notin detail

\* withMissingPolicyCosignerClassification: every other error passes through.
OTRethrown(error) ==
    IF error.kind = "PaymentRejected" /\ looksLikeMissingPolicyCosigner(error.detail)
    THEN "MissingPolicyCosigner" ELSE error.kind

\* assertValidCapabilityRules: "bad" is neither a name nor the wildcard.
OTRulesValid(rules, strict) ==
    \A r \in rules : /\ r.resource # "bad" /\ r.action # "bad"
                     /\ strict => r.resource # "*" /\ r.action # "*"

\* evaluateCapability: no rules at all permit everything.
OTPermits(rules, request) ==
    \/ rules = {}
    \/ \E r \in rules : r.resource \in {"*", request.resource} /\ r.action \in {"*", request.action}

\* resolveConnectionSettings.
resolveConnectionSettings(environment, keepAlive) ==
    [keepAlive |-> environment = "node" /\ keepAlive,
     headers |-> IF environment = "browser" THEN {}
                 ELSE {[Connection |-> IF keepAlive THEN "keep-alive" ELSE "close"]}]

\* createTunedRpcTransport.fetch: the pool goes along only where it is used.
OTDispatcher(settings, environment, pool) == environment = "node" /\ settings.keepAlive /\ pool

\* A refusal by a policy is never taken for a missing co-signer, and the strict
\* flag leaves exactly the accepted rule sets without a wildcard: a signer built
\* under it signs only what some rule names in full.
ASSUME OTDecisionsHold ==
    /\ \A d \in SUBSET {"#110", "policy__"}, k \in {"PaymentRejected", "Timeout"} :
         OTRethrown([kind |-> k, detail |-> d]) = "MissingPolicyCosigner"
             <=> k = "PaymentRejected" /\ d = {"#110"}
    /\ LET names == {"a", "b"}
           set == [resource : names \cup {"*", "bad"}, action : names \cup {"*"}]
           sets == {{}} \cup {{r, s} : r \in set, s \in set}
       IN \A rules \in sets :
            /\ OTRulesValid(rules, TRUE) => OTRulesValid(rules, FALSE)
            /\ OTRulesValid(rules, TRUE) /\ rules # {}
                 => \A q \in [resource : names, action : names] : OTPermits(rules, q) <=> q \in rules
    /\ \A e \in {"node", "browser"}, k \in BOOLEAN, p \in BOOLEAN :
         LET s == resolveConnectionSettings(e, k)
         IN OTDispatcher(s, e, p) => p /\ s.headers = {[Connection |-> "keep-alive"]}
=============================================================================
