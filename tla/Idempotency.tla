----------------------------- MODULE Idempotency -----------------------------
(***************************************************************************)
(* Idempotent submission.  The session-scoped cache of payments by key     *)
(* (contrib payment-idempotency.ts): concurrent retries share the first    *)
(* call's promise, a failed one is forgotten, the oldest key is evicted.   *)
(* And the retry loop that sends one key with every attempt to create a    *)
(* wallet (idempotency-key.ts).  The backends are external: a submission   *)
(* lands and is answered, is refused, or lands and loses its answer.       *)
(***************************************************************************)
EXTENDS Integers, Sequences, FiniteSets, SequencesExt

CONSTANTS IDCalls, IDKeys, IDPayloads,
          IDMaxEntries,            \* maxEntries of the cache
          IDAttempts,              \* attempts per wallet creation (3 in the code)
          IDCreations,             \* bound: wallet creations a caller starts
          IDNone, IDInvalid        \* no key; an empty or overlong one

ASSUME IDAssumption == IDMaxEntries \in Nat \ {0} /\ IDAttempts \in Nat \ {0}

VARIABLES
    idCache,            \* insertion-ordered entries [key, payload, owner]
    idPc, idAsk,        \* per call: where it is, and what it asked for
    idOwner,            \* per call: whose promise it awaits
    idPromise,          \* per call: its own submission: "none", "sent", "ok", "error"
    idLanded,           \* external: submissions that reached the chain
    idForgot,           \* history: owners whose entry was evicted or cleared
    idCreate            \* a wallet creation: [pc, n (key number), attempt, seen (keys received)]

idVars == <<idCache, idPc, idAsk, idOwner, idPromise, idLanded, idForgot, idCreate>>

IDInit == /\ idCache = <<>> /\ idPc = [c \in IDCalls |-> "idle"]
          /\ idAsk = [c \in IDCalls |-> IDNone] /\ idOwner = [c \in IDCalls |-> c]
          /\ idPromise = [c \in IDCalls |-> "none"] /\ idLanded = {} /\ idForgot = {}
          /\ idCreate = [pc |-> "idle", n |-> 0, attempt |-> 0, seen |-> {}]

-----------------------------------------------------------------------------
(* withIdempotency. *)

\* assertValidIdempotencyKey.
IDKeyOk(k) == k # IDInvalid

\* fingerprintPayload, as a change detector: equal exactly for equal payloads.
IDSamePayload(entry, p) == entry.payload = p

IDEntries(k) == {e \in Range(idCache) : e.key = k}

\* Mutant: nothing is evicted.
IDInsertedUnbounded(e) == Append(idCache, e)

\* The cache with an entry more, the oldest ones evicted after inserting.
IDInserted(e) ==
    LET all == Append(idCache, e)
    IN  IF Len(all) > IDMaxEntries
        THEN SubSeq(all, Len(all) - IDMaxEntries + 1, Len(all)) ELSE all

\* The call becomes the owner of a submission.
IDSends(c) == /\ idPc' = [idPc EXCEPT ![c] = "waiting"]
              /\ idPromise' = [idPromise EXCEPT ![c] = "sent"]
              /\ UNCHANGED idOwner

\* submitTransaction up to its first await (the session's wallet exists by then).
IDSubmit(c) == \E k \in IDKeys \cup {IDNone, IDInvalid}, p \in IDPayloads :
    /\ idPc[c] = "idle" /\ idCreate.pc \in {"idle", "ok"}
    /\ idAsk' = [idAsk EXCEPT ![c] = [key |-> k, payload |-> p]]
    /\ \/ /\ k = IDNone /\ IDSends(c) /\ UNCHANGED <<idCache, idForgot>>
       \/ /\ k # IDNone /\ ~IDKeyOk(k)
          /\ idPc' = [idPc EXCEPT ![c] = "refused"]
          /\ UNCHANGED <<idCache, idForgot, idOwner, idPromise>>
       \/ \E e \in IDEntries(k) :
          /\ idPc' = [idPc EXCEPT ![c] = IF IDSamePayload(e, p) THEN "waiting" ELSE "refused"]
          /\ idOwner' = [idOwner EXCEPT ![c] = e.owner]
          /\ UNCHANGED <<idCache, idForgot, idPromise>>
       \/ /\ k # IDNone /\ IDKeyOk(k) /\ IDEntries(k) = {}
          /\ IDSends(c)
          /\ idCache' = IDInserted([key |-> k, payload |-> p, owner |-> c])
          /\ idForgot' = idForgot \cup {e.owner : e \in Range(idCache) \ Range(idCache')}
    /\ UNCHANGED <<idLanded, idCreate>>

\* External: the backend answers the owner's submission.
IDAnswer(c) == \E result \in {"ok", "error"}, lands \in BOOLEAN :
    /\ idPromise[c] = "sent" /\ (result = "ok" => lands)
    /\ idPromise' = [idPromise EXCEPT ![c] = result]
    /\ idLanded' = IF lands THEN idLanded \cup {c} ELSE idLanded
    /\ UNCHANGED <<idCache, idPc, idAsk, idOwner, idForgot, idCreate>>

\* Mutant: a failure deletes whatever entry the key has.
IDDropFailedAny(c) == SelectSeq(idCache, LAMBDA e : e.key # idAsk[c].key)

\* The failed entry is deleted only while it is still this promise's entry.
IDDropFailed(c) == LET mine == {i \in DOMAIN idCache : idCache[i].owner = c}
                   IN  IF mine = {} THEN idCache ELSE RemoveAt(idCache, CHOOSE i \in mine : TRUE)

\* A caller resumes with the promise's result.
IDResume(c) ==
    /\ idPc[c] = "waiting" /\ idPromise[idOwner[c]] \in {"ok", "error"}
    /\ idPc' = [idPc EXCEPT ![c] = idPromise[idOwner[c]]]
    /\ idCache' = IF idOwner[c] = c /\ idPromise[c] = "error" THEN IDDropFailed(c) ELSE idCache
    /\ UNCHANGED <<idAsk, idOwner, idPromise, idLanded, idForgot, idCreate>>

\* clear, on disconnect.
IDClear == /\ idCache # <<>> /\ idCache' = <<>>
           /\ idForgot' = idForgot \cup {e.owner : e \in Range(idCache)}
           /\ UNCHANGED <<idPc, idAsk, idOwner, idPromise, idLanded, idCreate>>

-----------------------------------------------------------------------------
(* withIdempotencyKey. *)

\* A submission, or the retry with a fresh key that DefiniteNetworkError calls safe.
IDCreateStart ==
    /\ idCreate.pc \in {"idle", "definite"} /\ idCreate.n < IDCreations
    /\ \A c \in IDCalls : idPc[c] = "idle"
    /\ idCreate' = [idCreate EXCEPT !.pc = "attempt", !.n = @ + 1, !.attempt = 1]
    /\ UNCHANGED <<idCache, idPc, idAsk, idOwner, idPromise, idLanded, idForgot>>

\* isDefiniteNetworkError: the connection was refused or the name not found.
IDDefinite(failure) == failure = "notConnected"

\* One attempt: answered, not connected, or lost with or without reaching the backend.
IDCreateAttempt == \E result \in {"answered", "notConnected", "lost"}, reaches \in BOOLEAN :
    /\ idCreate.pc = "attempt"
    /\ (result = "answered" => reaches) /\ (result = "notConnected" => ~reaches)
    /\ idCreate' = [idCreate EXCEPT
          !.seen = IF reaches THEN @ \cup {idCreate.n} ELSE @,
          !.attempt = @ + 1,
          !.pc = IF result = "answered" THEN "ok"
                 ELSE IF IDDefinite(result) THEN "definite"
                 ELSE IF idCreate.attempt = IDAttempts THEN "ambiguous" ELSE "attempt"]
    /\ UNCHANGED <<idCache, idPc, idAsk, idOwner, idPromise, idLanded, idForgot>>

IDNext == \/ IDClear \/ IDCreateStart \/ IDCreateAttempt
          \/ \E c \in IDCalls : IDSubmit(c) \/ IDAnswer(c) \/ IDResume(c)

IDSpec == IDInit /\ [][IDNext]_idVars

-----------------------------------------------------------------------------
IDTypeOK ==
    /\ idPc \in [IDCalls -> {"idle", "waiting", "ok", "error", "refused"}]
    /\ idPromise \in [IDCalls -> {"none", "sent", "ok", "error"}]
    /\ idOwner \in [IDCalls -> IDCalls] /\ idLanded \subseteq IDCalls
    /\ idCache \in Seq([key : IDKeys, payload : IDPayloads, owner : IDCalls])
    /\ Len(idCache) <= IDMaxEntries /\ DOMAIN idAsk = IDCalls
    /\ idCreate \in [pc : {"idle", "attempt", "ok", "definite", "ambiguous"}, n : Nat, attempt : Nat,
                     seen : SUBSET Nat]

(***************************************************************************)
(* A key submits once while it is remembered.  Two submissions of one key  *)
(* happen only if the first failed or its entry was evicted or cleared: a  *)
(* late failure never forgets the submission that replaced it.  And a      *)
(* caller told of success, its own submission or a shared one, has exactly *)
(* its payload on chain.                                                   *)
(***************************************************************************)
IDOneSubmissionPerKey ==
    /\ \A c, d \in IDCalls :
          c # d /\ idPromise[c] # "none" /\ idPromise[d] # "none" /\ idAsk[c].key = idAsk[d].key
              => \/ idAsk[c].key = IDNone \/ {c, d} \cap idForgot # {}
                 \/ "error" \in {idPromise[c], idPromise[d]}
    /\ \A c \in IDCalls : idPc[c] = "ok" =>
          idOwner[c] \in idLanded /\ idAsk[idOwner[c]].payload = idAsk[c].payload

(***************************************************************************)
(* DefiniteNetworkError says the submission failed before reaching the     *)
(* backend and that a fresh key is safe, so the backend has not received   *)
(* the key of a creation that ends with it.                                *)
(***************************************************************************)
IDDefiniteMeansUnreached == idCreate.pc = "definite" => idCreate.n \notin idCreate.seen
=============================================================================
