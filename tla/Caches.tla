------------------------------- MODULE Caches -------------------------------
(***************************************************************************)
(* The caches contributed in front of slow reads: balances (with warm-up,  *)
(* priming and invalidation), failed balance reads, network-scoped balance *)
(* and x402 resource entries, the instrumented RPC cache, the policy       *)
(* template list, the request-dedupe cache, the transaction-status store   *)
(* and the authorization results of a rotated session key.  They differ in *)
(* a few decisions: what is stored, until when, and whether callers share  *)
(* a read in flight.  One run configures one of them.  One token and one   *)
(* holder are read, so that an entry is named by its network alone: the    *)
(* key builders put the network first, with a separator no network has.    *)
(*                                                                         *)
(* What is read (the chain, the gateway) is external: its value changes,   *)
(* and a read samples it somewhere between the call and the answer.        *)
(***************************************************************************)
EXTENDS Integers, FiniteSets

CONSTANTS CACalls, CANets, CANone,
          CATtl,         \* ttlMs, negativeCacheTtlMs or maxAgeMs
          CAVersions,    \* bound: versions the value goes through
          CAEnd          \* bound: the clock stops here

VARIABLES
    caKind,     \* the cache configured
    caClock,
    caTruth,    \* caTruth[n]: the current version on network n
    caEntry,    \* caEntry[n]: CANone or [value, net, expires, readAt, old, created (status)]
    caCall,     \* per call: [pc, net, began, value, readAt, old, shares, asked]
    caPending,  \* caPending[n]: the call whose promise inFlight holds, or CANone
    caTainted   \* history: networks invalidated while a read was under way, and not
                \* emptied since

caVars == <<caKind, caClock, caTruth, caEntry, caCall, caPending, caTainted>>

Kinds == {"balance", "negative", "scoped", "resource", "instrumented", "template", "dedupe",
          "status", "authorization"}

ASSUME CABoundsAssumption == CATtl \in Nat /\ CAVersions \in Nat \ {0} /\ CAEnd \in Nat

ASSUME CANetsAssumption == CANets # {} /\ CANone \notin Kinds

CACall == [pc : {"idle", "reading", "answering", "done"}, net : CANets \cup {CANone}, began : 0..CAEnd,
           value : 0..CAVersions, readAt : 0..CAEnd, old : BOOLEAN, shares : CACalls \cup {CANone},
           asked : 0..CAVersions]

CAStored == [value : 0..CAVersions, net : CANets, expires : Nat, readAt : 0..CAEnd, old : BOOLEAN,
             created : 0..CAEnd]

CAIdle == [pc |-> "idle", net |-> CANone, began |-> 0, value |-> 0, readAt |-> 0, old |-> FALSE,
           shares |-> CANone, asked |-> 0]

CAInit == /\ caKind = CANone /\ caClock = 0 /\ caTruth = [n \in CANets |-> 1]
          /\ caEntry = [n \in CANets |-> CANone] /\ caCall = [c \in CACalls |-> CAIdle]
          /\ caPending = [n \in CANets |-> CANone] /\ caTainted = {}

-----------------------------------------------------------------------------
(* What each cache decides. *)

\* withTemplateCache and RequestDedupeCache hand a second caller the same promise.
CAShares == caKind \in {"template", "dedupe"}

\* createNegativeCachingBalanceReader keeps errors (a value of 0), the others results.
CAKeeps(value) == (value = 0) = (caKind = "negative")

\* resource and negative entries live from the time of the call, the cached reader's,
\* the namespaced and the instrumented ones from the answer; the template list, the
\* deduped results and the authorizations until invalidated (CAEnd + 1).
CAExpires(began) == CASE caKind \in {"resource", "negative"} -> began + CATtl
                      [] caKind \in {"balance", "instrumented", "scoped"} -> caClock + CATtl
                      [] OTHER -> CAEnd + 1

\* The status store's get ignores age: only cleanup() removes (createdAt < now - maxAge).
CAFresh(e) == e.expires > caClock

CAHit(n) == caEntry[n] # CANone /\ CAFresh(caEntry[n])

-----------------------------------------------------------------------------
\* Bound: the keys in use.  Only the caches with a network in the key need two.
CAUsed == IF caKind \in {"scoped", "resource", "authorization"} THEN CANets ELSE {CHOOSE n \in CANets : TRUE}

CAConfigure == /\ caKind = CANone /\ caKind' \in Kinds
               /\ UNCHANGED <<caClock, caTruth, caEntry, caCall, caPending, caTainted>>

\* get: a fresh entry at once (warmUpBalanceCache calls the same for every token) ...
CAGetHit(c) == \E n \in CAUsed :
    /\ caKind # CANone /\ caCall[c].pc = "idle" /\ CAHit(n)
    /\ caCall' = [caCall EXCEPT ![c] = [CAIdle EXCEPT !.pc = "done", !.net = n, !.value = caEntry[n].value]]
    /\ UNCHANGED <<caKind, caClock, caTruth, caEntry, caPending, caTainted>>

\* ... or the promise in flight, or a read of its own.
CAAsk(c, n, asked) ==
    LET joins == CAShares /\ caPending[n] # CANone
    IN  /\ caCall' = [caCall EXCEPT ![c] = [CAIdle EXCEPT !.pc = "reading", !.net = n, !.began = caClock,
                            !.asked = asked, !.shares = IF joins THEN caPending[n] ELSE CANone]]
        /\ caPending' = IF CAShares /\ ~joins THEN [caPending EXCEPT ![n] = c] ELSE caPending

\* A stale entry that is met is dropped by the namespaced and the instrumented cache.
CAGetMiss(c) == \E n \in CAUsed :
    /\ caKind # CANone /\ caCall[c].pc = "idle" /\ ~CAHit(n)
    /\ CAAsk(c, n, 0)
    /\ caEntry' = IF caKind \in {"scoped", "instrumented"}
                  THEN [caEntry EXCEPT ![n] = CANone] ELSE caEntry
    /\ UNCHANGED <<caKind, caClock, caTruth, caTainted>>

\* getTokenBalance simulates the read: the integer, or an error (0): a failed simulation,
\* no return value, a value that is no integer, a contract that is no token.
CAReadings(n) == {caTruth[n], 0}

\* The RPC server samples the ledger.
CASample(c) ==
    /\ caCall[c].pc = "reading" /\ caCall[c].shares = CANone
    /\ \E v \in CAReadings(caCall[c].net) :
        caCall' = [caCall EXCEPT ![c].pc = "answering", ![c].value = v, ![c].readAt = caClock]
    /\ UNCHANGED <<caKind, caClock, caTruth, caEntry, caPending, caTainted>>

\* The answer arrives: stored if it is of the kind kept, whatever was invalidated since;
\* inFlight forgets the key (a later promise of it too); the callers that share it go on.
CAAnswer(c) ==
    /\ caCall[c].pc = "answering"
    /\ LET a == caCall[c]
       IN  /\ caEntry' = IF CAKeeps(a.value)
                         THEN [caEntry EXCEPT ![a.net] =
                                 [value |-> a.value, net |-> a.net, expires |-> CAExpires(a.began),
                                  readAt |-> a.readAt, old |-> a.old, created |-> IF caKind = "status" THEN caClock ELSE 0]]
                         ELSE caEntry
           /\ caPending' = [caPending EXCEPT ![a.net] = CANone]
           /\ caCall' = [d \in CACalls |->
                IF d = c \/ caCall[d].shares = c
                THEN [CAIdle EXCEPT !.pc = "done", !.net = a.net, !.value = a.value, !.asked = caCall[d].asked]
                ELSE caCall[d]]
    /\ UNCHANGED <<caKind, caClock, caTruth, caTainted>>

\* The result is used (warmUpBalanceCache counts the token as warmed or as failed).
CAReturn(c) == /\ caCall[c].pc = "done" /\ caCall' = [caCall EXCEPT ![c] = CAIdle]
               /\ UNCHANGED <<caKind, caClock, caTruth, caEntry, caPending, caTainted>>

-----------------------------------------------------------------------------
(* Invalidation. *)

CAUnderWay(n) == \E c \in CACalls : caCall[c].net = n /\ caCall[c].pc \in {"reading", "answering"}

\* History: what was sampled before an invalidation is old, in an entry or in an answer.
CAOutdated(nets) == [c \in CACalls |->
    IF caCall[c].net \in nets /\ caCall[c].pc = "answering" THEN [caCall[c] EXCEPT !.old = TRUE] ELSE caCall[c]]

CATaints(nets) == (caTainted \ nets) \cup {n \in nets : CAUnderWay(n)}

\* Mutant: the entries stay.
CADroppedNone(nets) == [n \in CANets |-> caEntry[n]]

CADropped(nets) == [n \in CANets |-> IF n \in nets THEN CANone ELSE caEntry[n]]

\* invalidate(token, holder) or clear(); clearNetwork and invalidateNetwork for one
\* network; generate() of the template cache, which leaves a list in flight alone.
\* RequestDedupeCache also forgets its promises, so that the next call starts its own.
CAInvalidate == \E nets \in IF caKind \in {"scoped", "resource"} THEN {{n} : n \in CANets} ELSE {CAUsed} :
    /\ caKind \notin {CANone, "negative", "status", "authorization"}
    /\ LET left == CADropped(nets)
       IN  caEntry' = [n \in CANets |-> IF left[n] = CANone THEN CANone
                                        ELSE [left[n] EXCEPT !.old = @ \/ n \in nets]]
    /\ caCall' = CAOutdated(nets)
    /\ caPending' = [n \in CANets |-> IF caKind = "dedupe" /\ n \in nets THEN CANone ELSE caPending[n]]
    /\ caTainted' = CATaints(nets)
    /\ UNCHANGED <<caKind, caClock, caTruth>>

\* refreshTemplates: invalidate, then listTemplates, which joins a list in flight.
CARefresh(c) == \E n \in CAUsed :
    /\ caKind = "template" /\ caCall[c].pc = "idle"
    /\ caEntry' = [caEntry EXCEPT ![n] = CANone]
    /\ CAAsk(c, n, caTruth[n])
    /\ caTainted' = CATaints({n})
    /\ UNCHANGED <<caKind, caClock, caTruth>>

\* prime(): what the caller knows is stored.
CAPrime == \E n \in CAUsed :
    /\ caKind = "balance"
    /\ caEntry' = [caEntry EXCEPT ![n] = [value |-> caTruth[n], net |-> n, expires |-> caClock + CATtl,
                                          readAt |-> caClock, old |-> FALSE, created |-> 0]]
    /\ UNCHANGED <<caKind, caClock, caTruth, caCall, caPending, caTainted>>

\* cleanup() and cleanupStaleEntries.
CACleanup == /\ caKind = "status"
             /\ caEntry' = [n \in CANets |-> IF caEntry[n] # CANone /\ caEntry[n].created >= caClock - CATtl
                                             THEN caEntry[n] ELSE CANone]
             /\ UNCHANGED <<caKind, caClock, caTruth, caCall, caPending, caTainted>>

\* A session key is rotated (its version is the value) and invalidateForRotatedKey drops
\* exactly the entries computed under the old one.
CARotate == \E n \in CAUsed :
    /\ caKind = "authorization" /\ caTruth[n] < CAVersions
    /\ caTruth' = [caTruth EXCEPT ![n] = @ + 1]
    /\ caEntry' = [caEntry EXCEPT ![n] = IF @ # CANone /\ @.value = caTruth[n] THEN CANone ELSE @]
    /\ caCall' = CAOutdated({n})
    /\ caTainted' = caTainted \cup CATaints({n})
    /\ UNCHANGED <<caKind, caClock, caPending>>

\* What is read changes (bound: where one key is in use; a session key only by rotation);
\* time passes.
CAChange == \E n \in CAUsed : /\ caKind \notin {CANone, "authorization"} /\ Cardinality(CAUsed) = 1
                              /\ caTruth[n] < CAVersions
                              /\ caTruth' = [caTruth EXCEPT ![n] = @ + 1]
                              /\ UNCHANGED <<caKind, caClock, caEntry, caCall, caPending, caTainted>>

CATick == /\ caKind # CANone /\ caClock < CAEnd /\ caClock' = caClock + 1
          /\ UNCHANGED <<caKind, caTruth, caEntry, caCall, caPending, caTainted>>

CANext == \/ CAConfigure \/ CAInvalidate \/ CAPrime \/ CACleanup \/ CARotate \/ CAChange \/ CATick
          \/ \E c \in CACalls : CAGetHit(c) \/ CAGetMiss(c) \/ CASample(c) \/ CAAnswer(c) \/ CAReturn(c)
                              \/ CARefresh(c)

CASpec == CAInit /\ [][CANext]_caVars

-----------------------------------------------------------------------------
CATypeOK == /\ caKind \in Kinds \cup {CANone} /\ caClock \in 0..CAEnd
            /\ caTruth \in [CANets -> 1..CAVersions]
            /\ caEntry \in [CANets -> CAStored \cup {CANone}] /\ caCall \in [CACalls -> CACall]
            /\ caPending \in [CANets -> CACalls \cup {CANone}] /\ caTainted \subseteq CANets

(***************************************************************************)
(* What a cache may hold.  An entry belongs to the network it is kept for. *)
(* With a lifetime counted from the call (x402 resources, failed reads) it *)
(* is never served later than one lifetime after it was true.  And an      *)
(* entry that an invalidation or a key rotation meant to remove is only    *)
(* there if a read was under way then: a late answer undoes the            *)
(* invalidation in every one of these caches, nothing else does.           *)
(***************************************************************************)
CAEntriesAreExplained == \A n \in CANets : (caEntry[n] # CANone) =>
    LET e == caEntry[n]
    IN  /\ e.net = n
        /\ (caKind \in {"resource", "negative"}) => (e.expires <= e.readAt + CATtl)
        /\ e.old => (n \in caTainted)
        /\ (caKind = "authorization" /\ n \notin caTainted) => (e.value = caTruth[n])

(***************************************************************************)
(* refreshTemplates(): "Invalidate the cache and re-fetch immediately,     *)
(* returning the fresh list."  A refresh returns nothing older than what   *)
(* the gateway had when it was called.  It does not hold: a list in flight *)
(* is joined, and it may have been read before the change.                 *)
(***************************************************************************)
CARefreshIsFresh == \A c \in CACalls :
    (caCall[c].pc = "done" /\ caCall[c].asked > 0 /\ caCall[c].value > 0) => (caCall[c].value >= caCall[c].asked)
=============================================================================
