---------------------------- MODULE SpendLedgers ----------------------------
(***************************************************************************)
(* The spend ledgers contributed next to the payer's in-memory one, each   *)
(* in front of the same three moments of a payment (check, pay, book):     *)
(*   reserve  createSettledSpendLedger: reserve, then settle or release;   *)
(*   caps     payWithinResourceCap: one cap per resource;                  *)
(*   durable  createDurableSpendLedger: every record saved to a file;      *)
(*   timeout  executePaidRetryWithTimeout: a timed-out payment is debited; *)
(*   tracker  X402BudgetTracker: booked with the check;                    *)
(*   context  SpendLedgerWithContext: counts, never refuses;               *)
(*   shared   createSharedStateBudgetAttributeTracker: totals in a store,  *)
(*            every operation behind a promise-chain mutex.                *)
(* One asset (resource, rule); one run configures one ledger.  The chain,  *)
(* the file system and the store are external.                             *)
(***************************************************************************)
EXTENDS Integers, Sequences, FiniteSets, Functions

CONSTANTS SLCalls, SLNone, SLAmounts, SLCeiling,
          SLMost,     \* bound: payments made
          SLCrashes   \* bound: process restarts

ASSUME SLAssumption == IsFiniteSet(SLCalls) /\ SLAmounts \subseteq Nat /\ SLCeiling \in Nat

Torn == -1   \* a file cut short by a crash: JSON.parse throws

VARIABLES
    slKind, slUp,   \* the ledger configured; the process is running
    slSpent, slReserved,
    slDisk,         \* the saved total, or Torn
    slCall,         \* per call: [pc, amount, paid, snap]
    slQueue,        \* the shared tracker's promise chain: <<[call, op]>>
    slPaid,         \* history: settled on chain
    slMissed,       \* history: settled but not booked by an error path
    slMade, slCrashed,
    slRaced         \* history: two saves were under way at once, or one was lost

slVars == <<slKind, slUp, slSpent, slReserved, slDisk, slCall, slQueue, slPaid, slMissed, slMade,
            slCrashed, slRaced>>

SLKinds == {"reserve", "caps", "durable", "timeout", "tracker", "context", "shared"}

SLIdle == [pc |-> "idle", amount |-> 0, paid |-> 0, snap |-> 0]

SLInit == /\ slKind = SLNone /\ slUp = FALSE /\ slSpent = 0 /\ slReserved = 0 /\ slDisk = 0
          /\ slCall = [c \in SLCalls |-> SLIdle] /\ slQueue = <<>>
          /\ slPaid = 0 /\ slMissed = 0 /\ slMade = 0 /\ slCrashed = 0 /\ slRaced = FALSE

SLConfigure == /\ slKind = SLNone /\ slKind' \in SLKinds
               /\ UNCHANGED <<slUp, slSpent, slReserved, slDisk, slCall, slQueue, slPaid, slMissed, slMade,
                              slCrashed, slRaced>>

\* createDurableSpendLedger: load() answers {} for a file that does not exist and throws for
\* one it cannot parse (the server does not start); what it answers is recorded.  Every
\* other ledger starts at zero.
SLStart == /\ slKind # SLNone /\ ~slUp
           /\ (slKind = "durable") => (slDisk # Torn)
           /\ slUp' = TRUE /\ slSpent' = IF slKind = "durable" THEN slDisk ELSE 0
           /\ UNCHANGED <<slKind, slReserved, slDisk, slCall, slQueue, slPaid, slMissed, slMade, slCrashed, slRaced>>

-----------------------------------------------------------------------------
(* Check, pay, book. *)

\* Mutant: what is reserved is not counted.
SLFitsSpentOnly(amount) == slKind = "context" \/ slSpent + amount <= SLCeiling

\* reserve, assertWithinCap, assertWithinCeiling, tryRecordPayment.
SLFits(amount) == slKind = "context" \/ slSpent + slReserved + amount <= SLCeiling

\* remainingFor.
SLRemaining == SLCeiling - slSpent - slReserved

SLGo(c, to) == slCall' = [slCall EXCEPT ![c] = to]

\* A payment is asked for: what fits is signed and submitted; the reservation is made, or
\* X402BudgetTracker books it already.
SLAsk(c) == \E a \in SLAmounts :
    /\ slUp /\ slKind # "shared" /\ slCall[c].pc = "idle" /\ slMade < SLMost /\ SLFits(a)
    /\ SLGo(c, [SLIdle EXCEPT !.pc = "paying", !.amount = a])
    /\ slMade' = slMade + 1
    /\ slReserved' = IF slKind = "reserve" THEN slReserved + a ELSE slReserved
    /\ slSpent' = IF slKind = "tracker" THEN slSpent + a ELSE slSpent
    /\ UNCHANGED <<slKind, slUp, slDisk, slQueue, slPaid, slMissed, slCrashed, slRaced>>

\* The payment settles on chain, for no more than was signed ("upto" may take less).
SLSettles(c) == \E s \in IF slKind = "reserve" THEN 1..slCall[c].amount ELSE {slCall[c].amount} :
    /\ slCall[c].pc = "paying" /\ slCall[c].paid = 0
    /\ SLGo(c, [slCall[c] EXCEPT !.paid = s]) /\ slPaid' = slPaid + s
    /\ UNCHANGED <<slKind, slUp, slSpent, slReserved, slDisk, slQueue, slMissed, slMade, slCrashed, slRaced>>

\* settle(asset, requested, settled), or release(asset, requested) of what did not settle.
SLSettleReserved(c) ==
    /\ slKind = "reserve" /\ slReserved >= slCall[c].amount
    /\ slReserved' = slReserved - slCall[c].amount /\ slSpent' = slSpent + slCall[c].paid
    /\ SLGo(c, SLIdle) /\ UNCHANGED <<slMissed, slRaced>>

\* record() of the caps asserts the cap again: a payment that settled while another did
\* throws ResourceSpendCapExceededError and is not booked.
SLRecordCapped(c) ==
    LET a == slCall[c].paid
    IN  /\ slKind = "caps" /\ SLGo(c, SLIdle) /\ UNCHANGED <<slReserved, slRaced>>
        /\ \/ slSpent + a <= SLCeiling /\ slSpent' = slSpent + a /\ UNCHANGED slMissed
           \/ slSpent + a > SLCeiling /\ slMissed' = slMissed + a /\ UNCHANGED slSpent

SLSaving == {c \in SLCalls : slCall[c].pc = "saving"}

\* recordAndPersist: recorded at once; the snapshot is taken now and written later.
SLRecordDurable(c) ==
    /\ slKind = "durable" /\ slSpent' = slSpent + slCall[c].paid
    /\ SLGo(c, IF slCall[c].paid = 0 THEN SLIdle
               ELSE [SLIdle EXCEPT !.pc = "saving", !.snap = slSpent + slCall[c].paid])
    /\ slRaced' = (slRaced \/ SLSaving # {}) /\ UNCHANGED <<slReserved, slMissed>>

\* getSessionContext counts every record; X402BudgetTracker booked it with the check.
SLRecordPlain(c) ==
    /\ slKind \in {"tracker", "context"} /\ SLGo(c, SLIdle) /\ UNCHANGED <<slReserved, slMissed, slRaced>>
    /\ slSpent' = IF slKind = "context" THEN slSpent + slCall[c].paid ELSE slSpent

\* executePaidRetryWithTimeout: a response, or an error that isTimeoutError knows (the timer
\* aborted the request): debited.
SLTimeoutBooked(c) == /\ slKind = "timeout" /\ SLGo(c, SLIdle)
                      /\ \E a \in {slCall[c].paid, slCall[c].amount} : slSpent' = slSpent + a
                      /\ UNCHANGED <<slReserved, slMissed, slRaced>>

\* Any other error (a connection reset) is passed on without a debit.
SLTimeoutReset(c) == /\ slKind = "timeout" /\ SLGo(c, SLIdle) /\ slMissed' = slMissed + slCall[c].paid
                     /\ UNCHANGED <<slSpent, slReserved, slRaced>>

\* The answer to the paid request.
SLBook(c) == /\ slCall[c].pc = "paying"
             /\ \/ SLSettleReserved(c) \/ SLRecordCapped(c) \/ SLRecordDurable(c) \/ SLRecordPlain(c)
                \/ SLTimeoutBooked(c) \/ SLTimeoutReset(c)
             /\ UNCHANGED <<slKind, slUp, slDisk, slQueue, slPaid, slMade, slCrashed>>

\* createFileLedgerStore.save: the file holds this snapshot (writes may finish in any
\* order), or save throws DurableLedgerStoreError.
SLSaved(c) == /\ slCall[c].pc = "saving" /\ SLGo(c, SLIdle)
              /\ \/ slDisk' = slCall[c].snap /\ UNCHANGED slRaced
                 \/ slRaced' = TRUE /\ UNCHANGED slDisk
              /\ UNCHANGED <<slKind, slUp, slSpent, slReserved, slQueue, slPaid, slMissed, slMade, slCrashed>>

\* The process dies: memory is gone, a write under way is lost, torn or done.
SLCrash == /\ slUp /\ slCrashed < SLCrashes
           /\ slDisk' \in {slDisk} \cup {Torn : c \in SLSaving} \cup {slCall[c].snap : c \in SLSaving}
           /\ slRaced' = (slRaced \/ SLSaving # {} \/ \E c \in SLCalls : slCall[c].paid > 0)
           /\ slUp' = FALSE /\ slSpent' = 0 /\ slReserved' = 0 /\ slQueue' = <<>>
           /\ slCall' = [c \in SLCalls |-> SLIdle] /\ slCrashed' = slCrashed + 1
           /\ UNCHANGED <<slKind, slPaid, slMissed, slMade>>

-----------------------------------------------------------------------------
(* The shared tracker: slDisk is the store's total, slSpent what was recorded. *)

SLEnqueue(c, op, amount) == /\ slQueue' = Append(slQueue, [call |-> c, op |-> op])
                            /\ SLGo(c, [SLIdle EXCEPT !.pc = op, !.amount = amount])

\* record(rule, amount), spent(rule), or runExclusively(fn) with a check and a record in fn.
SLShared(c) == \E op \in {"record", "exclusive", "spent"}, a \in SLAmounts :
    /\ slUp /\ slKind = "shared" /\ slCall[c].pc = "idle" /\ slMade < SLMost
    /\ SLEnqueue(c, op, a) /\ slMade' = slMade + 1
    /\ UNCHANGED <<slKind, slUp, slSpent, slReserved, slDisk, slPaid, slMissed, slCrashed, slRaced>>

\* tail.then(fn, fn): only the first of the chain runs.
SLRuns(op) == IF slQueue # <<>> /\ Head(slQueue).op = op THEN {Head(slQueue).call} ELSE {}

\* What ran leaves the chain.
SLDequeue == slQueue' = Tail(slQueue)

\* safeGetItem of a record.
SLGetItem(c) == /\ c \in SLRuns("record") /\ slCall[c].pc = "record"
                /\ SLGo(c, [slCall[c] EXCEPT !.pc = "setting", !.snap = slDisk])
                /\ UNCHANGED <<slKind, slUp, slSpent, slReserved, slDisk, slQueue, slPaid, slMissed, slMade,
                               slCrashed, slRaced>>

\* safeSetItem: the new total, or BudgetAttributeStoreUnavailableError; the chain goes on.
SLSetItem(c) == /\ c \in SLRuns("record") /\ slCall[c].pc = "setting"
                /\ \/ slDisk' = slCall[c].snap + slCall[c].amount /\ slSpent' = slSpent + slCall[c].amount
                   \/ UNCHANGED <<slDisk, slSpent>>
                /\ SLGo(c, SLIdle) /\ SLDequeue
                /\ UNCHANGED <<slKind, slUp, slReserved, slPaid, slMissed, slMade, slCrashed, slRaced>>

\* runExclusively's fn runs and calls spent(rule), which takes its place behind fn itself.
SLExclusive(c) == /\ c \in SLRuns("exclusive") /\ slCall[c].pc = "exclusive"
                  /\ SLGo(c, [slCall[c] EXCEPT !.pc = "checking"])
                  /\ slQueue' = Append(slQueue, [call |-> c, op |-> "spent"])
                  /\ UNCHANGED <<slKind, slUp, slSpent, slReserved, slDisk, slPaid, slMissed, slMade, slCrashed,
                                 slRaced>>

\* spent(rule) runs when the chain reaches it; an fn that waited for it records and ends.
SLSpent(c) == /\ c \in SLRuns("spent") /\ slCall[c].pc \in {"spent", "checking"}
              /\ SLGo(c, SLIdle) /\ SLDequeue
              /\ LET a == IF slCall[c].pc = "checking" THEN slCall[c].amount ELSE 0
                 IN  slDisk' = slDisk + a /\ slSpent' = slSpent + a
              /\ UNCHANGED <<slKind, slUp, slReserved, slPaid, slMissed, slMade, slCrashed, slRaced>>

SLTrackerStep(c) == SLGetItem(c) \/ SLSetItem(c) \/ SLExclusive(c) \/ SLSpent(c)

SLNext == \/ SLConfigure \/ SLStart \/ SLCrash
          \/ \E c \in SLCalls : SLAsk(c) \/ SLSettles(c) \/ SLBook(c) \/ SLSaved(c) \/ SLShared(c)
                                \/ SLTrackerStep(c)

SLSpec == SLInit /\ [][SLNext]_slVars

SLFairSpec == SLSpec /\ \A c \in SLCalls : WF_slVars(SLTrackerStep(c))

-----------------------------------------------------------------------------
SLTypeOK == /\ slKind \in SLKinds \cup {SLNone} /\ slUp \in BOOLEAN /\ slRaced \in BOOLEAN
            /\ slSpent \in Nat /\ slReserved \in Nat /\ slDisk \in Nat \cup {Torn}
            /\ slQueue \in Seq([call : SLCalls, op : {"record", "exclusive", "spent"}])

SLUnderWay == SumFunction([c \in SLCalls |-> slCall[c].paid])

(***************************************************************************)
(* What a ledger may say about money that moved.  With reservations the    *)
(* chain never takes more than the ceiling, however payments overlap, and  *)
(* nothing is forgotten.  With caps, timeouts and the tracker, what is     *)
(* settled, not booked and not under way is exactly what an error path     *)
(* skipped.  A durable ledger knows all that was settled, also after a     *)
(* restart, unless saves overlapped, failed or were cut off.  The shared   *)
(* totals lose no record.                                                  *)
(***************************************************************************)
SLBooksCoverTheChain == slUp =>
    /\ (slKind = "reserve" /\ slCrashed = 0) =>
          /\ slPaid <= SLCeiling /\ SLRemaining >= 0
          /\ slSpent + SLUnderWay = slPaid
    /\ (slKind \in {"caps", "timeout", "context"} /\ slCrashed = 0) =>
          slPaid <= slSpent + SLUnderWay + slMissed
    /\ (slKind = "tracker" /\ slCrashed = 0) => (slPaid <= slSpent /\ slSpent <= SLCeiling)
    /\ (slKind = "durable" /\ ~slRaced) => (slPaid = slSpent + SLUnderWay)
    /\ (slKind = "shared" /\ slCrashed = 0) => (slDisk = slSpent)

(***************************************************************************)
(* "Serializes check-then-record sequences using an async mutex            *)
(* (runExclusively)": every such sequence ends.  It does not: spent() in   *)
(* the sequence waits in the chain for the sequence itself.                *)
(***************************************************************************)
SLExclusiveEnds == \A c \in SLCalls : slCall[c].pc = "exclusive" ~> slCall[c].pc = "idle"
=============================================================================
