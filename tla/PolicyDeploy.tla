---------------------------- MODULE PolicyDeploy ----------------------------
(***************************************************************************)
(* Policy deployments that survive partial failure (contributed around     *)
(* src/src/policy-facade.ts): a definition is validated, the deployment is *)
(* put on the wallet's queue, and then runs as one of three sagas.         *)
(*   "plain"      the split facade: instance, attach, record, no recovery; *)
(*   "resumable"  the same with retries, and an error that says where to   *)
(*                resume;                                                  *)
(*   "rollback"   generate, simulate, instance, record, compensated in     *)
(*                reverse when a step fails.                               *)
(* The gateway and the passkey are external.  A request succeeds, is       *)
(* refused, or fails in transit, before or after it took effect.           *)
(***************************************************************************)
EXTENDS Integers, Sequences, FiniteSets, SequencesExt

CONSTANTS PDJobs,         \* deployments asked for
          PDNone,
          PDDefinitions,  \* policy definitions a caller may pass
          PDAttempts      \* MAX_RETRY_ATTEMPTS

ASSUME PDAssumption == PDAttempts \in Nat \ {0}

VARIABLES
    pdQueue,      \* jobs in the order of their sequence numbers
    pdLast,       \* lastCompletedSequence (0 before the first completes)
    pdAlarm,      \* onOutOfOrder was called
    pdPc,         \* pdPc[j]: where the job is
    pdKind,       \* which saga
    pdTry,        \* attempts of the step so far
    pdKnown,      \* what the saga has seen succeed, a set of step names
    pdEffect,     \* what really happened: [step, n] with how often
    pdUndone,     \* compensations: [step, ok]
    pdError,      \* what the error handed to the caller names
    pdPrompts     \* passkey prompts shown

pdVars == <<pdQueue, pdLast, pdAlarm, pdPc, pdKind, pdTry, pdKnown, pdEffect, pdUndone,
            pdError, pdPrompts>>

Steps == {"generate", "simulate", "instance", "attach", "record"}

PDInit == /\ pdQueue = <<>> /\ pdLast = 0 /\ pdAlarm = FALSE
          /\ pdPc = [j \in PDJobs |-> "idle"] /\ pdKind = [j \in PDJobs |-> "plain"]
          /\ pdTry = [j \in PDJobs |-> 0] /\ pdKnown = [j \in PDJobs |-> {}]
          /\ pdEffect = [j \in PDJobs |-> [s \in Steps |-> 0]]
          /\ pdUndone = [j \in PDJobs |-> <<>>]
          /\ pdError = [j \in PDJobs |-> PDNone] /\ pdPrompts = [j \in PDJobs |-> 0]

-----------------------------------------------------------------------------
(* Validation. *)

\* assertNoDuplicateOwners.
PDOwnersDistinct(d) == IsInjective(d.owners)

\* validatePolicyDefinitionClient.
PDDefinitionOk(d) ==
    /\ d.typed                                  \* a version, and a known type
    /\ d.owners # <<>> /\ "blank" \notin Range(d.owners)
    /\ d.threshold # PDNone => d.threshold \in 1..Len(d.owners)
    /\ d.limits >= 0 /\ d.delay >= 0
    /\ "blank" \notin Range(d.contracts)

-----------------------------------------------------------------------------
(* The wallet's queue. *)

PDMove(j, where) == pdPc' = [pdPc EXCEPT ![j] = where]

\* generate() with the client-side checks, then enqueue: the next sequence number.
PDSubmit(j) == \E d \in PDDefinitions, kind \in {"plain", "resumable", "rollback"} :
    /\ pdPc[j] = "idle"
    /\ IF PDDefinitionOk(d) /\ PDOwnersDistinct(d)
       THEN pdQueue' = Append(pdQueue, j) /\ PDMove(j, "queued")
       ELSE PDMove(j, "refused") /\ UNCHANGED pdQueue
    /\ pdKind' = [pdKind EXCEPT ![j] = kind]
    /\ UNCHANGED <<pdLast, pdAlarm, pdTry, pdKnown, pdEffect, pdUndone, pdError, pdPrompts>>

PDSequence(j) == CHOOSE n \in DOMAIN pdQueue : pdQueue[n] = j

PDEnded == {"idle", "refused", "done", "threw"}

\* Mutant: a task is not chained to the tail.
PDTurnAtOnce(j) == PDSequence(j) >= 1

\* previousTail has settled, whether or not it failed.
PDTurn(j) == \A n \in 1..(PDSequence(j) - 1) : pdPc[pdQueue[n]] \in {"done", "threw"}

\* The task starts: its sequence number is compared with the last completed one.
PDBegin(j) ==
    /\ pdPc[j] = "queued" /\ PDTurn(j)
    /\ pdAlarm' = (pdAlarm \/ PDSequence(j) # pdLast + 1)
    /\ PDMove(j, IF pdKind[j] = "rollback" THEN "generate" ELSE "instance")
    /\ UNCHANGED <<pdQueue, pdLast, pdKind, pdTry, pdKnown, pdEffect, pdUndone, pdError, pdPrompts>>

\* finally: the sequence is completed, however the task ended.
PDFinish(j, how) == PDMove(j, how) /\ pdLast' = PDSequence(j)

-----------------------------------------------------------------------------
(* One step. *)

PDNextStep(j, step) ==
    CASE step = "generate" -> "simulate"
      [] step = "simulate" -> "instance"
      [] step = "instance" -> IF pdKind[j] = "rollback" THEN "record" ELSE "attach"
      [] step = "attach" -> "record"
      [] step = "record" -> "done"

\* retryIfRetryable wraps the two gateway calls of the resumable saga.
PDRetries(j, step) == pdKind[j] = "resumable" /\ step # "attach" /\ pdTry[j] + 1 < PDAttempts

PDTookEffect(j, step) == pdEffect' = [pdEffect EXCEPT ![j][step] = @ + 1]

PDGoOn(j, step) ==
    /\ pdTry' = [pdTry EXCEPT ![j] = 0] /\ pdKnown' = [pdKnown EXCEPT ![j] = @ \cup {step}]
    /\ IF PDNextStep(j, step) = "done" THEN PDFinish(j, "done")
       ELSE PDMove(j, PDNextStep(j, step)) /\ UNCHANGED pdLast
    /\ UNCHANGED pdError

\* The step has thrown for good.  DeployPolicyError names the instance, and the hash
\* once the attach is known; the rollback saga turns back.
PDGiveUp(j) ==
    /\ pdTry' = [pdTry EXCEPT ![j] = 0]
    /\ IF pdKind[j] = "rollback" THEN PDMove(j, "undo") /\ UNCHANGED <<pdLast, pdError>>
       ELSE /\ PDFinish(j, "threw")
            /\ pdError' = [pdError EXCEPT ![j] = IF pdKind[j] = "resumable" THEN pdKnown[j] ELSE {}]
    /\ UNCHANGED pdKnown

\* The step's request ends.
PDStep(j, step) ==
    /\ pdPc[j] = step
    /\ \E reply \in {"ok", "refused", "transit", "lost"} :
        /\ IF reply \in {"ok", "lost"} THEN PDTookEffect(j, step) ELSE UNCHANGED pdEffect
        /\ CASE reply = "ok" -> PDGoOn(j, step)
             [] reply \in {"transit", "lost"} /\ PDRetries(j, step) ->
                    /\ pdTry' = [pdTry EXCEPT ![j] = @ + 1]
                    /\ UNCHANGED <<pdPc, pdLast, pdKnown, pdError>>
             [] OTHER -> PDGiveUp(j)
    /\ pdPrompts' = [pdPrompts EXCEPT ![j] = @ + (IF step = "attach" THEN 1 ELSE 0)]
    /\ UNCHANGED <<pdQueue, pdAlarm, pdKind, pdUndone>>

\* resumeDeploy: the caller of a failed resumable deployment whose error names the
\* hash records it again, outside the queue.
PDResume(j) ==
    /\ pdPc[j] = "threw" /\ pdError[j] # PDNone /\ "attach" \in pdError[j]
    /\ \E reply \in {"ok", "refused", "lost"} :
        /\ IF reply = "refused" THEN UNCHANGED pdEffect ELSE PDTookEffect(j, "record")
        /\ PDMove(j, IF reply = "ok" THEN "done" ELSE "threw")
        /\ pdEffect[j].record < 2
    /\ UNCHANGED <<pdQueue, pdLast, pdAlarm, pdKind, pdTry, pdKnown, pdUndone, pdError, pdPrompts>>

-----------------------------------------------------------------------------
(* compensate. *)

\* The steps that have a compensation, still to be undone.
PDToUndo(j) == (pdKnown[j] \cap {"generate", "instance"}) \ {pdUndone[j][i].step : i \in DOMAIN pdUndone[j]}

\* From the last completed step to the first.
PDUndoNext(j) == IF "instance" \in PDToUndo(j) THEN "instance" ELSE "generate"

\* deletePolicy or revokeInstance; a failure is noted and the rest is still tried.
PDUndo(j) ==
    /\ pdPc[j] = "undo" /\ PDToUndo(j) # {}
    /\ \E reply \in {"ok", "failed", "lost"} :
        /\ pdUndone' = [pdUndone EXCEPT ![j] =
                          Append(@, [step |-> PDUndoNext(j), ok |-> reply = "ok"])]
        /\ pdEffect' = IF reply = "failed" THEN pdEffect
                       ELSE [pdEffect EXCEPT ![j][PDUndoNext(j)] = @ - 1]
    /\ UNCHANGED <<pdQueue, pdLast, pdAlarm, pdPc, pdKind, pdTry, pdKnown, pdError, pdPrompts>>

\* PolicyDeploymentRollbackError, with every outcome.
PDUndoDone(j) ==
    /\ pdPc[j] = "undo" /\ PDToUndo(j) = {}
    /\ PDFinish(j, "threw")
    /\ pdError' = [pdError EXCEPT ![j] = pdKnown[j]]
    /\ UNCHANGED <<pdQueue, pdAlarm, pdKind, pdTry, pdKnown, pdEffect, pdUndone, pdPrompts>>

PDNext == \E j \in PDJobs : \/ PDSubmit(j) \/ PDBegin(j) \/ PDResume(j) \/ PDUndo(j)
                            \/ PDUndoDone(j) \/ \E s \in Steps : PDStep(j, s)

PDSpec == PDInit /\ [][PDNext]_pdVars

-----------------------------------------------------------------------------
PDTyped ==
    /\ pdPc \in [PDJobs -> PDEnded \cup Steps \cup {"queued", "undo"}]
    /\ pdKind \in [PDJobs -> {"plain", "resumable", "rollback"}]
    /\ pdQueue \in Seq(PDJobs) /\ IsInjective(pdQueue) /\ pdLast \in 0..Len(pdQueue)
    /\ pdKnown \in [PDJobs -> SUBSET Steps] /\ pdEffect \in [PDJobs -> [Steps -> Nat]]
    /\ pdUndone \in [PDJobs -> Seq([step : {"generate", "instance"}, ok : BOOLEAN])]
    /\ pdPrompts \in [PDJobs -> Nat] /\ DOMAIN pdError = PDJobs /\ DOMAIN pdTry = PDJobs

PDTypeOK ==
    /\ PDTyped
    /\ \A j \in PDJobs : /\ pdTry[j] < PDAttempts
                         /\ \A s \in Steps : pdEffect[j][s] \in 0..(PDAttempts + 2)

(***************************************************************************)
(* The queue: one deployment of the wallet at a time, in the order they    *)
(* were asked for, a failed one not holding up the rest; onOutOfOrder is   *)
(* therefore never called.                                                 *)
(***************************************************************************)
PDQueueKeepsOrder ==
    /\ ~pdAlarm
    /\ Cardinality({j \in PDJobs : pdPc[j] \notin PDEnded \cup {"queued"}}) <= 1

(***************************************************************************)
(* What a deployment leaves is what its result says.  A success, plain or  *)
(* resumable, is attached and recorded.  Nothing is recorded that was not  *)
(* attached, and the passkey is asked once.  An error whose hash is named  *)
(* is attached; one whose rollback outcomes are all ok has no completed    *)
(* step left, beyond requests that took effect and lost their answer       *)
(* (counted apart: an effect the saga never saw).  And a generated policy  *)
(* is never deleted while the instance the saga knows of still stands,     *)
(* unless its revocation failed and is reported.                           *)
(***************************************************************************)
PDResultsAreTrue == \A j \in PDJobs :
    /\ pdKind[j] # "rollback" =>
          /\ pdPc[j] = "done" => pdEffect[j].attach = 1 /\ pdEffect[j].record >= 1
          /\ pdEffect[j].record >= 1 => pdEffect[j].attach = 1
          /\ pdPrompts[j] <= 1
          /\ pdError[j] # PDNone /\ "attach" \in pdError[j] => pdEffect[j].attach = 1
    /\ pdKind[j] = "rollback" =>
          LET undone(s) == \E i \in DOMAIN pdUndone[j] : pdUndone[j][i].step = s
              reported(s) == \E i \in DOMAIN pdUndone[j] : pdUndone[j][i] = [step |-> s, ok |-> FALSE]
          IN  /\ undone("generate") /\ "instance" \in pdKnown[j] => undone("instance")
              /\ pdPc[j] = "threw" => \A s \in {"generate", "instance"} :
                    s \in pdKnown[j] => pdEffect[j][s] = 0 \/ reported(s)

\* Deployments of one wallet run in the order they were asked for
\* (policy-batch-ordering.ts), and what a saga reports of itself, done, to be
\* resumed or rolled back, is what it left on chain and in the gateway.
PDDeploymentsAreTrue == PDQueueKeepsOrder /\ PDResultsAreTrue
=============================================================================
