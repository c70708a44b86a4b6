-------------------------- MODULE TaskCancellation --------------------------
(***************************************************************************)
(* Cancelling a task: cancelTask (app/task_lifecycle.go), the goroutine it *)
(* starts for a task whose job is known (requestProviderCancellation) and  *)
(* the reconciliation loop that finds out what became of the job           *)
(* (app/provider_task_cancellation.go).                                    *)
(*                                                                         *)
(* All of them work on the copy of the row they read first: its status,    *)
(* its run (so its billing order) and its job.                             *)
(***************************************************************************)
EXTENDS TaskRow

CONSTANTS Cancellers   \* requests to cancel, each of which is made once

VARIABLES
  cancels,   \* canceller -> its progress and the row it read
  rec        \* the reconciliation loop

cancelVars == <<cancels, rec>>

CancelPCs == {"idle", "write", "stop", "bill", "push", "claim", "send",
              "giveup", "review", "done"}
RecPCs    == {"idle", "query", "confirmed", "succeeded", "failed",
              "close", "defer", "giveup", "review"}

Copies == [run : Runs, job : Jobs \cup {NoJob}]

CancelTypeOK ==
  /\ cancels \in [Cancellers -> [pc : CancelPCs, status : TaskStatuses, copy : Copies]]
  /\ rec \in [pc : RecPCs, copy : Copies, checks : 0 .. MaxChecks,
              verdict : CancelStatuses]

NoCopy == [run |-> 1, job |-> NoJob]

NoRec  == [pc |-> "idle", copy |-> NoCopy, checks |-> 0, verdict |-> ""]

CancelInit ==
  /\ cancels = [c \in Cancellers |-> [pc |-> "idle", status |-> "queued", copy |-> NoCopy]]
  /\ rec = NoRec

CAt(c, pc) == cancels[c].pc = pc
CLeave(c)  == cancels' = [cancels EXCEPT ![c] = [pc |-> "done", status |-> "queued", copy |-> NoCopy]]
CGo(c, pc) == cancels' = [cancels EXCEPT ![c].pc = pc]
RAt(pc)    == rec.pc = pc
RLeave     == rec' = NoRec
RGo(pc)    == rec' = [rec EXCEPT !.pc = pc]

-----------------------------------------------------------------------------
\* cancelTask reads a queued or running task, its order and its call logs.
ReadTask(c) ==
  /\ CAt(c, "idle")
  /\ task.status \in {"queued", "running"}
  /\ cancels' = [cancels EXCEPT ![c] =
       [pc |-> "write", status |-> task.status,
        copy |-> [run |-> task.run, job |-> HydratedJob(task)]]]
  /\ UNCHANGED rec
  /\ UNCHANGED rowVars

\* CancelTaskIfStatus compares the status, and nothing else, with the one read.
CancelTaskIfStatus(c) ==
  /\ CAt(c, "write")
  /\ IF task.status = cancels[c].status
     THEN /\ task' = [task EXCEPT !.status = "cancelled", !.owner = NoOwner, !.leased = FALSE]
          /\ CGo(c, "stop")
     ELSE CLeave(c) /\ UNCHANGED task
  /\ UNCHANGED <<rec, order, orderJob, resolved, job, calls, stopped>>

\* cancelActiveTask: activeCancels holds the context of the claim that this
\* process registered last for the task, if there is one.
CancelActiveTask(c, active) ==
  /\ CAt(c, "stop")
  /\ \/ \E k \in active : stopped' = stopped \cup {k}
     \/ UNCHANGED stopped
  /\ CGo(c, IF cancels[c].copy.job = NoJob THEN "bill" ELSE "push")
  /\ UNCHANGED <<rec, task, order, orderJob, resolved, job, calls>>

\* No job is known: a queued task is refunded, a running one is reviewed.
BillCancelled(c) ==
  /\ CAt(c, "bill")
  /\ IF cancels[c].status = "queued" THEN RefundBilling(cancels[c].copy.run)
                                     ELSE MarkBillingUncertain(cancels[c].copy.run)
  /\ CLeave(c)
  /\ UNCHANGED <<rec, task, orderJob, resolved, job, calls, stopped>>

\* requestProviderCancellation, in a goroutine of its own.
PushJob(c) ==
  /\ CAt(c, "push")
  /\ UpdateTaskProviderState(cancels[c].copy.job)
  /\ CGo(c, "claim")
  /\ UNCHANGED <<rec, order, orderJob, resolved, job, calls, stopped>>

ClaimTaskProviderCancellation(c) ==
  /\ CAt(c, "claim")
  /\ IF task.status = "cancelled" /\ task.cancel = ""
     THEN task' = [task EXCEPT !.cancel = "requested", !.checks = 1] /\ CGo(c, "send")
     ELSE CLeave(c) /\ UNCHANGED task
  /\ UNCHANGED <<rec, order, orderJob, resolved, job, calls, stopped>>

\* A protocol without cancellation gives up.
CannotCancel(c) ==
  /\ CAt(c, "send")
  /\ CGo(c, "giveup")
  /\ UNCHANGED rec
  /\ UNCHANGED rowVars

\* A running job is cancelled by the request or goes on; an error gives up, the
\* job cancelled or not.  The request is recorded like every provider call.
SendCancel(c) ==
  /\ CAt(c, "send")
  /\ Enabled("video")
  /\ LET copy == cancels[c].copy IN
     /\ \/ UNCHANGED job
        \/ /\ job[copy.job].state = "running"
           /\ job' = [job EXCEPT ![copy.job].state = "cancelled"]
     /\ RecordJob(copy.run, copy.job)
     /\ Record(RowNaming(copy.job), copy.run, FALSE)
  /\ CLeave(c) \/ CGo(c, "giveup")
  /\ UNCHANGED <<rec, resolved, stopped>>

\* markProviderCancellationUncertain: the row first, then the order.
GiveUpCancel(c) ==
  /\ CAt(c, "giveup")
  /\ IF CancellationIsOpen
     THEN UpdateTaskProviderCancellation("uncertain") /\ CGo(c, "review")
     ELSE CLeave(c) /\ UNCHANGED task
  /\ UNCHANGED <<rec, order, orderJob, resolved, job, calls, stopped>>

ReviewCancelled(c) ==
  /\ CAt(c, "review")
  /\ MarkBillingUncertain(cancels[c].copy.run)
  /\ CLeave(c)
  /\ UNCHANGED <<rec, task, orderJob, resolved, job, calls, stopped>>

\* The process dies between two of these steps.
CrashCanceller(c) ==
  /\ Enabled("outage")
  /\ cancels[c].pc \notin {"idle", "done"}
  /\ CLeave(c)
  /\ UNCHANGED rec
  /\ UNCHANGED rowVars

-----------------------------------------------------------------------------
(***************************************************************************)
(* The reconciliation loop.                                                *)
(***************************************************************************)
ClaimNextTaskProviderCancellation ==
  /\ RAt("idle")
  /\ CancellationIsOpen /\ ~ task.leased
  /\ task' = [task EXCEPT !.owner = Reconciler, !.leased = TRUE,
                          !.checks = IF @ < MaxChecks THEN @ + 1 ELSE @]
  /\ rec' = [pc |-> "query", copy |-> [run |-> task.run, job |-> task.job],
             checks |-> task'.checks, verdict |-> ""]
  /\ UNCHANGED <<cancels, order, orderJob, resolved, job, calls, stopped>>

\* Mutant: a job that has ended is taken for one that succeeded.
VerdictsHasty(state) ==
  CASE state = "cancelled" -> {"confirmed"}
    [] state \in {"succeeded", "failed"} -> {"succeeded"}
    [] OTHER               -> {"defer"}

\* What the provider says of a job.
Verdicts(state) ==
  CASE state = "cancelled" -> {"confirmed"}
    [] state = "succeeded" -> {"succeeded"}
    [] state = "failed"    -> {"failed"}
    [] OTHER               -> {"defer"}

\* reconcileProviderCancellation without a request: the limit of attempts is
\* reached, or the protocol has no such query.
SkipQuery ==
  /\ RAt("query")
  /\ \/ rec.checks >= MaxChecks
     \/ ~ Enabled("video")
  /\ RGo(IF rec.checks >= MaxChecks - 1 THEN "giveup" ELSE "defer")
  /\ UNCHANGED cancels
  /\ UNCHANGED rowVars

\* reconcileProviderCancellation up to the verdict; an error is put off like a
\* job that still runs, until the attempts run out.
QueryProviderCancellation ==
  /\ RAt("query")
  /\ Enabled("video") /\ rec.checks < MaxChecks
  /\ \/ \E verdict \in Verdicts(JobState(rec.copy.job)) : RGo(verdict)
     \/ RGo(IF rec.checks >= MaxChecks - 1 THEN "giveup" ELSE "defer")
  /\ RecordJob(rec.copy.run, rec.copy.job)
  /\ Record(RowNaming(rec.copy.job), rec.copy.run, FALSE)
  /\ UNCHANGED <<cancels, resolved, job, stopped>>

\* Mutant: the row is closed, the refund forgotten.
CloseWithoutRefund ==
  /\ rec.pc \in {"confirmed", "failed"}
  /\ rec' = [rec EXCEPT !.pc = "close", !.verdict =
               IF rec.pc = "confirmed" THEN "confirmed" ELSE "uncertain"]
  /\ UNCHANGED <<cancels, task, order, orderJob, resolved, job, calls, stopped>>

\* Mutant: the provider's outcome is stored as the status of the cancellation.
StoreOutcome ==
  /\ rec.pc \in {"confirmed", "failed"}
  /\ RefundBilling(rec.copy.run)
  /\ rec' = [rec EXCEPT !.pc = "close", !.verdict = rec.pc]
  /\ UNCHANGED <<cancels, task, orderJob, resolved, job, calls, stopped>>

\* confirmed and failed: refund, and try again later when the order is settled.
RefundReconciled ==
  /\ rec.pc \in {"confirmed", "failed"}
  /\ IF order[rec.copy.run] = "settled" THEN RGo("defer") /\ UNCHANGED order
     ELSE /\ RefundBilling(rec.copy.run)
          /\ rec' = [rec EXCEPT !.pc = "close", !.verdict =
                       IF rec.pc = "confirmed" THEN "confirmed" ELSE "uncertain"]
  /\ UNCHANGED <<cancels, task, orderJob, resolved, job, calls, stopped>>

\* The job was done before the cancellation: the user pays for it.
SettleReconciled ==
  /\ RAt("succeeded")
  /\ \/ SettleBilling(rec.copy.run)
     \/ Enabled("nousage") /\ MarkBillingUncertain(rec.copy.run)
  /\ rec' = [rec EXCEPT !.pc = "close", !.verdict = "uncertain"]
  /\ UNCHANGED <<cancels, task, orderJob, resolved, job, calls, stopped>>

CloseReconciled ==
  /\ RAt("close")
  /\ IF CancellationIsOpen THEN UpdateTaskProviderCancellation(rec.verdict)
                           ELSE UNCHANGED task
  /\ RLeave
  /\ UNCHANGED <<cancels, order, orderJob, resolved, job, calls, stopped>>

DeferReconciled ==
  /\ RAt("defer")
  /\ IF CancellationIsOpen THEN UpdateTaskProviderCancellation("requested")
                           ELSE UNCHANGED task
  /\ RLeave
  /\ UNCHANGED <<cancels, order, orderJob, resolved, job, calls, stopped>>

\* Mutant: the row gives up, the order is not put up for review.
GiveUpSilently ==
  /\ RAt("giveup")
  /\ IF CancellationIsOpen THEN UpdateTaskProviderCancellation("uncertain")
                           ELSE UNCHANGED task
  /\ RLeave
  /\ UNCHANGED <<cancels, order, orderJob, resolved, job, calls, stopped>>

GiveUpReconciled ==
  /\ RAt("giveup")
  /\ IF CancellationIsOpen
     THEN UpdateTaskProviderCancellation("uncertain") /\ RGo("review")
     ELSE RLeave /\ UNCHANGED task
  /\ UNCHANGED <<cancels, order, orderJob, resolved, job, calls, stopped>>

ReviewReconciled ==
  /\ RAt("review")
  /\ MarkBillingUncertain(rec.copy.run)
  /\ RLeave
  /\ UNCHANGED <<cancels, task, orderJob, resolved, job, calls, stopped>>

\* The loop dies and is started again; its lease has to expire first.
CrashReconciler ==
  /\ Enabled("outage")
  /\ ~ RAt("idle")
  /\ RLeave
  /\ UNCHANGED cancels
  /\ UNCHANGED rowVars

-----------------------------------------------------------------------------
Request(c) ==
  \/ CancelTaskIfStatus(c) \/ BillCancelled(c) \/ PushJob(c)
  \/ ClaimTaskProviderCancellation(c) \/ CannotCancel(c) \/ SendCancel(c)
  \/ GiveUpCancel(c) \/ ReviewCancelled(c)

Reconcile ==
  \/ ClaimNextTaskProviderCancellation \/ SkipQuery \/ QueryProviderCancellation
  \/ RefundReconciled \/ SettleReconciled \/ CloseReconciled
  \/ DeferReconciled \/ GiveUpReconciled \/ ReviewReconciled
=============================================================================
