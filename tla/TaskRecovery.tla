---------------------------- MODULE TaskRecovery ----------------------------
(***************************************************************************)
(* What happens to a task that has ended: a user retries it (retryTask,    *)
(* app/task_lifecycle.go), a user or an administrator asks the provider    *)
(* about a failed video task (queryFailedVideoTask,                        *)
(* app/provider_task_recovery.go), and an administrator resolves its order *)
(* (resolveBillingOrder, app/finance.go).                                  *)
(***************************************************************************)
EXTENDS TaskRow

VARIABLES
  retry,      \* the retry under way: the run it read, or none
  recovery    \* the manual query under way

recoveryVars == <<retry, recovery>>

RecoveryPCs == {"idle", "push", "claim", "query", "save", "bill", "review", "release"}

RecoveryTypeOK ==
  /\ retry \in {"none", "checked"}
  /\ recovery \in [pc : RecoveryPCs, run : Runs, job : Jobs \cup {NoJob},
                   refunded : BOOLEAN]

NoRecovery == [pc |-> "idle", run |-> 1, job |-> NoJob, refunded |-> FALSE]

RecoveryInit == retry = "none" /\ recovery = NoRecovery

VAt(pc) == recovery.pc = pc
VLeave  == recovery' = NoRecovery
VGo(pc) == recovery' = [recovery EXCEPT !.pc = pc]

-----------------------------------------------------------------------------
\* retryTask reads the row, then its order (CheckRetryEligibility).
CheckRetryEligibility ==
  /\ Enabled("retry")
  /\ retry = "none"
  /\ task.status \in {"failed", "cancelled"}
  /\ task.cancel # "requested"
  /\ order[task.run] # "uncertain"
  /\ retry' = "checked"
  /\ UNCHANGED recovery
  /\ UNCHANGED rowVars

\* RetryTaskWithBilling, one transaction: it looks at the status again, at the
\* order and the cancellation it does not.
RetryTaskWithBilling ==
  /\ retry = "checked"
  /\ retry' = "none"
  /\ IF task.status \in {"failed", "cancelled"} /\ task.run < MaxRuns
     THEN /\ task' = [task EXCEPT !.status = "queued", !.run = @ + 1,
                        !.owner = NoOwner, !.leased = FALSE, !.job = NoJob,
                        !.cancel = "", !.checks = 0]
          /\ order' = [order EXCEPT ![task.run + 1] = "reserved"]
     ELSE UNCHANGED <<task, order>>
  /\ UNCHANGED <<recovery, orderJob, resolved, job, calls, stopped>>

-----------------------------------------------------------------------------
\* queryFailedVideoTask reads the row, its job and whether it was refunded.
ReadFailedTask ==
  /\ Enabled("recovery")
  /\ VAt("idle")
  /\ task.status = "failed"
  /\ HydratedJob(task) # NoJob
  /\ recovery' = [pc |-> "push", run |-> task.run, job |-> HydratedJob(task),
                  refunded |-> order[task.run] = "refunded"]
  /\ UNCHANGED retry
  /\ UNCHANGED rowVars

PushRecoveredJob ==
  /\ VAt("push")
  /\ UpdateTaskProviderState(recovery.job)
  /\ VGo("claim")
  /\ UNCHANGED <<retry, order, orderJob, resolved, job, calls, stopped>>

ClaimFailedTaskProviderRecovery ==
  /\ VAt("claim")
  /\ IF task.status = "failed" /\ ~ (task.owner = Recovery /\ task.leased)
     THEN task' = [task EXCEPT !.owner = Recovery, !.leased = TRUE] /\ VGo("query")
     ELSE VLeave /\ UNCHANGED task
  /\ UNCHANGED <<retry, order, orderJob, resolved, job, calls, stopped>>

\* Only a job that succeeded leads on; any other answer and any error release.
QueryFailedTask ==
  /\ VAt("query")
  /\ \/ /\ JobState(recovery.job) = "succeeded"
        /\ VGo("save")
        /\ Record(PollRow(recovery.job, TRUE), recovery.run, FALSE)
     \/ /\ VGo("release")
        /\ \E succeeded \in BOOLEAN :
             Record(PollRow(recovery.job, succeeded), recovery.run, FALSE)
  /\ RecordJob(recovery.run, recovery.job)
  /\ UNCHANGED <<retry, resolved, job, stopped>>

\* Mutant: a result that was not saved is charged all the same.
SaveRecoveredOrNot ==
  /\ VAt("save")
  /\ VGo("bill")
  /\ \/ /\ Fence(Recovery) /\ task.status = "failed"
        /\ task' = [task EXCEPT !.status = "succeeded", !.job = recovery.job]
     \/ UNCHANGED task
  /\ UNCHANGED <<retry, order, orderJob, resolved, job, calls, stopped>>

\* saveTaskCompletionWithinStorageQuota: failed -> succeeded under the lease.
SaveRecovered ==
  /\ VAt("save")
  /\ IF Fence(Recovery) /\ task.status = "failed"
     THEN \/ task' = [task EXCEPT !.status = "succeeded", !.job = recovery.job] /\ VGo("bill")
          \/ Enabled("unsaved") /\ VGo("review") /\ UNCHANGED task
     ELSE VGo("review") /\ UNCHANGED task
  /\ UNCHANGED <<retry, order, orderJob, resolved, job, calls, stopped>>

\* A refunded order is charged again, any other settled: as it was READ.
BillRecovered ==
  /\ VAt("bill")
  /\ LET status == order[recovery.run]
         accepts == IF recovery.refunded THEN {"refunded"} ELSE Open IN
     IF status \in accepts \cup {"settled"}
     THEN \/ order' = [order EXCEPT ![recovery.run] = "settled"] /\ VGo("release")
          \/ Enabled("nousage") /\ VGo("review") /\ UNCHANGED order
     ELSE VGo("review") /\ UNCHANGED order
  /\ UNCHANGED <<retry, task, orderJob, resolved, job, calls, stopped>>

ReviewRecovered ==
  /\ VAt("review")
  /\ MarkBillingUncertain(recovery.run)
  /\ VGo("release")
  /\ UNCHANGED <<retry, task, orderJob, resolved, job, calls, stopped>>

ReleaseTaskProviderRecovery ==
  /\ VAt("release")
  /\ task' = IF task.owner = Recovery
             THEN [task EXCEPT !.owner = NoOwner, !.leased = FALSE] ELSE task
  /\ VLeave
  /\ UNCHANGED <<retry, order, orderJob, resolved, job, calls, stopped>>

CrashRecovery ==
  /\ Enabled("outage")
  /\ ~ VAt("idle")
  /\ VLeave
  /\ UNCHANGED retry
  /\ UNCHANGED rowVars

-----------------------------------------------------------------------------
\* resolveBillingOrder: an administrator settles or refunds an open order.
ResolveBillingOrder(r) ==
  /\ Enabled("admin")
  /\ order[r] \in Open
  /\ SettleBilling(r) \/ RefundBilling(r)
  /\ resolved' = resolved \cup {r}
  /\ UNCHANGED <<retry, recovery, task, orderJob, job, calls, stopped>>

-----------------------------------------------------------------------------
Retry == CheckRetryEligibility \/ RetryTaskWithBilling

Recover ==
  \/ ReadFailedTask \/ PushRecoveredJob \/ ClaimFailedTaskProviderRecovery
  \/ QueryFailedTask \/ SaveRecovered \/ BillRecovered \/ ReviewRecovered
  \/ ReleaseTaskProviderRecovery
=============================================================================
