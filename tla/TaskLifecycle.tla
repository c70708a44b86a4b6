--------------------------- MODULE TaskLifecycle ---------------------------
(***************************************************************************)
(* The life of one generation task: its workers, its cancellation, its     *)
(* retries, its manual recovery and its provider, interleaved.             *)
(*                                                                         *)
(* Features of an instance, a subset of                                    *)
(*   "retry" "recovery" "admin"   actors: see TaskRecovery                 *)
(*   "crash"     the process of a worker can die                           *)
(*   "outage"    so can that of a cancellation, of the reconciliation loop *)
(*               and of a manual recovery                                  *)
(*   "stall"     a live worker can lose its lease (paused, cut off from    *)
(*               the database) and go on                                   *)
(*   "video"     a video task on a protocol that can be cancelled: its polls *)
(*               share the log row of the submission                       *)
(*   "pollslot"  a poll can fail to get its channel slot in time           *)
(*   "defer"     the protocol on which a timed-out poll is handed back     *)
(*   "logfail" "unsaved" "nousage"   the call log, the result, the token   *)
(*               usage cannot be written or found                          *)
(***************************************************************************)
EXTENDS TaskWorker, TaskCancellation, TaskRecovery

vars == <<rowVars, workerVars, cancelVars, recoveryVars>>

TypeOK == RowTypeOK /\ WorkerTypeOK /\ CancelTypeOK /\ RecoveryTypeOK

Init == RowInit /\ WorkerInit /\ CancelInit /\ RecoveryInit

-----------------------------------------------------------------------------
\* A lease expires once its holder is gone; a live worker renews it every 15 of
\* its 45 seconds, and loses it only where workers can stall.  A result that
\* was saved leaves its lease behind.
Gone(owner) ==
  \/ owner \in Claims /\ (~ Alive(owner) \/ Enabled("stall"))
  \/ owner = Reconciler /\ rec.pc = "idle"
  \/ owner = Recovery /\ recovery.pc = "idle"

LeaseExpires ==
  /\ task.leased
  /\ Gone(task.owner)
  /\ task' = [task EXCEPT !.leased = FALSE]
  /\ UNCHANGED <<order, orderJob, resolved, job, calls, stopped>>

WorkerStep(k) ==
  /\ ClaimNextTask(k) \/ Execute(k) \/ CrashWorker(k)
  /\ UNCHANGED <<cancelVars, recoveryVars>>

CancelStep(c) ==
  /\ \/ ReadTask(c) \/ Request(c) \/ CrashCanceller(c)
     \/ CancelActiveTask(c, Stoppable)
  /\ UNCHANGED <<workerVars, recoveryVars>>

ReconcileStep ==
  /\ Reconcile \/ CrashReconciler
  /\ UNCHANGED <<workerVars, recoveryVars>>

RecoveryStep ==
  /\ \/ Retry \/ Recover \/ CrashRecovery
     \/ \E r \in Runs : ResolveBillingOrder(r)
  /\ UNCHANGED <<workerVars, cancelVars>>

OutsideStep ==
  /\ LeaseExpires \/ \E j \in Jobs : JobEnds(j)
  /\ UNCHANGED <<workerVars, cancelVars, recoveryVars>>

Next ==
  \/ \E k \in Claims : WorkerStep(k)
  \/ \E c \in Cancellers : CancelStep(c)
  \/ ReconcileStep
  \/ RecoveryStep
  \/ OutsideStep

Spec == Init /\ [][Next]_vars

\* Goroutines that run go on, the loops that claim and reconcile come around,
\* leases expire and the provider ends its jobs.  Nobody has to cancel, retry,
\* recover or resolve, and nothing has to crash.
Fairness ==
  /\ \A k \in Claims :
       /\ WF_vars(ClaimNextTask(k) /\ UNCHANGED <<cancelVars, recoveryVars>>)
       /\ WF_vars(Execute(k) /\ UNCHANGED <<cancelVars, recoveryVars>>)
  /\ \A c \in Cancellers :
       WF_vars((Request(c) \/ CancelActiveTask(c, Stoppable))
               /\ UNCHANGED <<workerVars, recoveryVars>>)
  /\ WF_vars(Reconcile /\ UNCHANGED <<workerVars, recoveryVars>>)
  /\ WF_vars(OutsideStep)

FairSpec == Spec /\ Fairness

-----------------------------------------------------------------------------
(***************************************************************************)
(* Safety.                                                                 *)
(***************************************************************************)

\* A run is concluded by at most one of the executions that worked on it: the
\* lease fences every terminal write, whatever stalls, crashes or is claimed
\* again (comment of task-runtime-stability.mdx:55).
OneConclusion ==
  \A k, l \in Claims :
    exec[k].won /\ exec[l].won /\ exec[k].run = exec[l].run => k = l

\* An ended run stays ended as it is: only manual recovery turns failed into
\* succeeded, and only a retry, which starts a new run, leads on.  A late
\* result never overwrites a cancellation.
EndedRunsStay ==
  [][task.status \in Terminal /\ task'.run = task.run =>
       \/ task'.status = task.status
       \/ task.status = "failed" /\ task'.status = "succeeded"
            /\ recovery.pc = "save"]_vars

\* Whoever has the result has not got the credit back, unless an administrator
\* gave it or a recovery is about to charge it again.
DeliveredIsNotRefunded ==
  task.status = "succeeded" =>
    \/ order[task.run] # "refunded"
    \/ task.run \in resolved
    \/ recovery.pc = "bill" /\ recovery.run = task.run

\* A run is charged, without an administrator, only if it had a job that
\* succeeded.
ChargedForOwnJob ==
  \A r \in Runs :
    order[r] = "settled" /\ r \notin resolved =>
      \E j \in Jobs : job[j].run = r /\ job[j].state = "succeeded"

\* The credit of a run is not given back, without an administrator, while a job
\* of it runs or after one has succeeded, for which the provider is paid.  Only
\* a worker that dies before it has logged its call takes that knowledge along:
\* then the log does not know the call, and another claim has followed.  (A
\* video task loses it otherwise, too: a failed poll is merged over the row of
\* the accepted submission, admin.go:735.)
NoRefundOfLiveJob ==
  \A r \in Runs :
    /\ order[r] = "refunded" /\ r \notin resolved
    /\ HasBillableCall \/ task.claims <= 1
    => \A j \in Jobs : ~ (job[j].run = r /\ job[j].state \in {"running", "succeeded"})

\* A refunded order is charged again only for a result that has been saved.
RestoredIsDelivered ==
  [][\A r \in Runs :
       order[r] = "refunded" /\ order'[r] = "settled" =>
         task.run = r /\ task.status = "succeeded"]_vars

\* A run submits at most one job: its route attempt stops what may already
\* have been submitted ("...为避免重复扣费已停止自动重发", model_router.go:999).
OneJobPerRun ==
  \A i, j \in Jobs :
    job[i].state # "none" /\ job[j].state # "none" /\ job[i].run = job[j].run => i = j

\* A cancellation that the provider confirmed has been refunded.
ConfirmedIsRefunded ==
  task.cancel = "confirmed" => order[task.run] = "refunded" \/ task.run \in resolved

-----------------------------------------------------------------------------
(***************************************************************************)
(* Liveness.                                                               *)
(***************************************************************************)

\* A task that is not cancelled ends, whatever crashes on the way.
TaskEnds == <>(task.status \in Terminal)

\* A cancelled run does not keep its credit frozen for ever without anyone being
\* told: its order is settled, refunded or put up for review ("后台对账会继续负责
\* 退款或费用核对", task_lifecycle.go:164).
CancelledIsBilled ==
  \A r \in Runs :
    (task.status = "cancelled" /\ task.run = r)
      ~> order[r] \in {"settled", "refunded", "uncertain"}
=============================================================================
