----------------------------- MODULE TaskWorker -----------------------------
(***************************************************************************)
(* A worker's execution of one claim: processClaimedTask of                *)
(* backend/internal/app/task_worker.go, with the coordinators it calls for *)
(* the route attempt, the provider call, billing and the terminal state.   *)
(*                                                                         *)
(* pc names the statement an execution is at; what lies between two        *)
(* statements that read or write shared state is one step.  The fields of  *)
(* an execution are the parts of the *model.Task it holds in memory and of *)
(* the results of its calls.                                               *)
(***************************************************************************)
EXTENDS TaskRow

CONSTANTS
  Logical,  \* the task runs on a logical model, hence with route attempts
  Async     \* the provider answers with a job id to poll, not with the result

VARIABLES
  exec,     \* claim -> its execution
  attempt   \* run -> the last row of route_attempts of that run

workerVars == <<exec, attempt>>

PCs == {"unclaimed", "start", "route", "bill", "mark", "dispatch", "submit",
        "note", "stamp", "log", "poll", "finish", "save", "store", "settle",
        "fail", "conclude", "decide", "refund", "review", "done"}

\* How the call ended: "" while it goes on, "refused" an answer that proves no
\* job exists (401, 403, 404, 429), "failed" another definite error, "timeout"
\* an error whose text billingFailureUncertain knows, "slot" a channel slot not
\* granted in time, "stopped" a cancelled context, "stoppedWaiting" the same
\* while waiting for a slot, "unsaved" media that could not be stored,
\* "unprepared" and "unclear" a preparation that failed.
Outcomes == {"", "ok", "refused", "failed", "timeout", "slot", "stopped",
             "stoppedWaiting", "unsaved", "unprepared", "unclear"}

\* The call ended waiting for its channel slot: no request was sent by it.
WaitFailures == {"slot", "stoppedWaiting"}

Executions ==
  [pc      : PCs,
   run     : Runs,                 \* task.RouteRun and task.BillingOrderID
   req     : Jobs \cup {NoJob},    \* task.ProviderRequestID
   id      : Jobs \cup {NoJob},    \* job id the call works with
   fresh   : BOOLEAN,              \* attempt.DispatchState = "not_sent"
   outcome : Outcomes,
   bill    : Runs,                 \* order the final billing step is about
   lost    : BOOLEAN,              \* an error waits in leaseLost
   won     : BOOLEAN]              \* history: its terminal write hit the row

Unclaimed ==
  [pc |-> "unclaimed", run |-> 1, req |-> NoJob, id |-> NoJob, fresh |-> FALSE,
   outcome |-> "", bill |-> 1, lost |-> FALSE, won |-> FALSE]

AttemptStates == {"none", "not_sent", "submission_unknown", "accepted", "rejected_no_job"}
Attempts == [state : AttemptStates, req : Jobs \cup {NoJob}]

WorkerTypeOK ==
  /\ exec \in [Claims -> Executions]
  /\ attempt \in [Runs -> Attempts]

WorkerInit ==
  /\ exec = [k \in Claims |-> Unclaimed]
  /\ attempt = [r \in Runs |-> [state |-> "none", req |-> NoJob]]

Alive(k) == exec[k].pc \notin {"unclaimed", "done"}

At(k, pc) == exec[k].pc = pc
Go(k, pc) == exec' = [exec EXCEPT ![k].pc = pc]
Leave(k) == exec' = [exec EXCEPT ![k] =
  [Unclaimed EXCEPT !.pc = "done", !.run = exec[k].run, !.won = exec[k].won]]

\* Nothing looks at the context once the call has returned.
Stoppable == {k \in Claims : exec[k].pc \in
  {"start", "route", "bill", "mark", "dispatch", "submit", "note", "stamp", "log", "poll"}}
Forget(k) ==
  stopped' = stopped \ {k} /\ UNCHANGED <<task, order, orderJob, resolved, job, calls>>

End(k, outcome, pc) == exec' = [exec EXCEPT ![k].outcome = outcome, ![k].pc = pc]

-----------------------------------------------------------------------------
(***************************************************************************)
(* Preparation.                                                            *)
(***************************************************************************)

\* Mutant: only queued tasks are claimed.
ClaimQueued(k) ==
  /\ k = task.claims + 1
  /\ task.status = "queued"
  /\ task' = [task EXCEPT !.status = "running", !.claims = k,
                          !.owner = k, !.leased = TRUE]
  /\ exec' = [exec EXCEPT ![k] = [Unclaimed EXCEPT
       !.pc = "start", !.run = task.run, !.bill = task.run, !.req = task.job]]
  /\ UNCHANGED <<attempt, order, orderJob, resolved, job, calls, stopped>>

\* ClaimNextTask: a queued task, or a running one whose lease has lapsed.
ClaimNextTask(k) ==
  /\ k = task.claims + 1
  /\ task.status = "queued" \/ (task.status = "running" /\ ~ task.leased)
  /\ task' = [task EXCEPT !.status = "running", !.claims = k,
                          !.owner = k, !.leased = TRUE]
  /\ exec' = [exec EXCEPT ![k] = [Unclaimed EXCEPT
       !.pc = "start", !.run = task.run, !.bill = task.run, !.req = task.job]]
  /\ UNCHANGED <<attempt, order, orderJob, resolved, job, calls, stopped>>

\* The task is read again after the context is registered, and the progress
\* write is fenced: a cancelled or lost task is left alone.
Start(k) ==
  /\ At(k, "start")
  /\ IF Fenced(k) THEN Leave(k) ELSE Go(k, "route")
  /\ UNCHANGED attempt
  /\ UNCHANGED rowVars

\* beginTaskRouteAttempt, with one route per logical model: what an earlier
\* execution of this run left in route_attempts decides.
NewRouteAttempt(k) ==
  /\ attempt[exec[k].run].state \in {"none", "not_sent"}
  /\ \/ /\ attempt' = [attempt EXCEPT ![exec[k].run] = [state |-> "not_sent", req |-> NoJob]]
        /\ exec' = [exec EXCEPT ![k].fresh = TRUE, ![k].pc = "bill"]
     \/ End(k, "unprepared", "fail") /\ UNCHANGED attempt    \* no usable route
  /\ UNCHANGED task

KnownJob(k) == IF exec[k].req # NoJob THEN exec[k].req ELSE attempt[exec[k].run].req

\* Mutant: an attempt whose fate is unknown is dispatched again.
ResumeBlindly(k) ==
  /\ attempt[exec[k].run].state \in {"accepted", "submission_unknown"}
  /\ exec' = [exec EXCEPT ![k].req = KnownJob(k), ![k].pc = "bill"]
  /\ UNCHANGED <<task, attempt>>

ResumeRouteAttempt(k) ==
  /\ attempt[exec[k].run].state \in {"accepted", "submission_unknown"}
  /\ IF KnownJob(k) # NoJob
     THEN /\ attempt' = [attempt EXCEPT ![exec[k].run].state = "accepted"]
          /\ exec' = [exec EXCEPT ![k].req = KnownJob(k), ![k].pc = "bill"]
          /\ IF exec[k].req = NoJob THEN UpdateTaskProviderState(KnownJob(k))
                                    ELSE UNCHANGED task
     ELSE End(k, "unclear", "fail") /\ UNCHANGED <<task, attempt>>

\* A rejected attempt asks for another route, and there is none.
RejectedRouteAttempt(k) ==
  /\ attempt[exec[k].run].state = "rejected_no_job"
  /\ End(k, "unprepared", "fail")
  /\ UNCHANGED <<task, attempt>>

BeginTaskRouteAttempt(k) ==
  /\ At(k, "route")
  /\ IF Logical
     THEN NewRouteAttempt(k) \/ ResumeRouteAttempt(k) \/ RejectedRouteAttempt(k)
     ELSE Go(k, "bill") /\ UNCHANGED <<task, attempt>>
  /\ UNCHANGED <<order, orderJob, resolved, job, calls, stopped>>

\* MarkBillingRunning reads the order, and updates it only if it is reserved.
ReadBilling(k) ==
  /\ At(k, "bill")
  /\ Go(k, IF order[exec[k].run] = "running" THEN "dispatch" ELSE "mark")
  /\ UNCHANGED attempt
  /\ UNCHANGED rowVars

MarkBillingRunning(k) ==
  /\ At(k, "mark")
  /\ IF order[exec[k].run] = "reserved"
     THEN order' = [order EXCEPT ![exec[k].run] = "running"] /\ Go(k, "dispatch")
     ELSE End(k, "unprepared", "fail") /\ UNCHANGED order
  /\ UNCHANGED <<attempt, task, orderJob, resolved, job, calls, stopped>>

\* markRouteAttemptDispatching: in doubt before the request leaves.
MarkRouteAttemptDispatching(k) ==
  /\ At(k, "dispatch")
  /\ attempt' = IF exec[k].fresh
                THEN [attempt EXCEPT ![exec[k].run] =
                        [state |-> "submission_unknown", req |-> NoJob]]
                ELSE attempt
  /\ exec' = [exec EXCEPT ![k].fresh = FALSE, ![k].id = exec[k].req,
                          ![k].pc = IF exec[k].req = NoJob THEN "submit" ELSE "poll"]
  /\ UNCHANGED rowVars

-----------------------------------------------------------------------------
(***************************************************************************)
(* The provider call.  A job is never created when a task object carries a *)
(* job id: it is polled.                                                   *)
(***************************************************************************)
NewJobState == IF Async THEN "running" ELSE "succeeded"

MayCreateJob(k) ==
  \/ UNCHANGED job
  \/ \E j \in Jobs : FreshJob(j) /\ CreateJob(j, exec[k].run, NewJobState)

SubmitAccepted(k) ==
  /\ k \notin stopped
  /\ \E j \in Jobs :
       /\ FreshJob(j)
       /\ CreateJob(j, exec[k].run, NewJobState)
       /\ exec' = [exec EXCEPT ![k].id = IF Async THEN j ELSE NoJob,
                               ![k].outcome = IF Async THEN "" ELSE "ok",
                               ![k].pc = IF Async THEN "note" ELSE "log"]

\* The answer is lost, and with it whether a job exists.
SubmitLost(k) ==
  /\ k \notin stopped
  /\ MayCreateJob(k)
  /\ End(k, "timeout", "log")

SubmitRejected(k) ==
  /\ k \notin stopped
  /\ \E outcome \in {"refused", "failed", "slot"} : End(k, outcome, "log")
  /\ UNCHANGED job

SubmitStopped(k) ==
  /\ k \in stopped
  /\ \/ End(k, "stopped", "log") /\ MayCreateJob(k)
     \/ End(k, "stoppedWaiting", "log") /\ UNCHANGED job

Submit(k) ==
  /\ At(k, "submit")
  /\ SubmitAccepted(k) \/ SubmitLost(k) \/ SubmitRejected(k) \/ SubmitStopped(k)
  /\ UNCHANGED <<attempt, task, order, orderJob, resolved, calls, stopped>>

\* recordProviderRequest -> LogAPICall, three writes: the id onto the order,
\* the id onto the task whoever owns it by now, the call into api_call_logs.
NoteBillingJob(k) ==
  /\ At(k, "note")
  /\ UpdateBillingJob(exec[k].run, exec[k].id)
  /\ Go(k, "stamp")
  /\ UNCHANGED <<attempt, task, order, resolved, job, calls, stopped>>

StampTask(k) ==
  /\ At(k, "stamp")
  /\ UpdateTaskProviderState(exec[k].id)
  /\ Go(k, "log")
  /\ UNCHANGED <<attempt, order, orderJob, resolved, job, calls, stopped>>

LogAPICall(k) ==
  /\ At(k, "log")
  /\ Record(CreateRow(exec[k].id,
                      IF exec[k].outcome \in {"", "ok"} THEN "succeeded" ELSE "failed"),
            exec[k].run, exec[k].outcome \in WaitFailures)
  /\ Go(k, IF exec[k].outcome = "" THEN "poll" ELSE "finish")
  /\ UNCHANGED <<attempt, task, orderJob, resolved, job, stopped>>

\* What a poll can answer; an error tells nothing about the job.
PollAnswers(k) ==
  IF k \in stopped THEN {"stopped", "stoppedWaiting"}
  ELSE {"timeout", "failed"}
       \cup (IF Enabled("pollslot") THEN {"slot"} ELSE {})
       \cup (CASE JobState(exec[k].id) = "succeeded" -> {"ok"}
               [] JobState(exec[k].id) = "running"   -> {""}
               [] OTHER -> {})

\* How the log may put it: an error can lie in the request or in the answer.
LoggedSuccess(answer) ==
  IF answer \in {"", "ok"} THEN {TRUE}
  ELSE IF answer \in WaitFailures THEN {FALSE} ELSE BOOLEAN

\* A poll is recorded like a submission: the same three writes, in one step.
Poll(k) ==
  /\ At(k, "poll")
  /\ \E answer \in PollAnswers(k) :
       /\ End(k, answer, IF answer = "" THEN "poll" ELSE "finish")
       /\ \E succeeded \in LoggedSuccess(answer) :
            Record(PollRow(exec[k].id, succeeded), exec[k].run, answer \in WaitFailures)
  /\ RecordJob(exec[k].run, exec[k].id)
  /\ UNCHANGED <<attempt, resolved, job, stopped>>

\* The renewing goroutine finds the lease gone and cancels the context.
RenewFails(k) ==
  /\ exec[k].pc \in {"submit", "poll", "finish"}
  /\ Fenced(k) /\ ~ exec[k].lost
  /\ exec' = [exec EXCEPT ![k].lost = TRUE]
  /\ stopped' = stopped \cup {k}
  /\ UNCHANGED <<attempt, task, order, orderJob, resolved, job, calls>>

\* refreshTaskProviderState, then finishTaskRouteAttempt, then the lost lease.
RefreshedJob(k) == IF task.job # NoJob THEN task.job ELSE exec[k].req

FinishedAttempt(k) ==
  [state |-> IF exec[k].outcome = "ok" \/ RefreshedJob(k) # NoJob THEN "accepted"
             ELSE IF exec[k].outcome \in {"refused", "slot", "stoppedWaiting"}
             THEN "rejected_no_job" ELSE "submission_unknown",
   req   |-> RefreshedJob(k)]

FinishTaskRouteAttempt(k) ==
  /\ At(k, "finish")
  /\ attempt' = IF Logical THEN [attempt EXCEPT ![exec[k].run] = FinishedAttempt(k)]
                ELSE attempt
  /\ \/ /\ exec[k].lost
        /\ Leave(k)
     \/ /\ ~ exec[k].lost
        /\ exec' = [exec EXCEPT ![k].req = RefreshedJob(k),
                                ![k].pc = IF exec[k].outcome = "ok" THEN "save" ELSE "fail"]
     \/ /\ ~ exec[k].lost /\ exec[k].outcome = "ok"
        /\ Enabled("unsaved")
        /\ exec' = [exec EXCEPT ![k].req = RefreshedJob(k),
                                ![k].outcome = "unsaved", ![k].pc = "fail"]
  /\ Forget(k)

-----------------------------------------------------------------------------
(***************************************************************************)
(* The terminal state and the money.                                       *)
(***************************************************************************)
Cancels(k) == exec[k].outcome \in {"stopped", "stoppedWaiting"}

\* Mutant: a conflict does not keep the execution from the order.
ConcludeRegardless(k, status, pc) ==
  IF Fenced(k)
  THEN Go(k, pc) /\ UNCHANGED task
  ELSE /\ WriteTerminalState(k, status)
       /\ exec' = [exec EXCEPT ![k].won = TRUE, ![k].pc = pc]

\* markTerminalState; a conflict ends the execution without touching the order.
Conclude(k, status, pc) ==
  IF Fenced(k)
  THEN Leave(k) /\ UNCHANGED task
  ELSE /\ WriteTerminalState(k, status)
       /\ exec' = [exec EXCEPT ![k].won = TRUE, ![k].pc = pc]

\* ensureFailedProviderAttemptLogged: a failure of which the log has no row.
EnsureAttemptLogged(k) ==
  /\ At(k, "fail")
  /\ IF Cancels(k) \/ calls.any THEN UNCHANGED <<task, orderJob, calls>>
     ELSE /\ RecordJob(exec[k].run, exec[k].req)
          /\ \/ calls' = CreateRow(exec[k].req, "internal")
             \/ Enabled("logfail") /\ UNCHANGED calls
  /\ Go(k, "conclude")
  /\ UNCHANGED <<attempt, order, resolved, job, stopped>>

\* handleExecutionFailure and markPreparationFailure up to the terminal write.
HandleExecutionFailure(k) ==
  /\ At(k, "conclude")
  /\ IF Cancels(k) THEN Conclude(k, "cancelled", "decide")
                   ELSE Conclude(k, "failed", "decide")
  /\ UNCHANGED <<attempt, order, orderJob, resolved, job, calls, stopped>>

\* DeferRunningTaskForProviderPoll, on one protocol: the wait for a job of known
\* id timed out, the row is handed back and claimed again later.  Bound: the last
\* claim is not handed back.
DeferRunningTask(k) ==
  /\ At(k, "fail")
  /\ Enabled("defer") /\ k < MaxClaims
  /\ exec[k].outcome \in {"timeout", "slot"} /\ exec[k].req # NoJob
  /\ IF Fenced(k) THEN UNCHANGED task
     ELSE task' = [task EXCEPT !.owner = NoOwner, !.leased = FALSE]
  /\ Leave(k)
  /\ UNCHANGED <<attempt, order, orderJob, resolved, job, calls, stopped>>

\* BillingFailureRequiresReview.
BillingFailureRequiresReview(k) ==
  \/ exec[k].outcome = "timeout"
  \/ order[exec[k].bill] = "uncertain"
  \/ HasBillableCall

\* Mutant: only the error text is looked at.
ReviewByError(k) ==
  exec[k].outcome \in {"unsaved", "unclear", "stopped", "timeout"}

RequiresReview(k) ==
  \/ exec[k].outcome \in {"unsaved", "unclear", "stopped"}
  \/ /\ exec[k].outcome \in {"refused", "failed", "timeout"}
     /\ BillingFailureRequiresReview(k)

DecideBilling(k) ==
  /\ At(k, "decide")
  /\ Go(k, IF RequiresReview(k) THEN "review" ELSE "refund")
  /\ UNCHANGED attempt
  /\ UNCHANGED rowVars

RefundTask(k) ==
  /\ At(k, "refund")
  /\ RefundBilling(exec[k].bill)
  /\ Leave(k)
  /\ UNCHANGED <<attempt, task, orderJob, resolved, job, calls, stopped>>

ReviewTask(k) ==
  /\ At(k, "review")
  /\ MarkBillingUncertain(exec[k].bill)
  /\ Leave(k)
  /\ UNCHANGED <<attempt, task, orderJob, resolved, job, calls, stopped>>

\* The row is read again before a result is saved; a cancelled one gets its
\* CURRENT order reviewed (handleCancelledResult).
ReadBeforeSave(k) ==
  /\ At(k, "save")
  /\ exec' = IF task.status = "cancelled"
             THEN [exec EXCEPT ![k].bill = task.run, ![k].pc = "review"]
             ELSE [exec EXCEPT ![k].pc = "store"]
  /\ UNCHANGED attempt
  /\ UNCHANGED rowVars

\* Mutant: the result is saved by id, whatever the row says.
SaveUnconditionally(k) ==
  /\ At(k, "store")
  /\ task' = [task EXCEPT !.status = "succeeded", !.job = exec[k].req]
  /\ exec' = [exec EXCEPT ![k].won = TRUE, ![k].pc = "settle"]
  /\ UNCHANGED <<attempt, order, orderJob, resolved, job, calls, stopped>>

\* SaveTaskCompletion writes the whole row as the execution knows it.
SaveTaskCompletion(k) ==
  /\ At(k, "store")
  /\ IF ~ Fenced(k)
     THEN /\ task' = [task EXCEPT !.status = "succeeded", !.job = exec[k].req]
          /\ exec' = [exec EXCEPT ![k].won = TRUE, ![k].pc = "settle"]
     ELSE /\ IF task.status = "cancelled"
             THEN exec' = [exec EXCEPT ![k].bill = task.run, ![k].pc = "review"]
             ELSE Leave(k)
          /\ UNCHANGED task
  /\ UNCHANGED <<attempt, order, orderJob, resolved, job, calls, stopped>>

\* The storage quota refuses the result: failed, and up for review.
SaveRefused(k) ==
  /\ At(k, "store")
  /\ Enabled("unsaved")
  /\ End(k, "unsaved", "fail")
  /\ UNCHANGED attempt
  /\ UNCHANGED rowVars

\* handleSuccess: settle, or put up for review what cannot be settled.
SettleTask(k) ==
  /\ At(k, "settle")
  /\ IF order[exec[k].bill] = "refunded" THEN Go(k, "review") /\ UNCHANGED order
     ELSE \/ SettleBilling(exec[k].bill) /\ Leave(k)
          \/ Enabled("nousage") /\ Go(k, "review") /\ UNCHANGED order
  /\ UNCHANGED <<attempt, task, orderJob, resolved, job, calls, stopped>>

-----------------------------------------------------------------------------
\* The process dies; its lease stays until it expires.  Bound: the last claim
\* does not crash.
CrashWorker(k) ==
  /\ Enabled("crash") /\ k < MaxClaims
  /\ Alive(k)
  /\ Leave(k)
  /\ UNCHANGED attempt
  /\ Forget(k)

Prepare(k) ==
  \/ Start(k) \/ BeginTaskRouteAttempt(k) \/ ReadBilling(k)
  \/ MarkBillingRunning(k) \/ MarkRouteAttemptDispatching(k)

Call(k) ==
  \/ Submit(k) \/ NoteBillingJob(k) \/ StampTask(k) \/ LogAPICall(k)
  \/ Poll(k) \/ RenewFails(k) \/ FinishTaskRouteAttempt(k)

Bill(k) ==
  \/ EnsureAttemptLogged(k) \/ HandleExecutionFailure(k) \/ DeferRunningTask(k) \/ DecideBilling(k)
  \/ RefundTask(k) \/ ReviewTask(k) \/ ReadBeforeSave(k)
  \/ SaveTaskCompletion(k) \/ SaveRefused(k) \/ SettleTask(k)

Execute(k) == Prepare(k) \/ Call(k) \/ Bill(k)
=============================================================================
