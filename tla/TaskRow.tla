------------------------------ MODULE TaskRow ------------------------------
(***************************************************************************)
(* What the parts of the generation service share about ONE task: its row  *)
(* in the table tasks, the billing order of each of its runs, the provider *)
(* calls logged for it and the jobs it has at the upstream provider.       *)
(*                                                                         *)
(* A run is what a retry starts: route_run grows by one and a new billing  *)
(* order is reserved, so run r and order r are numbered alike.  A claim is *)
(* what a worker gets from ClaimNextTask; claims are numbered by the       *)
(* column attempts, and the number stands for the unique lease owner token *)
(* of the claim.  Times are not modelled: a lease is live or expired, and  *)
(* next_poll_at, next_check_at and their like have always come.            *)
(*                                                                         *)
(* Order rows are changed in one step each: CreditLedger models the        *)
(* transactions behind these steps and the account they move.              *)
(***************************************************************************)
EXTENDS Integers

CONSTANTS
  MaxRuns,     \* bound: runs of the task (1 + retries)
  MaxClaims,   \* bound: claims by workers, over all runs
  MaxJobs,     \* bound: jobs ever created upstream
  MaxChecks,   \* providerCancellationMaxAttempts (41 in the code)
  Features     \* which actors and failures the instance has, see below

ASSUME TaskRowAssumption ==
  /\ MaxRuns \in Nat \ {0}
  /\ MaxClaims \in Nat
  /\ MaxJobs \in Nat
  /\ MaxChecks \in Nat \ {0}

Enabled(feature) == feature \in Features

Runs   == 1 .. MaxRuns
Claims == 1 .. MaxClaims
Jobs   == 1 .. MaxJobs

TaskStatuses   == {"queued", "running", "succeeded", "failed", "cancelled"}
Terminal       == {"succeeded", "failed", "cancelled"}
CancelStatuses == {"", "requested", "confirmed", "uncertain"}
OrderStatuses  == {"none", "reserved", "running", "uncertain", "settled", "refunded"}
Open           == {"reserved", "running", "uncertain"}
JobStates      == {"none", "running", "succeeded", "failed", "cancelled"}

\* Lease owners besides the claims: "" and the two background holders.
NoOwner    == 0
Reconciler == -1   \* "provider-cancel:<worker>"
Recovery   == -2   \* "manual-recovery:<id>"
Owners     == Claims \cup {NoOwner, Reconciler, Recovery}

NoJob == 0

VARIABLES
  task,      \* the row of table tasks
  order,     \* run -> status of its billing order
  orderJob,  \* run -> provider_request_id of its billing order
  resolved,  \* runs whose order an administrator has resolved
  job,       \* job -> [run, state] at the provider
  calls,     \* api_call_logs of the task
  stopped    \* claims whose context was cancelled (activeCancels, lost leases)

rowVars == <<task, order, orderJob, resolved, job, calls, stopped>>

\* What is asked of the log: the job named by its newest row, whether it has a
\* row, the state of its newest "create" row ("internal" is the row written for
\* a failure nobody has logged), and whether an older one counts as successful.
CallLogs ==
  [latest : Jobs \cup {NoJob},
   any    : BOOLEAN,
   create : {"none", "succeeded", "failed", "internal"},
   older  : BOOLEAN]

TaskRows ==
  [status : TaskStatuses,
   run    : Runs,                \* route_run, and so billing_order_id
   claims : 0 .. MaxClaims,      \* attempts
   owner  : Owners,              \* lease_owner
   leased : BOOLEAN,             \* lease_expires_at is in the future
   job    : Jobs \cup {NoJob},   \* provider_request_id
   cancel : CancelStatuses,      \* provider_cancel_status
   checks : 0 .. MaxChecks]      \* provider_cancel_attempts

RowTypeOK ==
  /\ task \in TaskRows
  /\ order \in [Runs -> OrderStatuses]
  /\ orderJob \in [Runs -> Jobs \cup {NoJob}]
  /\ resolved \subseteq Runs
  /\ job \in [Jobs -> [run : Runs, state : JobStates]]
  /\ calls \in CallLogs
  /\ stopped \subseteq Claims

\* CreateTaskWithCreditReservation has queued the task and reserved its order.
RowInit ==
  /\ task = [status |-> "queued", run |-> 1, claims |-> 0, owner |-> NoOwner,
             leased |-> FALSE, job |-> NoJob, cancel |-> "", checks |-> 0]
  /\ order = [r \in Runs |-> IF r = 1 THEN "reserved" ELSE "none"]
  /\ orderJob = [r \in Runs |-> NoJob]
  /\ resolved = {}
  /\ job = [j \in Jobs |-> [run |-> 1, state |-> "none"]]
  /\ calls = [latest |-> NoJob, any |-> FALSE, create |-> "none", older |-> FALSE]
  /\ stopped = {}

-----------------------------------------------------------------------------
(***************************************************************************)
(* Conditional updates.                                                    *)
(***************************************************************************)

\* taskLeaseWriter: the row still belongs to this owner and its lease lives.
Fence(owner) == task.owner = owner /\ task.leased

\* UpdateTaskTerminalState: every running -> terminal write of a worker.
WriteTerminalState(owner, status) ==
  /\ Fence(owner) /\ task.status = "running"
  /\ task' = [task EXCEPT !.status = status, !.owner = NoOwner, !.leased = FALSE]

\* Any write that names the lease found another owner, or the lease expired.
Fenced(owner) == ~ (Fence(owner) /\ task.status = "running")

\* UpdateTaskProviderState: WHERE id = ?, whatever the status and the owner.
UpdateTaskProviderState(j) ==
  task' = [task EXCEPT !.job = IF j = NoJob THEN @ ELSE j]

\* UpdateBillingProviderRequestID: an empty id is not written.
UpdateBillingJob(r, j) ==
  orderJob' = [orderJob EXCEPT ![r] = IF j = NoJob THEN @ ELSE j]

\* UpdateTaskProviderCancellation: requested -> status, the lease is dropped.
CancellationIsOpen == task.status = "cancelled" /\ task.cancel = "requested"
UpdateTaskProviderCancellation(status) ==
  task' = [task EXCEPT !.cancel = status, !.owner = NoOwner, !.leased = FALSE]

\* hydrateTaskProviderRequestID: the job a row, its order, or else the latest
\* call logged for the TASK names.
HydratedJob(row) ==
  IF row.job # NoJob THEN row.job
  ELSE IF orderJob[row.run] # NoJob THEN orderJob[row.run]
  ELSE calls.latest

-----------------------------------------------------------------------------
(***************************************************************************)
(* Billing orders.                                                         *)
(***************************************************************************)
MarkBillingUncertain(r) ==
  order' = [order EXCEPT ![r] = IF @ \in {"reserved", "running"} THEN "uncertain" ELSE @]

\* Refunding a refunded order is a no-op, a settled one an error.
RefundBilling(r) ==
  order' = [order EXCEPT ![r] = IF @ \in Open THEN "refunded" ELSE @]

SettleBilling(r) ==
  order' = [order EXCEPT ![r] = IF @ \in Open THEN "settled" ELSE @]

-----------------------------------------------------------------------------
(***************************************************************************)
(* The log of provider calls, written by everyone who calls the provider.  *)
(***************************************************************************)

\* TaskHasSuccessfulBillableCall
HasBillableCall == calls.create = "succeeded" \/ calls.older

RowNaming(j) ==
  [calls EXCEPT !.any = TRUE, !.latest = IF j = NoJob THEN @ ELSE j]

CreateRow(j, state) ==
  [RowNaming(j) EXCEPT !.create = state, !.older = HasBillableCall]

\* mergeVideoAPICallLog: a poll of a video task is merged into the newest create
\* row, whose status becomes that of the poll.
PollRow(j, succeeded) ==
  [RowNaming(j) EXCEPT !.create =
     IF Enabled("video") /\ @ \in {"succeeded", "failed"}
     THEN (IF succeeded THEN "succeeded" ELSE "failed") ELSE @]

\* recordProviderRequest: a row that cannot be written puts the order of run r
\* up for review, unless the call never got its channel slot.
Record(row, r, slotFailed) ==
  \/ calls' = row /\ UNCHANGED order
  \/ /\ Enabled("logfail")
     /\ UNCHANGED calls
     /\ IF slotFailed THEN UNCHANGED order ELSE MarkBillingUncertain(r)

\* LogAPICall: before the row, the id goes onto the order and onto the task,
\* whoever owns it by now.
RecordJob(r, j) == UpdateBillingJob(r, j) /\ UpdateTaskProviderState(j)

-----------------------------------------------------------------------------
\* The provider: it ends a job it accepted, for better or worse.
JobEnds(j) ==
  /\ job[j].state = "running"
  /\ \E state \in {"succeeded", "failed"} : job' = [job EXCEPT ![j].state = state]
  /\ UNCHANGED <<task, order, orderJob, resolved, calls, stopped>>

\* Jobs are numbered as the provider creates them.
FreshJob(j) == \A i \in Jobs : (job[i].state = "none") <=> (i >= j)
JobState(j) == IF j = NoJob THEN "none" ELSE job[j].state
CreateJob(j, r, state) == job' = [job EXCEPT ![j] = [run |-> r, state |-> state]]
=============================================================================
