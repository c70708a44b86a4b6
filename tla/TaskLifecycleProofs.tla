------------------------ MODULE TaskLifecycleProofs ------------------------
(***************************************************************************)
(* Theorems about TaskLifecycle, for every number of runs, claims and      *)
(* jobs, every set of cancelling requests and every set of features; those *)
(* about money and jobs name the features they need to be off.             *)
(***************************************************************************)
EXTENDS TaskLifecycle, TLAPS

\* The part of RowTypeOK that is not about the row.
TablesOK ==
  /\ order \in [Runs -> OrderStatuses]
  /\ orderJob \in [Runs -> Jobs \cup {NoJob}]
  /\ resolved \subseteq Runs
  /\ job \in [Jobs -> [run : Runs, state : JobStates]]
  /\ calls \in CallLogs
  /\ stopped \subseteq Claims

(***************************************************************************)
(* What a step can do to the row and to the executions.                    *)
(***************************************************************************)
ExecKeeps ==
  /\ exec' \in [Claims -> Executions]
  /\ \A l \in Claims : exec'[l].run = exec[l].run /\ exec'[l].won = exec[l].won

OwnerKeeps == task'.owner = task.owner \/ task'.owner \notin Claims

RowKeeps ==
  /\ task' \in TaskRows
  /\ task'.run = task.run /\ task'.status = task.status
  /\ OwnerKeeps

\* A worker's terminal write hits the row it still holds.
Wins(k) ==
  /\ exec' \in [Claims -> Executions]
  /\ \A l \in Claims : exec'[l].run = exec[l].run
  /\ \A l \in Claims \ {k} : exec'[l].won = exec[l].won
  /\ task' \in TaskRows
  /\ task.owner = k /\ task.status = "running"
  /\ task'.run = task.run /\ task'.status \in Terminal
  /\ OwnerKeeps

Claimed(k) ==
  /\ exec' \in [Claims -> Executions]
  /\ exec'[k].run = task.run /\ exec'[k].won = FALSE
  /\ \A l \in Claims \ {k} : exec'[l] = exec[l]
  /\ task' \in TaskRows
  /\ task.status \notin Terminal /\ task'.status = "running"
  /\ task'.run = task.run /\ task'.owner = k

WorkerMoves(k) ==
  /\ TablesOK'
  /\ attempt' \in [Runs -> Attempts]
  /\ (ExecKeeps /\ RowKeeps) \/ Wins(k) \/ Claimed(k)

LEMMA LeaveKeeps ==
  ASSUME TypeOK, NEW k \in Claims, Leave(k)
  PROVE  ExecKeeps
<1>1. 1 \in Runs
  BY TaskRowAssumption DEF Runs
<1>2. exec \in [Claims -> Executions] /\ exec[k].run \in Runs /\ exec[k].won \in BOOLEAN
  BY DEF TypeOK, WorkerTypeOK, Executions
<1>3. [Unclaimed EXCEPT !.pc = "done", !.run = exec[k].run, !.won = exec[k].won]
        \in Executions
  BY <1>1, <1>2 DEF Unclaimed, Executions, PCs, Outcomes, NoJob
<1>4. QED
  BY <1>2, <1>3 DEF Leave, ExecKeeps, Unclaimed

LEMMA GoKeeps ==
  ASSUME TypeOK, NEW k \in Claims, NEW pc \in PCs, Go(k, pc)
  PROVE  ExecKeeps
BY DEF TypeOK, WorkerTypeOK, Go, ExecKeeps, Executions

LEMMA EndKeeps ==
  ASSUME TypeOK, NEW k \in Claims, NEW pc \in PCs, NEW outcome \in Outcomes,
         End(k, outcome, pc)
  PROVE  ExecKeeps
BY DEF TypeOK, WorkerTypeOK, End, ExecKeeps, Executions

LEMMA SameRow == ASSUME TypeOK, UNCHANGED task PROVE RowKeeps
BY DEF TypeOK, RowTypeOK, RowKeeps, OwnerKeeps

LEMMA SameTables ==
  ASSUME TypeOK, UNCHANGED <<order, orderJob, resolved, job, calls, stopped>>
  PROVE  TablesOK'
BY DEF TypeOK, RowTypeOK, TablesOK

LEMMA ClaimMoves ==
  ASSUME TypeOK, NEW k \in Claims, ClaimNextTask(k)
  PROVE  WorkerMoves(k)
<1>1. TablesOK' /\ attempt' \in [Runs -> Attempts]
  BY SameTables DEF ClaimNextTask, TypeOK, WorkerTypeOK
<1>2. task' \in TaskRows
  <2>1. k \in 0 .. MaxClaims /\ k \in Owners /\ "running" \in TaskStatuses
    BY TaskRowAssumption DEF Claims, Owners, TaskStatuses
  <2>2. task \in TaskRows
    BY DEF TypeOK, RowTypeOK
  <2>3. QED
    BY <2>1, <2>2 DEF ClaimNextTask, TaskRows
<1>3. /\ task.status \notin Terminal /\ task'.status = "running"
      /\ task'.run = task.run /\ task'.owner = k
  BY DEF ClaimNextTask, TypeOK, RowTypeOK, TaskRows, Terminal
<1>4. [Unclaimed EXCEPT !.pc = "start", !.run = task.run, !.bill = task.run,
                        !.req = task.job] \in Executions
  BY DEF TypeOK, RowTypeOK, TaskRows, Unclaimed, Executions, PCs, Outcomes, NoJob
<1>5. exec \in [Claims -> Executions]
  BY DEF TypeOK, WorkerTypeOK
<1>6. /\ exec' \in [Claims -> Executions]
      /\ exec'[k].run = task.run /\ exec'[k].won = FALSE
      /\ \A l \in Claims \ {k} : exec'[l] = exec[l]
  BY <1>4, <1>5 DEF ClaimNextTask, Unclaimed
<1>7. QED
  BY <1>1, <1>2, <1>3, <1>6 DEF WorkerMoves, Claimed

\* A step that leaves everything alone but the execution.
LEMMA PrivateMoves ==
  ASSUME TypeOK, NEW k \in Claims, ExecKeeps, UNCHANGED attempt, UNCHANGED rowVars
  PROVE  WorkerMoves(k)
BY SameRow, SameTables DEF WorkerMoves, rowVars, TypeOK, WorkerTypeOK

LEMMA StartMoves ==
  ASSUME TypeOK, NEW k \in Claims, Start(k)
  PROVE  WorkerMoves(k)
<1>1. "route" \in PCs
  BY DEF PCs
<1>2. ExecKeeps
  BY <1>1, LeaveKeeps, GoKeeps DEF Start
<1>3. QED
  BY <1>2, PrivateMoves DEF Start

LEMMA KnownJobType ==
  ASSUME TypeOK, NEW k \in Claims
  PROVE  KnownJob(k) \in Jobs \cup {NoJob}
BY DEF KnownJob, TypeOK, WorkerTypeOK, Executions, Attempts

\* UpdateTaskProviderState touches nothing but the job.
LEMMA ProviderStateKeeps ==
  ASSUME TypeOK, NEW j \in Jobs \cup {NoJob}, UpdateTaskProviderState(j)
  PROVE  RowKeeps
BY DEF TypeOK, RowTypeOK, UpdateTaskProviderState, RowKeeps, OwnerKeeps, TaskRows

LEMMA RouteMoves ==
  ASSUME TypeOK, NEW k \in Claims, BeginTaskRouteAttempt(k)
  PROVE  WorkerMoves(k)
<1>1. TablesOK'
  BY SameTables DEF BeginTaskRouteAttempt
<1>2. /\ attempt \in [Runs -> Attempts] /\ exec \in [Claims -> Executions]
      /\ exec[k].run \in Runs
  BY DEF TypeOK, WorkerTypeOK, Executions
<1>3. {"bill", "fail"} \subseteq PCs /\ {"unprepared", "unclear"} \subseteq Outcomes
  BY DEF PCs, Outcomes
<1>4. CASE NewRouteAttempt(k)
  <2>1. attempt' \in [Runs -> Attempts]
    BY <1>2, <1>4 DEF NewRouteAttempt, Attempts, AttemptStates, NoJob
  <2>2. ExecKeeps
    <3>1. CASE exec' = [exec EXCEPT ![k].fresh = TRUE, ![k].pc = "bill"]
      BY <1>2, <1>3, <3>1 DEF ExecKeeps, Executions
    <3>2. CASE End(k, "unprepared", "fail")
      BY <1>3, <3>2, EndKeeps
    <3>3. QED
      BY <1>4, <3>1, <3>2 DEF NewRouteAttempt
  <2>3. RowKeeps
    BY <1>4, SameRow DEF NewRouteAttempt
  <2>4. QED
    BY <1>1, <2>1, <2>2, <2>3 DEF WorkerMoves
<1>5. CASE ResumeRouteAttempt(k)
  <2>1. CASE KnownJob(k) # NoJob
    <3>1. attempt' = [attempt EXCEPT ![exec[k].run].state = "accepted"]
      BY <1>5, <2>1 DEF ResumeRouteAttempt
    <3>2. attempt' \in [Runs -> Attempts]
      BY <1>2, <3>1 DEF Attempts, AttemptStates
    <3>3. exec' = [exec EXCEPT ![k].req = KnownJob(k), ![k].pc = "bill"]
      BY <1>5, <2>1 DEF ResumeRouteAttempt
    <3>4. ExecKeeps
      BY <1>2, <1>3, <3>3, KnownJobType DEF ExecKeeps, Executions
    <3>5. RowKeeps
      BY <1>5, <2>1, KnownJobType, ProviderStateKeeps, SameRow DEF ResumeRouteAttempt
    <3>6. QED
      BY <1>1, <3>2, <3>4, <3>5 DEF WorkerMoves
  <2>2. CASE KnownJob(k) = NoJob
    <3>1. ExecKeeps
      BY <1>3, <1>5, <2>2, EndKeeps DEF ResumeRouteAttempt
    <3>2. QED
      BY <1>1, <1>2, <1>5, <2>2, <3>1, SameRow DEF ResumeRouteAttempt, WorkerMoves
  <2>3. QED
    BY <2>1, <2>2
<1>6. CASE RejectedRouteAttempt(k)
  <2>1. ExecKeeps
    BY <1>3, <1>6, EndKeeps DEF RejectedRouteAttempt
  <2>2. QED
    BY <1>1, <1>2, <1>6, <2>1, SameRow DEF RejectedRouteAttempt, WorkerMoves
<1>7. CASE Go(k, "bill") /\ UNCHANGED <<task, attempt>>
  <2>1. ExecKeeps
    BY <1>3, <1>7, GoKeeps
  <2>2. QED
    BY <1>1, <1>2, <1>7, <2>1, SameRow DEF WorkerMoves
<1>8. QED
  BY <1>4, <1>5, <1>6, <1>7 DEF BeginTaskRouteAttempt

LEMMA ReadBillingMoves ==
  ASSUME TypeOK, NEW k \in Claims, ReadBilling(k)
  PROVE  WorkerMoves(k)
<1>1. "dispatch" \in PCs /\ "mark" \in PCs
  BY DEF PCs
<1>2. ExecKeeps
  BY <1>1, GoKeeps DEF ReadBilling
<1>3. QED
  BY <1>2, PrivateMoves DEF ReadBilling

\* The order changes and nothing else of the row's tables.
LEMMA OrderTables ==
  ASSUME TypeOK, order' \in [Runs -> OrderStatuses],
         UNCHANGED <<orderJob, resolved, job, calls, stopped>>
  PROVE  TablesOK'
BY DEF TypeOK, RowTypeOK, TablesOK

LEMMA MarkMoves ==
  ASSUME TypeOK, NEW k \in Claims, MarkBillingRunning(k)
  PROVE  WorkerMoves(k)
<1>1. "dispatch" \in PCs /\ "fail" \in PCs /\ "unprepared" \in Outcomes
  BY DEF PCs, Outcomes
<1>2. ExecKeeps
  BY <1>1, GoKeeps, EndKeeps DEF MarkBillingRunning
<1>3. order' \in [Runs -> OrderStatuses]
  BY DEF MarkBillingRunning, TypeOK, RowTypeOK, OrderStatuses
<1>4. TablesOK' /\ RowKeeps
  BY <1>3, OrderTables, SameRow DEF MarkBillingRunning
<1>5. QED
  BY <1>2, <1>4 DEF WorkerMoves, MarkBillingRunning, TypeOK, WorkerTypeOK

LEMMA DispatchMoves ==
  ASSUME TypeOK, NEW k \in Claims, MarkRouteAttemptDispatching(k)
  PROVE  WorkerMoves(k)
<1>1. exec \in [Claims -> Executions] /\ exec[k] \in Executions /\ attempt \in [Runs -> Attempts]
  BY DEF TypeOK, WorkerTypeOK
<1>2. attempt' \in [Runs -> Attempts]
  BY <1>1 DEF MarkRouteAttemptDispatching, Attempts, AttemptStates, Executions, NoJob
<1>3. ExecKeeps
  BY <1>1 DEF MarkRouteAttemptDispatching, ExecKeeps, Executions, PCs
<1>4. TablesOK' /\ RowKeeps
  BY SameRow, SameTables DEF MarkRouteAttemptDispatching, rowVars
<1>5. QED
  BY <1>2, <1>3, <1>4 DEF WorkerMoves

LEMMA NewJobType ==
  ASSUME TypeOK, NEW j \in Jobs, NEW r \in Runs, NEW state \in JobStates,
         CreateJob(j, r, state)
  PROVE  job' \in [Jobs -> [run : Runs, state : JobStates]]
BY DEF CreateJob, TypeOK, RowTypeOK

LEMMA JobTables ==
  ASSUME TypeOK, job' \in [Jobs -> [run : Runs, state : JobStates]],
         UNCHANGED <<order, orderJob, resolved, calls, stopped>>
  PROVE  TablesOK'
BY DEF TypeOK, RowTypeOK, TablesOK

LEMMA SubmitMoves ==
  ASSUME TypeOK, NEW k \in Claims, Submit(k)
  PROVE  WorkerMoves(k)
<1>1. /\ exec \in [Claims -> Executions] /\ exec[k] \in Executions /\ exec[k].run \in Runs
      /\ job \in [Jobs -> [run : Runs, state : JobStates]]
  BY DEF TypeOK, WorkerTypeOK, RowTypeOK, Executions
<1>2. NewJobState \in JobStates
  BY DEF NewJobState, JobStates
<1>3. /\ "log" \in PCs
      /\ {"timeout", "refused", "failed", "slot", "stopped", "stoppedWaiting"} \subseteq Outcomes
  BY DEF PCs, Outcomes
<1>4. MayCreateJob(k) => job' \in [Jobs -> [run : Runs, state : JobStates]]
  BY <1>1, <1>2, NewJobType DEF MayCreateJob
<1>5. ASSUME SubmitAccepted(k)
      PROVE  ExecKeeps /\ job' \in [Jobs -> [run : Runs, state : JobStates]]
  <2>1. PICK j \in Jobs :
          /\ CreateJob(j, exec[k].run, NewJobState)
          /\ exec' = [exec EXCEPT ![k].id = IF Async THEN j ELSE NoJob,
                                 ![k].outcome = IF Async THEN "" ELSE "ok",
                                 ![k].pc = IF Async THEN "note" ELSE "log"]
    BY <1>5 DEF SubmitAccepted
  <2>2. ExecKeeps
    BY <1>1, <2>1 DEF ExecKeeps, Executions, PCs, Outcomes
  <2>3. job' \in [Jobs -> [run : Runs, state : JobStates]]
    BY <1>1, <1>2, <2>1, NewJobType
  <2>4. QED
    BY <2>2, <2>3
<1>6. ASSUME SubmitLost(k)
      PROVE  ExecKeeps /\ job' \in [Jobs -> [run : Runs, state : JobStates]]
  BY <1>3, <1>4, <1>6, EndKeeps DEF SubmitLost
<1>7. ASSUME SubmitRejected(k)
      PROVE  ExecKeeps /\ job' \in [Jobs -> [run : Runs, state : JobStates]]
  BY <1>1, <1>3, <1>7, EndKeeps DEF SubmitRejected
<1>8. ASSUME SubmitStopped(k)
      PROVE  ExecKeeps /\ job' \in [Jobs -> [run : Runs, state : JobStates]]
  BY <1>1, <1>3, <1>4, <1>8, EndKeeps DEF SubmitStopped
<1>9. ExecKeeps /\ job' \in [Jobs -> [run : Runs, state : JobStates]]
  BY <1>5, <1>6, <1>7, <1>8 DEF Submit
<1>10. TablesOK' /\ RowKeeps
  BY <1>9, JobTables, SameRow DEF Submit
<1>11. QED
  BY <1>9, <1>10 DEF WorkerMoves, Submit, TypeOK, WorkerTypeOK

LEMMA BillingJobType ==
  ASSUME TypeOK, NEW r \in Runs, NEW j \in Jobs \cup {NoJob}, UpdateBillingJob(r, j)
  PROVE  orderJob' \in [Runs -> Jobs \cup {NoJob}]
BY DEF UpdateBillingJob, TypeOK, RowTypeOK

LEMMA NoteMoves ==
  ASSUME TypeOK, NEW k \in Claims, NoteBillingJob(k)
  PROVE  WorkerMoves(k)
<1>1. exec[k].run \in Runs /\ exec[k].id \in Jobs \cup {NoJob} /\ "stamp" \in PCs
  BY DEF TypeOK, WorkerTypeOK, Executions, PCs
<1>2. ExecKeeps
  BY <1>1, GoKeeps DEF NoteBillingJob
<1>3. orderJob' \in [Runs -> Jobs \cup {NoJob}]
  BY <1>1, BillingJobType DEF NoteBillingJob
<1>4. TablesOK'
  BY <1>3 DEF NoteBillingJob, TypeOK, RowTypeOK, TablesOK
<1>5. QED
  BY <1>2, <1>4, SameRow DEF WorkerMoves, NoteBillingJob, TypeOK, WorkerTypeOK

LEMMA StampMoves ==
  ASSUME TypeOK, NEW k \in Claims, StampTask(k)
  PROVE  WorkerMoves(k)
<1>1. exec[k].id \in Jobs \cup {NoJob} /\ "log" \in PCs
  BY DEF TypeOK, WorkerTypeOK, Executions, PCs
<1>2. ExecKeeps
  BY <1>1, GoKeeps DEF StampTask
<1>3. RowKeeps
  BY <1>1, ProviderStateKeeps DEF StampTask
<1>4. QED
  BY <1>2, <1>3, SameTables DEF WorkerMoves, StampTask, TypeOK, WorkerTypeOK

\* The three verdicts on an order leave it an order.
LEMMA VerdictType ==
  ASSUME TypeOK, NEW r \in Runs,
         MarkBillingUncertain(r) \/ RefundBilling(r) \/ SettleBilling(r)
  PROVE  order' \in [Runs -> OrderStatuses]
BY DEF MarkBillingUncertain, RefundBilling, SettleBilling, OrderStatuses, TypeOK, RowTypeOK

LEMMA LogRowType ==
  ASSUME TypeOK, NEW j \in Jobs \cup {NoJob}
  PROVE  /\ RowNaming(j) \in CallLogs
         /\ \A state \in {"succeeded", "failed", "internal"} : CreateRow(j, state) \in CallLogs
         /\ \A succeeded \in BOOLEAN : PollRow(j, succeeded) \in CallLogs
<1>1. calls \in CallLogs
  BY DEF TypeOK, RowTypeOK
<1>2. RowNaming(j) \in CallLogs
  BY <1>1 DEF RowNaming, CallLogs
<1>3. HasBillableCall \in BOOLEAN
  BY <1>1 DEF HasBillableCall, CallLogs
<1>4. ASSUME NEW state \in {"succeeded", "failed", "internal"}
      PROVE  CreateRow(j, state) \in CallLogs
  BY <1>2, <1>3 DEF CreateRow, CallLogs
<1>5. ASSUME NEW succeeded \in BOOLEAN
      PROVE  PollRow(j, succeeded) \in CallLogs
  BY <1>2 DEF PollRow, CallLogs
<1>6. QED
  BY <1>2, <1>4, <1>5

\* What recording a call does to the log and to the order.
Recorded(callRow, r) ==
  \/ calls' = callRow /\ UNCHANGED order
  \/ UNCHANGED calls /\ (UNCHANGED order \/ MarkBillingUncertain(r))

LEMMA RecordedType ==
  ASSUME TypeOK, NEW callRow \in CallLogs, NEW r \in Runs, Recorded(callRow, r)
  PROVE  calls' \in CallLogs /\ order' \in [Runs -> OrderStatuses]
<1>1. calls \in CallLogs /\ order \in [Runs -> OrderStatuses]
  BY DEF TypeOK, RowTypeOK
<1>2. QED
  BY <1>1, VerdictType DEF Recorded

LEMMA LogMoves ==
  ASSUME TypeOK, NEW k \in Claims, LogAPICall(k)
  PROVE  WorkerMoves(k)
<1>1. exec[k].run \in Runs /\ exec[k].id \in Jobs \cup {NoJob}
  BY DEF TypeOK, WorkerTypeOK, Executions
<1>2. "poll" \in PCs /\ "finish" \in PCs
  BY DEF PCs
<1>3. ExecKeeps
  BY <1>2, GoKeeps DEF LogAPICall
<1>4. PICK state \in {"succeeded", "failed", "internal"} :
        Recorded(CreateRow(exec[k].id, state), exec[k].run)
  BY DEF LogAPICall, Record, Recorded
<1>5. calls' \in CallLogs /\ order' \in [Runs -> OrderStatuses]
  BY <1>1, <1>4, LogRowType, RecordedType
<1>6. TablesOK'
  BY <1>5 DEF LogAPICall, TypeOK, RowTypeOK, TablesOK
<1>7. QED
  BY <1>3, <1>6, SameRow DEF WorkerMoves, LogAPICall, TypeOK, WorkerTypeOK

LEMMA RecordJobType ==
  ASSUME TypeOK, NEW r \in Runs, NEW j \in Jobs \cup {NoJob}, RecordJob(r, j)
  PROVE  orderJob' \in [Runs -> Jobs \cup {NoJob}] /\ RowKeeps
BY BillingJobType, ProviderStateKeeps DEF RecordJob

LEMMA PollMoves ==
  ASSUME TypeOK, NEW k \in Claims, Poll(k)
  PROVE  WorkerMoves(k)
<1>1. exec[k].run \in Runs /\ exec[k].id \in Jobs \cup {NoJob}
  BY DEF TypeOK, WorkerTypeOK, Executions
<1>2. PollAnswers(k) \subseteq Outcomes
  BY DEF PollAnswers, Outcomes
<1>3. PICK answer \in PollAnswers(k) :
        /\ End(k, answer, IF answer = "" THEN "poll" ELSE "finish")
        /\ \E succeeded \in LoggedSuccess(answer) :
             Record(PollRow(exec[k].id, succeeded), exec[k].run, answer \in WaitFailures)
  BY DEF Poll
<1>4. LoggedSuccess(answer) \subseteq BOOLEAN
  BY DEF LoggedSuccess
<1>5. PICK succeeded \in BOOLEAN : Recorded(PollRow(exec[k].id, succeeded), exec[k].run)
  BY <1>3, <1>4 DEF Record, Recorded
<1>6. calls' \in CallLogs /\ order' \in [Runs -> OrderStatuses]
  BY <1>1, <1>5, LogRowType, RecordedType
<1>7. orderJob' \in [Runs -> Jobs \cup {NoJob}] /\ RowKeeps
  BY <1>1, RecordJobType DEF Poll
<1>8. ExecKeeps
  <2>1. "poll" \in PCs /\ "finish" \in PCs
    BY DEF PCs
  <2>2. QED
    BY <1>2, <1>3, <2>1, EndKeeps
<1>9. TablesOK'
  BY <1>6, <1>7 DEF Poll, TypeOK, RowTypeOK, TablesOK
<1>10. QED
  BY <1>7, <1>8, <1>9 DEF WorkerMoves, Poll, TypeOK, WorkerTypeOK

LEMMA StoppedTables ==
  ASSUME TypeOK, stopped' \subseteq Claims, UNCHANGED <<order, orderJob, resolved, job, calls>>
  PROVE  TablesOK'
BY DEF TypeOK, RowTypeOK, TablesOK

LEMMA RenewMoves ==
  ASSUME TypeOK, NEW k \in Claims, RenewFails(k)
  PROVE  WorkerMoves(k)
<1>1. ExecKeeps
  BY DEF RenewFails, ExecKeeps, Executions, TypeOK, WorkerTypeOK
<1>2. stopped' \subseteq Claims
  BY DEF RenewFails, TypeOK, RowTypeOK
<1>3. QED
  BY <1>1, <1>2, StoppedTables, SameRow DEF WorkerMoves, RenewFails, TypeOK, WorkerTypeOK

LEMMA FinishMoves ==
  ASSUME TypeOK, NEW k \in Claims, FinishTaskRouteAttempt(k)
  PROVE  WorkerMoves(k)
<1>1. /\ exec \in [Claims -> Executions] /\ exec[k] \in Executions
      /\ attempt \in [Runs -> Attempts] /\ exec[k].run \in Runs
  BY DEF TypeOK, WorkerTypeOK, Executions
<1>2. RefreshedJob(k) \in Jobs \cup {NoJob}
  BY <1>1 DEF RefreshedJob, TypeOK, RowTypeOK, TaskRows, Executions
<1>3. FinishedAttempt(k) \in Attempts
  BY <1>2 DEF FinishedAttempt, Attempts, AttemptStates
<1>4. attempt' \in [Runs -> Attempts]
  BY <1>1, <1>3 DEF FinishTaskRouteAttempt
<1>5. {"save", "fail"} \subseteq PCs /\ "unsaved" \in Outcomes
  BY DEF PCs, Outcomes
<1>6. ASSUME NEW pc \in {"save", "fail"},
             exec' = [exec EXCEPT ![k].req = RefreshedJob(k), ![k].pc = pc]
      PROVE  ExecKeeps
  BY <1>1, <1>2, <1>5, <1>6 DEF ExecKeeps, Executions
<1>7. ASSUME exec' = [exec EXCEPT ![k].req = RefreshedJob(k),
                                  ![k].outcome = "unsaved", ![k].pc = "fail"]
      PROVE  ExecKeeps
  BY <1>1, <1>2, <1>5, <1>7 DEF ExecKeeps, Executions
<1>8. ExecKeeps
  BY <1>6, <1>7, LeaveKeeps DEF FinishTaskRouteAttempt
<1>9. stopped' \subseteq Claims
  BY DEF FinishTaskRouteAttempt, Forget, TypeOK, RowTypeOK
<1>10. QED
  BY <1>4, <1>8, <1>9, StoppedTables, SameRow
  DEF WorkerMoves, FinishTaskRouteAttempt, Forget

LEMMA EnsureLoggedMoves ==
  ASSUME TypeOK, NEW k \in Claims, EnsureAttemptLogged(k)
  PROVE  WorkerMoves(k)
<1>1. exec[k].run \in Runs /\ exec[k].req \in Jobs \cup {NoJob} /\ "conclude" \in PCs
  BY DEF TypeOK, WorkerTypeOK, Executions, PCs
<1>2. ExecKeeps
  BY <1>1, GoKeeps DEF EnsureAttemptLogged
<1>3. CreateRow(exec[k].req, "internal") \in CallLogs
  BY <1>1, LogRowType
<1>4. /\ orderJob' \in [Runs -> Jobs \cup {NoJob}]
      /\ RowKeeps
      /\ calls' \in CallLogs
  <2>1. CASE UNCHANGED <<task, orderJob, calls>>
    BY <2>1, SameRow DEF TypeOK, RowTypeOK
  <2>2. CASE RecordJob(exec[k].run, exec[k].req)
             /\ (calls' = CreateRow(exec[k].req, "internal") \/ UNCHANGED calls)
    BY <1>1, <1>3, <2>2, RecordJobType DEF TypeOK, RowTypeOK
  <2>3. QED
    BY <2>1, <2>2 DEF EnsureAttemptLogged
<1>5. TablesOK'
  BY <1>4 DEF EnsureAttemptLogged, TypeOK, RowTypeOK, TablesOK
<1>6. QED
  BY <1>2, <1>4, <1>5 DEF WorkerMoves, EnsureAttemptLogged, TypeOK, WorkerTypeOK

\* A terminal write hits the row that its owner still holds, or nothing.
LEMMA TerminalWrite ==
  ASSUME TypeOK, NEW k \in Claims, NEW status \in Terminal, WriteTerminalState(k, status)
  PROVE  /\ task.owner = k /\ task.status = "running"
         /\ task' \in TaskRows
         /\ task'.run = task.run /\ task'.status \in Terminal
         /\ OwnerKeeps
<1>1. task \in TaskRows /\ status \in TaskStatuses /\ NoOwner \in Owners /\ NoOwner \notin Claims
  BY TaskRowAssumption
  DEF TypeOK, RowTypeOK, Terminal, TaskStatuses, Owners, NoOwner, Claims
<1>2. QED
  BY <1>1 DEF WriteTerminalState, Fence, TaskRows, OwnerKeeps

LEMMA ConcludeMoves ==
  ASSUME TypeOK, NEW k \in Claims, NEW status \in Terminal, NEW pc \in PCs,
         Conclude(k, status, pc)
  PROVE  (ExecKeeps /\ RowKeeps) \/ Wins(k)
<1>1. CASE Fenced(k)
  BY <1>1, LeaveKeeps, SameRow DEF Conclude
<1>2. CASE ~ Fenced(k)
  <2>1. WriteTerminalState(k, status) /\ exec' = [exec EXCEPT ![k].won = TRUE, ![k].pc = pc]
    BY <1>2 DEF Conclude
  <2>2. /\ exec' \in [Claims -> Executions]
        /\ \A l \in Claims : exec'[l].run = exec[l].run
        /\ \A l \in Claims \ {k} : exec'[l].won = exec[l].won
    BY <2>1 DEF TypeOK, WorkerTypeOK, Executions
  <2>3. QED
    BY <2>1, <2>2, TerminalWrite DEF Wins
<1>3. QED
  BY <1>1, <1>2

LEMMA FailureMoves ==
  ASSUME TypeOK, NEW k \in Claims, HandleExecutionFailure(k)
  PROVE  WorkerMoves(k)
<1>1. {"cancelled", "failed"} \subseteq Terminal /\ "decide" \in PCs
  BY DEF Terminal, PCs
<1>2. (ExecKeeps /\ RowKeeps) \/ Wins(k)
  BY <1>1, ConcludeMoves DEF HandleExecutionFailure
<1>3. QED
  BY <1>2, SameTables DEF WorkerMoves, HandleExecutionFailure, TypeOK, WorkerTypeOK

\* Giving up the lease.
LEMMA ReleaseKeeps ==
  ASSUME TypeOK, task' = [task EXCEPT !.owner = NoOwner, !.leased = FALSE]
  PROVE  RowKeeps
<1>1. task \in TaskRows /\ NoOwner \in Owners /\ NoOwner \notin Claims
  BY TaskRowAssumption DEF TypeOK, RowTypeOK, Owners, NoOwner, Claims
<1>2. QED
  BY <1>1 DEF TaskRows, RowKeeps, OwnerKeeps

LEMMA DeferMoves ==
  ASSUME TypeOK, NEW k \in Claims, DeferRunningTask(k)
  PROVE  WorkerMoves(k)
<1>1. ExecKeeps
  BY LeaveKeeps DEF DeferRunningTask
<1>2. RowKeeps
  BY SameRow, ReleaseKeeps DEF DeferRunningTask
<1>3. QED
  BY <1>1, <1>2, SameTables DEF WorkerMoves, DeferRunningTask, TypeOK, WorkerTypeOK

LEMMA DecideMoves ==
  ASSUME TypeOK, NEW k \in Claims, DecideBilling(k)
  PROVE  WorkerMoves(k)
<1>1. "review" \in PCs /\ "refund" \in PCs
  BY DEF PCs
<1>2. ExecKeeps
  BY <1>1, GoKeeps DEF DecideBilling
<1>3. QED
  BY <1>2, PrivateMoves DEF DecideBilling

\* The last step of an execution gives its verdict on an order.
LEMMA VerdictMoves ==
  ASSUME TypeOK, NEW k \in Claims, RefundTask(k) \/ ReviewTask(k)
  PROVE  WorkerMoves(k)
<1>1. exec[k].bill \in Runs
  BY DEF TypeOK, WorkerTypeOK, Executions
<1>2. order' \in [Runs -> OrderStatuses]
  BY <1>1, VerdictType DEF RefundTask, ReviewTask
<1>3. ExecKeeps
  BY LeaveKeeps DEF RefundTask, ReviewTask
<1>4. TablesOK' /\ RowKeeps /\ UNCHANGED attempt
  BY <1>2, OrderTables, SameRow DEF RefundTask, ReviewTask
<1>5. QED
  BY <1>3, <1>4 DEF WorkerMoves, TypeOK, WorkerTypeOK

LEMMA ReviewCurrentKeeps ==
  ASSUME TypeOK, NEW k \in Claims,
         exec' = [exec EXCEPT ![k].bill = task.run, ![k].pc = "review"]
  PROVE  ExecKeeps
<1>1. task.run \in Runs /\ "review" \in PCs /\ exec \in [Claims -> Executions]
  BY DEF TypeOK, RowTypeOK, TaskRows, PCs, WorkerTypeOK
<1>2. QED
  BY <1>1 DEF ExecKeeps, Executions

LEMMA ReadBeforeSaveMoves ==
  ASSUME TypeOK, NEW k \in Claims, ReadBeforeSave(k)
  PROVE  WorkerMoves(k)
<1>1. "store" \in PCs
  BY DEF PCs
<1>2. ExecKeeps
  BY <1>1, ReviewCurrentKeeps, GoKeeps DEF ReadBeforeSave, Go
<1>3. QED
  BY <1>2, PrivateMoves DEF ReadBeforeSave

LEMMA SaveMoves ==
  ASSUME TypeOK, NEW k \in Claims, SaveTaskCompletion(k)
  PROVE  WorkerMoves(k)
<1>1. /\ exec \in [Claims -> Executions] /\ exec[k].req \in Jobs \cup {NoJob}
      /\ task \in TaskRows /\ "settle" \in PCs
  BY DEF TypeOK, RowTypeOK, TaskRows, WorkerTypeOK, Executions, PCs
<1>2. CASE ~ Fenced(k)
  <2>1. /\ task' = [task EXCEPT !.status = "succeeded", !.job = exec[k].req]
        /\ exec' = [exec EXCEPT ![k].won = TRUE, ![k].pc = "settle"]
    BY <1>2 DEF SaveTaskCompletion
  <2>2. /\ exec' \in [Claims -> Executions]
        /\ \A l \in Claims : exec'[l].run = exec[l].run
        /\ \A l \in Claims \ {k} : exec'[l].won = exec[l].won
    BY <1>1, <2>1 DEF Executions
  <2>3. /\ task' \in TaskRows
        /\ task'.run = task.run /\ task'.status \in Terminal /\ task'.owner = task.owner
    BY <1>1, <2>1 DEF TaskRows, TaskStatuses, Terminal
  <2>4. task.owner = k /\ task.status = "running"
    BY <1>2 DEF Fenced, Fence
  <2>5. Wins(k)
    BY <2>2, <2>3, <2>4 DEF Wins, OwnerKeeps
  <2>6. QED
    BY <2>5, SameTables DEF WorkerMoves, SaveTaskCompletion, TypeOK, WorkerTypeOK
<1>3. CASE Fenced(k)
  <2>1. CASE task.status = "cancelled"
    BY <1>3, <2>1, ReviewCurrentKeeps, SameRow, SameTables
    DEF WorkerMoves, SaveTaskCompletion, TypeOK, WorkerTypeOK
  <2>2. CASE task.status # "cancelled"
    BY <1>3, <2>2, LeaveKeeps, SameRow, SameTables
    DEF WorkerMoves, SaveTaskCompletion, TypeOK, WorkerTypeOK
  <2>3. QED
    BY <2>1, <2>2
<1>4. QED
  BY <1>2, <1>3

LEMMA SaveRefusedMoves ==
  ASSUME TypeOK, NEW k \in Claims, SaveRefused(k)
  PROVE  WorkerMoves(k)
<1>1. "fail" \in PCs /\ "unsaved" \in Outcomes
  BY DEF PCs, Outcomes
<1>2. ExecKeeps
  BY <1>1, EndKeeps DEF SaveRefused
<1>3. QED
  BY <1>2, PrivateMoves DEF SaveRefused

LEMMA SettleMoves ==
  ASSUME TypeOK, NEW k \in Claims, SettleTask(k)
  PROVE  WorkerMoves(k)
<1>1. exec[k].bill \in Runs /\ "review" \in PCs /\ order \in [Runs -> OrderStatuses]
  BY DEF TypeOK, RowTypeOK, WorkerTypeOK, Executions, PCs
<1>2. order' \in [Runs -> OrderStatuses]
  BY <1>1, VerdictType DEF SettleTask
<1>3. ExecKeeps
  BY <1>1, GoKeeps, LeaveKeeps DEF SettleTask
<1>4. TablesOK' /\ RowKeeps
  BY <1>2, OrderTables, SameRow DEF SettleTask
<1>5. QED
  BY <1>3, <1>4 DEF WorkerMoves, SettleTask, TypeOK, WorkerTypeOK

LEMMA CrashMoves ==
  ASSUME TypeOK, NEW k \in Claims, CrashWorker(k)
  PROVE  WorkerMoves(k)
<1>1. ExecKeeps
  BY LeaveKeeps DEF CrashWorker
<1>2. stopped' \subseteq Claims
  BY DEF CrashWorker, Forget, TypeOK, RowTypeOK
<1>3. QED
  BY <1>1, <1>2, StoppedTables, SameRow
  DEF WorkerMoves, CrashWorker, Forget, TypeOK, WorkerTypeOK

\* Every step of a worker.
LEMMA WorkerStepMoves ==
  ASSUME TypeOK, NEW k \in Claims, WorkerStep(k)
  PROVE  WorkerMoves(k)
<1>1. CASE ClaimNextTask(k)
  BY <1>1, ClaimMoves
<1>2. CASE Prepare(k)
  BY <1>2, StartMoves, RouteMoves, ReadBillingMoves, MarkMoves, DispatchMoves DEF Prepare
<1>3. CASE Call(k)
  BY <1>3, SubmitMoves, NoteMoves, StampMoves, LogMoves, PollMoves, RenewMoves, FinishMoves
  DEF Call
<1>4. CASE Bill(k)
  BY <1>4, EnsureLoggedMoves, FailureMoves, DeferMoves, DecideMoves, VerdictMoves,
     ReadBeforeSaveMoves, SaveMoves, SaveRefusedMoves, SettleMoves DEF Bill
<1>5. CASE CrashWorker(k)
  BY <1>5, CrashMoves
<1>6. QED
  BY <1>1, <1>2, <1>3, <1>4, <1>5 DEF WorkerStep, Execute

-----------------------------------------------------------------------------
(***************************************************************************)
(* Cancellation.                                                           *)
(***************************************************************************)

\* What a canceller has read was not over.
Pending == \A c \in Cancellers : cancels[c].status \in {"queued", "running"}

RowEnds ==
  /\ task' \in TaskRows
  /\ task'.run = task.run
  /\ task.status \notin Terminal /\ task'.status \in Terminal
  /\ OwnerKeeps

CancelMoves ==
  /\ TablesOK'
  /\ CancelTypeOK' /\ Pending'
  /\ RowKeeps \/ RowEnds

CancelsKeep ==
  /\ cancels' \in [Cancellers -> [pc : CancelPCs, status : TaskStatuses, copy : Copies]]
  /\ \A c \in Cancellers : cancels'[c].status \in {"queued", "running"}

LEMMA CLeaveKeeps ==
  ASSUME TypeOK, Pending, NEW c \in Cancellers, CLeave(c)
  PROVE  CancelsKeep
<1>1. NoCopy \in Copies
  BY TaskRowAssumption DEF NoCopy, Copies, Runs, NoJob
<1>2. [pc |-> "done", status |-> "queued", copy |-> NoCopy]
        \in [pc : CancelPCs, status : TaskStatuses, copy : Copies]
  BY <1>1 DEF CancelPCs, TaskStatuses
<1>3. QED
  BY <1>2 DEF TypeOK, CancelTypeOK, Pending, CLeave, CancelsKeep

LEMMA CGoKeeps ==
  ASSUME TypeOK, Pending, NEW c \in Cancellers, NEW pc \in CancelPCs, CGo(c, pc)
  PROVE  CancelsKeep
BY DEF TypeOK, CancelTypeOK, Pending, CGo, CancelsKeep

LEMMA SameRec ==
  ASSUME TypeOK, CancelsKeep, UNCHANGED rec
  PROVE  CancelTypeOK' /\ Pending'
BY DEF TypeOK, CancelTypeOK, CancelsKeep, Pending

LEMMA ReadTaskMoves ==
  ASSUME TypeOK, Pending, NEW c \in Cancellers, ReadTask(c)
  PROVE  CancelMoves
<1>1. task.run \in Runs /\ task.status \in {"queued", "running"}
  BY DEF TypeOK, RowTypeOK, TaskRows, ReadTask
<1>2. HydratedJob(task) \in Jobs \cup {NoJob}
  BY DEF HydratedJob, TypeOK, RowTypeOK, TaskRows, CallLogs
<1>3. [pc |-> "write", status |-> task.status,
       copy |-> [run |-> task.run, job |-> HydratedJob(task)]]
        \in [pc : CancelPCs, status : TaskStatuses, copy : Copies]
  BY <1>1, <1>2 DEF CancelPCs, TaskStatuses, Copies
<1>4. CancelsKeep
  BY <1>1, <1>3 DEF TypeOK, CancelTypeOK, Pending, ReadTask, CancelsKeep
<1>5. QED
  BY <1>4, SameRec, SameRow, SameTables DEF ReadTask, rowVars, CancelMoves

LEMMA CancelRowMoves ==
  ASSUME TypeOK, Pending, NEW c \in Cancellers, CancelTaskIfStatus(c)
  PROVE  CancelMoves
<1>1. task \in TaskRows /\ NoOwner \in Owners /\ NoOwner \notin Claims
  BY TaskRowAssumption DEF TypeOK, RowTypeOK, Owners, NoOwner, Claims
<1>2. CASE task.status = cancels[c].status
  <2>1. task' = [task EXCEPT !.status = "cancelled", !.owner = NoOwner, !.leased = FALSE]
        /\ CGo(c, "stop")
    BY <1>2 DEF CancelTaskIfStatus
  <2>2. RowEnds
    BY <1>1, <1>2, <2>1 DEF RowEnds, OwnerKeeps, TaskRows, TaskStatuses, Terminal, Pending
  <2>3. CancelsKeep
    BY <2>1, CGoKeeps DEF CancelPCs
  <2>4. QED
    BY <2>2, <2>3, SameRec, SameTables DEF CancelTaskIfStatus, CancelMoves
<1>3. CASE task.status # cancels[c].status
  BY <1>3, CLeaveKeeps, SameRec, SameRow, SameTables DEF CancelTaskIfStatus, CancelMoves
<1>4. QED
  BY <1>2, <1>3

LEMMA StopMoves ==
  ASSUME TypeOK, Pending, NEW c \in Cancellers, CancelActiveTask(c, Stoppable)
  PROVE  CancelMoves
<1>1. "bill" \in CancelPCs /\ "push" \in CancelPCs
  BY DEF CancelPCs
<1>2. CancelsKeep
  BY <1>1, CGoKeeps DEF CancelActiveTask
<1>3. stopped' \subseteq Claims
  BY DEF CancelActiveTask, Stoppable, TypeOK, RowTypeOK
<1>4. QED
  BY <1>2, <1>3, StoppedTables, SameRec, SameRow DEF CancelActiveTask, CancelMoves

LEMMA CopyType ==
  ASSUME TypeOK, NEW c \in Cancellers
  PROVE  cancels[c].copy.run \in Runs /\ cancels[c].copy.job \in Jobs \cup {NoJob}
BY DEF TypeOK, CancelTypeOK, Copies

LEMMA BillCancelledMoves ==
  ASSUME TypeOK, Pending, NEW c \in Cancellers, BillCancelled(c) \/ ReviewCancelled(c)
  PROVE  CancelMoves
<1>1. order' \in [Runs -> OrderStatuses]
  BY CopyType, VerdictType DEF BillCancelled, ReviewCancelled
<1>2. CancelsKeep
  BY CLeaveKeeps DEF BillCancelled, ReviewCancelled
<1>3. TablesOK' /\ RowKeeps /\ UNCHANGED rec
  BY <1>1, OrderTables, SameRow DEF BillCancelled, ReviewCancelled
<1>4. QED
  BY <1>2, <1>3, SameRec DEF CancelMoves

LEMMA PushMoves ==
  ASSUME TypeOK, Pending, NEW c \in Cancellers, PushJob(c)
  PROVE  CancelMoves
<1>1. RowKeeps
  BY CopyType, ProviderStateKeeps DEF PushJob
<1>2. CancelsKeep
  BY CGoKeeps DEF PushJob, CancelPCs
<1>3. QED
  BY <1>1, <1>2, SameRec, SameTables DEF PushJob, CancelMoves

LEMMA ClaimCancellationMoves ==
  ASSUME TypeOK, Pending, NEW c \in Cancellers, ClaimTaskProviderCancellation(c)
  PROVE  CancelMoves
<1>1. RowKeeps
  <2>1. CASE task' = [task EXCEPT !.cancel = "requested", !.checks = 1]
    <3>1. 1 \in 0 .. MaxChecks /\ task \in TaskRows
      BY TaskRowAssumption DEF TypeOK, RowTypeOK
    <3>2. QED
      BY <2>1, <3>1 DEF RowKeeps, OwnerKeeps, TaskRows, CancelStatuses
  <2>2. QED
    BY <2>1, SameRow DEF ClaimTaskProviderCancellation
<1>2. CancelsKeep
  BY CGoKeeps, CLeaveKeeps DEF ClaimTaskProviderCancellation, CancelPCs
<1>3. QED
  BY <1>1, <1>2, SameRec, SameTables DEF ClaimTaskProviderCancellation, CancelMoves

\* A call that is recorded with the three writes of LogAPICall.
LEMMA RecordedTables ==
  ASSUME TypeOK, NEW r \in Runs, NEW j \in Jobs \cup {NoJob}, NEW callRow \in CallLogs,
         RecordJob(r, j), Recorded(callRow, r),
         job' \in [Jobs -> [run : Runs, state : JobStates]],
         UNCHANGED <<resolved, stopped>>
  PROVE  TablesOK' /\ RowKeeps
<1>1. orderJob' \in [Runs -> Jobs \cup {NoJob}] /\ RowKeeps
  BY RecordJobType
<1>2. calls' \in CallLogs /\ order' \in [Runs -> OrderStatuses]
  BY RecordedType
<1>3. QED
  BY <1>1, <1>2 DEF TablesOK, TypeOK, RowTypeOK

LEMMA SendMoves ==
  ASSUME TypeOK, Pending, NEW c \in Cancellers, SendCancel(c)
  PROVE  CancelMoves
<1> DEFINE copy == cancels[c].copy
<1>1. copy.run \in Runs /\ copy.job \in Jobs \cup {NoJob}
  BY CopyType
<1>2. job' \in [Jobs -> [run : Runs, state : JobStates]]
  <2>1. job \in [Jobs -> [run : Runs, state : JobStates]] /\ "cancelled" \in JobStates
    BY DEF TypeOK, RowTypeOK, JobStates
  <2>2. QED
    BY <2>1 DEF SendCancel
<1>3. RecordJob(copy.run, copy.job) /\ Recorded(RowNaming(copy.job), copy.run)
  BY DEF SendCancel, Record, Recorded
<1>4. RowNaming(copy.job) \in CallLogs
  BY <1>1, LogRowType
<1>5. UNCHANGED <<resolved, stopped>> /\ UNCHANGED rec
  BY DEF SendCancel
<1>6. TablesOK' /\ RowKeeps
  BY <1>1, <1>2, <1>3, <1>4, <1>5, RecordedTables
<1>7. CancelsKeep
  BY CGoKeeps, CLeaveKeeps DEF SendCancel, CancelPCs
<1>8. QED
  BY <1>5, <1>6, <1>7, SameRec DEF CancelMoves

\* Closing an open cancellation.
LEMMA CloseKeeps ==
  ASSUME TypeOK, NEW status \in CancelStatuses, UpdateTaskProviderCancellation(status)
  PROVE  RowKeeps
<1>1. task \in TaskRows /\ NoOwner \in Owners /\ NoOwner \notin Claims
  BY TaskRowAssumption DEF TypeOK, RowTypeOK, Owners, NoOwner, Claims
<1>2. QED
  BY <1>1 DEF UpdateTaskProviderCancellation, TaskRows, RowKeeps, OwnerKeeps

LEMMA GiveUpMoves ==
  ASSUME TypeOK, Pending, NEW c \in Cancellers, GiveUpCancel(c)
  PROVE  CancelMoves
<1>1. "uncertain" \in CancelStatuses /\ "review" \in CancelPCs
  BY DEF CancelStatuses, CancelPCs
<1>2. RowKeeps /\ CancelsKeep
  BY <1>1, CloseKeeps, SameRow, CGoKeeps, CLeaveKeeps DEF GiveUpCancel
<1>3. QED
  BY <1>2, SameRec, SameTables DEF GiveUpCancel, CancelMoves

\* Steps that move nothing but the canceller.
LEMMA QuietCancelMoves ==
  ASSUME TypeOK, Pending, NEW c \in Cancellers, CannotCancel(c) \/ CrashCanceller(c)
  PROVE  CancelMoves
<1>1. CancelsKeep
  BY CGoKeeps, CLeaveKeeps DEF CannotCancel, CrashCanceller, CancelPCs
<1>2. UNCHANGED rec /\ UNCHANGED rowVars
  BY DEF CannotCancel, CrashCanceller
<1>3. QED
  BY <1>1, <1>2, SameRec, SameRow, SameTables DEF rowVars, CancelMoves

\* Every step of a canceller.
LEMMA CancelStepMoves ==
  ASSUME TypeOK, Pending, NEW c \in Cancellers, CancelStep(c)
  PROVE  CancelMoves
BY ReadTaskMoves, CancelRowMoves, StopMoves, BillCancelledMoves, PushMoves,
   ClaimCancellationMoves, SendMoves, GiveUpMoves, QuietCancelMoves
DEF CancelStep, Request

-----------------------------------------------------------------------------
(***************************************************************************)
(* The reconciliation loop.                                                *)
(***************************************************************************)
ReconcileMoves ==
  /\ TablesOK'
  /\ CancelTypeOK' /\ Pending'
  /\ RowKeeps

RecRows == [pc : RecPCs, copy : Copies, checks : 0 .. MaxChecks, verdict : CancelStatuses]

LEMMA RecType ==
  ASSUME TypeOK
  PROVE  /\ rec \in RecRows
         /\ rec.copy.run \in Runs /\ rec.copy.job \in Jobs \cup {NoJob}
         /\ rec.verdict \in CancelStatuses
BY DEF TypeOK, CancelTypeOK, RecRows, Copies

LEMMA RLeaveType ==
  ASSUME RLeave
  PROVE  rec' \in RecRows
<1>1. NoCopy \in Copies /\ 0 \in 0 .. MaxChecks
  BY TaskRowAssumption DEF NoCopy, Copies, Runs, NoJob
<1>2. QED
  BY <1>1 DEF RLeave, NoRec, RecRows, RecPCs, CancelStatuses

LEMMA RGoType ==
  ASSUME TypeOK, NEW pc \in RecPCs, RGo(pc)
  PROVE  rec' \in RecRows
BY RecType DEF RGo, RecRows

LEMMA SameCancels ==
  ASSUME TypeOK, Pending, rec' \in RecRows, UNCHANGED cancels
  PROVE  CancelTypeOK' /\ Pending'
BY DEF TypeOK, CancelTypeOK, Pending, RecRows

LEMMA ClaimReconcileMoves ==
  ASSUME TypeOK, Pending, ClaimNextTaskProviderCancellation
  PROVE  ReconcileMoves
<1>1. task \in TaskRows /\ Reconciler \in Owners /\ Reconciler \notin Claims
  BY TaskRowAssumption DEF TypeOK, RowTypeOK, Owners, Reconciler, Claims
<1>2. (IF task.checks < MaxChecks THEN task.checks + 1 ELSE task.checks) \in 0 .. MaxChecks
  <2>1. task.checks \in 0 .. MaxChecks
    BY <1>1 DEF TaskRows
  <2>2. QED
    BY <2>1, TaskRowAssumption
<1>3. RowKeeps /\ task'.checks \in 0 .. MaxChecks
  BY <1>1, <1>2 DEF ClaimNextTaskProviderCancellation, TaskRows, RowKeeps, OwnerKeeps
<1>4. rec' \in RecRows
  <2>1. task.run \in Runs /\ task.job \in Jobs \cup {NoJob}
    BY <1>1 DEF TaskRows
  <2>2. QED
    BY <1>3, <2>1
    DEF ClaimNextTaskProviderCancellation, RecRows, RecPCs, Copies, CancelStatuses
<1>5. QED
  BY <1>3, <1>4, SameCancels, SameTables DEF ClaimNextTaskProviderCancellation, ReconcileMoves

LEMMA SkipMoves ==
  ASSUME TypeOK, Pending, SkipQuery \/ CrashReconciler
  PROVE  ReconcileMoves
<1>1. "giveup" \in RecPCs /\ "defer" \in RecPCs
  BY DEF RecPCs
<1>2. rec' \in RecRows
  BY <1>1, RGoType, RLeaveType DEF SkipQuery, CrashReconciler
<1>3. QED
  BY <1>2, SameCancels, SameRow, SameTables
  DEF SkipQuery, CrashReconciler, rowVars, ReconcileMoves

LEMMA QueryMoves ==
  ASSUME TypeOK, Pending, QueryProviderCancellation
  PROVE  ReconcileMoves
<1> DEFINE copy == rec.copy
<1>1. copy.run \in Runs /\ copy.job \in Jobs \cup {NoJob}
  BY RecType
<1>2. Verdicts(JobState(copy.job)) \subseteq RecPCs
  BY DEF Verdicts, RecPCs
<1>3. rec' \in RecRows
  <2>1. "giveup" \in RecPCs /\ "defer" \in RecPCs
    BY DEF RecPCs
  <2>2. QED
    BY <1>2, <2>1, RGoType DEF QueryProviderCancellation
<1>4. RecordJob(copy.run, copy.job) /\ Recorded(RowNaming(copy.job), copy.run)
  BY DEF QueryProviderCancellation, Record, Recorded
<1>5. RowNaming(copy.job) \in CallLogs
  BY <1>1, LogRowType
<1>6. UNCHANGED <<cancels, resolved, job, stopped>>
  BY DEF QueryProviderCancellation
<1>7. job' \in [Jobs -> [run : Runs, state : JobStates]]
  BY <1>6 DEF TypeOK, RowTypeOK
<1>8. TablesOK' /\ RowKeeps
  BY <1>1, <1>4, <1>5, <1>6, <1>7, RecordedTables
<1>9. QED
  BY <1>3, <1>6, <1>8, SameCancels DEF ReconcileMoves

LEMMA VerdictReconciledMoves ==
  ASSUME TypeOK, Pending, RefundReconciled \/ SettleReconciled \/ ReviewReconciled
  PROVE  ReconcileMoves
<1>1. rec \in RecRows /\ rec.copy.run \in Runs
  BY RecType
<1>2. order' \in [Runs -> OrderStatuses]
  <2>1. order \in [Runs -> OrderStatuses]
    BY DEF TypeOK, RowTypeOK
  <2>2. QED
    BY <1>1, <2>1, VerdictType DEF RefundReconciled, SettleReconciled, ReviewReconciled
<1>3. rec' \in RecRows
  <2>1. ASSUME NEW verdict \in {"confirmed", "uncertain"},
               rec' = [rec EXCEPT !.pc = "close", !.verdict = verdict]
        PROVE  rec' \in RecRows
    BY <1>1, <2>1 DEF RecRows, RecPCs, CancelStatuses
  <2>2. CASE RefundReconciled
    <3>1. "defer" \in RecPCs
      BY DEF RecPCs
    <3>2. QED
      BY <2>1, <2>2, <3>1, RGoType DEF RefundReconciled
  <2>3. CASE SettleReconciled
    BY <2>1, <2>3 DEF SettleReconciled
  <2>4. CASE ReviewReconciled
    BY <2>4, RLeaveType DEF ReviewReconciled
  <2>5. QED
    BY <2>2, <2>3, <2>4
<1>4. TablesOK' /\ RowKeeps /\ UNCHANGED cancels
  BY <1>2, OrderTables, SameRow DEF RefundReconciled, SettleReconciled, ReviewReconciled
<1>5. QED
  BY <1>3, <1>4, SameCancels DEF ReconcileMoves

LEMMA CloseReconciledMoves ==
  ASSUME TypeOK, Pending, CloseReconciled \/ DeferReconciled \/ GiveUpReconciled
  PROVE  ReconcileMoves
<1>1. rec.verdict \in CancelStatuses /\ {"requested", "uncertain"} \subseteq CancelStatuses
      /\ "review" \in RecPCs
  BY RecType DEF CancelStatuses, RecPCs
<1>2. RowKeeps
  BY <1>1, CloseKeeps, SameRow DEF CloseReconciled, DeferReconciled, GiveUpReconciled
<1>3. rec' \in RecRows
  BY <1>1, RLeaveType, RGoType DEF CloseReconciled, DeferReconciled, GiveUpReconciled
<1>4. TablesOK' /\ UNCHANGED cancels
  BY SameTables DEF CloseReconciled, DeferReconciled, GiveUpReconciled
<1>5. QED
  BY <1>2, <1>3, <1>4, SameCancels DEF ReconcileMoves

\* Every step of the reconciliation loop.
LEMMA ReconcileStepMoves ==
  ASSUME TypeOK, Pending, ReconcileStep
  PROVE  ReconcileMoves
BY ClaimReconcileMoves, SkipMoves, QueryMoves, VerdictReconciledMoves, CloseReconciledMoves
DEF ReconcileStep, Reconcile

-----------------------------------------------------------------------------
(***************************************************************************)
(* Retry, recovery and resolution.                                         *)
(***************************************************************************)
RowRequeued ==
  /\ task' \in TaskRows
  /\ task'.run = task.run + 1 /\ task'.status = "queued"
  /\ task'.owner \notin Claims

RowRestored ==
  /\ task' \in TaskRows
  /\ task'.run = task.run
  /\ task.status = "failed" /\ task'.status = "succeeded" /\ recovery.pc = "save"
  /\ OwnerKeeps

RecoveryMoves ==
  /\ TablesOK'
  /\ RecoveryTypeOK'
  /\ RowKeeps \/ RowRequeued \/ RowRestored

Recoveries == [pc : RecoveryPCs, run : Runs, job : Jobs \cup {NoJob}, refunded : BOOLEAN]

LEMMA RecoveryType ==
  ASSUME TypeOK
  PROVE  /\ recovery \in Recoveries /\ retry \in {"none", "checked"}
         /\ recovery.run \in Runs /\ recovery.job \in Jobs \cup {NoJob}
BY DEF TypeOK, RecoveryTypeOK, Recoveries

LEMMA VLeaveType ==
  ASSUME TypeOK, VLeave, UNCHANGED retry
  PROVE  RecoveryTypeOK'
<1>1. NoRecovery \in Recoveries
  BY TaskRowAssumption DEF NoRecovery, Recoveries, RecoveryPCs, Runs
<1>2. QED
  BY <1>1, RecoveryType DEF VLeave, RecoveryTypeOK, Recoveries

LEMMA VGoType ==
  ASSUME TypeOK, NEW pc \in RecoveryPCs, VGo(pc), UNCHANGED retry
  PROVE  RecoveryTypeOK'
<1>1. [recovery EXCEPT !.pc = pc] \in Recoveries
  BY RecoveryType DEF Recoveries
<1>2. QED
  BY <1>1, RecoveryType DEF VGo, RecoveryTypeOK, Recoveries

LEMMA CheckRetryMoves ==
  ASSUME TypeOK, CheckRetryEligibility
  PROVE  RecoveryMoves
BY RecoveryType, SameRow, SameTables
DEF CheckRetryEligibility, rowVars, RecoveryMoves, RecoveryTypeOK, Recoveries

LEMMA RetryMoves ==
  ASSUME TypeOK, RetryTaskWithBilling
  PROVE  RecoveryMoves
<1>1. RecoveryTypeOK'
  BY RecoveryType DEF RetryTaskWithBilling, RecoveryTypeOK, Recoveries
<1>2. CASE task.status \in {"failed", "cancelled"} /\ task.run < MaxRuns
  <2>1. /\ task' = [task EXCEPT !.status = "queued", !.run = task.run + 1,
                     !.owner = NoOwner, !.leased = FALSE, !.job = NoJob,
                     !.cancel = "", !.checks = 0]
        /\ order' = [order EXCEPT ![task.run + 1] = "reserved"]
    BY <1>2 DEF RetryTaskWithBilling
  <2>2. task \in TaskRows
    BY DEF TypeOK, RowTypeOK
  <2>3. task.run \in Runs
    BY <2>2 DEF TaskRows
  <2>4. task.run + 1 \in Runs
    BY <1>2, <2>3, TaskRowAssumption DEF Runs
  <2>5. /\ NoOwner \in Owners /\ NoOwner \notin Claims /\ 0 \in 0 .. MaxChecks
        /\ "queued" \in TaskStatuses /\ "" \in CancelStatuses
    BY TaskRowAssumption DEF Owners, NoOwner, Claims, TaskStatuses, CancelStatuses
  <2>6. RowRequeued
    BY <2>1, <2>2, <2>4, <2>5 DEF RowRequeued, TaskRows
  <2>7. order' \in [Runs -> OrderStatuses]
    BY <2>1 DEF TypeOK, RowTypeOK, OrderStatuses
  <2>8. QED
    BY <1>1, <2>6, <2>7, OrderTables DEF RetryTaskWithBilling, RecoveryMoves
<1>3. CASE ~ (task.status \in {"failed", "cancelled"} /\ task.run < MaxRuns)
  BY <1>1, <1>3, SameRow, SameTables DEF RetryTaskWithBilling, RecoveryMoves
<1>4. QED
  BY <1>2, <1>3

LEMMA ReadFailedMoves ==
  ASSUME TypeOK, ReadFailedTask
  PROVE  RecoveryMoves
<1>1. task.run \in Runs /\ HydratedJob(task) \in Jobs \cup {NoJob}
  BY DEF HydratedJob, TypeOK, RowTypeOK, TaskRows, CallLogs
<1>2. (order[task.run] = "refunded") \in BOOLEAN /\ "push" \in RecoveryPCs
  BY DEF RecoveryPCs
<1>3. recovery' \in Recoveries
  BY <1>1, <1>2 DEF ReadFailedTask, Recoveries
<1>4. RecoveryTypeOK'
  BY <1>3, RecoveryType DEF ReadFailedTask, RecoveryTypeOK, Recoveries
<1>5. QED
  BY <1>4, SameRow, SameTables DEF ReadFailedTask, rowVars, RecoveryMoves

LEMMA PushRecoveredMoves ==
  ASSUME TypeOK, PushRecoveredJob
  PROVE  RecoveryMoves
<1>1. RowKeeps
  BY RecoveryType, ProviderStateKeeps DEF PushRecoveredJob
<1>2. RecoveryTypeOK'
  BY VGoType DEF PushRecoveredJob, RecoveryPCs
<1>3. QED
  BY <1>1, <1>2, SameTables DEF PushRecoveredJob, RecoveryMoves

LEMMA ClaimRecoveryMoves ==
  ASSUME TypeOK, ClaimFailedTaskProviderRecovery
  PROVE  RecoveryMoves
<1>1. RowKeeps
  <2>1. CASE task' = [task EXCEPT !.owner = Recovery, !.leased = TRUE]
    <3>1. task \in TaskRows /\ Recovery \in Owners /\ Recovery \notin Claims
      BY TaskRowAssumption DEF TypeOK, RowTypeOK, Owners, Recovery, Claims
    <3>2. QED
      BY <2>1, <3>1 DEF RowKeeps, OwnerKeeps, TaskRows
  <2>2. QED
    BY <2>1, SameRow DEF ClaimFailedTaskProviderRecovery
<1>2. RecoveryTypeOK'
  BY VGoType, VLeaveType DEF ClaimFailedTaskProviderRecovery, RecoveryPCs
<1>3. QED
  BY <1>1, <1>2, SameTables DEF ClaimFailedTaskProviderRecovery, RecoveryMoves

LEMMA QueryFailedMoves ==
  ASSUME TypeOK, QueryFailedTask
  PROVE  RecoveryMoves
<1>1. recovery.run \in Runs /\ recovery.job \in Jobs \cup {NoJob}
  BY RecoveryType
<1>2. RecoveryTypeOK'
  BY VGoType DEF QueryFailedTask, RecoveryPCs
<1>3. PICK succeeded \in BOOLEAN :
        Recorded(PollRow(recovery.job, succeeded), recovery.run)
  BY DEF QueryFailedTask, Record, Recorded
<1>4. PollRow(recovery.job, succeeded) \in CallLogs
  BY <1>1, LogRowType
<1>5. RecordJob(recovery.run, recovery.job) /\ UNCHANGED <<resolved, job, stopped>>
  BY DEF QueryFailedTask
<1>6. job' \in [Jobs -> [run : Runs, state : JobStates]]
  BY <1>5 DEF TypeOK, RowTypeOK
<1>7. TablesOK' /\ RowKeeps
  BY <1>1, <1>3, <1>4, <1>5, <1>6, RecordedTables
<1>8. QED
  BY <1>2, <1>7 DEF RecoveryMoves

LEMMA SaveRecoveredMoves ==
  ASSUME TypeOK, SaveRecovered
  PROVE  RecoveryMoves
<1>1. RecoveryTypeOK'
  BY VGoType DEF SaveRecovered, RecoveryPCs
<1>2. CASE task' = [task EXCEPT !.status = "succeeded", !.job = recovery.job]
           /\ task.status = "failed"
  <2>1. task \in TaskRows /\ recovery.job \in Jobs \cup {NoJob}
    BY RecoveryType DEF TypeOK, RowTypeOK
  <2>2. RowRestored
    BY <1>2, <2>1 DEF SaveRecovered, VAt, RowRestored, OwnerKeeps, TaskRows, TaskStatuses
  <2>3. QED
    BY <1>1, <2>2, SameTables DEF SaveRecovered, RecoveryMoves
<1>3. CASE UNCHANGED task
  BY <1>1, <1>3, SameRow, SameTables DEF SaveRecovered, RecoveryMoves
<1>4. QED
  BY <1>2, <1>3 DEF SaveRecovered

LEMMA BillRecoveredMoves ==
  ASSUME TypeOK, BillRecovered \/ ReviewRecovered
  PROVE  RecoveryMoves
<1>1. RecoveryTypeOK'
  BY VGoType DEF BillRecovered, ReviewRecovered, RecoveryPCs
<1>2. order' \in [Runs -> OrderStatuses]
  <2>1. order \in [Runs -> OrderStatuses] /\ recovery.run \in Runs /\ "settled" \in OrderStatuses
    BY RecoveryType DEF TypeOK, RowTypeOK, OrderStatuses
  <2>2. QED
    BY <2>1, VerdictType DEF BillRecovered, ReviewRecovered
<1>3. QED
  BY <1>1, <1>2, OrderTables, SameRow DEF BillRecovered, ReviewRecovered, RecoveryMoves

LEMMA ReleaseRecoveryMoves ==
  ASSUME TypeOK, ReleaseTaskProviderRecovery \/ CrashRecovery
  PROVE  RecoveryMoves
<1>1. RecoveryTypeOK'
  BY VLeaveType DEF ReleaseTaskProviderRecovery, CrashRecovery
<1>2. RowKeeps
  BY ReleaseKeeps, SameRow DEF ReleaseTaskProviderRecovery, CrashRecovery, rowVars
<1>3. QED
  BY <1>1, <1>2, SameTables DEF ReleaseTaskProviderRecovery, CrashRecovery, rowVars, RecoveryMoves

LEMMA ResolveMoves ==
  ASSUME TypeOK, NEW r \in Runs, ResolveBillingOrder(r)
  PROVE  RecoveryMoves
<1>1. order' \in [Runs -> OrderStatuses] /\ resolved' \subseteq Runs
  BY VerdictType DEF ResolveBillingOrder, TypeOK, RowTypeOK
<1>2. TablesOK'
  BY <1>1 DEF ResolveBillingOrder, TablesOK, TypeOK, RowTypeOK
<1>3. QED
  BY <1>2, SameRow, RecoveryType
  DEF ResolveBillingOrder, RecoveryMoves, RecoveryTypeOK, Recoveries

\* Every step of a retry, of a recovery and of the administrator.
LEMMA RecoveryStepMoves ==
  ASSUME TypeOK, RecoveryStep
  PROVE  RecoveryMoves
<1>1. CASE Retry
  BY <1>1, CheckRetryMoves, RetryMoves DEF Retry
<1>2. CASE Recover
  BY <1>2, ReadFailedMoves, PushRecoveredMoves, ClaimRecoveryMoves, QueryFailedMoves,
     SaveRecoveredMoves, BillRecoveredMoves, ReleaseRecoveryMoves DEF Recover
<1>3. CASE CrashRecovery
  BY <1>3, ReleaseRecoveryMoves
<1>4. CASE \E r \in Runs : ResolveBillingOrder(r)
  BY <1>4, ResolveMoves
<1>5. QED
  BY <1>1, <1>2, <1>3, <1>4 DEF RecoveryStep

\* The clock and the provider.
LEMMA OutsideStepMoves ==
  ASSUME TypeOK, OutsideStep
  PROVE  TablesOK' /\ RowKeeps
<1>1. CASE LeaseExpires
  <2>1. task' = [task EXCEPT !.leased = FALSE] /\ task \in TaskRows
    BY <1>1 DEF LeaseExpires, TypeOK, RowTypeOK
  <2>2. RowKeeps
    BY <2>1 DEF RowKeeps, OwnerKeeps, TaskRows
  <2>3. QED
    BY <1>1, <2>2, SameTables DEF LeaseExpires
<1>2. CASE \E j \in Jobs : JobEnds(j)
  <2>1. PICK j \in Jobs : JobEnds(j)
    BY <1>2
  <2>2. job' \in [Jobs -> [run : Runs, state : JobStates]]
    BY <2>1 DEF JobEnds, JobStates, TypeOK, RowTypeOK
  <2>3. QED
    BY <2>1, <2>2, JobTables, SameRow DEF JobEnds
<1>3. QED
  BY <1>1, <1>2 DEF OutsideStep

-----------------------------------------------------------------------------
(***************************************************************************)
(* The inductive invariant.                                                *)
(***************************************************************************)

\* The execution that holds the row works on the row's run, ...
HolderIsCurrent == task.owner \in Claims => exec[task.owner].run = task.run

\* ... no execution is ahead of the row, ...
NoneAhead == \A k \in Claims : exec[k].run <= task.run

\* ... and a run that an execution has concluded is over as long as it is the
\* current one.
WonIsOver ==
  \A k \in Claims : exec[k].won /\ exec[k].run = task.run => task.status \in Terminal

IInv == TypeOK /\ Pending /\ HolderIsCurrent /\ NoneAhead /\ WonIsOver /\ OneConclusion

\* The kinds of steps there are.
StepKind ==
  \/ ExecKeeps /\ (RowKeeps \/ RowEnds \/ RowRequeued \/ RowRestored)
  \/ \E k \in Claims : Wins(k) \/ Claimed(k)

LEMMA SameExec == ASSUME TypeOK, UNCHANGED exec PROVE ExecKeeps
BY DEF TypeOK, WorkerTypeOK, ExecKeeps

LEMMA TypesTogether ==
  ASSUME TablesOK, task \in TaskRows
  PROVE  RowTypeOK
BY DEF TablesOK, RowTypeOK

LEMMA StepKinds ==
  ASSUME TypeOK, Pending, [Next]_vars
  PROVE  TypeOK' /\ Pending' /\ StepKind
<1>1. ASSUME NEW k \in Claims, WorkerStep(k)
      PROVE  TypeOK' /\ Pending' /\ StepKind
  <2>1. WorkerMoves(k) /\ UNCHANGED <<cancelVars, recoveryVars>>
    BY <1>1, WorkerStepMoves DEF WorkerStep
  <2>2. StepKind
    BY <2>1 DEF WorkerMoves, StepKind
  <2>3. RowTypeOK'
    BY <2>1 DEF WorkerMoves, RowKeeps, Wins, Claimed, TablesOK, RowTypeOK
  <2>4. WorkerTypeOK'
    BY <2>1 DEF WorkerMoves, ExecKeeps, Wins, Claimed, WorkerTypeOK
  <2>5. CancelTypeOK' /\ RecoveryTypeOK' /\ Pending'
    BY <2>1 DEF TypeOK, CancelTypeOK, RecoveryTypeOK, Pending, cancelVars, recoveryVars
  <2>6. QED
    BY <2>2, <2>3, <2>4, <2>5 DEF TypeOK
<1>2. ASSUME CancelMoves, UNCHANGED <<workerVars, recoveryVars>>
      PROVE  TypeOK' /\ Pending' /\ StepKind
  <2>1. RowTypeOK'
    BY <1>2 DEF CancelMoves, RowKeeps, RowEnds, TablesOK, RowTypeOK
  <2>2. WorkerTypeOK' /\ RecoveryTypeOK'
    BY <1>2 DEF TypeOK, WorkerTypeOK, RecoveryTypeOK, workerVars, recoveryVars
  <2>3. StepKind
    BY <1>2, SameExec DEF CancelMoves, StepKind, workerVars
  <2>4. QED
    BY <1>2, <2>1, <2>2, <2>3 DEF CancelMoves, TypeOK
<1>3. ASSUME NEW c \in Cancellers, CancelStep(c)
      PROVE  TypeOK' /\ Pending' /\ StepKind
  BY <1>2, <1>3, CancelStepMoves DEF CancelStep
<1>4. CASE ReconcileStep
  <2>1. CancelMoves
    BY <1>4, ReconcileStepMoves DEF ReconcileMoves, CancelMoves
  <2>2. QED
    BY <1>2, <1>4, <2>1 DEF ReconcileStep
<1>5. CASE RecoveryStep
  <2>1. RecoveryMoves /\ UNCHANGED <<workerVars, cancelVars>>
    BY <1>5, RecoveryStepMoves DEF RecoveryStep
  <2>2. RowTypeOK'
    BY <2>1 DEF RecoveryMoves, RowKeeps, RowRequeued, RowRestored, TablesOK, RowTypeOK
  <2>3. WorkerTypeOK' /\ CancelTypeOK' /\ Pending'
    BY <2>1 DEF TypeOK, WorkerTypeOK, CancelTypeOK, Pending, workerVars, cancelVars
  <2>4. StepKind
    BY <2>1, SameExec DEF RecoveryMoves, StepKind, workerVars
  <2>5. QED
    BY <2>1, <2>2, <2>3, <2>4 DEF RecoveryMoves, TypeOK
<1>6. CASE OutsideStep
  <2>1. TablesOK' /\ RowKeeps /\ UNCHANGED <<workerVars, cancelVars, recoveryVars>>
    BY <1>6, OutsideStepMoves DEF OutsideStep
  <2>2. RowTypeOK'
    BY <2>1 DEF RowKeeps, TablesOK, RowTypeOK
  <2>3. WorkerTypeOK' /\ CancelTypeOK' /\ RecoveryTypeOK' /\ Pending'
    BY <2>1
    DEF TypeOK, WorkerTypeOK, CancelTypeOK, RecoveryTypeOK, Pending, workerVars, cancelVars,
        recoveryVars
  <2>4. StepKind
    BY <2>1, SameExec DEF StepKind, workerVars
  <2>5. QED
    BY <2>2, <2>3, <2>4 DEF TypeOK
<1>7. CASE UNCHANGED vars
  <2>1. UNCHANGED rowVars /\ UNCHANGED <<workerVars, cancelVars, recoveryVars>>
    BY <1>7 DEF vars
  <2>2. TypeOK' /\ Pending'
    BY <2>1
    DEF TypeOK, RowTypeOK, WorkerTypeOK, CancelTypeOK, RecoveryTypeOK, Pending, rowVars,
        workerVars, cancelVars, recoveryVars
  <2>3. StepKind
    BY <2>1, SameExec, SameRow DEF StepKind, rowVars, workerVars
  <2>4. QED
    BY <2>2, <2>3
<1>8. QED
  BY <1>1, <1>3, <1>4, <1>5, <1>6, <1>7 DEF Next

\* What a kind of step means for the three parts of the invariant.
Concluded == HolderIsCurrent /\ NoneAhead /\ WonIsOver /\ OneConclusion

LEMMA RunTypes ==
  ASSUME TypeOK
  PROVE  task.run \in Int /\ \A k \in Claims : exec[k].run \in Int
<1>1. Runs \subseteq Int
  BY TaskRowAssumption DEF Runs
<1>2. QED
  BY <1>1 DEF TypeOK, RowTypeOK, WorkerTypeOK, TaskRows, Executions

LEMMA KeepsConcluded ==
  ASSUME TypeOK, Concluded, ExecKeeps, RowKeeps \/ RowEnds \/ RowRestored
  PROVE  Concluded'
<1>1. task'.run = task.run /\ OwnerKeeps
      /\ (task.status \in Terminal => task'.status \in Terminal)
  BY DEF RowKeeps, RowEnds, RowRestored, Terminal
<1>2. HolderIsCurrent'
  BY <1>1 DEF Concluded, HolderIsCurrent, OwnerKeeps, ExecKeeps
<1>3. NoneAhead'
  BY <1>1 DEF Concluded, NoneAhead, ExecKeeps
<1>4. WonIsOver'
  BY <1>1 DEF Concluded, WonIsOver, ExecKeeps
<1>5. OneConclusion'
  BY DEF Concluded, OneConclusion, ExecKeeps
<1>6. QED
  BY <1>2, <1>3, <1>4, <1>5 DEF Concluded

LEMMA RequeueConcluded ==
  ASSUME TypeOK, Concluded, ExecKeeps, RowRequeued
  PROVE  Concluded'
<1>1. HolderIsCurrent'
  BY DEF RowRequeued, HolderIsCurrent
<1>2. \A k \in Claims : exec'[k].run <= task.run /\ exec'[k].run \in Int
  BY RunTypes DEF Concluded, NoneAhead, ExecKeeps
<1>3. NoneAhead' /\ WonIsOver'
  BY <1>2, RunTypes DEF RowRequeued, NoneAhead, WonIsOver
<1>4. OneConclusion'
  BY DEF Concluded, OneConclusion, ExecKeeps
<1>5. QED
  BY <1>1, <1>3, <1>4 DEF Concluded

LEMMA ClaimConcluded ==
  ASSUME TypeOK, Concluded, NEW k \in Claims, Claimed(k)
  PROVE  Concluded'
<1>1. HolderIsCurrent'
  BY DEF Claimed, HolderIsCurrent
<1>2. NoneAhead'
  BY RunTypes DEF Claimed, Concluded, NoneAhead
<1>3. WonIsOver'
  BY DEF Claimed, Concluded, WonIsOver
<1>4. OneConclusion'
  BY DEF Claimed, Concluded, OneConclusion
<1>5. QED
  BY <1>1, <1>2, <1>3, <1>4 DEF Concluded

LEMMA WinConcluded ==
  ASSUME TypeOK, Concluded, NEW k \in Claims, Wins(k)
  PROVE  Concluded'
<1>1. exec[k].run = task.run
  BY DEF Wins, Concluded, HolderIsCurrent
<1>2. \A l \in Claims : exec[l].won => exec[l].run # task.run
  BY DEF Wins, Concluded, WonIsOver, Terminal
<1>3. HolderIsCurrent'
  BY DEF Wins, Concluded, HolderIsCurrent, OwnerKeeps
<1>4. NoneAhead'
  BY DEF Wins, Concluded, NoneAhead
<1>5. WonIsOver'
  BY DEF Wins, WonIsOver
<1>6. OneConclusion'
  <2>1. SUFFICES ASSUME NEW i \in Claims, NEW l \in Claims,
                        exec'[i].won, exec'[l].won, exec'[i].run = exec'[l].run
                 PROVE  i = l
    BY DEF OneConclusion
  <2>2. exec'[i].run = exec[i].run /\ exec'[l].run = exec[l].run
    BY DEF Wins
  <2>3. (i # k => exec[i].won) /\ (l # k => exec[l].won)
    BY <2>1 DEF Wins
  <2>4. CASE i = k /\ l # k
    BY <1>1, <1>2, <2>1, <2>2, <2>3, <2>4
  <2>5. CASE i # k /\ l = k
    BY <1>1, <1>2, <2>1, <2>2, <2>3, <2>5
  <2>6. CASE i # k /\ l # k
    BY <2>1, <2>2, <2>3, <2>6 DEF Concluded, OneConclusion
  <2>7. QED
    BY <2>4, <2>5, <2>6
<1>7. QED
  BY <1>3, <1>4, <1>5, <1>6 DEF Concluded

LEMMA IInvInit == Init => IInv
<1>1. SUFFICES ASSUME Init PROVE IInv
  OBVIOUS
<1>2. 1 \in Runs /\ 0 \in 0 .. MaxClaims /\ 0 \in 0 .. MaxChecks
  BY TaskRowAssumption DEF Runs
<1>3. RowTypeOK
  <2>1. task \in TaskRows
    BY <1>1, <1>2
    DEF Init, RowInit, TaskRows, TaskStatuses, Owners, NoOwner, NoJob, CancelStatuses
  <2>2. TablesOK
    BY <1>1, <1>2 DEF Init, RowInit, TablesOK, OrderStatuses, JobStates, CallLogs, NoJob
  <2>3. QED
    BY <2>1, <2>2, TypesTogether
<1>4. WorkerTypeOK
  <2>1. Unclaimed \in Executions
    BY <1>2 DEF Unclaimed, Executions, PCs, Outcomes, NoJob
  <2>2. QED
    BY <1>1, <2>1 DEF Init, WorkerInit, WorkerTypeOK, Attempts, AttemptStates, NoJob
<1>5. CancelTypeOK /\ Pending
  <2>1. NoCopy \in Copies
    BY <1>2 DEF NoCopy, Copies, NoJob
  <2>2. QED
    BY <1>1, <1>2, <2>1
    DEF Init, CancelInit, CancelTypeOK, Pending, CancelPCs, TaskStatuses, NoRec, RecPCs,
        CancelStatuses
<1>6. RecoveryTypeOK
  BY <1>1, <1>2 DEF Init, RecoveryInit, RecoveryTypeOK, NoRecovery, RecoveryPCs, NoJob
<1>7. task.owner = NoOwner /\ task.run = 1 /\ NoOwner \notin Claims
  <2>1. task.owner = NoOwner /\ task.run = 1
    BY <1>1 DEF Init, RowInit
  <2>2. NoOwner \notin Claims
    BY TaskRowAssumption DEF NoOwner, Claims
  <2>3. QED
    BY <2>1, <2>2
<1>8. \A k \in Claims : exec[k].run = 1 /\ exec[k].won = FALSE
  BY <1>1 DEF Init, WorkerInit, Unclaimed
<1>9. HolderIsCurrent /\ NoneAhead /\ WonIsOver /\ OneConclusion
  <2>1. HolderIsCurrent
    BY <1>7 DEF HolderIsCurrent
  <2>2. NoneAhead
    BY <1>7, <1>8 DEF NoneAhead
  <2>3. WonIsOver /\ OneConclusion
    BY <1>8 DEF WonIsOver, OneConclusion
  <2>4. QED
    BY <2>1, <2>2, <2>3
<1>10. QED
  BY <1>3, <1>4, <1>5, <1>6, <1>9 DEF IInv, TypeOK

LEMMA IInvStep == IInv /\ [Next]_vars => IInv'
<1>1. SUFFICES ASSUME IInv, [Next]_vars PROVE IInv'
  OBVIOUS
<1>2. TypeOK /\ Pending /\ Concluded
  BY <1>1 DEF IInv, Concluded
<1>3. TypeOK' /\ Pending' /\ StepKind
  BY <1>1, <1>2, StepKinds
<1>4. Concluded'
  BY <1>2, <1>3, KeepsConcluded, RequeueConcluded, ClaimConcluded, WinConcluded DEF StepKind
<1>5. QED
  BY <1>3, <1>4 DEF IInv, Concluded

LEMMA InductiveInvariant == Spec => []IInv
BY IInvInit, IInvStep, PTL DEF Spec

-----------------------------------------------------------------------------
\* Types, for every instance: every operation of workers, cancellers, the
\* reconciler and recoveries leaves rows of the declared shape.
THEOREM Typed == Spec => []TypeOK
<1>1. IInv => TypeOK
  BY DEF IInv
<1>2. QED
  BY <1>1, InductiveInvariant, PTL

\* However many workers stall, crash and are replaced: at most one execution
\* concludes a run (UpdateTaskTerminalState and SaveTaskCompletion name the
\* lease owner).
THEOREM ConcludedOnce == Spec => []OneConclusion
<1>1. IInv => OneConclusion
  BY DEF IInv
<1>2. QED
  BY <1>1, InductiveInvariant, PTL

LEMMA EndedStep ==
  ASSUME IInv, [Next]_vars
  PROVE  task.status \in Terminal /\ task'.run = task.run =>
           \/ task'.status = task.status
           \/ task.status = "failed" /\ task'.status = "succeeded"
                /\ recovery.pc = "save"
<1>1. SUFFICES ASSUME task.status \in Terminal, task'.run = task.run
               PROVE  \/ task'.status = task.status
                      \/ task.status = "failed" /\ task'.status = "succeeded"
                           /\ recovery.pc = "save"
  OBVIOUS
<1>2. StepKind /\ task.run \in Int
  BY StepKinds, RunTypes DEF IInv
<1>3. ~ RowRequeued
  BY <1>1, <1>2 DEF RowRequeued
<1>4. \A k \in Claims : ~ Wins(k) /\ ~ Claimed(k)
  BY <1>1 DEF Wins, Claimed, Terminal
<1>5. QED
  BY <1>1, <1>2, <1>3, <1>4 DEF StepKind, RowKeeps, RowEnds, RowRestored

\* No late result, cancellation or failure overwrites the end of a run; only a
\* recovery turns failed into succeeded.
THEOREM EndedStay == Spec => EndedRunsStay
<1>1. IInv /\ [Next]_vars =>
        [task.status \in Terminal /\ task'.run = task.run =>
           \/ task'.status = task.status
           \/ task.status = "failed" /\ task'.status = "succeeded"
                /\ recovery.pc = "save"]_vars
  BY EndedStep
<1>2. QED
  BY <1>1, InductiveInvariant, PTL DEF Spec, EndedRunsStay

-----------------------------------------------------------------------------
(***************************************************************************)
(* The orders: what a step can do to them, and who does it.                *)
(***************************************************************************)
Refunds(r) ==
  \/ \E k \in Claims : At(k, "refund") /\ r = exec[k].bill
  \/ \E c \in Cancellers : CAt(c, "bill") /\ r = cancels[c].copy.run
  \/ rec.pc \in {"confirmed", "failed"} /\ r = rec.copy.run

Settles(r) ==
  \/ \E k \in Claims : At(k, "settle") /\ r = exec[k].bill
  \/ rec.pc = "succeeded" /\ r = rec.copy.run
  \/ recovery.pc = "bill" /\ r = recovery.run

OrderMoves(r) ==
  \/ order'[r] = order[r]
  \/ order[r] \in {"reserved", "running"} /\ order'[r] \in {"running", "uncertain"}
  \/ order[r] \in Open /\ order'[r] = "refunded" /\ (r \in resolved' \/ Refunds(r))
  \/ order[r] \in Open /\ order'[r] = "settled" /\ (r \in resolved' \/ Settles(r))
  \/ order[r] = "refunded" /\ order'[r] = "settled" /\ recovery.pc = "bill" /\ r = recovery.run
  \/ retry = "checked" /\ r = task.run + 1 /\ task'.run = r /\ order'[r] = "reserved"

OrdersMove == resolved \subseteq resolved' /\ \A r \in Runs : OrderMoves(r)

LEMMA OrdersStay == ASSUME UNCHANGED <<order, resolved>> PROVE OrdersMove
BY DEF OrdersMove, OrderMoves

\* An order that is put up for review, whichever it is.
LEMMA ReviewsMove ==
  ASSUME TypeOK, NEW r \in Runs, UNCHANGED order \/ MarkBillingUncertain(r), UNCHANGED resolved
  PROVE  OrdersMove
BY DEF MarkBillingUncertain, OrdersMove, OrderMoves, TypeOK, RowTypeOK

LEMMA RefundsMove ==
  ASSUME TypeOK, NEW r \in Runs, RefundBilling(r), Refunds(r), UNCHANGED resolved
  PROVE  OrdersMove
BY DEF RefundBilling, OrdersMove, OrderMoves, TypeOK, RowTypeOK

LEMMA SettlesMove ==
  ASSUME TypeOK, NEW r \in Runs, SettleBilling(r), Settles(r), UNCHANGED resolved
  PROVE  OrdersMove
BY DEF SettleBilling, OrdersMove, OrderMoves, TypeOK, RowTypeOK

LEMMA WorkerOrders ==
  ASSUME TypeOK, NEW k \in Claims, WorkerStep(k)
  PROVE  OrdersMove
<1>1. exec[k].run \in Runs /\ exec[k].bill \in Runs
  BY DEF TypeOK, WorkerTypeOK, Executions
<1>2. CASE ClaimNextTask(k) \/ Start(k) \/ BeginTaskRouteAttempt(k) \/ ReadBilling(k)
  BY <1>2, OrdersStay
  DEF ClaimNextTask, Start, BeginTaskRouteAttempt, ReadBilling, rowVars
<1>3. CASE MarkBillingRunning(k)
  BY <1>1, <1>3 DEF MarkBillingRunning, OrdersMove, OrderMoves, TypeOK, RowTypeOK
<1>4. CASE MarkRouteAttemptDispatching(k) \/ Submit(k) \/ NoteBillingJob(k) \/ StampTask(k)
  BY <1>4, OrdersStay
  DEF MarkRouteAttemptDispatching, Submit, NoteBillingJob, StampTask, rowVars
<1>5. CASE LogAPICall(k) \/ Poll(k)
  BY <1>1, <1>5, ReviewsMove DEF LogAPICall, Poll, Record
<1>6. CASE RenewFails(k) \/ FinishTaskRouteAttempt(k) \/ EnsureAttemptLogged(k)
           \/ HandleExecutionFailure(k) \/ DeferRunningTask(k) \/ DecideBilling(k)
  BY <1>6, OrdersStay
  DEF RenewFails, FinishTaskRouteAttempt, Forget, EnsureAttemptLogged, HandleExecutionFailure,
      DeferRunningTask, DecideBilling, rowVars
<1>7. CASE RefundTask(k)
  BY <1>1, <1>7, RefundsMove DEF RefundTask, Refunds
<1>8. CASE ReviewTask(k)
  BY <1>1, <1>8, ReviewsMove DEF ReviewTask
<1>9. CASE ReadBeforeSave(k) \/ SaveTaskCompletion(k) \/ SaveRefused(k) \/ CrashWorker(k)
  BY <1>9, OrdersStay
  DEF ReadBeforeSave, SaveTaskCompletion, SaveRefused, CrashWorker, Forget, rowVars
<1>10. CASE SettleTask(k)
  BY <1>1, <1>10, SettlesMove, OrdersStay DEF SettleTask, Settles
<1>11. QED
  BY <1>2, <1>3, <1>4, <1>5, <1>6, <1>7, <1>8, <1>9, <1>10
  DEF WorkerStep, Execute, Prepare, Call, Bill

LEMMA CancelOrders ==
  ASSUME TypeOK, NEW c \in Cancellers, CancelStep(c)
  PROVE  OrdersMove
<1>1. cancels[c].copy.run \in Runs
  BY DEF TypeOK, CancelTypeOK, Copies
<1>2. CASE ReadTask(c) \/ CancelTaskIfStatus(c) \/ CancelActiveTask(c, Stoppable) \/ PushJob(c)
           \/ ClaimTaskProviderCancellation(c) \/ CannotCancel(c) \/ GiveUpCancel(c)
           \/ CrashCanceller(c)
  BY <1>2, OrdersStay
  DEF ReadTask, CancelTaskIfStatus, CancelActiveTask, PushJob, ClaimTaskProviderCancellation,
      CannotCancel, GiveUpCancel, CrashCanceller, rowVars
<1>3. CASE BillCancelled(c)
  BY <1>1, <1>3, RefundsMove, ReviewsMove DEF BillCancelled, Refunds
<1>4. CASE SendCancel(c) \/ ReviewCancelled(c)
  BY <1>1, <1>4, ReviewsMove DEF SendCancel, ReviewCancelled, Record
<1>5. QED
  BY <1>2, <1>3, <1>4 DEF CancelStep, Request

LEMMA ReconcileOrders ==
  ASSUME TypeOK, ReconcileStep
  PROVE  OrdersMove
<1>1. rec.copy.run \in Runs
  BY DEF TypeOK, CancelTypeOK, Copies
<1>2. CASE ClaimNextTaskProviderCancellation \/ SkipQuery \/ CloseReconciled
           \/ DeferReconciled \/ GiveUpReconciled \/ CrashReconciler
  BY <1>2, OrdersStay
  DEF ClaimNextTaskProviderCancellation, SkipQuery, CloseReconciled, DeferReconciled,
      GiveUpReconciled, CrashReconciler, rowVars
<1>3. CASE QueryProviderCancellation \/ ReviewReconciled
  BY <1>1, <1>3, ReviewsMove DEF QueryProviderCancellation, ReviewReconciled, Record
<1>4. CASE RefundReconciled
  BY <1>1, <1>4, RefundsMove, OrdersStay DEF RefundReconciled, Refunds
<1>5. CASE SettleReconciled
  BY <1>1, <1>5, SettlesMove, ReviewsMove DEF SettleReconciled, Settles, RAt
<1>6. QED
  BY <1>2, <1>3, <1>4, <1>5 DEF ReconcileStep, Reconcile

LEMMA RecoveryOrders ==
  ASSUME TypeOK, RecoveryStep
  PROVE  OrdersMove
<1>1. recovery.run \in Runs /\ task.run \in Runs
  BY DEF TypeOK, RecoveryTypeOK, RowTypeOK, TaskRows
<1>2. CASE CheckRetryEligibility \/ ReadFailedTask \/ PushRecoveredJob
           \/ ClaimFailedTaskProviderRecovery \/ SaveRecovered \/ ReleaseTaskProviderRecovery
           \/ CrashRecovery
  BY <1>2, OrdersStay
  DEF CheckRetryEligibility, ReadFailedTask, PushRecoveredJob, ClaimFailedTaskProviderRecovery,
      SaveRecovered, ReleaseTaskProviderRecovery, CrashRecovery, rowVars
<1>3. CASE RetryTaskWithBilling
  <2>1. CASE task.status \in {"failed", "cancelled"} /\ task.run < MaxRuns
    <3>1. task'.run = task.run + 1 /\ order' = [order EXCEPT ![task.run + 1] = "reserved"]
      BY <1>3, <2>1 DEF RetryTaskWithBilling, TypeOK, RowTypeOK, TaskRows
    <3>2. QED
      BY <1>3, <3>1 DEF RetryTaskWithBilling, OrdersMove, OrderMoves, TypeOK, RowTypeOK
  <2>2. CASE ~ (task.status \in {"failed", "cancelled"} /\ task.run < MaxRuns)
    BY <1>3, <2>2, OrdersStay DEF RetryTaskWithBilling
  <2>3. QED
    BY <2>1, <2>2
<1>4. CASE QueryFailedTask \/ ReviewRecovered
  BY <1>1, <1>4, ReviewsMove DEF QueryFailedTask, ReviewRecovered, Record
<1>5. CASE BillRecovered
  <2>1. CASE UNCHANGED order
    BY <1>5, <2>1, OrdersStay DEF BillRecovered
  <2>2. CASE /\ order' = [order EXCEPT ![recovery.run] = "settled"]
             /\ order[recovery.run] \in {"refunded", "settled"} \cup Open
    BY <1>1, <1>5, <2>2
    DEF BillRecovered, VAt, OrdersMove, OrderMoves, Settles, TypeOK, RowTypeOK
  <2>3. QED
    BY <1>5, <2>1, <2>2 DEF BillRecovered
<1>6. CASE \E r \in Runs : ResolveBillingOrder(r)
  <2>1. PICK r \in Runs : ResolveBillingOrder(r)
    BY <1>6
  <2>2. resolved' = resolved \cup {r} /\ (SettleBilling(r) \/ RefundBilling(r))
    BY <2>1 DEF ResolveBillingOrder
  <2>3. QED
    BY <2>2 DEF SettleBilling, RefundBilling, OrdersMove, OrderMoves, TypeOK, RowTypeOK
<1>7. QED
  BY <1>2, <1>3, <1>4, <1>5, <1>6 DEF RecoveryStep, Retry, Recover

LEMMA WhoMovesOrders ==
  ASSUME TypeOK, [Next]_vars
  PROVE  OrdersMove
<1>1. CASE OutsideStep
  BY <1>1, OrdersStay DEF OutsideStep, LeaseExpires, JobEnds
<1>2. CASE UNCHANGED vars
  BY <1>2, OrdersStay DEF vars, rowVars
<1>3. QED
  BY <1>1, <1>2, WorkerOrders, CancelOrders, ReconcileOrders, RecoveryOrders DEF Next

-----------------------------------------------------------------------------
(***************************************************************************)
(* Nobody works on a run that has not begun.                               *)
(***************************************************************************)
Behind ==
  /\ \A c \in Cancellers : cancels[c].copy.run <= task.run
  /\ rec.copy.run <= task.run
  /\ recovery.run <= task.run
  /\ \A k \in Claims : exec[k].bill <= task.run
  /\ \A r \in Runs : r > task.run => order[r] = "none"

\* A run that is worked on was worked on before, is the first or is the current.
Known(new, old) == new \in {old, 1, task.run}

CopiesMove ==
  /\ \A c \in Cancellers : Known(cancels'[c].copy.run, cancels[c].copy.run)
  /\ Known(rec'.copy.run, rec.copy.run)
  /\ Known(recovery'.run, recovery.run)
  /\ \A k \in Claims : Known(exec'[k].bill, exec[k].bill)

LEMMA EmptyRecords ==
  /\ NoRec.pc = "idle" /\ NoRec.copy.run = 1
  /\ NoRecovery.pc = "idle" /\ NoRecovery.run = 1
  /\ Unclaimed.pc = "unclaimed" /\ Unclaimed.run = 1 /\ Unclaimed.bill = 1
BY DEF NoRec, NoCopy, NoRecovery, Unclaimed

LEMMA WorkerBills ==
  ASSUME TypeOK, NEW k \in Claims, WorkerStep(k)
  PROVE  \A l \in Claims : Known(exec'[l].bill, exec[l].bill)
<1>1. exec \in [Claims -> Executions]
  BY DEF TypeOK, WorkerTypeOK
<1>2. ASSUME Leave(k) PROVE \A l \in Claims : Known(exec'[l].bill, exec[l].bill)
  BY <1>1, <1>2 DEF Leave, Unclaimed, Known
<1>3. ASSUME NEW pc, Go(k, pc) PROVE \A l \in Claims : Known(exec'[l].bill, exec[l].bill)
  BY <1>1, <1>3 DEF Go, Executions, Known
<1>4. ASSUME NEW pc, NEW outcome, End(k, outcome, pc)
      PROVE  \A l \in Claims : Known(exec'[l].bill, exec[l].bill)
  BY <1>1, <1>4 DEF End, Executions, Known
<1>5. CASE ClaimNextTask(k)
  BY <1>1, <1>5 DEF ClaimNextTask, Unclaimed, Known
<1>6. CASE BeginTaskRouteAttempt(k)
  BY <1>1, <1>3, <1>4, <1>6
  DEF BeginTaskRouteAttempt, NewRouteAttempt, ResumeRouteAttempt, RejectedRouteAttempt,
      Executions, Known
<1>7. CASE Start(k) \/ ReadBilling(k) \/ MarkBillingRunning(k)
  BY <1>2, <1>3, <1>4, <1>7 DEF Start, ReadBilling, MarkBillingRunning
<1>8. CASE MarkRouteAttemptDispatching(k) \/ RenewFails(k)
  <2>1. CASE MarkRouteAttemptDispatching(k)
    BY <1>1, <2>1 DEF MarkRouteAttemptDispatching, Executions, Known
  <2>2. CASE RenewFails(k)
    BY <1>1, <2>2 DEF RenewFails, Executions, Known
  <2>3. QED
    BY <1>8, <2>1, <2>2
<1>9. CASE Submit(k)
  <2>1. CASE SubmitAccepted(k)
    <3>1. PICK j \in Jobs :
            exec' = [exec EXCEPT ![k].id = IF Async THEN j ELSE NoJob,
                                 ![k].outcome = IF Async THEN "" ELSE "ok",
                                 ![k].pc = IF Async THEN "note" ELSE "log"]
      BY <2>1 DEF SubmitAccepted
    <3>2. QED
      BY <1>1, <3>1 DEF Executions, Known
  <2>2. QED
    BY <1>4, <1>9, <2>1 DEF Submit, SubmitLost, SubmitRejected, SubmitStopped
<1>10. CASE NoteBillingJob(k) \/ StampTask(k) \/ LogAPICall(k) \/ Poll(k)
  BY <1>3, <1>4, <1>10 DEF NoteBillingJob, StampTask, LogAPICall, Poll
<1>11. CASE FinishTaskRouteAttempt(k)
  BY <1>1, <1>2, <1>11 DEF FinishTaskRouteAttempt, Executions, Known
<1>12. CASE EnsureAttemptLogged(k) \/ DeferRunningTask(k) \/ DecideBilling(k) \/ RefundTask(k)
            \/ ReviewTask(k) \/ SaveRefused(k) \/ SettleTask(k) \/ CrashWorker(k)
  BY <1>2, <1>3, <1>4, <1>12
  DEF EnsureAttemptLogged, DeferRunningTask, DecideBilling, RefundTask, ReviewTask, SaveRefused,
      SettleTask, CrashWorker
<1>13. CASE HandleExecutionFailure(k)
  BY <1>1, <1>2, <1>13 DEF HandleExecutionFailure, Conclude, Executions, Known
<1>14. CASE ReadBeforeSave(k) \/ SaveTaskCompletion(k)
  BY <1>1, <1>2, <1>14 DEF ReadBeforeSave, SaveTaskCompletion, Executions, Known
<1>15. QED
  BY <1>5, <1>6, <1>7, <1>8, <1>9, <1>10, <1>11, <1>12, <1>13, <1>14
  DEF WorkerStep, Execute, Prepare, Call, Bill

LEMMA WhoKnowsRuns ==
  ASSUME TypeOK, [Next]_vars
  PROVE  CopiesMove
<1>1. /\ cancels \in [Cancellers -> [pc : CancelPCs, status : TaskStatuses, copy : Copies]]
      /\ rec \in [pc : RecPCs, copy : Copies, checks : 0 .. MaxChecks, verdict : CancelStatuses]
      /\ recovery \in Recoveries
  BY RecoveryType DEF TypeOK, CancelTypeOK
<1>2. ASSUME NEW k \in Claims, WorkerStep(k) PROVE CopiesMove
  BY <1>2, WorkerBills DEF WorkerStep, cancelVars, recoveryVars, CopiesMove, Known
<1>3. ASSUME NEW c \in Cancellers, CancelStep(c)
      PROVE  /\ \A d \in Cancellers : Known(cancels'[d].copy.run, cancels[d].copy.run)
             /\ UNCHANGED rec
  <2>1. ASSUME CLeave(c)
        PROVE  \A d \in Cancellers : Known(cancels'[d].copy.run, cancels[d].copy.run)
    BY <1>1, <2>1 DEF CLeave, NoCopy, Known
  <2>2. ASSUME NEW pc, CGo(c, pc)
        PROVE  \A d \in Cancellers : Known(cancels'[d].copy.run, cancels[d].copy.run)
    BY <1>1, <2>2 DEF CGo, Known
  <2>3. CASE ReadTask(c)
    BY <1>1, <2>3 DEF ReadTask, Known
  <2>4. QED
    BY <1>3, <2>1, <2>2, <2>3
    DEF CancelStep, Request, CancelTaskIfStatus, CancelActiveTask, BillCancelled, PushJob,
        ClaimTaskProviderCancellation, CannotCancel, SendCancel, GiveUpCancel, ReviewCancelled,
        CrashCanceller
<1>4. ASSUME NEW c \in Cancellers, CancelStep(c) PROVE CopiesMove
  BY <1>3, <1>4 DEF CancelStep, workerVars, recoveryVars, CopiesMove, Known
<1>5. CASE ReconcileStep
  <2>1. /\ RLeave => Known(rec'.copy.run, rec.copy.run)
        /\ UNCHANGED rec => Known(rec'.copy.run, rec.copy.run)
    BY EmptyRecords DEF RLeave, Known
  <2>2. ASSUME NEW pc, RGo(pc) PROVE Known(rec'.copy.run, rec.copy.run)
    BY <1>1, <2>2 DEF RGo, Known
  <2>3. ASSUME NEW pc, NEW verdict, rec' = [rec EXCEPT !.pc = pc, !.verdict = verdict]
        PROVE  Known(rec'.copy.run, rec.copy.run)
    BY <1>1, <2>3 DEF Known
  <2>4. ASSUME ClaimNextTaskProviderCancellation PROVE Known(rec'.copy.run, rec.copy.run)
    <3>1. rec'.copy = [run |-> task.run, job |-> task.job]
      BY <2>4 DEF ClaimNextTaskProviderCancellation
    <3>2. QED
      BY <3>1 DEF Known
  <2>5. ASSUME RefundReconciled \/ SettleReconciled
        PROVE  Known(rec'.copy.run, rec.copy.run)
    BY <2>2, <2>3, <2>5 DEF RefundReconciled, SettleReconciled
  <2>6. ASSUME SkipQuery \/ QueryProviderCancellation
        PROVE  Known(rec'.copy.run, rec.copy.run)
    BY <2>2, <2>6 DEF SkipQuery, QueryProviderCancellation
  <2>7. ASSUME CloseReconciled \/ DeferReconciled \/ GiveUpReconciled \/ ReviewReconciled
                 \/ CrashReconciler
        PROVE  Known(rec'.copy.run, rec.copy.run)
    BY <2>1, <2>2, <2>7
    DEF CloseReconciled, DeferReconciled, GiveUpReconciled, ReviewReconciled, CrashReconciler
  <2>8. Known(rec'.copy.run, rec.copy.run)
    BY <1>5, <2>4, <2>5, <2>6, <2>7 DEF ReconcileStep, Reconcile
  <2>9. UNCHANGED cancels
    BY <1>5
    DEF ReconcileStep, Reconcile, ClaimNextTaskProviderCancellation, SkipQuery,
        QueryProviderCancellation, RefundReconciled, SettleReconciled, CloseReconciled,
        DeferReconciled, GiveUpReconciled, ReviewReconciled, CrashReconciler
  <2>10. QED
    BY <1>5, <2>8, <2>9 DEF ReconcileStep, workerVars, recoveryVars, CopiesMove, Known
<1>6. CASE RecoveryStep
  <2>1. /\ VLeave => Known(recovery'.run, recovery.run)
        /\ UNCHANGED recovery => Known(recovery'.run, recovery.run)
    BY EmptyRecords DEF VLeave, Known
  <2>2. ASSUME NEW pc, VGo(pc) PROVE Known(recovery'.run, recovery.run)
    BY <1>1, <2>2 DEF VGo, Recoveries, Known
  <2>3. ASSUME ReadFailedTask PROVE Known(recovery'.run, recovery.run)
    <3>1. recovery'.run = task.run
      BY <2>3 DEF ReadFailedTask
    <3>2. QED
      BY <3>1 DEF Known
  <2>4. Retry \/ (\E r \in Runs : ResolveBillingOrder(r)) => UNCHANGED recovery
    BY DEF Retry, CheckRetryEligibility, RetryTaskWithBilling, ResolveBillingOrder
  <2>5. ASSUME PushRecoveredJob \/ ClaimFailedTaskProviderRecovery \/ QueryFailedTask
                 \/ SaveRecovered
        PROVE  Known(recovery'.run, recovery.run)
    BY <2>1, <2>2, <2>5
    DEF PushRecoveredJob, ClaimFailedTaskProviderRecovery, QueryFailedTask, SaveRecovered
  <2>6. ASSUME BillRecovered \/ ReviewRecovered \/ ReleaseTaskProviderRecovery \/ CrashRecovery
        PROVE  Known(recovery'.run, recovery.run)
    BY <2>1, <2>2, <2>6
    DEF BillRecovered, ReviewRecovered, ReleaseTaskProviderRecovery, CrashRecovery
  <2>7. Known(recovery'.run, recovery.run)
    BY <1>6, <2>1, <2>3, <2>4, <2>5, <2>6 DEF RecoveryStep, Recover
  <2>8. QED
    BY <1>6, <2>7 DEF RecoveryStep, workerVars, cancelVars, CopiesMove, Known
<1>7. CASE OutsideStep \/ UNCHANGED vars
  BY <1>7 DEF OutsideStep, vars, workerVars, cancelVars, recoveryVars, CopiesMove, Known
<1>8. QED
  BY <1>2, <1>4, <1>5, <1>6, <1>7 DEF Next

\* The current run never goes back.
LEMMA RunsGrow ==
  ASSUME TypeOK, Pending, [Next]_vars
  PROVE  task.run \in Int /\ task.run >= 1 /\ task'.run \in Int
         /\ (task'.run = task.run \/ task'.run = task.run + 1)
<1>1. TypeOK' /\ StepKind
  BY StepKinds
<1>2. task.run \in Runs /\ task'.run \in Runs
  BY <1>1 DEF TypeOK, RowTypeOK, TaskRows
<1>3. QED
  BY <1>1, <1>2, TaskRowAssumption
  DEF StepKind, RowKeeps, RowEnds, RowRequeued, RowRestored, Wins, Claimed, Runs

LEMMA BehindStep ==
  ASSUME IInv, Behind, [Next]_vars
  PROVE  Behind'
<1>1. TypeOK /\ Pending
  BY DEF IInv
<1>2. /\ task.run \in Int /\ task.run >= 1 /\ task'.run \in Int
      /\ task'.run >= task.run
  BY <1>1, RunsGrow
<1>3. /\ \A c \in Cancellers : cancels[c].copy.run \in Int
      /\ rec.copy.run \in Int /\ recovery.run \in Int
      /\ \A k \in Claims : exec[k].bill \in Int
  <2>1. Runs \subseteq Int
    BY TaskRowAssumption DEF Runs
  <2>2. QED
    BY <1>1, <2>1, RecoveryType DEF TypeOK, CancelTypeOK, Copies, WorkerTypeOK, Executions
<1>4. CopiesMove
  BY <1>1, WhoKnowsRuns
<1>5. /\ \A c \in Cancellers : cancels'[c].copy.run <= task'.run
      /\ rec'.copy.run <= task'.run
      /\ recovery'.run <= task'.run
      /\ \A k \in Claims : exec'[k].bill <= task'.run
  BY <1>2, <1>3, <1>4 DEF CopiesMove, Known, Behind
<1>6. ASSUME NEW r \in Runs, r > task'.run PROVE order'[r] = "none"
  <2>1. r \in Int
    BY TaskRowAssumption DEF Runs
  <2>2. order[r] = "none" /\ r > task.run
    BY <1>2, <1>6, <2>1 DEF Behind
  <2>3. OrderMoves(r)
    BY <1>1, WhoMovesOrders DEF OrdersMove
  <2>4. QED
    BY <1>2, <1>6, <2>1, <2>2, <2>3 DEF OrderMoves, Open
<1>7. QED
  BY <1>5, <1>6 DEF Behind

LEMMA BehindInit == Init => Behind
<1>1. SUFFICES ASSUME Init PROVE Behind
  OBVIOUS
<1>2. task.run = 1 /\ order = [r \in Runs |-> IF r = 1 THEN "reserved" ELSE "none"]
  BY <1>1 DEF Init, RowInit
<1>3. \A r \in Runs : r > task.run => order[r] = "none"
  BY <1>2, TaskRowAssumption DEF Runs
<1>4. \A c \in Cancellers : cancels[c].copy.run = 1
  BY <1>1 DEF Init, CancelInit, NoCopy
<1>5. rec.copy.run = 1 /\ recovery.run = 1 /\ \A k \in Claims : exec[k].bill = 1
  BY <1>1, EmptyRecords DEF Init, CancelInit, RecoveryInit, WorkerInit
<1>6. QED
  BY <1>2, <1>3, <1>4, <1>5 DEF Behind

BInv == IInv /\ Behind

LEMMA BehindInvariant == Spec => []BInv
<1>1. Init => BInv
  BY IInvInit, BehindInit DEF BInv
<1>2. BInv /\ [Next]_vars => BInv'
  BY IInvStep, BehindStep DEF BInv
<1>3. QED
  BY <1>1, <1>2, PTL DEF Spec

-----------------------------------------------------------------------------
(***************************************************************************)
(* The jobs: one is created by an execution that submits, and a running    *)
(* one ends.                                                               *)
(***************************************************************************)
JobsStay ==
  \A j \in Jobs :
    \/ job'[j] = job[j]
    \/ /\ job[j].state = "running" /\ job'[j].run = job[j].run
       /\ job'[j].state \in {"succeeded", "failed", "cancelled"}

Creates(k) ==
  /\ At(k, "submit") /\ exec'[k].pc # "submit"
  /\ \E j \in Jobs : job[j].state = "none" /\ CreateJob(j, exec[k].run, NewJobState)

JobsMove == JobsStay \/ \E k \in Claims : Creates(k)

LEMMA SameJobs == ASSUME UNCHANGED job PROVE JobsMove
BY DEF JobsMove, JobsStay

LEMMA WorkerJobs ==
  ASSUME TypeOK, NEW k \in Claims, WorkerStep(k)
  PROVE  JobsStay \/ Creates(k)
<1>1. CASE Submit(k)
  <2>1. ASSUME NEW j \in Jobs, FreshJob(j) PROVE job[j].state = "none"
    <3>1. j \in Int
      BY TaskRowAssumption DEF Jobs
    <3>2. QED
      BY <2>1, <3>1 DEF FreshJob
  <2>2. UNCHANGED job \/ \E j \in Jobs : FreshJob(j) /\ CreateJob(j, exec[k].run, NewJobState)
    BY <1>1
    DEF Submit, SubmitAccepted, SubmitLost, SubmitRejected, SubmitStopped, MayCreateJob
  <2>3. exec'[k].pc # "submit"
    <3>1. exec \in [Claims -> Executions]
      BY DEF TypeOK, WorkerTypeOK
    <3>2. CASE SubmitAccepted(k)
      <4> DEFINE outcome == IF Async THEN "" ELSE "ok"
      <4>1. PICK j \in Jobs :
              exec' = [exec EXCEPT ![k].id = IF Async THEN j ELSE NoJob,
                                   ![k].outcome = outcome,
                                   ![k].pc = IF Async THEN "note" ELSE "log"]
        BY <3>2 DEF SubmitAccepted
      <4> HIDE DEF outcome
      <4>2. QED
        BY <3>1, <4>1 DEF Executions
    <3>3. CASE \E outcome : End(k, outcome, "log")
      BY <3>1, <3>3 DEF End, Executions
    <3>4. QED
      BY <1>1, <3>2, <3>3 DEF Submit, SubmitLost, SubmitRejected, SubmitStopped
  <2>4. QED
    BY <1>1, <2>1, <2>2, <2>3 DEF Submit, Creates, JobsStay
<1>2. CASE ~ Submit(k)
  <2>1. UNCHANGED job
    BY <1>2
    DEF WorkerStep, ClaimNextTask, Execute, Prepare, Start, BeginTaskRouteAttempt, ReadBilling,
        MarkBillingRunning, MarkRouteAttemptDispatching, Call, NoteBillingJob, StampTask,
        LogAPICall, Poll, RenewFails, FinishTaskRouteAttempt, Forget, Bill, EnsureAttemptLogged,
        HandleExecutionFailure, DeferRunningTask, DecideBilling, RefundTask, ReviewTask,
        ReadBeforeSave, SaveTaskCompletion, SaveRefused, SettleTask, CrashWorker, rowVars
  <2>2. QED
    BY <2>1 DEF JobsStay
<1>3. QED
  BY <1>1, <1>2

LEMMA WhoMovesJobs ==
  ASSUME TypeOK, [Next]_vars
  PROVE  JobsMove
<1>1. job \in [Jobs -> [run : Runs, state : JobStates]]
  BY DEF TypeOK, RowTypeOK
<1>2. ASSUME NEW c \in Cancellers, CancelStep(c) PROVE JobsMove
  <2>1. CASE SendCancel(c)
    <3>1. CASE job' = [job EXCEPT ![cancels[c].copy.job].state = "cancelled"]
               /\ job[cancels[c].copy.job].state = "running"
      BY <1>1, <3>1 DEF JobsMove, JobsStay
    <3>2. QED
      BY <2>1, <3>1, SameJobs DEF SendCancel
  <2>2. CASE ~ SendCancel(c)
    BY <1>2, <2>2, SameJobs
    DEF CancelStep, Request, ReadTask, CancelTaskIfStatus, CancelActiveTask, BillCancelled,
        PushJob, ClaimTaskProviderCancellation, CannotCancel, GiveUpCancel, ReviewCancelled,
        CrashCanceller, rowVars
  <2>3. QED
    BY <2>1, <2>2
<1>3. CASE ReconcileStep
  BY <1>3, SameJobs
  DEF ReconcileStep, Reconcile, ClaimNextTaskProviderCancellation, SkipQuery,
      QueryProviderCancellation, RefundReconciled, SettleReconciled, CloseReconciled,
      DeferReconciled, GiveUpReconciled, ReviewReconciled, CrashReconciler, rowVars
<1>4. CASE RecoveryStep
  BY <1>4, SameJobs
  DEF RecoveryStep, Retry, Recover, CheckRetryEligibility, RetryTaskWithBilling,
      ReadFailedTask, PushRecoveredJob, ClaimFailedTaskProviderRecovery, QueryFailedTask,
      SaveRecovered, BillRecovered, ReviewRecovered, ReleaseTaskProviderRecovery,
      CrashRecovery, ResolveBillingOrder, rowVars
<1>5. CASE OutsideStep
  <2>1. CASE LeaseExpires
    BY <2>1, SameJobs DEF LeaseExpires
  <2>2. CASE \E j \in Jobs : JobEnds(j)
    BY <1>1, <2>2 DEF JobEnds, JobsMove, JobsStay
  <2>3. QED
    BY <1>5, <2>1, <2>2 DEF OutsideStep
<1>6. CASE UNCHANGED vars
  BY <1>6, SameJobs DEF vars, rowVars
<1>7. QED
  BY <1>2, <1>3, <1>4, <1>5, <1>6, WorkerJobs DEF Next, JobsMove

-----------------------------------------------------------------------------
(***************************************************************************)
(* Money is taken for a job that succeeded.                                *)
(***************************************************************************)
Succeeded == \E j \in Jobs : job[j].state = "succeeded"

HasResult(execution) ==
  execution.outcome = "ok" \/ execution.pc \in {"save", "store", "settle"}

\* Everyone who has taken the money for a job, or is about to.
Paying ==
  \/ \E r \in Runs : order[r] = "settled" /\ r \notin resolved
  \/ \E k \in Claims : HasResult(exec[k])
  \/ rec.pc = "succeeded"
  \/ recovery.pc \in {"save", "bill"}

PaidForJob == Paying => Succeeded

LEMMA SucceededStays ==
  ASSUME TypeOK, [Next]_vars, Succeeded
  PROVE  Succeeded'
<1>1. PICK j \in Jobs : job[j].state = "succeeded"
  BY DEF Succeeded
<1>2. job'[j].state = "succeeded"
  <2>1. CASE JobsStay
    BY <1>1, <2>1 DEF JobsStay
  <2>2. ASSUME NEW k \in Claims, Creates(k) PROVE job'[j].state = "succeeded"
    BY <1>1, <2>2 DEF Creates, CreateJob, TypeOK, RowTypeOK
  <2>3. QED
    BY <2>1, <2>2, WhoMovesJobs DEF JobsMove
<1>3. QED
  BY <1>2 DEF Succeeded

\* An execution has a result that it had before, or a job has just given it.
LEMMA WorkerPays ==
  ASSUME TypeOK, NEW k \in Claims, WorkerStep(k), NEW l \in Claims, HasResult(exec'[l])
  PROVE  HasResult(exec[l]) \/ Succeeded'
<1>1. exec \in [Claims -> Executions] /\ job \in [Jobs -> [run : Runs, state : JobStates]]
  BY DEF TypeOK, WorkerTypeOK, RowTypeOK
<1>2. ~ HasResult([Unclaimed EXCEPT !.pc = "done", !.run = exec[k].run, !.won = exec[k].won])
  BY DEF HasResult, Unclaimed
<1>3. ~ HasResult([Unclaimed EXCEPT !.pc = "start", !.run = task.run, !.bill = task.run,
                                    !.req = task.job])
  BY DEF HasResult, Unclaimed
<1>4. ASSUME Leave(k) PROVE HasResult(exec[l])
  BY <1>1, <1>2, <1>4 DEF Leave
<1>5. ASSUME NEW pc, pc \notin {"save", "store", "settle"}, Go(k, pc) PROVE HasResult(exec[l])
  BY <1>1, <1>5 DEF Go, Executions, HasResult
<1>6. ASSUME NEW pc, NEW outcome, End(k, outcome, pc), outcome # "ok",
             pc \notin {"save", "store", "settle"}
      PROVE  HasResult(exec[l])
  BY <1>1, <1>6 DEF End, Executions, HasResult
<1>7. CASE ClaimNextTask(k)
  BY <1>1, <1>3, <1>7 DEF ClaimNextTask
<1>8. CASE BeginTaskRouteAttempt(k)
  <2>1. CASE \/ exec' = [exec EXCEPT ![k].fresh = TRUE, ![k].pc = "bill"]
             \/ exec' = [exec EXCEPT ![k].req = KnownJob(k), ![k].pc = "bill"]
    BY <1>1, <2>1 DEF Executions, HasResult
  <2>2. QED
    BY <1>5, <1>6, <1>8, <2>1
    DEF BeginTaskRouteAttempt, NewRouteAttempt, ResumeRouteAttempt, RejectedRouteAttempt
<1>9. CASE Start(k) \/ ReadBilling(k) \/ MarkBillingRunning(k)
  BY <1>4, <1>5, <1>6, <1>9 DEF Start, ReadBilling, MarkBillingRunning
<1>10. CASE MarkRouteAttemptDispatching(k)
  BY <1>1, <1>10 DEF MarkRouteAttemptDispatching, Executions, HasResult
<1>11. CASE RenewFails(k)
  BY <1>1, <1>11 DEF RenewFails, Executions, HasResult
<1>12. CASE Submit(k)
  <2>1. CASE SubmitAccepted(k)
    <3>1. CASE Async
      <4> DEFINE outcome == IF Async THEN "" ELSE "ok"
      <4>1. outcome # "ok"
        BY <3>1
      <4>2. PICK j \in Jobs :
              exec' = [exec EXCEPT ![k].id = IF Async THEN j ELSE NoJob,
                                   ![k].outcome = outcome,
                                   ![k].pc = IF Async THEN "note" ELSE "log"]
        BY <2>1 DEF SubmitAccepted
      <4> HIDE DEF outcome
      <4>3. QED
        BY <1>1, <4>1, <4>2 DEF Executions, HasResult
    <3>2. CASE ~ Async
      <4>1. PICK j \in Jobs : CreateJob(j, exec[k].run, "succeeded")
        BY <2>1, <3>2 DEF SubmitAccepted, NewJobState
      <4>2. QED
        BY <1>1, <4>1 DEF CreateJob, Succeeded
    <3>3. QED
      BY <3>1, <3>2
  <2>2. QED
    BY <1>6, <1>12, <2>1 DEF Submit, SubmitLost, SubmitRejected, SubmitStopped
<1>13. CASE NoteBillingJob(k) \/ StampTask(k) \/ LogAPICall(k)
  BY <1>5, <1>13 DEF NoteBillingJob, StampTask, LogAPICall
<1>14. CASE Poll(k)
  <2>1. PICK answer \in PollAnswers(k) :
          End(k, answer, IF answer = "" THEN "poll" ELSE "finish")
    BY <1>14 DEF Poll
  <2>2. CASE answer = "ok"
    <3>1. JobState(exec[k].id) = "succeeded"
      BY <2>2 DEF PollAnswers
    <3>2. exec[k].id \in Jobs /\ job[exec[k].id].state = "succeeded"
      BY <1>1, <3>1 DEF JobState, Executions
    <3>3. UNCHANGED job
      BY <1>14 DEF Poll
    <3>4. QED
      BY <3>2, <3>3 DEF Succeeded
  <2>3. CASE answer # "ok"
    BY <1>6, <2>1, <2>3
  <2>4. QED
    BY <2>2, <2>3
<1>15. CASE FinishTaskRouteAttempt(k)
  BY <1>1, <1>4, <1>15 DEF FinishTaskRouteAttempt, Executions, HasResult
<1>16. CASE EnsureAttemptLogged(k) \/ DeferRunningTask(k) \/ DecideBilling(k) \/ RefundTask(k)
            \/ ReviewTask(k) \/ SaveRefused(k) \/ SettleTask(k) \/ CrashWorker(k)
  BY <1>4, <1>5, <1>6, <1>16
  DEF EnsureAttemptLogged, DeferRunningTask, DecideBilling, RefundTask, ReviewTask, SaveRefused,
      SettleTask, CrashWorker
<1>17. CASE HandleExecutionFailure(k)
  BY <1>1, <1>4, <1>17 DEF HandleExecutionFailure, Conclude, Executions, HasResult
<1>18. CASE ReadBeforeSave(k)
  BY <1>1, <1>18 DEF ReadBeforeSave, At, Executions, HasResult
<1>19. CASE SaveTaskCompletion(k)
  BY <1>1, <1>4, <1>19 DEF SaveTaskCompletion, At, Executions, HasResult
<1>20. QED
  BY <1>7, <1>8, <1>9, <1>10, <1>11, <1>12, <1>13, <1>14, <1>15, <1>16, <1>17, <1>18, <1>19
  DEF WorkerStep, Execute, Prepare, Call, Bill

LEMMA ReconcilerPays ==
  ASSUME TypeOK, ReconcileStep, rec'.pc = "succeeded"
  PROVE  rec.pc = "succeeded" \/ Succeeded'
<1>1. rec \in [pc : RecPCs, copy : Copies, checks : 0 .. MaxChecks, verdict : CancelStatuses]
  BY DEF TypeOK, CancelTypeOK
<1>2. ~ RLeave
  BY EmptyRecords DEF RLeave
<1>3. ASSUME NEW pc, RGo(pc) PROVE pc = "succeeded"
  BY <1>1, <1>3 DEF RGo
<1>4. CASE ClaimNextTaskProviderCancellation
  BY <1>4 DEF ClaimNextTaskProviderCancellation
<1>5. CASE QueryProviderCancellation
  <2>1. "succeeded" \in Verdicts(JobState(rec.copy.job))
    BY <1>3, <1>5 DEF QueryProviderCancellation
  <2>2. JobState(rec.copy.job) = "succeeded"
    BY <2>1 DEF Verdicts
  <2>3. rec.copy.job \in Jobs /\ job[rec.copy.job].state = "succeeded"
    BY <1>1, <2>2 DEF JobState, Copies
  <2>4. QED
    BY <1>5, <2>3 DEF QueryProviderCancellation, Succeeded
<1>6. CASE SkipQuery \/ DeferReconciled \/ CloseReconciled \/ GiveUpReconciled
           \/ ReviewReconciled \/ CrashReconciler
  BY <1>2, <1>3, <1>6
  DEF SkipQuery, DeferReconciled, CloseReconciled, GiveUpReconciled, ReviewReconciled,
      CrashReconciler
<1>7. CASE RefundReconciled \/ SettleReconciled
  BY <1>1, <1>3, <1>7 DEF RefundReconciled, SettleReconciled
<1>8. QED
  BY <1>4, <1>5, <1>6, <1>7 DEF ReconcileStep, Reconcile

LEMMA RecoveryPays ==
  ASSUME TypeOK, RecoveryStep, recovery'.pc \in {"save", "bill"}
  PROVE  recovery.pc \in {"save", "bill"} \/ Succeeded'
<1>1. recovery \in Recoveries
  BY RecoveryType
<1>2. ~ VLeave
  BY EmptyRecords DEF VLeave
<1>3. ASSUME NEW pc, VGo(pc) PROVE pc \in {"save", "bill"}
  BY <1>1, <1>3 DEF VGo, Recoveries
<1>4. CASE Retry \/ \E r \in Runs : ResolveBillingOrder(r)
  BY <1>4 DEF Retry, CheckRetryEligibility, RetryTaskWithBilling, ResolveBillingOrder
<1>5. CASE ReadFailedTask
  BY <1>5 DEF ReadFailedTask
<1>6. CASE QueryFailedTask
  <2>1. JobState(recovery.job) = "succeeded"
    <3>1. ~ VGo("release")
      BY <1>3
    <3>2. QED
      BY <1>6, <3>1 DEF QueryFailedTask
  <2>2. recovery.job \in Jobs /\ job[recovery.job].state = "succeeded"
    BY <1>1, <2>1 DEF JobState, Recoveries
  <2>3. QED
    BY <1>6, <2>2 DEF QueryFailedTask, Succeeded
<1>7. CASE SaveRecovered
  BY <1>7 DEF SaveRecovered, VAt
<1>8. CASE PushRecoveredJob \/ ClaimFailedTaskProviderRecovery \/ BillRecovered
           \/ ReviewRecovered \/ ReleaseTaskProviderRecovery \/ CrashRecovery
  BY <1>2, <1>3, <1>8
  DEF PushRecoveredJob, ClaimFailedTaskProviderRecovery, BillRecovered, ReviewRecovered,
      ReleaseTaskProviderRecovery, CrashRecovery
<1>9. QED
  BY <1>4, <1>5, <1>6, <1>7, <1>8 DEF RecoveryStep, Recover

LEMMA PaidStep ==
  ASSUME TypeOK, PaidForJob, [Next]_vars
  PROVE  PaidForJob'
<1>1. SUFFICES ASSUME Paying', ~ Paying PROVE Succeeded'
  BY SucceededStays DEF PaidForJob
<1>2. ASSUME NEW r \in Runs, order'[r] = "settled", r \notin resolved'
      PROVE  FALSE
  <2>1. OrderMoves(r) /\ r \notin resolved
    BY <1>2, WhoMovesOrders DEF OrdersMove
  <2>2. ~ Settles(r) /\ order[r] # "settled" /\ recovery.pc # "bill"
    BY <1>1, <2>1 DEF Paying, HasResult, Settles, At
  <2>3. QED
    BY <1>2, <2>1, <2>2 DEF OrderMoves
<1>3. ASSUME NEW k \in Claims, HasResult(exec'[k])
      PROVE  Succeeded'
  <2>1. ~ HasResult(exec[k])
    BY <1>1 DEF Paying
  <2>2. \E l \in Claims : WorkerStep(l)
    BY <1>3, <2>1
    DEF Next, CancelStep, ReconcileStep, RecoveryStep, OutsideStep, vars, workerVars
  <2>3. QED
    BY <1>3, <2>1, <2>2, WorkerPays
<1>4. ASSUME rec'.pc = "succeeded"
      PROVE  Succeeded'
  <2>1. rec.pc # "succeeded"
    BY <1>1 DEF Paying
  <2>2. rec' # rec
    BY <1>4, <2>1
  <2>3. \A c \in Cancellers : ~ CancelStep(c)
    BY <2>2
    DEF CancelStep, Request, ReadTask, CancelTaskIfStatus, CancelActiveTask, BillCancelled,
        PushJob, ClaimTaskProviderCancellation, CannotCancel, SendCancel, GiveUpCancel,
        ReviewCancelled, CrashCanceller
  <2>4. ReconcileStep
    BY <2>2, <2>3 DEF Next, WorkerStep, RecoveryStep, OutsideStep, vars, cancelVars
  <2>5. QED
    BY <1>4, <2>1, <2>4, ReconcilerPays
<1>5. ASSUME recovery'.pc \in {"save", "bill"}
      PROVE  Succeeded'
  <2>1. recovery.pc \notin {"save", "bill"}
    BY <1>1 DEF Paying
  <2>2. recovery' # recovery
    BY <1>5, <2>1
  <2>3. RecoveryStep
    BY <2>2 DEF Next, WorkerStep, CancelStep, ReconcileStep, OutsideStep, vars, recoveryVars
  <2>4. QED
    BY <1>5, <2>1, <2>3, RecoveryPays
<1>6. QED
  BY <1>1, <1>2, <1>3, <1>4, <1>5 DEF Paying

LEMMA PaidInit == Init => PaidForJob
<1>1. SUFFICES ASSUME Init PROVE ~ Paying
  BY DEF PaidForJob
<1>2. \A r \in Runs : order[r] # "settled"
  BY <1>1 DEF Init, RowInit
<1>3. \A k \in Claims : exec[k] = Unclaimed
  BY <1>1 DEF Init, WorkerInit
<1>4. ~ HasResult(Unclaimed)
  BY DEF HasResult, Unclaimed
<1>5. rec.pc = "idle" /\ recovery.pc = "idle"
  BY <1>1, EmptyRecords DEF Init, CancelInit, RecoveryInit
<1>6. QED
  BY <1>2, <1>3, <1>4, <1>5 DEF Paying

LEMMA PaidInvariant == Spec => [](BInv /\ PaidForJob)
<1>1. BInv /\ PaidForJob /\ [Next]_vars => (BInv /\ PaidForJob)'
  BY PaidStep, IInvStep, BehindStep DEF BInv, IInv
<1>2. QED
  BY <1>1, PaidInit, BehindInvariant, IInvInit, BehindInit, PTL DEF Spec

\* Whatever is retried, recovered and reconciled: an order is settled, without an
\* administrator, only once a job of the task has succeeded, and so does nobody
\* hold a result to be charged for.
THEOREM PaidIsEarned == Spec => []PaidForJob
BY PaidInvariant, PTL

-----------------------------------------------------------------------------
(***************************************************************************)
(* A task that is never retried has one run, and so one order.             *)
(***************************************************************************)
NeverRetried == ~ Enabled("retry")

OneRun ==
  /\ retry = "none" /\ task.run = 1
  /\ \A j \in Jobs : job[j].run = 1

LEMMA RetryStarts ==
  ASSUME TypeOK, [Next]_vars, retry = "none", NeverRetried
  PROVE  retry' = "none"
BY DEF Next, WorkerStep, CancelStep, ReconcileStep, RecoveryStep, OutsideStep, vars,
  recoveryVars, Retry, CheckRetryEligibility, RetryTaskWithBilling, NeverRetried, Recover,
  ReadFailedTask, PushRecoveredJob, ClaimFailedTaskProviderRecovery, QueryFailedTask,
  SaveRecovered, BillRecovered, ReviewRecovered, ReleaseTaskProviderRecovery, CrashRecovery,
  ResolveBillingOrder

\* Only a retry starts a run.
LEMMA RunStays ==
  ASSUME TypeOK, Pending, [Next]_vars, retry = "none"
  PROVE  task'.run = task.run
<1>1. task \in TaskRows
  BY DEF TypeOK, RowTypeOK
<1>2. ASSUME NEW k \in Claims, WorkerStep(k) PROVE task'.run = task.run
  BY <1>2, WorkerStepMoves DEF WorkerMoves, RowKeeps, Wins, Claimed
<1>3. ASSUME NEW c \in Cancellers, CancelStep(c) PROVE task'.run = task.run
  BY <1>3, CancelStepMoves DEF CancelMoves, RowKeeps, RowEnds
<1>4. CASE ReconcileStep
  BY <1>4, ReconcileStepMoves DEF ReconcileMoves, RowKeeps
<1>5. CASE RecoveryStep
  <2>1. CASE RetryTaskWithBilling
    BY <2>1 DEF RetryTaskWithBilling
  <2>2. CASE CheckRetryEligibility \/ Recover \/ CrashRecovery
             \/ \E r \in Runs : ResolveBillingOrder(r)
    BY <1>1, <2>2
    DEF CheckRetryEligibility, Recover, ReadFailedTask, PushRecoveredJob,
        ClaimFailedTaskProviderRecovery, QueryFailedTask, RecordJob, SaveRecovered,
        BillRecovered, ReviewRecovered, ReleaseTaskProviderRecovery, CrashRecovery,
        ResolveBillingOrder, UpdateTaskProviderState, TaskRows, rowVars
  <2>3. QED
    BY <1>5, <2>1, <2>2 DEF RecoveryStep, Retry
<1>6. CASE OutsideStep
  BY <1>6, OutsideStepMoves DEF RowKeeps
<1>7. CASE UNCHANGED vars
  BY <1>7 DEF vars, rowVars
<1>8. QED
  BY <1>2, <1>3, <1>4, <1>5, <1>6, <1>7 DEF Next

LEMMA OneRunStep ==
  ASSUME BInv, OneRun, NeverRetried, [Next]_vars
  PROVE  OneRun'
<1>1. TypeOK /\ Pending
  BY DEF BInv, IInv
<1>2. retry' = "none" /\ task'.run = 1
  BY <1>1, RetryStarts, RunStays DEF OneRun
<1>3. ASSUME NEW j \in Jobs PROVE job'[j].run = 1
  <2>1. CASE JobsStay
    BY <2>1 DEF JobsStay, OneRun
  <2>2. ASSUME NEW k \in Claims, Creates(k) PROVE job'[j].run = 1
    <3>1. exec[k].run = 1
      <4>1. exec[k].run \in Runs
        BY <1>1 DEF TypeOK, WorkerTypeOK, Executions
      <4>2. exec[k].run <= task.run
        BY DEF BInv, IInv, NoneAhead
      <4>3. QED
        BY <4>1, <4>2, TaskRowAssumption DEF OneRun, Runs
    <3>2. QED
      BY <1>1, <2>2, <3>1 DEF Creates, CreateJob, OneRun, TypeOK, RowTypeOK
  <2>3. QED
    BY <1>1, <2>1, <2>2, WhoMovesJobs DEF JobsMove
<1>4. QED
  BY <1>2, <1>3 DEF OneRun

LEMMA OneRunInvariant ==
  ASSUME NeverRetried
  PROVE  Spec => [](BInv /\ OneRun)
<1>1. ASSUME Init PROVE OneRun
  <2>1. task.run = 1 /\ retry = "none"
    BY <1>1 DEF Init, RowInit, RecoveryInit
  <2>2. job = [j \in Jobs |-> [run |-> 1, state |-> "none"]]
    BY <1>1 DEF Init, RowInit
  <2>3. \A j \in Jobs : job[j].run = 1
    BY <2>2
  <2>4. QED
    BY <2>1, <2>3 DEF OneRun
<1>2. BInv /\ OneRun /\ [Next]_vars => (BInv /\ OneRun)'
  BY OneRunStep, IInvStep, BehindStep DEF BInv
<1>3. QED
  BY <1>1, <1>2, BehindInvariant, IInvInit, BehindInit, PTL DEF Spec, BInv

\* A task that is never retried pays for a job of its only run.  (The job that a
\* second run polls may be one of the first: its row is filled in from the log.)
THEOREM ChargedForJob ==
  ASSUME NeverRetried
  PROVE  Spec => []ChargedForOwnJob
<1>1. BInv /\ PaidForJob /\ OneRun => ChargedForOwnJob
  <2>1. SUFFICES ASSUME BInv, PaidForJob, OneRun,
                        NEW r \in Runs, order[r] = "settled", r \notin resolved
                 PROVE  \E j \in Jobs : job[j].run = r /\ job[j].state = "succeeded"
    BY DEF ChargedForOwnJob
  <2>2. r = 1
    BY <2>1, TaskRowAssumption DEF BInv, Behind, OneRun, Runs
  <2>3. Succeeded
    BY <2>1 DEF PaidForJob, Paying
  <2>4. QED
    BY <2>1, <2>2, <2>3 DEF Succeeded, OneRun
<1>2. QED
  BY <1>1, PaidInvariant, OneRunInvariant, PTL

-----------------------------------------------------------------------------
(***************************************************************************)
(* A confirmed cancellation and the refund that came before it.            *)
(***************************************************************************)
GivenBack(r) == order[r] = "refunded" \/ r \in resolved

Confirmed ==
  /\ order[1] # "none"
  /\ rec.pc # "idle" => task.status = "cancelled"
  /\ recovery.pc = "bill" => task.status = "succeeded"
  /\ rec.pc = "close" /\ rec.verdict = "confirmed" => GivenBack(1)
  /\ task.cancel = "confirmed" => task.status = "cancelled" /\ GivenBack(1)

\* What ends a cancellation: the reconciler, with the verdict it has come to.
ClosesConfirmed == rec.pc = "close" /\ rec.verdict = "confirmed" /\ task.status = "cancelled"

LEMMA WorkerCancelColumn ==
  ASSUME TypeOK, NEW k \in Claims, WorkerStep(k)
  PROVE  task'.cancel = task.cancel
<1>1. task \in TaskRows
  BY DEF TypeOK, RowTypeOK
<1>2. CASE ClaimNextTask(k)
  BY <1>1, <1>2 DEF ClaimNextTask, TaskRows
<1>3. CASE Prepare(k)
  BY <1>1, <1>3
  DEF Prepare, Start, BeginTaskRouteAttempt, NewRouteAttempt, ResumeRouteAttempt,
      RejectedRouteAttempt, ReadBilling, MarkBillingRunning, MarkRouteAttemptDispatching,
      UpdateTaskProviderState, TaskRows, rowVars
<1>4. CASE Call(k)
  BY <1>1, <1>4
  DEF Call, Submit, NoteBillingJob, StampTask, LogAPICall, Poll, RecordJob, RenewFails,
      FinishTaskRouteAttempt, Forget, UpdateTaskProviderState, TaskRows
<1>5. CASE EnsureAttemptLogged(k)
  BY <1>1, <1>5 DEF EnsureAttemptLogged, RecordJob, UpdateTaskProviderState, TaskRows
<1>6. CASE HandleExecutionFailure(k)
  BY <1>1, <1>6 DEF HandleExecutionFailure, Conclude, WriteTerminalState, TaskRows
<1>7. CASE DeferRunningTask(k) \/ SaveTaskCompletion(k)
  BY <1>1, <1>7 DEF DeferRunningTask, SaveTaskCompletion, TaskRows
<1>8. CASE DecideBilling(k) \/ RefundTask(k) \/ ReviewTask(k) \/ ReadBeforeSave(k)
           \/ SaveRefused(k) \/ SettleTask(k) \/ CrashWorker(k)
  BY <1>8
  DEF DecideBilling, RefundTask, ReviewTask, ReadBeforeSave, SaveRefused, SettleTask,
      CrashWorker, Forget, rowVars
<1>9. QED
  BY <1>2, <1>3, <1>4, <1>5, <1>6, <1>7, <1>8 DEF WorkerStep, Execute, Bill

LEMMA CancelCancelColumn ==
  ASSUME TypeOK, NEW c \in Cancellers, CancelStep(c), task'.cancel = "confirmed"
  PROVE  task.cancel = "confirmed"
<1>1. task \in TaskRows
  BY DEF TypeOK, RowTypeOK
<1>2. CASE ReadTask(c) \/ CancelActiveTask(c, Stoppable) \/ CrashCanceller(c)
  BY <1>2 DEF ReadTask, CancelActiveTask, CrashCanceller, rowVars
<1>3. CASE CancelTaskIfStatus(c)
  BY <1>1, <1>3 DEF CancelTaskIfStatus, TaskRows
<1>4. CASE PushJob(c) \/ SendCancel(c)
  BY <1>1, <1>4 DEF PushJob, SendCancel, RecordJob, UpdateTaskProviderState, TaskRows
<1>5. CASE ClaimTaskProviderCancellation(c)
  <2>1. task' = [task EXCEPT !.cancel = "requested", !.checks = 1] \/ UNCHANGED task
    BY <1>5 DEF ClaimTaskProviderCancellation
  <2>2. QED
    BY <1>1, <2>1 DEF TaskRows
<1>6. CASE GiveUpCancel(c)
  BY <1>1, <1>6 DEF GiveUpCancel, UpdateTaskProviderCancellation, TaskRows
<1>7. CASE BillCancelled(c) \/ CannotCancel(c) \/ ReviewCancelled(c)
  BY <1>7 DEF BillCancelled, CannotCancel, ReviewCancelled, rowVars
<1>8. QED
  BY <1>2, <1>3, <1>4, <1>5, <1>6, <1>7 DEF CancelStep, Request

LEMMA ReconcileCancelColumn ==
  ASSUME TypeOK, ReconcileStep, task'.cancel = "confirmed"
  PROVE  task.cancel = "confirmed" \/ ClosesConfirmed
<1>1. task \in TaskRows
  BY DEF TypeOK, RowTypeOK
<1>2. CASE ClaimNextTaskProviderCancellation
  <2>1. task'.cancel = task.cancel
    <3>1. PICK checks : task' = [task EXCEPT !.owner = Reconciler, !.leased = TRUE,
                                             !.checks = checks]
      BY <1>2 DEF ClaimNextTaskProviderCancellation
    <3>2. QED
      BY <1>1, <3>1 DEF TaskRows
  <2>2. QED
    BY <2>1
<1>3. CASE QueryProviderCancellation
  BY <1>1, <1>3 DEF QueryProviderCancellation, RecordJob, UpdateTaskProviderState, TaskRows
<1>4. CASE CloseReconciled
  <2>1. CASE CancellationIsOpen
    <3>1. task'.cancel = rec.verdict
      BY <1>1, <1>4, <2>1 DEF CloseReconciled, UpdateTaskProviderCancellation, TaskRows
    <3>2. QED
      BY <1>4, <2>1, <3>1 DEF CloseReconciled, RAt, ClosesConfirmed, CancellationIsOpen
  <2>2. CASE ~ CancellationIsOpen
    BY <1>4, <2>2 DEF CloseReconciled
  <2>3. QED
    BY <2>1, <2>2
<1>5. CASE DeferReconciled \/ GiveUpReconciled
  BY <1>1, <1>5
  DEF DeferReconciled, GiveUpReconciled, UpdateTaskProviderCancellation, TaskRows
<1>6. CASE SkipQuery \/ RefundReconciled \/ SettleReconciled \/ ReviewReconciled
           \/ CrashReconciler
  BY <1>6
  DEF SkipQuery, RefundReconciled, SettleReconciled, ReviewReconciled, CrashReconciler, rowVars
<1>7. QED
  BY <1>2, <1>3, <1>4, <1>5, <1>6 DEF ReconcileStep, Reconcile

LEMMA RecoveryCancelColumn ==
  ASSUME TypeOK, RecoveryStep, retry = "none"
  PROVE  task'.cancel = task.cancel
<1>1. task \in TaskRows
  BY DEF TypeOK, RowTypeOK
<1>2. ~ RetryTaskWithBilling
  BY DEF RetryTaskWithBilling
<1>3. QED
  BY <1>1, <1>2
  DEF RecoveryStep, Retry, CheckRetryEligibility, Recover, ReadFailedTask, PushRecoveredJob,
      ClaimFailedTaskProviderRecovery, QueryFailedTask, RecordJob, SaveRecovered,
      BillRecovered, ReviewRecovered, ReleaseTaskProviderRecovery, CrashRecovery,
      ResolveBillingOrder, UpdateTaskProviderState, TaskRows, rowVars

LEMMA WhoConfirms ==
  ASSUME TypeOK, [Next]_vars, retry = "none", task'.cancel = "confirmed"
  PROVE  task.cancel = "confirmed" \/ ClosesConfirmed
<1>1. task \in TaskRows
  BY DEF TypeOK, RowTypeOK
<1>2. CASE OutsideStep
  BY <1>1, <1>2 DEF OutsideStep, LeaseExpires, JobEnds, TaskRows
<1>3. CASE UNCHANGED vars
  BY <1>3 DEF vars, rowVars
<1>4. QED
  BY <1>2, <1>3, WorkerCancelColumn, CancelCancelColumn, ReconcileCancelColumn,
     RecoveryCancelColumn DEF Next

\* Money that was given back stays given back while nothing is recovered.
LEMMA BackStays ==
  ASSUME BInv, OneRun, [Next]_vars, GivenBack(1), recovery.pc # "bill"
  PROVE  GivenBack(1)'
<1>1. 1 \in Runs
  BY TaskRowAssumption DEF Runs
<1>2. OrderMoves(1) /\ resolved \subseteq resolved'
  BY <1>1, WhoMovesOrders DEF OrdersMove, BInv, IInv
<1>3. task.run = 1
  BY DEF OneRun
<1>4. QED
  BY <1>2, <1>3 DEF GivenBack, OrderMoves, Open

\* Who starts to close a cancellation that the provider has confirmed.
LEMMA ReconcilerMoves ==
  ASSUME TypeOK, ReconcileStep
  PROVE  \/ UNCHANGED rec
         \/ rec'.pc = "idle"
         \/ ClaimNextTaskProviderCancellation /\ rec'.pc = "query"
         \/ /\ rec.pc # "idle"
            /\ ~ (rec'.pc = "close" /\ rec'.verdict = "confirmed")
         \/ /\ rec.pc = "confirmed" /\ order[rec.copy.run] # "settled"
            /\ RefundBilling(rec.copy.run)
<1>1. rec \in RecRows
  BY RecType
<1>2. ASSUME NEW pc, pc # "close", RGo(pc) PROVE rec'.pc # "close"
  BY <1>1, <1>2 DEF RGo, RecRows
<1>3. CASE ClaimNextTaskProviderCancellation
  BY <1>3 DEF ClaimNextTaskProviderCancellation
<1>4. CASE SkipQuery
  BY <1>2, <1>4 DEF SkipQuery, RAt
<1>5. CASE QueryProviderCancellation
  <2>1. \A state : "close" \notin Verdicts(state)
    BY DEF Verdicts
  <2>2. rec'.pc # "close"
    BY <1>2, <1>5, <2>1 DEF QueryProviderCancellation
  <2>3. QED
    BY <1>5, <2>2 DEF QueryProviderCancellation, RAt
<1>6. CASE RefundReconciled
  <2>1. CASE order[rec.copy.run] = "settled"
    BY <1>2, <1>6, <2>1 DEF RefundReconciled
  <2>2. CASE order[rec.copy.run] # "settled"
    <3>1. CASE rec.pc = "confirmed"
      BY <1>6, <2>2, <3>1 DEF RefundReconciled
    <3>2. CASE rec.pc = "failed"
      BY <1>1, <1>6, <2>2, <3>2 DEF RefundReconciled, RecRows
    <3>3. QED
      BY <1>6, <3>1, <3>2 DEF RefundReconciled
  <2>3. QED
    BY <2>1, <2>2
<1>7. CASE SettleReconciled
  <2>1. rec'.verdict = "uncertain"
    BY <1>1, <1>7 DEF SettleReconciled, RecRows
  <2>2. QED
    BY <1>7, <2>1 DEF SettleReconciled, RAt
<1>8. CASE CloseReconciled \/ DeferReconciled \/ ReviewReconciled \/ CrashReconciler
  BY <1>8, EmptyRecords
  DEF CloseReconciled, DeferReconciled, ReviewReconciled, CrashReconciler, RLeave
<1>9. CASE GiveUpReconciled
  BY <1>2, <1>9, EmptyRecords DEF GiveUpReconciled, RLeave, RAt
<1>10. QED
  BY <1>3, <1>4, <1>5, <1>6, <1>7, <1>8, <1>9 DEF ReconcileStep, Reconcile

LEMMA RecoveryBills ==
  ASSUME TypeOK, RecoveryStep, recovery'.pc = "bill"
  PROVE  recovery.pc = "bill" \/ task'.status = "succeeded"
<1>1. recovery \in Recoveries /\ task \in TaskRows
  BY RecoveryType DEF TypeOK, RowTypeOK
<1>2. ~ VLeave
  BY EmptyRecords DEF VLeave
<1>3. ASSUME NEW pc, VGo(pc) PROVE pc = "bill"
  BY <1>1, <1>3 DEF VGo, Recoveries
<1>4. CASE Retry \/ \E r \in Runs : ResolveBillingOrder(r)
  BY <1>4 DEF Retry, CheckRetryEligibility, RetryTaskWithBilling, ResolveBillingOrder
<1>5. CASE ReadFailedTask
  BY <1>5 DEF ReadFailedTask
<1>6. CASE SaveRecovered
  <2>1. task' = [task EXCEPT !.status = "succeeded", !.job = recovery.job]
    BY <1>3, <1>6 DEF SaveRecovered
  <2>2. QED
    BY <1>1, <2>1 DEF TaskRows
<1>7. CASE PushRecoveredJob \/ ClaimFailedTaskProviderRecovery \/ QueryFailedTask
           \/ BillRecovered \/ ReviewRecovered \/ ReleaseTaskProviderRecovery \/ CrashRecovery
  BY <1>2, <1>3, <1>7
  DEF PushRecoveredJob, ClaimFailedTaskProviderRecovery, QueryFailedTask, BillRecovered,
      ReviewRecovered, ReleaseTaskProviderRecovery, CrashRecovery
<1>8. QED
  BY <1>4, <1>5, <1>6, <1>7 DEF RecoveryStep, Recover

\* Of the three that can move the copies they work on, each leaves the others'.
LEMMA OwnSteps ==
  ASSUME [Next]_vars
  PROVE  /\ rec' # rec => ReconcileStep
         /\ recovery' # recovery => RecoveryStep
         /\ exec' # exec => \E k \in Claims : WorkerStep(k)
         /\ cancels' # cancels => \E c \in Cancellers : CancelStep(c)
<1>1. ASSUME NEW k \in Claims, WorkerStep(k)
      PROVE  UNCHANGED <<rec, recovery, cancels>>
  BY <1>1 DEF WorkerStep, cancelVars, recoveryVars
<1>2. ASSUME NEW c \in Cancellers, CancelStep(c)
      PROVE  UNCHANGED <<rec, recovery, exec>>
  BY <1>2
  DEF CancelStep, Request, ReadTask, CancelTaskIfStatus, CancelActiveTask, BillCancelled,
      PushJob, ClaimTaskProviderCancellation, CannotCancel, SendCancel, GiveUpCancel,
      ReviewCancelled, CrashCanceller, workerVars, recoveryVars
<1>3. CASE ReconcileStep
  <2>1. UNCHANGED cancels
    BY <1>3
    DEF ReconcileStep, Reconcile, ClaimNextTaskProviderCancellation, SkipQuery,
        QueryProviderCancellation, RefundReconciled, SettleReconciled, CloseReconciled,
        DeferReconciled, GiveUpReconciled, ReviewReconciled, CrashReconciler
  <2>2. QED
    BY <1>3, <2>1 DEF ReconcileStep, workerVars, recoveryVars
<1>4. CASE RecoveryStep
  BY <1>4 DEF RecoveryStep, workerVars, cancelVars
<1>5. CASE OutsideStep \/ UNCHANGED vars
  BY <1>5 DEF OutsideStep, vars, workerVars, cancelVars, recoveryVars
<1>6. QED
  BY <1>1, <1>2, <1>3, <1>4, <1>5 DEF Next

LEMMA ConfirmedStep ==
  ASSUME BInv, OneRun, NeverRetried, Confirmed, [Next]_vars
  PROVE  Confirmed'
<1>1. TypeOK /\ Pending /\ IInv /\ Behind
  BY DEF BInv, IInv
<1>2. 1 \in Runs /\ task.run = 1 /\ retry = "none" /\ task'.run = task.run
  BY <1>1, RunStays, TaskRowAssumption DEF OneRun, Runs
<1>3. OrderMoves(1)
  BY <1>1, <1>2, WhoMovesOrders DEF OrdersMove
<1>4. /\ task.status = "cancelled" => task'.status = "cancelled"
      /\ task.status = "succeeded" => task'.status = "succeeded"
  BY <1>1, <1>2, EndedStep DEF Terminal
<1>5. order'[1] # "none"
  BY <1>3 DEF OrderMoves, Confirmed
<1>6. rec'.pc # "idle" => task'.status = "cancelled"
  <2>1. SUFFICES ASSUME rec'.pc # "idle", rec.pc = "idle" PROVE task'.status = "cancelled"
    BY <1>4 DEF Confirmed
  <2>2. ClaimNextTaskProviderCancellation
    BY <1>1, <2>1, OwnSteps, ReconcilerMoves
  <2>3. task.status = "cancelled"
    BY <2>2 DEF ClaimNextTaskProviderCancellation, CancellationIsOpen
  <2>4. QED
    BY <1>4, <2>3
<1>7. recovery'.pc = "bill" => task'.status = "succeeded"
  BY <1>1, <1>4, OwnSteps, RecoveryBills DEF Confirmed
<1>8. ASSUME task.status = "cancelled", GivenBack(1) PROVE GivenBack(1)'
  BY <1>8, BackStays DEF Confirmed
<1>9. rec'.pc = "close" /\ rec'.verdict = "confirmed" => GivenBack(1)'
  <2>1. SUFFICES ASSUME rec'.pc = "close", rec'.verdict = "confirmed" PROVE GivenBack(1)'
    OBVIOUS
  <2>2. CASE UNCHANGED rec
    BY <1>8, <2>1, <2>2 DEF Confirmed
  <2>3. CASE rec' # rec
    <3>1. rec.pc = "confirmed" /\ order[rec.copy.run] # "settled" /\ RefundBilling(rec.copy.run)
      BY <1>1, <2>1, <2>3, OwnSteps, ReconcilerMoves
    <3>2. rec.copy.run = 1
      BY <1>1, <1>2, RecType, TaskRowAssumption DEF Behind, Runs
    <3>3. order'[1] = "refunded"
      BY <1>1, <1>2, <3>1, <3>2
      DEF RefundBilling, Confirmed, TypeOK, RowTypeOK, OrderStatuses, Open
    <3>4. QED
      BY <3>3 DEF GivenBack
  <2>4. QED
    BY <2>2, <2>3
<1>10. task'.cancel = "confirmed" => task'.status = "cancelled" /\ GivenBack(1)'
  BY <1>1, <1>2, <1>4, <1>8, WhoConfirms DEF Confirmed, ClosesConfirmed
<1>11. QED
  BY <1>5, <1>6, <1>7, <1>9, <1>10 DEF Confirmed

LEMMA ConfirmedInit == Init => Confirmed
<1>1. SUFFICES ASSUME Init PROVE Confirmed
  OBVIOUS
<1>2. order[1] # "none"
  <2>1. order = [r \in Runs |-> IF r = 1 THEN "reserved" ELSE "none"]
    BY <1>1 DEF Init, RowInit
  <2>2. 1 \in Runs
    BY TaskRowAssumption DEF Runs
  <2>3. QED
    BY <2>1, <2>2
<1>3. rec.pc = "idle" /\ recovery.pc = "idle"
  BY <1>1, EmptyRecords DEF Init, CancelInit, RecoveryInit
<1>4. task.cancel # "confirmed"
  <2>1. task.cancel = ""
    BY <1>1 DEF Init, RowInit
  <2>2. QED
    BY <2>1
<1>5. QED
  BY <1>2, <1>3, <1>4 DEF Confirmed

LEMMA ConfirmedInvariant ==
  ASSUME NeverRetried
  PROVE  Spec => [](BInv /\ OneRun /\ Confirmed)
<1>1. BInv /\ OneRun /\ Confirmed /\ [Next]_vars => Confirmed'
  BY ConfirmedStep
<1>2. QED
  BY <1>1, ConfirmedInit, OneRunInvariant, PTL DEF Spec

\* Who has had a cancellation confirmed by the provider has the credit back
\* (RefundReconciled comes before CloseReconciled, and nothing charges again what
\* is cancelled), for a task that is never retried.
THEOREM ConfirmedRefunded ==
  ASSUME NeverRetried
  PROVE  Spec => []ConfirmedIsRefunded
<1>1. OneRun /\ Confirmed => ConfirmedIsRefunded
  BY DEF OneRun, Confirmed, GivenBack, ConfirmedIsRefunded
<1>2. QED
  BY <1>1, ConfirmedInvariant, PTL

\* What was refunded is charged again only by a recovery that has saved the
\* result, for a task that is never retried.
THEOREM RestoredDelivered ==
  ASSUME NeverRetried
  PROVE  Spec => RestoredIsDelivered
<1>1. BInv /\ OneRun /\ Confirmed /\ [Next]_vars =>
        [\A r \in Runs :
           order[r] = "refunded" /\ order'[r] = "settled" =>
             task.run = r /\ task.status = "succeeded"]_vars
  <2>1. SUFFICES ASSUME BInv, OneRun, Confirmed, [Next]_vars, NEW r \in Runs,
                        order[r] = "refunded", order'[r] = "settled"
                 PROVE  task.run = r /\ task.status = "succeeded"
    OBVIOUS
  <2>2. OrderMoves(r)
    BY <2>1, WhoMovesOrders DEF OrdersMove, BInv, IInv
  <2>3. recovery.pc = "bill"
    BY <2>1, <2>2 DEF OrderMoves, Open
  <2>4. r = 1
    BY <2>1, TaskRowAssumption DEF BInv, Behind, OneRun, Runs
  <2>5. QED
    BY <2>1, <2>3, <2>4 DEF OneRun, Confirmed
<1>2. QED
  BY <1>1, ConfirmedInvariant, PTL DEF Spec, RestoredIsDelivered

-----------------------------------------------------------------------------
(***************************************************************************)
(* A refund is about a run that has failed or was cancelled.               *)
(***************************************************************************)
NeverRecovered == ~ Enabled("recovery")

Over(r) ==
  r < task.run \/ (r = task.run /\ task.status \in {"failed", "cancelled"})

AtWork(execution) == execution.pc \notin {"unclaimed", "done", "review"}

RefundsOver ==
  /\ recovery.pc = "idle"
  /\ \A k \in Claims :
       /\ AtWork(exec[k]) => exec[k].bill = exec[k].run
       /\ exec[k].pc \in {"decide", "refund"} => Over(exec[k].bill)
  /\ \A c \in Cancellers : cancels[c].pc \in {"stop", "bill"} => Over(cancels[c].copy.run)
  /\ rec.pc # "idle" => Over(rec.copy.run)
  /\ \A r \in Runs : order[r] = "refunded" => r \in resolved \/ Over(r)

\* A run that is over stays so, for without a recovery no failure is undone.
LEMMA OverStays ==
  ASSUME IInv, [Next]_vars, recovery.pc = "idle", NEW r \in Runs, Over(r)
  PROVE  Over(r)'
<1>1. StepKind /\ task.run \in Int /\ r \in Int
  BY StepKinds, RunTypes, TaskRowAssumption DEF IInv, Runs
<1>2. CASE RowKeeps \/ RowEnds \/ (\E k \in Claims : Wins(k) \/ Claimed(k))
  BY <1>1, <1>2 DEF RowKeeps, RowEnds, Wins, Claimed, Over, Terminal
<1>3. CASE RowRequeued
  BY <1>1, <1>3 DEF RowRequeued, Over
<1>4. CASE RowRestored
  BY <1>4 DEF RowRestored
<1>5. QED
  BY <1>1, <1>2, <1>3, <1>4 DEF StepKind

\* What a step of a worker does to the order it will bill.
BillsOwn(k) ==
  /\ \A l \in Claims \ {k} : exec'[l] = exec[l]
  /\ AtWork(exec'[k]) =>
       \/ exec'[k].bill = exec'[k].run
       \/ AtWork(exec[k]) /\ exec'[k].bill = exec[k].bill /\ exec'[k].run = exec[k].run
  /\ exec'[k].pc \in {"decide", "refund"} =>
       \/ exec[k].pc = "decide" /\ exec'[k].bill = exec[k].bill
       \/ /\ AtWork(exec[k]) /\ exec'[k].bill = exec[k].bill
          /\ task.owner = k /\ task'.run = task.run
          /\ task'.status \in {"failed", "cancelled"}

LEMMA WorkerBillsOwn ==
  ASSUME TypeOK, NEW k \in Claims, WorkerStep(k)
  PROVE  BillsOwn(k)
<1>1. exec \in [Claims -> Executions] /\ task \in TaskRows
  BY DEF TypeOK, WorkerTypeOK, RowTypeOK
<1>2. ASSUME Leave(k) PROVE BillsOwn(k)
  <2>1. exec'[k].pc = "done" /\ \A l \in Claims \ {k} : exec'[l] = exec[l]
    BY <1>1, <1>2 DEF Leave, Unclaimed
  <2>2. QED
    BY <2>1 DEF BillsOwn, AtWork
<1>3. ASSUME NEW pc, pc \notin {"decide", "refund"}, AtWork(exec[k]), Go(k, pc)
      PROVE  BillsOwn(k)
  BY <1>1, <1>3 DEF Go, Executions, BillsOwn, AtWork
<1>4. ASSUME NEW pc, NEW outcome, pc \notin {"decide", "refund"}, AtWork(exec[k]),
             End(k, outcome, pc)
      PROVE  BillsOwn(k)
  BY <1>1, <1>4 DEF End, Executions, BillsOwn, AtWork
<1>5. CASE ClaimNextTask(k)
  <2>1. /\ exec'[k].pc = "start" /\ exec'[k].bill = task.run /\ exec'[k].run = task.run
        /\ \A l \in Claims \ {k} : exec'[l] = exec[l]
    BY <1>1, <1>5 DEF ClaimNextTask, Unclaimed
  <2>2. QED
    BY <2>1 DEF BillsOwn
<1>6. CASE BeginTaskRouteAttempt(k)
  <2>1. CASE \/ exec' = [exec EXCEPT ![k].fresh = TRUE, ![k].pc = "bill"]
             \/ exec' = [exec EXCEPT ![k].req = KnownJob(k), ![k].pc = "bill"]
    BY <1>1, <1>6, <2>1 DEF BeginTaskRouteAttempt, At, Executions, BillsOwn, AtWork
  <2>2. AtWork(exec[k])
    BY <1>6 DEF BeginTaskRouteAttempt, At, AtWork
  <2>3. QED
    BY <1>3, <1>4, <1>6, <2>1, <2>2
    DEF BeginTaskRouteAttempt, NewRouteAttempt, ResumeRouteAttempt, RejectedRouteAttempt
<1>7. CASE Start(k) \/ ReadBilling(k) \/ MarkBillingRunning(k)
  <2>1. AtWork(exec[k])
    BY <1>7 DEF Start, ReadBilling, MarkBillingRunning, At, AtWork
  <2>2. QED
    BY <1>2, <1>3, <1>4, <1>7, <2>1 DEF Start, ReadBilling, MarkBillingRunning
<1>8. CASE MarkRouteAttemptDispatching(k)
  BY <1>1, <1>8 DEF MarkRouteAttemptDispatching, At, Executions, BillsOwn, AtWork
<1>9. CASE RenewFails(k)
  BY <1>1, <1>9 DEF RenewFails, Executions, BillsOwn, AtWork
<1>10. CASE Submit(k)
  <2>1. AtWork(exec[k])
    BY <1>10 DEF Submit, At, AtWork
  <2>2. CASE SubmitAccepted(k)
    <3> DEFINE outcome == IF Async THEN "" ELSE "ok"
    <3>1. PICK j \in Jobs :
            exec' = [exec EXCEPT ![k].id = IF Async THEN j ELSE NoJob,
                                 ![k].outcome = outcome,
                                 ![k].pc = IF Async THEN "note" ELSE "log"]
      BY <2>2 DEF SubmitAccepted
    <3> HIDE DEF outcome
    <3>2. QED
      BY <1>1, <2>1, <3>1 DEF Executions, BillsOwn, AtWork
  <2>3. QED
    BY <1>4, <1>10, <2>1, <2>2 DEF Submit, SubmitLost, SubmitRejected, SubmitStopped
<1>11. CASE NoteBillingJob(k) \/ StampTask(k) \/ LogAPICall(k)
  <2>1. AtWork(exec[k])
    BY <1>11 DEF NoteBillingJob, StampTask, LogAPICall, At, AtWork
  <2>2. QED
    BY <1>3, <1>11, <2>1 DEF NoteBillingJob, StampTask, LogAPICall
<1>12. CASE Poll(k)
  <2>1. AtWork(exec[k])
    BY <1>12 DEF Poll, At, AtWork
  <2>2. QED
    BY <1>4, <1>12, <2>1 DEF Poll
<1>13. CASE FinishTaskRouteAttempt(k)
  BY <1>1, <1>2, <1>13 DEF FinishTaskRouteAttempt, At, Executions, BillsOwn, AtWork
<1>14. CASE EnsureAttemptLogged(k) \/ DeferRunningTask(k) \/ SaveRefused(k) \/ SettleTask(k)
  <2>1. AtWork(exec[k])
    BY <1>14 DEF EnsureAttemptLogged, DeferRunningTask, SaveRefused, SettleTask, At, AtWork
  <2>2. QED
    BY <1>2, <1>3, <1>4, <1>14, <2>1
    DEF EnsureAttemptLogged, DeferRunningTask, SaveRefused, SettleTask
<1>15. CASE DecideBilling(k)
  BY <1>1, <1>15 DEF DecideBilling, Go, At, Executions, BillsOwn, AtWork
<1>16. CASE RefundTask(k) \/ ReviewTask(k) \/ CrashWorker(k)
  BY <1>2, <1>16 DEF RefundTask, ReviewTask, CrashWorker
<1>17. CASE HandleExecutionFailure(k)
  <2>1. PICK status \in {"failed", "cancelled"} : Conclude(k, status, "decide")
    BY <1>17 DEF HandleExecutionFailure
  <2>2. CASE ~ Fenced(k)
    <3>1. /\ task.owner = k
          /\ task' = [task EXCEPT !.status = status, !.owner = NoOwner, !.leased = FALSE]
          /\ exec' = [exec EXCEPT ![k].won = TRUE, ![k].pc = "decide"]
      BY <2>1, <2>2 DEF Conclude, WriteTerminalState, Fence
    <3>2. QED
      BY <1>1, <1>17, <3>1
      DEF HandleExecutionFailure, At, TaskRows, Executions, BillsOwn, AtWork
  <2>3. QED
    BY <1>2, <2>1, <2>2 DEF Conclude
<1>18. CASE ReadBeforeSave(k)
  BY <1>1, <1>18 DEF ReadBeforeSave, At, Executions, BillsOwn, AtWork
<1>19. CASE SaveTaskCompletion(k)
  BY <1>1, <1>2, <1>19 DEF SaveTaskCompletion, At, Executions, BillsOwn, AtWork
<1>20. QED
  BY <1>5, <1>6, <1>7, <1>8, <1>9, <1>10, <1>11, <1>12, <1>13, <1>14, <1>15, <1>16, <1>17,
     <1>18, <1>19 DEF WorkerStep, Execute, Prepare, Call, Bill

LEMMA CancelBills ==
  ASSUME TypeOK, NEW c \in Cancellers, CancelStep(c), cancels'[c].pc \in {"stop", "bill"}
  PROVE  /\ cancels'[c].copy = cancels[c].copy
         /\ \/ cancels[c].pc = "stop"
            \/ task'.run = task.run /\ task'.status = "cancelled"
<1>1. /\ cancels \in [Cancellers -> [pc : CancelPCs, status : TaskStatuses, copy : Copies]]
      /\ task \in TaskRows
  BY DEF TypeOK, CancelTypeOK, RowTypeOK
<1>2. ~ CLeave(c)
  BY <1>1 DEF CLeave
<1>3. ASSUME NEW pc, CGo(c, pc) PROVE pc \in {"stop", "bill"} /\ cancels'[c].copy = cancels[c].copy
  BY <1>1, <1>3 DEF CGo
<1>4. CASE ReadTask(c)
  BY <1>1, <1>4 DEF ReadTask
<1>5. ~ CGo(c, "claim") /\ ~ CGo(c, "send") /\ ~ CGo(c, "giveup") /\ ~ CGo(c, "review")
  BY <1>3
<1>6. CASE CancelTaskIfStatus(c)
  <2>1. task' = [task EXCEPT !.status = "cancelled", !.owner = NoOwner, !.leased = FALSE]
    BY <1>2, <1>6 DEF CancelTaskIfStatus
  <2>2. QED
    BY <1>1, <1>2, <1>3, <1>6, <2>1 DEF CancelTaskIfStatus, TaskRows
<1>7. CASE CancelActiveTask(c, Stoppable)
  BY <1>3, <1>7 DEF CancelActiveTask, CAt
<1>8. CASE BillCancelled(c) \/ PushJob(c) \/ ClaimTaskProviderCancellation(c)
           \/ CannotCancel(c)
  BY <1>2, <1>5, <1>8
  DEF BillCancelled, PushJob, ClaimTaskProviderCancellation, CannotCancel
<1>9. CASE SendCancel(c) \/ GiveUpCancel(c) \/ ReviewCancelled(c) \/ CrashCanceller(c)
  BY <1>2, <1>5, <1>9 DEF SendCancel, GiveUpCancel, ReviewCancelled, CrashCanceller
<1>10. QED
  BY <1>4, <1>6, <1>7, <1>8, <1>9 DEF CancelStep, Request

LEMMA CancelOthers ==
  ASSUME TypeOK, NEW c \in Cancellers, CancelStep(c)
  PROVE  \A d \in Cancellers \ {c} : cancels'[d] = cancels[d]
<1>1. cancels \in [Cancellers -> [pc : CancelPCs, status : TaskStatuses, copy : Copies]]
  BY DEF TypeOK, CancelTypeOK
<1>2. (\E pc : CGo(c, pc)) \/ CLeave(c) => \A d \in Cancellers \ {c} : cancels'[d] = cancels[d]
  BY <1>1 DEF CGo, CLeave
<1>3. CASE ReadTask(c)
  BY <1>1, <1>3 DEF ReadTask
<1>4. CASE CancelTaskIfStatus(c) \/ CancelActiveTask(c, Stoppable) \/ CrashCanceller(c)
  BY <1>2, <1>4 DEF CancelTaskIfStatus, CancelActiveTask, CrashCanceller
<1>5. CASE Request(c) /\ ~ CancelTaskIfStatus(c)
  BY <1>2, <1>5
  DEF Request, BillCancelled, PushJob, ClaimTaskProviderCancellation, CannotCancel,
      SendCancel, GiveUpCancel, ReviewCancelled
<1>6. QED
  BY <1>3, <1>4, <1>5 DEF CancelStep

LEMMA ReconcileCopies ==
  ASSUME TypeOK, ReconcileStep, rec'.pc # "idle"
  PROVE  \/ rec.pc # "idle" /\ rec'.copy = rec.copy
         \/ rec'.copy.run = task.run /\ task.status = "cancelled"
<1>1. rec \in RecRows
  BY RecType
<1>2. ~ RLeave
  BY EmptyRecords DEF RLeave
<1>3. ASSUME NEW pc, RGo(pc) PROVE rec'.copy = rec.copy
  BY <1>1, <1>3 DEF RGo, RecRows
<1>4. CASE ClaimNextTaskProviderCancellation
  <2>1. rec'.copy = [run |-> task.run, job |-> task.job]
    BY <1>4 DEF ClaimNextTaskProviderCancellation
  <2>2. QED
    BY <1>4, <2>1 DEF ClaimNextTaskProviderCancellation, CancellationIsOpen
<1>5. CASE SkipQuery \/ QueryProviderCancellation
  BY <1>3, <1>5 DEF SkipQuery, QueryProviderCancellation, RAt
<1>6. CASE RefundReconciled \/ SettleReconciled
  BY <1>1, <1>3, <1>6 DEF RefundReconciled, SettleReconciled, RAt, RecRows
<1>7. CASE CloseReconciled \/ DeferReconciled \/ GiveUpReconciled \/ ReviewReconciled
           \/ CrashReconciler
  BY <1>2, <1>3, <1>7
  DEF CloseReconciled, DeferReconciled, GiveUpReconciled, ReviewReconciled, CrashReconciler, RAt
<1>8. QED
  BY <1>4, <1>5, <1>6, <1>7 DEF ReconcileStep, Reconcile

LEMMA NothingRecovered ==
  ASSUME NeverRecovered, RecoveryStep, recovery.pc = "idle"
  PROVE  UNCHANGED recovery
BY DEF NeverRecovered, RecoveryStep, Retry, CheckRetryEligibility, RetryTaskWithBilling,
  Recover, ReadFailedTask, PushRecoveredJob, ClaimFailedTaskProviderRecovery, QueryFailedTask,
  SaveRecovered, BillRecovered, ReviewRecovered, ReleaseTaskProviderRecovery, CrashRecovery,
  ResolveBillingOrder, VAt

LEMMA RefundsOverStep ==
  ASSUME NeverRecovered, BInv, RefundsOver, [Next]_vars
  PROVE  RefundsOver'
<1>1. TypeOK /\ IInv /\ recovery.pc = "idle" /\ task.run \in Runs
  BY DEF BInv, IInv, RefundsOver, TypeOK, RowTypeOK, TaskRows
<1>2. recovery'.pc = "idle"
  BY <1>1, OwnSteps, NothingRecovered
<1>3. \A r \in Runs : Over(r) => Over(r)'
  BY <1>1, OverStays
<1>4. \A k \in Claims : exec[k].bill \in Runs /\ exec[k].run \in Runs
  BY <1>1 DEF TypeOK, WorkerTypeOK, Executions
<1>5. ASSUME NEW k \in Claims
      PROVE  /\ AtWork(exec'[k]) => exec'[k].bill = exec'[k].run
             /\ exec'[k].pc \in {"decide", "refund"} => Over(exec[k].bill)'
  <2>1. CASE exec'[k] = exec[k]
    BY <1>3, <1>4, <2>1 DEF RefundsOver, Over
  <2>2. CASE exec'[k] # exec[k]
    <3>1. BillsOwn(k)
      <4>1. PICK l \in Claims : WorkerStep(l)
        BY <2>2, OwnSteps
      <4>2. QED
        BY <1>1, <2>2, <4>1, WorkerBillsOwn DEF BillsOwn, Over
    <3>2. AtWork(exec'[k]) => exec'[k].bill = exec'[k].run
      BY <3>1 DEF BillsOwn, RefundsOver
    <3>3. ASSUME exec[k].pc = "decide", exec'[k].bill = exec[k].bill
          PROVE  Over(exec[k].bill)'
      BY <1>3, <1>4, <3>3 DEF RefundsOver, Over
    <3>4. ASSUME AtWork(exec[k]), exec'[k].bill = exec[k].bill, task.owner = k,
                 task'.run = task.run, task'.status \in {"failed", "cancelled"}
          PROVE  Over(exec[k].bill)'
      <4>1. exec[k].bill = task.run
        BY <1>1, <3>4 DEF RefundsOver, IInv, HolderIsCurrent
      <4>2. QED
        BY <3>4, <4>1 DEF Over
    <3>5. QED
      BY <3>1, <3>2, <3>3, <3>4 DEF BillsOwn, Over
  <2>3. QED
    BY <2>1, <2>2
<1>6. ASSUME NEW c \in Cancellers, cancels'[c].pc \in {"stop", "bill"}
      PROVE  Over(cancels[c].copy.run)'
  <2>1. cancels[c].copy.run \in Runs
    BY <1>1 DEF TypeOK, CancelTypeOK, Copies
  <2>2. CASE cancels'[c] = cancels[c]
    BY <1>3, <1>6, <2>1, <2>2 DEF RefundsOver, Over
  <2>3. CASE cancels'[c] # cancels[c]
    <3>1. CancelStep(c)
      BY <1>1, <2>3, OwnSteps, CancelOthers
    <3>2. /\ cancels'[c].copy = cancels[c].copy
          /\ cancels[c].pc = "stop" \/ (task'.run = task.run /\ task'.status = "cancelled")
      BY <1>1, <1>6, <3>1, CancelBills
    <3>3. CASE cancels[c].pc = "stop"
      BY <1>3, <2>1, <3>2, <3>3 DEF RefundsOver, Over
    <3>4. CASE task'.run = task.run /\ task'.status = "cancelled"
      <4>1. cancels[c].copy.run <= task.run
        BY DEF BInv, Behind
      <4>2. QED
        BY <1>1, <2>1, <3>2, <3>4, <4>1, TaskRowAssumption DEF Over, Runs
    <3>5. QED
      BY <3>2, <3>3, <3>4
  <2>4. QED
    BY <2>2, <2>3 DEF Over
<1>7. ASSUME rec'.pc # "idle"
      PROVE  Over(rec.copy.run)'
  <2>1. rec.copy.run \in Runs
    BY <1>1, RecType
  <2>2. CASE UNCHANGED rec \/ (rec.pc # "idle" /\ rec'.copy = rec.copy)
    BY <1>3, <1>7, <2>1, <2>2 DEF RefundsOver, Over
  <2>3. CASE rec'.copy.run = task.run /\ task.status = "cancelled"
    <3>1. Over(task.run)
      BY <2>3 DEF Over
    <3>2. QED
      BY <1>1, <1>3, <2>3, <3>1 DEF Over
  <2>4. QED
    BY <1>1, <1>7, <2>2, <2>3, OwnSteps, ReconcileCopies
<1>8. ASSUME NEW r \in Runs, order'[r] = "refunded"
      PROVE  r \in resolved' \/ Over(r)'
  <2>1. OrderMoves(r) /\ resolved \subseteq resolved'
    BY <1>1, WhoMovesOrders DEF OrdersMove
  <2>2. order[r] = "refunded" \/ r \in resolved' \/ Refunds(r)
    BY <1>8, <2>1 DEF OrderMoves
  <2>3. Refunds(r) => Over(r)
    BY DEF Refunds, RefundsOver, At, CAt
  <2>4. QED
    BY <1>3, <2>1, <2>2, <2>3 DEF RefundsOver, Over
<1>9. QED
  BY <1>2, <1>5, <1>6, <1>7, <1>8 DEF RefundsOver, Over

LEMMA RefundsOverInit == Init => RefundsOver
<1>1. SUFFICES ASSUME Init PROVE RefundsOver
  OBVIOUS
<1>2. rec.pc = "idle" /\ recovery.pc = "idle" /\ \A k \in Claims : exec[k].pc = "unclaimed"
  BY <1>1, EmptyRecords DEF Init, CancelInit, RecoveryInit, WorkerInit
<1>3. \A c \in Cancellers : cancels[c].pc = "idle"
  BY <1>1 DEF Init, CancelInit
<1>4. \A r \in Runs : order[r] # "refunded"
  <2>1. order = [r \in Runs |-> IF r = 1 THEN "reserved" ELSE "none"]
    BY <1>1 DEF Init, RowInit
  <2>2. QED
    BY <2>1
<1>5. QED
  BY <1>2, <1>3, <1>4 DEF RefundsOver, AtWork

\* Whoever has the result has not got the credit back: not the execution that
\* lost the run, not the one that failed it, not a cancellation that came late
\* and not the reconciler refunds a run that succeeds, through any number of
\* retries.  (A recovery may: it turns a failed run that is being refunded into
\* one that succeeded.)
THEOREM DeliveredNotRefunded ==
  ASSUME NeverRecovered
  PROVE  Spec => []DeliveredIsNotRefunded
<1>1. BInv /\ RefundsOver /\ [Next]_vars => RefundsOver'
  BY RefundsOverStep
<1>2. BInv /\ RefundsOver => DeliveredIsNotRefunded
  <2>1. SUFFICES ASSUME BInv, RefundsOver, task.status = "succeeded",
                        order[task.run] = "refunded"
                 PROVE  task.run \in resolved
    BY DEF DeliveredIsNotRefunded
  <2>2. task.run \in Runs /\ task.run \in Int
    BY <2>1, TaskRowAssumption DEF BInv, IInv, TypeOK, RowTypeOK, TaskRows, Runs
  <2>3. QED
    BY <2>1, <2>2 DEF RefundsOver, Over
<1>3. QED
  BY <1>1, <1>2, RefundsOverInit, BehindInvariant, PTL DEF Spec

-----------------------------------------------------------------------------
(***************************************************************************)
(* A run submits one job.  Two things see to it: the lease, under which no *)
(* two executions of a run are alive at a time, and the route attempt,     *)
(* which tells the next one that a request may have been sent.             *)
(***************************************************************************)
NeverStalled == ~ Enabled("stall")

HasJob(r) == \E j \in Jobs : job[j].state # "none" /\ job[j].run = r

Unsent(r) == attempt[r].state \in {"none", "not_sent"}

OneAlive ==
  \A k, l \in Claims : Alive(k) /\ Alive(l) /\ exec[k].run = exec[l].run => k = l

AliveHolds ==
  \A k \in Claims :
    Alive(k) /\ exec[k].run = task.run =>
      /\ task.status # "queued"
      /\ task.status = "running" => task.owner = k /\ task.leased

UnsentHasNoJob == \A r \in Runs : Unsent(r) => ~ HasJob(r)

\* An execution past its route attempt has marked it, or knows a job to poll.
Prepared(k) ==
  /\ exec[k].pc \in {"bill", "mark", "dispatch"} =>
       \/ exec[k].fresh /\ attempt[exec[k].run].state = "not_sent"
       \/ exec[k].req # NoJob
  /\ At(k, "submit") => ~ Unsent(exec[k].run) /\ ~ HasJob(exec[k].run)

Attempted == UnsentHasNoJob /\ \A k \in Claims : Prepared(k)

(***************************************************************************)
(* Who holds the row.                                                      *)
(***************************************************************************)

\* Nobody else gets to hold the running row.
HolderStays ==
  /\ task'.run = task.run
  /\ task'.status = "queued" => task.status = "queued"
  /\ task'.status = "running" =>
       /\ task.status = "running"
       /\ task.owner \in Claims =>
            /\ task'.owner = task.owner
            /\ task'.leased = task.leased \/ ~ Alive(task.owner)

HandsBack(k) ==
  /\ exec'[k].pc = "done"
  /\ task.owner = k /\ task'.run = task.run /\ task'.status = task.status

LEMMA SameHolder == ASSUME UNCHANGED task PROVE HolderStays
BY DEF HolderStays

LEMMA StampsHolder ==
  ASSUME TypeOK, NEW j, UpdateTaskProviderState(j)
  PROVE  HolderStays
<1>1. task \in TaskRows
  BY DEF TypeOK, RowTypeOK
<1>2. QED
  BY <1>1 DEF UpdateTaskProviderState, TaskRows, HolderStays

LEMMA EndsHolder ==
  ASSUME TypeOK, task'.run = task.run, task'.status \in Terminal
  PROVE  HolderStays
BY DEF HolderStays, Terminal

LEMMA WorkerHolds ==
  ASSUME TypeOK, NEW k \in Claims, WorkerStep(k)
  PROVE  ClaimNextTask(k) \/ HandsBack(k) \/ HolderStays
<1>1. task \in TaskRows /\ exec \in [Claims -> Executions]
  BY DEF TypeOK, RowTypeOK, WorkerTypeOK
<1>2. CASE Prepare(k)
  BY <1>2, SameHolder, StampsHolder
  DEF Prepare, Start, BeginTaskRouteAttempt, NewRouteAttempt, ResumeRouteAttempt,
      RejectedRouteAttempt, ReadBilling, MarkBillingRunning, MarkRouteAttemptDispatching,
      rowVars
<1>3. CASE Call(k)
  BY <1>3, SameHolder, StampsHolder
  DEF Call, Submit, NoteBillingJob, StampTask, LogAPICall, Poll, RecordJob, RenewFails,
      FinishTaskRouteAttempt, Forget
<1>4. CASE EnsureAttemptLogged(k)
  BY <1>4, SameHolder, StampsHolder DEF EnsureAttemptLogged, RecordJob
<1>5. CASE HandleExecutionFailure(k)
  <2>1. PICK status \in {"failed", "cancelled"} : Conclude(k, status, "decide")
    BY <1>5 DEF HandleExecutionFailure
  <2>2. CASE ~ Fenced(k)
    <3>1. task' = [task EXCEPT !.status = status, !.owner = NoOwner, !.leased = FALSE]
      BY <2>1, <2>2 DEF Conclude, WriteTerminalState
    <3>2. QED
      BY <1>1, <3>1, EndsHolder DEF TaskRows, Terminal
  <2>3. QED
    BY <2>1, <2>2, SameHolder DEF Conclude
<1>6. CASE DeferRunningTask(k)
  <2>1. CASE ~ Fenced(k)
    <3>1. /\ task' = [task EXCEPT !.owner = NoOwner, !.leased = FALSE]
          /\ task.owner = k
      BY <1>6, <2>1 DEF DeferRunningTask, Fenced, Fence
    <3>2. exec'[k].pc = "done"
      BY <1>1, <1>6 DEF DeferRunningTask, Leave, Unclaimed
    <3>3. QED
      BY <1>1, <3>1, <3>2 DEF TaskRows, HandsBack
  <2>2. QED
    BY <1>6, <2>1, SameHolder DEF DeferRunningTask
<1>7. CASE SaveTaskCompletion(k)
  <2>1. CASE ~ Fenced(k)
    <3>1. task' = [task EXCEPT !.status = "succeeded", !.job = exec[k].req]
      BY <1>7, <2>1 DEF SaveTaskCompletion
    <3>2. QED
      BY <1>1, <3>1, EndsHolder DEF TaskRows, Terminal
  <2>2. QED
    BY <1>7, <2>1, SameHolder DEF SaveTaskCompletion
<1>8. CASE DecideBilling(k) \/ RefundTask(k) \/ ReviewTask(k) \/ ReadBeforeSave(k)
           \/ SaveRefused(k) \/ SettleTask(k) \/ CrashWorker(k)
  BY <1>8, SameHolder
  DEF DecideBilling, RefundTask, ReviewTask, ReadBeforeSave, SaveRefused, SettleTask,
      CrashWorker, Forget, rowVars
<1>9. QED
  BY <1>2, <1>3, <1>4, <1>5, <1>6, <1>7, <1>8 DEF WorkerStep, Execute, Bill

LEMMA CancelHolds ==
  ASSUME TypeOK, NEW c \in Cancellers, CancelStep(c)
  PROVE  HolderStays
<1>1. task \in TaskRows
  BY DEF TypeOK, RowTypeOK
<1>2. CASE ReadTask(c) \/ CancelActiveTask(c, Stoppable) \/ CrashCanceller(c)
           \/ BillCancelled(c) \/ CannotCancel(c) \/ ReviewCancelled(c)
  BY <1>2, SameHolder
  DEF ReadTask, CancelActiveTask, CrashCanceller, BillCancelled, CannotCancel,
      ReviewCancelled, rowVars
<1>3. CASE CancelTaskIfStatus(c)
  BY <1>1, <1>3, SameHolder, EndsHolder DEF CancelTaskIfStatus, TaskRows, Terminal
<1>4. CASE PushJob(c) \/ SendCancel(c)
  BY <1>4, StampsHolder DEF PushJob, SendCancel, RecordJob
<1>5. CASE ClaimTaskProviderCancellation(c)
  <2>1. \/ /\ task.status = "cancelled"
           /\ task' = [task EXCEPT !.cancel = "requested", !.checks = 1]
        \/ UNCHANGED task
    BY <1>5 DEF ClaimTaskProviderCancellation
  <2>2. QED
    BY <1>1, <2>1, SameHolder, EndsHolder DEF TaskRows, Terminal
<1>6. CASE GiveUpCancel(c)
  BY <1>1, <1>6, SameHolder, EndsHolder
  DEF GiveUpCancel, UpdateTaskProviderCancellation, CancellationIsOpen, TaskRows, Terminal
<1>7. QED
  BY <1>2, <1>3, <1>4, <1>5, <1>6 DEF CancelStep, Request

LEMMA ReconcileHolds ==
  ASSUME TypeOK, ReconcileStep
  PROVE  HolderStays
<1>1. task \in TaskRows
  BY DEF TypeOK, RowTypeOK
<1>2. CASE ClaimNextTaskProviderCancellation
  <2>1. PICK checks : task' = [task EXCEPT !.owner = Reconciler, !.leased = TRUE,
                                           !.checks = checks]
    BY <1>2 DEF ClaimNextTaskProviderCancellation
  <2>2. task.status = "cancelled"
    BY <1>2 DEF ClaimNextTaskProviderCancellation, CancellationIsOpen
  <2>3. QED
    BY <1>1, <2>1, <2>2, EndsHolder DEF TaskRows, Terminal
<1>3. CASE QueryProviderCancellation
  BY <1>3, StampsHolder DEF QueryProviderCancellation, RecordJob
<1>4. CASE CloseReconciled \/ DeferReconciled \/ GiveUpReconciled
  BY <1>1, <1>4, SameHolder, EndsHolder
  DEF CloseReconciled, DeferReconciled, GiveUpReconciled, UpdateTaskProviderCancellation,
      CancellationIsOpen, TaskRows, Terminal
<1>5. CASE SkipQuery \/ RefundReconciled \/ SettleReconciled \/ ReviewReconciled
           \/ CrashReconciler
  BY <1>5, SameHolder
  DEF SkipQuery, RefundReconciled, SettleReconciled, ReviewReconciled, CrashReconciler, rowVars
<1>6. QED
  BY <1>2, <1>3, <1>4, <1>5 DEF ReconcileStep, Reconcile

LEMMA RecoveryHolds ==
  ASSUME TypeOK, RecoveryStep
  PROVE  HolderStays \/ RowRequeued
<1>1. task \in TaskRows
  BY DEF TypeOK, RowTypeOK
<1>2. CASE RetryTaskWithBilling
  <2>1. \/ task' = [task EXCEPT !.status = "queued", !.run = @ + 1, !.owner = NoOwner,
                                !.leased = FALSE, !.job = NoJob, !.cancel = "", !.checks = 0]
        \/ UNCHANGED task
    BY <1>2 DEF RetryTaskWithBilling
  <2>2. CASE task'.status = "queued" /\ task'.run = task.run + 1
    <3>1. RowRequeued
      BY <1>2, <2>2, RunTypes, RetryMoves DEF RecoveryMoves, RowKeeps, RowRestored
    <3>2. QED
      BY <3>1
  <2>3. QED
    BY <1>1, <2>1, <2>2, SameHolder DEF TaskRows
<1>3. CASE PushRecoveredJob \/ QueryFailedTask
  BY <1>3, StampsHolder DEF PushRecoveredJob, QueryFailedTask, RecordJob
<1>4. CASE ClaimFailedTaskProviderRecovery
  <2>1. \/ /\ task.status = "failed"
           /\ task' = [task EXCEPT !.owner = Recovery, !.leased = TRUE]
        \/ UNCHANGED task
    BY <1>4 DEF ClaimFailedTaskProviderRecovery
  <2>2. QED
    BY <1>1, <2>1, SameHolder, EndsHolder DEF TaskRows, Terminal
<1>5. CASE SaveRecovered
  <2>1. task' = [task EXCEPT !.status = "succeeded", !.job = recovery.job] \/ UNCHANGED task
    BY <1>5 DEF SaveRecovered
  <2>2. QED
    BY <1>1, <2>1, SameHolder, EndsHolder DEF TaskRows, Terminal
<1>6. CASE ReleaseTaskProviderRecovery
  <2>1. Recovery \notin Claims
    BY TaskRowAssumption DEF Recovery, Claims
  <2>2. QED
    BY <1>1, <1>6, <2>1 DEF ReleaseTaskProviderRecovery, TaskRows, HolderStays
<1>7. CASE CheckRetryEligibility \/ ReadFailedTask \/ BillRecovered \/ ReviewRecovered
           \/ CrashRecovery \/ \E r \in Runs : ResolveBillingOrder(r)
  BY <1>7, SameHolder
  DEF CheckRetryEligibility, ReadFailedTask, BillRecovered, ReviewRecovered, CrashRecovery,
      ResolveBillingOrder, rowVars
<1>8. QED
  BY <1>2, <1>3, <1>4, <1>5, <1>6, <1>7 DEF RecoveryStep, Retry, Recover

\* Where no worker stalls, a lease outlives the work done under it.
LEMMA OutsideHolds ==
  ASSUME TypeOK, OutsideStep, NeverStalled
  PROVE  HolderStays
<1>1. task \in TaskRows
  BY DEF TypeOK, RowTypeOK
<1>2. CASE LeaseExpires
  <2>1. task' = [task EXCEPT !.leased = FALSE] /\ Gone(task.owner)
    BY <1>2 DEF LeaseExpires
  <2>2. Reconciler \notin Claims /\ Recovery \notin Claims
    BY TaskRowAssumption DEF Reconciler, Recovery, Claims
  <2>3. task.owner \in Claims => ~ Alive(task.owner)
    BY <2>1, <2>2 DEF Gone, NeverStalled
  <2>4. QED
    BY <1>1, <2>1, <2>3 DEF TaskRows, HolderStays
<1>3. CASE \E j \in Jobs : JobEnds(j)
  BY <1>3, SameHolder DEF JobEnds
<1>4. QED
  BY <1>2, <1>3 DEF OutsideStep

(***************************************************************************)
(* One execution of a run is alive.                                        *)
(***************************************************************************)
StaysAlive(l) == Alive(l) /\ exec'[l].run = exec[l].run

LEMMA WorkerAlive ==
  ASSUME TypeOK, NEW k \in Claims, WorkerStep(k), NEW l \in Claims, Alive(l)'
  PROVE  StaysAlive(l) \/ (l = k /\ ClaimNextTask(k))
<1>1. exec \in [Claims -> Executions]
  BY DEF TypeOK, WorkerTypeOK
<1>2. CASE l # k
  BY <1>2, WorkerBillsOwn DEF BillsOwn, StaysAlive, Alive
<1>3. CASE l = k /\ ~ ClaimNextTask(k)
  <2>1. Alive(k)
    BY <1>3
    DEF WorkerStep, Execute, Prepare, Call, Bill, Start, BeginTaskRouteAttempt, ReadBilling,
        MarkBillingRunning, MarkRouteAttemptDispatching, Submit, NoteBillingJob, StampTask,
        LogAPICall, Poll, RenewFails, FinishTaskRouteAttempt, EnsureAttemptLogged,
        HandleExecutionFailure, DeferRunningTask, DecideBilling, RefundTask, ReviewTask,
        ReadBeforeSave, SaveTaskCompletion, SaveRefused, SettleTask, CrashWorker, At, Alive
  <2>2. ASSUME Leave(k) PROVE exec'[k].run = exec[k].run
    BY <1>1, <2>2 DEF Leave, Unclaimed
  <2>3. ASSUME NEW pc, NEW outcome, Go(k, pc) \/ End(k, outcome, pc)
        PROVE  exec'[k].run = exec[k].run
    BY <1>1, <2>3 DEF Go, End, Executions
  <2>4. ASSUME Prepare(k) PROVE exec'[k].run = exec[k].run
    <3>1. CASE MarkRouteAttemptDispatching(k)
      BY <1>1, <3>1 DEF MarkRouteAttemptDispatching, Executions
    <3>2. CASE NewRouteAttempt(k) \/ ResumeRouteAttempt(k)
      BY <1>1, <2>3, <3>2 DEF NewRouteAttempt, ResumeRouteAttempt, Executions
    <3>3. QED
      BY <2>2, <2>3, <2>4, <3>1, <3>2
      DEF Prepare, Start, BeginTaskRouteAttempt, RejectedRouteAttempt, ReadBilling,
          MarkBillingRunning
  <2>5. ASSUME Call(k) PROVE exec'[k].run = exec[k].run
    <3>1. CASE SubmitAccepted(k)
      <4>1. PICK id, outcome, pc :
              exec' = [exec EXCEPT ![k].id = id, ![k].outcome = outcome, ![k].pc = pc]
        BY <3>1 DEF SubmitAccepted
      <4>2. QED
        BY <1>1, <4>1 DEF Executions
    <3>2. CASE RenewFails(k)
      BY <1>1, <3>2 DEF RenewFails, Executions
    <3>3. CASE FinishTaskRouteAttempt(k)
      BY <1>1, <2>2, <3>3 DEF FinishTaskRouteAttempt, Executions
    <3>4. QED
      BY <2>3, <2>5, <3>1, <3>2, <3>3
      DEF Call, Submit, SubmitLost, SubmitRejected, SubmitStopped, NoteBillingJob, StampTask,
          LogAPICall, Poll
  <2>6. ASSUME Bill(k) \/ CrashWorker(k) PROVE exec'[k].run = exec[k].run
    <3>1. CASE HandleExecutionFailure(k)
      BY <1>1, <2>2, <3>1 DEF HandleExecutionFailure, Conclude, Executions
    <3>2. CASE ReadBeforeSave(k) \/ SaveTaskCompletion(k)
      BY <1>1, <2>2, <3>2 DEF ReadBeforeSave, SaveTaskCompletion, Executions
    <3>3. QED
      BY <2>2, <2>3, <2>6, <3>1, <3>2
      DEF Bill, EnsureAttemptLogged, DeferRunningTask, DecideBilling, RefundTask, ReviewTask,
          SaveRefused, SettleTask, CrashWorker
  <2>7. QED
    BY <1>3, <2>1, <2>4, <2>5, <2>6 DEF WorkerStep, Execute, StaysAlive
<1>4. QED
  BY <1>2, <1>3

OnlyOne == OneAlive /\ AliveHolds

\* All alive stay so, and the row stays with who has it.
LEMMA HolderStaysAlone ==
  ASSUME TypeOK, OnlyOne, HolderStays, \A l \in Claims : Alive(l)' => StaysAlive(l)
  PROVE  OnlyOne'
<1>1. OneAlive'
  BY DEF OnlyOne, OneAlive, StaysAlive
<1>2. ASSUME NEW l \in Claims, Alive(l)', exec'[l].run = task'.run
      PROVE  /\ task'.status # "queued"
             /\ task'.status = "running" => task'.owner = l /\ task'.leased
  <2>1. Alive(l) /\ exec[l].run = task.run
    BY <1>2 DEF StaysAlive, HolderStays
  <2>2. QED
    BY <2>1 DEF OnlyOne, AliveHolds, HolderStays
<1>3. QED
  BY <1>1, <1>2 DEF OnlyOne, AliveHolds

LEMMA OnlyOneStep ==
  ASSUME IInv, OnlyOne, NeverStalled, [Next]_vars
  PROVE  OnlyOne'
<1>1. TypeOK /\ task \in TaskRows /\ exec \in [Claims -> Executions]
  BY DEF IInv, TypeOK, RowTypeOK, WorkerTypeOK
<1>2. ASSUME UNCHANGED exec, NEW l \in Claims, Alive(l)' PROVE StaysAlive(l)
  BY <1>2 DEF StaysAlive, Alive
<1>3. ASSUME NEW k \in Claims, WorkerStep(k) PROVE OnlyOne'
  <2>1. CASE ClaimNextTask(k)
    <3>1. /\ task.status = "queued" \/ (task.status = "running" /\ ~ task.leased)
          /\ task'.run = task.run /\ task'.status = "running"
          /\ task'.owner = k /\ task'.leased = TRUE
          /\ exec'[k].run = task.run
      BY <1>1, <2>1 DEF ClaimNextTask, TaskRows
    <3>2. \A l \in Claims : Alive(l) => exec[l].run # task.run
      BY <3>1 DEF OnlyOne, AliveHolds
    <3>3. \A l \in Claims : Alive(l)' => l = k \/ StaysAlive(l)
      BY <1>1, <1>3, WorkerAlive
    <3>4. OneAlive'
      BY <3>1, <3>2, <3>3 DEF OnlyOne, OneAlive, StaysAlive
    <3>5. AliveHolds'
      BY <3>1, <3>2, <3>3 DEF AliveHolds, StaysAlive
    <3>6. QED
      BY <3>4, <3>5 DEF OnlyOne
  <2>2. CASE ~ ClaimNextTask(k)
    <3>1. \A l \in Claims : Alive(l)' => StaysAlive(l)
      BY <1>1, <1>3, <2>2, WorkerAlive
    <3>2. CASE HolderStays
      BY <1>1, <3>1, <3>2, HolderStaysAlone
    <3>3. CASE HandsBack(k)
      <4>1. OneAlive'
        BY <3>1 DEF OnlyOne, OneAlive, StaysAlive
      <4>2. ASSUME NEW l \in Claims, Alive(l)', exec'[l].run = task'.run
            PROVE  task'.status \notin {"queued", "running"}
        <5>1. l # k
          BY <3>3, <4>2 DEF HandsBack, Alive
        <5>2. Alive(l) /\ exec[l].run = task.run
          BY <3>1, <3>3, <4>2 DEF StaysAlive, HandsBack
        <5>3. QED
          BY <3>3, <5>1, <5>2 DEF HandsBack, OnlyOne, AliveHolds
      <4>3. QED
        BY <4>1, <4>2 DEF OnlyOne, AliveHolds
    <3>4. QED
      BY <1>1, <1>3, <2>2, <3>2, <3>3, WorkerHolds
  <2>3. QED
    BY <2>1, <2>2
<1>4. CASE \/ \E c \in Cancellers : CancelStep(c)
           \/ ReconcileStep
           \/ OutsideStep
           \/ UNCHANGED vars
  <2>1. HolderStays
    BY <1>1, <1>4, CancelHolds, ReconcileHolds, OutsideHolds, SameHolder DEF vars, rowVars
  <2>2. UNCHANGED exec
    BY <1>4 DEF CancelStep, ReconcileStep, OutsideStep, vars, workerVars
  <2>3. QED
    BY <1>1, <1>2, <2>1, <2>2, HolderStaysAlone
<1>5. CASE RecoveryStep
  <2>1. UNCHANGED exec
    BY <1>5 DEF RecoveryStep, workerVars
  <2>2. CASE HolderStays
    BY <1>1, <1>2, <2>1, <2>2, HolderStaysAlone
  <2>3. CASE RowRequeued
    <3>1. OneAlive'
      BY <1>2, <2>1 DEF OnlyOne, OneAlive, StaysAlive
    <3>2. \A l \in Claims : exec'[l].run # task'.run
      BY <1>1, <2>1, <2>3, RunTypes DEF RowRequeued, IInv, NoneAhead
    <3>3. QED
      BY <3>1, <3>2 DEF OnlyOne, AliveHolds
  <2>4. QED
    BY <1>1, <1>5, <2>2, <2>3, RecoveryHolds
<1>6. QED
  BY <1>3, <1>4, <1>5 DEF Next

(***************************************************************************)
(* The route attempt.                                                      *)
(***************************************************************************)
MarksAttempt(k) ==
  /\ \A r \in Runs :
       /\ Unsent(r)' => Unsent(r)
       /\ attempt'[r] # attempt[r] => Alive(k) /\ r = exec[k].run
  /\ exec'[k].pc \in {"bill", "mark", "dispatch"} =>
       \/ exec'[k].fresh /\ attempt'[exec'[k].run].state = "not_sent"
       \/ exec'[k].req # NoJob
  /\ exec'[k].pc = "submit" =>
       /\ exec'[k].run = exec[k].run
       /\ \/ At(k, "submit") /\ UNCHANGED attempt
          \/ Unsent(exec[k].run) /\ ~ Unsent(exec[k].run)'

LEMMA WorkerAttempts ==
  ASSUME TypeOK, Logical, NEW k \in Claims, Prepared(k), WorkerStep(k)
  PROVE  MarksAttempt(k)
<1>1. /\ exec \in [Claims -> Executions] /\ attempt \in [Runs -> Attempts]
      /\ exec[k] \in Executions /\ exec[k].run \in Runs
  BY DEF TypeOK, WorkerTypeOK, Executions
<1> DEFINE Early == {"bill", "mark", "dispatch", "submit"}
<1>2. ASSUME UNCHANGED attempt, exec'[k].pc \notin Early PROVE MarksAttempt(k)
  BY <1>2 DEF MarksAttempt, Unsent
<1>3. ASSUME Leave(k) PROVE exec'[k].pc \notin Early
  BY <1>1, <1>3 DEF Leave, Unclaimed
<1>4. ASSUME NEW pc, pc \notin Early, NEW outcome, Go(k, pc) \/ End(k, outcome, pc)
      PROVE  exec'[k].pc \notin Early
  BY <1>1, <1>4 DEF Go, End, Executions
<1>5. CASE ClaimNextTask(k) \/ Start(k)
  <2>1. CASE ClaimNextTask(k)
    <3>1. exec'[k].pc = "start"
      BY <1>1, <2>1 DEF ClaimNextTask, Unclaimed
    <3>2. QED
      BY <1>2, <2>1, <3>1 DEF ClaimNextTask
  <2>2. QED
    BY <1>2, <1>3, <1>4, <1>5, <2>1 DEF Start
<1>6. CASE BeginTaskRouteAttempt(k)
  <2>1. ASSUME UNCHANGED attempt, NEW outcome, End(k, outcome, "fail") PROVE MarksAttempt(k)
    BY <1>2, <1>4, <2>1
  <2>2. CASE NewRouteAttempt(k)
    <3>1. Unsent(exec[k].run) /\ Alive(k)
      BY <1>6, <2>2 DEF BeginTaskRouteAttempt, NewRouteAttempt, Unsent, Alive, At
    <3>2. CASE /\ attempt' = [attempt EXCEPT ![exec[k].run] =
                                [state |-> "not_sent", req |-> NoJob]]
               /\ exec' = [exec EXCEPT ![k].fresh = TRUE, ![k].pc = "bill"]
      BY <1>1, <3>1, <3>2 DEF MarksAttempt, Unsent, Executions
    <3>3. QED
      BY <2>1, <2>2, <3>2 DEF NewRouteAttempt
  <2>3. CASE ResumeRouteAttempt(k)
    <3>1. CASE KnownJob(k) # NoJob
      <4>1. /\ attempt' = [attempt EXCEPT ![exec[k].run].state = "accepted"]
            /\ exec' = [exec EXCEPT ![k].req = KnownJob(k), ![k].pc = "bill"]
            /\ Alive(k)
        BY <1>6, <2>3, <3>1 DEF BeginTaskRouteAttempt, ResumeRouteAttempt, Alive, At
      <4>2. exec'[k].pc = "bill" /\ exec'[k].req # NoJob
        BY <1>1, <3>1, <4>1 DEF Executions
      <4>3. \A r \in Runs : attempt'[r] = attempt[r]
                            \/ (r = exec[k].run /\ attempt'[r].state = "accepted")
        BY <1>1, <4>1 DEF Attempts
      <4>4. QED
        BY <4>1, <4>2, <4>3 DEF MarksAttempt, Unsent
    <3>2. QED
      BY <2>1, <2>3, <3>1 DEF ResumeRouteAttempt
  <2>4. QED
    BY <1>6, <2>1, <2>2, <2>3 DEF BeginTaskRouteAttempt, RejectedRouteAttempt
<1>7. CASE ReadBilling(k) \/ MarkBillingRunning(k)
  <2>1. UNCHANGED attempt /\ exec[k].pc \in {"bill", "mark"}
    BY <1>7 DEF ReadBilling, MarkBillingRunning, At
  <2>2. CASE End(k, "unprepared", "fail")
    BY <1>2, <1>4, <2>1, <2>2
  <2>3. CASE \E pc \in {"mark", "dispatch"} : Go(k, pc)
    BY <1>1, <2>1, <2>3 DEF Go, Executions, Prepared, MarksAttempt, Unsent
  <2>4. QED
    BY <1>7, <2>2, <2>3 DEF ReadBilling, MarkBillingRunning
<1>8. CASE MarkRouteAttemptDispatching(k)
  <2>1. At(k, "dispatch") /\ Alive(k)
    BY <1>8 DEF MarkRouteAttemptDispatching, At, Alive
  <2>2. /\ exec'[k].pc = IF exec[k].req = NoJob THEN "submit" ELSE "poll"
        /\ exec'[k].run = exec[k].run
    BY <1>1, <1>8 DEF MarkRouteAttemptDispatching, Executions
  <2>3. CASE exec[k].fresh
    <3>1. attempt' = [attempt EXCEPT ![exec[k].run] =
                        [state |-> "submission_unknown", req |-> NoJob]]
      BY <1>8, <2>3 DEF MarkRouteAttemptDispatching
    <3>2. ~ Unsent(exec[k].run)'
      BY <1>1, <2>2, <3>1 DEF Unsent
    <3>3. exec[k].req = NoJob => Unsent(exec[k].run)
      BY <2>1 DEF Prepared, At, Unsent
    <3>4. \A r \in Runs : r # exec[k].run => attempt'[r] = attempt[r]
      BY <1>1, <3>1
    <3>5. QED
      BY <2>1, <2>2, <3>2, <3>3, <3>4 DEF MarksAttempt, Unsent
  <2>4. CASE ~ exec[k].fresh
    <3>1. UNCHANGED attempt /\ exec[k].req # NoJob
      BY <1>8, <2>1, <2>4 DEF MarkRouteAttemptDispatching, Prepared, At
    <3>2. QED
      BY <1>2, <2>2, <3>1
  <2>5. QED
    BY <2>3, <2>4
<1>9. CASE RenewFails(k)
  BY <1>1, <1>9 DEF RenewFails, Executions, At, MarksAttempt, Unsent
<1>10. CASE Submit(k)
  <2>1. CASE SubmitAccepted(k)
    <3> DEFINE outcome == IF Async THEN "" ELSE "ok"
    <3>1. PICK j \in Jobs :
            exec' = [exec EXCEPT ![k].id = IF Async THEN j ELSE NoJob,
                                 ![k].outcome = outcome,
                                 ![k].pc = IF Async THEN "note" ELSE "log"]
      BY <2>1 DEF SubmitAccepted
    <3> HIDE DEF outcome
    <3>2. exec'[k].pc \notin Early
      BY <1>1, <3>1 DEF Executions
    <3>3. QED
      BY <1>2, <1>10, <3>2 DEF Submit
  <2>2. QED
    BY <1>2, <1>4, <1>10, <2>1 DEF Submit, SubmitLost, SubmitRejected, SubmitStopped
<1>11. CASE NoteBillingJob(k) \/ StampTask(k) \/ LogAPICall(k) \/ Poll(k)
  BY <1>2, <1>4, <1>11 DEF NoteBillingJob, StampTask, LogAPICall, Poll
<1>12. CASE FinishTaskRouteAttempt(k)
  <2>1. attempt' = [attempt EXCEPT ![exec[k].run] = FinishedAttempt(k)] /\ Alive(k)
    BY <1>12 DEF FinishTaskRouteAttempt, At, Alive
  <2>2. FinishedAttempt(k).state \notin {"none", "not_sent"}
    BY DEF FinishedAttempt
  <2>3. exec'[k].pc \notin Early
    <3>1. CASE Leave(k)
      BY <1>3, <3>1
    <3>2. CASE exec' = [exec EXCEPT ![k].req = RefreshedJob(k),
                          ![k].pc = IF exec[k].outcome = "ok" THEN "save" ELSE "fail"]
      BY <1>1, <3>2 DEF Executions
    <3>3. CASE exec' = [exec EXCEPT ![k].req = RefreshedJob(k), ![k].outcome = "unsaved",
                                    ![k].pc = "fail"]
      BY <1>1, <3>3 DEF Executions
    <3>4. QED
      BY <1>12, <3>1, <3>2, <3>3 DEF FinishTaskRouteAttempt
  <2>4. \A r \in Runs : attempt'[r] = attempt[r] \/ (r = exec[k].run /\ ~ Unsent(r)')
    BY <1>1, <2>1, <2>2 DEF Unsent
  <2>5. QED
    BY <2>1, <2>3, <2>4 DEF MarksAttempt, Unsent
<1>13. CASE Bill(k) \/ CrashWorker(k)
  <2>1. UNCHANGED attempt
    BY <1>13
    DEF Bill, EnsureAttemptLogged, HandleExecutionFailure, DeferRunningTask, DecideBilling,
        RefundTask, ReviewTask, ReadBeforeSave, SaveTaskCompletion, SaveRefused, SettleTask,
        CrashWorker
  <2>2. CASE HandleExecutionFailure(k)
    <3>1. PICK status : Conclude(k, status, "decide")
      BY <2>2 DEF HandleExecutionFailure
    <3>2. exec'[k].pc \notin Early
      BY <1>1, <1>3, <3>1 DEF Conclude, Executions
    <3>3. QED
      BY <1>2, <2>1, <3>2
  <2>3. CASE ReadBeforeSave(k)
    <3>1. exec'[k].pc \notin Early
      BY <1>1, <2>3 DEF ReadBeforeSave, Executions
    <3>2. QED
      BY <1>2, <2>1, <3>1
  <2>4. CASE SaveTaskCompletion(k)
    <3>1. exec'[k].pc \notin Early
      BY <1>1, <1>3, <2>4 DEF SaveTaskCompletion, Executions
    <3>2. QED
      BY <1>2, <2>1, <3>1
  <2>5. QED
    BY <1>2, <1>3, <1>4, <1>13, <2>1, <2>2, <2>3, <2>4
    DEF Bill, EnsureAttemptLogged, DeferRunningTask, DecideBilling, RefundTask, ReviewTask,
        SaveRefused, SettleTask, CrashWorker
<1>14. QED
  BY <1>5, <1>6, <1>7, <1>8, <1>9, <1>10, <1>11, <1>12, <1>13 DEF WorkerStep, Execute, Prepare,
     Call

(***************************************************************************)
(* Together: a request leaves only for a run that has no job.              *)
(***************************************************************************)
NewJob(r) == \E k \in Claims : Creates(k) /\ r = exec[k].run

LEMMA WhoHasJob ==
  ASSUME TypeOK, [Next]_vars, NEW r \in Runs, HasJob(r)'
  PROVE  HasJob(r) \/ NewJob(r)
<1>1. job \in [Jobs -> [run : Runs, state : JobStates]]
  BY DEF TypeOK, RowTypeOK
<1>2. PICK j \in Jobs : job'[j].state # "none" /\ job'[j].run = r
  BY DEF HasJob
<1>3. CASE JobsStay
  BY <1>2, <1>3 DEF JobsStay, HasJob
<1>4. ASSUME NEW k \in Claims, Creates(k) PROVE HasJob(r) \/ NewJob(r)
  <2>1. PICK i \in Jobs : job' = [job EXCEPT ![i] = [run |-> exec[k].run, state |-> NewJobState]]
    BY <1>4 DEF Creates, CreateJob
  <2>2. CASE j = i
    BY <1>1, <1>2, <1>4, <2>1, <2>2 DEF NewJob
  <2>3. CASE j # i
    BY <1>1, <1>2, <2>1, <2>3 DEF HasJob
  <2>4. QED
    BY <2>2, <2>3
<1>5. QED
  BY <1>3, <1>4, WhoMovesJobs DEF JobsMove

\* An execution that submits is the only one that moves.
LEMMA CreatorMoves ==
  ASSUME [Next]_vars, TypeOK, NEW m \in Claims, Creates(m)
  PROVE  WorkerStep(m)
<1>1. exec' # exec
  BY DEF Creates, At
<1>2. PICK k \in Claims : WorkerStep(k)
  BY <1>1, OwnSteps
<1>3. k = m
  BY <1>2, WorkerBillsOwn DEF BillsOwn, Creates, At
<1>4. QED
  BY <1>2, <1>3

LEMMA AttemptedStep ==
  ASSUME IInv, OnlyOne, Attempted, Logical, [Next]_vars
  PROVE  Attempted'
<1>1. TypeOK /\ \A k \in Claims : exec[k].run \in Runs
  BY DEF IInv, TypeOK, WorkerTypeOK, Executions
<1>2. CASE UNCHANGED <<exec, attempt>>
  <2>1. \A r \in Runs : HasJob(r)' => HasJob(r)
    BY <1>1, <1>2, WhoHasJob DEF NewJob, Creates, At
  <2>2. UnsentHasNoJob'
    BY <1>2, <2>1 DEF Attempted, UnsentHasNoJob, Unsent
  <2>3. \A k \in Claims : Prepared(k)'
    BY <1>1, <1>2, <2>1 DEF Attempted, Prepared, Unsent, At
  <2>4. QED
    BY <2>2, <2>3 DEF Attempted
<1>3. ASSUME NEW k \in Claims, WorkerStep(k) PROVE Attempted'
  <2>1. MarksAttempt(k)
    BY <1>1, <1>3, WorkerAttempts DEF Attempted
  <2>2. \A l \in Claims \ {k} : exec'[l] = exec[l]
    BY <1>1, <1>3, WorkerBillsOwn DEF BillsOwn
  <2>3. ASSUME NEW r \in Runs, HasJob(r)'
        PROVE  HasJob(r) \/ (r = exec[k].run /\ Creates(k))
    <3>1. ASSUME NEW m \in Claims, Creates(m) PROVE m = k
      BY <2>2, <3>1 DEF Creates, At
    <3>2. QED
      BY <1>1, <2>3, <3>1, WhoHasJob DEF NewJob
  <2>4. Creates(k) => ~ Unsent(exec[k].run)
    BY DEF Attempted, Prepared, Creates
  <2>5. UnsentHasNoJob'
    BY <2>1, <2>3, <2>4 DEF MarksAttempt, Attempted, UnsentHasNoJob
  <2>6. ASSUME NEW l \in Claims, l # k PROVE Prepared(l)'
    <3>1. exec'[l] = exec[l] /\ Prepared(l)
      BY <2>2, <2>6 DEF Attempted
    <3>2. CASE ~ Alive(l) \/ exec[l].pc \notin {"bill", "mark", "dispatch", "submit"}
      BY <3>1, <3>2 DEF Prepared, At, Alive
    <3>3. CASE Alive(l)
      <4>1. ~ (Alive(k) /\ exec[k].run = exec[l].run)
        BY <2>6, <3>3 DEF OnlyOne, OneAlive
      <4>2. attempt'[exec[l].run] = attempt[exec[l].run]
        BY <1>1, <2>1, <4>1 DEF MarksAttempt
      <4>3. HasJob(exec[l].run)' => HasJob(exec[l].run)
        BY <1>1, <2>3, <3>1, <4>1 DEF Creates, At, Alive
      <4>4. QED
        BY <3>1, <4>2, <4>3 DEF Prepared, At, Unsent
    <3>4. QED
      BY <3>2, <3>3
  <2>7. Prepared(k)'
    <3>1. ASSUME At(k, "submit")'
          PROVE  ~ Unsent(exec[k].run)' /\ ~ HasJob(exec[k].run)' /\ exec'[k].run = exec[k].run
      <4>1. exec'[k].run = exec[k].run /\ ~ Creates(k)
        BY <2>1, <3>1 DEF MarksAttempt, Creates, At
      <4>2. ~ HasJob(exec[k].run)
        BY <1>1, <2>1, <3>1 DEF MarksAttempt, At, Attempted, Prepared, UnsentHasNoJob
      <4>3. ~ Unsent(exec[k].run)'
        BY <2>1, <3>1 DEF MarksAttempt, At, Attempted, Prepared, Unsent
      <4>4. QED
        BY <1>1, <2>3, <4>1, <4>2, <4>3
    <3>2. QED
      BY <2>1, <3>1 DEF MarksAttempt, Prepared, At, Unsent, HasJob
  <2>8. QED
    BY <2>5, <2>6, <2>7 DEF Attempted
<1>4. CASE ~ \E k \in Claims : WorkerStep(k)
  <2>1. UNCHANGED <<exec, attempt>>
    BY <1>4
    DEF Next, CancelStep, ReconcileStep, RecoveryStep, OutsideStep, vars, workerVars
  <2>2. QED
    BY <1>2, <2>1
<1>5. QED
  BY <1>3, <1>4

LEMMA OneJobStep ==
  ASSUME IInv, Attempted, OneJobPerRun, [Next]_vars
  PROVE  OneJobPerRun'
<1>1. TypeOK /\ job \in [Jobs -> [run : Runs, state : JobStates]]
  BY DEF IInv, TypeOK, RowTypeOK
<1>2. CASE JobsStay
  <2>1. \A j \in Jobs : job'[j].state # "none" => job[j].state # "none" /\ job'[j].run = job[j].run
    BY <1>2 DEF JobsStay
  <2>2. QED
    BY <2>1 DEF OneJobPerRun
<1>3. ASSUME NEW k \in Claims, Creates(k) PROVE OneJobPerRun'
  <2>1. PICK i \in Jobs : job' = [job EXCEPT ![i] = [run |-> exec[k].run, state |-> NewJobState]]
    BY <1>3 DEF Creates, CreateJob
  <2>2. \A j \in Jobs : job[j].state # "none" => job[j].run # exec[k].run
    BY <1>3 DEF Creates, Attempted, Prepared, HasJob
  <2>3. \A j \in Jobs \ {i} : job'[j] = job[j]
    BY <1>1, <2>1
  <2>4. job'[i].run = exec[k].run
    BY <1>1, <2>1
  <2>5. QED
    BY <2>2, <2>3, <2>4 DEF OneJobPerRun
<1>4. QED
  BY <1>1, <1>2, <1>3, WhoMovesJobs DEF JobsMove

SubmitsOnce == OnlyOne /\ Attempted /\ OneJobPerRun

LEMMA SubmitsOnceInit == Init => SubmitsOnce
<1>1. SUFFICES ASSUME Init PROVE SubmitsOnce
  OBVIOUS
<1>2. exec = [k \in Claims |-> Unclaimed] /\ job = [j \in Jobs |-> [run |-> 1, state |-> "none"]]
  BY <1>1 DEF Init, WorkerInit, RowInit
<1>3. \A k \in Claims : exec[k].pc = "unclaimed"
  BY <1>2 DEF Unclaimed
<1>4. \A j \in Jobs : job[j].state = "none"
  BY <1>2
<1>5. OnlyOne
  BY <1>3 DEF OnlyOne, OneAlive, AliveHolds, Alive
<1>6. Attempted
  BY <1>3, <1>4 DEF Attempted, UnsentHasNoJob, Prepared, HasJob, At
<1>7. OneJobPerRun
  BY <1>4 DEF OneJobPerRun
<1>8. QED
  BY <1>5, <1>6, <1>7 DEF SubmitsOnce

\* Where no live worker loses its lease, a run of a logical model submits one
\* job, whatever dies, is cancelled, retried or handed back: the route attempt is
\* marked before the request leaves, and whoever finds it marked does not send.
THEOREM RunSubmitsOnce ==
  ASSUME Logical, NeverStalled
  PROVE  Spec => []OneJobPerRun
<1>1. IInv /\ SubmitsOnce /\ [Next]_vars => (IInv /\ SubmitsOnce)'
  BY IInvStep, OnlyOneStep, AttemptedStep, OneJobStep DEF SubmitsOnce
<1>2. SubmitsOnce => OneJobPerRun
  BY DEF SubmitsOnce
<1>3. QED
  BY <1>1, <1>2, IInvInit, SubmitsOnceInit, PTL DEF Spec


-----------------------------------------------------------------------------
(***************************************************************************)
(* The credit of a run is not given back while a job of it may be paid     *)
(* for, as long as the log of calls knows of the job.                      *)
(***************************************************************************)
LogIsSound == Features \cap {"video", "logfail", "pollslot"} = {}

UnderWay == task.status \in {"queued", "running"}

\* The log tells that the run has a job, or there is one execution to tell it.
Remembered == HasBillableCall \/ task.claims <= 1

Doubted == Remembered /\ HasJob(1)

\* Who cancels, reconciles or recovers does so for a run that has ended.
Closing ==
  /\ \A c \in Cancellers :
       cancels[c].pc \notin {"idle", "write", "done"} => task.status = "cancelled"
  /\ rec.pc # "idle" => task.status = "cancelled"
  /\ rec.pc \in {"idle", "query", "defer", "giveup", "review"}
  /\ recovery.pc # "idle" => task.status \in {"failed", "succeeded"} /\ recovery.job # NoJob

\* A task that waits in the queue has never been claimed.
Counted ==
  /\ \A c \in Cancellers :
       cancels[c].pc \in {"stop", "bill"} /\ cancels[c].status = "queued" => task.claims = 0
  /\ task.status = "queued" => task.claims = 0
  /\ task.claims = 0 => ~ HasJob(1)
  /\ \A k \in Claims : k > task.claims => k \notin stopped /\ ~ Alive(k)

OrderIsOpen == UnderWay => order[1] \in {"reserved", "running"} \/ 1 \in resolved

RejectedHasNoJob == attempt[1].state = "rejected_no_job" => ~ HasJob(1)

RefundedIsOver ==
  order[1] = "refunded" /\ 1 \notin resolved => ~ Doubted /\ \A k \in Claims : ~ Alive(k)

(***************************************************************************)
(* Steps beside the workers.                                               *)
(***************************************************************************)

\* What has ended stays so.
LEMMA EndsForGood ==
  ASSUME TypeOK, Pending, [Next]_vars, retry = "none"
  PROVE  /\ task.status = "cancelled" => task'.status = "cancelled"
         /\ task.status \in {"failed", "succeeded"} => task'.status \in {"failed", "succeeded"}
         /\ UnderWay' => UnderWay
         /\ task'.status = "queued" => task.status = "queued"
<1>1. task'.run = task.run /\ task.run \in Int
  BY RunStays, RunTypes
<1>2. task \in TaskRows
  BY DEF TypeOK, RowTypeOK
<1>3. ~ RowRequeued
  BY <1>1 DEF RowRequeued
<1>4. CASE RowKeeps
  BY <1>4 DEF RowKeeps, UnderWay
<1>5. CASE RowEnds \/ RowRestored \/ \E k \in Claims : Wins(k) \/ Claimed(k)
  BY <1>2, <1>5
  DEF RowEnds, RowRestored, Wins, Claimed, UnderWay, Terminal, TaskRows, TaskStatuses
<1>6. QED
  BY <1>3, <1>4, <1>5, StepKinds DEF StepKind

\* The columns and the tables that tell what the workers have done.
Columns ==
  /\ task'.claims = task.claims
  /\ task.job # NoJob => task'.job # NoJob

SameLog == calls'.create = calls.create /\ calls'.older = calls.older

OrderStays ==
  /\ order'[1] = order[1] \/ 1 \in resolved' \/ ~ UnderWay
  /\ order'[1] = "refunded" => order[1] = "refunded" \/ 1 \in resolved' \/ task.claims = 0

Aside == Columns /\ SameLog /\ OrderStays

LEMMA SameColumns == ASSUME UNCHANGED task PROVE Columns
BY DEF Columns

LEMMA StampsColumns ==
  ASSUME TypeOK, NEW j, UpdateTaskProviderState(j)
  PROVE  Columns
<1>1. task \in TaskRows
  BY DEF TypeOK, RowTypeOK
<1>2. QED
  BY <1>1 DEF UpdateTaskProviderState, TaskRows, Columns

LEMMA NamesSameLog ==
  ASSUME TypeOK, NEW j, NEW r, NEW slotFailed, Record(RowNaming(j), r, slotFailed)
  PROVE  SameLog
<1>1. calls \in CallLogs
  BY DEF TypeOK, RowTypeOK
<1>2. QED
  BY <1>1 DEF Record, RowNaming, CallLogs, SameLog

LEMMA SameOrder == ASSUME UNCHANGED order PROVE OrderStays
BY DEF OrderStays

\* A review refunds nothing.
LEMMA ReviewedOrder ==
  ASSUME TypeOK, NEW r \in Runs, ~ UnderWay, UNCHANGED order \/ MarkBillingUncertain(r)
  PROVE  OrderStays
<1>1. 1 \in Runs
  BY TaskRowAssumption DEF Runs
<1>2. QED
  BY <1>1 DEF MarkBillingUncertain, OrderStays, TypeOK, RowTypeOK

LEMMA CancelAside ==
  ASSUME TypeOK, LogIsSound, Closing, Counted, NEW c \in Cancellers, CancelStep(c)
  PROVE  Aside
<1>1. task \in TaskRows /\ 1 \in Runs /\ cancels[c].copy.run \in Runs
  BY TaskRowAssumption DEF TypeOK, RowTypeOK, Runs, CancelTypeOK, Copies
<1>2. CASE ReadTask(c) \/ CancelActiveTask(c, Stoppable) \/ CrashCanceller(c) \/ CannotCancel(c)
  BY <1>2, SameColumns, SameOrder
  DEF ReadTask, CancelActiveTask, CrashCanceller, CannotCancel, rowVars, Aside, SameLog
<1>3. CASE CancelTaskIfStatus(c)
  <2>1. Columns
    BY <1>1, <1>3 DEF CancelTaskIfStatus, TaskRows, Columns
  <2>2. QED
    BY <1>3, <2>1, SameOrder DEF CancelTaskIfStatus, Aside, SameLog
<1>4. CASE PushJob(c)
  BY <1>4, StampsColumns, SameOrder DEF PushJob, Aside, SameLog
<1>5. CASE ClaimTaskProviderCancellation(c)
  <2>1. task' = [task EXCEPT !.cancel = "requested", !.checks = 1] \/ UNCHANGED task
    BY <1>5 DEF ClaimTaskProviderCancellation
  <2>2. Columns
    BY <1>1, <2>1 DEF TaskRows, Columns
  <2>3. QED
    BY <1>5, <2>2, SameOrder DEF ClaimTaskProviderCancellation, Aside, SameLog
<1>6. CASE GiveUpCancel(c)
  <2>1. Columns
    BY <1>1, <1>6 DEF GiveUpCancel, UpdateTaskProviderCancellation, TaskRows, Columns
  <2>2. QED
    BY <1>6, <2>1, SameOrder DEF GiveUpCancel, Aside, SameLog
<1>7. CASE BillCancelled(c)
  <2>1. ~ UnderWay
    BY <1>7 DEF BillCancelled, CAt, Closing, UnderWay
  <2>2. CASE cancels[c].status = "queued"
    <3>1. task.claims = 0
      BY <1>7, <2>2 DEF BillCancelled, CAt, Counted
    <3>2. QED
      BY <1>7, <2>1, <3>1, SameColumns DEF BillCancelled, Aside, SameLog, OrderStays
  <2>3. CASE cancels[c].status # "queued"
    BY <1>1, <1>7, <2>1, <2>3, SameColumns, ReviewedOrder DEF BillCancelled, Aside, SameLog
  <2>4. QED
    BY <2>2, <2>3
<1>8. CASE ReviewCancelled(c)
  <2>1. ~ UnderWay
    BY <1>8 DEF ReviewCancelled, CAt, Closing, UnderWay
  <2>2. QED
    BY <1>1, <1>8, <2>1, SameColumns, ReviewedOrder DEF ReviewCancelled, Aside, SameLog
<1>9. CASE SendCancel(c)
  BY <1>9 DEF SendCancel, LogIsSound, Enabled
<1>10. QED
  BY <1>2, <1>3, <1>4, <1>5, <1>6, <1>7, <1>8, <1>9
  DEF CancelStep, Request

LEMMA ReconcileAside ==
  ASSUME TypeOK, LogIsSound, Closing, ReconcileStep
  PROVE  Aside
<1>1. task \in TaskRows /\ rec.copy.run \in Runs
  BY DEF TypeOK, RowTypeOK, CancelTypeOK, Copies
<1>2. CASE ClaimNextTaskProviderCancellation
  <2>1. PICK checks : task' = [task EXCEPT !.owner = Reconciler, !.leased = TRUE,
                                           !.checks = checks]
    BY <1>2 DEF ClaimNextTaskProviderCancellation
  <2>2. Columns
    BY <1>1, <2>1 DEF TaskRows, Columns
  <2>3. QED
    BY <1>2, <2>2, SameOrder DEF ClaimNextTaskProviderCancellation, Aside, SameLog
<1>3. CASE CloseReconciled \/ DeferReconciled \/ GiveUpReconciled
  <2>1. Columns
    BY <1>1, <1>3
    DEF CloseReconciled, DeferReconciled, GiveUpReconciled, UpdateTaskProviderCancellation,
        TaskRows, Columns
  <2>2. QED
    BY <1>3, <2>1, SameOrder
    DEF CloseReconciled, DeferReconciled, GiveUpReconciled, Aside, SameLog
<1>4. CASE SkipQuery \/ CrashReconciler
  BY <1>4, SameColumns, SameOrder DEF SkipQuery, CrashReconciler, rowVars, Aside, SameLog
<1>5. CASE ReviewReconciled
  <2>1. ~ UnderWay
    BY <1>5 DEF ReviewReconciled, RAt, Closing, UnderWay
  <2>2. QED
    BY <1>1, <1>5, <2>1, SameColumns, ReviewedOrder DEF ReviewReconciled, Aside, SameLog
<1>6. ~ QueryProviderCancellation /\ ~ RefundReconciled /\ ~ SettleReconciled
  BY DEF QueryProviderCancellation, RefundReconciled, SettleReconciled, LogIsSound, Enabled,
    Closing, RAt
<1>7. QED
  BY <1>2, <1>3, <1>4, <1>5, <1>6 DEF ReconcileStep, Reconcile

LEMMA RecoveryAside ==
  ASSUME TypeOK, LogIsSound, Closing, retry = "none", RecoveryStep
  PROVE  Aside
<1>1. /\ task \in TaskRows /\ calls \in CallLogs /\ order \in [Runs -> OrderStatuses]
      /\ recovery.run \in Runs /\ 1 \in Runs
  BY TaskRowAssumption DEF TypeOK, RowTypeOK, RecoveryTypeOK, Runs
<1>2. CASE CheckRetryEligibility \/ ReadFailedTask \/ CrashRecovery
  BY <1>2, SameColumns, SameOrder
  DEF CheckRetryEligibility, ReadFailedTask, CrashRecovery, rowVars, Aside, SameLog
<1>3. CASE PushRecoveredJob
  BY <1>3, StampsColumns, SameOrder DEF PushRecoveredJob, Aside, SameLog
<1>4. CASE ClaimFailedTaskProviderRecovery \/ ReleaseTaskProviderRecovery
  <2>1. task' = [task EXCEPT !.owner = Recovery, !.leased = TRUE] \/ UNCHANGED task
        \/ task' = [task EXCEPT !.owner = NoOwner, !.leased = FALSE]
    BY <1>4 DEF ClaimFailedTaskProviderRecovery, ReleaseTaskProviderRecovery
  <2>2. Columns
    BY <1>1, <2>1 DEF TaskRows, Columns
  <2>3. QED
    BY <1>4, <2>2, SameOrder
    DEF ClaimFailedTaskProviderRecovery, ReleaseTaskProviderRecovery, Aside, SameLog
<1>5. CASE QueryFailedTask
  <2>1. ~ Enabled("video") /\ ~ Enabled("logfail")
    BY DEF LogIsSound, Enabled
  <2>2. UNCHANGED order
    BY <1>5, <2>1 DEF QueryFailedTask, Record
  <2>3. \E succeeded \in BOOLEAN : calls' = PollRow(recovery.job, succeeded)
    BY <1>5, <2>1 DEF QueryFailedTask, Record
  <2>4. SameLog
    BY <1>1, <2>1, <2>3 DEF PollRow, RowNaming, CallLogs, SameLog
  <2>5. QED
    BY <1>5, <2>2, <2>4, StampsColumns, SameOrder DEF QueryFailedTask, RecordJob, Aside
<1>6. CASE SaveRecovered
  <2>1. task' = [task EXCEPT !.status = "succeeded", !.job = recovery.job] \/ UNCHANGED task
    BY <1>6 DEF SaveRecovered
  <2>2. recovery.job # NoJob
    BY <1>6 DEF SaveRecovered, VAt, Closing
  <2>3. Columns
    <3>1. CASE task' = [task EXCEPT !.status = "succeeded", !.job = recovery.job]
      <4>1. task'.claims = task.claims /\ task'.job = recovery.job
        BY <1>1, <3>1 DEF TaskRows
      <4>2. QED
        BY <2>2, <4>1 DEF Columns
    <3>2. QED
      BY <2>1, <3>1, SameColumns
  <2>4. QED
    BY <1>6, <2>3, SameOrder DEF SaveRecovered, Aside, SameLog
<1>7. CASE BillRecovered \/ ReviewRecovered
  <2>1. ~ UnderWay
    BY <1>7 DEF BillRecovered, ReviewRecovered, VAt, Closing, UnderWay
  <2>2. CASE ReviewRecovered
    BY <1>1, <2>1, <2>2, SameColumns, ReviewedOrder DEF ReviewRecovered, Aside, SameLog
  <2>3. CASE BillRecovered
    <3>1. order' = [order EXCEPT ![recovery.run] = "settled"] \/ UNCHANGED order
      BY <2>3 DEF BillRecovered
    <3>2. order'[1] = "refunded" => order[1] = "refunded"
      BY <1>1, <3>1
    <3>3. QED
      BY <2>1, <2>3, <3>2, SameColumns DEF BillRecovered, Aside, SameLog, OrderStays
  <2>4. QED
    BY <1>7, <2>2, <2>3
<1>8. ASSUME NEW r \in Runs, ResolveBillingOrder(r) PROVE Aside
  <2>1. r = 1 => 1 \in resolved'
    BY <1>8 DEF ResolveBillingOrder
  <2>2. r # 1 => order'[1] = order[1]
    BY <1>1, <1>8 DEF ResolveBillingOrder, SettleBilling, RefundBilling
  <2>3. QED
    BY <1>8, <2>1, <2>2, SameColumns DEF ResolveBillingOrder, Aside, SameLog, OrderStays
<1>9. ~ RetryTaskWithBilling
  BY DEF RetryTaskWithBilling
<1>10. QED
  BY <1>2, <1>3, <1>4, <1>5, <1>6, <1>7, <1>8, <1>9 DEF RecoveryStep, Retry, Recover

LEMMA OutsideAside ==
  ASSUME TypeOK, OutsideStep
  PROVE  Aside
<1>1. task \in TaskRows
  BY DEF TypeOK, RowTypeOK
<1>2. CASE LeaseExpires
  <2>1. Columns
    BY <1>1, <1>2 DEF LeaseExpires, TaskRows, Columns
  <2>2. QED
    BY <1>2, <2>1, SameOrder DEF LeaseExpires, Aside, SameLog
<1>3. CASE \E j \in Jobs : JobEnds(j)
  BY <1>3, SameColumns, SameOrder DEF JobEnds, Aside, SameLog
<1>4. QED
  BY <1>2, <1>3 DEF OutsideStep

\* Only a context of a run that has ended is cancelled.
LEMMA AsideStops ==
  ASSUME TypeOK, Closing, NEW k \in Claims, k \in stopped', k \notin stopped,
         (\E c \in Cancellers : CancelStep(c)) \/ ReconcileStep \/ RecoveryStep \/ OutsideStep
           \/ UNCHANGED vars
  PROVE  ~ UnderWay /\ Alive(k)
<1>1. PICK c \in Cancellers : CancelActiveTask(c, Stoppable)
  BY DEF CancelStep, Request, ReadTask, CancelTaskIfStatus, BillCancelled, PushJob,
    ClaimTaskProviderCancellation, CannotCancel, SendCancel, GiveUpCancel, ReviewCancelled,
    CrashCanceller, ReconcileStep, Reconcile, ClaimNextTaskProviderCancellation, SkipQuery,
    QueryProviderCancellation, RefundReconciled, SettleReconciled, CloseReconciled,
    DeferReconciled, GiveUpReconciled, ReviewReconciled, CrashReconciler, RecoveryStep, Retry,
    Recover, CheckRetryEligibility, RetryTaskWithBilling, ReadFailedTask, PushRecoveredJob,
    ClaimFailedTaskProviderRecovery, QueryFailedTask, SaveRecovered, BillRecovered,
    ReviewRecovered, ReleaseTaskProviderRecovery, CrashRecovery, ResolveBillingOrder,
    OutsideStep, LeaseExpires, JobEnds, vars, rowVars
<1>2. ~ UnderWay
  BY <1>1 DEF CancelActiveTask, CAt, Closing, UnderWay
<1>3. k \in Stoppable
  BY <1>1 DEF CancelActiveTask
<1>4. QED
  BY <1>2, <1>3 DEF Stoppable, Alive

(***************************************************************************)
(* Who closes.                                                             *)
(***************************************************************************)
LEMMA CancelCloses ==
  ASSUME TypeOK, NEW c \in Cancellers, CancelStep(c)
  PROVE  /\ \A d \in Cancellers \ {c} : cancels'[d] = cancels[d]
         /\ cancels'[c].pc \notin {"idle", "write", "done"} =>
              \/ cancels[c].pc \notin {"idle", "write", "done"}
              \/ task'.status = "cancelled"
         /\ cancels'[c].pc \in {"stop", "bill"} =>
              /\ cancels'[c].status = cancels[c].status
              /\ cancels[c].pc = "stop" \/ task.status = cancels[c].status
<1>1. cancels \in [Cancellers -> [pc : CancelPCs, status : TaskStatuses, copy : Copies]]
      /\ task \in TaskRows
  BY DEF TypeOK, CancelTypeOK, RowTypeOK
<1>2. ASSUME CLeave(c)
      PROVE  cancels'[c].pc = "done" /\ \A d \in Cancellers \ {c} : cancels'[d] = cancels[d]
  BY <1>1, <1>2 DEF CLeave
<1>3. ASSUME NEW pc, CGo(c, pc)
      PROVE  /\ cancels'[c].pc = pc /\ cancels'[c].status = cancels[c].status
             /\ \A d \in Cancellers \ {c} : cancels'[d] = cancels[d]
  BY <1>1, <1>3 DEF CGo
<1>4. CASE ReadTask(c)
  <2>1. cancels'[c].pc = "write" /\ \A d \in Cancellers \ {c} : cancels'[d] = cancels[d]
    BY <1>1, <1>4 DEF ReadTask
  <2>2. QED
    BY <2>1
<1>5. CASE CancelTaskIfStatus(c)
  <2>1. CASE task.status = cancels[c].status
    <3>1. task'.status = "cancelled" /\ CGo(c, "stop")
      BY <1>1, <1>5, <2>1 DEF CancelTaskIfStatus, TaskRows
    <3>2. QED
      BY <1>3, <2>1, <3>1
  <2>2. QED
    BY <1>2, <1>5, <2>1 DEF CancelTaskIfStatus
<1>6. CASE CancelActiveTask(c, Stoppable)
  <2>1. cancels[c].pc = "stop" /\ \E pc : CGo(c, pc)
    BY <1>6 DEF CancelActiveTask, CAt
  <2>2. QED
    BY <1>3, <2>1
<1>7. CASE CLeave(c)
  BY <1>2, <1>7
<1>8. CASE /\ cancels[c].pc \in {"push", "claim", "send", "giveup"}
           /\ \E pc \in {"claim", "send", "giveup", "review"} : CGo(c, pc)
  BY <1>3, <1>8
<1>9. QED
  BY <1>4, <1>5, <1>6, <1>7, <1>8
  DEF CancelStep, Request, BillCancelled, PushJob, ClaimTaskProviderCancellation, CannotCancel,
      SendCancel, GiveUpCancel, ReviewCancelled, CrashCanceller, CAt

LEMMA ReconcilerCloses ==
  ASSUME TypeOK, LogIsSound, Closing, ReconcileStep
  PROVE  /\ rec'.pc # "idle" => task.status = "cancelled"
         /\ rec'.pc \in {"idle", "query", "defer", "giveup", "review"}
<1>1. rec \in RecRows /\ rec.pc # "idle" => task.status = "cancelled"
  BY RecType DEF Closing
<1>2. CASE ClaimNextTaskProviderCancellation
  <2>1. rec'.pc = "query" /\ task.status = "cancelled"
    BY <1>2 DEF ClaimNextTaskProviderCancellation, CancellationIsOpen
  <2>2. QED
    BY <2>1
<1>3. CASE RLeave
  BY <1>3, EmptyRecords DEF RLeave
<1>4. CASE \E pc \in {"defer", "giveup", "review"} : RGo(pc) /\ rec.pc # "idle"
  BY <1>1, <1>4 DEF RGo, RecRows, Closing
<1>5. ~ QueryProviderCancellation /\ ~ RefundReconciled /\ ~ SettleReconciled
  BY DEF QueryProviderCancellation, RefundReconciled, SettleReconciled, LogIsSound, Enabled,
    Closing, RAt
<1>6. QED
  BY <1>2, <1>3, <1>4, <1>5
  DEF ReconcileStep, Reconcile, SkipQuery, CloseReconciled, DeferReconciled, GiveUpReconciled,
      ReviewReconciled, CrashReconciler, RAt

LEMMA RecoveryCloses ==
  ASSUME TypeOK, RecoveryStep, recovery'.pc # "idle"
  PROVE  \/ recovery.pc # "idle" /\ recovery'.job = recovery.job
         \/ task.status = "failed" /\ recovery'.job # NoJob
<1>1. recovery \in Recoveries
  BY RecoveryType
<1>2. CASE ReadFailedTask
  <2>1. recovery'.job = HydratedJob(task) /\ HydratedJob(task) # NoJob /\ task.status = "failed"
    BY <1>2 DEF ReadFailedTask
  <2>2. QED
    BY <2>1
<1>3. CASE VLeave
  BY <1>3, EmptyRecords DEF VLeave
<1>4. ASSUME NEW pc, VGo(pc), recovery.pc # "idle"
      PROVE  recovery.pc # "idle" /\ recovery'.job = recovery.job
  BY <1>1, <1>4 DEF VGo, Recoveries
<1>5. CASE UNCHANGED recovery
  BY <1>5
<1>6. CASE PushRecoveredJob \/ ClaimFailedTaskProviderRecovery
  BY <1>3, <1>4, <1>6 DEF PushRecoveredJob, ClaimFailedTaskProviderRecovery, VAt
<1>7. CASE QueryFailedTask \/ SaveRecovered
  BY <1>4, <1>7 DEF QueryFailedTask, SaveRecovered, VAt
<1>8. CASE BillRecovered \/ ReviewRecovered
  BY <1>4, <1>8 DEF BillRecovered, ReviewRecovered, VAt
<1>9. QED
  BY <1>2, <1>3, <1>5, <1>6, <1>7, <1>8
  DEF RecoveryStep, Retry, Recover, CheckRetryEligibility, RetryTaskWithBilling,
      ReleaseTaskProviderRecovery, CrashRecovery, ResolveBillingOrder
(***************************************************************************)
(* What an execution knows of its job.                                     *)
(***************************************************************************)
Silent(outcome) == outcome = ""

Calling == {"start", "route", "bill", "mark", "dispatch", "submit", "note", "stamp", "poll"}

Cut(outcome) == outcome \in {"stopped", "stoppedWaiting"}

Timely(k) ==
  /\ exec[k].pc \in Calling => Silent(exec[k].outcome)
  /\ exec[k].pc = "finish" => ~ Silent(exec[k].outcome)
  /\ exec[k].pc \in {"fail", "conclude", "decide"} =>
       ~ Silent(exec[k].outcome) /\ exec[k].outcome # "ok"
  /\ exec[k].pc \in {"save", "store"} => exec[k].outcome = "ok"

\* An execution bills what has ended, and is stopped when its run has ended.
Late(k) ==
  /\ exec[k].pc \in {"decide", "refund", "review", "settle"} => ~ UnderWay
  /\ k \in stopped \/ Cut(exec[k].outcome) => ~ UnderWay
  /\ exec[k].pc = "decide" => ~ Cut(exec[k].outcome)

Sending(k) ==
  /\ exec[k].pc = "mark" /\ UnderWay => order[1] # "running" \/ 1 \in resolved
  /\ exec[k].pc = "submit" => exec[k].id = NoJob /\ attempt[1].state = "submission_unknown"
  /\ exec[k].pc \in {"note", "stamp", "poll"} => exec[k].id # NoJob
  /\ exec[k].pc = "log" /\ Silent(exec[k].outcome) => exec[k].id # NoJob
  /\ exec[k].pc \in {"log", "poll", "finish"} /\ exec[k].id # NoJob =>
       task.job # NoJob \/ exec[k].req # NoJob

\* Where the outcome says that there is no job, there is none.
Denied(k) ==
  /\ /\ exec[k].pc \in {"log", "finish"} /\ exec[k].id = NoJob
     /\ exec[k].outcome \in {"refused", "slot", "stoppedWaiting"}
     => ~ HasJob(1)
  /\ (UnderWay \/ exec[k].pc = "decide") /\ exec[k].outcome \in {"unprepared", "slot"} =>
       ~ HasJob(1) \/ 1 \in resolved

\* The first execution logs its job, or ends in doubt.
Told(k) ==
  task.claims <= 1 /\ HasJob(1) =>
    \/ HasBillableCall
    \/ exec[k].pc \in {"note", "stamp"}
    \/ exec[k].pc = "log" /\ (Silent(exec[k].outcome) \/ exec[k].outcome = "ok")
    \/ exec[k].outcome = "timeout" \/ Cut(exec[k].outcome)

Refunding(k) == exec[k].pc = "refund" => ~ Doubted \/ 1 \in resolved

Sound(k) == Timely(k) /\ Late(k) /\ Sending(k) /\ Denied(k) /\ Told(k) /\ Refunding(k)

Settled == Closing /\ Counted /\ OrderIsOpen /\ RejectedHasNoJob /\ RefundedIsOver

RInv ==
  /\ BInv /\ OneRun /\ OnlyOne /\ Attempted
  /\ Settled
  /\ \A k \in Claims : Alive(k) => Sound(k)

LEMMA Spoken ==
  \A outcome \in {"ok", "refused", "failed", "timeout", "slot", "stopped", "stoppedWaiting",
                   "unsaved", "unprepared", "unclear"} : ~ Silent(outcome)
BY DEF Silent

LEMMA OnlyRun ==
  ASSUME BInv, OneRun
  PROVE  /\ \A k \in Claims : exec[k].run = 1 /\ exec[k].bill = 1
         /\ 1 \in Runs
<1>1. ASSUME NEW r \in Runs, r <= task.run PROVE r = 1
  BY <1>1, TaskRowAssumption DEF OneRun, Runs
<1>2. ASSUME NEW k \in Claims
      PROVE  exec[k].run \in Runs /\ exec[k].bill \in Runs
  BY DEF BInv, IInv, TypeOK, WorkerTypeOK, Executions
<1>3. 1 \in Runs
  BY TaskRowAssumption DEF Runs
<1>4. QED
  BY <1>1, <1>2, <1>3 DEF BInv, IInv, NoneAhead, Behind

LEMMA JobsOfTheRun ==
  ASSUME TypeOK, [Next]_vars, HasJob(1)', 1 \in Runs
  PROVE  HasJob(1) \/ \E k \in Claims : Creates(k)
BY WhoHasJob DEF NewJob

(***************************************************************************)
(* Nobody but the workers moves an execution.                              *)
(***************************************************************************)
AsideStep ==
  \/ \E c \in Cancellers : CancelStep(c)
  \/ ReconcileStep \/ RecoveryStep \/ OutsideStep
  \/ UNCHANGED vars

LEMMA AsideIsNext == AsideStep => [Next]_vars /\ UNCHANGED <<exec, attempt>>
BY DEF AsideStep, Next, CancelStep, ReconcileStep, RecoveryStep, OutsideStep, vars, workerVars

LEMMA StepsAside ==
  ASSUME TypeOK, LogIsSound, Closing, Counted, retry = "none", AsideStep
  PROVE  Aside
<1>1. CASE UNCHANGED vars
  BY <1>1, SameColumns, SameOrder DEF vars, rowVars, Aside, SameLog
<1>2. QED
  BY <1>1, CancelAside, ReconcileAside, RecoveryAside, OutsideAside DEF AsideStep

LEMMA AsideCloses ==
  ASSUME BInv, OneRun, LogIsSound, Closing, AsideStep
  PROVE  Closing'
<1>1. TypeOK /\ Pending /\ retry = "none"
  BY DEF BInv, IInv, OneRun
<1>2. /\ task.status = "cancelled" => task'.status = "cancelled"
      /\ task.status \in {"failed", "succeeded"} => task'.status \in {"failed", "succeeded"}
  BY <1>1, AsideIsNext, EndsForGood
<1>3. ASSUME NEW c \in Cancellers, cancels'[c].pc \notin {"idle", "write", "done"}
      PROVE  task'.status = "cancelled"
  <2>1. CASE UNCHANGED cancels
    BY <1>2, <1>3, <2>1 DEF Closing
  <2>2. ASSUME NEW d \in Cancellers, CancelStep(d) PROVE task'.status = "cancelled"
    <3>1. CASE d = c
      <4>1. cancels[c].pc \notin {"idle", "write", "done"} \/ task'.status = "cancelled"
        BY <1>1, <1>3, <2>2, <3>1, CancelCloses
      <4>2. QED
        BY <1>2, <4>1 DEF Closing
    <3>2. CASE d # c
      <4>1. cancels'[c] = cancels[c]
        BY <1>1, <2>2, <3>2, CancelCloses
      <4>2. QED
        BY <1>2, <1>3, <4>1 DEF Closing
    <3>3. QED
      BY <3>1, <3>2
  <2>3. CASE ReconcileStep \/ RecoveryStep \/ OutsideStep \/ UNCHANGED vars
    <3>1. UNCHANGED cancels
      BY <2>3
      DEF ReconcileStep, Reconcile, ClaimNextTaskProviderCancellation, SkipQuery,
          QueryProviderCancellation, RefundReconciled, SettleReconciled, CloseReconciled,
          DeferReconciled, GiveUpReconciled, ReviewReconciled, CrashReconciler, RecoveryStep,
          OutsideStep, vars, cancelVars
    <3>2. QED
      BY <2>1, <3>1
  <2>4. QED
    BY <2>2, <2>3 DEF AsideStep
<1>4. /\ rec'.pc # "idle" => task'.status = "cancelled"
      /\ rec'.pc \in {"idle", "query", "defer", "giveup", "review"}
  <2>1. CASE UNCHANGED rec
    BY <1>2, <2>1 DEF Closing
  <2>2. CASE ReconcileStep
    BY <1>1, <1>2, <2>2, ReconcilerCloses
  <2>3. ASSUME NEW c \in Cancellers, CancelStep(c) PROVE UNCHANGED rec
    BY <2>3
    DEF CancelStep, Request, ReadTask, CancelTaskIfStatus, CancelActiveTask, BillCancelled,
        PushJob, ClaimTaskProviderCancellation, CannotCancel, SendCancel, GiveUpCancel,
        ReviewCancelled, CrashCanceller
  <2>4. QED
    BY <2>1, <2>2, <2>3 DEF AsideStep, RecoveryStep, OutsideStep, vars, cancelVars
<1>5. recovery'.pc # "idle" => task'.status \in {"failed", "succeeded"} /\ recovery'.job # NoJob
  <2>1. CASE UNCHANGED recovery
    BY <1>2, <2>1 DEF Closing
  <2>2. CASE RecoveryStep
    BY <1>1, <1>2, <2>2, RecoveryCloses DEF Closing
  <2>3. QED
    BY <2>1, <2>2 DEF AsideStep, CancelStep, ReconcileStep, OutsideStep, vars, recoveryVars
<1>6. QED
  BY <1>3, <1>4, <1>5 DEF Closing

LEMMA AsideKeeps ==
  ASSUME RInv, LogIsSound, AsideStep
  PROVE  Settled' /\ \A k \in Claims : Alive(k)' => Sound(k)'
<1>1. TypeOK /\ Pending /\ retry = "none" /\ BInv /\ OneRun /\ 1 \in Runs
  BY OnlyRun DEF RInv, BInv, IInv, OneRun
<1>2. [Next]_vars /\ UNCHANGED <<exec, attempt>>
  BY AsideIsNext
<1>3. Columns /\ SameLog /\ OrderStays
  BY <1>1, StepsAside DEF RInv, Settled, Aside
<1>4. HasJob(1)' => HasJob(1)
  BY <1>1, <1>2, JobsOfTheRun DEF Creates, At
<1>5. /\ UnderWay' => UnderWay
      /\ task'.status = "queued" => task.status = "queued"
  BY <1>1, <1>2, EndsForGood
<1>6. HasBillableCall' <=> HasBillableCall
  BY <1>3 DEF SameLog, HasBillableCall
<1>7. resolved \subseteq resolved'
  BY <1>1, <1>2, WhoMovesOrders DEF OrdersMove
<1>8. \A k \in Claims : k \in stopped' => k \in stopped \/ (~ UnderWay /\ Alive(k))
  BY <1>1, AsideStops DEF RInv, Settled, AsideStep
<1>9. task'.claims = task.claims /\ (task.job # NoJob => task'.job # NoJob)
  BY <1>3 DEF Columns
<1>10. Doubted' => Doubted
  BY <1>4, <1>6, <1>9 DEF Doubted, Remembered
<1>11. \A k \in Claims : Alive(k)' <=> Alive(k)
  BY <1>2 DEF Alive
<1>12. Closing'
  BY <1>1, AsideCloses DEF RInv, Settled
<1>13. Counted'
  <2>1. ASSUME NEW c \in Cancellers, cancels'[c].pc \in {"stop", "bill"},
               cancels'[c].status = "queued"
        PROVE  task.claims = 0
    <3>1. CASE cancels'[c] = cancels[c]
      BY <2>1, <3>1 DEF RInv, Settled, Counted
    <3>2. CASE CancelStep(c)
      <4>1. /\ cancels'[c].status = cancels[c].status
            /\ cancels[c].pc = "stop" \/ task.status = cancels[c].status
        BY <1>1, <2>1, <3>2, CancelCloses
      <4>2. QED
        BY <2>1, <4>1 DEF RInv, Settled, Counted
    <3>3. ASSUME NEW d \in Cancellers \ {c}, CancelStep(d) PROVE cancels'[c] = cancels[c]
      BY <1>1, <3>3, CancelCloses
    <3>4. CASE ReconcileStep \/ RecoveryStep \/ OutsideStep \/ UNCHANGED vars
      <4>1. UNCHANGED cancels
        BY <3>4
        DEF ReconcileStep, Reconcile, ClaimNextTaskProviderCancellation, SkipQuery,
            QueryProviderCancellation, RefundReconciled, SettleReconciled, CloseReconciled,
            DeferReconciled, GiveUpReconciled, ReviewReconciled, CrashReconciler, RecoveryStep,
            OutsideStep, vars, cancelVars
      <4>2. QED
        BY <3>1, <4>1
    <3>5. QED
      BY <3>1, <3>2, <3>3, <3>4 DEF AsideStep
  <2>2. \A k \in Claims : k > task.claims => k \notin stopped' /\ ~ Alive(k)
    BY <1>8 DEF RInv, Settled, Counted
  <2>3. QED
    BY <1>4, <1>5, <1>9, <1>11, <2>1, <2>2 DEF RInv, Settled, Counted
<1>14. OrderIsOpen'
  BY <1>3, <1>5, <1>7 DEF RInv, Settled, OrderIsOpen, OrderStays
<1>15. RejectedHasNoJob'
  BY <1>2, <1>4 DEF RInv, Settled, RejectedHasNoJob
<1>16. RefundedIsOver'
  <2>1. SUFFICES ASSUME order'[1] = "refunded", 1 \notin resolved'
                 PROVE  ~ Doubted /\ \A k \in Claims : ~ Alive(k)
    BY <1>10, <1>11 DEF RefundedIsOver
  <2>2. CASE order[1] = "refunded"
    BY <1>7, <2>1, <2>2 DEF RInv, Settled, RefundedIsOver
  <2>3. CASE task.claims = 0
    <3>1. ~ HasJob(1) /\ \A k \in Claims : k > 0 => ~ Alive(k)
      BY <2>3 DEF RInv, Settled, Counted
    <3>2. \A k \in Claims : k > 0
      BY TaskRowAssumption DEF Claims
    <3>3. QED
      BY <3>1, <3>2 DEF Doubted
  <2>4. QED
    BY <1>3, <2>1, <2>2, <2>3 DEF OrderStays
<1>17. ASSUME NEW k \in Claims, Alive(k)' PROVE Sound(k)'
  <2>1. Sound(k) /\ exec'[k] = exec[k] /\ attempt'[1] = attempt[1]
    BY <1>2, <1>11, <1>17 DEF RInv
  <2>2. Timely(k)'
    BY <2>1 DEF Sound, Timely
  <2>3. Late(k)'
    BY <1>5, <1>8, <2>1 DEF Sound, Late
  <2>4. Sending(k)'
    BY <1>3, <1>5, <1>7, <1>9, <2>1 DEF Sound, Sending, OrderStays
  <2>5. Denied(k)'
    BY <1>4, <1>5, <1>7, <2>1 DEF Sound, Denied
  <2>6. Told(k)'
    BY <1>4, <1>6, <1>9, <2>1 DEF Sound, Told
  <2>7. Refunding(k)'
    BY <1>7, <1>10, <2>1 DEF Sound, Refunding
  <2>8. QED
    BY <2>2, <2>3, <2>4, <2>5, <2>6, <2>7 DEF Sound
<1>18. QED
  BY <1>12, <1>13, <1>14, <1>15, <1>16, <1>17 DEF Settled
(***************************************************************************)
(* A worker moves alone.                                                   *)
(***************************************************************************)
LEMMA Alone ==
  ASSUME RInv, NEW k \in Claims, WorkerStep(k), NEW l \in Claims, l # k
  PROVE  ~ Alive(l)'
<1>1. TypeOK /\ exec[k].run = 1 /\ exec[l].run = 1 /\ task.run = 1
  BY OnlyRun DEF RInv, BInv, IInv, OneRun
<1>2. exec'[l] = exec[l]
  BY <1>1, WorkerBillsOwn DEF BillsOwn
<1>3. CASE ClaimNextTask(k)
  <2>1. task.status = "queued" \/ (task.status = "running" /\ ~ task.leased)
    BY <1>3 DEF ClaimNextTask
  <2>2. ~ Alive(l)
    BY <1>1, <2>1 DEF RInv, OnlyOne, AliveHolds
  <2>3. QED
    BY <1>2, <2>2 DEF Alive
<1>4. CASE ~ ClaimNextTask(k)
  <2>1. Alive(k)
    BY <1>4
    DEF WorkerStep, Execute, Prepare, Call, Bill, Start, BeginTaskRouteAttempt, ReadBilling,
        MarkBillingRunning, MarkRouteAttemptDispatching, Submit, NoteBillingJob, StampTask,
        LogAPICall, Poll, RenewFails, FinishTaskRouteAttempt, EnsureAttemptLogged,
        HandleExecutionFailure, DeferRunningTask, DecideBilling, RefundTask, ReviewTask,
        ReadBeforeSave, SaveTaskCompletion, SaveRefused, SettleTask, CrashWorker, At, Alive
  <2>2. ~ Alive(l)
    BY <1>1, <2>1 DEF RInv, OnlyOne, OneAlive
  <2>3. QED
    BY <1>2, <2>2 DEF Alive
<1>5. QED
  BY <1>3, <1>4

\* Nothing that is shared has moved.
Quiet ==
  /\ UnderWay' <=> UnderWay
  /\ HasJob(1)' <=> HasJob(1)
  /\ HasBillableCall' <=> HasBillableCall
  /\ task'.claims = task.claims /\ task'.job = task.job
  /\ order'[1] = order[1] /\ resolved' = resolved /\ stopped' = stopped

LEMMA RowsQuiet == ASSUME UNCHANGED rowVars PROVE Quiet
BY DEF rowVars, Quiet, UnderWay, HasJob, HasBillableCall

LEMMA Left ==
  ASSUME TypeOK, NEW k \in Claims, Leave(k)
  PROVE  ~ Alive(k)'
<1>1. exec \in [Claims -> Executions]
  BY DEF TypeOK, WorkerTypeOK
<1>2. exec'[k].pc = "done"
  BY <1>1 DEF Leave, Unclaimed
<1>3. QED
  BY <1>2 DEF Alive

LEMMA Went ==
  ASSUME TypeOK, NEW k \in Claims, NEW pc, Go(k, pc)
  PROVE  /\ exec'[k].pc = pc /\ exec'[k].outcome = exec[k].outcome
         /\ exec'[k].id = exec[k].id /\ exec'[k].req = exec[k].req
<1>1. exec \in [Claims -> Executions]
  BY DEF TypeOK, WorkerTypeOK
<1>2. QED
  BY <1>1 DEF Go, Executions

LEMMA Ended ==
  ASSUME TypeOK, NEW k \in Claims, NEW pc, NEW outcome, End(k, outcome, pc)
  PROVE  /\ exec'[k].pc = pc /\ exec'[k].outcome = outcome
         /\ exec'[k].id = exec[k].id /\ exec'[k].req = exec[k].req
<1>1. exec \in [Claims -> Executions]
  BY DEF TypeOK, WorkerTypeOK
<1>2. QED
  BY <1>1 DEF End, Executions

\* What an execution does before its call concerns it alone, or fails where no
\* request has been sent.
LEMMA ClaimSound ==
  ASSUME RInv, NEW k \in Claims, ClaimNextTask(k)
  PROVE  Sound(k)'
<1>1. exec \in [Claims -> Executions] /\ task \in TaskRows
  BY DEF RInv, BInv, IInv, TypeOK, WorkerTypeOK, RowTypeOK
<1>2. /\ exec'[k].pc = "start" /\ exec'[k].outcome = Unclaimed.outcome
      /\ task'.claims = task.claims + 1 /\ k = task.claims + 1
  BY <1>1 DEF ClaimNextTask, Unclaimed, TaskRows
<1>3. Silent(Unclaimed.outcome)
  BY DEF Unclaimed, Silent
<1>4. ~ Cut(exec'[k].outcome) /\ exec'[k].outcome \notin {"unprepared", "slot", "timeout", "ok"}
  BY <1>2, <1>3, Spoken DEF Cut
<1>5. k \notin stopped'
  BY <1>1, <1>2 DEF ClaimNextTask, RInv, Settled, Counted, TaskRows
<1>6. task'.claims <= 1 => ~ HasJob(1)'
  <2>1. HasJob(1)' <=> HasJob(1)
    BY DEF ClaimNextTask, HasJob
  <2>2. task.claims \in 0 .. MaxClaims
    BY <1>1 DEF TaskRows
  <2>3. task'.claims <= 1 => task.claims = 0
    BY <1>2, <2>2, TaskRowAssumption
  <2>4. QED
    BY <2>1, <2>3 DEF RInv, Settled, Counted
<1>7. Timely(k)'
  BY <1>2, <1>3 DEF Timely
<1>8. Late(k)'
  BY <1>2, <1>4, <1>5 DEF Late
<1>9. Sending(k)' /\ Refunding(k)'
  BY <1>2 DEF Sending, Refunding
<1>10. Denied(k)'
  BY <1>2, <1>4 DEF Denied
<1>11. Told(k)'
  BY <1>6 DEF Told
<1>12. QED
  BY <1>7, <1>8, <1>9, <1>10, <1>11 DEF Sound

\* A step to another statement before the call.
LEMMA Proceeds ==
  ASSUME NEW k \in Claims, Sound(k), exec[k].pc \in {"start", "route", "bill", "mark"},
         UnderWay' <=> UnderWay, HasJob(1)' <=> HasJob(1), HasBillableCall' <=> HasBillableCall,
         task'.claims = task.claims, resolved' = resolved, stopped' = stopped,
         exec'[k].outcome = exec[k].outcome,
         \/ exec'[k].pc \in {"route", "bill", "dispatch"}
         \/ exec'[k].pc = "mark" /\ order'[1] # "running"
  PROVE  Sound(k)'
<1>1. /\ Silent(exec[k].outcome)
      /\ exec[k].outcome \notin {"ok", "timeout", "unprepared", "slot", "stopped",
                                 "stoppedWaiting"}
  BY Spoken DEF Sound, Timely, Calling
<1>2. Timely(k)'
  BY <1>1 DEF Timely
<1>3. Late(k)'
  BY DEF Sound, Late
<1>4. Sending(k)' /\ Refunding(k)'
  BY DEF Sending, Refunding
<1>5. Denied(k)'
  BY <1>1 DEF Denied
<1>6. Told(k)'
  BY <1>1 DEF Sound, Told, Cut
<1>7. QED
  BY <1>2, <1>3, <1>4, <1>5, <1>6 DEF Sound

\* A preparation that fails.
LEMMA FailsToPrepare ==
  ASSUME TypeOK, NEW k \in Claims, Sound(k), exec[k].pc \in {"route", "mark"}, Quiet,
         NEW outcome \in {"unprepared", "unclear"}, End(k, outcome, "fail"),
         outcome = "unprepared" /\ UnderWay => ~ HasJob(1) \/ 1 \in resolved
  PROVE  Sound(k)'
<1>1. /\ exec'[k].pc = "fail" /\ exec'[k].outcome = outcome
      /\ ~ Silent(outcome) /\ Silent(exec[k].outcome)
  BY Ended, Spoken DEF Sound, Timely, Calling
<1>2. exec[k].outcome \notin {"ok", "timeout", "stopped", "stoppedWaiting"}
  BY <1>1, Spoken
<1>3. Timely(k)'
  BY <1>1 DEF Timely, Calling
<1>4. Late(k)'
  BY <1>1 DEF Sound, Late, Cut, Quiet
<1>5. Sending(k)' /\ Refunding(k)'
  BY <1>1 DEF Sending, Refunding
<1>6. Denied(k)'
  BY <1>1 DEF Denied, Quiet
<1>7. Told(k)'
  BY <1>1, <1>2 DEF Sound, Told, Cut, Quiet
<1>8. QED
  BY <1>3, <1>4, <1>5, <1>6, <1>7 DEF Sound
LEMMA PrepareSound ==
  ASSUME RInv, Logical, NEW k \in Claims, Prepare(k), Alive(k)'
  PROVE  Sound(k)'
<1>1. /\ TypeOK /\ 1 \in Runs /\ exec[k].run = 1
      /\ exec \in [Claims -> Executions] /\ attempt \in [Runs -> Attempts]
      /\ order \in [Runs -> OrderStatuses]
  BY OnlyRun DEF RInv, BInv, IInv, TypeOK, WorkerTypeOK, RowTypeOK
<1>2. Alive(k) /\ Sound(k)
  BY DEF Prepare, Start, BeginTaskRouteAttempt, ReadBilling, MarkBillingRunning,
    MarkRouteAttemptDispatching, At, Alive, RInv
<1>3. CASE Start(k)
  <2>1. Go(k, "route") /\ exec[k].pc = "start" /\ Quiet
    BY <1>1, <1>3, Left, RowsQuiet DEF Start, At
  <2>2. exec'[k].pc = "route" /\ exec'[k].outcome = exec[k].outcome
    BY <1>1, <2>1, Went
  <2>3. QED
    BY <1>2, <2>1, <2>2, Proceeds DEF Quiet
<1>4. CASE BeginTaskRouteAttempt(k)
  <2>1. exec[k].pc = "route"
    BY <1>4 DEF BeginTaskRouteAttempt, At
  <2>2. CASE UNCHANGED task
    <3>1. Quiet
      BY <1>4, <2>2 DEF BeginTaskRouteAttempt, Quiet, UnderWay, HasJob, HasBillableCall
    <3>2. CASE \/ exec' = [exec EXCEPT ![k].fresh = TRUE, ![k].pc = "bill"]
               \/ exec' = [exec EXCEPT ![k].req = KnownJob(k), ![k].pc = "bill"]
      <4>1. exec'[k].pc = "bill" /\ exec'[k].outcome = exec[k].outcome
        BY <1>1, <3>2 DEF Executions
      <4>2. QED
        BY <1>2, <2>1, <3>1, <4>1, Proceeds DEF Quiet
    <3>3. CASE End(k, "unclear", "fail")
      BY <1>1, <1>2, <2>1, <3>1, <3>3, FailsToPrepare
    <3>4. CASE /\ End(k, "unprepared", "fail")
               /\ attempt[1].state \in {"none", "not_sent", "rejected_no_job"}
      <4>1. ~ HasJob(1)
        BY <1>1, <3>4
        DEF RInv, Settled, RejectedHasNoJob, Attempted, UnsentHasNoJob, Unsent
      <4>2. QED
        BY <1>1, <1>2, <2>1, <3>1, <3>4, <4>1, FailsToPrepare
    <3>5. QED
      BY <1>1, <1>4, <3>2, <3>3, <3>4
      DEF BeginTaskRouteAttempt, NewRouteAttempt, ResumeRouteAttempt, RejectedRouteAttempt
  <2>3. CASE ~ UNCHANGED task
    <3>1. /\ exec' = [exec EXCEPT ![k].req = KnownJob(k), ![k].pc = "bill"]
          /\ UpdateTaskProviderState(KnownJob(k))
      BY <1>4, <2>3
      DEF BeginTaskRouteAttempt, NewRouteAttempt, ResumeRouteAttempt, RejectedRouteAttempt
    <3>2. exec'[k].pc = "bill" /\ exec'[k].outcome = exec[k].outcome
      BY <1>1, <3>1 DEF Executions
    <3>3. task'.status = task.status /\ task'.claims = task.claims
      BY <1>1, <3>1 DEF UpdateTaskProviderState, TypeOK, RowTypeOK, TaskRows
    <3>4. /\ UnderWay' <=> UnderWay
          /\ HasJob(1)' <=> HasJob(1)
          /\ HasBillableCall' <=> HasBillableCall
          /\ resolved' = resolved /\ stopped' = stopped
      BY <1>4, <3>3 DEF BeginTaskRouteAttempt, UnderWay, HasJob, HasBillableCall
    <3>5. QED
      BY <1>2, <2>1, <3>2, <3>3, <3>4, Proceeds
  <2>4. QED
    BY <2>2, <2>3
<1>5. CASE ReadBilling(k)
  <2>1. exec[k].pc = "bill" /\ Quiet
    BY <1>5, RowsQuiet DEF ReadBilling, At
  <2>2. PICK pc : /\ Go(k, pc)
                  /\ pc = "dispatch" \/ (pc = "mark" /\ order[1] # "running")
    BY <1>1, <1>5 DEF ReadBilling
  <2>3. exec'[k].pc = pc /\ exec'[k].outcome = exec[k].outcome
    BY <1>1, <2>2, Went
  <2>4. QED
    BY <1>2, <2>1, <2>2, <2>3, Proceeds DEF Quiet
<1>6. CASE MarkBillingRunning(k)
  <2>1. exec[k].pc = "mark"
    BY <1>6 DEF MarkBillingRunning, At
  <2>2. CASE order[1] = "reserved"
    <3>1. Go(k, "dispatch")
      BY <1>1, <1>6, <2>2 DEF MarkBillingRunning
    <3>2. exec'[k].pc = "dispatch" /\ exec'[k].outcome = exec[k].outcome
      BY <1>1, <3>1, Went
    <3>3. /\ UnderWay' <=> UnderWay
          /\ HasJob(1)' <=> HasJob(1)
          /\ HasBillableCall' <=> HasBillableCall
          /\ task' = task /\ resolved' = resolved /\ stopped' = stopped
      BY <1>6 DEF MarkBillingRunning, UnderWay, HasJob, HasBillableCall
    <3>4. QED
      BY <1>2, <2>1, <3>2, <3>3, Proceeds
  <2>3. CASE order[1] # "reserved"
    <3>1. End(k, "unprepared", "fail") /\ Quiet
      BY <1>1, <1>6, <2>3 DEF MarkBillingRunning, Quiet, UnderWay, HasJob, HasBillableCall
    <3>2. UnderWay => 1 \in resolved
      BY <1>2, <2>1, <2>3 DEF RInv, Settled, OrderIsOpen, Sound, Sending
    <3>3. QED
      BY <1>1, <1>2, <2>1, <3>1, <3>2, FailsToPrepare
  <2>4. QED
    BY <2>2, <2>3
<1>7. CASE MarkRouteAttemptDispatching(k)
  <2>1. /\ exec'[k].pc = IF exec[k].req = NoJob THEN "submit" ELSE "poll"
        /\ exec'[k].id = exec[k].req /\ exec'[k].req = exec[k].req
        /\ exec'[k].outcome = exec[k].outcome /\ exec[k].pc = "dispatch"
    BY <1>1, <1>7 DEF MarkRouteAttemptDispatching, Executions, At
  <2>2. Quiet
    BY <1>7, RowsQuiet DEF MarkRouteAttemptDispatching
  <2>3. exec[k].req = NoJob => attempt'[1].state = "submission_unknown"
    <3>1. exec[k].req = NoJob => exec[k].fresh
      BY <2>1 DEF RInv, Attempted, Prepared
    <3>2. QED
      BY <1>1, <1>7, <3>1 DEF MarkRouteAttemptDispatching
  <2>4. /\ Silent(exec[k].outcome)
        /\ exec[k].outcome \notin {"ok", "timeout", "unprepared", "slot", "stopped",
                                   "stoppedWaiting"}
    BY <1>2, <2>1, Spoken DEF Sound, Timely, Calling
  <2>5. Timely(k)'
    BY <2>1, <2>4 DEF Timely
  <2>6. Late(k)'
    BY <1>2, <2>1, <2>2 DEF Sound, Late, Quiet
  <2>7. Sending(k)' /\ Refunding(k)'
    BY <2>1, <2>3 DEF Sending, Refunding
  <2>8. Denied(k)'
    BY <2>1, <2>4 DEF Denied
  <2>9. Told(k)'
    BY <1>2, <2>1, <2>2, <2>4 DEF Sound, Told, Cut, Quiet
  <2>10. QED
    BY <2>5, <2>6, <2>7, <2>8, <2>9 DEF Sound
<1>8. QED
  BY <1>3, <1>4, <1>5, <1>6, <1>7 DEF Prepare

(***************************************************************************)
(* The call.                                                               *)
(***************************************************************************)
LEMMA SubmitSound ==
  ASSUME RInv, NEW k \in Claims, Submit(k)
  PROVE  Sound(k)'
<1>1. /\ TypeOK /\ 1 \in Runs /\ exec[k].run = 1
      /\ exec \in [Claims -> Executions]
  BY OnlyRun DEF RInv, BInv, IInv, TypeOK, WorkerTypeOK
<1>2. Sound(k) /\ exec[k].pc = "submit" /\ Silent(exec[k].outcome) /\ exec[k].id = NoJob
  BY DEF Submit, At, Alive, RInv, Sound, Timely, Sending, Calling
<1>3. ~ HasJob(1)
  BY <1>1, <1>2 DEF RInv, Attempted, Prepared, At
<1>4. /\ UnderWay' <=> UnderWay
      /\ UNCHANGED <<task, order, resolved, attempt, stopped>>
  BY DEF Submit, UnderWay
<1>5. CASE SubmitAccepted(k)
  <2> DEFINE outcome == IF Async THEN "" ELSE "ok"
  <2>1. PICK j \in Jobs :
          exec' = [exec EXCEPT ![k].id = IF Async THEN j ELSE NoJob,
                               ![k].outcome = outcome,
                               ![k].pc = IF Async THEN "note" ELSE "log"]
    BY <1>5 DEF SubmitAccepted
  <2>2. IF Async THEN Silent(outcome) ELSE outcome = "ok"
    BY DEF Silent
  <2> HIDE DEF outcome
  <2>3. exec'[k].outcome = outcome
    BY <1>1, <2>1 DEF Executions
  <2>4. IF Async THEN exec'[k].pc = "note" /\ exec'[k].id # NoJob
                 ELSE exec'[k].pc = "log" /\ exec'[k].id = NoJob
    <3>1. j # NoJob
      BY TaskRowAssumption DEF Jobs, NoJob
    <3>2. QED
      BY <1>1, <2>1, <3>1 DEF Executions
  <2>5. /\ outcome \notin {"unprepared", "slot", "refused", "stopped", "stoppedWaiting"}
        /\ ~ Async => ~ Silent(outcome)
    BY <2>2, Spoken
  <2>6. Timely(k)'
    BY <2>2, <2>3, <2>4 DEF Timely, Calling
  <2>7. Late(k)'
    BY <1>2, <1>4, <2>3, <2>4, <2>5 DEF Sound, Late, Cut
  <2>8. Sending(k)' /\ Refunding(k)'
    BY <2>3, <2>4, <2>5 DEF Sending, Refunding
  <2>9. Denied(k)'
    BY <2>3, <2>5 DEF Denied
  <2>10. Told(k)'
    BY <2>2, <2>3, <2>4 DEF Told
  <2>11. QED
    BY <2>6, <2>7, <2>8, <2>9, <2>10 DEF Sound
<1>6. CASE ~ SubmitAccepted(k)
  <2>1. PICK outcome \in {"timeout", "refused", "failed", "slot", "stopped", "stoppedWaiting"} :
          /\ End(k, outcome, "log")
          /\ outcome \in {"timeout", "stopped"} \/ UNCHANGED job
          /\ Cut(outcome) => k \in stopped
    BY <1>6 DEF Submit, SubmitLost, SubmitRejected, SubmitStopped, Cut
  <2>2. exec'[k].pc = "log" /\ exec'[k].outcome = outcome /\ exec'[k].id = NoJob
    BY <1>1, <1>2, <2>1, Ended
  <2>3. ~ Silent(outcome)
    BY <2>1, Spoken
  <2>4. outcome \in {"timeout", "stopped"} \/ ~ HasJob(1)'
    BY <1>3, <2>1 DEF HasJob
  <2>5. Timely(k)'
    BY <2>2 DEF Timely, Calling
  <2>6. Late(k)'
    BY <1>2, <1>4, <2>1, <2>2 DEF Sound, Late
  <2>7. Sending(k)' /\ Refunding(k)'
    BY <2>2, <2>3 DEF Sending, Refunding
  <2>8. Denied(k)'
    BY <2>1, <2>2, <2>4 DEF Denied
  <2>9. Told(k)'
    BY <2>2, <2>4 DEF Told, Cut
  <2>10. QED
    BY <2>5, <2>6, <2>7, <2>8, <2>9 DEF Sound
<1>7. QED
  BY <1>5, <1>6
\* Three writes take the job onto the order, onto the task and into the log.
LEMMA NoteSound ==
  ASSUME RInv, NEW k \in Claims, NoteBillingJob(k)
  PROVE  Sound(k)'
<1>1. TypeOK /\ Sound(k) /\ exec[k].pc = "note"
  BY DEF RInv, BInv, IInv, NoteBillingJob, At, Alive
<1>2. Quiet
  BY <1>1 DEF NoteBillingJob, Quiet, UnderWay, HasJob, HasBillableCall
<1>3. /\ exec'[k].pc = "stamp" /\ exec'[k].outcome = exec[k].outcome
      /\ exec'[k].id = exec[k].id /\ exec'[k].req = exec[k].req
  BY <1>1, Went DEF NoteBillingJob
<1>4. Timely(k)'
  BY <1>1, <1>3 DEF Sound, Timely, Calling
<1>5. Late(k)'
  BY <1>1, <1>2, <1>3 DEF Sound, Late, Quiet
<1>6. Sending(k)' /\ Refunding(k)' /\ Told(k)'
  BY <1>1, <1>3 DEF Sound, Sending, Refunding, Told
<1>7. Denied(k)'
  BY <1>1, <1>2, <1>3 DEF Sound, Denied, Quiet
<1>8. QED
  BY <1>4, <1>5, <1>6, <1>7 DEF Sound

LEMMA StampSound ==
  ASSUME RInv, NEW k \in Claims, StampTask(k)
  PROVE  Sound(k)'
<1>1. TypeOK /\ Sound(k) /\ exec[k].pc = "stamp" /\ task \in TaskRows
  BY DEF RInv, BInv, IInv, StampTask, At, Alive, TypeOK, RowTypeOK
<1>2. exec[k].id # NoJob /\ Silent(exec[k].outcome)
  BY <1>1 DEF Sound, Sending, Timely, Calling
<1>3. task'.status = task.status /\ task'.job # NoJob
  BY <1>1, <1>2 DEF StampTask, UpdateTaskProviderState, TaskRows
<1>4. /\ UnderWay' <=> UnderWay
      /\ HasJob(1)' <=> HasJob(1)
      /\ resolved' = resolved /\ stopped' = stopped
  BY <1>3 DEF StampTask, UnderWay, HasJob
<1>5. /\ exec'[k].pc = "log" /\ exec'[k].outcome = exec[k].outcome
      /\ exec'[k].id = exec[k].id
  BY <1>1, Went DEF StampTask
<1>6. Timely(k)'
  BY <1>5 DEF Timely, Calling
<1>7. Late(k)'
  BY <1>1, <1>4, <1>5 DEF Sound, Late
<1>8. Sending(k)' /\ Refunding(k)' /\ Told(k)'
  BY <1>2, <1>3, <1>5 DEF Sending, Refunding, Told
<1>9. Denied(k)'
  BY <1>1, <1>2, <1>4, <1>5 DEF Sound, Denied
<1>10. QED
  BY <1>6, <1>7, <1>8, <1>9 DEF Sound

LEMMA LogSound ==
  ASSUME RInv, LogIsSound, NEW k \in Claims, LogAPICall(k)
  PROVE  Sound(k)'
<1>1. TypeOK /\ Sound(k) /\ exec[k].pc = "log" /\ calls \in CallLogs
  BY DEF RInv, BInv, IInv, LogAPICall, At, Alive, TypeOK, RowTypeOK
<1>2. UNCHANGED <<task, order, job, resolved, stopped>>
  BY DEF LogAPICall, Record, LogIsSound, Enabled
<1>3. /\ UnderWay' <=> UnderWay
      /\ HasJob(1)' <=> HasJob(1)
  BY <1>2 DEF UnderWay, HasJob
<1>4. exec[k].outcome \in {"", "ok"} <=> Silent(exec[k].outcome) \/ exec[k].outcome = "ok"
  BY DEF Silent
<1>5. PICK state : /\ calls' = CreateRow(exec[k].id, state)
                   /\ exec[k].outcome \in {"", "ok"} => state = "succeeded"
  BY DEF LogAPICall, Record, LogIsSound, Enabled
<1>6. /\ HasBillableCall => HasBillableCall'
      /\ Silent(exec[k].outcome) \/ exec[k].outcome = "ok" => HasBillableCall'
  <2>1. calls'.create = state /\ calls'.older = HasBillableCall
    BY <1>1, <1>5 DEF CreateRow, RowNaming, CallLogs
  <2>2. HasBillableCall' <=> state = "succeeded" \/ HasBillableCall
    BY <2>1 DEF HasBillableCall
  <2>3. QED
    BY <1>4, <1>5, <2>2
<1>7. PICK pc : /\ Go(k, pc)
                /\ IF Silent(exec[k].outcome) THEN pc = "poll" ELSE pc = "finish"
  BY DEF LogAPICall, Silent
<1>8. /\ exec'[k].pc = pc /\ exec'[k].outcome = exec[k].outcome
      /\ exec'[k].id = exec[k].id /\ exec'[k].req = exec[k].req
  BY <1>1, <1>7, Went
<1>9. Timely(k)'
  BY <1>7, <1>8 DEF Timely, Calling
<1>10. Late(k)'
  BY <1>1, <1>2, <1>3, <1>7, <1>8 DEF Sound, Late
<1>11. Sending(k)' /\ Refunding(k)'
  BY <1>1, <1>2, <1>7, <1>8 DEF Sound, Sending, Refunding
<1>12. Denied(k)'
  BY <1>1, <1>2, <1>3, <1>7, <1>8 DEF Sound, Denied
<1>13. Told(k)'
  BY <1>1, <1>2, <1>3, <1>6, <1>7, <1>8 DEF Sound, Told
<1>14. QED
  BY <1>9, <1>10, <1>11, <1>12, <1>13 DEF Sound

LEMMA PollSound ==
  ASSUME RInv, LogIsSound, NEW k \in Claims, Poll(k)
  PROVE  Sound(k)'
<1>1. TypeOK /\ Sound(k) /\ exec[k].pc = "poll" /\ calls \in CallLogs /\ task \in TaskRows
  BY DEF RInv, BInv, IInv, Poll, At, Alive, TypeOK, RowTypeOK
<1>2. /\ exec[k].id # NoJob
      /\ exec[k].outcome \notin {"timeout", "stopped", "stoppedWaiting"}
  BY <1>1, Spoken DEF Sound, Sending, Timely, Calling
<1>3. task'.status = task.status /\ task'.job # NoJob /\ task'.claims = task.claims
  BY <1>1, <1>2 DEF Poll, RecordJob, UpdateTaskProviderState, TaskRows
<1>4. /\ UnderWay' <=> UnderWay
      /\ HasJob(1)' <=> HasJob(1)
      /\ resolved' = resolved /\ stopped' = stopped
  BY <1>3 DEF Poll, UnderWay, HasJob
<1>5. HasBillableCall' <=> HasBillableCall
  <2>1. \E succeeded : calls' = PollRow(exec[k].id, succeeded)
    BY DEF Poll, Record, LogIsSound, Enabled
  <2>2. calls'.create = calls.create /\ calls'.older = calls.older
    BY <1>1, <2>1 DEF PollRow, RowNaming, CallLogs, LogIsSound, Enabled
  <2>3. QED
    BY <2>2 DEF HasBillableCall
<1>6. PICK answer \in PollAnswers(k) : End(k, answer, IF answer = "" THEN "poll" ELSE "finish")
  BY DEF Poll
<1>7. /\ Silent(answer) \/ answer \in {"ok", "timeout", "failed", "stopped", "stoppedWaiting"}
      /\ Cut(answer) => k \in stopped
  BY <1>6 DEF PollAnswers, LogIsSound, Enabled, Silent, Cut
<1>8. /\ exec'[k].pc = IF answer = "" THEN "poll" ELSE "finish"
      /\ exec'[k].outcome = answer /\ exec'[k].id = exec[k].id
  BY <1>1, <1>6, Ended
<1>9. exec'[k].pc = IF Silent(answer) THEN "poll" ELSE "finish"
  BY <1>8 DEF Silent
<1>10. exec'[k].outcome = answer /\ exec'[k].id # NoJob
  BY <1>2, <1>8
<1>11. answer \notin {"unprepared", "slot"}
  BY <1>7, Spoken
<1>12. Timely(k)'
  BY <1>9, <1>10 DEF Timely, Calling
<1>13. Late(k)'
  BY <1>1, <1>4, <1>7, <1>9, <1>10 DEF Sound, Late
<1>14. Sending(k)' /\ Refunding(k)'
  BY <1>3, <1>9, <1>10 DEF Sending, Refunding
<1>15. Denied(k)'
  BY <1>10, <1>11 DEF Denied
<1>16. Told(k)'
  BY <1>1, <1>2, <1>3, <1>4, <1>5 DEF Sound, Told, Cut
<1>17. QED
  BY <1>12, <1>13, <1>14, <1>15, <1>16 DEF Sound

\* A live execution loses its lease to nobody, so that its run has ended.
LEMMA RenewSound ==
  ASSUME RInv, NEW k \in Claims, RenewFails(k)
  PROVE  Sound(k)'
<1>1. /\ TypeOK /\ Sound(k) /\ Alive(k) /\ exec[k].run = task.run
      /\ exec \in [Claims -> Executions]
  BY OnlyRun DEF RInv, BInv, IInv, OneRun, RenewFails, Alive, TypeOK, WorkerTypeOK
<1>2. ~ UnderWay
  BY <1>1 DEF RInv, OnlyOne, AliveHolds, RenewFails, Fenced, Fence, UnderWay
<1>3. /\ exec'[k].pc = exec[k].pc /\ exec'[k].outcome = exec[k].outcome
      /\ exec'[k].id = exec[k].id /\ exec'[k].req = exec[k].req
      /\ exec[k].pc \in {"submit", "poll", "finish"}
  BY <1>1 DEF RenewFails, Executions
<1>4. /\ UnderWay' <=> UnderWay
      /\ HasJob(1)' <=> HasJob(1)
      /\ HasBillableCall' <=> HasBillableCall
      /\ UNCHANGED <<task, order, resolved, attempt>>
  BY DEF RenewFails, UnderWay, HasJob, HasBillableCall
<1>5. Timely(k)'
  BY <1>1, <1>3 DEF Sound, Timely
<1>6. Late(k)'
  BY <1>2, <1>3, <1>4 DEF Late
<1>7. Sending(k)' /\ Refunding(k)'
  BY <1>1, <1>3, <1>4 DEF Sound, Sending, Refunding
<1>8. Denied(k)'
  BY <1>1, <1>3, <1>4 DEF Sound, Denied
<1>9. Told(k)'
  BY <1>1, <1>3, <1>4 DEF Sound, Told
<1>10. QED
  BY <1>5, <1>6, <1>7, <1>8, <1>9 DEF Sound

LEMMA FinishSound ==
  ASSUME RInv, NEW k \in Claims, FinishTaskRouteAttempt(k), Alive(k)'
  PROVE  Sound(k)'
<1>1. /\ TypeOK /\ Sound(k) /\ exec[k].pc = "finish" /\ ~ Leave(k)
      /\ exec \in [Claims -> Executions]
  BY Left
  DEF RInv, BInv, IInv, FinishTaskRouteAttempt, At, Alive, TypeOK, WorkerTypeOK
<1>2. /\ UnderWay' <=> UnderWay
      /\ HasJob(1)' <=> HasJob(1)
      /\ HasBillableCall' <=> HasBillableCall
      /\ UNCHANGED <<task, order, resolved>> /\ k \notin stopped'
  BY DEF FinishTaskRouteAttempt, Forget, UnderWay, HasJob, HasBillableCall
<1>3. \/ /\ exec'[k].pc = IF exec[k].outcome = "ok" THEN "save" ELSE "fail"
         /\ exec'[k].outcome = exec[k].outcome
      \/ /\ exec'[k].pc = "fail" /\ exec[k].outcome = "ok"
         /\ exec'[k].outcome = "unsaved"
  BY <1>1 DEF FinishTaskRouteAttempt, Executions
<1>4. ~ Silent(exec[k].outcome) /\ ~ Silent("unsaved")
  BY <1>1, Spoken DEF Sound, Timely
<1>5. Timely(k)'
  BY <1>3, <1>4 DEF Timely, Calling
<1>6. Late(k)'
  BY <1>1, <1>2, <1>3 DEF Sound, Late, Cut
<1>7. Sending(k)' /\ Refunding(k)'
  BY <1>3 DEF Sending, Refunding
<1>8. Denied(k)'
  BY <1>1, <1>2, <1>3 DEF Sound, Denied
<1>9. Told(k)'
  BY <1>1, <1>2, <1>3 DEF Sound, Told, Cut
<1>10. QED
  BY <1>5, <1>6, <1>7, <1>8, <1>9 DEF Sound
(***************************************************************************)
(* The terminal state and the money.                                       *)
(***************************************************************************)

\* After its call an execution goes on with the outcome it has, or with one that
\* says less of the job.
LEMMA GoesOn ==
  ASSUME NEW k \in Claims, Sound(k),
         exec[k].pc \in {"fail", "conclude", "decide", "save", "store", "settle"},
         exec'[k].pc \in {"fail", "conclude", "decide", "save", "store", "settle", "review"},
         \/ exec'[k].outcome = exec[k].outcome
         \/ exec[k].outcome = "ok" /\ exec'[k].outcome = "unsaved",
         UnderWay' => UnderWay, HasJob(1)' <=> HasJob(1), HasBillableCall' <=> HasBillableCall,
         task'.claims = task.claims, resolved' = resolved, stopped' = stopped,
         exec'[k].pc = "decide" => UnderWay,
         exec'[k].pc \in {"decide", "review", "settle"} => ~ UnderWay',
         Timely(k)'
  PROVE  Sound(k)'
<1>1. exec'[k].pc = "decide" => ~ Cut(exec'[k].outcome)
  BY DEF Sound, Late, Cut
<1>2. Late(k)'
  BY <1>1 DEF Sound, Late, Cut
<1>3. Sending(k)' /\ Refunding(k)'
  BY DEF Sending, Refunding
<1>4. Denied(k)'
  BY DEF Sound, Denied
<1>5. Told(k)'
  BY DEF Sound, Told, Cut
<1>6. QED
  BY <1>2, <1>3, <1>4, <1>5 DEF Sound

LEMMA EnsureLoggedSound ==
  ASSUME RInv, NEW k \in Claims, EnsureAttemptLogged(k)
  PROVE  Sound(k)'
<1>1. /\ TypeOK /\ Sound(k) /\ exec[k].pc = "fail" /\ calls \in CallLogs
      /\ task \in TaskRows
  BY DEF RInv, BInv, IInv, EnsureAttemptLogged, At, Alive, TypeOK, RowTypeOK
<1>2. exec'[k].pc = "conclude" /\ exec'[k].outcome = exec[k].outcome
  BY <1>1, Went DEF EnsureAttemptLogged
<1>3. task'.status = task.status /\ task'.claims = task.claims
  BY <1>1 DEF EnsureAttemptLogged, RecordJob, UpdateTaskProviderState, TaskRows
<1>4. /\ UnderWay' <=> UnderWay
      /\ HasJob(1)' <=> HasJob(1)
      /\ resolved' = resolved /\ stopped' = stopped
  BY <1>3 DEF EnsureAttemptLogged, UnderWay, HasJob
<1>5. HasBillableCall' <=> HasBillableCall
  <2>1. UNCHANGED calls \/ calls' = CreateRow(exec[k].req, "internal")
    BY DEF EnsureAttemptLogged
  <2>2. CASE calls' = CreateRow(exec[k].req, "internal")
    <3>1. calls'.create = "internal" /\ calls'.older = HasBillableCall
      BY <1>1, <2>2 DEF CreateRow, RowNaming, CallLogs
    <3>2. HasBillableCall \in BOOLEAN
      BY <1>1 DEF HasBillableCall, CallLogs
    <3>3. HasBillableCall' <=> calls'.older
      BY <3>1 DEF HasBillableCall
    <3>4. QED
      BY <3>1, <3>2, <3>3
  <2>3. QED
    BY <2>1, <2>2 DEF HasBillableCall
<1>6. Timely(k)'
  BY <1>1, <1>2 DEF Sound, Timely, Calling
<1>7. QED
  BY <1>1, <1>2, <1>3, <1>4, <1>5, <1>6, GoesOn

LEMMA FailureSound ==
  ASSUME RInv, NEW k \in Claims, HandleExecutionFailure(k), Alive(k)'
  PROVE  Sound(k)'
<1>1. /\ TypeOK /\ Sound(k) /\ exec[k].pc = "conclude" /\ task \in TaskRows
      /\ exec \in [Claims -> Executions]
  BY DEF RInv, BInv, IInv, HandleExecutionFailure, At, Alive, TypeOK, RowTypeOK, WorkerTypeOK
<1>2. PICK status \in {"failed", "cancelled"} : Conclude(k, status, "decide")
  BY DEF HandleExecutionFailure
<1>3. /\ task.status = "running"
      /\ task' = [task EXCEPT !.status = status, !.owner = NoOwner, !.leased = FALSE]
      /\ exec' = [exec EXCEPT ![k].won = TRUE, ![k].pc = "decide"]
  BY <1>1, <1>2, Left DEF Conclude, WriteTerminalState, Fenced, Fence
<1>4. /\ exec'[k].pc = "decide" /\ exec'[k].outcome = exec[k].outcome
      /\ task'.status = status /\ task'.claims = task.claims
  BY <1>1, <1>3 DEF Executions, TaskRows
<1>5. UnderWay /\ ~ UnderWay'
  BY <1>3, <1>4 DEF UnderWay
<1>6. /\ HasJob(1)' <=> HasJob(1)
      /\ HasBillableCall' <=> HasBillableCall
      /\ resolved' = resolved /\ stopped' = stopped
  BY DEF HandleExecutionFailure, HasJob, HasBillableCall
<1>7. Timely(k)'
  BY <1>1, <1>4 DEF Sound, Timely, Calling
<1>8. QED
  BY <1>1, <1>4, <1>5, <1>6, <1>7, GoesOn

\* The decision: an outcome that leaves the job in doubt is put up for review, and
\* one that is not in doubt is of an execution that has logged its job.
LEMMA DecideSound ==
  ASSUME RInv, NEW k \in Claims, DecideBilling(k)
  PROVE  Sound(k)'
<1>1. /\ TypeOK /\ Sound(k) /\ exec[k].pc = "decide" /\ Quiet
      /\ exec[k].outcome \in Outcomes
  BY RowsQuiet
  DEF RInv, BInv, IInv, DecideBilling, At, Alive, TypeOK, WorkerTypeOK, Executions
<1>2. PICK pc : /\ Go(k, pc)
                /\ IF RequiresReview(k) THEN pc = "review" ELSE pc = "refund"
  BY DEF DecideBilling
<1>3. exec'[k].pc = pc /\ exec'[k].outcome = exec[k].outcome
  BY <1>1, <1>2, Went
<1>4. ~ UnderWay /\ ~ Cut(exec[k].outcome)
  BY <1>1 DEF Sound, Late
<1>5. ASSUME ~ RequiresReview(k) PROVE ~ Doubted \/ 1 \in resolved
  <2>1. CASE exec[k].outcome \in {"unprepared", "slot"}
    BY <1>1, <2>1 DEF Sound, Denied, Doubted
  <2>2. CASE exec[k].outcome \in {"refused", "failed"}
    <3>1. ~ HasBillableCall
      BY <1>5, <2>2 DEF RequiresReview, BillingFailureRequiresReview
    <3>2. ~ (task.claims <= 1 /\ HasJob(1))
      BY <1>1, <1>4, <2>2, <3>1 DEF Sound, Told
    <3>3. QED
      BY <3>1, <3>2 DEF Doubted, Remembered
  <2>3. exec[k].outcome \notin {"unsaved", "unclear", "stopped", "timeout"}
    BY <1>5 DEF RequiresReview, BillingFailureRequiresReview
  <2>4. exec[k].outcome \notin {"stoppedWaiting", "", "ok"}
    BY <1>1, <1>4 DEF Sound, Timely, Silent, Cut
  <2>5. QED
    BY <1>1, <2>1, <2>2, <2>3, <2>4 DEF Outcomes
<1>6. Doubted' <=> Doubted
  BY <1>1 DEF Quiet, Doubted, Remembered
<1>7. Timely(k)'
  BY <1>2, <1>3 DEF Timely, Calling
<1>8. Late(k)'
  BY <1>1, <1>2, <1>3, <1>4 DEF Late, Quiet
<1>9. Sending(k)'
  BY <1>2, <1>3 DEF Sending
<1>10. Denied(k)'
  BY <1>1, <1>2, <1>3, <1>4 DEF Denied, Quiet
<1>11. Told(k)'
  BY <1>1, <1>2, <1>3 DEF Sound, Told, Quiet
<1>12. Refunding(k)'
  BY <1>1, <1>2, <1>3, <1>5, <1>6 DEF Refunding, Quiet
<1>13. QED
  BY <1>7, <1>8, <1>9, <1>10, <1>11, <1>12 DEF Sound

LEMMA ResultSound ==
  ASSUME RInv, NEW k \in Claims, ReadBeforeSave(k) \/ SaveTaskCompletion(k) \/ SaveRefused(k),
         Alive(k)'
  PROVE  Sound(k)'
<1>1. /\ TypeOK /\ Sound(k) /\ exec[k].pc \in {"save", "store"} /\ task \in TaskRows
      /\ exec \in [Claims -> Executions]
  BY DEF RInv, BInv, IInv, ReadBeforeSave, SaveTaskCompletion, SaveRefused, At, Alive, TypeOK,
    RowTypeOK, WorkerTypeOK
<1>2. exec[k].outcome = "ok" /\ ~ Silent("unsaved")
  BY <1>1, Spoken DEF Sound, Timely
<1>3. /\ HasJob(1)' <=> HasJob(1)
      /\ HasBillableCall' <=> HasBillableCall
      /\ resolved' = resolved /\ stopped' = stopped
  BY DEF ReadBeforeSave, SaveTaskCompletion, SaveRefused, rowVars, HasJob, HasBillableCall
<1>4. CASE ReadBeforeSave(k)
  <2>1. /\ exec'[k].outcome = exec[k].outcome
        /\ exec'[k].pc = IF task.status = "cancelled" THEN "review" ELSE "store"
    BY <1>1, <1>4 DEF ReadBeforeSave, Executions
  <2>2. task' = task /\ (UnderWay' <=> UnderWay)
    BY <1>4 DEF ReadBeforeSave, rowVars, UnderWay
  <2>3. exec'[k].pc = "review" => ~ UnderWay
    BY <2>1 DEF UnderWay
  <2>4. Timely(k)'
    BY <1>2, <2>1 DEF Timely, Calling
  <2>5. QED
    BY <1>1, <1>3, <2>1, <2>2, <2>3, <2>4, GoesOn
<1>5. CASE SaveTaskCompletion(k)
  <2>1. CASE ~ Fenced(k)
    <3>1. /\ exec'[k].outcome = exec[k].outcome /\ exec'[k].pc = "settle"
          /\ task'.status = "succeeded" /\ task'.claims = task.claims
      BY <1>1, <1>5, <2>1 DEF SaveTaskCompletion, Executions, TaskRows
    <3>2. ~ UnderWay'
      BY <3>1 DEF UnderWay
    <3>3. Timely(k)'
      BY <3>1 DEF Timely, Calling
    <3>4. QED
      BY <1>1, <1>3, <3>1, <3>2, <3>3, GoesOn
  <2>2. CASE Fenced(k)
    <3>1. /\ exec' = [exec EXCEPT ![k].bill = task.run, ![k].pc = "review"]
          /\ task.status = "cancelled" /\ task' = task
      BY <1>1, <1>5, <2>2, Left DEF SaveTaskCompletion
    <3>2. exec'[k].outcome = exec[k].outcome /\ exec'[k].pc = "review"
      BY <1>1, <3>1 DEF Executions
    <3>3. ~ UnderWay'
      BY <3>1 DEF UnderWay
    <3>4. Timely(k)'
      BY <3>2 DEF Timely, Calling
    <3>5. QED
      BY <1>1, <1>3, <3>1, <3>2, <3>3, <3>4, GoesOn
  <2>3. QED
    BY <2>1, <2>2
<1>6. CASE SaveRefused(k)
  <2>1. exec'[k].outcome = "unsaved" /\ exec'[k].pc = "fail"
    BY <1>1, <1>6, Ended DEF SaveRefused
  <2>2. task' = task /\ (UnderWay' <=> UnderWay)
    BY <1>6 DEF SaveRefused, rowVars, UnderWay
  <2>3. Timely(k)'
    BY <1>2, <2>1 DEF Timely, Calling
  <2>4. QED
    BY <1>1, <1>2, <1>3, <2>1, <2>2, <2>3, GoesOn
<1>7. QED
  BY <1>4, <1>5, <1>6

LEMMA SettleSound ==
  ASSUME RInv, NEW k \in Claims, SettleTask(k), Alive(k)'
  PROVE  Sound(k)'
<1>1. TypeOK /\ Sound(k) /\ exec[k].pc = "settle" /\ Go(k, "review") /\ UNCHANGED order
  BY Left DEF RInv, BInv, IInv, SettleTask, At, Alive
<1>2. Quiet
  BY <1>1 DEF SettleTask, Quiet, UnderWay, HasJob, HasBillableCall
<1>3. exec'[k].pc = "review" /\ exec'[k].outcome = exec[k].outcome
  BY <1>1, Went
<1>4. ~ UnderWay
  BY <1>1 DEF Sound, Late
<1>5. Timely(k)'
  BY <1>3 DEF Timely, Calling
<1>6. QED
  BY <1>1, <1>2, <1>3, <1>4, <1>5, GoesOn DEF Quiet

LEMMA WorkerSound ==
  ASSUME RInv, Logical, LogIsSound, NEW k \in Claims, WorkerStep(k), Alive(k)'
  PROVE  Sound(k)'
<1>1. TypeOK /\ ~ Leave(k)
  BY Left DEF RInv, BInv, IInv
<1>2. CASE ClaimNextTask(k)
  BY <1>2, ClaimSound
<1>3. CASE Prepare(k)
  BY <1>3, PrepareSound
<1>4. CASE Call(k)
  BY <1>4, SubmitSound, NoteSound, StampSound, LogSound, PollSound, RenewSound, FinishSound
  DEF Call
<1>5. CASE Bill(k)
  <2>1. ~ (DeferRunningTask(k) \/ RefundTask(k) \/ ReviewTask(k))
    BY <1>1 DEF DeferRunningTask, RefundTask, ReviewTask
  <2>2. QED
    BY <1>5, <2>1, EnsureLoggedSound, FailureSound, DecideSound, ResultSound, SettleSound
    DEF Bill
<1>6. CASE CrashWorker(k)
  BY <1>1, <1>6 DEF CrashWorker
<1>7. QED
  BY <1>2, <1>3, <1>4, <1>5, <1>6 DEF WorkerStep, Execute
(***************************************************************************)
(* The tables, when a worker moves.                                        *)
(***************************************************************************)
LEMMA WorkerTables ==
  ASSUME TypeOK, LogIsSound, NEW k \in Claims, WorkerStep(k)
  PROVE  /\ ClaimNextTask(k) \/ (Alive(k) /\ task'.claims = task.claims)
         /\ stopped' \subseteq stopped \cup {k}
         /\ resolved' = resolved
         /\ \/ UNCHANGED order
            \/ MarkBillingRunning(k)
            \/ exec[k].pc \in {"refund", "review", "settle"}
<1>1. task \in TaskRows
  BY DEF TypeOK, RowTypeOK
<1>2. ~ Enabled("logfail")
  BY DEF LogIsSound, Enabled
<1>3. CASE ClaimNextTask(k)
  BY <1>3 DEF ClaimNextTask
<1>4. CASE Prepare(k)
  BY <1>1, <1>4
  DEF Prepare, Start, BeginTaskRouteAttempt, NewRouteAttempt, ResumeRouteAttempt,
      RejectedRouteAttempt, ReadBilling, MarkBillingRunning, MarkRouteAttemptDispatching,
      UpdateTaskProviderState, TaskRows, rowVars, At, Alive
<1>5. CASE Call(k)
  BY <1>1, <1>2, <1>5
  DEF Call, Submit, NoteBillingJob, StampTask, LogAPICall, Poll, RenewFails,
      FinishTaskRouteAttempt, Forget, Record, RecordJob, UpdateTaskProviderState, TaskRows, At,
      Alive
<1>6. CASE Bill(k)
  <2>1. Alive(k)
    BY <1>6
    DEF Bill, EnsureAttemptLogged, HandleExecutionFailure, DeferRunningTask, DecideBilling,
        RefundTask, ReviewTask, ReadBeforeSave, SaveTaskCompletion, SaveRefused, SettleTask, At,
        Alive
  <2>2. task'.claims = task.claims
    BY <1>1, <1>6
    DEF Bill, EnsureAttemptLogged, HandleExecutionFailure, Conclude, WriteTerminalState,
        DeferRunningTask, DecideBilling, RefundTask, ReviewTask, ReadBeforeSave,
        SaveTaskCompletion, SaveRefused, SettleTask, RecordJob, UpdateTaskProviderState,
        TaskRows, rowVars
  <2>3. /\ UNCHANGED <<stopped, resolved>>
        /\ UNCHANGED order \/ exec[k].pc \in {"refund", "review", "settle"}
    BY <1>6
    DEF Bill, EnsureAttemptLogged, HandleExecutionFailure, DeferRunningTask, DecideBilling,
        RefundTask, ReviewTask, ReadBeforeSave, SaveTaskCompletion, SaveRefused, SettleTask, At,
        rowVars
  <2>4. QED
    BY <2>1, <2>2, <2>3
<1>7. CASE CrashWorker(k)
  BY <1>7 DEF CrashWorker, Forget
<1>8. QED
  BY <1>3, <1>4, <1>5, <1>6, <1>7 DEF WorkerStep, Execute

\* A call that ends with the proof that no job exists is of a run that has none.
LEMMA WorkerRejects ==
  ASSUME RInv, Logical, NEW k \in Claims, WorkerStep(k)
  PROVE  RejectedHasNoJob'
<1>1. /\ TypeOK /\ 1 \in Runs /\ exec[k].run = 1
      /\ attempt \in [Runs -> Attempts]
  BY OnlyRun DEF RInv, BInv, IInv, TypeOK, WorkerTypeOK
<1>2. Alive(k) => Sound(k)
  BY DEF RInv
<1>3. HasJob(1)' => HasJob(1) \/ Submit(k)
  <2>1. CASE Submit(k)
    BY <2>1
  <2>2. CASE ~ Submit(k)
    <3>1. UNCHANGED job
      BY <2>2
      DEF WorkerStep, ClaimNextTask, Execute, Prepare, Start, BeginTaskRouteAttempt, ReadBilling,
          MarkBillingRunning, MarkRouteAttemptDispatching, Call, NoteBillingJob, StampTask,
          LogAPICall, Poll, RenewFails, FinishTaskRouteAttempt, Forget, Bill,
          EnsureAttemptLogged, HandleExecutionFailure, DeferRunningTask, DecideBilling,
          RefundTask, ReviewTask, ReadBeforeSave, SaveTaskCompletion, SaveRefused, SettleTask,
          CrashWorker, rowVars
    <3>2. QED
      BY <3>1 DEF HasJob
  <2>3. QED
    BY <2>1, <2>2
<1>4. CASE Submit(k)
  <2>1. attempt'[1].state = "submission_unknown"
    BY <1>2, <1>4 DEF Submit, At, Alive, Sound, Sending
  <2>2. QED
    BY <2>1 DEF RejectedHasNoJob
<1>5. CASE FinishTaskRouteAttempt(k)
  <2>1. SUFFICES ASSUME attempt'[1].state = "rejected_no_job" PROVE ~ HasJob(1)
    BY <1>3, <1>5 DEF RejectedHasNoJob, FinishTaskRouteAttempt, Submit, At
  <2>2. FinishedAttempt(k).state = "rejected_no_job"
    BY <1>1, <1>5, <2>1 DEF FinishTaskRouteAttempt
  <2>3. RefreshedJob(k) = NoJob /\ exec[k].outcome \in {"refused", "slot", "stoppedWaiting"}
    BY <2>2 DEF FinishedAttempt
  <2>4. task.job = NoJob /\ exec[k].req = NoJob
    BY <2>3 DEF RefreshedJob
  <2>5. QED
    BY <1>2, <1>5, <2>3, <2>4 DEF FinishTaskRouteAttempt, At, Alive, Sound, Sending, Denied
<1>6. CASE BeginTaskRouteAttempt(k) \/ MarkRouteAttemptDispatching(k)
  <2>1. attempt'[1] = attempt[1] \/ attempt'[1].state # "rejected_no_job"
    BY <1>1, <1>6
    DEF BeginTaskRouteAttempt, NewRouteAttempt, ResumeRouteAttempt, RejectedRouteAttempt,
        MarkRouteAttemptDispatching, Attempts
  <2>2. HasJob(1)' => HasJob(1)
    BY <1>3, <1>6 DEF BeginTaskRouteAttempt, MarkRouteAttemptDispatching, Submit, At
  <2>3. QED
    BY <2>1, <2>2 DEF RInv, Settled, RejectedHasNoJob
<1>7. CASE ~ (\/ Submit(k) \/ FinishTaskRouteAttempt(k) \/ BeginTaskRouteAttempt(k)
              \/ MarkRouteAttemptDispatching(k))
  <2>1. UNCHANGED attempt
    BY <1>7
    DEF WorkerStep, ClaimNextTask, Execute, Prepare, Start, ReadBilling, MarkBillingRunning,
        Call, NoteBillingJob, StampTask, LogAPICall, Poll, RenewFails, Bill,
        EnsureAttemptLogged, HandleExecutionFailure, DeferRunningTask, DecideBilling,
        RefundTask, ReviewTask, ReadBeforeSave, SaveTaskCompletion, SaveRefused, SettleTask,
        CrashWorker
  <2>2. QED
    BY <1>3, <1>7, <2>1 DEF RInv, Settled, RejectedHasNoJob
<1>8. QED
  BY <1>4, <1>5, <1>6, <1>7

LEMMA WorkerRefunds ==
  ASSUME RInv, Logical, LogIsSound, NEW k \in Claims, WorkerStep(k)
  PROVE  RefundedIsOver'
<1>1. /\ TypeOK /\ 1 \in Runs /\ exec[k].bill = 1
      /\ order \in [Runs -> OrderStatuses]
  BY OnlyRun DEF RInv, BInv, IInv, TypeOK, RowTypeOK
<1>2. SUFFICES ASSUME order'[1] = "refunded", 1 \notin resolved'
               PROVE  (~ Doubted)' /\ \A l \in Claims : ~ Alive(l)'
  BY DEF RefundedIsOver
<1>3. 1 \notin resolved
  BY <1>1, <1>2, WorkerTables
<1>4. CASE order[1] = "refunded"
  <2>1. ~ Alive(k)
    BY <1>3, <1>4 DEF RInv, Settled, RefundedIsOver
  <2>2. ~ UnderWay
    BY <1>3, <1>4 DEF RInv, Settled, OrderIsOpen
  <2>3. ~ ClaimNextTask(k)
    BY <2>2 DEF ClaimNextTask, UnderWay
  <2>4. QED
    BY <1>1, <2>1, <2>3, WorkerTables
<1>5. CASE order[1] # "refunded"
  <2>1. RefundTask(k)
    <3>1. ~ UNCHANGED order /\ ~ MarkBillingRunning(k)
      BY <1>1, <1>2, <1>5 DEF MarkBillingRunning
    <3>2. exec[k].pc \in {"refund", "review", "settle"}
      BY <1>1, <3>1, WorkerTables
    <3>3. ~ ReviewTask(k) /\ ~ SettleTask(k)
      BY <1>1, <1>2, <1>5, <3>1
      DEF ReviewTask, SettleTask, MarkBillingUncertain, SettleBilling, Open
    <3>4. QED
      BY <3>1, <3>2, <3>3
      DEF WorkerStep, ClaimNextTask, Execute, Prepare, Start, BeginTaskRouteAttempt, ReadBilling,
          MarkBillingRunning, MarkRouteAttemptDispatching, Call, Submit, NoteBillingJob,
          StampTask, LogAPICall, Poll, RenewFails, FinishTaskRouteAttempt, Bill,
          EnsureAttemptLogged, HandleExecutionFailure, DeferRunningTask, DecideBilling,
          ReadBeforeSave, SaveTaskCompletion, SaveRefused, CrashWorker, Forget, At
  <2>2. ~ Doubted
    BY <1>3, <2>1 DEF RefundTask, At, Alive, RInv, Sound, Refunding
  <2>3. Doubted' <=> Doubted
    BY <2>1 DEF RefundTask, Doubted, Remembered, HasBillableCall, HasJob
  <2>4. \A l \in Claims : ~ Alive(l)'
    BY <1>1, <2>1, Alone, Left DEF RefundTask
  <2>5. QED
    BY <2>2, <2>3, <2>4
<1>6. QED
  BY <1>4, <1>5

LEMMA WorkerKeeps ==
  ASSUME RInv, Logical, LogIsSound, NEW k \in Claims, WorkerStep(k)
  PROVE  Settled' /\ \A l \in Claims : Alive(l)' => Sound(l)'
<1>1. /\ TypeOK /\ Pending /\ retry = "none" /\ 1 \in Runs /\ exec[k].run = 1
      /\ exec[k].bill = 1
      /\ order \in [Runs -> OrderStatuses] /\ task \in TaskRows /\ [Next]_vars
  BY OnlyRun DEF RInv, BInv, IInv, OneRun, TypeOK, RowTypeOK, Next
<1>2. /\ task.status = "cancelled" => task'.status = "cancelled"
      /\ task.status \in {"failed", "succeeded"} => task'.status \in {"failed", "succeeded"}
      /\ UnderWay' => UnderWay
  BY <1>1, EndsForGood
<1>3. UNCHANGED <<cancels, rec, recovery>>
  BY DEF WorkerStep, cancelVars, recoveryVars
<1>4. Closing'
  BY <1>2, <1>3 DEF RInv, Settled, Closing
<1>5. /\ task.claims >= 0 /\ task.claims \in Int /\ k > 0 /\ k \in Int
      /\ Alive(k) => k <= task.claims
  <2>1. task.claims \in 0 .. MaxClaims /\ k \in 1 .. MaxClaims
    BY <1>1 DEF TaskRows, Claims
  <2>2. Alive(k) => ~ (k > task.claims)
    BY DEF RInv, Settled, Counted
  <2>3. QED
    BY <2>1, <2>2, TaskRowAssumption
<1>6. /\ task'.claims > 0 /\ task'.claims >= task.claims /\ task'.claims \in Int
      /\ k <= task'.claims
  <2>1. CASE ClaimNextTask(k)
    <3>1. task'.claims = k /\ k = task.claims + 1
      BY <1>1, <2>1 DEF ClaimNextTask, TaskRows
    <3>2. QED
      BY <1>5, <3>1
  <2>2. CASE Alive(k) /\ task'.claims = task.claims
    BY <1>5, <2>2
  <2>3. QED
    BY <1>1, <2>1, <2>2, WorkerTables
<1>7. Counted'
  <2>1. CASE ClaimNextTask(k)
    <3>1. UnderWay /\ task'.status = "running"
      BY <1>1, <2>1 DEF ClaimNextTask, UnderWay, TaskRows
    <3>2. \A c \in Cancellers : cancels[c].pc \notin {"stop", "bill"}
      BY <3>1 DEF RInv, Settled, Closing, UnderWay
    <3>3. ASSUME NEW l \in Claims, l > task'.claims PROVE l \notin stopped' /\ ~ Alive(l)'
      <4>1. l > task.claims /\ l # k
        BY <1>5, <1>6, <3>3 DEF Claims
      <4>2. l \notin stopped
        BY <4>1 DEF RInv, Settled, Counted
      <4>3. QED
        BY <1>1, <4>1, <4>2, WorkerTables, Alone
    <3>4. QED
      BY <1>3, <1>6, <3>1, <3>2, <3>3 DEF Counted
  <2>2. CASE Alive(k) /\ task'.claims = task.claims
    <3>1. task.claims # 0
      BY <1>5, <2>2
    <3>2. task'.status # "queued"
      BY <1>1, <1>2, <2>2, <3>1, EndsForGood DEF RInv, Settled, Counted
    <3>3. ASSUME NEW l \in Claims, l > task'.claims PROVE l \notin stopped' /\ ~ Alive(l)'
      <4>1. l # k /\ l > task.claims
        BY <1>6, <2>2, <3>3 DEF Claims
      <4>2. l \notin stopped
        BY <4>1 DEF RInv, Settled, Counted
      <4>3. QED
        BY <1>1, <4>1, <4>2, WorkerTables, Alone
    <3>4. QED
      BY <1>3, <2>2, <3>1, <3>2, <3>3 DEF RInv, Settled, Counted
  <2>3. QED
    BY <1>1, <2>1, <2>2, WorkerTables
<1>8. OrderIsOpen'
  <2>1. SUFFICES ASSUME UnderWay' PROVE order'[1] \in {"reserved", "running"} \/ 1 \in resolved'
    BY DEF OrderIsOpen
  <2>2. UnderWay /\ (order[1] \in {"reserved", "running"} \/ 1 \in resolved)
    BY <1>2, <2>1 DEF RInv, Settled, OrderIsOpen
  <2>3. exec[k].pc \notin {"refund", "review", "settle"}
    BY <2>2 DEF RInv, Sound, Late, Alive
  <2>4. UNCHANGED order \/ MarkBillingRunning(k)
    BY <1>1, <2>3, WorkerTables
  <2>5. order'[1] \in {"reserved", "running"} \/ order'[1] = order[1]
    BY <1>1, <2>4 DEF MarkBillingRunning
  <2>6. QED
    BY <1>1, <2>2, <2>5, WorkerTables
<1>9. ASSUME NEW l \in Claims, Alive(l)' PROVE Sound(l)'
  BY <1>9, Alone, WorkerSound
<1>10. QED
  BY <1>4, <1>7, <1>8, <1>9, WorkerRejects, WorkerRefunds DEF Settled

(***************************************************************************)
(* Together.                                                               *)
(***************************************************************************)
LEMMA RInvInit == Init => RInv
<1>1. SUFFICES ASSUME Init PROVE RInv
  OBVIOUS
<1>2. BInv /\ OnlyOne /\ Attempted
  BY <1>1, IInvInit, BehindInit, SubmitsOnceInit DEF BInv, SubmitsOnce
<1>3. task.run = 1 /\ task.status = "queued" /\ task.claims = 0 /\ retry = "none"
  BY <1>1 DEF Init, RowInit, RecoveryInit
<1>4. \A j \in Jobs : job[j].run = 1 /\ job[j].state = "none"
  <2>1. job = [j \in Jobs |-> [run |-> 1, state |-> "none"]]
    BY <1>1 DEF Init, RowInit
  <2>2. QED
    BY <2>1
<1>5. OneRun /\ ~ HasJob(1)
  BY <1>3, <1>4 DEF OneRun, HasJob
<1>6. \A k \in Claims : exec[k].pc = "unclaimed"
  BY <1>1 DEF Init, WorkerInit, Unclaimed
<1>7. \A k \in Claims : ~ Alive(k)
  BY <1>6 DEF Alive
<1>8. stopped = {} /\ order = [r \in Runs |-> IF r = 1 THEN "reserved" ELSE "none"]
  BY <1>1 DEF Init, RowInit
<1>9. order[1] = "reserved"
  <2>1. 1 \in Runs
    BY TaskRowAssumption DEF Runs
  <2>2. QED
    BY <1>8, <2>1
<1>10. Closing
  <2>1. rec.pc = "idle" /\ recovery.pc = "idle"
    BY <1>1, EmptyRecords DEF Init, CancelInit, RecoveryInit
  <2>2. \A c \in Cancellers : cancels[c].pc = "idle"
    BY <1>1 DEF Init, CancelInit
  <2>3. QED
    BY <2>1, <2>2 DEF Closing
<1>11. Counted
  <2>1. \A c \in Cancellers : cancels[c].pc = "idle"
    BY <1>1 DEF Init, CancelInit
  <2>2. QED
    BY <1>3, <1>5, <1>7, <1>8, <2>1 DEF Counted
<1>12. OrderIsOpen /\ RefundedIsOver
  BY <1>9 DEF OrderIsOpen, RefundedIsOver
<1>13. RejectedHasNoJob
  BY <1>5 DEF RejectedHasNoJob
<1>14. QED
  BY <1>2, <1>5, <1>7, <1>10, <1>11, <1>12, <1>13 DEF RInv, Settled

LEMMA RInvStep ==
  ASSUME Logical, NeverStalled, NeverRetried, LogIsSound, RInv, [Next]_vars
  PROVE  RInv'
<1>1. BInv' /\ OneRun'
  BY IInvStep, BehindStep, OneRunStep DEF RInv, BInv
<1>2. OnlyOne' /\ Attempted'
  BY OnlyOneStep, AttemptedStep DEF RInv, BInv
<1>3. Settled' /\ \A k \in Claims : Alive(k)' => Sound(k)'
  BY AsideKeeps, WorkerKeeps DEF Next, AsideStep
<1>4. QED
  BY <1>1, <1>2, <1>3 DEF RInv

\* The credit of a task that is never retried is not given back while a job of it
\* may be paid for, unless an administrator gives it: whatever dies, is cancelled,
\* handed back or recovered, an execution refunds only where the log of calls, or
\* being the first, tells it that there is no job.
THEOREM LiveJobIsNotRefunded ==
  ASSUME Logical, NeverStalled, NeverRetried, LogIsSound
  PROVE  Spec => []NoRefundOfLiveJob
<1>1. RInv => NoRefundOfLiveJob
  <2>1. SUFFICES ASSUME RInv, NEW r \in Runs, order[r] = "refunded", r \notin resolved,
                        HasBillableCall \/ task.claims <= 1,
                        NEW j \in Jobs, job[j].run = r, job[j].state \in {"running", "succeeded"}
                 PROVE  FALSE
    BY DEF NoRefundOfLiveJob
  <2>2. r = 1
    BY <2>1 DEF RInv, OneRun
  <2>3. Doubted
    BY <2>1, <2>2 DEF Doubted, Remembered, HasJob
  <2>4. QED
    BY <2>1, <2>2, <2>3 DEF RInv, Settled, RefundedIsOver
<1>2. RInv /\ [Next]_vars => RInv'
  BY RInvStep
<1>3. QED
  BY <1>1, <1>2, RInvInit, PTL DEF Spec
=============================================================================
