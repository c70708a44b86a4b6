--------------------------- MODULE DreaminaRuntime --------------------------
(***************************************************************************)
(* The local Dreamina runtimes of one user together: their submissions,    *)
(* their reconcilers, the arbiter of the CLI, callers, the provider, and   *)
(* runtimes that die and start again.                                      *)
(***************************************************************************)
EXTENDS DreaminaReconciler

Init ==
  /\ journal = [k \in Keys |-> NoRecord] /\ line = {}
  /\ known = [r \in Runtimes |-> [k \in Keys |-> -1]]
  /\ alive = Runtimes
  /\ task = [r \in Runtimes |-> [k \in Keys |-> NoTask]]
  /\ holder = Nobody
  /\ active = NoLease /\ waiting = <<>> /\ session = 0
  /\ poll = [r \in Runtimes |-> NoPoll]
  /\ job = [k \in Keys |-> "none"]
  /\ spawns = [k \in Keys |-> 0] /\ enqueues = [k \in Keys |-> 0] /\ crashes = 0

-----------------------------------------------------------------------------
\* The provider ends a job.
JobEnds(k) ==
  /\ job[k] = "running"
  /\ \E outcome \in {"completed", "failed", "cancelled"} :
        job' = [job EXCEPT ![k] = outcome]
  /\ UNCHANGED <<journalVars, alive, task, holder, arbiterVars, poll, ghostVars>>

\* A restarted runtime has a new id: what its predecessor owned is nobody's.
Disowned(rec, r) ==
  [rec EXCEPT !.owner = IF @ = r THEN Nobody ELSE @,
              !.poller = IF @ = r THEN Nobody ELSE @]

\* The process is gone.  A CLI that it had started may still reach the
\* provider.
Gone(r) ==
  /\ alive' = alive \ {r}
  /\ task' = [task EXCEPT ![r] = [k \in Keys |-> NoTask]]
  /\ poll' = [poll EXCEPT ![r] = NoPoll]
  /\ known' = [known EXCEPT ![r] = [k \in Keys |-> -1]]
  /\ holder' = IF holder = r THEN Nobody ELSE holder
  /\ crashes' = crashes + 1

Crash(r) ==
  /\ "crash" \in Features /\ r \in alive /\ crashes < MaxCrashes
  /\ Gone(r)
  /\ journal' = [k \in Keys |-> Disowned(journal[k], r)]
  /\ LET started == {k \in Keys : task[r][k].pc \in {"spawned", "run_spawned"}}
     IN  \E reached \in SUBSET started :
            job' = [k \in Keys |-> IF k \in reached THEN "running" ELSE job[k]]
  /\ UNCHANGED <<line, arbiterVars, spawns, enqueues>>

\* dispose, once the submissions under way were aborted: what is queued by
\* this runtime is closed and its poll lease is given back.
Dispose(r) ==
  /\ "dispose" \in Features /\ r \in alive /\ crashes < MaxCrashes
  /\ holder = Nobody /\ Accepts(r)
  /\ \A k \in Keys : task[r][k].pc \in {"none", "queued"}
  /\ poll[r].pc \in {"idle", "claimed"}
  /\ Gone(r)
  /\ journal' = [k \in Keys |->
       IF Reloaded[k].state = "queued" /\ Reloaded[k].owner = r
       THEN Closed(Reloaded[k], "failed")
       ELSE Disowned(IF Reloaded[k].poller = r THEN Unleased(Reloaded[k])
                     ELSE Reloaded[k], r)]
  /\ line' = line \cap (Queued(journal') \X Queued(journal'))
  /\ UNCHANGED <<arbiterVars, job, spawns, enqueues>>

\* A runtime starts when the requests of the one before it have lapsed.
Restart(r) ==
  /\ r \notin alive
  /\ \A w \in ToSet(waiting) : w.who[1] # r
  /\ active.who # <<>> /\ active.live => active.who[1] # r
  /\ alive' = alive \cup {r}
  /\ UNCHANGED <<journalVars, task, holder, arbiterVars, poll, job, ghostVars>>

-----------------------------------------------------------------------------
Submit(r, k) ==
  \/ Reserve(r, k) \/ AskForCli(r, k) \/ GetCli(r, k) \/ LoseCli(r, k)
  \/ CommitFence(r, k) \/ Spawn(r, k) \/ Answer(r, k) \/ CommitReceipt(r, k)
  \/ CommitFailure(r, k) \/ FailTask(r, k) \/ TransactionDenied(r, k)

Run(r, k) == RunSpawn(r, k) \/ RunRefused(r, k) \/ RunEnds(r, k)

Reconcile(r) ==
  \/ \E k \in Keys : ClaimDue(r, k)
  \/ AskForQuery(r) \/ GetQuery(r) \/ LoseQuery(r) \/ QueryAnswers(r)
  \/ CommitObservation(r) \/ CommitSyncError(r)

Expiry ==
  \/ \E k \in Keys : ExpireLease(k) \/ ExpirePollLease(k)
  \/ ExpireCliLease \/ ExpireRequest

Next ==
  \/ \E r \in Runtimes, k \in Keys :
        Enqueue(r, k) \/ Submit(r, k) \/ RunBegin(r, k) \/ Run(r, k)
        \/ FailBeforeCli(r, k) \/ FailToSpawn(r, k) \/ Abort(r, k)
        \/ Cancel(r, k) \/ Delete(r, k)
  \/ \E r \in Runtimes :
        Load(r) \/ Reconcile(r) \/ Crash(r) \/ Dispose(r) \/ Restart(r)
  \/ Expiry \/ SwitchAccount
  \/ \E k \in Keys : JobEnds(k)

Spec == Init /\ [][Next]_vars

-----------------------------------------------------------------------------
Tasks == [pc : Renewed \cup {"none", "failtask", "run", "run_spawned"},
          session : 0 .. MaxSessions]
Clients == (Runtimes \X Keys) \cup Seq(Runtimes)

TypeOK ==
  /\ journal \in [Keys -> Records]
  /\ line \subseteq Keys \X Keys
  /\ known \in [Runtimes -> [Keys -> -1 .. 1]]
  /\ alive \subseteq Runtimes
  /\ task \in [Runtimes -> [Keys -> Tasks]]
  /\ holder \in Runtimes \cup {Nobody}
  /\ active.who \in Clients /\ active.session \in 0 .. MaxSessions
  /\ session \in 0 .. MaxSessions
  /\ \A r \in Runtimes : poll[r].pc \in {"idle", "claimed", "waiting", "running",
                                         "observed", "error"}
  /\ job \in [Keys -> {"none", "running", "completed", "failed", "cancelled"}]

(***************************************************************************)
(* A submission costs money: for one idempotency key the CLI is started at *)
(* most once, whichever runtimes submit it, die, or lose their leases.     *)
(***************************************************************************)
OneSpawnPerKey == \A k \in Keys : spawns[k] <= 1

(***************************************************************************)
(* What was started is accounted for: its record is never back in the      *)
(* queue, withdrawn or deleted, and it is failed or cancelled only because *)
(* the provider said so.                                                   *)
(***************************************************************************)
StartedIsAccounted ==
  \A k \in Keys : spawns[k] > 0 =>
     /\ journal[k].state \notin {"absent", "queued", "deleted"}
     /\ journal[k].phase # "reserved"
     /\ journal[k].state \in {"failed", "cancelled", "succeeded"} =>
          job[k] \notin {"none", "running"}

(***************************************************************************)
(* The official slots are not oversubscribed by what is really running:    *)
(* jobs of the provider and submissions of any runtime.                    *)
(***************************************************************************)
InFlight(k) == \/ job[k] = "running"
               \/ \E r \in Runtimes : task[r][k].pc \in {"spawned", "run_spawned"}

SlotsSuffice == Cardinality({k \in Keys : InFlight(k)}) <= MaxActive

(***************************************************************************)
(* One CLI process at a time, and under the account that its caller        *)
(* expects: nobody logs in or out while it runs.                           *)
(***************************************************************************)
Submissions(r) ==
  {[who |-> Submission(r, k), session |-> task[r][k].session] :
     k \in {k \in Keys : task[r][k].pc \in {"spawned", "receipt", "run_spawned"}}}

Invocations ==
  (UNION {Submissions(r) : r \in Runtimes})
  \cup {[who |-> Polling(r), session |-> poll[r].session] :
          r \in {r \in Runtimes : poll[r].pc = "running"}}

OneCliInItsSession ==
  /\ Cardinality(Invocations) <= 1
  /\ \A i \in Invocations : i.session = session

(***************************************************************************)
(* A runtime that runs can go on: the journal never lacks what it          *)
(* remembers, so that no operation is refused as an invalid state.         *)
(***************************************************************************)
NobodyIsLockedOut == \A r \in alive : Accepts(r)

(***************************************************************************)
(* Ended stays ended, a receipt and the outputs stay recorded, whatever a  *)
(* late observation or another runtime says.                               *)
(***************************************************************************)
EndedStays ==
  [][\A k \in Keys :
       /\ journal[k].state \in Ended => journal'[k].state = journal[k].state
       /\ journal[k].receipt => journal'[k].receipt
       /\ journal[k].outputs => journal'[k].outputs]_journal

(***************************************************************************)
(* All of them together are one submission per key, whose promises         *)
(* SubmissionContract states.                                              *)
(***************************************************************************)
StageOf(rec) == CASE rec.state = "absent" -> "free"
                  [] rec.state \in {"queued", "pending"} -> "open"
                  [] OTHER -> rec.state

Contract == INSTANCE SubmissionContract WITH
              stage   <- [k \in Keys |-> StageOf(journal[k])],
              started <- [k \in Keys |-> spawns[k] > 0]

KeepsContract == Contract!CSpec

-----------------------------------------------------------------------------
(***************************************************************************)
(* Heartbeats, reconcilers and arbiter requests are retried as long as a   *)
(* runtime runs; leases lapse by time; the provider ends its jobs.         *)
(***************************************************************************)
FairSpec ==
  /\ Spec
  /\ WF_vars(Expiry)
  /\ \A r \in Runtimes :
       /\ WF_vars(Restart(r)) /\ WF_vars(Load(r))
       /\ WF_vars(AskForQuery(r)) /\ SF_vars(GetQuery(r)) /\ WF_vars(LoseQuery(r))
       /\ WF_vars(QueryAnswers(r)) /\ WF_vars(CommitObservation(r) \/ CommitSyncError(r))
       /\ \A k \in Keys : SF_vars(ClaimDue(r, k))
       /\ \A k \in Keys : SF_vars(Submit(r, k))
  /\ \A k \in Keys : WF_vars(JobEnds(k))

(***************************************************************************)
(* Accepted work is settled: the reconciler of some runtime finds out how  *)
(* the job ended, also when the runtime that submitted it has died.        *)
(***************************************************************************)
AcceptedSettles ==
  \A k \in Keys : (journal[k].state = "accepted" /\ ~journal[k].legacy
                     /\ journal[k].session = MaxSessions)
                  ~> journal[k].state \in Ended
=============================================================================
