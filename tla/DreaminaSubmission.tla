------------------------- MODULE DreaminaSubmission ------------------------
(***************************************************************************)
(* Submitting a generation (canvas-agent/src/dreamina-cli-runtime.ts): the *)
(* record is queued, a slot is reserved, the CLI is leased, the right to   *)
(* start it is committed, it is started, and its receipt is committed.     *)
(***************************************************************************)
EXTENDS DreaminaArbiter

At(r, k, where) == r \in alive /\ task[r][k].pc = where
To(r, k, where) == task' = [task EXCEPT ![r][k].pc = where]
Over(r, k)      == task' = [task EXCEPT ![r][k] = NoTask]

\* matchesReservation.
Mine(r, k) == /\ Reloaded[k].state = "pending" /\ Reloaded[k].owner = r
              /\ Reloaded[k].phase # "none"

-----------------------------------------------------------------------------
(***************************************************************************)
(* Queueing and reserving.                                                 *)
(***************************************************************************)
\* load: any operation reads the journal again, and repairs it.
Load(r) ==
  /\ Commit(r, Reloaded)
  /\ <<journal', known'>> # <<journal, known>>
  /\ UNCHANGED <<alive, task, holder, arbiterVars, poll, job, ghostVars>>

\* Mutant: only a submission that is under way stops another one.
EnqueueAgain(r, k) ==
  /\ task[r][k].pc = "none" /\ enqueues[k] < MaxEnqueues
  /\ Reloaded[k].state \notin {"queued", "pending", "accepted"}
  /\ Commit(r, Put(k, [NoRecord EXCEPT !.state = "queued", !.owner = r,
                                       !.live = TRUE]))
  /\ To(r, k, "queued")
  /\ enqueues' = [enqueues EXCEPT ![k] = @ + 1]
  /\ UNCHANGED <<alive, holder, arbiterVars, poll, job, spawns, crashes>>

\* enqueueNew: a key that is in the journal is never submitted again.
Enqueue(r, k) ==
  /\ task[r][k].pc = "none" /\ enqueues[k] < MaxEnqueues
  /\ Reloaded[k].state = "absent"
  /\ Commit(r, Put(k, [NoRecord EXCEPT !.state = "queued", !.owner = r,
                                       !.live = TRUE]))
  /\ To(r, k, "queued")
  /\ enqueues' = [enqueues EXCEPT ![k] = @ + 1]
  /\ UNCHANGED <<alive, holder, arbiterVars, poll, job, spawns, crashes>>

\* reserveSubmissionSlot, tried at once and again with every heartbeat.
Reserve(r, k) ==
  /\ At(r, k, "queued")
  /\ IF Reloaded[k].state # "queued"
     THEN Commit(r, Reloaded) /\ Over(r, k)
     ELSE /\ HasPriority(k)
          /\ Commit(r, Put(k, [Reloaded[k] EXCEPT !.state = "pending", !.owner = r,
                                                  !.phase = "reserved", !.live = TRUE]))
          /\ To(r, k, "reserved")
  /\ UNCHANGED <<alive, holder, arbiterVars, poll, job, ghostVars>>

\* ensureReady reads the account session that the submission will run under.
AskForCli(r, k) ==
  /\ At(r, k, "reserved")
  /\ Request(Submission(r, k), session)
  /\ task' = [task EXCEPT ![r][k] = [pc |-> "waiting", session |-> session]]
  /\ UNCHANGED <<active, session, journalVars, alive, holder, poll, job, ghostVars>>

FailBeforeCli(r, k) ==
  /\ "login" \in Features /\ At(r, k, "reserved") /\ To(r, k, "fail_early")
  /\ UNCHANGED <<arbiterVars, journalVars, alive, holder, poll, job, ghostVars>>

GetCli(r, k) ==
  /\ At(r, k, "waiting") /\ Grant(Submission(r, k)) /\ To(r, k, "granted")
  /\ UNCHANGED <<journalVars, alive, holder, poll, job, ghostVars>>

\* A changed account leaves the reservation to its expiry; a request that
\* waited too long is a failure before the CLI.
LoseCli(r, k) ==
  /\ At(r, k, "waiting") /\ Refuse(Submission(r, k))
  /\ IF IsFirst(Submission(r, k)) /\ Head(waiting).session # session
     THEN Over(r, k) ELSE To(r, k, "fail_early")
  /\ UNCHANGED <<journalVars, alive, holder, poll, job, ghostVars>>

-----------------------------------------------------------------------------
(***************************************************************************)
(* The CLI.                                                                *)
(***************************************************************************)
\* commitInvocationFence: only the owner of a live reservation may start it.
CommitFence(r, k) ==
  /\ At(r, k, "granted")
  /\ IF Mine(r, k)
     THEN /\ Commit(r, Put(k, [Reloaded[k] EXCEPT !.phase = "spawn_permitted",
                               !.live = TRUE, !.session = task[r][k].session]))
          /\ To(r, k, "permitted") /\ UNCHANGED arbiterVars
     ELSE Commit(r, Reloaded) /\ Over(r, k) /\ Release(Submission(r, k))
  /\ UNCHANGED <<alive, holder, poll, job, ghostVars>>

\* runProcess starts the CLI, or cannot.
Spawn(r, k) ==
  /\ At(r, k, "permitted") /\ To(r, k, "spawned")
  /\ spawns' = [spawns EXCEPT ![k] = @ + 1]
  /\ UNCHANGED <<arbiterVars, journalVars, alive, holder, poll, job, enqueues,
                 crashes>>

FailToSpawn(r, k) ==
  /\ "login" \in Features /\ At(r, k, "permitted")
  /\ To(r, k, "fail_granted") /\ Release(Submission(r, k))
  /\ UNCHANGED <<journalVars, alive, holder, poll, job, ghostVars>>

\* The provider took the request or not, and the receipt arrives or not.
Answer(r, k) ==
  /\ At(r, k, "spawned")
  /\ \/ job' = [job EXCEPT ![k] = "running"] /\ To(r, k, "receipt")
        /\ UNCHANGED arbiterVars
     \/ /\ "lost" \in Features
        /\ job' \in {job, [job EXCEPT ![k] = "running"]}
        /\ To(r, k, "fail_spawned") /\ Release(Submission(r, k))
  /\ UNCHANGED <<journalVars, alive, holder, poll, ghostVars>>

\* Mutant: a receipt is committed whatever the journal says by now.
CommitReceiptLate(r, k) ==
  /\ At(r, k, "receipt")
  /\ Commit(r, Put(k, [Closed(Reloaded[k], "accepted") EXCEPT !.receipt = TRUE]))
  /\ Over(r, k) /\ Release(Submission(r, k))
  /\ UNCHANGED <<alive, holder, poll, job, ghostVars>>

\* commitAcceptedReceipt, between two checks of the lease, and its release.
CommitReceipt(r, k) ==
  /\ At(r, k, "receipt")
  /\ IF IsCurrent(Submission(r, k)) /\ Mine(r, k)
     THEN Commit(r, Put(k, [Closed(Reloaded[k], "accepted") EXCEPT !.receipt = TRUE]))
     ELSE Commit(r, Reloaded)
  /\ Over(r, k) /\ Release(Submission(r, k))
  /\ UNCHANGED <<alive, holder, poll, job, ghostVars>>

-----------------------------------------------------------------------------
(***************************************************************************)
(* Failing.                                                                *)
(***************************************************************************)
\* commitSubmissionFailure: what was never started is withdrawn so that it
\* can be submitted again, what was started becomes unknown.  The attempt
\* must still be the one that the journal knows.
CommitFailure(r, k) ==
  /\ \/ At(r, k, "fail_early") \/ At(r, k, "fail_granted") \/ At(r, k, "fail_spawned")
  /\ IF ~Mine(r, k) \/ (Reloaded[k].phase = "reserved" /\ ~At(r, k, "fail_early"))
     THEN Commit(r, Reloaded)
     ELSE Commit(r, Put(k, IF At(r, k, "fail_spawned") THEN Closed(Reloaded[k], "unknown")
                           ELSE NoRecord))
  /\ Over(r, k)
  /\ UNCHANGED <<alive, holder, arbiterVars, poll, job, ghostVars>>

\* failTask: a failure that could not be committed closes the record later.
FailTask(r, k) ==
  /\ At(r, k, "failtask")
  /\ IF Reloaded[k].state \in {"queued", "pending", "accepted"}
     THEN Commit(r, Put(k, Closed(Reloaded[k], "failed")))
     ELSE Commit(r, Reloaded)
  /\ Over(r, k)
  /\ UNCHANGED <<alive, holder, arbiterVars, poll, job, ghostVars>>

\* Where a submission goes on when its transaction throws.
AfterDenial(pc) ==
  CASE pc = "granted" -> "fail_granted"
    [] pc = "receipt" -> "fail_spawned"
    [] pc \in {"fail_early", "fail_granted", "fail_spawned"} -> "failtask"
    [] pc = "failtask" -> "none"

TransactionDenied(r, k) ==
  LET pc == task[r][k].pc IN
  /\ pc \in {"granted", "receipt", "fail_early", "fail_granted", "fail_spawned",
             "failtask"}
  /\ Denied(r)
  /\ task' = [task EXCEPT ![r][k] =
       IF AfterDenial(pc) = "none" THEN NoTask ELSE [@ EXCEPT !.pc = AfterDenial(pc)]]
  /\ Release(Submission(r, k))
  /\ UNCHANGED <<alive, holder, poll, job, ghostVars>>

\* The caller's or the task's signal is aborted: the CLI is killed, and may
\* or may not have reached the provider.
Abort(r, k) ==
  /\ "users" \in Features /\ r \in alive
  /\ \/ /\ task[r][k].pc \in {"reserved", "waiting"} /\ To(r, k, "fail_early")
        /\ Withdraw(Submission(r, k)) /\ UNCHANGED job
     \/ /\ task[r][k].pc \in {"granted", "permitted"} /\ To(r, k, "fail_granted")
        /\ Release(Submission(r, k)) /\ UNCHANGED job
     \/ /\ task[r][k].pc \in {"spawned", "receipt"} /\ To(r, k, "fail_spawned")
        /\ Release(Submission(r, k))
        /\ IF task[r][k].pc = "spawned" THEN job' \in {job, [job EXCEPT ![k] = "running"]}
           ELSE UNCHANGED job
  /\ UNCHANGED <<journalVars, alive, holder, poll, ghostVars>>

-----------------------------------------------------------------------------
(***************************************************************************)
(* Callers.                                                                *)
(***************************************************************************)
\* cancelTask: only what is still queued is cancelled by the runtime; a
\* pending submission is aborted (Abort), an accepted one is left alone.
Cancel(r, k) ==
  /\ "users" \in Features /\ Reloaded[k].state = "queued"
  /\ Commit(r, Put(k, Closed(Reloaded[k], "cancelled")))
  /\ IF task[r][k].pc = "queued" THEN Over(r, k) ELSE UNCHANGED task
  /\ UNCHANGED <<alive, holder, arbiterVars, poll, job, ghostVars>>

\* deleteTask: what has not been started is gone, the rest is only hidden.
Delete(r, k) ==
  /\ "users" \in Features
  /\ Reloaded[k].state \notin {"absent", "deleted"}
  /\ ~Reloaded[k].hidden /\ ~Reloaded[k].legacy
  /\ IF Reloaded[k].state = "queued" \/ Reloaded[k].phase = "reserved"
     THEN /\ Commit(r, Put(k, Closed(Reloaded[k], "deleted")))
          /\ IF task[r][k].pc = "queued" THEN Over(r, k) ELSE UNCHANGED task
     ELSE Commit(r, Put(k, [Reloaded[k] EXCEPT !.hidden = TRUE])) /\ UNCHANGED task
  /\ UNCHANGED <<alive, holder, arbiterVars, poll, job, ghostVars>>

-----------------------------------------------------------------------------
(***************************************************************************)
(* The older run keeps the lock of the journal until the CLI has answered. *)
(***************************************************************************)
RunBegin(r, k) ==
  /\ "legacy" \in Features /\ task[r][k].pc = "none" /\ enqueues[k] < MaxEnqueues
  /\ Reloaded[k].state = "absent" /\ Cardinality(Occupied) < MaxActive
  /\ Commit(r, Put(k, [NoRecord EXCEPT !.state = "pending", !.legacy = TRUE]))
  /\ holder' = r
  /\ Request(Submission(r, k), session)
  /\ task' = [task EXCEPT ![r][k] = [pc |-> "run", session |-> session]]
  /\ enqueues' = [enqueues EXCEPT ![k] = @ + 1]
  /\ UNCHANGED <<active, session, alive, poll, job, spawns, crashes>>

\* The transaction of the run goes on: k's record becomes rec.
RunWrites(r, k, rec) ==
  /\ journal' = [journal EXCEPT ![k] = rec]
  /\ Remember(r, journal')
  /\ UNCHANGED line

RunSpawn(r, k) ==
  /\ At(r, k, "run") /\ holder = r /\ Grant(Submission(r, k))
  /\ RunWrites(r, k, [journal[k] EXCEPT !.session = task[r][k].session])
  /\ To(r, k, "run_spawned")
  /\ spawns' = [spawns EXCEPT ![k] = @ + 1]
  /\ UNCHANGED <<alive, holder, poll, job, enqueues, crashes>>

RunRefused(r, k) ==
  /\ At(r, k, "run") /\ holder = r /\ Refuse(Submission(r, k))
  /\ RunWrites(r, k, NoRecord)
  /\ Over(r, k) /\ holder' = Nobody
  /\ UNCHANGED <<alive, poll, job, ghostVars>>

\* A lease of the CLI that was lost leaves the record pending, as a crash does.
RunEnds(r, k) ==
  /\ At(r, k, "run_spawned") /\ holder = r
  /\ \/ /\ job' = [job EXCEPT ![k] = "running"]
        /\ RunWrites(r, k, IF IsCurrent(Submission(r, k))
                           THEN [Closed(journal[k], "accepted") EXCEPT !.receipt = TRUE]
                           ELSE journal[k])
     \/ /\ "lost" \in Features
        /\ job' \in {job, [job EXCEPT ![k] = "running"]}
        /\ RunWrites(r, k, Closed(journal[k], "unknown"))
  /\ Over(r, k) /\ holder' = Nobody /\ Release(Submission(r, k))
  /\ UNCHANGED <<alive, poll, ghostVars>>
=============================================================================
