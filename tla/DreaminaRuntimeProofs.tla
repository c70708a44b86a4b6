------------------------ MODULE DreaminaRuntimeProofs ------------------------
(***************************************************************************)
(* Proofs about DreaminaRuntime, for any runtimes, keys and slots, and for *)
(* every set of features, every lapsed lease and busy lock included: the   *)
(* CLI is started at most once for a key, and what has ended stays ended.  *)
(* If runtimes that live renew their lease of the CLI in time, one CLI     *)
(* runs at a time, under the account that its caller expects.              *)
(***************************************************************************)
EXTENDS DreaminaRuntime, SequenceTheorems, FiniteSetTheorems, TLAPS

JobStates == {"none", "running", "completed", "failed", "cancelled"}

\* Records, with the words of the provider among the states: that they never
\* are is proved at the end (WellTyped).
Recs ==
  [state : States \cup JobStates, phase : Phases, owner : Runtimes \cup {Nobody},
   live : BOOLEAN, receipt : BOOLEAN, outputs : BOOLEAN, hidden : BOOLEAN,
   legacy : BOOLEAN, session : 0 .. MaxSessions,
   poller : Runtimes \cup {Nobody}, pollLive : BOOLEAN]

Polls ==
  [pc : {"idle", "claimed", "waiting", "running", "observed", "error"},
   key : Keys \cup {Nobody}, session : 0 .. MaxSessions,
   answer : JobStates \cup {"processing"}]

Types ==
  /\ journal \in [Keys -> Recs]
  /\ task \in [Runtimes -> [Keys -> Tasks]]
  /\ holder \in Runtimes \cup {Nobody}
  /\ poll \in [Runtimes -> Polls]
  /\ \A r \in Runtimes : poll[r].pc # "idle" => poll[r].key \in Keys
  /\ job \in [Keys -> JobStates]
  /\ spawns \in [Keys -> Nat]
  /\ session \in 0 .. MaxSessions

Runs == {"run", "run_spawned"}

\* Where a submission stands before the CLI is started.
Unstarted == {"queued", "reserved", "waiting", "granted", "permitted", "fail_early",
              "fail_granted", "run"}

NoTaskFor(k) == \A r \in Runtimes : task[r][k].pc = "none"

\* A key that may be submitted has no submission and was never started.
AbsentIsFresh(k) == journal[k].state = "absent" => NoTaskFor(k) /\ spawns[k] = 0

\* Only one runtime submits a key, and it starts the CLI if nobody has.
OneSubmitter(k) ==
  \A r, q \in Runtimes : task[r][k].pc # "none" /\ task[q][k].pc # "none" => r = q

StartsOnce(k) ==
  /\ spawns[k] <= 1
  /\ \A r \in Runtimes : task[r][k].pc \in Unstarted => spawns[k] = 0

\* A receipt ends the submission; only what has one is accepted or polled.
ReceiptEnds(k) ==
  /\ journal[k].receipt =>
       /\ NoTaskFor(k)
       /\ journal[k].state \notin {"absent", "queued", "pending", "unknown"}
  /\ journal[k].state = "accepted" => journal[k].receipt
  /\ journal[k].outputs => journal[k].receipt
  /\ journal[k].poller # Nobody =>
       journal[k].receipt /\ journal[k].state \in {"accepted", "succeeded"}

\* Only a pending record is reserved or permitted.
PhaseIsPending(k) == journal[k].phase # "none" => journal[k].state = "pending"

\* The older run keeps the lock, so that its record stays pending.
RunHolds(k) ==
  \A r \in Runtimes : task[r][k].pc \in Runs => holder = r /\ journal[k].state = "pending"

KeyOK(k) ==
  /\ AbsentIsFresh(k) /\ OneSubmitter(k) /\ StartsOnce(k)
  /\ ReceiptEnds(k) /\ PhaseIsPending(k) /\ RunHolds(k)

\* There is one older run at a time.
OneRun ==
  \A p, q \in Runtimes, k, l \in Keys :
     task[p][k].pc \in Runs /\ task[q][l].pc \in Runs => k = l

IInv == Types /\ OneRun /\ \A k \in Keys : KeyOK(k)

\* What a step may do to the record of k, and what every step leaves.
Stays(k) ==
  /\ journal[k].state \in Ended => journal'[k].state = journal[k].state
  /\ journal[k].receipt => journal'[k].receipt
  /\ journal[k].outputs => journal'[k].outputs

StepOK == Types' /\ OneRun' /\ \A k \in Keys : KeyOK(k)' /\ Stays(k)

-----------------------------------------------------------------------------
(* The records. *)

\* A record goes on: leases, owners and flags may change, and what was queued
\* or pending is taken one step further, or closed without a receipt.
Continues(old, new) ==
  /\ \/ new.state = old.state
     \/ /\ old.state \in {"queued", "pending"}
        /\ new.state \in {"pending", "failed", "unknown", "cancelled", "deleted"}
  /\ new.receipt = old.receipt /\ new.outputs = old.outputs
  /\ new.poller = old.poller \/ new.poller = Nobody
  /\ new.phase # "none" =>
       \/ new.state = "pending"
       \/ new.phase = old.phase /\ new.state = old.state

\* A record goes on in two steps as in one.
LEMMA ContinuesOn ==
  ASSUME NEW a, NEW b, NEW c, Continues(a, b), Continues(b, c)
  PROVE  Continues(a, c)
BY DEF Continues

\* Closing a record changes its state, and keeps what is known of its job.
LEMMA ClosedRecord ==
  ASSUME NEW rec \in Recs, NEW s \in States
  PROVE  /\ Closed(rec, s) \in Recs
         /\ Closed(rec, s).state = s /\ Closed(rec, s).receipt = rec.receipt
         /\ Closed(rec, s).outputs = rec.outputs /\ Closed(rec, s).poller = rec.poller
         /\ Closed(rec, s).phase = "none"
BY DEF Closed, Recs, Phases

\* Closing what is queued or pending is a way to go on.
LEMMA ClosingContinues ==
  ASSUME NEW rec \in Recs, NEW s \in {"failed", "unknown", "cancelled", "deleted"},
         rec.state \in {"queued", "pending"}
  PROVE  Closed(rec, s) \in Recs /\ Continues(rec, Closed(rec, s))
<1>1. s \in States
  BY DEF States
<1>. QED BY <1>1, ClosedRecord DEF Continues

\* The repair of a reload is a way to go on.
LEMMA RepairedRecord ==
  ASSUME NEW rec \in Recs
  PROVE  Repaired(rec) \in Recs /\ Continues(rec, Repaired(rec))
<1>1. Continues(rec, rec)
  BY DEF Continues
<1>2. CASE rec.state = "queued" /\ ~rec.live
  BY <1>2, ClosingContinues DEF Repaired
<1>3. CASE rec.state = "pending" /\ ~rec.live
  BY <1>3, ClosingContinues DEF Repaired
<1>. QED BY <1>1, <1>2, <1>3 DEF Repaired

\* A reload lets every record go on.
LEMMA ReloadedRecords ==
  ASSUME Types
  PROVE  /\ Reloaded \in [Keys -> Recs]
         /\ \A k \in Keys : Continues(journal[k], Reloaded[k])
BY RepairedRecord DEF Types, Reloaded

\* A new record is absent and knows nothing of a job.
LEMMA NewRecord ==
  /\ NoRecord \in Recs /\ NoRecord.state = "absent" /\ NoRecord.receipt = FALSE
  /\ NoRecord.outputs = FALSE /\ NoRecord.poller = Nobody /\ NoRecord.phase = "none"
BY BoundsAssumption DEF NoRecord, Recs, States, Phases

-----------------------------------------------------------------------------
(* The tasks. *)

\* A submission keeps its place, or leaves it for one that is not a run and
\* that is no longer before the start if its place was not.
Proceeds(old, new) ==
  \/ new.pc = old.pc
  \/ /\ old.pc # "none" /\ new.pc \notin Runs
     /\ new.pc \in Unstarted => old.pc \in Unstarted

\* A key whose record goes on, and whose submission proceeds or is over.
LEMMA Quiet ==
  ASSUME Types, NEW k \in Keys, KeyOK(k), Continues(journal[k], journal'[k]),
         spawns'[k] = spawns[k],
         \A r \in Runtimes : Proceeds(task[r][k], task'[r][k]),
         \A r \in Runtimes : task'[r][k].pc \in Runs =>
            holder' = holder /\ journal'[k].state = journal[k].state
  PROVE  KeyOK(k)' /\ Stays(k)
<1>1. AbsentIsFresh(k)'
  BY DEF KeyOK, AbsentIsFresh, NoTaskFor, Continues, Proceeds
<1>2. OneSubmitter(k)' /\ StartsOnce(k)'
  BY DEF KeyOK, OneSubmitter, StartsOnce, Unstarted, Proceeds
<1>3. ReceiptEnds(k)'
  BY DEF KeyOK, ReceiptEnds, NoTaskFor, Continues, Proceeds
<1>4. PhaseIsPending(k)'
  BY DEF KeyOK, PhaseIsPending, Continues
<1>5. RunHolds(k)'
  BY DEF KeyOK, RunHolds, Runs, Proceeds
<1>6. Stays(k)
  BY DEF Stays, Continues, Ended
<1>. QED BY <1>1, <1>2, <1>3, <1>4, <1>5, <1>6 DEF KeyOK

\* Only the submission of k by r changes.
Only(r, k) ==
  \A p \in Runtimes, q \in Keys : p # r \/ q # k => task'[p][q] = task[p][q]

\* The place of one submission is changed.
LEMMA OneTask ==
  ASSUME Types, NEW r \in Runtimes, NEW k \in Keys, NEW t \in Tasks,
         task' = [task EXCEPT ![r][k] = t]
  PROVE  task' \in [Runtimes -> [Keys -> Tasks]] /\ Only(r, k) /\ task'[r][k] = t
BY DEF Types, Only

\* One submission moves to another place.
LEMMA MovedTask ==
  ASSUME Types, NEW r \in Runtimes, NEW k \in Keys,
         NEW where \in {"none", "queued", "reserved", "waiting", "granted", "permitted",
                        "spawned", "receipt", "fail_early", "fail_granted",
                        "fail_spawned", "failtask", "run", "run_spawned"},
         To(r, k, where)
  PROVE  /\ task' \in [Runtimes -> [Keys -> Tasks]] /\ Only(r, k)
         /\ task'[r][k].pc = where /\ task'[r][k].session = task[r][k].session
<1>. DEFINE t == [task[r][k] EXCEPT !.pc = where]
<1>1. task[r][k] \in Tasks
  BY DEF Types
<1>2. t \in Tasks /\ t.pc = where /\ t.session = task[r][k].session
  BY <1>1 DEF Tasks, Renewed
<1>3. task' = [task EXCEPT ![r][k] = t]
  BY DEF To
<1>. HIDE DEF t
<1>4. task' \in [Runtimes -> [Keys -> Tasks]] /\ Only(r, k) /\ task'[r][k] = t
  BY <1>2, <1>3, OneTask
<1>. QED BY <1>2, <1>4

\* One submission is over.
LEMMA OverTask ==
  ASSUME Types, NEW r \in Runtimes, NEW k \in Keys, Over(r, k)
  PROVE  task' \in [Runtimes -> [Keys -> Tasks]] /\ Only(r, k) /\ task'[r][k].pc = "none"
<1>1. NoTask \in Tasks /\ NoTask.pc = "none"
  BY BoundsAssumption DEF NoTask, Tasks
<1>. QED BY <1>1, OneTask DEF Over

\* Nobody runs another key.
OnlyRun(k) == \A p \in Runtimes, q \in Keys \ {k} : task[p][q].pc \notin Runs

-----------------------------------------------------------------------------
(* Steps of the submission of one key. *)

\* A step of the submission of k by r: the other keys go on by themselves.
LEMMA OwnStep ==
  ASSUME IInv, NEW r \in Runtimes, NEW k \in Keys,
         task' \in [Runtimes -> [Keys -> Tasks]], Only(r, k),
         task'[r][k].pc \in Runs => OnlyRun(k),
         journal' \in [Keys -> Recs],
         \A q \in Keys \ {k} : Continues(journal[q], journal'[q]),
         \A p \in Runtimes, q \in Keys \ {k} : task[p][q].pc \in Runs =>
            holder' = holder /\ journal'[q].state = journal[q].state,
         holder' \in Runtimes \cup {Nobody}, job' \in [Keys -> JobStates],
         spawns' \in [Keys -> Nat], \A q \in Keys \ {k} : spawns'[q] = spawns[q],
         poll' = poll, session' = session,
         KeyOK(k)', Stays(k)
  PROVE  StepOK
<1>1. Types'
  BY DEF IInv, Types
<1>2. ASSUME NEW q \in Keys, q # k PROVE KeyOK(q)' /\ Stays(q)
  <2>1. \A p \in Runtimes : Proceeds(task[p][q], task'[p][q])
    BY <1>2 DEF Only, Proceeds
  <2>2. \A p \in Runtimes : task'[p][q].pc \in Runs =>
          holder' = holder /\ journal'[q].state = journal[q].state
    BY <1>2 DEF Only
  <2>. QED BY <1>2, <2>1, <2>2, Quiet DEF IInv
<1>3. OneRun'
  <2>1. \A p \in Runtimes, q \in Keys : q # k => task'[p][q] = task[p][q]
    BY DEF Only
  <2>2. \A p \in Runtimes : p # r => task'[p][k] = task[p][k]
    BY DEF Only
  <2>3. CASE task'[r][k].pc \in Runs
    BY <2>1, <2>3 DEF OneRun, OnlyRun
  <2>4. CASE task'[r][k].pc \notin Runs
    <3>1. \A p \in Runtimes, q \in Keys : task'[p][q].pc \in Runs => task[p][q].pc \in Runs
      BY <2>1, <2>2, <2>4
    <3>2. OneRun
      BY DEF IInv
    <3>. QED BY <3>1, <3>2 DEF OneRun
  <2>. QED BY <2>3, <2>4
<1>. QED BY <1>1, <1>2, <1>3 DEF StepOK

\* The same, when the submission and the record of k go on.
LEMMA OwnQuietStep ==
  ASSUME IInv, NEW r \in Runtimes, NEW k \in Keys,
         task' \in [Runtimes -> [Keys -> Tasks]], Only(r, k),
         Proceeds(task[r][k], task'[r][k]),
         journal' \in [Keys -> Recs],
         \A q \in Keys : Continues(journal[q], journal'[q]),
         \A p \in Runtimes, q \in Keys : task'[p][q].pc \in Runs =>
            holder' = holder /\ journal'[q].state = journal[q].state,
         holder' \in Runtimes \cup {Nobody}, job' \in [Keys -> JobStates],
         spawns' = spawns, poll' = poll, session' = session
  PROVE  StepOK
<1>1. Types'
  BY DEF IInv, Types
<1>2. ASSUME NEW q \in Keys PROVE KeyOK(q)' /\ Stays(q)
  <2>1. \A p \in Runtimes : Proceeds(task[p][q], task'[p][q])
    BY DEF Only, Proceeds
  <2>. QED BY <2>1, Quiet DEF IInv
<1>3. \A p \in Runtimes, q \in Keys : task'[p][q].pc \in Runs => task[p][q].pc \in Runs
  BY DEF Only, Proceeds
<1>4. OneRun'
  BY <1>3 DEF OneRun, IInv
<1>. QED BY <1>1, <1>2, <1>4 DEF StepOK

-----------------------------------------------------------------------------
(* Transactions. *)

\* While somebody may commit, no older run is under way.
LEMMA NoRunAtCommit ==
  ASSUME IInv, holder = Nobody
  PROVE  \A p \in Runtimes, q \in Keys : task[p][q].pc \notin Runs
BY NobodyAssumption DEF IInv, KeyOK, RunHolds

\* What a transaction that writes the record of k leaves.
LEMMA Committed ==
  ASSUME IInv, NEW r \in Runtimes, NEW k \in Keys, NEW rec \in Recs,
         Commit(r, Put(k, rec))
  PROVE  /\ journal' \in [Keys -> Recs] /\ journal'[k] = rec
         /\ \A q \in Keys \ {k} : Continues(journal[q], journal'[q])
         /\ holder = Nobody
         /\ \A p \in Runtimes, q \in Keys : task[p][q].pc \notin Runs
<1>1. journal' = [Reloaded EXCEPT ![k] = rec] /\ holder = Nobody
  BY DEF Commit, Put
<1>2. Reloaded \in [Keys -> Recs] /\ \A q \in Keys : Continues(journal[q], Reloaded[q])
  BY ReloadedRecords DEF IInv
<1>. QED BY <1>1, <1>2, NoRunAtCommit

\* What a transaction that only repairs the journal leaves.
LEMMA Reread ==
  ASSUME IInv, NEW r \in Runtimes, Commit(r, Reloaded)
  PROVE  /\ journal' \in [Keys -> Recs]
         /\ \A q \in Keys : Continues(journal[q], journal'[q])
         /\ holder = Nobody
         /\ \A p \in Runtimes, q \in Keys : task[p][q].pc \notin Runs
BY ReloadedRecords, NoRunAtCommit DEF Commit, IInv

\* What a step of the submission of k by r leaves alone when nobody starts the
\* CLI or takes the lock.
Rest == /\ holder' = holder /\ spawns' = spawns /\ poll' = poll /\ session' = session
        /\ job' \in [Keys -> JobStates]

\* A submission proceeds, and the journal is left alone.
LEMMA QuietTask ==
  ASSUME IInv, NEW r \in Runtimes, NEW k \in Keys,
         task' \in [Runtimes -> [Keys -> Tasks]], Only(r, k),
         Proceeds(task[r][k], task'[r][k]), journal' = journal, Rest
  PROVE  StepOK
<1>1. journal' \in [Keys -> Recs] /\ \A q \in Keys : Continues(journal[q], journal'[q])
  BY DEF IInv, Types, Continues
<1>2. holder' \in Runtimes \cup {Nobody}
  BY DEF IInv, Types, Rest
<1>3. \A p \in Runtimes, q \in Keys : task'[p][q].pc \in Runs =>
        holder' = holder /\ journal'[q].state = journal[q].state
  BY DEF Rest
<1>. QED BY <1>1, <1>2, <1>3, OwnQuietStep DEF Rest

\* A submission proceeds and commits a record that goes on.
LEMMA QuietCommit ==
  ASSUME IInv, NEW r \in Runtimes, NEW k \in Keys,
         task' \in [Runtimes -> [Keys -> Tasks]], Only(r, k),
         Proceeds(task[r][k], task'[r][k]),
         NEW rec \in Recs, Continues(Reloaded[k], rec), Commit(r, Put(k, rec)), Rest
  PROVE  StepOK
<1>1. /\ journal' \in [Keys -> Recs] /\ journal'[k] = rec
      /\ \A q \in Keys \ {k} : Continues(journal[q], journal'[q])
      /\ \A p \in Runtimes, q \in Keys : task[p][q].pc \notin Runs
  BY Committed
<1>2. Continues(journal[k], rec)
  BY ReloadedRecords, ContinuesOn DEF IInv
<1>3. \A q \in Keys : Continues(journal[q], journal'[q])
  BY <1>1, <1>2
<1>4. holder' \in Runtimes \cup {Nobody}
  BY DEF IInv, Types, Rest
<1>5. \A p \in Runtimes, q \in Keys : task'[p][q].pc \notin Runs
  BY <1>1 DEF Only, Proceeds
<1>. QED BY <1>1, <1>3, <1>4, <1>5, OwnQuietStep DEF Rest

\* A submission proceeds and only repairs the journal.
LEMMA QuietReread ==
  ASSUME IInv, NEW r \in Runtimes, NEW k \in Keys,
         task' \in [Runtimes -> [Keys -> Tasks]], Only(r, k),
         Proceeds(task[r][k], task'[r][k]), Commit(r, Reloaded), Rest
  PROVE  StepOK
<1>1. /\ journal' \in [Keys -> Recs]
      /\ \A q \in Keys : Continues(journal[q], journal'[q])
      /\ \A p \in Runtimes, q \in Keys : task[p][q].pc \notin Runs
  BY Reread
<1>2. holder' \in Runtimes \cup {Nobody}
  BY DEF IInv, Types, Rest
<1>3. \A p \in Runtimes, q \in Keys : task'[p][q].pc \notin Runs
  BY <1>1 DEF Only, Proceeds
<1>. QED BY <1>1, <1>2, <1>3, OwnQuietStep DEF Rest

\* An unchanged job, or one that the provider took.
LEMMA JobOK ==
  ASSUME Types, NEW k \in Keys, job' \in {job, [job EXCEPT ![k] = "running"]}
  PROVE  job' \in [Keys -> JobStates]
BY DEF Types, JobStates

-----------------------------------------------------------------------------
(* The steps of a submission that leave the journal alone. *)

\* AskForCli, after a reservation.
LEMMA AskForCliStep ==
  ASSUME IInv, NEW r \in Runtimes, NEW k \in Keys, AskForCli(r, k)
  PROVE  StepOK
<1>. DEFINE t == [pc |-> "waiting", session |-> session]
<1>1. t \in Tasks /\ t.pc = "waiting"
  BY DEF IInv, Types, Tasks, Renewed
<1>2. task' = [task EXCEPT ![r][k] = t] /\ task[r][k].pc = "reserved"
  BY DEF AskForCli, At
<1>. HIDE DEF t
<1>3. task' \in [Runtimes -> [Keys -> Tasks]] /\ Only(r, k) /\ task'[r][k].pc = "waiting"
  BY <1>1, <1>2, OneTask DEF IInv
<1>4. journal' = journal /\ Rest
  BY DEF AskForCli, journalVars, ghostVars, Rest, IInv, Types
<1>5. Proceeds(task[r][k], task'[r][k])
  BY <1>2, <1>3 DEF Proceeds, Runs, Unstarted
<1>. QED BY <1>3, <1>4, <1>5, QuietTask

\* FailBeforeCli: nothing was started.
LEMMA FailBeforeCliStep ==
  ASSUME IInv, NEW r \in Runtimes, NEW k \in Keys, FailBeforeCli(r, k)
  PROVE  StepOK
<1>1. To(r, k, "fail_early") /\ task[r][k].pc = "reserved"
  BY DEF FailBeforeCli, At
<1>2. task' \in [Runtimes -> [Keys -> Tasks]] /\ Only(r, k) /\ task'[r][k].pc = "fail_early"
  BY <1>1, MovedTask DEF IInv
<1>3. journal' = journal /\ Rest
  BY DEF FailBeforeCli, journalVars, arbiterVars, ghostVars, Rest, IInv, Types
<1>4. Proceeds(task[r][k], task'[r][k])
  BY <1>1, <1>2 DEF Proceeds, Runs, Unstarted
<1>. QED BY <1>2, <1>3, <1>4, QuietTask

\* GetCli: the lease of the CLI is had.
LEMMA GetCliStep ==
  ASSUME IInv, NEW r \in Runtimes, NEW k \in Keys, GetCli(r, k)
  PROVE  StepOK
<1>1. To(r, k, "granted") /\ task[r][k].pc = "waiting"
  BY DEF GetCli, At
<1>2. task' \in [Runtimes -> [Keys -> Tasks]] /\ Only(r, k) /\ task'[r][k].pc = "granted"
  BY <1>1, MovedTask DEF IInv
<1>3. journal' = journal /\ Rest
  BY DEF GetCli, Grant, journalVars, ghostVars, Rest, IInv, Types
<1>4. Proceeds(task[r][k], task'[r][k])
  BY <1>1, <1>2 DEF Proceeds, Runs, Unstarted
<1>. QED BY <1>2, <1>3, <1>4, QuietTask

\* LoseCli: the lease of the CLI is not had, and nothing was started.
LEMMA LoseCliStep ==
  ASSUME IInv, NEW r \in Runtimes, NEW k \in Keys, LoseCli(r, k)
  PROVE  StepOK
<1>1. task[r][k].pc = "waiting" /\ (Over(r, k) \/ To(r, k, "fail_early"))
  BY DEF LoseCli, At
<1>2. /\ task' \in [Runtimes -> [Keys -> Tasks]] /\ Only(r, k)
      /\ task'[r][k].pc \in {"none", "fail_early"}
  BY <1>1, MovedTask, OverTask DEF IInv
<1>3. journal' = journal /\ Rest
  BY DEF LoseCli, Refuse, Withdraw, journalVars, ghostVars, Rest, IInv, Types
<1>4. Proceeds(task[r][k], task'[r][k])
  BY <1>1, <1>2 DEF Proceeds, Runs, Unstarted
<1>. QED BY <1>2, <1>3, <1>4, QuietTask

\* FailToSpawn: nothing was started.
LEMMA FailToSpawnStep ==
  ASSUME IInv, NEW r \in Runtimes, NEW k \in Keys, FailToSpawn(r, k)
  PROVE  StepOK
<1>1. To(r, k, "fail_granted") /\ task[r][k].pc = "permitted"
  BY DEF FailToSpawn, At
<1>2. task' \in [Runtimes -> [Keys -> Tasks]] /\ Only(r, k) /\ task'[r][k].pc = "fail_granted"
  BY <1>1, MovedTask DEF IInv
<1>3. journal' = journal /\ Rest
  BY DEF FailToSpawn, Release, journalVars, ghostVars, Rest, IInv, Types
<1>4. Proceeds(task[r][k], task'[r][k])
  BY <1>1, <1>2 DEF Proceeds, Runs, Unstarted
<1>. QED BY <1>2, <1>3, <1>4, QuietTask

\* Answer: the receipt is held by the submission, not yet by the journal.
LEMMA AnswerStep ==
  ASSUME IInv, NEW r \in Runtimes, NEW k \in Keys, Answer(r, k)
  PROVE  StepOK
<1>1. task[r][k].pc = "spawned" /\ (To(r, k, "receipt") \/ To(r, k, "fail_spawned"))
  BY DEF Answer, At
<1>2. /\ task' \in [Runtimes -> [Keys -> Tasks]] /\ Only(r, k)
      /\ task'[r][k].pc \in {"receipt", "fail_spawned"}
  BY <1>1, MovedTask DEF IInv
<1>3. job' \in {job, [job EXCEPT ![k] = "running"]}
  BY DEF Answer
<1>4. journal' = journal /\ Rest
  BY <1>3, JobOK DEF Answer, Release, arbiterVars, journalVars, ghostVars, Rest, IInv
<1>5. Proceeds(task[r][k], task'[r][k])
  BY <1>1, <1>2 DEF Proceeds, Runs, Unstarted
<1>. QED BY <1>2, <1>4, <1>5, QuietTask

\* Abort: an aborted submission remembers whether it had started the CLI.
LEMMA AbortStep ==
  ASSUME IInv, NEW r \in Runtimes, NEW k \in Keys, Abort(r, k)
  PROVE  StepOK
<1>1. \/ /\ task[r][k].pc \in {"reserved", "waiting", "granted", "permitted"}
         /\ To(r, k, "fail_early") \/ To(r, k, "fail_granted")
      \/ task[r][k].pc \in {"spawned", "receipt"} /\ To(r, k, "fail_spawned")
  BY DEF Abort
<1>2. /\ task' \in [Runtimes -> [Keys -> Tasks]] /\ Only(r, k)
      /\ Proceeds(task[r][k], task'[r][k])
  BY <1>1, MovedTask DEF IInv, Proceeds, Runs, Unstarted
<1>3. job' \in {job, [job EXCEPT ![k] = "running"]}
  BY DEF Abort
<1>4. journal' = journal /\ Rest
  BY <1>3, JobOK DEF Abort, Release, Withdraw, arbiterVars, journalVars, ghostVars, Rest, IInv
<1>. QED BY <1>2, <1>4, QuietTask

\* TransactionDenied: no place after the start leads back before it.
LEMMA TransactionDeniedStep ==
  ASSUME IInv, NEW r \in Runtimes, NEW k \in Keys, TransactionDenied(r, k)
  PROVE  StepOK
<1>. DEFINE pc == task[r][k].pc
            t == IF AfterDenial(pc) = "none" THEN NoTask
                 ELSE [task[r][k] EXCEPT !.pc = AfterDenial(pc)]
<1>1. pc \in {"granted", "receipt", "fail_early", "fail_granted", "fail_spawned", "failtask"}
  BY DEF TransactionDenied
<1>2. /\ AfterDenial(pc) \in {"fail_granted", "fail_spawned", "failtask", "none"}
      /\ AfterDenial(pc) = "fail_granted" => pc = "granted"
  BY <1>1 DEF AfterDenial
<1>3. task[r][k] \in Tasks
  BY DEF IInv, Types
<1>4. NoTask \in Tasks /\ NoTask.pc = "none"
  BY BoundsAssumption DEF NoTask, Tasks
<1>5. t \in Tasks /\ t.pc = AfterDenial(pc)
  BY <1>2, <1>3, <1>4 DEF Tasks, Renewed
<1>6. task' = [task EXCEPT ![r][k] = t]
  BY <1>2, <1>3 DEF TransactionDenied, IInv, Types
<1>7. Proceeds(task[r][k], t)
  BY <1>1, <1>2, <1>5 DEF Proceeds, Runs, Unstarted
<1>. HIDE DEF t
<1>8. task' \in [Runtimes -> [Keys -> Tasks]] /\ Only(r, k) /\ task'[r][k] = t
  BY <1>5, <1>6, OneTask DEF IInv
<1>9. journal' = journal /\ Rest
  BY DEF TransactionDenied, Denied, Release, journalVars, ghostVars, Rest, IInv, Types
<1>. QED BY <1>7, <1>8, <1>9, QuietTask

-----------------------------------------------------------------------------
(* The steps of a submission that commit. *)

\* Reserve: a queued record gets a slot, or its submission is over.
LEMMA ReserveStep ==
  ASSUME IInv, NEW r \in Runtimes, NEW k \in Keys, Reserve(r, k)
  PROVE  StepOK
<1>. DEFINE rec == [Reloaded[k] EXCEPT !.state = "pending", !.owner = r,
                                       !.phase = "reserved", !.live = TRUE]
<1>1. task[r][k].pc = "queued" /\ Rest
  BY DEF Reserve, At, arbiterVars, ghostVars, Rest, IInv, Types
<1>2. CASE Reloaded[k].state # "queued"
  <2>1. Commit(r, Reloaded) /\ Over(r, k)
    BY <1>2 DEF Reserve
  <2>2. task' \in [Runtimes -> [Keys -> Tasks]] /\ Only(r, k) /\ task'[r][k].pc = "none"
    BY <2>1, OverTask DEF IInv
  <2>3. Proceeds(task[r][k], task'[r][k])
    BY <1>1, <2>2 DEF Proceeds, Runs, Unstarted
  <2>. QED BY <1>1, <2>1, <2>2, <2>3, QuietReread
<1>3. CASE Reloaded[k].state = "queued"
  <2>1. Commit(r, Put(k, rec)) /\ To(r, k, "reserved")
    BY <1>3 DEF Reserve
  <2>2. /\ task' \in [Runtimes -> [Keys -> Tasks]] /\ Only(r, k)
        /\ task'[r][k].pc = "reserved"
    BY <2>1, MovedTask DEF IInv
  <2>3. Proceeds(task[r][k], task'[r][k])
    BY <1>1, <2>2 DEF Proceeds, Runs, Unstarted
  <2>4. Reloaded[k] \in Recs
    BY ReloadedRecords DEF IInv
  <2>5. rec \in Recs /\ Continues(Reloaded[k], rec)
    BY <1>3, <2>4 DEF Recs, States, Phases, Continues
  <2>. HIDE DEF rec
  <2>. QED BY <1>1, <2>1, <2>2, <2>3, <2>5, QuietCommit
<1>. QED BY <1>2, <1>3

\* CommitFence: the owner of the reservation is permitted to start the CLI.
LEMMA CommitFenceStep ==
  ASSUME IInv, NEW r \in Runtimes, NEW k \in Keys, CommitFence(r, k)
  PROVE  StepOK
<1>. DEFINE rec == [Reloaded[k] EXCEPT !.phase = "spawn_permitted", !.live = TRUE,
                                       !.session = task[r][k].session]
<1>1. task[r][k].pc = "granted" /\ Rest
  BY DEF CommitFence, At, Release, arbiterVars, ghostVars, Rest, IInv, Types
<1>2. CASE ~Mine(r, k)
  <2>1. Commit(r, Reloaded) /\ Over(r, k)
    BY <1>2 DEF CommitFence
  <2>2. task' \in [Runtimes -> [Keys -> Tasks]] /\ Only(r, k) /\ task'[r][k].pc = "none"
    BY <2>1, OverTask DEF IInv
  <2>3. Proceeds(task[r][k], task'[r][k])
    BY <1>1, <2>2 DEF Proceeds, Runs, Unstarted
  <2>. QED BY <1>1, <2>1, <2>2, <2>3, QuietReread
<1>3. CASE Mine(r, k)
  <2>1. Commit(r, Put(k, rec)) /\ To(r, k, "permitted")
    BY <1>3 DEF CommitFence
  <2>2. /\ task' \in [Runtimes -> [Keys -> Tasks]] /\ Only(r, k)
        /\ task'[r][k].pc = "permitted"
    BY <2>1, MovedTask DEF IInv
  <2>3. Proceeds(task[r][k], task'[r][k])
    BY <1>1, <2>2 DEF Proceeds, Runs, Unstarted
  <2>4. Reloaded[k] \in Recs /\ Reloaded[k].state = "pending"
    BY <1>3, ReloadedRecords DEF IInv, Mine
  <2>5. task[r][k].session \in 0 .. MaxSessions
    BY DEF IInv, Types, Tasks
  <2>6. rec \in Recs /\ Continues(Reloaded[k], rec)
    BY <2>4, <2>5 DEF Recs, States, Phases, Continues
  <2>. HIDE DEF rec
  <2>. QED BY <1>1, <2>1, <2>2, <2>3, <2>6, QuietCommit
<1>. QED BY <1>2, <1>3

\* The receipt ends the submission: nobody else has one of this key.
LEMMA CommitReceiptStep ==
  ASSUME IInv, NEW r \in Runtimes, NEW k \in Keys, CommitReceipt(r, k)
  PROVE  StepOK
<1>. DEFINE closed == Closed(Reloaded[k], "accepted")
            rec == [closed EXCEPT !.receipt = TRUE]
<1>1. task[r][k].pc = "receipt" /\ Rest /\ Over(r, k)
  BY DEF CommitReceipt, At, Release, ghostVars, Rest, IInv, Types
<1>2. task' \in [Runtimes -> [Keys -> Tasks]] /\ Only(r, k) /\ task'[r][k].pc = "none"
  BY <1>1, OverTask DEF IInv
<1>3. Proceeds(task[r][k], task'[r][k])
  BY <1>1, <1>2 DEF Proceeds, Runs, Unstarted
<1>4. CASE ~(IsCurrent(Submission(r, k)) /\ Mine(r, k))
  <2>1. Commit(r, Reloaded)
    BY <1>4 DEF CommitReceipt
  <2>. QED BY <1>1, <1>2, <1>3, <2>1, QuietReread
<1>5. CASE IsCurrent(Submission(r, k)) /\ Mine(r, k)
  <2>1. Commit(r, Put(k, rec))
    BY <1>5 DEF CommitReceipt
  <2>2. Reloaded[k] \in Recs /\ Reloaded[k].state = "pending"
    BY <1>5, ReloadedRecords DEF IInv, Mine
  <2>3. Continues(journal[k], Reloaded[k]) /\ KeyOK(k)
    BY ReloadedRecords DEF IInv
  <2>4. /\ closed \in Recs /\ closed.state = "accepted" /\ closed.phase = "none"
        /\ closed.outputs = Reloaded[k].outputs /\ closed.poller = Reloaded[k].poller
    BY <2>2, ClosedRecord DEF States
  <2>. HIDE DEF closed
  <2>5. /\ rec \in Recs /\ rec.state = "accepted" /\ rec.receipt = TRUE
        /\ rec.phase = "none" /\ rec.outputs = Reloaded[k].outputs
        /\ rec.poller = Reloaded[k].poller
    BY <2>4 DEF Recs
  <2>. HIDE DEF rec
  <2>6. /\ journal' \in [Keys -> Recs] /\ journal'[k] = rec
        /\ \A q \in Keys \ {k} : Continues(journal[q], journal'[q])
        /\ \A p \in Runtimes, q \in Keys : task[p][q].pc \notin Runs
    BY <2>1, <2>5, Committed
  <2>7. journal[k].state \in {"queued", "pending"}
    BY <2>2, <2>3 DEF Continues
  <2>8. /\ ~journal[k].receipt /\ ~journal[k].outputs /\ journal[k].poller = Nobody
        /\ ~rec.outputs /\ rec.poller = Nobody
    BY <2>3, <2>5, <2>7 DEF KeyOK, ReceiptEnds, Continues
  <2>9. NoTaskFor(k)'
    BY <1>1, <1>2, <2>3 DEF KeyOK, OneSubmitter, NoTaskFor, Only
  <2>10. KeyOK(k)' /\ Stays(k)
    <3>1. AbsentIsFresh(k)' /\ OneSubmitter(k)' /\ RunHolds(k)'
      BY <2>5, <2>6, <2>9 DEF AbsentIsFresh, OneSubmitter, RunHolds, Runs, NoTaskFor
    <3>2. StartsOnce(k)'
      BY <1>1, <2>3, <2>9 DEF StartsOnce, KeyOK, Rest, NoTaskFor, Unstarted
    <3>3. ReceiptEnds(k)' /\ PhaseIsPending(k)'
      BY <2>5, <2>6, <2>8, <2>9 DEF ReceiptEnds, PhaseIsPending
    <3>4. Stays(k)
      BY <2>7, <2>8 DEF Stays, Ended
    <3>. QED BY <3>1, <3>2, <3>3, <3>4 DEF KeyOK
  <2>11. /\ holder' \in Runtimes \cup {Nobody} /\ spawns' \in [Keys -> Nat]
         /\ task'[r][k].pc \notin Runs
    BY <1>1, <1>2 DEF IInv, Types, Rest, Runs
  <2>. QED BY <1>1, <1>2, <2>6, <2>10, <2>11, OwnStep DEF Rest
<1>. QED BY <1>4, <1>5

\* What was never started is withdrawn.
LEMMA CommitFailureStep ==
  ASSUME IInv, NEW r \in Runtimes, NEW k \in Keys, CommitFailure(r, k)
  PROVE  StepOK
<1>. DEFINE denied == ~Mine(r, k) \/ (Reloaded[k].phase = "reserved" /\ ~At(r, k, "fail_early"))
<1>1. /\ task[r][k].pc \in {"fail_early", "fail_granted", "fail_spawned"}
      /\ Rest /\ Over(r, k)
  BY DEF CommitFailure, At, arbiterVars, ghostVars, Rest, IInv, Types
<1>2. task' \in [Runtimes -> [Keys -> Tasks]] /\ Only(r, k) /\ task'[r][k].pc = "none"
  BY <1>1, OverTask DEF IInv
<1>3. Proceeds(task[r][k], task'[r][k])
  BY <1>1, <1>2 DEF Proceeds, Runs, Unstarted
<1>4. Reloaded[k] \in Recs /\ Continues(journal[k], Reloaded[k]) /\ KeyOK(k)
  BY ReloadedRecords DEF IInv
<1>5. CASE denied
  <2>1. Commit(r, Reloaded)
    BY <1>5 DEF CommitFailure
  <2>. QED BY <1>1, <1>2, <1>3, <2>1, QuietReread
<1>6. CASE ~denied /\ At(r, k, "fail_spawned")
  <2>1. Commit(r, Put(k, Closed(Reloaded[k], "unknown"))) /\ Reloaded[k].state = "pending"
    BY <1>6 DEF CommitFailure, Mine
  <2>2. /\ Closed(Reloaded[k], "unknown") \in Recs
        /\ Continues(Reloaded[k], Closed(Reloaded[k], "unknown"))
    BY <1>4, <2>1, ClosingContinues
  <2>. QED BY <1>1, <1>2, <1>3, <2>1, <2>2, QuietCommit
<1>7. CASE ~denied /\ ~At(r, k, "fail_spawned")
  <2>1. Commit(r, Put(k, NoRecord)) /\ Reloaded[k].state = "pending"
    BY <1>7 DEF CommitFailure, Mine
  <2>2. task[r][k].pc \in {"fail_early", "fail_granted"}
    BY <1>7 DEF CommitFailure, At
  <2>3. /\ journal' \in [Keys -> Recs] /\ journal'[k] = NoRecord
        /\ \A q \in Keys \ {k} : Continues(journal[q], journal'[q])
        /\ \A p \in Runtimes, q \in Keys : task[p][q].pc \notin Runs
    BY <2>1, NewRecord, Committed
  <2>4. /\ journal[k].state \in {"queued", "pending"}
        /\ ~journal[k].receipt /\ ~journal[k].outputs
    BY <1>4, <2>1 DEF Continues, KeyOK, ReceiptEnds
  <2>5. NoTaskFor(k)' /\ spawns'[k] = 0
    BY <1>1, <1>2, <1>4, <2>2
    DEF KeyOK, OneSubmitter, StartsOnce, Unstarted, NoTaskFor, Only, Rest
  <2>6. KeyOK(k)' /\ Stays(k)
    <3>1. AbsentIsFresh(k)' /\ OneSubmitter(k)' /\ RunHolds(k)' /\ StartsOnce(k)'
      BY <2>5 DEF AbsentIsFresh, OneSubmitter, RunHolds, Runs, NoTaskFor, StartsOnce,
                  Unstarted
    <3>2. ReceiptEnds(k)' /\ PhaseIsPending(k)'
      BY <2>3, NewRecord DEF ReceiptEnds, PhaseIsPending
    <3>3. Stays(k)
      BY <2>4 DEF Stays, Ended
    <3>. QED BY <3>1, <3>2, <3>3 DEF KeyOK
  <2>7. /\ holder' \in Runtimes \cup {Nobody} /\ spawns' \in [Keys -> Nat]
        /\ task'[r][k].pc \notin Runs
    BY <1>1, <1>2 DEF IInv, Types, Rest, Runs
  <2>. QED BY <1>1, <1>2, <2>3, <2>6, <2>7, OwnStep DEF Rest
<1>. QED BY <1>5, <1>6, <1>7

\* FailTask closes what is queued or pending, and finds nothing accepted.
LEMMA FailTaskStep ==
  ASSUME IInv, NEW r \in Runtimes, NEW k \in Keys, FailTask(r, k)
  PROVE  StepOK
<1>1. task[r][k].pc = "failtask" /\ Rest /\ Over(r, k)
  BY DEF FailTask, At, arbiterVars, ghostVars, Rest, IInv, Types
<1>2. task' \in [Runtimes -> [Keys -> Tasks]] /\ Only(r, k) /\ task'[r][k].pc = "none"
  BY <1>1, OverTask DEF IInv
<1>3. Proceeds(task[r][k], task'[r][k])
  BY <1>1, <1>2 DEF Proceeds, Runs, Unstarted
<1>4. Reloaded[k] \in Recs /\ Continues(journal[k], Reloaded[k]) /\ KeyOK(k)
  BY ReloadedRecords DEF IInv
<1>5. Reloaded[k].state # "accepted"
  BY <1>1, <1>4 DEF Continues, KeyOK, ReceiptEnds, NoTaskFor
<1>6. CASE Reloaded[k].state \notin {"queued", "pending", "accepted"}
  <2>1. Commit(r, Reloaded)
    BY <1>6 DEF FailTask
  <2>. QED BY <1>1, <1>2, <1>3, <2>1, QuietReread
<1>7. CASE Reloaded[k].state \in {"queued", "pending", "accepted"}
  <2>1. Commit(r, Put(k, Closed(Reloaded[k], "failed")))
    BY <1>7 DEF FailTask
  <2>2. /\ Closed(Reloaded[k], "failed") \in Recs
        /\ Continues(Reloaded[k], Closed(Reloaded[k], "failed"))
    BY <1>4, <1>5, <1>7, ClosingContinues
  <2>. QED BY <1>1, <1>2, <1>3, <2>1, <2>2, QuietCommit
<1>. QED BY <1>6, <1>7

-----------------------------------------------------------------------------
(* Callers. *)

\* Cancel: only a queued record is cancelled.
LEMMA CancelStep ==
  ASSUME IInv, NEW r \in Runtimes, NEW k \in Keys, Cancel(r, k)
  PROVE  StepOK
<1>1. /\ Commit(r, Put(k, Closed(Reloaded[k], "cancelled")))
      /\ Reloaded[k].state = "queued" /\ Rest
  BY DEF Cancel, arbiterVars, ghostVars, Rest, IInv, Types
<1>2. Reloaded[k] \in Recs
  BY ReloadedRecords DEF IInv
<1>3. /\ Closed(Reloaded[k], "cancelled") \in Recs
      /\ Continues(Reloaded[k], Closed(Reloaded[k], "cancelled"))
  BY <1>1, <1>2, ClosingContinues
<1>4. /\ task' \in [Runtimes -> [Keys -> Tasks]] /\ Only(r, k)
      /\ Proceeds(task[r][k], task'[r][k])
  <2>1. CASE task[r][k].pc = "queued"
    <3>1. Over(r, k)
      BY <2>1 DEF Cancel
    <3>. QED BY <2>1, <3>1, OverTask DEF IInv, Proceeds, Runs, Unstarted
  <2>2. CASE task[r][k].pc # "queued"
    <3>1. task' = task
      BY <2>2 DEF Cancel
    <3>. QED BY <3>1 DEF IInv, Types, Only, Proceeds
  <2>. QED BY <2>1, <2>2
<1>. QED BY <1>1, <1>3, <1>4, QuietCommit

\* Delete: a record that is deleted was queued or reserved.
LEMMA DeleteStep ==
  ASSUME IInv, NEW r \in Runtimes, NEW k \in Keys, Delete(r, k)
  PROVE  StepOK
<1>. DEFINE hidden == [Reloaded[k] EXCEPT !.hidden = TRUE]
<1>1. Rest
  BY DEF Delete, arbiterVars, ghostVars, Rest, IInv, Types
<1>2. Reloaded[k] \in Recs /\ Continues(journal[k], Reloaded[k]) /\ KeyOK(k)
  BY ReloadedRecords DEF IInv
<1>3. CASE Reloaded[k].state = "queued" \/ Reloaded[k].phase = "reserved"
  <2>1. Commit(r, Put(k, Closed(Reloaded[k], "deleted")))
    BY <1>3 DEF Delete
  <2>2. Reloaded[k].state \in {"queued", "pending"}
    BY <1>2, <1>3 DEF Continues, KeyOK, PhaseIsPending
  <2>3. /\ Closed(Reloaded[k], "deleted") \in Recs
        /\ Continues(Reloaded[k], Closed(Reloaded[k], "deleted"))
    BY <1>2, <2>2, ClosingContinues
  <2>4. /\ task' \in [Runtimes -> [Keys -> Tasks]] /\ Only(r, k)
        /\ Proceeds(task[r][k], task'[r][k])
    <3>1. CASE task[r][k].pc = "queued"
      <4>1. Over(r, k)
        BY <1>3, <3>1 DEF Delete
      <4>. QED BY <3>1, <4>1, OverTask DEF IInv, Proceeds, Runs, Unstarted
    <3>2. CASE task[r][k].pc # "queued"
      <4>1. task' = task
        BY <1>3, <3>2 DEF Delete
      <4>. QED BY <4>1 DEF IInv, Types, Only, Proceeds
    <3>. QED BY <3>1, <3>2
  <2>. QED BY <1>1, <2>1, <2>3, <2>4, QuietCommit
<1>4. CASE ~(Reloaded[k].state = "queued" \/ Reloaded[k].phase = "reserved")
  <2>1. Commit(r, Put(k, hidden)) /\ task' = task
    BY <1>4 DEF Delete
  <2>2. hidden \in Recs /\ Continues(Reloaded[k], hidden)
    BY <1>2 DEF Recs, Continues
  <2>. HIDE DEF hidden
  <2>3. /\ task' \in [Runtimes -> [Keys -> Tasks]] /\ Only(r, k)
        /\ Proceeds(task[r][k], task'[r][k])
    BY <2>1 DEF IInv, Types, Only, Proceeds
  <2>. QED BY <1>1, <2>1, <2>2, <2>3, QuietCommit
<1>. QED BY <1>3, <1>4

\* A new record is queued for a key that has none, and no submission.
LEMMA EnqueueStep ==
  ASSUME IInv, NEW r \in Runtimes, NEW k \in Keys, Enqueue(r, k)
  PROVE  StepOK
<1>. DEFINE rec == [NoRecord EXCEPT !.state = "queued", !.owner = r, !.live = TRUE]
<1>1. Commit(r, Put(k, rec)) /\ To(r, k, "queued") /\ Reloaded[k].state = "absent"
  BY DEF Enqueue
<1>2. Rest
  BY DEF Enqueue, arbiterVars, Rest, IInv, Types
<1>3. /\ rec \in Recs /\ rec.state = "queued" /\ ~rec.receipt /\ ~rec.outputs
      /\ rec.poller = Nobody /\ rec.phase = "none"
  BY NewRecord DEF Recs, States
<1>. HIDE DEF rec
<1>4. task' \in [Runtimes -> [Keys -> Tasks]] /\ Only(r, k) /\ task'[r][k].pc = "queued"
  BY <1>1, MovedTask DEF IInv
<1>5. Continues(journal[k], Reloaded[k]) /\ KeyOK(k)
  BY ReloadedRecords DEF IInv
<1>6. /\ journal' \in [Keys -> Recs] /\ journal'[k] = rec
      /\ \A q \in Keys \ {k} : Continues(journal[q], journal'[q])
      /\ \A p \in Runtimes, q \in Keys : task[p][q].pc \notin Runs
  BY <1>1, <1>3, Committed
<1>7. journal[k].state = "absent"
  BY <1>1, <1>5 DEF Continues
<1>8. NoTaskFor(k) /\ spawns[k] = 0 /\ ~journal[k].receipt /\ ~journal[k].outputs
  BY <1>5, <1>7 DEF KeyOK, AbsentIsFresh, ReceiptEnds
<1>9. KeyOK(k)' /\ Stays(k)
  <2>1. AbsentIsFresh(k)' /\ ReceiptEnds(k)' /\ PhaseIsPending(k)'
    BY <1>3, <1>6 DEF AbsentIsFresh, ReceiptEnds, PhaseIsPending
  <2>2. OneSubmitter(k)'
    BY <1>4, <1>8 DEF OneSubmitter, Only, NoTaskFor
  <2>3. StartsOnce(k)'
    BY <1>2, <1>8 DEF StartsOnce, Rest
  <2>4. RunHolds(k)'
    BY <1>4, <1>8 DEF RunHolds, Runs, Only, NoTaskFor
  <2>5. Stays(k)
    BY <1>7, <1>8 DEF Stays, Ended
  <2>. QED BY <2>1, <2>2, <2>3, <2>4, <2>5 DEF KeyOK
<1>10. /\ holder' \in Runtimes \cup {Nobody} /\ spawns' \in [Keys -> Nat]
       /\ task'[r][k].pc \notin Runs
  BY <1>2, <1>4 DEF IInv, Types, Rest, Runs
<1>. QED BY <1>2, <1>4, <1>6, <1>9, <1>10, OwnStep DEF Rest

-----------------------------------------------------------------------------
(* The CLI is started. *)

\* Spawn: nobody has started the CLI for this key, and nobody else will.
LEMMA SpawnStep ==
  ASSUME IInv, NEW r \in Runtimes, NEW k \in Keys, Spawn(r, k)
  PROVE  StepOK
<1>1. /\ task[r][k].pc = "permitted" /\ To(r, k, "spawned")
      /\ spawns' = [spawns EXCEPT ![k] = @ + 1]
      /\ journal' = journal /\ holder' = holder /\ poll' = poll
      /\ session' = session /\ job' = job
  BY DEF Spawn, At, arbiterVars, journalVars
<1>2. task' \in [Runtimes -> [Keys -> Tasks]] /\ Only(r, k) /\ task'[r][k].pc = "spawned"
  BY <1>1, MovedTask DEF IInv
<1>3. KeyOK(k) /\ spawns \in [Keys -> Nat] /\ holder \in Runtimes \cup {Nobody}
  BY DEF IInv, Types
<1>4. spawns[k] = 0 /\ spawns' \in [Keys -> Nat] /\ spawns'[k] = 1
  BY <1>1, <1>3 DEF KeyOK, StartsOnce, Unstarted
<1>5. \A q \in Keys \ {k} : spawns'[q] = spawns[q]
  BY <1>1, <1>3
<1>6. \A p \in Runtimes : p # r => task[p][k].pc = "none" /\ task'[p][k].pc = "none"
  BY <1>1, <1>2, <1>3 DEF KeyOK, OneSubmitter, Only
<1>7. KeyOK(k)' /\ Stays(k)
  <2>1. AbsentIsFresh(k)' /\ ReceiptEnds(k)' /\ PhaseIsPending(k)'
    BY <1>1, <1>3 DEF KeyOK, AbsentIsFresh, ReceiptEnds, PhaseIsPending, NoTaskFor
  <2>2. OneSubmitter(k)'
    BY <1>6 DEF OneSubmitter
  <2>3. StartsOnce(k)'
    BY <1>2, <1>4, <1>6 DEF StartsOnce, Unstarted
  <2>4. RunHolds(k)'
    BY <1>2, <1>6 DEF RunHolds, Runs
  <2>5. Stays(k)
    BY <1>1 DEF Stays
  <2>. QED BY <2>1, <2>2, <2>3, <2>4, <2>5 DEF KeyOK
<1>8. /\ journal' \in [Keys -> Recs]
      /\ \A q \in Keys \ {k} : Continues(journal[q], journal'[q])
      /\ job' \in [Keys -> JobStates] /\ holder' \in Runtimes \cup {Nobody}
      /\ \A p \in Runtimes, q \in Keys \ {k} : task[p][q].pc \in Runs =>
            holder' = holder /\ journal'[q].state = journal[q].state
  BY <1>1 DEF IInv, Types, Continues
<1>9. task'[r][k].pc \notin Runs
  BY <1>2 DEF Runs
<1>. QED BY <1>1, <1>2, <1>4, <1>5, <1>7, <1>8, <1>9, OwnStep

\* RunBegin takes the lock with a new pending record.
LEMMA RunBeginStep ==
  ASSUME IInv, NEW r \in Runtimes, NEW k \in Keys, RunBegin(r, k)
  PROVE  StepOK
<1>. DEFINE rec == [NoRecord EXCEPT !.state = "pending", !.legacy = TRUE]
            t == [pc |-> "run", session |-> session]
<1>1. Commit(r, Put(k, rec)) /\ Reloaded[k].state = "absent" /\ holder' = r
  BY DEF RunBegin
<1>2. /\ spawns' = spawns /\ poll' = poll /\ session' = session /\ job' = job
      /\ task' = [task EXCEPT ![r][k] = t]
  BY DEF RunBegin
<1>3. t \in Tasks /\ t.pc = "run"
  BY DEF IInv, Types, Tasks, Renewed
<1>4. /\ rec \in Recs /\ rec.state = "pending" /\ ~rec.receipt /\ ~rec.outputs
      /\ rec.poller = Nobody /\ rec.phase = "none"
  BY NewRecord DEF Recs, States
<1>. HIDE DEF rec, t
<1>5. task' \in [Runtimes -> [Keys -> Tasks]] /\ Only(r, k) /\ task'[r][k].pc = "run"
  BY <1>2, <1>3, OneTask DEF IInv
<1>6. Continues(journal[k], Reloaded[k]) /\ KeyOK(k)
  BY ReloadedRecords DEF IInv
<1>7. /\ journal' \in [Keys -> Recs] /\ journal'[k] = rec
      /\ \A q \in Keys \ {k} : Continues(journal[q], journal'[q])
      /\ \A p \in Runtimes, q \in Keys : task[p][q].pc \notin Runs
  BY <1>1, <1>4, Committed
<1>8. journal[k].state = "absent"
  BY <1>1, <1>6 DEF Continues
<1>9. NoTaskFor(k) /\ spawns[k] = 0 /\ ~journal[k].receipt /\ ~journal[k].outputs
  BY <1>6, <1>8 DEF KeyOK, AbsentIsFresh, ReceiptEnds
<1>10. KeyOK(k)' /\ Stays(k)
  <2>1. AbsentIsFresh(k)' /\ ReceiptEnds(k)' /\ PhaseIsPending(k)'
    BY <1>4, <1>7 DEF AbsentIsFresh, ReceiptEnds, PhaseIsPending
  <2>2. OneSubmitter(k)'
    BY <1>5, <1>9 DEF OneSubmitter, Only, NoTaskFor
  <2>3. StartsOnce(k)'
    BY <1>2, <1>9 DEF StartsOnce
  <2>4. RunHolds(k)'
    BY <1>1, <1>4, <1>5, <1>7, <1>9 DEF RunHolds, Runs, Only, NoTaskFor
  <2>5. Stays(k)
    BY <1>8, <1>9 DEF Stays, Ended
  <2>. QED BY <2>1, <2>2, <2>3, <2>4, <2>5 DEF KeyOK
<1>11. /\ spawns' \in [Keys -> Nat] /\ job' \in [Keys -> JobStates]
       /\ holder' \in Runtimes \cup {Nobody}
       /\ \A q \in Keys \ {k} : spawns'[q] = spawns[q]
  BY <1>1, <1>2 DEF IInv, Types
<1>12. \A p \in Runtimes, q \in Keys \ {k} : task[p][q].pc \in Runs =>
         holder' = holder /\ journal'[q].state = journal[q].state
  BY <1>7
<1>13. poll' = poll /\ session' = session /\ OnlyRun(k)
  BY <1>2, <1>7 DEF OnlyRun
<1>. QED BY <1>5, <1>7, <1>10, <1>11, <1>12, <1>13, OwnStep

\* While somebody runs k, nobody runs another key.
LEMMA RunIsAlone ==
  ASSUME IInv, NEW r \in Runtimes, NEW k \in Keys, task[r][k].pc \in Runs
  PROVE  OnlyRun(k)
BY DEF IInv, OneRun, OnlyRun

\* What a run writes while it keeps the lock.
LEMMA RunWritten ==
  ASSUME IInv, NEW r \in Runtimes, NEW k \in Keys, NEW rec \in Recs,
         RunWrites(r, k, rec)
  PROVE  /\ journal' \in [Keys -> Recs] /\ journal'[k] = rec
         /\ \A q \in Keys \ {k} : journal'[q] = journal[q]
         /\ \A q \in Keys \ {k} : Continues(journal[q], journal'[q])
BY DEF RunWrites, IInv, Types, Continues

\* RunSpawn: the only run starts the CLI for a key that nobody has started.
LEMMA RunSpawnStep ==
  ASSUME IInv, NEW r \in Runtimes, NEW k \in Keys, RunSpawn(r, k)
  PROVE  StepOK
<1>. DEFINE rec == [journal[k] EXCEPT !.session = task[r][k].session]
<1>1. /\ task[r][k].pc = "run" /\ To(r, k, "run_spawned") /\ holder = r
      /\ RunWrites(r, k, rec) /\ spawns' = [spawns EXCEPT ![k] = @ + 1]
      /\ holder' = holder /\ poll' = poll /\ session' = session /\ job' = job
  BY DEF RunSpawn, At, Grant
<1>2. task' \in [Runtimes -> [Keys -> Tasks]] /\ Only(r, k) /\ task'[r][k].pc = "run_spawned"
  BY <1>1, MovedTask DEF IInv
<1>3. /\ KeyOK(k) /\ spawns \in [Keys -> Nat] /\ journal[k] \in Recs
      /\ task[r][k].session \in 0 .. MaxSessions
  BY DEF IInv, Types, Tasks
<1>4. /\ rec \in Recs /\ rec.state = journal[k].state /\ rec.receipt = journal[k].receipt
      /\ rec.outputs = journal[k].outputs /\ rec.poller = journal[k].poller
      /\ rec.phase = journal[k].phase
  BY <1>3 DEF Recs
<1>. HIDE DEF rec
<1>5. /\ journal' \in [Keys -> Recs] /\ journal'[k] = rec
      /\ \A q \in Keys \ {k} : journal'[q] = journal[q]
      /\ \A q \in Keys \ {k} : Continues(journal[q], journal'[q])
  BY <1>1, <1>4, RunWritten
<1>6. journal[k].state = "pending" /\ spawns[k] = 0
  BY <1>1, <1>3 DEF KeyOK, StartsOnce, Unstarted, RunHolds, Runs
<1>7. spawns' \in [Keys -> Nat] /\ spawns'[k] = 1
  BY <1>1, <1>3, <1>6
<1>8. \A q \in Keys \ {k} : spawns'[q] = spawns[q]
  BY <1>1, <1>3
<1>9. \A p \in Runtimes : p # r => task[p][k].pc = "none" /\ task'[p][k].pc = "none"
  BY <1>1, <1>2, <1>3 DEF KeyOK, OneSubmitter, Only
<1>10. KeyOK(k)' /\ Stays(k)
  <2>1. AbsentIsFresh(k)' /\ ReceiptEnds(k)' /\ PhaseIsPending(k)'
    BY <1>3, <1>4, <1>5, <1>6 DEF KeyOK, AbsentIsFresh, ReceiptEnds, PhaseIsPending
  <2>2. OneSubmitter(k)'
    BY <1>9 DEF OneSubmitter
  <2>3. StartsOnce(k)'
    BY <1>2, <1>7, <1>9 DEF StartsOnce, Unstarted
  <2>4. RunHolds(k)'
    BY <1>1, <1>4, <1>5, <1>6, <1>9 DEF RunHolds, Runs
  <2>5. Stays(k)
    BY <1>4, <1>5 DEF Stays
  <2>. QED BY <2>1, <2>2, <2>3, <2>4, <2>5 DEF KeyOK
<1>11. holder' \in Runtimes \cup {Nobody} /\ job' \in [Keys -> JobStates]
  BY <1>1 DEF IInv, Types
<1>12. OnlyRun(k)
  BY <1>1, RunIsAlone DEF Runs
<1>13. \A p \in Runtimes, q \in Keys \ {k} : task[p][q].pc \in Runs =>
         holder' = holder /\ journal'[q].state = journal[q].state
  BY <1>12 DEF OnlyRun
<1>. QED BY <1>1, <1>2, <1>5, <1>7, <1>8, <1>10, <1>11, <1>12, <1>13, OwnStep

\* RunRefused withdraws a record that was never started.
LEMMA RunRefusedStep ==
  ASSUME IInv, NEW r \in Runtimes, NEW k \in Keys, RunRefused(r, k)
  PROVE  StepOK
<1>1. /\ task[r][k].pc = "run" /\ holder = r /\ holder' = Nobody
      /\ RunWrites(r, k, NoRecord) /\ Over(r, k)
      /\ poll' = poll /\ spawns' = spawns /\ session' = session /\ job' = job
  BY DEF RunRefused, At, Refuse, Withdraw, ghostVars
<1>2. task' \in [Runtimes -> [Keys -> Tasks]] /\ Only(r, k) /\ task'[r][k].pc = "none"
  BY <1>1, OverTask DEF IInv
<1>3. /\ journal' \in [Keys -> Recs] /\ journal'[k] = NoRecord
      /\ \A q \in Keys \ {k} : journal'[q] = journal[q]
      /\ \A q \in Keys \ {k} : Continues(journal[q], journal'[q])
  BY <1>1, NewRecord, RunWritten
<1>4. KeyOK(k)
  BY DEF IInv
<1>5. /\ journal[k].state = "pending" /\ spawns[k] = 0
      /\ ~journal[k].receipt /\ ~journal[k].outputs
  BY <1>1, <1>4 DEF KeyOK, StartsOnce, Unstarted, RunHolds, Runs, ReceiptEnds
<1>6. NoTaskFor(k)'
  BY <1>1, <1>2, <1>4 DEF KeyOK, OneSubmitter, NoTaskFor, Only
<1>7. KeyOK(k)' /\ Stays(k)
  <2>1. AbsentIsFresh(k)' /\ OneSubmitter(k)' /\ RunHolds(k)' /\ StartsOnce(k)'
    BY <1>1, <1>5, <1>6 DEF AbsentIsFresh, OneSubmitter, RunHolds, Runs, NoTaskFor,
                            StartsOnce, Unstarted
  <2>2. ReceiptEnds(k)' /\ PhaseIsPending(k)'
    BY <1>3, NewRecord DEF ReceiptEnds, PhaseIsPending
  <2>3. Stays(k)
    BY <1>5 DEF Stays, Ended
  <2>. QED BY <2>1, <2>2, <2>3 DEF KeyOK
<1>8. OnlyRun(k)
  BY <1>1, RunIsAlone DEF Runs
<1>9. \A p \in Runtimes, q \in Keys \ {k} : task[p][q].pc \in Runs =>
        holder' = holder /\ journal'[q].state = journal[q].state
  BY <1>8 DEF OnlyRun
<1>10. /\ holder' \in Runtimes \cup {Nobody} /\ job' \in [Keys -> JobStates]
       /\ spawns' \in [Keys -> Nat] /\ \A q \in Keys \ {k} : spawns'[q] = spawns[q]
  BY <1>1 DEF IInv, Types
<1>. QED BY <1>1, <1>2, <1>3, <1>7, <1>8, <1>9, <1>10, OwnStep

\* RunEnds gives the lock back with what is known of the job.
LEMMA RunEndsStep ==
  ASSUME IInv, NEW r \in Runtimes, NEW k \in Keys, RunEnds(r, k)
  PROVE  StepOK
<1>. DEFINE closed == Closed(journal[k], "accepted")
            accepted == [closed EXCEPT !.receipt = TRUE]
            unknown == Closed(journal[k], "unknown")
<1>1. /\ task[r][k].pc = "run_spawned" /\ holder = r /\ holder' = Nobody
      /\ Over(r, k)
      /\ poll' = poll /\ spawns' = spawns /\ session' = session
      /\ job' \in {job, [job EXCEPT ![k] = "running"]}
  BY DEF RunEnds, At, Release, ghostVars
<1>2. task' \in [Runtimes -> [Keys -> Tasks]] /\ Only(r, k) /\ task'[r][k].pc = "none"
  BY <1>1, OverTask DEF IInv
<1>3. KeyOK(k) /\ journal[k] \in Recs
  BY DEF IInv, Types
<1>4. /\ journal[k].state = "pending" /\ ~journal[k].receipt /\ ~journal[k].outputs
      /\ journal[k].poller = Nobody
  BY <1>1, <1>3 DEF KeyOK, RunHolds, Runs, ReceiptEnds
<1>5. /\ closed \in Recs /\ closed.state = "accepted" /\ closed.phase = "none"
      /\ ~closed.outputs /\ closed.poller = Nobody
  BY <1>3, <1>4, ClosedRecord DEF States
<1>6. /\ unknown \in Recs /\ unknown.state = "unknown" /\ unknown.phase = "none"
      /\ ~unknown.outputs /\ unknown.poller = Nobody /\ ~unknown.receipt
  BY <1>3, <1>4, ClosedRecord DEF States
<1>7. \E rec \in {accepted, unknown, journal[k]} : RunWrites(r, k, rec)
  BY DEF RunEnds
<1>. HIDE DEF closed, unknown
<1>8. /\ accepted \in Recs /\ accepted.state = "accepted" /\ accepted.phase = "none"
      /\ ~accepted.outputs /\ accepted.poller = Nobody /\ accepted.receipt
  BY <1>5 DEF Recs
<1>. HIDE DEF accepted
<1>9. PICK rec \in {accepted, unknown, journal[k]} : RunWrites(r, k, rec)
  BY <1>7
<1>10. /\ rec \in Recs /\ rec.state \in {"accepted", "unknown", "pending"}
       /\ rec.phase # "none" => rec.state = "pending"
       /\ ~rec.outputs /\ rec.poller = Nobody
       /\ rec.receipt <=> rec.state = "accepted"
  BY <1>3, <1>4, <1>6, <1>8 DEF KeyOK, PhaseIsPending
<1>11. /\ journal' \in [Keys -> Recs] /\ journal'[k] = rec
       /\ \A q \in Keys \ {k} : journal'[q] = journal[q]
       /\ \A q \in Keys \ {k} : Continues(journal[q], journal'[q])
  BY <1>9, <1>10, RunWritten
<1>12. NoTaskFor(k)'
  BY <1>1, <1>2, <1>3 DEF KeyOK, OneSubmitter, NoTaskFor, Only
<1>13. KeyOK(k)' /\ Stays(k)
  <2>1. OneSubmitter(k)' /\ RunHolds(k)' /\ StartsOnce(k)'
    BY <1>1, <1>3, <1>12 DEF OneSubmitter, RunHolds, Runs, NoTaskFor, StartsOnce,
                             Unstarted, KeyOK
  <2>2. AbsentIsFresh(k)' /\ ReceiptEnds(k)' /\ PhaseIsPending(k)'
    BY <1>10, <1>11, <1>12 DEF AbsentIsFresh, ReceiptEnds, PhaseIsPending
  <2>3. Stays(k)
    BY <1>4 DEF Stays, Ended
  <2>. QED BY <2>1, <2>2, <2>3 DEF KeyOK
<1>14. OnlyRun(k)
  BY <1>1, RunIsAlone DEF Runs
<1>15. \A p \in Runtimes, q \in Keys \ {k} : task[p][q].pc \in Runs =>
         holder' = holder /\ journal'[q].state = journal[q].state
  BY <1>14 DEF OnlyRun
<1>16. job' \in [Keys -> JobStates]
  BY <1>1, JobOK DEF IInv
<1>17. /\ holder' \in Runtimes \cup {Nobody}
       /\ spawns' \in [Keys -> Nat] /\ \A q \in Keys \ {k} : spawns'[q] = spawns[q]
  BY <1>1 DEF IInv, Types
<1>. QED BY <1>1, <1>2, <1>11, <1>13, <1>14, <1>15, <1>16, <1>17, OwnStep

-----------------------------------------------------------------------------
(* Steps in which all records and submissions go on. *)

\* Every record goes on, and every submission proceeds or is over.
LEMMA AllQuiet ==
  ASSUME IInv,
         task' \in [Runtimes -> [Keys -> Tasks]],
         \A p \in Runtimes, q \in Keys : Proceeds(task[p][q], task'[p][q]),
         journal' \in [Keys -> Recs],
         \A q \in Keys : Continues(journal[q], journal'[q]),
         \A p \in Runtimes, q \in Keys : task'[p][q].pc \in Runs =>
            holder' = holder /\ journal'[q].state = journal[q].state,
         holder' \in Runtimes \cup {Nobody}, job' \in [Keys -> JobStates],
         spawns' = spawns, session' \in 0 .. MaxSessions,
         poll' \in [Runtimes -> Polls],
         \A p \in Runtimes : poll'[p].pc # "idle" => poll'[p].key \in Keys
  PROVE  StepOK
<1>1. Types'
  BY DEF IInv, Types
<1>2. \A q \in Keys : KeyOK(q)' /\ Stays(q)
  BY Quiet DEF IInv
<1>3. OneRun'
  BY DEF OneRun, IInv, Proceeds
<1>. QED BY <1>1, <1>2, <1>3 DEF StepOK

\* The journal and the submissions are left alone.
LEMMA ElsewhereStep ==
  ASSUME IInv, journal' = journal, task' = task, holder' = holder, spawns' = spawns,
         job' \in [Keys -> JobStates], session' \in 0 .. MaxSessions,
         poll' \in [Runtimes -> Polls],
         \A p \in Runtimes : poll'[p].pc # "idle" => poll'[p].key \in Keys
  PROVE  StepOK
<1>1. /\ task' \in [Runtimes -> [Keys -> Tasks]]
      /\ journal' \in [Keys -> Recs] /\ holder' \in Runtimes \cup {Nobody}
  BY DEF IInv, Types
<1>2. \A p \in Runtimes, q \in Keys : Proceeds(task[p][q], task'[p][q])
  BY DEF Proceeds
<1>3. \A q \in Keys : Continues(journal[q], journal'[q])
  BY DEF Continues
<1>. QED BY <1>1, <1>2, <1>3, AllQuiet

\* A lease in a record.
LEMMA OneRecordStep ==
  ASSUME IInv, NEW k \in Keys, NEW rec \in Recs, Continues(journal[k], rec),
         rec.state = journal[k].state, journal' = [journal EXCEPT ![k] = rec],
         task' = task, holder' = holder, spawns' = spawns, job' = job,
         session' = session, poll' \in [Runtimes -> Polls],
         \A p \in Runtimes : poll'[p].pc # "idle" => poll'[p].key \in Keys
  PROVE  StepOK
<1>1. /\ task' \in [Runtimes -> [Keys -> Tasks]]
      /\ journal' \in [Keys -> Recs] /\ holder' \in Runtimes \cup {Nobody}
      /\ job' \in [Keys -> JobStates] /\ session' \in 0 .. MaxSessions
  BY DEF IInv, Types
<1>2. \A p \in Runtimes, q \in Keys : Proceeds(task[p][q], task'[p][q])
  BY DEF Proceeds
<1>3. \A q \in Keys : Continues(journal[q], journal'[q])
                      /\ journal'[q].state = journal[q].state
  BY DEF IInv, Types, Continues
<1>. QED BY <1>1, <1>2, <1>3, AllQuiet

\* Load only repairs the journal.
LEMMA LoadStep ==
  ASSUME IInv, NEW r \in Runtimes, Load(r)
  PROVE  StepOK
<1>1. Commit(r, Reloaded) /\ task' = task /\ holder' = holder
      /\ UNCHANGED <<job, spawns, session, poll>>
  BY DEF Load, arbiterVars, ghostVars
<1>2. /\ journal' \in [Keys -> Recs]
      /\ \A q \in Keys : Continues(journal[q], journal'[q])
      /\ \A p \in Runtimes, q \in Keys : task[p][q].pc \notin Runs
  BY <1>1, Reread
<1>3. \A p \in Runtimes, q \in Keys : Proceeds(task[p][q], task'[p][q])
  BY <1>1 DEF Proceeds
<1>4. /\ task' \in [Runtimes -> [Keys -> Tasks]] /\ holder' \in Runtimes \cup {Nobody}
      /\ job' \in [Keys -> JobStates] /\ session' \in 0 .. MaxSessions
      /\ poll' \in [Runtimes -> Polls]
      /\ \A p \in Runtimes : poll'[p].pc # "idle" => poll'[p].key \in Keys
  BY <1>1 DEF IInv, Types
<1>. QED BY <1>1, <1>2, <1>3, <1>4, AllQuiet

-----------------------------------------------------------------------------
(* Runtimes that go away. *)

\* A record whose owner or poller is gone goes on.
LEMMA UnownedRecord ==
  ASSUME NEW rec \in Recs, NEW r \in Runtimes
  PROVE  /\ Disowned(rec, r) \in Recs /\ Continues(rec, Disowned(rec, r))
         /\ Disowned(rec, r).state = rec.state
         /\ Unleased(rec) \in Recs /\ Continues(rec, Unleased(rec))
         /\ Unleased(rec).state = rec.state
BY DEF Disowned, Unleased, Recs, Continues

\* What a runtime that goes away leaves in memory: nothing of its own.
LEMMA GoneFacts ==
  ASSUME IInv, NEW r \in Runtimes, Gone(r)
  PROVE  /\ task' \in [Runtimes -> [Keys -> Tasks]]
         /\ \A q \in Keys : task'[r][q].pc = "none"
         /\ \A p \in Runtimes \ {r} : task'[p] = task[p]
         /\ poll' \in [Runtimes -> Polls]
         /\ \A p \in Runtimes : poll'[p].pc # "idle" => poll'[p].key \in Keys
         /\ holder' \in Runtimes \cup {Nobody}
         /\ holder # r => holder' = holder
<1>1. NoTask \in Tasks /\ NoTask.pc = "none"
  BY BoundsAssumption DEF NoTask, Tasks
<1>2. NoPoll \in Polls /\ NoPoll.pc = "idle"
  BY BoundsAssumption DEF NoPoll, Polls, JobStates
<1>3. /\ task' = [task EXCEPT ![r] = [k \in Keys |-> NoTask]]
      /\ poll' = [poll EXCEPT ![r] = NoPoll]
      /\ holder' = IF holder = r THEN Nobody ELSE holder
  BY DEF Gone
<1>. QED BY <1>1, <1>2, <1>3 DEF IInv, Types

\* Crash: the records are disowned, and what was started stays counted.
LEMMA CrashStep ==
  ASSUME IInv, NEW r \in Runtimes, Crash(r)
  PROVE  StepOK
<1>1. /\ Gone(r) /\ journal' = [k \in Keys |-> Disowned(journal[k], r)]
      /\ spawns' = spawns /\ session' = session
  BY DEF Crash, arbiterVars
<1>2. \E reached \in SUBSET Keys :
        job' = [k \in Keys |-> IF k \in reached THEN "running" ELSE job[k]]
  BY DEF Crash
<1>3. job' \in [Keys -> JobStates]
  BY <1>2 DEF IInv, Types, JobStates
<1>4. /\ journal' \in [Keys -> Recs]
      /\ \A q \in Keys : Continues(journal[q], journal'[q])
                         /\ journal'[q].state = journal[q].state
  BY <1>1, UnownedRecord DEF IInv, Types
<1>5. \A p \in Runtimes, q \in Keys : Proceeds(task[p][q], task'[p][q])
  BY <1>1, GoneFacts DEF Proceeds, Runs, Unstarted
<1>6. ASSUME NEW p \in Runtimes, NEW q \in Keys, task'[p][q].pc \in Runs
      PROVE  holder' = holder
  <2>1. p # r /\ task[p][q].pc \in Runs
    BY <1>1, <1>6, GoneFacts DEF Runs
  <2>2. holder = p
    BY <2>1 DEF IInv, KeyOK, RunHolds
  <2>. QED BY <1>1, <2>1, <2>2, GoneFacts
<1>. QED BY <1>1, <1>3, <1>4, <1>5, <1>6, GoneFacts, AllQuiet DEF IInv, Types

\* Dispose: every record goes on.
LEMMA DisposedOn ==
  ASSUME IInv, NEW r \in Runtimes, Dispose(r)
  PROVE  /\ journal' \in [Keys -> Recs]
         /\ \A q \in Keys : Continues(journal[q], journal'[q])
<1>. DEFINE kept(k) == IF Reloaded[k].poller = r THEN Unleased(Reloaded[k])
                       ELSE Reloaded[k]
            rec(k) == IF Reloaded[k].state = "queued" /\ Reloaded[k].owner = r
                      THEN Closed(Reloaded[k], "failed") ELSE Disowned(kept(k), r)
<1>1. journal' = [k \in Keys |-> rec(k)]
  BY DEF Dispose
<1>2. ASSUME NEW q \in Keys PROVE rec(q) \in Recs /\ Continues(journal[q], rec(q))
  <2>1. Reloaded[q] \in Recs /\ Continues(journal[q], Reloaded[q])
    BY ReloadedRecords DEF IInv
  <2>2. kept(q) \in Recs /\ Continues(journal[q], kept(q))
    BY <2>1, UnownedRecord, ContinuesOn
  <2>. HIDE DEF kept
  <2>3. Disowned(kept(q), r) \in Recs /\ Continues(journal[q], Disowned(kept(q), r))
    BY <2>2, UnownedRecord, ContinuesOn
  <2>4. Reloaded[q].state = "queued" =>
          /\ Closed(Reloaded[q], "failed") \in Recs
          /\ Continues(journal[q], Closed(Reloaded[q], "failed"))
    BY <2>1, ClosingContinues, ContinuesOn
  <2>. QED BY <2>3, <2>4
<1>. HIDE DEF rec
<1>. QED BY <1>1, <1>2

\* Dispose: what is queued is closed, the rest is disowned.
LEMMA DisposeStep ==
  ASSUME IInv, NEW r \in Runtimes, Dispose(r)
  PROVE  StepOK
<1>1. /\ Gone(r) /\ holder = Nobody
      /\ spawns' = spawns /\ session' = session /\ job' = job
  BY DEF Dispose, arbiterVars
<1>2. \A p \in Runtimes, q \in Keys : Proceeds(task[p][q], task'[p][q])
  BY <1>1, GoneFacts DEF Proceeds, Runs, Unstarted
<1>3. \A p \in Runtimes, q \in Keys : task'[p][q].pc \notin Runs
  BY <1>1, GoneFacts, NoRunAtCommit DEF Runs
<1>4. job' \in [Keys -> JobStates] /\ session' \in 0 .. MaxSessions
  BY <1>1 DEF IInv, Types
<1>. QED BY <1>1, <1>2, <1>3, <1>4, DisposedOn, GoneFacts, AllQuiet

-----------------------------------------------------------------------------
(* The reconciler. *)

\* What a reconciler is doing is changed.
LEMMA PollSet ==
  ASSUME IInv, NEW r \in Runtimes, NEW p \in Polls, p.pc # "idle" => p.key \in Keys,
         SetPoll(r, p)
  PROVE  /\ poll' \in [Runtimes -> Polls]
         /\ \A q \in Runtimes : poll'[q].pc # "idle" => poll'[q].key \in Keys
BY DEF SetPoll, IInv, Types

\* The poll of a record goes on with the same record.
LEMMA PollMoved ==
  ASSUME IInv, NEW r \in Runtimes, poll[r].pc # "idle",
         NEW where \in {"waiting", "running", "observed", "error"},
         NEW s \in 0 .. MaxSessions, NEW a \in JobStates \cup {"processing"}
  PROVE  /\ [poll[r] EXCEPT !.pc = where] \in Polls
         /\ [poll[r] EXCEPT !.pc = where].key \in Keys
         /\ [poll[r] EXCEPT !.pc = where, !.session = s] \in Polls
         /\ [poll[r] EXCEPT !.pc = where, !.session = s].key \in Keys
         /\ [poll[r] EXCEPT !.pc = where, !.answer = a] \in Polls
         /\ [poll[r] EXCEPT !.pc = where, !.answer = a].key \in Keys
<1>1. poll[r] \in Polls /\ poll[r].key \in Keys
  BY DEF IInv, Types
<1>. QED BY <1>1 DEF Polls

\* The record of accepted work is leased, or its observation is recorded.
LEMMA RecordStep ==
  ASSUME IInv, NEW k \in Keys, NEW rec \in Recs,
         journal[k].receipt, rec.receipt, journal[k].outputs => rec.outputs,
         journal[k].state \in {"accepted", "succeeded"},
         journal[k].state = "succeeded" => rec.state = "succeeded",
         rec.state \notin {"absent", "queued", "pending", "unknown"}, rec.phase = "none",
         rec.poller # Nobody => rec.state \in {"accepted", "succeeded"},
         journal' = [journal EXCEPT ![k] = rec],
         UNCHANGED <<task, holder, spawns, job, session>>,
         poll' \in [Runtimes -> Polls],
         \A q \in Runtimes : poll'[q].pc # "idle" => poll'[q].key \in Keys
  PROVE  StepOK
<1>1. /\ journal' \in [Keys -> Recs] /\ journal'[k] = rec
      /\ \A q \in Keys \ {k} : journal'[q] = journal[q]
  BY DEF IInv, Types
<1>2. Types' /\ OneRun'
  BY <1>1 DEF IInv, Types, OneRun
<1>3. KeyOK(k) /\ NoTaskFor(k)
  BY DEF IInv, KeyOK, ReceiptEnds
<1>4. KeyOK(k)' /\ Stays(k)
  <2>1. AbsentIsFresh(k)' /\ ReceiptEnds(k)' /\ PhaseIsPending(k)'
    BY <1>1, <1>3 DEF AbsentIsFresh, ReceiptEnds, PhaseIsPending, NoTaskFor
  <2>2. OneSubmitter(k)' /\ StartsOnce(k)'
    BY <1>3 DEF KeyOK, OneSubmitter, StartsOnce
  <2>3. RunHolds(k)'
    BY <1>3 DEF RunHolds, Runs, NoTaskFor
  <2>4. Stays(k)
    BY <1>1 DEF Stays, Ended
  <2>. QED BY <2>1, <2>2, <2>3, <2>4 DEF KeyOK
<1>5. ASSUME NEW q \in Keys, q # k PROVE KeyOK(q)' /\ Stays(q)
  BY <1>1, <1>5, Quiet DEF IInv, Continues, Proceeds
<1>. QED BY <1>2, <1>4, <1>5 DEF StepOK

\* ClaimDue leases only a record that has a receipt.
LEMMA ClaimDueStep ==
  ASSUME IInv, NEW r \in Runtimes, NEW k \in Keys, ClaimDue(r, k)
  PROVE  StepOK
<1>. DEFINE rec == [journal[k] EXCEPT !.poller = r, !.pollLive = TRUE]
            p == [NoPoll EXCEPT !.pc = "claimed", !.key = k]
<1>1. /\ journal' = [journal EXCEPT ![k] = rec] /\ Eligible(journal[k]) /\ SetPoll(r, p)
      /\ UNCHANGED <<task, holder, spawns, job, session>>
  BY DEF ClaimDue, Write, arbiterVars, ghostVars
<1>2. journal[k] \in Recs /\ KeyOK(k)
  BY DEF IInv, Types
<1>3. /\ rec \in Recs /\ rec.state = journal[k].state /\ rec.receipt = journal[k].receipt
      /\ rec.outputs = journal[k].outputs /\ rec.phase = journal[k].phase
  BY <1>2 DEF Recs
<1>4. p \in Polls /\ p.key \in Keys
  <2>1. NoPoll \in Polls
    BY BoundsAssumption DEF NoPoll, Polls, JobStates
  <2>. QED BY <2>1 DEF Polls
<1>. HIDE DEF rec, p
<1>5. /\ poll' \in [Runtimes -> Polls]
      /\ \A q \in Runtimes : poll'[q].pc # "idle" => poll'[q].key \in Keys
  BY <1>1, <1>4, PollSet
<1>6. /\ journal[k].receipt /\ journal[k].state \in {"accepted", "succeeded"}
      /\ journal[k].phase = "none"
  BY <1>1, <1>2 DEF Eligible, KeyOK, ReceiptEnds, PhaseIsPending
<1>. QED BY <1>1, <1>2, <1>3, <1>5, <1>6, RecordStep

\* AskForQuery changes only the poll.
LEMMA AskForQueryStep ==
  ASSUME IInv, NEW r \in Runtimes, AskForQuery(r)
  PROVE  StepOK
<1>1. /\ poll[r].pc = "claimed"
      /\ \/ SetPoll(r, [poll[r] EXCEPT !.pc = "waiting", !.session = session])
         \/ SetPoll(r, [poll[r] EXCEPT !.pc = "error"])
      /\ UNCHANGED <<journal, task, holder, spawns, job, session>>
  BY DEF AskForQuery, journalVars, ghostVars
<1>2. session \in 0 .. MaxSessions /\ job \in [Keys -> JobStates]
  BY DEF IInv, Types
<1>3. "none" \in JobStates
  BY DEF JobStates
<1>4. /\ poll' \in [Runtimes -> Polls]
      /\ \A q \in Runtimes : poll'[q].pc # "idle" => poll'[q].key \in Keys
  <2>1. /\ [poll[r] EXCEPT !.pc = "waiting", !.session = session] \in Polls
        /\ [poll[r] EXCEPT !.pc = "waiting", !.session = session].key \in Keys
        /\ [poll[r] EXCEPT !.pc = "error"] \in Polls
        /\ [poll[r] EXCEPT !.pc = "error"].key \in Keys
    BY <1>1, <1>2, <1>3, PollMoved
  <2>2. CASE SetPoll(r, [poll[r] EXCEPT !.pc = "waiting", !.session = session])
    BY <2>1, <2>2, PollSet
  <2>3. CASE SetPoll(r, [poll[r] EXCEPT !.pc = "error"])
    BY <2>1, <2>3, PollSet
  <2>. QED BY <1>1, <2>2, <2>3
<1>. QED BY <1>1, <1>2, <1>4, ElsewhereStep

\* GetQuery, LoseQuery and QueryAnswers change only the poll.
LEMMA QueryStep ==
  ASSUME IInv, NEW r \in Runtimes, GetQuery(r) \/ LoseQuery(r) \/ QueryAnswers(r)
  PROVE  StepOK
<1>1. poll[r].pc # "idle" /\ UNCHANGED <<journal, task, holder, spawns, job, session>>
  BY DEF GetQuery, LoseQuery, QueryAnswers, Grant, Refuse, Withdraw, Release,
         journalVars, ghostVars
<1>2. session \in 0 .. MaxSessions /\ job \in [Keys -> JobStates]
  BY DEF IInv, Types
<1>3. "none" \in JobStates
  BY DEF JobStates
<1>4. poll[r].key \in Keys
  BY <1>1 DEF IInv, Types
<1>5. Answers(poll[r].key) \subseteq JobStates \cup {"processing"}
  BY <1>2, <1>4 DEF Answers
<1>6. \E where \in {"running", "observed", "error"}, a \in JobStates \cup {"processing"} :
         \/ SetPoll(r, [poll[r] EXCEPT !.pc = where])
         \/ SetPoll(r, [poll[r] EXCEPT !.pc = where, !.answer = a])
  <2>1. CASE GetQuery(r)
    BY <1>3, <2>1 DEF GetQuery
  <2>2. CASE LoseQuery(r)
    BY <1>3, <2>2 DEF LoseQuery
  <2>3. CASE QueryAnswers(r)
    <3>1. PICK a \in Answers(poll[r].key) :
            SetPoll(r, IF IsCurrent(Polling(r))
                       THEN [poll[r] EXCEPT !.pc = "observed", !.answer = a]
                       ELSE [poll[r] EXCEPT !.pc = "error"])
      BY <2>3 DEF QueryAnswers
    <3>. QED BY <1>5, <3>1
  <2>. QED BY <2>1, <2>2, <2>3
<1>7. /\ poll' \in [Runtimes -> Polls]
      /\ \A q \in Runtimes : poll'[q].pc # "idle" => poll'[q].key \in Keys
  <2>1. PICK where \in {"running", "observed", "error"}, a \in JobStates \cup {"processing"} :
          \/ SetPoll(r, [poll[r] EXCEPT !.pc = where])
          \/ SetPoll(r, [poll[r] EXCEPT !.pc = where, !.answer = a])
    BY <1>6
  <2>2. /\ [poll[r] EXCEPT !.pc = where] \in Polls
        /\ [poll[r] EXCEPT !.pc = where].key \in Keys
        /\ [poll[r] EXCEPT !.pc = where, !.answer = a] \in Polls
        /\ [poll[r] EXCEPT !.pc = where, !.answer = a].key \in Keys
    BY <1>1, <1>2, PollMoved
  <2>3. CASE SetPoll(r, [poll[r] EXCEPT !.pc = where])
    BY <2>2, <2>3, PollSet
  <2>4. CASE SetPoll(r, [poll[r] EXCEPT !.pc = where, !.answer = a])
    BY <2>2, <2>4, PollSet
  <2>. QED BY <2>1, <2>3, <2>4
<1>. QED BY <1>1, <1>2, <1>7, ElsewhereStep

\* A late observation neither reopens what ended nor forgets the outputs.
LEMMA CommitObservationStep ==
  ASSUME IInv, NEW r \in Runtimes, CommitObservation(r)
  PROVE  StepOK
<1>. DEFINE k == poll[r].key
<1>1. /\ poll[r].pc = "observed" /\ SetPoll(r, NoPoll)
      /\ UNCHANGED <<task, holder, spawns, job, session>>
  BY DEF CommitObservation, arbiterVars, ghostVars
<1>2. /\ k \in Keys /\ poll[r].answer \in JobStates \cup {"processing"}
      /\ journal \in [Keys -> Recs] /\ journal[k] \in Recs /\ KeyOK(k)
  BY <1>1 DEF IInv, Types, Polls
<1>3. NoPoll \in Polls /\ NoPoll.pc = "idle"
  BY BoundsAssumption DEF NoPoll, Polls, JobStates
<1>4. /\ poll' \in [Runtimes -> Polls]
      /\ \A q \in Runtimes : poll'[q].pc # "idle" => poll'[q].key \in Keys
  BY <1>1, <1>3, PollSet
<1>5. CASE ~Leased(r, k)
  <2>1. journal' = journal
    BY <1>5 DEF CommitObservation
  <2>2. session' \in 0 .. MaxSessions /\ job' \in [Keys -> JobStates]
    BY <1>1 DEF IInv, Types
  <2>. QED BY <1>1, <1>4, <2>1, <2>2, ElsewhereStep
<1>6. CASE Leased(r, k)
  <2>1. PICK fetched \in BOOLEAN :
          journal' = [journal EXCEPT ![k] =
                        Unleased(Observed(journal[k], poll[r].answer, fetched))]
    BY <1>6 DEF CommitObservation, Write
  <2>. DEFINE seen == Observed(journal[k], poll[r].answer, fetched)
  <2>2. journal[k].receipt /\ journal[k].state \in {"accepted", "succeeded"}
    BY <1>2, <1>6, NobodyAssumption DEF Leased, KeyOK, ReceiptEnds
  <2>3. /\ seen \in Recs /\ seen.receipt = journal[k].receipt
        /\ seen.phase = journal[k].phase
        /\ journal[k].outputs => seen.outputs
        /\ seen.outputs => seen.receipt
        /\ journal[k].state = "succeeded" => seen.state = "succeeded"
        /\ seen.state \in JobStates \cup {"accepted", "succeeded"}
    <3>1. CASE journal[k].state = "succeeded" /\ poll[r].answer # "completed"
      BY <1>2, <2>2, <3>1 DEF Observed
    <3>2. CASE poll[r].answer = "processing" /\ journal[k].state # "succeeded"
      BY <1>2, <2>2, <3>2 DEF Observed, Recs, States, KeyOK, ReceiptEnds
    <3>3. CASE poll[r].answer = "completed"
      <4>. DEFINE had == journal[k].outputs \/ fetched
      <4>1. had \in BOOLEAN /\ (journal[k].outputs => had)
        OBVIOUS
      <4>2. seen = [journal[k] EXCEPT !.state = "succeeded", !.outputs = had]
        BY <3>3 DEF Observed
      <4>. HIDE DEF had, seen
      <4>. QED BY <1>2, <2>2, <4>1, <4>2 DEF Recs, States
    <3>4. CASE poll[r].answer \notin {"processing", "completed"} /\ journal[k].state # "succeeded"
      BY <1>2, <2>2, <3>4 DEF Observed, Recs, States
    <3>. QED BY <3>1, <3>2, <3>3, <3>4
  <2>. HIDE DEF seen
  <2>. DEFINE rec == Unleased(seen)
  <2>4. /\ rec \in Recs /\ rec.state = seen.state /\ rec.receipt = seen.receipt
        /\ rec.outputs = seen.outputs /\ rec.phase = seen.phase
    BY <2>3 DEF Unleased, Recs
  <2>. HIDE DEF rec
  <2>5. journal' = [journal EXCEPT ![k] = rec]
    BY <2>1 DEF rec, seen
  <2>6. /\ rec.state \notin {"absent", "queued", "pending", "unknown"}
        /\ rec.phase = "none"
    BY <1>2, <2>2, <2>3, <2>4 DEF JobStates, KeyOK, PhaseIsPending
  <2>7. rec.poller = Nobody
    BY <2>3 DEF rec, Unleased, Recs
  <2>. QED BY <1>1, <1>2, <1>4, <2>2, <2>3, <2>4, <2>5, <2>6, <2>7, RecordStep
<1>. QED BY <1>5, <1>6

\* CommitSyncError only gives the poll lease back.
LEMMA CommitSyncErrorStep ==
  ASSUME IInv, NEW r \in Runtimes, CommitSyncError(r)
  PROVE  StepOK
<1>. DEFINE k == poll[r].key
            rec == IF Leased(r, k) THEN Unleased(journal[k]) ELSE journal[k]
<1>1. /\ poll[r].pc = "error" /\ SetPoll(r, NoPoll)
      /\ journal' = [journal EXCEPT ![k] = rec]
      /\ UNCHANGED <<task, holder, spawns, job, session>>
  BY DEF CommitSyncError, Write, arbiterVars, ghostVars
<1>2. k \in Keys /\ journal[k] \in Recs
  BY <1>1 DEF IInv, Types
<1>3. NoPoll \in Polls /\ NoPoll.pc = "idle"
  BY BoundsAssumption DEF NoPoll, Polls, JobStates
<1>4. /\ poll' \in [Runtimes -> Polls]
      /\ \A q \in Runtimes : poll'[q].pc # "idle" => poll'[q].key \in Keys
  BY <1>1, <1>3, PollSet
<1>5. rec \in Recs /\ Continues(journal[k], rec) /\ rec.state = journal[k].state
  BY <1>2, UnownedRecord DEF Continues
<1>. HIDE DEF rec
<1>. QED BY <1>1, <1>2, <1>4, <1>5, OneRecordStep

-----------------------------------------------------------------------------
(* Time, the account and the provider. *)

\* A lease that lapses changes nothing else.
LEMMA ExpireLeaseStep ==
  ASSUME IInv, NEW k \in Keys, ExpireLease(k)
  PROVE  StepOK
<1>. DEFINE rec == [journal[k] EXCEPT !.live = FALSE]
<1>1. journal[k] \in Recs
  BY DEF IInv, Types
<1>2. rec \in Recs /\ Continues(journal[k], rec) /\ rec.state = journal[k].state
  BY <1>1 DEF Recs, Continues
<1>3. /\ journal' = [journal EXCEPT ![k] = rec]
      /\ UNCHANGED <<task, holder, spawns, job, session, poll>>
  BY DEF ExpireLease, arbiterVars, ghostVars
<1>. HIDE DEF rec
<1>4. /\ poll' \in [Runtimes -> Polls]
      /\ \A q \in Runtimes : poll'[q].pc # "idle" => poll'[q].key \in Keys
  BY <1>3 DEF IInv, Types
<1>. QED BY <1>2, <1>3, <1>4, OneRecordStep

\* A poll lease that lapses changes nothing else.
LEMMA ExpirePollLeaseStep ==
  ASSUME IInv, NEW k \in Keys, ExpirePollLease(k)
  PROVE  StepOK
<1>. DEFINE rec == [journal[k] EXCEPT !.pollLive = FALSE]
<1>1. journal[k] \in Recs
  BY DEF IInv, Types
<1>2. rec \in Recs /\ Continues(journal[k], rec) /\ rec.state = journal[k].state
  BY <1>1 DEF Recs, Continues
<1>3. /\ journal' = [journal EXCEPT ![k] = rec]
      /\ UNCHANGED <<task, holder, spawns, job, session, poll>>
  BY DEF ExpirePollLease, arbiterVars, ghostVars
<1>. HIDE DEF rec
<1>4. /\ poll' \in [Runtimes -> Polls]
      /\ \A q \in Runtimes : poll'[q].pc # "idle" => poll'[q].key \in Keys
  BY <1>3 DEF IInv, Types
<1>. QED BY <1>2, <1>3, <1>4, OneRecordStep

\* Time, the account, the provider and restarts leave the journal alone.
LEMMA EnvironmentStep ==
  ASSUME IInv,
         \/ ExpireCliLease \/ ExpireRequest \/ SwitchAccount
         \/ \E r \in Runtimes : Restart(r)
         \/ \E k \in Keys : JobEnds(k)
  PROVE  StepOK
<1>1. UNCHANGED <<journal, task, holder, spawns, poll>>
  BY DEF ExpireCliLease, ExpireRequest, SwitchAccount, Restart, JobEnds, Withdraw,
         journalVars, arbiterVars, ghostVars
<1>2. session' \in 0 .. MaxSessions
  <2>1. session' = session \/ (session < MaxSessions /\ session' = session + 1)
    BY DEF ExpireCliLease, ExpireRequest, SwitchAccount, Restart, JobEnds, Withdraw,
           arbiterVars
  <2>2. session \in 0 .. MaxSessions
    BY DEF IInv, Types
  <2>. QED BY <2>1, <2>2, BoundsAssumption
<1>3. job' \in [Keys -> JobStates]
  BY DEF ExpireCliLease, ExpireRequest, SwitchAccount, Restart, JobEnds, JobStates,
         IInv, Types
<1>4. /\ poll' \in [Runtimes -> Polls]
      /\ \A q \in Runtimes : poll'[q].pc # "idle" => poll'[q].key \in Keys
  BY <1>1 DEF IInv, Types
<1>. QED BY <1>1, <1>2, <1>3, <1>4, ElsewhereStep

\* A step that changes nothing.
LEMMA StutterStep ==
  ASSUME IInv, UNCHANGED vars
  PROVE  StepOK
<1>1. UNCHANGED <<journal, task, holder, spawns, poll, job, session>>
  BY DEF vars
<1>2. /\ session' \in 0 .. MaxSessions /\ job' \in [Keys -> JobStates]
      /\ poll' \in [Runtimes -> Polls]
      /\ \A q \in Runtimes : poll'[q].pc # "idle" => poll'[q].key \in Keys
  BY <1>1 DEF IInv, Types
<1>. QED BY <1>1, <1>2, ElsewhereStep

-----------------------------------------------------------------------------
(* The specification. *)

\* At first no key has a record, a submission or a start.
LEMMA Initially == Init => IInv
<1>. SUFFICES ASSUME Init PROVE IInv
  OBVIOUS
<1>1. NoTask \in Tasks /\ NoTask.pc = "none"
  BY BoundsAssumption DEF NoTask, Tasks
<1>2. NoPoll \in Polls /\ NoPoll.pc = "idle"
  BY BoundsAssumption DEF NoPoll, Polls, JobStates
<1>3. /\ \A k \in Keys : journal[k] = NoRecord /\ spawns[k] = 0
      /\ \A r \in Runtimes, k \in Keys : task[r][k] = NoTask
      /\ \A r \in Runtimes : poll[r] = NoPoll
  BY DEF Init
<1>4. Types
  BY <1>1, <1>2, <1>3, NewRecord, BoundsAssumption DEF Init, Types, JobStates
<1>5. OneRun
  BY <1>1, <1>3 DEF OneRun, Runs
<1>6. ASSUME NEW k \in Keys PROVE KeyOK(k)
  BY <1>1, <1>3, NewRecord
  DEF KeyOK, AbsentIsFresh, OneSubmitter, StartsOnce, ReceiptEnds, PhaseIsPending,
      RunHolds, NoTaskFor, Runs, Unstarted
<1>. QED BY <1>4, <1>5, <1>6 DEF IInv

\* Every step keeps the invariant, what has ended, receipts and outputs.
LEMMA EveryStep == IInv /\ [Next]_vars => StepOK
<1>. SUFFICES ASSUME IInv, [Next]_vars PROVE StepOK
  OBVIOUS
<1>1. ASSUME NEW r \in Runtimes, NEW k \in Keys, Submit(r, k) PROVE StepOK
  BY <1>1, ReserveStep, AskForCliStep, GetCliStep, LoseCliStep, CommitFenceStep,
     SpawnStep, AnswerStep, CommitReceiptStep, CommitFailureStep, FailTaskStep,
     TransactionDeniedStep
  DEF Submit
<1>2. ASSUME NEW r \in Runtimes, NEW k \in Keys,
             \/ Enqueue(r, k) \/ RunBegin(r, k) \/ Run(r, k) \/ FailBeforeCli(r, k)
             \/ FailToSpawn(r, k) \/ Abort(r, k) \/ Cancel(r, k) \/ Delete(r, k)
      PROVE  StepOK
  BY <1>2, EnqueueStep, RunBeginStep, RunSpawnStep, RunRefusedStep, RunEndsStep,
     FailBeforeCliStep, FailToSpawnStep, AbortStep, CancelStep, DeleteStep
  DEF Run
<1>3. ASSUME NEW r \in Runtimes,
             Load(r) \/ Reconcile(r) \/ Crash(r) \/ Dispose(r) \/ Restart(r)
      PROVE  StepOK
  BY <1>3, LoadStep, ClaimDueStep, AskForQueryStep, QueryStep, CommitObservationStep,
     CommitSyncErrorStep, CrashStep, DisposeStep, EnvironmentStep
  DEF Reconcile
<1>4. CASE Expiry \/ SwitchAccount \/ \E k \in Keys : JobEnds(k)
  BY <1>4, ExpireLeaseStep, ExpirePollLeaseStep, EnvironmentStep DEF Expiry
<1>5. CASE UNCHANGED vars
  BY <1>5, StutterStep
<1>. QED BY <1>1, <1>2, <1>3, <1>4, <1>5 DEF Next

(***************************************************************************)
(* The invariant: who may start the CLI, and what a receipt ends.          *)
(***************************************************************************)
THEOREM Inductive == Spec => []IInv
<1>1. IInv /\ [Next]_vars => IInv'
  BY EveryStep DEF StepOK, IInv
<1>. QED BY <1>1, Initially, PTL DEF Spec

(***************************************************************************)
(* For one idempotency key the CLI is started at most once, whichever      *)
(* runtimes submit it, die, lose their leases or find the lock busy.       *)
(***************************************************************************)
THEOREM StartedOnce == Spec => []OneSpawnPerKey
<1>1. IInv => OneSpawnPerKey
  BY DEF IInv, KeyOK, StartsOnce, OneSpawnPerKey
<1>. QED BY <1>1, Inductive, PTL

(***************************************************************************)
(* What has ended stays ended, and receipts and outputs stay recorded,     *)
(* whatever a late observation or another runtime says.                    *)
(***************************************************************************)
THEOREM EndIsFinal == Spec => EndedStays
<1>1. IInv /\ [Next]_vars =>
        [\A k \in Keys :
           /\ journal[k].state \in Ended => journal'[k].state = journal[k].state
           /\ journal[k].receipt => journal'[k].receipt
           /\ journal[k].outputs => journal'[k].outputs]_journal
  BY EveryStep DEF StepOK, Stays
<1>. QED BY <1>1, Inductive, PTL DEF Spec, EndedStays

-----------------------------------------------------------------------------
(***************************************************************************)
(* The arbiter: who waits for the CLI, who uses it, and the queue.         *)
(***************************************************************************)
Sessions == 0 .. MaxSessions
Requests == [who : Clients, session : Sessions]

\* Who may ask for the CLI.
Callers == {Submission(r, k) : r \in Runtimes, k \in Keys} \cup {Polling(r) : r \in Runtimes}

InCli == {"granted", "permitted", "spawned", "receipt", "run_spawned"}

\* Who waits for the CLI, with the session that is expected.
Asked ==
  {w \in Requests :
     \/ \E r \in Runtimes, k \in Keys :
           /\ w.who = Submission(r, k) /\ w.session = task[r][k].session
           /\ task[r][k].pc \in {"waiting", "run"}
     \/ \E r \in Runtimes :
           w.who = Polling(r) /\ w.session = poll[r].session /\ poll[r].pc = "waiting"}

\* Who was granted the CLI and has not given it back.
Used ==
  {w \in Requests :
     \/ \E r \in Runtimes, k \in Keys :
           /\ w.who = Submission(r, k) /\ w.session = task[r][k].session
           /\ task[r][k].pc \in InCli
     \/ \E r \in Runtimes :
           w.who = Polling(r) /\ w.session = poll[r].session /\ poll[r].pc = "running"}

\* A caller is in the queue at most once.
QueuedOnce ==
  \A i, j \in 1 .. Len(waiting) : waiting[i].who = waiting[j].who => i = j

\* Whoever is in the queue and lives still waits for what it asked for.
QueueOK ==
  \A i \in 1 .. Len(waiting) : waiting[i].who[1] \in alive => waiting[i] \in Asked

\* Whoever uses the CLI lives and has the lease, under the session it expects.
LeaseOK ==
  \A w \in Used :
     active.who = w.who /\ active.live /\ w.session = session /\ w.who[1] \in alive

CliOK == waiting \in Seq(Requests) /\ QueuedOnce /\ QueueOK /\ LeaseOK

-----------------------------------------------------------------------------
\* t is s without what is at p.
Without(s, p, t) ==
  /\ Len(t) = Len(s) - 1
  /\ \A i \in 1 .. Len(t) : t[i] = s[IF i < p THEN i ELSE i + 1]

\* The tail lacks the head.
LEMMA TailIsWithout ==
  ASSUME NEW S, NEW s \in Seq(S), s # <<>>
  PROVE  /\ Tail(s) \in Seq(S) /\ Without(s, 1, Tail(s))
         /\ 1 \in 1 .. Len(s) /\ Head(s) = s[1]
BY DEF Without

\* RemoveAt takes one entry out.
LEMMA RemovedIsWithout ==
  ASSUME NEW S, NEW s \in Seq(S), NEW p \in 1 .. Len(s)
  PROVE  RemoveAt(s, p) \in Seq(S) /\ Without(s, p, RemoveAt(s, p))
<1>. DEFINE a == SubSeq(s, 1, p - 1)
            b == SubSeq(s, p + 1, Len(s))
<1>1. Len(s) \in Nat
  OBVIOUS
<1>2. /\ a \in Seq(S) /\ Len(a) = p - 1
      /\ \A i \in 1 .. (p - 1) : a[i] = s[i]
  BY <1>1
<1>3. /\ b \in Seq(S) /\ Len(b) = Len(s) - p
      /\ \A i \in 1 .. (Len(s) - p) : b[i] = s[i + p]
  BY <1>1
<1>4. RemoveAt(s, p) = a \o b
  BY DEF RemoveAt
<1>. HIDE DEF a, b
<1>5. /\ a \o b \in Seq(S) /\ Len(a \o b) = Len(a) + Len(b)
      /\ \A i \in 1 .. Len(a) + Len(b) :
            (a \o b)[i] = IF i <= Len(a) THEN a[i] ELSE b[i - Len(a)]
  BY <1>2, <1>3, ConcatProperties
<1>6. Len(a \o b) = Len(s) - 1
  BY <1>1, <1>2, <1>3, <1>5
<1>7. ASSUME NEW i \in 1 .. Len(a \o b)
      PROVE  (a \o b)[i] = s[IF i < p THEN i ELSE i + 1]
  <2>1. CASE i < p
    BY <1>1, <1>2, <1>3, <1>5, <1>6, <2>1
  <2>2. CASE ~(i < p)
    <3>1. i - (p - 1) \in 1 .. (Len(s) - p) /\ i - (p - 1) + p = i + 1
      BY <1>1, <1>6, <2>2
    <3>2. (a \o b)[i] = b[i - (p - 1)]
      BY <1>1, <1>2, <1>3, <1>5, <1>6, <2>2
    <3>. QED BY <1>3, <2>2, <3>1, <3>2
  <2>. QED BY <2>1, <2>2
<1>. QED BY <1>4, <1>5, <1>6, <1>7 DEF Without

\* Append keeps the entries and adds one.
LEMMA AppendedAt ==
  ASSUME NEW S, NEW s \in Seq(S), NEW e \in S
  PROVE  /\ Append(s, e) \in Seq(S) /\ Len(Append(s, e)) = Len(s) + 1
         /\ \A i \in 1 .. Len(s) : Append(s, e)[i] = s[i]
         /\ Append(s, e)[Len(s) + 1] = e
OBVIOUS

\* Callers are told apart.
LEMMA CallersDiffer ==
  /\ \A r \in Runtimes, k \in Keys :
        /\ Submission(r, k) \in Clients /\ Submission(r, k) \in Callers
        /\ Submission(r, k)[1] = r /\ Submission(r, k) # <<>>
  /\ \A r \in Runtimes :
        /\ Polling(r) \in Clients /\ Polling(r) \in Callers
        /\ Polling(r)[1] = r /\ Polling(r) # <<>>
  /\ \A r, q \in Runtimes, k, l \in Keys :
        Submission(r, k) = Submission(q, l) => r = q /\ k = l
  /\ \A r, q \in Runtimes : Polling(r) = Polling(q) => r = q
  /\ \A r, q \in Runtimes, k \in Keys : Submission(r, k) # Polling(q)
BY DEF Submission, Polling, Clients, Callers

\* A step leaves what everybody but c asks for, and adds no use of the CLI.
Elsewhere(c) ==
  \A w \in Requests : w.who # c =>
     /\ w \in Asked => w \in Asked'
     /\ w \in Used' => w \in Used

\* What a submission asks for and uses.
LEMMA OfTask ==
  ASSUME NEW r \in Runtimes, NEW k \in Keys, NEW w \in Requests, w.who = Submission(r, k)
  PROVE  /\ w \in Asked <=> /\ task[r][k].pc \in {"waiting", "run"}
                            /\ w.session = task[r][k].session
         /\ w \in Asked' <=> /\ task'[r][k].pc \in {"waiting", "run"}
                             /\ w.session = task'[r][k].session
         /\ w \in Used <=> /\ task[r][k].pc \in InCli
                           /\ w.session = task[r][k].session
         /\ w \in Used' <=> /\ task'[r][k].pc \in InCli
                            /\ w.session = task'[r][k].session
BY CallersDiffer DEF Asked, Used

\* What a reconciler asks for and uses.
LEMMA OfPoll ==
  ASSUME NEW r \in Runtimes, NEW w \in Requests, w.who = Polling(r)
  PROVE  /\ w \in Asked <=> poll[r].pc = "waiting" /\ w.session = poll[r].session
         /\ w \in Asked' <=> poll'[r].pc = "waiting" /\ w.session = poll'[r].session
         /\ w \in Used <=> poll[r].pc = "running" /\ w.session = poll[r].session
         /\ w \in Used' <=> poll'[r].pc = "running" /\ w.session = poll'[r].session
BY CallersDiffer DEF Asked, Used

\* One submission moves.
LEMMA TaskMoves ==
  ASSUME NEW r \in Runtimes, NEW k \in Keys, Only(r, k), poll' = poll
  PROVE  Elsewhere(Submission(r, k))
BY CallersDiffer DEF Elsewhere, Asked, Used, Only

\* One reconciler moves.
LEMMA PollMoves ==
  ASSUME NEW r \in Runtimes, task' = task,
         \A q \in Runtimes : q # r => poll'[q] = poll[q]
  PROVE  Elsewhere(Polling(r))
BY CallersDiffer DEF Elsewhere, Asked, Used

-----------------------------------------------------------------------------
\* Nothing was granted to anybody but c, which uses nothing.
LEMMA NobodyElse ==
  ASSUME NEW c, CliOK, Elsewhere(c), alive' = alive,
         \A w \in Requests : w.who = c => w \notin Used'
  PROVE  /\ \A w \in Used' : w \in Used /\ w.who # c
         /\ UNCHANGED <<active, session>> => LeaseOK'
<1>1. \A w \in Used' : w \in Requests
  BY DEF Used
<1>. QED BY <1>1 DEF CliOK, LeaseOK, Elsewhere

\* The queue loses its entry at p, of a caller that waits no more.
LEMMA QueueShrinks ==
  ASSUME CliOK, NEW p \in 1 .. Len(waiting), Elsewhere(waiting[p].who), alive' = alive,
         waiting' \in Seq(Requests), Without(waiting, p, waiting')
  PROVE  QueuedOnce' /\ QueueOK'
<1>. DEFINE at(i) == IF i < p THEN i ELSE i + 1
<1>1. Len(waiting) \in Nat /\ Len(waiting') = Len(waiting) - 1
  BY DEF CliOK, Without
<1>2. ASSUME NEW i \in 1 .. Len(waiting')
      PROVE  /\ at(i) \in 1 .. Len(waiting) /\ at(i) # p /\ waiting'[i] = waiting[at(i)]
             /\ waiting[at(i)].who # waiting[p].who /\ waiting[at(i)] \in Requests
  <2>1. at(i) \in 1 .. Len(waiting) /\ at(i) # p /\ waiting'[i] = waiting[at(i)]
    BY <1>1 DEF Without
  <2>. HIDE DEF at
  <2>. QED BY <2>1 DEF CliOK, QueuedOnce
<1>3. \A i, j \in 1 .. Len(waiting') : at(i) = at(j) => i = j
  BY <1>1
<1>. HIDE DEF at
<1>4. QueuedOnce'
  BY <1>2, <1>3 DEF CliOK, QueuedOnce
<1>5. QueueOK'
  BY <1>2 DEF CliOK, QueueOK, Elsewhere
<1>. QED BY <1>4, <1>5

\* The queue is as it was, and nobody in it waits no more.
LEMMA QueueStays ==
  ASSUME NEW c, CliOK, Elsewhere(c), alive' = alive, waiting' = waiting,
         \A w \in Requests : w.who = c /\ w \in Asked => w \in Asked'
  PROVE  waiting' \in Seq(Requests) /\ QueuedOnce' /\ QueueOK'
<1>1. \A i \in 1 .. Len(waiting) : waiting[i] \in Requests
  BY DEF CliOK
<1>. QED BY <1>1 DEF CliOK, QueuedOnce, QueueOK, Elsewhere

\* A step that asks for nothing, is granted nothing and gives nothing back.
LEMMA CliKept ==
  ASSUME NEW c, CliOK, Elsewhere(c), UNCHANGED <<arbiterVars, alive>>,
         \A w \in Requests : w.who = c =>
            /\ w \in Asked => w \in Asked'
            /\ w \in Used' => w \in Used
  PROVE  CliOK'
<1>1. waiting' = waiting /\ active' = active /\ session' = session /\ alive' = alive
  BY DEF arbiterVars
<1>2. waiting' \in Seq(Requests) /\ QueuedOnce' /\ QueueOK'
  BY <1>1, QueueStays
<1>3. \A w \in Used' : w \in Requests
  BY DEF Used
<1>4. LeaseOK'
  BY <1>1, <1>3 DEF CliOK, LeaseOK, Elsewhere
<1>. QED BY <1>2, <1>4 DEF CliOK

\* A caller that lives and does not ask yet puts its request into the queue.
LEMMA CliRequested ==
  ASSUME NEW c, CliOK, Elsewhere(c), c[1] \in alive, NEW e \in Sessions, c \in Clients,
         Request(c, e), UNCHANGED <<active, session, alive>>,
         \A w \in Requests : w.who = c =>
            /\ w \notin Asked /\ w \notin Used'
            /\ w.session = e => w \in Asked'
  PROVE  CliOK'
<1>. DEFINE v == [who |-> c, session |-> e]
<1>1. v \in Requests /\ v.who = c /\ v.session = e /\ waiting' = Append(waiting, v)
  BY DEF Requests, Request
<1>2. v \in Asked'
  BY <1>1
<1>. HIDE DEF v
<1>3. /\ waiting' \in Seq(Requests) /\ Len(waiting') = Len(waiting) + 1
      /\ \A i \in 1 .. Len(waiting) : waiting'[i] = waiting[i]
      /\ waiting'[Len(waiting) + 1] = v
  BY <1>1, AppendedAt DEF CliOK
<1>4. ASSUME NEW i \in 1 .. Len(waiting)
      PROVE  waiting[i].who # c /\ waiting[i] \in Requests
  BY DEF CliOK, QueueOK
<1>5. Len(waiting) \in Nat
  BY DEF CliOK
<1>6. \A i \in 1 .. Len(waiting') : i \in 1 .. Len(waiting) \/ i = Len(waiting) + 1
  BY <1>3, <1>5
<1>7. QueuedOnce'
  BY <1>1, <1>3, <1>4, <1>6 DEF CliOK, QueuedOnce
<1>8. QueueOK'
  BY <1>2, <1>3, <1>4, <1>6 DEF CliOK, QueueOK, Elsewhere
<1>9. LeaseOK'
  BY NobodyElse
<1>. QED BY <1>3, <1>7, <1>8, <1>9 DEF CliOK

\* The caller at the head is granted the CLI, under the session it expects.
LEMMA CliGranted ==
  ASSUME NEW c, CliOK, Elsewhere(c), c[1] \in alive, c # <<>>, Grant(c), alive' = alive,
         \A v, w \in Requests :
            v.who = c /\ v \in Asked /\ w.who = c /\ w \in Used' => w.session = v.session
  PROVE  CliOK'
<1>1. /\ waiting # <<>> /\ Head(waiting).who = c /\ Head(waiting).session = session
      /\ active.who = <<>> \/ ~active.live
      /\ waiting' = Tail(waiting) /\ session' = session
      /\ active'.who = c /\ active'.live
  BY DEF Grant, IsFirst
<1>2. /\ waiting' \in Seq(Requests) /\ Without(waiting, 1, waiting')
      /\ 1 \in 1 .. Len(waiting) /\ Head(waiting) = waiting[1]
  BY <1>1, TailIsWithout DEF CliOK
<1>3. QueuedOnce' /\ QueueOK'
  BY <1>1, <1>2, QueueShrinks
<1>4. Head(waiting) \in Requests /\ Head(waiting) \in Asked
  BY <1>1, <1>2 DEF CliOK, QueueOK
<1>5. ASSUME NEW w \in Used'
      PROVE  w.who = c /\ w.session = session
  <2>1. w \in Requests
    BY DEF Used
  <2>2. w.who \in Clients /\ w.who # <<>>
    BY <2>1, <1>5, CallersDiffer DEF Used, Requests
  <2>3. w \notin Used
    BY <1>1, <2>2 DEF CliOK, LeaseOK
  <2>4. w.who = c
    BY <2>1, <2>3 DEF Elsewhere
  <2>. QED BY <1>1, <1>4, <2>1, <2>4
<1>6. LeaseOK'
  BY <1>1, <1>5 DEF LeaseOK
<1>. QED BY <1>2, <1>3, <1>6 DEF CliOK

\* A caller withdraws its request, if it has one.
LEMMA CliWithdrawn ==
  ASSUME NEW c, CliOK, Elsewhere(c), Withdraw(c), alive' = alive,
         \A w \in Requests : w.who = c => w \notin Used'
  PROVE  CliOK'
<1>1. LeaseOK'
  BY NobodyElse DEF Withdraw
<1>2. CASE \E i \in 1 .. Len(waiting) : waiting[i].who = c
  <2>. DEFINE p == Place(c)
  <2>1. p \in 1 .. Len(waiting) /\ waiting[p].who = c
    BY <1>2 DEF Place
  <2>2. c \in {w.who : w \in ToSet(waiting)}
    BY <2>1 DEF CliOK, ToSet
  <2>3. waiting' = RemoveAt(waiting, p)
    BY <2>2 DEF Withdraw
  <2>. HIDE DEF p
  <2>4. waiting' \in Seq(Requests) /\ Without(waiting, p, waiting')
    BY <2>1, <2>3, RemovedIsWithout DEF CliOK
  <2>. QED BY <1>1, <2>1, <2>4, QueueShrinks DEF CliOK
<1>3. CASE ~ \E i \in 1 .. Len(waiting) : waiting[i].who = c
  <2>1. c \notin {w.who : w \in ToSet(waiting)}
    BY <1>3 DEF CliOK, ToSet
  <2>2. waiting' = waiting
    BY <2>1 DEF Withdraw
  <2>3. \A i \in 1 .. Len(waiting) : waiting[i] \in Requests
    BY DEF CliOK
  <2>4. waiting' \in Seq(Requests) /\ QueuedOnce' /\ QueueOK'
    BY <1>3, <2>2, <2>3 DEF CliOK, QueuedOnce, QueueOK, Elsewhere
  <2>. QED BY <1>1, <2>4 DEF CliOK
<1>. QED BY <1>2, <1>3

\* A caller gives the lease back, if it has it, and uses the CLI no more.
LEMMA CliReleased ==
  ASSUME NEW c, CliOK, Elsewhere(c), Release(c), alive' = alive,
         \A w \in Requests : w.who = c =>
            /\ w \in Asked => w \in Asked'
            /\ w \notin Used'
  PROVE  CliOK'
<1>1. waiting' = waiting /\ session' = session /\ (active.who # c => active' = active)
  BY DEF Release
<1>2. waiting' \in Seq(Requests) /\ QueuedOnce' /\ QueueOK'
  BY <1>1, QueueStays
<1>3. \A w \in Used' : w \in Used /\ w.who # c
  BY NobodyElse
<1>4. LeaseOK'
  BY <1>1, <1>3 DEF CliOK, LeaseOK
<1>. QED BY <1>2, <1>4 DEF CliOK

-----------------------------------------------------------------------------
(* The steps. *)

\* A step of a submission that neither waits for the CLI nor is granted it.
LEMMA CliTask ==
  ASSUME CliOK, NEW r \in Runtimes, NEW k \in Keys, Only(r, k),
         UNCHANGED <<arbiterVars, alive, poll>>,
         task[r][k].pc \notin {"waiting", "run"},
         task'[r][k].pc \in InCli =>
            task[r][k].pc \in InCli /\ task'[r][k].session = task[r][k].session
  PROVE  CliOK'
BY TaskMoves, OfTask, CliKept

\* A step of no submission and no reconciler.
LEMMA CliIdle ==
  ASSUME CliOK, UNCHANGED <<task, poll, alive, arbiterVars>>
  PROVE  CliOK'
BY DEF CliOK, QueuedOnce, QueueOK, LeaseOK, Asked, Used, arbiterVars

\* The transactions of a submission, and the start of the CLI, which it was
\* granted before.
LEMMA CliTaskSteps ==
  ASSUME IInv, CliOK, NEW r \in Runtimes, NEW k \in Keys,
         \/ Enqueue(r, k) \/ Reserve(r, k) \/ FailBeforeCli(r, k) \/ Spawn(r, k)
         \/ CommitFailure(r, k) \/ FailTask(r, k) \/ Cancel(r, k) \/ Delete(r, k)
  PROVE  CliOK'
<1>1. Types
  BY DEF IInv
<1>2. UNCHANGED <<arbiterVars, alive, poll>>
  BY DEF Enqueue, Reserve, FailBeforeCli, Spawn, CommitFailure, FailTask, Cancel, Delete
<1>3. CASE UNCHANGED task
  BY <1>2, <1>3, CliIdle
<1>4. CASE Over(r, k) /\ task[r][k].pc \notin {"waiting", "run"}
  BY <1>1, <1>2, <1>4, OverTask, CliTask DEF InCli
<1>5. CASE \E where \in {"queued", "reserved", "fail_early"} :
              To(r, k, where) /\ task[r][k].pc \notin {"waiting", "run"}
  BY <1>1, <1>2, <1>5, MovedTask, CliTask DEF InCli
<1>6. CASE To(r, k, "spawned") /\ task[r][k].pc = "permitted"
  BY <1>1, <1>2, <1>6, MovedTask, CliTask DEF InCli
<1>. QED BY <1>3, <1>4, <1>5, <1>6
         DEF Enqueue, Reserve, FailBeforeCli, Spawn, CommitFailure, FailTask, Cancel,
             Delete, At

\* A submission asks for the CLI.
LEMMA CliAskForCli ==
  ASSUME IInv, CliOK, NEW r \in Runtimes, NEW k \in Keys,
         AskForCli(r, k) \/ RunBegin(r, k)
  PROVE  CliOK'
<1>1. /\ Request(Submission(r, k), session) /\ r \in alive
      /\ UNCHANGED <<active, session, alive, poll>>
      /\ task[r][k].pc \in {"reserved", "none"}
  BY DEF AskForCli, RunBegin, At, Commit
<1>2. PICK pc \in {"waiting", "run"} :
        task' = [task EXCEPT ![r][k] = [pc |-> pc, session |-> session]]
  BY DEF AskForCli, RunBegin
<1>3. [pc |-> pc, session |-> session] \in Tasks /\ session \in Sessions
  BY DEF IInv, Types, Tasks, Renewed, Sessions
<1>4. Only(r, k) /\ task'[r][k] = [pc |-> pc, session |-> session]
  BY <1>2, <1>3, OneTask DEF IInv
<1>5. Elsewhere(Submission(r, k))
  BY <1>1, <1>4, TaskMoves
<1>6. ASSUME NEW w \in Requests, w.who = Submission(r, k)
      PROVE  /\ w \notin Asked /\ w \notin Used'
             /\ w.session = session => w \in Asked'
  BY <1>1, <1>2, <1>4, <1>6, OfTask DEF InCli
<1>. QED BY <1>1, <1>3, <1>5, <1>6, CallersDiffer, CliRequested

\* A submission is granted the CLI.
LEMMA CliGetCli ==
  ASSUME IInv, CliOK, NEW r \in Runtimes, NEW k \in Keys,
         GetCli(r, k) \/ RunSpawn(r, k)
  PROVE  CliOK'
<1>1. /\ Grant(Submission(r, k)) /\ r \in alive /\ UNCHANGED <<alive, poll>>
      /\ task[r][k].pc \in {"waiting", "run"}
      /\ To(r, k, "granted") \/ To(r, k, "run_spawned")
  BY DEF GetCli, RunSpawn, At
<1>2. Only(r, k) /\ task'[r][k].session = task[r][k].session
  BY <1>1, MovedTask DEF IInv
<1>3. Elsewhere(Submission(r, k))
  BY <1>1, <1>2, TaskMoves
<1>4. ASSUME NEW v \in Requests, NEW w \in Requests, v.who = Submission(r, k),
             v \in Asked, w.who = Submission(r, k), w \in Used'
      PROVE  w.session = v.session
  BY <1>2, <1>4, OfTask
<1>. QED BY <1>1, <1>3, <1>4, CallersDiffer, CliGranted

\* A submission gives up waiting.
LEMMA CliLoseCli ==
  ASSUME IInv, CliOK, NEW r \in Runtimes, NEW k \in Keys,
         LoseCli(r, k) \/ RunRefused(r, k)
  PROVE  CliOK'
<1>1. /\ Withdraw(Submission(r, k)) /\ UNCHANGED <<alive, poll>>
      /\ Over(r, k) \/ To(r, k, "fail_early")
  BY DEF LoseCli, RunRefused, Refuse
<1>2. Only(r, k) /\ task'[r][k].pc \in {"none", "fail_early"}
  BY <1>1, MovedTask, OverTask DEF IInv
<1>3. Elsewhere(Submission(r, k))
  BY <1>1, <1>2, TaskMoves
<1>4. \A w \in Requests : w.who = Submission(r, k) => w \notin Used'
  BY <1>2, OfTask DEF InCli
<1>. QED BY <1>1, <1>3, <1>4, CliWithdrawn

\* A submission that holds no request gives the CLI back.
LEMMA CliGiveBack ==
  ASSUME CliOK, NEW r \in Runtimes, NEW k \in Keys, Only(r, k),
         UNCHANGED <<alive, poll>>, Release(Submission(r, k)),
         task[r][k].pc \notin {"waiting", "run"}, task'[r][k].pc \notin InCli
  PROVE  CliOK'
BY TaskMoves, OfTask, CliReleased

\* A submission is over, or its transaction throws: the CLI is given back.
LEMMA CliEndSteps ==
  ASSUME IInv, CliOK, NEW r \in Runtimes, NEW k \in Keys,
         \/ FailToSpawn(r, k) \/ CommitReceipt(r, k) \/ TransactionDenied(r, k)
         \/ RunEnds(r, k)
  PROVE  CliOK'
<1>1. /\ UNCHANGED <<alive, poll>> /\ Release(Submission(r, k))
      /\ task[r][k].pc \notin {"waiting", "run"}
  BY DEF FailToSpawn, CommitReceipt, TransactionDenied, RunEnds, At
<1>2. CASE Over(r, k) \/ To(r, k, "fail_granted")
  BY <1>1, <1>2, MovedTask, OverTask, CliGiveBack DEF IInv, InCli
<1>3. CASE TransactionDenied(r, k)
  <2>. DEFINE old == task[r][k]
              next == AfterDenial(old.pc)
  <2>1. old \in Tasks
    BY DEF IInv, Types
  <2>2. /\ next \in {"fail_granted", "fail_spawned", "failtask", "none"}
        /\ task' = [task EXCEPT ![r][k] = IF next = "none" THEN NoTask
                                          ELSE [old EXCEPT !.pc = next]]
    BY <1>3 DEF TransactionDenied, AfterDenial
  <2>. HIDE DEF next
  <2>3. /\ NoTask \in Tasks /\ NoTask.pc \notin InCli
        /\ [old EXCEPT !.pc = next] \in Tasks
        /\ [old EXCEPT !.pc = next].pc = next /\ next \notin InCli
    BY <2>1, <2>2, BoundsAssumption DEF Tasks, NoTask, Renewed, InCli
  <2>4. PICK t \in Tasks : task' = [task EXCEPT ![r][k] = t] /\ t.pc \notin InCli
    BY <2>2, <2>3
  <2>. QED BY <1>1, <2>4, OneTask, CliGiveBack DEF IInv
<1>. QED BY <1>2, <1>3 DEF FailToSpawn, CommitReceipt, RunEnds

\* A submission goes on using the CLI that it was granted, or gives it back.
LEMMA CliFenceAndAnswer ==
  ASSUME IInv, CliOK, NEW r \in Runtimes, NEW k \in Keys,
         CommitFence(r, k) \/ Answer(r, k)
  PROVE  CliOK'
<1>1. UNCHANGED <<alive, poll>> /\ task[r][k].pc \in {"granted", "spawned"}
  BY DEF CommitFence, Answer, At
<1>2. CASE /\ To(r, k, "permitted") \/ To(r, k, "receipt")
           /\ UNCHANGED arbiterVars
  BY <1>1, <1>2, MovedTask, CliTask DEF IInv, InCli
<1>3. CASE /\ Over(r, k) \/ To(r, k, "fail_spawned")
           /\ Release(Submission(r, k))
  BY <1>1, <1>3, MovedTask, OverTask, CliGiveBack DEF IInv, InCli
<1>. QED BY <1>2, <1>3 DEF CommitFence, Answer

\* An aborted submission withdraws its request, or gives the CLI back.
LEMMA CliAbort ==
  ASSUME IInv, CliOK, NEW r \in Runtimes, NEW k \in Keys, Abort(r, k)
  PROVE  CliOK'
<1>1. UNCHANGED <<alive, poll>>
  BY DEF Abort
<1>2. CASE To(r, k, "fail_early") /\ Withdraw(Submission(r, k))
  <2>1. Only(r, k) /\ task'[r][k].pc = "fail_early"
    BY <1>2, MovedTask DEF IInv
  <2>2. \A w \in Requests : w.who = Submission(r, k) => w \notin Used'
    BY <2>1, OfTask DEF InCli
  <2>. QED BY <1>1, <1>2, <2>1, <2>2, TaskMoves, CliWithdrawn
<1>3. CASE /\ To(r, k, "fail_granted") \/ To(r, k, "fail_spawned")
           /\ task[r][k].pc \in InCli /\ Release(Submission(r, k))
  BY <1>1, <1>3, MovedTask, CliGiveBack DEF IInv, InCli
<1>. QED BY <1>2, <1>3 DEF Abort, InCli

\* A reconciler that neither waits for the CLI nor is granted it.
LEMMA CliPoll ==
  ASSUME CliOK, NEW r \in Runtimes, UNCHANGED <<arbiterVars, alive, task>>,
         \A q \in Runtimes : q # r => poll'[q] = poll[q],
         poll[r].pc # "waiting", poll'[r].pc # "running"
  PROVE  CliOK'
BY PollMoves, OfPoll, CliKept

\* What a reconciler does is set.
LEMMA SetPollAt ==
  ASSUME IInv, NEW r \in Runtimes, NEW p, SetPoll(r, p)
  PROVE  poll'[r] = p /\ \A q \in Runtimes : q # r => poll'[q] = poll[q]
BY DEF IInv, Types, SetPoll

\* A reconciler takes a record, or writes down what it found out.
LEMMA CliPollSteps ==
  ASSUME IInv, CliOK, NEW r \in Runtimes,
         \/ \E k \in Keys : ClaimDue(r, k)
         \/ CommitObservation(r) \/ CommitSyncError(r)
  PROVE  CliOK'
<1>1. /\ UNCHANGED <<arbiterVars, alive, task>>
      /\ poll[r].pc # "waiting"
  BY DEF ClaimDue, CommitObservation, CommitSyncError, arbiterVars
<1>2. PICK p : SetPoll(r, p) /\ p.pc \in {"claimed", "idle"}
  <2>1. CASE SetPoll(r, NoPoll)
    BY <2>1 DEF NoPoll
  <2>2. ASSUME NEW k \in Keys, SetPoll(r, [NoPoll EXCEPT !.pc = "claimed", !.key = k])
        PROVE  \E p : SetPoll(r, p) /\ p.pc \in {"claimed", "idle"}
    <3>1. [NoPoll EXCEPT !.pc = "claimed", !.key = k].pc = "claimed"
      BY DEF NoPoll
    <3>. QED BY <2>2, <3>1
  <2>. QED BY <2>1, <2>2 DEF ClaimDue, CommitObservation, CommitSyncError
<1>. QED BY <1>1, <1>2, SetPollAt, CliPoll

\* A reconciler asks for the CLI, unless the account is another one.
LEMMA CliAskForQuery ==
  ASSUME IInv, CliOK, NEW r \in Runtimes, AskForQuery(r)
  PROVE  CliOK'
<1>1. /\ UNCHANGED <<active, session, alive, task>> /\ r \in alive
      /\ poll[r].pc = "claimed" /\ poll[r] \in Polls /\ session \in Sessions
  BY DEF AskForQuery, IInv, Types, Sessions
<1>2. CASE /\ Request(Polling(r), session)
           /\ SetPoll(r, [poll[r] EXCEPT !.pc = "waiting", !.session = session])
  <2>1. poll'[r].pc = "waiting" /\ poll'[r].session = session
    <3>. DEFINE p == [poll[r] EXCEPT !.pc = "waiting", !.session = session]
    <3>1. p.pc = "waiting" /\ p.session = session
      BY <1>1 DEF Polls
    <3>2. poll'[r] = p
      BY <1>2, SetPollAt
    <3>. QED BY <3>1, <3>2
  <2>2. Elsewhere(Polling(r))
    BY <1>1, <1>2, SetPollAt, PollMoves
  <2>3. ASSUME NEW w \in Requests, w.who = Polling(r)
        PROVE  /\ w \notin Asked /\ w \notin Used'
               /\ w.session = session => w \in Asked'
    BY <1>1, <2>1, <2>3, OfPoll
  <2>. QED BY <1>1, <1>2, <2>2, <2>3, CallersDiffer, CliRequested
<1>3. CASE UNCHANGED waiting /\ SetPoll(r, [poll[r] EXCEPT !.pc = "error"])
  BY <1>1, <1>3, SetPollAt, CliPoll DEF Polls, arbiterVars
<1>. QED BY <1>2, <1>3 DEF AskForQuery

\* A reconciler is granted the CLI, gives up waiting, or has its answer.
LEMMA CliQuerySteps ==
  ASSUME IInv, CliOK, NEW r \in Runtimes, GetQuery(r) \/ LoseQuery(r) \/ QueryAnswers(r)
  PROVE  CliOK'
<1>1. UNCHANGED <<alive, task>> /\ r \in alive /\ poll[r] \in Polls
  BY DEF GetQuery, LoseQuery, QueryAnswers, IInv, Types
<1>2. CASE GetQuery(r)
  <2>1. /\ poll[r].pc = "waiting" /\ Grant(Polling(r))
        /\ SetPoll(r, [poll[r] EXCEPT !.pc = "running"])
    BY <1>2 DEF GetQuery
  <2>2. poll'[r].session = poll[r].session
    BY <1>1, <2>1, SetPollAt DEF Polls
  <2>3. Elsewhere(Polling(r))
    BY <1>1, <2>1, SetPollAt, PollMoves
  <2>4. ASSUME NEW v \in Requests, NEW w \in Requests, v.who = Polling(r), v \in Asked,
               w.who = Polling(r), w \in Used'
        PROVE  w.session = v.session
    BY <2>2, <2>4, OfPoll
  <2>. QED BY <1>1, <2>1, <2>3, <2>4, CallersDiffer, CliGranted
<1>3. CASE LoseQuery(r)
  <2>1. Withdraw(Polling(r)) /\ SetPoll(r, [poll[r] EXCEPT !.pc = "error"])
    BY <1>3 DEF LoseQuery, Refuse
  <2>2. poll'[r].pc = "error"
    BY <1>1, <2>1, SetPollAt DEF Polls
  <2>3. \A w \in Requests : w.who = Polling(r) => w \notin Used'
    BY <2>2, OfPoll
  <2>. QED BY <1>1, <2>1, <2>3, SetPollAt, PollMoves, CliWithdrawn
<1>4. CASE QueryAnswers(r)
  <2>1. Release(Polling(r)) /\ poll[r].pc = "running"
    BY <1>4 DEF QueryAnswers
  <2>2. PICK p : SetPoll(r, p) /\ p.pc \in {"observed", "error"}
    <3>1. PICK a : SetPoll(r, IF IsCurrent(Polling(r))
                              THEN [poll[r] EXCEPT !.pc = "observed", !.answer = a]
                              ELSE [poll[r] EXCEPT !.pc = "error"])
      BY <1>4 DEF QueryAnswers
    <3>2. /\ [poll[r] EXCEPT !.pc = "observed", !.answer = a].pc = "observed"
          /\ [poll[r] EXCEPT !.pc = "error"].pc = "error"
      BY <1>1 DEF Polls
    <3>. QED BY <3>1, <3>2
  <2>3. poll'[r].pc \in {"observed", "error"}
    BY <2>2, SetPollAt
  <2>4. ASSUME NEW w \in Requests, w.who = Polling(r)
        PROVE  w \notin Asked /\ w \notin Used'
    BY <2>1, <2>3, <2>4, OfPoll
  <2>. QED BY <1>1, <2>1, <2>2, <2>4, SetPollAt, PollMoves, CliReleased
<1>. QED BY <1>2, <1>3, <1>4

\* A runtime that goes away leaves its requests in the queue, and its lease.
LEMMA CliGone ==
  ASSUME IInv, CliOK, NEW r \in Runtimes, Gone(r), UNCHANGED arbiterVars
  PROVE  CliOK'
<1>1. /\ alive' = alive \ {r}
      /\ \A q \in Keys : task'[r][q].pc = "none"
      /\ \A p \in Runtimes \ {r} : task'[p] = task[p]
      /\ poll'[r].pc = "idle" /\ \A p \in Runtimes \ {r} : poll'[p] = poll[p]
      /\ waiting' = waiting /\ active' = active /\ session' = session
  BY GoneFacts DEF Gone, NoPoll, arbiterVars, IInv, Types
<1>2. \A w \in Requests : w.who[1] # r /\ w \in Asked => w \in Asked'
  BY <1>1, CallersDiffer DEF Asked
<1>3. \A w \in Used' : w \in Used /\ w.who[1] # r
  BY <1>1, CallersDiffer DEF Used, InCli
<1>4. \A i \in 1 .. Len(waiting) : waiting[i] \in Requests
  BY DEF CliOK
<1>. QED BY <1>1, <1>2, <1>3, <1>4 DEF CliOK, QueuedOnce, QueueOK, LeaseOK

\* A runtime starts again when its old requests have left the queue.
LEMMA CliRestart ==
  ASSUME CliOK, NEW r \in Runtimes, Restart(r)
  PROVE  CliOK'
<1>1. /\ alive' = alive \cup {r} /\ UNCHANGED <<task, poll, waiting, active, session>>
      /\ \A w \in ToSet(waiting) : w.who[1] # r
  BY DEF Restart, arbiterVars
<1>2. \A i \in 1 .. Len(waiting) : waiting[i].who[1] # r
  BY <1>1 DEF CliOK, ToSet
<1>3. Asked' = Asked /\ Used' = Used
  BY <1>1 DEF Asked, Used
<1>. QED BY <1>1, <1>2, <1>3 DEF CliOK, QueuedOnce, QueueOK, LeaseOK

\* What lapses belongs to nobody who lives, and nobody uses the CLI when the
\* account is switched.
LEMMA CliLapse ==
  ASSUME CliOK, "slowcli" \notin Features,
         ExpireCliLease \/ ExpireRequest \/ SwitchAccount
  PROVE  CliOK'
<1>1. UNCHANGED <<alive, task, poll>>
  BY DEF ExpireCliLease, ExpireRequest, SwitchAccount
<1>2. Asked' = Asked /\ Used' = Used
  BY <1>1 DEF Asked, Used
<1>3. CASE ExpireRequest
  <2>1. PICK w \in ToSet(waiting) : w.who[1] \notin alive /\ Withdraw(w.who)
    BY <1>3 DEF ExpireRequest
  <2>2. Elsewhere(w.who)
    BY <1>2 DEF Elsewhere
  <2>3. \A v \in Requests : v.who = w.who => v \notin Used'
    BY <1>2, <2>1 DEF CliOK, LeaseOK
  <2>. QED BY <1>1, <2>1, <2>2, <2>3, CliWithdrawn
<1>4. CASE ExpireCliLease \/ SwitchAccount
  <2>1. waiting' = waiting
    BY <1>4 DEF ExpireCliLease, SwitchAccount
  <2>2. Used = {}
    BY <1>4, CallersDiffer DEF CliOK, LeaseOK, ExpireCliLease, SwitchAccount, Used
  <2>. QED BY <1>1, <1>2, <2>1, <2>2 DEF CliOK, QueuedOnce, QueueOK, LeaseOK
<1>. QED BY <1>3, <1>4

\* Every step keeps the queue and the lease in order, if only the leases of
\* the dead lapse.
LEMMA CliStep ==
  ASSUME IInv, CliOK, "slowcli" \notin Features, [Next]_vars
  PROVE  CliOK'
<1>1. ASSUME NEW r \in Runtimes, NEW k \in Keys,
             \/ Enqueue(r, k) \/ Submit(r, k) \/ RunBegin(r, k) \/ Run(r, k)
             \/ FailBeforeCli(r, k) \/ FailToSpawn(r, k) \/ Abort(r, k)
             \/ Cancel(r, k) \/ Delete(r, k)
      PROVE  CliOK'
  BY <1>1, CliTaskSteps, CliAskForCli, CliGetCli, CliLoseCli, CliEndSteps,
     CliFenceAndAnswer, CliAbort
  DEF Submit, Run
<1>2. ASSUME NEW r \in Runtimes, Reconcile(r) PROVE CliOK'
  BY <1>2, CliPollSteps, CliAskForQuery, CliQuerySteps DEF Reconcile
<1>3. ASSUME NEW r \in Runtimes, Crash(r) \/ Dispose(r) PROVE CliOK'
  BY <1>3, CliGone DEF Crash, Dispose
<1>4. ASSUME NEW r \in Runtimes, Restart(r) PROVE CliOK'
  BY <1>4, CliRestart
<1>5. CASE \/ \E r \in Runtimes : Load(r)
           \/ \E k \in Keys : JobEnds(k) \/ ExpireLease(k) \/ ExpirePollLease(k)
           \/ UNCHANGED vars
  BY <1>5, CliIdle DEF Load, JobEnds, ExpireLease, ExpirePollLease, vars, arbiterVars
<1>6. CASE ExpireCliLease \/ ExpireRequest \/ SwitchAccount
  BY <1>6, CliLapse
<1>. QED BY <1>1, <1>2, <1>3, <1>4, <1>5, <1>6 DEF Next, Expiry

\* At first nobody waits for the CLI or uses it.
LEMMA CliAtFirst == Init => CliOK
<1>. SUFFICES ASSUME Init PROVE CliOK
  OBVIOUS
<1>1. /\ waiting = <<>> /\ \A r \in Runtimes, k \in Keys : task[r][k].pc = "none"
      /\ \A r \in Runtimes : poll[r].pc = "idle"
  BY DEF Init, NoTask, NoPoll
<1>2. Used = {}
  BY <1>1 DEF Used, InCli
<1>. QED BY <1>1, <1>2 DEF CliOK, QueuedOnce, QueueOK, LeaseOK

(***************************************************************************)
(* One CLI process at a time, and under the account that its caller        *)
(* expects, whoever dies or is disposed and whatever is aborted, as long   *)
(* as a runtime that lives renews its lease of the CLI in time.            *)
(***************************************************************************)
THEOREM OneCliAtATime == "slowcli" \notin Features => (Spec => []OneCliInItsSession)
<1>. SUFFICES ASSUME "slowcli" \notin Features PROVE Spec => []OneCliInItsSession
  OBVIOUS
<1>1. IInv /\ CliOK /\ [Next]_vars => CliOK'
  BY CliStep
<1>2. ASSUME IInv, CliOK PROVE OneCliInItsSession
  <2>1. ASSUME NEW i \in Invocations
        PROVE  i = [who |-> active.who, session |-> session]
    <3>1. i \in Used
      <4>1. CASE \E r \in Runtimes, k \in Keys :
                   /\ i = [who |-> Submission(r, k), session |-> task[r][k].session]
                   /\ task[r][k].pc \in {"spawned", "receipt", "run_spawned"}
        <5>1. PICK r \in Runtimes, k \in Keys :
                /\ i = [who |-> Submission(r, k), session |-> task[r][k].session]
                /\ task[r][k].pc \in {"spawned", "receipt", "run_spawned"}
          BY <4>1
        <5>2. task[r][k].session \in Sessions
          BY <1>2 DEF IInv, Types, Tasks, Sessions
        <5>3. i \in Requests
          BY <5>1, <5>2, CallersDiffer DEF Requests
        <5>4. i.who = Submission(r, k) /\ i.session = task[r][k].session
          BY <5>1
        <5>. QED BY <5>1, <5>3, <5>4, OfTask DEF InCli
      <4>2. CASE \E r \in Runtimes :
                   /\ i = [who |-> Polling(r), session |-> poll[r].session]
                   /\ poll[r].pc = "running"
        <5>1. PICK r \in Runtimes :
                /\ i = [who |-> Polling(r), session |-> poll[r].session]
                /\ poll[r].pc = "running"
          BY <4>2
        <5>2. poll[r].session \in Sessions
          BY <1>2 DEF IInv, Types, Polls, Sessions
        <5>3. i \in Requests
          BY <5>1, <5>2, CallersDiffer DEF Requests
        <5>4. i.who = Polling(r) /\ i.session = poll[r].session
          BY <5>1
        <5>. QED BY <5>1, <5>3, <5>4, OfPoll
      <4>. QED BY <4>1, <4>2 DEF Invocations, Submissions
    <3>2. i = [who |-> i.who, session |-> i.session]
      BY <3>1 DEF Used, Requests
    <3>. QED BY <1>2, <3>1, <3>2 DEF CliOK, LeaseOK
  <2>2. Invocations \subseteq {[who |-> active.who, session |-> session]}
    BY <2>1
  <2>3. Cardinality(Invocations) <= 1
    <3>1. Invocations = {} \/ Invocations = {[who |-> active.who, session |-> session]}
      BY <2>2
    <3>2. PICK x : Invocations = {} \/ Invocations = {x}
      BY <3>1
    <3>3. Cardinality({x}) = 1
      BY FS_Singleton
    <3>4. Cardinality({}) = 0
      BY FS_EmptySet
    <3>. QED BY <3>2, <3>3, <3>4
  <2>. QED BY <2>1, <2>3 DEF OneCliInItsSession
<1>. QED BY <1>1, <1>2, CliAtFirst, Inductive, PTL DEF Spec

-----------------------------------------------------------------------------
(***************************************************************************)
(* The types of the state.  What the provider says of a job is translated  *)
(* before it is stored: only a job that exists is polled, so that its      *)
(* answer is an end or that it goes on.                                    *)
(***************************************************************************)
Settled == {"completed", "failed", "cancelled"}
Words   == {"processing"} \cup Settled

\* What is stored is a state; a receipt, stored or in hand, is one of a job.
StoredWell(k) ==
  /\ journal[k].state \in States
  /\ journal[k].receipt => job[k] # "none"
  /\ \A r \in Runtimes : task[r][k].pc = "receipt" => job[k] # "none"

\* What is polled has a receipt, and the provider knows the job.
PolledWell(r) ==
  /\ poll[r].pc # "idle" => journal[poll[r].key].receipt
  /\ poll[r].pc = "observed" => poll[r].answer \in Words

Leases == [who : Clients, session : Sessions, live : BOOLEAN]

WellTyped ==
  /\ line \subseteq Keys \X Keys /\ alive \subseteq Runtimes
  /\ known \in [Runtimes -> [Keys -> -1 .. 1]]
  /\ active \in Leases
  /\ \A k \in Keys : StoredWell(k)
  /\ \A r \in Runtimes : PolledWell(r)

\* The rank of a record.
LEMMA Ranks ==
  ASSUME NEW rec
  PROVE  /\ RankOf(rec) \in -1 .. 2
         /\ RankOf(rec) = -1 <=> rec.state = "absent"
         /\ rec.state = "queued" => RankOf(rec) = 0
         /\ RankOf(rec) = 0 => rec.state = "queued"
BY DEF RankOf

\* What is remembered is a rank below that of what stays.
LEMMA RememberedRanks ==
  ASSUME known \in [Runtimes -> [Keys -> -1 .. 1]], NEW r, NEW j, Remember(r, j)
  PROVE  known' \in [Runtimes -> [Keys -> -1 .. 1]]
<1>. DEFINE value(p, q) == IF RankOf(j[q]) = 2 THEN -1
                           ELSE IF p = r THEN RankOf(j[q]) ELSE known[p][q]
<1>1. \A p \in Runtimes, q \in Keys : value(p, q) \in -1 .. 1
  BY Ranks
<1>2. known' = [p \in Runtimes |-> [q \in Keys |-> value(p, q)]]
  BY DEF Remember
<1>. HIDE DEF value
<1> QED BY <1>1, <1>2

\* A transaction leaves pairs of keys in line.
LEMMA CommitShape ==
  ASSUME WellTyped, NEW r, NEW j, Commit(r, j)
  PROVE  line' \subseteq Keys \X Keys /\ known' \in [Runtimes -> [Keys -> -1 .. 1]]
<1>1. known' \in [Runtimes -> [Keys -> -1 .. 1]]
  BY RememberedRanks DEF Commit, WellTyped
<1>2. line' \subseteq Keys \X Keys
  BY DEF Commit, Queued
<1> QED BY <1>1, <1>2

\* The tickets and the memory.
LEMMA MemoryShape ==
  ASSUME IInv, WellTyped, [Next]_vars
  PROVE  line' \subseteq Keys \X Keys /\ known' \in [Runtimes -> [Keys -> -1 .. 1]]
<1>. DEFINE Fine == line' \subseteq Keys \X Keys /\ known' \in [Runtimes -> [Keys -> -1 .. 1]]
<1>. SUFFICES Fine
  OBVIOUS
<1>1. CASE UNCHANGED <<line, known>>
  BY <1>1 DEF WellTyped
<1>2. CASE \E r, j : Commit(r, j)
  BY <1>2, CommitShape
<1>3. CASE \E r, k, rec : RunWrites(r, k, rec)
  BY <1>3, RememberedRanks DEF RunWrites, WellTyped
<1>4. CASE \E r \in Runtimes : Gone(r) /\ line' \subseteq line
  BY <1>4 DEF Gone, WellTyped
<1>. HIDE DEF Fine
<1>5. ASSUME NEW r \in Runtimes, NEW k \in Keys, Submit(r, k) PROVE Fine
  BY <1>1, <1>2, <1>5
  DEF Submit, Reserve, AskForCli, GetCli, LoseCli, CommitFence, Spawn, Answer, CommitReceipt,
      CommitFailure, FailTask, TransactionDenied, Denied, journalVars
<1>6. ASSUME NEW r \in Runtimes, NEW k \in Keys,
             \/ Enqueue(r, k) \/ RunBegin(r, k) \/ FailBeforeCli(r, k) \/ FailToSpawn(r, k)
             \/ Abort(r, k) \/ Cancel(r, k) \/ Delete(r, k) \/ Run(r, k)
      PROVE  Fine
  BY <1>1, <1>2, <1>3, <1>6
  DEF Enqueue, RunBegin, FailBeforeCli, FailToSpawn, Abort, Cancel, Delete, Run, RunSpawn,
      RunRefused, RunEnds, journalVars
<1>7. ASSUME NEW r \in Runtimes, Load(r) \/ Reconcile(r) \/ Restart(r)
      PROVE  Fine
  BY <1>1, <1>2, <1>7
  DEF Load, Reconcile, ClaimDue, AskForQuery, GetQuery, LoseQuery, QueryAnswers,
      CommitObservation, CommitSyncError, Restart, journalVars
<1>8. ASSUME NEW r \in Runtimes, Crash(r) \/ Dispose(r)
      PROVE  Fine
  BY <1>4, <1>8 DEF Crash, Dispose
<1>9. CASE Expiry \/ SwitchAccount \/ (\E k \in Keys : JobEnds(k)) \/ UNCHANGED vars
  BY <1>1, <1>9
  DEF Expiry, ExpireLease, ExpirePollLease, ExpireCliLease, ExpireRequest, SwitchAccount,
      JobEnds, journalVars, vars
<1>. QED BY <1>5, <1>6, <1>7, <1>8, <1>9 DEF Next

\* Who runs is a runtime.
LEMMA AliveShape ==
  ASSUME WellTyped, [Next]_vars
  PROVE  alive' \subseteq Runtimes
<1>. DEFINE Fine == alive' \subseteq Runtimes
<1>. SUFFICES Fine
  OBVIOUS
<1>1. CASE alive' = alive
  BY <1>1 DEF WellTyped
<1>2. ASSUME NEW r \in Runtimes, Gone(r) \/ Restart(r) PROVE Fine
  BY <1>2 DEF Gone, Restart, WellTyped
<1>. HIDE DEF Fine
<1>3. ASSUME NEW r \in Runtimes, NEW k \in Keys, Submit(r, k) PROVE Fine
  BY <1>1, <1>3
  DEF Submit, Reserve, AskForCli, GetCli, LoseCli, CommitFence, Spawn, Answer, CommitReceipt,
      CommitFailure, FailTask, TransactionDenied
<1>4. ASSUME NEW r \in Runtimes, NEW k \in Keys,
             \/ Enqueue(r, k) \/ RunBegin(r, k) \/ FailBeforeCli(r, k) \/ FailToSpawn(r, k)
             \/ Abort(r, k) \/ Cancel(r, k) \/ Delete(r, k) \/ Run(r, k)
      PROVE  Fine
  BY <1>1, <1>4
  DEF Enqueue, RunBegin, FailBeforeCli, FailToSpawn, Abort, Cancel, Delete, Run, RunSpawn,
      RunRefused, RunEnds
<1>5. ASSUME NEW r \in Runtimes, Load(r) \/ Reconcile(r) \/ Crash(r) \/ Dispose(r) \/ Restart(r)
      PROVE  Fine
  BY <1>1, <1>2, <1>5
  DEF Load, Reconcile, ClaimDue, AskForQuery, GetQuery, LoseQuery, QueryAnswers,
      CommitObservation, CommitSyncError, Crash, Dispose
<1>6. CASE Expiry \/ SwitchAccount \/ (\E k \in Keys : JobEnds(k)) \/ UNCHANGED vars
  BY <1>1, <1>6
  DEF Expiry, ExpireLease, ExpirePollLease, ExpireCliLease, ExpireRequest, SwitchAccount,
      JobEnds, vars
<1>. QED BY <1>3, <1>4, <1>5, <1>6 DEF Next


\* A lease is granted to somebody who may ask, under the session of the account.
LEMMA LeaseShape ==
  ASSUME IInv, WellTyped, [Next]_vars
  PROVE  active' \in Leases
<1>. DEFINE Fine == active' \in Leases
<1>. SUFFICES Fine
  OBVIOUS
<1>1. /\ NoLease \in Leases /\ active \in Leases /\ session \in Sessions
      /\ [active EXCEPT !.live = FALSE] \in Leases
  <2>1. <<>> \in Clients
    BY DEF Clients
  <2>2. session \in Sessions /\ 0 \in Sessions
    BY BoundsAssumption DEF IInv, Types, Sessions
  <2>3. active \in Leases
    BY DEF WellTyped
  <2>. QED BY <2>1, <2>2, <2>3 DEF Leases, NoLease
<1>2. CASE active' \in {active, NoLease, [active EXCEPT !.live = FALSE]}
  BY <1>1, <1>2
<1>3. CASE \E c \in Clients : Grant(c)
  BY <1>1, <1>3 DEF Grant, Leases
<1>4. CASE \E c : Release(c)
  BY <1>1, <1>4 DEF Release
<1>5. \A c : Withdraw(c) \/ Refuse(c) => active' = active
  BY DEF Withdraw, Refuse
<1>. HIDE DEF Fine
<1>6. ASSUME NEW r \in Runtimes, NEW k \in Keys, Submit(r, k) PROVE Fine
  <2>1. CASE GetCli(r, k)
    BY <1>3, <2>1, CallersDiffer DEF GetCli
  <2>. QED BY <1>2, <1>4, <1>5, <1>6, <2>1
  DEF Submit, Reserve, AskForCli, LoseCli, CommitFence, Spawn, Answer, CommitReceipt,
      CommitFailure, FailTask, TransactionDenied, arbiterVars
<1>7. ASSUME NEW r \in Runtimes, NEW k \in Keys,
             \/ Enqueue(r, k) \/ RunBegin(r, k) \/ FailBeforeCli(r, k) \/ FailToSpawn(r, k)
             \/ Abort(r, k) \/ Cancel(r, k) \/ Delete(r, k) \/ Run(r, k)
      PROVE  Fine
  <2>1. CASE RunSpawn(r, k)
    BY <1>3, <2>1, CallersDiffer DEF RunSpawn
  <2>. QED BY <1>2, <1>4, <1>5, <1>7, <2>1
  DEF Enqueue, RunBegin, FailBeforeCli, FailToSpawn, Abort, Cancel, Delete, Run,
      RunRefused, RunEnds, arbiterVars
<1>8. ASSUME NEW r \in Runtimes, Load(r) \/ Reconcile(r) \/ Crash(r) \/ Dispose(r) \/ Restart(r)
      PROVE  Fine
  <2>1. CASE GetQuery(r)
    BY <1>3, <2>1, CallersDiffer DEF GetQuery
  <2>. QED BY <1>2, <1>4, <1>5, <1>8, <2>1
  DEF Load, Reconcile, ClaimDue, AskForQuery, LoseQuery, QueryAnswers,
      CommitObservation, CommitSyncError, Crash, Dispose, Restart, arbiterVars
<1>9. CASE Expiry \/ SwitchAccount \/ (\E k \in Keys : JobEnds(k)) \/ UNCHANGED vars
  BY <1>2, <1>5, <1>9
  DEF Expiry, ExpireLease, ExpirePollLease, ExpireCliLease, ExpireRequest, SwitchAccount,
      JobEnds, arbiterVars, vars
<1>. QED BY <1>6, <1>7, <1>8, <1>9 DEF Next

-----------------------------------------------------------------------------
(* What is stored. *)

\* What keeps the words of the provider out of the journal.
LEMMA Stored ==
  ASSUME IInv, StepOK, \A k \in Keys : StoredWell(k), NEW k \in Keys,
         journal'[k].state \in States,
         job[k] # "none" => job'[k] # "none",
         journal'[k].receipt => journal[k].receipt \/ job'[k] # "none",
         \A p \in Runtimes : task'[p][k].pc = "receipt" =>
            task[p][k].pc = "receipt" \/ job'[k] # "none"
  PROVE  StoredWell(k)'
BY DEF StoredWell

\* A record that goes on is stored as a state.
LEMMA StoredOn ==
  ASSUME IInv, StepOK, \A k \in Keys : StoredWell(k), NEW k \in Keys,
         Continues(journal[k], journal'[k]),
         job[k] # "none" => job'[k] # "none",
         \A p \in Runtimes : task'[p][k].pc = "receipt" =>
            task[p][k].pc = "receipt" \/ job'[k] # "none"
  PROVE  StoredWell(k)'
<1>1. journal'[k].state \in States /\ journal'[k].receipt = journal[k].receipt
  BY DEF Continues, StoredWell, States
<1>. QED BY <1>1, Stored

\* Who polls goes on to poll a record with a receipt.
LEMMA Polled ==
  ASSUME IInv, StepOK, WellTyped, NEW r \in Runtimes,
         poll'[r].pc # "idle" => poll[r].pc # "idle" /\ poll'[r].key = poll[r].key,
         poll'[r].pc = "observed" =>
           poll'[r].answer \in Words \/ (poll[r].pc = "observed" /\ poll'[r].answer = poll[r].answer)
  PROVE  PolledWell(r)'
BY DEF PolledWell, WellTyped, StepOK, Stays, IInv, Types

\* A submission that moves holds no receipt unless it held one.
LEMMA NoNewReceipt ==
  ASSUME IInv, NEW r \in Runtimes, NEW k \in Keys, Only(r, k),
         task'[r][k].pc # "receipt"
  PROVE  \A p \in Runtimes, q \in Keys :
            task'[p][q].pc = "receipt" => task[p][q].pc = "receipt"
BY DEF Only

WellKept == (\A q \in Keys : StoredWell(q)') /\ (\A p \in Runtimes : PolledWell(p)')

\* Nobody's poll changes.
LEMMA SamePolls ==
  ASSUME IInv, StepOK, WellTyped, poll' = poll
  PROVE  \A p \in Runtimes : PolledWell(p)'
BY Polled

\* A submission moves, and the journal is left alone.
LEMMA TaskKept ==
  ASSUME IInv, StepOK, WellTyped, NEW r \in Runtimes, NEW k \in Keys, Only(r, k),
         journal' = journal, poll' = poll,
         job' \in {job, [job EXCEPT ![k] = "running"]},
         task'[r][k].pc = "receipt" => task[r][k].pc = "receipt" \/ job'[k] # "none"
  PROVE  WellKept
<1>1. \A q \in Keys : Continues(journal[q], journal'[q])
  BY DEF Continues
<1>2. \A q \in Keys : job[q] # "none" => job'[q] # "none"
  BY DEF IInv, Types
<1>3. \A q \in Keys, p \in Runtimes :
        task'[p][q].pc = "receipt" => task[p][q].pc = "receipt" \/ job'[q] # "none"
  BY DEF Only
<1>. QED BY <1>1, <1>2, <1>3, StoredOn, SamePolls DEF WellKept, WellTyped

\* A reload keeps what is stored well.
LEMMA ReloadedWell ==
  ASSUME IInv, WellTyped, NEW k \in Keys
  PROVE  /\ Reloaded[k] \in Recs /\ Reloaded[k].state \in States
         /\ Reloaded[k].receipt = journal[k].receipt
         /\ Reloaded[k].receipt => job[k] # "none"
<1>1. Reloaded[k] \in Recs /\ Continues(journal[k], Reloaded[k])
  BY ReloadedRecords DEF IInv
<1>2. StoredWell(k)
  BY DEF WellTyped
<1>. QED BY <1>1, <1>2 DEF Continues, StoredWell, States

\* A transaction for k commits rec.
LEMMA CommitKept ==
  ASSUME IInv, StepOK, WellTyped, NEW r \in Runtimes, NEW k \in Keys, Only(r, k),
         NEW rec \in Recs, Commit(r, Put(k, rec)), rec.state \in States,
         rec.receipt => job[k] # "none",
         UNCHANGED <<job, poll>>, task'[r][k].pc # "receipt"
  PROVE  WellKept
<1>1. /\ journal'[k] = rec
      /\ \A q \in Keys \ {k} : Continues(journal[q], journal'[q])
  BY Committed
<1>2. \A q \in Keys, p \in Runtimes :
        task'[p][q].pc = "receipt" => task[p][q].pc = "receipt" \/ job'[q] # "none"
  BY DEF Only
<1>3. StoredWell(k)'
  BY <1>1, <1>2, Stored DEF WellTyped
<1>4. \A q \in Keys \ {k} : StoredWell(q)'
  BY <1>1, <1>2, StoredOn DEF WellTyped
<1>. QED BY <1>3, <1>4, SamePolls DEF WellKept

\* A transaction only repairs the journal.
LEMMA RereadKept ==
  ASSUME IInv, StepOK, WellTyped, NEW r \in Runtimes, Commit(r, Reloaded),
         UNCHANGED <<job, poll>>,
         \A q \in Keys, p \in Runtimes :
           task'[p][q].pc = "receipt" => task[p][q].pc = "receipt"
  PROVE  WellKept
<1>1. \A q \in Keys : Continues(journal[q], journal'[q])
  BY Reread
<1>. QED BY <1>1, StoredOn, SamePolls DEF WellKept, WellTyped

\* The steps of a submission that leave the journal alone.
LEMMA QuietKept ==
  ASSUME IInv, StepOK, WellTyped, NEW r \in Runtimes, NEW k \in Keys,
         \/ AskForCli(r, k) \/ FailBeforeCli(r, k) \/ GetCli(r, k) \/ LoseCli(r, k)
         \/ Spawn(r, k) \/ FailToSpawn(r, k) \/ Answer(r, k) \/ Abort(r, k)
         \/ TransactionDenied(r, k)
  PROVE  WellKept
<1>. USE DEF IInv
<1>1. /\ journal' = journal /\ poll' = poll
      /\ job' \in {job, [job EXCEPT ![k] = "running"]}
  BY DEF AskForCli, FailBeforeCli, GetCli, LoseCli, Spawn, FailToSpawn, Answer, Abort,
         TransactionDenied, Denied, journalVars
<1>2. /\ Only(r, k)
      /\ task'[r][k].pc = "receipt" => job'[k] # "none"
  <2>1. CASE AskForCli(r, k)
    BY <2>1 DEF AskForCli, Only, Types
  <2>2. CASE \E where \in {"fail_early", "granted", "spawned", "fail_granted", "fail_spawned"} :
               To(r, k, where)
    BY <2>2, MovedTask
  <2>3. CASE Over(r, k)
    BY <2>3, OverTask
  <2>4. CASE To(r, k, "receipt") /\ job' = [job EXCEPT ![k] = "running"]
    BY <2>4, MovedTask DEF Types
  <2>5. CASE TransactionDenied(r, k)
    <3>. DEFINE pc == task[r][k].pc
    <3>1. pc \in {"granted", "receipt", "fail_early", "fail_granted", "fail_spawned", "failtask"}
      BY <2>5 DEF TransactionDenied
    <3>2. AfterDenial(pc) \in {"fail_granted", "fail_spawned", "failtask", "none"}
      BY <3>1 DEF AfterDenial
    <3>. DEFINE t == IF AfterDenial(pc) = "none" THEN NoTask
                     ELSE [task[r][k] EXCEPT !.pc = AfterDenial(pc)]
    <3>3. task' = [task EXCEPT ![r][k] = t] /\ t.pc # "receipt"
      BY <2>5, <3>2 DEF TransactionDenied, Types, Tasks, NoTask
    <3>. HIDE DEF t
    <3>. QED BY <3>3 DEF Only, Types
  <2>. QED BY <2>1, <2>2, <2>3, <2>4, <2>5
       DEF FailBeforeCli, GetCli, LoseCli, Spawn, FailToSpawn, Answer, Abort
<1>. QED BY <1>1, <1>2, TaskKept

\* The record of k is closed: it stays as it is stored, but for its state.
LEMMA ClosedKept ==
  ASSUME IInv, StepOK, WellTyped, NEW r \in Runtimes, NEW k \in Keys, Only(r, k),
         NEW s \in States, Commit(r, Put(k, Closed(Reloaded[k], s))),
         UNCHANGED <<job, poll>>, task'[r][k].pc # "receipt"
  PROVE  WellKept
<1>1. /\ Closed(Reloaded[k], s) \in Recs /\ Closed(Reloaded[k], s).state = s
      /\ Closed(Reloaded[k], s).receipt => job[k] # "none"
  BY ReloadedWell, ClosedRecord
<1>. QED BY <1>1, CommitKept

\* Transactions of a submission under way.
LEMMA SubmissionKept ==
  ASSUME IInv, StepOK, WellTyped, NEW r \in Runtimes, NEW k \in Keys,
         \/ Reserve(r, k) \/ CommitFence(r, k) \/ CommitReceipt(r, k)
         \/ CommitFailure(r, k) \/ FailTask(r, k)
  PROVE  WellKept
<1>. USE DEF IInv
<1>1. UNCHANGED <<job, poll>>
  BY DEF Reserve, CommitFence, CommitReceipt, CommitFailure, FailTask
<1>2. Only(r, k) /\ task'[r][k].pc # "receipt"
  <2>1. CASE To(r, k, "reserved") \/ To(r, k, "permitted")
    BY <2>1, MovedTask
  <2>2. CASE Over(r, k)
    BY <2>2, OverTask
  <2>. QED BY <2>1, <2>2 DEF Reserve, CommitFence, CommitReceipt, CommitFailure, FailTask
<1>3. \A q \in Keys, p \in Runtimes :
        task'[p][q].pc = "receipt" => task[p][q].pc = "receipt"
  BY <1>2, NoNewReceipt
<1>4. /\ Reloaded[k] \in Recs
      /\ Reloaded[k].receipt => job[k] # "none"
  BY ReloadedWell
<1>5. CASE Commit(r, Reloaded)
  BY <1>1, <1>3, <1>5, RereadKept
<1>6. CASE \E s \in States : Commit(r, Put(k, Closed(Reloaded[k], s)))
  BY <1>1, <1>2, <1>6, ClosedKept
<1>7. CASE Commit(r, Put(k, [Reloaded[k] EXCEPT !.state = "pending", !.owner = r,
                                                !.phase = "reserved", !.live = TRUE]))
  <2>. DEFINE rec == [Reloaded[k] EXCEPT !.state = "pending", !.owner = r,
                                         !.phase = "reserved", !.live = TRUE]
  <2>1. rec \in Recs /\ rec.state \in States /\ (rec.receipt => job[k] # "none")
    BY <1>4 DEF Recs, States, Phases
  <2>2. Commit(r, Put(k, rec))
    BY <1>7
  <2>. HIDE DEF rec
  <2>. QED BY <1>1, <1>2, <2>1, <2>2, CommitKept
<1>8. CASE /\ Mine(r, k)
           /\ Commit(r, Put(k, [Reloaded[k] EXCEPT !.phase = "spawn_permitted",
                                  !.live = TRUE, !.session = task[r][k].session]))
  <2>. DEFINE rec == [Reloaded[k] EXCEPT !.phase = "spawn_permitted", !.live = TRUE,
                                         !.session = task[r][k].session]
  <2>1. rec \in Recs /\ rec.state \in States /\ (rec.receipt => job[k] # "none")
    <3>1. task[r][k].session \in 0 .. MaxSessions /\ Reloaded[k].state \in States
      BY ReloadedWell DEF Types, Tasks
    <3>. QED BY <1>4, <3>1 DEF Recs, Phases
  <2>2. Commit(r, Put(k, rec))
    BY <1>8
  <2>. HIDE DEF rec
  <2>. QED BY <1>1, <1>2, <2>1, <2>2, CommitKept
<1>9. CASE /\ At(r, k, "receipt")
           /\ Commit(r, Put(k, [Closed(Reloaded[k], "accepted") EXCEPT !.receipt = TRUE]))
  <2>. DEFINE closed == Closed(Reloaded[k], "accepted")
              rec == [closed EXCEPT !.receipt = TRUE]
  <2>1. closed \in Recs /\ closed.state = "accepted"
    BY <1>4, ClosedRecord DEF States
  <2>. HIDE DEF closed
  <2>2. rec \in Recs /\ rec.state \in States
    BY <2>1 DEF Recs, States
  <2>3. job[k] # "none"
    BY <1>9 DEF At, WellTyped, StoredWell
  <2>4. Commit(r, Put(k, rec))
    BY <1>9 DEF closed
  <2>. HIDE DEF rec
  <2>. QED BY <1>1, <1>2, <2>2, <2>3, <2>4, CommitKept
<1>10. CASE Commit(r, Put(k, NoRecord))
  <2>1. NoRecord \in Recs /\ NoRecord.state \in States /\ NoRecord.receipt = FALSE
    BY NewRecord DEF States
  <2>. QED BY <1>1, <1>2, <1>10, <2>1, CommitKept
<1>11. "failed" \in States /\ "unknown" \in States
  BY DEF States
<1>12. CASE Reserve(r, k)
  BY <1>5, <1>7, <1>12 DEF Reserve
<1>13. CASE CommitFence(r, k)
  BY <1>5, <1>8, <1>13 DEF CommitFence
<1>14. CASE CommitReceipt(r, k)
  BY <1>5, <1>9, <1>14 DEF CommitReceipt
<1>15. CASE CommitFailure(r, k)
  BY <1>5, <1>6, <1>10, <1>11, <1>15 DEF CommitFailure
<1>16. CASE FailTask(r, k)
  BY <1>5, <1>6, <1>11, <1>16 DEF FailTask
<1>. QED BY <1>12, <1>13, <1>14, <1>15, <1>16

\* Transactions of callers.
LEMMA CallerKept ==
  ASSUME IInv, StepOK, WellTyped, NEW r \in Runtimes, NEW k \in Keys,
         Enqueue(r, k) \/ Cancel(r, k) \/ Delete(r, k) \/ RunBegin(r, k)
  PROVE  WellKept
<1>. USE DEF IInv
<1>1. UNCHANGED <<job, poll>>
  BY DEF Enqueue, Cancel, Delete, RunBegin
<1>2. /\ Only(r, k)
      /\ task'[r][k].pc = "receipt" => task' = task
  <2>1. CASE To(r, k, "queued")
    BY <2>1, MovedTask
  <2>2. CASE Over(r, k)
    BY <2>2, OverTask
  <2>3. CASE task' = task
    BY <2>3 DEF Only
  <2>4. CASE RunBegin(r, k)
    BY <2>4 DEF RunBegin, Only, Types
  <2>. QED BY <2>1, <2>2, <2>3, <2>4 DEF Enqueue, Cancel, Delete
<1>3. PICK rec \in Recs :
         /\ Commit(r, Put(k, rec)) /\ rec.state \in States
         /\ rec.receipt => job[k] # "none"
  <2>1. CASE Enqueue(r, k)
    <3>. DEFINE rec == [NoRecord EXCEPT !.state = "queued", !.owner = r, !.live = TRUE]
    <3>1. rec \in Recs /\ rec.state \in States /\ ~rec.receipt
      BY NewRecord DEF Recs, States
    <3>2. Commit(r, Put(k, rec))
      BY <2>1 DEF Enqueue
    <3>. HIDE DEF rec
    <3>. QED BY <3>1, <3>2
  <2>2. CASE RunBegin(r, k)
    <3>. DEFINE rec == [NoRecord EXCEPT !.state = "pending", !.legacy = TRUE]
    <3>1. rec \in Recs /\ rec.state \in States /\ ~rec.receipt
      BY NewRecord DEF Recs, States
    <3>2. Commit(r, Put(k, rec))
      BY <2>2 DEF RunBegin
    <3>. HIDE DEF rec
    <3>. QED BY <3>1, <3>2
  <2>3. CASE \E s \in {"cancelled", "deleted"} : Commit(r, Put(k, Closed(Reloaded[k], s)))
    <3>1. PICK s \in {"cancelled", "deleted"} : Commit(r, Put(k, Closed(Reloaded[k], s)))
      BY <2>3
    <3>2. /\ Closed(Reloaded[k], s) \in Recs /\ Closed(Reloaded[k], s).state \in States
          /\ Closed(Reloaded[k], s).receipt => job[k] # "none"
      BY ReloadedWell, ClosedRecord DEF States
    <3>. QED BY <3>1, <3>2
  <2>4. CASE Commit(r, Put(k, [Reloaded[k] EXCEPT !.hidden = TRUE]))
    <3>. DEFINE rec == [Reloaded[k] EXCEPT !.hidden = TRUE]
    <3>1. rec \in Recs /\ rec.state \in States /\ (rec.receipt => job[k] # "none")
      BY ReloadedWell DEF Recs
    <3>2. Commit(r, Put(k, rec))
      BY <2>4
    <3>. HIDE DEF rec
    <3>. QED BY <3>1, <3>2
  <2>. QED BY <2>1, <2>2, <2>3, <2>4 DEF Cancel, Delete
<1>4. /\ journal'[k] = rec
      /\ \A q \in Keys \ {k} : Continues(journal[q], journal'[q])
  BY <1>3, Committed
<1>5. \A q \in Keys, p \in Runtimes :
        task'[p][q].pc = "receipt" => task[p][q].pc = "receipt"
  BY <1>2 DEF Only
<1>6. \A q \in Keys : StoredWell(q)'
  BY <1>1, <1>3, <1>4, <1>5, Stored, StoredOn DEF WellTyped
<1>. QED BY <1>1, <1>6, SamePolls DEF WellKept

\* The older run.
LEMMA RunKept ==
  ASSUME IInv, StepOK, WellTyped, NEW r \in Runtimes, NEW k \in Keys, Run(r, k)
  PROVE  WellKept
<1>. USE DEF IInv
<1>1. /\ poll' = poll /\ job' \in {job, [job EXCEPT ![k] = "running"]}
  BY DEF Run, RunSpawn, RunRefused, RunEnds
<1>2. \A q \in Keys : job[q] # "none" => job'[q] # "none"
  BY <1>1 DEF Types
<1>3. Only(r, k) /\ task'[r][k].pc # "receipt"
  <2>1. CASE To(r, k, "run_spawned")
    BY <2>1, MovedTask
  <2>2. CASE Over(r, k)
    BY <2>2, OverTask
  <2>. QED BY <2>1, <2>2 DEF Run, RunSpawn, RunRefused, RunEnds
<1>4. \A q \in Keys, p \in Runtimes :
        task'[p][q].pc = "receipt" => task[p][q].pc = "receipt"
  BY <1>3, NoNewReceipt
<1>5. journal[k] \in Recs /\ journal[k].state \in States
  BY DEF Types, WellTyped, StoredWell
<1>6. PICK rec \in Recs :
         /\ RunWrites(r, k, rec) /\ rec.state \in States
         /\ rec.receipt => journal[k].receipt \/ job'[k] # "none"
  <2>1. CASE RunSpawn(r, k)
    <3>. DEFINE rec == [journal[k] EXCEPT !.session = task[r][k].session]
    <3>1. rec \in Recs /\ rec.state \in States /\ rec.receipt = journal[k].receipt
      BY <1>5 DEF Recs, Types, Tasks
    <3>2. RunWrites(r, k, rec)
      BY <2>1 DEF RunSpawn
    <3>. HIDE DEF rec
    <3>. QED BY <3>1, <3>2
  <2>2. CASE RunRefused(r, k)
    BY <2>2, NewRecord DEF RunRefused, States
  <2>3. CASE RunEnds(r, k)
    <3>. DEFINE closed == Closed(journal[k], "accepted")
                accepted == [closed EXCEPT !.receipt = TRUE]
                unknown == Closed(journal[k], "unknown")
    <3>1. \/ RunWrites(r, k, accepted) /\ job' = [job EXCEPT ![k] = "running"]
          \/ RunWrites(r, k, unknown)
          \/ RunWrites(r, k, journal[k])
      BY <2>3 DEF RunEnds
    <3>2. unknown \in Recs /\ unknown.state \in States /\ unknown.receipt = journal[k].receipt
      BY <1>5, ClosedRecord DEF States
    <3>3. closed \in Recs /\ closed.state = "accepted"
      BY <1>5, ClosedRecord DEF States
    <3>. HIDE DEF closed, unknown
    <3>4. accepted \in Recs /\ accepted.state \in States
      BY <3>3 DEF Recs, States
    <3>. HIDE DEF accepted
    <3>5. job' = [job EXCEPT ![k] = "running"] => job'[k] # "none"
      BY DEF Types
    <3>. QED BY <1>5, <3>1, <3>2, <3>4, <3>5
  <2>. QED BY <2>1, <2>2, <2>3 DEF Run
<1>7. /\ journal'[k] = rec
      /\ \A q \in Keys \ {k} : Continues(journal[q], journal'[q])
  BY <1>6, RunWritten
<1>8. \A q \in Keys : StoredWell(q)'
  BY <1>2, <1>4, <1>6, <1>7, Stored, StoredOn DEF WellTyped
<1>. QED BY <1>1, <1>8, SamePolls DEF WellKept

\* Runtimes that go away.
LEMMA GoneKept ==
  ASSUME IInv, StepOK, WellTyped, NEW r \in Runtimes, Crash(r) \/ Dispose(r)
  PROVE  WellKept
<1>1. Gone(r)
  BY DEF Crash, Dispose
<1>2. \A q \in Keys : job[q] # "none" => job'[q] # "none"
  BY DEF Crash, Dispose
<1>3. \A q \in Keys, p \in Runtimes :
        task'[p][q].pc = "receipt" => task[p][q].pc = "receipt"
  BY <1>1, GoneFacts
<1>4. \A q \in Keys : Continues(journal[q], journal'[q])
  <2>1. CASE Crash(r)
    BY <2>1, UnownedRecord DEF Crash, IInv, Types
  <2>2. CASE Dispose(r)
    BY <2>2, DisposedOn
  <2>. QED BY <2>1, <2>2
<1>5. \A p \in Runtimes : poll'[p].pc # "idle" => poll'[p] = poll[p]
  BY <1>1 DEF Gone, NoPoll, IInv, Types
<1>6. \A p \in Runtimes : PolledWell(p)'
  BY <1>5, Polled
<1>. QED BY <1>2, <1>3, <1>4, <1>6, StoredOn DEF WellKept, WellTyped

\* Nobody submits, and what is stored is stored well.
LEMMA ElsewhereKept ==
  ASSUME IInv, StepOK, WellTyped, task' = task,
         \A q \in Keys : /\ journal'[q].state \in States
                         /\ journal'[q].receipt => journal[q].receipt,
         \A q \in Keys : job[q] # "none" => job'[q] # "none",
         \A p \in Runtimes : PolledWell(p)'
  PROVE  WellKept
BY Stored DEF WellKept, WellTyped

\* Time, the account, the provider and restarts.
LEMMA EnvironmentKept ==
  ASSUME IInv, StepOK, WellTyped,
         \/ Expiry \/ SwitchAccount \/ UNCHANGED vars
         \/ \E r \in Runtimes : Load(r) \/ Restart(r)
         \/ \E k \in Keys : JobEnds(k)
  PROVE  WellKept
<1>1. task' = task /\ poll' = poll
  BY DEF Expiry, ExpireLease, ExpirePollLease, ExpireCliLease, ExpireRequest, SwitchAccount,
         Load, Restart, JobEnds, vars
<1>2. \A q \in Keys : job[q] # "none" => job'[q] # "none"
  <2>1. CASE \E k \in Keys : JobEnds(k)
    BY <2>1 DEF JobEnds, IInv, Types
  <2>2. CASE job' = job
    BY <2>2
  <2>. QED BY <2>1, <2>2
       DEF Expiry, ExpireLease, ExpirePollLease, ExpireCliLease, ExpireRequest, SwitchAccount,
           Load, Restart, vars
<1>3. \A q \in Keys : Continues(journal[q], journal'[q])
  <2>1. CASE \E r \in Runtimes : Load(r)
    BY <2>1, Reread DEF Load
  <2>2. CASE \E k \in Keys : ExpireLease(k) \/ ExpirePollLease(k)
    <3>1. PICK k \in Keys : ExpireLease(k) \/ ExpirePollLease(k)
      BY <2>2
    <3>2. journal[k] \in Recs /\ journal \in [Keys -> Recs]
      BY DEF IInv, Types
    <3>3. \A q \in Keys \ {k} : journal'[q] = journal[q]
      BY <3>1, <3>2 DEF ExpireLease, ExpirePollLease
    <3>4. Continues(journal[k], journal'[k])
      BY <3>1, <3>2 DEF ExpireLease, ExpirePollLease, Continues, Recs
    <3>. QED BY <3>3, <3>4 DEF Continues
  <2>3. CASE journal' = journal
    BY <2>3 DEF Continues
  <2>. QED BY <2>1, <2>2, <2>3
       DEF Expiry, ExpireCliLease, ExpireRequest, SwitchAccount, Restart, JobEnds, vars,
           journalVars
<1>4. \A q \in Keys : /\ journal'[q].state \in States
                      /\ journal'[q].receipt => journal[q].receipt
  BY <1>3 DEF Continues, WellTyped, StoredWell, States
<1>. QED BY <1>1, <1>2, <1>4, SamePolls, ElsewhereKept

\* The reconciler asks for records that have a receipt, and is told of jobs.
LEMMA QueryKept ==
  ASSUME IInv, StepOK, WellTyped, NEW r \in Runtimes,
         \/ \E k \in Keys : ClaimDue(r, k)
         \/ AskForQuery(r) \/ GetQuery(r) \/ LoseQuery(r) \/ QueryAnswers(r)
         \/ CommitSyncError(r)
  PROVE  WellKept
<1>1. task' = task /\ job' = job
  BY DEF ClaimDue, AskForQuery, GetQuery, LoseQuery, QueryAnswers, CommitSyncError
<1>2. poll \in [Runtimes -> Polls] /\ poll[r] \in Polls /\ journal \in [Keys -> Recs]
  BY DEF IInv, Types
<1>3. \A p \in Runtimes : p # r => poll'[p] = poll[p]
  BY <1>2 DEF ClaimDue, AskForQuery, GetQuery, LoseQuery, QueryAnswers, CommitSyncError, SetPoll
<1>4. \A q \in Keys : /\ journal'[q].state = journal[q].state
                      /\ journal'[q].receipt = journal[q].receipt
  <2>1. CASE \E k \in Keys : ClaimDue(r, k)
    <3>1. PICK k \in Keys : ClaimDue(r, k)
      BY <2>1
    <3>2. journal[k] \in Recs
      BY <1>2
    <3>. QED BY <1>2, <3>1, <3>2 DEF ClaimDue, Write, Recs
  <2>2. CASE CommitSyncError(r)
    BY <1>2, <2>2 DEF CommitSyncError, Write, Unleased, Recs
  <2>3. CASE journal' = journal
    BY <2>3
  <2>. QED BY <2>1, <2>2, <2>3
       DEF AskForQuery, GetQuery, LoseQuery, QueryAnswers, journalVars
<1>5. PolledWell(r)'
  <2>1. CASE \E k \in Keys : ClaimDue(r, k)
    <3>1. PICK k \in Keys : ClaimDue(r, k)
      BY <2>1
    <3>2. poll'[r].pc = "claimed" /\ poll'[r].key = k
      BY <1>2, <3>1 DEF ClaimDue, SetPoll, NoPoll
    <3>3. journal[k].receipt
      BY <3>1 DEF ClaimDue, Eligible
    <3>. QED BY <1>4, <3>2, <3>3 DEF PolledWell
  <2>2. CASE CommitSyncError(r)
    BY <1>2, <2>2 DEF CommitSyncError, SetPoll, NoPoll, PolledWell
  <2>3. CASE QueryAnswers(r)
    <3>1. PICK a \in Answers(poll[r].key) :
            SetPoll(r, IF IsCurrent(Polling(r))
                       THEN [poll[r] EXCEPT !.pc = "observed", !.answer = a]
                       ELSE [poll[r] EXCEPT !.pc = "error"])
      BY <2>3 DEF QueryAnswers
    <3>2. poll[r].pc # "idle" /\ poll[r].key \in Keys
      BY <2>3 DEF QueryAnswers, IInv, Types
    <3>3. job[poll[r].key] \in JobStates \ {"none"}
      BY <3>2 DEF WellTyped, PolledWell, StoredWell, IInv, Types
    <3>4. a \in Words
      BY <3>1, <3>3 DEF Answers, Words, Settled, JobStates
    <3>5. /\ poll'[r].key = poll[r].key
          /\ poll'[r].pc = "observed" => poll'[r].answer = a
      BY <1>2, <3>1 DEF SetPoll, Polls
    <3>. QED BY <3>2, <3>4, <3>5, Polled
  <2>4. CASE AskForQuery(r) \/ GetQuery(r) \/ LoseQuery(r)
    <3>. DEFINE Same == /\ poll[r].pc # "idle" /\ poll'[r].key = poll[r].key
                        /\ poll'[r].pc \in {"waiting", "running", "error"}
    <3>1. Same
      <4>1. CASE AskForQuery(r)
        <5>1. \/ poll' = [poll EXCEPT ![r] = [poll[r] EXCEPT !.pc = "waiting", !.session = session]]
              \/ poll' = [poll EXCEPT ![r] = [poll[r] EXCEPT !.pc = "error"]]
          BY <4>1 DEF AskForQuery, SetPoll
        <5>. QED BY <1>2, <4>1, <5>1 DEF AskForQuery, Polls
      <4>2. CASE GetQuery(r) \/ LoseQuery(r)
        BY <1>2, <4>2 DEF GetQuery, LoseQuery, SetPoll, Polls
      <4>. QED BY <2>4, <4>1, <4>2
    <3>. QED BY <3>1, Polled
  <2>. QED BY <2>1, <2>2, <2>3, <2>4
<1>6. \A p \in Runtimes : PolledWell(p)'
  BY <1>3, <1>5, Polled
<1>7. \A q \in Keys : journal'[q].state \in States
  BY <1>4 DEF WellTyped, StoredWell
<1>. QED BY <1>1, <1>4, <1>6, <1>7, ElsewhereKept

\* What applyObservation makes of the record of accepted work.
LEMMA ObservedRecord ==
  ASSUME NEW rec \in Recs, rec.receipt, rec.state \in {"accepted", "succeeded"},
         NEW answer \in {"processing"} \cup Settled, NEW fetched \in BOOLEAN
  PROVE  /\ Observed(rec, answer, fetched) \in Recs
         /\ Observed(rec, answer, fetched).receipt
         /\ Observed(rec, answer, fetched).phase = rec.phase
         /\ Observed(rec, answer, fetched).state \in
              {"accepted", "succeeded", "failed", "cancelled"}
         /\ rec.state = "succeeded" => Observed(rec, answer, fetched).state = "succeeded"
         /\ rec.state = "accepted" =>
              Observed(rec, answer, fetched).state =
                CASE answer = "processing" -> "accepted"
                  [] answer = "completed"  -> "succeeded"
                  [] OTHER                 -> answer
<1>1. CASE rec.state = "succeeded" /\ answer # "completed"
  BY <1>1 DEF Observed
<1>2. CASE answer = "processing" /\ rec.state # "succeeded"
  BY <1>2 DEF Observed, Recs, States
<1>3. CASE answer = "completed"
  <2>. DEFINE had == rec.outputs \/ fetched
  <2>1. Observed(rec, answer, fetched) = [rec EXCEPT !.state = "succeeded", !.outputs = had]
    BY <1>3 DEF Observed
  <2>2. had \in BOOLEAN
    OBVIOUS
  <2>. HIDE DEF had
  <2> QED BY <1>3, <2>1, <2>2 DEF Recs, States
<1>4. CASE answer \in {"failed", "cancelled"} /\ rec.state # "succeeded"
  BY <1>4 DEF Observed, Recs, States
<1> QED BY <1>1, <1>2, <1>3, <1>4 DEF Settled

\* What is stored of an observation is a state.
LEMMA ObservationKept ==
  ASSUME IInv, StepOK, WellTyped, NEW r \in Runtimes, CommitObservation(r)
  PROVE  WellKept
<1>. DEFINE k == poll[r].key
<1>1. /\ task' = task /\ job' = job /\ poll[r].pc = "observed" /\ SetPoll(r, NoPoll)
  BY DEF CommitObservation
<1>2. /\ poll \in [Runtimes -> Polls] /\ journal \in [Keys -> Recs]
      /\ k \in Keys /\ poll[r].answer \in Words
  BY <1>1 DEF IInv, Types, WellTyped, PolledWell
<1>3. \A p \in Runtimes : PolledWell(p)'
  <2>1. \A p \in Runtimes : poll'[p].pc # "idle" => poll'[p] = poll[p]
    BY <1>1, <1>2 DEF SetPoll, NoPoll
  <2>. QED BY <2>1, Polled
<1>4. \A q \in Keys : journal[q].state \in States
  BY DEF WellTyped, StoredWell
<1>5. \A q \in Keys : /\ journal'[q].state \in States
                      /\ journal'[q].receipt => journal[q].receipt
  <2>1. CASE ~Leased(r, k)
    BY <1>4, <2>1 DEF CommitObservation
  <2>2. CASE Leased(r, k)
    <3>1. PICK fetched \in BOOLEAN :
            journal' = [journal EXCEPT ![k] =
                          Unleased(Observed(journal[k], poll[r].answer, fetched))]
      BY <2>2 DEF CommitObservation, Write
    <3>2. KeyOK(k) /\ journal[k] \in Recs
      BY <1>2 DEF IInv
    <3>3. journal[k].receipt /\ journal[k].state \in {"accepted", "succeeded"}
      BY <2>2, <3>2, NobodyAssumption DEF Leased, KeyOK, ReceiptEnds
    <3>. DEFINE seen == Observed(journal[k], poll[r].answer, fetched)
    <3>4. seen \in Recs /\ seen.state \in States
      <4>. HIDE DEF k
      <4>. QED BY <1>2, <3>2, <3>3, ObservedRecord DEF Words, States
    <3>. HIDE DEF seen
    <3>5. Unleased(seen).state = seen.state
      BY <3>4 DEF Unleased, Recs
    <3>6. journal'[k] = Unleased(seen) /\ \A q \in Keys \ {k} : journal'[q] = journal[q]
      BY <1>2, <3>1 DEF seen
    <3>. QED BY <1>4, <3>3, <3>4, <3>5, <3>6
  <2>. QED BY <2>1, <2>2
<1>. QED BY <1>1, <1>3, <1>5, ElsewhereKept

\* Every step keeps the types.
LEMMA WellTypedStep ==
  ASSUME IInv, WellTyped, [Next]_vars
  PROVE  WellTyped'
<1>. SUFFICES WellKept
  BY MemoryShape, AliveShape, LeaseShape DEF WellTyped, WellKept
<1>1. StepOK
  BY EveryStep
<1>2. ASSUME NEW r \in Runtimes, NEW k \in Keys,
             \/ Enqueue(r, k) \/ Submit(r, k) \/ RunBegin(r, k) \/ Run(r, k)
             \/ FailBeforeCli(r, k) \/ FailToSpawn(r, k) \/ Abort(r, k)
             \/ Cancel(r, k) \/ Delete(r, k)
      PROVE  WellKept
  BY <1>1, <1>2, QuietKept, SubmissionKept, CallerKept, RunKept DEF Submit
<1>3. ASSUME NEW r \in Runtimes, Reconcile(r) \/ Crash(r) \/ Dispose(r) PROVE WellKept
  BY <1>1, <1>3, QueryKept, ObservationKept, GoneKept DEF Reconcile
<1>4. CASE \/ Expiry \/ SwitchAccount \/ UNCHANGED vars
           \/ \E r \in Runtimes : Load(r) \/ Restart(r)
           \/ \E k \in Keys : JobEnds(k)
  BY <1>1, <1>4, EnvironmentKept
<1>. QED BY <1>2, <1>3, <1>4 DEF Next

(***************************************************************************)
(* The state is well typed: the journal stores states and never the words  *)
(* of the provider, also when an answer comes late, because only a record  *)
(* with the receipt of a job is polled.                                    *)
(***************************************************************************)
THEOREM RuntimeTyped == Spec => []TypeOK
<1>1. Init => WellTyped
  <2>. SUFFICES ASSUME Init PROVE WellTyped
    OBVIOUS
  <2>1. /\ \A k \in Keys : journal[k] = NoRecord
        /\ \A r \in Runtimes, k \in Keys : task[r][k].pc = "none"
        /\ \A r \in Runtimes : poll[r].pc = "idle"
    BY DEF Init, NoTask, NoPoll
  <2>2. active \in Leases
    BY BoundsAssumption DEF Init, NoLease, Leases, Clients, Sessions
  <2>3. known \in [Runtimes -> [Keys -> -1 .. 1]]
    BY DEF Init
  <2>4. \A k \in Keys : StoredWell(k)
    BY <2>1, NewRecord DEF StoredWell, States
  <2>. QED BY <2>1, <2>2, <2>3, <2>4 DEF Init, WellTyped, PolledWell
<1>2. IInv /\ WellTyped /\ [Next]_vars => WellTyped'
  BY WellTypedStep
<1>3. ASSUME IInv, WellTyped PROVE TypeOK
  <2>1. journal \in [Keys -> Records]
    BY <1>3 DEF IInv, Types, WellTyped, StoredWell, Recs, Records
  <2>2. /\ active.who \in Clients /\ active.session \in 0 .. MaxSessions
    BY <1>3 DEF WellTyped, Leases, Sessions
  <2>3. \A r \in Runtimes : poll[r].pc \in {"idle", "claimed", "waiting", "running",
                                            "observed", "error"}
    BY <1>3 DEF IInv, Types, Polls
  <2>. QED BY <1>3, <2>1, <2>2, <2>3 DEF IInv, Types, WellTyped, JobStates, TypeOK
<1>. QED BY <1>1, <1>2, <1>3, Inductive, PTL DEF Spec
=============================================================================
