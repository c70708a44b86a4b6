------------------------- MODULE DreaminaReconciler ------------------------
(***************************************************************************)
(* The reconciler of the local Dreamina runtime (canvas-agent/src/         *)
(* dreamina-task-reconciler.ts): each runtime polls the provider for       *)
(* accepted work, one record at a time, under a lease in the record.  It   *)
(* reads the journal without repairing it.                                 *)
(***************************************************************************)
EXTENDS DreaminaSubmission

\* eligible.
Eligible(rec) ==
  /\ rec.receipt /\ ~rec.legacy
  /\ \/ rec.state \in {"accepted", "unknown"}
     \/ rec.state = "succeeded" /\ ~rec.outputs

Write(r, k, rec) ==
  /\ r \in alive /\ holder = Nobody
  /\ journal' = [journal EXCEPT ![k] = rec]

SetPoll(r, p) == poll' = [poll EXCEPT ![r] = p]

\* claimDue: the poll lease of another reconciler must have lapsed.
ClaimDue(r, k) ==
  /\ poll[r].pc = "idle" /\ Eligible(journal[k])
  /\ ~journal[k].pollLive
  /\ Write(r, k, [journal[k] EXCEPT !.poller = r, !.pollLive = TRUE])
  /\ SetPoll(r, [NoPoll EXCEPT !.pc = "claimed", !.key = k])
  /\ UNCHANGED <<line, known, alive, task, holder, arbiterVars, job, ghostVars>>

\* query: only under the account that submitted the job.
AskForQuery(r) ==
  /\ r \in alive /\ poll[r].pc = "claimed"
  /\ IF journal[poll[r].key].session = session
     THEN /\ Request(Polling(r), session)
          /\ SetPoll(r, [poll[r] EXCEPT !.pc = "waiting", !.session = session])
     ELSE UNCHANGED waiting /\ SetPoll(r, [poll[r] EXCEPT !.pc = "error"])
  /\ UNCHANGED <<active, session, journalVars, alive, task, holder, job, ghostVars>>

GetQuery(r) ==
  /\ r \in alive /\ poll[r].pc = "waiting" /\ Grant(Polling(r))
  /\ SetPoll(r, [poll[r] EXCEPT !.pc = "running"])
  /\ UNCHANGED <<journalVars, alive, task, holder, job, ghostVars>>

LoseQuery(r) ==
  /\ r \in alive /\ poll[r].pc = "waiting" /\ Refuse(Polling(r))
  /\ SetPoll(r, [poll[r] EXCEPT !.pc = "error"])
  /\ UNCHANGED <<journalVars, alive, task, holder, job, ghostVars>>

\* What the provider says of the job, if the lease of the CLI held so long.
Answers(k) == IF "fickle" \in Features /\ job[k] # "running"
              THEN {job[k], "processing"}
              ELSE {IF job[k] = "running" THEN "processing" ELSE job[k]}

QueryAnswers(r) ==
  /\ r \in alive /\ poll[r].pc = "running"
  /\ \E a \in Answers(poll[r].key) :
        SetPoll(r, IF IsCurrent(Polling(r))
                   THEN [poll[r] EXCEPT !.pc = "observed", !.answer = a]
                   ELSE [poll[r] EXCEPT !.pc = "error"])
  /\ Release(Polling(r))
  /\ UNCHANGED <<journalVars, alive, task, holder, job, ghostVars>>

\* Mutants: the words of the provider are stored; the last answer counts.
ObservedRaw(rec, answer, fetched) ==
  [rec EXCEPT !.state = answer, !.outputs = @ \/ fetched]

ObservedLast(rec, answer, fetched) ==
  CASE answer = "processing" -> [rec EXCEPT !.state = "accepted"]
    [] answer = "completed"  -> [rec EXCEPT !.state = "succeeded",
                                            !.outputs = @ \/ fetched]
    [] OTHER                 -> [rec EXCEPT !.state = answer]

\* applyObservation: an established success is not overwritten.  The outputs
\* of a completed job may not be had yet, and are asked for again.
Observed(rec, answer, fetched) ==
  IF rec.state = "succeeded" /\ answer # "completed" THEN rec
  ELSE CASE answer = "processing" -> [rec EXCEPT !.state = "accepted"]
         [] answer = "completed"  -> [rec EXCEPT !.state = "succeeded",
                                                 !.outputs = @ \/ fetched]
         [] OTHER                 -> [rec EXCEPT !.state = answer]

\* sameLease.
Leased(r, k) == journal[k].poller = r

Unleased(rec) == [rec EXCEPT !.poller = Nobody, !.pollLive = FALSE]

\* commitObservation.
CommitObservation(r) ==
  /\ poll[r].pc = "observed"
  /\ LET k == poll[r].key IN
     IF Leased(r, k)
     THEN \E fetched \in BOOLEAN :
            Write(r, k, Unleased(Observed(journal[k], poll[r].answer, fetched)))
     ELSE r \in alive /\ holder = Nobody /\ UNCHANGED journal
  /\ SetPoll(r, NoPoll)
  /\ UNCHANGED <<line, known, alive, task, holder, arbiterVars, job, ghostVars>>

\* commitSyncError: an error of the query changes nothing about the job.
CommitSyncError(r) ==
  /\ poll[r].pc = "error"
  /\ LET k == poll[r].key IN
     Write(r, k, IF Leased(r, k) THEN Unleased(journal[k]) ELSE journal[k])
  /\ SetPoll(r, NoPoll)
  /\ UNCHANGED <<line, known, alive, task, holder, arbiterVars, job, ghostVars>>
=============================================================================
