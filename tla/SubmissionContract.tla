------------------------- MODULE SubmissionContract -------------------------
(***************************************************************************)
(* What the local Dreamina runtimes promise the caller of a generation,    *)
(* without processes, leases, locks or slots: a key is open once it was    *)
(* submitted, its CLI is started at most once, what was never started can  *)
(* be withdrawn, and what was started is accepted, and then ends as the    *)
(* job of the provider ended, or its outcome is unknown for ever.          *)
(***************************************************************************)
CONSTANT Keys

Stages == {"free", "open", "accepted", "succeeded", "failed", "cancelled",
           "unknown", "deleted"}
Jobs   == {"none", "running", "completed", "failed", "cancelled"}

VARIABLES
  stage,     \* stage[k]: how far the submission of k is
  started,   \* started[k]: the CLI was started for k
  job        \* job[k]: the provider's job for k

cvars == <<stage, started, job>>

CInit ==
  /\ stage = [k \in Keys |-> "free"]
  /\ started = [k \in Keys |-> FALSE]
  /\ job = [k \in Keys |-> "none"]

-----------------------------------------------------------------------------
Moves(k, from, to) ==
  stage[k] = from /\ stage'[k] = to /\ started'[k] = started[k]

Rests(k) == Moves(k, stage[k], stage[k])

Open(k) == Moves(k, "free", "open") /\ ~started[k]

\* Before the start: given back to the caller, or ended without a job.
Withdraw(k) ==
  /\ ~started[k]
  /\ \E to \in {"free", "failed", "cancelled", "deleted"} : Moves(k, "open", to)

\* Who may have started it is gone.
Lose(k) == Moves(k, "open", "unknown")

\* Once.  A starter that was thought to be gone may still do it.
Start(k) ==
  /\ ~started[k] /\ started'[k]
  /\ stage[k] \in {"open", "unknown"} /\ stage'[k] = stage[k]

Accept(k) == started[k] /\ job'[k] # "none" /\ Moves(k, "open", "accepted")

Outcome(answer) == IF answer = "completed" THEN "succeeded" ELSE answer

Settle(k) ==
  job[k] \in {"completed", "failed", "cancelled"}
    /\ Moves(k, "accepted", Outcome(job[k]))

KeyStep(k) ==
  Rests(k) \/ Open(k) \/ Withdraw(k) \/ Lose(k) \/ Start(k) \/ Accept(k) \/ Settle(k)

\* The provider runs one job for a key, after the start.
JobStep(k) ==
  \/ job'[k] = job[k]
  \/ job[k] = "none" /\ started[k] /\ job'[k] = "running"
  \/ job[k] = "running" /\ job'[k] \in {"completed", "failed", "cancelled"}

\* One transaction of a runtime may move several keys: it repairs what expired.
CNext ==
  /\ stage' \in [Keys -> Stages] /\ started' \in [Keys -> BOOLEAN]
  /\ job' \in [Keys -> Jobs]
  /\ \A k \in Keys : KeyStep(k) /\ JobStep(k)

CSpec == CInit /\ [][CNext]_cvars
=============================================================================
