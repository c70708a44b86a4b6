-------------------------- MODULE DreaminaJournal --------------------------
(***************************************************************************)
(* The durable journal of the local Dreamina runtime, shared by several    *)
(* runtime processes (canvas-agent/src/dreamina-cli-runtime.ts and         *)
(* dreamina-cli-state.ts).  Every operation of a runtime is a transaction  *)
(* under the lock of the state file, which DreaminaStateFile models; it    *)
(* starts by reading the journal again and repairing what expired.         *)
(***************************************************************************)
EXTENDS Integers, FiniteSets, Sequences, SequencesExt

CONSTANTS
  Runtimes,         \* the runtime processes
  Keys,             \* the idempotency keys that callers use
  MaxActive,        \* maxActiveTasks: slots of the official provider
  MaxEnqueues,      \* bound: how often one key is submitted by callers
  MaxCrashes,       \* bound: how many runtimes die or are disposed
  MaxSessions,      \* bound: how often the account is switched
  Features,         \* what may happen, see FeatureNames
  Nobody            \* no runtime

FeatureNames ==
  { "crash",      \* a runtime dies
    "dispose",    \* a runtime is shut down in an orderly way
    "stall",      \* a lease of the journal lapses although its owner lives
    "slowcli",    \* the lease of the CLI lapses although its owner lives
    "busy",       \* the lock of the state file is not had in time
    "lost",       \* a submission ends without a receipt
    "login",      \* a submission fails before the CLI is started
    "users",      \* a task is cancelled, deleted or its caller goes away
    "legacy",     \* the older synchronous run
    "fickle" }    \* the provider answers differently about an ended job

ASSUME SetsAssumption == IsFiniteSet(Runtimes) /\ IsFiniteSet(Keys)
ASSUME BoundsAssumption ==
  /\ MaxActive \in Nat \ {0} /\ MaxEnqueues \in Nat /\ MaxCrashes \in Nat
  /\ MaxSessions \in Nat
ASSUME FeaturesAssumption == Features \subseteq FeatureNames
ASSUME NobodyAssumption == Nobody \notin Runtimes

States == {"absent", "queued", "pending", "accepted", "succeeded", "failed",
           "cancelled", "unknown", "deleted"}
Ended  == {"succeeded", "failed", "cancelled", "unknown", "deleted"}
Phases == {"none", "reserved", "spawn_permitted"}

Records ==
  [state : States, phase : Phases, owner : Runtimes \cup {Nobody},
   live : BOOLEAN, receipt : BOOLEAN, outputs : BOOLEAN, hidden : BOOLEAN,
   legacy : BOOLEAN, session : 0 .. MaxSessions,
   poller : Runtimes \cup {Nobody}, pollLive : BOOLEAN]

NoRecord ==
  [state |-> "absent", phase |-> "none", owner |-> Nobody, live |-> FALSE,
   receipt |-> FALSE, outputs |-> FALSE, hidden |-> FALSE, legacy |-> FALSE,
   session |-> 0, poller |-> Nobody, pollLive |-> FALSE]

VARIABLES
  journal,     \* journal[k]: the record of key k
  line,        \* the order of the tickets: pairs of queued keys, the earlier first
  known,       \* known[r][k]: the rank of k in the memory of r while k may be
               \* withdrawn, otherwise -1
  alive,       \* the runtimes that run
  task,        \* task[r][k]: where the submission of k by r stands
  holder,      \* the runtime that keeps the lock of the journal, for a run
  active,      \* the lease of the CLI
  waiting,     \* the requests for the CLI, in the order of their tickets
  session,     \* the account session that the arbiter recorded
  poll,        \* poll[r]: what the reconciler of r is doing
  job,         \* job[k]: the provider's job for k
  spawns,      \* spawns[k]: how many submissions were started for k
  enqueues,    \* enqueues[k]: how often k was put into the journal
  crashes      \* how many runtimes went away

journalVars == <<journal, line, known>>
arbiterVars == <<active, waiting, session>>
ghostVars   == <<spawns, enqueues, crashes>>
vars == <<journal, line, known, alive, task, holder, active, waiting, session,
          poll, job, spawns, enqueues, crashes>>

NoTask == [pc |-> "none", session |-> 0]
NoPoll == [pc |-> "idle", key |-> Nobody, session |-> 0, answer |-> "none"]
NoLease == [who |-> <<>>, session |-> 0, live |-> FALSE]

\* stateRank.  What is neither queued nor pending stays in the journal for
\* ever, so that its rank can be the highest.
RankOf(rec) == CASE rec.state = "absent"  -> -1
                 [] rec.state = "queued"  -> 0
                 [] rec.state = "pending" -> 1
                 [] OTHER                 -> 2

\* The memory of r after it wrote or read j.  Only what may still be missing
\* from a later journal is kept, of any runtime.
Remember(r, j) ==
  known' = [q \in Runtimes |-> [k \in Keys |->
              IF RankOf(j[k]) = 2 THEN -1
              ELSE IF q = r THEN RankOf(j[k]) ELSE known[q][k]]]

-----------------------------------------------------------------------------
(***************************************************************************)
(* reloadFromDisk: what expired is closed, and a journal that is behind    *)
(* what the runtime remembers is refused.                                  *)
(***************************************************************************)
Closed(rec, state) ==
  [rec EXCEPT !.state = state, !.phase = "none", !.owner = Nobody, !.live = FALSE]

\* Mutant: what was interrupted has failed, started or not.
RepairedAsFailed(rec) ==
  IF rec.state \in {"queued", "pending"} /\ ~rec.live THEN Closed(rec, "failed")
  ELSE rec

Repaired(rec) ==
  IF rec.state = "queued" /\ ~rec.live THEN Closed(rec, "failed")
  ELSE IF rec.state = "pending" /\ ~rec.live
       THEN Closed(rec, IF rec.phase = "reserved" THEN "failed" ELSE "unknown")
       ELSE rec

Reloaded == [k \in Keys |-> Repaired(journal[k])]

\* Who has a ticket.
Queued(j) == {k \in Keys : j[k].state = "queued"}

Accepts(r) == \A k \in Keys : RankOf(Reloaded[k]) >= known[r][k]

\* withStateLock and persistUnlocked: j is what the transaction of r leaves.
\* A queued record keeps its ticket, a new one goes to the end of the line.
Commit(r, j) ==
  /\ r \in alive /\ holder = Nobody /\ Accepts(r)
  /\ journal' = j
  /\ line' = {p \in Queued(j) \X Queued(j) :
                p \in line \/ (p[1] \in Queued(journal) /\ p[2] \notin Queued(journal))}
  /\ Remember(r, j)

\* The transaction throws before it changes anything: the lock is busy, or
\* the journal has lost what this runtime remembers.
Denied(r) ==
  /\ r \in alive
  /\ ~Accepts(r) \/ "busy" \in Features
  /\ UNCHANGED journalVars

Put(k, rec) == [Reloaded EXCEPT ![k] = rec]

\* Mutant: an unknown outcome gives its slot back.
OccupiedByKnown == {k \in Keys : Reloaded[k].state \in {"pending", "accepted"}}

\* reservesOfficialSlot and hasQueuedGenerationPriority.
Occupied == {k \in Keys : Reloaded[k].state \in {"pending", "unknown", "accepted"}}

HasPriority(k) ==
  LET earlier == {q \in Queued(Reloaded) : <<q, k>> \in line}
  IN  Cardinality(Occupied) + Cardinality(earlier) < MaxActive

-----------------------------------------------------------------------------
(***************************************************************************)
(* Leases of the journal.  A heartbeat renews the lease of a queued record *)
(* and of a reservation as long as the submission is under way.            *)
(***************************************************************************)
Renewed == {"queued", "reserved", "waiting", "granted", "permitted", "spawned",
            "receipt", "fail_early", "fail_granted", "fail_spawned"}

Renewing(k) ==
  /\ journal[k].owner \in alive
  /\ task[journal[k].owner][k].pc \in Renewed
  /\ Accepts(journal[k].owner)

ExpireLease(k) ==
  /\ journal[k].live
  /\ ~Renewing(k) \/ Features \cap {"stall", "busy"} # {}
  /\ journal' = [journal EXCEPT ![k].live = FALSE]
  /\ UNCHANGED <<line, known, alive, task, holder, arbiterVars, poll, job,
                 ghostVars>>

ExpirePollLease(k) ==
  /\ journal[k].pollLive
  /\ \/ "stall" \in Features
     \/ ~\E r \in alive : journal[k].poller = r /\ poll[r].key = k
  /\ journal' = [journal EXCEPT ![k].pollLive = FALSE]
  /\ UNCHANGED <<line, known, alive, task, holder, arbiterVars, poll, job,
                 ghostVars>>
=============================================================================
