------------------------- MODULE DreaminaSlotsProofs -------------------------
(***************************************************************************)
(* Proofs about DreaminaRuntime: what was started is accounted for in the  *)
(* journal, so that the slots counted there are enough for what runs.      *)
(* They hold when a key is submitted once and the lock is had in time.     *)
(***************************************************************************)
EXTENDS DreaminaRuntimeProofs

\* A caller submits a key once, and no transaction finds the lock busy.
SubmittedOnce == MaxEnqueues <= 1
LockInTime    == "busy" \notin Features

Occupying == {"pending", "unknown", "accepted"}
Started   == {"spawned", "receipt", "run_spawned"}
Spawned   == {"spawned", "run_spawned"}

\* A job is known of only after a start, and a receipt only of a job; while the
\* CLI runs there is none.
JobKnown(k) ==
  /\ journal[k].receipt => job[k] # "none"
  /\ job[k] # "none" => spawns[k] > 0
  /\ \A r \in Runtimes : task[r][k].pc = "receipt" => job[k] # "none"
  /\ \A r \in Runtimes : task[r][k].pc \in Started => spawns[k] > 0
  /\ \A r \in Runtimes : task[r][k].pc \in Spawned => job[k] = "none"

\* The CLI was started for k, or somebody is about to.
Begun(k) == spawns[k] > 0 \/ \E r \in Runtimes : task[r][k].pc = "permitted"

\* Such a record is not withdrawn, and an end is one that the provider told.
Accounted(k) ==
  Begun(k) =>
    /\ journal[k].state \notin {"absent", "queued", "deleted"}
    /\ journal[k].phase # "reserved"
    /\ journal[k].state \in {"failed", "cancelled", "succeeded"} =>
         journal[k].receipt /\ job[k] \in Settled

\* The older run has no reservation that could lapse as one.
RunPhase(k) ==
  \A r \in Runtimes : task[r][k].pc \in Runs => journal[k].phase = "none"

RecordOK(k) ==
  journal[k].state \in States /\ JobKnown(k) /\ Accounted(k) /\ RunPhase(k)

\* What a reconciler polls has a receipt, and what it observed as an end is one.
PollOK(r) ==
  poll[r].pc # "idle" =>
    /\ journal[poll[r].key].receipt
    /\ poll[r].pc = "observed" /\ poll[r].answer # "processing" =>
         poll[r].answer = job[poll[r].key] /\ job[poll[r].key] \in Settled

\* The journal lacks a record that r remembers: its transactions all throw.
LockedOut(r) == \E k \in Keys : known[r][k] # -1 /\ journal[k].state = "absent"

\* What is remembered was submitted, and is not ahead of the queue.
KnownOK(k) ==
  /\ journal[k].state # "absent" => enqueues[k] >= 1
  /\ \A r \in Runtimes : known[r][k] # -1 => enqueues[k] >= 1
  /\ \A r \in Runtimes : journal[k].state = "queued" => known[r][k] <= 0

\* A failure is left to failTask only in a runtime that is locked out.
OutOK(r) ==
  /\ \A k \in Keys : task[r][k].pc = "failtask" => LockedOut(r)
  /\ holder = r => ~LockedOut(r)

Memory ==
  /\ known \in [Runtimes -> [Keys -> -1 .. 1]] /\ enqueues \in [Keys -> Nat]
  /\ \A k \in Keys : KnownOK(k)
  /\ \A r \in Runtimes : OutOK(r)

Slots   == {k \in Keys : journal[k].state \in Occupying}
SlotsOK == Cardinality(Slots) <= MaxActive

AInv ==
  /\ IInv /\ Memory /\ SlotsOK
  /\ \A k \in Keys : RecordOK(k)
  /\ \A r \in Runtimes : PollOK(r)

-----------------------------------------------------------------------------
(* The kinds of steps for one key. *)

\* A record is kept, or closed as the repair of a reload closes it.
Lapses(old, new) ==
  /\ new.receipt = old.receipt
  /\ \/ new.state = old.state /\ new.phase = old.phase
     \/ /\ new.phase = "none"
        /\ \/ old.state = "queued" /\ new.state = "failed"
           \/ old.state = "pending" /\ new.state = "unknown"
           \/ old.state = "pending" /\ old.phase = "reserved" /\ new.state = "failed"

\* A job goes on: it ends, or the CLI that was started reaches the provider, and
\* is no longer there.
JobGoes(k) ==
  \/ job'[k] = job[k]
  \/ job[k] = "running" /\ job'[k] \in Settled
  \/ /\ job[k] = "none" /\ job'[k] = "running" /\ spawns[k] > 0 /\ ~NoTaskFor(k)
     /\ \A p \in Runtimes : task'[p][k].pc \notin Spawned

\* Nothing is started, and nothing that was is forgotten.
Calm(k) ==
  /\ Lapses(journal[k], journal'[k]) /\ JobGoes(k) /\ spawns'[k] = spawns[k]
  /\ \A p \in Runtimes :
       \/ task'[p][k].pc = task[p][k].pc
       \/ task'[p][k].pc \notin Started \cup {"permitted", "run"}
       \/ task'[p][k].pc = "receipt" /\ task[p][k].pc = "spawned" /\ job'[k] = "running"

\* Nothing was started before, and nothing is.
Fresh(k) ==
  /\ \/ journal[k].state = "absent" /\ journal'[k].state \in {"queued", "pending"}
     \/ /\ journal[k].state \in {"queued", "pending"}
        /\ journal'[k].state \in {"pending", "absent", "cancelled", "deleted"}
  /\ ~journal'[k].receipt
  /\ job'[k] = job[k] /\ spawns[k] = 0 /\ spawns'[k] = 0
  /\ \A p \in Runtimes :
       /\ task'[p][k].pc \notin Started \cup {"permitted"}
       /\ task'[p][k].pc = "run" => journal'[k].phase = "none"

\* A start is permitted, or happens.
Starts(k) ==
  /\ \/ Begun(k) /\ journal'[k] = journal[k]
     \/ /\ journal[k].state = "pending" /\ journal'[k].state = "pending"
        /\ journal'[k].phase # "reserved" /\ ~journal'[k].receipt
  /\ ~NoTaskFor(k) /\ job'[k] = job[k] /\ spawns'[k] >= spawns[k]
  /\ \A p \in Runtimes :
       \/ task'[p][k].pc = task[p][k].pc
       \/ task'[p][k].pc = "permitted"
       \/ task'[p][k].pc \in Spawned /\ spawns'[k] > spawns[k]
  /\ \A p \in Runtimes : task'[p][k].pc \in Runs => journal'[k].phase = "none"

\* There is a receipt, and an end is what the provider told.
Settles(k) ==
  /\ journal'[k].receipt /\ journal'[k].phase = "none"
  /\ journal'[k].state \in {"accepted", "succeeded", "failed", "cancelled"}
  /\ journal'[k].state # "accepted" => job'[k] \in Settled
  /\ \/ journal'[k].state = journal[k].state
     \/ journal[k].state = "pending" /\ journal'[k].state = "accepted"
     \/ /\ journal[k].state = "accepted" /\ job[k] \in Settled
        /\ journal'[k].state = Contract!Outcome(job[k])
  /\ job'[k] # "none" /\ JobGoes(k) /\ spawns'[k] = spawns[k] /\ spawns[k] > 0

\* Each kind keeps what is said of a record.
LEMMA KindsKeep ==
  ASSUME IInv, IInv', NEW k \in Keys, RecordOK(k),
         Calm(k) \/ Fresh(k) \/ Starts(k) \/ Settles(k)
  PROVE  RecordOK(k)'
<1>1. /\ spawns[k] \in Nat /\ spawns'[k] \in Nat /\ spawns'[k] <= 1
      /\ journal[k].receipt => NoTaskFor(k)
      /\ journal'[k].receipt => NoTaskFor(k)'
  BY DEF IInv, Types, KeyOK, ReceiptEnds, StartsOnce
<1>2. CASE Calm(k)
  <2>1. journal'[k].state \in States
    BY <1>2 DEF Calm, Lapses, RecordOK, States
  <2>2. JobKnown(k)'
    BY <1>1, <1>2 DEF Calm, Lapses, JobGoes, RecordOK, JobKnown, Settled, Started, Spawned
  <2>3. Accounted(k)'
    BY <1>1, <1>2 DEF Calm, Lapses, JobGoes, RecordOK, JobKnown, Accounted, Begun, Settled,
       NoTaskFor
  <2>4. RunPhase(k)'
    BY <1>2 DEF Calm, Lapses, RecordOK, RunPhase, Runs, Started
  <2> QED BY <2>1, <2>2, <2>3, <2>4 DEF RecordOK
<1>3. CASE Fresh(k)
  <2>1. JobKnown(k)' /\ Accounted(k)'
    BY <1>3 DEF Fresh, RecordOK, JobKnown, Accounted, Begun, Started, Spawned
  <2>2. RunPhase(k)'
    BY <1>3 DEF Fresh, RunPhase, Runs, Started
  <2> QED BY <1>3, <2>1, <2>2 DEF RecordOK, Fresh, States
<1>4. CASE Starts(k)
  <2>1. journal'[k].state \in States
    BY <1>4 DEF Starts, RecordOK, States
  <2>2. JobKnown(k)'
    BY <1>1, <1>4 DEF Starts, RecordOK, JobKnown, Started, Spawned
  <2>3. Accounted(k)'
    BY <1>1, <1>4 DEF Starts, RecordOK, Accounted, Begun
  <2>4. RunPhase(k)'
    BY <1>4 DEF Starts, RunPhase
  <2> QED BY <2>1, <2>2, <2>3, <2>4 DEF RecordOK
<1>5. CASE Settles(k)
  <2>1. JobKnown(k)' /\ Accounted(k)' /\ RunPhase(k)'
    BY <1>1, <1>5
    DEF Settles, JobKnown, Accounted, RunPhase, Runs, Started, Spawned, NoTaskFor
  <2> QED BY <1>5, <2>1 DEF Settles, RecordOK, States
<1> QED BY <1>2, <1>3, <1>4, <1>5

\* The variables of the contract, for one key.
LEMMA ContractVariables ==
  ASSUME NEW k \in Keys
  PROVE  /\ [q \in Keys |-> StageOf(journal[q])][k] = StageOf(journal[k])
         /\ [q \in Keys |-> StageOf(journal[q])]'[k] = StageOf(journal'[k])
         /\ [q \in Keys |-> spawns[q] > 0][k] = (spawns[k] > 0)
         /\ [q \in Keys |-> spawns[q] > 0]'[k] = (spawns'[k] > 0)
OBVIOUS

\* Each kind is a step of the contract.
LEMMA KindsPromised ==
  ASSUME IInv, IInv', NEW k \in Keys, RecordOK(k),
         Calm(k) \/ Fresh(k) \/ Starts(k) \/ Settles(k)
  PROVE  Contract!KeyStep(k)
<1>. DEFINE old == StageOf(journal[k])
            new == StageOf(journal'[k])
            moves == /\ \/ new = old
                        \/ old = "free" /\ new = "open" /\ spawns[k] = 0
                        \/ /\ old = "open" /\ spawns[k] = 0
                           /\ new \in {"free", "failed", "cancelled", "deleted"}
                        \/ old = "open" /\ new = "unknown"
                        \/ old = "open" /\ new = "accepted" /\ spawns[k] > 0 /\ job'[k] # "none"
                        \/ /\ old = "accepted" /\ new = Contract!Outcome(job[k])
                           /\ job[k] \in Settled
                     /\ spawns'[k] = spawns[k]
            starts == /\ spawns[k] = 0 /\ spawns'[k] > 0
                      /\ old \in {"open", "unknown"} /\ new = old
<1>1. /\ spawns[k] \in Nat /\ spawns'[k] \in Nat /\ spawns'[k] <= 1 /\ KeyOK(k)
  BY DEF IInv, Types, KeyOK, StartsOnce
<1>2. moves \/ starts
  <2>1. CASE Calm(k)
    <3>1. spawns'[k] = spawns[k] /\ Lapses(journal[k], journal'[k])
      BY <2>1 DEF Calm
    <3>2. journal[k].state = "queued" \/ journal[k].phase = "reserved" => spawns[k] = 0
      BY <1>1 DEF RecordOK, Accounted, Begun
    <3> QED BY <3>1, <3>2 DEF Lapses, StageOf
  <2>2. CASE Fresh(k)
    BY <2>2 DEF Fresh, StageOf
  <2>3. CASE Starts(k)
    <3>1. new = old
      BY <2>3 DEF Starts, StageOf
    <3>2. CASE spawns'[k] = spawns[k]
      BY <3>1, <3>2
    <3>3. CASE spawns'[k] # spawns[k]
      <4>1. spawns[k] = 0 /\ spawns'[k] > 0
        BY <1>1, <2>3, <3>3 DEF Starts
      <4>2. journal[k].state \in {"pending", "unknown"}
        BY <1>1, <2>3
        DEF Starts, RecordOK, Accounted, States, KeyOK, ReceiptEnds
      <4> QED BY <3>1, <4>1, <4>2 DEF StageOf
    <3> QED BY <3>2, <3>3
  <2>4. CASE Settles(k)
    BY <2>4 DEF Settles, StageOf, Contract!Outcome, Settled
  <2> QED BY <2>1, <2>2, <2>3, <2>4
<1>3. CASE moves
  <2>1. /\ [q \in Keys |-> StageOf(journal[q])][k] = old
        /\ [q \in Keys |-> StageOf(journal[q])]'[k] = new
        /\ [q \in Keys |-> spawns[q] > 0]'[k] = [q \in Keys |-> spawns[q] > 0][k]
    <3>1. (spawns'[k] > 0) = (spawns[k] > 0)
      BY <1>3
    <3>. HIDE DEF moves
    <3> QED BY <3>1, ContractVariables
  <2>2. CASE new = old
    <3>. HIDE DEF old, new
    <3>1. Contract!Rests(k)
      BY <2>1, <2>2 DEF Contract!Rests, Contract!Moves
    <3> QED BY <3>1 DEF Contract!KeyStep
  <2>3. CASE old = "open" /\ new = "unknown"
    <3>. HIDE DEF old, new
    <3>1. Contract!Lose(k)
      BY <2>1, <2>3 DEF Contract!Lose, Contract!Moves
    <3> QED BY <3>1 DEF Contract!KeyStep
  <2>4. CASE old = "accepted" /\ new = Contract!Outcome(job[k]) /\ job[k] \in Settled
    <3>. HIDE DEF old, new
    <3>1. Contract!Settle(k)
      BY <2>1, <2>4 DEF Contract!Settle, Contract!Moves, Settled
    <3> QED BY <3>1 DEF Contract!KeyStep
  <2>5. CASE spawns[k] = 0
    <3>1. ~[q \in Keys |-> spawns[q] > 0][k]
      <4>1. ~(spawns[k] > 0)
        BY <2>5
      <4> QED BY <4>1, ContractVariables
    <3>2. CASE old = "free" /\ new = "open"
      <4>. HIDE DEF old, new
      <4>1. Contract!Open(k)
        BY <2>1, <3>1, <3>2 DEF Contract!Open, Contract!Moves
      <4> QED BY <4>1 DEF Contract!KeyStep
    <3>3. CASE old = "open" /\ new \in {"free", "failed", "cancelled", "deleted"}
      <4>. HIDE DEF old, new
      <4>1. Contract!Withdraw(k)
        BY <2>1, <3>1, <3>3 DEF Contract!Withdraw, Contract!Moves
      <4> QED BY <4>1 DEF Contract!KeyStep
    <3> QED BY <1>3, <2>2, <2>3, <2>4, <2>5, <3>2, <3>3
  <2>6. CASE spawns[k] > 0
    <3>1. CASE old = "open" /\ new = "accepted" /\ job'[k] # "none"
      <4>1. [q \in Keys |-> spawns[q] > 0][k]
        BY <2>6, ContractVariables
      <4>. HIDE DEF old, new
      <4>2. Contract!Accept(k)
        BY <2>1, <3>1, <4>1 DEF Contract!Accept, Contract!Moves
      <4> QED BY <4>2 DEF Contract!KeyStep
    <3> QED BY <1>1, <1>3, <2>2, <2>3, <2>4, <2>6, <3>1
  <2> QED BY <1>1, <2>5, <2>6
<1>4. CASE starts
  <2>1. Contract!Start(k)
    <3>1. ~(spawns[k] > 0) /\ spawns'[k] > 0
      BY <1>4
    <3>2. /\ ~[q \in Keys |-> spawns[q] > 0][k]
          /\ [q \in Keys |-> spawns[q] > 0]'[k]
      BY <3>1, ContractVariables
    <3>3. /\ [q \in Keys |-> StageOf(journal[q])][k] \in {"open", "unknown"}
          /\ [q \in Keys |-> StageOf(journal[q])]'[k]
               = [q \in Keys |-> StageOf(journal[q])][k]
      BY <1>4, ContractVariables
    <3> QED BY <3>2, <3>3 DEF Contract!Start
  <2> QED BY <2>1 DEF Contract!KeyStep
<1> QED BY <1>2, <1>3, <1>4

-----------------------------------------------------------------------------
(* What is remembered. *)

\* The repair never takes a record behind where it was.
LEMMA RepairedRank ==
  ASSUME NEW rec \in Recs
  PROVE  RankOf(Repaired(rec)) >= RankOf(rec) /\ Lapses(rec, Repaired(rec))
BY DEF RankOf, Repaired, Closed, Lapses, Recs

\* A journal that is refused lacks a record.
LEMMA RefusedIsOut ==
  ASSUME IInv, Memory, NEW r \in Runtimes
  PROVE  Accepts(r) <=> ~LockedOut(r)
<1>1. ASSUME NEW k \in Keys
      PROVE  /\ RankOf(Reloaded[k]) >= RankOf(journal[k])
             /\ RankOf(Reloaded[k]) = -1 <=> journal[k].state = "absent"
             /\ RankOf(Reloaded[k]) \in -1 .. 2
             /\ known[r][k] \in -1 .. 1
             /\ RankOf(journal[k]) = 0 => known[r][k] <= 0
             /\ RankOf(journal[k]) \in -1 .. 2
  <2>1. journal[k] \in Recs /\ Reloaded[k] = Repaired(journal[k])
    BY DEF IInv, Types, Reloaded
  <2>2. RankOf(Reloaded[k]) >= RankOf(journal[k]) /\ Lapses(journal[k], Reloaded[k])
    BY <2>1, RepairedRank
  <2>3. Reloaded[k].state = "absent" <=> journal[k].state = "absent"
    BY <2>2 DEF Lapses
  <2>4. known[r][k] \in -1 .. 1 /\ (RankOf(journal[k]) = 0 => known[r][k] <= 0)
    BY Ranks DEF Memory, KnownOK
  <2> QED BY <2>2, <2>3, <2>4, Ranks
<1>2. ASSUME NEW k \in Keys
      PROVE  RankOf(Reloaded[k]) >= known[r][k] <=> 
               ~(known[r][k] # -1 /\ journal[k].state = "absent")
  BY <1>1, Ranks
<1> QED BY <1>2 DEF Accepts, LockedOut

\* The memory of r after it wrote, unless it is locked out.
Wrote(r) == /\ Remember(r, journal') /\ ~LockedOut(r)
            /\ holder \in {r, Nobody} /\ holder' \in {r, Nobody}

\* Only a new key is put into the journal, only a locked out runtime leaves a
\* failure to failTask, and nobody forgets but who writes.
LEMMA MemoryKept ==
  ASSUME IInv, Memory, holder' \in Runtimes \cup {Nobody},
         enqueues' \in [Keys -> Nat], \A q \in Keys : enqueues'[q] >= enqueues[q],
         \A q \in Keys : journal[q].state = "absent" /\ journal'[q].state # "absent" =>
            enqueues[q] = 0 /\ enqueues'[q] >= 1,
         \A q \in Keys : journal'[q].state = "queued" =>
            journal[q].state = "queued" \/ enqueues[q] = 0,
         \A p \in Runtimes, q \in Keys : task'[p][q].pc = "failtask" =>
            task[p][q].pc = "failtask" \/ LockedOut(p),
         \/ \E r \in Runtimes : Wrote(r)
         \/ /\ known' = known /\ holder' \in {holder, Nobody}
            /\ \A q \in Keys : journal'[q].state = "absent" => journal[q].state = "absent"
  PROVE  Memory'
<1>1. CASE /\ known' = known /\ holder' \in {holder, Nobody}
           /\ \A q \in Keys : journal'[q].state = "absent" => journal[q].state = "absent"
  <2>1. \A q \in Keys : KnownOK(q)'
    BY <1>1 DEF Memory, KnownOK
  <2>2. \A p \in Runtimes : LockedOut(p) => LockedOut(p)'
    BY <1>1 DEF Memory, KnownOK, LockedOut
  <2>3. \A p \in Runtimes : holder' = p => ~LockedOut(p)'
    BY <1>1, NobodyAssumption DEF Memory, OutOK, LockedOut
  <2>4. \A p \in Runtimes : OutOK(p)'
    BY <2>2, <2>3 DEF Memory, OutOK
  <2> QED BY <1>1, <2>1, <2>4 DEF Memory
<1>2. ASSUME NEW r \in Runtimes, Wrote(r) PROVE Memory'
  <2>1. \A p \in Runtimes, q \in Keys :
          known'[p][q] = IF RankOf(journal'[q]) = 2 THEN -1
                         ELSE IF p = r THEN RankOf(journal'[q]) ELSE known[p][q]
    BY <1>2 DEF Wrote, Remember
  <2>2. known' \in [Runtimes -> [Keys -> -1 .. 1]]
    BY <1>2, RememberedRanks DEF Memory, Wrote
  <2>3. ASSUME NEW q \in Keys PROVE KnownOK(q)'
    <3>1. KnownOK(q) /\ enqueues[q] \in Nat /\ enqueues'[q] \in Nat
      BY DEF Memory
    <3>2. journal'[q].state # "absent" => enqueues'[q] >= 1
      BY <3>1 DEF KnownOK
    <3>3. ASSUME NEW p \in Runtimes
          PROVE  /\ known'[p][q] # -1 => enqueues'[q] >= 1
                 /\ journal'[q].state = "queued" => known'[p][q] <= 0
      <4>1. CASE p = r
        BY <2>1, <3>2, <4>1, Ranks
      <4>2. CASE p # r
        BY <2>1, <3>1, <4>2, Ranks DEF KnownOK, Memory
      <4> QED BY <4>1, <4>2
    <3> QED BY <3>2, <3>3 DEF KnownOK
  <2>4. ASSUME NEW p \in Runtimes, LockedOut(p) PROVE LockedOut(p)'
    <3>1. PICK q \in Keys : known[p][q] # -1 /\ journal[q].state = "absent"
      BY <2>4 DEF LockedOut
    <3>2. journal'[q].state = "absent" /\ p # r
      BY <1>2, <2>4, <3>1 DEF Memory, KnownOK, Wrote
    <3>3. known'[p][q] = known[p][q]
      BY <2>1, <3>2, Ranks
    <3> QED BY <3>1, <3>2, <3>3 DEF LockedOut
  <2>5. ~LockedOut(r)'
    BY <2>1, Ranks DEF LockedOut
  <2>6. \A p \in Runtimes : OutOK(p)'
    BY <1>2, <2>4, <2>5, NobodyAssumption DEF Memory, OutOK, Wrote
  <2> QED BY <2>2, <2>3, <2>6 DEF Memory
<1> QED BY <1>1, <1>2
-----------------------------------------------------------------------------
(* What a step has to leave. *)

Good ==
  /\ \A q \in Keys : RecordOK(q)' /\ JobGoes(q)
  /\ \A q \in Keys : Contract!KeyStep(q)
  /\ SlotsOK' /\ Memory'

\* The slots that are counted are finitely many.
LEMMA SlotsAreFinite ==
  /\ IsFiniteSet(Keys) /\ IsFiniteSet(Slots) /\ IsFiniteSet(Slots') /\ IsFiniteSet(Occupied)
  /\ Cardinality(Slots) \in Nat /\ Cardinality(Slots') \in Nat
  /\ Cardinality(Occupied) \in Nat /\ MaxActive \in Nat
<1>1. Slots \subseteq Keys /\ Slots' \subseteq Keys /\ Occupied \subseteq Keys
  BY DEF Slots, Occupied
<1>2. IsFiniteSet(Keys)
  BY SetsAssumption
<1>3. IsFiniteSet(Slots) /\ IsFiniteSet(Slots') /\ IsFiniteSet(Occupied)
  BY <1>1, <1>2, FS_Subset
<1> QED BY <1>2, <1>3, FS_CardinalityType, BoundsAssumption

\* Nobody takes a slot.
LEMMA SlotsKept ==
  ASSUME SlotsOK,
         \A q \in Keys : journal'[q].state \in Occupying => journal[q].state \in Occupying
  PROVE  SlotsOK'
<1>1. Slots' \subseteq Slots
  BY DEF Slots
<1>2. Cardinality(Slots') <= Cardinality(Slots)
  BY <1>1, SlotsAreFinite, FS_Subset
<1> QED BY <1>2, SlotsAreFinite DEF SlotsOK

\* A slot is taken while there is one.
LEMMA SlotTaken ==
  ASSUME NEW k \in Keys, NEW rec, journal' = Put(k, rec), Cardinality(Occupied) < MaxActive
  PROVE  SlotsOK'
<1>1. Slots' \subseteq Occupied \cup {k}
  BY DEF Slots, Occupied, Occupying, Put
<1>2. /\ IsFiniteSet(Occupied \cup {k})
      /\ Cardinality(Occupied \cup {k}) \in
           {Cardinality(Occupied), Cardinality(Occupied) + 1}
  BY SlotsAreFinite, FS_AddElement
<1>3. Cardinality(Slots') <= Cardinality(Occupied \cup {k})
  BY <1>1, <1>2, FS_Subset
<1> QED BY <1>2, <1>3, SlotsAreFinite DEF SlotsOK

\* A step for one key, and nothing new for the others.
LEMMA GoodStep ==
  ASSUME AInv, StepOK, NEW k \in Keys,
         \A q \in Keys \ {k} : Calm(q),
         Calm(k) \/ Fresh(k) \/ Starts(k) \/ Settles(k),
         \/ SlotsOK'
         \/ journal'[k].state \in Occupying => journal[k].state \in Occupying,
         enqueues' = enqueues,
         journal[k].state = "absent" => journal'[k].state = "absent",
         journal'[k].state = "queued" => journal[k].state = "queued",
         \A p \in Runtimes, q \in Keys : task'[p][q].pc = "failtask" =>
            task[p][q].pc = "failtask" \/ LockedOut(p),
         \/ \E r \in Runtimes : Wrote(r)
         \/ /\ known' = known /\ holder' \in {holder, Nobody}
            /\ journal'[k].state = "absent" => journal[k].state = "absent"
  PROVE  Good
<1>1. IInv /\ IInv'
  BY DEF AInv, StepOK, IInv
<1>2. /\ \A q \in Keys : RecordOK(q)' /\ JobGoes(q)
      /\ \A q \in Keys : Contract!KeyStep(q)
  <2>1. \A q \in Keys : Calm(q) \/ Fresh(q) \/ Starts(q) \/ Settles(q)
    OBVIOUS
  <2>2. \A q \in Keys : JobGoes(q)
    BY <2>1 DEF Calm, Fresh, Starts, Settles, JobGoes
  <2> QED BY <1>1, <2>1, <2>2, KindsKeep, KindsPromised DEF AInv
<1>3. SlotsOK'
  BY SlotsKept DEF AInv, Calm, Lapses, Occupying
<1>4. Memory'
  <2>1. /\ holder' \in Runtimes \cup {Nobody} /\ Memory
        /\ enqueues' \in [Keys -> Nat] /\ \A q \in Keys : enqueues'[q] >= enqueues[q]
    BY <1>1 DEF IInv, Types, AInv, Memory
  <2>2. /\ \A q \in Keys : journal[q].state = "absent" => journal'[q].state = "absent"
        /\ \A q \in Keys : journal'[q].state = "queued" => journal[q].state = "queued"
        /\ \A q \in Keys \ {k} : journal'[q].state = "absent" => journal[q].state = "absent"
    BY DEF Calm, Lapses
  <2> QED BY <1>1, <2>1, <2>2, MemoryKept
<1> QED BY <1>2, <1>3, <1>4 DEF Good

\* A step that is calm for every key.
LEMMA CalmStep ==
  ASSUME AInv, StepOK, \A q \in Keys : Calm(q), enqueues' = enqueues,
         \A p \in Runtimes, q \in Keys : task'[p][q].pc = "failtask" =>
            task[p][q].pc = "failtask" \/ LockedOut(p),
         \/ \E r \in Runtimes : Wrote(r)
         \/ known' = known /\ holder' \in {holder, Nobody}
  PROVE  Good
<1>1. CASE Keys # {}
  <2>1. PICK k \in Keys : TRUE
    BY <1>1
  <2>2. /\ journal[k].state = "absent" => journal'[k].state = "absent"
        /\ journal'[k].state = "queued" => journal[k].state = "queued"
        /\ journal'[k].state = "absent" => journal[k].state = "absent"
        /\ journal'[k].state \in Occupying => journal[k].state \in Occupying
    BY DEF Calm, Lapses, Occupying
  <2> QED BY <2>2, GoodStep
<1>2. CASE Keys = {}
  <2>1. SlotsOK'
    BY <1>2, SlotsKept DEF AInv
  <2>2. Memory'
    <3>1. /\ holder' \in Runtimes \cup {Nobody} /\ Memory /\ IInv
          /\ enqueues' \in [Keys -> Nat]
      BY DEF StepOK, Types, AInv, Memory
    <3> QED BY <1>2, <3>1, MemoryKept
  <2> QED BY <1>2, <2>1, <2>2 DEF Good
<1> QED BY <1>1, <1>2

\* The journal is left alone.
LEMMA JournalKept ==
  ASSUME AInv, StepOK, NEW r \in Runtimes, NEW k \in Keys, Only(r, k),
         UNCHANGED <<journal, known, holder, spawns, enqueues>>,
         \A q \in Keys \ {k} : job'[q] = job[q], JobGoes(k),
         \/ task'[r][k].pc = task[r][k].pc
         \/ task'[r][k].pc \notin Started \cup {"permitted", "run", "failtask"}
         \/ task'[r][k].pc = "receipt" /\ task[r][k].pc = "spawned" /\ job'[k] = "running"
         \/ task'[r][k].pc = "failtask" /\ LockedOut(r)
  PROVE  Good
<1>1. ASSUME NEW q \in Keys PROVE Calm(q)
  <2>1. Lapses(journal[q], journal'[q]) /\ JobGoes(q) /\ spawns'[q] = spawns[q]
    BY DEF Lapses, JobGoes
  <2> QED BY <2>1 DEF Calm, Only, Started
<1>2. \A p \in Runtimes, q \in Keys : task'[p][q].pc = "failtask" =>
        task[p][q].pc = "failtask" \/ LockedOut(p)
  BY DEF Only, Started
<1> QED BY <1>1, <1>2, CalmStep

\* What a transaction that writes the record of k by r leaves.
LEMMA CommitElsewhere ==
  ASSUME AInv, NEW r \in Runtimes, NEW k \in Keys, NEW rec, Commit(r, Put(k, rec)),
         Only(r, k), holder' \in {r, Nobody}, UNCHANGED <<spawns, job>>
  PROVE  /\ \A q \in Keys \ {k} : Calm(q)
         /\ journal' = Put(k, rec) /\ journal'[k] = rec
         /\ Wrote(r)
         /\ Reloaded[k] \in Recs /\ Lapses(journal[k], Reloaded[k])
<1>1. /\ journal' = Put(k, rec) /\ holder = Nobody /\ Accepts(r) /\ Remember(r, journal')
      /\ r \in alive
  BY DEF Commit
<1>2. \A q \in Keys : Reloaded[q] \in Recs /\ Lapses(journal[q], Reloaded[q])
  BY RepairedRank, RepairedRecord DEF AInv, IInv, Types, Reloaded
<1>3. journal'[k] = rec /\ \A q \in Keys \ {k} : journal'[q] = Reloaded[q]
  BY <1>1 DEF Put, Reloaded
<1>4. Wrote(r)
  BY <1>1, RefusedIsOut DEF AInv, Wrote
<1>5. ASSUME NEW q \in Keys \ {k} PROVE Calm(q)
  BY <1>2, <1>3 DEF Calm, JobGoes, Only
<1> QED BY <1>1, <1>2, <1>3, <1>4, <1>5

\* The submission of k by r is over, or moves to where nothing is started, and
\* the journal is only repaired.
LEMMA RereadStep ==
  ASSUME AInv, StepOK, NEW r \in Runtimes, NEW k \in Keys, Commit(r, Reloaded), Only(r, k),
         task'[r][k].pc = "none", UNCHANGED <<holder, spawns, job, enqueues>>
  PROVE  Good
<1>1. journal' = Reloaded /\ holder = Nobody /\ Wrote(r)
  BY RefusedIsOut DEF Commit, AInv, Wrote
<1>2. \A q \in Keys : Lapses(journal[q], journal'[q])
  BY <1>1, RepairedRank DEF AInv, IInv, Types, Reloaded
<1>3. \A q \in Keys : Calm(q)
  BY <1>2 DEF Calm, JobGoes, Only, Started
<1>4. \A p \in Runtimes, q \in Keys : task'[p][q].pc = "failtask" =>
        task[p][q].pc = "failtask"
  BY DEF Only
<1> QED BY <1>1, <1>3, <1>4, CalmStep
-----------------------------------------------------------------------------
(* The steps of a submission that leave the journal alone. *)

\* Waiting for the CLI, and giving up before it.
LEMMA WaitGood ==
  ASSUME AInv, StepOK, NEW r \in Runtimes, NEW k \in Keys,
         \/ AskForCli(r, k) \/ FailBeforeCli(r, k) \/ GetCli(r, k) \/ LoseCli(r, k)
         \/ FailToSpawn(r, k)
  PROVE  Good
<1>1. UNCHANGED <<journal, known, holder, spawns, enqueues, job>>
  BY DEF AskForCli, FailBeforeCli, GetCli, LoseCli, FailToSpawn, journalVars, ghostVars
<1>2. CASE AskForCli(r, k)
  <2>. DEFINE t == [pc |-> "waiting", session |-> session]
  <2>1. t \in Tasks /\ t.pc = "waiting"
    BY DEF AInv, IInv, Types, Tasks, Renewed
  <2>2. task' = [task EXCEPT ![r][k] = t]
    BY <1>2 DEF AskForCli
  <2>. HIDE DEF t
  <2>3. Only(r, k) /\ task'[r][k].pc = "waiting"
    BY <2>1, <2>2, OneTask DEF AInv, IInv
  <2> QED BY <1>1, <2>3, JournalKept DEF JobGoes, Started
<1>3. CASE ~AskForCli(r, k)
  <2>1. \/ To(r, k, "fail_early") \/ To(r, k, "granted") \/ To(r, k, "fail_granted")
        \/ Over(r, k)
    BY <1>3 DEF FailBeforeCli, GetCli, LoseCli, FailToSpawn
  <2>2. /\ Only(r, k)
        /\ task'[r][k].pc \in {"fail_early", "granted", "fail_granted", "none"}
    BY <2>1, MovedTask, OverTask DEF AInv, IInv
  <2> QED BY <1>1, <2>2, JournalKept DEF JobGoes, Started
<1> QED BY <1>2, <1>3

\* A CLI that runs, and no longer does, has no job yet, and is the only one.
LEMMA ReachesOnce ==
  ASSUME AInv, NEW r \in Runtimes, NEW k \in Keys, task[r][k].pc \in Spawned,
         \A p \in Runtimes \ {r} : task'[p][k].pc = task[p][k].pc,
         task'[r][k].pc \notin Spawned
  PROVE  /\ spawns[k] > 0 /\ ~NoTaskFor(k) /\ job[k] = "none"
         /\ \A p \in Runtimes : task'[p][k].pc \notin Spawned
BY DEF AInv, IInv, KeyOK, OneSubmitter, RecordOK, JobKnown, Started, Spawned, NoTaskFor

\* Answer: the provider has a job only of a submission that was started.
LEMMA AnswerGood ==
  ASSUME AInv, StepOK, NEW r \in Runtimes, NEW k \in Keys, Answer(r, k)
  PROVE  Good
<1>1. UNCHANGED <<journal, known, holder, spawns, enqueues>> /\ task[r][k].pc = "spawned"
  BY DEF Answer, At, journalVars, ghostVars
<1>2. To(r, k, "receipt") \/ To(r, k, "fail_spawned")
  BY DEF Answer
<1>3. /\ \A q \in Keys \ {k} : job'[q] = job[q]
      /\ JobGoes(k)
  <2>1. Only(r, k) /\ task'[r][k].pc \in {"receipt", "fail_spawned"}
    BY <1>2, MovedTask DEF AInv, IInv
  <2> QED BY <1>1, <2>1, ReachesOnce DEF Only, Answer, JobGoes, AInv, IInv, Types, Spawned
<1>4. CASE job' = [job EXCEPT ![k] = "running"] /\ To(r, k, "receipt")
  BY <1>1, <1>3, <1>4, MovedTask, JournalKept DEF AInv, IInv, Types
<1>5. CASE To(r, k, "fail_spawned")
  BY <1>1, <1>3, <1>5, MovedTask, JournalKept DEF AInv, IInv, Started
<1> QED BY <1>4, <1>5 DEF Answer

\* Abort: a CLI that is killed may have reached the provider.
LEMMA AbortGood ==
  ASSUME AInv, StepOK, NEW r \in Runtimes, NEW k \in Keys, Abort(r, k)
  PROVE  Good
<1>1. UNCHANGED <<journal, known, holder, spawns, enqueues>>
  BY DEF Abort, journalVars, ghostVars
<1>2. /\ job' = job \/ (task[r][k].pc = "spawned" /\ job' = [job EXCEPT ![k] = "running"])
      /\ To(r, k, "fail_early") \/ To(r, k, "fail_granted") \/ To(r, k, "fail_spawned")
  BY DEF Abort
<1>3. /\ Only(r, k)
      /\ task'[r][k].pc \in {"fail_early", "fail_granted", "fail_spawned"}
  BY <1>2, MovedTask DEF AInv, IInv
<1>4. /\ \A q \in Keys \ {k} : job'[q] = job[q]
      /\ JobGoes(k)
  BY <1>2, <1>3, ReachesOnce DEF Only, JobGoes, AInv, IInv, Types, Spawned
<1> QED BY <1>1, <1>3, <1>4, JournalKept DEF Started

\* TransactionDenied: with the lock in time, only a runtime that is locked out
\* fails to commit a failure.
LEMMA TransactionDeniedGood ==
  ASSUME LockInTime, AInv, StepOK, NEW r \in Runtimes, NEW k \in Keys,
         TransactionDenied(r, k)
  PROVE  Good
<1>. DEFINE pc == task[r][k].pc
            t == IF AfterDenial(pc) = "none" THEN NoTask
                 ELSE [task[r][k] EXCEPT !.pc = AfterDenial(pc)]
<1>1. /\ UNCHANGED <<journal, known, holder, spawns, enqueues, job>>
      /\ Denied(r)
  BY DEF TransactionDenied, Denied, journalVars, ghostVars
<1>2. LockedOut(r)
  BY <1>1, RefusedIsOut DEF AInv, Denied, LockInTime
<1>3. AfterDenial(pc) \in {"fail_granted", "fail_spawned", "failtask", "none"}
  BY DEF TransactionDenied, AfterDenial
<1>4. task[r][k] \in Tasks /\ NoTask \in Tasks /\ NoTask.pc = "none"
  BY BoundsAssumption DEF AInv, IInv, Types, NoTask, Tasks
<1>5. t.pc = AfterDenial(pc) /\ t \in Tasks
  BY <1>3, <1>4 DEF Tasks, Renewed
<1>6. task' = [task EXCEPT ![r][k] = t]
  BY <1>3, <1>4 DEF TransactionDenied, AInv, IInv, Types
<1>. HIDE DEF t
<1>7. Only(r, k) /\ task'[r][k].pc \in {"fail_granted", "fail_spawned", "failtask", "none"}
  BY <1>3, <1>5, <1>6, OneTask DEF AInv, IInv
<1> QED BY <1>1, <1>2, <1>7, JournalKept DEF JobGoes, Started

-----------------------------------------------------------------------------
(* The steps of a submission that commit. *)

\* Load repairs the journal.
LEMMA LoadGood ==
  ASSUME AInv, StepOK, NEW r \in Runtimes, Load(r)
  PROVE  Good
<1>1. /\ Commit(r, Reloaded) /\ journal' = Reloaded
      /\ UNCHANGED <<task, holder, spawns, job, enqueues>>
  BY DEF Load, Commit, ghostVars
<1>2. Wrote(r)
  BY <1>1, RefusedIsOut DEF Commit, AInv, Wrote
<1>3. \A q \in Keys : Lapses(journal[q], journal'[q])
  BY <1>1, RepairedRank DEF AInv, IInv, Types, Reloaded
<1>4. \A q \in Keys : Calm(q)
  BY <1>1, <1>3 DEF Calm, JobGoes
<1> QED BY <1>1, <1>2, <1>4, CalmStep

\* Nothing was started for a record that is queued or only reserved.
LEMMA NotBegun ==
  ASSUME AInv, NEW k \in Keys, \/ Reloaded[k].state \in {"absent", "queued"}
                               \/ Reloaded[k].phase = "reserved"
  PROVE  /\ spawns[k] = 0 /\ ~journal[k].receipt /\ job[k] = "none"
         /\ \A p \in Runtimes : task[p][k].pc \notin Started \cup {"permitted"}
<1>1. /\ Lapses(journal[k], Reloaded[k]) /\ journal[k] \in Recs
      /\ RecordOK(k) /\ KeyOK(k) /\ spawns[k] \in Nat
  BY RepairedRank DEF AInv, IInv, Types, Reloaded
<1>2. ~Begun(k)
  BY <1>1 DEF Lapses, RecordOK, Accounted
<1>3. spawns[k] = 0
  BY <1>1, <1>2 DEF Begun
<1> QED BY <1>1, <1>2, <1>3 DEF RecordOK, JobKnown, Begun

\* Reserve: a slot is taken while one is free.
LEMMA ReserveGood ==
  ASSUME AInv, StepOK, NEW r \in Runtimes, NEW k \in Keys, Reserve(r, k)
  PROVE  Good
<1>. DEFINE rec == [Reloaded[k] EXCEPT !.state = "pending", !.owner = r,
                                       !.phase = "reserved", !.live = TRUE]
<1>1. UNCHANGED <<holder, spawns, job, enqueues>>
  BY DEF Reserve, ghostVars
<1>2. CASE Reloaded[k].state # "queued"
  <2>1. Commit(r, Reloaded) /\ Over(r, k)
    BY <1>2 DEF Reserve
  <2>2. Only(r, k) /\ task'[r][k].pc = "none"
    BY <2>1, OverTask DEF AInv, IInv
  <2> QED BY <1>1, <2>1, <2>2, RereadStep
<1>3. CASE Reloaded[k].state = "queued"
  <2>1. Commit(r, Put(k, rec)) /\ To(r, k, "reserved") /\ HasPriority(k) /\ holder = Nobody
    BY <1>3 DEF Reserve, Commit
  <2>2. Only(r, k) /\ task'[r][k].pc = "reserved"
    BY <2>1, MovedTask DEF AInv, IInv
  <2>3. Reloaded[k] \in Recs /\ Lapses(journal[k], Reloaded[k])
    BY RepairedRank, RepairedRecord DEF AInv, IInv, Types, Reloaded
  <2>4. rec.state = "pending" /\ rec.receipt = journal[k].receipt
    BY <2>3 DEF Recs, Lapses
  <2>. HIDE DEF rec
  <2>5. /\ \A q \in Keys \ {k} : Calm(q)
        /\ journal' = Put(k, rec) /\ journal'[k] = rec /\ Wrote(r)
    BY <1>1, <2>1, <2>2, CommitElsewhere
  <2>6. Fresh(k)
    <3>1. /\ spawns[k] = 0 /\ ~journal[k].receipt
          /\ \A p \in Runtimes : task[p][k].pc \notin Started \cup {"permitted"}
          /\ journal[k].state = "queued"
      BY <1>3, <2>3, NotBegun DEF Lapses
    <3>2. \A p \in Runtimes : task[p][k].pc \notin Runs
      BY <2>1, NoRunAtCommit DEF AInv
    <3>3. \A p \in Runtimes : task'[p][k].pc \notin Started \cup {"permitted", "run"}
      BY <2>2, <3>1, <3>2 DEF Only, Started, Runs
    <3> QED BY <1>1, <2>4, <2>5, <3>1, <3>3 DEF Fresh, States
  <2>7. SlotsOK'
    <3>. DEFINE earlier == {q \in Queued(Reloaded) : <<q, k>> \in line}
    <3>1. earlier \subseteq Keys
      BY DEF Queued
    <3>2. Cardinality(earlier) \in Nat
      BY <3>1, SlotsAreFinite, FS_Subset, FS_CardinalityType
    <3>3. Cardinality(Occupied) + Cardinality(earlier) < MaxActive
      BY <2>1 DEF HasPriority
    <3>. HIDE DEF earlier
    <3>4. Cardinality(Occupied) < MaxActive
      BY <3>2, <3>3, SlotsAreFinite
    <3> QED BY <2>5, <3>4, SlotTaken
  <2>8. /\ journal[k].state # "absent"
        /\ \A p \in Runtimes, q \in Keys : task'[p][q].pc = "failtask" =>
             task[p][q].pc = "failtask"
    BY <1>3, <2>2, <2>3 DEF Lapses, Only
  <2> QED BY <1>1, <2>4, <2>5, <2>6, <2>7, <2>8, GoodStep, SMTT(30)
<1> QED BY <1>2, <1>3

\* CommitFence: a start is permitted of what is reserved.
LEMMA CommitFenceGood ==
  ASSUME AInv, StepOK, NEW r \in Runtimes, NEW k \in Keys, CommitFence(r, k)
  PROVE  Good
<1>. DEFINE rec == [Reloaded[k] EXCEPT !.phase = "spawn_permitted", !.live = TRUE,
                                       !.session = task[r][k].session]
<1>1. UNCHANGED <<holder, spawns, job, enqueues>>
  BY DEF CommitFence, ghostVars
<1>2. CASE ~Mine(r, k)
  <2>1. Commit(r, Reloaded) /\ Over(r, k)
    BY <1>2 DEF CommitFence
  <2>2. Only(r, k) /\ task'[r][k].pc = "none"
    BY <2>1, OverTask DEF AInv, IInv
  <2> QED BY <1>1, <2>1, <2>2, RereadStep
<1>3. CASE Mine(r, k)
  <2>1. Commit(r, Put(k, rec)) /\ To(r, k, "permitted") /\ holder = Nobody
    BY <1>3 DEF CommitFence, Commit
  <2>2. Only(r, k) /\ task'[r][k].pc = "permitted"
    BY <2>1, MovedTask DEF AInv, IInv
  <2>3. Reloaded[k] \in Recs /\ Lapses(journal[k], Reloaded[k]) /\ KeyOK(k)
    BY RepairedRank, RepairedRecord DEF AInv, IInv, Types, Reloaded
  <2>4. /\ Reloaded[k].state = "pending" /\ journal[k].state = "pending"
        /\ ~journal[k].receipt
    BY <1>3, <2>3 DEF Mine, Lapses, KeyOK, ReceiptEnds
  <2>5. rec.state = "pending" /\ rec.phase = "spawn_permitted" /\ ~rec.receipt
    BY <2>3, <2>4 DEF Recs, Lapses
  <2>. HIDE DEF rec
  <2>6. /\ \A q \in Keys \ {k} : Calm(q)
        /\ journal'[k] = rec /\ Wrote(r)
    BY <1>1, <2>1, <2>2, CommitElsewhere
  <2>7. Starts(k)
    <3>1. \A p \in Runtimes : task'[p][k].pc \notin Runs
      BY <2>1, <2>2, NoRunAtCommit DEF AInv, Only, Runs
    <3>2. spawns[k] \in Nat
      BY DEF AInv, IInv, Types
    <3>3. ~NoTaskFor(k)
      BY <1>3 DEF CommitFence, At, NoTaskFor
    <3> QED BY <1>1, <2>2, <2>4, <2>5, <2>6, <3>1, <3>2, <3>3 DEF Starts, Only
  <2>8. \A p \in Runtimes, q \in Keys : task'[p][q].pc = "failtask" =>
             task[p][q].pc = "failtask"
    BY <2>2 DEF Only
  <2> QED BY <1>1, <2>4, <2>5, <2>6, <2>7, <2>8, GoodStep, SMTT(30) DEF Occupying
<1> QED BY <1>2, <1>3

\* Spawn: what was permitted happens, although the lease may have lapsed.
LEMMA SpawnGood ==
  ASSUME AInv, StepOK, NEW r \in Runtimes, NEW k \in Keys, Spawn(r, k)
  PROVE  Good
<1>1. /\ UNCHANGED <<journal, known, holder, job, enqueues>>
      /\ task[r][k].pc = "permitted" /\ spawns' = [spawns EXCEPT ![k] = @ + 1]
      /\ To(r, k, "spawned")
  BY DEF Spawn, At, journalVars
<1>2. Only(r, k) /\ task'[r][k].pc = "spawned"
  BY <1>1, MovedTask DEF AInv, IInv
<1>3. /\ spawns[k] \in Nat /\ spawns'[k] = spawns[k] + 1
      /\ \A q \in Keys \ {k} : spawns'[q] = spawns[q]
  BY <1>1 DEF AInv, IInv, Types
<1>4. \A q \in Keys \ {k} : Calm(q)
  BY <1>1, <1>2, <1>3 DEF Calm, Only, Lapses, JobGoes
<1>5. Begun(k) /\ RunPhase(k)
  BY <1>1 DEF Begun, AInv, RecordOK
<1>6. Starts(k)
  BY <1>1, <1>2, <1>3, <1>5 DEF Starts, Only, RunPhase, Runs, Spawned, NoTaskFor
<1>7. \A p \in Runtimes, q \in Keys : task'[p][q].pc = "failtask" =>
        task[p][q].pc = "failtask"
  BY <1>2 DEF Only
<1> QED BY <1>1, <1>4, <1>6, <1>7, GoodStep

\* CommitReceipt: a receipt is one of a job.
LEMMA CommitReceiptGood ==
  ASSUME AInv, StepOK, NEW r \in Runtimes, NEW k \in Keys, CommitReceipt(r, k)
  PROVE  Good
<1>. DEFINE closed == Closed(Reloaded[k], "accepted")
            rec == [closed EXCEPT !.receipt = TRUE]
<1>1. /\ UNCHANGED <<holder, spawns, job, enqueues>> /\ Over(r, k)
      /\ task[r][k].pc = "receipt"
  BY DEF CommitReceipt, At, ghostVars
<1>2. Only(r, k) /\ task'[r][k].pc = "none"
  BY <1>1, OverTask DEF AInv, IInv
<1>3. CASE ~(IsCurrent(Submission(r, k)) /\ Mine(r, k))
  <2>1. Commit(r, Reloaded)
    BY <1>3 DEF CommitReceipt
  <2> QED BY <1>1, <1>2, <2>1, RereadStep
<1>4. CASE IsCurrent(Submission(r, k)) /\ Mine(r, k)
  <2>1. Commit(r, Put(k, rec)) /\ holder = Nobody
    BY <1>4 DEF CommitReceipt, Commit
  <2>2. Reloaded[k] \in Recs /\ Lapses(journal[k], Reloaded[k])
    BY RepairedRank, RepairedRecord DEF AInv, IInv, Types, Reloaded
  <2>3. Reloaded[k].state = "pending" /\ journal[k].state = "pending"
    BY <1>4, <2>2 DEF Mine, Lapses
  <2>4. closed \in Recs /\ closed.state = "accepted" /\ closed.phase = "none"
    BY <2>2, ClosedRecord DEF States
  <2>. HIDE DEF closed
  <2>5. rec.state = "accepted" /\ rec.receipt /\ rec.phase = "none"
    BY <2>4 DEF Recs
  <2>. HIDE DEF rec
  <2>6. /\ \A q \in Keys \ {k} : Calm(q)
        /\ journal'[k] = rec /\ Wrote(r)
    BY <1>1, <1>2, <2>1, CommitElsewhere
  <2>7. Settles(k)
    BY <1>1, <2>3, <2>5, <2>6 DEF Settles, JobGoes, AInv, RecordOK, JobKnown, Started
  <2>8. \A p \in Runtimes, q \in Keys : task'[p][q].pc = "failtask" =>
             task[p][q].pc = "failtask"
    BY <1>2 DEF Only
  <2> QED BY <1>1, <2>3, <2>5, <2>6, <2>7, <2>8, GoodStep, SMTT(30) DEF Occupying
<1> QED BY <1>3, <1>4

\* CommitFailure: only what was not started is withdrawn.
LEMMA CommitFailureGood ==
  ASSUME AInv, StepOK, NEW r \in Runtimes, NEW k \in Keys, CommitFailure(r, k)
  PROVE  Good
<1>. DEFINE denied == \/ ~Mine(r, k)
                      \/ Reloaded[k].phase = "reserved" /\ ~At(r, k, "fail_early")
            unsure == Closed(Reloaded[k], "unknown")
<1>1. /\ UNCHANGED <<holder, spawns, job, enqueues>> /\ Over(r, k)
      /\ task[r][k].pc \in {"fail_early", "fail_granted", "fail_spawned"} /\ r \in alive
  BY DEF CommitFailure, At, ghostVars
<1>2. Only(r, k) /\ task'[r][k].pc = "none"
  BY <1>1, OverTask DEF AInv, IInv
<1>3. CASE denied
  <2>1. Commit(r, Reloaded)
    BY <1>3 DEF CommitFailure
  <2> QED BY <1>1, <1>2, <2>1, RereadStep
<1>4. /\ Reloaded[k] \in Recs /\ Lapses(journal[k], Reloaded[k]) /\ KeyOK(k) /\ RecordOK(k)
      /\ journal[k] \in Recs
  BY RepairedRank, RepairedRecord DEF AInv, IInv, Types, Reloaded
<1>5. ~denied => Reloaded[k].state = "pending" /\ journal[k].state = "pending"
  BY <1>4 DEF Mine, Lapses
<1>6. \A p \in Runtimes, q \in Keys : task'[p][q].pc = "failtask" =>
        task[p][q].pc = "failtask"
  BY <1>2 DEF Only
<1>7. CASE ~denied /\ At(r, k, "fail_spawned")
  <2>1. Commit(r, Put(k, unsure))
    BY <1>7 DEF CommitFailure
  <2>2. holder = Nobody
    BY <2>1 DEF Commit
  <2>3. /\ unsure.state = "unknown" /\ unsure.phase = "none"
        /\ unsure.receipt = journal[k].receipt
    BY <1>4, ClosedRecord DEF States, Lapses
  <2>. HIDE DEF unsure
  <2>4. /\ \A q \in Keys \ {k} : Calm(q)
        /\ journal'[k] = unsure /\ Wrote(r)
    BY <1>1, <1>2, <2>1, <2>2, CommitElsewhere
  <2>5. Calm(k)
    BY <1>1, <1>2, <1>5, <1>7, <2>3, <2>4 DEF Calm, Lapses, JobGoes, Only, Started
  <2> QED BY <1>1, <1>5, <1>6, <1>7, <2>3, <2>4, <2>5, GoodStep DEF Occupying
<1>8. CASE ~denied /\ ~At(r, k, "fail_spawned")
  <2>1. Commit(r, Put(k, NoRecord))
    BY <1>8 DEF CommitFailure
  <2>2. holder = Nobody
    BY <2>1 DEF Commit
  <2>3. /\ \A q \in Keys \ {k} : Calm(q)
        /\ journal'[k] = NoRecord /\ Wrote(r)
    BY <1>1, <1>2, <2>1, <2>2, CommitElsewhere
  <2>4. spawns[k] = 0 /\ NoTaskFor(k)'
    BY <1>1, <1>2, <1>4, <1>8
    DEF KeyOK, StartsOnce, Unstarted, OneSubmitter, NoTaskFor, At, Only
  <2>5. Fresh(k)
    BY <1>1, <1>5, <1>8, <2>3, <2>4, NewRecord DEF Fresh, NoTaskFor, Started
  <2> QED BY <1>1, <1>5, <1>6, <1>8, <2>3, <2>5, NewRecord, GoodStep DEF Occupying
<1> QED BY <1>3, <1>7, <1>8

\* FailTask: who has left a failure to it is locked out.
LEMMA FailTaskGood ==
  ASSUME AInv, NEW r \in Runtimes, NEW k \in Keys, FailTask(r, k)
  PROVE  Good
<1>1. task[r][k].pc = "failtask" /\ Accepts(r)
  BY DEF FailTask, At, Commit
<1>2. LockedOut(r)
  BY <1>1 DEF AInv, Memory, OutOK
<1> QED BY <1>1, <1>2, RefusedIsOut DEF AInv

\* A submission of k by r that is over when it was queued.
LEMMA MaybeOver ==
  ASSUME Types, NEW r \in Runtimes, NEW k \in Keys,
         IF task[r][k].pc = "queued" THEN Over(r, k) ELSE UNCHANGED task
  PROVE  /\ Only(r, k)
         /\ task'[r][k].pc = task[r][k].pc \/ task'[r][k].pc = "none"
<1>1. CASE task[r][k].pc = "queued"
  BY <1>1, OverTask
<1>2. CASE task[r][k].pc # "queued"
  BY <1>2 DEF Only
<1> QED BY <1>1, <1>2

\* A record of which nothing was started is closed.
LEMMA ClosingGood ==
  ASSUME AInv, StepOK, NEW r \in Runtimes, NEW k \in Keys,
         NEW s \in {"cancelled", "deleted"},
         Reloaded[k].state = "queued" \/ Reloaded[k].phase = "reserved",
         Commit(r, Put(k, Closed(Reloaded[k], s))),
         IF task[r][k].pc = "queued" THEN Over(r, k) ELSE UNCHANGED task,
         UNCHANGED <<holder, spawns, job, enqueues>>
  PROVE  Good
<1>1. /\ Only(r, k) /\ holder = Nobody
      /\ task'[r][k].pc = task[r][k].pc \/ task'[r][k].pc = "none"
  BY MaybeOver DEF Commit, AInv, IInv
<1>2. /\ Reloaded[k] \in Recs /\ Lapses(journal[k], Reloaded[k]) /\ journal[k] \in Recs
      /\ KeyOK(k)
  BY RepairedRank, RepairedRecord DEF AInv, IInv, Types, Reloaded
<1>. DEFINE rec == Closed(Reloaded[k], s)
<1>3. rec.state = s /\ rec.receipt = journal[k].receipt /\ s \in States
  BY <1>2, ClosedRecord DEF States, Lapses
<1>. HIDE DEF rec
<1>4. /\ \A q \in Keys \ {k} : Calm(q)
      /\ journal'[k] = rec /\ Wrote(r)
  BY <1>1, CommitElsewhere DEF rec
<1>5. /\ spawns[k] = 0 /\ ~journal[k].receipt
      /\ \A p \in Runtimes : task[p][k].pc \notin Started \cup {"permitted"}
  BY NotBegun
<1>6. \A p \in Runtimes : task[p][k].pc \notin Runs
  BY <1>1, NoRunAtCommit DEF AInv
<1>7. journal[k].state \in {"queued", "pending"}
  BY <1>2 DEF Lapses, KeyOK, PhaseIsPending
<1>8. Fresh(k)
  BY <1>1, <1>3, <1>4, <1>5, <1>6, <1>7 DEF Fresh, Only, Started, Runs
<1>9. \A p \in Runtimes, q \in Keys : task'[p][q].pc = "failtask" =>
        task[p][q].pc = "failtask"
  BY <1>1 DEF Only
<1> QED BY <1>3, <1>4, <1>7, <1>8, <1>9, GoodStep DEF Occupying

\* Cancel closes only what is queued.
LEMMA CancelGood ==
  ASSUME AInv, StepOK, NEW r \in Runtimes, NEW k \in Keys, Cancel(r, k)
  PROVE  Good
BY ClosingGood DEF Cancel, ghostVars

\* Delete: what was started is only hidden.
LEMMA DeleteGood ==
  ASSUME AInv, StepOK, NEW r \in Runtimes, NEW k \in Keys, Delete(r, k)
  PROVE  Good
<1>1. UNCHANGED <<holder, spawns, job, enqueues>>
  BY DEF Delete, ghostVars
<1>2. CASE Reloaded[k].state = "queued" \/ Reloaded[k].phase = "reserved"
  BY <1>1, <1>2, ClosingGood DEF Delete
<1>3. CASE ~(Reloaded[k].state = "queued" \/ Reloaded[k].phase = "reserved")
  <2>. DEFINE rec == [Reloaded[k] EXCEPT !.hidden = TRUE]
  <2>1. Commit(r, Put(k, rec)) /\ UNCHANGED task /\ holder = Nobody
    BY <1>3 DEF Delete, Commit
  <2>2. Reloaded[k] \in Recs /\ Lapses(journal[k], Reloaded[k])
    BY RepairedRank, RepairedRecord DEF AInv, IInv, Types, Reloaded
  <2>3. Lapses(journal[k], rec)
    BY <2>2 DEF Recs, Lapses
  <2>. HIDE DEF rec
  <2>4. /\ \A q \in Keys \ {k} : Calm(q)
        /\ journal'[k] = rec /\ Wrote(r)
    BY <1>1, <2>1, CommitElsewhere DEF Only
  <2>5. \A q \in Keys : Calm(q)
    BY <1>1, <2>1, <2>3, <2>4 DEF Calm, JobGoes
  <2> QED BY <1>1, <2>1, <2>4, <2>5, CalmStep
<1> QED BY <1>2, <1>3

-----------------------------------------------------------------------------
(* New keys, and the older run. *)

\* A key that was never submitted gets a record.
LEMMA NewKeyStep ==
  ASSUME SubmittedOnce, AInv, StepOK, NEW r \in Runtimes, NEW k \in Keys, NEW rec,
         enqueues[k] < MaxEnqueues, Reloaded[k].state = "absent",
         Commit(r, Put(k, rec)), Only(r, k), holder' \in {r, Nobody},
         UNCHANGED <<spawns, job>>, enqueues' = [enqueues EXCEPT ![k] = @ + 1],
         rec.state \in {"queued", "pending"}, ~rec.receipt, rec.phase = "none",
         task'[r][k].pc \in {"queued", "run"},
         rec.state = "pending" => Cardinality(Occupied) < MaxActive
  PROVE  Good
<1>1. /\ \A q \in Keys \ {k} : Calm(q)
      /\ journal' = Put(k, rec) /\ journal'[k] = rec /\ Wrote(r)
      /\ Lapses(journal[k], Reloaded[k])
  BY CommitElsewhere
<1>2. /\ spawns[k] = 0
      /\ \A p \in Runtimes : task[p][k].pc \notin Started \cup {"permitted"}
  BY NotBegun
<1>3. Fresh(k)
  BY <1>1, <1>2 DEF Fresh, Only, Started, Lapses
<1>4. IInv /\ IInv'
  BY DEF AInv, StepOK, IInv
<1>5. /\ \A q \in Keys : RecordOK(q)' /\ JobGoes(q)
      /\ \A q \in Keys : Contract!KeyStep(q)
  <2>1. \A q \in Keys : Calm(q) \/ Fresh(q)
    BY <1>1, <1>3
  <2>2. \A q \in Keys : JobGoes(q)
    BY <2>1 DEF Calm, Fresh, JobGoes
  <2> QED BY <1>4, <2>1, <2>2, KindsKeep, KindsPromised DEF AInv
<1>6. SlotsOK'
  <2>1. CASE rec.state = "pending"
    BY <1>1, <2>1, SlotTaken
  <2>2. CASE rec.state = "queued"
    BY <1>1, <2>2, SlotsKept DEF AInv, Calm, Lapses, Occupying
  <2> QED BY <2>1, <2>2
<1>7. Memory'
  <2>0. enqueues \in [Keys -> Nat] /\ Memory
    BY DEF AInv, Memory
  <2>1. enqueues[k] = 0
    <3>1. enqueues[k] \in Nat /\ MaxEnqueues \in Nat
      BY <2>0, BoundsAssumption
    <3> QED BY <3>1 DEF SubmittedOnce
  <2>2. /\ enqueues' \in [Keys -> Nat] /\ enqueues'[k] = 1
        /\ \A q \in Keys : enqueues'[q] >= enqueues[q]
    BY <2>0, <2>1
  <2>3. /\ \A q \in Keys \ {k} :
              /\ journal[q].state = "absent" => journal'[q].state = "absent"
              /\ journal'[q].state = "queued" => journal[q].state = "queued"
        /\ holder' \in Runtimes \cup {Nobody}
    BY <1>1, <1>4 DEF Calm, Lapses, IInv, Types
  <2>4. \A p \in Runtimes, q \in Keys : task'[p][q].pc = "failtask" =>
          task[p][q].pc = "failtask"
    BY DEF Only
  <2> QED BY <1>1, <1>4, <2>0, <2>1, <2>2, <2>3, <2>4, MemoryKept
<1> QED BY <1>5, <1>6, <1>7 DEF Good

\* Enqueue.
LEMMA EnqueueGood ==
  ASSUME SubmittedOnce, AInv, StepOK, NEW r \in Runtimes, NEW k \in Keys, Enqueue(r, k)
  PROVE  Good
<1>. DEFINE rec == [NoRecord EXCEPT !.state = "queued", !.owner = r, !.live = TRUE]
<1>1. /\ enqueues[k] < MaxEnqueues /\ Reloaded[k].state = "absent"
      /\ Commit(r, Put(k, rec)) /\ To(r, k, "queued")
      /\ enqueues' = [enqueues EXCEPT ![k] = @ + 1]
      /\ UNCHANGED <<holder, spawns, job>>
  BY DEF Enqueue
<1>2. rec.state = "queued" /\ ~rec.receipt /\ rec.phase = "none"
  BY DEF NoRecord
<1>. HIDE DEF rec
<1>3. Only(r, k) /\ task'[r][k].pc = "queued"
  BY <1>1, MovedTask DEF AInv, IInv
<1>4. holder = Nobody
  BY <1>1 DEF Commit
<1> QED BY <1>1, <1>2, <1>3, <1>4, NewKeyStep

\* RunBegin: the older run takes a slot that it has counted itself.
LEMMA RunBeginGood ==
  ASSUME SubmittedOnce, AInv, StepOK, NEW r \in Runtimes, NEW k \in Keys, RunBegin(r, k)
  PROVE  Good
<1>. DEFINE rec == [NoRecord EXCEPT !.state = "pending", !.legacy = TRUE]
            t == [pc |-> "run", session |-> session]
<1>1. /\ enqueues[k] < MaxEnqueues /\ Reloaded[k].state = "absent"
      /\ Cardinality(Occupied) < MaxActive
      /\ Commit(r, Put(k, rec)) /\ task' = [task EXCEPT ![r][k] = t]
      /\ enqueues' = [enqueues EXCEPT ![k] = @ + 1]
      /\ UNCHANGED <<spawns, job>> /\ holder' = r
  BY DEF RunBegin
<1>2. rec.state = "pending" /\ ~rec.receipt /\ rec.phase = "none"
  BY DEF NoRecord
<1>3. t \in Tasks /\ t.pc = "run"
  BY DEF AInv, IInv, Types, Tasks
<1>. HIDE DEF rec, t
<1>4. Only(r, k) /\ task'[r][k].pc = "run"
  BY <1>1, <1>3, OneTask DEF AInv, IInv
<1> QED BY <1>1, <1>2, <1>4, NewKeyStep

\* What a run that holds the lock finds and writes.
LEMMA RunFacts ==
  ASSUME AInv, NEW r \in Runtimes, NEW k \in Keys, task[r][k].pc \in Runs, holder = r,
         NEW rec, RunWrites(r, k, rec), Only(r, k), holder' \in {r, Nobody},
         \A q \in Keys \ {k} : job'[q] = job[q] /\ spawns'[q] = spawns[q]
  PROVE  /\ \A q \in Keys \ {k} : Calm(q)
         /\ journal'[k] = rec /\ Wrote(r) /\ journal[k] \in Recs
         /\ journal[k].state = "pending" /\ journal[k].phase = "none" /\ ~journal[k].receipt
         /\ \A p \in Runtimes \ {r} : task[p][k].pc = "none"
<1>1. /\ journal' = [journal EXCEPT ![k] = rec] /\ Remember(r, journal')
      /\ journal[k] \in Recs /\ KeyOK(k) /\ RecordOK(k)
      /\ journal'[k] = rec /\ \A q \in Keys \ {k} : journal'[q] = journal[q]
  BY DEF RunWrites, AInv, IInv, Types
<1>2. Wrote(r)
  BY <1>1 DEF Wrote, AInv, Memory, OutOK
<1>3. \A q \in Keys \ {k} : Calm(q)
  BY <1>1 DEF Calm, Lapses, JobGoes, Only
<1>4. /\ journal[k].state = "pending" /\ journal[k].phase = "none" /\ ~journal[k].receipt
      /\ \A p \in Runtimes \ {r} : task[p][k].pc = "none"
  BY <1>1 DEF KeyOK, RunHolds, ReceiptEnds, OneSubmitter, RecordOK, RunPhase, Runs
<1> QED BY <1>1, <1>2, <1>3, <1>4

\* RunSpawn.
LEMMA RunSpawnGood ==
  ASSUME AInv, StepOK, NEW r \in Runtimes, NEW k \in Keys, RunSpawn(r, k)
  PROVE  Good
<1>. DEFINE rec == [journal[k] EXCEPT !.session = task[r][k].session]
<1>1. /\ task[r][k].pc = "run" /\ To(r, k, "run_spawned") /\ holder = r
      /\ RunWrites(r, k, rec) /\ spawns' = [spawns EXCEPT ![k] = @ + 1]
      /\ UNCHANGED <<holder, job, enqueues>>
  BY DEF RunSpawn, At
<1>2. Only(r, k) /\ task'[r][k].pc = "run_spawned"
  BY <1>1, MovedTask DEF AInv, IInv
<1>3. /\ spawns[k] \in Nat /\ spawns'[k] = spawns[k] + 1
      /\ \A q \in Keys \ {k} : spawns'[q] = spawns[q]
  BY <1>1 DEF AInv, IInv, Types
<1>. HIDE DEF rec
<1>4. /\ \A q \in Keys \ {k} : Calm(q)
      /\ journal'[k] = rec /\ Wrote(r) /\ journal[k] \in Recs
      /\ journal[k].state = "pending" /\ journal[k].phase = "none" /\ ~journal[k].receipt
  BY <1>1, <1>2, <1>3, RunFacts DEF Runs
<1>5. rec.state = "pending" /\ rec.phase = "none" /\ ~rec.receipt
  BY <1>4 DEF rec, Recs
<1>6. Starts(k)
  BY <1>1, <1>2, <1>3, <1>4, <1>5 DEF Starts, Only, Spawned, NoTaskFor
<1>7. \A p \in Runtimes, q \in Keys : task'[p][q].pc = "failtask" =>
        task[p][q].pc = "failtask"
  BY <1>2 DEF Only
<1> QED BY <1>1, <1>4, <1>5, <1>6, <1>7, GoodStep DEF Occupying

\* RunRefused withdraws a record that was never started.
LEMMA RunRefusedGood ==
  ASSUME AInv, StepOK, NEW r \in Runtimes, NEW k \in Keys, RunRefused(r, k)
  PROVE  Good
<1>1. /\ task[r][k].pc = "run" /\ holder = r /\ holder' = Nobody
      /\ RunWrites(r, k, NoRecord) /\ Over(r, k) /\ UNCHANGED <<spawns, job, enqueues>>
  BY DEF RunRefused, At, ghostVars
<1>2. Only(r, k) /\ task'[r][k].pc = "none"
  BY <1>1, OverTask DEF AInv, IInv
<1>3. /\ \A q \in Keys \ {k} : Calm(q)
      /\ journal'[k] = NoRecord /\ Wrote(r) /\ journal[k].state = "pending"
      /\ \A p \in Runtimes \ {r} : task[p][k].pc = "none"
  BY <1>1, <1>2, RunFacts DEF Runs
<1>4. spawns[k] = 0
  BY <1>1 DEF AInv, IInv, KeyOK, StartsOnce, Unstarted
<1>5. Fresh(k)
  BY <1>1, <1>2, <1>3, <1>4, NewRecord DEF Fresh, Only, Started, States
<1>6. \A p \in Runtimes, q \in Keys : task'[p][q].pc = "failtask" =>
        task[p][q].pc = "failtask"
  BY <1>2 DEF Only
<1> QED BY <1>1, <1>3, <1>5, <1>6, NewRecord, GoodStep DEF Occupying

\* RunEnds.
LEMMA RunEndsGood ==
  ASSUME AInv, StepOK, NEW r \in Runtimes, NEW k \in Keys, RunEnds(r, k)
  PROVE  Good
<1>. DEFINE closed == Closed(journal[k], "accepted")
            accepted == [closed EXCEPT !.receipt = TRUE]
            unsure == Closed(journal[k], "unknown")
<1>1. /\ task[r][k].pc = "run_spawned" /\ holder = r /\ holder' = Nobody
      /\ Over(r, k) /\ UNCHANGED <<spawns, enqueues>>
      /\ job' \in {job, [job EXCEPT ![k] = "running"]}
  BY DEF RunEnds, At, ghostVars
<1>2. Only(r, k) /\ task'[r][k].pc = "none"
  BY <1>1, OverTask DEF AInv, IInv
<1>3. PICK rec \in {accepted, unsure, journal[k]} :
        RunWrites(r, k, rec) /\ (rec = accepted => job' = [job EXCEPT ![k] = "running"])
  <2>1. accepted.receipt /\ ~unsure.receipt /\ ~journal[k].receipt
    <3>1. journal[k] \in Recs /\ ~journal[k].receipt
      BY <1>1 DEF AInv, IInv, Types, KeyOK, ReceiptEnds, NoTaskFor
    <3>2. closed \in Recs /\ unsure.receipt = journal[k].receipt
      BY <3>1, ClosedRecord DEF States
    <3>. HIDE DEF closed, unsure
    <3> QED BY <3>1, <3>2 DEF Recs
  <2>. HIDE DEF closed, unsure
  <2>2. accepted # unsure /\ accepted # journal[k]
    BY <2>1
  <2> QED BY <2>2 DEF RunEnds, unsure, closed
<1>. HIDE DEF closed, unsure, accepted
<1>4. /\ spawns[k] > 0 /\ ~NoTaskFor(k) /\ job[k] = "none"
      /\ \A p \in Runtimes : task'[p][k].pc \notin Spawned
  BY <1>1, <1>2, ReachesOnce DEF Only, Spawned
<1>5. JobGoes(k) /\ \A q \in Keys \ {k} : job'[q] = job[q]
  BY <1>1, <1>4 DEF JobGoes, AInv, IInv, Types
<1>6. /\ \A q \in Keys \ {k} : Calm(q)
      /\ journal'[k] = rec /\ Wrote(r) /\ journal[k] \in Recs
      /\ journal[k].state = "pending" /\ journal[k].phase = "none" /\ ~journal[k].receipt
  BY <1>1, <1>2, <1>3, <1>5, RunFacts DEF Runs
<1>7. \A p \in Runtimes, q \in Keys : task'[p][q].pc = "failtask" =>
        task[p][q].pc = "failtask"
  BY <1>2 DEF Only
<1>8. CASE rec = accepted
  <2>1. closed \in Recs /\ closed.state = "accepted" /\ closed.phase = "none"
    BY <1>6, ClosedRecord DEF closed, States
  <2>2. accepted.state = "accepted" /\ accepted.receipt /\ accepted.phase = "none"
    BY <2>1 DEF accepted, Recs
  <2>3. job'[k] = "running"
    BY <1>3, <1>8 DEF AInv, IInv, Types
  <2>4. Settles(k)
    BY <1>1, <1>4, <1>5, <1>6, <1>8, <2>2, <2>3 DEF Settles
  <2> QED BY <1>1, <1>6, <1>7, <1>8, <2>2, <2>4, GoodStep DEF Occupying
<1>9. CASE rec \in {unsure, journal[k]}
  <2>1. /\ unsure.state = "unknown" /\ unsure.phase = "none"
        /\ unsure.receipt = journal[k].receipt
    BY <1>6, ClosedRecord DEF unsure, States
  <2>2. Lapses(journal[k], rec)
    BY <1>6, <1>9, <2>1 DEF Lapses
  <2>3. Calm(k)
    BY <1>1, <1>2, <1>5, <1>6, <2>2 DEF Calm, Only, Started
  <2> QED BY <1>1, <1>6, <1>7, <2>3, CalmStep
<1> QED BY <1>3, <1>8, <1>9

-----------------------------------------------------------------------------
(* Runtimes that go away, time and the provider. *)

\* A runtime that goes away forgets what it remembered.
LEMMA GoneGood ==
  ASSUME AInv, StepOK, NEW r \in Runtimes, Gone(r), UNCHANGED <<spawns, enqueues>>,
         \A q \in Keys : Lapses(journal[q], journal'[q]) /\ JobGoes(q)
  PROVE  Good
<1>1. /\ \A q \in Keys : task'[r][q].pc = "none"
      /\ \A p \in Runtimes \ {r} : task'[p] = task[p]
      /\ holder # r => holder' = holder
  BY GoneFacts DEF AInv
<1>2. \A q \in Keys : Calm(q)
  BY <1>1 DEF Calm, Started
<1>3. IInv /\ IInv'
  BY DEF AInv, StepOK, IInv
<1>4. /\ \A q \in Keys : RecordOK(q)' /\ JobGoes(q)
      /\ \A q \in Keys : Contract!KeyStep(q)
  BY <1>2, <1>3, KindsKeep, KindsPromised DEF AInv
<1>5. SlotsOK'
  BY SlotsKept DEF AInv, Lapses, Occupying
<1>6. /\ known' \in [Runtimes -> [Keys -> -1 .. 1]]
      /\ \A q \in Keys : known'[r][q] = -1
      /\ \A p \in Runtimes \ {r} : known'[p] = known[p]
  BY DEF Gone, AInv, Memory
<1>7. \A q \in Keys : /\ journal'[q].state = "absent" <=> journal[q].state = "absent"
                      /\ journal'[q].state = "queued" => journal[q].state = "queued"
  BY DEF Lapses
<1>8. ASSUME NEW q \in Keys PROVE KnownOK(q)'
  <2>1. KnownOK(q) /\ enqueues'[q] = enqueues[q]
    BY DEF AInv, Memory
  <2>2. ASSUME NEW p \in Runtimes
        PROVE  /\ known'[p][q] # -1 => enqueues'[q] >= 1
               /\ journal'[q].state = "queued" => known'[p][q] <= 0
    BY <1>6, <1>7, <2>1 DEF KnownOK
  <2> QED BY <1>7, <2>1, <2>2 DEF KnownOK
<1>9. ASSUME NEW p \in Runtimes PROVE OutOK(p)'
  <2>1. CASE p = r
    BY <1>1, <1>6, <2>1 DEF OutOK, LockedOut
  <2>2. CASE p # r
    <3>1. LockedOut(p)' <=> LockedOut(p)
      BY <1>6, <1>7, <2>2 DEF LockedOut
    <3>2. holder' = p => holder = p
      BY <2>2, NobodyAssumption DEF Gone
    <3> QED BY <1>1, <2>2, <3>1, <3>2 DEF AInv, Memory, OutOK
  <2> QED BY <2>1, <2>2
<1>10. Memory'
  BY <1>6, <1>8, <1>9 DEF AInv, Memory
<1> QED BY <1>4, <1>5, <1>10 DEF Good

\* Crash: a CLI that was started may still reach the provider.
LEMMA CrashGood ==
  ASSUME AInv, StepOK, NEW r \in Runtimes, Crash(r)
  PROVE  Good
<1>1. /\ Gone(r) /\ journal' = [k \in Keys |-> Disowned(journal[k], r)]
      /\ UNCHANGED <<spawns, enqueues>>
  BY DEF Crash
<1>2. PICK reached \in SUBSET {k \in Keys : task[r][k].pc \in {"spawned", "run_spawned"}} :
        job' = [k \in Keys |-> IF k \in reached THEN "running" ELSE job[k]]
  BY DEF Crash
<1>3. ASSUME NEW q \in Keys PROVE JobGoes(q)
  <2>1. /\ task'[r][q].pc = "none"
        /\ \A p \in Runtimes \ {r} : task'[p] = task[p]
    BY <1>1, GoneFacts DEF AInv
  <2>2. CASE q \in reached
    <3>1. task[r][q].pc \in Spawned /\ job'[q] = "running"
      BY <1>2, <2>2 DEF Spawned
    <3> QED BY <2>1, <3>1, ReachesOnce DEF JobGoes, Spawned
  <2>3. CASE q \notin reached
    BY <1>2, <2>3 DEF JobGoes
  <2> QED BY <2>2, <2>3
<1>4. ASSUME NEW q \in Keys PROVE Lapses(journal[q], journal'[q])
  <2>1. journal[q] \in Recs /\ journal'[q] = Disowned(journal[q], r)
    BY <1>1 DEF AInv, IInv, Types
  <2> QED BY <2>1 DEF Lapses, Disowned, Recs
<1> QED BY <1>1, <1>3, <1>4, GoneGood

\* Dispose: what is queued is closed.
LEMMA DisposeGood ==
  ASSUME AInv, StepOK, NEW r \in Runtimes, Dispose(r)
  PROVE  Good
<1>1. /\ Gone(r) /\ UNCHANGED <<spawns, enqueues, job>>
      /\ journal' = [k \in Keys |->
           IF Reloaded[k].state = "queued" /\ Reloaded[k].owner = r
           THEN Closed(Reloaded[k], "failed")
           ELSE Disowned(IF Reloaded[k].poller = r THEN Unleased(Reloaded[k])
                         ELSE Reloaded[k], r)]
  BY DEF Dispose
<1>2. ASSUME NEW q \in Keys PROVE Lapses(journal[q], journal'[q])
  <2>1. Reloaded[q] \in Recs /\ Lapses(journal[q], Reloaded[q])
    BY RepairedRank, RepairedRecord DEF AInv, IInv, Types, Reloaded
  <2>2. \/ journal'[q] = Closed(Reloaded[q], "failed") /\ Reloaded[q].state = "queued"
        \/ journal'[q] = Disowned(Unleased(Reloaded[q]), r)
        \/ journal'[q] = Disowned(Reloaded[q], r)
    BY <1>1
  <2>3. /\ Closed(Reloaded[q], "failed").state = "failed"
        /\ Closed(Reloaded[q], "failed").phase = "none"
        /\ Closed(Reloaded[q], "failed").receipt = Reloaded[q].receipt
    BY <2>1, ClosedRecord DEF States
  <2>4. ASSUME NEW rec \in {Disowned(Unleased(Reloaded[q]), r), Disowned(Reloaded[q], r)}
        PROVE  /\ rec.state = Reloaded[q].state /\ rec.phase = Reloaded[q].phase
               /\ rec.receipt = Reloaded[q].receipt
    BY <2>1 DEF Disowned, Unleased, Recs
  <2> QED BY <2>1, <2>2, <2>3, <2>4 DEF Lapses
<1>3. \A q \in Keys : JobGoes(q)
  BY <1>1 DEF JobGoes
<1> QED BY <1>1, <1>2, <1>3, GoneGood

\* Leases of records, of the CLI and of requests lapse, the account changes,
\* runtimes start, jobs end.
LEMMA EnvironmentGood ==
  ASSUME AInv, StepOK,
         \/ Expiry \/ SwitchAccount
         \/ \E r \in Runtimes : Restart(r)
         \/ \E k \in Keys : JobEnds(k)
         \/ UNCHANGED vars
  PROVE  Good
<1>1. UNCHANGED <<known, task, holder, spawns, enqueues>>
  BY DEF Expiry, ExpireLease, ExpirePollLease, ExpireCliLease, ExpireRequest, SwitchAccount,
         Restart, JobEnds, Withdraw, journalVars, arbiterVars, ghostVars, vars
<1>2. \A q \in Keys : Lapses(journal[q], journal'[q])
  <2>1. ASSUME NEW k \in Keys, ExpireLease(k) \/ ExpirePollLease(k)
        PROVE  \A q \in Keys : Lapses(journal[q], journal'[q])
    <3>1. journal \in [Keys -> Recs]
      BY DEF AInv, IInv, Types
    <3>2. \/ journal' = [journal EXCEPT ![k].live = FALSE]
          \/ journal' = [journal EXCEPT ![k].pollLive = FALSE]
      BY <2>1 DEF ExpireLease, ExpirePollLease
    <3> QED BY <3>1, <3>2 DEF Lapses, Recs
  <2>2. journal' = journal => \A q \in Keys : Lapses(journal[q], journal'[q])
    BY DEF Lapses
  <2> QED BY <2>1, <2>2
    DEF Expiry, ExpireCliLease, ExpireRequest, SwitchAccount, Restart, JobEnds, Withdraw,
        journalVars, arbiterVars, vars
<1>3. \A q \in Keys : JobGoes(q)
  <2>1. ASSUME NEW k \in Keys, JobEnds(k) PROVE \A q \in Keys : JobGoes(q)
    BY <2>1 DEF JobEnds, JobGoes, Settled, AInv, IInv, Types
  <2>2. job' = job => \A q \in Keys : JobGoes(q)
    BY DEF JobGoes
  <2> QED BY <2>1, <2>2
    DEF Expiry, ExpireLease, ExpirePollLease, ExpireCliLease, ExpireRequest, SwitchAccount,
        Restart, Withdraw, arbiterVars, vars
<1>4. \A q \in Keys : Calm(q)
  BY <1>1, <1>2, <1>3 DEF Calm
<1> QED BY <1>1, <1>4, CalmStep

-----------------------------------------------------------------------------
(* The reconcilers. *)

\* What is polled has its receipt, and an end that was observed is one.
LEMMA PollsKept ==
  ASSUME AInv, StepOK, Good,
         \A p \in Runtimes : \/ poll'[p] = poll[p] \/ poll'[p].pc = "idle"
                            \/ PollOK(p)'
  PROVE  \A p \in Runtimes : PollOK(p)'
<1>1. ASSUME NEW p \in Runtimes PROVE PollOK(p)'
  <2>1. CASE poll'[p].pc = "idle"
    BY <2>1 DEF PollOK
  <2>2. CASE poll'[p] = poll[p] /\ poll[p].pc # "idle"
    <3>1. poll[p].key \in Keys /\ PollOK(p)
      BY <2>2 DEF AInv, IInv, Types
    <3>2. /\ KeyOK(poll[p].key) /\ Stays(poll[p].key) /\ JobGoes(poll[p].key)
          /\ journal[poll[p].key].receipt
      BY <2>2, <3>1 DEF AInv, IInv, StepOK, Good, PollOK
    <3>3. job[poll[p].key] \in Settled => job'[poll[p].key] = job[poll[p].key]
      BY <3>2 DEF JobGoes, KeyOK, ReceiptEnds, Settled
    <3> QED BY <2>2, <3>1, <3>2, <3>3 DEF PollOK, Stays
  <2>3. CASE PollOK(p)'
    BY <2>3
  <2> QED BY <2>1, <2>2, <2>3
<1> QED BY <1>1

\* Leasing a record, and giving the lease back.
LEMMA LeaseGood ==
  ASSUME AInv, StepOK, NEW k \in Keys, NEW rec, journal' = [journal EXCEPT ![k] = rec],
         rec.state = journal[k].state, rec.phase = journal[k].phase,
         rec.receipt = journal[k].receipt,
         UNCHANGED <<known, task, holder, spawns, enqueues, job>>
  PROVE  Good
<1>1. journal'[k] = rec /\ \A q \in Keys \ {k} : journal'[q] = journal[q]
  BY DEF AInv, IInv, Types
<1>2. \A q \in Keys : Calm(q)
  BY <1>1 DEF Calm, Lapses, JobGoes
<1> QED BY <1>2, CalmStep

\* ClaimDue.
LEMMA ClaimDueGood ==
  ASSUME AInv, StepOK, NEW r \in Runtimes, NEW k \in Keys, ClaimDue(r, k)
  PROVE  Good /\ \A p \in Runtimes : PollOK(p)'
<1>. DEFINE rec == [journal[k] EXCEPT !.poller = r, !.pollLive = TRUE]
            claimed == [NoPoll EXCEPT !.pc = "claimed", !.key = k]
<1>1. /\ journal' = [journal EXCEPT ![k] = rec] /\ poll' = [poll EXCEPT ![r] = claimed]
      /\ UNCHANGED <<known, task, holder, spawns, enqueues, job>>
      /\ journal[k].receipt
  BY DEF ClaimDue, Write, SetPoll, Eligible, ghostVars
<1>2. /\ rec.state = journal[k].state /\ rec.phase = journal[k].phase
      /\ rec.receipt = journal[k].receipt
  BY DEF AInv, IInv, Types, Recs
<1>3. claimed.pc = "claimed" /\ claimed.key = k
  BY DEF NoPoll
<1>. HIDE DEF rec, claimed
<1>4. Good
  BY <1>1, <1>2, LeaseGood
<1>5. poll'[r] = claimed /\ \A p \in Runtimes \ {r} : poll'[p] = poll[p]
  BY <1>1 DEF AInv, IInv, Types
<1>6. PollOK(r)'
  BY <1>1, <1>2, <1>3, <1>5 DEF PollOK, AInv, IInv, Types
<1> QED BY <1>4, <1>5, <1>6, PollsKept

\* AskForQuery, GetQuery, LoseQuery: the poll goes on with its record.
LEMMA QueryGood ==
  ASSUME AInv, StepOK, NEW r \in Runtimes,
         AskForQuery(r) \/ GetQuery(r) \/ LoseQuery(r) \/ QueryAnswers(r)
  PROVE  Good /\ \A p \in Runtimes : PollOK(p)'
<1>1. /\ UNCHANGED <<journal, known, task, holder, spawns, enqueues, job>>
      /\ poll[r].pc # "idle"
  BY DEF AskForQuery, GetQuery, LoseQuery, QueryAnswers, journalVars, ghostVars
<1>2. \A q \in Keys : Calm(q)
  BY <1>1 DEF Calm, Lapses, JobGoes
<1>3. Good
  BY <1>1, <1>2, CalmStep
<1>4. poll[r].key \in Keys /\ poll[r] \in Polls /\ poll \in [Runtimes -> Polls]
  BY <1>1 DEF AInv, IInv, Types
<1>5. /\ journal[poll[r].key].receipt
      /\ job[poll[r].key] # "none" /\ job[poll[r].key] \in JobStates
  BY <1>1, <1>4 DEF AInv, IInv, Types, PollOK, RecordOK, JobKnown
<1>6. \A p \in Runtimes \ {r} : poll'[p] = poll[p]
  BY <1>4 DEF AskForQuery, GetQuery, LoseQuery, QueryAnswers, SetPoll
<1>7. CASE ~QueryAnswers(r)
  <2>. DEFINE asked == [poll[r] EXCEPT !.pc = "waiting", !.session = session]
              running == [poll[r] EXCEPT !.pc = "running"]
              error == [poll[r] EXCEPT !.pc = "error"]
  <2>1. SetPoll(r, asked) \/ SetPoll(r, running) \/ SetPoll(r, error)
    BY <1>7 DEF AskForQuery, GetQuery, LoseQuery
  <2>2. /\ asked.key = poll[r].key /\ asked.pc = "waiting"
        /\ running.key = poll[r].key /\ running.pc = "running"
        /\ error.key = poll[r].key /\ error.pc = "error"
    BY <1>4 DEF Polls
  <2>. HIDE DEF asked, running, error
  <2>3. poll'[r].key = poll[r].key /\ poll'[r].pc \in {"waiting", "running", "error"}
    BY <1>4, <2>1, <2>2 DEF SetPoll
  <2>4. PollOK(r)'
    BY <1>1, <1>5, <2>3 DEF PollOK
  <2> QED BY <1>3, <1>6, <2>4, PollsKept
<1>8. CASE QueryAnswers(r)
  <2>1. PICK a \in Answers(poll[r].key) :
          SetPoll(r, IF IsCurrent(Polling(r))
                     THEN [poll[r] EXCEPT !.pc = "observed", !.answer = a]
                     ELSE [poll[r] EXCEPT !.pc = "error"])
    BY <1>8 DEF QueryAnswers
  <2>2. a # "processing" => a = job[poll[r].key] /\ job[poll[r].key] \in Settled
    BY <1>5 DEF Answers, JobStates, Settled
  <2>3. /\ poll'[r].key = poll[r].key
        /\ poll'[r].pc = "error" \/ (poll'[r].pc = "observed" /\ poll'[r].answer = a)
    BY <1>4, <2>1 DEF SetPoll, Polls
  <2>4. PollOK(r)'
    BY <1>1, <1>5, <2>2, <2>3 DEF PollOK
  <2> QED BY <1>3, <1>6, <2>4, PollsKept
<1> QED BY <1>7, <1>8

\* CommitObservation: an end is recorded that the provider told.
LEMMA CommitObservationGood ==
  ASSUME AInv, StepOK, NEW r \in Runtimes, CommitObservation(r)
  PROVE  Good
<1>. DEFINE k == poll[r].key
            answer == poll[r].answer
<1>1. /\ poll[r].pc = "observed"
      /\ UNCHANGED <<known, task, holder, spawns, enqueues, job>>
  BY DEF CommitObservation, ghostVars
<1>2. k \in Keys /\ journal[k] \in Recs /\ journal \in [Keys -> Recs]
  BY <1>1 DEF AInv, IInv, Types
<1>3. CASE ~Leased(r, k)
  <2>1. journal' = journal
    BY <1>3 DEF CommitObservation
  <2>2. \A q \in Keys : Calm(q)
    BY <1>1, <2>1 DEF Calm, Lapses, JobGoes
  <2> QED BY <1>1, <2>2, CalmStep
<1>4. CASE Leased(r, k)
  <2>1. PICK fetched \in BOOLEAN :
          journal' = [journal EXCEPT ![k] = Unleased(Observed(journal[k], answer, fetched))]
    BY <1>4 DEF CommitObservation, Write
  <2>2. /\ KeyOK(k) /\ RecordOK(k) /\ PollOK(r)
        /\ job[k] \in JobStates /\ spawns[k] \in Nat
    BY <1>2 DEF AInv, IInv, Types
  <2>3. /\ journal[k].receipt /\ journal[k].state \in {"accepted", "succeeded"}
        /\ journal[k].phase = "none"
    BY <1>4, <2>2, NobodyAssumption DEF Leased, KeyOK, ReceiptEnds, PhaseIsPending
  <2>4. /\ answer # "processing" => job[k] \in Settled /\ answer = job[k]
        /\ job[k] # "none" /\ spawns[k] > 0
        /\ journal[k].state = "succeeded" => job[k] \in Settled
    BY <1>1, <2>2, <2>3 DEF PollOK, RecordOK, JobKnown, Accounted, Begun
  <2>5. answer \in {"processing"} \cup Settled
    BY <2>4
  <2>. DEFINE seen == Observed(journal[k], answer, fetched)
              rec == Unleased(seen)
  <2>6. /\ seen \in Recs /\ seen.receipt /\ seen.phase = "none"
        /\ seen.state \in {"accepted", "succeeded", "failed", "cancelled"}
        /\ journal[k].state = "succeeded" => seen.state = "succeeded"
        /\ journal[k].state = "accepted" =>
             seen.state = IF answer = "processing" THEN "accepted"
                          ELSE Contract!Outcome(answer)
    <3>. HIDE DEF k, answer
    <3> QED BY <1>2, <2>3, <2>5, ObservedRecord DEF Contract!Outcome, Settled
  <2>. HIDE DEF seen
  <2>7. rec.state = seen.state /\ rec.receipt = seen.receipt /\ rec.phase = seen.phase
    BY <2>6 DEF Unleased, Recs
  <2>. HIDE DEF rec
  <2>8. journal'[k] = rec /\ \A q \in Keys \ {k} : journal'[q] = journal[q]
    BY <1>2, <2>1 DEF rec, seen
  <2>9. \A q \in Keys \ {k} : Calm(q)
    BY <1>1, <2>8 DEF Calm, Lapses, JobGoes
  <2>10. Settles(k)
    BY <1>1, <2>3, <2>4, <2>6, <2>7, <2>8 DEF Settles, JobGoes
  <2>11. /\ journal'[k].state \in Occupying => journal[k].state \in Occupying
         /\ journal'[k].state \notin {"absent", "queued"} /\ journal[k].state # "absent"
    BY <2>3, <2>6, <2>7, <2>8 DEF Occupying
  <2>. HIDE DEF k
  <2> QED BY <1>1, <1>2, <2>9, <2>10, <2>11, GoodStep
<1> QED BY <1>3, <1>4

\* CommitSyncError.
LEMMA CommitSyncErrorGood ==
  ASSUME AInv, StepOK, NEW r \in Runtimes, CommitSyncError(r)
  PROVE  Good
<1>. DEFINE k == poll[r].key
            rec == IF Leased(r, k) THEN Unleased(journal[k]) ELSE journal[k]
<1>1. /\ poll[r].pc = "error" /\ journal' = [journal EXCEPT ![k] = rec]
      /\ UNCHANGED <<known, task, holder, spawns, enqueues, job>>
  BY DEF CommitSyncError, Write, ghostVars
<1>2. k \in Keys /\ journal[k] \in Recs
  BY <1>1 DEF AInv, IInv, Types
<1>3. /\ rec.state = journal[k].state /\ rec.phase = journal[k].phase
      /\ rec.receipt = journal[k].receipt
  BY <1>2 DEF Unleased, Recs
<1>. HIDE DEF rec, k
<1> QED BY <1>1, <1>2, <1>3, LeaseGood

-----------------------------------------------------------------------------
(* The specification. *)

\* At first no key has a record, and nothing was started.
LEMMA InitiallyAccounted == Init => AInv
<1>. SUFFICES ASSUME Init PROVE AInv
  OBVIOUS
<1>1. IInv
  BY Initially
<1>2. /\ \A q \in Keys : /\ journal[q] = NoRecord /\ spawns[q] = 0 /\ enqueues[q] = 0
                         /\ job[q] = "none"
      /\ \A p \in Runtimes, q \in Keys : task[p][q] = NoTask /\ known[p][q] = -1
      /\ \A p \in Runtimes : poll[p] = NoPoll
      /\ holder = Nobody
  BY DEF Init
<1>3. NoTask.pc = "none" /\ NoPoll.pc = "idle"
  BY DEF NoTask, NoPoll
<1>4. \A q \in Keys : RecordOK(q)
  BY <1>2, <1>3, NewRecord
  DEF RecordOK, JobKnown, Accounted, RunPhase, Begun, Started, Runs, States
<1>5. \A p \in Runtimes : PollOK(p)
  BY <1>2, <1>3 DEF PollOK
<1>6. Memory
  <2>1. known \in [Runtimes -> [Keys -> -1 .. 1]] /\ enqueues \in [Keys -> Nat]
    BY DEF Init
  <2>2. \A q \in Keys : KnownOK(q)
    BY <1>2, NewRecord DEF KnownOK
  <2>3. \A p \in Runtimes : OutOK(p)
    BY <1>2, <1>3 DEF OutOK, LockedOut
  <2> QED BY <2>1, <2>2, <2>3 DEF Memory
<1>7. SlotsOK
  <2>1. Slots = {}
    BY <1>2, NewRecord DEF Slots, Occupying
  <2>2. Cardinality(Slots) = 0
    BY <2>1, FS_EmptySet
  <2> QED BY <2>2, BoundsAssumption DEF SlotsOK
<1> QED BY <1>1, <1>4, <1>5, <1>6, <1>7 DEF AInv

\* Every step keeps the accounts and the contract, and what is polled.
LEMMA EveryStepIsGood ==
  ASSUME SubmittedOnce, LockInTime, AInv, [Next]_vars
  PROVE  AInv' /\ Good
<1>1. IInv /\ StepOK /\ IInv'
  BY EveryStep DEF AInv, StepOK, IInv
<1>2. ASSUME NEW r \in Runtimes, NEW k \in Keys,
             \/ Enqueue(r, k) \/ Submit(r, k) \/ RunBegin(r, k) \/ Run(r, k)
             \/ FailBeforeCli(r, k) \/ FailToSpawn(r, k) \/ Abort(r, k)
             \/ Cancel(r, k) \/ Delete(r, k)
      PROVE  Good /\ poll' = poll
  <2>1. Good
    BY <1>1, <1>2, EnqueueGood, ReserveGood, WaitGood, CommitFenceGood, SpawnGood,
       AnswerGood, CommitReceiptGood, CommitFailureGood, FailTaskGood,
       TransactionDeniedGood,
       RunBeginGood, RunSpawnGood, RunRefusedGood, RunEndsGood, AbortGood, CancelGood,
       DeleteGood
    DEF Submit, Run
  <2>2. poll' = poll
    BY <1>2 DEF Enqueue, Submit, RunBegin, Run, FailBeforeCli, FailToSpawn, Abort, Cancel,
       Delete, Reserve, AskForCli, GetCli, LoseCli, CommitFence, Spawn, Answer,
       CommitReceipt, CommitFailure, FailTask, TransactionDenied, RunSpawn, RunRefused,
       RunEnds
  <2> QED BY <2>1, <2>2
<1>3. ASSUME NEW r \in Runtimes,
             Load(r) \/ Crash(r) \/ Dispose(r) \/ CommitObservation(r) \/ CommitSyncError(r)
      PROVE  /\ Good
             /\ \A p \in Runtimes : poll'[p] = poll[p] \/ poll'[p].pc = "idle"
  <2>1. Good
    BY <1>1, <1>3, LoadGood, CrashGood, DisposeGood, CommitObservationGood,
       CommitSyncErrorGood
  <2>2. poll' = poll \/ poll' = [poll EXCEPT ![r] = NoPoll]
    BY <1>3 DEF Load, Crash, Dispose, Gone, CommitObservation, CommitSyncError, SetPoll
  <2>3. poll \in [Runtimes -> Polls] /\ NoPoll.pc = "idle"
    BY <1>1 DEF IInv, Types, NoPoll
  <2> QED BY <2>1, <2>2, <2>3
<1>4. CASE \/ Expiry \/ SwitchAccount \/ UNCHANGED vars
           \/ \E r \in Runtimes : Restart(r)
           \/ \E k \in Keys : JobEnds(k)
  <2>1. Good
    BY <1>1, <1>4, EnvironmentGood
  <2>2. poll' = poll
    BY <1>4 DEF Expiry, ExpireLease, ExpirePollLease, ExpireCliLease, ExpireRequest,
       SwitchAccount, Restart, JobEnds, vars
  <2>3. \A p \in Runtimes : PollOK(p)'
    BY <1>1, <2>1, <2>2, PollsKept
  <2> QED BY <1>1, <2>1, <2>3 DEF AInv, Good
<1>5. CASE \E r \in Runtimes, k \in Keys :
             \/ Enqueue(r, k) \/ Submit(r, k) \/ RunBegin(r, k) \/ Run(r, k)
             \/ FailBeforeCli(r, k) \/ FailToSpawn(r, k) \/ Abort(r, k)
             \/ Cancel(r, k) \/ Delete(r, k)
  <2>1. Good /\ poll' = poll
    BY <1>2, <1>5
  <2>2. \A p \in Runtimes : PollOK(p)'
    BY <1>1, <2>1, PollsKept
  <2> QED BY <1>1, <2>1, <2>2 DEF AInv, Good
<1>6. CASE \E r \in Runtimes : Load(r) \/ Reconcile(r) \/ Crash(r) \/ Dispose(r)
  <2>1. PICK r \in Runtimes : Load(r) \/ Reconcile(r) \/ Crash(r) \/ Dispose(r)
    BY <1>6
  <2>2. CASE \/ \E k \in Keys : ClaimDue(r, k)
             \/ AskForQuery(r) \/ GetQuery(r) \/ LoseQuery(r) \/ QueryAnswers(r)
    <3>1. Good /\ \A p \in Runtimes : PollOK(p)'
      BY <1>1, <2>2, ClaimDueGood, QueryGood
    <3> QED BY <1>1, <3>1 DEF AInv, Good
  <2>3. CASE Load(r) \/ Crash(r) \/ Dispose(r) \/ CommitObservation(r) \/ CommitSyncError(r)
    <3>1. /\ Good
          /\ \A p \in Runtimes : poll'[p] = poll[p] \/ poll'[p].pc = "idle"
      BY <1>3, <2>3
    <3>2. \A p \in Runtimes : PollOK(p)'
      BY <1>1, <3>1, PollsKept
    <3> QED BY <1>1, <3>1, <3>2 DEF AInv, Good
  <2> QED BY <2>1, <2>2, <2>3 DEF Reconcile
<1> QED BY <1>4, <1>5, <1>6 DEF Next

(***************************************************************************)
(* The invariant: what was started has a record, and the records that hold *)
(* a slot are no more than there are slots.                                *)
(***************************************************************************)
THEOREM EverythingIsAccounted ==
  ASSUME SubmittedOnce, LockInTime
  PROVE  Spec => []AInv
<1>1. AInv /\ [Next]_vars => AInv'
  BY EveryStepIsGood
<1> QED BY <1>1, InitiallyAccounted, PTL DEF Spec

(***************************************************************************)
(* What was started is accounted for: its record is never back in the      *)
(* queue, withdrawn or deleted, and it is failed or cancelled only because *)
(* the provider said so.                                                   *)
(***************************************************************************)
THEOREM StartedStaysAccounted ==
  ASSUME SubmittedOnce, LockInTime
  PROVE  Spec => []StartedIsAccounted
<1>1. AInv => StartedIsAccounted
  BY DEF AInv, RecordOK, Accounted, Begun, Settled, StartedIsAccounted
<1> QED BY <1>1, EverythingIsAccounted, PTL

(***************************************************************************)
(* The official slots are not oversubscribed by the jobs of the provider   *)
(* and the submissions that run, whichever runtimes count the slots.       *)
(***************************************************************************)
THEOREM SlotsAreEnough ==
  ASSUME SubmittedOnce, LockInTime
  PROVE  Spec => []SlotsSuffice
<1>1. ASSUME AInv PROVE SlotsSuffice
  <2>. DEFINE F == {k \in Keys : InFlight(k)}
  <2>1. ASSUME NEW k \in Keys, InFlight(k) PROVE journal[k].state \in Occupying
    <3>1. RecordOK(k) /\ KeyOK(k) /\ spawns[k] \in Nat
      BY <1>1 DEF AInv, IInv, Types
    <3>2. spawns[k] > 0
      BY <2>1, <3>1 DEF InFlight, RecordOK, JobKnown, Started
    <3>3. journal[k].state \in {"pending", "accepted", "unknown", "failed", "cancelled",
                                "succeeded"}
      BY <3>1, <3>2 DEF RecordOK, Accounted, Begun, States
    <3>4. journal[k].state \notin {"failed", "cancelled", "succeeded"}
      BY <2>1, <3>1, <3>2
      DEF RecordOK, Accounted, Begun, KeyOK, ReceiptEnds, NoTaskFor, InFlight, Settled
    <3> QED BY <3>3, <3>4 DEF Occupying
  <2>2. F \subseteq Slots
    BY <2>1 DEF Slots
  <2>3. Cardinality(F) <= Cardinality(Slots) /\ Cardinality(F) \in Nat
    BY <2>2, SlotsAreFinite, FS_Subset, FS_CardinalityType
  <2> QED BY <1>1, <2>3, SlotsAreFinite DEF AInv, SlotsOK, SlotsSuffice
<1> QED BY <1>1, EverythingIsAccounted, PTL

(***************************************************************************)
(* All runtimes together keep the contract of one submission per key.  It  *)
(* is started once; while it was not, it can be withdrawn; what was        *)
(* started is accepted and then ends as the provider's job did, or its     *)
(* outcome stays unknown.                                                  *)
(***************************************************************************)
THEOREM ContractKept ==
  ASSUME SubmittedOnce, LockInTime
  PROVE  Spec => KeepsContract
<1>1. Init => Contract!CInit
  <2>. SUFFICES ASSUME Init PROVE Contract!CInit
    OBVIOUS
  <2>1. /\ \A k \in Keys : StageOf(journal[k]) = "free"
        /\ \A k \in Keys : (spawns[k] > 0) = FALSE
        /\ job = [k \in Keys |-> "none"]
    BY NewRecord DEF Init, StageOf
  <2> QED BY <2>1 DEF Contract!CInit
<1>2. ASSUME AInv, AInv', [Next]_vars, Good PROVE Contract!CNext
  <2>1. \A k \in Keys : StageOf(journal'[k]) \in Contract!Stages
    BY <1>2 DEF AInv, RecordOK, States, StageOf, Contract!Stages
  <2>2. [k \in Keys |-> StageOf(journal[k])]' \in [Keys -> Contract!Stages]
    BY <2>1
  <2>3. [k \in Keys |-> spawns[k] > 0]' \in [Keys -> BOOLEAN]
    OBVIOUS
  <2>4. job' \in [Keys -> Contract!Jobs]
    BY <1>2 DEF AInv, IInv, Types, JobStates, Contract!Jobs
  <2>5. ASSUME NEW k \in Keys PROVE Contract!JobStep(k)
    <3>1. JobGoes(k)
      BY <1>2 DEF Good
    <3>2. CASE job'[k] = job[k]
      BY <3>2 DEF Contract!JobStep
    <3>3. CASE job[k] = "running" /\ job'[k] \in Settled
      BY <3>3 DEF Contract!JobStep, Settled
    <3>4. CASE job[k] = "none" /\ job'[k] = "running" /\ spawns[k] > 0
      <4>1. [q \in Keys |-> spawns[q] > 0][k]
        BY <3>4, ContractVariables
      <4> QED BY <3>4, <4>1 DEF Contract!JobStep
    <3> QED BY <3>1, <3>2, <3>3, <3>4 DEF JobGoes
  <2>6. \A k \in Keys : Contract!KeyStep(k)
    BY <1>2 DEF Good
  <2> QED BY <2>2, <2>3, <2>4, <2>5, <2>6 DEF Contract!CNext
<1>3. AInv /\ AInv' /\ [Next]_vars => [Contract!CNext]_(Contract!cvars)
  BY <1>2, EveryStepIsGood
<1> QED BY <1>1, <1>3, EverythingIsAccounted, PTL DEF Spec, KeepsContract, Contract!CSpec
=============================================================================
