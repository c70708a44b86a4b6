------------------------- MODULE DreaminaStateFile -------------------------
(***************************************************************************)
(* The state file of the local Dreamina runtime and the lock directory     *)
(* that guards it (canvas-agent/src/dreamina-cli-state.ts).  Several       *)
(* runtime processes of one user rewrite the same file.  The lock is a     *)
(* directory that holds a lease file with a nonce; its owner refreshes the *)
(* lease file's time, and a lease that was not refreshed for LOCK_STALE_MS *)
(* may be taken over.  A content of the file is the set of the writes that *)
(* it contains, a write is named by the nonce of its lease.                *)
(***************************************************************************)
EXTENDS Naturals, FiniteSets

CONSTANTS
  Procs,            \* the processes that share the file
  MaxNonces,        \* bound: how many leases are ever written
  Faults,           \* what may go wrong: a subset of {"crash", "io"}
  MaxCrashes,       \* bound: how many times a process dies
  Withdrawals,      \* the writes that take a record out of the journal
  Absent            \* no such file

ASSUME ProcsAssumption == IsFiniteSet(Procs)
ASSUME BoundAssumption == MaxNonces \in Nat /\ MaxCrashes \in Nat
ASSUME WithdrawalsAssumption == Withdrawals \subseteq 1 .. MaxNonces
ASSUME FaultsAssumption == Faults \subseteq {"crash", "io"}
ASSUME AbsentAssumption == \A c \in SUBSET (1 .. MaxNonces) : Absent # c

Nonces   == 1 .. MaxNonces
Free     == 0             \* no lock directory
Unnamed  == 0             \* a directory without a lease file names nobody
Locks    == Nonces \cup {Free}
Contents == SUBSET Nonces

(***************************************************************************)
(* Where a process stands.  The steps whose name ends in ing have just     *)
(* seen that the lease is theirs and act on the file next.                 *)
(***************************************************************************)
Acting == {"recovering", "dropping", "replacing", "moving", "installing",
           "clearing", "restoring"}
Owning == Acting \cup {"recover", "read", "replace", "fallback", "install",
                       "clear", "finish", "restore", "release", "releasing"}
Pcs    == Owning \cup {"idle", "lease", "takeover", "moved", "putback",
                       "released", "dead"}

VARIABLES
  overwrites,  \* whether a rename replaces an existing file (not on Windows)
  lock,        \* the lock directory: Free, or the nonce it was made for
  leased,      \* the nonces whose lease file has been written
  stale,       \* the locks that were not refreshed for LOCK_STALE_MS
  nextNonce,   \* the next nonce
  primary,     \* the state file: Absent or its content
  backup,      \* the .replace-backup beside it
  crashes,     \* how many processes died so far
  acked,       \* the writes whose caller was told that they succeeded
  pc,          \* pc[p]: where process p stands
  nonce,       \* nonce[p]: the nonce of p's lease, 0 when it has none
  held,        \* held[p]: the nonce that p read before it renamed the lock
  aside,       \* aside[p]: the lock that p renamed away
  payload      \* payload[p]: the content that p is going to write

worldVars == <<overwrites, crashes>>
lockVars == <<lock, leased, stale, nextNonce, worldVars>>
fileVars == <<primary, backup, acked>>
vars == <<overwrites, crashes, lock, leased, stale, nextNonce, primary, backup,
          acked, pc, nonce, held, aside, payload>>

Init ==
  /\ overwrites \in BOOLEAN
  /\ crashes = 0
  /\ lock = Free /\ leased = {} /\ stale = {} /\ nextNonce = 1
  /\ primary = {} /\ backup = Absent /\ acked = {}
  /\ pc = [p \in Procs |-> "idle"]
  /\ nonce = [p \in Procs |-> 0]
  /\ held = [p \in Procs |-> Free]
  /\ aside = [p \in Procs |-> Free]
  /\ payload = [p \in Procs |-> {}]

Owned(p) == lock = nonce[p] /\ lock \in leased
Named(l) == IF l \in leased THEN l ELSE Unnamed

Go(p, where) == pc' = [pc EXCEPT ![p] = where]

\* assertProgression: the file may follow the backup if it has all its writes
\* and lacks none of its records.
Progressed == /\ backup \subseteq primary
              /\ (primary \ backup) \cap Withdrawals = {}

-----------------------------------------------------------------------------
(***************************************************************************)
(* acquireStateLock and takeoverStaleLease.                                *)
(***************************************************************************)
MakeDirectory(p) ==
  /\ pc[p] = "idle" /\ lock = Free /\ nextNonce <= MaxNonces
  /\ lock' = nextNonce
  /\ nonce' = [nonce EXCEPT ![p] = nextNonce]
  /\ nextNonce' = nextNonce + 1
  /\ Go(p, "lease")
  /\ UNCHANGED <<leased, stale, worldVars, held, aside, payload, fileVars>>

\* The write goes to whatever directory is there now: without one it fails,
\* and over a lease file it fails as well and the directory is removed.
WriteLease(p) ==
  /\ pc[p] = "lease"
  /\ IF lock # Free /\ lock \notin leased
     THEN /\ lock' = nonce[p] /\ leased' = leased \cup {nonce[p]}
          /\ Go(p, "recover") /\ UNCHANGED nonce
     ELSE /\ lock' = Free /\ UNCHANGED leased
          /\ Go(p, "idle") /\ nonce' = [nonce EXCEPT ![p] = 0]
  /\ UNCHANGED <<stale, nextNonce, worldVars, held, aside, payload, fileVars>>

\* Mutant: a lock without a lease file is left alone.
ObserveStaleLease(p) ==
  /\ pc[p] = "idle" /\ lock # Free /\ lock \in stale /\ lock \in leased
  /\ held' = [held EXCEPT ![p] = Named(lock)]
  /\ Go(p, "takeover")
  /\ UNCHANGED <<lockVars, nonce, aside, payload, fileVars>>

ObserveStale(p) ==
  /\ pc[p] = "idle" /\ lock # Free /\ lock \in stale
  /\ held' = [held EXCEPT ![p] = Named(lock)]
  /\ Go(p, "takeover")
  /\ UNCHANGED <<lockVars, nonce, aside, payload, fileVars>>

RenameAside(p, from, to) ==
  /\ pc[p] = from
  /\ aside' = [aside EXCEPT ![p] = lock]
  /\ lock' = Free
  /\ Go(p, IF lock = Free THEN "idle" ELSE to)
  /\ nonce' = [nonce EXCEPT ![p] = IF lock = Free THEN 0 ELSE @]
  /\ UNCHANGED <<leased, stale, nextNonce, worldVars, held, payload,
                 fileVars>>

\* Mutant: what was moved is removed without a second look.
CheckTakenOverBlindly(p) ==
  /\ pc[p] = "moved"
  /\ Go(p, "idle")
  /\ aside' = [aside EXCEPT ![p] = Free]
  /\ held' = [held EXCEPT ![p] = Unnamed]
  /\ UNCHANGED <<lockVars, nonce, payload, fileVars>>

\* What was moved is removed only if it is what was observed and still stale.
CheckTakenOver(p) ==
  /\ pc[p] = "moved"
  /\ IF Named(aside[p]) = held[p] /\ aside[p] \in stale
     THEN Go(p, "idle") /\ aside' = [aside EXCEPT ![p] = Free]
     ELSE Go(p, "putback") /\ UNCHANGED aside
  /\ held' = [held EXCEPT ![p] = Unnamed]
  /\ UNCHANGED <<lockVars, nonce, payload, fileVars>>

\* A rename replaces a directory that is still empty, and fails otherwise.
PutBack(p) ==
  /\ pc[p] = "putback"
  /\ lock' = IF lock \in leased \/ (lock # Free /\ ~overwrites)
             THEN lock ELSE aside[p]
  /\ aside' = [aside EXCEPT ![p] = Free]
  /\ nonce' = [nonce EXCEPT ![p] = 0]
  /\ Go(p, "idle")
  /\ UNCHANGED <<leased, stale, nextNonce, worldVars, held, payload,
                 fileVars>>

-----------------------------------------------------------------------------
(***************************************************************************)
(* assertOwned: a step of the owner goes on only if the lock still holds   *)
(* its nonce; the owner notices, and acts, in two steps.                   *)
(***************************************************************************)
Check(p, from, to) ==
  /\ pc[p] = from
  /\ Go(p, IF Owned(p) THEN to ELSE "release")
  /\ UNCHANGED <<lockVars, nonce, held, aside, payload, fileVars>>

\* Mutant: a file without its original is taken for a new one.
RecoverNothing(p) ==
  /\ pc[p] = "recover"
  /\ Go(p, IF ~Owned(p) THEN "release"
           ELSE IF backup = Absent \/ primary = Absent THEN "read"
           ELSE IF Progressed THEN "dropping" ELSE "release")
  /\ UNCHANGED <<lockVars, nonce, held, aside, payload, fileVars>>

\* recoverStateReplacement: a backup without a file is what a crash left
\* half way; beside a file it is what the replacement did not clear.
Recover(p) ==
  /\ pc[p] = "recover"
  /\ Go(p, IF ~Owned(p) THEN "release"
           ELSE IF backup = Absent THEN "read"
           ELSE IF primary = Absent THEN "recovering"
           ELSE IF Progressed THEN "dropping" ELSE "release")
  /\ UNCHANGED <<lockVars, nonce, held, aside, payload, fileVars>>

RenameBackup(p, from, to) ==
  /\ pc[p] = from
  /\ IF backup # Absent /\ (overwrites \/ primary = Absent)
     THEN primary' = backup /\ backup' = Absent /\ Go(p, to)
     ELSE UNCHANGED <<primary, backup>> /\ Go(p, "release")
  /\ UNCHANGED <<lockVars, nonce, held, aside, payload, acked>>

RemoveBackup(p, from, to) ==
  /\ pc[p] = from
  /\ backup' = Absent
  /\ Go(p, to)
  /\ UNCHANGED <<lockVars, nonce, held, aside, payload, primary, acked>>

\* Mutant: the transaction writes what it had in memory.
ReadNothing(p) ==
  /\ pc[p] = "read"
  /\ payload' = [payload EXCEPT ![p] = {nonce[p]}]
  /\ Go(p, "replace")
  /\ UNCHANGED <<lockVars, nonce, held, aside, fileVars>>

\* The transaction reads the file and adds its own write to what it read.
Read(p) ==
  /\ pc[p] = "read"
  /\ payload' = [payload EXCEPT ![p] =
       (IF primary = Absent THEN {} ELSE primary) \cup {nonce[p]}]
  /\ Go(p, "replace")
  /\ UNCHANGED <<lockVars, nonce, held, aside, fileVars>>

\* replaceStateFile: one rename where that overwrites, otherwise the file is
\* moved to the backup, the new one installed and the backup removed.
Replace(p) ==
  /\ pc[p] = "replacing"
  /\ IF overwrites \/ primary = Absent
     THEN primary' = payload[p] /\ Go(p, "finish")
     ELSE UNCHANGED primary /\ Go(p, "fallback")
  /\ UNCHANGED <<lockVars, nonce, held, aside, payload, backup, acked>>

Fallback(p) ==
  /\ pc[p] = "fallback"
  /\ Go(p, IF Owned(p) /\ backup = Absent THEN "moving" ELSE "release")
  /\ UNCHANGED <<lockVars, nonce, held, aside, payload, fileVars>>

MoveToBackup(p) ==
  /\ pc[p] = "moving"
  /\ IF primary # Absent
     THEN backup' = primary /\ primary' = Absent /\ Go(p, "install")
     ELSE UNCHANGED <<primary, backup>> /\ Go(p, "restore")
  /\ UNCHANGED <<lockVars, nonce, held, aside, payload, acked>>

Install(p) ==
  /\ pc[p] = "installing"
  /\ IF primary = Absent
     THEN primary' = payload[p] /\ Go(p, "clear")
     ELSE UNCHANGED primary /\ Go(p, "restore")
  /\ UNCHANGED <<lockVars, nonce, held, aside, payload, backup, acked>>

\* restoreBackup: after an error, and only while the lease is still owned.
Restore(p) ==
  /\ pc[p] = "restore"
  /\ Go(p, IF Owned(p) /\ primary = Absent /\ backup # Absent
           THEN "restoring" ELSE "release")
  /\ UNCHANGED <<lockVars, nonce, held, aside, payload, fileVars>>

\* The last assertOwned: the caller learns that its write succeeded.
Finish(p) ==
  /\ pc[p] = "finish"
  /\ acked' = IF Owned(p) THEN acked \cup {nonce[p]} ELSE acked
  /\ Go(p, "release")
  /\ UNCHANGED <<lockVars, nonce, held, aside, payload, primary, backup>>

\* The release of createLease reads the nonce, renames and reads it again.
Release(p) ==
  /\ pc[p] = "release"
  /\ Go(p, IF Owned(p) THEN "releasing" ELSE "idle")
  /\ nonce' = [nonce EXCEPT ![p] = IF Owned(p) THEN @ ELSE 0]
  /\ payload' = [payload EXCEPT ![p] = {}]
  /\ UNCHANGED <<lockVars, held, aside, fileVars>>

CheckReleased(p) ==
  /\ pc[p] = "released"
  /\ IF aside[p] = nonce[p]
     THEN /\ Go(p, "idle")
          /\ aside' = [aside EXCEPT ![p] = Free]
          /\ nonce' = [nonce EXCEPT ![p] = 0]
     ELSE Go(p, "putback") /\ UNCHANGED <<aside, nonce>>
  /\ UNCHANGED <<lockVars, held, payload, fileVars>>

-----------------------------------------------------------------------------
(***************************************************************************)
(* Time and faults.                                                        *)
(***************************************************************************)
\* The owner refreshes its lease every LOCK_REFRESH_MS, and LOCK_STALE_MS
\* outlasts any transaction or take-over that is under way: a lease grows
\* stale only when nobody is left to refresh it and nobody is at work.
Orphaned(n) ==
  \A p \in Procs : ~(nonce[p] = n /\ pc[p] \in Owning \cup {"lease"})

GrowStale ==
  /\ lock # Free /\ lock \notin stale
  /\ \A p \in Procs : pc[p] \in {"idle", "dead"}
  /\ stale' = stale \cup {lock}
  /\ UNCHANGED <<lock, leased, nextNonce, worldVars, fileVars, pc, nonce, held,
                 aside, payload>>

\* A process dies; its lock and its files stay as they are.
Crash(p) ==
  /\ "crash" \in Faults /\ pc[p] \notin {"idle", "dead"}
  /\ crashes < MaxCrashes
  /\ crashes' = crashes + 1
  /\ Go(p, "dead")
  /\ nonce' = [nonce EXCEPT ![p] = 0]
  /\ held' = [held EXCEPT ![p] = Unnamed]
  /\ aside' = [aside EXCEPT ![p] = Free]
  /\ payload' = [payload EXCEPT ![p] = {}]
  /\ UNCHANGED <<overwrites, lock, leased, stale, nextNonce, fileVars>>

\* Starting a process takes longer than one file operation of another, the
\* one that writes a lease into a new directory included.
Restart(p) ==
  /\ pc[p] = "dead" /\ \A q \in Procs : pc[q] \notin Acting \cup {"lease"}
  /\ Go(p, "idle")
  /\ UNCHANGED <<lockVars, nonce, held, aside, payload, fileVars>>

\* An operation on the file fails although the lease is owned.
FailIO(p) ==
  /\ "io" \in Faults /\ pc[p] \in Acting
  /\ Go(p, IF pc[p] \in {"moving", "installing", "clearing"} THEN "restore"
           ELSE "release")
  /\ UNCHANGED <<lockVars, nonce, held, aside, payload, fileVars>>

-----------------------------------------------------------------------------
TakeOver(p) ==
  \/ ObserveStale(p)
  \/ RenameAside(p, "takeover", "moved")
  \/ CheckTakenOver(p)
  \/ PutBack(p)

Transaction(p) ==
  \/ WriteLease(p) \/ Recover(p)
  \/ RenameBackup(p, "recovering", "read")
  \/ RemoveBackup(p, "dropping", "read")
  \/ Read(p) \/ Check(p, "replace", "replacing") \/ Replace(p)
  \/ Fallback(p) \/ MoveToBackup(p)
  \/ Check(p, "install", "installing") \/ Install(p)
  \/ Check(p, "clear", "clearing") \/ RemoveBackup(p, "clearing", "finish")
  \/ Restore(p) \/ RenameBackup(p, "restoring", "release")
  \/ Finish(p)
  \/ Release(p) \/ RenameAside(p, "releasing", "released") \/ CheckReleased(p)

Next ==
  \/ \E p \in Procs : MakeDirectory(p) \/ TakeOver(p) \/ Transaction(p)
  \/ GrowStale
  \/ \E p \in Procs : Crash(p) \/ Restart(p) \/ FailIO(p)

Spec == Init /\ [][Next]_vars

FairSpec ==
  /\ Spec
  /\ WF_vars(GrowStale)
  /\ \A p \in Procs : WF_vars(Transaction(p)) /\ WF_vars(TakeOver(p) \/ Restart(p))

-----------------------------------------------------------------------------
TypeOK ==
  /\ overwrites \in BOOLEAN /\ crashes \in 0 .. MaxCrashes
  /\ lock \in Locks /\ leased \subseteq Nonces /\ stale \subseteq Nonces
  /\ nextNonce \in 1 .. MaxNonces + 1
  /\ primary \in Contents \cup {Absent} /\ backup \in Contents \cup {Absent}
  /\ acked \subseteq Nonces
  /\ pc \in [Procs -> Pcs]
  /\ nonce \in [Procs -> 0 .. MaxNonces]
  /\ held \in [Procs -> Locks] /\ aside \in [Procs -> Locks]
  /\ payload \in [Procs -> Contents]

\* What the next owner of the lock finds.
Stored == IF primary # Absent THEN primary
          ELSE IF backup # Absent THEN backup ELSE {}

(***************************************************************************)
(* "The fixed backup leaves a recoverable state at every interruption      *)
(* point": a write that was acknowledged is in what the next owner reads,  *)
(* whichever process dies, and wherever.                                   *)
(***************************************************************************)
AckedSurvives == acked \subseteq Stored

(***************************************************************************)
(* However often they are interrupted, the processes together rewrite the  *)
(* file as DurableWrites promises: a transaction takes effect in one step, *)
(* over all that was stored, and no recovery takes a write back, be it     *)
(* acknowledged or not.                                                    *)
(***************************************************************************)
Durable == INSTANCE DurableWrites WITH
             Writes <- Nonces, stored <- Stored, confirmed <- acked

WritesAreAtomic == Durable!DSpec

(***************************************************************************)
(* "... and is manipulated only while this lease is owned": no two         *)
(* processes act on the state file and its backup at the same time.        *)
(***************************************************************************)
OneWriter ==
  \A p, q \in Procs : pc[p] \in Acting /\ pc[q] \in Acting => p = q

(***************************************************************************)
(* Recovery never meets a backup that has a write which the file lacks:    *)
(* dropping it would lose that write, and recovery would refuse it.        *)
(***************************************************************************)
BackupIsOlder == primary # Absent /\ backup # Absent => backup \subseteq primary

(***************************************************************************)
(* Recovery can go on from every interruption.  NOT an invariant of the    *)
(* code: a process that dies between installing a write that withdraws a   *)
(* record and removing the backup leaves a pair that assertProgression     *)
(* refuses for ever.                                                       *)
(***************************************************************************)
Recoverable == primary # Absent /\ backup # Absent => Progressed

(***************************************************************************)
(* The lock of a process that died does not block the others for ever:     *)
(* it grows stale and one of those that wait takes it over.                *)
(***************************************************************************)
OrphanedLockGoes ==
  \A n \in Nonces : (lock = n /\ Orphaned(n)) ~> (lock # n)
=============================================================================
