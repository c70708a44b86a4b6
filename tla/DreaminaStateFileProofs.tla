----------------------- MODULE DreaminaStateFileProofs -----------------------
(***************************************************************************)
(* Proofs about DreaminaStateFile, for any leases, crashes and failing     *)
(* file operations: of two processes that share the state file one writes  *)
(* at a time, no write that was acknowledged is lost, and the file is what *)
(* DurableWrites promises.                                                 *)
(***************************************************************************)
EXTENDS DreaminaStateFile, TLAPS

\* Who has a lease, or is about to write one, and who holds a directory that
\* it renamed away.
Bearing  == Owning \cup {"lease"}
Carrying == {"moved", "putback", "released"}

\* A nonce is used once, and the lease of one that is at work is fresh.
NoncesOK ==
  /\ lock < nextNonce
  /\ \A n \in stale \cup leased : 0 < n /\ n < nextNonce
  /\ \A p \in Procs : nonce[p] < nextNonce /\ aside[p] < nextNonce
  /\ \A p, q \in Procs : nonce[p] # 0 /\ nonce[p] = nonce[q] => p = q

BearerOK(p) ==
  /\ pc[p] \in Bearing => nonce[p] # 0 /\ nonce[p] \notin stale
  /\ pc[p] \in Owning => nonce[p] \in leased
  /\ pc[p] = "lease" => nonce[p] \notin leased

\* While the lock is stale nobody is at work but those that take it over.
QuietWhenStale ==
  lock \in stale => \A p \in Procs : pc[p] \in {"idle", "dead", "takeover"}

\* Only what was observed is found stale again: what is put back is fresh.
CarrierOK(p) ==
  /\ pc[p] = "takeover" /\ lock \in stale => Named(lock) = held[p]
  /\ pc[p] \in Carrying => aside[p] # Free
  /\ pc[p] = "moved" /\ aside[p] \in stale => Named(aside[p]) = held[p]
  /\ pc[p] \in {"putback", "released"} => aside[p] \notin stale

\* Whoever acts has the lock, or the other one has it aside or died with it.
ActorOK(p, q) ==
  pc[p] \in Acting =>
    \/ lock = nonce[p] /\ pc[q] \notin Acting \cup {"lease"}
    \/ lock = Free /\ (pc[q] = "dead" \/ (pc[q] \in Carrying /\ aside[q] = nonce[p]))

\* While p writes its lease, the other one is not at work, will find its own
\* lease gone, and leaves or puts back some directory before it makes one.
LeaserOK(p, q) ==
  pc[p] = "lease" =>
    /\ pc[q] \notin Acting \cup {"lease"}
    /\ pc[q] \in Owning => lock # nonce[q]
    /\ \/ lock # Free
       \/ pc[q] \in {"dead", "putback"}
       \/ pc[q] = "moved" /\ aside[q] \notin stale
       \/ pc[q] = "released" /\ aside[q] # nonce[q]

PairOK(p, q) == p # q => ActorOK(p, q) /\ LeaserOK(p, q)

LockOK ==
  /\ NoncesOK /\ QuietWhenStale
  /\ \A p \in Procs : BearerOK(p) /\ CarrierOK(p)
  /\ \A p, q \in Procs : PairOK(p, q)

\* The directory of p is the lock, or somebody may put it back.
Reachable(p) ==
  \/ lock = nonce[p]
  \/ \E q \in Procs : pc[q] \in Carrying /\ aside[q] = nonce[p]

\* What the owner knows of the file and its backup at each of its steps.
Known(p) ==
  /\ pc[p] \in {"recovering", "restoring", "install", "installing"} => primary = Absent
  /\ pc[p] = "dropping" => primary # Absent
  /\ pc[p] \in {"read", "replace", "replacing", "fallback", "moving"} => backup = Absent
  /\ pc[p] \in {"replace", "replacing", "fallback", "moving", "install", "installing"} =>
       payload[p] = Stored \cup {nonce[p]}
  /\ pc[p] \in {"clear", "clearing", "finish"} =>
       primary # Absent /\ nonce[p] \in primary

KnownOK(p) ==
  pc[p] \in Acting \/ (pc[p] \in Owning /\ Reachable(p)) => Known(p)

FilesOK ==
  /\ AckedSurvives /\ BackupIsOlder
  /\ \A p \in Procs : KnownOK(p)

IInv == TypeOK /\ LockOK /\ FilesOK

\* Two processes share the file: with three, two that wait for a stale lock
\* may meet a third.
AtMostTwo == \A p, q, r \in Procs : p = q \/ q = r \/ p = r

-----------------------------------------------------------------------------
(* Types. *)

\* Every step keeps the types.
LEMMA TypeStep ==
  ASSUME TypeOK, \A p \in Procs : BearerOK(p), [Next]_vars
  PROVE  TypeOK'
<1> USE BoundAssumption DEF TypeOK
<1>1. ASSUME NEW p \in Procs, MakeDirectory(p) PROVE TypeOK'
  BY <1>1 DEF MakeDirectory, Go, Locks, Nonces, Free, Pcs, worldVars, fileVars
<1>2. ASSUME NEW p \in Procs, TakeOver(p) PROVE TypeOK'
  <2>1. CASE ObserveStale(p)
    BY <2>1 DEF ObserveStale, Go, Locks, Nonces, Free, Named, Unnamed, Pcs, lockVars,
                worldVars, fileVars
  <2>2. CASE RenameAside(p, "takeover", "moved")
    BY <2>2 DEF RenameAside, Go, Locks, Nonces, Free, Pcs, worldVars, fileVars
  <2>3. CASE CheckTakenOver(p)
    BY <2>3 DEF CheckTakenOver, Go, Locks, Nonces, Free, Unnamed, Pcs, lockVars,
                worldVars, fileVars
  <2>4. CASE PutBack(p)
    BY <2>4 DEF PutBack, Go, Locks, Nonces, Free, Pcs, worldVars, fileVars
  <2> QED BY <1>2, <2>1, <2>2, <2>3, <2>4 DEF TakeOver
<1>3. ASSUME NEW p \in Procs, Transaction(p) PROVE TypeOK'
  <2>1. CASE WriteLease(p)
    <3>1. nonce[p] \in Nonces
      BY <2>1 DEF WriteLease, BearerOK, Bearing, Nonces
    <3>2. lock' \in Locks /\ leased' \subseteq Nonces
      BY <2>1, <3>1 DEF WriteLease, Locks
    <3>4. nonce' \in [Procs -> 0 .. MaxNonces]
      BY <2>1 DEF WriteLease
    <3>3. pc' \in [Procs -> Pcs]
      BY <2>1 DEF WriteLease, Go, Pcs, Owning
    <3> QED BY <2>1, <3>2, <3>3, <3>4 DEF WriteLease, worldVars, fileVars
  <2>2. CASE Recover(p)
    BY <2>2 DEF Recover, Go, Pcs, Owning, Acting, lockVars, worldVars, fileVars
  <2>3. ASSUME NEW from, NEW to \in Owning, RenameBackup(p, from, to) PROVE TypeOK'
    BY <2>3 DEF RenameBackup, Go, Pcs, Owning, lockVars, worldVars
  <2>4. ASSUME NEW from, NEW to \in Owning, RemoveBackup(p, from, to) PROVE TypeOK'
    BY <2>4 DEF RemoveBackup, Go, Pcs, lockVars, worldVars
  <2>5. CASE Read(p)
    BY <2>5 DEF Read, BearerOK, Bearing, Go, Pcs, Owning, Contents, Nonces, lockVars,
                worldVars, fileVars
  <2>6. ASSUME NEW from, NEW to \in Owning, Check(p, from, to) PROVE TypeOK'
    BY <2>6 DEF Check, Go, Pcs, Owning, lockVars, worldVars, fileVars
  <2>7. CASE Replace(p)
    BY <2>7 DEF Replace, Go, Pcs, Owning, lockVars, worldVars
  <2>8. CASE Fallback(p)
    BY <2>8 DEF Fallback, Go, Pcs, Owning, Acting, lockVars, worldVars, fileVars
  <2>9. CASE MoveToBackup(p)
    BY <2>9 DEF MoveToBackup, Go, Pcs, Owning, lockVars, worldVars
  <2>10. CASE Install(p)
    BY <2>10 DEF Install, Go, Pcs, Owning, lockVars, worldVars
  <2>11. CASE Restore(p)
    BY <2>11 DEF Restore, Go, Pcs, Owning, Acting, lockVars, worldVars, fileVars
  <2>12. CASE Finish(p)
    BY <2>12 DEF Finish, Owned, Go, Pcs, Owning, Nonces, Locks, Free, lockVars, worldVars
  <2>13. CASE Release(p)
    BY <2>13 DEF Release, Go, Pcs, Owning, Contents, lockVars, worldVars, fileVars
  <2>14. CASE RenameAside(p, "releasing", "released")
    BY <2>14 DEF RenameAside, Go, Locks, Nonces, Free, Pcs, worldVars, fileVars
  <2>15. CASE CheckReleased(p)
    BY <2>15 DEF CheckReleased, Go, Locks, Nonces, Free, Pcs, lockVars, worldVars, fileVars
  <2>16. {"read", "finish", "release", "replacing", "installing", "clearing"}
           \subseteq Owning
    BY DEF Owning, Acting
  <2> QED BY <1>3, <2>1, <2>2, <2>3, <2>4, <2>5, <2>6, <2>7, <2>8, <2>9, <2>10, <2>11,
             <2>12, <2>13, <2>14, <2>15, <2>16 DEF Transaction
<1>4. ASSUME GrowStale PROVE TypeOK'
  BY <1>4 DEF GrowStale, Locks, Nonces, Free, worldVars, fileVars
<1>5. ASSUME NEW p \in Procs, Crash(p) PROVE TypeOK'
  BY <1>5 DEF Crash, Go, Locks, Nonces, Free, Unnamed, Pcs, Contents, fileVars
<1>6. ASSUME NEW p \in Procs, Restart(p) PROVE TypeOK'
  BY <1>6 DEF Restart, Go, Pcs, lockVars, worldVars, fileVars
<1>7. ASSUME NEW p \in Procs, FailIO(p) PROVE TypeOK'
  BY <1>7 DEF FailIO, Go, Pcs, Owning, lockVars, worldVars, fileVars
<1>8. ASSUME UNCHANGED vars PROVE TypeOK'
  BY <1>8 DEF vars
<1> QED BY <1>1, <1>2, <1>3, <1>4, <1>5, <1>6, <1>7, <1>8 DEF Next

-----------------------------------------------------------------------------
(* The lock. *)

\* What a step of p on the files does to the lock: nothing; and p acts next
\* only if it saw that the lease is its own.
Worked(p) ==
  /\ pc[p] \in Owning
  /\ \E to \in Owning : Go(p, to) /\ (to \in Acting => Owned(p))
  /\ UNCHANGED <<lock, leased, stale, nextNonce, nonce, held, aside>>

LEMMA WorkedLock ==
  ASSUME TypeOK, LockOK, NEW p \in Procs, Worked(p)
  PROVE  LockOK'
<1> USE DEF TypeOK, LockOK
<1>1. PICK to \in Owning : Go(p, to) /\ (to \in Acting => Owned(p))
  BY DEF Worked
<1>2. /\ UNCHANGED <<lock, leased, stale, nextNonce, nonce, held, aside>>
      /\ pc[p] \in Owning /\ pc' = [pc EXCEPT ![p] = to]
  BY <1>1 DEF Worked, Go
<1>3. NoncesOK'
  BY <1>2 DEF NoncesOK
<1>4. QuietWhenStale'
  BY <1>2 DEF QuietWhenStale, Owning, Acting
<1>5. ASSUME NEW q \in Procs PROVE BearerOK(q)' /\ CarrierOK(q)'
  <2>1. CASE q = p
    BY <1>2, <2>1 DEF BearerOK, CarrierOK, Bearing, Carrying, Owning, Acting
  <2>2. CASE q # p
    BY <1>2, <2>2 DEF BearerOK, CarrierOK, Named
  <2> QED BY <2>1, <2>2
<1>6. ASSUME NEW q \in Procs, NEW r \in Procs, q # r PROVE ActorOK(q, r)'
  <2>1. CASE q = p
    <3>1. CASE to \in Acting
      BY <1>1, <1>2, <1>6, <2>1, <3>1 DEF PairOK, ActorOK, LeaserOK, Owned, BearerOK,
         Bearing, NoncesOK, Owning, Free
    <3> QED BY <1>2, <2>1, <3>1 DEF ActorOK
  <2>2. CASE r = p
    BY <1>1, <1>2, <1>6, <2>2 DEF PairOK, ActorOK, Owned, BearerOK, Bearing, NoncesOK,
       Owning, Acting, Carrying, Free
  <2>3. CASE q # p /\ r # p
    BY <1>2, <1>6, <2>3 DEF PairOK, ActorOK
  <2> QED BY <2>1, <2>2, <2>3
<1>7. ASSUME NEW q \in Procs, NEW r \in Procs, q # r PROVE LeaserOK(q, r)'
  <2>1. CASE q = p
    BY <1>2, <2>1 DEF LeaserOK, Owning, Acting
  <2>2. CASE r = p
    BY <1>1, <1>2, <1>7, <2>2 DEF PairOK, LeaserOK, Owned, Owning, Acting
  <2>3. CASE q # p /\ r # p
    BY <1>2, <1>7, <2>3 DEF PairOK, LeaserOK
  <2> QED BY <2>1, <2>2, <2>3
<1> QED BY <1>3, <1>4, <1>5, <1>6, <1>7 DEF PairOK

\* A process makes the directory when there is none: the other one is not at work.
LEMMA MakeDirectoryLock ==
  ASSUME TypeOK, LockOK, AtMostTwo, NEW p \in Procs, MakeDirectory(p)
  PROVE  LockOK'
<1> USE DEF TypeOK, LockOK
<1>1. NoncesOK'
  <2>1. /\ nextNonce \in Nat /\ nextNonce # 0 /\ nextNonce' = nextNonce + 1
        /\ lock' = nextNonce /\ nonce' = [nonce EXCEPT ![p] = nextNonce]
        /\ UNCHANGED <<leased, stale, aside>>
    BY BoundAssumption DEF MakeDirectory
  <2>2. /\ stale \cup leased \subseteq Nat
        /\ nonce \in [Procs -> Nat] /\ aside \in [Procs -> Nat]
    BY BoundAssumption DEF Nonces, Locks, Free
  <2>3. \A n \in stale \cup leased : 0 < n /\ n < nextNonce + 1
    BY <2>1, <2>2 DEF NoncesOK
  <2>4. \A q \in Procs : nonce'[q] < nextNonce + 1 /\ aside[q] < nextNonce + 1
    BY <2>1, <2>2 DEF NoncesOK
  <2>5. \A q, r \in Procs : nonce'[q] # 0 /\ nonce'[q] = nonce'[r] => q = r
    BY <2>1, <2>2 DEF NoncesOK
  <2> QED BY <2>1, <2>3, <2>4, <2>5 DEF NoncesOK
<1>2. QuietWhenStale'
  BY DEF MakeDirectory, Go, Free, QuietWhenStale, NoncesOK, BearerOK, CarrierOK, Bearing,
     Owning, Acting
<1>3. ASSUME NEW q \in Procs PROVE BearerOK(q)'
  BY <1>3 DEF MakeDirectory, Go, Free, BearerOK, NoncesOK, Bearing, Owning, Acting
<1>4. ASSUME NEW q \in Procs PROVE CarrierOK(q)'
  BY <1>4 DEF MakeDirectory, Go, Free, CarrierOK, BearerOK, NoncesOK, QuietWhenStale,
     Named, Carrying, Bearing, Owning, Acting
<1>5. ASSUME NEW q \in Procs, q # p PROVE ActorOK(p, q)' /\ ActorOK(q, p)'
  BY <1>5 DEF MakeDirectory, Go, Free, PairOK, ActorOK, LeaserOK, BearerOK, CarrierOK,
     NoncesOK, QuietWhenStale, Carrying, Bearing, Owning, Acting
<1>6. ASSUME NEW q \in Procs, q # p PROVE LeaserOK(p, q)' /\ LeaserOK(q, p)'
  BY <1>6 DEF MakeDirectory, Go, Free, PairOK, ActorOK, LeaserOK, BearerOK, CarrierOK,
     NoncesOK, QuietWhenStale, Carrying, Bearing, Owning, Acting
<1> QED BY <1>1, <1>2, <1>3, <1>4, <1>5, <1>6 DEF PairOK, AtMostTwo

\* A lease is written into a directory that has none; else the directory goes.
LEMMA WriteLeaseLock ==
  ASSUME TypeOK, LockOK, AtMostTwo, NEW p \in Procs, WriteLease(p)
  PROVE  LockOK'
<1> USE DEF TypeOK, LockOK
<1>1. NoncesOK'
  BY DEF WriteLease, Go, Free, NoncesOK, BearerOK, CarrierOK, Bearing, Locks
<1>2. QuietWhenStale'
  BY DEF WriteLease, Go, Free, QuietWhenStale, NoncesOK, BearerOK, CarrierOK, Bearing,
     Owning, Acting
<1>3. ASSUME NEW q \in Procs PROVE BearerOK(q)'
  BY <1>3 DEF WriteLease, Go, Free, BearerOK, NoncesOK, Bearing, Owning, Acting
<1>4. ASSUME NEW q \in Procs PROVE CarrierOK(q)'
  BY <1>4 DEF WriteLease, Go, Free, CarrierOK, BearerOK, NoncesOK, QuietWhenStale, Named,
     Carrying, Bearing, Owning, Acting
<1>5. ASSUME NEW q \in Procs, q # p PROVE ActorOK(p, q)' /\ ActorOK(q, p)'
  BY <1>5 DEF WriteLease, Go, Free, PairOK, ActorOK, LeaserOK, BearerOK, CarrierOK,
     NoncesOK, QuietWhenStale, Carrying, Bearing, Owning, Acting
<1>6. ASSUME NEW q \in Procs, q # p PROVE LeaserOK(p, q)' /\ LeaserOK(q, p)'
  BY <1>6 DEF WriteLease, Go, Free, PairOK, ActorOK, LeaserOK, BearerOK, CarrierOK,
     NoncesOK, QuietWhenStale, Carrying, Bearing, Owning, Acting
<1> QED BY <1>1, <1>2, <1>3, <1>4, <1>5, <1>6 DEF PairOK, AtMostTwo

\* A stale lock is observed.
LEMMA ObserveStaleLock ==
  ASSUME TypeOK, LockOK, AtMostTwo, NEW p \in Procs, ObserveStale(p)
  PROVE  LockOK'
<1> USE DEF TypeOK, LockOK
<1>1. NoncesOK'
  BY DEF ObserveStale, Go, lockVars, Free, NoncesOK, BearerOK, CarrierOK, Bearing, Locks
<1>2. QuietWhenStale'
  BY DEF ObserveStale, Go, lockVars, Free, QuietWhenStale, NoncesOK, BearerOK, CarrierOK,
     Bearing, Owning, Acting
<1>3. ASSUME NEW q \in Procs PROVE BearerOK(q)'
  BY <1>3 DEF ObserveStale, Go, lockVars, Free, BearerOK, NoncesOK, Bearing, Owning, Acting
<1>4. ASSUME NEW q \in Procs PROVE CarrierOK(q)'
  BY <1>4 DEF ObserveStale, Go, lockVars, Free, CarrierOK, BearerOK, NoncesOK,
     QuietWhenStale, Named, Carrying, Bearing, Owning, Acting
<1>5. ASSUME NEW q \in Procs, q # p PROVE ActorOK(p, q)' /\ ActorOK(q, p)'
  BY <1>5 DEF ObserveStale, Go, lockVars, Free, PairOK, ActorOK, LeaserOK, BearerOK,
     CarrierOK, NoncesOK, QuietWhenStale, Carrying, Bearing, Owning, Acting
<1>6. ASSUME NEW q \in Procs, q # p PROVE LeaserOK(p, q)' /\ LeaserOK(q, p)'
  BY <1>6 DEF ObserveStale, Go, lockVars, Free, PairOK, ActorOK, LeaserOK, BearerOK,
     CarrierOK, NoncesOK, QuietWhenStale, Carrying, Bearing, Owning, Acting
<1> QED BY <1>1, <1>2, <1>3, <1>4, <1>5, <1>6 DEF PairOK, AtMostTwo

\* The lock is renamed away by the one that takes it over.
LEMMA TakeAsideLock ==
  ASSUME TypeOK, LockOK, AtMostTwo, NEW p \in Procs, RenameAside(p, "takeover", "moved")
  PROVE  LockOK'
<1> USE DEF TypeOK, LockOK
<1>1. NoncesOK'
  BY DEF RenameAside, Go, Free, NoncesOK, BearerOK, CarrierOK, Bearing, Locks
<1>2. QuietWhenStale'
  BY DEF RenameAside, Go, Free, QuietWhenStale, NoncesOK, BearerOK, CarrierOK, Bearing,
     Owning, Acting
<1>3. ASSUME NEW q \in Procs PROVE BearerOK(q)'
  BY <1>3 DEF RenameAside, Go, Free, BearerOK, NoncesOK, Bearing, Owning, Acting
<1>4. ASSUME NEW q \in Procs PROVE CarrierOK(q)'
  BY <1>4 DEF RenameAside, Go, Free, CarrierOK, BearerOK, NoncesOK, QuietWhenStale, Named,
     Carrying, Bearing, Owning, Acting
<1>5. ASSUME NEW q \in Procs, q # p PROVE ActorOK(p, q)' /\ ActorOK(q, p)'
  BY <1>5 DEF RenameAside, Go, Free, PairOK, ActorOK, LeaserOK, BearerOK, CarrierOK,
     NoncesOK, QuietWhenStale, Carrying, Bearing, Owning, Acting
<1>6. ASSUME NEW q \in Procs, q # p PROVE LeaserOK(p, q)' /\ LeaserOK(q, p)'
  BY <1>6 DEF RenameAside, Go, Free, PairOK, ActorOK, LeaserOK, BearerOK, CarrierOK,
     NoncesOK, QuietWhenStale, Carrying, Bearing, Owning, Acting
<1> QED BY <1>1, <1>2, <1>3, <1>4, <1>5, <1>6 DEF PairOK, AtMostTwo

\* The lock is renamed away by the one that releases it.
LEMMA ReleaseAsideLock ==
  ASSUME TypeOK, LockOK, AtMostTwo, NEW p \in Procs, RenameAside(p, "releasing", "released")
  PROVE  LockOK'
<1> USE DEF TypeOK, LockOK
<1>1. NoncesOK'
  BY DEF RenameAside, Go, Free, NoncesOK, BearerOK, CarrierOK, Bearing, Locks
<1>2. QuietWhenStale'
  BY DEF RenameAside, Go, Free, QuietWhenStale, NoncesOK, BearerOK, CarrierOK, Bearing,
     Owning, Acting
<1>3. ASSUME NEW q \in Procs PROVE BearerOK(q)'
  BY <1>3 DEF RenameAside, Go, Free, BearerOK, NoncesOK, Bearing, Owning, Acting
<1>4. ASSUME NEW q \in Procs PROVE CarrierOK(q)'
  BY <1>4 DEF RenameAside, Go, Free, CarrierOK, BearerOK, NoncesOK, QuietWhenStale, Named,
     Carrying, Bearing, Owning, Acting
<1>5. ASSUME NEW q \in Procs, q # p PROVE ActorOK(p, q)' /\ ActorOK(q, p)'
  BY <1>5 DEF RenameAside, Go, Free, PairOK, ActorOK, LeaserOK, BearerOK, CarrierOK,
     NoncesOK, QuietWhenStale, Carrying, Bearing, Owning, Acting
<1>6. ASSUME NEW q \in Procs, q # p PROVE LeaserOK(p, q)' /\ LeaserOK(q, p)'
  BY <1>6 DEF RenameAside, Go, Free, PairOK, ActorOK, LeaserOK, BearerOK, CarrierOK,
     NoncesOK, QuietWhenStale, Carrying, Bearing, Owning, Acting
<1> QED BY <1>1, <1>2, <1>3, <1>4, <1>5, <1>6 DEF PairOK, AtMostTwo

\* What was taken over is removed if it is still stale.
LEMMA CheckTakenOverLock ==
  ASSUME TypeOK, LockOK, AtMostTwo, NEW p \in Procs, CheckTakenOver(p)
  PROVE  LockOK'
<1> USE DEF TypeOK, LockOK
<1>1. NoncesOK'
  BY DEF CheckTakenOver, Go, lockVars, Free, Unnamed, NoncesOK, BearerOK, CarrierOK,
     Bearing, Locks
<1>2. QuietWhenStale'
  BY DEF CheckTakenOver, Go, lockVars, Free, Unnamed, QuietWhenStale, NoncesOK, BearerOK,
     CarrierOK, Bearing, Owning, Acting
<1>3. ASSUME NEW q \in Procs PROVE BearerOK(q)'
  BY <1>3 DEF CheckTakenOver, Go, lockVars, Free, Unnamed, BearerOK, NoncesOK, Bearing,
     Owning, Acting
<1>4. ASSUME NEW q \in Procs PROVE CarrierOK(q)'
  BY <1>4 DEF CheckTakenOver, Go, lockVars, Free, Unnamed, CarrierOK, BearerOK, NoncesOK,
     QuietWhenStale, Named, Carrying, Bearing, Owning, Acting
<1>5. ASSUME NEW q \in Procs, q # p PROVE ActorOK(p, q)' /\ ActorOK(q, p)'
  BY <1>5 DEF CheckTakenOver, Go, lockVars, Free, Unnamed, PairOK, ActorOK, LeaserOK,
     BearerOK, CarrierOK, NoncesOK, QuietWhenStale, Carrying, Bearing, Owning, Acting
<1>6. ASSUME NEW q \in Procs, q # p PROVE LeaserOK(p, q)' /\ LeaserOK(q, p)'
  BY <1>6 DEF CheckTakenOver, Go, lockVars, Free, Unnamed, PairOK, ActorOK, LeaserOK,
     BearerOK, CarrierOK, NoncesOK, QuietWhenStale, Carrying, Bearing, Owning, Acting
<1> QED BY <1>1, <1>2, <1>3, <1>4, <1>5, <1>6 DEF PairOK, AtMostTwo

\* What was renamed away wrongly is put back.
LEMMA PutBackLock ==
  ASSUME TypeOK, LockOK, AtMostTwo, NEW p \in Procs, PutBack(p)
  PROVE  LockOK'
<1> USE DEF TypeOK, LockOK
<1>1. NoncesOK'
  BY DEF PutBack, Go, Free, NoncesOK, BearerOK, CarrierOK, Bearing, Locks
<1>2. QuietWhenStale'
  BY DEF PutBack, Go, Free, QuietWhenStale, NoncesOK, BearerOK, CarrierOK, Bearing,
     Owning, Acting
<1>3. ASSUME NEW q \in Procs PROVE BearerOK(q)'
  BY <1>3 DEF PutBack, Go, Free, BearerOK, NoncesOK, Bearing, Owning, Acting
<1>4. ASSUME NEW q \in Procs PROVE CarrierOK(q)'
  BY <1>4 DEF PutBack, Go, Free, CarrierOK, BearerOK, NoncesOK, QuietWhenStale, Named,
     Carrying, Bearing, Owning, Acting
<1>5. ASSUME NEW q \in Procs, q # p PROVE ActorOK(p, q)' /\ ActorOK(q, p)'
  BY <1>5 DEF PutBack, Go, Free, PairOK, ActorOK, LeaserOK, BearerOK, CarrierOK, NoncesOK,
     QuietWhenStale, Carrying, Bearing, Owning, Acting
<1>6. ASSUME NEW q \in Procs, q # p PROVE LeaserOK(p, q)' /\ LeaserOK(q, p)'
  BY <1>6 DEF PutBack, Go, Free, PairOK, ActorOK, LeaserOK, BearerOK, CarrierOK, NoncesOK,
     QuietWhenStale, Carrying, Bearing, Owning, Acting
<1> QED BY <1>1, <1>2, <1>3, <1>4, <1>5, <1>6 DEF PairOK, AtMostTwo

\* An owner goes to release its lease, or finds that it is gone.
LEMMA ReleaseLock ==
  ASSUME TypeOK, LockOK, AtMostTwo, NEW p \in Procs, Release(p)
  PROVE  LockOK'
<1> USE DEF TypeOK, LockOK
<1>1. NoncesOK'
  BY DEF Release, Go, lockVars, Free, NoncesOK, BearerOK, CarrierOK, Bearing, Locks
<1>2. QuietWhenStale'
  BY DEF Release, Go, lockVars, Free, QuietWhenStale, NoncesOK, BearerOK, CarrierOK,
     Bearing, Owning, Acting
<1>3. ASSUME NEW q \in Procs PROVE BearerOK(q)'
  BY <1>3 DEF Release, Go, lockVars, Free, BearerOK, NoncesOK, Bearing, Owning, Acting
<1>4. ASSUME NEW q \in Procs PROVE CarrierOK(q)'
  BY <1>4 DEF Release, Go, lockVars, Free, CarrierOK, BearerOK, NoncesOK, QuietWhenStale,
     Named, Carrying, Bearing, Owning, Acting
<1>5. ASSUME NEW q \in Procs, q # p PROVE ActorOK(p, q)' /\ ActorOK(q, p)'
  BY <1>5 DEF Release, Go, lockVars, Free, PairOK, ActorOK, LeaserOK, BearerOK, CarrierOK,
     NoncesOK, QuietWhenStale, Carrying, Bearing, Owning, Acting
<1>6. ASSUME NEW q \in Procs, q # p PROVE LeaserOK(p, q)' /\ LeaserOK(q, p)'
  BY <1>6 DEF Release, Go, lockVars, Free, PairOK, ActorOK, LeaserOK, BearerOK, CarrierOK,
     NoncesOK, QuietWhenStale, Carrying, Bearing, Owning, Acting
<1> QED BY <1>1, <1>2, <1>3, <1>4, <1>5, <1>6 DEF PairOK, AtMostTwo

\* A released lease is removed.
LEMMA CheckReleasedLock ==
  ASSUME TypeOK, LockOK, AtMostTwo, NEW p \in Procs, CheckReleased(p)
  PROVE  LockOK'
<1> USE DEF TypeOK, LockOK
<1>1. NoncesOK'
  BY DEF CheckReleased, Go, lockVars, Free, NoncesOK, BearerOK, CarrierOK, Bearing, Locks
<1>2. QuietWhenStale'
  BY DEF CheckReleased, Go, lockVars, Free, QuietWhenStale, NoncesOK, BearerOK, CarrierOK,
     Bearing, Owning, Acting
<1>3. ASSUME NEW q \in Procs PROVE BearerOK(q)'
  BY <1>3 DEF CheckReleased, Go, lockVars, Free, BearerOK, NoncesOK, Bearing, Owning, Acting
<1>4. ASSUME NEW q \in Procs PROVE CarrierOK(q)'
  BY <1>4 DEF CheckReleased, Go, lockVars, Free, CarrierOK, BearerOK, NoncesOK,
     QuietWhenStale, Named, Carrying, Bearing, Owning, Acting
<1>5. ASSUME NEW q \in Procs, q # p PROVE ActorOK(p, q)' /\ ActorOK(q, p)'
  BY <1>5 DEF CheckReleased, Go, lockVars, Free, PairOK, ActorOK, LeaserOK, BearerOK,
     CarrierOK, NoncesOK, QuietWhenStale, Carrying, Bearing, Owning, Acting
<1>6. ASSUME NEW q \in Procs, q # p PROVE LeaserOK(p, q)' /\ LeaserOK(q, p)'
  BY <1>6 DEF CheckReleased, Go, lockVars, Free, PairOK, ActorOK, LeaserOK, BearerOK,
     CarrierOK, NoncesOK, QuietWhenStale, Carrying, Bearing, Owning, Acting
<1> QED BY <1>1, <1>2, <1>3, <1>4, <1>5, <1>6 DEF PairOK, AtMostTwo

\* A process dies and leaves the lock as it is.
LEMMA CrashLock ==
  ASSUME TypeOK, LockOK, AtMostTwo, NEW p \in Procs, Crash(p)
  PROVE  LockOK'
<1> USE DEF TypeOK, LockOK
<1>1. NoncesOK'
  BY DEF Crash, Go, Free, Unnamed, NoncesOK, BearerOK, CarrierOK, Bearing, Locks
<1>2. QuietWhenStale'
  BY DEF Crash, Go, Free, Unnamed, QuietWhenStale, NoncesOK, BearerOK, CarrierOK, Bearing,
     Owning, Acting
<1>3. ASSUME NEW q \in Procs PROVE BearerOK(q)'
  BY <1>3 DEF Crash, Go, Free, Unnamed, BearerOK, NoncesOK, Bearing, Owning, Acting
<1>4. ASSUME NEW q \in Procs PROVE CarrierOK(q)'
  BY <1>4 DEF Crash, Go, Free, Unnamed, CarrierOK, BearerOK, NoncesOK, QuietWhenStale,
     Named, Carrying, Bearing, Owning, Acting
<1>5. ASSUME NEW q \in Procs, q # p PROVE ActorOK(p, q)' /\ ActorOK(q, p)'
  BY <1>5 DEF Crash, Go, Free, Unnamed, PairOK, ActorOK, LeaserOK, BearerOK, CarrierOK,
     NoncesOK, QuietWhenStale, Carrying, Bearing, Owning, Acting
<1>6. ASSUME NEW q \in Procs, q # p PROVE LeaserOK(p, q)' /\ LeaserOK(q, p)'
  BY <1>6 DEF Crash, Go, Free, Unnamed, PairOK, ActorOK, LeaserOK, BearerOK, CarrierOK,
     NoncesOK, QuietWhenStale, Carrying, Bearing, Owning, Acting
<1> QED BY <1>1, <1>2, <1>3, <1>4, <1>5, <1>6 DEF PairOK, AtMostTwo

\* A process starts again when no other is in a file operation.
LEMMA RestartLock ==
  ASSUME TypeOK, LockOK, AtMostTwo, NEW p \in Procs, Restart(p)
  PROVE  LockOK'
<1> USE DEF TypeOK, LockOK
<1>1. NoncesOK'
  BY DEF Restart, Go, lockVars, Free, NoncesOK, BearerOK, CarrierOK, Bearing, Locks
<1>2. QuietWhenStale'
  BY DEF Restart, Go, lockVars, Free, QuietWhenStale, NoncesOK, BearerOK, CarrierOK,
     Bearing, Owning, Acting
<1>3. ASSUME NEW q \in Procs PROVE BearerOK(q)'
  BY <1>3 DEF Restart, Go, lockVars, Free, BearerOK, NoncesOK, Bearing, Owning, Acting
<1>4. ASSUME NEW q \in Procs PROVE CarrierOK(q)'
  BY <1>4 DEF Restart, Go, lockVars, Free, CarrierOK, BearerOK, NoncesOK, QuietWhenStale,
     Named, Carrying, Bearing, Owning, Acting
<1>5. ASSUME NEW q \in Procs, q # p PROVE ActorOK(p, q)' /\ ActorOK(q, p)'
  BY <1>5 DEF Restart, Go, lockVars, Free, PairOK, ActorOK, LeaserOK, BearerOK, CarrierOK,
     NoncesOK, QuietWhenStale, Carrying, Bearing, Owning, Acting
<1>6. ASSUME NEW q \in Procs, q # p PROVE LeaserOK(p, q)' /\ LeaserOK(q, p)'
  BY <1>6 DEF Restart, Go, lockVars, Free, PairOK, ActorOK, LeaserOK, BearerOK, CarrierOK,
     NoncesOK, QuietWhenStale, Carrying, Bearing, Owning, Acting
<1> QED BY <1>1, <1>2, <1>3, <1>4, <1>5, <1>6 DEF PairOK, AtMostTwo

\* The lock grows stale while nobody is at work.
LEMMA GrowStaleLock ==
  ASSUME TypeOK, LockOK, GrowStale
  PROVE  LockOK'
<1> USE DEF TypeOK, LockOK, GrowStale
<1>1. NoncesOK'
  BY DEF NoncesOK, Free, Locks, Nonces
<1>2. QuietWhenStale'
  BY DEF QuietWhenStale
<1>3. ASSUME NEW q \in Procs PROVE BearerOK(q)'
  BY <1>3 DEF BearerOK, Bearing, Owning, Acting
<1>5. ASSUME NEW q \in Procs PROVE CarrierOK(q)'
  BY <1>5 DEF CarrierOK, Carrying, NoncesOK
<1>4. ASSUME NEW q \in Procs, NEW r \in Procs PROVE PairOK(q, r)'
  BY <1>4 DEF PairOK, ActorOK, LeaserOK, Acting
<1> QED BY <1>1, <1>2, <1>3, <1>4, <1>5

\* The steps on the files leave the lock alone.
LEMMA FilesWorked ==
  ASSUME TypeOK, NEW p \in Procs,
         \/ Recover(p) \/ RenameBackup(p, "recovering", "read")
         \/ RemoveBackup(p, "dropping", "read") \/ Read(p)
         \/ Check(p, "replace", "replacing") \/ Replace(p)
         \/ Fallback(p) \/ MoveToBackup(p)
         \/ Check(p, "install", "installing") \/ Install(p)
         \/ Check(p, "clear", "clearing") \/ RemoveBackup(p, "clearing", "finish")
         \/ Restore(p) \/ RenameBackup(p, "restoring", "release")
         \/ Finish(p) \/ FailIO(p)
  PROVE  Worked(p)
<1> USE DEF Worked, Owning, Acting, lockVars
<1>1. CASE Recover(p) BY <1>1 DEF Recover
<1>2. ASSUME NEW from \in Owning, NEW to \in Owning \ Acting, RenameBackup(p, from, to)
      PROVE Worked(p)
  BY <1>2 DEF RenameBackup
<1>3. ASSUME NEW from \in Owning, NEW to \in Owning \ Acting, RemoveBackup(p, from, to)
      PROVE Worked(p)
  BY <1>3 DEF RemoveBackup
<1>4. CASE Read(p) BY <1>4 DEF Read
<1>5. ASSUME NEW from \in Owning, NEW to \in Owning, Check(p, from, to)
      PROVE Worked(p)
  BY <1>5 DEF Check
<1>6. CASE Replace(p) BY <1>6 DEF Replace
<1>7. CASE Fallback(p) BY <1>7 DEF Fallback
<1>8. CASE MoveToBackup(p) BY <1>8 DEF MoveToBackup
<1>9. CASE Install(p) BY <1>9 DEF Install
<1>10. CASE Restore(p) BY <1>10 DEF Restore
<1>11. CASE Finish(p) BY <1>11 DEF Finish
<1>12. CASE FailIO(p) BY <1>12 DEF FailIO
<1> QED BY <1>1, <1>2, <1>3, <1>4, <1>5, <1>6, <1>7, <1>8, <1>9, <1>10, <1>11, <1>12

\* Every step keeps the lock in order.
LEMMA LockStep ==
  ASSUME TypeOK, LockOK, AtMostTwo, [Next]_vars
  PROVE  LockOK'
<1>1. ASSUME NEW p \in Procs, TakeOver(p) PROVE LockOK'
  BY <1>1, ObserveStaleLock, TakeAsideLock, CheckTakenOverLock, PutBackLock DEF TakeOver
<1>2. ASSUME NEW p \in Procs, Transaction(p) PROVE LockOK'
  BY <1>2, FilesWorked, WorkedLock, WriteLeaseLock, ReleaseLock, ReleaseAsideLock,
     CheckReleasedLock DEF Transaction
<1>3. ASSUME NEW p \in Procs, FailIO(p) PROVE LockOK'
  BY <1>3, FilesWorked, WorkedLock
<1>4. CASE UNCHANGED vars
  BY <1>4 DEF vars, LockOK, NoncesOK, QuietWhenStale, BearerOK, CarrierOK, PairOK, ActorOK,
     LeaserOK, Named
<1> QED BY <1>1, <1>2, <1>3, <1>4, MakeDirectoryLock, GrowStaleLock, CrashLock, RestartLock
        DEF Next

\* One writer: the lock in order lets nobody else act.
LEMMA LockedIsAlone ==
  ASSUME LockOK PROVE OneWriter
BY DEF LockOK, NoncesOK, BearerOK, Bearing, Owning, PairOK, ActorOK, OneWriter, Acting,
   Carrying, Free

-----------------------------------------------------------------------------
(* The file and its backup. *)

\* Who acts, or owns the lock, is alone: the other one knows nothing that it
\* may still use.
LEMMA Alone ==
  ASSUME TypeOK, LockOK, AtMostTwo, NEW p \in Procs, NEW q \in Procs, p # q,
         pc[p] \in Acting \/ (pc[p] \in Owning /\ Owned(p)),
         pc[q] \in Acting \/ (pc[q] \in Owning /\ Reachable(q))
  PROVE  FALSE
<1> USE DEF LockOK
<1>1. /\ nonce[p] # 0 /\ nonce[q] # 0 /\ nonce[p] # nonce[q]
      /\ pc[p] \notin Carrying \cup {"dead"} /\ pc[q] \notin Carrying \cup {"dead"}
  BY DEF BearerOK, NoncesOK, Bearing, Owning, Acting, Carrying
<1>2. lock \in {Free, nonce[p]}
  BY DEF PairOK, ActorOK, Owned
<1>3. ~Reachable(q)
  BY <1>1, <1>2 DEF Reachable, AtMostTwo, Free
<1>4. CASE pc[q] \in Acting
  BY <1>1, <1>2, <1>4 DEF PairOK, ActorOK, Owned, Free
<1> QED BY <1>3, <1>4

\* A step that leaves the files alone: whoever goes on knows what it knew.
LEMMA FilesStay ==
  ASSUME TypeOK, FilesOK, UNCHANGED fileVars,
         \A q \in Procs : pc'[q] \in Owning =>
           \/ pc'[q] \in {"recover", "release", "releasing"}
           \/ /\ pc'[q] = pc[q] /\ nonce'[q] = nonce[q] /\ payload'[q] = payload[q]
              /\ Reachable(q)' => Reachable(q)
  PROVE  FilesOK'
<1>1. AckedSurvives' /\ BackupIsOlder'
  BY DEF FilesOK, AckedSurvives, BackupIsOlder, Stored, fileVars
<1>2. ASSUME NEW q \in Procs PROVE KnownOK(q)'
  BY <1>2 DEF FilesOK, KnownOK, Known, Stored, fileVars, Owning, Acting
<1> QED BY <1>1, <1>2 DEF FilesOK

\* The steps on the lock: nothing that was out of reach comes back.
LEMMA LockStepFiles ==
  ASSUME TypeOK, LockOK, FilesOK, NEW p \in Procs,
         \/ MakeDirectory(p) \/ TakeOver(p) \/ WriteLease(p) \/ Release(p)
         \/ RenameAside(p, "releasing", "released") \/ CheckReleased(p)
         \/ Crash(p) \/ Restart(p)
  PROVE  FilesOK'
<1> USE DEF TypeOK, LockOK, Owning, Acting
<1>0. ASSUME NEW q \in Procs, pc[q] \in Owning
      PROVE  nonce[q] # 0 /\ nonce[q] \in Nat /\ nonce[q] < nextNonce
  BY <1>0 DEF BearerOK, NoncesOK, Bearing
<1>1. CASE MakeDirectory(p)
  <2>1. ASSUME NEW q \in Procs, q # p, pc[q] \in Owning, Reachable(q)'
        PROVE  Reachable(q)
    BY <1>0, <1>1, <2>1, BoundAssumption DEF MakeDirectory, Go, Reachable, Carrying, Free,
       NoncesOK
  <2>2. /\ UNCHANGED fileVars
        /\ pc'[p] \in Owning => pc'[p] \in {"recover", "release", "releasing"}
        /\ \A q \in Procs : q # p => /\ pc'[q] = pc[q] /\ nonce'[q] = nonce[q]
                                   /\ payload'[q] = payload[q]
    BY <1>1 DEF MakeDirectory, Go, fileVars
  <2> QED BY <2>1, <2>2, FilesStay
<1>2. CASE WriteLease(p)
  <2>1. ASSUME NEW q \in Procs, q # p, pc[q] \in Owning, Reachable(q)'
        PROVE  Reachable(q)
    BY <1>0, <1>2, <2>1, BoundAssumption DEF WriteLease, Go, Reachable, Carrying, Free,
       NoncesOK
  <2>2. /\ UNCHANGED fileVars
        /\ pc'[p] \in Owning => pc'[p] \in {"recover", "release", "releasing"}
        /\ \A q \in Procs : q # p => /\ pc'[q] = pc[q] /\ nonce'[q] = nonce[q]
                                   /\ payload'[q] = payload[q]
    BY <1>2 DEF WriteLease, Go, fileVars
  <2> QED BY <2>1, <2>2, FilesStay
<1>3. CASE ObserveStale(p)
  <2>1. ASSUME NEW q \in Procs, q # p, pc[q] \in Owning, Reachable(q)'
        PROVE  Reachable(q)
    BY <1>0, <1>3, <2>1, BoundAssumption DEF ObserveStale, Go, lockVars, Reachable,
       Carrying, Free, NoncesOK
  <2>2. /\ UNCHANGED fileVars
        /\ pc'[p] \in Owning => pc'[p] \in {"recover", "release", "releasing"}
        /\ \A q \in Procs : q # p => /\ pc'[q] = pc[q] /\ nonce'[q] = nonce[q]
                                   /\ payload'[q] = payload[q]
    BY <1>3 DEF ObserveStale, Go, lockVars, fileVars
  <2> QED BY <2>1, <2>2, FilesStay
<1>4. CASE RenameAside(p, "takeover", "moved")
  <2>1. ASSUME NEW q \in Procs, q # p, pc[q] \in Owning, Reachable(q)'
        PROVE  Reachable(q)
    BY <1>0, <1>4, <2>1, BoundAssumption DEF RenameAside, Go, Reachable, Carrying, Free,
       NoncesOK
  <2>2. /\ UNCHANGED fileVars
        /\ pc'[p] \in Owning => pc'[p] \in {"recover", "release", "releasing"}
        /\ \A q \in Procs : q # p => /\ pc'[q] = pc[q] /\ nonce'[q] = nonce[q]
                                   /\ payload'[q] = payload[q]
    BY <1>4 DEF RenameAside, Go, fileVars
  <2> QED BY <2>1, <2>2, FilesStay
<1>5. CASE RenameAside(p, "releasing", "released")
  <2>1. ASSUME NEW q \in Procs, q # p, pc[q] \in Owning, Reachable(q)'
        PROVE  Reachable(q)
    BY <1>0, <1>5, <2>1, BoundAssumption DEF RenameAside, Go, Reachable, Carrying, Free,
       NoncesOK
  <2>2. /\ UNCHANGED fileVars
        /\ pc'[p] \in Owning => pc'[p] \in {"recover", "release", "releasing"}
        /\ \A q \in Procs : q # p => /\ pc'[q] = pc[q] /\ nonce'[q] = nonce[q]
                                   /\ payload'[q] = payload[q]
    BY <1>5 DEF RenameAside, Go, fileVars
  <2> QED BY <2>1, <2>2, FilesStay
<1>6. CASE CheckTakenOver(p)
  <2>1. ASSUME NEW q \in Procs, q # p, pc[q] \in Owning, Reachable(q)'
        PROVE  Reachable(q)
    BY <1>0, <1>6, <2>1, BoundAssumption DEF CheckTakenOver, Go, lockVars, Reachable,
       Carrying, Free, NoncesOK
  <2>2. /\ UNCHANGED fileVars
        /\ pc'[p] \in Owning => pc'[p] \in {"recover", "release", "releasing"}
        /\ \A q \in Procs : q # p => /\ pc'[q] = pc[q] /\ nonce'[q] = nonce[q]
                                   /\ payload'[q] = payload[q]
    BY <1>6 DEF CheckTakenOver, Go, lockVars, fileVars
  <2> QED BY <2>1, <2>2, FilesStay
<1>7. CASE PutBack(p)
  <2>1. ASSUME NEW q \in Procs, q # p, pc[q] \in Owning, Reachable(q)'
        PROVE  Reachable(q)
    BY <1>0, <1>7, <2>1, BoundAssumption DEF PutBack, Go, Reachable, Carrying, Free,
       NoncesOK
  <2>2. /\ UNCHANGED fileVars
        /\ pc'[p] \in Owning => pc'[p] \in {"recover", "release", "releasing"}
        /\ \A q \in Procs : q # p => /\ pc'[q] = pc[q] /\ nonce'[q] = nonce[q]
                                   /\ payload'[q] = payload[q]
    BY <1>7 DEF PutBack, Go, fileVars
  <2> QED BY <2>1, <2>2, FilesStay
<1>8. CASE Release(p)
  <2>1. ASSUME NEW q \in Procs, q # p, pc[q] \in Owning, Reachable(q)'
        PROVE  Reachable(q)
    BY <1>0, <1>8, <2>1, BoundAssumption DEF Release, Go, lockVars, Reachable, Carrying,
       Free, NoncesOK
  <2>2. /\ UNCHANGED fileVars
        /\ pc'[p] \in Owning => pc'[p] \in {"recover", "release", "releasing"}
        /\ \A q \in Procs : q # p => /\ pc'[q] = pc[q] /\ nonce'[q] = nonce[q]
                                   /\ payload'[q] = payload[q]
    BY <1>8 DEF Release, Go, lockVars, fileVars
  <2> QED BY <2>1, <2>2, FilesStay
<1>9. CASE CheckReleased(p)
  <2>1. ASSUME NEW q \in Procs, q # p, pc[q] \in Owning, Reachable(q)'
        PROVE  Reachable(q)
    BY <1>0, <1>9, <2>1, BoundAssumption DEF CheckReleased, Go, lockVars, Reachable,
       Carrying, Free, NoncesOK
  <2>2. /\ UNCHANGED fileVars
        /\ pc'[p] \in Owning => pc'[p] \in {"recover", "release", "releasing"}
        /\ \A q \in Procs : q # p => /\ pc'[q] = pc[q] /\ nonce'[q] = nonce[q]
                                   /\ payload'[q] = payload[q]
    BY <1>9 DEF CheckReleased, Go, lockVars, fileVars
  <2> QED BY <2>1, <2>2, FilesStay
<1>10. CASE Crash(p)
  <2>1. ASSUME NEW q \in Procs, q # p, pc[q] \in Owning, Reachable(q)'
        PROVE  Reachable(q)
    BY <1>0, <1>10, <2>1, BoundAssumption DEF Crash, Go, Reachable, Carrying, Free, NoncesOK
  <2>2. /\ UNCHANGED fileVars
        /\ pc'[p] \in Owning => pc'[p] \in {"recover", "release", "releasing"}
        /\ \A q \in Procs : q # p => /\ pc'[q] = pc[q] /\ nonce'[q] = nonce[q]
                                   /\ payload'[q] = payload[q]
    BY <1>10 DEF Crash, Go, fileVars
  <2> QED BY <2>1, <2>2, FilesStay
<1>11. CASE Restart(p)
  <2>1. ASSUME NEW q \in Procs, q # p, pc[q] \in Owning, Reachable(q)'
        PROVE  Reachable(q)
    BY <1>0, <1>11, <2>1, BoundAssumption DEF Restart, Go, lockVars, Reachable, Carrying,
       Free, NoncesOK
  <2>2. /\ UNCHANGED fileVars
        /\ pc'[p] \in Owning => pc'[p] \in {"recover", "release", "releasing"}
        /\ \A q \in Procs : q # p => /\ pc'[q] = pc[q] /\ nonce'[q] = nonce[q]
                                   /\ payload'[q] = payload[q]
    BY <1>11 DEF Restart, Go, lockVars, fileVars
  <2> QED BY <2>1, <2>2, FilesStay
<1> QED BY <1>1, <1>2, <1>3, <1>4, <1>5, <1>6, <1>7, <1>8, <1>9, <1>10, <1>11 DEF TakeOver

\* A step on the files is made alone, or leaves them as they are.
LEMMA OthersKnow ==
  ASSUME TypeOK, LockOK, FilesOK, AtMostTwo, NEW p \in Procs, Worked(p),
         UNCHANGED fileVars \/ pc[p] \in Acting \/ Owned(p),
         NEW q \in Procs, q # p, payload'[q] = payload[q]
  PROVE  KnownOK(q)'
<1>1. PICK to \in Owning : pc' = [pc EXCEPT ![p] = to]
  BY DEF Worked, Go
<1>2. UNCHANGED <<lock, nonce, aside>> /\ pc[p] \in Owning /\ pc'[q] = pc[q]
  BY <1>1 DEF Worked, TypeOK
<1>3. Reachable(q)' => Reachable(q)
  BY <1>1, <1>2 DEF Reachable, Carrying, Owning, Acting, TypeOK
<1>4. CASE UNCHANGED fileVars
  BY <1>2, <1>3, <1>4 DEF FilesOK, KnownOK, Known, Stored, fileVars
<1>5. CASE pc[p] \in Acting \/ Owned(p)
  BY <1>2, <1>3, <1>5, Alone DEF KnownOK
<1> QED BY <1>4, <1>5

\* What p knows when it goes on, if it knew something before it did.
LEMMA StillReachable ==
  ASSUME TypeOK, NEW p \in Procs, Worked(p)
  PROVE  Reachable(p)' => Reachable(p)
<1>1. PICK to \in Owning : pc' = [pc EXCEPT ![p] = to]
  BY DEF Worked, Go
<1>2. UNCHANGED <<lock, nonce, aside>> /\ pc[p] \in Owning
  BY DEF Worked
<1> QED BY <1>1, <1>2 DEF Reachable, Carrying, Owning, Acting, TypeOK

\* The steps on the files keep what was acknowledged, and what is known.
LEMMA FileStepFiles ==
  ASSUME TypeOK, LockOK, FilesOK, AtMostTwo, NEW p \in Procs,
         \/ Recover(p)
         \/ RenameBackup(p, "recovering", "read")
         \/ RemoveBackup(p, "dropping", "read")
         \/ Read(p)
         \/ Check(p, "replace", "replacing")
         \/ Replace(p)
         \/ Fallback(p)
         \/ MoveToBackup(p)
         \/ Check(p, "install", "installing")
         \/ Install(p)
         \/ Check(p, "clear", "clearing")
         \/ RemoveBackup(p, "clearing", "finish")
         \/ Restore(p)
         \/ RenameBackup(p, "restoring", "release")
         \/ Finish(p)
         \/ FailIO(p)
  PROVE  FilesOK'
<1>1. Worked(p)
  BY FilesWorked
<1>2. /\ AckedSurvives /\ BackupIsOlder /\ KnownOK(p)
      /\ Reachable(p)' => Reachable(p)
      /\ pc[p] \in Acting \/ Owned(p) => Known(p)
  <2>1. Owned(p) => Reachable(p)
    BY DEF Owned, Reachable
  <2> QED BY <1>1, <2>1, StillReachable DEF FilesOK, KnownOK, Worked
<1>3. /\ primary \in Contents \cup {Absent} /\ backup \in Contents \cup {Absent}
      /\ payload[p] \in Contents /\ payload \in [Procs -> Contents]
      /\ pc \in [Procs -> Pcs] /\ Absent \notin Contents
  BY AbsentAssumption DEF TypeOK, Contents, Nonces
<1>4. ASSUME UNCHANGED fileVars \/ pc[p] \in Acting \/ Owned(p),
             \A q \in Procs : q # p => payload'[q] = payload[q],
             AckedSurvives', BackupIsOlder', KnownOK(p)'
      PROVE  FilesOK'
  BY <1>1, <1>4, OthersKnow DEF FilesOK
<1>5. CASE Recover(p)
  <2>1. /\ UNCHANGED fileVars \/ pc[p] \in Acting \/ Owned(p)
        /\ \A q \in Procs : q # p => payload'[q] = payload[q]
    BY <1>3, <1>5 DEF Recover, Go, Owned, fileVars, Acting
  <2>2. AckedSurvives' /\ BackupIsOlder'
    BY <1>2, <1>3, <1>5 DEF Recover, Go, Owned, Known, AckedSurvives, BackupIsOlder,
       Stored, fileVars, Acting
  <2>3. KnownOK(p)'
    BY <1>2, <1>3, <1>5 DEF Recover, Go, Owned, KnownOK, Known, AckedSurvives,
       BackupIsOlder, Stored, fileVars, Owning, Acting, lockVars
  <2> QED BY <1>4, <2>1, <2>2, <2>3
<1>6. CASE RenameBackup(p, "recovering", "read")
  <2>1. /\ UNCHANGED fileVars \/ pc[p] \in Acting \/ Owned(p)
        /\ \A q \in Procs : q # p => payload'[q] = payload[q]
    BY <1>3, <1>6 DEF RenameBackup, Go, fileVars, Acting
  <2>2. AckedSurvives' /\ BackupIsOlder'
    BY <1>2, <1>3, <1>6 DEF RenameBackup, Go, Known, AckedSurvives, BackupIsOlder, Stored,
       fileVars, Acting
  <2>3. KnownOK(p)'
    BY <1>2, <1>3, <1>6 DEF RenameBackup, Go, KnownOK, Known, AckedSurvives,
       BackupIsOlder, Stored, fileVars, Owning, Acting, lockVars
  <2> QED BY <1>4, <2>1, <2>2, <2>3
<1>7. CASE RemoveBackup(p, "dropping", "read")
  <2>1. /\ UNCHANGED fileVars \/ pc[p] \in Acting \/ Owned(p)
        /\ \A q \in Procs : q # p => payload'[q] = payload[q]
    BY <1>3, <1>7 DEF RemoveBackup, Go, fileVars, Acting
  <2>2. AckedSurvives' /\ BackupIsOlder'
    BY <1>2, <1>3, <1>7 DEF RemoveBackup, Go, Known, AckedSurvives, BackupIsOlder, Stored,
       fileVars, Acting
  <2>3. KnownOK(p)'
    BY <1>2, <1>3, <1>7 DEF RemoveBackup, Go, KnownOK, Known, AckedSurvives,
       BackupIsOlder, Stored, fileVars, Owning, Acting, lockVars
  <2> QED BY <1>4, <2>1, <2>2, <2>3
<1>8. CASE Read(p)
  <2>1. /\ UNCHANGED fileVars \/ pc[p] \in Acting \/ Owned(p)
        /\ \A q \in Procs : q # p => payload'[q] = payload[q]
    BY <1>3, <1>8 DEF Read, Go, fileVars, Acting
  <2>2. AckedSurvives' /\ BackupIsOlder'
    BY <1>2, <1>3, <1>8 DEF Read, Go, Known, AckedSurvives, BackupIsOlder, Stored,
       fileVars, Acting
  <2>3. KnownOK(p)'
    BY <1>2, <1>3, <1>8 DEF Read, Go, KnownOK, Known, AckedSurvives, BackupIsOlder,
       Stored, fileVars, Owning, Acting, lockVars
  <2> QED BY <1>4, <2>1, <2>2, <2>3
<1>9. CASE Check(p, "replace", "replacing")
  <2>1. /\ UNCHANGED fileVars \/ pc[p] \in Acting \/ Owned(p)
        /\ \A q \in Procs : q # p => payload'[q] = payload[q]
    BY <1>3, <1>9 DEF Check, Go, Owned, fileVars, Acting
  <2>2. AckedSurvives' /\ BackupIsOlder'
    BY <1>2, <1>3, <1>9 DEF Check, Go, Owned, Known, AckedSurvives, BackupIsOlder, Stored,
       fileVars, Acting
  <2>3. KnownOK(p)'
    BY <1>2, <1>3, <1>9 DEF Check, Go, Owned, KnownOK, Known, AckedSurvives,
       BackupIsOlder, Stored, fileVars, Owning, Acting, lockVars
  <2> QED BY <1>4, <2>1, <2>2, <2>3
<1>10. CASE Replace(p)
  <2>1. /\ UNCHANGED fileVars \/ pc[p] \in Acting \/ Owned(p)
        /\ \A q \in Procs : q # p => payload'[q] = payload[q]
    BY <1>3, <1>10 DEF Replace, Go, fileVars, Acting
  <2>2. AckedSurvives' /\ BackupIsOlder'
    BY <1>2, <1>3, <1>10 DEF Replace, Go, Known, AckedSurvives, BackupIsOlder, Stored,
       fileVars, Acting
  <2>3. KnownOK(p)'
    BY <1>2, <1>3, <1>10 DEF Replace, Go, KnownOK, Known, AckedSurvives, BackupIsOlder,
       Stored, fileVars, Owning, Acting, lockVars
  <2> QED BY <1>4, <2>1, <2>2, <2>3
<1>11. CASE Fallback(p)
  <2>1. /\ UNCHANGED fileVars \/ pc[p] \in Acting \/ Owned(p)
        /\ \A q \in Procs : q # p => payload'[q] = payload[q]
    BY <1>3, <1>11 DEF Fallback, Go, Owned, fileVars, Acting
  <2>2. AckedSurvives' /\ BackupIsOlder'
    BY <1>2, <1>3, <1>11 DEF Fallback, Go, Owned, Known, AckedSurvives, BackupIsOlder,
       Stored, fileVars, Acting
  <2>3. KnownOK(p)'
    BY <1>2, <1>3, <1>11 DEF Fallback, Go, Owned, KnownOK, Known, AckedSurvives,
       BackupIsOlder, Stored, fileVars, Owning, Acting, lockVars
  <2> QED BY <1>4, <2>1, <2>2, <2>3
<1>12. CASE MoveToBackup(p)
  <2>1. /\ UNCHANGED fileVars \/ pc[p] \in Acting \/ Owned(p)
        /\ \A q \in Procs : q # p => payload'[q] = payload[q]
    BY <1>3, <1>12 DEF MoveToBackup, Go, fileVars, Acting
  <2>2. AckedSurvives' /\ BackupIsOlder'
    BY <1>2, <1>3, <1>12 DEF MoveToBackup, Go, Known, AckedSurvives, BackupIsOlder,
       Stored, fileVars, Acting
  <2>3. KnownOK(p)'
    BY <1>2, <1>3, <1>12 DEF MoveToBackup, Go, KnownOK, Known, AckedSurvives,
       BackupIsOlder, Stored, fileVars, Owning, Acting, lockVars
  <2> QED BY <1>4, <2>1, <2>2, <2>3
<1>13. CASE Check(p, "install", "installing")
  <2>1. /\ UNCHANGED fileVars \/ pc[p] \in Acting \/ Owned(p)
        /\ \A q \in Procs : q # p => payload'[q] = payload[q]
    BY <1>3, <1>13 DEF Check, Go, Owned, fileVars, Acting
  <2>2. AckedSurvives' /\ BackupIsOlder'
    BY <1>2, <1>3, <1>13 DEF Check, Go, Owned, Known, AckedSurvives, BackupIsOlder,
       Stored, fileVars, Acting
  <2>3. KnownOK(p)'
    BY <1>2, <1>3, <1>13 DEF Check, Go, Owned, KnownOK, Known, AckedSurvives,
       BackupIsOlder, Stored, fileVars, Owning, Acting, lockVars
  <2> QED BY <1>4, <2>1, <2>2, <2>3
<1>14. CASE Install(p)
  <2>1. /\ UNCHANGED fileVars \/ pc[p] \in Acting \/ Owned(p)
        /\ \A q \in Procs : q # p => payload'[q] = payload[q]
    BY <1>3, <1>14 DEF Install, Go, fileVars, Acting
  <2>2. AckedSurvives' /\ BackupIsOlder'
    BY <1>2, <1>3, <1>14 DEF Install, Go, Known, AckedSurvives, BackupIsOlder, Stored,
       fileVars, Acting
  <2>3. KnownOK(p)'
    BY <1>2, <1>3, <1>14 DEF Install, Go, KnownOK, Known, AckedSurvives, BackupIsOlder,
       Stored, fileVars, Owning, Acting, lockVars
  <2> QED BY <1>4, <2>1, <2>2, <2>3
<1>15. CASE Check(p, "clear", "clearing")
  <2>1. /\ UNCHANGED fileVars \/ pc[p] \in Acting \/ Owned(p)
        /\ \A q \in Procs : q # p => payload'[q] = payload[q]
    BY <1>3, <1>15 DEF Check, Go, Owned, fileVars, Acting
  <2>2. AckedSurvives' /\ BackupIsOlder'
    BY <1>2, <1>3, <1>15 DEF Check, Go, Owned, Known, AckedSurvives, BackupIsOlder,
       Stored, fileVars, Acting
  <2>3. KnownOK(p)'
    BY <1>2, <1>3, <1>15 DEF Check, Go, Owned, KnownOK, Known, AckedSurvives,
       BackupIsOlder, Stored, fileVars, Owning, Acting, lockVars
  <2> QED BY <1>4, <2>1, <2>2, <2>3
<1>16. CASE RemoveBackup(p, "clearing", "finish")
  <2>1. /\ UNCHANGED fileVars \/ pc[p] \in Acting \/ Owned(p)
        /\ \A q \in Procs : q # p => payload'[q] = payload[q]
    BY <1>3, <1>16 DEF RemoveBackup, Go, fileVars, Acting
  <2>2. AckedSurvives' /\ BackupIsOlder'
    BY <1>2, <1>3, <1>16 DEF RemoveBackup, Go, Known, AckedSurvives, BackupIsOlder,
       Stored, fileVars, Acting
  <2>3. KnownOK(p)'
    BY <1>2, <1>3, <1>16 DEF RemoveBackup, Go, KnownOK, Known, AckedSurvives,
       BackupIsOlder, Stored, fileVars, Owning, Acting, lockVars
  <2> QED BY <1>4, <2>1, <2>2, <2>3
<1>17. CASE Restore(p)
  <2>1. /\ UNCHANGED fileVars \/ pc[p] \in Acting \/ Owned(p)
        /\ \A q \in Procs : q # p => payload'[q] = payload[q]
    BY <1>3, <1>17 DEF Restore, Go, Owned, fileVars, Acting
  <2>2. AckedSurvives' /\ BackupIsOlder'
    BY <1>2, <1>3, <1>17 DEF Restore, Go, Owned, Known, AckedSurvives, BackupIsOlder,
       Stored, fileVars, Acting
  <2>3. KnownOK(p)'
    BY <1>2, <1>3, <1>17 DEF Restore, Go, Owned, KnownOK, Known, AckedSurvives,
       BackupIsOlder, Stored, fileVars, Owning, Acting, lockVars
  <2> QED BY <1>4, <2>1, <2>2, <2>3
<1>18. CASE RenameBackup(p, "restoring", "release")
  <2>1. /\ UNCHANGED fileVars \/ pc[p] \in Acting \/ Owned(p)
        /\ \A q \in Procs : q # p => payload'[q] = payload[q]
    BY <1>3, <1>18 DEF RenameBackup, Go, fileVars, Acting
  <2>2. AckedSurvives' /\ BackupIsOlder'
    BY <1>2, <1>3, <1>18 DEF RenameBackup, Go, Known, AckedSurvives, BackupIsOlder,
       Stored, fileVars, Acting
  <2>3. KnownOK(p)'
    BY <1>2, <1>3, <1>18 DEF RenameBackup, Go, KnownOK, Known, AckedSurvives,
       BackupIsOlder, Stored, fileVars, Owning, Acting, lockVars
  <2> QED BY <1>4, <2>1, <2>2, <2>3
<1>19. CASE Finish(p)
  <2>1. /\ UNCHANGED fileVars \/ pc[p] \in Acting \/ Owned(p)
        /\ \A q \in Procs : q # p => payload'[q] = payload[q]
    BY <1>3, <1>19 DEF Finish, Go, Owned, fileVars, Acting
  <2>2. AckedSurvives' /\ BackupIsOlder'
    BY <1>2, <1>3, <1>19 DEF Finish, Go, Owned, Known, AckedSurvives, BackupIsOlder,
       Stored, fileVars, Acting
  <2>3. KnownOK(p)'
    BY <1>2, <1>3, <1>19 DEF Finish, Go, Owned, KnownOK, Known, AckedSurvives,
       BackupIsOlder, Stored, fileVars, Owning, Acting, lockVars
  <2> QED BY <1>4, <2>1, <2>2, <2>3
<1>20. CASE FailIO(p)
  <2>1. /\ UNCHANGED fileVars \/ pc[p] \in Acting \/ Owned(p)
        /\ \A q \in Procs : q # p => payload'[q] = payload[q]
    BY <1>3, <1>20 DEF FailIO, Go, fileVars, Acting
  <2>2. AckedSurvives' /\ BackupIsOlder'
    BY <1>2, <1>3, <1>20 DEF FailIO, Go, Known, AckedSurvives, BackupIsOlder, Stored,
       fileVars, Acting
  <2>3. KnownOK(p)'
    BY <1>2, <1>3, <1>20 DEF FailIO, Go, KnownOK, Known, AckedSurvives, BackupIsOlder,
       Stored, fileVars, Owning, Acting, lockVars
  <2> QED BY <1>4, <2>1, <2>2, <2>3
<1> QED BY <1>5, <1>6, <1>7, <1>8, <1>9, <1>10, <1>11, <1>12, <1>13, <1>14, <1>15, <1>16,
           <1>17, <1>18, <1>19, <1>20

\* Every step keeps the files in order.
LEMMA FilesStep ==
  ASSUME IInv, AtMostTwo, [Next]_vars
  PROVE  FilesOK'
<1> USE DEF IInv
<1>1. ASSUME NEW p \in Procs, Transaction(p) PROVE FilesOK'
  BY <1>1, LockStepFiles, FileStepFiles DEF Transaction
<1>2. CASE GrowStale
  BY <1>2, FilesStay DEF GrowStale, Reachable
<1>3. CASE UNCHANGED vars
  BY <1>3, FilesStay DEF vars, fileVars, Reachable
<1> QED BY <1>1, <1>2, <1>3, LockStepFiles, FileStepFiles DEF Next

-----------------------------------------------------------------------------
(* What DurableWrites promises. *)

\* A step on the file adds the write of its owner to what is stored, or
\* nothing; the last one confirms it.
LEMMA FileStepDurable ==
  ASSUME IInv, NEW p \in Procs,
         \/ RenameBackup(p, "recovering", "read")
         \/ RemoveBackup(p, "dropping", "read")
         \/ Replace(p) \/ MoveToBackup(p) \/ Install(p)
         \/ RemoveBackup(p, "clearing", "finish")
         \/ RenameBackup(p, "restoring", "release")
         \/ Finish(p)
  PROVE  [Durable!DNext]_<<Stored, acked>>
<1>1. /\ pc[p] \in Acting \/ (pc[p] \in Owning /\ Owned(p)) => Known(p)
      /\ pc[p] \in Owning => nonce[p] \in Nonces
  <2>1. Owned(p) => Reachable(p)
    BY DEF Owned, Reachable
  <2> QED BY <2>1, BoundAssumption
          DEF IInv, FilesOK, KnownOK, LockOK, NoncesOK, BearerOK, Bearing, TypeOK, Nonces
<1>2. /\ primary \in Contents \cup {Absent} /\ backup \in Contents \cup {Absent}
      /\ payload[p] \in Contents /\ Absent \notin Contents
  BY AbsentAssumption DEF IInv, TypeOK, Contents, Nonces
<1>3. ASSUME NEW to, RenameBackup(p, "recovering", to) \/ RenameBackup(p, "restoring", to)
      PROVE  UNCHANGED <<Stored, acked>>
  BY <1>1, <1>2, <1>3 DEF RenameBackup, Known, Stored, Acting
<1>4. ASSUME NEW to, RemoveBackup(p, "dropping", to) \/ RemoveBackup(p, "clearing", to)
      PROVE  UNCHANGED <<Stored, acked>>
  BY <1>1, <1>2, <1>4 DEF RemoveBackup, Known, Stored, Acting
<1>5. CASE Replace(p) \/ Install(p)
  <2>1. nonce[p] \in Nonces /\ UNCHANGED acked
    BY <1>1, <1>5 DEF Replace, Install, Owning, Acting
  <2>2. Stored' = Stored \/ Stored' = Stored \cup {nonce[p]}
    BY <1>1, <1>2, <1>5 DEF Replace, Install, Known, Stored, Acting
  <2> QED BY <2>1, <2>2 DEF Durable!DNext, Durable!Store
<1>6. CASE MoveToBackup(p)
  BY <1>1, <1>2, <1>6 DEF MoveToBackup, Known, Stored, Acting
<1>7. CASE Finish(p)
  <2>1. nonce[p] \in Nonces /\ UNCHANGED Stored
    BY <1>1, <1>7 DEF Finish, Owning, Stored
  <2>2. Owned(p) => nonce[p] \in Stored
    BY <1>1, <1>7 DEF Finish, Owning, Known, Stored
  <2>3. acked' = acked \/ (Owned(p) /\ acked' = acked \cup {nonce[p]})
    BY <1>7 DEF Finish
  <2> QED BY <2>1, <2>2, <2>3 DEF Durable!DNext, Durable!Confirm
<1> QED BY <1>3, <1>4, <1>5, <1>6, <1>7

\* Every other step leaves the file alone.
LEMMA DurableStep ==
  ASSUME IInv, [Next]_vars
  PROVE  [Durable!DNext]_<<Stored, acked>>
<1>1. UNCHANGED fileVars => UNCHANGED <<Stored, acked>>
  BY DEF fileVars, Stored
<1>2. ASSUME NEW p \in Procs, MakeDirectory(p) \/ TakeOver(p) PROVE UNCHANGED fileVars
  BY <1>2 DEF MakeDirectory, TakeOver, ObserveStale, RenameAside, CheckTakenOver, PutBack,
     fileVars
<1>3. ASSUME NEW p \in Procs,
             \/ WriteLease(p) \/ Recover(p) \/ Read(p) \/ Fallback(p) \/ Restore(p)
             \/ Check(p, "replace", "replacing") \/ Check(p, "install", "installing")
             \/ Check(p, "clear", "clearing") \/ Release(p)
             \/ RenameAside(p, "releasing", "released") \/ CheckReleased(p)
      PROVE  UNCHANGED fileVars
  BY <1>3 DEF WriteLease, Recover, Read, Fallback, Restore, Check, Release, RenameAside,
     CheckReleased, fileVars
<1>4. ASSUME NEW p \in Procs, GrowStale \/ Crash(p) \/ Restart(p) \/ FailIO(p)
      PROVE  UNCHANGED fileVars
  BY <1>4 DEF GrowStale, Crash, Restart, FailIO, fileVars
<1>5. GrowStale \/ UNCHANGED vars => UNCHANGED fileVars
  BY DEF GrowStale, vars, fileVars
<1>6. ASSUME NEW p \in Procs, Transaction(p) PROVE [Durable!DNext]_<<Stored, acked>>
  BY <1>1, <1>3, <1>6, FileStepDurable DEF Transaction
<1> QED BY <1>1, <1>2, <1>4, <1>5, <1>6 DEF Next

-----------------------------------------------------------------------------
(* The theorems. *)

\* At first nobody is at work, nothing is acknowledged and there is no backup.
LEMMA Initially == ASSUME Init PROVE IInv
<1> USE BoundAssumption DEF Init
<1>1. TypeOK
  BY DEF TypeOK, Locks, Free, Contents, Nonces, Pcs
<1>2. LockOK
  BY DEF LockOK, NoncesOK, QuietWhenStale, BearerOK, CarrierOK, PairOK, ActorOK,
     LeaserOK, Bearing, Carrying, Owning, Acting, Free
<1>3. FilesOK
  BY DEF FilesOK, AckedSurvives, BackupIsOlder, KnownOK, Owning, Acting
<1> QED BY <1>1, <1>2, <1>3 DEF IInv

\* The invariant holds along every behaviour of two processes.
LEMMA Inductive ==
  ASSUME AtMostTwo
  PROVE  Spec => []IInv
<1>1. Init => IInv
  BY Initially
<1>2. IInv /\ [Next]_vars => IInv'
  <2> HAVE IInv /\ [Next]_vars
  <2>1. TypeOK' BY TypeStep DEF IInv, LockOK
  <2>2. LockOK' BY LockStep DEF IInv
  <2>3. FilesOK' BY FilesStep
  <2> QED BY <2>1, <2>2, <2>3 DEF IInv
<1> QED BY <1>1, <1>2, PTL DEF Spec

(***************************************************************************)
(* Of two processes only one acts on the state file and its backup at a    *)
(* time (acquireStateLock, takeoverStaleLease and assertOwned of           *)
(* dreamina-cli-state.ts), however often they die, take over a stale lock  *)
(* or find their own renamed away.                                         *)
(***************************************************************************)
THEOREM WritersTakeTurns ==
  ASSUME AtMostTwo
  PROVE  Spec => []OneWriter
<1>1. IInv => OneWriter
  BY LockedIsAlone DEF IInv
<1> QED BY <1>1, Inductive, PTL

(***************************************************************************)
(* A write that was acknowledged is in what the next owner reads           *)
(* (persistRuntimeDiskState, replaceStateFile, recoverStateReplacement):   *)
(* whichever of two processes dies or fails, between any two of its file   *)
(* operations, and however often.                                          *)
(***************************************************************************)
THEOREM AcknowledgedIsStored ==
  ASSUME AtMostTwo
  PROVE  Spec => []AckedSurvives
<1>1. IInv => AckedSurvives
  BY DEF IInv, FilesOK
<1> QED BY <1>1, Inductive, PTL

(***************************************************************************)
(* A backup beside the file has no write that the file lacks, so that      *)
(* recoverStateReplacement loses nothing when it drops it.                 *)
(***************************************************************************)
THEOREM BackupStaysOlder ==
  ASSUME AtMostTwo
  PROVE  Spec => []BackupIsOlder
<1>1. IInv => BackupIsOlder
  BY DEF IInv, FilesOK
<1> QED BY <1>1, Inductive, PTL

(***************************************************************************)
(* Two processes rewrite the file as DurableWrites says: a transaction     *)
(* takes effect in one step, over all that was stored before it, and is    *)
(* not taken back; no take-over, recovery, failed operation or death       *)
(* between two of them changes what is stored (withRuntimeDiskState,       *)
(* replaceStateFile and recoverStateReplacement).                          *)
(***************************************************************************)
THEOREM WritersAreAtomic ==
  ASSUME AtMostTwo
  PROVE  Spec => WritesAreAtomic
<1>1. Init => Durable!DInit
  BY DEF Init, Stored, Durable!DInit
<1>2. IInv /\ [Next]_vars => [Durable!DNext]_(Durable!dvars)
  BY DurableStep DEF Durable!dvars
<1> QED BY <1>1, <1>2, Inductive, PTL DEF Spec, WritesAreAtomic, Durable!DSpec

=============================================================================
