-------------------------- MODULE DreaminaArbiter --------------------------
(***************************************************************************)
(* The arbiter of the Dreamina CLI (canvas-agent/src/dreamina-cli-         *)
(* arbiter.ts): all runtimes share one CLI and one account session, and    *)
(* invoke the CLI one after the other, in the order of their tickets,      *)
(* under a lease that lapses when its owner stops renewing it.             *)
(***************************************************************************)
EXTENDS DreaminaJournal

\* Who asks: the submission of a key, or the reconciler of a runtime.
Submission(r, k) == <<r, k>>
Polling(r) == <<r>>

Request(client, expected) ==
  waiting' = Append(waiting, [who |-> client, session |-> expected])

\* Mutant: only a lease that was given back is free, not one that lapsed.
IsFirstUnexpired(client) ==
  waiting # <<>> /\ Head(waiting).who = client /\ active.who = <<>>

IsFirst(client) ==
  /\ waiting # <<>> /\ Head(waiting).who = client
  /\ active.who = <<>> \/ ~active.live

\* Mutant: the session that the caller expects is not compared.
GrantAnySession(client) ==
  /\ IsFirst(client)
  /\ active' = [who |-> client, session |-> session, live |-> TRUE]
  /\ waiting' = Tail(waiting)
  /\ UNCHANGED session

\* acquire, the request at the head when no lease is in force: it is granted
\* only if the account session is still the one that the caller expects.
Grant(client) ==
  /\ IsFirst(client) /\ Head(waiting).session = session
  /\ active' = [who |-> client, session |-> session, live |-> TRUE]
  /\ waiting' = Tail(waiting)
  /\ UNCHANGED session

Place(client) == CHOOSE i \in 1 .. Len(waiting) : waiting[i].who = client

\* removeQueued: a client has at most one request.
Withdraw(client) ==
  /\ waiting' = IF client \in {w.who : w \in ToSet(waiting)}
                THEN RemoveAt(waiting, Place(client)) ELSE waiting
  /\ UNCHANGED <<active, session>>

\* The session moved on, or the request waited too long.
Refuse(client) ==
  /\ client \in {w.who : w \in ToSet(waiting)}
  /\ \/ IsFirst(client) /\ Head(waiting).session # session
     \/ "busy" \in Features
  /\ Withdraw(client)

IsCurrent(client) ==
  active.who = client /\ active.live /\ active.session = session

\* release: only the lease of the one who releases is given back.
Release(client) ==
  /\ active' = IF active.who = client THEN NoLease ELSE active
  /\ UNCHANGED <<waiting, session>>

\* What is left of a client that died, or that stopped renewing.
ExpireCliLease ==
  /\ active.live
  /\ active.who[1] \notin alive \/ "slowcli" \in Features
  /\ active' = [active EXCEPT !.live = FALSE]
  /\ UNCHANGED <<waiting, session, journalVars, alive, task, holder, poll, job,
                 ghostVars>>

ExpireRequest ==
  \E w \in ToSet(waiting) :
     /\ w.who[1] \notin alive
     /\ Withdraw(w.who)
     /\ UNCHANGED <<journalVars, alive, task, holder, poll, job, ghostVars>>

\* advanceSession and commitSession by the service that logs in and out: it
\* changes the session under a lease of its own.
SwitchAccount ==
  /\ session < MaxSessions
  /\ active.who = <<>> \/ ~active.live
  /\ session' = session + 1
  /\ active' = NoLease
  /\ UNCHANGED <<waiting, journalVars, alive, task, holder, poll, job, ghostVars>>
=============================================================================
