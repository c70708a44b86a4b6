--------------------------- MODULE CanvasDocument ---------------------------
(***************************************************************************)
(* The canvas document of a browser: one stored copy (IndexedDB) that the  *)
(* pages of a user write under one lock, and in each page a memory copy    *)
(* that the user edits.  An edit queues an ordinary save; a save merges    *)
(* three ways: what the page last saw stored (base), what it queued        *)
(* (local) and what is stored now (durable).  The result of a generation   *)
(* is written by a commit of its own, which stamps the node with the       *)
(* effect; an ordinary save must carry no stamp that is not stored yet.    *)
(*                                                                         *)
(* One project; a node is its content and its stamps.  The page's memory   *)
(* stands for the store and for the React state it mirrors.                *)
(***************************************************************************)
EXTENDS Naturals, FiniteSets

CONSTANTS
  Tabs, NoTab,  \* pages of one user; no page
  Nodes,        \* nodes of the project
  Target,       \* the node generations write to
  Effects,      \* generations: an effect is the stamp and the result it writes
  ShownFirst,   \* BOOLEANs: may the page show a result before it is stored?
  MaxEdits, MaxTries, MaxFailures, MaxReopens  \* bounds

ASSUME NodesAssumption == Target \in Nodes /\ NoTab \notin Tabs /\ ShownFirst \subseteq BOOLEAN
ASSUME BoundsAssumption == {MaxEdits, MaxTries, MaxFailures, MaxReopens} \subseteq Nat

VARIABLES
  doc,        \* the stored document: revision, nodes, revision of each deletion
  memory,     \* nodes a page shows
  observed,   \* what the page last saw stored
  queue,      \* the ordinary save that waits
  attempt,    \* the generation commit a page has registered
  job,        \* what the page does under the lock
  lock,       \* the page that holds the lock
  edits, tries, failures, reopens,
  recovers,   \* the page has still to look after the generations of its nodes
  committed,  \* effects whose commit was written
  touched     \* nodes the user of a page has changed since it loaded

counts == <<edits, tries, failures, reopens>>
vars == <<doc, memory, observed, queue, attempt, job, lock, counts, recovers, committed, touched>>

Texts == Effects \cup (0 .. MaxEdits)
NodeValues == [here : BOOLEAN, text : Texts, keys : SUBSET Effects]
Absent == [here |-> FALSE, text |-> 0, keys |-> {}]
Contents == [Nodes -> NodeValues]
Revisions == 0 .. 2 * (MaxEdits + 3 * MaxTries)

Documents == [rev : Revisions, nodes : Contents, tombs : [Nodes -> Revisions]]
Queues == [base : Contents, baseRev : Revisions, state : Contents, fresh : BOOLEAN]
NoQueue == [base |-> {}]
Attempts == [effect : Effects, first : BOOLEAN, base : Contents, local : Contents, start : Contents, rev : Revisions]
NoAttempt == [base |-> {}]
Jobs == [pc : {"none", "save", "drain", "merge", "rest", "publish"}, taken : Queues \cup {NoQueue}]
NoJob == [pc |-> "none", taken |-> NoQueue]

Init ==
  /\ doc = [rev |-> 0, nodes |-> [n \in Nodes |-> [Absent EXCEPT !.here = TRUE]],
            tombs |-> [n \in Nodes |-> 0]]
  /\ memory = [t \in Tabs |-> doc.nodes]
  /\ observed = [t \in Tabs |-> [nodes |-> doc.nodes, rev |-> 0]]
  /\ queue = [t \in Tabs |-> NoQueue]
  /\ attempt = [t \in Tabs |-> NoAttempt]
  /\ job = [t \in Tabs |-> NoJob]
  /\ lock = NoTab
  /\ edits = 0 /\ tries = 0 /\ failures = 0 /\ reopens = 0
  /\ recovers = [t \in Tabs |-> FALSE]
  /\ committed = {}
  /\ touched = [t \in Tabs |-> {}]

-----------------------------------------------------------------------------
(* The three-way merge. *)

\* mergeRecord on a node that is in both: a field one side left alone is the
\* other's, stamps are united, and durable wins a text both changed.
MergedNode(base, local, durable) ==
  [here |-> TRUE,
   text |-> IF base.here /\ durable.text = base.text THEN local.text ELSE durable.text,
   keys |-> CASE base.here /\ local.keys = base.keys -> durable.keys
              [] base.here /\ durable.keys = base.keys -> local.keys
              [] OTHER -> durable.keys \cup local.keys]

TextConflict(base, local, durable) ==
  /\ local.text # durable.text
  /\ base.here => local.text # base.text /\ durable.text # base.text

\* mergeEntities, for one node.
Deletes(base, local) == base.here /\ ~ local.here
Writes(base, local) == local.here /\ base # local

\* A write meets a deletion: of a node the base had, or made since the base.
MeetsDeletion(base, durable, tomb, baseRev) == ~ durable.here /\ (base.here \/ tomb > baseRev)

RebasedNode(base, local, durable, tomb, baseRev) ==
  CASE Deletes(base, local) -> Absent
    [] ~ Deletes(base, local) /\ ~ Writes(base, local) -> durable
    [] Writes(base, local) /\ durable.here -> MergedNode(base, local, durable)
    [] Writes(base, local) /\ ~ durable.here ->
         IF MeetsDeletion(base, durable, tomb, baseRev) THEN Absent ELSE local

RebasedTomb(base, local, durable, tomb, baseRev, next) ==
  CASE Deletes(base, local) -> next
    [] Writes(base, local) /\ ~ MeetsDeletion(base, durable, tomb, baseRev) -> 0
    [] OTHER -> tomb

\* rebaseCanvasProjects
Rebase(d, base, local, baseRev) ==
  [rev   |-> d.rev + 1,
   nodes |-> [n \in Nodes |-> RebasedNode(base[n], local[n], d.nodes[n], d.tombs[n], baseRev)],
   tombs |-> [n \in Nodes |->
                RebasedTomb(base[n], local[n], d.nodes[n], d.tombs[n], baseRev, d.rev + 1)]]

Conflicts(d, base, local, baseRev) ==
  {n \in Nodes : /\ Writes(base[n], local[n])
                 /\ IF d.nodes[n].here THEN TextConflict(base[n], local[n], d.nodes[n])
                    ELSE MeetsDeletion(base[n], d.nodes[n], d.tombs[n], baseRev)}

-----------------------------------------------------------------------------
(* The ordinary save. *)

\* rollbackGenerationValue, for the content: what the attempt wrote is taken
\* back, what the user wrote over it stays.
RolledBack(a, n, live, durable) ==
  CASE a = NoAttempt                        -> durable.text
    [] a # NoAttempt /\ a.base[n].text = a.local[n].text -> live.text
    [] a # NoAttempt /\ live.text = a.local[n].text      -> durable.text
    [] OTHER                                -> live.text

OrdinaryRaw(a, mem, durable) == mem

\* ordinaryCanvasProjectSnapshot: what an ordinary save may carry of the
\* page's memory, given what is stored and the attempt that runs.
Ordinary(a, mem, durable) ==
  [n \in Nodes |->
     LET unconfirmed == ~ (mem[n].keys \subseteq durable[n].keys) IN
     CASE ~ mem[n].here                     -> Absent
       [] mem[n].here /\ unconfirmed /\ ~ durable[n].here -> Absent
       [] mem[n].here /\ unconfirmed /\ durable[n].here   ->
            [durable[n] EXCEPT !.text = RolledBack(a, n, mem[n], durable[n])]
       [] OTHER                             -> [mem[n] EXCEPT !.keys = durable[n].keys]]

\* setItem: the save is queued on the base of the one that waits, else on what
\* the page last saw stored.
Queued(q, a, mem, seen) ==
  [base    |-> IF q = NoQueue THEN seen.nodes ELSE q.base,
   baseRev |-> IF q = NoQueue THEN seen.rev ELSE q.baseRev,
   state   |-> Ordinary(a, mem, seen.nodes),
   fresh   |-> TRUE]

AsSeen(d) == [nodes |-> d.nodes, rev |-> d.rev]

\* The user changes, makes or deletes a node.
Edit(t, n) ==
  /\ edits < MaxEdits
  /\ edits' = edits + 1
  /\ \E new \in {[memory[t][n] EXCEPT !.here = TRUE, !.text = edits + 1], Absent} :
       /\ new # memory[t][n]
       /\ memory' = [memory EXCEPT ![t][n] = new]
  /\ queue' = [queue EXCEPT ![t] = Queued(@, attempt[t], memory'[t], observed[t])]
  /\ touched' = [touched EXCEPT ![t] = @ \cup {n}]
  /\ UNCHANGED <<doc, observed, attempt, job, lock, tries, failures, reopens, recovers, committed>>

\* The job takes the save that waits, or goes on when there is none.
Take(t, q, pc, otherwise) ==
  IF q = NoQueue
  THEN /\ job' = [job EXCEPT ![t] = [pc |-> otherwise, taken |-> NoQueue]]
       /\ queue' = [queue EXCEPT ![t] = NoQueue]
  ELSE /\ job' = [job EXCEPT ![t] = [pc |-> pc, taken |-> q]]
       /\ queue' = [queue EXCEPT ![t] = [q EXCEPT !.fresh = FALSE]]

\* writeQueuedCanvasPersist: the timer fires, or the queue is flushed.
SaveStart(t) ==
  /\ lock = NoTab /\ job[t] = NoJob /\ queue[t] # NoQueue
  /\ lock' = t
  /\ Take(t, queue[t], "save", "none")
  /\ UNCHANGED <<doc, memory, observed, attempt, counts, recovers, committed, touched>>

AfterSave(pc) == CASE pc = "save" -> "none" [] pc = "drain" -> "merge" [] pc = "rest" -> "publish"

RetakenOnOldBase(q, written, rev) == q

\* The save that was queued while one was written: its base is what was written.
Retaken(q, written, rev) == [q EXCEPT !.base = written, !.baseRev = rev]

\* commitPendingCanvasStorePersistenceLocked: one round.
SaveWrite(t) ==
  LET taken == job[t].taken
      pc    == job[t].pc
      again == queue[t].fresh
      next  == Retaken(queue[t], taken.state, doc'.rev)
  IN
  /\ pc \in {"save", "drain", "rest"}
  /\ doc' = Rebase(doc, taken.base, taken.state, taken.baseRev)
  /\ observed' = [observed EXCEPT ![t] = AsSeen(doc')]
  /\ Take(t, IF again THEN next ELSE NoQueue, pc, AfterSave(pc))
  /\ lock' = IF ~ again /\ pc = "save" THEN NoTab ELSE lock
  /\ UNCHANGED <<memory, attempt, counts, recovers, committed, touched>>

-----------------------------------------------------------------------------
(* The commit of a generation. *)

\* persistCanvasGenerationEffect begins: the attempt is registered, on a page
\* that may show the result already; the save that waits is projected anew.
Begin(t, e) ==
  /\ tries < MaxTries
  /\ attempt[t] = NoAttempt
  /\ memory[t][Target].here /\ e \notin memory[t][Target].keys
  /\ tries' = tries + 1
  /\ \E first \in ShownFirst :
       LET local == [memory[t] EXCEPT ![Target].text = e, ![Target].keys = @ \cup {e}]
           start == IF first THEN local ELSE memory[t]
           a     == [effect |-> e, first |-> first, base |-> memory[t], local |-> local,
                     start |-> start, rev |-> observed[t].rev]
       IN  /\ attempt' = [attempt EXCEPT ![t] = a]
           /\ memory' = [memory EXCEPT ![t] = start]
           /\ queue' = IF first \/ queue[t] # NoQueue
                       THEN [queue EXCEPT ![t] = [Queued(@, a, start, observed[t]) EXCEPT
                                                    !.fresh = first \/ queue[t].fresh]]
                       ELSE queue
  /\ UNCHANGED <<doc, observed, job, lock, edits, failures, reopens, recovers, committed, touched>>

GenStart(t) ==
  /\ lock = NoTab /\ job[t] = NoJob /\ attempt[t] # NoAttempt
  /\ lock' = t
  /\ Take(t, queue[t], "drain", "merge")
  /\ UNCHANGED <<doc, memory, observed, attempt, counts, recovers, committed, touched>>

EndJob(t) ==
  /\ attempt' = [attempt EXCEPT ![t] = NoAttempt]
  /\ job' = [job EXCEPT ![t] = NoJob]
  /\ lock' = NoTab

\* rebasePendingCanvasStorePersistenceAfterGenerationCommitLocked
RebasedQueue(q, a, mem, d) ==
  IF q = NoQueue THEN q
  ELSE [base |-> d.nodes, baseRev |-> d.rev, state |-> Ordinary(a, mem, d.nodes), fresh |-> TRUE]

\* The commit point: the result merges with what is stored, without conflict.
GenWrite(t) ==
  LET a == attempt[t] IN
  /\ job[t].pc = "merge"
  /\ Conflicts(doc, a.base, a.local, a.rev) = {}
  /\ doc' = Rebase(doc, a.base, a.local, a.rev)
  /\ committed' = committed \cup {a.effect}
  /\ observed' = [observed EXCEPT ![t] = AsSeen(doc')]
  /\ Take(t, RebasedQueue(queue[t], a, memory[t], doc'), "rest", "publish")
  /\ UNCHANGED <<memory, attempt, lock, counts, recovers, touched>>

\* What the page makes of a refused result.  One that showed it before puts
\* its node back as it was (reconcileCinematicAckFailureCanvas); one that did
\* not writes it into the node it shows, unstamped (applyStoredTaskResult).
Refused(a, mem) ==
  CASE a.first                        -> [mem EXCEPT ![Target] = a.base[Target]]
    [] ~ a.first /\ mem[Target].here  -> [mem EXCEPT ![Target].text = a.effect]
    [] OTHER                          -> mem

\* The end of a commit that was not written: the page's memory is mem, and the
\* change it makes to it is queued like any other, on what it saw stored.
Refuse(t, mem, seen) ==
  /\ observed' = [observed EXCEPT ![t] = seen]
  /\ memory' = [memory EXCEPT ![t] = Refused(attempt[t], mem)]
  /\ queue' = [queue EXCEPT ![t] = Queued(@, NoAttempt, memory'[t], seen)]
  /\ touched' = [touched EXCEPT ![t] = @ \cup {Target}]
  /\ EndJob(t)

\* A conflict: nothing is written, and the page takes what is stored together
\* with what its user changed since the attempt (reconcileCanvasGenerationLiveProject).
GenConflict(t) ==
  LET a == attempt[t] IN
  /\ job[t].pc = "merge"
  /\ Conflicts(doc, a.base, a.local, a.rev) # {}
  /\ Refuse(t, Rebase(doc, a.local, memory[t], doc.rev).nodes, AsSeen(doc))
  /\ UNCHANGED <<doc, counts, recovers, committed>>

\* The result is not written: the storage fails or the attempt is aborted; the
\* page takes the result back (reconcileCanvasGenerationFailure).
GenFails(t) ==
  /\ failures < MaxFailures
  /\ job[t].pc = "merge"
  /\ failures' = failures + 1
  /\ Refuse(t, Ordinary(attempt[t], memory[t], doc.nodes), AsSeen(doc))
  /\ UNCHANGED <<doc, edits, tries, reopens, recovers, committed>>

PublishedAsIs(a, mem) == mem

\* A node that is delivered but shows no content gets the result once more.
Published(a, mem) ==
  IF ~ a.first /\ mem[Target].here /\ mem[Target].text = 0
  THEN [mem EXCEPT ![Target].text = a.effect]
  ELSE mem

\* The committed document is rebased onto what the page shows by now.
Publish(t) ==
  LET a == attempt[t] IN
  /\ job[t].pc = "publish"
  /\ observed' = [observed EXCEPT ![t] = AsSeen(doc)]
  /\ memory' = [memory EXCEPT ![t] =
                  Published(a, Rebase([doc EXCEPT !.nodes = memory[t]], a.start, doc.nodes, a.rev).nodes)]
  /\ queue' = [queue EXCEPT ![t] = Queued(@, NoAttempt, memory'[t], observed'[t])]
  /\ EndJob(t)
  /\ UNCHANGED <<doc, counts, recovers, committed, touched>>

\* An ordinary write fails: the queue is kept; a commit that is not written
\* yet fails with it, one that is written is published all the same.
SaveFails(t) ==
  /\ failures < MaxFailures
  /\ failures' = failures + 1
  /\ \/ /\ job[t].pc = "save"
        /\ job' = [job EXCEPT ![t] = NoJob]
        /\ lock' = NoTab
        /\ UNCHANGED <<memory, observed, queue, attempt, touched>>
     \/ /\ job[t].pc = "drain"
        /\ Refuse(t, memory[t], observed[t])
     \/ /\ job[t].pc = "rest"
        /\ job' = [job EXCEPT ![t] = [pc |-> "publish", taken |-> NoQueue]]
        /\ UNCHANGED <<memory, observed, queue, attempt, lock, touched>>
  /\ UNCHANGED <<doc, edits, tries, reopens, recovers, committed>>

\* A page is closed at any point, its lock is free, and it is opened again.
Reopen(t) ==
  /\ reopens < MaxReopens
  /\ reopens' = reopens + 1
  /\ memory' = [memory EXCEPT ![t] = doc.nodes]
  /\ observed' = [observed EXCEPT ![t] = AsSeen(doc)]
  /\ queue' = [queue EXCEPT ![t] = NoQueue]
  /\ attempt' = [attempt EXCEPT ![t] = NoAttempt]
  /\ job' = [job EXCEPT ![t] = NoJob]
  /\ lock' = IF lock = t THEN NoTab ELSE lock
  /\ touched' = [touched EXCEPT ![t] = {}]
  /\ recovers' = [recovers EXCEPT ![t] = TRUE]
  /\ UNCHANGED <<doc, edits, tries, failures, committed>>

\* A page that was opened looks after its nodes: one that counts as delivered
\* and shows no content gets its result (recoverInterruptedGenerationTasks).
Recover(t) ==
  LET bare == memory[t][Target].here /\ memory[t][Target].keys # {} /\ memory[t][Target].text = 0 IN
  /\ recovers[t] /\ attempt[t] = NoAttempt
  /\ recovers' = [recovers EXCEPT ![t] = FALSE]
  /\ IF bare
     THEN /\ \E e \in memory[t][Target].keys : memory' = [memory EXCEPT ![t][Target].text = e]
          /\ queue' = [queue EXCEPT ![t] = Queued(@, NoAttempt, memory'[t], observed[t])]
     ELSE UNCHANGED <<memory, queue>>
  /\ UNCHANGED <<doc, observed, attempt, job, lock, counts, committed, touched>>

Next ==
  \E t \in Tabs :
    \/ \E n \in Nodes : Edit(t, n)
    \/ SaveStart(t)
    \/ SaveWrite(t)
    \/ SaveFails(t)
    \/ \E e \in Effects : Begin(t, e)
    \/ GenStart(t)
    \/ GenWrite(t)
    \/ GenConflict(t)
    \/ GenFails(t)
    \/ Publish(t)
    \/ Reopen(t)
    \/ Recover(t)

Spec == Init /\ [][Next]_vars

\* What a page does by itself while it is open: timers, the commit it awaits.
Progress(t) ==
  SaveStart(t) \/ SaveWrite(t) \/ GenStart(t) \/ GenWrite(t) \/ GenConflict(t) \/ Publish(t) \/ Recover(t)

FairSpec == Spec /\ \A t \in Tabs : WF_vars(Progress(t))

-----------------------------------------------------------------------------
(* Properties. *)

TypeOK ==
  /\ doc \in Documents
  /\ memory \in [Tabs -> Contents]
  /\ observed \in [Tabs -> [nodes : Contents, rev : Revisions]]
  /\ queue \in [Tabs -> Queues \cup {NoQueue}]
  /\ attempt \in [Tabs -> Attempts \cup {NoAttempt}]
  /\ job \in [Tabs -> Jobs]
  /\ lock \in Tabs \cup {NoTab}
  /\ recovers \in [Tabs -> BOOLEAN]

\* A stamp is stored only by the commit of its effect, however the page's
\* saves interleave with it and fail: an ordinary save that stored one would
\* make a result count as delivered that a conflict may still refuse.
StampsAreCommitted == \A n \in Nodes : doc.nodes[n].keys \subseteq committed

\* An ordinary save changes no node that the user of the page left alone: it
\* neither stores a result that is not committed, nor takes back one that is,
\* nor undoes what another page stored.
SavesOwnChanges ==
  [][\A t \in Tabs : lock = t /\ job[t].pc # "merge" =>
       \A n \in Nodes \ touched[t] : doc'.nodes[n] = doc.nodes[n]]_vars

AtRest(t) == queue[t] = NoQueue /\ attempt[t] = NoAttempt /\ job[t] = NoJob

\* A page that has nothing left to write shows what is stored: no edit made
\* while a save or a commit ran is lost, no refused result is left over, and
\* no stamp is shown that is not stored.  (An undo may show a node without the
\* stamp that is stored with it.)
Agrees(shown, stored) ==
  shown.here = stored.here /\ shown.text = stored.text /\ shown.keys \subseteq stored.keys

Settled == \A t \in Tabs : AtRest(t) => \A n \in Nodes : Agrees(memory[t][n], doc.nodes[n])

\* A result that counts as delivered does not stay without its content: what
\* the saves beside the commit took back, the page or its next load restores.
ResultIsKept ==
  <>[](doc.nodes[Target].keys # {} => doc.nodes[Target].text # 0)
=============================================================================
