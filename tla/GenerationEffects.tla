-------------------------- MODULE GenerationEffects --------------------------
(***************************************************************************)
(* How the result of a finished generation reaches the user exactly once.  *)
(* Every page (a browser tab) that sees the task succeed runs the          *)
(* materializer: it claims the task's "materialize" effect, puts the asset *)
(* in the library, completes the effect, then does the same with "attach", *)
(* which writes the result into the canvas node.  Claims are leases in a   *)
(* store all pages share: the task store of the local agent                *)
(* (dreamina-task-store.ts) or a record in browser storage                 *)
(* (provider-neutral-generation-effects.ts); both follow one protocol.     *)
(*                                                                         *)
(* A lease only keeps pages from working twice: it lapses when its page    *)
(* stalls, so what makes the result arrive once is the asset keyed by the  *)
(* effect and the stamp on the node.  The library and the canvas document  *)
(* are each changed under a lock of their own, read and write together.    *)
(***************************************************************************)
EXTENDS Naturals, FiniteSets

CONSTANTS
  Tabs,       \* pages of one user
  NoTab,      \* no page
  NoTask,     \* no task
  Tasks,      \* tasks that succeeded, each with one output
  NodeTasks,  \* tasks whose result goes into a canvas node too
  Capacity,   \* inbox records the store keeps (maxEffects)
  MaxFaults,  \* faults of a behaviour: stalls, closed pages, failed writes
  MaxFence    \* claims of one effect

ASSUME TabsAssumption == NoTab \notin Tabs
ASSUME TasksAssumption == NoTask \notin Tasks /\ NodeTasks \subseteq Tasks
ASSUME BoundsAssumption == {Capacity, MaxFaults, MaxFence} \subseteq Nat

VARIABLES
  inbox,    \* claim record of each effect
  deleted,  \* tasks whose projection says "deleted"
  library,  \* asset of each task, in the stored library
  node,     \* node of each task, in the stored canvas document
  tab,      \* what each page is doing
  shown,    \* assets in the memory of each page, of tasks with a node
  mem,      \* nodes in the memory of each page
  faults

vars == <<inbox, deleted, library, node, tab, shown, mem, faults>>

Kinds == {"materialize", "attach"}
Effects == (Tasks \X {"materialize"}) \cup (NodeTasks \X {"attach"})

\* The effect that ends the delivery of a task.
Last(k) == <<k, IF k \in NodeTasks THEN "attach" ELSE "materialize">>

\* The text of a node: a draft is typed before the result, an edit after it.
NodeValues == [text : {"empty", "draft", "result", "edited", "gone"}, stamp : BOOLEAN]
EmptyNode == [text |-> "empty", stamp |-> FALSE]

\* A stored record that breaks this is refused by the parser, and with it the
\* whole store: a lease belongs to a pending claim and to nothing else.
InboxRecords ==
  {r \in [state : {"none", "pending", "completed", "released"}, fence : 0 .. MaxFence,
          token : Tabs \cup {NoTab}, live : BOOLEAN] :
     /\ r.state = "pending" <=> r.token # NoTab
     /\ r.live => r.state = "pending"
     /\ r.state = "none" <=> r.fence = 0}
NoRecord == [state |-> "none", fence |-> 0, token |-> NoTab, live |-> FALSE]

TabPCs == {"idle", "claim", "held", "done", "failed", "aborted", "apply"}
TabStates == [pc : TabPCs, task : Tasks \cup {NoTask}, kind : Kinds]
Idle == [pc |-> "idle", task |-> NoTask, kind |-> "materialize"]

TypeOK ==
  /\ inbox \in [Effects -> InboxRecords]
  /\ deleted \in SUBSET Tasks
  /\ library \in [Tasks -> {"absent", "present", "deleted"}]
  /\ node \in [Tasks -> NodeValues]
  /\ tab \in [Tabs -> TabStates]
  /\ shown \in [Tabs -> SUBSET NodeTasks]
  /\ mem \in [Tabs -> [Tasks -> NodeValues]]
  /\ faults \in 0 .. MaxFaults

Init ==
  /\ inbox = [e \in Effects |-> NoRecord]
  /\ deleted = {}
  /\ library = [k \in Tasks |-> "absent"]
  /\ node = [k \in Tasks |-> EmptyNode]
  /\ tab = [t \in Tabs |-> Idle]
  /\ shown = [t \in Tabs |-> {}]
  /\ mem = [t \in Tabs |-> [k \in Tasks |-> EmptyNode]]
  /\ faults = 0

-----------------------------------------------------------------------------
(* The claim store. *)

Effect(t) == <<tab[t].task, tab[t].kind>>

\* The page still owns the lease: pending, same token and fence, not expired.
Holds(t) ==
  LET r == inbox[Effect(t)] IN r.state = "pending" /\ r.token = t /\ r.live

BusyForever(e) == inbox[e].state = "pending"

Busy(e) == inbox[e].state = "pending" /\ inbox[e].live

ClaimedSameFence(r, t) ==
  [state |-> "pending", fence |-> IF r.fence = 0 THEN 1 ELSE r.fence, token |-> t, live |-> TRUE]

\* The record a claim leaves: pending, a new token, the next fence.
Claimed(r, t) == [state |-> "pending", fence |-> r.fence + 1, token |-> t, live |-> TRUE]

FinishedWithLease(r, state) == [r EXCEPT !.state = state, !.live = FALSE]

\* finishProductEffect: the claim is completed or released, its lease removed.
Finished(r, state) == [r EXCEPT !.state = state, !.token = NoTab, !.live = FALSE]

Records == {e \in Effects : inbox[e].state # "none"}

\* What a full inbox may drop: released claims first, then the results of
\* tasks the user deleted.
Droppable ==
  LET released == {e \in Effects : inbox[e].state = "released"}
  IN  IF released # {} THEN released
      ELSE {e \in Effects : inbox[e].state = "completed" /\ e[1] \in deleted}

Go(t, pc) == tab' = [tab EXCEPT ![t].pc = pc]
Stop(t) == tab' = [tab EXCEPT ![t] = Idle]

\* The claim on e is stored: over an old record, beside the others while
\* there is room, or in the place of a record that may be dropped.
StoreClaim(t, e) ==
  \/ /\ e \in Records \/ Cardinality(Records) < Capacity
     /\ inbox' = [inbox EXCEPT ![e] = Claimed(@, t)]
  \/ /\ e \notin Records /\ Cardinality(Records) >= Capacity
     /\ \E d \in Droppable : inbox' = [inbox EXCEPT ![d] = NoRecord, ![e] = Claimed(NoRecord, t)]

\* The bound of the instance: no more claims of e are looked at.
TriedEnough(e) == inbox[e].fence = MaxFence

CannotStore(e) == e \notin Records /\ Cardinality(Records) >= Capacity /\ Droppable = {}

-----------------------------------------------------------------------------
(* The materializer of a page. *)

\* A page begins to deliver a task; a canvas page does while its node has no
\* content.
Start(t, k) ==
  /\ tab[t].pc = "idle"
  /\ k \notin deleted
  /\ IF k \in NodeTasks THEN mem[t][k].text = "empty" ELSE inbox[Last(k)].state # "completed"
  /\ \A e \in Effects : e[1] = k => ~ TriedEnough(e)
  /\ tab' = [tab EXCEPT ![t] = [pc |-> "claim", task |-> k, kind |-> "materialize"]]
  /\ UNCHANGED <<inbox, deleted, library, node, shown, mem, faults>>

\* What follows a failure: a canvas page writes the result into its node all
\* the same.
GiveUp(t) == IF tab[t].task \in NodeTasks THEN Go(t, "apply") ELSE Stop(t)

\* What follows an effect that is completed: the attach, or nothing more but
\* for a canvas page whose node still has no content.
NextEffect(t) ==
  LET k == tab[t].task IN
  IF tab[t].kind = "materialize"
  THEN IF k \in NodeTasks THEN tab' = [tab EXCEPT ![t].kind = "attach", ![t].pc = "claim"] ELSE Stop(t)
  ELSE IF mem[t][k].text = "empty" THEN Go(t, "apply") ELSE Stop(t)

\* claimWhenAvailable: a busy effect is asked for again until it is free.
Claim(t) ==
  LET e == Effect(t) IN
  /\ tab[t].pc = "claim" /\ ~ Busy(e)
  /\ \/ /\ e[1] \notin deleted /\ inbox[e].state = "completed"
        /\ NextEffect(t)
        /\ UNCHANGED inbox
     \/ /\ e[1] \notin deleted /\ inbox[e].state # "completed" /\ ~ TriedEnough(e)
        /\ StoreClaim(t, e)
        /\ Go(t, "held")
     \/ /\ e[1] \in deleted \/ (inbox[e].state # "completed" /\ (CannotStore(e) \/ TriedEnough(e)))
        /\ GiveUp(t)
        /\ UNCHANGED inbox
  /\ UNCHANGED <<deleted, library, node, shown, mem, faults>>

\* The asset of this effect that is already there.
Existing(k) == library[k] = "present"

\* insertOrReturnGenerationAsset: under the library's lock, a stored asset of
\* this effect is returned, a deleted one refuses, else it is stored.
InsertAsset(t) ==
  LET k == tab[t].task IN
  /\ tab[t].pc = "held" /\ tab[t].kind = "materialize"
  /\ \/ /\ library[k] = "deleted"
        /\ Go(t, "failed")
        /\ UNCHANGED <<library, shown>>
     \/ /\ library[k] # "deleted"
        /\ library' = IF Existing(k) THEN library ELSE [library EXCEPT ![k] = "present"]
        /\ shown' = [shown EXCEPT ![t] = @ \cup ({k} \cap NodeTasks)]
        /\ Go(t, "done")
  /\ UNCHANGED <<inbox, deleted, node, mem, faults>>

\* Mutant: the error of the library is swallowed.
InsertFailsQuietly(t) ==
  /\ faults < MaxFaults
  /\ tab[t].pc = "held" /\ tab[t].kind = "materialize"
  /\ ~ Existing(tab[t].task) /\ library[tab[t].task] = "absent"
  /\ shown' = [shown EXCEPT ![t] = @ \cup ({tab[t].task} \cap NodeTasks)]
  /\ Go(t, "done")
  /\ faults' = faults + 1
  /\ UNCHANGED <<inbox, deleted, library, node, mem>>

\* The library cannot be written: the page shows the asset, nothing is stored.
InsertFails(t) ==
  /\ faults < MaxFaults
  /\ tab[t].pc = "held" /\ tab[t].kind = "materialize"
  /\ ~ Existing(tab[t].task) /\ library[tab[t].task] = "absent"
  /\ shown' = [shown EXCEPT ![t] = @ \cup ({tab[t].task} \cap NodeTasks)]
  /\ Go(t, "failed")
  /\ faults' = faults + 1
  /\ UNCHANGED <<inbox, deleted, library, node, mem>>

\* The node the page wants: as it is when it carries the stamp, else the result.
Wanted(n) == IF n.stamp THEN n ELSE [text |-> "result", stamp |-> TRUE]

\* Mutant: only a deletion refuses.
ConflictOfDeleted(base, local, durable) == local # base /\ durable.text = "gone"

\* The three-way merge refuses a node another page deleted, and a text both
\* changed; a node the page did not change stays as stored.
Conflict(base, local, durable) ==
  /\ local # base
  /\ \/ durable.text = "gone"
     \/ durable.text # base.text /\ durable.text # local.text

\* applyCanvasGenerationTaskNodeEffect: the page must show the node, and the
\* asset unless the node has the stamp.  Under the document's lock its node is
\* merged with the stored one; what both changed differently refuses, and the
\* page takes over the stored node.
AttachNode(t) ==
  LET k      == tab[t].task
      base   == mem[t][k]
      local  == Wanted(base)
      usable == base.text # "gone" /\ (base.stamp \/ k \in shown[t])
  IN
  /\ tab[t].pc = "held" /\ tab[t].kind = "attach"
  /\ \/ /\ ~ usable
        /\ Go(t, "failed")
        /\ UNCHANGED <<node, mem>>
     \/ /\ usable /\ Conflict(base, local, node[k])
        /\ mem' = [mem EXCEPT ![t][k] = node[k]]
        /\ Go(t, "failed")
        /\ UNCHANGED node
     \/ /\ usable /\ ~ Conflict(base, local, node[k])
        /\ node' = IF local = base THEN node ELSE [node EXCEPT ![k] = local]
        /\ mem' = [mem EXCEPT ![t][k] = IF local = base THEN node[k] ELSE local]
        /\ Go(t, "done")
  /\ UNCHANGED <<inbox, deleted, library, shown, faults>>

\* The document cannot be written.
AttachFails(t) ==
  /\ faults < MaxFaults
  /\ tab[t].pc = "held" /\ tab[t].kind = "attach"
  /\ Go(t, "failed")
  /\ faults' = faults + 1
  /\ UNCHANGED <<inbox, deleted, library, node, shown, mem>>

\* complete*Effect: only the current lease completes; otherwise the page
\* gives up, and so does its attempt to release.
Complete(t) ==
  /\ tab[t].pc = "done"
  /\ IF Holds(t)
     THEN /\ inbox' = [inbox EXCEPT ![Effect(t)] = Finished(@, "completed")]
          /\ NextEffect(t)
     ELSE GiveUp(t) /\ UNCHANGED inbox
  /\ UNCHANGED <<deleted, library, node, shown, mem, faults>>

\* releaseClaim, after a failure or an abort; a page that is left writes
\* nothing more.
Release(t) ==
  /\ tab[t].pc \in {"failed", "aborted"}
  /\ inbox' = IF Holds(t)
              THEN [inbox EXCEPT ![Effect(t)] = Finished(@, "released")]
              ELSE inbox
  /\ GiveUp(t) \/ (tab[t].pc = "aborted" /\ Stop(t))
  /\ UNCHANGED <<deleted, library, node, shown, mem, faults>>

\* applyStoredTaskResult: without a claim or a stamp the page writes the result
\* into the node it shows; the ordinary save of the page leaves a stored node
\* that another page changed as it is.
ApplyStored(t) ==
  LET k == tab[t].task IN
  /\ tab[t].pc = "apply"
  /\ Stop(t)
  /\ IF mem[t][k].text = "gone"
     THEN UNCHANGED <<node, mem>>
     ELSE /\ mem' = [mem EXCEPT ![t][k].text = "result"]
          /\ node' = IF node[k].text = mem[t][k].text THEN [node EXCEPT ![k].text = "result"] ELSE node
  /\ UNCHANGED <<inbox, deleted, library, shown, faults>>

\* startLeaseHeartbeat: a renewal that is refused aborts the work, before it
\* is done or after.
HeartbeatFails(t) ==
  /\ tab[t].pc \in {"held", "done"} /\ ~ Holds(t)
  /\ Go(t, "failed")
  /\ UNCHANGED <<inbox, deleted, library, node, shown, mem, faults>>

-----------------------------------------------------------------------------
(* Faults and users. *)

Working(t, e) == Effect(t) = e /\ tab[t].pc \in {"held", "done", "failed", "aborted"}

LapseOf(e) == inbox' = [inbox EXCEPT ![e].live = FALSE]

\* The lease of a page that is gone lapses by the clock.
LeaseLapses(e) ==
  /\ Busy(e) /\ ~ Working(inbox[e].token, e) /\ LapseOf(e)
  /\ UNCHANGED <<deleted, library, node, tab, shown, mem, faults>>

\* A page stalls past the end of its lease.
Stall(e) ==
  /\ faults < MaxFaults
  /\ faults' = faults + 1
  /\ Busy(e) /\ Working(inbox[e].token, e) /\ LapseOf(e)
  /\ UNCHANGED <<deleted, library, node, tab, shown, mem>>

\* withGenerationConsumersPaused (the account changes) or an unmounted page;
\* throwIfAborted stops the work at its next step.
Abort(t) ==
  /\ faults < MaxFaults
  /\ \/ tab[t].pc = "claim" /\ Stop(t)
     \/ tab[t].pc \in {"held", "done"} /\ Go(t, "aborted")
  /\ faults' = faults + 1
  /\ UNCHANGED <<inbox, deleted, library, node, shown, mem>>

\* A page is closed at any point and opened again: it loads what is stored.
Reopen(t) ==
  /\ faults < MaxFaults
  /\ Stop(t)
  /\ shown' = [shown EXCEPT ![t] = {k \in NodeTasks : library[k] = "present"}]
  /\ mem' = [mem EXCEPT ![t] = node]
  /\ faults' = faults + 1
  /\ UNCHANGED <<inbox, deleted, library, node>>

\* A user changes or deletes a node on a page that shows it as stored.
EditNode(t, k) ==
  /\ mem[t][k] = node[k] /\ node[k].text \in {"empty", "result"}
  /\ \E text \in {IF node[k].text = "result" THEN "edited" ELSE "draft", "gone"} :
       /\ node' = [node EXCEPT ![k].text = text]
       /\ mem' = [mem EXCEPT ![t][k].text = text]
  /\ UNCHANGED <<inbox, deleted, library, tab, shown, faults>>

\* A user deletes an asset a page shows; the library keeps a tombstone, other
\* pages may show the asset still.
DeleteAsset(t, k) ==
  /\ k \in shown[t] /\ library[k] = "present"
  /\ library' = [library EXCEPT ![k] = "deleted"]
  /\ shown' = [shown EXCEPT ![t] = @ \ {k}]
  /\ UNCHANGED <<inbox, deleted, node, tab, mem, faults>>

\* The projector sees that a user deleted the task.
DeleteTask(k) ==
  /\ k \notin deleted
  /\ deleted' = deleted \cup {k}
  /\ UNCHANGED <<inbox, library, node, tab, shown, mem, faults>>

TabStep(t) ==
  \/ \E k \in Tasks : Start(t, k)
  \/ Claim(t)
  \/ InsertAsset(t)
  \/ AttachNode(t)
  \/ Complete(t)
  \/ Release(t)
  \/ ApplyStored(t)
  \/ HeartbeatFails(t)

Next ==
  \/ \E t \in Tabs :
       \/ TabStep(t)
       \/ InsertFails(t)
       \/ AttachFails(t)
       \/ Abort(t)
       \/ Reopen(t)
       \/ \E k \in NodeTasks : EditNode(t, k) \/ DeleteAsset(t, k)
  \/ \E e \in Effects : LeaseLapses(e) \/ Stall(e)
  \/ \E k \in Tasks : DeleteTask(k)

Spec == Init /\ [][Next]_vars

\* Pages keep polling tasks that are not delivered and go on with what they
\* began; a lease whose page is gone lapses by the clock.
Fairness ==
  /\ \A t \in Tabs : WF_vars(TabStep(t) /\ tab[t].pc # "idle")
  /\ \A k \in Tasks : SF_vars(\E t \in Tabs : Start(t, k))
  /\ \A e \in Effects : WF_vars(LeaseLapses(e))

FairSpec == Spec /\ Fairness

-----------------------------------------------------------------------------
(* Properties. *)

\* An effect is recorded as completed only when its work is durable: the
\* asset is in the stored library (unless the user deleted it since), the
\* node carries the stamp.  A page that finds "completed" skips the work, so
\* a record ahead of the data would lose the result for good.
CompletedIsDelivered ==
  \A k \in Tasks :
    /\ inbox[<<k, "materialize">>].state = "completed" => library[k] # "absent"
    /\ k \in NodeTasks => (inbox[Last(k)].state = "completed" => node[k].stamp)

\* A late or second delivery never writes the result over what the user made of
\* the first one, and never brings a deleted node back: the stamp and the
\* three-way merge stop it, whatever lease it had.  Only a page that writes the
\* result without a claim may do the former.
AppliedOnce ==
  [][\A k \in NodeTasks :
       /\ node[k].text = "gone" => node'[k].text = "gone"
       /\ node[k].stamp => node'[k].stamp
       /\ node[k].text = "edited" /\ node'[k].text = "result" =>
            \E t \in Tabs : tab[t].pc = "apply" /\ tab'[t].pc = "idle"]_vars

\* inboxProgresses: how one claim record may follow another.
InboxProgresses(old, new) ==
  \/ old.state \in {"completed", "released"} /\ new = old
  \/ old.state # "completed" /\ new.state = "completed" /\ new.fence >= old.fence
  \/ old.state # "completed" /\ new.state = "pending" /\ new.fence > old.fence
  \/ /\ old.state = "pending" /\ new.fence = old.fence
     /\ new.state = "released" \/ (new.state = "pending" /\ new.token = old.token)

\* assertStoreProgression: after a crash inside a write, the agent compares
\* the backup with the file and refuses the store for good unless this holds
\* between them.  So every write, with the compaction it may bring, must
\* satisfy it: a claim never reuses a fence, a completed result never changes
\* and is only dropped with its task.
StoreProgresses ==
  [][\A e \in Effects :
       inbox[e].state # "none" =>
         \/ inbox'[e].state # "none" /\ InboxProgresses(inbox[e], inbox'[e])
         \/ inbox'[e].state = "none" /\ (inbox[e].state = "released" \/ e[1] \in deleted)]_vars

\* The store has no room for a claim of the task.
Crowded(k) == \E e \in Effects : e[1] = k /\ CannotStore(e)

\* Every result is delivered in the end, whatever pages stall, close or fail
\* on the way: no node is left without content, and a task without a node has
\* its effect completed, unless the user deleted the task or the asset, or the
\* store is full of results that must be kept.
Delivered ==
  \A k \in Tasks :
    <>(\/ IF k \in NodeTasks THEN node[k].text # "empty" ELSE inbox[Last(k)].state = "completed"
       \/ k \in deleted \/ library[k] = "deleted" \/ Crowded(k))
=============================================================================
