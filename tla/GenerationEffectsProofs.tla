----------------------- MODULE GenerationEffectsProofs -----------------------
(***************************************************************************)
(* Proofs about GenerationEffects, for any pages, tasks, capacity of the   *)
(* store and number of faults: types, that a completed claim has durable   *)
(* work behind it, that every write of the store is one recovery accepts,  *)
(* and that a result is written into its node once.                        *)
(***************************************************************************)
EXTENDS GenerationEffects, TLAPS

\* A page that works has a task, and attaches only what has a node.
WorkIsKnown ==
  \A t \in Tabs : tab[t].pc # "idle" =>
     /\ tab[t].task \in Tasks
     /\ tab[t].kind = "attach" => tab[t].task \in NodeTasks

\* A stamp in the memory of a page was stored before.
StampsStored == \A t \in Tabs, k \in Tasks : mem[t][k].stamp => node[k].stamp

\* A page that has done its work left it in storage.  Its lease may be lost
\* by now, and another page at work.
DoneIsDurable ==
  \A t \in Tabs : tab[t].pc = "done" =>
     IF tab[t].kind = "materialize" THEN library[tab[t].task] # "absent"
     ELSE node[tab[t].task].stamp

IInv == TypeOK /\ WorkIsKnown /\ StampsStored /\ DoneIsDurable /\ CompletedIsDelivered

-----------------------------------------------------------------------------
(* The claim records. *)

\* A claim that is taken is well formed.
LEMMA ClaimedTyped ==
  ASSUME NEW r \in InboxRecords, NEW t \in Tabs, r.fence # MaxFence
  PROVE  Claimed(r, t) \in InboxRecords
BY TabsAssumption, BoundsAssumption DEF InboxRecords, Claimed

\* An absent claim is well formed.
LEMMA NoRecordTyped == NoRecord \in InboxRecords
BY BoundsAssumption DEF InboxRecords, NoRecord

\* A claim that is given back or completed is well formed.
LEMMA FinishedTyped ==
  ASSUME NEW r \in InboxRecords, NEW s \in {"completed", "released"}, r.state = "pending"
  PROVE  Finished(r, s) \in InboxRecords
BY TabsAssumption, BoundsAssumption DEF InboxRecords, Finished

\* A claim whose lease lapsed is well formed.
LEMMA LapsedTyped ==
  ASSUME NEW r \in InboxRecords
  PROVE  [r EXCEPT !.live = FALSE] \in InboxRecords
BY DEF InboxRecords

\* What claiming, finishing and lapsing do to a record, apart from its type.
LEMMA RecordSteps ==
  ASSUME NEW r \in InboxRecords
  PROVE  /\ \A t : Claimed(r, t).state = "pending" /\ Claimed(r, t).fence = r.fence + 1
         /\ \A s : /\ Finished(r, s).state = s /\ Finished(r, s).fence = r.fence
         /\ /\ [r EXCEPT !.live = FALSE].state = r.state
            /\ [r EXCEPT !.live = FALSE].fence = r.fence
            /\ [r EXCEPT !.live = FALSE].token = r.token
         /\ NoRecord.state = "none"
BY DEF InboxRecords, Claimed, Finished, NoRecord

\* A stored effect is well formed.
LEMMA EffectTyped ==
  ASSUME WorkIsKnown, TypeOK, NEW t \in Tabs, tab[t].pc # "idle"
  PROVE  Effect(t) \in Effects
<1>1. tab[t].kind \in Kinds
  BY DEF TypeOK, TabStates
<1>2. CASE tab[t].kind = "materialize"
  BY <1>2 DEF WorkIsKnown, Effect, Effects
<1>3. CASE tab[t].kind = "attach"
  BY <1>3 DEF WorkIsKnown, Effect, Effects
<1>. QED BY <1>1, <1>2, <1>3 DEF Kinds

\* What an inbox may become in a claim by t of e.
LEMMA StoreClaimTyped ==
  ASSUME TypeOK, NEW t \in Tabs, NEW e \in Effects, ~ TriedEnough(e), StoreClaim(t, e)
  PROVE  /\ inbox' \in [Effects -> InboxRecords]
         /\ \A x \in Effects : inbox'[x].state = "completed" => inbox[x].state = "completed"
<1>1. inbox[e] \in InboxRecords /\ inbox \in [Effects -> InboxRecords]
  BY DEF TypeOK
<1>2. Claimed(inbox[e], t) \in InboxRecords
  BY <1>1, ClaimedTyped DEF TriedEnough
<1>3. CASE inbox' = [inbox EXCEPT ![e] = Claimed(@, t)]
  BY <1>1, <1>2, <1>3, RecordSteps
<1>4. ASSUME e \notin Records, NEW d \in Droppable,
             inbox' = [inbox EXCEPT ![d] = NoRecord, ![e] = Claimed(NoRecord, t)]
      PROVE  /\ inbox' \in [Effects -> InboxRecords]
             /\ \A x \in Effects : inbox'[x].state = "completed" => inbox[x].state = "completed"
  <2>1. inbox[e].fence = 0
    BY <1>1, <1>4 DEF Records, InboxRecords
  <2>2. NoRecord.fence # MaxFence
    BY <2>1 DEF TriedEnough, NoRecord
  <2>3. Claimed(NoRecord, t) \in InboxRecords
    BY <2>2, ClaimedTyped, NoRecordTyped
  <2>. QED BY <1>1, <1>4, <2>3, NoRecordTyped, RecordSteps
<1>. QED BY <1>3, <1>4 DEF StoreClaim

-----------------------------------------------------------------------------
(* The nodes. *)

\* An edited node is well formed.
LEMMA TextTyped ==
  ASSUME NEW n \in NodeValues, NEW x \in {"empty", "draft", "result", "edited", "gone"}
  PROVE  [n EXCEPT !.text = x] \in NodeValues /\ [n EXCEPT !.text = x].stamp = n.stamp
BY DEF NodeValues

\* A node that waits for a result is well formed.
LEMMA WantedTyped ==
  ASSUME NEW n \in NodeValues
  PROVE  Wanted(n) \in NodeValues /\ Wanted(n).stamp = TRUE
<1>1. CASE n.stamp = TRUE
  BY <1>1 DEF Wanted
<1>2. CASE n.stamp = FALSE
  <2>1. Wanted(n) = [text |-> "result", stamp |-> TRUE]
    BY <1>2 DEF Wanted
  <2>. QED BY <2>1 DEF NodeValues
<1>. QED BY <1>1, <1>2 DEF NodeValues

-----------------------------------------------------------------------------
(* What a page does next. *)

\* A page that goes on works on a task.
LEMMA Going ==
  ASSUME tab \in [Tabs -> TabStates], NEW t \in Tabs, NEW pc \in TabPCs, Go(t, pc)
  PROVE  /\ tab' \in [Tabs -> TabStates]
         /\ tab'[t].pc = pc /\ tab'[t].task = tab[t].task /\ tab'[t].kind = tab[t].kind
         /\ \A u \in Tabs \ {t} : tab'[u] = tab[u]
<1>1. [tab[t] EXCEPT !.pc = pc] \in TabStates /\ tab[t] \in TabStates
  BY DEF TabStates
<1>. QED BY <1>1 DEF Go, TabStates

\* A page that stops works on nothing.
LEMMA Stopping ==
  ASSUME tab \in [Tabs -> TabStates], NEW t \in Tabs, Stop(t)
  PROVE  /\ tab' \in [Tabs -> TabStates]
         /\ tab'[t].pc = "idle"
         /\ \A u \in Tabs \ {t} : tab'[u] = tab[u]
<1>1. Idle \in TabStates /\ Idle.pc = "idle"
  BY DEF TabStates, TabPCs, Kinds, Idle
<1>. QED BY <1>1 DEF Stop

\* A page that attaches has a node for its task.
LEMMA Attaching ==
  ASSUME tab \in [Tabs -> TabStates], NEW t \in Tabs,
         tab' = [tab EXCEPT ![t].kind = "attach", ![t].pc = "claim"]
  PROVE  /\ tab' \in [Tabs -> TabStates]
         /\ tab'[t].pc = "claim" /\ tab'[t].task = tab[t].task /\ tab'[t].kind = "attach"
         /\ \A u \in Tabs \ {t} : tab'[u] = tab[u]
<1>1. tab[t] \in TabStates
  OBVIOUS
<1>2. [tab[t] EXCEPT !.kind = "attach", !.pc = "claim"] \in TabStates
  BY <1>1 DEF TabStates, TabPCs, Kinds
<1>3. tab'[t] = [tab[t] EXCEPT !.kind = "attach", !.pc = "claim"]
  OBVIOUS
<1>4. /\ tab'[t].pc = "claim" /\ tab'[t].task = tab[t].task /\ tab'[t].kind = "attach"
  BY <1>1, <1>3 DEF TabStates
<1>. QED BY <1>2, <1>4

\* What is stored stays: an asset is at most deleted, a stamp remains.
Kept ==
  /\ \A k \in Tasks : library[k] # "absent" => library'[k] # "absent"
  /\ \A k \in Tasks : node[k].stamp => node'[k].stamp

\* A page that is at work goes on or stops; if it has done its work, the work
\* is stored.
LEMMA PageMoves ==
  ASSUME TypeOK, WorkIsKnown, DoneIsDurable, Kept, NEW t \in Tabs, tab[t].pc # "idle",
         \/ GiveUp(t) \/ NextEffect(t) \/ Stop(t)
         \/ \E pc \in {"held", "failed", "aborted"} : Go(t, pc)
         \/ Go(t, "done") /\ IF tab[t].kind = "materialize"
                              THEN library'[tab[t].task] # "absent" ELSE node'[tab[t].task].stamp
  PROVE  tab' \in [Tabs -> TabStates] /\ WorkIsKnown' /\ DoneIsDurable'
<1>1. tab \in [Tabs -> TabStates]
  BY DEF TypeOK
<1>. DEFINE Moved ==
      /\ tab' \in [Tabs -> TabStates]
      /\ \A u \in Tabs \ {t} : tab'[u] = tab[u]
      /\ tab'[t].pc # "idle" =>
            /\ tab'[t].task = tab[t].task
            /\ tab'[t].kind = tab[t].kind \/ (tab'[t].kind = "attach" /\ tab[t].task \in NodeTasks)
      /\ tab'[t].pc = "done" =>
            IF tab'[t].kind = "materialize"
            THEN library'[tab'[t].task] # "absent" ELSE node'[tab'[t].task].stamp
<1>2. Moved
  <2>1. CASE Stop(t)
    BY <1>1, <2>1, Stopping
  <2>2. CASE Go(t, "apply")
    BY <1>1, <2>2, Going DEF TabPCs
  <2>3. CASE tab[t].task \in NodeTasks /\ tab' = [tab EXCEPT ![t].kind = "attach", ![t].pc = "claim"]
    BY <1>1, <2>3, Attaching
  <2>4. ASSUME NEW pc \in {"held", "failed", "aborted"}, Go(t, pc)
        PROVE  Moved
    BY <1>1, <2>4, Going DEF TabPCs
  <2>5. CASE Go(t, "done") /\ IF tab[t].kind = "materialize"
                              THEN library'[tab[t].task] # "absent" ELSE node'[tab[t].task].stamp
    BY <1>1, <2>5, Going DEF TabPCs
  <2>. QED BY <2>1, <2>2, <2>3, <2>4, <2>5 DEF GiveUp, NextEffect
<1>3. WorkIsKnown'
  BY <1>2 DEF WorkIsKnown
<1>4. DoneIsDurable'
  <2>1. ASSUME NEW u \in Tabs \ {t}, tab'[u].pc = "done"
        PROVE  IF tab'[u].kind = "materialize"
               THEN library'[tab'[u].task] # "absent" ELSE node'[tab'[u].task].stamp
    BY <1>2, <2>1 DEF DoneIsDurable, WorkIsKnown, Kept
  <2>. QED BY <1>2, <2>1 DEF DoneIsDurable
<1>. QED BY <1>2, <1>3, <1>4

-----------------------------------------------------------------------------
(* The invariant. *)

\* The invariant holds: types, the work behind every claim, and what is durable.
THEOREM Inductive == Spec => []IInv
<1>1. Init => IInv
  <2>. SUFFICES ASSUME Init PROVE IInv
    OBVIOUS
  <2>1. TypeOK
    BY NoRecordTyped, TasksAssumption, BoundsAssumption
    DEF Init, TypeOK, EmptyNode, NodeValues, Idle, TabStates, TabPCs, Kinds
  <2>2. CompletedIsDelivered
    <3>1. \A e \in Effects : inbox[e].state = "none"
      BY DEF Init, NoRecord
    <3>. QED BY <3>1 DEF CompletedIsDelivered, Effects, Last
  <2>. QED BY <2>1, <2>2 DEF IInv, Init, WorkIsKnown, StampsStored, DoneIsDurable, Idle, EmptyNode
<1>2. IInv /\ [Next]_vars => IInv'
  <2>. SUFFICES ASSUME IInv, [Next]_vars PROVE IInv'
    OBVIOUS
  <2>. USE DEF IInv
  <2>Types. /\ inbox \in [Effects -> InboxRecords] /\ deleted \in SUBSET Tasks
            /\ library \in [Tasks -> {"absent", "present", "deleted"}]
            /\ node \in [Tasks -> NodeValues] /\ tab \in [Tabs -> TabStates]
            /\ shown \in [Tabs -> SUBSET NodeTasks]
            /\ mem \in [Tabs -> [Tasks -> NodeValues]] /\ faults \in 0 .. MaxFaults
    BY DEF TypeOK
  <2>Keys. \A k \in Tasks : /\ <<k, "materialize">> \in Effects
                            /\ k \in NodeTasks => Last(k) = <<k, "attach">> /\ Last(k) \in Effects
    BY DEF Effects, Last
  <2>Eff. \A t \in Tabs : tab[t].pc # "idle" => Effect(t) \in Effects
    BY EffectTyped
  <2>1. ASSUME NEW t \in Tabs, NEW k \in Tasks, Start(t, k)
        PROVE  IInv'
    <3>1. TypeOK'
      BY <2>1, <2>Types DEF TypeOK, Start, TabStates, TabPCs, Kinds
    <3>2. WorkIsKnown' /\ StampsStored' /\ DoneIsDurable'
      BY <2>1, <2>Types DEF Start, WorkIsKnown, StampsStored, DoneIsDurable
    <3>. QED BY <2>1, <3>1, <3>2 DEF Start, CompletedIsDelivered
  <2>2. ASSUME NEW t \in Tabs, Claim(t)
        PROVE  IInv'
    <3>1. tab[t].pc = "claim" /\ Effect(t) \in Effects /\ tab[t].task \in Tasks
      BY <2>2, <2>Eff DEF Claim, WorkIsKnown
    <3>2. tab' \in [Tabs -> TabStates] /\ WorkIsKnown' /\ DoneIsDurable'
      BY <2>2, <3>1, PageMoves DEF Claim, Kept
    <3>3. /\ inbox' \in [Effects -> InboxRecords]
          /\ \A x \in Effects : inbox'[x].state = "completed" => inbox[x].state = "completed"
      <4>1. CASE UNCHANGED inbox
        BY <4>1, <2>Types
      <4>2. CASE ~ TriedEnough(Effect(t)) /\ StoreClaim(t, Effect(t))
        BY <4>2, <3>1, StoreClaimTyped
      <4>. QED BY <2>2, <4>1, <4>2 DEF Claim
    <3>4. CompletedIsDelivered'
      BY <2>2, <3>3, <2>Keys DEF Claim, CompletedIsDelivered
    <3>5. TypeOK' /\ StampsStored'
      BY <2>2, <3>2, <3>3, <2>Types DEF Claim, TypeOK, StampsStored
    <3>. QED BY <3>2, <3>4, <3>5
  <2>3. ASSUME NEW t \in Tabs, InsertAsset(t)
        PROVE  IInv'
    <3>1. tab[t].task \in Tasks /\ tab[t].kind = "materialize" /\ tab[t].pc = "held"
      BY <2>3 DEF InsertAsset, WorkIsKnown
    <3>2. /\ library' \in [Tasks -> {"absent", "present", "deleted"}]
          /\ \A k \in Tasks : library[k] # "absent" => library'[k] # "absent"
          /\ Go(t, "done") => library'[tab[t].task] # "absent"
          /\ shown' \in [Tabs -> SUBSET NodeTasks]
      <4>1. CASE library[tab[t].task] = "deleted"
        BY <2>3, <3>1, <4>1, <2>Types DEF InsertAsset, Go
      <4>2. CASE library[tab[t].task] # "deleted"
        <5>1. library' = IF Existing(tab[t].task) THEN library ELSE [library EXCEPT ![tab[t].task] = "present"]
          BY <2>3, <4>2 DEF InsertAsset
        <5>2. shown' = [shown EXCEPT ![t] = @ \cup ({tab[t].task} \cap NodeTasks)]
          BY <2>3, <4>2 DEF InsertAsset
        <5>3. shown' \in [Tabs -> SUBSET NodeTasks]
          BY <5>2, <2>Types
        <5>. QED BY <3>1, <5>1, <5>3, <2>Types DEF Existing
      <4>. QED BY <4>1, <4>2
    <3>3. Go(t, "failed") \/ Go(t, "done")
      BY <2>3 DEF InsertAsset
    <3>4. tab' \in [Tabs -> TabStates] /\ WorkIsKnown' /\ DoneIsDurable'
      BY <2>3, <3>1, <3>2, <3>3, PageMoves DEF InsertAsset, Kept
    <3>5. CompletedIsDelivered'
      BY <2>3, <3>2 DEF InsertAsset, CompletedIsDelivered
    <3>6. TypeOK' /\ StampsStored'
      BY <2>3, <3>2, <3>4, <2>Types DEF InsertAsset, TypeOK, StampsStored
    <3>. QED BY <3>4, <3>5, <3>6
  <2>4. ASSUME NEW t \in Tabs, InsertFails(t)
        PROVE  IInv'
    <3>1. shown' \in [Tabs -> SUBSET NodeTasks] /\ faults' \in 0 .. MaxFaults
      <4>1. shown' = [shown EXCEPT ![t] = @ \cup ({tab[t].task} \cap NodeTasks)]
        BY <2>4 DEF InsertFails
      <4>2. faults' = faults + 1 /\ faults < MaxFaults
        BY <2>4 DEF InsertFails
      <4>. QED BY <4>1, <4>2, <2>Types, BoundsAssumption
    <3>2. tab' \in [Tabs -> TabStates] /\ WorkIsKnown' /\ DoneIsDurable'
      BY <2>4, PageMoves DEF InsertFails, Kept
    <3>. QED BY <2>4, <3>1, <3>2, <2>Types
         DEF InsertFails, TypeOK, StampsStored, CompletedIsDelivered
  <2>5. ASSUME NEW t \in Tabs, AttachNode(t)
        PROVE  IInv'
    <3>1. /\ tab[t].task \in Tasks /\ tab[t].task \in NodeTasks
          /\ tab[t].kind = "attach" /\ tab[t].pc = "held"
      BY <2>5, TasksAssumption DEF AttachNode, WorkIsKnown
    <3>. DEFINE k == tab[t].task
                local == Wanted(mem[t][k])
    <3>2. local \in NodeValues /\ local.stamp = TRUE
      BY <3>1, <2>Types, WantedTyped
    <3>. HIDE DEF local
    <3>4. /\ node' \in [Tasks -> NodeValues] /\ mem' \in [Tabs -> [Tasks -> NodeValues]]
          /\ \A x \in Tasks : node[x].stamp => node'[x].stamp
          /\ \A u \in Tabs, x \in Tasks : mem'[u][x].stamp => node'[x].stamp
          /\ Go(t, "failed") \/ (Go(t, "done") /\ node'[k].stamp)
      <4>1. CASE Go(t, "failed") /\ UNCHANGED <<node, mem>>
        BY <4>1, <2>Types DEF StampsStored
      <4>2. CASE Go(t, "failed") /\ UNCHANGED node /\ mem' = [mem EXCEPT ![t][k] = node[k]]
        BY <4>2, <3>1, <2>Types DEF StampsStored
      <4>3. CASE /\ Go(t, "done") /\ node' = [node EXCEPT ![k] = local]
                 /\ mem' = [mem EXCEPT ![t][k] = local]
        BY <4>3, <3>1, <3>2, <2>Types DEF StampsStored
      <4>4. CASE /\ Go(t, "done") /\ local = mem[t][k] /\ UNCHANGED node
                 /\ mem' = [mem EXCEPT ![t][k] = node[k]]
        <5>1. \A u \in Tabs, x \in Tasks : mem'[u][x] = IF u = t /\ x = k THEN node[k] ELSE mem[u][x]
          BY <4>4, <3>1, <2>Types
        <5>2. mem[t][k].stamp /\ node[k] \in NodeValues
          BY <4>4, <3>1, <3>2, <2>Types
        <5>3. mem' \in [Tabs -> [Tasks -> NodeValues]]
          BY <4>4, <3>1, <5>2, <2>Types
        <5>4. node[k].stamp /\ \A u \in Tabs, x \in Tasks : mem'[u][x].stamp => node[x].stamp
          BY <3>1, <5>1, <5>2 DEF StampsStored
        <5>. QED BY <4>4, <5>3, <5>4, <2>Types
      <4>. QED BY <2>5, <4>1, <4>2, <4>3, <4>4 DEF AttachNode, local
    <3>5. tab' \in [Tabs -> TabStates] /\ WorkIsKnown' /\ DoneIsDurable'
      BY <2>5, <3>1, <3>4, PageMoves DEF AttachNode, Kept
    <3>6. TypeOK' /\ StampsStored'
      BY <2>5, <3>4, <3>5, <2>Types DEF AttachNode, TypeOK, StampsStored
    <3>7. CompletedIsDelivered'
      BY <2>5, <3>4, TasksAssumption DEF AttachNode, CompletedIsDelivered
    <3>. QED BY <3>5, <3>6, <3>7
  <2>6. ASSUME NEW t \in Tabs, AttachFails(t)
        PROVE  IInv'
    <3>1. faults' \in 0 .. MaxFaults
      BY <2>6, <2>Types, BoundsAssumption DEF AttachFails
    <3>2. tab' \in [Tabs -> TabStates] /\ WorkIsKnown' /\ DoneIsDurable'
      BY <2>6, PageMoves DEF AttachFails, Kept
    <3>. QED BY <2>6, <3>1, <3>2, <2>Types
         DEF AttachFails, TypeOK, StampsStored, CompletedIsDelivered
  <2>7. ASSUME NEW t \in Tabs, Complete(t)
        PROVE  IInv'
    <3>1. tab[t].pc = "done" /\ Effect(t) \in Effects /\ tab[t].task \in Tasks
      BY <2>7, <2>Eff DEF Complete, WorkIsKnown
    <3>2. tab' \in [Tabs -> TabStates] /\ WorkIsKnown' /\ DoneIsDurable'
      BY <2>7, <3>1, PageMoves DEF Complete, Kept
    <3>3. /\ inbox' \in [Effects -> InboxRecords]
          /\ \A x \in Effects \ {Effect(t)} : inbox'[x] = inbox[x]
          /\ inbox'[Effect(t)] = inbox[Effect(t)] \/ Holds(t)
      <4>1. CASE Holds(t)
        <5>1. inbox[Effect(t)] \in InboxRecords /\ inbox[Effect(t)].state = "pending"
          BY <3>1, <4>1, <2>Types DEF Holds
        <5>2. Finished(inbox[Effect(t)], "completed") \in InboxRecords
          BY <5>1, FinishedTyped
        <5>. QED BY <2>7, <3>1, <4>1, <5>2, <2>Types DEF Complete
      <4>2. CASE ~ Holds(t)
        BY <2>7, <4>2, <2>Types DEF Complete
      <4>. QED BY <4>1, <4>2
    <3>4. CompletedIsDelivered'
      <4>1. \A x \in Effects : inbox'[x].state = "completed" =>
              inbox[x].state = "completed" \/ x = Effect(t)
        BY <3>3
      <4>2. \A k \in Tasks : <<k, "materialize">> = Effect(t) => library[k] # "absent"
        BY <3>1 DEF Effect, DoneIsDurable
      <4>3. \A k \in NodeTasks : <<k, "attach">> = Effect(t) => node[k].stamp
        BY <3>1 DEF Effect, DoneIsDurable
      <4>. QED BY <2>7, <4>1, <4>2, <4>3, <2>Keys DEF Complete, CompletedIsDelivered
    <3>. QED BY <2>7, <3>2, <3>3, <3>4, <2>Types DEF Complete, TypeOK, StampsStored
  <2>8. ASSUME NEW t \in Tabs, Release(t)
        PROVE  IInv'
    <3>1. tab[t].pc \in {"failed", "aborted"} /\ Effect(t) \in Effects
      BY <2>8, <2>Eff DEF Release
    <3>2. tab' \in [Tabs -> TabStates] /\ WorkIsKnown' /\ DoneIsDurable'
      BY <2>8, <3>1, PageMoves DEF Release, Kept
    <3>3. /\ inbox' \in [Effects -> InboxRecords]
          /\ \A x \in Effects : inbox'[x].state = "completed" => inbox[x].state = "completed"
      <4>1. CASE Holds(t)
        <5>1. inbox[Effect(t)] \in InboxRecords /\ inbox[Effect(t)].state = "pending"
          BY <3>1, <4>1, <2>Types DEF Holds
        <5>2. /\ Finished(inbox[Effect(t)], "released") \in InboxRecords
              /\ Finished(inbox[Effect(t)], "released").state = "released"
          BY <5>1, FinishedTyped, RecordSteps
        <5>. QED BY <2>8, <3>1, <4>1, <5>2, <2>Types DEF Release
      <4>2. CASE ~ Holds(t)
        BY <2>8, <4>2, <2>Types DEF Release
      <4>. QED BY <4>1, <4>2
    <3>4. CompletedIsDelivered'
      BY <2>8, <3>3, <2>Keys DEF Release, CompletedIsDelivered
    <3>. QED BY <2>8, <3>2, <3>3, <3>4, <2>Types DEF Release, TypeOK, StampsStored
  <2>9. ASSUME NEW t \in Tabs, ApplyStored(t)
        PROVE  IInv'
    <3>. DEFINE k == tab[t].task
    <3>1. tab[t].pc = "apply" /\ k \in Tasks /\ Stop(t)
      BY <2>9 DEF ApplyStored, WorkIsKnown
    <3>. HIDE DEF k
    <3>2. /\ node' \in [Tasks -> NodeValues]
          /\ \A x \in Tasks : node'[x].stamp = node[x].stamp
      <4>1. UNCHANGED node \/ node' = [node EXCEPT ![k].text = "result"]
        BY <2>9 DEF ApplyStored, k
      <4>2. node[k] \in NodeValues
        BY <3>1, <2>Types
      <4>3. [node[k] EXCEPT !.text = "result"] \in NodeValues /\ [node[k] EXCEPT !.text = "result"].stamp = node[k].stamp
        BY <4>2, TextTyped
      <4>. QED BY <3>1, <4>1, <4>3, <2>Types
    <3>3. /\ mem' \in [Tabs -> [Tasks -> NodeValues]]
          /\ \A u \in Tabs, x \in Tasks : mem'[u][x].stamp = mem[u][x].stamp
      <4>1. UNCHANGED mem \/ mem' = [mem EXCEPT ![t][k].text = "result"]
        BY <2>9 DEF ApplyStored, k
      <4>2. mem[t] \in [Tasks -> NodeValues] /\ mem[t][k] \in NodeValues
        BY <3>1, <2>Types
      <4>3. /\ [mem[t][k] EXCEPT !.text = "result"] \in NodeValues
            /\ [mem[t][k] EXCEPT !.text = "result"].stamp = mem[t][k].stamp
        BY <4>2, TextTyped
      <4>4. CASE UNCHANGED mem
        BY <4>4, <2>Types
      <4>5. CASE mem' = [mem EXCEPT ![t][k].text = "result"]
        BY <3>1, <4>2, <4>3, <4>5, <2>Types
      <4>. QED BY <4>1, <4>4, <4>5
    <3>4. tab' \in [Tabs -> TabStates] /\ WorkIsKnown' /\ DoneIsDurable'
      BY <2>9, <3>1, <3>2, PageMoves DEF ApplyStored, Kept
    <3>5. CompletedIsDelivered'
      BY <2>9, <3>2, TasksAssumption DEF ApplyStored, CompletedIsDelivered
    <3>. QED BY <2>9, <3>2, <3>3, <3>4, <3>5, <2>Types DEF ApplyStored, TypeOK, StampsStored
  <2>10. ASSUME NEW t \in Tabs, HeartbeatFails(t)
         PROVE  IInv'
    <3>1. tab' \in [Tabs -> TabStates] /\ WorkIsKnown' /\ DoneIsDurable'
      BY <2>10, PageMoves DEF HeartbeatFails, Kept
    <3>. QED BY <2>10, <3>1, <2>Types
         DEF HeartbeatFails, TypeOK, StampsStored, CompletedIsDelivered
  <2>11. ASSUME NEW e \in Effects, LapseOf(e), UNCHANGED <<deleted, library, node, tab, shown, mem>>,
                faults' \in 0 .. MaxFaults
         PROVE  IInv'
    <3>1. /\ inbox' \in [Effects -> InboxRecords]
          /\ \A x \in Effects : inbox'[x].state = inbox[x].state
      <4>1. [inbox[e] EXCEPT !.live = FALSE] \in InboxRecords
        BY <2>Types, LapsedTyped
      <4>2. [inbox[e] EXCEPT !.live = FALSE].state = inbox[e].state
        BY <2>Types, RecordSteps
      <4>. QED BY <2>11, <4>1, <4>2, <2>Types DEF LapseOf
    <3>2. CompletedIsDelivered'
      BY <2>11, <3>1, <2>Keys DEF CompletedIsDelivered
    <3>. QED BY <2>11, <3>1, <3>2, <2>Types DEF TypeOK, WorkIsKnown, StampsStored, DoneIsDurable
  <2>12. ASSUME NEW e \in Effects, LeaseLapses(e)
         PROVE  IInv'
    BY <2>11, <2>12, <2>Types DEF LeaseLapses
  <2>13. ASSUME NEW e \in Effects, Stall(e)
         PROVE  IInv'
    <3>1. faults' \in 0 .. MaxFaults
      BY <2>13, <2>Types, BoundsAssumption DEF Stall
    <3>. QED BY <2>11, <2>13, <3>1 DEF Stall
  <2>14. ASSUME NEW t \in Tabs, Abort(t)
         PROVE  IInv'
    <3>1. faults' \in 0 .. MaxFaults
      BY <2>14, <2>Types, BoundsAssumption DEF Abort
    <3>2. tab' \in [Tabs -> TabStates] /\ WorkIsKnown' /\ DoneIsDurable'
      BY <2>14, PageMoves DEF Abort, Kept
    <3>. QED BY <2>14, <3>1, <3>2, <2>Types
         DEF Abort, TypeOK, StampsStored, CompletedIsDelivered
  <2>15. ASSUME NEW t \in Tabs, Reopen(t)
         PROVE  IInv'
    <3>1. faults' \in 0 .. MaxFaults
      BY <2>15, <2>Types, BoundsAssumption DEF Reopen
    <3>2. /\ tab' \in [Tabs -> TabStates] /\ tab'[t].pc = "idle"
          /\ \A u \in Tabs \ {t} : tab'[u] = tab[u]
      BY <2>15, <2>Types, Stopping DEF Reopen
    <3>3. WorkIsKnown' /\ DoneIsDurable'
      BY <2>15, <3>2 DEF Reopen, WorkIsKnown, DoneIsDurable
    <3>4. shown' \in [Tabs -> SUBSET NodeTasks] /\ mem' \in [Tabs -> [Tasks -> NodeValues]]
      <4>1. {k \in NodeTasks : library[k] = "present"} \in SUBSET NodeTasks
        OBVIOUS
      <4>. QED BY <2>15, <4>1, <2>Types DEF Reopen
    <3>5. StampsStored'
      BY <2>15, <2>Types DEF Reopen, StampsStored
    <3>. QED BY <2>15, <3>1, <3>2, <3>3, <3>4, <3>5, <2>Types
         DEF Reopen, TypeOK, CompletedIsDelivered
  <2>16. ASSUME NEW t \in Tabs, NEW k \in NodeTasks, EditNode(t, k)
         PROVE  IInv'
    <3>1. PICK text \in {"draft", "edited", "gone"} :
            /\ node' = [node EXCEPT ![k].text = text]
            /\ mem' = [mem EXCEPT ![t][k].text = text]
      BY <2>16 DEF EditNode
    <3>2. /\ node' \in [Tasks -> NodeValues]
          /\ \A x \in Tasks : node'[x].stamp = node[x].stamp
      <4>1. node[k] \in NodeValues /\ k \in Tasks
        BY <2>Types, TasksAssumption
      <4>2. [node[k] EXCEPT !.text = text] \in NodeValues /\ [node[k] EXCEPT !.text = text].stamp = node[k].stamp
        BY <4>1, TextTyped
      <4>. QED BY <3>1, <4>1, <4>2, <2>Types
    <3>3. /\ mem' \in [Tabs -> [Tasks -> NodeValues]]
          /\ \A u \in Tabs, x \in Tasks : mem'[u][x].stamp = mem[u][x].stamp
      <4>1. mem[t] \in [Tasks -> NodeValues] /\ mem[t][k] \in NodeValues /\ k \in Tasks
        BY <2>Types, TasksAssumption
      <4>2. /\ [mem[t][k] EXCEPT !.text = text] \in NodeValues
            /\ [mem[t][k] EXCEPT !.text = text].stamp = mem[t][k].stamp
        BY <4>1, TextTyped
      <4>. QED BY <3>1, <4>1, <4>2, <2>Types
    <3>4. WorkIsKnown' /\ DoneIsDurable'
      BY <2>16, <3>2, TasksAssumption DEF EditNode, WorkIsKnown, DoneIsDurable
    <3>5. CompletedIsDelivered'
      BY <2>16, <3>2, TasksAssumption DEF EditNode, CompletedIsDelivered
    <3>. QED BY <2>16, <3>2, <3>3, <3>4, <3>5, <2>Types DEF EditNode, TypeOK, StampsStored
  <2>17. ASSUME NEW t \in Tabs, NEW k \in NodeTasks, DeleteAsset(t, k)
         PROVE  IInv'
    <3>1. /\ library' \in [Tasks -> {"absent", "present", "deleted"}]
          /\ \A x \in Tasks : library[x] # "absent" => library'[x] # "absent"
      BY <2>17, <2>Types, TasksAssumption DEF DeleteAsset
    <3>2. shown' \in [Tabs -> SUBSET NodeTasks]
      BY <2>17, <2>Types DEF DeleteAsset
    <3>3. WorkIsKnown' /\ DoneIsDurable'
      BY <2>17, <3>1 DEF DeleteAsset, WorkIsKnown, DoneIsDurable
    <3>4. CompletedIsDelivered'
      BY <2>17, <3>1 DEF DeleteAsset, CompletedIsDelivered
    <3>. QED BY <2>17, <3>1, <3>2, <3>3, <3>4, <2>Types DEF DeleteAsset, TypeOK, StampsStored
  <2>18. ASSUME NEW k \in Tasks, DeleteTask(k)
         PROVE  IInv'
    BY <2>18, <2>Types
    DEF DeleteTask, TypeOK, WorkIsKnown, StampsStored, DoneIsDurable, CompletedIsDelivered
  <2>19. CASE UNCHANGED vars
    BY <2>19, <2>Types
    DEF vars, TypeOK, WorkIsKnown, StampsStored, DoneIsDurable, CompletedIsDelivered
  <2>. QED
    BY <2>1, <2>2, <2>3, <2>4, <2>5, <2>6, <2>7, <2>8, <2>9, <2>10, <2>12, <2>13, <2>14, <2>15,
       <2>16, <2>17, <2>18, <2>19
    DEF Next, TabStep
<1>. QED BY <1>1, <1>2, PTL DEF Spec

-----------------------------------------------------------------------------
(* The theorems. *)

\* The claim records are well formed, as the parser of the store demands: a
\* lease belongs to a pending claim and to nothing else.
THEOREM Typed == Spec => []TypeOK
BY Inductive, PTL DEF IInv

\* A claim is completed only when its asset, or its stamp, is in storage.
THEOREM Delivery == Spec => []CompletedIsDelivered
BY Inductive, PTL DEF IInv

\* A record is claimed with a higher fence, finished with its own fence, or
\* unchanged; it is dropped only when it was released or its task deleted.
LEMMA StepProgresses ==
  ASSUME TypeOK, WorkIsKnown, [Next]_vars, NEW e \in Effects, inbox[e].state # "none"
  PROVE  \/ inbox'[e].state # "none" /\ InboxProgresses(inbox[e], inbox'[e])
         \/ inbox'[e].state = "none" /\ (inbox[e].state = "released" \/ e[1] \in deleted)
<1>. DEFINE Progress ==
       \/ inbox'[e].state # "none" /\ InboxProgresses(inbox[e], inbox'[e])
       \/ inbox'[e].state = "none" /\ (inbox[e].state = "released" \/ e[1] \in deleted)
<1>Types. inbox \in [Effects -> InboxRecords] /\ inbox[e] \in InboxRecords
  BY DEF TypeOK
<1>1. CASE inbox'[e] = inbox[e]
  BY <1>1, <1>Types DEF InboxProgresses, InboxRecords
<1>2. ASSUME NEW t \in Tabs, inbox[e].state # "completed", inbox'[e] = Claimed(inbox[e], t)
      PROVE  Progress
  BY <1>2, <1>Types, RecordSteps DEF InboxProgresses, InboxRecords
<1>3. ASSUME NEW s \in {"completed", "released"}, inbox[e].state = "pending",
             inbox'[e] = Finished(inbox[e], s)
      PROVE  Progress
  BY <1>3, <1>Types, RecordSteps DEF InboxProgresses, InboxRecords
<1>4. ASSUME LapseOf(e)
      PROVE  Progress
  <2>1. CASE inbox[e].state = "pending"
    <3>1. inbox'[e] = [inbox[e] EXCEPT !.live = FALSE]
      BY <1>4, <1>Types DEF LapseOf
    <3>. QED BY <2>1, <3>1, <1>Types, RecordSteps DEF InboxProgresses, InboxRecords
  <2>2. CASE inbox[e].state # "pending"
    <3>1. inbox[e] = [inbox[e] EXCEPT !.live = FALSE]
      BY <2>2, <1>Types DEF InboxRecords
    <3>. QED BY <1>1, <1>4, <3>1, <1>Types DEF LapseOf
  <2>. QED BY <2>1, <2>2
<1>5. ASSUME NEW t \in Tabs, Claim(t)
      PROVE  Progress
  <2>1. Effect(t) \in Effects
    BY <1>5, EffectTyped DEF Claim
  <2>2. CASE UNCHANGED inbox
    BY <1>1, <2>2
  <2>3. CASE inbox[Effect(t)].state # "completed" /\ StoreClaim(t, Effect(t))
    <3>1. CASE inbox' = [inbox EXCEPT ![Effect(t)] = Claimed(@, t)]
      BY <1>1, <1>2, <2>3, <3>1, <1>Types
    <3>2. ASSUME Effect(t) \notin Records, NEW d \in Droppable,
                 inbox' = [inbox EXCEPT ![d] = NoRecord, ![Effect(t)] = Claimed(NoRecord, t)]
          PROVE  Progress
      <4>1. e # Effect(t)
        BY <2>1, <3>2 DEF Records
      <4>2. CASE e = d
        BY <3>2, <4>1, <4>2, <1>Types, RecordSteps DEF Droppable
      <4>3. CASE e # d
        BY <1>1, <3>2, <4>1, <4>3, <1>Types
      <4>. QED BY <4>2, <4>3
    <3>. QED BY <2>3, <3>1, <3>2 DEF StoreClaim
  <2>. QED BY <1>5, <2>2, <2>3 DEF Claim
<1>6. ASSUME NEW t \in Tabs, NEW s \in {"completed", "released"},
             \/ inbox' = inbox
             \/ Holds(t) /\ inbox' = [inbox EXCEPT ![Effect(t)] = Finished(@, s)]
      PROVE  Progress
  <2>1. CASE inbox'[e] = inbox[e]
    BY <1>1, <2>1
  <2>2. CASE inbox'[e] # inbox[e]
    BY <1>3, <1>6, <2>2, <1>Types DEF Holds
  <2>. QED BY <2>1, <2>2
<1>7. ASSUME NEW t \in Tabs, Complete(t) \/ Release(t)
      PROVE  Progress
  BY <1>6, <1>7 DEF Complete, Release
<1>8. ASSUME NEW x \in Effects, LeaseLapses(x) \/ Stall(x)
      PROVE  Progress
  <2>1. LapseOf(x)
    BY <1>8 DEF LeaseLapses, Stall
  <2>2. CASE x = e
    BY <1>4, <2>1, <2>2
  <2>3. CASE x # e
    BY <1>1, <2>1, <2>3, <1>Types DEF LapseOf
  <2>. QED BY <2>2, <2>3
<1>9. CASE UNCHANGED inbox
  BY <1>1, <1>9
<1>. QED
  <2>1. CASE UNCHANGED vars
    BY <1>9, <2>1 DEF vars
  <2>2. ASSUME NEW t \in Tabs,
               \/ TabStep(t) \/ InsertFails(t) \/ AttachFails(t) \/ Abort(t) \/ Reopen(t)
               \/ \E k \in NodeTasks : EditNode(t, k) \/ DeleteAsset(t, k)
        PROVE  Progress
    BY <1>5, <1>7, <1>9, <2>2
    DEF TabStep, Start, InsertAsset, AttachNode, ApplyStored, HeartbeatFails, InsertFails,
        AttachFails, Abort, Reopen, EditNode, DeleteAsset
  <2>3. ASSUME NEW k \in Tasks, DeleteTask(k)
        PROVE  Progress
    BY <1>9, <2>3 DEF DeleteTask
  <2>. QED BY <1>8, <2>1, <2>2, <2>3 DEF Next

\* Every write of the store is one that recovery accepts after a crash.
THEOREM Progresses == Spec => StoreProgresses
<1>1. IInv /\ [Next]_vars =>
        [\A e \in Effects :
           inbox[e].state # "none" =>
             \/ inbox'[e].state # "none" /\ InboxProgresses(inbox[e], inbox'[e])
             \/ inbox'[e].state = "none" /\ (inbox[e].state = "released" \/ e[1] \in deleted)]_vars
  BY StepProgresses DEF IInv
<1>. QED BY <1>1, Inductive, PTL DEF Spec, StoreProgresses

-----------------------------------------------------------------------------
(* The result is written once. *)

\* Until it has attached its result, a page shows a node that has the stamp, or
\* one that nobody wrote a result into: only the former can be edited.
Delivering(t) == tab[t].pc \in {"claim", "held", "done"} /\ tab[t].task \in NodeTasks

Unwritten(n) == n.stamp \/ n.text \in {"empty", "draft", "gone"}

PlacesFirst == \A t \in Tabs : Delivering(t) => Unwritten(mem[t][tab[t].task])

\* Page t goes on with its task, or stops; the others do nothing.
MovesOn(t) ==
  /\ \A u \in Tabs \ {t} : tab'[u] = tab[u]
  /\ Delivering(t)' => Delivering(t) /\ tab'[t].task = tab[t].task

\* A page that moves on with the nodes it shows keeps what is known of them.
LEMMA MovedOn ==
  ASSUME PlacesFirst, NEW t \in Tabs, MovesOn(t), UNCHANGED mem
  PROVE  PlacesFirst'
BY DEF PlacesFirst, MovesOn, Delivering

\* The ways in which a page moves on.
LEMMA WaysOn ==
  ASSUME TypeOK, NEW t \in Tabs,
         \/ Stop(t) \/ GiveUp(t)
         \/ \E pc \in {"failed", "aborted", "apply"} : Go(t, pc)
         \/ /\ tab[t].pc \in {"claim", "held", "done"}
            /\ NextEffect(t) \/ \E pc \in {"held", "done"} : Go(t, pc)
  PROVE  MovesOn(t)
<1>1. tab \in [Tabs -> TabStates]
  BY DEF TypeOK
<1>2. CASE Stop(t)
  BY <1>1, <1>2, Stopping DEF MovesOn, Delivering
<1>3. ASSUME NEW pc \in {"failed", "aborted", "apply"}, Go(t, pc)
      PROVE  MovesOn(t)
  BY <1>1, <1>3, Going DEF MovesOn, Delivering, TabPCs
<1>4. ASSUME NEW pc \in {"held", "done"}, Go(t, pc), tab[t].pc \in {"claim", "held", "done"}
      PROVE  MovesOn(t)
  BY <1>1, <1>4, Going DEF MovesOn, Delivering, TabPCs
<1>5. CASE /\ tab[t].pc \in {"claim", "held", "done"}
           /\ tab' = [tab EXCEPT ![t].kind = "attach", ![t].pc = "claim"]
  BY <1>1, <1>5, Attaching DEF MovesOn, Delivering
<1>. QED BY <1>2, <1>3, <1>4, <1>5 DEF GiveUp, NextEffect

\* What the attach writes carries the stamp, and so does what it leaves alone.
LEMMA Attached ==
  ASSUME IInv, NEW t \in Tabs, AttachNode(t)
  PROVE  \/ Go(t, "failed")
         \/ Go(t, "done") /\ mem'[t][tab[t].task].stamp
<1>. DEFINE k == tab[t].task  base == mem[t][k]
<1>1. k \in Tasks /\ mem \in [Tabs -> [Tasks -> NodeValues]] /\ base \in NodeValues
  BY DEF IInv, TypeOK, WorkIsKnown, AttachNode
<1>2. CASE Go(t, "failed")
  BY <1>2
<1>3. CASE /\ Go(t, "done")
           /\ mem' = [mem EXCEPT ![t][k] = IF Wanted(base) = base THEN node[k] ELSE Wanted(base)]
  <2>1. mem'[t][k] = IF Wanted(base) = base THEN node[k] ELSE Wanted(base)
    BY <1>1, <1>3
  <2>2. Wanted(base).stamp = TRUE
    BY <1>1, WantedTyped
  <2>3. Wanted(base) = base => node[k].stamp
    BY <1>1, <2>2 DEF IInv, StampsStored
  <2>. QED BY <1>3, <2>1, <2>2, <2>3
<1>. QED BY <1>2, <1>3 DEF AttachNode

\* No page gets to deliver a result over an edited text.
LEMMA PlacesStep ==
  ASSUME IInv, PlacesFirst, [Next]_vars
  PROVE  PlacesFirst'
<1>1. /\ TypeOK /\ WorkIsKnown /\ NodeTasks \subseteq Tasks
      /\ tab \in [Tabs -> TabStates] /\ mem \in [Tabs -> [Tasks -> NodeValues]]
  BY TasksAssumption DEF IInv, TypeOK
<1>2. ASSUME NEW t \in Tabs, NEW k \in Tasks, Start(t, k)
      PROVE  PlacesFirst'
  <2>1. /\ \A u \in Tabs \ {t} : tab'[u] = tab[u]
        /\ tab'[t].task = k /\ mem' = mem
        /\ k \in NodeTasks => mem[t][k].text = "empty"
    BY <1>1, <1>2 DEF Start
  <2>. QED BY <2>1 DEF PlacesFirst, Delivering, Unwritten
<1>3. ASSUME NEW t \in Tabs,
             Claim(t) \/ InsertAsset(t) \/ Complete(t) \/ Release(t) \/ HeartbeatFails(t)
               \/ InsertFails(t) \/ AttachFails(t) \/ Abort(t)
      PROVE  PlacesFirst'
  <2>1. MovesOn(t)
    BY <1>1, <1>3, WaysOn
    DEF Claim, InsertAsset, Complete, Release, HeartbeatFails, InsertFails, AttachFails, Abort
  <2>2. UNCHANGED mem
    BY <1>3
    DEF Claim, InsertAsset, Complete, Release, HeartbeatFails, InsertFails, AttachFails, Abort
  <2>. QED BY <2>1, <2>2, MovedOn
<1>4. ASSUME NEW t \in Tabs, AttachNode(t)
      PROVE  PlacesFirst'
  <2>1. tab[t].pc = "held" /\ tab[t].task \in Tasks
    BY <1>1, <1>4 DEF AttachNode, WorkIsKnown
  <2>2. MovesOn(t)
    BY <1>1, <1>4, <2>1, Attached, WaysOn
  <2>3. \A u \in Tabs \ {t} : mem'[u] = mem[u]
    BY <1>1, <1>4 DEF AttachNode
  <2>4. Delivering(t)' => mem'[t][tab[t].task].stamp
    BY <1>1, <1>4, Attached, Going DEF Delivering, TabPCs
  <2>. QED BY <2>2, <2>3, <2>4 DEF PlacesFirst, MovesOn, Delivering, Unwritten
<1>5. ASSUME NEW t \in Tabs, ApplyStored(t) \/ Reopen(t)
      PROVE  PlacesFirst'
  <2>1. tab'[t].pc = "idle" /\ \A u \in Tabs \ {t} : tab'[u] = tab[u]
    BY <1>1, <1>5, Stopping DEF ApplyStored, Reopen
  <2>2. \A u \in Tabs \ {t} : mem'[u] = mem[u]
    BY <1>1, <1>5 DEF ApplyStored, Reopen
  <2>. QED BY <2>1, <2>2 DEF PlacesFirst, Delivering
<1>6. ASSUME NEW t \in Tabs, NEW k \in NodeTasks, EditNode(t, k)
      PROVE  PlacesFirst'
  <2>1. PICK text \in {IF node[k].text = "result" THEN "edited" ELSE "draft", "gone"} :
          mem' = [mem EXCEPT ![t][k].text = text]
    BY <1>6 DEF EditNode
  <2>2. mem[t][k].text \in {"empty", "result"} /\ node[k].text = mem[t][k].text
    BY <1>6 DEF EditNode
  <2>3. \A u \in Tabs, j \in Tasks : u # t \/ j # k => mem'[u][j] = mem[u][j]
    BY <1>1, <2>1
  <2>4. mem'[t][k].stamp = mem[t][k].stamp /\ mem'[t][k].text = text
    <3>1. mem'[t][k] = [mem[t][k] EXCEPT !.text = text]
      BY <1>1, <2>1
    <3>. QED BY <1>1, <3>1 DEF NodeValues
  <2>5. Unwritten(mem[t][k]) => Unwritten(mem'[t][k])
    BY <2>2, <2>4 DEF Unwritten
  <2>6. UNCHANGED tab
    BY <1>6 DEF EditNode
  <2>. QED BY <1>1, <2>3, <2>5, <2>6 DEF PlacesFirst, Delivering
<1>7. CASE \/ \E t \in Tabs, k \in NodeTasks : DeleteAsset(t, k)
           \/ \E e \in Effects : LeaseLapses(e) \/ Stall(e)
           \/ \E k \in Tasks : DeleteTask(k)
           \/ UNCHANGED vars
  <2>1. UNCHANGED <<tab, mem>>
    BY <1>7 DEF DeleteAsset, LeaseLapses, Stall, DeleteTask, vars
  <2>. QED BY <2>1 DEF PlacesFirst, Delivering
<1>. QED BY <1>2, <1>3, <1>4, <1>5, <1>6, <1>7 DEF Next, TabStep

\* A result is written over nothing that a user made of it.
LEMMA WritesOnce ==
  ASSUME IInv, PlacesFirst, [Next]_vars, NEW k \in NodeTasks
  PROVE  /\ node[k].text = "gone" => node'[k].text = "gone"
         /\ node[k].stamp => node'[k].stamp
         /\ node[k].text = "edited" /\ node'[k].text = "result" =>
              \E t \in Tabs : tab[t].pc = "apply" /\ tab'[t].pc = "idle"
<1>1. /\ TypeOK /\ WorkIsKnown /\ NodeTasks \subseteq Tasks
      /\ tab \in [Tabs -> TabStates] /\ mem \in [Tabs -> [Tasks -> NodeValues]]
      /\ node \in [Tasks -> NodeValues]
  BY TasksAssumption DEF IInv, TypeOK
<1>2. ASSUME NEW t \in Tabs, AttachNode(t), node' # node
      PROVE  /\ node[k].text # "gone" /\ node[k].text # "edited" /\ node'[k].stamp
             \/ node'[k] = node[k]
  <2>. DEFINE j == tab[t].task  base == mem[t][j]  local == Wanted(base)
  <2>1. /\ local # base /\ node' = [node EXCEPT ![j] = local]
        /\ base.text # "gone" /\ ~ Conflict(base, local, node[j])
        /\ tab[t].pc = "held" /\ tab[t].kind = "attach" /\ j \in NodeTasks
    BY <1>1, <1>2 DEF AttachNode, WorkIsKnown
  <2>2. base \in NodeValues /\ ~ base.stamp /\ local = [text |-> "result", stamp |-> TRUE]
    BY <1>1, <2>1 DEF Wanted
  <2>3. base.text \in {"empty", "draft"}
    BY <2>1, <2>2 DEF PlacesFirst, Delivering, Unwritten
  <2>4. node[j].text # "gone" /\ node[j].text \in {base.text, "result"}
    BY <2>1, <2>2 DEF Conflict
  <2>5. j = k => node'[k].stamp
    BY <1>1, <2>1, <2>2
  <2>6. j # k => node'[k] = node[k]
    BY <1>1, <2>1
  <2>. QED BY <2>3, <2>4, <2>5, <2>6
<1>3. ASSUME NEW t \in Tabs, ApplyStored(t)
      PROVE  /\ tab[t].pc = "apply" /\ tab'[t].pc = "idle"
             /\ node'[k].stamp = node[k].stamp
             /\ node[k].text = "gone" => node'[k].text = "gone"
  <2>1. tab[t].pc = "apply" /\ tab'[t].pc = "idle"
    BY <1>1, <1>3, Stopping DEF ApplyStored
  <2>. DEFINE j == tab[t].task
  <2>2. j \in Tasks
    BY <1>1, <2>1 DEF WorkIsKnown
  <2>3. CASE UNCHANGED node
    BY <2>1, <2>3
  <2>4. CASE node[j].text # "gone" /\ node' = [node EXCEPT ![j].text = "result"]
    <3>1. node'[j] = [node[j] EXCEPT !.text = "result"] /\ j # k => node'[k] = node[k]
      BY <1>1, <2>2, <2>4
    <3>2. [node[j] EXCEPT !.text = "result"].stamp = node[j].stamp
      BY <1>1, <2>2, TextTyped
    <3>3. j # k => node'[k] = node[k]
      BY <1>1, <2>2, <2>4
    <3>. QED BY <2>1, <2>2, <2>4, <3>1, <3>2, <3>3
  <2>. QED BY <1>3, <2>3, <2>4 DEF ApplyStored
<1>4. ASSUME NEW t \in Tabs, NEW j \in NodeTasks, EditNode(t, j)
      PROVE  /\ node'[k].stamp = node[k].stamp
             /\ node'[k] # node[k] => node[k].text \in {"empty", "result"}
  <2>1. PICK text \in {IF node[j].text = "result" THEN "edited" ELSE "draft", "gone"} :
          node' = [node EXCEPT ![j].text = text]
    BY <1>4 DEF EditNode
  <2>2. node[j].text \in {"empty", "result"}
    BY <1>4 DEF EditNode
  <2>3. j # k => node'[k] = node[k]
    BY <1>1, <2>1
  <2>4. node'[j] = [node[j] EXCEPT !.text = text]
    BY <1>1, <2>1
  <2>5. [node[j] EXCEPT !.text = text].stamp = node[j].stamp
    BY <1>1, <2>1, TextTyped
  <2>. QED BY <2>2, <2>3, <2>4, <2>5
<1>5. CASE UNCHANGED node
  BY <1>1, <1>5 DEF NodeValues
<1>6. \/ UNCHANGED node
      \/ \E t \in Tabs : AttachNode(t) \/ ApplyStored(t) \/ \E j \in NodeTasks : EditNode(t, j)
  BY DEF Next, TabStep, Start, Claim, InsertAsset, Complete, Release, HeartbeatFails,
         InsertFails, AttachFails, Abort, Reopen, DeleteAsset, LeaseLapses, Stall, DeleteTask, vars
<1>. QED BY <1>2, <1>3, <1>4, <1>5, <1>6

\* A late or second delivery neither writes over what the user made of the first
\* one nor brings a deleted node back, whatever leases lapse.
THEOREM DeliveredOnce == Spec => AppliedOnce
<1>1. Init => PlacesFirst
  BY DEF Init, PlacesFirst, Delivering, Idle
<1>2. IInv /\ PlacesFirst /\ [Next]_vars => PlacesFirst'
  BY PlacesStep
<1>3. IInv /\ PlacesFirst /\ [Next]_vars =>
        [\A k \in NodeTasks :
           /\ node[k].text = "gone" => node'[k].text = "gone"
           /\ node[k].stamp => node'[k].stamp
           /\ node[k].text = "edited" /\ node'[k].text = "result" =>
                \E t \in Tabs : tab[t].pc = "apply" /\ tab'[t].pc = "idle"]_vars
  BY WritesOnce
<1>. QED BY <1>1, <1>2, <1>3, Inductive, PTL DEF Spec, AppliedOnce
=============================================================================
