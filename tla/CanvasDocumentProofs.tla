------------------------ MODULE CanvasDocumentProofs ------------------------
(***************************************************************************)
(* Proofs about CanvasDocument, for any pages, nodes, generations and      *)
(* bounds: a stamp is stored only by the commit of its effect; and a page  *)
(* alone that has nothing left to write shows what is stored.              *)
(***************************************************************************)
EXTENDS CanvasDocument, TLAPS

\* The types of the model without its bounds.
NodeType    == [here : BOOLEAN, text : Effects \cup Nat, keys : SUBSET Effects]
ContentType == [Nodes -> NodeType]
DocType     == [rev : Nat, nodes : ContentType, tombs : [Nodes -> Nat]]
SeenType    == [nodes : ContentType, rev : Nat]
QueueType   == [base : ContentType, baseRev : Nat, state : ContentType, fresh : BOOLEAN]
AttemptType == [effect : Effects, first : BOOLEAN, base : ContentType, local : ContentType,
                start : ContentType, rev : Nat]
JobType     == [pc : {"none", "save", "drain", "merge", "rest", "publish"},
                taken : QueueType \cup {NoQueue}]

Types ==
  /\ doc \in DocType
  /\ memory \in [Tabs -> ContentType]
  /\ observed \in [Tabs -> SeenType]
  /\ queue \in [Tabs -> QueueType \cup {NoQueue}]
  /\ attempt \in [Tabs -> AttemptType \cup {NoAttempt}]
  /\ job \in [Tabs -> JobType]
  /\ edits \in Nat
  /\ committed \in SUBSET Effects

\* Contents that carry no stamp but of these commits.
Within(contents, stamps) == \A n \in Nodes : contents[n].keys \subseteq stamps

\* What a page shows is confirmed, but for the result of the commit it runs,
\* when it shows that first.
Shown(t, n) ==
  \/ memory[t][n].keys \subseteq committed
  \/ /\ n = Target /\ attempt[t] # NoAttempt /\ attempt[t].first
     /\ memory[t][n].keys = attempt[t].local[n].keys

Sound(a) ==
  /\ Within(a.base, committed)
  /\ \A n \in Nodes : a.local[n].keys \subseteq committed \cup {a.effect}
  /\ a.local[Target].here

\* A job under the lock: what it writes is confirmed, and a commit goes on.
JobOK(t) ==
  /\ job[t].pc \in {"save", "drain", "rest"} =>
       /\ queue[t] # NoQueue /\ job[t].taken # NoQueue
       /\ Within(job[t].taken.state, committed)
  /\ job[t].pc \in {"drain", "merge", "rest", "publish"} => attempt[t] # NoAttempt
  /\ job[t].pc \in {"rest", "publish"} => attempt[t].effect \in committed

TabOK(t) ==
  /\ \A n \in Nodes : Shown(t, n)
  /\ Within(observed[t].nodes, committed)
  /\ queue[t] # NoQueue => Within(queue[t].state, committed)
  /\ attempt[t] # NoAttempt => Sound(attempt[t])
  /\ JobOK(t)

IInv == Types /\ Within(doc.nodes, committed) /\ \A t \in Tabs : TabOK(t)

-----------------------------------------------------------------------------
(* The merge and the ordinary save. *)

\* Neither a save nor an attempt is mistaken for none.
LEMMA SomeIsNotNone == NoQueue \notin QueueType /\ NoAttempt \notin AttemptType
<1>1. DOMAIN NoQueue = {"base"} /\ DOMAIN NoAttempt = {"base"}
  BY DEF NoQueue, NoAttempt
<1>2. \A q \in QueueType : "state" \in DOMAIN q
  BY DEF QueueType
<1>3. \A a \in AttemptType : "local" \in DOMAIN a
  BY DEF AttemptType
<1>. QED BY <1>1, <1>2, <1>3

\* An absent node carries no stamp.
LEMMA AbsentNode == Absent \in NodeType /\ Absent.keys = {} /\ Absent.here = FALSE
BY DEF Absent, NodeType

\* The merge of a node that is in both.
LEMMA MergedTyped ==
  ASSUME NEW b \in NodeType, NEW l \in NodeType, NEW d \in NodeType
  PROVE  /\ MergedNode(b, l, d) \in NodeType
         /\ MergedNode(b, l, d).keys \subseteq l.keys \cup d.keys
         /\ b.here /\ l.keys = b.keys => MergedNode(b, l, d).keys = d.keys
<1>. DEFINE text == IF b.here /\ d.text = b.text THEN l.text ELSE d.text
            keys == CASE b.here /\ l.keys = b.keys -> d.keys
                      [] b.here /\ d.keys = b.keys -> l.keys
                      [] OTHER -> d.keys \cup l.keys
<1>1. text \in Effects \cup Nat
  BY DEF NodeType
<1>2. /\ l.keys \in SUBSET Effects /\ d.keys \in SUBSET Effects
  BY DEF NodeType
<1>3. /\ keys \in SUBSET Effects /\ keys \subseteq l.keys \cup d.keys
      /\ b.here /\ l.keys = b.keys => keys = d.keys
  <2>1. CASE b.here /\ l.keys = b.keys /\ d.keys = b.keys
    BY <1>2, <2>1
  <2>2. CASE b.here /\ l.keys = b.keys /\ d.keys # b.keys
    BY <1>2, <2>2
  <2>3. CASE b.here /\ l.keys # b.keys /\ d.keys = b.keys
    BY <1>2, <2>3
  <2>4. CASE ~ b.here \/ (l.keys # b.keys /\ d.keys # b.keys)
    BY <1>2, <2>4
  <2>. QED BY <2>1, <2>2, <2>3, <2>4
<1>4. MergedNode(b, l, d) = [here |-> TRUE, text |-> text, keys |-> keys]
  BY DEF MergedNode
<1>. HIDE DEF text, keys
<1>. QED BY <1>1, <1>3, <1>4 DEF NodeType

\* A merged node has no stamp that neither side has; and a stamp that the page
\* has kept since the base does not come back.
LEMMA RebasedTyped ==
  ASSUME NEW b \in NodeType, NEW l \in NodeType, NEW d \in NodeType,
         NEW tomb \in Nat, NEW r \in Nat
  PROVE  /\ RebasedNode(b, l, d, tomb, r) \in NodeType
         /\ RebasedNode(b, l, d, tomb, r).keys \subseteq l.keys \cup d.keys
         /\ b.here /\ l.keys = b.keys =>
              RebasedNode(b, l, d, tomb, r).keys \subseteq d.keys
<1>1. CASE Deletes(b, l)
  <2>1. RebasedNode(b, l, d, tomb, r) = Absent
    BY <1>1 DEF RebasedNode, Deletes, Writes
  <2>. QED BY <2>1, AbsentNode
<1>2. CASE ~ Deletes(b, l) /\ ~ Writes(b, l)
  BY <1>2 DEF RebasedNode
<1>3. CASE Writes(b, l) /\ d.here
  <2>1. RebasedNode(b, l, d, tomb, r) = MergedNode(b, l, d)
    BY <1>3 DEF RebasedNode, Deletes, Writes
  <2>. QED BY <2>1, MergedTyped
<1>4. CASE Writes(b, l) /\ ~ d.here
  <2>1. RebasedNode(b, l, d, tomb, r) = IF MeetsDeletion(b, d, tomb, r) THEN Absent ELSE l
    BY <1>4 DEF RebasedNode, Deletes, Writes
  <2>2. b.here => MeetsDeletion(b, d, tomb, r)
    BY <1>4 DEF MeetsDeletion
  <2>. QED BY <2>1, <2>2, AbsentNode
<1>. QED BY <1>1, <1>2, <1>3, <1>4 DEF Deletes, Writes

\* The merge of documents.
LEMMA RebaseTyped ==
  ASSUME NEW d \in DocType, NEW b \in ContentType, NEW l \in ContentType, NEW r \in Nat
  PROVE  /\ Rebase(d, b, l, r) \in DocType
         /\ \A n \in Nodes :
              /\ Rebase(d, b, l, r).nodes[n].keys \subseteq l[n].keys \cup d.nodes[n].keys
              /\ b[n].here /\ l[n].keys = b[n].keys =>
                   Rebase(d, b, l, r).nodes[n].keys \subseteq d.nodes[n].keys
<1>. DEFINE nodes == [n \in Nodes |-> RebasedNode(b[n], l[n], d.nodes[n], d.tombs[n], r)]
            tombs == [n \in Nodes |->
                        RebasedTomb(b[n], l[n], d.nodes[n], d.tombs[n], r, d.rev + 1)]
<1>1. /\ d.rev + 1 \in Nat /\ d.rev \in Nat
      /\ \A n \in Nodes : /\ b[n] \in NodeType /\ l[n] \in NodeType
                          /\ d.nodes[n] \in NodeType /\ d.tombs[n] \in Nat
  BY DEF DocType, ContentType
<1>2. /\ nodes \in ContentType
      /\ \A n \in Nodes :
           /\ nodes[n].keys \subseteq l[n].keys \cup d.nodes[n].keys
           /\ b[n].here /\ l[n].keys = b[n].keys => nodes[n].keys \subseteq d.nodes[n].keys
  BY <1>1, RebasedTyped DEF ContentType
<1>3. tombs \in [Nodes -> Nat]
  <2>1. ASSUME NEW n \in Nodes PROVE tombs[n] \in Nat
    <3>1. RebasedTomb(b[n], l[n], d.nodes[n], d.tombs[n], r, d.rev + 1)
            \in {d.rev + 1, 0, d.tombs[n]}
      BY DEF RebasedTomb, Deletes, Writes
    <3>. QED BY <1>1, <3>1
  <2>. QED BY <2>1
<1>4. Rebase(d, b, l, r) = [rev |-> d.rev + 1, nodes |-> nodes, tombs |-> tombs]
  BY DEF Rebase
<1>. HIDE DEF nodes, tombs
<1>. QED BY <1>1, <1>2, <1>3, <1>4 DEF DocType

\* An ordinary save carries no stamp that is not stored.
LEMMA OrdinaryTyped ==
  ASSUME NEW a, NEW mem \in ContentType, NEW durable \in ContentType
  PROVE  /\ Ordinary(a, mem, durable) \in ContentType
         /\ \A n \in Nodes : Ordinary(a, mem, durable)[n].keys \subseteq durable[n].keys
<1>1. ASSUME NEW n \in Nodes
      PROVE  /\ Ordinary(a, mem, durable)[n] \in NodeType
             /\ Ordinary(a, mem, durable)[n].keys \subseteq durable[n].keys
  <2>. DEFINE unconfirmed == ~ (mem[n].keys \subseteq durable[n].keys)
              back == [durable[n] EXCEPT !.text = RolledBack(a, n, mem[n], durable[n])]
              bare == [mem[n] EXCEPT !.keys = durable[n].keys]
  <2>1. mem[n] \in NodeType /\ durable[n] \in NodeType
    BY DEF ContentType
  <2>2. RolledBack(a, n, mem[n], durable[n]) \in {mem[n].text, durable[n].text}
    BY DEF RolledBack
  <2>3. back \in NodeType /\ back.keys = durable[n].keys
    BY <2>1, <2>2 DEF NodeType
  <2>4. bare \in NodeType /\ bare.keys = durable[n].keys
    BY <2>1 DEF NodeType
  <2>5. Ordinary(a, mem, durable)[n] =
          CASE ~ mem[n].here                     -> Absent
            [] mem[n].here /\ unconfirmed /\ ~ durable[n].here -> Absent
            [] mem[n].here /\ unconfirmed /\ durable[n].here   -> back
            [] OTHER                             -> bare
    BY DEF Ordinary
  <2>. HIDE DEF unconfirmed, back, bare
  <2>6. Ordinary(a, mem, durable)[n] \in {Absent, back, bare}
    BY <2>5
  <2>. QED BY <2>3, <2>4, <2>6, AbsentNode
<1>2. Ordinary(a, mem, durable) = [n \in Nodes |-> Ordinary(a, mem, durable)[n]]
  BY DEF Ordinary
<1>. QED BY <1>1, <1>2 DEF ContentType

\* What is queued is an ordinary save.
LEMMA QueuedTyped ==
  ASSUME NEW q \in QueueType \cup {NoQueue}, NEW a, NEW mem \in ContentType,
         NEW seen \in SeenType
  PROVE  /\ Queued(q, a, mem, seen) \in QueueType
         /\ \A n \in Nodes : Queued(q, a, mem, seen).state[n].keys \subseteq seen.nodes[n].keys
<1>1. seen.nodes \in ContentType /\ seen.rev \in Nat
  BY DEF SeenType
<1>2. /\ (IF q = NoQueue THEN seen.nodes ELSE q.base) \in ContentType
      /\ (IF q = NoQueue THEN seen.rev ELSE q.baseRev) \in Nat
  BY <1>1 DEF QueueType
<1>. QED BY <1>1, <1>2, OrdinaryTyped DEF Queued, QueueType

-----------------------------------------------------------------------------
(* A step of one page. *)

\* The other pages keep what they have, and more may be committed.
LEMMA PageStep ==
  ASSUME IInv, NEW t \in Tabs, Types', committed \subseteq committed',
         \A u \in Tabs \ {t} :
            /\ memory'[u] = memory[u] /\ observed'[u] = observed[u]
            /\ queue'[u] = queue[u] /\ attempt'[u] = attempt[u] /\ job'[u] = job[u],
         Within(doc'.nodes, committed'), TabOK(t)'
  PROVE  IInv'
<1>1. ASSUME NEW u \in Tabs, u # t PROVE TabOK(u)'
  <2>1. TabOK(u)
    BY DEF IInv
  <2>2. /\ memory'[u] = memory[u] /\ observed'[u] = observed[u]
        /\ queue'[u] = queue[u] /\ attempt'[u] = attempt[u] /\ job'[u] = job[u]
    BY <1>1
  <2>3. (\A n \in Nodes : Shown(u, n))'
    BY <2>1, <2>2 DEF TabOK, Shown
  <2>4. /\ Within(observed'[u].nodes, committed')
        /\ (queue'[u] # NoQueue => Within(queue'[u].state, committed'))
    BY <2>1, <2>2 DEF TabOK, Within
  <2>5. (attempt[u] # NoAttempt => Sound(attempt[u]))'
    BY <2>1, <2>2 DEF TabOK, Sound, Within
  <2>6. JobOK(u)'
    BY <2>1, <2>2 DEF TabOK, JobOK, Within
  <2>. QED BY <2>3, <2>4, <2>5, <2>6 DEF TabOK
<1>. QED BY <1>1 DEF IInv

\* What Take leaves: the job has a confirmed save, or goes on without one.
LEMMA Taken ==
  ASSUME IInv, NEW t \in Tabs, NEW q \in QueueType \cup {NoQueue},
         NEW pc \in {"save", "drain", "rest"}, NEW otherwise \in {"none", "merge", "publish"},
         Take(t, q, pc, otherwise), q # NoQueue => Within(q.state, committed')
  PROVE  /\ queue' \in [Tabs -> QueueType \cup {NoQueue}] /\ job' \in [Tabs -> JobType]
         /\ \A u \in Tabs \ {t} : queue'[u] = queue[u] /\ job'[u] = job[u]
         /\ job'[t].pc \in {pc, otherwise}
         /\ queue'[t] # NoQueue => Within(queue'[t].state, committed')
         /\ job'[t].pc = pc =>
              /\ queue'[t] # NoQueue /\ job'[t].taken # NoQueue
              /\ Within(job'[t].taken.state, committed')
<1>1. queue \in [Tabs -> QueueType \cup {NoQueue}] /\ job \in [Tabs -> JobType]
  BY DEF IInv, Types
<1>2. CASE q = NoQueue
  <2>. DEFINE j == [pc |-> otherwise, taken |-> NoQueue]
  <2>1. job' = [job EXCEPT ![t] = j] /\ queue' = [queue EXCEPT ![t] = NoQueue]
    BY <1>2 DEF Take
  <2>2. j \in JobType /\ j.pc = otherwise
    BY DEF JobType
  <2>. HIDE DEF j
  <2>. QED BY <1>1, <2>1, <2>2
<1>3. CASE q # NoQueue
  <2>. DEFINE j == [pc |-> pc, taken |-> q]
              stale == [q EXCEPT !.fresh = FALSE]
  <2>1. job' = [job EXCEPT ![t] = j] /\ queue' = [queue EXCEPT ![t] = stale]
    BY <1>3 DEF Take
  <2>2. j \in JobType /\ j.pc = pc /\ j.taken = q
    BY DEF JobType
  <2>3. stale \in QueueType /\ stale.state = q.state
    BY <1>3 DEF QueueType
  <2>. HIDE DEF j, stale
  <2>4. stale # NoQueue
    BY <2>3, SomeIsNotNone
  <2>. QED BY <1>1, <1>3, <2>1, <2>2, <2>3, <2>4
<1>. QED BY <1>2, <1>3

\* What is queued on confirmed contents is confirmed.
LEMMA QueuedConfirmed ==
  ASSUME NEW q \in QueueType \cup {NoQueue}, NEW a, NEW mem \in ContentType,
         NEW seen \in SeenType, Within(seen.nodes, committed')
  PROVE  /\ Queued(q, a, mem, seen) \in QueueType
         /\ Queued(q, a, mem, seen) # NoQueue
         /\ Within(Queued(q, a, mem, seen).state, committed')
BY QueuedTyped, SomeIsNotNone DEF Within

\* What a document looks like to a page that sees it.
LEMMA SeenTyped ==
  ASSUME NEW d \in DocType
  PROVE  AsSeen(d) \in SeenType /\ AsSeen(d).nodes = d.nodes
BY DEF AsSeen, DocType, SeenType

-----------------------------------------------------------------------------
(* The user and the ordinary save. *)

\* Edit: the user changes no stamp, and drops them with the node.
LEMMA EditStep ==
  ASSUME IInv, NEW t \in Tabs, NEW n \in Nodes, Edit(t, n)
  PROVE  IInv'
<1>1. PICK new \in {[memory[t][n] EXCEPT !.here = TRUE, !.text = edits + 1], Absent} :
        memory' = [memory EXCEPT ![t][n] = new]
  BY DEF Edit
<1>2. /\ queue' = [queue EXCEPT ![t] = Queued(queue[t], attempt[t], memory'[t], observed[t])]
      /\ edits' = edits + 1
      /\ UNCHANGED <<doc, observed, attempt, job, committed>>
  BY DEF Edit, IInv, Types
<1>3. Types /\ TabOK(t) /\ memory[t] \in ContentType /\ memory[t][n] \in NodeType
  BY DEF IInv, Types, ContentType
<1>4. new \in NodeType /\ new.keys \subseteq memory[t][n].keys
      /\ (new.keys = memory[t][n].keys \/ new.keys = {})
  <2>1. edits + 1 \in Nat
    BY <1>3 DEF Types
  <2>. QED BY <1>3, <2>1, AbsentNode DEF NodeType
<1>5. /\ memory' \in [Tabs -> ContentType] /\ memory'[t] \in ContentType
      /\ memory'[t][n] = new /\ \A m \in Nodes \ {n} : memory'[t][m] = memory[t][m]
      /\ \A u \in Tabs \ {t} : memory'[u] = memory[u]
  BY <1>1, <1>3, <1>4 DEF Types, ContentType
<1>6. /\ observed[t] \in SeenType /\ queue[t] \in QueueType \cup {NoQueue}
      /\ Within(observed[t].nodes, committed') /\ Within(observed'[t].nodes, committed')
  BY <1>2, <1>3 DEF Types, TabOK, Within
<1>. DEFINE q == Queued(queue[t], attempt[t], memory'[t], observed[t])
<1>7. q \in QueueType /\ q # NoQueue /\ Within(q.state, committed')
  BY <1>5, <1>6, QueuedConfirmed
<1>. HIDE DEF q
<1>8. queue' = [queue EXCEPT ![t] = q]
  BY <1>2 DEF q
<1>9. Types'
  BY <1>2, <1>3, <1>5, <1>7, <1>8 DEF Types
<1>10. TabOK(t)'
  <2>1. (\A m \in Nodes : Shown(t, m))'
    BY <1>2, <1>3, <1>4, <1>5 DEF TabOK, Shown
  <2>2. queue'[t] = q
    BY <1>3, <1>8 DEF Types
  <2>3. (attempt[t] # NoAttempt => Sound(attempt[t]))'
    BY <1>2, <1>3 DEF TabOK, Sound, Within
  <2>4. JobOK(t)'
    BY <1>2, <1>3, <1>7, <2>2 DEF TabOK, JobOK, Within
  <2>. QED BY <1>2, <1>6, <1>7, <2>1, <2>2, <2>3, <2>4 DEF TabOK
<1>11. Within(doc'.nodes, committed')
  BY <1>2 DEF IInv, Within
<1>12. \A u \in Tabs \ {t} : queue'[u] = queue[u]
  BY <1>3, <1>8 DEF Types
<1>. QED BY <1>2, <1>5, <1>9, <1>10, <1>11, <1>12, PageStep

\* SaveStart and GenStart take what is queued, and change nothing else.
LEMMA StartStep ==
  ASSUME IInv, NEW t \in Tabs, SaveStart(t) \/ GenStart(t)
  PROVE  IInv'
<1>1. /\ UNCHANGED <<doc, memory, observed, attempt, edits, committed>>
      /\ \/ Take(t, queue[t], "save", "none") /\ SaveStart(t)
         \/ Take(t, queue[t], "drain", "merge") /\ attempt[t] # NoAttempt
  BY DEF SaveStart, GenStart, counts
<1>2. Types /\ TabOK(t)
  BY DEF IInv
<1>3. /\ queue[t] \in QueueType \cup {NoQueue}
      /\ queue[t] # NoQueue => Within(queue[t].state, committed')
  BY <1>1, <1>2 DEF Types, TabOK, Within
<1>4. /\ queue' \in [Tabs -> QueueType \cup {NoQueue}] /\ job' \in [Tabs -> JobType]
      /\ \A u \in Tabs \ {t} : queue'[u] = queue[u] /\ job'[u] = job[u]
      /\ job'[t].pc \in {"save", "none", "drain", "merge"}
      /\ job'[t].pc \in {"drain", "merge"} => attempt[t] # NoAttempt
      /\ queue'[t] # NoQueue => Within(queue'[t].state, committed')
      /\ job'[t].pc \in {"save", "drain"} =>
           /\ queue'[t] # NoQueue /\ job'[t].taken # NoQueue
           /\ Within(job'[t].taken.state, committed')
  <2>1. CASE Take(t, queue[t], "save", "none")
    BY <1>3, <2>1, Taken
  <2>2. CASE Take(t, queue[t], "drain", "merge") /\ attempt[t] # NoAttempt
    BY <1>3, <2>2, Taken
  <2>. QED BY <1>1, <2>1, <2>2
<1>5. Types'
  BY <1>1, <1>2, <1>4 DEF Types
<1>6. TabOK(t)'
  <2>1. (\A m \in Nodes : Shown(t, m))'
    BY <1>1, <1>2 DEF TabOK, Shown
  <2>2. Within(observed'[t].nodes, committed') /\ (attempt[t] # NoAttempt => Sound(attempt[t]))'
    BY <1>1, <1>2 DEF TabOK, Sound, Within
  <2>3. JobOK(t)'
    BY <1>1, <1>4 DEF JobOK
  <2>. QED BY <1>4, <2>1, <2>2, <2>3 DEF TabOK
<1>7. Within(doc'.nodes, committed')
  BY <1>1 DEF IInv, Within
<1>. QED BY <1>1, <1>4, <1>5, <1>6, <1>7, PageStep

\* SaveWrite stores what was taken, which is confirmed, and takes the save
\* that was queued meanwhile.
LEMMA SaveWriteStep ==
  ASSUME IInv, NEW t \in Tabs, SaveWrite(t)
  PROVE  IInv'
<1>. DEFINE taken == job[t].taken
            pc == job[t].pc
            next == Retaken(queue[t], taken.state, doc'.rev)
            q == IF queue[t].fresh THEN next ELSE NoQueue
<1>1. /\ pc \in {"save", "drain", "rest"}
      /\ doc' = Rebase(doc, taken.base, taken.state, taken.baseRev)
      /\ observed' = [observed EXCEPT ![t] = AsSeen(doc')]
      /\ Take(t, q, pc, AfterSave(pc))
      /\ UNCHANGED <<memory, attempt, edits, committed>>
  BY DEF SaveWrite, counts
<1>2. Types /\ TabOK(t) /\ Within(doc.nodes, committed)
  BY DEF IInv
<1>3. /\ taken \in QueueType /\ queue[t] \in QueueType
      /\ taken.base \in ContentType /\ taken.state \in ContentType /\ taken.baseRev \in Nat
      /\ Within(taken.state, committed) /\ Within(queue[t].state, committed)
  BY <1>1, <1>2 DEF Types, TabOK, JobOK, JobType, QueueType
<1>4. doc' \in DocType /\ doc'.nodes \in ContentType /\ doc'.rev \in Nat
      /\ Within(doc'.nodes, committed')
  <2>1. /\ doc' \in DocType
        /\ \A n \in Nodes : doc'.nodes[n].keys \subseteq taken.state[n].keys \cup doc.nodes[n].keys
    BY <1>1, <1>2, <1>3, RebaseTyped DEF Types
  <2>2. doc'.nodes \in ContentType /\ doc'.rev \in Nat
    BY <2>1 DEF DocType
  <2>3. committed' = committed
    BY <1>1
  <2>4. Within(doc'.nodes, committed')
    BY <1>2, <1>3, <2>1, <2>3 DEF Within
  <2>. QED BY <2>1, <2>2, <2>4
<1>5. next \in QueueType /\ next.state = queue[t].state
  BY <1>3, <1>4 DEF Retaken, QueueType
<1>6. Within(next.state, committed')
  BY <1>1, <1>3, <1>5 DEF Within
<1>7. /\ AfterSave(pc) \in {"none", "merge", "publish"}
      /\ AfterSave(pc) = "merge" => pc = "drain"
      /\ AfterSave(pc) = "publish" => pc = "rest"
  BY <1>1 DEF AfterSave
<1>. HIDE DEF next
<1>8. q \in QueueType \cup {NoQueue} /\ (q # NoQueue => Within(q.state, committed'))
  BY <1>5, <1>6
<1>. HIDE DEF q, taken, pc
<1>9. /\ queue' \in [Tabs -> QueueType \cup {NoQueue}] /\ job' \in [Tabs -> JobType]
      /\ \A u \in Tabs \ {t} : queue'[u] = queue[u] /\ job'[u] = job[u]
      /\ job'[t].pc \in {pc, AfterSave(pc)}
      /\ queue'[t] # NoQueue => Within(queue'[t].state, committed')
      /\ job'[t].pc = pc =>
           /\ queue'[t] # NoQueue /\ job'[t].taken # NoQueue
           /\ Within(job'[t].taken.state, committed')
  BY <1>1, <1>7, <1>8, Taken
<1>10. AsSeen(doc') \in SeenType /\ AsSeen(doc').nodes = doc'.nodes
  BY <1>4, SeenTyped
<1>11. Types'
  BY <1>1, <1>2, <1>4, <1>9, <1>10 DEF Types
<1>12. observed'[t] = AsSeen(doc') /\ \A u \in Tabs \ {t} : observed'[u] = observed[u]
  BY <1>1, <1>2 DEF Types
<1>13. TabOK(t)'
  <2>1. (\A m \in Nodes : Shown(t, m))'
    BY <1>1, <1>2 DEF TabOK, Shown
  <2>2. Within(observed'[t].nodes, committed')
    BY <1>4, <1>10, <1>12 DEF Within
  <2>3. (attempt[t] # NoAttempt => Sound(attempt[t]))'
    BY <1>1, <1>2 DEF TabOK, Sound, Within
  <2>4. JobOK(t)
    BY <1>2 DEF TabOK
  <2>5. JobOK(t)'
    BY <1>1, <1>7, <1>9, <2>4 DEF JobOK, pc
  <2>. QED BY <1>9, <2>1, <2>2, <2>3, <2>5 DEF TabOK
<1>. QED BY <1>1, <1>4, <1>9, <1>11, <1>12, <1>13, PageStep

-----------------------------------------------------------------------------
(* The commit of a generation. *)

\* Begin: the attempt starts on what the page shows, which is confirmed, and
\* only its own effect may be shown before it is stored.
LEMMA BeginStep ==
  ASSUME IInv, NEW t \in Tabs, NEW e \in Effects, Begin(t, e)
  PROVE  IInv'
<1>1. PICK first \in ShownFirst :
        LET local == [memory[t] EXCEPT ![Target].text = e, ![Target].keys = @ \cup {e}]
            start == IF first THEN local ELSE memory[t]
            a     == [effect |-> e, first |-> first, base |-> memory[t], local |-> local,
                      start |-> start, rev |-> observed[t].rev]
        IN  /\ attempt' = [attempt EXCEPT ![t] = a]
            /\ memory' = [memory EXCEPT ![t] = start]
            /\ queue' = IF first \/ queue[t] # NoQueue
                        THEN [queue EXCEPT ![t] = [Queued(@, a, start, observed[t]) EXCEPT
                                                     !.fresh = first \/ queue[t].fresh]]
                        ELSE queue
  BY DEF Begin
<1>. DEFINE local == [memory[t] EXCEPT ![Target].text = e, ![Target].keys = @ \cup {e}]
            start == IF first THEN local ELSE memory[t]
            a     == [effect |-> e, first |-> first, base |-> memory[t], local |-> local,
                      start |-> start, rev |-> observed[t].rev]
            ordinary == Queued(queue[t], a, start, observed[t])
            q == [ordinary EXCEPT !.fresh = first \/ queue[t].fresh]
<1>2. /\ attempt[t] = NoAttempt /\ memory[t][Target].here
      /\ UNCHANGED <<doc, observed, job, edits, committed>>
  BY DEF Begin
<1>3. Types /\ TabOK(t) /\ Target \in Nodes /\ first \in BOOLEAN
  BY NodesAssumption DEF IInv
<1>4. /\ memory[t] \in ContentType /\ memory[t][Target] \in NodeType
      /\ observed[t] \in SeenType /\ observed[t].rev \in Nat
      /\ queue[t] \in QueueType \cup {NoQueue}
      /\ Within(memory[t], committed)
  BY <1>2, <1>3 DEF Types, ContentType, SeenType, TabOK, Shown, Within
<1>5. /\ local \in ContentType /\ local[Target].here
      /\ local[Target].keys = memory[t][Target].keys \cup {e}
      /\ \A n \in Nodes \ {Target} : local[n] = memory[t][n]
  <2>. DEFINE v == [memory[t][Target] EXCEPT !.text = e,
                                             !.keys = memory[t][Target].keys \cup {e}]
  <2>1. v \in NodeType /\ v.here /\ v.keys = memory[t][Target].keys \cup {e}
    BY <1>2, <1>4 DEF NodeType
  <2>2. local = [memory[t] EXCEPT ![Target] = v]
    BY <1>3, <1>4 DEF ContentType, NodeType
  <2>. HIDE DEF v
  <2>. QED BY <1>3, <1>4, <2>1, <2>2 DEF ContentType
<1>. HIDE DEF local
<1>6. start \in ContentType /\ start \in {local, memory[t]} /\ (~ first => start = memory[t])
      /\ (first => start = local)
  BY <1>4, <1>5
<1>. HIDE DEF start
<1>7. /\ a \in AttemptType /\ a.effect = e /\ a.first = first /\ a.base = memory[t]
      /\ a.local = local
  BY <1>3, <1>4, <1>5, <1>6 DEF AttemptType
<1>8. a # NoAttempt
  BY <1>7, SomeIsNotNone
<1>9. Within(observed[t].nodes, committed')
  BY <1>2, <1>3 DEF TabOK
<1>. HIDE DEF a
<1>10. /\ ordinary \in QueueType /\ Within(ordinary.state, committed')
  BY <1>4, <1>6, <1>9, QueuedConfirmed
<1>. HIDE DEF ordinary
<1>11. first \/ queue[t] # NoQueue =>
         /\ q \in QueueType /\ q.state = ordinary.state
  <2>1. first \/ queue[t] # NoQueue => (first \/ queue[t].fresh) \in BOOLEAN
    BY <1>3, <1>4 DEF QueueType
  <2>. QED BY <1>10, <2>1 DEF QueueType
<1>12. /\ attempt' = [attempt EXCEPT ![t] = a]
       /\ memory' = [memory EXCEPT ![t] = start]
       /\ queue' = IF first \/ queue[t] # NoQueue THEN [queue EXCEPT ![t] = q] ELSE queue
  BY <1>1, <1>3 DEF local, start, a, ordinary, Types
<1>. HIDE DEF q
<1>13. /\ queue' \in [Tabs -> QueueType \cup {NoQueue}]
       /\ \A u \in Tabs \ {t} : queue'[u] = queue[u]
       /\ queue'[t] # NoQueue => Within(queue'[t].state, committed')
       /\ queue[t] # NoQueue => queue'[t] # NoQueue
  <2>1. CASE first \/ queue[t] # NoQueue
    <3>1. q # NoQueue
      BY <1>11, <2>1, SomeIsNotNone
    <3>. QED BY <1>3, <1>10, <1>11, <1>12, <2>1, <3>1 DEF Types
  <2>2. CASE ~ first /\ queue[t] = NoQueue
    BY <1>3, <1>12, <2>2 DEF Types
  <2>. QED BY <2>1, <2>2
<1>14. /\ attempt' \in [Tabs -> AttemptType \cup {NoAttempt}] /\ attempt'[t] = a
       /\ memory' \in [Tabs -> ContentType] /\ memory'[t] = start
       /\ \A u \in Tabs \ {t} : memory'[u] = memory[u] /\ attempt'[u] = attempt[u]
  BY <1>3, <1>6, <1>7, <1>12 DEF Types
<1>15. Types'
  BY <1>2, <1>3, <1>13, <1>14 DEF Types
<1>16. TabOK(t)'
  <2>1. ASSUME NEW n \in Nodes PROVE Shown(t, n)'
    <3>1. CASE n = Target /\ first
      BY <1>6, <1>7, <1>8, <1>14, <3>1 DEF Shown
    <3>2. CASE n # Target \/ ~ first
      <4>1. start[n] = memory[t][n]
        BY <1>5, <1>6, <3>2
      <4>. QED BY <1>2, <1>4, <1>14, <4>1 DEF Shown, Within
    <3>. QED BY <3>1, <3>2
  <2>2. Within(observed'[t].nodes, committed')
    BY <1>2, <1>9
  <2>3. Sound(attempt[t])'
    <3>1. \A n \in Nodes : local[n].keys \subseteq committed \cup {e}
      BY <1>4, <1>5 DEF Within
    <3>. QED BY <1>2, <1>4, <1>5, <1>7, <1>14, <3>1 DEF Sound, Within
  <2>4. JobOK(t)'
    BY <1>2, <1>3, <1>8, <1>13, <1>14 DEF TabOK, JobOK
  <2>. QED BY <1>13, <2>1, <2>2, <2>3, <2>4 DEF TabOK
<1>17. Within(doc'.nodes, committed')
  BY <1>2 DEF IInv
<1>. QED BY <1>2, <1>13, <1>14, <1>15, <1>16, <1>17, PageStep

\* GenWrite stores the stamp of its effect, and that effect is committed.
LEMMA GenWriteStep ==
  ASSUME IInv, NEW t \in Tabs, GenWrite(t)
  PROVE  IInv'
<1>. DEFINE a == attempt[t]
            q == RebasedQueue(queue[t], a, memory[t], doc')
<1>1. /\ job[t].pc = "merge"
      /\ doc' = Rebase(doc, a.base, a.local, a.rev)
      /\ committed' = committed \cup {a.effect}
      /\ observed' = [observed EXCEPT ![t] = AsSeen(doc')]
      /\ Take(t, q, "rest", "publish")
      /\ UNCHANGED <<memory, attempt, edits>>
  BY DEF GenWrite, counts
<1>2. Types /\ TabOK(t) /\ Within(doc.nodes, committed) /\ memory[t] \in ContentType
      /\ queue[t] \in QueueType \cup {NoQueue}
  BY DEF IInv, Types
<1>3. a \in AttemptType /\ a # NoAttempt /\ Sound(a)
  BY <1>1, <1>2 DEF Types, TabOK, JobOK
<1>4. /\ a.base \in ContentType /\ a.local \in ContentType /\ a.rev \in Nat
      /\ a.effect \in Effects
  BY <1>3 DEF AttemptType
<1>. HIDE DEF a
<1>5. doc' \in DocType /\ Within(doc'.nodes, committed')
  <2>1. /\ doc' \in DocType
        /\ \A n \in Nodes : doc'.nodes[n].keys \subseteq a.local[n].keys \cup doc.nodes[n].keys
    BY <1>1, <1>2, <1>4, RebaseTyped DEF Types
  <2>. QED BY <1>1, <1>2, <1>3, <2>1 DEF Within, Sound
<1>6. doc'.nodes \in ContentType /\ doc'.rev \in Nat
  BY <1>5 DEF DocType
<1>7. q \in QueueType \cup {NoQueue} /\ (q # NoQueue => Within(q.state, committed'))
  <2>1. CASE queue[t] = NoQueue
    BY <2>1 DEF RebasedQueue
  <2>2. CASE queue[t] # NoQueue
    <3>. DEFINE ordinary == Ordinary(a, memory[t], doc'.nodes)
    <3>1. q = [base |-> doc'.nodes, baseRev |-> doc'.rev, state |-> ordinary, fresh |-> TRUE]
      BY <2>2 DEF RebasedQueue
    <3>2. /\ ordinary \in ContentType
          /\ \A n \in Nodes : ordinary[n].keys \subseteq doc'.nodes[n].keys
      BY <1>2, <1>6, OrdinaryTyped
    <3>. HIDE DEF ordinary, q
    <3>3. q \in QueueType /\ q.state = ordinary
      BY <1>6, <3>1, <3>2 DEF QueueType
    <3>4. Within(ordinary, committed')
      BY <1>5, <3>2 DEF Within
    <3>. QED BY <3>3, <3>4
  <2>. QED BY <2>1, <2>2
<1>. HIDE DEF q
<1>8. IInv
  OBVIOUS
<1>9. /\ queue' \in [Tabs -> QueueType \cup {NoQueue}] /\ job' \in [Tabs -> JobType]
      /\ \A u \in Tabs \ {t} : queue'[u] = queue[u] /\ job'[u] = job[u]
      /\ job'[t].pc \in {"rest", "publish"}
      /\ queue'[t] # NoQueue => Within(queue'[t].state, committed')
      /\ job'[t].pc = "rest" =>
           /\ queue'[t] # NoQueue /\ job'[t].taken # NoQueue
           /\ Within(job'[t].taken.state, committed')
  BY <1>1, <1>7, <1>8, Taken
<1>10. AsSeen(doc') \in SeenType /\ AsSeen(doc').nodes = doc'.nodes
  BY <1>5, SeenTyped
<1>11. Types'
  BY <1>1, <1>2, <1>4, <1>5, <1>9, <1>10 DEF Types
<1>12. observed'[t] = AsSeen(doc') /\ \A u \in Tabs \ {t} : observed'[u] = observed[u]
  BY <1>1, <1>2 DEF Types
<1>13. TabOK(t)'
  <2>1. (\A m \in Nodes : Shown(t, m))'
    BY <1>1, <1>2 DEF TabOK, Shown
  <2>2. Within(observed'[t].nodes, committed')
    BY <1>5, <1>10, <1>12
  <2>3. attempt'[t] = a /\ a.effect \in committed'
    BY <1>1 DEF a
  <2>4. Sound(attempt[t])'
    BY <1>1, <1>3, <2>3 DEF Sound, Within
  <2>5. JobOK(t)'
    BY <1>3, <1>9, <2>3 DEF JobOK
  <2>. QED BY <1>9, <2>1, <2>2, <2>4, <2>5 DEF TabOK
<1>14. committed \subseteq committed'
  BY <1>1
<1>. QED BY <1>1, <1>5, <1>9, <1>11, <1>12, <1>13, <1>14, PageStep

\* A job that ends without its result, or publishes it: the page shows only
\* confirmed contents, and runs no commit.
LEMMA RestingPage ==
  ASSUME IInv, NEW t \in Tabs, NEW mem \in ContentType, NEW seen \in SeenType,
         NEW q \in QueueType \cup {NoQueue},
         Within(mem, committed), Within(seen.nodes, committed),
         q # NoQueue => Within(q.state, committed),
         memory' = [memory EXCEPT ![t] = mem],
         observed' = [observed EXCEPT ![t] = seen],
         queue' = [queue EXCEPT ![t] = q],
         attempt' = [attempt EXCEPT ![t] = NoAttempt],
         job' = [job EXCEPT ![t] = NoJob],
         doc' = doc, edits' = edits, committed' = committed
  PROVE  IInv'
<1>1. Types /\ Within(doc.nodes, committed)
  BY DEF IInv
<1>2. NoJob \in JobType /\ NoJob.pc = "none"
  BY DEF NoJob, JobType
<1>3. /\ memory'[t] = mem /\ observed'[t] = seen /\ queue'[t] = q
      /\ attempt'[t] = NoAttempt /\ job'[t] = NoJob
      /\ \A u \in Tabs \ {t} :
            /\ memory'[u] = memory[u] /\ observed'[u] = observed[u]
            /\ queue'[u] = queue[u] /\ attempt'[u] = attempt[u] /\ job'[u] = job[u]
  BY <1>1 DEF Types
<1>4. Types'
  BY <1>1, <1>2 DEF Types
<1>5. TabOK(t)'
  BY <1>2, <1>3 DEF TabOK, Shown, Within, JobOK
<1>. QED BY <1>1, <1>3, <1>4, <1>5, PageStep

\* A refused result leaves the page with confirmed contents.
LEMMA RefusedTyped ==
  ASSUME IInv, NEW t \in Tabs, attempt[t] # NoAttempt, NEW mem \in ContentType,
         \A n \in Nodes : \/ mem[n].keys \subseteq committed
                          \/ n = Target /\ attempt[t].first
  PROVE  Refused(attempt[t], mem) \in ContentType /\ Within(Refused(attempt[t], mem), committed)
<1>. DEFINE a == attempt[t]
<1>1. a \in AttemptType /\ Sound(a) /\ Target \in Nodes
  BY NodesAssumption DEF IInv, Types, TabOK
<1>. HIDE DEF a
<1>2. /\ a.base \in ContentType /\ a.base[Target] \in NodeType /\ a.effect \in Effects
      /\ a.first \in BOOLEAN /\ mem[Target] \in NodeType
      /\ a.base[Target].keys \subseteq committed
  BY <1>1 DEF AttemptType, ContentType, Sound, Within
<1>. DEFINE back == [mem EXCEPT ![Target] = a.base[Target]]
            v == [mem[Target] EXCEPT !.text = a.effect]
            bare == [mem EXCEPT ![Target] = v]
<1>3. back \in ContentType /\ (a.first => Within(back, committed))
  BY <1>1, <1>2 DEF ContentType, Within, a
<1>4. v \in NodeType /\ v.keys = mem[Target].keys
  BY <1>2 DEF NodeType
<1>. HIDE DEF v
<1>5. bare \in ContentType /\ (~ a.first => Within(bare, committed))
  BY <1>1, <1>4 DEF ContentType, Within, a
<1>6. ~ a.first => Within(mem, committed)
  BY DEF Within, a
<1>. HIDE DEF back, bare
<1>7. Refused(a, mem) = CASE a.first                        -> back
                          [] ~ a.first /\ mem[Target].here  -> bare
                          [] OTHER                          -> mem
  BY <1>1, <1>2 DEF Refused, back, bare, v
<1>8. CASE a.first
  BY <1>3, <1>7, <1>8 DEF a
<1>9. CASE ~ a.first /\ mem[Target].here
  BY <1>5, <1>7, <1>9 DEF a
<1>10. CASE ~ a.first /\ ~ mem[Target].here
  BY <1>6, <1>7, <1>10 DEF a
<1>. QED BY <1>8, <1>9, <1>10

\* Refuse, with confirmed contents but for the result that is taken back.
LEMMA RefuseStep ==
  ASSUME IInv, NEW t \in Tabs, attempt[t] # NoAttempt, NEW mem \in ContentType,
         NEW seen \in SeenType, Refuse(t, mem, seen), Within(seen.nodes, committed),
         \A n \in Nodes : \/ mem[n].keys \subseteq committed
                          \/ n = Target /\ attempt[t].first,
         doc' = doc, edits' = edits, committed' = committed
  PROVE  IInv'
<1>. DEFINE m == Refused(attempt[t], mem)
            q == Queued(queue[t], NoAttempt, m, seen)
<1>1. m \in ContentType /\ Within(m, committed)
  BY RefusedTyped
<1>2. memory' = [memory EXCEPT ![t] = m] /\ memory \in [Tabs -> ContentType]
      /\ queue \in [Tabs -> QueueType \cup {NoQueue}]
  BY DEF Refuse, IInv, Types
<1>3. memory'[t] = m
  BY <1>2
<1>4. queue' = [queue EXCEPT ![t] = q]
  BY <1>2, <1>3 DEF Refuse
<1>5. /\ observed' = [observed EXCEPT ![t] = seen]
      /\ attempt' = [attempt EXCEPT ![t] = NoAttempt] /\ job' = [job EXCEPT ![t] = NoJob]
  BY DEF Refuse, EndJob
<1>. HIDE DEF m
<1>6. q \in QueueType /\ Within(q.state, committed)
  BY <1>1, <1>2, QueuedTyped DEF Within
<1>. HIDE DEF q
<1>. QED BY <1>1, <1>2, <1>4, <1>5, <1>6, RestingPage

\* GenConflict: nothing is written, and the page takes what is stored.
LEMMA GenConflictStep ==
  ASSUME IInv, NEW t \in Tabs, GenConflict(t)
  PROVE  IInv'
<1>. DEFINE a == attempt[t]
            mem == Rebase(doc, a.local, memory[t], doc.rev).nodes
<1>1. /\ job[t].pc = "merge" /\ Refuse(t, mem, AsSeen(doc))
      /\ UNCHANGED <<doc, edits, committed>>
  BY DEF GenConflict, counts
<1>2. Types /\ TabOK(t) /\ Within(doc.nodes, committed) /\ memory[t] \in ContentType
      /\ doc.rev \in Nat
  BY DEF IInv, Types, DocType
<1>3. a \in AttemptType /\ a # NoAttempt /\ a.local \in ContentType
  BY <1>1, <1>2 DEF Types, TabOK, JobOK, AttemptType
<1>4. /\ mem \in ContentType
      /\ \A n \in Nodes : mem[n].keys \subseteq memory[t][n].keys \cup doc.nodes[n].keys
  BY <1>2, <1>3, RebaseTyped DEF Types, DocType
<1>5. \A n \in Nodes : mem[n].keys \subseteq committed \/ (n = Target /\ attempt[t].first)
  BY <1>2, <1>4 DEF TabOK, Shown, Within
<1>6. AsSeen(doc) \in SeenType /\ Within(AsSeen(doc).nodes, committed)
  BY <1>2, SeenTyped DEF Types
<1>. HIDE DEF mem
<1>. QED BY <1>1, <1>3, <1>4, <1>5, <1>6, RefuseStep

\* GenFails: the page takes its result back.
LEMMA GenFailsStep ==
  ASSUME IInv, NEW t \in Tabs, GenFails(t)
  PROVE  IInv'
<1>. DEFINE mem == Ordinary(attempt[t], memory[t], doc.nodes)
<1>1. /\ job[t].pc = "merge" /\ Refuse(t, mem, AsSeen(doc))
      /\ UNCHANGED <<doc, edits, committed>>
  BY DEF GenFails
<1>2. Types /\ TabOK(t) /\ Within(doc.nodes, committed) /\ memory[t] \in ContentType
      /\ doc.nodes \in ContentType
  BY DEF IInv, Types, DocType
<1>3. attempt[t] # NoAttempt
  BY <1>1, <1>2 DEF TabOK, JobOK
<1>4. mem \in ContentType /\ \A n \in Nodes : mem[n].keys \subseteq doc.nodes[n].keys
  BY <1>2, OrdinaryTyped
<1>5. \A n \in Nodes : mem[n].keys \subseteq committed
  BY <1>2, <1>4 DEF Within
<1>6. AsSeen(doc) \in SeenType /\ Within(AsSeen(doc).nodes, committed)
  BY <1>2, SeenTyped DEF Types
<1>. HIDE DEF mem
<1>. QED BY <1>1, <1>3, <1>4, <1>5, <1>6, RefuseStep

\* Publish: the effect is committed, and so is all that the page shows.
LEMMA PublishStep ==
  ASSUME IInv, NEW t \in Tabs, Publish(t)
  PROVE  IInv'
<1>. DEFINE a == attempt[t]
            merged == Rebase([doc EXCEPT !.nodes = memory[t]], a.start, doc.nodes, a.rev).nodes
            mem == Published(a, merged)
            seen == AsSeen(doc)
            q == Queued(queue[t], NoAttempt, mem, seen)
<1>1. /\ job[t].pc = "publish"
      /\ observed' = [observed EXCEPT ![t] = seen]
      /\ memory' = [memory EXCEPT ![t] = mem]
      /\ queue' = [queue EXCEPT ![t] = Queued(@, NoAttempt, memory'[t], observed'[t])]
      /\ attempt' = [attempt EXCEPT ![t] = NoAttempt] /\ job' = [job EXCEPT ![t] = NoJob]
      /\ UNCHANGED <<doc, edits, committed>>
  BY DEF Publish, EndJob, counts
<1>2. /\ Types /\ TabOK(t) /\ Within(doc.nodes, committed) /\ memory[t] \in ContentType
      /\ doc.nodes \in ContentType /\ queue[t] \in QueueType \cup {NoQueue}
      /\ Target \in Nodes
  BY NodesAssumption DEF IInv, Types, DocType
<1>3. /\ a \in AttemptType /\ a.effect \in committed /\ Sound(a)
  BY <1>1, <1>2 DEF Types, TabOK, JobOK
<1>4. a.start \in ContentType /\ a.rev \in Nat /\ a.effect \in Effects
  BY <1>3 DEF AttemptType
<1>5. Within(memory[t], committed)
  BY <1>2, <1>3 DEF TabOK, Shown, Sound, Within
<1>6. /\ [doc EXCEPT !.nodes = memory[t]] \in DocType
      /\ [doc EXCEPT !.nodes = memory[t]].nodes = memory[t]
  BY <1>2 DEF Types, DocType
<1>7. /\ merged \in ContentType
      /\ \A n \in Nodes : merged[n].keys \subseteq doc.nodes[n].keys \cup memory[t][n].keys
  BY <1>2, <1>4, <1>6, RebaseTyped DEF DocType
<1>8. Within(merged, committed)
  BY <1>2, <1>5, <1>7 DEF Within
<1>. HIDE DEF merged
<1>9. mem \in ContentType /\ Within(mem, committed)
  <2>. DEFINE v == [merged[Target] EXCEPT !.text = a.effect]
              filled == [merged EXCEPT ![Target] = v]
  <2>1. v \in NodeType /\ v.keys = merged[Target].keys
    <3>1. merged[Target] \in NodeType /\ a.effect \in Effects
      BY <1>2, <1>4, <1>7 DEF ContentType
    <3>. HIDE DEF a
    <3>. QED BY <3>1 DEF NodeType
  <2>2. mem \in {merged, filled}
    BY <1>7 DEF Published
  <2>. HIDE DEF v, mem
  <2>3. filled \in ContentType /\ Within(filled, committed)
    BY <1>2, <1>7, <1>8, <2>1 DEF ContentType, Within
  <2>. QED BY <1>7, <1>8, <2>2, <2>3
<1>10. seen \in SeenType /\ seen.nodes = doc.nodes
  BY <1>2, SeenTyped DEF Types
<1>. HIDE DEF mem, seen
<1>11. queue' = [queue EXCEPT ![t] = q]
  BY <1>1, <1>2 DEF Types
<1>12. q \in QueueType /\ Within(q.state, committed)
  <2>1. committed' = committed /\ Within(seen.nodes, committed')
    BY <1>1, <1>2, <1>10
  <2>. QED BY <1>2, <1>9, <1>10, <2>1, QueuedConfirmed
<1>. HIDE DEF q
<1>. QED BY <1>1, <1>2, <1>9, <1>10, <1>11, <1>12, RestingPage

\* SaveFails: a save is dropped, a commit that is not written is refused, and
\* one that is written is published.
LEMMA SaveFailsStep ==
  ASSUME IInv, NEW t \in Tabs, SaveFails(t)
  PROVE  IInv'
<1>1. UNCHANGED <<doc, edits, committed>>
  BY DEF SaveFails
<1>2. /\ Types /\ TabOK(t) /\ Within(doc.nodes, committed) /\ memory[t] \in ContentType
      /\ observed[t] \in SeenType
  BY DEF IInv, Types
<1>3. CASE job[t].pc = "drain" /\ Refuse(t, memory[t], observed[t])
  <2>1. attempt[t] # NoAttempt /\ Within(observed[t].nodes, committed)
    BY <1>2, <1>3 DEF TabOK, JobOK
  <2>2. \A n \in Nodes : \/ memory[t][n].keys \subseteq committed
                         \/ n = Target /\ attempt[t].first
    BY <1>2 DEF TabOK, Shown
  <2>. QED BY <1>1, <1>2, <1>3, <2>1, <2>2, RefuseStep
<1>4. ASSUME NEW j \in JobType, j.pc \in {"none", "publish"}, job' = [job EXCEPT ![t] = j],
             j.pc = "publish" => job[t].pc = "rest",
             UNCHANGED <<memory, observed, queue, attempt>>
      PROVE  IInv'
  <2>1. job'[t] = j /\ \A u \in Tabs \ {t} : job'[u] = job[u]
    BY <1>2, <1>4 DEF Types
  <2>2. Types'
    BY <1>1, <1>2, <1>4 DEF Types
  <2>3. JobOK(t)'
    BY <1>1, <1>2, <1>4, <2>1 DEF TabOK, JobOK
  <2>4. TabOK(t)'
    BY <1>1, <1>2, <1>4, <2>3 DEF TabOK, Shown, Sound
  <2>. QED BY <1>1, <1>2, <1>4, <2>1, <2>2, <2>4, PageStep
<1>5. CASE job' = [job EXCEPT ![t] = NoJob] /\ UNCHANGED <<memory, observed, queue, attempt>>
  <2>1. NoJob \in JobType /\ NoJob.pc = "none"
    BY DEF NoJob, JobType
  <2>. QED BY <1>4, <1>5, <2>1
<1>6. CASE /\ job[t].pc = "rest" /\ UNCHANGED <<memory, observed, queue, attempt>>
           /\ job' = [job EXCEPT ![t] = [pc |-> "publish", taken |-> NoQueue]]
  <2>1. [pc |-> "publish", taken |-> NoQueue] \in JobType
    BY DEF JobType
  <2>. QED BY <1>4, <1>6, <2>1
<1>. QED BY <1>3, <1>5, <1>6 DEF SaveFails

\* Reopen: the page shows what is stored.
LEMMA ReopenStep ==
  ASSUME IInv, NEW t \in Tabs, Reopen(t)
  PROVE  IInv'
<1>1. /\ memory' = [memory EXCEPT ![t] = doc.nodes]
      /\ observed' = [observed EXCEPT ![t] = AsSeen(doc)]
      /\ queue' = [queue EXCEPT ![t] = NoQueue]
      /\ attempt' = [attempt EXCEPT ![t] = NoAttempt] /\ job' = [job EXCEPT ![t] = NoJob]
      /\ UNCHANGED <<doc, edits, committed>>
  BY DEF Reopen
<1>2. /\ doc \in DocType /\ Within(doc.nodes, committed) /\ doc.nodes \in ContentType
      /\ AsSeen(doc) \in SeenType /\ Within(AsSeen(doc).nodes, committed)
  BY SeenTyped DEF IInv, Types, DocType
<1>. QED BY <1>1, <1>2, RestingPage

\* Recover: a page without a commit writes the text of a delivered result.
LEMMA RecoverStep ==
  ASSUME IInv, NEW t \in Tabs, Recover(t)
  PROVE  IInv'
<1>1. attempt[t] = NoAttempt /\ UNCHANGED <<doc, observed, attempt, job, edits, committed>>
  BY DEF Recover, counts
<1>2. /\ Types /\ TabOK(t) /\ Within(doc.nodes, committed) /\ memory[t] \in ContentType
      /\ observed[t] \in SeenType /\ queue[t] \in QueueType \cup {NoQueue}
      /\ Target \in Nodes /\ memory[t][Target] \in NodeType
      /\ Within(memory[t], committed)
  BY <1>1, NodesAssumption DEF IInv, Types, ContentType, TabOK, Shown, Within
<1>3. CASE UNCHANGED <<memory, queue>>
  <2>1. Types' /\ TabOK(t)'
    BY <1>1, <1>2, <1>3 DEF Types, TabOK, Shown, Sound, JobOK
  <2>. QED BY <1>1, <1>2, <1>3, <2>1, PageStep
<1>4. ASSUME NEW e \in memory[t][Target].keys,
             memory' = [memory EXCEPT ![t][Target].text = e],
             queue' = [queue EXCEPT ![t] = Queued(@, NoAttempt, memory'[t], observed[t])]
      PROVE  IInv'
  <2>. DEFINE v == [memory[t][Target] EXCEPT !.text = e]
              mem == [memory[t] EXCEPT ![Target] = v]
              q == Queued(queue[t], NoAttempt, mem, observed[t])
  <2>1. v \in NodeType /\ v.keys = memory[t][Target].keys
    BY <1>2 DEF NodeType
  <2>2. memory' = [memory EXCEPT ![t] = mem]
    BY <1>2, <1>4
  <2>. HIDE DEF v
  <2>3. mem \in ContentType /\ Within(mem, committed)
    BY <1>2, <2>1 DEF ContentType, Within
  <2>. HIDE DEF mem
  <2>4. memory'[t] = mem /\ memory' \in [Tabs -> ContentType]
        /\ \A u \in Tabs \ {t} : memory'[u] = memory[u]
    BY <1>2, <2>2, <2>3 DEF Types
  <2>5. queue' = [queue EXCEPT ![t] = q]
    BY <1>2, <1>4, <2>4 DEF Types
  <2>6. q \in QueueType /\ q # NoQueue /\ Within(q.state, committed)
    <3>1. committed' = committed /\ Within(observed[t].nodes, committed')
      BY <1>1, <1>2 DEF TabOK
    <3>. QED BY <1>2, <2>3, <3>1, QueuedConfirmed
  <2>. HIDE DEF q
  <2>7. queue'[t] = q /\ queue' \in [Tabs -> QueueType \cup {NoQueue}]
        /\ \A u \in Tabs \ {t} : queue'[u] = queue[u]
    BY <1>2, <2>5, <2>6 DEF Types
  <2>8. Types'
    BY <1>1, <1>2, <2>4, <2>7 DEF Types
  <2>9. TabOK(t)'
    <3>1. (\A n \in Nodes : Shown(t, n))'
      BY <1>1, <2>3, <2>4 DEF Shown, Within
    <3>2. JobOK(t)'
      BY <1>1, <1>2, <2>6, <2>7 DEF TabOK, JobOK
    <3>. QED BY <1>1, <1>2, <2>6, <2>7, <3>1, <3>2 DEF TabOK
  <2>. QED BY <1>1, <1>2, <2>4, <2>7, <2>8, <2>9, PageStep
<1>. QED BY <1>3, <1>4 DEF Recover

-----------------------------------------------------------------------------
(* The theorems. *)

\* At first nothing is stamped.
LEMMA Initially == Init => IInv
<1>. SUFFICES ASSUME Init PROVE IInv
  OBVIOUS
<1>. DEFINE present == [Absent EXCEPT !.here = TRUE]
            nodes == [n \in Nodes |-> present]
<1>1. present \in NodeType /\ present.keys = {}
  BY DEF Absent, NodeType
<1>2. /\ doc = [rev |-> 0, nodes |-> nodes, tombs |-> [n \in Nodes |-> 0]]
      /\ committed = {} /\ edits = 0
      /\ memory = [t \in Tabs |-> doc.nodes]
      /\ observed = [t \in Tabs |-> [nodes |-> doc.nodes, rev |-> 0]]
      /\ queue = [t \in Tabs |-> NoQueue] /\ attempt = [t \in Tabs |-> NoAttempt]
      /\ job = [t \in Tabs |-> NoJob]
  BY DEF Init
<1>. HIDE DEF present
<1>3. nodes \in ContentType /\ \A n \in Nodes : nodes[n].keys = {}
  BY <1>1 DEF ContentType
<1>. HIDE DEF nodes
<1>4. doc \in DocType /\ doc.nodes = nodes
  BY <1>2, <1>3 DEF DocType
<1>5. NoJob \in JobType /\ NoJob.pc = "none"
  BY DEF NoJob, JobType
<1>6. \A t \in Tabs : /\ memory[t] = nodes /\ observed[t].nodes = nodes
                      /\ queue[t] = NoQueue /\ attempt[t] = NoAttempt /\ job[t] = NoJob
                      /\ observed[t] \in SeenType
  BY <1>2, <1>3, <1>4 DEF SeenType
<1>7. Types
  BY <1>2, <1>3, <1>4, <1>5, <1>6 DEF Types
<1>8. \A t \in Tabs : TabOK(t)
  BY <1>3, <1>5, <1>6 DEF TabOK, Shown, Within, JobOK
<1>. QED BY <1>3, <1>4, <1>7, <1>8 DEF IInv, Within

\* Every step keeps the invariant.
LEMMA EveryStep == IInv /\ [Next]_vars => IInv'
<1>. SUFFICES ASSUME IInv, [Next]_vars PROVE IInv'
  OBVIOUS
<1>1. CASE UNCHANGED vars
  <2>1. UNCHANGED <<doc, memory, observed, queue, attempt, job, edits, committed>>
    BY <1>1 DEF vars, counts
  <2>. QED BY <2>1 DEF IInv, Types, TabOK, Shown, Sound, JobOK
<1>2. ASSUME NEW t \in Tabs,
             \/ \E n \in Nodes : Edit(t, n)
             \/ SaveStart(t) \/ SaveWrite(t) \/ SaveFails(t)
             \/ \E e \in Effects : Begin(t, e)
             \/ GenStart(t) \/ GenWrite(t) \/ GenConflict(t) \/ GenFails(t)
             \/ Publish(t) \/ Reopen(t) \/ Recover(t)
      PROVE  IInv'
  BY <1>2, EditStep, StartStep, SaveWriteStep, SaveFailsStep, BeginStep, GenWriteStep,
     GenConflictStep, GenFailsStep, PublishStep, ReopenStep, RecoverStep
<1>. QED BY <1>1, <1>2 DEF Next

\* The invariant: what is queued, seen and stored carries only committed stamps,
\* and a page shows another one only while it runs the commit of it.
THEOREM Inductive == Spec => []IInv
BY Initially, EveryStep, PTL DEF Spec

\* A stamp is stored only by the commit of its effect, however many pages save,
\* fail, are closed and commit beside each other.
THEOREM Stamped == Spec => []StampsAreCommitted
<1>1. IInv => StampsAreCommitted
  BY DEF IInv, Within, StampsAreCommitted
<1>. QED BY <1>1, Inductive, PTL

-----------------------------------------------------------------------------
(***************************************************************************)
(* A page alone.  What it has seen is what is stored, so a save writes its *)
(* state as it is; and what it shows is what it has queued, or stored.     *)
(***************************************************************************)
OnePage == \A t, u \in Tabs : t = u

\* A result that is shown before it is stored is the first of its node: a page
\* puts back a node with an earlier stamp although the node was deleted.
NothingShownFirst == TRUE \notin ShownFirst
OneGeneration     == \A e, f \in Effects : e = f

Writing == {"save", "drain", "rest"}
Landed  == {"rest", "publish"}

\* A node that is not there has nothing.
Tidy(c) == \A n \in Nodes : ~ c[n].here => c[n] = Absent

StoreOK == Tidy(doc.nodes) /\ \A n \in Nodes : doc.tombs[n] <= doc.rev

\* A save on the base of this document.
On(q, d) == q.base = d.nodes /\ q.baseRev = d.rev /\ Tidy(q.state)

BaseOK(t) ==
  /\ observed[t] = AsSeen(doc)
  /\ queue[t] # NoQueue => On(queue[t], doc)
  /\ job[t].pc \in Writing => On(job[t].taken, doc)

\* What the page has written once nothing is left in its queue.
Latest(t) == IF queue[t] = NoQueue THEN doc.nodes ELSE queue[t].state

\* The node shows a result that is not stored yet.
Ahead(t, n) ==
  /\ n = Target /\ attempt[t] # NoAttempt /\ attempt[t].first
  /\ job[t].pc \notin Landed

NodeOK(t, n) ==
  /\ memory[t][n].keys \subseteq doc.nodes[n].keys
  /\ job[t].pc \in Writing => memory[t][n].keys \subseteq job[t].taken.state[n].keys
  /\ job[t].pc # "publish" \/ queue[t] # NoQueue => Agrees(memory[t][n], Latest(t)[n])
  /\ job[t].pc \in {"save", "drain"} /\ ~ queue[t].fresh =>
       /\ queue[t].state[n].here = job[t].taken.state[n].here
       /\ queue[t].state[n].text = job[t].taken.state[n].text

AttemptOK(a) ==
  /\ a.base[Target].here
  /\ a.local[Target].keys = a.base[Target].keys \cup {a.effect}
  /\ a.effect \notin a.base[Target].keys
  /\ \A n \in Nodes \ {Target} : a.local[n] = a.base[n]
  /\ a.first => OneGeneration /\ a.base[Target].keys = {}

PageOK(t) ==
  /\ BaseOK(t) /\ Tidy(memory[t])
  /\ \A n \in Nodes : Ahead(t, n) \/ NodeOK(t, n)
  /\ attempt[t] # NoAttempt => AttemptOK(attempt[t])

SInv == IInv /\ StoreOK /\ \A t \in Tabs : PageOK(t)

-----------------------------------------------------------------------------
(* The merge and the ordinary save of a page alone. *)

\* A save on what is stored writes the node as it is.
LEMMA SavedNode ==
  ASSUME NEW b \in NodeType, NEW l \in NodeType, NEW tomb \in Nat, NEW r \in Nat, tomb <= r,
         ~ b.here => b = Absent, ~ l.here => l = Absent
  PROVE  RebasedNode(b, l, b, tomb, r) = l
<1>1. CASE Deletes(b, l)
  BY <1>1 DEF RebasedNode, Deletes, Writes
<1>2. CASE ~ Deletes(b, l) /\ ~ Writes(b, l)
  BY <1>2 DEF RebasedNode, Deletes, Writes
<1>3. CASE Writes(b, l) /\ b.here
  <2>1. RebasedNode(b, l, b, tomb, r) = MergedNode(b, l, b)
    BY <1>3 DEF RebasedNode, Deletes, Writes
  <2>2. MergedNode(b, l, b) = [here |-> TRUE, text |-> l.text, keys |-> l.keys]
    BY <1>3 DEF MergedNode
  <2>3. l.here = TRUE /\ l = [here |-> l.here, text |-> l.text, keys |-> l.keys]
    BY <1>3 DEF NodeType, Writes
  <2>. QED BY <2>1, <2>2, <2>3
<1>4. CASE Writes(b, l) /\ ~ b.here
  <2>1. ~ MeetsDeletion(b, b, tomb, r)
    BY <1>4 DEF MeetsDeletion
  <2>. QED BY <1>4, <2>1 DEF RebasedNode, Deletes, Writes
<1>. QED BY <1>1, <1>2, <1>3, <1>4 DEF Deletes, Writes

\* A merge leaves nothing of a node that is not there, and no deletion is
\* newer than the document.
LEMMA RebaseTidy ==
  ASSUME NEW d \in DocType, NEW b \in ContentType, NEW l \in ContentType, NEW r \in Nat,
         Tidy(d.nodes)
  PROVE  /\ Tidy(Rebase(d, b, l, r).nodes)
         /\ (\A n \in Nodes : d.tombs[n] <= d.rev) =>
              \A n \in Nodes : Rebase(d, b, l, r).tombs[n] <= Rebase(d, b, l, r).rev
<1>1. ASSUME NEW n \in Nodes
      PROVE  RebasedNode(b[n], l[n], d.nodes[n], d.tombs[n], r).here
             \/ RebasedNode(b[n], l[n], d.nodes[n], d.tombs[n], r) = Absent
  <2>1. ~ d.nodes[n].here => d.nodes[n] = Absent
    BY DEF Tidy
  <2>2. CASE Deletes(b[n], l[n])
    BY <2>2 DEF RebasedNode, Deletes, Writes
  <2>3. CASE ~ Deletes(b[n], l[n]) /\ ~ Writes(b[n], l[n])
    BY <2>1, <2>3 DEF RebasedNode
  <2>4. CASE Writes(b[n], l[n]) /\ d.nodes[n].here
    <3>1. MergedNode(b[n], l[n], d.nodes[n]).here
      BY DEF MergedNode
    <3>. QED BY <2>4, <3>1 DEF RebasedNode, Deletes, Writes
  <2>5. CASE Writes(b[n], l[n]) /\ ~ d.nodes[n].here
    BY <2>5 DEF RebasedNode, Deletes, Writes
  <2>. QED BY <2>2, <2>3, <2>4, <2>5 DEF Deletes, Writes
<1>2. ASSUME NEW n \in Nodes, d.tombs[n] <= d.rev
      PROVE  RebasedTomb(b[n], l[n], d.nodes[n], d.tombs[n], r, d.rev + 1) <= d.rev + 1
  <2>1. d.tombs[n] \in Nat /\ d.rev \in Nat
    BY DEF DocType
  <2>2. RebasedTomb(b[n], l[n], d.nodes[n], d.tombs[n], r, d.rev + 1)
          \in {d.rev + 1, 0, d.tombs[n]}
    BY DEF RebasedTomb, Deletes, Writes
  <2>. QED BY <1>2, <2>1, <2>2
<1>. QED BY <1>1, <1>2 DEF Rebase, Tidy

\* A save on what is stored writes its state.
LEMMA SavedAsIs ==
  ASSUME NEW d \in DocType, NEW l \in ContentType, Tidy(d.nodes), Tidy(l),
         \A n \in Nodes : d.tombs[n] <= d.rev
  PROVE  Rebase(d, d.nodes, l, d.rev).nodes = l
<1>1. ASSUME NEW n \in Nodes
      PROVE  RebasedNode(d.nodes[n], l[n], d.nodes[n], d.tombs[n], d.rev) = l[n]
  <2>1. d.nodes[n] \in NodeType /\ l[n] \in NodeType /\ d.tombs[n] \in Nat /\ d.rev \in Nat
    BY DEF DocType, ContentType
  <2>. QED BY <2>1, SavedNode DEF Tidy
<1>2. Rebase(d, d.nodes, l, d.rev).nodes
        = [n \in Nodes |-> RebasedNode(d.nodes[n], l[n], d.nodes[n], d.tombs[n], d.rev)]
  BY DEF Rebase
<1>3. l = [n \in Nodes |-> l[n]]
  BY DEF ContentType
<1>. QED BY <1>1, <1>2, <1>3

\* An ordinary save carries a node with stored stamps as the page shows it.
LEMMA OrdinaryShows ==
  ASSUME NEW a, NEW mem \in ContentType, NEW d \in ContentType, Tidy(mem), Tidy(d)
  PROVE  /\ Tidy(Ordinary(a, mem, d))
         /\ \A n \in Nodes : mem[n].keys \subseteq d[n].keys => Agrees(mem[n], Ordinary(a, mem, d)[n])
<1>1. ASSUME NEW n \in Nodes
      PROVE  /\ ~ Ordinary(a, mem, d)[n].here => Ordinary(a, mem, d)[n] = Absent
             /\ mem[n].keys \subseteq d[n].keys => Agrees(mem[n], Ordinary(a, mem, d)[n])
  <2>. DEFINE unconfirmed == ~ (mem[n].keys \subseteq d[n].keys)
              back == [d[n] EXCEPT !.text = RolledBack(a, n, mem[n], d[n])]
              bare == [mem[n] EXCEPT !.keys = d[n].keys]
              own == Ordinary(a, mem, d)[n]
  <2>1. mem[n] \in NodeType /\ d[n] \in NodeType
    BY DEF ContentType
  <2>2. own = CASE ~ mem[n].here                     -> Absent
                [] mem[n].here /\ unconfirmed /\ ~ d[n].here -> Absent
                [] mem[n].here /\ unconfirmed /\ d[n].here   -> back
                [] OTHER                             -> bare
    BY DEF Ordinary
  <2>3. back.here = d[n].here
    BY <2>1 DEF NodeType
  <2>4. bare.here = mem[n].here /\ bare.text = mem[n].text /\ bare.keys = d[n].keys
    BY <2>1 DEF NodeType
  <2>. HIDE DEF back, bare, own
  <2>5. CASE ~ mem[n].here
    <3>1. own = Absent /\ mem[n] = Absent
      BY <2>2, <2>5 DEF Tidy
    <3>. QED BY <3>1 DEF own, Agrees
  <2>6. CASE mem[n].here /\ unconfirmed
    <3>1. own \in {Absent, back} /\ (own = back => d[n].here \/ back = Absent)
      BY <2>2, <2>6
    <3>. QED BY <2>3, <2>6, <3>1 DEF own
  <2>7. CASE mem[n].here /\ ~ unconfirmed
    <3>1. own = bare
      BY <2>2, <2>7
    <3>. QED BY <2>4, <2>7, <3>1 DEF own, Agrees
  <2>. QED BY <2>5, <2>6, <2>7
<1>. QED BY <1>1 DEF Tidy

\* What is queued is based on what is stored, and what the page shows.
LEMMA QueuedShows ==
  ASSUME NEW q \in QueueType \cup {NoQueue}, NEW a, NEW mem \in ContentType, NEW d \in DocType,
         q # NoQueue => On(q, d), Tidy(mem), Tidy(d.nodes)
  PROVE  /\ On(Queued(q, a, mem, AsSeen(d)), d)
         /\ Queued(q, a, mem, AsSeen(d)).fresh
         /\ \A n \in Nodes : mem[n].keys \subseteq d.nodes[n].keys =>
              Agrees(mem[n], Queued(q, a, mem, AsSeen(d)).state[n])
<1>1. d.nodes \in ContentType
  BY DEF DocType
<1>. QED BY <1>1, OrdinaryShows DEF Queued, AsSeen, On

\* A page that queues what it shows.
LEMMA Requeued ==
  ASSUME Types', StoreOK', NEW t \in Tabs, NEW a, NEW q \in QueueType \cup {NoQueue},
         q # NoQueue => On(q, doc'), Tidy(memory'[t]), observed'[t] = AsSeen(doc'),
         queue'[t] = Queued(q, a, memory'[t], AsSeen(doc')),
         job'[t].pc \in Writing => On(job'[t].taken, doc'),
         attempt'[t] # NoAttempt => AttemptOK(attempt'[t]),
         \A n \in Nodes :
           \/ Ahead(t, n)'
           \/ /\ memory'[t][n].keys \subseteq doc'.nodes[n].keys
              /\ job'[t].pc \in Writing => memory'[t][n].keys \subseteq job'[t].taken.state[n].keys
  PROVE  PageOK(t)'
<1>1. memory'[t] \in ContentType /\ doc' \in DocType
  BY DEF Types
<1>2. Tidy(doc'.nodes)
  BY DEF StoreOK
<1>3. /\ On(queue'[t], doc') /\ queue'[t].fresh
      /\ \A n \in Nodes : memory'[t][n].keys \subseteq doc'.nodes[n].keys =>
           Agrees(memory'[t][n], queue'[t].state[n])
  BY <1>1, <1>2, QueuedShows
<1>4. queue'[t] # NoQueue
  <2>1. AsSeen(doc') \in SeenType
    BY <1>1, SeenTyped
  <2>2. Queued(q, a, memory'[t], AsSeen(doc')) \in QueueType
    BY <1>1, <2>1, QueuedTyped
  <2>. QED BY <2>2, SomeIsNotNone
<1>5. ASSUME NEW n \in Nodes PROVE (Ahead(t, n) \/ NodeOK(t, n))'
  BY <1>3, <1>4 DEF NodeOK, Latest
<1>. QED BY <1>3, <1>5 DEF PageOK, BaseOK

\* One page is all pages.
LEMMA Alone ==
  ASSUME OnePage, IInv', StoreOK', NEW t \in Tabs, PageOK(t)'
  PROVE  SInv'
<1>1. ASSUME NEW u \in Tabs PROVE PageOK(u)'
  <2>1. u = t
    BY DEF OnePage
  <2>. QED BY <2>1
<1>. QED BY <1>1 DEF SInv

-----------------------------------------------------------------------------
(* The steps of a page alone. *)

LEMMA EditShows ==
  ASSUME SInv, OnePage, NEW t \in Tabs, NEW n \in Nodes, Edit(t, n)
  PROVE  SInv'
<1>1. IInv /\ Types /\ StoreOK /\ PageOK(t) /\ IInv'
  BY EditStep DEF SInv, IInv
<1>2. Types' /\ memory[t] \in ContentType /\ memory[t][n] \in NodeType
      /\ queue[t] \in QueueType \cup {NoQueue}
  BY <1>1 DEF IInv, Types, ContentType
<1>3. PICK new \in {[memory[t][n] EXCEPT !.here = TRUE, !.text = edits + 1], Absent} :
        memory' = [memory EXCEPT ![t][n] = new]
  BY DEF Edit
<1>4. /\ queue' = [queue EXCEPT ![t] = Queued(queue[t], attempt[t], memory'[t], observed[t])]
      /\ UNCHANGED <<doc, observed, attempt, job>>
  BY <1>1 DEF Edit, Types
<1>5. /\ memory'[t][n] = new /\ \A m \in Nodes \ {n} : memory'[t][m] = memory[t][m]
  BY <1>1, <1>2, <1>3 DEF Types, ContentType
<1>6. /\ new.keys = memory[t][n].keys \/ new.keys = {}
      /\ ~ new.here => new = Absent
  BY <1>2, AbsentNode DEF NodeType
<1>7. StoreOK'
  BY <1>1, <1>4 DEF StoreOK
<1>8. Tidy(memory'[t])
  BY <1>1, <1>5, <1>6 DEF PageOK, Tidy
<1>9. ASSUME NEW m \in Nodes
      PROVE  \/ Ahead(t, m)'
             \/ /\ memory'[t][m].keys \subseteq doc'.nodes[m].keys
                /\ job'[t].pc \in Writing =>
                     memory'[t][m].keys \subseteq job'[t].taken.state[m].keys
  <2>1. Ahead(t, m) \/ NodeOK(t, m)
    BY <1>1 DEF PageOK
  <2>2. memory'[t][m].keys = memory[t][m].keys \/ memory'[t][m].keys = {}
    BY <1>5, <1>6
  <2>3. CASE Ahead(t, m)
    BY <1>4, <2>3 DEF Ahead
  <2>4. CASE NodeOK(t, m)
    BY <1>4, <2>2, <2>4 DEF NodeOK
  <2>. QED BY <2>1, <2>3, <2>4
<1>10. /\ queue[t] # NoQueue => On(queue[t], doc')
       /\ observed'[t] = AsSeen(doc') /\ observed[t] = AsSeen(doc')
       /\ job'[t].pc \in Writing => On(job'[t].taken, doc')
       /\ attempt'[t] # NoAttempt => AttemptOK(attempt'[t])
  BY <1>1, <1>4 DEF PageOK, BaseOK
<1>11. queue'[t] = Queued(queue[t], attempt[t], memory'[t], AsSeen(doc'))
  BY <1>1, <1>4, <1>10 DEF Types
<1>12. PageOK(t)'
  BY <1>2, <1>7, <1>8, <1>9, <1>10, <1>11, Requeued
<1>. QED BY <1>1, <1>7, <1>12, Alone

LEMMA RecoverShows ==
  ASSUME SInv, OnePage, NEW t \in Tabs, Recover(t)
  PROVE  SInv'
<1>1. IInv /\ Types /\ StoreOK /\ PageOK(t) /\ IInv'
  BY RecoverStep DEF SInv, IInv
<1>2. Types' /\ memory[t] \in ContentType /\ queue[t] \in QueueType \cup {NoQueue}
  BY <1>1 DEF IInv, Types
<1>3. UNCHANGED <<doc, observed, attempt, job>> /\ attempt[t] = NoAttempt
  BY DEF Recover
<1>4. StoreOK'
  BY <1>1, <1>3 DEF StoreOK
<1>5. CASE UNCHANGED <<memory, queue>>
  <2>1. PageOK(t)'
    BY <1>1, <1>3, <1>5 DEF PageOK, BaseOK, NodeOK, Ahead, Latest
  <2>. QED BY <1>1, <1>4, <2>1, Alone
<1>6. CASE ~ UNCHANGED <<memory, queue>>
  <2>1. PICK e \in memory[t][Target].keys :
          /\ memory[t][Target].here
          /\ memory' = [memory EXCEPT ![t][Target].text = e]
          /\ queue' = [queue EXCEPT ![t] = Queued(queue[t], NoAttempt, memory'[t], observed[t])]
    BY <1>6 DEF Recover
  <2>2. memory[t][Target] \in NodeType
    BY <1>2, NodesAssumption DEF ContentType
  <2>. DEFINE new == [memory[t][Target] EXCEPT !.text = e]
  <2>3. /\ memory'[t][Target] = new
        /\ \A m \in Nodes \ {Target} : memory'[t][m] = memory[t][m]
    BY <1>1, <1>2, <2>1, NodesAssumption DEF Types, ContentType
  <2>4. new.keys = memory[t][Target].keys /\ new.here
    BY <2>1, <2>2 DEF NodeType
  <2>. HIDE DEF new
  <2>5. Tidy(memory'[t])
    BY <1>1, <2>3, <2>4 DEF PageOK, Tidy
  <2>6. \A m \in Nodes : memory'[t][m].keys = memory[t][m].keys
    BY <2>3, <2>4
  <2>7. ASSUME NEW m \in Nodes
        PROVE  /\ memory'[t][m].keys \subseteq doc'.nodes[m].keys
               /\ job'[t].pc \in Writing =>
                    memory'[t][m].keys \subseteq job'[t].taken.state[m].keys
    <3>1. NodeOK(t, m)
      BY <1>1, <1>3 DEF PageOK, Ahead
    <3>. QED BY <1>3, <2>6, <3>1 DEF NodeOK
  <2>8. /\ queue[t] # NoQueue => On(queue[t], doc')
        /\ observed'[t] = AsSeen(doc') /\ observed[t] = AsSeen(doc')
        /\ job'[t].pc \in Writing => On(job'[t].taken, doc')
        /\ attempt'[t] # NoAttempt => AttemptOK(attempt'[t])
    BY <1>1, <1>3 DEF PageOK, BaseOK
  <2>9. queue'[t] = Queued(queue[t], NoAttempt, memory'[t], AsSeen(doc'))
    BY <1>1, <2>1, <2>8 DEF Types
  <2>10. PageOK(t)'
    BY <1>2, <1>4, <2>5, <2>7, <2>8, <2>9, Requeued
  <2>. QED BY <1>1, <1>4, <2>10, Alone
<1>. QED BY <1>5, <1>6

LEMMA ReopenShows ==
  ASSUME SInv, OnePage, NEW t \in Tabs, Reopen(t)
  PROVE  SInv'
<1>1. IInv /\ Types /\ StoreOK /\ IInv'
  BY ReopenStep DEF SInv, IInv
<1>2. /\ memory'[t] = doc.nodes /\ observed'[t] = AsSeen(doc) /\ queue'[t] = NoQueue
      /\ attempt'[t] = NoAttempt /\ job'[t] = NoJob /\ doc' = doc
  BY <1>1 DEF Reopen, Types
<1>3. job'[t].pc = "none"
  BY <1>2 DEF NoJob
<1>4. PageOK(t)'
  BY <1>1, <1>2, <1>3 DEF PageOK, BaseOK, StoreOK, NodeOK, Latest, Agrees, Writing
<1>. QED BY <1>1, <1>2, <1>4, Alone DEF StoreOK

\* What the page holds after Take.
LEMMA Took ==
  ASSUME Types, NEW t \in Tabs, NEW q \in QueueType \cup {NoQueue},
         NEW pc, NEW otherwise, Take(t, q, pc, otherwise)
  PROVE  /\ q = NoQueue => job'[t].pc = otherwise /\ queue'[t] = NoQueue
         /\ q # NoQueue => /\ job'[t].pc = pc /\ job'[t].taken = q
                          /\ queue'[t] # NoQueue /\ queue'[t].fresh = FALSE
                          /\ queue'[t].state = q.state /\ queue'[t].base = q.base
                          /\ queue'[t].baseRev = q.baseRev
<1>1. CASE q = NoQueue
  BY <1>1 DEF Take, Types
<1>2. CASE q # NoQueue
  <2>. DEFINE stale == [q EXCEPT !.fresh = FALSE]
  <2>1. /\ job' = [job EXCEPT ![t] = [pc |-> pc, taken |-> q]]
        /\ queue' = [queue EXCEPT ![t] = stale]
    BY <1>2 DEF Take
  <2>2. /\ stale \in QueueType /\ stale.fresh = FALSE /\ stale.state = q.state
        /\ stale.base = q.base /\ stale.baseRev = q.baseRev
    BY <1>2 DEF QueueType
  <2>3. stale # NoQueue
    BY <2>2, SomeIsNotNone
  <2>. HIDE DEF stale
  <2>. QED BY <1>2, <2>1, <2>2, <2>3 DEF Types
<1>. QED BY <1>1, <1>2

LEMMA StartShows ==
  ASSUME SInv, OnePage, NEW t \in Tabs, SaveStart(t) \/ GenStart(t)
  PROVE  SInv'
<1>1. IInv /\ Types /\ StoreOK /\ PageOK(t) /\ IInv'
  BY StartStep DEF SInv, IInv
<1>2. queue[t] \in QueueType \cup {NoQueue}
  BY <1>1 DEF Types
<1>3. PICK pc \in {"save", "drain"}, otherwise \in {"none", "merge"} :
        Take(t, queue[t], pc, otherwise)
  BY DEF SaveStart, GenStart
<1>4. /\ job[t].pc = "none"
      /\ UNCHANGED <<doc, memory, observed, attempt>>
  BY DEF SaveStart, GenStart, NoJob
<1>5. StoreOK'
  BY <1>1, <1>4 DEF StoreOK
<1>6. ASSUME NEW n \in Nodes PROVE Ahead(t, n)' \/ NodeOK(t, n)'
  <2>1. CASE Ahead(t, n)
    <3>1. job'[t].pc \in {pc, otherwise}
      BY <1>1, <1>2, <1>3, Took
    <3>. QED BY <1>4, <2>1, <3>1 DEF Ahead, Landed
  <2>2. CASE NodeOK(t, n) /\ queue[t] = NoQueue
    <3>1. job'[t].pc = otherwise /\ queue'[t] = NoQueue
      BY <1>1, <1>2, <1>3, <2>2, Took
    <3>. QED BY <1>4, <2>2, <3>1 DEF NodeOK, Latest, Writing
  <2>3. CASE NodeOK(t, n) /\ queue[t] # NoQueue
    <3>1. /\ job'[t].pc = pc /\ job'[t].taken = queue[t]
          /\ queue'[t] # NoQueue /\ queue'[t].state = queue[t].state
      BY <1>1, <1>2, <1>3, <2>3, Took
    <3>2. Agrees(memory[t][n], queue[t].state[n])
      BY <1>4, <2>3 DEF NodeOK, Latest
    <3>. QED BY <1>4, <2>3, <3>1, <3>2 DEF NodeOK, Latest, Agrees
  <2>. QED BY <1>1, <2>1, <2>2, <2>3 DEF PageOK
<1>7. BaseOK(t)'
  <2>1. CASE queue[t] = NoQueue
    <3>1. job'[t].pc = otherwise /\ queue'[t] = NoQueue
      BY <1>1, <1>2, <1>3, <2>1, Took
    <3>. QED BY <1>1, <1>4, <3>1 DEF PageOK, BaseOK, Writing
  <2>2. CASE queue[t] # NoQueue
    <3>1. /\ job'[t].taken = queue[t] /\ queue'[t].state = queue[t].state
          /\ queue'[t].base = queue[t].base /\ queue'[t].baseRev = queue[t].baseRev
      BY <1>1, <1>2, <1>3, <2>2, Took
    <3>. QED BY <1>1, <1>4, <2>2, <3>1 DEF PageOK, BaseOK, On
  <2>. QED BY <2>1, <2>2
<1>8. PageOK(t)'
  BY <1>1, <1>4, <1>6, <1>7 DEF PageOK
<1>. QED BY <1>1, <1>5, <1>8, Alone

LEMMA SaveWriteShows ==
  ASSUME SInv, OnePage, NEW t \in Tabs, SaveWrite(t)
  PROVE  SInv'
<1>. DEFINE taken == job[t].taken
            pc == job[t].pc
            next == Retaken(queue[t], taken.state, doc'.rev)
            q == IF queue[t].fresh THEN next ELSE NoQueue
<1>1. IInv /\ Types /\ StoreOK /\ PageOK(t) /\ IInv' /\ Types'
  BY SaveWriteStep DEF SInv, IInv
<1>2. /\ pc \in Writing
      /\ doc' = Rebase(doc, taken.base, taken.state, taken.baseRev)
      /\ observed' = [observed EXCEPT ![t] = AsSeen(doc')]
      /\ Take(t, q, pc, AfterSave(pc))
      /\ UNCHANGED <<memory, attempt>>
  BY DEF SaveWrite, Writing
<1>3. /\ taken \in QueueType /\ queue[t] \in QueueType /\ queue[t] # NoQueue
      /\ taken.state \in ContentType
  BY <1>1, <1>2 DEF IInv, TabOK, JobOK, Types, JobType, QueueType, Writing
<1>4. On(taken, doc) /\ On(queue[t], doc)
  BY <1>1, <1>2, <1>3 DEF PageOK, BaseOK
<1>5. doc'.nodes = taken.state
  BY <1>1, <1>2, <1>3, <1>4, SavedAsIs DEF On, StoreOK, Types
<1>6. StoreOK'
  <2>1. doc \in DocType /\ taken.base \in ContentType /\ taken.baseRev \in Nat
    BY <1>1, <1>3 DEF Types, QueueType
  <2>2. \A n \in Nodes : doc'.tombs[n] <= doc'.rev
    BY <1>1, <1>2, <1>3, <2>1, RebaseTidy DEF StoreOK
  <2>. QED BY <1>4, <1>5, <2>2 DEF StoreOK, On
<1>7. /\ AfterSave(pc) \in {"none", "merge", "publish"}
      /\ AfterSave(pc) = "publish" <=> pc = "rest"
  BY <1>2 DEF AfterSave, Writing
<1>8. next \in QueueType /\ next.state = queue[t].state /\ On(next, doc')
  <2>1. doc'.rev \in Nat
    BY <1>1 DEF Types, DocType
  <2>2. /\ next \in QueueType /\ next.state = queue[t].state
        /\ next.base = taken.state /\ next.baseRev = doc'.rev
    BY <1>3, <2>1 DEF Retaken, QueueType
  <2>. QED BY <1>4, <1>5, <2>2 DEF On
<1>9. next # NoQueue
  BY <1>8, SomeIsNotNone
<1>10. observed'[t] = AsSeen(doc')
  BY <1>1, <1>2 DEF Types
<1>. HIDE DEF next, taken, pc
<1>11. CASE queue[t].fresh
  <2>1. Take(t, next, pc, AfterSave(pc))
    BY <1>2, <1>11
  <2>. HIDE DEF q
  <2>2. /\ job'[t].pc = pc /\ job'[t].taken = next
        /\ queue'[t] # NoQueue /\ queue'[t].state = next.state
        /\ queue'[t].base = next.base /\ queue'[t].baseRev = next.baseRev
    BY <1>1, <1>8, <1>9, <2>1, Took
  <2>3. ASSUME NEW n \in Nodes PROVE Ahead(t, n)' \/ NodeOK(t, n)'
    <3>1. CASE Ahead(t, n)
      BY <1>2, <2>2, <3>1 DEF Ahead, pc
    <3>2. CASE NodeOK(t, n)
      <4>1. /\ Agrees(memory[t][n], queue[t].state[n])
            /\ memory[t][n].keys \subseteq taken.state[n].keys
        BY <1>2, <1>3, <3>2 DEF NodeOK, Latest, taken, pc
      <4>. QED BY <1>2, <1>5, <1>8, <2>2, <4>1 DEF NodeOK, Latest, Agrees
    <3>. QED BY <1>1, <3>1, <3>2 DEF PageOK
  <2>4. BaseOK(t)'
    BY <1>8, <1>10, <2>2 DEF BaseOK, On
  <2>5. PageOK(t)'
    BY <1>1, <1>2, <2>3, <2>4 DEF PageOK
  <2>. QED BY <1>1, <1>6, <2>5, Alone
<1>12. CASE ~ queue[t].fresh
  <2>1. job'[t].pc = AfterSave(pc) /\ queue'[t] = NoQueue
    <3>1. Take(t, NoQueue, pc, AfterSave(pc))
      BY <1>2, <1>12
    <3>. QED BY <1>1, <3>1, Took
  <2>2. ASSUME NEW n \in Nodes PROVE Ahead(t, n)' \/ NodeOK(t, n)'
    <3>1. CASE Ahead(t, n)
      BY <1>2, <1>7, <2>1, <3>1 DEF Ahead, pc, Landed
    <3>2. CASE NodeOK(t, n)
      <4>1. /\ Agrees(memory[t][n], queue[t].state[n])
            /\ memory[t][n].keys \subseteq taken.state[n].keys
            /\ pc # "rest" => /\ queue[t].state[n].here = taken.state[n].here
                             /\ queue[t].state[n].text = taken.state[n].text
        BY <1>2, <1>3, <1>12, <3>2 DEF NodeOK, Latest, taken, pc, Writing
      <4>2. pc # "rest" => Agrees(memory[t][n], doc'.nodes[n])
        BY <1>5, <4>1 DEF Agrees
      <4>. QED BY <1>2, <1>5, <1>7, <2>1, <4>1, <4>2 DEF NodeOK, Latest, Writing
    <3>. QED BY <1>1, <3>1, <3>2 DEF PageOK
  <2>3. BaseOK(t)'
    BY <1>7, <1>10, <2>1 DEF BaseOK, Writing
  <2>4. PageOK(t)'
    BY <1>1, <1>2, <2>2, <2>3 DEF PageOK
  <2>. QED BY <1>1, <1>6, <2>4, Alone
<1>. QED BY <1>11, <1>12

\* The page ends its job with contents whose stamps are stored.
LEMMA RestShows ==
  ASSUME SInv, OnePage, IInv', NEW t \in Tabs, doc' = doc,
         observed'[t] = AsSeen(doc), attempt'[t] = NoAttempt, job'[t] = NoJob,
         queue'[t] = Queued(queue[t], NoAttempt, memory'[t], AsSeen(doc)),
         Tidy(memory'[t]),
         \A n \in Nodes : memory'[t][n].keys \subseteq doc.nodes[n].keys
  PROVE  SInv'
<1>1. Types' /\ StoreOK' /\ queue[t] \in QueueType \cup {NoQueue}
      /\ (queue[t] # NoQueue => On(queue[t], doc'))
  BY DEF SInv, IInv, Types, StoreOK, PageOK, BaseOK
<1>2. job'[t].pc = "none"
  BY DEF NoJob
<1>3. PageOK(t)'
  BY <1>1, <1>2, Requeued DEF Writing
<1>. QED BY <1>1, <1>3, Alone

LEMMA RefuseShows ==
  ASSUME SInv, OnePage, IInv', NEW t \in Tabs, attempt[t] # NoAttempt, NEW mem \in ContentType,
         Refuse(t, mem, AsSeen(doc)), doc' = doc, Tidy(mem),
         \A n \in Nodes : \/ mem[n].keys \subseteq doc.nodes[n].keys
                          \/ n = Target /\ attempt[t].first
  PROVE  SInv'
<1>. DEFINE a == attempt[t]
            m == Refused(a, mem)
<1>1. IInv /\ Types /\ Types' /\ PageOK(t) /\ Target \in Nodes
  BY NodesAssumption DEF SInv, IInv
<1>2. a \in AttemptType /\ AttemptOK(a)
  BY <1>1 DEF Types, PageOK
<1>3. /\ a.base \in ContentType /\ a.effect \in Effects /\ a.first \in BOOLEAN
      /\ a.base[Target].here /\ (a.first => a.base[Target].keys = {})
      /\ mem[Target] \in NodeType
  BY <1>1, <1>2 DEF AttemptType, AttemptOK, ContentType
<1>4. Tidy(m) /\ \A n \in Nodes : m[n].keys \subseteq doc.nodes[n].keys
  <2>1. CASE a.first
    <3>1. m = [mem EXCEPT ![Target] = a.base[Target]]
      BY <2>1 DEF Refused
    <3>2. m[Target] = a.base[Target] /\ \A n \in Nodes \ {Target} : m[n] = mem[n]
      BY <1>1, <3>1 DEF ContentType
    <3>. HIDE DEF m, a
    <3>. QED BY <1>3, <2>1, <3>2 DEF Tidy
  <2>2. CASE ~ a.first /\ mem[Target].here
    <3>. DEFINE v == [mem[Target] EXCEPT !.text = a.effect]
    <3>1. m = [mem EXCEPT ![Target] = v]
      BY <1>1, <1>3, <2>2 DEF Refused, ContentType
    <3>2. v.here /\ v.keys = mem[Target].keys
      BY <1>3, <2>2 DEF NodeType
    <3>3. m[Target] = v /\ \A n \in Nodes \ {Target} : m[n] = mem[n]
      BY <1>1, <3>1 DEF ContentType
    <3>4. \A n \in Nodes : mem[n].keys \subseteq doc.nodes[n].keys
      BY <2>2
    <3>. HIDE DEF m, a, v
    <3>. QED BY <3>2, <3>3, <3>4 DEF Tidy
  <2>3. CASE ~ a.first /\ ~ mem[Target].here
    <3>1. m = mem
      BY <2>3 DEF Refused
    <3>. QED BY <2>3, <3>1
  <2>. QED BY <2>1, <2>2, <2>3
<1>5. memory'[t] = m
  BY <1>1 DEF Refuse, Types
<1>. HIDE DEF m
<1>6. /\ observed'[t] = AsSeen(doc) /\ attempt'[t] = NoAttempt /\ job'[t] = NoJob
      /\ queue'[t] = Queued(queue[t], NoAttempt, memory'[t], AsSeen(doc))
  BY <1>1 DEF Refuse, EndJob, Types
<1>. QED BY <1>4, <1>5, <1>6, RestShows

LEMMA GenConflictShows ==
  ASSUME SInv, OnePage, NEW t \in Tabs, GenConflict(t)
  PROVE  SInv'
<1>. DEFINE mem == Rebase(doc, attempt[t].local, memory[t], doc.rev).nodes
<1>1. IInv /\ Types /\ StoreOK /\ PageOK(t) /\ TabOK(t) /\ IInv'
  BY GenConflictStep DEF SInv, IInv
<1>2. job[t].pc = "merge" /\ doc' = doc /\ Refuse(t, mem, AsSeen(doc))
  BY DEF GenConflict
<1>3. attempt[t] # NoAttempt /\ attempt[t] \in AttemptType
  BY <1>1, <1>2 DEF TabOK, JobOK, Types
<1>4. /\ attempt[t].local \in ContentType /\ memory[t] \in ContentType
      /\ doc \in DocType /\ doc.rev \in Nat
  BY <1>1, <1>3 DEF Types, AttemptType, DocType
<1>5. /\ mem \in ContentType
      /\ \A n \in Nodes : mem[n].keys \subseteq memory[t][n].keys \cup doc.nodes[n].keys
  BY <1>4, RebaseTyped DEF DocType
<1>6. Tidy(mem)
  BY <1>1, <1>4, RebaseTidy DEF StoreOK
<1>. HIDE DEF mem
<1>7. \A n \in Nodes : \/ mem[n].keys \subseteq doc.nodes[n].keys
                       \/ n = Target /\ attempt[t].first
  BY <1>1, <1>5 DEF PageOK, Ahead, NodeOK
<1>. QED BY <1>1, <1>2, <1>3, <1>5, <1>6, <1>7, RefuseShows

LEMMA GenFailsShows ==
  ASSUME SInv, OnePage, NEW t \in Tabs, GenFails(t)
  PROVE  SInv'
<1>. DEFINE mem == Ordinary(attempt[t], memory[t], doc.nodes)
<1>1. IInv /\ Types /\ StoreOK /\ PageOK(t) /\ TabOK(t) /\ IInv'
  BY GenFailsStep DEF SInv, IInv
<1>2. job[t].pc = "merge" /\ doc' = doc /\ Refuse(t, mem, AsSeen(doc))
  BY DEF GenFails
<1>3. attempt[t] # NoAttempt
  BY <1>1, <1>2 DEF TabOK, JobOK
<1>4. memory[t] \in ContentType /\ doc.nodes \in ContentType
  BY <1>1 DEF Types, DocType
<1>5. mem \in ContentType /\ \A n \in Nodes : mem[n].keys \subseteq doc.nodes[n].keys
  BY <1>4, OrdinaryTyped
<1>6. Tidy(mem)
  BY <1>1, <1>4, OrdinaryShows DEF StoreOK, PageOK
<1>. HIDE DEF mem
<1>. QED BY <1>1, <1>2, <1>3, <1>5, <1>6, RefuseShows

LEMMA SaveFailsShows ==
  ASSUME SInv, OnePage, NEW t \in Tabs, SaveFails(t)
  PROVE  SInv'
<1>1. IInv /\ Types /\ StoreOK /\ PageOK(t) /\ TabOK(t) /\ IInv' /\ doc' = doc
  BY SaveFailsStep DEF SInv, IInv, SaveFails
<1>2. CASE job[t].pc = "drain" /\ Refuse(t, memory[t], observed[t])
  <2>1. attempt[t] # NoAttempt /\ memory[t] \in ContentType
    BY <1>1, <1>2 DEF TabOK, JobOK, Types
  <2>2. observed[t] = AsSeen(doc) /\ Tidy(memory[t])
    BY <1>1 DEF PageOK, BaseOK
  <2>3. \A n \in Nodes : \/ memory[t][n].keys \subseteq doc.nodes[n].keys
                         \/ n = Target /\ attempt[t].first
    BY <1>1 DEF PageOK, Ahead, NodeOK
  <2>. QED BY <1>1, <1>2, <2>1, <2>2, <2>3, RefuseShows
<1>3. ASSUME UNCHANGED <<memory, observed, queue, attempt>>,
             \/ job[t].pc = "save" /\ job'[t].pc = "none"
             \/ job[t].pc = "rest" /\ job'[t].pc = "publish"
      PROVE  SInv'
  <2>1. ASSUME NEW n \in Nodes PROVE Ahead(t, n)' \/ NodeOK(t, n)'
    <3>1. Ahead(t, n) \/ NodeOK(t, n)
      BY <1>1 DEF PageOK
    <3>. QED BY <1>1, <1>3, <3>1 DEF Ahead, NodeOK, Latest, Landed, Writing
  <2>2. PageOK(t)'
    BY <1>1, <1>3, <2>1 DEF PageOK, BaseOK, Writing
  <2>. QED BY <1>1, <2>2, Alone DEF StoreOK
<1>4. CASE /\ job[t].pc = "save" /\ job' = [job EXCEPT ![t] = NoJob]
           /\ UNCHANGED <<memory, observed, queue, attempt>>
  BY <1>1, <1>3, <1>4 DEF Types, NoJob
<1>5. CASE /\ job[t].pc = "rest" /\ UNCHANGED <<memory, observed, queue, attempt>>
           /\ job' = [job EXCEPT ![t] = [pc |-> "publish", taken |-> NoQueue]]
  BY <1>1, <1>3, <1>5 DEF Types
<1>. QED BY <1>2, <1>4, <1>5 DEF SaveFails

LEMMA PublishShows ==
  ASSUME SInv, OnePage, NEW t \in Tabs, Publish(t)
  PROVE  SInv'
<1>. DEFINE a == attempt[t]
            shown == [doc EXCEPT !.nodes = memory[t]]
            merged == Rebase(shown, a.start, doc.nodes, a.rev).nodes
            mem == Published(a, merged)
<1>1. IInv /\ Types /\ StoreOK /\ PageOK(t) /\ TabOK(t) /\ IInv' /\ Target \in Nodes
  BY PublishStep, NodesAssumption DEF SInv, IInv
<1>2. /\ job[t].pc = "publish" /\ doc' = doc
      /\ observed' = [observed EXCEPT ![t] = AsSeen(doc)]
      /\ memory' = [memory EXCEPT ![t] = mem]
      /\ queue' = [queue EXCEPT ![t] = Queued(@, NoAttempt, memory'[t], observed'[t])]
      /\ attempt' = [attempt EXCEPT ![t] = NoAttempt] /\ job' = [job EXCEPT ![t] = NoJob]
  BY DEF Publish, EndJob
<1>3. a \in AttemptType
  BY <1>1, <1>2 DEF Types, TabOK, JobOK
<1>4. /\ a.start \in ContentType /\ a.rev \in Nat /\ memory[t] \in ContentType
      /\ doc \in DocType /\ doc.nodes \in ContentType
  BY <1>1, <1>3 DEF Types, AttemptType, DocType
<1>5. shown \in DocType /\ shown.nodes = memory[t]
  BY <1>4 DEF DocType
<1>. HIDE DEF shown
<1>6. /\ merged \in ContentType
      /\ \A n \in Nodes : merged[n].keys \subseteq doc.nodes[n].keys \cup memory[t][n].keys
  BY <1>4, <1>5, RebaseTyped DEF DocType
<1>7. Tidy(merged)
  BY <1>1, <1>4, <1>5, RebaseTidy DEF PageOK
<1>. HIDE DEF merged
<1>8. \A n \in Nodes : memory[t][n].keys \subseteq doc.nodes[n].keys
  BY <1>1, <1>2 DEF PageOK, Ahead, NodeOK, Landed
<1>9. Tidy(mem) /\ \A n \in Nodes : mem[n].keys \subseteq doc.nodes[n].keys
  <2>1. CASE ~ a.first /\ merged[Target].here /\ merged[Target].text = 0
    <3>. DEFINE v == [merged[Target] EXCEPT !.text = a.effect]
    <3>1. merged[Target] \in NodeType
      BY <1>1, <1>6 DEF ContentType
    <3>2. v.here /\ v.keys = merged[Target].keys
      BY <2>1, <3>1 DEF NodeType
    <3>3. mem = [merged EXCEPT ![Target] = v]
      BY <1>1, <1>6, <2>1 DEF Published, ContentType
    <3>. HIDE DEF v, mem
    <3>4. mem[Target] = v /\ \A n \in Nodes \ {Target} : mem[n] = merged[n]
      BY <1>1, <1>6, <3>3 DEF ContentType
    <3>. QED BY <1>6, <1>7, <1>8, <3>2, <3>4 DEF Tidy
  <2>2. CASE ~ (~ a.first /\ merged[Target].here /\ merged[Target].text = 0)
    <3>1. mem = merged
      BY <2>2 DEF Published
    <3>. QED BY <1>6, <1>7, <1>8, <3>1
  <2>. QED BY <2>1, <2>2
<1>10. memory'[t] = mem
  BY <1>1, <1>2 DEF Types
<1>. HIDE DEF mem
<1>11. /\ observed'[t] = AsSeen(doc) /\ attempt'[t] = NoAttempt /\ job'[t] = NoJob
       /\ queue'[t] = Queued(queue[t], NoAttempt, memory'[t], AsSeen(doc))
  BY <1>1, <1>2 DEF Types
<1>. QED BY <1>1, <1>2, <1>9, <1>10, <1>11, RestShows

\* A generation that a page may begin with.
Careful == NothingShownFirst \/ OneGeneration

LEMMA BeginShows ==
  ASSUME SInv, OnePage, Careful, NEW t \in Tabs, NEW e \in Effects, Begin(t, e)
  PROVE  SInv'
<1>1. PICK first \in ShownFirst :
        LET local == [memory[t] EXCEPT ![Target].text = e, ![Target].keys = @ \cup {e}]
            start == IF first THEN local ELSE memory[t]
            a     == [effect |-> e, first |-> first, base |-> memory[t], local |-> local,
                      start |-> start, rev |-> observed[t].rev]
        IN  /\ attempt' = [attempt EXCEPT ![t] = a]
            /\ memory' = [memory EXCEPT ![t] = start]
            /\ queue' = IF first \/ queue[t] # NoQueue
                        THEN [queue EXCEPT ![t] = [Queued(@, a, start, observed[t]) EXCEPT
                                                     !.fresh = first \/ queue[t].fresh]]
                        ELSE queue
  BY DEF Begin
<1>. DEFINE local == [memory[t] EXCEPT ![Target].text = e, ![Target].keys = @ \cup {e}]
            start == IF first THEN local ELSE memory[t]
            a     == [effect |-> e, first |-> first, base |-> memory[t], local |-> local,
                      start |-> start, rev |-> observed[t].rev]
            ordinary == Queued(queue[t], a, start, observed[t])
            q == [ordinary EXCEPT !.fresh = first \/ queue[t].fresh]
<1>2. /\ attempt[t] = NoAttempt /\ memory[t][Target].here
      /\ e \notin memory[t][Target].keys
      /\ UNCHANGED <<doc, observed, job>>
  BY DEF Begin
<1>3. /\ IInv /\ Types /\ StoreOK /\ PageOK(t) /\ TabOK(t) /\ IInv' /\ Types'
      /\ Target \in Nodes /\ first \in BOOLEAN /\ (first => OneGeneration)
  BY BeginStep, NodesAssumption DEF SInv, IInv, Careful, NothingShownFirst
<1>4. /\ memory[t] \in ContentType /\ memory[t][Target] \in NodeType
      /\ observed[t] = AsSeen(doc) /\ observed[t].rev \in Nat /\ doc \in DocType
      /\ queue[t] \in QueueType \cup {NoQueue}
      /\ \A n \in Nodes : NodeOK(t, n)
  BY <1>2, <1>3 DEF Types, ContentType, SeenType, PageOK, BaseOK, Ahead
<1>5. /\ local \in ContentType /\ local[Target].here
      /\ local[Target].keys = memory[t][Target].keys \cup {e}
      /\ \A n \in Nodes \ {Target} : local[n] = memory[t][n]
  <2>. DEFINE v == [memory[t][Target] EXCEPT !.text = e,
                                             !.keys = memory[t][Target].keys \cup {e}]
  <2>1. v \in NodeType /\ v.here /\ v.keys = memory[t][Target].keys \cup {e}
    BY <1>2, <1>4 DEF NodeType
  <2>2. local = [memory[t] EXCEPT ![Target] = v]
    BY <1>3, <1>4 DEF ContentType, NodeType
  <2>. HIDE DEF v
  <2>. QED BY <1>3, <1>4, <2>1, <2>2 DEF ContentType
<1>. HIDE DEF local
<1>6. start \in ContentType /\ (~ first => start = memory[t]) /\ (first => start = local)
  BY <1>4, <1>5
<1>. HIDE DEF start
<1>7. /\ a \in AttemptType /\ a.effect = e /\ a.first = first /\ a.base = memory[t]
      /\ a.local = local
  BY <1>3, <1>4, <1>5, <1>6 DEF AttemptType
<1>. HIDE DEF a
<1>8. a # NoAttempt /\ AttemptOK(a)
  <2>1. first => memory[t][Target].keys = {}
    BY <1>2, <1>3, <1>4 DEF OneGeneration, NodeType
  <2>. QED BY <1>2, <1>3, <1>5, <1>7, <2>1, SomeIsNotNone DEF AttemptOK
<1>9. Tidy(start)
  BY <1>2, <1>3, <1>5, <1>6 DEF PageOK, Tidy
<1>10. /\ ordinary \in QueueType /\ On(ordinary, doc)
       /\ \A n \in Nodes : start[n].keys \subseteq doc.nodes[n].keys =>
            Agrees(start[n], ordinary.state[n])
  <2>1. queue[t] # NoQueue => On(queue[t], doc)
    BY <1>3 DEF PageOK, BaseOK
  <2>2. AsSeen(doc) \in SeenType
    BY <1>4, SeenTyped
  <2>. QED BY <1>3, <1>4, <1>6, <1>9, <2>1, <2>2, QueuedTyped, QueuedShows DEF StoreOK
<1>. HIDE DEF ordinary
<1>11. /\ attempt' = [attempt EXCEPT ![t] = a]
       /\ memory' = [memory EXCEPT ![t] = start]
       /\ queue' = IF first \/ queue[t] # NoQueue THEN [queue EXCEPT ![t] = q] ELSE queue
  BY <1>1, <1>3 DEF local, start, a, ordinary, Types
<1>12. first \/ queue[t] # NoQueue =>
         /\ q \in QueueType /\ q.state = ordinary.state
         /\ q.base = ordinary.base /\ q.baseRev = ordinary.baseRev
         /\ q.fresh = (first \/ queue[t].fresh)
  <2>1. first \/ queue[t] # NoQueue => (first \/ queue[t].fresh) \in BOOLEAN
    BY <1>3, <1>4 DEF QueueType
  <2>. QED BY <1>10, <2>1 DEF QueueType
<1>. HIDE DEF q
<1>13. /\ attempt'[t] = a /\ memory'[t] = start
       /\ queue'[t] = IF first \/ queue[t] # NoQueue THEN q ELSE NoQueue
  BY <1>3, <1>11 DEF Types
<1>14. first \/ queue[t] # NoQueue => q # NoQueue
  BY <1>12, SomeIsNotNone
<1>15. BaseOK(t)'
  BY <1>2, <1>3, <1>10, <1>12, <1>13 DEF PageOK, BaseOK, On
<1>16. job[t].pc \notin {"drain", "merge", "rest", "publish"}
       /\ (job[t].pc = "save" => queue[t] # NoQueue)
  BY <1>2, <1>3 DEF TabOK, JobOK
<1>17. ASSUME NEW n \in Nodes PROVE Ahead(t, n)' \/ NodeOK(t, n)'
  <2>1. CASE n = Target /\ first
    BY <1>2, <1>7, <1>8, <1>13, <1>16, <2>1 DEF Ahead, Landed
  <2>2. CASE n # Target \/ ~ first
    <3>1. start[n] = memory[t][n]
      BY <1>5, <1>6, <2>2
    <3>2. NodeOK(t, n) /\ start[n].keys \subseteq doc.nodes[n].keys
      BY <1>4, <3>1 DEF NodeOK
    <3>3. CASE first \/ queue[t] # NoQueue
      <4>1. Agrees(start[n], q.state[n]) /\ queue'[t] = q /\ q # NoQueue
        BY <1>10, <1>12, <1>13, <1>14, <3>2, <3>3
      <4>2. job[t].pc = "save" /\ ~ q.fresh =>
              /\ q.state[n].here = job[t].taken.state[n].here
              /\ q.state[n].text = job[t].taken.state[n].text
        <5>1. SUFFICES ASSUME job[t].pc = "save", ~ q.fresh
                       PROVE  /\ q.state[n].here = job[t].taken.state[n].here
                              /\ q.state[n].text = job[t].taken.state[n].text
          OBVIOUS
        <5>2. ~ queue[t].fresh /\ queue[t] # NoQueue
          BY <1>12, <1>16, <3>3, <5>1
        <5>3. /\ queue[t].state[n].here = job[t].taken.state[n].here
              /\ queue[t].state[n].text = job[t].taken.state[n].text
              /\ Agrees(memory[t][n], queue[t].state[n])
          BY <3>2, <5>1, <5>2 DEF NodeOK, Latest
        <5>. QED BY <3>1, <4>1, <5>3 DEF Agrees
      <4>. QED BY <1>2, <1>13, <1>16, <3>1, <3>2, <4>1, <4>2 DEF NodeOK, Latest, Writing
    <3>4. CASE ~ (first \/ queue[t] # NoQueue)
      BY <1>2, <1>13, <1>16, <3>1, <3>2, <3>4 DEF NodeOK, Latest, Writing
    <3>. QED BY <3>3, <3>4
  <2>. QED BY <2>1, <2>2
<1>18. PageOK(t)'
  BY <1>8, <1>9, <1>13, <1>15, <1>17 DEF PageOK
<1>. QED BY <1>2, <1>3, <1>18, Alone DEF StoreOK

\* The commit point takes no stamp from the document, and adds its own.
LEMMA CommitAdds ==
  ASSUME NEW d \in DocType, NEW a \in AttemptType, AttemptOK(a), a.local[Target].here,
         Conflicts(d, a.base, a.local, a.rev) = {}
  PROVE  /\ \A n \in Nodes : d.nodes[n].keys \subseteq Rebase(d, a.base, a.local, a.rev).nodes[n].keys
         /\ a.effect \in Rebase(d, a.base, a.local, a.rev).nodes[Target].keys
<1>. DEFINE new(n) == RebasedNode(a.base[n], a.local[n], d.nodes[n], d.tombs[n], a.rev)
<1>1. \A n \in Nodes : Rebase(d, a.base, a.local, a.rev).nodes[n] = new(n)
  BY DEF Rebase
<1>2. Target \in Nodes
  BY NodesAssumption
<1>3. ASSUME NEW n \in Nodes \ {Target} PROVE new(n) = d.nodes[n]
  <2>1. ~ Deletes(a.base[n], a.local[n]) /\ ~ Writes(a.base[n], a.local[n])
    BY DEF AttemptOK, Deletes, Writes
  <2>. QED BY <2>1 DEF RebasedNode
<1>. DEFINE b == a.base[Target]
            l == a.local[Target]
            g == d.nodes[Target]
<1>4. /\ b.here /\ l.here /\ l.keys = b.keys \cup {a.effect} /\ a.effect \notin b.keys
  BY DEF AttemptOK
<1>. HIDE DEF b, l, g
<1>5. Writes(b, l) /\ ~ Deletes(b, l)
  BY <1>4 DEF Writes, Deletes
<1>6. g.here
  <2>1. SUFFICES ASSUME ~ g.here PROVE FALSE
    OBVIOUS
  <2>2. MeetsDeletion(b, g, d.tombs[Target], a.rev)
    BY <1>4, <2>1 DEF MeetsDeletion
  <2>3. Target \in Conflicts(d, a.base, a.local, a.rev)
    BY <1>2, <1>5, <2>1, <2>2 DEF Conflicts, b, l, g
  <2>. QED BY <2>3
<1>7. new(Target) = MergedNode(b, l, g)
  BY <1>5, <1>6 DEF RebasedNode, b, l, g
<1>8. g.keys \subseteq MergedNode(b, l, g).keys /\ a.effect \in MergedNode(b, l, g).keys
  <2>1. MergedNode(b, l, g).keys = CASE b.here /\ l.keys = b.keys -> g.keys
                                     [] b.here /\ g.keys = b.keys -> l.keys
                                     [] OTHER -> g.keys \cup l.keys
    BY DEF MergedNode
  <2>2. CASE g.keys = b.keys
    BY <1>4, <2>1, <2>2
  <2>3. CASE g.keys # b.keys
    BY <1>4, <2>1, <2>3
  <2>. QED BY <2>2, <2>3
<1>. HIDE DEF new
<1>9. a.effect \in Rebase(d, a.base, a.local, a.rev).nodes[Target].keys
  BY <1>1, <1>2, <1>7, <1>8
<1>10. ASSUME NEW n \in Nodes
       PROVE  d.nodes[n].keys \subseteq Rebase(d, a.base, a.local, a.rev).nodes[n].keys
  BY <1>1, <1>2, <1>3, <1>7, <1>8 DEF g
<1>. QED BY <1>9, <1>10

LEMMA GenWriteShows ==
  ASSUME SInv, OnePage, NEW t \in Tabs, GenWrite(t)
  PROVE  SInv'
<1>. DEFINE a == attempt[t]
            q == RebasedQueue(queue[t], a, memory[t], doc')
<1>1. /\ IInv /\ Types /\ StoreOK /\ PageOK(t) /\ TabOK(t) /\ IInv' /\ Types'
      /\ Target \in Nodes
  BY GenWriteStep, NodesAssumption DEF SInv, IInv
<1>2. /\ job[t].pc = "merge" /\ Conflicts(doc, a.base, a.local, a.rev) = {}
      /\ doc' = Rebase(doc, a.base, a.local, a.rev)
      /\ observed' = [observed EXCEPT ![t] = AsSeen(doc')]
      /\ Take(t, q, "rest", "publish")
      /\ UNCHANGED <<memory, attempt>>
  BY DEF GenWrite
<1>3. a \in AttemptType /\ a # NoAttempt /\ Sound(a) /\ AttemptOK(a)
  BY <1>1, <1>2 DEF Types, TabOK, JobOK, PageOK
<1>4. /\ a.base \in ContentType /\ a.local \in ContentType /\ a.rev \in Nat
      /\ a.effect \in Effects /\ a.local[Target].here
      /\ doc \in DocType /\ memory[t] \in ContentType
  BY <1>1, <1>3 DEF Types, AttemptType, Sound
<1>5. /\ \A n \in Nodes : doc.nodes[n].keys \subseteq doc'.nodes[n].keys
      /\ a.effect \in doc'.nodes[Target].keys
  BY <1>2, <1>3, <1>4, CommitAdds
<1>6. StoreOK'
  BY <1>1, <1>2, <1>4, RebaseTidy DEF StoreOK
<1>7. ASSUME NEW n \in Nodes PROVE memory[t][n].keys \subseteq doc'.nodes[n].keys
  <2>1. CASE NodeOK(t, n)
    BY <1>5, <2>1 DEF NodeOK
  <2>2. CASE Ahead(t, n)
    <3>1. n = Target /\ \A e \in Effects : e = a.effect
      BY <1>3, <1>4, <2>2 DEF Ahead, AttemptOK, OneGeneration
    <3>2. memory[t][n].keys \subseteq Effects
      BY <1>4 DEF ContentType, NodeType
    <3>. QED BY <1>5, <3>1, <3>2
  <2>. QED BY <1>1, <2>1, <2>2 DEF PageOK
<1>8. observed'[t] = AsSeen(doc') /\ doc' \in DocType /\ doc'.nodes \in ContentType
      /\ doc'.rev \in Nat
  BY <1>1, <1>2 DEF Types, DocType
<1>9. CASE queue[t] = NoQueue
  <2>1. Take(t, NoQueue, "rest", "publish")
    BY <1>2, <1>9 DEF RebasedQueue
  <2>2. job'[t].pc = "publish" /\ queue'[t] = NoQueue
    BY <1>1, <2>1, Took
  <2>3. PageOK(t)'
    BY <1>1, <1>2, <1>7, <1>8, <2>2 DEF PageOK, BaseOK, NodeOK, Writing
  <2>. QED BY <1>1, <1>6, <2>3, Alone
<1>10. CASE queue[t] # NoQueue
  <2>. DEFINE ordinary == Ordinary(a, memory[t], doc'.nodes)
  <2>1. q = [base |-> doc'.nodes, baseRev |-> doc'.rev, state |-> ordinary, fresh |-> TRUE]
    BY <1>10 DEF RebasedQueue
  <2>2. ordinary \in ContentType
    BY <1>4, <1>8, OrdinaryTyped
  <2>3. Tidy(ordinary) /\ \A n \in Nodes : Agrees(memory[t][n], ordinary[n])
    BY <1>1, <1>4, <1>6, <1>7, <1>8, OrdinaryShows DEF StoreOK, PageOK
  <2>. HIDE DEF ordinary, q
  <2>4. /\ q \in QueueType /\ q.state = ordinary
        /\ q.base = doc'.nodes /\ q.baseRev = doc'.rev
    BY <1>8, <2>1, <2>2 DEF QueueType
  <2>5. q # NoQueue
    BY <2>4, SomeIsNotNone
  <2>6. Take(t, q, "rest", "publish")
    BY <1>2
  <2>7. /\ job'[t].pc = "rest" /\ job'[t].taken = q
        /\ queue'[t] # NoQueue /\ queue'[t].state = q.state
        /\ queue'[t].base = q.base /\ queue'[t].baseRev = q.baseRev
    <3>. SUFFICES ASSUME NEW r \in QueueType, r # NoQueue, Take(t, r, "rest", "publish")
                  PROVE  /\ job'[t].pc = "rest" /\ job'[t].taken = r
                         /\ queue'[t] # NoQueue /\ queue'[t].state = r.state
                         /\ queue'[t].base = r.base /\ queue'[t].baseRev = r.baseRev
      BY <2>4, <2>5, <2>6
    <3>. QED BY <1>1, Took
  <2>8. ASSUME NEW n \in Nodes PROVE NodeOK(t, n)'
    BY <1>2, <1>7, <2>3, <2>4, <2>7 DEF NodeOK, Latest, Agrees
  <2>9. BaseOK(t)'
    BY <1>8, <2>3, <2>4, <2>7 DEF BaseOK, On
  <2>10. PageOK(t)'
    BY <1>1, <1>2, <2>8, <2>9 DEF PageOK
  <2>. QED BY <1>1, <1>6, <2>10, Alone
<1>. QED BY <1>9, <1>10

-----------------------------------------------------------------------------
LEMMA SettledInitially == Init => SInv
<1>. SUFFICES ASSUME Init PROVE SInv
  OBVIOUS
<1>1. IInv
  BY Initially
<1>2. /\ \A n \in Nodes : doc.nodes[n].here /\ doc.tombs[n] = 0
      /\ doc.rev = 0
      /\ \A t \in Tabs : /\ memory[t] = doc.nodes /\ observed[t] = AsSeen(doc)
                         /\ queue[t] = NoQueue /\ attempt[t] = NoAttempt
                         /\ job[t].pc = "none"
  <2>1. [Absent EXCEPT !.here = TRUE].here
    BY DEF Absent
  <2>. QED BY <2>1 DEF Init, AsSeen, NoJob
<1>3. StoreOK
  BY <1>2 DEF StoreOK, Tidy
<1>4. \A t \in Tabs : PageOK(t)
  BY <1>2, <1>3 DEF StoreOK, PageOK, BaseOK, NodeOK, Latest, Agrees, Writing
<1>. QED BY <1>1, <1>3, <1>4 DEF SInv

LEMMA SettledStep ==
  ASSUME OnePage, Careful, SInv, [Next]_vars
  PROVE  SInv'
<1>1. CASE UNCHANGED vars
  <2>1. UNCHANGED <<doc, memory, observed, queue, attempt, job>>
    BY <1>1 DEF vars
  <2>2. IInv'
    BY EveryStep DEF SInv
  <2>. QED BY <2>1, <2>2 DEF SInv, StoreOK, PageOK, BaseOK, NodeOK, Ahead, Latest
<1>2. ASSUME NEW t \in Tabs,
             \/ \E n \in Nodes : Edit(t, n)
             \/ SaveStart(t) \/ SaveWrite(t) \/ SaveFails(t)
             \/ \E e \in Effects : Begin(t, e)
             \/ GenStart(t) \/ GenWrite(t) \/ GenConflict(t) \/ GenFails(t)
             \/ Publish(t) \/ Reopen(t) \/ Recover(t)
      PROVE  SInv'
  BY <1>2, EditShows, StartShows, SaveWriteShows, SaveFailsShows, BeginShows, GenWriteShows,
     GenConflictShows, GenFailsShows, PublishShows, ReopenShows, RecoverShows
<1>. QED BY <1>1, <1>2 DEF Next

\* A page alone that has nothing left to write shows what is stored, whatever it
\* was doing when it was edited, failed, refused a result or was closed.
THEOREM RestsSettled ==
  ASSUME OnePage, Careful
  PROVE  Spec => []Settled
<1>1. SInv => Settled
  BY DEF SInv, PageOK, NodeOK, Ahead, AtRest, Latest, NoJob, Settled
<1>2. SInv /\ [Next]_vars => SInv'
  BY SettledStep
<1>. QED BY <1>1, <1>2, SettledInitially, PTL DEF Spec
=============================================================================
