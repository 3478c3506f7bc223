------------------------ MODULE ProcessingQueueProofs ------------------------
(* Theorems about ProcessingQueue for every set of queues and operations,   *)
(* every queue length and every stored queue.                               *)
EXTENDS ProcessingQueue, SequenceTheorems, TLAPS

-----------------------------------------------------------------------------
(* The inductive invariant, part by part.                                  *)

\* A run_id not in use has an empty queue, and nobody holds its lock.
Unused(q) == queue[q].size = 0 /\ queue[q].index = 1 /\ txn[q].step = "free"

\* A queue's status and index tell the status of its current item.
StatusOfItem(q) ==
  /\ queue[q].status = "RUNNING" => CurrentIs(q, "NLU_RUNNING") \/ CurrentIs(q, "DESIGNING")
  /\ queue[q].status \in {"PENDING", "FAILED", "WAITING_REQUIREMENT_APPROVAL"} =>
       CurrentIs(q, queue[q].status)
  /\ queue[q].status \in Settled => queue[q].index = queue[q].size + 1

\* Items before the current one are done, and those after it are untouched.
Sequential(q) == \A i \in Positions :
  /\ i < queue[q].index => item[q][i].status \in {"COMPLETED", "SKIPPED"}
  /\ i > queue[q].index \/ i > queue[q].size => item[q][i].status = "PENDING"

\* The holder of the lock works on an item in the state it left it in.
LockOfItem(q) ==
  /\ txn[q].step \in {"run_nlu", "save_waiting"} => CurrentIs(q, "NLU_RUNNING")
  /\ txn[q].step = "save_failed" => CurrentIs(q, "NLU_RUNNING") \/ CurrentIs(q, "DESIGNING")
  /\ txn[q].step = "save_approved" => CurrentIs(q, "WAITING_REQUIREMENT_APPROVAL")
  /\ txn[q].step = "save_retry" =>
       CurrentIs(q, "FAILED") \/ (SkippedSingle(q) /\ item[q][1].status = "SKIPPED")
  /\ txn[q].step \in {"run_design", "save_ready_cases", "save_unclear_cases",
                     "save_designed"} => CurrentIs(q, "DESIGNING")

\* A completed item links a READY case set that is on disk.
CompletedIsFrozen(q) == \A i \in Positions :
  item[q][i].status = "COMPLETED" => item[q][i].final /\ stored[q][i] = "READY"

\* A ready queue has a completed item, and admits to the skipped ones.
ReadyIsTruthful(q) == queue[q].status \in Ready =>
  /\ \E i \in InQueue(q) : item[q][i].status = "COMPLETED"
  /\ queue[q].status = "READY_WITH_SKIPS" <=>
       \E i \in InQueue(q) : item[q][i].status = "SKIPPED"

QueueInv(q) ==
  /\ IF Exists(q) THEN StatusOfItem(q) ELSE Unused(q)
  /\ Sequential(q)
  /\ LockOfItem(q)
  /\ CompletedIsFrozen(q)
  /\ ReadyIsTruthful(q)

\* A worker's transition belongs to the job at the head of the executor.
WorkerHasJob ==
  \A q \in Queues : txn[q].by = "worker" /\ txn[q].step # "free" => jobs # <<>> /\ Head(jobs).q = q

\* The queue about to be created does not exist.
CreatingIsNew == creating # NotCreating => creating.q \in Queues /\ creating.op \in Operations /\ ~Exists(creating.q)

IInv ==
  /\ TypeOK
  /\ \A q \in Queues : QueueInv(q)
  /\ WorkerHasJob
  /\ CreatingIsNew

-----------------------------------------------------------------------------
(* Types: first the initial state, then what a save, a replaced item and a *)
(* step of the lock do to the types, then one step per action.             *)

LEMMA InitTyped == Init => TypeOK
<1> SUFFICES ASSUME Init PROVE TypeOK
  OBVIOUS
<1> USE DEF QueueAssumption, Positions
<1>1. ASSUME NEW q \in Queues PROVE Len(Legacy[q]) \in 0..MaxItems
  <2>1. Legacy[q] \in Seq(Operations) /\ Len(Legacy[q]) <= MaxItems
    BY QueueAssumption
  <2>2. QED
    BY <2>1, QueueAssumption, LenProperties
<1>2. queue \in [Queues -> Queue]
  BY <1>1, QueueAssumption DEF Init, Queue, QueueStatus
<1>3. \A q \in Queues, i \in Positions :
        (IF i \in 1..Len(Legacy[q]) THEN Legacy[q][i] ELSE NoOp) \in Operations \cup {NoOp}
  BY <1>1, QueueAssumption
<1>4. item \in [Queues -> [Positions -> Item]]
  BY <1>3 DEF Init, Item, NewItem, ItemStatus, Stages
<1>5. /\ snap \in [Queues -> [Positions -> Snapshot]]
      /\ stored \in [Queues -> [Positions -> CaseSet]]
      /\ txn \in [Queues -> Txn]
  BY DEF Init, Snapshot, NoSnapshot, CaseSet, Txn, Free, Steps
<1>6. /\ handoff \subseteq Job /\ jobs \in Seq(Job)
      /\ creating \in [q : Queues \cup {"none"}, op : Operations \cup {NoOp}]
  BY DEF Init, NotCreating
<1>7. QED
  BY <1>2, <1>4, <1>5, <1>6 DEF TypeOK

LEMMA SavedTyped ==
  ASSUME queue \in [Queues -> Queue], NEW q \in Queues, NEW status \in QueueStatus,
         NEW i \in 1..(MaxItems + 1), Saved(q, status, i)
  PROVE  queue' \in [Queues -> Queue]
BY DEF Saved, Queue

LEMMA ReplacedTyped ==
  ASSUME item \in [Queues -> [Positions -> Item]], NEW q \in Queues, NEW i \in Positions,
         NEW it \in Item, Replaced(q, i, it)
  PROVE  item' \in [Queues -> [Positions -> Item]]
BY DEF Replaced

LEMMA SnapTyped ==
  ASSUME snap \in [Queues -> [Positions -> Snapshot]], NEW q \in Queues, NEW i \in Positions,
         NEW s \in Snapshot, snap' = [snap EXCEPT ![q][i] = s]
  PROVE  snap' \in [Queues -> [Positions -> Snapshot]]
OBVIOUS

LEMMA StoredTyped ==
  ASSUME stored \in [Queues -> [Positions -> CaseSet]], NEW q \in Queues, NEW i \in Positions,
         NEW c \in CaseSet, stored' = [stored EXCEPT ![q][i] = c]
  PROVE  stored' \in [Queues -> [Positions -> CaseSet]]
OBVIOUS

LEMMA TakeTyped ==
  ASSUME txn \in [Queues -> Txn], NEW q \in Queues, NEW step \in Steps,
         NEW by \in {"request", "worker"}, Take(q, step, by) \/ Proceed(q, step)
  PROVE  txn' \in [Queues -> Txn]
BY DEF Take, Proceed, Txn

LEMMA FinishTyped ==
  ASSUME IInv, NEW q \in Queues, NEW C, C \subseteq Job, ~At(q, "free"), Finish(q, C)
  PROVE  txn' \in [Queues -> Txn] /\ jobs' \in Seq(Job) /\ handoff' \subseteq Job
<1>1. txn[q].by = "worker" => jobs # <<>>
  BY DEF IInv, WorkerHasJob, At
<1>2. jobs' \in Seq(Job)
  BY <1>1, HeadTailProperties DEF Finish, IInv, TypeOK
<1>3. QED
  BY <1>2 DEF IInv, TypeOK, Finish, Txn, Free, Steps

LEMMA ContinueTyped ==
  ASSUME NEW q \in Queues, NEW kind \in {"continue_after_approval", "continue_after_skip"}
  PROVE  Continue(kind, q) \subseteq Job
BY DEF Continue, Job

\* Whoever holds a lock works on an item of the queue.
LEMMA CurrentTyped ==
  ASSUME IInv, NEW q \in Queues
  PROVE  /\ queue[q].index \in 1..(MaxItems + 1) /\ queue[q].size \in 0..MaxItems
         /\ HasCurrent(q) => queue[q].index \in Positions /\ Current(q) \in Item
         /\ ~At(q, "free") /\ ~At(q, "save_retry") => HasCurrent(q)
<1> USE DEF Positions
<1>1. queue[q].index \in 1..(MaxItems + 1) /\ queue[q].size \in 0..MaxItems
  BY DEF IInv, TypeOK, Queue
<1>2. ASSUME HasCurrent(q) PROVE queue[q].index \in Positions /\ Current(q) \in Item
  BY <1>1, <1>2, QueueAssumption DEF IInv, TypeOK, HasCurrent, Current, QueueAssumption
<1>3. ASSUME ~At(q, "free"), ~At(q, "save_retry") PROVE HasCurrent(q)
  BY <1>3 DEF IInv, TypeOK, Txn, Steps, QueueInv, LockOfItem, CurrentIs, At
<1>4. QED
  BY <1>1, <1>2, <1>3

\* Retry and its save work on an item of the queue too.
LEMMA RetryTyped ==
  ASSUME IInv, NEW q \in Queues,
         At(q, "save_retry") \/ RetryPosition(q) <= queue[q].size
  PROVE  RetryPosition(q) \in Positions /\ item[q][RetryPosition(q)] \in Item
<1>1. RetryPosition(q) \in Positions
  <2>1. CASE SkippedSingle(q)
    BY <2>1, QueueAssumption DEF RetryPosition, Positions, QueueAssumption
  <2>2. CASE ~SkippedSingle(q) /\ At(q, "save_retry")
    BY <2>2, CurrentTyped DEF IInv, QueueInv, LockOfItem, CurrentIs, At, RetryPosition
  <2>3. CASE ~SkippedSingle(q) /\ RetryPosition(q) <= queue[q].size
    BY <2>3, CurrentTyped DEF RetryPosition, HasCurrent
  <2>4. QED
    BY <2>1, <2>2, <2>3
<1>2. QED
  BY <1>1 DEF IInv, TypeOK

\* The records that saves put in place are well typed.
LEMMA RecordsTyped ==
  /\ \A op \in Operations \cup {NoOp} : NewItem(op) \in Item
  /\ \A it \in Item, status \in ItemStatus, stage \in Stages, w, f \in BOOLEAN :
       [it EXCEPT !.status = status, !.stage = stage, !.workflow = w, !.final = f] \in Item
  /\ \A status \in {"WAITING_REQUIREMENT_APPROVAL", "DESIGNING", "FAILED",
                     "FINAL_CASES_READY", "NEEDS_CLARIFICATION"}, a, b \in BOOLEAN :
       [status |-> status, artifacts |-> a, approved |-> b] \in Snapshot
BY DEF Item, NewItem, ItemStatus, Stages, Snapshot

LEMMA TypeStep ==
  ASSUME IInv, Next
  PROVE  TypeOK'
<1> USE DEF Positions
<1>t. TypeOK
  BY DEF IInv
<1>1. ASSUME NEW q \in Queues, NEW op \in Operations, CreateCheck(q, op) PROVE TypeOK'
  BY <1>1, <1>t DEF CreateCheck, TypeOK
<1>2. ASSUME NEW q \in Queues, CreateSave(q) PROVE TypeOK'
  <2>1. 1 \in Positions /\ 1 \in 1..(MaxItems + 1) /\ 1 \in 0..MaxItems /\ creating.op \in Operations \cup {NoOp}
    BY <1>t, QueueAssumption DEF QueueAssumption, TypeOK
  <2>2. item' \in [Queues -> [Positions -> Item]]
    BY <1>2, <1>t, <2>1, RecordsTyped DEF CreateSave, TypeOK
  <2>3. queue' \in [Queues -> Queue]
    BY <1>2, <1>t, <2>1 DEF CreateSave, TypeOK, Queue, QueueStatus
  <2>4. QED
    BY <1>2, <1>t, <2>2, <2>3 DEF CreateSave, TypeOK, NotCreating
<1>3. ASSUME NEW q \in Queues, Start(q) PROVE TypeOK'
  <2>1. queue[q].index \in Positions /\ queue[q].index \in 1..(MaxItems + 1) /\ Current(q) \in Item
    BY <1>3, CurrentTyped DEF Start
  <2>2. [NewItem(Current(q).op) EXCEPT !.status = "NLU_RUNNING"] \in Item
    BY <2>1 DEF Item, NewItem, ItemStatus, Stages
  <2>3. item' \in [Queues -> [Positions -> Item]]
    BY <1>3, <1>t, <2>1, <2>2, ReplacedTyped DEF Start, TypeOK
  <2>4. queue' \in [Queues -> Queue]
    <3>1. "RUNNING" \in QueueStatus
      BY DEF QueueStatus
    <3>2. QED
      BY <1>3, <1>t, <2>1, <3>1, SavedTyped DEF Start, TypeOK
  <2>5. txn' \in [Queues -> Txn]
    BY <1>3, <1>t, TakeTyped DEF Start, TypeOK, Steps
  <2>6. QED
    BY <1>3, <1>t, <2>3, <2>4, <2>5 DEF Start, TypeOK
<1>4. ASSUME NEW q \in Queues, NluSucceeds(q) PROVE TypeOK'
  <2>1. queue[q].index \in Positions
    BY <1>4, CurrentTyped DEF NluSucceeds, At
  <2>2. snap' \in [Queues -> [Positions -> Snapshot]]
    BY <1>4, <1>t, <2>1, RecordsTyped DEF NluSucceeds, TypeOK
  <2>3. txn' \in [Queues -> Txn]
    BY <1>4, <1>t DEF NluSucceeds, TypeOK, Proceed, Txn, Steps
  <2>4. QED
    BY <1>4, <1>t, <2>2, <2>3 DEF NluSucceeds, TypeOK
<1>5. ASSUME NEW q \in Queues, NluFails(q) PROVE TypeOK'
  <2>1. txn' \in [Queues -> Txn]
    BY <1>5, <1>t DEF NluFails, TypeOK, Proceed, Txn, Steps
  <2>2. QED
    BY <1>5, <1>t, <2>1 DEF NluFails, TypeOK
<1>6. ASSUME NEW q \in Queues, SaveWaiting(q) PROVE TypeOK'
  <2>1. queue[q].index \in Positions /\ queue[q].index \in 1..(MaxItems + 1) /\ Current(q) \in Item
    BY <1>6, CurrentTyped DEF SaveWaiting, At
  <2>2. [Current(q) EXCEPT !.status = "WAITING_REQUIREMENT_APPROVAL",
                                !.stage = "REQUIREMENT_APPROVAL", !.workflow = TRUE] \in Item /\ "WAITING_REQUIREMENT_APPROVAL" \in QueueStatus
    BY <2>1 DEF Item, ItemStatus, Stages, QueueStatus
  <2>3. item' \in [Queues -> [Positions -> Item]] /\ queue' \in [Queues -> Queue]
    BY <1>6, <1>t, <2>1, <2>2, ReplacedTyped, SavedTyped DEF SaveWaiting, TypeOK
  <2>4. txn' \in [Queues -> Txn] /\ jobs' \in Seq(Job) /\ handoff' \subseteq Job
    BY <1>6, FinishTyped DEF SaveWaiting, At
  <2>5. QED
    BY <1>6, <1>t, <2>3, <2>4 DEF SaveWaiting, TypeOK
<1>7. ASSUME NEW q \in Queues, SaveFailed(q) PROVE TypeOK'
  <2>1. queue[q].index \in Positions /\ queue[q].index \in 1..(MaxItems + 1) /\ Current(q) \in Item
    BY <1>7, CurrentTyped DEF SaveFailed, At
  <2>2. [Current(q) EXCEPT !.status = "FAILED"] \in Item /\ "FAILED" \in QueueStatus
    BY <2>1 DEF Item, ItemStatus, Stages, QueueStatus
  <2>3. item' \in [Queues -> [Positions -> Item]] /\ queue' \in [Queues -> Queue]
    BY <1>7, <1>t, <2>1, <2>2, ReplacedTyped, SavedTyped DEF SaveFailed, TypeOK
  <2>4. txn' \in [Queues -> Txn] /\ jobs' \in Seq(Job) /\ handoff' \subseteq Job
    BY <1>7, FinishTyped DEF SaveFailed, At
  <2>5. QED
    BY <1>7, <1>t, <2>3, <2>4 DEF SaveFailed, TypeOK
<1>8. ASSUME NEW q \in Queues, Approve(q) PROVE TypeOK'
  <2>1. queue[q].index \in Positions
    BY <1>8, CurrentTyped DEF Approve, CurrentIs
  <2>2. [snap[q][queue[q].index] EXCEPT !.status = "DESIGNING", !.approved = TRUE] \in Snapshot
    <3>1. snap[q][queue[q].index] \in Snapshot
      BY <1>t, <2>1, ZenonT(40) DEF TypeOK
    <3>2. QED
      BY <3>1 DEF Snapshot
  <2>3. snap' \in [Queues -> [Positions -> Snapshot]] /\ txn' \in [Queues -> Txn]
    BY <1>8, <1>t, <2>1, <2>2, TakeTyped DEF Approve, TypeOK, Steps
  <2>4. QED
    BY <1>8, <1>t, <2>3 DEF Approve, TypeOK
<1>9. ASSUME NEW q \in Queues, SaveApproved(q) PROVE TypeOK'
  <2>1. queue[q].index \in Positions /\ queue[q].index \in 1..(MaxItems + 1) /\ Current(q) \in Item
    BY <1>9, CurrentTyped DEF SaveApproved, At
  <2>2. [Current(q) EXCEPT !.status = "DESIGNING", !.stage = "DESIGNER"] \in Item /\ "RUNNING" \in QueueStatus
    BY <2>1 DEF Item, ItemStatus, Stages, QueueStatus
  <2>3. item' \in [Queues -> [Positions -> Item]] /\ queue' \in [Queues -> Queue]
    BY <1>9, <1>t, <2>1, <2>2, ReplacedTyped, SavedTyped DEF SaveApproved, TypeOK
  <2>4. txn' \in [Queues -> Txn] /\ jobs' \in Seq(Job) /\ handoff' \subseteq Job
    BY <1>9, FinishTyped, ContinueTyped DEF SaveApproved, At
  <2>5. QED
    BY <1>9, <1>t, <2>3, <2>4 DEF SaveApproved, TypeOK
<1>10. ASSUME NEW q \in Queues, Retry(q) PROVE TypeOK'
  <2>1. RetryPosition(q) \in Positions
    BY <1>10, RetryTyped DEF Retry
  <2>2. snap' \in [Queues -> [Positions -> Snapshot]]
    <3>1. snap[q][RetryPosition(q)] \in Snapshot
      BY <1>t, <2>1, ZenonT(40) DEF TypeOK
    <3>2. [snap[q][RetryPosition(q)] EXCEPT !.status = "DESIGNING"] \in Snapshot
      BY <3>1 DEF Snapshot
    <3>3. snap' = [snap EXCEPT ![q][RetryPosition(q)] =
                     [snap[q][RetryPosition(q)] EXCEPT !.status = "DESIGNING"]]
      BY <1>10, <1>t, <2>1 DEF Retry, TypeOK
    <3>4. QED
      BY <1>t, <2>1, <3>2, <3>3, SnapTyped DEF TypeOK
  <2>3. txn' \in [Queues -> Txn]
    BY <1>10, <1>t, TakeTyped DEF Retry, TypeOK, Steps
  <2>4. QED
    BY <1>10, <1>t, <2>2, <2>3 DEF Retry, TypeOK
<1>11. ASSUME NEW q \in Queues, SaveRetry(q) PROVE TypeOK'
  <2> DEFINE i == RetryPosition(q)
  <2>1. i \in Positions /\ i \in 1..(MaxItems + 1) /\ item[q][i] \in Item
    BY <1>11, RetryTyped, QueueAssumption DEF SaveRetry, QueueAssumption
  <2>2. [item[q][i] EXCEPT !.status = "DESIGNING", !.stage = "DESIGNER", !.final = FALSE] \in Item
    BY <2>1 DEF Item, ItemStatus, Stages
  <2>3. item' \in [Queues -> [Positions -> Item]]
    BY <1>11, <1>t, <2>1, <2>2, ReplacedTyped DEF SaveRetry, TypeOK
  <2>4. queue' \in [Queues -> Queue]
    <3>1. "RUNNING" \in QueueStatus
      BY DEF QueueStatus
    <3>2. QED
      BY <1>11, <1>t, <2>1, <3>1, SavedTyped DEF SaveRetry, TypeOK
  <2>5. txn' \in [Queues -> Txn] /\ jobs' \in Seq(Job) /\ handoff' \subseteq Job
    BY <1>11, FinishTyped, ContinueTyped DEF SaveRetry, At
  <2>6. QED
    BY <1>11, <1>t, <2>3, <2>4, <2>5 DEF SaveRetry, TypeOK
<1>12. ASSUME NEW job \in Job, Submit(job) PROVE TypeOK'
  <2>1. jobs' \in Seq(Job)
    BY <1>12, <1>t, AppendProperties DEF Submit, TypeOK
  <2>2. QED
    BY <1>12, <1>t, <2>1 DEF Submit, TypeOK
<1>13. ASSUME NEW q \in Queues, BeginDesign(q) PROVE TypeOK'
  <2>1. jobs' \in Seq(Job)
    <3>1. jobs # <<>> /\ jobs \in Seq(Job) /\ (jobs' = jobs \/ jobs' = Tail(jobs))
      BY <1>13, <1>t DEF BeginDesign, HeadIs, Reject, TypeOK
    <3>2. QED
      BY <3>1, HeadTailProperties
  <2>2. txn' \in [Queues -> Txn]
    <3>1. CASE Reject
      BY <3>1, <1>t DEF Reject, TypeOK
    <3>2. ASSUME NEW step \in {"run_design", "save_failed"}, Take(q, step, "worker")
          PROVE  txn' \in [Queues -> Txn]
      BY <3>2, <1>t, TakeTyped DEF Steps, TypeOK
    <3>3. QED
      BY <1>13, <3>1, <3>2 DEF BeginDesign
  <2>3. QED
    BY <1>13, <1>t, <2>1, <2>2 DEF BeginDesign, TypeOK
<1>14. ASSUME NEW q \in Queues, BeginNextNlu(q) PROVE TypeOK'
  <2>1. jobs' \in Seq(Job)
    <3>1. jobs # <<>> /\ jobs \in Seq(Job) /\ (jobs' = jobs \/ jobs' = Tail(jobs))
      BY <1>14, <1>t DEF BeginNextNlu, HeadIs, Reject, TypeOK
    <3>2. QED
      BY <3>1, HeadTailProperties
  <2>2. txn' \in [Queues -> Txn]
    <3>1. CASE Take(q, "run_nlu", "worker")
      BY <1>t, <3>1, TakeTyped DEF Steps, TypeOK
    <3>2. CASE UNCHANGED txn
      BY <1>t, <3>2 DEF TypeOK
    <3> QED BY <1>14, <3>1, <3>2 DEF BeginNextNlu, Reject
  <2>3. QED
    BY <1>14, <1>t, <2>1, <2>2 DEF BeginNextNlu, TypeOK
<1>15. ASSUME NEW q \in Queues, NEW verdict \in {"FINAL_CASES_READY", "NEEDS_CLARIFICATION"}, DesignCompletes(q, verdict) PROVE TypeOK'
  <2>1. queue[q].index \in Positions
    BY <1>15, CurrentTyped DEF DesignCompletes, At
  <2>2. snap' \in [Queues -> [Positions -> Snapshot]]
    <3>1. [status |-> verdict, artifacts |-> TRUE, approved |-> TRUE] \in Snapshot
      BY DEF Snapshot
    <3>2. QED
      BY <1>15, <1>t, <2>1, <3>1, SnapTyped DEF DesignCompletes, TypeOK
  <2>3. stored' \in [Queues -> [Positions -> CaseSet]]
    BY <1>15, <1>t, <2>1, StoredTyped DEF DesignCompletes, TypeOK, CaseSet
  <2>4. txn' \in [Queues -> Txn]
    BY <1>15, <1>t, TakeTyped DEF DesignCompletes, TypeOK, Steps, Proceed, Txn
  <2>5. QED
    BY <1>15, <1>t, <2>2, <2>3, <2>4 DEF DesignCompletes, TypeOK
<1>16. ASSUME NEW q \in Queues, DesignFails(q) PROVE TypeOK'
  <2>1. queue[q].index \in Positions
    BY <1>16, CurrentTyped DEF DesignFails, At
  <2>2. snap' \in [Queues -> [Positions -> Snapshot]]
    <3>1. [status |-> "FAILED", artifacts |-> TRUE, approved |-> TRUE] \in Snapshot
      BY DEF Snapshot
    <3>2. CASE snap' = [snap EXCEPT ![q][queue[q].index] =
                 [status |-> "FAILED", artifacts |-> TRUE, approved |-> TRUE]]
      BY <1>t, <2>1, <3>1, <3>2, SnapTyped DEF TypeOK
    <3>3. CASE UNCHANGED snap
      BY <1>t, <3>3 DEF TypeOK
    <3>4. QED
      BY <1>16, <3>2, <3>3 DEF DesignFails
  <2>3. txn' \in [Queues -> Txn]
    BY <1>16, <1>t DEF DesignFails, TypeOK, Steps, Proceed, Txn
  <2>4. QED
    BY <1>16, <1>t, <2>2, <2>3 DEF DesignFails, TypeOK
<1>17. ASSUME NEW q \in Queues, SaveFinalCases(q) PROVE TypeOK'
  <2>1. queue[q].index \in Positions
    BY <1>17, CurrentTyped DEF SaveFinalCases, At
  <2>2. stored' \in [Queues -> [Positions -> CaseSet]]
    BY <1>17, <1>t, <2>1 DEF SaveFinalCases, TypeOK, CaseSet
  <2>3. txn' \in [Queues -> Txn]
    BY <1>17, <1>t DEF SaveFinalCases, TypeOK, Steps, Proceed, Txn
  <2>4. QED
    BY <1>17, <1>t, <2>2, <2>3 DEF SaveFinalCases, TypeOK
<1>18. ASSUME NEW q \in Queues, SaveClarification(q) PROVE TypeOK'
  <2>1. queue[q].index \in Positions /\ queue[q].index \in 1..(MaxItems + 1) /\ Current(q) \in Item
    BY <1>18, CurrentTyped DEF SaveClarification, At
  <2>2. [Current(q) EXCEPT !.status = "FAILED", !.stage = "REVIEWER", !.final = TRUE] \in Item /\ "FAILED" \in QueueStatus
    BY <2>1 DEF Item, ItemStatus, Stages, QueueStatus
  <2>3. item' \in [Queues -> [Positions -> Item]] /\ queue' \in [Queues -> Queue]
    BY <1>18, <1>t, <2>1, <2>2, ReplacedTyped, SavedTyped DEF SaveClarification, TypeOK
  <2>4. txn' \in [Queues -> Txn] /\ jobs' \in Seq(Job) /\ handoff' \subseteq Job
    BY <1>18, FinishTyped DEF SaveClarification, At
  <2>5. QED
    BY <1>18, <1>t, <2>3, <2>4 DEF SaveClarification, TypeOK
<1>19. ASSUME NEW q \in Queues, CompleteLast(q) PROVE TypeOK'
  <2>0. queue[q].index \in Positions /\ Current(q) \in Item
    BY <1>19, CurrentTyped DEF CompleteLast, At
  <2>1. /\ queue[q].index \in Positions /\ queue[q].index + 1 \in 1..(MaxItems + 1)
       /\ CompletedItem(q) \in Item
    <3>1. queue[q].index + 1 \in 1..(MaxItems + 1)
      BY <2>0, QueueAssumption DEF QueueAssumption
    <3>2. CompletedItem(q) \in Item
      BY <2>0 DEF CompletedItem, Item, ItemStatus, Stages
    <3>3. QED
      BY <2>0, <3>1, <3>2
  <2>2. item' \in [Queues -> [Positions -> Item]]
    BY <1>19, <1>t, <2>1, ReplacedTyped DEF CompleteLast, TypeOK
  <2>3. queue' \in [Queues -> Queue]
    <3>1. (IF Others(q, "SKIPPED") THEN "READY_WITH_SKIPS" ELSE "READY_FOR_EXECUTION") \in QueueStatus
      BY DEF QueueStatus, Settled
    <3>2. QED
      BY <1>19, <1>t, <2>1, <3>1, SavedTyped DEF CompleteLast, TypeOK
  <2>4. txn' \in [Queues -> Txn] /\ jobs' \in Seq(Job) /\ handoff' \subseteq Job
    BY <1>19, FinishTyped DEF CompleteLast, At
  <2>5. QED
    BY <1>19, <1>t, <2>2, <2>3, <2>4 DEF CompleteLast, TypeOK
<1>20. ASSUME NEW q \in Queues, CompleteAndAdvance(q) PROVE TypeOK'
  <2> DEFINE i == queue[q].index
  <2>1. i \in Positions /\ i + 1 \in Positions /\ i + 1 \in 1..(MaxItems + 1)
    BY <1>20, CurrentTyped, QueueAssumption DEF CompleteAndAdvance, At, Skippable, CurrentIs, QueueAssumption
  <2>2. item' \in [Queues -> [Positions -> Item]]
    <3>1. item[q][i] \in Item /\ item[q][i + 1] \in Item
      BY <1>t, <2>1 DEF TypeOK
    <3>2. /\ CompletedItem(q) \in Item
          /\ [item[q][i + 1] EXCEPT !.status = "NLU_RUNNING", !.stage = "NLU"] \in Item
      BY <3>1 DEF CompletedItem, Current, Item, ItemStatus, Stages
    <3>3. item' = [item EXCEPT ![q][i] = CompletedItem(q),
                    ![q][i + 1] = [item[q][i + 1] EXCEPT !.status = "NLU_RUNNING", !.stage = "NLU"]]
      BY <1>20, <1>t, <2>1 DEF CompleteAndAdvance, TypeOK
    <3>4. QED
      BY <1>t, <2>1, <3>2, <3>3 DEF TypeOK
  <2>3. queue' \in [Queues -> Queue]
    <3>1. "RUNNING" \in QueueStatus
      BY DEF QueueStatus
    <3>2. QED
      BY <1>20, <1>t, <2>1, <3>1, SavedTyped DEF CompleteAndAdvance, TypeOK
  <2>4. txn' \in [Queues -> Txn]
    BY <1>20, <1>t DEF CompleteAndAdvance, TypeOK, Steps, Proceed, Txn
  <2>5. QED
    BY <1>20, <1>t, <2>2, <2>3, <2>4 DEF CompleteAndAdvance, TypeOK
<1>21. ASSUME NEW q \in Queues, SkipLast(q) PROVE TypeOK'
  <2>0. queue[q].index \in Positions /\ Current(q) \in Item
    BY <1>21, CurrentTyped DEF SkipLast, Skippable, CurrentIs
  <2>1. /\ queue[q].index \in Positions /\ queue[q].index + 1 \in 1..(MaxItems + 1)
       /\ [Current(q) EXCEPT !.status = "SKIPPED"] \in Item
    <3>1. queue[q].index + 1 \in 1..(MaxItems + 1)
      BY <2>0, QueueAssumption DEF QueueAssumption
    <3>2. [Current(q) EXCEPT !.status = "SKIPPED"] \in Item
      BY <2>0 DEF Item, ItemStatus, Stages
    <3>3. QED
      BY <2>0, <3>1, <3>2
  <2>2. item' \in [Queues -> [Positions -> Item]]
    BY <1>21, <1>t, <2>1, ReplacedTyped DEF SkipLast, TypeOK
  <2>3. queue' \in [Queues -> Queue]
    <3>1. (IF Others(q, "COMPLETED") THEN "READY_WITH_SKIPS" ELSE "SKIPPED") \in QueueStatus
      BY DEF QueueStatus, Settled
    <3>2. QED
      BY <1>21, <1>t, <2>1, <3>1, SavedTyped DEF SkipLast, TypeOK
  <2>4. QED
    BY <1>21, <1>t, <2>2, <2>3 DEF SkipLast, TypeOK
<1>22. ASSUME NEW q \in Queues, SkipAndAdvance(q) PROVE TypeOK'
  <2> DEFINE i == queue[q].index
  <2>1. i \in Positions /\ i + 1 \in Positions /\ i + 1 \in 1..(MaxItems + 1)
    BY <1>22, CurrentTyped, QueueAssumption DEF SkipAndAdvance, At, Skippable, CurrentIs, QueueAssumption
  <2>2. item' \in [Queues -> [Positions -> Item]]
    <3>1. item[q][i] \in Item /\ item[q][i + 1] \in Item
      BY <1>t, <2>1 DEF TypeOK
    <3>2. /\ [item[q][i] EXCEPT !.status = "SKIPPED"] \in Item
          /\ [NewItem(item[q][i + 1].op) EXCEPT !.status = "NLU_RUNNING"] \in Item
      BY <3>1 DEF NewItem, Item, ItemStatus, Stages
    <3>3. item' = [item EXCEPT ![q][i] = [item[q][i] EXCEPT !.status = "SKIPPED"],
                    ![q][i + 1] = [NewItem(item[q][i + 1].op) EXCEPT !.status = "NLU_RUNNING"]]
      BY <1>22, <1>t, <2>1 DEF SkipAndAdvance, TypeOK
    <3>4. QED
      BY <1>t, <2>1, <3>2, <3>3 DEF TypeOK
  <2>3. queue' \in [Queues -> Queue]
    <3>1. "RUNNING" \in QueueStatus
      BY DEF QueueStatus
    <3>2. QED
      BY <1>22, <1>t, <2>1, <3>1, SavedTyped DEF SkipAndAdvance, TypeOK
  <2>4. handoff' \subseteq Job
    BY <1>22, <1>t DEF SkipAndAdvance, TypeOK, Continue, Job
  <2>5. QED
    BY <1>22, <1>t, <2>2, <2>3, <2>4 DEF SkipAndAdvance, TypeOK
<1>23. ASSUME NEW q \in Queues, NEW i \in Positions, Reanalyse(q, i) PROVE TypeOK'
  <2>1. snap' \in [Queues -> [Positions -> Snapshot]]
    <3>1. PICK good \in BOOLEAN : snap' = [snap EXCEPT ![q][i] =
             [status |-> IF good THEN "WAITING_REQUIREMENT_APPROVAL" ELSE "FAILED",
              artifacts |-> good, approved |-> FALSE]]
      BY <1>23 DEF Reanalyse
    <3>2. [status |-> IF good THEN "WAITING_REQUIREMENT_APPROVAL" ELSE "FAILED",
           artifacts |-> good, approved |-> FALSE] \in Snapshot
      BY DEF Snapshot
    <3>3. QED
      BY <1>t, <3>1, <3>2, SnapTyped DEF TypeOK
  <2>2. QED
    BY <1>23, <1>t, <2>1 DEF Reanalyse, TypeOK
<1>24. ASSUME NEW q \in Queues, StopsHalfway(q) PROVE TypeOK'
  <2>1. txn' \in [Queues -> Txn] /\ jobs' \in Seq(Job) /\ handoff' \subseteq Job
    BY <1>24, FinishTyped DEF StopsHalfway, At
  <2>2. QED
    BY <1>24, <1>t, <2>1 DEF StopsHalfway, TypeOK
<1>25. ASSUME NEW q \in Queues, FinalCasesNotSaved(q) PROVE TypeOK'
  <2>1. txn' \in [Queues -> Txn]
    BY <1>25, <1>t DEF FinalCasesNotSaved, TypeOK, Steps, Proceed, Txn
  <2>2. QED
    BY <1>25, <1>t, <2>1 DEF FinalCasesNotSaved, TypeOK
<1>26. ASSUME CreateNotSaved PROVE TypeOK'
  BY <1>26, <1>t DEF CreateNotSaved, TypeOK, NotCreating
<1>27. ASSUME Restart PROVE TypeOK'
  <2>1. queue' \in [Queues -> Queue]
    BY <1>27, <1>t DEF Restart, TypeOK, Queue
  <2>2. txn' \in [Queues -> Txn] /\ jobs' \in Seq(Job)
    BY <1>27 DEF Restart, Txn, Steps, Free
  <2>3. QED
    BY <1>27, <1>t, <2>1, <2>2 DEF Restart, TypeOK, NotCreating
<1>28. QED
  BY <1>1, <1>2, <1>3, <1>4, <1>5, <1>6, <1>7, <1>8, <1>9, <1>10, <1>11, <1>12, <1>13, <1>14, <1>15, <1>16,
      <1>17, <1>18, <1>19, <1>20, <1>21, <1>22, <1>23, <1>24, <1>25, <1>26, <1>27 DEF Next, Request, Progress, Fault

-----------------------------------------------------------------------------
(* The other parts of the invariant.                                       *)

LEMMA InitInvariant == Init => IInv
<1> SUFFICES ASSUME Init PROVE IInv
  OBVIOUS
<1>1. TypeOK
  BY InitTyped
<1>2. ASSUME NEW q \in Queues PROVE QueueInv(q)
  <2>1. /\ queue[q].status = "PENDING" /\ queue[q].index = 1 /\ queue[q].size = Len(Legacy[q])
        /\ queue[q].session = (IF Legacy[q] = <<>> THEN "none" ELSE "earlier")
        /\ txn[q] = Free
        /\ \A i \in Positions : item[q][i].status = "PENDING"
    BY DEF Init, NewItem
  <2>2. IF Legacy[q] = <<>> THEN Len(Legacy[q]) = 0 ELSE Len(Legacy[q]) \in Nat /\ Len(Legacy[q]) >= 1
    BY QueueAssumption, LenProperties, EmptySeq DEF QueueAssumption
  <2>3. IF Exists(q) THEN StatusOfItem(q) ELSE Unused(q)
    <3>1. CASE Legacy[q] = <<>>
      BY <2>1, <2>2, <3>1 DEF Exists, Unused, Free
    <3>2. CASE Legacy[q] # <<>>
      <4>1. HasCurrent(q) /\ 1 \in Positions
        BY <2>1, <2>2, <3>2, QueueAssumption DEF HasCurrent, Positions, QueueAssumption
      <4>2. QED
        BY <2>1, <3>2, <4>1 DEF Exists, StatusOfItem, CurrentIs, Current, Settled
    <3>3. QED
      BY <3>1, <3>2
  <2>4. Sequential(q)
    BY <2>1 DEF Sequential, Positions
  <2>5. QED
    BY <2>1, <2>3, <2>4 DEF QueueInv, LockOfItem, Free, CompletedIsFrozen, ReadyIsTruthful, Ready
<1>3. QED
  BY <1>1, <1>2, QueueAssumption DEF IInv, WorkerHasJob, CreatingIsNew, Init, Free, NotCreating

\* A step touches one queue at most: the others keep what QueueInv is about.
OthersKept(q) == \A p \in Queues \ {q} :
  queue'[p] = queue[p] /\ item'[p] = item[p] /\ stored'[p] = stored[p] /\ txn'[p] = txn[p]

LEMMA KeptInvariant ==
  ASSUME NEW q \in Queues, QueueInv(q), queue'[q] = queue[q], item'[q] = item[q],
         stored'[q] = stored[q], txn'[q] = txn[q]
  PROVE  QueueInv(q)'
BY DEF QueueInv, Exists, StatusOfItem, Unused, Sequential, LockOfItem, CompletedIsFrozen,
       ReadyIsTruthful, CurrentIs, HasCurrent, Current, SkippedSingle, InQueue

LEMMA OneQueueStep ==
  ASSUME IInv, NEW q \in Queues, OthersKept(q), QueueInv(q)'
  PROVE  \A p \in Queues : QueueInv(p)'
BY KeptInvariant DEF IInv, OthersKept

\* Only the lock of q changes hands or moves on.
LEMMA LockStep ==
  ASSUME IInv, NEW q \in Queues, Exists(q), queue' = queue, item' = item, stored'[q] = stored[q],
         LockOfItem(q)'
  PROVE  QueueInv(q)'
<1>1. QueueInv(q)
  BY DEF IInv
<1>2. QED
  BY <1>1 DEF QueueInv, Exists, StatusOfItem, Sequential, CompletedIsFrozen, ReadyIsTruthful,
       CurrentIs, HasCurrent, Current, InQueue

\* Position i, which has its turn, becomes current with a status that the
\* queue's own status tells.
LEMMA ItemSaved ==
  ASSUME IInv, NEW q \in Queues, Exists(q),
         NEW i \in Positions, i <= queue[q].size,
         \A j \in Positions : /\ j < i => item[q][j].status \in {"COMPLETED", "SKIPPED"}
                              /\ j > i => item[q][j].status = "PENDING",
         NEW it, Replaced(q, i, it), NEW status, Saved(q, status, i),
         \/ status = "RUNNING" /\ it.status \in {"NLU_RUNNING", "DESIGNING"}
         \/ status \in {"FAILED", "WAITING_REQUIREMENT_APPROVAL"} /\ it.status = status,
         stored' = stored, LockOfItem(q)'
  PROVE  QueueInv(q)'
<1> USE DEF Positions
<1>1. /\ queue'[q] = [queue[q] EXCEPT !.status = status, !.index = i]
      /\ queue'[q].status = status /\ queue'[q].index = i /\ queue'[q].size = queue[q].size
      /\ queue'[q].session = queue[q].session
      /\ item'[q][i] = it
      /\ \A j \in Positions \ {i} : item'[q][j] = item[q][j]
  BY DEF Saved, Replaced, IInv, TypeOK, Queue
<1>2. StatusOfItem(q)' /\ Exists(q)'
  BY <1>1 DEF StatusOfItem, CurrentIs, HasCurrent, Current, Settled, Exists
<1>3. Sequential(q)'
  BY <1>1, CurrentTyped DEF Sequential
<1>4. CompletedIsFrozen(q)'
  BY <1>1 DEF IInv, QueueInv, CompletedIsFrozen
<1>5. ReadyIsTruthful(q)'
  BY <1>1 DEF ReadyIsTruthful, Ready
<1>6. QED
  BY <1>2, <1>3, <1>4, <1>5 DEF QueueInv

\* The turns of a queue, as ItemSaved asks for them.
LEMMA TurnOfCurrent ==
  ASSUME IInv, NEW q \in Queues, NEW j \in Positions
  PROVE  /\ j < queue[q].index => item[q][j].status \in {"COMPLETED", "SKIPPED"}
         /\ j > queue[q].index => item[q][j].status = "PENDING"
BY DEF IInv, QueueInv, Sequential

\* A queue whose lock is held, or that has a current item, exists.
LEMMA BusyExists ==
  ASSUME IInv, NEW q \in Queues, ~At(q, "free") \/ HasCurrent(q)
  PROVE  Exists(q)
BY DEF IInv, QueueInv, Unused, At, HasCurrent

LEMMA QueueStep ==
  ASSUME IInv, Next, TypeOK'
  PROVE  \A p \in Queues : QueueInv(p)'
<1> USE DEF Positions
<1>t. TypeOK
  BY DEF IInv
<1>k. ASSUME queue' = queue, item' = item, stored' = stored, txn' = txn PROVE \A p \in Queues : QueueInv(p)'
  BY <1>k, KeptInvariant DEF IInv
<1>1. ASSUME NEW q \in Queues, NEW op \in Operations, CreateCheck(q, op) PROVE \A p \in Queues : QueueInv(p)'
  BY <1>1, <1>k DEF CreateCheck
<1>2. ASSUME NEW q \in Queues, CreateSave(q) PROVE \A p \in Queues : QueueInv(p)'
  <2>1. /\ queue'[q] = [session |-> "current", status |-> "PENDING", index |-> 1, size |-> 1]
        /\ item'[q] = [item[q] EXCEPT ![1] = NewItem(creating.op)]
        /\ stored'[q] = stored[q] /\ txn'[q] = txn[q]
        /\ OthersKept(q) /\ 1 \in Positions
    BY <1>2, <1>t, QueueAssumption DEF CreateSave, TypeOK, OthersKept, QueueAssumption
  <2>2. ~Exists(q) /\ Unused(q) /\ QueueInv(q)
    BY <1>2, QueueAssumption DEF CreateSave, IInv, CreatingIsNew, NotCreating, QueueInv, QueueAssumption
  <2>3. \A i \in Positions : item'[q][i].status = "PENDING"
    BY <1>t, <2>1, <2>2 DEF QueueInv, Sequential, Unused, NewItem, TypeOK
  <2>4. StatusOfItem(q)' /\ Exists(q)'
    BY <2>1, <2>3 DEF StatusOfItem, CurrentIs, Current, HasCurrent, Settled, Exists
  <2>5. Sequential(q)'
    BY <2>1, <2>3 DEF Sequential
  <2>6. LockOfItem(q)'
    BY <2>1, <2>2 DEF LockOfItem, Unused
  <2>7. CompletedIsFrozen(q)' /\ ReadyIsTruthful(q)'
    BY <2>1, <2>3 DEF CompletedIsFrozen, ReadyIsTruthful, Ready
  <2>8. QED
    BY <2>1, <2>4, <2>5, <2>6, <2>7, OneQueueStep DEF QueueInv
<1>3. ASSUME NEW q \in Queues, Start(q) PROVE \A p \in Queues : QueueInv(p)'
  <2>1. CurrentIs(q, queue[q].status) /\ queue[q].index \in Positions /\ queue[q].index <= queue[q].size
    BY <1>3, CurrentTyped DEF Start, IInv, QueueInv, StatusOfItem, HasCurrent
  <2>2. /\ Replaced(q, queue[q].index, [NewItem(Current(q).op) EXCEPT !.status = "NLU_RUNNING"])
        /\ Saved(q, "RUNNING", queue[q].index)
    BY <1>3, <2>1 DEF Start, CurrentIs
  <2>3. OthersKept(q)
    BY <1>3, <1>t, <2>2 DEF Start, OthersKept, TypeOK, Saved, Replaced, Take
  <2>4. LockOfItem(q)'
    <3>1. txn'[q].step = "run_nlu"
      BY <1>3, <1>t DEF Start, Take, TypeOK
    <3>2. CurrentIs(q, "NLU_RUNNING")'
      BY <1>t, <2>1, <2>2 DEF Saved, Replaced, CurrentIs, Current, HasCurrent, TypeOK, Queue, NewItem
    <3>3. QED
      BY <3>1, <3>2 DEF LockOfItem
  <2>5. [NewItem(Current(q).op) EXCEPT !.status = "NLU_RUNNING"].status = "NLU_RUNNING"
    BY DEF NewItem
  <2>6. QED
    BY <1>3, <2>1, <2>2, <2>3, <2>4, <2>5, ItemSaved, OneQueueStep, TurnOfCurrent DEF Start
<1>4. ASSUME NEW q \in Queues, NluSucceeds(q) PROVE \A p \in Queues : QueueInv(p)'
  <2>1. OthersKept(q)
    BY <1>4, <1>t DEF NluSucceeds, OthersKept, TypeOK, Proceed
  <2>2. Exists(q)
    BY <1>4, BusyExists DEF NluSucceeds, At
  <2>3. LockOfItem(q)'
    BY <1>4, <1>t DEF NluSucceeds, Proceed, At, IInv, QueueInv, LockOfItem, CurrentIs, HasCurrent, Current, SkippedSingle, TypeOK
  <2>4. QED
    BY <1>4, <2>1, <2>2, <2>3, LockStep, OneQueueStep DEF NluSucceeds
<1>5. ASSUME NEW q \in Queues, NluFails(q) PROVE \A p \in Queues : QueueInv(p)'
  <2>1. OthersKept(q)
    BY <1>5, <1>t DEF NluFails, OthersKept, TypeOK, Proceed
  <2>2. Exists(q)
    BY <1>5, BusyExists DEF NluFails, At
  <2>3. LockOfItem(q)'
    BY <1>5, <1>t DEF NluFails, Proceed, At, IInv, QueueInv, LockOfItem, CurrentIs, HasCurrent, Current, SkippedSingle, TypeOK
  <2>4. QED
    BY <1>5, <2>1, <2>2, <2>3, LockStep, OneQueueStep DEF NluFails
<1>6. ASSUME NEW q \in Queues, SaveWaiting(q) PROVE \A p \in Queues : QueueInv(p)'
  <2>1. HasCurrent(q) /\ queue[q].index \in Positions /\ Current(q) \in Item /\ Exists(q)
    BY <1>6, CurrentTyped, BusyExists DEF SaveWaiting, At
  <2>2. [Current(q) EXCEPT !.status = "WAITING_REQUIREMENT_APPROVAL",
                          !.stage = "REQUIREMENT_APPROVAL", !.workflow = TRUE].status = "WAITING_REQUIREMENT_APPROVAL"
    BY <2>1 DEF Item
  <2>3. OthersKept(q)
    BY <1>6, <1>t DEF SaveWaiting, OthersKept, TypeOK, Saved, Replaced, Finish
  <2>4. LockOfItem(q)'
    BY <1>6, <1>t DEF SaveWaiting, Finish, Free, LockOfItem, TypeOK
  <2>5. QED
    BY <1>6, <2>1, <2>2, <2>3, <2>4, ItemSaved, OneQueueStep, TurnOfCurrent DEF SaveWaiting, HasCurrent
<1>7. ASSUME NEW q \in Queues, SaveFailed(q) PROVE \A p \in Queues : QueueInv(p)'
  <2>1. HasCurrent(q) /\ queue[q].index \in Positions /\ Current(q) \in Item /\ Exists(q)
    BY <1>7, CurrentTyped, BusyExists DEF SaveFailed, At
  <2>2. [Current(q) EXCEPT !.status = "FAILED"].status = "FAILED"
    BY <2>1 DEF Item
  <2>3. OthersKept(q)
    BY <1>7, <1>t DEF SaveFailed, OthersKept, TypeOK, Saved, Replaced, Finish
  <2>4. LockOfItem(q)'
    BY <1>7, <1>t DEF SaveFailed, Finish, Free, LockOfItem, TypeOK
  <2>5. QED
    BY <1>7, <2>1, <2>2, <2>3, <2>4, ItemSaved, OneQueueStep, TurnOfCurrent DEF SaveFailed, HasCurrent
<1>8. ASSUME NEW q \in Queues, Approve(q) PROVE \A p \in Queues : QueueInv(p)'
  <2>1. OthersKept(q)
    BY <1>8, <1>t DEF Approve, OthersKept, TypeOK, Take
  <2>2. Exists(q)
    BY <1>8, BusyExists DEF Approve, CurrentIs
  <2>3. LockOfItem(q)'
    BY <1>8, <1>t DEF Approve, Take, At, IInv, QueueInv, LockOfItem, CurrentIs, HasCurrent, Current, SkippedSingle, TypeOK
  <2>4. QED
    BY <1>8, <2>1, <2>2, <2>3, LockStep, OneQueueStep DEF Approve
<1>9. ASSUME NEW q \in Queues, SaveApproved(q) PROVE \A p \in Queues : QueueInv(p)'
  <2>1. HasCurrent(q) /\ queue[q].index \in Positions /\ Current(q) \in Item /\ Exists(q)
    BY <1>9, CurrentTyped, BusyExists DEF SaveApproved, At
  <2>2. [Current(q) EXCEPT !.status = "DESIGNING", !.stage = "DESIGNER"].status = "DESIGNING"
    BY <2>1 DEF Item
  <2>3. OthersKept(q)
    BY <1>9, <1>t DEF SaveApproved, OthersKept, TypeOK, Saved, Replaced, Finish
  <2>4. LockOfItem(q)'
    BY <1>9, <1>t DEF SaveApproved, Finish, Free, LockOfItem, TypeOK
  <2>5. QED
    BY <1>9, <2>1, <2>2, <2>3, <2>4, ItemSaved, OneQueueStep, TurnOfCurrent DEF SaveApproved, HasCurrent
<1>10. ASSUME NEW q \in Queues, Retry(q) PROVE \A p \in Queues : QueueInv(p)'
  <2>1. OthersKept(q)
    BY <1>10, <1>t DEF Retry, OthersKept, TypeOK, Take
  <2>2. txn'[q].step = "save_retry"
    BY <1>10, <1>t DEF Retry, Take, TypeOK
  <2>3. LockOfItem(q)'
    <3>1. CASE SkippedSingle(q)
      BY <1>10, <2>2, <3>1 DEF Retry, RetryPosition, RetryStatus, SkippedSingle, LockOfItem
    <3>2. CASE ~SkippedSingle(q)
      <4>1. queue[q].status = "FAILED"
        BY <1>10, <3>2, CurrentTyped DEF Retry, RetryPosition, IInv, QueueInv, StatusOfItem, Settled
      <4>2. CurrentIs(q, "FAILED")
        BY <1>10, <3>2, <4>1 DEF Retry, RetryPosition, RetryStatus, CurrentIs, Current, HasCurrent
      <4>3. QED
        BY <1>10, <2>2, <4>2 DEF Retry, LockOfItem, CurrentIs, Current, HasCurrent
    <3>3. QED
      BY <3>1, <3>2
  <2>4. QED
    BY <1>10, <2>1, <2>3, LockStep, OneQueueStep DEF Retry
<1>11. ASSUME NEW q \in Queues, SaveRetry(q) PROVE \A p \in Queues : QueueInv(p)'
  <2> DEFINE i == RetryPosition(q)
             it == [item[q][i] EXCEPT !.status = "DESIGNING", !.stage = "DESIGNER", !.final = FALSE]
  <2>1. i \in Positions /\ item[q][i] \in Item /\ Exists(q)
    BY <1>11, RetryTyped, BusyExists DEF SaveRetry, At
  <2>2. it.status = "DESIGNING"
    BY <2>1 DEF Item
  <2>3. OthersKept(q)
    BY <1>11, <1>t DEF SaveRetry, OthersKept, TypeOK, Saved, Replaced, Finish
  <2>4. LockOfItem(q)'
    BY <1>11, <1>t DEF SaveRetry, Finish, Free, LockOfItem, TypeOK
  <2>5. i <= queue[q].size
    BY <1>11 DEF SaveRetry, At, IInv, QueueInv, LockOfItem, RetryPosition, SkippedSingle, CurrentIs, HasCurrent
  <2>6. \A j \in Positions : /\ j < i => item[q][j].status \in {"COMPLETED", "SKIPPED"}
                             /\ j > i => item[q][j].status = "PENDING"
    <3>1. CASE SkippedSingle(q)
      BY <3>1 DEF RetryPosition, SkippedSingle, IInv, QueueInv, Sequential
    <3>2. CASE ~SkippedSingle(q)
      BY <3>2, TurnOfCurrent DEF RetryPosition
    <3>3. QED
      BY <3>1, <3>2
  <2>7. QueueInv(q)'
    <3> HIDE DEF i, it
    <3>1. Replaced(q, i, it) /\ Saved(q, "RUNNING", i) /\ stored' = stored
      BY <1>11 DEF SaveRetry, i, it
    <3>2. QED
      BY <2>1, <2>2, <2>4, <2>5, <2>6, <3>1, ItemSaved
  <2>8. QED
    BY <2>3, <2>7, OneQueueStep
<1>12. ASSUME NEW job \in Job, Submit(job) PROVE \A p \in Queues : QueueInv(p)'
  BY <1>12, <1>k DEF Submit
<1>13. ASSUME NEW q \in Queues, BeginDesign(q) PROVE \A p \in Queues : QueueInv(p)'
  <2>1. CASE Reject
    BY <1>13, <1>k, <2>1 DEF BeginDesign, Reject
  <2>2. CASE ~Reject
    <3>1. OthersKept(q)
      BY <1>13, <1>t, <2>2 DEF BeginDesign, OthersKept, TypeOK, Take
    <3>2. Exists(q)
      BY <1>13, <2>2, BusyExists DEF BeginDesign, CurrentIs
    <3>3. LockOfItem(q)'
      BY <1>13, <1>t, <2>2 DEF BeginDesign, Take, LockOfItem, CurrentIs, HasCurrent, Current, TypeOK
    <3>4. QED
      BY <1>13, <3>1, <3>2, <3>3, LockStep, OneQueueStep DEF BeginDesign
  <2>3. QED
    BY <2>1, <2>2
<1>14. ASSUME NEW q \in Queues, BeginNextNlu(q) PROVE \A p \in Queues : QueueInv(p)'
  <2>1. CASE Reject
    BY <1>14, <1>k, <2>1 DEF BeginNextNlu, Reject
  <2>2. CASE ~Reject
    <3>1. OthersKept(q)
      BY <1>14, <1>t, <2>2 DEF BeginNextNlu, OthersKept, TypeOK, Take
    <3>2. Exists(q)
      BY <1>14, <2>2, BusyExists DEF BeginNextNlu, CurrentIs
    <3>3. LockOfItem(q)'
      BY <1>14, <1>t, <2>2 DEF BeginNextNlu, Take, LockOfItem, CurrentIs, HasCurrent, Current, TypeOK
    <3>4. QED
      BY <1>14, <3>1, <3>2, <3>3, LockStep, OneQueueStep DEF BeginNextNlu
  <2>3. QED
    BY <2>1, <2>2
<1>15. ASSUME NEW q \in Queues, NEW verdict \in {"FINAL_CASES_READY", "NEEDS_CLARIFICATION"}, DesignCompletes(q, verdict) PROVE \A p \in Queues : QueueInv(p)'
  <2>1. HasCurrent(q) /\ queue[q].index \in Positions /\ Exists(q) /\ CurrentIs(q, "DESIGNING") /\ QueueInv(q)
    BY <1>15, CurrentTyped, BusyExists DEF DesignCompletes, At, IInv, QueueInv, LockOfItem
  <2>2. OthersKept(q) /\ \A j \in Positions \ {queue[q].index} : stored'[q][j] = stored[q][j]
    BY <1>15, <1>t, <2>1 DEF DesignCompletes, OthersKept, TypeOK, Proceed
  <2>3. LockOfItem(q)'
    BY <1>15, <1>t, <2>1 DEF DesignCompletes, Proceed, LockOfItem, CurrentIs, HasCurrent, Current, TypeOK
  <2>4. CompletedIsFrozen(q)'
    BY <1>15, <2>1, <2>2 DEF DesignCompletes, QueueInv, CompletedIsFrozen, CurrentIs, Current
  <2>5. QED
    BY <1>15, <2>1, <2>2, <2>3, <2>4, OneQueueStep DEF DesignCompletes, QueueInv, Exists, StatusOfItem, Sequential,
         ReadyIsTruthful, CurrentIs, HasCurrent, Current, InQueue
<1>16. ASSUME NEW q \in Queues, DesignFails(q) PROVE \A p \in Queues : QueueInv(p)'
  <2>1. OthersKept(q)
    BY <1>16, <1>t DEF DesignFails, OthersKept, TypeOK, Proceed
  <2>2. Exists(q)
    BY <1>16, BusyExists DEF DesignFails, At
  <2>3. LockOfItem(q)'
    BY <1>16, <1>t DEF DesignFails, Proceed, At, IInv, QueueInv, LockOfItem, CurrentIs, HasCurrent, Current, SkippedSingle, TypeOK
  <2>4. QED
    BY <1>16, <2>1, <2>2, <2>3, LockStep, OneQueueStep DEF DesignFails
<1>17. ASSUME NEW q \in Queues, SaveFinalCases(q) PROVE \A p \in Queues : QueueInv(p)'
  <2>1. HasCurrent(q) /\ queue[q].index \in Positions /\ Exists(q) /\ CurrentIs(q, "DESIGNING") /\ QueueInv(q)
    BY <1>17, CurrentTyped, BusyExists DEF SaveFinalCases, At, IInv, QueueInv, LockOfItem
  <2>2. OthersKept(q) /\ \A j \in Positions \ {queue[q].index} : stored'[q][j] = stored[q][j]
    BY <1>17, <1>t, <2>1 DEF SaveFinalCases, OthersKept, TypeOK, Proceed
  <2>3. LockOfItem(q)'
    BY <1>17, <1>t, <2>1 DEF SaveFinalCases, Proceed, LockOfItem, CurrentIs, HasCurrent, Current, TypeOK
  <2>4. CompletedIsFrozen(q)'
    BY <1>17, <2>1, <2>2 DEF SaveFinalCases, QueueInv, CompletedIsFrozen, CurrentIs, Current
  <2>5. QED
    BY <1>17, <2>1, <2>2, <2>3, <2>4, OneQueueStep DEF SaveFinalCases, QueueInv, Exists, StatusOfItem, Sequential,
         ReadyIsTruthful, CurrentIs, HasCurrent, Current, InQueue
<1>18. ASSUME NEW q \in Queues, SaveClarification(q) PROVE \A p \in Queues : QueueInv(p)'
  <2>1. HasCurrent(q) /\ queue[q].index \in Positions /\ Current(q) \in Item /\ Exists(q)
    BY <1>18, CurrentTyped, BusyExists DEF SaveClarification, At
  <2>2. [Current(q) EXCEPT !.status = "FAILED", !.stage = "REVIEWER", !.final = TRUE].status = "FAILED"
    BY <2>1 DEF Item
  <2>3. OthersKept(q)
    BY <1>18, <1>t DEF SaveClarification, OthersKept, TypeOK, Saved, Replaced, Finish
  <2>4. LockOfItem(q)'
    BY <1>18, <1>t DEF SaveClarification, Finish, Free, LockOfItem, TypeOK
  <2>5. QED
    BY <1>18, <2>1, <2>2, <2>3, <2>4, ItemSaved, OneQueueStep, TurnOfCurrent DEF SaveClarification, HasCurrent
<1>19. ASSUME NEW q \in Queues, CompleteLast(q) PROVE \A p \in Queues : QueueInv(p)'
  <2> DEFINE i == queue[q].index
  <2>1. HasCurrent(q) /\ i \in Positions /\ Current(q) \in Item /\ Exists(q) /\ QueueInv(q)
    BY <1>19, CurrentTyped, BusyExists DEF CompleteLast, At, At, IInv
  <2>2. queue[q].size \in 0..MaxItems /\ MaxItems \in Nat
    BY CurrentTyped, QueueAssumption DEF QueueAssumption
  <2>3. /\ queue'[q].status = IF Others(q, "SKIPPED") THEN "READY_WITH_SKIPS" ELSE "READY_FOR_EXECUTION"
        /\ queue'[q].index = i + 1 /\ queue'[q].size = queue[q].size /\ i = queue[q].size
        /\ queue'[q].session = queue[q].session
        /\ item'[q][i].status = "COMPLETED" /\ item'[q][i].final = TRUE
        /\ \A j \in Positions \ {i} : item'[q][j] = item[q][j]
        /\ stored'[q] = stored[q] /\ txn'[q].step = "free"
    BY <1>19, <1>t, <2>1 DEF CompleteLast, At, Saved, Replaced, Finish, Free, CompletedItem, Item, TypeOK, Queue
  <2>4. OthersKept(q)
    BY <1>19, <1>t DEF CompleteLast, OthersKept, TypeOK, Saved, Replaced, Finish
  <2>5. StatusOfItem(q)' /\ Exists(q)'
    BY <2>1, <2>3 DEF StatusOfItem, Settled, Exists
  <2>6. Sequential(q)'
    BY <2>2, <2>1, <2>3 DEF QueueInv, Sequential
  <2>7. LockOfItem(q)'
    BY <2>3 DEF LockOfItem
  <2>8. CompletedIsFrozen(q)'
    BY <1>19, <2>1, <2>3 DEF CompleteLast, QueueInv, CompletedIsFrozen, HasCurrent
  <2>9. ReadyIsTruthful(q)'
    <3>1. InQueue(q)' = InQueue(q) /\ InQueue(q) \subseteq Positions /\ i \in InQueue(q)
      BY <2>2, <2>1, <2>3 DEF InQueue
    <3>2. \A j \in InQueue(q) \ {i} : item[q][j].status \in {"COMPLETED", "SKIPPED"}
      BY <2>2, <2>1, <2>3, <3>1, TurnOfCurrent DEF InQueue
    <3>3. QED
      BY <2>3, <3>1, <3>2 DEF ReadyIsTruthful, Ready, Others
  <2>10. QED
    BY <2>4, <2>5, <2>6, <2>7, <2>8, <2>9, OneQueueStep DEF QueueInv
<1>20. ASSUME NEW q \in Queues, CompleteAndAdvance(q) PROVE \A p \in Queues : QueueInv(p)'
  <2> DEFINE i == queue[q].index
  <2>1. /\ HasCurrent(q) /\ i \in Positions /\ i + 1 \in Positions /\ i < queue[q].size
        /\ Current(q) \in Item /\ item[q][i + 1] \in Item /\ Exists(q) /\ QueueInv(q)
    BY <1>20, <1>t, CurrentTyped, BusyExists DEF CompleteAndAdvance, CompletedItem, At, IInv, TypeOK
  <2>1a. queue[q].size \in 0..MaxItems /\ MaxItems \in Nat
    BY CurrentTyped, QueueAssumption DEF QueueAssumption
  <2>2. /\ queue'[q].status = "RUNNING" /\ queue'[q].index = i + 1 /\ queue'[q].size = queue[q].size
        /\ queue'[q].session = queue[q].session
        /\ item'[q][i].status = "COMPLETED" /\ item'[q][i].final = TRUE
        /\ item'[q][i + 1].status = "NLU_RUNNING"
        /\ \A j \in Positions \ {i, i + 1} : item'[q][j] = item[q][j]
        /\ stored'[q] = stored[q] /\ txn'[q].step = "run_nlu"
    BY <1>20, <1>t, <2>1 DEF CompleteAndAdvance, CompletedItem, Saved, TypeOK, Queue, CompletedItem, Proceed, Item
  <2>3. OthersKept(q)
    BY <1>20, <1>t DEF CompleteAndAdvance, OthersKept, TypeOK, Saved, Proceed
  <2>4. StatusOfItem(q)' /\ Exists(q)' /\ LockOfItem(q)'
    BY <2>1a, <2>1, <2>2 DEF StatusOfItem, Settled, Exists, CurrentIs, Current, HasCurrent, LockOfItem
  <2>5. Sequential(q)'
    BY <2>1a, <2>1, <2>2 DEF QueueInv, Sequential
  <2>6. CompletedIsFrozen(q)' /\ ReadyIsTruthful(q)'
    <3>1. ReadyIsTruthful(q)'
      BY <2>2 DEF ReadyIsTruthful, Ready
    <3>2. stored[q][i] = "READY"
      BY <1>20, <2>2 DEF CompleteAndAdvance
    <3>3. CompletedIsFrozen(q)'
      BY <2>1, <2>2, <3>2 DEF QueueInv, CompletedIsFrozen
    <3>4. QED
      BY <3>1, <3>3
  <2>7. QED
    BY <2>3, <2>4, <2>5, <2>6, OneQueueStep DEF QueueInv
<1>21. ASSUME NEW q \in Queues, SkipLast(q) PROVE \A p \in Queues : QueueInv(p)'
  <2> DEFINE i == queue[q].index
  <2>1. HasCurrent(q) /\ i \in Positions /\ Current(q) \in Item /\ Exists(q) /\ QueueInv(q)
    BY <1>21, CurrentTyped, BusyExists DEF SkipLast, Skippable, CurrentIs, At, IInv
  <2>2. queue[q].size \in 0..MaxItems /\ MaxItems \in Nat
    BY CurrentTyped, QueueAssumption DEF QueueAssumption
  <2>3. /\ queue'[q].status = IF Others(q, "COMPLETED") THEN "READY_WITH_SKIPS" ELSE "SKIPPED"
        /\ queue'[q].index = i + 1 /\ queue'[q].size = queue[q].size /\ i = queue[q].size
        /\ queue'[q].session = queue[q].session
        /\ item'[q][i].status = "SKIPPED"
        /\ \A j \in Positions \ {i} : item'[q][j] = item[q][j]
        /\ stored'[q] = stored[q] /\ txn'[q].step = "free"
    BY <1>21, <1>t, <2>1 DEF SkipLast, Skippable, CurrentIs, Saved, Replaced, At, Item, TypeOK, Queue
  <2>4. OthersKept(q)
    BY <1>21, <1>t DEF SkipLast, OthersKept, TypeOK, Saved, Replaced
  <2>5. StatusOfItem(q)' /\ Exists(q)'
    BY <2>1, <2>3 DEF StatusOfItem, Settled, Exists
  <2>6. Sequential(q)'
    BY <2>2, <2>1, <2>3 DEF QueueInv, Sequential
  <2>7. LockOfItem(q)'
    BY <2>3 DEF LockOfItem
  <2>8. CompletedIsFrozen(q)'
    BY <1>21, <2>1, <2>3 DEF SkipLast, QueueInv, CompletedIsFrozen, HasCurrent
  <2>9. ReadyIsTruthful(q)'
    <3>1. InQueue(q)' = InQueue(q) /\ InQueue(q) \subseteq Positions /\ i \in InQueue(q)
      BY <2>2, <2>1, <2>3 DEF InQueue
    <3>2. \A j \in InQueue(q) \ {i} : item[q][j].status \in {"COMPLETED", "SKIPPED"}
      BY <2>2, <2>1, <2>3, <3>1, TurnOfCurrent DEF InQueue
    <3>3. QED
      BY <2>3, <3>1, <3>2 DEF ReadyIsTruthful, Ready, Others
  <2>10. QED
    BY <2>4, <2>5, <2>6, <2>7, <2>8, <2>9, OneQueueStep DEF QueueInv
<1>22. ASSUME NEW q \in Queues, SkipAndAdvance(q) PROVE \A p \in Queues : QueueInv(p)'
  <2> DEFINE i == queue[q].index
  <2>1. /\ HasCurrent(q) /\ i \in Positions /\ i + 1 \in Positions /\ i < queue[q].size
        /\ Current(q) \in Item /\ item[q][i + 1] \in Item /\ Exists(q) /\ QueueInv(q)
    BY <1>22, <1>t, CurrentTyped, BusyExists DEF SkipAndAdvance, Skippable, CurrentIs, At, IInv, TypeOK
  <2>1a. queue[q].size \in 0..MaxItems /\ MaxItems \in Nat
    BY CurrentTyped, QueueAssumption DEF QueueAssumption
  <2>2. /\ queue'[q].status = "RUNNING" /\ queue'[q].index = i + 1 /\ queue'[q].size = queue[q].size
        /\ queue'[q].session = queue[q].session
        /\ item'[q][i].status = "SKIPPED"
        /\ item'[q][i + 1].status = "NLU_RUNNING"
        /\ \A j \in Positions \ {i, i + 1} : item'[q][j] = item[q][j]
        /\ stored'[q] = stored[q] /\ txn'[q].step = "free"
    BY <1>22, <1>t, <2>1 DEF SkipAndAdvance, Skippable, CurrentIs, Saved, TypeOK, Queue, NewItem, At, Item
  <2>3. OthersKept(q)
    BY <1>22, <1>t DEF SkipAndAdvance, OthersKept, TypeOK, Saved
  <2>4. StatusOfItem(q)' /\ Exists(q)' /\ LockOfItem(q)'
    BY <2>1a, <2>1, <2>2 DEF StatusOfItem, Settled, Exists, CurrentIs, Current, HasCurrent, LockOfItem
  <2>5. Sequential(q)'
    BY <2>1a, <2>1, <2>2 DEF QueueInv, Sequential
  <2>6. CompletedIsFrozen(q)' /\ ReadyIsTruthful(q)'
    <3>1. ReadyIsTruthful(q)'
      BY <2>2 DEF ReadyIsTruthful, Ready
    <3>2. item'[q][i].status = "SKIPPED"
      BY <1>22, <2>2 DEF SkipAndAdvance
    <3>3. CompletedIsFrozen(q)'
      BY <2>1, <2>2, <3>2 DEF QueueInv, CompletedIsFrozen
    <3>4. QED
      BY <3>1, <3>3
  <2>7. QED
    BY <2>3, <2>4, <2>5, <2>6, OneQueueStep DEF QueueInv
<1>23. ASSUME NEW q \in Queues, NEW i \in Positions, Reanalyse(q, i) PROVE \A p \in Queues : QueueInv(p)'
  BY <1>23, <1>k DEF Reanalyse
<1>24. ASSUME NEW q \in Queues, StopsHalfway(q) PROVE \A p \in Queues : QueueInv(p)'
  <2>1. OthersKept(q)
    BY <1>24, <1>t DEF StopsHalfway, OthersKept, TypeOK, Finish
  <2>2. Exists(q)
    BY <1>24, BusyExists DEF StopsHalfway, At
  <2>3. LockOfItem(q)'
    BY <1>24, <1>t DEF StopsHalfway, Finish, Free, LockOfItem, TypeOK
  <2>4. QED
    BY <1>24, <2>1, <2>2, <2>3, LockStep, OneQueueStep DEF StopsHalfway
<1>25. ASSUME NEW q \in Queues, FinalCasesNotSaved(q) PROVE \A p \in Queues : QueueInv(p)'
  <2>1. OthersKept(q)
    BY <1>25, <1>t DEF FinalCasesNotSaved, OthersKept, TypeOK, Proceed
  <2>2. Exists(q)
    BY <1>25, BusyExists DEF FinalCasesNotSaved, At
  <2>3. LockOfItem(q)'
    BY <1>25, <1>t DEF FinalCasesNotSaved, Proceed, At, IInv, QueueInv, LockOfItem, CurrentIs, HasCurrent, Current, SkippedSingle, TypeOK
  <2>4. QED
    BY <1>25, <2>1, <2>2, <2>3, LockStep, OneQueueStep DEF FinalCasesNotSaved
<1>26. ASSUME CreateNotSaved PROVE \A p \in Queues : QueueInv(p)'
  BY <1>26, <1>k DEF CreateNotSaved
<1>27. ASSUME Restart PROVE \A p \in Queues : QueueInv(p)'
  <2> SUFFICES ASSUME NEW p \in Queues PROVE QueueInv(p)'
    OBVIOUS
  <2>1. /\ queue'[p].status = queue[p].status /\ queue'[p].index = queue[p].index /\ queue'[p].size = queue[p].size
        /\ Exists(p)' <=> Exists(p)
        /\ item' = item /\ stored' = stored /\ txn'[p].step = "free"
    BY <1>27, <1>t DEF Restart, TypeOK, Queue, Exists, Free
  <2>2. QueueInv(p)
    BY DEF IInv
  <2>3. QED
    BY <2>1, <2>2 DEF QueueInv, Unused, StatusOfItem, Sequential, LockOfItem, CompletedIsFrozen,
         ReadyIsTruthful, CurrentIs, HasCurrent, Current, InQueue
<1>28. QED
  BY <1>1, <1>2, <1>3, <1>4, <1>5, <1>6, <1>7, <1>8, <1>9, <1>10, <1>11, <1>12, <1>13, <1>14, <1>15, <1>16,
      <1>17, <1>18, <1>19, <1>20, <1>21, <1>22, <1>23, <1>24, <1>25, <1>26, <1>27 DEF Next, Request, Progress, Fault

\* When a worker lets go of its lock, no other worker was holding one.
LEMMA FinishStep ==
  ASSUME IInv, NEW q \in Queues, NEW C, ~At(q, "free"), Finish(q, C)
  PROVE  WorkerHasJob'
BY DEF IInv, TypeOK, WorkerHasJob, Finish, Free, At

LEMMA ProceedStep ==
  ASSUME IInv, NEW q \in Queues, NEW step, ~At(q, "free"), Proceed(q, step), jobs' = jobs
  PROVE  WorkerHasJob'
BY DEF IInv, TypeOK, WorkerHasJob, Proceed, At, Txn

LEMMA RequestStep ==
  ASSUME IInv, NEW q \in Queues, NEW step, Take(q, step, "request"), jobs' = jobs
  PROVE  WorkerHasJob'
BY DEF IInv, TypeOK, WorkerHasJob, Take

LEMMA BeginStep ==
  ASSUME IInv, NEW q \in Queues, NEW kind, HeadIs(kind, q), At(q, "free"),
         \/ Reject
         \/ jobs' = jobs /\ \E step \in Steps : Take(q, step, "worker")
  PROVE  WorkerHasJob'
BY DEF IInv, TypeOK, WorkerHasJob, HeadIs, Reject, Take, At

LEMMA WorkerStep ==
  ASSUME IInv, Next
  PROVE  WorkerHasJob'
<1>k. ASSUME jobs' = jobs, txn' = txn PROVE WorkerHasJob'
  BY <1>k DEF IInv, WorkerHasJob
<1>1. ASSUME NEW q \in Queues, Request(q) PROVE WorkerHasJob'
  BY <1>1, <1>k, RequestStep DEF Request, CreateCheck, Start, Approve, Retry, SkipLast,
     SkipAndAdvance, Reanalyse
<1>2. ASSUME NEW q \in Queues, Progress(q) PROVE WorkerHasJob'
  <2>1. ASSUME CreateSave(q) PROVE WorkerHasJob'
    BY <2>1, <1>k DEF CreateSave
  <2>2. ASSUME NluSucceeds(q) \/ NluFails(q) \/ DesignFails(q) \/ SaveFinalCases(q) \/ CompleteAndAdvance(q)
        PROVE  WorkerHasJob'
    BY <2>2, ProceedStep DEF NluSucceeds, NluFails, DesignFails, SaveFinalCases, CompleteAndAdvance, At
  <2>3. ASSUME NEW verdict, DesignCompletes(q, verdict) PROVE WorkerHasJob'
    BY <2>3, ProceedStep DEF DesignCompletes, At
  <2>4. ASSUME \/ SaveWaiting(q) \/ SaveFailed(q) \/ SaveApproved(q) \/ SaveRetry(q)
               \/ SaveClarification(q) \/ CompleteLast(q)
        PROVE  WorkerHasJob'
    BY <2>4, FinishStep DEF SaveWaiting, SaveFailed, SaveApproved, SaveRetry, SaveClarification,
       CompleteLast, At
  <2>5. ASSUME NEW job \in Job, Submit(job) PROVE WorkerHasJob'
    <3>1. jobs # <<>> => jobs' # <<>> /\ Head(jobs') = Head(jobs)
      BY <2>5, AppendProperties, LenProperties, EmptySeq DEF Submit, IInv, TypeOK
    <3>2. QED
      BY <2>5, <3>1 DEF Submit, IInv, WorkerHasJob
  <2>6. ASSUME BeginDesign(q) PROVE WorkerHasJob'
    BY <2>6, BeginStep DEF BeginDesign, Steps
  <2>7. ASSUME BeginNextNlu(q) PROVE WorkerHasJob'
    BY <2>7, BeginStep DEF BeginNextNlu, Steps
  <2>8. QED
    BY <1>2, <2>1, <2>2, <2>3, <2>4, <2>5, <2>6, <2>7 DEF Progress
<1>3. ASSUME Fault PROVE WorkerHasJob'
  <2>1. ASSUME NEW q \in Queues, StopsHalfway(q) PROVE WorkerHasJob'
    BY <2>1, FinishStep DEF StopsHalfway, At
  <2>2. ASSUME NEW q \in Queues, FinalCasesNotSaved(q) PROVE WorkerHasJob'
    BY <2>2, ProceedStep DEF FinalCasesNotSaved, At
  <2>3. ASSUME CreateNotSaved PROVE WorkerHasJob'
    BY <2>3, <1>k DEF CreateNotSaved
  <2>4. ASSUME Restart PROVE WorkerHasJob'
    BY <2>4 DEF Restart, WorkerHasJob, Free
  <2>5. QED
    BY <1>3, <2>1, <2>2, <2>3, <2>4 DEF Fault
<1>4. QED
  BY <1>1, <1>2, <1>3 DEF Next

\* The queue being created stays unused until its own save.
LEMMA CreatingStep ==
  ASSUME IInv, Next
  PROVE  CreatingIsNew'
<1>k. ASSUME creating' = creating, \A p \in Queues : Exists(p)' <=> Exists(p) PROVE CreatingIsNew'
  BY <1>k DEF IInv, CreatingIsNew
<1>s. ASSUME NEW q \in Queues, NEW status, NEW i, Saved(q, status, i) PROVE \A p \in Queues : Exists(p)' <=> Exists(p)
  BY <1>s DEF IInv, TypeOK, Saved, Exists, Queue
<1>1. ASSUME NEW q \in Queues, Request(q) PROVE CreatingIsNew'
  <2>1. ASSUME NEW op \in Operations, CreateCheck(q, op) PROVE CreatingIsNew'
    BY <2>1 DEF CreateCheck, CreatingIsNew, Exists
  <2>2. ASSUME UNCHANGED queue, UNCHANGED creating PROVE CreatingIsNew'
    BY <2>2, <1>k DEF Exists
  <2>3. ASSUME Start(q) \/ SkipLast(q) \/ SkipAndAdvance(q) PROVE CreatingIsNew'
    BY <2>3, <2>2, <1>k, <1>s DEF Start, SkipLast, SkipAndAdvance
  <2>4. ASSUME Approve(q) \/ Retry(q) \/ \E i \in Positions : Reanalyse(q, i) PROVE CreatingIsNew'
    BY <2>4, <2>2 DEF Approve, Retry, Reanalyse
  <2>5. QED
    BY <1>1, <2>1, <2>3, <2>4 DEF Request
<1>2. ASSUME NEW q \in Queues, Progress(q) PROVE CreatingIsNew'
  <2>1. ASSUME CreateSave(q) PROVE CreatingIsNew'
    BY <2>1 DEF CreateSave, CreatingIsNew
  <2>2. ASSUME UNCHANGED queue, UNCHANGED creating PROVE CreatingIsNew'
    BY <2>2, <1>k DEF Exists
  <2>3. ASSUME \/ SaveWaiting(q) \/ SaveFailed(q) \/ SaveApproved(q) \/ SaveRetry(q)
               \/ SaveClarification(q) \/ CompleteLast(q) \/ CompleteAndAdvance(q)
        PROVE  CreatingIsNew'
    BY <2>3, <1>k, <1>s DEF SaveWaiting, SaveFailed, SaveApproved, SaveRetry, SaveClarification,
       CompleteLast, CompleteAndAdvance
  <2>4. ASSUME NluSucceeds(q) \/ NluFails(q) \/ BeginDesign(q) \/ BeginNextNlu(q) \/ DesignFails(q) \/ SaveFinalCases(q)
        PROVE  CreatingIsNew'
    BY <2>4, <2>2 DEF NluSucceeds, NluFails, BeginDesign, BeginNextNlu, DesignFails, SaveFinalCases
  <2>5. ASSUME NEW verdict, DesignCompletes(q, verdict) PROVE CreatingIsNew'
    BY <2>5, <2>2 DEF DesignCompletes
  <2>6. ASSUME NEW job \in Job, Submit(job) PROVE CreatingIsNew'
    BY <2>6, <2>2 DEF Submit
  <2>7. QED
    BY <1>2, <2>1, <2>3, <2>4, <2>5, <2>6 DEF Progress
<1>3. ASSUME Fault PROVE CreatingIsNew'
  BY <1>3, <1>k DEF Fault, StopsHalfway, FinalCasesNotSaved, CreateNotSaved, Restart, CreatingIsNew, Exists
<1>4. QED
  BY <1>1, <1>2, <1>3 DEF Next

\* IInv is inductive.
THEOREM Invariant == Spec => []IInv
<1>1. IInv /\ [Next]_vars => IInv'
  <2>1. ASSUME IInv, Next PROVE IInv'
    BY <2>1, TypeStep, QueueStep, WorkerStep, CreatingStep DEF IInv
  <2>2. ASSUME IInv, UNCHANGED vars PROVE IInv'
    <3>1. TypeOK' /\ WorkerHasJob' /\ CreatingIsNew'
      BY <2>2 DEF IInv, vars, TypeOK, WorkerHasJob, CreatingIsNew, Exists
    <3>2. \A q \in Queues : QueueInv(q)'
      BY <2>2, KeptInvariant DEF IInv, vars
    <3>3. QED
      BY <3>1, <3>2 DEF IInv
  <2>3. QED
    BY <2>1, <2>2
<1>2. QED
  BY InitInvariant, <1>1, PTL DEF Spec

\* Every file, lock and job the queue service keeps is well formed at all
\* times; in particular no step indexes an item that the queue does not have.
THEOREM TypeCorrect == Spec => []TypeOK
<1>1. IInv => TypeOK
  BY DEF IInv
<1>2. QED
  BY <1>1, Invariant, PTL

\* What BatchHumanGateService.approve may accept really has its case sets on
\* disk, whatever was skipped, retried, lost in a crash or analysed again.
THEOREM ReadyCorrect == Spec => []ReadyQueuesHaveFrozenCases
<1>1. IInv => ReadyQueuesHaveFrozenCases
  <2> SUFFICES ASSUME IInv, NEW q \in Queues, queue[q].status \in Ready
               PROVE  /\ \A i \in InQueue(q) :
                            \/ item[q][i].status = "SKIPPED"
                            \/ item[q][i].status = "COMPLETED" /\ item[q][i].final /\ stored[q][i] = "READY"
                      /\ \E i \in InQueue(q) : item[q][i].status = "COMPLETED"
                      /\ queue[q].status = "READY_WITH_SKIPS" <=>
                           \E i \in InQueue(q) : item[q][i].status = "SKIPPED"
    BY DEF ReadyQueuesHaveFrozenCases
  <2>1. QueueInv(q) /\ queue[q].size \in 0..MaxItems /\ MaxItems \in Nat
    BY CurrentTyped, QueueAssumption DEF IInv, QueueAssumption
  <2>2. Exists(q)
    BY <2>1 DEF QueueInv, ReadyIsTruthful, Unused, InQueue
  <2>3. queue[q].index = queue[q].size + 1
    BY <2>1, <2>2 DEF QueueInv, StatusOfItem, Ready, Settled
  <2>4. \A i \in InQueue(q) : i \in Positions /\ i < queue[q].index
    BY <2>1, <2>3 DEF InQueue, Positions
  <2>5. QED
    BY <2>1, <2>4 DEF QueueInv, ReadyIsTruthful, Sequential, CompletedIsFrozen
<1>2. QED
  BY <1>1, Invariant, PTL

-----------------------------------------------------------------------------
(* What is frozen stays frozen.                                            *)

\* Completed items lie before the current one, and a ready queue is at its
\* end with its lock free: no step has them in hand.
LEMMA CompletedIsBehind ==
  ASSUME IInv, NEW q \in Queues
  PROVE  /\ \A i \in Positions : item[q][i].status = "COMPLETED" =>
              i < queue[q].index /\ i <= queue[q].size /\ Exists(q)
         /\ queue[q].status \in Ready => Exists(q) /\ ~HasCurrent(q) /\ At(q, "free")
<1>1. /\ QueueInv(q) /\ queue[q].size \in 0..MaxItems /\ queue[q].index \in 1..(MaxItems + 1)
      /\ MaxItems \in Nat /\ queue[q].status \in QueueStatus
  BY CurrentTyped, QueueAssumption DEF IInv, QueueAssumption, TypeOK, Queue
<1>2. ASSUME NEW i \in Positions, item[q][i].status = "COMPLETED"
      PROVE  i < queue[q].index /\ i <= queue[q].size /\ Exists(q)
  <2>1. i <= queue[q].index /\ i <= queue[q].size
    BY <1>1, <1>2 DEF QueueInv, Sequential, Positions
  <2>2. Exists(q)
    BY <1>1, <2>1 DEF QueueInv, Unused, Positions
  <2>3. i # queue[q].index
    BY <1>1, <1>2, <2>1, <2>2 DEF QueueInv, StatusOfItem, CurrentIs, Current, QueueStatus
  <2>4. QED
    BY <1>1, <2>1, <2>2, <2>3 DEF Positions
<1>3. ASSUME queue[q].status \in Ready
      PROVE  Exists(q) /\ ~HasCurrent(q) /\ At(q, "free")
  <2>1. Exists(q)
    BY <1>1, <1>3 DEF QueueInv, ReadyIsTruthful, Unused, InQueue
  <2>2. ~HasCurrent(q)
    BY <1>1, <1>3, <2>1 DEF QueueInv, StatusOfItem, Ready, Settled, HasCurrent
  <2>3. At(q, "free")
    BY <1>1, <1>3, <2>2 DEF QueueInv, LockOfItem, CurrentIs, SkippedSingle, Ready, At, IInv, TypeOK, Txn, Steps
  <2>4. QED
    BY <2>1, <2>2, <2>3
<1>4. QED
  BY <1>2, <1>3

Frozen ==
  \A q \in Queues :
    /\ queue[q].status \in Ready => queue'[q].status = queue[q].status
    /\ \A i \in Positions : item[q][i].status = "COMPLETED" =>
         item'[q][i] = item[q][i] /\ stored'[q][i] = stored[q][i]

\* A step on queue q that keeps its positions before the current one, and
\* that a ready queue does not allow, freezes nothing loose.
LEMMA StepFrozen ==
  ASSUME IInv, NEW q \in Queues, OthersKept(q),
         queue[q].status \notin Ready,
         \A i \in Positions : item[q][i].status = "COMPLETED" =>
           item'[q][i] = item[q][i] /\ stored'[q][i] = stored[q][i]
  PROVE  Frozen
BY DEF Frozen, OthersKept

LEMMA FrozenStep ==
  ASSUME IInv, Next, TypeOK'
  PROVE  Frozen
<1> USE DEF Positions
<1>t. TypeOK
  BY DEF IInv
<1>k. ASSUME queue' = queue, item' = item, stored' = stored PROVE Frozen
  BY <1>k DEF Frozen
<1>1. ASSUME NEW q \in Queues, Request(q) PROVE Frozen
  <2>1. ASSUME NEW op \in Operations, CreateCheck(q, op) PROVE Frozen
    BY <2>1, <1>k DEF CreateCheck
  <2>2. ASSUME Approve(q) \/ Retry(q) \/ \E i \in Positions : Reanalyse(q, i) PROVE Frozen
    BY <2>2, <1>k DEF Approve, Retry, Reanalyse
  <2>3. ASSUME Start(q) PROVE Frozen
    <3>1. OthersKept(q) /\ queue[q].status \notin Ready /\ stored' = stored
      BY <2>3, <1>t DEF Start, Saved, Replaced, Take, OthersKept, TypeOK, Ready
    <3>2. \A i \in Positions : i < queue[q].index => item'[q][i] = item[q][i]
      <4>1. UNCHANGED item \/ \E it : Replaced(q, queue[q].index, it)
        BY <2>3 DEF Start
      <4>2. ASSUME NEW it, Replaced(q, queue[q].index, it)
            PROVE  \A i \in Positions : i < queue[q].index => item'[q][i] = item[q][i]
        BY <4>2, <1>t, CurrentTyped DEF Replaced, TypeOK
      <4>3. QED
        BY <4>1, <4>2
    <3>3. QED
      BY <3>1, <3>2, CompletedIsBehind, StepFrozen
  <2>4. ASSUME SkipLast(q) PROVE Frozen
    <3>1. OthersKept(q) /\ queue[q].status \notin Ready /\ stored' = stored
      BY <2>4, <1>t DEF SkipLast, Skippable, Saved, Replaced, OthersKept, TypeOK, Ready
    <3>2. \A i \in Positions : i < queue[q].index => item'[q][i] = item[q][i]
      BY <2>4, <1>t, CurrentTyped DEF SkipLast, Replaced, TypeOK
    <3>3. QED
      BY <3>1, <3>2, CompletedIsBehind, StepFrozen
  <2>5. ASSUME SkipAndAdvance(q) PROVE Frozen
    <3>1. OthersKept(q) /\ queue[q].status \notin Ready /\ stored' = stored
      BY <2>5, <1>t DEF SkipAndAdvance, Skippable, Saved, OthersKept, TypeOK, Ready
    <3>2. \A i \in Positions : i < queue[q].index => item'[q][i] = item[q][i]
      BY <2>5, <1>t, CurrentTyped DEF SkipAndAdvance, TypeOK
    <3>3. QED
      BY <3>1, <3>2, CompletedIsBehind, StepFrozen
  <2>6. QED
    BY <1>1, <2>1, <2>2, <2>3, <2>4, <2>5 DEF Request
<1>2. ASSUME NEW q \in Queues, Progress(q) PROVE Frozen
  <2>q. QueueInv(q) /\ queue[q].index \in 1..(MaxItems + 1)
    BY CurrentTyped DEF IInv
  <2>1. ASSUME NluSucceeds(q) \/ NluFails(q) \/ BeginDesign(q) \/ BeginNextNlu(q) \/ DesignFails(q)
        PROVE  Frozen
    BY <2>1, <1>k DEF NluSucceeds, NluFails, BeginDesign, BeginNextNlu, DesignFails
  <2>2. ASSUME NEW job \in Job, Submit(job) PROVE Frozen
    BY <2>2, <1>k DEF Submit
  <2>3. ASSUME CreateSave(q) PROVE Frozen
    <3>1. ~Exists(q)
      BY <2>3, QueueAssumption DEF CreateSave, IInv, CreatingIsNew, NotCreating, QueueAssumption
    <3>2. OthersKept(q)
      BY <2>3, <1>t DEF CreateSave, OthersKept, TypeOK
    <3>3. QED
      BY <3>1, <3>2, CompletedIsBehind, StepFrozen
  <2>4. ASSUME NEW it, NEW status, NEW i, Replaced(q, queue[q].index, it), Saved(q, status, i), UNCHANGED stored,
               ~At(q, "free"), NEW C, Finish(q, C)
        PROVE  Frozen
    <3>1. OthersKept(q) /\ queue[q].status \notin Ready
      BY <2>4, <1>t, CompletedIsBehind DEF OthersKept, Replaced, Saved, Finish, TypeOK
    <3>2. \A j \in Positions : j < queue[q].index => item'[q][j] = item[q][j]
      BY <2>4, <2>q, <1>t DEF Replaced, TypeOK
    <3>3. QED
      BY <2>4, <3>1, <3>2, CompletedIsBehind, StepFrozen
  <2>5. ASSUME SaveWaiting(q) \/ SaveFailed(q) \/ SaveApproved(q) \/ SaveClarification(q) \/ CompleteLast(q)
        PROVE  Frozen
    BY <2>4, <2>5 DEF SaveWaiting, SaveFailed, SaveApproved, SaveClarification, CompleteLast, At
  <2>6. ASSUME SaveRetry(q) PROVE Frozen
    <3>1. OthersKept(q) /\ queue[q].status \notin Ready
      BY <2>6, <1>t, CompletedIsBehind DEF SaveRetry, At, OthersKept, Replaced, Saved, Finish, TypeOK
    <3>2. item[q][RetryPosition(q)].status # "COMPLETED"
      BY <2>6, <2>q DEF SaveRetry, At, QueueInv, LockOfItem, RetryPosition, SkippedSingle, CurrentIs, Current, HasCurrent
    <3>3. \A j \in Positions : j # RetryPosition(q) => item'[q][j] = item[q][j]
      BY <2>6, <1>t DEF SaveRetry, Replaced, TypeOK
    <3>4. QED
      BY <2>6, <3>1, <3>2, <3>3, StepFrozen DEF SaveRetry
  <2>7. ASSUME CompleteAndAdvance(q) PROVE Frozen
    <3>1. OthersKept(q) /\ queue[q].status \notin Ready
      BY <2>7, <1>t, CompletedIsBehind DEF CompleteAndAdvance, At, OthersKept, Saved, Proceed, TypeOK
    <3>2. \A j \in Positions : j < queue[q].index => item'[q][j] = item[q][j]
      BY <2>7, <2>q, <1>t DEF CompleteAndAdvance, TypeOK
    <3>3. QED
      BY <2>7, <3>1, <3>2, CompletedIsBehind, StepFrozen DEF CompleteAndAdvance
  <2>8. ASSUME NEW verdict, DesignCompletes(q, verdict) PROVE Frozen
    <3>1. OthersKept(q) /\ queue[q].status \notin Ready
      BY <2>8, <1>t, CompletedIsBehind DEF DesignCompletes, At, OthersKept, Proceed, TypeOK
    <3>2. item' = item /\ \A j \in Positions : j < queue[q].index => stored'[q][j] = stored[q][j]
      BY <2>8, <2>q, <1>t DEF DesignCompletes, TypeOK
    <3>3. QED
      BY <3>1, <3>2, CompletedIsBehind, StepFrozen
  <2>9. ASSUME SaveFinalCases(q) PROVE Frozen
    <3>1. OthersKept(q) /\ queue[q].status \notin Ready
      BY <2>9, <1>t, CompletedIsBehind DEF SaveFinalCases, At, OthersKept, Proceed, TypeOK
    <3>2. item' = item /\ \A j \in Positions : j < queue[q].index => stored'[q][j] = stored[q][j]
      BY <2>9, <2>q, <1>t DEF SaveFinalCases, TypeOK
    <3>3. QED
      BY <3>1, <3>2, CompletedIsBehind, StepFrozen
  <2>10. QED
    BY <1>2, <2>1, <2>2, <2>3, <2>5, <2>6, <2>7, <2>8, <2>9 DEF Progress
<1>3. ASSUME Fault PROVE Frozen
  <2>1. ASSUME Restart PROVE Frozen
    BY <2>1, <1>t DEF Restart, Frozen, TypeOK, Queue
  <2>2. ASSUME NEW q \in Queues, StopsHalfway(q) \/ FinalCasesNotSaved(q) PROVE Frozen
    BY <2>2, <1>k DEF StopsHalfway, FinalCasesNotSaved
  <2>3. ASSUME CreateNotSaved PROVE Frozen
    BY <2>3, <1>k DEF CreateNotSaved
  <2>4. QED
    BY <1>3, <2>1, <2>2, <2>3 DEF Fault
<1>4. QED
  BY <1>1, <1>2, <1>3 DEF Next

\* Nothing, be it a retry, a new analysis, a fault or a restart, touches the
\* case set of a completed API or takes a queue out of its ready status.
THEOREM FrozenCorrect == Spec => FrozenCasesStayFrozen
<1>1. IInv /\ IInv' /\ [Next]_vars => [Frozen]_vars
  BY FrozenStep DEF IInv
<1>2. [Frozen]_vars <=>
        [\A q \in Queues :
           /\ queue[q].status \in Ready => queue'[q].status = queue[q].status
           /\ \A i \in Positions : item[q][i].status = "COMPLETED" =>
                item'[q][i] = item[q][i] /\ stored'[q][i] = stored[q][i]]_vars
  BY DEF Frozen
<1>3. QED
  BY Invariant, <1>1, <1>2, PTL DEF Spec, FrozenCasesStayFrozen


-----------------------------------------------------------------------------
(* Continuations: one job per queue at most, and while it waits the queue  *)
(* is as its route left it.                                                *)

Works(q) == txn[q].by = "worker" /\ txn[q].step # "free"

\* The queue is as a job of this kind expects it.
AsExpected(q, kind) ==
  /\ txn[q].step = "free" /\ queue[q].status = "RUNNING"
  /\ CurrentIs(q, IF kind = "continue_after_approval" THEN "DESIGNING" ELSE "NLU_RUNNING")

NoHandoff(q) == \A job \in handoff : job.q # q
NoJob(q) == \A n \in 1..Len(jobs) : jobs[n].q # q

OneContinuation(q) ==
  /\ \A job \in handoff : job.q = q => AsExpected(q, job.kind) /\ NoJob(q)
  /\ \A n \in 1..Len(jobs) : jobs[n].q = q =>
       /\ \A m \in 1..Len(jobs) : jobs[m].q = q => m = n
       /\ (Works(q) /\ n = 1) \/ AsExpected(q, jobs[n].kind)

\* Nothing of queue p changes, nor do the jobs.
LEMMA ContinuationKept ==
  ASSUME NEW p \in Queues, OneContinuation(p), queue'[p] = queue[p], item'[p] = item[p],
         txn'[p] = txn[p], handoff' = handoff, jobs' = jobs
  PROVE  OneContinuation(p)'
BY DEF OneContinuation, AsExpected, NoJob, Works, CurrentIs, HasCurrent, Current

LEMMA NoneIsOne ==
  ASSUME NEW q \in Queues, NoHandoff(q), NoJob(q)
  PROVE  OneContinuation(q)
BY DEF OneContinuation, NoHandoff, NoJob

\* A queue that is not as any job expects it, and that no worker is at, has
\* no job.
LEMMA NothingWaits ==
  ASSUME NEW q \in Queues, OneContinuation(q), ~Works(q),
         \/ txn[q].step # "free" \/ queue[q].status # "RUNNING" \/ ~HasCurrent(q)
         \/ Current(q).status \notin {"DESIGNING", "NLU_RUNNING"}
  PROVE  NoHandoff(q) /\ NoJob(q)
BY DEF OneContinuation, AsExpected, NoHandoff, NoJob, CurrentIs

\* A request that finds no job for its queue leaves none.
LEMMA RequestContinuation ==
  ASSUME NEW q \in Queues, \A p \in Queues : OneContinuation(p), OthersKept(q),
         NoHandoff(q), NoJob(q), handoff' = handoff, jobs' = jobs
  PROVE  \A p \in Queues : OneContinuation(p)'
<1>1. ASSUME NEW p \in Queues, p # q PROVE OneContinuation(p)'
  BY <1>1, ContinuationKept DEF OthersKept
<1>2. OneContinuation(q)'
  BY DEF OneContinuation, NoHandoff, NoJob
<1>3. QED
  BY <1>1, <1>2

\* A step of the lock's holder: its job, if it has one, stays at the head.
LEMMA ProceedContinuation ==
  ASSUME IInv, NEW q \in Queues, \A p \in Queues : OneContinuation(p), OthersKept(q),
         ~At(q, "free"), NEW step, step # "free", Proceed(q, step), handoff' = handoff, jobs' = jobs
  PROVE  \A p \in Queues : OneContinuation(p)'
<1>1. ASSUME NEW p \in Queues, p # q PROVE OneContinuation(p)'
  BY <1>1, ContinuationKept DEF OthersKept
<1>2. txn'[q].step # "free" /\ txn'[q].by = txn[q].by
  BY DEF Proceed, IInv, TypeOK, Txn
<1>3. NoHandoff(q) /\ \A n \in 1..Len(jobs) : jobs[n].q = q =>
        Works(q) /\ n = 1 /\ \A m \in 1..Len(jobs) : jobs[m].q = q => m = n
  BY DEF At, OneContinuation, AsExpected, NoHandoff
<1>4. OneContinuation(q)'
  BY <1>2, <1>3 DEF OneContinuation, NoHandoff, Works
<1>5. QED
  BY <1>1, <1>4

\* The thread drops its job: those behind it move up.
LEMMA DropContinuation ==
  ASSUME IInv, NEW q \in Queues, jobs # <<>>, Head(jobs).q = q, jobs' = Tail(jobs),
         \A job \in handoff' : job \in handoff \/ job.q = q,
         \A p \in Queues : OneContinuation(p), OthersKept(q)
  PROVE  /\ NoJob(q)'
         /\ \A p \in Queues \ {q} : OneContinuation(p)'
<1>1. /\ jobs \in Seq(Job) /\ Len(jobs) \in Nat /\ Len(jobs) >= 1 /\ jobs[1].q = q
      /\ Len(jobs') = Len(jobs) - 1
      /\ \A n \in 1..Len(jobs') : n + 1 \in 1..Len(jobs) /\ jobs'[n] = jobs[n + 1]
  BY HeadTailProperties, EmptySeq, LenProperties DEF IInv, TypeOK
<1>2. NoJob(q)'
  BY <1>1 DEF OneContinuation, NoJob
<1>3. ASSUME NEW p \in Queues, p # q PROVE OneContinuation(p)'
  <2>1. ~Works(p)
    BY <1>3 DEF Works, IInv, WorkerHasJob
  <2>2. \A kind : AsExpected(p, kind) => AsExpected(p, kind)'
    BY <1>3 DEF AsExpected, OthersKept, CurrentIs, HasCurrent, Current
  <2>3. ASSUME NEW job \in handoff', job.q = p PROVE AsExpected(p, job.kind)' /\ NoJob(p)'
    <3>1. job \in handoff
      BY <1>3, <2>3
    <3>2. QED
      BY <1>1, <2>2, <2>3, <3>1 DEF OneContinuation, NoJob
  <2>4. ASSUME NEW n \in 1..Len(jobs'), jobs'[n].q = p
        PROVE  /\ \A m \in 1..Len(jobs') : jobs'[m].q = p => m = n
               /\ AsExpected(p, jobs[n].kind)'
    <3>1. /\ n + 1 \in 1..Len(jobs) /\ jobs[n + 1].q = p /\ jobs'[n] = jobs[n + 1]
          /\ \A m \in 1..Len(jobs) : jobs[m].q = p => m = n + 1
          /\ AsExpected(p, jobs[n + 1].kind)
      BY <1>1, <2>1, <2>4 DEF OneContinuation
    <3>2. \A m \in 1..Len(jobs') : jobs'[m].q = p => m + 1 = n + 1
      BY <1>1, <3>1
    <3>3. PICK kind : kind = jobs[n + 1].kind
      OBVIOUS
    <3>4. AsExpected(p, kind)'
      BY <2>2, <3>1, <3>3
    <3>5. \A m \in 1..Len(jobs') : jobs'[m].q = p => m = n
      BY <1>1, <2>4, <3>2
    <3>6. QED
      BY <3>1, <3>3, <3>4, <3>5 DEF AsExpected
  <2>5. QED
    BY <2>3, <2>4 DEF OneContinuation
<1>4. QED
  BY <1>2, <1>3

\* The holder of the lock is done, with no continuation but its own.
LEMMA FinishContinuation ==
  ASSUME IInv, NEW q \in Queues, NEW C, \A job \in C : job.q = q,
         \A p \in Queues : OneContinuation(p), OthersKept(q), ~At(q, "free"), Finish(q, C)
  PROVE  /\ NoJob(q)'
         /\ \A job \in handoff' : job.q = q => job \in C
         /\ \A p \in Queues \ {q} : OneContinuation(p)'
<1>1. NoHandoff(q)
  BY DEF At, OneContinuation, AsExpected, NoHandoff
<1>2. /\ \A job \in handoff' : job \in handoff \/ job.q = q
      /\ \A job \in handoff' : job.q = q => job \in C
  BY <1>1 DEF Finish, NoHandoff
<1>3. CASE txn[q].by = "worker"
  <2>1. jobs # <<>> /\ Head(jobs).q = q /\ jobs' = Tail(jobs)
    BY <1>3 DEF IInv, WorkerHasJob, At, Finish
  <2>2. QED
    BY <1>2, <2>1, DropContinuation
<1>4. CASE txn[q].by # "worker"
  <2>1. jobs' = jobs /\ ~Works(q)
    BY <1>4 DEF Finish, Works
  <2>2. NoJob(q)
    BY <2>1, NothingWaits DEF At
  <2>3. ASSUME NEW p \in Queues, p # q PROVE OneContinuation(p)'
    <3>1. \A job \in handoff' : job.q = p => job \in handoff
      BY <1>2, <2>3
    <3>2. \A kind : AsExpected(p, kind) => AsExpected(p, kind)'
      BY <2>3 DEF AsExpected, OthersKept, CurrentIs, HasCurrent, Current
    <3>3. Works(p) => Works(p)'
      BY <2>3 DEF Works, OthersKept
    <3>4. QED
      BY <2>1, <3>1, <3>2, <3>3 DEF OneContinuation, NoJob
  <2>4. QED
    BY <1>2, <2>1, <2>2, <2>3 DEF NoJob
<1>5. QED
  BY <1>3, <1>4

\* It leaves a continuation the queue is ready for.
LEMMA ContinueContinuation ==
  ASSUME IInv, NEW q \in Queues, NEW kind,
         \A p \in Queues : OneContinuation(p), OthersKept(q), ~At(q, "free"),
         Finish(q, Continue(kind, q)), AsExpected(q, kind)'
  PROVE  \A p \in Queues : OneContinuation(p)'
<1>1. \A job \in Continue(kind, q) : job.q = q /\ job.kind = kind
  BY DEF Continue
<1>2. /\ NoJob(q)'
      /\ \A job \in handoff' : job.q = q => job.kind = kind
      /\ \A p \in Queues \ {q} : OneContinuation(p)'
  BY <1>1, FinishContinuation
<1>3. OneContinuation(q)'
  BY <1>2 DEF OneContinuation, NoJob
<1>4. QED
  BY <1>2, <1>3

LEMMA SubmitContinuation ==
  ASSUME IInv, NEW job \in Job, \A p \in Queues : OneContinuation(p), Submit(job)
  PROVE  \A p \in Queues : OneContinuation(p)'
<1>1. /\ jobs \in Seq(Job) /\ Len(jobs) \in Nat /\ Len(jobs') = Len(jobs) + 1
      /\ jobs'[Len(jobs) + 1] = job
      /\ \A n \in 1..Len(jobs) : jobs'[n] = jobs[n]
  BY AppendProperties, LenProperties DEF IInv, TypeOK, Submit
<1>2. \A p \in Queues : (Works(p)' <=> Works(p)) /\ \A kind : AsExpected(p, kind)' <=> AsExpected(p, kind)
  BY DEF Submit, Works, AsExpected, CurrentIs, HasCurrent, Current
<1>3. /\ job.q \in Queues /\ job \in handoff /\ handoff' = handoff \ {job}
      /\ AsExpected(job.q, job.kind) /\ NoJob(job.q)
  BY DEF Submit, Job, OneContinuation
<1>4. \A other \in handoff : other.q = job.q => other = job
  <2>1. ASSUME NEW other \in handoff, other.q = job.q PROVE other = job
    <3>1. AsExpected(job.q, other.kind) /\ other \in Job
      BY <1>3, <2>1 DEF OneContinuation, IInv, TypeOK
    <3>2. other.kind = job.kind
      BY <1>3, <3>1 DEF AsExpected, CurrentIs, Job
    <3>3. QED
      BY <2>1, <3>1, <3>2 DEF Job
  <2>2. QED
    BY <2>1
<1>5. OneContinuation(job.q)'
  <2>1. \A other \in handoff' : other.q # job.q
    BY <1>3, <1>4
  <2>2. \A n \in 1..Len(jobs') : jobs'[n].q = job.q => n = Len(jobs) + 1
    BY <1>1, <1>3 DEF NoJob
  <2>3. QED
    BY <1>1, <1>2, <1>3, <2>1, <2>2 DEF OneContinuation
<1>6. ASSUME NEW p \in Queues, p # job.q PROVE OneContinuation(p)'
  <2>1. \A n \in 1..Len(jobs') : jobs'[n].q = p => n \in 1..Len(jobs) /\ jobs[n].q = p /\ jobs'[n] = jobs[n]
    BY <1>1, <1>6
  <2>2. \A other \in handoff' : other \in handoff
    BY <1>3
  <2>3. NoJob(p) => NoJob(p)'
    BY <2>1 DEF NoJob
  <2>4. OneContinuation(p)
    OBVIOUS
  <2>5. QED
    BY <1>2, <2>1, <2>2, <2>3, <2>4 DEF OneContinuation
<1>7. QED
  BY <1>5, <1>6

\* The thread takes the lock for its job, or drops the job.
LEMMA BeginContinuation ==
  ASSUME IInv, NEW q \in Queues, NEW kind, \A p \in Queues : OneContinuation(p), OthersKept(q),
         HeadIs(kind, q), At(q, "free"), queue' = queue, item' = item, handoff' = handoff,
         \/ Reject
         \/ jobs' = jobs /\ \E step \in Steps \ {"free"} : Take(q, step, "worker")
  PROVE  \A p \in Queues : OneContinuation(p)'
<1>1. jobs # <<>> /\ Head(jobs).q = q /\ Len(jobs) \in Nat /\ Len(jobs) >= 1 /\ jobs[1].q = q
  BY EmptySeq, LenProperties, HeadTailProperties DEF HeadIs, IInv, TypeOK
<1>2. NoHandoff(q) /\ \A n \in 1..Len(jobs) : jobs[n].q = q => n = 1
  BY <1>1 DEF OneContinuation, NoHandoff, NoJob
<1>3. CASE Reject
  <2>1. NoJob(q)' /\ \A p \in Queues \ {q} : OneContinuation(p)'
    BY <1>1, <1>3, DropContinuation DEF Reject
  <2>2. NoHandoff(q)'
    BY <1>2 DEF NoHandoff
  <2>3. OneContinuation(q)'
    BY <2>1, <2>2 DEF OneContinuation, NoHandoff, NoJob
  <2>4. QED
    BY <2>1, <2>3
<1>4. ASSUME jobs' = jobs, NEW step \in Steps \ {"free"}, Take(q, step, "worker")
      PROVE  \A p \in Queues : OneContinuation(p)'
  <2>1. ASSUME NEW p \in Queues, p # q PROVE OneContinuation(p)'
    BY <1>4, <2>1, ContinuationKept DEF OthersKept
  <2>2. Works(q)'
    BY <1>4 DEF Take, Works, IInv, TypeOK
  <2>3. OneContinuation(q)'
    BY <1>2, <1>4, <2>2 DEF OneContinuation, NoHandoff
  <2>4. QED
    BY <2>1, <2>3
<1>5. QED
  BY <1>3, <1>4


LEMMA ContinuationStep ==
  ASSUME IInv, Next, \A p \in Queues : OneContinuation(p)
  PROVE  \A p \in Queues : OneContinuation(p)'
<1>t. TypeOK
  BY DEF IInv
<1>k. ASSUME queue' = queue, item' = item, txn' = txn, handoff' = handoff, jobs' = jobs
      PROVE  \A p \in Queues : OneContinuation(p)'
  BY <1>k, ContinuationKept
<1>1. ASSUME NEW q \in Queues, Request(q) PROVE \A p \in Queues : OneContinuation(p)'
  <2>1. ASSUME NEW op \in Operations, CreateCheck(q, op) PROVE \A p \in Queues : OneContinuation(p)'
    BY <2>1, <1>k DEF CreateCheck
  <2>2. ASSUME NEW i \in Positions, Reanalyse(q, i) PROVE \A p \in Queues : OneContinuation(p)'
    BY <2>2, <1>k DEF Reanalyse
  <2>3. ASSUME Start(q) PROVE \A p \in Queues : OneContinuation(p)'
    <3>1. OthersKept(q)
      BY <2>3, <1>t DEF Start, Saved, Replaced, Take, OthersKept, TypeOK
    <3>2. NoHandoff(q) /\ NoJob(q)
      BY <2>3, NothingWaits DEF Start, At, Works
    <3>3. QED
      BY <2>3, <3>1, <3>2, RequestContinuation DEF Start
  <2>4. ASSUME Approve(q) PROVE \A p \in Queues : OneContinuation(p)'
    <3>1. OthersKept(q)
      BY <2>4, <1>t DEF Approve, Take, OthersKept, TypeOK
    <3>2. NoHandoff(q) /\ NoJob(q)
      BY <2>4, NothingWaits DEF Approve, At, Works, CurrentIs
    <3>3. QED
      BY <2>4, <3>1, <3>2, RequestContinuation DEF Approve
  <2>5. ASSUME Retry(q) PROVE \A p \in Queues : OneContinuation(p)'
    <3>1. OthersKept(q)
      BY <2>5, <1>t DEF Retry, Take, OthersKept, TypeOK
    <3>2. NoHandoff(q) /\ NoJob(q)
      BY <2>5, NothingWaits DEF Retry, At, Works
    <3>3. QED
      BY <2>5, <3>1, <3>2, RequestContinuation DEF Retry
  <2>6. ASSUME SkipLast(q) PROVE \A p \in Queues : OneContinuation(p)'
    <3>1. OthersKept(q)
      BY <2>6, <1>t DEF SkipLast, Saved, Replaced, OthersKept, TypeOK
    <3>2. NoHandoff(q) /\ NoJob(q)
      BY <2>6, NothingWaits DEF SkipLast, Skippable, At, Works
    <3>3. QED
      BY <2>6, <3>1, <3>2, RequestContinuation DEF SkipLast
  <2>7. ASSUME SkipAndAdvance(q) PROVE \A p \in Queues : OneContinuation(p)'
    <3>1. OthersKept(q) /\ txn' = txn /\ jobs' = jobs /\ txn[q].step = "free"
      BY <2>7, <1>t DEF SkipAndAdvance, Skippable, Saved, OthersKept, TypeOK, At
    <3>2. NoHandoff(q) /\ NoJob(q)
      BY <2>7, NothingWaits DEF SkipAndAdvance, Skippable, At, Works
    <3>3. \A job \in handoff' : job \in handoff \/ (job.q = q /\ job.kind = "continue_after_skip")
      BY <2>7 DEF SkipAndAdvance, Continue
    <3>4. AsExpected(q, "continue_after_skip")'
      <4>1. queue[q].index \in Positions /\ queue[q].index + 1 \in Positions
        BY <2>7, CurrentTyped, QueueAssumption DEF SkipAndAdvance, Positions, QueueAssumption
      <4>2. /\ queue'[q].status = "RUNNING" /\ queue'[q].index = queue[q].index + 1
            /\ queue'[q].size = queue[q].size
        BY <2>7, <1>t DEF SkipAndAdvance, Saved, TypeOK, Queue
      <4>3. item'[q][queue[q].index + 1].status = "NLU_RUNNING"
        BY <2>7, <1>t, <4>1 DEF SkipAndAdvance, TypeOK, NewItem, Item, Positions
      <4>4. QED
        BY <2>7, <3>1, <4>1, <4>2, <4>3, CurrentTyped
           DEF SkipAndAdvance, AsExpected, CurrentIs, HasCurrent, Current
    <3>5. OneContinuation(q)'
      BY <3>1, <3>2, <3>3, <3>4 DEF OneContinuation, NoHandoff, NoJob
    <3>6. ASSUME NEW p \in Queues, p # q PROVE OneContinuation(p)'
      <4>1. \A job \in handoff' : job.q = p => job \in handoff
        BY <3>3, <3>6
      <4>2. \A kind : AsExpected(p, kind) => AsExpected(p, kind)'
        BY <3>1, <3>6 DEF AsExpected, OthersKept, CurrentIs, HasCurrent, Current
      <4>3. QED
        BY <3>1, <4>1, <4>2 DEF OneContinuation, NoJob, Works
    <3>7. QED
      BY <3>5, <3>6
  <2>8. QED
    BY <1>1, <2>1, <2>2, <2>3, <2>4, <2>5, <2>6, <2>7 DEF Request
<1>2. ASSUME NEW q \in Queues, Progress(q) PROVE \A p \in Queues : OneContinuation(p)'
  <2>1. ASSUME CreateSave(q) PROVE \A p \in Queues : OneContinuation(p)'
    <3>1. OthersKept(q) /\ UNCHANGED <<handoff, jobs>>
      BY <2>1, <1>t DEF CreateSave, OthersKept, TypeOK
    <3>2. ~Exists(q)
      BY <2>1, QueueAssumption DEF CreateSave, IInv, CreatingIsNew, NotCreating, QueueAssumption
    <3>3. NoHandoff(q) /\ NoJob(q)
      BY <3>2, BusyExists, NothingWaits DEF At, Works
    <3>4. QED
      BY <3>1, <3>3, RequestContinuation
  <2>2. ASSUME \/ NluSucceeds(q) \/ NluFails(q) \/ DesignFails(q) \/ SaveFinalCases(q)
               \/ CompleteAndAdvance(q) \/ \E verdict : DesignCompletes(q, verdict)
        PROVE  \A p \in Queues : OneContinuation(p)'
    <3>1. OthersKept(q) /\ UNCHANGED <<handoff, jobs>>
      BY <2>2, <1>t DEF NluSucceeds, NluFails, DesignFails, SaveFinalCases, CompleteAndAdvance,
         DesignCompletes, Saved, Proceed, OthersKept, TypeOK
    <3>2. ~At(q, "free") /\ \E step : step # "free" /\ Proceed(q, step)
      BY <2>2 DEF NluSucceeds, NluFails, DesignFails, SaveFinalCases, CompleteAndAdvance,
         DesignCompletes, At
    <3>3. QED
      BY <3>1, <3>2, ProceedContinuation
  <2>f. ASSUME ~At(q, "free"), Finish(q, {}), OthersKept(q) PROVE \A p \in Queues : OneContinuation(p)'
    <3>1. NoJob(q)' /\ NoHandoff(q)' /\ \A p \in Queues \ {q} : OneContinuation(p)'
      BY <2>f, FinishContinuation DEF NoHandoff
    <3>2. OneContinuation(q)'
      BY <3>1 DEF OneContinuation, NoHandoff, NoJob
    <3>3. QED
      BY <3>1, <3>2
  <2>3. ASSUME SaveWaiting(q) \/ SaveFailed(q) \/ SaveClarification(q) \/ CompleteLast(q)
        PROVE  \A p \in Queues : OneContinuation(p)'
    <3>1. OthersKept(q)
      BY <2>3, <1>t DEF SaveWaiting, SaveFailed, SaveClarification, CompleteLast, Saved, Replaced,
         Finish, OthersKept, TypeOK
    <3>2. ~At(q, "free") /\ Finish(q, {})
      BY <2>3 DEF SaveWaiting, SaveFailed, SaveClarification, CompleteLast, At
    <3>3. QED
      BY <2>f, <3>1, <3>2
  <2>4. ASSUME NEW i \in Positions, NEW it, it.status = "DESIGNING", i <= queue[q].size,
               Replaced(q, i, it), Saved(q, "RUNNING", i), UNCHANGED stored,
               ~At(q, "free"), Finish(q, Continue("continue_after_approval", q))
        PROVE  \A p \in Queues : OneContinuation(p)'
    <3>1. OthersKept(q) /\ txn'[q].step = "free"
      BY <2>4, <1>t DEF Saved, Replaced, Finish, Free, OthersKept, TypeOK
    <3>2. /\ queue'[q].status = "RUNNING" /\ queue'[q].index = i /\ queue'[q].size = queue[q].size
          /\ item'[q][i] = it
      BY <2>4, <1>t DEF Saved, Replaced, TypeOK, Queue
    <3>3. AsExpected(q, "continue_after_approval")'
      BY <2>4, <3>1, <3>2 DEF AsExpected, CurrentIs, HasCurrent, Current
    <3>4. QED
      BY <2>4, <3>1, <3>3, ContinueContinuation
  <2>5. ASSUME SaveApproved(q) PROVE \A p \in Queues : OneContinuation(p)'
    <3>1. queue[q].index \in Positions /\ HasCurrent(q) /\ Current(q) \in Item
      BY <2>5, CurrentTyped DEF SaveApproved, At
    <3>2. PICK it : it = [Current(q) EXCEPT !.status = "DESIGNING", !.stage = "DESIGNER"]
      OBVIOUS
    <3>3. it.status = "DESIGNING"
      BY <3>1, <3>2 DEF Item
    <3>4. QED
      BY <2>4, <2>5, <3>1, <3>2, <3>3 DEF SaveApproved, HasCurrent, At
  <2>6. ASSUME SaveRetry(q) PROVE \A p \in Queues : OneContinuation(p)'
    <3>1. RetryPosition(q) \in Positions /\ item[q][RetryPosition(q)] \in Item
      BY <2>6, RetryTyped DEF SaveRetry
    <3>2. RetryPosition(q) <= queue[q].size
      BY <2>6, CurrentTyped DEF SaveRetry, At, IInv, QueueInv, LockOfItem, RetryPosition, SkippedSingle,
         CurrentIs, HasCurrent
    <3>3. PICK i \in Positions : i = RetryPosition(q)
      BY <3>1
    <3>4. PICK it : it = [item[q][i] EXCEPT !.status = "DESIGNING", !.stage = "DESIGNER", !.final = FALSE]
      OBVIOUS
    <3>5. it.status = "DESIGNING"
      BY <3>1, <3>3, <3>4 DEF Item
    <3>6. QED
      BY <2>4, <2>6, <3>2, <3>3, <3>4, <3>5 DEF SaveRetry, At
  <2>7. ASSUME NEW job \in Job, Submit(job) PROVE \A p \in Queues : OneContinuation(p)'
    BY <2>7, SubmitContinuation
  <2>8. ASSUME BeginDesign(q) PROVE \A p \in Queues : OneContinuation(p)'
    <3>1. OthersKept(q)
      BY <2>8, <1>t DEF BeginDesign, Reject, Take, OthersKept, TypeOK
    <3>2. Reject \/ (jobs' = jobs /\ \E step \in Steps \ {"free"} : Take(q, step, "worker"))
      BY <2>8 DEF BeginDesign, Steps
    <3>3. QED
      BY <2>8, <3>1, <3>2, BeginContinuation DEF BeginDesign
  <2>9. ASSUME BeginNextNlu(q) PROVE \A p \in Queues : OneContinuation(p)'
    <3>1. OthersKept(q)
      BY <2>9, <1>t DEF BeginNextNlu, Reject, Take, OthersKept, TypeOK
    <3>2. Reject \/ (jobs' = jobs /\ \E step \in Steps \ {"free"} : Take(q, step, "worker"))
      BY <2>9 DEF BeginNextNlu, Steps
    <3>3. QED
      BY <2>9, <3>1, <3>2, BeginContinuation DEF BeginNextNlu
  <2>10. QED
    BY <1>2, <2>1, <2>2, <2>3, <2>5, <2>6, <2>7, <2>8, <2>9 DEF Progress
<1>3. ASSUME Fault PROVE \A p \in Queues : OneContinuation(p)'
  <2>1. ASSUME NEW q \in Queues, StopsHalfway(q) PROVE \A p \in Queues : OneContinuation(p)'
    <3>1. OthersKept(q) /\ ~At(q, "free") /\ Finish(q, {})
      BY <2>1, <1>t DEF StopsHalfway, Finish, OthersKept, At, TypeOK
    <3>2. NoJob(q)' /\ NoHandoff(q)' /\ \A p \in Queues \ {q} : OneContinuation(p)'
      BY <3>1, FinishContinuation DEF NoHandoff
    <3>3. OneContinuation(q)'
      BY <3>2 DEF OneContinuation, NoHandoff, NoJob
    <3>4. QED
      BY <3>2, <3>3
  <2>2. ASSUME NEW q \in Queues, FinalCasesNotSaved(q) PROVE \A p \in Queues : OneContinuation(p)'
    <3>1. OthersKept(q) /\ ~At(q, "free")
      BY <2>2, <1>t DEF FinalCasesNotSaved, Proceed, OthersKept, At, TypeOK
    <3>2. QED
      BY <2>2, <3>1, ProceedContinuation DEF FinalCasesNotSaved
  <2>3. ASSUME CreateNotSaved PROVE \A p \in Queues : OneContinuation(p)'
    BY <2>3, <1>k DEF CreateNotSaved
  <2>4. ASSUME Restart PROVE \A p \in Queues : OneContinuation(p)'
    BY <2>4, EmptySeq DEF Restart, OneContinuation
  <2>5. QED
    BY <1>3, <2>1, <2>2, <2>3, <2>4 DEF Fault
<1>4. QED
  BY <1>1, <1>2, <1>3 DEF Next

\* The invariant gives what the executor relies on.
LEMMA ContinuationsFound ==
  ASSUME IInv, \A p \in Queues : OneContinuation(p)
  PROVE  ContinuationsFindTheirItem
<1> SUFFICES ASSUME NEW q \in Queues, NEW job \in Waiting(q)
             PROVE  /\ AsExpected(q, job.kind)
                    /\ \A n, m \in 1..Len(jobs) : jobs[n].q = q /\ jobs[m].q = q => n = m
                    /\ \A other \in handoff : other.q = q => \A n \in 1..Len(jobs) : jobs[n].q # q
  BY DEF ContinuationsFindTheirItem, AsExpected
<1>1. \/ job \in handoff /\ job.q = q
      \/ \E n \in 1..Len(jobs) : job = jobs[n] /\ jobs[n].q = q /\ ~(n = 1 /\ Works(q))
  BY DEF Waiting, Works
<1>2. AsExpected(q, job.kind)
  BY <1>1 DEF OneContinuation
<1>3. QED
  BY <1>2 DEF OneContinuation, NoJob

\* Whatever is requested, fails or is restarted meanwhile, the thread finds
\* the item of its job as the route that submitted the job left it, and no
\* queue has two jobs.
THEOREM ContinuationsCorrect == Spec => []ContinuationsFindTheirItem
<1> DEFINE Continuations == \A p \in Queues : OneContinuation(p)
<1>1. Init => Continuations
  BY EmptySeq DEF Init, OneContinuation
<1>2. IInv /\ Continuations /\ [Next]_vars => Continuations'
  <2>1. ASSUME IInv, Continuations, Next PROVE Continuations'
    BY <2>1, ContinuationStep
  <2>2. ASSUME Continuations, UNCHANGED vars PROVE Continuations'
    BY <2>2, ContinuationKept DEF vars
  <2>3. QED
    BY <2>1, <2>2
<1>3. IInv /\ Continuations => ContinuationsFindTheirItem
  BY ContinuationsFound
<1>4. QED
  BY Invariant, <1>1, <1>2, <1>3, PTL DEF Spec


-----------------------------------------------------------------------------
(* While nothing fails, a RUNNING queue has a thread or a job.             *)

\* An item that is designed, or about to be, links the workflow of its gate,
\* so the thread does not refuse its job.
LinksWorkflow(q) ==
  /\ CurrentIs(q, "DESIGNING") \/ At(q, "save_approved") => Current(q).workflow
  /\ At(q, "save_retry") => item[q][RetryPosition(q)].workflow

\* Its lock is held, or it has a continuation.
WorkedOn(q) == queue[q].status = "RUNNING" /\ txn[q].step = "free" => ~NoHandoff(q) \/ ~NoJob(q)

LEMMA LinksKept ==
  ASSUME NEW p \in Queues, LinksWorkflow(p), queue'[p] = queue[p], item'[p] = item[p], txn'[p] = txn[p]
  PROVE  LinksWorkflow(p)'
BY DEF LinksWorkflow, CurrentIs, HasCurrent, Current, At, RetryPosition, SkippedSingle

LEMMA LinksOthers ==
  ASSUME NEW q \in Queues, \A p \in Queues : LinksWorkflow(p), OthersKept(q), LinksWorkflow(q)'
  PROVE  \A p \in Queues : LinksWorkflow(p)'
BY LinksKept DEF OthersKept

\* A step that leaves the item alone and needs no new link.
LEMMA LinksLock ==
  ASSUME NEW q \in Queues, \A p \in Queues : LinksWorkflow(p), OthersKept(q),
         queue' = queue, item' = item, txn'[q].step \notin {"save_approved", "save_retry"}
  PROVE  \A p \in Queues : LinksWorkflow(p)'
<1>1. LinksWorkflow(q)'
  BY DEF LinksWorkflow, CurrentIs, HasCurrent, Current, At
<1>2. QED
  BY <1>1, LinksOthers

\* A saved item that is designed links its workflow.
LEMMA LinksSaved ==
  ASSUME IInv, NEW q \in Queues, \A p \in Queues : LinksWorkflow(p), OthersKept(q),
         NEW i \in Positions, NEW it, Replaced(q, i, it), NEW status, Saved(q, status, i),
         it.status = "DESIGNING" => it.workflow,
         txn'[q].step \notin {"save_approved", "save_retry"}
  PROVE  \A p \in Queues : LinksWorkflow(p)'
<1>1. queue'[q].index = i /\ item'[q][i] = it
  BY DEF Saved, Replaced, IInv, TypeOK, Queue
<1>2. LinksWorkflow(q)'
  BY <1>1 DEF LinksWorkflow, CurrentIs, Current, At
<1>3. QED
  BY <1>2, LinksOthers

\* A queue at its end has no item that is designed.
LEMMA LinksEnded ==
  ASSUME IInv, NEW q \in Queues, \A p \in Queues : LinksWorkflow(p), OthersKept(q),
         queue[q].index = queue[q].size, NEW status, Saved(q, status, queue[q].index + 1),
         txn'[q].step = "free"
  PROVE  \A p \in Queues : LinksWorkflow(p)'
<1>1. queue'[q].index = queue[q].size + 1 /\ queue'[q].size = queue[q].size /\ queue[q].size \in 0..MaxItems
  BY DEF Saved, IInv, TypeOK, Queue
<1>2. LinksWorkflow(q)'
  BY <1>1, QueueAssumption DEF LinksWorkflow, CurrentIs, HasCurrent, At, QueueAssumption
<1>3. QED
  BY <1>2, LinksOthers

LEMMA LinksStep ==
  ASSUME IInv, Next, \A p \in Queues : LinksWorkflow(p)
  PROVE  \A p \in Queues : LinksWorkflow(p)'
<1>t. TypeOK
  BY DEF IInv
<1>k. ASSUME queue' = queue, item' = item, txn' = txn PROVE \A p \in Queues : LinksWorkflow(p)'
  BY <1>k, LinksKept
<1>1. ASSUME NEW q \in Queues, Request(q) PROVE \A p \in Queues : LinksWorkflow(p)'
  <2>1. ASSUME NEW op \in Operations, CreateCheck(q, op) PROVE \A p \in Queues : LinksWorkflow(p)'
    BY <2>1, <1>k DEF CreateCheck
  <2>2. ASSUME NEW i \in Positions, Reanalyse(q, i) PROVE \A p \in Queues : LinksWorkflow(p)'
    BY <2>2, <1>k DEF Reanalyse
  <2>3. ASSUME Start(q) PROVE \A p \in Queues : LinksWorkflow(p)'
    <3>1. OthersKept(q) /\ txn'[q].step = "run_nlu"
      BY <2>3, <1>t DEF Start, Saved, Replaced, Take, OthersKept, TypeOK
    <3>2. queue[q].index \in Positions
      BY <2>3, CurrentTyped DEF Start
    <3>3. CASE queue' = queue /\ item' = item
      BY <3>1, <3>3, LinksLock
    <3>4. CASE /\ Replaced(q, queue[q].index, [NewItem(Current(q).op) EXCEPT !.status = "NLU_RUNNING"])
               /\ Saved(q, "RUNNING", queue[q].index)
      <4>1. PICK it : it = [NewItem(Current(q).op) EXCEPT !.status = "NLU_RUNNING"]
        OBVIOUS
      <4>2. it.status # "DESIGNING"
        BY <4>1 DEF NewItem
      <4>3. PICK i \in Positions : i = queue[q].index
        BY <3>2
      <4>4. QED
        BY <3>1, <3>4, <4>1, <4>2, <4>3, LinksSaved
    <3>5. QED
      BY <2>3, <3>3, <3>4 DEF Start
  <2>4. ASSUME Approve(q) PROVE \A p \in Queues : LinksWorkflow(p)'
    <3>1. OthersKept(q) /\ txn'[q].step = "save_approved"
      BY <2>4, <1>t DEF Approve, Take, OthersKept, TypeOK
    <3>2. LinksWorkflow(q)'
      BY <2>4, <3>1 DEF Approve, LinksWorkflow, Current, At
    <3>3. QED
      BY <3>1, <3>2, LinksOthers
  <2>5. ASSUME Retry(q) PROVE \A p \in Queues : LinksWorkflow(p)'
    <3>1. OthersKept(q) /\ txn'[q].step = "save_retry"
      BY <2>5, <1>t DEF Retry, Take, OthersKept, TypeOK
    <3>2. LinksWorkflow(q)'
      BY <2>5, <3>1 DEF Retry, LinksWorkflow, CurrentIs, HasCurrent, Current, At, RetryPosition, SkippedSingle
    <3>3. QED
      BY <3>1, <3>2, LinksOthers
  <2>6. ASSUME SkipLast(q) PROVE \A p \in Queues : LinksWorkflow(p)'
    <3>1. OthersKept(q) /\ txn'[q].step = "free"
      BY <2>6, <1>t DEF SkipLast, Skippable, Saved, Replaced, OthersKept, TypeOK, At
    <3>2. QED
      BY <2>6, <3>1, LinksEnded DEF SkipLast
  <2>7. ASSUME SkipAndAdvance(q) PROVE \A p \in Queues : LinksWorkflow(p)'
    <3>1. OthersKept(q) /\ txn'[q].step = "free"
      BY <2>7, <1>t DEF SkipAndAdvance, Skippable, Saved, OthersKept, TypeOK, At
    <3>2. queue[q].index \in Positions /\ queue[q].index + 1 \in Positions
      BY <2>7, CurrentTyped, QueueAssumption DEF SkipAndAdvance, Positions, QueueAssumption
    <3>3. queue'[q].index = queue[q].index + 1 /\ item'[q][queue[q].index + 1].status = "NLU_RUNNING"
      BY <2>7, <1>t, <3>2 DEF SkipAndAdvance, Saved, TypeOK, Queue, NewItem, Item, Positions
    <3>4. LinksWorkflow(q)'
      BY <3>1, <3>3 DEF LinksWorkflow, CurrentIs, Current, At
    <3>5. QED
      BY <3>1, <3>4, LinksOthers
  <2>8. QED
    BY <1>1, <2>1, <2>2, <2>3, <2>4, <2>5, <2>6, <2>7 DEF Request
<1>2. ASSUME NEW q \in Queues, Progress(q) PROVE \A p \in Queues : LinksWorkflow(p)'
  <2>1. ASSUME CreateSave(q) PROVE \A p \in Queues : LinksWorkflow(p)'
    <3>1. /\ OthersKept(q) /\ 1 \in Positions
          /\ queue'[q].index = 1 /\ item'[q][1] = NewItem(creating.op) /\ txn' = txn
      BY <2>1, <1>t, QueueAssumption DEF CreateSave, TypeOK, OthersKept, Positions, QueueAssumption
    <3>2. ~Exists(q)
      BY <2>1, QueueAssumption DEF CreateSave, IInv, CreatingIsNew, NotCreating, QueueAssumption
    <3>3. At(q, "free")
      BY <3>2, BusyExists
    <3>4. LinksWorkflow(q)'
      BY <3>1, <3>3 DEF LinksWorkflow, CurrentIs, Current, At, NewItem
    <3>5. QED
      BY <3>1, <3>4, LinksOthers
  <2>2. ASSUME NluSucceeds(q) \/ NluFails(q) \/ DesignFails(q) \/ SaveFinalCases(q) \/ \E verdict : DesignCompletes(q, verdict)
        PROVE  \A p \in Queues : LinksWorkflow(p)'
    <3>1. OthersKept(q) /\ queue' = queue /\ item' = item
      BY <2>2, <1>t DEF NluSucceeds, NluFails, DesignFails, SaveFinalCases, DesignCompletes,
         Proceed, OthersKept, TypeOK
    <3>2. \E step : step \notin {"save_approved", "save_retry"} /\ Proceed(q, step)
      BY <2>2 DEF NluSucceeds, NluFails, DesignFails, SaveFinalCases, DesignCompletes
    <3>3. txn'[q].step \notin {"save_approved", "save_retry"}
      BY <3>2, <1>t DEF Proceed, TypeOK, Txn
    <3>4. QED
      BY <3>1, <3>3, LinksLock
  <2>3. ASSUME CompleteAndAdvance(q) PROVE \A p \in Queues : LinksWorkflow(p)'
    <3>1. OthersKept(q) /\ txn'[q].step = "run_nlu"
      BY <2>3, <1>t DEF CompleteAndAdvance, Proceed, Saved, OthersKept, TypeOK, Txn
    <3>2. queue[q].index \in Positions /\ queue[q].index + 1 \in Positions
      BY <2>3, CurrentTyped, QueueAssumption DEF CompleteAndAdvance, At, Positions, QueueAssumption
    <3>i. PICK i \in Positions : i = queue[q].index /\ i + 1 \in Positions
      BY <3>2
    <3>n. PICK it \in Item : it = item[q][i + 1]
      BY <3>i, <1>t DEF TypeOK
    <3>c. PICK done : done = CompletedItem(q)
      OBVIOUS
    <3>e. item' = [item EXCEPT ![q][i] = done,
                     ![q][i + 1] = [@ EXCEPT !.status = "NLU_RUNNING", !.stage = "NLU"]]
      BY <2>3, <3>i, <3>c DEF CompleteAndAdvance
    <3>u. item'[q][i + 1] = [it EXCEPT !.status = "NLU_RUNNING", !.stage = "NLU"]
      BY <3>e, <3>i, <3>n, <1>t DEF TypeOK, Positions
    <3>3. queue'[q].index = queue[q].index + 1 /\ item'[q][queue[q].index + 1].status = "NLU_RUNNING"
      BY <2>3, <1>t, <3>i, <3>u DEF CompleteAndAdvance, Saved, TypeOK, Queue, Item
    <3>4. LinksWorkflow(q)'
      BY <3>1, <3>3 DEF LinksWorkflow, CurrentIs, Current, At
    <3>5. QED
      BY <3>1, <3>4, LinksOthers
  <2>4. ASSUME SaveWaiting(q) \/ SaveFailed(q) \/ SaveClarification(q) \/ SaveApproved(q)
        PROVE  \A p \in Queues : LinksWorkflow(p)'
    <3>1. OthersKept(q) /\ txn'[q].step = "free"
      BY <2>4, <1>t DEF SaveWaiting, SaveFailed, SaveClarification, SaveApproved, Saved, Replaced,
         Finish, Free, OthersKept, TypeOK
    <3>2. queue[q].index \in Positions /\ Current(q) \in Item /\ ~At(q, "free")
      BY <2>4, CurrentTyped DEF SaveWaiting, SaveFailed, SaveClarification, SaveApproved, At
    <3>3. At(q, "save_approved") => Current(q).workflow
      BY DEF LinksWorkflow
    <3>4. PICK i \in Positions : i = queue[q].index
      BY <3>2
    <3>5. PICK cur \in Item : cur = Current(q)
      BY <3>2
    <3>6. \E status : Saved(q, status, i)
      BY <2>4, <3>4 DEF SaveWaiting, SaveFailed, SaveClarification, SaveApproved
    <3>7. ASSUME SaveApproved(q)
          PROVE  \E it : Replaced(q, i, it) /\ (it.status = "DESIGNING" => it.workflow)
      <4>1. PICK it : it = [cur EXCEPT !.status = "DESIGNING", !.stage = "DESIGNER"]
        OBVIOUS
      <4>2. it.workflow
        BY <3>3, <3>5, <3>7, <4>1 DEF Item, SaveApproved
      <4>3. QED
        BY <3>4, <3>5, <3>7, <4>1, <4>2 DEF SaveApproved
    <3>8. ASSUME SaveWaiting(q) \/ SaveFailed(q) \/ SaveClarification(q)
          PROVE  \E it : Replaced(q, i, it) /\ (it.status = "DESIGNING" => it.workflow)
      <4>1. PICK it : /\ Replaced(q, i, it)
                      /\ \/ it = [cur EXCEPT !.status = "WAITING_REQUIREMENT_APPROVAL",
                                            !.stage = "REQUIREMENT_APPROVAL", !.workflow = TRUE]
                         \/ it = [cur EXCEPT !.status = "FAILED"]
                         \/ it = [cur EXCEPT !.status = "FAILED", !.stage = "REVIEWER", !.final = TRUE]
        BY <3>4, <3>5, <3>8 DEF SaveWaiting, SaveFailed, SaveClarification
      <4>2. it.status # "DESIGNING"
        BY <4>1 DEF Item
      <4>3. QED
        BY <4>1, <4>2
    <3>9. QED
      BY <2>4, <3>1, <3>6, <3>7, <3>8, LinksSaved
  <2>5. ASSUME CompleteLast(q) PROVE \A p \in Queues : LinksWorkflow(p)'
    <3>1. OthersKept(q) /\ txn'[q].step = "free"
      BY <2>5, <1>t DEF CompleteLast, Saved, Replaced, Finish, Free, OthersKept, TypeOK
    <3>2. QED
      BY <2>5, <3>1, LinksEnded DEF CompleteLast
  <2>6. ASSUME SaveRetry(q) PROVE \A p \in Queues : LinksWorkflow(p)'
    <3>1. OthersKept(q) /\ txn'[q].step = "free"
      BY <2>6, <1>t DEF SaveRetry, Saved, Replaced, Finish, Free, OthersKept, TypeOK
    <3>2. RetryPosition(q) \in Positions /\ item[q][RetryPosition(q)] \in Item /\ item[q][RetryPosition(q)].workflow
      BY <2>6, RetryTyped DEF SaveRetry, LinksWorkflow
    <3>3. PICK i \in Positions : i = RetryPosition(q)
      BY <3>2
    <3>4. PICK it : it = [item[q][i] EXCEPT !.status = "DESIGNING", !.stage = "DESIGNER", !.final = FALSE]
      OBVIOUS
    <3>5. it.workflow
      BY <3>2, <3>3, <3>4 DEF Item
    <3>6. QED
      BY <2>6, <3>1, <3>3, <3>4, <3>5, LinksSaved DEF SaveRetry
  <2>7. ASSUME NEW job \in Job, Submit(job) PROVE \A p \in Queues : LinksWorkflow(p)'
    BY <2>7, <1>k DEF Submit
  <2>8. ASSUME BeginDesign(q) \/ BeginNextNlu(q) PROVE \A p \in Queues : LinksWorkflow(p)'
    <3>1. OthersKept(q) /\ queue' = queue /\ item' = item
      BY <2>8, <1>t DEF BeginDesign, BeginNextNlu, Reject, Take, OthersKept, TypeOK
    <3>2. txn'[q].step \notin {"save_approved", "save_retry"}
      BY <2>8, <1>t DEF BeginDesign, BeginNextNlu, Reject, Take, At, TypeOK, Txn
    <3>3. QED
      BY <3>1, <3>2, LinksLock
  <2>9. QED
    BY <1>2, <2>1, <2>2, <2>3, <2>4, <2>5, <2>6, <2>7, <2>8 DEF Progress
<1>3. ASSUME Fault PROVE \A p \in Queues : LinksWorkflow(p)'
  <2>1. ASSUME NEW q \in Queues, StopsHalfway(q) \/ FinalCasesNotSaved(q)
        PROVE  \A p \in Queues : LinksWorkflow(p)'
    <3>1. OthersKept(q) /\ queue' = queue /\ item' = item
      BY <2>1, <1>t DEF StopsHalfway, FinalCasesNotSaved, Finish, Proceed, OthersKept, TypeOK
    <3>2. txn'[q].step \notin {"save_approved", "save_retry"}
      BY <2>1, <1>t DEF StopsHalfway, FinalCasesNotSaved, Finish, Free, Proceed, TypeOK, Txn
    <3>3. QED
      BY <3>1, <3>2, LinksLock
  <2>2. ASSUME CreateNotSaved PROVE \A p \in Queues : LinksWorkflow(p)'
    BY <2>2, <1>k DEF CreateNotSaved
  <2>3. ASSUME Restart PROVE \A p \in Queues : LinksWorkflow(p)'
    <3>1. \A p \in Queues : /\ queue'[p].index = queue[p].index /\ queue'[p].size = queue[p].size
                            /\ txn'[p].step = "free"
      BY <2>3, <1>t DEF Restart, Free, TypeOK, Queue
    <3>2. QED
      BY <2>3, <3>1 DEF Restart, LinksWorkflow, CurrentIs, HasCurrent, Current, At
  <2>4. QED
    BY <1>3, <2>1, <2>2, <2>3 DEF Fault
<1>4. QED
  BY <1>1, <1>2, <1>3 DEF Next


\* A queue that keeps its status, its lock and its jobs.
LEMMA WorkedKept ==
  ASSUME NEW p \in Queues, WorkedOn(p), queue'[p].status = queue[p].status, txn'[p] = txn[p],
         (NoHandoff(p) /\ NoJob(p))' => NoHandoff(p) /\ NoJob(p)
  PROVE  WorkedOn(p)'
BY DEF WorkedOn

\* No job is lost, and the queue of the step is worked on or not running.
LEMMA WorkedOthers ==
  ASSUME NEW q \in Queues, \A p \in Queues : WorkedOn(p), OthersKept(q),
         handoff \subseteq handoff', jobs' = jobs,
         queue'[q].status # "RUNNING" \/ txn'[q].step # "free" \/ \E job \in handoff' : job.q = q
  PROVE  \A p \in Queues : WorkedOn(p)'
<1>1. WorkedOn(q)'
  BY DEF WorkedOn, NoHandoff
<1>2. ASSUME NEW p \in Queues, p # q PROVE WorkedOn(p)'
  <2>1. (NoHandoff(p) /\ NoJob(p))' => NoHandoff(p) /\ NoJob(p)
    BY DEF NoHandoff, NoJob
  <2>2. queue'[p].status = queue[p].status /\ txn'[p] = txn[p]
    BY <1>2 DEF OthersKept
  <2>3. QED
    BY <2>1, <2>2, WorkedKept
<1>3. QED
  BY <1>1, <1>2

LEMMA WorkedFinish ==
  ASSUME IInv, NEW q \in Queues, \A p \in Queues : WorkedOn(p), OthersKept(q),
         ~At(q, "free"), NEW C, Finish(q, C),
         queue'[q].status # "RUNNING" \/ \E job \in C : job.q = q
  PROVE  \A p \in Queues : WorkedOn(p)'
<1>1. WorkedOn(q)'
  BY DEF WorkedOn, NoHandoff, Finish
<1>2. ASSUME NEW p \in Queues, p # q PROVE WorkedOn(p)'
  <2>1. NoHandoff(p)' => NoHandoff(p)
    BY DEF NoHandoff, Finish
  <2>2. NoJob(p)' => NoJob(p)
    <3>1. CASE txn[q].by = "worker"
      <4>1. jobs # <<>> /\ Head(jobs).q = q /\ jobs' = Tail(jobs)
        BY <3>1 DEF IInv, WorkerHasJob, At, Finish
      <4>2. /\ Len(jobs) \in Nat /\ Len(jobs) >= 1 /\ jobs[1].q = q /\ Len(jobs') = Len(jobs) - 1
            /\ \A n \in 1..Len(jobs') : jobs'[n] = jobs[n + 1]
        BY <4>1, HeadTailProperties, EmptySeq, LenProperties DEF IInv, TypeOK
      <4>3. ASSUME NoJob(p)', NEW n \in 1..Len(jobs) PROVE jobs[n].q # p
        <5>1. CASE n = 1
          BY <1>2, <4>2, <5>1
        <5>2. CASE n # 1
          <6>1. n - 1 \in 1..Len(jobs') /\ jobs'[n - 1] = jobs[(n - 1) + 1] /\ (n - 1) + 1 = n
            BY <4>2, <5>2
          <6>2. QED
            BY <4>3, <6>1 DEF NoJob
        <5>3. QED
          BY <5>1, <5>2
      <4>4. QED
        BY <4>3 DEF NoJob
    <3>2. CASE txn[q].by # "worker"
      BY <3>2 DEF Finish, NoJob
    <3>3. QED
      BY <3>1, <3>2
  <2>3. queue'[p].status = queue[p].status /\ txn'[p] = txn[p]
    BY <1>2 DEF OthersKept
  <2>4. QED
    BY <2>1, <2>2, <2>3, WorkedKept
<1>3. QED
  BY <1>1, <1>2

LEMMA WorkedSubmit ==
  ASSUME IInv, NEW job \in Job, \A p \in Queues : WorkedOn(p), Submit(job)
  PROVE  \A p \in Queues : WorkedOn(p)'
<1>1. /\ jobs \in Seq(Job) /\ Len(jobs) \in Nat /\ Len(jobs') = Len(jobs) + 1
      /\ jobs'[Len(jobs) + 1] = job
      /\ \A n \in 1..Len(jobs) : jobs'[n] = jobs[n]
  BY AppendProperties, LenProperties DEF IInv, TypeOK, Submit
<1>2. ~NoJob(job.q)'
  BY <1>1 DEF NoJob
<1>3. ASSUME NEW p \in Queues PROVE WorkedOn(p)'
  <2>1. CASE p = job.q
    BY <1>2, <2>1 DEF WorkedOn
  <2>2. CASE p # job.q
    <3>1. NoJob(p)' => NoJob(p)
      BY <1>1 DEF NoJob
    <3>2. NoHandoff(p)' => NoHandoff(p)
      BY <2>2 DEF NoHandoff, Submit
    <3>3. queue'[p].status = queue[p].status /\ txn'[p] = txn[p]
      BY DEF Submit
    <3>4. QED
      BY <3>1, <3>2, <3>3, WorkedKept
  <2>3. QED
    BY <2>1, <2>2
<1>4. QED
  BY <1>3

\* The thread never refuses a job.
LEMMA NeverRejects ==
  ASSUME IInv, NEW q \in Queues, OneContinuation(q), LinksWorkflow(q),
         BeginDesign(q) \/ BeginNextNlu(q)
  PROVE  jobs' = jobs /\ handoff' = handoff /\ queue' = queue /\ txn'[q].step # "free"
<1>1. /\ At(q, "free") /\ jobs # <<>> /\ Head(jobs).q = q
      /\ BeginDesign(q) => Head(jobs).kind = "continue_after_approval"
      /\ BeginNextNlu(q) => Head(jobs).kind = "continue_after_skip"
  BY DEF BeginDesign, BeginNextNlu, HeadIs
<1>2. 1 \in 1..Len(jobs) /\ jobs[1] = Head(jobs)
  BY <1>1, EmptySeq, LenProperties, HeadTailProperties DEF IInv, TypeOK
<1>3. AsExpected(q, jobs[1].kind)
  BY <1>1, <1>2 DEF OneContinuation, Works, At
<1>4. CASE BeginDesign(q)
  <2>1. CurrentIs(q, "DESIGNING") /\ Current(q).workflow
    BY <1>1, <1>2, <1>3, <1>4 DEF AsExpected, LinksWorkflow
  <2>2. jobs' = jobs /\ \E step \in {"run_design", "save_failed"} : Take(q, step, "worker")
    BY <1>4, <2>1 DEF BeginDesign
  <2>3. QED
    BY <1>4, <2>2 DEF BeginDesign, Take, IInv, TypeOK
<1>5. CASE BeginNextNlu(q)
  <2>1. queue[q].status = "RUNNING" /\ CurrentIs(q, "NLU_RUNNING")
    BY <1>1, <1>2, <1>3, <1>5 DEF AsExpected
  <2>2. jobs' = jobs /\ Take(q, "run_nlu", "worker")
    BY <1>5, <2>1 DEF BeginNextNlu
  <2>3. QED
    BY <1>5, <2>2 DEF BeginNextNlu, Take, IInv, TypeOK
<1>6. QED
  BY <1>4, <1>5

LEMMA WorkedStep ==
  ASSUME ~MayCrash, ~MayFault, IInv, Next, \A p \in Queues : OneContinuation(p),
         \A p \in Queues : LinksWorkflow(p), \A p \in Queues : WorkedOn(p)
  PROVE  \A p \in Queues : WorkedOn(p)'
<1>t. TypeOK
  BY DEF IInv
<1>k. ASSUME queue' = queue, txn' = txn, handoff' = handoff, jobs' = jobs
      PROVE  \A p \in Queues : WorkedOn(p)'
  BY <1>k DEF WorkedOn, NoHandoff, NoJob
<1>1. ASSUME NEW q \in Queues, Request(q) PROVE \A p \in Queues : WorkedOn(p)'
  <2>1. ASSUME (\E op \in Operations : CreateCheck(q, op)) \/ \E i \in Positions : Reanalyse(q, i)
        PROVE  \A p \in Queues : WorkedOn(p)'
    BY <2>1, <1>k DEF CreateCheck, Reanalyse
  <2>2. ASSUME Start(q) \/ Approve(q) \/ Retry(q) PROVE \A p \in Queues : WorkedOn(p)'
    <3>1. OthersKept(q) /\ UNCHANGED <<handoff, jobs>> /\ txn'[q].step # "free"
      BY <2>2, <1>t DEF Start, Approve, Retry, Saved, Replaced, Take, OthersKept, TypeOK
    <3>2. QED
      BY <3>1, WorkedOthers
  <2>3. ASSUME SkipLast(q) PROVE \A p \in Queues : WorkedOn(p)'
    <3>1. OthersKept(q) /\ UNCHANGED <<handoff, jobs>>
      BY <2>3, <1>t DEF SkipLast, Saved, Replaced, OthersKept, TypeOK
    <3>2. queue'[q].status # "RUNNING"
      BY <2>3, <1>t DEF SkipLast, Saved, TypeOK, Queue
    <3>3. QED
      BY <3>1, <3>2, WorkedOthers
  <2>4. ASSUME SkipAndAdvance(q) PROVE \A p \in Queues : WorkedOn(p)'
    <3>1. OthersKept(q) /\ jobs' = jobs
      BY <2>4, <1>t DEF SkipAndAdvance, Saved, OthersKept, TypeOK
    <3>2. handoff' = handoff \cup {[kind |-> "continue_after_skip", q |-> q]}
      BY <2>4 DEF SkipAndAdvance, Continue
    <3>3. \E job \in handoff' : job.q = q
      <4>1. PICK job : job = [kind |-> "continue_after_skip", q |-> q]
        OBVIOUS
      <4>2. job \in handoff' /\ job.q = q
        BY <3>2, <4>1
      <4>3. QED
        BY <4>2
    <3>4. QED
      BY <3>1, <3>2, <3>3, WorkedOthers
  <2>5. QED
    BY <1>1, <2>1, <2>2, <2>3, <2>4 DEF Request
<1>2. ASSUME NEW q \in Queues, Progress(q) PROVE \A p \in Queues : WorkedOn(p)'
  <2>1. ASSUME CreateSave(q) PROVE \A p \in Queues : WorkedOn(p)'
    <3>1. OthersKept(q) /\ UNCHANGED <<handoff, jobs>> /\ queue'[q].status # "RUNNING"
      BY <2>1, <1>t DEF CreateSave, OthersKept, TypeOK
    <3>2. QED
      BY <3>1, WorkedOthers
  <2>2. ASSUME \/ NluSucceeds(q) \/ NluFails(q) \/ DesignFails(q) \/ SaveFinalCases(q)
               \/ CompleteAndAdvance(q) \/ \E verdict : DesignCompletes(q, verdict)
        PROVE  \A p \in Queues : WorkedOn(p)'
    <3>1. OthersKept(q) /\ UNCHANGED <<handoff, jobs>>
      BY <2>2, <1>t DEF NluSucceeds, NluFails, DesignFails, SaveFinalCases, CompleteAndAdvance,
         DesignCompletes, Saved, Proceed, OthersKept, TypeOK
    <3>2. \E step : step # "free" /\ Proceed(q, step)
      BY <2>2 DEF NluSucceeds, NluFails, DesignFails, SaveFinalCases, CompleteAndAdvance, DesignCompletes
    <3>3. txn'[q].step # "free"
      BY <3>2, <1>t DEF Proceed, TypeOK, Txn
    <3>4. QED
      BY <3>1, <3>3, WorkedOthers
  <2>3. ASSUME SaveWaiting(q) \/ SaveFailed(q) \/ SaveClarification(q) \/ CompleteLast(q)
        PROVE  \A p \in Queues : WorkedOn(p)'
    <3>1. OthersKept(q) /\ ~At(q, "free") /\ Finish(q, {})
      BY <2>3, <1>t DEF SaveWaiting, SaveFailed, SaveClarification, CompleteLast, Saved, Replaced,
         Finish, OthersKept, TypeOK, At
    <3>2. \E status, i : status # "RUNNING" /\ Saved(q, status, i)
      BY <2>3 DEF SaveWaiting, SaveFailed, SaveClarification, CompleteLast
    <3>3. queue'[q].status # "RUNNING"
      BY <3>2, <1>t DEF Saved, TypeOK, Queue
    <3>4. QED
      BY <3>1, <3>3, WorkedFinish
  <2>4. ASSUME SaveApproved(q) \/ SaveRetry(q) PROVE \A p \in Queues : WorkedOn(p)'
    <3>1. OthersKept(q) /\ ~At(q, "free") /\ Finish(q, Continue("continue_after_approval", q))
      BY <2>4, <1>t DEF SaveApproved, SaveRetry, Saved, Replaced, Finish, OthersKept, TypeOK, At
    <3>2. \E job \in Continue("continue_after_approval", q) : job.q = q
      BY DEF Continue
    <3>3. QED
      BY <3>1, <3>2, WorkedFinish
  <2>5. ASSUME NEW job \in Job, Submit(job) PROVE \A p \in Queues : WorkedOn(p)'
    BY <2>5, WorkedSubmit
  <2>6. ASSUME BeginDesign(q) \/ BeginNextNlu(q) PROVE \A p \in Queues : WorkedOn(p)'
    <3>1. OthersKept(q)
      BY <2>6, <1>t DEF BeginDesign, BeginNextNlu, Reject, Take, OthersKept, TypeOK
    <3>2. jobs' = jobs /\ handoff' = handoff /\ txn'[q].step # "free"
      BY <2>6, NeverRejects
    <3>3. QED
      BY <3>1, <3>2, WorkedOthers
  <2>7. QED
    BY <1>2, <2>1, <2>2, <2>3, <2>4, <2>5, <2>6 DEF Progress
<1>3. ASSUME Fault PROVE \A p \in Queues : WorkedOn(p)'
  BY <1>3, <1>k DEF Fault, StopsHalfway, FinalCasesNotSaved, CreateNotSaved, Restart
<1>4. QED
  BY <1>1, <1>2, <1>3 DEF Next

LEMMA IsWorkedOn ==
  ASSUME \A p \in Queues : WorkedOn(p)
  PROVE  RunningQueuesAreWorkedOn
<1> SUFFICES ASSUME NEW q \in Queues, queue[q].status = "RUNNING", txn[q].step = "free"
             PROVE  Waiting(q) # {}
  BY DEF RunningQueuesAreWorkedOn
<1>1. ~NoHandoff(q) \/ ~NoJob(q)
  BY DEF WorkedOn
<1>2. QED
  BY <1>1 DEF NoHandoff, NoJob, Waiting

\* In a process that lives, with files that can be written, some thread or
\* some job is always there for a queue the user sees running.
THEOREM WorkedOnCorrect ==
  ASSUME ~MayCrash, ~MayFault
  PROVE  Spec => []RunningQueuesAreWorkedOn
<1> DEFINE Continuations == \A p \in Queues : OneContinuation(p)
           Links == \A p \in Queues : LinksWorkflow(p)
           Worked == \A p \in Queues : WorkedOn(p)
<1>1. Init => Continuations /\ Links /\ Worked
  <2> SUFFICES ASSUME Init, NEW q \in Queues
               PROVE  OneContinuation(q) /\ LinksWorkflow(q) /\ WorkedOn(q)
    OBVIOUS
  <2>1. 1 \in Positions
    BY QueueAssumption DEF QueueAssumption, Positions
  <2>2. /\ queue[q].status = "PENDING" /\ queue[q].index = 1 /\ txn[q].step = "free"
        /\ item[q][1].status = "PENDING"
    BY <2>1 DEF Init, Free, NewItem
  <2>3. OneContinuation(q)
    BY EmptySeq DEF Init, OneContinuation
  <2>4. LinksWorkflow(q) /\ WorkedOn(q)
    BY <2>2 DEF LinksWorkflow, WorkedOn, CurrentIs, Current, At
  <2>5. QED
    BY <2>3, <2>4
<1>2. IInv /\ Continuations /\ Links /\ Worked /\ [Next]_vars => Continuations' /\ Links' /\ Worked'
  <2>1. ASSUME IInv, Continuations, Links, Worked, Next PROVE Continuations' /\ Links' /\ Worked'
    BY <2>1, ContinuationStep, LinksStep, WorkedStep
  <2>2. ASSUME Continuations, Links, Worked, UNCHANGED vars PROVE Continuations' /\ Links' /\ Worked'
    BY <2>2, ContinuationKept, LinksKept DEF vars, WorkedOn, NoHandoff, NoJob
  <2>3. QED
    BY <2>1, <2>2
<1>3. Worked => RunningQueuesAreWorkedOn
  BY IsWorkedOn
<1>4. QED
  BY Invariant, <1>1, <1>2, <1>3, PTL DEF Spec


-----------------------------------------------------------------------------
(* One queue at a time, and the one way to have two.                        *)

\* The save of a retry that takes a queue up again which had been skipped.
Revives(q) == SaveRetry(q) /\ queue[q].status = "SKIPPED"

\* As long as a queue is about to be created none is active.
Single == OneActiveQueue /\ (creating # NotCreating => \A p \in Queues : ~Active(p))

\* Queues of this session and their status, if no queue comes into being.
LEMMA SessionsKept ==
  ASSUME TypeOK, Next, \A q \in Queues : ~CreateSave(q)
  PROVE  \A q \in Queues : queue'[q].session = "current" => queue[q].session = "current"
<1>1. TypeOK
  OBVIOUS
<1>2. ASSUME UNCHANGED queue
      PROVE  \A q \in Queues : queue'[q].session = "current" => queue[q].session = "current"
  BY <1>2
<1>3. ASSUME NEW q \in Queues, NEW status, NEW i, Saved(q, status, i)
      PROVE  \A p \in Queues : queue'[p].session = "current" => queue[p].session = "current"
  BY <1>1, <1>3 DEF Saved, TypeOK, Queue
<1>4. ASSUME NEW q \in Queues, Request(q)
      PROVE  UNCHANGED queue \/ \E status, i : Saved(q, status, i)
  BY <1>4 DEF Request, CreateCheck, Start, Approve, Retry, SkipLast, SkipAndAdvance, Reanalyse
<1>5. ASSUME NEW q \in Queues, Progress(q)
      PROVE  UNCHANGED queue \/ \E status, i : Saved(q, status, i)
  BY <1>5 DEF Progress, NluSucceeds, NluFails, SaveWaiting, SaveFailed, SaveApproved, SaveRetry,
     Submit, BeginDesign, BeginNextNlu, DesignCompletes, DesignFails, SaveFinalCases,
     SaveClarification, CompleteLast, CompleteAndAdvance
<1>6. ASSUME Fault
      PROVE  \A q \in Queues : queue'[q].session = "current" => queue[q].session = "current"
  <2>1. CASE Restart
    BY <1>1, <2>1 DEF Restart, TypeOK, Queue
  <2>2. CASE ~Restart
    BY <1>2, <1>6, <2>2 DEF Fault, StopsHalfway, FinalCasesNotSaved, CreateNotSaved
  <2> QED BY <2>1, <2>2
<1>7. CASE \E q \in Queues : Request(q) \/ Progress(q)
  <2>1. PICK q \in Queues : Request(q) \/ Progress(q)
    BY <1>7
  <2>2. UNCHANGED queue \/ \E status, i : Saved(q, status, i)
    BY <1>4, <1>5, <2>1
  <2> QED BY <1>2, <1>3, <2>2
<1> QED BY <1>6, <1>7 DEF Next

\* A queue that is skipped stays so, unless a retry takes it up again.
LEMMA SkippedKept ==
  ASSUME IInv, Next, \A q \in Queues : ~Revives(q)
  PROVE  \A q \in Queues : Exists(q) /\ queue[q].status = "SKIPPED" => queue'[q].status = "SKIPPED"
<1> SUFFICES ASSUME NEW p \in Queues, Exists(p), queue[p].status = "SKIPPED"
             PROVE  queue'[p].status = "SKIPPED"
  OBVIOUS
<1>1. /\ TypeOK /\ queue[p].index = queue[p].size + 1 /\ QueueInv(p)
      /\ queue[p].size \in Nat /\ ~HasCurrent(p)
  BY DEF IInv, QueueInv, StatusOfItem, Settled, HasCurrent, TypeOK, Queue, QueueAssumption
<1>2. txn[p].step \in {"free", "save_retry"}
  BY <1>1 DEF QueueInv, LockOfItem, CurrentIs, TypeOK, Txn, Steps
<1>3. ASSUME NEW q \in Queues, q # p, NEW status, NEW i, Saved(q, status, i)
      PROVE  queue'[p].status = "SKIPPED"
  BY <1>1, <1>3 DEF Saved, TypeOK
<1>4. ASSUME NEW q \in Queues, Request(q) PROVE queue'[p].status = "SKIPPED"
  <2>1. CASE UNCHANGED queue
    BY <2>1
  <2>2. CASE Start(q) \/ SkipLast(q) \/ SkipAndAdvance(q)
    <3>1. q # p
      BY <2>2 DEF Start, SkipLast, SkipAndAdvance, Skippable
    <3>2. UNCHANGED queue \/ \E status, i : Saved(q, status, i)
      BY <2>2 DEF Start, SkipLast, SkipAndAdvance
    <3> QED BY <1>3, <2>1, <3>1, <3>2
  <2>3. CASE \/ Approve(q) \/ Retry(q) \/ \E op \in Operations : CreateCheck(q, op)
             \/ \E i \in Positions : Reanalyse(q, i)
    BY <2>3 DEF Approve, Retry, CreateCheck, Reanalyse
  <2> QED BY <1>4, <2>2, <2>3 DEF Request
<1>5. ASSUME NEW q \in Queues, Progress(q) PROVE queue'[p].status = "SKIPPED"
  <2>1. CASE UNCHANGED queue
    BY <2>1
  <2>2. CASE CreateSave(q)
    <3>1. ~Exists(q)
      BY <2>2, QueueAssumption DEF CreateSave, IInv, CreatingIsNew, NotCreating, QueueAssumption
    <3> QED BY <1>1, <2>2, <3>1 DEF CreateSave, TypeOK
  <2>3. CASE \/ SaveWaiting(q) \/ SaveFailed(q) \/ SaveApproved(q)
             \/ SaveClarification(q) \/ CompleteLast(q) \/ CompleteAndAdvance(q)
    <3>1. q # p
      BY <1>2, <2>3 DEF SaveWaiting, SaveFailed, SaveApproved, SaveClarification, CompleteLast,
         CompleteAndAdvance, At
    <3>2. \E status, i : Saved(q, status, i)
      BY <2>3 DEF SaveWaiting, SaveFailed, SaveApproved, SaveClarification, CompleteLast,
         CompleteAndAdvance
    <3> QED BY <1>3, <3>1, <3>2
  <2>4. CASE SaveRetry(q)
    <3>1. q # p
      BY <2>4 DEF Revives
    <3>2. \E status, i : Saved(q, status, i)
      BY <2>4 DEF SaveRetry
    <3> QED BY <1>3, <3>1, <3>2
  <2>5. CASE \/ NluSucceeds(q) \/ NluFails(q) \/ BeginDesign(q) \/ BeginNextNlu(q)
             \/ DesignFails(q) \/ SaveFinalCases(q)
             \/ \E verdict \in {"FINAL_CASES_READY", "NEEDS_CLARIFICATION"} : DesignCompletes(q, verdict)
             \/ \E job \in Job : job.q = q /\ Submit(job)
    BY <2>5 DEF NluSucceeds, NluFails, BeginDesign, BeginNextNlu, DesignFails, SaveFinalCases,
       DesignCompletes, Submit
  <2> QED BY <1>5, <2>2, <2>3, <2>4, <2>5 DEF Progress
<1>6. ASSUME Fault PROVE queue'[p].status = "SKIPPED"
  <2>1. CASE Restart
    BY <1>1, <2>1 DEF Restart, TypeOK, Queue
  <2>2. CASE ~Restart
    BY <1>6, <2>2 DEF Fault, StopsHalfway, FinalCasesNotSaved, CreateNotSaved
  <2> QED BY <2>1, <2>2
<1> QED BY <1>4, <1>5, <1>6 DEF Next

\* A queue becomes active by being created or revived only.
LEMMA ActiveStep ==
  ASSUME IInv, Next, Frozen, \A q \in Queues : ~Revives(q), \A q \in Queues : ~CreateSave(q)
  PROVE  \A q \in Queues : Active(q)' => Active(q)
<1> SUFFICES ASSUME NEW q \in Queues, Active(q)', ~Active(q) PROVE FALSE
  OBVIOUS
<1>1. queue[q].session = "current" /\ queue'[q].status \notin Settled
  BY SessionsKept DEF IInv, Active
<1>2. queue[q].status \in Settled /\ Exists(q)
  BY <1>1 DEF Active, Exists
<1>3. CASE queue[q].status \in Ready
  BY <1>1, <1>3 DEF Frozen, Ready, Settled
<1>4. CASE queue[q].status = "SKIPPED"
  BY <1>1, <1>2, <1>4, SkippedKept DEF Settled
<1> QED BY <1>2, <1>3, <1>4 DEF Ready, Settled

\* What is being created changes where create does, where it fails, and where
\* the process dies.
LEMMA CreatingChanges ==
  ASSUME Next
  PROVE  \/ creating' = creating \/ creating' = NotCreating
         \/ \E q \in Queues, op \in Operations : CreateCheck(q, op)
<1>1. ASSUME NEW q \in Queues, Request(q)
      PROVE  creating' = creating \/ \E op \in Operations : CreateCheck(q, op)
  BY <1>1 DEF Request, Start, Approve, Retry, SkipLast, SkipAndAdvance, Reanalyse
<1>2. ASSUME NEW q \in Queues, Progress(q)
      PROVE  creating' = creating \/ creating' = NotCreating
  BY <1>2 DEF Progress, CreateSave, NluSucceeds, NluFails, SaveWaiting, SaveFailed, SaveApproved,
     SaveRetry, Submit, BeginDesign, BeginNextNlu, DesignCompletes, DesignFails, SaveFinalCases,
     SaveClarification, CompleteLast, CompleteAndAdvance
<1>3. ASSUME Fault PROVE creating' = creating \/ creating' = NotCreating
  BY <1>3 DEF Fault, StopsHalfway, FinalCasesNotSaved, CreateNotSaved, Restart
<1> QED BY <1>1, <1>2, <1>3 DEF Next

LEMMA SingleStep ==
  ASSUME IInv, Single, Next, Frozen, \A q \in Queues : ~Revives(q)
  PROVE  Single'
<1>1. CASE \E q \in Queues : CreateSave(q)
  <2>1. PICK q \in Queues : CreateSave(q)
    BY <1>1
  <2>2. creating # NotCreating /\ creating' = NotCreating
    BY <2>1, QueueAssumption DEF CreateSave, NotCreating, QueueAssumption
  <2>3. \A p \in Queues : p # q => queue'[p] = queue[p]
    BY <2>1 DEF CreateSave, IInv, TypeOK
  <2>4. \A p \in Queues : Active(p)' => p = q
    BY <2>2, <2>3 DEF Single, Active
  <2> QED BY <2>2, <2>4 DEF Single, OneActiveQueue
<1>2. CASE \A q \in Queues : ~CreateSave(q)
  <2>1. \A q \in Queues : Active(q)' => Active(q)
    BY <1>2, ActiveStep
  <2>2. creating' # NotCreating => \A p \in Queues : ~Active(p)
    BY CreatingChanges DEF Single, CreateCheck
  <2> QED BY <2>1, <2>2 DEF Single, OneActiveQueue, NotCreating
<1> QED BY <1>1, <1>2

\* Whatever crashes and whichever saves fail, one session has one unfinished
\* queue at a time (queue_service.py 70) unless a retry takes up again a queue
\* that was skipped: that is the only way to the second one which the run
\* ProcessingQueue_oneactive finds.
THEOREM OneActiveCorrect ==
  Spec /\ [][\A q \in Queues : ~Revives(q)]_vars => []OneActiveQueue
<1>1. Init => Single
  BY DEF Init, Single, OneActiveQueue, Active
<1>2. IInv /\ Single /\ [Next]_vars /\ [Frozen]_vars /\ [\A q \in Queues : ~Revives(q)]_vars => Single'
  <2>1. ASSUME IInv, Single, UNCHANGED vars PROVE Single'
    BY <2>1 DEF vars, Single, OneActiveQueue, Active, NotCreating
  <2> QED BY <2>1, SingleStep
<1>3. Single => OneActiveQueue
  BY DEF Single
<1>4. Spec => [][Frozen]_vars
  <2>1. IInv /\ IInv' /\ [Next]_vars => [Frozen]_vars
    BY FrozenStep DEF IInv
  <2> QED BY <2>1, Invariant, PTL DEF Spec
<1> QED BY <1>1, <1>2, <1>3, <1>4, Invariant, PTL DEF Spec

-----------------------------------------------------------------------------
(* What the thread leaves behind.                                           *)

\* Approving and retrying are saved by requests.
WorkerSteps ==
  \A q \in Queues : txn[q].by = "worker" => txn[q].step \notin {"save_approved", "save_retry"}

\* The thread stops between two saves.
Stops == Restart \/ \E q \in Queues : StopsHalfway(q)

Persisted ==
  \A q \in Queues : txn[q].by = "worker" /\ txn[q].step # "free" /\ txn'[q].step = "free"
    => queue'[q].status # "RUNNING"

LEMMA WorkerStepsStep ==
  ASSUME TypeOK, WorkerSteps, Next
  PROVE  WorkerSteps'
<1>1. TypeOK
  OBVIOUS
<1>2. ASSUME UNCHANGED txn PROVE WorkerSteps'
  BY <1>2 DEF WorkerSteps
<1>3. ASSUME NEW q \in Queues, NEW step \in Steps \ {"save_approved", "save_retry"}, Proceed(q, step)
      PROVE  WorkerSteps'
  BY <1>1, <1>3 DEF WorkerSteps, Proceed, TypeOK, Txn
<1>4. ASSUME NEW q \in Queues, NEW step \in Steps, NEW by \in {"request", "worker"},
             by = "request" \/ step \notin {"save_approved", "save_retry"}, Take(q, step, by)
      PROVE  WorkerSteps'
  BY <1>1, <1>4 DEF WorkerSteps, Take, TypeOK, Txn
<1>5. ASSUME NEW q \in Queues, NEW C, Finish(q, C) PROVE WorkerSteps'
  BY <1>1, <1>5 DEF WorkerSteps, Finish, Free, TypeOK, Txn
<1>6. ASSUME NEW q \in Queues, Request(q) PROVE WorkerSteps'
  BY <1>2, <1>4, <1>6 DEF Request, CreateCheck, Start, Approve, Retry, SkipLast, SkipAndAdvance,
     Reanalyse, Steps
<1>7. ASSUME NEW q \in Queues, Progress(q) PROVE WorkerSteps'
  <2>1. CASE \/ SaveWaiting(q) \/ SaveFailed(q) \/ SaveApproved(q) \/ SaveRetry(q)
             \/ SaveClarification(q) \/ CompleteLast(q)
    BY <1>5, <2>1 DEF SaveWaiting, SaveFailed, SaveApproved, SaveRetry, SaveClarification, CompleteLast
  <2>2. CASE \/ NluSucceeds(q) \/ NluFails(q) \/ DesignFails(q) \/ SaveFinalCases(q)
             \/ CompleteAndAdvance(q)
             \/ \E verdict \in {"FINAL_CASES_READY", "NEEDS_CLARIFICATION"} : DesignCompletes(q, verdict)
    BY <1>3, <2>2 DEF NluSucceeds, NluFails, DesignFails, SaveFinalCases, CompleteAndAdvance,
       DesignCompletes, Steps
  <2>3. CASE \/ CreateSave(q) \/ \E job \in Job : job.q = q /\ Submit(job)
    BY <1>2, <2>3 DEF CreateSave, Submit
  <2>4. CASE BeginDesign(q)
    <3>1. UNCHANGED txn \/ Take(q, "run_design", "worker") \/ Take(q, "save_failed", "worker")
      BY <2>4 DEF BeginDesign, Reject
    <3> QED BY <1>2, <1>4, <3>1 DEF Steps
  <2>5. CASE BeginNextNlu(q)
    <3>1. UNCHANGED txn \/ Take(q, "run_nlu", "worker")
      BY <2>5 DEF BeginNextNlu, Reject
    <3> QED BY <1>2, <1>4, <3>1 DEF Steps
  <2> QED BY <1>7, <2>1, <2>2, <2>3, <2>4, <2>5 DEF Progress
<1>8. ASSUME Fault PROVE WorkerSteps'
  <2>1. CASE Restart
    BY <2>1 DEF Restart, WorkerSteps, Free
  <2>2. CASE ~Restart
    BY <1>2, <1>3, <1>5, <1>8, <2>2 DEF Fault, StopsHalfway, FinalCasesNotSaved, CreateNotSaved, Steps
  <2> QED BY <2>1, <2>2
<1> QED BY <1>6, <1>7, <1>8 DEF Next

LEMMA PersistedStep ==
  ASSUME TypeOK, WorkerSteps, Next, ~Stops
  PROVE  Persisted
<1> SUFFICES ASSUME NEW p \in Queues, txn[p].by = "worker", txn[p].step # "free",
                    txn'[p].step = "free"
             PROVE  queue'[p].status # "RUNNING"
  BY DEF Persisted
<1>1. TypeOK /\ txn[p].step \notin {"save_approved", "save_retry"}
  BY DEF WorkerSteps
<1>2. ASSUME UNCHANGED txn PROVE FALSE
  BY <1>2
<1>3. ASSUME NEW q \in Queues, NEW step \in Steps \ {"free"}, NEW by,
             Proceed(q, step) \/ Take(q, step, by)
      PROVE  FALSE
  <2>1. step # "free"
    OBVIOUS
  <2>2. txn'[p] = txn[p] \/ txn'[p].step = step
    BY <1>1, <1>3 DEF Proceed, Take, TypeOK, Txn
  <2> QED BY <2>1, <2>2
<1>4. ASSUME NEW q \in Queues, NEW C, Finish(q, C) PROVE q = p
  BY <1>1, <1>4 DEF Finish, TypeOK
<1>5. ASSUME NEW q \in Queues, Request(q) PROVE FALSE
  BY <1>2, <1>3, <1>5 DEF Request, CreateCheck, Start, Approve, Retry, SkipLast, SkipAndAdvance,
     Reanalyse, Steps
<1>6. ASSUME NEW q \in Queues, Progress(q) PROVE queue'[p].status # "RUNNING"
  <2>1. CASE SaveWaiting(q) \/ SaveFailed(q) \/ SaveClarification(q) \/ CompleteLast(q)
    <3>1. q = p
      BY <1>4, <2>1 DEF SaveWaiting, SaveFailed, SaveClarification, CompleteLast
    <3>2. \E status, i : status # "RUNNING" /\ Saved(p, status, i)
      BY <2>1, <3>1 DEF SaveWaiting, SaveFailed, SaveClarification, CompleteLast
    <3> QED BY <1>1, <3>2 DEF Saved, TypeOK, Queue
  <2>2. CASE SaveApproved(q) \/ SaveRetry(q)
    <3>1. q = p
      BY <1>4, <2>2 DEF SaveApproved, SaveRetry
    <3> QED BY <1>1, <2>2, <3>1 DEF SaveApproved, SaveRetry, At
  <2>3. CASE \/ NluSucceeds(q) \/ NluFails(q) \/ DesignFails(q) \/ SaveFinalCases(q)
             \/ CompleteAndAdvance(q)
             \/ \E verdict \in {"FINAL_CASES_READY", "NEEDS_CLARIFICATION"} : DesignCompletes(q, verdict)
    BY <1>3, <2>3 DEF NluSucceeds, NluFails, DesignFails, SaveFinalCases, CompleteAndAdvance,
       DesignCompletes, Steps
  <2>4. CASE \/ CreateSave(q) \/ \E job \in Job : job.q = q /\ Submit(job)
    BY <1>2, <2>4 DEF CreateSave, Submit
  <2>5. CASE BeginDesign(q)
    <3>1. UNCHANGED txn \/ Take(q, "run_design", "worker") \/ Take(q, "save_failed", "worker")
      BY <2>5 DEF BeginDesign, Reject
    <3> QED BY <1>2, <1>3, <3>1 DEF Steps
  <2>6. CASE BeginNextNlu(q)
    <3>1. UNCHANGED txn \/ Take(q, "run_nlu", "worker")
      BY <2>6 DEF BeginNextNlu, Reject
    <3> QED BY <1>2, <1>3, <3>1 DEF Steps
  <2> QED BY <1>6, <2>1, <2>2, <2>3, <2>4, <2>5, <2>6 DEF Progress
<1>7. ASSUME Fault PROVE FALSE
  <2>1. CASE \E q \in Queues : FinalCasesNotSaved(q)
    BY <1>3, <2>1 DEF FinalCasesNotSaved, Steps
  <2>2. CASE CreateNotSaved
    BY <1>2, <2>2 DEF CreateNotSaved
  <2> QED BY <1>7, <2>1, <2>2 DEF Fault, Stops
<1> QED BY <1>5, <1>6, <1>7 DEF Next

\* Unless the process dies or an error stops it between two saves, the thread
\* leaves no queue marked as running (routes/queues.py 61), a failing save of
\* the final cases included.
THEOREM PersistedCorrect ==
  Spec /\ [][~Stops]_vars => WorkerFailuresArePersisted
<1>1. Init => WorkerSteps
  BY DEF Init, WorkerSteps, Free
<1>2. TypeOK /\ WorkerSteps /\ [Next]_vars => WorkerSteps'
  <2>1. ASSUME WorkerSteps, UNCHANGED vars PROVE WorkerSteps'
    BY <2>1 DEF vars, WorkerSteps
  <2> QED BY <2>1, WorkerStepsStep
<1>3. TypeOK /\ WorkerSteps /\ [Next]_vars /\ [~Stops]_vars => [Persisted]_vars
  BY PersistedStep
<1>4. [Persisted]_vars <=>
        [\A q \in Queues : txn[q].by = "worker" /\ txn[q].step # "free" /\ txn'[q].step = "free"
           => queue'[q].status # "RUNNING"]_vars
  BY DEF Persisted
<1> QED BY <1>1, <1>2, <1>3, <1>4, TypeCorrect, PTL DEF Spec, WorkerFailuresArePersisted

-----------------------------------------------------------------------------
(* The refinement: locks, files, threads and faults implement ApiPipeline. *)

\* PhaseOf, of an item and the length of its queue
PhaseFor(i, size, it) ==
  LET gate == IF it.stage \in {"DESIGNER", "REVIEWER"} THEN "approved" ELSE "unapproved"
  IN IF i > size THEN "absent" ELSE
     CASE it.status = "PENDING" -> "idle"
       [] it.status = "NLU_RUNNING" -> "analysing"
       [] it.status = "WAITING_REQUIREMENT_APPROVAL" -> "gate"
       [] it.status = "DESIGNING" -> "designing"
       [] it.status = "COMPLETED" -> "frozen"
       [] it.status = "FAILED" -> IF gate = "approved" THEN "failed approved" ELSE "failed unapproved"
       [] it.status = "SKIPPED" -> IF gate = "approved" THEN "skipped approved" ELSE "skipped unapproved"

PassedGate(it) == it.stage \in {"DESIGNER", "REVIEWER"}

LEMMA PhaseIs ==
  ASSUME NEW q \in Queues, NEW i \in Positions
  PROVE  /\ PhaseOf(q, i) = PhaseFor(i, queue[q].size, item[q][i])
         /\ PhaseOf(q, i)' = PhaseFor(i, queue'[q].size, item'[q][i])
BY DEF PhaseOf, PhaseFor

LEMMA PhaseTable ==
  ASSUME NEW i \in Nat, NEW size \in Nat, NEW it, it.status \in ItemStatus
  PROVE  /\ i > size => PhaseFor(i, size, it) = "absent"
         /\ i <= size =>
              /\ it.status = "PENDING" => PhaseFor(i, size, it) = "idle"
              /\ it.status = "NLU_RUNNING" => PhaseFor(i, size, it) = "analysing"
              /\ it.status = "WAITING_REQUIREMENT_APPROVAL" => PhaseFor(i, size, it) = "gate"
              /\ it.status = "DESIGNING" => PhaseFor(i, size, it) = "designing"
              /\ it.status = "COMPLETED" => PhaseFor(i, size, it) = "frozen"
              /\ it.status = "FAILED" => PhaseFor(i, size, it) =
                   (IF PassedGate(it) THEN "failed approved" ELSE "failed unapproved")
              /\ it.status = "SKIPPED" => PhaseFor(i, size, it) =
                   (IF PassedGate(it) THEN "skipped approved" ELSE "skipped unapproved")
<1>1. CASE i > size
  BY <1>1 DEF PhaseFor
<1>2. CASE i <= size
  <2>1. ~(i > size)
    BY <1>2
  <2>2. QED
    BY <2>1 DEF PhaseFor, PassedGate, ItemStatus
<1>3. QED
  BY <1>1, <1>2

LEMMA PhaseGivenUp ==
  ASSUME NEW i, NEW size, ~(i > size), NEW it
  PROVE  /\ it.status = "FAILED" => PhaseFor(i, size, it) =
              (IF PassedGate(it) THEN "failed approved" ELSE "failed unapproved")
         /\ it.status = "SKIPPED" => PhaseFor(i, size, it) =
              (IF PassedGate(it) THEN "skipped approved" ELSE "skipped unapproved")
BY DEF PhaseFor, PassedGate

LEMMA PhaseAbsent ==
  ASSUME NEW i, NEW size, i > size, NEW it
  PROVE  PhaseFor(i, size, it) = "absent"
BY DEF PhaseFor

\* The stage of an item says which side of the gate it is on.
StageFits(it) == /\ it.status = "NLU_RUNNING" => ~PassedGate(it)
                 /\ it.status = "DESIGNING" => PassedGate(it)

StageTells(q) ==
  /\ \A i \in Positions : StageFits(item[q][i])
  /\ At(q, "save_retry") => PassedGate(item[q][RetryPosition(q)])

\* One phase of one queue changes.
OnlyPhase(q, P) ==
  /\ \A j \in Positions \ P : PhaseOf(q, j)' = PhaseOf(q, j)
  /\ \A r \in Queues \ {q}, j \in Positions : PhaseOf(r, j)' = PhaseOf(r, j)

TurnIs(q, i) ==
  /\ \A j \in Positions : j < i => PhaseOf(q, j) \in Pipeline!Done
  /\ \A j \in Positions : j > i => PhaseOf(q, j) \in Pipeline!Untouched

LEMMA MoveImplements ==
  ASSUME NEW q \in Queues, NEW i \in Positions, NEW p, TurnIs(q, i), OnlyPhase(q, {i}),
         p \in Pipeline!Outcomes(PhaseOf(q, i)) \cup Pipeline!Decisions(PhaseOf(q, i)),
         PhaseOf(q, i)' = p
  PROVE  Pipeline!Next
<1>1. Pipeline!TurnOf(q, i)
  BY DEF TurnIs, Pipeline!TurnOf, Pipeline!Positions, Positions
<1>2. [r \in Queues |-> [j \in Positions |-> PhaseOf(r, j)]]' =
        [[r \in Queues |-> [j \in Positions |-> PhaseOf(r, j)]] EXCEPT ![q][i] = p]
  BY DEF OnlyPhase
<1>3. Pipeline!Move(q, i)
  BY <1>1, <1>2 DEF Pipeline!Move
<1>4. QED
  BY <1>3 DEF Pipeline!Next, Pipeline!Positions, Positions

LEMMA MoveOnImplements ==
  ASSUME NEW q \in Queues, NEW i \in Positions, i + 1 \in Positions, NEW p,
         TurnIs(q, i), OnlyPhase(q, {i, i + 1}),
         p \in (Pipeline!Outcomes(PhaseOf(q, i)) \cup Pipeline!Decisions(PhaseOf(q, i))) \cap Pipeline!Done,
         PhaseOf(q, i)' = p, PhaseOf(q, i + 1) = "idle", PhaseOf(q, i + 1)' = "analysing"
  PROVE  Pipeline!Next
<1>1. Pipeline!TurnOf(q, i)
  BY DEF TurnIs, Pipeline!TurnOf, Pipeline!Positions, Positions
<1>2. [r \in Queues |-> [j \in Positions |-> PhaseOf(r, j)]]' =
        [[r \in Queues |-> [j \in Positions |-> PhaseOf(r, j)]] EXCEPT ![q][i] = p, ![q][i + 1] = "analysing"]
  <2>1. i # i + 1
    BY DEF Positions
  <2>2. ASSUME NEW r \in Queues, r # q PROVE \A j \in Positions : PhaseOf(r, j)' = PhaseOf(r, j)
    BY <2>2 DEF OnlyPhase
  <2>3. ASSUME NEW j \in Positions, j # i, j # i + 1 PROVE PhaseOf(q, j)' = PhaseOf(q, j)
    BY <2>3 DEF OnlyPhase
  <2>4. [j \in Positions |-> PhaseOf(q, j)]' =
          [[j \in Positions |-> PhaseOf(q, j)] EXCEPT ![i] = p, ![i + 1] = "analysing"]
    BY <2>1, <2>3
  <2>5. QED
    BY <2>2, <2>4
<1>3. i < MaxItems
  BY QueueAssumption DEF Positions, QueueAssumption
<1>4. Pipeline!MoveOn(q, i)
  BY <1>1, <1>2, <1>3 DEF Pipeline!MoveOn
<1>5. QED
  BY <1>4 DEF Pipeline!Next, Pipeline!Positions, Positions

LEMMA ReviveImplements ==
  ASSUME NEW q \in Queues, 1 \in Positions, OnlyPhase(q, {1}),
         PhaseOf(q, 1) = "skipped approved", PhaseOf(q, 1)' = "designing",
         \A j \in Positions : j > 1 => PhaseOf(q, j) = "absent"
  PROVE  Pipeline!Next
<1>1. [r \in Queues |-> [j \in Positions |-> PhaseOf(r, j)]]' =
        [[r \in Queues |-> [j \in Positions |-> PhaseOf(r, j)]] EXCEPT ![q][1] = "designing"]
  BY DEF OnlyPhase
<1>2. Pipeline!Revive(q)
  BY <1>1 DEF Pipeline!Revive, Pipeline!Positions, Positions
<1>3. QED
  BY <1>2 DEF Pipeline!Next

LEMMA AdmitImplements ==
  ASSUME NEW q \in Queues, 1 \in Positions, OnlyPhase(q, {1}),
         \A j \in Positions : PhaseOf(q, j) = "absent", PhaseOf(q, 1)' = "idle"
  PROVE  Pipeline!Next
<1>1. [r \in Queues |-> [j \in Positions |-> PhaseOf(r, j)]]' =
        [[r \in Queues |-> [j \in Positions |-> PhaseOf(r, j)]] EXCEPT ![q][1] = "idle"]
  BY DEF OnlyPhase
<1>2. Pipeline!Admit(q)
  BY <1>1 DEF Pipeline!Admit, Pipeline!Positions, Positions
<1>3. QED
  BY <1>2 DEF Pipeline!Next

\* What a step of q leaves alone keeps its phase.
LEMMA OnlyChanged ==
  ASSUME NEW q \in Queues, NEW P, OthersKept(q), queue'[q].size = queue[q].size,
         \A j \in Positions \ P : item'[q][j] = item[q][j]
  PROVE  OnlyPhase(q, P)
BY PhaseIs DEF OnlyPhase, OthersKept

\* The current item has its turn.
LEMMA CurrentHasTurn ==
  ASSUME IInv, NEW q \in Queues, NEW i \in Positions, i = queue[q].index, HasCurrent(q)
  PROVE  TurnIs(q, i)
<1>1. queue[q].size \in Nat /\ \A j \in Positions : j \in Nat /\ item[q][j].status \in ItemStatus
  BY CurrentTyped, QueueAssumption DEF IInv, TypeOK, Item, Positions, QueueAssumption
<1>2. ASSUME NEW j \in Positions, j < i PROVE PhaseOf(q, j) \in Pipeline!Done
  <2>1. item[q][j].status \in {"COMPLETED", "SKIPPED"} /\ j <= queue[q].size
    BY <1>1, <1>2, TurnOfCurrent, CurrentTyped DEF HasCurrent
  <2>2. PhaseFor(j, queue[q].size, item[q][j]) \in {"frozen", "skipped unapproved", "skipped approved"}
    <3>1. PICK it, size : it = item[q][j] /\ size = queue[q].size
      OBVIOUS
    <3>2. it.status \in ItemStatus /\ j \in Nat /\ size \in Nat
      BY <1>1, <3>1
    <3>3. it.status \in {"COMPLETED", "SKIPPED"} /\ j <= size
      BY <2>1, <3>1
    <3>4. PhaseFor(j, size, it) \in {"frozen", "skipped unapproved", "skipped approved"}
      BY <3>2, <3>3, PhaseTable
    <3>5. QED
      BY <3>1, <3>4
  <2>3. QED
    BY <2>2, PhaseIs DEF Pipeline!Done
<1>3. ASSUME NEW j \in Positions, j > i PROVE PhaseOf(q, j) \in Pipeline!Untouched
  <2>1. item[q][j].status = "PENDING"
    BY <1>3, TurnOfCurrent
  <2>2. PhaseFor(j, queue[q].size, item[q][j]) \in {"absent", "idle"}
    <3>1. PICK it, size : it = item[q][j] /\ size = queue[q].size
      OBVIOUS
    <3>2. it.status = "PENDING" /\ it.status \in ItemStatus /\ j \in Nat /\ size \in Nat /\ (j > size \/ j <= size)
      BY <1>1, <2>1, <3>1
    <3>3. PhaseFor(j, size, it) \in {"absent", "idle"}
      BY <3>2, PhaseTable
    <3>4. QED
      BY <3>1, <3>3
  <2>3. QED
    BY <2>2, PhaseIs DEF Pipeline!Untouched
<1>4. QED
  BY <1>2, <1>3 DEF TurnIs

\* A save that replaces the current item moves it in the pipeline if the
\* pipeline has such a move.
LEMMA SaveMoves ==
  ASSUME IInv, NEW q \in Queues, NEW i \in Positions, i = queue[q].index, i <= queue[q].size, OthersKept(q),
         NEW status, NEW index, Saved(q, status, index), NEW it \in Item, Replaced(q, i, it),
         PhaseFor(i, queue[q].size, it) \in
           Pipeline!Outcomes(PhaseFor(i, queue[q].size, item[q][i])) \cup
           Pipeline!Decisions(PhaseFor(i, queue[q].size, item[q][i]))
  PROVE  Pipeline!Next
<1>1. queue'[q].size = queue[q].size /\ item'[q][i] = it /\ \A j \in Positions \ {i} : item'[q][j] = item[q][j]
  BY DEF Saved, Replaced, IInv, TypeOK, Queue
<1>2. OnlyPhase(q, {i}) /\ TurnIs(q, i)
  BY <1>1, OnlyChanged, CurrentHasTurn DEF HasCurrent
<1>3. PhaseOf(q, i)' = PhaseFor(i, queue[q].size, it) /\ PhaseOf(q, i) = PhaseFor(i, queue[q].size, item[q][i])
  BY <1>1, PhaseIs
<1>4. QED
  BY <1>2, <1>3, MoveImplements


-----------------------------------------------------------------------------
(* The stages tell, after every step.                                      *)

LEMMA StageKept ==
  ASSUME NEW p \in Queues, StageTells(p), queue'[p] = queue[p], item'[p] = item[p], txn'[p] = txn[p]
  PROVE  StageTells(p)'
BY DEF StageTells, At, RetryPosition, SkippedSingle

LEMMA StageOthers ==
  ASSUME NEW q \in Queues, \A p \in Queues : StageTells(p), OthersKept(q), StageTells(q)'
  PROVE  \A p \in Queues : StageTells(p)'
BY StageKept DEF OthersKept

LEMMA StageSaved ==
  ASSUME NEW q \in Queues, \A p \in Queues : StageTells(p), OthersKept(q), txn'[q].step # "save_retry",
         \A j \in Positions : item'[q][j] = item[q][j] \/ StageFits(item'[q][j])
  PROVE  \A p \in Queues : StageTells(p)'
<1>1. StageTells(q)'
  BY DEF StageTells, At
<1>2. QED
  BY <1>1, StageOthers

\* One item is replaced by one whose stage fits its status.
LEMMA StageReplaced ==
  ASSUME IInv, NEW q \in Queues, \A p \in Queues : StageTells(p), OthersKept(q), txn'[q].step # "save_retry",
         NEW i \in Positions, NEW it, Replaced(q, i, it), StageFits(it)
  PROVE  \A p \in Queues : StageTells(p)'
<1>1. item'[q][i] = it /\ \A j \in Positions \ {i} : item'[q][j] = item[q][j]
  BY DEF Replaced, IInv, TypeOK
<1>2. QED
  BY <1>1, StageSaved

\* The item that CompleteAndAdvance and SkipAndAdvance put in turn next.
LEMMA NextItem ==
  ASSUME IInv, NEW q \in Queues, NEW i \in Positions, i = queue[q].index, i + 1 \in Positions,
         CompleteAndAdvance(q) \/ SkipAndAdvance(q)
  PROVE  /\ item'[q][i + 1].status = "NLU_RUNNING" /\ item'[q][i + 1].stage = "NLU"
         /\ item'[q][i].status \in {"COMPLETED", "SKIPPED"}
         /\ SkipAndAdvance(q) => /\ item'[q][i].status = "SKIPPED"
                                 /\ item'[q][i].stage = item[q][i].stage
         /\ CompleteAndAdvance(q) => item'[q][i].status = "COMPLETED"
         /\ \A j \in Positions \ {i, i + 1} : item'[q][j] = item[q][j]
<1>0. i # i + 1
  BY DEF Positions
<1>t. item \in [Queues -> [Positions -> Item]]
  BY DEF IInv, TypeOK
<1>1. /\ item \in [Queues -> [Positions -> Item]] /\ i # i + 1
      /\ item[q][i] \in Item /\ item[q][i + 1] \in Item
  BY <1>0, <1>t
<1>2. PICK cur \in Item, nxt \in Item : cur = item[q][i] /\ nxt = item[q][i + 1]
  BY <1>1
<1>3. CASE CompleteAndAdvance(q)
  <2>1. PICK done : done = CompletedItem(q)
    OBVIOUS
  <2>2. item' = [item EXCEPT ![q][i] = done,
                   ![q][i + 1] = [@ EXCEPT !.status = "NLU_RUNNING", !.stage = "NLU"]]
    BY <1>3, <2>1 DEF CompleteAndAdvance
  <2>3. /\ item'[q][i + 1] = [nxt EXCEPT !.status = "NLU_RUNNING", !.stage = "NLU"]
        /\ item'[q][i] = done
        /\ \A j \in Positions \ {i, i + 1} : item'[q][j] = item[q][j]
    BY <1>1, <1>2, <2>2
  <2>4. done.status = "COMPLETED"
    BY <1>2, <2>1 DEF CompletedItem, Current, Item
  <2>5. ~SkipAndAdvance(q)
    BY <1>3 DEF CompleteAndAdvance, SkipAndAdvance, Skippable, At
  <2>6. QED
    BY <1>2, <2>3, <2>4, <2>5 DEF Item
<1>4. CASE SkipAndAdvance(q)
  <2>1. item' = [item EXCEPT ![q][i].status = "SKIPPED",
                   ![q][i + 1] = [NewItem(@.op) EXCEPT !.status = "NLU_RUNNING"]]
    BY <1>4 DEF SkipAndAdvance
  <2>2. /\ item'[q][i + 1] = [NewItem(nxt.op) EXCEPT !.status = "NLU_RUNNING"]
        /\ item'[q][i] = [cur EXCEPT !.status = "SKIPPED"]
        /\ \A j \in Positions \ {i, i + 1} : item'[q][j] = item[q][j]
    BY <1>1, <1>2, <2>1
  <2>3. ~CompleteAndAdvance(q)
    BY <1>4 DEF CompleteAndAdvance, SkipAndAdvance, Skippable, At
  <2>4. QED
    BY <1>2, <2>2, <2>3 DEF Item, NewItem
<1>5. QED
  BY <1>3, <1>4

LEMMA StageStep ==
  ASSUME IInv, Next, \A p \in Queues : StageTells(p)
  PROVE  \A p \in Queues : StageTells(p)'
<1>t. TypeOK
  BY DEF IInv
<1>k. ASSUME queue' = queue, item' = item, txn' = txn PROVE \A p \in Queues : StageTells(p)'
  BY <1>k, StageKept
<1>1. ASSUME NEW q \in Queues, Request(q) PROVE \A p \in Queues : StageTells(p)'
  <2>1. ASSUME (\E op \in Operations : CreateCheck(q, op)) \/ \E i \in Positions : Reanalyse(q, i)
        PROVE  \A p \in Queues : StageTells(p)'
    BY <2>1, <1>k DEF CreateCheck, Reanalyse
  <2>2. ASSUME Start(q) PROVE \A p \in Queues : StageTells(p)'
    <3>1. OthersKept(q) /\ txn'[q].step # "save_retry"
      BY <2>2, <1>t DEF Start, Saved, Replaced, Take, OthersKept, TypeOK
    <3>2. PICK i \in Positions : i = queue[q].index
      BY <2>2, CurrentTyped DEF Start
    <3>3. PICK it : it = [NewItem(Current(q).op) EXCEPT !.status = "NLU_RUNNING"]
      OBVIOUS
    <3>4. StageFits(it)
      BY <3>3 DEF StageFits, PassedGate, NewItem
    <3>5. Replaced(q, i, it) \/ item' = item
      BY <2>2, <3>2, <3>3 DEF Start
    <3>6. QED
      BY <3>1, <3>4, <3>5, StageReplaced, StageSaved
  <2>3. ASSUME Approve(q) PROVE \A p \in Queues : StageTells(p)'
    <3>1. OthersKept(q) /\ txn'[q].step # "save_retry" /\ item' = item
      BY <2>3, <1>t DEF Approve, Take, OthersKept, TypeOK
    <3>2. QED
      BY <3>1, StageSaved
  <2>4. ASSUME Retry(q) PROVE \A p \in Queues : StageTells(p)'
    <3>1. OthersKept(q) /\ item' = item /\ queue' = queue
      BY <2>4, <1>t DEF Retry, Take, OthersKept, TypeOK
    <3>2. PassedGate(item[q][RetryPosition(q)])
      BY <2>4 DEF Retry, PassedGate
    <3>3. StageTells(q)'
      BY <3>1, <3>2 DEF StageTells, RetryPosition, SkippedSingle
    <3>4. QED
      BY <3>1, <3>3, StageOthers
  <2>5. ASSUME SkipLast(q) PROVE \A p \in Queues : StageTells(p)'
    <3>1. OthersKept(q) /\ txn'[q].step # "save_retry"
      BY <2>5, <1>t DEF SkipLast, Skippable, Saved, Replaced, OthersKept, TypeOK, At
    <3>2. queue[q].index \in Positions /\ Current(q) \in Item
      BY <2>5, CurrentTyped DEF SkipLast, Skippable, CurrentIs
    <3>3. PICK i \in Positions : i = queue[q].index
      BY <3>2
    <3>4. PICK it : it = [Current(q) EXCEPT !.status = "SKIPPED"]
      OBVIOUS
    <3>5. StageFits(it)
      BY <3>2, <3>4 DEF StageFits, Item
    <3>6. QED
      BY <2>5, <3>1, <3>3, <3>4, <3>5, StageReplaced DEF SkipLast
  <2>6. ASSUME SkipAndAdvance(q) PROVE \A p \in Queues : StageTells(p)'
    <3>1. OthersKept(q) /\ txn'[q].step # "save_retry"
      BY <2>6, <1>t DEF SkipAndAdvance, Skippable, Saved, OthersKept, TypeOK, At
    <3>2. PICK i \in Positions : i = queue[q].index /\ i + 1 \in Positions
      BY <2>6, CurrentTyped, QueueAssumption DEF SkipAndAdvance, Positions, QueueAssumption
    <3>3. /\ StageFits(item'[q][i]) /\ StageFits(item'[q][i + 1])
          /\ \A j \in Positions \ {i, i + 1} : item'[q][j] = item[q][j]
      BY <2>6, <3>2, NextItem DEF StageFits, PassedGate
    <3>4. QED
      BY <3>1, <3>3, StageSaved
  <2>7. QED
    BY <1>1, <2>1, <2>2, <2>3, <2>4, <2>5, <2>6 DEF Request
<1>2. ASSUME NEW q \in Queues, Progress(q) PROVE \A p \in Queues : StageTells(p)'
  <2>1. ASSUME CreateSave(q) PROVE \A p \in Queues : StageTells(p)'
    <3>1. /\ OthersKept(q) /\ 1 \in Positions /\ txn' = txn
          /\ Replaced(q, 1, NewItem(creating.op))
      BY <2>1, <1>t, QueueAssumption DEF CreateSave, TypeOK, OthersKept, Positions, QueueAssumption, Replaced
    <3>2. ~Exists(q)
      BY <2>1, QueueAssumption DEF CreateSave, IInv, CreatingIsNew, NotCreating, QueueAssumption
    <3>3. At(q, "free")
      BY <3>2, BusyExists
    <3>4. PICK it : it = NewItem(creating.op)
      OBVIOUS
    <3>5. StageFits(it)
      BY <3>4 DEF StageFits, NewItem
    <3>6. QED
      BY <3>1, <3>3, <3>4, <3>5, StageReplaced DEF At
  <2>2. ASSUME NluSucceeds(q) \/ NluFails(q) \/ DesignFails(q) \/ SaveFinalCases(q) \/ \E verdict : DesignCompletes(q, verdict)
        PROVE  \A p \in Queues : StageTells(p)'
    <3>1. OthersKept(q) /\ item' = item
      BY <2>2, <1>t DEF NluSucceeds, NluFails, DesignFails, SaveFinalCases, DesignCompletes,
         Proceed, OthersKept, TypeOK
    <3>2. \E step : step # "save_retry" /\ Proceed(q, step)
      BY <2>2 DEF NluSucceeds, NluFails, DesignFails, SaveFinalCases, DesignCompletes
    <3>3. txn'[q].step # "save_retry"
      BY <3>2, <1>t DEF Proceed, TypeOK, Txn
    <3>4. QED
      BY <3>1, <3>3, StageSaved
  <2>3. ASSUME CompleteAndAdvance(q) PROVE \A p \in Queues : StageTells(p)'
    <3>1. OthersKept(q) /\ txn'[q].step # "save_retry"
      BY <2>3, <1>t DEF CompleteAndAdvance, Saved, Proceed, OthersKept, TypeOK, Txn
    <3>2. PICK i \in Positions : i = queue[q].index /\ i + 1 \in Positions
      BY <2>3, CurrentTyped, QueueAssumption DEF CompleteAndAdvance, At, Positions, QueueAssumption
    <3>3. /\ StageFits(item'[q][i]) /\ StageFits(item'[q][i + 1])
          /\ \A j \in Positions \ {i, i + 1} : item'[q][j] = item[q][j]
      BY <2>3, <3>2, NextItem DEF StageFits, PassedGate
    <3>4. QED
      BY <3>1, <3>3, StageSaved
  <2>4. ASSUME SaveWaiting(q) \/ SaveFailed(q) \/ SaveClarification(q) \/ SaveApproved(q) \/ CompleteLast(q)
        PROVE  \A p \in Queues : StageTells(p)'
    <3>1. OthersKept(q) /\ txn'[q].step # "save_retry"
      BY <2>4, <1>t DEF SaveWaiting, SaveFailed, SaveClarification, SaveApproved, CompleteLast,
         Saved, Replaced, Finish, Free, OthersKept, TypeOK
    <3>2. queue[q].index \in Positions /\ Current(q) \in Item
      BY <2>4, CurrentTyped DEF SaveWaiting, SaveFailed, SaveClarification, SaveApproved, CompleteLast, At
    <3>3. PICK i \in Positions, cur \in Item : i = queue[q].index /\ cur = Current(q)
      BY <3>2
    <3>4. PICK it : /\ Replaced(q, i, it)
                    /\ \/ it = [cur EXCEPT !.status = "WAITING_REQUIREMENT_APPROVAL",
                                          !.stage = "REQUIREMENT_APPROVAL", !.workflow = TRUE]
                       \/ it = [cur EXCEPT !.status = "FAILED"]
                       \/ it = [cur EXCEPT !.status = "FAILED", !.stage = "REVIEWER", !.final = TRUE]
                       \/ it = [cur EXCEPT !.status = "DESIGNING", !.stage = "DESIGNER"]
                       \/ it = [cur EXCEPT !.status = "COMPLETED", !.stage = "COMPLETED", !.final = TRUE]
      BY <2>4, <3>3 DEF SaveWaiting, SaveFailed, SaveClarification, SaveApproved, CompleteLast, CompletedItem
    <3>5. StageFits(it)
      BY <3>4 DEF StageFits, PassedGate, Item
    <3>6. QED
      BY <3>1, <3>4, <3>5, StageReplaced
  <2>5. ASSUME SaveRetry(q) PROVE \A p \in Queues : StageTells(p)'
    <3>1. OthersKept(q) /\ txn'[q].step # "save_retry"
      BY <2>5, <1>t DEF SaveRetry, Saved, Replaced, Finish, Free, OthersKept, TypeOK
    <3>2. RetryPosition(q) \in Positions /\ item[q][RetryPosition(q)] \in Item
      BY <2>5, RetryTyped DEF SaveRetry
    <3>3. PICK i \in Positions : i = RetryPosition(q)
      BY <3>2
    <3>4. PICK it : it = [item[q][i] EXCEPT !.status = "DESIGNING", !.stage = "DESIGNER", !.final = FALSE]
      OBVIOUS
    <3>5. StageFits(it)
      BY <3>2, <3>3, <3>4 DEF StageFits, PassedGate, Item
    <3>6. QED
      BY <2>5, <3>1, <3>3, <3>4, <3>5, StageReplaced DEF SaveRetry
  <2>6. ASSUME NEW job \in Job, Submit(job) PROVE \A p \in Queues : StageTells(p)'
    BY <2>6, <1>k DEF Submit
  <2>7. ASSUME BeginDesign(q) \/ BeginNextNlu(q) PROVE \A p \in Queues : StageTells(p)'
    <3>1. OthersKept(q) /\ item' = item
      BY <2>7, <1>t DEF BeginDesign, BeginNextNlu, Reject, Take, OthersKept, TypeOK
    <3>2. txn'[q].step # "save_retry"
      BY <2>7, <1>t DEF BeginDesign, BeginNextNlu, Reject, Take, At, TypeOK, Txn
    <3>3. QED
      BY <3>1, <3>2, StageSaved
  <2>8. QED
    BY <1>2, <2>1, <2>2, <2>3, <2>4, <2>5, <2>6, <2>7 DEF Progress
<1>3. ASSUME Fault PROVE \A p \in Queues : StageTells(p)'
  <2>1. ASSUME NEW q \in Queues, StopsHalfway(q) \/ FinalCasesNotSaved(q)
        PROVE  \A p \in Queues : StageTells(p)'
    <3>1. OthersKept(q) /\ item' = item
      BY <2>1, <1>t DEF StopsHalfway, FinalCasesNotSaved, Finish, Proceed, OthersKept, TypeOK
    <3>2. txn'[q].step # "save_retry"
      BY <2>1, <1>t DEF StopsHalfway, FinalCasesNotSaved, Finish, Free, Proceed, TypeOK, Txn
    <3>3. QED
      BY <3>1, <3>2, StageSaved
  <2>2. ASSUME CreateNotSaved PROVE \A p \in Queues : StageTells(p)'
    BY <2>2, <1>k DEF CreateNotSaved
  <2>3. ASSUME Restart PROVE \A p \in Queues : StageTells(p)'
    BY <2>3 DEF Restart, Free, StageTells, At
  <2>4. QED
    BY <1>3, <2>1, <2>2, <2>3 DEF Fault
<1>4. QED
  BY <1>1, <1>2, <1>3 DEF Next


-----------------------------------------------------------------------------
(* Every step of the queue service is a step of the pipeline or none.      *)

SamePhases == \A q \in Queues, i \in Positions : PhaseOf(q, i)' = PhaseOf(q, i)

LEMMA SameItems ==
  ASSUME \A q \in Queues : queue'[q].size = queue[q].size, item' = item
  PROVE  SamePhases
BY PhaseIs DEF SamePhases

LEMMA PipelineRequest ==
  ASSUME IInv, \A p \in Queues : StageTells(p), NEW q \in Queues, Request(q)
  PROVE  Pipeline!Next \/ SamePhases
<1>t. TypeOK
  BY DEF IInv
<1>1. ASSUME \/ \E op \in Operations : CreateCheck(q, op)
             \/ Approve(q) \/ Retry(q) \/ \E i \in Positions : Reanalyse(q, i)
      PROVE  SamePhases
  BY <1>1, SameItems DEF CreateCheck, Approve, Retry, Reanalyse
<1>2. ASSUME Start(q) PROVE Pipeline!Next
  <2>1. CurrentIs(q, queue[q].status) /\ queue[q].index \in Positions /\ queue[q].index <= queue[q].size
    BY <1>2, CurrentTyped DEF Start, IInv, QueueInv, StatusOfItem, HasCurrent
  <2>2. PICK i \in Positions, size \in Nat : i = queue[q].index /\ size = queue[q].size /\ i <= size
    BY <2>1, CurrentTyped, QueueAssumption DEF QueueAssumption
  <2>a. PICK cur \in Item : cur = item[q][i]
    BY <1>t DEF TypeOK
  <2>b. PICK it : it = [NewItem(cur.op) EXCEPT !.status = "NLU_RUNNING"]
    OBVIOUS
  <2>3. cur = item[q][i] /\ it = [NewItem(cur.op) EXCEPT !.status = "NLU_RUNNING"]
    BY <2>a, <2>b
  <2>c. ~(i > size)
    BY <2>2 DEF Positions
  <2>4. cur.status \in {"PENDING", "FAILED"}
    BY <1>2, <2>1, <2>2, <2>3 DEF Start, CurrentIs, Current
  <2>5. it \in Item /\ it.status = "NLU_RUNNING"
    BY <2>3 DEF NewItem, Item, ItemStatus, Stages
  <2>6. Replaced(q, i, it) /\ Saved(q, "RUNNING", i) /\ OthersKept(q)
    <3>1. Replaced(q, i, it) /\ Saved(q, "RUNNING", i)
      BY <1>2, <2>2, <2>3, <2>4 DEF Start, Current
    <3>2. QED
      BY <1>2, <1>t, <3>1 DEF Start, Saved, Replaced, Take, OthersKept, TypeOK
  <2>7. PhaseFor(i, size, it) = "analysing"
    BY <2>c, <2>5 DEF PhaseFor
  <2>8. PhaseFor(i, size, cur) \in {"idle", "failed approved", "failed unapproved"}
    <3>1. cur.status = "PENDING" => PhaseFor(i, size, cur) = "idle"
      BY <2>c DEF PhaseFor
    <3>2. QED
      BY <2>c, <2>4, <3>1, PhaseGivenUp
  <2>9. "analysing" \in Pipeline!Decisions(PhaseFor(i, size, cur))
    BY <2>8 DEF Pipeline!Decisions
  <2>10. QED
    BY <2>2, <2>3, <2>5, <2>6, <2>7, <2>9, SaveMoves
<1>3. ASSUME SkipLast(q) PROVE Pipeline!Next
  <2>1. PICK i \in Positions, size \in Nat : i = queue[q].index /\ size = queue[q].size /\ i <= size
    BY <1>3, CurrentTyped, QueueAssumption DEF SkipLast, Skippable, CurrentIs, HasCurrent, QueueAssumption
  <2>a. PICK cur \in Item : cur = item[q][i]
    BY <1>t DEF TypeOK
  <2>b. PICK it : it = [cur EXCEPT !.status = "SKIPPED"]
    OBVIOUS
  <2>2. cur = item[q][i] /\ it = [cur EXCEPT !.status = "SKIPPED"]
    BY <2>a, <2>b
  <2>c. ~(i > size)
    BY <2>1 DEF Positions
  <2>3. cur.status = "FAILED"
    BY <1>3, <2>1, <2>2 DEF SkipLast, Skippable, CurrentIs, Current
  <2>4. it \in Item /\ it.status = "SKIPPED" /\ it.stage = cur.stage
    BY <2>2 DEF Item, ItemStatus
  <2>5. Replaced(q, i, it) /\ \E status : Saved(q, status, i + 1)
    BY <1>3, <2>1, <2>2 DEF SkipLast, Current
  <2>6. OthersKept(q)
    BY <1>3, <1>t DEF SkipLast, Saved, Replaced, OthersKept, TypeOK
  <2>7. PhaseFor(i, size, it) = (IF PassedGate(it) THEN "skipped approved" ELSE "skipped unapproved")
    BY <2>c, <2>4, PhaseGivenUp
  <2>8. PhaseFor(i, size, cur) = (IF PassedGate(cur) THEN "failed approved" ELSE "failed unapproved")
    BY <2>c, <2>3, PhaseGivenUp
  <2>9. PhaseFor(i, size, it) \in Pipeline!Decisions(PhaseFor(i, size, cur))
    BY <2>4, <2>7, <2>8 DEF Pipeline!Decisions, PassedGate
  <2>10. QED
    BY <2>1, <2>2, <2>4, <2>5, <2>6, <2>9, SaveMoves
<1>4. ASSUME SkipAndAdvance(q) PROVE Pipeline!Next
  <2>a. /\ queue[q].index \in Positions /\ queue[q].index + 1 \in Positions
        /\ queue[q].size \in Nat /\ queue[q].index < queue[q].size
    BY <1>4, CurrentTyped, QueueAssumption DEF SkipAndAdvance, Positions, QueueAssumption
  <2>1. PICK i \in Positions, size \in Nat :
          i = queue[q].index /\ size = queue[q].size /\ i < size /\ i + 1 \in Positions
    BY <2>a
  <2>2. /\ item'[q][i + 1].status = "NLU_RUNNING" /\ item'[q][i].status = "SKIPPED"
        /\ item'[q][i].stage = item[q][i].stage
        /\ \A j \in Positions \ {i, i + 1} : item'[q][j] = item[q][j]
    BY <1>4, <2>1, NextItem
  <2>3. OthersKept(q) /\ queue'[q].size = size
    BY <1>4, <1>t, <2>1 DEF SkipAndAdvance, Saved, OthersKept, TypeOK, Queue
  <2>4. OnlyPhase(q, {i, i + 1})
    BY <2>1, <2>2, <2>3, OnlyChanged
  <2>5. TurnIs(q, i)
    BY <2>1, CurrentHasTurn DEF HasCurrent, Positions
  <2>6. item[q][i].status = "FAILED" /\ item[q][i + 1].status = "PENDING"
    BY <1>4, <2>1, TurnOfCurrent DEF SkipAndAdvance, Skippable, CurrentIs, Current, Positions
  <2>7. PICK cur, nxt, skipped, begun :
          /\ cur = item[q][i] /\ nxt = item[q][i + 1]
          /\ skipped = item'[q][i] /\ begun = item'[q][i + 1]
    OBVIOUS
  <2>8. /\ PhaseOf(q, i) = PhaseFor(i, size, cur) /\ PhaseOf(q, i)' = PhaseFor(i, size, skipped)
        /\ PhaseOf(q, i + 1) = PhaseFor(i + 1, size, nxt) /\ PhaseOf(q, i + 1)' = PhaseFor(i + 1, size, begun)
    <3>1. \A j \in Positions : /\ PhaseOf(q, j) = PhaseFor(j, size, item[q][j])
                               /\ PhaseOf(q, j)' = PhaseFor(j, size, item'[q][j])
      BY <2>1, <2>3, PhaseIs
    <3>2. QED
      BY <2>1, <2>7, <3>1
  <2>9. /\ i \in Nat /\ i + 1 \in Nat /\ i <= size /\ i + 1 <= size
        /\ cur.status = "FAILED" /\ nxt.status = "PENDING" /\ skipped.status = "SKIPPED"
        /\ begun.status = "NLU_RUNNING" /\ skipped.stage = cur.stage
    BY <2>1, <2>2, <2>6, <2>7 DEF Positions
  <2>10. /\ PhaseFor(i, size, cur) = (IF PassedGate(cur) THEN "failed approved" ELSE "failed unapproved")
         /\ PhaseFor(i, size, skipped) = (IF PassedGate(cur) THEN "skipped approved" ELSE "skipped unapproved")
         /\ PhaseFor(i + 1, size, nxt) = "idle"
         /\ PhaseFor(i + 1, size, begun) = "analysing"
    <3>1. ~(i > size) /\ ~(i + 1 > size)
      BY <2>1, <2>9
    <3>2. PassedGate(skipped) <=> PassedGate(cur)
      BY <2>9 DEF PassedGate
    <3>3. PhaseFor(i + 1, size, nxt) = "idle" /\ PhaseFor(i + 1, size, begun) = "analysing"
      BY <2>9, <3>1 DEF PhaseFor
    <3>4. QED
      BY <2>9, <3>1, <3>2, <3>3, PhaseGivenUp
  <2>11. PhaseFor(i, size, skipped) \in Pipeline!Decisions(PhaseFor(i, size, cur)) \cap Pipeline!Done
    BY <2>10 DEF Pipeline!Decisions, Pipeline!Done
  <2>12. QED
    BY <2>1, <2>4, <2>5, <2>8, <2>10, <2>11, MoveOnImplements
<1>5. QED
  BY <1>1, <1>2, <1>3, <1>4 DEF Request

LEMMA PipelineProgress ==
  ASSUME IInv, \A p \in Queues : StageTells(p), NEW q \in Queues, Progress(q)
  PROVE  Pipeline!Next \/ SamePhases
<1>t. TypeOK
  BY DEF IInv
<1>1. ASSUME \/ NluSucceeds(q) \/ NluFails(q) \/ DesignFails(q) \/ SaveFinalCases(q)
             \/ BeginDesign(q) \/ BeginNextNlu(q)
             \/ (\E job \in Job : Submit(job)) \/ \E verdict : DesignCompletes(q, verdict)
      PROVE  SamePhases
  BY <1>1, SameItems DEF NluSucceeds, NluFails, DesignFails, SaveFinalCases, BeginDesign, BeginNextNlu,
     Submit, DesignCompletes
<1>2. ASSUME CreateSave(q) PROVE Pipeline!Next
  <2>1. /\ OthersKept(q) /\ 1 \in Positions
        /\ queue'[q].size = 1 /\ item'[q][1] = NewItem(creating.op)
        /\ \A j \in Positions \ {1} : item'[q][j] = item[q][j]
    BY <1>2, <1>t, QueueAssumption DEF CreateSave, TypeOK, OthersKept, Positions, QueueAssumption
  <2>2. ~Exists(q) /\ Unused(q) /\ Sequential(q)
    BY <1>2, QueueAssumption DEF CreateSave, IInv, CreatingIsNew, NotCreating, QueueAssumption, QueueInv
  <2>3. \A j \in Positions : PhaseOf(q, j) = "absent"
    <3>1. \A j \in Positions : j > 0
      BY DEF Positions
    <3>2. \A j \in Positions : PhaseFor(j, 0, item[q][j]) = "absent"
      BY <3>1, PhaseAbsent
    <3>3. QED
      BY <2>2, <3>2, PhaseIs DEF Unused
  <2>4. PhaseOf(q, 1)' = "idle"
    <3>1. PICK it : it = NewItem(creating.op)
      OBVIOUS
    <3>2. PhaseFor(1, 1, it) = "idle"
      BY <3>1 DEF PhaseFor, NewItem, PassedGate
    <3>3. QED
      BY <2>1, <3>1, <3>2, PhaseIs
  <2>5. \A j \in Positions \ {1} : PhaseOf(q, j)' = "absent"
    <3>1. \A j \in Positions \ {1} : j > 1
      BY DEF Positions
    <3>2. \A j \in Positions \ {1} : PhaseFor(j, 1, item'[q][j]) = "absent"
      BY <3>1, PhaseAbsent
    <3>3. QED
      BY <2>1, <3>2, PhaseIs
  <2>6. OnlyPhase(q, {1})
    BY <2>1, <2>3, <2>5, PhaseIs DEF OnlyPhase, OthersKept
  <2>7. QED
    BY <2>1, <2>3, <2>4, <2>6, AdmitImplements
<1>3. ASSUME SaveWaiting(q) \/ SaveFailed(q) \/ SaveClarification(q) \/ SaveApproved(q) \/ CompleteLast(q)
      PROVE  Pipeline!Next
  <2>1. PICK i \in Positions, size \in Nat : i = queue[q].index /\ size = queue[q].size /\ i <= size
    BY <1>3, CurrentTyped, QueueAssumption DEF SaveWaiting, SaveFailed, SaveClarification, SaveApproved,
       CompleteLast, At, HasCurrent, QueueAssumption
  <2>2. PICK cur \in Item : cur = item[q][i] /\ cur = Current(q)
    BY <1>t, <2>1 DEF TypeOK, Current
  <2>3. OthersKept(q) /\ \E status, index : Saved(q, status, index)
    <3>1. \E status, index : Saved(q, status, index)
      BY <1>3 DEF SaveWaiting, SaveFailed, SaveClarification, SaveApproved, CompleteLast
    <3>2. OthersKept(q)
      BY <1>3, <1>t DEF SaveWaiting, SaveFailed, SaveClarification, SaveApproved, CompleteLast,
         Saved, Replaced, Finish, OthersKept, TypeOK
    <3>3. QED
      BY <3>1, <3>2
  <2>4. QueueInv(q) /\ StageFits(cur)
    BY <2>2 DEF IInv, StageTells
  <2>5. i \in Nat /\ i <= size
    BY <2>1 DEF Positions
  <2>m. ASSUME NEW it \in Item, Replaced(q, i, it),
               PhaseFor(i, size, it) \in
                 Pipeline!Outcomes(PhaseFor(i, size, cur)) \cup Pipeline!Decisions(PhaseFor(i, size, cur))
        PROVE  Pipeline!Next
    BY <2>1, <2>2, <2>3, <2>m, SaveMoves
  <2>6. ASSUME SaveWaiting(q) PROVE Pipeline!Next
    <3>1. cur.status = "NLU_RUNNING"
      BY <2>2, <2>4, <2>6 DEF SaveWaiting, At, QueueInv, LockOfItem, CurrentIs
    <3>2. PICK it : it = [cur EXCEPT !.status = "WAITING_REQUIREMENT_APPROVAL",
                                     !.stage = "REQUIREMENT_APPROVAL", !.workflow = TRUE]
      OBVIOUS
    <3>3. it \in Item /\ it.status = "WAITING_REQUIREMENT_APPROVAL"
      BY <3>2 DEF Item, ItemStatus, Stages
    <3>4. PhaseFor(i, size, cur) = "analysing" /\ PhaseFor(i, size, it) = "gate"
      BY <2>5, <3>1, <3>3 DEF PhaseFor, PassedGate
    <3>5. Replaced(q, i, it)
      BY <2>1, <2>2, <2>6, <3>2 DEF SaveWaiting
    <3>6. QED
      BY <2>m, <3>3, <3>4, <3>5 DEF Pipeline!Outcomes
  <2>7. ASSUME SaveFailed(q) PROVE Pipeline!Next
    <3>1. cur.status \in {"NLU_RUNNING", "DESIGNING"}
      BY <2>2, <2>4, <2>7 DEF SaveFailed, At, QueueInv, LockOfItem, CurrentIs
    <3>2. PICK it : it = [cur EXCEPT !.status = "FAILED"]
      OBVIOUS
    <3>3. it \in Item /\ it.status = "FAILED" /\ it.stage = cur.stage
      BY <3>2 DEF Item, ItemStatus
    <3>4. /\ PhaseFor(i, size, cur) = (IF cur.status = "NLU_RUNNING" THEN "analysing" ELSE "designing")
          /\ PhaseFor(i, size, it) = (IF PassedGate(it) THEN "failed approved" ELSE "failed unapproved")
      <4>1. ~(i > size)
        BY <2>5, <2>1
      <4>2. PhaseFor(i, size, cur) = (IF cur.status = "NLU_RUNNING" THEN "analysing" ELSE "designing")
        BY <3>1, <4>1 DEF PhaseFor
      <4>3. QED
        BY <3>3, <4>1, <4>2, PhaseGivenUp
    <3>5. PassedGate(it) <=> cur.status = "DESIGNING"
      BY <2>4, <3>1, <3>3 DEF StageFits, PassedGate
    <3>6. Replaced(q, i, it)
      BY <2>1, <2>2, <2>7, <3>2 DEF SaveFailed
    <3>7. PhaseFor(i, size, it) \in Pipeline!Outcomes(PhaseFor(i, size, cur))
      BY <3>1, <3>4, <3>5 DEF Pipeline!Outcomes
    <3>8. QED
      BY <2>m, <3>3, <3>6, <3>7
  <2>8. ASSUME SaveApproved(q) PROVE Pipeline!Next
    <3>1. cur.status = "WAITING_REQUIREMENT_APPROVAL"
      BY <2>2, <2>4, <2>8 DEF SaveApproved, At, QueueInv, LockOfItem, CurrentIs
    <3>2. PICK it : it = [cur EXCEPT !.status = "DESIGNING", !.stage = "DESIGNER"]
      OBVIOUS
    <3>3. it \in Item /\ it.status = "DESIGNING"
      BY <3>2 DEF Item, ItemStatus, Stages
    <3>4. PhaseFor(i, size, cur) = "gate" /\ PhaseFor(i, size, it) = "designing"
      BY <2>5, <3>1, <3>3 DEF PhaseFor, PassedGate
    <3>5. Replaced(q, i, it)
      BY <2>1, <2>2, <2>8, <3>2 DEF SaveApproved
    <3>6. QED
      BY <2>m, <3>3, <3>4, <3>5 DEF Pipeline!Decisions
  <2>9. ASSUME SaveClarification(q) PROVE Pipeline!Next
    <3>1. cur.status = "DESIGNING"
      BY <2>2, <2>4, <2>9 DEF SaveClarification, At, QueueInv, LockOfItem, CurrentIs
    <3>2. PICK it : it = [cur EXCEPT !.status = "FAILED", !.stage = "REVIEWER", !.final = TRUE]
      OBVIOUS
    <3>3. it \in Item /\ it.status = "FAILED" /\ PassedGate(it)
      BY <3>2 DEF Item, ItemStatus, Stages, PassedGate
    <3>4. PhaseFor(i, size, cur) = "designing" /\ PhaseFor(i, size, it) = "failed approved"
      BY <2>5, <3>1, <3>3 DEF PhaseFor, PassedGate
    <3>5. Replaced(q, i, it)
      BY <2>1, <2>2, <2>9, <3>2 DEF SaveClarification
    <3>6. QED
      BY <2>m, <3>3, <3>4, <3>5 DEF Pipeline!Outcomes
  <2>10. ASSUME CompleteLast(q) PROVE Pipeline!Next
    <3>1. cur.status = "DESIGNING"
      BY <2>2, <2>4, <2>10 DEF CompleteLast, At, QueueInv, LockOfItem, CurrentIs
    <3>2. PICK it : it = [cur EXCEPT !.status = "COMPLETED", !.stage = "COMPLETED", !.final = TRUE]
      OBVIOUS
    <3>3. it \in Item /\ it.status = "COMPLETED"
      BY <3>2 DEF Item, ItemStatus, Stages
    <3>4. PhaseFor(i, size, cur) = "designing" /\ PhaseFor(i, size, it) = "frozen"
      BY <2>5, <3>1, <3>3 DEF PhaseFor, PassedGate
    <3>5. Replaced(q, i, it)
      BY <2>1, <2>2, <2>10, <3>2 DEF CompleteLast, CompletedItem
    <3>6. QED
      BY <2>m, <3>3, <3>4, <3>5 DEF Pipeline!Outcomes
  <2>11. QED
    BY <1>3, <2>6, <2>7, <2>8, <2>9, <2>10
<1>4. ASSUME SaveRetry(q) PROVE Pipeline!Next
  <2>1. /\ RetryPosition(q) \in Positions /\ item[q][RetryPosition(q)] \in Item
        /\ PassedGate(item[q][RetryPosition(q)])
    BY <1>4, RetryTyped DEF SaveRetry, StageTells
  <2>2. PICK i \in Positions, cur \in Item, size \in Nat :
          i = RetryPosition(q) /\ cur = item[q][i] /\ size = queue[q].size
    BY <2>1, CurrentTyped, QueueAssumption DEF QueueAssumption
  <2>3. PICK it : it = [cur EXCEPT !.status = "DESIGNING", !.stage = "DESIGNER", !.final = FALSE]
    OBVIOUS
  <2>4. it \in Item /\ it.status = "DESIGNING"
    BY <2>3 DEF Item, ItemStatus, Stages
  <2>5. Replaced(q, i, it) /\ Saved(q, "RUNNING", i)
    BY <1>4, <2>2, <2>3 DEF SaveRetry
  <2>6. OthersKept(q)
    BY <1>4, <1>t DEF SaveRetry, Saved, Replaced, Finish, OthersKept, TypeOK
  <2>7. LockOfItem(q)
    BY DEF IInv, QueueInv
  <2>8. CASE SkippedSingle(q)
    <3>1. i = 1 /\ size = 1 /\ cur.status = "SKIPPED"
      BY <1>4, <2>2, <2>7, <2>8 DEF SaveRetry, At, RetryPosition, LockOfItem, SkippedSingle, CurrentIs, HasCurrent
    <3>2. PhaseFor(i, size, cur) = "skipped approved" /\ PhaseFor(i, size, it) = "designing"
      <4>1. ~(i > size) /\ PassedGate(cur)
        BY <2>1, <2>2, <3>1
      <4>2. PhaseFor(i, size, it) = "designing"
        BY <2>4, <4>1 DEF PhaseFor
      <4>3. QED
        BY <3>1, <4>1, <4>2, PhaseGivenUp
    <3>3. queue'[q].size = size /\ item'[q][i] = it /\ \A j \in Positions \ {i} : item'[q][j] = item[q][j]
      BY <2>2, <2>5, <1>t DEF Saved, Replaced, TypeOK, Queue
    <3>4. OnlyPhase(q, {1})
      BY <2>2, <2>6, <3>1, <3>3, OnlyChanged
    <3>5. PhaseOf(q, 1) = "skipped approved" /\ PhaseOf(q, 1)' = "designing"
      BY <2>2, <3>1, <3>2, <3>3, PhaseIs
    <3>6. \A j \in Positions : j > 1 => PhaseOf(q, j) = "absent"
      BY <2>2, <3>1, PhaseIs DEF PhaseFor, Positions
    <3>7. QED
      BY <3>1, <3>4, <3>5, <3>6, ReviveImplements
  <2>9. CASE ~SkippedSingle(q)
    <3>1. i = queue[q].index /\ i <= size /\ cur.status = "FAILED"
      BY <1>4, <2>2, <2>7, <2>9 DEF SaveRetry, At, RetryPosition, LockOfItem, CurrentIs, HasCurrent, Current
    <3>2. PhaseFor(i, size, cur) = "failed approved" /\ PhaseFor(i, size, it) = "designing"
      <4>1. ~(i > size) /\ PassedGate(cur)
        BY <2>1, <2>2, <3>1 DEF Positions
      <4>2. PhaseFor(i, size, it) = "designing"
        BY <2>4, <4>1 DEF PhaseFor
      <4>3. QED
        BY <3>1, <4>1, <4>2, PhaseGivenUp
    <3>3. QED
      BY <2>2, <2>4, <2>5, <2>6, <3>1, <3>2, SaveMoves DEF Pipeline!Decisions
  <2>10. QED
    BY <2>8, <2>9
<1>5. ASSUME CompleteAndAdvance(q) PROVE Pipeline!Next
  <2>a. /\ queue[q].index \in Positions /\ queue[q].index + 1 \in Positions
        /\ queue[q].size \in Nat /\ queue[q].index < queue[q].size
    BY <1>5, CurrentTyped, QueueAssumption DEF CompleteAndAdvance, At, Positions, QueueAssumption
  <2>1. PICK i \in Positions, size \in Nat :
          i = queue[q].index /\ size = queue[q].size /\ i < size /\ i + 1 \in Positions
    BY <2>a
  <2>2. /\ item'[q][i + 1].status = "NLU_RUNNING" /\ item'[q][i].status = "COMPLETED"
        /\ \A j \in Positions \ {i, i + 1} : item'[q][j] = item[q][j]
    BY <1>5, <2>1, NextItem
  <2>3. OthersKept(q) /\ queue'[q].size = size
    BY <1>5, <1>t, <2>1 DEF CompleteAndAdvance, Saved, Proceed, OthersKept, TypeOK, Queue
  <2>4. OnlyPhase(q, {i, i + 1})
    BY <2>1, <2>2, <2>3, OnlyChanged
  <2>5. TurnIs(q, i)
    BY <2>1, CurrentHasTurn DEF HasCurrent, Positions
  <2>6. item[q][i].status = "DESIGNING" /\ item[q][i + 1].status = "PENDING"
    BY <1>5, <2>1, TurnOfCurrent DEF CompleteAndAdvance, At, IInv, QueueInv, LockOfItem, CurrentIs, Current, Positions
  <2>7. PICK cur, nxt, done, begun :
          /\ cur = item[q][i] /\ nxt = item[q][i + 1]
          /\ done = item'[q][i] /\ begun = item'[q][i + 1]
    OBVIOUS
  <2>8. /\ PhaseOf(q, i) = PhaseFor(i, size, cur) /\ PhaseOf(q, i)' = PhaseFor(i, size, done)
        /\ PhaseOf(q, i + 1) = PhaseFor(i + 1, size, nxt) /\ PhaseOf(q, i + 1)' = PhaseFor(i + 1, size, begun)
    <3>1. \A j \in Positions : /\ PhaseOf(q, j) = PhaseFor(j, size, item[q][j])
                               /\ PhaseOf(q, j)' = PhaseFor(j, size, item'[q][j])
      BY <2>1, <2>3, PhaseIs
    <3>2. QED
      BY <2>1, <2>7, <3>1
  <2>9. /\ i \in Nat /\ i + 1 \in Nat /\ i <= size /\ i + 1 <= size
        /\ cur.status = "DESIGNING" /\ nxt.status = "PENDING" /\ done.status = "COMPLETED"
        /\ begun.status = "NLU_RUNNING"
    BY <2>1, <2>2, <2>6, <2>7 DEF Positions
  <2>10. /\ PhaseFor(i, size, cur) = "designing" /\ PhaseFor(i, size, done) = "frozen"
         /\ PhaseFor(i + 1, size, nxt) = "idle" /\ PhaseFor(i + 1, size, begun) = "analysing"
    BY <2>9 DEF PhaseFor, PassedGate
  <2>11. PhaseFor(i, size, done) \in Pipeline!Outcomes(PhaseFor(i, size, cur)) \cap Pipeline!Done
    BY <2>10 DEF Pipeline!Outcomes, Pipeline!Done
  <2>12. QED
    BY <2>1, <2>4, <2>5, <2>8, <2>10, <2>11, MoveOnImplements
<1>6. QED
  BY <1>1, <1>2, <1>3, <1>4, <1>5 DEF Progress

\* The queue service, its files, locks, threads, faults and restarts
\* implement the pipeline: the APIs of a queue go one at a time, each past
\* its gate before it is designed, and what is frozen stays.
THEOREM PipelineCorrect == Spec => ImplementsPipeline
<1> DEFINE StagesTell == \A p \in Queues : StageTells(p)
           phases == [q \in Queues |-> [i \in Positions |-> PhaseOf(q, i)]]
<1>1. Init => StagesTell
  BY DEF Init, StageTells, StageFits, PassedGate, NewItem, At, Free
<1>2. IInv /\ StagesTell /\ [Next]_vars => StagesTell'
  <2>1. ASSUME IInv, StagesTell, Next PROVE StagesTell'
    BY <2>1, StageStep
  <2>2. ASSUME StagesTell, UNCHANGED vars PROVE StagesTell'
    BY <2>2, StageKept DEF vars
  <2>3. QED
    BY <2>1, <2>2
<1>3. Init => Pipeline!Init
  <2> SUFFICES ASSUME Init PROVE Pipeline!Init
    OBVIOUS
  <2>1. ASSUME NEW q \in Queues, NEW i \in Positions
        PROVE  PhaseOf(q, i) = IF i > Len(Legacy[q]) THEN "absent" ELSE "idle"
    <3>1. item[q][i].status = "PENDING" /\ queue[q].size = Len(Legacy[q])
      BY DEF Init, NewItem
    <3>2. QED
      BY <3>1, PhaseIs DEF PhaseFor
  <2>2. \A q \in Queues : Len(Legacy[q]) \in Nat
    BY QueueAssumption, LenProperties DEF QueueAssumption
  <2>3. QED
    BY <2>1, <2>2 DEF Pipeline!Init, Pipeline!Positions, Pipeline!Untouched, Positions
<1>4. IInv /\ StagesTell /\ [Next]_vars => [Pipeline!Next]_phases
  <2>1. ASSUME IInv, StagesTell, Next PROVE Pipeline!Next \/ SamePhases
    <3>1. ASSUME Fault PROVE SamePhases
      <4>1. \A q \in Queues : queue'[q].size = queue[q].size
        BY <2>1, <3>1 DEF Fault, StopsHalfway, FinalCasesNotSaved, CreateNotSaved, Restart, IInv, TypeOK, Queue
      <4>2. item' = item
        BY <3>1 DEF Fault, StopsHalfway, FinalCasesNotSaved, CreateNotSaved, Restart
      <4>3. QED
        BY <4>1, <4>2, SameItems
    <3>2. QED
      BY <2>1, <3>1, PipelineRequest, PipelineProgress DEF Next
  <2>2. ASSUME UNCHANGED vars PROVE SamePhases
    BY <2>2, SameItems DEF vars
  <2>3. SamePhases => UNCHANGED phases
    BY DEF SamePhases
  <2>4. QED
    BY <2>1, <2>2, <2>3
<1>5. QED
  BY Invariant, <1>1, <1>2, <1>3, <1>4, PTL DEF Spec, ImplementsPipeline, Pipeline!Spec

=============================================================================
