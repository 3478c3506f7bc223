--------------------------- MODULE ProcessingQueue ---------------------------
(***************************************************************************)
(* The per-API processing queue of the backend (workflow/queue_service.py) *)
(* with the workflow snapshots it drives (workflow/service.py), the files  *)
(* both are saved in, the one-thread executor that runs the slow           *)
(* Designer/Reviewer chain (main.py) and the HTTP routes that hand work to *)
(* it (api/routes/queues.py).                                              *)
(*                                                                         *)
(* Every save replaces one YAML file atomically, so a handler is a chain   *)
(* of steps, one per save; the process can die, and a save can fail,       *)
(* between any two of them.  A transition holds the queue's lock from its  *)
(* first step to its last (_transition_lock): `txn' is that lock, and what *)
(* the holder has got to.  `create' holds another lock (run_id "") and so  *)
(* interleaves with transitions, but it runs on the event loop, on which   *)
(* routes also hand their jobs to the executor.                            *)
(*                                                                         *)
(* workflow_id and final_case_set_id are fresh uuids, so a link can only   *)
(* lead to the snapshot or the case set its own item produced last:        *)
(* snap[q][i] is the snapshot file, stored[q][i] the final-cases file, and *)
(* an item records only whether it links them.  Requirement contents,      *)
(* error texts, events and timestamps are left out.                        *)
(***************************************************************************)
EXTENDS Naturals, Sequences

CONSTANTS
  Queues,       \* run_ids
  Operations,   \* ids of the API operations in the project's catalogue
  MaxItems,     \* items of the longest queue
  NoOp,         \* the operation of a position the queue does not have
  Legacy,       \* items of the queues an earlier release left on disk
  MayCrash,     \* may the process be killed and started again?
  MayFault,     \* may a file fail to be written or read?
  MayReanalyse  \* does a client reuse workflow ids? (the frontend does not)

ASSUME QueueAssumption ==
  /\ MaxItems \in Nat \ {0}
  /\ NoOp \notin Operations
  /\ Legacy \in [Queues -> Seq(Operations)]
  /\ \A q \in Queues : Len(Legacy[q]) <= MaxItems
  /\ MayCrash \in BOOLEAN
  /\ MayFault \in BOOLEAN
  /\ MayReanalyse \in BOOLEAN
  /\ "none" \notin Queues

VARIABLES
  queue,    \* the queue files
  item,     \* their items, by queue and position
  snap,     \* workflow-runs/*.yaml, by the item that links it
  stored,   \* final-cases/*.yaml, by the item whose workflow assembled it
  txn,      \* per queue, the transition that holds its lock
  handoff,  \* continuations whose route has not yet called submit
  jobs,     \* the executor's FIFO; its thread works on the head
  creating  \* the create request between its checks and its save

vars == <<queue, item, snap, stored, txn, handoff, jobs, creating>>

Positions == 1..MaxItems

ItemStatus == {"PENDING", "NLU_RUNNING", "WAITING_REQUIREMENT_APPROVAL",
               "DESIGNING", "COMPLETED", "FAILED", "SKIPPED"}
Stages == {"NLU", "REQUIREMENT_APPROVAL", "DESIGNER", "REVIEWER", "COMPLETED"}
Settled == {"READY_FOR_EXECUTION", "READY_WITH_SKIPS", "SKIPPED"}
Ready == {"READY_FOR_EXECUTION", "READY_WITH_SKIPS"}
QueueStatus == {"PENDING", "RUNNING", "WAITING_REQUIREMENT_APPROVAL", "FAILED"}
                 \cup Settled

\* current_index counts from 0 in the code and from 1 here; a queue that has
\* reached its end is at size + 1.  session tells a queue of this run of the
\* process from one an earlier run left, and "none" is a run_id not in use.
Queue == [session : {"none", "current", "earlier"}, status : QueueStatus,
          index : 1..(MaxItems + 1), size : 0..MaxItems]
Item == [op : Operations \cup {NoOp}, status : ItemStatus, stage : Stages,
         workflow : BOOLEAN, final : BOOLEAN]
Snapshot == [status : {"WAITING_REQUIREMENT_APPROVAL", "DESIGNING", "FAILED",
                       "FINAL_CASES_READY", "NEEDS_CLARIFICATION"},
             artifacts : BOOLEAN, approved : BOOLEAN]
CaseSet == {"none", "READY", "NEEDS_CLARIFICATION"}

\* What the holder of a queue's lock does next, and which thread holds it.
Steps == {"free", "run_nlu", "save_waiting", "save_failed", "save_approved",
          "save_retry", "run_design", "save_ready_cases", "save_unclear_cases",
          "save_designed"}
Txn == [step : Steps, by : {"request", "worker"}]
Free == [step |-> "free", by |-> "request"]
Job == [kind : {"continue_after_approval", "continue_after_skip"}, q : Queues]
NotCreating == [q |-> "none", op |-> NoOp]

NewItem(op) == [op |-> op, status |-> "PENDING", stage |-> "NLU",
                workflow |-> FALSE, final |-> FALSE]
NoSnapshot == [status |-> "FAILED", artifacts |-> FALSE, approved |-> FALSE]

-----------------------------------------------------------------------------
(* The current item, and what a save of the queue changes.                 *)

Exists(q) == queue[q].session # "none"
InQueue(q) == 1..queue[q].size
Current(q) == item[q][queue[q].index]
HasCurrent(q) == queue[q].index <= queue[q].size
CurrentIs(q, status) == HasCurrent(q) /\ Current(q).status = status
CurrentSnap(q) == snap[q][queue[q].index]

Saved(q, status, index) ==
  queue' = [queue EXCEPT ![q].status = status, ![q].index = index]
Replaced(q, i, it) == item' = [item EXCEPT ![q][i] = it]

Active(q) == queue[q].session = "current" /\ queue[q].status \notin Settled

\* completed_project_cases, by operation
Completed == {op \in Operations : \E q \in Queues, i \in Positions :
  /\ queue[q].session = "current"
  /\ item[q][i].op = op /\ item[q][i].status = "COMPLETED" /\ item[q][i].final
  /\ stored[q][i] = "READY"}

-----------------------------------------------------------------------------
(* The lock, and the ways of letting it go.                                *)

Take(q, step, by) == txn' = [txn EXCEPT ![q] = [step |-> step, by |-> by]]
Proceed(q, step) == txn' = [txn EXCEPT ![q].step = step]
At(q, step) == txn[q].step = step

\* The transition is over.  A worker's thread turns to its next job, and a
\* request's route submits the continuation, if any, once it has run again.
Finish(q, continuations) ==
  /\ txn' = [txn EXCEPT ![q] = Free]
  /\ jobs' = IF txn[q].by = "worker" THEN Tail(jobs) ELSE jobs
  /\ handoff' = handoff \cup continuations

\* Mutant of Continue: the route forgets to schedule the continuation.
ContinueForgotten(kind, q) == {}

Continue(kind, q) == {[kind |-> kind, q |-> q]}

Init ==
  /\ queue = [q \in Queues |->
       [session |-> IF Legacy[q] = <<>> THEN "none" ELSE "earlier",
        status |-> "PENDING", index |-> 1, size |-> Len(Legacy[q])]]
  /\ item = [q \in Queues |-> [i \in Positions |->
       NewItem(IF i \in 1..Len(Legacy[q]) THEN Legacy[q][i] ELSE NoOp)]]
  /\ snap = [q \in Queues |-> [i \in Positions |-> NoSnapshot]]
  /\ stored = [q \in Queues |-> [i \in Positions |-> "none"]]
  /\ txn = [q \in Queues |-> Free]
  /\ handoff = {} /\ jobs = <<>>
  /\ creating = NotCreating

-----------------------------------------------------------------------------
(* create: one API operation, when no queue of this session is unfinished  *)
(* and the operation has no frozen cases yet.                              *)

\* Mutant of CreateCheck: a run_id may be used again.
CreateCheckReusingRunId(q, op) ==
  /\ creating = NotCreating
  /\ \A p \in Queues : ~Active(p)
  /\ op \notin Completed
  /\ creating' = [q |-> q, op |-> op]
  /\ UNCHANGED <<queue, item, snap, stored, txn, handoff, jobs>>

CreateCheck(q, op) ==
  /\ creating = NotCreating
  /\ ~Exists(q)
  /\ \A p \in Queues : ~Active(p)
  /\ op \notin Completed
  /\ creating' = [q |-> q, op |-> op]
  /\ UNCHANGED <<queue, item, snap, stored, txn, handoff, jobs>>

CreateSave(q) ==
  /\ creating.q = q
  /\ queue' = [queue EXCEPT ![q] = [session |-> "current", status |-> "PENDING",
                                    index |-> 1, size |-> 1]]
  /\ item' = [item EXCEPT ![q][1] = NewItem(creating.op)]
  /\ creating' = NotCreating
  /\ UNCHANGED <<snap, stored, txn, handoff, jobs>>

-----------------------------------------------------------------------------
(* start, and run_nlu on the current item.                                 *)

\* Mutant of Start: a RUNNING queue may be started again, to recover it
\* from a crash.
StartRunning(q) ==
  /\ Exists(q) /\ At(q, "free")
  /\ queue[q].status \in {"PENDING", "FAILED", "RUNNING"}
  /\ HasCurrent(q)
  /\ Replaced(q, queue[q].index,
              [NewItem(Current(q).op) EXCEPT !.status = "NLU_RUNNING"])
  /\ Saved(q, "RUNNING", queue[q].index)
  /\ Take(q, "run_nlu", "request")
  /\ UNCHANGED <<snap, stored, handoff, jobs, creating>>

\* Mutant of Start: an item analysed again keeps its stage.
StartKeepingStage(q) ==
  /\ Exists(q) /\ At(q, "free")
  /\ queue[q].status \in {"PENDING", "FAILED"}
  /\ HasCurrent(q)
  /\ Replaced(q, queue[q].index, [Current(q) EXCEPT !.status = "NLU_RUNNING",
                                    !.workflow = FALSE, !.final = FALSE])
  /\ Saved(q, "RUNNING", queue[q].index)
  /\ Take(q, "run_nlu", "request")
  /\ UNCHANGED <<snap, stored, handoff, jobs, creating>>

Start(q) ==
  /\ Exists(q) /\ At(q, "free")
  /\ queue[q].status \in {"PENDING", "FAILED"}
  /\ HasCurrent(q)
  /\ IF Current(q).status \in {"PENDING", "FAILED"}
     THEN /\ Replaced(q, queue[q].index,
                      [NewItem(Current(q).op) EXCEPT !.status = "NLU_RUNNING"])
          /\ Saved(q, "RUNNING", queue[q].index)
     ELSE UNCHANGED <<item, queue>>
  /\ Take(q, "run_nlu", "request")
  /\ UNCHANGED <<snap, stored, handoff, jobs, creating>>

\* The NLU graph ends; the snapshot it saves is under a fresh id, which the
\* item learns of only when the queue is saved.
NluSucceeds(q) ==
  /\ At(q, "run_nlu")
  /\ snap' = [snap EXCEPT ![q][queue[q].index] =
       [status |-> "WAITING_REQUIREMENT_APPROVAL", artifacts |-> TRUE, approved |-> FALSE]]
  /\ Proceed(q, "save_waiting")
  /\ UNCHANGED <<queue, item, stored, handoff, jobs, creating>>

NluFails(q) ==
  /\ At(q, "run_nlu")
  /\ Proceed(q, "save_failed")
  /\ UNCHANGED <<queue, item, snap, stored, handoff, jobs, creating>>

SaveWaiting(q) ==
  /\ At(q, "save_waiting")
  /\ Replaced(q, queue[q].index,
       [Current(q) EXCEPT !.status = "WAITING_REQUIREMENT_APPROVAL",
                          !.stage = "REQUIREMENT_APPROVAL", !.workflow = TRUE])
  /\ Saved(q, "WAITING_REQUIREMENT_APPROVAL", queue[q].index)
  /\ Finish(q, {})
  /\ UNCHANGED <<snap, stored, creating>>

\* The item keeps its stage: retry depends on it.
SaveFailed(q) ==
  /\ At(q, "save_failed")
  /\ Replaced(q, queue[q].index, [Current(q) EXCEPT !.status = "FAILED"])
  /\ Saved(q, "FAILED", queue[q].index)
  /\ Finish(q, {})
  /\ UNCHANGED <<snap, stored, creating>>

-----------------------------------------------------------------------------
(* Human Gate #1.  approve_requirement saves the approved snapshot, then   *)
(* the approval, and the queue last.                                       *)

Approve(q) ==
  /\ Exists(q) /\ At(q, "free")
  /\ CurrentIs(q, "WAITING_REQUIREMENT_APPROVAL") /\ Current(q).workflow
  /\ CurrentSnap(q).status = "WAITING_REQUIREMENT_APPROVAL"
  /\ CurrentSnap(q).artifacts
  /\ snap' = [snap EXCEPT ![q][queue[q].index] =
       [@ EXCEPT !.status = "DESIGNING", !.approved = TRUE]]
  /\ Take(q, "save_approved", "request")
  /\ UNCHANGED <<queue, item, stored, handoff, jobs, creating>>

SaveApproved(q) ==
  /\ At(q, "save_approved")
  /\ Replaced(q, queue[q].index,
       [Current(q) EXCEPT !.status = "DESIGNING", !.stage = "DESIGNER"])
  /\ Saved(q, "RUNNING", queue[q].index)
  /\ Finish(q, Continue("continue_after_approval", q))
  /\ UNCHANGED <<snap, stored, creating>>

-----------------------------------------------------------------------------
(* Retry of the design on the persisted NLU snapshot.  A queue of one item *)
(* that was skipped is at its end and goes back to that item.              *)

SkippedSingle(q) ==
  queue[q].status = "SKIPPED" /\ queue[q].size = 1 /\ queue[q].index = 2
RetryPosition(q) == IF SkippedSingle(q) THEN 1 ELSE queue[q].index
RetryStatus(q) == IF queue[q].status = "SKIPPED" THEN "SKIPPED" ELSE "FAILED"

Retry(q) == LET i == RetryPosition(q) IN
  /\ Exists(q) /\ At(q, "free")
  /\ queue[q].status \in {"FAILED", "SKIPPED"}
  /\ i <= queue[q].size
  /\ item[q][i].status = RetryStatus(q)
  /\ item[q][i].stage \in {"DESIGNER", "REVIEWER"} /\ item[q][i].workflow
  /\ snap[q][i].artifacts /\ snap[q][i].approved
  /\ snap' = [snap EXCEPT ![q][i].status = "DESIGNING"]
  /\ Take(q, "save_retry", "request")
  /\ UNCHANGED <<queue, item, stored, handoff, jobs, creating>>

SaveRetry(q) == LET i == RetryPosition(q) IN
  /\ At(q, "save_retry")
  /\ Replaced(q, i, [item[q][i] EXCEPT !.status = "DESIGNING",
                                       !.stage = "DESIGNER", !.final = FALSE])
  /\ Saved(q, "RUNNING", i)
  /\ Finish(q, Continue("continue_after_approval", q))
  /\ UNCHANGED <<snap, stored, creating>>

-----------------------------------------------------------------------------
(* The executor.  The event loop hands a job over when it is not busy with *)
(* a create; the thread blocks on the lock of the queue at the head.       *)

Submit(job) ==
  /\ job \in handoff /\ creating = NotCreating
  /\ handoff' = handoff \ {job}
  /\ jobs' = Append(jobs, job)
  /\ UNCHANGED <<queue, item, snap, stored, txn, creating>>

HeadIs(kind, q) == jobs # <<>> /\ Head(jobs) = [kind |-> kind, q |-> q]

Reject == /\ jobs' = Tail(jobs)
          /\ UNCHANGED txn

\* _continue_current_after_approval up to the call of the design graph
BeginDesign(q) ==
  /\ HeadIs("continue_after_approval", q) /\ At(q, "free")
  /\ IF CurrentIs(q, "DESIGNING") /\ Current(q).workflow
     THEN /\ Take(q, IF CurrentSnap(q).approved /\ CurrentSnap(q).artifacts
                     THEN "run_design" ELSE "save_failed", "worker")
          /\ UNCHANGED jobs
     ELSE Reject
  /\ UNCHANGED <<queue, item, snap, stored, handoff, creating>>

\* continue_after_skip up to the NLU run of the next item
BeginNextNlu(q) ==
  /\ HeadIs("continue_after_skip", q) /\ At(q, "free")
  /\ IF queue[q].status = "RUNNING" /\ CurrentIs(q, "NLU_RUNNING")
     THEN Take(q, "run_nlu", "worker") /\ UNCHANGED jobs
     ELSE Reject
  /\ UNCHANGED <<queue, item, snap, stored, handoff, creating>>

\* Mutant of DesignCompletes: the snapshot is saved while it is still being
\* designed, with the status of the item.
DesignCompletesUnjudged(q, verdict) ==
  /\ At(q, "run_design")
  /\ snap' = [snap EXCEPT ![q][queue[q].index] =
       [status |-> "COMPLETED", artifacts |-> TRUE, approved |-> TRUE]]
  /\ stored' = [stored EXCEPT ![q][queue[q].index] = "none"]
  /\ Proceed(q, IF verdict = "FINAL_CASES_READY" THEN "save_ready_cases" ELSE "save_unclear_cases")
  /\ UNCHANGED <<queue, item, handoff, jobs, creating>>

\* The graph assembled final cases, READY or not; the snapshot is saved, and
\* their file, under a fresh id, is the next save.  The verdict stays in memory:
\* whatever becomes of the snapshot on disk, it is the one the queue acts on.
DesignCompletes(q, verdict) ==
  /\ At(q, "run_design")
  /\ snap' = [snap EXCEPT ![q][queue[q].index] =
       [status |-> verdict, artifacts |-> TRUE, approved |-> TRUE]]
  /\ stored' = [stored EXCEPT ![q][queue[q].index] = "none"]
  /\ Proceed(q, IF verdict = "FINAL_CASES_READY" THEN "save_ready_cases" ELSE "save_unclear_cases")
  /\ UNCHANGED <<queue, item, handoff, jobs, creating>>

DesignFails(q) ==
  /\ At(q, "run_design")
  /\ \/ snap' = [snap EXCEPT ![q][queue[q].index] =
          [status |-> "FAILED", artifacts |-> TRUE, approved |-> TRUE]]
     \/ UNCHANGED snap   \* the operation is gone, or no model is configured
  /\ Proceed(q, "save_failed")
  /\ UNCHANGED <<queue, item, stored, handoff, jobs, creating>>

SaveFinalCases(q) ==
  /\ At(q, "save_ready_cases") \/ At(q, "save_unclear_cases")
  /\ stored' = [stored EXCEPT ![q][queue[q].index] =
       IF At(q, "save_ready_cases") THEN "READY" ELSE "NEEDS_CLARIFICATION"]
  /\ Proceed(q, "save_designed")
  /\ UNCHANGED <<queue, item, snap, handoff, jobs, creating>>

-----------------------------------------------------------------------------
(* The verdict reaches the queue: the item fails in review, or it is       *)
(* complete and the queue ends or turns, still locked, to the next item.   *)

SaveClarification(q) ==
  /\ At(q, "save_designed") /\ stored[q][queue[q].index] # "READY"
  /\ Replaced(q, queue[q].index, [Current(q) EXCEPT !.status = "FAILED",
                                    !.stage = "REVIEWER", !.final = TRUE])
  /\ Saved(q, "FAILED", queue[q].index)
  /\ Finish(q, {})
  /\ UNCHANGED <<snap, stored, creating>>

CompletedItem(q) == [Current(q) EXCEPT !.status = "COMPLETED",
                                       !.stage = "COMPLETED", !.final = TRUE]

\* Mutants of Others: the queue's own tally is not consulted.
OthersAlways(q, status) == TRUE
OthersNever(q, status) == FALSE

Others(q, status) == \E i \in InQueue(q) \ {queue[q].index} : item[q][i].status = status

CompleteLast(q) ==
  /\ At(q, "save_designed") /\ stored[q][queue[q].index] = "READY"
  /\ queue[q].index = queue[q].size
  /\ Replaced(q, queue[q].index, CompletedItem(q))
  /\ Saved(q, IF Others(q, "SKIPPED") THEN "READY_WITH_SKIPS" ELSE "READY_FOR_EXECUTION",
           queue[q].index + 1)
  /\ Finish(q, {})
  /\ UNCHANGED <<snap, stored, creating>>

\* Mutant of CompleteAndAdvance: the lock is released before the next item's
\* NLU run, which nobody then takes up.
CompleteAndStop(q) == LET i == queue[q].index IN
  /\ At(q, "save_designed") /\ stored[q][i] = "READY"
  /\ i < queue[q].size
  /\ item' = [item EXCEPT ![q][i] = CompletedItem(q),
                          ![q][i + 1] = [@ EXCEPT !.status = "NLU_RUNNING", !.stage = "NLU"]]
  /\ Saved(q, "RUNNING", i + 1)
  /\ Finish(q, {})
  /\ UNCHANGED <<snap, stored, creating>>

CompleteAndAdvance(q) == LET i == queue[q].index IN
  /\ At(q, "save_designed") /\ stored[q][i] = "READY"
  /\ i < queue[q].size
  /\ item' = [item EXCEPT ![q][i] = CompletedItem(q),
                          ![q][i + 1] = [@ EXCEPT !.status = "NLU_RUNNING", !.stage = "NLU"]]
  /\ Saved(q, "RUNNING", i + 1)
  /\ Proceed(q, "run_nlu")
  /\ UNCHANGED <<snap, stored, handoff, jobs, creating>>

-----------------------------------------------------------------------------
(* skip_current: one save, and a continuation if items are left.           *)

Skippable(q) ==
  /\ Exists(q) /\ At(q, "free")
  /\ queue[q].status = "FAILED" /\ CurrentIs(q, "FAILED")

SkipLast(q) ==
  /\ Skippable(q) /\ queue[q].index = queue[q].size
  /\ Replaced(q, queue[q].index, [Current(q) EXCEPT !.status = "SKIPPED"])
  /\ Saved(q, IF Others(q, "COMPLETED") THEN "READY_WITH_SKIPS" ELSE "SKIPPED",
           queue[q].index + 1)
  /\ UNCHANGED <<snap, stored, txn, handoff, jobs, creating>>

\* Mutant of SkipAndAdvance: the skipped item is left FAILED.
SkipAndAdvanceUnmarked(q) == LET i == queue[q].index IN
  /\ Skippable(q) /\ i < queue[q].size
  /\ item' = [item EXCEPT ![q][i + 1] = [NewItem(@.op) EXCEPT !.status = "NLU_RUNNING"]]
  /\ Saved(q, "RUNNING", i + 1)
  /\ handoff' = handoff \cup Continue("continue_after_skip", q)
  /\ UNCHANGED <<snap, stored, txn, jobs, creating>>

SkipAndAdvance(q) == LET i == queue[q].index IN
  /\ Skippable(q) /\ i < queue[q].size
  /\ item' = [item EXCEPT ![q][i].status = "SKIPPED",
                ![q][i + 1] = [NewItem(@.op) EXCEPT !.status = "NLU_RUNNING"]]
  /\ Saved(q, "RUNNING", i + 1)
  /\ handoff' = handoff \cup Continue("continue_after_skip", q)
  /\ UNCHANGED <<snap, stored, txn, jobs, creating>>

-----------------------------------------------------------------------------
(* POST /workflows/design with the workflow_id of an item analyses the     *)
(* operation anew on the event loop, takes no queue lock, and replaces the *)
(* snapshot with one that nobody has approved.                             *)

Reanalyse(q, i) ==
  /\ MayReanalyse
  /\ item[q][i].workflow /\ creating = NotCreating
  /\ \E good \in BOOLEAN :
       snap' = [snap EXCEPT ![q][i] =
         [status |-> IF good THEN "WAITING_REQUIREMENT_APPROVAL" ELSE "FAILED",
          artifacts |-> good, approved |-> FALSE]]
  /\ UNCHANGED <<queue, item, stored, txn, handoff, jobs, creating>>

-----------------------------------------------------------------------------
(* Faults.  A save that fails with nothing saved before it leaves the      *)
(* state as it was and is no step here.  After an earlier save, the error  *)
(* releases the lock and leaves the files between two states; inside       *)
(* run_nlu and the design call it fails the item; a requirement document   *)
(* that cannot be read stops _run_nlu_for_current before its try.          *)

StopsHalfway(q) ==
  /\ MayFault
  /\ txn[q].step \in {"run_nlu", "save_waiting", "save_failed", "save_approved",
                      "save_retry", "save_designed"}
  /\ Finish(q, {})
  /\ UNCHANGED <<queue, item, snap, stored, creating>>

FinalCasesNotSaved(q) ==
  /\ MayFault
  /\ At(q, "save_ready_cases") \/ At(q, "save_unclear_cases")
  /\ Proceed(q, "save_failed")
  /\ UNCHANGED <<queue, item, snap, stored, handoff, jobs, creating>>

CreateNotSaved ==
  /\ MayFault /\ creating # NotCreating
  /\ creating' = NotCreating
  /\ UNCHANGED <<queue, item, snap, stored, txn, handoff, jobs>>

\* The process dies and a new one starts with a new runtime_session_id: what
\* is on disk stays, locks, threads and the executor's jobs are gone.
Restart ==
  /\ MayCrash
  /\ queue' = [q \in Queues |-> [queue[q] EXCEPT
                 !.session = IF @ = "none" THEN "none" ELSE "earlier"]]
  /\ txn' = [q \in Queues |-> Free]
  /\ handoff' = {} /\ jobs' = <<>>
  /\ creating' = NotCreating
  /\ UNCHANGED <<item, snap, stored>>

-----------------------------------------------------------------------------
Request(q) ==
  \/ \E op \in Operations : CreateCheck(q, op)
  \/ Start(q) \/ Approve(q) \/ Retry(q)
  \/ SkipLast(q) \/ SkipAndAdvance(q)
  \/ \E i \in Positions : Reanalyse(q, i)

\* What the process does of its own accord once a request has been accepted
Progress(q) ==
  \/ CreateSave(q)
  \/ NluSucceeds(q) \/ NluFails(q) \/ SaveWaiting(q) \/ SaveFailed(q)
  \/ SaveApproved(q) \/ SaveRetry(q)
  \/ \E job \in Job : job.q = q /\ Submit(job)
  \/ BeginDesign(q) \/ BeginNextNlu(q)
  \/ \E verdict \in {"FINAL_CASES_READY", "NEEDS_CLARIFICATION"} : DesignCompletes(q, verdict)
  \/ DesignFails(q) \/ SaveFinalCases(q) \/ SaveClarification(q)
  \/ CompleteLast(q) \/ CompleteAndAdvance(q)

Fault == \/ \E q \in Queues : StopsHalfway(q) \/ FinalCasesNotSaved(q)
         \/ CreateNotSaved
         \/ Restart

Next == (\E q \in Queues : Request(q) \/ Progress(q)) \/ Fault

Spec == Init /\ [][Next]_vars

\* A thread that holds a lock, the executor and the event loop are scheduled;
\* no client is obliged to send anything.
Fairness == \A q \in Queues : WF_vars(Progress(q))

FairSpec == Spec /\ Fairness

-----------------------------------------------------------------------------
(* Properties.                                                             *)

TypeOK ==
  /\ queue \in [Queues -> Queue]
  /\ item \in [Queues -> [Positions -> Item]]
  /\ snap \in [Queues -> [Positions -> Snapshot]]
  /\ stored \in [Queues -> [Positions -> CaseSet]]
  /\ txn \in [Queues -> Txn]
  /\ handoff \subseteq Job
  /\ jobs \in Seq(Job)
  /\ creating \in [q : Queues \cup {"none"}, op : Operations \cup {NoOp}]

\* A queue that Human Gate #2 accepts (BatchHumanGateService.approve takes
\* READY_FOR_EXECUTION and READY_WITH_SKIPS) has at least one completed API,
\* every API it did not skip links a READY case set that is on disk, and its
\* status tells truthfully whether any was skipped.  Three files are saved on
\* the way, and the process may die between any two.
ReadyQueuesHaveFrozenCases ==
  \A q \in Queues : queue[q].status \in Ready =>
    /\ \A i \in InQueue(q) :
         \/ item[q][i].status = "SKIPPED"
         \/ item[q][i].status = "COMPLETED" /\ item[q][i].final /\ stored[q][i] = "READY"
    /\ \E i \in InQueue(q) : item[q][i].status = "COMPLETED"
    /\ queue[q].status = "READY_WITH_SKIPS" <=>
         \E i \in InQueue(q) : item[q][i].status = "SKIPPED"

\* Jobs of q that have been accepted and not yet taken up by the thread
Waiting(q) == {job \in handoff : job.q = q} \cup
              {jobs[k] : k \in {n \in 1..Len(jobs) :
                 jobs[n].q = q /\ ~(n = 1 /\ txn[q].by = "worker" /\ txn[q].step # "free")}}

\* The executor never takes up a continuation for a queue that has moved on:
\* while one waits, no request can start, skip, approve or retry that queue,
\* so the thread finds the item as the route left it.
ContinuationsFindTheirItem ==
  \A q \in Queues : \A job \in Waiting(q) :
    /\ txn[q].step = "free"
    /\ queue[q].status = "RUNNING"
    /\ CurrentIs(q, IF job.kind = "continue_after_approval" THEN "DESIGNING" ELSE "NLU_RUNNING")
    /\ \A n, m \in 1..Len(jobs) : jobs[n].q = q /\ jobs[m].q = q => n = m
    /\ \A other \in handoff : other.q = q => \A n \in 1..Len(jobs) : jobs[n].q # q

\* As long as nothing fails to be saved and the process lives, a RUNNING
\* queue is being worked on: some thread holds its lock, or a job waits.
RunningQueuesAreWorkedOn ==
  \A q \in Queues : queue[q].status = "RUNNING" =>
    txn[q].step # "free" \/ Waiting(q) # {}

\* No step, retries and crashes included, changes the item or the case set
\* of a completed API, and a ready queue stays as ready as it was.
FrozenCasesStayFrozen ==
  [][\A q \in Queues :
       /\ queue[q].status \in Ready => queue'[q].status = queue[q].status
       /\ \A i \in Positions : item[q][i].status = "COMPLETED" =>
            item'[q][i] = item[q][i] /\ stored'[q][i] = stored[q][i]]_vars

\* The phase an item stands for: the stage it failed in tells whether it had
\* passed Human Gate #1.
PhaseOf(q, i) ==
  LET it == item[q][i]
      gate == IF it.stage \in {"DESIGNER", "REVIEWER"} THEN "approved" ELSE "unapproved"
  IN IF i > queue[q].size THEN "absent" ELSE
     CASE it.status = "PENDING" -> "idle"
       [] it.status = "NLU_RUNNING" -> "analysing"
       [] it.status = "WAITING_REQUIREMENT_APPROVAL" -> "gate"
       [] it.status = "DESIGNING" -> "designing"
       [] it.status = "COMPLETED" -> "frozen"
       [] it.status = "FAILED" -> IF gate = "approved" THEN "failed approved" ELSE "failed unapproved"
       [] it.status = "SKIPPED" -> IF gate = "approved" THEN "skipped approved" ELSE "skipped unapproved"

Pipeline == INSTANCE ApiPipeline WITH
  phase <- [q \in Queues |-> [i \in Positions |-> PhaseOf(q, i)]]

\* Locks, files, threads and faults implement the pipeline: APIs of a queue
\* go one at a time, and none is designed without having passed the gate.
ImplementsPipeline == Pipeline!Spec

\* Once a queue is RUNNING it stops running, at a gate, in failure or at its
\* end, provided the process and its files do not fail.
RunningSettles ==
  \A q \in Queues : queue[q].status = "RUNNING" ~> queue[q].status # "RUNNING"

-----------------------------------------------------------------------------
(* Two statements of the code's own that the model refutes.                *)

\* "finish the current API flow before selecting another API"
\* (queue_service.py:70): one session has one unfinished queue at a time.
OneActiveQueue ==
  \A p, q \in Queues : Active(p) /\ Active(q) => p = q

\* "Observe worker exceptions; queue_service has already persisted the
\* failure" (routes/queues.py:61): when the thread is done with a job, the
\* queue of that job is no longer marked as running.
WorkerFailuresArePersisted ==
  [][\A q \in Queues : txn[q].by = "worker" /\ txn[q].step # "free" /\ txn'[q].step = "free"
       => queue'[q].status # "RUNNING"]_vars
=============================================================================
