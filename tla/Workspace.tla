----------------------------- MODULE Workspace -----------------------------
(* One browser page of the platform (frontend/src: App.tsx, app/*Actions.ts, *)
(* hooks/*.ts) over the queues and the final cases of the backend.  A click  *)
(* starts a handler: it captures the state of the page, awaits requests, and *)
(* writes what they answer without looking at the page again.  Meanwhile the *)
(* user goes on: busy disables most buttons, not the list of projects, the   *)
(* upload of a file, the choice of documents and of operations, nor the      *)
(* boxes of the test cases.  The effects of React run after each write.      *)
EXTENDS Naturals, Sequences, FiniteSets

CONSTANTS
  Projects, None,
  Ops,           \* API operations; each has one final case once designed
  ProjectOf,     \* the project of an operation
  SideEffects,   \* the operations whose case has side effects
  Slots,         \* handlers that can be in flight at once
  MaxQueues,     \* bound on the queues of the backend
  MaxRuns,       \* bound on the executions
  MaxClicks      \* bound on what the user does

Statuses == {"PENDING", "RUNNING_NLU", "WAITING", "FAILED_NLU",
             "RUNNING_DESIGN", "FAILED_DESIGN", "READY"}
Settled == {"WAITING", "FAILED_NLU", "FAILED_DESIGN", "READY"}
Phases == {"waiting", "designing", "final"}
Kinds == {"run", "retry", "approve", "gate", "execute", "upload", "save"}
\* What a handler awaits: nothing, or the answer of one of its requests.
Requests == {"off", "ingest", "create", "start", "started", "retry", "approve", "poll",
            "cases", "workflow", "refresh", "gate", "execute", "parse", "save", "auth"}
Numbers == 0..MaxQueues           \* 0 stands for no queue

ASSUME WorkspaceAssumption ==
  /\ None \notin Projects \cup Ops \cup Statuses \cup Phases \cup Kinds
  /\ IsFiniteSet(Ops)
  /\ ProjectOf \in [Ops -> Projects] /\ SideEffects \subseteq Ops
  /\ MaxQueues \in Nat /\ MaxRuns \in Nat /\ MaxClicks \in Nat
  /\ MaxQueues >= 2                \* what Earlier can have left

Page == [
  project : Projects, ops : Projects \cup {None}, parsed : Projects \cup {None},
  chosen : Ops \cup {None},
  queue : Numbers, status : Statuses \cup {None},   \* of the queue shown
  wf : Numbers, phase : Phases \cup {None},         \* of the workflow shown
  sets : SUBSET Ops, selected : SUBSET Ops,
  confirmed : SUBSET Ops,                           \* side effects the user accepted
  approval : [of : Projects \cup {None}, cases : SUBSET Ops],
  report : 0..MaxRuns, busy : BOOLEAN, starting : BOOLEAN]

Flight == [kind : Kinds \cup {None}, pc : Requests, p : Projects \cup {None}, q : Numbers,
           op : Ops \cup {None}, wf : Numbers, cases : SUBSET Ops]

VARIABLES
  page,      \* the states of the React component App
  flight,    \* the handlers in flight, with what they captured
  load,      \* the request of useProjectWorkspace that was not cancelled
  restore,   \* the queue whose report useExecutionState looks for, or 0
  queues,    \* backend: the queues, in the order they were made
  runs,      \* backend: the executions
  clicks,    \* what the user did so far
  history    \* crossed: the project was changed while a handler was in flight;
             \* overlapped: a file was uploaded while another one was;
             \* moved: the selection changed while the gate was asked;
             \* hasty: side effects were confirmed while a handler was in flight

vars == <<page, flight, load, restore, queues, runs, clicks, history>>
server == <<queues, runs>>

-----------------------------------------------------------------------------
(* The backend.                                                             *)

Queue == [p : Projects, op : Ops, status : Statuses]
Of(p) == {n \in DOMAIN queues : queues[n].p = p}
Latest(p) == IF Of(p) = {} THEN 0 ELSE CHOOSE n \in Of(p) : \A m \in Of(p) : m <= n
Completed(p) == {queues[n].op : n \in {m \in Of(p) : queues[m].status = "READY"}}
StatusOf(n) == IF n = 0 THEN None ELSE queues[n].status

\* Mutant of PhaseAt: the workflow is shown with the status of its queue.
PhaseOfQueue(status) == status

PhaseAt(status) == CASE status = "WAITING" -> "waiting"
                     [] status \in {"RUNNING_DESIGN", "FAILED_DESIGN"} -> "designing"
                     [] status = "READY" -> "final"
                     [] OTHER -> None

Becomes(n, status) == queues' = [queues EXCEPT ![n].status = status]

\* The executor and the threads of the backend: see ProcessingQueue.
ServerSettles(n) ==
  /\ \/ queues[n].status = "RUNNING_NLU" /\ \E st \in {"WAITING", "FAILED_NLU"} : Becomes(n, st)
     \/ queues[n].status = "RUNNING_DESIGN" /\ \E st \in {"READY", "FAILED_DESIGN"} : Becomes(n, st)
  /\ UNCHANGED <<page, flight, load, restore, runs, clicks, history>>

MayCreate(p, op) ==
  /\ Len(queues) < MaxQueues
  /\ \A n \in Of(p) : queues[n].status = "READY"
  /\ ProjectOf[op] = p /\ op \notin Completed(p)

\* Human Gate #2 takes cases of the completed APIs of its project only.
MayApprove(p, cases) == cases # {} /\ cases \subseteq Completed(p)

-----------------------------------------------------------------------------
(* The page.                                                                *)

NoApproval == [of |-> None, cases |-> {}]
NoLoad == [pc |-> "off", q |-> 0, status |-> None, sets |-> {}]
Idle == [kind |-> None, pc |-> "off", p |-> None, q |-> 0, op |-> None, wf |-> 0,
         cases |-> {}]

Blank(w) == [w EXCEPT !.chosen = None, !.queue = 0, !.status = None, !.wf = 0, !.phase = None,
                      !.approval = NoApproval, !.report = 0, !.starting = FALSE]

\* resetWorkflowContext keeps the operations and the cases of the project.
ResetContext(w) == [Blank(w) EXCEPT !.selected = {}]

\* Mutant of Loading: the effect does not clear the page for the new project.
LoadingOver(w) == w

Loading(w) == [Blank(w) EXCEPT !.sets = {}, !.ops = None, !.parsed = None]

\* The keys of the effect that selects all cases again.
Keys(w) == <<w.wf, w.phase = "final", Cardinality(w.sets)>>
Reselect(w) == [w EXCEPT !.selected = w.sets, !.approval = NoApproval, !.report = 0,
                         !.confirmed = {}]
Follow(old, new) == IF Keys(old) # Keys(new) THEN Reselect(new) ELSE new

\* The page once the effects that a write causes have run.
Rendered(old, new) ==
  LET seen == Follow(old, new)
  IN  IF new.project # old.project THEN Follow(seen, Loading(seen)) ELSE seen

InFlight(f) == {s \in Slots : f[s].kind # None}

\* flight' is given before.  An effect whose keys changed is cancelled and
\* runs again.
Write(w) ==
  /\ page' = Rendered(page, w)
  /\ load' = IF w.project # page.project THEN [NoLoad EXCEPT !.pc = "read"] ELSE load
  /\ restore' = IF <<page'.project, page'.queue, page'.status>> # <<page.project, page.queue, page.status>>
                THEN IF page'.status = "READY" THEN page'.queue ELSE 0
                ELSE restore
  /\ history' =
       [crossed |-> history.crossed \/ (page'.project # page.project /\ InFlight(flight') # {}),
        overlapped |-> history.overlapped \/
          (InFlight(flight) # {} /\ \E s \in Slots \ InFlight(flight) : flight'[s].kind = "upload"),
        moved |-> history.moved \/
          (page'.selected # page.selected /\ \E s \in Slots : flight'[s].kind = "gate"),
        hasty |-> history.hasty \/ (page'.confirmed \ page.confirmed # {} /\ InFlight(flight) # {})]

Click == clicks < MaxClicks /\ clicks' = clicks + 1
NoClick == UNCHANGED clicks

\* Status and workflow of queue n as the backend knows them.
Shows(w, n) == [w EXCEPT !.queue = n, !.status = StatusOf(n)]
ShowsWorkflow(w, n) == [w EXCEPT !.wf = n, !.phase = PhaseAt(StatusOf(n))]

-----------------------------------------------------------------------------
(* What the user does at once.                                              *)

ActiveFlow == IF page.queue # 0 /\ page.status # "READY" THEN queues[page.queue].op ELSE None

SelectProject(p) ==
  /\ p # page.project /\ Click
  /\ UNCHANGED <<flight, server>>
  /\ Write([Blank(page) EXCEPT !.project = p, !.sets = {}, !.approval = page.approval])

\* A row of the list of operations: the second click takes the choice back.
SelectOperation(op) ==
  /\ Click /\ ActiveFlow = None
  /\ page.ops = ProjectOf[op]
  /\ op \in page.sets => page.chosen = op
  /\ UNCHANGED <<flight, server>>
  /\ Write(IF page.chosen = op THEN [page EXCEPT !.chosen = None]
           ELSE [Blank(page) EXCEPT !.chosen = op, !.parsed = page.ops])

SelectDocument ==
  /\ Click /\ ActiveFlow = None /\ page.ops # None
  /\ UNCHANGED <<flight, server>>
  /\ Write([ResetContext(page) EXCEPT !.parsed = page.ops])

\* Mutant of Toggle: the boxes stay open once the cases are approved, and
\* changing one does not take the approval back.
ToggleOpen(op) ==
  /\ Click /\ op \in page.sets
  /\ UNCHANGED <<flight, server>>
  /\ Write([page EXCEPT !.report = 0, !.confirmed = {},
              !.selected = IF op \in @ THEN @ \ {op} ELSE @ \cup {op}])

\* Mutant of Toggle: a box that moves does not take the confirmation back.
ToggleConfirmed(op) ==
  /\ Click /\ page.approval = NoApproval /\ op \in page.sets
  /\ UNCHANGED <<flight, server>>
  /\ Write([page EXCEPT !.approval = NoApproval, !.report = 0,
              !.selected = IF op \in @ THEN @ \ {op} ELSE @ \cup {op}])

Toggle(op) ==
  /\ Click /\ page.approval = NoApproval /\ op \in page.sets
  /\ UNCHANGED <<flight, server>>
  /\ Write([page EXCEPT !.approval = NoApproval, !.report = 0, !.confirmed = {},
              !.selected = IF op \in @ THEN @ \ {op} ELSE @ \cup {op}])

Confirm ==
  /\ Click /\ page.approval = NoApproval /\ page.selected \cap SideEffects # {}
  /\ UNCHANGED <<flight, server>>
  /\ Write([page EXCEPT !.confirmed = page.selected \cap SideEffects])

-----------------------------------------------------------------------------
(* Handlers: what they capture, and the states they set before they await.  *)

\* The cases that a request of this kind names.
CasesOf(kind) == CASE kind = "gate" -> page.selected
                   [] kind = "execute" -> page.approval.cases
                   [] OTHER -> {}

Begin(s, kind, pc, w) ==
  /\ Click /\ s \notin InFlight(flight)
  /\ s = CHOOSE t \in Slots : t \notin InFlight(flight)   \* which one does not matter
  /\ flight' = [flight EXCEPT ![s] =
       [kind |-> kind, pc |-> pc, p |-> page.project, q |-> page.queue, op |-> page.chosen,
        wf |-> page.wf, cases |-> CasesOf(kind)]]
  /\ UNCHANGED server
  /\ Write([w EXCEPT !.busy = TRUE])

Run(s) ==
  /\ ~page.busy /\ page.ops # None /\ page.parsed # None
  /\ page.chosen # None /\ page.chosen \notin page.sets
  /\ Begin(s, "run", IF page.parsed # page.project \/ page.ops # page.parsed THEN "ingest" ELSE "create",
           [Blank(page) EXCEPT !.chosen = page.chosen, !.starting = TRUE])

Retry(s) ==
  /\ ~page.busy /\ page.status \in {"FAILED_NLU", "FAILED_DESIGN"} /\ ~page.starting
  /\ Begin(s, "retry", IF page.status = "FAILED_DESIGN" THEN "retry" ELSE "start",
           [page EXCEPT !.starting = TRUE])

Approve(s) ==
  /\ ~page.busy /\ page.queue # 0 /\ page.phase = "waiting" /\ ~page.starting
  /\ page.status \notin {"FAILED_NLU", "FAILED_DESIGN"}
  /\ Begin(s, "approve", "approve", page)

Gate(s) ==
  /\ ~page.busy /\ page.approval = NoApproval /\ page.selected # {} /\ page.sets # {}
  /\ page.selected \cap SideEffects \cap page.sets # {} => page.confirmed # {}
  /\ Begin(s, "gate", "gate", page)

Execute(s) ==
  /\ ~page.busy /\ page.approval # NoApproval /\ page.sets # {}
  /\ Begin(s, "execute", "execute", page)

\* A file can be chosen while the page is busy; pasted text cannot be sent.
Upload(s) ==
  /\ ActiveFlow = None
  /\ Begin(s, "upload", "parse", [ResetContext(page) EXCEPT !.parsed = None])

\* Mutant of Save: the button is not disabled while the page is busy.
SaveAnytime(s) == Begin(s, "save", "save", page)

Save(s) == ~page.busy /\ Begin(s, "save", "save", page)

-----------------------------------------------------------------------------
(* Handlers: their requests.  A request is served and answered, or served   *)
(* and its answer lost (the client gives up after a while), or it fails.    *)

At(s, kinds, pc) == flight[s].kind \in kinds /\ flight[s].pc = pc /\ NoClick

Awaits(s, pc, w) == flight' = [flight EXCEPT ![s].pc = pc] /\ Write(w)

\* Mutant of Ends: a branch that returns without the finally block.
EndsBusy(s, w) == flight' = [flight EXCEPT ![s] = Idle] /\ Write(w)

\* The finally block; only run and retry clear startingWorkflow.
Ends(s, w) ==
  /\ flight' = [flight EXCEPT ![s] = Idle]
  /\ Write([w EXCEPT !.busy = FALSE,
                     !.starting = @ /\ flight[s].kind \notin {"run", "retry"}])

Ingested(s) ==
  /\ At(s, {"run"}, "ingest") /\ UNCHANGED server
  /\ LET p == flight[s].p
         w == [page EXCEPT !.parsed = p, !.ops = p]
     IN  IF ProjectOf[flight[s].op] = p THEN Awaits(s, "create", w) ELSE Ends(s, w)

Created(s) ==
  /\ At(s, {"run"}, "create") /\ MayCreate(flight[s].p, flight[s].op)
  /\ queues' = Append(queues, [p |-> flight[s].p, op |-> flight[s].op, status |-> "PENDING"])
  /\ UNCHANGED runs
  /\ \/ /\ flight' = [flight EXCEPT ![s].pc = "start", ![s].q = Len(queues')]
        /\ Write([page EXCEPT !.queue = Len(queues'), !.status = "PENDING"])
     \/ Ends(s, page)

\* The analysis runs while the page awaits the answer.
Started(s) ==
  /\ At(s, {"run", "retry"}, "start")
  /\ queues[flight[s].q].status \in {"PENDING", "FAILED_NLU"}
  /\ Becomes(flight[s].q, "RUNNING_NLU") /\ UNCHANGED runs
  /\ Awaits(s, "started", page)

StartAnswered(s) ==
  /\ At(s, {"run", "retry"}, "started") /\ queues[flight[s].q].status = "WAITING"
  /\ UNCHANGED server
  /\ Ends(s, [ShowsWorkflow(Shows(page, flight[s].q), flight[s].q) EXCEPT
                !.chosen = IF flight[s].kind = "run" THEN flight[s].op ELSE @])

\* The start failed, or takes longer than the client waits.
StartFails(s) ==
  /\ At(s, {"run", "retry"}, "start") \/ At(s, {"run", "retry"}, "started")
  /\ UNCHANGED server
  /\ IF flight[s].kind = "run" THEN Awaits(s, "poll", page) ELSE Ends(s, page)

Resumed(s) ==
  /\ \/ /\ At(s, {"approve"}, "approve") /\ flight[s].wf = flight[s].q
        /\ queues[flight[s].q].status = "WAITING"
     \/ At(s, {"retry"}, "retry") /\ queues[flight[s].q].status = "FAILED_DESIGN"
  /\ Becomes(flight[s].q, "RUNNING_DESIGN") /\ UNCHANGED runs
  /\ \/ Awaits(s, "poll", [page EXCEPT
                 !.queue = flight[s].q, !.status = "RUNNING_DESIGN",
                 !.wf = flight[s].q, !.phase = "designing"])
     \/ flight[s].kind = "retry" /\ Ends(s, page)
     \/ flight[s].kind = "approve" /\ Awaits(s, "refresh", page)

\* waitForQueueSettled: the queue has settled, or the attempts are over.
\* retry shows a queue that still runs as well, with the workflow it has;
\* run does so without it, and approve leaves what is shown.
Polled(s) ==
  /\ At(s, {"run", "retry", "approve"}, "poll") /\ UNCHANGED server
  /\ LET n == flight[s].q
         w == IF flight[s].kind # "approve" THEN Shows(page, n)
              ELSE IF StatusOf(n) \in Settled THEN [Shows(page, n) EXCEPT !.chosen = queues[n].op]
              ELSE page
     IN  CASE StatusOf(n) = "READY" /\ flight[s].kind # "run" -> Awaits(s, "cases", w)
           [] flight[s].kind = "retry" \/ (flight[s].kind = "run" /\ StatusOf(n) = "WAITING")
                -> Awaits(s, "workflow", w)
           [] OTHER -> Ends(s, w)

CasesRead(s) ==
  /\ At(s, {"retry", "approve"}, "cases") /\ UNCHANGED server
  /\ LET cases == Completed(flight[s].p)
     IN  Ends(s, [page EXCEPT !.sets = cases, !.selected = cases, !.chosen = None])

WorkflowRead(s) ==
  /\ At(s, {"run", "retry"}, "workflow") /\ UNCHANGED server
  /\ Ends(s, [ShowsWorkflow(page, flight[s].q) EXCEPT !.chosen = queues[flight[s].q].op])

Refreshed(s) ==
  /\ At(s, {"approve"}, "refresh") /\ UNCHANGED server
  /\ \E answered \in BOOLEAN : Ends(s, IF answered THEN Shows(page, flight[s].q) ELSE page)

GateAnswered(s) ==
  /\ At(s, {"gate"}, "gate") /\ MayApprove(flight[s].p, flight[s].cases) /\ UNCHANGED server
  /\ Ends(s, [page EXCEPT !.approval = [of |-> flight[s].p, cases |-> flight[s].cases]])

\* The run counts for the newest of the queues whose cases were approved.
Executed(s) ==
  /\ At(s, {"execute"}, "execute") /\ Len(runs) < MaxRuns
  /\ MayApprove(flight[s].p, flight[s].cases)
  /\ runs' = Append(runs, [p |-> flight[s].p,
                           q |-> CHOOSE n \in Of(flight[s].p) :
                                   /\ queues[n].status = "READY"
                                   /\ \A m \in Of(flight[s].p) : queues[m].status = "READY" => m <= n])
  /\ UNCHANGED queues
  /\ \E answered \in BOOLEAN :
       Ends(s, [page EXCEPT !.approval = NoApproval, !.report = IF answered THEN Len(runs') ELSE @])

\* Parsing and indexing an uploaded document: one request each.
Uploaded(s) ==
  /\ At(s, {"upload"}, "parse") /\ UNCHANGED server
  /\ Ends(s, [page EXCEPT !.parsed = flight[s].p, !.ops = flight[s].p, !.chosen = None])

\* The project that was saved becomes the selected one; then its
\* credentials are tried.
Saved(s) ==
  /\ UNCHANGED server
  /\ \/ At(s, {"save"}, "save") /\ Awaits(s, "auth", [page EXCEPT !.project = flight[s].p])
     \/ At(s, {"save"}, "auth") /\ Ends(s, page)

\* A request that fails; the start of a queue has StartFails.
Fails(s) ==
  /\ flight[s].kind # None /\ flight[s].pc \notin {"start", "started", "refresh"}
  /\ NoClick /\ UNCHANGED server
  /\ IF flight[s].pc = "approve" \/ (flight[s].kind = "approve" /\ flight[s].pc \in {"poll", "cases"})
     THEN Awaits(s, "refresh", page)
     ELSE Ends(s, IF flight[s].kind = "execute" THEN [page EXCEPT !.approval = NoApproval] ELSE page)

Answer(s) ==
  \/ Ingested(s) \/ Created(s) \/ Started(s) \/ StartAnswered(s) \/ StartFails(s)
  \/ Resumed(s) \/ Polled(s) \/ CasesRead(s) \/ WorkflowRead(s) \/ Refreshed(s)
  \/ GateAnswered(s) \/ Executed(s) \/ Uploaded(s) \/ Saved(s) \/ Fails(s)

-----------------------------------------------------------------------------
(* Effects that await.                                                      *)

\* useProjectWorkspace: operations, queues, documents and final cases of the
\* project are read together...
LoadReads ==
  /\ load.pc = "read"
  /\ LET n == Latest(page.project)
     IN  load' = [pc |-> "deliver", q |-> n, status |-> StatusOf(n), sets |-> Completed(page.project)]
  /\ UNCHANGED <<page, flight, restore, server, clicks, history>>

Loads(w, l) ==
  /\ NoClick /\ UNCHANGED <<flight, server>>
  /\ page' = Rendered(page, w) /\ load' = l
  /\ restore' = IF <<page'.queue, page'.status>> # <<page.queue, page.status>>
                THEN IF page'.status = "READY" THEN page'.queue ELSE 0
                ELSE restore
  /\ history' = [history EXCEPT !.moved = @ \/ (page'.selected # page.selected
                                                /\ \E s \in Slots : flight[s].kind = "gate")]

\* ... shown, and when there is a queue its document is read, and its workflow
\* once it has one, which it has when the analysis is done ...
LoadDelivers ==
  /\ load.pc = "deliver"
  /\ Loads([page EXCEPT !.ops = page.project, !.sets = load.sets,
                        !.parsed = IF load.q = 0 THEN page.project ELSE @],
           IF load.q = 0 THEN NoLoad ELSE [load EXCEPT !.pc = "second"])

\* ... and what of them could be read is shown, with the queue as it was first
\* read.
LoadEnds ==
  /\ load.pc = "second"
  /\ \E document, workflow \in BOOLEAN :
       LET n == load.q
           w == IF workflow /\ PhaseAt(load.status) # None THEN ShowsWorkflow(page, n)
                ELSE [page EXCEPT !.wf = 0, !.phase = None]
       IN  Loads([w EXCEPT !.queue = n, !.status = load.status, !.chosen = queues[n].op,
                           !.parsed = IF document THEN page.project ELSE @], NoLoad)

\* Any of the first reads fails; the second ones have a handler of their own.
LoadFails == load.pc = "read" /\ Loads(page, NoLoad)

\* useExecutionState: the newest report of a queue that is ready.
Restored ==
  /\ restore # 0
  /\ LET reports == {n \in DOMAIN runs : runs[n].p = page.project /\ runs[n].q = restore}
     IN  \/ page' = IF reports = {} THEN page
                    ELSE [page EXCEPT !.report = CHOOSE n \in reports : \A m \in reports : m <= n]
         \/ page' = [page EXCEPT !.report = 0]           \* the request failed
  /\ restore' = 0
  /\ UNCHANGED <<flight, load, server, clicks, history>>

-----------------------------------------------------------------------------
\* What an earlier use of the page can have left: one queue, or two that are
\* ready.
Earlier ==
  LET Was(op, st) == [p |-> ProjectOf[op], op |-> op, status |-> st]
  IN  {<<>>} \cup {<<Was(op, st)>> : op \in Ops, st \in Statuses}
             \cup UNION {{<<Was(op, "READY"), Was(other, "READY")>> : other \in Ops \ {op}} : op \in Ops}

Init ==
  /\ queues \in Earlier
  /\ runs = <<>> /\ clicks = 0
  /\ \E p \in Projects :
       page = [project |-> p, ops |-> None, parsed |-> None, chosen |-> None,
               queue |-> 0, status |-> None, wf |-> 0, phase |-> None, sets |-> {},
               selected |-> {}, confirmed |-> {}, approval |-> NoApproval, report |-> 0,
               busy |-> FALSE, starting |-> FALSE]
  /\ flight = [s \in Slots |-> Idle]
  /\ load = [NoLoad EXCEPT !.pc = "read"]
  /\ restore = 0
  /\ history = [crossed |-> FALSE, overlapped |-> FALSE, moved |-> FALSE, hasty |-> FALSE]

User ==
  \/ \E p \in Projects : SelectProject(p)
  \/ \E op \in Ops : SelectOperation(op) \/ Toggle(op)
  \/ SelectDocument \/ Confirm
  \/ \E s \in Slots : \/ Run(s) \/ Retry(s) \/ Approve(s) \/ Gate(s) \/ Execute(s)
                      \/ Upload(s) \/ Save(s)

Next ==
  \/ User
  \/ \E s \in Slots : Answer(s)
  \/ LoadReads \/ LoadDelivers \/ LoadEnds \/ LoadFails \/ Restored
  \/ \E n \in DOMAIN queues : ServerSettles(n)

Spec == Init /\ [][Next]_vars

\* Every request is answered, fails, or is given up by its timer; the timer is
\* cleared once the headers are there, so a body is taken to arrive or to fail.
FairSpec == Spec /\ \A s \in Slots : WF_vars(Answer(s))
-----------------------------------------------------------------------------
(* Properties.                                                              *)

\* What the page holds, every handler's capture, and the backend's records;
\* the page refers to queues, workflows and reports that exist.
TypeOK ==
  /\ page \in Page
  /\ {page.queue, page.wf, load.q, restore} \subseteq {0} \cup DOMAIN queues
  /\ page.report \in {0} \cup DOMAIN runs
  /\ flight \in [Slots -> Flight]
  /\ load \in [pc : {"off", "read", "deliver", "second"}, q : Numbers,
                status : Statuses \cup {None}, sets : SUBSET Ops]
  /\ restore \in Numbers
  /\ queues \in Seq(Queue) /\ Len(queues) <= MaxQueues
  /\ runs \in Seq([p : Projects, q : Numbers]) /\ Len(runs) <= MaxRuns
  /\ clicks \in 0..MaxClicks
  /\ history \in [crossed : BOOLEAN, overlapped : BOOLEAN, moved : BOOLEAN, hasty : BOOLEAN]

\* All that the page shows, and would send, is of the selected project,
\* unless the project was changed while a handler was in flight: no handler
\* compares the project it captured with the one that is selected when the
\* answer comes, but the loader of the project is cancelled.
ShownBelongsToProject ==
  history.crossed \/
  /\ page.ops \in {page.project, None} /\ page.parsed \in {page.project, None}
  /\ \A op \in page.sets \cup page.selected \cup page.approval.cases : ProjectOf[op] = page.project
  /\ page.chosen # None => ProjectOf[page.chosen] = page.project
  /\ page.queue # 0 => queues[page.queue].p = page.project
  /\ page.wf # 0 => queues[page.wf].p = page.project
  /\ page.report # 0 => runs[page.report].p = page.project

\* While a handler is in flight the page is busy, so no second one starts,
\* unless a file was uploaded while another handler was awaiting.
OneHandlerAtATime ==
  history.overlapped \/
  /\ Cardinality(InFlight(flight)) <= 1
  /\ page.busy <=> InFlight(flight) # {}

\* What the user confirmed and approved at the gate is what the boxes show,
\* unless a box moved while the answer of the gate was awaited.
ApprovedIsSelected ==
  page.approval # NoApproval =>
    \/ history.moved \/ history.crossed \/ history.overlapped
    \/ page.approval.cases = page.selected

\* Once side effects are confirmed no case with a side effect is selected
\* that the user did not see when confirming, unless they were confirmed while
\* a handler was in flight, or the project was changed under one: the
\* confirmation is one flag, sent with whatever the selection has become, and
\* a handler that reads the final cases selects all of them without clearing it.
ConfirmedIsSelected ==
  page.confirmed # {} =>
    \/ history.hasty \/ history.crossed
    \/ page.selected \cap SideEffects \subseteq page.confirmed

\* What the user sees at the gate is what was approved and confirmed.
GateIsWhatIsShown == ApprovedIsSelected /\ ConfirmedIsSelected

\* The page does not stay busy: every branch of every handler ends in its
\* finally block.
BusyEnds == page.busy ~> ~page.busy

=============================================================================
