# TLA+ specifications of the multi-agent API test platform

This directory models the platform: how its backend (`src/backend/app`) takes
an API from its document to a catalog of operations, to approved Requirements,
to designed test cases, to an approved execution and a report; the page on
which a user drives it (`src/frontend/src`); the campaigns that evaluate its
agents (`src/evals`); and what all of them promise when requests race, saves
fail, models answer nonsense and processes die. There are nine state machines,
two abstract specifications that two of them are shown to implement, the TLC
configurations that check them on small instances, and TLAPS proofs for every
value of their constants.

Paths below are relative to `src/backend/app` unless they begin with `src/`.

To check a configuration, `tlc -config ProcessingQueue_safety.cfg
MCProcessingQueue`; to check the proofs of a module, `tlapm
ProcessingQueueProofs.tla`. `PROJECT.json` lists the runs, the mutants that
show that each property can fail, the lines of code behind every definition,
the hazards and the theorems.

## 1. The system

The backend is one FastAPI process. Its state is in YAML files (one per
object, replaced atomically through a temporary file and `os.replace`,
`yaml_store.py` 34-54) and in memory (runs, reports, credentials, the job
queue). Three kinds of threads run in it: the event loop, the thread pool
FastAPI uses for synchronous routes, and one executor thread for the slow
Designer/Reviewer chain (`main.py` 46-55). There is no database of its own and
no lock between processes except one claim file per approval.

| component | state | operations | what is hard |
|---|---|---|---|
| Processing queue (`workflow/queue_service.py`, `queue_store.py`, `api/routes/queues.py`) | a queue file with its items | create, start, approve the Requirement, retry, skip; continuations after approval and after a skip | transitions are several saves under a lock per run; `create` takes another lock and another thread; retries reuse what earlier attempts left |
| Workflow snapshots (`workflow/service.py`) | a snapshot file per workflow, a file of Final Cases | analyse, approve, design | three files change in turn; an endpoint may analyse again under an id in use |
| Background worker (`main.py`, `api/routes/queues.py` 60-75) | the executor's FIFO (memory) | submit, run a job, swallow its exception | time passes between the save and the submit; jobs are lost with the process |
| Approval execution (`workflow/execution.py`, `workflow/store.py`, `runs/`, `reports/`) | approvals and `.claim` files on disk, runs and reports in memory | approve, execute manually, execute automatically (regression) | duplicated requests, several processes, exceptions after half of the cases, forgotten runs |
| Human gates (`workflow/execution.py` 51-120, 383-516) | approvals | approve a selection of Final Cases of one or many APIs | ids, counts and fingerprints over several APIs |
| Case design (`workflow/design_nodes.py`, `case_rules.py`, `graph_rules.py`) | the state of one run of a LangGraph graph | Designer, Reviewer, one supplement, local validation, assembly | four notions of "the same case" in one loop over what two models answered |
| Fixture database (`evidence/providers/database.py`, `auth_fixture.py`) | none of its own | bind a case to a row | no row, failing database |
| Credentials (`executor/auth.py`, `api/routes/projects.py`) | cache of tokens, retry times, the refresh task (memory) | resolve, invalidate, refresh in the background, preflight | logins overlap with each other, with refusals and with saved settings |
| Projects (`projects/`) | one file of all projects | create, update, delete | changes what credentials are good for |
| Documents and operation catalog (`requirements/operation_store.py`, `document_store.py`, `api/routes/documents.py`, `operations.py`) | document files, one catalog file of operations | ingest a document, import contracts, discover sources | lost updates: the lock belongs to an instance and every request makes its own; ids that change owner while a flow holds them |
| Parsers and importers (`requirements/document_parser.py`, `openapi.py`, `api_discovery.py`) | none | OpenAPI, Markdown, text to operations | text |
| Language model agents (`workflow/agents.py`, `providers/llm.py`) | a call budget and the telemetry of a phase, merged into the snapshot | call, retry, repair, regenerate | one budget for several kinds of retry; calls that must be told from those of an earlier design |
| Requirement analysis (`workflow/graph.py`, `requirement_rules.py`, `auth_rules.py`, `auth_protocol.py`, `boundary_rules.py`, `evidence/`) | the state of one run of a graph: evidence, Requirement, test points, protocol | collect evidence, ask the NLU agent, bind its answer to the evidence, rewrite it | rules that rewrite each other's results: points are merged, renamed, added, decided and withdrawn, questions asked and settled |
| HTTP executor and target policy (`executor/http.py`, `policy.py`) | none | render, check the target, send | limits, redirects |
| Assertion engine (`assertions/engine.py`) | none | judge a response | pure function |
| Frontend (`src/frontend/src`) | the states of one React component | clicks that start handlers, effects that load and restore | a handler writes what it gets to a page that has moved on |
| Evaluation suite (`src/evals`) | plans, samples, suites, summaries, reports on disk | campaigns over all operations, reports, a pooled experiment | a campaign stops halfway over the files of the last one; a sample that fails drops out of a ratio |
| Configuration (`core/`, `src/backend/config`) | none | read at start | - |

### How the parts interact

    page (React) -> documents, operations -> catalog file <- queue_service (lookup by id)
    client -> routes/queues -> queue_service -> workflow/service -> snapshot, Final Cases
                  |                 ^                    |
                  v                 |                    v
              executor FIFO --------+            design graph -> agents -> model
                                                         \-----> fixture database
    client -> routes/cases, routes/runs -> execution -> .claim, approval, RunStore
                                       |-----> auth (tokens) -> login endpoint
                                       \-----> HTTP executor -> target

* A queue calls the workflow service inside its lock; the service saves the
  snapshot, the queue then saves itself. A link between the two is a fresh
  uuid.
* A route that approves or skips saves first and submits the rest of the work
  to the executor afterwards, when the lock is free.
* Human Gate #2 reads a queue and its Final Cases and writes an approval; it
  never writes the queue. So queue and execution meet in one promise:
  a queue that is READY has frozen, READY case sets
  (`ReadyQueuesHaveFrozenCases`), which is what the gate relies on. They are
  modelled apart.
* A queue holds the id of an operation and looks it up again in the catalog at
  its analysis and at its design. `OperationCatalog` keeps those lookups of a
  flow and leaves the rest of the queue out.
* The page shows queues, workflows and case sets of the backend. `Workspace`
  keeps the backend as far as a page can tell: the status of each queue, which
  settles by itself, and the approvals and runs.
* The graders of the evaluations read the telemetry of a run back from the
  snapshot's metadata (`LlmAgent`), and nothing else of the backend's state.
* An execution asks the credential cache for a token, may report it as refused
  and asks once more. `ApprovalExecution` keeps the "once more" and leaves the
  token out; `AuthRefresh` keeps the token and leaves the approval out.

### What makes each part correct

* Queue: APIs go one at a time and in order; none is designed before its
  Requirement passed the gate; a RUNNING queue is being worked on and settles;
  what is frozen stays frozen; a ready queue tells the truth about its files;
  a continuation finds the item it was meant for.
* Execution: an approval is executed by one request, its cases are sent in
  order and once (one of them twice, after a refused credential), everybody is
  told the same run, a settled approval is final, an execution ends.
* Analysis: what the rules take out of the agent's answer leaves its trace in
  what is shown for approval; a point that waits for approval can be designed,
  in whatever order the rules came to it.
* Design: Final Cases differ by id and by what they execute; nothing the
  models wrote disappears without a note; silence means completeness;
  `added_case_ids` is truthful; READY means valid.
* Credentials: a token reported as refused is not given to anybody again, unless
  the login endpoint issues it again or it is the environment's (section 6); a
  configured project has a usable credential again and again; a run ends;
  failing logins are spaced.
* Catalog: an operation of a document is listed once; an entry goes only for a
  reason that can be named; a flow is analysed and designed from the document
  it was made for.
* Agents: the calls of a phase stay within its budget; the records of a failed
  phase tell whether the model failed it or the platform; the graders read the
  calls that were made; a phase ends.
* Page: everything shown is of the selected project; one handler at a time;
  what was approved and confirmed is what the boxes show; it never stays busy.
* Evaluation: a suite is whole, and the summary of its campaign tells the same of
  it; a detected defect was not there before, the pilot's excepted; pooled
  reports grade the same mutations.

## 2. The modules and their correspondence to the code

| module | lines of code it stands for |
|---|---|
| `ProcessingQueue` | `workflow/queue_service.py`, `workflow/service.py`, `api/routes/queues.py`, `main.py`, the stores |
| `ApiPipeline` | abstract: what `ProcessingQueue` implements |
| `ApprovalExecution` | `workflow/execution.py`, `workflow/store.py`, `runs/store.py`, `reports/` |
| `OneShot` | abstract: what `ApprovalExecution` implements |
| `CaseDesign` | `workflow/design_nodes.py`, `case_rules.py`, `graph_rules.py`, parts of `workflow/models.py`, `cases/validator.py` |
| `AuthRefresh` | `executor/auth.py`, the credential part of `workflow/execution.py`, `api/routes/projects.py` |
| `OperationCatalog` | `requirements/operation_store.py`, `service.py`, `api/routes/documents.py`, `operations.py`; what `queue_service.py` and `graph.py` read of the catalog |
| `RequirementAnalysis` | `workflow/graph.py`, `requirement_rules.py`, `auth_rules.py`, `auth_protocol.py`, `boundary_rules.py`; of `evidence/` the registry and what the providers return |
| `LlmAgent` | `workflow/agents.py`, `providers/llm.py`, the phases of `workflow/service.py`, `src/evals/graders/telemetry.py` |
| `Workspace` | `src/frontend/src`: `App.tsx`, `app/*Actions.ts`, `hooks/*.ts`, `api/client.ts` |
| `EvalCampaign` | `src/evals`: `run_multi_*.py`, the packs, `runner.py`, `recovery_report.py`, `recovery_experiment.py`, the graders |
| `MC*` | constants, symmetry and legacy data for TLC |
| `*Proofs` | theorems and proofs |

Definitions preceded by a comment "Mutant of ..." are plausible bugs of the
definition they precede. They are used by no specification; each is
the evidence that some property notices such a bug.

### ProcessingQueue

`queue[q]` and `item[q][i]` are the queue file; `snap[q][i]` and
`stored[q][i]` the snapshot and the Final Cases that item linked last (the
links are fresh uuids, so an item can reach no others, and an item records only
whether it links them). `txn[q]` is the lock `_transition_lock` of the run and
what its holder will do next; `handoff` the continuations a route has saved and
not yet submitted; `jobs` the executor's FIFO; `creating` the one `create`
between its checks and its save.

A handler is a chain of actions, one per save, since the process can die and a
save can fail between two of them:

| handler | actions |
|---|---|
| `create` 50-104 | `CreateCheck`, `CreateSave` |
| `start` 121-129, `_start_current` 477-493, `_run_nlu_for_current` 495-522 | `Start`, then `NluSucceeds` + `SaveWaiting` or `NluFails` + `SaveFailed` |
| approve 150-204 | `Approve` (snapshot), `SaveApproved` (queue), `Submit` (route) |
| retry 243-323 | `Retry` (snapshot), `SaveRetry` (queue), `Submit` |
| `_continue_current_after_approval` 395-475 | `BeginDesign`, `DesignCompletes` or `DesignFails`, `SaveFinalCases`, `SaveClarification`, `CompleteLast` or `CompleteAndAdvance`, the latter into the analysis of the next item |
| `skip_current` 325-380, `continue_after_skip` 382-393 | `SkipLast` or `SkipAndAdvance`, `Submit`, `BeginNextNlu` |
| `POST /workflows/design` | `Reanalyse`: replaces the snapshot of an id in use, on the event loop, without the queue's lock |
| failing saves, death of the process | `StopsHalfway`, `FinalCasesNotSaved`, `CreateNotSaved`, `Restart` |

The verdict on a design stays in memory between its saves: the file of Final
Cases and the queue follow it, whatever `Reanalyse` has made of the snapshot on
disk meanwhile. `Reject` is what the worker does with a job whose queue has moved on; that it
never happens is `ContinuationsFindTheirItem`. Queues of several items are not
made by `create` any more, they come from files of earlier releases; the
constant `Legacy` puts them on disk. `approve_current` and
`retry_current_design`, which nothing but tests calls, are not modelled.

### ApprovalExecution

`approval[a]` is the approval file, `claimed` the `.claim` files (`O_EXCL`,
`store.py` 33-66, never removed), `changed[a]` whether the Requirement has been
replaced since the approval, `results[p]` the RunStore of a process, `lock[p]`
its lock, `req[r]` a request with its program counter, and `sent[a][c]` how
often a case was sent. A manual request goes `Load`, `Claim`, `Reload`,
`SaveRunning`, `Prepare`, then `Send` and `Answered` per case, `SaveRun`,
`Finish`; a regression goes `LoadAuto`, `CheckRequirement`, `Prepare` and so on
and touches neither claim nor approval. `Raise` is any exception on the way: it
makes a manual execution FAILED and only ends a regression. `NotSaved` is an
approval that cannot be saved, `Crash` a process that forgets its runs.

### CaseDesign

One run of the graph, a case per step. `todo`, `draft`, `held`, `supplement`
are the lists the nodes pass on, `next` the case the assembler looks at,
`final`, `added`, `seen`, `gaps` what it has so far. The two models are the
environment: `Designer`, `Supplement` and `Reviewer` take any answer the
response schema lets through. A case is what the rules look at. Its assertions
are pairs of an id and what they check, and four keys decide on sameness, as in
the code: the id, `SemanticKey`, `ExecutionKey` and `SameRequest` for contract
cases. `FoldContract` merges contract cases into drafts (`case_rules.py`),
`SupplementCase` accepts or refuses a supplement, `LocalValidator` finds the
specifications that stay open, and `DropInvalid`, `Drop`, `Duplicate`,
`Merge`, `Keep` are the five ways through the assembler's loop. `Fail` and
`DatabaseError` are the exceptions that end a design.

Rules that rewrite one case on its own (evidence, lengths, credentials,
basic assertions) make one answer of another, so the pool holds what they
leave; those of `validator.py` that concern no other case are the attribute
`sound`. The assembler changes a case that was judged before and does not judge
it again: it takes out assertions the Reviewer objects to, the header with a
placeholder for a token, and puts the value of a row in (`Reviewed`, `Bound`);
such a case may be sound or not (`Unjudged`).

### AuthRefresh

`cache[p]` is a token with the ticks it has left, `retryAt[p]` the ticks until
the task may try again, `login[a]` the login under way for an actor (a run or
the refresh task), `refresher` the task with the projects left in its pass and
the age of the clock reading it compares with. A step lasts from one `await`
to the next, since everything is on one event loop. `Begin`, `Answer`,
`Refused` and `Resent` are a run; `Wake`, `Skip`, `Refresh`, `Sleep` the task;
`LogIn`, `Issue`, `Succeed`, `LoginFails`, `Raise` a login; `Preflight` and
`Update` the project routes; `Tick` is time. `enabled` has the projects whose
settings configure the provider. For the properties `refused` remembers which
credentials were reported, the environment's among them, and `reissued` which
tokens the service issued again while somebody had them (`Issue`).

Time does not pass while a timer is due or a step without an `await` is under
way. Tokens that nobody holds any more stand for new ones, so four are enough
for an unbounded number of logins of one run and the task.

### OperationCatalog

`cat` is the catalog file, a function from ids to entries. An id is a pair: the
id an operation was found with and, when another document holds that id, the
document whose hash is the suffix. A request reads the file (`Read`, into
`base` and `mine`), merges one operation after the other (`Merge`, at `pos`)
and replaces the file (`Write`); the lock around these steps belongs to an
instance that no other request has, so it is not there. `Ingest` stores the
document first and fails when its contract is malformed; `Import` is
`import_text` or `discover`, which lists the catalog once more (`List`);
`NotWritten` is a file that cannot be replaced; `Restart` begins another
session, whose catalog shows nothing of the earlier ones but keeps it.

| code | definition |
|---|---|
| `_merge_operations` 80-103: the id, what it supersedes, the entry | `IdFor`, `Superseded`, `EntryOf`, `Merged` |
| `save_requirement_document_operations` 53-65, `save_many` 45-51 | `Kept` |
| `queue_service._create` 54-78 | `MaySelect`, `Select` |
| `graph._document_parser` 115-135, from analysis and from design | `Analyse`, `Design` |
| completion, retry, skip of the queue | `Freeze`, `Retry`, `Skip` |

`raced` and `displaced` are histories: that a request replaced a catalog it had
not read, and that an import took the place of another operation.

### RequirementAnalysis

The analysis of one API up to Human Gate #1. `node` is the node of the graph
that is next or, after the agent's answer, the rule of the last node; `facts`
the evidence bundle, `output` the answer as it came, `requirement` and `points`
what the rules have made of it, `at` the place of a loop over the parameters.

| code | action |
|---|---|
| `_document_parser` | `ParseDocument` |
| `_evidence_retriever`, the registry, `extract_auth_protocol` | `RetrieveEvidence` (`Healthy`, `Consulted`, `FactsOf`, `ExtractProtocol`) |
| the project's routes, while the model answers | `SaveSettings` |
| `_nlu_agent_node`: the agent, `_normalize_requirement` | `NluAgent`, `AgentFails` |
| `_normalize_auth_protocol_output` | `NormalizeAuthProtocol` (`MergeRejections`, `Canonical`, `BindFixture`) |
| `_require_requirement`, `_normalize_test_points` | `RequireRequirement`, `NormalizeTestPoints` |
| `_complete_explicit_numeric_boundary_points` | `CompleteBoundaryPoints`, one parameter a step, `BoundariesCompleted` |
| `_resolve_exact_numeric_boundary_fixtures` | `ResolveBoundaryFixture`, one point a step: `Classify` or `Withdraw` |
| the workflow waits for approval | `WaitForApproval` |

A text is what the rules look for in it: the parameters and the numbers it
mentions, the credentials and fixture tokens, and whether it leaves the outcome
open. The NLU agent gives any answer of the constant `Outputs`; that an id may
be given twice is in the model. Lists are sets, and where the code takes the
first that fits (`next`, the order of facts) the model takes any. One table of
the database is on the allowlist, so a token names a parameter and no table;
that a bundle holds at most 100 facts is left out. The database is
read again for every point, and any of these reads may fail.

### LlmAgent

One workflow. A phase (`StartNlu`, `StartDesign`, `RetryDesign`) has a provider,
a `budget` and a telemetry `tele` of its own and goes through the agents of
`Plan`: the Designer, the Reviewer, and the Designer again when the Reviewer
proposed cases. `Call` takes one of an agent's attempts and one of the budget;
`Answer` is the provider's verdict `Complete` on a reply, which decides whether
the next attempt generates, repairs or regenerates (`ModeFor`) or is not made
(`GiveUp`); `OddAnswer` is the reply whose message is no object. `NodeDone`,
`PhaseDone`, `NodeFails` are the node around the agent, which may fail before
its agent is called as well as after, in the first agent's place with no call
made at all. At its end a phase merges its telemetry into the snapshot's
metadata (`Merged`), key by key, over what an earlier design left there, or
saves nothing (`Ends`): a project or an operation that is gone, or a save that
fails. A reply is a record of what `complete` looks
at: credential, transport, reason to finish, content.

### Workspace

One page. `page` has the states of the component `App`; a handler in flight is
a record with what it captured when it was clicked (`flight[s]`, one slot per
handler at once) and the request it awaits. Clicking (`Run`, `Retry`, `Approve`,
`Gate`, `Execute`, `Upload`, `Save`) makes the writes before the
first `await`, each answer those up to the next one, and the last one runs the
`finally` block (`Ends`). `Write` adds what the effects of React do after a
write: the effect that selects all cases again (`Follow`), the one that clears
the page for another project and loads it (`Loading`, `load`), the one that
looks for the report of a finished queue (`restore`). The loader and the
restorer are cancelled when their keys change; handlers are not. The loader
shows the queue as it read it first, and of its second reads, the document and
the workflow of a queue whose analysis is done, whichever succeed. A workflow
has the number of its queue: a queue whose analysis failed has none, and the one
it gets when it is analysed again is a change for the effects. `queues` and
`runs` are the backend, which moves by itself (`ServerSettles`). `history` keeps
what the user did in the time of a handler: changed the project, uploaded a
file, moved a box while the gate was asked, confirmed side effects.

### EvalCampaign

`campaign` is the process of `run_multi_recovery` or `run_multi_reviewer` (the
`kind`, fixed): it takes the plan of each operation in turn (`TakePlan`), runs
the control and then each mutation (`RunSample`), writes the operation's file
(`WriteOperation`), and at the end the suite and the summary one after the other
(`WriteSuite`, `WriteSummary`). `Aborts` ends it anywhere, by an error, the
redaction audit or the user. `Start(TRUE)` is a dry run. `Report` grades the
suite that is on disk at that moment: `Graded` are the mutations in its
denominators, `Detected` those in its numerators, `Ready` its status. `Pool` is
the experiment over reports. `Rebuild` makes the plan of an operation again from
the cases available. `plans[op]` is the set of the operation's one plan, or
empty: a reviewer campaign with a plan of no mutation runs the control only, a
recovery campaign stops. Of the pilot's suite, which a reviewer campaign takes
over, `run_multi_reviewer.py` 60-66 looks at the operation only, so it is any
of the constant `PilotSuites`.

## 3. The runs

All pass but the two that end in a violation on purpose (section 6).

| run | instance | what it shows |
|---|---|---|
| `queue_safety` | 2 queues of one API, 2 operations, crashes, failing saves, reused ids | frozen cases are real and final; the queue implements `ApiPipeline` |
| `queue_liveness` | 2 queues, one of them an earlier release's with 2 APIs, no faults | a RUNNING queue is being worked on and settles, continuations find their item, one API hands its turn to the next as in `ApiPipeline` |
| `approval` | 2 processes, 1 approval of 2 cases, 2 requests, crashes, failing saves, exceptions | one executor, one answer, settled is final, implements `OneShot`; an execution that is neither cut off by a crash nor by a failing save ends |
| `design_safety` | pool of 9 cases, answers of up to 2, reviews with up to 2 specifications, failures | Final Cases differ, nothing is lost silently, silence is completeness, `added_case_ids` is truthful |
| `analysis` | 2 parameters, one in the path; answers of up to 2 of 9 test points, 4 Requirements; 4 settings, 4 ways to declare the token; providers and reads of the database that fail | what is taken out of the answer leaves its trace, what waits for approval can be designed |
| `auth_refresh` | 1 project, a run of 2 cases, the task, 4 tokens, one change of settings, logins that raise | a refused token is not served, but for the two that come back; the task serves, runs end |
| `catalog` | 2 requests, 3 served in all; 3 documents, two that share an id and one malformed; 3 imports; a restart; one flow | an operation is listed once, an entry vanishes for a reason, a flow stays with its document |
| `agent` | budgets of 2 and 5, 2 attempts, 3 phases, 5 replies, nodes and saves that fail | budget and order of calls, a failure explained, telemetry kept, every phase ends |
| `workspace` | 2 projects, 3 operations (2 with side effects), 2 handlers at once, 2 queues, 1 run, 4 clicks | the page is of its project, one handler at a time, the gate is what is shown, never busy for ever |
| `evaluation` | 2 operations, 3 mutations, 2 campaigns, 3 pilot suites, 2 reports, one rebuilt plan | suite, summary and reports tell one story; pooled reports grade the same |
| `queue_one_active`, `design_valid` | smallest instances that show it | a sentence of the repository that the code does not keep |

The type invariants of `AuthRefresh`, `OperationCatalog` and `EvalCampaign` are
proved (section 4) and not among the properties of a run.

### Why the bounds are enough

* Two queues: queues share nothing but the executor, the uniqueness of
  operations and of the active queue; two are needed for each, and a third
  would only wait longer. One item per queue is what `create` makes; two in
  `queue_liveness` give a first and a last item, which the code treats
  differently, and the refinement is checked there too. Crashes and failing
  saves are left out there, since a job that is lost leaves its queue RUNNING
  (`WorkerFailuresArePersisted`, section 6).
* Two requests on one approval, in two processes: one executes and the other
  repeats during it, after it or after a restart, or is a regression besides. A
  single approval, since approvals share only the lock of a process, which the
  theorem covers for any number. Two cases, as the once repeated case may be the
  first, the last or neither.
* The pool of `design_safety` has for every rule of the assembler a case that
  meets it, and pairs that only that rule keeps apart: one id and different
  requests' checks, different ids and one meaning, one execution with the
  assertions in another order, a contract case with an assertion id in use, a
  fixture that resolves to the request of another case. Answers of two cases
  make four in the assembler's loop, enough for a case, its twin, one merged
  into it and one folded.
* The nine points of `analysis` have one of each kind of credential, one that
  tells what neither rule may touch, a category that hides the kind, points that
  mention one and two parameters and the values at, below and above a bound, a
  row of the database and one unknown reference. Two of them meet in every rule
  that compares points; the boundary rules add up to four more. The Requirements
  bound no parameter, one and both, with a sentence that leaves the outcome open
  and one that does not.
* Times of two ticks make a login as long as the retry delay and as a token's
  lifetime, and shorter than the two of them. One run and the task give two
  logins at once. A second project or run makes the liveness check too large;
  the safety theorem holds for any number of both.
* Two catalog requests at once are what one lock would exclude, and a third one
  finds what they left. The documents share an id, so that the suffix happens;
  the imports take an id, a method and path, or both. A second session makes
  entries that are kept and not shown.
* A budget of two runs out in a design (three agents) and in a repair; five is
  the largest that three agents of two attempts can exceed, in the supplement's
  repair. That six is enough for them is proved (`BudgetCorrect`). The replies have one of every way on:
  accepted, to be repaired, to be asked again from nothing, to be repeated as it
  was, not to be repeated. Three phases are an analysis, a design and its retry.
* Two operations of one project and one of another let the page change its
  project, its operation and its queue; two handlers can overlap only with an
  upload, and a third would be a second upload. Four clicks reach from any
  earlier state of the backend over selecting, confirming and the gate to the
  execution, or over any two handlers with a change of project in the middle.
* Two campaigns leave each file either from the first or from the second; an
  operation with two mutations and one with a single one give partial suites.
  The pilot suites have a usable control, none, and one that failed, with the
  mutation found and missed.

Deadlock is checked in `ApprovalExecution` and `AuthRefresh`: in the first, an
approval may be reanalysed and a process crash or restart at any time, in the
second time always goes on, so a deadlock would be an error of the model. The
other systems really stop, when a queue is frozen, an analysis or a design has
ended, and
clients, user and experimenter have done what their bounds let them do.

Symmetry is used in the safety runs of queues and operations, of catalog
requests and of the two mutations of one operation, where no constant or
`CHOOSE` tells them apart; never with liveness. `workspace` has a liveness
property, so of two initial states that differ in the names of two like
operations only it has one (`A1First`).

### Fairness

* `ProcessingQueue`: weak fairness of `Progress(q)`, everything the process
  does of its own accord for a queue. A thread that holds a lock is scheduled,
  the executor is FIFO, model calls have timeouts. No client has to do
  anything, so a queue may wait at its gate forever, and faults are not fair.
* `ApprovalExecution`: weak fairness of the steps of each request that was
  received. Handlers go on when the client disconnects, and every exchange with
  the target ends within its timeout. `ExecutionsEnd` excuses, by name, the two
  steps after which nobody is left to settle the approval.
* `AuthRefresh`: time passes; the task gets its turns; every login ends and
  every case is answered (timeouts). Strong fairness where the world may fail
  time and again but not forever: that the projects can be read, and that a
  login that is tried again and again succeeds. Without the latter no refresh
  could promise anything.
* `LlmAgent`: weak fairness of `Work`, the thread of a phase; every request to
  the model ends within its timeout (`providers/llm.py` 233-240).
* `Workspace`: weak fairness of the answer to each handler, which may be a
  failure. A request of `api/client.ts` is given up by its abort timer as long as
  its headers are awaited. The timer is cleared when they are there (26), while
  `response.json()` (19) is returned without being awaited: a body that neither
  arrives nor breaks off would leave the page busy. That it does one or the other
  is assumed. Neither the user nor the backend has to do anything.

## 4. The theorems

Each holds for every value of the constants that satisfies the module's
`ASSUME`: the types of the flags, that lifetimes, budgets and numbers of cases
are positive, that markers such as `NoToken` are not among the real values, that
the sets of projects and of specifications are finite, that every answer of the
pool is a case with an assertion (the response schema demands one), that the
answers, settings and declarations of an analysis are of the types the schemas
give them, that queues of earlier releases are sequences of operations, that the
operations of one document differ in id and in method and path and those of one
import in id (the discovery and the import see to both), that the order of a
data set lists each operation once, that a page has finitely many operations,
and that the bound on its queues admits the two it may start with. Nothing else
is assumed; the passing runs evaluate them.

| theorem | says |
|---|---|
| `ProcessingQueueProofs!TypeCorrect` | `TypeOK` |
| `ProcessingQueueProofs!ReadyCorrect` | `ReadyQueuesHaveFrozenCases` |
| `ProcessingQueueProofs!FrozenCorrect` | `FrozenCasesStayFrozen` |
| `ProcessingQueueProofs!ContinuationsCorrect` | `ContinuationsFindTheirItem` |
| `ProcessingQueueProofs!WorkedOnCorrect` | `RunningQueuesAreWorkedOn`, if nothing crashes and every save succeeds |
| `ProcessingQueueProofs!OneActiveCorrect` | `OneActiveQueue`, if no retry takes up a skipped queue (section 6) |
| `ProcessingQueueProofs!PersistedCorrect` | `WorkerFailuresArePersisted`, if nothing stops the thread between two saves (section 6) |
| `ProcessingQueueProofs!PipelineCorrect` | `ImplementsPipeline`: the refinement |
| `ApprovalExecutionProofs!TypeCorrect` | `TypeOK` |
| `ApprovalExecutionProofs!OneExecutorCorrect` | `OneExecutor` |
| `ApprovalExecutionProofs!RepliesCorrect` | `RepliesAgree` |
| `ApprovalExecutionProofs!SettledCorrect` | `SettledIsFinal` |
| `ApprovalExecutionProofs!Implements` | `ImplementsOneShot`: the refinement |
| `CaseDesignProofs!TypeCorrect` | `TypeOK` |
| `CaseDesignProofs!DifferCorrect` | `FinalCasesDiffer` |
| `CaseDesignProofs!NothingLostCorrect` | `NothingLostSilently` |
| `CaseDesignProofs!AddedCorrect` | `AddedAreSupplements` |
| `CaseDesignProofs!SilenceCorrect` | `SilenceIsCompleteness` |
| `CaseDesignProofs!ExplainedCorrect` | a Final Case that is not valid has two assertions with one id, was rewritten with a note, or names a row |
| `CaseDesignProofs!ReadyCorrect` | `ReadyCasesAreValid` of a set without remaining gaps, if the ids tell the models' assertions apart and no answer names a row (section 6) |
| `AuthRefreshProofs!TypeCorrect` | `TypeOK` |
| `AuthRefreshProofs!RefusedCorrect` | `NoRefusedTokenIsServed` |
| `OperationCatalogProofs!TypeCorrect` | `TypeOK` |
| `OperationCatalogProofs!OneEntryCorrect` | `OneEntryPerOperation` |
| `OperationCatalogProofs!NothingVanishesCorrect` | `NothingVanishes` |
| `OperationCatalogProofs!FlowReadsCorrect` | `FlowReadsItsDocument` |
| `AgentProofs!TypeCorrect` | `LlmAgent!TypeOK` |
| `AgentProofs!BudgetCorrect` | `BudgetIsKept` |
| `AgentProofs!CallsCorrect` | `CallsExplainTheOutcome` |
| `AgentProofs!TelemetryCorrect` | `TelemetryIsKept` |
| `AgentProofs!AnalysisTypeCorrect` | `AnalysisTypeOK` |
| `AgentProofs!AnswerTraced` | `AnswerIsTraced` |
| `AgentProofs!CanBeDesignedCorrect` | `PointsCanBeDesigned` |
| `WorkspaceProofs!TypeCorrect` | `TypeOK` |
| `WorkspaceProofs!ShownCorrect` | `ShownBelongsToProject` |
| `WorkspaceProofs!OneHandlerCorrect` | `OneHandlerAtATime` |
| `WorkspaceProofs!GateCorrect` | `GateIsWhatIsShown` |
| `EvalCampaignProofs!TypeCorrect` | `TypeOK` |
| `EvalCampaignProofs!ReportsCorrect` | `ReportsTellOfCampaign` |
| `EvalCampaignProofs!PooledCorrect` | `PooledRunsAgree` |

Every proof module has the same order: the invariant, lemmas on the helpers,
one lemma per action, then `Init => IInv`, `IInv /\ [Next]_vars => IInv'`, and
the theorems by temporal logic. `AgentProofs` goes through it three times: for
the budget (`IInv`), for the calls and what is kept of them (`TInv`), and for the
analysis (`AnalysisInv`).

**Queue.** That a READY queue has READY case sets on disk is not inductive: the
status is saved last, by a worker that looked at the items earlier. `IInv`
adds, per queue, that the item the lock's holder works on has the status this
step of the chain supposes (`StatusOfItem`, `LockOfItem`), that items before it
are done and items after it untouched (`Sequential`), that a COMPLETED item
links a READY file (`CompletedIsFrozen`), that a verdict tells the tally
(`ReadyIsTruthful`), that positions beyond the queue's end are as they were
(`Unused`); across queues, that the thread at work has its job at the head of
the FIFO (`WorkerHasJob`) and that what `create` is about to save is not there
yet (`CreatingIsNew`).
Three more theorems build on it. A continuation finds its item because a
queue has one job at most, handed over or in the FIFO, and as long as it waits
nothing else may be done with the queue (`OneContinuation`). A RUNNING queue has
a job or a thread (`WorkedOn`) because the thread never refuses the job it takes
up, for which an item that is designed must link its workflow (`LinksWorkflow`);
with crashes or failing saves this is false (`WorkerFailuresArePersisted`).
Two theorems bound what the code gets wrong. `OneActiveCorrect` needs that as
long as a queue is about to be created none is active (`Single`), and that a
READY queue stays READY (`FrozenStep`) and, without that retry, a skipped one
SKIPPED, so that a queue becomes active only by being created; no assumption is
made on crashes and faults. `PersistedCorrect` needs that the saves after which a
queue is RUNNING and unlocked are those of requests (`WorkerSteps`).
For the refinement, the stage of an item tells on which side of the gate it
failed or was given up (`StageTells`), and a step then changes the phase of one
item, or of one that is done and its successor (`Sequential`).

**Approvals.** `OneExecutor` relates requests pairwise. What makes it hold is
the claim: an approval that is not APPROVED is claimed (`UsedIsClaimed`), a
manual request between its claim and its save of RUNNING is the only one past
the claim (`Exclusive`, `RequestInv`), and the counts of sent cases agree with
where its executor is (`SentInv`), which is also what the refinement needs. A
request that has not begun has no trace (`EarlyInv`, `UnusedIsFresh`).

**Design.** Every key in `seen` belongs to a Final Case with that key's points
and checks (`SeenIsRepresented`); merging only adds points and evidence, so it
survives; before the assembler nothing is assembled (`EmptyBefore`). A case of
the supplement is named as added only if no case of the draft has its id
(`SupplementIsApart`), and ids never change. For `SilenceIsCompleteness`, as
long as nothing is noted each case looked at so far is whole, evidence included
(`NothingNoted`), and the specifications are complete before the loop starts.
The assembler judges again only the cases a Reviewer doubts. So what the first
judgement asks for, but for the rule on the ids of assertions (`OtherRules`), is
said of the contract cases held back, of the draft and of the supplement
(`Judged`), and survives folding and merging. Reviewing and resolving it need
not survive: a case of which the validator's rules no longer hold was doubted,
and the note on it is there, or was answered with a row (`Stands`,
`Rewritten`). That a case asserts something is looked at again for each.

**Credentials.** A token is cached for one project at most (`CachedOnce`); if a
run holds a token that is cached, it is a run of that project
(`HeldByItsRuns`); a token on its way in a login is in no cache, with no run
and in no other login (`ArrivesOnce`). A run that reports a token clears the
cache of its own project only, and only if that holds this very token; the
three together say that no other place can have it. They speak of the tokens
that were issued once while somebody had them (`Unique`): nothing in the code
remembers a refused token, so one that the endpoint issues again, and the
environment's, are cached and served again.

**Catalog.** `OneEntryPerOperation` speaks of the file, and the file becomes
what some request has merged into a copy that may be as old as that request. So
the invariant says the same of every copy (`base`, `mine`), and one operation
keeps it: what it supersedes is of the same document and the same method and
path. That the write explains each loss needs in addition that wherever `mine`
differs from `base` the request's own job accounts for it (`Follows`).
For `FlowReadsItsDocument`, as long as no write raced another and no import
displaced an operation, an id stays with the document that first had it
(`Stays`): ingesting the same document again gives every operation its old id
(`Placed` for the file, `MergeFits` for a copy under way), so the document that
`create` compared is still the one that is read (`FlowFits`).

**Agents.** The budget is kept because each agent starts with its attempts at
zero and makes at most `MaxAttempts` of them: `used` is at most
`(step - 1) * MaxAttempts + attempt`. The records number the calls but the one
under way and the one that was lost (`Booked`), and a snapshot that names the
budget was left when all of it had been used (`Exhausted`).

`CallsExplainTheOutcome` and `TelemetryIsKept` need an invariant of their own on
top of it, `TInv`. Both speak of the calls of one stage among the calls of all,
which `SelectSeq` picks by recursion over the sequence. As the library's
induction theorems cannot be instantiated, `Induction` takes a set of numbers
instead of a predicate and finds the least one outside it by `WFMin`; with it,
what is picked is one function on `0..Len(r)` (`PicksExists`, `PicksAgree`), from
which follows what one more call adds and what a concatenation picks
(`OfStageAppend`, `OfStageConcat`). The invariant follows a phase call by
call: the error the next attempt works on is that of the last record
(`LastCall`), and each stage has as many retries as errors, or one less while
its last error waits for its retry (`Balanced`). Of the metadata it says that
they are the calls that were made, as long as no design was run again over its
cached snapshot (`Kept`), and that those of the last phase come first otherwise
(`Shown`). A phase that is not saved leaves both as they were. A phase's end merges key by key, where the two meet.

**Analysis.** `AnalysisInv` has a part for each rule that has run. What the agent
answered is untouched until the rules on authentication; from them on each
point is traced (`PointsTraced`), with the questions and the sentences of the
Requirement, and each rejection has a fixture or a question, and each later rule
must keep that: a merge keeps the evidence of what it merges
(`MergeFacts`), a renaming leaves a point the kind that its question names, so
the questions that are settled are not those that are needed (`CanonicalFacts`),
a boundary point that goes leaves a question and was never a rejection. Two
facts make the last rule work. Before it, no token for a row is of its own
making (`TokensGiven`), so nothing counts as classified; and a point it
classifies has a token that no other point is looked for by and that keeps it
from being looked at again, so each parameter already decided stays so
(`BoundaryPointChanged`), however many points the next one rewrites.

**Page.** `OneHandlerAtATime` is inductive once it says that two handlers in
flight are the same (`Alone`); no effect of React writes `busy`, whatever it
rewrites (`RenderedBusy`), and an answer writes it only where its handler ends.
`ShownBelongsToProject` needs the types with it: that the queue the page shows
is of its project says nothing if that queue does not exist. The invariant
says of every handler in flight that what it captured is of the selected
project too (`CapturedHere`), because it will write that, and of the loader
that it delivers for that project (`LoadFits`): its request is cancelled when
the project changes, the handlers' requests are not. A change of the project
clears the page but for the selection, which an effect takes from the cases
shown if the number of them changed; it did, unless there were none, and then
nothing was selected (`NoGhosts`). That step counts cases, so it needs the set
of operations to be finite. `GateIsWhatIsShown` rests on both: where a handler
reads the final cases it selects all of them and clears neither approval nor
confirmation, but an effect does when the number of cases has grown. It has,
because the operation just designed is of no other queue (`DifferentOps`), so it
was not among the cases shown before (`Stage`), and the cases shown, those the
loader brings and those the backend has include one another (`Chain`). The one
way out, that another handler or the loader showed the case first, clears both
and is noted when they are given again before the handler ends.

**Evaluation.** Files carry the number of the campaign that wrote them, which
never exceeds the number started, and the one under way has written nothing yet
or only its suite (`Numbering`). A campaign's samples fit its entries
(`CampaignFits`), and so do a suite and a summary with one number (`FilesFit`).
A report that is ready, of plans never rebuilt, grades exactly the plans
(`ReportsFit`), which is why two of them agree.

### Checked and not proved

* Liveness: `RunningSettles`, `ExecutionsEnd`, `RefresherServes`, `RunsEnd`,
  `PhaseEnds`, `BusyEnds`. The proof system has no rule for `ENABLED`, so
  liveness under fairness stays with TLC.

Every invariant and every action property of a passing run is a theorem. No
module has a recursive operator of its own.

## 5. What is not modelled, and why

* Contents: Requirement texts, prompts, requests, responses, wording of errors
  and events. No property here depends on them.
* Parsers, importers, assertion engine, rendering of
  requests, target policy: sequential functions of one input, without state.
  What a parser yields (operations whose ids may collide, or an error after the
  document was stored) is an input of `OperationCatalog`.
* Of the analysis, which excerpt of a document the agent is shown, how the
  source code is searched, the limit on the number of facts, and the points
  generated without an agent (`testpoints/generator.py`).
* The checks of a selection at Human Gate #2 (`workflow/execution.py` 51-120,
  383-516): planned, section 7.
* Of the queue service, `approve_current` and `retry_current_design`, which only
  tests call; of the queue store, the translation of statuses of earlier
  releases.
* Of credentials, several targets per project, how a login is rendered and
  read, and the shutdown of the task.
* Of the page, creating and deleting a project, skipping, what a component
  renders, and the single attempts of polling: `Polled` is the poll that finds
  the queue settled or the last one. The project and the documents are one
  choice (`parsed`, `ops` name a project).
* Of the evaluation suite, the ablation, the annotation and ground-truth tools,
  and the metrics themselves: a sample has an outcome, a report the sets of
  mutations that its ratios count. Aliases of an operation's name are resolved.
* That a FinalCaseSet holds at most 500 notes (`workflow/models.py` 79) is in
  the model (`Finish` fails), but no property is about it.
* Configuration: constants, read at start.

## 6. Where the code and its own words disagree

Two are runs whose property is the quoted sentence; TLC finds a behaviour of
the code that breaks it.

1. `OneActiveQueue` (`queue_service.py` 70, "finish the current API flow before
   selecting another API"). A single-API queue that is SKIPPED counts as
   finished for `create`, and retry takes it back to RUNNING without looking at
   others: skip A, create B, retry A. It is the only way
   (`ProcessingQueueProofs!OneActiveCorrect`).
2. `ReadyCasesAreValid` (`src/docs/architecture/current-architecture.md` 108).
   A contract case is folded into a validated one by the meaning of its
   assertions; the ids may then collide, which `validate_case` refuses. Two more
   ways lead to a case it would refuse. The assembler takes assertions out of a
   case, or the header with a placeholder for its token, and nobody looks whether
   another assertion needed the one (`json_value` with `!= true` its `json_exists`) or the
   operation the other (`design_nodes.py` 269-298, `auth_rules.py` 88-106,
   `cases/validator.py` 159-173, 214-221); that leaves a remaining gap. And a row
   may have a blank value or one that looks like a placeholder
   (`evidence/providers/database.py` 555-587). There is no other
   (`CaseDesignProofs!ExplainedCorrect`), so a set without remaining gaps whose
   cases name no row holds valid cases, if ids of assertions do not collide
   (`ReadyCorrect`).

Five more are stated as definitions that no run checks:

3. `WorkerFailuresArePersisted` (`ProcessingQueue`; `api/routes/queues.py` 61,
   "queue_service has already persisted the failure"). If the save of the
   outcome itself fails, or the document cannot be read, nothing is persisted,
   the exception is swallowed, and the queue stays RUNNING, which neither start
   nor retry nor skip accepts. Short of that it holds
   (`ProcessingQueueProofs!PersistedCorrect`).
4. `RegressionsMatchRequirement` (`ApprovalExecution`;
   `src/docs/architecture/migration-plan.md` 21). The fingerprint is compared
   once (`execution.py` 175), before the awaits on the credential and on every
   case.
5. `FailuresAreFollowedByADelay` (`AuthRefresh`; `executor/auth.py` 145-147).
   The delay is counted from the start of the pass, so a login as slow as the
   delay, and the default timeout is twice the delay, is followed by none.
6. `PartitionsAreKept` (`RequirementAnalysis`; `workflow/boundary_rules.py` 19,
   "preserve explicit numeric equivalence partitions"). The pattern for a value
   looks at digits (290), so 1 is found in -1: with the bound 0, the point just
   made for -1 counts as one about the first valid value 1, and is withdrawn or
   classified if the sentence about it leaves the outcome open.
7. `ConfirmedHasNoQuestions` (`RequirementAnalysis`; `workflow/auth_rules.py`
   245-246 make a Requirement with questions a question). The questions about
   rows are added after that rule.

Met while modelling, in the backend:

* `design_nodes.py` 426 makes a set READY with uncovered test points, which it
  notes as remaining gaps, where `current-architecture.md` 107 asks for full
  coverage.
* A test point that cites evidence no bundle has loses the citation, and no
  question is asked (`requirement_rules.py` 206-210), where `migration-plan.md`
  81-83 has a missing fact become a question; the Requirement's own citations
  are asked about (159-164). If the Requirement treats both kinds of rejected
  tokens alike, its sentences on them are replaced by one (`auth_rules.py`
  163-166, 269-283). `AnswerIsTraced` says what is traced and what is not.
* A refused credential of the environment (`API_TEST_AUTH_TOKEN`) is cached
  again by the next login that fails, with no end to it (`executor/auth.py`
  176-184, 198-201), and the next run gets it. A token that the login endpoint
  issues again after it was refused is cached as well (185-188); only the case
  that met the refusal is not sent again with it (`execution.py` 258).
* Runs are in memory where `migration-plan.md` 516 expects completed history to
  survive a restart; in `ApprovalExecution`, a request that finds a consumed
  approval whose run is forgotten is refused.
* `save_requirement_document_operations` retains "every other document"
  (`operation_store.py` 58) of the catalog it has read, not of the one it
  replaces: two documents ingested at once keep one's operations only.
* If the Requirement treats a forged and an expired token alike and there is any
  fixture, the question for a fixture of the expired kind is taken off
  (`auth_rules.py` 223-230), also where a point that expects no 401 keeps that
  kind and has no fixture.
* An id the NLU agent gives to two points lets a merge of rejections take the
  one that is no rejection with it (`auth_rules.py` 352-353).
* A boundary point about a first valid value takes the outcome of any point with
  a token for an existing, or absent, row of that parameter
  (`boundary_rules.py` 155-165), whatever else that point varies; and a point
  made for a boundary has no evidence if the Requirement cites none.
* The metadata of a cached retry keep the keys of calls that the failed design
  made and the retry did not (`service.py` 217-231), and the graders count them.

On the page: a project that is saved becomes the selected one again, whatever
was selected in between; a failed retry of an analysis leaves the status it
found; a failed queue stays the active one, so that the user can only retry it,
since skipping is offered for a status the backend does not have
(`src/frontend/src/app/workflowActions.ts` 244); and a queue that still runs
when polling gives up, or when the page is loaded again, is polled by nobody.
When a design completes, the handler selects all final cases
(`workflowActions.ts` 214, 328) and leaves the confirmation of side effects to an
effect that fires only if the workflow or the number of case sets changed
(`hooks/useExecutionState.ts` 49-55): if the list of cases was loaded before and
the user confirmed a part of it meanwhile, the confirmation is kept for all.
`ConfirmedIsSelected` excuses it. With one project that takes six clicks, more than
the run's four; a run of seven clicks over one project and two operations showed
both, that it happens without the excuse and never with it.

In the evaluations: the pilot's suite is taken over as verified if it is of the
one operation (`run_multi_reviewer.py` 60-66), also without a control or with
one that failed, and the campaign is then completed and its mutations counted as
detected; suite and summary carry no number of their campaign, so nobody can tell
whether they belong together; a dry run replaces the suite by an empty one
(`run_multi_recovery.py` 174); `recovery_experiment.py` 62 asks for two reports
and takes one path twice, and pools reports of different mutation plans.

## 7. Plan

1. Done: `ProcessingQueue` / `ApiPipeline`, `ApprovalExecution` / `OneShot`,
   `CaseDesign`, `AuthRefresh`, `OperationCatalog`, `RequirementAnalysis`,
   `LlmAgent`, `Workspace`, `EvalCampaign`, with the theorems above.
2. `HumanGate` (`workflow/execution.py` 51-120, 383-516): selections over
   several APIs, ids, side effects and fingerprints, composed with the
   approvals of `ApprovalExecution`: what is sent was frozen and selected.
3. Operators with a reference definition: the assertion engine, the migration of
   statuses in `queue_store.py` 38-91.
4. Larger instances of `Workspace`: a third project and two more clicks.
