---------------------------- MODULE EvalCampaign ----------------------------
(* The evaluation campaigns (evals/run_multi_recovery.py and                 *)
(* run_multi_reviewer.py), the reports made of what they leave on disk       *)
(* (recovery_report.py, runner.py), and the experiment that pools reports    *)
(* (recovery_experiment.py).  A campaign goes through the operations of the  *)
(* data set: a control on the unmodified cases, then one sample for each     *)
(* planned mutation.  It writes a file per operation as it goes, the suite   *)
(* and the summary only at the end, one after the other; a failure of the    *)
(* model is fatal to a recovery campaign and is a sample without output in a *)
(* reviewer campaign.                                                        *)
EXTENDS Naturals, Sequences, FiniteSets

CONSTANTS
  Operations, Order,     \* of the data set, and the order of its samples
  Mutations, OpOf,       \* mutations that can be planned, and their operation
  Control,               \* stands for the mutation of a control sample
  Pilot,                 \* the operation whose reviewer suite is reused
  PilotSuites,           \* the suites of it that a campaign can be given
  MaxRuns, MaxReports    \* bounds on the campaigns and on the reports

VARIABLES
  kind,        \* "recovery" or "reviewer"
  plans,       \* the plan file of each operation: the set of its one plan, {} when there is none
  rebuilt,     \* the plans changed since the first campaign
  campaign,    \* the campaign that runs
  started,     \* number of campaigns started
  perOp,       \* the result files, one per operation
  suite,       \* the suite file
  summary,     \* the generation summary
  reports,     \* the reports that were made
  experiment   \* the reports that the last experiment pooled

vars == <<kind, plans, rebuilt, campaign, started, perOp, suite, summary, reports, experiment>>
disk == <<perOp, suite, summary, reports, experiment>>

-----------------------------------------------------------------------------
MutationsOf(op) == {m \in Mutations : OpOf[m] = op}

\* What a sample says: "found" when the reviewer reported the mutation
\* (reviewer), or the final cases have repaired it (recovery); the control can
\* report the target too ("alarm").  Only a reviewer campaign goes on after an
\* error of the model.
Outcomes(m) ==
  (IF m = Control THEN {"clean", "alarm"} ELSE {"found", "missed"})
    \cup (IF kind = "reviewer" THEN {"failed"} ELSE {})

Sample == [op : Operations, mutation : Mutations \cup {Control}, run : 0..MaxRuns,
           outcome : {"found", "missed", "clean", "alarm", "failed"}]

\* Of the pilot's suites only their operation is looked at: they can be without
\* a control, or have a failed one, whatever their mutations say.
PilotSample == [op : {Pilot}, mutation : MutationsOf(Pilot), run : {0},
                outcome : {"found", "missed", "failed"}]
                 \cup [op : {Pilot}, mutation : {Control}, run : {0},
                       outcome : {"clean", "alarm", "failed"}]

ASSUME CampaignAssumption ==
  /\ Order \in Seq(Operations) /\ {Order[i] : i \in DOMAIN Order} = Operations
  /\ \A i, j \in DOMAIN Order : Order[i] = Order[j] => i = j
  /\ OpOf \in [Mutations -> Operations] /\ Control \notin Mutations
  /\ Pilot \in Operations /\ MaxRuns \in Nat /\ MaxReports \in Nat
  /\ PilotSuites \subseteq SUBSET PilotSample /\ {} \notin PilotSuites

SummaryStatus == {"completed", "partial", "pending_input", "validated", "reused"}
Entry == [status : SummaryStatus, mutations : SUBSET Mutations]

NoEntries == [op \in {} |-> 0]
NoFile == [run |-> 0, samples |-> {}]
NoSummary == [run |-> 0, status |-> "partial", entries |-> NoEntries]
Idle == [pc |-> "idle", run |-> 0, dry |-> FALSE, todo |-> <<>>, left |-> {},
         fresh |-> {}, samples |-> {}, entries |-> NoEntries]

Init ==
  /\ kind \in {"recovery", "reviewer"}
  /\ plans \in {p \in [Operations -> {{}} \cup {{MutationsOf(op)} : op \in Operations}] :
                  \A op \in Operations : p[op] \in {{}, {MutationsOf(op)}}}
  /\ rebuilt = FALSE
  /\ campaign = Idle /\ started = 0
  /\ perOp = [op \in Operations |-> {}]
  /\ suite = NoFile /\ summary = NoSummary
  /\ reports = <<>> /\ experiment = {}

-----------------------------------------------------------------------------
(* A campaign.                                                              *)

\* build_recovery_pack, build_multi_reviewer_pack: a plan for the cases that
\* are available at the time; once after a campaign has started.
Rebuild(op) ==
  /\ \E plan \in SUBSET MutationsOf(op) : plans' = [plans EXCEPT ![op] = {plan}]
  /\ plans' # plans /\ rebuilt' = (started > 0)
  /\ ~rebuilt
  /\ UNCHANGED <<kind, campaign, started, disk>>

Start(dry) ==
  /\ campaign.pc = "idle" /\ started < MaxRuns
  /\ dry => kind = "recovery"
  /\ started' = started + 1
  /\ \/ /\ kind = "recovery"
        /\ campaign' = [Idle EXCEPT !.pc = "operation", !.run = started', !.dry = dry, !.todo = Order]
     \/ /\ kind = "reviewer"
        /\ \E pilot \in PilotSuites :
             campaign' = [Idle EXCEPT
               !.pc = "operation", !.run = started', !.samples = pilot, !.todo = Order,
               !.entries = [op \in {Pilot} |-> [status |-> "reused", mutations |-> {}]]]
  /\ UNCHANGED <<kind, plans, rebuilt, disk>>

Current == Head(campaign.todo)

\* A reviewer campaign has the pilot's suite already.
FromPilot(op) == kind = "reviewer" /\ op = Pilot
Reused == FromPilot(Current)

SkipPilot ==
  /\ campaign.pc = "operation" /\ campaign.todo # <<>> /\ Reused
  /\ campaign' = [campaign EXCEPT !.todo = Tail(@)]
  /\ UNCHANGED <<kind, plans, rebuilt, started, disk>>

With(entries, op, entry) == [o \in DOMAIN entries \cup {op} |-> IF o = op THEN entry ELSE entries[o]]

\* The operation is done: on to the next one.
Done(status) ==
  [campaign EXCEPT
     !.pc = "operation", !.todo = Tail(@), !.fresh = {}, !.samples = @ \cup campaign.fresh,
     !.entries = With(@, Current, [status |-> status,
                                   mutations |-> {s.mutation : s \in campaign.fresh} \ {Control}])]

\* The plan is read and a snapshot that fits it is chosen.  A recovery
\* campaign leaves an operation out that has no plan and stops at a plan
\* without a mutation; a reviewer campaign stops when there is no plan, and one
\* without a mutation makes it run the control only.
TakePlan ==
  /\ campaign.pc = "operation" /\ campaign.todo # <<>> /\ ~Reused
  /\ \/ /\ plans[Current] = {} /\ kind = "recovery"
        /\ campaign' = Done("pending_input")
     \/ \E plan \in plans[Current] :
          /\ plan # {} \/ kind = "reviewer"
          /\ campaign' = IF campaign.dry THEN Done("validated")
                         ELSE [campaign EXCEPT !.pc = "control", !.left = plan]
  /\ UNCHANGED <<kind, plans, rebuilt, started, disk>>

\* One call of the reviewer, or of the reviewer and what follows it.
RunSample(m) ==
  /\ \/ campaign.pc = "control" /\ m = Control
     \/ campaign.pc = "mutations" /\ m \in campaign.left
  /\ \E outcome \in Outcomes(m) :
       campaign' = [campaign EXCEPT
         !.pc = "mutations", !.left = @ \ {m},
         !.fresh = @ \cup {[op |-> Current, mutation |-> m, run |-> campaign.run, outcome |-> outcome]}]
  /\ UNCHANGED <<kind, plans, rebuilt, started, disk>>

\* Mutant of StatusFor: the outputs are not looked at.
StatusOptimistic(samples) == "completed"

StatusFor(samples) == IF \A s \in samples : s.outcome # "failed" THEN "completed" ELSE "partial"

WriteOperation ==
  /\ campaign.pc = "mutations" /\ campaign.left = {}
  /\ perOp' = [perOp EXCEPT ![Current] = campaign.fresh]
  /\ campaign' = Done(StatusFor(campaign.fresh))
  /\ UNCHANGED <<kind, plans, rebuilt, started, suite, summary, reports, experiment>>

WriteSuite ==
  /\ campaign.pc = "operation" /\ campaign.todo = <<>>
  /\ suite' = [run |-> campaign.run, samples |-> campaign.samples]
  /\ campaign' = [campaign EXCEPT !.pc = "summary"]
  /\ UNCHANGED <<kind, plans, rebuilt, started, perOp, summary, reports, experiment>>

Overall(entries) ==
  LET statuses == {entries[op].status : op \in DOMAIN entries}
      bad == IF kind = "recovery" THEN SummaryStatus \ {"completed"} ELSE {"partial"}
  IN  IF statuses \cap bad = {} THEN "completed" ELSE "partial"

WriteSummary ==
  /\ campaign.pc = "summary"
  /\ summary' = [run |-> campaign.run, status |-> Overall(campaign.entries),
                 entries |-> campaign.entries]
  /\ campaign' = Idle
  /\ UNCHANGED <<kind, plans, rebuilt, started, perOp, suite, reports, experiment>>

\* A plan that is missing or does not fit, a snapshot that is not there, the
\* redaction audit, an error of the model (recovery), or the user.
Aborts ==
  /\ campaign.pc # "idle" /\ campaign' = Idle
  /\ UNCHANGED <<kind, plans, rebuilt, started, disk>>

-----------------------------------------------------------------------------
(* Reports.                                                                 *)

ControlOf(samples, op) == {s \in samples : s.op = op /\ s.mutation = Control}

\* The mutations in the denominators: those whose reviewer gave an output.
Graded(samples) == {s.mutation : s \in {t \in samples : t.mutation # Control /\ t.outcome # "failed"}}

\* Mutant of Detected: findings of the control are not subtracted.
DetectedRaw(samples) == {s.mutation : s \in {t \in samples : t.outcome = "found"}}

\* A reviewer's finding counts when the control does not have it too; a
\* control that failed has none.  A recovery is not compared with its control.
Detected(samples) ==
  {s.mutation : s \in {t \in samples :
     /\ t.outcome = "found"
     /\ \A c \in ControlOf(samples, t.op) : kind = "recovery" \/ c.outcome # "alarm"}}

\* The suite has exactly one control and some mutation of each operation.
Covers(samples) ==
  \A op \in Operations :
    /\ Cardinality(ControlOf(samples, op)) = 1
    /\ \E s \in samples : s.op = op /\ s.mutation # Control

Ready(samples) ==
  IF kind = "recovery" THEN samples # {} /\ Covers(samples)
  ELSE \A op \in Operations : \E s \in samples : s.op = op

Report ==
  /\ suite # NoFile /\ Len(reports) < MaxReports
  /\ reports' = Append(reports,
       [run |-> suite.run, ready |-> Ready(suite.samples), rebuilt |-> rebuilt,
        graded |-> Graded(suite.samples), detected |-> Detected(suite.samples)])
  /\ UNCHANGED <<kind, plans, rebuilt, campaign, started, perOp, suite, summary, experiment>>

\* Mutant of Accepted: a report is taken whatever its status.
AcceptedAny(i) == TRUE

Accepted(i) == reports[i].ready

\* Two report files at least; nothing is said of their being different.
Pool ==
  /\ kind = "recovery"
  /\ \E i, j \in DOMAIN reports :
       /\ Accepted(i) /\ Accepted(j)
       /\ experiment' = {i, j}
  /\ UNCHANGED <<kind, plans, rebuilt, campaign, started, perOp, suite, summary, reports>>

-----------------------------------------------------------------------------
Next ==
  \/ \E op \in Operations : Rebuild(op)
  \/ \E dry \in BOOLEAN : Start(dry)
  \/ SkipPilot \/ TakePlan \/ (\E m \in Mutations \cup {Control} : RunSample(m))
  \/ WriteOperation \/ WriteSuite \/ WriteSummary \/ Aborts
  \/ Report \/ Pool

Spec == Init /\ [][Next]_vars

-----------------------------------------------------------------------------
(* Properties.                                                              *)

\* The files, the campaign and what the reports count have the shape the
\* readers of the suite expect.
TypeOK ==
  /\ kind \in {"recovery", "reviewer"} /\ rebuilt \in BOOLEAN /\ started \in 0..MaxRuns
  /\ plans \in [Operations -> SUBSET SUBSET Mutations]
  /\ campaign.pc \in {"idle", "operation", "control", "mutations", "summary"}
  /\ campaign.run \in 0..started /\ campaign.left \subseteq Mutations
  /\ campaign.samples \cup campaign.fresh \cup suite.samples \subseteq Sample
  /\ \A op \in Operations : perOp[op] \subseteq Sample
  /\ \A op \in DOMAIN summary.entries : summary.entries[op] \in Entry
  /\ \A i \in DOMAIN reports : reports[i].detected \subseteq reports[i].graded
                              /\ reports[i].graded \subseteq Mutations
  /\ experiment \subseteq DOMAIN reports

\* Whatever the summary says, and of whichever campaign it is: the suite is
\* never older than the summary, and the samples in it are of its own campaign,
\* with exactly one control for each operation that was not taken over from the
\* pilot.
SuiteIsWhole ==
  suite # NoFile =>
    /\ summary.run <= suite.run
    /\ \A s \in suite.samples :
         \/ FromPilot(s.op) /\ s.run = 0
         \/ s.run = suite.run /\ Cardinality(ControlOf(suite.samples, s.op)) = 1

\* The suite and the summary of one campaign tell the same: what the summary
\* calls completed is in the suite with an output, each mutation it counts is
\* in the denominators and no other, and its control is there; what it leaves
\* out or only rehearsed is not in the suite, and an operation of the suite is
\* in the summary.  (The numbers of the campaigns are history: neither file
\* carries one.)
SummaryTellsOfSuite ==
  summary.run = suite.run /\ suite # NoFile =>
    /\ \A s \in suite.samples : s.op \in DOMAIN summary.entries
    /\ \A op \in DOMAIN summary.entries :
         LET of == {s \in suite.samples : s.op = op}
             entry == summary.entries[op]
         IN  /\ entry.status = "reused" => FromPilot(op)
             /\ entry.status \in {"pending_input", "validated"} => of = {}
             /\ entry.status = "completed" =>
                  /\ entry.mutations = Graded(of) /\ (kind = "recovery" => entry.mutations # {})
                  /\ Cardinality(ControlOf(of, op)) = 1
                  /\ \A c \in ControlOf(of, op) : c.outcome # "failed"

\* A mutation that a reviewer detected was not reported on the unmodified
\* cases: it was compared with one control, and unless that control has an
\* output the summary of the campaign calls the operation and itself partial.
\* The pilot is excepted: its suite can be without a control, or have a failed
\* one, and is called verified.
DetectedIsNew ==
  kind = "reviewer" => \A m \in Detected(suite.samples) :
    LET op == OpOf[m]
        control == ControlOf(suite.samples, op)
    IN  /\ \A c \in control : c.outcome # "alarm"
        /\ op # Pilot => Cardinality(control) = 1
        /\ op # Pilot /\ summary.run = suite.run =>
             \/ \A c \in control : c.outcome = "clean"
             \/ summary.status = "partial" /\ summary.entries[op].status = "partial"

\* What a reader of the summary and of the suite would conclude is so.
ReportsTellOfCampaign == SuiteIsWhole /\ SummaryTellsOfSuite /\ DetectedIsNew

\* The reports an experiment pools grade the same mutations, so that its
\* pooled ratios weigh every mutation alike, as long as no plan was rebuilt
\* between the campaigns: only the data set and its operations are compared.
PooledRunsAgree ==
  \A i, j \in experiment :
    ~reports[i].rebuilt /\ ~reports[j].rebuilt =>
      reports[i].graded # {} /\ reports[i].graded = reports[j].graded
=============================================================================
