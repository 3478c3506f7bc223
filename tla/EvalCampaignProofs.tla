------------------------- MODULE EvalCampaignProofs -------------------------
(* Theorems about EvalCampaign for any operations, mutations and plans, and *)
(* any number of campaigns and reports.                                     *)
EXTENDS EvalCampaign, FiniteSetTheorems, TLAPS

-----------------------------------------------------------------------------
(* The inductive invariant, part by part.                                   *)

Entries == UNION {[S -> Entry] : S \in SUBSET Operations}

Campaign == [pc : {"idle", "operation", "control", "mutations", "summary"}, run : Nat,
             dry : BOOLEAN, todo : Seq(Operations), left : SUBSET Mutations,
             fresh : SUBSET Sample, samples : SUBSET Sample, entries : Entries]

ReportRecord == [run : Nat, ready : BOOLEAN, rebuilt : BOOLEAN,
                 graded : SUBSET Mutations, detected : SUBSET Mutations]

Types ==
  /\ kind \in {"recovery", "reviewer"} /\ rebuilt \in BOOLEAN /\ started \in 0..MaxRuns
  /\ plans \in [Operations -> SUBSET SUBSET Mutations]
  /\ campaign \in Campaign
  /\ perOp \in [Operations -> SUBSET Sample]
  /\ suite \in [run : Nat, samples : SUBSET Sample]
  /\ summary \in [run : Nat, status : {"completed", "partial"}, entries : Entries]
  /\ reports \in Seq(ReportRecord)
  /\ experiment \subseteq DOMAIN reports

\* The mutations that are planned for an operation; none when it has no plan.
PlanOf(op) == UNION plans[op]

\* An operation has one plan at most, of its own mutations.
PlansFit ==
  \A op \in Operations :
    /\ \A p \in plans[op] : plans[op] = {p}
    /\ \A m \in PlanOf(op) : OpOf[m] = op

\* A sample is of its mutation's operation and has an outcome the kind of
\* campaign can give it.
SampleFits(s) ==
  /\ s.mutation # Control => OpOf[s.mutation] = s.op /\ s.outcome \in {"found", "missed", "failed"}
  /\ s.mutation = Control => s.outcome \in {"clean", "alarm", "failed"}
  /\ kind = "recovery" => s.outcome # "failed"

\* Exactly one sample is the control.
OneControl(samples) == \E c \in samples : {s \in samples : s.mutation = Control} = {c}

OfOp(samples, op) == {s \in samples : s.op = op}

\* The samples of an operation have one control, unless they are the pilot's
\* and, as long as the plans are those of the first campaign, every planned
\* mutation and no other.
Whole(samples, op) ==
  OfOp(samples, op) # {} =>
    /\ FromPilot(op) \/ OneControl(OfOp(samples, op))
    /\ ~rebuilt /\ kind = "recovery" =>
         {s.mutation : s \in OfOp(samples, op)} = PlanOf(op) \cup {Control}

\* A sample is of the campaign, or it was taken over from the pilot.
FromRun(samples, run) ==
  \A s \in samples : s.run = IF FromPilot(s.op) THEN 0 ELSE run

SamplesFit(samples) ==
  /\ \A s \in samples : SampleFits(s)
  /\ \A op \in Operations : Whole(samples, op)

\* What an entry of the summary says of the samples of its operation.
Tells(entry, of) ==
  /\ entry.status \in {"pending_input", "validated"} => of = {}
  /\ entry.status \in {"completed", "partial"} => OneControl(of)
  /\ entry.status = "completed" =>
       /\ kind = "recovery" => entry.mutations # {}
       /\ entry.mutations = {s.mutation : s \in of} \ {Control}
       /\ \A s \in of : s.outcome # "failed"

TellsAll(entries, samples, run) ==
  /\ FromRun(samples, run)
  /\ \A s \in samples : s.op \in DOMAIN entries
  /\ \A op \in DOMAIN entries : entries[op].status = "reused" => FromPilot(op)
  /\ \A op \in DOMAIN entries : Tells(entries[op], OfOp(samples, op))

Active == campaign.pc # "idle"
Here == campaign.pc \in {"control", "mutations"}

\* Nothing is left of a campaign that is over.  Campaigns are numbered, and
\* the files are of earlier ones than the one that runs, but for the suite
\* that it has just written.
Numbering ==
  /\ ~Active => campaign = Idle
  /\ suite.run <= started /\ summary.run <= suite.run
  /\ suite.run = 0 => suite = NoFile
  /\ started = 0 => ~Active /\ suite = NoFile /\ reports = <<>>
  /\ Active => /\ campaign.run = started /\ started > 0 /\ summary.run < started
               /\ campaign.pc # "summary" => suite.run < started
               /\ campaign.pc = "summary" =>
                    suite = [run |-> campaign.run, samples |-> campaign.samples]

\* The operations that are left are pairwise different and have no samples.
TodoFits ==
  /\ \A i, j \in DOMAIN campaign.todo : campaign.todo[i] = campaign.todo[j] => i = j
  /\ \A i \in DOMAIN campaign.todo :
       kind = "recovery" \/ campaign.todo[i] # Pilot => OfOp(campaign.samples, campaign.todo[i]) = {}
  /\ Here => campaign.todo # <<>> /\ ~Reused

\* The samples made for the current operation.
FreshFits ==
  /\ ~Here => campaign.fresh = {}
  /\ campaign.pc = "control" => campaign.fresh = {} /\ (kind = "recovery" => campaign.left # {})
  /\ campaign.pc = "mutations" =>
       /\ OneControl(campaign.fresh)
       /\ kind = "recovery" /\ campaign.left = {} => \E s \in campaign.fresh : s.mutation # Control
  /\ Here =>
       /\ \A s \in campaign.fresh : SampleFits(s) /\ s.op = Current /\ s.run = campaign.run
       /\ \A m \in campaign.left : OpOf[m] = Current
       /\ ~rebuilt => campaign.left \cup ({s.mutation : s \in campaign.fresh} \ {Control}) = PlanOf(Current)

\* Every mutation that is planned.
Planned == UNION {PlanOf(op) : op \in Operations}

ReportsFit ==
  /\ \A i \in DOMAIN reports : reports[i].detected \subseteq reports[i].graded
  /\ kind = "recovery" => \A i \in DOMAIN reports :
       reports[i].ready /\ ~reports[i].rebuilt =>
         /\ reports[i].graded # {}
         /\ ~rebuilt => reports[i].graded = Planned
         /\ \A j \in DOMAIN reports :
              reports[j].ready /\ ~reports[j].rebuilt => reports[i].graded = reports[j].graded
  /\ \A i \in experiment : kind = "recovery" /\ reports[i].ready

FilesFit ==
  /\ SamplesFit(suite.samples) /\ FromRun(suite.samples, suite.run)
  /\ summary.run = suite.run /\ suite # NoFile =>
       /\ TellsAll(summary.entries, suite.samples, suite.run)
       /\ summary.status = Overall(summary.entries)

CampaignFits ==
  /\ SamplesFit(campaign.samples) /\ TodoFits /\ FreshFits
  /\ Active => TellsAll(campaign.entries, campaign.samples, campaign.run)

IInv == Types /\ PlansFit /\ Numbering /\ FilesFit /\ CampaignFits /\ ReportsFit

-----------------------------------------------------------------------------
(* Helpers.                                                                 *)

LEMMA Constants ==
  /\ Order \in Seq(Operations)
  /\ \A i, j \in DOMAIN Order : Order[i] = Order[j] => i = j
  /\ OpOf \in [Mutations -> Operations] /\ Control \notin Mutations
  /\ Pilot \in Operations /\ MaxRuns \in Nat
  /\ PilotSuites \subseteq SUBSET PilotSample /\ {} \notin PilotSuites
  BY CampaignAssumption DEF CampaignAssumption

\* What is in a list of operations after its first one is gone.
LEMMA TailFacts ==
  ASSUME NEW todo \in Seq(Operations), todo # <<>>
  PROVE  /\ Head(todo) \in Operations /\ Head(todo) = todo[1] /\ 1 \in DOMAIN todo
         /\ Tail(todo) \in Seq(Operations)
         /\ \A i \in DOMAIN Tail(todo) : i + 1 \in DOMAIN todo /\ Tail(todo)[i] = todo[i + 1]
                                          /\ i \in Nat /\ i >= 1
         /\ DOMAIN Tail(todo) \subseteq Nat
  OBVIOUS

LEMMA NoEntriesType == NoEntries \in Entries
<1>1. NoEntries \in [{} -> Entry]
  BY DEF NoEntries
<1> QED BY <1>1 DEF Entries

LEMMA IdleType == Idle \in Campaign
<1>1. <<>> \in Seq(Operations)
  OBVIOUS
<1> QED BY <1>1, NoEntriesType DEF Idle, Campaign

\* An entry more.
LEMMA WithType ==
  ASSUME NEW entries \in Entries, NEW op \in Operations, NEW entry \in Entry
  PROVE  /\ With(entries, op, entry) \in Entries
         /\ DOMAIN With(entries, op, entry) = DOMAIN entries \cup {op}
         /\ With(entries, op, entry)[op] = entry
         /\ \A o \in DOMAIN entries : o # op => With(entries, op, entry)[o] = entries[o]
<1> DEFINE w == With(entries, op, entry)
<1>1. PICK S \in SUBSET Operations : entries \in [S -> Entry]
  BY DEF Entries
<1>2. w = [o \in S \cup {op} |-> IF o = op THEN entry ELSE entries[o]]
  BY <1>1 DEF With
<1>3. w \in [S \cup {op} -> Entry]
  BY <1>1, <1>2
<1>4. S \cup {op} \in SUBSET Operations
  OBVIOUS
<1>5. w \in Entries
  BY <1>3, <1>4 DEF Entries
<1> QED BY <1>1, <1>2, <1>5

\* Nothing said of no samples is wrong.
LEMMA EmptyFits == SamplesFit({})
  BY DEF SamplesFit, Whole, OfOp, FromPilot, PlanOf

LEMMA IdleFits ==
  ASSUME campaign = Idle PROVE CampaignFits
<1> USE DEF Idle
<1>1. campaign.samples = {} /\ campaign.todo = <<>> /\ campaign.fresh = {} /\ ~Active /\ ~Here
  BY DEF Active, Here
<1>2. SamplesFit(campaign.samples)
  BY <1>1, EmptyFits
<1>3. TodoFits
  BY <1>1 DEF TodoFits
<1>4. FreshFits
  BY <1>1 DEF FreshFits, Here, PlanOf
<1> QED BY <1>1, <1>2, <1>3, <1>4 DEF CampaignFits

LEMMA IdleLater ==
  ASSUME campaign' = Idle PROVE CampaignFits'
<1>1. campaign'.samples = {} /\ campaign'.todo = <<>> /\ campaign'.fresh = {} /\ campaign'.pc = "idle"
  BY DEF Idle
<1> QED BY <1>1 DEF CampaignFits, SamplesFit, Whole, OfOp, TodoFits, FreshFits, Here, Active, FromPilot, PlanOf

-----------------------------------------------------------------------------
(* What a step leaves alone.                                                *)

LEMMA FilesFrame ==
  ASSUME FilesFit, UNCHANGED <<kind, plans, rebuilt, suite, summary>> PROVE FilesFit'
  BY DEF FilesFit, SamplesFit, SampleFits, Whole, OneControl, OfOp, TellsAll, Tells, Overall, FromPilot, FromRun, PlanOf

LEMMA CampaignFrame ==
  ASSUME CampaignFits, UNCHANGED <<kind, plans, rebuilt, campaign>> PROVE CampaignFits'
<1>1. SamplesFit(campaign.samples)'
  BY DEF CampaignFits, SamplesFit, SampleFits, Whole, OneControl, OfOp, FromPilot, PlanOf
<1>2. TodoFits'
  BY DEF CampaignFits, TodoFits, OfOp, Here, Reused, Current, FromPilot
<1>3. FreshFits'
  BY DEF CampaignFits, FreshFits, Here, OneControl, SampleFits, Current, PlanOf
<1>4. Active' => TellsAll(campaign.entries, campaign.samples, campaign.run)'
  BY DEF CampaignFits, Active, TellsAll, Tells, OfOp, OneControl, FromPilot, FromRun
<1> QED BY <1>1, <1>2, <1>3, <1>4 DEF CampaignFits

LEMMA ReportsFrame ==
  ASSUME ReportsFit, UNCHANGED <<kind, plans, rebuilt, reports, experiment>> PROVE ReportsFit'
  BY DEF ReportsFit, Planned, PlanOf

-----------------------------------------------------------------------------
(* Steps.                                                                   *)

LEMMA InitOK == Init => IInv
<1> SUFFICES ASSUME Init PROVE IInv
  OBVIOUS
<1> USE DEF Init
<1>1. Types
  <2>1. NoFile \in [run : Nat, samples : SUBSET Sample]
    BY DEF NoFile
  <2>2. NoSummary \in [run : Nat, status : {"completed", "partial"}, entries : Entries]
    BY NoEntriesType DEF NoSummary
  <2>3. <<>> \in Seq(ReportRecord)
    OBVIOUS
  <2>4. perOp \in [Operations -> SUBSET Sample]
    OBVIOUS
  <2>5. plans \in [Operations -> SUBSET SUBSET Mutations]
    BY DEF MutationsOf
  <2>6. started \in 0..MaxRuns
    BY Constants
  <2>7. campaign \in Campaign
    BY IdleType
  <2>8. experiment \subseteq DOMAIN reports /\ reports \in Seq(ReportRecord)
    BY <2>3
  <2>9. suite \in [run : Nat, samples : SUBSET Sample]
    BY <2>1
  <2>10. summary \in [run : Nat, status : {"completed", "partial"}, entries : Entries]
    BY <2>2
  <2>11. kind \in {"recovery", "reviewer"} /\ rebuilt \in BOOLEAN
    OBVIOUS
  <2> HIDE DEF Init
  <2> QED BY <2>4, <2>5, <2>6, <2>7, <2>8, <2>9, <2>10, <2>11 DEF Types
<1>2. PlansFit
  <2>1. ASSUME NEW op \in Operations
        PROVE  /\ \A p \in plans[op] : plans[op] = {p}
               /\ \A m \in UNION plans[op] : OpOf[m] = op
    <3>1. plans[op] = {} \/ plans[op] = {MutationsOf(op)}
      OBVIOUS
    <3>2. \A m \in MutationsOf(op) : OpOf[m] = op
      BY DEF MutationsOf
    <3> HIDE DEF Init
    <3> QED BY <3>1, <3>2
  <2> HIDE DEF Init
  <2> QED BY <2>1 DEF PlansFit, PlanOf
<1>3. Numbering
  BY Constants DEF Numbering, Active, Idle, NoFile, NoSummary
<1>4. FilesFit
  BY EmptyFits DEF FilesFit, NoFile, FromRun
<1>5. CampaignFits
  BY IdleFits
<1>6. ReportsFit
  BY DEF ReportsFit
<1> QED BY <1>1, <1>2, <1>3, <1>4, <1>5, <1>6 DEF IInv

LEMMA RebuildOK == ASSUME IInv, NEW op \in Operations, Rebuild(op) PROVE IInv'
<1>1. PICK plan \in SUBSET MutationsOf(op) : plans' = [plans EXCEPT ![op] = {plan}]
  BY DEF Rebuild
<1>2. UNCHANGED <<kind, campaign, started, perOp, suite, summary, reports, experiment>>
  BY DEF Rebuild, disk
<1>3. rebuilt' = (started > 0) /\ ~rebuilt
  BY DEF Rebuild
<1>4. Types'
  BY <1>1, <1>2, <1>3 DEF IInv, Types, MutationsOf
<1>5. PlansFit'
  <2>1. plan \in SUBSET MutationsOf(op) /\ plans \in [Operations -> SUBSET SUBSET Mutations]
    BY DEF IInv, Types
  <2>2. ASSUME NEW o \in Operations, o # op
        PROVE  plans'[o] = plans[o]
    BY <2>1, <2>2, <1>1
  <2>3. plans'[op] = {plan} /\ UNION {plan} = plan
    BY <2>1, <1>1
  <2>4. \A m \in plan : OpOf[m] = op
    BY <2>1 DEF MutationsOf
  <2>5. ASSUME NEW o \in Operations
        PROVE  /\ \A p \in plans'[o] : plans'[o] = {p}
               /\ \A m \in UNION plans'[o] : OpOf[m] = o
    <3>1. CASE o = op
      BY <2>3, <2>4, <3>1
    <3>2. CASE o # op
      BY <2>2, <3>2 DEF IInv, PlansFit, PlanOf
    <3> QED BY <3>1, <3>2
  <2> QED BY <2>5 DEF PlansFit, PlanOf
<1>6. Numbering'
  BY <1>2 DEF IInv, Numbering, Active
<1>7. CASE started = 0
  <2>1. campaign = Idle /\ suite = NoFile /\ reports = <<>>
    BY <1>7 DEF IInv, Numbering
  <2>2. CampaignFits'
    BY <1>2, <2>1, IdleLater
  <2>3. FilesFit'
    BY <1>2, <2>1 DEF FilesFit, SamplesFit, Whole, OfOp, NoFile, FromPilot, FromRun, PlanOf
  <2>4. ReportsFit'
    BY <1>2, <2>1 DEF IInv, Types, ReportsFit
  <2> QED BY <2>2, <2>3, <2>4, <1>4, <1>5, <1>6 DEF IInv
<1>8. CASE started # 0
  <2>1. rebuilt'
    <3>1. started \in Nat
      BY Constants DEF IInv, Types
    <3>2. started > 0
      BY <1>8, <3>1
    <3> QED BY <1>3, <3>2, Zenon
  <2>2. SamplesFit(campaign.samples)' /\ SamplesFit(suite.samples)'
    BY <1>2, <2>1 DEF IInv, CampaignFits, FilesFit, SamplesFit, SampleFits, Whole, OneControl, OfOp, FromPilot, FromRun, PlanOf
  <2>3. TodoFits'
    BY <1>2 DEF IInv, CampaignFits, TodoFits, OfOp, Here, Reused, Current, FromPilot
  <2>4. FreshFits'
    BY <1>2, <2>1 DEF IInv, CampaignFits, FreshFits, Here, OneControl, SampleFits, Current, PlanOf
  <2>5. Active' => TellsAll(campaign.entries, campaign.samples, campaign.run)'
    BY <1>2 DEF IInv, CampaignFits, Active, TellsAll, Tells, OfOp, OneControl, FromPilot, FromRun
  <2>6. CampaignFits'
    BY <2>2, <2>3, <2>4, <2>5 DEF CampaignFits
  <2>7. FilesFit'
    BY <1>2, <2>2 DEF IInv, FilesFit, TellsAll, Tells, OfOp, OneControl, Overall, FromPilot, FromRun
  <2>8. ReportsFit'
    BY <1>2, <2>1 DEF IInv, ReportsFit
  <2> QED BY <2>6, <2>7, <2>8, <1>4, <1>5, <1>6 DEF IInv
<1> QED BY <1>7, <1>8

\* A suite of the pilot has samples of its own operation only, and nothing
\* else is known of them.
LEMMA PilotFits ==
  ASSUME kind = "reviewer", NEW pilot \in PilotSuites
  PROVE  /\ pilot \in SUBSET Sample /\ SamplesFit(pilot)
         /\ \A s \in pilot : s.op = Pilot /\ s.run = 0
<1>1. pilot \subseteq PilotSample
  BY Constants
<1>2. \A s \in pilot : s.op = Pilot /\ s.run = 0
  BY <1>1 DEF PilotSample
<1>3. pilot \in SUBSET Sample
  BY <1>1, Constants DEF PilotSample, Sample, MutationsOf
<1>4. \A s \in pilot : SampleFits(s)
  BY <1>1, Constants DEF PilotSample, SampleFits, MutationsOf
<1>5. \A op \in Operations : Whole(pilot, op)
  BY <1>2 DEF Whole, OfOp, FromPilot
<1> QED BY <1>2, <1>3, <1>4, <1>5 DEF SamplesFit

LEMMA StartOK == ASSUME IInv, NEW dry \in BOOLEAN, Start(dry) PROVE IInv'
<1>1. /\ UNCHANGED <<kind, plans, rebuilt, perOp, suite, summary, reports, experiment>>
      /\ started' = started + 1 /\ started < MaxRuns /\ started \in Nat
  <2>1. started \in 0..MaxRuns /\ MaxRuns \in Nat
    BY Constants DEF IInv, Types
  <2>2. started' = started + 1 /\ started < MaxRuns /\ UNCHANGED <<kind, plans, rebuilt, disk>>
    BY DEF Start
  <2> QED BY <2>1, <2>2 DEF disk
<1>2. FilesFit'
  BY <1>1, FilesFrame DEF IInv
<1>3. ReportsFit'
  BY <1>1, ReportsFrame DEF IInv
<1>4. PlansFit'
  BY <1>1 DEF IInv, PlansFit, PlanOf
<1>5. CASE kind = "recovery"
  <2>1. campaign' = [Idle EXCEPT !.pc = "operation", !.run = started', !.dry = dry, !.todo = Order]
    BY <1>5 DEF Start
  <2>2. /\ campaign'.pc = "operation" /\ campaign'.run = started' /\ campaign'.todo = Order
        /\ campaign'.left = {} /\ campaign'.fresh = {} /\ campaign'.samples = {}
        /\ campaign'.entries = NoEntries
    BY <2>1 DEF Idle
  <2>3. campaign' \in Campaign
    <3>1. campaign' = [pc |-> "operation", run |-> started + 1, dry |-> dry, todo |-> Order,
                       left |-> {}, fresh |-> {}, samples |-> {}, entries |-> NoEntries]
      BY <2>1, <1>1 DEF Idle
    <3> QED BY <3>1, <1>1, NoEntriesType, Constants DEF Campaign
  <2>4. Types'
    BY <2>3, <1>1, Constants DEF IInv, Types
  <2>5. Numbering'
    BY <2>2, <1>1 DEF IInv, Types, Numbering, Active
  <2>6. SamplesFit(campaign.samples)'
    BY <2>2 DEF SamplesFit, Whole, OfOp, FromPilot, PlanOf
  <2>7. TodoFits' /\ FreshFits'
    BY <2>2, Constants DEF TodoFits, FreshFits, Here, OfOp, PlanOf
  <2>8. TellsAll(campaign.entries, campaign.samples, campaign.run)'
    BY <2>2 DEF TellsAll, NoEntries, FromPilot, FromRun
  <2> QED BY <2>4, <2>5, <2>6, <2>7, <2>8, <1>2, <1>3, <1>4 DEF IInv, CampaignFits
<1>6. CASE kind = "reviewer"
  <2> DEFINE reused == [op \in {Pilot} |-> [status |-> "reused", mutations |-> {}]]
  <2>1. PICK pilot \in PilotSuites :
          campaign' = [Idle EXCEPT !.pc = "operation", !.run = started', !.samples = pilot,
                                   !.todo = Order, !.entries = reused]
    BY <1>6 DEF Start
  <2>11. /\ pilot \in SUBSET Sample /\ SamplesFit(pilot)
         /\ \A s \in pilot : s.op = Pilot /\ s.run = 0
    BY <1>6, PilotFits
  <2>2. reused \in Entries
    <3>1. reused \in [{Pilot} -> Entry]
      BY DEF Entry, SummaryStatus
    <3>2. {Pilot} \in SUBSET Operations
      BY Constants
    <3> HIDE DEF reused
    <3> QED BY <3>1, <3>2 DEF Entries
  <2>3. /\ campaign'.pc = "operation" /\ campaign'.run = started' /\ campaign'.todo = Order
        /\ campaign'.left = {} /\ campaign'.fresh = {} /\ campaign'.samples = pilot
        /\ campaign'.entries = reused
    BY <2>1 DEF Idle
  <2>4. campaign' \in Campaign
    <3>1. campaign' = [pc |-> "operation", run |-> started + 1, dry |-> FALSE, todo |-> Order,
                       left |-> {}, fresh |-> {}, samples |-> pilot, entries |-> reused]
      BY <2>1, <1>1, <1>6 DEF Idle
    <3> HIDE DEF reused
    <3> QED BY <3>1, <2>2, <2>11, <1>1, Constants DEF Campaign
  <2>5. Types'
    BY <2>4, <1>1, Constants DEF IInv, Types
  <2>6. Numbering'
    BY <2>3, <1>1 DEF IInv, Types, Numbering, Active
  <2>7. SamplesFit(campaign.samples)'
    BY <2>3, <2>11, <1>1 DEF SamplesFit, SampleFits, Whole, OneControl, OfOp, FromPilot, PlanOf
  <2>8. TodoFits'
    BY <2>3, <2>11, <1>1, <1>6, Constants DEF TodoFits, Here, OfOp
  <2>9. FreshFits'
    BY <2>3 DEF FreshFits, Here, PlanOf
  <2>10. TellsAll(campaign.entries, campaign.samples, campaign.run)'
    BY <2>3, <2>11, <1>1, <1>6 DEF TellsAll, Tells, OfOp, FromPilot, FromRun
  <2> QED BY <2>5, <2>6, <2>7, <2>8, <2>9, <2>10, <1>2, <1>3, <1>4 DEF IInv, CampaignFits
<1> QED BY <1>5, <1>6 DEF IInv, Types

\* An operation is done: its samples join those of the operations before it,
\* and its entry tells of them.
LEMMA DoneOK ==
  ASSUME IInv, Active, campaign.todo # <<>>, ~Reused, NEW status,
         campaign' = Done(status), UNCHANGED <<kind, plans, rebuilt>>,
         \/ campaign.pc = "operation" /\ status \in {"pending_input", "validated"}
         \/ campaign.pc = "mutations" /\ campaign.left = {} /\ status = StatusFor(campaign.fresh)
  PROVE  CampaignFits' /\ campaign' \in Campaign /\ campaign'.pc = "operation"
         /\ campaign'.run = campaign.run
<1> DEFINE op == Current
           F == campaign.fresh
           S == campaign.samples
           muts == {s.mutation : s \in F} \ {Control}
           entry == [status |-> status, mutations |-> muts]
<1>1. campaign \in Campaign /\ kind \in {"recovery", "reviewer"}
  BY DEF IInv, Types
<1>2. /\ campaign.todo \in Seq(Operations) /\ F \subseteq Sample /\ S \subseteq Sample
      /\ campaign.entries \in Entries /\ campaign.run \in Nat /\ campaign.left \subseteq Mutations
  BY <1>1 DEF Campaign
<1>3. /\ op \in Operations /\ op = campaign.todo[1] /\ 1 \in DOMAIN campaign.todo
      /\ Tail(campaign.todo) \in Seq(Operations)
  BY <1>2, TailFacts DEF Current
<1>4. entry \in Entry
  <2>1. status \in SummaryStatus
    BY DEF SummaryStatus, StatusFor
  <2>2. muts \in SUBSET Mutations
    BY <1>2 DEF Sample
  <2> QED BY <2>1, <2>2 DEF Entry
<1>5. campaign' = [pc |-> "operation", run |-> campaign.run, dry |-> campaign.dry,
                   todo |-> Tail(campaign.todo), left |-> campaign.left, fresh |-> {},
                   samples |-> S \cup F, entries |-> With(campaign.entries, op, entry)]
  BY <1>1 DEF Done, Campaign
<1>6. /\ With(campaign.entries, op, entry) \in Entries
      /\ DOMAIN With(campaign.entries, op, entry) = DOMAIN campaign.entries \cup {op}
      /\ With(campaign.entries, op, entry)[op] = entry
      /\ \A o \in DOMAIN campaign.entries :
           o # op => With(campaign.entries, op, entry)[o] = campaign.entries[o]
  <2>1. PICK e \in Entries : e = campaign.entries
    BY <1>2
  <2>2. PICK o \in Operations : o = op
    BY <1>3
  <2>3. PICK x \in Entry : x = entry
    BY <1>4
  <2>4. /\ With(e, o, x) \in Entries
        /\ DOMAIN With(e, o, x) = DOMAIN e \cup {o}
        /\ With(e, o, x)[o] = x
        /\ \A p \in DOMAIN e : p # o => With(e, o, x)[p] = e[p]
    BY WithType, ZenonT(40)
  <2> HIDE DEF entry, op
  <2> QED BY <2>1, <2>2, <2>3, <2>4
<1>7. campaign' \in Campaign
  <2> HIDE DEF entry, F, S, op
  <2>1. S \cup F \subseteq Sample
    BY <1>2
  <2>2. campaign.dry \in BOOLEAN /\ campaign.run \in Nat
    BY <1>1 DEF Campaign
  <2> QED BY <1>2, <1>3, <1>5, <1>6, <2>1, <2>2 DEF Campaign
<1>8. OfOp(S, op) = {}
  BY <1>1, <1>3 DEF IInv, CampaignFits, TodoFits, Reused, FromPilot
<1>9. /\ \A s \in F : SampleFits(s) /\ s.op = op /\ s.run = campaign.run
      /\ \/ F = {} /\ status \in {"pending_input", "validated"}
         \/ /\ OneControl(F) /\ (kind = "recovery" => muts # {}) /\ status = StatusFor(F)
            /\ ~rebuilt => muts = PlanOf(op)
  <2>1. CASE campaign.pc = "operation"
    BY <2>1 DEF IInv, CampaignFits, FreshFits, Here, PlanOf
  <2>2. CASE campaign.pc = "mutations"
    <3>1. Here
      BY <2>2 DEF Here
    <3> QED BY <2>2, <3>1 DEF IInv, CampaignFits, FreshFits, PlanOf
  <2> QED BY <2>1, <2>2
<1>10. OfOp(S \cup F, op) = F /\ \A o : o # op => OfOp(S \cup F, o) = OfOp(S, o)
  BY <1>8, <1>9 DEF OfOp
<1>11. SamplesFit(S \cup F)
  <2>1. \A s \in S \cup F : SampleFits(s)
    BY <1>9 DEF IInv, CampaignFits, SamplesFit
  <2>2. ASSUME NEW o \in Operations, o # op PROVE Whole(S \cup F, o)
    BY <2>2, <1>10 DEF IInv, CampaignFits, SamplesFit, Whole, FromPilot, PlanOf
  <2>3. Whole(S \cup F, op)
    <3>1. CASE F = {}
      BY <3>1, <1>10 DEF Whole, FromPilot, PlanOf
    <3>2. CASE F # {}
      <4>1. OneControl(F) /\ (~rebuilt => muts = PlanOf(op))
        BY <3>2, <1>9
      <4>2. Control \in {s.mutation : s \in F}
        BY <4>1 DEF OneControl
      <4>3. {s.mutation : s \in F} = muts \cup {Control}
        BY <4>2
      <4> HIDE DEF F, muts, op, S
      <4> QED BY <1>10, <4>1, <4>3 DEF Whole, FromPilot, PlanOf
    <3> QED BY <3>1, <3>2
  <2> QED BY <2>1, <2>2, <2>3 DEF SamplesFit
<1> HIDE DEF op, F, S
<1>12. SamplesFit(campaign.samples)'
  <2>1. campaign'.samples = S \cup F
    BY <1>5
  <2> QED BY <1>11, <2>1 DEF SamplesFit, SampleFits, Whole, OneControl, OfOp, FromPilot, PlanOf
<1>13. TodoFits'
  <2> DEFINE todo == campaign.todo
  <2>1. campaign'.todo = Tail(todo) /\ campaign'.samples = S \cup F /\ campaign'.pc = "operation"
    BY <1>5
  <2>2. \A i, j \in DOMAIN todo : todo[i] = todo[j] => i = j
    BY DEF IInv, CampaignFits, TodoFits
  <2>3. \A i \in DOMAIN Tail(todo) : i + 1 \in DOMAIN todo /\ Tail(todo)[i] = todo[i + 1]
                                     /\ i \in Nat /\ i >= 1
    BY <1>2, TailFacts
  <2> HIDE DEF todo
  <2>4. \A i, j \in DOMAIN Tail(todo) : Tail(todo)[i] = Tail(todo)[j] => i = j
    BY <2>2, <2>3
  <2>5. ASSUME NEW i \in DOMAIN Tail(todo), kind = "recovery" \/ Tail(todo)[i] # Pilot
        PROVE  OfOp(S \cup F, Tail(todo)[i]) = {}
    <3>1. todo[i + 1] # op
      <4>1. i + 1 \in DOMAIN todo /\ i + 1 # 1 /\ 1 \in DOMAIN todo /\ op = todo[1]
        BY <2>3, <1>3 DEF todo
      <4> QED BY <4>1, <2>2
    <3>2. OfOp(S, todo[i + 1]) = {}
      BY <2>3, <2>5 DEF IInv, CampaignFits, TodoFits, todo, S
    <3> QED BY <3>1, <3>2, <2>3, <1>10
  <2>6. OfOp(S \cup F, Tail(todo)[1])' = OfOp(S \cup F, Tail(todo)[1])' /\ ~Here'
    BY <2>1 DEF Here
  <2> QED BY <2>1, <2>4, <2>5, <2>6 DEF TodoFits, OfOp
<1>14. FreshFits'
  BY <1>5 DEF FreshFits, Here, PlanOf
<1>15. TellsAll(campaign.entries, campaign.samples, campaign.run)'
  <2> DEFINE w == With(campaign.entries, op, entry)
  <2>1. TellsAll(campaign.entries, S, campaign.run)
    BY DEF IInv, CampaignFits, S
  <2>2. Tells(entry, F)
    <3>1. CASE F = {} /\ status \in {"pending_input", "validated"}
      BY <3>1 DEF Tells, FromPilot
    <3>2. CASE OneControl(F) /\ (kind = "recovery" => muts # {}) /\ status = StatusFor(F)
      <4>1. status = "completed" => \A s \in F : s.outcome # "failed"
        BY <3>2 DEF StatusFor
      <4>2. status \in {"completed", "partial"}
        BY <3>2 DEF StatusFor
      <4>3. entry.mutations = {s.mutation : s \in F} \ {Control}
        OBVIOUS
      <4> QED BY <3>2, <4>1, <4>2, <4>3, <1>9 DEF Tells, FromPilot
    <3> QED BY <3>1, <3>2, <1>9
  <2>3. \A o \in DOMAIN w : Tells(w[o], OfOp(S \cup F, o))
    BY <2>1, <2>2, <1>6, <1>10 DEF TellsAll, FromPilot, FromRun
  <2>6. FromRun(S \cup F, campaign.run)
    <3>1. ~FromPilot(op)
      BY DEF Reused, op
    <3> QED BY <2>1, <3>1, <1>9 DEF TellsAll, FromRun
  <2>7. \A o \in DOMAIN w : w[o].status = "reused" => FromPilot(o)
    <3>1. entry.status # "reused"
      BY DEF StatusFor
    <3> QED BY <2>1, <3>1, <1>6 DEF TellsAll
  <2>4. \A s \in S \cup F : s.op \in DOMAIN w
    BY <2>1, <1>6, <1>9 DEF TellsAll, FromPilot, FromRun
  <2> HIDE DEF w
  <2>5. campaign'.entries = w /\ campaign'.samples = S \cup F /\ campaign'.run = campaign.run
    BY <1>5 DEF w
  <2> QED BY <2>3, <2>4, <2>5, <2>6, <2>7 DEF TellsAll, Tells, OneControl, OfOp, FromPilot, FromRun
<1> QED BY <1>5, <1>7, <1>12, <1>13, <1>14, <1>15 DEF CampaignFits

\* A step inside a campaign that leaves the suite, the summary and the reports.
LEMMA InsideOK ==
  ASSUME IInv, Active, campaign.pc # "summary", campaign' \in Campaign, CampaignFits',
         campaign'.pc \in {"operation", "control", "mutations"}, campaign'.run = campaign.run,
         perOp' \in [Operations -> SUBSET Sample],
         UNCHANGED <<kind, plans, rebuilt, started, suite, summary, reports, experiment>>
  PROVE  IInv'
<1>1. Types'
  BY DEF IInv, Types
<1>2. PlansFit'
  BY DEF IInv, PlansFit, PlanOf
<1>3. Numbering'
  BY DEF IInv, Numbering, Active
<1>4. FilesFit'
  BY FilesFrame DEF IInv
<1>5. ReportsFit'
  BY ReportsFrame DEF IInv
<1> QED BY <1>1, <1>2, <1>3, <1>4, <1>5 DEF IInv

LEMMA SkipPilotOK == ASSUME IInv, SkipPilot PROVE IInv'
<1>1. /\ campaign.pc = "operation" /\ campaign.todo # <<>> /\ kind = "reviewer"
      /\ campaign' = [campaign EXCEPT !.todo = Tail(@)]
      /\ UNCHANGED <<kind, plans, rebuilt, started, perOp, suite, summary, reports, experiment>>
  BY DEF SkipPilot, Reused, disk, FromPilot
<1>2. campaign \in Campaign /\ perOp \in [Operations -> SUBSET Sample]
  BY DEF IInv, Types
<1>3. campaign.todo \in Seq(Operations)
  BY <1>2 DEF Campaign
<1>4. /\ Tail(campaign.todo) \in Seq(Operations)
      /\ \A i \in DOMAIN Tail(campaign.todo) :
           i + 1 \in DOMAIN campaign.todo /\ Tail(campaign.todo)[i] = campaign.todo[i + 1]
           /\ i \in Nat /\ i >= 1
  BY <1>1, <1>3, TailFacts
<1>5. /\ campaign' \in Campaign /\ campaign'.todo = Tail(campaign.todo)
      /\ campaign'.pc = "operation" /\ campaign'.run = campaign.run
      /\ campaign'.samples = campaign.samples /\ campaign'.entries = campaign.entries
      /\ campaign'.fresh = campaign.fresh
  BY <1>1, <1>2, <1>4 DEF Campaign
<1>6. TodoFits'
  <2>1. \A i, j \in DOMAIN campaign.todo : campaign.todo[i] = campaign.todo[j] => i = j
    BY DEF IInv, CampaignFits, TodoFits
  <2>2. \A i \in DOMAIN campaign.todo :
          campaign.todo[i] # Pilot => OfOp(campaign.samples, campaign.todo[i]) = {}
    BY DEF IInv, CampaignFits, TodoFits
  <2>3. \A i, j \in DOMAIN Tail(campaign.todo) :
          Tail(campaign.todo)[i] = Tail(campaign.todo)[j] => i = j
    BY <2>1, <1>4
  <2>4. \A i \in DOMAIN Tail(campaign.todo) :
          Tail(campaign.todo)[i] # Pilot => OfOp(campaign.samples, Tail(campaign.todo)[i]) = {}
    BY <2>2, <1>4
  <2> QED BY <1>1, <1>5, <2>3, <2>4 DEF TodoFits, OfOp, Here
<1>7. FreshFits'
  BY <1>1, <1>5 DEF IInv, CampaignFits, FreshFits, Here, PlanOf
<1>8. SamplesFit(campaign.samples)'
  BY <1>1, <1>5 DEF IInv, CampaignFits, SamplesFit, SampleFits, Whole, OneControl, OfOp, FromPilot, PlanOf
<1>9. TellsAll(campaign.entries, campaign.samples, campaign.run)'
  BY <1>1, <1>5 DEF IInv, CampaignFits, Active, TellsAll, Tells, OfOp, OneControl, FromPilot, FromRun
<1>10. CampaignFits'
  BY <1>6, <1>7, <1>8, <1>9 DEF CampaignFits
<1> QED BY <1>1, <1>2, <1>5, <1>10, InsideOK DEF Active

LEMMA TakePlanOK == ASSUME IInv, TakePlan PROVE IInv'
<1>1. /\ campaign.pc = "operation" /\ campaign.todo # <<>> /\ ~Reused
      /\ UNCHANGED <<kind, plans, rebuilt, started, perOp, suite, summary, reports, experiment>>
  BY DEF TakePlan, disk
<1>2. campaign \in Campaign /\ perOp \in [Operations -> SUBSET Sample]
      /\ plans \in [Operations -> SUBSET SUBSET Mutations]
  BY DEF IInv, Types
<1>3. CASE \E status \in {"pending_input", "validated"} : campaign' = Done(status)
  BY <1>1, <1>2, <1>3, DoneOK, InsideOK DEF Active
<1>4. ASSUME NEW plan \in plans[Current], plan # {} \/ kind = "reviewer",
             campaign' = [campaign EXCEPT !.pc = "control", !.left = plan]
      PROVE  IInv'
  <2>1. Current \in Operations
    BY <1>1, <1>2, TailFacts DEF Current, Campaign
  <2>2. plan \in SUBSET Mutations
    BY <2>1, <1>2
  <2>11. plan = PlanOf(Current) /\ \A m \in plan : OpOf[m] = Current
    <3>1. plans[Current] = {plan}
      BY <2>1 DEF IInv, PlansFit, PlanOf
    <3> QED BY <2>1, <3>1 DEF IInv, PlansFit, PlanOf
  <2>3. campaign' \in Campaign
    BY <1>2, <1>4, <2>2 DEF Campaign
  <2>4. /\ campaign'.pc = "control" /\ campaign'.run = campaign.run
        /\ campaign'.todo = campaign.todo /\ campaign'.samples = campaign.samples
        /\ campaign'.entries = campaign.entries /\ campaign'.fresh = campaign.fresh
        /\ campaign'.left = plan /\ Current' = Current
    BY <1>2, <1>4 DEF Campaign, Current
  <2>5. SamplesFit(campaign.samples)'
    BY <1>1, <2>4 DEF IInv, CampaignFits, SamplesFit, SampleFits, Whole, OneControl, OfOp, FromPilot, PlanOf
  <2>6. TodoFits'
    BY <1>1, <2>4 DEF IInv, CampaignFits, TodoFits, OfOp, Here, Reused, FromPilot
  <2>7. campaign.fresh = {}
    BY <1>1 DEF IInv, CampaignFits, FreshFits, Here, PlanOf
  <2>8. FreshFits'
    <3>1. PlanOf(Current)' = plan
      BY <1>1, <2>4, <2>11 DEF PlanOf
    <3> QED BY <1>1, <1>4, <2>4, <2>7, <2>11, <3>1 DEF FreshFits, Here
  <2>9. TellsAll(campaign.entries, campaign.samples, campaign.run)'
    BY <1>1, <2>4 DEF IInv, CampaignFits, Active, TellsAll, Tells, OfOp, OneControl, FromPilot, FromRun
  <2>10. CampaignFits'
    BY <2>5, <2>6, <2>8, <2>9 DEF CampaignFits
  <2> QED BY <1>1, <1>2, <2>3, <2>4, <2>10, InsideOK DEF Active
<1>5. \/ \E status \in {"pending_input", "validated"} : campaign' = Done(status)
      \/ \E plan \in plans[Current] : /\ plan # {} \/ kind = "reviewer"
                                     /\ campaign' = [campaign EXCEPT !.pc = "control", !.left = plan]
  BY DEF TakePlan
<1> QED BY <1>3, <1>4, <1>5

LEMMA WriteOperationOK == ASSUME IInv, WriteOperation PROVE IInv'
<1>1. /\ campaign.pc = "mutations" /\ campaign.left = {}
      /\ perOp' = [perOp EXCEPT ![Current] = campaign.fresh]
      /\ campaign' = Done(StatusFor(campaign.fresh))
      /\ UNCHANGED <<kind, plans, rebuilt, started, suite, summary, reports, experiment>>
  BY DEF WriteOperation
<1>2. campaign.todo # <<>> /\ ~Reused
  BY <1>1 DEF IInv, CampaignFits, TodoFits, Here
<1>3. CampaignFits' /\ campaign' \in Campaign /\ campaign'.pc = "operation"
      /\ campaign'.run = campaign.run
  BY <1>1, <1>2, DoneOK DEF Active
<1>4. perOp' \in [Operations -> SUBSET Sample]
  BY <1>1 DEF IInv, Types, Campaign
<1> QED BY <1>1, <1>3, <1>4, InsideOK DEF Active

LEMMA AbortsOK == ASSUME IInv, Aborts PROVE IInv'
<1>1. campaign' = Idle
      /\ UNCHANGED <<kind, plans, rebuilt, started, perOp, suite, summary, reports, experiment>>
  BY DEF Aborts, disk
<1>2. Types'
  BY <1>1, IdleType DEF IInv, Types
<1>3. PlansFit'
  BY <1>1 DEF IInv, PlansFit, PlanOf
<1>4. Numbering'
  BY <1>1 DEF IInv, Numbering, Active, Idle
<1>5. FilesFit'
  BY <1>1, FilesFrame DEF IInv
<1>6. CampaignFits'
  BY <1>1, IdleLater
<1>7. ReportsFit'
  BY <1>1, ReportsFrame DEF IInv
<1> QED BY <1>2, <1>3, <1>4, <1>5, <1>6, <1>7 DEF IInv

LEMMA RunSampleOK ==
  ASSUME IInv, NEW m \in Mutations \cup {Control}, RunSample(m) PROVE IInv'
<1> DEFINE op == Current
           F == campaign.fresh
<1>1. /\ \/ campaign.pc = "control" /\ m = Control
         \/ campaign.pc = "mutations" /\ m \in campaign.left
      /\ UNCHANGED <<kind, plans, rebuilt, started, perOp, suite, summary, reports, experiment>>
  BY DEF RunSample, disk
<1>2. PICK outcome \in Outcomes(m) :
        campaign' = [campaign EXCEPT
          !.pc = "mutations", !.left = @ \ {m},
          !.fresh = @ \cup {[op |-> Current, mutation |-> m, run |-> campaign.run, outcome |-> outcome]}]
  BY DEF RunSample
<1> DEFINE x == [op |-> op, mutation |-> m, run |-> campaign.run, outcome |-> outcome]
<1>3. /\ campaign \in Campaign /\ perOp \in [Operations -> SUBSET Sample]
      /\ started \in 0..MaxRuns /\ Here /\ Active
  BY <1>1 DEF IInv, Types, Here, Active
<1>4. campaign.todo # <<>> /\ ~Reused
  BY <1>3 DEF IInv, CampaignFits, TodoFits
<1>5. op \in Operations
  BY <1>3, <1>4, TailFacts DEF Campaign, Current
<1>6. x \in Sample
  <2>1. campaign.run \in 0..MaxRuns
    BY <1>3, Constants DEF IInv, Numbering, Active
  <2>2. outcome \in {"found", "missed", "clean", "alarm", "failed"}
    BY DEF Outcomes
  <2> QED BY <1>5, <2>1, <2>2 DEF Sample
<1>7. /\ campaign'.pc = "mutations" /\ campaign'.run = campaign.run
      /\ campaign'.left = campaign.left \ {m} /\ campaign'.fresh = F \cup {x}
      /\ campaign'.todo = campaign.todo /\ campaign'.samples = campaign.samples
      /\ campaign'.entries = campaign.entries /\ Current' = Current
  BY <1>2, <1>3 DEF Campaign, Current
<1>8. campaign' \in Campaign
  <2>1. campaign.left \ {m} \in SUBSET Mutations
    BY <1>3 DEF Campaign
  <2>2. F \cup {x} \in SUBSET Sample
    BY <1>3, <1>6 DEF Campaign
  <2> HIDE DEF F
  <2>3. campaign' = [campaign EXCEPT !.pc = "mutations", !.left = campaign.left \ {m},
                                     !.fresh = F \cup {x}]
    BY <1>2 DEF F
  <2> HIDE DEF x
  <2> QED BY <1>3, <2>1, <2>2, <2>3 DEF Campaign
<1>9. /\ \A s \in F : SampleFits(s) /\ s.op = op /\ s.run = campaign.run
      /\ \A n \in campaign.left : OpOf[n] = op
      /\ ~rebuilt => campaign.left \cup ({s.mutation : s \in F} \ {Control}) = PlanOf(op)
      /\ campaign.pc = "control" => F = {} /\ (kind = "recovery" => campaign.left # {})
      /\ campaign.pc = "mutations" => OneControl(F)
      /\ campaign.left \subseteq Mutations /\ Control \notin campaign.left
  BY <1>3, Constants DEF IInv, CampaignFits, FreshFits, Campaign, PlanOf
<1>10. SampleFits(x) /\ x.op = op /\ x.run = campaign.run /\ x.mutation = m
  <2>1. CASE m = Control
    BY <2>1 DEF SampleFits, Outcomes
  <2>2. CASE m # Control
    <3>1. m \in campaign.left
      BY <1>1, <2>2
    <3> QED BY <1>9, <2>2, <3>1 DEF SampleFits, Outcomes
  <2> QED BY <2>1, <2>2
<1> HIDE DEF x, F, op
<1>11. /\ OneControl(F \cup {x})
       /\ kind = "recovery" /\ campaign.left \ {m} = {} => \E s \in F \cup {x} : s.mutation # Control
  <2>1. CASE m = Control /\ campaign.pc = "control"
    <3>1. /\ kind = "recovery" => campaign.left \ {m} # {}
          /\ {s \in F \cup {x} : s.mutation = Control} = {x}
      BY <1>9, <1>10, <2>1
    <3> QED BY <3>1 DEF OneControl
  <2>2. CASE m \in campaign.left /\ campaign.pc = "mutations"
    <3>1. m # Control
      BY <1>9, <2>2
    <3>2. {s \in F \cup {x} : s.mutation = Control} = {s \in F : s.mutation = Control}
      BY <1>10, <3>1
    <3>3. PICK c \in F : {s \in F : s.mutation = Control} = {c}
      BY <1>9, <2>2 DEF OneControl
    <3> QED BY <1>10, <3>1, <3>2, <3>3 DEF OneControl
  <2> QED BY <1>1, <2>1, <2>2
<1>12. ~rebuilt => (campaign.left \ {m}) \cup ({s.mutation : s \in F \cup {x}} \ {Control}) = PlanOf(op)
  <2>1. {s.mutation : s \in F \cup {x}} = {s.mutation : s \in F} \cup {m}
    BY <1>10
  <2>2. CASE m = Control /\ campaign.pc = "control"
    BY <1>9, <2>1, <2>2
  <2>3. CASE m \in campaign.left /\ campaign.pc = "mutations"
    <3>1. m # Control
      BY <1>9, <2>3
    <3> QED BY <1>9, <2>1, <2>3, <3>1
  <2> QED BY <1>1, <2>2, <2>3
<1>13. FreshFits'
  <2>1. \A s \in F \cup {x} : SampleFits(s)' /\ s.op = op /\ s.run = campaign.run
    BY <1>1, <1>9, <1>10 DEF SampleFits
  <2>2. \A n \in campaign.left \ {m} : OpOf[n] = op
    BY <1>9
  <2>3. Here'
    BY <1>7 DEF Here
  <2>4. campaign'.fresh = F \cup {x} /\ campaign'.left = campaign.left \ {m} /\ Current' = op
    BY <1>7 DEF op
  <2>5. /\ OneControl(F \cup {x})
        /\ kind = "recovery" /\ campaign.left \ {m} = {} => \E s \in F \cup {x} : s.mutation # Control
    BY <1>11
  <2>6. PlanOf(Current)' = PlanOf(op)
    BY <1>1, <2>4 DEF PlanOf
  <2>7. campaign'.pc = "mutations" /\ kind' = kind /\ rebuilt' = rebuilt /\ campaign'.run = campaign.run
    BY <1>1, <1>7
  <2>8. OneControl(campaign.fresh)'
    BY <2>4, <2>5 DEF OneControl
  <2> QED BY <2>1, <2>2, <2>3, <2>4, <2>5, <2>6, <2>7, <2>8, <1>12 DEF FreshFits
<1>14. SamplesFit(campaign.samples)'
  BY <1>1, <1>7 DEF IInv, CampaignFits, SamplesFit, SampleFits, Whole, OneControl, OfOp, FromPilot, PlanOf
<1>15. TodoFits'
  BY <1>1, <1>4, <1>7 DEF IInv, CampaignFits, TodoFits, OfOp, Here, Reused, FromPilot
<1>16. TellsAll(campaign.entries, campaign.samples, campaign.run)'
  BY <1>1, <1>3, <1>7 DEF IInv, CampaignFits, Active, TellsAll, Tells, OfOp, OneControl, FromPilot, FromRun
<1>17. CampaignFits'
  BY <1>13, <1>14, <1>15, <1>16 DEF CampaignFits
<1> QED BY <1>1, <1>3, <1>7, <1>8, <1>17, InsideOK DEF Here

LEMMA WriteSuiteOK == ASSUME IInv, WriteSuite PROVE IInv'
<1>1. /\ campaign.pc = "operation" /\ suite' = [run |-> campaign.run, samples |-> campaign.samples]
      /\ campaign' = [campaign EXCEPT !.pc = "summary"]
      /\ UNCHANGED <<kind, plans, rebuilt, started, perOp, summary, reports, experiment>>
  BY DEF WriteSuite
<1>2. campaign \in Campaign
  BY DEF IInv, Types
<1>3. /\ campaign' \in Campaign /\ campaign'.pc = "summary" /\ campaign'.run = campaign.run
      /\ campaign'.samples = campaign.samples /\ campaign'.entries = campaign.entries
      /\ campaign'.todo = campaign.todo /\ campaign'.fresh = campaign.fresh
  BY <1>1, <1>2 DEF Campaign
<1>4. campaign.run = started /\ started > 0 /\ summary.run < started /\ started \in Nat
      /\ summary.run \in Nat
  BY <1>1, Constants DEF IInv, Types, Numbering, Active
<1>5. suite'.run = campaign.run /\ suite'.samples = campaign.samples
  BY <1>1
<1>6. Types'
  <2>1. suite' \in [run : Nat, samples : SUBSET Sample]
    BY <1>1, <1>2 DEF Campaign
  <2> QED BY <1>1, <1>3, <2>1 DEF IInv, Types
<1>7. PlansFit'
  BY <1>1 DEF IInv, PlansFit, PlanOf
<1>8. Numbering'
  BY <1>1, <1>3, <1>4, <1>5 DEF IInv, Numbering, Active
<1>9. SamplesFit(campaign.samples)'
  BY <1>1, <1>3 DEF IInv, CampaignFits, SamplesFit, SampleFits, Whole, OneControl, OfOp, FromPilot, PlanOf
<1>10. FilesFit'
  <2>1. SamplesFit(suite.samples)'
    BY <1>3, <1>5, <1>9 DEF SamplesFit, SampleFits, Whole, OneControl, OfOp, FromPilot, PlanOf
  <2>2. summary'.run # suite'.run
    BY <1>1, <1>4, <1>5
  <2>3. FromRun(suite.samples, suite.run)'
    BY <1>1, <1>5 DEF IInv, CampaignFits, Active, TellsAll, FromRun, FromPilot
  <2> QED BY <2>1, <2>2, <2>3 DEF FilesFit
<1>11. CampaignFits'
  <2>1. TodoFits'
    BY <1>1, <1>3 DEF IInv, CampaignFits, TodoFits, OfOp, Here
  <2>2. FreshFits'
    BY <1>1, <1>3 DEF IInv, CampaignFits, FreshFits, Here, PlanOf
  <2>3. TellsAll(campaign.entries, campaign.samples, campaign.run)'
    BY <1>1, <1>3 DEF IInv, CampaignFits, Active, TellsAll, Tells, OfOp, OneControl, FromPilot, FromRun
  <2> QED BY <1>9, <2>1, <2>2, <2>3 DEF CampaignFits
<1>12. ReportsFit'
  BY <1>1, ReportsFrame DEF IInv
<1> QED BY <1>6, <1>7, <1>8, <1>10, <1>11, <1>12 DEF IInv

LEMMA WriteSummaryOK == ASSUME IInv, WriteSummary PROVE IInv'
<1>1. /\ campaign.pc = "summary" /\ campaign' = Idle
      /\ summary' = [run |-> campaign.run, status |-> Overall(campaign.entries),
                     entries |-> campaign.entries]
      /\ UNCHANGED <<kind, plans, rebuilt, started, perOp, suite, reports, experiment>>
  BY DEF WriteSummary
<1>2. campaign \in Campaign
  BY DEF IInv, Types
<1>3. suite.samples = campaign.samples /\ suite.run = campaign.run /\ campaign.run = started
  <2>1. suite = [run |-> campaign.run, samples |-> campaign.samples]
    BY <1>1 DEF IInv, Numbering, Active
  <2> QED BY <1>1, <2>1 DEF IInv, Numbering, Active
<1>4. summary'.run = campaign.run /\ summary'.entries = campaign.entries
      /\ summary'.status = Overall(campaign.entries)
  BY <1>1
<1>5. Types'
  <2>1. Overall(campaign.entries) \in {"completed", "partial"}
    BY DEF Overall
  <2>2. summary' \in [run : Nat, status : {"completed", "partial"}, entries : Entries]
    BY <1>1, <1>2, <2>1 DEF Campaign
  <2> QED BY <1>1, <2>2, IdleType DEF IInv, Types
<1>6. PlansFit'
  BY <1>1 DEF IInv, PlansFit, PlanOf
<1>7. Numbering'
  <2>1. campaign'.pc = "idle" /\ started \in Nat
    BY <1>1, Constants DEF Idle, IInv, Types
  <2> QED BY <1>1, <1>3, <1>4, <2>1 DEF IInv, Numbering, Active
<1>8. FilesFit'
  <2>1. SamplesFit(suite.samples)'
    BY <1>1 DEF IInv, FilesFit, SamplesFit, SampleFits, Whole, OneControl, OfOp, FromPilot, FromRun, PlanOf
  <2>2. TellsAll(campaign.entries, suite.samples, suite.run)
    BY <1>1, <1>3 DEF IInv, CampaignFits, Active
  <2>3. TellsAll(summary.entries, suite.samples, suite.run)'
    BY <1>1, <1>4, <2>2 DEF TellsAll, Tells, OfOp, OneControl, FromPilot, FromRun
  <2>4. summary'.status = Overall(summary.entries)'
    BY <1>1, <1>4 DEF Overall
  <2>5. FromRun(suite.samples, suite.run)'
    BY <1>1 DEF IInv, FilesFit, FromRun, FromPilot
  <2> QED BY <2>1, <2>3, <2>4, <2>5 DEF FilesFit
<1>9. CampaignFits'
  BY <1>1, IdleLater
<1>10. ReportsFit'
  BY <1>1, ReportsFrame DEF IInv
<1> QED BY <1>5, <1>6, <1>7, <1>8, <1>9, <1>10 DEF IInv

\* The mutations of samples that fit, and those that were detected.
LEMMA GradedFacts ==
  ASSUME NEW samples, samples \subseteq Sample, SamplesFit(samples)
  PROVE  /\ Detected(samples) \subseteq Graded(samples) /\ Graded(samples) \subseteq Mutations
         /\ kind = "recovery" /\ Ready(samples) =>
              /\ Graded(samples) # {}
              /\ PlansFit /\ Types /\ ~rebuilt => Graded(samples) = Planned
<1>1. \A s \in samples : SampleFits(s) /\ s.op \in Operations /\ s.mutation \in Mutations \cup {Control}
  BY DEF SamplesFit, Sample
<1>2. Graded(samples) \subseteq Mutations
  BY <1>1 DEF Graded
<1>3. Detected(samples) \subseteq Graded(samples)
  BY <1>1 DEF Detected, Graded, SampleFits
<1>4. ASSUME kind = "recovery", Ready(samples)
      PROVE  /\ Graded(samples) # {}
             /\ PlansFit /\ Types /\ ~rebuilt => Graded(samples) = Planned
  <2>1. samples # {} /\ \A op \in Operations : \E s \in samples : s.op = op /\ s.mutation # Control
    BY <1>4 DEF Ready, Covers
  <2>2. Graded(samples) = {s.mutation : s \in samples} \ {Control}
    BY <1>1, <1>4 DEF Graded, SampleFits
  <2>3. Graded(samples) # {}
    BY <2>1, <2>2, <1>1
  <2>4. ASSUME PlansFit, Types, ~rebuilt PROVE Graded(samples) = Planned
    <3>1. \A op \in Operations :
            {s.mutation : s \in OfOp(samples, op)} = PlanOf(op) \cup {Control}
      BY <1>4, <2>1, <2>4 DEF SamplesFit, Whole, OfOp, FromPilot, PlanOf
    <3>2. \A op \in Operations : Control \notin PlanOf(op)
      BY <2>4, Constants DEF Types, PlanOf
    <3>3. ASSUME NEW a \in Graded(samples) PROVE a \in Planned
      <4>1. PICK s \in samples : s.mutation = a /\ a # Control
        BY <2>2
      <4>2. s \in OfOp(samples, s.op) /\ s.op \in Operations
        BY <1>1 DEF OfOp
      <4>3. a \in PlanOf(s.op)
        BY <3>1, <4>1, <4>2
      <4> QED BY <4>2, <4>3 DEF Planned, PlanOf
    <3>4. ASSUME NEW a \in Planned PROVE a \in Graded(samples)
      <4>1. PICK op \in Operations : a \in PlanOf(op)
        BY DEF Planned, PlanOf
      <4>2. PICK s \in OfOp(samples, op) : s.mutation = a
        BY <3>1, <4>1
      <4> QED BY <2>2, <3>2, <4>1, <4>2 DEF OfOp
    <3> QED BY <3>3, <3>4
  <2> QED BY <2>3, <2>4
<1> QED BY <1>2, <1>3, <1>4

LEMMA ReportOK == ASSUME IInv, Report PROVE IInv'
<1> DEFINE r == [run |-> suite.run, ready |-> Ready(suite.samples), rebuilt |-> rebuilt,
                 graded |-> Graded(suite.samples), detected |-> Detected(suite.samples)]
<1>1. /\ suite # NoFile /\ reports' = Append(reports, r)
      /\ UNCHANGED <<kind, plans, rebuilt, campaign, started, perOp, suite, summary, experiment>>
  BY DEF Report
<1>2. /\ suite.samples \subseteq Sample /\ SamplesFit(suite.samples) /\ reports \in Seq(ReportRecord)
      /\ PlansFit /\ Types /\ experiment \subseteq DOMAIN reports /\ suite.run \in Nat
  BY DEF IInv, Types, FilesFit
<1>3. /\ r.detected \subseteq r.graded /\ r.graded \subseteq Mutations
      /\ kind = "recovery" /\ r.ready => r.graded # {} /\ (~rebuilt => r.graded = Planned)
  BY <1>2, GradedFacts
<1>4. r \in ReportRecord
  <2>1. Ready(suite.samples) \in BOOLEAN
    BY DEF Ready, Covers
  <2>2. rebuilt \in BOOLEAN
    BY <1>2 DEF Types
  <2>3. r.graded \in SUBSET Mutations /\ r.detected \in SUBSET Mutations
    BY <1>3
  <2> QED BY <1>2, <2>1, <2>2, <2>3 DEF ReportRecord
<1>5. r.rebuilt = rebuilt
  OBVIOUS
<1> HIDE DEF r
<1>6. /\ reports' \in Seq(ReportRecord)
      /\ DOMAIN reports \subseteq DOMAIN reports'
      /\ \A i \in DOMAIN reports : reports'[i] = reports[i]
      /\ \A i \in DOMAIN reports' : i \in DOMAIN reports \/ reports'[i] = r
  BY <1>1, <1>2, <1>4
<1>7. Types'
  BY <1>1, <1>2, <1>6 DEF IInv, Types
<1>8. PlansFit'
  BY <1>1 DEF IInv, PlansFit, PlanOf
<1>9. Numbering'
  BY <1>1 DEF IInv, Numbering, Active
<1>10. FilesFit'
  BY <1>1, FilesFrame DEF IInv
<1>11. CampaignFits'
  BY <1>1, CampaignFrame DEF IInv
<1>12. ReportsFit'
  <2>1. \A i \in DOMAIN reports : reports[i].detected \subseteq reports[i].graded
    BY DEF IInv, ReportsFit
  <2>2. \A i \in DOMAIN reports' : reports'[i].detected \subseteq reports'[i].graded
    BY <2>1, <1>3, <1>6
  <2>3. \A i \in experiment' : kind' = "recovery" /\ reports'[i].ready
    BY <1>1, <1>2, <1>6 DEF IInv, ReportsFit
  <2>4. ASSUME kind = "recovery", NEW i \in DOMAIN reports', reports'[i].ready, ~reports'[i].rebuilt
        PROVE  reports'[i].graded # {} /\ (~rebuilt => reports'[i].graded = Planned)
    <3>1. CASE i \in DOMAIN reports
      BY <2>4, <3>1, <1>6 DEF IInv, ReportsFit
    <3>2. CASE reports'[i] = r
      BY <2>4, <3>2, <1>3
    <3> QED BY <3>1, <3>2, <1>6
  <2>5. ASSUME kind = "recovery",
               NEW i \in DOMAIN reports', reports'[i].ready, ~reports'[i].rebuilt,
               NEW j \in DOMAIN reports', reports'[j].ready, ~reports'[j].rebuilt
        PROVE  reports'[i].graded = reports'[j].graded
    <3>1. CASE rebuilt
      <4>1. i \in DOMAIN reports /\ j \in DOMAIN reports
        BY <2>5, <3>1, <1>5, <1>6
      <4> QED BY <2>5, <4>1, <1>6 DEF IInv, ReportsFit
    <3>2. CASE ~rebuilt
      BY <2>4, <2>5, <3>2
    <3> QED BY <3>1, <3>2
  <2>6. Planned' = Planned
    BY <1>1 DEF Planned, PlanOf
  <2>7. kind' = kind /\ rebuilt' = rebuilt
    BY <1>1
  <2> QED BY <2>2, <2>3, <2>4, <2>5, <2>6, <2>7 DEF ReportsFit
<1> QED BY <1>7, <1>8, <1>9, <1>10, <1>11, <1>12 DEF IInv

LEMMA PoolOK == ASSUME IInv, Pool PROVE IInv'
<1>1. /\ kind = "recovery"
      /\ UNCHANGED <<kind, plans, rebuilt, campaign, started, perOp, suite, summary, reports>>
  BY DEF Pool
<1>2. PICK i, j \in DOMAIN reports :
        reports[i].ready /\ reports[j].ready /\ experiment' = {i, j}
  BY DEF Pool, Accepted
<1>3. Types'
  BY <1>1, <1>2 DEF IInv, Types
<1>4. PlansFit'
  BY <1>1 DEF IInv, PlansFit, PlanOf
<1>5. Numbering'
  BY <1>1 DEF IInv, Numbering, Active
<1>6. FilesFit'
  BY <1>1, FilesFrame DEF IInv
<1>7. CampaignFits'
  BY <1>1, CampaignFrame DEF IInv
<1>8. ReportsFit'
  <2>1. \A k \in experiment' : kind' = "recovery" /\ reports'[k].ready
    BY <1>1, <1>2
  <2> QED BY <1>1, <2>1 DEF IInv, ReportsFit, Planned, PlanOf
<1> QED BY <1>3, <1>4, <1>5, <1>6, <1>7, <1>8 DEF IInv

LEMMA NextOK == IInv /\ [Next]_vars => IInv'
<1> SUFFICES ASSUME IInv, [Next]_vars PROVE IInv'
  OBVIOUS
<1>1. ASSUME NEW op \in Operations, Rebuild(op) PROVE IInv'
  BY <1>1, RebuildOK
<1>2. ASSUME NEW dry \in BOOLEAN, Start(dry) PROVE IInv'
  BY <1>2, StartOK
<1>3. CASE SkipPilot
  BY <1>3, SkipPilotOK
<1>4. CASE TakePlan
  BY <1>4, TakePlanOK
<1>5. ASSUME NEW m \in Mutations \cup {Control}, RunSample(m) PROVE IInv'
  BY <1>5, RunSampleOK
<1>6. CASE WriteOperation
  BY <1>6, WriteOperationOK
<1>7. CASE WriteSuite
  BY <1>7, WriteSuiteOK
<1>8. CASE WriteSummary
  BY <1>8, WriteSummaryOK
<1>9. CASE Aborts
  BY <1>9, AbortsOK
<1>10. CASE Report
  BY <1>10, ReportOK
<1>11. CASE Pool
  BY <1>11, PoolOK
<1>12. CASE UNCHANGED vars
  <2>1. UNCHANGED <<kind, plans, rebuilt, campaign, started, perOp, suite, summary, reports, experiment>>
    BY <1>12 DEF vars
  <2>2. Types' /\ PlansFit' /\ Numbering'
    BY <2>1 DEF IInv, Types, PlansFit, PlanOf, Numbering, Active
  <2>3. FilesFit' /\ CampaignFits' /\ ReportsFit'
    BY <2>1, FilesFrame, CampaignFrame, ReportsFrame DEF IInv
  <2> QED BY <2>2, <2>3 DEF IInv
<1> QED BY <1>1, <1>2, <1>3, <1>4, <1>5, <1>6, <1>7, <1>8, <1>9, <1>10, <1>11, <1>12 DEF Next

-----------------------------------------------------------------------------
(* What the invariant shows.                                                *)

LEMMA TypesShow == IInv => TypeOK
<1> SUFFICES ASSUME IInv PROVE TypeOK
  OBVIOUS
<1>1. Types
  BY DEF IInv
<1>2. campaign.run \in 0..started
  <2>1. started \in Nat
    BY <1>1, Constants DEF Types
  <2>2. CASE Active
    BY <2>1, <2>2 DEF IInv, Numbering
  <2>3. CASE ~Active
    <3>1. campaign = Idle
      BY <2>3 DEF IInv, Numbering
    <3> QED BY <2>1, <3>1 DEF Idle
  <2> QED BY <2>2, <2>3
<1>3. campaign.left \subseteq Mutations /\ campaign.samples \cup campaign.fresh \cup suite.samples \subseteq Sample
      /\ campaign.pc \in {"idle", "operation", "control", "mutations", "summary"}
  BY <1>1 DEF Types, Campaign
<1>4. \A op \in DOMAIN summary.entries : summary.entries[op] \in Entry
  <2>1. summary.entries \in Entries
    BY <1>1 DEF Types
  <2>2. PICK S \in SUBSET Operations : summary.entries \in [S -> Entry]
    BY <2>1 DEF Entries
  <2> QED BY <2>2
<1>5. \A i \in DOMAIN reports : reports[i].graded \subseteq Mutations
  <2>1. reports \in Seq(ReportRecord)
    BY <1>1 DEF Types
  <2>2. \A i \in DOMAIN reports : reports[i] \in ReportRecord
    BY <2>1
  <2> QED BY <2>2 DEF ReportRecord
<1>6. \A i \in DOMAIN reports : reports[i].detected \subseteq reports[i].graded
  BY DEF IInv, ReportsFit
<1> QED BY <1>1, <1>2, <1>3, <1>4, <1>5, <1>6 DEF TypeOK, Types

LEMMA ControlIsOne ==
  ASSUME NEW samples, NEW op, OneControl(OfOp(samples, op))
  PROVE  Cardinality(ControlOf(samples, op)) = 1
<1>1. PICK c \in OfOp(samples, op) : {s \in OfOp(samples, op) : s.mutation = Control} = {c}
  BY DEF OneControl
<1>2. ControlOf(samples, op) = {c}
  BY <1>1 DEF OfOp, ControlOf
<1> QED BY <1>2, FS_Singleton

LEMMA SuiteShows == IInv => SuiteIsWhole
<1> SUFFICES ASSUME IInv PROVE SuiteIsWhole
  OBVIOUS
<1>1. summary.run <= suite.run
  BY DEF IInv, Numbering
<1>2. ASSUME NEW s \in suite.samples, ~(FromPilot(s.op) /\ s.run = 0)
      PROVE  s.run = suite.run /\ Cardinality(ControlOf(suite.samples, s.op)) = 1
  <2>1. s \in Sample /\ FromRun(suite.samples, suite.run) /\ SamplesFit(suite.samples)
    BY DEF IInv, Types, FilesFit
  <2>2. ~FromPilot(s.op) /\ s.run = suite.run
    BY <1>2, <2>1 DEF FromRun
  <2>3. s.op \in Operations /\ OfOp(suite.samples, s.op) # {}
    BY <2>1 DEF Sample, OfOp
  <2>4. OneControl(OfOp(suite.samples, s.op))
    BY <2>1, <2>2, <2>3 DEF SamplesFit, Whole
  <2> QED BY <2>2, <2>4, ControlIsOne
<1> QED BY <1>1, <1>2 DEF SuiteIsWhole

LEMMA SummaryShows == IInv => SummaryTellsOfSuite
<1> SUFFICES ASSUME IInv, summary.run = suite.run, suite # NoFile PROVE SummaryTellsOfSuite
  BY DEF SummaryTellsOfSuite
<1>1. TellsAll(summary.entries, suite.samples, suite.run)
  BY DEF IInv, FilesFit
<1>2. \A s \in suite.samples : s.op \in DOMAIN summary.entries
  BY <1>1 DEF TellsAll
<1>3. ASSUME NEW op \in DOMAIN summary.entries
      PROVE  LET of == {s \in suite.samples : s.op = op}
                 entry == summary.entries[op]
             IN  /\ entry.status = "reused" => FromPilot(op)
                 /\ entry.status \in {"pending_input", "validated"} => of = {}
                 /\ entry.status = "completed" =>
                      /\ entry.mutations = Graded(of) /\ (kind = "recovery" => entry.mutations # {})
                      /\ Cardinality(ControlOf(of, op)) = 1
                      /\ \A c \in ControlOf(of, op) : c.outcome # "failed"
  <2> DEFINE of == {s \in suite.samples : s.op = op}
             entry == summary.entries[op]
  <2>1. Tells(entry, of) /\ (entry.status = "reused" => FromPilot(op))
    BY <1>1 DEF TellsAll, OfOp
  <2>2. ASSUME entry.status = "completed"
        PROVE  /\ entry.mutations = Graded(of) /\ (kind = "recovery" => entry.mutations # {})
               /\ Cardinality(ControlOf(of, op)) = 1
               /\ \A c \in ControlOf(of, op) : c.outcome # "failed"
    <3>1. /\ OneControl(of) /\ (kind = "recovery" => entry.mutations # {})
          /\ entry.mutations = {s.mutation : s \in of} \ {Control}
          /\ \A s \in of : s.outcome # "failed"
      BY <2>1, <2>2 DEF Tells
    <3>2. Graded(of) = {s.mutation : s \in of} \ {Control}
      BY <3>1 DEF Graded
    <3>3. OfOp(of, op) = of
      BY DEF OfOp
    <3>4. Cardinality(ControlOf(of, op)) = 1
      BY <3>1, <3>3, ControlIsOne
    <3>5. \A c \in ControlOf(of, op) : c \in of
      BY DEF ControlOf
    <3> QED BY <3>1, <3>2, <3>4, <3>5
  <2> HIDE DEF of, entry
  <2>3. entry.status \in {"pending_input", "validated"} => of = {}
    BY <2>1 DEF Tells
  <2> QED BY <2>1, <2>2, <2>3 DEF of, entry
<1> QED BY <1>2, <1>3 DEF SummaryTellsOfSuite

LEMMA DetectedShows == IInv => DetectedIsNew
<1> SUFFICES ASSUME IInv, kind = "reviewer", NEW m \in Detected(suite.samples)
             PROVE  LET op == OpOf[m]
                        control == ControlOf(suite.samples, op)
                    IN  /\ \A c \in control : c.outcome # "alarm"
                        /\ op # Pilot => Cardinality(control) = 1
                        /\ op # Pilot /\ summary.run = suite.run =>
                             \/ \A c \in control : c.outcome = "clean"
                             \/ summary.status = "partial" /\ summary.entries[op].status = "partial"
  BY DEF DetectedIsNew
<1>1. PICK t \in suite.samples :
        /\ t.mutation = m /\ t.outcome = "found"
        /\ \A c \in ControlOf(suite.samples, t.op) : c.outcome # "alarm"
  BY DEF Detected
<1>2. suite.samples \subseteq Sample /\ SamplesFit(suite.samples)
  BY DEF IInv, Types, FilesFit
<1>3. OpOf[m] = t.op /\ t.op \in Operations
  <2>1. SampleFits(t) /\ t.op \in Operations
    BY <1>2 DEF SamplesFit, Sample
  <2> QED BY <1>1, <2>1 DEF SampleFits
<1> DEFINE control == ControlOf(suite.samples, t.op)
<1>4. t \in OfOp(suite.samples, t.op)
  BY DEF OfOp
<1>5. t.op # Pilot => Cardinality(control) = 1
  <2>1. ASSUME t.op # Pilot PROVE OneControl(OfOp(suite.samples, t.op))
    BY <1>2, <1>3, <1>4, <2>1 DEF SamplesFit, Whole, FromPilot
  <2> QED BY <2>1, ControlIsOne
<1>6. \A c \in control : c \in OfOp(suite.samples, t.op) /\ c.outcome \in {"clean", "failed"}
  <2>1. \A c \in control : SampleFits(c) /\ c \in OfOp(suite.samples, t.op) /\ c.mutation = Control
    BY <1>2 DEF ControlOf, SamplesFit, OfOp
  <2> QED BY <1>1, <2>1 DEF SampleFits
<1>7. ASSUME t.op # Pilot, summary.run = suite.run
      PROVE  \/ \A c \in control : c.outcome = "clean"
             \/ summary.status = "partial" /\ summary.entries[t.op].status = "partial"
  <2>1. suite # NoFile
    BY <1>1 DEF NoFile
  <2>2. TellsAll(summary.entries, suite.samples, suite.run)
        /\ summary.status = Overall(summary.entries)
    BY <1>7, <2>1 DEF IInv, FilesFit
  <2>3. t.op \in DOMAIN summary.entries
    BY <2>2 DEF TellsAll
  <2> DEFINE status == summary.entries[t.op].status
  <2>4. /\ Tells(summary.entries[t.op], OfOp(suite.samples, t.op))
        /\ status # "reused"
    BY <1>7, <2>2, <2>3 DEF TellsAll, FromPilot
  <2>5. status \in SummaryStatus
    <3>1. TypeOK
      BY TypesShow
    <3> QED BY <2>3, <3>1 DEF TypeOK, Entry
  <2>6. status \in {"completed", "partial"}
    BY <1>4, <2>4, <2>5 DEF Tells, SummaryStatus
  <2>7. CASE status = "completed"
    BY <1>6, <2>4, <2>7 DEF Tells
  <2>8. CASE status = "partial"
    <3> DEFINE statuses == {summary.entries[op].status : op \in DOMAIN summary.entries}
    <3>1. Overall(summary.entries) = IF statuses \cap {"partial"} = {} THEN "completed" ELSE "partial"
      BY DEF Overall
    <3>2. "partial" \in statuses
      BY <2>3, <2>8
    <3> HIDE DEF statuses
    <3>3. Overall(summary.entries) = "partial"
      BY <3>1, <3>2
    <3> QED BY <2>2, <2>8, <3>3
  <2> QED BY <2>6, <2>7, <2>8
<1> QED BY <1>1, <1>3, <1>5, <1>7

LEMMA PooledShows == IInv => PooledRunsAgree
<1> SUFFICES ASSUME IInv, NEW i \in experiment, NEW j \in experiment,
                    ~reports[i].rebuilt, ~reports[j].rebuilt
             PROVE  reports[i].graded # {} /\ reports[i].graded = reports[j].graded
  BY DEF PooledRunsAgree
<1>1. /\ kind = "recovery" /\ reports[i].ready /\ reports[j].ready
      /\ i \in DOMAIN reports /\ j \in DOMAIN reports
  BY DEF IInv, Types, ReportsFit
<1> QED BY <1>1 DEF IInv, ReportsFit

\* The strengthened invariant holds of every reachable state.
THEOREM Invariance == Spec => []IInv
<1>1. Init => IInv
  BY InitOK
<1>2. IInv /\ [Next]_vars => IInv'
  BY NextOK
<1> QED BY <1>1, <1>2, PTL DEF Spec

\* The plans, the campaign, the files and the reports have their types
\* whatever the data set, the plans and the failures of the model.
THEOREM TypeCorrect == Spec => []TypeOK
<1>1. IInv => TypeOK
  BY TypesShow
<1> QED BY <1>1, Invariance, PTL

\* Whatever suite the pilot brings (run_multi_reviewer.py looks at its
\* operation only), and whatever fails, aborts or is rehearsed: the suite file
\* is of one campaign with one control for each operation but the pilot, the
\* summary of that campaign tells the same of it, and what a report counts as
\* detected for an operation that was run is compared with a control that has
\* an output, or the summary calls operation and campaign partial.
THEOREM ReportsCorrect == Spec => []ReportsTellOfCampaign
<1>1. IInv => ReportsTellOfCampaign
  BY SuiteShows, SummaryShows, DetectedShows DEF ReportsTellOfCampaign
<1> QED BY <1>1, Invariance, PTL

\* The reports that an experiment pools (recovery_experiment.py) grade the
\* same mutations when no plan was rebuilt between their campaigns.
THEOREM PooledCorrect == Spec => []PooledRunsAgree
<1>1. IInv => PooledRunsAgree
  BY PooledShows
<1> QED BY <1>1, Invariance, PTL

=============================================================================
