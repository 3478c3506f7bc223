------------------------------ MODULE LlmAgent ------------------------------
(* The agents of one workflow and the calls they make to the model: the     *)
(* attempts, repairs and regenerations of provider_agent (workflow/         *)
(* agents.py), the verdicts of OpenAICompatibleProvider (providers/llm.py), *)
(* the budget the agents of one phase share, and the telemetry that         *)
(* WorkflowService merges into the metadata of the run and that the graders *)
(* of the evaluations read back (evals/graders/telemetry.py).               *)
EXTENDS Naturals, Sequences, FiniteSets

CONSTANTS
  Budgets,      \* the call budgets a project may be given
  MaxAttempts,  \* retry.max_attempts of the prompts
  Replies,      \* the replies the provider may give
  MaxPhases     \* bound on the phases run

ASSUME LlmAgentAssumption ==
  /\ Budgets \subseteq Nat \ {0}
  /\ MaxAttempts \in Nat \ {0}
  /\ MaxPhases \in Nat

Stages == {"nlu", "designer", "reviewer"}
Modes == {"generate", "repair", "regenerate"}
Categories == {"provider_error", "timeout", "http_4xx", "http_5xx", "invalid_provider_response",
               "output_truncated", "content_filter", "empty_response", "non_json",
               "schema_validation"}
Causes == {"credential", "request", "non_json", "schema", "budget", "provider",
           "validation", "execution"}
NoCategory == "none"

(* What a failed call leaves to the next attempt.                           *)
Error == [cat: Categories \cup {NoCategory}, payload: BOOLEAN, again: BOOLEAN]
NoError == [cat |-> NoCategory, payload |-> FALSE, again |-> TRUE]

(* One LlmCallMetric, without its durations and sizes.                      *)
Metric == [stage: Stages, attempt: Nat, mode: Modes, ok: BOOLEAN,
           cat: Categories \cup {NoCategory}]
Entry == [attempt: Nat, mode: Modes, ok: BOOLEAN, cat: Categories \cup {NoCategory}]

VARIABLES
  phase,     \* "none", "nlu" or "design"
  pc,        \* "idle", "attempt", "called", "answered"
  step,      \* the agent of the phase that runs
  suggested, \* the Reviewer proposed cases
  budget,    \* max_calls of the phase
  used,      \* calls consumed
  attempt,   \* calls this agent has made
  last,      \* last_error
  tele,      \* LlmTelemetry.records
  lost,      \* calls that ended without a record
  snap,      \* WorkflowRunSnapshot: status, cause of the failure, metadata
  made,      \* history: every record of a workflow without a retry
  retried,   \* history: the design was run again from the cached snapshot
  phases     \* phases run so far

vars == <<phase, pc, step, suggested, budget, used, attempt, last, tele, lost, snap, made,
          retried, phases>>

NoMeta == [s \in Stages |-> <<>>]
NoSnap == [status |-> "none", cause |-> "none", meta |-> NoMeta]

Init ==
  /\ phase = "none" /\ pc = "idle" /\ step = 1 /\ suggested = FALSE
  /\ budget \in Budgets /\ used = 0 /\ attempt = 0 /\ last = NoError
  /\ tele = <<>> /\ lost = 0
  /\ snap = NoSnap /\ made = <<>> /\ retried = FALSE /\ phases = 0

(* The graph of a phase: the supplement is a second call of the Designer.   *)
Plan ==
  IF phase = "nlu" THEN <<"nlu">>
  ELSE IF suggested THEN <<"designer", "reviewer", "designer">>
  ELSE <<"designer", "reviewer">>

-----------------------------------------------------------------------------
(* The provider.                                                            *)

Failure(cat, payload, again) == [cat |-> cat, payload |-> payload, again |-> again]

Transport ==
  [timeout |-> Failure("timeout", FALSE, TRUE),
   status_4xx |-> Failure("http_4xx", FALSE, FALSE),
   status_429 |-> Failure("http_4xx", FALSE, TRUE),
   status_5xx |-> Failure("http_5xx", FALSE, TRUE),
   malformed |-> Failure("invalid_provider_response", FALSE, TRUE)]

Finish ==
  [length |-> Failure("output_truncated", FALSE, TRUE),
   content_filter |-> Failure("content_filter", FALSE, FALSE)]

(* fences: nothing between the Markdown fences; large: valid JSON of another *)
(* shape that is null or longer than a repair prompt may be.                *)
Content ==
  [blank |-> Failure("empty_response", FALSE, TRUE),
   fences |-> Failure("non_json", FALSE, TRUE),
   prose |-> Failure("non_json", TRUE, TRUE),
   other |-> Failure("schema_validation", TRUE, TRUE),
   large |-> Failure("schema_validation", FALSE, TRUE)]

Answers == [key: BOOLEAN, transport: DOMAIN Transport \cup {"ok"},
            finish: DOMAIN Finish \cup {"stop"}, content: DOMAIN Content \cup {"valid"}]

ASSUME RepliesAssumption == Replies \subseteq Answers

(* complete looks at the credential, the transport, the reason to finish    *)
(* and the content, in this order.                                          *)
Complete(a) ==
  IF ~a.key THEN Failure("provider_error", FALSE, TRUE)
  ELSE IF a.transport \in DOMAIN Transport THEN Transport[a.transport]
  ELSE IF a.finish \in DOMAIN Finish THEN Finish[a.finish]
  ELSE IF a.content \in DOMAIN Content THEN Content[a.content]
  ELSE NoError

(* _safe_failure_message of an error of the provider.                       *)
CauseOf(e) ==
  IF e.cat = "provider_error" THEN "credential"
  ELSE IF e.cat \in {"timeout", "http_4xx", "http_5xx", "invalid_provider_response"} THEN "request"
  ELSE IF e.cat = "non_json" THEN "non_json"
  ELSE IF e.cat = "schema_validation" THEN "schema"
  ELSE "provider"

-----------------------------------------------------------------------------
(* The telemetry.                                                           *)

(* Mutant of ModeFor: any error that can be retried is sent to be repaired. *)
ModeForRetry(e) == IF e.cat # NoCategory THEN "repair" ELSE "generate"

ModeFor(e) ==
  IF e.payload THEN "repair"
  ELSE IF e.cat = "empty_response" THEN "regenerate"
  ELSE "generate"

Record(e) ==
  [stage |-> Plan[step], attempt |-> attempt, mode |-> ModeFor(last), ok |-> e = NoError,
   cat |-> e.cat]

(* The calls of one agent, in their order.                                  *)
OfStage(records, s) ==
  LET calls[k \in 0..Len(records)] ==
        IF k = 0 THEN <<>>
        ELSE IF records[k].stage = s THEN Append(calls[k - 1], records[k])
        ELSE calls[k - 1]
  IN  calls[Len(records)]

EntryOf(r) == [attempt |-> r.attempt, mode |-> r.mode, ok |-> r.ok, cat |-> r.cat]

(* Mutant of Merged: calls are numbered by their attempt, so that those of  *)
(* the supplement take the place of those of the first design.              *)
MergedByAttempt(old, records) ==
  [s \in Stages |->
     LET new == OfStage(records, s)
     IN  [k \in 1..MaxAttempts |->
            IF \E m \in DOMAIN new : new[m].attempt = k
            THEN EntryOf(new[CHOOSE m \in DOMAIN new :
                   new[m].attempt = k /\ \A n \in DOMAIN new : new[n].attempt = k => n <= m])
            ELSE [attempt |-> k, mode |-> "generate", ok |-> FALSE, cat |-> NoCategory]]]

(* The keys llm_<stage>_call_<k>_<field> of the new calls over the old      *)
(* metadata: an old call past the number of the new ones stays, and an old  *)
(* error category stays when the new call has none.                         *)
Merged(old, records) ==
  [s \in Stages |->
     LET new == OfStage(records, s)
     IN  [k \in 1..(IF Len(new) > Len(old[s]) THEN Len(new) ELSE Len(old[s])) |->
            IF k > Len(new) THEN old[s][k]
            ELSE IF new[k].cat = NoCategory /\ k <= Len(old[s])
            THEN [EntryOf(new[k]) EXCEPT !.cat = old[s][k].cat]
            ELSE EntryOf(new[k])]]

-----------------------------------------------------------------------------
(* The phases.                                                              *)

(* _workflow_for: a new provider, budget and telemetry for every phase.     *)
Starts(p) ==
  /\ pc = "idle"
  /\ phases < MaxPhases
  /\ phases' = phases + 1
  /\ phase' = p
  /\ pc' = "attempt"
  /\ step' = 1
  /\ suggested' = FALSE
  /\ budget' \in Budgets
  /\ used' = 0
  /\ attempt' = 0
  /\ last' = NoError
  /\ tele' = <<>>
  /\ lost' = 0

(* run_nlu makes a workflow, and its metadata, anew.                        *)
StartNlu ==
  /\ Starts("nlu")
  /\ snap' = NoSnap
  /\ made' = <<>>
  /\ retried' = FALSE

(* The Requirement is approved and the design runs.                         *)
StartDesign ==
  /\ snap.status = "waiting"
  /\ Starts("design")
  /\ snap' = [snap EXCEPT !.status = "designing"]
  /\ UNCHANGED <<made, retried>>

(* prepare_cached_design_retry: a design that failed, left gaps or could    *)
(* not be saved runs again over the same snapshot, whose metadata stay.     *)
RetryDesign ==
  /\ snap.status \in {"design_failed", "gaps", "designing", "ready"}
  /\ Starts("design")
  /\ snap' = [snap EXCEPT !.status = "designing", !.cause = "none"]
  /\ retried' = TRUE
  /\ made' = <<>>

(* What run_nlu and continue_after_requirement_approval save at the end, of  *)
(* all calls but the missing ones.  Nothing is saved when the save fails,    *)
(* when run_nlu meets a DomainError (the project or the operation is gone)   *)
(* and when a design ends before its graph starts.                           *)
Ends(status, cause, missing) ==
  /\ phase' = "none"
  /\ pc' = "idle"
  /\ lost' = lost + missing
  /\ UNCHANGED <<step, suggested, budget, used, attempt, last, tele, retried, phases>>
  /\ \/ /\ made' = IF retried THEN <<>> ELSE made \o tele
        /\ snap' = [status |-> status, cause |-> cause, meta |-> Merged(snap.meta, tele)]
     \/ UNCHANGED <<snap, made>>

FailedStatus == IF phase = "nlu" THEN "nlu_failed" ELSE "design_failed"

Fails(cause) == Ends(FailedStatus, cause, 0)

(* Mutant of MayCall: the budget is looked at before the first attempt of   *)
(* an agent only.                                                           *)
MayCallAgain == used < budget \/ attempt > 0

MayCall == used < budget

(* Mutant of Left: one attempt more than there are.                         *)
LeftOneMore == attempt <= MaxAttempts

Left == attempt < MaxAttempts

(* Mutant of Exceeded: a phase without budget waits for some.               *)
ExceededWaits == FALSE

Exceeded == ~MayCall

(* range(max_attempts), then budget.consume, which raises past the loop.    *)
Call ==
  /\ pc = "attempt"
  /\ Left
  /\ MayCall
  /\ used' = used + 1
  /\ attempt' = attempt + 1
  /\ pc' = "called"
  /\ UNCHANGED <<phase, step, suggested, budget, last, tele, lost, snap, made, retried, phases>>

BudgetExceeded ==
  /\ pc = "attempt"
  /\ Left
  /\ Exceeded
  /\ Fails("budget")

(* The last error is raised when no attempt is left or it cannot be retried. *)
Answer(a) ==
  /\ pc = "called"
  /\ LET e == Complete(a)
     IN  /\ tele' = Append(tele, Record(e))
         /\ last' = e
         /\ pc' = IF e = NoError THEN "answered" ELSE IF e.again THEN "attempt" ELSE "failed"
  /\ UNCHANGED <<phase, step, suggested, budget, used, attempt, lost, snap, made, retried, phases>>

GiveUp ==
  /\ pc = "failed" \/ (pc = "attempt" /\ ~Left)
  /\ Fails(CauseOf(last))

(* An answer whose message is no object: the AttributeError passes every    *)
(* handler and the call leaves no record.                                   *)
OddAnswer ==
  /\ pc = "called"
  /\ Ends(FailedStatus, "execution", 1)

(* The node works on the answer.  The Reviewer may have proposed cases, and *)
(* then the Designer is asked again.                                        *)
NodeDone(proposes) ==
  /\ pc = "answered"
  /\ suggested' = (suggested \/ (Plan[step] = "reviewer" /\ proposes))
  /\ UNCHANGED phase
  /\ step + 1 \in DOMAIN Plan'
  /\ step' = step + 1
  /\ attempt' = 0
  /\ last' = NoError
  /\ pc' = "attempt"
  /\ UNCHANGED <<budget, used, tele, lost, snap, made, retried, phases>>

PhaseDone(status) ==
  /\ pc = "answered"
  /\ step = Len(Plan)
  /\ status \in IF phase = "nlu" THEN {"waiting"} ELSE {"ready", "gaps"}
  /\ Ends(status, "none", 0)

(* The node rejects the answer (unknown evidence, unknown test points ...),  *)
(* or what it does on its own fails, before its agent is called or after:    *)
(* the operation, the evidence or the document cannot be read.               *)
NodeFails(cause) ==
  /\ pc = "answered" \/ (pc = "attempt" /\ attempt = 0)
  /\ cause \in {"validation", "execution"}
  /\ Fails(cause)

-----------------------------------------------------------------------------
Work ==
  \/ Call \/ BudgetExceeded \/ GiveUp
  \/ \E a \in Replies : Answer(a)
  \/ OddAnswer
  \/ \E proposes \in BOOLEAN : NodeDone(proposes)
  \/ \E status \in {"waiting", "ready", "gaps"} : PhaseDone(status)
  \/ \E cause \in Causes : NodeFails(cause)

Next == StartNlu \/ StartDesign \/ RetryDesign \/ Work

Spec == Init /\ [][Next]_vars

(* A phase runs in a thread of its own; a request to the model ends within  *)
(* its timeout.                                                             *)
FairSpec == Spec /\ WF_vars(Work)

-----------------------------------------------------------------------------
(* Type invariant.                                                          *)
TypeOK ==
  /\ phase \in {"none", "nlu", "design"}
  /\ pc \in {"idle", "attempt", "called", "answered", "failed"}
  /\ step \in 1..3
  /\ suggested \in BOOLEAN
  /\ budget \in Budgets
  /\ used \in Nat
  /\ attempt \in 0..MaxAttempts
  /\ last \in Error
  /\ tele \in Seq(Metric)
  /\ lost \in 0..1
  /\ snap \in [status: {"none", "waiting", "designing", "ready", "gaps", "nlu_failed",
                        "design_failed"},
               cause: Causes \cup {"none"}, meta: [Stages -> Seq(Entry)]]
  /\ made \in Seq(Metric)
  /\ retried \in BOOLEAN
  /\ phases \in 0..MaxPhases

Failed == snap.status \in {"nlu_failed", "design_failed"}

(* Never more calls than the budget are made in a phase, and each one has   *)
(* its record unless it left by an unexpected exception; a phase fails for  *)
(* its budget only when every call of it has been made, and never when the  *)
(* budget covers every attempt of each of its agents, supplement included.  *)
BudgetIsKept ==
  /\ used <= budget
  /\ used = Len(tele) + lost + (IF pc = "called" THEN 1 ELSE 0)
  /\ snap.cause = "budget" =>
       /\ Len(tele) = budget
       /\ budget < MaxAttempts * (IF snap.status = "nlu_failed" THEN 1 ELSE 3)

AnsweredBy(k, calls) == {j \in 1..k : calls[j].ok}

(* The agents that have answered are those of the plan, in its order, each  *)
(* once; a call repairs only the answer right before it, of the same agent, *)
(* that was no JSON or another shape, and regenerates only an empty one.    *)
CallsFollowThePlan ==
  /\ phase # "none" =>
       /\ Cardinality(AnsweredBy(Len(tele), tele)) = IF pc = "answered" THEN step ELSE step - 1
       /\ \A k \in AnsweredBy(Len(tele), tele) : tele[k].stage = Plan[Cardinality(AnsweredBy(k, tele))]
  /\ \A k \in DOMAIN tele :
       /\ tele[k].attempt > 1 =>
            /\ k > 1
            /\ ~tele[k - 1].ok
            /\ tele[k - 1].stage = tele[k].stage
            /\ tele[k - 1].attempt = tele[k].attempt - 1
       /\ tele[k].mode = "repair" =>
            tele[k].attempt > 1 /\ tele[k - 1].cat \in {"non_json", "schema_validation"}
       /\ tele[k].mode = "regenerate" =>
            tele[k].attempt > 1 /\ tele[k - 1].cat = "empty_response"

(* Whether the model or the platform is at fault can be told from the calls *)
(* that a failed snapshot holds.  A cause of the provider's is that of the  *)
(* last call, which was the last attempt or could not be retried; what the  *)
(* metadata hold of it is what happened, also when they still hold calls of *)
(* an earlier design.  A cause of a node's own never follows a call that    *)
(* erred, but for the answer that left no record; a node may fail with no   *)
(* call made (service.py 105-121, 215-236: "to distinguish model retries    *)
(* from a failure before the graph started").                               *)
FailureIsExplained ==
  Failed /\ pc = "idle" =>
    LET end == tele[Len(tele)]
        erred == tele # <<>> /\ ~end.ok
        entry == snap.meta[end.stage][Len(OfStage(tele, end.stage))]
    IN  /\ lost = 1 => snap.cause = "execution"
        /\ snap.cause \in {"validation", "execution"} => ~erred \/ lost = 1
        /\ snap.cause \notin {"validation", "execution", "budget"} =>
             /\ erred
             /\ CauseOf(end) = snap.cause
             /\ end.attempt = MaxAttempts \/ end.cat \in {"http_4xx", "content_filter"}
             /\ entry.attempt = end.attempt /\ entry.mode = end.mode /\ entry.cat = end.cat

-----------------------------------------------------------------------------
(* What aggregate_telemetry reads in the calls of one stage.                *)

RetryCalls(calls) ==
  Cardinality({k \in DOMAIN calls : calls[k].attempt > 1 \/ calls[k].mode # "generate"})

Errors(calls) == Cardinality({k \in DOMAIN calls : ~calls[k].ok})

FirstPass(calls) ==
  \E k \in DOMAIN calls :
    /\ \A m \in DOMAIN calls : calls[k].attempt < calls[m].attempt \/
                                (calls[k].attempt = calls[m].attempt /\ k <= m)
    /\ calls[k].ok /\ calls[k].mode = "generate"

(* The last phase saved its snapshot when it ended.                         *)
Saved == snap.status \notin {"none", "designing"}

(* As long as no design was run again over its cached snapshot, the graders *)
(* read exactly the calls that were made in the phases that were saved: a   *)
(* stage has as many retries as errors, or one less when the run failed     *)
(* there, and passes at first if it never erred.  In a later run the calls  *)
(* of that run come first.                                                  *)
TelemetryIsKept ==
  pc = "idle" =>
    \A s \in Stages :
      LET calls == snap.meta[s]
          now == OfStage(tele, s)
          all == OfStage(made, s)
      IN  /\ Saved =>
               /\ Len(calls) >= Len(now)
               /\ \A k \in DOMAIN now : [calls[k] EXCEPT !.cat = now[k].cat] = EntryOf(now[k])
          /\ ~retried =>
               /\ Len(calls) = Len(all)
               /\ \A k \in DOMAIN calls : calls[k] = EntryOf(all[k])
               /\ Errors(calls) - RetryCalls(calls) \in IF Failed THEN {0, 1} ELSE {0}
               /\ calls # <<>> /\ Errors(calls) = 0 => FirstPass(calls)

(* A phase that starts ends, whatever the model answers.                    *)
PhaseEnds == phase # "none" ~> phase = "none"

(* The records of the calls are in the order of the plan, and they tell     *)
(* whether the model or the platform failed a phase.                        *)
CallsExplainTheOutcome == CallsFollowThePlan /\ FailureIsExplained

=============================================================================
