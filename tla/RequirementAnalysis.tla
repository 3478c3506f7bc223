------------------------ MODULE RequirementAnalysis ------------------------
(***************************************************************************)
(* The analysis of one API up to Human Gate #1: the graph of               *)
(* workflow/graph.py collects evidence and asks the NLU agent for a        *)
(* Requirement and its test points, and the rules of requirement_rules.py, *)
(* auth_rules.py and boundary_rules.py rewrite the answer.  A text is what *)
(* the rules look for in it: the parameters and the numbers it mentions,   *)
(* the credentials, the fixture tokens, and whether it leaves the outcome  *)
(* open.  Lists are sets: where the code takes the first that fits, the    *)
(* model takes any.  One table of the database is on the allowlist.        *)
(***************************************************************************)
EXTENDS Integers, Sequences

CONSTANTS Parameters,   \* names of the operation's parameters, in its order
          AgentIds,     \* ids the agent may give to a test point
          PathParams,   \* those its path template names
          NoBound,      \* a parameter without an exclusive lower bound
          Outputs,      \* answers of the NLU agent
          Projects,     \* settings of the project
          Declarations  \* what each source says of the token's prefix

Params == {Parameters[i] : i \in DOMAIN Parameters}

Sources == {"document", "contract", "source"}
Signals == {"bare", "prefixA", "prefixB", "mixed"}
Providers == {"openapi", "operation_yaml", "auth_fixture", "source_code", "database_schema"}
Fixtures == {"nonexistent", "expired"}
Facts == {"openapi", "operation_yaml", "source_code", "database_schema", "database_fixture",
          "auth_provider", "document"} \cup Fixtures
Kinds == Fixtures \cup {"none", "combined"}

\* A text: the parameters and the numbers it mentions.
Text == [names: SUBSET Params, numbers: SUBSET Int]
NoText == [names |-> {}, numbers |-> {}]

\* A token for a row of the database: any row that is there or any that is not
\* (existing, absent), or the row with the first valid value (present, missing).
NoToken == [row |-> "none", of |-> "none"]
Token == {NoToken} \cup [row: {"existing", "absent", "present", "missing"}, of: Params]

\* What may be cited: a fact, or something no evidence bundle has.
Reference == Facts \cup {"unknown"}

\* The ids of the points made here are digests of a parameter and a value.
PointId == AgentIds \cup (Params \X Int)

TestPoint ==
  [id: PointId, category: {"positive", "negative", "boundary", "contract"},
   source: {"requirement", "evidence", "reviewer"},
   title: Text, action: Text, result: Text, open: BOOLEAN, token: Token,
   auth: Kinds, fixtures: SUBSET Fixtures, rejected: BOOLEAN, invented: BOOLEAN,
   evidence: SUBSET Reference]

\* atMost are the parameters for which it tells what happens at or below the
\* bound; it rejects an expired or nonexistent token with a 401.
Behavior == [text: Text, open: BOOLEAN, atMost: SUBSET Params, rejects: BOOLEAN]

\* One of the agent's own is of <<"expired">> if it speaks of an expired ... fixture.
Question == [about: {"own", "reference", "fixture", "prefix", "conflict", "row"},
             of: {<<>>} \cup {<<k>> : k \in Kinds} \cup PointId]

RequirementDocument ==
  [cites: SUBSET Reference, bound: [Params -> Int \cup {NoBound}], behaviors: SUBSET Behavior,
   both: BOOLEAN, invented: BOOLEAN, questions: SUBSET Question,
   confidence: {"confirmed", "inferred", "question"}]

Settings == [yaml: BOOLEAN, auth: BOOLEAN, expired: BOOLEAN, credential: BOOLEAN,
             workspace: BOOLEAN, database: BOOLEAN, allowlist: BOOLEAN, columns: SUBSET Params]
AuthProtocol == [status: {"unknown", "explicit", "conflict"},
                 prefix: {"none", "prefixA", "prefixB"}, noted: BOOLEAN]

ASSUME AnalysisAssumption ==
  /\ Parameters \in Seq(Params)
  /\ PathParams \subseteq Params
  /\ NoBound \notin Int
  /\ Outputs \subseteq [requirement: RequirementDocument, points: SUBSET TestPoint]
  /\ Projects \subseteq Settings
  /\ Declarations \subseteq [Sources -> SUBSET Signals]

VARIABLES node,        \* the node, or the rule of the last node, that is next
          project,     \* settings as stored now
          input,       \* whether a document was given, optional evidence asked
          says,        \* what the sources declare
          facts,       \* the evidence bundle
          output,      \* the agent's answer, as it came
          requirement,
          points,
          protocol,    \* the authentication protocol
          at           \* where the running loop over the parameters is

analysisVars == <<node, project, input, says, facts, output, requirement, points, protocol, at>>

NoRequirement == [cites |-> {}, bound |-> [p \in Params |-> NoBound], behaviors |-> {},
                  both |-> FALSE, invented |-> FALSE, questions |-> {}, confidence |-> "confirmed"]
NoOutput == [requirement |-> NoRequirement, points |-> {}]
NoProtocol == [status |-> "unknown", prefix |-> "none", noted |-> FALSE]

AnalysisInit ==
  /\ node = "parse"
  /\ project \in Projects
  /\ input \in [document : BOOLEAN, optional : BOOLEAN]
  /\ says \in Declarations
  /\ facts = {}
  /\ output = NoOutput /\ requirement = NoRequirement
  /\ points = {}
  /\ protocol = NoProtocol
  /\ at = 1

-----------------------------------------------------------------------------
(* Document and evidence.                                                   *)

\* The operation is in the catalog, or the analysis ends.
ParseDocument ==
  /\ node = "parse"
  /\ node' \in {"retrieve", "failed"}
  /\ UNCHANGED <<project, input, says, facts, output, requirement, points, protocol, at>>

Healthy(provider) ==
  CASE provider = "openapi" -> TRUE
    [] provider = "operation_yaml" -> project.yaml
    [] provider = "auth_fixture" -> project.auth
    [] provider = "source_code" -> project.workspace
    [] OTHER -> project.database /\ project.allowlist

Consulted(provider) ==
  \/ provider \in {"openapi", "operation_yaml", "auth_fixture"}
  \/ provider = "database_schema" /\ project.database
  \/ input.optional

FactsOf(provider) ==
  CASE provider = "auth_fixture" ->
         {"nonexistent"} \cup {f \in {"expired"} : project.expired}
                         \cup {f \in {"auth_provider"} : project.credential}
    [] provider = "database_schema" ->
         {"database_schema"} \cup {f \in {"database_fixture"} : project.columns # {}}
    [] OTHER -> {provider}

\* The snapshot: what the providers read give, and the document.
Collected(read) == (UNION {FactsOf(x) : x \in read}) \cup {f \in {"document"} : input.document}

\* The sources of one rank that declare anything, and how a declaration reads.
Rank(source) == CASE source = "document" -> 0 [] source = "contract" -> 1 [] OTHER -> 2
PrefixOf(signal) == IF signal \in {"bare", "mixed"} THEN "none" ELSE signal

\* The protocol of the highest source that declares one; silence declares none.
ExtractProtocol(present) ==
  LET speaking == {s \in present : says[s] # {}}
      first == CHOOSE s \in speaking : \A t \in speaking : Rank(s) <= Rank(t)
      prefixes == {PrefixOf(d) : d \in says[first]}
      selected == CHOOSE x \in prefixes : TRUE
  IN IF speaking = {} THEN NoProtocol
     ELSE IF (\E x, y \in prefixes : x # y) \/ "mixed" \in says[first]
     THEN [status |-> "conflict", prefix |-> "none", noted |-> TRUE]
     ELSE [status |-> "explicit", prefix |-> selected,
           noted |-> \E s \in speaking \ {first} : \E d \in says[s] : PrefixOf(d) # selected]

\* Providers that read files or the database may raise; the others go on.
RetrieveEvidence ==
  /\ node = "retrieve"
  /\ \E broken \in SUBSET {"source_code", "database_schema"} :
       LET read == {x \in Providers \ broken : Healthy(x) /\ Consulted(x)} IN
       /\ facts' = Collected(read)
       /\ protocol' = ExtractProtocol({"contract"} \cup {s \in {"document"} : input.document}
                                                   \cup {s \in {"source"} : "source_code" \in read})
  /\ node' = "ask"
  /\ UNCHANGED <<project, input, says, output, requirement, points, at>>

\* The project is saved while the model is at work.
SaveSettings ==
  /\ node = "ask"
  /\ \E enabled \in BOOLEAN : project' = [project EXCEPT !.database = enabled]
  /\ UNCHANGED <<node, input, says, facts, output, requirement, points, protocol, at>>

-----------------------------------------------------------------------------
(* The answer of the agent, bound to the snapshot of evidence.              *)

Ask(about, of) == [about |-> about, of |-> of]

\* A reference the bundle does not know is dropped, and asked about.
NluAgent ==
  /\ node = "ask"
  /\ \E answer \in Outputs :
       /\ output' = answer
       /\ points' = answer.points
       /\ requirement' = [answer.requirement EXCEPT
            !.cites = @ \cap facts,
            !.questions = @ \cup {q \in {Ask("reference", <<>>)} :
                                     ~(answer.requirement.cites \subseteq facts)}]
  /\ node' = "auth"
  /\ UNCHANGED <<project, input, says, facts, protocol, at>>

AgentFails ==
  /\ node = "ask"
  /\ node' = "failed"
  /\ UNCHANGED <<project, input, says, facts, output, requirement, points, protocol, at>>

-----------------------------------------------------------------------------
(* Authentication: wording, rejected credentials and their fixtures.        *)

\* What a text calls the credential, whose fixture token overrides all but
\* the wording for both kinds at once.
FixtureKind(x) ==
  IF x.category # "negative" THEN "none"
  ELSE IF x.auth = "combined" THEN "combined"
  ELSE IF "nonexistent" \in x.fixtures THEN "nonexistent"
  ELSE IF "expired" \in x.fixtures THEN "expired"
  ELSE x.auth

Rewords == protocol.status # "explicit" \/ protocol.prefix = "none"

\* The fixture that stands for any rejected token.
AnyFixture == IF "nonexistent" \in facts THEN {"nonexistent"} ELSE facts \cap {"expired"}
FixtureFor(kind) == IF kind = "combined" THEN AnyFixture ELSE facts \cap {kind}

Rejections(ps) == {x \in ps : FixtureKind(x) \in Fixtures}

\* Points about rejected tokens become one if all of them expect a 401.
MergeRejections(ps) ==
  LET candidates == Rejections(ps)
      rest == {x \in ps : \A y \in candidates : x.id # y.id}
      AsOne(x) == [x EXCEPT !.auth = "combined",
                            !.title = NoText, !.result = NoText,
                            !.action = IF AnyFixture = {} THEN @ ELSE NoText,
                            !.token = IF AnyFixture = {} THEN @ ELSE NoToken,
                            !.fixtures = IF AnyFixture = {} THEN @ ELSE AnyFixture,
                            !.evidence = AnyFixture \cup UNION {y.evidence : y \in candidates}]
  IN IF (\A x, y \in candidates : x = y) \/ \E x \in candidates : ~x.rejected THEN {ps}
     ELSE {rest \cup {AsOne(x)} : x \in candidates}

\* Mutant of Canonical: points keep the kind their own words have.
AsWorded(x) == x

\* If the Requirement treats both kinds alike, so do the points.
Canonical(x) ==
  IF requirement.both /\ FixtureKind(x) # "none" /\ x.rejected
  THEN [x EXCEPT !.auth = "combined", !.title = NoText, !.result = NoText]
  ELSE x

BindFixture(x) ==
  LET f == IF FixtureKind(x) = "none" THEN {} ELSE FixtureFor(FixtureKind(x))
  IN [x EXCEPT !.fixtures = @ \cup f, !.evidence = @ \cup f]

NeededFixtures(ps) == {FixtureKind(x) : x \in ps} \ {"none"}

\* What the sentences on rejected tokens become when both kinds are treated alike.
CombinedBehavior == [text |-> NoText, open |-> FALSE, atMost |-> {}, rejects |-> TRUE]

Collapsed(behaviors) ==
  IF requirement.both THEN {b \in behaviors : ~b.rejects} \cup {CombinedBehavior} ELSE behaviors

\* Questions on expired tokens and fixtures, the agent's own too, are taken as
\* answered when any fixture stands for both kinds.
Settled ==
  IF requirement.both /\ AnyFixture # {}
  THEN {Ask("fixture", <<k>>) : k \in {"expired", "combined"}} \cup {Ask("own", <<"expired">>)}
  ELSE {}

NormalizeAuthProtocol ==
  /\ node = "auth"
  /\ LET reworded == Rewords /\ (requirement.invented \/ \E x \in points : x.invented)
         worded == {[x EXCEPT !.invented = @ /\ ~Rewords] : x \in points}
     IN \E merged \in MergeRejections(worded) :
          LET canonical == {Canonical(x) : x \in merged}
              kinds == NeededFixtures(canonical)
              missing == {Ask("fixture", <<k>>) : k \in {n \in kinds : FixtureFor(n) = {}}}
              questions == ((requirement.questions \cup missing) \ Settled)
                              \cup {q \in {Ask("prefix", <<>>)} : reworded}
                              \cup {q \in {Ask("conflict", <<>>)} : protocol.noted}
          IN /\ points' = {BindFixture(x) : x \in canonical}
             /\ requirement' = [requirement EXCEPT
                  !.invented = @ /\ ~Rewords,
                  !.cites = @ \cup UNION {FixtureFor(k) : k \in kinds},
                  !.behaviors = Collapsed(@),
                  !.questions = questions,
                  !.confidence = IF questions # {} /\ @ = "confirmed" THEN "question" ELSE @]
  /\ node' = "require"
  /\ UNCHANGED <<project, input, says, facts, output, protocol, at>>

\* A Requirement that cites what is not in the bundle ends the analysis.
RequireRequirement ==
  /\ node = "require"
  /\ node' = IF requirement.cites \subseteq facts THEN "points" ELSE "failed"
  /\ UNCHANGED <<project, input, says, facts, output, requirement, points, protocol, at>>

\* Mutant of NormalizeTestPoints: only what cites nothing at all is looked at.
KeepUnknownEvidence ==
  /\ node = "points"
  /\ points' = {[x EXCEPT !.evidence =
                   IF @ = {} /\ x.source = "requirement" THEN facts \cap {"document"}
                   ELSE @] : x \in points}
  /\ at' = 1
  /\ node' = "complete"
  /\ UNCHANGED <<project, input, says, facts, output, requirement, protocol>>

\* What a point cites and the bundle does not know goes, and nobody asks.  A
\* point of the Requirement that is left without any cites the document.
NormalizeTestPoints ==
  /\ node = "points"
  /\ points' = {[x EXCEPT !.evidence =
                   IF @ \cap facts = {} /\ x.source = "requirement" THEN facts \cap {"document"}
                   ELSE @ \cap facts] : x \in points}
  /\ at' = 1
  /\ node' = "complete"
  /\ UNCHANGED <<project, input, says, facts, output, requirement, protocol>>

-----------------------------------------------------------------------------
(* Numeric boundaries.                                                      *)

\* The pattern for a value looks at digits only: 1 is found in -1.
Shows(numbers, value) == value \in numbers \/ (value > 0 /\ -value \in numbers)

Names(x) == x.title.names \cup x.action.names \cup x.result.names
Numbers(x) == x.title.numbers \cup x.action.numbers \cup x.result.numbers
Represents(x, p, value) == p \in Names(x) /\ Shows(Numbers(x), value)

\* Sentences that tell what happens at or below the bound of p.
FailureBehaviors(p) == {b \in requirement.behaviors : p \in b.atMost}
Bounded(p) == requirement.bound[p] # NoBound

\* Evidence of a point made here: the document, or else all that is cited.
CitedDocument ==
  IF "document" \in requirement.cites THEN {"document"} ELSE requirement.cites

BoundaryPoint(p, value, b) ==
  [id |-> <<p, value>>, category |-> "boundary", source |-> "requirement",
   title |-> [names |-> {p}, numbers |-> {value}],
   action |-> [names |-> {p} \cup PathParams, numbers |-> {value}],
   result |-> b.text, open |-> b.open, token |-> NoToken,
   auth |-> "none", fixtures |-> {}, rejected |-> FALSE, invented |-> FALSE,
   evidence |-> CitedDocument]

\* ps with a point for the value, unless one mentions it.
WithRepresentative(ps, p, value, b) ==
  IF \E x \in ps : Represents(x, p, value) THEN ps ELSE ps \cup {BoundaryPoint(p, value, b)}

\* The parameter the loop is at.
Looping == at <= Len(Parameters)

CompleteBoundaryPoints ==
  /\ node = "complete" /\ Looping
  /\ at' = at + 1
  /\ LET p == Parameters[at] IN
       IF Bounded(p) /\ FailureBehaviors(p) # {}
       THEN \E b \in FailureBehaviors(p) :
              points' = WithRepresentative(
                          WithRepresentative(points, p, requirement.bound[p], b),
                          p, requirement.bound[p] - 1, b)
       ELSE UNCHANGED points
  /\ UNCHANGED <<node, project, input, says, facts, output, requirement, protocol>>

BoundariesCompleted ==
  /\ node = "complete" /\ ~Looping
  /\ node' = "resolve" /\ at' = 1
  /\ UNCHANGED <<project, input, says, facts, output, requirement, points, protocol>>

\* A boundary point about the first valid value whose outcome is left open.
Ambiguous(x, p) ==
  /\ x.category = "boundary" /\ x.open
  /\ x.token = NoToken
  /\ Bounded(p) /\ Represents(x, p, requirement.bound[p] + 1)

HasFixture(p) ==
  project.database /\ "database_fixture" \in requirement.cites \cap facts /\ p \in project.columns

\* Mutant of Withdraw: the question is forgotten.
WithdrawQuietly(x) == points' = points \ {x} /\ UNCHANGED requirement

\* No fixture, or the database cannot be read: the point goes, a question stays.
Withdraw(x) ==
  /\ points' = points \ {x}
  /\ requirement' = [requirement EXCEPT !.questions = @ \cup {Ask("row", x.id)}]

\* The token of any row that is there, or of none.
Usual(row, p) == [row |-> IF row = "present" THEN "existing" ELSE "absent", of |-> p]

\* A sentence that leaves the outcome at the first valid value open.
LeftOpen(b, p) ==
  b.open /\ p \in b.text.names /\ Shows(b.text.numbers, requirement.bound[p] + 1)

\* The row is there or not: the point takes the outcome of its counterpart.
Classify(x, p, row) ==
  LET exact == requirement.bound[p] + 1
      counterparts == {y \in points \ {x} : y.token = Usual(row, p)}
  IN \E y \in IF counterparts = {} THEN {x} ELSE counterparts :
       /\ points' = (points \ {x}) \cup
            {[x EXCEPT !.token = [row |-> row, of |-> p],
                       !.action = [names |-> {p}, numbers |-> {exact}],
                       !.result = y.result, !.open = y.open,
                       !.evidence = @ \cup {"database_fixture"}]}
       /\ requirement' = [requirement EXCEPT !.behaviors =
            {b \in @ : ~LeftOpen(b, p)}
              \cup {[text |-> [names |-> {p} \cup y.result.names,
                               numbers |-> {exact} \cup y.result.numbers],
                     open |-> y.open, atMost |-> {}, rejects |-> FALSE]}]

ResolveBoundaryFixture ==
  /\ node = "resolve" /\ Looping
  /\ LET p == Parameters[at]
         open == {x \in points : Ambiguous(x, p)} IN
       IF open = {} THEN at' = at + 1 /\ UNCHANGED <<points, requirement>>
       ELSE /\ \E x \in open :
                 \/ Withdraw(x)
                 \/ HasFixture(p) /\ \E row \in {"present", "missing"} : Classify(x, p, row)
            /\ UNCHANGED at
  /\ UNCHANGED <<node, project, input, says, facts, output, protocol>>

WaitForApproval ==
  /\ node = "resolve" /\ ~Looping
  /\ node' = "waiting"
  /\ UNCHANGED <<project, input, says, facts, output, requirement, points, protocol, at>>

-----------------------------------------------------------------------------
AnalysisNext ==
  \/ ParseDocument \/ RetrieveEvidence \/ SaveSettings
  \/ NluAgent \/ AgentFails
  \/ NormalizeAuthProtocol \/ RequireRequirement \/ NormalizeTestPoints
  \/ CompleteBoundaryPoints \/ BoundariesCompleted
  \/ ResolveBoundaryFixture \/ WaitForApproval

AnalysisSpec == AnalysisInit /\ [][AnalysisNext]_analysisVars

-----------------------------------------------------------------------------
\* The answer is bound to the snapshot of evidence; its points are so later.
Answered == {"auth", "require", "points", "complete", "resolve", "waiting"}
Bound == {"complete", "resolve", "waiting"}

\* The type of the state.  Once the rules have bound the answer to the snapshot,
\* the Requirement and its points cite facts of the snapshot only
\* (_normalize_requirement, _normalize_test_points and the rules after them).
AnalysisTypeOK ==
  /\ node \in {"parse", "retrieve", "ask", "failed"} \cup Answered
  /\ project \in Settings
  /\ input \in [document: BOOLEAN, optional: BOOLEAN]
  /\ says \in [Sources -> SUBSET Signals]
  /\ facts \subseteq Facts
  /\ output \in [requirement: RequirementDocument, points: SUBSET TestPoint]
  /\ requirement \in RequirementDocument
  /\ points \subseteq TestPoint
  /\ protocol \in AuthProtocol
  /\ at \in 1..(Len(Parameters) + 1)
  /\ node \in Answered => requirement.cites \subseteq facts
  /\ node \in Bound => \A x \in points : x.evidence \subseteq facts

Asked(about, of) == Ask(about, of) \in requirement.questions

\* The agent may give an id twice; a merge then takes both points (auth_rules.py
\* 352-353), which the next property leaves aside.
DistinctIds == \A x, y \in output.points : x.id = y.id => x = y

\* A point of the agent is still there, or in one about rejected tokens; what it
\* cited and the bundle knows comes with it.
StandsIn(x, y) ==
  /\ x.evidence \cap facts \subseteq y.evidence
  /\ y.id = x.id \/ (FixtureKind(x) \in Fixtures /\ FixtureKind(y) # "none")

PointsTraced ==
  DistinctIds => \A x \in output.points :
    Asked("row", x.id) \/ \E y \in points : StandsIn(x, y)

ReferencesTraced ==
  /\ output.requirement.cites \subseteq facts \/ Asked("reference", <<>>)
  /\ output.requirement.cites \cap facts \subseteq requirement.cites

PrefixTraced ==
  Rewords =>
    /\ ~requirement.invented /\ \A x \in points : ~x.invented
    /\ output.requirement.invented \/ (\E x \in output.points : x.invented)
         => Asked("prefix", <<>>)

\* Only questions on fixtures for expired tokens are gone, and only when some
\* fixture stands for both kinds of rejected tokens.
QuestionsTraced == output.requirement.questions \subseteq requirement.questions \cup Settled

\* Classified by the row that is there or not.
Classified(x, p) == x.token.row \in {"present", "missing"} /\ x.token.of = p

\* A sentence is gone only if it was on rejected tokens, or left open what a
\* point now decides.
BehaviorsTraced ==
  \A b \in output.requirement.behaviors :
    \/ b \in requirement.behaviors
    \/ requirement.both /\ b.rejects
    \/ \E p \in Params : Bounded(p) /\ LeftOpen(b, p) /\ \E x \in points : Classified(x, p)

\* What the rules take out of the agent's answer before the user is asked to
\* approve leaves its trace: points, questions and sentences of the Requirement,
\* its references, and a prefix of the token that the evidence does not bear
\* out.  The rules do not ask about all of it: not about the sentences and the
\* questions that they take as settled, nor about what a point cites that no
\* bundle has (requirement_rules.py 206-210), in spite of "a missing fact becomes
\* an unresolved question" (migration-plan.md 81-83).
AnswerIsTraced ==
  node = "waiting" =>
    PointsTraced /\ ReferencesTraced /\ PrefixTraced /\ QuestionsTraced /\ BehaviorsTraced

\* A point about a rejected token has a fixture that it and the Requirement
\* cite, or a question asks for one.
RejectionsHaveFixtures ==
  \A x \in points : FixtureKind(x) # "none" /\ x.rejected =>
    \/ x.fixtures \cap x.evidence \cap requirement.cites # {}
    \/ Asked("fixture", <<FixtureKind(x)>>)

\* No point about the first valid value of p leaves its outcome open.
Decided(p) == Bounded(p) => \A x \in points : ~Ambiguous(x, p)

\* Classified here: the agent gave the point no token of its own.
Resolved(x, p) ==
  /\ Classified(x, p)
  /\ \A y \in output.points : y.id = x.id => y.token = NoToken

\* It expects what a point about such a row expects, if there is one.
ExpectsTheUsual ==
  \A p \in Params : \A x \in points :
    LET alike == {y \in points : y.token = Usual(x.token.row, p)}
    IN Resolved(x, p) /\ alike # {} => \E y \in alike : x.result = y.result /\ x.open = y.open

\* Every point that waits for approval can be designed, however the rules
\* merged, renamed and settled points and questions about rejected tokens, and
\* in whatever order they decided the points about a first valid value.
PointsCanBeDesigned ==
  node = "waiting" =>
    /\ RejectionsHaveFixtures
    /\ \A p \in Params : Decided(p)
    /\ ExpectsTheUsual

\* "Deterministically preserve explicit numeric equivalence partitions"
\* (boundary_rules.py 19).  Not so: 1 is found in -1 (line 290), and so the point
\* just made for the value below the bound 0 counts as one about the first
\* valid value; it is withdrawn or resolved if the sentence leaves it open.
PartitionsAreKept ==
  node = "waiting" =>
    \A p \in Params : Bounded(p) /\ FailureBehaviors(p) # {} =>
      \A v \in {requirement.bound[p] - 1, requirement.bound[p]} : \E x \in points : Represents(x, p, v)

\* A Requirement with questions is not confirmed (auth_rules.py 245-246).  Not
\* so: questions about rows come after that rule.
ConfirmedHasNoQuestions ==
  node = "waiting" /\ requirement.questions # {} => requirement.confidence # "confirmed"
=============================================================================
