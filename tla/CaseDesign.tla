----------------------------- MODULE CaseDesign -----------------------------
(***************************************************************************)
(* The design of the test cases of one API, after its Requirement was      *)
(* approved (workflow/design_nodes.py with the rules of case_rules.py and  *)
(* graph_rules.py): Designer, Reviewer, at most one supplement by the      *)
(* Designer, a local check of what the supplement closed, and the assembly *)
(* of the Final Cases.  Each loop over cases is taken a case at a step.    *)
(*                                                                         *)
(* The models are the environment: they may answer anything their response *)
(* schemas let through.  A case is what the rules look at: its id, the     *)
(* test points it claims, its request, its assertions.  The rules that     *)
(* rewrite an answer text by text before it is judged (inherited evidence, *)
(* calibrated lengths, basic assertions, redacted credentials, schema      *)
(* checks nobody asked for) turn one answer into another: Pool is what     *)
(* they leave.                                                             *)
(***************************************************************************)
EXTENDS Naturals, FiniteSets, Sequences

CONSTANTS
  Points,        \* the approved test points
  Pool,          \* cases a Designer may answer with
  Specs,         \* case specifications a Reviewer may ask for
  Bindings,      \* requests that database fixtures can resolve to
  Remarks,       \* free-text findings of a Reviewer
  AuthRef,       \* does the project name an explicit credential?
  MaxAnswer,     \* cases in one answer of the Designer (1000 in the code)
  MaxSpecs,      \* specifications in a review (5)
  MaxGaps,       \* remaining_gaps of a FinalCaseSet (500)
  MayFail        \* may a provider or the fixture database fail?

CaseIds == {c.id : c \in Pool}
PointIds == UNION {c.points : c \in Pool}
Requests == {c.req : c \in Pool} \cup Bindings
Assertions == UNION {c.asserts : c \in Pool}
Evidence == UNION {c.evidence : c \in Pool}

Case == [
  id : CaseIds,
  points : SUBSET PointIds,
  req : Requests,                  \* all of it but the Authorization header
  auth : BOOLEAN,                  \* such a header, with a placeholder for a token?
  side : BOOLEAN,                  \* marked side-effecting?
  asserts : SUBSET Assertions,     \* of [id, check]: check is all but the evidence
  order : {c.order : c \in Pool},  \* in which the assertions are listed
  evidence : SUBSET Evidence,      \* of the case; its assertions name no other
  contract : BOOLEAN,              \* its category
  sound : BOOLEAN,                 \* does it keep the rules that Valid leaves out?
  fixture : BOOLEAN]               \* does its request name a database row?

ASSUME DesignAssumption ==
  /\ Pool \subseteq Case /\ IsFiniteSet(Specs)
  /\ \A c \in Pool : c.asserts # {}
  /\ MaxAnswer \in Nat /\ MaxSpecs \in Nat /\ MaxGaps \in Nat
  /\ AuthRef \in BOOLEAN /\ MayFail \in BOOLEAN

VARIABLES
  pc,          \* the node that runs
  todo,        \* the cases of its answer that a node has not looked at
  held,        \* the draft's contract cases; then the new supplements, valid or not
  draft,       \* draft_cases
  review,      \* reviewer_output
  supplement,  \* supplemental_cases
  gaps,        \* notes, then remaining_gaps: pairs of a kind and an id
  next,        \* the case the assembler looks at
  final,       \* the Final Cases; their order does not matter
  added,       \* added_case_ids
  seen         \* seen_semantics

vars == <<pc, todo, held, draft, review, supplement, gaps, next, final, added, seen>>

-----------------------------------------------------------------------------
(* Rules on cases.                                                         *)

Elements(cases) == {cases[i] : i \in 1..Len(cases)}
PointsOf(cases) == UNION {c.points : c \in cases}
ChecksOf(c) == {a.check : a \in c.asserts}

Valid(c) ==
  /\ c.sound
  /\ c.points # {} /\ c.points \subseteq Points
  /\ \A a, b \in c.asserts : a.id = b.id => a = b

Unresolved(c) == c.auth /\ ~AuthRef

\* The checks of a case with the number of assertions that make each.
CheckBag(c) == [k \in ChecksOf(c) |-> Cardinality({a \in c.asserts : a.check = k})]
\* What makes two cases one to the reader of a report...
SemanticKey(c) == <<c.points, c.req, c.auth, CheckBag(c), c.order>>
\* ... and what makes them one to the target.
ExecutionKey(c) == <<c.req, c.auth, c.side, CheckBag(c)>>

SameRequest(c, d) == c.req = d.req /\ c.auth = d.auth

\* A contract case that sends what another case sends becomes assertions of it.
Fold(target, contract) ==
  [target EXCEPT
     !.points = @ \cup contract.points,
     !.evidence = @ \cup contract.evidence,
     !.asserts = @ \cup {CHOOSE a \in contract.asserts : a.check = k :
                           k \in ChecksOf(contract) \ ChecksOf(target)}]

\* Is a specification still open, given the cases at hand?
IsOpen(spec, cases) ==
  LET candidates == {c \in cases : c.points \cap spec.points # {}}
  IN  \/ ~(spec.points \subseteq PointsOf(candidates))
      \/ ~(spec.evidence \subseteq UNION {c.evidence : c \in candidates})
      \/ ~(spec.checks \subseteq UNION {ChecksOf(c) : c \in candidates})

KnownId(cases, c) == \E d \in cases : d.id = c.id
Twin(cases, c) == \E d \in cases : SemanticKey(d) = SemanticKey(c)

Answers == UNION {[1..n -> Pool] : n \in 0..MaxAnswer}
NoReview == [invalid |-> {}, unsupported |-> {}, missing |-> {}, specs |-> {}]
Note(kind, c) == {<<kind, c.id>>}
If(condition, note) == IF condition THEN {<<note, "all">>} ELSE {}

-----------------------------------------------------------------------------
(* Designer, Reviewer, supplement.                                         *)

Init ==
  /\ pc = "designer" /\ todo = <<>> /\ held = <<>>
  /\ draft = <<>> /\ supplement = <<>> /\ review = NoReview
  /\ gaps = {} /\ next = 1 /\ final = {} /\ added = {} /\ seen = {}

SameFinal == UNCHANGED <<next, final, added, seen>>
Idle == todo = <<>> /\ (pc = "draft" => held = <<>>)

\* A provider error, or an answer its response schema refuses, ends the run.
Fail ==
  /\ MayFail /\ Idle /\ pc \in {"designer", "draft", "supplement"}
  /\ pc' = "failed"
  /\ UNCHANGED <<todo, held, draft, review, supplement, gaps>> /\ SameFinal

Designer ==
  /\ pc = "designer" /\ pc' = "draft"
  /\ todo' \in Answers
  /\ UNCHANGED <<held, draft, review, supplement, gaps>> /\ SameFinal

DraftCase ==
  /\ pc = "draft" /\ todo # <<>>
  /\ todo' = Tail(todo)
  /\ LET c == Head(todo) IN
       \/ /\ ~Valid(c)
          /\ gaps' = gaps \cup Note("invalid", c)
          /\ UNCHANGED <<held, draft>>
       \/ /\ Valid(c) /\ c.contract
          /\ held' = Append(held, c)
          /\ UNCHANGED <<draft, gaps>>
       \/ /\ Valid(c) /\ ~c.contract
          /\ draft' = Append(draft, c)
          /\ UNCHANGED <<held, gaps>>
  /\ UNCHANGED <<pc, review, supplement>> /\ SameFinal

\* The first case with the request of a contract case takes its assertions.
FoldContract ==
  /\ pc = "draft" /\ todo = <<>> /\ held # <<>>
  /\ held' = Tail(held)
  /\ LET c == Head(held) IN
       \/ /\ \A i \in 1..Len(draft) : ~SameRequest(draft[i], c)
          /\ draft' = Append(draft, c)
       \/ \E i \in 1..Len(draft) :
            /\ SameRequest(draft[i], c)
            /\ \A j \in 1..(i - 1) : ~SameRequest(draft[j], c)
            /\ draft' = [draft EXCEPT ![i] = Fold(draft[i], c)]
  /\ UNCHANGED <<pc, todo, review, supplement, gaps>> /\ SameFinal

Review == [invalid : SUBSET CaseIds, unsupported : SUBSET {a.id : a \in Assertions},
           missing : SUBSET (Points \cup PointsOf(Specs)), specs : SUBSET Specs]

\* A review that names unknown points (or evidence: alike), or two
\* specifications by one id, raises.
Acceptable(r) ==
  /\ r.missing \cup PointsOf(r.specs) \subseteq Points
  /\ \A s, t \in r.specs : s.id = t.id => s = t

Reviewer ==
  /\ pc = "draft" /\ Idle
  /\ \E r \in Review, remarks \in SUBSET Remarks :
       /\ Cardinality(r.specs) <= MaxSpecs
       /\ \/ /\ Acceptable(r)
             /\ review' = r
             /\ gaps' = gaps \cup {<<"remark", m>> : m \in remarks}
             /\ pc' = IF r.specs = {} THEN "assemble" ELSE "supplement"
          \/ ~Acceptable(r) /\ pc' = "failed" /\ UNCHANGED <<review, gaps>>
  /\ UNCHANGED <<todo, held, draft, supplement>> /\ SameFinal

\* A supplement longer than the list of specifications is cut.
Supplement ==
  /\ pc = "supplement" /\ pc' = "extend"
  /\ \E answer \in Answers :
       LET limit == Cardinality(review.specs)
           many == Len(answer) > limit
       IN  /\ todo' = IF many THEN SubSeq(answer, 1, limit) ELSE answer
           /\ gaps' = gaps \cup If(many, "too many")
  /\ UNCHANGED <<held, draft, review, supplement>> /\ SameFinal

\* Mutant of SupplementCase: a supplement is compared with the other
\* supplements only.
SupplementCaseAlone ==
  /\ pc = "extend" /\ todo # <<>>
  /\ todo' = Tail(todo)
  /\ LET c == Head(todo)
         new == ~KnownId(Elements(held), c) /\ ~Twin(Elements(held), c)
     IN \/ /\ ~new
           /\ gaps' = gaps \cup Note("repeated", c)
           /\ UNCHANGED <<held, supplement>>
        \/ /\ new /\ held' = Append(held, c)
           /\ \/ Valid(c) /\ supplement' = Append(supplement, c) /\ UNCHANGED gaps
              \/ ~Valid(c) /\ gaps' = gaps \cup Note("invalid", c) /\ UNCHANGED supplement
  /\ UNCHANGED <<pc, draft, review>> /\ SameFinal

\* A case is compared with all before it, and only then judged itself: one
\* that is not valid still keeps out those that repeat it.
SupplementCase ==
  /\ pc = "extend" /\ todo # <<>>
  /\ todo' = Tail(todo)
  /\ LET c == Head(todo)
         before == Elements(draft) \cup Elements(held)
         new == ~KnownId(before, c) /\ ~Twin(before, c)
     IN \/ /\ ~new
           /\ gaps' = gaps \cup Note("repeated", c)
           /\ UNCHANGED <<held, supplement>>
        \/ /\ new /\ held' = Append(held, c)
           /\ \/ Valid(c) /\ supplement' = Append(supplement, c) /\ UNCHANGED gaps
              \/ ~Valid(c) /\ gaps' = gaps \cup Note("invalid", c) /\ UNCHANGED supplement
  /\ UNCHANGED <<pc, draft, review>> /\ SameFinal

\* Mutant of LocalValidator: a specification counts as closed once the
\* Designer has answered something.
LocalValidatorTrusting ==
  /\ pc = "extend" /\ todo = <<>> /\ pc' = "assemble"
  /\ LET cases == Elements(draft) \cup Elements(supplement)
         open == {s \in review.specs : supplement = <<>> /\ IsOpen(s, cases)}
     IN  /\ gaps' = gaps \cup {<<"open", s.id>> : s \in open}
         /\ review' = [review EXCEPT !.missing = (@ \ PointsOf(cases)) \cup PointsOf(open)]
  /\ UNCHANGED <<todo, held, draft, supplement>> /\ SameFinal

\* The specifications that are still open become gaps; none is asked again:
\* the code empties suggested_case_specs, which stays here for the properties.
LocalValidator ==
  /\ pc = "extend" /\ todo = <<>> /\ pc' = "assemble"
  /\ LET cases == Elements(draft) \cup Elements(supplement)
         open == {s \in review.specs : IsOpen(s, cases)}
     IN  /\ gaps' = gaps \cup {<<"open", s.id>> : s \in open}
              \cup If(~(PointsOf(review.specs) \subseteq
                        PointsOf(Elements(draft) \cup Elements(held))), "targets")
         /\ review' = [review EXCEPT !.missing = (@ \ PointsOf(cases)) \cup PointsOf(open)]
  /\ UNCHANGED <<todo, held, draft, supplement>> /\ SameFinal

-----------------------------------------------------------------------------
(* The assembler: its loop body is DropInvalid, Drop, Duplicate, Merge or  *)
(* Keep.                                                                   *)

All == draft \o supplement
Current == All[next]
Looking == pc = "assemble" /\ next <= Len(All)

Doubted(c) == c.id \in review.invalid
Invalid(c) == Doubted(c) /\ ~Unresolved(c) /\ ~Valid(c)

\* A doubted case loses the header with the placeholder for its token, and any
\* case the assertions whose ids the Reviewer objects to, whosever they were.
Reviewed(c) == [c EXCEPT !.auth = @ /\ ~(Doubted(c) /\ Unresolved(c)),
                         !.asserts = {a \in @ : a.id \notin review.unsupported}]
Concerns(c) ==
  (IF Doubted(c) THEN Note("doubted", c) ELSE {})
  \cup (IF Reviewed(c).asserts # c.asserts THEN Note("stripped", c) ELSE {})

\* The case once its fixtures were looked up.
Bound(c) == IF c.fixture THEN {[c EXCEPT !.req = r, !.fixture = FALSE] : r \in Bindings}
            ELSE {c}
\* What was changed is not judged again: without an assertion another one needs,
\* without a header the operation requires, or with whatever value a row has, a
\* case may keep the rules or not.
Unjudged(c, before) == IF c = before THEN {c} ELSE {[c EXCEPT !.sound = s] : s \in BOOLEAN}
Resolved(c) == UNION {Unjudged(d, c) : d \in Bound(Reviewed(c))}

Assemble(remarks) ==
  /\ next' = next + 1
  /\ gaps' = gaps \cup remarks
  /\ UNCHANGED <<pc, todo, held, draft, review, supplement>>

\* Mutant of Distinguishable: the ids already used are not looked at.
DistinguishableById(c) == c.asserts # {}

Distinguishable(c) == c.asserts # {} /\ ~KnownId(final, c)

DropInvalid ==
  /\ Looking /\ Invalid(Current)
  /\ Assemble(Note("removed", Current))
  /\ UNCHANGED <<final, added, seen>>

\* The row of a fixture may be gone.
Drop ==
  /\ Looking /\ ~Invalid(Current)
  /\ ~Distinguishable(Reviewed(Current)) \/ Current.fixture
  /\ Assemble(Concerns(Current) \cup Note("removed", Current))
  /\ UNCHANGED <<final, added, seen>>

Candidates == {c \in Resolved(Current) : ~Invalid(Current) /\ Distinguishable(c)}

\* Mutant of Duplicate: added_case_ids is filled before the case is known to be new.
DuplicateAdded ==
  /\ Looking
  /\ \E c \in Candidates : SemanticKey(c) \in seen
  /\ added' = IF next > Len(draft) THEN added \cup {Current.id} ELSE added
  /\ Assemble(Concerns(Current) \cup Note("duplicate", Current))
  /\ UNCHANGED <<final, seen>>

Duplicate ==
  /\ Looking
  /\ \E c \in Candidates : SemanticKey(c) \in seen
  /\ Assemble(Concerns(Current) \cup Note("duplicate", Current))
  /\ UNCHANGED <<final, added, seen>>

\* Mutant of Merge: what a merged case covers is not added to the case that stays.
MergeDropping ==
  /\ Looking
  /\ \E c \in Candidates, f \in final :
       SemanticKey(c) \notin seen /\ ExecutionKey(f) = ExecutionKey(c)
  /\ Assemble(Concerns(Current) \cup Note("merged", Current))
  /\ UNCHANGED <<final, added, seen>>

Merge ==
  /\ Looking
  /\ \E c \in Candidates, f \in final :
       /\ SemanticKey(c) \notin seen /\ ExecutionKey(f) = ExecutionKey(c)
       /\ final' = (final \ {f}) \cup {[f EXCEPT !.points = @ \cup c.points,
                                             !.evidence = @ \cup c.evidence]}
  /\ Assemble(Concerns(Current) \cup Note("merged", Current))
  /\ UNCHANGED <<added, seen>>

Keep ==
  /\ Looking
  /\ \E c \in Candidates :
       /\ SemanticKey(c) \notin seen /\ \A f \in final : ExecutionKey(f) # ExecutionKey(c)
       /\ final' = final \cup {c}
       /\ seen' = seen \cup {SemanticKey(c)}
  /\ added' = IF next > Len(draft) THEN added \cup {Current.id} ELSE added
  /\ Assemble(Concerns(Current))

\* Errors of the fixture database are not among those the loop expects.
DatabaseError ==
  /\ MayFail /\ Looking
  /\ ~Invalid(Current) /\ Distinguishable(Reviewed(Current)) /\ Current.fixture
  /\ pc' = "failed"
  /\ UNCHANGED <<todo, held, draft, review, supplement, gaps>> /\ SameFinal

\* A FinalCaseSet refuses more than MaxGaps remaining gaps.
Finish ==
  /\ pc = "assemble" /\ next > Len(All)
  /\ gaps' = gaps \cup If(~(Points \subseteq PointsOf(final)), "uncovered")
                  \cup If(review.missing # {}, "missing")
                  \cup If(review.unsupported # {}, "unsupported")
  /\ pc' = IF Cardinality(gaps') > MaxGaps THEN "failed"
           ELSE IF final = {} THEN "NEEDS_CLARIFICATION" ELSE "READY"
  /\ UNCHANGED <<todo, held, draft, review, supplement>> /\ SameFinal

Next == \/ Designer \/ DraftCase \/ FoldContract \/ Reviewer
        \/ Supplement \/ SupplementCase \/ LocalValidator
        \/ DropInvalid \/ Drop \/ Duplicate \/ Merge \/ Keep \/ Finish
        \/ Fail \/ DatabaseError

Spec == Init /\ [][Next]_vars

-----------------------------------------------------------------------------
(* Properties.                                                             *)

(* Every variable stays within its type; what lists of cases hold are cases. *)
TypeOK ==
  /\ pc \in {"designer", "draft", "supplement", "extend", "assemble",
             "failed", "NEEDS_CLARIFICATION", "READY"}
  /\ todo \in Seq(Case) /\ held \in Seq(Case)
  /\ draft \in Seq(Case) /\ supplement \in Seq(Case)
  /\ review \in Review
  /\ next \in 1..(Len(All) + 1)
  /\ final \subseteq Case
  /\ added \subseteq {f.id : f \in final}

(* No two Final Cases have one id, so that Human Gate #2 can select them by  *)
(* id, and no two would send the same request to be judged in the same way,  *)
(* although fixtures and credentials change requests inside the loop         *)
(* (design_nodes.py 299-364).                                                *)
FinalCasesDiffer ==
  \A f, g \in final : f # g => f.id # g.id /\ ExecutionKey(f) # ExecutionKey(g)

(* Deduplication costs no coverage ("test-point coverage was preserved",     *)
(* design_nodes.py 361): a case the assembler has looked at is reported as   *)
(* removed, or one Final Case covers all its points and asserts all of it    *)
(* that the Reviewer let stand.                                              *)
Standing(c) == {a.check : a \in {b \in c.asserts : b.id \notin review.unsupported}}
Kept(c) == \E f \in final : c.points \subseteq f.points /\ Standing(c) \subseteq ChecksOf(f)
NothingLostSilently ==
  \A i \in 1..(next - 1) : <<"removed", All[i].id>> \in gaps \/ Kept(All[i])

(* A set of Final Cases without remaining gaps is complete: it covers every  *)
(* test point and closes every specification the Reviewer asked for, though  *)
(* the local validator looks at the cases before the assembler changes them. *)
SilenceIsCompleteness ==
  pc \in {"READY", "NEEDS_CLARIFICATION"} /\ gaps = {} =>
    /\ Points \subseteq PointsOf(final)
    /\ \A s \in review.specs : ~IsOpen(s, final)

(* added_case_ids names the Final Cases that come from the supplement, and   *)
(* no other, whatever ids the two answers of the Designer use.               *)
AddedAreSupplements ==
  \A f \in final : f.id \in added <=> KnownId(Elements(supplement), f)

(* docs/architecture/current-architecture.md:108: READY only when "no hard   *)
(* validation [...] error remains".                                          *)
ReadyCasesAreValid == pc = "READY" => \A f \in final : Valid(f)
=============================================================================
