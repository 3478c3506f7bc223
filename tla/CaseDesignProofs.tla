-------------------------- MODULE CaseDesignProofs --------------------------
(***************************************************************************)
(* What CaseDesign keeps whatever the models answer: its types, that Final *)
(* Cases differ, that nothing is lost silently, that silence means         *)
(* completeness, that added_case_ids is truthful, and where a Final Case   *)
(* that is wrong must come from.                                           *)
(*                                                                         *)
(* Nothing is lost since the cases behind the keys the assembler remembers *)
(* are still represented: a merge replaces a Final Case, and what it       *)
(* replaces it with covers and asserts no less.  Silence needs that a case *)
(* on which nothing was noted is whole among the Final Cases, evidence     *)
(* included; the added ids, that no draft has an id of the supplement.     *)
(***************************************************************************)
EXTENDS CaseDesign, FiniteSetTheorems, SequenceTheorems, TLAPS

\* Final represents a case with these points and these checks.
Represented(points, checks) ==
  \E f \in final : points \subseteq f.points /\ checks \subseteq ChecksOf(f)

SeenIsRepresented == \A k \in seen : Represented(k[1], DOMAIN k[4])

Before == pc \in {"designer", "draft", "supplement", "extend"}
EmptyBefore == Before => next = 1 /\ final = {} /\ seen = {} /\ added = {}

IInv == TypeOK /\ EmptyBefore /\ FinalCasesDiffer /\ SeenIsRepresented /\ NothingLostSilently

-----------------------------------------------------------------------------
(* Cases stay cases.                                                       *)

(* A contract case folded into another leaves a case of the declared type.  *)
LEMMA FoldIsCase ==
  ASSUME NEW c \in Case, NEW d \in Case
  PROVE  Fold(c, d) \in Case
<1> DEFINE new == {CHOOSE a \in d.asserts : a.check = k : k \in ChecksOf(d) \ ChecksOf(c)}
<1>1. new \subseteq d.asserts
  BY DEF ChecksOf
<1>2. d.asserts \subseteq Assertions /\ c.asserts \subseteq Assertions
  BY DEF Case
<1>3. c.asserts \cup new \in SUBSET Assertions
  BY <1>1, <1>2
<1>4. c.points \cup d.points \in SUBSET PointIds /\ c.evidence \cup d.evidence \in SUBSET Evidence
  BY DEF Case
<1> HIDE DEF new
<1>5. [c EXCEPT !.points = c.points \cup d.points, !.evidence = c.evidence \cup d.evidence,
                !.asserts = c.asserts \cup new] \in Case
  BY <1>3, <1>4 DEF Case
<1> QED BY <1>5 DEF Fold, new

(* What the Reviewer's findings and the fixtures make of a case has its id   *)
(* and its points, and asserts exactly what the Reviewer let stand.  It      *)
(* keeps the validator's other rules as before, or something was changed.   *)
LEMMA ResolvedFacts ==
  ASSUME NEW d \in Case, NEW c \in Resolved(d)
  PROVE  /\ c \in Case /\ c.id = d.id /\ c.points = d.points
         /\ ChecksOf(c) = Standing(d) /\ c.evidence = d.evidence
         /\ c.sound = d.sound \/ d.fixture \/ Reviewed(d) # d
<1> DEFINE auth == d.auth /\ ~(Doubted(d) /\ Unresolved(d))
           kept == {a \in d.asserts : a.id \notin review.unsupported}
           r == [d EXCEPT !.auth = auth, !.asserts = kept]
<1>1. auth \in BOOLEAN /\ kept \in SUBSET Assertions
  <2>1. d.asserts \subseteq Assertions
    BY DEF Case
  <2> QED BY <2>1
<1>2. Reviewed(d) = r
  BY DEF Reviewed
<1> HIDE DEF auth, kept
<1>3. r \in Case /\ r.id = d.id /\ r.points = d.points /\ r.asserts = kept
      /\ r.evidence = d.evidence /\ r.fixture = d.fixture
  BY <1>1 DEF Case
<1>4. PICK b \in Bound(r) : c \in Unjudged(b, d)
  BY <1>2 DEF Resolved
<1> HIDE DEF r
<1>5. /\ b \in Case /\ b.id = r.id /\ b.points = r.points /\ b.asserts = r.asserts
      /\ b.evidence = r.evidence
      /\ b = r \/ r.fixture
  <2>1. CASE b = r
    BY <1>3, <2>1
  <2>2. CASE r.fixture /\ \E q \in Bindings : b = [r EXCEPT !.req = q, !.fixture = FALSE]
    <3>1. PICK q \in Bindings : b = [r EXCEPT !.req = q, !.fixture = FALSE]
      BY <2>2
    <3>2. q \in Requests
      BY DEF Requests
    <3> QED BY <1>3, <2>2, <3>1, <3>2 DEF Case
  <2> QED BY <2>1, <2>2 DEF Bound
<1>6. /\ c \in Case /\ c.id = b.id /\ c.points = b.points /\ c.asserts = b.asserts
      /\ c.evidence = b.evidence
      /\ c = d \/ b # d
  <2>1. CASE c = b /\ b = d
    BY <1>5, <2>1
  <2>2. CASE b # d /\ \E s \in BOOLEAN : c = [b EXCEPT !.sound = s]
    <3>1. PICK s \in BOOLEAN : c = [b EXCEPT !.sound = s]
      BY <2>2
    <3> QED BY <1>5, <2>2, <3>1 DEF Case
  <2> QED BY <1>4, <2>1, <2>2 DEF Unjudged
<1>7. c.sound = d.sound \/ d.fixture \/ r # d
  BY <1>3, <1>5, <1>6
<1> QED BY <1>2, <1>3, <1>5, <1>6, <1>7 DEF ChecksOf, Standing, kept

(* Two cases that are the same to the target assert the same.               *)
LEMMA SameKeySameChecks ==
  ASSUME NEW c, NEW d, ExecutionKey(c) = ExecutionKey(d)
  PROVE  ChecksOf(c) = ChecksOf(d)
<1>1. CheckBag(c) = CheckBag(d)
  BY DEF ExecutionKey
<1>2. DOMAIN CheckBag(c) = ChecksOf(c) /\ DOMAIN CheckBag(d) = ChecksOf(d)
  BY DEF CheckBag
<1> QED BY <1>1, <1>2

-----------------------------------------------------------------------------
(* The turn of one case in the assembler.                                  *)

(* Where the loop looks there is a case, and what is compared is made of it. *)
LEMMA CandidateFacts ==
  ASSUME TypeOK, Looking
  PROVE  /\ Current \in Case
         /\ \A c \in Candidates :
              /\ c \in Case /\ c.id = Current.id /\ c.points = Current.points
              /\ ChecksOf(c) = Standing(Current)
              /\ \A f \in final : f.id # c.id
<1>1. All \in Seq(Case)
  BY DEF TypeOK, All
<1>2. next \in 1..Len(All)
  BY <1>1 DEF TypeOK, Looking
<1>3. Current \in Case
  BY <1>1, <1>2 DEF Current
<1>4. ASSUME NEW c \in Candidates
      PROVE  /\ c \in Case /\ c.id = Current.id /\ c.points = Current.points
             /\ ChecksOf(c) = Standing(Current)
             /\ \A f \in final : f.id # c.id
  <2>1. c \in Resolved(Current) /\ Distinguishable(c)
    BY <1>4 DEF Candidates
  <2>2. \A f \in final : f.id # c.id
    BY <2>1 DEF Distinguishable, KnownId
  <2> QED BY <1>3, <2>1, <2>2, ResolvedFacts
<1> QED BY <1>3, <1>4

(* A turn leaves the cases and the review alone, forgets no gap, and ends   *)
(* one case further on.                                                     *)
LEMMA TurnFacts ==
  ASSUME TypeOK, Looking, NEW remarks, Assemble(remarks)
  PROVE  /\ All' = All /\ review' = review /\ pc' = "assemble"
         /\ next \in Nat /\ next' \in 1..(Len(All') + 1) /\ next' - 1 = next
         /\ gaps \subseteq gaps' /\ remarks \subseteq gaps'
         /\ UNCHANGED <<todo, held, draft, supplement>>
<1>1. All \in Seq(Case)
  BY DEF TypeOK, All
<1>2. All' = All
  BY DEF Assemble, All
<1> QED BY <1>1, <1>2 DEF TypeOK, Looking, Assemble

(* A turn that changes no Final Case.                                       *)
LEMMA QuietTurn ==
  ASSUME IInv, Looking, NEW remarks, Assemble(remarks), UNCHANGED <<final, added, seen>>,
         Note("removed", Current) \subseteq remarks \/ Kept(Current)
  PROVE  IInv'
<1>1. /\ All' = All /\ review' = review /\ pc' = "assemble"
      /\ next \in Nat /\ next' \in 1..(Len(All') + 1) /\ next' - 1 = next
      /\ gaps \subseteq gaps' /\ remarks \subseteq gaps'
      /\ UNCHANGED <<todo, held, draft, supplement>>
  BY TurnFacts DEF IInv
<1>2. TypeOK'
  BY <1>1 DEF IInv, TypeOK
<1>3. EmptyBefore'
  BY <1>1 DEF EmptyBefore, Before
<1>4. FinalCasesDiffer' /\ SeenIsRepresented'
  BY DEF IInv, FinalCasesDiffer, SeenIsRepresented, Represented
<1>5. \A c : Kept(c)' <=> Kept(c)
  BY <1>1 DEF Kept, Standing
<1>6. NothingLostSilently'
  <2> SUFFICES ASSUME NEW i \in 1..next
               PROVE  <<"removed", All[i].id>> \in gaps' \/ Kept(All[i])
    BY <1>1, <1>5 DEF NothingLostSilently
  <2>1. CASE i = next
    BY <1>1, <2>1 DEF Note, Current
  <2>2. CASE i # next
    <3>1. next \in Nat
      BY <1>1
    <3>2. i \in 1..(next - 1)
      BY <2>2, <3>1
    <3> QED BY <1>1, <3>2 DEF IInv, NothingLostSilently
  <2> QED BY <2>1, <2>2
<1> QED BY <1>2, <1>3, <1>4, <1>6 DEF IInv

(* A turn after which every Final Case, and the current case, is represented. *)
LEMMA GrowingTurn ==
  ASSUME IInv, Looking, NEW remarks, Assemble(remarks),
         final' \subseteq Case, FinalCasesDiffer',
         added' \subseteq {f.id : f \in final'},
         \A f \in final : \E g \in final' :
           f.points \subseteq g.points /\ ChecksOf(f) \subseteq ChecksOf(g),
         NEW d, d = Current, Kept(d)',
         NEW k, Represented(k[1], DOMAIN k[4])', seen' \subseteq seen \cup {k}
  PROVE  IInv'
<1>1. /\ All' = All /\ review' = review /\ pc' = "assemble"
      /\ next \in Nat /\ next' \in 1..(Len(All') + 1) /\ next' - 1 = next
      /\ gaps \subseteq gaps' /\ remarks \subseteq gaps'
      /\ UNCHANGED <<todo, held, draft, supplement>>
  BY TurnFacts DEF IInv
<1>2. TypeOK'
  BY <1>1 DEF IInv, TypeOK
<1>3. EmptyBefore'
  BY <1>1 DEF EmptyBefore, Before
<1>4. SeenIsRepresented'
  <2>1. \A l \in seen : Represented(l[1], DOMAIN l[4])'
    <3>1. ASSUME NEW l \in seen
          PROVE  Represented(l[1], DOMAIN l[4])'
      <4>1. PICK f \in final : l[1] \subseteq f.points /\ DOMAIN l[4] \subseteq ChecksOf(f)
        BY DEF IInv, SeenIsRepresented, Represented
      <4>2. PICK g \in final' : f.points \subseteq g.points /\ ChecksOf(f) \subseteq ChecksOf(g)
        BY <4>1
      <4>3. l[1] \subseteq g.points /\ DOMAIN l[4] \subseteq ChecksOf(g)
        BY <4>1, <4>2
      <4> QED BY <4>3 DEF Represented, ChecksOf
    <3> QED BY <3>1
  <2> QED BY <2>1 DEF SeenIsRepresented
<1>5. \A c : Kept(c) => Kept(c)'
  <2>1. ASSUME NEW c, Kept(c)
        PROVE  Kept(c)'
    <3>1. PICK f \in final : c.points \subseteq f.points /\ Standing(c) \subseteq ChecksOf(f)
      BY <2>1 DEF Kept
    <3>2. PICK g \in final' : f.points \subseteq g.points /\ ChecksOf(f) \subseteq ChecksOf(g)
      BY <3>1
    <3>3. c.points \subseteq g.points /\ Standing(c) \subseteq ChecksOf(g)
      BY <3>1, <3>2
    <3>4. Standing(c)' = Standing(c)
      BY <1>1 DEF Standing
    <3> QED BY <3>3, <3>4 DEF Kept, ChecksOf
  <2> QED BY <2>1
<1>6. NothingLostSilently'
  <2> SUFFICES ASSUME NEW i \in 1..next
               PROVE  <<"removed", All[i].id>> \in gaps' \/ Kept(All[i])'
    BY <1>1 DEF NothingLostSilently, Kept, Standing
  <2>1. CASE i = next
    BY <1>1, <2>1 DEF Current
  <2>2. CASE i # next
    <3>1. next \in Nat
      BY <1>1
    <3>2. i \in 1..(next - 1)
      BY <2>2, <3>1
    <3> QED BY <1>1, <1>5, <3>2 DEF IInv, NothingLostSilently
  <2> QED BY <2>1, <2>2
<1> QED BY <1>2, <1>3, <1>4, <1>6 DEF IInv

-----------------------------------------------------------------------------
(* The steps before and after the assembler's loop.                        *)

(* While there are no Final Cases, a step only has to keep the types.       *)
LEMMA EarlyStep ==
  ASSUME IInv, Before, SameFinal,
         pc' \in {"designer", "draft", "supplement", "extend", "assemble", "failed"},
         todo' \in Seq(Case), held' \in Seq(Case),
         draft' \in Seq(Case), supplement' \in Seq(Case), review' \in Review
  PROVE  IInv'
<1>1. next = 1 /\ final = {} /\ seen = {} /\ added = {}
  BY DEF IInv, EmptyBefore
<1>2. next' = 1 /\ final' = {} /\ seen' = {} /\ added' = {}
  BY <1>1 DEF SameFinal
<1>3. Len(All') \in Nat
  BY DEF All
<1>4. TypeOK'
  BY <1>2, <1>3 DEF TypeOK
<1>5. EmptyBefore' /\ FinalCasesDiffer' /\ SeenIsRepresented'
  BY <1>2 DEF EmptyBefore, FinalCasesDiffer, SeenIsRepresented
<1>6. NothingLostSilently'
  BY <1>2 DEF NothingLostSilently
<1> QED BY <1>4, <1>5, <1>6 DEF IInv

(* A step that ends the design changes nothing but the gaps, which grow.    *)
LEMMA EndStep ==
  ASSUME IInv, SameFinal, UNCHANGED <<todo, held, draft, review, supplement>>,
         pc' \in {"failed", "NEEDS_CLARIFICATION", "READY"}, gaps \subseteq gaps'
  PROVE  IInv'
<1>1. All' = All /\ UNCHANGED <<next, final, added, seen>>
  BY DEF All, SameFinal
<1>2. TypeOK'
  BY <1>1 DEF IInv, TypeOK
<1>3. EmptyBefore'
  BY DEF EmptyBefore, Before
<1>4. FinalCasesDiffer' /\ SeenIsRepresented'
  BY <1>1 DEF IInv, FinalCasesDiffer, SeenIsRepresented, Represented
<1>5. NothingLostSilently'
  BY <1>1 DEF IInv, NothingLostSilently, Kept, Standing
<1> QED BY <1>2, <1>3, <1>4, <1>5 DEF IInv

(* An answer of the Designer, cut or not, is a sequence of cases.           *)
LEMMA AnswersAreCases == Answers \subseteq Seq(Case)
<1>1. Pool \subseteq Case
  BY DesignAssumption
<1>2. ASSUME NEW n \in 0..MaxAnswer, NEW s \in [1..n -> Pool]
      PROVE  s \in Seq(Case)
  <2>1. n \in Nat
    BY DesignAssumption DEF DesignAssumption
  <2>2. s \in [1..n -> Case]
    BY <1>1
  <2> QED BY <2>1, <2>2
<1> QED BY <1>2 DEF Answers

LEMMA OneMoreCase ==
  ASSUME NEW s \in Seq(Case), NEW c \in Case
  PROVE  Append(s, c) \in Seq(Case)
OBVIOUS

LEMMA Beginning == Init => IInv
<1> SUFFICES ASSUME Init PROVE IInv
  OBVIOUS
<1>1. Len(All) = 0 /\ <<>> \in Seq(Case)
  BY DEF Init, All
<1>2. review \in Review
  BY DEF Init, NoReview, Review
<1>3. TypeOK
  BY <1>1, <1>2 DEF Init, TypeOK
<1> QED BY <1>3 DEF Init, IInv, EmptyBefore, FinalCasesDiffer, SeenIsRepresented, NothingLostSilently

LEMMA DesignerStep == IInv /\ Designer => IInv'
  BY EarlyStep, AnswersAreCases DEF IInv, TypeOK, Designer, Before

LEMMA DraftCaseStep == IInv /\ DraftCase => IInv'
<1> SUFFICES ASSUME IInv, DraftCase PROVE IInv'
  OBVIOUS
<1>1. todo \in Seq(Case) /\ todo # <<>> /\ held \in Seq(Case) /\ draft \in Seq(Case)
  BY DEF IInv, TypeOK, DraftCase
<1>2. Head(todo) \in Case /\ todo' \in Seq(Case)
  BY <1>1 DEF DraftCase
<1>3. held' \in Seq(Case) /\ draft' \in Seq(Case)
  <2>1. /\ held' = held \/ held' = Append(held, Head(todo))
        /\ draft' = draft \/ draft' = Append(draft, Head(todo))
    BY DEF DraftCase
  <2> QED BY <1>1, <1>2, <2>1, OneMoreCase
<1>4. UNCHANGED <<pc, review, supplement>> /\ SameFinal /\ pc = "draft"
  BY DEF DraftCase
<1>5. supplement' \in Seq(Case) /\ review' \in Review
  BY <1>4 DEF IInv, TypeOK
<1> QED BY <1>2, <1>3, <1>4, <1>5, EarlyStep DEF Before

LEMMA FoldContractStep == IInv /\ FoldContract => IInv'
<1> SUFFICES ASSUME IInv, FoldContract PROVE IInv'
  OBVIOUS
<1>1. held \in Seq(Case) /\ held # <<>> /\ draft \in Seq(Case)
  BY DEF IInv, TypeOK, FoldContract
<1>2. Head(held) \in Case /\ held' \in Seq(Case)
  BY <1>1 DEF FoldContract
<1>3. draft' \in Seq(Case)
  <2>1. CASE draft' = Append(draft, Head(held))
    BY <1>1, <1>2, <2>1
  <2>2. CASE \E i \in 1..Len(draft) : draft' = [draft EXCEPT ![i] = Fold(draft[i], Head(held))]
    <3>1. PICK i \in 1..Len(draft) : draft' = [draft EXCEPT ![i] = Fold(draft[i], Head(held))]
      BY <2>2
    <3>2. Fold(draft[i], Head(held)) \in Case
      BY <1>1, <1>2, FoldIsCase
    <3> QED BY <1>1, <3>1, <3>2
  <2> QED BY <2>1, <2>2 DEF FoldContract
<1> QED BY <1>2, <1>3, EarlyStep DEF IInv, TypeOK, FoldContract, Before

LEMMA ReviewerStep == IInv /\ Reviewer => IInv'
<1> SUFFICES ASSUME IInv, Reviewer PROVE IInv'
  OBVIOUS
<1>1. review' \in Review /\ pc' \in {"assemble", "supplement", "failed"}
  BY DEF IInv, TypeOK, Reviewer
<1> QED BY <1>1, EarlyStep DEF IInv, TypeOK, Reviewer, Before

LEMMA SupplementStep == IInv /\ Supplement => IInv'
<1> SUFFICES ASSUME IInv, Supplement PROVE IInv'
  OBVIOUS
<1>1. todo' \in Seq(Case)
  <2>1. PICK answer \in Answers :
          \/ todo' = answer
          \/ Len(answer) > Cardinality(review.specs) /\ todo' = SubSeq(answer, 1, Cardinality(review.specs))
    BY DEF Supplement
  <2>2. answer \in Seq(Case)
    BY AnswersAreCases
  <2>3. Cardinality(review.specs) \in Nat
    <3>1. review.specs \subseteq Specs
      BY DEF IInv, TypeOK, Review
    <3>2. IsFiniteSet(review.specs)
      BY <3>1, FS_Subset, DesignAssumption DEF DesignAssumption
    <3> QED BY <3>2, FS_CardinalityType
  <2> QED BY <2>1, <2>2, <2>3
<1> QED BY <1>1, EarlyStep DEF IInv, TypeOK, Supplement, Before

LEMMA SupplementCaseStep == IInv /\ SupplementCase => IInv'
<1> SUFFICES ASSUME IInv, SupplementCase PROVE IInv'
  OBVIOUS
<1>1. todo \in Seq(Case) /\ todo # <<>> /\ held \in Seq(Case) /\ supplement \in Seq(Case)
  BY DEF IInv, TypeOK, SupplementCase
<1>2. Head(todo) \in Case /\ todo' \in Seq(Case)
  BY <1>1 DEF SupplementCase
<1>3. /\ held' = held \/ held' = Append(held, Head(todo))
      /\ supplement' = supplement \/ supplement' = Append(supplement, Head(todo))
  BY DEF SupplementCase
<1>4. held' \in Seq(Case) /\ supplement' \in Seq(Case)
  BY <1>1, <1>2, <1>3, OneMoreCase
<1>5. UNCHANGED <<pc, draft, review>> /\ SameFinal /\ pc = "extend"
  BY DEF SupplementCase
<1>6. draft' \in Seq(Case) /\ review' \in Review
  BY <1>5 DEF IInv, TypeOK
<1> QED BY <1>2, <1>4, <1>5, <1>6, EarlyStep DEF Before

LEMMA LocalValidatorStep == IInv /\ LocalValidator => IInv'
<1> SUFFICES ASSUME IInv, LocalValidator PROVE IInv'
  OBVIOUS
<1>1. review \in Review
  BY DEF IInv, TypeOK
<1> DEFINE cases == Elements(draft) \cup Elements(supplement)
           open == {s \in review.specs : IsOpen(s, cases)}
           missing == (review.missing \ PointsOf(cases)) \cup PointsOf(open)
<1>2. review' = [review EXCEPT !.missing = missing]
  BY DEF LocalValidator
<1>3. missing \subseteq Points \cup PointsOf(Specs)
  BY <1>1 DEF Review, PointsOf
<1> HIDE DEF missing
<1>4. review' \in Review
  BY <1>1, <1>2, <1>3 DEF Review
<1>5. /\ UNCHANGED <<todo, held, draft, supplement>> /\ SameFinal
      /\ pc = "extend" /\ pc' = "assemble"
  BY DEF LocalValidator
<1> QED BY <1>4, <1>5, EarlyStep DEF IInv, TypeOK, Before
-----------------------------------------------------------------------------
(* The assembler's loop.                                                   *)

LEMMA DropInvalidStep == IInv /\ DropInvalid => IInv'
  BY QuietTurn DEF DropInvalid

LEMMA DropStep == IInv /\ Drop => IInv'
<1> SUFFICES ASSUME IInv, Drop PROVE IInv'
  OBVIOUS
<1> DEFINE remarks == Concerns(Current) \cup Note("removed", Current)
<1>1. Looking /\ Assemble(remarks) /\ UNCHANGED <<final, added, seen>>
  BY DEF Drop
<1>2. Note("removed", Current) \subseteq remarks
  OBVIOUS
<1> HIDE DEF remarks
<1> QED BY <1>1, <1>2, QuietTurn

LEMMA DuplicateStep == IInv /\ Duplicate => IInv'
<1> SUFFICES ASSUME IInv, Duplicate PROVE IInv'
  OBVIOUS
<1> DEFINE remarks == Concerns(Current) \cup Note("duplicate", Current)
<1>1. Looking /\ Assemble(remarks) /\ UNCHANGED <<final, added, seen>>
  BY DEF Duplicate
<1>2. PICK c \in Candidates : SemanticKey(c) \in seen
  BY DEF Duplicate
<1>3. c.points = Current.points /\ ChecksOf(c) = Standing(Current)
  BY <1>1, CandidateFacts DEF IInv
<1>4. Represented(c.points, ChecksOf(c))
  <2>1. Represented(SemanticKey(c)[1], DOMAIN SemanticKey(c)[4])
    BY <1>2 DEF IInv, SeenIsRepresented
  <2>2. SemanticKey(c)[1] = c.points /\ DOMAIN SemanticKey(c)[4] = ChecksOf(c)
    BY DEF SemanticKey, CheckBag
  <2> QED BY <2>1, <2>2
<1>5. Kept(Current)
  BY <1>3, <1>4 DEF Represented, Kept
<1> HIDE DEF remarks
<1> QED BY <1>1, <1>5, QuietTurn

LEMMA MergeStep == IInv /\ Merge => IInv'
<1> SUFFICES ASSUME IInv, Merge PROVE IInv'
  OBVIOUS
<1> DEFINE remarks == Concerns(Current) \cup Note("merged", Current)
<1>0. PICK d : d = Current
  OBVIOUS
<1>1. Looking /\ Assemble(remarks) /\ UNCHANGED <<added, seen>>
  BY DEF Merge
<1>2. PICK c \in Candidates, f \in final :
        /\ ExecutionKey(f) = ExecutionKey(c)
        /\ final' = (final \ {f}) \cup {[f EXCEPT !.points = @ \cup c.points,
                                              !.evidence = @ \cup c.evidence]}
  BY DEF Merge
<1>3. /\ d \in Case /\ c \in Case
      /\ c.points = d.points /\ ChecksOf(c) = Standing(d)
  BY <1>0, <1>1, CandidateFacts DEF IInv
<1>4. f \in Case /\ final \subseteq Case /\ FinalCasesDiffer
  BY DEF IInv, TypeOK
<1> DEFINE g == [f EXCEPT !.points = f.points \cup c.points,
                          !.evidence = f.evidence \cup c.evidence]
<1>5. /\ g \in Case /\ g.id = f.id /\ g.req = f.req /\ g.auth = f.auth
      /\ g.side = f.side /\ g.asserts = f.asserts /\ g.points = f.points \cup c.points
  <2>1. f.points \cup c.points \in SUBSET PointIds /\ f.evidence \cup c.evidence \in SUBSET Evidence
    BY <1>3, <1>4 DEF Case
  <2> QED BY <1>4, <2>1 DEF Case
<1>6. final' = (final \ {f}) \cup {g}
  BY <1>2
<1> HIDE DEF g
<1>7. ExecutionKey(g) = ExecutionKey(f) /\ ChecksOf(g) = ChecksOf(f)
  BY <1>5 DEF ExecutionKey, ChecksOf, CheckBag
<1>8. ChecksOf(f) = ChecksOf(c)
  BY <1>2, SameKeySameChecks
<1>9. final' \subseteq Case
  BY <1>4, <1>5, <1>6
<1>10. FinalCasesDiffer'
  <2>1. ASSUME NEW x \in final', NEW y \in final', x # y
        PROVE  x.id # y.id /\ ExecutionKey(x) # ExecutionKey(y)
    <3>1. CASE x = g
      <4>1. y \in final /\ y # f
        BY <1>6, <2>1, <3>1
      <4> QED BY <1>4, <1>5, <1>7, <3>1, <4>1 DEF FinalCasesDiffer
    <3>2. CASE y = g
      <4>1. x \in final /\ x # f
        BY <1>6, <2>1, <3>2
      <4> QED BY <1>4, <1>5, <1>7, <3>2, <4>1 DEF FinalCasesDiffer
    <3>3. CASE x # g /\ y # g
      BY <1>4, <1>6, <2>1, <3>3 DEF FinalCasesDiffer
    <3> QED BY <3>1, <3>2, <3>3
  <2> QED BY <2>1 DEF FinalCasesDiffer, ExecutionKey, CheckBag, ChecksOf
<1>11. \A x \in final : \E y \in final' :
         x.points \subseteq y.points /\ ChecksOf(x) \subseteq ChecksOf(y) /\ x.id = y.id
  <2>1. ASSUME NEW x \in final
        PROVE  \E y \in final' :
                 x.points \subseteq y.points /\ ChecksOf(x) \subseteq ChecksOf(y) /\ x.id = y.id
    <3>1. CASE x = f
      BY <1>5, <1>6, <1>7, <3>1
    <3>2. CASE x # f
      BY <1>6, <3>2
    <3> QED BY <3>1, <3>2
  <2> QED BY <2>1
<1>12. added' \subseteq {x.id : x \in final'}
  BY <1>1, <1>11 DEF IInv, TypeOK
<1>13. g \in final' /\ c.points \subseteq g.points /\ Standing(d) \subseteq ChecksOf(g)
  BY <1>3, <1>5, <1>6, <1>7, <1>8
<1> DEFINE k == SemanticKey(c)
<1>14. k[1] = c.points /\ DOMAIN k[4] = ChecksOf(c)
  BY DEF SemanticKey, CheckBag
<1> HIDE DEF remarks, k
<1>15. review' = review
  BY <1>1, TurnFacts DEF IInv
<1>16. Kept(d)'
  BY <1>3, <1>13, <1>15 DEF Kept, Standing, ChecksOf
<1>17. Represented(k[1], DOMAIN k[4])'
  BY <1>3, <1>13, <1>14 DEF Represented, ChecksOf
<1>18. \A x \in final : \E y \in final' :
         x.points \subseteq y.points /\ ChecksOf(x) \subseteq ChecksOf(y)
  BY <1>11
<1>19. seen' \subseteq seen \cup {k}
  BY <1>1
<1> QED BY <1>0, <1>1, <1>9, <1>10, <1>12, <1>16, <1>17, <1>18, <1>19, GrowingTurn

LEMMA KeepStep == IInv /\ Keep => IInv'
<1> SUFFICES ASSUME IInv, Keep PROVE IInv'
  OBVIOUS
<1> DEFINE remarks == Concerns(Current)
<1>0. PICK d : d = Current
  OBVIOUS
<1>1. /\ Looking /\ Assemble(remarks)
      /\ added' \subseteq added \cup {d.id}
  BY <1>0 DEF Keep
<1>2. PICK c \in Candidates :
        /\ \A f \in final : ExecutionKey(f) # ExecutionKey(c)
        /\ final' = final \cup {c}
        /\ seen' = seen \cup {SemanticKey(c)}
  BY DEF Keep
<1>3. /\ c \in Case /\ c.id = d.id /\ c.points = d.points /\ ChecksOf(c) = Standing(d)
      /\ \A f \in final : f.id # c.id
  BY <1>0, <1>1, CandidateFacts DEF IInv
<1>4. final \subseteq Case /\ FinalCasesDiffer
  BY DEF IInv, TypeOK
<1>5. final' \subseteq Case
  BY <1>2, <1>3, <1>4
<1>6. FinalCasesDiffer'
  <2>1. ASSUME NEW x \in final', NEW y \in final', x # y
        PROVE  x.id # y.id /\ ExecutionKey(x) # ExecutionKey(y)
    BY <1>2, <1>3, <1>4, <2>1 DEF FinalCasesDiffer
  <2> QED BY <2>1 DEF FinalCasesDiffer, ExecutionKey, CheckBag, ChecksOf
<1>7. \A f \in final : \E g \in final' :
        f.points \subseteq g.points /\ ChecksOf(f) \subseteq ChecksOf(g)
  BY <1>2
<1>8. added' \subseteq {f.id : f \in final'}
  BY <1>1, <1>2, <1>3 DEF IInv, TypeOK
<1> DEFINE k == SemanticKey(c)
<1>9. k[1] = c.points /\ DOMAIN k[4] = ChecksOf(c)
  BY DEF SemanticKey, CheckBag
<1>10. seen' \subseteq seen \cup {k}
  BY <1>2
<1> HIDE DEF remarks, k
<1>11. review' = review
  BY <1>1, TurnFacts DEF IInv
<1>12. Kept(d)'
  BY <1>2, <1>3, <1>11 DEF Kept, Standing, ChecksOf
<1>13. Represented(k[1], DOMAIN k[4])'
  BY <1>2, <1>9 DEF Represented, ChecksOf
<1> QED BY <1>0, <1>1, <1>5, <1>6, <1>7, <1>8, <1>10, <1>12, <1>13, GrowingTurn

-----------------------------------------------------------------------------
(* The end, and the theorems.                                              *)

LEMMA EndingSteps == IInv /\ (Finish \/ Fail \/ DatabaseError) => IInv'
<1>1. ASSUME IInv, Finish PROVE IInv'
  <2>1. pc' \in {"failed", "NEEDS_CLARIFICATION", "READY"}
    BY <1>1 DEF Finish
  <2> QED BY <1>1, <2>1, EndStep DEF Finish
<1>2. ASSUME IInv, Fail PROVE IInv'
  BY <1>2, EndStep DEF Fail
<1>3. ASSUME IInv, DatabaseError PROVE IInv'
  BY <1>3, EndStep DEF DatabaseError
<1> QED BY <1>1, <1>2, <1>3

LEMMA Stuttering == IInv /\ UNCHANGED vars => IInv'
<1> SUFFICES ASSUME IInv, UNCHANGED vars PROVE IInv'
  OBVIOUS
<1>1. /\ All' = All /\ next' = next /\ final' = final /\ seen' = seen
      /\ gaps' = gaps /\ review' = review
  BY DEF vars, All
<1>2. TypeOK' /\ EmptyBefore'
  BY <1>1 DEF IInv, TypeOK, EmptyBefore, Before, vars
<1>3. FinalCasesDiffer' /\ SeenIsRepresented'
  BY <1>1 DEF IInv, FinalCasesDiffer, SeenIsRepresented, Represented
<1>4. NothingLostSilently'
  BY <1>1 DEF IInv, NothingLostSilently, Kept, Standing
<1> QED BY <1>2, <1>3, <1>4 DEF IInv

(* The inductive invariant: besides the properties, what a case is compared *)
(* with (seen) is represented among the Final Cases.                        *)
THEOREM Invariant == Spec => []IInv
<1>1. IInv /\ [Next]_vars => IInv'
  <2> SUFFICES ASSUME IInv, [Next]_vars PROVE IInv'
    OBVIOUS
  <2> QED BY DesignerStep, DraftCaseStep, FoldContractStep, ReviewerStep, SupplementStep,
             SupplementCaseStep, LocalValidatorStep, DropInvalidStep, DropStep, DuplicateStep,
             MergeStep, KeepStep, EndingSteps, Stuttering DEF Next
<1> QED BY <1>1, Beginning, PTL DEF Spec

(* Whatever the models answer, the lists of cases hold cases and the added   *)
(* ids name Final Cases.                                                     *)
THEOREM TypeCorrect == Spec => []TypeOK
<1>1. IInv => TypeOK
  BY DEF IInv
<1> QED BY <1>1, Invariant, PTL

(* However many cases the models answer, the Final Cases differ in their ids *)
(* and in what they send and judge (design_nodes.py 299-364).               *)
THEOREM DifferCorrect == Spec => []FinalCasesDiffer
<1>1. IInv => FinalCasesDiffer
  BY DEF IInv
<1> QED BY <1>1, Invariant, PTL

(* However many cases the models answer, one the assembler looked at is      *)
(* reported as removed or covered by a Final Case (design_nodes.py 249-369). *)
THEOREM NothingLostCorrect == Spec => []NothingLostSilently
<1>1. IInv => NothingLostSilently
  BY DEF IInv
<1> QED BY <1>1, Invariant, PTL

-----------------------------------------------------------------------------
(* What the supplement adds, and what silence means.  Both are kept on top  *)
(* of IInv.                                                                 *)

\* No id of the draft is one of the supplement's.
SupplementIsApart ==
  /\ pc \in {"designer", "draft", "supplement"} => supplement = <<>>
  /\ \A i \in 1..Len(draft), j \in 1..Len(supplement) : draft[i].id # supplement[j].id

\* A Final Case has all that the Designer wrote in this one.
Whole(c) ==
  \E f \in final :
    c.points \subseteq f.points /\ ChecksOf(c) \subseteq ChecksOf(f) /\ c.evidence \subseteq f.evidence

Answered == Elements(draft) \cup Elements(supplement)

\* As long as nothing was noted, every case looked at is whole, and what the
\* Reviewer asked for was there before the assembler began.
NothingNoted ==
  gaps = {} =>
    /\ \A i \in 1..(next - 1) : Whole(All[i])
    /\ pc \in {"assemble", "READY", "NEEDS_CLARIFICATION"} =>
         \A s \in review.specs : ~IsOpen(s, Answered)
    /\ pc \in {"READY", "NEEDS_CLARIFICATION"} => next > Len(All) /\ Points \subseteq PointsOf(final)

More == SupplementIsApart /\ AddedAreSupplements /\ NothingNoted

\* The list the assembler goes through is the draft, then the supplement.
LEMMA AllFacts ==
  ASSUME TypeOK
  PROVE  /\ Len(All) = Len(draft) + Len(supplement) /\ Len(draft) \in Nat /\ Len(supplement) \in Nat
         /\ \A i \in 1..Len(draft) : All[i] = draft[i]
         /\ \A i \in 1..Len(All) : i > Len(draft) =>
              i - Len(draft) \in 1..Len(supplement) /\ All[i] = supplement[i - Len(draft)]
         /\ \A c \in Answered : \E i \in 1..Len(All) : c = All[i]
<1>1. draft \in Seq(Case) /\ supplement \in Seq(Case)
  BY DEF TypeOK
<1>2. /\ Len(All) = Len(draft) + Len(supplement) /\ Len(draft) \in Nat /\ Len(supplement) \in Nat
      /\ \A i \in 1..Len(draft) : All[i] = draft[i]
      /\ \A i \in 1..Len(All) : i > Len(draft) =>
           i - Len(draft) \in 1..Len(supplement) /\ All[i] = supplement[i - Len(draft)]
  BY <1>1 DEF All
<1>3. ASSUME NEW c \in Answered PROVE \E i \in 1..Len(All) : c = All[i]
  <2>1. CASE c \in Elements(draft)
    <3>1. PICK i \in 1..Len(draft) : c = draft[i]
      BY <2>1 DEF Elements
    <3>2. i \in 1..Len(All) /\ All[i] = draft[i]
      BY <1>2
    <3> QED BY <3>1, <3>2
  <2>2. CASE c \in Elements(supplement)
    <3>1. PICK j \in 1..Len(supplement) : c = supplement[j]
      BY <2>2 DEF Elements
    <3> DEFINE i == Len(draft) + j
    <3>2. i \in 1..Len(All) /\ i > Len(draft) /\ i - Len(draft) = j
      BY <1>2
    <3>3. All[i] = supplement[j]
      BY <1>2, <3>2
    <3> QED BY <3>1, <3>2, <3>3
  <2> QED BY <1>3, <2>1, <2>2 DEF Answered
<1> QED BY <1>2, <1>3

\* A specification that the cases close is closed by cases that have no less.
LEMMA WholeCloses ==
  ASSUME NEW s, NEW cases, ~IsOpen(s, cases), \A c \in cases : Whole(c)
  PROVE  ~IsOpen(s, final)
<1> DEFINE old == {c \in cases : c.points \cap s.points # {}}
           new == {f \in final : f.points \cap s.points # {}}
<1>1. \A c \in old : \E f \in new :
        c.points \subseteq f.points /\ ChecksOf(c) \subseteq ChecksOf(f) /\ c.evidence \subseteq f.evidence
  BY DEF Whole
<1>2. /\ s.points \subseteq PointsOf(old)
      /\ s.evidence \subseteq UNION {c.evidence : c \in old}
      /\ s.checks \subseteq UNION {ChecksOf(c) : c \in old}
  BY DEF IsOpen
<1> HIDE DEF old, new
<1>3. s.points \subseteq PointsOf(new)
  BY <1>1, <1>2 DEF PointsOf
<1>4. s.evidence \subseteq UNION {f.evidence : f \in new}
  BY <1>1, <1>2
<1>5. s.checks \subseteq UNION {ChecksOf(f) : f \in new}
  BY <1>1, <1>2
<1> QED BY <1>3, <1>4, <1>5 DEF IsOpen, new

\* Before the loop of the assembler.
LEMMA MoreEarly ==
  ASSUME IInv, Before, SameFinal, IInv', SupplementIsApart',
         gaps' = {} /\ pc' = "assemble" => \A s \in review'.specs : ~IsOpen(s, Answered'),
         pc' \in {"designer", "draft", "supplement", "extend", "assemble", "failed"}
  PROVE  More'
<1>1. next' = 1 /\ final' = {}
  BY DEF IInv, EmptyBefore, SameFinal
<1>2. AddedAreSupplements'
  BY <1>1 DEF AddedAreSupplements
<1>3. NothingNoted'
  BY <1>1 DEF NothingNoted
<1> QED BY <1>2, <1>3 DEF More

LEMMA MoreDraft ==
  ASSUME IInv, More, IInv', Designer \/ DraftCase \/ FoldContract \/ Supplement
  PROVE  More'
<1>1. /\ pc \in {"designer", "draft", "supplement"} /\ supplement' = supplement
      /\ pc' \in {"designer", "draft", "supplement", "extend"} /\ SameFinal
  <2>1. CASE Designer BY <2>1 DEF Designer
  <2>2. CASE DraftCase BY <2>2 DEF DraftCase
  <2>3. CASE FoldContract BY <2>3 DEF FoldContract
  <2>4. CASE Supplement BY <2>4 DEF Supplement
  <2> QED BY <2>1, <2>2, <2>3, <2>4
<1>2. supplement' = <<>>
  BY <1>1 DEF More, SupplementIsApart
<1>3. SupplementIsApart'
  BY <1>2 DEF SupplementIsApart
<1> QED BY <1>1, <1>3, MoreEarly DEF Before

LEMMA MoreReviewer ==
  ASSUME IInv, More, IInv', Reviewer
  PROVE  More'
<1>1. PICK r \in Review, remarks \in SUBSET Remarks :
        \/ review' = r /\ pc' = IF r.specs = {} THEN "assemble" ELSE "supplement"
        \/ pc' = "failed"
  BY DEF Reviewer
<1>2. pc = "draft" /\ supplement' = supplement /\ SameFinal
  BY DEF Reviewer
<1>3. supplement' = <<>>
  BY <1>2 DEF More, SupplementIsApart
<1>4. SupplementIsApart'
  BY <1>3 DEF SupplementIsApart
<1>5. pc' = "assemble" => review'.specs = {}
  BY <1>1
<1> QED BY <1>1, <1>2, <1>4, <1>5, MoreEarly DEF Before

LEMMA MoreSupplementCase ==
  ASSUME IInv, More, IInv', SupplementCase
  PROVE  More'
<1>1. pc = "extend" /\ pc' = "extend" /\ draft' = draft /\ SameFinal
  BY DEF SupplementCase
<1>2. PICK c : c = Head(todo)
  OBVIOUS
<1>3. \/ supplement' = supplement
      \/ supplement' = Append(supplement, c) /\ ~KnownId(Elements(draft), c)
  BY <1>2 DEF SupplementCase, KnownId
<1>4. SupplementIsApart'
  <2>1. CASE supplement' = supplement
    BY <1>1, <2>1 DEF More, SupplementIsApart
  <2>2. CASE supplement' = Append(supplement, c) /\ ~KnownId(Elements(draft), c)
    <3>1. \A i \in 1..Len(draft) : draft[i].id # c.id
      BY <2>2 DEF KnownId, Elements
    <3>2. ASSUME NEW j \in 1..Len(supplement')
          PROVE  supplement'[j] = c \/ (j \in 1..Len(supplement) /\ supplement'[j] = supplement[j])
      BY <2>2 DEF IInv, TypeOK
    <3> QED BY <1>1, <3>1, <3>2 DEF More, SupplementIsApart
  <2> QED BY <1>3, <2>1, <2>2
<1> QED BY <1>1, <1>4, MoreEarly DEF Before

LEMMA MoreLocalValidator ==
  ASSUME IInv, More, IInv', LocalValidator
  PROVE  More'
<1>1. /\ pc = "extend" /\ pc' = "assemble" /\ SameFinal
      /\ draft' = draft /\ supplement' = supplement
  BY DEF LocalValidator
<1>2. SupplementIsApart'
  BY <1>1 DEF More, SupplementIsApart
<1> DEFINE open == {s \in review.specs : IsOpen(s, Answered)}
<1>3. {<<"open", s.id>> : s \in open} \subseteq gaps'
  BY DEF LocalValidator, Answered
<1>4. review'.specs = review.specs
  <2>1. PICK m : review' = [review EXCEPT !.missing = m]
    BY DEF LocalValidator
  <2> QED BY <2>1 DEF IInv, TypeOK, Review
<1>5. Answered' = Answered
  BY <1>1 DEF Answered, Elements
<1>6. gaps' = {} => open = {}
  BY <1>3
<1>7. gaps' = {} => \A s \in review'.specs : ~IsOpen(s, Answered')
  <2> SUFFICES ASSUME gaps' = {}, NEW s \in review.specs PROVE ~IsOpen(s, Answered)
    BY <1>4, <1>5
  <2> QED BY <1>6
<1> QED BY <1>1, <1>2, <1>7, MoreEarly DEF Before

\* A turn of the assembler that leaves a note.
LEMMA MoreNoted ==
  ASSUME IInv, More, Looking, NEW remarks, Assemble(remarks), remarks # {}, AddedAreSupplements'
  PROVE  More'
<1>1. /\ pc' = pc /\ draft' = draft /\ supplement' = supplement /\ gaps' # {}
  BY DEF Assemble
<1>2. SupplementIsApart'
  BY <1>1 DEF More, SupplementIsApart
<1> QED BY <1>1, <1>2 DEF More, NothingNoted

LEMMA MoreDropped ==
  ASSUME IInv, More, DropInvalid \/ Drop \/ Duplicate
  PROVE  More'
<1>1. PICK remarks : Looking /\ Assemble(remarks) /\ remarks # {} /\ UNCHANGED <<final, added>>
  <2>1. CASE DropInvalid BY <2>1 DEF DropInvalid, Note
  <2>2. CASE Drop BY <2>2 DEF Drop, Note
  <2>3. CASE Duplicate BY <2>3 DEF Duplicate, Note
  <2> QED BY <2>1, <2>2, <2>3
<1>2. AddedAreSupplements'
  BY <1>1 DEF More, AddedAreSupplements, Assemble, KnownId, Elements
<1> QED BY <1>1, <1>2, MoreNoted

LEMMA MoreMerge ==
  ASSUME IInv, More, Merge
  PROVE  More'
<1> DEFINE remarks == Concerns(Current) \cup Note("merged", Current)
<1>1. Looking /\ Assemble(remarks) /\ remarks # {} /\ UNCHANGED added /\ supplement' = supplement
  BY DEF Merge, Note, Assemble
<1>2. PICK c, f \in final :
        final' = (final \ {f}) \cup {[f EXCEPT !.points = @ \cup c.points,
                                              !.evidence = @ \cup c.evidence]}
  BY DEF Merge
<1>3. \A x \in final' : \E y \in final : x.id = y.id
  <2>1. f \in Case
    BY DEF IInv, TypeOK
  <2>2. [f EXCEPT !.points = @ \cup c.points, !.evidence = @ \cup c.evidence].id = f.id
    BY <2>1 DEF Case
  <2> QED BY <1>2, <2>2
<1>4. AddedAreSupplements'
  BY <1>1, <1>3 DEF More, AddedAreSupplements, KnownId, Elements
<1> HIDE DEF remarks
<1> QED BY <1>1, <1>4, MoreNoted

LEMMA MoreKeep ==
  ASSUME IInv, More, Keep
  PROVE  More'
<1> DEFINE remarks == Concerns(Current)
<1>0. PICK d : d = Current
  OBVIOUS
<1>1. /\ Looking /\ Assemble(remarks) /\ pc' = pc
      /\ UNCHANGED <<draft, supplement, review>> /\ next' = next + 1 /\ gaps' = gaps \cup remarks
  BY DEF Keep, Assemble
<1>2. PICK c \in Candidates : final' = final \cup {c}
  BY DEF Keep
<1>3. /\ d \in Case /\ c \in Case /\ c.id = d.id /\ c.points = d.points
      /\ ChecksOf(c) = Standing(d) /\ \A f \in final : f.id # c.id
  BY <1>0, <1>1, CandidateFacts DEF IInv
<1>4. added' = IF next > Len(draft) THEN added \cup {d.id} ELSE added
  BY <1>0 DEF Keep
<1>5. /\ Len(All) = Len(draft) + Len(supplement) /\ Len(draft) \in Nat /\ Len(supplement) \in Nat
      /\ \A i \in 1..Len(draft) : All[i] = draft[i]
      /\ \A i \in 1..Len(All) : i > Len(draft) =>
           i - Len(draft) \in 1..Len(supplement) /\ All[i] = supplement[i - Len(draft)]
  BY AllFacts DEF IInv
<1>6. next \in Nat /\ next \in 1..Len(All) /\ d = All[next]
  BY <1>0, <1>1, <1>5 DEF IInv, TypeOK, Looking, Current
<1>7. SupplementIsApart'
  BY <1>1 DEF More, SupplementIsApart
<1>8. AddedAreSupplements'
  <2>1. c.id \in added' <=> KnownId(Elements(supplement), c)
    <3>1. CASE next > Len(draft)
      <4>1. d = supplement[next - Len(draft)] /\ next - Len(draft) \in 1..Len(supplement)
        BY <1>5, <1>6, <3>1
      <4>2. KnownId(Elements(supplement), c)
        BY <1>3, <4>1 DEF KnownId, Elements
      <4> QED BY <1>3, <1>4, <3>1, <4>2
    <3>2. CASE ~(next > Len(draft))
      <4>1. next \in 1..Len(draft) /\ d = draft[next]
        BY <1>5, <1>6, <3>2
      <4>2. ~KnownId(Elements(supplement), c)
        BY <1>3, <4>1 DEF More, SupplementIsApart, KnownId, Elements
      <4>3. c.id \notin added
        BY <1>3 DEF IInv, TypeOK
      <4> QED BY <1>4, <3>2, <4>2, <4>3
    <3> QED BY <3>1, <3>2
  <2>2. \A f \in final : f.id \in added' <=> f.id \in added
    BY <1>3, <1>4
  <2> QED BY <1>1, <1>2, <2>1, <2>2 DEF More, AddedAreSupplements, KnownId, Elements
<1>9. NothingNoted'
  <2> SUFFICES ASSUME gaps' = {} PROVE NothingNoted'
    BY DEF NothingNoted
  <2>1. gaps = {} /\ Concerns(d) = {}
    BY <1>0, <1>1
  <2>2. Whole(d)'
    <3>1. Reviewed(d).asserts = d.asserts
      BY <2>1 DEF Concerns, Note
    <3>2. Reviewed(d).asserts = {a \in d.asserts : a.id \notin review.unsupported}
      BY <1>3 DEF Reviewed, Case
    <3>3. Standing(d) = ChecksOf(d)
      BY <3>1, <3>2 DEF Standing, ChecksOf
    <3>4. c.evidence = d.evidence
      BY <1>0, <1>2, <1>3, ResolvedFacts DEF Candidates
    <3> QED BY <1>2, <1>3, <3>3, <3>4 DEF Whole, ChecksOf
  <2>3. All' = All /\ Answered' = Answered
    BY <1>1 DEF All, Answered, Elements
  <2>4. \A i \in 1..next : Whole(All[i])'
    <3> SUFFICES ASSUME NEW i \in 1..next PROVE Whole(All[i])'
      OBVIOUS
    <3>1. CASE i = next
      BY <1>6, <2>2, <2>3, <3>1 DEF Whole, ChecksOf
    <3>2. CASE i # next
      <4>1. i \in 1..(next - 1)
        BY <1>6, <3>2
      <4>2. Whole(All[i])
        BY <2>1, <4>1 DEF More, NothingNoted
      <4> QED BY <1>2, <2>3, <4>2 DEF Whole, ChecksOf
    <3> QED BY <3>1, <3>2
  <2>5. \A i \in 1..(next' - 1) : Whole(All[i])'
    BY <1>1, <1>6, <2>4
  <2>6. pc' = "assemble"
    BY <1>1 DEF Looking
  <2>7. \A s \in review.specs : ~IsOpen(s, Answered)
    BY <1>1, <2>1, <2>6 DEF More, NothingNoted
  <2> QED BY <1>1, <2>3, <2>5, <2>6, <2>7 DEF NothingNoted, IsOpen, PointsOf, ChecksOf
<1> QED BY <1>7, <1>8, <1>9 DEF More

LEMMA MoreFinish ==
  ASSUME IInv, More, Finish
  PROVE  More'
<1>1. /\ UNCHANGED <<draft, supplement, review, next, final, added>> /\ pc = "assemble"
      /\ next > Len(All)
      /\ gaps' = gaps \cup If(~(Points \subseteq PointsOf(final)), "uncovered")
                  \cup If(review.missing # {}, "missing")
                  \cup If(review.unsupported # {}, "unsupported")
      /\ pc' \in {"failed", "NEEDS_CLARIFICATION", "READY"}
  BY DEF Finish, SameFinal
<1>2. SupplementIsApart' /\ AddedAreSupplements'
  BY <1>1 DEF More, SupplementIsApart, AddedAreSupplements, KnownId, Elements
<1>3. ASSUME gaps' = {} PROVE gaps = {} /\ Points \subseteq PointsOf(final)
  BY <1>1, <1>3 DEF If
<1>4. All' = All /\ Answered' = Answered
  BY <1>1 DEF All, Answered, Elements
<1>5. NothingNoted'
  BY <1>1, <1>3, <1>4 DEF More, NothingNoted, Whole, IsOpen, PointsOf, ChecksOf
<1> QED BY <1>2, <1>5 DEF More

LEMMA MoreOtherwise ==
  ASSUME IInv, More, Fail \/ DatabaseError \/ UNCHANGED vars
  PROVE  More'
<1>1. /\ UNCHANGED <<draft, supplement, review, next, final, added, gaps>>
      /\ pc' \in {pc, "failed"}
  BY DEF Fail, DatabaseError, SameFinal, vars
<1>2. SupplementIsApart' /\ AddedAreSupplements'
  BY <1>1 DEF More, SupplementIsApart, AddedAreSupplements, KnownId, Elements
<1>3. All' = All /\ Answered' = Answered
  BY <1>1 DEF All, Answered, Elements
<1>4. NothingNoted'
  BY <1>1, <1>3 DEF More, NothingNoted, Whole, IsOpen, PointsOf, ChecksOf
<1> QED BY <1>2, <1>4 DEF More

LEMMA MoreAtFirst == Init => More
  BY DEF Init, More, SupplementIsApart, AddedAreSupplements, NothingNoted

LEMMA MoreInvariant == Spec => []More
<1>1. IInv /\ IInv' /\ More /\ [Next]_vars => More'
  <2> SUFFICES ASSUME IInv, IInv', More, [Next]_vars PROVE More'
    OBVIOUS
  <2> QED BY MoreDraft, MoreReviewer, MoreSupplementCase, MoreLocalValidator, MoreDropped,
             MoreMerge, MoreKeep, MoreFinish, MoreOtherwise DEF Next
<1> QED BY <1>1, MoreAtFirst, Invariant, PTL DEF Spec

(* However many cases the two answers of the Designer have and whatever ids  *)
(* they use, added_case_ids names the supplement's Final Cases and no other  *)
(* (design_nodes.py 81-126, 322-366).                                        *)
THEOREM AddedCorrect == Spec => []AddedAreSupplements
<1>1. More => AddedAreSupplements
  BY DEF More
<1> QED BY <1>1, MoreInvariant, PTL

(* However many specifications and cases there are, a case set without       *)
(* remaining gaps covers every test point and closes every specification,    *)
(* although they were looked at before the assembler changed the cases.      *)
THEOREM SilenceCorrect == Spec => []SilenceIsCompleteness
<1>1. ASSUME IInv, More PROVE SilenceIsCompleteness
  <2> SUFFICES ASSUME pc \in {"READY", "NEEDS_CLARIFICATION"}, gaps = {},
                      NEW s \in review.specs
               PROVE  ~IsOpen(s, final)
    BY <1>1 DEF SilenceIsCompleteness, More, NothingNoted
  <2>1. next > Len(All) /\ ~IsOpen(s, Answered) /\ \A i \in 1..(next - 1) : Whole(All[i])
    BY <1>1 DEF More, NothingNoted
  <2>2. \A c \in Answered : \E i \in 1..Len(All) : c = All[i]
    BY <1>1, AllFacts DEF IInv
  <2>3. next \in Nat /\ Len(All) \in Nat
    BY <1>1, AllFacts DEF IInv, TypeOK
  <2>4. \A c \in Answered : Whole(c)
    BY <2>1, <2>2, <2>3
  <2> QED BY <2>1, <2>4, WholeCloses
<1> QED BY <1>1, Invariant, MoreInvariant, PTL
-----------------------------------------------------------------------------
(* Where a Final Case that is wrong comes from: the assembler judges again  *)
(* only the cases a Reviewer doubts, and before it rewrites them.  What the *)
(* first judgement looked at survives folding and merging; what the review  *)
(* and the rows rewrite is noted, or was answered with a row.               *)

\* Valid without its rule on the ids of assertions.
OtherRules(c) == c.sound /\ c.points # {} /\ c.points \subseteq Points

\* A case with this id lost its header or an assertion, which is noted, or was
\* answered with a row of the database.
Rewritten(id) ==
  \/ <<"doubted", id>> \in gaps \/ <<"stripped", id>> \in gaps
  \/ \E c \in Answered : c.id = id /\ c.fixture

Stands(f) ==
  /\ f.asserts # {} /\ f.points # {} /\ f.points \subseteq Points
  /\ f.sound \/ Rewritten(f.id)

Judged ==
  /\ pc = "designer" => held = <<>>
  /\ pc = "draft" => \A c \in Elements(held) : OtherRules(c)
  /\ \A c \in Answered : OtherRules(c)
  /\ \A f \in final : Stands(f)

\* What every Final Case has, and where one that is not valid comes from.
InvalidIsExplained ==
  \A f \in final :
    /\ f.asserts # {} /\ f.points # {} /\ f.points \subseteq Points
    /\ Valid(f) \/ Rewritten(f.id) \/ \E a, b \in f.asserts : a.id = b.id /\ a # b

\* The elements of a list that grows, shrinks, or has one replaced.
LEMMA ElementsFacts ==
  ASSUME NEW s \in Seq(Case), NEW c \in Case
  PROVE  /\ Elements(Append(s, c)) \subseteq Elements(s) \cup {c}
         /\ s # <<>> => Head(s) \in Elements(s) /\ Elements(Tail(s)) \subseteq Elements(s)
         /\ \A i \in 1..Len(s) :
              s[i] \in Elements(s) /\ Elements([s EXCEPT ![i] = c]) \subseteq Elements(s) \cup {c}
<1>1. Elements(Append(s, c)) \subseteq Elements(s) \cup {c}
  BY DEF Elements
<1>2. ASSUME s # <<>> PROVE Head(s) \in Elements(s) /\ Elements(Tail(s)) \subseteq Elements(s)
  <2>1. Head(s) = s[1] /\ 1 \in 1..Len(s)
    BY <1>2
  <2>2. ASSUME NEW j \in 1..Len(Tail(s)) PROVE j + 1 \in 1..Len(s) /\ Tail(s)[j] = s[j + 1]
    BY <1>2
  <2> QED BY <2>1, <2>2 DEF Elements
<1>3. ASSUME NEW i \in 1..Len(s)
      PROVE  s[i] \in Elements(s) /\ Elements([s EXCEPT ![i] = c]) \subseteq Elements(s) \cup {c}
  <2>1. Len([s EXCEPT ![i] = c]) = Len(s)
    OBVIOUS
  <2>2. \A j \in 1..Len(s) : [s EXCEPT ![i] = c][j] \in {s[j], c}
    OBVIOUS
  <2> QED BY <2>1, <2>2 DEF Elements
<1> QED BY <1>1, <1>2, <1>3

\* Two judged cases make a judged case.
LEMMA FoldKeepsRules ==
  ASSUME NEW c \in Case, NEW d \in Case, OtherRules(c), OtherRules(d)
  PROVE  OtherRules(Fold(c, d))
<1>1. Fold(c, d).points = c.points \cup d.points /\ Fold(c, d).sound = c.sound
  BY DEF Fold, Case
<1> QED BY <1>1 DEF OtherRules

\* A case the review changes is noted.
LEMMA ChangesAreNoted ==
  ASSUME NEW d \in Case, Reviewed(d) # d
  PROVE  <<"doubted", d.id>> \in Concerns(d) \/ <<"stripped", d.id>> \in Concerns(d)
<1>1. CASE Doubted(d)
  BY <1>1 DEF Concerns, Note
<1>2. CASE Reviewed(d).asserts # d.asserts
  BY <1>2 DEF Concerns, Note
<1>3. CASE ~Doubted(d) /\ Reviewed(d).asserts = d.asserts
  <2> DEFINE kept == {a \in d.asserts : a.id \notin review.unsupported}
  <2>1. Reviewed(d) = [d EXCEPT !.auth = d.auth /\ TRUE, !.asserts = kept]
    BY <1>3 DEF Reviewed
  <2>2. d.auth \in BOOLEAN
    BY DEF Case
  <2> HIDE DEF kept
  <2>3. Reviewed(d).asserts = kept
    BY <2>1 DEF Case
  <2>4. Reviewed(d) = [d EXCEPT !.auth = d.auth, !.asserts = d.asserts]
    BY <1>3, <2>1, <2>2, <2>3
  <2>5. Reviewed(d) = d
    BY <2>4 DEF Case
  <2> QED BY <2>5
<1> QED BY <1>1, <1>2, <1>3

\* A candidate asserts something, covers what its case covers, and is as sound
\* as its case was unless the review or a row rewrote it.
LEMMA CandidateStands ==
  ASSUME TypeOK, Looking, NEW c \in Candidates, NEW d, d = Current, OtherRules(d)
  PROVE  /\ c.asserts # {} /\ c.points # {} /\ c.points \subseteq Points
         /\ \/ c.sound \/ d.fixture
            \/ <<"doubted", d.id>> \in Concerns(d) \/ <<"stripped", d.id>> \in Concerns(d)
<1>1. c \in Resolved(d) /\ Distinguishable(c) /\ d \in Case /\ c.points = d.points
  BY CandidateFacts DEF Candidates
<1>2. c.sound = d.sound \/ d.fixture \/ Reviewed(d) # d
  BY <1>1, ResolvedFacts
<1> QED BY <1>1, <1>2, ChangesAreNoted DEF OtherRules, Distinguishable

\* The case the assembler looks at is one of the answered.
LEMMA CurrentIsAnswered ==
  ASSUME TypeOK, Looking
  PROVE  Current \in Answered
<1>1. next \in 1..Len(All)
  BY AllFacts DEF TypeOK, Looking
<1>2. CASE next <= Len(draft)
  BY <1>1, <1>2, AllFacts DEF Current, Answered, Elements
<1>3. CASE next > Len(draft)
  BY <1>1, <1>3, AllFacts DEF Current, Answered, Elements
<1> QED BY <1>1, <1>2, <1>3, AllFacts

\* There are no Final Cases before the assembler runs.
LEMMA NothingFinalYet == IInv /\ Before => final = {}
  BY DEF IInv, EmptyBefore

LEMMA JudgedDraft ==
  ASSUME IInv, Judged, Designer \/ DraftCase
  PROVE  Judged'
<1>1. CASE Designer
  BY <1>1, NothingFinalYet DEF Judged, Designer, SameFinal, Answered, Elements, Before
<1>2. CASE DraftCase
  <2>1. PICK c : c = Head(todo)
    OBVIOUS
  <2>2. c \in Case /\ draft \in Seq(Case) /\ held \in Seq(Case)
    BY <1>2, <2>1 DEF IInv, TypeOK, DraftCase
  <2>3. /\ pc = "draft" /\ pc' = "draft" /\ supplement' = supplement /\ final' = final
        /\ \/ held' = held /\ draft' = draft
           \/ Valid(c) /\ held' = Append(held, c) /\ draft' = draft
           \/ Valid(c) /\ held' = held /\ draft' = Append(draft, c)
    BY <1>2, <2>1 DEF DraftCase, SameFinal
  <2>4. Valid(c) => OtherRules(c)
    BY DEF Valid, OtherRules
  <2>5. /\ Elements(Append(held, c)) \subseteq Elements(held) \cup {c}
        /\ Elements(Append(draft, c)) \subseteq Elements(draft) \cup {c}
    BY <2>2, ElementsFacts
  <2>6. \A x \in Elements(held)' \cup Answered' : OtherRules(x)
    BY <2>3, <2>4, <2>5 DEF Judged, Answered, Elements
  <2> QED BY <2>3, <2>6, NothingFinalYet DEF Judged, OtherRules, Before
<1> QED BY <1>1, <1>2

LEMMA JudgedFold ==
  ASSUME IInv, Judged, FoldContract
  PROVE  Judged'
<1>1. PICK c : c = Head(held)
  OBVIOUS
<1>2. /\ pc = "draft" /\ pc' = "draft" /\ held # <<>> /\ held' = Tail(held)
      /\ supplement' = supplement /\ final' = final
      /\ \/ draft' = Append(draft, c)
         \/ \E i \in 1..Len(draft) : draft' = [draft EXCEPT ![i] = Fold(draft[i], c)]
  BY <1>1 DEF FoldContract, SameFinal
<1>3. draft \in Seq(Case) /\ held \in Seq(Case) /\ c \in Case
  BY <1>1, <1>2 DEF IInv, TypeOK
<1>4. c \in Elements(held) /\ Elements(held') \subseteq Elements(held)
  BY <1>1, <1>2, <1>3, ElementsFacts
<1>5. OtherRules(c) /\ \A x \in Elements(held') : OtherRules(x)
  BY <1>2, <1>4 DEF Judged
<1>6. \A x \in Elements(draft) : OtherRules(x)
  BY DEF Judged, Answered
<1>7. \A x \in Elements(draft') : OtherRules(x)
  <2>1. CASE draft' = Append(draft, c)
    BY <1>3, <1>5, <1>6, <2>1, ElementsFacts
  <2>2. CASE \E i \in 1..Len(draft) : draft' = [draft EXCEPT ![i] = Fold(draft[i], c)]
    <3>1. PICK i \in 1..Len(draft) : draft' = [draft EXCEPT ![i] = Fold(draft[i], c)]
      BY <2>2
    <3>2. PICK d : d = Fold(draft[i], c)
      OBVIOUS
    <3>3. draft[i] \in Case /\ draft[i] \in Elements(draft) /\ d \in Case
      BY <1>3, <3>2, FoldIsCase DEF Elements
    <3>4. OtherRules(d)
      BY <1>3, <1>5, <1>6, <3>2, <3>3, FoldKeepsRules
    <3>5. Elements(draft') \subseteq Elements(draft) \cup {d}
      BY <1>3, <3>1, <3>2, <3>3, ElementsFacts
    <3> QED BY <1>6, <3>4, <3>5
  <2> QED BY <1>2, <2>1, <2>2
<1>8. Answered' = Elements(draft') \cup Elements(supplement)
  BY <1>2 DEF Answered, Elements
<1>9. \A x \in Answered' : OtherRules(x)
  BY <1>7, <1>8 DEF Judged, Answered
<1>10. Elements(held)' = Elements(held')
  BY DEF Elements
<1> QED BY <1>2, <1>5, <1>9, <1>10, NothingFinalYet DEF Judged, OtherRules, Before

LEMMA JudgedSupplement ==
  ASSUME IInv, Judged, Reviewer \/ Supplement \/ SupplementCase \/ LocalValidator
  PROVE  Judged'
<1>1. /\ pc \in {"draft", "supplement", "extend"} /\ pc' \notin {"designer", "draft"}
      /\ draft' = draft /\ final' = final
  BY DEF Reviewer, Supplement, SupplementCase, LocalValidator, SameFinal
<1>2. PICK c : c = Head(todo)
  OBVIOUS
<1>3. \/ supplement' = supplement
      \/ /\ SupplementCase /\ Valid(c)
         /\ supplement' = Append(supplement, c)
  BY <1>2 DEF Reviewer, Supplement, SupplementCase, LocalValidator
<1>4. \A x \in Answered' : OtherRules(x)
  <2>1. CASE supplement' = supplement
    BY <1>1, <2>1 DEF Judged, Answered, Elements
  <2>2. CASE SupplementCase /\ Valid(c) /\ supplement' = Append(supplement, c)
    <3>1. supplement \in Seq(Case) /\ c \in Case
      BY <1>2, <2>2 DEF IInv, TypeOK, SupplementCase
    <3>2. Elements(Append(supplement, c)) \subseteq Elements(supplement) \cup {c}
      BY <3>1, ElementsFacts
    <3>3. OtherRules(c)
      BY <2>2 DEF Valid, OtherRules
    <3> QED BY <1>1, <2>2, <3>2, <3>3 DEF Judged, Answered, Elements
  <2> QED BY <1>3, <2>1, <2>2
<1> QED BY <1>1, <1>4, NothingFinalYet DEF Judged, OtherRules, Before

LEMMA JudgedAssembler ==
  ASSUME IInv, Judged, DropInvalid \/ Drop \/ Duplicate \/ Merge \/ Keep
  PROVE  Judged'
<1>1. /\ Looking /\ pc = "assemble" /\ pc' = "assemble"
      /\ draft' = draft /\ supplement' = supplement
  BY DEF DropInvalid, Drop, Duplicate, Merge, Keep, Assemble, Looking
<1>2. Answered' = Answered
  BY <1>1 DEF Answered, Elements
<1>3. PICK d : d = Current
  OBVIOUS
<1>4. d \in Answered /\ OtherRules(d)
  BY <1>1, <1>3, CurrentIsAnswered DEF IInv, Judged
<1>5. gaps \subseteq gaps'
  BY DEF DropInvalid, Drop, Duplicate, Merge, Keep, Assemble
<1>6. \A id : Rewritten(id) => Rewritten(id)'
  BY <1>2, <1>5 DEF Rewritten
<1>7. \A f \in final : Stands(f)'
  BY <1>6 DEF Judged, Stands
<1>8. \A f \in final' : Stands(f)'
  <2>1. CASE DropInvalid \/ Drop \/ Duplicate
    BY <1>7, <2>1 DEF DropInvalid, Drop, Duplicate
  <2>2. CASE Merge
    <3>1. PICK c \in Candidates, f \in final :
            final' = (final \ {f}) \cup {[f EXCEPT !.points = @ \cup c.points,
                                                  !.evidence = @ \cup c.evidence]}
      BY <2>2 DEF Merge
    <3> DEFINE g == [f EXCEPT !.points = f.points \cup c.points,
                              !.evidence = f.evidence \cup c.evidence]
    <3>2. f \in Case
      BY DEF IInv, TypeOK
    <3>3. /\ g.sound = f.sound /\ g.points = f.points \cup c.points
          /\ g.asserts = f.asserts /\ g.id = f.id
      BY <3>2 DEF Case
    <3>4. final' = (final \ {f}) \cup {g}
      BY <3>1
    <3> HIDE DEF g
    <3>5. c.points \subseteq Points
      BY <1>1, <1>3, <1>4, CandidateStands DEF IInv
    <3>6. Stands(g)'
      BY <1>7, <3>3, <3>5 DEF Stands
    <3> QED BY <1>7, <3>4, <3>6
  <2>3. CASE Keep
    <3>1. PICK c \in Candidates : final' = final \cup {c}
      BY <2>3 DEF Keep
    <3>2. c.id = d.id
      BY <1>1, <1>3, CandidateFacts DEF IInv
    <3>3. Concerns(d) \subseteq gaps'
      BY <1>3, <2>3 DEF Keep, Assemble
    <3>4. /\ c.asserts # {} /\ c.points # {} /\ c.points \subseteq Points
          /\ \/ c.sound \/ d.fixture
             \/ <<"doubted", d.id>> \in Concerns(d) \/ <<"stripped", d.id>> \in Concerns(d)
      BY <1>1, <1>3, <1>4, CandidateStands DEF IInv
    <3>5. c.sound \/ Rewritten(c.id)'
      BY <1>2, <1>4, <3>2, <3>3, <3>4 DEF Rewritten
    <3>6. Stands(c)'
      BY <3>4, <3>5 DEF Stands
    <3> QED BY <1>7, <3>1, <3>6
  <2> QED BY <2>1, <2>2, <2>3
<1> QED BY <1>1, <1>2, <1>8 DEF Judged, OtherRules

LEMMA JudgedOtherwise ==
  ASSUME Judged, Finish \/ Fail \/ DatabaseError \/ UNCHANGED vars
  PROVE  Judged'
<1>1. /\ UNCHANGED <<held, draft, supplement, final>> /\ gaps \subseteq gaps'
      /\ pc' \in {pc, "failed", "NEEDS_CLARIFICATION", "READY"}
  BY DEF Finish, Fail, DatabaseError, SameFinal, vars
<1>2. Answered' = Answered /\ Elements(held)' = Elements(held)
  BY <1>1 DEF Answered, Elements
<1>3. \A f \in final : Stands(f)'
  BY <1>1, <1>2 DEF Judged, Stands, Rewritten
<1> QED BY <1>1, <1>2, <1>3 DEF Judged, OtherRules

(* Whatever the models answer, a Final Case asserts something and covers     *)
(* approved test points, and one the local validator would refuse has two    *)
(* assertions with one id, which a contract case folded into another can     *)
(* cause (case_rules.py 31-76), or was rewritten after it was judged: what   *)
(* the review took from it is noted (design_nodes.py 249-298), and a row it  *)
(* names may have any value (database.py 555-587).                           *)
THEOREM ExplainedCorrect == Spec => []InvalidIsExplained
<1>1. Init => Judged
  BY DEF Init, Judged, Answered, Elements
<1>2. IInv /\ Judged /\ [Next]_vars => Judged'
  BY JudgedDraft, JudgedFold, JudgedSupplement, JudgedAssembler, JudgedOtherwise DEF Next
<1>3. Judged => InvalidIsExplained
  BY DEF Judged, Stands, InvalidIsExplained, Valid
<1> QED BY <1>1, <1>2, <1>3, Invariant, PTL DEF Spec

(* Among assertions of different ids, a READY case set without remaining     *)
(* gaps has no hard validation error, if no case was answered with a row of  *)
(* the database: silence then means validity too.  Each of the three is      *)
(* needed: the run CaseDesign_valid shows it for the ids.                    *)
SilenceIsValidity ==
  gaps = {} /\ (\A c \in Answered : ~c.fixture) => ReadyCasesAreValid

THEOREM ReadyCorrect ==
  ASSUME \A a, b \in Assertions : a.id = b.id => a = b
  PROVE  Spec => []SilenceIsValidity
<1>1. ASSUME IInv, InvalidIsExplained PROVE SilenceIsValidity
  <2>1. \A f \in final : f.asserts \subseteq Assertions
    BY <1>1 DEF IInv, TypeOK, Case
  <2> QED BY <1>1, <2>1 DEF InvalidIsExplained, Rewritten, SilenceIsValidity, ReadyCasesAreValid
<1> QED BY <1>1, Invariant, ExplainedCorrect, PTL
=============================================================================
