---------------------------- MODULE AgentProofs ----------------------------
(* For any budgets, number of attempts, replies and phases: the budget of   *)
(* the calls to the model is kept (IInv), and the calls, the outcome of a   *)
(* phase and the telemetry of the run tell the same story (TInv, on top of  *)
(* IInv).  What OfStage computes is found by induction over the length of a *)
(* sequence: Induction is the scheme for a set of numbers, as the provers   *)
(* cannot instantiate the library's, for an operator.  Then, for any        *)
(* operation and whatever the NLU agent answers: what the analysis makes of *)
(* the answer (AnalysisInv).                                                *)
EXTENDS LlmAgent, RequirementAnalysis, TLAPS, WellFoundedInduction, SequenceTheorems, FiniteSetTheorems

-----------------------------------------------------------------------------
(* The calls of one agent among the calls of all.                           *)

\* Induction over the naturals, by a set: the least number outside it.
LEMMA Induction ==
  ASSUME NEW T \in SUBSET Nat, 0 \in T, \A n \in T : n + 1 \in T
  PROVE  T = Nat
<1> DEFINE R == OpToRel(<, Nat)
<1>1. SUFFICES ASSUME Nat \ T # {} PROVE FALSE
  OBVIOUS
<1>2. PICK x \in Nat \ T : \A y \in Nat \ T : ~(<<y, x>> \in R)
  <2>1. IsWellFoundedOn(R, Nat)
    BY NatLessThanWellFounded
  <2>2. Nat \ T \subseteq Nat
    OBVIOUS
  <2> HIDE DEF R
  <2> QED BY <1>1, <2>1, <2>2, WFMin
<1>3. x - 1 \in Nat /\ x - 1 < x /\ x - 1 + 1 = x
  OBVIOUS
<1>4. <<x - 1, x>> \in R
  BY <1>3 DEF R, OpToRel
<1>5. x - 1 \in T
  BY <1>2, <1>3, <1>4
<1> QED BY <1>2, <1>3, <1>5

LEMMA AppendFacts ==
  ASSUME NEW S, NEW r \in Seq(S), NEW e \in S
  PROVE  /\ Append(r, e) \in Seq(S) /\ Len(Append(r, e)) = Len(r) + 1 /\ Append(r, e) # <<>>
         /\ DOMAIN Append(r, e) = 1..(Len(r) + 1) /\ DOMAIN r = 1..Len(r) /\ Len(r) \in Nat
         /\ \A k \in 1..Len(r) : Append(r, e)[k] = r[k]
         /\ Append(r, e)[Len(r) + 1] = e
OBVIOUS

\* A sequence that is not empty is what was before its last element, and that.
LEMMA LastElement ==
  ASSUME NEW S, NEW r \in Seq(S), r # <<>>
  PROVE  \E p \in Seq(S), e \in S : r = Append(p, e) /\ e = r[Len(r)] /\ Len(r) = Len(p) + 1
<1>1. PICK p \in Seq(S), e \in S : r = Append(p, e)
  BY SequenceEmptyOrAppend
<1> QED BY <1>1, AppendFacts

LEMMA ConcatAppend ==
  ASSUME NEW S, NEW a \in Seq(S), NEW b \in Seq(S), NEW e \in S
  PROVE  a \o b \in Seq(S) /\ a \o Append(b, e) = Append(a \o b, e)
OBVIOUS

\* What OfStage recurs over, as a function on 0..n.
Picks(F, n, r, s) ==
  F = [k \in 0..n |->
         IF k = 0 THEN <<>> ELSE IF r[k].stage = s THEN Append(F[k - 1], r[k]) ELSE F[k - 1]]

\* It is defined by its value at 0 and the step from k - 1 to k.
LEMMA PicksStep ==
  ASSUME NEW n \in Nat, NEW r, NEW s, NEW F, Picks(F, n, r, s)
  PROVE  /\ DOMAIN F = 0..n /\ F[0] = <<>>
         /\ \A k \in 0..n : k + 1 \in 0..n =>
              F[k + 1] = IF r[k + 1].stage = s THEN Append(F[k], r[k + 1]) ELSE F[k]
<1> DEFINE Value(k) == IF k = 0 THEN <<>> ELSE IF r[k].stage = s THEN Append(F[k - 1], r[k]) ELSE F[k - 1]
<1>1. F = [k \in 0..n |-> Value(k)]
  BY DEF Picks
<1> HIDE DEF Value
<1>2. DOMAIN F = 0..n /\ \A k \in 0..n : F[k] = Value(k)
  BY <1>1
<1>3. F[0] = <<>>
  BY <1>2 DEF Value
<1>4. ASSUME NEW k \in 0..n, k + 1 \in 0..n
      PROVE  F[k + 1] = IF r[k + 1].stage = s THEN Append(F[k], r[k + 1]) ELSE F[k]
  <2>1. k + 1 # 0 /\ k + 1 - 1 = k
    OBVIOUS
  <2>2. F[k + 1] = Value(k + 1)
    BY <1>2, <1>4
  <2> QED BY ONLY <2>1, <2>2 DEF Value
<1> QED BY <1>2, <1>3, <1>4

LEMMA PicksExists ==
  ASSUME NEW n \in Nat, NEW r, NEW s PROVE \E F : Picks(F, n, r, s)
<1> DEFINE T == {m \in Nat : \E F : Picks(F, m, r, s)}
<1>1. 0 \in T
  <2> DEFINE F == [k \in 0..0 |-> <<>>]
  <2>1. Picks(F, 0, r, s)
    BY DEF Picks
  <2> HIDE DEF F
  <2>2. \E H : Picks(H, 0, r, s)
    BY <2>1
  <2> QED BY <2>2
<1>2. ASSUME NEW m \in T PROVE m + 1 \in T
  <2> m \in Nat
    OBVIOUS
  <2>1. PICK F : Picks(F, m, r, s)
    OBVIOUS
  <2> DEFINE next == IF r[m + 1].stage = s THEN Append(F[m], r[m + 1]) ELSE F[m]
             G == [k \in 0..(m + 1) |-> IF k = m + 1 THEN next ELSE F[k]]
             Value(k) == IF k = 0 THEN <<>> ELSE IF r[k].stage = s THEN Append(G[k - 1], r[k]) ELSE G[k - 1]
  <2> HIDE DEF T
  <2>2. DOMAIN G = 0..(m + 1) /\ G[m + 1] = next /\ \A k \in 0..m : G[k] = F[k]
    OBVIOUS
  <2>3. DOMAIN F = 0..m /\ F[0] = <<>>
    BY <2>1, PicksStep
  <2> HIDE DEF G
  <2>4. ASSUME NEW k \in 0..(m + 1) PROVE G[k] = Value(k)
    <3>1. CASE k = 0
      BY <2>2, <2>3, <3>1
    <3>2. CASE k = m + 1
      <4>1. k # 0 /\ k - 1 = m /\ m \in 0..m
        BY <3>2
      <4>2. G[m] = F[m]
        BY <2>2, <4>1
      <4> QED BY <2>2, <3>2, <4>1, <4>2
    <3>3. CASE k # 0 /\ k # m + 1
      <4>1. k \in 0..m /\ k - 1 \in 0..m /\ k - 1 + 1 = k
        BY <3>3
      <4>2. F[k - 1 + 1] = IF r[k - 1 + 1].stage = s THEN Append(F[k - 1], r[k - 1 + 1]) ELSE F[k - 1]
        BY <2>1, <4>1, PicksStep
      <4> QED BY <2>2, <3>3, <4>1, <4>2
    <3> QED BY <3>1, <3>2, <3>3
  <2>5. G = [k \in 0..(m + 1) |-> Value(k)]
    <3> HIDE DEF Value
    <3>1. G = [k \in DOMAIN G |-> G[k]]
      BY DEF G
    <3> QED BY <2>2, <2>4, <3>1
  <2>6. Picks(G, m + 1, r, s)
    BY <2>5 DEF Picks
  <2> QED BY <2>6 DEF T
<1>3. T = Nat
  <2>1. T \in SUBSET Nat
    OBVIOUS
  <2> HIDE DEF T
  <2> QED BY <1>1, <1>2, <2>1, Induction
<1> QED BY <1>3

\* Two such functions agree as far as their sequences do.
LEMMA PicksAgree ==
  ASSUME NEW n \in Nat, NEW m \in Nat, NEW r, NEW q, NEW s, NEW F, NEW G,
         Picks(F, n, r, s), Picks(G, m, q, s), n <= m, \A k \in 1..n : r[k] = q[k]
  PROVE  \A k \in 0..n : F[k] = G[k]
<1> DEFINE T == {k \in Nat : k <= n => F[k] = G[k]}
<1>1. 0 \in T
  BY PicksStep
<1>2. ASSUME NEW k \in T PROVE k + 1 \in T
  <2> SUFFICES ASSUME k + 1 <= n PROVE F[k + 1] = G[k + 1]
    OBVIOUS
  <2>1. k \in Nat /\ F[k] = G[k] /\ k \in 0..n /\ k + 1 \in 0..n /\ k \in 0..m /\ k + 1 \in 0..m
        /\ k + 1 \in 1..n
    OBVIOUS
  <2> HIDE DEF T
  <2>2. F[k + 1] = IF r[k + 1].stage = s THEN Append(F[k], r[k + 1]) ELSE F[k]
    BY <2>1, PicksStep
  <2>3. G[k + 1] = IF q[k + 1].stage = s THEN Append(G[k], q[k + 1]) ELSE G[k]
    BY <2>1, PicksStep
  <2> QED BY <2>1, <2>2, <2>3
<1>3. T = Nat
  <2>1. T \in SUBSET Nat
    OBVIOUS
  <2> HIDE DEF T
  <2> QED BY <1>1, <1>2, <2>1, Induction
<1> QED BY <1>3

LEMMA OfStageIsPicks ==
  ASSUME NEW r, Len(r) \in Nat, NEW s
  PROVE  \E F : Picks(F, Len(r), r, s) /\ OfStage(r, s) = F[Len(r)]
<1> DEFINE F == CHOOSE f : Picks(f, Len(r), r, s)
<1>1. Picks(F, Len(r), r, s)
  BY PicksExists
<1>2. OfStage(r, s) = F[Len(r)]
  BY DEF OfStage, Picks
<1> QED BY <1>1, <1>2

LEMMA OfStageEmpty == ASSUME NEW s PROVE OfStage(<<>>, s) = <<>>
<1>1. Len(<<>>) \in Nat /\ Len(<<>>) = 0
  OBVIOUS
<1>2. PICK F : Picks(F, 0, <<>>, s) /\ OfStage(<<>>, s) = F[0]
  BY <1>1, OfStageIsPicks
<1> QED BY <1>2, PicksStep

\* One call more comes after those of its agent, and changes no other's.
LEMMA OfStageAppend ==
  ASSUME NEW r \in Seq(Metric), NEW e \in Metric, NEW s
  PROVE  OfStage(Append(r, e), s) =
           IF e.stage = s THEN Append(OfStage(r, s), e) ELSE OfStage(r, s)
<1> DEFINE n == Len(r)
           q == Append(r, e)
<1>1. n \in Nat /\ Len(q) = n + 1 /\ q[n + 1] = e /\ \A k \in 1..n : r[k] = q[k]
  OBVIOUS
<1> HIDE DEF n, q
<1>2. PICK F : Picks(F, n, r, s) /\ OfStage(r, s) = F[n]
  BY <1>1, OfStageIsPicks DEF n
<1>3. PICK G : Picks(G, n + 1, q, s) /\ OfStage(q, s) = G[n + 1]
  BY <1>1, OfStageIsPicks
<1>4. F[n] = G[n]
  <2>1. n + 1 \in Nat /\ n <= n + 1 /\ n \in 0..n
    BY <1>1
  <2>2. \A k \in 0..n : F[k] = G[k]
    BY <1>1, <1>2, <1>3, <2>1, PicksAgree
  <2> QED BY <2>1, <2>2
<1>5. G[n + 1] = IF q[n + 1].stage = s THEN Append(G[n], q[n + 1]) ELSE G[n]
  <2>1. n \in 0..(n + 1) /\ n + 1 \in 0..(n + 1) /\ n + 1 \in Nat
    BY <1>1
  <2> QED BY <1>3, <2>1, PicksStep
<1>6. OfStage(q, s) = IF e.stage = s THEN Append(OfStage(r, s), e) ELSE OfStage(r, s)
  BY <1>1, <1>2, <1>3, <1>4, <1>5
<1> QED BY <1>6 DEF q

\* The calls of an agent are calls.
LEMMA OfStageType == ASSUME NEW r \in Seq(Metric), NEW s PROVE OfStage(r, s) \in Seq(Metric)
<1> DEFINE T == {n \in Nat : \A q \in Seq(Metric) : Len(q) = n => OfStage(q, s) \in Seq(Metric)}
<1>1. 0 \in T
  <2> SUFFICES ASSUME NEW q \in Seq(Metric), Len(q) = 0 PROVE OfStage(q, s) \in Seq(Metric)
    OBVIOUS
  <2>1. q = <<>> /\ <<>> \in Seq(Metric)
    BY EmptySeq
  <2> QED BY <2>1, OfStageEmpty
<1>2. ASSUME NEW n \in T PROVE n + 1 \in T
  <2> SUFFICES ASSUME NEW q \in Seq(Metric), Len(q) = n + 1 PROVE OfStage(q, s) \in Seq(Metric)
    OBVIOUS
  <2>1. q # <<>>
    OBVIOUS
  <2>2. PICK p \in Seq(Metric), e \in Metric : q = Append(p, e) /\ Len(q) = Len(p) + 1
    BY <2>1, LastElement
  <2>3. Len(p) = n
    BY <2>2, AppendFacts
  <2>4. OfStage(p, s) \in Seq(Metric)
    BY <2>3
  <2> HIDE DEF T
  <2>5. Append(OfStage(p, s), e) \in Seq(Metric)
    BY <2>4
  <2>6. OfStage(Append(p, e), s) =
          IF e.stage = s THEN Append(OfStage(p, s), e) ELSE OfStage(p, s)
    BY OfStageAppend
  <2> QED BY ONLY <2>2, <2>4, <2>5, <2>6
<1>3. T = Nat
  <2>1. T \in SUBSET Nat
    OBVIOUS
  <2> HIDE DEF T
  <2> QED BY <1>1, <1>2, <2>1, Induction
<1> QED BY <1>3

\* The calls of a phase are numbered after those of the one before.
LEMMA OfStageConcat ==
  ASSUME NEW a \in Seq(Metric), NEW b \in Seq(Metric), NEW s
  PROVE  OfStage(a \o b, s) = OfStage(a, s) \o OfStage(b, s)
<1> DEFINE Splits(q) == OfStage(a \o q, s) = OfStage(a, s) \o OfStage(q, s)
           T == {n \in Nat : \A q \in Seq(Metric) : Len(q) = n => Splits(q)}
<1>1. 0 \in T
  <2> SUFFICES ASSUME NEW q \in Seq(Metric), Len(q) = 0 PROVE Splits(q)
    OBVIOUS
  <2>1. q = <<>> /\ a \o <<>> = a
    BY EmptySeq, ConcatEmptySeq
  <2>2. OfStage(a, s) \o <<>> = OfStage(a, s)
    BY OfStageType, ConcatEmptySeq
  <2> QED BY <2>1, <2>2, OfStageEmpty
<1>2. ASSUME NEW n \in T PROVE n + 1 \in T
  <2> SUFFICES ASSUME NEW q \in Seq(Metric), Len(q) = n + 1 PROVE Splits(q)
    OBVIOUS
  <2>1. q # <<>>
    OBVIOUS
  <2>2. PICK p \in Seq(Metric), e \in Metric : q = Append(p, e) /\ Len(q) = Len(p) + 1
    BY <2>1, LastElement
  <2>3. Len(p) = n
    BY <2>2, AppendFacts
  <2>4. Splits(p)
    BY <2>3
  <2> HIDE DEF T
  <2>5. a \o q = Append(a \o p, e) /\ a \o p \in Seq(Metric)
    BY ONLY <2>2, ConcatAppend
  <2>6. OfStage(a \o q, s) =
          IF e.stage = s THEN Append(OfStage(a \o p, s), e) ELSE OfStage(a \o p, s)
    <3> DEFINE ap == a \o p
    <3> HIDE DEF ap
    <3>1. OfStage(Append(ap, e), s) = IF e.stage = s THEN Append(OfStage(ap, s), e) ELSE OfStage(ap, s)
      BY <2>5, OfStageAppend DEF ap
    <3> QED BY <2>5, <3>1 DEF ap
  <2>7. OfStage(q, s) = IF e.stage = s THEN Append(OfStage(p, s), e) ELSE OfStage(p, s)
    BY <2>2, OfStageAppend
  <2>8. OfStage(a, s) \in Seq(Metric) /\ OfStage(p, s) \in Seq(Metric)
    BY OfStageType
  <2>9. OfStage(a, s) \o Append(OfStage(p, s), e) = Append(OfStage(a, s) \o OfStage(p, s), e)
    BY ONLY <2>8, ConcatAppend
  <2> QED BY <2>4, <2>6, <2>7, <2>9
<1>3. T = Nat
  <2>1. T \in SUBSET Nat
    OBVIOUS
  <2> HIDE DEF T
  <2> QED BY <1>1, <1>2, <2>1, Induction
<1> QED BY <1>3

\* An agent that made no call has no record.
LEMMA OfStageNone ==
  ASSUME NEW r \in Seq(Metric), NEW s, \A k \in DOMAIN r : r[k].stage # s
  PROVE  OfStage(r, s) = <<>>
<1> DEFINE Without(q) == \A k \in DOMAIN q : q[k].stage # s
           T == {n \in Nat : \A q \in Seq(Metric) :
                   Len(q) = n /\ Without(q) => OfStage(q, s) = <<>>}
<1>1. 0 \in T
  <2> SUFFICES ASSUME NEW q \in Seq(Metric), Len(q) = 0 PROVE OfStage(q, s) = <<>>
    OBVIOUS
  <2>1. q = <<>>
    BY EmptySeq
  <2> QED BY <2>1, OfStageEmpty
<1>2. ASSUME NEW n \in T PROVE n + 1 \in T
  <2> SUFFICES ASSUME NEW q \in Seq(Metric), Len(q) = n + 1, Without(q)
               PROVE  OfStage(q, s) = <<>>
    OBVIOUS
  <2>1. q # <<>>
    OBVIOUS
  <2>2. PICK p \in Seq(Metric), e \in Metric : q = Append(p, e)
    BY <2>1, LastElement
  <2>3. Len(p) = n /\ Without(p) /\ e.stage # s
    BY <2>2, AppendFacts
  <2>4. OfStage(p, s) = <<>>
    BY <2>3
  <2> HIDE DEF T
  <2> QED BY <2>2, <2>3, <2>4, OfStageAppend
<1>3. T = Nat
  <2>1. T \in SUBSET Nat
    OBVIOUS
  <2> HIDE DEF T
  <2> QED BY <1>1, <1>2, <2>1, Induction
<1> QED BY <1>3

\* The last record is the last of its agent.
LEMMA OfStageLast ==
  ASSUME NEW r \in Seq(Metric), r # <<>>
  PROVE  LET end == r[Len(r)]
             calls == OfStage(r, end.stage)
         IN  end \in Metric /\ calls # <<>> /\ Len(calls) \in DOMAIN calls /\ calls[Len(calls)] = end
<1>1. PICK p \in Seq(Metric), e \in Metric : r = Append(p, e) /\ e = r[Len(r)]
  BY LastElement
<1>2. OfStage(r, e.stage) = Append(OfStage(p, e.stage), e)
  BY <1>1, OfStageAppend
<1>3. OfStage(p, e.stage) \in Seq(Metric)
  BY OfStageType
<1> DEFINE c == OfStage(p, e.stage)
<1> HIDE DEF c
<1>4. LET q == Append(c, e) IN q # <<>> /\ Len(q) \in DOMAIN q /\ q[Len(q)] = e
  BY <1>3, AppendFacts DEF c
<1> QED BY <1>1, <1>2, <1>4 DEF c

-----------------------------------------------------------------------------
(* What the graders count.                                                  *)

\* Errors of an agent that no call has answered yet.
Balance(calls) == Errors(calls) - RetryCalls(calls)
Entries(calls) == [k \in DOMAIN calls |-> EntryOf(calls[k])]
IsRetry(r) == r.attempt > 1 \/ r.mode # "generate"
Begins(calls) ==
  /\ \A k \in DOMAIN calls : calls[k].attempt >= 1
  /\ calls # <<>> => calls[1].attempt = 1 /\ calls[1].mode = "generate"

\* What a set of places counts, with one place more.
LEMMA CountMore ==
  ASSUME NEW n \in Nat, NEW S \in SUBSET (1..n), NEW T, NEW more \in BOOLEAN,
         T = S \cup (IF more THEN {n + 1} ELSE {})
  PROVE  /\ Cardinality(S) \in Nat
         /\ Cardinality(T) = Cardinality(S) + IF more THEN 1 ELSE 0
<1>1. IsFiniteSet(1..n)
  BY FS_Interval
<1>2. IsFiniteSet(S) /\ Cardinality(S) \in Nat
  BY <1>1, FS_Subset, FS_CardinalityType
<1>3. n + 1 \notin S
  OBVIOUS
<1>4. Cardinality(S \cup {n + 1}) = Cardinality(S) + 1
  BY <1>2, <1>3, FS_AddElement
<1> QED BY <1>2, <1>4, SMTT(30)

LEMMA ErrorsAppend ==
  ASSUME NEW r \in Seq(Metric), NEW e \in Metric
  PROVE  /\ Errors(r) \in Nat
         /\ Errors(Append(r, e)) = Errors(r) + IF ~e.ok THEN 1 ELSE 0
<1> DEFINE q == Append(r, e)
           S == {k \in DOMAIN r : ~r[k].ok}
           T == {k \in DOMAIN q : ~q[k].ok}
           more == ~e.ok
<1>1. /\ DOMAIN q = 1..(Len(r) + 1) /\ DOMAIN r = 1..Len(r) /\ Len(r) \in Nat
      /\ \A k \in 1..Len(r) : q[k] = r[k]
      /\ q[Len(r) + 1] = e
  BY AppendFacts
<1> HIDE DEF q
<1>2. S \in SUBSET (1..Len(r)) /\ more \in BOOLEAN
  BY <1>1
<1>3. T = S \cup (IF more THEN {Len(r) + 1} ELSE {})
  BY <1>1
<1>4. Errors(r) = Cardinality(S) /\ Errors(q) = Cardinality(T)
  BY DEF Errors
<1> HIDE DEF S, T, more
<1>5. Errors(r) \in Nat /\ Errors(q) = Errors(r) + IF more THEN 1 ELSE 0
  BY <1>1, <1>2, <1>3, <1>4, CountMore
<1> QED BY <1>5 DEF q, more

LEMMA RetryCallsAppend ==
  ASSUME NEW r \in Seq(Metric), NEW e \in Metric
  PROVE  /\ RetryCalls(r) \in Nat
         /\ RetryCalls(Append(r, e)) = RetryCalls(r) + IF IsRetry(e) THEN 1 ELSE 0
<1> DEFINE q == Append(r, e)
           S == {k \in DOMAIN r : r[k].attempt > 1 \/ r[k].mode # "generate"}
           T == {k \in DOMAIN q : q[k].attempt > 1 \/ q[k].mode # "generate"}
           more == e.attempt > 1 \/ e.mode # "generate"
<1>1. /\ DOMAIN q = 1..(Len(r) + 1) /\ DOMAIN r = 1..Len(r) /\ Len(r) \in Nat
      /\ \A k \in 1..Len(r) : q[k] = r[k]
      /\ q[Len(r) + 1] = e
  BY AppendFacts
<1> HIDE DEF q
<1>2. S \in SUBSET (1..Len(r)) /\ more \in BOOLEAN
  BY <1>1
<1>3. T = S \cup (IF more THEN {Len(r) + 1} ELSE {})
  BY <1>1
<1>4. RetryCalls(r) = Cardinality(S) /\ RetryCalls(q) = Cardinality(T)
  BY DEF RetryCalls
<1> HIDE DEF S, T, more
<1>5. RetryCalls(r) \in Nat /\ RetryCalls(q) = RetryCalls(r) + IF more THEN 1 ELSE 0
  BY <1>1, <1>2, <1>3, <1>4, CountMore
<1> QED BY <1>5 DEF q, more, IsRetry

LEMMA BalanceAppend ==
  ASSUME NEW r \in Seq(Metric), NEW e \in Metric
  PROVE  /\ Balance(r) \in Int
         /\ Balance(Append(r, e)) =
              Balance(r) + (IF ~e.ok THEN 1 ELSE 0) - (IF IsRetry(e) THEN 1 ELSE 0)
  BY ErrorsAppend, RetryCallsAppend DEF Balance

LEMMA BalanceEmpty == Balance(<<>>) = 0
<1>1. Errors(<<>>) = Cardinality({}) /\ RetryCalls(<<>>) = Cardinality({})
  <2>1. DOMAIN <<>> = {}
    OBVIOUS
  <2>2. {k \in DOMAIN <<>> : ~<<>>[k].ok} = {}
    BY <2>1
  <2>3. {k \in DOMAIN <<>> : <<>>[k].attempt > 1 \/ <<>>[k].mode # "generate"} = {}
    BY <2>1
  <2> QED BY <2>2, <2>3 DEF Errors, RetryCalls
<1>2. Cardinality({}) = 0
  BY FS_EmptySet
<1> QED BY <1>1, <1>2 DEF Balance

LEMMA BeginsAppend ==
  ASSUME NEW r \in Seq(Metric), NEW e \in Metric, Begins(r), e.attempt >= 1,
         r = <<>> => ~IsRetry(e)
  PROVE  Begins(Append(r, e))
<1> DEFINE q == Append(r, e)
<1>1. /\ q # <<>> /\ DOMAIN q = 1..(Len(r) + 1) /\ DOMAIN r = 1..Len(r) /\ Len(r) \in Nat
      /\ \A k \in 1..Len(r) : q[k] = r[k]
      /\ q[Len(r) + 1] = e
  BY AppendFacts
<1> HIDE DEF q
<1>2. \A k \in DOMAIN q : q[k].attempt >= 1
  BY <1>1 DEF Begins
<1>3. q[1].attempt = 1 /\ q[1].mode = "generate"
  <2>1. CASE r = <<>>
    <3>1. Len(r) = 0
      BY <2>1
    <3>2. q[1] = e
      BY <1>1, <3>1
    <3>3. e.attempt \in Nat
      BY DEF Metric
    <3> QED BY <2>1, <3>2, <3>3 DEF IsRetry
  <2>2. CASE r # <<>>
    <3>1. 1 \in 1..Len(r)
      BY <2>2, EmptySeq
    <3> QED BY <1>1, <2>2, <3>1 DEF Begins
  <2> QED BY <2>1, <2>2
<1> QED BY <1>2, <1>3 DEF Begins, q

LEMMA EntriesFacts ==
  ASSUME NEW r \in Seq(Metric)
  PROVE  /\ Entries(r) \in Seq(Entry) /\ Len(Entries(r)) = Len(r) /\ DOMAIN Entries(r) = DOMAIN r
         /\ Errors(Entries(r)) = Errors(r) /\ RetryCalls(Entries(r)) = RetryCalls(r)
         /\ \A k \in DOMAIN r : Entries(r)[k] = EntryOf(r[k]) /\ EntryOf(r[k]) \in Entry
         /\ Entries(r) = <<>> <=> r = <<>>
<1> DEFINE n == Len(r)
<1>1. n \in Nat /\ DOMAIN r = 1..n /\ \A k \in 1..n : r[k] \in Metric
  OBVIOUS
<1>2. \A k \in 1..n : EntryOf(r[k]) \in Entry
  BY <1>1 DEF EntryOf, Entry, Metric
<1>3. Entries(r) = [k \in 1..n |-> EntryOf(r[k])]
  BY <1>1 DEF Entries
<1> DEFINE es == Entries(r)
<1>4. es \in [1..n -> Entry]
  BY <1>2, <1>3
<1>5. es \in Seq(Entry) /\ Len(es) = n /\ DOMAIN es = 1..n
  BY <1>1, <1>4, IsASeq, LenProperties
<1>6. \A k \in 1..n : es[k] = EntryOf(r[k])
  BY <1>3
<1> HIDE DEF es
<1>7. \A k \in 1..n : es[k].ok = r[k].ok /\ es[k].attempt = r[k].attempt /\ es[k].mode = r[k].mode
  <2> SUFFICES ASSUME NEW k \in 1..n
               PROVE  es[k].ok = r[k].ok /\ es[k].attempt = r[k].attempt /\ es[k].mode = r[k].mode
    OBVIOUS
  <2>1. es[k] = EntryOf(r[k])
    BY ONLY <1>6
  <2> QED BY ONLY <2>1 DEF EntryOf
<1>8. {k \in DOMAIN es : ~es[k].ok} = {k \in DOMAIN r : ~r[k].ok}
  BY <1>1, <1>5, <1>7
<1>9. {k \in DOMAIN es : es[k].attempt > 1 \/ es[k].mode # "generate"}
        = {k \in DOMAIN r : r[k].attempt > 1 \/ r[k].mode # "generate"}
  BY <1>1, <1>5, <1>7
<1>10. Errors(es) = Errors(r) /\ RetryCalls(es) = RetryCalls(r)
  BY <1>8, <1>9 DEF Errors, RetryCalls
<1>11. es = <<>> <=> r = <<>>
  BY <1>5, EmptySeq
<1> QED BY <1>1, <1>2, <1>5, <1>6, <1>10, <1>11 DEF es

LEMMA EntryExcept ==
  ASSUME NEW e \in Metric
  PROVE  /\ EntryOf(e) \in Entry /\ EntryOf(e).cat = e.cat
         /\ [EntryOf(e) EXCEPT !.cat = e.cat] = EntryOf(e)
         /\ \A w \in Entry :
              /\ [EntryOf(e) EXCEPT !.cat = w.cat] \in Entry
              /\ [[EntryOf(e) EXCEPT !.cat = w.cat] EXCEPT !.cat = e.cat] = EntryOf(e)
<1>1. EntryOf(e) = [attempt |-> e.attempt, mode |-> e.mode, ok |-> e.ok, cat |-> e.cat]
  BY DEF EntryOf
<1>2. /\ e.attempt \in Nat /\ e.mode \in Modes /\ e.ok \in BOOLEAN
      /\ e.cat \in Categories \cup {NoCategory}
  BY DEF Metric
<1>3. ASSUME NEW w \in Entry
      PROVE  [EntryOf(e) EXCEPT !.cat = w.cat]
               = [attempt |-> e.attempt, mode |-> e.mode, ok |-> e.ok, cat |-> w.cat]
             /\ w.cat \in Categories \cup {NoCategory}
  BY <1>1 DEF Entry
<1>4. EntryOf(e) \in Entry /\ EntryOf(e).cat = e.cat
  BY <1>1, <1>2 DEF Entry
<1>5. [EntryOf(e) EXCEPT !.cat = e.cat] = EntryOf(e)
  BY <1>1
<1>6. ASSUME NEW w \in Entry
      PROVE  /\ [EntryOf(e) EXCEPT !.cat = w.cat] \in Entry
             /\ [[EntryOf(e) EXCEPT !.cat = w.cat] EXCEPT !.cat = e.cat] = EntryOf(e)
  <2> DEFINE x == [EntryOf(e) EXCEPT !.cat = w.cat]
  <2>1. x = [attempt |-> e.attempt, mode |-> e.mode, ok |-> e.ok, cat |-> w.cat]
        /\ w.cat \in Categories \cup {NoCategory}
    BY <1>3
  <2> HIDE DEF x
  <2>2. x \in Entry
    BY <1>2, <2>1 DEF Entry
  <2>3. [x EXCEPT !.cat = e.cat] = EntryOf(e)
    BY <1>1, <2>1
  <2> QED BY <2>2, <2>3 DEF x
<1> QED BY <1>4, <1>5, <1>6

\* What _merge leaves of the calls of one agent.
LEMMA MergedFacts ==
  ASSUME NEW old \in [Stages -> Seq(Entry)], NEW r \in Seq(Metric), NEW s \in Stages
  PROVE  LET new == OfStage(r, s)
             is == Merged(old, r)[s]
         IN  /\ is \in Seq(Entry) /\ Len(is) >= Len(new)
             /\ \A k \in DOMAIN new : [is[k] EXCEPT !.cat = new[k].cat] = EntryOf(new[k])
             /\ \A k \in DOMAIN new : new[k].cat # NoCategory => is[k] = EntryOf(new[k])
             /\ old[s] = <<>> => is = Entries(new)
             /\ new = <<>> => is = old[s]
<1> DEFINE new == OfStage(r, s)
           was == old[s]
           n == Len(new)
           m == Len(was)
           size == IF n > m THEN n ELSE m
           is == Merged(old, r)[s]
           Value(k) == IF k > n THEN was[k]
                       ELSE IF new[k].cat = NoCategory /\ k <= m
                       THEN [EntryOf(new[k]) EXCEPT !.cat = was[k].cat]
                       ELSE EntryOf(new[k])
<1>1. new \in Seq(Metric) /\ was \in Seq(Entry)
  BY OfStageType
<1>2. is = [k \in 1..size |-> Value(k)]
  BY DEF Merged
<1> HIDE DEF new, was, is
<1>3. /\ n \in Nat /\ m \in Nat /\ DOMAIN new = 1..n /\ DOMAIN was = 1..m /\ size \in Nat
      /\ \A k \in 1..n : new[k] \in Metric
      /\ \A k \in 1..m : was[k] \in Entry
  BY <1>1
<1>4. \A k \in 1..n : EntryOf(new[k]) \in Entry /\ EntryOf(new[k]).cat = new[k].cat
  BY <1>3, EntryExcept
<1> HIDE DEF n, m
<1>5. \A k \in 1..n : k <= m =>
        /\ [EntryOf(new[k]) EXCEPT !.cat = was[k].cat] \in Entry
        /\ [[EntryOf(new[k]) EXCEPT !.cat = was[k].cat] EXCEPT !.cat = new[k].cat] = EntryOf(new[k])
  <2> SUFFICES ASSUME NEW k \in 1..n, k <= m
               PROVE  /\ [EntryOf(new[k]) EXCEPT !.cat = was[k].cat] \in Entry
                      /\ [[EntryOf(new[k]) EXCEPT !.cat = was[k].cat] EXCEPT !.cat = new[k].cat]
                           = EntryOf(new[k])
    OBVIOUS
  <2>1. new[k] \in Metric /\ was[k] \in Entry
    BY <1>3
  <2> QED BY <2>1, EntryExcept
<1>6. \A k \in 1..n : [EntryOf(new[k]) EXCEPT !.cat = new[k].cat] = EntryOf(new[k])
  BY <1>3, EntryExcept
<1>7. \A k \in 1..size : Value(k) \in Entry
  <2> SUFFICES ASSUME NEW k \in 1..size PROVE Value(k) \in Entry
    OBVIOUS
  <2>1. CASE k > n
    BY <1>3, <2>1
  <2>2. CASE ~(k > n) /\ new[k].cat = NoCategory /\ k <= m
    <3>1. [EntryOf(new[k]) EXCEPT !.cat = was[k].cat] \in Entry
      <4>1. k \in 1..n /\ k <= m
        BY <1>3, <2>2
      <4> QED BY ONLY <1>5, <4>1
    <3>2. Value(k) = [EntryOf(new[k]) EXCEPT !.cat = was[k].cat]
      BY <2>2
    <3> QED BY ONLY <3>1, <3>2
  <2>3. CASE ~(k > n) /\ ~(new[k].cat = NoCategory /\ k <= m)
    BY <1>3, <1>4, <2>3
  <2> QED BY <2>1, <2>2, <2>3
<1>8. is \in Seq(Entry) /\ Len(is) = size /\ \A k \in 1..size : is[k] = Value(k)
  <2> HIDE DEF Value
  <2>1. is \in [1..size -> Entry]
    BY <1>2, <1>7
  <2>2. is \in Seq(Entry) /\ Len(is) = size
    BY <1>3, <2>1, IsASeq, LenProperties
  <2> QED BY <1>2, <2>2
<1>9. size >= n /\ \A k \in 1..n : k \in 1..size /\ ~(k > n)
  BY <1>3
<1>10. \A k \in 1..n : [is[k] EXCEPT !.cat = new[k].cat] = EntryOf(new[k])
  <2> SUFFICES ASSUME NEW k \in 1..n PROVE [is[k] EXCEPT !.cat = new[k].cat] = EntryOf(new[k])
    OBVIOUS
  <2>1. is[k] = Value(k)
    BY <1>8, <1>9
  <2> QED BY <1>5, <1>6, <1>9, <2>1
<1>11. \A k \in 1..n : new[k].cat # NoCategory => is[k] = EntryOf(new[k])
  BY <1>8, <1>9
<1>12. was = <<>> => is = Entries(new)
  <2> SUFFICES ASSUME was = <<>> PROVE is = Entries(new)
    OBVIOUS
  <2>1. m = 0 /\ size = n
    BY <1>3 DEF m
  <2>2. \A k \in 1..n : Value(k) = EntryOf(new[k])
    BY <1>3, <1>9, <2>1
  <2> HIDE DEF Value
  <2> QED BY <1>2, <1>3, <2>1, <2>2 DEF Entries
<1>13. new = <<>> => is = was
  <2> SUFFICES ASSUME new = <<>> PROVE is = was
    OBVIOUS
  <2>1. n = 0 /\ size = m
    BY <1>3 DEF n
  <2>2. \A k \in 1..m : Value(k) = was[k]
    BY <1>3, <2>1
  <2>3. was = [k \in 1..m |-> was[k]]
    BY <1>1, <1>3 DEF m
  <2> HIDE DEF Value
  <2> QED BY <1>2, <2>1, <2>2, <2>3
<1> QED BY <1>3, <1>8, <1>9, <1>10, <1>11, <1>12, <1>13 DEF new, was, is, n

-----------------------------------------------------------------------------
(* The inductive invariant of the budget.                                   *)

Statuses == {"none", "waiting", "designing", "ready", "gaps", "nlu_failed", "design_failed"}

Counters ==
  /\ budget \in Nat \ {0} /\ used \in Nat /\ attempt \in 0..MaxAttempts /\ lost \in {0, 1}
  /\ tele \in Seq(Metric) /\ last \in Error

Snapshot ==
  /\ snap = [status |-> snap.status, cause |-> snap.cause, meta |-> snap.meta]
  /\ snap.status \in Statuses /\ snap.cause \in Causes \cup {"none"}
  /\ snap.cause # "none" => Failed /\ pc = "idle"

\* Where the phase is, and what its agents before the current one can have used.
Progress ==
  /\ phase \in {"none", "nlu", "design"} /\ suggested \in BOOLEAN
  /\ pc \in {"idle", "attempt", "called", "answered", "failed"}
  /\ step \in 1..3 /\ (pc = "idle" <=> phase = "none")
  /\ phase = "nlu" => step = 1
  /\ phase # "none" => step \in DOMAIN Plan
  /\ pc # "idle" => lost = 0 /\ used <= (step - 1) * MaxAttempts + attempt

Booked ==
  /\ used <= budget
  /\ used = Len(tele) + lost + (IF pc = "called" THEN 1 ELSE 0)

Exhausted ==
  snap.cause = "budget" =>
    /\ Len(tele) = budget
    /\ budget < MaxAttempts * (IF snap.status = "nlu_failed" THEN 1 ELSE 3)

IInv == Counters /\ Snapshot /\ Progress /\ Booked /\ Exhausted

-----------------------------------------------------------------------------
(* Helpers.                                                                 *)

LEMMA Constants == MaxAttempts \in Nat /\ MaxAttempts > 0 /\ Budgets \subseteq Nat \ {0}
  BY LlmAgentAssumption DEF LlmAgentAssumption

\* One agent more is one round of attempts more.
LEMMA OneStepMore ==
  ASSUME NEW s \in 1..3, NEW M \in Nat, NEW a \in 0..M, NEW u \in Nat, u <= (s - 1) * M + a
  PROVE  u <= s * M /\ s * M <= 3 * M /\ (s = 1 => s * M = M)
<1>1. CASE s = 1
  BY <1>1
<1>2. CASE s = 2
  BY <1>2
<1>3. CASE s = 3
  BY <1>3
<1> QED BY <1>1, <1>2, <1>3

LEMMA PlanFacts ==
  /\ DOMAIN Plan \subseteq 1..3 /\ 1 \in DOMAIN Plan
  /\ (phase = "nlu" => DOMAIN Plan = {1})
  /\ \A k \in DOMAIN Plan : Plan[k] \in Stages
  BY DEF Plan, Stages

\* Every reply leaves an error of a known kind, or none.
LEMMA CompleteType == ASSUME NEW a \in Replies PROVE Complete(a) \in Error
<1>1. \A c \in Categories, p, g \in BOOLEAN : Failure(c, p, g) \in Error
  BY DEF Failure, Error
<1>2. NoError \in Error
  BY DEF NoError, Error
<1>3. \A t \in DOMAIN Transport : Transport[t] \in Error
  <2>1. DOMAIN Transport = {"timeout", "status_4xx", "status_429", "status_5xx", "malformed"}
    BY DEF Transport
  <2>2. Transport.timeout \in Error
    BY <1>1 DEF Transport, Categories
  <2>3. Transport.status_4xx \in Error
    BY <1>1 DEF Transport, Categories
  <2>4. Transport.status_429 \in Error
    BY <1>1 DEF Transport, Categories
  <2>5. Transport.status_5xx \in Error
    BY <1>1 DEF Transport, Categories
  <2>6. Transport.malformed \in Error
    BY <1>1 DEF Transport, Categories
  <2> QED BY <2>1, <2>2, <2>3, <2>4, <2>5, <2>6
<1>4. \A f \in DOMAIN Finish : Finish[f] \in Error
  <2>1. DOMAIN Finish = {"length", "content_filter"}
    BY DEF Finish
  <2>2. Finish.length \in Error
    BY <1>1 DEF Finish, Categories
  <2>3. Finish.content_filter \in Error
    BY <1>1 DEF Finish, Categories
  <2> QED BY <2>1, <2>2, <2>3
<1>5. \A c \in DOMAIN Content : Content[c] \in Error
  <2>1. DOMAIN Content = {"blank", "fences", "prose", "other", "large"}
    BY DEF Content
  <2>2. Content.blank \in Error
    BY <1>1 DEF Content, Categories
  <2>3. Content.fences \in Error
    BY <1>1 DEF Content, Categories
  <2>4. Content.prose \in Error
    BY <1>1 DEF Content, Categories
  <2>5. Content.other \in Error
    BY <1>1 DEF Content, Categories
  <2>6. Content.large \in Error
    BY <1>1 DEF Content, Categories
  <2> QED BY <2>1, <2>2, <2>3, <2>4, <2>5, <2>6
<1>6. Failure("provider_error", FALSE, TRUE) \in Error
  BY <1>1 DEF Categories
<1> QED BY <1>2, <1>3, <1>4, <1>5, <1>6 DEF Complete

LEMMA RecordType ==
  ASSUME Progress, Counters, phase # "none", NEW e \in Error PROVE Record(e) \in Metric
<1>1. Plan[step] \in Stages
  BY PlanFacts DEF Progress
<1>2. ModeFor(last) \in Modes
  BY DEF ModeFor, Modes
<1>3. attempt \in Nat
  BY Constants DEF Counters
<1>4. e.cat \in Categories \cup {NoCategory} /\ (e = NoError) \in BOOLEAN
  BY DEF Error
<1> QED BY <1>1, <1>2, <1>3, <1>4 DEF Record, Metric

LEMMA CauseType == \A e : CauseOf(e) \in Causes /\ CauseOf(e) # "budget"
  BY DEF CauseOf, Causes

-----------------------------------------------------------------------------
(* Steps.                                                                   *)

LEMMA InitOK == Init => IInv
<1> SUFFICES ASSUME Init PROVE IInv
  OBVIOUS
<1>1. snap.status = "none" /\ snap.cause = "none" /\ Snapshot
  BY DEF Init, Snapshot, NoSnap, Statuses
<1>2. Counters
  <2>1. <<>> \in Seq(Metric)
    OBVIOUS
  <2>2. NoError \in Error
    BY DEF NoError, Error
  <2> QED BY <2>1, <2>2, Constants DEF Init, Counters
<1>3. Progress
  <2>1. suggested \in BOOLEAN
    BY DEF Init
  <2>2. step \in 1..3 /\ pc = "idle" /\ phase = "none"
    BY DEF Init
  <2> QED BY <2>1, <2>2 DEF Progress
<1>4. Booked
  BY Constants DEF Init, Booked
<1>5. Exhausted
  BY <1>1 DEF Exhausted
<1> QED BY <1>1, <1>2, <1>3, <1>4, <1>5 DEF IInv

\* A phase begins with nothing used and no cause of a failure.
LEMMA StartsOK ==
  ASSUME IInv, NEW p \in {"nlu", "design"}, Starts(p), Snapshot', snap'.cause = "none"
  PROVE  IInv'
<1>1. /\ phase' = p /\ pc' = "attempt" /\ step' = 1 /\ suggested' = FALSE /\ used' = 0
      /\ attempt' = 0 /\ tele' = <<>> /\ lost' = 0 /\ last' = NoError /\ budget' \in Budgets
  BY DEF Starts
<1>2. Counters'
  <2>1. <<>> \in Seq(Metric)
    OBVIOUS
  <2>2. NoError \in Error
    BY DEF NoError, Error
  <2> QED BY <1>1, <2>1, <2>2, Constants DEF Counters
<1>3. Progress'
  <2>1. 1 \in DOMAIN Plan'
    BY DEF Plan
  <2>2. used' <= (step' - 1) * MaxAttempts + attempt'
    BY <1>1, Constants
  <2>3. suggested' \in BOOLEAN
    BY <1>1
  <2>4. step' \in 1..3 /\ step' = 1 /\ lost' = 0
    BY <1>1
  <2>5. phase' \in {"nlu", "design"} /\ pc' = "attempt"
    BY <1>1
  <2> QED BY <2>1, <2>2, <2>3, <2>4, <2>5 DEF Progress
<1>4. Booked'
  BY <1>1, Constants DEF Booked
<1>5. Exhausted'
  BY DEF Exhausted
<1> QED BY <1>2, <1>3, <1>4, <1>5 DEF IInv

LEMMA StartNluOK == ASSUME IInv, StartNlu PROVE IInv'
<1>1. Starts("nlu") /\ snap' = NoSnap /\ pc' = "attempt"
  BY DEF StartNlu, Starts
<1>2. snap'.cause = "none" /\ Snapshot'
  BY <1>1 DEF Snapshot, NoSnap, Statuses
<1> QED BY <1>1, <1>2, StartsOK

LEMMA StartDesignOK == ASSUME IInv, StartDesign PROVE IInv'
<1>1. Starts("design") /\ snap' = [snap EXCEPT !.status = "designing"] /\ snap.status = "waiting"
  BY DEF StartDesign
<1>2. snap = [status |-> snap.status, cause |-> snap.cause, meta |-> snap.meta] /\ snap.cause = "none"
  BY <1>1 DEF IInv, Snapshot, Failed
<1>3. snap' = [status |-> "designing", cause |-> "none", meta |-> snap.meta]
  BY <1>1, <1>2
<1>4. snap'.cause = "none" /\ Snapshot'
  BY <1>3 DEF Snapshot, Statuses
<1> QED BY <1>1, <1>4, StartsOK

LEMMA RetryDesignOK == ASSUME IInv, RetryDesign PROVE IInv'
<1>1. Starts("design") /\ snap' = [snap EXCEPT !.status = "designing", !.cause = "none"]
  BY DEF RetryDesign
<1>2. snap = [status |-> snap.status, cause |-> snap.cause, meta |-> snap.meta]
  BY DEF IInv, Snapshot
<1>3. snap' = [status |-> "designing", cause |-> "none", meta |-> snap.meta]
  BY <1>1, <1>2
<1>4. snap'.cause = "none" /\ Snapshot'
  BY <1>3 DEF Snapshot, Statuses
<1> QED BY <1>1, <1>4, StartsOK

\* A phase that ends without a snapshot leaves the one there was.
LEMMA UnsavedOK ==
  ASSUME IInv, phase # "none", phase' = "none", pc' = "idle",
         lost' = lost + (IF pc = "called" THEN 1 ELSE 0),
         UNCHANGED <<step, suggested, budget, used, attempt, last, tele, snap>>
  PROVE  IInv'
<1>1. lost = 0 /\ pc # "idle"
  BY DEF IInv, Progress
<1>2. Counters'
  BY <1>1 DEF IInv, Counters
<1>3. Snapshot'
  BY DEF IInv, Snapshot, Failed
<1>4. Progress'
  BY DEF IInv, Progress
<1>5. Booked'
  BY <1>1 DEF IInv, Booked, Counters
<1>6. Exhausted'
  BY DEF IInv, Exhausted
<1> QED BY <1>2, <1>3, <1>4, <1>5, <1>6 DEF IInv

\* A phase ends: nothing but the snapshot changes, and when it failed for its
\* budget all of it was used by fewer attempts than there could have been.
LEMMA EndsOK ==
  ASSUME IInv, phase # "none", NEW missing \in {0, 1}, missing = 1 <=> pc = "called",
         NEW status \in Statuses, NEW cause \in Causes \cup {"none"}, Ends(status, cause, missing),
         cause # "none" => status = FailedStatus,
         cause = "budget" => ~MayCall /\ Left /\ pc = "attempt"
  PROVE  IInv'
<1>a. /\ phase' = "none" /\ pc' = "idle" /\ lost = 0 /\ lost' = missing
      /\ UNCHANGED <<step, suggested, budget, used, attempt, last, tele>>
  BY DEF Ends, IInv, Progress
<1>b. CASE UNCHANGED snap
  <2>1. lost' = lost + (IF pc = "called" THEN 1 ELSE 0)
    BY <1>a
  <2> QED BY <1>a, <1>b, <2>1, UnsavedOK
<1>c. CASE snap' = [status |-> status, cause |-> cause, meta |-> Merged(snap.meta, tele)]
  <2>2. snap'.status = status /\ snap'.cause = cause
    BY <1>c
  <2>3. Counters'
    BY <1>a DEF IInv, Counters
  <2>4. Snapshot'
    <3>1. snap' = [status |-> snap'.status, cause |-> snap'.cause, meta |-> snap'.meta]
      BY <1>c
    <3> QED BY <1>a, <2>2, <3>1 DEF Snapshot, Failed, FailedStatus
  <2>5. Progress'
    BY <1>a DEF IInv, Progress
  <2>6. Booked'
    BY <1>a DEF IInv, Booked, Counters
  <2>7. Exhausted'
    <3> SUFFICES ASSUME cause = "budget"
                 PROVE  /\ Len(tele) = budget
                        /\ budget < MaxAttempts * (IF status = "nlu_failed" THEN 1 ELSE 3)
      BY <1>a, <2>2 DEF Exhausted
    <3>1. /\ used = budget /\ attempt < MaxAttempts /\ Len(tele) = budget /\ step \in 1..3
          /\ used <= (step - 1) * MaxAttempts + attempt /\ attempt \in 0..MaxAttempts
          /\ used \in Nat /\ pc = "attempt"
      BY DEF IInv, Counters, Progress, Booked, MayCall, Left
    <3>2. CASE step = 1
      BY <3>1, <3>2, Constants
    <3>3. CASE step # 1
      <4>1. phase = "design" /\ status = "design_failed"
        BY <3>3 DEF IInv, Progress, FailedStatus
      <4>2. CASE step = 2
        BY <3>1, <4>1, <4>2, Constants
      <4>3. CASE step = 3
        BY <3>1, <4>1, <4>3, Constants
      <4> QED BY <3>1, <3>3, <4>2, <4>3
    <3> QED BY <3>2, <3>3
  <2> QED BY <2>3, <2>4, <2>5, <2>6, <2>7 DEF IInv
<1> QED BY <1>b, <1>c DEF Ends

LEMMA CallOK == ASSUME IInv, Call PROVE IInv'
<1>1. /\ pc = "attempt" /\ attempt < MaxAttempts /\ used < budget
      /\ used' = used + 1 /\ attempt' = attempt + 1 /\ pc' = "called"
      /\ UNCHANGED <<phase, step, suggested, budget, last, tele, lost, snap>>
  BY DEF Call, Left, MayCall
<1>2. Counters'
  BY <1>1, Constants DEF IInv, Counters
<1>3. Snapshot'
  BY <1>1 DEF IInv, Snapshot, Failed
<1>4. Progress'
  <2> DEFINE before == (step - 1) * MaxAttempts
  <2>1. before \in Nat
    <3>1. step - 1 \in Nat
      BY DEF IInv, Progress
    <3> QED BY <3>1, Constants
  <2>2. before' = before /\ used <= before + attempt
    BY <1>1 DEF IInv, Progress
  <2> HIDE DEF before
  <2>3. used' <= before' + attempt'
    BY <1>1, <2>1, <2>2, Constants DEF IInv, Counters
  <2>4. Plan' = Plan
    BY <1>1 DEF Plan
  <2> QED BY <1>1, <2>3, <2>4 DEF IInv, Progress, before
<1>5. Booked'
  BY <1>1 DEF IInv, Booked, Counters
<1>6. Exhausted'
  BY <1>1 DEF IInv, Snapshot, Exhausted
<1> QED BY <1>2, <1>3, <1>4, <1>5, <1>6 DEF IInv

LEMMA AnswerOK == ASSUME IInv, NEW a \in Replies, Answer(a) PROVE IInv'
<1> DEFINE e == Complete(a)
<1>1. /\ pc = "called" /\ tele' = Append(tele, Record(e)) /\ last' = e
      /\ pc' \in {"answered", "attempt", "failed"}
      /\ UNCHANGED <<phase, step, suggested, budget, used, attempt, lost, snap>>
  BY DEF Answer
<1>2. e \in Error
  BY CompleteType
<1> HIDE DEF e
<1>3. Record(e) \in Metric
  BY <1>1, <1>2, RecordType DEF IInv, Progress
<1>4. tele' \in Seq(Metric) /\ Len(tele') = Len(tele) + 1
  BY <1>1, <1>3 DEF IInv, Counters
<1>5. Counters'
  BY <1>1, <1>2, <1>4 DEF IInv, Counters
<1>6. Snapshot'
  BY <1>1 DEF IInv, Snapshot, Failed
<1>7. Progress'
  BY <1>1 DEF IInv, Progress, Plan
<1>8. Booked'
  BY <1>1, <1>4 DEF IInv, Booked, Counters
<1>9. Exhausted'
  BY <1>1 DEF IInv, Snapshot, Exhausted
<1> QED BY <1>5, <1>6, <1>7, <1>8, <1>9 DEF IInv

LEMMA OddAnswerOK == ASSUME IInv, OddAnswer PROVE IInv'
<1>1. pc = "called" /\ phase # "none" /\ Ends(FailedStatus, "execution", 1)
  BY DEF OddAnswer, IInv, Progress
<1>2. FailedStatus \in Statuses /\ "execution" \in Causes
  BY DEF FailedStatus, Statuses, Causes
<1> QED BY <1>1, <1>2, EndsOK

LEMMA NodeDoneOK == ASSUME IInv, NEW proposes \in BOOLEAN, NodeDone(proposes) PROVE IInv'
<1>1. /\ pc = "answered" /\ phase' = phase /\ step + 1 \in DOMAIN Plan' /\ step' = step + 1
      /\ suggested' = (suggested \/ (Plan[step] = "reviewer" /\ proposes))
      /\ attempt' = 0 /\ last' = NoError /\ pc' = "attempt"
      /\ UNCHANGED <<budget, used, tele, lost, snap>>
  BY DEF NodeDone
<1>2. suggested' \in BOOLEAN
  BY <1>1 DEF IInv, Progress
<1>3. step \in 1..3 /\ step + 1 \in 1..3 /\ phase = "design"
  <2>1. DOMAIN Plan' \subseteq 1..3 /\ (phase' = "nlu" => DOMAIN Plan' = {1})
    BY DEF Plan
  <2> QED BY <1>1, <2>1 DEF IInv, Progress
<1>4. Counters'
  BY <1>1, Constants DEF IInv, Counters, NoError, Error
<1>5. Snapshot'
  BY <1>1 DEF IInv, Snapshot, Failed
<1>6. Progress'
  <2>1. used <= step * MaxAttempts
    BY <1>1, <1>3, OneStepMore, Constants DEF IInv, Progress, Counters
  <2>2. (step' - 1) * MaxAttempts + attempt' = step * MaxAttempts
    <3>1. step' - 1 = step
      BY <1>1, <1>3
    <3>2. step * MaxAttempts \in Nat
      BY <1>3, Constants
    <3> QED BY <1>1, <3>1, <3>2
  <2>3. used' <= (step' - 1) * MaxAttempts + attempt' /\ lost' = 0
    BY <1>1, <2>1, <2>2 DEF IInv, Progress
  <2> QED BY <1>1, <1>2, <1>3, <2>3 DEF IInv, Progress
<1>7. Booked'
  BY <1>1 DEF IInv, Booked
<1>8. Exhausted'
  BY <1>1 DEF IInv, Snapshot, Exhausted
<1> QED BY <1>4, <1>5, <1>6, <1>7, <1>8 DEF IInv

LEMMA FailsOK ==
  ASSUME IInv, phase # "none", pc # "called", NEW cause \in Causes, Fails(cause),
         cause = "budget" => ~MayCall /\ Left /\ pc = "attempt"
  PROVE  IInv'
<1>1. Ends(FailedStatus, cause, 0) /\ FailedStatus \in Statuses
  BY DEF Fails, FailedStatus, Statuses
<1> QED BY <1>1, EndsOK

LEMMA WorkOK == ASSUME IInv, Work PROVE IInv'
<1>1. CASE Call
  BY <1>1, CallOK
<1>2. CASE BudgetExceeded
  BY <1>2, FailsOK DEF BudgetExceeded, Exceeded, Causes, IInv, Progress
<1>3. CASE GiveUp
  <2>1. phase # "none" /\ pc # "called"
    BY <1>3 DEF GiveUp, IInv, Progress
  <2>2. CauseOf(last) \in Causes /\ CauseOf(last) # "budget"
    BY CauseType
  <2> QED BY <1>3, <2>1, <2>2, FailsOK DEF GiveUp
<1>4. CASE OddAnswer
  BY <1>4, OddAnswerOK
<1>5. ASSUME NEW a \in Replies, Answer(a) PROVE IInv'
  BY <1>5, AnswerOK
<1>6. ASSUME NEW proposes \in BOOLEAN, NodeDone(proposes) PROVE IInv'
  BY <1>6, NodeDoneOK
<1>7. ASSUME NEW status \in {"waiting", "ready", "gaps"}, PhaseDone(status) PROVE IInv'
  <2>1. phase # "none" /\ pc # "called" /\ Ends(status, "none", 0) /\ status \in Statuses
    BY <1>7 DEF PhaseDone, IInv, Progress, Statuses
  <2> QED BY <2>1, EndsOK
<1>8. ASSUME NEW cause \in Causes, NodeFails(cause) PROVE IInv'
  <2>1. phase # "none" /\ pc # "called" /\ Fails(cause) /\ cause # "budget"
    BY <1>8 DEF NodeFails, IInv, Progress
  <2> QED BY <2>1, FailsOK
<1> QED BY <1>1, <1>2, <1>3, <1>4, <1>5, <1>6, <1>7, <1>8 DEF Work

LEMMA NextOK == IInv /\ [Next]_vars => IInv'
<1> SUFFICES ASSUME IInv, [Next]_vars PROVE IInv'
  OBVIOUS
<1>1. CASE StartNlu
  BY <1>1, StartNluOK
<1>2. CASE StartDesign
  BY <1>2, StartDesignOK
<1>3. CASE RetryDesign
  BY <1>3, RetryDesignOK
<1>4. CASE Work
  BY <1>4, WorkOK
<1>5. CASE UNCHANGED vars
  BY <1>5 DEF vars, IInv, Counters, Snapshot, Failed, Progress, Plan, Booked, Exhausted
<1> QED BY <1>1, <1>2, <1>3, <1>4, <1>5 DEF Next

\* The strengthened invariant holds of every reachable state.
THEOREM Invariance == Spec => []IInv
<1>1. Init => IInv
  BY InitOK
<1>2. IInv /\ [Next]_vars => IInv'
  BY NextOK
<1> QED BY <1>1, <1>2, PTL DEF Spec

\* CallBudget (providers/llm.py) and the loop of provider_agent (workflow/
\* agents.py): the agents of a phase never call the model more often than the
\* budget allows, every call is recorded or known to be lost, and a budget
\* that covers every attempt of every agent is never what a phase fails for.
THEOREM BudgetCorrect == Spec => []BudgetIsKept
<1>1. IInv => BudgetIsKept
  BY DEF IInv, Booked, Exhausted, BudgetIsKept
<1> QED BY <1>1, Invariance, PTL

-----------------------------------------------------------------------------
(* The inductive invariant of the calls and what is kept of them.           *)

\* What the history variables, the snapshot and its metadata hold, and when.
History ==
  /\ budget \in Budgets /\ snap.meta \in [Stages -> Seq(Entry)]
  /\ made \in Seq(Metric) /\ retried \in BOOLEAN /\ phases \in 0..MaxPhases
  /\ phase = "nlu" => snap = NoSnap /\ made = <<>> /\ ~retried
  /\ phase = "design" => snap.status = "designing"
  /\ snap.status = "waiting" => ~retried
  /\ snap.status \in {"waiting", "designing"} => \A k \in DOMAIN made : made[k].stage = "nlu"

\* What an error tells of its category.
Telling(e) ==
  /\ e.cat = NoCategory => e = NoError
  /\ e.payload => e.cat \in {"non_json", "schema_validation"}
  /\ ~e.again => e.cat \in {"http_4xx", "content_filter"}

\* The error that the next attempt works on is that of the last record.
LastCall ==
  /\ Telling(last)
  /\ pc = "attempt" => (attempt = 0 <=> last = NoError)
  /\ pc = "attempt" /\ last = NoError => tele = <<>> \/ tele[Len(tele)].ok
  /\ pc = "called" => attempt >= 1 /\ (attempt = 1 <=> last = NoError)
  /\ pc = "answered" => last = NoError /\ tele # <<>> /\ tele[Len(tele)].ok
  /\ pc = "failed" => ~last.again /\ last # NoError
  /\ pc # "idle" /\ last # NoError =>
       /\ tele # <<>>
       /\ ~tele[Len(tele)].ok
       /\ tele[Len(tele)].stage = Plan[step]
       /\ tele[Len(tele)].cat = last.cat
       /\ tele[Len(tele)].attempt = IF pc = "called" THEN attempt - 1 ELSE attempt

OfPhase ==
  /\ phase = "nlu" => \A k \in DOMAIN tele : tele[k].stage = "nlu"
  /\ phase = "design" => \A k \in DOMAIN tele : tele[k].stage # "nlu"

\* The agent that runs has an error that no call has answered yet, or none; the
\* others have none.
Balanced ==
  pc # "idle" =>
    \A s \in Stages :
      /\ Begins(OfStage(tele, s))
      /\ Balance(OfStage(tele, s)) = IF s = Plan[step] /\ last # NoError THEN 1 ELSE 0

\* The metadata of a workflow without a retry are its calls.
Kept ==
  ~retried =>
    \A s \in Stages :
      /\ snap.meta[s] = Entries(OfStage(made, s))
      /\ Begins(OfStage(made, s))
      /\ Balance(OfStage(made, s)) \in IF Failed THEN {0, 1} ELSE {0}

\* The calls of the last phase come first, when it saved its snapshot.
Shown ==
  pc = "idle" /\ Saved =>
    \A s \in Stages :
      LET calls == snap.meta[s]
          now == OfStage(tele, s)
      IN  /\ Len(calls) >= Len(now)
          /\ \A k \in DOMAIN now : [calls[k] EXCEPT !.cat = now[k].cat] = EntryOf(now[k])

TInv == /\ History /\ LastCall /\ OfPhase /\ Balanced /\ Kept /\ Shown
        /\ CallsFollowThePlan /\ FailureIsExplained

-----------------------------------------------------------------------------
(* Steps of the calls.                                                       *)

\* Every reply leaves an error that tells its category.
LEMMA CompleteTelling == ASSUME NEW a \in Replies PROVE Telling(Complete(a))
<1> DEFINE e == Complete(a)
<1>1. Complete(a) \in {Failure("provider_error", FALSE, TRUE), NoError}
                        \cup {Transport[t] : t \in DOMAIN Transport}
                        \cup {Finish[f] : f \in DOMAIN Finish}
                        \cup {Content[c] : c \in DOMAIN Content}
  BY DEF Complete
<1>2. Telling(NoError) /\ Telling(Failure("provider_error", FALSE, TRUE))
  BY DEF Telling, NoError, Failure, NoCategory
<1>3. ASSUME NEW t \in DOMAIN Transport PROVE Telling(Transport[t])
  <2>1. t \in {"timeout", "status_4xx", "status_429", "status_5xx", "malformed"}
    BY DEF Transport
  <2> QED BY <2>1 DEF Telling, Transport, Failure, NoCategory
<1>4. ASSUME NEW f \in DOMAIN Finish PROVE Telling(Finish[f])
  <2>1. f \in {"length", "content_filter"}
    BY DEF Finish
  <2> QED BY <2>1 DEF Telling, Finish, Failure, NoCategory
<1>5. ASSUME NEW c \in DOMAIN Content PROVE Telling(Content[c])
  <2>1. c \in {"blank", "fences", "prose", "other", "large"}
    BY DEF Content
  <2> QED BY <2>1 DEF Telling, Content, Failure, NoCategory
<1> QED BY <1>1, <1>2, <1>3, <1>4, <1>5

\* A new phase has made no calls.
LEMMA StartsTInv ==
  ASSUME IInv, TInv, NEW p \in {"nlu", "design"}, Starts(p)
  PROVE  LastCall' /\ OfPhase' /\ Balanced' /\ Shown' /\ CallsFollowThePlan' /\ FailureIsExplained'
<1>1. /\ phase' = p /\ pc' = "attempt" /\ step' = 1
      /\ attempt' = 0 /\ tele' = <<>> /\ last' = NoError
  BY DEF Starts
<1>2. LastCall'
  BY <1>1 DEF LastCall, Telling, NoError, NoCategory
<1>3. DOMAIN tele' = {} /\ Len(tele') = 0
  BY <1>1
<1>4. OfPhase'
  BY <1>3 DEF OfPhase
<1>5. Balanced'
  <2> SUFFICES ASSUME NEW s \in Stages
               PROVE  Begins(OfStage(tele', s)) /\ Balance(OfStage(tele', s)) = 0
    BY <1>1 DEF Balanced
  <2>1. OfStage(tele', s) = <<>>
    BY <1>1, OfStageEmpty
  <2>2. Begins(<<>>)
    BY DEF Begins
  <2> QED BY ONLY <2>1, <2>2, BalanceEmpty
<1>6. CallsFollowThePlan'
  <2>1. AnsweredBy(Len(tele'), tele') = {}
    BY <1>3 DEF AnsweredBy
  <2>2. Cardinality(AnsweredBy(Len(tele'), tele')) = 0
    BY ONLY <2>1, FS_EmptySet
  <2>3. 0 = IF pc' = "answered" THEN step' ELSE step' - 1
    BY ONLY <1>1
  <2> QED BY ONLY <1>1, <1>3, <2>1, <2>2, <2>3 DEF CallsFollowThePlan
<1> QED BY <1>1, <1>2, <1>4, <1>5, <1>6 DEF Shown, FailureIsExplained

LEMMA MoreStarted ==
  ASSUME IInv, TInv, NEW p \in {"nlu", "design"}, Starts(p)
  PROVE  phases' \in 0..MaxPhases /\ budget' \in Budgets /\ phase' = p /\ pc = "idle"
<1>1. phases \in 0..MaxPhases /\ phases < MaxPhases /\ phases' = phases + 1
  BY DEF TInv, History, Starts
<1>2. MaxPhases \in Nat
  BY LlmAgentAssumption DEF LlmAgentAssumption
<1> QED BY <1>1, <1>2 DEF Starts

LEMMA StartNluTInv == ASSUME IInv, TInv, StartNlu PROVE TInv'
<1>1. Starts("nlu") /\ snap' = NoSnap /\ made' = <<>> /\ retried' = FALSE
  BY DEF StartNlu
<1>2. /\ LastCall' /\ OfPhase' /\ Balanced' /\ Shown' /\ CallsFollowThePlan'
      /\ FailureIsExplained'
  BY <1>1, StartsTInv
<1>3. phases' \in 0..MaxPhases /\ budget' \in Budgets /\ phase' = "nlu"
  BY <1>1, MoreStarted
<1>4. snap'.meta = NoMeta /\ snap'.status = "none" /\ NoMeta \in [Stages -> Seq(Entry)]
  <2>1. <<>> \in Seq(Entry)
    BY EmptySeq
  <2> QED BY <1>1, <2>1 DEF NoSnap, NoMeta
<1>5. History'
  <2>1. made' \in Seq(Metric)
    BY <1>1, EmptySeq
  <2> QED BY <1>1, <1>3, <1>4, <2>1 DEF History
<1>6. Kept'
  <2> SUFFICES ASSUME NEW s \in Stages
               PROVE  /\ snap'.meta[s] = Entries(OfStage(made', s))
                      /\ Begins(OfStage(made', s)) /\ Balance(OfStage(made', s)) = 0
    BY DEF Kept
  <2>1. OfStage(made', s) = <<>>
    BY <1>1, OfStageEmpty
  <2>2. Begins(<<>>)
    BY DEF Begins
  <2>3. Entries(<<>>) = <<>>
    BY EmptySeq, EntriesFacts
  <2>4. snap'.meta[s] = <<>>
    BY <1>4 DEF NoMeta
  <2> QED BY <2>1, <2>2, <2>3, <2>4, BalanceEmpty
<1> QED BY <1>2, <1>5, <1>6 DEF TInv

LEMMA StartDesignTInv == ASSUME IInv, TInv, StartDesign PROVE TInv'
<1>1. /\ Starts("design") /\ snap' = [snap EXCEPT !.status = "designing"]
      /\ snap.status = "waiting" /\ made' = made /\ retried' = retried
  BY DEF StartDesign
<1>2. /\ LastCall' /\ OfPhase' /\ Balanced' /\ Shown' /\ CallsFollowThePlan'
      /\ FailureIsExplained'
  BY <1>1, StartsTInv
<1>3. phases' \in 0..MaxPhases /\ budget' \in Budgets /\ phase' = "design"
  BY <1>1, MoreStarted
<1>4. snap'.meta = snap.meta /\ snap'.status = "designing"
  <2>1. snap = [status |-> snap.status, cause |-> snap.cause, meta |-> snap.meta]
    BY DEF IInv, Snapshot
  <2> QED BY <1>1, <2>1
<1>5. ~retried /\ ~Failed /\ ~Failed'
  BY <1>1, <1>4 DEF TInv, History, Failed
<1>6. History'
  BY <1>1, <1>3, <1>4, <1>5 DEF TInv, History
<1>7. Kept'
  BY <1>1, <1>4, <1>5 DEF TInv, Kept
<1> QED BY <1>2, <1>6, <1>7 DEF TInv

LEMMA RetryDesignTInv == ASSUME IInv, TInv, RetryDesign PROVE TInv'
<1>1. /\ Starts("design") /\ snap' = [snap EXCEPT !.status = "designing", !.cause = "none"]
      /\ made' = <<>> /\ retried' = TRUE
  BY DEF RetryDesign
<1>2. /\ LastCall' /\ OfPhase' /\ Balanced' /\ Shown' /\ CallsFollowThePlan'
      /\ FailureIsExplained'
  BY <1>1, StartsTInv
<1>3. phases' \in 0..MaxPhases /\ budget' \in Budgets /\ phase' = "design"
  BY <1>1, MoreStarted
<1>4. snap'.meta = snap.meta /\ snap'.status = "designing"
  <2>1. snap = [status |-> snap.status, cause |-> snap.cause, meta |-> snap.meta]
    BY DEF IInv, Snapshot
  <2> QED BY <1>1, <2>1
<1>5. History'
  <2>1. made' \in Seq(Metric) /\ DOMAIN made' = {}
    BY <1>1, EmptySeq
  <2> QED BY <1>1, <1>3, <1>4, <2>1 DEF TInv, History
<1>6. Kept'
  BY <1>1 DEF Kept
<1> QED BY <1>2, <1>5, <1>6 DEF TInv

LEMMA CallTInv == ASSUME IInv, TInv, Call PROVE TInv'
<1>1. /\ pc = "attempt" /\ attempt' = attempt + 1 /\ pc' = "called"
      /\ UNCHANGED <<phase, step, suggested, budget, last, tele, lost, snap, made, retried, phases>>
  BY DEF Call
<1>2. Plan' = Plan /\ attempt \in Nat
  BY <1>1, Constants DEF Plan, IInv, Counters
<1>3. LastCall'
  BY <1>1, <1>2 DEF TInv, LastCall
<1>4. History' /\ OfPhase'
  BY <1>1 DEF TInv, History, OfPhase
<1>5. Balanced'
  BY <1>1, <1>2 DEF TInv, Balanced
<1>6. Kept' /\ Shown' /\ FailureIsExplained'
  BY <1>1 DEF TInv, Kept, Shown, Saved, Failed, FailureIsExplained
<1>7. CallsFollowThePlan'
  BY <1>1, <1>2 DEF TInv, CallsFollowThePlan
<1> QED BY <1>3, <1>4, <1>5, <1>6, <1>7 DEF TInv

\* One record more: who has answered up to each place.
LEMMA AnsweredAppend ==
  ASSUME NEW r \in Seq(Metric), NEW e \in Metric
  PROVE  LET q == Append(r, e)
             n == Len(r)
         IN  /\ AnsweredBy(n + 1, q) = AnsweredBy(n, r) \cup (IF e.ok THEN {n + 1} ELSE {})
             /\ Cardinality(AnsweredBy(n, r)) \in Nat
             /\ Cardinality(AnsweredBy(n + 1, q)) = Cardinality(AnsweredBy(n, r)) + IF e.ok THEN 1 ELSE 0
             /\ \A k \in 1..n : AnsweredBy(k, q) = AnsweredBy(k, r)
<1> DEFINE q == Append(r, e)
           n == Len(r)
           more == e.ok
<1>1. /\ n \in Nat /\ q[n + 1] = e /\ \A k \in 1..n : q[k] = r[k]
  BY AppendFacts
<1>2. more \in BOOLEAN
  BY DEF Metric
<1> HIDE DEF q, n, more
<1>3. AnsweredBy(n + 1, q) = AnsweredBy(n, r) \cup (IF more THEN {n + 1} ELSE {})
  BY <1>1 DEF AnsweredBy, more
<1>4. \A k \in 1..n : AnsweredBy(k, q) = AnsweredBy(k, r)
  BY <1>1 DEF AnsweredBy
<1>5. AnsweredBy(n, r) \in SUBSET (1..n)
  BY DEF AnsweredBy
<1>6. /\ Cardinality(AnsweredBy(n, r)) \in Nat
      /\ Cardinality(AnsweredBy(n + 1, q)) = Cardinality(AnsweredBy(n, r)) + IF more THEN 1 ELSE 0
  BY <1>1, <1>2, <1>3, <1>5, CountMore
<1> QED BY <1>3, <1>4, <1>6 DEF q, n, more

\* Up to an answer, one agent at least has answered.
LEMMA AnsweredBounds ==
  ASSUME NEW r \in Seq(Metric), NEW k \in AnsweredBy(Len(r), r)
  PROVE  Cardinality(AnsweredBy(k, r)) \in 1..Cardinality(AnsweredBy(Len(r), r))
<1> DEFINE S == AnsweredBy(k, r)
           T == AnsweredBy(Len(r), r)
<1>1. Len(r) \in Nat /\ k \in 1..Len(r) /\ r[k].ok
  BY DEF AnsweredBy
<1>2. S \subseteq T /\ k \in S /\ T \subseteq 1..Len(r)
  BY <1>1 DEF AnsweredBy
<1>3. IsFiniteSet(T)
  <2>1. IsFiniteSet(1..Len(r))
    BY <1>1, FS_Interval
  <2> QED BY <1>2, <2>1, FS_Subset
<1> HIDE DEF S, T
<1>4. Cardinality(S) <= Cardinality(T) /\ IsFiniteSet(S)
  BY <1>2, <1>3, FS_Subset
<1>5. Cardinality(S) \in Nat /\ Cardinality(T) \in Nat /\ Cardinality(S) # 0
  BY <1>2, <1>3, <1>4, FS_CardinalityType, FS_EmptySet
<1> QED BY <1>4, <1>5 DEF S, T

LEMMA PlanOfPhase ==
  /\ phase = "nlu" => \A k \in DOMAIN Plan : Plan[k] = "nlu"
  /\ phase = "design" => \A k \in DOMAIN Plan : Plan[k] # "nlu"
BY DEF Plan

\* What a call records, by what the one before it left.
LEMMA Recorded ==
  ASSUME IInv, TInv, pc = "called", NEW a \in Replies
  PROVE  LET e == Complete(a)
             r == Record(e)
         IN  /\ r \in Metric /\ e \in Error /\ Telling(e)
             /\ r.stage = Plan[step] /\ r.attempt = attempt /\ r.attempt >= 1
             /\ r.ok = (e = NoError) /\ r.cat = e.cat
             /\ IsRetry(r) <=> last # NoError
             /\ r.mode = "repair" => last.cat \in {"non_json", "schema_validation"} /\ attempt > 1
             /\ r.mode = "regenerate" => last.cat = "empty_response" /\ attempt > 1
             /\ Plan[step] \in Stages /\ step \in DOMAIN Plan
<1> DEFINE e == Complete(a)
<1>1. e \in Error /\ Telling(e)
  BY CompleteType, CompleteTelling
<1> HIDE DEF e
<1>2. phase # "none" /\ step \in DOMAIN Plan /\ Plan[step] \in Stages
  BY PlanFacts DEF IInv, Progress
<1>3. Record(e) \in Metric
  BY <1>1, <1>2, RecordType DEF IInv
<1>4. /\ Record(e).stage = Plan[step] /\ Record(e).attempt = attempt /\ Record(e).mode = ModeFor(last)
      /\ Record(e).ok = (e = NoError) /\ Record(e).cat = e.cat
  BY DEF Record
<1>5. attempt >= 1 /\ (attempt = 1 <=> last = NoError) /\ Telling(last) /\ attempt \in Nat
  BY Constants DEF TInv, LastCall, IInv, Counters
<1>6. ModeFor(NoError) = "generate"
  BY DEF ModeFor, NoError, NoCategory
<1>7. IsRetry(Record(e)) <=> last # NoError
  <2>1. CASE last = NoError
    BY <1>4, <1>5, <1>6, <2>1 DEF IsRetry
  <2>2. CASE last # NoError
    BY <1>4, <1>5, <2>2 DEF IsRetry
  <2> QED BY <2>1, <2>2
<1>8. ModeFor(last) = "repair" => last.cat \in {"non_json", "schema_validation"} /\ attempt > 1
  <2> SUFFICES ASSUME ModeFor(last) = "repair"
               PROVE  last.cat \in {"non_json", "schema_validation"} /\ attempt > 1
    OBVIOUS
  <2>1. last # NoError
    BY <1>6
  <2>2. last.payload
    BY DEF ModeFor
  <2> QED BY <1>5, <2>1, <2>2 DEF Telling
<1>9. ModeFor(last) = "regenerate" => last.cat = "empty_response" /\ attempt > 1
  <2> SUFFICES ASSUME ModeFor(last) = "regenerate"
               PROVE  last.cat = "empty_response" /\ attempt > 1
    OBVIOUS
  <2>1. last # NoError
    BY <1>6
  <2>2. last.cat = "empty_response"
    BY DEF ModeFor
  <2> QED BY <1>5, <2>1, <2>2
<1> QED BY <1>1, <1>2, <1>3, <1>4, <1>5, <1>7, <1>8, <1>9 DEF e

LEMMA AnswerTInv == ASSUME IInv, TInv, NEW a \in Replies, Answer(a) PROVE TInv'
<1> DEFINE e == Complete(a)
           r == Record(e)
           n == Len(tele)
<1>1. /\ pc = "called" /\ tele' = Append(tele, r) /\ last' = e
      /\ pc' = (IF e = NoError THEN "answered" ELSE IF e.again THEN "attempt" ELSE "failed")
      /\ UNCHANGED <<phase, step, suggested, budget, used, attempt, lost, snap, made, retried, phases>>
  BY DEF Answer
<1>2. /\ r \in Metric /\ e \in Error /\ Telling(e)
      /\ r.stage = Plan[step] /\ r.attempt = attempt /\ r.attempt >= 1
      /\ r.ok = (e = NoError) /\ r.cat = e.cat
      /\ IsRetry(r) <=> last # NoError
      /\ r.mode = "repair" => last.cat \in {"non_json", "schema_validation"} /\ attempt > 1
      /\ r.mode = "regenerate" => last.cat = "empty_response" /\ attempt > 1
      /\ Plan[step] \in Stages /\ step \in DOMAIN Plan
  BY <1>1, Recorded
<1> HIDE DEF e, r
<1>3. /\ tele \in Seq(Metric) /\ n \in Nat /\ attempt \in Nat /\ step \in Nat
      /\ pc # "idle" /\ phase # "none" /\ pc' # "idle" /\ pc' # "called"
  BY <1>1, Constants DEF IInv, Counters, Progress
<1>4. /\ tele' # <<>> /\ Len(tele') = n + 1
      /\ DOMAIN tele' = 1..(n + 1) /\ DOMAIN tele = 1..n
      /\ \A k \in 1..n : tele'[k] = tele[k]
      /\ tele'[n + 1] = r
  BY <1>1, <1>2, <1>3, AppendFacts
<1> HIDE DEF n
<1>5. Plan' = Plan
  BY <1>1 DEF Plan
<1>5a. pc' = "answered" <=> e = NoError
  BY <1>1
<1>6. LastCall'
  <2>1. Telling(last')
    BY <1>1, <1>2
  <2>2. tele'[Len(tele')] = r /\ Len(tele') \in Nat
    BY <1>3, <1>4
  <2>3. pc' = "attempt" => (attempt' = 0 <=> last' = NoError) /\ last' # NoError
    BY <1>1, <1>2, <1>3
  <2>4. pc' = "answered" => last' = NoError /\ tele' # <<>> /\ tele'[Len(tele')].ok
    BY <1>1, <1>2, <1>4, <1>5a, <2>2
  <2>5. pc' = "failed" => ~last'.again /\ last' # NoError
    BY <1>1
  <2>6. last' # NoError =>
          /\ tele' # <<>>
          /\ ~tele'[Len(tele')].ok
          /\ tele'[Len(tele')].stage = Plan[step]
          /\ tele'[Len(tele')].cat = last'.cat
          /\ tele'[Len(tele')].attempt = attempt
    BY <1>1, <1>2, <1>4, <2>2
  <2> QED BY <1>1, <1>3, <1>5, <2>1, <2>3, <2>4, <2>5, <2>6 DEF LastCall
<1>7. History' /\ Kept' /\ Shown' /\ FailureIsExplained'
  BY <1>1, <1>3 DEF TInv, History, Kept, Shown, Saved, Failed, FailureIsExplained
<1>8. OfPhase'
  <2>1. phase = "nlu" => r.stage = "nlu"
    BY <1>2, PlanOfPhase
  <2>2. phase = "design" => r.stage # "nlu"
    BY <1>2, PlanOfPhase
  <2>3. \A k \in 1..(n + 1) : k \in 1..n \/ k = n + 1
    BY <1>3
  <2> QED BY <1>1, <1>4, <2>1, <2>2, <2>3 DEF TInv, OfPhase
<1>9. Balanced'
  <2> SUFFICES ASSUME NEW s \in Stages
               PROVE  /\ Begins(OfStage(tele', s))
                      /\ Balance(OfStage(tele', s)) = IF s = Plan[step] /\ e # NoError THEN 1 ELSE 0
    BY <1>1, <1>5 DEF Balanced
  <2> DEFINE calls == OfStage(tele, s)
  <2>1. calls \in Seq(Metric)
    BY <1>3, OfStageType
  <2>2. Begins(calls) /\ Balance(calls) = IF s = Plan[step] /\ last # NoError THEN 1 ELSE 0
    BY <1>3 DEF TInv, Balanced
  <2>3. OfStage(tele', s) = IF r.stage = s THEN Append(calls, r) ELSE calls
    BY <1>1, <1>2, <1>3, OfStageAppend
  <2> HIDE DEF calls
  <2>4. CASE r.stage # s
    BY <1>2, <2>2, <2>3, <2>4
  <2>5. CASE r.stage = s
    <3>1. Balance(Append(calls, r)) =
            Balance(calls) + (IF ~r.ok THEN 1 ELSE 0) - (IF IsRetry(r) THEN 1 ELSE 0)
      BY <1>2, <2>1, BalanceAppend
    <3>2. Balance(Append(calls, r)) = IF e # NoError THEN 1 ELSE 0
      <4>1. Balance(calls) = IF last # NoError THEN 1 ELSE 0
        BY <1>2, <2>2, <2>5
      <4>2. (IF ~r.ok THEN 1 ELSE 0) = IF e # NoError THEN 1 ELSE 0
        BY <1>2
      <4>3. (IF IsRetry(r) THEN 1 ELSE 0) = IF last # NoError THEN 1 ELSE 0
        BY <1>2
      <4> QED BY ONLY <3>1, <4>1, <4>2, <4>3
    <3>3. calls = <<>> => ~IsRetry(r)
      BY <1>2, <2>2, <2>5, BalanceEmpty
    <3>4. Begins(Append(calls, r))
      BY <1>2, <2>1, <2>2, <3>3, BeginsAppend
    <3> QED BY <1>2, <2>3, <2>5, <3>2, <3>4
  <2> QED BY <2>4, <2>5
<1>10. CallsFollowThePlan'
  <2> DEFINE A == AnsweredBy(n, tele)
             B == AnsweredBy(n + 1, tele')
  <2>1. /\ B = A \cup (IF r.ok THEN {n + 1} ELSE {})
        /\ Cardinality(A) \in Nat
        /\ Cardinality(B) = Cardinality(A) + IF r.ok THEN 1 ELSE 0
        /\ \A k \in 1..n : AnsweredBy(k, tele') = AnsweredBy(k, tele)
    BY <1>1, <1>2, <1>3, AnsweredAppend DEF n
  <2>2. A \subseteq 1..n
    BY DEF AnsweredBy
  <2>3. Cardinality(A) = step - 1 /\ \A k \in A : tele[k].stage = Plan[Cardinality(AnsweredBy(k, tele))]
    BY <1>1, <1>3 DEF TInv, CallsFollowThePlan, n
  <2> HIDE DEF A
  <2>4. Cardinality(B) = IF pc' = "answered" THEN step ELSE step - 1
    <3> HIDE DEF B
    <3>1. pc' = "answered" <=> r.ok
      BY <1>2, <1>5a
    <3> QED BY <1>3, <2>1, <2>3, <3>1
  <2>5. \A k \in B : tele'[k].stage = Plan[Cardinality(AnsweredBy(k, tele'))]
    <3> SUFFICES ASSUME NEW k \in B PROVE tele'[k].stage = Plan[Cardinality(AnsweredBy(k, tele'))]
      OBVIOUS
    <3>1. CASE k \in A
      BY <1>4, <2>1, <2>2, <2>3, <3>1
    <3>2. CASE k \notin A
      <4>1. r.ok /\ k = n + 1
        BY <2>1, <3>2
      <4>2. Cardinality(B) = step
        BY <1>3, <2>1, <2>3, <4>1
      <4> QED BY <1>2, <1>4, <4>1, <4>2
    <3> QED BY <3>1, <3>2
  <2> HIDE DEF B
  <2>6. ASSUME NEW k \in 1..(n + 1)
        PROVE  /\ tele'[k].attempt > 1 =>
                    /\ k > 1
                    /\ ~tele'[k - 1].ok
                    /\ tele'[k - 1].stage = tele'[k].stage
                    /\ tele'[k - 1].attempt = tele'[k].attempt - 1
               /\ tele'[k].mode = "repair" =>
                    tele'[k].attempt > 1 /\ tele'[k - 1].cat \in {"non_json", "schema_validation"}
               /\ tele'[k].mode = "regenerate" =>
                    tele'[k].attempt > 1 /\ tele'[k - 1].cat = "empty_response"
    <3>1. CASE k \in 1..n
      <4>1. tele'[k] = tele[k] /\ (k > 1 => tele'[k - 1] = tele[k - 1])
        BY <1>3, <1>4, <3>1
      <4>2. /\ tele[k].attempt > 1 =>
                 /\ k > 1
                 /\ ~tele[k - 1].ok
                 /\ tele[k - 1].stage = tele[k].stage
                 /\ tele[k - 1].attempt = tele[k].attempt - 1
            /\ tele[k].mode = "repair" =>
                 tele[k].attempt > 1 /\ tele[k - 1].cat \in {"non_json", "schema_validation"}
            /\ tele[k].mode = "regenerate" =>
                 tele[k].attempt > 1 /\ tele[k - 1].cat = "empty_response"
        BY <1>4, <3>1 DEF TInv, CallsFollowThePlan
      <4> QED BY ONLY <4>1, <4>2
    <3>2. CASE k = n + 1
      <4>1. tele'[k] = r
        BY <1>4, <3>2
      <4>2. ASSUME attempt > 1
            PROVE  /\ k > 1 /\ ~tele'[k - 1].ok /\ tele'[k - 1].stage = r.stage
                   /\ tele'[k - 1].attempt = attempt - 1 /\ tele'[k - 1].cat = last.cat
        <5>1. last # NoError
          BY <1>1, <4>2 DEF TInv, LastCall
        <5>2. /\ tele # <<>> /\ ~tele[n].ok /\ tele[n].stage = Plan[step]
              /\ tele[n].cat = last.cat /\ tele[n].attempt = attempt - 1
          BY <1>1, <1>3, <5>1 DEF TInv, LastCall, n
        <5>3. n # 0
          BY <1>3, <5>2, EmptySeq DEF n
        <5>4. k - 1 = n /\ n \in 1..n /\ k > 1
          BY <1>3, <3>2, <5>3
        <5> QED BY <1>2, <1>4, <5>2, <5>4
      <4> QED BY <1>2, <4>1, <4>2
    <3> QED BY <1>3, <3>1, <3>2
  <2> QED BY <1>4, <1>5, <1>1, <2>4, <2>5, <2>6 DEF CallsFollowThePlan, B
<1> QED BY <1>6, <1>7, <1>8, <1>9, <1>10 DEF TInv

\* What the end of a phase, whatever its outcome, makes of the state.
Ended(status, cause) ==
  /\ snap' = [status |-> status, cause |-> cause, meta |-> Merged(snap.meta, tele)]
  /\ made' = IF retried THEN <<>> ELSE made \o tele
  /\ phase' = "none" /\ pc' = "idle"
  /\ UNCHANGED <<budget, tele, last, retried, phases>>

\* The calls of a phase are of agents that the workflow did not call before.
LEMMA EndedKept ==
  ASSUME IInv, TInv, phase # "none", NEW status, NEW cause, Ended(status, cause),
         status \notin {"nlu_failed", "design_failed"} => pc = "answered"
  PROVE  Kept'
<1>1. /\ snap'.status = status /\ snap'.meta = Merged(snap.meta, tele)
      /\ made' = (IF retried THEN <<>> ELSE made \o tele) /\ retried' = retried
  BY DEF Ended
<1> SUFFICES ASSUME ~retried, NEW s \in Stages
             PROVE  /\ snap'.meta[s] = Entries(OfStage(made', s))
                    /\ Begins(OfStage(made', s))
                    /\ Balance(OfStage(made', s)) \in IF Failed' THEN {0, 1} ELSE {0}
  BY <1>1 DEF Kept
<1> DEFINE past == OfStage(made, s)
           now == OfStage(tele, s)
           is == Merged(snap.meta, tele)[s]
<1>2. tele \in Seq(Metric) /\ made \in Seq(Metric) /\ snap.meta \in [Stages -> Seq(Entry)]
      /\ phase \in {"nlu", "design"} /\ pc # "idle"
  BY DEF IInv, Counters, Progress, TInv, History
<1>3. made' = made \o tele /\ OfStage(made', s) = past \o now
  BY <1>1, <1>2, OfStageConcat
<1>4. past \in Seq(Metric) /\ now \in Seq(Metric)
  BY <1>2, OfStageType
<1>5. past = <<>> \/ now = <<>>
  <2>1. CASE phase = "nlu"
    BY <2>1, OfStageEmpty DEF TInv, History
  <2>2. CASE phase = "design" /\ s = "nlu"
    <3>1. \A k \in DOMAIN tele : tele[k].stage # s
      BY <2>2 DEF TInv, OfPhase
    <3> QED BY <1>2, <3>1, OfStageNone
  <2>3. CASE phase = "design" /\ s # "nlu"
    <3>1. \A k \in DOMAIN made : made[k].stage # s
      BY <2>3 DEF TInv, History
    <3> QED BY <1>2, <3>1, OfStageNone
  <2> QED BY <1>2, <2>1, <2>2, <2>3
<1>6. ~Failed
  BY <1>2 DEF TInv, History, Failed, NoSnap
<1>7. snap.meta[s] = Entries(past) /\ Begins(past) /\ Balance(past) = 0
  BY <1>6 DEF TInv, Kept
<1>8. Begins(now) /\ Balance(now) \in {0, 1} /\ (pc = "answered" => Balance(now) = 0)
  BY <1>2 DEF TInv, Balanced, LastCall
<1>9. Failed' \/ pc = "answered"
  BY <1>1 DEF Failed
<1>10. /\ snap.meta[s] = <<>> => is = Entries(now)
       /\ now = <<>> => is = snap.meta[s]
  BY <1>2, MergedFacts
<1> HIDE DEF past, now, is
<1>11. snap'.meta[s] = is
  BY <1>1 DEF is
<1>12. CASE past = <<>>
  <2>1. past \o now = now
    BY <1>4, <1>12, ConcatEmptySeq
  <2>2. snap.meta[s] = <<>>
    BY <1>4, <1>7, <1>12, EntriesFacts
  <2> QED BY <1>3, <1>8, <1>9, <1>10, <1>11, <2>1, <2>2
<1>13. CASE now = <<>>
  <2>1. past \o now = past
    BY <1>4, <1>13, ConcatEmptySeq
  <2> QED BY <1>3, <1>7, <1>10, <1>11, <1>13, <2>1
<1> QED BY <1>5, <1>12, <1>13

LEMMA EndedTInv ==
  ASSUME IInv, TInv, phase # "none", NEW status, NEW cause, Ended(status, cause),
         status \notin {"nlu_failed", "design_failed"} => pc = "answered",
         status = "waiting" => phase = "nlu", status # "designing",
         FailureIsExplained'
  PROVE  TInv'
<1>1. /\ snap'.status = status /\ snap'.meta = Merged(snap.meta, tele)
      /\ made' = (IF retried THEN <<>> ELSE made \o tele)
      /\ phase' = "none" /\ pc' = "idle"
      /\ UNCHANGED <<budget, tele, last, retried, phases>>
  BY DEF Ended
<1>2. tele \in Seq(Metric) /\ made \in Seq(Metric) /\ snap.meta \in [Stages -> Seq(Entry)]
  BY DEF IInv, Counters, TInv, History
<1>3. /\ Merged(snap.meta, tele) \in [Stages -> Seq(Entry)]
      /\ \A s \in Stages :
           LET new == OfStage(tele, s)
               is == Merged(snap.meta, tele)[s]
           IN  /\ Len(is) >= Len(new)
               /\ \A k \in DOMAIN new : [is[k] EXCEPT !.cat = new[k].cat] = EntryOf(new[k])
  <2> DEFINE m == Merged(snap.meta, tele)
  <2>1. m = [s \in Stages |-> m[s]]
    BY DEF Merged
  <2>2. \A s \in Stages :
          LET new == OfStage(tele, s)
          IN  /\ m[s] \in Seq(Entry) /\ Len(m[s]) >= Len(new)
              /\ \A k \in DOMAIN new : [m[s][k] EXCEPT !.cat = new[k].cat] = EntryOf(new[k])
    BY <1>2, MergedFacts
  <2> HIDE DEF m
  <2>3. m \in [Stages -> Seq(Entry)]
    BY <2>1, <2>2
  <2> QED BY <2>2, <2>3 DEF m
<1>4. Shown'
  BY <1>1, <1>3 DEF Shown
<1>5. History'
  <2>1. made' \in Seq(Metric)
    BY <1>1, <1>2, EmptySeq
  <2>2. status = "waiting" => ~retried /\ \A k \in DOMAIN made' : made'[k].stage = "nlu"
    <3> SUFFICES ASSUME status = "waiting"
                 PROVE  ~retried /\ \A k \in DOMAIN made' : made'[k].stage = "nlu"
      OBVIOUS
    <3>1. made = <<>> /\ ~retried /\ \A k \in DOMAIN tele : tele[k].stage = "nlu"
      BY DEF TInv, History, OfPhase
    <3>2. made' = tele
      BY <1>1, <1>2, <3>1, ConcatEmptySeq
    <3> QED BY <3>1, <3>2
  <2> QED BY <1>1, <1>3, <2>1, <2>2 DEF TInv, History
<1>6. LastCall' /\ OfPhase' /\ Balanced'
  BY <1>1 DEF TInv, LastCall, OfPhase, Balanced
<1>7. CallsFollowThePlan'
  BY <1>1 DEF TInv, CallsFollowThePlan
<1>8. Kept'
  BY EndedKept
<1> QED BY <1>4, <1>5, <1>6, <1>7, <1>8 DEF TInv

\* A phase that saves nothing leaves a workflow without a snapshot, or the
\* snapshot of a design that goes on.
LEMMA UnsavedTInv ==
  ASSUME IInv, TInv, phase # "none", phase' = "none", pc' = "idle", snap' = snap, made' = made,
         UNCHANGED <<step, suggested, budget, tele, last, retried, phases>>
  PROVE  TInv'
<1>1. snap.status \in {"none", "designing"}
  <2>1. phase \in {"nlu", "design"}
    BY DEF IInv, Progress
  <2> QED BY <2>1 DEF TInv, History, NoSnap
<1>2. ~Failed' /\ ~Saved' /\ (Failed' <=> Failed)
  BY <1>1 DEF Failed, Saved
<1>3. History'
  BY DEF TInv, History
<1>4. LastCall' /\ OfPhase' /\ Balanced'
  BY DEF TInv, LastCall, OfPhase, Balanced
<1>5. Kept' /\ Shown' /\ FailureIsExplained'
  BY <1>2 DEF TInv, Kept, Shown, FailureIsExplained
<1>6. CallsFollowThePlan'
  BY DEF TInv, CallsFollowThePlan
<1> QED BY <1>3, <1>4, <1>5, <1>6 DEF TInv

\* The end of a phase, saved or not.
LEMMA EndsTInv ==
  ASSUME IInv, TInv, phase # "none", NEW status, NEW cause, NEW missing,
         Ends(status, cause, missing),
         status \notin {"nlu_failed", "design_failed"} => pc = "answered",
         status = "waiting" => phase = "nlu", status # "designing",
         Ended(status, cause) => FailureIsExplained'
  PROVE  TInv'
<1>1. Ended(status, cause) \/ (snap' = snap /\ made' = made)
  BY DEF Ends, Ended
<1>2. CASE Ended(status, cause)
  BY <1>2, EndedTInv
<1>3. CASE snap' = snap /\ made' = made
  <2>1. phase' = "none" /\ pc' = "idle" /\ UNCHANGED <<step, suggested, budget, tele, last, retried, phases>>
    BY DEF Ends
  <2> QED BY <1>3, <2>1, UnsavedTInv
<1> QED BY <1>1, <1>2, <1>3

LEMMA FailedStatusFacts == FailedStatus \in {"nlu_failed", "design_failed"}
  BY DEF FailedStatus

\* An outcome that is no failure of a call follows none that erred.
LEMMA FailsTInv ==
  ASSUME IInv, TInv, pc # "idle", NEW cause, Fails(cause),
         \/ cause = "budget"
         \/ cause \in {"validation", "execution"} /\ (tele = <<>> \/ tele[Len(tele)].ok)
  PROVE  TInv'
<1>1. Ends(FailedStatus, cause, 0) /\ tele' = tele /\ lost' = lost + 0
  BY DEF Fails, Ends
<1>2. lost' = 0 /\ phase # "none"
  BY <1>1 DEF IInv, Progress
<1>3. Ended(FailedStatus, cause) => FailureIsExplained'
  BY <1>1, <1>2 DEF Ended, FailureIsExplained
<1> QED BY <1>1, <1>2, <1>3, FailedStatusFacts, EndsTInv

\* A call that failed is the last one, and its record is kept as it was.
LEMMA GiveUpTInv == ASSUME IInv, TInv, GiveUp PROVE TInv'
<1> DEFINE cause == CauseOf(last)
           end == tele[Len(tele)]
           new == OfStage(tele, end.stage)
           is == Merged(snap.meta, tele)[end.stage]
<1>1. Ends(FailedStatus, cause, 0) /\ tele' = tele /\ lost' = lost + 0
  BY DEF GiveUp, Fails, Ends
<1>2. Ended(FailedStatus, cause) => snap'.cause = cause /\ snap'.meta[end.stage] = is
  BY DEF Ended
<1>3. phase # "none" /\ tele \in Seq(Metric) /\ snap.meta \in [Stages -> Seq(Entry)]
      /\ attempt \in 0..MaxAttempts /\ MaxAttempts \in Nat /\ MaxAttempts > 0 /\ lost' = 0
  BY <1>1, Constants DEF IInv, Progress, Counters, TInv, History, GiveUp
<1>4. last # NoError /\ Telling(last) /\ (attempt = MaxAttempts \/ ~last.again)
  <2>1. CASE pc = "failed"
    BY <2>1 DEF TInv, LastCall
  <2>2. CASE pc = "attempt" /\ ~Left
    BY <1>3, <2>2 DEF TInv, LastCall, Left
  <2> QED BY <2>1, <2>2 DEF GiveUp
<1>5. tele # <<>> /\ ~end.ok /\ end.cat = last.cat /\ end.attempt = attempt
  BY <1>4 DEF TInv, LastCall, GiveUp
<1>6. end \in Metric /\ new # <<>> /\ Len(new) \in DOMAIN new /\ new[Len(new)] = end
  BY <1>3, <1>5, OfStageLast
<1>7. end.stage \in Stages
  BY <1>6 DEF Metric
<1>8. \A k \in DOMAIN new : new[k].cat # NoCategory => is[k] = EntryOf(new[k])
  BY <1>3, <1>7, MergedFacts
<1> HIDE DEF end, new, is
<1>9. end.cat # NoCategory
  BY <1>4, <1>5 DEF Telling
<1>10. is[Len(new)] = EntryOf(end)
  BY <1>6, <1>8, <1>9
<1>11. is[Len(new)].attempt = end.attempt /\ is[Len(new)].mode = end.mode /\ is[Len(new)].cat = end.cat
  BY <1>10 DEF EntryOf
<1>12. CauseOf(end) = cause
  BY <1>5 DEF CauseOf
<1>13. end.attempt = MaxAttempts \/ end.cat \in {"http_4xx", "content_filter"}
  BY <1>4, <1>5 DEF Telling
<1>14. cause \notin {"validation", "execution"}
  BY DEF CauseOf
<1> HIDE DEF cause
<1>15. Ended(FailedStatus, cause) => FailureIsExplained'
  BY <1>1, <1>2, <1>3, <1>5, <1>11, <1>12, <1>13, <1>14 DEF FailureIsExplained, end, new
<1> QED BY <1>1, <1>3, <1>15, FailedStatusFacts, EndsTInv

LEMMA OddAnswerTInv == ASSUME IInv, TInv, OddAnswer PROVE TInv'
<1>1. Ends(FailedStatus, "execution", 1) /\ lost' = lost + 1
  BY DEF OddAnswer, Ends
<1>2. lost = 0 /\ phase # "none"
  BY DEF OddAnswer, IInv, Progress
<1>3. Ended(FailedStatus, "execution") => FailureIsExplained'
  BY <1>1, <1>2 DEF Ended, FailureIsExplained
<1> QED BY <1>1, <1>2, <1>3, FailedStatusFacts, EndsTInv

LEMMA PhaseDoneTInv ==
  ASSUME IInv, TInv, NEW status \in {"waiting", "ready", "gaps"}, PhaseDone(status) PROVE TInv'
<1>1. Ends(status, "none", 0) /\ pc = "answered" /\ (status = "waiting" => phase = "nlu")
  BY DEF PhaseDone
<1>2. phase # "none"
  BY <1>1 DEF IInv, Progress
<1>3. Ended(status, "none") => FailureIsExplained'
  BY DEF Ended, FailureIsExplained, Failed
<1> QED BY <1>1, <1>2, <1>3, EndsTInv

LEMMA NodeDoneTInv == ASSUME IInv, TInv, NEW proposes \in BOOLEAN, NodeDone(proposes) PROVE TInv'
<1>1. /\ pc = "answered" /\ phase' = phase /\ step + 1 \in DOMAIN Plan' /\ step' = step + 1
      /\ suggested' = (suggested \/ (Plan[step] = "reviewer" /\ proposes))
      /\ attempt' = 0 /\ last' = NoError /\ pc' = "attempt"
      /\ UNCHANGED <<budget, used, tele, lost, snap, made, retried, phases>>
  BY DEF NodeDone
<1>2. phase # "none" /\ step \in DOMAIN Plan /\ step \in Nat
  BY <1>1 DEF IInv, Progress
<1>3. \A k \in DOMAIN Plan : Plan'[k] = Plan[k]
  <2>1. CASE phase = "nlu" \/ suggested \/ ~suggested'
    <3>1. Plan' = Plan
      BY <1>1, <2>1 DEF Plan
    <3> QED BY <3>1
  <2>2. CASE phase # "nlu" /\ ~suggested /\ suggested'
    <3>1. Plan = <<"designer", "reviewer">> /\ Plan' = <<"designer", "reviewer", "designer">>
      BY <1>1, <2>2 DEF Plan
    <3> QED BY <3>1
  <2> QED BY <2>1, <2>2
<1>4. last = NoError /\ tele \in Seq(Metric)
  BY <1>1 DEF TInv, LastCall, IInv, Counters
<1>5. History' /\ OfPhase' /\ Kept'
  BY <1>1 DEF TInv, History, OfPhase, Kept, Failed
<1>6. LastCall'
  <2>1. tele'[Len(tele')].ok
    BY <1>1 DEF TInv, LastCall
  <2> QED BY <1>1, <2>1 DEF LastCall, Telling, NoError, NoCategory
<1>7. Shown' /\ FailureIsExplained'
  BY <1>1 DEF Shown, FailureIsExplained
<1>8. Balanced'
  BY <1>1, <1>4 DEF TInv, Balanced
<1>9. CallsFollowThePlan'
  <2>1. Cardinality(AnsweredBy(Len(tele), tele)) = step
    BY <1>1, <1>2 DEF TInv, CallsFollowThePlan
  <2>2. \A k \in AnsweredBy(Len(tele), tele) : Cardinality(AnsweredBy(k, tele)) \in DOMAIN Plan
    <3>1. 1..step \subseteq DOMAIN Plan
      <4>1. DOMAIN Plan = 1..1 \/ DOMAIN Plan = 1..2 \/ DOMAIN Plan = 1..3
        BY DEF Plan
      <4> QED BY <1>2, <4>1
    <3> QED BY <1>4, <2>1, <3>1, AnsweredBounds
  <2>3. \A k \in AnsweredBy(Len(tele), tele) : tele[k].stage = Plan'[Cardinality(AnsweredBy(k, tele))]
    BY <1>2, <1>3, <2>2 DEF TInv, CallsFollowThePlan
  <2>4. step' - 1 = step
    BY <1>1, <1>2
  <2> QED BY <1>1, <2>1, <2>3, <2>4 DEF TInv, CallsFollowThePlan
<1> QED BY <1>5, <1>6, <1>7, <1>8, <1>9 DEF TInv

\* Every step keeps the invariant of the calls.
LEMMA TInvNext == IInv /\ TInv /\ [Next]_vars => TInv'
<1> SUFFICES ASSUME IInv, TInv, [Next]_vars PROVE TInv'
  OBVIOUS
<1>1. CASE StartNlu
  BY <1>1, StartNluTInv
<1>2. CASE StartDesign
  BY <1>2, StartDesignTInv
<1>3. CASE RetryDesign
  BY <1>3, RetryDesignTInv
<1>4. CASE Call
  BY <1>4, CallTInv
<1>5. CASE BudgetExceeded
  <2>1. pc # "idle" /\ Fails("budget")
    BY <1>5 DEF BudgetExceeded, IInv, Progress
  <2> QED BY <2>1, FailsTInv
<1>6. CASE GiveUp
  BY <1>6, GiveUpTInv
<1>7. CASE OddAnswer
  BY <1>7, OddAnswerTInv
<1>8. ASSUME NEW a \in Replies, Answer(a) PROVE TInv'
  BY <1>8, AnswerTInv
<1>9. ASSUME NEW proposes \in BOOLEAN, NodeDone(proposes) PROVE TInv'
  BY <1>9, NodeDoneTInv
<1>10. ASSUME NEW status \in {"waiting", "ready", "gaps"}, PhaseDone(status) PROVE TInv'
  BY <1>10, PhaseDoneTInv
<1>11. ASSUME NEW cause \in Causes, NodeFails(cause) PROVE TInv'
  <2>1. pc # "idle" /\ Fails(cause) /\ cause \in {"validation", "execution"}
    BY <1>11 DEF NodeFails
  <2>2. tele = <<>> \/ tele[Len(tele)].ok
    BY <1>11 DEF NodeFails, TInv, LastCall
  <2> QED BY <2>1, <2>2, FailsTInv
<1>12. CASE UNCHANGED vars
  <2>1. Plan' = Plan
    BY <1>12 DEF vars, Plan
  <2>2. History' /\ LastCall' /\ OfPhase' /\ Balanced' /\ Kept' /\ Shown'
    BY <1>12, <2>1 DEF vars, TInv, History, LastCall, OfPhase, Balanced, Kept, Failed, Shown, Saved
  <2>3. CallsFollowThePlan' /\ FailureIsExplained'
    BY <1>12, <2>1 DEF vars, TInv, CallsFollowThePlan, FailureIsExplained, Failed
  <2> QED BY <2>2, <2>3 DEF TInv
<1> QED BY <1>1, <1>2, <1>3, <1>4, <1>5, <1>6, <1>7, <1>8, <1>9, <1>10, <1>11, <1>12 DEF Next, Work

LEMMA TInvInit == Init => TInv
<1> SUFFICES ASSUME Init PROVE TInv
  OBVIOUS
<1>1. /\ phase = "none" /\ pc = "idle" /\ tele = <<>> /\ made = <<>> /\ snap = NoSnap
      /\ retried = FALSE /\ phases = 0 /\ last = NoError /\ budget \in Budgets
  BY DEF Init
<1>2. <<>> \in Seq(Entry) /\ <<>> \in Seq(Metric) /\ DOMAIN tele = {} /\ Len(<<>>) = 0
  BY <1>1, EmptySeq
<1>3. snap.meta = NoMeta /\ snap.status = "none" /\ NoMeta \in [Stages -> Seq(Entry)]
      /\ \A s \in Stages : NoMeta[s] = <<>>
  BY <1>1, <1>2 DEF NoSnap, NoMeta
<1>4. History
  <2>1. 0 \in 0..MaxPhases
    BY LlmAgentAssumption DEF LlmAgentAssumption
  <2> QED BY <1>1, <1>2, <1>3, <2>1 DEF History
<1>5. LastCall /\ OfPhase /\ Balanced /\ FailureIsExplained
  BY <1>1, <1>3 DEF LastCall, Telling, NoError, NoCategory, OfPhase, Balanced, FailureIsExplained, Failed
<1>6. Kept
  <2> SUFFICES ASSUME NEW s \in Stages
               PROVE  /\ snap.meta[s] = Entries(OfStage(made, s))
                      /\ Begins(OfStage(made, s)) /\ Balance(OfStage(made, s)) = 0
    BY DEF Kept
  <2>1. OfStage(made, s) = <<>>
    BY <1>1, OfStageEmpty
  <2>2. Begins(<<>>)
    BY DEF Begins
  <2>3. Entries(<<>>) = <<>>
    BY <1>2, EntriesFacts
  <2> QED BY <1>3, <2>1, <2>2, <2>3, BalanceEmpty
<1>7. Shown
  <2> SUFFICES ASSUME NEW s \in Stages
               PROVE  /\ Len(snap.meta[s]) >= Len(OfStage(tele, s))
                      /\ DOMAIN OfStage(tele, s) = {}
    BY DEF Shown
  <2>1. OfStage(tele, s) = <<>>
    BY <1>1, OfStageEmpty
  <2> QED BY <1>2, <1>3, <2>1
<1>8. CallsFollowThePlan
  BY <1>1, <1>2 DEF CallsFollowThePlan
<1> QED BY <1>4, <1>5, <1>6, <1>7, <1>8 DEF TInv

\* The calls of a stage that never erred begin with a first attempt that
\* answered.
LEMMA FirstPassOf ==
  ASSUME NEW calls \in Seq(Metric), Begins(calls), calls # <<>>, Errors(calls) = 0
  PROVE  FirstPass(Entries(calls))
<1> DEFINE es == Entries(calls)
           wrong == {k \in DOMAIN calls : ~calls[k].ok}
<1>1. /\ es \in Seq(Entry) /\ DOMAIN es = DOMAIN calls
      /\ \A k \in DOMAIN calls : es[k] = EntryOf(calls[k])
  BY EntriesFacts
<1> HIDE DEF es
<1>2. Len(calls) \in Nat /\ Len(calls) # 0 /\ DOMAIN calls = 1..Len(calls)
  BY EmptySeq
<1>3. 1 \in DOMAIN calls
  BY <1>2
<1>4. \A k \in DOMAIN calls : calls[k].ok
  <2>1. Cardinality(wrong) = 0
    BY DEF Errors
  <2>2. IsFiniteSet(wrong)
    <3>1. IsFiniteSet(1..Len(calls))
      BY <1>2, FS_Interval
    <3>2. wrong \subseteq 1..Len(calls)
      BY <1>2
    <3> QED BY <3>1, <3>2, FS_Subset
  <2> HIDE DEF wrong
  <2>3. wrong = {}
    BY <2>1, <2>2, FS_EmptySet
  <2> QED BY <2>3 DEF wrong
<1>5. \A k \in DOMAIN calls : /\ es[k].attempt = calls[k].attempt /\ es[k].ok = calls[k].ok
                              /\ es[k].mode = calls[k].mode
  <2> SUFFICES ASSUME NEW k \in DOMAIN calls
               PROVE  /\ es[k].attempt = calls[k].attempt /\ es[k].ok = calls[k].ok
                      /\ es[k].mode = calls[k].mode
    OBVIOUS
  <2>1. es[k] = EntryOf(calls[k])
    BY ONLY <1>1
  <2> QED BY ONLY <2>1 DEF EntryOf
<1>6. \A k \in DOMAIN calls : calls[k].attempt \in Nat /\ calls[k].attempt >= 1
  <2>1. \A k \in DOMAIN calls : calls[k] \in Metric
    BY ElementOfSeq, <1>2
  <2> QED BY <2>1 DEF Metric, Begins
<1>7. \A m \in DOMAIN es : es[1].attempt < es[m].attempt \/ (es[1].attempt = es[m].attempt /\ 1 <= m)
  <2> SUFFICES ASSUME NEW m \in DOMAIN calls
               PROVE  es[1].attempt < es[m].attempt \/ (es[1].attempt = es[m].attempt /\ 1 <= m)
    BY <1>1
  <2>1. es[1].attempt = 1 /\ es[m].attempt >= 1 /\ es[m].attempt \in Nat /\ 1 <= m
    BY <1>2, <1>3, <1>5, <1>6 DEF Begins
  <2> QED BY <2>1
<1>8. es[1].ok /\ es[1].mode = "generate"
  BY <1>3, <1>4, <1>5 DEF Begins
<1> QED BY <1>1, <1>3, <1>7, <1>8 DEF FirstPass, es

\* The two invariants hold of every reachable state.
THEOREM TraceInvariance == Spec => [](IInv /\ TInv)
<1>1. Init => IInv /\ TInv
  BY InitOK, TInvInit
<1>2. IInv /\ TInv /\ [Next]_vars => IInv' /\ TInv'
  BY NextOK, TInvNext
<1> QED BY <1>1, <1>2, PTL DEF Spec

\* The variables of LlmAgent have their types: the snapshot of a workflow
\* (workflow/models.py) always holds a sequence of entries for every agent.
THEOREM TypeCorrect == Spec => []TypeOK
<1>1. IInv /\ TInv => TypeOK
  <2> SUFFICES ASSUME IInv, TInv PROVE TypeOK
    OBVIOUS
  <2>1. phase \in {"none", "nlu", "design"} /\ pc \in {"idle", "attempt", "called", "answered", "failed"}
        /\ step \in 1..3 /\ suggested \in BOOLEAN
    BY DEF IInv, Progress
  <2>2. used \in Nat /\ attempt \in 0..MaxAttempts /\ last \in Error /\ tele \in Seq(Metric) /\ lost \in 0..1
    BY DEF IInv, Counters
  <2>3. budget \in Budgets /\ made \in Seq(Metric) /\ retried \in BOOLEAN /\ phases \in 0..MaxPhases
    BY DEF TInv, History
  <2>4. snap \in [status: {"none", "waiting", "designing", "ready", "gaps", "nlu_failed",
                           "design_failed"},
                  cause: Causes \cup {"none"}, meta: [Stages -> Seq(Entry)]]
    BY DEF IInv, Snapshot, Statuses, TInv, History
  <2> QED BY <2>1, <2>2, <2>3, <2>4 DEF TypeOK
<1> QED BY <1>1, TraceInvariance, PTL

\* provider_agent (workflow/agents.py) and _safe_failure_message
\* (workflow/service.py): the agents answer in the order of the plan, a repair
\* or a regeneration follows the answer it is for, a cause of the provider's in
\* a failed snapshot is what its last call recorded, and a cause of a node's own
\* follows no call that erred with a record.
THEOREM CallsCorrect == Spec => []CallsExplainTheOutcome
<1>1. TInv => CallsExplainTheOutcome
  BY DEF TInv, CallsExplainTheOutcome
<1> QED BY <1>1, TraceInvariance, PTL

\* _merge of the telemetry (workflow/service.py) and aggregate_telemetry
\* (evals/graders/telemetry.py): the calls of the last phase come first in the
\* metadata it saves, and without a retry of the design the graders read exactly
\* the calls that were made in the phases that saved.
THEOREM TelemetryCorrect == Spec => []TelemetryIsKept
<1>1. IInv /\ TInv => TelemetryIsKept
  <2> SUFFICES ASSUME IInv, TInv, pc = "idle", NEW s \in Stages
               PROVE  LET calls == snap.meta[s]
                          now == OfStage(tele, s)
                          all == OfStage(made, s)
                      IN  /\ Saved =>
                               /\ Len(calls) >= Len(now)
                               /\ \A k \in DOMAIN now : [calls[k] EXCEPT !.cat = now[k].cat] = EntryOf(now[k])
                          /\ ~retried =>
                               /\ Len(calls) = Len(all)
                               /\ \A k \in DOMAIN calls : calls[k] = EntryOf(all[k])
                               /\ Errors(calls) - RetryCalls(calls) \in IF Failed THEN {0, 1} ELSE {0}
                               /\ calls # <<>> /\ Errors(calls) = 0 => FirstPass(calls)
    BY DEF TelemetryIsKept
  <2>1. Saved =>
        /\ Len(snap.meta[s]) >= Len(OfStage(tele, s))
        /\ \A k \in DOMAIN OfStage(tele, s) :
             [snap.meta[s][k] EXCEPT !.cat = OfStage(tele, s)[k].cat] = EntryOf(OfStage(tele, s)[k])
    BY DEF TInv, Shown
  <2>2. ASSUME ~retried
        PROVE  LET calls == snap.meta[s]
                   all == OfStage(made, s)
               IN  /\ Len(calls) = Len(all)
                   /\ \A k \in DOMAIN calls : calls[k] = EntryOf(all[k])
                   /\ Errors(calls) - RetryCalls(calls) \in IF Failed THEN {0, 1} ELSE {0}
                   /\ calls # <<>> /\ Errors(calls) = 0 => FirstPass(calls)
    <3> DEFINE all == OfStage(made, s)
    <3>1. all \in Seq(Metric)
      BY OfStageType DEF TInv, History
    <3>2. snap.meta[s] = Entries(all) /\ Begins(all) /\ Balance(all) \in IF Failed THEN {0, 1} ELSE {0}
      BY <2>2 DEF TInv, Kept
    <3> HIDE DEF all
    <3>3. /\ Len(Entries(all)) = Len(all) /\ DOMAIN Entries(all) = DOMAIN all
          /\ Errors(Entries(all)) = Errors(all) /\ RetryCalls(Entries(all)) = RetryCalls(all)
          /\ \A k \in DOMAIN all : Entries(all)[k] = EntryOf(all[k])
          /\ Entries(all) = <<>> <=> all = <<>>
      BY <3>1, EntriesFacts
    <3>4. all # <<>> /\ Errors(all) = 0 => FirstPass(Entries(all))
      BY <3>1, <3>2, FirstPassOf
    <3> QED BY <3>2, <3>3, <3>4 DEF all, Balance
  <2> QED BY <2>1, <2>2
<1> QED BY <1>1, TraceInvariance, PTL

-----------------------------------------------------------------------------
(* The analysis: what its rules keep of the agent's answer.                 *)

\* Before the rules: the answer, but for references that are not known.
AnswerAsGiven ==
  /\ points = output.points /\ requirement.invented = output.requirement.invented
  /\ requirement.behaviors = output.requirement.behaviors
  /\ output.requirement.questions \subseteq requirement.questions
  /\ ReferencesTraced

\* The tokens for rows of the database are still those of the agent.
TokensGiven ==
  \A x \in points : x.token # NoToken =>
    \E y \in output.points : y.id = x.id /\ y.token = x.token

Ruled == {"require", "points", "complete", "resolve", "waiting"}

\* Only the sentences on rejected tokens are gone.
BehaviorsKept ==
  \A b \in output.requirement.behaviors : b \in requirement.behaviors \/ (requirement.both /\ b.rejects)

(* From the rules on authentication on, the answer is traced and rejections *)
(* have their fixtures; the loop over the parameters has decided those      *)
(* before it, and none of its points was classified earlier.                *)
AnalysisInv ==
  /\ AnalysisTypeOK
  /\ node = "auth" => AnswerAsGiven
  /\ node \in Ruled => /\ PointsTraced /\ ReferencesTraced /\ PrefixTraced
                       /\ QuestionsTraced /\ RejectionsHaveFixtures
  /\ node \in {"require", "points", "complete"} => TokensGiven /\ BehaviorsKept
  /\ node = "resolve" => \A i \in 1..(at - 1) : Decided(Parameters[i])
  /\ node \in {"resolve", "waiting"} => ExpectsTheUsual /\ BehaviorsTraced
  /\ node = "waiting" => \A p \in Params : Decided(p)

-----------------------------------------------------------------------------
(* Operators.                                                               *)

LEMMA KindFacts ==
  ASSUME NEW x \in TestPoint
  PROVE  /\ FixtureKind(x) \in Kinds
         /\ FixtureKind(x) # "none" => x.category = "negative"
         /\ x.category = "negative" /\ x.auth = "combined" => FixtureKind(x) = "combined"
<1>1. x.auth \in Kinds
  BY DEF TestPoint
<1>2. CASE x.category # "negative"
  BY <1>2 DEF FixtureKind, Kinds
<1>3. CASE x.category = "negative" /\ x.auth = "combined"
  BY <1>3 DEF FixtureKind, Kinds
<1>4. CASE x.category = "negative" /\ x.auth # "combined"
  <2>1. FixtureKind(x) \in {"nonexistent", "expired", x.auth}
    BY <1>4 DEF FixtureKind
  <2> QED BY <1>1, <1>4, <2>1 DEF Kinds, Fixtures
<1> QED BY <1>2, <1>3, <1>4

\* The kind of a point depends on its category, its words and its tokens.
LEMMA SameKind ==
  ASSUME NEW x, NEW y, x.category = y.category, x.auth = y.auth, x.fixtures = y.fixtures
  PROVE  FixtureKind(x) = FixtureKind(y)
BY DEF FixtureKind

LEMMA FixtureFacts ==
  ASSUME NEW k \in Kinds
  PROVE  /\ AnyFixture \subseteq Fixtures \cap facts
         /\ FixtureFor(k) \subseteq Fixtures \cap facts
         /\ k = "combined" => FixtureFor(k) = AnyFixture
BY DEF AnyFixture, FixtureFor, Fixtures

\* What the rules on authentication leave of a point.
Carries(x, y) ==
  /\ y.id = x.id /\ y.category = x.category /\ y.token = x.token
  /\ y.rejected = x.rejected /\ y.evidence = x.evidence

LEMMA CanonicalFacts ==
  ASSUME NEW x \in TestPoint
  PROVE  LET c == Canonical(x) IN
         /\ c \in TestPoint /\ Carries(x, c) /\ c.fixtures = x.fixtures /\ c.invented = x.invented
         /\ FixtureKind(c) # "none" <=> FixtureKind(x) # "none"
         /\ requirement.both /\ FixtureKind(c) # "none" /\ c.rejected => FixtureKind(c) = "combined"
<1> DEFINE c == Canonical(x)
<1>1. NoText \in Text
  BY DEF NoText, Text
<1>2. "combined" \in Kinds
  BY DEF Kinds
<1>3. CASE requirement.both /\ FixtureKind(x) # "none" /\ x.rejected
  <2>1. c = [x EXCEPT !.auth = "combined", !.title = NoText, !.result = NoText]
    BY <1>3 DEF Canonical
  <2>2. /\ c \in TestPoint /\ Carries(x, c) /\ c.fixtures = x.fixtures /\ c.invented = x.invented
        /\ c.auth = "combined"
    BY <2>1, <1>1, <1>2 DEF TestPoint, Carries
  <2>3. c.category = "negative"
    BY <1>3, <2>2, KindFacts DEF Carries
  <2>4. FixtureKind(c) = "combined"
    BY <2>2, <2>3, KindFacts
  <2> QED BY <2>2, <2>4, <1>3
<1>4. CASE ~(requirement.both /\ FixtureKind(x) # "none" /\ x.rejected)
  BY <1>4 DEF Canonical, Carries
<1> QED BY <1>3, <1>4

\* The fixture a point of this kind is bound to, if there is one.
Bindable(k) == IF k = "none" THEN {} ELSE FixtureFor(k)

LEMMA BindFacts ==
  ASSUME NEW x \in TestPoint
  PROVE  LET b == BindFixture(x)
             f == Bindable(FixtureKind(x)) IN
         /\ b \in TestPoint
         /\ b.id = x.id /\ b.category = x.category /\ b.token = x.token
         /\ b.rejected = x.rejected /\ b.invented = x.invented /\ b.auth = x.auth
         /\ b.fixtures = x.fixtures \cup f /\ b.evidence = x.evidence \cup f
<1> DEFINE b == BindFixture(x)
           f == Bindable(FixtureKind(x))
<1>1. f \subseteq Fixtures
  BY KindFacts, FixtureFacts DEF Bindable
<1>2. Fixtures \subseteq Reference
  BY DEF Reference, Facts
<1>3. b = [x EXCEPT !.fixtures = @ \cup f, !.evidence = @ \cup f]
  BY DEF BindFixture, Bindable
<1> HIDE DEF f, b
<1>4. x.fixtures \cup f \in SUBSET Fixtures /\ x.evidence \cup f \in SUBSET Reference
  BY <1>1, <1>2 DEF TestPoint
<1>5. b \in TestPoint
  BY <1>3, <1>4 DEF TestPoint
<1>6. /\ b.id = x.id /\ b.category = x.category /\ b.token = x.token
      /\ b.rejected = x.rejected /\ b.invented = x.invented /\ b.auth = x.auth
      /\ b.fixtures = x.fixtures \cup f /\ b.evidence = x.evidence \cup f
  BY <1>3 DEF TestPoint
<1> QED BY <1>5, <1>6 DEF b, f

\* The point that stands for all rejections of ps.
StandsFor(m, ps) ==
  /\ \E c \in Rejections(ps) : /\ m.id = c.id /\ m.token \in {c.token, NoToken}
                               /\ m.invented = c.invented
  /\ m.category = "negative" /\ m.auth = "combined"
  /\ \A y \in Rejections(ps) : y.evidence \subseteq m.evidence

LEMMA MergeFacts ==
  ASSUME facts \subseteq Facts, NEW ps \in SUBSET TestPoint, NEW merged \in MergeRejections(ps)
  PROVE  /\ merged \subseteq TestPoint
         /\ \A x \in merged : x \in ps \/ StandsFor(x, ps)
         /\ \A x \in ps : \/ x \in merged
                          \/ /\ \E y \in Rejections(ps) : y.id = x.id
                             /\ \E m \in merged : StandsFor(m, ps)
<1> DEFINE candidates == Rejections(ps)
           rest == {x \in ps : \A y \in candidates : x.id # y.id}
           AsOne(x) == [x EXCEPT !.auth = "combined",
                                 !.title = NoText, !.result = NoText,
                                 !.action = IF AnyFixture = {} THEN @ ELSE NoText,
                                 !.token = IF AnyFixture = {} THEN @ ELSE NoToken,
                                 !.fixtures = IF AnyFixture = {} THEN @ ELSE AnyFixture,
                                 !.evidence = AnyFixture \cup UNION {y.evidence : y \in candidates}]
<1>1. CASE merged = ps
  BY <1>1
<1>2. CASE merged # ps
  <2>1. PICK c \in candidates : merged = rest \cup {AsOne(c)}
    BY <1>2 DEF MergeRejections
  <2>2. candidates \subseteq ps /\ \A y \in candidates : y.category = "negative"
    <3>1. candidates \subseteq ps
      BY DEF Rejections
    <3>2. \A y \in candidates : FixtureKind(y) # "none"
      BY DEF Rejections, Fixtures
    <3> QED BY <3>1, <3>2, KindFacts
  <2> DEFINE u == UNION {y.evidence : y \in candidates}
             m == AsOne(c)
  <2>3. /\ "combined" \in Kinds /\ NoText \in Text /\ NoToken \in Token
        /\ AnyFixture \subseteq Fixtures /\ Fixtures \subseteq Reference
    BY FixtureFacts DEF Kinds, NoText, Text, Token, Reference, Facts
  <2>4. \A y \in candidates : y.evidence \subseteq Reference
    BY <2>2 DEF TestPoint
  <2>5. u \subseteq Reference
    BY <2>4
  <2>6. c \in TestPoint /\ c.category = "negative"
    BY <2>2
  <2>7. m = [c EXCEPT !.auth = "combined",
                      !.title = NoText, !.result = NoText,
                      !.action = IF AnyFixture = {} THEN @ ELSE NoText,
                      !.token = IF AnyFixture = {} THEN @ ELSE NoToken,
                      !.fixtures = IF AnyFixture = {} THEN @ ELSE AnyFixture,
                      !.evidence = AnyFixture \cup u]
    OBVIOUS
  <2>8. \A y \in candidates : y.evidence \subseteq u
    OBVIOUS
  <2> HIDE DEF u, m
  <2>9. AnyFixture \cup u \in SUBSET Reference /\ AnyFixture \in SUBSET Fixtures
    BY <2>3, <2>5
  <2>10. m \in TestPoint
    BY <2>3, <2>6, <2>7, <2>9 DEF TestPoint
  <2>11. /\ m.id = c.id /\ m.category = c.category /\ m.auth = "combined" /\ m.invented = c.invented
         /\ m.token \in {c.token, NoToken} /\ m.evidence = AnyFixture \cup u
    BY <2>6, <2>7 DEF TestPoint
  <2>12. \A y \in candidates : y.evidence \subseteq m.evidence
    BY <2>8, <2>11
  <2>13. StandsFor(m, ps)
    BY <2>6, <2>11, <2>12 DEF StandsFor
  <2>14. merged = rest \cup {m}
    BY <2>1 DEF m
  <2> QED BY <2>10, <2>13, <2>14
<1> QED BY <1>1, <1>2

-----------------------------------------------------------------------------
(* Evidence.                                                                *)

LEMMA ProtocolType ==
  ASSUME NEW present \in SUBSET Sources, says \in [Sources -> SUBSET Signals]
  PROVE  ExtractProtocol(present) \in AuthProtocol
<1> DEFINE speaking == {s \in present : says[s] # {}}
           first == CHOOSE s \in speaking : \A t \in speaking : Rank(s) <= Rank(t)
           prefixes == {PrefixOf(d) : d \in says[first]}
           selected == CHOOSE x \in prefixes : TRUE
<1>1. CASE speaking = {}
  BY <1>1 DEF ExtractProtocol, NoProtocol, AuthProtocol
<1>2. CASE speaking # {}
  <2>1. \E s \in speaking : \A t \in speaking : Rank(s) <= Rank(t)
    <3>1. speaking \subseteq Sources
      OBVIOUS
    <3> HIDE DEF speaking
    <3>2. /\ Rank("document") = 0 /\ Rank("contract") = 1 /\ Rank("source") = 2
      BY DEF Rank
    <3>3. \A t \in speaking : t = "document" \/ t = "contract" \/ t = "source"
      BY <3>1 DEF Sources
    <3> QED BY <1>2, <3>2, <3>3
  <2>2. first \in speaking
    BY <2>1
  <2> HIDE DEF first
  <2>3. says[first] # {} /\ says[first] \subseteq Signals
    BY <2>2
  <2>4. \A d \in Signals : PrefixOf(d) \in {"none", "prefixA", "prefixB"}
    BY DEF Signals, PrefixOf
  <2>5. prefixes # {} /\ prefixes \subseteq {"none", "prefixA", "prefixB"}
    BY <2>3, <2>4
  <2>6. selected \in {"none", "prefixA", "prefixB"}
    <3> HIDE DEF prefixes
    <3> QED BY <2>5
  <2>7. ExtractProtocol(present) =
          IF (\E x, y \in prefixes : x # y) \/ "mixed" \in says[first]
          THEN [status |-> "conflict", prefix |-> "none", noted |-> TRUE]
          ELSE [status |-> "explicit", prefix |-> selected,
                noted |-> \E s \in speaking \ {first} : \E d \in says[s] : PrefixOf(d) # selected]
    BY <1>2 DEF ExtractProtocol, first
  <2> HIDE DEF speaking, prefixes, selected
  <2> DEFINE noted == \E s \in speaking \ {first} : \E d \in says[s] : PrefixOf(d) # selected
  <2>8. noted \in BOOLEAN
    OBVIOUS
  <2>9. ExtractProtocol(present) = [status |-> "conflict", prefix |-> "none", noted |-> TRUE]
        \/ ExtractProtocol(present) = [status |-> "explicit", prefix |-> selected, noted |-> noted]
    BY <2>7
  <2> HIDE DEF noted
  <2>10. [status |-> "explicit", prefix |-> selected, noted |-> noted] \in AuthProtocol
    BY <2>6, <2>8 DEF AuthProtocol
  <2>11. [status |-> "conflict", prefix |-> "none", noted |-> TRUE] \in AuthProtocol
    BY DEF AuthProtocol
  <2> QED BY ONLY <2>9, <2>10, <2>11
<1> QED BY <1>1, <1>2

LEMMA FactsType ==
  ASSUME NEW provider \in Providers
  PROVE  FactsOf(provider) \subseteq Facts
BY DEF FactsOf, Facts, Providers, Fixtures

LEMMA CollectedType ==
  ASSUME NEW read \in SUBSET Providers
  PROVE  Collected(read) \subseteq Facts
<1> SUFFICES ASSUME NEW f \in Collected(read) PROVE f \in Facts
  OBVIOUS
<1>1. f = "document" \/ \E x \in read : f \in FactsOf(x)
  BY DEF Collected
<1>2. "document" \in Facts
  BY DEF Facts
<1> QED BY <1>1, <1>2, FactsType

LEMMA AskFacts ==
  /\ \A a \in {"reference", "prefix", "conflict"} : Ask(a, <<>>) \in Question
  /\ \A k \in Kinds : /\ Ask("fixture", <<k>>) \in Question
                      /\ Ask("fixture", <<k>>) # Ask("reference", <<>>)
                      /\ Ask("own", <<"expired">>) \notin {Ask("reference", <<>>), Ask("fixture", <<k>>)}
  /\ \A k, l \in Kinds : Ask("fixture", <<k>>) = Ask("fixture", <<l>>) => k = l
  /\ \A i \in PointId : Ask("row", i) \in Question
<1>1. \A k, l \in Kinds : <<k>> = <<l>> => k = l
  OBVIOUS
<1>2. \A k, l \in Kinds : Ask("fixture", <<k>>) = Ask("fixture", <<l>>) => <<k>> = <<l>>
  BY DEF Ask
<1> QED BY <1>1, <1>2 DEF Ask, Question

-----------------------------------------------------------------------------
(* The steps.                                                               *)

LEMMA AnalysisStarts == AnalysisInit => AnalysisInv
<1> SUFFICES ASSUME AnalysisInit PROVE AnalysisInv
  OBVIOUS
<1> USE DEF AnalysisInit
<1>1. NoRequirement \in RequirementDocument
  BY DEF NoRequirement, RequirementDocument
<1>2. NoOutput \in [requirement: RequirementDocument, points: SUBSET TestPoint]
  BY <1>1 DEF NoOutput
<1>3. NoProtocol \in AuthProtocol
  BY DEF NoProtocol, AuthProtocol
<1>4. project \in Settings /\ says \in [Sources -> SUBSET Signals] /\ Len(Parameters) \in Nat
  BY AnalysisAssumption DEF AnalysisAssumption
<1>5. AnalysisTypeOK
  BY <1>1, <1>2, <1>3, <1>4 DEF AnalysisTypeOK, Answered, Bound
<1> QED BY <1>5 DEF AnalysisInv, Ruled

\* What a step that leaves the answer alone keeps.
LEMMA AnswerFramed ==
  ASSUME UNCHANGED <<facts, output, requirement, points, protocol>>
  PROVE  /\ PointsTraced' <=> PointsTraced
         /\ ReferencesTraced' <=> ReferencesTraced
         /\ PrefixTraced' <=> PrefixTraced
         /\ RejectionsHaveFixtures' <=> RejectionsHaveFixtures
         /\ TokensGiven' <=> TokensGiven
         /\ ExpectsTheUsual' <=> ExpectsTheUsual
         /\ QuestionsTraced' <=> QuestionsTraced
         /\ BehaviorsKept' <=> BehaviorsKept
         /\ BehaviorsTraced' <=> BehaviorsTraced
<1>1. PointsTraced' <=> PointsTraced
  BY DEF PointsTraced, DistinctIds, Asked, Ask, StandsIn, FixtureKind
<1>2. ReferencesTraced' <=> ReferencesTraced
  BY DEF ReferencesTraced, Asked, Ask
<1>3. PrefixTraced' <=> PrefixTraced
  BY DEF PrefixTraced, Rewords, Asked, Ask
<1>4. RejectionsHaveFixtures' <=> RejectionsHaveFixtures
  BY DEF RejectionsHaveFixtures, FixtureKind, Asked, Ask
<1>5. TokensGiven' <=> TokensGiven
  BY DEF TokensGiven
<1>6. ExpectsTheUsual' <=> ExpectsTheUsual
  BY DEF ExpectsTheUsual, Resolved, Classified, Usual
<1>7. QuestionsTraced' <=> QuestionsTraced
  BY DEF QuestionsTraced, Settled, AnyFixture, Ask
<1>8. (BehaviorsKept' <=> BehaviorsKept) /\ (BehaviorsTraced' <=> BehaviorsTraced)
  BY DEF BehaviorsKept, BehaviorsTraced, Bounded, LeftOpen, Shows, Classified
<1> QED BY <1>1, <1>2, <1>3, <1>4, <1>5, <1>6, <1>7, <1>8

LEMMA DecidedFramed ==
  ASSUME UNCHANGED <<requirement, points>>, NEW p
  PROVE  Decided(p)' <=> Decided(p)
BY DEF Decided, Bounded, Ambiguous, Represents, Names, Numbers, Shows

LEMMA BeforeTheAnswer ==
  ASSUME AnalysisInv, ParseDocument \/ RetrieveEvidence \/ SaveSettings \/ AgentFails
  PROVE  AnalysisInv'
<1> USE DEF AnalysisInv
<1>1. CASE ParseDocument
  BY <1>1 DEF ParseDocument, AnalysisTypeOK, Answered, Bound, Ruled
<1>2. CASE RetrieveEvidence
  <2>1. PICK broken \in SUBSET {"source_code", "database_schema"} :
          LET read == {x \in Providers \ broken : Healthy(x) /\ Consulted(x)} IN
          /\ facts' = Collected(read)
          /\ protocol' = ExtractProtocol({"contract"} \cup {s \in {"document"} : input.document}
                                            \cup {s \in {"source"} : "source_code" \in read})
    BY <1>2 DEF RetrieveEvidence
  <2> DEFINE read == {x \in Providers \ broken : Healthy(x) /\ Consulted(x)}
             present == {"contract"} \cup {s \in {"document"} : input.document}
                          \cup {s \in {"source"} : "source_code" \in read}
  <2>3. facts' \subseteq Facts
    <3>1. facts' = Collected(read)
      BY <2>1
    <3>2. read \in SUBSET Providers
      OBVIOUS
    <3> HIDE DEF read
    <3> QED BY <3>1, <3>2, CollectedType
  <2>4. present \subseteq Sources
    <3> HIDE DEF read
    <3> QED BY DEF Sources
  <2>5. protocol' = ExtractProtocol(present)
    BY <2>1
  <2>6. protocol' \in AuthProtocol
    <3> HIDE DEF present
    <3> QED BY <2>4, <2>5, ProtocolType DEF AnalysisTypeOK
  <2>7. node' = "ask"
    BY <1>2 DEF RetrieveEvidence
  <2>8. AnalysisTypeOK'
    BY <1>2, <2>3, <2>6, <2>7 DEF RetrieveEvidence, AnalysisTypeOK, Answered, Bound
  <2> QED BY <2>7, <2>8 DEF Ruled
<1>3. CASE SaveSettings
  <2>1. PICK enabled \in BOOLEAN : project' = [project EXCEPT !.database = enabled]
    BY <1>3 DEF SaveSettings
  <2>2. project' \in Settings
    BY <2>1 DEF AnalysisTypeOK, Settings
  <2> QED BY <1>3, <2>2 DEF SaveSettings, AnalysisTypeOK, Answered, Bound, Ruled
<1>4. CASE AgentFails
  BY <1>4 DEF AgentFails, AnalysisTypeOK, Answered, Bound, Ruled
<1> QED BY <1>1, <1>2, <1>3, <1>4

LEMMA AgentAnswers == AnalysisInv /\ NluAgent => AnalysisInv'
<1> SUFFICES ASSUME AnalysisInv, NluAgent PROVE AnalysisInv'
  OBVIOUS
<1>1. PICK answer \in Outputs :
        /\ output' = answer
        /\ points' = answer.points
        /\ requirement' = [answer.requirement EXCEPT
             !.cites = @ \cap facts,
             !.questions = @ \cup {q \in {Ask("reference", <<>>)} :
                                      ~(answer.requirement.cites \subseteq facts)}]
  BY DEF NluAgent
<1>2. answer \in [requirement: RequirementDocument, points: SUBSET TestPoint]
  BY AnalysisAssumption DEF AnalysisAssumption
<1> DEFINE r == answer.requirement
           asked == {q \in {Ask("reference", <<>>)} : ~(r.cites \subseteq facts)}
<1>3. r \in RequirementDocument /\ asked \subseteq Question
  BY <1>2, AskFacts
<1> HIDE DEF r
<1>4. requirement' = [r EXCEPT !.cites = @ \cap facts, !.questions = @ \cup asked]
  BY <1>1 DEF r
<1> HIDE DEF asked
<1>5. r.cites \cap facts \in SUBSET Reference /\ r.questions \cup asked \in SUBSET Question
  BY <1>3 DEF RequirementDocument
<1>6. requirement' \in RequirementDocument
  BY <1>3, <1>4, <1>5 DEF RequirementDocument
<1>7. /\ requirement'.cites = r.cites \cap facts /\ requirement'.questions = r.questions \cup asked
      /\ requirement'.invented = r.invented /\ requirement'.behaviors = r.behaviors
  BY <1>3, <1>4 DEF RequirementDocument
<1>8. node' = "auth" /\ UNCHANGED <<project, input, says, facts, protocol, at>>
  BY DEF NluAgent
<1>9. AnalysisTypeOK'
  BY <1>1, <1>2, <1>6, <1>7, <1>8 DEF AnalysisInv, AnalysisTypeOK, Answered, Bound
<1>10. ReferencesTraced'
  BY <1>1, <1>7, <1>8 DEF ReferencesTraced, Asked, Ask, asked, r
<1>11. AnswerAsGiven'
  BY <1>1, <1>7, <1>10 DEF AnswerAsGiven, r
<1> QED BY <1>8, <1>9, <1>11 DEF AnalysisInv, Ruled

\* Worded points are those of the agent, but for an invented prefix.
LEMMA RulesApply == AnalysisInv /\ NormalizeAuthProtocol => AnalysisInv'
<1> SUFFICES ASSUME AnalysisInv, NormalizeAuthProtocol PROVE AnalysisInv'
  OBVIOUS
<1> DEFINE reworded == Rewords /\ (requirement.invented \/ \E x \in points : x.invented)
           word(x) == [x EXCEPT !.invented = @ /\ ~Rewords]
           worded == {word(x) : x \in points}
<1>1. PICK merged \in MergeRejections(worded) :
        LET canonical == {Canonical(x) : x \in merged}
            kinds == NeededFixtures(canonical)
            missing == {Ask("fixture", <<k>>) : k \in {n \in kinds : FixtureFor(n) = {}}}
            questions == ((requirement.questions \cup missing) \ Settled)
                            \cup {q \in {Ask("prefix", <<>>)} : reworded}
                            \cup {q \in {Ask("conflict", <<>>)} : protocol.noted}
        IN /\ points' = {BindFixture(x) : x \in canonical}
           /\ requirement' = [requirement EXCEPT
                !.invented = @ /\ ~Rewords,
                !.cites = @ \cup UNION {FixtureFor(k) : k \in kinds},
                !.behaviors = Collapsed(@), !.questions = questions,
                !.confidence = IF questions # {} /\ @ = "confirmed" THEN "question" ELSE @]
  BY DEF NormalizeAuthProtocol
<1> DEFINE canonical == {Canonical(x) : x \in merged}
           kinds == NeededFixtures(canonical)
           missing == {Ask("fixture", <<k>>) : k \in {n \in kinds : FixtureFor(n) = {}}}
           questions == ((requirement.questions \cup missing) \ Settled)
                           \cup {q \in {Ask("prefix", <<>>)} : reworded}
                           \cup {q \in {Ask("conflict", <<>>)} : protocol.noted}
           found == UNION {FixtureFor(k) : k \in kinds}
<1>2. /\ points' = {BindFixture(x) : x \in canonical}
      /\ requirement' = [requirement EXCEPT
           !.invented = @ /\ ~Rewords, !.cites = @ \cup found,
           !.behaviors = Collapsed(@), !.questions = questions,
           !.confidence = IF questions # {} /\ @ = "confirmed" THEN "question" ELSE @]
  BY <1>1
<1>3. /\ node = "auth" /\ node' = "require"
      /\ UNCHANGED <<project, input, says, facts, output, protocol, at>>
  BY DEF NormalizeAuthProtocol
<1>4. /\ AnalysisTypeOK /\ AnswerAsGiven /\ points \subseteq TestPoint /\ facts \subseteq Facts
      /\ requirement \in RequirementDocument /\ requirement.cites \subseteq facts
      /\ points = output.points /\ requirement.invented = output.requirement.invented
      /\ requirement.behaviors = output.requirement.behaviors
      /\ output.requirement.questions \subseteq requirement.questions
      /\ ReferencesTraced
  BY <1>3 DEF AnalysisInv, AnalysisTypeOK, AnswerAsGiven, Answered
\* The points.
<1>5. \A x \in points :
        LET w == word(x) IN
        /\ w \in TestPoint /\ Carries(x, w) /\ w.auth = x.auth /\ w.fixtures = x.fixtures
        /\ w.invented = (x.invented /\ ~Rewords) /\ FixtureKind(w) = FixtureKind(x)
  <2> SUFFICES ASSUME NEW x \in points
               PROVE  LET w == word(x) IN
                      /\ w \in TestPoint /\ Carries(x, w) /\ w.auth = x.auth /\ w.fixtures = x.fixtures
                      /\ w.invented = (x.invented /\ ~Rewords) /\ FixtureKind(w) = FixtureKind(x)
    OBVIOUS
  <2> DEFINE i == x.invented /\ ~Rewords
             w == word(x)
  <2>1. w = [x EXCEPT !.invented = i] /\ i \in BOOLEAN
    OBVIOUS
  <2> HIDE DEF w, i
  <2>2. x \in TestPoint
    BY <1>4
  <2>3. w \in TestPoint /\ w.invented = i
    BY <2>1, <2>2 DEF TestPoint
  <2>4. Carries(x, w) /\ w.auth = x.auth /\ w.fixtures = x.fixtures
    BY <2>1, <2>2 DEF TestPoint, Carries
  <2>5. FixtureKind(w) = FixtureKind(x)
    BY <2>4, SameKind DEF Carries
  <2> QED BY <2>3, <2>4, <2>5 DEF w, i
<1>6. worded \in SUBSET TestPoint
  BY <1>5
<1> HIDE DEF reworded
<1>7. \A w \in worded : \E x \in points :
        /\ Carries(x, w) /\ w.invented = (x.invented /\ ~Rewords) /\ FixtureKind(w) = FixtureKind(x)
  <2> SUFFICES ASSUME NEW w \in worded
               PROVE  \E x \in points :
                        /\ Carries(x, w) /\ w.invented = (x.invented /\ ~Rewords)
                        /\ FixtureKind(w) = FixtureKind(x)
    OBVIOUS
  <2>1. PICK x \in points : w = word(x)
    OBVIOUS
  <2> HIDE DEF word, worded
  <2> QED BY <1>5, <2>1
<1>8. \A x \in points : \E w \in worded : Carries(x, w) /\ FixtureKind(w) = FixtureKind(x)
  BY <1>5
<1> HIDE DEF worded, word
<1>9. /\ merged \subseteq TestPoint
      /\ \A x \in merged : x \in worded \/ StandsFor(x, worded)
      /\ \A x \in worded : \/ x \in merged
                           \/ /\ \E y \in Rejections(worded) : y.id = x.id
                              /\ \E m \in merged : StandsFor(m, worded)
  BY <1>4, <1>6, <1>1, MergeFacts
<1>10. Rejections(worded) \subseteq worded
  BY DEF Rejections
<1>11. \A m \in merged : /\ \E x \in points : m.id = x.id /\ m.token \in {x.token, NoToken}
                         /\ Rewords => ~m.invented
  <2> SUFFICES ASSUME NEW m \in merged
               PROVE  /\ \E x \in points : m.id = x.id /\ m.token \in {x.token, NoToken}
                      /\ Rewords => ~m.invented
    OBVIOUS
  <2>1. PICK c \in worded : m.id = c.id /\ m.token \in {c.token, NoToken} /\ m.invented = c.invented
    BY <1>9, <1>10 DEF StandsFor
  <2>2. PICK x \in points : Carries(x, c) /\ c.invented = (x.invented /\ ~Rewords)
    BY <1>7
  <2> QED BY <2>1, <2>2 DEF Carries
<1>12. canonical \subseteq TestPoint /\ \A c \in canonical : \E m \in merged : c = Canonical(m)
  BY <1>9, CanonicalFacts
<1>13. \A y \in points' : \E c \in canonical : y = BindFixture(c)
  BY <1>2
<1>14. points' \subseteq TestPoint
  BY <1>12, <1>13, BindFacts
\* The Requirement.
<1>15. kinds \subseteq Kinds \ {"none"} /\ \A c \in canonical : FixtureKind(c) \in kinds \cup {"none"}
  BY <1>12, KindFacts DEF NeededFixtures
<1> HIDE DEF kinds, canonical
<1>16. found \subseteq facts /\ found \subseteq Reference /\ \A k \in kinds : FixtureFor(k) \subseteq found
  <2>1. \A k \in kinds : FixtureFor(k) \subseteq facts
    BY <1>15, FixtureFacts
  <2>2. facts \subseteq Reference
    BY <1>4 DEF Reference
  <2> QED BY <2>1, <2>2
<1> HIDE DEF found
<1>17. missing \subseteq Question
  BY <1>15, AskFacts
<1>18. questions \in SUBSET Question
  <2>1. requirement.questions \subseteq Question
    BY <1>4 DEF RequirementDocument
  <2>2. {q \in {Ask("prefix", <<>>)} : reworded} \subseteq Question
        /\ {q \in {Ask("conflict", <<>>)} : protocol.noted} \subseteq Question
    BY AskFacts
  <2> HIDE DEF missing
  <2> QED BY <1>17, <2>1, <2>2
<1>19. /\ \A q \in requirement.questions \cup missing : q \in questions \/ q \in Settled
       /\ reworded => Ask("prefix", <<>>) \in questions
  <2> HIDE DEF missing
  <2> QED OBVIOUS
<1> DEFINE confidence == IF questions # {} /\ requirement.confidence = "confirmed"
                         THEN "question" ELSE requirement.confidence
           cites == requirement.cites \cup found
           behaviors == Collapsed(requirement.behaviors)
           invented == requirement.invented /\ ~Rewords
<1>20. /\ confidence \in {"confirmed", "inferred", "question"} /\ cites \in SUBSET Reference
       /\ invented \in BOOLEAN /\ behaviors \in SUBSET Behavior
  <2>1. requirement.confidence \in {"confirmed", "inferred", "question"}
        /\ requirement.cites \subseteq Reference /\ requirement.behaviors \subseteq Behavior
    BY <1>4 DEF RequirementDocument
  <2>2. CombinedBehavior \in Behavior
    BY DEF CombinedBehavior, Behavior, NoText, Text
  <2> HIDE DEF questions
  <2>3. behaviors \in SUBSET Behavior
    BY <2>1, <2>2 DEF Collapsed
  <2> QED BY <2>1, <2>3, <1>16
<1>21. requirement' = [requirement EXCEPT !.invented = invented, !.cites = cites,
                          !.behaviors = behaviors,
                          !.questions = questions, !.confidence = confidence]
  BY <1>2
<1> HIDE DEF questions, confidence, invented, cites, behaviors
<1>22. requirement' \in RequirementDocument
  BY <1>4, <1>18, <1>20, <1>21 DEF RequirementDocument
<1>23. /\ requirement'.questions = questions /\ requirement'.cites = requirement.cites \cup found
       /\ requirement'.invented = (requirement.invented /\ ~Rewords)
       /\ requirement'.both = requirement.both
       /\ requirement'.behaviors = Collapsed(requirement.behaviors)
  <2>1. /\ requirement'.questions = questions /\ requirement'.cites = cites
        /\ requirement'.invented = invented /\ requirement'.both = requirement.both
        /\ requirement'.behaviors = behaviors
    BY <1>4, <1>21 DEF RequirementDocument
  <2> QED BY <2>1 DEF cites, invented, behaviors
<1>24. AnalysisTypeOK'
  BY <1>3, <1>4, <1>14, <1>16, <1>22, <1>23 DEF AnalysisTypeOK, Answered, Bound
\* What is kept.
<1>25. PointsTraced'
  <2> SUFFICES ASSUME DistinctIds, NEW x \in points
               PROVE  \E y \in points' : StandsIn(x, y)'
    BY <1>3, <1>4 DEF PointsTraced, DistinctIds
  <2>1. PICK w \in worded : Carries(x, w) /\ FixtureKind(w) = FixtureKind(x)
    BY <1>8
  <2>2. CASE w \in merged
    <3> DEFINE c == Canonical(w)
    <3>1. w \in TestPoint /\ c \in canonical
      BY <1>9, <2>2 DEF canonical
    <3>2. c.id = w.id /\ c.evidence = w.evidence /\ c \in TestPoint
      BY <3>1, CanonicalFacts DEF Carries
    <3> HIDE DEF c
    <3>3. /\ BindFixture(c).id = x.id /\ BindFixture(c) \in points'
          /\ x.evidence \subseteq BindFixture(c).evidence
      BY <3>1, <3>2, <2>1, <1>2, BindFacts DEF Carries
    <3> QED BY <1>3, <3>3 DEF StandsIn
  <2>3. CASE w \notin merged
    <3>1. PICK y \in Rejections(worded) : y.id = w.id
      BY <1>9, <2>3
    <3>2. PICK m \in merged : StandsFor(m, worded)
      BY <1>9, <2>3
    <3>3. PICK z \in points : Carries(z, y) /\ FixtureKind(y) = FixtureKind(z)
      BY <3>1, <1>7, <1>10
    <3>4. z = x
      BY <2>1, <3>1, <3>3, <1>4 DEF Carries, DistinctIds
    <3>5. FixtureKind(x) \in Fixtures /\ y.evidence = x.evidence /\ y.evidence \subseteq m.evidence
      BY <3>1, <3>2, <3>3, <3>4 DEF Rejections, Carries, StandsFor
    <3>6. m \in TestPoint /\ FixtureKind(m) = "combined"
      BY <1>9, <3>2, KindFacts DEF StandsFor
    <3> DEFINE c == Canonical(m)
    <3>7. c \in canonical /\ c \in TestPoint /\ FixtureKind(c) # "none" /\ c.evidence = m.evidence
      BY <3>6, <1>9, CanonicalFacts DEF canonical, Carries
    <3> HIDE DEF c
    <3>8. PICK b \in points' :
            /\ b \in TestPoint /\ b.category = c.category /\ b.auth = c.auth
            /\ b.fixtures = c.fixtures \cup Bindable(FixtureKind(c)) /\ c.evidence \subseteq b.evidence
      BY <3>7, <1>2, BindFacts
    <3>9. FixtureKind(b) # "none"
      <4>1. c.category = "negative" /\ b \in TestPoint /\ c \in TestPoint
        BY <3>7, <3>8, KindFacts
      <4>2. "none" \notin {"combined", "nonexistent", "expired"}
        OBVIOUS
      <4>3. CASE c.auth = "combined"
        BY <4>1, <4>3, <3>8, KindFacts
      <4>4. CASE c.auth # "combined" /\ b.fixtures = {}
        BY <4>4, <4>1, <3>7, <3>8 DEF FixtureKind
      <4>5. CASE c.auth # "combined" /\ b.fixtures # {}
        BY <4>5, <4>1, <3>8 DEF FixtureKind, TestPoint, Fixtures
      <4> QED BY <4>3, <4>4, <4>5
    <3>10. StandsIn(x, b)'
      BY <1>3, <3>5, <3>7, <3>8, <3>9 DEF StandsIn, FixtureKind
    <3> QED BY <3>8, <3>10
  <2> QED BY <2>2, <2>3
<1>26. ReferencesTraced'
  <2>1. Ask("reference", <<>>) \notin Settled
    BY AskFacts DEF Kinds, Fixtures, Settled
  <2> QED BY <1>3, <1>4, <1>19, <1>23, <2>1 DEF ReferencesTraced, Asked, Ask
<1>27. PrefixTraced'
  <2>1. Rewords' = Rewords
    BY <1>3 DEF Rewords
  <2>2. Rewords => \A y \in points' : ~y.invented
    <3> SUFFICES ASSUME Rewords, NEW y \in points' PROVE ~y.invented
      OBVIOUS
    <3>1. PICK c \in canonical : y = BindFixture(c)
      BY <1>13
    <3>2. PICK m \in merged : c = Canonical(m)
      BY <1>12
    <3>3. m \in TestPoint /\ ~m.invented
      BY <1>9, <1>11
    <3> QED BY <3>1, <3>2, <3>3, CanonicalFacts, BindFacts
  <2>3. Rewords /\ (output.requirement.invented \/ \E x \in output.points : x.invented)
          => Ask("prefix", <<>>) \in questions
    BY <1>4, <1>19 DEF reworded
  <2> QED BY <1>3, <1>23, <2>1, <2>2, <2>3 DEF PrefixTraced, Asked, Ask
<1>28. RejectionsHaveFixtures'
  <2> SUFFICES ASSUME NEW y \in points', FixtureKind(y) # "none", y.rejected
               PROVE  \/ y.fixtures \cap y.evidence \cap requirement'.cites # {}
                      \/ Ask("fixture", <<FixtureKind(y)>>) \in questions
    BY <1>23 DEF RejectionsHaveFixtures, FixtureKind, Asked, Ask
  <2>1. PICK c \in canonical : y = BindFixture(c)
    BY <1>13
  <2>2. PICK m \in merged : c = Canonical(m)
    BY <1>12
  <2> DEFINE k == FixtureKind(c)
             f == Bindable(k)
  <2>3. /\ m \in TestPoint /\ c \in TestPoint /\ y.category = c.category /\ y.auth = c.auth
        /\ y.rejected = c.rejected /\ y.fixtures = c.fixtures \cup f /\ y.evidence = c.evidence \cup f
    BY <1>9, <1>12, <2>1, BindFacts
  <2>4. k \in Kinds /\ k \in kinds \cup {"none"}
    BY <2>3, <1>15, KindFacts
  <2> HIDE DEF f
  <2>5. CASE f # {}
    <3>1. k # "none" /\ f = FixtureFor(k)
      BY <2>5 DEF f, Bindable
    <3>2. f \subseteq requirement'.cites
      BY <3>1, <2>4, <1>16, <1>23
    <3> QED BY <2>3, <2>5, <3>2
  <2>6. CASE f = {}
    <3>1. FixtureKind(y) = k /\ k # "none"
      <4>1. y.fixtures = c.fixtures
        BY <2>3, <2>6
      <4> QED BY <4>1, <2>3, SameKind
    <3>2. k \in kinds /\ FixtureFor(k) = {}
      BY <3>1, <2>4, <2>6 DEF f, Bindable
    <3>3. Ask("fixture", <<k>>) \in missing
      BY <3>2
    <3>4. Ask("fixture", <<k>>) \notin Settled
      <4>1. CASE ~(requirement.both /\ AnyFixture # {})
        BY <4>1 DEF Settled
      <4>2. CASE requirement.both /\ AnyFixture # {}
        <5>1. FixtureKind(c) = "combined"
          BY <4>2, <2>2, <2>3, <3>1, CanonicalFacts
        <5>2. FixtureFor(k) = AnyFixture
          BY <5>1, FixtureFacts DEF Kinds
        <5> QED BY <3>2, <4>2, <5>2
      <4> QED BY <4>1, <4>2
    <3> HIDE DEF missing
    <3> QED BY <1>19, <3>1, <3>3, <3>4
  <2> QED BY <2>5, <2>6
<1>29. TokensGiven'
  <2> SUFFICES ASSUME NEW y \in points', y.token # NoToken
               PROVE  \E x \in points : x.id = y.id /\ x.token = y.token
    BY <1>3, <1>4 DEF TokensGiven
  <2>1. PICK c \in canonical : y = BindFixture(c)
    BY <1>13
  <2>2. PICK m \in merged : c = Canonical(m)
    BY <1>12
  <2>3. y.id = m.id /\ y.token = m.token
    BY <1>9, <1>12, <2>1, <2>2, CanonicalFacts, BindFacts DEF Carries
  <2> QED BY <1>11, <2>3
<1>30. QuestionsTraced'
  <2>1. Settled' = Settled
    BY <1>3, <1>23 DEF Settled, AnyFixture, Ask
  <2> QED BY <1>3, <1>4, <1>19, <1>23, <2>1 DEF QuestionsTraced
<1>31. BehaviorsKept'
  BY <1>3, <1>4, <1>23 DEF BehaviorsKept, Collapsed
<1> QED BY <1>3, <1>24, <1>25, <1>26, <1>27, <1>28, <1>29, <1>30, <1>31, SMTT(30) DEF AnalysisInv, Ruled

LEMMA RequirementRequired == AnalysisInv /\ RequireRequirement => AnalysisInv'
<1> SUFFICES ASSUME AnalysisInv, RequireRequirement PROVE AnalysisInv'
  OBVIOUS
<1>1. /\ node = "require" /\ node' \in {"points", "failed"}
      /\ UNCHANGED <<project, input, says, facts, output, requirement, points, protocol, at>>
  BY DEF RequireRequirement
<1>2. AnalysisTypeOK'
  BY <1>1 DEF AnalysisInv, AnalysisTypeOK, Answered, Bound
<1> QED BY <1>1, <1>2, AnswerFramed DEF AnalysisInv, Ruled

\* A step that rewrites points: each stays what it is but for evidence that
\* the snapshot does not have.
LEMMA PointsNormalized == AnalysisInv /\ NormalizeTestPoints => AnalysisInv'
<1> SUFFICES ASSUME AnalysisInv, NormalizeTestPoints PROVE AnalysisInv'
  OBVIOUS
<1> DEFINE cited(x) == IF x.evidence \cap facts = {} /\ x.source = "requirement"
                       THEN facts \cap {"document"} ELSE x.evidence \cap facts
           n(x) == [x EXCEPT !.evidence = cited(x)]
<1>1. /\ node = "points" /\ node' = "complete" /\ at' = 1
      /\ UNCHANGED <<project, input, says, facts, output, requirement, protocol>>
  BY DEF NormalizeTestPoints
<1>2. points' = {n(x) : x \in points}
  BY DEF NormalizeTestPoints
<1>3. /\ AnalysisTypeOK /\ PointsTraced /\ ReferencesTraced /\ PrefixTraced
      /\ RejectionsHaveFixtures /\ TokensGiven /\ QuestionsTraced /\ BehaviorsKept
  BY <1>1 DEF AnalysisInv, Ruled
<1>4. facts \subseteq Facts /\ points \subseteq TestPoint /\ requirement.cites \subseteq facts
  BY <1>1, <1>3 DEF AnalysisTypeOK, Answered
<1>5. \A x \in points :
        /\ n(x) \in TestPoint /\ n(x).evidence \subseteq facts /\ x.evidence \cap facts \subseteq n(x).evidence
        /\ n(x).id = x.id /\ n(x).token = x.token /\ n(x).rejected = x.rejected
        /\ n(x).invented = x.invented /\ n(x).fixtures = x.fixtures
        /\ FixtureKind(n(x)) = FixtureKind(x)
  <2> SUFFICES ASSUME NEW x \in points
               PROVE  /\ n(x) \in TestPoint /\ n(x).evidence \subseteq facts
                      /\ x.evidence \cap facts \subseteq n(x).evidence
                      /\ n(x).id = x.id /\ n(x).token = x.token /\ n(x).rejected = x.rejected
                      /\ n(x).invented = x.invented /\ n(x).fixtures = x.fixtures
                      /\ FixtureKind(n(x)) = FixtureKind(x)
    OBVIOUS
  <2> DEFINE e == cited(x)
             y == n(x)
  <2>1. x \in TestPoint
    BY <1>4
  <2>2. e \subseteq facts /\ x.evidence \cap facts \subseteq e /\ e \in SUBSET Reference
    BY <1>4 DEF Reference
  <2>3. y = [x EXCEPT !.evidence = e]
    OBVIOUS
  <2> HIDE DEF e, y
  <2>4. /\ y \in TestPoint /\ y.evidence = e
        /\ y.id = x.id /\ y.token = x.token /\ y.rejected = x.rejected /\ y.invented = x.invented
        /\ y.fixtures = x.fixtures /\ y.category = x.category /\ y.auth = x.auth
    BY <2>1, <2>2, <2>3 DEF TestPoint
  <2>5. FixtureKind(y) = FixtureKind(x)
    BY <2>4, SameKind
  <2> QED BY <2>2, <2>4, <2>5 DEF y
<1> HIDE DEF n
<1>6. \A y \in points' : \E x \in points : y = n(x)
  BY <1>2
<1>7. \A x \in points : n(x) \in points'
  BY <1>2
<1>8. AnalysisTypeOK'
  <2>1. points' \subseteq TestPoint /\ \A y \in points' : y.evidence \subseteq facts
    BY <1>5, <1>6
  <2>2. at' \in 1..(Len(Parameters) + 1)
    BY <1>1, AnalysisAssumption DEF AnalysisAssumption
  <2> QED BY <1>1, <1>3, <2>1, <2>2 DEF AnalysisTypeOK, Answered, Bound
<1>9. PointsTraced'
  <2> SUFFICES ASSUME DistinctIds, NEW x \in output.points
               PROVE  Asked("row", x.id) \/ \E y \in points' : StandsIn(x, y)'
    BY <1>1 DEF PointsTraced, DistinctIds, Asked, Ask
  <2>1. ASSUME NEW y \in points, StandsIn(x, y)
        PROVE  \E z \in points' : StandsIn(x, z)'
    <3>1. PICK z \in points' : z = n(y)
      BY <1>7
    <3> QED BY <1>1, <1>5, <2>1, <3>1 DEF StandsIn, FixtureKind
  <2> QED BY <1>3, <2>1 DEF PointsTraced
<1>10. ReferencesTraced' /\ PrefixTraced'
  <2>1. \A y \in points' : Rewords => ~y.invented
    BY <1>3, <1>5, <1>6 DEF PrefixTraced
  <2> QED BY <1>1, <1>3, <2>1 DEF ReferencesTraced, PrefixTraced, Rewords, Asked, Ask
<1>11. RejectionsHaveFixtures'
  <2> SUFFICES ASSUME NEW y \in points', FixtureKind(y) # "none", y.rejected
               PROVE  \/ y.fixtures \cap y.evidence \cap requirement.cites # {}
                      \/ Asked("fixture", <<FixtureKind(y)>>)
    BY <1>1 DEF RejectionsHaveFixtures, FixtureKind, Asked, Ask
  <2>1. PICK x \in points : y = n(x)
    BY <1>6
  <2>2. \/ x.fixtures \cap x.evidence \cap requirement.cites # {}
        \/ Asked("fixture", <<FixtureKind(x)>>)
    BY <1>3, <1>5, <2>1 DEF RejectionsHaveFixtures
  <2> QED BY <1>4, <1>5, <2>1, <2>2
<1>12. TokensGiven'
  BY <1>1, <1>3, <1>5, <1>6 DEF TokensGiven
<1>13. QuestionsTraced' /\ BehaviorsKept'
  BY <1>1, <1>3 DEF QuestionsTraced, Settled, AnyFixture, Ask, BehaviorsKept
<1> QED BY <1>1, <1>8, <1>9, <1>10, <1>11, <1>12, <1>13 DEF AnalysisInv, Ruled

-----------------------------------------------------------------------------
\* A point made for a boundary cites what the Requirement does, and is no
\* rejection.
Made(x) ==
  /\ x \in TestPoint /\ x.evidence \subseteq requirement.cites /\ x.token = NoToken
  /\ ~x.invented /\ FixtureKind(x) = "none"

LEMMA PointMade ==
  ASSUME NEW p \in Params, NEW value \in Int, NEW b \in Behavior,
         requirement.cites \subseteq Reference
  PROVE  Made(BoundaryPoint(p, value, b))
<1> DEFINE x == BoundaryPoint(p, value, b)
           title == [names |-> {p}, numbers |-> {value}]
           action == [names |-> {p} \cup PathParams, numbers |-> {value}]
<1>1. title \in Text /\ action \in Text
  BY AnalysisAssumption DEF AnalysisAssumption, Text
<1>2. <<p, value>> \in PointId
  BY DEF PointId
<1>3. CitedDocument \subseteq requirement.cites /\ CitedDocument \in SUBSET Reference
  BY DEF CitedDocument
<1>4. b.text \in Text /\ b.open \in BOOLEAN
  BY DEF Behavior
<1>5. NoToken \in Token /\ "none" \in Kinds
  BY DEF Token, Kinds
<1>6. x = [id |-> <<p, value>>, category |-> "boundary", source |-> "requirement",
           title |-> title, action |-> action,
           result |-> b.text, open |-> b.open, token |-> NoToken,
           auth |-> "none", fixtures |-> {}, rejected |-> FALSE, invented |-> FALSE,
           evidence |-> CitedDocument]
  BY DEF BoundaryPoint
<1> HIDE DEF title, action
<1> DEFINE i == <<p, value>>
           open == b.open
<1> HIDE DEF i, open, x
<1>7. x = [id |-> i, category |-> "boundary", source |-> "requirement",
           title |-> title, action |-> action,
           result |-> b.text, open |-> open, token |-> NoToken,
           auth |-> "none", fixtures |-> {}, rejected |-> FALSE, invented |-> FALSE,
           evidence |-> CitedDocument]
  BY <1>6 DEF i, open
<1>8. x \in TestPoint
  BY <1>1, <1>2, <1>3, <1>4, <1>5, <1>7 DEF TestPoint, i, open
<1>9. /\ x.category = "boundary" /\ x.token = NoToken /\ ~x.invented /\ x.evidence = CitedDocument
  BY <1>7
<1>10. FixtureKind(x) = "none"
  BY <1>9 DEF FixtureKind
<1> QED BY <1>3, <1>8, <1>9, <1>10 DEF Made, x

LEMMA BoundariesAdded == AnalysisInv /\ CompleteBoundaryPoints => AnalysisInv'
<1> SUFFICES ASSUME AnalysisInv, CompleteBoundaryPoints PROVE AnalysisInv'
  OBVIOUS
<1> DEFINE p == Parameters[at]
<1>1. /\ node = "complete" /\ at \in 1..Len(Parameters) /\ at' = at + 1
      /\ UNCHANGED <<node, project, input, says, facts, output, requirement, protocol>>
  BY AnalysisAssumption DEF CompleteBoundaryPoints, Looping, AnalysisInv, AnalysisTypeOK,
                            AnalysisAssumption
<1>2. /\ AnalysisTypeOK /\ PointsTraced /\ ReferencesTraced /\ PrefixTraced
      /\ RejectionsHaveFixtures /\ TokensGiven /\ QuestionsTraced /\ BehaviorsKept
  BY <1>1 DEF AnalysisInv, Ruled
<1>3. /\ facts \subseteq Facts /\ points \subseteq TestPoint /\ requirement.cites \subseteq facts
      /\ requirement \in RequirementDocument /\ \A x \in points : x.evidence \subseteq facts
  BY <1>1, <1>2 DEF AnalysisTypeOK, Answered, Bound
<1>4. p \in Params
  BY <1>1, AnalysisAssumption DEF AnalysisAssumption
<1>5. points \subseteq points' /\ \A x \in points' : x \in points \/ Made(x)
  <2>1. CASE UNCHANGED points
    BY <2>1
  <2>2. CASE ~UNCHANGED points
    <3>1. PICK b \in FailureBehaviors(p) :
            points' = WithRepresentative(
                        WithRepresentative(points, p, requirement.bound[p], b),
                        p, requirement.bound[p] - 1, b)
      BY <2>2 DEF CompleteBoundaryPoints
    <3>2. b \in Behavior
      BY <1>3 DEF FailureBehaviors, RequirementDocument
    <3>3. requirement.bound[p] \in Int
      <4>1. Bounded(p)
        BY <2>2 DEF CompleteBoundaryPoints
      <4>2. requirement.bound \in [Params -> Int \cup {NoBound}]
        BY <1>3 DEF RequirementDocument
      <4> QED BY <4>1, <4>2, <1>4 DEF Bounded
    <3>4. requirement.bound[p] - 1 \in Int
      BY <3>3
    <3>5. requirement.cites \subseteq Reference
      BY <1>3 DEF Reference
    <3>6. Made(BoundaryPoint(p, requirement.bound[p], b))
      BY <1>4, <3>2, <3>3, <3>5, PointMade
    <3>7. Made(BoundaryPoint(p, requirement.bound[p] - 1, b))
      BY <1>4, <3>2, <3>4, <3>5, PointMade
    <3> QED BY <3>1, <3>6, <3>7 DEF WithRepresentative
  <2> QED BY <2>1, <2>2
<1> HIDE DEF p
<1>6. AnalysisTypeOK'
  <2>1. points' \subseteq TestPoint /\ \A x \in points' : x.evidence \subseteq facts
    BY <1>3, <1>5 DEF Made
  <2>2. at' \in 1..(Len(Parameters) + 1)
    BY <1>1, AnalysisAssumption DEF AnalysisAssumption
  <2> QED BY <1>1, <1>2, <2>1, <2>2 DEF AnalysisTypeOK, Answered, Bound
<1>7. PointsTraced'
  <2>1. /\ DistinctIds' <=> DistinctIds
        /\ \A i : Asked("row", i)' <=> Asked("row", i)
        /\ \A x, y : StandsIn(x, y)' <=> StandsIn(x, y)
    BY <1>1 DEF DistinctIds, Asked, Ask, StandsIn, FixtureKind
  <2> QED BY <1>1, <1>2, <1>5, <2>1 DEF PointsTraced
<1>8. ReferencesTraced' /\ PrefixTraced'
  <2>1. \A y \in points' : Rewords => ~y.invented
    BY <1>2, <1>5 DEF PrefixTraced, Made
  <2> QED BY <1>1, <1>2, <2>1 DEF ReferencesTraced, PrefixTraced, Rewords, Asked, Ask
<1>9. RejectionsHaveFixtures'
  <2> SUFFICES ASSUME NEW y \in points', FixtureKind(y) # "none", y.rejected
               PROVE  \/ y.fixtures \cap y.evidence \cap requirement.cites # {}
                      \/ Asked("fixture", <<FixtureKind(y)>>)
    BY <1>1 DEF RejectionsHaveFixtures, FixtureKind, Asked, Ask
  <2> QED BY <1>2, <1>5 DEF RejectionsHaveFixtures, Made
<1>10. TokensGiven'
  BY <1>1, <1>2, <1>5 DEF TokensGiven, Made
<1>11. QuestionsTraced' /\ BehaviorsKept'
  BY <1>1, <1>2 DEF QuestionsTraced, Settled, AnyFixture, Ask, BehaviorsKept
<1> QED BY <1>1, <1>6, <1>7, <1>8, <1>9, <1>10, <1>11 DEF AnalysisInv, Ruled

LEMMA BoundariesDone == AnalysisInv /\ BoundariesCompleted => AnalysisInv'
<1> SUFFICES ASSUME AnalysisInv, BoundariesCompleted PROVE AnalysisInv'
  OBVIOUS
<1>1. /\ node = "complete" /\ node' = "resolve" /\ at' = 1
      /\ UNCHANGED <<project, input, says, facts, output, requirement, points, protocol>>
  BY DEF BoundariesCompleted
<1>2. AnalysisTypeOK'
  <2>1. at' \in 1..(Len(Parameters) + 1)
    BY <1>1, AnalysisAssumption DEF AnalysisAssumption
  <2> QED BY <1>1, <2>1 DEF AnalysisInv, AnalysisTypeOK, Answered, Bound
<1>3. ExpectsTheUsual
  <2> SUFFICES ASSUME NEW q \in Params, NEW x \in points, Resolved(x, q) PROVE FALSE
    BY DEF ExpectsTheUsual
  <2>1. x.token # NoToken
    BY DEF Resolved, Classified, NoToken
  <2>2. PICK y \in output.points : y.id = x.id /\ y.token = x.token
    BY <1>1, <2>1 DEF AnalysisInv, TokensGiven
  <2> QED BY <2>1, <2>2 DEF Resolved
<1>4. BehaviorsTraced
  BY <1>1 DEF AnalysisInv, BehaviorsKept, BehaviorsTraced
<1> QED BY <1>1, <1>2, <1>3, <1>4, AnswerFramed DEF AnalysisInv, Ruled

\* What a step of the last rule keeps when one boundary point x becomes q, or
\* goes with a question.
LEMMA BoundaryPointChanged ==
  ASSUME AnalysisInv, node = "resolve", NEW x \in points, x.category = "boundary",
         x.token = NoToken,
         node' = node, project' = project, input' = input, says' = says, facts' = facts,
         output' = output, protocol' = protocol, at' = at,
         requirement' \in RequirementDocument,
         requirement'.cites = requirement.cites, requirement'.bound = requirement.bound,
         requirement'.invented = requirement.invented, requirement'.both = requirement.both,
         requirement.questions \subseteq requirement'.questions,
         NEW new, new \subseteq TestPoint,
         \A q \in new : /\ q.id = x.id /\ q.category = "boundary" /\ q.evidence \subseteq facts
                        /\ q.token.row \in {"present", "missing"} /\ q.invented = x.invented
                        /\ x.evidence \subseteq q.evidence,
         points' = (points \ {x}) \cup new,
         new # {} \/ Ask("row", x.id) \in requirement'.questions,
         \A q \in new, p \in Params :
           LET alike == {y \in points \ {x} : y.token = Usual(q.token.row, p)}
           IN q.token.of = p /\ alike # {} => \E y \in alike : q.result = y.result /\ q.open = y.open,
         \A b \in requirement.behaviors :
           \/ b \in requirement'.behaviors
           \/ \E p \in Params : Bounded(p) /\ LeftOpen(b, p) /\ \E q \in new : q.token.of = p
  PROVE  AnalysisInv'
<1>1. /\ AnalysisTypeOK /\ PointsTraced /\ ReferencesTraced /\ PrefixTraced
      /\ RejectionsHaveFixtures /\ ExpectsTheUsual /\ QuestionsTraced /\ BehaviorsTraced
      /\ \A i \in 1..(at - 1) : Decided(Parameters[i])
  BY DEF AnalysisInv, Ruled
<1>2. \A q \in new : FixtureKind(q) = "none" /\ q.token # NoToken
  BY DEF FixtureKind, NoToken
<1>3. AnalysisTypeOK'
  BY <1>1 DEF AnalysisTypeOK, Answered, Bound
<1>4. PointsTraced'
  <2> SUFFICES ASSUME DistinctIds, NEW o \in output.points
               PROVE  \/ Ask("row", o.id) \in requirement'.questions
                      \/ \E y \in points' : StandsIn(o, y)'
    BY DEF PointsTraced, DistinctIds, Asked, Ask
  <2>1. CASE Asked("row", o.id)
    BY <2>1 DEF Asked
  <2>2. CASE \E y \in points : StandsIn(o, y)
    <3>1. PICK y \in points : StandsIn(o, y)
      BY <2>2
    <3>2. CASE y # x
      BY <3>1, <3>2 DEF StandsIn, FixtureKind
    <3>3. CASE y = x
      <4>1. x.id = o.id /\ o.evidence \cap facts \subseteq x.evidence
        BY <3>1, <3>3 DEF StandsIn, FixtureKind
      <4>2. CASE new = {}
        BY <4>1, <4>2
      <4>3. CASE new # {}
        BY <4>1, <4>3 DEF StandsIn
      <4> QED BY <4>2, <4>3
    <3> QED BY <3>2, <3>3
  <2> QED BY <1>1, <2>1, <2>2 DEF PointsTraced
<1>5. ReferencesTraced'
  BY <1>1 DEF ReferencesTraced, Asked, Ask
<1>6. PrefixTraced'
  <2>1. Rewords' = Rewords
    BY DEF Rewords
  <2>2. Rewords => \A y \in points' : ~y.invented
    BY <1>1 DEF PrefixTraced
  <2>3. Asked("prefix", <<>>) => Asked("prefix", <<>>)'
    BY DEF Asked, Ask
  <2>4. UNCHANGED output
    OBVIOUS
  <2> QED BY <1>1, <2>1, <2>2, <2>3, <2>4 DEF PrefixTraced
<1>7. RejectionsHaveFixtures'
  <2> SUFFICES ASSUME NEW y \in points', FixtureKind(y) # "none", y.rejected
               PROVE  \/ y.fixtures \cap y.evidence \cap requirement.cites # {}
                      \/ Asked("fixture", <<FixtureKind(y)>>)'
    BY DEF RejectionsHaveFixtures, FixtureKind, Asked, Ask
  <2>1. y \in points
    BY <1>2
  <2>2. Asked("fixture", <<FixtureKind(y)>>) => Asked("fixture", <<FixtureKind(y)>>)'
    BY DEF Asked, Ask, FixtureKind
  <2> QED BY <1>1, <2>1, <2>2 DEF RejectionsHaveFixtures
<1>8. \A i \in 1..(at' - 1) : Decided(Parameters[i])'
  <2> SUFFICES ASSUME NEW i \in 1..(at - 1), Bounded(Parameters[i]), NEW y \in points'
               PROVE  ~Ambiguous(y, Parameters[i])'
    BY DEF Decided, Bounded
  <2>1. CASE y \in new
    BY <1>2, <2>1 DEF Ambiguous
  <2>2. CASE y \in points
    <3>1. ~Ambiguous(y, Parameters[i])
      BY <1>1, <2>2 DEF Decided
    <3> QED BY <3>1 DEF Ambiguous, Bounded, Represents, Names, Numbers, Shows
  <2> QED BY <2>1, <2>2
<1>9. ExpectsTheUsual'
  <2> SUFFICES ASSUME NEW p \in Params, NEW z \in points', Resolved(z, p),
                      {y \in points' : y.token = Usual(z.token.row, p)} # {}
               PROVE  \E y \in points' : /\ y.token = Usual(z.token.row, p)
                                         /\ z.result = y.result /\ z.open = y.open
    BY DEF ExpectsTheUsual, Resolved, Classified, Usual
  <2> DEFINE usual == Usual(z.token.row, p)
  <2>1. usual.row \in {"existing", "absent"}
    BY DEF Usual
  <2>2. usual # NoToken
    BY <2>1 DEF NoToken
  <2>3. \A y : y \in points' /\ y.token = usual <=> y \in points \ {x} /\ y.token = usual
    BY <2>1
  <2>4. \A y : y \in points /\ y.token = usual <=> y \in points \ {x} /\ y.token = usual
    BY <2>2
  <2> HIDE DEF usual
  <2>5. CASE z \in new
    <3>1. z.token.of = p
      BY DEF Resolved, Classified
    <3> QED BY <2>3, <2>5, <3>1 DEF usual
  <2>6. CASE z \in points
    BY <1>1, <2>3, <2>4, <2>6 DEF ExpectsTheUsual, usual
  <2> QED BY <2>5, <2>6
<1>10. QuestionsTraced'
  BY <1>1 DEF QuestionsTraced, Settled, AnyFixture, Ask
<1>11. BehaviorsTraced'
  <2> SUFFICES ASSUME NEW b \in output.requirement.behaviors,
                      b \notin requirement'.behaviors, ~(requirement.both /\ b.rejects)
               PROVE  \E p \in Params : /\ Bounded(p)' /\ LeftOpen(b, p)'
                                         /\ \E y \in points' : Classified(y, p)'
    BY DEF BehaviorsTraced
  <2>1. \A p : (Bounded(p)' <=> Bounded(p)) /\ (LeftOpen(b, p)' <=> LeftOpen(b, p))
    BY DEF Bounded, LeftOpen, Shows
  <2>2. \A y, p : Classified(y, p)' <=> Classified(y, p)
    BY DEF Classified
  <2>3. CASE b \in requirement.behaviors
    BY <2>1, <2>2, <2>3 DEF Classified
  <2>4. CASE b \notin requirement.behaviors
    <3>1. PICK p \in Params : Bounded(p) /\ LeftOpen(b, p) /\ \E y \in points : Classified(y, p)
      BY <1>1, <2>4 DEF BehaviorsTraced
    <3>2. PICK y \in points : Classified(y, p)
      BY <3>1
    <3>3. y # x
      BY <3>2 DEF Classified, NoToken
    <3> QED BY <2>1, <2>2, <3>1, <3>2, <3>3
  <2> QED BY <2>3, <2>4
<1> QED BY <1>3, <1>4, <1>5, <1>6, <1>7, <1>8, <1>9, <1>10, <1>11 DEF AnalysisInv, Ruled

LEMMA BoundariesResolved == AnalysisInv /\ ResolveBoundaryFixture => AnalysisInv'
<1> SUFFICES ASSUME AnalysisInv, ResolveBoundaryFixture PROVE AnalysisInv'
  OBVIOUS
<1> DEFINE p == Parameters[at]
           exact == requirement.bound[p] + 1
           ambiguous == {x \in points : Ambiguous(x, p)}
<1>1. /\ node = "resolve" /\ at \in 1..Len(Parameters)
      /\ node' = node /\ project' = project /\ input' = input /\ says' = says /\ facts' = facts
      /\ output' = output /\ protocol' = protocol
  BY AnalysisAssumption DEF ResolveBoundaryFixture, Looping, AnalysisInv, AnalysisTypeOK,
                            AnalysisAssumption
<1>2. /\ AnalysisTypeOK /\ requirement \in RequirementDocument /\ points \subseteq TestPoint
      /\ requirement.cites \subseteq facts /\ facts \subseteq Facts
      /\ \A x \in points : x.evidence \subseteq facts
  BY <1>1 DEF AnalysisInv, AnalysisTypeOK, Answered, Bound
<1>3. p \in Params
  BY <1>1, AnalysisAssumption DEF AnalysisAssumption
<1>4. CASE ambiguous = {}
  <2>1. at' = at + 1 /\ UNCHANGED <<points, requirement>>
    BY <1>4 DEF ResolveBoundaryFixture
  <2>2. at' \in 1..(Len(Parameters) + 1)
    BY <1>1, <2>1, AnalysisAssumption DEF AnalysisAssumption
  <2>3. AnalysisTypeOK'
    BY <1>1, <1>2, <2>1, <2>2 DEF AnalysisTypeOK, Answered, Bound
  <2>4. Decided(p)
    BY <1>4 DEF Decided
  <2>5. \A i \in 1..(at' - 1) : i \in 1..(at - 1) \/ i = at
    BY <1>1, <2>1
  <2>6. \A i \in 1..(at' - 1) : Decided(Parameters[i])
    BY <1>1, <2>4, <2>5 DEF AnalysisInv
  <2>7. \A i \in 1..(at' - 1) : Decided(Parameters[i])'
    BY <2>1, <2>6, DecidedFramed
  <2> QED BY <1>1, <2>1, <2>3, <2>7, AnswerFramed DEF AnalysisInv, Ruled
<1>5. CASE ambiguous # {}
  <2>1. PICK x \in ambiguous :
          \/ Withdraw(x)
          \/ HasFixture(p) /\ \E row \in {"present", "missing"} : Classify(x, p, row)
    BY <1>5 DEF ResolveBoundaryFixture
  <2>2. UNCHANGED at
    BY <1>5 DEF ResolveBoundaryFixture
  <2>3. /\ x \in points /\ x \in TestPoint /\ x.category = "boundary" /\ x.token = NoToken
        /\ requirement.bound[p] # NoBound
    BY <1>2 DEF Ambiguous, Bounded
  <2> HIDE DEF ambiguous
  <2>4. CASE Withdraw(x)
    <3>1. Ask("row", x.id) \in Question
      BY <2>3, AskFacts DEF TestPoint
    <3>2. PICK new : new = {}
      OBVIOUS
    <3>0. points' = (points \ {x}) \cup new
      BY <2>4, <3>2 DEF Withdraw
    <3>3. requirement' = [requirement EXCEPT !.questions = @ \cup {Ask("row", x.id)}]
      BY <2>4 DEF Withdraw
    <3>4. requirement.questions \subseteq Question
      BY <1>2 DEF RequirementDocument
    <3> DEFINE questions == requirement.questions \cup {Ask("row", x.id)}
    <3>5. questions \in SUBSET Question /\ requirement.questions \subseteq questions
          /\ Ask("row", x.id) \in questions
      BY <3>1, <3>4
    <3>6. requirement' = [requirement EXCEPT !.questions = questions]
      BY <3>3
    <3> HIDE DEF questions
    <3>7. /\ requirement' \in RequirementDocument /\ requirement'.questions = questions
          /\ requirement'.cites = requirement.cites /\ requirement'.bound = requirement.bound
          /\ requirement'.invented = requirement.invented /\ requirement'.both = requirement.both
          /\ requirement'.behaviors = requirement.behaviors
      BY <1>2, <3>5, <3>6 DEF RequirementDocument
    <3>8. /\ requirement' \in RequirementDocument
          /\ requirement'.cites = requirement.cites /\ requirement'.bound = requirement.bound
          /\ requirement'.invented = requirement.invented /\ requirement'.both = requirement.both
          /\ requirement'.behaviors = requirement.behaviors
          /\ requirement.questions \subseteq requirement'.questions
          /\ Ask("row", x.id) \in requirement'.questions
      BY <3>5, <3>7
    <3>9. /\ new \subseteq TestPoint
          /\ \A q \in new : /\ q.id = x.id /\ q.category = "boundary" /\ q.evidence \subseteq facts
                            /\ q.token.row \in {"present", "missing"} /\ q.invented = x.invented
                            /\ x.evidence \subseteq q.evidence
          /\ \A q \in new, r \in Params :
               LET alike == {y \in points \ {x} : y.token = Usual(q.token.row, r)}
               IN q.token.of = r /\ alike # {} =>
                    \E y \in alike : q.result = y.result /\ q.open = y.open
      BY <3>2
    <3> QED BY ONLY AnalysisInv, <1>1, <2>2, <2>3, <3>0, <3>8, <3>9, BoundaryPointChanged
  <2>5. ASSUME HasFixture(p), NEW row \in {"present", "missing"}, Classify(x, p, row)
        PROVE  AnalysisInv'
    <3> DEFINE counterparts == {y \in points \ {x} : y.token = Usual(row, p)}
               token == [row |-> row, of |-> p]
               action == [names |-> {p}, numbers |-> {exact}]
               evidence == x.evidence \cup {"database_fixture"}
               q(y) == [x EXCEPT !.token = token, !.action = action,
                                 !.result = y.result, !.open = y.open, !.evidence = evidence]
               behavior(y) == [text |-> [names |-> {p} \cup y.result.names,
                                         numbers |-> {exact} \cup y.result.numbers],
                               open |-> y.open, atMost |-> {}, rejects |-> FALSE]
               behaviors(y) ==
                 {b \in requirement.behaviors : ~LeftOpen(b, p)}
                 \cup {behavior(y)}
    <3>1. PICK y \in IF counterparts = {} THEN {x} ELSE counterparts :
            /\ points' = (points \ {x}) \cup {q(y)}
            /\ requirement' = [requirement EXCEPT !.behaviors = behaviors(y)]
      BY <2>5 DEF Classify
    <3>2. y \in points /\ y \in TestPoint
      BY <1>2, <2>3, <3>1
    <3>3. requirement.bound[p] \in Int /\ exact \in Int
      <4>1. requirement.bound \in [Params -> Int \cup {NoBound}]
        BY <1>2 DEF RequirementDocument
      <4> QED BY <2>3, <4>1, <1>3
    <3>4. y.result \in Text /\ y.open \in BOOLEAN
      BY <3>2 DEF TestPoint
    <3>5. token \in Token
      BY <1>3 DEF Token
    <3>6. action \in Text
      BY <1>3, <3>3 DEF Text
    <3>7. evidence \subseteq facts /\ evidence \in SUBSET Reference
      BY <1>2, <2>3, <2>5 DEF HasFixture, Reference
    <3>8. behavior(y) \in Behavior
      <4> DEFINE text == [names |-> {p} \cup y.result.names,
                          numbers |-> {exact} \cup y.result.numbers]
                 open == y.open
      <4>1. text \in Text
        BY <1>3, <3>3, <3>4 DEF Text
      <4>2. behavior(y) = [text |-> text, open |-> open, atMost |-> {}, rejects |-> FALSE]
        OBVIOUS
      <4> HIDE DEF text, behavior
      <4>3. open \in BOOLEAN
        BY <3>4
      <4> HIDE DEF open
      <4> QED BY <4>1, <4>2, <4>3 DEF Behavior
    <3>9. behaviors(y) \in SUBSET Behavior
      <4>1. requirement.behaviors \subseteq Behavior
        BY <1>2 DEF RequirementDocument
      <4> HIDE DEF behavior
      <4> QED BY <3>8, <4>1
    <3>9a. \A b \in requirement.behaviors : b \in behaviors(y) \/ LeftOpen(b, p)
      <4> HIDE DEF behavior
      <4> QED OBVIOUS
    <3> HIDE DEF behaviors
    <3>10. /\ requirement' \in RequirementDocument /\ requirement'.questions = requirement.questions
           /\ requirement'.cites = requirement.cites /\ requirement'.bound = requirement.bound
           /\ requirement'.invented = requirement.invented /\ requirement'.both = requirement.both
           /\ requirement'.behaviors = behaviors(y)
      BY <1>2, <3>1, <3>9 DEF RequirementDocument
    <3> DEFINE n == q(y)
    <3>11. n \in TestPoint
      <4> DEFINE open == y.open
                 result == y.result
      <4>1. n = [x EXCEPT !.token = token, !.action = action,
                          !.result = result, !.open = open, !.evidence = evidence]
        OBVIOUS
      <4>2. open \in BOOLEAN /\ result \in Text
        BY <3>4
      <4> HIDE DEF token, action, evidence, n, open, result
      <4> QED BY <2>3, <3>5, <3>6, <3>7, <4>1, <4>2 DEF TestPoint
    <3>12. /\ n.id = x.id /\ n.category = x.category /\ n.token = token /\ n.evidence = evidence
           /\ n.invented = x.invented /\ n.result = y.result /\ n.open = y.open
      <4> HIDE DEF token, action, evidence
      <4> QED BY <2>3 DEF TestPoint
    <3>12a. x.evidence \subseteq evidence
      OBVIOUS
    <3>13. token.row = row /\ token.of = p
      OBVIOUS
    <3>14. counterparts # {} => y \in counterparts
      BY <3>1
    <3> PICK new : new = {n}
      OBVIOUS
    <3>15. points' = (points \ {x}) \cup new
      BY <3>1
    <3> HIDE DEF n, q, token, evidence, counterparts
    <3>16. new \subseteq TestPoint /\ new # {}
      BY <3>11
    <3>17. \A z \in new :
             /\ z.id = x.id /\ z.category = "boundary" /\ z.evidence \subseteq facts
             /\ z.token.row \in {"present", "missing"} /\ z.invented = x.invented
             /\ x.evidence \subseteq z.evidence
      BY <2>3, <3>7, <3>12, <3>13, <3>12a
    <3>18. \A z \in new, r \in Params :
             LET alike == {w \in points \ {x} : w.token = Usual(z.token.row, r)}
             IN z.token.of = r /\ alike # {} =>
                  \E w \in alike : z.result = w.result /\ z.open = w.open
      <4> SUFFICES ASSUME counterparts # {}
                   PROVE  \E w \in counterparts : n.result = w.result /\ n.open = w.open
        BY <3>12, <3>13 DEF counterparts
      <4> QED BY <3>12, <3>14
    <3>19. requirement.questions \subseteq requirement'.questions
      BY <3>10
    <3>20. \A b \in requirement.behaviors :
             \/ b \in requirement'.behaviors
             \/ \E r \in Params : Bounded(r) /\ LeftOpen(b, r) /\ \E z \in new : z.token.of = r
      BY <1>3, <2>3, <3>9a, <3>10, <3>12, <3>13 DEF Bounded
    <3>21. /\ requirement' \in RequirementDocument
           /\ requirement'.cites = requirement.cites /\ requirement'.bound = requirement.bound
           /\ requirement'.invented = requirement.invented /\ requirement'.both = requirement.both
      BY <3>10
    <3> QED BY ONLY AnalysisInv, <1>1, <2>2, <2>3, <3>15, <3>16, <3>17, <3>18, <3>19, <3>20, <3>21,
                    BoundaryPointChanged, ZenonT(60)
  <2> QED BY <2>1, <2>4, <2>5
<1> QED BY <1>4, <1>5

LEMMA ApprovalAwaited == AnalysisInv /\ WaitForApproval => AnalysisInv'
<1> SUFFICES ASSUME AnalysisInv, WaitForApproval PROVE AnalysisInv'
  OBVIOUS
<1>1. /\ node = "resolve" /\ ~(at <= Len(Parameters)) /\ node' = "waiting"
      /\ UNCHANGED <<project, input, says, facts, output, requirement, points, protocol, at>>
  BY DEF WaitForApproval, Looping
<1>2. AnalysisTypeOK'
  BY <1>1 DEF AnalysisInv, AnalysisTypeOK, Answered, Bound
<1>3. at = Len(Parameters) + 1
  BY <1>1, AnalysisAssumption DEF AnalysisInv, AnalysisTypeOK, AnalysisAssumption
<1>4. \A p \in Params : Decided(p)
  <2> SUFFICES ASSUME NEW i \in 1..Len(Parameters) PROVE Decided(Parameters[i])
    BY AnalysisAssumption DEF AnalysisAssumption, Params
  <2> QED BY <1>1, <1>3, AnalysisAssumption DEF AnalysisInv, AnalysisAssumption
<1>5. \A p \in Params : Decided(p)'
  BY <1>1, <1>4, DecidedFramed
<1> QED BY <1>1, <1>2, <1>5, AnswerFramed DEF AnalysisInv, Ruled

LEMMA AnalysisStutters == AnalysisInv /\ UNCHANGED analysisVars => AnalysisInv'
<1> SUFFICES ASSUME AnalysisInv, UNCHANGED analysisVars PROVE AnalysisInv'
  OBVIOUS
<1> USE DEF analysisVars
<1>1. AnalysisTypeOK'
  BY DEF AnalysisInv, AnalysisTypeOK, Answered, Bound
<1>2. AnswerAsGiven => AnswerAsGiven'
  BY AnswerFramed DEF AnswerAsGiven
<1>3. \A p : Decided(p)' <=> Decided(p)
  BY DecidedFramed
<1> QED BY <1>1, <1>2, <1>3, AnswerFramed DEF AnalysisInv, Ruled

LEMMA AnalysisStep == AnalysisInv /\ [AnalysisNext]_analysisVars => AnalysisInv'
BY BeforeTheAnswer, AgentAnswers, RulesApply, RequirementRequired, PointsNormalized,
   BoundariesAdded, BoundariesDone, BoundariesResolved, ApprovalAwaited, AnalysisStutters
   DEF AnalysisNext

LEMMA AnalysisInductive == AnalysisSpec => []AnalysisInv
BY AnalysisStarts, AnalysisStep, PTL DEF AnalysisSpec

\* The analysis keeps its types; once the rules have bound the answer to the
\* snapshot, the Requirement and its points cite facts of the snapshot only
\* (_normalize_requirement, _normalize_test_points).
THEOREM AnalysisTypeCorrect == AnalysisSpec => []AnalysisTypeOK
<1>1. AnalysisInv => AnalysisTypeOK
  BY DEF AnalysisInv
<1> QED BY AnalysisInductive, <1>1, PTL

\* When the user is asked to approve, what the rules took out of the answer has
\* its trace: a point is there, in one that stands for it or named by a question;
\* unknown references of the Requirement and invented prefixes are asked about;
\* questions and sentences are gone only where rejected tokens are treated alike
\* or a row decides (auth_rules.py, boundary_rules.py).  What test points cite
\* and the bundle does not know is not asked about.
THEOREM AnswerTraced == AnalysisSpec => []AnswerIsTraced
<1>1. AnalysisInv => AnswerIsTraced
  BY DEF AnalysisInv, AnswerIsTraced, Ruled
<1> QED BY AnalysisInductive, <1>1, PTL

\* When the user is asked to approve, points about rejected tokens have their
\* fixtures or a question, and points about a first valid value their outcome.
THEOREM CanBeDesignedCorrect == AnalysisSpec => []PointsCanBeDesigned
<1>1. AnalysisInv => PointsCanBeDesigned
  BY DEF AnalysisInv, PointsCanBeDesigned, Ruled
<1> QED BY AnalysisInductive, <1>1, PTL
=============================================================================
