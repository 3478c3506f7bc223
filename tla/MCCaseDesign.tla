---------------------------- MODULE MCCaseDesign ----------------------------
(* An instance of CaseDesign for TLC.  The pool holds, for each rule of the *)
(* assembler, a case that meets it, and pairs that only that rule keeps     *)
(* apart.                                                                   *)
EXTENDS CaseDesign, TLC

A(i, k) == [id |-> i, check |-> k]
Plain == [id |-> "c1", points |-> {"p1"}, req |-> "r1", auth |-> FALSE, side |-> FALSE,
          asserts |-> {A("a1", "200")}, order |-> "up", evidence |-> {"e"},
          contract |-> FALSE, sound |-> TRUE, fixture |-> FALSE]
Both == {A("a1", "200"), A("a2", "body")}

ThePoints == {"p1", "p2"}

\* What the answers can get wrong.
ThePool == {
  Plain,
  [Plain EXCEPT !.id = "c2", !.evidence = {}],
  [Plain EXCEPT !.id = "c2", !.asserts = Both],
  [Plain EXCEPT !.id = "c2", !.points = {"p2"}, !.evidence = {"e", "f"}],
  [Plain EXCEPT !.id = "c2", !.points = {"p2"}, !.asserts = Both, !.order = "down"],
  [Plain EXCEPT !.id = "c2", !.contract = TRUE, !.asserts = {A("a1", "body")}],
  [Plain EXCEPT !.points = {"p1", "p2"}, !.auth = TRUE, !.asserts = Both,
                !.evidence = {"e", "f"}],
  [Plain EXCEPT !.points = {"p2"}, !.sound = FALSE],
  [Plain EXCEPT !.id = "c3", !.fixture = TRUE, !.req = "row"]}
\* The only rule that these can break by folding is that on the ids of assertions.
OneAssertion == {c \in ThePool : Cardinality(c.asserts) = 1 /\ ~c.auth /\ ~c.fixture}
TheSpecs == {
  [id |-> "s1", points |-> {"p2"}, checks |-> {"body"}, evidence |-> {}],
  [id |-> "s2", points |-> {"p1"}, checks |-> {"200"}, evidence |-> {"f"}]}

\* Reviewers that break the rules of their own answer.
BadSpecs == TheSpecs \cup
  {[id |-> "s1", points |-> {"p1", "p9"}, checks |-> {"200"}, evidence |-> {}]}
=============================================================================
