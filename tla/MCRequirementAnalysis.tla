----------------------- MODULE MCRequirementAnalysis -----------------------
(* Instances of RequirementAnalysis for TLC: an operation with an id in its *)
(* path and a page, and answers of up to two or three test points.          *)
EXTENDS RequirementAnalysis, FiniteSetsExt

MCParameters == <<"id", "page">>
Of(names, numbers) == [names |-> names, numbers |-> numbers]

Name(x) == <<x>>

Plain == [id |-> Name("plain"), category |-> "positive", source |-> "requirement",
          title |-> NoText, action |-> NoText, result |-> NoText, open |-> FALSE, token |-> NoToken,
          auth |-> "none", fixtures |-> {}, rejected |-> FALSE, invented |-> FALSE, evidence |-> {}]

Pool ==
  { [Plain EXCEPT !.id = Name("expired"), !.category = "contract"],
    [Plain EXCEPT !.id = Name("expired"), !.category = "negative", !.auth = "expired", !.rejected = TRUE],
    [Plain EXCEPT !.id = Name("forged"), !.category = "negative", !.auth = "nonexistent", !.rejected = TRUE,
                  !.evidence = {"nonexistent"}],
    [Plain EXCEPT !.id = Name("forbidden"), !.category = "negative", !.auth = "expired"],
    [Plain EXCEPT !.id = Name("either"), !.category = "negative", !.auth = "combined", !.rejected = TRUE,
                  !.fixtures = {"expired"}],
    [Plain EXCEPT !.id = Name("first"), !.category = "boundary", !.open = TRUE,
                  !.title = Of({"id"}, {1}), !.action = Of({"id"}, {1}), !.result = Of({"id"}, {1})],
    [Plain EXCEPT !.id = Name("found"), !.action = Of({"id"}, {}), !.token = [row |-> "existing", of |-> "id"],
                  !.evidence = {"database_fixture", "unknown"}],
    [Plain EXCEPT !.id = Name("both"), !.category = "boundary", !.open = TRUE,
                  !.title = Of({"id"}, {1}), !.action = Of({"id", "page"}, {1, 0})],
    [Plain EXCEPT !.id = Name("zero"), !.category = "boundary", !.source = "evidence", !.invented = TRUE,
                  !.title = Of({"id"}, {0})] }

Base == [NoRequirement EXCEPT !.bound = [p \in Params |-> IF p = "id" THEN 0 ELSE NoBound]]
Fails(ps, open) == [text |-> Of(ps, {0}), open |-> open, atMost |-> ps, rejects |-> FALSE]
Undecided == [text |-> Of({"id"}, {1}), open |-> TRUE, atMost |-> {}, rejects |-> FALSE]
Rejected == [text |-> Of({"id"}, {}), open |-> FALSE, atMost |-> {}, rejects |-> TRUE]
Requirements ==
  { [Base EXCEPT !.cites = {"document", "database_fixture"}, !.behaviors = {Fails({"id"}, FALSE), Undecided}],
    [Base EXCEPT !.cites = {"database_fixture", "unknown"}, !.both = TRUE,
                        !.behaviors = {Fails({"id"}, TRUE), Rejected}],
    [Base EXCEPT !.cites = {"openapi", "database_fixture"}, !.bound = [p \in Params |-> 0],
                        !.behaviors = {Fails({"id", "page"}, FALSE)}, !.invented = TRUE],
    [NoRequirement EXCEPT !.both = TRUE, !.questions = {Ask("fixture", <<"expired">>), Ask("own", <<"expired">>),
                        Ask("own", <<"none">>)}, !.confidence = "inferred"] }

MCAgentIds == {x.id : x \in Pool}

MCOutputs == {[requirement |-> r, points |-> ps] : r \in Requirements, ps \in UNION {kSubset(n, Pool) : n \in 0..2}}

Default == [yaml |-> TRUE, auth |-> FALSE, expired |-> FALSE, credential |-> FALSE, workspace |-> FALSE,
             database |-> FALSE, allowlist |-> TRUE, columns |-> {"id"}]
MCProjects ==
  { Default, [Default EXCEPT !.auth = TRUE, !.credential = TRUE, !.database = TRUE],
    [Default EXCEPT !.auth = TRUE, !.expired = TRUE, !.database = TRUE, !.columns = {"id", "page"}],
    [Default EXCEPT !.workspace = TRUE, !.database = TRUE, !.columns = {}] }

MCDeclarations ==
  { [s \in Sources |-> {}], [s \in Sources |-> IF s = "document" THEN {"bare"} ELSE {"prefixA"}],
    [s \in Sources |-> IF s = "source" THEN {"prefixB"} ELSE {"prefixA"}],
    [s \in Sources |-> IF s = "contract" THEN {"bare", "mixed"} ELSE {}] }
=============================================================================
