----------------------------- MODULE ApiPipeline -----------------------------
(***************************************************************************)
(* What the sequential queue promises, without locks, files or threads     *)
(* ("V1 strict sequential coordinator: one API reaches Reviewer before the *)
(* next starts", queue_service.py:35, and README.md:71, an unconfirmed     *)
(* Requirement snapshot must not enter the Designer).  Each API of a queue *)
(* is in a phase; an API starts when all before it are done, is designed   *)
(* only after the gate, and once its cases are frozen they stay frozen.    *)
(***************************************************************************)
EXTENDS Naturals

CONSTANTS Queues, MaxItems

VARIABLE phase

Positions == 1..MaxItems

\* "unapproved" and "approved" tell whether an API that failed, or that was
\* given up after failing, had passed the gate.
Phases == {"absent", "idle", "analysing", "gate", "designing", "frozen",
           "failed unapproved", "failed approved",
           "skipped unapproved", "skipped approved"}

Done == {"frozen", "skipped unapproved", "skipped approved"}
Untouched == {"absent", "idle"}

TurnOf(q, i) == /\ \A j \in Positions : j < i => phase[q][j] \in Done
                /\ \A j \in Positions : j > i => phase[q][j] \in Untouched

\* What an API in phase p can come to by itself, and what people can make of it
Outcomes(p) ==
  CASE p = "analysing" -> {"gate", "failed unapproved"}
    [] p = "designing" -> {"frozen", "failed approved"}
    [] OTHER -> {}
Decisions(p) ==
  CASE p = "idle" -> {"analysing"}
    [] p = "gate" -> {"designing"}
    [] p = "failed unapproved" -> {"analysing", "skipped unapproved"}
    [] p = "failed approved" -> {"analysing", "designing", "skipped approved"}
    [] OTHER -> {}

Init == phase \in [Queues -> {f \in [Positions -> Untouched] :
          \A i, j \in Positions : i < j /\ f[i] = "absent" => f[j] = "absent"}]

\* A queue is admitted with one API.
Admit(q) ==
  /\ \A i \in Positions : phase[q][i] = "absent"
  /\ phase' = [phase EXCEPT ![q][1] = "idle"]

Move(q, i) ==
  /\ TurnOf(q, i)
  /\ \E p \in Outcomes(phase[q][i]) \cup Decisions(phase[q][i]) :
       phase' = [phase EXCEPT ![q][i] = p]

\* An API that is done hands its turn to the next one in the same step.
MoveOn(q, i) ==
  /\ TurnOf(q, i) /\ i < MaxItems
  /\ \E p \in (Outcomes(phase[q][i]) \cup Decisions(phase[q][i])) \cap Done :
       phase' = [phase EXCEPT ![q][i] = p, ![q][i + 1] = "analysing"]
  /\ phase[q][i + 1] = "idle"

\* The only API of a queue can be taken back after it was skipped.
Revive(q) ==
  /\ phase[q][1] = "skipped approved"
  /\ \A i \in Positions : i > 1 => phase[q][i] = "absent"
  /\ phase' = [phase EXCEPT ![q][1] = "designing"]

Next == \E q \in Queues :
  \/ Admit(q) \/ Revive(q)
  \/ \E i \in Positions : Move(q, i) \/ MoveOn(q, i)

Spec == Init /\ [][Next]_phase
=============================================================================
