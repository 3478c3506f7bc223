--------------------------- MODULE MCEvalCampaign ---------------------------
(* Two operations, the first with two mutations; the second is the pilot,   *)
(* whose suite has a usable control, none, or a failed one. *)
EXTENDS EvalCampaign, TLC

CONSTANTS o1, o2, m1, m2, m3

TheOrder == <<o1, o2>>
TheOpOf == (m1 :> o1) @@ (m2 :> o1) @@ (m3 :> o2)

\* The two mutations of the first operation are alike.
Symmetry == Permutations({m1, m2})

OfPilot(mutation, outcome) == [op |-> o2, mutation |-> mutation, run |-> 0, outcome |-> outcome]
TheSuites ==
  {{OfPilot(Control, "clean"), OfPilot(m3, "missed")}, {OfPilot(m3, "found")},
   {OfPilot(Control, "failed"), OfPilot(m3, "found")}}
=============================================================================
