---------------------------- MODULE MCWorkspace ----------------------------
(* Two projects: A with two operations, B with one; the cases of both        *)
(* operations of A have side effects.                                       *)
EXTENDS Workspace, TLC

CONSTANTS A, B, a1, a2, b1, s1, s2

TheProjectOf == (a1 :> A) @@ (a2 :> A) @@ (b1 :> B)

\* a1 and a2 differ in nothing but their name, so an earlier use of the page
\* that began with a2 shows nothing new.
A1First == queues = <<>> \/ queues[1].op # a2

MCInit == Init /\ A1First

\* FairSpec from these states.
MCSpec == MCInit /\ [][Next]_vars /\ \A s \in Slots : WF_vars(Answer(s))
=============================================================================
