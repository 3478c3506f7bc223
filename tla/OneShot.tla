------------------------------- MODULE OneShot -------------------------------
(***************************************************************************)
(* What an execution approval promises (Human Gate #2): the cases it lists *)
(* are sent to the target in order, by one execution, and never again.     *)
(* One case, and only one, may be repeated after its first answer: the one *)
(* whose rejection made the execution fetch a new credential.              *)
(***************************************************************************)
EXTENDS Naturals

CONSTANTS Approvals, NumCases

VARIABLES
  phase,   \* of every approval, by the name its file gives it
  count    \* how often each of its cases has been sent

Cases == 1..NumCases

Init == /\ phase = [a \in Approvals |-> "none"]
        /\ count = [a \in Approvals |-> [c \in Cases |-> 0]]

Pass(a, from, to) == /\ phase[a] = from
                     /\ phase' = [phase EXCEPT ![a] = to]
                     /\ UNCHANGED count

\* An approval is used up only by an execution that sent every case.
Consume(a) == /\ \A c \in Cases : count[a][c] > 0
              /\ Pass(a, "RUNNING", "CONSUMED")

Send(a, c) ==
  /\ phase[a] = "RUNNING"
  /\ \A d \in Cases : (d < c => count[a][d] > 0) /\ (d > c => count[a][d] = 0)
  /\ count[a][c] = 0 \/ \A d \in Cases : count[a][d] < 2
  /\ count' = [count EXCEPT ![a][c] = @ + 1]
  /\ UNCHANGED phase

Next == \E a \in Approvals :
  \/ Pass(a, "none", "APPROVED") \/ Pass(a, "APPROVED", "RUNNING")
  \/ Consume(a) \/ Pass(a, "RUNNING", "FAILED")
  \/ \E c \in Cases : Send(a, c)

Spec == Init /\ [][Next]_<<phase, count>>
=============================================================================
