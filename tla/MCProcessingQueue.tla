-------------------------- MODULE MCProcessingQueue --------------------------
(* Instances of ProcessingQueue for TLC.  Queues made by create have one    *)
(* item; queues of several items are those an earlier release left on disk. *)
EXTENDS ProcessingQueue, TLC

CONSTANTS q1, q2, opA, opB

NoLegacy == [q \in Queues |-> <<>>]
LegacyOfTwo == [q \in Queues |-> IF q = q1 THEN <<opA, opB>> ELSE <<>>]

Symmetry == Permutations({q1, q2}) \cup Permutations({opA, opB})
=============================================================================
