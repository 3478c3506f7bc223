------------------------- MODULE MCOperationCatalog -------------------------
(* Instances of OperationCatalog for TLC: two documents that share an id,   *)
(* one of them with a second operation, a document that does not load, and  *)
(* imports that share the id or the path of a document's operation.         *)
EXTENDS OperationCatalog, TLC

CONSTANTS r1, r2, A, B, C, x, y, k1, k2

Op(i, k) == [id |-> i, key |-> k]
TheOps == (A :> <<Op(x, k1), Op(y, k2)>>) @@ (B :> <<Op(x, k1)>>) @@ (C :> <<>>)
TheImports == {<<Op(x, k1)>>, <<Op(y, k1)>>, <<Op(x, k2), Op(y, k2)>>}

Symmetry == Permutations({r1, r2})
=============================================================================
