--------------------------- MODULE MCSagaPartition ---------------------------
(* Two sagas, of which one has a result *)
EXTENDS SagaPartition, TLC

CONSTANTS a, b, x, y

TwoSagas == ("start x" :> x) @@ ("start y" :> y) @@ ("result x" :> x)

Dues == (x :> 2) @@ (y :> 1)

Processes == Permutations(Writers)
=============================================================================
