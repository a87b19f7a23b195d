---------------------------- MODULE MCProjector ----------------------------
(* Transactions for the model-checking runs of Projector.                    *)
EXTENDS Projector

Local(d) == [docs |-> {d}, effect |-> None]
LocalShapes == {Local(d) : d \in Docs}

\* Each document alone, and one document with an effect.
EffectShapes ==
  LocalShapes \cup {[docs |-> {CHOOSE d \in Docs : TRUE}, effect |-> e] : e \in Effects}
=============================================================================
