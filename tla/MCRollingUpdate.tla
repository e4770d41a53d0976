----------------------------- MODULE MCRollingUpdate -----------------------------
(* An API server that is resized while the manager is updated. *)
EXTENDS RollingUpdate, MCDeploymentReconciler, TLC

ResizeSpecs == {plain, resized}
ResizeRefs == [x \in ResizeSpecs |-> {}]
ResizeSelectors == [x \in ResizeSpecs |-> "app"]
ResizeOrders == [x \in ResizeSpecs |-> 1]

SameSpecs == Permutations(ResizeSpecs)
=================================================================================
