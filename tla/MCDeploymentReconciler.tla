----------------------- MODULE MCDeploymentReconciler -----------------------
(* Instances of DeploymentReconciler for TLC. *)
EXTENDS DeploymentReconciler, TLC

CONSTANTS api, kcm, scheduler,    \* servers
          tls, token,      \* secrets
          plain, withToken, resized, relabelled    \* specs

\* One API server.
OneServer == {api}
OneKind == {"KubeAPIServer"}
OneKindOf == [s \in {api} |-> "KubeAPIServer"]
OneDeployment == {"control-plane"}
OneDeploymentOf == [s \in {api} |-> "control-plane"]

NoDeployments == {}

\* A controller manager and a scheduler of the same name.
TwoServers == {kcm, scheduler}
TwoKinds == {"KubeControllerManager", "KubeScheduler"}
TwoKindOf == [s \in TwoServers |-> IF s = kcm THEN "KubeControllerManager" ELSE "KubeScheduler"]
SharedDeploymentOf == [s \in TwoServers |-> "control-plane"]

BothSecrets == {tls, token}
TwoSpecs == {plain, withToken}
TwoRefs == [x \in TwoSpecs |-> IF x = plain THEN {tls} ELSE {tls, token}]
TwoOrders == [x \in TwoSpecs |-> 1]
TwoSelectors == [x \in TwoSpecs |-> "app"]

OneSecret == {tls}
OneSpec == {plain}
OneRefs == [x \in OneSpec |-> {tls}]
OneOrder == [x \in OneSpec |-> 1]
OneSelector == [x \in OneSpec |-> "app"]

\* A spec with two feature gates.
GatedOrder == [x \in OneSpec |-> 2]

NoSecrets == {}
NoRefs == [x \in OneSpec |-> {}]

\* An edit can be applied in place, or changes the selector.
EditSpecs == {plain, resized, relabelled}
EditRefs == [x \in EditSpecs |-> {tls}]
EditOrders == [x \in EditSpecs |-> 1]
EditSelectors == [x \in EditSpecs |-> IF x = relabelled THEN "other" ELSE "app"]

\* Those that can be applied in place differ in name only.
SameEdits == Permutations({plain, resized})
=============================================================================
