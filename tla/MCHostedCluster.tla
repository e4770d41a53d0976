----------------------------- MODULE MCHostedCluster -----------------------------
(* A KubeControllerManager with the kubeconfig of an administrator. *)
EXTENDS HostedCluster

CONSTANTS admin, kcm,       \* a Kubeconfig and a server
          ca, out,          \* secrets
          first, plain,     \* specs
          old, new          \* what users keep in a secret

OneKubeconfig == {admin}
FirstSpec == {first}
OutName == [x \in FirstSpec |-> out]
CaRefs == [x \in FirstSpec |-> {ca}]
OneServer == {kcm}
OneKind == {"KubeControllerManager"}
OneKindOf == [s \in OneServer |-> "KubeControllerManager"]
OneDeployment == {"control-plane"}
OneDeploymentOf == [s \in OneServer |-> "control-plane"]
OneSpec == {plain}
OutRefs == [x \in OneSpec |-> {out}]
Names == {ca, out}
CaOnly == {ca}
Values == {old, new}

\* The contents of the certificate authority are alike: it starts with the old one.
OldInit == Init /\ secret[ca].data = old

OldFairSpec == OldInit /\ [][Next]_vars /\ Fairness
==================================================================================
