----------------------- MODULE MCKubeconfigReconciler -----------------------
(* Instances of KubeconfigReconciler for TLC. *)
EXTENDS KubeconfigReconciler

CONSTANTS admin, viewer,        \* Kubeconfigs
          ca, out, renamed,     \* secrets
          first, second,        \* specs
          old, new, empty       \* what users keep in a secret

\* One Kubeconfig; its specs are rendered into two secrets.
OneKubeconfig == {admin}
Names == {ca, out, renamed}
Specs == {first, second}
SecretNames == [x \in Specs |-> IF x = first THEN out ELSE renamed]
RefsOfSpecs == [x \in Specs |-> {ca}]
Contents == {old, new, empty}
CompleteContents == {old, new}
CaOnly == {ca}
OutOnly == {out}

\* Two Kubeconfigs that name the same secret.
TwoKubeconfigs == {admin, viewer}
OutName == {out}
FirstSpec == {first}
SharedName == [x \in FirstSpec |-> out]
NoReferences == [x \in FirstSpec |-> {}]
NoNames == {}
=============================================================================
