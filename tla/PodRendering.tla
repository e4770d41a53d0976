---------------------------- MODULE PodRendering ----------------------------
(***************************************************************************)
(* What the resolvers of the three components share: how a spec selects a  *)
(* secret, and how the parts of a Deployment are put together.             *)
(*                                                                         *)
(* A volume and the directory it is mounted at are known by the constant   *)
(* the code derives both from ("tls" stands for TLSVolumeName and for      *)
(* TLSVolumePath); of a command line, only the flags that name a file of a *)
(* mounted secret are kept.                                                *)
(***************************************************************************)
EXTENDS Sequences, TLC

CONSTANTS
    Secret,
    Key,        \* keys a user may ask for in a secret
    Name,       \* names and paths a user may choose
    Nil         \* a reference or a selector that is not given

Optional(S) == S \cup {Nil}
Given(refs) == refs \ {Nil}
Items(seq) == {seq[i] : i \in DOMAIN seq}

\* A key that is Nil is left blank.
SecretSelector == [name: Secret, key: Optional(Key)]

ASSUME NilAssumption == Nil \notin Secret \cup Key \cup SecretSelector

\* Labels and selectors are maps.  "app" stands for the label every resolver
\* sets, to a value of its own; a user may ask for others, and for any value of it.
App == {"kubeapiserver", "kubecontrollermanager", "kubescheduler"}
Labels == UNION {[keys -> App \cup {"user"}] : keys \in SUBSET {"app", "tier"}}
UserSelector == [tier |-> "user"]

StringOrDefault(key, default) == IF key = Nil THEN default ELSE key

\* Mutant: the first map has the highest priority.
FirstMapWins(first, last) == first @@ last

\* The pairs of the last map have the highest priority.
MergeStringStringMaps(first, last) ==
    [key \in DOMAIN first \cup DOMAIN last |-> IF key \in DOMAIN last THEN last[key] ELSE first[key]]

\* A volume shows the files of some secrets: one if the resolver makes it, any
\* number if a user does (none: an empty directory; several: a projection).
Volume(name, secret) == [name |-> name, secrets |-> {secret}]
Mount(name, path) == [name |-> name, path |-> path]
File(flag, dir, key) == [flag |-> flag, dir |-> dir, key |-> key]
EnvVar(name, sel, default) ==
    [name |-> name, secret |-> sel.name, key |-> StringOrDefault(sel.key, default)]

\* probeToken: the probes send the token of the environment.
Container(files, mounts, env, probeToken) ==
    [files |-> files, mounts |-> mounts, env |-> env, envFrom |-> <<>>, probeToken |-> probeToken]

\* append if the reference is given
If(ref, item) == IF ref = Nil THEN <<>> ELSE <<item>>

\* The keys, names and flags of the resolvers' own.
DefaultKey == {"tls.crt", "tls.key", "ca.crt", "token.csv", "kubeconfig", "token", "password"}
OwnName ==
    {"service-account-key", "service-account-skey", "tls", "token", "client-ca", "etcd-ca", "etcd-key",
     "kubeconfig", "service-account-private-key", "service-account-root-ca", "cluster-signing",
     "authentication-kubeconfig", "authorization-kubeconfig", "AUTH_TOKEN"}
Flag ==
    {"service-account-key-file", "service-account-signing-key-file", "tls-cert-file",
     "tls-private-key-file", "token-auth-file", "client-ca-file", "etcd-cafile", "etcd-certfile",
     "etcd-keyfile", "kubeconfig", "service-account-private-key-file", "root-ca-file",
     "cluster-signing-cert-file", "cluster-signing-key-file", "authentication-kubeconfig",
     "authorization-kubeconfig"}

AnyKey == Key \cup DefaultKey
AnyName == Name \cup OwnName
AnyVolume == [name: AnyName, secrets: SUBSET Secret]
AnyMount == [name: AnyName, path: AnyName]
AnyFile == [flag: Flag, dir: AnyName, key: AnyKey]
AnyEnvVar == [name: AnyName, secret: Optional(Secret), key: Optional(AnyKey)]
AnyContainer ==
    [files: Seq(AnyFile), mounts: Seq(AnyMount), env: Seq(AnyEnvVar), envFrom: Seq(Secret),
     probeToken: BOOLEAN]

\* A container of the user's: no command line of it is the resolver's business.
UserContainer ==
    [files: {<<>>}, mounts: Seq(AnyMount), env: Seq(AnyEnvVar), envFrom: Seq(Secret),
     probeToken: {FALSE}]

\* What users may add to the pods (volumes, containers) and to the containers
\* of the component (mounts, variables): nothing is ruled out, not even names
\* and paths the resolver uses itself.  Of envFrom, the secrets.
Overlay ==
    [labels: Labels, volumes: Seq(AnyVolume), mounts: Seq(AnyMount), env: Seq(AnyEnvVar),
     envFrom: Seq(Secret), containers: Seq(UserContainer), initContainers: Seq(UserContainer)]

ApplyContainerOverlay(container, overlay) ==
    [container EXCEPT !.envFrom = @ \o overlay.envFrom, !.env = @ \o overlay.env,
                      !.mounts = @ \o overlay.mounts]

\* Mutant: the additional volumes are forgotten.
OverlayWithoutVolumes(pod, overlay) ==
    [pod EXCEPT !.initContainers = @ \o overlay.initContainers,
                !.containers = @ \o overlay.containers]

ApplyPodOverlay(pod, overlay) ==
    [pod EXCEPT !.volumes = @ \o overlay.volumes, !.initContainers = @ \o overlay.initContainers,
                !.containers = @ \o overlay.containers]

\* A pod of the containers and volumes of a component, before its overlay.
Pod(containers, volumes) ==
    [containers |-> containers, initContainers |-> <<>>, volumes |-> volumes]

\* A use of a secret: what for, and by which of its keys.
Use(flag, secret, key) == [flag |-> flag, secret |-> secret, key |-> key]
UseOf(flag, sel, default) ==
    {Use(flag, ref.name, StringOrDefault(ref.key, default)) : ref \in Given({sel})}

\* The annotations of the template: the checksums of the secrets in the store.
ComputeMountableChecksum(store) == store

DeploymentType ==
    [selector: Optional(Labels), labels: Labels, checksums: SUBSET Secret,
     pod: [containers: Seq(AnyContainer), initContainers: Seq(AnyContainer), volumes: Seq(AnyVolume)]]

DeploymentOf(x, baseLabels, pod, store) ==
    [selector  |-> IF x.selector = Nil THEN baseLabels ELSE x.selector,
     labels    |-> MergeStringStringMaps(x.overlay.labels, baseLabels),
     pod       |-> pod,
     checksums |-> ComputeMountableChecksum(store)]
=============================================================================
