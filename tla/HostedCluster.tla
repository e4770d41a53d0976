---------------------------- MODULE HostedCluster ----------------------------
(***************************************************************************)
(* Kubeconfigs and the components that use them: the controller of         *)
(* KubeconfigReconciler renders a secret that a server of                  *)
(* DeploymentReconciler mounts.  The controllers run in one process and    *)
(* share its informer of secrets; they never call each other.              *)
(*                                                                         *)
(* Crashes, failed calls and other field managers are left to the          *)
(* components' own modules.                                                *)
(***************************************************************************)
EXTENDS Naturals

CONSTANTS
    Kubeconfig, ConfigSpec, SecretName, ConfigRefs, NoConfig, NoOwner,
    Server, Kind, KindOf, Deployment, DeploymentOf, Spec, Refs, NoServer,
    Name,           \* names of secrets, rendered or kept by users
    Kept, Data, Complete,
    Absent, NoSpec, Foreign,
    MaxChanges      \* bound: changes made by users

VARIABLES
    kubeconfig, secret, server, deployment,                             \* objects
    kubeconfigCache, secretCache, serverCache, deploymentCache,         \* informers
    owners, comings, deploymentWatch,       \* changes the informers have not seen
    configEvent, configQueue, configBackoff, configWorker,  \* Kubeconfig's controller
    secretEvent, queue, backoff, worker,                    \* the servers' controllers
    changes

configVars == <<kubeconfig, kubeconfigCache, configEvent, configQueue, configBackoff, configWorker>>
secretVars == <<secret, secretCache, owners, comings>>
podVars == <<server, deployment, serverCache, deploymentCache, deploymentWatch,
             secretEvent, queue, backoff, worker>>
vars == <<configVars, secretVars, podVars, changes>>

Configs == INSTANCE KubeconfigReconciler WITH
    Spec <- ConfigSpec, Refs <- ConfigRefs, Contested <- {}, MaxFaults <- 0,
    secretEvent <- configEvent, queue <- configQueue, backoff <- configBackoff,
    worker <- configWorker, late <- {}, faults <- 0

\* What a server's checksum is taken of: the keys of a secret, not its owner.
ContentOf(o) == IF o.exists THEN [data |-> o.data, config |-> o.config] ELSE Absent
Contents == [data: Data \cup {Absent}, config: Configs!Config \cup {NoConfig}]

\* The servers reference rendered secrets only; events of others wake none of them.
Rendered == Name \ Kept

ASSUME ClusterAssumption ==
    /\ SecretName \in [ConfigSpec -> Name]
    /\ ConfigRefs \in [ConfigSpec -> SUBSET Name]
    /\ Complete \subseteq Data
    /\ Kept \subseteq Name
    /\ KindOf \in [Server -> Kind]
    /\ DeploymentOf \in [Server -> Deployment]
    /\ Refs \in [Spec -> SUBSET Rendered]
    /\ Absent \notin Data \cup Contents
    /\ NoConfig \notin Configs!Config /\ Foreign \notin Configs!Config
    /\ NoSpec \notin ConfigSpec \cup Spec
    /\ NoOwner \notin Kubeconfig
    /\ NoServer \notin Server
    /\ Foreign \notin Kind
    /\ MaxChanges \in Nat

Pods == INSTANCE DeploymentReconciler WITH
    Secret <- Rendered, Data <- Contents, Health <- {"Unknown"}, Contested <- {},
    SelectorOf <- [x \in Spec |-> "app"], Orders <- [x \in Spec |-> 1],
    secret <- [n \in Rendered |-> ContentOf(secret[n])],
    secretCache <- [n \in Rendered |-> ContentOf(secretCache[n])],
    secretWatch <- comings \cap Rendered, late <- {}, faults <- 0, MaxFaults <- 0

\* Users have asked for everything, and keep the secrets they are to keep.
Init ==
    /\ Configs!Init
    /\ \A k \in Kubeconfig : kubeconfig[k].exists
    /\ \A n \in Kept : secret[n].exists
    /\ Pods!Init
    /\ \A s \in Server : server[s].exists

\* A step of one side.  A secret that is written is seen by the shared informer.
OfConfigs(step) == UNCHANGED podVars /\ step
OfPods(step) == UNCHANGED <<configVars, secretVars>> /\ step

\* The shared informer takes a change of a secret: each controller that watches
\* secrets gets an event, the owners of a rendered one are woken.
SyncSecret(n) ==
    /\ Configs!SyncSecret(n)
    /\ secretEvent' = secretEvent \cup (Kind \X (comings \cap Rendered \cap {n}))
    /\ UNCHANGED <<server, deployment, serverCache, deploymentCache, deploymentWatch,
                   queue, backoff, worker>>

Informers ==
    \/ \E n \in Name : SyncSecret(n) \/ OfConfigs(Configs!HandleSecretEvent(n))
    \/ \E s \in Server : OfPods(Pods!SyncServer(s))
    \/ \E d \in Deployment : OfPods(Pods!SyncDeployment(d))
    \/ \E k \in Kind, n \in Rendered : OfPods(Pods!HandleSecretEvent(k, n))

ResyncConfigs == OfConfigs(Configs!Resync)
ResyncPods == OfPods(Pods!Resync)

RetryConfig(k) == OfConfigs(Configs!Requeue(k))
RetryServer(s) == OfPods(Pods!Requeue(s))

ConfigController == OfConfigs(Configs!Reconcile)
PodController(k) == OfPods(Pods!Reconcile(k))

\* Users rotate what they keep in secrets and delete secrets, the rendered one
\* too.  What they do to Kubeconfigs and servers is left to the components.
Users == \E n \in Name : OfConfigs(Configs!PutSecret(n)) \/ OfConfigs(Configs!DeleteSecret(n))

Next ==
    \/ Informers
    \/ ResyncConfigs \/ ResyncPods
    \/ \E k \in Kubeconfig : RetryConfig(k)
    \/ \E s \in Server : RetryServer(s)
    \/ ConfigController
    \/ \E k \in Kind : PodController(k)
    \/ Users

ClusterSpec == Init /\ [][Next]_vars

\* Everything but the users keeps running.  The informers have only so much to
\* deliver once the users are quiet, so none of their events can be passed over
\* for ever; with one object for each controller, the same holds of its worker.
Fairness ==
    /\ WF_vars(Informers)
    /\ WF_vars(ResyncConfigs) /\ WF_vars(ResyncPods)
    /\ \A k \in Kubeconfig : WF_vars(RetryConfig(k))
    /\ \A s \in Server : WF_vars(RetryServer(s))
    /\ WF_vars(ConfigController)
    /\ \A k \in Kind : WF_vars(PodController(k))

FairSpec == ClusterSpec /\ Fairness

-----------------------------------------------------------------------------
\* No component is ever rolled out with a kubeconfig that lacks one of its
\* credentials: what a Deployment carries the checksum of was rendered from
\* every secret its Kubeconfig references (resolveConfig, then Resolve).
MountedConfigsComplete ==
    \A d \in Deployment, n \in Rendered :
        LET c == deployment[d].checksums[n]
        IN  c # Absent =>
              /\ c.config # NoConfig
              /\ {r \in Name : c.config.read[r] # Absent} = ConfigRefs[c.config.spec]

\* A server that nothing will reconcile again is hosted, although the secret it
\* mounts is itself rendered, collected and rendered anew by another controller.
NoLostWakeup == Pods!NoLostWakeup /\ Configs!NoLostWakeup

\* A credential that a user rotates reaches the pods in the end, by way of the
\* kubeconfig rendered from it: no event reports either of the two updates.
RotationReachesPods ==
    <>[](\A s \in Server, k \in Kubeconfig :
           LET name == SecretName[kubeconfig[k].spec]
               d == deployment[DeploymentOf[s]]
           IN  /\ Pods!Alive(s) /\ Configs!Alive(k)
               /\ name \in Refs[server[s].spec]
               /\ \A n \in ConfigRefs[kubeconfig[k].spec] : Configs!Usable(secret[n])
               => /\ Pods!Hosted(s)
                  /\ \A n \in ConfigRefs[kubeconfig[k].spec] :
                       d.checksums[name].config.read[n] = secret[n].data)

\* ... and then neither the secret nor the Deployment is written any more: the two
\* controllers never wake each other for ever by what they apply (the status may
\* still be brought in line with the Deployment's conditions).
ClusterSettles == <>[][UNCHANGED <<secret, deployment>>]_vars
===============================================================================
