----------------------------- MODULE HostedClusterProofs -----------------------------
(***************************************************************************)
(* The composition of the Kubeconfig controller with those that mount what *)
(* it renders.  Seen from the Kubeconfig's side, every step of the cluster *)
(* is a step of KubeconfigReconciler or none: what is proved of that       *)
(* module holds here.  Seen from the servers' side, it is a step of        *)
(* DeploymentReconciler, or a secret is written: the servers' invariants   *)
(* bear that too, by whomever it is written.                               *)
(***************************************************************************)
EXTENDS HostedCluster, TLAPS

\* The components' modules once more, with what is proved of them.
ConfigProofs == INSTANCE KubeconfigReconcilerProofs WITH
    Spec <- ConfigSpec, Refs <- ConfigRefs, Contested <- {}, MaxFaults <- 0,
    secretEvent <- configEvent, queue <- configQueue, backoff <- configBackoff,
    worker <- configWorker, late <- {}, faults <- 0

PodProofs == INSTANCE ReconcilerWakeupProofs WITH
    Secret <- Rendered, Data <- Contents, Health <- {"Unknown"}, Contested <- {},
    SelectorOf <- [x \in Spec |-> "app"], Orders <- [x \in Spec |-> 1],
    secret <- [n \in Rendered |-> ContentOf(secret[n])],
    secretCache <- [n \in Rendered |-> ContentOf(secretCache[n])],
    secretWatch <- comings \cap Rendered, late <- {}, faults <- 0, MaxFaults <- 0

-----------------------------------------------------------------------------
(* The components' assumptions hold, and their definitions are the same    *)
(* ones under either name                                                  *)

LEMMA ConfigAssumptions == ConfigProofs!ConfigAssumption /\ ConfigProofs!NoRendering
<1>1. ConfigProofs!ConfigAssumption
  BY ClusterAssumption
<1>2. ConfigProofs!NoRendering
  BY ClusterAssumption
  DEF Configs!Config, ConfigProofs!Config, Configs!Content, ConfigProofs!Content
<1>3. QED
  BY <1>1, <1>2

LEMMA PodAssumptions == PodProofs!ConfigAssumption
<1>1. [x \in Spec |-> 1] \in [Spec -> Nat \ {0}]
  OBVIOUS
<1>2. QED
  BY <1>1, ClusterAssumption

LEMMA SameConfigs ==
    /\ (Configs!Init <=> ConfigProofs!Init)
    /\ (Configs!Next <=> ConfigProofs!Next)
    /\ (UNCHANGED Configs!vars <=> UNCHANGED ConfigProofs!vars)
    /\ (Configs!TypeOK <=> ConfigProofs!TypeOK)
    /\ (Configs!ConfigComplete <=> ConfigProofs!ConfigComplete)
    /\ (Configs!NoLostWakeup <=> ConfigProofs!NoLostWakeup)
BY DEF
    Configs!Init, ConfigProofs!Init, Configs!Next, ConfigProofs!Next, Configs!vars,
    ConfigProofs!vars, Configs!TypeOK, ConfigProofs!TypeOK, Configs!ConfigComplete,
    ConfigProofs!ConfigComplete, Configs!NoLostWakeup, ConfigProofs!NoLostWakeup,
    Configs!NoKubeconfig, ConfigProofs!NoKubeconfig, Configs!Content, ConfigProofs!Content,
    Configs!NoSecret, ConfigProofs!NoSecret, Configs!Idle, ConfigProofs!Idle, Configs!Deliver,
    ConfigProofs!Deliver, Configs!Reconcile, ConfigProofs!Reconcile, Configs!ApplyFails,
    ConfigProofs!ApplyFails, Configs!Crash, ConfigProofs!Crash, Configs!LandLate,
    ConfigProofs!LandLate, Configs!Environment, ConfigProofs!Environment, Configs!Collect,
    ConfigProofs!Collect, Configs!store, ConfigProofs!store, Configs!caches,
    ConfigProofs!caches, Configs!watches, ConfigProofs!watches, Configs!bounds,
    ConfigProofs!bounds, Configs!KubeconfigObject, ConfigProofs!KubeconfigObject,
    Configs!SecretObject, ConfigProofs!SecretObject, Configs!Active, ConfigProofs!Active,
    Configs!Alive, ConfigProofs!Alive, Configs!Quiet, ConfigProofs!Quiet, Configs!Delivered,
    ConfigProofs!Delivered, Configs!NoContent, ConfigProofs!NoContent, Configs!SyncKubeconfig,
    ConfigProofs!SyncKubeconfig, Configs!Requeue, ConfigProofs!Requeue, Configs!SyncSecret,
    ConfigProofs!SyncSecret, Configs!HandleSecretEvent, ConfigProofs!HandleSecretEvent,
    Configs!Resync, ConfigProofs!Resync, Configs!Start, ConfigProofs!Start, Configs!ReadSecret,
    ConfigProofs!ReadSecret, Configs!ResolveFails, ConfigProofs!ResolveFails,
    Configs!ApplySucceeds, ConfigProofs!ApplySucceeds, Configs!ApplyIsRefused,
    ConfigProofs!ApplyIsRefused, Configs!ReadyToApply, ConfigProofs!ReadyToApply,
    Configs!Apply, ConfigProofs!Apply, Configs!Retry, ConfigProofs!Retry, Configs!OwnersOf,
    ConfigProofs!OwnersOf, Configs!CreateKubeconfig, ConfigProofs!CreateKubeconfig,
    Configs!EditSpec, ConfigProofs!EditSpec, Configs!DeleteKubeconfig,
    ConfigProofs!DeleteKubeconfig, Configs!PutSecret, ConfigProofs!PutSecret,
    Configs!DeleteSecret, ConfigProofs!DeleteSecret, Configs!TakeKey, ConfigProofs!TakeKey,
    Configs!CollectGarbage, ConfigProofs!CollectGarbage, Configs!FinishDeletion,
    ConfigProofs!FinishDeletion, Configs!Present, ConfigProofs!Present, Configs!Gone,
    ConfigProofs!Gone, Configs!Config, ConfigProofs!Config, Configs!Unread,
    ConfigProofs!Unread, Configs!Usable, ConfigProofs!Usable, Configs!ApplyAccepted,
    ConfigProofs!ApplyAccepted, Configs!WriteSecret, ConfigProofs!WriteSecret, Configs!Applied,
    ConfigProofs!Applied, Configs!Change, ConfigProofs!Change, Configs!Removed,
    ConfigProofs!Removed, Configs!OwnerAlive, ConfigProofs!OwnerAlive

LEMMA SamePods ==
    /\ (Pods!Init <=> PodProofs!Init)
    /\ (Pods!Next <=> PodProofs!Next)
    /\ (UNCHANGED Pods!vars <=> UNCHANGED PodProofs!vars)
    /\ (Pods!TypeOK <=> PodProofs!TypeOK)
    /\ (Pods!NoLostWakeup <=> PodProofs!NoLostWakeup)
BY DEF
    Pods!Init, PodProofs!Init, Pods!Next, PodProofs!Next, Pods!vars, PodProofs!vars,
    Pods!TypeOK, PodProofs!TypeOK, Pods!NoLostWakeup, PodProofs!NoLostWakeup, Pods!Content,
    PodProofs!Content, Pods!NoServerObject, PodProofs!NoServerObject, Pods!NoDeployment,
    PodProofs!NoDeployment, Pods!Idle, PodProofs!Idle, Pods!Deliver, PodProofs!Deliver,
    Pods!Reconcile, PodProofs!Reconcile, Pods!ApplyFails, PodProofs!ApplyFails,
    Pods!UpdateFails, PodProofs!UpdateFails, Pods!Crash, PodProofs!Crash, Pods!LandLate,
    PodProofs!LandLate, Pods!Environment, PodProofs!Environment, Pods!Collect,
    PodProofs!Collect, Pods!store, PodProofs!store, Pods!caches, PodProofs!caches,
    Pods!watches, PodProofs!watches, Pods!events, PodProofs!events, Pods!bounds,
    PodProofs!bounds, Pods!ServerObject, PodProofs!ServerObject, Pods!DeploymentObject,
    PodProofs!DeploymentObject, Pods!Active, PodProofs!Active, Pods!Alive, PodProofs!Alive,
    Pods!Quiet, PodProofs!Quiet, Pods!Hosted, PodProofs!Hosted, Pods!NoStatus,
    PodProofs!NoStatus, Pods!NoContent, PodProofs!NoContent, Pods!SyncServer,
    PodProofs!SyncServer, Pods!Requeue, PodProofs!Requeue, Pods!SyncSecret,
    PodProofs!SyncSecret, Pods!HandleSecretEvent, PodProofs!HandleSecretEvent,
    Pods!SyncDeployment, PodProofs!SyncDeployment, Pods!Resync, PodProofs!Resync, Pods!Start,
    PodProofs!Start, Pods!ReadSecret, PodProofs!ReadSecret, Pods!BuildError,
    PodProofs!BuildError, Pods!ApplySucceeds, PodProofs!ApplySucceeds, Pods!ApplyIsRefused,
    PodProofs!ApplyIsRefused, Pods!MirrorAfterError, PodProofs!MirrorAfterError,
    Pods!UpdateAfterError, PodProofs!UpdateAfterError, Pods!UpdateAfterApply,
    PodProofs!UpdateAfterApply, Pods!ReadyToApply, PodProofs!ReadyToApply, Pods!Apply,
    PodProofs!Apply, Pods!WithFailure, PodProofs!WithFailure, Pods!StatusUpdated,
    PodProofs!StatusUpdated, Pods!Sending, PodProofs!Sending, Pods!OwnersOf,
    PodProofs!OwnersOf, Pods!CreateServer, PodProofs!CreateServer, Pods!EditSpec,
    PodProofs!EditSpec, Pods!DeleteServer, PodProofs!DeleteServer, Pods!DeleteForeground,
    PodProofs!DeleteForeground, Pods!SetSecret, PodProofs!SetSecret, Pods!ReportHealth,
    PodProofs!ReportHealth, Pods!DeleteDeployment, PodProofs!DeleteDeployment,
    Pods!ForeignEdit, PodProofs!ForeignEdit, Pods!CollectGarbage, PodProofs!CollectGarbage,
    Pods!FinishDeletion, PodProofs!FinishDeletion, Pods!Present, PodProofs!Present, Pods!Gone,
    PodProofs!Gone, Pods!Pc, PodProofs!Pc, Pods!Referencing, PodProofs!Referencing,
    Pods!Unread, PodProofs!Unread, Pods!Mirrored, PodProofs!Mirrored, Pods!ApplyAccepted,
    PodProofs!ApplyAccepted, Pods!UpdateAccepted, PodProofs!UpdateAccepted,
    Pods!RenderedOrders, PodProofs!RenderedOrders, Pods!WriteDeployment,
    PodProofs!WriteDeployment, Pods!Applied, PodProofs!Applied, Pods!Change, PodProofs!Change,
    Pods!Removed, PodProofs!Removed, Pods!SecretEventPasses, PodProofs!SecretEventPasses,
    Pods!OwnerAlive, PodProofs!OwnerAlive, Pods!Status, PodProofs!Status,
    Pods!DeploymentFailure, PodProofs!DeploymentFailure

-----------------------------------------------------------------------------
(* The Kubeconfigs' side                                                   *)

\* A step of the servers' side leaves the Kubeconfigs' alone.
LEMMA PodsLeaveConfigs ==
    ASSUME \/ \E s \in Server : Pods!SyncServer(s) \/ Pods!Requeue(s)
           \/ \E d \in Deployment : Pods!SyncDeployment(d)
           \/ \E k \in Kind, n \in Rendered : Pods!HandleSecretEvent(k, n)
           \/ Pods!Resync
           \/ \E k \in Kind : Pods!Reconcile(k)
    PROVE  changes' = changes
BY DEF Pods!SyncServer, Pods!Requeue, Pods!SyncDeployment, Pods!HandleSecretEvent, Pods!Resync,
       Pods!Reconcile, Pods!Start, Pods!ReadSecret, Pods!BuildError, Pods!ApplySucceeds,
       Pods!ApplyIsRefused, Pods!MirrorAfterError, Pods!UpdateAfterError, Pods!UpdateAfterApply,
       Pods!bounds

LEMMA ConfigStep == [Next]_vars => [Configs!Next]_(Configs!vars)
<1> SUFFICES ASSUME [Next]_vars PROVE [Configs!Next]_(Configs!vars)
  OBVIOUS
<1>1. ASSUME UNCHANGED <<configVars, secretVars, changes>>
      PROVE  UNCHANGED Configs!vars
  BY <1>1 DEF configVars, secretVars, Configs!vars, Configs!store, Configs!caches,
              Configs!watches, Configs!bounds
<1>2. CASE UNCHANGED vars
  BY <1>1, <1>2 DEF vars
<1>3. ASSUME \/ \E s \in Server : OfPods(Pods!SyncServer(s)) \/ RetryServer(s)
             \/ \E d \in Deployment : OfPods(Pods!SyncDeployment(d))
             \/ \E k \in Kind, n \in Rendered : OfPods(Pods!HandleSecretEvent(k, n))
             \/ ResyncPods
             \/ \E k \in Kind : PodController(k)
      PROVE  UNCHANGED Configs!vars
  BY <1>1, <1>3, PodsLeaveConfigs DEF OfPods, RetryServer, ResyncPods, PodController
<1>4. ASSUME NEW n \in Name, SyncSecret(n) \/ OfConfigs(Configs!HandleSecretEvent(n))
      PROVE  Configs!Next
  BY <1>4 DEF SyncSecret, OfConfigs, Configs!Next, Configs!Deliver
<1>5. ASSUME ResyncConfigs \/ \E k \in Kubeconfig : RetryConfig(k)
      PROVE  Configs!Next
  BY <1>5 DEF ResyncConfigs, RetryConfig, OfConfigs, Configs!Next, Configs!Deliver
<1>6. ASSUME ConfigController \/ Users PROVE Configs!Next
  BY <1>6 DEF ConfigController, Users, OfConfigs, Configs!Next, Configs!Environment
<1>7. QED
  BY <1>2, <1>3, <1>4, <1>5, <1>6 DEF Next, Informers

\* The controller of Kubeconfigs does here what its module says, whatever the
\* servers' controllers do beside it: the cluster's behaviours are behaviours of
\* KubeconfigReconciler (main.go, where both share one manager).
THEOREM ConfigsAreImplemented == ClusterSpec => Configs!ReconcilerSpec
<1>1. Init => Configs!Init
  BY DEF Init
<1>2. QED
  BY <1>1, ConfigStep, PTL DEF ClusterSpec, Configs!ReconcilerSpec

\* What is proved of the component's module, for the component.
LEMMA ConfigsAreCorrect ==
    ClusterSpec => [](Configs!TypeOK /\ Configs!ConfigComplete /\ Configs!NoLostWakeup)
<1>1. ConfigProofs!ReconcilerSpec => []ConfigProofs!TypeOK
  BY ConfigProofs!TypeCorrect, ConfigAssumptions
<1>2. ConfigProofs!ReconcilerSpec => []ConfigProofs!ConfigComplete
  BY ConfigProofs!ConfigsAreComplete, ConfigAssumptions
<1>3. ConfigProofs!ReconcilerSpec => []ConfigProofs!NoLostWakeup
  BY ConfigProofs!NoWakeupIsLost, ConfigAssumptions
<1>4. Configs!ReconcilerSpec => ConfigProofs!ReconcilerSpec
  <2>1. Configs!Init => ConfigProofs!Init
    BY SameConfigs
  <2>2. [Configs!Next]_(Configs!vars) => [ConfigProofs!Next]_(ConfigProofs!vars)
    BY SameConfigs
  <2>3. QED
    BY <2>1, <2>2, PTL DEF Configs!ReconcilerSpec, ConfigProofs!ReconcilerSpec
<1>5. ConfigProofs!TypeOK /\ ConfigProofs!ConfigComplete /\ ConfigProofs!NoLostWakeup =>
        Configs!TypeOK /\ Configs!ConfigComplete /\ Configs!NoLostWakeup
  BY SameConfigs
<1>6. QED
  BY <1>1, <1>2, <1>3, <1>4, <1>5, ConfigsAreImplemented, PTL

-----------------------------------------------------------------------------
(* The servers' side                                                       *)

\* A secret is written; the informer has not seen it yet, but will if it came or went.
SecretWritten ==
    /\ UNCHANGED <<podVars, secretCache>>
    /\ comings \subseteq comings'
    /\ \A n \in Name : secret'[n].exists = secret[n].exists \/ n \in comings'

LEMMA WriteIsSeen ==
    ASSUME Configs!TypeOK, NEW m \in Name, NEW new, Configs!WriteSecret(m, new),
           UNCHANGED <<podVars, secretCache>>
    PROVE  SecretWritten
<1>1. \A n \in Name : secret'[n] = IF n = m THEN new ELSE secret[n]
  BY DEF Configs!WriteSecret, Configs!TypeOK
<1>2. comings' = IF new.exists = secret[m].exists THEN comings ELSE comings \cup {m}
  BY DEF Configs!WriteSecret
<1>3. QED
  BY <1>1, <1>2 DEF SecretWritten

\* The controller of Kubeconfigs and the users write secrets, and nothing else
\* that the servers' controllers look at.
LEMMA ConfigsWriteSecrets ==
    ASSUME Configs!TypeOK, UNCHANGED podVars,
           \/ \E n \in Name : Configs!HandleSecretEvent(n) \/ Configs!PutSecret(n)
                              \/ Configs!DeleteSecret(n)
           \/ \E k \in Kubeconfig : Configs!Requeue(k)
           \/ Configs!Resync \/ Configs!Reconcile
    PROVE  UNCHANGED <<podVars, secretVars, changes>> \/ SecretWritten
<1>1. ASSUME \/ \E n \in Name : Configs!HandleSecretEvent(n)
             \/ \E k \in Kubeconfig : Configs!Requeue(k)
             \/ Configs!Resync
             \/ \E k \in Kubeconfig : Configs!Start(k)
             \/ \E n \in Name : Configs!ReadSecret(n)
             \/ Configs!ResolveFails \/ Configs!ApplyIsRefused
      PROVE  UNCHANGED <<podVars, secretVars, changes>>
  BY <1>1
  DEF Configs!HandleSecretEvent, Configs!Requeue, Configs!Resync, Configs!Start,
      Configs!ReadSecret, Configs!ResolveFails, Configs!ApplyIsRefused, Configs!store,
      Configs!caches, Configs!watches, Configs!bounds, secretVars
<1>2. ASSUME NEW n \in Name, Configs!PutSecret(n) \/ Configs!DeleteSecret(n)
      PROVE  SecretWritten
  <2>1. \E new : Configs!WriteSecret(n, new)
    BY <1>2 DEF Configs!PutSecret, Configs!DeleteSecret
  <2>2. secretCache' = secretCache
    BY <1>2 DEF Configs!PutSecret, Configs!DeleteSecret, Configs!Change, Configs!caches
  <2>3. QED
    BY <2>1, <2>2, WriteIsSeen
<1>3. CASE Configs!ApplySucceeds
  <2>1. configWorker \in Configs!Active
    BY <1>3 DEF Configs!ApplySucceeds, Configs!ReadyToApply, Configs!TypeOK, Configs!Idle
  <2>2. SecretName[configWorker.obj.spec] \in Name
    BY <2>1, ClusterAssumption DEF Configs!Active, Configs!Present
  <2>3. \E new : Configs!WriteSecret(SecretName[configWorker.obj.spec], new)
    BY <1>3 DEF Configs!ApplySucceeds, Configs!Apply
  <2>4. secretCache' = secretCache
    BY <1>3 DEF Configs!ApplySucceeds, Configs!caches
  <2>5. QED
    BY <2>2, <2>3, <2>4, WriteIsSeen
<1>4. QED
  BY <1>1, <1>2, <1>3 DEF Configs!Reconcile

LEMMA PodsStutter ==
    ASSUME UNCHANGED <<podVars, secretVars, changes>>
    PROVE  UNCHANGED Pods!vars
BY DEF podVars, secretVars, ContentOf, Rendered, Pods!vars, Pods!store, Pods!caches,
       Pods!watches, Pods!events, Pods!bounds

\* What the servers' controllers see of the shared informer: the contents of
\* rendered secrets, and nothing of their owners.
LEMMA PodsSeeSecret ==
    ASSUME Configs!TypeOK, NEW n \in Name, SyncSecret(n)
    PROVE  [Pods!Next]_(Pods!vars)
<1>1. /\ UNCHANGED <<server, secret, deployment, serverCache, deploymentCache,
                     deploymentWatch, queue, backoff, worker, changes>>
      /\ \A m \in Name : secretCache'[m] = IF m = n THEN secret[m] ELSE secretCache[m]
      /\ comings' = comings \ {n}
      /\ secretEvent' = secretEvent \cup (Kind \X (comings \cap Rendered \cap {n}))
  BY DEF SyncSecret, Configs!SyncSecret, Configs!store, Configs!bounds, Configs!TypeOK
<1>2. CASE n \notin Rendered \/ (n \notin comings /\ ContentOf(secretCache[n]) = ContentOf(secret[n]))
  <2>1. \A m \in Rendered : ContentOf(secretCache'[m]) = ContentOf(secretCache[m])
    BY <1>1, <1>2 DEF Rendered
  <2>2. ([m \in Rendered |-> ContentOf(secretCache[m])])' =
          [m \in Rendered |-> ContentOf(secretCache[m])]
    BY <2>1 DEF Rendered, ContentOf
  <2>3. (comings \cap Rendered)' = comings \cap Rendered
    BY <1>1, <1>2 DEF Rendered
  <2>4. secretEvent' = secretEvent
    BY <1>1, <1>2
  <2>5. QED
    BY <1>1, <2>2, <2>3, <2>4
    DEF Pods!vars, Pods!store, Pods!caches, Pods!watches, Pods!events, Pods!bounds,
        ContentOf, Rendered
<1>3. CASE n \in Rendered /\ (n \in comings \/ ContentOf(secretCache[n]) # ContentOf(secret[n]))
  <2>1. \A m \in Rendered : ContentOf(secretCache'[m]) =
          IF m = n THEN ContentOf(secret[m]) ELSE ContentOf(secretCache[m])
    BY <1>1 DEF Rendered
  <2>2. ([m \in Rendered |-> ContentOf(secretCache[m])])' =
          [[m \in Rendered |-> ContentOf(secretCache[m])] EXCEPT ![n] =
             [m \in Rendered |-> ContentOf(secret[m])][n]]
    BY <1>3, <2>1 DEF Rendered, ContentOf
  <2>3. (comings \cap Rendered)' = (comings \cap Rendered) \ {n}
    BY <1>1 DEF Rendered
  <2>4. Pods!SyncSecret(n)
    BY <1>1, <1>3, <2>2, <2>3
    DEF Pods!SyncSecret, Pods!store, Pods!bounds, ContentOf, Rendered
  <2>5. QED
    BY <1>3, <2>4 DEF Pods!Next, Pods!Deliver
<1>4. QED
  BY <1>2, <1>3

LEMMA PodStep ==
    ASSUME Configs!TypeOK, [Next]_vars
    PROVE  [Pods!Next]_(Pods!vars) \/ SecretWritten
<1>1. CASE UNCHANGED vars
  BY <1>1, PodsStutter DEF vars
<1>2. ASSUME NEW n \in Name, SyncSecret(n) PROVE [Pods!Next]_(Pods!vars)
  BY <1>2, PodsSeeSecret
<1>3. ASSUME \/ \E s \in Server : OfPods(Pods!SyncServer(s)) \/ RetryServer(s)
             \/ \E d \in Deployment : OfPods(Pods!SyncDeployment(d))
             \/ \E k \in Kind, n \in Rendered : OfPods(Pods!HandleSecretEvent(k, n))
             \/ ResyncPods
             \/ \E k \in Kind : PodController(k)
      PROVE  Pods!Next
  BY <1>3 DEF OfPods, RetryServer, ResyncPods, PodController, Pods!Next, Pods!Deliver
<1>4. ASSUME \/ \E n \in Name : OfConfigs(Configs!HandleSecretEvent(n))
             \/ \E k \in Kubeconfig : RetryConfig(k)
             \/ ResyncConfigs \/ ConfigController \/ Users
      PROVE  [Pods!Next]_(Pods!vars) \/ SecretWritten
  <2>1. UNCHANGED <<podVars, secretVars, changes>> \/ SecretWritten
    BY <1>4, ConfigsWriteSecrets DEF OfConfigs, RetryConfig, ResyncConfigs, ConfigController, Users
  <2>2. QED
    BY <2>1, PodsStutter
<1>5. QED
  BY <1>1, <1>2, <1>3, <1>4 DEF Next, Informers

-----------------------------------------------------------------------------
(* What is mounted is complete                                             *)

\* A rendered secret holds a kubeconfig with every credential it references.
RenderedWholly(o) ==
    o.exists =>
        /\ o.config \in Configs!Config
        /\ {r \in Name : o.config.read[r] # Absent} = ConfigRefs[o.config.spec]

\* MountedConfigsComplete is about what a worker has written; it has read it
\* from the cache, and that was in the secret before.
RenderedInv ==
    \A n \in Rendered : RenderedWholly(secret[n]) /\ RenderedWholly(secretCache[n])

LEMMA RenderedInit == Init => RenderedInv
<1> SUFFICES ASSUME Init, NEW n \in Rendered
             PROVE  RenderedWholly(secret[n]) /\ RenderedWholly(secretCache[n])
  BY DEF RenderedInv
<1>1. n \in Name /\ n \notin Kept
  BY DEF Rendered
<1>2. PICK data \in Configs!Content :
        /\ \A m \in Name \ Kept : data[m] = Absent
        /\ secret = [m \in Name |->
                       [Configs!NoSecret EXCEPT !.exists = data[m] # Absent, !.data = data[m]]]
  BY DEF Init, Configs!Init
<1>3. ~ secret[n].exists
  BY <1>1, <1>2 DEF Configs!NoSecret
<1>4. secretCache = secret
  BY DEF Init, Configs!Init
<1>5. QED
  BY <1>3, <1>4 DEF RenderedWholly

\* Users keep nothing in a rendered secret: what is in it was rendered.
LEMMA RenderedIsConfig ==
    ASSUME Configs!TypeOK, RenderedInv, [Next]_vars, NEW n \in Rendered, secret'[n].exists
    PROVE  secret'[n].config \in Configs!Config
<1>1. n \in Name /\ n \notin Kept
  BY DEF Rendered
<1>2. CASE secret' = secret
  BY <1>2 DEF RenderedInv, RenderedWholly
<1>3. ASSUME NEW m \in Name, Configs!PutSecret(m) \/ Configs!DeleteSecret(m)
      PROVE  secret'[n].config \in Configs!Config
  <2>1. PICK new : /\ secret' = [secret EXCEPT ![m] = new]
                   /\ m \in Kept \/ new = Configs!NoSecret
    BY <1>3 DEF Configs!PutSecret, Configs!DeleteSecret, Configs!WriteSecret
  <2>2. secret'[n] = IF n = m THEN new ELSE secret[n]
    BY <1>1, <2>1 DEF Configs!TypeOK
  <2>3. n # m
    BY <1>1, <2>1, <2>2 DEF Configs!NoSecret
  <2>4. QED
    BY <2>2, <2>3 DEF RenderedInv, RenderedWholly
<1>4. CASE Configs!ApplySucceeds
  <2>1. configWorker \in Configs!Active
    BY <1>4 DEF Configs!ApplySucceeds, Configs!ReadyToApply, Configs!TypeOK, Configs!Idle
  <2> DEFINE m == SecretName[configWorker.obj.spec]
  <2>2. secret' = [secret EXCEPT ![m] = Configs!Applied(configWorker)]
    BY <1>4 DEF Configs!ApplySucceeds, Configs!Apply, Configs!WriteSecret
  <2>3. secret'[n] = IF n = m THEN Configs!Applied(configWorker) ELSE secret[n]
    BY <1>1, <2>2 DEF Configs!TypeOK
  <2>4. Configs!Applied(configWorker).config \in Configs!Config
    BY <2>1 DEF Configs!Applied, Configs!Config, Configs!Active, Configs!Present
  <2>5. QED
    BY <2>3, <2>4 DEF RenderedInv, RenderedWholly
<1>5. secret' = secret
      \/ (\E m \in Name : Configs!PutSecret(m) \/ Configs!DeleteSecret(m))
      \/ Configs!ApplySucceeds
  <2>1. CASE UNCHANGED vars
    BY <2>1 DEF vars, secretVars
  <2>2. CASE Informers
    BY <2>2 DEF Informers, SyncSecret, OfConfigs, OfPods, secretVars, Configs!SyncSecret,
                Configs!HandleSecretEvent, Configs!store
  <2>3. CASE ResyncConfigs \/ ResyncPods \/ (\E k \in Kubeconfig : RetryConfig(k))
             \/ \E s \in Server : RetryServer(s)
    BY <2>3 DEF ResyncConfigs, ResyncPods, RetryConfig, RetryServer, OfConfigs, OfPods,
                secretVars, Configs!Resync, Configs!Requeue, Configs!store
  <2>4. CASE ConfigController
    BY <2>4 DEF ConfigController, OfConfigs, Configs!Reconcile, Configs!Start,
                Configs!ReadSecret, Configs!ResolveFails, Configs!ApplyIsRefused, Configs!store
  <2>5. CASE \E k \in Kind : PodController(k)
    BY <2>5 DEF PodController, OfPods, secretVars
  <2>6. CASE Users
    BY <2>6 DEF Users, OfConfigs
  <2>7. QED
    BY <2>1, <2>2, <2>3, <2>4, <2>5, <2>6 DEF Next
<1>6. QED
  BY <1>2, <1>3, <1>4, <1>5

\* The informer's copy is what it was, or the secret as it was before the step.
LEMMA CacheFollows ==
    ASSUME Configs!TypeOK, [Next]_vars, NEW n \in Name
    PROVE  secretCache'[n] \in {secretCache[n], secret[n]}
<1>1. ASSUME NEW m \in Name, SyncSecret(m) PROVE secretCache'[n] \in {secretCache[n], secret[n]}
  BY <1>1 DEF SyncSecret, Configs!SyncSecret, Configs!TypeOK
<1>2. secretCache' = secretCache \/ \E m \in Name : SyncSecret(m)
  <2>1. ASSUME UNCHANGED podVars,
               \/ \E m \in Name : Configs!HandleSecretEvent(m) \/ Configs!PutSecret(m)
                                  \/ Configs!DeleteSecret(m)
               \/ \E k \in Kubeconfig : Configs!Requeue(k)
               \/ Configs!Resync \/ Configs!Reconcile
        PROVE  secretCache' = secretCache
    BY <2>1, ConfigsWriteSecrets DEF SecretWritten, secretVars
  <2>2. QED
    BY <2>1 DEF Next, Informers, ResyncConfigs, ResyncPods, RetryConfig, RetryServer,
                ConfigController, PodController, Users, OfConfigs, OfPods, vars, secretVars
<1>3. QED
  BY <1>1, <1>2

LEMMA RenderedNext ==
    ASSUME Configs!TypeOK, (Configs!ConfigComplete)', RenderedInv, [Next]_vars
    PROVE  RenderedInv'
<1> SUFFICES ASSUME NEW n \in Rendered
             PROVE  RenderedWholly(secret'[n]) /\ RenderedWholly(secretCache'[n])
  BY DEF RenderedInv, Rendered, RenderedWholly, Configs!Config, Configs!Content
<1>1. n \in Name
  BY DEF Rendered
<1>2. RenderedWholly(secret'[n])
  <2>1. SUFFICES ASSUME secret'[n].exists PROVE RenderedWholly(secret'[n])
    BY DEF RenderedWholly
  <2>2. secret'[n].config \in Configs!Config
    BY <2>1, RenderedIsConfig
  <2>3. secret'[n].config \notin {NoConfig, Foreign}
    BY <2>2, ClusterAssumption
  <2>4. {r \in Name : secret'[n].config.read[r] # Absent} = ConfigRefs[secret'[n].config.spec]
    BY <1>1, <2>3 DEF Configs!ConfigComplete
  <2>5. QED
    BY <2>2, <2>4 DEF RenderedWholly
<1>3. RenderedWholly(secretCache'[n])
  BY <1>1, CacheFollows DEF RenderedInv
<1>4. QED
  BY <1>2, <1>3

\* What a checksum is taken of, if it is taken of anything, is a kubeconfig with
\* every credential it references.
MountedWholly(c) ==
    c # Absent =>
        /\ c.config # NoConfig
        /\ {r \in Name : c.config.read[r] # Absent} = ConfigRefs[c.config.spec]

MountInv ==
    /\ \A k \in Kind, n \in Rendered : MountedWholly(worker[k].read[n])
    /\ \A d \in Deployment, n \in Rendered : MountedWholly(deployment[d].checksums[n])

LEMMA WhollyMounted ==
    ASSUME NEW o, RenderedWholly(o)
    PROVE  MountedWholly(ContentOf(o)) /\ MountedWholly(Absent)
BY ClusterAssumption DEF RenderedWholly, MountedWholly, ContentOf

\* Where the servers' controllers have contents of secrets from.
LEMMA ReadFromCache ==
    ASSUME Pods!TypeOK, NEW k \in Kind, Pods!Reconcile(k)
    PROVE  /\ \A j \in Kind, n \in Rendered :
                worker'[j].read[n] \in {worker[j].read[n], Absent, ContentOf(secretCache[n])}
           /\ \/ deployment' = deployment
              \/ \E d \in Deployment : \E new :
                   /\ deployment' = [deployment EXCEPT ![d] = new]
                   /\ new.checksums = worker[k].read
<1>1. worker \in [Kind -> Pods!Active \cup {Pods!Idle}]
  BY DEF Pods!TypeOK
<1>2. \A n \in Rendered : Pods!Idle.read[n] = Absent
  BY DEF Pods!Idle, Pods!NoContent
<1>3. CASE \E s \in Server : Pods!Start(k, s)
  <2>1. PICK s \in Server : Pods!Start(k, s)
    BY <1>3
  <2>2. \A j \in Kind : \/ worker'[j] = worker[j]
                        \/ \A n \in Rendered : worker'[j].read[n] = Absent
    BY <1>1, <2>1 DEF Pods!Start, Pods!NoContent
  <2>3. deployment' = deployment
    BY <2>1 DEF Pods!Start, Pods!store
  <2>4. QED
    BY <2>2, <2>3
<1>4. CASE \E r \in Rendered : Pods!ReadSecret(k, r)
  <2>1. PICK r \in Rendered : Pods!ReadSecret(k, r)
    BY <1>4
  <2>2. worker[k] \in Pods!Active
    BY <1>1, <2>1 DEF Pods!ReadSecret, Pods!Idle
  <2>3. worker' = [worker EXCEPT ![k].read[r] = ContentOf(secretCache[r])]
    BY <2>1 DEF Pods!ReadSecret
  <2>4. \A j \in Kind : j # k => worker'[j] = worker[j]
    BY <1>1, <2>3
  <2>5. \A n \in Rendered : worker'[k].read[n] =
          IF n = r THEN ContentOf(secretCache[r]) ELSE worker[k].read[n]
    BY <1>1, <2>2, <2>3 DEF Pods!Active, Pods!Content
  <2>6. deployment' = deployment
    BY <2>1 DEF Pods!ReadSecret, Pods!store
  <2>7. QED
    BY <2>4, <2>5, <2>6
<1>5. ASSUME \/ Pods!BuildError(k) \/ Pods!ApplySucceeds(k) \/ Pods!ApplyIsRefused(k)
             \/ Pods!MirrorAfterError(k) \/ Pods!UpdateAfterError(k) \/ Pods!UpdateAfterApply(k)
      PROVE  \A j \in Kind, n \in Rendered : worker'[j].read[n] \in {worker[j].read[n], Absent}
  <2>1. worker[k] \in Pods!Active
    BY <1>1, <1>5 DEF Pods!BuildError, Pods!ApplySucceeds, Pods!ApplyIsRefused,
       Pods!MirrorAfterError, Pods!UpdateAfterError, Pods!UpdateAfterApply, Pods!ReadyToApply,
       Pods!Idle
  <2>2. CASE worker' = [worker EXCEPT ![k] = Pods!Idle]
    BY <1>1, <1>2, <2>2
  <2>3. CASE \E pc, obj : worker' = [worker EXCEPT ![k].pc = pc, ![k].obj = obj]
    <3>1. \A j \in Kind : worker'[j].read = worker[j].read
      BY <1>1, <2>1, <2>3 DEF Pods!Active
    <3>2. QED
      BY <3>1
  <2>4. QED
    BY <1>5, <2>2, <2>3
    DEF Pods!BuildError, Pods!ApplySucceeds, Pods!ApplyIsRefused,
        Pods!MirrorAfterError, Pods!UpdateAfterError, Pods!UpdateAfterApply
<1>6. CASE Pods!ApplySucceeds(k)
  <2>1. worker[k] \in Pods!Active
    BY <1>1, <1>6 DEF Pods!ApplySucceeds, Pods!ReadyToApply, Pods!Idle
  <2>2. DeploymentOf[worker[k].server] \in Deployment
    BY <2>1, ClusterAssumption DEF Pods!Active
  <2>3. \E new : /\ deployment' = [deployment EXCEPT ![DeploymentOf[worker[k].server]] = new]
                 /\ new.checksums = worker[k].read
    <3> DEFINE w == worker[k]
               new(order) == Pods!Applied(k, w.server, w.obj, w.read, order)
    <3>1. PICK order : Pods!WriteDeployment(DeploymentOf[w.server], new(order))
      BY <1>6 DEF Pods!ApplySucceeds, Pods!Apply
    <3>2. deployment' = [deployment EXCEPT ![DeploymentOf[w.server]] = new(order)]
      BY <3>1 DEF Pods!WriteDeployment
    <3>3. new(order).checksums = w.read
      BY DEF Pods!Applied
    <3>4. QED
      BY <3>2, <3>3
  <2>4. QED
    BY <1>5, <1>6, <2>2, <2>3
<1>7. CASE \/ Pods!BuildError(k) \/ Pods!ApplyIsRefused(k)
           \/ Pods!MirrorAfterError(k) \/ Pods!UpdateAfterError(k) \/ Pods!UpdateAfterApply(k)
  <2>1. deployment' = deployment
    BY <1>7 DEF Pods!BuildError, Pods!ApplyIsRefused, Pods!MirrorAfterError,
                Pods!UpdateAfterError, Pods!UpdateAfterApply, Pods!store
  <2>2. QED
    BY <1>5, <1>7, <2>1
<1>8. QED
  BY <1>3, <1>4, <1>6, <1>7 DEF Pods!Reconcile

LEMMA MountInit == Init => MountInv
<1> SUFFICES ASSUME Init PROVE MountInv
  OBVIOUS
<1>1. \A k \in Kind, n \in Rendered : worker[k].read[n] = Absent
  BY DEF Init, Pods!Init, Pods!Idle, Pods!NoContent
<1>2. \A d \in Deployment, n \in Rendered : deployment[d].checksums[n] = Absent
  BY DEF Init, Pods!Init, Pods!NoDeployment, Pods!NoContent
<1>3. QED
  BY <1>1, <1>2 DEF MountInv, MountedWholly

LEMMA MountNext ==
    ASSUME Pods!TypeOK, RenderedInv, MountInv, [Next]_vars
    PROVE  MountInv'
<1>1. CASE UNCHANGED <<worker, deployment>>
  BY <1>1 DEF MountInv, MountedWholly, Rendered
<1>2. ASSUME NEW k \in Kind, Pods!Reconcile(k) PROVE MountInv'
  <2>1. ASSUME NEW j \in Kind, NEW n \in Rendered PROVE MountedWholly(worker'[j].read[n])
    <3>1. worker'[j].read[n] \in {worker[j].read[n], Absent, ContentOf(secretCache[n])}
      BY <1>2, ReadFromCache
    <3>2. RenderedWholly(secretCache[n])
      BY DEF RenderedInv
    <3>3. QED
      BY <3>1, <3>2, WhollyMounted DEF MountInv
  <2>2. ASSUME NEW d \in Deployment, NEW n \in Rendered
        PROVE  MountedWholly(deployment'[d].checksums[n])
    <3>1. \/ deployment'[d] = deployment[d]
          \/ deployment'[d].checksums = worker[k].read
      BY <1>2, ReadFromCache DEF Pods!TypeOK
    <3>2. QED
      BY <3>1 DEF MountInv
  <2>3. QED
    BY <2>1, <2>2 DEF MountInv, MountedWholly, Rendered
<1>3. UNCHANGED <<worker, deployment>> \/ \E k \in Kind : Pods!Reconcile(k)
  <2>1. CASE UNCHANGED vars
    BY <2>1 DEF vars, podVars
  <2>2. CASE Informers
    BY <2>2 DEF Informers, SyncSecret, OfConfigs, OfPods, podVars, Pods!SyncServer,
                Pods!SyncDeployment, Pods!HandleSecretEvent, Pods!store
  <2>3. CASE ResyncPods \/ \E s \in Server : RetryServer(s)
    BY <2>3 DEF ResyncPods, RetryServer, OfPods, Pods!Resync, Pods!Requeue, Pods!store
  <2>4. CASE ResyncConfigs \/ ConfigController \/ Users \/ \E k \in Kubeconfig : RetryConfig(k)
    BY <2>4 DEF ResyncConfigs, RetryConfig, ConfigController, Users, OfConfigs, podVars
  <2>5. CASE \E k \in Kind : PodController(k)
    BY <2>5 DEF PodController, OfPods
  <2>6. QED
    BY <2>1, <2>2, <2>3, <2>4, <2>5 DEF Next
<1>4. QED
  BY <1>1, <1>2, <1>3

-----------------------------------------------------------------------------
(* The servers' invariants, with secrets that are rendered                 *)

LEMMA ContentType ==
    ASSUME NEW o \in Configs!SecretObject, RenderedWholly(o)
    PROVE  /\ ContentOf(o) \in Contents \cup {Absent}
           /\ ContentOf(o) = Absent <=> ~ o.exists
<1>1. o.exists => [data |-> o.data, config |-> o.config] \in Contents
  BY DEF RenderedWholly, Contents, Configs!SecretObject
<1>2. QED
  BY <1>1, ClusterAssumption DEF ContentOf

LEMMA WrittenTypes ==
    ASSUME PodProofs!TypeOK, (Configs!TypeOK)', RenderedInv', SecretWritten
    PROVE  (PodProofs!TypeOK)'
<1>1. \A n \in Rendered : ContentOf(secret'[n]) \in Contents \cup {Absent}
  <2>1. \A n \in Rendered : RenderedWholly(secret'[n])
    BY DEF RenderedInv, RenderedWholly, Rendered, Configs!Config, Configs!Content
  <2>2. \A n \in Rendered : secret'[n] \in Configs!SecretObject
    BY DEF Configs!TypeOK, Rendered, Configs!SecretObject, Configs!Config, Configs!Content
  <2>3. QED
    BY <2>1, <2>2, ContentType
<1>2. ([n \in Rendered |-> ContentOf(secret[n])])' \in [Rendered -> Contents \cup {Absent}]
  BY <1>1 DEF Rendered, ContentOf
<1>3. (comings \cap Rendered)' \in SUBSET Rendered /\ changes' \in Nat
  BY DEF Configs!TypeOK, Rendered
<1>4. (/\ server \in [Server -> PodProofs!ServerObject]
       /\ serverCache \in [Server -> PodProofs!ServerObject])'
  BY DEF SecretWritten, podVars, PodProofs!TypeOK, PodProofs!ServerObject, PodProofs!Present,
         PodProofs!Gone, PodProofs!Status, PodProofs!NoStatus, PodProofs!DeploymentFailure
<1>5. (/\ deployment \in [Deployment -> PodProofs!DeploymentObject]
       /\ deploymentCache \in [Deployment -> PodProofs!DeploymentObject])'
  BY DEF SecretWritten, podVars, PodProofs!TypeOK, PodProofs!DeploymentObject,
         PodProofs!Content, Contents, Rendered, Configs!Config, Configs!Content
<1>6. (worker \in [Kind -> PodProofs!Active \cup {PodProofs!Idle}])'
  BY DEF SecretWritten, podVars, PodProofs!TypeOK, PodProofs!Active, PodProofs!Pc,
         PodProofs!Idle, PodProofs!NoServerObject, PodProofs!NoContent, PodProofs!Present,
         PodProofs!Status, PodProofs!NoStatus, PodProofs!DeploymentFailure, PodProofs!Content,
         Contents, Rendered, Configs!Config, Configs!Content
<1>7. (/\ [n \in Rendered |-> ContentOf(secret[n])] \in PodProofs!Content
       /\ [n \in Rendered |-> ContentOf(secretCache[n])] \in PodProofs!Content)'
  BY <1>2 DEF SecretWritten, PodProofs!TypeOK, PodProofs!Content, ContentOf, Contents, Rendered,
              Configs!Config, Configs!Content
<1>8. (/\ comings \cap Rendered \in SUBSET Rendered
       /\ deploymentWatch \in [Deployment -> SUBSET Server]
       /\ secretEvent \in SUBSET (Kind \X Rendered)
       /\ queue \in SUBSET Server /\ backoff \in SUBSET Server
       /\ {} \in SUBSET PodProofs!Active
       /\ changes \in Nat /\ 0 \in Nat)'
  BY <1>3 DEF SecretWritten, podVars, PodProofs!TypeOK, Rendered
<1>9. QED
  BY <1>4, <1>5, <1>6, <1>7, <1>8 DEF PodProofs!TypeOK

\* No invariant of the servers' controllers depends on what a secret holds, as
\* long as its coming and going is reported.
LEMMA WrittenVersions == ASSUME PodProofs!VersionInv, SecretWritten PROVE (PodProofs!VersionInv)'
BY DEF SecretWritten, podVars, PodProofs!VersionInv, PodProofs!CacheInv, PodProofs!CopyInv,
       PodProofs!Agrees

LEMMA WrittenWakeups ==
    ASSUME PodProofs!WakeupInv, Configs!TypeOK, (Configs!TypeOK)', RenderedInv, RenderedInv', SecretWritten
    PROVE  (PodProofs!WakeupInv)'
<1>1. (PodProofs!KindInv)'
  BY DEF SecretWritten, podVars, PodProofs!WakeupInv, PodProofs!KindInv
<1>2. (PodProofs!SecretInv)'
  <2>1. SUFFICES ASSUME NEW n \in Rendered, ContentOf(secretCache[n]) # Absent,
                        ContentOf(secret'[n]) = Absent
                 PROVE  n \in comings'
    BY DEF PodProofs!SecretInv, SecretWritten, Rendered, ContentOf
  <2>2. n \in Name
    BY DEF Rendered
  <2>3. ~ secret'[n].exists
    <3>1. RenderedWholly(secret'[n]) /\ secret'[n] \in Configs!SecretObject
      BY <2>2 DEF RenderedInv, RenderedWholly, Rendered, Configs!TypeOK, Configs!SecretObject,
                  Configs!Config, Configs!Content
    <3>2. QED
      BY <2>1, <3>1, ContentType
  <2>4. CASE secret[n].exists
    BY <2>2, <2>3, <2>4 DEF SecretWritten
  <2>5. CASE ~ secret[n].exists
    <3>1. ContentOf(secret[n]) = Absent
      BY <2>5 DEF ContentOf
    <3>2. n \in comings
      BY <2>1, <3>1 DEF PodProofs!WakeupInv, PodProofs!SecretInv
    <3>3. QED
      BY <3>2 DEF SecretWritten
  <2>6. QED
    BY <2>4, <2>5
<1>3. \A s, n : (PodProofs!Provided(s, n))' <=> PodProofs!Provided(s, n)
  BY DEF SecretWritten, podVars, PodProofs!Provided, ContentOf, Rendered
<1>4. (PodProofs!WorkerInv)'
  <2>1. \A k \in Kind : (PodProofs!Follows(worker[k]))' <=> PodProofs!Follows(worker[k])
    BY <1>3 DEF SecretWritten, podVars, PodProofs!Follows, PodProofs!Derives,
                PodProofs!Unread, PodProofs!Rendered
  <2>2. QED
    BY <2>1 DEF SecretWritten, podVars, PodProofs!WakeupInv, PodProofs!WorkerInv
<1>5. (PodProofs!CalmInv)'
  <2>1. \A s \in Server : /\ (PodProofs!Calm(s))' <=> PodProofs!Calm(s)
                          /\ (PodProofs!Alive(s))' <=> PodProofs!Alive(s)
    BY DEF SecretWritten, podVars, PodProofs!Calm, PodProofs!Alive
  <2>2. \A s \in Server : (PodProofs!Settled(s))' <=> PodProofs!Settled(s)
    BY <1>3 DEF SecretWritten, podVars, PodProofs!Settled, PodProofs!Rendered
  <2>3. QED
    BY <2>1, <2>2 DEF PodProofs!WakeupInv, PodProofs!CalmInv
<1>6. QED
  BY <1>1, <1>2, <1>4, <1>5 DEF PodProofs!WakeupInv

PodInv == PodProofs!TypeOK /\ PodProofs!VersionInv /\ PodProofs!WakeupInv

LEMMA PodInvInit == Init => PodInv
<1>1. Init => PodProofs!Init
  BY SamePods DEF Init
<1>2. PodProofs!Init => PodInv
  BY PodAssumptions, PodProofs!TypeInit, PodProofs!VersionInit, PodProofs!WakeupInit DEF PodInv
<1>3. QED
  BY <1>1, <1>2

LEMMA PodInvNext ==
    ASSUME Configs!TypeOK, (Configs!TypeOK)', RenderedInv, RenderedInv', PodInv, [Next]_vars
    PROVE  PodInv'
<1>1. CASE [Pods!Next]_(Pods!vars)
  <2>1. [PodProofs!Next]_(PodProofs!vars)
    BY <1>1, SamePods
  <2>2. (PodProofs!TypeOK)'
    BY <2>1, PodAssumptions, PodProofs!TypeNext DEF PodInv
  <2>3. (PodProofs!VersionInv)'
    BY <2>1, PodAssumptions, PodProofs!VersionNext DEF PodInv
  <2>4. (PodProofs!WakeupInv)'
    BY <2>1, PodAssumptions, PodProofs!WakeupNext DEF PodInv
  <2>5. QED
    BY <2>2, <2>3, <2>4 DEF PodInv
<1>2. CASE SecretWritten
  BY <1>2, WrittenTypes, WrittenVersions, WrittenWakeups DEF PodInv
<1>3. QED
  BY <1>1, <1>2, PodStep

-----------------------------------------------------------------------------
\* What holds of the cluster in every reachable state.
ClusterInv == RenderedInv /\ MountInv /\ PodInv

LEMMA ClusterCorrect == ClusterSpec => []ClusterInv
<1>1. Init => ClusterInv
  BY RenderedInit, MountInit, PodInvInit DEF ClusterInv
<1>2. /\ ClusterInv /\ [Next]_vars
      /\ Configs!TypeOK /\ (Configs!TypeOK)' /\ (Configs!ConfigComplete)'
      => ClusterInv'
  <2> SUFFICES ASSUME ClusterInv, [Next]_vars,
                      Configs!TypeOK, (Configs!TypeOK)', (Configs!ConfigComplete)'
               PROVE  ClusterInv'
    OBVIOUS
  <2>1. RenderedInv'
    BY RenderedNext DEF ClusterInv
  <2>2. Pods!TypeOK
    BY SamePods DEF ClusterInv, PodInv
  <2>3. MountInv'
    BY <2>2, MountNext DEF ClusterInv
  <2>4. PodInv'
    BY <2>1, PodInvNext DEF ClusterInv
  <2>5. QED
    BY <2>1, <2>3, <2>4 DEF ClusterInv
<1>3. QED
  BY <1>1, <1>2, ConfigsAreCorrect, PTL DEF ClusterSpec

\* No component is rolled out with a kubeconfig that lacks a credential,
\* although the secret is collected and rendered anew while the component's
\* controller reads it (resolveConfig, then Resolve and the checksums it sets).
THEOREM MountedConfigsAreComplete == ClusterSpec => []MountedConfigsComplete
<1>1. ClusterInv => MountedConfigsComplete
  BY DEF ClusterInv, MountInv, MountedWholly, MountedConfigsComplete
<1>2. QED
  BY <1>1, ClusterCorrect, PTL

\* Neither controller loses a wake-up: a server at rest is hosted as its spec
\* says and a Kubeconfig at rest is rendered, although what one of them writes
\* is what the others watch (SetupWithManager of each, and the one informer).
THEOREM NoClusterWakeupIsLost == ClusterSpec => []NoLostWakeup
<1>1. ClusterInv => Pods!NoLostWakeup
  <2> SUFFICES ASSUME ClusterInv PROVE Pods!NoLostWakeup
    OBVIOUS
  <2>1. PodProofs!TypeOK /\ PodProofs!WakeupInv
    BY DEF ClusterInv, PodInv
  <2>2. PodProofs!NoLostWakeup
    BY <2>1, PodAssumptions, PodProofs!WakeupImplies
  <2>3. QED
    BY <2>2, SamePods
<1>2. ClusterInv /\ Configs!NoLostWakeup => NoLostWakeup
  BY <1>1 DEF NoLostWakeup
<1>3. QED
  BY <1>2, ClusterCorrect, ConfigsAreCorrect, PTL

=====================================================================================
