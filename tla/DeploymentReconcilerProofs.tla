------------------------- MODULE DeploymentReconcilerProofs -------------------------
(* What holds of DeploymentReconciler for every value of its constants. *)
EXTENDS DeploymentReconciler, TLAPS

USE ConfigAssumption

-----------------------------------------------------------------------------
(* Types of the operators *)

\* The absent objects are values of their types.
LEMMA AbsentTypes ==
    /\ NoStatus \in Status
    /\ NoServerObject \in Gone
    /\ NoContent \in Content
    /\ NoDeployment \in DeploymentObject
<1>1. NoStatus \in Status
  BY DEF NoStatus, Status, DeploymentFailure
<1>2. NoServerObject \in Gone
  BY <1>1 DEF NoServerObject, Gone
<1>3. NoContent \in Content
  BY DEF NoContent, Content
<1>4. NoDeployment \in DeploymentObject
  BY <1>3 DEF NoDeployment, DeploymentObject
<1>5. QED
  BY <1>1, <1>2, <1>3, <1>4

\* An object that exists is a Present one.
LEMMA ExistsIsPresent ==
    ASSUME NEW obj \in ServerObject, obj.exists
    PROVE  obj \in Present
BY DEF ServerObject, Gone

\* mirrorDeploymentStatus and the failure condition change only the status.
LEMMA MirroredType ==
    ASSUME NEW obj \in Present, NEW d \in DeploymentObject
    PROVE  Mirrored(obj, d) \in Present
<1>1. obj.status \in Status
  BY DEF Present
<1>2. [obj.status EXCEPT !.available = d.health, !.observedGeneration = obj.generation] \in Status
  BY <1>1 DEF Status, Present, DeploymentObject
<1>3. QED
  BY <1>2 DEF Present, Mirrored

LEMMA WithFailureType ==
    ASSUME NEW obj \in Present, NEW f \in DeploymentFailure
    PROVE  WithFailure(obj, f) \in Present
<1>1. obj.status \in Status
  BY DEF Present
<1>2. [obj.status EXCEPT !.failure = f] \in Status
  BY <1>1 DEF Status
<1>3. QED
  BY <1>2 DEF Present, WithFailure

\* A status update yields servers, a write of a Deployment yields Deployments.
LEMMA StatusUpdateType ==
    ASSUME TypeOK, NEW s \in Server, NEW obj \in Present
    PROVE  StatusUpdated(s, obj) \in [Server -> ServerObject]
<1>1. server \in [Server -> ServerObject] /\ server[s] \in ServerObject
  BY DEF TypeOK
<1>2. CASE UpdateAccepted(s, obj)
  <2> DEFINE new == [server[s] EXCEPT !.status = obj.status, !.rv = @ + 1]
  <2>1. server[s] \in Present
    BY <1>1, <1>2, ExistsIsPresent DEF UpdateAccepted
  <2>2. new \in Present
    <3>1. obj.status \in Status
      BY DEF Present
    <3>2. server[s].rv \in Nat
      BY <2>1 DEF Present
    <3>3. server[s].rv + 1 \in Nat
      BY <3>2
    <3>4. QED
      BY <2>1, <3>1, <3>3 DEF Present
  <2>3. StatusUpdated(s, obj) \in {server, [server EXCEPT ![s] = new]}
    BY DEF StatusUpdated
  <2> HIDE DEF new
  <2>4. QED
    BY <1>1, <2>2, <2>3 DEF ServerObject
<1>3. CASE ~ UpdateAccepted(s, obj)
  BY <1>1, <1>3 DEF StatusUpdated
<1>4. QED
  BY <1>2, <1>3

LEMMA WriteType ==
    ASSUME TypeOK, NEW d \in Deployment, NEW new \in DeploymentObject, WriteDeployment(d, new)
    PROVE  /\ deployment' \in [Deployment -> DeploymentObject]
           /\ deploymentWatch' \in [Deployment -> SUBSET Server]
<1>1. deployment' \in [Deployment -> DeploymentObject]
  BY DEF TypeOK, WriteDeployment
<1>2. deployment[d] \in DeploymentObject
  BY DEF TypeOK
<1>3. OwnersOf(deployment[d]) \subseteq Server /\ OwnersOf(new) \subseteq Server
  BY <1>2 DEF OwnersOf, DeploymentObject
<1>4. deploymentWatch' \in [Deployment -> SUBSET Server]
  BY <1>3 DEF TypeOK, WriteDeployment
<1>5. QED
  BY <1>1, <1>4

LEMMA ApplyType ==
    ASSUME TypeOK, NEW k \in Kind, NEW w \in Active, Apply(k, w)
    PROVE  /\ deployment' \in [Deployment -> DeploymentObject]
           /\ deploymentWatch' \in [Deployment -> SUBSET Server]
<1>1. w.server \in Server /\ w.obj \in Present /\ w.read \in Content
  BY DEF Active
<1>2. DeploymentOf[w.server] \in Deployment
  BY <1>1
<1>3. deployment[DeploymentOf[w.server]].health \in Health
  BY <1>2 DEF TypeOK, DeploymentObject
<1>4. ASSUME NEW order \in Nat PROVE Applied(k, w.server, w.obj, w.read, order) \in DeploymentObject
  BY <1>1, <1>3 DEF Applied, DeploymentObject, Present
<1>5. RenderedOrders(w.obj.spec) \subseteq Nat
  BY <1>1 DEF RenderedOrders, Present
<1>6. PICK order \in Nat :
        WriteDeployment(DeploymentOf[w.server], Applied(k, w.server, w.obj, w.read, order))
  BY <1>5 DEF Apply
<1>7. QED
  BY <1>2, <1>4, <1>6, WriteType

-----------------------------------------------------------------------------
(* Type correctness *)

LEMMA TypeInit == Init => TypeOK
<1>1. \A x \in Spec : [NoServerObject EXCEPT !.exists = TRUE, !.inc = 1, !.rv = 1,
                          !.generation = 1, !.spec = x] \in Present
  BY AbsentTypes DEF NoServerObject, Present
<1>2. SUFFICES ASSUME Init PROVE TypeOK
  OBVIOUS
<1>3. server \in [Server -> ServerObject] /\ serverCache \in [Server -> ServerObject]
  <2>1. {NoServerObject} \cup {[NoServerObject EXCEPT !.exists = TRUE, !.inc = 1, !.rv = 1,
           !.generation = 1, !.spec = x] : x \in Spec} \subseteq ServerObject
    BY <1>1, AbsentTypes DEF ServerObject
  <2>2. QED
    BY <1>2, <2>1 DEF Init
<1>4. deployment \in [Deployment -> DeploymentObject]
  /\ deploymentCache \in [Deployment -> DeploymentObject]
  BY <1>2, AbsentTypes DEF Init
<1>5. QED
  BY <1>2, <1>3, <1>4 DEF Init, TypeOK

\* Event delivery leaves the API server's objects and the workers alone.
LEMMA TypeDeliver == TypeOK /\ Deliver => TypeOK'
<1> SUFFICES ASSUME TypeOK, Deliver PROVE TypeOK'
  OBVIOUS
<1>1. ASSUME NEW s \in Server, SyncServer(s) PROVE TypeOK'
  BY <1>1 DEF TypeOK, SyncServer, store, bounds, watches
<1>2. ASSUME NEW s \in Server, Requeue(s) PROVE TypeOK'
  BY <1>2 DEF TypeOK, Requeue, store, caches, bounds, watches
<1>3. ASSUME NEW r \in Secret, SyncSecret(r) PROVE TypeOK'
  BY <1>3 DEF TypeOK, SyncSecret, store, bounds, Content
<1>4. ASSUME NEW r \in Secret, NEW k \in Kind, HandleSecretEvent(k, r) PROVE TypeOK'
  BY <1>4 DEF TypeOK, HandleSecretEvent, Referencing, store, caches, bounds, watches
<1>5. ASSUME NEW d \in Deployment, SyncDeployment(d) PROVE TypeOK'
  BY <1>5 DEF TypeOK, SyncDeployment, store, bounds
<1>6. CASE Resync
  <2>1. \A d \in Deployment : OwnersOf(deploymentCache[d]) \subseteq Server
    BY DEF TypeOK, OwnersOf, DeploymentObject
  <2>2. queue' \subseteq Server
    BY <1>6, <2>1 DEF Resync, TypeOK
  <2>3. QED
    BY <1>6, <2>2 DEF Resync, TypeOK, store, caches, bounds, watches
<1>7. QED
  BY <1>1, <1>2, <1>3, <1>4, <1>5, <1>6 DEF Deliver

LEMMA WorkerType ==
    ASSUME TypeOK, NEW k \in Kind, worker[k].pc # "idle"
    PROVE  /\ worker[k] \in Active
           /\ worker[k].server \in Server
           /\ worker[k].obj \in Present
           /\ DeploymentOf[worker[k].server] \in Deployment
BY DEF TypeOK, Active, Idle

\* A step of a worker that only advances the worker keeps its type.
LEMMA WorkerStepType ==
    ASSUME TypeOK, NEW k \in Kind, worker[k].pc # "idle",
           NEW pc \in Pc, NEW obj \in Present
    PROVE  [worker EXCEPT ![k].pc = pc, ![k].obj = obj] \in [Kind -> Active \cup {Idle}]
<1>1. worker[k] \in Active
  BY WorkerType
<1>2. [worker[k] EXCEPT !.pc = pc, !.obj = obj] \in Active
  BY <1>1 DEF Active
<1>3. [worker EXCEPT ![k].pc = pc, ![k].obj = obj]
        = [worker EXCEPT ![k] = [worker[k] EXCEPT !.pc = pc, !.obj = obj]]
  BY DEF TypeOK
<1>4. QED
  BY <1>2, <1>3 DEF TypeOK

LEMMA TypeReconcile ==
    ASSUME TypeOK, NEW k \in Kind, Reconcile(k) \/ ApplyFails(k) \/ UpdateFails(k)
    PROVE  TypeOK'
<1>1. ASSUME NEW s \in Server, Start(k, s) PROVE TypeOK'
  <2>1. serverCache[s].exists => serverCache[s] \in Present
    BY ExistsIsPresent DEF TypeOK
  <2>2. serverCache[s].exists =>
          [pc |-> "build", server |-> s, obj |-> serverCache[s], read |-> NoContent] \in Active
    BY <2>1, AbsentTypes DEF Active, Pc
  <2>3. worker' \in [Kind -> Active \cup {Idle}]
    BY <1>1, <2>2 DEF Start, TypeOK
  <2>4. QED
    BY <1>1, <2>3 DEF Start, TypeOK, store, caches, bounds, watches
<1>2. ASSUME NEW r \in Secret, ReadSecret(k, r) PROVE TypeOK'
  <2>1. worker[k] \in Active
    BY <1>2, WorkerType DEF ReadSecret
  <2>2. secretCache[r] \in Data \cup {Absent}
    BY DEF TypeOK, Content
  <2>3. [worker[k] EXCEPT !.read[r] = secretCache[r]] \in Active
    BY <2>1, <2>2 DEF Active, Content
  <2>4. worker' = [worker EXCEPT ![k] = [worker[k] EXCEPT !.read[r] = secretCache[r]]]
    BY <1>2, <2>1 DEF ReadSecret, TypeOK
  <2>5. QED
    BY <1>2, <2>3, <2>4 DEF ReadSecret, TypeOK, store, caches, events, bounds, watches
<1>3. CASE BuildError(k)
  <2>1. worker[k].pc # "idle" /\ worker[k].obj \in Present
    BY <1>3, WorkerType DEF BuildError
  <2>2. WithFailure(worker[k].obj, "True") \in Present
    BY <2>1, WithFailureType DEF DeploymentFailure
  <2>3. QED
    BY <1>3, <2>1, <2>2, WorkerStepType
    DEF BuildError, TypeOK, store, caches, events, bounds, watches, Pc
<1>4. CASE ApplySucceeds(k)
  <2>1. worker[k] \in Active /\ worker[k].obj \in Present
    BY <1>4, WorkerType DEF ApplySucceeds, ReadyToApply
  <2>2. deployment[DeploymentOf[worker[k].server]] \in DeploymentObject
    BY <2>1 DEF TypeOK, Active
  <2>3. Mirrored(WithFailure(worker[k].obj, "False"), deployment[DeploymentOf[worker[k].server]])
          \in Present
    BY <2>1, <2>2, WithFailureType, MirroredType DEF DeploymentFailure
  <2>4. worker' \in [Kind -> Active \cup {Idle}]
    BY <1>4, <2>3, WorkerStepType DEF ApplySucceeds, ReadyToApply, Pc
  <2>5. QED
    BY <1>4, <2>1, <2>4, ApplyType
    DEF ApplySucceeds, TypeOK, caches, events, bounds
<1>5. CASE ApplyIsRefused(k)
  <2>1. worker[k].pc # "idle" /\ worker[k].obj \in Present
    BY <1>5, WorkerType DEF ApplyIsRefused, ReadyToApply
  <2>2. WithFailure(worker[k].obj, "Unknown") \in Present
    BY <2>1, WithFailureType DEF DeploymentFailure
  <2>3. QED
    BY <1>5, <2>1, <2>2, WorkerStepType
    DEF ApplyIsRefused, TypeOK, store, caches, events, bounds, watches, Pc
<1>6. CASE MirrorAfterError(k)
  <2>1. worker[k].pc # "idle" /\ worker[k] \in Active /\ worker[k].obj \in Present
    BY <1>6, WorkerType DEF MirrorAfterError
  <2>2. deploymentCache[DeploymentOf[worker[k].server]] \in DeploymentObject
    BY <2>1 DEF TypeOK, Active
  <2>3. Mirrored(worker[k].obj, deploymentCache[DeploymentOf[worker[k].server]]) \in Present
    BY <2>1, <2>2, MirroredType
  <2>4. worker' \in [Kind -> Active \cup {Idle}]
    BY <1>6, <2>1, <2>3, WorkerStepType DEF MirrorAfterError, Pc
  <2>5. QED
    BY <1>6, <2>4 DEF MirrorAfterError, TypeOK, store, caches, events, bounds, watches
<1>7. CASE UpdateAfterError(k) \/ UpdateAfterApply(k) \/ UpdateFails(k)
  <2>1. worker[k].server \in Server /\ worker[k].obj \in Present
    BY <1>7, WorkerType DEF UpdateAfterError, UpdateAfterApply, UpdateFails
  <2>2. server' \in [Server -> ServerObject]
    BY <1>7, <2>1, StatusUpdateType DEF UpdateAfterError, UpdateAfterApply, UpdateFails, TypeOK
  <2>3. worker' \in [Kind -> Active \cup {Idle}] /\ backoff' \subseteq Server
    BY <1>7, <2>1 DEF UpdateAfterError, UpdateAfterApply, UpdateFails, TypeOK
  <2>4. QED
    BY <1>7, <2>2, <2>3
    DEF UpdateAfterError, UpdateAfterApply, UpdateFails, TypeOK, caches, watches, bounds
<1>8. CASE ApplyFails(k)
  <2>1. worker[k] \in Active /\ worker[k].obj \in Present
    BY <1>8, WorkerType DEF ApplyFails, ReadyToApply
  <2>2. WithFailure(worker[k].obj, "Unknown") \in Present
    BY <2>1, WithFailureType DEF DeploymentFailure
  <2>3. worker' \in [Kind -> Active \cup {Idle}]
    BY <1>8, <2>2, WorkerStepType DEF ApplyFails, ReadyToApply, Pc
  <2>4. /\ deployment' \in [Deployment -> DeploymentObject]
        /\ deploymentWatch' \in [Deployment -> SUBSET Server]
    BY <1>8, <2>1, ApplyType DEF ApplyFails, TypeOK
  <2>5. QED
    BY <1>8, <2>1, <2>3, <2>4 DEF ApplyFails, TypeOK, caches, events
<1>9. QED
  BY <1>1, <1>2, <1>3, <1>4, <1>5, <1>6, <1>7, <1>8 DEF Reconcile

LEMMA TypeCrash == TypeOK /\ Crash => TypeOK'
<1> SUFFICES ASSUME TypeOK, Crash PROVE TypeOK'
  OBVIOUS
<1>1. \A k \in Kind : Sending(worker[k]) => worker[k] \in Active
  BY WorkerType DEF Sending, ReadyToApply
<1>2. late' \subseteq Active
  BY <1>1 DEF Crash, TypeOK
<1>3. \A d \in Deployment : OwnersOf(deployment[d]) \subseteq Server
  BY DEF TypeOK, OwnersOf, DeploymentObject
<1>4. queue' \subseteq Server
  BY <1>3 DEF Crash
<1>5. QED
  BY <1>2, <1>4 DEF Crash, TypeOK, store

LEMMA TypeLand == ASSUME TypeOK, NEW w \in late, LandLate(w) PROVE TypeOK'
<1>1. w \in Active /\ w.server \in Server /\ w.obj \in Present
  BY DEF TypeOK, Active
<1>2. KindOf[w.server] \in Kind
  BY <1>1
<1>3. server' \in [Server -> ServerObject]
  BY <1>1, StatusUpdateType DEF LandLate, TypeOK
<1>4. /\ deployment' \in [Deployment -> DeploymentObject]
      /\ deploymentWatch' \in [Deployment -> SUBSET Server]
  BY <1>1, <1>2, ApplyType DEF LandLate, TypeOK
<1>5. QED
  BY <1>3, <1>4 DEF LandLate, TypeOK, caches, events, bounds

LEMMA RemovedType ==
    ASSUME TypeOK, NEW s \in Server
    PROVE  Removed(s) \in [Server -> ServerObject]
<1>1. server[s].inc \in Nat /\ server[s].rv \in Nat
  BY DEF TypeOK, ServerObject, Present, Gone
<1>2. server[s].rv + 1 \in Nat
  BY <1>1
<1>3. [NoServerObject EXCEPT !.inc = server[s].inc, !.rv = server[s].rv + 1] \in Gone
  BY <1>1, <1>2, AbsentTypes DEF Gone
<1>4. QED
  BY <1>3 DEF Removed, TypeOK, ServerObject

LEMMA TypeServerChange ==
    ASSUME TypeOK, NEW s \in Server,
           CreateServer(s) \/ EditSpec(s) \/ DeleteServer(s) \/ DeleteForeground(s)
    PROVE  server' \in [Server -> ServerObject]
<1> server[s].inc \in Nat /\ server[s].rv \in Nat
  BY DEF TypeOK, ServerObject, Present, Gone
<1>1. server[s].inc + 1 \in Nat /\ server[s].rv + 1 \in Nat
  OBVIOUS
<1>2. CASE CreateServer(s)
  <2>1. PICK x \in Spec :
          server' = [server EXCEPT ![s] = [exists |-> TRUE, inc |-> @.inc + 1, rv |-> @.rv + 1,
                       generation |-> 1, spec |-> x, deleting |-> FALSE, status |-> NoStatus]]
    BY <1>2 DEF CreateServer
  <2>2. [exists |-> TRUE, inc |-> server[s].inc + 1, rv |-> server[s].rv + 1,
         generation |-> 1, spec |-> x, deleting |-> FALSE, status |-> NoStatus] \in Present
    BY <1>1, AbsentTypes DEF Present
  <2>3. QED
    BY <2>1, <2>2 DEF TypeOK, ServerObject
<1>3. CASE EditSpec(s)
  <2>1. server[s] \in Present
    BY <1>3, ExistsIsPresent DEF EditSpec, TypeOK
  <2> server[s].generation \in Nat
    BY <2>1 DEF Present
  <2>2. server[s].generation + 1 \in Nat
    OBVIOUS
  <2>3. PICK x \in Spec : server' = [server EXCEPT ![s].spec = x, ![s].rv = @ + 1,
                                                   ![s].generation = @ + 1]
    BY <1>3 DEF EditSpec
  <2>4. [server[s] EXCEPT !.spec = x, !.rv = @ + 1, !.generation = @ + 1] \in Present
    BY <1>1, <2>1, <2>2 DEF Present
  <2>5. QED
    BY <2>3, <2>4 DEF TypeOK, ServerObject
<1>4. CASE DeleteServer(s)
  BY <1>4, RemovedType DEF DeleteServer
<1>5. CASE DeleteForeground(s)
  <2>1. server[s] \in Present
    BY <1>5, ExistsIsPresent DEF DeleteForeground, TypeOK
  <2> server[s].generation \in Nat
    BY <2>1 DEF Present
  <2>2. server[s].generation + 1 \in Nat
    OBVIOUS
  <2>3. [server[s] EXCEPT !.deleting = TRUE, !.rv = @ + 1, !.generation = @ + 1] \in Present
    BY <1>1, <2>1, <2>2 DEF Present
  <2>4. QED
    BY <1>5, <2>3 DEF DeleteForeground, TypeOK, ServerObject
<1>6. QED
  BY <1>2, <1>3, <1>4, <1>5

LEMMA TypeEnvironment == TypeOK /\ Environment => TypeOK'
<1> SUFFICES ASSUME TypeOK, Environment PROVE TypeOK'
  OBVIOUS
<1>1. ASSUME NEW s \in Server,
             CreateServer(s) \/ EditSpec(s) \/ DeleteServer(s) \/ DeleteForeground(s)
      PROVE  TypeOK'
  <2>1. server' \in [Server -> ServerObject]
    BY <1>1, TypeServerChange
  <2>2. Change /\ UNCHANGED <<secret, deployment, watches>>
    BY <1>1 DEF CreateServer, EditSpec, DeleteServer, DeleteForeground
  <2>3. QED
    BY <2>1, <2>2 DEF Change, TypeOK, caches, events, watches
<1>2. ASSUME NEW r \in Secret, SetSecret(r) PROVE TypeOK'
  BY <1>2 DEF SetSecret, Change, TypeOK, Content, caches, events
<1>3. ASSUME NEW d \in Deployment, ReportHealth(d) \/ DeleteDeployment(d) \/ ForeignEdit(d)
      PROVE  TypeOK'
  <2>1. deployment[d] \in DeploymentObject
    BY DEF TypeOK
  <2>2. \A h \in Health : [deployment[d] EXCEPT !.health = h] \in DeploymentObject
    BY <2>1 DEF DeploymentObject
  <2>3. [deployment[d] EXCEPT !.exists = TRUE, !.manager = Foreign] \in DeploymentObject
    BY <2>1 DEF DeploymentObject
  <2>4. /\ deployment' \in [Deployment -> DeploymentObject]
        /\ deploymentWatch' \in [Deployment -> SUBSET Server]
    BY <1>3, <2>2, <2>3, AbsentTypes, WriteType DEF ReportHealth, DeleteDeployment, ForeignEdit
  <2>5. QED
    BY <1>3, <2>4 DEF ReportHealth, DeleteDeployment, ForeignEdit, Change,
                      TypeOK, caches, events
<1>4. QED
  BY <1>1, <1>2, <1>3 DEF Environment

LEMMA TypeCollect == TypeOK /\ Collect => TypeOK'
<1> SUFFICES ASSUME TypeOK, Collect PROVE TypeOK'
  OBVIOUS
<1>1. ASSUME NEW d \in Deployment, CollectGarbage(d) PROVE TypeOK'
  BY <1>1, AbsentTypes, WriteType DEF CollectGarbage, TypeOK, caches, events, bounds
<1>2. ASSUME NEW s \in Server, FinishDeletion(s) PROVE TypeOK'
  BY <1>2, RemovedType DEF FinishDeletion, TypeOK, caches, events, watches, bounds
<1>3. QED
  BY <1>1, <1>2 DEF Collect

LEMMA TypeNext == TypeOK /\ [Next]_vars => TypeOK'
<1> SUFFICES ASSUME TypeOK, [Next]_vars PROVE TypeOK'
  OBVIOUS
<1>1. CASE UNCHANGED vars
  BY <1>1 DEF TypeOK, vars, store, caches, watches, events, bounds
<1>2. CASE Next
  BY <1>2, TypeDeliver, TypeReconcile, TypeCrash, TypeLand, TypeEnvironment, TypeCollect
  DEF Next
<1>3. QED
  BY <1>1, <1>2

\* Every variable has its type in every reachable state; in particular a worker
\* that holds an object holds one that exists and has a spec to render.
THEOREM TypeCorrect == ReconcilerSpec => []TypeOK
<1>1. QED
  BY TypeInit, TypeNext, PTL DEF ReconcilerSpec

=====================================================================================
