--------------------------- MODULE ReconcilerWakeupProofs ---------------------------
(***************************************************************************)
(* No live server is left asleep with anything still to be done for it,    *)
(* and a status that says "Applied" is true or about to be repaired.       *)
(*                                                                         *)
(* Whatever changes is carried to a reconcile by a watch, an event, the    *)
(* queue, the back-off or a worker that has not finished.  The invariants  *)
(* say what each carrier guarantees; the lemmas before them, that no step  *)
(* drops what is on a carrier without handing it to the next one.          *)
(***************************************************************************)
EXTENDS ReconcilerSafetyProofs

-----------------------------------------------------------------------------
(* The invariants                                                          *)

\* A controller reconciles servers of its own kind only.
KindInv == \A k \in Kind : worker[k].pc # "idle" => KindOf[worker[k].server] = k

\* The deletion of a secret the informer still has is on its way.
SecretInv ==
    \A r \in Secret : secretCache[r] # Absent /\ secret[r] = Absent => r \in secretWatch

\* Every secret the spec references is in the cache, or its deletion is being handled.
Provided(s, r) == secretCache[r] # Absent \/ <<KindOf[s], r>> \in secretEvent

\* The Deployment of s is the one rendered from obj, and obj's status says so.
Rendered(s, obj) ==
    LET d == deployment[DeploymentOf[s]]
    IN  /\ d.exists
        /\ d.manager = KindOf[s]
        /\ d.owner = s
        /\ d.inc = obj.inc
        /\ d.spec = obj.spec
        /\ d.health = obj.status.available

\* What a worker holds is still what it would get from the cache, and what it has
\* done still stands: if not, the server is queued again.
Follows(w) ==
    /\ Derives(w.obj, serverCache[w.server])
    /\ \A r \in Refs[w.obj.spec] : w.read[r] # Absent => Provided(w.server, r)
    /\ w.pc = "updateApplied" =>
         /\ Unread(w) = {}
         /\ w.obj.status.failure = "False"
         /\ w.obj.status.observedGeneration = w.obj.generation
         /\ \/ w.server \in deploymentWatch[DeploymentOf[w.server]]
            \/ Rendered(w.server, w.obj)

WorkerInv ==
    \A k \in Kind : /\ worker[k].pc \in {"build", "updateApplied"}
                    /\ worker[k].server \notin queue
                    => Follows(worker[k])

\* Nothing is on its way to s, events of secrets apart.
Calm(s) ==
    /\ serverCache[s] = server[s]
    /\ s \notin deploymentWatch[DeploymentOf[s]]
    /\ s \notin queue \cup backoff
    /\ worker[KindOf[s]].server # s

Settled(s) ==
    /\ Rendered(s, server[s])
    /\ server[s].status.failure = "False"
    /\ server[s].status.observedGeneration = server[s].generation
    /\ \A r \in Refs[server[s].spec] : Provided(s, r)

CalmInv == \A s \in Server : Alive(s) /\ Calm(s) => Settled(s)

WakeupInv == KindInv /\ SecretInv /\ WorkerInv /\ CalmInv

-----------------------------------------------------------------------------
(* Where a step leaves what is on its way                                  *)

LEMMA WriteWatched ==
    ASSUME TypeOK, NEW e \in Deployment, NEW new, WriteDeployment(e, new), NEW d \in Deployment
    PROVE  /\ deploymentWatch[d] \subseteq deploymentWatch'[d]
           /\ \/ deployment'[d] = deployment[d]
              \/ /\ OwnersOf(deployment[d]) \subseteq deploymentWatch'[d]
                 /\ OwnersOf(deployment'[d]) \subseteq deploymentWatch'[d]
<1>1. CASE d = e
  <2>1. deployment'[d] = new
    BY <1>1 DEF WriteDeployment, TypeOK
  <2>2. CASE new = deployment[e]
    BY <1>1, <2>1, <2>2 DEF WriteDeployment
  <2>3. CASE new # deployment[e]
    <3>1. deploymentWatch'[d] = deploymentWatch[d] \cup OwnersOf(deployment[e]) \cup OwnersOf(new)
      BY <1>1, <2>3 DEF WriteDeployment, TypeOK
    <3>2. QED
      BY <1>1, <2>1, <3>1
  <2>4. QED
    BY <2>2, <2>3
<1>2. CASE d # e
  BY <1>2 DEF WriteDeployment, TypeOK
<1>3. QED
  BY <1>1, <1>2

LEMMA ApplyWatched ==
    ASSUME TypeOK, NEW k \in Kind, NEW w, DeploymentOf[w.server] \in Deployment, Apply(k, w),
           NEW d \in Deployment
    PROVE  /\ deploymentWatch[d] \subseteq deploymentWatch'[d]
           /\ \/ deployment'[d] = deployment[d]
              \/ /\ OwnersOf(deployment[d]) \subseteq deploymentWatch'[d]
                 /\ OwnersOf(deployment'[d]) \subseteq deploymentWatch'[d]
<1>1. PICK order : WriteDeployment(DeploymentOf[w.server],
                                   Applied(k, w.server, w.obj, w.read, order))
  BY DEF Apply
<1>2. QED
  BY <1>1, WriteWatched

\* Whoever owned a Deployment before or after a change of it will be told.
DeploymentsWatched ==
    \A d \in Deployment :
        \/ deployment'[d] = deployment[d]
        \/ /\ OwnersOf(deployment[d]) \subseteq deploymentWatch'[d]
           /\ OwnersOf(deployment'[d]) \subseteq deploymentWatch'[d]

\* An owner to be told is told, and then queued.
WatchesDelivered ==
    \A d \in Deployment : deploymentWatch[d] \subseteq deploymentWatch'[d] \cup queue'

\* A queued server stays queued until its worker takes it; a back-off ends in the queue.
QueuesServed ==
    \A s \in Server : /\ s \in queue => s \in queue' \/ Start(KindOf[s], s)
                      /\ s \in backoff => s \in backoff' \cup queue'

\* A secret leaves the cache with an event for every controller, and the event
\* queues the servers that reference the secret.
SecretsHandled ==
    \A k \in Kind, r \in Secret :
        /\ secretCache[r] # Absent /\ secretCache'[r] = Absent => <<k, r>> \in secretEvent'
        /\ <<k, r>> \in secretEvent =>
              \/ <<k, r>> \in secretEvent'
              \/ Referencing(k, r) \subseteq queue' /\ secretCache' = secretCache

\* A new copy of a server queues it.
CachesFollowed ==
    \A s \in Server : serverCache'[s] = serverCache[s] \/ s \in queue'

Carried == /\ DeploymentsWatched /\ WatchesDelivered /\ QueuesServed
           /\ SecretsHandled /\ CachesFollowed

LEMMA QuietlyCarried ==
    ASSUME UNCHANGED <<deployment, deploymentWatch, queue, backoff, secretCache, secretEvent,
                       serverCache>>
    PROVE  Carried
BY DEF Carried, DeploymentsWatched, WatchesDelivered, QueuesServed, SecretsHandled,
       CachesFollowed

LEMMA DeliverCarries ==
    ASSUME TypeOK, SecretInv, Deliver
    PROVE  Carried
<1>1. ASSUME NEW s \in Server, SyncServer(s) PROVE Carried
  BY <1>1 DEF Carried, DeploymentsWatched, WatchesDelivered, QueuesServed, SecretsHandled,
              CachesFollowed, SyncServer, store, watches, TypeOK
<1>2. ASSUME NEW s \in Server, Requeue(s) PROVE Carried
  BY <1>2 DEF Carried, DeploymentsWatched, WatchesDelivered, QueuesServed, SecretsHandled,
              CachesFollowed, Requeue, store, caches, watches
<1>3. ASSUME NEW r \in Secret, SyncSecret(r) PROVE Carried
  <2>1. SecretsHandled
    <3>1. SUFFICES ASSUME NEW k \in Kind, NEW q \in Secret,
                          secretCache[q] # Absent, secretCache'[q] = Absent
                   PROVE  <<k, q>> \in secretEvent'
      BY <1>3 DEF SecretsHandled, SyncSecret
    <3>2. q = r /\ secret[r] = Absent
      BY <1>3, <3>1 DEF SyncSecret, TypeOK, Content
    <3>3. r \in secretWatch
      BY <3>1, <3>2 DEF SecretInv
    <3>4. QED
      BY <1>3, <3>2, <3>3 DEF SyncSecret
  <2>2. QED
    BY <1>3, <2>1 DEF Carried, DeploymentsWatched, WatchesDelivered, QueuesServed,
                      CachesFollowed, SyncSecret, store
<1>4. ASSUME NEW r \in Secret, NEW k \in Kind, HandleSecretEvent(k, r) PROVE Carried
  BY <1>4 DEF Carried, DeploymentsWatched, WatchesDelivered, QueuesServed, SecretsHandled,
              CachesFollowed, HandleSecretEvent, store, caches, watches
<1>5. ASSUME NEW d \in Deployment, SyncDeployment(d) PROVE Carried
  BY <1>5 DEF Carried, DeploymentsWatched, WatchesDelivered, QueuesServed, SecretsHandled,
              CachesFollowed, SyncDeployment, store, TypeOK
<1>6. CASE Resync
  BY <1>6 DEF Carried, DeploymentsWatched, WatchesDelivered, QueuesServed, SecretsHandled,
              CachesFollowed, Resync, store, caches, watches
<1>7. QED
  BY <1>1, <1>2, <1>3, <1>4, <1>5, <1>6 DEF Deliver

LEMMA WriteCarries ==
    ASSUME \A d \in Deployment :
             /\ deploymentWatch[d] \subseteq deploymentWatch'[d]
             /\ \/ deployment'[d] = deployment[d]
                \/ /\ OwnersOf(deployment[d]) \subseteq deploymentWatch'[d]
                   /\ OwnersOf(deployment'[d]) \subseteq deploymentWatch'[d],
           UNCHANGED <<queue, backoff, secretCache, secretEvent, serverCache>>
    PROVE  Carried
BY DEF Carried, DeploymentsWatched, WatchesDelivered, QueuesServed, SecretsHandled,
       CachesFollowed

LEMMA WorkerCarries ==
    ASSUME TypeOK, NEW k \in Kind, Reconcile(k) \/ ApplyFails(k) \/ UpdateFails(k)
    PROVE  Carried
<1>1. ASSUME NEW s \in Server, Start(k, s) PROVE Carried
  BY <1>1 DEF Carried, DeploymentsWatched, WatchesDelivered, QueuesServed, SecretsHandled,
              CachesFollowed, Start, store, caches, watches
<1>2. CASE ApplySucceeds(k) \/ ApplyFails(k)
  <2>1. DeploymentOf[worker[k].server] \in Deployment
    BY <1>2, WorkerType DEF ApplySucceeds, ApplyFails, ReadyToApply
  <2>2. UNCHANGED <<queue, backoff, secretCache, secretEvent, serverCache>>
    BY <1>2 DEF ApplySucceeds, ApplyFails, caches, events
  <2>3. CASE UNCHANGED <<deployment, deploymentWatch>>
    BY <2>2, <2>3, QuietlyCarried
  <2>4. CASE Apply(k, worker[k])
    BY <2>1, <2>2, <2>4, ApplyWatched, WriteCarries
  <2>5. QED
    BY <1>2, <2>3, <2>4 DEF ApplySucceeds, ApplyFails
<1>3. ASSUME NEW r \in Secret, ReadSecret(k, r) PROVE Carried
  BY <1>3, QuietlyCarried DEF ReadSecret, store, caches, watches, events
<1>4. CASE BuildError(k) \/ ApplyIsRefused(k) \/ MirrorAfterError(k)
  BY <1>4, QuietlyCarried DEF BuildError, ApplyIsRefused, MirrorAfterError, store, caches,
                              watches, events
<1>5. CASE UpdateAfterError(k) \/ UpdateAfterApply(k) \/ UpdateFails(k)
  BY <1>5 DEF Carried, DeploymentsWatched, WatchesDelivered, QueuesServed, SecretsHandled,
              CachesFollowed, UpdateAfterError, UpdateAfterApply, UpdateFails, caches, watches
<1>6. QED
  BY <1>1, <1>2, <1>3, <1>4, <1>5 DEF Reconcile

\* Only a crash drops what is on its way, and it queues every server there is.
LEMMA StepCarries ==
    ASSUME TypeOK, SecretInv, [Next]_vars, ~ Crash
    PROVE  Carried
<1>1. CASE UNCHANGED vars
  BY <1>1, QuietlyCarried DEF vars, store, caches, watches, events
<1>2. ASSUME NEW w \in late, LandLate(w) PROVE Carried
  <2>1. /\ UNCHANGED <<queue, backoff, secretCache, secretEvent, serverCache>>
        /\ w.server \in Server
    BY <1>2, VersionTypes DEF LandLate, caches, events
  <2>2. CASE UNCHANGED <<deployment, deploymentWatch>>
    BY <2>1, <2>2, QuietlyCarried
  <2>3. CASE Apply(KindOf[w.server], w)
    <3>1. KindOf[w.server] \in Kind /\ DeploymentOf[w.server] \in Deployment
      BY <2>1, ConfigAssumption
    <3>2. QED
      BY <2>1, <2>3, <3>1, ApplyWatched, WriteCarries
  <2>4. QED
    BY <1>2, <2>2, <2>3 DEF LandLate
<1>3. CASE Environment \/ Collect
  <2>1. ASSUME NEW s \in Server,
               CreateServer(s) \/ EditSpec(s) \/ DeleteServer(s) \/ DeleteForeground(s)
                 \/ FinishDeletion(s)
        PROVE  Carried
    BY <2>1, QuietlyCarried DEF CreateServer, EditSpec, DeleteServer, DeleteForeground,
                                FinishDeletion, Change, caches, watches, events
  <2>2. ASSUME NEW r \in Secret, SetSecret(r) PROVE Carried
    BY <2>2, QuietlyCarried DEF SetSecret, Change, caches, events
  <2>3. ASSUME NEW d \in Deployment,
               ReportHealth(d) \/ DeleteDeployment(d) \/ ForeignEdit(d) \/ CollectGarbage(d)
        PROVE  Carried
    <3>1. \E new : WriteDeployment(d, new)
      BY <2>3 DEF ReportHealth, DeleteDeployment, ForeignEdit, CollectGarbage
    <3>2. UNCHANGED <<queue, backoff, secretCache, secretEvent, serverCache>>
      BY <2>3 DEF ReportHealth, DeleteDeployment, ForeignEdit, CollectGarbage, Change,
                  caches, events
    <3>3. QED
      BY <3>1, <3>2, WriteWatched, WriteCarries
  <2>4. QED
    BY <1>3, <2>1, <2>2, <2>3 DEF Environment, Collect
<1>4. QED
  BY <1>1, <1>2, <1>3, DeliverCarries, WorkerCarries DEF Next

-----------------------------------------------------------------------------
(* What a step does to a worker                                            *)

\* The steps of Next that move a worker, and what they leave of it.
WorkerMoves(k) ==
    \/ worker'[k] = worker[k]
    \/ \E s \in Server :
         /\ Start(k, s)
         /\ serverCache[s].exists /\ ~ serverCache[s].deleting
         /\ worker'[k] = [pc |-> "build", server |-> s, obj |-> serverCache[s],
                          read |-> NoContent]
    \/ \E r \in Secret :
         /\ ReadSecret(k, r)
         /\ worker'[k] = [worker[k] EXCEPT !.read[r] = secretCache[r]]
    \/ /\ BuildError(k) \/ ApplyIsRefused(k) \/ ApplyFails(k) \/ MirrorAfterError(k)
       /\ worker'[k].pc \in {"mirror", "updateFailed"}
       /\ worker'[k].server = worker[k].server
    \/ /\ ApplySucceeds(k)
       /\ worker'[k] = [worker[k] EXCEPT !.pc = "updateApplied",
              !.obj = Mirrored(WithFailure(worker[k].obj, "False"),
                               deployment[DeploymentOf[worker[k].server]])]
    \/ /\ worker[k].server \in backoff'
       /\ worker'[k] = Idle
    \/ /\ UpdateAfterApply(k)
       /\ UpdateAccepted(worker[k].server, worker[k].obj)
       /\ worker'[k] = Idle

LEMMA EveryWorkerMoves ==
    ASSUME TypeOK, [Next]_vars, ~ Crash, NEW k \in Kind
    PROVE  WorkerMoves(k)
<1>1. CASE worker' = worker
  BY <1>1 DEF WorkerMoves
<1>2. CASE UNCHANGED vars \/ Deliver \/ Environment \/ Collect
  <2>1. CASE UNCHANGED vars
    BY <1>1, <2>1 DEF vars
  <2>2. CASE Deliver
    BY <1>1, <2>2 DEF Deliver, SyncServer, SyncSecret, HandleSecretEvent, SyncDeployment,
                Resync, Requeue
  <2>3. CASE Environment
    BY <1>1, <2>3 DEF Environment, CreateServer, EditSpec, DeleteServer, DeleteForeground,
                SetSecret, ReportHealth, DeleteDeployment, ForeignEdit, Change
  <2>4. CASE Collect
    BY <1>1, <2>4 DEF Collect, CollectGarbage, FinishDeletion
  <2>5. QED
    BY <1>2, <2>1, <2>2, <2>3, <2>4
<1>3. ASSUME NEW w \in late, LandLate(w) PROVE WorkerMoves(k)
  BY <1>1, <1>3 DEF LandLate
<1>4. ASSUME NEW j \in Kind, Reconcile(j) \/ ApplyFails(j) \/ UpdateFails(j)
      PROVE  WorkerMoves(k)
  <2>1. CASE j # k
    <3>1. worker'[k] = worker[k]
      BY <1>4, <2>1
      DEF Reconcile, Start, ReadSecret, BuildError, ApplySucceeds, ApplyIsRefused, ApplyFails,
          MirrorAfterError, UpdateAfterError, UpdateAfterApply, UpdateFails, TypeOK
    <3>2. QED
      BY <3>1 DEF WorkerMoves
  <2>2. CASE j = k
    <3>1. ASSUME NEW s \in Server, Start(k, s) PROVE WorkerMoves(k)
      <4>1. CASE serverCache[s].exists /\ ~ serverCache[s].deleting
        <5>1. worker'[k] = [pc |-> "build", server |-> s, obj |-> serverCache[s],
                            read |-> NoContent]
          BY <3>1, <4>1 DEF Start, TypeOK
        <5>2. QED
          BY <3>1, <4>1, <5>1 DEF WorkerMoves
      <4>2. QED
        BY <1>1, <3>1, <4>1 DEF Start
    <3>2. ASSUME NEW r \in Secret, ReadSecret(k, r) PROVE WorkerMoves(k)
      <4>1. worker'[k] = [worker[k] EXCEPT !.read[r] = secretCache[r]]
        BY <3>2 DEF ReadSecret, TypeOK
      <4>2. QED
        BY <3>2, <4>1 DEF WorkerMoves
    <3>3. ASSUME NEW pc, NEW obj, worker[k].pc # "idle",
                 worker' = [worker EXCEPT ![k].pc = pc, ![k].obj = obj]
          PROVE  /\ worker'[k] = [worker[k] EXCEPT !.pc = pc, !.obj = obj]
                 /\ worker'[k].pc = pc
                 /\ worker'[k].server = worker[k].server
      <4>1. worker'[k] = [worker[k] EXCEPT !.pc = pc, !.obj = obj]
        BY <3>3 DEF TypeOK
      <4>2. worker[k] \in Active
        BY <3>3, WorkerType
      <4>3. QED
        BY <4>1, <4>2 DEF Active
    <3>4. CASE BuildError(k) \/ ApplyIsRefused(k) \/ ApplyFails(k) \/ MirrorAfterError(k)
      <4>1. worker[k].pc # "idle"
        BY <3>4 DEF BuildError, ApplyIsRefused, ApplyFails, MirrorAfterError, ReadyToApply
      <4>2. \E pc \in {"mirror", "updateFailed"} : \E obj :
              worker' = [worker EXCEPT ![k].pc = pc, ![k].obj = obj]
        <5>1. CASE BuildError(k)
          <6>1. worker' = [worker EXCEPT ![k].pc = "mirror",
                             ![k].obj = WithFailure(worker[k].obj, "True")]
            BY <5>1 DEF BuildError, TypeOK
          <6>2. QED
            BY <6>1, Zenon
        <5>2. CASE ApplyIsRefused(k) \/ ApplyFails(k)
          <6>1. worker' = [worker EXCEPT ![k].pc = "mirror",
                             ![k].obj = WithFailure(worker[k].obj, "Unknown")]
            BY <5>2 DEF ApplyIsRefused, ApplyFails, TypeOK
          <6>2. QED
            BY <6>1, Zenon
        <5>3. CASE MirrorAfterError(k)
          <6>1. PICK obj : worker' = [worker EXCEPT ![k].pc = "updateFailed", ![k].obj = obj]
            BY <5>3 DEF MirrorAfterError, TypeOK
          <6>2. QED
            BY <6>1, Zenon
        <5>4. QED
          BY <3>4, <5>1, <5>2, <5>3
      <4>3. worker'[k].pc \in {"mirror", "updateFailed"} /\ worker'[k].server = worker[k].server
        BY <3>3, <4>1, <4>2
      <4>4. QED
        BY <3>4, <4>3 DEF WorkerMoves
    <3>5. CASE ApplySucceeds(k)
      <4>1. worker[k].pc # "idle"
        BY <3>5 DEF ApplySucceeds, ReadyToApply
      <4>2. worker' = [worker EXCEPT ![k].pc = "updateApplied",
              ![k].obj = Mirrored(WithFailure(worker[k].obj, "False"),
                                  deployment[DeploymentOf[worker[k].server]])]
        BY <3>5 DEF ApplySucceeds, TypeOK
      <4>3. worker'[k] = [worker[k] EXCEPT !.pc = "updateApplied",
              !.obj = Mirrored(WithFailure(worker[k].obj, "False"),
                               deployment[DeploymentOf[worker[k].server]])]
        BY <3>3, <4>1, <4>2, Zenon
      <4>4. QED
        BY <3>5, <4>3 DEF WorkerMoves
    <3>6. CASE UpdateAfterError(k) \/ UpdateAfterApply(k) \/ UpdateFails(k)
      <4>1. worker'[k] = Idle
        BY <3>6 DEF UpdateAfterError, UpdateAfterApply, UpdateFails, TypeOK
      <4>2. \/ worker[k].server \in backoff'
            \/ UpdateAfterApply(k) /\ UpdateAccepted(worker[k].server, worker[k].obj)
        BY <3>6 DEF UpdateAfterError, UpdateAfterApply, UpdateFails
      <4>3. QED
        BY <4>1, <4>2 DEF WorkerMoves
    <3>7. QED
      BY <1>4, <2>2, <3>1, <3>2, <3>4, <3>5, <3>6 DEF Reconcile
  <2>3. QED
    BY <2>1, <2>2
<1>5. QED
  BY <1>2, <1>3, <1>4 DEF Next

-----------------------------------------------------------------------------
(* What lasts until the server is woken                                    *)

LEMMA ProvidedLasts ==
    ASSUME TypeOK, Carried, NEW s \in Server, serverCache[s].exists,
           NEW r \in Refs[serverCache[s].spec], Provided(s, r), s \notin queue'
    PROVE  Provided(s, r)'
<1>1. serverCache[s].spec \in Spec
  <2>1. serverCache[s] \in Present
    BY ExistsIsPresent DEF TypeOK
  <2>2. QED
    BY <2>1 DEF Present
<1>2. r \in Secret /\ KindOf[s] \in Kind
  BY <1>1, ConfigAssumption
<1>3. SUFFICES ASSUME secretCache'[r] = Absent PROVE <<KindOf[s], r>> \in secretEvent'
  BY DEF Provided
<1>4. CASE secretCache[r] # Absent
  BY <1>2, <1>3, <1>4 DEF Carried, SecretsHandled
<1>5. CASE <<KindOf[s], r>> \in secretEvent
  <2>1. s \in Referencing(KindOf[s], r)
    BY DEF Referencing
  <2>2. QED
    BY <1>2, <1>5, <2>1 DEF Carried, SecretsHandled
<1>6. QED
  BY <1>4, <1>5 DEF Provided

LEMMA RenderedLasts ==
    ASSUME TypeOK, Carried, NEW s \in Server, NEW obj, Rendered(s, obj),
           s \notin deploymentWatch'[DeploymentOf[s]]
    PROVE  deployment'[DeploymentOf[s]] = deployment[DeploymentOf[s]]
<1>1. DeploymentOf[s] \in Deployment /\ s # NoServer
  BY ConfigAssumption
<1>2. s \in OwnersOf(deployment[DeploymentOf[s]])
  BY <1>1 DEF Rendered, OwnersOf
<1>3. QED
  BY <1>1, <1>2 DEF Carried, DeploymentsWatched

\* A calm server was calm before, unless its worker has just finished with it.
LEMMA CalmBefore ==
    ASSUME TypeOK, VersionInv, SecretInv, [Next]_vars, NEW s \in Server, Alive(s)', Calm(s)'
    PROVE  /\ ~ Crash
           /\ server'[s] = server[s]
           /\ serverCache[s] = server[s]
           /\ serverCache'[s] = serverCache[s]
           /\ s \notin deploymentWatch[DeploymentOf[s]]
           /\ s \notin queue \cup backoff
           /\ worker[KindOf[s]].server = s =>
                /\ worker[KindOf[s]].pc # "idle"
                /\ UpdateAfterApply(KindOf[s])
                /\ UpdateAccepted(s, worker[KindOf[s]].obj)
<1> DEFINE k == KindOf[s]
<1>1. k \in Kind /\ DeploymentOf[s] \in Deployment /\ s # NoServer
  BY ConfigAssumption
<1>2. s \notin queue' /\ s \notin backoff' /\ s \notin deploymentWatch'[DeploymentOf[s]]
  BY DEF Calm
<1>3. ~ Crash
  BY <1>2 DEF Crash, Alive, store
<1>4. Carried
  BY <1>3, StepCarries
<1>5. serverCache'[s] = serverCache[s]
  BY <1>2, <1>4 DEF Carried, CachesFollowed
<1>6. server'[s] = server[s]
  <2>1. serverCache[s].rv <= server[s].rv /\ server[s].rv \in Nat
    BY VersionTypes DEF VersionInv, CacheInv
  <2>2. server'[s] = serverCache[s]
    BY <1>5 DEF Calm
  <2>3. QED
    BY <2>1, <2>2, ServerAdvances DEF Advances
<1>7. s \notin deploymentWatch[DeploymentOf[s]] /\ s \notin backoff
  BY <1>1, <1>2, <1>4 DEF Carried, WatchesDelivered, QueuesServed
<1>8. WorkerMoves(k)
  BY <1>1, <1>3, EveryWorkerMoves
<1>9. s \notin queue
  <2>1. SUFFICES ASSUME Start(k, s) PROVE FALSE
    BY <1>2, <1>4 DEF Carried, QueuesServed
  <2>2. serverCache[s].exists /\ ~ serverCache[s].deleting
    BY <1>5 DEF Alive, Calm
  <2>3. worker'[k].server = s
    BY <1>1, <2>1, <2>2 DEF Start, TypeOK
  <2>4. QED
    BY <2>3 DEF Calm
<1>10. ASSUME worker[k].server = s
       PROVE  /\ worker[k].pc # "idle"
              /\ UpdateAfterApply(k)
              /\ UpdateAccepted(s, worker[k].obj)
  <2>1. worker[k].pc # "idle" /\ worker[k] \in Active
    BY <1>1, <1>10 DEF TypeOK, Idle, Active, Pc
  <2>2. worker'[k].server # s
    BY DEF Calm
  <2>3. CASE \E r \in Secret : worker'[k] = [worker[k] EXCEPT !.read[r] = secretCache[r]]
    BY <1>10, <2>1, <2>2, <2>3 DEF Active
  <2>4. CASE worker'[k] = [worker[k] EXCEPT !.pc = "updateApplied",
              !.obj = Mirrored(WithFailure(worker[k].obj, "False"),
                               deployment[DeploymentOf[worker[k].server]])]
    BY <1>10, <2>1, <2>2, <2>4 DEF Active
  <2>5. CASE \E t \in Server : Start(k, t)
    BY <2>1, <2>5 DEF Start
  <2>6. QED
    BY <1>2, <1>8, <1>10, <2>1, <2>2, <2>3, <2>4, <2>5 DEF WorkerMoves
<1>11. QED
  BY <1>3, <1>5, <1>6, <1>7, <1>9, <1>10 DEF Calm

LEMMA CalmNext ==
    ASSUME TypeOK, VersionInv, WakeupInv, [Next]_vars
    PROVE  CalmInv'
<1>1. SUFFICES ASSUME NEW s \in Server, Alive(s)', Calm(s)'
               PROVE  Settled(s)'
  BY DEF CalmInv
<1> DEFINE k == KindOf[s]
<1>2. KindInv /\ SecretInv /\ WorkerInv /\ CalmInv
  BY DEF WakeupInv
<1>3. /\ ~ Crash
      /\ server'[s] = server[s]
      /\ serverCache[s] = server[s]
      /\ serverCache'[s] = serverCache[s]
      /\ s \notin deploymentWatch[DeploymentOf[s]]
      /\ s \notin queue \cup backoff
      /\ worker[k].server = s =>
           worker[k].pc # "idle" /\ UpdateAfterApply(k) /\ UpdateAccepted(s, worker[k].obj)
  BY <1>1, <1>2, CalmBefore
<1>4. Carried
  BY <1>2, <1>3, StepCarries
<1>5. s \notin queue' /\ s \notin deploymentWatch'[DeploymentOf[s]]
  BY <1>1 DEF Calm
<1>6. Alive(s) /\ server[s].exists /\ server[s] \in Present
  BY <1>1, <1>3, ExistsIsPresent DEF Alive, TypeOK
<1>7. Settled(s)
  <2>1. CASE worker[k].server # s
    BY <1>2, <1>3, <1>6, <2>1 DEF CalmInv, Calm
  <2>2. CASE worker[k].server = s
    <3> DEFINE w == worker[k]
    <3>1. k \in Kind /\ w.pc = "updateApplied" /\ UpdateAccepted(s, w.obj)
          /\ server' = StatusUpdated(s, w.obj)
      BY <1>3, <2>2, ConfigAssumption DEF UpdateAfterApply
    <3>2. Follows(w) /\ w.obj \in Present
      BY <1>2, <1>3, <2>2, <3>1, WorkerType DEF WorkerInv
    <3>3. /\ Rendered(s, w.obj)
          /\ w.obj.status.failure = "False"
          /\ w.obj.status.observedGeneration = w.obj.generation
          /\ Unread(w) = {}
          /\ Derives(w.obj, server[s])
      BY <1>3, <2>2, <3>1, <3>2 DEF Follows
    <3>4. server[s].status = w.obj.status
      <4>1. SUFFICES ASSUME server[s].status # w.obj.status PROVE FALSE
        OBVIOUS
      <4>2. server'[s] = [server[s] EXCEPT !.status = w.obj.status, !.rv = @ + 1]
        BY <3>1, <4>1 DEF StatusUpdated, TypeOK
      <4>3. server'[s].rv = server[s].rv + 1 /\ server[s].rv \in Nat
        BY <1>6, <4>2 DEF Present
      <4>4. QED
        BY <1>3, <4>3
    <3>5. server[s].inc = w.obj.inc /\ server[s].spec = w.obj.spec
          /\ server[s].generation = w.obj.generation
      BY <3>3 DEF Derives
    <3>6. \A r \in Refs[server[s].spec] : Provided(s, r)
      BY <2>2, <3>2, <3>3, <3>5 DEF Follows, Unread
    <3>7. QED
      BY <3>3, <3>4, <3>5, <3>6 DEF Settled, Rendered
  <2>3. QED
    BY <2>1, <2>2
<1>8. deployment'[DeploymentOf[s]] = deployment[DeploymentOf[s]]
  BY <1>4, <1>5, <1>7, RenderedLasts DEF Settled
<1>9. ASSUME NEW r \in Refs[server[s].spec] PROVE Provided(s, r)'
  BY <1>3, <1>4, <1>5, <1>6, <1>7, ProvidedLasts DEF Settled
<1>10. QED
  BY <1>3, <1>7, <1>8, <1>9 DEF Settled, Rendered

-----------------------------------------------------------------------------
(* What a worker holds stays true, or its server is queued again           *)

\* A worker that has not moved, its server not being queued, still follows.
LEMMA FollowsLasts ==
    ASSUME TypeOK, Carried, NEW k \in Kind, worker[k].pc # "idle", Follows(worker[k]),
           worker'[k] = worker[k], worker[k].server \notin queue'
    PROVE  Follows(worker[k])'
<1> DEFINE w == worker[k]
           s == worker[k].server
<1>1. /\ s \in Server
      /\ w.obj \in Present
      /\ DeploymentOf[s] \in Deployment
  BY WorkerType
<1>2. serverCache'[s] = serverCache[s]
  BY <1>1 DEF Carried, CachesFollowed
<1>3. serverCache[s].exists /\ serverCache[s].spec = w.obj.spec
  <2>1. serverCache[s].spec = w.obj.spec /\ w.obj.spec \in Spec
    BY <1>1 DEF Follows, Derives, Present
  <2>2. serverCache[s] \in ServerObject
    BY <1>1 DEF TypeOK
  <2>3. QED
    BY <2>1, <2>2, ConfigAssumption DEF ServerObject, Present, Gone
<1>4. ASSUME NEW r \in Refs[w.obj.spec], w.read[r] # Absent PROVE Provided(s, r)'
  BY <1>1, <1>3, <1>4, ProvidedLasts DEF Follows
<1>5. ASSUME w.pc = "updateApplied"
      PROVE  \/ s \in deploymentWatch'[DeploymentOf[s]]
             \/ Rendered(s, w.obj)'
  <2>1. CASE s \in deploymentWatch[DeploymentOf[s]]
    BY <1>1, <2>1 DEF Carried, WatchesDelivered
  <2>2. CASE Rendered(s, w.obj) /\ s \notin deploymentWatch'[DeploymentOf[s]]
    <3>1. deployment'[DeploymentOf[s]] = deployment[DeploymentOf[s]]
      BY <1>1, <2>2, RenderedLasts
    <3>2. QED
      BY <2>2, <3>1 DEF Rendered
  <2>3. QED
    BY <1>5, <2>1, <2>2 DEF Follows
<1>6. /\ worker[k]' = w
      /\ Unread(w)' = Unread(w)
  BY DEF Unread
<1>7. QED
  BY <1>2, <1>4, <1>5, <1>6 DEF Follows, Unread

\* What an apply leaves is what the worker then reports.
LEMMA ApplyFollows ==
    ASSUME TypeOK, KindInv, NEW k \in Kind, ApplySucceeds(k),
           worker'[k] = [worker[k] EXCEPT !.pc = "updateApplied",
              !.obj = Mirrored(WithFailure(worker[k].obj, "False"),
                               deployment[DeploymentOf[worker[k].server]])],
           worker[k].server \notin queue => Follows(worker[k])
    PROVE  worker[k].server \notin queue => Follows(worker[k])'
<1> DEFINE w == worker[k]
           s == w.server
           d == DeploymentOf[s]
           failed == WithFailure(w.obj, "False")
           obj == Mirrored(failed, deployment[d])
<1>1. /\ w \in Active
      /\ w.obj \in Present
      /\ d \in Deployment
      /\ KindOf[s] = k
      /\ Unread(w) = {}
  BY WorkerType DEF ApplySucceeds, ReadyToApply, KindInv
<1>2. Derives(obj, w.obj)
  BY <1>1, MirroredDerives
<1>3. failed \in Present /\ failed.status.failure = "False"
  <2>1. w.obj.status \in Status
    BY <1>1 DEF Present
  <2>2. failed.status = [w.obj.status EXCEPT !.failure = "False"]
    BY <1>1 DEF Present, WithFailure
  <2>3. failed.status.failure = "False"
    BY <2>1, <2>2 DEF Status
  <2>4. QED
    BY <1>1, <2>3, WithFailureType DEF DeploymentFailure
<1>4. /\ obj.status.failure = "False"
      /\ obj.status.observedGeneration = obj.generation
      /\ obj.status.available = deployment[d].health
  <2>1. failed.status \in Status
    BY <1>3 DEF Present
  <2>2. obj.generation = failed.generation
    BY <1>3 DEF Mirrored, Present
  <2>3. obj.status = [failed.status EXCEPT !.available = deployment[d].health,
                                           !.observedGeneration = failed.generation]
    BY <1>3 DEF Mirrored, Present
  <2>4. QED
    BY <1>3, <2>1, <2>2, <2>3 DEF Status
<1>5. PICK order : WriteDeployment(d, Applied(k, s, w.obj, w.read, order))
  BY DEF ApplySucceeds, Apply
<1>6. deployment'[d] = Applied(k, s, w.obj, w.read, order)
  BY <1>1, <1>5 DEF WriteDeployment, TypeOK
<1>7. /\ deployment'[d].exists
      /\ deployment'[d].manager = k
      /\ deployment'[d].owner = s
      /\ deployment'[d].inc = w.obj.inc
      /\ deployment'[d].spec = w.obj.spec
      /\ deployment'[d].health = deployment[d].health
  BY <1>6 DEF Applied
<1>8. /\ worker'[k].server = s
      /\ worker'[k].obj = obj
      /\ worker'[k].read = w.read
  BY <1>1 DEF Active
<1>9. /\ obj.inc = w.obj.inc
      /\ obj.spec = w.obj.spec
  BY <1>2 DEF Derives
<1> HIDE DEF obj, failed
<1>10. Rendered(worker[k].server, worker[k].obj)'
  BY <1>1, <1>4, <1>7, <1>8, <1>9 DEF Rendered
<1>11. SUFFICES ASSUME s \notin queue PROVE Follows(worker[k])'
  OBVIOUS
<1>12. Follows(w)
  BY <1>11
<1>13. UNCHANGED <<serverCache, secretCache, secretEvent>>
  BY DEF ApplySucceeds, caches, events
<1>14. Derives(worker'[k].obj, serverCache'[worker'[k].server])
  <2>1. Derives(w.obj, serverCache[s])
    BY <1>12 DEF Follows
  <2>2. obj.status.observedGeneration = w.obj.generation
    BY <1>2, <1>4 DEF Derives
  <2>3. QED
    BY <1>2, <1>8, <1>13, <2>1, <2>2 DEF Derives
<1>15. \A r \in Refs[obj.spec] : w.read[r] # Absent => Provided(s, r)
  BY <1>9, <1>12 DEF Follows
<1>16. Unread(worker[k])' = {}
  BY <1>1, <1>8, <1>9 DEF Unread
<1>17. \A r : Provided(worker[k].server, r)' <=> Provided(s, r)
  BY <1>8, <1>13 DEF Provided
<1>18. QED
  BY <1>4, <1>8, <1>10, <1>14, <1>15, <1>16, <1>17 DEF Follows

LEMMA WorkerInvNext ==
    ASSUME TypeOK, WakeupInv, [Next]_vars
    PROVE  WorkerInv'
<1>1. SUFFICES ASSUME NEW k \in Kind,
                      worker'[k].pc \in {"build", "updateApplied"},
                      worker'[k].server \notin queue'
               PROVE  Follows(worker[k])'
  BY DEF WorkerInv
<1>2. KindInv /\ SecretInv /\ WorkerInv
  BY DEF WakeupInv
<1>3. ~ Crash
  BY <1>1 DEF Crash, Idle
<1>4. Carried
  BY <1>2, <1>3, StepCarries
\* Only its own worker takes a server out of the queue.
<1>5. ASSUME worker[k].pc # "idle", worker[k].server \notin queue'
      PROVE  worker[k].server \notin queue
  <2>1. worker[k].server \in Server /\ KindOf[worker[k].server] = k
    BY <1>2, <1>5, WorkerType DEF KindInv
  <2>2. QED
    BY <1>4, <1>5, <2>1 DEF Carried, QueuesServed, Start
<1>6. CASE worker'[k] = worker[k]
  <2>1. worker[k].pc # "idle" /\ worker[k].server \notin queue
    BY <1>1, <1>5, <1>6
  <2>2. Follows(worker[k])
    BY <1>1, <1>2, <1>6, <2>1 DEF WorkerInv
  <2>3. QED
    BY <1>1, <1>4, <1>6, <2>1, <2>2, FollowsLasts
<1>7. ASSUME NEW s \in Server, Start(k, s),
             worker'[k] = [pc |-> "build", server |-> s, obj |-> serverCache[s],
                           read |-> NoContent]
      PROVE  Follows(worker[k])'
  <2>1. /\ worker'[k].pc = "build"
        /\ worker'[k].server = s
        /\ worker'[k].obj = serverCache[s]
        /\ worker'[k].read = NoContent
    BY <1>7
  <2>2. serverCache' = serverCache
    BY <1>7 DEF Start, caches
  <2>3. serverCache[s] \in Present
    <3>1. serverCache[s].exists
      BY <1>1, <1>7, <2>1 DEF Start
    <3>2. QED
      BY <3>1, ExistsIsPresent DEF TypeOK
  <2>4. \A r \in Refs[worker'[k].obj.spec] : worker'[k].read[r] = Absent
    <3>1. Refs[worker'[k].obj.spec] \subseteq Secret
      BY <2>1, <2>3, ConfigAssumption DEF Present
    <3>2. QED
      BY <2>1, <3>1 DEF NoContent
  <2>5. Derives(worker'[k].obj, serverCache'[worker'[k].server])
    BY <2>1, <2>2 DEF Derives
  <2>6. QED
    BY <2>1, <2>4, <2>5 DEF Follows
<1>8. ASSUME NEW r \in Secret, ReadSecret(k, r),
             worker'[k] = [worker[k] EXCEPT !.read[r] = secretCache[r]]
      PROVE  Follows(worker[k])'
  <2> DEFINE w == worker[k]
  <2>1. /\ w.pc = "build"
        /\ w \in Active
        /\ secretCache[r] # Absent
    BY <1>8, WorkerType DEF ReadSecret
  <2>2. /\ worker'[k].pc = "build"
        /\ worker'[k].server = w.server
        /\ worker'[k].obj = w.obj
        /\ \A q \in Secret : worker'[k].read[q] # Absent => w.read[q] # Absent \/ q = r
    BY <1>8, <2>1 DEF Active, Content
  <2>3. Follows(w)
    BY <1>1, <1>2, <1>5, <2>1, <2>2 DEF WorkerInv
  <2>4. UNCHANGED <<serverCache, secretCache, secretEvent>>
    BY <1>8 DEF ReadSecret, caches, events
  <2>5. Refs[w.obj.spec] \subseteq Secret
    BY <2>1, ConfigAssumption DEF Active, Present
  <2>6. ASSUME NEW q \in Refs[w.obj.spec], worker'[k].read[q] # Absent
        PROVE  Provided(w.server, q)
    BY <2>1, <2>2, <2>3, <2>5, <2>6 DEF Follows, Provided
  <2>7. \A q : Provided(worker[k].server, q)' <=> Provided(w.server, q)
    BY <2>2, <2>4 DEF Provided
  <2>8. Derives(worker'[k].obj, serverCache'[worker'[k].server])
    BY <2>2, <2>3, <2>4 DEF Follows
  <2>9. QED
    BY <2>2, <2>6, <2>7, <2>8 DEF Follows
<1>9. ASSUME ApplySucceeds(k),
             worker'[k] = [worker[k] EXCEPT !.pc = "updateApplied",
                !.obj = Mirrored(WithFailure(worker[k].obj, "False"),
                                 deployment[DeploymentOf[worker[k].server]])]
      PROVE  Follows(worker[k])'
  <2>1. worker[k].pc = "build" /\ worker[k] \in Active
    BY <1>9, WorkerType DEF ApplySucceeds, ReadyToApply
  <2>2. worker'[k].server = worker[k].server
    BY <1>9, <2>1 DEF Active
  <2>3. worker[k].server \notin queue
    BY <1>1, <1>5, <2>1, <2>2
  <2>4. Follows(worker[k])
    BY <1>2, <2>1, <2>3 DEF WorkerInv
  <2>5. QED
    BY <1>2, <1>9, <2>3, <2>4, ApplyFollows
<1>10. WorkerMoves(k)
  BY <1>3, EveryWorkerMoves
<1>11. worker'[k] # Idle
  BY <1>1 DEF Idle
<1>12. QED
  BY <1>1, <1>6, <1>7, <1>8, <1>9, <1>10, <1>11 DEF WorkerMoves

LEMMA KindInvNext == ASSUME TypeOK, KindInv, [Next]_vars PROVE KindInv'
BY CopiesStep DEF KindInv, WorkerStep

LEMMA SecretInvNext == ASSUME TypeOK, SecretInv, [Next]_vars PROVE SecretInv'
<1>1. CASE UNCHANGED <<secret, secretCache, secretWatch>>
  BY <1>1 DEF SecretInv
<1>2. ASSUME NEW r \in Secret, SyncSecret(r) PROVE SecretInv'
  BY <1>2 DEF SecretInv, SyncSecret, store, TypeOK, Content
<1>3. ASSUME NEW r \in Secret, SetSecret(r) PROVE SecretInv'
  <2>1. SUFFICES ASSUME NEW q \in Secret, secretCache'[q] # Absent, secret'[q] = Absent
                 PROVE  q \in secretWatch'
    BY DEF SecretInv
  <2>2. secretCache' = secretCache /\ secretWatch \subseteq secretWatch'
    BY <1>3 DEF SetSecret, Change, caches
  <2>3. CASE secret[q] = Absent
    BY <2>1, <2>2, <2>3 DEF SecretInv
  <2>4. CASE secret[q] # Absent
    BY <1>3, <2>1, <2>4 DEF SetSecret, SecretEventPasses, TypeOK, Content
  <2>5. QED
    BY <2>3, <2>4
<1>4. CASE Crash
  BY <1>4 DEF SecretInv, Crash, store
<1>5. CASE UNCHANGED vars
  BY <1>1, <1>5 DEF vars, store, caches, watches
<1>6. CASE Deliver
  BY <1>1, <1>2, <1>6 DEF Deliver, SyncServer, HandleSecretEvent, SyncDeployment, Resync,
                          Requeue, store, caches, watches
<1>7. ASSUME NEW k \in Kind, Reconcile(k) \/ ApplyFails(k) \/ UpdateFails(k) PROVE SecretInv'
  BY <1>1, <1>7 DEF Reconcile, Start, ReadSecret, BuildError, ApplySucceeds, ApplyIsRefused,
                    ApplyFails, MirrorAfterError, UpdateAfterError, UpdateAfterApply,
                    UpdateFails, store, caches, watches
<1>8. ASSUME NEW w \in late, LandLate(w) PROVE SecretInv'
  BY <1>1, <1>8 DEF LandLate, caches
<1>9. CASE Environment
  BY <1>1, <1>3, <1>9 DEF Environment, CreateServer, EditSpec, DeleteServer, DeleteForeground,
                          ReportHealth, DeleteDeployment, ForeignEdit, Change, caches, watches
<1>10. CASE Collect
  BY <1>1, <1>10 DEF Collect, CollectGarbage, FinishDeletion, caches, watches
<1>11. QED
  BY <1>4, <1>5, <1>6, <1>7, <1>8, <1>9, <1>10 DEF Next

LEMMA WakeupInit == Init => WakeupInv
<1> SUFFICES ASSUME Init PROVE WakeupInv
  OBVIOUS
<1>1. KindInv /\ WorkerInv
  BY DEF Init, KindInv, WorkerInv, Idle
<1>2. SecretInv
  BY DEF Init, SecretInv
<1>3. CalmInv
  BY DEF Init, CalmInv, Alive, Calm
<1>4. QED
  BY <1>1, <1>2, <1>3 DEF WakeupInv

LEMMA WakeupNext ==
    ASSUME TypeOK, VersionInv, WakeupInv, [Next]_vars
    PROVE  WakeupInv'
<1>1. KindInv' /\ SecretInv'
  BY KindInvNext, SecretInvNext DEF WakeupInv
<1>2. QED
  BY <1>1, WorkerInvNext, CalmNext DEF WakeupInv

\* A step of somebody else, whoever it is, wakes whom it concerns.
LEMMA OutsideWakeups ==
    ASSUME TypeOK, VersionInv, WakeupInv, TypeOK', Outside, \A s \in Server : Advances(s)
    PROVE  WakeupInv'
<1>1. UNCHANGED <<serverCache, secretCache, secretEvent, queue, backoff, worker>>
  BY DEF Outside, caches, events
<1>2. Carried
  <2>1. ASSUME NEW d \in Deployment
        PROVE  /\ deploymentWatch[d] \subseteq deploymentWatch'[d]
               /\ \/ deployment'[d] = deployment[d]
                  \/ /\ OwnersOf(deployment[d]) \subseteq deploymentWatch'[d]
                     /\ OwnersOf(deployment'[d]) \subseteq deploymentWatch'[d]
    BY DEF Outside
  <2>2. QED
    BY <1>1, <2>1, WriteCarries
<1>3. KindInv'
  BY <1>1 DEF WakeupInv, KindInv
<1>4. SecretInv'
  <2>1. SUFFICES ASSUME NEW r \in Secret, secretCache[r] # Absent, secret'[r] = Absent
                 PROVE  r \in secretWatch'
    BY <1>1 DEF SecretInv
  <2>2. QED
    BY <2>1 DEF Outside, SecretEventPasses, WakeupInv, SecretInv
<1>5. WorkerInv'
  <2>1. SUFFICES ASSUME NEW k \in Kind, worker[k].pc \in {"build", "updateApplied"},
                        worker[k].server \notin queue
                 PROVE  Follows(worker[k])'
    BY <1>1 DEF WorkerInv
  <2>2. Follows(worker[k]) /\ worker[k].pc # "idle"
    BY <2>1 DEF WakeupInv, WorkerInv
  <2>3. QED
    BY <1>1, <1>2, <2>1, <2>2, FollowsLasts
<1>6. CalmInv'
  <2>1. SUFFICES ASSUME NEW s \in Server, Alive(s)', Calm(s)'
                 PROVE  Settled(s)'
    BY DEF CalmInv
  <2>2. server'[s] = server[s] /\ serverCache[s] = server[s]
    <3>1. serverCache[s].rv <= server[s].rv /\ server[s].rv \in Nat
      BY VersionTypes DEF VersionInv, CacheInv
    <3>2. server'[s] = serverCache[s]
      BY <1>1, <2>1 DEF Calm
    <3>3. QED
      BY <3>1, <3>2 DEF Advances
  <2>3. DeploymentOf[s] \in Deployment
    BY ConfigAssumption
  <2>4. s \notin deploymentWatch'[DeploymentOf[s]] /\ s \notin queue'
    BY <2>1 DEF Calm
  <2>5. Settled(s)
    <3>1. s \notin deploymentWatch[DeploymentOf[s]]
      BY <1>2, <2>3, <2>4 DEF Carried, WatchesDelivered
    <3>2. Alive(s) /\ Calm(s)
      BY <1>1, <2>1, <2>2, <3>1 DEF Alive, Calm
    <3>3. QED
      BY <3>2 DEF WakeupInv, CalmInv
  <2>6. deployment'[DeploymentOf[s]] = deployment[DeploymentOf[s]]
    BY <1>2, <2>4, <2>5, RenderedLasts DEF Settled
  <2>7. ASSUME NEW r \in Refs[server[s].spec] PROVE Provided(s, r)'
    <3>1. serverCache[s].exists
      BY <2>1, <2>2 DEF Alive
    <3>2. QED
      BY <1>2, <2>2, <2>4, <2>5, <3>1, ProvidedLasts DEF Settled
  <2>8. QED
    BY <2>2, <2>5, <2>6, <2>7 DEF Settled, Rendered
<1>7. QED
  BY <1>3, <1>4, <1>5, <1>6 DEF WakeupInv

LEMMA WakeupCorrect == ReconcilerSpec => [](TypeOK /\ VersionInv /\ WakeupInv)
<1>1. Init => TypeOK /\ VersionInv /\ WakeupInv
  BY TypeInit, VersionInit, WakeupInit
<1>2. TypeOK /\ VersionInv /\ WakeupInv /\ [Next]_vars => (TypeOK /\ VersionInv /\ WakeupInv)'
  BY TypeNext, VersionNext, WakeupNext
<1>3. QED
  BY <1>1, <1>2, PTL DEF ReconcilerSpec

LEMMA WakeupImplies == ASSUME TypeOK, WakeupInv PROVE NoLostWakeup
<1>1. SUFFICES ASSUME NEW s \in Server, Alive(s), Quiet(s)
               PROVE  /\ Hosted(s)
                      /\ \A r \in Refs[server[s].spec] : secret[r] # Absent
                      /\ server[s].status =
                           [failure |-> "False",
                            available |-> deployment[DeploymentOf[s]].health,
                            observedGeneration |-> server[s].generation]
  BY DEF NoLostWakeup
<1>2. Settled(s)
  BY <1>1 DEF WakeupInv, CalmInv, Calm, Quiet
<1>3. server[s] \in Present
  BY <1>1, ExistsIsPresent DEF TypeOK, Alive
<1>4. ASSUME NEW r \in Refs[server[s].spec] PROVE secret[r] # Absent
  <2>1. r \in Secret
    BY <1>3, ConfigAssumption DEF Present
  <2>2. secretCache[r] # Absent /\ r \notin secretWatch
    BY <1>1, <1>2 DEF Settled, Provided, Quiet
  <2>3. QED
    BY <2>1, <2>2 DEF WakeupInv, SecretInv
<1>5. server[s].status \in Status
  BY <1>3 DEF Present
<1>6. QED
  BY <1>2, <1>4, <1>5 DEF Settled, Rendered, Hosted, Status

\* No wake-up is lost: whatever the interleaving, the crashes, the failed calls
\* and the late requests, a live server that nothing will reconcile again is
\* hosted as its spec says, has its secrets, and its status says so.
THEOREM NoWakeupIsLost == ReconcilerSpec => []NoLostWakeup
<1>1. QED
  BY WakeupImplies, WakeupCorrect, PTL

-----------------------------------------------------------------------------
(* Claims: what a status says of the current generation                    *)

\* Nobody holds a copy newer than the cache, no status names a generation that
\* does not exist yet, and when one names the current generation the cache has it.
CopiesInv ==
    /\ \A k \in Kind : worker[k].pc # "idle" =>
         worker[k].obj.rv <= serverCache[worker[k].server].rv
    /\ \A w \in late : w.obj.rv <= serverCache[w.server].rv

ObservedInv ==
    \A s \in Server : server[s].exists =>
        server[s].status.observedGeneration <= server[s].generation

SeenInv ==
    \A s \in Server :
        server[s].exists /\ server[s].status.observedGeneration = server[s].generation =>
            /\ serverCache[s].exists
            /\ serverCache[s].inc = server[s].inc
            /\ serverCache[s].spec = server[s].spec
            /\ serverCache[s].deleting = server[s].deleting

SightInv == CopiesInv /\ ObservedInv /\ SeenInv

\* Who writes a status: a worker that is done, or a request that is late.
Writes(w) ==
    \/ \E k \in Kind : /\ w = worker[k]
                       /\ UpdateAfterError(k) \/ UpdateAfterApply(k) \/ UpdateFails(k)
    \/ w \in late /\ LandLate(w)

StatusWritten(s, w) ==
    /\ w.server = s
    /\ server[s].exists
    /\ server[s].rv = w.obj.rv
    /\ server'[s] = [server[s] EXCEPT !.status = w.obj.status, !.rv = server[s].rv + 1]

Created(s) ==
    /\ ~ server[s].exists
    /\ server'[s].status = NoStatus
    /\ server'[s].generation = 1

Edited(s) ==
    /\ server[s].exists
    /\ server'[s].status = server[s].status
    /\ server'[s].generation = server[s].generation + 1

\* What a step does to a server.
ServerMoves(s) ==
    \/ server'[s] = server[s]
    \/ \E w : Writes(w) /\ StatusWritten(s, w)
    \/ Created(s)
    \/ Edited(s)
    \/ ~ server'[s].exists

LEMMA UpdateMoves ==
    ASSUME TypeOK, NEW w, w.server \in Server, Writes(w),
           server' = StatusUpdated(w.server, w.obj), NEW s \in Server
    PROVE  ServerMoves(s)
<1>1. CASE server' = server
  BY <1>1 DEF ServerMoves
<1>2. CASE server' # server
  <2>1. UpdateAccepted(w.server, w.obj)
        /\ server' = [server EXCEPT ![w.server] =
                        [server[w.server] EXCEPT !.status = w.obj.status,
                                                 !.rv = server[w.server].rv + 1]]
    <3>1. server[w.server] \in Present
      BY <1>2, ExistsIsPresent DEF StatusUpdated, UpdateAccepted, TypeOK
    <3>2. QED
      BY <1>2, <3>1 DEF StatusUpdated, Present
  <2>2. CASE s = w.server
    BY <2>1, <2>2 DEF UpdateAccepted, StatusWritten, ServerMoves, TypeOK
  <2>3. CASE s # w.server
    BY <2>1, <2>3 DEF ServerMoves, TypeOK
  <2>4. QED
    BY <2>2, <2>3
<1>3. QED
  BY <1>1, <1>2

LEMMA UserMoves ==
    ASSUME TypeOK, NEW t \in Server, NEW s \in Server,
           CreateServer(t) \/ EditSpec(t) \/ DeleteServer(t) \/ DeleteForeground(t)
             \/ FinishDeletion(t)
    PROVE  ServerMoves(s)
<1>1. CASE s # t
  <2>1. server'[s] = server[s]
    BY <1>1 DEF CreateServer, EditSpec, DeleteServer, DeleteForeground, FinishDeletion,
                Removed, TypeOK
  <2>2. QED
    BY <2>1 DEF ServerMoves
<1>2. CASE s = t /\ CreateServer(t)
  <2>1. PICK y \in Spec : server'[t] =
          [exists |-> TRUE, inc |-> server[t].inc + 1, rv |-> server[t].rv + 1,
           generation |-> 1, spec |-> y, deleting |-> FALSE, status |-> NoStatus]
    BY <1>2 DEF CreateServer, TypeOK
  <2>2. QED
    BY <1>2, <2>1 DEF CreateServer, Created, ServerMoves
<1>3. CASE s = t /\ EditSpec(t)
  <2>1. server[t] \in Present
    BY <1>3, ExistsIsPresent DEF EditSpec, TypeOK
  <2>2. PICK y \in Spec : server' = [server EXCEPT ![t].spec = y, ![t].rv = @ + 1,
                                                   ![t].generation = @ + 1]
    BY <1>3 DEF EditSpec
  <2>3. server'[t] = [server[t] EXCEPT !.spec = y, !.rv = server[t].rv + 1,
                                       !.generation = server[t].generation + 1]
    BY <2>1, <2>2 DEF TypeOK, Present
  <2>4. server'[t].status = server[t].status /\ server'[t].generation = server[t].generation + 1
    BY <2>1, <2>3 DEF Present
  <2>5. QED
    BY <1>3, <2>4 DEF EditSpec, Edited, ServerMoves
<1>4. CASE s = t /\ DeleteForeground(t)
  <2>1. server[t] \in Present
    BY <1>4, ExistsIsPresent DEF DeleteForeground, TypeOK
  <2>2. server'[t] = [server[t] EXCEPT !.deleting = TRUE, !.rv = server[t].rv + 1,
                                       !.generation = server[t].generation + 1]
    BY <1>4, <2>1 DEF DeleteForeground, TypeOK, Present
  <2>3. server'[t].status = server[t].status /\ server'[t].generation = server[t].generation + 1
    BY <2>1, <2>2 DEF Present
  <2>4. QED
    BY <1>4, <2>3 DEF DeleteForeground, Edited, ServerMoves
<1>5. CASE s = t /\ (DeleteServer(t) \/ FinishDeletion(t))
  <2>1. server'[t] = [NoServerObject EXCEPT !.inc = server[t].inc, !.rv = server[t].rv + 1]
    BY <1>5 DEF DeleteServer, FinishDeletion, Removed, TypeOK
  <2>2. [NoServerObject EXCEPT !.inc = server[t].inc, !.rv = server[t].rv + 1].exists = FALSE
    BY DEF NoServerObject
  <2>3. QED
    BY <1>5, <2>1, <2>2 DEF ServerMoves
<1>6. QED
  BY <1>1, <1>2, <1>3, <1>4, <1>5

LEMMA EveryServerMoves ==
    ASSUME TypeOK, [Next]_vars, NEW s \in Server
    PROVE  ServerMoves(s)
<1>1. CASE server' = server
  BY <1>1 DEF ServerMoves
<1>2. ASSUME NEW k \in Kind, UpdateAfterError(k) \/ UpdateAfterApply(k) \/ UpdateFails(k)
      PROVE  ServerMoves(s)
  <2>1. worker[k].server \in Server
    BY <1>2, WorkerType DEF UpdateAfterError, UpdateAfterApply, UpdateFails
  <2>2. server' = server \/ server' = StatusUpdated(worker[k].server, worker[k].obj)
    BY <1>2 DEF UpdateAfterError, UpdateAfterApply, UpdateFails
  <2>3. Writes(worker[k])
    BY <1>2 DEF Writes
  <2>4. QED
    BY <1>1, <2>1, <2>2, <2>3, UpdateMoves
<1>3. ASSUME NEW w \in late, LandLate(w) PROVE ServerMoves(s)
  <2>1. w.server \in Server /\ Writes(w)
    BY <1>3, VersionTypes DEF Writes
  <2>2. server' = server \/ server' = StatusUpdated(w.server, w.obj)
    BY <1>3 DEF LandLate
  <2>3. QED
    BY <1>1, <2>1, <2>2, UpdateMoves
<1>4. ASSUME NEW t \in Server,
             CreateServer(t) \/ EditSpec(t) \/ DeleteServer(t) \/ DeleteForeground(t)
               \/ FinishDeletion(t)
      PROVE  ServerMoves(s)
  BY <1>4, UserMoves
<1>5. CASE UNCHANGED vars
  BY <1>1, <1>5 DEF vars, store
<1>6. CASE Deliver
  BY <1>1, <1>6 DEF Deliver, SyncServer, SyncSecret, HandleSecretEvent, SyncDeployment,
                    Resync, Requeue, store
<1>7. ASSUME NEW k \in Kind, Reconcile(k) \/ ApplyFails(k) \/ UpdateFails(k)
      PROVE  ServerMoves(s)
  BY <1>1, <1>2, <1>7 DEF Reconcile, Start, ReadSecret, BuildError, ApplySucceeds,
                          ApplyIsRefused, ApplyFails, MirrorAfterError, store
<1>8. CASE Crash
  BY <1>1, <1>8 DEF Crash, store
<1>9. CASE Environment \/ Collect
  BY <1>1, <1>4, <1>9 DEF Environment, Collect, SetSecret, ReportHealth, DeleteDeployment,
                          ForeignEdit, CollectGarbage
<1>10. QED
  BY <1>3, <1>5, <1>6, <1>7, <1>8, <1>9 DEF Next

\* Whoever writes a status holds a copy the invariants speak of.
LEMMA WriterHolds ==
    ASSUME TypeOK, VersionInv, CopiesInv, NEW w, Writes(w)
    PROVE  /\ w.server \in Server
           /\ w.obj \in Present
           /\ w.obj.rv \in Nat
           /\ Agrees(w.obj, server[w.server])
           /\ w.obj.rv <= serverCache[w.server].rv
<1>1. ASSUME NEW k \in Kind, w = worker[k],
             UpdateAfterError(k) \/ UpdateAfterApply(k) \/ UpdateFails(k)
      PROVE  worker[k].pc # "idle"
  BY <1>1 DEF UpdateAfterError, UpdateAfterApply, UpdateFails
<1>2. QED
  BY <1>1, VersionTypes DEF Writes, VersionInv, CopyInv, CopiesInv

LEMMA CacheGrows ==
    ASSUME TypeOK, VersionInv, [Next]_vars, NEW s \in Server
    PROVE  serverCache[s].rv <= serverCache'[s].rv
<1>1. serverCache[s].rv \in Nat /\ serverCache[s].rv <= server[s].rv
  BY VersionTypes DEF VersionInv, CacheInv
<1>2. QED
  BY <1>1, CacheStep

LEMMA CopiesInvNext ==
    ASSUME TypeOK, VersionInv, CopiesInv, [Next]_vars
    PROVE  CopiesInv'
<1>1. ASSUME NEW s \in Server
      PROVE  /\ serverCache[s].rv <= serverCache'[s].rv
             /\ serverCache[s].rv \in Nat
             /\ serverCache'[s].rv \in Nat
  BY CacheGrows, TypeNext, VersionTypes DEF TypeOK, ServerObject, Present, Gone
<1>2. ASSUME NEW k \in Kind, worker'[k].pc # "idle"
      PROVE  worker'[k].obj.rv <= serverCache'[worker'[k].server].rv
  <2>1. CASE /\ worker[k].pc # "idle"
             /\ worker'[k].server = worker[k].server
             /\ Derives(worker'[k].obj, worker[k].obj)
    <3>1. /\ worker[k].server \in Server
          /\ worker[k].obj.rv \in Nat
          /\ worker[k].obj.rv <= serverCache[worker[k].server].rv
      BY <2>1, VersionTypes DEF CopiesInv
    <3>2. QED
      BY <1>1, <2>1, <3>1 DEF Derives
  <2>2. CASE /\ worker'[k].server \in Server
             /\ worker'[k].obj = serverCache[worker'[k].server]
    BY <1>1, <2>2
  <2>3. QED
    BY <1>2, <2>1, <2>2, CopiesStep DEF WorkerStep
<1>3. ASSUME NEW w \in late' PROVE w.obj.rv <= serverCache'[w.server].rv
  <2>1. PICK v : /\ w = v
                 /\ v.server \in Server
                 /\ v.obj.rv \in Nat
                 /\ v.obj.rv <= serverCache[v.server].rv
    BY CopiesStep, VersionTypes DEF LateStep, CopiesInv
  <2>2. QED
    BY <1>1, <2>1
<1>4. QED
  BY <1>2, <1>3 DEF CopiesInv

\* The status written is that of the current object; the cache has that object.
LEMMA WrittenIsSeen ==
    ASSUME TypeOK, VersionInv, CopiesInv, NEW w, Writes(w), NEW s \in Server, StatusWritten(s, w)
    PROVE  /\ serverCache[s] = server[s]
           /\ server[s] \in Present
           /\ w.obj.inc = server[s].inc
           /\ w.obj.generation = server[s].generation
           /\ w.obj.spec = server[s].spec
           /\ w.obj.status.observedGeneration \in
                {server[s].status.observedGeneration, server[s].generation}
           /\ server'[s].status = w.obj.status
           /\ server'[s].exists
           /\ server'[s].inc = server[s].inc
           /\ server'[s].generation = server[s].generation
           /\ server'[s].spec = server[s].spec
           /\ server'[s].deleting = server[s].deleting
<1>1. server[s] \in Present
  BY ExistsIsPresent DEF StatusWritten, TypeOK
<1>2. serverCache[s] = server[s]
  <2>1. /\ serverCache[s].rv \in Nat
        /\ server[s].rv \in Nat
        /\ serverCache[s].rv <= server[s].rv
    BY VersionTypes DEF VersionInv, CacheInv
  <2>2. server[s].rv <= serverCache[s].rv
    BY WriterHolds DEF StatusWritten
  <2>3. QED
    BY <2>1, <2>2 DEF VersionInv, CacheInv
<1>3. Agrees(w.obj, server[s]) /\ w.obj.rv = server[s].rv
  BY WriterHolds DEF StatusWritten
<1>4. /\ server'[s].status = w.obj.status
      /\ server'[s].exists
      /\ server'[s].inc = server[s].inc
      /\ server'[s].generation = server[s].generation
      /\ server'[s].spec = server[s].spec
      /\ server'[s].deleting = server[s].deleting
  BY <1>1 DEF StatusWritten, Present
<1>5. QED
  BY <1>1, <1>2, <1>3, <1>4 DEF Agrees

LEMMA SightInvNext ==
    ASSUME TypeOK, VersionInv, SightInv, [Next]_vars
    PROVE  SightInv'
<1>1. CopiesInv /\ ObservedInv /\ SeenInv
  BY DEF SightInv
<1>2. ASSUME NEW s \in Server, server'[s].exists
      PROVE  /\ server'[s].status.observedGeneration <= server'[s].generation
             /\ server'[s].status.observedGeneration = server'[s].generation =>
                  /\ serverCache'[s].exists
                  /\ serverCache'[s].inc = server'[s].inc
                  /\ serverCache'[s].spec = server'[s].spec
                  /\ serverCache'[s].deleting = server'[s].deleting
  <2>1. serverCache'[s] = serverCache[s] \/ (serverCache'[s] = server[s] /\ server' = server)
    BY CacheStep
  <2>2. server[s].exists =>
          /\ server[s].generation \in Nat
          /\ server[s].status.observedGeneration \in Nat
          /\ server[s].status.observedGeneration <= server[s].generation
    <3>1. server[s].exists => server[s] \in Present
      BY ExistsIsPresent DEF TypeOK
    <3>2. QED
      BY <1>1, <3>1 DEF Present, Status, ObservedInv
  <2>3. CASE server'[s] = server[s]
    BY <1>1, <1>2, <2>1, <2>2, <2>3 DEF ObservedInv, SeenInv
  <2>4. ASSUME NEW w, Writes(w), StatusWritten(s, w)
        PROVE  /\ server'[s].status.observedGeneration <= server'[s].generation
               /\ serverCache'[s].exists
               /\ serverCache'[s].inc = server'[s].inc
               /\ serverCache'[s].spec = server'[s].spec
               /\ serverCache'[s].deleting = server'[s].deleting
    <3>1. /\ serverCache[s] = server[s]
          /\ server[s].exists
          /\ w.obj.status.observedGeneration \in
               {server[s].status.observedGeneration, server[s].generation}
          /\ server'[s].status = w.obj.status
          /\ server'[s].inc = server[s].inc
          /\ server'[s].generation = server[s].generation
          /\ server'[s].spec = server[s].spec
          /\ server'[s].deleting = server[s].deleting
      <4>1. server[s].exists
        BY <2>4 DEF StatusWritten
      <4>2. QED
        BY <1>1, <2>4, <4>1, WrittenIsSeen
    <3>2. serverCache'[s] = server[s]
      BY <2>1, <3>1
    <3>3. server'[s].status.observedGeneration <= server'[s].generation
      BY <2>2, <3>1
    <3>4. QED
      BY <3>1, <3>2, <3>3
  <2>5. CASE Created(s)
    BY <2>5 DEF Created, NoStatus
  <2>6. CASE Edited(s)
    BY <2>2, <2>6 DEF Edited
  <2>7. QED
    BY <1>2, <2>3, <2>4, <2>5, <2>6, EveryServerMoves DEF ServerMoves
<1>3. QED
  BY <1>1, <1>2, CopiesInvNext DEF SightInv, ObservedInv, SeenInv

LEMMA SightInvInit == Init => SightInv
<1> SUFFICES ASSUME Init PROVE SightInv
  OBVIOUS
<1>1. CopiesInv
  BY DEF Init, CopiesInv, Idle
<1>2. ASSUME NEW s \in Server, server[s].exists
      PROVE  server[s].status.observedGeneration = 0 /\ server[s].generation = 1
  <2>1. PICK y \in Spec : server[s] = [NoServerObject EXCEPT !.exists = TRUE, !.inc = 1, !.rv = 1,
                                         !.generation = 1, !.spec = y]
    <3>1. server[s] \in {NoServerObject} \cup
            {[NoServerObject EXCEPT !.exists = TRUE, !.inc = 1, !.rv = 1,
                                    !.generation = 1, !.spec = x] : x \in Spec}
      BY DEF Init
    <3>2. server[s] # NoServerObject
      BY <1>2 DEF NoServerObject
    <3>3. QED
      BY <3>1, <3>2
  <2>2. QED
    BY <2>1 DEF NoServerObject, NoStatus
<1>3. QED
  BY <1>1, <1>2 DEF SightInv, ObservedInv, SeenInv

-----------------------------------------------------------------------------
(* A claim that is no longer true is about to be looked at                 *)

\* A worker that is done, and not to be called again, leaves a Deployment of the
\* current spec.
LEMMA FinishedIsRendered ==
    ASSUME TypeOK, VersionInv, WakeupInv, NEW k \in Kind, UpdateAfterApply(k),
           NEW s \in Server, worker[k].server = s, server[s].rv = worker[k].obj.rv,
           s \notin queue, s \notin deploymentWatch[DeploymentOf[s]]
    PROVE  deployment[DeploymentOf[s]].spec = server[s].spec
<1>1. worker[k].pc = "updateApplied"
  BY DEF UpdateAfterApply
<1>2. Follows(worker[k])
  BY <1>1 DEF WakeupInv, WorkerInv
<1>3. deployment[DeploymentOf[s]].spec = worker[k].obj.spec
  BY <1>1, <1>2 DEF Follows, Rendered
<1>4. worker[k].obj.spec = server[s].spec
  BY <1>1 DEF VersionInv, CopyInv, Agrees
<1>5. QED
  BY <1>3, <1>4

LEMMA RepairNext ==
    ASSUME TypeOK, VersionInv, WakeupInv, SightInv, LieIsRepaired, [Next]_vars
    PROVE  LieIsRepaired'
<1>1. SUFFICES ASSUME NEW s \in Server, ClaimsApplied(s)', Applier(s)',
                      s \notin deploymentWatch'[DeploymentOf[s]],
                      s \notin queue' \cup backoff',
                      worker'[KindOf[s]].server # s
               PROVE  deployment'[DeploymentOf[s]].spec = server'[s].spec
  BY DEF LieIsRepaired
<1> DEFINE k == KindOf[s]
           d == DeploymentOf[s]
<1>2. /\ k \in Kind
      /\ d \in Deployment
      /\ s # NoServer
  BY ConfigAssumption
<1>3. /\ KindInv /\ SecretInv /\ CalmInv
      /\ CopiesInv /\ ObservedInv /\ SeenInv
  BY DEF WakeupInv, SightInv
<1>4. server'[s].exists /\ ~ server'[s].deleting
  BY <1>1 DEF ClaimsApplied, Alive
<1>5. ~ Crash
  BY <1>1, <1>4 DEF Crash, store
<1>6. Carried
  BY <1>3, <1>5, StepCarries
<1>7. deployment'[d] = deployment[d]
  <2>1. s \in OwnersOf(deployment'[d])
    BY <1>1, <1>2 DEF Applier, OwnersOf
  <2>2. QED
    BY <1>1, <1>2, <1>6, <2>1 DEF Carried, DeploymentsWatched
<1>8. s \notin deploymentWatch[d] /\ s \notin backoff
  BY <1>1, <1>2, <1>6 DEF Carried, WatchesDelivered, QueuesServed
<1>9. WorkerMoves(k)
  BY <1>2, <1>5, EveryWorkerMoves
\* The worker lets go of s without being called again only when it is done.
<1>10. ASSUME worker[k].server = s
       PROVE  UpdateAfterApply(k) /\ UpdateAccepted(s, worker[k].obj)
  <2>1. worker[k].pc # "idle" /\ worker[k] \in Active
    BY <1>2, <1>10 DEF TypeOK, Idle, Active, Pc
  <2>2. CASE \E r \in Secret : worker'[k] = [worker[k] EXCEPT !.read[r] = secretCache[r]]
    BY <1>1, <1>10, <2>1, <2>2 DEF Active
  <2>3. CASE worker'[k] = [worker[k] EXCEPT !.pc = "updateApplied",
              !.obj = Mirrored(WithFailure(worker[k].obj, "False"),
                               deployment[DeploymentOf[worker[k].server]])]
    BY <1>1, <1>10, <2>1, <2>3 DEF Active
  <2>4. CASE \E t \in Server : Start(k, t)
    BY <2>1, <2>4 DEF Start
  <2>5. QED
    BY <1>1, <1>9, <1>10, <2>2, <2>3, <2>4 DEF WorkerMoves
<1>11. ASSUME server[s].exists, ~ server[s].deleting,
              server[s].status.observedGeneration = server[s].generation
       PROVE  s \notin queue
  <2>1. SUFFICES ASSUME Start(k, s) PROVE FALSE
    BY <1>1, <1>6 DEF Carried, QueuesServed
  <2>2. serverCache[s].exists /\ ~ serverCache[s].deleting
    BY <1>3, <1>11 DEF SeenInv
  <2>3. worker'[k].server = s
    BY <1>2, <2>1, <2>2 DEF Start, TypeOK
  <2>4. QED
    BY <1>1, <2>3
<1>12. CASE server'[s] = server[s]
  <2>1. ClaimsApplied(s) /\ Applier(s)
    BY <1>1, <1>7, <1>12 DEF ClaimsApplied, Applier, Alive
  <2>2. s \notin queue
    BY <1>11, <2>1 DEF ClaimsApplied, Alive
  <2>3. CASE worker[k].server = s
    <3>1. UpdateAfterApply(k) /\ server[s].rv = worker[k].obj.rv
      BY <1>10, <2>3 DEF UpdateAccepted
    <3>2. QED
      BY <1>2, <1>7, <1>8, <1>12, <2>2, <2>3, <3>1, FinishedIsRendered
  <2>4. CASE worker[k].server # s
    BY <1>7, <1>8, <1>12, <2>1, <2>2, <2>4 DEF LieIsRepaired
  <2>5. QED
    BY <2>3, <2>4
<1>13. ASSUME NEW j \in Kind, StatusWritten(s, worker[j]),
              UpdateAfterError(j) \/ UpdateAfterApply(j) \/ UpdateFails(j)
       PROVE  deployment'[d].spec = server'[s].spec
  <2>1. UpdateAfterApply(j)
    BY <1>1, <1>13 DEF UpdateAfterError, UpdateFails, StatusWritten
  <2>2. s \notin queue
    BY <1>1, <2>1 DEF UpdateAfterApply
  <2>3. worker[j].server = s /\ server[s].rv = worker[j].obj.rv
    BY <1>13 DEF StatusWritten
  <2>4. deployment[d].spec = server[s].spec
    BY <1>8, <2>1, <2>2, <2>3, FinishedIsRendered
  <2>5. Writes(worker[j])
    BY <2>1 DEF Writes
  <2>6. server'[s].spec = server[s].spec
    BY <1>3, <1>13, <2>5, WrittenIsSeen
  <2>7. QED
    BY <1>7, <2>4, <2>6
\* A late update that is accepted finds the object it was computed from, and then
\* nothing has happened since.
<1>14. ASSUME NEW w \in late, LandLate(w), StatusWritten(s, w)
       PROVE  deployment'[d].spec = server'[s].spec
  <2>1. /\ serverCache[s] = server[s]
        /\ server[s].exists
        /\ server'[s].spec = server[s].spec
        /\ server'[s].deleting = server[s].deleting
    <3>1. Writes(w)
      BY <1>14 DEF Writes
    <3>2. QED
      BY <1>3, <1>14, <3>1, WrittenIsSeen DEF StatusWritten
  <2>2. UNCHANGED <<queue, backoff, worker>>
    BY <1>14 DEF LandLate, events
  <2>3. Alive(s) /\ Calm(s)
    BY <1>1, <1>4, <1>8, <2>1, <2>2 DEF Alive, Calm
  <2>4. deployment[d].spec = server[s].spec
    BY <1>3, <2>3 DEF CalmInv, Settled, Rendered
  <2>5. QED
    BY <1>7, <2>1, <2>4
<1>15. ~ Created(s)
  BY <1>1 DEF ClaimsApplied, Created, NoStatus
<1>16. ~ Edited(s)
  <2>1. SUFFICES ASSUME Edited(s) PROVE FALSE
    OBVIOUS
  <2>2. server[s] \in Present
    BY <2>1, ExistsIsPresent DEF Edited, TypeOK
  <2>3. /\ server[s].status.observedGeneration \in Nat
        /\ server[s].generation \in Nat
        /\ server[s].status.observedGeneration <= server[s].generation
    BY <1>3, <2>2 DEF Present, Status, ObservedInv
  <2>4. QED
    BY <1>1, <2>1, <2>3 DEF ClaimsApplied, Edited
<1>17. QED
  BY <1>4, <1>12, <1>13, <1>14, <1>15, <1>16, EveryServerMoves DEF ServerMoves, Writes

\* A status that says "Applied" of the current generation is true, or the server
\* is on its way to a reconcile, whatever crashes, failed calls and late requests
\* have written behind its back.
THEOREM LiesAreRepaired == ReconcilerSpec => []LieIsRepaired
<1>1. Init => SightInv /\ LieIsRepaired
  <2>1. ASSUME Init, NEW s \in Server PROVE ~ Applier(s)
    <3>1. deployment[DeploymentOf[s]] = NoDeployment
      BY <2>1, ConfigAssumption DEF Init
    <3>2. QED
      BY <3>1 DEF Applier, NoDeployment
  <2>2. QED
    BY <2>1, SightInvInit DEF LieIsRepaired
<1>2. TypeOK /\ VersionInv /\ WakeupInv /\ SightInv /\ LieIsRepaired /\ [Next]_vars
        => SightInv' /\ LieIsRepaired'
  BY SightInvNext, RepairNext
<1>3. QED
  BY <1>1, <1>2, WakeupCorrect, PTL DEF ReconcilerSpec

-----------------------------------------------------------------------------
(* Without faults a claim is true at once                                  *)

\* A worker on its error path does not report success.
FailedInv ==
    \A k \in Kind : worker[k].pc \in {"mirror", "updateFailed"} =>
        worker[k].obj.status.failure # "False"

\* What a worker has applied is the last thing applied for that incarnation.
AppliedInv ==
    \A k \in Kind : worker[k].pc = "updateApplied" =>
        LET d == deployment[DeploymentOf[worker[k].server]]
        IN  d.exists /\ d.manager = k /\ d.owner = worker[k].server /\ d.inc = worker[k].obj.inc
              => d.spec = worker[k].obj.spec

\* When a worker takes a server whose status claims the current generation, it
\* works on that generation.
ClaimedInv ==
    \A s \in Server :
        ClaimsApplied(s) /\ worker[KindOf[s]].server = s =>
            /\ worker[KindOf[s]].obj.inc = server[s].inc
            /\ worker[KindOf[s]].obj.spec = server[s].spec

HonestInv == late = {} /\ AppliedInv /\ ClaimedInv /\ StatusHonest

\* What a step without a fault does to a Deployment.
DeploymentMoves(d) ==
    LET old == deployment[d]
        new == deployment'[d]
    IN  \/ ~ new.exists
        \/ new.manager = Foreign
        \/ /\ old.exists /\ new.manager = old.manager /\ new.owner = old.owner
           /\ new.inc = old.inc /\ new.spec = old.spec
        \/ \E k \in Kind :
             /\ ApplySucceeds(k)
             /\ new.manager = k
             /\ new.owner = worker[k].server
             /\ new.inc = worker[k].obj.inc
             /\ new.spec = worker[k].obj.spec
             /\ DeploymentOf[worker[k].server] = d

\* Faults are only counted up.
LEMMA NoFault ==
    ASSUME TypeOK, [Next]_vars, faults' = 0
    PROVE  /\ faults = 0
           /\ ~ Crash
           /\ \A k \in Kind : ~ ApplyFails(k) /\ ~ UpdateFails(k)
<1>1. faults \in Nat
  BY DEF TypeOK
<1>2. ~ Crash /\ \A k \in Kind : ~ ApplyFails(k) /\ ~ UpdateFails(k)
  BY <1>1 DEF Crash, ApplyFails, UpdateFails
<1>3. CASE UNCHANGED vars
  BY <1>2, <1>3 DEF vars, bounds
<1>4. CASE Deliver
  BY <1>2, <1>4 DEF Deliver, SyncServer, SyncSecret, HandleSecretEvent, SyncDeployment, Resync,
                    Requeue, bounds
<1>5. ASSUME NEW k \in Kind, Reconcile(k) PROVE faults' = faults
  BY <1>5 DEF Reconcile, Start, ReadSecret, BuildError, ApplySucceeds, ApplyIsRefused,
              MirrorAfterError, UpdateAfterError, UpdateAfterApply, bounds
<1>6. ASSUME NEW w \in late, LandLate(w) PROVE faults' = faults
  BY <1>6 DEF LandLate, bounds
<1>7. CASE Environment
  BY <1>2, <1>7 DEF Environment, CreateServer, EditSpec, DeleteServer, DeleteForeground, SetSecret,
                    ReportHealth, DeleteDeployment, ForeignEdit, Change
<1>8. CASE Collect
  BY <1>2, <1>8 DEF Collect, CollectGarbage, FinishDeletion, bounds
<1>9. QED
  BY <1>2, <1>3, <1>4, <1>5, <1>6, <1>7, <1>8 DEF Next

LEMMA WriteMoves ==
    ASSUME TypeOK, NEW e \in Deployment, NEW new, WriteDeployment(e, new), NEW d \in Deployment
    PROVE  deployment'[d] = IF d = e THEN new ELSE deployment[d]
BY DEF WriteDeployment, TypeOK

LEMMA EveryDeploymentMoves ==
    ASSUME TypeOK, [Next]_vars, faults' = 0, late = {}, NEW d \in Deployment
    PROVE  DeploymentMoves(d)
<1>1. ASSUME deployment'[d] = deployment[d] PROVE DeploymentMoves(d)
  BY <1>1 DEF DeploymentMoves
<1>2. ASSUME NEW k \in Kind, ApplySucceeds(k) PROVE DeploymentMoves(d)
  <2> DEFINE w == worker[k]
             e == DeploymentOf[w.server]
  <2>1. e \in Deployment
    BY <1>2, WorkerType DEF ApplySucceeds, ReadyToApply
  <2>2. PICK order : WriteDeployment(e, Applied(k, w.server, w.obj, w.read, order))
    BY <1>2 DEF ApplySucceeds, Apply
  <2>3. deployment'[d] = IF d = e THEN Applied(k, w.server, w.obj, w.read, order)
                         ELSE deployment[d]
    BY <2>1, <2>2, WriteMoves
  <2>4. CASE d = e
    <3>1. /\ deployment'[d].manager = k
          /\ deployment'[d].owner = w.server
          /\ deployment'[d].inc = w.obj.inc
          /\ deployment'[d].spec = w.obj.spec
      BY <2>3, <2>4 DEF Applied
    <3>2. QED
      BY <1>2, <2>4, <3>1 DEF DeploymentMoves
  <2>5. QED
    BY <1>1, <2>3, <2>4
<1>3. ASSUME NEW e \in Deployment,
             ReportHealth(e) \/ DeleteDeployment(e) \/ ForeignEdit(e) \/ CollectGarbage(e)
      PROVE  DeploymentMoves(d)
  <2>1. deployment[e] \in DeploymentObject
    BY DEF TypeOK
  <2>2. CASE \E h : /\ deployment[e].exists
                    /\ WriteDeployment(e, [deployment[e] EXCEPT !.health = h])
    <3>1. PICK h : /\ deployment[e].exists
                   /\ WriteDeployment(e, [deployment[e] EXCEPT !.health = h])
      BY <2>2
    <3>2. deployment'[d] = IF d = e THEN [deployment[e] EXCEPT !.health = h]
                           ELSE deployment[d]
      BY <3>1, WriteMoves
    <3>3. CASE d = e
      <4>1. /\ deployment'[d].manager = deployment[d].manager
            /\ deployment'[d].owner = deployment[d].owner
            /\ deployment'[d].inc = deployment[d].inc
            /\ deployment'[d].spec = deployment[d].spec
        BY <2>1, <3>2, <3>3 DEF DeploymentObject
      <4>2. QED
        BY <3>1, <3>3, <4>1 DEF DeploymentMoves
    <3>4. QED
      BY <1>1, <3>2, <3>3
  <2>3. CASE WriteDeployment(e, NoDeployment)
    <3>1. deployment'[d] = IF d = e THEN NoDeployment ELSE deployment[d]
      BY <2>3, WriteMoves
    <3>2. CASE d = e
      BY <3>1, <3>2 DEF NoDeployment, DeploymentMoves
    <3>3. QED
      BY <1>1, <3>1, <3>2
  <2>4. CASE WriteDeployment(e, [deployment[e] EXCEPT !.exists = TRUE, !.manager = Foreign])
    <3>1. deployment'[d] = IF d = e
                           THEN [deployment[e] EXCEPT !.exists = TRUE, !.manager = Foreign]
                           ELSE deployment[d]
      BY <2>4, WriteMoves
    <3>2. CASE d = e
      BY <2>1, <3>1, <3>2 DEF DeploymentObject, DeploymentMoves
    <3>3. QED
      BY <1>1, <3>1, <3>2
  <2>5. QED
    BY <1>3, <2>2, <2>3, <2>4 DEF ReportHealth, DeleteDeployment, ForeignEdit, CollectGarbage
<1>4. CASE UNCHANGED vars
  BY <1>1, <1>4 DEF vars, store
<1>5. CASE Deliver
  BY <1>1, <1>5 DEF Deliver, SyncServer, SyncSecret, HandleSecretEvent, SyncDeployment,
                    Resync, Requeue, store
<1>6. ASSUME NEW k \in Kind, Reconcile(k) PROVE DeploymentMoves(d)
  BY <1>1, <1>2, <1>6 DEF Reconcile, Start, ReadSecret, BuildError, ApplyIsRefused,
                          MirrorAfterError, UpdateAfterError, UpdateAfterApply, store
<1>7. CASE Environment \/ Collect
  <2>1. ASSUME NEW t \in Server,
               CreateServer(t) \/ EditSpec(t) \/ DeleteServer(t) \/ DeleteForeground(t)
                 \/ FinishDeletion(t)
        PROVE  deployment' = deployment
    BY <2>1 DEF CreateServer, EditSpec, DeleteServer, DeleteForeground, FinishDeletion
  <2>2. ASSUME NEW r \in Secret, SetSecret(r) PROVE deployment' = deployment
    BY <2>2 DEF SetSecret
  <2>3. QED
    BY <1>1, <1>3, <1>7, <2>1, <2>2 DEF Environment, Collect
<1>8. QED
  BY <1>4, <1>5, <1>6, <1>7, NoFault DEF Next

LEMMA FailedInvNext ==
    ASSUME TypeOK, FailedInv, [Next]_vars
    PROVE  FailedInv'
<1>1. CASE Crash
  BY <1>1 DEF Crash, FailedInv, Idle
<1>2. CASE ~ Crash
  <2>1. SUFFICES ASSUME NEW k \in Kind, worker'[k].pc \in {"mirror", "updateFailed"}
                 PROVE  worker'[k].obj.status.failure # "False"
    BY DEF FailedInv
  <2>2. WorkerMoves(k)
    BY <1>2, EveryWorkerMoves
  <2>3. ASSUME BuildError(k) \/ ApplyIsRefused(k) \/ ApplyFails(k)
        PROVE  worker'[k].obj.status.failure # "False"
    <3>1. worker[k] \in Active /\ worker[k].obj \in Present
      BY <2>3, WorkerType DEF BuildError, ApplyIsRefused, ApplyFails, ReadyToApply
    <3>2. \E f \in {"True", "Unknown"} : worker'[k].obj = WithFailure(worker[k].obj, f)
      BY <2>3, <3>1 DEF BuildError, ApplyIsRefused, ApplyFails, TypeOK, Active
    <3>3. \A f : WithFailure(worker[k].obj, f).status.failure = f
      <4>1. worker[k].obj.status \in Status
        BY <3>1 DEF Present
      <4>2. QED
        BY <3>1, <4>1 DEF WithFailure, Present, Status
    <3>4. QED
      BY <3>2, <3>3
  <2>4. ASSUME MirrorAfterError(k) PROVE worker'[k].obj.status.failure # "False"
    <3>1. /\ worker[k] \in Active
          /\ worker[k].obj \in Present
          /\ worker[k].obj.status.failure # "False"
      BY <2>4, WorkerType DEF MirrorAfterError, FailedInv
    <3>2. \/ worker'[k].obj = worker[k].obj
          \/ \E e : worker'[k].obj = Mirrored(worker[k].obj, e)
      BY <2>4, <3>1 DEF MirrorAfterError, TypeOK, Active
    <3>3. \A e : Mirrored(worker[k].obj, e).status.failure = worker[k].obj.status.failure
      <4>1. worker[k].obj.status \in Status
        BY <3>1 DEF Present
      <4>2. QED
        BY <3>1, <4>1 DEF Mirrored, Present, Status
    <3>4. QED
      BY <3>1, <3>2, <3>3
  <2>5. ASSUME NEW r \in Secret, ReadSecret(k, r),
               worker'[k] = [worker[k] EXCEPT !.read[r] = secretCache[r]]
        PROVE  FALSE
    <3>1. worker[k] \in Active /\ worker[k].pc = "build"
      BY <2>5, WorkerType DEF ReadSecret
    <3>2. QED
      BY <2>1, <2>5, <3>1 DEF Active
  <2>6. ASSUME ApplySucceeds(k),
               worker'[k] = [worker[k] EXCEPT !.pc = "updateApplied",
                  !.obj = Mirrored(WithFailure(worker[k].obj, "False"),
                                   deployment[DeploymentOf[worker[k].server]])]
        PROVE  FALSE
    <3>1. worker[k] \in Active
      BY <2>6, WorkerType DEF ApplySucceeds, ReadyToApply
    <3>2. QED
      BY <2>1, <2>6, <3>1 DEF Active
  <2>7. worker'[k] # Idle
    BY <2>1 DEF Idle
  <2>8. CASE worker'[k] = worker[k]
    BY <2>1, <2>8 DEF FailedInv
  <2>9. ASSUME NEW s \in Server,
               worker'[k] = [pc |-> "build", server |-> s, obj |-> serverCache[s],
                             read |-> NoContent]
        PROVE  FALSE
    BY <2>1, <2>9
  <2>10. QED
    BY <2>2, <2>3, <2>4, <2>5, <2>6, <2>7, <2>8, <2>9 DEF WorkerMoves
<1>3. QED
  BY <1>1, <1>2

LEMMA AppliedInvNext ==
    ASSUME TypeOK, late = {}, AppliedInv, [Next]_vars, faults' = 0
    PROVE  AppliedInv'
<1>1. SUFFICES ASSUME NEW k \in Kind, worker'[k].pc = "updateApplied",
                      NEW d, d = DeploymentOf[worker'[k].server],
                      deployment'[d].exists, deployment'[d].manager = k,
                      deployment'[d].owner = worker'[k].server,
                      deployment'[d].inc = worker'[k].obj.inc
               PROVE  deployment'[d].spec = worker'[k].obj.spec
  BY DEF AppliedInv
<1>2. ~ Crash
  BY NoFault
<1>3. WorkerMoves(k)
  BY <1>2, EveryWorkerMoves
<1>4. d \in Deployment
  BY <1>1, TypeNext, ConfigAssumption DEF TypeOK, Active, Idle
<1>5. DeploymentMoves(d)
  BY <1>4, EveryDeploymentMoves
<1>6. ASSUME ApplySucceeds(k),
             worker'[k] = [worker[k] EXCEPT !.pc = "updateApplied",
                  !.obj = Mirrored(WithFailure(worker[k].obj, "False"),
                                   deployment[DeploymentOf[worker[k].server]])]
      PROVE  deployment'[d].spec = worker'[k].obj.spec
  <2> DEFINE w == worker[k]
             obj == Mirrored(WithFailure(w.obj, "False"), deployment[DeploymentOf[w.server]])
  <2>1. w \in Active /\ w.obj \in Present /\ DeploymentOf[w.server] \in Deployment
    BY <1>6, WorkerType DEF ApplySucceeds, ReadyToApply
  <2>2. worker'[k].server = w.server /\ worker'[k].obj = obj
    BY <1>6, <2>1 DEF Active
  <2>3. Derives(obj, w.obj)
    BY <2>1, MirroredDerives
  <2>4. PICK order : WriteDeployment(d, Applied(k, w.server, w.obj, w.read, order))
    BY <1>1, <1>6, <2>2 DEF ApplySucceeds, Apply
  <2>5. deployment'[d] = Applied(k, w.server, w.obj, w.read, order)
    BY <1>4, <2>4, WriteMoves
  <2>6. QED
    BY <2>2, <2>3, <2>5 DEF Applied, Derives
<1>7. CASE worker'[k] = worker[k] /\ ~ ApplySucceeds(k)
  <2>1. /\ deployment[d].exists
        /\ deployment'[d].manager = deployment[d].manager
        /\ deployment'[d].owner = deployment[d].owner
        /\ deployment'[d].inc = deployment[d].inc
        /\ deployment'[d].spec = deployment[d].spec
    BY <1>1, <1>5, <1>7, ConfigAssumption DEF DeploymentMoves
  <2>2. /\ worker[k].pc = "updateApplied"
        /\ d = DeploymentOf[worker[k].server]
        /\ deployment[d].manager = k
        /\ deployment[d].owner = worker[k].server
        /\ deployment[d].inc = worker[k].obj.inc
    BY <1>1, <1>7, <2>1
  <2>3. deployment[d].spec = worker[k].obj.spec
    BY <2>1, <2>2 DEF AppliedInv
  <2>4. QED
    BY <1>7, <2>1, <2>3
<1>8. ASSUME worker'[k] = worker[k], ApplySucceeds(k) PROVE FALSE
  BY <1>1, <1>8 DEF ApplySucceeds, ReadyToApply
<1>9. ASSUME NEW r \in Secret, ReadSecret(k, r),
             worker'[k] = [worker[k] EXCEPT !.read[r] = secretCache[r]]
      PROVE  FALSE
  <2>1. worker[k] \in Active /\ worker[k].pc = "build"
    BY <1>9, WorkerType DEF ReadSecret
  <2>2. QED
    BY <1>1, <1>9, <2>1 DEF Active
<1>10. worker'[k] # Idle
  BY <1>1 DEF Idle
<1>11. ASSUME NEW s \in Server,
              worker'[k] = [pc |-> "build", server |-> s, obj |-> serverCache[s],
                            read |-> NoContent]
       PROVE  FALSE
  BY <1>1, <1>11
<1>12. QED
  BY <1>1, <1>3, <1>6, <1>7, <1>8, <1>9, <1>10, <1>11 DEF WorkerMoves

LEMMA ClaimedInvNext ==
    ASSUME TypeOK, VersionInv, KindInv, SightInv, late = {}, ClaimedInv, [Next]_vars, faults' = 0
    PROVE  ClaimedInv'
<1>1. SUFFICES ASSUME NEW s \in Server, ClaimsApplied(s)', worker'[KindOf[s]].server = s
               PROVE  /\ worker'[KindOf[s]].obj.inc = server'[s].inc
                      /\ worker'[KindOf[s]].obj.spec = server'[s].spec
  BY DEF ClaimedInv
<1> DEFINE k == KindOf[s]
<1>2. k \in Kind /\ s # NoServer
  BY ConfigAssumption
<1>3. worker'[k].pc # "idle"
  BY <1>1, <1>2, TypeNext DEF TypeOK, Active, Idle, Pc
<1>4. server'[s] = server[s]
  <2>1. server'[s].exists
    BY <1>1 DEF ClaimsApplied, Alive
  <2>2. ~ Created(s)
    BY <1>1 DEF ClaimsApplied, Created, NoStatus
  <2>3. ~ Edited(s)
    <3>1. SUFFICES ASSUME Edited(s) PROVE FALSE
      OBVIOUS
    <3>2. server[s] \in Present
      BY <3>1, ExistsIsPresent DEF Edited, TypeOK
    <3>3. /\ server[s].status.observedGeneration \in Nat
          /\ server[s].generation \in Nat
          /\ server[s].status.observedGeneration <= server[s].generation
      BY <3>2 DEF Present, Status, SightInv, ObservedInv
    <3>4. QED
      BY <1>1, <3>1, <3>3 DEF ClaimsApplied, Edited
  <2>4. ASSUME NEW j \in Kind, worker[j].server = s,
               UpdateAfterError(j) \/ UpdateAfterApply(j) \/ UpdateFails(j)
        PROVE  FALSE
    <3>1. worker[j].pc # "idle"
      BY <2>4 DEF UpdateAfterError, UpdateAfterApply, UpdateFails
    <3>2. j = k
      BY <2>4, <3>1 DEF KindInv
    <3>3. worker'[k] = Idle
      BY <1>2, <2>4, <3>2 DEF UpdateAfterError, UpdateAfterApply, UpdateFails, TypeOK
    <3>4. QED
      BY <1>3, <3>3 DEF Idle
  <2>5. QED
    BY <2>1, <2>2, <2>3, <2>4, EveryServerMoves DEF ServerMoves, Writes, StatusWritten
<1>5. ClaimsApplied(s)
  BY <1>1, <1>4 DEF ClaimsApplied, Alive
<1>6. CASE /\ worker[k].pc # "idle"
           /\ worker'[k].server = worker[k].server
           /\ Derives(worker'[k].obj, worker[k].obj)
  BY <1>1, <1>4, <1>5, <1>6 DEF ClaimedInv, Derives
<1>7. CASE worker'[k].obj = serverCache[s]
  BY <1>4, <1>5, <1>7 DEF ClaimsApplied, Alive, SightInv, SeenInv
<1>8. QED
  BY <1>1, <1>2, <1>3, <1>6, <1>7, CopiesStep DEF WorkerStep

LEMMA HonestNext ==
    ASSUME TypeOK, VersionInv, KindInv, SightInv, FailedInv, HonestInv, [Next]_vars, faults' = 0
    PROVE  StatusHonest'
<1>1. SUFFICES ASSUME NEW s \in Server, ClaimsApplied(s)', Applier(s)'
               PROVE  deployment'[DeploymentOf[s]].spec = server'[s].spec
  BY DEF StatusHonest
<1> DEFINE k == KindOf[s]
           d == DeploymentOf[s]
<1>2. k \in Kind /\ d \in Deployment /\ s # NoServer
  BY ConfigAssumption
<1>3. late = {} /\ AppliedInv /\ ClaimedInv /\ StatusHonest
  BY DEF HonestInv
<1>4. ServerMoves(s) /\ DeploymentMoves(d)
  BY <1>2, <1>3, EveryServerMoves, EveryDeploymentMoves
<1>5. /\ server'[s].exists
      /\ server'[s].status.failure = "False"
      /\ deployment'[d].exists
      /\ deployment'[d].manager = k
      /\ deployment'[d].owner = s
      /\ deployment'[d].inc = server'[s].inc
  BY <1>1 DEF ClaimsApplied, Alive, Applier
<1>6. CASE server'[s] = server[s]
  <2>1. ClaimsApplied(s)
    BY <1>1, <1>6 DEF ClaimsApplied, Alive
  <2>2. CASE /\ deployment[d].exists
             /\ deployment'[d].manager = deployment[d].manager
             /\ deployment'[d].owner = deployment[d].owner
             /\ deployment'[d].inc = deployment[d].inc
             /\ deployment'[d].spec = deployment[d].spec
    <3>1. Applier(s)
      BY <1>5, <1>6, <2>2 DEF Applier
    <3>2. QED
      BY <1>3, <1>6, <2>1, <2>2, <3>1 DEF StatusHonest
  <2>3. ASSUME NEW j \in Kind, deployment'[d].manager = j,
               deployment'[d].owner = worker[j].server,
               deployment'[d].spec = worker[j].obj.spec
        PROVE  deployment'[d].spec = server'[s].spec
    BY <1>3, <1>5, <1>6, <2>1, <2>3 DEF ClaimedInv
  <2>4. QED
    BY <1>2, <1>4, <1>5, <2>2, <2>3, ConfigAssumption DEF DeploymentMoves
<1>7. ASSUME NEW w, Writes(w), StatusWritten(s, w)
      PROVE  deployment'[d].spec = server'[s].spec
  <2>1. PICK j \in Kind : w = worker[j] /\ (UpdateAfterError(j) \/ UpdateAfterApply(j))
    BY <1>3, <1>7, NoFault DEF Writes
  <2>2. /\ w.obj.inc = server[s].inc
        /\ w.obj.spec = server[s].spec
        /\ server'[s].status = w.obj.status
        /\ server'[s].inc = server[s].inc
        /\ server'[s].spec = server[s].spec
    BY <1>7, WrittenIsSeen DEF SightInv
  <2>3. j = k /\ w.server = s
    BY <1>7, <2>1 DEF StatusWritten, KindInv, UpdateAfterError, UpdateAfterApply
  <2>4. UpdateAfterApply(j)
    BY <1>5, <2>1, <2>2 DEF UpdateAfterError, FailedInv
  <2>5. deployment' = deployment /\ w.pc = "updateApplied"
    BY <2>1, <2>4 DEF UpdateAfterApply
  <2>6. QED
    BY <1>3, <1>5, <2>1, <2>2, <2>3, <2>5 DEF AppliedInv
<1>8. ~ Created(s)
  BY <1>1 DEF ClaimsApplied, Created, NoStatus
<1>9. ~ Edited(s)
  <2>1. SUFFICES ASSUME Edited(s) PROVE FALSE
    OBVIOUS
  <2>2. server[s] \in Present
    BY <2>1, ExistsIsPresent DEF Edited, TypeOK
  <2>3. /\ server[s].status.observedGeneration \in Nat
        /\ server[s].generation \in Nat
        /\ server[s].status.observedGeneration <= server[s].generation
    BY <2>2 DEF Present, Status, SightInv, ObservedInv
  <2>4. QED
    BY <1>1, <2>1, <2>3 DEF ClaimsApplied, Edited
<1>10. QED
  BY <1>4, <1>5, <1>6, <1>7, <1>8, <1>9 DEF ServerMoves

\* While no call fails and no process crashes, a status that says "Applied" of the
\* current generation is true of the Deployment in every state, however the server
\* is edited, deleted and created while it is being reconciled.
THEOREM StatusIsHonest == ReconcilerSpec => [](faults = 0 => StatusHonest)
<1> DEFINE Inv == FailedInv /\ (faults = 0 => HonestInv)
<1>1. Init => SightInv /\ Inv
  <2>1. ASSUME Init, NEW s \in Server PROVE ~ Applier(s)
    <3>1. deployment[DeploymentOf[s]] = NoDeployment
      BY <2>1, ConfigAssumption DEF Init
    <3>2. QED
      BY <3>1 DEF Applier, NoDeployment
  <2>2. ASSUME Init, NEW s \in Server PROVE worker[KindOf[s]].server # s
    BY <2>2, ConfigAssumption DEF Init, Idle
  <2>3. ASSUME Init, NEW k \in Kind PROVE worker[k].pc = "idle"
    BY <2>3 DEF Init, Idle
  <2>4. Init => late = {}
    BY DEF Init
  <2>5. QED
    BY <2>1, <2>2, <2>3, <2>4, SightInvInit
    DEF FailedInv, HonestInv, AppliedInv, ClaimedInv, StatusHonest
<1>2. TypeOK /\ VersionInv /\ WakeupInv /\ SightInv /\ Inv /\ [Next]_vars => SightInv' /\ Inv'
  <2> SUFFICES ASSUME TypeOK, VersionInv, WakeupInv, SightInv, Inv, [Next]_vars
               PROVE  SightInv' /\ Inv'
    OBVIOUS
  <2>1. KindInv
    BY DEF WakeupInv
  <2>2. SightInv' /\ FailedInv'
    BY SightInvNext, FailedInvNext
  <2>3. ASSUME faults' = 0 PROVE HonestInv'
    <3>1. faults = 0 /\ ~ Crash /\ \A k \in Kind : ~ ApplyFails(k)
      BY <2>3, NoFault
    <3>2. late = {} /\ AppliedInv /\ ClaimedInv /\ HonestInv
      BY <3>1 DEF HonestInv
    <3>3. late' = {}
      <4>1. CASE UNCHANGED vars \/ Deliver \/ Environment \/ Collect
        BY <3>2, <4>1 DEF vars, Deliver, SyncServer, SyncSecret, HandleSecretEvent,
              SyncDeployment, Resync, Requeue, Environment, CreateServer, EditSpec, DeleteServer,
              DeleteForeground, SetSecret, ReportHealth, DeleteDeployment, ForeignEdit, Change,
              Collect, CollectGarbage, FinishDeletion
      <4>2. ASSUME NEW k \in Kind, Reconcile(k) \/ UpdateFails(k) PROVE late' = {}
        BY <3>2, <4>2 DEF Reconcile, Start, ReadSecret, BuildError, ApplySucceeds, ApplyIsRefused,
              MirrorAfterError, UpdateAfterError, UpdateAfterApply, UpdateFails
      <4>3. QED
        BY <3>1, <3>2, <4>1, <4>2 DEF Next
    <3>4. QED
      BY <2>1, <2>3, <3>2, <3>3, AppliedInvNext, ClaimedInvNext, HonestNext DEF HonestInv
  <2>4. QED
    BY <2>2, <2>3
<1>3. Inv => (faults = 0 => StatusHonest)
  BY DEF HonestInv
<1>4. QED
  BY <1>1, <1>2, <1>3, WakeupCorrect, PTL DEF ReconcilerSpec
=====================================================================================
