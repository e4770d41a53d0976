---------------------------- MODULE DeploymentReconciler ----------------------------
(***************************************************************************)
(* The reconcilers that host a control-plane component in a Deployment:    *)
(* KubeAPIServer, KubeControllerManager and KubeScheduler.  Their          *)
(* controllers have one shape, so a Kind is a parameter; the functions     *)
(* named in comments have the same name, or that of their kind, in each.   *)
(*                                                                         *)
(* A controller reads lagging informer caches, writes to the API server    *)
(* and is woken by a workqueue.  A "server" is a custom resource of any of *)
(* the three kinds.                                                        *)
(***************************************************************************)
EXTENDS Naturals

CONSTANTS
    Server,         \* custom resources, of every kind, by name
    Kind,           \* controllers, each with one worker
    KindOf,         \* the kind of a server
    Deployment,     \* names a Deployment can have
    DeploymentOf,   \* the Deployment name of a server: its own name
    Secret,
    Data,           \* contents of a secret
    Absent,         \* a secret that does not exist
    Spec,           \* what the user may ask of a server
    NoSpec,
    Refs,           \* the secrets a spec references
    Health,         \* what a Deployment's status reports of its availability
    SelectorOf,     \* the label selector a spec renders to (immutable once deployed)
    Orders,         \* in how many orders the maps of a spec can be iterated
    NoServer,
    Contested,      \* the Deployments other field managers touch
    Foreign,        \* a field manager that is none of the controllers
    MaxChanges,     \* bound: changes made by users, kubelets, other controllers
    MaxFaults       \* bound: crashes and failed API calls

ASSUME ConfigAssumption ==
    /\ KindOf \in [Server -> Kind]
    /\ DeploymentOf \in [Server -> Deployment]
    /\ Refs \in [Spec -> SUBSET Secret]
    /\ Orders \in [Spec -> Nat \ {0}]
    /\ "Unknown" \in Health
    /\ Absent \notin Data
    /\ NoSpec \notin Spec
    /\ NoServer \notin Server
    /\ Foreign \notin Kind
    /\ Contested \subseteq Deployment
    /\ MaxChanges \in Nat
    /\ MaxFaults \in Nat

VARIABLES
    server, secret, deployment,                   \* the API server's objects
    serverCache, secretCache, deploymentCache,    \* the informers' copies
    secretWatch,    \* secrets with a creation or deletion the informer has not seen
    deploymentWatch,    \* the owners in the changes of a Deployment it has not seen
    secretEvent,    \* <<k, r>>: an event of secret r not yet handled by controller k
    queue,          \* servers waiting in their controller's workqueue
    backoff,        \* servers whose rate-limited requeue is pending
    worker,         \* the worker of each controller
    late,           \* requests of a crashed process that may still take effect
    changes, faults \* how much of MaxChanges and MaxFaults is used up

store  == <<server, secret, deployment>>
caches == <<serverCache, secretCache, deploymentCache>>
watches == <<secretWatch, deploymentWatch>>
events == <<secretEvent, queue, backoff>>
bounds == <<changes, faults>>
vars   == <<store, caches, watches, events, worker, late, bounds>>

-----------------------------------------------------------------------------
(* Objects.  An absent object keeps the counters the API server never      *)
(* reuses: inc numbers incarnations (the uid), rv is the resourceVersion.  *)

\* "Unset": no condition; "Unknown": what is mirrored of a Deployment without one.
DeploymentFailure == {"Unset", "True", "Unknown", "False"}

Status == [failure: DeploymentFailure, available: Health \cup {"Unset"},
           observedGeneration: Nat]
NoStatus == [failure |-> "Unset", available |-> "Unset", observedGeneration |-> 0]

Present == [exists: {TRUE}, inc: Nat, rv: Nat, generation: Nat,
            spec: Spec, deleting: BOOLEAN, status: Status]
Gone == [exists: {FALSE}, inc: Nat, rv: Nat, generation: {0},
         spec: {NoSpec}, deleting: {FALSE}, status: {NoStatus}]
ServerObject == Present \cup Gone
NoServerObject == [exists |-> FALSE, inc |-> 0, rv |-> 0, generation |-> 0,
                   spec |-> NoSpec, deleting |-> FALSE, status |-> NoStatus]

Content == [Secret -> Data \cup {Absent}]
NoContent == [r \in Secret |-> Absent]

\* manager: the one field manager, unless another holds a field with a value
\* that differs from what the controllers apply (then it is Foreign).
\* order: the order in which the command line lists what the spec has in maps.
DeploymentObject == [exists: BOOLEAN, manager: Kind \cup {Foreign},
                     owner: Server \cup {NoServer}, inc: Nat,
                     spec: Spec \cup {NoSpec}, order: Nat, checksums: Content,
                     health: Health]
NoDeployment == [exists |-> FALSE, manager |-> Foreign, owner |-> NoServer, inc |-> 0,
                 spec |-> NoSpec, order |-> 0, checksums |-> NoContent, health |-> "Unknown"]

\* What Reconcile holds: the object it works on and the secrets read so far.
Pc == {"build", "mirror", "updateFailed", "updateApplied"}
Active == [pc: Pc, server: Server, obj: Present, read: Content]
Idle == [pc |-> "idle", server |-> NoServer, obj |-> NoServerObject, read |-> NoContent]

Init ==
    /\ secret \in Content
    /\ server \in [Server -> {NoServerObject} \cup
         {[NoServerObject EXCEPT !.exists = TRUE, !.inc = 1, !.rv = 1,
                                 !.generation = 1, !.spec = x] : x \in Spec}]
    /\ deployment = [d \in Deployment |-> NoDeployment]
    /\ serverCache = server
    /\ secretCache = secret
    /\ deploymentCache = deployment
    /\ secretWatch = {}
    /\ deploymentWatch = [d \in Deployment |-> {}]
    /\ secretEvent = {}
    /\ queue = {s \in Server : server[s].exists}
    /\ backoff = {}
    /\ worker = [k \in Kind |-> Idle]
    /\ late = {}
    /\ changes = 0
    /\ faults = 0

-----------------------------------------------------------------------------
(* Event delivery (SetupWithManager).  A watch delivers every change of an  *)
(* object; when it lags, a sync step takes all outstanding changes of one   *)
(* object at once and the cache then holds the current version.             *)

\* Mutant: the controllers do not watch the Deployments they own.
OwnersNotWatched(d) == {}

\* EnqueueRequestForOwner: the controller owner, by name, whatever its uid.
OwnersOf(d) == IF d.exists /\ d.owner # NoServer THEN {d.owner} ELSE {}

\* For(&KubeAPIServer{}) has no predicate: any event enqueues the server.
SyncServer(s) ==
    /\ serverCache[s] # server[s]
    /\ serverCache' = [serverCache EXCEPT ![s] = server[s]]
    /\ queue' = queue \cup {s}
    /\ UNCHANGED <<store, secretCache, deploymentCache, watches, secretEvent, backoff,
                   worker, late, bounds>>

\* GenerationChangedPredicate passes creations and deletions; a secret has no
\* generation, so it drops every update.
SecretEventPasses(old, new) == old = Absent \/ new = Absent

SyncSecret(r) ==
    /\ secretCache[r] # secret[r] \/ r \in secretWatch
    /\ secretCache' = [secretCache EXCEPT ![r] = secret[r]]
    /\ secretWatch' = secretWatch \ {r}
    /\ secretEvent' = secretEvent \cup (Kind \X (secretWatch \cap {r}))
    /\ UNCHANGED <<store, serverCache, deploymentCache, deploymentWatch, queue, backoff,
                   worker, late, bounds>>

\* enqueueReferencingAPIServers: the servers that, in the cache at the time the
\* handler runs, reference the secret.
Referencing(k, r) ==
    {s \in Server : /\ KindOf[s] = k
                    /\ serverCache[s].exists
                    /\ r \in Refs[serverCache[s].spec]}

HandleSecretEvent(k, r) ==
    /\ <<k, r>> \in secretEvent
    /\ secretEvent' = secretEvent \ {<<k, r>>}
    /\ queue' = queue \cup Referencing(k, r)
    /\ UNCHANGED <<store, caches, watches, backoff, worker, late, bounds>>

\* Owns(&Deployment{}): the owners before and after each change.
SyncDeployment(d) ==
    /\ deploymentCache[d] # deployment[d] \/ deploymentWatch[d] # {}
    /\ deploymentCache' = [deploymentCache EXCEPT ![d] = deployment[d]]
    /\ queue' = queue \cup deploymentWatch[d]
    /\ deploymentWatch' = [deploymentWatch EXCEPT ![d] = {}]
    /\ UNCHANGED <<store, serverCache, secretCache, secretWatch, secretEvent, backoff,
                   worker, late, bounds>>

\* The informers' periodic resync: an update event for every cached object.
\* Those of secrets are dropped by the predicate.
Resync ==
    LET woken == {s \in Server : serverCache[s].exists}
                 \cup UNION {OwnersOf(deploymentCache[d]) : d \in Deployment}
    IN  /\ ~ woken \subseteq queue
        /\ queue' = queue \cup woken
        /\ UNCHANGED <<store, caches, watches, secretEvent, backoff, worker, late, bounds>>

\* The delay of AddRateLimited is over.
Requeue(s) ==
    /\ s \in backoff
    /\ backoff' = backoff \ {s}
    /\ queue' = queue \cup {s}
    /\ UNCHANGED <<store, caches, watches, secretEvent, worker, late, bounds>>

-----------------------------------------------------------------------------
(* Writes the API server performs.                                         *)

\* Mutant: a status patch without optimistic lock.
UpdateUnchecked(s, obj) == server[s].exists

\* Status().Update: refused unless the object still has the resourceVersion
\* that was read; an update that changes nothing makes no new version.
UpdateAccepted(s, obj) == server[s].exists /\ server[s].rv = obj.rv

StatusUpdated(s, obj) ==
    IF UpdateAccepted(s, obj) /\ server[s].status # obj.status
    THEN [server EXCEPT ![s] = [server[s] EXCEPT !.status = obj.status, !.rv = @ + 1]]
    ELSE server

\* Server-side apply without force: refused when another manager holds a field,
\* or when it would change the selector.  It checks no resourceVersion.
ApplyAccepted(k, s, spec) ==
    LET d == deployment[DeploymentOf[s]]
    IN  d.exists => d.manager = k /\ SelectorOf[d.spec] = SelectorOf[spec]

\* Mutant: checksums are set when the Deployment is created, and only then.
AppliedKeepingChecksums(k, s, obj, read, order) ==
    LET d == deployment[DeploymentOf[s]]
    IN  [exists |-> TRUE, manager |-> k, owner |-> s, inc |-> obj.inc,
         spec |-> obj.spec, order |-> order,
         checksums |-> IF d.exists THEN d.checksums ELSE read, health |-> d.health]

Applied(k, s, obj, read, order) ==
    [exists |-> TRUE, manager |-> k, owner |-> s, inc |-> obj.inc,
     spec |-> obj.spec, order |-> order, checksums |-> read,
     health |-> deployment[DeploymentOf[s]].health]

\* Mutant: only creations and deletions of owned Deployments pass the watch.
WriteDeploymentSilently(d, new) ==
    /\ deployment' = [deployment EXCEPT ![d] = new]
    /\ deploymentWatch' = IF new.exists = deployment[d].exists THEN deploymentWatch
                          ELSE [deploymentWatch EXCEPT ![d] =
                                  @ \cup OwnersOf(deployment[d]) \cup OwnersOf(new)]

\* Any write of a Deployment; one that changes nothing is not an event.
WriteDeployment(d, new) ==
    /\ deployment' = [deployment EXCEPT ![d] = new]
    /\ deploymentWatch' = IF new = deployment[d] THEN deploymentWatch
                          ELSE [deploymentWatch EXCEPT ![d] =
                                  @ \cup OwnersOf(deployment[d]) \cup OwnersOf(new)]

\* Mutant: the command line lists something that has no order of its own.
AnyOrder(x) == 1..2

\* featureGates and runtimeConfig are rendered by ranging over a map.
RenderedOrders(x) == 1..Orders[x]

Apply(k, w) ==
    /\ ApplyAccepted(k, w.server, w.obj.spec)
    /\ \E order \in RenderedOrders(w.obj.spec) :
         WriteDeployment(DeploymentOf[w.server], Applied(k, w.server, w.obj, w.read, order))

-----------------------------------------------------------------------------
(* Reconcile                                                               *)

\* mirrorDeploymentStatus
Mirrored(obj, d) ==
    [obj EXCEPT !.status.available = d.health, !.status.observedGeneration = obj.generation]

WithFailure(obj, f) == [obj EXCEPT !.status.failure = f]

\* Mutant: a missing object is not told from one that exists.
StartUnlessDeleting(k, s) ==
    /\ worker[k].pc = "idle" /\ KindOf[s] = k /\ s \in queue
    /\ queue' = queue \ {s}
    /\ worker' = IF ~ serverCache[s].deleting
                 THEN [worker EXCEPT ![k] = [pc |-> "build", server |-> s,
                                             obj |-> serverCache[s], read |-> NoContent]]
                 ELSE worker
    /\ UNCHANGED <<store, caches, watches, secretEvent, backoff, late, bounds>>

\* Mutant: reconcileExists does not look at the deletion timestamp.
StartWhileDeleting(k, s) ==
    /\ worker[k].pc = "idle" /\ KindOf[s] = k /\ s \in queue
    /\ queue' = queue \ {s}
    /\ worker' = IF serverCache[s].exists
                 THEN [worker EXCEPT ![k] = [pc |-> "build", server |-> s,
                                             obj |-> serverCache[s], read |-> NoContent]]
                 ELSE worker
    /\ UNCHANGED <<store, caches, watches, secretEvent, backoff, late, bounds>>

\* Dequeue, Get from the cache, and the early returns of Reconcile and
\* reconcileExists: nothing to do for an object that is gone or being deleted.
Start(k, s) ==
    /\ worker[k].pc = "idle"
    /\ KindOf[s] = k
    /\ s \in queue
    /\ queue' = queue \ {s}
    /\ worker' = IF serverCache[s].exists /\ ~ serverCache[s].deleting
                 THEN [worker EXCEPT ![k] = [pc |-> "build", server |-> s,
                                             obj |-> serverCache[s], read |-> NoContent]]
                 ELSE worker
    /\ UNCHANGED <<store, caches, watches, secretEvent, backoff, late, bounds>>

Unread(w) == {r \in Refs[w.obj.spec] : w.read[r] = Absent}

\* Resolve: the referenced secrets are read one by one, in no fixed order.
ReadSecret(k, r) ==
    /\ worker[k].pc = "build"
    /\ r \in Unread(worker[k])
    /\ secretCache[r] # Absent
    /\ worker' = [worker EXCEPT ![k].read[r] = secretCache[r]]
    /\ UNCHANGED <<store, caches, watches, events, late, bounds>>

BuildError(k) ==
    /\ worker[k].pc = "build"
    /\ \E r \in Unread(worker[k]) : secretCache[r] = Absent
    /\ worker' = [worker EXCEPT ![k].pc = "mirror", ![k].obj = WithFailure(@, "True")]
    /\ UNCHANGED <<store, caches, watches, events, late, bounds>>

\* Mutant: secrets that are not found are skipped.
ReadyWithoutMissing(w) ==
    w.pc = "build" /\ \A r \in Unread(w) : secretCache[r] = Absent

ReadyToApply(w) == w.pc = "build" /\ Unread(w) = {}

\* Mutant: create the Deployment if there is none, and report success.
CreateIfAbsent(k) ==
    LET w == worker[k]
        d == DeploymentOf[w.server]
    IN  /\ ReadyToApply(w)
        /\ IF deployment[d].exists THEN UNCHANGED <<deployment, deploymentWatch>> ELSE Apply(k, w)
        /\ worker' = [worker EXCEPT ![k].pc = "updateApplied",
                        ![k].obj = Mirrored(WithFailure(@, "False"), deployment[d])]
        /\ UNCHANGED <<server, secret, caches, secretWatch, events, late, bounds>>

ApplySucceeds(k) ==
    LET w == worker[k]
        d == DeploymentOf[w.server]
    IN  /\ ReadyToApply(w)
        /\ Apply(k, w)
        /\ worker' = [worker EXCEPT ![k].pc = "updateApplied",
                        ![k].obj = Mirrored(WithFailure(@, "False"), deployment[d])]
        /\ UNCHANGED <<server, secret, caches, secretWatch, events, late, bounds>>

ApplyIsRefused(k) ==
    LET w == worker[k]
    IN  /\ ReadyToApply(w)
        /\ ~ ApplyAccepted(k, w.server, w.obj.spec)
        /\ worker' = [worker EXCEPT ![k].pc = "mirror", ![k].obj = WithFailure(@, "Unknown")]
        /\ UNCHANGED <<store, caches, watches, events, late, bounds>>

\* The call fails: before the API server performed it, after, or while the
\* request is still on its way.
ApplyFails(k) ==
    LET w == worker[k]
    IN  /\ ReadyToApply(w)
        /\ faults < MaxFaults
        /\ faults' = faults + 1
        /\ \/ UNCHANGED <<deployment, deploymentWatch, late>>
           \/ Apply(k, w) /\ UNCHANGED late
           \/ late' = late \cup {w} /\ UNCHANGED <<deployment, deploymentWatch>>
        /\ worker' = [worker EXCEPT ![k].pc = "mirror", ![k].obj = WithFailure(@, "Unknown")]
        /\ UNCHANGED <<server, secret, caches, secretWatch, events, changes>>

\* fetchAndMirrorDeploymentStatus: a Get by name from the cache; NotFound is logged.
MirrorAfterError(k) ==
    LET w == worker[k]
        d == deploymentCache[DeploymentOf[w.server]]
    IN  /\ w.pc = "mirror"
        /\ worker' = [worker EXCEPT ![k].pc = "updateFailed",
                        ![k].obj = IF d.exists THEN Mirrored(@, d) ELSE @]
        /\ UNCHANGED <<store, caches, watches, events, late, bounds>>

\* The status update on the error path: its own error is only logged, and
\* Reconcile returns the build or apply error.
UpdateAfterError(k) ==
    LET w == worker[k]
    IN  /\ w.pc = "updateFailed"
        /\ server' = StatusUpdated(w.server, w.obj)
        /\ worker' = [worker EXCEPT ![k] = Idle]
        /\ backoff' = backoff \cup {w.server}
        /\ UNCHANGED <<secret, deployment, caches, watches, secretEvent, queue, late, bounds>>

\* Mutant: on a conflict, apply and update again with the object at hand.
RetryInPlace(k) ==
    LET w == worker[k]
    IN  /\ w.pc = "updateApplied"
        /\ server' = StatusUpdated(w.server, w.obj)
        /\ worker' = IF UpdateAccepted(w.server, w.obj) THEN [worker EXCEPT ![k] = Idle]
                     ELSE [worker EXCEPT ![k].pc = "build"]
        /\ UNCHANGED <<secret, deployment, caches, watches, events, late, bounds>>

UpdateAfterApply(k) ==
    LET w == worker[k]
    IN  /\ w.pc = "updateApplied"
        /\ server' = StatusUpdated(w.server, w.obj)
        /\ worker' = [worker EXCEPT ![k] = Idle]
        /\ backoff' = IF UpdateAccepted(w.server, w.obj) THEN backoff
                      ELSE backoff \cup {w.server}
        /\ UNCHANGED <<secret, deployment, caches, watches, secretEvent, queue, late, bounds>>

UpdateFails(k) ==
    LET w == worker[k]
    IN  /\ w.pc \in {"updateFailed", "updateApplied"}
        /\ faults < MaxFaults
        /\ faults' = faults + 1
        /\ server' \in {server, StatusUpdated(w.server, w.obj)}
        /\ worker' = [worker EXCEPT ![k] = Idle]
        /\ backoff' = backoff \cup {w.server}
        /\ UNCHANGED <<secret, deployment, caches, watches, secretEvent, queue, late, changes>>

Reconcile(k) ==
    \/ \E s \in Server : Start(k, s)
    \/ \E r \in Secret : ReadSecret(k, r)
    \/ BuildError(k) \/ ApplySucceeds(k) \/ ApplyIsRefused(k)
    \/ MirrorAfterError(k) \/ UpdateAfterError(k) \/ UpdateAfterApply(k)

-----------------------------------------------------------------------------
(* Crash and restart of the manager process                                *)

\* A worker about to write may have its request under way.
Sending(w) == ReadyToApply(w) \/ w.pc \in {"updateFailed", "updateApplied"}

\* After a restart the informers list everything, and the creation events of
\* servers and Deployments fill the workqueues before a worker starts.
Crash ==
    /\ faults < MaxFaults
    /\ faults' = faults + 1
    /\ \E sent \in SUBSET {k \in Kind : Sending(worker[k])} :
         late' = late \cup {worker[k] : k \in sent}
    /\ worker' = [k \in Kind |-> Idle]
    /\ serverCache' = server
    /\ secretCache' = secret
    /\ deploymentCache' = deployment
    /\ secretWatch' = {}
    /\ deploymentWatch' = [d \in Deployment |-> {}]
    /\ secretEvent' = {}
    /\ backoff' = {}
    /\ queue' = {s \in Server : server[s].exists}
                \cup UNION {OwnersOf(deployment[d]) : d \in Deployment}
    /\ UNCHANGED <<store, changes>>

LandLate(w) ==
    /\ w \in late
    /\ late' = late \ {w}
    /\ \/ UNCHANGED <<server, deployment, deploymentWatch>>    \* the request was never sent
       \/ /\ w.pc = "build"
          /\ Apply(KindOf[w.server], w)
          /\ server' = server
       \/ /\ w.pc # "build"
          /\ server' = StatusUpdated(w.server, w.obj)
          /\ UNCHANGED <<deployment, deploymentWatch>>
    /\ UNCHANGED <<secret, caches, secretWatch, events, worker, bounds>>

-----------------------------------------------------------------------------
(* The surroundings: users, kube-controller-manager's Deployment and       *)
(* garbage-collection controllers, other field managers.                   *)

Change ==
    /\ changes < MaxChanges
    /\ changes' = changes + 1
    /\ UNCHANGED <<caches, events, worker, late, faults>>

CreateServer(s) ==
    /\ ~ server[s].exists
    /\ \E x \in Spec :
         server' = [server EXCEPT ![s] = [exists |-> TRUE, inc |-> @.inc + 1, rv |-> @.rv + 1,
                      generation |-> 1, spec |-> x, deleting |-> FALSE, status |-> NoStatus]]
    /\ Change
    /\ UNCHANGED <<secret, deployment, watches>>

EditSpec(s) ==
    /\ server[s].exists
    /\ \E x \in Spec \ {server[s].spec} :
         server' = [server EXCEPT ![s].spec = x, ![s].rv = @ + 1, ![s].generation = @ + 1]
    /\ Change
    /\ UNCHANGED <<secret, deployment, watches>>

Removed(s) ==
    [server EXCEPT ![s] = [NoServerObject EXCEPT !.inc = server[s].inc, !.rv = server[s].rv + 1]]

\* Background deletion: the object goes at once, its Deployment is collected later.
DeleteServer(s) ==
    /\ server[s].exists /\ ~ server[s].deleting
    /\ server' = Removed(s)
    /\ Change
    /\ UNCHANGED <<secret, deployment, watches>>

\* Foreground deletion: the object stays, marked, until its Deployment is gone.
DeleteForeground(s) ==
    /\ server[s].exists /\ ~ server[s].deleting
    /\ server' = [server EXCEPT ![s].deleting = TRUE, ![s].rv = @ + 1, ![s].generation = @ + 1]
    /\ Change
    /\ UNCHANGED <<secret, deployment, watches>>

\* Create, rotate or delete a secret.
SetSecret(r) ==
    /\ \E v \in (Data \cup {Absent}) \ {secret[r]} :
         /\ secret' = [secret EXCEPT ![r] = v]
         /\ secretWatch' = IF SecretEventPasses(secret[r], v)
                           THEN secretWatch \cup {r} ELSE secretWatch
    /\ Change
    /\ UNCHANGED <<server, deployment, deploymentWatch>>

ReportHealth(d) ==
    /\ deployment[d].exists
    /\ \E h \in Health \ {deployment[d].health} :
         WriteDeployment(d, [deployment[d] EXCEPT !.health = h])
    /\ Change
    /\ UNCHANGED <<server, secret, secretWatch>>

DeleteDeployment(d) ==
    /\ deployment[d].exists
    /\ WriteDeployment(d, NoDeployment)
    /\ Change
    /\ UNCHANGED <<server, secret, secretWatch>>

\* Somebody else creates the Deployment, or takes over a field of it.
ForeignEdit(d) ==
    /\ d \in Contested
    /\ deployment[d].exists => deployment[d].manager # Foreign
    /\ WriteDeployment(d, [deployment[d] EXCEPT !.exists = TRUE, !.manager = Foreign])
    /\ Change
    /\ UNCHANGED <<server, secret, secretWatch>>

Environment ==
    \/ \E s \in Server : CreateServer(s) \/ EditSpec(s) \/ DeleteServer(s) \/ DeleteForeground(s)
    \/ \E r \in Secret : SetSecret(r)
    \/ \E d \in Deployment : ReportHealth(d) \/ DeleteDeployment(d) \/ ForeignEdit(d)

\* The owner a Deployment names (by uid) is alive.
OwnerAlive(d) ==
    LET s == deployment[d].owner
    IN  server[s].exists /\ server[s].inc = deployment[d].inc

CollectGarbage(d) ==
    /\ deployment[d].exists
    /\ deployment[d].owner # NoServer
    /\ OwnerAlive(d) => server[deployment[d].owner].deleting
    /\ WriteDeployment(d, NoDeployment)
    /\ UNCHANGED <<server, secret, caches, secretWatch, events, worker, late, bounds>>

FinishDeletion(s) ==
    /\ server[s].exists /\ server[s].deleting
    /\ \A d \in Deployment : ~ (deployment[d].exists /\ deployment[d].owner = s /\ OwnerAlive(d))
    /\ server' = Removed(s)
    /\ UNCHANGED <<secret, deployment, caches, watches, events, worker, late, bounds>>

-----------------------------------------------------------------------------
Deliver ==
    \/ \E s \in Server : SyncServer(s) \/ Requeue(s)
    \/ \E r \in Secret : SyncSecret(r) \/ \E k \in Kind : HandleSecretEvent(k, r)
    \/ \E d \in Deployment : SyncDeployment(d)
    \/ Resync

Collect ==
    \/ \E d \in Deployment : CollectGarbage(d)
    \/ \E s \in Server : FinishDeletion(s)

Next ==
    \/ Deliver
    \/ \E k \in Kind : Reconcile(k) \/ ApplyFails(k) \/ UpdateFails(k)
    \/ Crash
    \/ \E w \in late : LandLate(w)
    \/ Environment
    \/ Collect

ReconcilerSpec == Init /\ [][Next]_vars

\* Informers, workqueues and workers keep running, the garbage collector does
\* its work, and a request under way arrives or is lost.  The workqueue is
\* first-in first-out: no queued server is passed over for ever.
Fairness ==
    /\ \A s \in Server : WF_vars(SyncServer(s)) /\ WF_vars(Requeue(s)) /\ WF_vars(FinishDeletion(s))
    /\ \A r \in Secret : WF_vars(SyncSecret(r))
    /\ \A k \in Kind, r \in Secret : WF_vars(HandleSecretEvent(k, r))
    /\ \A d \in Deployment : WF_vars(SyncDeployment(d)) /\ WF_vars(CollectGarbage(d))
    /\ \A k \in Kind : WF_vars(Reconcile(k))
    /\ \A k \in Kind, s \in Server : SF_vars(Start(k, s))
    /\ WF_vars(\E w \in late : LandLate(w))

FairSpec == ReconcilerSpec /\ Fairness

\* The informers' resync period elapses again and again.
ResyncSpec == FairSpec /\ WF_vars(Resync)

-----------------------------------------------------------------------------
(* Properties                                                              *)

\* Every variable has its type.
TypeOK ==
    /\ server \in [Server -> ServerObject]
    /\ serverCache \in [Server -> ServerObject]
    /\ secret \in Content
    /\ secretCache \in Content
    /\ deployment \in [Deployment -> DeploymentObject]
    /\ deploymentCache \in [Deployment -> DeploymentObject]
    /\ secretWatch \in SUBSET Secret
    /\ deploymentWatch \in [Deployment -> SUBSET Server]
    /\ secretEvent \in SUBSET (Kind \X Secret)
    /\ queue \in SUBSET Server
    /\ backoff \in SUBSET Server
    /\ worker \in [Kind -> Active \cup {Idle}]
    /\ late \in SUBSET Active
    /\ changes \in Nat
    /\ faults \in Nat

Alive(s) == server[s].exists /\ ~ server[s].deleting

\* The server's Deployment is the one its current spec and incarnation render to.
Hosted(s) ==
    LET d == deployment[DeploymentOf[s]]
    IN  /\ d.exists
        /\ d.manager = KindOf[s]
        /\ d.owner = s
        /\ d.inc = server[s].inc
        /\ d.spec = server[s].spec

\* Nothing is under way that would reconcile s (again): its cached copy is
\* current, no change of its Deployment or its secrets is undelivered, and it is
\* neither queued, nor waiting for a retry, nor in the hands of the worker.
Quiet(s) ==
    /\ serverCache[s] = server[s]
    /\ s \notin deploymentWatch[DeploymentOf[s]]
    /\ \A r \in Refs[server[s].spec] : r \notin secretWatch /\ <<KindOf[s], r>> \notin secretEvent
    /\ s \notin queue \cup backoff
    /\ worker[KindOf[s]].server # s

\* No wake-up is lost: a live server that nothing will reconcile again is hosted
\* as its spec says, has every secret it references, and its status reports
\* success, the current generation and the Deployment's health.  Reconcile
\* returns an error whenever it does not get there, and the watches wake it for
\* whatever changed after it had read it.
NoLostWakeup ==
    \A s \in Server : Alive(s) /\ Quiet(s) =>
        /\ Hosted(s)
        /\ \A r \in Refs[server[s].spec] : secret[r] # Absent
        /\ server[s].status = [failure |-> "False",
                               available |-> deployment[DeploymentOf[s]].health,
                               observedGeneration |-> server[s].generation]

\* The Deployment s has applied is still its own.
Applier(s) ==
    LET d == deployment[DeploymentOf[s]]
    IN  d.exists /\ d.manager = KindOf[s] /\ d.owner = s /\ d.inc = server[s].inc

ClaimsApplied(s) ==
    /\ Alive(s)
    /\ server[s].status.failure = "False"
    /\ server[s].status.observedGeneration = server[s].generation

\* While no API call fails and no process crashes, a status that says "Applied"
\* of the current generation tells the truth: the Deployment, if it is still
\* there, has that generation's spec (reconcile, from the Get to the status update).
StatusHonest ==
    \A s \in Server : ClaimsApplied(s) /\ Applier(s) =>
        deployment[DeploymentOf[s]].spec = server[s].spec

\* With failed calls and crashes an old request may overwrite a newer
\* Deployment behind the status's back; then the repair is already on its way.
LieIsRepaired ==
    \A s \in Server : ClaimsApplied(s) /\ Applier(s) =>
        \/ deployment[DeploymentOf[s]].spec = server[s].spec
        \/ s \in deploymentWatch[DeploymentOf[s]]
        \/ s \in queue \cup backoff
        \/ worker[KindOf[s]].server = s

\* A Deployment carries a checksum of every secret its spec mounts and of no
\* other, whatever was edited while the secrets were being read (Resolve).
ChecksumsComplete ==
    \A d \in Deployment : deployment[d].spec # NoSpec =>
        {r \in Secret : deployment[d].checksums[r] # Absent} = Refs[deployment[d].spec]

\* A status that is written describes the generation it is written to: a status
\* computed from an older object never lands on a newer one (Status().Update).
StatusOfCurrentGeneration ==
    [][\A s \in Server :
          server[s].exists /\ server'[s].exists /\ server'[s].inc = server[s].inc =>
             server'[s].status.observedGeneration \in
                {server[s].status.observedGeneration, server[s].generation}]_vars

Blocked(s) == ~ ApplyAccepted(KindOf[s], s, server[s].spec)

Renderable(s) == \A r \in Refs[server[s].spec] : secret[r] # Absent

\* Once the surroundings are quiet, every live server whose secrets exist and
\* whose Deployment nobody else holds ends up hosted as its spec says and, with
\* resyncs, with the current content of every secret: a rotation, which no event
\* reports, reaches the pods in the end.
RotationReachesDeployment ==
    <>[](\A s \in Server : Alive(s) /\ Renderable(s) /\ ~ Blocked(s) =>
            /\ Hosted(s)
            /\ \A r \in Refs[server[s].spec] :
                 deployment[DeploymentOf[s]].checksums[r] = secret[r])

\* A foreground deletion completes, although a worker with a stale copy may
\* re-create the Deployment it waits for (reconcileExists, delete).
DeletionCompletes == \A s \in Server : server[s].deleting ~> ~ server[s].deleting

\* No Deployment of a server that is gone is left behind.
NoOrphanStays ==
    <>[](\A d \in Deployment :
            deployment[d].exists /\ deployment[d].owner # NoServer => OwnerAlive(d))

\* Reconciling moves towards the desired state and stops there: once the
\* surroundings are quiet nobody writes a Deployment any more, however often a
\* resync has the unchanged server reconciled again (apiServerCommand, Resolve).
DeploymentSettles == <>[][deployment' = deployment]_vars

\* What the documentation of the Available condition says: it reports the
\* availability of the component, so it does not stay true of a component whose
\* Deployment is gone, or for somebody else's Deployment of the same name.
AvailableReportsOwnDeployment ==
    <>[](\A s \in Server :
            LET d == deployment[DeploymentOf[s]]
            IN  server[s].exists /\ server[s].status.available = "up" =>
                   d.exists /\ d.owner = s)
=====================================================================================
