---------------------------- MODULE KubeconfigReconciler ----------------------------
(***************************************************************************)
(* The controller that renders a Kubeconfig into a secret.  Its inputs and *)
(* its output are objects of one type, and of one informer: the secrets a  *)
(* Kubeconfig references wake it when they come and go, the secret it owns *)
(* on every change.                                                        *)
(*                                                                         *)
(* It keeps no status; an error is only retried.                           *)
(***************************************************************************)
EXTENDS Naturals

CONSTANTS
    Kubeconfig,     \* custom resources, by name
    Name,           \* names of secrets
    Spec,           \* what the user may ask of a Kubeconfig
    NoSpec,
    SecretName,     \* the secret a spec is rendered into
    Refs,           \* the secrets a spec references
    Data,           \* what users keep in a secret
    Complete,       \* the contents that have every key that is looked up
    Absent,         \* no content
    NoOwner,
    NoConfig,       \* a secret without the kubeconfig key
    Foreign,        \* the kubeconfig key is held by another field manager
    Kept,           \* the secrets users keep something in
    Contested,      \* secrets whose kubeconfig key users may write
    MaxChanges,     \* bound: changes made by users
    MaxFaults       \* bound: crashes and failed API calls

ASSUME ConfigAssumption ==
    /\ SecretName \in [Spec -> Name]
    /\ Refs \in [Spec -> SUBSET Name]
    /\ Complete \subseteq Data
    /\ Kept \subseteq Name
    /\ Contested \subseteq Name
    /\ Absent \notin Data
    /\ NoSpec \notin Spec
    /\ NoOwner \notin Kubeconfig
    /\ MaxChanges \in Nat
    /\ MaxFaults \in Nat

VARIABLES
    kubeconfig, secret,              \* the API server's objects
    kubeconfigCache, secretCache,    \* the informers' copies
    owners,         \* the owners in the changes of a secret its informer has not seen
    comings,        \* secrets with a creation or deletion it has not seen
    secretEvent,    \* secrets that came or went, not yet handled by the controller
    queue,          \* Kubeconfigs waiting in the workqueue
    backoff,        \* Kubeconfigs whose rate-limited requeue is pending
    worker,         \* the controller's worker
    late,           \* requests of a crashed process that may still take effect
    changes, faults \* how much of MaxChanges and MaxFaults is used up

store  == <<kubeconfig, secret>>
caches == <<kubeconfigCache, secretCache>>
watches == <<owners, comings>>
bounds == <<changes, faults>>
vars   == <<store, caches, watches, secretEvent, queue, backoff, worker, late, bounds>>

-----------------------------------------------------------------------------
\* inc numbers the incarnations of a name: it stands for the uid.
Present == [exists: {TRUE}, inc: Nat, spec: Spec, deleting: BOOLEAN]
Gone == [exists: {FALSE}, inc: Nat, spec: {NoSpec}, deleting: {FALSE}]
KubeconfigObject == Present \cup Gone
NoKubeconfig == [exists |-> FALSE, inc |-> 0, spec |-> NoSpec, deleting |-> FALSE]

\* What was read of the referenced secrets.
Content == [Name -> Data \cup {Absent}]
NoContent == [n \in Name |-> Absent]

\* A secret has what users keep in it and, under a key of its own, a kubeconfig.
Config == [spec: Spec, read: Content]
ASSUME NoRendering == NoConfig \notin Config /\ Foreign \notin Config
SecretObject == [exists: BOOLEAN, data: Data \cup {Absent},
                 config: Config \cup {NoConfig, Foreign},
                 owner: Kubeconfig \cup {NoOwner}, inc: Nat]
NoSecret == [exists |-> FALSE, data |-> Absent, config |-> NoConfig,
             owner |-> NoOwner, inc |-> 0]

Active == [pc: {"resolve"}, name: Kubeconfig, obj: Present, read: Content]
Idle == [pc |-> "idle", name |-> NoOwner, obj |-> NoKubeconfig, read |-> NoContent]

Init ==
    /\ kubeconfig \in [Kubeconfig -> {NoKubeconfig} \cup
         {[exists |-> TRUE, inc |-> 1, spec |-> x, deleting |-> FALSE] : x \in Spec}]
    /\ \E data \in Content :
         /\ \A n \in Name \ Kept : data[n] = Absent
         /\ secret = [n \in Name |->
                        [NoSecret EXCEPT !.exists = data[n] # Absent, !.data = data[n]]]
    /\ kubeconfigCache = kubeconfig
    /\ secretCache = secret
    /\ owners = [n \in Name |-> {}]
    /\ comings = {}
    /\ secretEvent = {}
    /\ queue = {k \in Kubeconfig : kubeconfig[k].exists}
    /\ backoff = {}
    /\ worker = Idle
    /\ late = {}
    /\ changes = 0
    /\ faults = 0

-----------------------------------------------------------------------------
(* Event delivery (SetupWithManager).  The watch on ConfigMaps wakes no    *)
(* Kubeconfig: getRequests references secrets only.                        *)

SyncKubeconfig(k) ==
    /\ kubeconfigCache[k] # kubeconfig[k]
    /\ kubeconfigCache' = [kubeconfigCache EXCEPT ![k] = kubeconfig[k]]
    /\ queue' = queue \cup {k}
    /\ UNCHANGED <<store, secretCache, watches, secretEvent, backoff, worker, late, bounds>>

\* Owns(&Secret{}) passes every change to its owners; the other watch has
\* GenerationChangedPredicate, which drops the updates of a secret.
SyncSecret(n) ==
    /\ secretCache[n] # secret[n] \/ owners[n] # {} \/ n \in comings
    /\ secretCache' = [secretCache EXCEPT ![n] = secret[n]]
    /\ queue' = queue \cup owners[n]
    /\ owners' = [owners EXCEPT ![n] = {}]
    /\ secretEvent' = secretEvent \cup (comings \cap {n})
    /\ comings' = comings \ {n}
    /\ UNCHANGED <<store, kubeconfigCache, backoff, worker, late, bounds>>

\* enqueueReferencingKubeconfigs: those that reference the secret in the cache
\* at the time the handler runs.
HandleSecretEvent(n) ==
    /\ n \in secretEvent
    /\ secretEvent' = secretEvent \ {n}
    /\ queue' = queue \cup {k \in Kubeconfig : /\ kubeconfigCache[k].exists
                                               /\ n \in Refs[kubeconfigCache[k].spec]}
    /\ UNCHANGED <<store, caches, watches, backoff, worker, late, bounds>>

OwnersOf(o) == IF o.exists /\ o.owner # NoOwner THEN {o.owner} ELSE {}

Resync ==
    LET woken == {k \in Kubeconfig : kubeconfigCache[k].exists}
                 \cup UNION {OwnersOf(secretCache[n]) : n \in Name}
    IN  /\ ~ woken \subseteq queue
        /\ queue' = queue \cup woken
        /\ UNCHANGED <<store, caches, watches, secretEvent, backoff, worker, late, bounds>>

Requeue(k) ==
    /\ k \in backoff
    /\ backoff' = backoff \ {k}
    /\ queue' = queue \cup {k}
    /\ UNCHANGED <<store, caches, watches, secretEvent, worker, late, bounds>>

-----------------------------------------------------------------------------
(* Reconcile                                                               *)

\* Mutant: an owned secret's updates do not reach its owner.
WriteSecretSilently(n, new) ==
    /\ secret' = [secret EXCEPT ![n] = new]
    /\ comings' = IF new.exists = secret[n].exists THEN comings ELSE comings \cup {n}
    /\ UNCHANGED owners

\* Any write of a secret; one that changes nothing is not an event.
WriteSecret(n, new) ==
    /\ secret' = [secret EXCEPT ![n] = new]
    /\ comings' = IF new.exists = secret[n].exists THEN comings ELSE comings \cup {n}
    /\ owners' = IF new = secret[n] THEN owners
                 ELSE [owners EXCEPT ![n] = @ \cup OwnersOf(secret[n]) \cup OwnersOf(new)]

\* Server-side apply without force.  Every Kubeconfig applies as one field
\* manager, so only a user can hold the key against it; what the manager applied
\* before, the owner reference included, is replaced, and the rest is left alone.
ApplyAccepted(w) == secret[SecretName[w.obj.spec]].config # Foreign

\* Mutant: a kubeconfig is rendered once.
AppliedOnce(w) ==
    LET o == secret[SecretName[w.obj.spec]]
    IN  [exists |-> TRUE, data |-> o.data,
         config |-> IF o.owner = w.name THEN o.config ELSE [spec |-> w.obj.spec, read |-> w.read],
         owner |-> w.name, inc |-> w.obj.inc]

Applied(w) ==
    [exists |-> TRUE, data |-> secret[SecretName[w.obj.spec]].data,
     config |-> [spec |-> w.obj.spec, read |-> w.read],
     owner |-> w.name, inc |-> w.obj.inc]

Apply(w) == ApplyAccepted(w) /\ WriteSecret(SecretName[w.obj.spec], Applied(w))

\* Mutant: a missing object is not told from one that exists.
StartUnlessDeleting(k) ==
    /\ worker = Idle /\ k \in queue
    /\ queue' = queue \ {k}
    /\ worker' = IF ~ kubeconfigCache[k].deleting
                 THEN [pc |-> "resolve", name |-> k, obj |-> kubeconfigCache[k],
                       read |-> NoContent]
                 ELSE worker
    /\ UNCHANGED <<store, caches, watches, secretEvent, backoff, late, bounds>>

\* Dequeue, Get from the cache and the early returns of Reconcile and reconcileExists.
Start(k) ==
    /\ worker = Idle
    /\ k \in queue
    /\ queue' = queue \ {k}
    /\ worker' = IF kubeconfigCache[k].exists /\ ~ kubeconfigCache[k].deleting
                 THEN [pc |-> "resolve", name |-> k, obj |-> kubeconfigCache[k],
                       read |-> NoContent]
                 ELSE worker
    /\ UNCHANGED <<store, caches, watches, secretEvent, backoff, late, bounds>>

\* Mutant: a secret without the key counts as empty.
Found(o) == o.exists

\* The secret is there and has the key that is looked up in it.
Usable(o) == o.exists /\ o.data \in Complete

Unread(w) == {n \in Refs[w.obj.spec] : w.read[n] = Absent}

\* resolveConfig: the referenced secrets are read one by one, in no fixed order.
ReadSecret(n) ==
    /\ worker.pc = "resolve"
    /\ n \in Unread(worker)
    /\ Usable(secretCache[n])
    /\ worker' = [worker EXCEPT !.read[n] = secretCache[n].data]
    /\ UNCHANGED <<store, caches, watches, secretEvent, queue, backoff, late, bounds>>

\* Reconcile returns an error: it is logged, and the Kubeconfig requeued.
Retry ==
    /\ worker' = Idle
    /\ backoff' = backoff \cup {worker.name}

ResolveFails ==
    /\ worker.pc = "resolve"
    /\ \E n \in Unread(worker) : ~ Usable(secretCache[n])
    /\ Retry
    /\ UNCHANGED <<store, caches, watches, secretEvent, queue, late, bounds>>

\* Mutant: secrets that cannot be used are skipped.
ReadyWithoutMissing ==
    worker.pc = "resolve" /\ \A n \in Unread(worker) : ~ Usable(secretCache[n])

ReadyToApply == worker.pc = "resolve" /\ Unread(worker) = {}

\* Mutant: the worker goes on with the object it has.
PollInPlace ==
    /\ ReadyToApply
    /\ Apply(worker)
    /\ worker' = [worker EXCEPT !.read = NoContent]
    /\ UNCHANGED <<kubeconfig, caches, secretEvent, queue, backoff, late, bounds>>

ApplySucceeds ==
    /\ ReadyToApply
    /\ Apply(worker)
    /\ worker' = Idle
    /\ UNCHANGED <<kubeconfig, caches, secretEvent, queue, backoff, late, bounds>>

ApplyIsRefused ==
    /\ ReadyToApply
    /\ ~ ApplyAccepted(worker)
    /\ Retry
    /\ UNCHANGED <<store, caches, watches, secretEvent, queue, late, bounds>>

\* The call fails: before the API server performed it, after, or while the
\* request is still on its way.
ApplyFails ==
    /\ ReadyToApply
    /\ faults < MaxFaults
    /\ faults' = faults + 1
    /\ \/ UNCHANGED <<secret, watches, late>>
       \/ Apply(worker) /\ UNCHANGED late
       \/ late' = late \cup {worker} /\ UNCHANGED <<secret, watches>>
    /\ Retry
    /\ UNCHANGED <<kubeconfig, caches, secretEvent, queue, changes>>

Reconcile ==
    \/ \E k \in Kubeconfig : Start(k)
    \/ \E n \in Name : ReadSecret(n)
    \/ ResolveFails \/ ApplySucceeds \/ ApplyIsRefused

\* The process crashes, perhaps with a request under way, and starts again: the
\* informers list everything and the creation events fill the workqueue.
Crash ==
    /\ faults < MaxFaults
    /\ faults' = faults + 1
    /\ late' \in {late} \cup (IF ReadyToApply THEN {late \cup {worker}} ELSE {})
    /\ worker' = Idle
    /\ kubeconfigCache' = kubeconfig
    /\ secretCache' = secret
    /\ owners' = [n \in Name |-> {}]
    /\ comings' = {}
    /\ secretEvent' = {}
    /\ backoff' = {}
    /\ queue' = {k \in Kubeconfig : kubeconfig[k].exists}
                \cup UNION {OwnersOf(secret[n]) : n \in Name}
    /\ UNCHANGED <<store, changes>>

LandLate(w) ==
    /\ w \in late
    /\ late' = late \ {w}
    /\ Apply(w) \/ UNCHANGED <<secret, watches>>
    /\ UNCHANGED <<kubeconfig, caches, secretEvent, queue, backoff, worker, bounds>>

-----------------------------------------------------------------------------
(* Users and the garbage collector                                         *)

Change ==
    /\ changes < MaxChanges
    /\ changes' = changes + 1
    /\ UNCHANGED <<caches, secretEvent, queue, backoff, worker, late, faults>>

CreateKubeconfig(k) ==
    /\ ~ kubeconfig[k].exists
    /\ \E x \in Spec : kubeconfig' = [kubeconfig EXCEPT ![k] =
         [exists |-> TRUE, inc |-> kubeconfig[k].inc + 1, spec |-> x, deleting |-> FALSE]]
    /\ Change
    /\ UNCHANGED <<secret, watches>>

EditSpec(k) ==
    /\ kubeconfig[k].exists
    /\ \E x \in Spec \ {kubeconfig[k].spec} : kubeconfig' = [kubeconfig EXCEPT ![k].spec = x]
    /\ Change
    /\ UNCHANGED <<secret, watches>>

Removed(k) == [kubeconfig EXCEPT ![k] = [NoKubeconfig EXCEPT !.inc = kubeconfig[k].inc]]

\* In the background, or in the foreground: then it stays until its secret is gone.
DeleteKubeconfig(k) ==
    /\ kubeconfig[k].exists /\ ~ kubeconfig[k].deleting
    /\ kubeconfig' \in {Removed(k), [kubeconfig EXCEPT ![k].deleting = TRUE]}
    /\ Change
    /\ UNCHANGED <<secret, watches>>

\* Create a secret, or rotate what a user keeps in it.
PutSecret(n) ==
    /\ n \in Kept
    /\ \E v \in Data \ {secret[n].data} :
         WriteSecret(n, [secret[n] EXCEPT !.exists = TRUE, !.data = v])
    /\ Change
    /\ UNCHANGED kubeconfig

DeleteSecret(n) ==
    /\ secret[n].exists
    /\ WriteSecret(n, NoSecret)
    /\ Change
    /\ UNCHANGED kubeconfig

\* A user writes the kubeconfig key.
TakeKey(n) ==
    /\ n \in Contested
    /\ secret[n].config # Foreign
    /\ WriteSecret(n, [secret[n] EXCEPT !.exists = TRUE, !.config = Foreign])
    /\ Change
    /\ UNCHANGED kubeconfig

Environment ==
    \/ \E k \in Kubeconfig : CreateKubeconfig(k) \/ EditSpec(k) \/ DeleteKubeconfig(k)
    \/ \E n \in Name : PutSecret(n) \/ DeleteSecret(n) \/ TakeKey(n)

\* The owner a secret names (by uid) is alive.
OwnerAlive(o) == kubeconfig[o.owner].exists /\ kubeconfig[o.owner].inc = o.inc

\* The whole secret goes, what users keep in it included.
CollectGarbage(n) ==
    /\ secret[n].exists
    /\ secret[n].owner # NoOwner
    /\ OwnerAlive(secret[n]) => kubeconfig[secret[n].owner].deleting
    /\ WriteSecret(n, NoSecret)
    /\ UNCHANGED <<kubeconfig, caches, secretEvent, queue, backoff, worker, late, bounds>>

FinishDeletion(k) ==
    /\ kubeconfig[k].exists /\ kubeconfig[k].deleting
    /\ \A n \in Name : ~ (secret[n].exists /\ secret[n].owner = k /\ OwnerAlive(secret[n]))
    /\ kubeconfig' = Removed(k)
    /\ UNCHANGED <<secret, caches, watches, secretEvent, queue, backoff, worker, late, bounds>>

-----------------------------------------------------------------------------
Deliver ==
    \/ \E k \in Kubeconfig : SyncKubeconfig(k) \/ Requeue(k)
    \/ \E n \in Name : SyncSecret(n) \/ HandleSecretEvent(n)
    \/ Resync

Collect ==
    \/ \E n \in Name : CollectGarbage(n)
    \/ \E k \in Kubeconfig : FinishDeletion(k)

Next ==
    \/ Deliver
    \/ Reconcile \/ ApplyFails
    \/ Crash
    \/ \E w \in late : LandLate(w)
    \/ Environment
    \/ Collect

ReconcilerSpec == Init /\ [][Next]_vars

\* Informers, the workqueue, the worker and the garbage collector keep running,
\* and a request under way arrives or is lost.
Fairness ==
    /\ \A k \in Kubeconfig : /\ WF_vars(SyncKubeconfig(k)) /\ WF_vars(Requeue(k))
                             /\ WF_vars(FinishDeletion(k)) /\ SF_vars(Start(k))
    /\ \A n \in Name : /\ WF_vars(SyncSecret(n)) /\ WF_vars(HandleSecretEvent(n))
                       /\ WF_vars(CollectGarbage(n))
    /\ WF_vars(Reconcile)
    /\ WF_vars(\E w \in late : LandLate(w))

FairSpec == ReconcilerSpec /\ Fairness

\* The informers' resync period elapses again and again.
ResyncSpec == FairSpec /\ WF_vars(Resync)

-----------------------------------------------------------------------------
(* Properties                                                              *)

\* Every variable has its type.
TypeOK ==
    /\ kubeconfig \in [Kubeconfig -> KubeconfigObject]
    /\ kubeconfigCache \in [Kubeconfig -> KubeconfigObject]
    /\ secret \in [Name -> SecretObject]
    /\ secretCache \in [Name -> SecretObject]
    /\ owners \in [Name -> SUBSET Kubeconfig]
    /\ comings \in SUBSET Name
    /\ secretEvent \in SUBSET Name
    /\ queue \in SUBSET Kubeconfig
    /\ backoff \in SUBSET Kubeconfig
    /\ worker \in Active \cup {Idle}
    /\ late \in SUBSET Active
    /\ changes \in Nat
    /\ faults \in Nat

Alive(k) == kubeconfig[k].exists /\ ~ kubeconfig[k].deleting

\* k's secret holds k's kubeconfig.
Delivered(k) ==
    LET o == secret[SecretName[kubeconfig[k].spec]]
    IN  /\ o.exists
        /\ o.owner = k /\ o.inc = kubeconfig[k].inc
        /\ o.config \notin {NoConfig, Foreign}
        /\ o.config.spec = kubeconfig[k].spec

\* Nothing is under way that would reconcile k (again).
Quiet(k) ==
    /\ kubeconfigCache[k] = kubeconfig[k]
    /\ k \notin owners[SecretName[kubeconfig[k].spec]]
    /\ Refs[kubeconfig[k].spec] \cap (comings \cup secretEvent) = {}
    /\ k \notin queue \cup backoff
    /\ worker.name # k

\* A kubeconfig is never rendered from less than all it references: each
\* credential in it was read from a secret that had its key (resolveConfig).
ConfigComplete ==
    \A n \in Name : secret[n].config \notin {NoConfig, Foreign} =>
        LET c == secret[n].config
        IN  /\ {r \in Name : c.read[r] # Absent} = Refs[c.spec]
            /\ \A r \in Refs[c.spec] : c.read[r] \in Complete

\* No wake-up is lost: a live Kubeconfig nothing will reconcile again is in its
\* secret as its spec says, even when another Kubeconfig or a late request of a
\* crashed process writes the same secret; and all it references exists.
NoLostWakeup ==
    \A k \in Kubeconfig : Alive(k) /\ Quiet(k) =>
        /\ Delivered(k)
        /\ \A n \in Refs[kubeconfig[k].spec] : secret[n].exists

Renderable(k) == \A n \in Refs[kubeconfig[k].spec] : Usable(secret[n])

\* A rotated credential, which no event reports, reaches the rendered kubeconfig
\* in the end, unless a user holds the key.
RotationReachesSecret ==
    <>[](\A k \in Kubeconfig :
           LET o == secret[SecretName[kubeconfig[k].spec]]
           IN  Alive(k) /\ Renderable(k) /\ o.config # Foreign =>
                 /\ Delivered(k)
                 /\ \A n \in Refs[kubeconfig[k].spec] : o.config.read[n] = secret[n].data)

\* The credentials of a Kubeconfig that is gone do not stay behind, although a
\* worker with a stale copy may still write them.
NoOrphanStays ==
    <>[](\A n \in Name : secret[n].exists /\ secret[n].owner # NoOwner => OwnerAlive(secret[n]))

\* Reconciling moves towards the desired state and stops there: once users are
\* quiet, nobody writes a secret any more.
SecretSettles == <>[][secret' = secret]_vars
=====================================================================================
