# matryoshka: models, checks and proofs

matryoshka hosts the control plane of a Kubernetes cluster inside another one. Its manager
(`main.go`) runs four controllers for the custom resources `KubeAPIServer`,
`KubeControllerManager`, `KubeScheduler` and `Kubeconfig`. The first three are turned into a
Deployment, the last into a Secret that holds a client configuration. This directory models the
controllers and their resolvers in TLA+, checks them with TLC on small instances and proves the
most important facts with TLAPS for instances of every size.

In file references, `CM` is `src/controllers/matryoshka`.

## Inventory

| Component | State it keeps | Operations | Talks to |
|---|---|---|---|
| Reconcilers of KubeAPIServer, KubeControllerManager, KubeScheduler (`CM/kube*_controller.go`) | none of their own: the API server's objects, the informers' cached copies, a workqueue, one worker each | Get, deletion check, Resolve, server-side apply of the Deployment, mirroring of its conditions, status update; handlers of events of servers, secrets and owned Deployments | API server (reads through the cache, writes directly), resolvers |
| Kubeconfig reconciler (`CM/kubeconfig_controller.go`) | as above; no status | Get, Resolve, server-side apply of the rendered secret; handlers of events of Kubeconfigs, secrets, config maps, owned secrets | API server, its resolver |
| Resolvers of the three hosted components (`CM/internal/kube*/`) | a memorystore for the time of one call | requests, retrieval, command line, volumes, mounts, probes, overlay, labels and selector, checksums | the cache |
| Kubeconfig resolver (`CM/internal/kubeconfig`) | as above | requests, retrieval, lookup of keys, client config, secret | the cache |
| Utilities and overlays (`CM/internal/utils`, `CM/internal/common`) | none | defaults, merging of maps, checksums, merging of overlays | resolvers |
| Manager process (`main.go`) | controllers enabled, caches | start, crash, restart, leader election (off by default) | all |
| API types, manifests, generated code, tests | none | none | |

The controllers never call each other. They interact through objects: a Deployment wakes its
owner, a Secret wakes whoever references it, the Secret of a `Kubeconfig` is what a
`KubeControllerManager` or a `KubeScheduler` references, and two servers of one name in one
namespace want the same Deployment.

What is hard here:

* **Concurrency.** A reconcile reads the server, then the secrets one by one, from caches that lag;
  then writes the Deployment without a resourceVersion and the status with one. Users, kubelets,
  the garbage collector and other controllers change the objects at any point in between.
* **Wake-ups.** `GenerationChangedPredicate` drops every update of a secret, the handler of a
  secret's event consults the cache as it then is, and a failed step must requeue.
* **Failure.** A call fails before or after it took effect, or takes effect after the process has
  crashed; the Deployment is applied and the status is not.
* **Order.** Go's maps are iterated in another order every time.
* **Agreement by hand.** Requests, volumes, mounts and flags are separate lists in each resolver.

What makes each component correct: a hosting reconciler ends up with the Deployment its server's
current spec asks for, with checksums of exactly the secrets it mounts, and with a status that is
true of the generation it names; a deletion completes and leaves nothing behind; nobody who can
still be helped is left asleep. The Kubeconfig reconciler renders only complete credentials and does
the same for its secret. A resolver's Deployment has mounts the API server accepts as long as the
user's overlay fits it, its files are where the flags say, and every secret the spec references is
watched and checksummed.

`PROJECT.json` lists every component with its status and every hazard at its line.

## Modules

| Module | What it is |
|---|---|
| `DeploymentReconciler` | the three hosting reconcilers, their informers, workqueues, workers, crashes, and their surroundings |
| `MCDeploymentReconciler` | its instances for TLC |
| `DeploymentReconcilerProofs` | type correctness |
| `ReconcilerSafetyProofs` | statuses are current, checksums are complete |
| `ReconcilerWakeupProofs` | no wake-up is lost, lies are repaired, statuses are honest |
| `Hosting` | the abstract specification: what the three reconcilers promise, without the machinery |
| `HostingHistory` | `DeploymentReconciler` with two history variables and its mapping to `Hosting` |
| `HostingProofs` | `DeploymentReconciler` implements `Hosting` |
| `RollingUpdate`, `MCRollingUpdate` | two manager processes at once: `DeploymentReconciler` twice over the same objects |
| `RollingUpdateProofs` | what was proved of one process holds of two |
| `KubeconfigReconciler` | the Kubeconfig reconciler with its resolver, in the same style |
| `MCKubeconfigReconciler` | its instances |
| `KubeconfigReconcilerProofs` | its types, that a kubeconfig is complete, and that no wake-up is lost |
| `HostedCluster`, `MCHostedCluster` | `KubeconfigReconciler` and `DeploymentReconciler` in one process: one renders the secret the other mounts |
| `HostedClusterProofs` | what was proved of the two holds in the composition; mounted kubeconfigs are complete |
| `PodRendering` | what the resolvers share: selectors, overlays, labels, checksums |
| `KubeAPIServerResolver`, `KubeControllerManagerResolver`, `KubeSchedulerResolver`, `KubeconfigResolver` | each resolver's functions as operators |
| `ComponentResolver` | `Resolve` of all four, composed with `INSTANCE`, over secrets that come and go |
| `MCComponentResolver` | specs over two secrets, with every choice of references, and overlays that fit and that do not |
| `ComponentResolverProofs` | all that `Resolvers` checks, for every spec, secret and key |

### DeploymentReconciler

The three controllers are the same program up to names, so `Kind` is a constant: `KindOf` gives the
controller of a server. `PROJECT.json` maps each definition to the lines of one of the three files,
chosen so that every file is named; functions have the same name in all three, and the files
correspond statement by statement.

State and code:

* `server`, `secret`, `deployment`: the API server's objects. A server has `inc` (the uid), `rv`
  (the resourceVersion, which never repeats), `generation`, `spec`, `deleting` and the part of the
  status the code writes. A Deployment is what was last applied, with its field manager and owner.
  A spec is a value: `Refs` gives the secrets it references, `SelectorOf` its selector, `Orders` the
  number of orders its maps can be rendered in.
* `serverCache`, `secretCache`, `deploymentCache`: the informers. `secretWatch`, `deploymentWatch`,
  `secretEvent`: changes and events on their way to a handler. `queue`, `backoff`: the workqueue and
  its rate limiter. `worker`: what `Reconcile` holds at its current step. `late`: requests of a call
  that was given up or of a process that crashed.

One action per step of the code at which something else may happen in between:

| Action | Code |
|---|---|
| `SyncServer`, `SyncSecret`, `SyncDeployment`, `HandleSecretEvent`, `Resync`, `Requeue` | watches, predicates and handlers of `SetupWithManager`, `enqueueReferencing...` |
| `Start` | dequeue, `Reconcile`, `reconcileExists`, `delete` |
| `ReadSecret`, `BuildError` | `Resolve`, its error path in `reconcile` |
| `ApplySucceeds`, `ApplyIsRefused`, `ApplyFails` | the `Patch`, refused for a foreign field manager or a changed selector |
| `MirrorAfterError`, `UpdateAfterError` | `fetchAndMirrorDeploymentStatus` and `Status().Update` after an error |
| `UpdateAfterApply`, `UpdateFails` | `Status().Update` after success; its failure |
| `Crash`, `LandLate` | restart of the manager, and what its requests still do |
| `CreateServer` ... `ForeignEdit`, `CollectGarbage`, `FinishDeletion` | users, kubelets, others, the garbage collector |

### Hosting, HostingHistory

`Hosting` states what users of the three reconcilers rely on. A *wish* is one generation of one
incarnation of a server. Users `Ask` and `Withdraw`; a Deployment may `Host` only what has been asked
for, now or earlier, and is never taken from another kind's controller or another field manager; a
status may `Claim` the current wish only if a Deployment has hosted it. There are no caches, queues,
workers or requests in it.

`HostingHistory` maps `DeploymentReconciler` to it. `wish`, `hosted` and `claim` are functions of the
objects: the server as it is, the Deployment with its owner reference, `status.failure = "False"` with the
observed generation. `asked` and `granted` are history variables, which no object records. A step of
the reconcilers is a step of `Hosting` or a stutter: an apply hosts, a status update claims
or retracts, creating or editing a server asks, everything informers and workers do is invisible.

### RollingUpdate

With one replica and the default strategy, an update of the manager's own Deployment starts the new
process before it stops the old one. Nothing keeps them apart unless the manager is given
`--leader-elect`: it is off by default in `main.go`, and the manifests pass it. `RollingUpdate` takes
`DeploymentReconciler` twice, by `EXTENDS` for the new process and by `INSTANCE` for the old one, with
caches, queues and workers of their own. A step of one is seen by the other's watches (`NewSees`,
`OldSees`). `StartNew` lists everything; `StopOld` discards everything the old process held,
except that a request it had sent may still take effect.

`StatusHonest` is not checked here, and does not hold: each process may apply between the other's apply
and its status update, so a status is true only of an earlier moment. What holds, is checked and proved, is
weaker: the status names a wish that was hosted (`KeepsPromise`), and what is left behind is
repaired (`UpdateNoLostWakeup`).

### KubeconfigReconciler

The same anatomy. Rendering is "the contents the secrets had when they were read"; a secret may exist
without the key that is asked for (`Complete`), which `Usable` tells from one that is not found.
`Foreign` owns what somebody else made, `Kept` are the secrets users keep something in,
`Contested` those that others edit.

### HostedCluster

Both reconcilers over one set of secrets and one informer of secrets. The secret `Configs` renders is the
secret `Pods` mounts: what `Pods` sees of it is its content (`ContentOf`), not its owner, and the
shared informer hands each change to the handlers of both (`SyncSecret`). Users rotate and delete
secrets, the rendered one too; what they do to Kubeconfigs and servers is left to the components' own
runs, as are crashes and failed calls. Deleting Kubeconfigs is left out for another reason as well:
while the cache lags, the rendered secret may be collected and rendered again any number of times, each time
with another status of the server, whose resourceVersion would grow without bound.

### Resolvers

Volumes and mount paths are known by the constant the code derives both from. Command lines keep the
flags that name a file in a mounted secret: `Command` gives flag, directory and key. `Uses`, translated
from the API types and not from the resolvers, says which secret and key a flag is for; it is the
reference for `FilesMounted`. `NilDereference` is where `getRequests` of the KubeControllerManager panics.

Keys of the user's choice: a `SecretSelector` names a key or leaves it blank, and `common_types.go:31` says
"Key is the key to look up in the config map data. Some types use a default if this value is unset."
`Uses` takes that key or the default, for every selector. The code does not for three of them: both service
account keys and the etcd key are read from `tls.key` whatever their selectors name
(`kubeapiserver.go:280-281,312-313`). The docs of the service account keys mention `tls.key`
(`kubeapiserver_types.go:91-96`) without saying that a key given there is ignored; the doc of the etcd key names
none (`kubeapiserver_types.go:107-108`). A server whose key lies elsewhere names a file that does not exist.
`FilesMounted` states the code's rule: `AsRead` turns what `Uses` asks for into what is read, for exactly these three
(`KeyIgnored`). Without `AsRead` the property is violated.

The overlay: `Overlay` is any lists of volumes (of no, one or several secrets), mounts, variables, sources
of variables, containers and init containers, and any labels; the names and paths in them may be the
resolvers' own, so they can collide with what the resolvers make. `ApplyPodOverlay` and
`ApplyContainerOverlay` append them unchecked, as the code does. `OverlayFits` says when that does no
harm: no generated name or path is used again and every mount has a volume. `MountsResolve` says that the
volumes and mounts are accepted exactly then. Two other properties hold only of overlays that fit, as one
that does not may hide a file. `PodSecretsChecksummed` needs no such condition: of any overlay,
the pods depend on the checksummed secrets and on what the overlay itself brings in (`OverlaySecrets`), which
the code neither checksums nor watches.

A Kubeconfig resolves to a client config in which each credential is the secret and key it is read from;
`DefaultKeys` has the defaults documented in `kubeconfig_types.go`. Addresses, user names and contexts only
pass through and are left out. So are, for the components, ports, devices, images, resources, replicas,
flags without files, names of containers, and the overlay's overriding fields. Checksums are the set of
secrets that have one; contents are compared in the reconciler modules.

## Runs

| Run | Instance | What it shows |
|---|---|---|
| `ReconcilerSafety` | one API server, two secrets, two specs, two changes | `StatusHonest`, `ChecksumsComplete`, `StatusOfCurrentGeneration` |
| `ReconcilerCrash` | one secret, three specs of which one has another selector, two changes, one fault | `NoLostWakeup`, `LieIsRepaired` across failed calls, crashes and late requests |
| `ReconcilerSameName` | a controller manager and a scheduler want one Deployment | `NoLostWakeup`: the loser retries and takes over |
| `ReconcilerLiveness` | one API server with resyncs | rotations reach the pods, deletions complete, no orphan stays, the Deployment settles |
| `ReconcilerFeatureGates` (violation) | a spec with two feature gates | the Deployment never settles: the command line follows the order of a Go map |
| `ReconcilerAvailable` (violation) | one API server, a secret that is missing, a Deployment that others may make | while the build fails, `Available` reports somebody else's Deployment |
| `RollingUpdate` | an API server that is created or resized while one manager process takes over from another | `UpdateNoLostWakeup`; the two together implement `Hosting` (`KeepsPromise`) |
| `Kubeconfig` | one Kubeconfig, two specs with different secret names, two changes, one fault | complete credentials, no lost wake-up, rotations, no orphan |
| `KubeconfigSharedSecret` (violation) | two Kubeconfigs with one secret name | they overwrite each other for ever |
| `HostedCluster` | a Kubeconfig, the secret it renders, and a controller manager that mounts it | `MountedConfigsComplete`, no lost wake-up on either side, `RotationReachesPods` through both controllers, `ClusterSettles` |
| `Resolvers` | all four kinds over two secrets, default and chosen keys, overlays that fit and overlays that collide | `MountsResolve`: volumes and mounts are accepted exactly if the overlay fits; files, checksums, selector and probes agree; every key that is looked up was retrieved (`LookupsRetrieved`); the client config has every credential of the spec, from the given key or the default (`ConfigHasCredentials`) |
| `ResolverPanic` (violation) | the same | a controller configured without its optional secret crashes the manager |

**Bounds.** `MaxChanges` limits changes by users, kubelets and others, `MaxFaults` failed calls and
crashes; the controllers' own steps are not bounded. Two changes suffice for each hazard listed: one
that makes a copy stale and one that races with the repair, and Init already starts from every choice of
existing servers and secrets. One server meets all hazards but those between servers, for which there
are runs with two. Two secrets give a spec that references fewer than another, two contents a rotation.
For the resolvers, two secrets let any two references be confused; one of them has no default key of a
token, the other not the chosen key, so lookups fail either way. Every combination of references is
combined with no overlay and with one that uses each of its lists; the colliding ones (a generated volume, a
generated path, a generated variable, a mount that has a volume only with some specs) are combined with the references
they can collide with.

`RollingUpdate` doubles the state of the reconcilers, so it has one change, no secret and no fault: the
change makes the old process' copy stale while the new one acts, which is what the run is about. It and
`ReconcilerCrash` use symmetry: `SameSpecs` and `SameEdits` swap two specs that differ in name only, and both
runs check safety only. `HostedCluster` has one change too: either the rotation that has to travel through both
controllers, or the deletion of the rendered secret, which has to be rendered and rolled out
anew; Init starts with neither the rendered secret nor the Deployment in place, and with the
certificate authority at the first of two interchangeable values.

**Fairness.** Every step of informers, handlers, workers, the garbage collector and the network is
weakly fair: goroutines keep running and watches deliver. `Start` is strongly fair per server, as the
workqueue is first in, first out: a server that is queued again and again is not passed over.
`Resync` is fair only in `ResyncSpec`: the informers' resync period elapses again and again.
Users, faults and crashes have no fairness. `SecretSettles` needs no resync; rotations do, since no
event reports them. In `HostedCluster` the informers are weakly fair as a whole: once users are quiet they
have only so much to deliver, so none of their events is passed over for ever. Each controller there
has one object, so weak fairness of its worker is enough. `RollingUpdate` checks safety and assumes none.

Deadlock is not checked in the reconciler runs: with its changes used up and everything
settled, the system rests. `Resolvers` checks it.

## Proofs

**Assumptions.** The constants are typed by the `ConfigAssumption` of each reconciler module. Beyond
that, values that stand for "nothing" are not values of another kind: `HistoryAssumption` (`None`,
`Others`), `NoRendering` (of a Kubeconfig's secret), `ClusterAssumption` (contents of users' secrets are
not renderings), `NilAssumption` and `NoCredentialAssumption` (a nil pointer is not a selector, a key
or a credential). TLC evaluates each of them. No theorem has a hypothesis besides.

### The hosting reconcilers

* `TypeCorrect`: `ReconcilerSpec => []TypeOK`. `TypeOK` is inductive.
* `StatusIsCurrent`: `ReconcilerSpec => StatusOfCurrentGeneration`. A status update carries the
  resourceVersion of a copy read earlier; that the object then still has the generation the status was
  computed from is not visible in one step. The invariant `VersionInv` (theorem `VersionCorrect`)
  says it of every holder of a copy: a cache with the current version holds the current object, and a
  worker's or a late request's copy with the current version has its generation and a status that names
  either that generation or the one recorded. It needs that no change of a server leaves its version
  as it was (`ServerAdvances`).
* `ChecksumsAreComplete`: `ReconcilerSpec => []ChecksumsComplete`. Not inductive alone: the checksums
  come from what a worker has read. `ChecksumInv` adds that a worker has read only secrets of the spec
  it holds, so that nothing unread means exactly those, and that a request under way has read them all.
* `NoWakeupIsLost`: `ReconcilerSpec => []NoLostWakeup`. `NoLostWakeup` speaks of servers for which
  nothing is on its way; whether they are as they should be was decided long before, by a worker that
  read an older cache. `WakeupInv` therefore says what each carrier guarantees. `WorkerInv`: what
  a worker holds and has done still stands, or its server is queued again. `CalmInv`: a server nothing but
  a secret's event may still wake is settled. `SecretInv`: a secret gone from the API server but not from
  the cache is on its way. `KindInv`: a controller works on servers of its kind. The lemmas before
  it say that no step takes something off a carrier without handing it to the next
  (`QuietlyCarried` to `StepCarries`), and sum up what a step may do to a server, a Deployment and a
  worker, so that the invariants are proved from these summaries and not action by action.
* `LiesAreRepaired`: `[]LieIsRepaired`, from `WakeupInv` and `SightInv`: nobody holds a copy newer than
  the cache, no status names a generation to come, and when a status names the current generation the
  cache has its spec. So a Deployment that is overwritten behind a status's back is either
  on a watch, or the worker that overwrote it follows the spec the status is about.
* `StatusIsHonest`: `[](faults = 0 => StatusHonest)`. `HonestInv` has a part each for failed steps,
  applied Deployments and claims. The hypothesis is the code's own limit: an apply request that lands late
  makes a status untrue until the repair, which `LieIsRepaired` covers.
* `PromiseKept`: `HistorySpec => KeepsPromise`. `HistorySpec` is `ReconcilerSpec` with the history
  variables, which constrain nothing. Each step of `Next` maps to a step of `Hosting` or a stutter, given
  `HostingInv`: whatever server object a cache, a worker or a late request holds was once asked for, and a
  worker or late request about to write a status that says "Applied" holds a wish that was granted. The
  last needs `VersionInv` again, since the claim is about the generation the server has *now*: an update is
  accepted only with the current resourceVersion, and then the generations agree.
* `ClaimsAndHostsAreTrue`: what follows for every reachable state, by invariance of the abstract
  specification and the refinement. Every "Applied" is about a generation that was really hosted, and no
  Deployment of the controllers hosts what nobody asked for.

### Two managers at once

* `UpdateLosesNoWakeup`: `UpdateSpec => []UpdateNoLostWakeup`. `UpdateKeepsPromise`: `UpdateSpec =>
  KeepsPromise`. Each step is one of `DeploymentReconciler`, by one of the processes, so that all that was
  proved of its steps is cited. For the other process it is a step of somebody else (`Outside`), which
  touches nothing of its own but what its watches report. `OutsideTypes`, `OutsideVersions`,
  `OutsideWakeups` and `OutsideHosting`, each beside the invariant it is about, say that the invariants
  bear such a step, whoever takes it, as long as no server changes without a new version.
  `UpdateInv` has the invariants of a single process for each process that runs. `StartNew`
  establishes those of the new one, since it starts with all there is in its caches and its queue; `StopOld`
  turns what the old one was sending into late requests, which `HostingInv` covers.
* `UpdateStatusIsCurrent`, `UpdateChecksumsAreComplete`: `StatusOfCurrentGeneration` and
  `ChecksumsComplete` for two processes, from `VersionInv` and `ChecksumInv` of both.

### The Kubeconfig reconciler

* `TypeCorrect`, `ConfigsAreComplete`: `[]TypeOK` and `[]ConfigComplete`. `ConfigComplete` is about
  secrets only; `ConfigInv` adds that what a worker has read belongs to the spec it holds and had its
  keys, and that a request a crashed process left behind had read everything.
* `NoWakeupIsLost`: `[]NoLostWakeup`. The argument is the one above with a difference: here `CalmInv` is
  about the *cached* Kubeconfig, not the current one, since there is no status whose update would bring a
  worker's own change back. Once the watch has delivered, the two are the same.

### The composition

* `ConfigsAreImplemented`: `ClusterSpec => Configs!ReconcilerSpec`. Each step of the cluster is a step of
  the Kubeconfig reconciler, or leaves its variables alone; so all theorems about it hold in the
  cluster, cited and not proved again.
* The pods' side is no such refinement: the rendered secret is written by a controller, while in
  `DeploymentReconciler` alone it is written by users as long as changes are left. A step of the
  cluster is for the pods a step of their own, or `SecretWritten`, which changes a secret and puts it on
  the watch. `PodStep` says so, and `WrittenTypes`, `WrittenVersions` and `WrittenWakeups` that such a step
  preserves the invariants of the pods' side too. Hence `NoClusterWakeupIsLost`: `[]NoLostWakeup`.
* `MountedConfigsAreComplete`: `[]MountedConfigsComplete`. `RenderedInv` says that whatever the informer
  has of the rendered secret was rendered completely, from `ConfigComplete` and the fact that the
  cache only ever holds what the secret was; `MountInv` follows it through workers, late requests and
  Deployments.

### The resolvers

A resolver is a pure function built from lists, so `ResolverInv` only has to say that what is held and
returned are values of the functions for the object at hand and the secrets retrieved; the work is
in what those functions compute. The argument goes in four stages.

1. The lists of one resolver. They are built by appending one more volume, mount and file under
   conditions. `Fits` says of volumes and mounts, `Provides` of files, what such a step keeps, and lemmas
   (`NextVolume`, `NextFile`) that it does. `APIServerAgrees`, `ControllerManagerAgrees` and
   `SchedulerAgrees` sum up the result and compare it with `Uses`.
2. The overlay is appended to them. `Main` and `Beside` say what the containers then are: the resolver's
   part followed by the user's.
3. `Built` says what the Deployments of all three kinds have in common, so that the rest is proved
   once: own volumes and containers, then those of the overlay.
4. Each property from `Built` alone: `ResolvesMounts` (names and paths of two lists are distinct exactly if
   they are in each and the lists share none), `MountsFiles` (an overlay that fits hides no file),
   `ChecksumsPodSecrets`, `SelectsPods`, `ProbesAuthenticate`, `RetrievesLookups`, `HasCredentials`.

* `MountsAlwaysResolve`, `FilesAreMounted`, `PodSecretsAreChecksummed`, `OwnPodsAreSelected`,
  `ProbesCanAuthenticate`, `LookupsAreRetrieved`, `ConfigsHaveCredentials`: each invariant the run
  `Resolvers` checks, for every set of secrets, keys and names, every spec and every overlay over them.
* `TypeCorrect`, `ResolverCorrect`: the types of everything the resolvers return, down to containers and
  credentials, and `ResolverInv`.

### What the runs and the theorems share

`ReconcilerSafety`, `ReconcilerCrash`, `Kubeconfig`, `HostedCluster`, `RollingUpdate` and `Resolvers` check
the same properties on small instances; the theorems hold for any number of servers, kinds, secrets
and faults.
`PromiseKept` is about one process that may crash, `UpdateKeepsPromise` about two that do not crash but
one of which is stopped at any moment: neither covers the other.

Every safety invariant and the refinement that the runs check are proved. Only model-checked is
liveness under fairness, which is beyond the prover, as is ENABLED: `RotationReachesDeployment`,
`DeletionCompletes`, `NoOrphanStays`, `DeploymentSettles`, `RotationReachesSecret`, `SecretSettles`,
`RotationReachesPods`, `ClusterSettles`. `AvailableReportsOwnDeployment` and `NeverPanics` do not hold.

## Not modelled

* A watch that breaks and relists may merge a deletion with a creation; here a sync step merges updates
  of one object but a creation or deletion of a secret always counts as an event.
* Error texts, reasons and messages of conditions, replica counters, the Progressing condition (it is
  mirrored like Available).
* Failing lists in event handlers: they read a synced cache.
* The bytes of checksums and client configurations.
* Start-up wiring of the manager: flags, the set of enabled controllers, health endpoints.
* What resolvers pass on without looking at it: ports, images, resources, the overriding fields of
  overlays and their additional ports, devices and readiness gates, addresses and names of a client config.
* Manifests, generated code (deep copies, registration of types), tests: they have no behaviour of the
  program of their own.

## Plan

Done, in this order: the hosting reconcilers, their safety proofs, the Kubeconfig reconciler, the
resolvers, the abstract specification with its refinement, the composition of Kubeconfigs with the
components that mount them, two managers during a rolling update, and the proofs: wake-ups and
statuses of the hosting reconcilers, wake-ups of Kubeconfigs, the composition, two managers, the
resolvers. Left:

1. A safety half for each liveness property, which can be proved: that a server, a Deployment or a secret
   that is not as it should be keeps an enabled step of the controllers until it is.
2. Crashes in `RollingUpdate`: a process that is restarted while the other runs.
