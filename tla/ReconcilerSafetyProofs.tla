--------------------------- MODULE ReconcilerSafetyProofs ---------------------------
(***************************************************************************)
(* Optimistic locking makes a status describe the generation it is written *)
(* to.  The invariant: whoever holds a copy of a server with the           *)
(* resourceVersion the API server has, holds its spec, its generation and  *)
(* a status computed from it.                                              *)
(*                                                                         *)
(* What a worker has read makes the checksums of a Deployment those of its *)
(* own spec's secrets.  The invariant: what is read belongs to the spec.   *)
(***************************************************************************)
EXTENDS DeploymentReconcilerProofs

\* o is a copy of the server x, perhaps an old one, perhaps with a new status.
Agrees(o, x) ==
    /\ o.rv <= x.rv
    /\ o.rv = x.rv =>
         /\ o.inc = x.inc
         /\ o.generation = x.generation
         /\ o.spec = x.spec
         /\ o.status.observedGeneration \in {x.status.observedGeneration, o.generation}

\* A cached copy with the current version is the current object.
CacheInv ==
    \A s \in Server : /\ serverCache[s].rv <= server[s].rv
                      /\ serverCache[s].rv = server[s].rv => serverCache[s] = server[s]

CopyInv ==
    /\ \A k \in Kind : worker[k].pc # "idle" => Agrees(worker[k].obj, server[worker[k].server])
    /\ \A w \in late : Agrees(w.obj, server[w.server])

VersionInv == CacheInv /\ CopyInv

\* The API server never changes a server without a new resourceVersion.
Advances(s) == server'[s] = server[s] \/ server'[s].rv = server[s].rv + 1

-----------------------------------------------------------------------------
LEMMA VersionTypes ==
    ASSUME TypeOK
    PROVE  /\ \A s \in Server : server[s].rv \in Nat /\ serverCache[s].rv \in Nat
           /\ \A k \in Kind : worker[k].pc # "idle" =>
                worker[k].server \in Server /\ worker[k].obj \in Present /\ worker[k].obj.rv \in Nat
           /\ \A w \in late : w.server \in Server /\ w.obj \in Present /\ w.obj.rv \in Nat
<1>1. \A s \in Server : server[s].rv \in Nat /\ serverCache[s].rv \in Nat
  BY DEF TypeOK, ServerObject, Present, Gone
<1>2. \A k \in Kind : worker[k].pc # "idle" => worker[k].server \in Server /\ worker[k].obj \in Present
  BY WorkerType
<1>3. \A w \in late : w.server \in Server /\ w.obj \in Present
  BY DEF TypeOK, Active
<1>4. \A o \in Present : o.rv \in Nat
  BY DEF Present
<1>5. QED
  BY <1>1, <1>2, <1>3, <1>4

LEMMA StatusUpdateAdvances ==
    ASSUME TypeOK, NEW t \in Server, NEW obj, server' = StatusUpdated(t, obj)
    PROVE  \A s \in Server : Advances(s)
<1>1. CASE server' = server
  BY <1>1 DEF Advances
<1>2. CASE server' = [server EXCEPT ![t] = [server[t] EXCEPT !.status = obj.status, !.rv = @ + 1]]
           /\ server[t].exists
  <2>1. server[t] \in Present
    BY <1>2, ExistsIsPresent DEF TypeOK
  <2>2. [server[t] EXCEPT !.status = obj.status, !.rv = @ + 1].rv = server[t].rv + 1
    BY <2>1 DEF Present
  <2>3. QED
    BY <1>2, <2>2 DEF Advances, TypeOK
<1>3. QED
  BY <1>1, <1>2 DEF StatusUpdated, UpdateAccepted

LEMMA ServerAdvances ==
    ASSUME TypeOK, [Next]_vars
    PROVE  \A s \in Server : Advances(s)
<1>1. CASE server' = server
  BY <1>1 DEF Advances
<1>2. ASSUME NEW k \in Kind, UpdateAfterError(k) \/ UpdateAfterApply(k) \/ UpdateFails(k)
      PROVE  \A s \in Server : Advances(s)
  <2>1. worker[k].server \in Server
    BY <1>2, WorkerType DEF UpdateAfterError, UpdateAfterApply, UpdateFails
  <2>2. server' = server \/ server' = StatusUpdated(worker[k].server, worker[k].obj)
    BY <1>2 DEF UpdateAfterError, UpdateAfterApply, UpdateFails
  <2>3. QED
    BY <1>1, <2>1, <2>2, StatusUpdateAdvances
<1>3. ASSUME NEW w \in late, LandLate(w)
      PROVE  \A s \in Server : Advances(s)
  <2>1. w.server \in Server
    BY VersionTypes
  <2>2. server' = server \/ server' = StatusUpdated(w.server, w.obj)
    BY <1>3 DEF LandLate
  <2>3. QED
    BY <1>1, <2>1, <2>2, StatusUpdateAdvances
<1>4. ASSUME NEW t \in Server,
             CreateServer(t) \/ EditSpec(t) \/ DeleteServer(t) \/ DeleteForeground(t)
               \/ FinishDeletion(t)
      PROVE  \A s \in Server : Advances(s)
  <2>1. server[t] \in ServerObject /\ server \in [Server -> ServerObject]
    BY DEF TypeOK
  <2>2. \E new : server' = [server EXCEPT ![t] = new] /\ new.rv = server[t].rv + 1
    <3>1. CASE CreateServer(t)
      <4>1. PICK y \in Spec : server' = [server EXCEPT ![t] =
                [exists |-> TRUE, inc |-> server[t].inc + 1, rv |-> server[t].rv + 1,
                 generation |-> 1, spec |-> y, deleting |-> FALSE, status |-> NoStatus]]
        BY <3>1 DEF CreateServer
      <4>2. [exists |-> TRUE, inc |-> server[t].inc + 1, rv |-> server[t].rv + 1,
             generation |-> 1, spec |-> y, deleting |-> FALSE, status |-> NoStatus].rv
              = server[t].rv + 1
        OBVIOUS
      <4>3. QED
        BY <4>1, <4>2
    <3>2. CASE EditSpec(t)
      <4>1. server[t] \in Present
        BY <2>1, <3>2, ExistsIsPresent DEF EditSpec
      <4>2. PICK y \in Spec : server' = [server EXCEPT ![t].spec = y, ![t].rv = @ + 1,
                                                       ![t].generation = @ + 1]
        BY <3>2 DEF EditSpec
      <4>3. server' = [server EXCEPT ![t] =
                         [server[t] EXCEPT !.spec = y, !.rv = @ + 1, !.generation = @ + 1]]
        BY <4>2, <2>1
      <4>4. [server[t] EXCEPT !.spec = y, !.rv = @ + 1, !.generation = @ + 1].rv = server[t].rv + 1
        BY <4>1 DEF Present
      <4>5. QED
        BY <4>3, <4>4
    <3>3. CASE DeleteServer(t) \/ FinishDeletion(t)
      <4>1. [NoServerObject EXCEPT !.inc = server[t].inc, !.rv = server[t].rv + 1].rv
              = server[t].rv + 1
        BY DEF NoServerObject
      <4>2. server' = [server EXCEPT ![t] =
                        [NoServerObject EXCEPT !.inc = server[t].inc, !.rv = server[t].rv + 1]]
        BY <3>3 DEF DeleteServer, FinishDeletion, Removed
      <4>3. QED
        BY <4>1, <4>2
    <3>4. CASE DeleteForeground(t)
      <4>1. server[t] \in Present
        BY <2>1, <3>4, ExistsIsPresent DEF DeleteForeground
      <4>2. server' = [server EXCEPT ![t] =
                         [server[t] EXCEPT !.deleting = TRUE, !.rv = @ + 1, !.generation = @ + 1]]
        BY <3>4, <2>1 DEF DeleteForeground
      <4>3. [server[t] EXCEPT !.deleting = TRUE, !.rv = @ + 1, !.generation = @ + 1].rv
              = server[t].rv + 1
        BY <4>1 DEF Present
      <4>4. QED
        BY <4>2, <4>3
    <3>5. QED
      BY <1>4, <3>1, <3>2, <3>3, <3>4
  <2>3. QED
    BY <2>1, <2>2 DEF Advances
<1>5. CASE UNCHANGED vars
  BY <1>1, <1>5 DEF vars, store
<1>6. CASE Deliver
  BY <1>1, <1>6 DEF Deliver, SyncServer, SyncSecret, HandleSecretEvent, SyncDeployment,
                    Resync, Requeue, store
<1>7. ASSUME NEW k \in Kind, Reconcile(k) \/ ApplyFails(k) \/ UpdateFails(k)
      PROVE  \A s \in Server : Advances(s)
  BY <1>1, <1>2, <1>7 DEF Reconcile, Start, ReadSecret, BuildError, ApplySucceeds,
                          ApplyIsRefused, ApplyFails, MirrorAfterError, store
<1>8. CASE Crash
  BY <1>1, <1>8 DEF Crash, store
<1>9. CASE Environment \/ Collect
  BY <1>1, <1>4, <1>9 DEF Environment, Collect, SetSecret, ReportHealth, DeleteDeployment,
                          ForeignEdit, CollectGarbage
<1>10. QED
  BY <1>3, <1>5, <1>6, <1>7, <1>8, <1>9 DEF Next

-----------------------------------------------------------------------------
(* How the copies of a server develop in one step *)

\* p is the copy o with, at most, a status that describes o's generation.
Derives(p, o) ==
    /\ p.rv = o.rv
    /\ p.inc = o.inc
    /\ p.generation = o.generation
    /\ p.spec = o.spec
    /\ p.status.observedGeneration \in {o.status.observedGeneration, o.generation}

LEMMA MirroredDerives ==
    ASSUME NEW o \in Present, NEW d, NEW f
    PROVE  /\ Derives(o, o)
           /\ Derives(WithFailure(o, f), o)
           /\ Derives(Mirrored(o, d), o)
           /\ Derives(Mirrored(WithFailure(o, f), d), o)
<1>1. o.status \in Status
  BY DEF Present
<1>2. /\ WithFailure(o, f).status.observedGeneration = o.status.observedGeneration
      /\ WithFailure(o, f).rv = o.rv
      /\ WithFailure(o, f).generation = o.generation
      /\ WithFailure(o, f).inc = o.inc /\ WithFailure(o, f).spec = o.spec
  BY <1>1 DEF Present, Status, WithFailure
<1>3. /\ Mirrored(o, d).status.observedGeneration = o.generation
      /\ Mirrored(o, d).rv = o.rv
      /\ Mirrored(o, d).generation = o.generation
      /\ Mirrored(o, d).inc = o.inc /\ Mirrored(o, d).spec = o.spec
  BY <1>1 DEF Present, Status, Mirrored
<1>4. /\ Mirrored(WithFailure(o, f), d).status.observedGeneration = o.generation
      /\ Mirrored(WithFailure(o, f), d).rv = o.rv
      /\ Mirrored(WithFailure(o, f), d).generation = o.generation
      /\ Mirrored(WithFailure(o, f), d).inc = o.inc /\ Mirrored(WithFailure(o, f), d).spec = o.spec
  BY <1>1, <1>2 DEF Present, Status, Mirrored, WithFailure
<1>5. QED
  BY <1>2, <1>3, <1>4 DEF Derives

\* After a step, the object of an active worker is the one it had, up to its
\* status, or was just taken from the cache.
WorkerStep ==
    \A k \in Kind : worker'[k].pc # "idle" =>
        \/ /\ worker[k].pc # "idle"
           /\ worker'[k].server = worker[k].server
           /\ Derives(worker'[k].obj, worker[k].obj)
        \/ /\ worker'[k].server \in Server
           /\ KindOf[worker'[k].server] = k
           /\ worker'[k].obj = serverCache[worker'[k].server]
           /\ serverCache[worker'[k].server].exists

\* A late request is one that an active worker was about to make.
LateStep ==
    \A w \in late' : w \in late \/ \E k \in Kind : worker[k].pc # "idle" /\ w = worker[k]

LEMMA SameWorkers == ASSUME TypeOK, worker' = worker, late' \subseteq late
                     PROVE  WorkerStep /\ LateStep
<1>1. \A k \in Kind : worker[k].pc # "idle" => worker[k].obj \in Present
  BY WorkerType
<1>2. QED
  BY <1>1, MirroredDerives DEF WorkerStep, LateStep

LEMMA OneWorkerStep ==
    ASSUME TypeOK, NEW k \in Kind, worker[k].pc # "idle", NEW new,
           worker' = [worker EXCEPT ![k] = new],
           new.pc # "idle" => new.server = worker[k].server /\ Derives(new.obj, worker[k].obj)
    PROVE  WorkerStep
<1>1. \A j \in Kind : worker[j].pc # "idle" => worker[j].obj \in Present
  BY WorkerType
<1>2. ASSUME NEW j \in Kind, j # k PROVE worker'[j] = worker[j]
  BY <1>2 DEF TypeOK
<1>3. worker'[k] = new
  BY DEF TypeOK
<1>4. QED
  BY <1>1, <1>2, <1>3, MirroredDerives DEF WorkerStep

LEMMA CopiesStep ==
    ASSUME TypeOK, [Next]_vars
    PROVE  WorkerStep /\ LateStep
<1>1. CASE UNCHANGED vars \/ Deliver \/ Environment \/ Collect
  <2>1. worker' = worker /\ late' = late
    <3>1. CASE UNCHANGED vars
      BY <3>1 DEF vars
    <3>2. CASE Deliver
      BY <3>2 DEF Deliver, SyncServer, SyncSecret, HandleSecretEvent, SyncDeployment,
                  Resync, Requeue
    <3>3. CASE Environment
      BY <3>3 DEF Environment, CreateServer, EditSpec, DeleteServer, DeleteForeground, SetSecret,
                  ReportHealth, DeleteDeployment, ForeignEdit, Change
    <3>4. CASE Collect
      BY <3>4 DEF Collect, CollectGarbage, FinishDeletion
    <3>5. QED
      BY <1>1, <3>1, <3>2, <3>3, <3>4
  <2>2. QED
    BY <2>1, SameWorkers
<1>2. ASSUME NEW w \in late, LandLate(w) PROVE WorkerStep /\ LateStep
  BY <1>2, SameWorkers DEF LandLate
<1>3. CASE Crash
  <2>1. WorkerStep
    BY <1>3 DEF Crash, WorkerStep, Idle
  <2>2. LateStep
    BY <1>3 DEF Crash, LateStep, Sending, ReadyToApply
  <2>3. QED
    BY <2>1, <2>2
<1>4. ASSUME NEW k \in Kind, Reconcile(k) \/ ApplyFails(k) \/ UpdateFails(k)
      PROVE  WorkerStep /\ LateStep
  <2>1. ASSUME NEW s \in Server, Start(k, s) PROVE WorkerStep /\ LateStep
    <3>1. CASE worker' = worker
      BY <2>1, <3>1, SameWorkers DEF Start
    <3>2. CASE /\ worker' = [worker EXCEPT ![k] = [pc |-> "build", server |-> s,
                                                obj |-> serverCache[s], read |-> NoContent]]
               /\ serverCache[s].exists
      <4>1. \A j \in Kind : worker[j].pc # "idle" => worker[j].obj \in Present
        BY WorkerType
      <4>2. \A j \in Kind : j # k => worker'[j] = worker[j]
        BY <3>2 DEF TypeOK
      <4>3. worker'[k].server = s /\ worker'[k].obj = serverCache[s] /\ KindOf[s] = k
        BY <2>1, <3>2 DEF Start, TypeOK
      <4>4. WorkerStep
        BY <3>2, <4>1, <4>2, <4>3, MirroredDerives DEF WorkerStep
      <4>5. QED
        BY <2>1, <4>4 DEF Start, LateStep
    <3>3. QED
      BY <2>1, <3>1, <3>2 DEF Start
  <2>2. CASE worker[k].pc # "idle"
    <3>1. worker[k] \in Active /\ worker[k].obj \in Present
      BY <2>2, WorkerType
    <3>2. LateStep
      BY <1>4, <2>1, <2>2 DEF Reconcile, ReadSecret, BuildError, ApplySucceeds, ApplyIsRefused,
            ApplyFails, MirrorAfterError, UpdateAfterError, UpdateAfterApply, UpdateFails, LateStep
    <3>3. ASSUME NEW r \in Secret, ReadSecret(k, r) PROVE WorkerStep
      <4>1. worker' = [worker EXCEPT ![k] = [worker[k] EXCEPT !.read[r] = secretCache[r]]]
        BY <3>3 DEF ReadSecret, TypeOK
      <4>2. /\ [worker[k] EXCEPT !.read[r] = secretCache[r]].server = worker[k].server
            /\ [worker[k] EXCEPT !.read[r] = secretCache[r]].obj = worker[k].obj
        BY <3>1 DEF Active
      <4>3. QED
        BY <4>1, <4>2, <3>1, <2>2, OneWorkerStep, MirroredDerives
    <3>4. ASSUME NEW pc, NEW obj, Derives(obj, worker[k].obj),
                 worker' = [worker EXCEPT ![k].pc = pc, ![k].obj = obj]
          PROVE  WorkerStep
      <4>1. worker' = [worker EXCEPT ![k] = [worker[k] EXCEPT !.pc = pc, !.obj = obj]]
        BY <3>4 DEF TypeOK
      <4>2. /\ [worker[k] EXCEPT !.pc = pc, !.obj = obj].server = worker[k].server
            /\ [worker[k] EXCEPT !.pc = pc, !.obj = obj].obj = obj
        BY <3>1 DEF Active
      <4>3. QED
        BY <4>1, <4>2, <3>4, <2>2, OneWorkerStep
    <3>5. CASE BuildError(k)
      <4>1. worker' = [worker EXCEPT ![k].pc = "mirror",
                                     ![k].obj = WithFailure(worker[k].obj, "True")]
        BY <3>5 DEF BuildError, TypeOK
      <4>2. QED
        BY <4>1, <3>1, <3>2, <3>4, MirroredDerives, Zenon
    <3>6. CASE ApplySucceeds(k)
      <4>1. worker' = [worker EXCEPT ![k].pc = "updateApplied",
              ![k].obj = Mirrored(WithFailure(worker[k].obj, "False"),
                                  deployment[DeploymentOf[worker[k].server]])]
        BY <3>6 DEF ApplySucceeds, TypeOK
      <4>2. QED
        BY <4>1, <3>1, <3>2, <3>4, MirroredDerives, Zenon
    <3>7. CASE ApplyIsRefused(k) \/ ApplyFails(k)
      <4>1. worker' = [worker EXCEPT ![k].pc = "mirror",
                                     ![k].obj = WithFailure(worker[k].obj, "Unknown")]
        BY <3>7 DEF ApplyIsRefused, ApplyFails, TypeOK
      <4>2. QED
        BY <4>1, <3>1, <3>2, <3>4, MirroredDerives, Zenon
    <3>8. CASE MirrorAfterError(k)
      <4>1. PICK obj \in {worker[k].obj,
                           Mirrored(worker[k].obj, deploymentCache[DeploymentOf[worker[k].server]])} :
              worker' = [worker EXCEPT ![k].pc = "updateFailed", ![k].obj = obj]
        BY <3>8 DEF MirrorAfterError, TypeOK
      <4>2. Derives(obj, worker[k].obj)
        BY <4>1, <3>1, MirroredDerives
      <4>3. QED
        BY <4>1, <4>2, <3>2, <3>4, Zenon
    <3>9. CASE UpdateAfterError(k) \/ UpdateAfterApply(k) \/ UpdateFails(k)
      <4>1. worker' = [worker EXCEPT ![k] = Idle]
        BY <3>9 DEF UpdateAfterError, UpdateAfterApply, UpdateFails
      <4>2. Idle.pc = "idle"
        BY DEF Idle
      <4>3. QED
        BY <4>1, <4>2, <2>2, <3>2, OneWorkerStep, Zenon
    <3>10. QED
      BY <1>4, <2>1, <3>2, <3>3, <3>5, <3>6, <3>7, <3>8, <3>9 DEF Reconcile
  <2>3. CASE worker[k].pc = "idle"
    BY <1>4, <2>1, <2>3
    DEF Reconcile, ReadSecret, BuildError, ApplySucceeds, ApplyIsRefused, ApplyFails,
        MirrorAfterError, UpdateAfterError, UpdateAfterApply, UpdateFails, ReadyToApply
  <2>4. QED
    BY <2>2, <2>3
<1>5. QED
  BY <1>1, <1>2, <1>3, <1>4 DEF Next

-----------------------------------------------------------------------------
(* The invariant                                                           *)

\* An informer's copy is left alone or replaced by the current object.
LEMMA CacheStep ==
    ASSUME TypeOK, [Next]_vars, NEW s \in Server
    PROVE  serverCache'[s] = serverCache[s] \/ (serverCache'[s] = server[s] /\ server' = server)
<1>1. CASE serverCache' = serverCache
  BY <1>1
<1>2. ASSUME NEW t \in Server, SyncServer(t)
      PROVE  serverCache'[s] = serverCache[s] \/ (serverCache'[s] = server[s] /\ server' = server)
  BY <1>2 DEF SyncServer, store, TypeOK
<1>3. CASE Crash
  BY <1>3 DEF Crash, store
<1>4. CASE UNCHANGED vars
  BY <1>1, <1>4 DEF vars, caches
<1>5. CASE Deliver
  BY <1>1, <1>2, <1>5 DEF Deliver, SyncSecret, HandleSecretEvent, SyncDeployment,
                          Resync, Requeue, caches
<1>6. ASSUME NEW k \in Kind, Reconcile(k) \/ ApplyFails(k) \/ UpdateFails(k)
      PROVE  serverCache' = serverCache
  BY <1>6 DEF Reconcile, Start, ReadSecret, BuildError, ApplySucceeds, ApplyIsRefused,
              ApplyFails, MirrorAfterError, UpdateAfterError, UpdateAfterApply, UpdateFails, caches
<1>7. ASSUME NEW w \in late, LandLate(w) PROVE serverCache' = serverCache
  BY <1>7 DEF LandLate, caches
<1>8. CASE Environment
  BY <1>1, <1>8 DEF Environment, CreateServer, EditSpec, DeleteServer, DeleteForeground, SetSecret,
                    ReportHealth, DeleteDeployment, ForeignEdit, Change, caches
<1>9. CASE Collect
  BY <1>1, <1>9 DEF Collect, CollectGarbage, FinishDeletion, caches
<1>10. QED
  BY <1>1, <1>3, <1>4, <1>5, <1>6, <1>7, <1>8, <1>9 DEF Next

LEMMA AgreesLasts ==
    ASSUME NEW o, NEW p, NEW x, NEW y, o.rv \in Nat, x.rv \in Nat,
           Agrees(o, x), Derives(p, o), y = x \/ y.rv = x.rv + 1
    PROVE  Agrees(p, y)
BY DEF Agrees, Derives

LEMMA VersionInit == Init => VersionInv
<1> SUFFICES ASSUME Init PROVE VersionInv
  OBVIOUS
<1>1. TypeOK
  BY TypeInit
<1>2. CacheInv
  <2>1. serverCache = server
    BY DEF Init
  <2>2. ASSUME NEW s \in Server PROVE server[s].rv <= server[s].rv
    <3>1. server[s].rv \in Nat
      BY <1>1, VersionTypes
    <3>2. QED
      BY <3>1
  <2>3. QED
    BY <2>1, <2>2, Zenon DEF CacheInv
<1>3. CopyInv
  BY DEF Init, CopyInv, Idle
<1>4. QED
  BY <1>2, <1>3 DEF VersionInv

LEMMA VersionNext ==
    ASSUME TypeOK, VersionInv, [Next]_vars
    PROVE  VersionInv'
<1>1. \A s \in Server : server'[s] = server[s] \/ server'[s].rv = server[s].rv + 1
  BY ServerAdvances DEF Advances
<1>2. CacheInv'
  <2>1. SUFFICES ASSUME NEW s \in Server
                 PROVE  /\ serverCache'[s].rv <= server'[s].rv
                        /\ serverCache'[s].rv = server'[s].rv => serverCache'[s] = server'[s]
    BY DEF CacheInv
  <2>2. /\ server[s].rv \in Nat /\ serverCache[s].rv \in Nat
        /\ serverCache[s].rv <= server[s].rv
        /\ serverCache[s].rv = server[s].rv => serverCache[s] = server[s]
    BY VersionTypes DEF VersionInv, CacheInv
  <2>3. QED
    BY <1>1, <2>2, CacheStep
<1>3. \A s \in Server : Agrees(serverCache[s], server[s])
  BY DEF VersionInv, CacheInv, Agrees
<1>4. ASSUME NEW k \in Kind, worker'[k].pc # "idle"
      PROVE  Agrees(worker'[k].obj, server'[worker'[k].server])
  <2>1. CASE /\ worker[k].pc # "idle"
             /\ worker'[k].server = worker[k].server
             /\ Derives(worker'[k].obj, worker[k].obj)
    <3>1. /\ worker[k].server \in Server
          /\ worker[k].obj.rv \in Nat
          /\ server[worker[k].server].rv \in Nat
      BY <2>1, VersionTypes
    <3>2. Agrees(worker[k].obj, server[worker[k].server])
      BY <2>1 DEF VersionInv, CopyInv
    <3>3. QED
      BY <1>1, <2>1, <3>1, <3>2, AgreesLasts
  <2>2. CASE /\ worker'[k].server \in Server
             /\ worker'[k].obj = serverCache[worker'[k].server]
    <3>1. Derives(worker'[k].obj, serverCache[worker'[k].server])
      BY <2>2 DEF Derives
    <3>2. server[worker'[k].server].rv \in Nat /\ serverCache[worker'[k].server].rv \in Nat
      BY <2>2, VersionTypes
    <3>3. QED
      BY <1>1, <1>3, <2>2, <3>1, <3>2, AgreesLasts
  <2>3. QED
    BY <1>4, <2>1, <2>2, CopiesStep DEF WorkerStep
<1>5. ASSUME NEW w \in late' PROVE Agrees(w.obj, server'[w.server])
  <2>1. PICK v : /\ w = v
                 /\ v.server \in Server
                 /\ v.obj.rv \in Nat
                 /\ Agrees(v.obj, server[v.server])
    BY CopiesStep, VersionTypes DEF LateStep, VersionInv, CopyInv
  <2>2. Derives(v.obj, v.obj) /\ server[v.server].rv \in Nat
    BY <2>1, VersionTypes DEF Derives
  <2>3. QED
    BY <1>1, <2>1, <2>2, AgreesLasts
<1>6. QED
  BY <1>2, <1>4, <1>5 DEF VersionInv, CopyInv

THEOREM VersionCorrect == ReconcilerSpec => [](TypeOK /\ VersionInv)
<1>1. Init => TypeOK /\ VersionInv
  BY TypeInit, VersionInit
<1>2. TypeOK /\ VersionInv /\ [Next]_vars => (TypeOK /\ VersionInv)'
  BY TypeNext, VersionNext
<1>3. QED
  BY <1>1, <1>2, PTL DEF ReconcilerSpec

-----------------------------------------------------------------------------
(* What an accepted status update writes                                   *)

\* Every worker and every late request holds a copy the invariant speaks of.
LEMMA UpdateIsCurrent ==
    ASSUME TypeOK, NEW t \in Server, NEW obj \in Present, Agrees(obj, server[t]),
           server' = StatusUpdated(t, obj), NEW s \in Server
    PROVE  server'[s].status.observedGeneration \in
             {server[s].status.observedGeneration, server[s].generation}
<1>1. CASE server' = server
  BY <1>1
<1>2. CASE /\ server' = [server EXCEPT ![t] = [server[t] EXCEPT !.status = obj.status, !.rv = @ + 1]]
           /\ server[t].exists
           /\ server[t].rv = obj.rv
  <2>1. server[t] \in Present
    BY <1>2, ExistsIsPresent DEF TypeOK
  <2>2. [server[t] EXCEPT !.status = obj.status, !.rv = @ + 1].status = obj.status
    BY <2>1 DEF Present
  <2>3. obj.status.observedGeneration \in {server[t].status.observedGeneration, server[t].generation}
    BY <1>2 DEF Agrees
  <2>4. QED
    BY <1>2, <2>2, <2>3 DEF TypeOK
<1>3. QED
  BY <1>1, <1>2 DEF StatusUpdated, UpdateAccepted

\* Neither a user nor the garbage collector writes a status of an object that stays.
LEMMA UsersLeaveStatus ==
    ASSUME TypeOK, NEW t \in Server, NEW s \in Server,
           CreateServer(t) \/ EditSpec(t) \/ DeleteServer(t) \/ DeleteForeground(t)
             \/ FinishDeletion(t),
           server[s].exists, server'[s].exists
    PROVE  server'[s].status = server[s].status
<1>1. CASE CreateServer(t)
  BY <1>1 DEF CreateServer, TypeOK
<1>2. CASE EditSpec(t)
  <2>1. CASE s = t
    <3>1. server[t] \in Present
      BY <1>2, ExistsIsPresent DEF EditSpec, TypeOK
    <3>2. PICK y \in Spec : server' = [server EXCEPT ![t].spec = y, ![t].rv = @ + 1,
                                                     ![t].generation = @ + 1]
      BY <1>2 DEF EditSpec
    <3>3. server' = [server EXCEPT ![t] =
                       [server[t] EXCEPT !.spec = y, !.rv = @ + 1, !.generation = @ + 1]]
      BY <3>2 DEF TypeOK
    <3>4. [server[t] EXCEPT !.spec = y, !.rv = @ + 1, !.generation = @ + 1].status
            = server[t].status
      BY <3>1 DEF Present
    <3>5. QED
      BY <2>1, <3>3, <3>4 DEF TypeOK
  <2>2. CASE s # t
    BY <1>2, <2>2 DEF EditSpec, TypeOK
  <2>3. QED
    BY <2>1, <2>2
<1>3. CASE DeleteServer(t) \/ FinishDeletion(t)
  <2>1. [NoServerObject EXCEPT !.inc = server[t].inc, !.rv = server[t].rv + 1].exists = FALSE
    BY DEF NoServerObject
  <2>2. server' = [server EXCEPT ![t] =
                    [NoServerObject EXCEPT !.inc = server[t].inc, !.rv = server[t].rv + 1]]
    BY <1>3 DEF DeleteServer, FinishDeletion, Removed
  <2>3. QED
    BY <2>1, <2>2 DEF TypeOK
<1>4. CASE DeleteForeground(t)
  <2>1. CASE s = t
    <3>1. server[t] \in Present
      BY <1>4, ExistsIsPresent DEF DeleteForeground, TypeOK
    <3>2. server' = [server EXCEPT ![t] =
                       [server[t] EXCEPT !.deleting = TRUE, !.rv = @ + 1, !.generation = @ + 1]]
      BY <1>4 DEF DeleteForeground, TypeOK
    <3>3. [server[t] EXCEPT !.deleting = TRUE, !.rv = @ + 1, !.generation = @ + 1].status
            = server[t].status
      BY <3>1 DEF Present
    <3>4. QED
      BY <2>1, <3>2, <3>3 DEF TypeOK
  <2>2. CASE s # t
    BY <1>4, <2>2 DEF DeleteForeground, TypeOK
  <2>3. QED
    BY <2>1, <2>2
<1>5. QED
  BY <1>1, <1>2, <1>3, <1>4

LEMMA StatusStep ==
    ASSUME TypeOK, VersionInv, [Next]_vars, NEW s \in Server,
           server[s].exists, server'[s].exists
    PROVE  server'[s].status.observedGeneration \in
             {server[s].status.observedGeneration, server[s].generation}
<1>1. CASE server' = server
  BY <1>1
<1>2. ASSUME NEW k \in Kind, UpdateAfterError(k) \/ UpdateAfterApply(k) \/ UpdateFails(k)
      PROVE  server'[s].status.observedGeneration \in
               {server[s].status.observedGeneration, server[s].generation}
  <2>1. worker[k].pc # "idle"
    BY <1>2 DEF UpdateAfterError, UpdateAfterApply, UpdateFails
  <2>2. /\ worker[k].server \in Server
        /\ worker[k].obj \in Present
        /\ Agrees(worker[k].obj, server[worker[k].server])
    BY <2>1, WorkerType DEF VersionInv, CopyInv
  <2>3. server' = server \/ server' = StatusUpdated(worker[k].server, worker[k].obj)
    BY <1>2 DEF UpdateAfterError, UpdateAfterApply, UpdateFails
  <2>4. QED
    BY <1>1, <2>2, <2>3, UpdateIsCurrent
<1>3. ASSUME NEW w \in late, LandLate(w)
      PROVE  server'[s].status.observedGeneration \in
               {server[s].status.observedGeneration, server[s].generation}
  <2>1. w.server \in Server /\ w.obj \in Present /\ Agrees(w.obj, server[w.server])
    BY VersionTypes DEF VersionInv, CopyInv
  <2>2. server' = server \/ server' = StatusUpdated(w.server, w.obj)
    BY <1>3 DEF LandLate
  <2>3. QED
    BY <1>1, <2>1, <2>2, UpdateIsCurrent
<1>4. ASSUME NEW t \in Server,
             CreateServer(t) \/ EditSpec(t) \/ DeleteServer(t) \/ DeleteForeground(t)
               \/ FinishDeletion(t)
      PROVE  server'[s].status = server[s].status
  BY <1>4, UsersLeaveStatus
<1>5. CASE UNCHANGED vars
  BY <1>1, <1>5 DEF vars, store
<1>6. CASE Deliver
  BY <1>1, <1>6 DEF Deliver, SyncServer, SyncSecret, HandleSecretEvent, SyncDeployment,
                    Resync, Requeue, store
<1>7. ASSUME NEW k \in Kind, Reconcile(k) \/ ApplyFails(k) \/ UpdateFails(k)
      PROVE  server'[s].status.observedGeneration \in
               {server[s].status.observedGeneration, server[s].generation}
  BY <1>1, <1>2, <1>7 DEF Reconcile, Start, ReadSecret, BuildError, ApplySucceeds,
                          ApplyIsRefused, ApplyFails, MirrorAfterError, store
<1>8. CASE Crash
  BY <1>1, <1>8 DEF Crash, store
<1>9. CASE Environment \/ Collect
  BY <1>1, <1>4, <1>9 DEF Environment, Collect, SetSecret, ReportHealth, DeleteDeployment,
                          ForeignEdit, CollectGarbage
<1>10. QED
  BY <1>3, <1>5, <1>6, <1>7, <1>8, <1>9 DEF Next

\* No status that was computed from an older object ever lands on a newer one,
\* whatever the interleaving, the crashes and the failed calls.
THEOREM StatusIsCurrent == ReconcilerSpec => StatusOfCurrentGeneration
<1>1. TypeOK /\ VersionInv /\ [Next]_vars =>
        [\A s \in Server :
            server[s].exists /\ server'[s].exists /\ server'[s].inc = server[s].inc =>
               server'[s].status.observedGeneration \in
                  {server[s].status.observedGeneration, server[s].generation}]_vars
  BY StatusStep
<1>2. QED
  BY <1>1, VersionCorrect, PTL DEF ReconcilerSpec, StatusOfCurrentGeneration

-----------------------------------------------------------------------------
(* A Deployment carries a checksum of every secret its spec references and *)
(* of no other, also when secrets and specs change while they are read,    *)
(* when calls fail and when the process crashes.  The invariant: whatever  *)
(* a worker has read belongs to the spec of the object it holds, and a     *)
(* request still under way has read all of it.                             *)

USE ConfigAssumption

Named(content) == {r \in Secret : content[r] # Absent}

Whole(d) == d.spec # NoSpec => Named(d.checksums) = Refs[d.spec]

DeploymentsWhole == \A d \in Deployment : Whole(deployment[d])

ReadInv ==
    \A k \in Kind : worker[k].pc # "idle" =>
        Named(worker[k].read) \subseteq Refs[worker[k].obj.spec]

LateInv == \A w \in late : w.pc = "build" => Named(w.read) = Refs[w.obj.spec]

ChecksumInv == DeploymentsWhole /\ ReadInv /\ LateInv

-----------------------------------------------------------------------------
\* A worker that is about to apply has read every secret of its spec.
LEMMA ReadyIsWhole ==
    ASSUME NEW w \in Active, Named(w.read) \subseteq Refs[w.obj.spec], ReadyToApply(w)
    PROVE  Named(w.read) = Refs[w.obj.spec]
<1>1. w.obj.spec \in Spec
  BY DEF Active, Present
<1>2. Refs[w.obj.spec] \subseteq Secret
  BY <1>1
<1>3. QED
  BY <1>2 DEF ReadyToApply, Unread, Named

\* Writing a whole Deployment leaves all of them whole.
LEMMA WriteWhole ==
    ASSUME TypeOK, DeploymentsWhole, NEW d \in Deployment, NEW new, Whole(new),
           WriteDeployment(d, new)
    PROVE  DeploymentsWhole'
<1>1. deployment' = [deployment EXCEPT ![d] = new]
  BY DEF WriteDeployment
<1>2. \A e \in Deployment : deployment'[e] = IF e = d THEN new ELSE deployment[e]
  BY <1>1 DEF TypeOK
<1>3. QED
  BY <1>2 DEF DeploymentsWhole, Whole

LEMMA ApplyWhole ==
    ASSUME TypeOK, DeploymentsWhole, NEW k \in Kind, NEW w \in Active,
           Named(w.read) = Refs[w.obj.spec], Apply(k, w)
    PROVE  DeploymentsWhole'
<1>1. PICK order \in RenderedOrders(w.obj.spec) :
        WriteDeployment(DeploymentOf[w.server], Applied(k, w.server, w.obj, w.read, order))
  BY DEF Apply
<1>2. DeploymentOf[w.server] \in Deployment
  <2>1. w.server \in Server
    BY DEF Active
  <2>2. QED
    BY <2>1
<1>3. Whole(Applied(k, w.server, w.obj, w.read, order))
  BY DEF Whole, Applied
<1>4. QED
  BY <1>1, <1>2, <1>3, WriteWhole

\* Steps that change what a worker does and the status it holds keep what it has read.
LEMMA ReadKept ==
    ASSUME TypeOK, ReadInv, NEW k \in Kind, worker[k].pc # "idle",
           NEW pc \in Pc, NEW obj, obj.spec = worker[k].obj.spec,
           worker' = [worker EXCEPT ![k].pc = pc, ![k].obj = obj]
    PROVE  ReadInv'
<1>1. worker[k] \in Active /\ worker \in [Kind -> Active \cup {Idle}]
  BY WorkerType DEF TypeOK
<1>2. worker'[k].read = worker[k].read /\ worker'[k].obj = obj
  BY <1>1 DEF Active
<1>3. \A j \in Kind : j # k => worker'[j] = worker[j]
  BY <1>1
<1>4. Named(worker'[k].read) \subseteq Refs[worker'[k].obj.spec]
  <2>1. Named(worker[k].read) \subseteq Refs[worker[k].obj.spec]
    BY DEF ReadInv
  <2>2. worker'[k].obj.spec = worker[k].obj.spec
    BY <1>2
  <2>3. Named(worker'[k].read) = Named(worker[k].read)
    BY <1>2 DEF Named
  <2>4. QED
    BY <2>1, <2>2, <2>3
<1>5. ASSUME NEW j \in Kind, worker'[j].pc # "idle"
      PROVE  Named(worker'[j].read) \subseteq Refs[worker'[j].obj.spec]
  <2>1. CASE j = k
    BY <1>4, <2>1
  <2>2. CASE j # k
    BY <1>3, <1>5, <2>2 DEF ReadInv, Named
  <2>3. QED
    BY <2>1, <2>2
<1>6. QED
  BY <1>5 DEF ReadInv, Named

LEMMA ReadIdled ==
    ASSUME TypeOK, ReadInv, NEW k \in Kind, worker' = [worker EXCEPT ![k] = Idle]
    PROVE  ReadInv'
<1>1. \A j \in Kind : worker'[j] = IF j = k THEN Idle ELSE worker[j]
  BY DEF TypeOK
<1>2. QED
  BY <1>1 DEF ReadInv, Named, Idle

\* Conditions and mirrored status leave the spec of the object alone.
LEMMA StatusKeepsSpec ==
    ASSUME NEW obj \in Present, NEW d, NEW f
    PROVE  /\ WithFailure(obj, f).spec = obj.spec
           /\ Mirrored(obj, d).spec = obj.spec
           /\ Mirrored(WithFailure(obj, f), d).spec = obj.spec
<1>1. WithFailure(obj, f).spec = obj.spec
  BY DEF WithFailure, Present
<1>2. Mirrored(obj, d).spec = obj.spec
  BY DEF Mirrored, Present
<1>3. Mirrored(WithFailure(obj, f), d).spec = obj.spec
  BY DEF Mirrored, WithFailure, Present
<1>4. QED
  BY <1>1, <1>2, <1>3

-----------------------------------------------------------------------------
LEMMA ChecksumInit == Init => ChecksumInv
<1> SUFFICES ASSUME Init PROVE ChecksumInv
  OBVIOUS
<1>1. DeploymentsWhole
  BY DEF Init, DeploymentsWhole, Whole, NoDeployment
<1>2. ReadInv
  BY DEF Init, ReadInv, Idle
<1>3. LateInv
  BY DEF Init, LateInv
<1>4. QED
  BY <1>1, <1>2, <1>3 DEF ChecksumInv

\* The steps of Reconcile, whose calls may also fail.
LEMMA ChecksumReconcile ==
    ASSUME TypeOK, ChecksumInv, NEW k \in Kind,
           Reconcile(k) \/ ApplyFails(k) \/ UpdateFails(k)
    PROVE  ChecksumInv'
<1> USE DEF ChecksumInv
<1>1. ASSUME NEW s \in Server, Start(k, s) PROVE ChecksumInv'
  <2>1. worker' = worker \/ worker' = [worker EXCEPT ![k] =
            [pc |-> "build", server |-> s, obj |-> serverCache[s], read |-> NoContent]]
    BY <1>1 DEF Start
  <2>2. ReadInv'
    <3>1. CASE worker' = worker
      BY <3>1 DEF ReadInv, Named
    <3>2. CASE worker' = [worker EXCEPT ![k] =
            [pc |-> "build", server |-> s, obj |-> serverCache[s], read |-> NoContent]]
      <4>1. \A j \in Kind : j # k => worker'[j] = worker[j]
        BY <3>2 DEF TypeOK
      <4>2. worker'[k].read = NoContent
        BY <3>2 DEF TypeOK
      <4>3. Named(worker'[k].read) = {}
        BY <4>2 DEF Named, NoContent
      <4>4. QED
        BY <4>1, <4>3 DEF ReadInv, Named
    <3>3. QED
      BY <2>1, <3>1, <3>2
  <2>3. DeploymentsWhole' /\ LateInv'
    BY <1>1 DEF Start, store, DeploymentsWhole, LateInv, Whole, Named
  <2>4. QED
    BY <2>2, <2>3
<1>2. ASSUME NEW r \in Secret, ReadSecret(k, r) PROVE ChecksumInv'
  <2>1. /\ worker[k] \in Active
        /\ r \in Refs[worker[k].obj.spec]
        /\ worker' = [worker EXCEPT ![k].read[r] = secretCache[r]]
    BY <1>2, WorkerType DEF ReadSecret, Unread
  <2>2. /\ worker'[k].obj = worker[k].obj
        /\ worker'[k].read = [worker[k].read EXCEPT ![r] = secretCache[r]]
    BY <2>1 DEF TypeOK, Active
  <2>3. \A j \in Kind : j # k => worker'[j] = worker[j]
    BY <2>1 DEF TypeOK
  <2>4. Named(worker'[k].read) \subseteq Named(worker[k].read) \cup {r}
    BY <2>1, <2>2 DEF Named, Active, Content
  <2>5. ReadInv'
    BY <1>2, <2>1, <2>2, <2>3, <2>4 DEF ReadInv, Named, ReadSecret
  <2>6. DeploymentsWhole' /\ LateInv'
    BY <1>2 DEF ReadSecret, store, DeploymentsWhole, LateInv, Whole, Named
  <2>7. QED
    BY <2>5, <2>6
<1>3. ASSUME BuildError(k) \/ ApplyIsRefused(k) \/ MirrorAfterError(k) PROVE ChecksumInv'
  <2>1. worker[k].pc # "idle"
    BY <1>3 DEF BuildError, ApplyIsRefused, MirrorAfterError, ReadyToApply
  <2>2. worker[k].obj \in Present
    BY <2>1, WorkerType
  <2>3. \E pc \in Pc : \E obj : /\ obj.spec = worker[k].obj.spec
                                /\ worker' = [worker EXCEPT ![k].pc = pc, ![k].obj = obj]
    <3>1. CASE BuildError(k)
      <4>1. worker' = [worker EXCEPT ![k].pc = "mirror",
                                     ![k].obj = WithFailure(worker[k].obj, "True")]
        BY <3>1, <2>1, WorkerType DEF BuildError, TypeOK
      <4>2. QED
        BY <4>1, <2>2, StatusKeepsSpec DEF Pc
    <3>2. CASE ApplyIsRefused(k)
      <4>1. worker' = [worker EXCEPT ![k].pc = "mirror",
                                     ![k].obj = WithFailure(worker[k].obj, "Unknown")]
        BY <3>2, <2>1, WorkerType DEF ApplyIsRefused, TypeOK
      <4>2. QED
        BY <4>1, <2>2, StatusKeepsSpec DEF Pc
    <3>3. CASE MirrorAfterError(k)
      <4> DEFINE d == deploymentCache[DeploymentOf[worker[k].server]]
                 obj == IF d.exists THEN Mirrored(worker[k].obj, d) ELSE worker[k].obj
      <4>1. worker' = [worker EXCEPT ![k].pc = "updateFailed", ![k].obj = obj]
        BY <3>3, <2>1, WorkerType DEF MirrorAfterError, TypeOK
      <4>2. obj.spec = worker[k].obj.spec
        BY <2>2, StatusKeepsSpec
      <4>3. QED
        BY <4>1, <4>2 DEF Pc
    <3>4. QED
      BY <1>3, <3>1, <3>2, <3>3
  <2>4. ReadInv'
    BY <2>1, <2>3, ReadKept
  <2>5. DeploymentsWhole' /\ LateInv'
    BY <1>3 DEF BuildError, ApplyIsRefused, MirrorAfterError, store, DeploymentsWhole, LateInv,
                Whole, Named
  <2>6. QED
    BY <2>4, <2>5
<1>4. ASSUME ApplySucceeds(k) \/ ApplyFails(k) PROVE ChecksumInv'
  <2>1. ReadyToApply(worker[k]) /\ worker[k].pc # "idle" /\ worker[k].pc = "build"
    BY <1>4 DEF ApplySucceeds, ApplyFails, ReadyToApply
  <2>2. worker[k] \in Active /\ worker[k].obj \in Present
    BY <2>1, WorkerType
  <2>3. Named(worker[k].read) = Refs[worker[k].obj.spec]
    BY <2>1, <2>2, ReadyIsWhole DEF ReadInv
  <2>4. ReadInv'
    <3>1. CASE ApplySucceeds(k)
      <4> DEFINE obj == Mirrored(WithFailure(worker[k].obj, "False"),
                                 deployment[DeploymentOf[worker[k].server]])
      <4>1. worker' = [worker EXCEPT ![k].pc = "updateApplied", ![k].obj = obj]
        BY <3>1, <2>1, WorkerType DEF ApplySucceeds, TypeOK
      <4>2. obj.spec = worker[k].obj.spec
        BY <2>2, StatusKeepsSpec
      <4> HIDE DEF obj
      <4>3. QED
        BY <2>1, <4>1, <4>2, ReadKept DEF Pc
    <3>2. CASE ApplyFails(k)
      <4>1. worker' = [worker EXCEPT ![k].pc = "mirror",
                                     ![k].obj = WithFailure(worker[k].obj, "Unknown")]
        BY <3>2, <2>1, WorkerType DEF ApplyFails, TypeOK
      <4>2. WithFailure(worker[k].obj, "Unknown").spec = worker[k].obj.spec
        BY <2>2, StatusKeepsSpec
      <4>3. QED
        BY <2>1, <4>1, <4>2, ReadKept DEF Pc
    <3>3. QED
      BY <1>4, <3>1, <3>2
  <2>5. DeploymentsWhole'
    <3>1. CASE Apply(k, worker[k])
      BY <3>1, <2>2, <2>3, ApplyWhole
    <3>2. CASE deployment' = deployment
      BY <3>2 DEF DeploymentsWhole, Whole, Named
    <3>3. QED
      BY <1>4, <3>1, <3>2 DEF ApplySucceeds, ApplyFails
  <2>6. LateInv'
    <3>1. late' \subseteq late \cup {worker[k]}
      BY <1>4 DEF ApplySucceeds, ApplyFails
    <3>2. QED
      BY <3>1, <2>3 DEF LateInv, Named
  <2>7. QED
    BY <2>4, <2>5, <2>6
<1>5. ASSUME UpdateAfterError(k) \/ UpdateAfterApply(k) \/ UpdateFails(k) PROVE ChecksumInv'
  <2>1. ReadInv'
    BY <1>5, ReadIdled DEF UpdateAfterError, UpdateAfterApply, UpdateFails
  <2>2. DeploymentsWhole' /\ LateInv'
    BY <1>5 DEF UpdateAfterError, UpdateAfterApply, UpdateFails, DeploymentsWhole, LateInv,
                Whole, Named
  <2>3. QED
    BY <2>1, <2>2
<1>6. QED
  BY <1>1, <1>2, <1>3, <1>4, <1>5 DEF Reconcile

\* A crash leaves requests under way: those that apply have read everything.
LEMMA ChecksumCrash == TypeOK /\ ChecksumInv /\ Crash => ChecksumInv'
<1> SUFFICES ASSUME TypeOK, ChecksumInv, Crash PROVE ChecksumInv'
  OBVIOUS
<1>1. ReadInv'
  BY DEF Crash, ReadInv, Idle
<1>2. DeploymentsWhole'
  BY DEF Crash, store, ChecksumInv, DeploymentsWhole, Whole, Named
<1>3. LateInv'
  <2>1. PICK sent \in SUBSET {k \in Kind : Sending(worker[k])} :
          late' = late \cup {worker[k] : k \in sent}
    BY DEF Crash
  <2>2. ASSUME NEW k \in sent, worker[k].pc = "build"
        PROVE  Named(worker[k].read) = Refs[worker[k].obj.spec]
    <3>1. k \in Kind /\ ReadyToApply(worker[k])
      BY <2>2 DEF Sending
    <3>2. worker[k] \in Active /\ Named(worker[k].read) \subseteq Refs[worker[k].obj.spec]
      BY <2>2, <3>1, WorkerType DEF ChecksumInv, ReadInv
    <3>3. QED
      BY <3>1, <3>2, ReadyIsWhole
  <2>3. QED
    BY <2>1, <2>2 DEF ChecksumInv, LateInv, Named
<1>4. QED
  BY <1>1, <1>2, <1>3 DEF ChecksumInv

LEMMA ChecksumLand ==
    ASSUME TypeOK, ChecksumInv, NEW w \in late, LandLate(w)
    PROVE  ChecksumInv'
<1>1. w \in Active /\ KindOf[w.server] \in Kind
  <2>1. w \in Active
    BY DEF TypeOK
  <2>2. w.server \in Server
    BY <2>1 DEF Active
  <2>3. QED
    BY <2>1, <2>2
<1>2. DeploymentsWhole'
  <2>1. CASE w.pc = "build" /\ Apply(KindOf[w.server], w)
    BY <1>1, <2>1, ApplyWhole DEF ChecksumInv, LateInv
  <2>2. CASE deployment' = deployment
    BY <2>2 DEF ChecksumInv, DeploymentsWhole, Whole, Named
  <2>3. QED
    BY <2>1, <2>2 DEF LandLate
<1>3. ReadInv' /\ LateInv'
  BY DEF LandLate, ChecksumInv, ReadInv, LateInv, Named
<1>4. QED
  BY <1>2, <1>3 DEF ChecksumInv

\* Users, kubelets, other field managers and the garbage collector.
LEMMA ChecksumSurroundings ==
    ASSUME TypeOK, ChecksumInv, Environment \/ Collect
    PROVE  ChecksumInv'
<1>1. ASSUME NEW d \in Deployment,
             ReportHealth(d) \/ DeleteDeployment(d) \/ ForeignEdit(d) \/ CollectGarbage(d)
      PROVE  DeploymentsWhole'
  <2>1. Whole(deployment[d]) /\ deployment[d] \in DeploymentObject
    BY DEF ChecksumInv, DeploymentsWhole, TypeOK
  <2>2. Whole(NoDeployment)
    BY DEF Whole, NoDeployment
  <2>3. Whole([deployment[d] EXCEPT !.exists = TRUE, !.manager = Foreign])
    BY <2>1 DEF Whole, DeploymentObject
  <2>4. \A h \in Health : Whole([deployment[d] EXCEPT !.health = h])
    BY <2>1 DEF Whole, DeploymentObject
  <2>5. \E new : Whole(new) /\ WriteDeployment(d, new)
    BY <1>1, <2>2, <2>3, <2>4 DEF ReportHealth, DeleteDeployment, ForeignEdit, CollectGarbage
  <2>6. QED
    BY <2>5, WriteWhole DEF ChecksumInv
<1>2. DeploymentsWhole'
  <2>1. CASE deployment' = deployment
    BY <2>1 DEF ChecksumInv, DeploymentsWhole, Whole, Named
  <2>2. QED
    BY <1>1, <2>1 DEF Environment, Collect, CreateServer, EditSpec, DeleteServer,
                      DeleteForeground, SetSecret, FinishDeletion
<1>3. worker' = worker /\ late' = late
  BY DEF Environment, Collect, CreateServer, EditSpec, DeleteServer, DeleteForeground, SetSecret,
         ReportHealth, DeleteDeployment, ForeignEdit, Change, CollectGarbage, FinishDeletion
<1>4. ReadInv' /\ LateInv'
  BY <1>3 DEF ChecksumInv, ReadInv, LateInv, Named
<1>5. QED
  BY <1>2, <1>4 DEF ChecksumInv

LEMMA ChecksumNext == TypeOK /\ ChecksumInv /\ [Next]_vars => ChecksumInv'
<1> SUFFICES ASSUME TypeOK, ChecksumInv, [Next]_vars PROVE ChecksumInv'
  OBVIOUS
<1>1. ASSUME UNCHANGED <<deployment, worker, late>> PROVE ChecksumInv'
  BY <1>1 DEF ChecksumInv, DeploymentsWhole, ReadInv, LateInv, Whole, Named
<1>2. CASE UNCHANGED vars
  BY <1>1, <1>2 DEF vars, store
<1>3. CASE Deliver
  BY <1>1, <1>3 DEF Deliver, SyncServer, SyncSecret, HandleSecretEvent, SyncDeployment, Resync,
                    Requeue, store
<1>4. CASE Next
  BY <1>3, <1>4, ChecksumReconcile, ChecksumCrash, ChecksumLand, ChecksumSurroundings DEF Next
<1>5. QED
  BY <1>2, <1>4

\* No interleaving of edits, rotations, failed calls and crashes makes a
\* Deployment with the checksums of another set of secrets than its own spec's.
THEOREM ChecksumsAreComplete == ReconcilerSpec => []ChecksumsComplete
<1>1. ChecksumInv => ChecksumsComplete
  BY DEF ChecksumInv, DeploymentsWhole, Whole, Named, ChecksumsComplete
<1>2. QED
  BY <1>1, ChecksumInit, ChecksumNext, TypeCorrect, PTL DEF ReconcilerSpec

-----------------------------------------------------------------------------
(* What a step of somebody else does to a manager process: nothing of its  *)
(* own changes but what its watches report                                 *)

Outside ==
    /\ UNCHANGED <<caches, events, worker>>
    /\ secretWatch' = secretWatch \cup
            {r \in Secret : secret'[r] # secret[r] /\ SecretEventPasses(secret[r], secret'[r])}
    /\ deploymentWatch' = [d \in Deployment |->
            IF deployment'[d] = deployment[d] THEN deploymentWatch[d]
            ELSE deploymentWatch[d] \cup OwnersOf(deployment[d]) \cup OwnersOf(deployment'[d])]

LEMMA OutsideTypes ==
    ASSUME TypeOK, Outside,
           server' \in [Server -> ServerObject], secret' \in Content,
           deployment' \in [Deployment -> DeploymentObject], late' \in SUBSET Active,
           changes' \in Nat, faults' \in Nat
    PROVE  TypeOK'
<1>1. secretWatch' \in SUBSET Secret
  BY DEF TypeOK, Outside
<1>2. deploymentWatch' \in [Deployment -> SUBSET Server]
  <2>1. \A d \in Deployment : /\ OwnersOf(deployment[d]) \subseteq Server
                              /\ OwnersOf(deployment'[d]) \subseteq Server
    BY DEF TypeOK, OwnersOf, DeploymentObject
  <2>2. QED
    BY <2>1 DEF TypeOK, Outside
<1>3. QED
  BY <1>1, <1>2 DEF TypeOK, Outside, caches, events

LEMMA OutsideVersions ==
    ASSUME TypeOK, VersionInv, UNCHANGED <<serverCache, worker>>,
           \A s \in Server : Advances(s),
           \A w \in late' : Agrees(w.obj, server'[w.server])
    PROVE  VersionInv'
<1>1. ASSUME NEW s \in Server
      PROVE  /\ serverCache'[s].rv <= server'[s].rv
             /\ serverCache'[s].rv = server'[s].rv => serverCache'[s] = server'[s]
  <2>1. /\ server[s].rv \in Nat /\ serverCache[s].rv \in Nat
        /\ serverCache[s].rv <= server[s].rv
        /\ serverCache[s].rv = server[s].rv => serverCache[s] = server[s]
    BY VersionTypes DEF VersionInv, CacheInv
  <2>2. QED
    BY <2>1 DEF Advances
<1>2. ASSUME NEW k \in Kind, worker'[k].pc # "idle"
      PROVE  Agrees(worker'[k].obj, server'[worker'[k].server])
  <2>1. /\ worker[k].server \in Server
        /\ worker[k].obj.rv \in Nat
        /\ server[worker[k].server].rv \in Nat
        /\ Agrees(worker[k].obj, server[worker[k].server])
    BY <1>2, VersionTypes DEF VersionInv, CopyInv
  <2>2. Derives(worker[k].obj, worker[k].obj)
    BY DEF Derives
  <2>3. QED
    BY <2>1, <2>2, AgreesLasts DEF Advances
<1>3. QED
  BY <1>1, <1>2 DEF VersionInv, CacheInv, CopyInv

=====================================================================================
