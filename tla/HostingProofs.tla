------------------------------- MODULE HostingProofs -------------------------------
(***************************************************************************)
(* DeploymentReconciler keeps the promise of Hosting.  The invariant:      *)
(* whatever a cache, a worker or a late request holds of a server was      *)
(* asked for once, and a status that says "Applied" and is about to be     *)
(* written is about a wish that a Deployment has hosted.                   *)
(***************************************************************************)
EXTENDS HostingHistory, ReconcilerSafetyProofs

USE ConfigAssumption, HistoryAssumption

Asked(s, o) == WishOf(s, o) \in asked

\* If w's status update says "Applied", it may.
Backed(w) ==
    w.pc \in {"mirror", "updateFailed", "updateApplied"} /\ w.obj.status.failure = "False" =>
        /\ w.pc = "updateApplied"
        /\ w.obj.status.observedGeneration = w.obj.generation
        /\ WishOf(w.server, w.obj) \in granted

CachesAsked == \A s \in Server : serverCache[s].exists => Asked(s, serverCache[s])

WorkersAsked ==
    \A k \in Kind : worker[k].pc # "idle" =>
        /\ KindOf[worker[k].server] = k
        /\ Asked(worker[k].server, worker[k].obj)
        /\ Backed(worker[k])

LateAsked == \A w \in late : Asked(w.server, w.obj) /\ Backed(w)

\* The wish v is no newer than the server x.
NotNewer(v, x) ==
    /\ v.inc <= x.inc
    /\ v.inc = x.inc /\ x.exists => v.generation <= x.generation

AskedInv ==
    /\ asked \subseteq Promise!Wish
    /\ \A s \in Server : server[s].exists => Asked(s, server[s])
    /\ \A v \in asked : NotNewer(v, server[v.server])

OwnersInv ==
    \A d \in Deployment : deployment[d].exists /\ deployment[d].manager # Foreign =>
        deployment[d].owner \in Server /\ KindOf[deployment[d].owner] = deployment[d].manager

GrantedInv == \A v \in asked : hosted[DeploymentOf[v.server]] = Promise!Hosted(v) => v \in granted

HostingInv ==
    /\ TypeOK /\ VersionInv
    /\ CachesAsked /\ WorkersAsked /\ LateAsked
    /\ AskedInv /\ OwnersInv /\ GrantedInv

-----------------------------------------------------------------------------
(* What a step may do to the objects of the API server                     *)

\* Who may write: an active worker, or a request of a crashed process.
Writer(w) == w \in late \/ \E k \in Kind : worker[k].pc # "idle" /\ w = worker[k]

Applies ==
    /\ server' = server
    /\ \E w : Writer(w) /\ w.pc = "build" /\ Apply(KindOf[w.server], w)

WritesStatus ==
    /\ deployment' = deployment
    /\ \E w : /\ Writer(w)
              /\ w.pc \in {"mirror", "updateFailed", "updateApplied"}
              /\ server' = StatusUpdated(w.server, w.obj)

Asks ==
    /\ deployment' = deployment
    /\ \E s \in Server : CreateServer(s) \/ EditSpec(s) \/ DeleteForeground(s)

Withdraws ==
    /\ deployment' = deployment
    /\ \E s \in Server : server[s].exists /\ server' = Removed(s)

Loses ==
    /\ server' = server
    /\ \E d \in Deployment :
         \/ deployment' = [deployment EXCEPT ![d] = NoDeployment]
         \/ deployment' = [deployment EXCEPT ![d] =
                             [deployment[d] EXCEPT !.exists = TRUE, !.manager = Foreign]]

Reports == server' = server /\ \E d \in Deployment : ReportHealth(d)

LEMMA StepCases ==
    ASSUME TypeOK, WorkersAsked, Next
    PROVE  \/ server' = server /\ deployment' = deployment
           \/ Applies \/ WritesStatus \/ Asks \/ Withdraws \/ Loses \/ Reports
<1>1. CASE Deliver
  BY <1>1 DEF Deliver, SyncServer, SyncSecret, HandleSecretEvent, SyncDeployment,
              Resync, Requeue, store
<1>2. ASSUME NEW k \in Kind, Reconcile(k)
      PROVE  (server' = server /\ deployment' = deployment) \/ Applies \/ WritesStatus
  <2>1. CASE ApplySucceeds(k)
    <3>1. worker[k].pc = "build" /\ KindOf[worker[k].server] = k
      BY <2>1 DEF ApplySucceeds, ReadyToApply, WorkersAsked
    <3>2. Apply(k, worker[k]) /\ server' = server
      BY <2>1 DEF ApplySucceeds
    <3>3. QED
      BY <3>1, <3>2, Zenon DEF Applies, Writer
  <2>2. CASE UpdateAfterError(k) \/ UpdateAfterApply(k)
    BY <2>2 DEF UpdateAfterError, UpdateAfterApply, WritesStatus, Writer
  <2>3. QED
    BY <1>2, <2>1, <2>2 DEF Reconcile, Start, ReadSecret, BuildError, ApplyIsRefused,
                            MirrorAfterError, store
<1>3. ASSUME NEW k \in Kind, ApplyFails(k)
      PROVE  (server' = server /\ deployment' = deployment) \/ Applies
  <2>1. worker[k].pc = "build" /\ KindOf[worker[k].server] = k
    BY <1>3 DEF ApplyFails, ReadyToApply, WorkersAsked
  <2>2. server' = server /\ (deployment' = deployment \/ Apply(k, worker[k]))
    BY <1>3 DEF ApplyFails
  <2>3. QED
    BY <2>1, <2>2, Zenon DEF Applies, Writer
<1>4. ASSUME NEW k \in Kind, UpdateFails(k)
      PROVE  (server' = server /\ deployment' = deployment) \/ WritesStatus
  BY <1>4 DEF UpdateFails, WritesStatus, Writer
<1>5. CASE Crash
  BY <1>5 DEF Crash, store
<1>6. ASSUME NEW w \in late, LandLate(w)
      PROVE  (server' = server /\ deployment' = deployment) \/ Applies \/ WritesStatus
  <2>1. w.pc # "build" => w.pc \in {"mirror", "updateFailed", "updateApplied"}
    BY DEF TypeOK, Active, Pc
  <2>2. CASE UNCHANGED <<server, deployment, deploymentWatch>>
    BY <2>2
  <2>3. CASE w.pc = "build" /\ Apply(KindOf[w.server], w) /\ server' = server
    BY <2>3, Zenon DEF Applies, Writer
  <2>4. CASE w.pc # "build" /\ server' = StatusUpdated(w.server, w.obj)
             /\ UNCHANGED <<deployment, deploymentWatch>>
    BY <2>1, <2>4, Zenon DEF WritesStatus, Writer
  <2>5. QED
    BY <1>6, <2>2, <2>3, <2>4 DEF LandLate
<1>7. CASE Environment
  <2>1. ASSUME NEW s \in Server, DeleteServer(s) PROVE Withdraws
    BY <2>1 DEF DeleteServer, Withdraws
  <2>2. ASSUME NEW s \in Server, CreateServer(s) \/ EditSpec(s) \/ DeleteForeground(s) PROVE Asks
    BY <2>2 DEF CreateServer, EditSpec, DeleteForeground, Asks
  <2>3. ASSUME NEW d \in Deployment, DeleteDeployment(d) \/ ForeignEdit(d) PROVE Loses
    BY <2>3 DEF DeleteDeployment, ForeignEdit, WriteDeployment, Loses
  <2>4. ASSUME NEW d \in Deployment, ReportHealth(d) PROVE Reports
    BY <2>4 DEF Reports, ReportHealth
  <2>5. QED
    BY <1>7, <2>1, <2>2, <2>3, <2>4 DEF Environment, SetSecret
<1>8. CASE Collect
  <2>1. ASSUME NEW d \in Deployment, CollectGarbage(d) PROVE Loses
    BY <2>1 DEF CollectGarbage, WriteDeployment, Loses
  <2>2. ASSUME NEW s \in Server, FinishDeletion(s) PROVE Withdraws
    BY <2>2 DEF FinishDeletion, Withdraws
  <2>3. QED
    BY <1>8, <2>1, <2>2 DEF Collect
<1>9. QED
  BY <1>1, <1>2, <1>3, <1>4, <1>5, <1>6, <1>7, <1>8 DEF Next

-----------------------------------------------------------------------------
(* What caches, workers and late requests hold                             *)

LEMMA RememberGrows ==
    ASSUME Remember
    PROVE  asked \subseteq asked' /\ granted \subseteq granted'
BY DEF Remember

LEMMA WriterType ==
    ASSUME TypeOK, WorkersAsked, LateAsked, NEW w, Writer(w)
    PROVE  /\ w \in Active /\ w.server \in Server /\ w.obj \in Present
           /\ Asked(w.server, w.obj) /\ Backed(w)
<1>1. CASE w \in late
  BY <1>1 DEF LateAsked, TypeOK, Active
<1>2. ASSUME NEW k \in Kind, worker[k].pc # "idle", w = worker[k]
      PROVE  /\ w \in Active /\ w.server \in Server /\ w.obj \in Present
             /\ Asked(w.server, w.obj) /\ Backed(w)
  BY <1>2, WorkerType DEF WorkersAsked
<1>3. QED
  BY <1>1, <1>2 DEF Writer

\* What a Deployment hosts after an apply, and whose it was before.
LEMMA ApplyHosts ==
    ASSUME TypeOK, NEW w \in Active, Apply(KindOf[w.server], w)
    PROVE  /\ DeploymentOf[w.server] \in Deployment
           /\ deployment[DeploymentOf[w.server]].exists =>
                deployment[DeploymentOf[w.server]].manager = KindOf[w.server]
           /\ \E new : /\ deployment' = [deployment EXCEPT ![DeploymentOf[w.server]] = new]
                       /\ new.exists /\ new.manager = KindOf[w.server] /\ new.owner = w.server
                       /\ new.inc = w.obj.inc /\ new.spec = w.obj.spec
<1>1. w.server \in Server
  BY DEF Active
<1>2. PICK order : WriteDeployment(DeploymentOf[w.server],
                      Applied(KindOf[w.server], w.server, w.obj, w.read, order))
  BY DEF Apply
<1>3. DeploymentOf[w.server] \in Deployment
  BY <1>1
<1>4. deployment[DeploymentOf[w.server]].exists =>
        deployment[DeploymentOf[w.server]].manager = KindOf[w.server]
  BY DEF Apply, ApplyAccepted
<1>5. deployment' = [deployment EXCEPT ![DeploymentOf[w.server]] =
                       Applied(KindOf[w.server], w.server, w.obj, w.read, order)]
  BY <1>2 DEF WriteDeployment
<1>6. LET new == Applied(KindOf[w.server], w.server, w.obj, w.read, order)
      IN  /\ new.exists /\ new.manager = KindOf[w.server] /\ new.owner = w.server
          /\ new.inc = w.obj.inc /\ new.spec = w.obj.spec
  BY DEF Applied
<1>7. QED
  BY <1>3, <1>4, <1>5, <1>6, Zenon

LEMMA ApplyGrants ==
    ASSUME TypeOK, Remember, NEW w \in Active, Asked(w.server, w.obj), Apply(KindOf[w.server], w)
    PROVE  WishOf(w.server, w.obj) \in granted'
<1>1. PICK new : /\ deployment' = [deployment EXCEPT ![DeploymentOf[w.server]] = new]
                 /\ new.exists /\ new.manager = KindOf[w.server] /\ new.owner = w.server
                 /\ new.inc = w.obj.inc /\ new.spec = w.obj.spec
  BY ApplyHosts
<1>2. w.server \in Server /\ DeploymentOf[w.server] \in Deployment
  BY DEF Active
<1>3. deployment'[DeploymentOf[w.server]] = new
  BY <1>1, <1>2 DEF TypeOK
<1>4. KindOf[w.server] # Foreign
  BY <1>2
<1>5. hosted'[DeploymentOf[w.server]] = [server |-> w.server, inc |-> w.obj.inc, spec |-> w.obj.spec]
  BY <1>1, <1>2, <1>3, <1>4 DEF hosted
<1>6. WishOf(w.server, w.obj) \in asked'
  BY RememberGrows DEF Asked
<1>7. Promise!Hosted(WishOf(w.server, w.obj))
        = [server |-> w.server, inc |-> w.obj.inc, spec |-> w.obj.spec]
      /\ WishOf(w.server, w.obj).server = w.server
  BY DEF Promise!Hosted, WishOf
<1>8. QED
  BY <1>5, <1>6, <1>7, Zenon DEF Remember

LEMMA CachesNext ==
    ASSUME TypeOK, CachesAsked, AskedInv, Next, Remember
    PROVE  CachesAsked'
<1>1. SUFFICES ASSUME NEW s \in Server, serverCache'[s].exists
               PROVE  WishOf(s, serverCache'[s]) \in asked'
  BY DEF CachesAsked, Asked, WishOf
<1>2. asked \subseteq asked'
  BY RememberGrows
<1>3. serverCache'[s] = serverCache[s] \/ serverCache'[s] = server[s]
  BY CacheStep
<1>4. QED
  BY <1>1, <1>2, <1>3, Zenon DEF CachesAsked, AskedInv, Asked

LEMMA LateNext ==
    ASSUME TypeOK, WorkersAsked, LateAsked, Next, Remember
    PROVE  LateAsked'
<1>1. SUFFICES ASSUME NEW w \in late' PROVE Asked(w.server, w.obj)' /\ Backed(w)'
  BY DEF LateAsked, Asked, Backed, WishOf
<1>2. Writer(w)
  BY CopiesStep DEF LateStep, Writer
<1>3. Asked(w.server, w.obj) /\ Backed(w)
  BY <1>2, WriterType
<1>4. QED
  BY <1>3, RememberGrows DEF Asked, Backed, WishOf

\* The status a worker holds says "Applied" only after the apply.
LEMMA BackedNext ==
    ASSUME TypeOK, WorkersAsked, Next, Remember, NEW j \in Kind, worker'[j].pc # "idle"
    PROVE  Backed(worker[j])'
<1>1. ASSUME worker'[j] = worker[j] PROVE Backed(worker[j])'
  BY <1>1, RememberGrows DEF WorkersAsked, Backed, WishOf
<1>2. ASSUME worker'[j].pc = "build" PROVE Backed(worker[j])'
  BY <1>2 DEF Backed
<1>3. CASE Deliver \/ Environment \/ Collect
  <2>1. CASE Deliver
    BY <1>1, <2>1 DEF Deliver, SyncServer, SyncSecret, HandleSecretEvent, SyncDeployment,
                      Resync, Requeue
  <2>2. CASE Environment
    BY <1>1, <2>2 DEF Environment, CreateServer, EditSpec, DeleteServer, DeleteForeground,
                      SetSecret, ReportHealth, DeleteDeployment, ForeignEdit, Change
  <2>3. CASE Collect
    BY <1>1, <2>3 DEF Collect, CollectGarbage, FinishDeletion
  <2>4. QED
    BY <1>3, <2>1, <2>2, <2>3
<1>4. CASE Crash
  BY <1>4 DEF Crash, Idle
<1>5. ASSUME NEW w \in late, LandLate(w) PROVE Backed(worker[j])'
  BY <1>1, <1>5 DEF LandLate
<1>6. ASSUME NEW k \in Kind, Reconcile(k) \/ ApplyFails(k) \/ UpdateFails(k)
      PROVE  Backed(worker[j])'
  <2>1. ASSUME j # k PROVE worker'[j] = worker[j]
    BY <1>6, <2>1 DEF Reconcile, Start, ReadSecret, BuildError, ApplySucceeds, ApplyIsRefused,
          ApplyFails, MirrorAfterError, UpdateAfterError, UpdateAfterApply, UpdateFails, TypeOK
  <2>2. ASSUME j = k, NEW s \in Server, Start(k, s) PROVE Backed(worker[j])'
    BY <1>1, <1>2, <2>2 DEF Start, TypeOK
  <2>3. ASSUME j = k, NEW r \in Secret, ReadSecret(k, r) PROVE Backed(worker[j])'
    <3>1. worker[k] \in Active /\ worker[k].pc = "build"
      BY <2>3, WorkerType DEF ReadSecret
    <3>2. worker' = [worker EXCEPT ![k] = [worker[k] EXCEPT !.read[r] = secretCache[r]]]
      BY <2>3 DEF ReadSecret, TypeOK
    <3>3. [worker[k] EXCEPT !.read[r] = secretCache[r]].pc = "build"
      BY <3>1 DEF Active
    <3>4. QED
      BY <1>2, <2>3, <3>2, <3>3 DEF TypeOK
  <2>4. ASSUME j = k, BuildError(k) \/ ApplyIsRefused(k) \/ ApplyFails(k)
        PROVE  Backed(worker[j])'
    <3>1. worker[k] \in Active /\ worker[k].obj \in Present
      BY <2>4, WorkerType DEF BuildError, ApplyIsRefused, ApplyFails, ReadyToApply
    <3>2. PICK f \in {"True", "Unknown"} :
            worker' = [worker EXCEPT ![k].pc = "mirror", ![k].obj = WithFailure(worker[k].obj, f)]
      BY <2>4 DEF BuildError, ApplyIsRefused, ApplyFails, TypeOK
    <3>3. worker'[k] = [worker[k] EXCEPT !.pc = "mirror", !.obj = WithFailure(worker[k].obj, f)]
      BY <3>2 DEF TypeOK
    <3>4. worker'[k].obj = WithFailure(worker[k].obj, f)
      BY <3>1, <3>3 DEF Active
    <3>5. WithFailure(worker[k].obj, f).status.failure = f
      BY <3>1 DEF WithFailure, Present, Status
    <3>6. QED
      BY <2>4, <3>2, <3>4, <3>5 DEF Backed
  <2>5. ASSUME j = k, ApplySucceeds(k) PROVE Backed(worker[j])'
    <3>1. /\ worker[k] \in Active /\ worker[k].obj \in Present /\ worker[k].server \in Server
          /\ KindOf[worker[k].server] = k
          /\ Asked(worker[k].server, worker[k].obj)
      BY <2>5, WorkerType DEF ApplySucceeds, ReadyToApply, WorkersAsked
    <3>2. WishOf(worker[k].server, worker[k].obj) \in granted'
      BY <2>5, <3>1, ApplyGrants DEF ApplySucceeds
    <3>3. PICK d : worker' = [worker EXCEPT ![k].pc = "updateApplied",
                                ![k].obj = Mirrored(WithFailure(worker[k].obj, "False"), d)]
      BY <2>5 DEF ApplySucceeds, TypeOK
    <3>4. worker'[k] = [worker[k] EXCEPT !.pc = "updateApplied",
                          !.obj = Mirrored(WithFailure(worker[k].obj, "False"), d)]
      BY <3>3 DEF TypeOK
    <3>5. /\ worker'[k].obj = Mirrored(WithFailure(worker[k].obj, "False"), d)
          /\ worker'[k].server = worker[k].server
          /\ worker'[k].pc = "updateApplied"
      BY <3>1, <3>4 DEF Active
    <3>6. WithFailure(worker[k].obj, "False") \in Present
      BY <3>1, WithFailureType DEF DeploymentFailure
    <3>7. Mirrored(WithFailure(worker[k].obj, "False"), d).status.observedGeneration
            = WithFailure(worker[k].obj, "False").generation
      BY <3>6 DEF Mirrored, Present, Status
    <3>8. Derives(Mirrored(WithFailure(worker[k].obj, "False"), d), worker[k].obj)
          /\ Derives(WithFailure(worker[k].obj, "False"), worker[k].obj)
      BY <3>1, MirroredDerives
    <3>9. WishOf(worker'[k].server, worker'[k].obj) = WishOf(worker[k].server, worker[k].obj)
      BY <3>5, <3>8 DEF WishOf, Derives
    <3>10. QED
      BY <2>5, <3>2, <3>5, <3>7, <3>8, <3>9 DEF Backed, Derives, WishOf
  <2>6. ASSUME j = k, MirrorAfterError(k) PROVE Backed(worker[j])'
    <3>1. worker[k] \in Active /\ worker[k].obj \in Present /\ worker[k].pc = "mirror"
      BY <2>6, WorkerType DEF MirrorAfterError
    <3>2. worker[k].obj.status.failure # "False"
      BY <3>1 DEF WorkersAsked, Backed
    <3>3. PICK obj \in {worker[k].obj,
                         Mirrored(worker[k].obj, deploymentCache[DeploymentOf[worker[k].server]])} :
            worker' = [worker EXCEPT ![k].pc = "updateFailed", ![k].obj = obj]
      BY <2>6 DEF MirrorAfterError, TypeOK
    <3>4. obj.status.failure = worker[k].obj.status.failure
      <4>1. worker[k].obj.status \in Status
        BY <3>1 DEF Present
      <4>2. \A d : Mirrored(worker[k].obj, d).status.failure = worker[k].obj.status.failure
        BY <3>1, <4>1 DEF Mirrored, Present, Status
      <4>3. QED
        BY <3>3, <4>2
    <3>5. worker'[k] = [worker[k] EXCEPT !.pc = "updateFailed", !.obj = obj]
      BY <3>3 DEF TypeOK
    <3>6. worker'[k].obj = obj
      BY <3>1, <3>5 DEF Active
    <3>7. QED
      BY <2>6, <3>2, <3>4, <3>6 DEF Backed
  <2>7. ASSUME j = k, UpdateAfterError(k) \/ UpdateAfterApply(k) \/ UpdateFails(k)
        PROVE  FALSE
    <3>1. worker' = [worker EXCEPT ![k] = Idle]
      BY <2>7 DEF UpdateAfterError, UpdateAfterApply, UpdateFails
    <3>2. QED
      BY <2>7, <3>1 DEF Idle, TypeOK
  <2>8. QED
    BY <1>1, <1>6, <2>1, <2>2, <2>3, <2>4, <2>5, <2>6, <2>7 DEF Reconcile
<1>7. QED
  BY <1>3, <1>4, <1>5, <1>6 DEF Next

LEMMA WorkersNext ==
    ASSUME TypeOK, CachesAsked, WorkersAsked, Next, Remember
    PROVE  WorkersAsked'
<1>1. SUFFICES ASSUME NEW k \in Kind, worker'[k].pc # "idle"
               PROVE  /\ KindOf[worker'[k].server] = k
                      /\ WishOf(worker'[k].server, worker'[k].obj) \in asked'
                      /\ Backed(worker[k])'
  BY DEF WorkersAsked, Asked, WishOf
<1>2. Backed(worker[k])'
  BY <1>1, BackedNext
<1>3. asked \subseteq asked'
  BY RememberGrows
<1>4. CASE /\ worker[k].pc # "idle"
           /\ worker'[k].server = worker[k].server
           /\ Derives(worker'[k].obj, worker[k].obj)
  <2>1. WishOf(worker'[k].server, worker'[k].obj) = WishOf(worker[k].server, worker[k].obj)
    BY <1>4 DEF Derives, WishOf
  <2>2. QED
    BY <1>2, <1>3, <1>4, <2>1 DEF WorkersAsked, Asked
<1>5. CASE /\ worker'[k].server \in Server
           /\ KindOf[worker'[k].server] = k
           /\ worker'[k].obj = serverCache[worker'[k].server]
           /\ serverCache[worker'[k].server].exists
  BY <1>2, <1>3, <1>5 DEF CachesAsked, Asked
<1>6. QED
  BY <1>1, <1>4, <1>5, CopiesStep DEF WorkerStep

-----------------------------------------------------------------------------
(* Each step of the controllers and of the surroundings is one of Hosting  *)

LEMMA GrantedNext ==
    ASSUME Remember
    PROVE  GrantedInv'
BY DEF Remember, GrantedInv

\* No user asks for anything.
SameWishes ==
    \A s \in Server :
        /\ server'[s].exists = server[s].exists
        /\ server'[s].inc = server[s].inc
        /\ server'[s].generation = server[s].generation
        /\ server'[s].spec = server[s].spec

LEMMA NothingAsked ==
    ASSUME AskedInv, Remember, SameWishes
    PROVE  wish' = wish /\ asked' = asked /\ AskedInv'
<1>1. wish' = wish
  BY DEF wish, WishOf, SameWishes
<1>2. asked' = asked
  BY <1>1 DEF Remember, wish, AskedInv, Asked
<1>3. \A v \in asked : v.server \in Server
  BY DEF AskedInv, Promise!Wish
<1>4. \A s \in Server : server'[s].exists => WishOf(s, server'[s]) \in asked
  BY DEF SameWishes, AskedInv, Asked, WishOf
<1>5. \A v \in asked : NotNewer(v, server'[v.server])
  BY <1>3 DEF SameWishes, AskedInv, NotNewer
<1>6. QED
  BY <1>1, <1>2, <1>4, <1>5 DEF AskedInv, Asked, WishOf, NotNewer, Promise!Wish

LEMMA SameServers ==
    ASSUME server' = server
    PROVE  SameWishes /\ wish' = wish /\ claim' = claim
BY DEF SameWishes, wish, claim, WishOf

LEMMA NothingGranted ==
    ASSUME GrantedInv, Remember, asked' = asked, hosted' = hosted
    PROVE  granted' = granted
BY DEF GrantedInv, Remember

LEMMA QuietStep ==
    ASSUME AskedInv, OwnersInv, GrantedInv, Remember, server' = server, deployment' = deployment
    PROVE  AskedInv' /\ OwnersInv' /\ UNCHANGED Promise!vars
<1>1. AskedInv' /\ wish' = wish /\ asked' = asked /\ claim' = claim
  BY SameServers, NothingAsked
<1>2. hosted' = hosted
  BY DEF hosted
<1>3. granted' = granted
  BY <1>1, <1>2, NothingGranted
<1>4. OwnersInv'
  BY DEF OwnersInv
<1>5. QED
  BY <1>1, <1>2, <1>3, <1>4 DEF Promise!vars

LEMMA AppliesStep ==
    ASSUME TypeOK, WorkersAsked, LateAsked, AskedInv, OwnersInv, Remember, Applies
    PROVE  AskedInv' /\ OwnersInv' /\ Promise!Next
<1>1. PICK w : Writer(w) /\ Apply(KindOf[w.server], w)
  BY DEF Applies
<1>2. w \in Active /\ w.server \in Server /\ w.obj \in Present /\ Asked(w.server, w.obj)
  BY <1>1, WriterType
<1>3. PICK new : /\ deployment' = [deployment EXCEPT ![DeploymentOf[w.server]] = new]
                 /\ new.exists /\ new.manager = KindOf[w.server] /\ new.owner = w.server
                 /\ new.inc = w.obj.inc /\ new.spec = w.obj.spec
  BY <1>1, <1>2, ApplyHosts
<1>4. /\ DeploymentOf[w.server] \in Deployment
      /\ deployment[DeploymentOf[w.server]].exists =>
            deployment[DeploymentOf[w.server]].manager = KindOf[w.server]
  BY <1>1, <1>2, ApplyHosts
<1>5. \A e \in Deployment : deployment'[e] = IF e = DeploymentOf[w.server] THEN new ELSE deployment[e]
  BY <1>3, <1>4 DEF TypeOK
<1>6. KindOf[w.server] # Foreign
  BY <1>2
<1>7. AskedInv' /\ wish' = wish /\ asked' = asked /\ claim' = claim
  BY SameServers, NothingAsked DEF Applies
<1>8. OwnersInv'
  BY <1>2, <1>3, <1>5 DEF OwnersInv
<1>9. Promise!Host(DeploymentOf[w.server], WishOf(w.server, w.obj))
  <2>1. WishOf(w.server, w.obj).server = w.server
        /\ Promise!Hosted(WishOf(w.server, w.obj))
             = [server |-> w.server, inc |-> w.obj.inc, spec |-> w.obj.spec]
    BY DEF WishOf, Promise!Hosted
  <2>2. hosted' = [hosted EXCEPT ![DeploymentOf[w.server]] = Promise!Hosted(WishOf(w.server, w.obj))]
    <3>1. hosted'[DeploymentOf[w.server]] = Promise!Hosted(WishOf(w.server, w.obj))
      BY <1>3, <1>4, <1>5, <1>6, <2>1 DEF hosted
    <3>2. \A e \in Deployment : e # DeploymentOf[w.server] => hosted'[e] = hosted[e]
      BY <1>5 DEF hosted
    <3>3. hosted = [e \in Deployment |-> hosted[e]] /\ hosted' = [e \in Deployment |-> hosted'[e]]
      BY DEF hosted
    <3>4. QED
      BY <1>4, <3>1, <3>2, <3>3
  <2>3. CASE deployment[DeploymentOf[w.server]].exists
    <3>1. /\ deployment[DeploymentOf[w.server]].owner \in Server
          /\ KindOf[deployment[DeploymentOf[w.server]].owner] = KindOf[w.server]
      BY <1>4, <1>6, <2>3 DEF OwnersInv
    <3>2. hosted[DeploymentOf[w.server]] =
            [server |-> deployment[DeploymentOf[w.server]].owner,
             inc |-> deployment[DeploymentOf[w.server]].inc,
             spec |-> deployment[DeploymentOf[w.server]].spec]
      BY <1>4, <1>6, <2>3 DEF hosted
    <3>3. hosted[DeploymentOf[w.server]] \in Records
      <4>1. deployment[DeploymentOf[w.server]] \in DeploymentObject
        BY <1>4 DEF TypeOK
      <4>2. QED
        BY <3>2, <4>1 DEF DeploymentObject, Records
    <3>4. hosted[DeploymentOf[w.server]] # Others
      BY <3>3
    <3>5. KindOf[hosted[DeploymentOf[w.server]].server] = KindOf[w.server]
      BY <3>1, <3>2
    <3>6. QED
      BY <1>2, <1>7, <2>1, <2>2, <3>4, <3>5
      DEF Promise!Host, Promise!HostedNow, Asked, Remember
  <2>4. CASE ~ deployment[DeploymentOf[w.server]].exists
    <3>1. hosted[DeploymentOf[w.server]] = None
      BY <1>4, <2>4 DEF hosted
    <3>2. QED
      BY <1>2, <1>7, <2>1, <2>2, <3>1
      DEF Promise!Host, Promise!HostedNow, Asked, Remember
  <2>5. QED
    BY <2>3, <2>4
<1>10. QED
  BY <1>2, <1>4, <1>7, <1>8, <1>9 DEF Promise!Next, Asked

LEMMA LosesStep ==
    ASSUME TypeOK, AskedInv, OwnersInv, GrantedInv, Remember, Loses
    PROVE  AskedInv' /\ OwnersInv' /\ Promise!Next
<1>1. AskedInv' /\ wish' = wish /\ asked' = asked /\ claim' = claim
  BY SameServers, NothingAsked DEF Loses
<1>2. PICK d \in Deployment :
         \/ deployment' = [deployment EXCEPT ![d] = NoDeployment]
         \/ deployment' = [deployment EXCEPT ![d] =
                             [deployment[d] EXCEPT !.exists = TRUE, !.manager = Foreign]]
  BY Zenon DEF Loses
<1>3. PICK new : /\ deployment' = [deployment EXCEPT ![d] = new]
                 /\ \/ new = NoDeployment
                    \/ new = [deployment[d] EXCEPT !.exists = TRUE, !.manager = Foreign]
  BY <1>2, Zenon
<1>4. \A e \in Deployment : deployment'[e] = IF e = d THEN new ELSE deployment[e]
  BY <1>3 DEF TypeOK
<1>5. ~ new.exists \/ (new.exists /\ new.manager = Foreign)
  <2>1. deployment[d] \in DeploymentObject
    BY DEF TypeOK
  <2>2. CASE new = NoDeployment
    BY <2>2 DEF NoDeployment
  <2>3. CASE new = [deployment[d] EXCEPT !.exists = TRUE, !.manager = Foreign]
    BY <2>1, <2>3 DEF DeploymentObject
  <2>4. QED
    BY <1>3, <2>2, <2>3
<1>6. OwnersInv'
  BY <1>4, <1>5 DEF OwnersInv
<1>7. PICK lost \in {None, Others} : hosted' = [hosted EXCEPT ![d] = lost]
  <2>1. CASE ~ new.exists
    <3>1. hosted' = [hosted EXCEPT ![d] = None]
      BY <1>4, <2>1 DEF hosted
    <3>2. QED
      BY <3>1
  <2>2. CASE new.exists /\ new.manager = Foreign
    <3>1. hosted' = [hosted EXCEPT ![d] = Others]
      BY <1>4, <2>2 DEF hosted
    <3>2. QED
      BY <3>1
  <2>3. QED
    BY <1>5, <2>1, <2>2
<1>8. \A v \in asked : Promise!Hosted(v) # None /\ Promise!Hosted(v) # Others
  <2>1. \A v \in asked : Promise!Hosted(v) \in Records
    BY DEF AskedInv, Promise!Wish, Promise!Hosted, Records
  <2>2. QED
    BY <2>1
<1>9. granted' = granted
  <2>1. \A v \in asked : DeploymentOf[v.server] \in Deployment
    BY DEF AskedInv, Promise!Wish
  <2>2. ASSUME NEW v \in asked, hosted'[DeploymentOf[v.server]] = Promise!Hosted(v)
        PROVE  v \in granted
    <3>1. DeploymentOf[v.server] # d
      BY <1>7, <1>8, <2>2 DEF hosted
    <3>2. hosted[DeploymentOf[v.server]] = Promise!Hosted(v)
      BY <1>7, <2>1, <2>2, <3>1 DEF hosted
    <3>3. QED
      BY <3>2 DEF GrantedInv
  <2>3. QED
    BY <1>1, <2>2 DEF Remember
<1>10. QED
  BY <1>1, <1>6, <1>7, <1>9 DEF Promise!Next, Promise!Lose

LEMMA ReportsStep ==
    ASSUME TypeOK, AskedInv, OwnersInv, GrantedInv, Remember, Reports
    PROVE  AskedInv' /\ OwnersInv' /\ UNCHANGED Promise!vars
<1>1. AskedInv' /\ wish' = wish /\ asked' = asked /\ claim' = claim
  BY SameServers, NothingAsked DEF Reports
<1>2. PICK d \in Deployment, h \in Health :
        deployment' = [deployment EXCEPT ![d] = [deployment[d] EXCEPT !.health = h]]
  BY DEF Reports, ReportHealth, WriteDeployment
<1>3. \A e \in Deployment :
        /\ deployment'[e].exists = deployment[e].exists
        /\ deployment'[e].manager = deployment[e].manager
        /\ deployment'[e].owner = deployment[e].owner
        /\ deployment'[e].inc = deployment[e].inc
        /\ deployment'[e].spec = deployment[e].spec
  <2>1. \A e \in Deployment : e # d => deployment'[e] = deployment[e]
    BY <1>2 DEF TypeOK
  <2>2. deployment'[d] = [deployment[d] EXCEPT !.health = h]
    BY <1>2 DEF TypeOK
  <2>3. deployment[d] \in DeploymentObject
    BY DEF TypeOK
  <2>4. QED
    BY <2>1, <2>2, <2>3 DEF DeploymentObject
<1>4. hosted' = hosted
  BY <1>3 DEF hosted
<1>5. OwnersInv'
  BY <1>3 DEF OwnersInv
<1>6. granted' = granted
  BY <1>1, <1>4, NothingGranted
<1>7. QED
  BY <1>1, <1>4, <1>5, <1>6 DEF Promise!vars

\* A status update that is accepted and says "Applied" claims a wish that was granted.
LEMMA WritesStatusStep ==
    ASSUME TypeOK, VersionInv, WorkersAsked, LateAsked, AskedInv, OwnersInv, GrantedInv,
           Remember, WritesStatus
    PROVE  AskedInv' /\ OwnersInv' /\ [Promise!Next]_(Promise!vars)
<1>1. PICK w : /\ Writer(w)
               /\ w.pc \in {"mirror", "updateFailed", "updateApplied"}
               /\ server' = StatusUpdated(w.server, w.obj)
  BY DEF WritesStatus
<1>2. w.server \in Server /\ w.obj \in Present /\ Backed(w)
  BY <1>1, WriterType
<1>3. deployment' = deployment
  BY DEF WritesStatus
<1>4. CASE server' = server
  BY <1>3, <1>4, QuietStep
<1>5. CASE /\ server[w.server].exists /\ server[w.server].rv = w.obj.rv
           /\ server' = [server EXCEPT ![w.server] =
                           [server[w.server] EXCEPT !.status = w.obj.status, !.rv = @ + 1]]
  <2>1. server[w.server] \in Present
    BY <1>2, <1>5, ExistsIsPresent DEF TypeOK
  <2>2. \A s \in Server : s # w.server => server'[s] = server[s]
    BY <1>2, <1>5 DEF TypeOK
  <2>3. server'[w.server] = [server[w.server] EXCEPT !.status = w.obj.status,
                                                     !.rv = server[w.server].rv + 1]
    BY <1>2, <1>5 DEF TypeOK
  <2>4. /\ server'[w.server].exists = server[w.server].exists
        /\ server'[w.server].inc = server[w.server].inc
        /\ server'[w.server].generation = server[w.server].generation
        /\ server'[w.server].spec = server[w.server].spec
        /\ server'[w.server].status = w.obj.status
    BY <2>1, <2>3 DEF Present
  <2>5. SameWishes
    BY <2>2, <2>4 DEF SameWishes
  <2>6. AskedInv' /\ wish' = wish /\ asked' = asked
    BY <2>5, NothingAsked
  <2>7. hosted' = hosted /\ OwnersInv'
    BY <1>3 DEF hosted, OwnersInv
  <2>8. granted' = granted
    BY <2>6, <2>7, NothingGranted
  <2>9. CASE w.obj.status.failure = "False"
    <3>1. /\ w.obj.status.observedGeneration = w.obj.generation
          /\ WishOf(w.server, w.obj) \in granted
      BY <1>1, <1>2, <2>9 DEF Backed
    <3>2. Agrees(w.obj, server[w.server])
      BY <1>1 DEF Writer, VersionInv, CopyInv
    <3>3. /\ w.obj.inc = server[w.server].inc
          /\ w.obj.generation = server[w.server].generation
          /\ w.obj.spec = server[w.server].spec
      BY <1>5, <3>2 DEF Agrees
    <3>4. wish[w.server] = WishOf(w.server, w.obj)
      BY <1>2, <1>5, <3>3 DEF wish, WishOf
    <3>5. Promise!Claimed(wish[w.server])
            = [inc |-> server[w.server].inc, generation |-> server[w.server].generation]
      BY <3>3, <3>4 DEF Promise!Claimed, WishOf
    <3>6. claim'[w.server] = Promise!Claimed(wish[w.server])
      BY <1>2, <1>5, <2>4, <2>9, <3>1, <3>3, <3>5 DEF claim
    <3>7. \A s \in Server : s # w.server => claim'[s] = claim[s]
      BY <2>2 DEF claim
    <3>8. claim' = [claim EXCEPT ![w.server] = Promise!Claimed(wish[w.server])]
      BY <1>2, <3>6, <3>7 DEF claim
    <3>9. Promise!Claim(w.server)
      BY <2>6, <2>7, <2>8, <3>1, <3>4, <3>8 DEF Promise!Claim
    <3>10. QED
      BY <1>2, <2>6, <2>7, <3>9 DEF Promise!Next
  <2>10. CASE w.obj.status.failure # "False"
    <3>1. claim'[w.server] = None
      BY <1>2, <2>4, <2>10 DEF claim
    <3>2. \A s \in Server : s # w.server => claim'[s] = claim[s]
      BY <2>2 DEF claim
    <3>3. claim' = [claim EXCEPT ![w.server] = None]
      BY <1>2, <3>1, <3>2 DEF claim
    <3>4. Promise!Retract(w.server)
      BY <2>6, <2>7, <2>8, <3>3 DEF Promise!Retract
    <3>5. QED
      BY <1>2, <2>6, <2>7, <3>4 DEF Promise!Next
  <2>11. QED
    BY <2>9, <2>10
<1>6. QED
  BY <1>1, <1>4, <1>5 DEF StatusUpdated, UpdateAccepted

\* What users may do to a server that stays or comes.
LEMMA UserStep ==
    ASSUME TypeOK, NEW s \in Server, CreateServer(s) \/ EditSpec(s) \/ DeleteForeground(s)
    PROVE  /\ server'[s] \in Present
           /\ \A t \in Server : t # s => server'[t] = server[t]
           /\ server[s].exists => /\ server'[s].inc = server[s].inc
                                  /\ server'[s].generation = server[s].generation + 1
                                  /\ server'[s].status = server[s].status
           /\ ~ server[s].exists => /\ server'[s].inc = server[s].inc + 1
                                    /\ server'[s].status = NoStatus
<1>1. server' \in [Server -> ServerObject]
  BY TypeServerChange
<1>2. server \in [Server -> ServerObject] /\ server[s] \in ServerObject
  BY DEF TypeOK
<1>3. CASE CreateServer(s)
  <2>1. PICK x \in Spec :
          server' = [server EXCEPT ![s] = [exists |-> TRUE, inc |-> server[s].inc + 1,
                      rv |-> server[s].rv + 1, generation |-> 1, spec |-> x,
                      deleting |-> FALSE, status |-> NoStatus]]
    BY <1>3 DEF CreateServer
  <2>2. server'[s] = [exists |-> TRUE, inc |-> server[s].inc + 1, rv |-> server[s].rv + 1,
                      generation |-> 1, spec |-> x, deleting |-> FALSE, status |-> NoStatus]
    BY <1>2, <2>1
  <2>3. server'[s].exists /\ server'[s].inc = server[s].inc + 1 /\ server'[s].status = NoStatus
    BY <2>2
  <2>4. \A t \in Server : t # s => server'[t] = server[t]
    BY <1>2, <2>1
  <2>5. server'[s] \in Present
    BY <1>1, <2>3, ExistsIsPresent
  <2>6. QED
    BY <1>3, <2>3, <2>4, <2>5 DEF CreateServer
<1>4. CASE EditSpec(s) \/ DeleteForeground(s)
  <2>1. server[s].exists /\ server[s] \in Present
    BY <1>2, <1>4, ExistsIsPresent DEF EditSpec, DeleteForeground
  <2>2. PICK new : /\ server' = [server EXCEPT ![s] = new]
                   /\ \/ \E x \in Spec : new = [server[s] EXCEPT !.spec = x,
                                  !.rv = server[s].rv + 1, !.generation = server[s].generation + 1]
                      \/ new = [server[s] EXCEPT !.deleting = TRUE,
                                  !.rv = server[s].rv + 1, !.generation = server[s].generation + 1]
    <3>1. CASE EditSpec(s)
      <4>1. PICK x \in Spec :
              server' = [server EXCEPT ![s] = [server[s] EXCEPT !.spec = x,
                           !.rv = server[s].rv + 1, !.generation = server[s].generation + 1]]
        BY <1>2, <3>1 DEF EditSpec
      <4>2. QED
        BY <4>1, Zenon
    <3>2. CASE DeleteForeground(s)
      BY <1>2, <3>2 DEF DeleteForeground
    <3>3. QED
      BY <1>4, <3>1, <3>2
  <2>3. /\ new.exists /\ new.inc = server[s].inc
        /\ new.generation = server[s].generation + 1 /\ new.status = server[s].status
    BY <2>1, <2>2 DEF Present
  <2>4. server'[s] = new /\ \A t \in Server : t # s => server'[t] = server[t]
    BY <1>2, <2>2
  <2>5. server'[s] \in Present
    BY <1>1, <2>3, <2>4, ExistsIsPresent
  <2>6. QED
    BY <2>1, <2>3, <2>4, <2>5
<1>5. QED
  BY <1>3, <1>4

LEMMA CounterTypes ==
    ASSUME NEW o \in ServerObject
    PROVE  o.inc \in Nat /\ o.generation \in Nat
<1>1. CASE o \in Present
  BY <1>1 DEF Present
<1>2. CASE o \in Gone
  <2>1. o.inc \in Nat /\ o.generation = 0
    BY <1>2 DEF Gone
  <2>2. QED
    BY <2>1
<1>3. QED
  BY <1>1, <1>2 DEF ServerObject

LEMMA WishType ==
    ASSUME NEW s \in Server, NEW o \in Present
    PROVE  /\ WishOf(s, o) \in Promise!Wish
           /\ WishOf(s, o) # None
           /\ WishOf(s, o).server = s
           /\ WishOf(s, o).inc = o.inc
           /\ WishOf(s, o).generation = o.generation
<1>1. WishOf(s, o) \in Promise!Wish
  BY DEF WishOf, Promise!Wish, Present
<1>2. WishOf(s, o) # None
  BY <1>1 DEF Records
<1>3. QED
  BY <1>1, <1>2 DEF WishOf

LEMMA AsksStep ==
    ASSUME TypeOK, AskedInv, OwnersInv, Remember, Asks
    PROVE  AskedInv' /\ OwnersInv' /\ Promise!Next
<1>1. PICK s \in Server : CreateServer(s) \/ EditSpec(s) \/ DeleteForeground(s)
  BY DEF Asks
<1>2. /\ server'[s] \in Present
      /\ \A t \in Server : t # s => server'[t] = server[t]
      /\ server[s].exists => /\ server'[s].inc = server[s].inc
                             /\ server'[s].generation = server[s].generation + 1
                             /\ server'[s].status = server[s].status
      /\ ~ server[s].exists => /\ server'[s].inc = server[s].inc + 1
                               /\ server'[s].status = NoStatus
  BY <1>1, UserStep
<1> DEFINE new == WishOf(s, server'[s])
<1>3. /\ new \in Promise!Wish /\ new # None /\ new.server = s
      /\ new.inc = server'[s].inc /\ new.generation = server'[s].generation
  BY <1>2, WishType
<1> HIDE DEF new
<1>4. deployment' = deployment
  BY DEF Asks
<1>5. wish'[s] = new /\ \A t \in Server : t # s => wish'[t] = wish[t]
  <2>1. server'[s].exists
    BY <1>2 DEF Present
  <2>2. QED
    BY <1>2, <2>1 DEF wish, new, WishOf
<1>6. wish' = [wish EXCEPT ![s] = wish'[s]]
  <2>1. wish = [t \in Server |-> wish[t]] /\ wish' = [t \in Server |-> wish'[t]]
    BY DEF wish
  <2>2. QED
    BY <1>5, <2>1
<1>7. \A t \in Server : wish[t] \in asked \cup {None}
  BY DEF AskedInv, Asked, wish
<1>8. asked' = asked \cup {wish'[s]}
  BY <1>3, <1>5, <1>7 DEF Remember
<1>9. hosted' = hosted /\ OwnersInv'
  BY <1>4 DEF hosted, OwnersInv
<1>10. claim' = claim
  <2>1. NoStatus.failure # "False"
    BY DEF NoStatus
  <2>2. server'[s].exists
    BY <1>2 DEF Present
  <2>3. QED
    BY <1>2, <2>1, <2>2 DEF claim
<1>11. server[s].inc \in Nat /\ server[s].generation \in Nat
  <2>1. server[s] \in ServerObject
    BY DEF TypeOK
  <2>2. QED
    BY <2>1, CounterTypes
<1>12. \A v \in asked : v.inc \in Nat /\ v.generation \in Nat /\ v.server \in Server
  BY DEF AskedInv, Promise!Wish
<1>13. \A v \in asked : v.server = s => Promise!Newer(new, v)
  <2>1. SUFFICES ASSUME NEW v \in asked, v.server = s PROVE Promise!Newer(new, v)
    OBVIOUS
  <2>2. NotNewer(v, server[s])
    BY <2>1 DEF AskedInv
  <2>3. v.inc \in Nat /\ v.generation \in Nat
    BY <1>12
  <2>4. QED
    BY <1>2, <1>3, <1>11, <2>2, <2>3 DEF NotNewer, Promise!Newer
<1>14. wish[s] # None => wish'[s].inc = wish[s].inc
  BY <1>2, <1>3, <1>5 DEF wish, WishOf
<1>15. granted' = granted \cup Promise!HostedNow(asked', hosted)
  BY <1>9 DEF Remember, Promise!HostedNow
<1>16. Promise!Ask(s)
  BY <1>3, <1>5, <1>6, <1>8, <1>9, <1>10, <1>13, <1>14, <1>15 DEF Promise!Ask
<1>17. AskedInv'
  <2>1. asked' \subseteq Promise!Wish
    BY <1>3, <1>5, <1>8 DEF AskedInv
  <2>2. ASSUME NEW t \in Server, server'[t].exists PROVE WishOf(t, server'[t]) \in asked'
    BY <1>2, <1>5, <1>8, <2>2 DEF AskedInv, Asked, new
  <2>3. ASSUME NEW v \in asked' PROVE NotNewer(v, server'[v.server])
    <3>1. CASE v = new
      <4>1. server'[s].inc \in Nat /\ server'[s].generation \in Nat
        BY <1>2 DEF Present
      <4>2. QED
        BY <1>3, <3>1, <4>1 DEF NotNewer
    <3>2. CASE v \in asked /\ v.server # s
      BY <1>2, <1>12, <3>2 DEF AskedInv
    <3>3. CASE v \in asked /\ v.server = s
      <4>1. NotNewer(v, server[s]) /\ v.inc \in Nat /\ v.generation \in Nat
        BY <1>12, <3>3 DEF AskedInv
      <4>2. QED
        BY <1>2, <1>11, <3>3, <4>1 DEF NotNewer
    <3>4. QED
      BY <1>5, <1>8, <2>3, <3>1, <3>2, <3>3
  <2>4. QED
    BY <2>1, <2>2, <2>3 DEF AskedInv, Asked, WishOf, NotNewer, Promise!Wish
<1>18. QED
  BY <1>9, <1>16, <1>17 DEF Promise!Next

LEMMA WithdrawsStep ==
    ASSUME TypeOK, AskedInv, OwnersInv, GrantedInv, Remember, Withdraws
    PROVE  AskedInv' /\ OwnersInv' /\ Promise!Next
<1>1. PICK s \in Server : server[s].exists /\ server' = Removed(s)
  BY DEF Withdraws
<1>2. /\ ~ server'[s].exists
      /\ server'[s].inc = server[s].inc
      /\ \A t \in Server : t # s => server'[t] = server[t]
  BY <1>1 DEF Removed, NoServerObject, TypeOK
<1>3. hosted' = hosted /\ OwnersInv'
  BY DEF Withdraws, hosted, OwnersInv
<1>4. wish[s] # None
  <2>1. server[s] \in Present
    BY <1>1, ExistsIsPresent DEF TypeOK
  <2>2. QED
    BY <1>1, <2>1, WishType DEF wish
<1>5. wish' = [wish EXCEPT ![s] = None]
  <2>1. wish'[s] = None /\ \A t \in Server : t # s => wish'[t] = wish[t]
    BY <1>2 DEF wish, WishOf
  <2>2. wish = [t \in Server |-> wish[t]] /\ wish' = [t \in Server |-> wish'[t]]
    BY DEF wish
  <2>3. QED
    BY <2>1, <2>2
<1>6. claim' = [claim EXCEPT ![s] = None]
  <2>1. claim'[s] = None /\ \A t \in Server : t # s => claim'[t] = claim[t]
    BY <1>2 DEF claim
  <2>2. claim = [t \in Server |-> claim[t]] /\ claim' = [t \in Server |-> claim'[t]]
    BY DEF claim
  <2>3. QED
    BY <2>1, <2>2
<1>7. asked' = asked
  <2>1. \A t \in Server : wish[t] \in asked \cup {None}
    BY DEF AskedInv, Asked, wish
  <2>2. \A t \in Server : wish'[t] \in asked \cup {None}
    BY <1>5, <2>1 DEF wish
  <2>3. QED
    BY <2>2 DEF Remember
<1>8. granted' = granted
  BY <1>3, <1>7, NothingGranted
<1>9. AskedInv'
  <2>1. \A v \in asked : v.server \in Server
    BY DEF AskedInv, Promise!Wish
  <2>2. \A t \in Server : server'[t].exists => WishOf(t, server'[t]) \in asked
    BY <1>2 DEF AskedInv, Asked
  <2>3. \A v \in asked : NotNewer(v, server'[v.server])
    BY <1>2, <2>1 DEF AskedInv, NotNewer
  <2>4. QED
    BY <1>7, <2>2, <2>3 DEF AskedInv, Asked, WishOf, NotNewer, Promise!Wish
<1>10. QED
  BY <1>3, <1>4, <1>5, <1>6, <1>7, <1>8, <1>9 DEF Promise!Next, Promise!Withdraw

-----------------------------------------------------------------------------
(* The refinement                                                          *)

LEMMA HostingInit ==
    ASSUME HistoryInit
    PROVE  HostingInv /\ Promise!Init
<1>1. Init
  BY DEF HistoryInit
<1>2. TypeOK /\ VersionInv
  BY <1>1, TypeInit, VersionInit
<1>3. \A s \in Server : server[s].exists => server[s] \in Present
  BY <1>2, ExistsIsPresent DEF TypeOK
<1>4. \A s \in Server : ~ server[s].exists => wish[s] = None
  BY DEF wish
<1>5. \A s \in Server : server[s].exists => wish[s] = WishOf(s, server[s])
  BY DEF wish
<1>6. \A s \in Server : wish[s] # None =>
        /\ wish[s] \in Promise!Wish /\ wish[s].server = s
        /\ wish[s].inc = server[s].inc /\ wish[s].generation = server[s].generation
  BY <1>3, <1>4, <1>5, WishType
<1>7. hosted = [d \in Deployment |-> None]
  BY <1>1 DEF Init, hosted, NoDeployment
<1>8. claim = [s \in Server |-> None]
  <2>1. ASSUME NEW s \in Server PROVE server[s].status = NoStatus
    <3>1. server \in [Server -> {NoServerObject} \cup
             {[NoServerObject EXCEPT !.exists = TRUE, !.inc = 1, !.rv = 1,
                                     !.generation = 1, !.spec = x] : x \in Spec}]
      BY <1>1, Zenon DEF Init
    <3>2. CASE server[s] = NoServerObject
      BY <3>2 DEF NoServerObject
    <3>3. ASSUME NEW x \in Spec,
                 server[s] = [NoServerObject EXCEPT !.exists = TRUE, !.inc = 1, !.rv = 1,
                                                    !.generation = 1, !.spec = x]
          PROVE  server[s].status = NoStatus
      BY <3>3 DEF NoServerObject
    <3>4. server[s] \in {NoServerObject} \cup
             {[NoServerObject EXCEPT !.exists = TRUE, !.inc = 1, !.rv = 1,
                                     !.generation = 1, !.spec = x] : x \in Spec}
      BY <3>1, Zenon
    <3>5. QED
      BY <3>2, <3>3, <3>4, Zenon
  <2>2. QED
    BY <2>1 DEF claim, NoStatus
<1>9. AskedInv
  <2>1. asked = {wish[s] : s \in Server} \ {None}
    BY DEF HistoryInit
  <2>2. asked \subseteq Promise!Wish
    BY <1>6, <2>1
  <2>3. ASSUME NEW s \in Server, server[s].exists PROVE Asked(s, server[s])
    BY <1>3, <1>5, <2>1, <2>3, WishType DEF Asked
  <2>4. ASSUME NEW v \in asked PROVE NotNewer(v, server[v.server])
    <3>1. PICK s \in Server : v = wish[s] /\ wish[s] # None
      BY <2>1
    <3>2. v.server = s /\ v.inc = server[s].inc /\ v.generation = server[s].generation
      BY <1>6, <3>1
    <3>3. server[s].inc \in Nat /\ server[s].generation \in Nat
      <4>1. server[s] \in ServerObject
        BY <1>2 DEF TypeOK
      <4>2. QED
        BY <4>1, CounterTypes
    <3>4. QED
      BY <3>2, <3>3 DEF NotNewer
  <2>5. QED
    BY <2>2, <2>3, <2>4 DEF AskedInv
<1>10. CachesAsked
  BY <1>1, <1>9 DEF Init, CachesAsked, AskedInv
<1>11. WorkersAsked /\ LateAsked
  BY <1>1 DEF Init, WorkersAsked, LateAsked, Idle
<1>12. OwnersInv
  BY <1>1 DEF Init, OwnersInv, NoDeployment
<1>13. GrantedInv
  <2>1. \A v \in asked : Promise!Hosted(v) # None /\ DeploymentOf[v.server] \in Deployment
    BY <1>9 DEF AskedInv, Promise!Wish, Promise!Hosted, Records
  <2>2. QED
    BY <1>7, <2>1 DEF GrantedInv
<1>14. Promise!Init
  <2>1. wish \in [Server -> Promise!Wish \cup {None}]
    <3>1. wish = [s \in Server |-> wish[s]]
      BY DEF wish
    <3>2. QED
      BY <1>6, <3>1
  <2>2. QED
    BY <1>6, <1>7, <1>8, <2>1 DEF Promise!Init, HistoryInit
<1>15. QED
  BY <1>2, <1>9, <1>10, <1>11, <1>12, <1>13, <1>14 DEF HostingInv

LEMMA HostingStep ==
    ASSUME HostingInv, HistoryNext
    PROVE  HostingInv' /\ [Promise!Next]_(Promise!vars)
<1>1. /\ TypeOK /\ VersionInv /\ CachesAsked /\ WorkersAsked /\ LateAsked
      /\ AskedInv /\ OwnersInv /\ GrantedInv
  BY DEF HostingInv
<1>2. Next /\ Remember
  BY DEF HistoryNext
<1>3. TypeOK' /\ VersionInv'
  BY <1>1, <1>2, TypeNext, VersionNext
<1>4. CachesAsked' /\ WorkersAsked' /\ LateAsked' /\ GrantedInv'
  BY <1>1, <1>2, CachesNext, WorkersNext, LateNext, GrantedNext
<1>5. AskedInv' /\ OwnersInv' /\ [Promise!Next]_(Promise!vars)
  BY <1>1, <1>2, StepCases, QuietStep, AppliesStep, WritesStatusStep, AsksStep,
     WithdrawsStep, LosesStep, ReportsStep
<1>6. QED
  BY <1>3, <1>4, <1>5 DEF HostingInv

LEMMA HostingStutter ==
    ASSUME HostingInv, UNCHANGED historyVars
    PROVE  HostingInv' /\ UNCHANGED Promise!vars
<1>1. UNCHANGED <<vars, asked, granted>> /\ server' = server /\ deployment' = deployment
  BY DEF historyVars, vars, store
<1>2. wish' = wish /\ hosted' = hosted /\ claim' = claim
  BY <1>1 DEF wish, hosted, claim, WishOf
<1>3. TypeOK' /\ VersionInv'
  BY <1>1, TypeNext, VersionNext DEF HostingInv
<1>4. /\ CachesAsked' /\ WorkersAsked' /\ LateAsked'
      /\ AskedInv' /\ OwnersInv' /\ GrantedInv'
  BY <1>1, <1>2 DEF HostingInv, CachesAsked, WorkersAsked, LateAsked, AskedInv, OwnersInv,
        GrantedInv, Asked, Backed, WishOf, NotNewer, vars, store, caches,
        Promise!Wish, Promise!Hosted
<1>5. QED
  BY <1>1, <1>2, <1>3, <1>4 DEF HostingInv, Promise!vars

\* A manager process bears a step of another one that keeps what both depend on.
LEMMA OutsideHosting ==
    ASSUME HostingInv, UNCHANGED <<serverCache, worker>>, Remember, TypeOK', VersionInv',
           LateAsked', AskedInv', OwnersInv', GrantedInv'
    PROVE  HostingInv'
<1>1. asked \subseteq asked' /\ granted \subseteq granted'
  BY RememberGrows
<1>2. CachesAsked' /\ WorkersAsked'
  BY <1>1 DEF HostingInv, CachesAsked, WorkersAsked, Asked, Backed, WishOf
<1>3. QED
  BY <1>2 DEF HostingInv

\* The controllers implement Hosting: whatever their caches, workqueues, workers,
\* crashes and lost or late requests do, a Deployment is only ever made to host
\* something a user asked for, never taken from another manager, and a status
\* claims a generation only after a Deployment has hosted it.
THEOREM PromiseKept == HistorySpec => KeepsPromise
<1>1. HistoryInit => HostingInv /\ Promise!Init
  BY HostingInit
<1>2. HostingInv /\ [HistoryNext]_historyVars => HostingInv' /\ [Promise!Next]_(Promise!vars)
  BY HostingStep, HostingStutter
<1>3. QED
  BY <1>1, <1>2, PTL DEF HistorySpec, KeepsPromise, Promise!HostingSpec


-----------------------------------------------------------------------------
(* What Hosting itself guarantees, carried over to the controllers         *)

GrantsAndClaims ==
    /\ granted \subseteq asked
    /\ Promise!ClaimsWereGranted
    /\ Promise!HostsWishes

LEMMA GrantsAndClaimsInit ==
    ASSUME Promise!Init
    PROVE  GrantsAndClaims
BY DEF Promise!Init, GrantsAndClaims, Promise!ClaimsWereGranted, Promise!HostsWishes

LEMMA GrantsAndClaimsNext ==
    ASSUME AskedInv, GrantsAndClaims, Promise!Next
    PROVE  GrantsAndClaims'
<1>1. /\ granted \subseteq asked /\ asked \subseteq Promise!Wish
      /\ Promise!ClaimsWereGranted /\ Promise!HostsWishes
  BY DEF GrantsAndClaims, AskedInv
<1>2. /\ claim = [s \in Server |-> claim[s]]
      /\ hosted = [d \in Deployment |-> hosted[d]]
  BY DEF claim, hosted
<1>3. asked \subseteq asked' /\ granted \subseteq granted' /\ granted' \subseteq asked'
  BY <1>1 DEF Promise!Next, Promise!Ask, Promise!Withdraw, Promise!Claim, Promise!Retract,
              Promise!Host, Promise!Lose, Promise!HostedNow
<1>4. Promise!ClaimsWereGranted'
  <2>1. ASSUME claim' = claim PROVE Promise!ClaimsWereGranted'
    BY <1>1, <1>3, <2>1 DEF Promise!ClaimsWereGranted, Promise!Claimed
  <2>2. ASSUME NEW s \in Server, claim' = [claim EXCEPT ![s] = None]
        PROVE  Promise!ClaimsWereGranted'
    <3>1. \A t \in Server : claim'[t] = claim[t] \/ claim'[t] = None
      BY <1>2, <2>2
    <3>2. QED
      BY <1>1, <1>3, <3>1 DEF Promise!ClaimsWereGranted, Promise!Claimed
  <2>3. ASSUME NEW s \in Server, Promise!Claim(s) PROVE Promise!ClaimsWereGranted'
    <3>1. wish[s] \in granted /\ claim' = [claim EXCEPT ![s] = Promise!Claimed(wish[s])]
      BY <2>3 DEF Promise!Claim
    <3>2. wish[s] # None
      BY <1>1, <3>1 DEF Records
    <3>3. wish[s].server = s
      BY <3>2 DEF wish, WishOf
    <3>4. \A t \in Server : t # s => claim'[t] = claim[t]
      BY <1>2, <3>1
    <3>5. claim'[s] = Promise!Claimed(wish[s])
      BY <1>2, <3>1
    <3>6. QED
      BY <1>1, <1>3, <3>1, <3>3, <3>4, <3>5 DEF Promise!ClaimsWereGranted, Promise!Claimed
  <2>4. QED
    BY <2>1, <2>2, <2>3 DEF Promise!Next, Promise!Ask, Promise!Withdraw, Promise!Retract,
                            Promise!Host, Promise!Lose
<1>5. Promise!HostsWishes'
  <2>1. ASSUME hosted' = hosted PROVE Promise!HostsWishes'
    BY <1>1, <1>3, <2>1 DEF Promise!HostsWishes, Promise!Hosted
  <2>2. ASSUME NEW d \in Deployment, NEW w \in asked, Promise!Host(d, w)
        PROVE  Promise!HostsWishes'
    <3>1. DeploymentOf[w.server] = d /\ hosted' = [hosted EXCEPT ![d] = Promise!Hosted(w)]
      BY <2>2 DEF Promise!Host
    <3>2. hosted'[d] = Promise!Hosted(w) /\ \A e \in Deployment : e # d => hosted'[e] = hosted[e]
      BY <1>2, <3>1
    <3>3. QED
      BY <1>1, <1>3, <3>1, <3>2 DEF Promise!HostsWishes, Promise!Hosted
  <2>3. ASSUME NEW d \in Deployment, Promise!Lose(d) PROVE Promise!HostsWishes'
    <3>1. PICK lost \in {None, Others} : hosted' = [hosted EXCEPT ![d] = lost]
      BY <2>3 DEF Promise!Lose
    <3>2. \A e \in Deployment : hosted'[e] = hosted[e] \/ hosted'[e] \in {None, Others}
      BY <1>2, <3>1
    <3>3. QED
      BY <1>1, <1>3, <3>2 DEF Promise!HostsWishes, Promise!Hosted
  <2>4. QED
    BY <2>1, <2>2, <2>3 DEF Promise!Next, Promise!Ask, Promise!Withdraw, Promise!Claim,
                            Promise!Retract
<1>6. QED
  BY <1>3, <1>4, <1>5 DEF GrantsAndClaims

\* A status that says "Applied" of a generation is about one that the server's
\* Deployment has really had, and no Deployment of the controllers was rendered
\* from anything but a generation of its owner that existed.
THEOREM ClaimsAndHostsAreTrue ==
    HistorySpec => [](Promise!ClaimsWereGranted /\ Promise!HostsWishes)
<1>1. HistoryInit => HostingInv /\ GrantsAndClaims
  BY HostingInit, GrantsAndClaimsInit
<1>2. HostingInv /\ GrantsAndClaims /\ [HistoryNext]_historyVars
        => HostingInv' /\ GrantsAndClaims'
  <2>1. SUFFICES ASSUME HostingInv, GrantsAndClaims, [HistoryNext]_historyVars
                 PROVE  HostingInv' /\ GrantsAndClaims'
    OBVIOUS
  <2>2. HostingInv' /\ [Promise!Next]_(Promise!vars)
    BY <2>1, HostingStep, HostingStutter
  <2>3. CASE Promise!Next
    BY <2>1, <2>2, <2>3, GrantsAndClaimsNext DEF HostingInv
  <2>4. CASE UNCHANGED Promise!vars
    BY <2>1, <2>2, <2>4 DEF GrantsAndClaims, Promise!vars, Promise!ClaimsWereGranted,
                            Promise!HostsWishes, Promise!Claimed, Promise!Hosted
  <2>5. QED
    BY <2>2, <2>3, <2>4
<1>3. HostingInv /\ GrantsAndClaims => Promise!ClaimsWereGranted /\ Promise!HostsWishes
  BY DEF GrantsAndClaims
<1>4. QED
  BY <1>1, <1>2, <1>3, PTL DEF HistorySpec

====================================================================================
