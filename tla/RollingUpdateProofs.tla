----------------------------- MODULE RollingUpdateProofs -----------------------------
(***************************************************************************)
(* Two manager processes at once.  Each step is a step of one of them as   *)
(* DeploymentReconciler has it, and for the other one a step of somebody   *)
(* else, which its watches report: what is proved of one process is proved *)
(* of two by showing that its invariants bear the steps of others.         *)
(***************************************************************************)
EXTENDS RollingUpdate, HostingProofs, ReconcilerWakeupProofs

\* The old process, with what is proved of a process.
OldProofs == INSTANCE HostingProofs WITH
    serverCache <- oldServerCache, secretCache <- oldSecretCache,
    deploymentCache <- oldDeploymentCache, secretWatch <- oldSecretWatch,
    deploymentWatch <- oldDeploymentWatch, secretEvent <- oldSecretEvent,
    queue <- oldQueue, backoff <- oldBackoff, worker <- oldWorker

LEMMA OldAssumptions == OldProofs!ConfigAssumption /\ OldProofs!HistoryAssumption
<1>1. OldProofs!ConfigAssumption
  BY ConfigAssumption
<1>2. OldProofs!HistoryAssumption
  BY HistoryAssumption
  DEF Records, OldProofs!Records, Promise!Wish, OldProofs!Promise!Wish
<1>3. QED
  BY <1>1, <1>2

\* Its definitions are the same ones under either name.
LEMMA SameOld ==
    /\ (Old!Init <=> OldProofs!Init)
    /\ (Old!Next <=> OldProofs!Next)
BY DEF
    Old!Init, OldProofs!Init, Old!Next, OldProofs!Next, Old!vars, OldProofs!vars, Old!Content,
    OldProofs!Content, Old!NoServerObject, OldProofs!NoServerObject, Old!NoDeployment,
    OldProofs!NoDeployment, Old!Idle, OldProofs!Idle, Old!Deliver, OldProofs!Deliver,
    Old!Reconcile, OldProofs!Reconcile, Old!ApplyFails, OldProofs!ApplyFails, Old!UpdateFails,
    OldProofs!UpdateFails, Old!Crash, OldProofs!Crash, Old!LandLate, OldProofs!LandLate,
    Old!Environment, OldProofs!Environment, Old!Collect, OldProofs!Collect, Old!store,
    OldProofs!store, Old!caches, OldProofs!caches, Old!watches, OldProofs!watches, Old!events,
    OldProofs!events, Old!bounds, OldProofs!bounds, Old!ServerObject, OldProofs!ServerObject,
    Old!DeploymentObject, OldProofs!DeploymentObject, Old!Active, OldProofs!Active,
    Old!NoStatus, OldProofs!NoStatus, Old!NoContent, OldProofs!NoContent, Old!SyncServer,
    OldProofs!SyncServer, Old!Requeue, OldProofs!Requeue, Old!SyncSecret,
    OldProofs!SyncSecret, Old!HandleSecretEvent, OldProofs!HandleSecretEvent,
    Old!SyncDeployment, OldProofs!SyncDeployment, Old!Resync, OldProofs!Resync, Old!Start,
    OldProofs!Start, Old!ReadSecret, OldProofs!ReadSecret, Old!BuildError,
    OldProofs!BuildError, Old!ApplySucceeds, OldProofs!ApplySucceeds, Old!ApplyIsRefused,
    OldProofs!ApplyIsRefused, Old!MirrorAfterError, OldProofs!MirrorAfterError,
    Old!UpdateAfterError, OldProofs!UpdateAfterError, Old!UpdateAfterApply,
    OldProofs!UpdateAfterApply, Old!ReadyToApply, OldProofs!ReadyToApply, Old!Apply,
    OldProofs!Apply, Old!WithFailure, OldProofs!WithFailure, Old!StatusUpdated,
    OldProofs!StatusUpdated, Old!Sending, OldProofs!Sending, Old!OwnersOf, OldProofs!OwnersOf,
    Old!CreateServer, OldProofs!CreateServer, Old!EditSpec, OldProofs!EditSpec,
    Old!DeleteServer, OldProofs!DeleteServer, Old!DeleteForeground,
    OldProofs!DeleteForeground, Old!SetSecret, OldProofs!SetSecret, Old!ReportHealth,
    OldProofs!ReportHealth, Old!DeleteDeployment, OldProofs!DeleteDeployment, Old!ForeignEdit,
    OldProofs!ForeignEdit, Old!CollectGarbage, OldProofs!CollectGarbage, Old!FinishDeletion,
    OldProofs!FinishDeletion, Old!Present, OldProofs!Present, Old!Gone, OldProofs!Gone,
    Old!Pc, OldProofs!Pc, Old!Referencing, OldProofs!Referencing, Old!Unread,
    OldProofs!Unread, Old!Mirrored, OldProofs!Mirrored, Old!ApplyAccepted,
    OldProofs!ApplyAccepted, Old!UpdateAccepted, OldProofs!UpdateAccepted, Old!RenderedOrders,
    OldProofs!RenderedOrders, Old!WriteDeployment, OldProofs!WriteDeployment, Old!Applied,
    OldProofs!Applied, Old!Change, OldProofs!Change, Old!Removed, OldProofs!Removed,
    Old!SecretEventPasses, OldProofs!SecretEventPasses, Old!OwnerAlive, OldProofs!OwnerAlive,
    Old!Status, OldProofs!Status, Old!DeploymentFailure, OldProofs!DeploymentFailure

LEMMA SameTypes ==
    /\ OldProofs!ServerObject = ServerObject
    /\ OldProofs!Content = Content
    /\ OldProofs!DeploymentObject = DeploymentObject
    /\ OldProofs!Active = Active
<1> OldProofs!Status = Status
  BY DEF OldProofs!Status, Status, OldProofs!DeploymentFailure, DeploymentFailure
<1>1. OldProofs!Present = Present /\ OldProofs!Gone = Gone
  <2>1. OldProofs!Present = Present
    BY DEF OldProofs!Present, Present
  <2>2. OldProofs!Gone = Gone
    BY DEF OldProofs!Gone, Gone, OldProofs!NoStatus, NoStatus
  <2>3. QED
    BY <2>1, <2>2
<1>2. OldProofs!ServerObject = ServerObject
  BY <1>1 DEF OldProofs!ServerObject, ServerObject
<1>3. OldProofs!Content = Content
  BY DEF OldProofs!Content, Content
<1>4. OldProofs!DeploymentObject = DeploymentObject
  BY <1>3 DEF OldProofs!DeploymentObject, DeploymentObject
<1>5. OldProofs!Active = Active
  BY <1>1, <1>3 DEF OldProofs!Active, Active, OldProofs!Pc, Pc
<1>6. QED
  BY <1>2, <1>3, <1>4, <1>5

LEMMA SameHistory ==
    /\ (Remember <=> OldProofs!Remember)
    /\ (AskedInv <=> OldProofs!AskedInv) /\ (AskedInv' <=> (OldProofs!AskedInv)')
    /\ (OwnersInv <=> OldProofs!OwnersInv) /\ (OwnersInv' <=> (OldProofs!OwnersInv)')
    /\ (GrantedInv <=> OldProofs!GrantedInv) /\ (GrantedInv' <=> (OldProofs!GrantedInv)')
    /\ (LateAsked <=> OldProofs!LateAsked) /\ (LateAsked' <=> (OldProofs!LateAsked)')
BY DEF Remember, OldProofs!Remember, AskedInv, OldProofs!AskedInv, OwnersInv,
       OldProofs!OwnersInv, GrantedInv, OldProofs!GrantedInv, LateAsked, OldProofs!LateAsked,
       Asked, OldProofs!Asked, Backed, OldProofs!Backed, NotNewer, OldProofs!NotNewer,
       wish, OldProofs!wish, hosted, OldProofs!hosted, WishOf, OldProofs!WishOf,
       Promise!Wish, OldProofs!Promise!Wish, Promise!Hosted, OldProofs!Promise!Hosted

LEMMA SamePromise ==
    /\ (Promise!Init <=> OldProofs!Promise!Init)
    /\ (Promise!Next <=> OldProofs!Promise!Next)
    /\ (UNCHANGED Promise!vars <=> UNCHANGED OldProofs!Promise!vars)
BY DEF wish, OldProofs!wish, hosted, OldProofs!hosted, claim, OldProofs!claim, WishOf,
       OldProofs!WishOf, Promise!Init, OldProofs!Promise!Init, Promise!Next,
       OldProofs!Promise!Next, Promise!vars, OldProofs!Promise!vars, Promise!Wish,
       OldProofs!Promise!Wish, Promise!Hosted, OldProofs!Promise!Hosted, Promise!Claimed,
       OldProofs!Promise!Claimed, Promise!HostedNow, OldProofs!Promise!HostedNow,
       Promise!Newer, OldProofs!Promise!Newer, Promise!Ask, OldProofs!Promise!Ask,
       Promise!Withdraw, OldProofs!Promise!Withdraw, Promise!Host, OldProofs!Promise!Host,
       Promise!Lose, OldProofs!Promise!Lose, Promise!Claim, OldProofs!Promise!Claim,
       Promise!Retract, OldProofs!Promise!Retract

-----------------------------------------------------------------------------
(* The invariant: each process that runs has the invariants of a process,  *)
(* and the new one loses no wake-up.  The old one's wake-ups do not matter *)
(* once it is stopped: the new one lists everything when it starts.        *)

UpdateInv ==
    /\ phase \in {"old", "both", "new"}
    /\ phase = "old" => NewIsOff
    /\ phase # "new" => OldProofs!HostingInv
    /\ phase # "old" => HostingInv /\ WakeupInv

\* What two processes share, in its types and versions.
Shared ==
    /\ server \in [Server -> ServerObject]
    /\ secret \in Content
    /\ deployment \in [Deployment -> DeploymentObject]
    /\ late \in SUBSET Active
    /\ changes \in Nat /\ faults \in Nat
    /\ \A w \in late : Agrees(w.obj, server[w.server])
    /\ LateAsked /\ AskedInv /\ OwnersInv /\ GrantedInv

LEMMA NewShares == HostingInv => Shared
BY DEF HostingInv, Shared, TypeOK, VersionInv, CopyInv

LEMMA OldShares ==
    /\ OldProofs!HostingInv => Shared
    /\ (OldProofs!HostingInv)' => Shared'
<1>1. ASSUME OldProofs!TypeOK
      PROVE  /\ server \in [Server -> ServerObject] /\ secret \in Content
             /\ deployment \in [Deployment -> DeploymentObject]
             /\ late \in SUBSET Active /\ changes \in Nat /\ faults \in Nat
  BY <1>1, SameTypes DEF OldProofs!TypeOK
<1>2. ASSUME (OldProofs!TypeOK)'
      PROVE  /\ server' \in [Server -> ServerObject] /\ secret' \in Content
             /\ deployment' \in [Deployment -> DeploymentObject]
             /\ late' \in SUBSET Active /\ changes' \in Nat /\ faults' \in Nat
  BY <1>2, SameTypes DEF OldProofs!TypeOK
<1>3. ASSUME OldProofs!VersionInv PROVE \A w \in late : Agrees(w.obj, server[w.server])
  BY <1>3 DEF OldProofs!VersionInv, OldProofs!CopyInv, OldProofs!Agrees, Agrees
<1>4. ASSUME (OldProofs!VersionInv)' PROVE \A w \in late' : Agrees(w.obj, server'[w.server])
  BY <1>4 DEF OldProofs!VersionInv, OldProofs!CopyInv, OldProofs!Agrees, Agrees
<1>5. OldProofs!HostingInv => Shared
  BY <1>1, <1>3, SameHistory DEF OldProofs!HostingInv, Shared
<1>6. (OldProofs!HostingInv)' => Shared'
  BY <1>2, <1>4, SameHistory DEF OldProofs!HostingInv, Shared, Agrees
<1>7. QED
  BY <1>5, <1>6

-----------------------------------------------------------------------------
(* A step of one process, seen by the other                                *)

LEMMA NewBears ==
    ASSUME HostingInv, WakeupInv, Outside, Remember, Shared', \A s \in Server : Advances(s)
    PROVE  HostingInv' /\ WakeupInv'
<1>1. TypeOK /\ VersionInv
  BY DEF HostingInv
<1>2. TypeOK'
  BY <1>1, OutsideTypes DEF Shared
<1>3. UNCHANGED <<serverCache, worker>>
  BY DEF Outside, caches
<1>4. VersionInv'
  BY <1>1, <1>3, OutsideVersions DEF Shared, Agrees
<1>5. HostingInv'
  BY <1>2, <1>3, <1>4, OutsideHosting DEF Shared
<1>6. WakeupInv'
  BY <1>1, <1>2, OutsideWakeups
<1>7. QED
  BY <1>5, <1>6

LEMMA OldBears ==
    ASSUME OldProofs!HostingInv, OldProofs!Outside, Remember, Shared',
           \A s \in Server : Advances(s)
    PROVE  (OldProofs!HostingInv)'
<1>1. OldProofs!TypeOK /\ OldProofs!VersionInv
  BY DEF OldProofs!HostingInv
<1>2. (OldProofs!TypeOK)'
  <2>1. /\ server' \in [Server -> OldProofs!ServerObject] /\ secret' \in OldProofs!Content
        /\ deployment' \in [Deployment -> OldProofs!DeploymentObject]
        /\ late' \in SUBSET OldProofs!Active /\ changes' \in Nat /\ faults' \in Nat
    BY SameTypes DEF Shared
  <2>2. QED
    BY <1>1, <2>1, OldAssumptions, OldProofs!OutsideTypes
<1>3. UNCHANGED <<oldServerCache, oldWorker>>
  BY DEF OldProofs!Outside, OldProofs!caches
<1>4. (OldProofs!VersionInv)'
  <2>1. \A s \in Server : OldProofs!Advances(s)
    BY DEF Advances, OldProofs!Advances
  <2>2. \A w \in late' : OldProofs!Agrees(w.obj, server'[w.server])
    BY DEF Shared, Agrees, OldProofs!Agrees
  <2>3. QED
    BY <1>1, <1>3, <2>1, <2>2, OldAssumptions, OldProofs!OutsideVersions
<1>5. /\ OldProofs!Remember /\ (OldProofs!LateAsked)' /\ (OldProofs!AskedInv)'
      /\ (OldProofs!OwnersInv)' /\ (OldProofs!GrantedInv)'
  BY SameHistory DEF Shared
<1>6. QED
  BY <1>2, <1>3, <1>4, <1>5, OldAssumptions, OldProofs!OutsideHosting

\* Each sees of a step of the other what it would see of one of the surroundings.
LEMMA NewSeesOutside == phase # "old" /\ NewSees => Outside
BY DEF NewSees, Outside, SecretsSeen, DeploymentsSeen, OwnersOf

LEMMA OldSeesOutside == phase # "new" /\ OldSees => OldProofs!Outside
BY DEF OldSees, OldProofs!Outside, SecretsSeen, DeploymentsSeen, OwnersOf, OldProofs!OwnersOf,
       OldProofs!caches, OldProofs!events, OldProofs!SecretEventPasses, SecretEventPasses

-----------------------------------------------------------------------------
(* The steps                                                               *)

\* A step of the new process, or of the surroundings while it runs.
LEMMA NewStep ==
    ASSUME UpdateInv, Remember, New(NewController \/ Surroundings)
    PROVE  UpdateInv' /\ [Promise!Next]_(Promise!vars)
<1>1. phase # "old" /\ phase' = phase /\ OldSees /\ HostingInv /\ WakeupInv
  BY DEF New, UpdateInv
<1>2. Next
  BY DEF New, NewController, Surroundings, Next
<1>3. HostingInv' /\ [Promise!Next]_(Promise!vars)
  BY <1>1, <1>2, HostingStep DEF HistoryNext
<1>4. TypeOK /\ VersionInv
  BY <1>1 DEF HostingInv
<1>5. WakeupInv'
  BY <1>1, <1>2, <1>4, WakeupNext
<1>6. \A s \in Server : Advances(s)
  BY <1>2, <1>4, ServerAdvances
<1>7. ASSUME phase # "new" PROVE (OldProofs!HostingInv)'
  <2>1. Shared'
    BY <1>3 DEF HostingInv, Shared, TypeOK, VersionInv, CopyInv, Agrees
  <2>2. OldProofs!HostingInv /\ OldProofs!Outside
    BY <1>1, <1>7, OldSeesOutside DEF UpdateInv
  <2>3. QED
    BY <1>6, <2>1, <2>2, OldBears
<1>8. QED
  BY <1>1, <1>3, <1>5, <1>7 DEF UpdateInv

\* A step of the old process, or of the surroundings before there is a new one.
LEMMA OldStep ==
    ASSUME UpdateInv, Remember, phase # "new", Old!Next, NewSees, UNCHANGED phase
    PROVE  UpdateInv' /\ [Promise!Next]_(Promise!vars)
<1>1. OldProofs!HostingInv /\ OldProofs!Next /\ OldProofs!Remember
  BY SameOld, SameHistory DEF UpdateInv
<1>2. (OldProofs!HostingInv)' /\ [OldProofs!Promise!Next]_(OldProofs!Promise!vars)
  BY <1>1, OldAssumptions, OldProofs!HostingStep DEF OldProofs!HistoryNext
<1>3. [Promise!Next]_(Promise!vars)
  BY <1>2, SamePromise
<1>4. \A s \in Server : Advances(s)
  <2>1. OldProofs!TypeOK
    BY <1>1 DEF OldProofs!HostingInv
  <2>2. \A s \in Server : OldProofs!Advances(s)
    BY <1>1, <2>1, OldAssumptions, OldProofs!ServerAdvances
  <2>3. QED
    BY <2>2 DEF Advances, OldProofs!Advances
<1>5. ASSUME phase = "old" PROVE NewIsOff'
  BY <1>5 DEF UpdateInv, NewIsOff, NewSees, caches, events, watches
<1>6. ASSUME phase # "old" PROVE HostingInv' /\ WakeupInv'
  <2>1. Shared'
    BY <1>2, OldShares
  <2>2. QED
    BY <1>4, <1>6, <2>1, NewBears, NewSeesOutside DEF UpdateInv
<1>7. QED
  BY <1>2, <1>3, <1>5, <1>6 DEF UpdateInv

\* The new process starts with everything there is in its caches and its queue.
LEMMA StartStep ==
    ASSUME UpdateInv, Remember, StartNew
    PROVE  UpdateInv' /\ UNCHANGED Promise!vars
<1>1. phase = "old" /\ phase' = "both" /\ NewIsOff /\ OldProofs!HostingInv
  BY DEF StartNew, UpdateInv
<1>2. Shared
  BY <1>1, OldShares
<1>3. /\ UNCHANGED <<server, secret, deployment, late, changes, faults, oldProcess>>
      /\ UNCHANGED <<secretWatch, deploymentWatch, secretEvent, backoff, worker>>
  BY DEF StartNew, store, watches, bounds
<1>4. AskedInv' /\ OwnersInv' /\ UNCHANGED Promise!vars
  BY <1>2, <1>3, QuietStep DEF Shared
<1>5. GrantedInv'
  BY GrantedNext
<1>6. UNCHANGED <<asked, granted>>
  BY <1>4 DEF Promise!vars
<1>7. (OldProofs!HostingInv)'
  <2>1. UNCHANGED OldProofs!historyVars
    BY <1>3, <1>6 DEF OldProofs!historyVars, OldProofs!vars, OldProofs!store, OldProofs!caches,
                      OldProofs!watches, OldProofs!events, OldProofs!bounds, oldProcess
  <2>2. QED
    BY <1>1, <2>1, OldAssumptions, OldProofs!HostingStutter
<1>8. TypeOK'
  <2>1. queue' \in SUBSET Server
    BY <1>2 DEF StartNew, OwnersOf, DeploymentObject, Shared
  <2>2. /\ serverCache' = server /\ secretCache' = secret /\ deploymentCache' = deployment
    BY DEF StartNew
  <2>3. /\ secretWatch \in SUBSET Secret /\ deploymentWatch \in [Deployment -> SUBSET Server]
        /\ secretEvent \in SUBSET (Kind \X Secret) /\ backoff \in SUBSET Server
        /\ worker \in [Kind -> Active \cup {Idle}]
    BY <1>1 DEF NewIsOff
  <2>4. QED
    BY <1>2, <1>3, <2>1, <2>2, <2>3 DEF TypeOK, Shared
<1>9. \A k \in Kind : worker'[k] = Idle
  BY <1>1, <1>3 DEF NewIsOff
<1>10. VersionInv'
  <2>1. CacheInv'
    <3>1. \A s \in Server : server'[s].rv \in Nat
      BY <1>8 DEF TypeOK, ServerObject, Present, Gone
    <3>2. serverCache' = server'
      BY <1>3 DEF StartNew
    <3>3. QED
      BY <3>1, <3>2 DEF CacheInv
  <2>2. CopyInv'
    BY <1>2, <1>3, <1>9 DEF CopyInv, Shared, Idle, Agrees
  <2>3. QED
    BY <2>1, <2>2 DEF VersionInv
<1>11. CachesAsked' /\ WorkersAsked' /\ LateAsked'
  <2>1. CachesAsked'
    <3>1. \A s \in Server : serverCache'[s] = server[s]
      BY DEF StartNew
    <3>2. QED
      BY <1>2, <1>6, <3>1 DEF CachesAsked, Shared, AskedInv, Asked, WishOf
  <2>2. WorkersAsked'
    BY <1>9 DEF WorkersAsked, Idle
  <2>3. LateAsked'
    BY <1>2, <1>3, <1>6 DEF Shared, LateAsked, Asked, Backed, WishOf
  <2>4. QED
    BY <2>1, <2>2, <2>3
<1>12. WakeupInv'
  <2>1. KindInv' /\ WorkerInv'
    BY <1>9 DEF KindInv, WorkerInv, Idle
  <2>2. SecretInv'
    BY <1>3 DEF StartNew, SecretInv
  <2>3. CalmInv'
    <3>1. \A s \in Server : server'[s].exists => s \in queue'
      BY <1>3 DEF StartNew
    <3>2. QED
      BY <3>1 DEF CalmInv, Calm, Alive
  <2>4. QED
    BY <2>1, <2>2, <2>3 DEF WakeupInv
<1>13. QED
  BY <1>1, <1>4, <1>5, <1>7, <1>8, <1>10, <1>11, <1>12 DEF UpdateInv, HostingInv

\* The old process stops; requests it has sent may still take effect.
LEMMA StopStep ==
    ASSUME UpdateInv, Remember, StopOld
    PROVE  UpdateInv' /\ UNCHANGED Promise!vars
<1>1. /\ phase = "both" /\ phase' = "new"
      /\ OldProofs!HostingInv /\ HostingInv /\ WakeupInv
  BY DEF StopOld, UpdateInv
<1>2. /\ UNCHANGED <<server, secret, deployment, changes, faults>>
      /\ UNCHANGED <<serverCache, secretCache, deploymentCache, secretWatch, deploymentWatch,
                     secretEvent, queue, backoff, worker>>
  BY DEF StopOld, store, newProcess, caches, watches, events, bounds
<1>3. /\ TypeOK /\ VersionInv /\ CachesAsked /\ WorkersAsked /\ LateAsked
      /\ AskedInv /\ OwnersInv /\ GrantedInv
  BY <1>1 DEF HostingInv
<1>4. AskedInv' /\ OwnersInv' /\ UNCHANGED Promise!vars
  BY <1>2, <1>3, QuietStep
<1>5. GrantedInv'
  BY GrantedNext
<1>6. UNCHANGED <<asked, granted>>
  BY <1>4 DEF Promise!vars
<1>7. ASSUME NEW w \in late', w \notin late
      PROVE  /\ w \in Active
             /\ Agrees(w.obj, server[w.server])
             /\ Asked(w.server, w.obj) /\ Backed(w)
  <2>1. PICK k \in Kind : Old!Sending(oldWorker[k]) /\ w = oldWorker[k]
    BY <1>7 DEF StopOld, Sending, Old!Sending, ReadyToApply, Old!ReadyToApply, Unread, Old!Unread
  <2>2. oldWorker[k].pc # "idle"
    BY <2>1 DEF Old!Sending, Old!ReadyToApply
  <2>3. w \in Active
    <3>1. oldWorker[k] \in OldProofs!Active \cup {OldProofs!Idle}
      BY <1>1 DEF OldProofs!HostingInv, OldProofs!TypeOK
    <3>2. QED
      BY <2>1, <2>2, <3>1, SameTypes DEF OldProofs!Idle
  <2>4. Agrees(w.obj, server[w.server])
    BY <1>1, <2>1, <2>2 DEF OldProofs!HostingInv, OldProofs!VersionInv, OldProofs!CopyInv,
                            OldProofs!Agrees, Agrees
  <2>5. OldProofs!Asked(w.server, w.obj) /\ OldProofs!Backed(w)
    BY <1>1, <2>1, <2>2 DEF OldProofs!HostingInv, OldProofs!WorkersAsked
  <2>6. QED
    BY <2>3, <2>4, <2>5 DEF OldProofs!Asked, OldProofs!Backed, OldProofs!WishOf, Asked, Backed,
                            WishOf
<1>8. TypeOK'
  BY <1>2, <1>3, <1>7 DEF TypeOK
<1>9. VersionInv'
  BY <1>2, <1>3, <1>7 DEF VersionInv, CacheInv, CopyInv, Agrees
<1>10. CachesAsked' /\ WorkersAsked' /\ LateAsked'
  BY <1>2, <1>3, <1>6, <1>7 DEF CachesAsked, WorkersAsked, LateAsked, Asked, Backed, WishOf
<1>11. WakeupInv'
  BY <1>1, <1>2 DEF WakeupInv, KindInv, SecretInv, WorkerInv, CalmInv, Follows, Derives, Unread,
                    Provided, Rendered, Calm, Alive, Settled
<1>12. QED
  BY <1>1, <1>4, <1>5, <1>8, <1>9, <1>10, <1>11 DEF UpdateInv, HostingInv

LEMMA UpdateStutter ==
    ASSUME UpdateInv, UNCHANGED updateVars
    PROVE  UpdateInv' /\ UNCHANGED Promise!vars
<1>1. UNCHANGED <<historyVars, phase, oldProcess>>
  BY DEF updateVars
<1>2. UNCHANGED vars
  BY <1>1 DEF historyVars
<1>3. ASSUME phase # "old" PROVE HostingInv' /\ WakeupInv'
  <2>1. HostingInv /\ WakeupInv
    BY <1>3 DEF UpdateInv
  <2>2. TypeOK /\ VersionInv
    BY <2>1 DEF HostingInv
  <2>3. QED
    BY <1>1, <1>2, <2>1, <2>2, HostingStutter, WakeupNext
<1>4. UNCHANGED OldProofs!historyVars
  BY <1>1 DEF historyVars, vars, store, bounds, oldProcess, OldProofs!historyVars,
      OldProofs!vars, OldProofs!store, OldProofs!caches, OldProofs!watches, OldProofs!events,
      OldProofs!bounds
<1>5. ASSUME phase # "new" PROVE (OldProofs!HostingInv)'
  BY <1>4, <1>5, OldAssumptions, OldProofs!HostingStutter DEF UpdateInv
<1>6. phase = "old" => NewIsOff'
  BY <1>1 DEF UpdateInv, NewIsOff, historyVars, vars, caches, watches, events
<1>7. UNCHANGED Promise!vars
  BY <1>1 DEF historyVars, vars, store, Promise!vars, wish, hosted, claim, WishOf
<1>8. QED
  BY <1>1, <1>3, <1>5, <1>6, <1>7 DEF UpdateInv

LEMMA UpdateStep ==
    ASSUME UpdateInv, [UpdateNext]_updateVars
    PROVE  UpdateInv' /\ [Promise!Next]_(Promise!vars)
<1>1. CASE UNCHANGED updateVars
  BY <1>1, UpdateStutter
<1>2. CASE UpdateNext
  <2>1. Remember
    BY <1>2 DEF UpdateNext
  <2>2. ASSUME phase # "new", OldController, NewSees, UNCHANGED phase
        PROVE  UpdateInv' /\ [Promise!Next]_(Promise!vars)
    <3>1. Old!Next
      BY <2>2 DEF OldController, Old!Next
    <3>2. QED
      BY <2>1, <2>2, <3>1, OldStep
  <2>3. ASSUME phase = "old", OldSurroundings, NewSees, UNCHANGED phase
        PROVE  UpdateInv' /\ [Promise!Next]_(Promise!vars)
    <3>1. Old!Next
      BY <2>3 DEF OldSurroundings, Old!Next
    <3>2. QED
      BY <2>1, <2>3, <3>1, OldStep
  <2>4. QED
    BY <1>2, <2>1, <2>2, <2>3, NewStep, StartStep, StopStep DEF UpdateNext
<1>3. QED
  BY <1>1, <1>2

LEMMA UpdateStarts ==
    ASSUME UpdateInit
    PROVE  UpdateInv /\ Promise!Init
<1>1. OldProofs!HistoryInit
  BY SameOld DEF UpdateInit, OldProofs!HistoryInit, wish, OldProofs!wish, WishOf,
                 OldProofs!WishOf
<1>2. OldProofs!HostingInv /\ OldProofs!Promise!Init
  BY <1>1, OldAssumptions, OldProofs!HostingInit
<1>3. QED
  BY <1>2, SamePromise DEF UpdateInit, UpdateInv

-----------------------------------------------------------------------------
(* The theorems                                                            *)

\* Two processes that overwrite each other's Deployments and statuses lose no
\* wake-up: what the old one leaves behind, in whatever state it is stopped and
\* whichever of its requests are still on their way, the new one sees and repairs.
THEOREM UpdateLosesNoWakeup == UpdateSpec => []UpdateNoLostWakeup
<1>1. UpdateInit => UpdateInv
  BY UpdateStarts
<1>2. UpdateInv /\ [UpdateNext]_updateVars => UpdateInv'
  BY UpdateStep
<1>3. UpdateInv => UpdateNoLostWakeup
  BY WakeupImplies DEF UpdateInv, HostingInv, UpdateNoLostWakeup
<1>4. QED
  BY <1>1, <1>2, <1>3, PTL DEF UpdateSpec

\* Two processes together keep the promise of one: whatever each of them applies
\* and reports from copies the other has made stale, a Deployment hosts only what
\* was asked for and a status claims only a generation that has been hosted.
THEOREM UpdateKeepsPromise == UpdateSpec => KeepsPromise
<1>1. UpdateInit => UpdateInv /\ Promise!Init
  BY UpdateStarts
<1>2. UpdateInv /\ [UpdateNext]_updateVars => UpdateInv' /\ [Promise!Next]_(Promise!vars)
  BY UpdateStep
<1>3. QED
  BY <1>1, <1>2, PTL DEF UpdateSpec, KeepsPromise, Promise!HostingSpec

\* No status computed from an older object lands on a newer one, although each
\* process holds copies that the other makes stale.
THEOREM UpdateStatusIsCurrent == UpdateSpec => StatusOfCurrentGeneration
<1> DEFINE Current(s) == server'[s].status.observedGeneration \in
                           {server[s].status.observedGeneration, server[s].generation}
<1>1. ASSUME UpdateInv, [UpdateNext]_updateVars, NEW s \in Server,
             server[s].exists, server'[s].exists
      PROVE  Current(s)
  <2>1. CASE server' = server
    BY <2>1
  <2>2. ASSUME phase # "old", Next PROVE Current(s)
    <3>1. TypeOK /\ VersionInv
      BY <1>1, <2>2 DEF UpdateInv, HostingInv
    <3>2. QED
      BY <1>1, <2>2, <3>1, StatusStep
  <2>3. ASSUME phase # "new", Old!Next PROVE Current(s)
    <3>1. OldProofs!TypeOK /\ OldProofs!VersionInv /\ OldProofs!Next
      BY <1>1, <2>3, SameOld DEF UpdateInv, OldProofs!HostingInv
    <3>2. QED
      BY <1>1, <3>1, OldAssumptions, OldProofs!StatusStep
  <2>4. CASE StartNew \/ StopOld \/ UNCHANGED updateVars
    BY <2>1, <2>4 DEF StartNew, StopOld, store, updateVars, historyVars, vars
  <2>5. CASE New(NewController \/ Surroundings)
    BY <2>2, <2>5 DEF New, NewController, Surroundings, Next
  <2>6. CASE phase # "new" /\ OldController
    BY <2>3, <2>6 DEF OldController, Old!Next
  <2>7. CASE phase = "old" /\ OldSurroundings
    BY <2>3, <2>7 DEF OldSurroundings, Old!Next
  <2>8. QED
    BY <1>1, <2>4, <2>5, <2>6, <2>7 DEF UpdateNext
<1>2. UpdateInv /\ [UpdateNext]_updateVars =>
        [\A s \in Server :
            server[s].exists /\ server'[s].exists /\ server'[s].inc = server[s].inc =>
               server'[s].status.observedGeneration \in
                  {server[s].status.observedGeneration, server[s].generation}]_vars
  BY <1>1
<1>3. UpdateInit => UpdateInv
  BY UpdateStarts
<1>4. UpdateInv /\ [UpdateNext]_updateVars => UpdateInv'
  BY UpdateStep
<1>5. QED
  BY <1>2, <1>3, <1>4, PTL DEF UpdateSpec, StatusOfCurrentGeneration

-----------------------------------------------------------------------------
(* Checksums: each process has read secrets of the spec it works on only   *)

UpdateChecksumInv ==
    /\ phase # "new" => OldProofs!ChecksumInv
    /\ phase # "old" => ChecksumInv

LEMMA SameChecksums ==
    /\ (DeploymentsWhole <=> OldProofs!DeploymentsWhole)
    /\ (DeploymentsWhole' <=> (OldProofs!DeploymentsWhole)')
    /\ (LateInv <=> OldProofs!LateInv) /\ (LateInv' <=> (OldProofs!LateInv)')
BY DEF DeploymentsWhole, OldProofs!DeploymentsWhole, LateInv, OldProofs!LateInv, Whole,
       OldProofs!Whole, Named, OldProofs!Named

LEMMA UpdateChecksumNext ==
    ASSUME UpdateInv, UpdateChecksumInv, [UpdateNext]_updateVars
    PROVE  UpdateChecksumInv'
<1>1. CASE UNCHANGED updateVars
  BY <1>1
  DEF UpdateChecksumInv, ChecksumInv, DeploymentsWhole, ReadInv, LateInv, Whole, Named,
      OldProofs!ChecksumInv, OldProofs!DeploymentsWhole, OldProofs!ReadInv, OldProofs!LateInv,
      OldProofs!Whole, OldProofs!Named, updateVars, historyVars, vars, store, oldProcess
<1>2. CASE New(NewController \/ Surroundings)
  <2>1. phase # "old" /\ phase' = phase /\ Next /\ OldSees
    BY <1>2 DEF New, NewController, Surroundings, Next
  <2>2. ChecksumInv'
    BY <2>1, ChecksumNext DEF UpdateInv, HostingInv, UpdateChecksumInv
  <2>3. phase # "new" => (OldProofs!ReadInv)'
    BY <2>1 DEF UpdateChecksumInv, OldProofs!ChecksumInv, OldProofs!ReadInv, OldProofs!Named,
                OldSees
  <2>4. QED
    BY <2>1, <2>2, <2>3, SameChecksums DEF UpdateChecksumInv, ChecksumInv, OldProofs!ChecksumInv
<1>3. ASSUME phase # "new", Old!Next, NewSees, UNCHANGED phase PROVE UpdateChecksumInv'
  <2>1. OldProofs!TypeOK /\ OldProofs!ChecksumInv /\ OldProofs!Next
    BY <1>3, SameOld DEF UpdateInv, OldProofs!HostingInv, UpdateChecksumInv
  <2>2. (OldProofs!ChecksumInv)'
    BY <2>1, OldAssumptions, OldProofs!ChecksumNext
  <2>3. phase # "old" => ReadInv'
    BY <1>3 DEF UpdateChecksumInv, ChecksumInv, ReadInv, Named, NewSees
  <2>4. QED
    BY <1>3, <2>2, <2>3, SameChecksums DEF UpdateChecksumInv, ChecksumInv, OldProofs!ChecksumInv
<1>4. CASE StartNew
  <2>1. phase = "old" /\ phase' = "both" /\ OldProofs!ChecksumInv /\ NewIsOff
    BY <1>4 DEF StartNew, UpdateInv, UpdateChecksumInv
  <2>2. UNCHANGED <<deployment, late, worker, oldWorker>>
    BY <1>4 DEF StartNew, store, oldProcess
  <2>3. (OldProofs!ChecksumInv)'
    BY <2>1, <2>2 DEF OldProofs!ChecksumInv, OldProofs!DeploymentsWhole, OldProofs!ReadInv,
      OldProofs!LateInv, OldProofs!Whole, OldProofs!Named
  <2>4. ReadInv'
    BY <2>1, <2>2 DEF NewIsOff, ReadInv, Idle
  <2>5. QED
    BY <2>1, <2>3, <2>4, SameChecksums DEF UpdateChecksumInv, ChecksumInv, OldProofs!ChecksumInv
<1>5. CASE StopOld
  <2>1. /\ phase = "both" /\ phase' = "new"
        /\ OldProofs!ChecksumInv /\ ChecksumInv /\ OldProofs!TypeOK
    BY <1>5 DEF StopOld, UpdateInv, UpdateChecksumInv, OldProofs!HostingInv
  <2>2. UNCHANGED <<deployment, worker>>
    BY <1>5 DEF StopOld, store, newProcess
  <2>3. ASSUME NEW w \in late', w.pc = "build" PROVE Named(w.read) = Refs[w.obj.spec]
    <3>1. CASE w \in late
      BY <2>1, <2>3, <3>1 DEF ChecksumInv, LateInv
    <3>2. CASE w \notin late
      <4>1. PICK k \in Kind : Old!Sending(oldWorker[k]) /\ w = oldWorker[k]
        BY <1>5, <3>2
        DEF StopOld, Sending, Old!Sending, ReadyToApply, Old!ReadyToApply, Unread, Old!Unread
      <4>2. OldProofs!ReadyToApply(w)
        BY <2>3, <4>1 DEF Old!Sending, Old!ReadyToApply, OldProofs!ReadyToApply, Old!Unread,
                          OldProofs!Unread
      <4>3. w \in OldProofs!Active
        BY <2>1, <2>3, <4>1 DEF OldProofs!TypeOK, OldProofs!Idle
      <4>4. OldProofs!Named(w.read) \subseteq Refs[w.obj.spec]
        BY <2>1, <2>3, <4>1 DEF OldProofs!ChecksumInv, OldProofs!ReadInv
      <4>5. OldProofs!Named(w.read) = Refs[w.obj.spec]
        BY <4>2, <4>3, <4>4, OldAssumptions, OldProofs!ReadyIsWhole
      <4>6. QED
        BY <4>5 DEF Named, OldProofs!Named
    <3>3. QED
      BY <3>1, <3>2
  <2>4. LateInv'
    BY <2>3 DEF LateInv, Named
  <2>5. DeploymentsWhole' /\ ReadInv'
    BY <2>1, <2>2 DEF ChecksumInv, DeploymentsWhole, ReadInv, Whole, Named
  <2>6. QED
    BY <2>1, <2>4, <2>5 DEF UpdateChecksumInv, ChecksumInv
<1>6. CASE phase # "new" /\ OldController /\ NewSees /\ UNCHANGED phase
  BY <1>3, <1>6 DEF OldController, Old!Next
<1>7. CASE phase = "old" /\ OldSurroundings /\ NewSees /\ UNCHANGED phase
  BY <1>3, <1>7 DEF OldSurroundings, Old!Next
<1>8. QED
  BY <1>1, <1>2, <1>4, <1>5, <1>6, <1>7 DEF UpdateNext

\* While two processes apply the same Deployments, each from what it has read,
\* none is given the checksums of another set of secrets than its own spec's.
THEOREM UpdateChecksumsAreComplete == UpdateSpec => []ChecksumsComplete
<1>1. UpdateInit => UpdateInv /\ UpdateChecksumInv
  <2>1. SUFFICES ASSUME UpdateInit PROVE UpdateInv /\ UpdateChecksumInv
    OBVIOUS
  <2>2. OldProofs!ChecksumInv
    BY <2>1, SameOld, OldAssumptions, OldProofs!ChecksumInit DEF UpdateInit
  <2>3. QED
    BY <2>1, <2>2, UpdateStarts DEF UpdateChecksumInv, UpdateInit
<1>2. UpdateInv /\ UpdateChecksumInv /\ [UpdateNext]_updateVars
        => UpdateInv' /\ UpdateChecksumInv'
  BY UpdateStep, UpdateChecksumNext
<1>3. UpdateInv /\ UpdateChecksumInv => ChecksumsComplete
  <2>1. SUFFICES ASSUME UpdateInv, UpdateChecksumInv PROVE ChecksumsComplete
    OBVIOUS
  <2>2. DeploymentsWhole
    BY <2>1, SameChecksums DEF UpdateInv, UpdateChecksumInv, ChecksumInv, OldProofs!ChecksumInv
  <2>3. QED
    BY <2>2 DEF DeploymentsWhole, Whole, Named, ChecksumsComplete
<1>4. QED
  BY <1>1, <1>2, <1>3, PTL DEF UpdateSpec

====================================================================================
