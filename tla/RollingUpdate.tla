---------------------------- MODULE RollingUpdate ----------------------------
(***************************************************************************)
(* The Deployment of the manager itself is updated: with one replica and   *)
(* the default strategy a new manager process starts before the old one is *)
(* stopped.  main.go starts the controllers at once unless it is given     *)
(* --leader-elect, so both reconcile the same objects for a while, each    *)
(* with caches, workqueues and workers of its own, as the same field       *)
(* managers.                                                               *)
(*                                                                         *)
(* The variables of DeploymentReconciler are those of the new process.     *)
(***************************************************************************)
EXTENDS HostingHistory

VARIABLES
    phase,      \* which processes run: "old", "both" or "new"
    oldServerCache, oldSecretCache, oldDeploymentCache, oldSecretWatch, oldDeploymentWatch,
    oldSecretEvent, oldQueue, oldBackoff, oldWorker     \* those of the old process

Old == INSTANCE DeploymentReconciler WITH
    serverCache <- oldServerCache, secretCache <- oldSecretCache,
    deploymentCache <- oldDeploymentCache, secretWatch <- oldSecretWatch,
    deploymentWatch <- oldDeploymentWatch, secretEvent <- oldSecretEvent,
    queue <- oldQueue, backoff <- oldBackoff, worker <- oldWorker

newProcess == <<caches, watches, events, worker>>
oldProcess == <<oldServerCache, oldSecretCache, oldDeploymentCache, oldSecretWatch,
                oldDeploymentWatch, oldSecretEvent, oldQueue, oldBackoff, oldWorker>>
updateVars == <<historyVars, phase, oldProcess>>

\* A process that does not run: its informers hold nothing, and nothing is queued.
NewIsOff ==
    /\ serverCache = [s \in Server |-> NoServerObject]
    /\ secretCache = NoContent
    /\ deploymentCache = [d \in Deployment |-> NoDeployment]
    /\ secretWatch = {} /\ deploymentWatch = [d \in Deployment |-> {}] /\ secretEvent = {}
    /\ queue = {} /\ backoff = {}
    /\ worker = [k \in Kind |-> Idle]

UpdateInit ==
    /\ Old!Init
    /\ asked = {wish[s] : s \in Server} \ {None}
    /\ granted = {}
    /\ phase = "old"
    /\ NewIsOff

\* What the watches of a running process see of a step that is not its own.
SecretsSeen(watch) ==
    watch \cup {r \in Secret : secret'[r] # secret[r] /\ SecretEventPasses(secret[r], secret'[r])}
DeploymentsSeen(watch) ==
    [d \in Deployment |->
        IF deployment'[d] = deployment[d] THEN watch[d]
        ELSE watch[d] \cup OwnersOf(deployment[d]) \cup OwnersOf(deployment[d])']

NewSees ==
    /\ UNCHANGED <<caches, events, worker>>
    /\ IF phase = "old" THEN UNCHANGED watches
       ELSE /\ secretWatch' = SecretsSeen(secretWatch)
            /\ deploymentWatch' = DeploymentsSeen(deploymentWatch)

OldSees ==
    /\ UNCHANGED <<oldServerCache, oldSecretCache, oldDeploymentCache, oldSecretEvent,
                   oldQueue, oldBackoff, oldWorker>>
    /\ IF phase = "new" THEN UNCHANGED <<oldSecretWatch, oldDeploymentWatch>>
       ELSE /\ oldSecretWatch' = SecretsSeen(oldSecretWatch)
            /\ oldDeploymentWatch' = DeploymentsSeen(oldDeploymentWatch)

\* The new process has started: its informers list everything.
StartNew ==
    /\ phase = "old"
    /\ phase' = "both"
    /\ serverCache' = server
    /\ secretCache' = secret
    /\ deploymentCache' = deployment
    /\ queue' = {s \in Server : server[s].exists}
                \cup UNION {OwnersOf(deployment[d]) : d \in Deployment}
    /\ UNCHANGED <<store, watches, secretEvent, backoff, worker, late, bounds, oldProcess>>

\* The old process is told to stop; a request it has sent may still take effect.
StopOld ==
    /\ phase = "both"
    /\ phase' = "new"
    /\ \E sent \in SUBSET {k \in Kind : Sending(oldWorker[k])} :
         late' = late \cup {oldWorker[k] : k \in sent}
    /\ oldServerCache' = [s \in Server |-> NoServerObject]
    /\ oldSecretCache' = NoContent
    /\ oldDeploymentCache' = [d \in Deployment |-> NoDeployment]
    /\ oldSecretWatch' = {} /\ oldDeploymentWatch' = [d \in Deployment |-> {}]
    /\ oldSecretEvent' = {} /\ oldQueue' = {} /\ oldBackoff' = {}
    /\ oldWorker' = [k \in Kind |-> Idle]
    /\ UNCHANGED <<store, newProcess, bounds>>

\* A step of the new process, or of the surroundings while it runs.
New(step) == phase # "old" /\ step /\ OldSees /\ UNCHANGED phase
NewController ==
    Deliver \/ \E k \in Kind : Reconcile(k) \/ ApplyFails(k) \/ UpdateFails(k)

OldController ==
    Old!Deliver \/ \E k \in Kind : Old!Reconcile(k) \/ Old!ApplyFails(k) \/ Old!UpdateFails(k)

\* Users, the cluster's own controllers, and requests nobody waits for.
Surroundings == Environment \/ Collect \/ \E w \in late : LandLate(w)
OldSurroundings == Old!Environment \/ Old!Collect \/ \E w \in late : Old!LandLate(w)

\* A change of the surroundings is seen by the watches of every process that runs.
UpdateNext ==
    /\ \/ StartNew
       \/ StopOld
       \/ New(NewController \/ Surroundings)
       \/ phase # "new" /\ OldController /\ NewSees /\ UNCHANGED phase
       \/ phase = "old" /\ OldSurroundings /\ NewSees /\ UNCHANGED phase
    /\ Remember

UpdateSpec == UpdateInit /\ [][UpdateNext]_updateVars

-----------------------------------------------------------------------------
\* Two processes that overwrite each other's Deployments and statuses lose no
\* wake-up: what the old one leaves behind, when it stops in the middle of a
\* reconcile or while its requests are still on their way, the new one sees and
\* repairs.  Here a server is quiet as soon as the new process has nothing to
\* do, whatever the old one is about to write (main, SetupWithManager).
UpdateNoLostWakeup == phase # "old" => NoLostWakeup
==============================================================================
