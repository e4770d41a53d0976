------------------------- MODULE KubeconfigReconcilerProofs -------------------------
(* What holds of KubeconfigReconciler for every value of its constants: its types, *)
(* and that a kubeconfig is complete.                                              *)
EXTENDS KubeconfigReconciler, TLAPS

USE ConfigAssumption

-----------------------------------------------------------------------------
(* Type correctness *)

\* The absent objects are values of their types.
LEMMA AbsentTypes ==
    /\ NoKubeconfig \in Gone
    /\ NoContent \in Content
    /\ NoSecret \in SecretObject
<1>1. NoKubeconfig \in Gone
  BY DEF NoKubeconfig, Gone
<1>2. NoContent \in Content
  BY DEF NoContent, Content
<1>3. NoSecret \in SecretObject
  BY DEF NoSecret, SecretObject
<1>4. QED
  BY <1>1, <1>2, <1>3

\* An object that exists is a Present one.
LEMMA ExistsIsPresent ==
    ASSUME NEW obj \in KubeconfigObject, obj.exists
    PROVE  obj \in Present
BY DEF KubeconfigObject, Gone

\* A worker that is not idle holds a Kubeconfig that exists.
LEMMA WorkerType ==
    ASSUME TypeOK, worker.pc = "resolve"
    PROVE  worker \in Active
BY DEF TypeOK, Idle

LEMMA OwnersType ==
    ASSUME NEW o \in SecretObject
    PROVE  OwnersOf(o) \subseteq Kubeconfig
BY DEF OwnersOf, SecretObject

\* A write of a secret yields secrets, and wakes Kubeconfigs.
LEMMA WriteType ==
    ASSUME TypeOK, NEW n \in Name, NEW new \in SecretObject, WriteSecret(n, new)
    PROVE  /\ secret' \in [Name -> SecretObject]
           /\ owners' \in [Name -> SUBSET Kubeconfig]
           /\ comings' \in SUBSET Name
<1>1. secret' \in [Name -> SecretObject]
  BY DEF TypeOK, WriteSecret
<1>2. OwnersOf(secret[n]) \subseteq Kubeconfig /\ OwnersOf(new) \subseteq Kubeconfig
  BY OwnersType DEF TypeOK
<1>3. owners' \in [Name -> SUBSET Kubeconfig]
  BY <1>2 DEF TypeOK, WriteSecret
<1>4. comings' \in SUBSET Name
  BY DEF TypeOK, WriteSecret
<1>5. QED
  BY <1>1, <1>3, <1>4

LEMMA AppliedType ==
    ASSUME TypeOK, NEW w \in Active
    PROVE  /\ SecretName[w.obj.spec] \in Name
           /\ Applied(w) \in SecretObject
<1>1. w.name \in Kubeconfig /\ w.obj \in Present /\ w.read \in Content
  BY DEF Active
<1>2. w.obj.spec \in Spec /\ w.obj.inc \in Nat
  BY <1>1 DEF Present
<1>3. SecretName[w.obj.spec] \in Name
  BY <1>2
<1>4. secret[SecretName[w.obj.spec]].data \in Data \cup {Absent}
  BY <1>3 DEF TypeOK, SecretObject
<1>5. [spec |-> w.obj.spec, read |-> w.read] \in Config
  BY <1>1, <1>2 DEF Config
<1>6. QED
  BY <1>1, <1>2, <1>3, <1>4, <1>5 DEF Applied, SecretObject

LEMMA ApplyType ==
    ASSUME TypeOK, NEW w \in Active, Apply(w)
    PROVE  /\ secret' \in [Name -> SecretObject]
           /\ owners' \in [Name -> SUBSET Kubeconfig]
           /\ comings' \in SUBSET Name
BY AppliedType, WriteType DEF Apply

LEMMA TypeInit == Init => TypeOK
<1> SUFFICES ASSUME Init PROVE TypeOK
  OBVIOUS
<1>1. kubeconfig \in [Kubeconfig -> KubeconfigObject]
  <2>1. \A x \in Spec : [exists |-> TRUE, inc |-> 1, spec |-> x, deleting |-> FALSE] \in Present
    BY DEF Present
  <2>2. {NoKubeconfig} \cup {[exists |-> TRUE, inc |-> 1, spec |-> x, deleting |-> FALSE] : x \in Spec}
          \subseteq KubeconfigObject
    BY <2>1, AbsentTypes DEF KubeconfigObject
  <2>3. QED
    BY <2>2 DEF Init
<1>2. secret \in [Name -> SecretObject]
  <2>1. PICK data \in Content :
          secret = [n \in Name |-> [NoSecret EXCEPT !.exists = data[n] # Absent, !.data = data[n]]]
    BY DEF Init
  <2>2. \A n \in Name : [NoSecret EXCEPT !.exists = data[n] # Absent, !.data = data[n]]
                          \in SecretObject
    BY AbsentTypes DEF NoSecret, SecretObject, Content
  <2>3. QED
    BY <2>1, <2>2
<1>3. QED
  BY <1>1, <1>2 DEF Init, TypeOK

\* Event delivery leaves the API server's objects and the worker alone.
LEMMA TypeDeliver == TypeOK /\ Deliver => TypeOK'
<1> SUFFICES ASSUME TypeOK, Deliver PROVE TypeOK'
  OBVIOUS
<1>1. ASSUME NEW k \in Kubeconfig, SyncKubeconfig(k) PROVE TypeOK'
  BY <1>1 DEF TypeOK, SyncKubeconfig, store, bounds, watches
<1>2. ASSUME NEW k \in Kubeconfig, Requeue(k) PROVE TypeOK'
  BY <1>2 DEF TypeOK, Requeue, store, caches, bounds, watches
<1>3. ASSUME NEW n \in Name, SyncSecret(n) PROVE TypeOK'
  BY <1>3 DEF TypeOK, SyncSecret, store, bounds
<1>4. ASSUME NEW n \in Name, HandleSecretEvent(n) PROVE TypeOK'
  BY <1>4 DEF TypeOK, HandleSecretEvent, store, caches, bounds, watches
<1>5. CASE Resync
  <2>1. \A n \in Name : OwnersOf(secretCache[n]) \subseteq Kubeconfig
    BY OwnersType DEF TypeOK
  <2>2. queue' \subseteq Kubeconfig
    BY <1>5, <2>1 DEF Resync, TypeOK
  <2>3. QED
    BY <1>5, <2>2 DEF Resync, TypeOK, store, caches, bounds, watches
<1>6. QED
  BY <1>1, <1>2, <1>3, <1>4, <1>5 DEF Deliver

LEMMA TypeReconcile == TypeOK /\ (Reconcile \/ ApplyFails) => TypeOK'
<1> SUFFICES ASSUME TypeOK, Reconcile \/ ApplyFails PROVE TypeOK'
  OBVIOUS
<1>1. ASSUME NEW k \in Kubeconfig, Start(k) PROVE TypeOK'
  <2>1. kubeconfigCache[k].exists => kubeconfigCache[k] \in Present
    BY ExistsIsPresent DEF TypeOK
  <2>2. worker' \in Active \cup {Idle}
    BY <1>1, <2>1, AbsentTypes DEF Start, TypeOK, Active
  <2>3. QED
    BY <1>1, <2>2 DEF Start, TypeOK, store, caches, bounds, watches
<1>2. ASSUME NEW n \in Name, ReadSecret(n) PROVE TypeOK'
  <2>1. worker \in Active
    BY <1>2, WorkerType DEF ReadSecret
  <2>2. secretCache[n].data \in Data \cup {Absent}
    BY DEF TypeOK, SecretObject
  <2>3. worker' \in Active
    BY <1>2, <2>1, <2>2 DEF ReadSecret, Active, Content
  <2>4. QED
    BY <1>2, <2>3 DEF ReadSecret, TypeOK, store, caches, bounds, watches
<1>3. CASE ResolveFails \/ ApplyIsRefused
  <2>1. worker.name \in Kubeconfig
    BY <1>3, WorkerType DEF ResolveFails, ApplyIsRefused, ReadyToApply, Active
  <2>2. QED
    BY <1>3, <2>1
    DEF ResolveFails, ApplyIsRefused, Retry, TypeOK, store, caches, bounds, watches
<1>4. CASE ApplySucceeds
  <2>1. worker \in Active
    BY <1>4, WorkerType DEF ApplySucceeds, ReadyToApply
  <2>2. QED
    BY <1>4, <2>1, ApplyType DEF ApplySucceeds, TypeOK, caches, bounds
<1>5. CASE ApplyFails
  <2>1. worker \in Active /\ worker.name \in Kubeconfig
    BY <1>5, WorkerType DEF ApplyFails, ReadyToApply, Active
  <2>2. /\ secret' \in [Name -> SecretObject]
        /\ owners' \in [Name -> SUBSET Kubeconfig]
        /\ comings' \in SUBSET Name
    BY <1>5, <2>1, ApplyType DEF ApplyFails, TypeOK, watches
  <2>3. late' \subseteq Active
    BY <1>5, <2>1 DEF ApplyFails, TypeOK
  <2>4. QED
    BY <1>5, <2>1, <2>2, <2>3 DEF ApplyFails, Retry, TypeOK, caches
<1>6. QED
  BY <1>1, <1>2, <1>3, <1>4, <1>5 DEF Reconcile

LEMMA TypeCrash == TypeOK /\ Crash => TypeOK'
<1> SUFFICES ASSUME TypeOK, Crash PROVE TypeOK'
  OBVIOUS
<1>1. ReadyToApply => worker \in Active
  BY WorkerType DEF ReadyToApply
<1>2. late' \subseteq Active
  BY <1>1 DEF Crash, TypeOK
<1>3. \A n \in Name : OwnersOf(secret[n]) \subseteq Kubeconfig
  BY OwnersType DEF TypeOK
<1>4. queue' \subseteq Kubeconfig
  BY <1>3 DEF Crash
<1>5. QED
  BY <1>2, <1>4 DEF Crash, TypeOK, store

LEMMA TypeLand == ASSUME TypeOK, NEW w \in late, LandLate(w) PROVE TypeOK'
<1>1. w \in Active
  BY DEF TypeOK
<1>2. /\ secret' \in [Name -> SecretObject]
      /\ owners' \in [Name -> SUBSET Kubeconfig]
      /\ comings' \in SUBSET Name
  BY <1>1, ApplyType DEF LandLate, TypeOK, watches
<1>3. QED
  BY <1>2 DEF LandLate, TypeOK, caches, bounds

LEMMA RemovedType ==
    ASSUME TypeOK, NEW k \in Kubeconfig
    PROVE  Removed(k) \in [Kubeconfig -> KubeconfigObject]
<1>1. kubeconfig[k].inc \in Nat
  BY DEF TypeOK, KubeconfigObject, Present, Gone
<1>2. [NoKubeconfig EXCEPT !.inc = kubeconfig[k].inc] \in Gone
  BY <1>1 DEF NoKubeconfig, Gone
<1>3. QED
  BY <1>2 DEF Removed, TypeOK, KubeconfigObject

LEMMA TypeUserKubeconfig ==
    ASSUME TypeOK, NEW k \in Kubeconfig, CreateKubeconfig(k) \/ EditSpec(k) \/ DeleteKubeconfig(k)
    PROVE  kubeconfig' \in [Kubeconfig -> KubeconfigObject]
<1>1. CASE CreateKubeconfig(k)
  <2> kubeconfig[k].inc \in Nat
    BY DEF TypeOK, KubeconfigObject, Present, Gone
  <2>1. kubeconfig[k].inc + 1 \in Nat
    OBVIOUS
  <2>2. \A x \in Spec : [exists |-> TRUE, inc |-> kubeconfig[k].inc + 1, spec |-> x,
                         deleting |-> FALSE] \in KubeconfigObject
    BY <2>1 DEF KubeconfigObject, Present
  <2>3. QED
    BY <1>1, <2>2 DEF CreateKubeconfig, TypeOK
<1>2. CASE EditSpec(k)
  <2>1. kubeconfig[k] \in Present
    BY <1>2, ExistsIsPresent DEF EditSpec, TypeOK
  <2>2. \A x \in Spec : [kubeconfig[k] EXCEPT !.spec = x] \in KubeconfigObject
    BY <2>1 DEF KubeconfigObject, Present
  <2>3. PICK x \in Spec : kubeconfig' = [kubeconfig EXCEPT ![k].spec = x]
    BY <1>2 DEF EditSpec
  <2>4. QED
    BY <2>2, <2>3 DEF TypeOK
<1>3. CASE DeleteKubeconfig(k)
  <2>1. kubeconfig[k] \in Present
    BY <1>3, ExistsIsPresent DEF DeleteKubeconfig, TypeOK
  <2>2. [kubeconfig[k] EXCEPT !.deleting = TRUE] \in KubeconfigObject
    BY <2>1 DEF KubeconfigObject, Present
  <2>3. [kubeconfig EXCEPT ![k].deleting = TRUE] \in [Kubeconfig -> KubeconfigObject]
    BY <2>2 DEF TypeOK
  <2>4. QED
    BY <1>3, <2>3, RemovedType DEF DeleteKubeconfig
<1>4. QED
  BY <1>1, <1>2, <1>3

\* What a user makes of a secret is a secret.
LEMMA UserSecretType ==
    ASSUME TypeOK, NEW n \in Name, NEW v \in Data
    PROVE  /\ [secret[n] EXCEPT !.exists = TRUE, !.data = v] \in SecretObject
           /\ [secret[n] EXCEPT !.exists = TRUE, !.config = Foreign] \in SecretObject
<1>1. secret[n] \in SecretObject
  BY DEF TypeOK
<1>2. [secret[n] EXCEPT !.exists = TRUE, !.data = v] \in SecretObject
  BY <1>1 DEF SecretObject
<1>3. [secret[n] EXCEPT !.exists = TRUE, !.config = Foreign] \in SecretObject
  BY <1>1 DEF SecretObject
<1>4. QED
  BY <1>2, <1>3

LEMMA TypeEnvironment == TypeOK /\ Environment => TypeOK'
<1> SUFFICES ASSUME TypeOK, Environment PROVE TypeOK'
  OBVIOUS
<1>1. ASSUME NEW k \in Kubeconfig, CreateKubeconfig(k) \/ EditSpec(k) \/ DeleteKubeconfig(k)
      PROVE  TypeOK'
  <2>1. Change /\ UNCHANGED <<secret, watches>>
    BY <1>1 DEF CreateKubeconfig, EditSpec, DeleteKubeconfig
  <2>2. QED
    BY <1>1, <2>1, TypeUserKubeconfig DEF Change, TypeOK, caches, watches
<1>2. ASSUME NEW n \in Name, PutSecret(n) \/ DeleteSecret(n) \/ TakeKey(n) PROVE TypeOK'
  <2>1. [secret[n] EXCEPT !.exists = TRUE, !.config = Foreign] \in SecretObject
    <3>1. secret[n] \in SecretObject
      BY DEF TypeOK
    <3>2. QED
      BY <3>1 DEF SecretObject
  <2>2. \E new \in SecretObject : WriteSecret(n, new)
    BY <1>2, <2>1, AbsentTypes, UserSecretType DEF PutSecret, DeleteSecret, TakeKey
  <2>3. Change /\ kubeconfig' = kubeconfig
    BY <1>2 DEF PutSecret, DeleteSecret, TakeKey
  <2>4. QED
    BY <2>2, <2>3, WriteType DEF Change, TypeOK, caches
<1>3. QED
  BY <1>1, <1>2 DEF Environment

LEMMA TypeCollect == TypeOK /\ Collect => TypeOK'
<1> SUFFICES ASSUME TypeOK, Collect PROVE TypeOK'
  OBVIOUS
<1>1. ASSUME NEW n \in Name, CollectGarbage(n) PROVE TypeOK'
  BY <1>1, AbsentTypes, WriteType DEF CollectGarbage, TypeOK, caches, bounds
<1>2. ASSUME NEW k \in Kubeconfig, FinishDeletion(k) PROVE TypeOK'
  BY <1>2, RemovedType DEF FinishDeletion, TypeOK, caches, watches, bounds
<1>3. QED
  BY <1>1, <1>2 DEF Collect

LEMMA TypeNext == TypeOK /\ [Next]_vars => TypeOK'
<1> SUFFICES ASSUME TypeOK, [Next]_vars PROVE TypeOK'
  OBVIOUS
<1>1. CASE UNCHANGED vars
  BY <1>1 DEF TypeOK, vars, store, caches, watches, bounds
<1>2. CASE Next
  BY <1>2, TypeDeliver, TypeReconcile, TypeCrash, TypeLand, TypeEnvironment, TypeCollect
  DEF Next
<1>3. QED
  BY <1>1, <1>2

\* Every variable has its type in every reachable state: no request, however
\* late, renders an object that does not exist or a spec that is none.
THEOREM TypeCorrect == ReconcilerSpec => []TypeOK
<1>1. QED
  BY TypeInit, TypeNext, PTL DEF ReconcilerSpec

-----------------------------------------------------------------------------
(* A kubeconfig is complete *)

\* A secret whose kubeconfig, if it has one, has every credential.
Sound(o) ==
    o.config \notin {NoConfig, Foreign} =>
        /\ {r \in Name : o.config.read[r] # Absent} = Refs[o.config.spec]
        /\ \A r \in Refs[o.config.spec] : o.config.read[r] \in Complete

\* What has been read so far is of the spec's secrets, and has the keys.
ReadSoundly(w) ==
    \A r \in Name : w.read[r] # Absent => r \in Refs[w.obj.spec] /\ w.read[r] \in Complete

\* ConfigComplete is not inductive: what is written was read before, by a worker
\* that may be gone.
ConfigInv ==
    /\ ConfigComplete
    /\ worker.pc = "resolve" => ReadSoundly(worker)
    /\ \A w \in late : ReadSoundly(w) /\ Unread(w) = {}

LEMMA AllSound == ConfigComplete <=> \A n \in Name : Sound(secret[n])
BY DEF ConfigComplete, Sound

\* A write that puts something sound in its place keeps every secret sound.
LEMMA WriteSound ==
    ASSUME TypeOK, ConfigComplete, NEW n \in Name, NEW new, WriteSecret(n, new), Sound(new)
    PROVE  ConfigComplete'
<1>1. \A m \in Name : secret'[m] = IF m = n THEN new ELSE secret[m]
  BY DEF WriteSecret, TypeOK
<1>2. \A m \in Name : Sound(secret[m])
  BY AllSound
<1>3. \A m \in Name : Sound(secret'[m])
  <2>1. SUFFICES ASSUME NEW m \in Name PROVE Sound(secret'[m])
    OBVIOUS
  <2>2. CASE m = n
    BY <1>1, <2>2
  <2>3. CASE m # n
    BY <1>1, <1>2, <2>3
  <2>4. QED
    BY <2>2, <2>3
<1>4. QED
  BY <1>3 DEF ConfigComplete, Sound

\* What has been read soundly and wholly is rendered soundly.
LEMMA ApplySound ==
    ASSUME TypeOK, ConfigComplete, NEW w \in Active, ReadSoundly(w), Unread(w) = {}, Apply(w)
    PROVE  ConfigComplete'
<1>1. w.obj.spec \in Spec /\ w.read \in Content
  BY DEF Active, Present
<1>2. SecretName[w.obj.spec] \in Name /\ Refs[w.obj.spec] \subseteq Name
  BY <1>1
<1>3. \A r \in Refs[w.obj.spec] : w.read[r] # Absent
  BY DEF Unread
<1>4. {r \in Name : w.read[r] # Absent} = Refs[w.obj.spec]
  BY <1>2, <1>3 DEF ReadSoundly
<1>5. \A r \in Refs[w.obj.spec] : w.read[r] \in Complete
  BY <1>2, <1>3 DEF ReadSoundly
<1>6. Applied(w).config = [spec |-> w.obj.spec, read |-> w.read]
  BY DEF Applied
<1>7. Sound(Applied(w))
  BY <1>4, <1>5, <1>6 DEF Sound
<1>8. QED
  BY <1>2, <1>7, WriteSound DEF Apply

LEMMA ConfigInit == Init => ConfigInv
<1> SUFFICES ASSUME Init PROVE ConfigInv
  OBVIOUS
<1>1. \A n \in Name : secret[n].config = NoConfig
  <2>1. PICK data \in Content :
          secret = [n \in Name |-> [NoSecret EXCEPT !.exists = data[n] # Absent, !.data = data[n]]]
    BY DEF Init
  <2>2. QED
    BY <2>1 DEF NoSecret
<1>2. worker.pc # "resolve" /\ late = {}
  BY DEF Init, Idle
<1>3. QED
  BY <1>1, <1>2 DEF ConfigInv, ConfigComplete

\* A step that writes no secret and lets no worker read or send anything.
LEMMA ConfigStutter ==
    ASSUME ConfigInv, secret' = secret, late' = late, worker' = worker \/ worker' = Idle
    PROVE  ConfigInv'
<1>1. ConfigComplete'
  BY DEF ConfigInv, ConfigComplete
<1>2. worker'.pc = "resolve" => worker' = worker
  BY DEF Idle
<1>3. (worker.pc = "resolve" => ReadSoundly(worker))'
  BY <1>2 DEF ConfigInv, ReadSoundly
<1>4. (\A w \in late : ReadSoundly(w) /\ Unread(w) = {})'
  BY DEF ConfigInv, ReadSoundly, Unread
<1>5. QED
  BY <1>1, <1>3, <1>4 DEF ConfigInv

\* A step that may write a secret, send the worker's request, and give it up.
LEMMA ConfigSend ==
    ASSUME ConfigInv, ConfigComplete',
           late' \subseteq late \cup (IF ReadyToApply THEN {worker} ELSE {}),
           worker' = worker \/ worker' = Idle
    PROVE  ConfigInv'
<1>1. worker'.pc = "resolve" => worker' = worker
  BY DEF Idle
<1>2. (worker.pc = "resolve" => ReadSoundly(worker))'
  BY <1>1 DEF ConfigInv, ReadSoundly
<1>3. \A w \in late' : ReadSoundly(w) /\ Unread(w) = {}
  BY DEF ConfigInv, ReadyToApply
<1>4. (\A w \in late : ReadSoundly(w) /\ Unread(w) = {})'
  BY <1>3 DEF ReadSoundly, Unread
<1>5. QED
  BY <1>2, <1>4 DEF ConfigInv

LEMMA ConfigReconcile == TypeOK /\ ConfigInv /\ (Reconcile \/ ApplyFails) => ConfigInv'
<1> SUFFICES ASSUME TypeOK, ConfigInv, Reconcile \/ ApplyFails PROVE ConfigInv'
  OBVIOUS
<1>1. ASSUME NEW k \in Kubeconfig, Start(k) PROVE ConfigInv'
  <2>1. secret' = secret /\ late' = late
    BY <1>1 DEF Start, store
  <2>2. CASE worker' = worker
    BY <2>1, <2>2, ConfigStutter
  <2>3. CASE worker' = [pc |-> "resolve", name |-> k, obj |-> kubeconfigCache[k],
                        read |-> NoContent]
    <3>1. \A r \in Name : worker'.read[r] = Absent
      BY <2>3 DEF NoContent
    <3>2. ReadSoundly(worker')
      BY <3>1 DEF ReadSoundly
    <3>3. ConfigComplete' /\ (\A w \in late : ReadSoundly(w) /\ Unread(w) = {})'
      BY <2>1 DEF ConfigInv, ConfigComplete, ReadSoundly, Unread
    <3>4. QED
      BY <3>2, <3>3 DEF ConfigInv, ReadSoundly
  <2>4. QED
    BY <1>1, <2>2, <2>3 DEF Start
<1>2. ASSUME NEW n \in Name, ReadSecret(n) PROVE ConfigInv'
  <2>1. worker.pc = "resolve" /\ worker \in Active /\ worker.read \in Content
    BY <1>2, WorkerType DEF ReadSecret, Active
  <2>2. n \in Refs[worker.obj.spec] /\ secretCache[n].data \in Complete
    BY <1>2 DEF ReadSecret, Unread, Usable
  <2>3. worker' = [worker EXCEPT !.read[n] = secretCache[n].data]
    BY <1>2 DEF ReadSecret
  <2>4. worker'.obj = worker.obj
    BY <2>1, <2>3 DEF Active
  <2>5. \A r \in Name : worker'.read[r] = IF r = n THEN secretCache[n].data ELSE worker.read[r]
    BY <2>1, <2>3 DEF Active, Content
  <2>6. ReadSoundly(worker)
    BY <2>1 DEF ConfigInv
  <2>7. ReadSoundly(worker')
    BY <2>2, <2>4, <2>5, <2>6 DEF ReadSoundly
  <2>8. secret' = secret /\ late' = late
    BY <1>2 DEF ReadSecret, store
  <2>9. ConfigComplete' /\ (\A w \in late : ReadSoundly(w) /\ Unread(w) = {})'
    BY <2>8 DEF ConfigInv, ConfigComplete, ReadSoundly, Unread
  <2>10. QED
    BY <2>7, <2>9 DEF ConfigInv, ReadSoundly
<1>3. CASE ResolveFails \/ ApplyIsRefused
  BY <1>3, ConfigStutter DEF ResolveFails, ApplyIsRefused, Retry, store
<1>4. CASE ApplySucceeds
  <2>1. worker \in Active /\ ReadSoundly(worker) /\ Unread(worker) = {} /\ Apply(worker)
    BY <1>4, WorkerType DEF ApplySucceeds, ReadyToApply, ConfigInv
  <2>2. ConfigComplete'
    BY <2>1, ApplySound DEF ConfigInv
  <2>3. QED
    BY <1>4, <2>2, ConfigSend DEF ApplySucceeds
<1>5. CASE ApplyFails
  <2>1. worker \in Active /\ ReadSoundly(worker) /\ Unread(worker) = {}
    BY <1>5, WorkerType DEF ApplyFails, ReadyToApply, ConfigInv
  <2>2. secret' = secret \/ Apply(worker)
    BY <1>5 DEF ApplyFails
  <2>3. secret' = secret => ConfigComplete'
    BY DEF ConfigInv, ConfigComplete
  <2>4. ConfigComplete'
    BY <2>1, <2>2, <2>3, ApplySound DEF ConfigInv
  <2>5. late' \subseteq late \cup (IF ReadyToApply THEN {worker} ELSE {}) /\ worker' = Idle
    BY <1>5 DEF ApplyFails, Retry
  <2>6. QED
    BY <2>4, <2>5, ConfigSend
<1>6. QED
  BY <1>1, <1>2, <1>3, <1>4, <1>5 DEF Reconcile

\* A request that lands late was read as soundly as any other.
LEMMA ConfigLand == ASSUME TypeOK, ConfigInv, NEW w \in late, LandLate(w) PROVE ConfigInv'
<1>1. w \in Active /\ ReadSoundly(w) /\ Unread(w) = {}
  BY DEF TypeOK, ConfigInv
<1>2. secret' = secret => ConfigComplete'
  BY DEF ConfigInv, ConfigComplete
<1>3. ConfigComplete'
  BY <1>1, <1>2, ApplySound DEF LandLate, ConfigInv
<1>4. QED
  BY <1>3, ConfigSend DEF LandLate

\* Users write no kubeconfig but one of their own.
LEMMA ConfigUsers == TypeOK /\ ConfigInv /\ (Environment \/ Collect) => ConfigInv'
<1> SUFFICES ASSUME TypeOK, ConfigInv, Environment \/ Collect PROVE ConfigInv'
  OBVIOUS
<1>1. worker' = worker /\ late' = late
  BY DEF Environment, Collect, CreateKubeconfig, EditSpec, DeleteKubeconfig, PutSecret,
         DeleteSecret, TakeKey, CollectGarbage, FinishDeletion, Change
<1>2. CASE secret' = secret
  BY <1>1, <1>2, ConfigStutter
<1>3. ASSUME NEW n \in Name,
             PutSecret(n) \/ DeleteSecret(n) \/ TakeKey(n) \/ CollectGarbage(n)
      PROVE  ConfigInv'
  <2>1. secret[n] \in SecretObject /\ Sound(secret[n])
    BY AllSound DEF TypeOK, ConfigInv
  <2>2. Sound(NoSecret)
    BY DEF NoSecret, Sound
  <2>3. Sound([secret[n] EXCEPT !.exists = TRUE, !.config = Foreign])
    BY <2>1 DEF Sound, SecretObject
  <2>4. \A v \in Data : Sound([secret[n] EXCEPT !.exists = TRUE, !.data = v])
    <3>1. \A v \in Data :
            [secret[n] EXCEPT !.exists = TRUE, !.data = v].config = secret[n].config
      BY <2>1 DEF SecretObject
    <3>2. QED
      BY <2>1, <3>1 DEF Sound
  <2>5. \E new : WriteSecret(n, new) /\ Sound(new)
    BY <1>3, <2>2, <2>3, <2>4 DEF PutSecret, DeleteSecret, TakeKey, CollectGarbage
  <2>6. ConfigComplete'
    BY <2>5, WriteSound DEF ConfigInv
  <2>7. QED
    BY <1>1, <2>6, ConfigSend
<1>4. QED
  BY <1>2, <1>3 DEF Environment, Collect, CreateKubeconfig, EditSpec, DeleteKubeconfig,
                    FinishDeletion

LEMMA ConfigNext == TypeOK /\ ConfigInv /\ [Next]_vars => ConfigInv'
<1> SUFFICES ASSUME TypeOK, ConfigInv, [Next]_vars PROVE ConfigInv'
  OBVIOUS
<1>1. CASE UNCHANGED vars
  BY <1>1, ConfigStutter DEF vars, store
<1>2. CASE Deliver
  BY <1>2, ConfigStutter
  DEF Deliver, SyncKubeconfig, Requeue, SyncSecret, HandleSecretEvent, Resync, store
<1>3. CASE Crash
  <2>1. ConfigComplete'
    BY <1>3 DEF Crash, store, ConfigInv, ConfigComplete
  <2>2. late' \subseteq late \cup (IF ReadyToApply THEN {worker} ELSE {}) /\ worker' = Idle
    BY <1>3 DEF Crash
  <2>3. QED
    BY <2>1, <2>2, ConfigSend
<1>4. CASE Reconcile \/ ApplyFails
  BY <1>4, ConfigReconcile
<1>5. CASE \E w \in late : LandLate(w)
  BY <1>5, ConfigLand
<1>6. CASE Environment \/ Collect
  BY <1>6, ConfigUsers
<1>7. QED
  BY <1>1, <1>2, <1>3, <1>4, <1>5, <1>6 DEF Next

\* A kubeconfig is never rendered from less than all it references, whatever
\* comes and goes while its secrets are read one by one, and whichever requests
\* a crashed process has left under way (resolveConfig, reconcile).
THEOREM ConfigsAreComplete == ReconcilerSpec => []ConfigComplete
<1>1. ConfigInv => ConfigComplete
  BY DEF ConfigInv
<1>2. QED
  BY <1>1, ConfigInit, ConfigNext, TypeCorrect, PTL DEF ReconcilerSpec

-----------------------------------------------------------------------------
(* No wake-up is lost *)

\* The informer has yet to see what it does not know of a secret's deletion.
SecretInv == \A n \in Name : secretCache[n].exists /\ ~ secret[n].exists => n \in comings

\* The informer has the secret, or its deletion is still to be handled.
Provided(n) == secretCache[n].exists \/ n \in secretEvent

\* A worker whose Kubeconfig is not queued works on what the cache holds, and
\* will be followed by another if a secret it has read goes.
WorkerInv ==
    worker.pc = "resolve" /\ worker.name \notin queue =>
        /\ worker.obj = kubeconfigCache[worker.name]
        /\ \A n \in Refs[worker.obj.spec] : worker.read[n] # Absent => Provided(n)

\* As far as the controller knows, k is there and nothing reconciles it (again).
Calm(k) ==
    LET obj == kubeconfigCache[k]
    IN  /\ obj.exists /\ ~ obj.deleting
        /\ k \notin owners[SecretName[obj.spec]]
        /\ k \notin queue \cup backoff
        /\ worker.name # k

\* The secret o holds k's kubeconfig, as obj asks for it.
Holds(o, k, obj) ==
    /\ o.exists
    /\ o.owner = k /\ o.inc = obj.inc
    /\ o.config \notin {NoConfig, Foreign}
    /\ o.config.spec = obj.spec

Settled(k) ==
    LET obj == kubeconfigCache[k]
    IN  /\ Holds(secret[SecretName[obj.spec]], k, obj)
        /\ \A n \in Refs[obj.spec] : Provided(n)

\* NoLostWakeup speaks of the API server's object, which may be edited and
\* edited back unseen; what lasts is a promise about the cached one.
CalmInv == \A k \in Kubeconfig : Calm(k) => Settled(k)

WakeupInv == SecretInv /\ WorkerInv /\ CalmInv

LEMMA CachedSpec ==
    ASSUME TypeOK, NEW k \in Kubeconfig, kubeconfigCache[k].exists
    PROVE  /\ kubeconfigCache[k].spec \in Spec
           /\ SecretName[kubeconfigCache[k].spec] \in Name
           /\ Refs[kubeconfigCache[k].spec] \subseteq Name
<1>1. kubeconfigCache[k] \in Present
  BY ExistsIsPresent DEF TypeOK
<1>2. kubeconfigCache[k].spec \in Spec
  BY <1>1 DEF Present
<1>3. QED
  BY <1>2

LEMMA WakeupImplies == TypeOK /\ WakeupInv => NoLostWakeup
<1> SUFFICES ASSUME TypeOK, WakeupInv, NEW k \in Kubeconfig, Alive(k), Quiet(k)
             PROVE  /\ Delivered(k)
                    /\ \A n \in Refs[kubeconfig[k].spec] : secret[n].exists
  BY DEF NoLostWakeup
<1>1. kubeconfigCache[k] = kubeconfig[k] /\ kubeconfig[k].exists /\ ~ kubeconfig[k].deleting
  BY DEF Alive, Quiet
<1>2. Calm(k)
  BY <1>1 DEF Quiet, Calm
<1>3. Settled(k)
  BY <1>2 DEF WakeupInv, CalmInv
<1>4. Delivered(k)
  BY <1>1, <1>3 DEF Settled, Holds, Delivered
<1>5. ASSUME NEW n \in Refs[kubeconfig[k].spec] PROVE secret[n].exists
  <2>1. n \in Name
    BY <1>1, CachedSpec
  <2>2. Provided(n)
    BY <1>1, <1>3 DEF Settled
  <2>3. n \notin comings /\ n \notin secretEvent
    BY DEF Quiet
  <2>4. QED
    BY <2>1, <2>2, <2>3 DEF Provided, WakeupInv, SecretInv
<1>6. QED
  BY <1>4, <1>5

LEMMA WakeupInit == Init => WakeupInv
<1> SUFFICES ASSUME Init PROVE WakeupInv
  OBVIOUS
<1>1. SecretInv
  BY DEF Init, SecretInv
<1>2. WorkerInv
  BY DEF Init, Idle, WorkerInv
<1>3. CalmInv
  BY DEF Init, CalmInv, Calm
<1>4. QED
  BY <1>1, <1>2, <1>3 DEF WakeupInv

\* A step's way with the secrets: it leaves them alone, or writes one.
Written ==
    \/ UNCHANGED <<secret, watches>>
    \/ \E n \in Name, new \in SecretObject : WriteSecret(n, new)

\* A write is reported to the secret's owner, and its coming or going to the
\* Kubeconfigs that reference it.
LEMMA WrittenIsReported ==
    ASSUME TypeOK, Written, NEW m \in Name
    PROVE  /\ comings \subseteq comings'
           /\ owners[m] \subseteq owners'[m]
           /\ secret[m].exists /\ ~ secret'[m].exists => m \in comings'
           /\ \A k \in Kubeconfig :
                secret[m].exists /\ secret[m].owner = k /\ k \notin owners'[m] =>
                  secret'[m] = secret[m]
<1>1. CASE UNCHANGED <<secret, watches>>
  BY <1>1 DEF watches
<1>2. ASSUME NEW n \in Name, NEW new \in SecretObject, WriteSecret(n, new)
      PROVE  /\ comings \subseteq comings'
             /\ owners[m] \subseteq owners'[m]
             /\ secret[m].exists /\ ~ secret'[m].exists => m \in comings'
             /\ \A k \in Kubeconfig :
                  secret[m].exists /\ secret[m].owner = k /\ k \notin owners'[m] =>
                    secret'[m] = secret[m]
  <2>1. /\ comings \subseteq comings'
        /\ new.exists # secret[n].exists => n \in comings'
    BY <1>2 DEF WriteSecret
  <2>2. secret'[m] = IF m = n THEN new ELSE secret[m]
    BY <1>2 DEF WriteSecret, TypeOK
  <2>3. secret[m].exists /\ ~ secret'[m].exists => m \in comings'
    BY <2>1, <2>2
  <2>4. owners'[m] = IF m = n /\ new # secret[n]
                     THEN owners[m] \cup OwnersOf(secret[m]) \cup OwnersOf(new)
                     ELSE owners[m]
    BY <1>2 DEF WriteSecret, TypeOK
  <2>5. ASSUME NEW k \in Kubeconfig, secret[m].exists, secret[m].owner = k, secret'[m] # secret[m]
        PROVE  k \in owners'[m]
    <3>1. k \in OwnersOf(secret[m])
      BY <2>5 DEF OwnersOf
    <3>2. m = n /\ new # secret[n]
      BY <2>2, <2>5
    <3>3. QED
      BY <2>4, <3>1, <3>2
  <2>6. QED
    BY <2>1, <2>3, <2>4, <2>5
<1>3. QED
  BY <1>1, <1>2 DEF Written

LEMMA WrittenSecretInv ==
    ASSUME TypeOK, SecretInv, Written, UNCHANGED secretCache
    PROVE  SecretInv'
BY WrittenIsReported DEF SecretInv

\* Who is calm after a write was served by the secret before, and still is.
LEMMA HoldsLasts ==
    ASSUME TypeOK, Written, NEW k \in Kubeconfig, NEW m \in Name, NEW obj,
           Holds(secret[m], k, obj), k \notin owners'[m]
    PROVE  Holds(secret'[m], k, obj)
<1>1. secret[m].exists /\ secret[m].owner = k
  BY DEF Holds
<1>2. secret'[m] = secret[m]
  BY <1>1, WrittenIsReported
<1>3. QED
  BY <1>2

\* A step that wakes whom it concerns keeps the calm ones settled.
LEMMA CalmKept ==
    ASSUME TypeOK, CalmInv, Written, NEW k \in Kubeconfig,
           Calm(k)', kubeconfigCache'[k] = kubeconfigCache[k],
           k \notin queue \cup backoff, worker.name # k,
           \A n \in Refs[kubeconfigCache[k].spec] : Provided(n) => Provided(n)'
    PROVE  Settled(k)'
<1> DEFINE obj == kubeconfigCache[k]
<1>1. obj.exists /\ ~ obj.deleting /\ k \notin owners'[SecretName[obj.spec]]
  BY DEF Calm
<1>2. SecretName[obj.spec] \in Name
  BY <1>1, CachedSpec
<1>3. k \notin owners[SecretName[obj.spec]]
  BY <1>1, <1>2, WrittenIsReported
<1>4. Settled(k)
  BY <1>1, <1>3 DEF Calm, CalmInv
<1>5. Holds(secret'[SecretName[obj.spec]], k, obj)
  BY <1>1, <1>2, <1>4, HoldsLasts DEF Settled
<1>6. \A n \in Refs[obj.spec] : Provided(n)'
  BY <1>4 DEF Settled
<1>7. QED
  BY <1>5, <1>6 DEF Settled

\* Steps that change neither what the controller knows nor what it has queued;
\* the worker may give up and leave its Kubeconfig to a retry.
LEMMA WakeupOutside ==
    ASSUME TypeOK, WakeupInv, Written,
           UNCHANGED <<kubeconfigCache, secretCache, secretEvent, queue>>,
           backoff \subseteq backoff',
           worker' = worker \/ (worker' = Idle /\ worker.name \in backoff')
    PROVE  WakeupInv'
<1>1. SecretInv'
  BY WrittenSecretInv DEF WakeupInv
<1>2. \A n : Provided(n)' <=> Provided(n)
  BY DEF Provided
<1>3. WorkerInv'
  BY <1>2 DEF WakeupInv, WorkerInv, Idle
<1>4. ASSUME NEW k \in Kubeconfig, Calm(k)' PROVE Settled(k)'
  <2>1. k \notin queue \cup backoff /\ worker.name # k
    BY <1>4 DEF Calm
  <2>2. QED
    BY <1>2, <1>4, <2>1, CalmKept DEF WakeupInv
<1>5. QED
  BY <1>1, <1>3, <1>4 DEF WakeupInv, CalmInv

LEMMA WakeupDeliver == TypeOK /\ WakeupInv /\ Deliver => WakeupInv'
<1> SUFFICES ASSUME TypeOK, WakeupInv, Deliver PROVE WakeupInv'
  OBVIOUS
<1> SecretInv /\ WorkerInv /\ CalmInv
  BY DEF WakeupInv
<1>1. ASSUME NEW c \in Kubeconfig, SyncKubeconfig(c) PROVE WakeupInv'
  <2>1. /\ UNCHANGED <<secret, watches, secretCache, secretEvent, backoff, worker>>
        /\ queue' = queue \cup {c}
        /\ \A k \in Kubeconfig \ {c} : kubeconfigCache'[k] = kubeconfigCache[k]
    BY <1>1 DEF SyncKubeconfig, store, TypeOK
  <2>2. SecretInv' /\ \A n : Provided(n)' <=> Provided(n)
    BY <2>1 DEF SecretInv, Provided, watches
  <2>3. WorkerInv'
    <3>1. worker.pc = "resolve" => worker.name \in Kubeconfig
      BY WorkerType DEF Active
    <3>2. QED
      BY <2>1, <2>2, <3>1 DEF WorkerInv
  <2>4. ASSUME NEW k \in Kubeconfig, Calm(k)' PROVE Settled(k)'
    <3>1. k # c /\ k \notin queue \cup backoff /\ worker.name # k
      BY <2>1, <2>4 DEF Calm
    <3>2. Written
      BY <2>1 DEF Written
    <3>3. QED
      BY <2>1, <2>2, <2>4, <3>1, <3>2, CalmKept
  <2>5. QED
    BY <2>2, <2>3, <2>4 DEF WakeupInv, CalmInv
<1>2. ASSUME NEW n \in Name, SyncSecret(n) PROVE WakeupInv'
  <2>1. /\ UNCHANGED <<secret, kubeconfigCache, backoff, worker>>
        /\ \A m \in Name : secretCache'[m] = IF m = n THEN secret[m] ELSE secretCache[m]
        /\ \A m \in Name : owners'[m] = IF m = n THEN {} ELSE owners[m]
        /\ queue' = queue \cup owners[n]
        /\ comings' = comings \ {n}
        /\ secretEvent' = secretEvent \cup (comings \cap {n})
    BY <1>2 DEF SyncSecret, store, TypeOK
  <2>2. SecretInv'
    BY <2>1 DEF SecretInv
  <2>3. \A m \in Name : Provided(m) => Provided(m)'
    BY <2>1 DEF Provided, SecretInv
  <2>4. WorkerInv'
    <3>1. worker.pc = "resolve" => Refs[worker.obj.spec] \subseteq Name
      BY WorkerType DEF Active, Present
    <3>2. QED
      BY <2>1, <2>3, <3>1 DEF WorkerInv
  <2>5. ASSUME NEW k \in Kubeconfig, Calm(k)' PROVE Settled(k)'
    <3> DEFINE obj == kubeconfigCache[k]
    <3>1. /\ obj.exists /\ ~ obj.deleting
          /\ k \notin owners'[SecretName[obj.spec]]
          /\ k \notin queue \cup backoff /\ k \notin owners[n] /\ worker.name # k
      BY <2>1, <2>5 DEF Calm
    <3>2. SecretName[obj.spec] \in Name /\ Refs[obj.spec] \subseteq Name
      BY <3>1, CachedSpec
    <3>3. k \notin owners[SecretName[obj.spec]]
      BY <2>1, <3>1, <3>2
    <3>4. Settled(k)
      BY <3>1, <3>3 DEF Calm, CalmInv
    <3>5. QED
      BY <2>1, <2>3, <3>2, <3>4 DEF Settled
  <2>6. QED
    BY <2>2, <2>4, <2>5 DEF WakeupInv, CalmInv
<1>3. ASSUME NEW n \in Name, HandleSecretEvent(n) PROVE WakeupInv'
  <2>1. /\ UNCHANGED <<secret, watches, kubeconfigCache, secretCache, backoff, worker>>
        /\ secretEvent' = secretEvent \ {n}
        /\ queue' = queue \cup {k \in Kubeconfig : /\ kubeconfigCache[k].exists
                                                   /\ n \in Refs[kubeconfigCache[k].spec]}
    BY <1>3 DEF HandleSecretEvent, store, caches
  <2>2. SecretInv' /\ \A m : m # n => (Provided(m)' <=> Provided(m))
    BY <2>1 DEF SecretInv, Provided, watches
  <2>3. WorkerInv'
    <3>1. worker.pc = "resolve" => worker.name \in Kubeconfig /\ worker.obj.exists
      BY WorkerType DEF Active, Present
    <3>2. QED
      BY <2>1, <2>2, <3>1 DEF WorkerInv
  <2>4. ASSUME NEW k \in Kubeconfig, Calm(k)' PROVE Settled(k)'
    <3>1. k \notin queue \cup backoff /\ worker.name # k /\ kubeconfigCache[k].exists
      BY <2>1, <2>4 DEF Calm
    <3>2. n \notin Refs[kubeconfigCache[k].spec]
      BY <2>1, <2>4, <3>1 DEF Calm
    <3>3. Written
      BY <2>1 DEF Written
    <3>4. \A m \in Refs[kubeconfigCache[k].spec] : Provided(m) => Provided(m)'
      BY <2>2, <3>2
    <3>5. QED
      BY <2>1, <2>4, <3>1, <3>3, <3>4, CalmKept
  <2>5. QED
    BY <2>2, <2>3, <2>4 DEF WakeupInv, CalmInv
<1>4. ASSUME UNCHANGED <<secret, watches, caches, secretEvent, worker>>,
             queue \cup backoff \subseteq queue' \cup backoff', queue \subseteq queue'
      PROVE  WakeupInv'
  <2>1. SecretInv' /\ \A m : Provided(m)' <=> Provided(m)
    BY <1>4 DEF SecretInv, Provided, watches, caches
  <2>2. WorkerInv'
    BY <1>4, <2>1 DEF WorkerInv, caches
  <2>3. ASSUME NEW k \in Kubeconfig, Calm(k)' PROVE Settled(k)'
    <3>1. k \notin queue \cup backoff /\ worker.name # k
      BY <1>4, <2>3 DEF Calm
    <3>2. Written /\ kubeconfigCache' = kubeconfigCache
      BY <1>4 DEF Written, caches
    <3>3. QED
      BY <2>1, <2>3, <3>1, <3>2, CalmKept
  <2>4. QED
    BY <2>1, <2>2, <2>3 DEF WakeupInv, CalmInv
<1>5. ASSUME NEW k \in Kubeconfig, Requeue(k) PROVE WakeupInv'
  BY <1>4, <1>5 DEF Requeue, store
<1>6. CASE Resync
  BY <1>4, <1>6 DEF Resync, store
<1>7. QED
  BY <1>1, <1>2, <1>3, <1>5, <1>6 DEF Deliver

\* A worker starts on what the cache holds.
LEMMA WakeupStart == ASSUME TypeOK, WakeupInv, NEW c \in Kubeconfig, Start(c) PROVE WakeupInv'
<1>1. /\ UNCHANGED <<secret, watches, kubeconfigCache, secretCache, secretEvent, backoff>>
      /\ queue' = queue \ {c}
      /\ worker = Idle
  BY DEF Start, store, caches
<1>2. SecretInv' /\ \A m : Provided(m)' <=> Provided(m)
  BY <1>1 DEF WakeupInv, SecretInv, Provided, watches
<1>3. CASE kubeconfigCache[c].exists /\ ~ kubeconfigCache[c].deleting
  <2>1. worker' = [pc |-> "resolve", name |-> c, obj |-> kubeconfigCache[c], read |-> NoContent]
    BY <1>3 DEF Start
  <2>2. WorkerInv'
    <3>1. /\ worker'.name = c /\ worker'.obj = kubeconfigCache'[c]
          /\ \A n \in Name : worker'.read[n] = Absent
      BY <1>1, <2>1 DEF NoContent
    <3>2. Refs[kubeconfigCache[c].spec] \subseteq Name
      BY <1>3, CachedSpec
    <3>3. QED
      BY <1>1, <3>1, <3>2 DEF WorkerInv
  <2>3. ASSUME NEW k \in Kubeconfig, Calm(k)' PROVE Settled(k)'
    <3>1. k # c /\ k \notin queue \cup backoff /\ worker.name # k
      BY <1>1, <2>1, <2>3 DEF Calm, Idle
    <3>2. Written
      BY <1>1 DEF Written
    <3>3. QED
      BY <1>1, <1>2, <2>3, <3>1, <3>2, CalmKept DEF WakeupInv
  <2>4. QED
    BY <1>2, <2>2, <2>3 DEF WakeupInv, CalmInv
<1>4. CASE ~ (kubeconfigCache[c].exists /\ ~ kubeconfigCache[c].deleting)
  <2>1. worker' = Idle
    BY <1>1, <1>4 DEF Start
  <2>2. WorkerInv'
    BY <2>1 DEF WorkerInv, Idle
  <2>3. ASSUME NEW k \in Kubeconfig, Calm(k)' PROVE Settled(k)'
    <3>1. k # c
      BY <1>1, <1>4, <2>3 DEF Calm
    <3>2. k \notin queue \cup backoff /\ worker.name # k
      BY <1>1, <2>1, <2>3, <3>1 DEF Calm
    <3>3. Written
      BY <1>1 DEF Written
    <3>4. QED
      BY <1>1, <1>2, <2>3, <3>2, <3>3, CalmKept DEF WakeupInv
  <2>4. QED
    BY <1>2, <2>2, <2>3 DEF WakeupInv, CalmInv
<1>5. QED
  BY <1>3, <1>4

LEMMA WakeupRead == ASSUME TypeOK, WakeupInv, NEW n \in Name, ReadSecret(n) PROVE WakeupInv'
<1>1. worker \in Active /\ secretCache[n].exists
  BY WorkerType DEF ReadSecret, Usable
<1>2. /\ UNCHANGED <<secret, watches, kubeconfigCache, secretCache, secretEvent, queue, backoff>>
      /\ worker' = [worker EXCEPT !.read[n] = secretCache[n].data]
  BY DEF ReadSecret, store, caches
<1>3. SecretInv' /\ \A m : Provided(m)' <=> Provided(m)
  BY <1>2 DEF WakeupInv, SecretInv, Provided, watches
<1>4. /\ worker'.pc = worker.pc /\ worker'.name = worker.name /\ worker'.obj = worker.obj
      /\ \A m \in Name : m # n => worker'.read[m] = worker.read[m]
  BY <1>1, <1>2 DEF Active, Content
<1>5. Refs[worker.obj.spec] \subseteq Name
  BY <1>1 DEF Active, Present
<1>6. WorkerInv'
  BY <1>1, <1>2, <1>3, <1>4, <1>5 DEF WakeupInv, WorkerInv, Provided
<1>7. ASSUME NEW k \in Kubeconfig, Calm(k)' PROVE Settled(k)'
  <2>1. k \notin queue \cup backoff /\ worker.name # k
    BY <1>2, <1>4, <1>7 DEF Calm
  <2>2. Written
    BY <1>2 DEF Written
  <2>3. QED
    BY <1>2, <1>3, <1>7, <2>1, <2>2, CalmKept DEF WakeupInv
<1>8. QED
  BY <1>3, <1>6, <1>7 DEF WakeupInv, CalmInv

\* The worker that ends well leaves its own Kubeconfig settled, if nothing has
\* queued it since; the Kubeconfig it took the secret from is woken.
LEMMA WakeupApply == TypeOK /\ WakeupInv /\ ApplySucceeds => WakeupInv'
<1> SUFFICES ASSUME TypeOK, WakeupInv, ApplySucceeds PROVE WakeupInv'
  OBVIOUS
<1> DEFINE s == SecretName[worker.obj.spec]
<1>1. worker \in Active /\ worker.pc = "resolve" /\ Unread(worker) = {}
  BY WorkerType DEF ApplySucceeds, ReadyToApply
<1>2. /\ UNCHANGED <<kubeconfigCache, secretCache, secretEvent, queue, backoff>>
      /\ worker' = Idle
      /\ s \in Name /\ Applied(worker) \in SecretObject
      /\ WriteSecret(s, Applied(worker))
  BY <1>1, AppliedType DEF ApplySucceeds, Apply, caches
<1>3. Written
  BY <1>2 DEF Written
<1>4. SecretInv' /\ \A m : Provided(m)' <=> Provided(m)
  BY <1>2, <1>3, WrittenSecretInv DEF WakeupInv, Provided
<1>5. WorkerInv'
  BY <1>2 DEF WorkerInv, Idle
<1>6. ASSUME NEW k \in Kubeconfig, Calm(k)' PROVE Settled(k)'
  <2>1. k \notin queue \cup backoff
    BY <1>2, <1>6 DEF Calm
  <2>2. CASE worker.name # k
    BY <1>2, <1>3, <1>4, <1>6, <2>1, <2>2, CalmKept DEF WakeupInv
  <2>3. CASE worker.name = k
    <3>1. /\ worker.obj = kubeconfigCache[k]
          /\ \A n \in Refs[worker.obj.spec] : worker.read[n] # Absent => Provided(n)
      BY <1>1, <2>1, <2>3 DEF WakeupInv, WorkerInv
    <3>2. \A n \in Refs[worker.obj.spec] : Provided(n)'
      BY <1>1, <1>4, <3>1 DEF Unread
    <3>3. secret'[s] = Applied(worker)
      BY <1>2 DEF WriteSecret, TypeOK
    <3>4. [spec |-> worker.obj.spec, read |-> worker.read] \in Config
      BY <1>1 DEF Active, Present, Config
    <3>5. Holds(Applied(worker), k, worker.obj)
      BY <2>3, <3>4, NoRendering DEF Applied, Holds
    <3>6. kubeconfigCache'[k] = worker.obj
      BY <1>2, <3>1
    <3>7. QED
      BY <3>2, <3>3, <3>5, <3>6 DEF Settled
  <2>4. QED
    BY <2>2, <2>3
<1>7. QED
  BY <1>4, <1>5, <1>6 DEF WakeupInv, CalmInv

\* After a restart everything that exists is queued.
LEMMA WakeupCrash == TypeOK /\ WakeupInv /\ Crash => WakeupInv'
<1> SUFFICES ASSUME TypeOK, Crash PROVE WakeupInv'
  OBVIOUS
<1>1. SecretInv'
  BY DEF Crash, SecretInv, store
<1>2. WorkerInv'
  BY DEF Crash, Idle, WorkerInv
<1>3. CalmInv'
  BY DEF Crash, CalmInv, Calm
<1>4. QED
  BY <1>1, <1>2, <1>3 DEF WakeupInv

\* Users, the garbage collector and the requests of processes that are gone.
LEMMA WakeupOthers ==
    ASSUME TypeOK, WakeupInv, Environment \/ Collect \/ \E w \in late : LandLate(w)
    PROVE  WakeupInv'
<1>1. UNCHANGED <<kubeconfigCache, secretCache, secretEvent, queue, backoff, worker>>
  BY DEF Environment, Collect, CreateKubeconfig, EditSpec, DeleteKubeconfig, PutSecret,
         DeleteSecret, TakeKey, CollectGarbage, FinishDeletion, Change, LandLate, caches
<1>2. CASE UNCHANGED <<secret, watches>>
  BY <1>1, <1>2, WakeupOutside DEF Written
<1>3. ASSUME NEW n \in Name,
             PutSecret(n) \/ DeleteSecret(n) \/ TakeKey(n) \/ CollectGarbage(n)
      PROVE  Written
  <2>1. secret[n] \in SecretObject
    BY DEF TypeOK
  <2>2. [secret[n] EXCEPT !.exists = TRUE, !.config = Foreign] \in SecretObject
    BY <2>1 DEF SecretObject
  <2>3. \E new \in SecretObject : WriteSecret(n, new)
    BY <1>3, <2>2, AbsentTypes, UserSecretType
    DEF PutSecret, DeleteSecret, TakeKey, CollectGarbage
  <2>4. QED
    BY <2>3 DEF Written
<1>4. ASSUME NEW w \in late, Apply(w) PROVE Written
  <2>1. w \in Active
    BY DEF TypeOK
  <2>2. QED
    BY <1>4, <2>1, AppliedType DEF Apply, Written
<1>5. Written
  BY <1>2, <1>3, <1>4
  DEF Environment, Collect, CreateKubeconfig, EditSpec, DeleteKubeconfig, FinishDeletion,
      LandLate, Written
<1>6. QED
  BY <1>1, <1>5, WakeupOutside

LEMMA WakeupNext == TypeOK /\ WakeupInv /\ [Next]_vars => WakeupInv'
<1> SUFFICES ASSUME TypeOK, WakeupInv, [Next]_vars PROVE WakeupInv'
  OBVIOUS
<1>1. CASE UNCHANGED vars
  BY <1>1, WakeupOutside DEF vars, store, caches, Written
<1>2. ASSUME NEW k \in Kubeconfig, Start(k) PROVE WakeupInv'
  BY <1>2, WakeupStart
<1>3. ASSUME NEW n \in Name, ReadSecret(n) PROVE WakeupInv'
  BY <1>3, WakeupRead
<1>4. CASE ResolveFails \/ ApplyIsRefused
  BY <1>4, WakeupOutside DEF ResolveFails, ApplyIsRefused, Retry, store, caches, Written
<1>5. CASE ApplyFails
  <2>1. worker \in Active
    BY <1>5, WorkerType DEF ApplyFails, ReadyToApply
  <2>2. Written
    BY <1>5, <2>1, AppliedType DEF ApplyFails, Apply, Written
  <2>3. QED
    BY <1>5, <2>2, WakeupOutside DEF ApplyFails, Retry, caches
<1>6. QED
  BY <1>1, <1>2, <1>3, <1>4, <1>5, WakeupDeliver, WakeupApply, WakeupCrash, WakeupOthers
  DEF Next, Reconcile

\* No wake-up is lost: a live Kubeconfig that nothing will reconcile again is in
\* its secret as its spec says, and all it references exists, although one
\* informer brings the events of the secrets it reads and of the one it owns,
\* a second Kubeconfig may take the secret, and a request of a crashed process
\* may land late (SetupWithManager, enqueueReferencingKubeconfigs, reconcile).
THEOREM NoWakeupIsLost == ReconcilerSpec => []NoLostWakeup
<1>1. QED
  BY WakeupInit, WakeupNext, WakeupImplies, TypeCorrect, PTL DEF ReconcilerSpec

=====================================================================================
