-------------------------- MODULE ComponentResolver --------------------------
(***************************************************************************)
(* Resolver.Resolve of the three components and of a Kubeconfig, called    *)
(* again and again for one object: the referenced secrets are retrieved    *)
(* one by one while they come and go, then the Deployment or the client    *)
(* config is built from the spec.                                          *)
(***************************************************************************)
EXTENDS PodRendering

API == INSTANCE KubeAPIServerResolver
KCM == INSTANCE KubeControllerManagerResolver
KS  == INSTANCE KubeSchedulerResolver
KC  == INSTANCE KubeconfigResolver

CONSTANTS
    Objects,    \* the objects that are resolved: [kind, spec]
    Lacks       \* <<secret, key>>: keys that a secret does not have

ASSUME ObjectsAssumption ==
    \A o \in Objects :
        \/ o.kind = "KubeAPIServer" /\ o.spec \in API!APIServerSpec
        \/ o.kind = "KubeControllerManager" /\ o.spec \in KCM!ControllerManagerSpec
        \/ o.kind = "KubeScheduler" /\ o.spec \in KS!SchedulerSpec
        \/ o.kind = "Kubeconfig" /\ o.spec \in KC!KubeconfigSpec

\* Nor is Nil a credential, with a key of the user's choice or a default key.
ASSUME NoCredentialAssumption ==
    Nil \notin KC!CredentialType

VARIABLES
    object,     \* what is resolved
    exists,     \* the secrets that exist
    pc,         \* where Resolve is; "crashed": the process is gone
    pending,    \* requests not yet answered
    store,      \* the memorystore of retrieved secrets
    deployment, \* what the last successful Resolve returned
    config      \* ... of a Kubeconfig: the client config it was rendered to

vars == <<object, exists, pc, pending, store, deployment, config>>

NoDeployment == [selector |-> Nil, labels |-> <<>>, checksums |-> {},
                 pod |-> Pod(<<>>, <<>>)]
NoConfig == [users |-> <<>>, clusters |-> <<>>]

Requests(o) ==
    CASE o.kind = "KubeAPIServer"         -> API!Requests(o.spec)
      [] o.kind = "KubeControllerManager" -> KCM!Requests(o.spec)
      [] o.kind = "KubeScheduler"         -> KS!Requests(o.spec)
      [] o.kind = "Kubeconfig"            -> KC!Requests(o.spec)

Resolved(o, secrets) ==
    CASE o.kind = "KubeAPIServer"         -> API!Resolved(o.spec, secrets)
      [] o.kind = "KubeControllerManager" -> KCM!Resolved(o.spec, secrets)
      [] o.kind = "KubeScheduler"         -> KS!Resolved(o.spec, secrets)

Uses(o) ==
    CASE o.kind = "KubeAPIServer"         -> API!Uses(o.spec)
      [] o.kind = "KubeControllerManager" -> KCM!Uses(o.spec)
      [] o.kind = "KubeScheduler"         -> KS!Uses(o.spec)

Panics(o) == o.kind = "KubeControllerManager" /\ KCM!NilDereference(o.spec)

Init ==
    /\ object \in Objects
    /\ exists \in SUBSET Secret
    /\ pc = "idle"
    /\ pending = {}
    /\ store = {}
    /\ deployment = NoDeployment
    /\ config = NoConfig

\* getRequests
GetRequests ==
    /\ pc = "idle"
    /\ ~ Panics(object)
    /\ pc' = "retrieve"
    /\ pending' = Requests(object)
    /\ store' = {}
    /\ UNCHANGED <<object, exists, deployment, config>>

\* ... where a nil pointer ends the process: no recover is configured.
Panic ==
    /\ pc = "idle"
    /\ Panics(object)
    /\ pc' = "crashed"
    /\ UNCHANGED <<object, exists, pending, store, deployment, config>>

\* The manager is restarted, and its informers enqueue the object again.
Restart ==
    /\ pc = "crashed"
    /\ pc' = "idle"
    /\ UNCHANGED <<object, exists, pending, store, deployment, config>>

\* GetMultiple, then Create in the memorystore.
Retrieve(r) ==
    /\ pc = "retrieve"
    /\ r \in pending \cap exists
    /\ pending' = pending \ {r}
    /\ store' = store \cup {r}
    /\ UNCHANGED <<object, exists, pc, deployment, config>>

\* Resolve returns an error, and its caller is called again.
RetrieveFails ==
    /\ pc = "retrieve"
    /\ ~ pending \subseteq exists
    /\ pc' = "idle"
    /\ pending' = {}
    /\ store' = {}
    /\ UNCHANGED <<object, exists, deployment, config>>

\* Nothing is left to retrieve.
Retrieved == pc = "retrieve" /\ pending = {}

Return ==
    /\ pc' = "idle"
    /\ store' = {}
    /\ UNCHANGED <<object, exists, pending>>

Build ==
    /\ Retrieved
    /\ object.kind # "Kubeconfig"
    /\ deployment' = Resolved(object, store)
    /\ Return
    /\ UNCHANGED config

\* LookupSecretSelector, in the memorystore.
Has(credential) == credential.secret \in store /\ <<credential.secret, credential.key>> \notin Lacks

BuildConfig ==
    /\ Retrieved
    /\ object.kind = "Kubeconfig"
    /\ \A c \in KC!Credentials(KC!ResolvedConfig(object.spec)) : Has(c)
    /\ config' = KC!ResolvedConfig(object.spec)
    /\ Return
    /\ UNCHANGED deployment

\* A key is missing: no config at all, and its caller is called again.
LookupFails ==
    /\ Retrieved
    /\ object.kind = "Kubeconfig"
    /\ \E c \in KC!Credentials(KC!ResolvedConfig(object.spec)) : ~ Has(c)
    /\ Return
    /\ UNCHANGED <<deployment, config>>

\* Users create and delete secrets.
SetSecret(r) ==
    /\ exists' = IF r \in exists THEN exists \ {r} ELSE exists \cup {r}
    /\ UNCHANGED <<object, pc, pending, store, deployment, config>>

Next ==
    \/ GetRequests \/ Panic \/ Restart \/ RetrieveFails
    \/ Build \/ BuildConfig \/ LookupFails
    \/ \E r \in Secret : Retrieve(r) \/ SetSecret(r)

ResolverSpec == Init /\ [][Next]_vars

-----------------------------------------------------------------------------
(* Properties                                                              *)

\* Every variable has its type: the Deployment and the client config too, down
\* to the containers, volumes and credentials they are made of.
TypeOK ==
    /\ object \in Objects
    /\ exists \in SUBSET Secret
    /\ pc \in {"idle", "retrieve", "crashed"}
    /\ pending \in SUBSET Secret
    /\ store \in SUBSET Secret
    /\ deployment \in DeploymentType
    /\ config \in KC!ClientConfig

Resolves == deployment # NoDeployment
Containers == Items(deployment.pod.containers)
Volumes == Items(deployment.pod.volumes)

\* The user's part of a pod.
UserContainers(overlay) == Items(overlay.containers) \cup Items(overlay.initContainers)

\* The names of the volumes the resolver makes for an object; it mounts each at
\* the path that goes by the same name.
Generated(o) ==
    {v.name : v \in Items(CASE o.kind = "KubeAPIServer"         -> API!Volumes(o.spec)
                            [] o.kind = "KubeControllerManager" -> KCM!Volumes(o.spec)
                            [] o.kind = "KubeScheduler"         -> KS!Volumes(o.spec))}

DistinctNames(volumes) == \A i, j \in DOMAIN volumes : volumes[i].name = volumes[j].name => i = j
DistinctPaths(mounts) == \A i, j \in DOMAIN mounts : mounts[i].path = mounts[j].path => i = j

\* The volumes and mounts of a pod pass the validation of the API server.
Accepted(pod) ==
    /\ DistinctNames(pod.volumes)
    /\ \A c \in Items(pod.containers) \cup Items(pod.initContainers) :
          /\ DistinctPaths(c.mounts)
          /\ \A m \in Items(c.mounts) : \E v \in Items(pod.volumes) : v.name = m.name

\* An overlay that brings no volume twice and none of a generated name, mounts
\* nothing at a path twice or at a generated path, and nothing that is no volume.
OverlayFits(o) ==
    LET overlay == o.spec.overlay
        added == {v.name : v \in Items(overlay.volumes)}
    IN  /\ DistinctNames(overlay.volumes)
        /\ added \cap Generated(o) = {}
        /\ DistinctPaths(overlay.mounts)
        /\ {m.path : m \in Items(overlay.mounts)} \cap Generated(o) = {}
        /\ \A m \in Items(overlay.mounts) : m.name \in added \cup Generated(o)
        /\ \A c \in UserContainers(overlay) :
              /\ DistinctPaths(c.mounts)
              /\ \A m \in Items(c.mounts) : m.name \in added \cup Generated(o)

\* As far as volumes and mounts go, the Deployment is one the API server accepts
\* exactly if the overlay fits.  So what the resolver makes of the references is
\* never the reason for a refusal; and it appends the overlay unchecked, so one
\* that does not fit is always refused, at every reconcile (ApplyPodOverlay,
\* ApplyContainerOverlay, volumes, volumeMounts).
MountsResolve == Resolves => (Accepted(deployment.pod) <=> OverlayFits(object))

\* Where a container finds the files its command line names.
Found(c) ==
    UNION {{Use(f.flag, r, f.key) :
               r \in UNION {v.secrets : v \in {u \in Volumes :
                               \E m \in Items(c.mounts) : m.path = f.dir /\ m.name = u.name}}} :
           f \in Items(c.files)}

AllFound == UNION {Found(c) : c \in Containers}

\* A use as the command line states it: of three selectors the key is ignored.
AsRead(use) ==
    IF use.flag \in API!KeyIgnored THEN Use(use.flag, use.secret, "tls.key") ELSE use

\* Each file a command line names lies in the secret the spec gives for that
\* purpose, and no secret the spec gives is left unused: command line, mounts and
\* volumes, written apart, fit together.  The key is the one the selector names
\* or the default, as the API types say of every selector, except for the service
\* account keys and the etcd key: these are read from tls.key even if their
\* selectors name another (apiServerCommand).  An overlay that does not fit may
\* hide any of this.
FilesMounted ==
    Resolves /\ OverlayFits(object) => AllFound = {AsRead(u) : u \in Uses(object)}

\* The secrets in the environment of a container (or of an overlay for one).
EnvSecrets(c) == Given({e.secret : e \in Items(c.env)}) \cup Items(c.envFrom)

\* The secrets a pod depends on: what it can mount, and what is in the
\* environment of its containers.
PodSecrets ==
    (UNION {v.secrets : v \in Volumes})
    \cup (UNION {EnvSecrets(c) : c \in Containers \cup Items(deployment.pod.initContainers)})

\* Those of them that users bring in with the overlay.
OverlaySecrets(overlay) ==
    (UNION {v.secrets : v \in Items(overlay.volumes)})
    \cup EnvSecrets(overlay) \cup (UNION {EnvSecrets(c) : c \in UserContainers(overlay)})

\* The template has a checksum of every secret the spec references and of no
\* other, so a change of any of them rolls out new pods, and the watch on
\* secrets, which looks at the same requests, wakes the controller for them.  The
\* pods depend on these and on what the overlay brings in, and on nothing else:
\* only a secret that the overlay alone names has no checksum and no watch.
PodSecretsChecksummed ==
    Resolves =>
        /\ deployment.checksums = {u.secret : u \in Uses(object)}
        /\ PodSecrets = deployment.checksums \cup OverlaySecrets(object.spec.overlay)

\* Unless the user gives a selector, the Deployment selects its own pods, even
\* when the overlay has a label of the same key (MergeStringStringMaps).
SelectsOwnPods ==
    Resolves /\ object.spec.selector = Nil =>
        \A key \in DOMAIN deployment.selector :
            /\ key \in DOMAIN deployment.labels
            /\ deployment.labels[key] = deployment.selector[key]

\* A probe that sends the token of its environment has one there, from the very
\* file the API server next to it authenticates with (probeForPath, sidecar),
\* unless users set a variable of that name, or mount over the file, themselves.
ProbeCanAuthenticate ==
    Resolves /\ OverlayFits(object) /\ (\A e \in Items(object.spec.overlay.env) : e.name # "AUTH_TOKEN") =>
        \A c \in Containers : c.probeToken =>
            \E token \in Items(c.env) :
                /\ \A e \in Items(c.env) : e.name = "AUTH_TOKEN" <=> e = token
                /\ Use("token-auth-file", token.secret, token.key) \in AllFound

\* Whatever a Kubeconfig looks up a key in has been retrieved before: when all
\* its secrets are there, only a missing key can keep it from being rendered
\* (getRequests lists in one place what config reads in another).
LookupsRetrieved ==
    object.kind = "Kubeconfig" /\ Retrieved =>
        \A c \in KC!Credentials(KC!ResolvedConfig(object.spec)) : c.secret \in store

\* What the API types say of a selector: its key, or the default, of its secret.
ReadFrom(used, sel, default) ==
    IF sel = Nil THEN used = Nil
    ELSE /\ used = [secret |-> sel.name, key |-> StringOrDefault(sel.key, default)]
         /\ <<used.secret, used.key>> \notin Lacks

DefaultKeys ==
    [clientCertificate |-> "tls.crt", clientKey |-> "tls.key", token |-> "token", password |-> "password"]

\* A client config has the credentials of every user and the authority of every
\* cluster its Kubeconfig lists, in the same order and no others: each from the
\* secret its own selector names, under the key given there or the documented
\* default, and each key is really there (resolveAuthInfo, resolveCluster).
ConfigHasCredentials ==
    config # NoConfig =>
        /\ DOMAIN config.users = DOMAIN object.spec.users
        /\ DOMAIN config.clusters = DOMAIN object.spec.clusters
        /\ \A i \in DOMAIN object.spec.users : \A field \in DOMAIN DefaultKeys :
              ReadFrom(config.users[i][field], object.spec.users[i][field], DefaultKeys[field])
        /\ \A i \in DOMAIN object.spec.clusters :
              ReadFrom(config.clusters[i].ca, object.spec.clusters[i].ca, "ca.crt")

\* What the optional fields of the spec promise, and what everything after
\* getRequests provides for: a controller without its secret is resolved too.
NeverPanics == pc # "crashed"
==============================================================================
