------------------------ MODULE KubeAPIServerResolver ------------------------
(***************************************************************************)
(* How the spec of a KubeAPIServer is turned into a Deployment:            *)
(* internal/kubeapiserver/kubeapiserver.go.                                *)
(***************************************************************************)
EXTENDS PodRendering

APIServerSpec ==
    [keySecret: SecretSelector, signingKeySecret: SecretSelector,
     secureServing: Optional(Secret), token: Optional(SecretSelector),
     clientCA: Optional(SecretSelector), etcdCA: Optional(SecretSelector),
     etcdKey: Optional(SecretSelector), anonymous: BOOLEAN,
     selector: Optional({UserSelector}), overlay: Overlay]

\* Mutant: the optional serving certificate is not checked for nil.
RequestsUnchecked(x) ==
    {x.keySecret.name, x.signingKeySecret.name, x.secureServing}
    \cup {ref.name : ref \in Given({x.etcdKey, x.etcdCA, x.token, x.clientCA})}

\* getRequests: a set, so a secret that serves twice is retrieved once.
Requests(x) ==
    {x.keySecret.name, x.signingKeySecret.name}
    \cup {ref.name : ref \in Given({x.etcdKey, x.etcdCA, x.token, x.clientCA})}
    \cup Given({x.secureServing})

Volumes(x) ==
    <<Volume("service-account-key", x.keySecret.name),
      Volume("service-account-skey", x.signingKeySecret.name)>>
    \o If(x.secureServing, Volume("tls", x.secureServing))
    \o If(x.token, Volume("token", x.token.name))
    \o If(x.clientCA, Volume("client-ca", x.clientCA.name))
    \o If(x.etcdCA, Volume("etcd-ca", x.etcdCA.name))
    \o If(x.etcdKey, Volume("etcd-key", x.etcdKey.name))

VolumeMounts(x) ==
    <<Mount("service-account-key", "service-account-key"),
      Mount("service-account-skey", "service-account-skey")>>
    \o If(x.secureServing, Mount("tls", "tls"))
    \o If(x.token, Mount("token", "token"))
    \o If(x.clientCA, Mount("client-ca", "client-ca"))
    \o If(x.etcdCA, Mount("etcd-ca", "etcd-ca"))
    \o If(x.etcdKey, Mount("etcd-key", "etcd-key"))

\* The keys of both service-account secrets and of the etcd key are fixed,
\* whatever key their selectors name.
Command(x) ==
    <<File("service-account-key-file", "service-account-key", "tls.key"),
      File("service-account-signing-key-file", "service-account-skey", "tls.key")>>
    \o If(x.secureServing, File("tls-cert-file", "tls", "tls.crt"))
    \o If(x.secureServing, File("tls-private-key-file", "tls", "tls.key"))
    \o If(x.token, File("token-auth-file", "token", StringOrDefault(x.token.key, "token.csv")))
    \o If(x.clientCA, File("client-ca-file", "client-ca", StringOrDefault(x.clientCA.key, "ca.crt")))
    \o If(x.etcdCA, File("etcd-cafile", "etcd-ca", StringOrDefault(x.etcdCA.key, "ca.crt")))
    \o If(x.etcdKey, File("etcd-certfile", "etcd-key", "tls.crt"))
    \o If(x.etcdKey, File("etcd-keyfile", "etcd-key", "tls.key"))

\* probeForPath: both probes send a token unless anonymous requests are allowed.
ProbeToken(x) == x.token # Nil /\ ~ x.anonymous

APIServerContainer(x) ==
    ApplyContainerOverlay(Container(Command(x), VolumeMounts(x), <<>>, FALSE), x.overlay)

\* Mutant: the environment takes another default key than the command line.
SidecarOtherDefault(x) ==
    ApplyContainerOverlay(
        Container(<<>>, <<>>, If(x.token, EnvVar("AUTH_TOKEN", x.token, "token")), ProbeToken(x)),
        x.overlay)

\* The overlay of the API server's container is applied to the sidecar as well.
APIServerSidecar(x) ==
    ApplyContainerOverlay(
        Container(<<>>, <<>>, If(x.token, EnvVar("AUTH_TOKEN", x.token, "token.csv")), ProbeToken(x)),
        x.overlay)

PodSpec(x) ==
    ApplyPodOverlay(Pod(<<APIServerContainer(x), APIServerSidecar(x)>>, Volumes(x)), x.overlay)

Resolved(x, store) == DeploymentOf(x, [app |-> "kubeapiserver"], PodSpec(x), store)

\* What the API types say each secret is for, and under which key it is looked
\* up: the reference the command line, mounts and volumes are compared with.
\* Of the etcd key, the selector is read as that of the private key.
Uses(x) ==
    UseOf("service-account-key-file", x.keySecret, "tls.key")
    \cup UseOf("service-account-signing-key-file", x.signingKeySecret, "tls.key")
    \cup (UNION {{Use("tls-cert-file", r, "tls.crt"), Use("tls-private-key-file", r, "tls.key")} :
                   r \in Given({x.secureServing})})
    \cup UseOf("token-auth-file", x.token, "token.csv")
    \cup UseOf("client-ca-file", x.clientCA, "ca.crt")
    \cup UseOf("etcd-cafile", x.etcdCA, "ca.crt")
    \cup {Use("etcd-certfile", ref.name, "tls.crt") : ref \in Given({x.etcdKey})}
    \cup UseOf("etcd-keyfile", x.etcdKey, "tls.key")

\* The uses whose key the resolver does not take from the selector.
KeyIgnored == {"service-account-key-file", "service-account-signing-key-file", "etcd-keyfile"}
==============================================================================
