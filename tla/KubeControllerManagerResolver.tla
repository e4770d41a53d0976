-------------------- MODULE KubeControllerManagerResolver --------------------
(***************************************************************************)
(* How the spec of a KubeControllerManager is turned into a Deployment:    *)
(* internal/kubecontrollermanager/kubecontrollermanager.go.                *)
(***************************************************************************)
EXTENDS PodRendering

\* A configured controller is one whose pointer is not nil.
ServiceAccountController ==
    [configured: {TRUE}, privateKey: Optional(SecretSelector), rootCA: Optional(SecretSelector)]
    \cup [configured: {FALSE}, privateKey: {Nil}, rootCA: {Nil}]
CSRSigningController ==
    [configured: {TRUE}, clusterSigning: Optional(Secret)]
    \cup [configured: {FALSE}, clusterSigning: {Nil}]

ControllerManagerSpec ==
    [kubeconfig: SecretSelector, serviceAccount: ServiceAccountController,
     csrSigning: CSRSigningController, authentication: Optional(SecretSelector),
     authorization: Optional(SecretSelector),
     selector: Optional({UserSelector}), overlay: Overlay]


\* getRequests dereferences both pointers when their controller is configured,
\* while everything after it treats them as optional.
NilDereference(x) ==
    \/ x.serviceAccount.configured /\ x.serviceAccount.privateKey = Nil
    \/ x.csrSigning.configured /\ x.csrSigning.clusterSigning = Nil

Requests(x) ==
    {x.kubeconfig.name}
    \cup {ref.name : ref \in Given({x.serviceAccount.privateKey, x.serviceAccount.rootCA,
                                    x.authentication, x.authorization})}
    \cup Given({x.csrSigning.clusterSigning})

Volumes(x) ==
    <<Volume("kubeconfig", x.kubeconfig.name)>>
    \o If(x.serviceAccount.privateKey,
          Volume("service-account-private-key", x.serviceAccount.privateKey.name))
    \o If(x.serviceAccount.rootCA, Volume("service-account-root-ca", x.serviceAccount.rootCA.name))
    \o If(x.csrSigning.clusterSigning, Volume("cluster-signing", x.csrSigning.clusterSigning))
    \o If(x.authentication, Volume("authentication-kubeconfig", x.authentication.name))
    \o If(x.authorization, Volume("authorization-kubeconfig", x.authorization.name))

VolumeMounts(x) ==
    <<Mount("kubeconfig", "kubeconfig")>>
    \o If(x.serviceAccount.privateKey,
          Mount("service-account-private-key", "service-account-private-key"))
    \o If(x.serviceAccount.rootCA, Mount("service-account-root-ca", "service-account-root-ca"))
    \o If(x.csrSigning.clusterSigning, Mount("cluster-signing", "cluster-signing"))
    \o If(x.authentication, Mount("authentication-kubeconfig", "authentication-kubeconfig"))
    \o If(x.authorization, Mount("authorization-kubeconfig", "authorization-kubeconfig"))

Command(x) ==
    <<File("kubeconfig", "kubeconfig", StringOrDefault(x.kubeconfig.key, "kubeconfig"))>>
    \o If(x.serviceAccount.privateKey,
          File("service-account-private-key-file", "service-account-private-key",
               StringOrDefault(x.serviceAccount.privateKey.key, "tls.key")))
    \o If(x.serviceAccount.rootCA,
          File("root-ca-file", "service-account-root-ca",
               StringOrDefault(x.serviceAccount.rootCA.key, "tls.crt")))
    \o If(x.csrSigning.clusterSigning, File("cluster-signing-cert-file", "cluster-signing", "ca.crt"))
    \o If(x.csrSigning.clusterSigning, File("cluster-signing-key-file", "cluster-signing", "tls.key"))
    \o If(x.authentication,
          File("authentication-kubeconfig", "authentication-kubeconfig",
               StringOrDefault(x.authentication.key, "kubeconfig")))
    \o If(x.authorization,
          File("authorization-kubeconfig", "authorization-kubeconfig",
               StringOrDefault(x.authorization.key, "kubeconfig")))

PodSpec(x) ==
    ApplyPodOverlay(
        Pod(<<ApplyContainerOverlay(Container(Command(x), VolumeMounts(x), <<>>, FALSE), x.overlay)>>,
            Volumes(x)), x.overlay)

Resolved(x, store) == DeploymentOf(x, [app |-> "kubecontrollermanager"], PodSpec(x), store)

\* What the API types say each secret is for (the reference).
Uses(x) ==
    UseOf("kubeconfig", x.kubeconfig, "kubeconfig")
    \cup UseOf("service-account-private-key-file", x.serviceAccount.privateKey, "tls.key")
    \cup UseOf("root-ca-file", x.serviceAccount.rootCA, "tls.crt")
    \cup (UNION {{Use("cluster-signing-cert-file", r, "ca.crt"),
                  Use("cluster-signing-key-file", r, "tls.key")} : r \in Given({x.csrSigning.clusterSigning})})
    \cup UseOf("authentication-kubeconfig", x.authentication, "kubeconfig")
    \cup UseOf("authorization-kubeconfig", x.authorization, "kubeconfig")
==============================================================================
