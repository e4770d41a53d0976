------------------------ MODULE KubeSchedulerResolver ------------------------
(***************************************************************************)
(* How the spec of a KubeScheduler is turned into a Deployment:            *)
(* internal/kubescheduler/kubescheduler.go.                                *)
(***************************************************************************)
EXTENDS PodRendering

SchedulerSpec ==
    [kubeconfig: SecretSelector, authentication: Optional(SecretSelector),
     authorization: Optional(SecretSelector),
     selector: Optional({UserSelector}), overlay: Overlay]

\* Mutant: the secret for authorization is mounted but never requested.
RequestsWithoutAuthorization(x) ==
    {ref.name : ref \in Given({x.kubeconfig, x.authentication})}

Requests(x) == {ref.name : ref \in Given({x.kubeconfig, x.authentication, x.authorization})}

\* Mutant: the authorization volume is copied from the authentication volume.
VolumesCopied(x) ==
    <<Volume("kubeconfig", x.kubeconfig.name)>>
    \o If(x.authentication, Volume("authentication-kubeconfig", x.authentication.name))
    \o If(x.authorization, Volume("authorization-kubeconfig", x.kubeconfig.name))

Volumes(x) ==
    <<Volume("kubeconfig", x.kubeconfig.name)>>
    \o If(x.authentication, Volume("authentication-kubeconfig", x.authentication.name))
    \o If(x.authorization, Volume("authorization-kubeconfig", x.authorization.name))

VolumeMounts(x) ==
    <<Mount("kubeconfig", "kubeconfig")>>
    \o If(x.authentication, Mount("authentication-kubeconfig", "authentication-kubeconfig"))
    \o If(x.authorization, Mount("authorization-kubeconfig", "authorization-kubeconfig"))

Command(x) ==
    <<File("kubeconfig", "kubeconfig", StringOrDefault(x.kubeconfig.key, "kubeconfig"))>>
    \o If(x.authentication,
          File("authentication-kubeconfig", "authentication-kubeconfig",
               StringOrDefault(x.authentication.key, "kubeconfig")))
    \o If(x.authorization,
          File("authorization-kubeconfig", "authorization-kubeconfig",
               StringOrDefault(x.authorization.key, "kubeconfig")))

PodSpec(x) ==
    ApplyPodOverlay(
        Pod(<<ApplyContainerOverlay(Container(Command(x), VolumeMounts(x), <<>>, FALSE), x.overlay)>>,
            Volumes(x)), x.overlay)

Resolved(x, store) == DeploymentOf(x, [app |-> "kubescheduler"], PodSpec(x), store)

\* What the API types say each secret is for (the reference).
Uses(x) ==
    UseOf("kubeconfig", x.kubeconfig, "kubeconfig")
    \cup UseOf("authentication-kubeconfig", x.authentication, "kubeconfig")
    \cup UseOf("authorization-kubeconfig", x.authorization, "kubeconfig")
==============================================================================
