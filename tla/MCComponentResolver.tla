------------------------- MODULE MCComponentResolver -------------------------
(* An instance of ComponentResolver for TLC: two secrets, so that every two  *)
(* references of a spec can be confused, and a key of the user's choice.     *)
EXTENDS ComponentResolver

CONSTANTS s1, s2, userKey

TwoSecrets == {s1, s2}
OneKey == {userKey}
UserNames == {"user", "empty", "USER"}

Default(r) == [name |-> r, key |-> Nil]
Chosen(r) == [name |-> r, key |-> userKey]
Required == {Default(s1), Chosen(s2)}
Maybe == Required \cup {Nil}

NoOverlay ==
    [labels |-> <<>>, volumes |-> <<>>, mounts |-> <<>>, env |-> <<>>, envFrom |-> <<>>,
     containers |-> <<>>, initContainers |-> <<>>]

SecretVar(name, r) == [name |-> name, secret |-> r, key |-> "token.csv"]
Sidecar(mounts) ==
    [Container(<<>>, mounts, <<SecretVar("USER", s1)>>, FALSE) EXCEPT !.envFrom = <<s2>>]

\* The user's own label, volumes, mount, variables and containers.
OwnOverlay ==
    [labels |-> [app |-> "user", tier |-> "user"],
     volumes |-> <<Volume("user", s2), [name |-> "empty", secrets |-> {}]>>,
     mounts |-> <<Mount("user", "user")>>,
     env |-> <<[name |-> "USER", secret |-> Nil, key |-> Nil]>>, envFrom |-> <<s1>>,
     containers |-> <<Sidecar(<<Mount("user", "tls"), Mount("empty", "empty")>>)>>,
     initContainers |-> <<Sidecar(<<>>)>>]

\* A volume and a variable of names, and a mount at a path, that the resolvers
\* may use themselves, and a mount of a volume they may make.
Colliding ==
    {[NoOverlay EXCEPT !.volumes = <<Volume("token", s1)>>, !.env = <<SecretVar("AUTH_TOKEN", s1)>>],
     [NoOverlay EXCEPT !.mounts = <<Mount("token", "etcd-ca")>>],
     [NoOverlay EXCEPT !.volumes = <<Volume("authentication-kubeconfig", s1)>>,
                       !.mounts = <<Mount("authentication-kubeconfig", "authorization-kubeconfig")>>],
     [NoOverlay EXCEPT !.initContainers = <<Sidecar(<<Mount("authentication-kubeconfig", "user")>>)>>]}

Overlays == {NoOverlay, OwnOverlay}
Selectors == {Nil, UserSelector}

APIServers ==
    [keySecret: Required, signingKeySecret: Required, secureServing: {s1, s2, Nil}, token: Maybe,
     clientCA: Maybe, etcdCA: Maybe, etcdKey: Maybe, anonymous: BOOLEAN,
     selector: {Nil}, overlay: Overlays]
    \cup [keySecret: {Default(s1)}, signingKeySecret: {Chosen(s2)}, secureServing: {Nil}, token: Maybe,
          clientCA: {Nil}, etcdCA: Maybe, etcdKey: {Nil}, anonymous: BOOLEAN,
          selector: {Nil}, overlay: Colliding]

ControllerManagers ==
    [kubeconfig: Required,
     serviceAccount: {sa \in KCM!ServiceAccountController : {sa.privateKey, sa.rootCA} \subseteq Maybe},
     csrSigning: KCM!CSRSigningController, authentication: Maybe, authorization: Maybe,
     selector: Selectors, overlay: Overlays]

Schedulers ==
    [kubeconfig: Required, authentication: Maybe, authorization: Maybe,
     selector: Selectors, overlay: Overlays \cup Colliding]

\* Two users, the second with a token or a password only.
Kubeconfigs ==
    [users: {<<a, [clientCertificate |-> Nil, clientKey |-> Nil, token |-> t, password |-> p]>> :
               a \in [clientCertificate: Maybe, clientKey: Maybe, token: Maybe, password: {Nil}],
               t \in Maybe, p \in {Nil, Default(s2)}},
     clusters: {<<[ca |-> c], [ca |-> Default(s1)]>> : c \in Maybe}]

\* One secret has no default key of a token, the other not the user's key.
MissingKeys == {<<s1, "token">>, <<s2, userKey>>}

AllObjects ==
    [kind: {"KubeAPIServer"}, spec: APIServers]
    \cup [kind: {"KubeControllerManager"}, spec: ControllerManagers]
    \cup [kind: {"KubeScheduler"}, spec: Schedulers]
    \cup [kind: {"Kubeconfig"}, spec: Kubeconfigs]
==============================================================================
