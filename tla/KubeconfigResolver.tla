------------------------- MODULE KubeconfigResolver -------------------------
(***************************************************************************)
(* How the spec of a Kubeconfig is turned into a client config:            *)
(* internal/kubeconfig/kubeconfig.go.  A credential is known by where it   *)
(* is read: a secret and one of its keys.  What only passes through        *)
(* (addresses, user names, contexts) is left out.                          *)
(***************************************************************************)
EXTENDS PodRendering

AuthInfo ==
    [clientCertificate: Optional(SecretSelector), clientKey: Optional(SecretSelector),
     token: Optional(SecretSelector), password: Optional(SecretSelector)]

KubeconfigSpec == [users: Seq(AuthInfo), clusters: Seq([ca: Optional(SecretSelector)])]

AuthInfoRequests(a) ==
    {ref.name : ref \in Given({a.clientCertificate, a.clientKey, a.token, a.password})}

\* Mutant: only the first user's secrets are retrieved.
RequestsOfFirstUser(x) ==
    (IF x.users = <<>> THEN {} ELSE AuthInfoRequests(Head(x.users)))
    \cup UNION {{ref.name : ref \in Given({c.ca})} : c \in Items(x.clusters)}

\* getRequests
Requests(x) ==
    (UNION {AuthInfoRequests(a) : a \in Items(x.users)})
    \cup (UNION {{ref.name : ref \in Given({c.ca})} : c \in Items(x.clusters)})

\* GetSecretSelector: no data if no secret is given.
Credential(sel, default) ==
    IF sel = Nil THEN Nil ELSE [secret |-> sel.name, key |-> StringOrDefault(sel.key, default)]

ResolvedAuthInfo(a) ==
    [clientCertificate |-> Credential(a.clientCertificate, "tls.crt"),
     clientKey         |-> Credential(a.clientKey, "tls.key"),
     token             |-> Credential(a.token, "token"),
     password          |-> Credential(a.password, "password")]

\* Mutant: another key is the default of the authority.
ClusterOtherDefault(c) == [ca |-> Credential(c.ca, "tls.crt")]

ResolvedCluster(c) == [ca |-> Credential(c.ca, "ca.crt")]

CredentialType == [secret: Secret, key: AnyKey]
ClientConfig ==
    [users: Seq([clientCertificate: Optional(CredentialType), clientKey: Optional(CredentialType),
                 token: Optional(CredentialType), password: Optional(CredentialType)]),
     clusters: Seq([ca: Optional(CredentialType)])]

\* config: users and clusters in the order of the spec.
ResolvedConfig(x) ==
    [users    |-> [i \in DOMAIN x.users |-> ResolvedAuthInfo(x.users[i])],
     clusters |-> [i \in DOMAIN x.clusters |-> ResolvedCluster(x.clusters[i])]]

Credentials(config) ==
    Given((UNION {{u.clientCertificate, u.clientKey, u.token, u.password} : u \in Items(config.users)})
          \cup {c.ca : c \in Items(config.clusters)})
=============================================================================
