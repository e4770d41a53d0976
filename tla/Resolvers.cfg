\* Every spec of the three components and of Kubeconfigs, over two secrets that come and go.
SPECIFICATION ResolverSpec

CONSTANTS
    s1 = s1
    s2 = s2
    userKey = userKey
    Nil = Nil
    Secret <- TwoSecrets
    Key <- OneKey
    Name <- UserNames
    Objects <- AllObjects
    Lacks <- MissingKeys

INVARIANTS
    TypeOK
    MountsResolve
    FilesMounted
    PodSecretsChecksummed
    SelectsOwnPods
    ProbeCanAuthenticate
    LookupsRetrieved
    ConfigHasCredentials
