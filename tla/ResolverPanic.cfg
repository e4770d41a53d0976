\* A controller manager may have its service-account or signing controller
\* configured without the secret, which is optional.
SPECIFICATION ResolverSpec

CONSTANTS
    s1 = s1
    s2 = s2
    userKey = userKey
    Nil = Nil
    Secret <- TwoSecrets
    Key <- OneKey
    Name <- UserNames
    Objects <- AllObjects
    Lacks <- MissingKeys

INVARIANT
    NeverPanics
