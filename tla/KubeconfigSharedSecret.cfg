SPECIFICATION FairSpec
CONSTANTS
    admin = admin
    viewer = viewer
    ca = ca
    out = out
    renamed = renamed
    first = first
    second = second
    old = old
    new = new
    empty = empty
    Kubeconfig <- TwoKubeconfigs
    Name <- OutName
    Spec <- FirstSpec
    NoSpec = NoSpec
    SecretName <- SharedName
    Refs <- NoReferences
    Data <- NoNames
    Complete <- NoNames
    Absent = Absent
    NoOwner = NoOwner
    NoConfig = NoConfig
    Foreign = Foreign
    Kept <- NoNames
    Contested <- NoNames
    MaxChanges = 0
    MaxFaults = 0
\* With no change left to come, a settled controller has nothing to do.
CHECK_DEADLOCK FALSE
PROPERTY SecretSettles
