SPECIFICATION ResyncSpec
CONSTANTS
    admin = admin
    viewer = viewer
    ca = ca
    out = out
    renamed = renamed
    first = first
    second = second
    old = old
    new = new
    empty = empty
    Kubeconfig <- OneKubeconfig
    Name <- Names
    Spec <- Specs
    NoSpec = NoSpec
    SecretName <- SecretNames
    Refs <- RefsOfSpecs
    Data <- Contents
    Complete <- CompleteContents
    Absent = Absent
    NoOwner = NoOwner
    NoConfig = NoConfig
    Foreign = Foreign
    Kept <- CaOnly
    Contested <- OutOnly
    MaxChanges = 2
    MaxFaults = 1
\* With no change left to come, a settled controller has nothing to do.
CHECK_DEADLOCK FALSE
INVARIANT TypeOK
INVARIANT ConfigComplete
INVARIANT NoLostWakeup
PROPERTY RotationReachesSecret
PROPERTY NoOrphanStays
