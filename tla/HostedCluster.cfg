SPECIFICATION OldFairSpec
CONSTANTS
    admin = admin
    kcm = kcm
    ca = ca
    out = out
    first = first
    plain = plain
    old = old
    new = new
    Kubeconfig <- OneKubeconfig
    ConfigSpec <- FirstSpec
    SecretName <- OutName
    ConfigRefs <- CaRefs
    NoConfig = NoConfig
    NoOwner = NoOwner
    Server <- OneServer
    Kind <- OneKind
    KindOf <- OneKindOf
    Deployment <- OneDeployment
    DeploymentOf <- OneDeploymentOf
    Spec <- OneSpec
    Refs <- OutRefs
    NoServer = NoServer
    Name <- Names
    Kept <- CaOnly
    Data <- Values
    Complete <- Values
    Absent = Absent
    NoSpec = NoSpec
    Foreign = Foreign
    MaxChanges = 1
\* With no change left to come, settled controllers have nothing to do.
CHECK_DEADLOCK FALSE
INVARIANT MountedConfigsComplete
INVARIANT NoLostWakeup
PROPERTY RotationReachesPods
PROPERTY ClusterSettles
