SPECIFICATION ReconcilerSpec
CONSTANTS
    api = api
    kcm = kcm
    scheduler = scheduler
    tls = tls
    token = token
    plain = plain
    withToken = withToken
    resized = resized
    relabelled = relabelled
    Server <- TwoServers
    Kind <- TwoKinds
    KindOf <- TwoKindOf
    Deployment <- OneDeployment
    DeploymentOf <- SharedDeploymentOf
    Secret <- NoSecrets
    Data = {1}
    Absent = Absent
    Spec <- OneSpec
    NoSpec = NoSpec
    Refs <- NoRefs
    SelectorOf <- OneSelector
    Orders <- OneOrder
    Health = {"Unknown", "up"}
    NoServer = NoServer
    Contested <- NoDeployments
    Foreign = Foreign
    MaxChanges = 1
    MaxFaults = 0
\* With no change left to come, settled controllers have nothing to do.
CHECK_DEADLOCK FALSE
INVARIANT NoLostWakeup
