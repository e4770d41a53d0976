SPECIFICATION ResyncSpec
CONSTANTS
    api = api
    kcm = kcm
    scheduler = scheduler
    tls = tls
    token = token
    plain = plain
    withToken = withToken
    resized = resized
    relabelled = relabelled
    Server <- OneServer
    Kind <- OneKind
    KindOf <- OneKindOf
    Deployment <- OneDeployment
    DeploymentOf <- OneDeploymentOf
    Secret <- OneSecret
    Data = {1, 2}
    Absent = Absent
    Spec <- OneSpec
    NoSpec = NoSpec
    Refs <- OneRefs
    SelectorOf <- OneSelector
    Orders <- OneOrder
    Health = {"Unknown", "up"}
    NoServer = NoServer
    Contested <- NoDeployments
    Foreign = Foreign
    MaxChanges = 2
    MaxFaults = 0
\* With no change left to come, settled controllers have nothing to do.
CHECK_DEADLOCK FALSE
PROPERTY RotationReachesDeployment
PROPERTY DeletionCompletes
PROPERTY NoOrphanStays
PROPERTY DeploymentSettles
