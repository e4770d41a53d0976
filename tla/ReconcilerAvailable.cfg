SPECIFICATION FairSpec
CONSTANTS
    api = api
    kcm = kcm
    scheduler = scheduler
    tls = tls
    token = token
    plain = plain
    withToken = withToken
    resized = resized
    relabelled = relabelled
    Server <- OneServer
    Kind <- OneKind
    KindOf <- OneKindOf
    Deployment <- OneDeployment
    DeploymentOf <- OneDeploymentOf
    Secret <- OneSecret
    Data = {1}
    Absent = Absent
    Spec <- OneSpec
    NoSpec = NoSpec
    Refs <- OneRefs
    SelectorOf <- OneSelector
    Orders <- OneOrder
    Health = {"Unknown", "up"}
    NoServer = NoServer
    Contested <- OneDeployment
    Foreign = Foreign
    MaxChanges = 3
    MaxFaults = 0
\* With no change left to come, settled controllers have nothing to do.
CHECK_DEADLOCK FALSE
PROPERTY AvailableReportsOwnDeployment
