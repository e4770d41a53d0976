SPECIFICATION ReconcilerSpec
CONSTANTS
    api = api
    kcm = kcm
    scheduler = scheduler
    tls = tls
    token = token
    plain = plain
    withToken = withToken
    resized = resized
    relabelled = relabelled
    Server <- OneServer
    Kind <- OneKind
    KindOf <- OneKindOf
    Deployment <- OneDeployment
    DeploymentOf <- OneDeploymentOf
    Secret <- BothSecrets
    Data = {1}
    Absent = Absent
    Spec <- TwoSpecs
    NoSpec = NoSpec
    Refs <- TwoRefs
    SelectorOf <- TwoSelectors
    Orders <- TwoOrders
    Health = {"Unknown", "up"}
    NoServer = NoServer
    Contested <- OneDeployment
    Foreign = Foreign
    MaxChanges = 2
    MaxFaults = 0
\* With no change left to come, settled controllers have nothing to do.
CHECK_DEADLOCK FALSE
INVARIANT TypeOK
INVARIANT StatusHonest
INVARIANT ChecksumsComplete
PROPERTY StatusOfCurrentGeneration
