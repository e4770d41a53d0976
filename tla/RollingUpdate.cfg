SPECIFICATION UpdateSpec
CONSTANTS
    api = api
    kcm = kcm
    scheduler = scheduler
    tls = tls
    token = token
    plain = plain
    withToken = withToken
    resized = resized
    relabelled = relabelled
    Server <- OneServer
    Kind <- OneKind
    KindOf <- OneKindOf
    Deployment <- OneDeployment
    DeploymentOf <- OneDeploymentOf
    Secret <- NoSecrets
    Data = {1}
    Absent = Absent
    Spec <- ResizeSpecs
    NoSpec = NoSpec
    Refs <- ResizeRefs
    SelectorOf <- ResizeSelectors
    Orders <- ResizeOrders
    Health = {"Unknown"}
    NoServer = NoServer
    Contested <- NoDeployments
    Foreign = Foreign
    None = None
    Others = Others
    MaxChanges = 1
    MaxFaults = 0
\* With no change left to come, settled controllers have nothing to do.
CHECK_DEADLOCK FALSE
INVARIANT UpdateNoLostWakeup
PROPERTY KeepsPromise
SYMMETRY SameSpecs
