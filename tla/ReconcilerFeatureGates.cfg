SPECIFICATION ResyncSpec
CONSTANTS
    api = api
    kcm = kcm
    scheduler = scheduler
    tls = tls
    token = token
    plain = plain
    withToken = withToken
    resized = resized
    relabelled = relabelled
    Server <- OneServer
    Kind <- OneKind
    KindOf <- OneKindOf
    Deployment <- OneDeployment
    DeploymentOf <- OneDeploymentOf
    Secret <- NoSecrets
    Data = {1}
    Absent = Absent
    Spec <- OneSpec
    NoSpec = NoSpec
    Refs <- NoRefs
    SelectorOf <- OneSelector
    Orders <- GatedOrder
    Health = {"Unknown", "up"}
    NoServer = NoServer
    Contested <- NoDeployments
    Foreign = Foreign
    MaxChanges = 1
    MaxFaults = 0
\* With no change left to come, settled controllers have nothing to do.
CHECK_DEADLOCK FALSE
PROPERTY DeploymentSettles
