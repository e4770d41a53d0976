SPECIFICATION ReconcilerSpec
CONSTANTS
    api = api
    kcm = kcm
    scheduler = scheduler
    tls = tls
    token = token
    plain = plain
    withToken = withToken
    resized = resized
    relabelled = relabelled
    Server <- OneServer
    Kind <- OneKind
    KindOf <- OneKindOf
    Deployment <- OneDeployment
    DeploymentOf <- OneDeploymentOf
    Secret <- OneSecret
    Data = {1}
    Absent = Absent
    Spec <- EditSpecs
    NoSpec = NoSpec
    Refs <- EditRefs
    SelectorOf <- EditSelectors
    Orders <- EditOrders
    Health = {"Unknown"}
    NoServer = NoServer
    Contested <- NoDeployments
    Foreign = Foreign
    MaxChanges = 2
    MaxFaults = 1
\* With no change left to come, settled controllers have nothing to do.
CHECK_DEADLOCK FALSE
INVARIANT NoLostWakeup
INVARIANT LieIsRepaired
SYMMETRY SameEdits
