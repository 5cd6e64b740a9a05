\* An edit that changes a routing policy: Run(Update, "routingpolicy") and
\* Run(Update) both execute its update action.
CONSTANTS
    h1 = h1
    h2 = h2
    b1 = b1
    b2 = b2
    c1 = c1
    c2 = c2
    Dummy = Dummy
    None = None
    SvcVersions = {v1}
    NoNodePort = NoNodePort
    BadHealthCheck = BadHealthCheck
    Hosts = {h1, h2, e}
    EmptyHost = e
    BackendSets = {b1, b2}
    Certs = {c1, c2}
    BadSecret = BadSecret
    ForceHTTPSRedirectionByDefault = FALSE
    Ingresses <- MCIngresses
    MaxEdits = 1
    MaxFailures = 0
    MaxCrashes = 0
    MaxThrottles = 0
    AllowDelete = TRUE
    MaxSvcEdits = 0
INIT Init
NEXT Next
INVARIANTS ActionsRunAtMostOnce
CHECK_DEADLOCK FALSE
