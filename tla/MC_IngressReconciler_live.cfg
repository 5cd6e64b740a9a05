\* Convergence once the cluster stops changing, with reliable LB calls and
\* no crashes: the fairness of Spec is that of a running worker, a live LB
\* service and the periodic resync.
CONSTANTS
    h1 = h1
    h2 = h2
    b1 = b1
    b2 = b2
    c1 = c1
    c2 = c2
    Dummy = Dummy
    None = None
    SvcVersions = {v1, v2, NoNodePort, BadHealthCheck}
    NoNodePort = NoNodePort
    BadHealthCheck = BadHealthCheck
    Hosts = {h1, h2, e}
    EmptyHost = e
    BackendSets = {b1, b2}
    Certs = {c1, c2}
    BadSecret = BadSecret
    ForceHTTPSRedirectionByDefault = FALSE
    Ingresses <- MCIngresses
    MaxEdits = 2
    MaxFailures = 0
    MaxCrashes = 0
    MaxThrottles = 0
    AllowDelete = TRUE
    MaxSvcEdits = 1
SPECIFICATION Spec
PROPERTIES EventuallyConverged
\* Once the ingress is deleted and the edit budget is spent the controller
\* waits for events: an idle worker, not a deadlock.
CHECK_DEADLOCK FALSE
