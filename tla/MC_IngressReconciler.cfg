\* Safety under transient failures and crashes.
CONSTANTS
    h1 = h1
    h2 = h2
    b1 = b1
    b2 = b2
    c1 = c1
    c2 = c2
    Dummy = Dummy
    None = None
    SvcVersions = {v1}
    NoNodePort = NoNodePort
    BadHealthCheck = BadHealthCheck
    Hosts = {h1, h2, e}
    EmptyHost = e
    BackendSets = {b1, b2}
    Certs = {c1, c2}
    BadSecret = BadSecret
    ForceHTTPSRedirectionByDefault = FALSE
    Ingresses <- MCSafetyIngresses
    MaxEdits = 2
    MaxFailures = 1
    MaxCrashes = 1
    MaxThrottles = 1
    AllowDelete = TRUE
    MaxSvcEdits = 0
INIT Init
NEXT Next
INVARIANTS TypeOK ConvergedOnSuccess
\* With the ingress deleted and the edit budget spent, the controller waits
\* for events that never come: an idle worker, not a deadlock.
CHECK_DEADLOCK FALSE
