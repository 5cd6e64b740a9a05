\* Removing a host together with the backend set only it used, with reliable
\* LB calls and no crashes.
CONSTANTS
    h1 = h1
    h2 = h2
    b1 = b1
    b2 = b2
    c1 = c1
    c2 = c2
    Dummy = Dummy
    None = None
    SvcVersions = {v1}
    NoNodePort = NoNodePort
    BadHealthCheck = BadHealthCheck
    Hosts = {h1, h2, e}
    EmptyHost = e
    BackendSets = {b1, b2}
    Certs = {c1, c2}
    BadSecret = BadSecret
    ForceHTTPSRedirectionByDefault = FALSE
    Ingresses <- MCHostRemovalIngresses
    MaxEdits = 1
    MaxFailures = 0
    MaxCrashes = 0
    MaxThrottles = 0
    AllowDelete = TRUE
    MaxSvcEdits = 0
SPECIFICATION Spec
PROPERTIES EventuallyConverged
CHECK_DEADLOCK FALSE
