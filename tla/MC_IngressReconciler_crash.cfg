\* Convergence after a process crash at any step of a reconcile, with
\* reliable LB calls; the ingress is edited but not deleted (a crash after a
\* delete is MC_DeleteLeak).
CONSTANTS
    h1 = h1
    h2 = h2
    b1 = b1
    b2 = b2
    c1 = c1
    c2 = c2
    Dummy = Dummy
    None = None
    SvcVersions = {v1, v2, NoNodePort}
    NoNodePort = NoNodePort
    BadHealthCheck = BadHealthCheck
    Hosts = {h1, h2, e}
    EmptyHost = e
    BackendSets = {b1, b2}
    Certs = {c1, c2}
    BadSecret = BadSecret
    ForceHTTPSRedirectionByDefault = FALSE
    Ingresses <- MCIngresses
    MaxEdits = 2
    MaxFailures = 0
    MaxCrashes = 1
    MaxThrottles = 0
    AllowDelete = FALSE
    MaxSvcEdits = 1
SPECIFICATION Spec
PROPERTIES EventuallyConverged
