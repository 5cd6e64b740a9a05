\* A call refused by the write token bucket mid-Run: spec 4.7 and 5 say the
\* reconcile treats RateLimited as retryable, so the key stays queued.
CONSTANTS
    h1 = h1
    h2 = h2
    b1 = b1
    b2 = b2
    c1 = c1
    c2 = c2
    Dummy = Dummy
    None = None
    SvcVersions = {v1}
    NoNodePort = NoNodePort
    BadHealthCheck = BadHealthCheck
    Hosts = {h1, h2, e}
    EmptyHost = e
    BackendSets = {b1, b2}
    Certs = {c1, c2}
    BadSecret = BadSecret
    ForceHTTPSRedirectionByDefault = FALSE
    Ingresses <- MCIngresses
    MaxEdits = 1
    MaxFailures = 0
    MaxCrashes = 0
    MaxThrottles = 1
    AllowDelete = FALSE
    MaxSvcEdits = 0
SPECIFICATION Spec
INVARIANTS PendingWorkQueued
