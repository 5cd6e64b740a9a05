\* A glob outside the shapes spec 4.2 lists must be refused with InvalidPath.
CONSTANTS
    h1 = h1
    h2 = h2
    w1 = w1
    Hosts = {h1, h2, e}
    EmptyHost = e
    BackendSets = {b1, b2}
    Certs = {c1, c2}
    BadSecret = BadSecret
    Dummy = Dummy
    None = None
    SvcVersions = {v1}
    NoNodePort = NoNodePort
    BadHealthCheck = BadHealthCheck
    ForceHTTPSRedirectionByDefault = TRUE
    DefaultLBShape = "flexible"
    DefaultFlexShapeMinMbps = 10
    DefaultFlexShapeMaxMbps = 10
    ToLower <- MCToLower
    Absent = Absent
    NotInt = NotInt
    ShapeError = ShapeError
    NoBound = NoBound
    NoHost = NoHost
    Invalid = Invalid
    PathChars = {"/", "a", "*"}
    PreciseHosts = {h1}
    WildcardHosts = {w1}
    MaxPathLen = 4
    Letters <- MCLetters
    IPLiterals = {"10.0.0.5", "::1"}
    NoLBSection = NoLBSection
    BuildError = BuildError
    Panic = Panic
    PublicSubnet = PublicSubnet
    InstanceSubnet = InstanceSubnet
    Digits = {"0"}
    UpperCase <- MCUpperCase
    DigitShift <- MCDigitShift
INIT Init
NEXT Next
INVARIANTS GlobOutsideSpecShapesRefused
