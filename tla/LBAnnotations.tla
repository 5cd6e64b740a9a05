---------------------------- MODULE LBAnnotations ----------------------------
(***************************************************************************)
(* The LB-wide settings NewIngressLBSpec resolves before and after its    *)
(* rules loop (src/ingress/spec.go): the internal flag (IsInternalLB),    *)
(* the shape (getLBShape, module LBShape), the subnets                    *)
(* (getLoadBalancerSubnetIds, the config holder's GetSubnetIds and the    *)
(* auto-discovery tryFindLoadbalancerSubnet) and the reserved IP          *)
(* (GetLoadBalancerIP), with their errors in the order the code meets    *)
(* them.                                                                   *)
(*                                                                         *)
(* The internal and reserved-IP annotations are strings, Absent when the  *)
(* ingress lacks them.  Subnet ids, the subnet annotations and the        *)
(* --default-subnets flag are sequences of one-character strings, so the *)
(* empty string is <<>> and SplitN/TrimSpace work on them.  The OCI calls *)
(* of the discovery are represented by which one fails first, if any,    *)
(* and whether the VCN holds a public subnet.                             *)
(***************************************************************************)
EXTENDS LBShape, Sequences, SequencesExt

CONSTANTS
    IPLiterals,     \* the reserved-IP values net.ParseIP accepts, among those in use
    NoLBSection,    \* the cloud-provider config has no loadBalancer section
    BuildError,     \* NewIngressLBSpec returns an error
    Panic,          \* the process panics inside NewIngressLBSpec
    PublicSubnet,   \* id of the first public subnet in the instance's VCN
    InstanceSubnet  \* id of the subnet of the instance's primary VNIC

(* strconv.ParseBool                                                       *)
TrueWords  == {"1", "t", "T", "TRUE", "true", "True"}
FalseWords == {"0", "f", "F", "FALSE", "false", "False"}

(* IsInternalLB: an absent annotation is false, anything ParseBool       *)
(* refuses is an error.                                                    *)
IsInternalLB(internalAnn) ==
    CASE internalAnn = Absent       -> FALSE
      [] internalAnn \in TrueWords  -> TRUE
      [] internalAnn \in FalseWords -> FALSE
      [] OTHER                      -> BuildError

(* A variant that lets a private LB keep its reserved IP.                 *)
GetLoadBalancerIPAnyLB(internalAnn, ipAnn) ==
    CASE ipAnn = Absent            -> Absent
      [] ipAnn \notin IPLiterals   -> BuildError
      [] OTHER                     -> ipAnn

(* GetLoadBalancerIP: no annotation is no address; a value ParseIP       *)
(* refuses is an error, and so is a reserved IP on an internal LB.       *)
GetLoadBalancerIP(internalAnn, ipAnn) ==
    CASE ipAnn = Absent                   -> Absent
      [] ipAnn \notin IPLiterals          -> BuildError
      [] IsInternalLB(internalAnn) = TRUE -> BuildError
      [] OTHER                            -> ipAnn

(* strings.TrimSpace and strings.SplitN(s, ",", 2)                        *)
TrimSpace(s) ==
    LET first == SelectInSeq(s, LAMBDA c : c # " ")
        last  == SelectLastInSeq(s, LAMBDA c : c # " ")
    IN  IF first = 0 THEN <<>> ELSE SubSeq(s, first, last)

SplitN2(s) ==
    LET i == SelectInSeq(s, LAMBDA c : c = ",")
    IN  IF i = 0 THEN <<s>> ELSE <<SubSeq(s, 1, i - 1), SubSeq(s, i + 1, Len(s))>>

NonEmpty(ids) == SelectSeq(ids, LAMBDA id : id # <<>>)

(* configHolder.GetSubnetIds: the cloud config's loadBalancer subnets   *)
(* when it has that section (even with both empty), else the non-empty   *)
(* trimmed parts of the --default-subnets flag.                           *)
GetSubnetIds(lbSection, flag) ==
    IF lbSection # NoLBSection
    THEN NonEmpty(<<lbSection.subnet1, lbSection.subnet2>>)
    ELSE NonEmpty([i \in DOMAIN SplitN2(flag) |-> TrimSpace(SplitN2(flag)[i])])

(* tryFindLoadbalancerSubnet.  The memo discoveredSubnet is never        *)
(* assigned, so every call repeats the discovery.  The calls fail in     *)
(* the order metadata, primary VNIC, GetSubnet, ListSubnets; a failed    *)
(* GetSubnet leaves instanceSubnet nil, which the debug log on the next  *)
(* line dereferences before err is checked.                               *)
TryFindLoadbalancerSubnet(disc) ==
    CASE disc.fails \in {"metadata", "vnic", "list"} -> BuildError
      [] disc.fails = "subnet"                       -> Panic
      [] disc.public                                 -> PublicSubnet
      [] OTHER                                       -> InstanceSubnet

(* getLoadBalancerSubnetIds: the subnet1/subnet2 annotations, else the   *)
(* config holder's subnets, else the discovered one.                      *)
GetLoadBalancerSubnetIds(ann, lbSection, flag, disc) ==
    LET annotated  == NonEmpty(<<ann.subnet1, ann.subnet2>>)
        configured == GetSubnetIds(lbSection, flag)
        found      == TryFindLoadbalancerSubnet(disc)
    IN  CASE annotated # <<>>                -> annotated
          [] configured # <<>>               -> configured
          [] found \in {BuildError, Panic}   -> found
          [] OTHER                           -> <<found>>

(* getLoadBalancerPolicy: ROUND_ROBIN when the annotation is absent,     *)
(* else one of the three policy names as written.                         *)
GetLoadBalancerPolicy(policyAnn) ==
    CASE policyAnn = Absent                                        -> "ROUND_ROBIN"
      [] policyAnn \in {"IP_HASH", "LEAST_CONNECTIONS", "ROUND_ROBIN"} -> policyAnn
      [] OTHER                                                     -> BuildError

(* The settings of NewIngressLBSpec in its order: IsInternalLB, getLBShape, *)
(* (the rules loop, module LBModel), getLoadBalancerSubnetIds,           *)
(* GetLoadBalancerIP, and getLoadBalancerPolicy in                        *)
(* setupBackendSetsForSpec; the first error or panic ends it.            *)
LBSettings(ann, lbSection, flag, disc) ==
    LET internal == IsInternalLB(ann.internal)
        shape    == GetLBShape(ann.shape, ann.min, ann.max)
        subnets  == GetLoadBalancerSubnetIds(ann, lbSection, flag, disc)
        ip       == GetLoadBalancerIP(ann.internal, ann.ip)
        policy   == GetLoadBalancerPolicy(ann.policy)
    IN  CASE internal = BuildError               -> BuildError
          [] shape = ShapeError                  -> BuildError
          [] subnets \in {BuildError, Panic}     -> subnets
          [] ip = BuildError                     -> BuildError
          [] policy = BuildError                 -> BuildError
          [] OTHER -> [internal |-> internal, shape |-> shape, subnets |-> subnets,
                       ip |-> ip, policy |-> policy]
=============================================================================
