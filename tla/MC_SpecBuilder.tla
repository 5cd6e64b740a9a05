---------------------------- MODULE MC_SpecBuilder ----------------------------
(***************************************************************************)
(* The pure functions of the spec builder, each run once on every input   *)
(* of its kind:                                                            *)
(*  - "ingress": every ingress over two hosts and the empty host, two     *)
(*    Services and two certificates or a bad secret, and the LB model     *)
(*    NewIngressLBSpec builds for it;                                      *)
(*  - "shape": every combination of the shape annotations getLBShape reads;*)
(*  - "path": every ingress path of at most MaxPathLen characters, of each *)
(*    pathType, under each kind of rule host, compiled by createRoutingRule*)
(*    and compared on every request path of at most MaxPathLen + 1;        *)
(*  - "names": every rule host the API server admits up to four characters *)
(*    (with and without the "*." wildcard), the empty host and hosts past  *)
(*    the 240-character cut, with the gen() results of the digest whose    *)
(*    first two characters are letters or digits.                          *)
(***************************************************************************)
EXTENDS LBModel, LBShape, PathCondition, Names, LBAnnotations

CONSTANTS h1, h2, w1, MaxPathLen

VARIABLE input

MCToLower ==
    ("flexible" :> "flexible") @@ ("Flexible" :> "flexible") @@ ("100Mbps" :> "100mbps")

(* Annotation values at and around the clamp limits 10 and 8192.         *)
FlexAnnotations == {Absent, NotInt, 0, 10, 100, 9000}

PathValues == {PathValue(t) : t \in SeqOf(PathChars, MaxPathLen)}
RuleHosts  == PreciseHosts \cup WildcardHosts \cup {NoHost}

(* Requests carry a star-free path and one of two Host headers.           *)
Requests == [host: {h1, h2}, path: SeqOf(PathChars \ {Star}, MaxPathLen + 1)]

-----------------------------------------------------------------------------
(* Host names.  A DNS-1123 subdomain: labels of letters, digits and "-", *)
(* each starting and ending with a letter or digit, at most 63 long,     *)
(* joined by "."; a wildcard host is "*." followed by one.                *)
HostChars == {"a", "0", "-", "."}
Alnum == {"a", "0"}

IsSubdomain(h) ==
    /\ Len(h) \in 1..253
    /\ h[1] \in Alnum /\ h[Len(h)] \in Alnum
    /\ \A i \in 2..Len(h) - 1 : h[i] = "." => h[i - 1] \in Alnum /\ h[i + 1] \in Alnum
    /\ \A i \in 1..Len(h) - 63 : \E j \in i..i + 63 : h[j] = "."

Label60 == [i \in 1..60 |-> "a"]
LongHost == Label60 \o <<".">> \o Label60 \o <<".">> \o Label60 \o <<".">> \o Label60

RuleHostNames ==
    LET plain == {h \in SeqOf(HostChars, 4) : IsSubdomain(h)} \cup {LongHost}
    IN  plain \cup {<<"*", ".">> \o h : h \in plain} \cup {<<>>}

(* The LB-wide annotations: internal absent, true, false or not a        *)
(* boolean; a reserved IP absent, IPv4, IPv6 or not an address; each     *)
(* subnet annotation absent or set; the default flexible shape with its  *)
(* bounds defaulted or refused.                                            *)
SettingsAnnotations ==
    [internal: {Absent, "true", "0", "yes"}, ip: {Absent, "10.0.0.5", "::1", "10.0.0.256"},
     subnet1: {<<>>, <<"a">>}, subnet2: {<<>>, <<"b">>},
     shape: {Absent}, min: {Absent, NotInt}, max: {Absent},
     policy: {Absent, "IP_HASH", "ip_hash"}]

MCLetters == {"a", "j", "x", "A", "S", "X", "T", "R", "D", "O", "n", "y", "h", "o", "s", "t"}
MCUpperCase == "A" :> "a"
MCDigitShift == "0" :> "j"

(* A gen() result: 22 characters, the first two a letter or a digit.    *)
GenOut(c1, c2) == <<c1, c2>> \o [i \in 1..20 |-> "x"]
GenOuts == {GenOut(c1, c2) : c1, c2 \in {"A", "0"}}

-----------------------------------------------------------------------------
Inputs ==
    [kind: {"ingress"}, ing: IngressType, svc: [BackendSets -> SvcVersions]]
      \cup [kind: {"shape"}, shape: {Absent, "flexible", "Flexible", "100Mbps"},
            min: FlexAnnotations, max: FlexAnnotations]
      \cup [kind: {"path"}, pathType: {"Exact", "Prefix"}, v: PathValues, h: RuleHosts]
      \cup [kind: {"path"}, pathType: {"ImplementationSpecific"},
            v: PathValues \cup RawConditions, h: RuleHosts]
      \cup [kind: {"names"}, host: RuleHostNames, outs: GenOuts \X GenOuts]
      \cup [kind: {"settings"}, ann: SettingsAnnotations,
            lbSection: {NoLBSection} \cup [subnet1: {<<>>, <<"c">>}, subnet2: {<<>>}],
            flag: SeqOf({"d", ",", " "}, 3),
            disc: [fails: {"none", "metadata", "vnic", "subnet", "list"}, public: BOOLEAN]]

Init == input \in Inputs
Next == UNCHANGED input

Ing == input.ing
IsGlob == input.pathType = "ImplementationSpecific" /\ ~input.v.cond
Glob == ParseURL(input.v.text).path
Path == ProcessImplementationSpecificPath(input.v)
Rule == CreateRoutingRule(input.pathType, input.v, input.h)

-----------------------------------------------------------------------------
(* Spec 8: every listener's referenced names (hostnames, routing policy, *)
(* certificate, rule set, backend sets) and every routing rule's backend *)
(* set resolve inside the model NewIngressLBSpec builds for a valid       *)
(* ingress whose Services and secrets it can read, and still do in the   *)
(* create request createLoadBalancer sends                               *)
(* without routing policies.                                              *)
BuiltModelResolves ==
    input.kind = "ingress" /\ ValidIngress(Ing) /\ ~BuildFails(Ing, input.svc) =>
        /\ Valid(DesiredLB(Ing, input.svc))
        /\ Valid(CreateContent(DesiredLB(Ing, input.svc)))

(* The same for ingresses whose TLS hosts all appear in a rule, the      *)
(* layout the builder's hostname collection assumes (hostnames are only  *)
(* created in the rules loop, the redirector binds every TLS host).      *)
BuiltModelResolvesWhenTLSHostsRouted ==
    input.kind = "ingress" /\ DOMAIN Ing.tls \subseteq DOMAIN Ing.rules => BuiltModelResolves

(* Spec 4.3 step 2: a flexible shape's bandwidth bounds are clamped into  *)
(* [10, 8192] with max >= min (getLBShape), whatever the annotations ask. *)
FlexShapeWithinLimits ==
    LET r == GetLBShape(input.shape, input.min, input.max)
    IN  input.kind = "shape" /\ r # ShapeError /\ r.shape = FlexibleShapeName =>
            FlexShapeAbsoluteMinMbps <= r.min /\ r.min <= r.max
              /\ r.max <= FlexShapeAbsoluteMaxMbps

(* createRoutingRule keeps the rule's Host predicate: for a precise host,  *)
(* a compiled rule accepts no request for another host, unless the value  *)
(* is a raw any(...) / not(...) condition, which the code uses alone.     *)
RuleKeepsHostPredicate ==
    /\ input.kind = "path"
    /\ input.h \in PreciseHosts
    /\ Rule # Invalid
    /\ ~(input.v.cond /\ input.v.text \in {"any", "not"})
    => \A req \in Requests : Accepts(Rule, req) => req.host = input.h

(* processImplementationSpecificPath lowers each glob shape spec 4.2      *)
(* lists into a condition that accepts every path the glob matches.       *)
SpecShapesComplete ==
    /\ input.kind = "path" /\ IsGlob /\ input.v.text # <<>>
    /\ ParseURL(input.v.text).host = <<>> /\ SpecShape(Glob)
    => /\ Path # Invalid
       /\ \A req \in Requests : GlobMatch(Glob, req.path) => Accepts(Path.preds, req)

(* Spec 4.2: a glob outside the shapes it lists (no star, one star, or   *)
(* one star at each end around a star-free run) fails with InvalidPath;  *)
(* processImplementationSpecificPath's regexp cases decide which values  *)
(* are refused.                                                            *)
GlobOutsideSpecShapesRefused ==
    /\ input.kind = "path" /\ IsGlob /\ input.v.text # <<>>
    /\ ParseURL(input.v.text).host = <<>> /\ ~SpecShape(Glob)
    => Path = Invalid

(* getRoutingPolicyName and GetListenerName panic, ending the process,   *)
(* when the name they derive fails the service's pattern: for every rule *)
(* host the API server admits, the empty host, wildcard hosts, hosts     *)
(* starting with a digit and hosts past the 240-character cut, and       *)
(* whatever characters the digest holds, neither does.                    *)
BuilderNamesNeverPanic ==
    input.kind = "names" =>
        /\ IsPolicyName(RoutingPolicyNameOf(input.host, input.outs))
        /\ IsListenerName(ListenerNameOf(input.host, input.outs))

(* Spec 4.3 steps 3-5 and the model's SubnetIds [1..2]: the LB is       *)
(* internal when the annotation says true; its subnets are the subnet    *)
(* annotations, else the configured defaults (the config accessor), else *)
(* the discovered public subnet of the instance's VCN, falling back to   *)
(* the instance's subnet; a reserved IP must be an IP literal and is      *)
(* refused on an internal LB; the backend-set policy is one of            *)
(* ROUND_ROBIN, LEAST_CONNECTIONS, IP_HASH, by default ROUND_ROBIN (step *)
(* 10).  The settings fail exactly when one of     *)
(* these cannot be resolved.  A failed GetSubnet panics instead           *)
(* (tryFindLoadbalancerSubnet), a crash of the reconciler.               *)
SettingsResolvedAsSpecified ==
    LET r          == LBSettings(input.ann, input.lbSection, input.flag, input.disc)
        internal   == input.ann.internal \in TrueWords
        annotated  == SelectSeq(<<input.ann.subnet1, input.ann.subnet2>>, LAMBDA x : x # <<>>)
        configured == GetSubnetIds(input.lbSection, input.flag)
        discovered == IF input.disc.public THEN PublicSubnet ELSE InstanceSubnet
        subnets    == CASE annotated # <<>>  -> annotated
                        [] configured # <<>> -> configured
                        [] OTHER             -> <<discovered>>
        fails      == \/ input.ann.internal \notin TrueWords \cup FalseWords \cup {Absent}
                      \/ GetLBShape(input.ann.shape, input.ann.min, input.ann.max) = ShapeError
                      \/ annotated = <<>> /\ configured = <<>> /\ input.disc.fails # "none"
                      \/ input.ann.ip # Absent /\ (input.ann.ip \notin IPLiterals \/ internal)
                      \/ input.ann.policy \notin {Absent, "ROUND_ROBIN", "LEAST_CONNECTIONS", "IP_HASH"}
    IN  input.kind = "settings" /\ r # Panic =>
            IF fails THEN r = BuildError
            ELSE /\ r # BuildError
                 /\ r.internal = internal /\ r.ip = input.ann.ip
                 /\ r.subnets = subnets /\ Len(r.subnets) \in 1..2
                 /\ r.policy = IF input.ann.policy = Absent THEN "ROUND_ROBIN" ELSE input.ann.policy

(* createRoutingRule names a rule ObjectHash(path, 22), which its comment *)
(* requires to match ^[a-zA-Z_][a-zA-Z_0-9]*$: ByteAlphaNumericDigest     *)
(* turns a leading digit into a letter so the name starts with one.       *)
RuleNameMatchesPattern ==
    input.kind = "names" =>
        LET n == RuleName(input.outs)
        IN  n[1] \in Letters \cup {"_"}
              /\ \A i \in 1..Len(n) : n[i] \in Letters \cup Digits \cup {"_"}
=============================================================================
