------------------------------- MODULE LBModel -------------------------------
(***************************************************************************)
(* The desired load-balancer model that src/ingress/spec.go derives from  *)
(* an ingress (NewIngressLBSpec), reduced to the names of the LB          *)
(* sub-resources and the references between them, together with the      *)
(* referential rules the LB service enforces and the key-set diff of      *)
(* src/utils/utils.go (MapCompare).                                        *)
(*                                                                         *)
(* Data abstraction.  A host is a model value; the names derived from it  *)
(* (listener name, routing-policy name, hostname name) are injective for  *)
(* hosts under 240 characters, so all three are keyed by the host itself. *)
(* A Service port is represented by its backend set, whose content (the  *)
(* NodePort its backends use and the Service's health-check annotations) *)
(* is a member of SvcVersions.  A certificate is its                    *)
(* content-derived name.  A routing policy is the set of backend sets its *)
(* path rules forward to plus the target of the appended default rule.    *)
(***************************************************************************)
EXTENDS FiniteSets, TLC, Functions

CONSTANTS
    Hosts,          \* ingress rule hosts (short)
    EmptyHost,      \* the host of a rule without one (""), when Hosts holds it
    BackendSets,    \* backend sets of the Services an ingress may reference
    Certs,          \* content-addressed certificate names
    BadSecret,      \* a TLS secret that is missing, not of type TLS or not PEM/x509
    Dummy,          \* the "dummy" backend set every placeholder listener uses
    None,           \* absent optional field
    SvcVersions,    \* contents a Service port's backend set may have
    NoNodePort,     \* the Service is missing or has no TCP NodePort for the port
    BadHealthCheck, \* the Service has a health-check annotation Atoi refuses
    ForceHTTPSRedirectionByDefault  \* process-wide default of force-https-redirect

ASSUME Dummy \notin BackendSets /\ ForceHTTPSRedirectionByDefault \in BOOLEAN

DefaultBackendListener  == "DefaultBackend-http"
SansVirtualHostListener == "Sans-VirtualHost-HTTP"
RedirectListener        == "http-to-https-redirector"
ListenerNames == Hosts \cup {DefaultBackendListener, SansVirtualHostListener, RedirectListener}
AllBackendSets == BackendSets \cup {Dummy}

(* An ingress as the spec builder reads it: host -> backend sets of its   *)
(* paths, TLS host -> certificate of its secret (BadSecret when it yields *)
(* none), the default backend, the force-https-redirect annotation after  *)
(* lower-casing, and whether its class is "oci".                          *)
IngressType ==
    [rules: UNION {[H -> SUBSET BackendSets] : H \in SUBSET Hosts},
     tls: UNION {[H -> Certs \cup {BadSecret}] : H \in SUBSET (Hosts \ {EmptyHost})},
     defaultBackend: BackendSets \cup {None},
     forceHttps: {"true", "false", ""},
     oci: BOOLEAN]

(* IsOCILoadbalancerIngress: spec.ingressClassName, else the              *)
(* kubernetes.io/ingress.class annotation, equals "oci".                   *)
IsOCI(ing) == ing.oci

(* validateIngress (spec 4.3 step 1): the class matches and the ingress   *)
(* has a rule or a default backend.                                       *)
ValidIngress(ing) ==
    IsOCI(ing) /\ (DOMAIN ing.rules # {} \/ ing.defaultBackend # None)

RoutingPolicyType == [targets: SUBSET BackendSets, dflt: BackendSets \cup {None}]
ListenerType == [rp: Hosts \cup {None}, hn: SUBSET Hosts, cert: Certs \cup {None},
                 rs: BOOLEAN, bs: AllBackendSets]

(* The sub-resources of a load balancer.  rs is the presence of the one  *)
(* rule set the builder emits, https_301_redirection, whose items are    *)
(* constant.                                                               *)
(* f maps some of S into T.                                               *)
IsPartialFn(f, S, T) == DOMAIN f \subseteq S /\ \A x \in DOMAIN f : f[x] \in T

IsLBContent(c) ==
    /\ DOMAIN c = {"rp", "hn", "cert", "rs", "bs", "lsn"}
    /\ IsPartialFn(c.rp, Hosts, RoutingPolicyType)
    /\ c.hn \subseteq Hosts /\ c.cert \subseteq Certs /\ c.rs \in BOOLEAN
    /\ IsPartialFn(c.bs, AllBackendSets, SvcVersions \cup {None})
    /\ IsPartialFn(c.lsn, ListenerNames, ListenerType)

EmptyLB == [rp |-> [h \in {} |-> None], hn |-> {}, cert |-> {}, rs |-> FALSE,
            bs |-> [b \in {} |-> None], lsn |-> [l \in {} |-> None]]

-----------------------------------------------------------------------------
(* Spec builder (NewIngressLBSpec and the helpers it calls).               *)

(* createRoutingRule per path, createDeafultBackendRoutingRule appended   *)
(* to every policy when the ingress has a default backend.                *)
RoutingPolicyOf(ing, h) == [targets |-> ing.rules[h], dflt |-> ing.defaultBackend]

(* getOrCreateHostnameDetails: a hostname per non-empty rule host; the   *)
(* rule without a host gets none.                                         *)
HostnamesOf(hosts) == hosts \ {EmptyHost}

(* createListenerDetails: bound to the host's hostname (none for the     *)
(* empty host, whose listener is "any-host"), routing policy and, for a  *)
(* TLS host, the certificate of getOrCreateSSLConfigDetails; the default *)
(* backend set is always "dummy".                                         *)
HostListener(ing, h) ==
    [rp |-> h, hn |-> HostnamesOf({h}), rs |-> FALSE, bs |-> Dummy,
     cert |-> IF h \in DOMAIN ing.tls THEN ing.tls[h] ELSE None]

PlainListener(bs) == [rp |-> None, hn |-> {}, cert |-> None, rs |-> FALSE, bs |-> bs]

(* DefaultBackend-http when the ingress has a default backend, else the  *)
(* Sans-VirtualHost-HTTP placeholder on the dummy backend set.            *)
DefaultListener(ing) ==
    IF ing.defaultBackend # None
    THEN DefaultBackendListener :> PlainListener(ing.defaultBackend)
    ELSE SansVirtualHostListener :> PlainListener(Dummy)

(* The redirector is emitted when some host has TLS and the annotation is *)
(* "true", or is unset while the process default is on.  Its hostname     *)
(* names are the keys of hostsWithTLS: every TLS host, whether or not a  *)
(* rule creates a hostname for it.                                        *)
ForceRedirect(ing) ==
    /\ DOMAIN ing.tls # {}
    /\ \/ ing.forceHttps = "true"
       \/ ing.forceHttps = "" /\ ForceHTTPSRedirectionByDefault

RedirectListeners(ing) ==
    IF ForceRedirect(ing)
    THEN RedirectListener :> [rp |-> None, hn |-> DOMAIN ing.tls, cert |-> None,
                              rs |-> TRUE, bs |-> Dummy]
    ELSE [l \in {} |-> None]

(* Faulty variant: the default backend's Service is not processed.       *)
ReferencedBackendSetsNoDefault(ing) ==
    UNION {ing.rules[h] : h \in DOMAIN ing.rules} \cup {Dummy}

(* processBackendSpec: one backend set per referenced Service, plus the   *)
(* dummy backend set setupBackendSetsForSpec always adds.                 *)
ReferencedBackendSets(ing) ==
    UNION {ing.rules[h] : h \in DOMAIN ing.rules}
      \cup (IF ing.defaultBackend # None THEN {ing.defaultBackend} ELSE {})
      \cup {Dummy}

(* setupBackendSetsForSpec: oci.GetBackendSets for each Service, whose *)
(* backends are every node on the port's NodePort (getBackends) and whose *)
(* health checker comes from the Service's annotations; the dummy backend *)
(* set has no backends and a fixed health checker.  svc maps each backend *)
(* set to the content its Service port has in the cluster.               *)
BackendSetsOf(ing, svc) ==
    [b \in ReferencedBackendSets(ing) |-> IF b = Dummy THEN None ELSE svc[b]]

(* processBackendSpec fails when the Service cannot be read or no TCP     *)
(* port of it matches the backend's port with a NodePort; the error       *)
(* ends NewIngressLBSpec.                                                  *)
ServiceLookupFails(ing, svc) == \E b \in ReferencedBackendSets(ing) \ {Dummy} : svc[b] = NoNodePort

(* getOrCreateSSLConfigDetails is called for the host of each rule that  *)
(* has a TLS entry, and fails when the secret cannot be read, is not of  *)
(* type kubernetes.io/tls or its certificate does not decode and parse.  *)
(* TLS hosts without a rule are never loaded (only the redirector names  *)
(* them).                                                                  *)
SSLConfigFails(ing) == \E h \in DOMAIN ing.tls \cap DOMAIN ing.rules : ing.tls[h] = BadSecret

(* getHealthChecker, called by GetBackendSets for each port of a         *)
(* referenced Service in setupBackendSetsForSpec, fails when the retries, *)
(* interval or timeout annotation is set but not an integer.              *)
HealthCheckerFails(ing, svc) ==
    \E b \in ReferencedBackendSets(ing) \ {Dummy} : svc[b] = BadHealthCheck

(* Any of these errors ends NewIngressLBSpec: no model is built.          *)
BuildFails(ing, svc) ==
    ServiceLookupFails(ing, svc) \/ SSLConfigFails(ing) \/ HealthCheckerFails(ing, svc)

DesiredLB(ing, svc) ==
    [rp   |-> [h \in DOMAIN ing.rules |-> RoutingPolicyOf(ing, h)],
     hn   |-> HostnamesOf(DOMAIN ing.rules),
     cert |-> {ing.tls[h] : h \in DOMAIN ing.tls \cap DOMAIN ing.rules},
     rs   |-> ForceRedirect(ing),
     bs   |-> BackendSetsOf(ing, svc),
     lsn  |-> [h \in DOMAIN ing.rules |-> HostListener(ing, h)]
                @@ DefaultListener(ing) @@ RedirectListeners(ing)]

(* Faulty variant: the create request carries the routing policies and  *)
(* the listeners' references to them (Workaround #1 left out).           *)
CreateContentWithPolicies(spec) == spec

(* createLoadBalancer: everything of the spec except routing policies,   *)
(* and listeners stripped of their routing-policy name (Workaround #1).   *)
CreateContent(spec) ==
    [spec EXCEPT !.rp = [h \in {} |-> None],
                 !.lsn = [l \in DOMAIN spec.lsn |-> [spec.lsn[l] EXCEPT !.rp = None]]]

-----------------------------------------------------------------------------
(* Referential integrity the LB service enforces on every mutation: each  *)
(* name a listener or a routing rule uses must exist.                     *)
ListenerRefsExist(c) ==
    \A l \in DOMAIN c.lsn :
        /\ c.lsn[l].rp \in DOMAIN c.rp \cup {None}
        /\ c.lsn[l].hn \subseteq c.hn
        /\ c.lsn[l].cert \in c.cert \cup {None}
        /\ c.lsn[l].rs => c.rs
        /\ c.lsn[l].bs \in DOMAIN c.bs

PolicyRefsExist(c) ==
    \A h \in DOMAIN c.rp :
        c.rp[h].targets \cup ({c.rp[h].dflt} \ {None}) \subseteq DOMAIN c.bs

Valid(c) == ListenerRefsExist(c) /\ PolicyRefsExist(c)

-----------------------------------------------------------------------------
(* utils.MapCompare(desired, live, same): keys only in desired, keys only *)
(* in live, and common keys whose values same() does not accept.  With a  *)
(* nil filter the whole intersection is returned.                         *)
ToBeCreated(desired, live) == DOMAIN desired \ DOMAIN live
ToBeRemoved(desired, live) == DOMAIN live \ DOMAIN desired
ToBeUpdated(desired, live) ==
    {k \in DOMAIN desired \cap DOMAIN live : desired[k] # live[k]}

(* A set seen as a map to a constant value, for the hostname and         *)
(* certificate maps whose values the diff never compares.                 *)
AsMap(S) == [x \in S |-> TRUE]
=============================================================================
