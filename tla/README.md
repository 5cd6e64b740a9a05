# TLA+ models of the OCI LB ingress controller

These modules model the controller in `src/` (the Go module
`nom3ad/oci-lb-ingress-controller`). The controller turns a Kubernetes Ingress
into an OCI load balancer (LB) and keeps that LB converged with the ingress.
The models are checked with TLC.

## The system

| Part | Code | What it does |
|---|---|---|
| Event handlers | `src/controller/handlers/{ingress,node,secret}.go` | Add the ingress key to the work queue. Ingress create, update and delete events are filtered on the `oci` class; a secret create or update enqueues the ingresses that use the secret, a secret delete enqueues nothing; a node create or delete enqueues every OCI ingress. |
| Controller | `src/controller/controller.go` | controller-runtime with default options: **one worker**, a deduplicating queue, periodic resync. On a restart, the initial list re-enqueues the ingresses that still exist. |
| Reconciler | `src/controller/reconciller.go`, `helpers.go` | Reads the ingress from the cache. Missing → `DeleteIngress`; present → `UpdateOrCreateIngress`. Errors that `IsRetryableError` accepts are returned, which re-queues the key; all other errors are swallowed. |
| LB manager | `src/manager/manager.go` | Builds the spec, then looks the LB up by name. None → `createLoadBalancer` (without routing-policy references) and an update pass. `FAILED`/`DELETING` → error. Otherwise → `updateLoadBalancer`. |
| Update pass | `updateLoadBalancer` | Four diffs (routing policies, rule sets, hostnames, certificates) register actions. Then: hook call with its error discarded; re-fetch of the LB; `Run(Create)`; `Run(Update,"routingpolicy")`; hook call whose error is returned; `Run(Update)`; `Run(Delete)`. |
| Action dispatcher | `src/manager/actions.go` | `Run(verb, subjects...)` executes not-done actions subject by subject and stops at the first error. |
| Spec builder | `src/ingress/spec.go`, `helpers.go` | Ingress → desired LB model: a listener, hostname and routing policy per rule host; a certificate per TLS rule host; `DefaultBackend-http` or `Sans-VirtualHost-HTTP`; the redirector plus rule set `https_301_redirection`; backend sets plus `dummy`. |
| Diff | `src/utils/utils.go` `MapCompare` | Key-set difference, plus the intersection keys whose values differ. |
| Match compiler | `src/ingress/routing_rule.go` | Lowers a path and its rule host into an LB routing condition. Exact and Prefix become `eq` and `sw`. An ImplementationSpecific value is either a raw `condition:` text, or a URL-path glob lowered into `eq`/`sw`/`ew`/`cw`. |
| Names | `src/ingress/helpers.go`, `src/utils/{utils,strings}.go` | Routing-policy, listener and hostname names from the rule host; routing-rule names from `ObjectHash` of the path. Both use `ByteAlphaNumericDigest`. `getRoutingPolicyName` and `GetListenerName` panic when a name fails the LB's pattern. |
| Backend sets | `src/pkg/cloudprovider/providers/oci/load_balancer_spec.go` `GetBackendSets` | One backend set per Service port: every node on the port's NodePort, with a health checker from the Service's annotations. Services are **not watched**: `setupEventListeners` watches ingresses, nodes and secrets only. |
| Shape | `src/ingress/sharable_helpers.go` `getLBShape` | Shape annotation with its default. For `flexible`, the bandwidth annotations are clamped into [10, 8192] with max ≥ min. |
| LB settings | `load_balancer_spec.go` `IsInternalLB`, `GetLoadBalancerIP`; `spec.go` `getLoadBalancerSubnetIds`, `tryFindLoadbalancerSubnet`; `configholder/adaptor.go`; `sharable_helpers.go` `getLoadBalancerPolicy` | The internal flag, the reserved IP, the subnets (annotations, config, auto-discovery through three OCI calls) and the backend-set policy of the LB, each of which can fail the build. |
| OCI client | `src/pkg/oci/client` | Each sub-resource call first takes a token of the write bucket; an empty bucket returns `RateLimitError`. `IsRetryableError` accepts only the listed service errors. |

Two collaborators are **not in this repository**, so they are modelled from
`spec.md`:

- **The listener/backend-set hook** `CloudProvider.UpdateLoadBalancer`
  (spec 4.5, 6). It runs in three phases, as the upstream cloud-controller
  hook does:
  1. create or update backend sets;
  2. converge listeners;
  3. delete backend sets that are no longer in the spec.

  Each phase is atomic, and the hook stops at the first call the service
  refuses.
- **The LB service itself.** Create and delete work requests complete
  asynchronously and may fail. A sub-resource mutation is accepted only when
  the LB is `ACTIVE` (else 409 `IncorrectState`, which is retryable) and every
  name a listener or routing rule uses still exists (else a 400, which is not
  retryable). `validateIngress` is also missing from the repository and is
  modelled from spec 4.3 step 1.

## Modules

- **`LBModel`**: the data model and the spec builder.
  - A host, a backend set and a certificate are model values. The content
    of a backend set (NodePort and health checker) is a member of
    `SvcVersions`; `BackendSetsOf` is `GetBackendSets` over the referenced
    Services, and `DesiredLB(ing, svc)` takes the Services' state.
    `NoNodePort` is a Service that is missing or has no TCP NodePort for
    the backend's port; `BuildFails` is `processBackendSpec`'s error, which
    ends the build. `BadSecret` is the certificate of a TLS secret that is
    missing, not of type TLS or not a parsable certificate;
    `SSLConfigFails` (`getOrCreateSSLConfigDetails`) fails the build when a
    host with a rule has it. `BadHealthCheck` is a Service whose
    health-check annotation is not an integer: `HealthCheckerFails`
    (`getHealthChecker`) fails the build for it, and `BuildFails` is any
    of the three errors. `EmptyHost` is the host of a rule without one: its
    listener is `any-host`, it gets no hostname (`HostnamesOf`, from
    `getOrCreateHostnameDetails`) and it is never a TLS host. All names
    derived from a host are injective for hosts under 240 characters, so
    listeners, routing policies and hostnames are keyed by the host.
  - A routing policy is its set of target backend sets plus the
    default-backend rule.
  - `DesiredLB` is `NewIngressLBSpec`; `CreateContent` is the create request
    of Workaround #1.
  - `Valid` is the service's referential check.
  - `ToBeCreated`, `ToBeRemoved` and `ToBeUpdated` are `MapCompare`.
- **`IngressReconciler`**: one ingress key, the worker, the LB and the
  cluster.
  - State:
    - `ingress` (the cache) and `queued` (the work queue);
    - `lbState` and `lbc` (the LB's lifecycle state and sub-resources);
    - the worker: `pc`, `ing`, `spec`;
    - the dispatcher: `acts`, `done`, `todo`;
    - `lbNil` (a failed re-fetch) and `issued` (the history of executed
      actions);
    - counters that bound the environment.
  - Every worker action is one LB call, or one step of the code between two
    calls. The actions and the code they model:

    | Action | Code |
    |---|---|
    | `Start` | cache read, spec build, validation |
    | `Lookup` | lookup by name and the branch on the result |
    | `CreateLB`, `CreateAwait` | `createLoadBalancer` |
    | `PreHook` | the hook call whose error is discarded |
    | `Refetch` | `lb, _ = GetLoadBalancer` |
    | `RunAction`, `RunDone` | `ActionDispatcher.Run` |
    | `Hook` | the hook call whose error is returned |
    | `NilPanic` | the nil-`lb` dereference |
    | `Status` | `updateIngressStatus` |
    | `DeleteLB`, `DeleteAwait` | `DeleteIngress` |
    | `Throttled` | a `Run` call refused by the write token bucket (`loadbalancer_extra.go`) |

  - `LBCall` gives each mutation its three outcomes: accepted, refused by the
    service, or failed transiently. A transient failure is either retryable or
    not.
  - `Finish(retry)` is `Reconcile` returning: only a retryable error
    re-queues the key.
  - The environment: `EditIngress` (ingress or secret change, enqueued through
    the class filter), `EditService` (a Service's NodePort or health-check
    annotations change; nothing is enqueued), `DeleteSecret` (the secret of
    a certificate is deleted; `secretEventHandler.Delete` is empty, so
    nothing is enqueued and the next build fails until the secret is
    created again, an `EditIngress`), `Resync` (resync and node
    events), `Crash`, and the service's `CompleteCreate` and
    `CompleteDelete`.
  - `PendingWorkQueued` states spec 5's retry policy as a safety property:
    while the worker is idle and the LB is `ACTIVE` but differs from the
    model of the managed, buildable ingress, the key is queued.
- **`MC_IngressReconciler`**: the model values and the ingress versions for
  the runs.
  - `I1`, `I2` and `I3` add and remove a host, rotate a certificate, turn the
    default backend and the redirect on and off, and change a policy's default
    rule. `I3` has a rule without a host.
  - `J1`/`J2` drop a backend set together with its host.
  - `K1` is `I1` in another class.
  - `L1` has a TLS host without a rule.
- **`Names`**: strings are sequences of one-character strings.
  - `Lower`, `StrReplaceAll` (leftmost, non-overlapping) and `SafeSlice`
    (Go's 0-based bounds) are the string operations the code uses.
  - md5 is not modelled. `ByteAlphaNumericDigest` takes the stream `outs` of
    its inner `gen()` results (22 letters or digits each). It rotates one
    leading digit to the end as a letter, extends the digest with the next
    results and cuts it.
  - `RoutingPolicyNameOf`, `ListenerNameOf`, `HostnameNameOf` and
    `RuleName` are `getRoutingPolicyName`, `GetListenerName`,
    `getHostnameName` and `ObjectHash`. `IsPolicyName` and `IsListenerName`
    are the patterns whose failure panics.
- **`MC_SpecBuilder`**: all pure builder functions in one run. The variable
  `input` is drawn once from a union of record kinds, and each property
  looks only at its kind:
  - `"ingress"`: every ingress of two hosts and the empty host, two
    Services (with and without a NodePort) and two certificates or a bad
    secret;
  - `"shape"`: every combination of four shape annotations and six
    bandwidth annotations each (absent, not an integer, 0, 10, 100, 9000);
  - `"path"`: every path value of up to 4 characters, under each pathType
    and each kind of rule host, compared on every request path of up to 5
    characters;
  - `"names"`: every DNS-1123 rule host of up to 4 characters over `a`,
    `0`, `-`, `.`, with and without `*.`, the empty host and a 243-character
    host, each with the `gen()` streams whose first two characters are a
    letter or a digit;
  - `"settings"`: the internal annotation (absent, true, false, not a
    boolean), the reserved IP (absent, IPv4, IPv6, not an address), each
    subnet annotation absent or set, the flex bounds defaulted or refused,
    the policy (absent, `IP_HASH`, `ip_hash`), the cloud config with and
    without a `loadBalancer` section, every `--default-subnets` flag of up
    to 3 characters over `d`, `,` and space, and each outcome of the
    subnet discovery.
- **`PathCondition`** (`routing_rule.go`):
  - A path value is a sequence over `/`, `a`, `*`. A raw `condition:` value
    is a record naming the head of its text.
  - `ParseURL` is `url.Parse`'s authority rule for values that start with
    `//`.
  - A compiled condition is the set of its conjuncts.
  - `Holds` and `Accepts` are the LB's evaluation of `eq`/`sw`/`ew`/`cw`
    and the Host header.
  - `GlobMatch` is the RECURSIVE reference meaning of a glob.
- **`LBShape`**: `getLBShape` with the defaults `main.go` may override, its
  error paths and the clamps in the code's order.
- **`LBAnnotations`**: the other LB-wide settings `NewIngressLBSpec`
  resolves, composed in the order the code meets their errors
  (`LBSettings`): `IsInternalLB` (`strconv.ParseBool`), the shape
  (`LBShape`), `getLoadBalancerSubnetIds` over the config holder's
  `GetSubnetIds` (`SplitN` and `TrimSpace` on character sequences) and
  `tryFindLoadbalancerSubnet`, `GetLoadBalancerIP` and
  `getLoadBalancerPolicy`. The discovery's OCI calls are represented by
  which call fails first; a failed `GetSubnet` is a `Panic` (the nil
  subnet is dereferenced before the error check). In `IngressReconciler`
  every build error takes the same path, the error branch of `Start`,
  so there these errors are represented by the Service and secret errors.

## Runs

| Run | Expect | What it shows |
|---|---|---|
| `safety` (`MC_IngressReconciler.cfg`) | pass, 448,625 states | `ConvergedOnSuccess`: with one transient failure, one token-bucket refusal, one crash and two edits of any kind, every reconcile that reaches the status update has made the LB equal to its spec. This includes passes that start on a half-updated LB after an earlier failure or crash. |
| `live` | pass, 82,476 states | `EventuallyConverged`: with reliable calls, once the edits stop the LB matches the ingress and its Services, or is gone if the ingress was deleted. One edit is a Service change that no watch reports, including a Service that gains its NodePort after the ingress failed to build: the periodic resync repairs it; so does a Service whose health-check annotation is invalid until it is fixed. |
| `crash` | pass, 363,040 states | `EventuallyConverged` with one crash at any step; the ingress is edited but not deleted. |
| `builder` (`MC_SpecBuilder.cfg`) | pass, 788,464 inputs | Every reference resolves, in the built model and in the create request, whenever all TLS hosts have rules and the build succeeds (no Service without a NodePort or with a bad health-check annotation, no bad secret). Every flexible shape lies within [10, 8192] with max ≥ min. A rule for a precise host accepts only that host, except a raw `any(`/`not(` condition, which the code uses alone. Every glob shape of spec 4.2 compiles to a condition that accepts every path the glob matches. `BuilderNamesNeverPanic`: no admissible host (wildcard, leading digit, empty, past the 240-character cut) makes the name functions panic. `SettingsResolvedAsSpecified`: the internal flag, subnets (annotations, else configured defaults, else the discovered public or instance subnet; one or two), reserved IP (an IP literal, never on an internal LB) and backend-set policy resolve as spec 4.3 says, and the settings fail exactly when one of them cannot be resolved. |
| `rule_name` | violation | A routing-rule name starts with a digit when `gen()` returns two leading digits: `ByteAlphaNumericDigest` rotates only the first one away. The comment at `createRoutingRule` requires `^[a-zA-Z_]`. |
| `path_glob` (`MC_SpecBuilder_glob.cfg`) | violation | `GlobOutsideSpecShapesRefused`: spec 4.2 refuses a glob outside its listed shapes with `InvalidPath`. `*/**` passes the last regexp, `^\*+[^\*]+\*+$`, which strips one star at each end, and becomes `cw '/*'`, a condition with a literal star. (`p*q` becoming `sw 'p'` and `ew 'q'`, which also accepts paths where the two overlap, is what spec 4.2 itself prescribes and is not reported.) |
| `rate_limit` (`MC_RateLimit.cfg`) | violation | `PendingWorkQueued`: a `Run` call refused by the token bucket returns `RateLimitError`, a plain error (`errors.Errorf`) that Reconcile swallows, so the worker goes idle with the LB half-built and the key not queued; only the next resync or event repairs it. Spec 4.7 and 5 say a rate-limited reconcile is retryable. With no refusals the same configuration satisfies the property. |
| `at_most_once` | violation | A routing-policy update executes twice in one reconcile: `do()` has a value receiver. |
| `host_removal` | violation | Removing a host with the backend set only it used never converges: the hook deletes the backend set before `Run(Delete)` deletes the policy that uses it. |
| `delete_leak` | violation | A failed delete work request (not retryable), or a crash after the delete event, leaves the LB of a deleted ingress forever. |
| `class_change` | violation | Moving the ingress to another class leaves its LB forever (the Update handler filters on `ObjectNew` twice). |
| `builder_tls_gap` (`MC_SpecBuilder_tlsgap.cfg`) | violation | A TLS host without a rule makes the redirector bind a hostname that does not exist (spec 8 says every reference resolves). |

Every property of a passing run has a faulty variant of the code, defined
next to the definition it replaces (`...NoUpdate`, `...FromCerts`,
`...NoDelete`, `...NoDefault`, `...FlattenReplaces`, `...Swapped`,
`...NoMaxFix`, `...NoPrefix`, `...AnyLB`). TLC reports the property violated when that
variant is used.

## Bounds and why they are enough

- **Two hosts and the empty host.** Enough for one host to stay while
  another is added or removed, and for a rule without a host (the
  `any-host` listener, no hostname) beside named ones.
- **Two backend sets and two certificates, and `BadSecret`.** Enough for a
  policy change, a default-backend switch, a certificate rotation and a
  deleted secret (one of the edits) while the other certificate stays.
- **`MaxEdits = 2`.** Two changes in a row, including a delete and
  re-create.
- **`MaxFailures = 1` and `MaxCrashes = 1`.** Every call site can fail or
  crash once in the safety run. A second failure adds no new control path:
  each failure ends the reconcile, or, in the first hook call, skips to the
  re-fetch.

- **Path values of up to 4 characters over `/`, `a`, `*`.** These cover
  every regexp case of `processImplementationSpecificPath`: no star, an
  interior star, a leading star, a trailing star, stars at both ends, runs
  of stars, and the `//host` authority.
- **Request paths one character longer than the pattern.** Long enough to
  tell overlap from a match.
- **Bandwidth annotations 0, 10, 100, 9000, absent and non-integer.** These
  sit below, at, inside and above the limits, on either side.
- **`MaxThrottles = 1` in the safety run.** One refusal at any `Run` step.
- **`SvcVersions = {v1, v2, NoNodePort}` and `MaxSvcEdits = 1` in the
  crash run, and the same with `BadHealthCheck` in the live run.** Every
  initial Service state, including a missing NodePort (and, in the live run,
  an invalid health-check annotation), and one Service change at any point: a NodePort change, a
  Service that appears, or one that goes away. The other runs use one version
  and no Service change: the contents do not matter to their questions, and
  every extra initial Service state would multiply the safety run.
- **Settings.** Each annotation takes an absent, a valid and an invalid
  value, and each discovery call fails in turn. The flags of up to three
  characters include an empty one, a single id, two ids, padded ids and
  blank parts.
- **Names.** Hosts of up to 4 characters over `a`, `0`, `-`, `.` reach
  every branch of the name functions: a leading digit, `-` and `.`
  replacements, `__` collapsing after `-.`, and `*.`. The 243-character
  host crosses the 240-character cut. `gen()` results that start with a
  letter or one or two digits reach every branch of the digest.

## Fairness

- The worker and the LB service are weakly fair: a running process and a
  live service.
- `Resync` is weakly fair. controller-runtime resyncs the informer
  periodically (`SyncPeriod`), and node events also enqueue every OCI
  ingress.
- The liveness runs rely on resync for errors that are not retryable. They
  have no transient failures, because a create work request that fails
  leaves an LB that is `FAILED` by design ("Need to delete manually").

`CHECK_DEADLOCK FALSE` is set only where the ingress may be deleted. Once it
is gone and the edits are spent, the controller waits for events that never
come.

## Not modelled

- md5 and base64 inside `ByteAlphaNumericDigest`: a digest is a stream of
  `gen()` results, and which result belongs to which input is left open.
- `backendSetName`: backend sets are model values.
- Distinctness of listener names. The empty host is named `any-host`, which
  a rule host `any-host` also yields. A rule host `http-to-https-redirector`
  collides with the redirector listener; `spec.go` then keeps only the
  last listener written under the name. `LBModel` keys listeners by host,
  so this is listed as a hazard only. A property that listener names are
  distinct fails on exactly these hosts and holds on every other host by
  construction (`*.` and `.` become the upper-case `STAR` and `DOT`), so
  the collision would need a violation run of its own, which the twelve
  runs kept here leave no room for.
- Changing the shape of an existing LB: only the hook could do it, and the
  hook is not in this repository.
- A spec/code difference that no run checks: spec 4.3 resolves each flex
  annotation "with defaults", but `getLBShape` returns an error when only
  one of the two is set.
- TLS parsing (`tls.go` and the PEM/x509 steps of
  `getOrCreateSSLConfigDetails`): pure data; only their outcome, a
  certificate or `BadSecret`, is modelled. `getCertificateBundle` is never
  called (dead code).
- The construction of listener, SSL and health-check details
  (`load_balancer_spec.go`): a backend set's content is one model value.
- The memo of the subnet discovery: spec 4.3 says the discovered subnet
  is kept for the process lifetime, but `discoveredSubnet` is never
  assigned, so each build repeats the discovery. Builds are modelled as
  pure functions, so this difference is noted here and not checked.
- The config holder's sources: `GetSubnetIds` ignores `--default-subnets`
  whenever the cloud config has a `loadBalancer` section, even one without
  subnets, and then the subnet is auto-discovered. The spec leaves the
  config accessor's sources open, so `SettingsResolvedAsSpecified` takes
  the accessor's answer as the configured defaults.
- Configuration loading and process startup.
- The token buckets and the SDK retry loop.
- The ingress status field itself.
- A refinement of an abstract LB lifecycle. An earlier version checked
  the reconciler against an abstract `ManagedLB` whose steps moved the LB
  toward the model of some ingress version. Every write takes the pass's
  spec, which is always such a model, and the abstract acceptance test was
  the LB service's own guard, so the refinement held by construction and
  was removed. No abstract promise of the controller holds under every
  interleaving without restating one of its definitions: the LB lags the
  ingress by design, and only eventually matches it (`EventuallyConverged`).
