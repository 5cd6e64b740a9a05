--------------------------- MODULE IngressReconciler ---------------------------
(***************************************************************************)
(* One ingress key, the single reconcile worker that serves it, and the   *)
(* load balancer named after it.                                           *)
(*                                                                         *)
(*  - the cluster (environment) edits, deletes and re-creates the ingress *)
(*    and re-delivers it on resync and node events; every event adds the  *)
(*    key to the work queue (src/controller/handlers);                     *)
(*  - the worker runs Reconcile (src/controller/reconciller.go), i.e.      *)
(*    lbManager.UpdateOrCreateIngress or DeleteIngress                     *)
(*    (src/manager/manager.go), one LB call per step, with the            *)
(*    ActionDispatcher of src/manager/actions.go;                          *)
(*  - the LB service completes create/delete work requests, and accepts a *)
(*    sub-resource mutation only on an ACTIVE LB whose references stay     *)
(*    valid (LBModel!Valid);                                               *)
(*  - the cluster also edits the Services the ingress references (their *)
(*    NodePort or health-check annotations); the controller does not   *)
(*    watch Services (setupEventListeners), so no event follows;         *)
(*  - the process may crash; on restart the informer re-lists the         *)
(*    ingresses that still exist.                                          *)
(* The controller is built with default options (controller.go), i.e. one *)
(* worker, and UpdateOrCreateIngress holds the manager mutex, so at most  *)
(* one reconcile runs at a time.                                           *)
(***************************************************************************)
EXTENDS LBModel, Naturals, Bags

CONSTANTS
    Ingresses,      \* the versions of the ingress the cluster may hold
    MaxEdits,       \* bound on edits and deletions of the ingress
    MaxFailures,    \* bound on transient failures of LB and API calls
    MaxCrashes,     \* bound on process crashes
    MaxThrottles,   \* bound on calls refused by the client's write token bucket
    AllowDelete,    \* the cluster may delete the ingress
    MaxSvcEdits     \* bound on edits of the referenced Services

VARIABLES
    ingress,    \* the ingress in the informer cache; None when deleted
    svc,        \* backend set -> content of its Service port in the cluster
    queued,     \* the work queue holds the key
    lbState,    \* lifecycle state of the LB named after the ingress
    lbc,        \* its sub-resources
    pc,         \* position of the worker
    ing,        \* the ingress Reconcile read from the cache
    spec,       \* DesiredLB(ing, svc), built before the LB lookup
    acts,       \* ActionDispatcher._actions
    done,       \* the actions whose done flag is set
    todo,       \* actions the current ActionDispatcher.Run call has left
    lbNil,      \* the re-fetch in updateLoadBalancer failed and lb is nil
    issued,     \* bag of the actions executed in this reconcile (history)
    failures, crashes, edits, throttles, svcEdits

vars == <<ingress, queued, lbState, lbc, pc, ing, spec, acts, done, todo,
          lbNil, issued, failures, crashes, edits, throttles, svc, svcEdits>>
workerVars == <<pc, ing, spec, acts, done, todo, lbNil, issued>>

RuleSetName == "https_301_redirection"
LBStates == {"NONE", "CREATING", "ACTIVE", "FAILED", "DELETING"}

(* Subjects in the order updateLoadBalancer registers them, which is the *)
(* order allSubjects() returns and Run visits.                            *)
Subjects == <<"routingpolicy", "ruleSet", "hostname", "certificate">>
Rank(s) == CHOOSE i \in 1..4 : Subjects[i] = s

Actions ==
    [verb: {"create", "update", "delete"}, subj: {"routingpolicy"}, key: Hosts]
      \cup [verb: {"create", "update", "delete"}, subj: {"ruleSet"}, key: {RuleSetName}]
      \cup [verb: {"create", "delete"}, subj: {"hostname"}, key: Hosts]
      \cup [verb: {"create", "delete"}, subj: {"certificate"}, key: Certs]

PreHookPhases == {"prehook_bs", "prehook_lsn", "prehook_bsdel"}
HookPhases    == {"hook_bs", "hook_lsn", "hook_bsdel"}
RunPhases     == {"run_create", "run_update_rp", "run_update", "run_delete"}
PCs == {"idle", "lookup", "create", "create_await", "refetch", "status",
        "delete", "delete_await"} \cup PreHookPhases \cup HookPhases \cup RunPhases

(* The fixed sequence of updateLoadBalancer.                              *)
NextPc ==
    [prehook_bs |-> "prehook_lsn", prehook_lsn |-> "prehook_bsdel",
     prehook_bsdel |-> "refetch", refetch |-> "run_create",
     run_create |-> "run_update_rp", run_update_rp |-> "hook_bs",
     hook_bs |-> "hook_lsn", hook_lsn |-> "hook_bsdel", hook_bsdel |-> "run_update",
     run_update |-> "run_delete", run_delete |-> "status"]

-----------------------------------------------------------------------------
(* Diffs of the enqueue*Actions functions against the lb snapshot.        *)
Act(v, s, k) == [verb |-> v, subj |-> s, key |-> k]

(* Faulty variant: the toBeUpdated loop is missing.                       *)
RoutingPolicyActionsNoUpdate(s, c) ==
    {Act("create", "routingpolicy", k) : k \in ToBeCreated(s.rp, c.rp)}
      \cup {Act("delete", "routingpolicy", k) : k \in ToBeRemoved(s.rp, c.rp)}

RoutingPolicyActions(s, c) ==
    {Act("create", "routingpolicy", k) : k \in ToBeCreated(s.rp, c.rp)}
      \cup {Act("update", "routingpolicy", k) : k \in ToBeUpdated(s.rp, c.rp)}
      \cup {Act("delete", "routingpolicy", k) : k \in ToBeRemoved(s.rp, c.rp)}

(* The redirect rule set's items are constant, so StructsAreEqualForKeys *)
(* on Items never reports a change and only create and delete occur.     *)
RuleSetMap(present) == IF present THEN AsMap({RuleSetName}) ELSE AsMap({})
RuleSetActions(s, c) ==
    {Act("create", "ruleSet", k) : k \in ToBeCreated(RuleSetMap(s.rs), RuleSetMap(c.rs))}
      \cup {Act("delete", "ruleSet", k) : k \in ToBeRemoved(RuleSetMap(s.rs), RuleSetMap(c.rs))}

(* Faulty variant: the hostname diff reads the certificate maps.          *)
HostnameActionsFromCerts(s, c) ==
    {Act("create", "hostname", k) : k \in ToBeCreated(AsMap(s.cert), AsMap(c.cert))}
      \cup {Act("delete", "hostname", k) : k \in ToBeRemoved(AsMap(s.cert), AsMap(c.cert))}

HostnameActions(s, c) ==
    {Act("create", "hostname", k) : k \in ToBeCreated(AsMap(s.hn), AsMap(c.hn))}
      \cup {Act("delete", "hostname", k) : k \in ToBeRemoved(AsMap(s.hn), AsMap(c.hn))}

(* Faulty variant: the toBeRemoved loop is missing.                       *)
CertificateActionsNoDelete(s, c) ==
    {Act("create", "certificate", k) : k \in ToBeCreated(AsMap(s.cert), AsMap(c.cert))}

(* Names are content-derived, so the intersection never differs.         *)
CertificateActions(s, c) ==
    {Act("create", "certificate", k) : k \in ToBeCreated(AsMap(s.cert), AsMap(c.cert))}
      \cup {Act("delete", "certificate", k) : k \in ToBeRemoved(AsMap(s.cert), AsMap(c.cert))}

EnqueueActions(s, c) ==
    RoutingPolicyActions(s, c) \cup RuleSetActions(s, c)
      \cup HostnameActions(s, c) \cup CertificateActions(s, c)

(* action.do() sets a.done in a deferred call on its value receiver, a   *)
(* copy of the element Run ranges over: the flag never reaches           *)
(* ad._actions.                                                           *)
DoneAfterDo(d, a) == d

(* The actions Run(verb, subjects...) will execute: not done, of the verb *)
(* and, for Run(UpdateAction, "routingpolicy"), of that subject.          *)
RunVerb == [run_create |-> "create", run_update_rp |-> "update",
            run_update |-> "update", run_delete |-> "delete"]
RunSubjects(p) == IF p = "run_update_rp" THEN {"routingpolicy"} ELSE {Subjects[i] : i \in 1..4}
TodoOf(p, a, d) == {x \in a \ d : x.verb = RunVerb[p] /\ x.subj \in RunSubjects(p)}

(* The LB state after a dispatcher action's work request and its         *)
(* patchLbInfo callback.                                                  *)
Toggled(S, k, present) == IF present THEN S \cup {k} ELSE S \ {k}

Apply(c, a, s) ==
    LET present == a.verb # "delete" IN
    CASE a.subj = "routingpolicy" ->
            [c EXCEPT !.rp = IF present THEN (a.key :> s.rp[a.key]) @@ c.rp
                             ELSE Restrict(c.rp, DOMAIN c.rp \ {a.key})]
      [] a.subj = "ruleSet"     -> [c EXCEPT !.rs = present]
      [] a.subj = "hostname"    -> [c EXCEPT !.hn = Toggled(c.hn, a.key, present)]
      [] a.subj = "certificate" -> [c EXCEPT !.cert = Toggled(c.cert, a.key, present)]

(* The listener and backend-set hook (dummyCp.UpdateLoadBalancer, not in *)
(* this repository), as §4.5 of the spec describes it: create or update  *)
(* backend sets, then converge listeners, then delete backend sets,      *)
(* stopping at the first call the service refuses.                       *)
HookContent(p, c, s) ==
    CASE p \in {"prehook_bs", "hook_bs"}       -> [c EXCEPT !.bs = s.bs @@ c.bs]
      [] p \in {"prehook_lsn", "hook_lsn"}     -> [c EXCEPT !.lsn = s.lsn]
      [] p \in {"prehook_bsdel", "hook_bsdel"} -> [c EXCEPT !.bs = Restrict(c.bs, DOMAIN s.bs)]

-----------------------------------------------------------------------------
Init ==
    /\ ingress \in Ingresses
    /\ svc \in [BackendSets -> SvcVersions]
    /\ queued = TRUE
    /\ lbState = "NONE"
    /\ lbc = EmptyLB
    /\ pc = "idle"
    /\ ing = None
    /\ spec = None
    /\ acts = {} /\ done = {} /\ todo = {}
    /\ lbNil = FALSE
    /\ issued = EmptyBag
    /\ failures = 0 /\ crashes = 0 /\ edits = 0 /\ throttles = 0 /\ svcEdits = 0

(* Entering step p of the update pass; a Run step starts its Run call   *)
(* over the registered actions (acts is fixed once the pass has begun). *)
Enter(p, d) ==
    /\ pc' = p
    /\ todo' = IF p \in RunPhases THEN TodoOf(p, acts, d) ELSE {}

(* Reconcile returns: a retryable error re-adds the key (AddRateLimited);*)
(* success and swallowed errors leave the queue as the events left it.   *)
Finish(retry) ==
    /\ pc' = "idle"
    /\ queued' = (queued \/ retry)
    /\ ing' = None /\ spec' = None
    /\ acts' = {} /\ done' = {} /\ todo' = {}
    /\ lbNil' = FALSE /\ issued' = EmptyBag

(* A call that fails for a transient reason: a service error that        *)
(* IsRetryableError accepts (429, 500, ...) or one it does not (a failed *)
(* work request, a rate-limit error, a 5xx without a listed code).       *)
TransientFailure(OnRetry, OnFatal) ==
    /\ failures < MaxFailures
    /\ failures' = failures + 1
    /\ OnRetry \/ OnFatal

(* One mutating LB call and its work request.  The service refuses it    *)
(* with 409 IncorrectState (retryable) while the LB is not ACTIVE and    *)
(* with a 400 (not retryable) when a reference would dangle.             *)
LBCall(newc, OnOk, OnRetry, OnFatal) ==
    \/ /\ lbState = "ACTIVE" /\ Valid(newc)
       /\ lbc' = newc
       /\ OnOk
       /\ UNCHANGED failures
    \/ /\ ~(lbState = "ACTIVE" /\ Valid(newc))
       /\ IF lbState # "ACTIVE" THEN OnRetry ELSE OnFatal
       /\ UNCHANGED <<lbc, failures>>
    \/ /\ TransientFailure(OnRetry, OnFatal)
       /\ UNCHANGED lbc

(* The hook issues no call when nothing of its phase differs.            *)
HookCall(newc, OnOk, OnRetry, OnFatal) ==
    IF newc = lbc THEN OnOk /\ UNCHANGED <<lbc, failures>>
    ELSE LBCall(newc, OnOk, OnRetry, OnFatal)

(* updateLoadBalancer starts: the four enqueue functions diff the spec   *)
(* against the lb snapshot.                                               *)
StartUpdate(c) ==
    /\ acts' = EnqueueActions(spec, c)
    /\ done' = {}
    /\ Enter("prehook_bs", {})

-----------------------------------------------------------------------------
(* Reconcile: take the key, read the ingress; missing -> DeleteIngress,  *)
(* present -> UpdateOrCreateIngress, which first builds the spec: an     *)
(* ingress validateIngress refuses, or a backend whose Service has no    *)
(* NodePort, is a wrapped, not retryable error.                          *)
Start ==
    /\ pc = "idle" /\ queued
    /\ queued' = FALSE
    /\ \/ /\ ingress = None
          /\ pc' = "delete" /\ ing' = None /\ spec' = None
       \/ /\ ingress # None /\ ValidIngress(ingress) /\ ~BuildFails(ingress, svc)
          /\ pc' = "lookup" /\ ing' = ingress /\ spec' = DesiredLB(ingress, svc)
       \/ /\ ingress # None /\ (~ValidIngress(ingress) \/ BuildFails(ingress, svc))
          /\ UNCHANGED <<pc, ing, spec>>
    /\ UNCHANGED <<acts, done, todo, lbNil, issued, lbState, lbc, ingress,
                   failures, crashes, edits>>

(* tryGetLoadBalancerByNamespacedName, then the branch on its result.   *)
Lookup ==
    /\ pc = "lookup"
    /\ \/ /\ TransientFailure(Finish(TRUE), Finish(FALSE))
          /\ UNCHANGED lbc
       \/ /\ lbState = "NONE"
          /\ pc' = "create"
          /\ UNCHANGED <<queued, ing, spec, acts, done, todo, lbNil, issued, lbc, failures>>
       \/ /\ lbState \in {"FAILED", "DELETING"}
          /\ Finish(FALSE)
          /\ UNCHANGED <<lbc, failures>>
       \/ /\ lbState \in {"CREATING", "ACTIVE"}
          /\ StartUpdate(lbc)
          /\ UNCHANGED <<queued, ing, spec, lbNil, issued, lbc, failures>>
    /\ UNCHANGED <<lbState, ingress, crashes, edits>>

(* createLoadBalancer issues CreateLoadBalancer with CreateContent(spec). *)
CreateLB ==
    /\ pc = "create"
    /\ \/ /\ Valid(CreateContent(spec))
          /\ lbState' = "CREATING" /\ lbc' = CreateContent(spec)
          /\ pc' = "create_await"
          /\ UNCHANGED <<queued, ing, spec, acts, done, todo, lbNil, issued, failures>>
       \/ /\ ~Valid(CreateContent(spec))
          /\ Finish(FALSE)
          /\ UNCHANGED <<lbState, lbc, failures>>
       \/ /\ TransientFailure(Finish(TRUE), Finish(FALSE))
          /\ UNCHANGED <<lbState, lbc>>
    /\ UNCHANGED <<ingress, crashes, edits>>

(* AwaitWorkRequest returns once the work request is terminal; then     *)
(* GetLoadBalancer and the update pass that attaches routing policies.  *)
CreateAwait ==
    /\ pc = "create_await"
    /\ lbState # "CREATING"
    /\ \/ /\ lbState = "ACTIVE"
          /\ StartUpdate(lbc)
          /\ UNCHANGED <<queued, ing, spec, lbNil, issued, failures>>
       \/ /\ lbState = "ACTIVE"
          /\ TransientFailure(Finish(TRUE), Finish(FALSE))
       \/ /\ lbState # "ACTIVE"
          /\ Finish(FALSE)
          /\ UNCHANGED failures
    /\ UNCHANGED <<lbState, lbc, ingress, crashes, edits>>

(* The first, error-suppressed call of the hook.                         *)
PreHook ==
    /\ pc \in PreHookPhases
    /\ HookCall(HookContent(pc, lbc, spec), Enter(NextPc[pc], done),
                Enter("refetch", done), Enter("refetch", done))
    /\ UNCHANGED <<queued, ing, spec, acts, done, lbNil, issued, lbState, ingress,
                   crashes, edits>>

(* lb, _ = GetLoadBalancer(...): on error lb becomes nil.                *)
Refetch ==
    /\ pc = "refetch"
    /\ \/ /\ lbNil' = FALSE
          /\ UNCHANGED failures
       \/ /\ failures < MaxFailures
          /\ failures' = failures + 1
          /\ lbNil' = TRUE
    /\ Enter("run_create", done)
    /\ UNCHANGED <<queued, ing, spec, acts, done, issued, lbState, lbc, ingress,
                   crashes, edits>>

(* Run executes the next not-done action of the first subject that has  *)
(* one, awaits its work request and applies patchLbInfo; the first error *)
(* ends updateLoadBalancer.                                              *)
RunAction ==
    /\ pc \in RunPhases
    /\ todo # {}
    /\ \E a \in todo :
        /\ \A b \in todo : Rank(a.subj) <= Rank(b.subj)
        /\ LBCall(Apply(lbc, a, spec),
                  /\ done' = DoneAfterDo(done, a)
                  /\ todo' = todo \ {a}
                  /\ issued' = issued (+) SetToBag({a})
                  /\ UNCHANGED <<pc, queued, ing, spec, acts, lbNil>>,
                  Finish(TRUE), Finish(FALSE))
    /\ UNCHANGED <<lbState, ingress, crashes, edits>>

(* Every client wrapper of loadbalancer_extra.go first takes a token of  *)
(* the shared write bucket and returns RateLimitError, without calling    *)
(* the service, when it is empty.  RateLimitError is a plain error, which *)
(* IsRetryableError rejects: Run, updateLoadBalancer and Reconcile pass   *)
(* it up and Reconcile swallows it.                                        *)
Throttled ==
    /\ pc \in RunPhases
    /\ todo # {}
    /\ throttles < MaxThrottles
    /\ throttles' = throttles + 1
    /\ Finish(FALSE)
    /\ UNCHANGED <<lbState, lbc, ingress, failures, crashes, edits>>

RunDone ==
    /\ pc \in RunPhases
    /\ todo = {}
    /\ Enter(NextPc[pc], done)
    /\ UNCHANGED <<queued, ing, spec, acts, done, lbNil, issued, lbState, lbc,
                   ingress, failures, crashes, edits>>

(* The second call of the hook; its error is returned.  With a nil lb it *)
(* dereferences lb.Id and the panic ends the process.                    *)
Hook ==
    /\ pc \in HookPhases
    /\ ~lbNil
    /\ HookCall(HookContent(pc, lbc, spec),
                /\ Enter(NextPc[pc], done)
                /\ UNCHANGED <<queued, ing, spec, acts, done, lbNil, issued>>,
                Finish(TRUE), Finish(FALSE))
    /\ UNCHANGED <<lbState, ingress, crashes, edits>>

(* updateIngressStatus: an LB without an IP and a conflicting or failed  *)
(* Status().Update are errors made with fmt.Errorf, which Reconcile      *)
(* swallows like success: either way the reconcile ends without requeue. *)
Status ==
    /\ pc = "status"
    /\ Finish(FALSE)
    /\ UNCHANGED <<lbState, lbc, ingress, failures, crashes, edits>>

(* DeleteIngress: look the LB up and issue DeleteLoadBalancer.           *)
DeleteLB ==
    /\ pc = "delete"
    /\ \/ /\ TransientFailure(Finish(TRUE), Finish(FALSE))
          /\ UNCHANGED lbState
       \/ /\ lbState = "NONE"
          /\ Finish(FALSE)
          /\ UNCHANGED <<lbState, failures>>
       \/ /\ lbState \in {"ACTIVE", "FAILED"}
          /\ lbState' = "DELETING"
          /\ pc' = "delete_await"
          /\ UNCHANGED <<queued, ing, spec, acts, done, todo, lbNil, issued, failures>>
       \/ /\ lbState \in {"CREATING", "DELETING"}
          /\ Finish(TRUE)
          /\ UNCHANGED <<lbState, failures>>
    /\ UNCHANGED <<lbc, ingress, crashes, edits>>

DeleteAwait ==
    /\ pc = "delete_await"
    /\ lbState # "DELETING"
    /\ Finish(FALSE)
    /\ UNCHANGED <<lbState, lbc, ingress, failures, crashes, edits>>

-----------------------------------------------------------------------------
(* The LB service completes work requests on its own.                    *)
CompleteCreate ==
    /\ lbState = "CREATING"
    /\ \/ lbState' = "ACTIVE" /\ UNCHANGED failures
       \/ /\ failures < MaxFailures /\ failures' = failures + 1
          /\ lbState' = "FAILED"
    /\ UNCHANGED <<lbc, ingress, queued, workerVars, crashes, edits, throttles>>

CompleteDelete ==
    /\ lbState = "DELETING"
    /\ \/ lbState' = "NONE" /\ lbc' = EmptyLB /\ UNCHANGED failures
       \/ /\ failures < MaxFailures /\ failures' = failures + 1
          /\ lbState' = "ACTIVE" /\ UNCHANGED lbc
    /\ UNCHANGED <<ingress, queued, workerVars, crashes, edits, throttles>>

(* The ingress event handler adds the key when the event's object has   *)
(* the OCI class: Create and Update look at the new object (Update looks *)
(* at ObjectNew twice), Delete at the deleted one.                       *)
EventEnqueues(old, new) == IF new = None THEN IsOCI(old) ELSE IsOCI(new)

(* The cluster creates, updates or deletes the ingress.                  *)
EditIngress ==
    /\ edits < MaxEdits
    /\ \E i \in Ingresses \cup (IF AllowDelete THEN {None} ELSE {}) :
        /\ i # ingress
        /\ ingress' = i
        /\ queued' = (queued \/ EventEnqueues(ingress, i))
    /\ edits' = edits + 1
    /\ UNCHANGED <<lbState, lbc, workerVars, failures, crashes, throttles>>

(* The secret behind certificate c is deleted: every TLS host whose      *)
(* secret it was now has none.                                           *)
SecretGone(i, c) ==
    [i EXCEPT !.tls = [h \in DOMAIN i.tls |-> IF i.tls[h] = c THEN BadSecret ELSE i.tls[h]]]

(* secretEventHandler.Delete is empty: the deletion enqueues nothing, so *)
(* the LB keeps the certificate until the next event or resync, whose    *)
(* build then fails.  A secret created or updated again is an edit of   *)
(* the ingress input and enqueues it (EditIngress).                      *)
DeleteSecret ==
    /\ edits < MaxEdits
    /\ ingress # None
    /\ \E c \in Range(ingress.tls) \cap Certs : ingress' = SecretGone(ingress, c)
    /\ edits' = edits + 1
    /\ UNCHANGED <<queued, lbState, lbc, workerVars, failures, crashes, throttles>>

(* Informer resync and node create/delete events enqueue every existing  *)
(* OCI ingress.                                                           *)
Resync ==
    /\ ingress # None /\ IsOCI(ingress) /\ ~queued
    /\ queued' = TRUE
    /\ UNCHANGED <<ingress, lbState, lbc, workerVars, failures, crashes, edits,
                   throttles, svc, svcEdits>>

(* The process dies mid-reconcile (also the nil-lb panic); after restart *)
(* the initial list enqueues the ingress if it still exists with the OCI *)
(* class.                                                                  *)
Restart ==
    /\ pc' = "idle"
    /\ queued' = (ingress # None /\ IsOCI(ingress))
    /\ ing' = None /\ spec' = None
    /\ acts' = {} /\ done' = {} /\ todo' = {}
    /\ lbNil' = FALSE /\ issued' = EmptyBag
    /\ UNCHANGED <<ingress, lbState, lbc, failures, edits, throttles>>

Crash ==
    /\ pc # "idle"
    /\ crashes < MaxCrashes
    /\ crashes' = crashes + 1
    /\ Restart

NilPanic ==
    /\ pc \in HookPhases /\ lbNil
    /\ Restart
    /\ UNCHANGED crashes

(* A Service the ingress references changes: its NodePort, or the       *)
(* health-check annotations GetBackendSets reads, or it is created or    *)
(* deleted (NoNodePort when SvcVersions holds it).  Nothing is enqueued:  *)
(* setupEventListeners watches ingresses, nodes and secrets only.         *)
EditService ==
    /\ svcEdits < MaxSvcEdits
    /\ \E b \in BackendSets, v \in SvcVersions :
        /\ v # svc[b]
        /\ svc' = [svc EXCEPT ![b] = v]
    /\ svcEdits' = svcEdits + 1
    /\ UNCHANGED <<ingress, queued, lbState, lbc, workerVars, failures, crashes,
                   edits, throttles>>

Worker ==
    /\ \/ /\ \/ Start \/ Lookup \/ CreateLB \/ CreateAwait \/ PreHook \/ Refetch
             \/ RunAction \/ RunDone \/ Hook \/ Status \/ DeleteLB \/ DeleteAwait
          /\ UNCHANGED throttles
       \/ Throttled \/ NilPanic
    /\ UNCHANGED <<svc, svcEdits>>

Service == (CompleteCreate \/ CompleteDelete) /\ UNCHANGED <<svc, svcEdits>>

Next == \/ Worker \/ Service \/ EditService
        \/ (EditIngress \/ DeleteSecret \/ Resync \/ Crash) /\ UNCHANGED <<svc, svcEdits>>

(* The worker and the LB service are never stopped forever; resync is   *)
(* periodic (controller-runtime's default SyncPeriod).                   *)
Fairness == WF_vars(Worker) /\ WF_vars(Service) /\ WF_vars(Resync)

Spec == Init /\ [][Next]_vars /\ Fairness

-----------------------------------------------------------------------------
TypeOK ==
    /\ ingress \in IngressType \cup {None}
    /\ queued \in BOOLEAN
    /\ lbState \in LBStates
    /\ IsLBContent(lbc)
    /\ pc \in PCs
    /\ ing \in IngressType \cup {None}
    /\ spec = None \/ IsLBContent(spec)
    /\ acts \subseteq Actions /\ done \subseteq acts /\ todo \subseteq acts
    /\ lbNil \in BOOLEAN
    /\ IsPartialFn(issued, Actions, Nat)
    /\ failures \in 0..MaxFailures /\ crashes \in 0..MaxCrashes /\ edits \in 0..MaxEdits
    /\ throttles \in 0..MaxThrottles
    /\ svc \in [BackendSets -> SvcVersions] /\ svcEdits \in 0..MaxSvcEdits

(* When updateLoadBalancer returns without error, the LB holds exactly   *)
(* the spec the reconcile built: every create, update and delete the    *)
(* diff planned has been applied and the hook converged listeners and   *)
(* backend sets (manager.go updateLoadBalancer).                         *)
ConvergedOnSuccess == pc = "status" => lbc = spec

(* The controller no longer manages the ingress: deleted or re-classed.  *)
Unmanaged == ingress = None \/ ~IsOCI(ingress)

(* The LB matches the ingress and Services the cluster holds, or is gone *)
(* with the ingress; while a backend Service has no NodePort there is no *)
(* model to match and the controller leaves the LB as it is.             *)
Converged ==
    IF Unmanaged THEN lbState = "NONE"
    ELSE \/ BuildFails(ingress, svc)
         \/ lbState = "ACTIVE" /\ lbc = DesiredLB(ingress, svc)

(* Once the cluster stops changing, the controller brings the LB to the *)
(* ingress and keeps it there (the reconciler's purpose, spec §1).       *)
EventuallyConverged == <>[]Converged

(* The LB of an ingress that is deleted, or leaves the OCI class, is     *)
(* eventually deleted, unless the ingress comes back (DeleteIngress,     *)
(* spec 4.8; the controller owns the LB only through the ingress).        *)
OrphanedLBRemoved == Unmanaged ~> (lbState = "NONE" \/ ~Unmanaged)

(* Spec 5: retryable errors, RateLimited among them, are returned so the *)
(* work queue requeues the key; only terminal errors are swallowed.  So  *)
(* while the worker is idle with the LB ACTIVE but short of the model of  *)
(* the managed, buildable ingress, the key is still queued: no reconcile *)
(* ends leaving a half-built LB with no work pending (Reconcile's return  *)
(* and ignoreNonRetriableError).                                          *)
PendingWorkQueued ==
    /\ pc = "idle" /\ ~Unmanaged /\ ValidIngress(ingress) /\ ~BuildFails(ingress, svc)
    /\ lbState = "ACTIVE" /\ lbc # DesiredLB(ingress, svc)
    => queued

(* ActionDispatcher.Run executes an action at most once (spec §4.5,     *)
(* the panic guard in action.do).                                        *)
ActionsRunAtMostOnce == \A a \in DOMAIN issued : issued[a] <= 1
=============================================================================
