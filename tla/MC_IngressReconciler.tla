------------------------- MODULE MC_IngressReconciler -------------------------
(* Two hosts, two Services, two certificates and three versions of one    *)
(* ingress.  Every version references both backend sets, so an edit never *)
(* drops a backend set a removed routing policy still uses (see           *)
(* MC_HostRemoval for the case where it does).  The edits cover: adding  *)
(* and removing a host, a certificate rotation (c1 -> c2), switching the *)
(* default backend on and off, turning the redirect on and off, a policy *)
(* whose default rule changes, a rule without a host (I3) coming and     *)
(* going, and deleting and re-creating the ingress.                       *)
EXTENDS IngressReconciler

CONSTANTS h1, h2, b1, b2, c1, c2

NoTLS == [h \in {} |-> c1]

I1 == [rules |-> h1 :> {b1}, tls |-> h1 :> c1,
       defaultBackend |-> b2, forceHttps |-> "true", oci |-> TRUE]
I2 == [rules |-> (h1 :> {b1}) @@ (h2 :> {b2}), tls |-> h1 :> c2,
       defaultBackend |-> None, forceHttps |-> "false", oci |-> TRUE]
I3 == [rules |-> (h2 :> {b1, b2}) @@ (EmptyHost :> {b1}), tls |-> NoTLS,
       defaultBackend |-> None, forceHttps |-> "", oci |-> TRUE]

MCIngresses == {I1, I2, I3}

(* Removing host h2 drops backend set b2, which only h2's routing policy *)
(* uses: the hook deletes b2 while that policy, deleted by Run(Delete)   *)
(* after the hook, still forwards to it.                                  *)
J1 == [rules |-> (h1 :> {b1}) @@ (h2 :> {b2}), tls |-> NoTLS,
       defaultBackend |-> None, forceHttps |-> "", oci |-> TRUE]
J2 == [rules |-> h1 :> {b1}, tls |-> NoTLS,
       defaultBackend |-> None, forceHttps |-> "", oci |-> TRUE]

MCHostRemovalIngresses == {J1, J2}

(* I1 moved to another ingress class.                                     *)
K1 == [I1 EXCEPT !.oci = FALSE]

MCClassChangeIngresses == {I1, K1}

(* A TLS entry for h2, which no rule names: the redirector listener      *)
(* refers to a hostname the builder never creates.                        *)
L1 == [rules |-> h1 :> {b1}, tls |-> h2 :> c1,
       defaultBackend |-> None, forceHttps |-> "true", oci |-> TRUE]

(* The safety run also lets the ingress leave the class, drop a backend *)
(* set with its host (I3 -> J2) and take a version the LB refuses.       *)
MCSafetyIngresses == MCIngresses \cup {K1, J2, L1}
=============================================================================
