---------------------------- MODULE PathCondition ----------------------------
(***************************************************************************)
(* The match-expression compiler of src/ingress/routing_rule.go: an       *)
(* ingress path (value, pathType) and rule host lowered into the          *)
(* predicate of an LB routing rule, together with a reference definition  *)
(* of what a URL-path glob matches.                                        *)
(*                                                                         *)
(* Data abstraction.  A path value is a sequence over a small alphabet    *)
(* that contains "/" and "*".  A compiled condition is the set of its     *)
(* conjuncts: all(a,b) and the single unwrapped predicate are both a      *)
(* conjunction, and the text formatting is left out.  A raw               *)
(* "condition:<text>" value is a record naming the head of its text; the  *)
(* predicate itself is opaque and is taken to accept every request.       *)
(***************************************************************************)
EXTENDS Naturals, Sequences, SequencesExt

CONSTANTS
    PathChars,      \* characters a path value may contain, "/" and "*" among them
    PreciseHosts,   \* rule hosts without a wildcard label
    WildcardHosts,  \* rule hosts of the form "*.suffix"
    NoHost,         \* the empty rule host
    Invalid         \* the error "Invalid path"

ASSUME {"/", "*"} \subseteq PathChars

Star == "*"

(* A path value: a URL path, or "condition:" followed by text whose      *)
(* trimmed form begins with all(, any(, not all( / not any(, something   *)
(* else, or is blank.                                                      *)
PathValue(text) == [cond |-> FALSE, text |-> text]
RawConditions == [cond: {TRUE}, text: {"all", "any", "not", "atom", "blank"}]

Pred(op, arg) == [op |-> op, arg |-> arg]

StarsOf(p) == {i \in 1..Len(p) : p[i] = Star}

(* url.Parse on a value without ':', '?', '#' or '%': a value that starts *)
(* with exactly two slashes has an authority, the text up to the next    *)
(* slash, and the rest is the path.                                       *)
ParseURL(v) ==
    IF Len(v) >= 2 /\ v[1] = "/" /\ v[2] = "/" /\ ~(Len(v) >= 3 /\ v[3] = "/")
    THEN LET rest == SubSeq(v, 3, Len(v))
             i    == SelectInSeq(rest, LAMBDA c : c = "/")
             cut  == IF i = 0 THEN Len(rest) + 1 ELSE i
         IN  [host |-> SubSeq(rest, 1, cut - 1), path |-> SubSeq(rest, cut, Len(rest))]
    ELSE [host |-> <<>>, path |-> v]

(* ^\*+[^\*]+\*+$ : stars at both ends around one non-empty star-free run *)
StarsAroundRun(p) ==
    LET run == (1..Len(p)) \ StarsOf(p)
    IN  /\ {1, Len(p)} \subseteq StarsOf(p)
        /\ run # {}
        /\ \A i, j \in run : \A k \in i..j : k \in run

(* A compiled predicate: head is what ^(not )?(any|all)\( finds at the   *)
(* start of its text, preds the children of an all(...) or the whole.    *)
Compiled(head, preds) == [head |-> head, preds |-> preds]

(* Faulty variant: the interior-wildcard case swaps the two halves.       *)
ProcessImplementationSpecificPathSwapped(v) ==
    LET p == ParseURL(v.text).path
        n == Len(p)
        s == StarsOf(p)
    IN  CASE v.cond ->
               IF v.text = "blank" THEN Invalid
               ELSE Compiled(v.text, {Pred("raw", v.text)})
          [] v.text = <<>> \/ ParseURL(v.text).host # <<>> -> Invalid
          [] s = {} -> Compiled("all", {Pred("eq", p)})
          [] \E i \in 2..n-1 : s = {i} ->
               LET j == CHOOSE k \in s : TRUE
               IN  Compiled("all", {Pred("sw", SubSeq(p, j + 1, n)), Pred("ew", SubSeq(p, 1, j - 1))})
          [] s = {1} /\ n > 1 -> Compiled("all", {Pred("ew", SubSeq(p, 2, n))})
          [] s = {n} /\ n > 1 -> Compiled("all", {Pred("sw", SubSeq(p, 1, n - 1))})
          [] StarsAroundRun(p) -> Compiled("all", {Pred("cw", SubSeq(p, 2, n - 1))})
          [] OTHER -> Invalid

(* processImplementationSpecificPath: a raw condition with non-blank text *)
(* is used verbatim ("condition:" with blank text parses as a URL with a  *)
(* scheme and is refused); otherwise the value must be a bare URL path,   *)
(* and its wildcards are lowered by the regexp cases, in the code's order. *)
ProcessImplementationSpecificPath(v) ==
    LET p == ParseURL(v.text).path
        n == Len(p)
        s == StarsOf(p)
    IN  CASE v.cond ->
               IF v.text = "blank" THEN Invalid
               ELSE Compiled(v.text, {Pred("raw", v.text)})
          [] v.text = <<>> \/ ParseURL(v.text).host # <<>> -> Invalid
          [] s = {} -> Compiled("all", {Pred("eq", p)})
          [] \E i \in 2..n-1 : s = {i} ->
               LET j == CHOOSE k \in s : TRUE
               IN  Compiled("all", {Pred("sw", SubSeq(p, 1, j - 1)), Pred("ew", SubSeq(p, j + 1, n))})
          [] s = {1} /\ n > 1 -> Compiled("all", {Pred("ew", SubSeq(p, 2, n))})
          [] s = {n} /\ n > 1 -> Compiled("all", {Pred("sw", SubSeq(p, 1, n - 1))})
          [] StarsAroundRun(p) -> Compiled("all", {Pred("cw", SubSeq(p, 2, n - 1))})
          [] OTHER -> Invalid

(* createHostnameCondition: a header predicate for a precise host, none  *)
(* for a wildcard host; createRoutingRule adds none for the empty host.  *)
HostCondition(h) == IF h \in PreciseHosts THEN {Pred("host", h)} ELSE {}

(* Faulty variant: an all(...) custom condition replaces the host        *)
(* predicate instead of being merged with it.                             *)
CreateRoutingRuleFlattenReplaces(pathType, v, h) ==
    CASE pathType = "Exact"  -> HostCondition(h) \cup {Pred("eq", v.text)}
      [] pathType = "Prefix" -> HostCondition(h) \cup {Pred("sw", v.text)}
      [] OTHER ->
           LET c == ProcessImplementationSpecificPath(v)
           IN  CASE c = Invalid -> Invalid
                 [] c.head = "all" -> c.preds
                 [] c.head \in {"any", "not"} -> c.preds
                 [] OTHER -> HostCondition(h) \cup c.preds

(* createRoutingRule: the host predicate and the path predicate; an      *)
(* all(...) custom condition is flattened into the same conjunction, an  *)
(* any(...) or not(...) one replaces the list (host predicate dropped).   *)
CreateRoutingRule(pathType, v, h) ==
    CASE pathType = "Exact"  -> HostCondition(h) \cup {Pred("eq", v.text)}
      [] pathType = "Prefix" -> HostCondition(h) \cup {Pred("sw", v.text)}
      [] OTHER ->
           LET c == ProcessImplementationSpecificPath(v)
           IN  CASE c = Invalid -> Invalid
                 [] c.head = "all" -> HostCondition(h) \cup c.preds
                 [] c.head \in {"any", "not"} -> c.preds
                 [] OTHER -> HostCondition(h) \cup c.preds

-----------------------------------------------------------------------------
(* The LB's evaluation of a conjunction on a request [host, path]: eq,   *)
(* sw (starts with), ew (ends with), cw (contains), the Host header.      *)
Holds(pr, req) ==
    CASE pr.op = "eq"   -> req.path = pr.arg
      [] pr.op = "sw"   -> IsPrefix(pr.arg, req.path)
      [] pr.op = "ew"   -> IsSuffix(pr.arg, req.path)
      [] pr.op = "cw"   -> pr.arg \in SubSeqs(req.path)
      [] pr.op = "host" -> req.host = pr.arg
      [] pr.op = "raw"  -> TRUE

Accepts(conds, req) == \A pr \in conds : Holds(pr, req)

(* Reference: a URL-path glob in which "*" matches any string.           *)
RECURSIVE GlobMatch(_, _)
GlobMatch(g, r) ==
    IF g = <<>> THEN r = <<>>
    ELSE IF Head(g) = Star
         THEN GlobMatch(Tail(g), r) \/ (r # <<>> /\ GlobMatch(g, Tail(r)))
         ELSE r # <<>> /\ Head(r) = Head(g) /\ GlobMatch(Tail(g), Tail(r))

(* The glob shapes spec 4.2 lists: no "*", p*q, *p, p*, *p*.               *)
SpecShape(p) ==
    \/ StarsOf(p) = {}
    \/ Len(p) > 1 /\ \E i \in 1..Len(p) : StarsOf(p) = {i}
    \/ Len(p) > 2 /\ StarsOf(p) = {1, Len(p)}
=============================================================================
