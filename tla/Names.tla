-------------------------------- MODULE Names --------------------------------
(***************************************************************************)
(* The names the spec builder derives for LB sub-resources: routing-policy *)
(* and listener names from the rule host (src/ingress/helpers.go), routing *)
(* rule names from the ingress path (ObjectHash, routing_rule.go), and the *)
(* digest both use (ByteAlphaNumericDigest, src/utils/utils.go).           *)
(*                                                                         *)
(* A string is a sequence of one-character strings.  md5 is not modelled: *)
(* a digest is computed from the successive results of its inner gen()    *)
(* (md5, base64, "=" trimmed, "/" -> "a", "+" -> "b"), given as a        *)
(* sequence outs of 22-character strings over letters and digits; which  *)
(* gen result belongs to which input is left open.                        *)
(***************************************************************************)
EXTENDS Naturals, Sequences, SequencesExt

CONSTANTS
    Letters,    \* the letters in use, upper and lower case
    Digits,     \* the digits in use
    UpperCase,  \* strings.ToLower on the upper-case letters in use
    DigitShift  \* 'a' + '9' - d for each digit d in use

(* strings.ToLower                                                         *)
Lower(s) == [i \in DOMAIN s |-> IF s[i] \in DOMAIN UpperCase THEN UpperCase[s[i]] ELSE s[i]]

(* strings.ReplaceAll: leftmost, non-overlapping occurrences of old.     *)
RECURSIVE StrReplaceAll(_, _, _)
StrReplaceAll(s, old, new) ==
    LET at == {i \in 1..Len(s) - Len(old) + 1 : SubSeq(s, i, i + Len(old) - 1) = old}
    IN  IF at = {} THEN s
        ELSE SubSeq(s, 1, Min(at) - 1) \o new
               \o StrReplaceAll(SubSeq(s, Min(at) + Len(old), Len(s)), old, new)

(* utils.SafeSlice(s, start, end) with Go's 0-based, end-exclusive bounds *)
SafeSlice(s, start, end) ==
    CASE start >= Len(s) \/ end < start -> <<>>
      [] end > Len(s)                   -> SubSeq(s, start + 1, Len(s))
      [] OTHER                          -> SubSeq(s, start + 1, end)

(* ByteAlphaNumericDigest: a first character that is a digit d is moved  *)
(* to the end as the letter 'a' + '9' - d; the digest is extended with   *)
(* gen of itself until it is long enough, and cut to length.             *)
RECURSIVE Extended(_, _, _)
Extended(d, outs, length) ==
    IF Len(d) >= length THEN d
    ELSE Extended(d \o Head(outs), Tail(outs), length)

ByteAlphaNumericDigest(outs, length) ==
    LET g == Head(outs)
        d == IF g[1] \in Digits THEN Tail(g) \o <<DigitShift[g[1]]>> ELSE g
    IN  SubSeq(Extended(d, Tail(outs), length), 1, length)

(* createRoutingRule: ruleName := ObjectHash(ingressPath, 22), the digest *)
(* of the path's gob encoding.                                            *)
RuleName(outs) == ByteAlphaNumericDigest(outs, 22)

(* Faulty variant: a host starting with a digit is not prefixed with     *)
(* "X_", so the name starts with the digit.                             *)
RoutingPolicyNameNoPrefix(hostname, outs) ==
    LET n1 == StrReplaceAll(Lower(hostname), <<"*", ".">>, <<"S", "_">>)
        n4 == StrReplaceAll(StrReplaceAll(StrReplaceAll(n1, <<".">>, <<"_">>), <<"-">>, <<"_">>), <<"_", "_">>, <<"_">>)
    IN  SafeSlice(SafeSlice(n4, 0, 25) \o <<"_">> \o ByteAlphaNumericDigest(outs, 32), 0, 32)

(* getRoutingPolicyName, up to the pattern check that panics.            *)
RoutingPolicyNameOf(hostname, outs) ==
    LET n1 == StrReplaceAll(Lower(hostname), <<"*", ".">>, <<"S", "_">>)
        n2 == StrReplaceAll(n1, <<".">>, <<"_">>)
        n3 == StrReplaceAll(n2, <<"-">>, <<"_">>)
        n4 == StrReplaceAll(n3, <<"_", "_">>, <<"_">>)
        n5 == IF n4 # <<>> /\ n4[1] \in Digits THEN <<"X", "_">> \o n4 ELSE n4
    IN  SafeSlice(SafeSlice(n5, 0, 25) \o <<"_">> \o ByteAlphaNumericDigest(outs, 32), 0, 32)

AnyHost == <<"a", "n", "y", "-", "h", "o", "s", "t">>
STAR == <<"S", "T", "A", "R">>
DOT  == <<"D", "O", "T">>

(* GetListenerName, up to the pattern check that panics.                 *)
ListenerNameOf(hostname, outs) ==
    LET n == StrReplaceAll(StrReplaceAll(Lower(hostname), <<"*", ".">>, STAR), <<".">>, DOT)
    IN  CASE hostname = <<>> -> AnyHost
          [] Len(n) > 240    -> SafeSlice(SubSeq(n, 1, 240) \o ByteAlphaNumericDigest(outs, 15), 0, 255)
          [] OTHER           -> n

(* getHostnameName                                                         *)
HostnameNameOf(hostname, outs) ==
    IF Len(hostname) > 240
    THEN SafeSlice(SubSeq(hostname, 1, 240) \o ByteAlphaNumericDigest(outs, 15), 0, 255)
    ELSE hostname

(* The patterns getRoutingPolicyName and GetListenerName check, panicking *)
(* when a name fails them: ^[a-zA-Z_][a-zA-Z_0-9]{1,31}$ and              *)
(* ^[a-zA-Z0-9_-]{1,255}$.                                                 *)
IsPolicyName(n) ==
    /\ Len(n) \in 2..32
    /\ n[1] \in Letters \cup {"_"}
    /\ \A i \in 1..Len(n) : n[i] \in Letters \cup Digits \cup {"_"}

IsListenerName(n) ==
    /\ Len(n) \in 1..255
    /\ \A i \in 1..Len(n) : n[i] \in Letters \cup Digits \cup {"_", "-"}
=============================================================================
