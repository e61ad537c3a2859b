-------------------------- MODULE MCCredentialSync --------------------------
(***************************************************************************)
(* Instances of CredentialSync for TLC.                                    *)
(***************************************************************************)
EXTENDS CredentialSync

CONSTANTS n1, n2, l1, s1, s2, k1, k2, v1, v2

S(allowed, selector, secret, key) ==
    [allowed |-> allowed, selector |-> selector, secret |-> secret, key |-> key]

\* A list, a selector, and a list that revokes what the other two grant n1.
ListAndSelector ==
    {S({n1}, {}, s1, k1), S({}, {l1}, s1, k2), S({n2}, {}, s1, k1)}

\* One namespace: granted by name, by label, or not at all.
GrantAndRevoke ==
    {S({n1}, {}, s1, k1), S({}, {l1}, s2, k1), S({}, {}, s1, k2)}

\* Both keys with one value, and the second key gone from a rotated Secret.
OneValue ==
    {[k \in {k1, k2} |-> v1], [k \in {k1, k2} |-> IF k = k1 THEN v1 ELSE KeyMissing]}

TwoValues ==
    {[k \in {k1, k2} |-> v1], [k \in {k1, k2} |-> IF k = k1 THEN v2 ELSE KeyMissing]}

=============================================================================
