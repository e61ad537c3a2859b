------------------------ MODULE MCCredentialDelivery ------------------------
(***************************************************************************)
(* Instance of CredentialDelivery for TLC.                                 *)
(***************************************************************************)
EXTENDS CredentialDelivery

CONSTANTS n1, l1, s1, k1, k2, v1, v2

S(allowed, selector, key) ==
    [allowed |-> allowed, selector |-> selector, secret |-> s1, key |-> key]

\* One namespace: granted by name, by label under another key, or not at all.
GrantAndRevoke == {S({n1}, {}, k1), S({}, {l1}, k2), S({}, {}, k1)}

\* Both keys, and the second key gone from a rotated Secret.
TwoValues ==
    {[k \in {k1, k2} |-> v1], [k \in {k1, k2} |-> IF k = k1 THEN v2 ELSE KeyMissing]}

=============================================================================
