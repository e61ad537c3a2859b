-------------------------- MODULE MCCapacityRollup --------------------------
(***************************************************************************)
(* Instances of CapacityRollup for TLC: two windows, one or both limited.  *)
(***************************************************************************)
EXTENDS CapacityRollup, TLC

CONSTANTS tpm, rpm

MCWindows == {tpm, rpm}

Q(t, r) == (tpm :> t) @@ (rpm :> r)

MCQuotas == {NoQuota, Q(6, Unset), Q(4, 7)}

P(isDefault, actions, quota) ==
    [isDefault |-> isDefault, actions |-> actions, quota |-> quota]

MCPolicySpecs ==
    {P(TRUE, {}, Q(3, Unset)), P(FALSE, {"Allow"}, Q(5, 2)),
     P(FALSE, {"Deny"}, Q(Unset, 6)), P(FALSE, {"Allow", "Deny"}, NoQuota),
     P(FALSE, {}, Q(5, 2))}

=============================================================================
