-------------------------- MODULE MCQueryLifecycle --------------------------
(***************************************************************************)
(* Three runs of one principal, two of them of the same query.             *)
(***************************************************************************)
EXTENDS QueryLifecycle

CONSTANTS q1, q2, q3        \* runs
CONSTANTS same, other       \* registry keys
CONSTANTS alice             \* an authority

MCKeyOf == [r \in Runs |-> IF r = q3 THEN other ELSE same]
MCOneAuthority == [k \in Keys |-> alice]
MCPolicies == {Operations, Operations \ {"StopQuery"}}
=============================================================================
