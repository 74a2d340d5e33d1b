-------------------------- MODULE MCDispatchQueue --------------------------
(* A tenant with two runs beside a tenant with one.                          *)
EXTENDS DispatchQueue

CONSTANTS a1, a2, b1, a, b
MCRuns == {a1, a2, b1}
MCTenants == {a, b}
MCTenantOf == [r \in MCRuns |-> IF r = b1 THEN b ELSE a]
==============================================================================
