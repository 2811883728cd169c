--------------------------- MODULE MCTenantContext ---------------------------
(* An instance of TenantContext for TLC. *)
EXTENDS TenantContext, TLC

Symmetry == Permutations(Org) \cup Permutations(Connection)
            \cup Permutations(Request) \cup Permutations(Expense)
=============================================================================
