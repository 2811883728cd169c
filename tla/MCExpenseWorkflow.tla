-------------------------- MODULE MCExpenseWorkflow --------------------------
(* Instances of ExpenseWorkflow for TLC. *)
EXTENDS ExpenseWorkflow, TLC

CONSTANTS acme, globex, emma, max, fay, gus, ed, kim, e1, r1, r2

\* Acme: Emma's manager Max approves; Fay and the newer Gus are the finance
\* team.  Globex has no finance team, only the admin Kim; its employee Ed
\* reports to Max, who works for Acme.
MCUser      == {emma, max, fay, gus, ed, kim}
MCOrg       == {acme, globex}
MCOrgOf     == ed :> globex @@ kim :> globex @@ [u \in MCUser |-> acme]
MCRoleOf    == emma :> "EMPLOYEE" @@ max :> "MANAGER" @@ fay :> "FINANCE"
                 @@ gus :> "FINANCE" @@ ed :> "EMPLOYEE" @@ kim :> "ADMIN"
MCManagerOf == emma :> max @@ ed :> max @@ [u \in MCUser |-> NoUser]
MCCreatedAt == gus :> 2 @@ [u \in MCUser |-> 1]

MCLower == "travel" :> "travel" @@ "Travel" :> "travel" @@ "meals" :> "meals"

Row(id, org, category, min, action) ==
    [id |-> id, org |-> org, category |-> category, min |-> min,
     max |-> NoLimit, action |-> action, active |-> TRUE]

\* What the policies demand of a claim depends on which of them exist when it
\* is submitted; at most one of the rows with id 3 does.
ReviewPolicyRow == {Row(1, acme, AnyCategory, NoLimit, "REQUIRE_MANAGER"),
                    Row(2, acme, "Travel", NoLimit, "REQUIRE_FINANCE")}
MCPolicyRow == ReviewPolicyRow \cup
               {Row(3, acme, AnyCategory, 2, "AUTO_REJECT"),
                Row(3, globex, AnyCategory, NoLimit, "REQUIRE_MANAGER")}
MCClaim == {[amount |-> 2, category |-> "travel"]}

RequestSymmetry == Permutations(Request)
=============================================================================
