------------------------------ MODULE Policies ------------------------------
(***************************************************************************)
(* The approval policies of an organization: the rows an operator creates  *)
(* and removes, and what PoliciesService.evaluate makes of them for the    *)
(* amount and category of an expense.                                      *)
(***************************************************************************)
EXTENDS Directory, Integers

CONSTANTS
    PolicyRow,   \* the rows that may ever be in the Policy table
    Claim,       \* what an expense may ask for: an amount and a category
    AnyCategory, \* a null or empty category
    Lower        \* String.prototype.toLowerCase on the categories

\* A null minAmountCents or maxAmountCents.
NoLimit == -1

PolicyAction == {"REQUIRE_MANAGER", "REQUIRE_FINANCE", "AUTO_REJECT"}

Category == DOMAIN Lower

PolicyOf(ids, limits) ==
    [id : ids, org : Org, category : Category \cup {AnyCategory},
     min : limits \cup {NoLimit}, max : limits \cup {NoLimit},
     action : PolicyAction, active : BOOLEAN]

VARIABLE policies  \* the rows of the Policy table

----------------------------------------------------------------------------
\* The filter of evaluate: blank fields match everything, categories are
\* compared in lower case, both limits are inclusive.
Matches(p, claim) ==
    /\ p.category = AnyCategory \/ Lower[p.category] = Lower[claim.category]
    /\ p.min = NoLimit \/ claim.amount >= p.min
    /\ p.max = NoLimit \/ claim.amount <= p.max

\* Mutants: `every` for `some`; rows of all organizations.
Demanded_Every(rows, org, claim, action) ==
    LET matched == {p \in rows : p.org = org /\ p.active /\ Matches(p, claim)}
    IN matched # {} /\ \A p \in matched : p.action = action
Demanded_AnyTenant(rows, org, claim, action) ==
    \E p \in rows : p.active /\ p.action = action /\ Matches(p, claim)

\* `some` matching active policy of the organization has this action.
Demanded(rows, org, claim, action) ==
    \E p \in rows :
        p.org = org /\ p.active /\ p.action = action /\ Matches(p, claim)

Evaluate(rows, org, claim) ==
    [autoReject     |-> Demanded(rows, org, claim, "AUTO_REJECT"),
     requireManager |-> Demanded(rows, org, claim, "REQUIRE_MANAGER"),
     requireFinance |-> Demanded(rows, org, claim, "REQUIRE_FINANCE")]

Evaluation ==
    [autoReject : BOOLEAN, requireManager : BOOLEAN, requireFinance : BOOLEAN]

\* resolveSubmissionStatus: the status a submission starts its review in.
SubmissionStatus(ev) ==
    IF ev.autoReject THEN "REJECTED"
    ELSE IF ev.requireManager THEN "PENDING_MANAGER"
    ELSE IF ev.requireFinance THEN "PENDING_FINANCE"
    ELSE "APPROVED"

----------------------------------------------------------------------------
InitPolicies == policies = {}

\* POST /policies.
CreatePolicy ==
    \E p \in PolicyRow, u \in User :
        /\ MayDo(u, "policy:manage") /\ p.org = OrgOf[u]
        /\ \A q \in policies : q.id # p.id
        /\ policies' = policies \cup {p}

\* DELETE /policies/:id; findFirstOrThrow, then delete, in one transaction.
RemovePolicy ==
    \E p \in policies, u \in User :
        /\ MayDo(u, "policy:manage") /\ p.org = OrgOf[u]
        /\ policies' = policies \ {p}

NextPolicies == CreatePolicy \/ RemovePolicy

----------------------------------------------------------------------------
AtLeastAsStrict(ev1, ev2) ==
    \A demand \in DOMAIN ev1 : ev2[demand] => ev1[demand]

Created == policies' \ policies
Removed == policies \ policies'

\* A policy can only add to what an expense needs: creating one never removes
\* a demand, whatever the other policies say and in whatever order they stand,
\* and removing one never adds a demand.
PoliciesOnlyAdd ==
    [][\A p \in Created \cup Removed, org \in Org, claim \in Claim :
         LET before == Evaluate(policies, org, claim)
             after  == Evaluate(policies', org, claim)
         IN /\ p \in Created => AtLeastAsStrict(after, before)
            /\ p \in Removed => AtLeastAsStrict(before, after)]_policies

\* The policies of one organization say nothing about the expenses of another.
TenantsApart ==
    [][\A p \in Created \cup Removed, org \in Org, claim \in Claim :
         org # p.org => Evaluate(policies, org, claim)
                          = Evaluate(policies', org, claim)]_policies
=============================================================================
