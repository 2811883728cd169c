SPECIFICATION Spec
CONSTANTS
    acme = acme
    globex = globex
    emma = emma
    max = max
    fay = fay
    gus = gus
    ed = ed
    kim = kim
    e1 = e1
    r1 = r1
    r2 = r2
    NoUser = NoUser
    NoClaim = NoClaim
    NoReceipt = NoReceipt
    AnyCategory = AnyCategory
    User <- MCUser
    Org <- MCOrg
    OrgOf <- MCOrgOf
    RoleOf <- MCRoleOf
    ManagerOf <- MCManagerOf
    CreatedAt <- MCCreatedAt
    Lower <- MCLower
    PolicyRow <- MCPolicyRow
    Claim <- MCClaim
    Expense = {e1}
    ReceiptKey = {k1}
    Request = {r1, r2}
    MaxReceipts = 1
SYMMETRY RequestSymmetry
INVARIANTS
    RouteConsistent
    ApprovedThroughRoute
    InnerUpdatesNeverFail
    AuditVersionsUnique
    AuditTellsDecisions
    ApproversEligible
    MailsTruthful
PROPERTIES
    DecisionsFinal
    ReceiptFrozen
    PoliciesOnlyAdd
    TenantsApart
    ImplementsLifecycle
