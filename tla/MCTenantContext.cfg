SPECIFICATION Spec
SYMMETRY Symmetry
CONSTANTS
    Org = {acme, globex}
    NoOrg = NoOrg
    Connection = {c1, c2}
    Request = {r1, r2}
    Expense = {e1, e2}
INVARIANTS
    ConnectionsForget
    TenantSeesItsOwn
    DashboardHonest
PROPERTY ImplementsTables
