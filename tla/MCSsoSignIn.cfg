SPECIFICATION Spec
SYMMETRY Symmetry
CONSTANTS
    acme = acme
    globex = globex
    emma = emma
    ed = ed
    anna = anna
    guest = guest
    Browser = {b1, b2}
    Flow = {f1, f2}
    NoFlow = NoFlow
    Visit = {v1, v2, v3}
    Identity = {emma, ed, anna, guest}
    Verified = {emma, ed, guest}
    User = {emma, ed, anna}
    NoUser = NoUser
    AccountOf <- MCAccountOf
    OrgOf <- MCOrgOf
    SsoOrg = acme
INVARIANTS
    SignedInWhoAuthenticated
    RefusedForAReason
