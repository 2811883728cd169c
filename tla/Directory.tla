----------------------------- MODULE Directory -----------------------------
(***************************************************************************)
(* The organizations' users, what their roles allow, and who approves     *)
(* whose expenses.  The API has no operation that changes a user, so the   *)
(* directory is a set of constants (prisma/schema.prisma, model User).     *)
(***************************************************************************)
EXTENDS Naturals

CONSTANTS
    User,        \* rows of the User table
    NoUser,      \* a null managerId
    Org,         \* organizations (tenants)
    OrgOf,       \* User.organizationId
    RoleOf,      \* User.role
    ManagerOf,   \* User.managerId
    CreatedAt    \* User.createdAt

Role == {"ADMIN", "FINANCE", "MANAGER", "EMPLOYEE"}

(***************************************************************************)
(* Foreign keys hold, so a managerId names a user; nothing in the schema   *)
(* makes that user a manager, or a member of the same organization.        *)
(***************************************************************************)
ASSUME DirectoryAssumption ==
    /\ NoUser \notin User
    /\ OrgOf \in [User -> Org]
    /\ RoleOf \in [User -> Role]
    /\ ManagerOf \in [User -> User \cup {NoUser}]
    /\ CreatedAt \in [User -> Nat]

----------------------------------------------------------------------------
(* Permissions *)

\* ROLE_PERMISSIONS.
RolePermissions ==
    LET readers   == {"expense:read", "policy:read", "report:read"}
        reviewers == readers \cup {"approval:review", "user:read"}
        operators == reviewers \cup
                       {"policy:manage", "audit:read", "operations:read"}
    IN [role \in Role |->
          CASE role = "EMPLOYEE" -> readers \cup
                 {"expense:create", "expense:submit", "receipt:manage"}
            [] role = "MANAGER" -> reviewers
            [] role \in {"FINANCE", "ADMIN"} -> operators]

\* hasPermission, as the guard of a route applies it to the caller.
MayDo(u, permission) == permission \in RolePermissions[RoleOf[u]]

----------------------------------------------------------------------------
(* Approver lookups *)

Members(org, roles) == {u \in User : OrgOf[u] = org /\ RoleOf[u] \in roles}

\* Mutant: the lookup trusts managerId for the organization.
ManagerApprovers_AnyTenant(u) ==
    {m \in User : m = ManagerOf[u] /\ RoleOf[m] \in {"MANAGER", "ADMIN"}}

\* findManagerApprover: the employee's own manager, if that row is a manager
\* or an admin of the same organization; empty when findFirst returns null.
ManagerApprovers(u) ==
    {m \in Members(OrgOf[u], {"MANAGER", "ADMIN"}) : m = ManagerOf[u]}

\* orderBy createdAt asc, first row: any of the equally old ones.
Oldest(users) == {u \in users : \A v \in users : CreatedAt[u] <= CreatedAt[v]}

\* findFinanceApprover: the oldest finance member, else the oldest admin.
FinanceApprovers(org) ==
    IF Members(org, {"FINANCE"}) # {}
    THEN Oldest(Members(org, {"FINANCE"}))
    ELSE Oldest(Members(org, {"ADMIN"}))
=============================================================================
