---------------------------- MODULE TenantContext ----------------------------
(***************************************************************************)
(* PrismaService.withTenant over the connection pool, and the row level    *)
(* security that reads the setting it makes.                               *)
(*                                                                         *)
(* A request takes a connection from the pool, begins a transaction, sets  *)
(* app.current_organization_id for its duration and runs its statements,   *)
(* each of which sees what is committed at that moment (READ COMMITTED).   *)
(* The statements here are those of ReportsService.dashboard, and the      *)
(* writes of expenses that may fall between them.  The rows of the tables  *)
(* Policy and AuditLog follow the rule of Expense, and those of Approval   *)
(* are visible when their expense is.                                      *)
(***************************************************************************)
EXTENDS FiniteSets

CONSTANTS
    Org,         \* organizations
    NoOrg,
    Connection,  \* of the pool
    Request,     \* calls of withTenant
    Expense      \* ids of the Expense table

\* What current_setting has besides an organization: nothing before the
\* first set_config of a connection, and a blank when its transaction is over.
Blank == {"unset", ""}

ASSUME TenantAssumption == NoOrg \notin Org /\ Org \cap Blank = {}

VARIABLES
    setting,  \* app.current_organization_id on each connection
    expense,  \* the committed rows of the Expense table
    tx        \* the transaction of each call

vars == <<setting, expense, tx>>

----------------------------------------------------------------------------
Status == {"ABSENT", "DRAFT", "PENDING_MANAGER", "PENDING_FINANCE",
           "APPROVED", "REJECTED"}

Row == [status : Status, org : Org \cup {NoOrg}]

Absent == [status |-> "ABSENT", org |-> NoOrg]

\* Where create, submit and decide may take an expense.
Successors(status) ==
    CASE status = "ABSENT" -> {"DRAFT"}
      [] status = "DRAFT" -> {"PENDING_MANAGER", "PENDING_FINANCE",
                              "APPROVED", "REJECTED"}
      [] status = "PENDING_MANAGER" -> {"PENDING_FINANCE", "APPROVED", "REJECTED"}
      [] status = "PENDING_FINANCE" -> {"APPROVED", "REJECTED"}
      [] status \in {"APPROVED", "REJECTED"} -> {}

\* The row policy, for reading and for writing: a row without an
\* organization, or a connection without one, matches nothing.
RowPolicy(c, org) == org \in Org /\ org = setting[c]

Visible(c) == {e \in Expense : RowPolicy(c, expense[e].org)}

\* The statements of the dashboard; the fifth, which groups the rows of "all"
\* at a moment of its own, is like that one.
Sum == {"all", "pending", "approved", "rejected"}

\* Mutant: pending is what is neither approved nor rejected.
Selects_NotSettled(sum, status) ==
    CASE sum = "all" -> TRUE
      [] sum = "pending"  -> status \notin {"APPROVED", "REJECTED"}
      [] sum = "approved" -> status = "APPROVED"
      [] sum = "rejected" -> status = "REJECTED"

\* The status conditions of their where clauses.
Selects(sum, status) ==
    CASE sum = "all" -> TRUE
      [] sum = "pending"  -> status \in {"PENDING_MANAGER", "PENDING_FINANCE"}
      [] sum = "approved" -> status = "APPROVED"
      [] sum = "rejected" -> status = "REJECTED"

----------------------------------------------------------------------------
Idle == [pc |-> "idle"]

\* Transactions that have a connection, and those that know their tenant.
Connected == {"begun", "report", "write", "written"}
Open == {"report", "write", "written"}

Busy(c) == \E r \in Request : tx[r].pc \in Connected /\ tx[r].conn = c

\* $transaction: a free connection and BEGIN.
Begin(r) ==
    /\ tx[r].pc = "idle"
    /\ \E c \in Connection, org \in Org, work \in {"report", "write"} :
        /\ ~Busy(c)
        /\ tx' = [tx EXCEPT ![r] =
              [pc |-> "begun", conn |-> c, org |-> org, work |-> work]]
    /\ UNCHANGED <<setting, expense>>

\* A dashboard in progress: the statements left, what the others found, and
\* the statuses when it began, which are history.
Report(q, left, sums, began) ==
    [pc |-> "report", conn |-> q.conn, org |-> q.org,
     left |-> left, sums |-> sums, began |-> began]

\* What a transaction knows when its first statement starts.
Opened(q) ==
    IF q.work = "report"
    THEN Report(q, Sum, [s \in Sum |-> {}],
                [e \in Expense |-> expense[e].status])
    ELSE [pc |-> "write", conn |-> q.conn, org |-> q.org]

\* Mutant: the setting is made once for each connection.
SetTenant_Once(r) ==
    LET c == tx[r].conn IN
    /\ tx[r].pc = "begun"
    /\ setting' = IF setting[c] = "unset"
                  THEN [setting EXCEPT ![c] = tx[r].org] ELSE setting
    /\ tx' = [tx EXCEPT ![r] = Opened(tx[r])]
    /\ UNCHANGED expense

\* set_config(..., true).
SetTenant(r) ==
    /\ tx[r].pc = "begun"
    /\ setting' = [setting EXCEPT ![tx[r].conn] = tx[r].org]
    /\ tx' = [tx EXCEPT ![r] = Opened(tx[r])]
    /\ UNCHANGED expense

Found(q, s) ==
    {e \in Visible(q.conn) : /\ expense[e].org = q.org
                             /\ Selects(s, expense[e].status)}

\* One of the statements of Promise.all, in whatever order they reach the
\* connection.
Query(r) ==
    LET q == tx[r] IN
    /\ q.pc = "report"
    /\ \E s \in q.left :
          tx' = [tx EXCEPT ![r] =
             Report(q, q.left \ {s}, [q.sums EXCEPT ![s] = Found(q, s)], q.began)]
    /\ UNCHANGED <<setting, expense>>

\* A row that another transaction has written is locked until that ends.
Locked(e) == \E s \in Request : tx[s].pc = "written" /\ tx[s].exp = e

\* An insert, or an update whose where clause names the organization and the
\* status that is replaced.
Write(r) ==
    LET q == tx[r] IN
    /\ q.pc = "write"
    /\ \E e \in Expense :
        /\ ~Locked(e)
        /\ \/ expense[e].status = "ABSENT"
           \/ e \in Visible(q.conn) /\ expense[e].org = q.org
        /\ RowPolicy(q.conn, q.org)
        /\ \E status \in Successors(expense[e].status) :
             tx' = [tx EXCEPT ![r] =
                [pc |-> "written", conn |-> q.conn, org |-> q.org,
                 exp |-> e, status |-> status]]
    /\ UNCHANGED <<setting, expense>>

\* Mutant: set_config(..., false), which outlives the transaction.
Released_SessionWide(c) == setting

\* The end of a transaction takes its setting away.
Released(c) == [setting EXCEPT ![c] = ""]

Commit(r) ==
    LET q == tx[r] IN
    /\ \/ /\ q.pc = "report" /\ q.left = {}
          /\ tx' = [tx EXCEPT ![r] =
                [pc |-> "answer", org |-> q.org, sums |-> q.sums,
                 began |-> q.began]]
          /\ UNCHANGED expense
       \/ /\ q.pc = "written"
          /\ tx' = [tx EXCEPT ![r] = Idle]
          /\ expense' = [expense EXCEPT ![q.exp] =
                [status |-> q.status, org |-> q.org]]
    /\ setting' = Released(q.conn)

Answer(r) ==
    /\ tx[r].pc = "answer"
    /\ tx' = [tx EXCEPT ![r] = Idle]
    /\ UNCHANGED <<setting, expense>>

\* A statement fails, and the transaction is rolled back.
Rollback(r) ==
    /\ tx[r].pc \in Connected
    /\ setting' = Released(tx[r].conn)
    /\ tx' = [tx EXCEPT ![r] = Idle]
    /\ UNCHANGED expense

\* The transaction exceeds its time: Prisma rolls it back while the callback
\* goes on.
TimeOut(r) ==
    /\ tx[r].pc \in Connected
    /\ setting' = Released(tx[r].conn)
    /\ tx' = [tx EXCEPT ![r] = [pc |-> "closed"]]
    /\ UNCHANGED expense

\* The next statement of such a callback throws.
LateStatement(r) ==
    /\ tx[r].pc = "closed"
    /\ tx' = [tx EXCEPT ![r] = Idle]
    /\ UNCHANGED <<setting, expense>>

----------------------------------------------------------------------------
Init ==
    /\ setting = [c \in Connection |-> "unset"]
    /\ expense = [e \in Expense |-> Absent]
    /\ tx = [r \in Request |-> Idle]

Next ==
    \E r \in Request :
        \/ Begin(r)
        \/ SetTenant(r)
        \/ Query(r)
        \/ Write(r)
        \/ Commit(r)
        \/ Answer(r)
        \/ Rollback(r)
        \/ TimeOut(r)
        \/ LateStatement(r)

Spec == Init /\ [][Next]_vars

----------------------------------------------------------------------------
Transaction ==
    {Idle, [pc |-> "closed"]}
    \cup [pc : {"begun"}, conn : Connection, org : Org, work : {"report", "write"}]
    \cup [pc : {"report"}, conn : Connection, org : Org, left : SUBSET Sum,
          sums : [Sum -> SUBSET Expense], began : [Expense -> Status]]
    \cup [pc : {"write"}, conn : Connection, org : Org]
    \cup [pc : {"written"}, conn : Connection, org : Org, exp : Expense,
          status : Status]
    \cup [pc : {"answer"}, org : Org, sums : [Sum -> SUBSET Expense],
          began : [Expense -> Status]]

TypeOK ==
    /\ setting \in [Connection -> Org \cup Blank]
    /\ expense \in [Expense -> Row]
    /\ tx \in [Request -> Transaction]

\* A connection that serves no tenant, whomever it served before and however
\* that ended, shows and takes no tenant's rows.
ConnectionsForget ==
    \A c \in Connection :
        ~(\E r \in Request : tx[r].pc \in Open /\ tx[r].conn = c)
          => \A org \in Org : ~RowPolicy(c, org)

\* Between set_config and the end of its transaction a tenant sees all of its
\* own rows and no others, whatever the other connections do.
TenantSeesItsOwn ==
    \A r \in Request :
        tx[r].pc \in Open =>
            Visible(tx[r].conn) = {e \in Expense : expense[e].org = tx[r].org}

\* The sums that an expense belongs to; a draft is in the total only.
SumsOf(status) ==
    {"all"} \cup (IF status = "APPROVED" THEN {"approved"}
                  ELSE IF status = "REJECTED" THEN {"rejected"}
                  ELSE IF status = "DRAFT" THEN {} ELSE {"pending"})

\* The statements of a dashboard see different moments.  Even so an expense
\* that was there when the dashboard began is in the total, one whose sums are
\* still what they were then is in exactly those, and the expenses of other
\* organizations are in none.
DashboardHonest ==
    \A r \in Request, e \in Expense :
        tx[r].pc = "answer" =>
            LET before  == tx[r].began[e]
                counted == {s \in Sum : e \in tx[r].sums[s]}
            IN
            /\ counted # {} => expense[e].org = tx[r].org
            /\ expense[e].org = tx[r].org /\ before # "ABSENT" =>
                 /\ "all" \in counted
                 /\ SumsOf(before) = SumsOf(expense[e].status) =>
                      counted = SumsOf(before)

\* What a call of withTenant amounts to once its setting is made.
Served(q) ==
    IF q.pc = "report" THEN [does |-> "read", org |-> q.org, left |-> q.left,
                             sums |-> q.sums]
    ELSE IF q.pc \in {"write", "written"} THEN [does |-> "write", org |-> q.org]
    ELSE IF q.pc = "answer" THEN [does |-> "show", org |-> q.org, sums |-> q.sums]
    ELSE [does |-> "nothing"]

\* The rows of an organization; to it, those of others are not there.
TableOf(org) ==
    [e \in Expense |-> IF expense[e].org = org THEN expense[e].status ELSE "ABSENT"]

Selected == [s \in Sum |-> {status \in Status \ {"ABSENT"} : Selects(s, status)}]
Moves == {move \in Status \X Status : move[2] \in Successors(move[1])}

Tables == INSTANCE TenantTables WITH
    table    <- [org \in Org |-> TableOf(org)],
    client   <- [r \in Request |-> Served(tx[r])]

\* One table, connections that serve one tenant after another and a setting on
\* each of them implement a table for each organization: no statement reads
\* another tenant's rows or misses its own, no write changes another's, and a
\* transaction that was rolled back or timed out has left nothing behind.
ImplementsTables == Tables!Spec
=============================================================================
