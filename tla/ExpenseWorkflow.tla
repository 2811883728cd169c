--------------------------- MODULE ExpenseWorkflow ---------------------------
(***************************************************************************)
(* Expenses, their approvals and the requests that change them.            *)
(*                                                                         *)
(* Every request is an asynchronous handler of the API: it reads rows,     *)
(* awaits, and later writes with an updateMany whose where clause repeats  *)
(* what it read (compare and set).  Between two awaits any other handler   *)
(* may run, in this process or in another one.  A handler that has         *)
(* committed writes its audit entry and enqueues its mails in further      *)
(* steps, each of which may fail.                                          *)
(*                                                                         *)
(* ExpensesService (create, completeReceiptUpload, submit) and             *)
(* ApprovalsService (decide).                                              *)
(***************************************************************************)
EXTENDS Policies, Bags

CONSTANTS
    Expense,     \* ids of the Expense table
    NoClaim,
    ReceiptKey,  \* objects in the receipt bucket
    NoReceipt,   \* a null receiptUrl
    Request,     \* HTTP requests being handled
    MaxReceipts  \* bound: receipts attached to one draft

VARIABLES
    expense,     \* the Expense table
    approval,    \* the Approval table, unique on (expense, level)
    req,         \* what each handler knows and does next
    audit,       \* the AuditLog table: how many rows there are of each entry
    outbox,      \* the mails handed to the notification queue
    route        \* history: the evaluation an expense was submitted under

tables == <<expense, approval, route>>
logs   == <<audit, outbox>>
vars   == <<policies, tables, req, logs>>

----------------------------------------------------------------------------
(* The tables *)

Level == {"MANAGER", "FINANCE"}
Verdict == {"APPROVED", "REJECTED"}

\* ExpenseStatus, without SUBMITTED, which no code writes.
Pending == {"PENDING_MANAGER", "PENDING_FINANCE"}
Status == {"ABSENT", "DRAFT"} \cup Pending \cup Verdict
ApprovalStatus == {"NONE", "PENDING", "SKIPPED"} \cup Verdict

None == -1   \* the version of a row that is not there

ExpenseRow ==
    [status : Status, version : Nat, owner : User \cup {NoUser},
     claim : Claim \cup {NoClaim}, receipt : ReceiptKey \cup {NoReceipt}]
ApprovalRow ==
    [status : ApprovalStatus, version : Nat, approver : User \cup {NoUser}]

AbsentExpense ==
    [status |-> "ABSENT", version |-> 0, owner |-> NoUser,
     claim |-> NoClaim, receipt |-> NoReceipt]
AbsentApproval == [status |-> "NONE", version |-> 0, approver |-> NoUser]

\* The history of an expense that was never submitted.
NoDemand ==
    [autoReject |-> FALSE, requireManager |-> FALSE, requireFinance |-> FALSE]

\* The expense status in which a level decides.
Awaiting(level) ==
    IF level = "MANAGER" THEN "PENDING_MANAGER" ELSE "PENDING_FINANCE"

\* Mutant: the row is updated by its id alone.
StillAs_ById(row, status, version) == TRUE

\* The where clause of an updateMany: the row is still as the handler saw it.
StillAs(row, status, version) == row.status = status /\ row.version = version

\* The data of an updateMany: every write increments the version.
Bumped(row) == [row EXCEPT !.version = @ + 1]
MovedTo(row, status) == Bumped([row EXCEPT !.status = status])
WithReceipt(row, receipt) == Bumped([row EXCEPT !.receipt = receipt])

----------------------------------------------------------------------------
(* Requests.  A handler that refuses its request (400, 403, 404 or 409)    *)
(* before its first write changes nothing, so a refusal by the first read  *)
(* is a request that never starts.                                         *)

Idle == [pc |-> "idle"]

\* A mail asking an approver to review, or telling the owner the outcome.
Mail ==
    [type : {"approval.requested", "expense.decision"},
     exp : Expense, to : User \cup {NoUser}, status : Status]

\* What a row of the log says of an expense: the change, the version it made,
\* and for a decision the level that decided and the version of its approval.
Entry ==
    [action : {"expense.created", "expense.receipt_attached",
               "expense.submitted", "approval.approved", "approval.rejected"},
     exp : Expense, version : Nat \cup {None},
     level : Level \cup {"NONE"}, approvalVersion : Nat \cup {None}]

\* Mutant: a submission reports the version it read.
AuditEntry_AsRead(action, e, version) ==
    [action |-> action, exp |-> e,
     version |-> IF action = "expense.submitted" THEN version - 1 ELSE version,
     level |-> "NONE", approvalVersion |-> None]

AuditEntry(action, e, version) ==
    [action |-> action, exp |-> e, version |-> version,
     level |-> "NONE", approvalVersion |-> None]

DecisionEntry(q) ==
    [action |-> IF q.verdict = "APPROVED" THEN "approval.approved"
                                          ELSE "approval.rejected",
     exp |-> q.exp, version |-> q.seenExpense + 1,
     level |-> q.level, approvalVersion |-> q.seenApproval + 1]

\* Mutants: nobody hands over to finance; only intermediate news is mailed.
Committed_NoHandOver(entry, mails, handOver) ==
    [pc |-> "audit", exp |-> entry.exp, entry |-> entry,
     mails |-> mails, handOver |-> FALSE]
Committed_NoFinalNews(entry, mails, handOver) ==
    [pc |-> "audit", exp |-> entry.exp, entry |-> entry,
     mails |-> IF handOver THEN mails ELSE {}, handOver |-> handOver]

\* A handler whose transaction has committed: it still has to write the
\* audit entry, to enqueue the mails, and perhaps to notify finance.
Committed(entry, mails, handOver) ==
    [pc |-> "audit", exp |-> entry.exp, entry |-> entry,
     mails |-> mails, handOver |-> handOver]

Resume(r, state) == req' = [req EXCEPT ![r] = state]

----------------------------------------------------------------------------
(* POST /expenses *)

CreateExpense(r) ==
    /\ req[r].pc = "idle"
    /\ \E e \in Expense, u \in User, c \in Claim :
        /\ MayDo(u, "expense:create")
        /\ expense[e].status = "ABSENT"
        /\ expense' = [expense EXCEPT ![e] =
              [AbsentExpense EXCEPT !.status = "DRAFT", !.owner = u, !.claim = c]]
        /\ Resume(r, Committed(AuditEntry("expense.created", e, None), {}, FALSE))
    /\ UNCHANGED <<policies, approval, route, logs>>

----------------------------------------------------------------------------
(* POST /expenses/:id/receipt-upload/complete *)

StartReceipt(r) ==
    /\ req[r].pc = "idle"
    /\ \E e \in Expense, k \in ReceiptKey :
        /\ expense[e].status = "DRAFT"
        /\ MayDo(expense[e].owner, "receipt:manage")
        /\ expense[e].version < MaxReceipts
        /\ Resume(r, [pc |-> "receipt", exp |-> e, receipt |-> k,
                      expected |-> expense[e].version])
    /\ UNCHANGED <<policies, tables, logs>>

AttachReceipt(r) ==
    LET q == req[r]
        e == q.exp
    IN
    /\ q.pc = "receipt"
    /\ IF StillAs(expense[e], "DRAFT", q.expected)
       THEN /\ expense' = [expense EXCEPT ![e] = WithReceipt(@, q.receipt)]
            /\ Resume(r, Committed(
                  AuditEntry("expense.receipt_attached", e, q.expected + 1),
                  {}, FALSE))
       ELSE Resume(r, Idle) /\ UNCHANGED expense
    /\ UNCHANGED <<policies, approval, route, logs>>

----------------------------------------------------------------------------
(* POST /expenses/:id/submit *)

StartSubmit(r) ==
    /\ req[r].pc = "idle"
    /\ \E e \in Expense :
        /\ expense[e].status = "DRAFT"
        /\ MayDo(expense[e].owner, "expense:submit")
        /\ Resume(r, [pc |-> "evaluate", exp |-> e,
                      expected |-> expense[e].version])
    /\ UNCHANGED <<policies, tables, logs>>

\* The approver a submission found for each level it needs; the lookups run
\* even when a policy refuses the expense.
Approvers(owner, ev) ==
    LET managers == IF ev.requireManager THEN ManagerApprovers(owner) ELSE {NoUser}
        finance  == IF ev.requireFinance THEN FinanceApprovers(OrgOf[owner])
                                         ELSE {NoUser}
    IN {[level \in Level |-> IF level = "MANAGER" THEN m ELSE f] :
          m \in managers, f \in finance}

\* policies.evaluate and the two lookups; a lookup that finds no one refuses
\* the request.
EvaluatePolicies(r) ==
    LET q  == req[r]
        row == expense[q.exp]
        ev == Evaluate(policies, OrgOf[row.owner], row.claim)
    IN
    /\ q.pc = "evaluate"
    /\ \/ \E found \in Approvers(row.owner, ev) :
            Resume(r, [pc |-> "submit", exp |-> q.exp,
                       expected |-> q.expected, ev |-> ev, found |-> found])
       \/ Approvers(row.owner, ev) = {} /\ Resume(r, Idle)
    /\ UNCHANGED <<policies, tables, logs>>

\* Mutant: finance is an alternative to the manager.
NewApprovals_ElseIf(ev, found) ==
    LET levels == IF ev.autoReject THEN {}
                  ELSE IF ev.requireManager THEN {"MANAGER"}
                  ELSE IF ev.requireFinance THEN {"FINANCE"} ELSE {}
    IN [level \in Level |->
          IF level \in levels
          THEN [status |-> "PENDING", version |-> 0, approver |-> found[level]]
          ELSE AbsentApproval]

\* The approval rows a submission creates.
NewApprovals(ev, found) ==
    LET created(level) ==
          ~ev.autoReject /\ (IF level = "MANAGER" THEN ev.requireManager
                                                  ELSE ev.requireFinance)
        initial(level) ==
          IF level = "FINANCE" /\ ev.requireManager THEN "SKIPPED" ELSE "PENDING"
    IN [level \in Level |->
          IF created(level)
          THEN [status |-> initial(level), version |-> 0, approver |-> found[level]]
          ELSE AbsentApproval]

\* Mutant: finance is asked although the manager comes first.
SubmissionMails_Both(e, status, found) ==
    {[type |-> "approval.requested", exp |-> e, to |-> found[level],
      status |-> Awaiting(level)] : level \in {l \in Level : found[l] # NoUser}}

\* The approver of the first level is asked to review.
SubmissionMails(e, status, found) ==
    {[type |-> "approval.requested", exp |-> e, to |-> found[level],
      status |-> status] : level \in {l \in Level : status = Awaiting(l)}}

SubmitExpense(r) ==
    LET q == req[r]
        e == q.exp
        status == SubmissionStatus(q.ev)
    IN
    /\ q.pc = "submit"
    /\ IF StillAs(expense[e], "DRAFT", q.expected)
       THEN /\ expense' = [expense EXCEPT ![e] = MovedTo(@, status)]
            /\ approval' = [approval EXCEPT ![e] = NewApprovals(q.ev, q.found)]
            /\ route' = [route EXCEPT ![e] = q.ev]
            /\ Resume(r, Committed(
                  AuditEntry("expense.submitted", e, q.expected + 1),
                  SubmissionMails(e, status, q.found), FALSE))
       ELSE Resume(r, Idle) /\ UNCHANGED tables
    /\ UNCHANGED <<policies, logs>>

----------------------------------------------------------------------------
(* POST /approvals/:id/decision: up to three statements of one transaction.*)
(* Its writes are seen when it commits; until then the rows it has updated *)
(* are locked.                                                             *)

Deciding == {"decideApproval", "decideFinance", "decideExpense"}

StartDecide(r) ==
    /\ req[r].pc = "idle"
    /\ \E e \in Expense, level \in Level, verdict \in Verdict :
        LET row == approval[e][level]
            finance == approval[e]["FINANCE"]
        IN
        /\ row.status = "PENDING"
        /\ MayDo(row.approver, "approval:review")
        /\ expense[e].status = Awaiting(level)
        /\ Resume(r, [pc |-> "decideApproval", exp |-> e, level |-> level,
                      verdict |-> verdict, seenApproval |-> row.version,
                      seenFinance |-> IF finance.status = "NONE"
                                      THEN None ELSE finance.version,
                      seenExpense |-> expense[e].version])
    /\ UNCHANGED <<policies, tables, logs>>

\* Mutant: the finance approval is left skipped.
OpensFinance_Never(q) == FALSE

\* A manager's approval opens the finance approval, if there is one.
OpensFinance(q) ==
    q.level = "MANAGER" /\ q.verdict = "APPROVED" /\ q.seenFinance # None

\* The row lock of the approval of e at a level.
Locked(e, level) ==
    \E s \in Request :
        /\ req[s].pc \in {"decideFinance", "decideExpense"}
        /\ req[s].exp = e
        /\ \/ req[s].level = level
           \/ req[s].pc = "decideExpense" /\ OpensFinance(req[s])
              /\ level = "FINANCE"

\* Mutant: the first update trusts the checks that were made before it.
DecideApproval_ById(r) ==
    LET q == req[r] IN
    /\ q.pc = "decideApproval"
    /\ ~Locked(q.exp, q.level)
    /\ Resume(r, [q EXCEPT !.pc = IF OpensFinance(q) THEN "decideFinance"
                                                     ELSE "decideExpense"])
    /\ UNCHANGED <<policies, tables, logs>>

\* First statement.  A row that matches but is locked makes the update wait.
DecideApproval(r) ==
    LET q == req[r] IN
    /\ q.pc = "decideApproval"
    /\ IF StillAs(approval[q.exp][q.level], "PENDING", q.seenApproval)
       THEN /\ ~Locked(q.exp, q.level)
            /\ Resume(r, [q EXCEPT !.pc = IF OpensFinance(q) THEN "decideFinance"
                                                         ELSE "decideExpense"])
       ELSE Resume(r, Idle)
    /\ UNCHANGED <<policies, tables, logs>>

\* Second statement, in a manager's approval only.
DecideFinance(r) ==
    LET q == req[r] IN
    /\ q.pc = "decideFinance"
    /\ IF StillAs(approval[q.exp]["FINANCE"], "SKIPPED", q.seenFinance)
       THEN /\ ~Locked(q.exp, "FINANCE")
            /\ Resume(r, [q EXCEPT !.pc = "decideExpense"])
       ELSE Resume(r, Idle)
    /\ UNCHANGED <<policies, tables, logs>>

\* Mutant: the manager's word is final.
Outcome_ManagerSuffices(q) == q.verdict

\* nextStatus.
Outcome(q) ==
    IF q.verdict = "APPROVED" /\ OpensFinance(q) THEN "PENDING_FINANCE"
                                                 ELSE q.verdict

\* The approval rows of an expense after the decision.
Decided(rows, q) ==
    [level \in Level |->
        IF level = q.level
        THEN MovedTo(rows[level], q.verdict)
        ELSE IF OpensFinance(q) THEN MovedTo(rows[level], "PENDING")
                                ELSE rows[level]]

\* Third statement and commit.
DecideExpense(r) ==
    LET q == req[r]
        e == q.exp
    IN
    /\ q.pc = "decideExpense"
    /\ IF StillAs(expense[e], Awaiting(q.level), q.seenExpense)
       THEN /\ expense' = [expense EXCEPT ![e] = MovedTo(@, Outcome(q))]
            /\ approval' = [approval EXCEPT ![e] = Decided(@, q)]
            /\ Resume(r, Committed(
                  DecisionEntry(q),
                  {[type |-> "expense.decision", exp |-> e,
                    to |-> expense[e].owner, status |-> Outcome(q)]},
                  Outcome(q) = "PENDING_FINANCE"))
       ELSE Resume(r, Idle) /\ UNCHANGED <<expense, approval>>
    /\ UNCHANGED <<policies, route, logs>>

----------------------------------------------------------------------------
(* After the commit *)

\* audit.write, a transaction of its own: one row more, whatever is there.
WriteAudit(r) ==
    LET q == req[r] IN
    /\ q.pc = "audit"
    /\ audit' = audit (+) SetToBag({q.entry})
    /\ Resume(r, IF q.mails = {} THEN Idle
                 ELSE [pc |-> "enqueue", exp |-> q.exp, mails |-> q.mails,
                       handOver |-> q.handOver])
    /\ UNCHANGED <<policies, tables, outbox>>

\* notifications.enqueue.
EnqueueMail(r) ==
    LET q == req[r] IN
    /\ q.pc = "enqueue"
    /\ outbox' = outbox \cup q.mails
    /\ Resume(r, IF q.handOver THEN [pc |-> "lookup", exp |-> q.exp] ELSE Idle)
    /\ UNCHANGED <<policies, tables, audit>>

\* Mutant: the read is repeated until it finds the approval.
LookupFinance_Polling(r) ==
    LET q == req[r]
        row == approval[q.exp]["FINANCE"]
    IN
    /\ q.pc = "lookup"
    /\ Resume(r,
         IF row.status = "PENDING"
         THEN [pc |-> "enqueue", exp |-> q.exp, handOver |-> FALSE,
               mails |-> {[type |-> "approval.requested", exp |-> q.exp,
                           to |-> row.approver, status |-> "PENDING_FINANCE"]}]
         ELSE q)
    /\ UNCHANGED <<policies, tables, logs>>

\* notifyNextFinanceApprover: the read that looks for the approval that the
\* manager's decision opened.
LookupFinance(r) ==
    LET q == req[r]
        row == approval[q.exp]["FINANCE"]
    IN
    /\ q.pc = "lookup"
    /\ Resume(r,
         IF row.status = "PENDING"
         THEN [pc |-> "enqueue", exp |-> q.exp, handOver |-> FALSE,
               mails |-> {[type |-> "approval.requested", exp |-> q.exp,
                           to |-> row.approver, status |-> "PENDING_FINANCE"]}]
         ELSE [pc |-> "routeMissing", exp |-> q.exp])
    /\ UNCHANGED <<policies, tables, logs>>

\* 'Finance approval route is missing' is thrown.
ReportMissingRoute(r) ==
    /\ req[r].pc = "routeMissing"
    /\ Resume(r, Idle)
    /\ UNCHANGED <<policies, tables, logs>>

\* A database or queue error, a transaction timeout or a crash ends the
\* handler; what it has not committed is lost.
Fail(r) ==
    /\ req[r].pc # "idle"
    /\ Resume(r, Idle)
    /\ UNCHANGED <<policies, tables, logs>>

----------------------------------------------------------------------------
InitWorkflow ==
    /\ expense = [e \in Expense |-> AbsentExpense]
    /\ approval = [e \in Expense |-> [level \in Level |-> AbsentApproval]]
    /\ route = [e \in Expense |-> NoDemand]
    /\ req = [r \in Request |-> Idle]
    /\ audit = EmptyBag
    /\ outbox = {}

Init == InitPolicies /\ InitWorkflow

ChangePolicies == NextPolicies /\ UNCHANGED <<tables, req, logs>>

Arrive(r) ==
    CreateExpense(r) \/ StartReceipt(r) \/ StartSubmit(r) \/ StartDecide(r)

Continue(r) ==
    \/ AttachReceipt(r)
    \/ EvaluatePolicies(r)
    \/ SubmitExpense(r)
    \/ DecideApproval(r)
    \/ DecideFinance(r)
    \/ DecideExpense(r)
    \/ WriteAudit(r)
    \/ EnqueueMail(r)
    \/ LookupFinance(r)
    \/ ReportMissingRoute(r)

Next ==
    \/ ChangePolicies
    \/ \E r \in Request : Arrive(r) \/ Continue(r) \/ Fail(r)

Spec == Init /\ [][Next]_vars

----------------------------------------------------------------------------
(* Types *)

RequestState ==
    {Idle}
    \cup [pc : {"receipt"}, exp : Expense, receipt : ReceiptKey, expected : Nat]
    \cup [pc : {"evaluate"}, exp : Expense, expected : Nat]
    \cup [pc : {"submit"}, exp : Expense, expected : Nat, ev : Evaluation,
          found : [Level -> User \cup {NoUser}]]
    \cup [pc : Deciding, exp : Expense, level : Level, verdict : Verdict,
          seenApproval : Nat, seenFinance : Nat \cup {None}, seenExpense : Nat]
    \cup [pc : {"audit"}, exp : Expense, entry : Entry, mails : SUBSET Mail,
          handOver : BOOLEAN]
    \cup [pc : {"enqueue"}, exp : Expense, mails : SUBSET Mail,
          handOver : BOOLEAN]
    \cup [pc : {"lookup", "routeMissing"}, exp : Expense]

\* Every variable has its type.
TypeOK ==
    /\ policies \subseteq PolicyRow
    /\ expense \in [Expense -> ExpenseRow]
    /\ approval \in [Expense -> [Level -> ApprovalRow]]
    /\ route \in [Expense -> Evaluation]
    /\ req \in [Request -> RequestState]
    /\ IsABag(audit) /\ BagToSet(audit) \subseteq Entry
    /\ outbox \subseteq Mail

----------------------------------------------------------------------------
(* Safety *)

\* The status of an expense and the statuses of its approvals, rows of two
\* tables that three handlers write, always tell the same story: at most one
\* level is pending, it is the one the expense waits for, finance stays
\* skipped until the manager has approved, and an outcome comes from the
\* last level that decided.
RouteConsistent ==
    \A e \in Expense :
        LET manager == approval[e]["MANAGER"].status
            finance == approval[e]["FINANCE"].status
        IN
        /\ expense[e].status \in {"ABSENT", "DRAFT"} =>
             manager = "NONE" /\ finance = "NONE"
        /\ expense[e].status = "PENDING_MANAGER" =>
             manager = "PENDING" /\ finance \in {"NONE", "SKIPPED"}
        /\ expense[e].status = "PENDING_FINANCE" =>
             manager \in {"NONE", "APPROVED"} /\ finance = "PENDING"
        /\ expense[e].status = "APPROVED" =>
             {manager, finance} \subseteq {"NONE", "APPROVED"}
        /\ expense[e].status = "REJECTED" =>
             \/ manager = "NONE" /\ finance = "NONE"
             \/ manager = "REJECTED" /\ finance \in {"NONE", "SKIPPED"}
             \/ manager \in {"NONE", "APPROVED"} /\ finance = "REJECTED"

\* An expense is approved only when every level that the policies demanded
\* when it was submitted has approved it, and refused without an approver
\* only when a policy refused it.
ApprovedThroughRoute ==
    \A e \in Expense :
        LET manager == approval[e]["MANAGER"].status
            finance == approval[e]["FINANCE"].status
        IN
        /\ expense[e].status = "APPROVED" =>
             /\ ~route[e].autoReject
             /\ route[e].requireManager => manager = "APPROVED"
             /\ route[e].requireFinance => finance = "APPROVED"
        /\ expense[e].status = "REJECTED" =>
             route[e].autoReject \/ "REJECTED" \in {manager, finance}

\* Nobody reviews an expense of their own or of another organization, and
\* every approver that a submission picks may use the review endpoints, so
\* no approval is stuck with someone the permission guard turns away.
ApproversEligible ==
    \A e \in Expense, level \in Level :
        approval[e][level].status # "NONE" =>
            LET approver == approval[e][level].approver
                owner    == expense[e].owner
            IN /\ approver \in User \ {owner}
               /\ OrgOf[approver] = OrgOf[owner]
               /\ MayDo(approver, "approval:review")

\* A decision that has updated the approval row finds the rows of its next
\* statements as it saw them before the transaction: the 409s behind the
\* second and the third update are unreachable, and no decision is rolled
\* back half way by a competing one.
InnerUpdatesNeverFail ==
    \A r \in Request :
        LET q == req[r] IN
        /\ q.pc = "decideFinance" =>
             /\ StillAs(approval[q.exp]["FINANCE"], "SKIPPED", q.seenFinance)
             /\ ~Locked(q.exp, "FINANCE")
        /\ q.pc = "decideExpense" =>
             StillAs(expense[q.exp], Awaiting(q.level), q.seenExpense)

\* Audit rows are written after the commit, by handlers that overtake each
\* other, and still every change of an expense has one row at most: no entry
\* is written twice, no two of an expense claim the same version, whether of
\* one kind or of two, and none a version the expense has not reached.
AuditVersionsUnique ==
    \A a \in BagToSet(audit) :
        /\ audit[a] = 1
        /\ a.version <= expense[a.exp].version
        /\ \A b \in BagToSet(audit) :
              a.exp = b.exp /\ a.version = b.version => a = b

\* What a row says of a decision is what the approval of that level says: its
\* verdict, and the version that the handler did not read but work out.
TellsDecision(a) ==
    a.level \in Level =>
        LET row == approval[a.exp][a.level] IN
        /\ row.version = a.approvalVersion
        /\ a.action = IF row.status = "APPROVED" THEN "approval.approved"
                                                 ELSE "approval.rejected"
        /\ row.status \in Verdict

\* No row of the log attests a decision that was not made, or another verdict
\* than the approval keeps, however late the row is written.
AuditTellsDecisions == \A a \in BagToSet(audit) : TellsDecision(a)

\* What a mail says: a decision that the expense went through and whose news
\* is the owner's, or a review asked of the one in whose name the approval
\* waits or waited.
Truthful(m) ==
    LET manager == approval[m.exp]["MANAGER"]
        finance == approval[m.exp]["FINANCE"]
    IN
    /\ m.type = "expense.decision" =>
         /\ m.to = expense[m.exp].owner
         /\ IF m.status \in Verdict THEN expense[m.exp].status = m.status
                                    ELSE manager.status = "APPROVED"
    /\ m.type = "approval.requested" =>
         IF m.status = "PENDING_MANAGER"
         THEN m.to = manager.approver /\ manager.status # "NONE"
         ELSE m.to = finance.approver /\ finance.status \notin {"NONE", "SKIPPED"}

\* A mail is enqueued when its news may be old, by a handler that others have
\* overtaken, and is still never false, neither then nor later.
MailsTruthful == \A m \in outbox : Truthful(m)

\* Once approved or refused, an expense and its approvals never change again.
DecisionsFinal ==
    [][\A e \in Expense :
          expense[e].status \in Verdict =>
              UNCHANGED <<expense[e], approval[e], route[e]>>]_tables

\* The receipt that reviewers see is the one that was submitted: only a draft
\* changes it, and never in the step that submits the draft.
ReceiptFrozen ==
    [][\A e \in Expense :
          expense'[e].receipt # expense[e].receipt =>
              expense[e].status = "DRAFT" /\ expense'[e].status = "DRAFT"]_expense

\* What a manager's committed approval never meets: the throw of
\* notifyNextFinanceApprover, which tells the manager that the request
\* failed and the finance route is missing.
FinanceRouteNeverMissing == \A r \in Request : req[r].pc # "routeMissing"

----------------------------------------------------------------------------
(* Refinement and liveness *)

StageOf(status) ==
    CASE status = "ABSENT"   -> "absent"
      [] status = "DRAFT"    -> "draft"
      [] status \in Pending  -> "review"
      [] status = "APPROVED" -> "approved"
      [] status = "REJECTED" -> "refused"

\* The levels that a refused expense never got to are not awaited any more.
Outstanding(e) ==
    {level \in Level : /\ approval[e][level].status \in {"PENDING", "SKIPPED"}
                       /\ expense[e].status # "REJECTED"}

Lifecycle == INSTANCE ExpenseLifecycle WITH
    stage       <- [e \in Expense |-> StageOf(expense[e].status)],
    outstanding <- [e \in Expense |-> Outstanding(e)]

\* The handlers, whatever their interleaving and failures, implement the
\* lifecycle: one review level at a time, manager first, each step once.
ImplementsLifecycle == Lifecycle!Spec

\* Every request is answered: no wait for a row lock is circular.
RequestsFinish ==
    \A r \in Request : req[r].pc # "idle" ~> req[r].pc = "idle"
=============================================================================
