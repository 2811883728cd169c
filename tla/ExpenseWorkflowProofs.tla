------------------------ MODULE ExpenseWorkflowProofs ------------------------
(***************************************************************************)
(* Proofs about ExpenseWorkflow, for any directory of users, any policies  *)
(* and any number of expenses and concurrent requests; and, at the end,    *)
(* about the mail that ReviewMails follows, for any number of workers,     *)
(* whatever attempts fail, answers get lost and workers die.               *)
(***************************************************************************)
EXTENDS ReviewMails, FiniteSetTheorems, TLAPS

----------------------------------------------------------------------------
(* Types *)

LEMMA EvaluateType ==
    ASSUME NEW rows, NEW org, NEW claim
    PROVE  Evaluate(rows, org, claim) \in Evaluation
BY DEF Evaluate, Evaluation, Demanded

LEMMA SubmissionStatusType ==
    ASSUME NEW ev \in Evaluation
    PROVE  SubmissionStatus(ev) \in Status
BY DEF SubmissionStatus, Evaluation, Status, Pending, Verdict

\* The members of an organization that the lookups choose from.
LEMMA LookupsFind ==
    ASSUME NEW u, NEW org
    PROVE  /\ ManagerApprovers(u) \subseteq Members(OrgOf[u], {"MANAGER", "ADMIN"})
           /\ FinanceApprovers(org) \subseteq Members(org, {"FINANCE", "ADMIN"})
BY DEF ManagerApprovers, FinanceApprovers, Oldest, Members

\* What a submission finds: a user for each level it needs, and no other.
LEMMA ApproversFound ==
    ASSUME NEW u, NEW ev, NEW found \in Approvers(u, ev)
    PROVE  /\ found \in [Level -> User \cup {NoUser}]
           /\ IF ev.requireManager THEN found["MANAGER"] \in ManagerApprovers(u)
                                   ELSE found["MANAGER"] = NoUser
           /\ IF ev.requireFinance
              THEN found["FINANCE"] \in FinanceApprovers(OrgOf[u])
              ELSE found["FINANCE"] = NoUser
<1> DEFINE managers == IF ev.requireManager THEN ManagerApprovers(u) ELSE {NoUser}
           finance == IF ev.requireFinance THEN FinanceApprovers(OrgOf[u])
                                           ELSE {NoUser}
<1>1. PICK m \in managers, f \in finance :
        found = [level \in Level |-> IF level = "MANAGER" THEN m ELSE f]
  BY DEF Approvers
<1>2. m \in User \cup {NoUser} /\ f \in User \cup {NoUser}
  BY LookupsFind DEF Members
<1>3. found["MANAGER"] = m /\ found["FINANCE"] = f
  BY <1>1 DEF Level
<1> QED
  BY <1>1, <1>2, <1>3

\* A step that moves one request and leaves the tables and the logs alone.
LEMMA MoveType ==
    ASSUME TypeOK, NEW r \in Request, NEW state \in RequestState,
           Resume(r, state), UNCHANGED <<policies, tables, logs>>
    PROVE  TypeOK'
BY DEF TypeOK, Resume, tables, logs

\* The fields of a request in each control state.
LEMMA RequestFields ==
    ASSUME TypeOK, NEW r \in Request
    PROVE
    /\ req[r].pc = "receipt" =>
         req[r] \in [pc : {"receipt"}, exp : Expense, receipt : ReceiptKey,
                     expected : Nat]
    /\ req[r].pc = "evaluate" =>
         req[r] \in [pc : {"evaluate"}, exp : Expense, expected : Nat]
    /\ req[r].pc = "submit" =>
         req[r] \in [pc : {"submit"}, exp : Expense, expected : Nat,
                     ev : Evaluation, found : [Level -> User \cup {NoUser}]]
    /\ req[r].pc \in Deciding =>
         req[r] \in [pc : Deciding, exp : Expense, level : Level,
                     verdict : Verdict, seenApproval : Nat,
                     seenFinance : Nat \cup {None}, seenExpense : Nat]
    /\ req[r].pc = "audit" =>
         req[r] \in [pc : {"audit"}, exp : Expense, entry : Entry,
                     mails : SUBSET Mail, handOver : BOOLEAN]
    /\ req[r].pc = "enqueue" =>
         req[r] \in [pc : {"enqueue"}, exp : Expense, mails : SUBSET Mail,
                     handOver : BOOLEAN]
    /\ req[r].pc \in {"lookup", "routeMissing"} =>
         req[r] \in [pc : {"lookup", "routeMissing"}, exp : Expense]
BY DEF TypeOK, RequestState, Idle, Deciding

LEMMA IdleType == Idle \in RequestState
BY DEF RequestState

LEMMA AwaitingType ==
    \A level \in Level : Awaiting(level) \in Pending
BY DEF Awaiting, Pending

LEMMA CommittedType ==
    ASSUME NEW e \in Expense, NEW version \in Nat \cup {None},
           NEW action \in {"expense.created", "expense.receipt_attached",
                           "expense.submitted"},
           NEW mails \in SUBSET Mail, NEW handOver \in BOOLEAN
    PROVE  Committed(AuditEntry(action, e, version), mails, handOver)
             \in RequestState
BY DEF Committed, AuditEntry, Entry, RequestState

\* The entry of a decision, and the request that is to write it.
LEMMA DecisionEntryType ==
    ASSUME NEW q \in [pc : Deciding, exp : Expense, level : Level, verdict : Verdict,
                      seenApproval : Nat, seenFinance : Nat \cup {None},
                      seenExpense : Nat],
           NEW mails \in SUBSET Mail, NEW handOver \in BOOLEAN
    PROVE  /\ DecisionEntry(q) \in Entry
           /\ Committed(DecisionEntry(q), mails, handOver) \in RequestState
<1>1. DecisionEntry(q) \in Entry
  BY DEF DecisionEntry, Entry
<1>2. DecisionEntry(q).exp \in Expense
  BY DEF DecisionEntry
<1> QED
  BY <1>1, <1>2 DEF Committed, RequestState

\* A row more: the other entries keep their rows, and one that was not there
\* has one.
LEMMA OneRowMore ==
    ASSUME IsABag(audit), NEW entry, audit' = audit (+) SetToBag({entry})
    PROVE  /\ IsABag(audit)'
           /\ BagToSet(audit)' = BagToSet(audit) \cup {entry}
           /\ \A a \in BagToSet(audit) \ {entry} : audit'[a] = audit[a]
           /\ entry \notin BagToSet(audit) => audit'[entry] = 1
BY DEF (+), SetToBag, IsABag, BagToSet

\* What the updates make of a row.
LEMMA BumpedExpense ==
    ASSUME NEW row \in ExpenseRow
    PROVE  /\ Bumped(row) \in ExpenseRow
           /\ Bumped(row).version = row.version + 1
           /\ Bumped(row).status = row.status
           /\ Bumped(row).owner = row.owner
           /\ Bumped(row).receipt = row.receipt
BY DEF Bumped, ExpenseRow

LEMMA MovedExpense ==
    ASSUME NEW row \in ExpenseRow, NEW status \in Status
    PROVE  /\ MovedTo(row, status) \in ExpenseRow
           /\ MovedTo(row, status).version = row.version + 1
           /\ MovedTo(row, status).status = status
           /\ MovedTo(row, status).owner = row.owner
           /\ MovedTo(row, status).receipt = row.receipt
<1> DEFINE moved == [row EXCEPT !.status = status]
<1>1. /\ moved \in ExpenseRow
      /\ moved.version = row.version /\ moved.status = status
      /\ moved.owner = row.owner /\ moved.receipt = row.receipt
  BY DEF ExpenseRow
<1>2. MovedTo(row, status) = Bumped(moved)
  BY DEF MovedTo
<1> HIDE DEF moved
<1> QED
  BY <1>1, <1>2, BumpedExpense

LEMMA ReceiptExpense ==
    ASSUME NEW row \in ExpenseRow, NEW receipt \in ReceiptKey
    PROVE  /\ WithReceipt(row, receipt) \in ExpenseRow
           /\ WithReceipt(row, receipt).version = row.version + 1
           /\ WithReceipt(row, receipt).status = row.status
           /\ WithReceipt(row, receipt).owner = row.owner
<1> DEFINE with == [row EXCEPT !.receipt = receipt]
<1>1. /\ with \in ExpenseRow
      /\ with.version = row.version /\ with.status = row.status
      /\ with.owner = row.owner
  BY DEF ExpenseRow
<1>2. WithReceipt(row, receipt) = Bumped(with)
  BY DEF WithReceipt
<1> HIDE DEF with
<1> QED
  BY <1>1, <1>2, BumpedExpense

LEMMA MovedApproval ==
    ASSUME NEW row \in ApprovalRow, NEW status \in ApprovalStatus
    PROVE  /\ MovedTo(row, status) \in ApprovalRow
           /\ MovedTo(row, status).version = row.version + 1
           /\ MovedTo(row, status).status = status
           /\ MovedTo(row, status).approver = row.approver
<1> DEFINE moved == [row EXCEPT !.status = status]
<1>1. /\ moved \in ApprovalRow
      /\ moved.version = row.version /\ moved.status = status
      /\ moved.approver = row.approver
  BY DEF ApprovalRow
<1>2. MovedTo(row, status) = Bumped(moved)
  BY DEF MovedTo
<1> HIDE DEF moved
<1>3. /\ Bumped(moved) \in ApprovalRow
      /\ Bumped(moved).version = moved.version + 1
      /\ Bumped(moved).status = moved.status
      /\ Bumped(moved).approver = moved.approver
  BY <1>1 DEF Bumped, ApprovalRow
<1> QED
  BY <1>1, <1>2, <1>3

LEMMA TypeStep == TypeOK /\ [Next]_vars => TypeOK'
<1> SUFFICES ASSUME TypeOK, [Next]_vars PROVE TypeOK'
  OBVIOUS
<1>1. CASE ChangePolicies
  BY <1>1 DEF ChangePolicies, NextPolicies, CreatePolicy, RemovePolicy, TypeOK,
              tables, logs
<1>2. ASSUME NEW r \in Request, CreateExpense(r) PROVE TypeOK'
  <2>1. PICK e \in Expense, u \in User, c \in Claim :
          /\ expense' = [expense EXCEPT ![e] = [AbsentExpense EXCEPT
                            !.status = "DRAFT", !.owner = u, !.claim = c]]
          /\ Resume(r, Committed(AuditEntry("expense.created", e, None), {}, FALSE))
    BY <1>2 DEF CreateExpense
  <2>2. expense' \in [Expense -> ExpenseRow]
    BY <2>1 DEF TypeOK, ExpenseRow, AbsentExpense, Status
  <2> DEFINE done == Committed(AuditEntry("expense.created", e, None), {}, FALSE)
  <2>3. done \in RequestState
    BY CommittedType
  <2>4. Resume(r, done) /\ UNCHANGED <<policies, approval, route, logs>>
    BY <1>2, <2>1 DEF CreateExpense
  <2> HIDE DEF done
  <2> QED
    BY <2>2, <2>3, <2>4 DEF TypeOK, Resume, logs
<1>3. ASSUME NEW r \in Request, StartReceipt(r) PROVE TypeOK'
  <2>1. PICK e \in Expense, k \in ReceiptKey :
          Resume(r, [pc |-> "receipt", exp |-> e, receipt |-> k,
                     expected |-> expense[e].version])
    BY <1>3 DEF StartReceipt
  <2>2. [pc |-> "receipt", exp |-> e, receipt |-> k,
         expected |-> expense[e].version] \in RequestState
    BY DEF TypeOK, ExpenseRow, RequestState
  <2> QED
    BY <1>3, <2>1, <2>2, MoveType DEF StartReceipt
<1>4. ASSUME NEW r \in Request, AttachReceipt(r) PROVE TypeOK'
  <2>1. req[r] \in [pc : {"receipt"}, exp : Expense, receipt : ReceiptKey,
                    expected : Nat]
    BY <1>4, RequestFields DEF AttachReceipt
  <2>2. WithReceipt(expense[req[r].exp], req[r].receipt) \in ExpenseRow
    BY <2>1, ReceiptExpense DEF TypeOK
  <2>3. CASE StillAs(expense[req[r].exp], "DRAFT", req[r].expected)
    <3>1. expense' \in [Expense -> ExpenseRow]
      BY <1>4, <2>1, <2>2, <2>3 DEF AttachReceipt, TypeOK
    <3> DEFINE done == Committed(AuditEntry("expense.receipt_attached", req[r].exp,
                                            req[r].expected + 1), {}, FALSE)
    <3>2. done \in RequestState
      BY <2>1 DEF Committed, AuditEntry, Entry, RequestState
    <3>3. Resume(r, done)
      BY <1>4, <2>3 DEF AttachReceipt
    <3> HIDE DEF done
    <3> QED
      BY <1>4, <3>1, <3>2, <3>3 DEF AttachReceipt, TypeOK, Resume, logs
  <2>4. CASE ~StillAs(expense[req[r].exp], "DRAFT", req[r].expected)
    BY <1>4, <2>4, MoveType, IdleType DEF AttachReceipt, tables
  <2> QED
    BY <2>3, <2>4
<1>5. ASSUME NEW r \in Request, StartSubmit(r) PROVE TypeOK'
  <2>1. PICK e \in Expense :
          Resume(r, [pc |-> "evaluate", exp |-> e, expected |-> expense[e].version])
    BY <1>5 DEF StartSubmit
  <2>2. [pc |-> "evaluate", exp |-> e, expected |-> expense[e].version]
          \in RequestState
    BY DEF TypeOK, ExpenseRow, RequestState
  <2> QED
    BY <1>5, <2>1, <2>2, MoveType DEF StartSubmit
<1>6. ASSUME NEW r \in Request, EvaluatePolicies(r) PROVE TypeOK'
  <2> DEFINE row == expense[req[r].exp]
             ev == Evaluate(policies, OrgOf[row.owner], row.claim)
  <2>1. req[r] \in [pc : {"evaluate"}, exp : Expense, expected : Nat]
    BY <1>6, RequestFields DEF EvaluatePolicies
  <2>2. CASE Resume(r, Idle)
    BY <1>6, <2>2, MoveType, IdleType DEF EvaluatePolicies
  <2>3. ASSUME NEW found \in Approvers(row.owner, ev),
               Resume(r, [pc |-> "submit", exp |-> req[r].exp,
                          expected |-> req[r].expected, ev |-> ev,
                          found |-> found])
        PROVE  TypeOK'
    <3>1. found \in [Level -> User \cup {NoUser}]
      BY <2>3, ApproversFound
    <3>2. ev \in Evaluation
      BY EvaluateType
    <3>3. [pc |-> "submit", exp |-> req[r].exp, expected |-> req[r].expected,
           ev |-> ev, found |-> found] \in RequestState
      BY <2>1, <3>1, <3>2 DEF RequestState
    <3> QED
      BY <1>6, <2>3, <3>3, MoveType DEF EvaluatePolicies
  <2> QED
    BY <1>6, <2>2, <2>3 DEF EvaluatePolicies
<1>7. ASSUME NEW r \in Request, SubmitExpense(r) PROVE TypeOK'
  <2> DEFINE q == req[r]
             status == SubmissionStatus(q.ev)
             mails == SubmissionMails(q.exp, status, q.found)
  <2>1. q \in [pc : {"submit"}, exp : Expense, expected : Nat,
               ev : Evaluation, found : [Level -> User \cup {NoUser}]]
    BY <1>7, RequestFields DEF SubmitExpense
  <2>2. status \in Status
    BY <2>1, SubmissionStatusType
  <2>3. MovedTo(expense[q.exp], status) \in ExpenseRow
    BY <2>1, <2>2, MovedExpense DEF TypeOK
  <2>4. NewApprovals(q.ev, q.found) \in [Level -> ApprovalRow]
    BY <2>1 DEF NewApprovals, ApprovalRow, ApprovalStatus, AbsentApproval
  <2>5. mails \in SUBSET Mail
    BY <2>1, <2>2 DEF SubmissionMails, Mail
  <2>6. CASE StillAs(expense[q.exp], "DRAFT", q.expected)
    <3>1. /\ expense' \in [Expense -> ExpenseRow]
          /\ approval' \in [Expense -> [Level -> ApprovalRow]]
          /\ route' \in [Expense -> Evaluation]
      BY <1>7, <2>1, <2>3, <2>4, <2>6 DEF SubmitExpense, TypeOK
    <3> DEFINE done == Committed(AuditEntry("expense.submitted", q.exp,
                                            q.expected + 1), mails, FALSE)
    <3>2. done \in RequestState
      BY <2>1, <2>5 DEF Committed, AuditEntry, Entry, RequestState
    <3>3. Resume(r, done)
      BY <1>7, <2>6 DEF SubmitExpense
    <3> HIDE DEF done
    <3> QED
      BY <1>7, <3>1, <3>2, <3>3 DEF SubmitExpense, TypeOK, Resume, logs
  <2>7. CASE ~StillAs(expense[q.exp], "DRAFT", q.expected)
    BY <1>7, <2>7, MoveType, IdleType DEF SubmitExpense
  <2> QED
    BY <2>6, <2>7
<1>8. ASSUME NEW r \in Request, StartDecide(r) PROVE TypeOK'
  <2>1. PICK e \in Expense, level \in Level, verdict \in Verdict :
          Resume(r, [pc |-> "decideApproval", exp |-> e, level |-> level,
                     verdict |-> verdict,
                     seenApproval |-> approval[e][level].version,
                     seenFinance |-> IF approval[e]["FINANCE"].status = "NONE"
                                     THEN None
                                     ELSE approval[e]["FINANCE"].version,
                     seenExpense |-> expense[e].version])
    BY <1>8 DEF StartDecide
  <2>2. /\ approval[e][level].version \in Nat
        /\ approval[e]["FINANCE"].version \in Nat
        /\ expense[e].version \in Nat
    BY DEF TypeOK, ExpenseRow, ApprovalRow, Level
  <2>3. [pc |-> "decideApproval", exp |-> e, level |-> level,
         verdict |-> verdict, seenApproval |-> approval[e][level].version,
         seenFinance |-> IF approval[e]["FINANCE"].status = "NONE"
                         THEN None ELSE approval[e]["FINANCE"].version,
         seenExpense |-> expense[e].version] \in RequestState
    BY <2>2 DEF RequestState, Deciding
  <2> QED
    BY <1>8, <2>1, <2>3, MoveType DEF StartDecide
<1>9. ASSUME NEW r \in Request, DecideApproval(r) \/ DecideFinance(r)
      PROVE  TypeOK'
  <2>1. req[r] \in [pc : Deciding, exp : Expense, level : Level,
                    verdict : Verdict, seenApproval : Nat,
                    seenFinance : Nat \cup {None}, seenExpense : Nat]
    BY <1>9, RequestFields DEF DecideApproval, DecideFinance, Deciding
  <2>2. \A pc \in Deciding : [req[r] EXCEPT !.pc = pc] \in RequestState
    BY <2>1 DEF RequestState
  <2>3. PICK state \in RequestState : Resume(r, state)
    BY <1>9, <2>2, IdleType DEF DecideApproval, DecideFinance, Deciding
  <2> QED
    BY <1>9, <2>3, MoveType DEF DecideApproval, DecideFinance
<1>10. ASSUME NEW r \in Request, DecideExpense(r) PROVE TypeOK'
  <2> DEFINE q == req[r]
             mail == [type |-> "expense.decision", exp |-> q.exp,
                      to |-> expense[q.exp].owner, status |-> Outcome(q)]
  <2>1. q \in [pc : Deciding, exp : Expense, level : Level,
               verdict : Verdict, seenApproval : Nat,
               seenFinance : Nat \cup {None}, seenExpense : Nat]
    BY <1>10, RequestFields DEF DecideExpense, Deciding
  <2>2. Outcome(q) \in Status
    BY <2>1 DEF Outcome, Status, Pending
  <2>3. /\ MovedTo(expense[q.exp], Outcome(q)) \in ExpenseRow
        /\ expense[q.exp].owner \in User \cup {NoUser}
    BY <2>1, <2>2, MovedExpense DEF TypeOK, ExpenseRow
  <2>4. \A rows \in [Level -> ApprovalRow] : Decided(rows, q) \in [Level -> ApprovalRow]
    BY <2>1, MovedApproval DEF Decided, Verdict, ApprovalStatus
  <2>5. {mail} \in SUBSET Mail
    BY <2>1, <2>2, <2>3 DEF Mail
  <2>6. CASE StillAs(expense[q.exp], Awaiting(q.level), q.seenExpense)
    <3>1. /\ expense' \in [Expense -> ExpenseRow]
          /\ approval' \in [Expense -> [Level -> ApprovalRow]]
      <4>1. Decided(approval[q.exp], q) \in [Level -> ApprovalRow]
        BY <2>1, <2>4 DEF TypeOK
      <4>2. /\ expense' = [expense EXCEPT ![q.exp] =
                             MovedTo(expense[q.exp], Outcome(q))]
            /\ approval' = [approval EXCEPT ![q.exp] = Decided(approval[q.exp], q)]
        BY <1>10, <2>6 DEF DecideExpense
      <4> QED
        BY <2>1, <2>3, <4>1, <4>2 DEF TypeOK
    <3> DEFINE done == Committed(DecisionEntry(q), {mail},
                                 Outcome(q) = "PENDING_FINANCE")
    <3>2. done \in RequestState
      BY <2>1, <2>5, DecisionEntryType
    <3>3. Resume(r, done)
      BY <1>10, <2>6 DEF DecideExpense
    <3> HIDE DEF done
    <3> QED
      BY <1>10, <3>1, <3>2, <3>3 DEF DecideExpense, TypeOK, Resume, logs
  <2>7. CASE ~StillAs(expense[q.exp], Awaiting(q.level), q.seenExpense)
    BY <1>10, <2>7, MoveType, IdleType DEF DecideExpense, tables
  <2> QED
    BY <2>6, <2>7
<1>11. ASSUME NEW r \in Request, WriteAudit(r) PROVE TypeOK'
  <2>1. req[r] \in [pc : {"audit"}, exp : Expense, entry : Entry,
                    mails : SUBSET Mail, handOver : BOOLEAN]
    BY <1>11, RequestFields DEF WriteAudit
  <2>2. [pc |-> "enqueue", exp |-> req[r].exp, mails |-> req[r].mails,
         handOver |-> req[r].handOver] \in RequestState
    BY <2>1 DEF RequestState
  <2>3. /\ IsABag(audit)'
        /\ BagToSet(audit)' = BagToSet(audit) \cup {req[r].entry}
    BY <1>11, OneRowMore DEF WriteAudit, TypeOK
  <2> QED
    BY <1>11, <2>1, <2>2, <2>3, IdleType DEF WriteAudit, TypeOK, Resume, tables
<1>12. ASSUME NEW r \in Request, EnqueueMail(r) PROVE TypeOK'
  <2>1. req[r] \in [pc : {"enqueue"}, exp : Expense, mails : SUBSET Mail,
                    handOver : BOOLEAN]
    BY <1>12, RequestFields DEF EnqueueMail
  <2>2. [pc |-> "lookup", exp |-> req[r].exp] \in RequestState
    BY <2>1 DEF RequestState
  <2> QED
    BY <1>12, <2>1, <2>2, IdleType DEF EnqueueMail, TypeOK, Resume, tables
<1>13. ASSUME NEW r \in Request, LookupFinance(r) PROVE TypeOK'
  <2> DEFINE row == approval[req[r].exp]["FINANCE"]
             mail == [type |-> "approval.requested", exp |-> req[r].exp,
                      to |-> row.approver, status |-> "PENDING_FINANCE"]
  <2>1. req[r].exp \in Expense
    BY <1>13, RequestFields DEF LookupFinance
  <2>2. mail \in Mail
    BY <2>1 DEF TypeOK, ApprovalRow, Level, Mail, Status, Pending
  <2>3. /\ [pc |-> "enqueue", exp |-> req[r].exp, handOver |-> FALSE,
            mails |-> {mail}] \in RequestState
        /\ [pc |-> "routeMissing", exp |-> req[r].exp] \in RequestState
    BY <2>1, <2>2 DEF RequestState
  <2>4. PICK state \in RequestState : Resume(r, state)
    BY <1>13, <2>3 DEF LookupFinance
  <2> QED
    BY <1>13, <2>4, MoveType DEF LookupFinance
<1>14. ASSUME NEW r \in Request, ReportMissingRoute(r) \/ Fail(r) PROVE TypeOK'
  BY <1>14, MoveType, IdleType DEF ReportMissingRoute, Fail
<1>15. CASE UNCHANGED vars
  BY <1>15 DEF TypeOK, vars, tables, logs
<1> QED
  BY <1>1, <1>2, <1>3, <1>4, <1>5, <1>6, <1>7, <1>8, <1>9, <1>10, <1>11,
     <1>12, <1>13, <1>14, <1>15 DEF Next, Arrive, Continue

LEMMA WorkflowInit == InitWorkflow /\ policies \in SUBSET PolicyRow => TypeOK
<1>1. AbsentExpense \in ExpenseRow
  BY DEF AbsentExpense, ExpenseRow, Status
<1>2. AbsentApproval \in ApprovalRow
  BY DEF AbsentApproval, ApprovalRow, ApprovalStatus
<1>3. NoDemand \in Evaluation
  BY DEF NoDemand, Evaluation
<1>4. IsABag(EmptyBag) /\ BagToSet(EmptyBag) = {}
  BY DEF IsABag, BagToSet, EmptyBag, SetToBag
<1> QED
  BY <1>1, <1>2, <1>3, <1>4, IdleType DEF InitWorkflow, TypeOK

LEMMA TypeInit == Init => TypeOK
BY WorkflowInit DEF Init, InitPolicies

\* Whatever the directory, the policies and the number of requests, every
\* variable keeps its type: the model has no state outside its tables.
THEOREM TypeCorrect == Spec => []TypeOK
  BY TypeInit, TypeStep, PTL DEF Spec

----------------------------------------------------------------------------
(* The route of an expense.  RouteConsistent is not inductive: it needs to *)
(* know that a decision in progress still has the truth in its hands.      *)

\* The approval rows are the levels demanded at submission.
RouteRecorded ==
    \A e \in Expense :
        LET manager == approval[e]["MANAGER"].status
            finance == approval[e]["FINANCE"].status
        IN
        expense[e].status \notin {"ABSENT", "DRAFT"} =>
          IF route[e].autoReject THEN expense[e].status = "REJECTED"
          ELSE /\ route[e].requireManager <=> manager # "NONE"
               /\ route[e].requireFinance <=> finance # "NONE"
               /\ expense[e].status = "REJECTED" =>
                    manager = "REJECTED" \/ finance = "REJECTED"

\* What a decision saw of the expense and of the finance approval is current.
SnapshotFresh(q) ==
    /\ StillAs(expense[q.exp], Awaiting(q.level), q.seenExpense)
    /\ q.level = "MANAGER" =>
         IF q.seenFinance = None
         THEN approval[q.exp]["FINANCE"].status = "NONE"
         ELSE StillAs(approval[q.exp]["FINANCE"], "SKIPPED", q.seenFinance)

\* The approval row is as the decision saw it.
RowFresh(q) == StillAs(approval[q.exp][q.level], "PENDING", q.seenApproval)

\* As long as the approval row of a decision is unchanged so is everything
\* else it saw, and once it has updated the row, the row is unchanged.
DecisionSound(q) ==
    q.pc \in Deciding =>
      /\ approval[q.exp][q.level].status \notin {"NONE", "SKIPPED"}
      /\ RowFresh(q) => SnapshotFresh(q)
      /\ q.pc # "decideApproval" => RowFresh(q)
      /\ q.pc = "decideFinance" => OpensFinance(q)

DecisionsSound == \A r \in Request : DecisionSound(req[r])

Holding == {"decideFinance", "decideExpense"}

\* At most one decision of an expense is past its first statement.
LocksExclusive ==
    \A r, s \in Request :
        /\ req[r].pc \in Holding /\ req[s].pc \in Holding
        /\ req[r].exp = req[s].exp
        => r = s

RouteInv ==
    TypeOK /\ RouteConsistent /\ RouteRecorded /\ DecisionsSound /\ LocksExclusive

LEMMA RouteInit == Init => RouteInv
<1> SUFFICES ASSUME Init PROVE RouteInv
  OBVIOUS
<1>1. TypeOK
  BY TypeInit
<1>2. RouteConsistent /\ RouteRecorded
  BY DEF Init, InitWorkflow, RouteConsistent, RouteRecorded, AbsentExpense, AbsentApproval, Level
<1>3. DecisionsSound /\ LocksExclusive
  BY DEF Init, InitWorkflow, Idle, DecisionsSound, DecisionSound, LocksExclusive, Deciding, Holding
<1> QED
  BY <1>1, <1>2, <1>3 DEF RouteInv

\* A step that writes no table, after which its request is not deciding.
LEMMA QuietStep ==
    ASSUME RouteInv, TypeOK', NEW r \in Request, UNCHANGED tables,
           \A s \in Request \ {r} : req'[s] = req[s],
           req'[r].pc \notin Deciding
    PROVE  RouteInv'
<1>1. RouteConsistent' /\ RouteRecorded'
  BY DEF RouteInv, RouteConsistent, RouteRecorded, tables
<1>2. DecisionsSound'
  <2> SUFFICES ASSUME NEW s \in Request, s # r PROVE DecisionSound(req[s])'
    BY DEF DecisionsSound, DecisionSound
  <2> QED
    BY DEF RouteInv, DecisionsSound, DecisionSound, RowFresh, SnapshotFresh,
           tables, OpensFinance
<1>3. LocksExclusive'
  BY DEF RouteInv, LocksExclusive, Holding, Deciding
<1> QED
  BY <1>1, <1>2, <1>3 DEF RouteInv

\* Nobody decides about an expense that is not submitted.
LEMMA NoDecisionOnDraft ==
    ASSUME RouteInv, NEW r \in Request, req[r].pc \in Deciding
    PROVE  /\ req[r].exp \in Expense /\ req[r].level \in Level
           /\ expense[req[r].exp].status \notin {"ABSENT", "DRAFT"}
<1>1. req[r].exp \in Expense /\ req[r].level \in Level
  BY RequestFields DEF RouteInv
<1>2. approval[req[r].exp][req[r].level].status # "NONE"
  BY DEF RouteInv, DecisionsSound, DecisionSound
<1> QED
  BY <1>1, <1>2 DEF RouteInv, RouteConsistent, Level

\* At most one level of an expense is pending.
LEMMA OnePending ==
    ASSUME RouteInv, NEW e \in Expense
    PROVE  ~ /\ approval[e]["MANAGER"].status = "PENDING"
             /\ approval[e]["FINANCE"].status = "PENDING"
<1>1. expense[e].status \in Status
  BY DEF RouteInv, TypeOK, ExpenseRow
<1> QED
  BY <1>1 DEF RouteInv, RouteConsistent, Status, Pending, Verdict

\* A step that writes the rows of one unsubmitted expense, after which its
\* request is not deciding, keeps the decisions of the others sound.
LEMMA DraftStep ==
    ASSUME RouteInv, NEW r \in Request, NEW e \in Expense,
           expense[e].status \in {"ABSENT", "DRAFT"},
           \A f \in Expense \ {e} : expense'[f] = expense[f] /\ approval'[f] = approval[f],
           \A s \in Request \ {r} : req'[s] = req[s],
           req'[r].pc \notin Deciding
    PROVE  DecisionsSound' /\ LocksExclusive'
<1>1. DecisionsSound'
  <2> SUFFICES ASSUME NEW s \in Request, s # r, req[s].pc \in Deciding
               PROVE  DecisionSound(req[s])'
    BY DEF DecisionsSound, DecisionSound
  <2>1. req[s].exp \in Expense \ {e}
    BY NoDecisionOnDraft
  <2> QED
    BY <2>1 DEF RouteInv, DecisionsSound, DecisionSound, RowFresh, SnapshotFresh,
                OpensFinance
<1>2. LocksExclusive'
  BY DEF RouteInv, LocksExclusive, Holding, Deciding
<1> QED
  BY <1>1, <1>2

LEMMA RouteStep == RouteInv /\ [Next]_vars => RouteInv'
<1> SUFFICES ASSUME RouteInv, [Next]_vars PROVE RouteInv'
  OBVIOUS
<1> TypeOK /\ TypeOK'
  BY TypeStep DEF RouteInv
<1>1. CASE ChangePolicies \/ UNCHANGED vars
  <2>1. UNCHANGED <<expense, approval, route, req>>
    BY <1>1 DEF ChangePolicies, vars, tables
  <2> QED
    BY <2>1 DEF RouteInv, RouteConsistent, RouteRecorded, DecisionsSound,
                DecisionSound, RowFresh, SnapshotFresh, OpensFinance, LocksExclusive
<1>2. ASSUME NEW r \in Request, CreateExpense(r) PROVE RouteInv'
  <2>1. PICK e \in Expense, u \in User, c \in Claim :
          /\ expense[e].status = "ABSENT"
          /\ expense' = [expense EXCEPT ![e] = [AbsentExpense EXCEPT
                            !.status = "DRAFT", !.owner = u, !.claim = c]]
          /\ Resume(r, Committed(AuditEntry("expense.created", e, None), {}, FALSE))
    BY <1>2 DEF CreateExpense
  <2>2. expense'[e].status = "DRAFT"
    BY <2>1 DEF AbsentExpense, TypeOK
  <2>3. /\ \A s \in Request \ {r} : req'[s] = req[s]
        /\ req'[r].pc \notin Deciding
    BY <2>1 DEF Resume, Committed, Deciding, TypeOK
  <2>4. UNCHANGED <<approval, route>> /\ \A f \in Expense \ {e} : expense'[f] = expense[f]
    BY <1>2, <2>1 DEF CreateExpense, TypeOK
  <2>5. DecisionsSound' /\ LocksExclusive'
    BY <2>1, <2>3, <2>4, DraftStep
  <2>6. RouteConsistent' /\ RouteRecorded'
    BY <2>1, <2>2, <2>4 DEF RouteInv, RouteConsistent, RouteRecorded
  <2> QED
    BY <2>5, <2>6 DEF RouteInv
<1>3. ASSUME NEW r \in Request, AttachReceipt(r) PROVE RouteInv'
  <2> DEFINE e == req[r].exp
  <2>1. e \in Expense /\ req[r].receipt \in ReceiptKey
    BY <1>3, RequestFields DEF AttachReceipt
  <2>2. CASE StillAs(expense[e], "DRAFT", req[r].expected)
    <3>1. /\ expense[e].status = "DRAFT" /\ expense'[e].status = "DRAFT"
          /\ UNCHANGED <<approval, route>>
          /\ \A f \in Expense \ {e} : expense'[f] = expense[f]
      BY <1>3, <2>1, <2>2, ReceiptExpense DEF AttachReceipt, StillAs, TypeOK
    <3>2. /\ \A s \in Request \ {r} : req'[s] = req[s]
          /\ req'[r].pc \notin Deciding
      BY <1>3, <2>2 DEF AttachReceipt, Resume, Committed, Deciding, TypeOK
    <3>3. DecisionsSound' /\ LocksExclusive'
      BY <2>1, <3>1, <3>2, DraftStep
    <3>4. RouteConsistent' /\ RouteRecorded'
      BY <2>1, <3>1 DEF RouteInv, RouteConsistent, RouteRecorded
    <3> QED
      BY <3>3, <3>4 DEF RouteInv
  <2>3. CASE ~StillAs(expense[e], "DRAFT", req[r].expected)
    <3>1. Resume(r, Idle) /\ UNCHANGED tables
      BY <1>3, <2>3 DEF AttachReceipt, tables
    <3>2. /\ \A s \in Request \ {r} : req'[s] = req[s]
          /\ req'[r].pc \notin Deciding
      BY <3>1 DEF Resume, Idle, Deciding, TypeOK
    <3> QED
      BY <3>1, <3>2, QuietStep DEF tables
  <2> QED
    BY <2>2, <2>3
<1>4. ASSUME NEW r \in Request, SubmitExpense(r) PROVE RouteInv'
  <2> DEFINE q == req[r]
             e == q.exp
             status == SubmissionStatus(q.ev)
             rows == NewApprovals(q.ev, q.found)
  <2>1. /\ e \in Expense /\ q.ev \in Evaluation
        /\ q.found \in [Level -> User \cup {NoUser}]
    BY <1>4, RequestFields DEF SubmitExpense
  <2>2. CASE StillAs(expense[e], "DRAFT", q.expected)
    <3>1. status \in Status
      BY <2>1, SubmissionStatusType
    <3>2. /\ expense[e].status = "DRAFT" /\ expense'[e].status = status
          /\ approval'[e] = rows /\ route'[e] = q.ev
          /\ \A f \in Expense \ {e} : /\ expense'[f] = expense[f]
                                     /\ approval'[f] = approval[f]
                                     /\ route'[f] = route[f]
      BY <1>4, <2>1, <2>2, <3>1, MovedExpense DEF SubmitExpense, StillAs, TypeOK
    <3>3. /\ \A s \in Request \ {r} : req'[s] = req[s]
          /\ req'[r].pc \notin Deciding
      BY <1>4, <2>2 DEF SubmitExpense, Resume, Committed, Deciding, TypeOK
    <3>4. DecisionsSound' /\ LocksExclusive'
      BY <2>1, <3>2, <3>3, DraftStep
    <3>5. /\ rows["MANAGER"].status =
               IF ~q.ev.autoReject /\ q.ev.requireManager THEN "PENDING" ELSE "NONE"
          /\ rows["FINANCE"].status =
               IF ~q.ev.autoReject /\ q.ev.requireFinance
               THEN IF q.ev.requireManager THEN "SKIPPED" ELSE "PENDING"
               ELSE "NONE"
      BY <2>1 DEF NewApprovals, AbsentApproval, Level, Evaluation
    <3>6. RouteConsistent'
      BY <2>1, <3>2, <3>5 DEF RouteInv, RouteConsistent, SubmissionStatus, Evaluation
    <3>7. RouteRecorded'
      BY <2>1, <3>2, <3>5 DEF RouteInv, RouteRecorded, SubmissionStatus, Evaluation
    <3> QED
      BY <3>4, <3>6, <3>7 DEF RouteInv
  <2>3. CASE ~StillAs(expense[e], "DRAFT", q.expected)
    <3>1. Resume(r, Idle) /\ UNCHANGED tables
      BY <1>4, <2>3 DEF SubmitExpense
    <3>2. /\ \A s \in Request \ {r} : req'[s] = req[s]
          /\ req'[r].pc \notin Deciding
      BY <3>1 DEF Resume, Idle, Deciding, TypeOK
    <3> QED
      BY <3>1, <3>2, QuietStep DEF tables
  <2> QED
    BY <2>2, <2>3
<1>5. ASSUME NEW r \in Request,
             \/ StartReceipt(r) \/ StartSubmit(r) \/ EvaluatePolicies(r)
             \/ WriteAudit(r) \/ EnqueueMail(r) \/ LookupFinance(r)
             \/ ReportMissingRoute(r) \/ Fail(r)
      PROVE  RouteInv'
  <2>1. UNCHANGED tables
    BY <1>5 DEF StartReceipt, StartSubmit, EvaluatePolicies, WriteAudit,
                EnqueueMail, LookupFinance, ReportMissingRoute, Fail
  <2>2. /\ \A s \in Request \ {r} : req'[s] = req[s]
        /\ req'[r].pc \notin Deciding
    <3>1. CASE StartReceipt(r)
      BY <3>1 DEF StartReceipt, Resume, TypeOK, Deciding, Idle
    <3>2. CASE StartSubmit(r)
      BY <3>2 DEF StartSubmit, Resume, TypeOK, Deciding, Idle
    <3>3. CASE EvaluatePolicies(r)
      BY <3>3 DEF EvaluatePolicies, Resume, TypeOK, Deciding, Idle
    <3>4. CASE WriteAudit(r)
      BY <3>4 DEF WriteAudit, Resume, TypeOK, Deciding, Idle
    <3>5. CASE EnqueueMail(r)
      BY <3>5 DEF EnqueueMail, Resume, TypeOK, Deciding, Idle
    <3>6. CASE LookupFinance(r)
      BY <3>6 DEF LookupFinance, Resume, TypeOK, Deciding, Idle
    <3>7. CASE ReportMissingRoute(r) \/ Fail(r)
      BY <3>7 DEF ReportMissingRoute, Fail, Resume, TypeOK, Deciding, Idle
    <3> QED
      BY <1>5, <3>1, <3>2, <3>3, <3>4, <3>5, <3>6, <3>7
  <2> QED
    BY <2>1, <2>2, QuietStep
<1>6. ASSUME NEW r \in Request, StartDecide(r) PROVE RouteInv'
  <2>1. PICK e \in Expense, level \in Level, verdict \in Verdict :
          /\ approval[e][level].status = "PENDING"
          /\ expense[e].status = Awaiting(level)
          /\ Resume(r, [pc |-> "decideApproval", exp |-> e, level |-> level,
                        verdict |-> verdict,
                        seenApproval |-> approval[e][level].version,
                        seenFinance |-> IF approval[e]["FINANCE"].status = "NONE"
                                        THEN None
                                        ELSE approval[e]["FINANCE"].version,
                        seenExpense |-> expense[e].version])
    BY <1>6 DEF StartDecide
  <2>2. UNCHANGED <<expense, approval, route>>
    BY <1>6 DEF StartDecide, tables
  <2>3. RouteConsistent' /\ RouteRecorded'
    BY <2>2 DEF RouteInv, RouteConsistent, RouteRecorded
  <2>4. /\ \A s \in Request \ {r} : req'[s] = req[s]
        /\ req'[r].pc = "decideApproval"
        /\ req'[r].exp = e /\ req'[r].level = level
        /\ req'[r].seenApproval = approval[e][level].version
        /\ req'[r].seenExpense = expense[e].version
        /\ req'[r].seenFinance = IF approval[e]["FINANCE"].status = "NONE"
                                 THEN None ELSE approval[e]["FINANCE"].version
    BY <2>1 DEF Resume, TypeOK
  <2>5. DecisionSound(req[r])'
    <3>1. approval[e]["FINANCE"].version \in Nat /\ -1 \notin Nat
      BY DEF TypeOK, ApprovalRow, Level
    <3>2. level = "MANAGER" => approval[e]["FINANCE"].status \in {"NONE", "SKIPPED"}
      BY <2>1 DEF RouteInv, RouteConsistent, Awaiting
    <3> QED
      BY <2>1, <2>2, <2>4, <3>1, <3>2
      DEF DecisionSound, RowFresh, SnapshotFresh, StillAs, None
  <2>6. DecisionsSound'
    <3> SUFFICES ASSUME NEW s \in Request, s # r PROVE DecisionSound(req[s])'
      BY <2>5 DEF DecisionsSound
    <3> QED
      BY <2>2, <2>4 DEF RouteInv, DecisionsSound, DecisionSound, RowFresh,
                        SnapshotFresh, OpensFinance
  <2>7. LocksExclusive'
    BY <2>4 DEF RouteInv, LocksExclusive, Holding
  <2> QED
    BY <2>3, <2>6, <2>7 DEF RouteInv
<1>7. ASSUME NEW r \in Request, DecideApproval(r) \/ DecideFinance(r)
      PROVE  RouteInv'
  <2> DEFINE q == req[r]
  <2>1. /\ q \in [pc : Deciding, exp : Expense, level : Level,
                  verdict : Verdict, seenApproval : Nat,
                  seenFinance : Nat \cup {None}, seenExpense : Nat]
        /\ q.pc \in {"decideApproval", "decideFinance"}
    BY <1>7, RequestFields DEF DecideApproval, DecideFinance, Deciding
  <2>2. UNCHANGED <<expense, approval, route>>
    BY <1>7 DEF DecideApproval, DecideFinance, tables
  <2>3. CASE Resume(r, Idle)
    BY <2>2, <2>3, QuietStep DEF Resume, Idle, Deciding, TypeOK, tables
  <2>4. ASSUME NEW pc \in Holding, Resume(r, [q EXCEPT !.pc = pc]),
               RowFresh(q), pc = "decideFinance" => OpensFinance(q),
               q.pc = "decideApproval" => ~Locked(q.exp, q.level)
        PROVE  RouteInv'
    <3>1. /\ \A s \in Request \ {r} : req'[s] = req[s]
          /\ req'[r] = [q EXCEPT !.pc = pc]
      BY <2>4 DEF Resume, TypeOK
    <3>2. /\ req'[r].pc = pc /\ req'[r].exp = q.exp /\ req'[r].level = q.level
          /\ req'[r].verdict = q.verdict /\ req'[r].seenApproval = q.seenApproval
          /\ req'[r].seenFinance = q.seenFinance
          /\ req'[r].seenExpense = q.seenExpense
      BY <2>1, <3>1
    <3>3. RouteConsistent' /\ RouteRecorded'
      BY <2>2 DEF RouteInv, RouteConsistent, RouteRecorded
    <3>4. SnapshotFresh(q) /\ approval[q.exp][q.level].status \notin {"NONE", "SKIPPED"}
      BY <2>1, <2>4 DEF RouteInv, DecisionsSound, DecisionSound
    <3>5. DecisionSound(req[r])'
      BY <2>2, <2>4, <3>2, <3>4
      DEF DecisionSound, RowFresh, SnapshotFresh, OpensFinance
    <3>6. DecisionsSound'
      <4> SUFFICES ASSUME NEW s \in Request, s # r PROVE DecisionSound(req[s])'
        BY <3>5 DEF DecisionsSound
      <4> QED
        BY <2>2, <3>1 DEF RouteInv, DecisionsSound, DecisionSound, RowFresh,
                          SnapshotFresh, OpensFinance
    <3>7. LocksExclusive'
      <4>1. ASSUME NEW s \in Request, s # r, req[s].pc \in Holding,
                   req[s].exp = q.exp
            PROVE  FALSE
        <5>1. CASE q.pc = "decideFinance"
          BY <4>1, <5>1 DEF RouteInv, LocksExclusive, Holding
        <5>2. CASE q.pc = "decideApproval"
          <6>1. req[s].level # q.level
            BY <2>4, <4>1, <5>2 DEF Locked, Holding
          <6>2. req[s].level \in Level /\ q.level \in Level
            BY <2>1, <4>1, RequestFields DEF Holding, Deciding
          <6>3. RowFresh(req[s])
            BY <4>1 DEF RouteInv, DecisionsSound, DecisionSound, Holding, Deciding
          <6> QED
            BY <2>1, <2>4, <4>1, <6>1, <6>2, <6>3, OnePending
            DEF RowFresh, StillAs, Level
        <5> QED
          BY <2>1, <5>1, <5>2
      <4> SUFFICES ASSUME NEW s \in Request, NEW t \in Request, s # t,
                          req'[s].pc \in Holding, req'[t].pc \in Holding,
                          req'[s].exp = req'[t].exp
                   PROVE  FALSE
        BY DEF LocksExclusive
      <4>2. \A x \in Request : x # r => req'[x] = req[x]
        BY <3>1
      <4>3. CASE s = r
        BY <3>2, <4>1, <4>2, <4>3
      <4>4. CASE t = r
        BY <3>2, <4>1, <4>2, <4>4
      <4>5. CASE s # r /\ t # r
        BY <4>2, <4>5 DEF RouteInv, LocksExclusive
      <4> QED
        BY <4>3, <4>4, <4>5
    <3> QED
      BY <3>3, <3>6, <3>7 DEF RouteInv
  <2>5. CASE DecideApproval(r)
    <3>1. CASE RowFresh(q)
      BY <2>4, <2>5, <3>1 DEF DecideApproval, RowFresh, Holding
    <3>2. CASE ~RowFresh(q)
      BY <2>3, <2>5, <3>2 DEF DecideApproval, RowFresh
    <3> QED
      BY <3>1, <3>2
  <2>6. CASE DecideFinance(r)
    <3>1. RowFresh(q)
      BY <2>6 DEF DecideFinance, RouteInv, DecisionsSound, DecisionSound, Deciding
    <3> QED
      BY <2>3, <2>4, <2>6, <3>1 DEF DecideFinance, Holding
  <2> QED
    BY <1>7, <2>5, <2>6
<1>8. ASSUME NEW r \in Request, DecideExpense(r) PROVE RouteInv'
  <2> DEFINE q == req[r]
             e == q.exp
             manager == approval[e]["MANAGER"]
             finance == approval[e]["FINANCE"]
  <2>1. q \in [pc : Deciding, exp : Expense, level : Level,
               verdict : Verdict, seenApproval : Nat,
               seenFinance : Nat \cup {None}, seenExpense : Nat]
    BY <1>8, RequestFields DEF DecideExpense, Deciding
  <2>2. RowFresh(q) /\ SnapshotFresh(q)
    BY <1>8 DEF DecideExpense, RouteInv, DecisionsSound, DecisionSound, Deciding
  <2>3. Outcome(q) \in Status
    BY <2>1 DEF Outcome, Status, Pending
  <2>4. /\ expense'[e].status = Outcome(q)
        /\ approval'[e] = Decided(approval[e], q)
        /\ UNCHANGED route
        /\ \A f \in Expense \ {e} : /\ expense'[f] = expense[f]
                                   /\ approval'[f] = approval[f]
    BY <1>8, <2>1, <2>2, <2>3, MovedExpense DEF DecideExpense, SnapshotFresh, TypeOK
  <2>5. /\ \A s \in Request \ {r} : req'[s] = req[s]
        /\ req'[r].pc \notin Deciding
    BY <1>8, <2>2 DEF DecideExpense, SnapshotFresh, Resume, Committed, Deciding, TypeOK
  <2>6. /\ approval'[e][q.level].status = q.verdict
        /\ \A level \in Level \ {q.level} :
             approval'[e][level].status =
               IF OpensFinance(q) THEN "PENDING" ELSE approval[e][level].status
    BY <2>1, <2>4, MovedApproval DEF Decided, TypeOK, Verdict, ApprovalStatus
  <2>7. /\ expense[e].status = Awaiting(q.level)
        /\ approval[e][q.level].status = "PENDING"
        /\ q.level = "MANAGER" =>
             finance.status = IF q.seenFinance = None THEN "NONE" ELSE "SKIPPED"
    BY <2>2 DEF RowFresh, SnapshotFresh, StillAs
  <2>8. RouteConsistent'
    <3> SUFFICES
          /\ Outcome(q) \in {"PENDING_FINANCE", "APPROVED", "REJECTED"}
          /\ Outcome(q) = "PENDING_FINANCE" =>
               /\ approval'[e]["MANAGER"].status \in {"NONE", "APPROVED"}
               /\ approval'[e]["FINANCE"].status = "PENDING"
          /\ Outcome(q) = "APPROVED" =>
               {approval'[e]["MANAGER"].status, approval'[e]["FINANCE"].status}
                 \subseteq {"NONE", "APPROVED"}
          /\ Outcome(q) = "REJECTED" =>
               \/ /\ approval'[e]["MANAGER"].status = "REJECTED"
                  /\ approval'[e]["FINANCE"].status \in {"NONE", "SKIPPED"}
               \/ /\ approval'[e]["MANAGER"].status \in {"NONE", "APPROVED"}
                  /\ approval'[e]["FINANCE"].status = "REJECTED"
      BY <2>1, <2>4 DEF RouteInv, RouteConsistent
    <3>1. CASE q.level = "MANAGER"
      BY <2>1, <2>6, <2>7, <3>1 DEF Outcome, OpensFinance, Level, Verdict
    <3>2. CASE q.level = "FINANCE"
      <4>1. manager.status \in {"NONE", "APPROVED"}
        BY <2>1, <2>7, <3>2 DEF RouteInv, RouteConsistent, Awaiting
      <4> QED
        BY <2>1, <2>6, <4>1, <3>2 DEF Outcome, OpensFinance, Level, Verdict
    <3> QED
      BY <2>1, <3>1, <3>2 DEF Level
  <2>9. RouteRecorded'
    <3>1. /\ ~route[e].autoReject
          /\ route[e].requireManager <=> manager.status # "NONE"
          /\ route[e].requireFinance <=> finance.status # "NONE"
      BY <2>1, <2>7 DEF RouteInv, RouteRecorded, Awaiting
    <3>2. /\ approval'[e]["MANAGER"].status # "NONE" <=> manager.status # "NONE"
          /\ approval'[e]["FINANCE"].status # "NONE" <=> finance.status # "NONE"
          /\ Outcome(q) = "REJECTED" =>
               \/ approval'[e]["MANAGER"].status = "REJECTED"
               \/ approval'[e]["FINANCE"].status = "REJECTED"
      BY <2>1, <2>6, <2>7 DEF Outcome, OpensFinance, Level, Verdict
    <3> QED
      BY <2>1, <2>4, <3>1, <3>2 DEF RouteInv, RouteRecorded
  <2>10. DecisionsSound'
    <3> SUFFICES ASSUME NEW s \in Request, s # r, req[s].pc \in Deciding
                 PROVE  DecisionSound(req[s])'
      BY <2>5 DEF DecisionsSound, DecisionSound
    <3>1. /\ req[s].exp \in Expense /\ req[s].level \in Level
          /\ DecisionSound(req[s]) /\ req'[s] = req[s]
      BY <2>5, NoDecisionOnDraft DEF RouteInv, DecisionsSound
    <3>2. CASE req[s].exp # e
      BY <2>4, <3>1, <3>2 DEF DecisionSound, RowFresh, SnapshotFresh, OpensFinance
    <3>3. CASE req[s].exp = e
      <4>1. req[s].pc = "decideApproval"
        BY <1>8, <3>3 DEF DecideExpense, RouteInv, LocksExclusive, Holding, Deciding
      <4>2. CASE req[s].level = q.level
        BY <2>1, <2>6, <3>1, <3>3, <4>1, <4>2
        DEF DecisionSound, RowFresh, StillAs, Verdict
      <4>3. CASE req[s].level # q.level
        <5>1. approval[e][req[s].level].status = "APPROVED"
          <6>1. approval[e][req[s].level].status \notin {"NONE", "SKIPPED"}
            BY <3>1, <3>3 DEF DecisionSound
          <6> QED
            BY <2>1, <2>7, <3>1, <4>3, <6>1
            DEF RouteInv, RouteConsistent, Awaiting, Level
        <5>2. ~OpensFinance(q)
          BY <2>1, <2>7, <3>1, <4>3, <5>1 DEF OpensFinance, Level
        <5>3. approval'[e][req[s].level].status = "APPROVED"
          BY <2>6, <3>1, <4>3, <5>1, <5>2
        <5> QED
          BY <3>1, <3>3, <4>1, <5>3 DEF DecisionSound, RowFresh, StillAs
      <4> QED
        BY <4>2, <4>3
    <3> QED
      BY <3>2, <3>3
  <2>11. LocksExclusive'
    BY <2>5 DEF RouteInv, LocksExclusive, Holding, Deciding
  <2> QED
    BY <2>8, <2>9, <2>10, <2>11 DEF RouteInv
<1> QED
  BY <1>1, <1>2, <1>3, <1>4, <1>5, <1>6, <1>7, <1>8 DEF Next, Arrive, Continue

LEMMA RouteInvariant == Spec => []RouteInv
  BY RouteInit, RouteStep, PTL DEF Spec

\* The expense table and the approval table never contradict each other,
\* however many handlers run and wherever they fail.
THEOREM RoutesConsistent == Spec => []RouteConsistent
<1>1. RouteInv => RouteConsistent
  BY DEF RouteInv
<1> QED
  BY <1>1, RouteInvariant, PTL

\* No expense is approved around a level of review that its policies asked
\* for, and none is refused without a policy or an approver refusing it.
THEOREM ApprovalsFollowRoute == Spec => []ApprovedThroughRoute
<1>1. RouteInv => ApprovedThroughRoute
  BY DEF RouteInv, RouteConsistent, RouteRecorded, ApprovedThroughRoute
<1> QED
  BY <1>1, RouteInvariant, PTL

\* Once a decision has updated its approval row, its transaction commits: the
\* other two compare-and-set updates of decide cannot miss.
THEOREM DecisionsNeverHalfway == Spec => []InnerUpdatesNeverFail
<1>1. RouteInv => InnerUpdatesNeverFail
  <2> SUFFICES ASSUME RouteInv, NEW r \in Request, req[r].pc \in Holding
               PROVE  /\ req[r].pc = "decideFinance" =>
                           /\ StillAs(approval[req[r].exp]["FINANCE"], "SKIPPED",
                                      req[r].seenFinance)
                           /\ ~Locked(req[r].exp, "FINANCE")
                      /\ req[r].pc = "decideExpense" =>
                           StillAs(expense[req[r].exp], Awaiting(req[r].level),
                                   req[r].seenExpense)
    BY DEF InnerUpdatesNeverFail, Holding
  <2>1. SnapshotFresh(req[r]) /\ (req[r].pc = "decideFinance" => OpensFinance(req[r]))
    BY DEF RouteInv, DecisionsSound, DecisionSound, Holding, Deciding
  <2>2. req[r].pc = "decideFinance" => ~Locked(req[r].exp, "FINANCE")
    BY <2>1 DEF RouteInv, LocksExclusive, Locked, OpensFinance, Holding
  <2> QED
    BY <2>1, <2>2 DEF SnapshotFresh, OpensFinance
<1> QED
  BY <1>1, RouteInvariant, PTL

----------------------------------------------------------------------------
(* What a step may never do. *)

\* The actions that write a table; every other one leaves them all alone.
Writes(r) == CreateExpense(r) \/ AttachReceipt(r) \/ SubmitExpense(r) \/ DecideExpense(r)

LEMMA TableWriters ==
    [Next]_vars => UNCHANGED tables \/ \E r \in Request : Writes(r)
<1> SUFFICES ASSUME Next PROVE UNCHANGED tables \/ \E r \in Request : Writes(r)
  BY DEF vars
<1>1. CASE ChangePolicies
  BY <1>1 DEF ChangePolicies
<1>2. ASSUME NEW r \in Request, Arrive(r) \/ Continue(r) \/ Fail(r), ~Writes(r)
      PROVE  UNCHANGED tables
  <2>1. CASE StartReceipt(r) \/ StartSubmit(r) \/ StartDecide(r) \/ EvaluatePolicies(r)
    BY <2>1 DEF StartReceipt, StartSubmit, StartDecide, EvaluatePolicies
  <2>2. CASE DecideApproval(r) \/ DecideFinance(r)
    BY <2>2 DEF DecideApproval, DecideFinance
  <2>3. CASE WriteAudit(r) \/ EnqueueMail(r) \/ LookupFinance(r)
    BY <2>3 DEF WriteAudit, EnqueueMail, LookupFinance
  <2>4. CASE ReportMissingRoute(r) \/ Fail(r)
    BY <2>4 DEF ReportMissingRoute, Fail
  <2> QED
    BY <1>2, <2>1, <2>2, <2>3, <2>4 DEF Arrive, Continue, Writes
<1> QED
  BY <1>1, <1>2 DEF Next

\* The expense that a writer is about.
LEMMA OneExpenseWritten ==
    ASSUME TypeOK, NEW r \in Request, Writes(r), NEW e \in Expense,
           <<expense'[e], approval'[e], route'[e]>> # <<expense[e], approval[e], route[e]>>
    PROVE  /\ expense'[e].status \in Status \ {"ABSENT"}
           /\ \/ expense[e].status = "ABSENT" /\ expense'[e].receipt = NoReceipt
              \/ expense[e].status = "DRAFT" /\ expense'[e].status = "DRAFT"
              \/ /\ expense[e].status \in {"DRAFT"} \cup Pending
                 /\ expense'[e].receipt = expense[e].receipt
<1> DEFINE q == req[r]
           row == expense[e]
<1>1. row \in ExpenseRow /\ row.status \in Status
  BY DEF TypeOK, ExpenseRow
<1>2. CASE CreateExpense(r)
  <2>1. PICK d \in Expense, u \in User, c \in Claim :
          /\ expense[d].status = "ABSENT"
          /\ expense' = [expense EXCEPT ![d] =
                [AbsentExpense EXCEPT !.status = "DRAFT", !.owner = u, !.claim = c]]
    BY <1>2 DEF CreateExpense
  <2>2. UNCHANGED <<approval, route>>
    BY <1>2 DEF CreateExpense
  <2>3. d = e
    BY <2>1, <2>2 DEF TypeOK
  <2>4. expense'[e].status = "DRAFT" /\ expense'[e].receipt = NoReceipt
    BY <2>1, <2>3 DEF TypeOK, AbsentExpense
  <2> QED
    BY <2>1, <2>3, <2>4 DEF Status
<1>3. CASE AttachReceipt(r)
  <2>1. q.exp \in Expense /\ q.receipt \in ReceiptKey
    BY <1>3, RequestFields DEF AttachReceipt
  <2>2. /\ StillAs(expense[q.exp], "DRAFT", q.expected)
        /\ expense' = [expense EXCEPT ![q.exp] = WithReceipt(expense[q.exp], q.receipt)]
    BY <1>3 DEF AttachReceipt
  <2>3. q.exp = e
    BY <1>3, <2>1, <2>2 DEF AttachReceipt, TypeOK
  <2>4. expense'[e] = WithReceipt(row, q.receipt) /\ row.status = "DRAFT"
    BY <2>2, <2>3 DEF TypeOK, StillAs
  <2>5. expense'[e].status = "DRAFT"
    BY <1>1, <2>1, <2>4, ReceiptExpense
  <2> QED
    BY <2>4, <2>5 DEF Status
<1>4. CASE SubmitExpense(r)
  <2>1. q.exp \in Expense /\ q.ev \in Evaluation
    BY <1>4, RequestFields DEF SubmitExpense
  <2>2. /\ StillAs(expense[q.exp], "DRAFT", q.expected)
        /\ expense' = [expense EXCEPT ![q.exp] =
                         MovedTo(expense[q.exp], SubmissionStatus(q.ev))]
    BY <1>4 DEF SubmitExpense, tables
  <2>3. q.exp = e
    BY <1>4, <2>1, <2>2 DEF SubmitExpense, TypeOK
  <2>4. expense'[e] = MovedTo(row, SubmissionStatus(q.ev)) /\ row.status = "DRAFT"
    BY <2>2, <2>3 DEF TypeOK, StillAs
  <2>5. SubmissionStatus(q.ev) \in Status \ {"ABSENT"}
    BY DEF SubmissionStatus, Status, Pending, Verdict
  <2>6. expense'[e].status \in Status \ {"ABSENT"} /\ expense'[e].receipt = row.receipt
    BY <1>1, <2>4, <2>5, MovedExpense
  <2> QED
    BY <2>4, <2>6
<1>5. CASE DecideExpense(r)
  <2>1. q.exp \in Expense /\ q.level \in Level /\ q.verdict \in Verdict
    BY <1>5, RequestFields DEF DecideExpense, Deciding
  <2>2. /\ StillAs(expense[q.exp], Awaiting(q.level), q.seenExpense)
        /\ expense' = [expense EXCEPT ![q.exp] = MovedTo(expense[q.exp], Outcome(q))]
    BY <1>5 DEF DecideExpense
  <2>3. q.exp = e
    BY <1>5, <2>1, <2>2 DEF DecideExpense, TypeOK
  <2>4. expense'[e] = MovedTo(row, Outcome(q)) /\ row.status \in Pending
    BY <2>1, <2>2, <2>3, AwaitingType DEF TypeOK, StillAs
  <2>5. Outcome(q) \in Status \ {"ABSENT"}
    BY <2>1 DEF Outcome, Status, Pending, Verdict
  <2>6. expense'[e].status \in Status \ {"ABSENT"} /\ expense'[e].receipt = row.receipt
    BY <1>1, <2>4, <2>5, MovedExpense
  <2> QED
    BY <2>4, <2>6
<1> QED
  BY <1>2, <1>3, <1>4, <1>5 DEF Writes

\* An expense that does not exist has no receipt.
AbsentEmpty == \A e \in Expense : expense[e].status = "ABSENT" => expense[e].receipt = NoReceipt

LEMMA AbsentInvariant == Spec => [](TypeOK /\ AbsentEmpty)
<1>1. Init => AbsentEmpty
  BY DEF Init, InitWorkflow, AbsentEmpty, AbsentExpense
<1>2. TypeOK /\ AbsentEmpty /\ [Next]_vars => AbsentEmpty'
  <2> SUFFICES ASSUME TypeOK, AbsentEmpty, [Next]_vars, NEW e \in Expense,
                      expense'[e].status = "ABSENT"
               PROVE  expense'[e].receipt = NoReceipt
    BY DEF AbsentEmpty
  <2>1. expense'[e] = expense[e]
    BY TableWriters, OneExpenseWritten DEF tables
  <2> QED
    BY <2>1 DEF AbsentEmpty
<1> QED
  BY <1>1, <1>2, TypeInit, TypeStep, PTL DEF Spec

\* No handler, however old the rows it read, touches an expense that is
\* approved or refused, or its approvals.
THEOREM DecisionsAreFinal == Spec => DecisionsFinal
<1>1. TypeOK /\ [Next]_vars =>
        [\A e \in Expense :
           expense[e].status \in Verdict =>
             UNCHANGED <<expense[e], approval[e], route[e]>>]_tables
  <2> SUFFICES ASSUME TypeOK, NEW r \in Request, Writes(r), NEW e \in Expense,
                      expense[e].status \in Verdict
               PROVE  UNCHANGED <<expense[e], approval[e], route[e]>>
    BY TableWriters
  <2> QED
    BY OneExpenseWritten DEF Verdict, Pending
<1> QED
  BY <1>1, TypeCorrect, PTL DEF Spec, DecisionsFinal

\* Reviewers see the receipt that was submitted.
THEOREM ReceiptsAreFrozen == Spec => ReceiptFrozen
<1>1. TypeOK /\ AbsentEmpty /\ [Next]_vars =>
        [\A e \in Expense :
           expense'[e].receipt # expense[e].receipt =>
             expense[e].status = "DRAFT" /\ expense'[e].status = "DRAFT"]_expense
  <2> SUFFICES ASSUME TypeOK, AbsentEmpty, NEW r \in Request, Writes(r), NEW e \in Expense,
                      expense'[e].receipt # expense[e].receipt
               PROVE  expense[e].status = "DRAFT" /\ expense'[e].status = "DRAFT"
    BY TableWriters DEF tables
  <2> QED
    BY OneExpenseWritten DEF AbsentEmpty
<1> QED
  BY <1>1, AbsentInvariant, PTL DEF Spec, ReceiptFrozen

----------------------------------------------------------------------------
(* The audit log.  Its entries are claimed when a handler commits and are  *)
(* written later, so the invariants are about both.                        *)

Claimed == BagToSet(audit)
             \cup {req[r].entry : r \in {s \in Request : req[s].pc = "audit"}}

AuditInv ==
    /\ \A a \in Claimed :
         expense[a.exp].status # "ABSENT" /\ a.version <= expense[a.exp].version
    /\ \A a, b \in Claimed : a.exp = b.exp /\ a.version = b.version => a = b

\* An entry is claimed once, by one row or by one handler.
ClaimedOnce ==
    /\ \A a \in BagToSet(audit) : audit[a] = 1
    /\ \A r \in Request : req[r].pc = "audit" =>
          /\ req[r].entry \notin BagToSet(audit)
          /\ \A s \in Request :
                req[s].pc = "audit" /\ req[s].entry = req[r].entry => s = r

\* An entry for a change of the expense that no entry can be about yet.
NewEntry(entry) ==
    /\ entry.exp \in Expense
    /\ \A e \in Expense \ {entry.exp} : expense'[e] = expense[e]
    /\ expense'[entry.exp].status # "ABSENT"
    /\ entry.version <= expense'[entry.exp].version
    /\ \/ expense[entry.exp].status = "ABSENT"
       \/ /\ entry.version > expense[entry.exp].version
          /\ expense'[entry.exp].version > expense[entry.exp].version

\* The entry of a change: it has the version that the expense now has.
Records(entry) ==
    /\ entry.exp \in Expense
    /\ \A e \in Expense \ {entry.exp} : expense'[e] = expense[e]
    /\ expense'[entry.exp].status # "ABSENT"
    /\ \/ /\ expense[entry.exp].status = "ABSENT"
          /\ expense'[entry.exp].version = 0 /\ entry.version = None
       \/ /\ expense[entry.exp].status # "ABSENT"
          /\ expense'[entry.exp].version = expense[entry.exp].version + 1
          /\ entry.version = expense'[entry.exp].version

LEMMA RecordsNew ==
    ASSUME TypeOK, NEW entry, Records(entry)
    PROVE  NewEntry(entry) /\ entry.version \in Nat \cup {None}
<1>1. expense[entry.exp].version \in Nat
  BY DEF Records, TypeOK, ExpenseRow
<1> QED
  BY <1>1 DEF Records, NewEntry, None

\* A step of a request moves no other.
LEMMA OneMoved ==
    ASSUME TypeOK, NEW r \in Request, Arrive(r) \/ Continue(r) \/ Fail(r)
    PROVE  \A s \in Request \ {r} : req'[s] = req[s]
<1>1. PICK state : Resume(r, state)
  <2>1. CASE Arrive(r)
    BY <2>1 DEF Arrive, CreateExpense, StartReceipt, StartSubmit, StartDecide
  <2>2. CASE AttachReceipt(r) \/ SubmitExpense(r) \/ DecideExpense(r)
    BY <2>2 DEF AttachReceipt, SubmitExpense, DecideExpense
  <2>3. CASE EvaluatePolicies(r) \/ DecideApproval(r) \/ DecideFinance(r)
    BY <2>3 DEF EvaluatePolicies, DecideApproval, DecideFinance
  <2>4. CASE WriteAudit(r) \/ EnqueueMail(r) \/ LookupFinance(r)
    BY <2>4 DEF WriteAudit, EnqueueMail, LookupFinance
  <2>5. CASE ReportMissingRoute(r) \/ Fail(r)
    BY <2>5 DEF ReportMissingRoute, Fail
  <2> QED
    BY <2>1, <2>2, <2>3, <2>4, <2>5 DEF Continue
<1> QED
  BY <1>1 DEF Resume, TypeOK

\* A writer of tables, whose request is then done with the tables.
LEMMA WriterLeaves ==
    ASSUME TypeOK, NEW r \in Request, Writes(r)
    PROVE  /\ \A s \in Request \ {r} : req'[s] = req[s]
           /\ req'[r].pc \in {"idle", "audit"}
<1>1. CASE CreateExpense(r)
  <2>1. PICK e \in Expense :
          Resume(r, Committed(AuditEntry("expense.created", e, None), {}, FALSE))
    BY <1>1 DEF CreateExpense
  <2> QED
    BY <2>1 DEF Resume, TypeOK, Committed
<1>2. CASE AttachReceipt(r)
  BY <1>2 DEF AttachReceipt, Resume, TypeOK, Committed, Idle
<1>3. CASE SubmitExpense(r)
  BY <1>3 DEF SubmitExpense, Resume, TypeOK, Committed, Idle
<1>4. CASE DecideExpense(r)
  BY <1>4 DEF DecideExpense, Resume, TypeOK, Committed, Idle
<1> QED
  BY <1>1, <1>2, <1>3, <1>4 DEF Writes

\* The audit entry of a handler becomes a row.
Writing(r) == req[r].pc = "audit" /\ audit' = audit (+) SetToBag({req[r].entry})

\* A handler that does not commit claims nothing.
LEMMA NothingClaimed ==
    ASSUME TypeOK, NEW r \in Request, \A s \in Request \ {r} : req'[s] = req[s],
           req'[r].pc # "audit", UNCHANGED audit \/ Writing(r)
    PROVE  Claimed' \subseteq Claimed
<1>1. CASE UNCHANGED audit
  BY <1>1 DEF Claimed
<1>2. CASE Writing(r)
  <2>1. BagToSet(audit)' = BagToSet(audit) \cup {req[r].entry}
    BY <1>2, OneRowMore DEF TypeOK, Writing
  <2> QED
    BY <1>2, <2>1 DEF Claimed, Writing
<1> QED
  BY <1>1, <1>2

LEMMA OneClaimed ==
    ASSUME TypeOK, NEW r \in Request, NEW state, Resume(r, state),
           state.pc = "audit", UNCHANGED audit
    PROVE  /\ Claimed' \subseteq Claimed \cup {state.entry}
           /\ state.entry \in Claimed'
           /\ req'[r].entry = state.entry /\ req'[r].pc = "audit"
<1>1. req'[r] = state /\ \A s \in Request \ {r} : req'[s] = req[s]
  BY DEF Resume, TypeOK
<1> QED
  BY <1>1 DEF Claimed

LEMMA EntryTypes ==
    ASSUME TypeOK, NEW a \in Claimed
    PROVE  a.exp \in Expense /\ a.version \in Nat \cup {None}
<1>1. a \in Entry
  <2>1. CASE a \in BagToSet(audit)
    BY <2>1 DEF TypeOK
  <2>2. CASE a \notin BagToSet(audit)
    <3>1. PICK r \in Request : req[r].pc = "audit" /\ a = req[r].entry
      BY <2>2 DEF Claimed
    <3> QED
      BY <3>1, RequestFields
  <2> QED
    BY <2>1, <2>2
<1> QED
  BY <1>1 DEF Entry

LEMMA FreshClaim ==
    ASSUME TypeOK, TypeOK', AuditInv, NEW entry, NewEntry(entry),
           entry.version \in Nat \cup {None},
           Claimed' \subseteq Claimed \cup {entry}
    PROVE  AuditInv'
<1> DEFINE e == entry.exp
<1>1. /\ e \in Expense
      /\ \A d \in Expense : expense[d].version \in Nat /\ expense'[d].version \in Nat
  BY DEF NewEntry, TypeOK, ExpenseRow
<1>2. ASSUME NEW a \in Claimed
      PROVE  /\ a.exp \in Expense /\ a.version \in Nat \cup {None}
             /\ expense'[a.exp].status # "ABSENT" /\ a.version <= expense'[a.exp].version
             /\ a.exp = e => a.version < entry.version
  <2>1. /\ a.exp \in Expense /\ a.version \in Nat \cup {None}
        /\ expense[a.exp].status # "ABSENT" /\ a.version <= expense[a.exp].version
    BY EntryTypes DEF AuditInv
  <2>2. CASE a.exp # e
    BY <2>1, <2>2 DEF NewEntry
  <2>3. CASE a.exp = e
    <3>1. /\ entry.version > expense[e].version
          /\ expense'[e].version > expense[e].version /\ expense'[e].status # "ABSENT"
      BY <2>1, <2>3 DEF NewEntry
    <3> QED
      BY <1>1, <2>1, <2>3, <3>1 DEF None
  <2> QED
    BY <2>2, <2>3, <2>1
<1>3. \A a \in Claimed' :
        expense'[a.exp].status # "ABSENT" /\ a.version <= expense'[a.exp].version
  BY <1>2 DEF NewEntry
<1>4. ASSUME NEW a \in Claimed', NEW b \in Claimed', a.exp = b.exp, a.version = b.version
      PROVE  a = b
  <2>1. CASE a \in Claimed /\ b \in Claimed
    BY <1>4, <2>1 DEF AuditInv
  <2>2. CASE a = entry /\ b \in Claimed
    BY <1>2, <1>4, <2>2 DEF None
  <2>3. CASE a \in Claimed /\ b = entry
    BY <1>2, <1>4, <2>3 DEF None
  <2> QED
    BY <2>1, <2>2, <2>3
<1> QED
  BY <1>3, <1>4 DEF AuditInv

\* Every writer of an expense claims one new entry, if it writes at all.
LEMMA WritersClaim ==
    ASSUME TypeOK, NEW r \in Request, Writes(r)
    PROVE  \/ /\ UNCHANGED expense /\ Claimed' \subseteq Claimed
              /\ req'[r].pc # "audit"
           \/ \E entry : /\ Records(entry)
                         /\ Claimed' \subseteq Claimed \cup {entry}
                         /\ entry \in Claimed'
                         /\ req'[r].entry = entry /\ req'[r].pc = "audit"
<1> DEFINE q == req[r]
<1>1. CASE CreateExpense(r)
  <2>1. PICK e \in Expense, u \in User, c \in Claim :
          /\ expense[e].status = "ABSENT"
          /\ expense' = [expense EXCEPT ![e] =
                [AbsentExpense EXCEPT !.status = "DRAFT", !.owner = u, !.claim = c]]
          /\ Resume(r, Committed(AuditEntry("expense.created", e, None), {}, FALSE))
    BY <1>1 DEF CreateExpense
  <2> DEFINE entry == AuditEntry("expense.created", e, None)
             done == Committed(entry, {}, FALSE)
  <2>2. entry.exp = e /\ entry.version = None /\ done.entry = entry /\ done.pc = "audit"
    BY DEF AuditEntry, Committed
  <2>3. expense'[e].status = "DRAFT" /\ expense'[e].version = 0
    BY <2>1 DEF TypeOK, AbsentExpense
  <2>4. Resume(r, done) /\ UNCHANGED audit
    BY <1>1, <2>1 DEF CreateExpense, logs
  <2> HIDE DEF entry, done
  <2>5. Records(entry)
    BY <2>1, <2>2, <2>3 DEF Records, TypeOK
  <2> QED
    BY <2>2, <2>4, <2>5, OneClaimed
<1>2. CASE AttachReceipt(r)
  <2>1. q.exp \in Expense /\ q.receipt \in ReceiptKey
    BY <1>2, RequestFields DEF AttachReceipt
  <2> DEFINE row == expense[q.exp]
             entry == AuditEntry("expense.receipt_attached", q.exp, q.expected + 1)
             done == Committed(entry, {}, FALSE)
  <2>2. row \in ExpenseRow /\ row.version \in Nat
    BY <2>1 DEF TypeOK, ExpenseRow
  <2>3. \/ /\ StillAs(row, "DRAFT", q.expected) /\ Resume(r, done) /\ UNCHANGED audit
           /\ expense' = [expense EXCEPT ![q.exp] = WithReceipt(row, q.receipt)]
        \/ Resume(r, Idle) /\ UNCHANGED <<expense, audit>>
    BY <1>2 DEF AttachReceipt, logs
  <2>4. entry.exp = q.exp /\ entry.version = q.expected + 1 /\ done.entry = entry /\ done.pc = "audit"
    BY DEF AuditEntry, Committed
  <2> HIDE DEF entry, done
  <2>5. CASE /\ StillAs(row, "DRAFT", q.expected) /\ Resume(r, done) /\ UNCHANGED audit
             /\ expense' = [expense EXCEPT ![q.exp] = WithReceipt(row, q.receipt)]
    <3>1. /\ WithReceipt(row, q.receipt).version = row.version + 1
          /\ WithReceipt(row, q.receipt).status = row.status
      BY <2>1, <2>2, ReceiptExpense
    <3>2. Records(entry)
      BY <2>1, <2>2, <2>4, <2>5, <3>1 DEF Records, StillAs, TypeOK, Awaiting
    <3> QED
      BY <2>4, <2>5, <3>2, OneClaimed
  <2>6. CASE Resume(r, Idle) /\ UNCHANGED <<expense, audit>>
    <3>1. req'[r].pc # "audit" /\ \A s \in Request \ {r} : req'[s] = req[s]
      BY <2>6 DEF Idle, Resume, TypeOK
    <3> QED
      BY <2>6, <3>1, NothingClaimed
  <2> QED
    BY <2>3, <2>5, <2>6
<1>3. CASE SubmitExpense(r)
  <2> DEFINE row == expense[q.exp]
             status == SubmissionStatus(q.ev)
             entry == AuditEntry("expense.submitted", q.exp, q.expected + 1)
             done == Committed(entry, SubmissionMails(q.exp, status, q.found), FALSE)
  <2>1. q.exp \in Expense /\ status \in Status /\ status # "ABSENT"
    BY <1>3, RequestFields DEF SubmitExpense, SubmissionStatus, Status, Pending, Verdict
  <2>2. row \in ExpenseRow /\ row.version \in Nat
    BY <2>1 DEF TypeOK, ExpenseRow
  <2>3. \/ /\ StillAs(row, "DRAFT", q.expected) /\ Resume(r, done) /\ UNCHANGED audit
           /\ expense' = [expense EXCEPT ![q.exp] = MovedTo(row, status)]
        \/ Resume(r, Idle) /\ UNCHANGED <<expense, audit>>
    BY <1>3 DEF SubmitExpense, tables, logs
  <2>4. entry.exp = q.exp /\ entry.version = q.expected + 1 /\ done.entry = entry /\ done.pc = "audit"
    BY DEF AuditEntry, Committed
  <2> HIDE DEF entry, done, status
  <2>5. CASE /\ StillAs(row, "DRAFT", q.expected) /\ Resume(r, done) /\ UNCHANGED audit
             /\ expense' = [expense EXCEPT ![q.exp] = MovedTo(row, status)]
    <3>1. /\ MovedTo(row, status).version = row.version + 1
          /\ MovedTo(row, status).status = status
      BY <2>1, <2>2, MovedExpense
    <3>2. Records(entry)
      BY <2>1, <2>2, <2>4, <2>5, <3>1 DEF Records, StillAs, TypeOK, Awaiting
    <3> QED
      BY <2>4, <2>5, <3>2, OneClaimed
  <2>6. CASE Resume(r, Idle) /\ UNCHANGED <<expense, audit>>
    <3>1. req'[r].pc # "audit" /\ \A s \in Request \ {r} : req'[s] = req[s]
      BY <2>6 DEF Idle, Resume, TypeOK
    <3> QED
      BY <2>6, <3>1, NothingClaimed
  <2> QED
    BY <2>3, <2>5, <2>6
<1>4. CASE DecideExpense(r)
  <2> DEFINE row == expense[q.exp]
             status == Outcome(q)
             entry == DecisionEntry(q)
             news == [type |-> "expense.decision", exp |-> q.exp,
                      to |-> row.owner, status |-> status]
             done == Committed(entry, {news}, status = "PENDING_FINANCE")
  <2>1. q.exp \in Expense /\ status \in Status /\ status # "ABSENT"
    BY <1>4, RequestFields DEF DecideExpense, Deciding, Outcome, Status, Pending, Verdict
  <2>2. row \in ExpenseRow /\ row.version \in Nat
    BY <2>1 DEF TypeOK, ExpenseRow
  <2>3. \/ /\ StillAs(row, Awaiting(q.level), q.seenExpense)
           /\ Resume(r, done) /\ UNCHANGED audit
           /\ expense' = [expense EXCEPT ![q.exp] = MovedTo(row, status)]
        \/ Resume(r, Idle) /\ UNCHANGED <<expense, audit>>
    BY <1>4 DEF DecideExpense, logs
  <2>4. entry.exp = q.exp /\ entry.version = q.seenExpense + 1 /\ done.entry = entry /\ done.pc = "audit"
    BY DEF DecisionEntry, Committed
  <2> HIDE DEF entry, done, news, status
  <2>5. CASE /\ StillAs(row, Awaiting(q.level), q.seenExpense)
             /\ Resume(r, done) /\ UNCHANGED audit
             /\ expense' = [expense EXCEPT ![q.exp] = MovedTo(row, status)]
    <3>1. /\ MovedTo(row, status).version = row.version + 1
          /\ MovedTo(row, status).status = status
      BY <2>1, <2>2, MovedExpense
    <3>2. Records(entry)
      BY <2>1, <2>2, <2>4, <2>5, <3>1 DEF Records, StillAs, TypeOK, Awaiting
    <3> QED
      BY <2>4, <2>5, <3>2, OneClaimed
  <2>6. CASE Resume(r, Idle) /\ UNCHANGED <<expense, audit>>
    <3>1. req'[r].pc # "audit" /\ \A s \in Request \ {r} : req'[s] = req[s]
      BY <2>6 DEF Idle, Resume, TypeOK
    <3> QED
      BY <2>6, <3>1, NothingClaimed
  <2> QED
    BY <2>3, <2>5, <2>6
<1> QED
  BY <1>1, <1>2, <1>3, <1>4 DEF Writes

\* Every other handler leaves the tables and commits nothing.
LEMMA OthersCommitNothing ==
    ASSUME TypeOK, NEW r \in Request, Arrive(r) \/ Continue(r) \/ Fail(r), ~Writes(r)
    PROVE  /\ UNCHANGED tables
           /\ req'[r].pc # "audit" /\ \A s \in Request \ {r} : req'[s] = req[s]
           /\ UNCHANGED audit \/ Writing(r)
<1> SUFFICES ASSUME NEW state, Resume(r, state), state.pc # "audit", UNCHANGED tables,
                    UNCHANGED audit \/ Writing(r)
             PROVE  /\ UNCHANGED tables
                    /\ req'[r].pc # "audit" /\ \A s \in Request \ {r} : req'[s] = req[s]
                    /\ UNCHANGED audit \/ Writing(r)
  <2>1. CASE StartReceipt(r)
    BY <2>1 DEF StartReceipt, logs
  <2>2. CASE StartSubmit(r)
    BY <2>2 DEF StartSubmit, logs
  <2>3. CASE StartDecide(r)
    BY <2>3 DEF StartDecide, logs
  <2>4. CASE EvaluatePolicies(r)
    BY <2>4 DEF EvaluatePolicies, logs, Idle
  <2>5. CASE DecideApproval(r) \/ DecideFinance(r)
    <3>1. req[r] \in [pc : Deciding, exp : Expense, level : Level, verdict : Verdict,
                      seenApproval : Nat, seenFinance : Nat \cup {None},
                      seenExpense : Nat]
      BY <2>5, RequestFields DEF DecideApproval, DecideFinance, Deciding
    <3>2. \A pc \in Deciding : [req[r] EXCEPT !.pc = pc].pc # "audit"
      BY <3>1 DEF Deciding
    <3>3. Idle.pc # "audit"
      BY DEF Idle
    <3>4. PICK next : Resume(r, next) /\ next.pc # "audit"
      BY <2>5, <3>2, <3>3 DEF DecideApproval, DecideFinance, Deciding
    <3> QED
      BY <2>5, <3>4 DEF DecideApproval, DecideFinance, logs
  <2>6. CASE WriteAudit(r)
    <3> DEFINE next == IF req[r].mails = {} THEN Idle
                       ELSE [pc |-> "enqueue", exp |-> req[r].exp,
                             mails |-> req[r].mails, handOver |-> req[r].handOver]
    <3>1. next.pc # "audit"
      BY DEF Idle
    <3>2. /\ Resume(r, next) /\ UNCHANGED tables
          /\ Writing(r)
      BY <2>6 DEF WriteAudit, Writing
    <3> QED
      BY <3>1, <3>2
  <2>7. CASE EnqueueMail(r)
    <3> DEFINE next == IF req[r].handOver THEN [pc |-> "lookup", exp |-> req[r].exp]
                       ELSE Idle
    <3>1. next.pc # "audit"
      BY DEF Idle
    <3>2. Resume(r, next) /\ UNCHANGED tables /\ UNCHANGED audit
      BY <2>7 DEF EnqueueMail
    <3> QED
      BY <3>1, <3>2
  <2>8. CASE LookupFinance(r)
    BY <2>8 DEF LookupFinance, logs
  <2>9. CASE ReportMissingRoute(r) \/ Fail(r)
    BY <2>9 DEF ReportMissingRoute, Fail, logs, Idle
  <2> QED
    BY <2>1, <2>2, <2>3, <2>4, <2>5, <2>6, <2>7, <2>8, <2>9
       DEF Arrive, Continue, Writes
<1> QED
  BY DEF Resume, TypeOK

\* So the expenses stay, and no entry appears from nowhere.
LEMMA OthersClaimNothing ==
    ASSUME TypeOK, [Next]_vars, \A r \in Request : ~Writes(r)
    PROVE  UNCHANGED expense /\ Claimed' \subseteq Claimed
<1>1. CASE UNCHANGED vars \/ ChangePolicies
  BY <1>1 DEF vars, ChangePolicies, tables, logs, Claimed
<1>2. ASSUME NEW r \in Request, Arrive(r) \/ Continue(r) \/ Fail(r)
      PROVE  UNCHANGED expense /\ Claimed' \subseteq Claimed
  BY <1>2, OthersCommitNothing, NothingClaimed DEF tables
<1> QED
  BY <1>1, <1>2 DEF Next

LEMMA AuditStep == TypeOK /\ AuditInv /\ [Next]_vars => AuditInv'
<1> SUFFICES ASSUME TypeOK, TypeOK', AuditInv, [Next]_vars PROVE AuditInv'
  BY TypeStep
<1>1. CASE UNCHANGED expense /\ Claimed' \subseteq Claimed
  BY <1>1 DEF AuditInv
<1>2. CASE \E entry : Records(entry) /\ Claimed' \subseteq Claimed \cup {entry}
  BY <1>2, RecordsNew, FreshClaim
<1> QED
  BY <1>1, <1>2, WritersClaim, OthersClaimNothing

\* What a commit claims, nobody has claimed before.
LEMMA FreshEntry ==
    ASSUME TypeOK, AuditInv, NEW entry, Records(entry)
    PROVE  entry \notin Claimed
<1> SUFFICES ASSUME entry \in Claimed PROVE FALSE
  OBVIOUS
<1>1. /\ expense[entry.exp].status # "ABSENT"
      /\ entry.version <= expense[entry.exp].version
  BY DEF AuditInv
<1>2. /\ expense[entry.exp].version \in Nat
      /\ entry.version = expense[entry.exp].version + 1
  BY <1>1 DEF Records, TypeOK, ExpenseRow
<1> QED
  BY <1>1, <1>2

LEMMA OnceStep == TypeOK /\ AuditInv /\ ClaimedOnce /\ [Next]_vars => ClaimedOnce'
<1> SUFFICES ASSUME TypeOK, AuditInv, ClaimedOnce, [Next]_vars PROVE ClaimedOnce'
  OBVIOUS
<1>1. CASE UNCHANGED vars \/ ChangePolicies
  BY <1>1 DEF vars, ChangePolicies, logs, ClaimedOnce
\* A request that claims nothing, or what nobody else has.
<1>2. ASSUME NEW r \in Request, UNCHANGED audit,
             \A s \in Request \ {r} : req'[s] = req[s],
             req'[r].pc = "audit" => req'[r].entry \notin Claimed
      PROVE  ClaimedOnce'
  <2>1. ASSUME NEW s \in Request, req'[s].pc = "audit"
        PROVE  /\ req'[s].entry \notin BagToSet(audit)
               /\ s # r => req'[s].entry \in Claimed /\ req[s].pc = "audit"
    BY <1>2, <2>1 DEF ClaimedOnce, Claimed
  <2>2. ASSUME NEW s \in Request, NEW t \in Request, req'[s].pc = "audit",
               req'[t].pc = "audit", req'[s].entry = req'[t].entry
        PROVE  s = t
    <3>1. CASE s # r /\ t # r
      BY <1>2, <2>1, <2>2, <3>1 DEF ClaimedOnce
    <3>2. CASE s = r \/ t = r
      BY <1>2, <2>1, <2>2, <3>2
    <3> QED
      BY <3>1, <3>2
  <2> QED
    BY <1>2, <2>1, <2>2 DEF ClaimedOnce
<1>3. ASSUME NEW r \in Request, Writes(r) PROVE ClaimedOnce'
  <2>1. UNCHANGED audit
    BY <1>3 DEF Writes, CreateExpense, AttachReceipt, SubmitExpense, DecideExpense, logs
  <2>2. \A s \in Request \ {r} : req'[s] = req[s]
    BY <1>3, WriterLeaves
  <2>3. req'[r].pc = "audit" => req'[r].entry \notin Claimed
    BY <1>3, WritersClaim, FreshEntry
  <2> QED
    BY <1>2, <2>1, <2>2, <2>3
<1>4. ASSUME NEW r \in Request, Arrive(r) \/ Continue(r) \/ Fail(r), ~Writes(r)
      PROVE  ClaimedOnce'
  <2>1. req'[r].pc # "audit" /\ \A s \in Request \ {r} : req'[s] = req[s]
    BY <1>4, OthersCommitNothing
  <2>2. CASE UNCHANGED audit
    BY <1>2, <2>1, <2>2
  <2>3. CASE Writing(r)
    <3>1. /\ BagToSet(audit)' = BagToSet(audit) \cup {req[r].entry}
          /\ \A a \in BagToSet(audit) \ {req[r].entry} : audit'[a] = audit[a]
          /\ req[r].entry \notin BagToSet(audit) => audit'[req[r].entry] = 1
      BY <2>3, OneRowMore DEF TypeOK, Writing
    <3>2. req[r].pc = "audit" /\ req[r].entry \notin BagToSet(audit)
      BY <2>3 DEF Writing, ClaimedOnce
    <3>3. \A a \in BagToSet(audit)' : audit'[a] = 1
      BY <3>1, <3>2 DEF ClaimedOnce
    <3>4. ASSUME NEW s \in Request, req'[s].pc = "audit"
          PROVE  /\ req'[s].entry \notin BagToSet(audit)'
                 /\ \A t \in Request :
                       req'[t].pc = "audit" /\ req'[t].entry = req'[s].entry => t = s
      <4>1. s # r /\ req'[s] = req[s]
        BY <2>1, <3>4
      <4>2. req[s].entry \notin BagToSet(audit) /\ req[s].entry # req[r].entry
        BY <3>2, <3>4, <4>1 DEF ClaimedOnce
      <4>3. ASSUME NEW t \in Request, req'[t].pc = "audit", req'[t].entry = req'[s].entry
            PROVE  t = s
        BY <2>1, <3>4, <4>1, <4>3 DEF ClaimedOnce
      <4> QED
        BY <3>1, <4>1, <4>2, <4>3
    <3> QED
      BY <3>3, <3>4 DEF ClaimedOnce
  <2> QED
    BY <1>4, <2>2, <2>3, OthersCommitNothing
<1> QED
  BY <1>1, <1>3, <1>4 DEF Next

\* Whatever overtakes what between a commit and its row, the versions in the
\* log tell the changes of an expense apart and put them in order: no change
\* has two rows, of one kind or of two.
THEOREM AuditIsOrdered == Spec => []AuditVersionsUnique
<1>1. Init => AuditInv /\ ClaimedOnce
  BY DEF Init, InitWorkflow, Idle, AuditInv, Claimed, ClaimedOnce, BagToSet, EmptyBag,
         SetToBag
<1>2. AuditInv /\ ClaimedOnce => AuditVersionsUnique
  BY DEF AuditInv, Claimed, ClaimedOnce, AuditVersionsUnique
<1> QED
  BY <1>1, <1>2, TypeInit, TypeStep, AuditStep, OnceStep, PTL DEF Spec

----------------------------------------------------------------------------
(* Approvers and mails.  What a submission finds and what a mail says stay  *)
(* true although the rows they were read from go on changing.              *)

\* What a writer of expenses does to one of them: the owner is set when the
\* expense is created, to somebody who may create expenses, and kept.
LEMMA OwnerWritten ==
    ASSUME TypeOK, NEW r \in Request, Writes(r), NEW e \in Expense
    PROVE  \/ /\ expense'[e].owner = expense[e].owner
              /\ expense'[e].status = "ABSENT" <=> expense[e].status = "ABSENT"
           \/ /\ expense[e].status = "ABSENT"
              /\ expense'[e].owner \in User /\ MayDo(expense'[e].owner, "expense:create")
<1> DEFINE q == req[r]
<1>1. expense[e].status # "ABSENT" => expense'[e].status # "ABSENT"
  BY OneExpenseWritten
<1>2. CASE CreateExpense(r)
  <2>1. PICK d \in Expense, u \in User, c \in Claim :
          /\ MayDo(u, "expense:create")
          /\ expense[d].status = "ABSENT"
          /\ expense' = [expense EXCEPT ![d] =
                [AbsentExpense EXCEPT !.status = "DRAFT", !.owner = u, !.claim = c]]
    BY <1>2 DEF CreateExpense
  <2>2. CASE d = e
    <3>1. expense'[e].owner = u
      BY <2>1, <2>2 DEF TypeOK, AbsentExpense
    <3> QED
      BY <2>1, <2>2, <3>1
  <2>3. CASE d # e
    BY <2>1, <2>3 DEF TypeOK
  <2> QED
    BY <2>2, <2>3
<1>3. CASE AttachReceipt(r)
  <2>1. q.exp \in Expense /\ q.receipt \in ReceiptKey
    BY <1>3, RequestFields DEF AttachReceipt
  <2>2. \/ UNCHANGED expense
        \/ /\ StillAs(expense[q.exp], "DRAFT", q.expected)
           /\ expense' = [expense EXCEPT ![q.exp] = WithReceipt(expense[q.exp], q.receipt)]
    BY <1>3 DEF AttachReceipt
  <2> QED
    BY <1>1, <2>1, <2>2, ReceiptExpense DEF TypeOK, StillAs
<1>4. CASE SubmitExpense(r)
  <2>1. q.exp \in Expense /\ SubmissionStatus(q.ev) \in Status
    BY <1>4, RequestFields, SubmissionStatusType DEF SubmitExpense
  <2>2. \/ UNCHANGED expense
        \/ /\ StillAs(expense[q.exp], "DRAFT", q.expected)
           /\ expense' = [expense EXCEPT ![q.exp] =
                            MovedTo(expense[q.exp], SubmissionStatus(q.ev))]
    BY <1>4 DEF SubmitExpense, tables
  <2> QED
    BY <1>1, <2>1, <2>2, MovedExpense DEF TypeOK, StillAs
<1>5. CASE DecideExpense(r)
  <2>1. q.exp \in Expense /\ q.level \in Level /\ Outcome(q) \in Status
    BY <1>5, RequestFields DEF DecideExpense, Deciding, Outcome, Status, Pending
  <2>2. \/ UNCHANGED expense
        \/ /\ StillAs(expense[q.exp], Awaiting(q.level), q.seenExpense)
           /\ expense' = [expense EXCEPT ![q.exp] = MovedTo(expense[q.exp], Outcome(q))]
    BY <1>5 DEF DecideExpense
  <2> QED
    BY <1>1, <2>1, <2>2, MovedExpense, AwaitingType DEF TypeOK, StillAs, Pending
<1> QED
  BY <1>2, <1>3, <1>4, <1>5 DEF Writes

Asked(ev, level) == IF level = "MANAGER" THEN ev.requireManager ELSE ev.requireFinance

\* What a writer of approvals does to one of them: a submission creates it for
\* the approver it has found; a decision takes it from waiting to a verdict,
\* or opens it, and keeps its approver.
LEMMA ApprovalWritten ==
    ASSUME RouteInv, NEW r \in Request, Writes(r), NEW e \in Expense, NEW level \in Level,
           approval'[e][level] # approval[e][level]
    PROVE  \/ /\ SubmitExpense(r) /\ req[r].exp = e
              /\ expense[e].status = "DRAFT" /\ approval[e][level].status = "NONE"
              /\ approval'[e][level].status # "NONE" =>
                   /\ Asked(req[r].ev, level)
                   /\ approval'[e][level].approver = req[r].found[level]
           \/ /\ DecideExpense(r) /\ req[r].exp = e
              /\ approval'[e][level].approver = approval[e][level].approver
              /\ \/ /\ approval[e][level].status = "PENDING"
                    /\ approval'[e][level].status \in Verdict
                 \/ /\ level = "FINANCE" /\ approval[e][level].status = "SKIPPED"
                    /\ approval'[e][level].status = "PENDING"
<1> DEFINE q == req[r]
<1> TypeOK
  BY DEF RouteInv
<1>1. CASE CreateExpense(r) \/ AttachReceipt(r)
  BY <1>1 DEF CreateExpense, AttachReceipt
<1>2. CASE SubmitExpense(r)
  <2>1. q.exp \in Expense /\ q.ev \in Evaluation
    BY <1>2, RequestFields DEF SubmitExpense
  <2>2. /\ StillAs(expense[q.exp], "DRAFT", q.expected)
        /\ approval' = [approval EXCEPT ![q.exp] = NewApprovals(q.ev, q.found)]
    BY <1>2 DEF SubmitExpense, tables
  <2>3. q.exp = e /\ approval'[e] = NewApprovals(q.ev, q.found)
    BY <2>1, <2>2 DEF TypeOK
  <2>4. expense[e].status = "DRAFT" /\ approval[e][level].status = "NONE"
    BY <2>2, <2>3 DEF StillAs, RouteInv, RouteConsistent, Level
  <2>5. approval'[e][level].status # "NONE" =>
          Asked(q.ev, level) /\ approval'[e][level].approver = q.found[level]
    BY <2>3 DEF NewApprovals, AbsentApproval, Asked
  <2> QED
    BY <1>2, <2>3, <2>4, <2>5
<1>3. CASE DecideExpense(r)
  <2>1. q \in [pc : Deciding, exp : Expense, level : Level, verdict : Verdict,
               seenApproval : Nat, seenFinance : Nat \cup {None}, seenExpense : Nat]
    BY <1>3, RequestFields DEF DecideExpense, Deciding
  <2>2. approval' = [approval EXCEPT ![q.exp] = Decided(approval[q.exp], q)]
    BY <1>3 DEF DecideExpense
  <2>3. q.exp = e /\ approval'[e] = Decided(approval[e], q)
    BY <2>1, <2>2 DEF TypeOK
  <2>4. RowFresh(q) /\ SnapshotFresh(q)
    BY <1>3 DEF RouteInv, DecisionsSound, DecisionSound, Deciding, DecideExpense
  <2>5. approval[e][level] \in ApprovalRow
    BY DEF TypeOK
  <2>6. CASE level = q.level
    <3>1. approval'[e][level] = MovedTo(approval[e][level], q.verdict)
      BY <2>3, <2>6 DEF Decided
    <3>2. q.verdict \in ApprovalStatus
      BY <2>1 DEF ApprovalStatus
    <3>3. /\ approval'[e][level].status = q.verdict
          /\ approval'[e][level].approver = approval[e][level].approver
      BY <2>5, <3>1, <3>2, MovedApproval
    <3>4. approval[e][level].status = "PENDING"
      BY <2>3, <2>4, <2>6 DEF RowFresh, StillAs
    <3> QED
      BY <1>3, <2>1, <2>3, <3>3, <3>4
  <2>7. CASE level # q.level
    <3>1. /\ OpensFinance(q)
          /\ approval'[e][level] = MovedTo(approval[e][level], "PENDING")
      BY <2>3, <2>7 DEF Decided
    <3>2. /\ approval'[e][level].status = "PENDING"
          /\ approval'[e][level].approver = approval[e][level].approver
      BY <2>5, <3>1, MovedApproval DEF ApprovalStatus
    <3>3. level = "FINANCE" /\ approval[e][level].status = "SKIPPED"
      BY <2>3, <2>4, <2>7, <3>1 DEF OpensFinance, SnapshotFresh, StillAs, Level
    <3> QED
      BY <1>3, <2>3, <3>2, <3>3
  <2> QED
    BY <2>6, <2>7
<1> QED
  BY <1>1, <1>2, <1>3 DEF Writes

\* The roles behind two permissions.
LEMMA WhoMay ==
    ASSUME NEW role \in Role
    PROVE  /\ "expense:create" \in RolePermissions[role] => role = "EMPLOYEE"
           /\ role # "EMPLOYEE" => "approval:review" \in RolePermissions[role]
<1>1. CASE role = "EMPLOYEE"
  BY <1>1
<1>2. CASE role = "MANAGER"
  BY <1>2 DEF RolePermissions, Role
<1>3. CASE role \in {"FINANCE", "ADMIN"}
  BY <1>3 DEF RolePermissions, Role
<1> QED
  BY <1>1, <1>2, <1>3 DEF Role

Eligible(u, owner) ==
    /\ u \in User \ {owner}
    /\ OrgOf[u] = OrgOf[owner]
    /\ MayDo(u, "approval:review")

\* The lookups choose colleagues who may review, and who own no expenses.
LEMMA LookupsFindEligible ==
    ASSUME NEW owner \in User, MayDo(owner, "expense:create"), NEW u,
           u \in ManagerApprovers(owner) \cup FinanceApprovers(OrgOf[owner])
    PROVE  Eligible(u, owner)
<1>1. u \in Members(OrgOf[owner], {"MANAGER", "ADMIN", "FINANCE"})
  BY LookupsFind DEF Members
<1>2. /\ u \in User /\ OrgOf[u] = OrgOf[owner] /\ RoleOf[u] # "EMPLOYEE"
      /\ RoleOf[u] \in Role /\ RoleOf[owner] \in Role
  BY <1>1, DirectoryAssumption DEF Members
<1>3. RoleOf[owner] = "EMPLOYEE"
  BY <1>2, WhoMay DEF MayDo
<1> QED
  BY <1>2, <1>3, WhoMay DEF Eligible, MayDo

\* What a submission knows: its expense exists, and those it has found for the
\* levels it needs are eligible.
SubmissionSound(q) ==
    q.pc \in {"evaluate", "submit"} =>
      /\ q.exp \in Expense /\ expense[q.exp].status # "ABSENT"
      /\ q.pc = "submit" =>
           \A level \in Level :
             Asked(q.ev, level) => Eligible(q.found[level], expense[q.exp].owner)

OwnersMayCreate ==
    \A e \in Expense :
        expense[e].status # "ABSENT" =>
            expense[e].owner \in User /\ MayDo(expense[e].owner, "expense:create")

EligibleInv ==
    /\ OwnersMayCreate
    /\ \A r \in Request : SubmissionSound(req[r])
    /\ ApproversEligible

\* The others leave the tables alone.
LEMMA QuietSteps ==
    ASSUME NEW r \in Request, Arrive(r) \/ Continue(r) \/ Fail(r), ~Writes(r)
    PROVE  UNCHANGED tables
BY DEF Arrive, Continue, Fail, Writes, StartReceipt, StartSubmit, StartDecide,
       EvaluatePolicies, DecideApproval, DecideFinance, WriteAudit, EnqueueMail,
       LookupFinance, ReportMissingRoute

LEMMA WriterKeepsEligible ==
    ASSUME RouteInv, EligibleInv, NEW r \in Request, Writes(r)
    PROVE  EligibleInv'
<1> TypeOK
  BY DEF RouteInv
<1>1. OwnersMayCreate'
  BY OwnerWritten DEF EligibleInv, OwnersMayCreate
<1>2. ASSUME NEW s \in Request PROVE SubmissionSound(req[s])'
  <2>1. CASE s = r
    BY <2>1, WriterLeaves DEF SubmissionSound
  <2>2. CASE s # r
    <3>1. req'[s] = req[s]
      BY <2>2, WriterLeaves
    <3>2. SubmissionSound(req[s])
      BY DEF EligibleInv
    <3>3. ASSUME req[s].pc \in {"evaluate", "submit"}
          PROVE  /\ expense'[req[s].exp].status # "ABSENT"
                 /\ expense'[req[s].exp].owner = expense[req[s].exp].owner
      BY <3>2, <3>3, OwnerWritten DEF SubmissionSound
    <3> QED
      BY <3>1, <3>2, <3>3 DEF SubmissionSound, Eligible
  <2> QED
    BY <2>1, <2>2
<1>3. ASSUME NEW e \in Expense, NEW level \in Level,
             approval'[e][level].status # "NONE"
      PROVE  Eligible(approval'[e][level].approver, expense'[e].owner)
  <2>1. CASE expense[e].status = "ABSENT"
    <3>1. approval[e][level].status = "NONE"
      BY <2>1 DEF RouteInv, RouteConsistent, Level
    <3> QED
      BY <1>3, <2>1, <3>1, ApprovalWritten
  <2>2. CASE expense[e].status # "ABSENT"
    <3>1. expense'[e].owner = expense[e].owner
      BY <2>2, OwnerWritten
    <3>2. CASE /\ approval[e][level].status # "NONE"
               /\ approval'[e][level].approver = approval[e][level].approver
      BY <3>1, <3>2 DEF EligibleInv, ApproversEligible, Eligible
    <3>3. CASE /\ SubmitExpense(r) /\ req[r].exp = e /\ Asked(req[r].ev, level)
               /\ approval'[e][level].approver = req[r].found[level]
      BY <3>1, <3>3 DEF EligibleInv, SubmissionSound, SubmitExpense
    <3> QED
      BY <1>3, <3>2, <3>3, ApprovalWritten
  <2> QED
    BY <2>1, <2>2
<1> QED
  BY <1>1, <1>2, <1>3 DEF EligibleInv, ApproversEligible, Eligible

\* A step that writes no table, and what its request knows is true.
LEMMA OtherKeepsEligible ==
    ASSUME EligibleInv, UNCHANGED tables,
           \A r \in Request : SubmissionSound(req[r]) => SubmissionSound(req'[r])
    PROVE  EligibleInv'
BY DEF EligibleInv, OwnersMayCreate, ApproversEligible, SubmissionSound, Eligible, tables

\* A lookup finds eligible users.
LEMMA EvaluationSound ==
    ASSUME TypeOK, EligibleInv, NEW r \in Request, EvaluatePolicies(r)
    PROVE  SubmissionSound(req'[r])
<1> DEFINE q == req[r]
           row == expense[q.exp]
           ev == Evaluate(policies, OrgOf[row.owner], row.claim)
<1>1. /\ q.exp \in Expense /\ row.status # "ABSENT"
      /\ row.owner \in User /\ MayDo(row.owner, "expense:create")
  BY DEF EvaluatePolicies, EligibleInv, SubmissionSound, OwnersMayCreate
<1>2. CASE Resume(r, Idle)
  BY <1>2 DEF Resume, Idle, TypeOK, SubmissionSound
<1>3. ASSUME NEW found \in Approvers(row.owner, ev),
             Resume(r, [pc |-> "submit", exp |-> q.exp, expected |-> q.expected,
                        ev |-> ev, found |-> found])
      PROVE  SubmissionSound(req'[r])
  <2>1. ASSUME NEW level \in Level, Asked(ev, level)
        PROVE  Eligible(found[level], row.owner)
    BY <1>1, <2>1, ApproversFound, LookupsFindEligible DEF Asked, Level
  <2> HIDE DEF ev
  <2>2. req'[r] = [pc |-> "submit", exp |-> q.exp, expected |-> q.expected,
                   ev |-> ev, found |-> found]
    BY <1>3 DEF Resume, TypeOK
  <2> QED
    BY <1>1, <2>1, <2>2 DEF SubmissionSound
<1> QED
  BY <1>2, <1>3 DEF EvaluatePolicies

\* A request that reads or writes no tables about a submission knows nothing of it.
LEMMA OthersKnowNothing ==
    ASSUME TypeOK, NEW r \in Request, Arrive(r) \/ Continue(r) \/ Fail(r),
           ~Writes(r), ~StartSubmit(r), ~EvaluatePolicies(r)
    PROVE  req'[r].pc \notin {"evaluate", "submit"}
<1> SUFFICES ASSUME NEW state, Resume(r, state), state.pc \notin {"evaluate", "submit"}
             PROVE  req'[r].pc \notin {"evaluate", "submit"}
  <2>1. Idle.pc = "idle"
    BY DEF Idle
  <2>2. CASE StartReceipt(r)
    BY <2>2 DEF StartReceipt
  <2>3. CASE StartDecide(r)
    BY <2>3 DEF StartDecide
  <2>4. CASE DecideApproval(r) \/ DecideFinance(r)
    <3>1. req[r] \in [pc : Deciding, exp : Expense, level : Level, verdict : Verdict,
                      seenApproval : Nat, seenFinance : Nat \cup {None},
                      seenExpense : Nat]
      BY <2>4, RequestFields DEF DecideApproval, DecideFinance, Deciding
    <3>2. \A pc \in Deciding : [req[r] EXCEPT !.pc = pc].pc \notin {"evaluate", "submit"}
      BY <3>1 DEF Deciding
    <3>3. PICK next : Resume(r, next) /\ next.pc \notin {"evaluate", "submit"}
      BY <2>4, <2>1, <3>2 DEF DecideApproval, DecideFinance, Deciding
    <3> QED
      BY <3>3
  <2>5. CASE WriteAudit(r)
    BY <2>1, <2>5 DEF WriteAudit
  <2>6. CASE EnqueueMail(r)
    BY <2>1, <2>6 DEF EnqueueMail
  <2>7. CASE LookupFinance(r)
    BY <2>7 DEF LookupFinance
  <2>8. CASE ReportMissingRoute(r) \/ Fail(r)
    BY <2>1, <2>8 DEF ReportMissingRoute, Fail
  <2> QED
    BY <2>2, <2>3, <2>4, <2>5, <2>6, <2>7, <2>8 DEF Arrive, Continue, Writes
<1> QED
  BY DEF Resume, TypeOK

LEMMA EligibleStep == RouteInv /\ EligibleInv /\ [Next]_vars => EligibleInv'
<1> SUFFICES ASSUME RouteInv, EligibleInv, [Next]_vars PROVE EligibleInv'
  OBVIOUS
<1> TypeOK
  BY DEF RouteInv
<1>1. CASE ChangePolicies \/ UNCHANGED vars
  <2>1. UNCHANGED <<tables, req>>
    BY <1>1 DEF ChangePolicies, vars
  <2> QED
    BY <2>1, OtherKeepsEligible
<1>2. ASSUME NEW r \in Request, Arrive(r) \/ Continue(r) \/ Fail(r), ~Writes(r)
      PROVE  EligibleInv'
  <2>1. UNCHANGED tables
    BY <1>2, QuietSteps
  <2>2. \A s \in Request \ {r} : req'[s] = req[s]
    BY <1>2, OneMoved
  <2>3. SubmissionSound(req'[r])
    <3>1. CASE StartSubmit(r)
      <4>1. PICK e \in Expense :
              /\ expense[e].status = "DRAFT"
              /\ Resume(r, [pc |-> "evaluate", exp |-> e,
                            expected |-> expense[e].version])
        BY <3>1 DEF StartSubmit
      <4> QED
        BY <4>1 DEF Resume, TypeOK, SubmissionSound
    <3>2. CASE EvaluatePolicies(r)
      BY <3>2, EvaluationSound
    <3>3. CASE ~StartSubmit(r) /\ ~EvaluatePolicies(r)
      BY <1>2, <3>3, OthersKnowNothing DEF SubmissionSound
    <3> QED
      BY <3>1, <3>2, <3>3
  <2>4. \A s \in Request : SubmissionSound(req[s]) => SubmissionSound(req'[s])
    BY <2>2, <2>3
  <2> QED
    BY <2>1, <2>4, OtherKeepsEligible
<1> QED
  BY <1>1, <1>2, WriterKeepsEligible DEF Next

\* Whatever changes between the lookup and the review, every approver is a
\* colleague of the owner who may review, and never the owner.
THEOREM ApproversAreEligible == Spec => []ApproversEligible
<1>1. Init => EligibleInv
  BY DEF Init, InitWorkflow, EligibleInv, OwnersMayCreate, SubmissionSound, ApproversEligible,
         AbsentExpense, AbsentApproval, Idle, Level
<1>2. EligibleInv => ApproversEligible
  BY DEF EligibleInv
<1> QED
  BY <1>1, <1>2, EligibleStep, RouteInvariant, PTL DEF Spec

----------------------------------------------------------------------------
(* The audit entries of decisions, in the log or about to be.              *)

DecisionsTold == \A a \in Claimed : TellsDecision(a)

\* An approval with a verdict is never written again.
LEMMA WordStays ==
    ASSUME RouteInv, NEW r \in Request, Writes(r), NEW a, a.exp \in Expense,
           TellsDecision(a)
    PROVE  TellsDecision(a)'
<1> SUFFICES ASSUME a.level \in Level
             PROVE  approval'[a.exp][a.level] = approval[a.exp][a.level]
  BY DEF TellsDecision
<1>1. approval[a.exp][a.level].status \in Verdict
  BY DEF TellsDecision
<1> QED
  BY <1>1, ApprovalWritten DEF Verdict

\* A decision attests the verdict that it writes, and the version that makes.
LEMMA CommitsTellDecisions ==
    ASSUME RouteInv, NEW r \in Request, Writes(r), req'[r].pc = "audit",
           NEW a, a = req'[r].entry
    PROVE  TellsDecision(a)'
<1> DEFINE q == req[r]
           e == q.exp
<1> TypeOK
  BY DEF RouteInv
<1>1. CASE ~DecideExpense(r)
  <2>1. \/ Resume(r, Idle)
        \/ \E action, d, version, mails :
             Resume(r, Committed(AuditEntry(action, d, version), mails, FALSE))
    <3>1. CASE CreateExpense(r)
      BY <3>1 DEF CreateExpense
    <3>2. CASE AttachReceipt(r)
      BY <3>2 DEF AttachReceipt
    <3>3. CASE SubmitExpense(r)
      BY <3>3 DEF SubmitExpense
    <3> QED
      BY <1>1, <3>1, <3>2, <3>3 DEF Writes
  <2>2. PICK action, d, version : a = AuditEntry(action, d, version)
    BY <2>1 DEF Resume, TypeOK, Committed, Idle
  <2> QED
    BY <2>2 DEF TellsDecision, AuditEntry, Level
<1>2. CASE DecideExpense(r)
  <2>1. q \in [pc : Deciding, exp : Expense, level : Level, verdict : Verdict,
               seenApproval : Nat, seenFinance : Nat \cup {None}, seenExpense : Nat]
    BY <1>2, RequestFields DEF DecideExpense, Deciding
  <2>2. /\ approval' = [approval EXCEPT ![e] = Decided(approval[e], q)]
        /\ a = DecisionEntry(q)
    BY <1>2 DEF DecideExpense, Resume, TypeOK, Committed, Idle
  <2>3. StillAs(approval[e][q.level], "PENDING", q.seenApproval)
    BY <1>2 DEF RouteInv, DecisionsSound, DecisionSound, RowFresh, Deciding, DecideExpense
  <2>4. approval'[e][q.level] = MovedTo(approval[e][q.level], q.verdict)
    BY <2>1, <2>2 DEF TypeOK, Decided
  <2>5. /\ approval'[e][q.level].status = q.verdict
        /\ approval'[e][q.level].version = q.seenApproval + 1
    <3>1. approval[e][q.level] \in ApprovalRow /\ q.verdict \in ApprovalStatus
      BY <2>1 DEF TypeOK, ApprovalStatus
    <3> QED
      BY <2>3, <2>4, <3>1, MovedApproval DEF StillAs
  <2> QED
    BY <2>1, <2>2, <2>5 DEF TellsDecision, DecisionEntry
<1> QED
  BY <1>1, <1>2

LEMMA ToldStep == RouteInv /\ DecisionsTold /\ [Next]_vars => DecisionsTold'
<1> SUFFICES ASSUME RouteInv, DecisionsTold, [Next]_vars, NEW a \in Claimed'
             PROVE  TellsDecision(a)'
  BY DEF DecisionsTold
<1> TypeOK
  BY DEF RouteInv
<1>1. CASE UNCHANGED vars \/ ChangePolicies
  BY <1>1 DEF vars, ChangePolicies, tables, logs, DecisionsTold, Claimed, TellsDecision
<1>2. ASSUME NEW r \in Request, Writes(r) PROVE TellsDecision(a)'
  <2>1. CASE a \in Claimed
    BY <1>2, <2>1, EntryTypes, WordStays DEF DecisionsTold
  <2>2. CASE a \notin Claimed
    <3>1. req'[r].pc = "audit" /\ req'[r].entry = a
      BY <1>2, <2>2, WritersClaim, FreshEntry
    <3> QED
      BY <1>2, <3>1, CommitsTellDecisions
  <2> QED
    BY <2>1, <2>2
<1>3. ASSUME NEW r \in Request, Arrive(r) \/ Continue(r) \/ Fail(r), ~Writes(r)
      PROVE  TellsDecision(a)'
  <2>1. UNCHANGED tables /\ a \in Claimed
    BY <1>3, OthersCommitNothing, NothingClaimed
  <2> QED
    BY <2>1 DEF DecisionsTold, TellsDecision, tables
<1> QED
  BY <1>1, <1>2, <1>3 DEF Next

\* The version of the approval in an audit entry is computed, not read, and
\* the row is written when others may have gone on; still it attests the
\* verdict and the version that the approval has, and keeps.
THEOREM AuditTellsTruth == Spec => []AuditTellsDecisions
<1>1. Init => DecisionsTold
  BY DEF Init, InitWorkflow, Idle, DecisionsTold, Claimed, BagToSet, EmptyBag, SetToBag
<1>2. DecisionsTold => AuditTellsDecisions
  BY DEF DecisionsTold, Claimed, AuditTellsDecisions
<1> QED
  BY <1>1, <1>2, ToldStep, RouteInvariant, PTL DEF Spec

----------------------------------------------------------------------------
(* Mails.  Those enqueued, and those that a handler is about to enqueue.    *)

Telling == {"audit", "enqueue"}
Told == outbox \cup UNION {req[r].mails : r \in {s \in Request : req[s].pc \in Telling}}

LEMMA ToldMails == TypeOK => Told \subseteq Mail
<1> SUFFICES ASSUME TypeOK, NEW r \in Request, req[r].pc \in Telling
             PROVE  req[r].mails \subseteq Mail
  BY DEF Told, TypeOK
<1> QED
  BY RequestFields DEF Telling

\* The tables move on, and what was said stays true.
LEMMA TruthStays ==
    ASSUME RouteInv, NEW r \in Request, Writes(r), NEW m \in Mail, Truthful(m)
    PROVE  Truthful(m)'
<1> DEFINE e == m.exp
           manager == approval[e]["MANAGER"]
           finance == approval[e]["FINANCE"]
<1> TypeOK
  BY DEF RouteInv
<1>1. /\ e \in Expense /\ m.type \in {"approval.requested", "expense.decision"}
      /\ "MANAGER" \in Level /\ "FINANCE" \in Level
  BY DEF Mail, Level
<1>2. CASE m.type = "expense.decision"
  <2>1. expense[e].status # "ABSENT"
    BY <1>1, <1>2 DEF Truthful, Verdict, RouteInv, RouteConsistent
  <2>2. expense'[e].owner = expense[e].owner
    BY <1>1, <2>1, OwnerWritten
  <2>3. m.status \in Verdict => expense'[e].status = m.status
    BY <1>1, <1>2, OneExpenseWritten DEF Truthful, Verdict, Pending
  <2>4. m.status \notin Verdict => approval'[e]["MANAGER"].status = "APPROVED"
    BY <1>1, <1>2, ApprovalWritten DEF Truthful
  <2> QED
    BY <1>2, <2>2, <2>3, <2>4 DEF Truthful
<1>3. CASE m.type = "approval.requested" /\ m.status = "PENDING_MANAGER"
  BY <1>1, <1>3, ApprovalWritten DEF Truthful, Verdict
<1>4. CASE m.type = "approval.requested" /\ m.status # "PENDING_MANAGER"
  BY <1>1, <1>4, ApprovalWritten DEF Truthful, Verdict
<1> QED
  BY <1>1, <1>2, <1>3, <1>4

\* The handler that commits tells what it has done.
LEMMA CommitsTellTruth ==
    ASSUME RouteInv, NEW r \in Request, Writes(r), req'[r].pc = "audit",
           NEW m \in req'[r].mails
    PROVE  Truthful(m)'
<1> DEFINE q == req[r]
           e == q.exp
<1> TypeOK
  BY DEF RouteInv
<1>1. CASE CreateExpense(r)
  <2>1. PICK d \in Expense :
          Resume(r, Committed(AuditEntry("expense.created", d, None), {}, FALSE))
    BY <1>1 DEF CreateExpense
  <2> QED
    BY <2>1 DEF Resume, TypeOK, Committed
<1>2. CASE AttachReceipt(r)
  BY <1>2 DEF AttachReceipt, Resume, TypeOK, Committed, Idle
<1>3. CASE SubmitExpense(r)
  <2> DEFINE status == SubmissionStatus(q.ev)
  <2>1. e \in Expense /\ q.ev \in Evaluation /\ q.found \in [Level -> User \cup {NoUser}]
    BY <1>3, RequestFields DEF SubmitExpense
  <2>2. /\ StillAs(expense[e], "DRAFT", q.expected)
        /\ approval' = [approval EXCEPT ![e] = NewApprovals(q.ev, q.found)]
        /\ req'[r].mails = SubmissionMails(e, status, q.found)
    BY <1>3 DEF SubmitExpense, Resume, TypeOK, Committed, Idle
  <2>3. PICK level \in Level :
          /\ status = Awaiting(level)
          /\ m = [type |-> "approval.requested", exp |-> e, to |-> q.found[level],
                  status |-> status]
    BY <2>2 DEF SubmissionMails
  <2>4. approval'[e] = NewApprovals(q.ev, q.found)
    BY <2>1, <2>2 DEF TypeOK
  <2>5. CASE level = "MANAGER"
    <3>1. ~q.ev.autoReject /\ q.ev.requireManager /\ status = "PENDING_MANAGER"
      BY <2>1, <2>3, <2>5 DEF SubmissionStatus, Awaiting, Evaluation
    <3>2. approval'[e]["MANAGER"].approver = q.found["MANAGER"]
          /\ approval'[e]["MANAGER"].status = "PENDING"
      BY <2>4, <3>1 DEF NewApprovals, Level
    <3> QED
      BY <2>3, <2>5, <3>1, <3>2 DEF Truthful
  <2>6. CASE level = "FINANCE"
    <3>1. /\ ~q.ev.autoReject /\ ~q.ev.requireManager /\ q.ev.requireFinance
          /\ status = "PENDING_FINANCE"
      BY <2>1, <2>3, <2>6 DEF SubmissionStatus, Awaiting, Evaluation
    <3>2. approval'[e]["FINANCE"].approver = q.found["FINANCE"]
          /\ approval'[e]["FINANCE"].status = "PENDING"
      BY <2>4, <3>1 DEF NewApprovals, Level
    <3> QED
      BY <2>3, <2>6, <3>1, <3>2 DEF Truthful
  <2> QED
    BY <2>5, <2>6 DEF Level
<1>4. CASE DecideExpense(r)
  <2>1. q \in [pc : Deciding, exp : Expense, level : Level, verdict : Verdict,
               seenApproval : Nat, seenFinance : Nat \cup {None}, seenExpense : Nat]
    BY <1>4, RequestFields DEF DecideExpense, Deciding
  <2>2. /\ expense' = [expense EXCEPT ![e] = MovedTo(expense[e], Outcome(q))]
        /\ approval' = [approval EXCEPT ![e] = Decided(approval[e], q)]
        /\ req'[r].mails = {[type |-> "expense.decision", exp |-> e,
                             to |-> expense[e].owner, status |-> Outcome(q)]}
    BY <1>4 DEF DecideExpense, Resume, TypeOK, Committed, Idle
  <2>3. m = [type |-> "expense.decision", exp |-> e, to |-> expense[e].owner,
             status |-> Outcome(q)]
    BY <2>2
  <2>4. Outcome(q) \in Status /\ expense[e] \in ExpenseRow
    BY <2>1 DEF Outcome, Status, Pending, TypeOK
  <2>5. /\ expense'[e].owner = expense[e].owner
        /\ expense'[e].status = Outcome(q)
    BY <2>1, <2>2, <2>4, MovedExpense DEF TypeOK
  <2>6. ASSUME Outcome(q) \notin Verdict
        PROVE  approval'[e]["MANAGER"].status = "APPROVED"
    <3>1. q.level = "MANAGER" /\ q.verdict = "APPROVED"
      BY <2>1, <2>6 DEF Outcome, OpensFinance
    <3>2. approval'[e]["MANAGER"] = MovedTo(approval[e]["MANAGER"], "APPROVED")
      BY <2>1, <2>2, <3>1 DEF TypeOK, Decided, Level
    <3> QED
      BY <2>1, <3>2, MovedApproval DEF TypeOK, Level, ApprovalStatus, Verdict
  <2> QED
    BY <2>3, <2>5, <2>6 DEF Truthful
<1> QED
  BY <1>1, <1>2, <1>3, <1>4 DEF Writes

\* A request that still reads, or that has ended, tells nothing.
LEMMA OthersTellNothing ==
    ASSUME TypeOK, NEW r \in Request, Arrive(r) \/ Continue(r) \/ Fail(r),
           ~Writes(r), ~EnqueueMail(r), ~WriteAudit(r), ~LookupFinance(r)
    PROVE  req'[r].pc \notin Telling
<1> SUFFICES ASSUME NEW state, Resume(r, state), state.pc \notin Telling
             PROVE  req'[r].pc \notin Telling
  <2>1. Idle.pc \notin Telling
    BY DEF Idle, Telling
  <2>2. CASE StartReceipt(r) \/ StartSubmit(r)
    BY <2>2 DEF StartReceipt, StartSubmit, Telling
  <2>3. CASE StartDecide(r)
    BY <2>3 DEF StartDecide, Telling
  <2>4. CASE EvaluatePolicies(r)
    BY <2>1, <2>4 DEF EvaluatePolicies, Telling
  <2>5. CASE DecideApproval(r) \/ DecideFinance(r)
    <3>1. req[r] \in [pc : Deciding, exp : Expense, level : Level, verdict : Verdict,
                      seenApproval : Nat, seenFinance : Nat \cup {None},
                      seenExpense : Nat]
      BY <2>5, RequestFields DEF DecideApproval, DecideFinance, Deciding
    <3>2. \A pc \in Deciding : [req[r] EXCEPT !.pc = pc].pc \notin Telling
      BY <3>1 DEF Deciding, Telling
    <3>3. PICK next : Resume(r, next) /\ next.pc \notin Telling
      BY <2>5, <2>1, <3>2 DEF DecideApproval, DecideFinance, Deciding
    <3> QED
      BY <3>3
  <2>6. CASE ReportMissingRoute(r) \/ Fail(r)
    BY <2>1, <2>6 DEF ReportMissingRoute, Fail
  <2> QED
    BY <2>2, <2>3, <2>4, <2>5, <2>6 DEF Arrive, Continue, Writes
<1> QED
  BY DEF Resume, TypeOK

\* The others enqueue what was told, or ask whoever finance waits for.
LEMMA OthersTellTruth ==
    ASSUME TypeOK, NEW r \in Request, Arrive(r) \/ Continue(r) \/ Fail(r), ~Writes(r),
           NEW m \in Told', m \notin Told
    PROVE  Truthful(m)
<1> DEFINE q == req[r]
<1>1. \A s \in Request \ {r} : req'[s] = req[s]
  BY OneMoved
<1>2. CASE EnqueueMail(r)
  <2>1. outbox' = outbox \cup q.mails /\ q.pc = "enqueue" /\ req'[r].pc \notin Telling
    BY <1>2 DEF EnqueueMail, Resume, TypeOK, Telling, Idle
  <2> QED
    BY <1>1, <2>1 DEF Told, Telling
<1>3. CASE WriteAudit(r)
  <2>1. /\ outbox' = outbox /\ q.pc = "audit"
        /\ req'[r].pc \in Telling => req'[r].mails = q.mails
    BY <1>3 DEF WriteAudit, Resume, TypeOK, Telling, Idle
  <2> QED
    BY <1>1, <2>1 DEF Told, Telling
<1>4. CASE LookupFinance(r)
  <2> DEFINE row == approval[q.exp]["FINANCE"]
             asked == [type |-> "approval.requested", exp |-> q.exp,
                       to |-> row.approver, status |-> "PENDING_FINANCE"]
  <2>1. /\ outbox' = outbox
        /\ req'[r].pc \in Telling => row.status = "PENDING" /\ req'[r].mails = {asked}
    BY <1>4 DEF LookupFinance, Resume, TypeOK, Telling, logs
  <2>2. row.status = "PENDING" /\ m = asked
    BY <1>1, <2>1 DEF Told
  <2> QED
    BY <2>2 DEF Truthful
<1>5. CASE ~EnqueueMail(r) /\ ~WriteAudit(r) /\ ~LookupFinance(r)
  <2>1. outbox' = outbox
    BY <1>5 DEF Arrive, Continue, Fail, Writes, StartReceipt, StartSubmit, StartDecide,
               EvaluatePolicies, DecideApproval, DecideFinance, ReportMissingRoute, logs
  <2>2. req'[r].pc \notin Telling
    BY <1>5, OthersTellNothing
  <2> QED
    BY <1>1, <2>1, <2>2 DEF Told
<1> QED
  BY <1>2, <1>3, <1>4, <1>5

MailsInv == \A m \in Told : Truthful(m)

LEMMA MailsStep == RouteInv /\ MailsInv /\ [Next]_vars => MailsInv'
<1> SUFFICES ASSUME RouteInv, MailsInv, [Next]_vars PROVE MailsInv'
  OBVIOUS
<1> TypeOK
  BY DEF RouteInv
<1>1. CASE ChangePolicies \/ UNCHANGED vars
  BY <1>1 DEF ChangePolicies, vars, tables, logs, MailsInv, Told, Truthful
<1>2. ASSUME NEW r \in Request, Writes(r) PROVE MailsInv'
  <2> SUFFICES ASSUME NEW m \in Told' PROVE Truthful(m)'
    BY DEF MailsInv
  <2>1. outbox' = outbox
    BY <1>2 DEF Writes, CreateExpense, AttachReceipt, SubmitExpense, DecideExpense, logs
  <2>2. m \in Told \/ (req'[r].pc = "audit" /\ m \in req'[r].mails)
    BY <1>2, <2>1, WriterLeaves DEF Told, Telling
  <2>3. CASE m \in Told
    BY <1>2, <2>3, TruthStays, ToldMails DEF MailsInv
  <2>4. CASE req'[r].pc = "audit" /\ m \in req'[r].mails
    BY <1>2, <2>4, CommitsTellTruth
  <2> QED
    BY <2>2, <2>3, <2>4
<1>3. ASSUME NEW r \in Request, Arrive(r) \/ Continue(r) \/ Fail(r), ~Writes(r)
      PROVE  MailsInv'
  <2>1. UNCHANGED tables
    BY <1>3, QuietSteps
  <2>2. \A m \in Told' : Truthful(m)
    BY <1>3, OthersTellTruth DEF MailsInv
  <2> QED
    BY <2>1, <2>2 DEF MailsInv, Truthful, tables
<1> QED
  BY <1>1, <1>2, <1>3 DEF Next

\* However late a mail is enqueued, and whatever has happened since, it tells
\* the owner or the approver what is the case.
THEOREM MailsAreTruthful == Spec => []MailsTruthful
<1>1. Init => MailsInv
  BY DEF Init, InitWorkflow, MailsInv, Told, Telling, Idle
<1>2. MailsInv => MailsTruthful
  BY DEF MailsInv, Told, MailsTruthful
<1> QED
  BY <1>1, <1>2, MailsStep, RouteInvariant, PTL DEF Spec

----------------------------------------------------------------------------
(* Policies *)

\* A step that changes the policies adds one row, or takes one away.
LEMMA PolicyStep ==
    ASSUME [Next]_vars, policies' # policies
    PROVE  \E p : policies' = policies \cup {p} \/ policies' = policies \ {p}
<1>1. ChangePolicies
  BY DEF Next, vars, Arrive, Continue, CreateExpense, StartReceipt, StartSubmit,
         StartDecide, AttachReceipt, EvaluatePolicies, SubmitExpense, DecideApproval,
         DecideFinance, DecideExpense, WriteAudit, EnqueueMail, LookupFinance,
         ReportMissingRoute, Fail
<1> QED
  BY <1>1 DEF ChangePolicies, NextPolicies, CreatePolicy, RemovePolicy

\* More rows demand more.
LEMMA DemandsGrow ==
    ASSUME NEW few, NEW many, few \subseteq many, NEW org, NEW claim
    PROVE  AtLeastAsStrict(Evaluate(many, org, claim), Evaluate(few, org, claim))
BY DEF AtLeastAsStrict, Evaluate, Demanded

\* The rows of other organizations demand nothing.
LEMMA OthersDemandNothing ==
    ASSUME NEW rows, NEW p, NEW org, NEW claim, p.org # org
    PROVE  /\ Evaluate(rows \cup {p}, org, claim) = Evaluate(rows, org, claim)
           /\ Evaluate(rows \ {p}, org, claim) = Evaluate(rows, org, claim)
<1>1. ASSUME NEW action
      PROVE  /\ Demanded(rows \cup {p}, org, claim, action)
                  = Demanded(rows, org, claim, action)
             /\ Demanded(rows \ {p}, org, claim, action)
                  = Demanded(rows, org, claim, action)
  BY DEF Demanded
<1> QED
  BY <1>1 DEF Evaluate

\* However policies are created and removed, and whatever they say together, a
\* creation adds demands and a removal takes them away.
THEOREM PoliciesAreAdditive == Spec => PoliciesOnlyAdd
<1> DEFINE Additive ==
             \A p \in Created \cup Removed, org \in Org, claim \in Claim :
               LET before == Evaluate(policies, org, claim)
                   after  == Evaluate(policies', org, claim)
               IN /\ p \in Created => AtLeastAsStrict(after, before)
                  /\ p \in Removed => AtLeastAsStrict(before, after)
<1>1. [Next]_vars => [Additive]_policies
  <2> SUFFICES ASSUME [Next]_vars, policies' # policies PROVE Additive
    OBVIOUS
  <2>1. /\ Created # {} => policies \subseteq policies'
        /\ Removed # {} => policies' \subseteq policies
    BY PolicyStep DEF Created, Removed
  <2> QED
    BY <2>1, DemandsGrow
<1> QED
  BY <1>1, PTL DEF Spec, PoliciesOnlyAdd

\* No policy reaches over to the expenses of another organization.
THEOREM TenantsStayApart == Spec => TenantsApart
<1> DEFINE Apart ==
             \A p \in Created \cup Removed, org \in Org, claim \in Claim :
               org # p.org => Evaluate(policies, org, claim)
                                = Evaluate(policies', org, claim)
<1>1. [Next]_vars => [Apart]_policies
  <2> SUFFICES ASSUME [Next]_vars, policies' # policies,
                      NEW p \in Created \cup Removed, NEW org \in Org,
                      NEW claim \in Claim, org # p.org
               PROVE  Evaluate(policies, org, claim) = Evaluate(policies', org, claim)
    OBVIOUS
  <2>1. policies' = policies \cup {p} \/ policies' = policies \ {p}
    BY PolicyStep DEF Created, Removed
  <2> QED
    BY <2>1, OthersDemandNothing
<1> QED
  BY <1>1, PTL DEF Spec, TenantsApart

----------------------------------------------------------------------------
(* The lifecycle.  The handlers of ExpenseWorkflow implement                *)
(* ExpenseLifecycle: every step of a handler is a step of the lifecycle of  *)
(* one expense, or none.                                                    *)

Stages      == [e \in Expense |-> StageOf(expense[e].status)]
Outstandings == [e \in Expense |-> Outstanding(e)]

----------------------------------------------------------------------------
LEMMA StageFacts ==
    /\ StageOf("ABSENT") = "absent" /\ StageOf("DRAFT") = "draft"
    /\ \A status \in Pending : StageOf(status) = "review"
    /\ StageOf("APPROVED") = "approved" /\ StageOf("REJECTED") = "refused"
BY DEF StageOf, Pending

\* What an expense awaits is to be read off its status, and what finance has to
\* say off the route it was submitted under.
OutstandingByStatus ==
    \A e \in Expense :
        /\ expense[e].status \notin Pending => Outstanding(e) = {}
        /\ expense[e].status = "PENDING_FINANCE" => Outstanding(e) = {"FINANCE"}
        /\ expense[e].status = "PENDING_MANAGER" =>
             Outstanding(e) = IF approval[e]["FINANCE"].status = "NONE"
                              THEN {"MANAGER"} ELSE {"MANAGER", "FINANCE"}

LEMMA OutstandingFacts == RouteInv => OutstandingByStatus
<1> SUFFICES ASSUME RouteInv, NEW e \in Expense
             PROVE  /\ expense[e].status \notin Pending => Outstanding(e) = {}
                    /\ expense[e].status = "PENDING_FINANCE" => Outstanding(e) = {"FINANCE"}
                    /\ expense[e].status = "PENDING_MANAGER" =>
                         Outstanding(e) = IF approval[e]["FINANCE"].status = "NONE"
                                          THEN {"MANAGER"} ELSE {"MANAGER", "FINANCE"}
  BY DEF OutstandingByStatus
<1>1. expense[e].status \in Status
  BY DEF RouteInv, TypeOK, ExpenseRow
<1>2. CASE expense[e].status \in {"ABSENT", "DRAFT"}
  BY <1>2 DEF RouteInv, RouteConsistent, Outstanding, Level, Pending
<1>3. CASE expense[e].status = "PENDING_MANAGER"
  BY <1>3 DEF RouteInv, RouteConsistent, Outstanding, Level, Pending
<1>4. CASE expense[e].status = "PENDING_FINANCE"
  BY <1>4 DEF RouteInv, RouteConsistent, Outstanding, Level, Pending
<1>5. CASE expense[e].status \in Verdict
  BY <1>5 DEF RouteInv, RouteConsistent, Outstanding, Level, Pending, Verdict
<1> QED
  BY <1>1, <1>2, <1>3, <1>4, <1>5 DEF Status

LEMMA OutstandingFactsPrime == RouteInv' => OutstandingByStatus'
BY OutstandingFacts, PTL

\* A step about one expense.
LEMMA OneMoves ==
    ASSUME NEW e \in Expense, NEW next, NEW levels,
           \A d \in Expense \ {e} : expense'[d] = expense[d] /\ approval'[d] = approval[d],
           StageOf(expense'[e].status) = next, Outstanding(e)' = levels
    PROVE  /\ Stages' = [Stages EXCEPT ![e] = next]
           /\ Outstandings' = [Outstandings EXCEPT ![e] = levels]
<1>1. \A d \in Expense \ {e} : Outstanding(d)' = Outstanding(d)
  BY DEF Outstanding
<1> QED
  BY <1>1 DEF Stages, Outstandings

LEMMA NobodyMoves ==
    ASSUME \A e \in Expense : /\ StageOf(expense'[e].status) = StageOf(expense[e].status)
                              /\ Outstanding(e)' = Outstanding(e)
    PROVE  UNCHANGED <<Stages, Outstandings>>
BY DEF Stages, Outstandings

\* The actions of the lifecycle under the refinement mapping.
LEMMA LifecycleDraft ==
    ASSUME NEW e \in Expense, Stages[e] = "absent",
           Stages' = [Stages EXCEPT ![e] = "draft"], UNCHANGED Outstandings
    PROVE  Lifecycle!Next
BY DEF Lifecycle!Next, Lifecycle!Draft, Stages, Outstandings

LEMMA LifecycleSubmit ==
    ASSUME NEW e \in Expense, NEW levels \in SUBSET Level, Stages[e] = "draft",
           Stages' = [Stages EXCEPT ![e] = IF levels = {} THEN "approved" ELSE "review"],
           Outstandings' = [Outstandings EXCEPT ![e] = levels]
    PROVE  Lifecycle!Next
BY DEF Lifecycle!Next, Lifecycle!SubmitForReview, Lifecycle!Await, Lifecycle!Level, Level,
       Stages, Outstandings

LEMMA LifecycleApprove ==
    ASSUME NEW e \in Expense, NEW level, NEW levels,
           Stages[e] = "review", level = Lifecycle!Turn(Outstandings[e]),
           levels = Outstandings[e] \ {level},
           Stages' = [Stages EXCEPT ![e] = IF levels = {} THEN "approved" ELSE "review"],
           Outstandings' = [Outstandings EXCEPT ![e] = levels]
    PROVE  Lifecycle!Next
BY DEF Lifecycle!Next, Lifecycle!Approve, Lifecycle!Await, Stages, Outstandings

LEMMA LifecycleRefuse ==
    ASSUME NEW e \in Expense, Stages[e] \in {"draft", "review"},
           Stages' = [Stages EXCEPT ![e] = "refused"],
           Outstandings' = [Outstandings EXCEPT ![e] = {}]
    PROVE  Lifecycle!Next
BY DEF Lifecycle!Next, Lifecycle!RefuseByPolicy, Lifecycle!Reject, Lifecycle!Refuse,
       Stages, Outstandings

----------------------------------------------------------------------------
(* The writers, one by one.  What a handler does without writing a table is *)
(* no step of the lifecycle.                                                *)

\* A step of the lifecycle, or none.
Follows == Lifecycle!Next \/ UNCHANGED <<Stages, Outstandings>>

LEMMA TablesStand ==
    ASSUME UNCHANGED tables PROVE Follows
BY NobodyMoves DEF tables, Outstanding, Follows

LEMMA CreateFollows ==
    ASSUME RouteInv, RouteInv', NEW r \in Request, CreateExpense(r)
    PROVE  Follows
<1>1. PICK e \in Expense, u \in User, c \in Claim :
        /\ expense[e].status = "ABSENT"
        /\ expense' = [expense EXCEPT ![e] =
              [AbsentExpense EXCEPT !.status = "DRAFT", !.owner = u, !.claim = c]]
  BY DEF CreateExpense
<1>2. /\ expense'[e].status = "DRAFT" /\ UNCHANGED approval
      /\ \A d \in Expense \ {e} : expense'[d] = expense[d]
  BY <1>1 DEF CreateExpense, AbsentExpense, RouteInv, TypeOK
<1>3. Outstanding(e) = {} /\ Outstanding(e)' = {}
  BY <1>1, <1>2, OutstandingFacts, OutstandingFactsPrime DEF OutstandingByStatus, Pending
<1>4. /\ Stages[e] = "absent" /\ Outstandings[e] = {}
      /\ Outstandings \in [Expense -> SUBSET Level]
  BY <1>1, <1>3, StageFacts DEF Stages, Outstandings, Outstanding
<1>5. /\ Stages' = [Stages EXCEPT ![e] = "draft"]
      /\ Outstandings' = [Outstandings EXCEPT ![e] = {}]
  BY <1>2, <1>3, StageFacts, OneMoves
<1>6. UNCHANGED Outstandings
  BY <1>4, <1>5
<1> QED
  BY <1>4, <1>5, <1>6, LifecycleDraft DEF Follows

LEMMA AttachFollows ==
    ASSUME RouteInv, NEW r \in Request, AttachReceipt(r)
    PROVE  Follows
<1> DEFINE e == req[r].exp
<1>1. e \in Expense /\ req[r].receipt \in ReceiptKey
  BY RequestFields DEF AttachReceipt, RouteInv
<1>2. UNCHANGED approval /\ \A d \in Expense : expense'[d].status = expense[d].status
  <2>1. \/ expense' = [expense EXCEPT ![e] = WithReceipt(expense[e], req[r].receipt)]
        \/ UNCHANGED expense
    BY DEF AttachReceipt
  <2>2. expense[e] \in ExpenseRow /\ expense \in [Expense -> ExpenseRow]
    BY <1>1 DEF RouteInv, TypeOK
  <2>3. WithReceipt(expense[e], req[r].receipt).status = expense[e].status
    BY <1>1, <2>2, ReceiptExpense
  <2> QED
    BY <1>1, <2>1, <2>2, <2>3 DEF AttachReceipt
<1> QED
  BY <1>2, NobodyMoves DEF Outstanding, Follows

LEMMA SubmitFollows ==
    ASSUME RouteInv, RouteInv', NEW r \in Request, SubmitExpense(r)
    PROVE  Follows
<1>q. PICK q : q = req[r]
  OBVIOUS
<1>e. PICK e : e = q.exp
  OBVIOUS
<1> DEFINE status == SubmissionStatus(q.ev)
<1>1. e \in Expense /\ q.ev \in Evaluation
  BY <1>q, <1>e, RequestFields DEF SubmitExpense, RouteInv
<1>2. CASE StillAs(expense[e], "DRAFT", q.expected)
  <2>1. status \in Status
    BY <1>1, SubmissionStatusType
  <2>2. /\ expense[e].status = "DRAFT" /\ expense'[e].status = status
        /\ \A d \in Expense \ {e} : expense'[d] = expense[d] /\ approval'[d] = approval[d]
    BY <1>q, <1>e, <1>1, <1>2, <2>1, MovedExpense
       DEF SubmitExpense, StillAs, RouteInv, TypeOK
  <2> DEFINE levels == Outstanding(e)'
  <2>3. /\ status = "REJECTED" => levels = {}
        /\ status = "APPROVED" => levels = {}
        /\ status \in Pending => levels # {} /\ levels \subseteq Level
    BY <1>1, <2>2, OutstandingFactsPrime DEF OutstandingByStatus, Pending, Level
  <2>4. status \in {"REJECTED", "APPROVED"} \cup Pending
    BY DEF SubmissionStatus, Pending
  <2>5. Stages[e] = "draft"
    BY <1>1, <2>2, StageFacts DEF Stages
  <2> HIDE DEF levels, status
  <2>6. /\ Stages' = [Stages EXCEPT ![e] = StageOf(status)]
        /\ Outstandings' = [Outstandings EXCEPT ![e] = levels]
    BY <1>1, <2>2, OneMoves DEF levels
  <2>7. CASE status = "REJECTED"
    BY <1>1, <2>3, <2>5, <2>6, <2>7, StageFacts, LifecycleRefuse DEF Follows
  <2>8. CASE status # "REJECTED"
    <3>1. StageOf(status) = IF levels = {} THEN "approved" ELSE "review"
      BY <2>3, <2>4, <2>8, StageFacts DEF Pending
    <3>2. levels \in SUBSET Level
      BY <2>3, <2>4, <2>8
    <3> QED
      BY <1>1, <2>5, <2>6, <3>1, <3>2, LifecycleSubmit DEF Follows
  <2> QED
    BY <2>7, <2>8
<1>3. CASE ~StillAs(expense[e], "DRAFT", q.expected)
  BY <1>q, <1>e, <1>3, TablesStand DEF SubmitExpense
<1> QED
  BY <1>2, <1>3

LEMMA DecideFollows ==
    ASSUME RouteInv, RouteInv', NEW r \in Request, DecideExpense(r)
    PROVE  Follows
<1>q. PICK q : q = req[r]
  OBVIOUS
<1>e. PICK e : e = q.exp
  OBVIOUS
<1> DEFINE levels == Outstanding(e)'
<1>1. /\ e \in Expense /\ q.level \in Level /\ q.verdict \in Verdict
      /\ q.seenFinance \in Nat \cup {None}
  BY <1>q, <1>e, RequestFields DEF DecideExpense, Deciding, RouteInv
<1>2. RowFresh(q) /\ SnapshotFresh(q)
  BY <1>q DEF DecideExpense, RouteInv, DecisionsSound, DecisionSound, Deciding
<1>3. Outcome(q) \in Status
  BY <1>1 DEF Outcome, Status, Pending
<1>4. /\ expense'[e].status = Outcome(q)
      /\ approval'[e] = Decided(approval[e], q)
      /\ \A d \in Expense \ {e} : expense'[d] = expense[d] /\ approval'[d] = approval[d]
  BY <1>q, <1>e, <1>1, <1>2, <1>3, MovedExpense
     DEF DecideExpense, SnapshotFresh, RouteInv, TypeOK
<1>5. /\ expense[e].status = Awaiting(q.level)
      /\ q.level = "MANAGER" =>
           (approval[e]["FINANCE"].status = "NONE" <=> q.seenFinance = None)
  BY <1>e, <1>2 DEF RowFresh, SnapshotFresh, StillAs
<1>6. Stages[e] = "review" /\ Outstandings[e] = Outstanding(e)
  BY <1>1, <1>5, StageFacts, AwaitingType DEF Stages, Outstandings
<1>7. q.level = Lifecycle!Turn(Outstanding(e))
  <2>1. CASE q.level = "MANAGER"
    BY <1>1, <1>5, <2>1, OutstandingFacts
       DEF OutstandingByStatus, Awaiting, Lifecycle!Turn
  <2>2. CASE q.level = "FINANCE"
    BY <1>1, <1>5, <2>2, OutstandingFacts
       DEF OutstandingByStatus, Awaiting, Lifecycle!Turn
  <2> QED
    BY <1>1, <2>1, <2>2 DEF Level
<1>8. /\ Stages' = [Stages EXCEPT ![e] = StageOf(Outcome(q))]
      /\ Outstandings' = [Outstandings EXCEPT ![e] = levels]
  BY <1>1, <1>4, OneMoves
<1>9. CASE q.verdict = "REJECTED"
  <2>1. Outcome(q) = "REJECTED"
    BY <1>9 DEF Outcome
  <2>2. levels = {}
    BY <1>1, <1>4, <2>1, OutstandingFactsPrime DEF OutstandingByStatus, Pending
  <2> HIDE DEF levels
  <2> QED
    BY <1>1, <1>6, <1>8, <2>1, <2>2, StageFacts, LifecycleRefuse DEF Follows
<1>10. CASE q.verdict = "APPROVED"
  <2>1. levels = Outstanding(e) \ {q.level}
        /\ StageOf(Outcome(q)) = IF levels = {} THEN "approved" ELSE "review"
    <3>1. CASE OpensFinance(q)
      <4>1. Outcome(q) = "PENDING_FINANCE" /\ levels = {"FINANCE"}
        BY <1>1, <1>4, <1>10, <3>1, OutstandingFactsPrime DEF Outcome, OutstandingByStatus
      <4>2. Outstanding(e) = {"MANAGER", "FINANCE"} /\ q.level = "MANAGER"
        BY <1>1, <1>5, <3>1, OutstandingFacts DEF OutstandingByStatus, OpensFinance, Awaiting
      <4> QED
        BY <4>1, <4>2, StageFacts DEF Pending
    <3>2. CASE ~OpensFinance(q)
      <4>1. Outcome(q) = "APPROVED" /\ levels = {}
        BY <1>1, <1>4, <1>10, <3>2, OutstandingFactsPrime
           DEF Outcome, OutstandingByStatus, Pending
      <4>2. Outstanding(e) = {q.level}
        BY <1>1, <1>5, <1>10, <3>2, OutstandingFacts
           DEF OutstandingByStatus, OpensFinance, Awaiting, Level
      <4> QED
        BY <4>1, <4>2, StageFacts
    <3> QED
      BY <3>1, <3>2
  <2> HIDE DEF levels
  <2> QED
    BY <1>1, <1>6, <1>7, <1>8, <2>1, LifecycleApprove DEF Follows
<1> QED
  BY <1>1, <1>9, <1>10 DEF Verdict

LEMMA LifecycleStep == RouteInv /\ RouteInv' /\ [Next]_vars => Follows
<1> SUFFICES ASSUME RouteInv, RouteInv', [Next]_vars, ~UNCHANGED tables PROVE Follows
  BY TablesStand
<1>1. PICK r \in Request : Writes(r)
  BY TableWriters
<1> QED
  BY <1>1, CreateFollows, AttachFollows, SubmitFollows, DecideFollows DEF Writes

LEMMA LifecycleInit == Init => Lifecycle!Init
<1> SUFFICES ASSUME Init PROVE Lifecycle!Init
  OBVIOUS
<1>1. \A e \in Expense : StageOf(expense[e].status) = "absent" /\ Outstanding(e) = {}
  BY StageFacts DEF Init, InitWorkflow, AbsentExpense, AbsentApproval, Outstanding, Level
<1> QED
  BY <1>1 DEF Lifecycle!Init

\* The handlers of the API, with their reads that grow old, their row locks and
\* their failures, implement the lifecycle, for any number of them.
THEOREM HandlersImplementLifecycle == Spec => ImplementsLifecycle
<1>1. RouteInv /\ RouteInv' /\ [Next]_vars =>
        [Lifecycle!Next]_<<[e \in Expense |-> StageOf(expense[e].status)],
                           [e \in Expense |-> Outstanding(e)]>>
  BY LifecycleStep DEF Follows, Stages, Outstandings
<1> QED
  BY <1>1, LifecycleInit, RouteInvariant, PTL DEF Spec, ImplementsLifecycle, Lifecycle!Spec
----------------------------------------------------------------------------
(* The mail that is followed *)

Row == job[TheJob]

Holds(w) == Delivery!Holds(w, TheJob)

\* Before the mail is enqueued there is no job, and a job in the queue has
\* attempts and stalls left.
QueueSound ==
    /\ followed \notin outbox => Row = Delivery!NotAdded
    /\ Row.status \notin Delivery!Ended =>
          Row.made < Delivery!Attempts /\ Row.stalls <= Delivery!MaxStalls
    /\ Row.status = "failed" =>
          Row.made = Delivery!Attempts \/ Row.stalls > Delivery!MaxStalls

\* A worker that reports success, or has reported it, has sent the mail.
ReportsTrue ==
    /\ \A w \in Worker : work[w].pc = "complete" => copies[TheJob] > 0
    /\ Row.status = "completed" => copies[TheJob] > 0

\* The workers that still send the mail although they have lost its lock.
Stale == {w \in Worker : work[w].pc = "send" /\ ~Holds(w)}

\* The job was handed out for the last time, or the worker that it was handed
\* to last has sent the mail or died.
Settled ==
    \/ Row.status = "completed"
    \/ /\ Row.status = "active"
       /\ \A w \in Worker : Holds(w) => work[w].pc = "complete"

\* Every copy but one, and every one that a stale worker may yet send, has a
\* lost answer or a stall of its own; that one is of the last hand-out.
CopiesBalanced ==
    /\ IsFiniteSet(Stale)
    /\ Cardinality(Stale) + copies[TheJob]
         <= lost[TheJob] + Row.stalls + (IF Settled THEN 1 ELSE 0)

MailInv ==
    Delivery!TypeOK /\ QueueSound /\ ReportsTrue /\ CopiesBalanced

----------------------------------------------------------------------------
LEMMA MailTypes ==
    ASSUME Delivery!TypeOK
    PROVE  /\ Row \in Delivery!Row
           /\ Row.made \in 0 .. 3 /\ Row.stalls \in 0 .. 2
           /\ copies[TheJob] \in Nat /\ lost[TheJob] \in Nat
           /\ \A w \in Worker :
                 work[w].pc # "idle" =>
                    work[w] \in [pc : {"send", "complete", "fail"}, job : {TheJob}]
BY DEF Delivery!TypeOK, Row, Delivery!Row, Delivery!Work, Delivery!Resting,
       Delivery!Attempts, Delivery!MaxStalls

LEMMA NobodyStale ==
    ASSUME \A w \in Worker : work[w].pc = "idle"
    PROVE  Stale = {} /\ IsFiniteSet(Stale) /\ Cardinality(Stale) = 0
<1>1. Stale = {}
  BY DEF Stale
<1> QED
  BY <1>1, FS_EmptySet

LEMMA MailInit == ReviewInit => MailInv
<1> SUFFICES ASSUME ReviewInit PROVE MailInv
  OBVIOUS
<1>1. /\ Row = Delivery!NotAdded /\ copies[TheJob] = 0 /\ lost[TheJob] = 0
      /\ \A w \in Worker : work[w].pc = "idle"
  BY DEF ReviewInit, Delivery!InitDelivery, Delivery!Resting, Row
<1>2. /\ Row.made = 0 /\ Row.stalls = 0 /\ Row.status = "none"
  BY <1>1 DEF Delivery!NotAdded
<1>3. Delivery!TypeOK
  <2>1. Delivery!NotAdded \in Delivery!Row
    BY DEF Delivery!NotAdded, Delivery!Row, Delivery!Attempts, Delivery!MaxStalls
  <2> QED
    BY <2>1 DEF ReviewInit, Delivery!InitDelivery, Delivery!TypeOK, Delivery!Work
<1>4. QueueSound /\ ReportsTrue
  BY <1>1, <1>2 DEF QueueSound, ReportsTrue, Delivery!Ended, Delivery!Attempts,
     Delivery!MaxStalls
<1>5. CopiesBalanced
  BY <1>1, <1>2, NobodyStale DEF CopiesBalanced
<1> QED
  BY <1>3, <1>4, <1>5 DEF MailInv

----------------------------------------------------------------------------
\* Counting the stale workers.
LEMMA FewerStale ==
    ASSUME NEW S, IsFiniteSet(S), NEW T, T \subseteq S
    PROVE  /\ IsFiniteSet(T)
           /\ Cardinality(T) \in Nat /\ Cardinality(S) \in Nat
           /\ Cardinality(T) <= Cardinality(S)
BY FS_Subset, FS_CardinalityType

LEMMA OneLessStale ==
    ASSUME NEW S, IsFiniteSet(S), NEW w \in S, NEW T, T \subseteq S \ {w}
    PROVE  /\ IsFiniteSet(T)
           /\ Cardinality(T) \in Nat /\ Cardinality(S) \in Nat
           /\ Cardinality(T) + 1 <= Cardinality(S)
<1>1. /\ IsFiniteSet(S \ {w}) /\ Cardinality(S \ {w}) = Cardinality(S) - 1
  BY FS_RemoveElement
<1>2. Cardinality(S) \in Nat
  BY FS_CardinalityType
<1>3. IsFiniteSet(T) /\ Cardinality(T) \in Nat /\ Cardinality(T) <= Cardinality(S \ {w})
  BY <1>1, FewerStale
<1> QED
  BY <1>1, <1>2, <1>3

LEMMA OneMoreStale ==
    ASSUME NEW S, IsFiniteSet(S), NEW w, NEW T, T \subseteq S \cup {w}
    PROVE  /\ IsFiniteSet(T)
           /\ Cardinality(T) \in Nat /\ Cardinality(S) \in Nat
           /\ Cardinality(T) <= Cardinality(S) + 1
<1>1. /\ IsFiniteSet(S \cup {w}) /\ Cardinality(S) \in Nat
      /\ Cardinality(S \cup {w}) <= Cardinality(S) + 1
  BY FS_AddElement, FS_CardinalityType
<1>2. IsFiniteSet(T) /\ Cardinality(T) \in Nat /\ Cardinality(T) <= Cardinality(S \cup {w})
  BY <1>1, FewerStale
<1>3. Cardinality(S \cup {w}) \in Nat
  BY <1>1, FS_CardinalityType
<1> QED
  BY <1>1, <1>2, <1>3

\* A step after which no more workers are stale keeps the balance when every
\* new copy has a new lost answer or stall, or settles the job.
LEMMA BalanceKept ==
    ASSUME Delivery!TypeOK, Delivery!TypeOK', CopiesBalanced, Stale' \subseteq Stale,
           copies'[TheJob] + lost[TheJob] <= copies[TheJob] + lost'[TheJob],
           Row'.stalls = Row.stalls, Settled => Settled'
    PROVE  CopiesBalanced'
<1>1. /\ copies[TheJob] \in Nat /\ lost[TheJob] \in Nat /\ Row.stalls \in 0 .. 2
  BY MailTypes
<1>2. /\ copies'[TheJob] \in Nat /\ lost'[TheJob] \in Nat
  BY DEF Delivery!TypeOK
<1>3. /\ IsFiniteSet(Stale') /\ Cardinality(Stale') \in Nat
      /\ Cardinality(Stale) \in Nat /\ Cardinality(Stale') <= Cardinality(Stale)
  BY FewerStale DEF CopiesBalanced
<1> QED
  BY <1>1, <1>2, <1>3 DEF CopiesBalanced

\* What an action does to the one job and the worker that acts.
LEMMA WorkerTypes ==
    ASSUME Delivery!TypeOK, NEW w \in Worker, work[w].pc # "idle", NEW pc \in {"send", "complete", "fail"}
    PROVE  /\ work[w].job = TheJob
           /\ [work[w] EXCEPT !.pc = pc] \in Delivery!Work
           /\ [work[w] EXCEPT !.pc = pc].pc = pc
<1>1. work[w] \in [pc : {"send", "complete", "fail"}, job : {TheJob}]
  BY MailTypes
<1> QED
  BY <1>1 DEF Delivery!Work

\* A report of the provider: only its worker and the two counts change.
LEMMA SendStep ==
    ASSUME MailInv, NEW w \in Worker, NEW pc \in {"complete", "fail"},
           work[w].pc = "send", work' = [work EXCEPT ![w].pc = pc],
           UNCHANGED <<job, followed, outbox>>,
           copies' \in [{TheJob} -> Nat], lost' \in [{TheJob} -> Nat],
           copies'[TheJob] >= copies[TheJob],
           pc = "complete" =>
              copies'[TheJob] = copies[TheJob] + 1 /\ lost'[TheJob] = lost[TheJob],
           pc = "fail" =>
              copies'[TheJob] + lost[TheJob] <= copies[TheJob] + lost'[TheJob]
    PROVE  MailInv'
<1> USE DEF MailInv
<1>1. /\ work[w].job = TheJob
      /\ [work[w] EXCEPT !.pc = pc] \in Delivery!Work
      /\ [work[w] EXCEPT !.pc = pc].pc = pc
  BY WorkerTypes
<1>2. /\ work'[w].pc = pc
      /\ \A v \in Worker \ {w} : work'[v] = work[v]
      /\ work' \in [Worker -> Delivery!Work]
  BY <1>1 DEF Delivery!TypeOK
<1>3. Delivery!TypeOK'
  BY <1>2 DEF Delivery!TypeOK
<1>4. QueueSound'
  BY DEF QueueSound, Row
<1>a. copies[TheJob] \in Nat /\ copies'[TheJob] \in Nat
  BY MailTypes DEF Delivery!TypeOK
<1>5. ReportsTrue'
  BY <1>2, <1>a DEF ReportsTrue, Row
<1>6. \A v : Holds(v)' <=> Holds(v)
  BY DEF Holds, Delivery!Holds
<1>7. Stale' \subseteq Stale \ {w}
  BY <1>2, <1>6 DEF Stale
<1>8. Row' = Row
  BY DEF Row
<1>9. CASE pc = "fail"
  <2>1. Settled => Settled'
    BY <1>2, <1>6, <1>8, <1>9 DEF Settled
  <2> QED
    BY <1>3, <1>4, <1>5, <1>7, <1>8, <1>9, <2>1, BalanceKept
<1>10. CASE pc = "complete" /\ Holds(w)
  <2>1. ~Settled
    BY <1>10 DEF Settled, Holds, Delivery!Holds, Row
  <2>2. Settled'
    BY <1>2, <1>6, <1>8, <1>10 DEF Settled, Holds, Delivery!Holds, Row
  <2>3. /\ IsFiniteSet(Stale') /\ Cardinality(Stale') \in Nat
        /\ Cardinality(Stale) \in Nat /\ Cardinality(Stale') <= Cardinality(Stale)
    BY <1>7, FewerStale DEF CopiesBalanced
  <2>4. /\ lost[TheJob] \in Nat /\ Row.stalls \in 0 .. 2
    BY MailTypes
  <2>5. CopiesBalanced'
    BY <1>a, <1>8, <1>10, <2>1, <2>2, <2>3, <2>4 DEF CopiesBalanced
  <2> QED
    BY <1>3, <1>4, <1>5, <2>5
<1>11. CASE pc = "complete" /\ ~Holds(w)
  <2>1. w \in Stale
    BY <1>11 DEF Stale
  <2>2. Settled => Settled'
    BY <1>2, <1>6, <1>8, <1>11 DEF Settled
  <2>3. /\ IsFiniteSet(Stale') /\ Cardinality(Stale') \in Nat
        /\ Cardinality(Stale) \in Nat /\ Cardinality(Stale') + 1 <= Cardinality(Stale)
    BY <1>7, <2>1, OneLessStale DEF CopiesBalanced
  <2>4. /\ lost[TheJob] \in Nat /\ Row.stalls \in 0 .. 2
    BY MailTypes
  <2>5. CopiesBalanced'
    BY <1>a, <1>8, <1>11, <2>2, <2>3, <2>4 DEF CopiesBalanced
  <2> QED
    BY <1>3, <1>4, <1>5, <2>5
<1> QED
  BY <1>9, <1>10, <1>11

\* A step of the queue or of a worker that sends nothing.
LEMMA JobStep ==
    ASSUME MailInv, UNCHANGED <<copies, lost>>,
           job' \in [{TheJob} -> Delivery!Row], work' \in [Worker -> Delivery!Work],
           QueueSound', \A w \in Worker : work'[w].pc = "complete" => work[w].pc = "complete",
           Row'.status = "completed" => copies[TheJob] > 0,
           Stale' \subseteq Stale, Row'.stalls = Row.stalls, Settled => Settled'
    PROVE  MailInv'
<1> USE DEF MailInv
<1>1. Delivery!TypeOK'
  BY DEF Delivery!TypeOK
<1>2. ReportsTrue'
  BY DEF ReportsTrue
<1>3. CopiesBalanced'
  <2>1. copies[TheJob] \in Nat /\ lost[TheJob] \in Nat
    BY MailTypes
  <2> QED
    BY <1>1, <2>1, BalanceKept
<1> QED
  BY <1>1, <1>2, <1>3

\* A step that leaves the mail alone.
LEMMA MailStands ==
    ASSUME MailInv, UNCHANGED <<mailing, followed>>, outbox \subseteq outbox'
    PROVE  MailInv'
<1>1. UNCHANGED <<job, work, copies, lost, followed>>
  BY DEF mailing
<1>2. QueueSound'
  BY <1>1 DEF MailInv, QueueSound, Row
<1>3. Delivery!TypeOK' /\ ReportsTrue' /\ CopiesBalanced'
  BY <1>1 DEF MailInv, Delivery!TypeOK, ReportsTrue, CopiesBalanced, Row, Settled,
     Stale, Holds, Delivery!Holds
<1> QED
  BY <1>2, <1>3 DEF MailInv

\* What the queue makes of a row.
LEMMA NowFacts ==
    ASSUME NEW row \in Delivery!Row,
           NEW status \in {"waiting", "active", "delayed", "completed", "failed"}
    PROVE  /\ Delivery!Now(row, status) \in Delivery!Row
           /\ Delivery!Now(row, status).status = status
           /\ Delivery!Now(row, status).made = row.made
           /\ Delivery!Now(row, status).stalls = row.stalls
           /\ Delivery!Now(row, status).holder = row.holder
BY DEF Delivery!Now, Delivery!Row

LEMMA GivenFacts ==
    ASSUME NEW row \in Delivery!Row, NEW w \in Worker \cup {NoWorker}
    PROVE  /\ Delivery!Given(row, w) \in Delivery!Row
           /\ Delivery!Given(row, w).status = row.status
           /\ Delivery!Given(row, w).made = row.made
           /\ Delivery!Given(row, w).stalls = row.stalls
           /\ Delivery!Given(row, w).holder = w
BY DEF Delivery!Given, Delivery!Row

LEMMA TriedFacts ==
    ASSUME NEW row \in Delivery!Row, row.made < Delivery!Attempts
    PROVE  /\ Delivery!Tried(row) \in Delivery!Row
           /\ Delivery!Tried(row).status = row.status
           /\ Delivery!Tried(row).made = row.made + 1
           /\ Delivery!Tried(row).stalls = row.stalls
           /\ Delivery!Tried(row).holder = row.holder
<1>1. row.made \in 0 .. 3 /\ row.made + 1 \in 0 .. 3
  BY DEF Delivery!Row, Delivery!Attempts
<1> QED
  BY <1>1 DEF Delivery!Tried, Delivery!Row, Delivery!Attempts

LEMMA StalledFacts ==
    ASSUME NEW row \in Delivery!Row, row.stalls <= Delivery!MaxStalls
    PROVE  /\ Delivery!Stalled(row) \in Delivery!Row
           /\ Delivery!Stalled(row).status = row.status
           /\ Delivery!Stalled(row).made = row.made
           /\ Delivery!Stalled(row).stalls = row.stalls + 1
           /\ Delivery!Stalled(row).holder = row.holder
<1>1. row.stalls \in 0 .. 2 /\ row.stalls + 1 \in 0 .. 2
  BY DEF Delivery!Row, Delivery!MaxStalls
<1> QED
  BY <1>1 DEF Delivery!Stalled, Delivery!Row, Delivery!MaxStalls

LEMMA JobWritten ==
    ASSUME Delivery!TypeOK, NEW row \in Delivery!Row,
           job' = [job EXCEPT ![TheJob] = row]
    PROVE  Row' = row /\ job' \in [{TheJob} -> Delivery!Row]
BY DEF Delivery!TypeOK, Row

LEMMA AddKeeps ==
    ASSUME MailInv, Delivery!Add({TheJob}), UNCHANGED followed,
           followed \in outbox' \ outbox
    PROVE  MailInv'
<1> USE DEF MailInv
<1> DEFINE row == Delivery!Now(Delivery!NotAdded, "waiting")
<1>0. /\ Delivery!NotAdded \in Delivery!Row
      /\ Delivery!NotAdded.made = 0 /\ Delivery!NotAdded.stalls = 0
  BY DEF Delivery!NotAdded, Delivery!Row, Delivery!Attempts, Delivery!MaxStalls
<1>1. /\ row \in Delivery!Row /\ row.status = "waiting"
      /\ row.made = 0 /\ row.stalls = 0
  BY <1>0, NowFacts
<1> HIDE DEF row
<1>2. job' = [j \in {TheJob} |-> row] /\ UNCHANGED <<work, copies, lost>>
  BY DEF Delivery!Add, row
<1>3. Row' = row /\ Row = Delivery!NotAdded
  BY <1>2 DEF Row, QueueSound
<1>4. Row.status = "none" /\ Row.stalls = 0
  BY <1>3 DEF Delivery!NotAdded
<1>5. QueueSound'
  BY <1>1, <1>3 DEF QueueSound, Delivery!Attempts, Delivery!MaxStalls, Delivery!Ended
<1>6. \A w : ~Holds(w) /\ ~Holds(w)'
  BY <1>1, <1>3, <1>4 DEF Holds, Delivery!Holds, Row
<1>7. Stale' \subseteq Stale /\ ~Settled
  BY <1>2, <1>4, <1>6 DEF Stale, Settled
<1> QED
  BY <1>1, <1>2, <1>3, <1>4, <1>5, <1>7, JobStep DEF Delivery!TypeOK

LEMMA TakeKeeps ==
    ASSUME MailInv, NEW w \in Worker, Delivery!Take(w), UNCHANGED <<followed, outbox>>
    PROVE  MailInv'
<1> USE DEF MailInv
<1> DEFINE row == Delivery!Given(Delivery!Now(Row, "active"), w)
<1>1. /\ work[w].pc = "idle" /\ Row.status = "waiting"
      /\ job' = [job EXCEPT ![TheJob] = row]
      /\ work' = [work EXCEPT ![w] = [pc |-> "send", job |-> TheJob]]
      /\ UNCHANGED <<copies, lost>>
  BY DEF Delivery!Take, Row
<1>2. Row \in Delivery!Row /\ Delivery!Now(Row, "active") \in Delivery!Row
  BY MailTypes, NowFacts
<1>5. /\ row \in Delivery!Row /\ row.status = "active" /\ row.holder = w
      /\ row.made = Row.made /\ row.stalls = Row.stalls
  BY <1>2, NowFacts, GivenFacts
<1> HIDE DEF row
<1>4. Row' = row /\ job' \in [{TheJob} -> Delivery!Row]
  BY <1>1, <1>5, JobWritten
<1>6. work' \in [Worker -> Delivery!Work]
  BY <1>1 DEF Delivery!TypeOK, Delivery!Work
<1>7. QueueSound'
  BY <1>1, <1>4, <1>5 DEF QueueSound, Delivery!Ended, Delivery!NotAdded
<1>8. \A v : ~Holds(v) /\ (Holds(v)' <=> v = w)
  BY <1>1, <1>4, <1>5 DEF Holds, Delivery!Holds, Row
<1>9. Stale' \subseteq Stale /\ ~Settled
  BY <1>1, <1>8 DEF Stale, Settled, Delivery!TypeOK
<1>10. \A v \in Worker : work'[v].pc = "complete" => work[v].pc = "complete"
  BY <1>1 DEF Delivery!TypeOK
<1> QED
  BY <1>1, <1>4, <1>5, <1>6, <1>7, <1>9, <1>10, JobStep

\* What is left of a worker's lock when it reports, or dies.
LEMMA CompleteKeeps ==
    ASSUME MailInv, NEW w \in Worker, Delivery!Complete(w), UNCHANGED <<followed, outbox>>
    PROVE  MailInv'
<1> USE DEF MailInv
<1>1. /\ work[w].pc = "complete" /\ work[w].job = TheJob
      /\ work' = [work EXCEPT ![w] = Delivery!Resting]
      /\ UNCHANGED <<copies, lost>>
  BY MailTypes DEF Delivery!Complete
<1>2. /\ work' \in [Worker -> Delivery!Work]
      /\ \A v \in Worker : work'[v].pc = "complete" => work[v].pc = "complete"
      /\ \A v \in Worker : work'[v].pc = "send" => work[v].pc = "send"
      /\ \A v \in Worker \ {w} : work'[v] = work[v]
  BY <1>1 DEF Delivery!TypeOK, Delivery!Work, Delivery!Resting
<1>3. CASE Holds(w)
  <2> DEFINE row == Delivery!Now(Row, "completed")
  <2>1. /\ row \in Delivery!Row /\ row.status = "completed"
        /\ row.made = Row.made /\ row.stalls = Row.stalls
    BY MailTypes, NowFacts
  <2>2. job' = [job EXCEPT ![TheJob] = row]
    BY <1>1, <1>3 DEF Delivery!Complete, Holds, Row
  <2> HIDE DEF row
  <2>3. Row' = row /\ job' \in [{TheJob} -> Delivery!Row]
    BY <2>1, <2>2, JobWritten
  <2>4. Row.status = "active"
    BY <1>3 DEF Holds, Delivery!Holds, Row
  <2>5. QueueSound'
    BY <2>1, <2>3, <2>4 DEF QueueSound, Delivery!Ended, Delivery!NotAdded
  <2>6. copies[TheJob] > 0
    BY <1>1 DEF ReportsTrue
  <2>7. \A v \in Worker : work[v].pc = "send" => ~Holds(v)
    BY <1>1, <1>3, WorkerAssumption DEF Holds, Delivery!Holds
  <2>8. Stale' \subseteq Stale /\ Settled'
    BY <1>2, <2>1, <2>3, <2>7 DEF Stale, Settled
  <2> QED
    BY <1>1, <1>2, <2>1, <2>3, <2>5, <2>6, <2>8, JobStep
<1>4. CASE ~Holds(w)
  <2>1. job' = job
    BY <1>1, <1>4 DEF Delivery!Complete, Holds
  <2>2. Row' = Row /\ \A v : Holds(v)' <=> Holds(v)
    BY <2>1 DEF Row, Holds, Delivery!Holds
  <2>3. QueueSound'
    BY <2>2 DEF QueueSound
  <2>4. Stale' \subseteq Stale
    BY <1>2, <2>2 DEF Stale
  <2>5. Settled => Settled'
    BY <1>2, <1>4, <2>2 DEF Settled
  <2> QED
    BY <1>1, <1>2, <2>1, <2>2, <2>3, <2>4, <2>5, JobStep DEF ReportsTrue, Delivery!TypeOK
<1> QED
  BY <1>3, <1>4

LEMMA FailAttemptKeeps ==
    ASSUME MailInv, NEW w \in Worker, Delivery!FailAttempt(w),
           UNCHANGED <<followed, outbox>>
    PROVE  MailInv'
<1> USE DEF MailInv
<1>1. /\ work[w].pc = "fail" /\ work[w].job = TheJob
      /\ work' = [work EXCEPT ![w] = Delivery!Resting]
      /\ UNCHANGED <<copies, lost>>
  BY MailTypes DEF Delivery!FailAttempt
<1>2. /\ work' \in [Worker -> Delivery!Work]
      /\ \A v \in Worker : work'[v].pc = "complete" => work[v].pc = "complete"
      /\ \A v \in Worker : work'[v].pc = "send" => work[v].pc = "send"
      /\ \A v \in Worker \ {w} : work'[v] = work[v]
  BY <1>1 DEF Delivery!TypeOK, Delivery!Work, Delivery!Resting
<1>3. CASE Holds(w)
  <2> DEFINE status == IF Row.made + 1 < Delivery!Attempts THEN "delayed" ELSE "failed"
             row == Delivery!Tried(Delivery!Now(Row, status))
  <2>1. Row.status = "active" /\ Row \in Delivery!Row
    BY <1>3, MailTypes DEF Holds, Delivery!Holds, Row
  <2>2. Row.made < Delivery!Attempts
    BY <2>1 DEF QueueSound, Delivery!Ended
  <2>3. /\ Delivery!Now(Row, status) \in Delivery!Row
        /\ Delivery!Now(Row, status).status = status
        /\ Delivery!Now(Row, status).made = Row.made
        /\ Delivery!Now(Row, status).stalls = Row.stalls
    BY <2>1, NowFacts
  <2>4. /\ row \in Delivery!Row /\ row.status = status
        /\ row.made = Row.made + 1 /\ row.stalls = Row.stalls
    BY <2>2, <2>3, TriedFacts
  <2>5. job' = [job EXCEPT ![TheJob] = row]
    BY <1>1, <1>3 DEF Delivery!FailAttempt, Holds, Row
  <2> HIDE DEF row
  <2>6. Row' = row /\ job' \in [{TheJob} -> Delivery!Row]
    BY <2>4, <2>5, JobWritten
  <2>7. QueueSound'
    <3>1. Row.made \in 0 .. 3
      BY MailTypes
    <3> QED
      BY <2>1, <2>2, <2>4, <2>6, <3>1
      DEF QueueSound, Delivery!Ended, Delivery!NotAdded, Delivery!Attempts
  <2>8. \A v \in Worker : work[v].pc = "send" => ~Holds(v)
    BY <1>1, <1>3 DEF Holds, Delivery!Holds
  <2>9. Stale' \subseteq Stale /\ ~Settled
    BY <1>1, <1>2, <1>3, <2>1, <2>8 DEF Stale, Settled
  <2> QED
    BY <1>1, <1>2, <2>4, <2>6, <2>7, <2>9, JobStep
<1>4. CASE ~Holds(w)
  <2>1. job' = job
    BY <1>1, <1>4 DEF Delivery!FailAttempt, Holds
  <2>2. Row' = Row /\ \A v : Holds(v)' <=> Holds(v)
    BY <2>1 DEF Row, Holds, Delivery!Holds
  <2>3. QueueSound'
    BY <2>2 DEF QueueSound
  <2>4. Stale' \subseteq Stale
    BY <1>2, <2>2 DEF Stale
  <2>5. Settled => Settled'
    BY <1>2, <1>4, <2>2 DEF Settled
  <2> QED
    BY <1>1, <1>2, <2>1, <2>2, <2>3, <2>4, <2>5, JobStep DEF ReportsTrue, Delivery!TypeOK
<1> QED
  BY <1>3, <1>4

LEMMA PromoteKeeps ==
    ASSUME MailInv, Delivery!Promote(TheJob), UNCHANGED <<followed, outbox>>
    PROVE  MailInv'
<1> USE DEF MailInv
<1> DEFINE row == Delivery!Now(Row, "waiting")
<1>1. /\ Row.status = "delayed" /\ job' = [job EXCEPT ![TheJob] = row]
      /\ UNCHANGED <<work, copies, lost>>
  BY DEF Delivery!Promote, Row
<1>2. /\ row \in Delivery!Row /\ row.status = "waiting"
      /\ row.made = Row.made /\ row.stalls = Row.stalls
  BY MailTypes, NowFacts
<1> HIDE DEF row
<1>3. Row' = row /\ job' \in [{TheJob} -> Delivery!Row]
  BY <1>1, <1>2, JobWritten
<1>4. QueueSound'
  BY <1>1, <1>2, <1>3 DEF QueueSound, Delivery!Ended, Delivery!NotAdded
<1>5. \A v : ~Holds(v) /\ ~Holds(v)'
  BY <1>1, <1>2, <1>3 DEF Holds, Delivery!Holds, Row
<1>6. Stale' \subseteq Stale /\ ~Settled
  BY <1>1, <1>5 DEF Stale, Settled
<1> QED
  BY <1>1, <1>2, <1>3, <1>4, <1>6, JobStep DEF Delivery!TypeOK

LEMMA DieKeeps ==
    ASSUME MailInv, NEW w \in Worker, Delivery!Die(w), UNCHANGED <<followed, outbox>>
    PROVE  MailInv'
<1> USE DEF MailInv
<1>1. /\ work[w].pc # "idle" /\ work[w].job = TheJob
      /\ work' = [work EXCEPT ![w] = Delivery!Resting]
      /\ UNCHANGED <<copies, lost>>
  BY MailTypes DEF Delivery!Die
<1>2. /\ work' \in [Worker -> Delivery!Work]
      /\ \A v \in Worker : work'[v].pc = "complete" => work[v].pc = "complete"
      /\ \A v \in Worker : work'[v].pc = "send" => work[v].pc = "send" /\ v # w
      /\ \A v \in Worker \ {w} : work'[v] = work[v]
  BY <1>1 DEF Delivery!TypeOK, Delivery!Work, Delivery!Resting
<1>3. CASE Holds(w)
  <2> DEFINE row == Delivery!Given(Row, NoWorker)
  <2>1. Row.status = "active" /\ Row \in Delivery!Row
    BY <1>3, MailTypes DEF Holds, Delivery!Holds, Row
  <2>2. /\ row \in Delivery!Row /\ row.status = "active" /\ row.holder = NoWorker
        /\ row.made = Row.made /\ row.stalls = Row.stalls
    BY <2>1, GivenFacts
  <2>3. job' = [job EXCEPT ![TheJob] = row]
    BY <1>1, <1>3 DEF Delivery!Die, Holds, Row
  <2> HIDE DEF row
  <2>4. Row' = row /\ job' \in [{TheJob} -> Delivery!Row]
    BY <2>2, <2>3, JobWritten
  <2>5. QueueSound'
    BY <2>1, <2>2, <2>4 DEF QueueSound, Delivery!Ended, Delivery!NotAdded
  <2>6. \A v \in Worker : ~Holds(v)' /\ (Holds(v) => v = w)
    BY <1>3, <2>2, <2>4, WorkerAssumption DEF Holds, Delivery!Holds, Row
  <2>7. Stale' \subseteq Stale
    BY <1>2, <2>6 DEF Stale
  <2>8. Settled'
    BY <2>2, <2>4, <2>6 DEF Settled
  <2> QED
    BY <1>1, <1>2, <2>2, <2>4, <2>5, <2>7, <2>8, JobStep
<1>4. CASE ~Holds(w)
  <2>1. job' = job
    BY <1>1, <1>4 DEF Delivery!Die, Holds
  <2>2. Row' = Row /\ \A v : Holds(v)' <=> Holds(v)
    BY <2>1 DEF Row, Holds, Delivery!Holds
  <2>3. QueueSound'
    BY <2>2 DEF QueueSound
  <2>4. Stale' \subseteq Stale
    BY <1>2, <2>2 DEF Stale
  <2>5. Settled => Settled'
    BY <1>2, <1>4, <2>2 DEF Settled
  <2> QED
    BY <1>1, <1>2, <2>1, <2>2, <2>3, <2>4, <2>5, JobStep DEF ReportsTrue, Delivery!TypeOK
<1> QED
  BY <1>3, <1>4

\* The worker that loses the lock, if there is one, may become stale; the stall
\* pays for the copy that it may still send, or has sent.
LEMMA StallKeeps ==
    ASSUME MailInv, Delivery!Stall(TheJob), UNCHANGED <<followed, outbox>>
    PROVE  MailInv'
<1> USE DEF MailInv
<1> DEFINE status == IF Row.stalls < Delivery!MaxStalls THEN "waiting" ELSE "failed"
           row == Delivery!Stalled(Delivery!Given(Delivery!Now(Row, status), NoWorker))
<1>1. /\ Row.status = "active" /\ job' = [job EXCEPT ![TheJob] = row]
      /\ UNCHANGED <<work, copies, lost>>
  BY DEF Delivery!Stall, Row
<1>2. Row.stalls <= Delivery!MaxStalls /\ Row \in Delivery!Row
  BY <1>1, MailTypes DEF QueueSound, Delivery!Ended
<1>3. /\ Delivery!Now(Row, status) \in Delivery!Row
      /\ Delivery!Now(Row, status).status = status
      /\ Delivery!Now(Row, status).made = Row.made
      /\ Delivery!Now(Row, status).stalls = Row.stalls
  BY <1>2, NowFacts
<1>4. /\ Delivery!Given(Delivery!Now(Row, status), NoWorker) \in Delivery!Row
      /\ Delivery!Given(Delivery!Now(Row, status), NoWorker).status = status
      /\ Delivery!Given(Delivery!Now(Row, status), NoWorker).made = Row.made
      /\ Delivery!Given(Delivery!Now(Row, status), NoWorker).stalls = Row.stalls
  BY <1>3, GivenFacts
<1>5. /\ row \in Delivery!Row /\ row.status = status
      /\ row.made = Row.made /\ row.stalls = Row.stalls + 1
  BY <1>2, <1>4, StalledFacts
<1>a. status \in {"waiting", "failed"}
  OBVIOUS
<1>b. Row.stalls \in 0 .. 2 /\ copies[TheJob] \in Nat /\ lost[TheJob] \in Nat
  BY MailTypes
<1>6. Row' = row /\ job' \in [{TheJob} -> Delivery!Row]
  <2> HIDE DEF row
  <2> QED
    BY <1>1, <1>5, JobWritten
<1>7. Delivery!TypeOK'
  BY <1>1, <1>6 DEF Delivery!TypeOK
<1>8. QueueSound'
  <2> HIDE DEF row
  <2>1. status = "failed" => Row.stalls + 1 > Delivery!MaxStalls
    BY <1>b DEF Delivery!MaxStalls
  <2>2. status = "waiting" => Row.stalls + 1 <= Delivery!MaxStalls
    BY <1>b DEF Delivery!MaxStalls
  <2> HIDE DEF status
  <2> QED
    BY <1>1, <1>5, <1>6, <1>a, <2>1, <2>2
    DEF QueueSound, Delivery!Ended, Delivery!NotAdded
<1> HIDE DEF row, status
<1>9. ReportsTrue'
  BY <1>1, <1>5, <1>6, <1>a DEF ReportsTrue
<1>10. ~Settled'
  BY <1>5, <1>6, <1>a DEF Settled
<1>11. CASE Settled
  <2>1. Stale' \subseteq Stale
    <3>1. \A v \in Worker : work[v].pc = "send" => ~Holds(v)
      BY <1>1, <1>11 DEF Settled
    <3> QED
      BY <1>1, <3>1 DEF Stale
  <2>2. /\ IsFiniteSet(Stale') /\ Cardinality(Stale') \in Nat
        /\ Cardinality(Stale) \in Nat /\ Cardinality(Stale') <= Cardinality(Stale)
    BY <2>1, FewerStale DEF CopiesBalanced
  <2>3. CopiesBalanced'
    BY <1>1, <1>5, <1>6, <1>b, <1>10, <1>11, <2>2 DEF CopiesBalanced
  <2> QED
    BY <1>7, <1>8, <1>9, <2>3
<1>12. CASE ~Settled
  <2>1. PICK w \in Worker : Holds(w)
    BY <1>1, <1>12 DEF Settled
  <2>2. Stale' \subseteq Stale \cup {w}
    BY <1>1, <2>1 DEF Stale, Holds, Delivery!Holds
  <2>3. /\ IsFiniteSet(Stale') /\ Cardinality(Stale') \in Nat
        /\ Cardinality(Stale) \in Nat /\ Cardinality(Stale') <= Cardinality(Stale) + 1
    BY <2>2, OneMoreStale DEF CopiesBalanced
  <2>4. CopiesBalanced'
    BY <1>1, <1>5, <1>6, <1>b, <1>10, <1>12, <2>3 DEF CopiesBalanced
  <2> QED
    BY <1>7, <1>8, <1>9, <2>4
<1> QED
  BY <1>11, <1>12

LEMMA SendsKeep ==
    ASSUME MailInv, NEW w \in Worker, UNCHANGED <<followed, outbox>>,
           Delivery!Deliver(w) \/ Delivery!LoseAnswer(w) \/ Delivery!Refuse(w)
    PROVE  MailInv'
<1>1. /\ work[w].pc = "send" /\ work[w].job = TheJob
      /\ copies \in [{TheJob} -> Nat] /\ lost \in [{TheJob} -> Nat]
  BY MailTypes DEF MailInv, Delivery!Deliver, Delivery!LoseAnswer, Delivery!Refuse,
     Delivery!TypeOK
<1>2. ASSUME NEW pc \in {"complete", "fail"}, NEW sent \in {0, 1}, NEW missing \in {0, 1},
             work' = [work EXCEPT ![w].pc = pc], UNCHANGED job,
             copies' = [copies EXCEPT ![TheJob] = copies[TheJob] + sent],
             lost' = [lost EXCEPT ![TheJob] = lost[TheJob] + missing],
             IF pc = "complete" THEN sent = 1 /\ missing = 0 ELSE sent = missing
      PROVE  MailInv'
  <2>1. copies[TheJob] \in Nat /\ lost[TheJob] \in Nat
    BY <1>1
  <2>2. /\ copies' \in [{TheJob} -> Nat] /\ lost' \in [{TheJob} -> Nat]
        /\ copies'[TheJob] = copies[TheJob] + sent
        /\ lost'[TheJob] = lost[TheJob] + missing
    BY <1>1, <1>2, <2>1
  <2>3. copies'[TheJob] >= copies[TheJob]
    BY <2>1, <2>2
  <2>4. pc = "complete" =>
          copies'[TheJob] = copies[TheJob] + 1 /\ lost'[TheJob] = lost[TheJob]
    BY <1>2, <2>1, <2>2
  <2>5. pc = "fail" =>
          copies'[TheJob] + lost[TheJob] <= copies[TheJob] + lost'[TheJob]
    BY <1>2, <2>1, <2>2
  <2> QED
    BY <1>1, <1>2, <2>2, <2>3, <2>4, <2>5, SendStep
<1>3. CASE Delivery!Deliver(w)
  BY <1>1, <1>2, <1>3 DEF Delivery!Deliver
<1>4. CASE Delivery!LoseAnswer(w)
  BY <1>1, <1>2, <1>4 DEF Delivery!LoseAnswer
<1>5. CASE Delivery!Refuse(w)
  BY <1>1, <1>2, <1>5 DEF Delivery!Refuse
<1> QED
  BY <1>3, <1>4, <1>5

\* The handlers only add to the outbox.
LEMMA HandlersEnqueue ==
    ASSUME NEW r \in Request, Arrive(r) \/ Continue(r)
    PROVE  outbox \subseteq outbox'
BY DEF Arrive, Continue, CreateExpense, StartReceipt, StartSubmit, StartDecide,
   AttachReceipt, EvaluatePolicies, SubmitExpense, DecideApproval, DecideFinance,
   DecideExpense, WriteAudit, EnqueueMail, LookupFinance, ReportMissingRoute, logs

LEMMA MailStep == MailInv /\ [ReviewNext]_all => MailInv'
<1> SUFFICES ASSUME MailInv, [ReviewNext]_all PROVE MailInv'
  OBVIOUS
<1>1. CASE Deliver
  <2>1. UNCHANGED <<followed, outbox>> /\ Delivery!NextDelivery
    BY <1>1 DEF Deliver, vars, logs
  <2>2. ASSUME NEW w \in Worker, Delivery!Process(w) \/ Delivery!Die(w) PROVE MailInv'
    BY <2>1, <2>2, TakeKeeps, SendsKeep, CompleteKeeps, FailAttemptKeeps, DieKeeps
    DEF Delivery!Process
  <2>3. CASE Delivery!Promote(TheJob) \/ Delivery!Stall(TheJob)
    BY <2>1, <2>3, PromoteKeeps, StallKeeps
  <2> QED
    BY <2>1, <2>2, <2>3 DEF Delivery!NextDelivery
<1>2. ASSUME NEW r \in Request, Arrive(r) \/ Continue(r), Enqueues PROVE MailInv'
  <2>1. outbox \subseteq outbox' /\ UNCHANGED followed
    BY <1>2, HandlersEnqueue DEF Enqueues
  <2>2. CASE followed \in outbox' \ outbox
    BY <1>2, <2>1, <2>2, AddKeeps DEF Enqueues
  <2>3. CASE followed \notin outbox' \ outbox
    BY <1>2, <2>1, <2>3, MailStands DEF Enqueues
  <2> QED
    BY <2>2, <2>3
<1>3. CASE UNCHANGED all
  BY <1>3, MailStands DEF all, vars, logs
<1> QED
  BY <1>1, <1>2, <1>3 DEF ReviewNext

LEMMA MailInvariant == ReviewSpec => []MailInv
  BY MailInit, MailStep, PTL DEF ReviewSpec

\* With any number of handlers and workers, and whatever fails, the mail of a
\* handler leaves the queue only when the provider has taken it, or after every
\* attempt has failed or its worker was lost twice.
THEOREM MailsDoNotVanish == ReviewSpec => []NoMailVanishes
<1>1. MailInv => NoMailVanishes
  BY DEF MailInv, QueueSound, ReportsTrue, Row, NoMailVanishes,
     Delivery!NoMailVanishes, Delivery!Ended
<1> QED
  BY <1>1, MailInvariant, PTL

\* However many workers hold on to a job that they have lost, a mail has one
\* copy, and one more for each lost answer and each stall.
THEOREM CopiesAreAccountedFor == ReviewSpec => []CopiesAccountedFor
<1>1. ASSUME MailInv PROVE CopiesAccountedFor
  <2>1. /\ copies[TheJob] \in Nat /\ lost[TheJob] \in Nat /\ Row.stalls \in 0 .. 2
    BY <1>1, MailTypes DEF MailInv
  <2>2. Cardinality(Stale) \in Nat
    BY <1>1, FS_CardinalityType DEF MailInv, CopiesBalanced
  <2>3. copies[TheJob] <= 1 + lost[TheJob] + Row.stalls
    BY <1>1, <2>1, <2>2 DEF MailInv, CopiesBalanced
  <2> QED
    BY <2>3 DEF CopiesAccountedFor, Delivery!CopiesAccountedFor, Row
<1> QED
  BY <1>1, MailInvariant, PTL

----------------------------------------------------------------------------
(* The log *)

\* A handler that goes on loses no entry.
LEMMA ClaimsKept ==
    ASSUME TypeOK, NEW r \in Request, Arrive(r) \/ Continue(r)
    PROVE  Claimed \subseteq Claimed'
<1>1. \A s \in Request \ {r} : req'[s] = req[s]
  BY OneMoved
<1>2. UNCHANGED audit \/ Writing(r)
  BY DEF Writing, Arrive, Continue, CreateExpense, StartReceipt, StartSubmit, StartDecide,
     AttachReceipt, EvaluatePolicies, SubmitExpense, DecideApproval, DecideFinance,
     DecideExpense, WriteAudit, EnqueueMail, LookupFinance, ReportMissingRoute, logs
<1>3. req[r].pc = "audit" => Writing(r)
  BY DEF Writing, Arrive, Continue, CreateExpense, StartReceipt, StartSubmit, StartDecide,
     AttachReceipt, EvaluatePolicies, SubmitExpense, DecideApproval, DecideFinance,
     DecideExpense, WriteAudit, EnqueueMail, LookupFinance, ReportMissingRoute
<1>4. /\ BagToSet(audit) \subseteq BagToSet(audit)'
      /\ req[r].pc = "audit" => req[r].entry \in BagToSet(audit)'
  <2>1. CASE Writing(r)
    <3>1. BagToSet(audit)' = BagToSet(audit) \cup {req[r].entry}
      BY <2>1, OneRowMore DEF TypeOK, Writing
    <3> QED
      BY <3>1
  <2>2. CASE ~Writing(r)
    BY <1>2, <1>3, <2>2
  <2> QED
    BY <2>1, <2>2
<1> QED
  BY <1>1, <1>4 DEF Claimed

LEMMA LogStep ==
    ASSUME TypeOK, LogHasNoGaps, NEW r \in Request, Arrive(r) \/ Continue(r)
    PROVE  LogHasNoGaps'
<1>1. Claimed = Logged /\ Claimed' = Logged'
  BY DEF Claimed, Logged
<1>2. Logged \subseteq Logged'
  BY <1>1, ClaimsKept
<1>3. CASE UNCHANGED expense
  BY <1>2, <1>3 DEF LogHasNoGaps
<1>4. ASSUME NEW entry \in Logged', Records(entry) PROVE LogHasNoGaps'
  <2> SUFFICES ASSUME NEW e \in Expense, expense'[e].status # "ABSENT",
                      NEW n \in 0 .. expense'[e].version
               PROVE  \E a \in Logged' :
                        a.exp = e /\ a.version = IF n = 0 THEN None ELSE n
    BY DEF LogHasNoGaps
  <2>1. CASE e # entry.exp
    BY <1>2, <1>4, <2>1 DEF LogHasNoGaps, Records
  <2>2. CASE e = entry.exp /\ expense[e].status = "ABSENT"
    <3>1. n = 0 /\ entry.version = None
      BY <1>4, <2>2 DEF Records
    <3> QED
      BY <2>2, <3>1
  <2>3. CASE e = entry.exp /\ expense[e].status # "ABSENT"
    <3>1. /\ expense[e].version \in Nat
          /\ expense'[e].version = expense[e].version + 1
          /\ entry.version = expense'[e].version
      BY <1>4, <2>3 DEF Records, TypeOK, ExpenseRow
    <3>2. CASE n = expense'[e].version
      BY <2>3, <3>1, <3>2
    <3>3. CASE n # expense'[e].version
      <4>1. n \in 0 .. expense[e].version
        BY <3>1, <3>3
      <4> QED
        BY <1>2, <2>3, <4>1 DEF LogHasNoGaps
    <3> QED
      BY <3>2, <3>3
  <2> QED
    BY <2>1, <2>2, <2>3
<1>5. [Next]_vars
  BY DEF Next
<1> QED
  BY <1>1, <1>3, <1>4, <1>5, WritersClaim, OthersClaimNothing

\* However many handlers interleave, as long as none fails between its commit
\* and its entry the log tells every version of every expense.
THEOREM LogIsComplete == ReviewSpec => []LogHasNoGaps
<1>1. ReviewInit => TypeOK /\ LogHasNoGaps
  BY WorkflowInit DEF ReviewInit, InitWorkflow, AbsentExpense, LogHasNoGaps
<1>2. TypeOK /\ LogHasNoGaps /\ [ReviewNext]_all => TypeOK' /\ LogHasNoGaps'
  <2> SUFFICES ASSUME TypeOK, LogHasNoGaps, [ReviewNext]_all
               PROVE  TypeOK' /\ LogHasNoGaps'
    OBVIOUS
  <2>1. CASE UNCHANGED vars
    <3>1. UNCHANGED <<expense, audit, req>>
      BY <2>1 DEF vars, tables, logs
    <3> QED
      BY <2>1, <3>1, TypeStep DEF LogHasNoGaps, Logged
  <2>2. ASSUME NEW r \in Request, Arrive(r) \/ Continue(r)
        PROVE  TypeOK' /\ LogHasNoGaps'
    BY <2>2, LogStep, TypeStep DEF Next
  <2> QED
    BY <2>1, <2>2 DEF ReviewNext, Deliver, all
<1> QED
  BY <1>1, <1>2, PTL DEF ReviewSpec
=============================================================================
