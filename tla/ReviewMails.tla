---------------------------- MODULE ReviewMails ----------------------------
(***************************************************************************)
(* The handlers of ExpenseWorkflow on a day when none of them fails,       *)
(* together with the delivery of one of their mails: EnqueueMail puts its  *)
(* job in the queue, and from then on attempts fail, answers get lost and  *)
(* workers die as MailDelivery has it.  Jobs share nothing but the         *)
(* workers, so the mail that is followed may be any of them.               *)
(***************************************************************************)
EXTENDS ExpenseWorkflow

CONSTANTS
    Followable,  \* the mails of which one is followed
    TheJob,      \* its job
    Worker, NoWorker, Provider

ASSUME WorkerAssumption == NoWorker \notin Worker

VARIABLES followed, job, work, copies, lost

Delivery == INSTANCE MailDelivery WITH Job <- {TheJob}

mailing == <<job, work, copies, lost>>
all == <<vars, followed, mailing>>

ReviewInit ==
    /\ policies \in SUBSET PolicyRow
    /\ InitWorkflow
    /\ followed \in Followable
    /\ Delivery!InitDelivery

\* The step of a handler that enqueues the followed mail adds its job.
Enqueues ==
    /\ IF followed \in outbox' \ outbox
       THEN Delivery!Add({TheJob})
       ELSE UNCHANGED mailing
    /\ UNCHANGED followed

Deliver == Delivery!NextDelivery /\ UNCHANGED <<vars, followed>>

ReviewNext == Deliver \/ \E r \in Request : (Arrive(r) \/ Continue(r)) /\ Enqueues

\* Handlers go on as long as the database and the queue answer; PostgreSQL
\* grants a row lock in the order of the waiters, so an update is not passed
\* over for ever.  Workers take jobs and finish them, the timers of the queue
\* fire, and a job that nobody holds is found.
ReviewFairness ==
    /\ \A r \in Request :
          /\ WF_all(Continue(r) /\ Enqueues)
          /\ SF_all(DecideApproval(r) /\ Enqueues)
    /\ \A w \in Worker :
          WF_all(Delivery!Process(w) /\ UNCHANGED <<vars, followed>>)
    /\ WF_all(Delivery!Promote(TheJob) /\ UNCHANGED <<vars, followed>>)
    /\ WF_all(Delivery!Abandoned(TheJob) /\ UNCHANGED <<vars, followed>>)

ReviewSpec == ReviewInit /\ [][ReviewNext]_all /\ ReviewFairness

----------------------------------------------------------------------------
\* A mail that is no longer in the queue was taken by the provider, or was
\* given up after every attempt failed or its worker was lost twice.
NoMailVanishes == Delivery!NoMailVanishes

\* A mail is sent again only for a lost answer or a lost lock, once for each.
CopiesAccountedFor == Delivery!CopiesAccountedFor

\* The provider took the followed mail, or the queue gave it up.
DoneWith(mail) ==
    /\ mail = followed
    /\ copies[TheJob] > 0 \/ job[TheJob].status = "failed"

\* The entries of the log, and those that handlers are about to write.
Logged == BagToSet(audit) \cup {req[r].entry : r \in {s \in Request : req[s].pc = "audit"}}

\* When no handler fails, the log has no gaps: whatever overtakes what, every
\* version that an expense has been through has its entry, or a handler that is
\* about to write it.
LogHasNoGaps ==
    \A e \in Expense :
        expense[e].status # "ABSENT" =>
            \A n \in 0 .. expense[e].version :
                \E a \in Logged :
                    /\ a.exp = e
                    /\ a.version = IF n = 0 THEN None ELSE n

ReviewMail(e, level) ==
    [type |-> "approval.requested", exp |-> e, status |-> Awaiting(level),
     to |-> approval[e][level].approver]

OutcomeMail(e) ==
    [type |-> "expense.decision", exp |-> e, status |-> expense[e].status,
     to |-> expense[e].owner]

\* When no handler fails, the approver of a level that an expense waits for is
\* sent the mail that asks for a review, or the queue gives the mail up after
\* its last attempt, unless the level is decided before that.
ReviewersAreMailed ==
    \A e \in Expense, level \in Level :
        expense[e].status = Awaiting(level) /\ ReviewMail(e, level) = followed
        ~> expense[e].status # Awaiting(level) \/ DoneWith(followed)

\* When no handler fails, the owner of an expense that an approver has decided
\* is sent the outcome, or the queue gives that mail up.
OwnersAreMailed ==
    \A e \in Expense :
        /\ expense[e].status \in Verdict
        /\ \E level \in Level : approval[e][level].status = expense[e].status
        /\ OutcomeMail(e) = followed
        ~> DoneWith(followed)
=============================================================================
