---------------------------- MODULE MCReviewMails ----------------------------
(* An instance of ReviewMails for TLC. *)
EXTENDS ReviewMails, MCExpenseWorkflow

\* The mail a manager's approval hands over to finance, and the last one.
MCFollowable ==
    {[type |-> "approval.requested", exp |-> e1, to |-> fay,
      status |-> "PENDING_FINANCE"],
     [type |-> "expense.decision", exp |-> e1, to |-> emma,
      status |-> "APPROVED"]}
=============================================================================
