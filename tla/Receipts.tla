------------------------------- MODULE Receipts -------------------------------
(***************************************************************************)
(* How an owner saves an expense with a receipt and submits it: the chain  *)
(* of calls of the Expenses page, the API, and the storage the bytes go to *)
(* directly.                                                               *)
(*                                                                         *)
(* The pages of an owner (tabs, devices) show the list they loaded last    *)
(* and submit from it, while the chain of another page is still under way. *)
(* A request or an answer may be lost at every link.  A page learns of a   *)
(* step only by its answer and uses it only for its next step, so a        *)
(* request, its handling and its answer are one action.  What the API does *)
(* in several steps of its own is the matter of ExpenseWorkflow.           *)
(***************************************************************************)
EXTENDS Naturals

CONSTANTS
    Page, Expense,
    Object,    \* keys of the storage
    File,      \* the receipts saveExpense accepts
    None

ASSUME ReceiptsAssumption == None \notin Page \cup Expense \cup Object \cup File

VARIABLES
    expense,   \* the rows of the owner
    object,    \* what the storage has under a key
    form,      \* the mutation of a page's form
    list,      \* the list a page shows
    submission, \* the row for which a page has pressed Submit
    chosen,    \* history: the receipt of the form that created an expense
    seen       \* history: the row whose Submit button submitted an expense

vars == <<expense, object, form, list, submission, chosen, seen>>

----------------------------------------------------------------------------
Absent  == [status |-> "ABSENT", version |-> 0, receipt |-> None]
Created == [status |-> "DRAFT", version |-> 0, receipt |-> None]
Row == [status : {"ABSENT", "DRAFT", "SUBMITTED"}, version : 0..2,
        receipt : Object \cup {None}]

\* What the updates of completeReceiptUpload and submit make of a row.
Attached(row, o) == [status |-> row.status, version |-> row.version + 1, receipt |-> o]
Submitted(row) ==
    [status |-> "SUBMITTED", version |-> row.version + 1, receipt |-> row.receipt]

FormState ==
    [step : {"idle", "create", "prepare", "upload", "complete"},
     file : File \cup {None}, expense : Expense \cup {None}, object : Object \cup {None}]
NoForm == [step |-> "idle", file |-> None, expense |-> None, object |-> None]
Form(step, f, e, o) == [step |-> step, file |-> f, expense |-> e, object |-> o]

Showing(p, e) == [expense |-> e, row |-> list[p][e]]
NoSubmission == [expense |-> None, row |-> Absent]

\* The last link, or one whose request or answer was lost, ends the mutation.
\* The form stays open, and may be saved again.
Ends(p)  == form' = [form EXCEPT ![p] = NoForm]
Goes(p, next) == form' = [form EXCEPT ![p] = next] \/ Ends(p)

----------------------------------------------------------------------------
(* createExpense.mutationFn *)

Save(p, f) ==
    /\ form[p].step = "idle"
    /\ form' = [form EXCEPT ![p] = Form("create", f, None, None)]
    /\ UNCHANGED <<expense, object, list, submission, chosen, seen>>

Create(p, e) ==
    /\ form[p].step = "create" /\ expense[e] = Absent
    /\ expense' = [expense EXCEPT ![e] = Created]
    /\ chosen' = [chosen EXCEPT ![e] = form[p].file]
    /\ IF form[p].file = None THEN Ends(p)
       ELSE Goes(p, Form("prepare", form[p].file, e, None))
    /\ UNCHANGED <<object, list, submission, seen>>

\* The target has a key of its own.
PrepareUpload(p, o) ==
    LET e == form[p].expense IN
    /\ form[p].step = "prepare"
    /\ expense[e].status = "DRAFT"
    /\ object[o] = None /\ \A q \in Page : form[q].object # o
    /\ Goes(p, Form("upload", form[p].file, e, o))
    /\ UNCHANGED <<expense, object, list, submission, chosen, seen>>

\* Mutant: the response of the storage is not looked at.
Upload_AnyResponse(p) ==
    /\ form[p].step = "upload"
    /\ object' \in {object, [object EXCEPT ![form[p].object] = form[p].file]}
    /\ form' = [form EXCEPT ![p].step = "complete"]
    /\ UNCHANGED <<expense, list, submission, chosen, seen>>

Upload(p) ==
    /\ form[p].step = "upload"
    /\ object' = [object EXCEPT ![form[p].object] = form[p].file]
    /\ Goes(p, Form("complete", form[p].file, form[p].expense, form[p].object))
    /\ UNCHANGED <<expense, list, submission, chosen, seen>>

\* Mutant: attaching a receipt is no new version of the expense.
CompleteUpload_SameVersion(p) ==
    LET e == form[p].expense IN
    /\ form[p].step = "complete"
    /\ expense[e].status = "DRAFT" /\ expense[e].version = Created.version
    /\ expense' = [expense EXCEPT ![e] = [@ EXCEPT !.receipt = form[p].object]]
    /\ Ends(p)
    /\ UNCHANGED <<object, list, submission, chosen, seen>>

\* The version it expects is the one that create has answered.
CompleteUpload(p) ==
    LET e == form[p].expense IN
    /\ form[p].step = "complete"
    /\ expense[e].status = "DRAFT" /\ expense[e].version = Created.version
    /\ expense' = [expense EXCEPT ![e] = Attached(@, form[p].object)]
    /\ Ends(p)
    /\ UNCHANGED <<object, list, submission, chosen, seen>>

\* A link that never happens: the request is lost, the upload fails or comes
\* after the target has expired, or the API refuses.
Break(p) ==
    /\ form[p].step # "idle"
    /\ Ends(p)
    /\ UNCHANGED <<expense, object, list, submission, chosen, seen>>

----------------------------------------------------------------------------
(* The list, and submitExpense *)

Refetch(p) ==
    /\ list' = [list EXCEPT ![p] = expense]
    /\ UNCHANGED <<expense, object, form, submission, chosen, seen>>

PressSubmit(p, e) ==
    /\ submission[p] = NoSubmission
    /\ list[p][e].status = "DRAFT"
    /\ submission' = [submission EXCEPT ![p] = Showing(p, e)]
    /\ UNCHANGED <<expense, object, form, list, chosen, seen>>

Submit(p) ==
    LET e == submission[p].expense
        row == submission[p].row
    IN
    /\ e # None
    /\ expense[e].status = "DRAFT" /\ expense[e].version = row.version
    /\ expense' = [expense EXCEPT ![e] = Submitted(@)]
    /\ seen' = [seen EXCEPT ![e] = row]
    /\ submission' = [submission EXCEPT ![p] = NoSubmission]
    /\ UNCHANGED <<object, form, list, chosen>>

\* A conflict, or a lost request.
SubmitFails(p) ==
    /\ submission[p] # NoSubmission
    /\ submission' = [submission EXCEPT ![p] = NoSubmission]
    /\ UNCHANGED <<expense, object, form, list, chosen, seen>>

----------------------------------------------------------------------------
Init ==
    /\ expense = [e \in Expense |-> Absent]
    /\ object = [o \in Object |-> None]
    /\ form = [p \in Page |-> NoForm]
    /\ list = [p \in Page |-> [e \in Expense |-> Absent]]
    /\ submission = [p \in Page |-> NoSubmission]
    /\ chosen = [e \in Expense |-> None]
    /\ seen = [e \in Expense |-> Absent]

Next == \E p \in Page :
    \/ \E f \in File \cup {None} : Save(p, f)
    \/ \E e \in Expense : Create(p, e) \/ PressSubmit(p, e)
    \/ \E o \in Object : PrepareUpload(p, o)
    \/ Upload(p) \/ CompleteUpload(p) \/ Break(p)
    \/ Refetch(p) \/ Submit(p) \/ SubmitFails(p)

Spec == Init /\ [][Next]_vars

----------------------------------------------------------------------------
TypeOK ==
    /\ expense \in [Expense -> Row]
    /\ object \in [Object -> File \cup {None}]
    /\ form \in [Page -> FormState]
    /\ list \in [Page -> [Expense -> Row]]
    /\ submission \in [Page -> [expense : Expense \cup {None}, row : Row]]
    /\ chosen \in [Expense -> File \cup {None}]
    /\ seen \in [Expense -> Row]

\* The owner submits what the page showed: with exactly the receipt, or without
\* one, that was to be seen beside the Submit button, though the receipt may be
\* attached by another page meanwhile.
SubmittedAsSeen ==
    \A e \in Expense :
        expense[e].status = "SUBMITTED" => expense[e].receipt = seen[e].receipt

\* A receipt that reviewers can open is in the storage, and is the file that the
\* form of this very expense was saved with, whatever link of whatever chain
\* was lost.
ReceiptStored ==
    \A e \in Expense :
        expense[e].receipt # None => object[expense[e].receipt] = chosen[e]
=============================================================================
