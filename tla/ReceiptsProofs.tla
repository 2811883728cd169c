---------------------------- MODULE ReceiptsProofs ----------------------------
(***************************************************************************)
(* Receipts: what an owner submits is what the page showed, and what       *)
(* reviewers open is what was uploaded, for any number of pages, expenses  *)
(* and files.                                                              *)
(***************************************************************************)
EXTENDS Receipts, TLAPS

\* A row that was read earlier: if its version is still the current one, so is
\* its receipt.
OldRow(row, e) ==
    /\ row.version <= expense[e].version
    /\ row.version = expense[e].version => row.receipt = expense[e].receipt

ReadsOld ==
    /\ \A p \in Page, e \in Expense : OldRow(list[p][e], e)
    /\ \A p \in Page : submission[p].expense # None =>
         OldRow(submission[p].row, submission[p].expense)

\* The versions of an expense: a draft is at version 0 until its receipt is
\* attached.
Versions ==
    \A e \in Expense :
        /\ expense[e].status = "ABSENT" => expense[e] = Absent
        /\ expense[e].status = "DRAFT" => expense[e].version <= 1

\* Where the links of a chain are.
Linked(p) ==
    /\ form[p].step \in {"prepare", "upload", "complete"} =>
         /\ form[p].file \in File /\ form[p].expense \in Expense
         /\ expense[form[p].expense].status # "ABSENT"
         /\ form[p].file = chosen[form[p].expense]
    /\ form[p].step \in {"idle", "create", "prepare"} => form[p].object = None
    /\ form[p].step = "upload" =>
         form[p].object \in Object /\ object[form[p].object] = None
    /\ form[p].step = "complete" =>
         form[p].object \in Object /\ object[form[p].object] = form[p].file

\* No two chains have the same key.
OwnKeys ==
    \A p, q \in Page : form[p].object = form[q].object /\ form[p].object # None => p = q

StoredFile ==
    \A e \in Expense : expense[e].receipt # None =>
        object[expense[e].receipt] = chosen[e] /\ chosen[e] \in File

ReceiptsInv ==
    /\ TypeOK /\ ReadsOld /\ Versions /\ OwnKeys /\ StoredFile
    /\ \A p \in Page : Linked(p)
    /\ SubmittedAsSeen
----------------------------------------------------------------------------
LEMMA RowTypes ==
    ASSUME NEW row \in Row, row.version \in 0..1
    PROVE  /\ \A o \in Object \cup {None} : Attached(row, o) \in Row
           /\ Submitted(row) \in Row /\ Created \in Row /\ Absent \in Row
           /\ row.status \in {"ABSENT", "DRAFT", "SUBMITTED"}
BY DEF Row, Attached, Submitted, Created, Absent

\* Before anything is saved there is nothing to be wrong.
LEMMA ReceiptsInit == Init => ReceiptsInv
<1> SUFFICES ASSUME Init PROVE ReceiptsInv
  OBVIOUS
<1>1. TypeOK
  BY DEF Init, TypeOK, Row, Absent, NoForm, FormState, NoSubmission
<1>2. ReadsOld /\ Versions /\ OwnKeys /\ StoredFile
  BY DEF Init, ReadsOld, OldRow, Versions, OwnKeys, StoredFile, Absent, NoForm,
         NoSubmission
<1>3. SubmittedAsSeen /\ \A p \in Page : Linked(p)
  BY DEF Init, SubmittedAsSeen, Linked, Absent, NoForm
<1> QED
  BY <1>1, <1>2, <1>3 DEF ReceiptsInv

\* A form moves, and nothing else does: the mutation starts, ends or is told
\* the target of its upload.
LEMMA FormStep ==
    ASSUME ReceiptsInv, NEW p \in Page, NEW next,
           form' = [form EXCEPT ![p] = next],
           next \in FormState,
           Linked(p)',
           next.object # None => \A q \in Page : form[q].object # next.object,
           UNCHANGED <<expense, object, list, submission, chosen, seen>>
    PROVE  ReceiptsInv'
<1>1. TypeOK'
  BY DEF ReceiptsInv, TypeOK
<1>2. ReadsOld' /\ Versions' /\ StoredFile' /\ SubmittedAsSeen'
  BY DEF ReceiptsInv, ReadsOld, OldRow, Versions, StoredFile, SubmittedAsSeen
<1>3. form'[p] = next /\ \A q \in Page \ {p} : form'[q] = form[q]
  BY DEF ReceiptsInv, TypeOK
<1>4. OwnKeys'
  BY <1>3 DEF ReceiptsInv, OwnKeys
<1>5. \A q \in Page : Linked(q)'
  BY <1>3 DEF ReceiptsInv, Linked
<1> QED
  BY <1>1, <1>2, <1>4, <1>5 DEF ReceiptsInv

LEMMA BreakStep ==
    ASSUME ReceiptsInv, NEW p \in Page, Ends(p),
           UNCHANGED <<expense, object, list, submission, chosen, seen>>
    PROVE  ReceiptsInv'
<1>1. form' = [form EXCEPT ![p] = NoForm]
  BY DEF Ends
<1>2. form'[p] = NoForm
  BY <1>1 DEF ReceiptsInv, TypeOK
<1>3. Linked(p)' /\ NoForm \in FormState /\ NoForm.object = None
  BY <1>2 DEF Linked, NoForm, FormState
<1> QED
  BY <1>1, <1>3, FormStep

LEMMA SaveStep ==
    ASSUME ReceiptsInv, NEW p \in Page, NEW f \in File \cup {None}, Save(p, f)
    PROVE  ReceiptsInv'
<1>1. form'[p] = Form("create", f, None, None)
  BY DEF Save, ReceiptsInv, TypeOK
<1>2. Linked(p)'
  BY <1>1 DEF Linked, Form
<1>3. Form("create", f, None, None) \in FormState /\ Form("create", f, None, None).object = None
  BY DEF Form, FormState
<1> QED
  BY <1>2, <1>3, FormStep DEF Save

LEMMA PrepareStep ==
    ASSUME ReceiptsInv, NEW p \in Page, NEW o \in Object, PrepareUpload(p, o)
    PROVE  ReceiptsInv'
<1>1. CASE Ends(p)
  BY <1>1, BreakStep DEF PrepareUpload
<1>2. CASE form' = [form EXCEPT ![p] = Form("upload", form[p].file, form[p].expense, o)]
  <2> DEFINE next == Form("upload", form[p].file, form[p].expense, o)
  <2>1. form'[p] = next
    BY <1>2 DEF ReceiptsInv, TypeOK
  <2>2. Linked(p)
    BY DEF ReceiptsInv
  <2>3. Linked(p)'
    BY <2>1, <2>2 DEF Linked, Form, PrepareUpload
  <2>4. next \in FormState /\ next.object = o
    BY <2>2 DEF PrepareUpload, Linked, Form, FormState
  <2>5. /\ \A q \in Page : form[q].object # o
        /\ UNCHANGED <<expense, object, list, submission, chosen, seen>>
    BY DEF PrepareUpload
  <2>6. form' = [form EXCEPT ![p] = next]
    BY <1>2
  <2> HIDE DEF next
  <2> QED
    BY <2>3, <2>4, <2>5, <2>6, FormStep
<1> QED
  BY <1>1, <1>2 DEF PrepareUpload, Goes

\* The bytes arrive under a key that no other chain and no expense knows.
LEMMA UploadStep ==
    ASSUME ReceiptsInv, NEW p \in Page, Upload(p)
    PROVE  ReceiptsInv'
<1> DEFINE o == form[p].object
           next == Form("complete", form[p].file, form[p].expense, o)
<1>1. /\ o \in Object /\ object[o] = None
      /\ form[p].file \in File /\ form[p].expense \in Expense
      /\ expense[form[p].expense].status # "ABSENT"
      /\ form[p].file = chosen[form[p].expense]
  BY DEF Upload, ReceiptsInv, Linked
<1>2. object'[o] = form[p].file /\ \A k \in Object \ {o} : object'[k] = object[k]
  BY <1>1 DEF Upload, ReceiptsInv, TypeOK
<1>3. form'[p] \in {next, NoForm} /\ \A q \in Page \ {p} : form'[q] = form[q]
  BY DEF Upload, Goes, Ends, ReceiptsInv, TypeOK
<1>4. TypeOK'
  <2>1. next \in FormState /\ NoForm \in FormState
    BY <1>1 DEF Form, NoForm, FormState
  <2>2. form' = [form EXCEPT ![p] = next] \/ form' = [form EXCEPT ![p] = NoForm]
    BY DEF Upload, Goes, Ends
  <2>3. form' \in [Page -> FormState]
    BY <2>1, <2>2 DEF ReceiptsInv, TypeOK
  <2> QED
    BY <1>1, <2>3 DEF Upload, ReceiptsInv, TypeOK
<1>5. ReadsOld' /\ Versions' /\ SubmittedAsSeen'
  BY DEF Upload, ReceiptsInv, ReadsOld, OldRow, Versions, SubmittedAsSeen
<1>6. OwnKeys'
  BY <1>3 DEF ReceiptsInv, OwnKeys, Form, NoForm
<1>7. StoredFile'
  <2> SUFFICES ASSUME NEW e \in Expense, expense[e].receipt # None
               PROVE  object'[expense[e].receipt] = chosen[e] /\ chosen[e] \in File
    BY DEF StoredFile, Upload
  <2>1. object[expense[e].receipt] = chosen[e] /\ chosen[e] \in File
    BY DEF ReceiptsInv, StoredFile
  <2>2. expense[e].receipt \in Object
    BY DEF ReceiptsInv, TypeOK, Row
  <2>3. expense[e].receipt # o
    BY <1>1, <2>1, ReceiptsAssumption
  <2> QED
    BY <1>2, <2>1, <2>2, <2>3
<1>8. ASSUME NEW q \in Page PROVE Linked(q)'
  <2>1. CASE q = p
    BY <1>1, <1>2, <1>3, <2>1 DEF Linked, Form, NoForm, Upload
  <2>2. CASE q # p
    <3>1. form[q].object # o
      BY <1>1, <2>2, ReceiptsAssumption DEF ReceiptsInv, OwnKeys
    <3> QED
      BY <1>2, <1>3, <2>2, <3>1 DEF ReceiptsInv, Linked, Upload
  <2> QED
    BY <2>1, <2>2
<1> QED
  BY <1>4, <1>5, <1>6, <1>7, <1>8 DEF ReceiptsInv

\* The row of one expense is written, by an update that its version guards.
LEMMA RowStep ==
    ASSUME ReceiptsInv, NEW e \in Expense, NEW row \in Row,
           expense' = [expense EXCEPT ![e] = row],
           \/ row.version > expense[e].version
           \/ row.version = expense[e].version /\ row.receipt = expense[e].receipt,
           row.status # "ABSENT", row.status = "DRAFT" => row.version <= 1,
           UNCHANGED list,
           \A p \in Page : submission'[p] \in {submission[p], NoSubmission}
    PROVE  /\ \A d \in Expense \ {e} : expense'[d] = expense[d]
           /\ expense'[e] = row
           /\ expense' \in [Expense -> Row] /\ ReadsOld' /\ Versions'
<1>1. expense'[e] = row /\ \A d \in Expense \ {e} : expense'[d] = expense[d]
  BY DEF ReceiptsInv, TypeOK
<1>2. expense' \in [Expense -> Row]
  BY DEF ReceiptsInv, TypeOK
<1>3. Versions'
  BY <1>1 DEF ReceiptsInv, Versions
<1>4. ASSUME NEW d \in Expense, NEW old \in Row, OldRow(old, d)
      PROVE  OldRow(old, d)'
  <2>1. /\ old.version \in 0..2 /\ row.version \in 0..2
        /\ expense[d].version \in 0..2 /\ expense[e].version \in 0..2
    BY DEF ReceiptsInv, TypeOK, Row
  <2>2. CASE d = e
    BY <1>1, <1>4, <2>1, <2>2 DEF OldRow
  <2>3. CASE d # e
    BY <1>1, <1>4, <2>3 DEF OldRow
  <2> QED
    BY <2>2, <2>3
<1>5. ReadsOld'
  <2>1. \A p \in Page, d \in Expense : OldRow(list[p][d], d)'
    BY <1>4 DEF ReceiptsInv, TypeOK, ReadsOld
  <2>2. ASSUME NEW p \in Page, submission'[p].expense # None
        PROVE  OldRow(submission[p].row, submission[p].expense)'
               /\ submission'[p] = submission[p]
    BY <1>4, <2>2 DEF ReceiptsInv, TypeOK, ReadsOld, NoSubmission
  <2> QED
    BY <2>1, <2>2 DEF ReadsOld, OldRow
<1> QED
  BY <1>1, <1>2, <1>3, <1>5

LEMMA CreateStep ==
    ASSUME ReceiptsInv, NEW p \in Page, NEW e \in Expense, Create(p, e)
    PROVE  ReceiptsInv'
<1> DEFINE next == Form("prepare", form[p].file, e, None)
<1>1. /\ Created \in Row /\ expense[e] = Absent
      /\ Created.status = "DRAFT" /\ Created.version = 0 /\ Created.receipt = None
      /\ Absent.version = 0 /\ Absent.receipt = None
  BY DEF Created, Absent, Row, Create
<1>2. /\ \A d \in Expense \ {e} : expense'[d] = expense[d]
      /\ expense'[e] = Created
      /\ expense' \in [Expense -> Row] /\ ReadsOld' /\ Versions'
  <2>1. /\ expense' = [expense EXCEPT ![e] = Created]
        /\ UNCHANGED <<list, submission>>
    BY DEF Create
  <2>2. \A q \in Page : submission'[q] \in {submission[q], NoSubmission}
    BY <2>1
  <2>3. /\ Created.version = expense[e].version /\ Created.receipt = expense[e].receipt
        /\ Created.status # "ABSENT" /\ Created.version <= 1
    BY <1>1
  <2> QED
    BY <1>1, <2>1, <2>2, <2>3, RowStep
<1>3. form[p].file \in File \cup {None} /\ form[p].step = "create"
  BY DEF Create, ReceiptsInv, TypeOK, FormState
<1>4. /\ \A q \in Page \ {p} : form'[q] = form[q]
      /\ \/ form'[p] = NoForm
         \/ form'[p] = next /\ form[p].file # None
  BY DEF Create, Goes, Ends, ReceiptsInv, TypeOK
<1>5. chosen'[e] = form[p].file /\ \A d \in Expense \ {e} : chosen'[d] = chosen[d]
  BY DEF Create, ReceiptsInv, TypeOK
<1>6. TypeOK'
  <2>1. next \in FormState /\ NoForm \in FormState
    BY <1>3 DEF Form, NoForm, FormState
  <2>2. form' = [form EXCEPT ![p] = next] \/ form' = [form EXCEPT ![p] = NoForm]
    BY DEF Create, Goes, Ends
  <2>3. form' \in [Page -> FormState]
    BY <2>1, <2>2 DEF ReceiptsInv, TypeOK
  <2> QED
    BY <1>2, <1>3, <2>3 DEF Create, ReceiptsInv, TypeOK
<1>7. OwnKeys'
  BY <1>4 DEF ReceiptsInv, OwnKeys, Form, NoForm
<1>8. StoredFile'
  BY <1>1, <1>2, <1>5 DEF ReceiptsInv, StoredFile, Created, Create
<1>9. ASSUME NEW q \in Page PROVE Linked(q)'
  <2>1. CASE q = p
    BY <1>2, <1>3, <1>4, <1>5, <2>1 DEF Linked, Form, NoForm, Created
  <2>2. CASE q # p
    <3>1. Linked(q) /\ form'[q] = form[q] /\ object' = object
      BY <1>4, <2>2 DEF ReceiptsInv, Create
    <3>2. form[q].step \in {"prepare", "upload", "complete"} => form[q].expense # e
      BY <1>1, <3>1 DEF Linked, Absent
    <3> QED
      BY <1>2, <1>5, <3>1, <3>2 DEF Linked
  <2> QED
    BY <2>1, <2>2
<1>10. SubmittedAsSeen'
  BY <1>2 DEF ReceiptsInv, SubmittedAsSeen, Created, Create
<1> QED
  BY <1>2, <1>6, <1>7, <1>8, <1>9, <1>10 DEF ReceiptsInv

LEMMA CompleteStep ==
    ASSUME ReceiptsInv, NEW p \in Page, CompleteUpload(p)
    PROVE  ReceiptsInv'
<1> DEFINE e == form[p].expense
           o == form[p].object
<1>1. /\ e \in Expense /\ o \in Object
      /\ object[o] = form[p].file /\ form[p].file = chosen[e] /\ form[p].file \in File
  BY DEF CompleteUpload, ReceiptsInv, Linked
<1>2. expense[e] \in Row /\ expense[e].version = 0 /\ expense[e].status = "DRAFT"
  BY <1>1 DEF CompleteUpload, ReceiptsInv, TypeOK, Created
<1>3. /\ Attached(expense[e], o) \in Row
      /\ Attached(expense[e], o).version = 1 /\ Attached(expense[e], o).receipt = o
      /\ Attached(expense[e], o).status = "DRAFT"
  BY <1>1, <1>2 DEF Attached, Row
<1>4. expense' = [expense EXCEPT ![e] = Attached(expense[e], o)]
  BY <1>1 DEF CompleteUpload, ReceiptsInv, TypeOK
<1> DEFINE row == Attached(expense[e], o)
<1> HIDE DEF e, o
<1>5. /\ \A d \in Expense \ {e} : expense'[d] = expense[d]
      /\ expense'[e] = Attached(expense[e], o)
      /\ expense' \in [Expense -> Row] /\ ReadsOld' /\ Versions'
  <2>1. UNCHANGED <<list, submission>>
    BY DEF CompleteUpload
  <2>2. /\ row \in Row /\ row.version > expense[e].version
        /\ row.status # "ABSENT" /\ row.version <= 1
    BY <1>2, <1>3
  <2>3. expense' = [expense EXCEPT ![e] = row]
    BY <1>4
  <2>4. \A q \in Page : submission'[q] \in {submission[q], NoSubmission}
    BY <2>1
  <2> HIDE DEF row
  <2>5. /\ \A d \in Expense \ {e} : expense'[d] = expense[d]
        /\ expense'[e] = row
        /\ expense' \in [Expense -> Row] /\ ReadsOld' /\ Versions'
    BY <1>1, <2>1, <2>2, <2>3, <2>4, RowStep
  <2> QED
    BY <2>5 DEF row
<1>6. form'[p] = NoForm /\ \A q \in Page \ {p} : form'[q] = form[q]
  BY DEF CompleteUpload, Ends, ReceiptsInv, TypeOK
<1>7. TypeOK'
  BY <1>5 DEF CompleteUpload, Ends, NoForm, FormState, ReceiptsInv, TypeOK
<1>8. OwnKeys'
  BY <1>6 DEF ReceiptsInv, OwnKeys, NoForm
<1>9. StoredFile'
  BY <1>1, <1>3, <1>5 DEF ReceiptsInv, StoredFile, CompleteUpload
<1>10. ASSUME NEW q \in Page PROVE Linked(q)'
  BY <1>2, <1>3, <1>5, <1>6 DEF ReceiptsInv, Linked, NoForm, CompleteUpload
<1>11. SubmittedAsSeen'
  BY <1>3, <1>5 DEF ReceiptsInv, SubmittedAsSeen, CompleteUpload
<1> QED
  BY <1>5, <1>7, <1>8, <1>9, <1>10, <1>11 DEF ReceiptsInv

LEMMA SubmitStep ==
    ASSUME ReceiptsInv, NEW p \in Page, Submit(p)
    PROVE  ReceiptsInv'
<1> DEFINE e == submission[p].expense
           row == submission[p].row
<1>1. e \in Expense /\ row \in Row /\ OldRow(row, e)
  BY DEF Submit, ReceiptsInv, TypeOK, ReadsOld
<1>2. /\ expense[e] \in Row /\ expense[e].version \in 0..1
      /\ expense[e].status = "DRAFT" /\ expense[e].version = row.version
  BY <1>1 DEF Submit, ReceiptsInv, TypeOK, Row, Versions
<1>3. /\ Submitted(expense[e]) \in Row
      /\ Submitted(expense[e]).version > expense[e].version
      /\ Submitted(expense[e]).receipt = expense[e].receipt
      /\ Submitted(expense[e]).status = "SUBMITTED"
  BY <1>2 DEF Submitted, Row
<1>4. /\ expense' = [expense EXCEPT ![e] = Submitted(expense[e])]
      /\ seen' = [seen EXCEPT ![e] = row]
  BY <1>1 DEF Submit, ReceiptsInv, TypeOK
<1> HIDE DEF e, row
<1>5. \A q \in Page : submission'[q] \in {submission[q], NoSubmission}
  BY DEF Submit, ReceiptsInv, TypeOK
<1>6. /\ \A d \in Expense \ {e} : expense'[d] = expense[d]
      /\ expense'[e] = Submitted(expense[e])
      /\ expense' \in [Expense -> Row] /\ ReadsOld' /\ Versions'
  <2>1. UNCHANGED list
    BY DEF Submit
  <2> QED
    BY <1>1, <1>3, <1>4, <1>5, <2>1, RowStep
<1>7. seen' \in [Expense -> Row] /\ seen'[e] = row
      /\ \A d \in Expense \ {e} : seen'[d] = seen[d]
  BY <1>1, <1>4 DEF ReceiptsInv, TypeOK
<1>8. TypeOK'
  <2>1. NoSubmission \in [expense : Expense \cup {None}, row : Row]
    BY DEF NoSubmission, Absent, Row
  <2> QED
    BY <1>6, <1>7, <2>1 DEF Submit, ReceiptsInv, TypeOK
<1>9. OwnKeys'
  BY DEF ReceiptsInv, OwnKeys, Submit
<1>10. StoredFile'
  BY <1>1, <1>3, <1>6 DEF ReceiptsInv, StoredFile, Submit
<1>11. ASSUME NEW q \in Page PROVE Linked(q)'
  BY <1>3, <1>6 DEF ReceiptsInv, Linked, Submit
<1>12. SubmittedAsSeen'
  BY <1>1, <1>2, <1>3, <1>6, <1>7 DEF ReceiptsInv, SubmittedAsSeen, OldRow
<1> QED
  BY <1>6, <1>8, <1>9, <1>10, <1>11, <1>12 DEF ReceiptsInv

\* What the pages read.
LEMMA ReadStep ==
    ASSUME ReceiptsInv, NEW p \in Page,
           Refetch(p) \/ SubmitFails(p) \/ \E e \in Expense : PressSubmit(p, e)
    PROVE  ReceiptsInv'
<1>1. UNCHANGED <<expense, object, form, chosen, seen>>
  BY DEF Refetch, SubmitFails, PressSubmit
<1>2. Versions' /\ OwnKeys' /\ StoredFile' /\ SubmittedAsSeen' /\ \A q \in Page : Linked(q)'
  BY <1>1 DEF ReceiptsInv, Versions, OwnKeys, StoredFile, SubmittedAsSeen, Linked
<1>3. CASE Refetch(p)
  <2>1. TypeOK'
    BY <1>3 DEF Refetch, ReceiptsInv, TypeOK
  <2>2. ASSUME NEW e \in Expense PROVE OldRow(expense[e], e)
    <3>1. expense[e] \in Row
      BY DEF ReceiptsInv, TypeOK
    <3>2. expense[e].version \in 0..2
      BY <3>1 DEF Row
    <3>3. expense[e].version <= expense[e].version
      BY <3>2
    <3> QED
      BY <3>3 DEF OldRow
  <2>3. ASSUME NEW q \in Page, NEW e \in Expense PROVE OldRow(list'[q][e], e)
    BY <1>3, <2>2 DEF Refetch, ReceiptsInv, TypeOK, ReadsOld
  <2>4. ReadsOld'
    BY <1>3, <2>3 DEF Refetch, ReceiptsInv, ReadsOld, OldRow
  <2> QED
    BY <1>2, <2>1, <2>4 DEF ReceiptsInv
<1>4. CASE SubmitFails(p)
  <2>1. TypeOK'
    BY <1>4 DEF SubmitFails, NoSubmission, Absent, Row, ReceiptsInv, TypeOK
  <2>2. ReadsOld'
    BY <1>4 DEF SubmitFails, NoSubmission, ReceiptsInv, TypeOK, ReadsOld, OldRow
  <2> QED
    BY <1>2, <2>1, <2>2 DEF ReceiptsInv
<1>5. ASSUME NEW e \in Expense, PressSubmit(p, e) PROVE ReceiptsInv'
  <2>1. TypeOK'
    BY <1>5 DEF PressSubmit, Showing, ReceiptsInv, TypeOK
  <2>2. ReadsOld'
    BY <1>5 DEF PressSubmit, Showing, ReceiptsInv, TypeOK, ReadsOld, OldRow
  <2> QED
    BY <1>2, <2>1, <2>2 DEF ReceiptsInv
<1> QED
  BY <1>3, <1>4, <1>5

LEMMA ReceiptsStep == ReceiptsInv /\ [Next]_vars => ReceiptsInv'
<1> SUFFICES ASSUME ReceiptsInv, [Next]_vars PROVE ReceiptsInv'
  OBVIOUS
<1>1. CASE UNCHANGED vars
  BY <1>1 DEF vars, ReceiptsInv, TypeOK, ReadsOld, OldRow, Versions, OwnKeys, StoredFile,
              SubmittedAsSeen, Linked
<1>2. ASSUME NEW p \in Page, NEW f \in File \cup {None}, Save(p, f) PROVE ReceiptsInv'
  BY <1>2, SaveStep
<1>3. ASSUME NEW p \in Page, NEW e \in Expense, Create(p, e) PROVE ReceiptsInv'
  BY <1>3, CreateStep
<1>4. ASSUME NEW p \in Page, NEW o \in Object, PrepareUpload(p, o) PROVE ReceiptsInv'
  BY <1>4, PrepareStep
<1>5. ASSUME NEW p \in Page, Upload(p) PROVE ReceiptsInv'
  BY <1>5, UploadStep
<1>6. ASSUME NEW p \in Page, CompleteUpload(p) PROVE ReceiptsInv'
  BY <1>6, CompleteStep
<1>7. ASSUME NEW p \in Page, Break(p) PROVE ReceiptsInv'
  BY <1>7, BreakStep DEF Break
<1>8. ASSUME NEW p \in Page, Submit(p) PROVE ReceiptsInv'
  BY <1>8, SubmitStep
<1>9. ASSUME NEW p \in Page,
             Refetch(p) \/ SubmitFails(p) \/ \E e \in Expense : PressSubmit(p, e)
      PROVE  ReceiptsInv'
  BY <1>9, ReadStep
<1> QED
  BY <1>1, <1>2, <1>3, <1>4, <1>5, <1>6, <1>7, <1>8, <1>9 DEF Next

LEMMA ReceiptsInvariant == Spec => []ReceiptsInv
<1> QED
  BY ReceiptsInit, ReceiptsStep, PTL DEF Spec

\* The rows, the storage and the pages are well typed: a row refers to a key of
\* the storage, whatever link of a chain breaks.
THEOREM TypeCorrect == Spec => []TypeOK
<1>1. ReceiptsInv => TypeOK
  BY DEF ReceiptsInv
<1> QED
  BY <1>1, ReceiptsInvariant, PTL

\* An expense is submitted with what the page of its owner showed.
THEOREM OwnersSubmitWhatTheySee == Spec => []SubmittedAsSeen
<1>1. ReceiptsInv => SubmittedAsSeen
  BY DEF ReceiptsInv
<1> QED
  BY <1>1, ReceiptsInvariant, PTL

\* The receipt of an expense is the stored file of its form.
THEOREM ReceiptsAreStored == Spec => []ReceiptStored
<1>1. ReceiptsInv => ReceiptStored
  BY DEF ReceiptsInv, StoredFile, ReceiptStored
<1> QED
  BY <1>1, ReceiptsInvariant, PTL
=============================================================================
