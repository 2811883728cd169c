SPECIFICATION Spec
SYMMETRY Symmetry
CONSTANTS
    None = None
    Page = {p1, p2}
    Expense = {e1, e2}
    Object = {o1, o2}
    File = {f1, f2}
INVARIANTS
    SubmittedAsSeen
    ReceiptStored
