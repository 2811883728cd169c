------------------------------ MODULE MCReceipts ------------------------------
(* An instance of Receipts for TLC. *)
EXTENDS Receipts, TLC

Symmetry == Permutations(Page) \cup Permutations(Expense)
            \cup Permutations(Object) \cup Permutations(File)
=============================================================================
