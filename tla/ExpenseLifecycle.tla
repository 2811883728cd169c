-------------------------- MODULE ExpenseLifecycle --------------------------
(***************************************************************************)
(* What the approval workflow promises of an expense, without requests,    *)
(* versions or tables: it is drafted, submitted once for the levels of     *)
(* review its policies ask for, reviewed one level at a time with the      *)
(* manager first, and then approved or refused for good.                   *)
(***************************************************************************)
EXTENDS FiniteSets

CONSTANT Expense

VARIABLES
    stage,       \* where the expense is in its life
    outstanding  \* the levels of review it still needs

Level == {"MANAGER", "FINANCE"}

Stage == {"absent", "draft", "review", "approved", "refused"}

TypeOK ==
    /\ stage \in [Expense -> Stage]
    /\ outstanding \in [Expense -> SUBSET Level]

Init ==
    /\ stage = [e \in Expense |-> "absent"]
    /\ outstanding = [e \in Expense |-> {}]

\* The level whose turn it is.
Turn(levels) == IF "MANAGER" \in levels THEN "MANAGER" ELSE "FINANCE"

\* The expense needs exactly these levels from now on.
Await(e, levels) ==
    /\ stage' = [stage EXCEPT ![e] = IF levels = {} THEN "approved" ELSE "review"]
    /\ outstanding' = [outstanding EXCEPT ![e] = levels]

Refuse(e) ==
    /\ stage' = [stage EXCEPT ![e] = "refused"]
    /\ outstanding' = [outstanding EXCEPT ![e] = {}]

Draft(e) ==
    /\ stage[e] = "absent"
    /\ stage' = [stage EXCEPT ![e] = "draft"]
    /\ UNCHANGED outstanding

SubmitForReview(e) ==
    stage[e] = "draft" /\ \E levels \in SUBSET Level : Await(e, levels)

RefuseByPolicy(e) == stage[e] = "draft" /\ Refuse(e)

Approve(e) ==
    /\ stage[e] = "review"
    /\ Await(e, outstanding[e] \ {Turn(outstanding[e])})

Reject(e) == stage[e] = "review" /\ Refuse(e)

Next ==
    \E e \in Expense :
        \/ Draft(e)
        \/ SubmitForReview(e)
        \/ RefuseByPolicy(e)
        \/ Approve(e)
        \/ Reject(e)

Spec == Init /\ [][Next]_<<stage, outstanding>>
=============================================================================
