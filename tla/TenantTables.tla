---------------------------- MODULE TenantTables ----------------------------
(***************************************************************************)
(* What withTenant amounts to: every organization has a table of its own.  *)
(* A client is served out of one table, which only clients of that         *)
(* organization change.  There are no connections, no setting, no policy   *)
(* of rows and no filter.                                                  *)
(***************************************************************************)
CONSTANTS
    Org, Expense, Request,
    Selected,  \* [Sum -> SUBSET Status]: what each statement of a report finds
    Moves      \* pairs of statuses: what a change may do

VARIABLES
    table,   \* [Org -> [Expense -> Status]]
    client   \* what each client is being told

tables == <<table, client>>

Sum == DOMAIN Selected

Away == [does |-> "nothing"]
Reading(org, left, sums) ==
    [does |-> "read", org |-> org, left |-> left, sums |-> sums]
Writing(org) == [does |-> "write", org |-> org]
Told(org, sums) == [does |-> "show", org |-> org, sums |-> sums]

Becomes(r, state) == client' = [client EXCEPT ![r] = state]

----------------------------------------------------------------------------
Open(r) ==
    /\ client[r] = Away
    /\ \E org \in Org :
          \/ Becomes(r, Reading(org, Sum, [s \in Sum |-> {}]))
          \/ Becomes(r, Writing(org))
    /\ UNCHANGED table

\* One statement, at its own moment, over the table of the client.
Look(r) ==
    LET c == client[r] IN
    /\ c.does = "read"
    /\ \E s \in c.left :
          LET found == {e \in Expense : table[c.org][e] \in Selected[s]} IN
          Becomes(r, Reading(c.org, c.left \ {s}, [c.sums EXCEPT ![s] = found]))
    /\ UNCHANGED table

Show(r) ==
    /\ client[r].does = "read" /\ client[r].left = {}
    /\ Becomes(r, Told(client[r].org, client[r].sums))
    /\ UNCHANGED table

Change(r) ==
    LET org == client[r].org IN
    /\ client[r].does = "write"
    /\ Becomes(r, Away)
    /\ \E e \in Expense, move \in Moves :
          /\ table[org][e] = move[1]
          /\ table' = [table EXCEPT ![org] = [table[org] EXCEPT ![e] = move[2]]]

\* Answered, or given up.
Leave(r) == client[r] # Away /\ Becomes(r, Away) /\ UNCHANGED table

----------------------------------------------------------------------------
Init ==
    /\ table = [org \in Org |-> [e \in Expense |-> "ABSENT"]]
    /\ client = [r \in Request |-> Away]

Next ==
    \E r \in Request : Leave(r) \/ Open(r) \/ Look(r) \/ Show(r) \/ Change(r)

Spec == Init /\ [][Next]_tables
=============================================================================
