------------------------- MODULE TenantContextProofs -------------------------
(***************************************************************************)
(* Proofs about TenantContext, for any number of organizations, pooled     *)
(* connections, concurrent transactions and expenses.                      *)
(***************************************************************************)
EXTENDS TenantContext, Integers, TLAPS

\* A connection serves one transaction at a time.
ConnectionsExclusive ==
    \A r, s \in Request :
        /\ tx[r].pc \in Connected /\ tx[s].pc \in Connected
        /\ tx[r].conn = tx[s].conn
        => r = s

\* The setting of a connection is that of the transaction it serves, from its
\* set_config on, and is blank at any other time.
SettingsRight ==
    /\ \A r \in Request : tx[r].pc \in Open => setting[tx[r].conn] = tx[r].org
    /\ \A c \in Connection :
          ~(\E r \in Request : tx[r].pc \in Open /\ tx[r].conn = c)
            => setting[c] \in Blank

\* The rows that are not there have no organization.
RowsOwned ==
    \A e \in Expense :
        IF expense[e].status = "ABSENT" THEN expense[e].org = NoOrg
                                        ELSE expense[e].org \in Org

\* The row that a transaction has written and locked is as it was then.
WritesSound ==
    \A r \in Request :
        tx[r].pc = "written" =>
            /\ tx[r].status \in Successors(expense[tx[r].exp].status)
            /\ \/ expense[tx[r].exp].status = "ABSENT"
               \/ expense[tx[r].exp].org = tx[r].org
            /\ \A s \in Request :
                  tx[s].pc = "written" /\ tx[s].exp = tx[r].exp => s = r

TenantInv ==
    TypeOK /\ ConnectionsExclusive /\ SettingsRight /\ RowsOwned /\ WritesSound

----------------------------------------------------------------------------
(* Types *)

LEMMA ReportType ==
    ASSUME NEW q, NEW left \in SUBSET Sum, NEW sums \in [Sum -> SUBSET Expense],
           NEW began \in [Expense -> Status],
           q.conn \in Connection, q.org \in Org
    PROVE  Report(q, left, sums, began)
             \in [pc : {"report"}, conn : Connection, org : Org, left : SUBSET Sum,
                  sums : [Sum -> SUBSET Expense], began : [Expense -> Status]]
BY DEF Report

\* The fields of a transaction in each of its states.
LEMMA Fields ==
    ASSUME TypeOK, NEW r \in Request
    PROVE
    /\ tx[r] \in Transaction
    /\ tx[r].pc \in {"idle", "closed", "begun", "report", "write", "written", "answer"}
    /\ tx[r].pc \in Connected => tx[r].conn \in Connection /\ tx[r].org \in Org
    /\ tx[r].pc = "report" =>
         tx[r] \in [pc : {"report"}, conn : Connection, org : Org, left : SUBSET Sum,
                    sums : [Sum -> SUBSET Expense], began : [Expense -> Status]]
    /\ tx[r].pc = "written" => tx[r].exp \in Expense /\ tx[r].status \in Status
    /\ tx[r].pc = "answer" =>
         tx[r] \in [pc : {"answer"}, org : Org, sums : [Sum -> SUBSET Expense],
                    began : [Expense -> Status]]
BY DEF TypeOK, Transaction, Connected, Idle

LEMMA OpenedFacts ==
    ASSUME TypeOK, NEW q, q.conn \in Connection, q.org \in Org
    PROVE  /\ Opened(q) \in Transaction
           /\ Opened(q).pc \in {"report", "write"}
           /\ Opened(q).conn = q.conn /\ Opened(q).org = q.org
           /\ q.work = "report" =>
                Opened(q) = Report(q, Sum, [s \in Sum |-> {}],
                                   [e \in Expense |-> expense[e].status])
           /\ q.work # "report" => Opened(q).pc = "write"
<1>1. [e \in Expense |-> expense[e].status] \in [Expense -> Status]
  BY DEF TypeOK, Row
<1>2. CASE q.work = "report"
  <2> DEFINE began == [e \in Expense |-> expense[e].status]
             sums == [s \in Sum |-> {}]
             left == Sum
  <2>1. left \in SUBSET Sum /\ sums \in [Sum -> SUBSET Expense]
    OBVIOUS
  <2>2. Opened(q) = Report(q, left, sums, began)
    BY <1>2 DEF Opened
  <2> HIDE DEF began, sums, left
  <2>3. Report(q, left, sums, began) \in [pc : {"report"}, conn : Connection, org : Org,
            left : SUBSET Sum, sums : [Sum -> SUBSET Expense],
            began : [Expense -> Status]]
    BY <1>1, <2>1, ReportType DEF began
  <2>4. Opened(q) \in Transaction
    BY <2>2, <2>3 DEF Transaction
  <2>5. Opened(q).pc = "report" /\ Opened(q).conn = q.conn /\ Opened(q).org = q.org
    BY <2>2 DEF Report
  <2> QED
    BY <1>2, <2>2, <2>4, <2>5 DEF began, sums, left
<1>3. CASE q.work # "report"
  BY <1>3 DEF Opened, Transaction
<1> QED
  BY <1>2, <1>3

LEMMA QueryType ==
    ASSUME TypeOK, NEW r \in Request, tx[r].pc = "report", NEW s \in tx[r].left
    PROVE  LET q == tx[r] IN
           Report(q, q.left \ {s}, [q.sums EXCEPT ![s] = Found(q, s)], q.began)
             \in Transaction
<1> DEFINE q == tx[r]
           left == q.left \ {s}
           sums == [q.sums EXCEPT ![s] = Found(q, s)]
<1>1. /\ q \in [pc : {"report"}, conn : Connection, org : Org, left : SUBSET Sum,
                sums : [Sum -> SUBSET Expense], began : [Expense -> Status]]
      /\ s \in Sum
  BY Fields
<1>2. Found(q, s) \in SUBSET Expense
  BY DEF Found, Visible
<1>3. left \in SUBSET Sum /\ sums \in [Sum -> SUBSET Expense]
  BY <1>1, <1>2
<1>4. q.conn \in Connection /\ q.org \in Org /\ q.began \in [Expense -> Status]
  BY <1>1
<1> HIDE DEF q, left, sums
<1>5. Report(q, left, sums, q.began) \in Transaction
  BY <1>3, <1>4, ReportType DEF Transaction
<1> QED
  BY <1>5 DEF q, left, sums

----------------------------------------------------------------------------
(* The steps *)

\* A transaction goes on, on its connection, without writing.
LEMMA GoesOn ==
    ASSUME TenantInv, NEW r \in Request, NEW state \in Transaction,
           tx[r].pc \in Open, state.pc \in Open, state.pc # "written",
           state.conn = tx[r].conn, state.org = tx[r].org,
           tx' = [tx EXCEPT ![r] = state], UNCHANGED <<setting, expense>>
    PROVE  TenantInv'
<1>1. tx'[r] = state /\ \A s \in Request \ {r} : tx'[s] = tx[s]
  BY DEF TenantInv, TypeOK
<1>2. TypeOK'
  BY DEF TenantInv, TypeOK
<1>3. ConnectionsExclusive'
  BY <1>1 DEF TenantInv, ConnectionsExclusive, Connected, Open
<1>4. SettingsRight'
  BY <1>1 DEF TenantInv, SettingsRight
<1>5. RowsOwned' /\ WritesSound'
  BY <1>1 DEF TenantInv, RowsOwned, WritesSound
<1> QED
  BY <1>2, <1>3, <1>4, <1>5 DEF TenantInv

\* A transaction ends, and its connection forgets it.
LEMMA Ends ==
    ASSUME TenantInv, NEW r \in Request, NEW state \in Transaction,
           tx[r].pc \in Connected, state.pc \notin Connected,
           tx' = [tx EXCEPT ![r] = state],
           setting' = Released(tx[r].conn),
           expense' \in [Expense -> Row], RowsOwned', WritesSound'
    PROVE  TenantInv'
<1>1. tx'[r] = state /\ \A s \in Request \ {r} : tx'[s] = tx[s]
  BY DEF TenantInv, TypeOK
<1>2. tx[r].conn \in Connection
  BY Fields DEF TenantInv
<1>3. /\ setting'[tx[r].conn] = "" /\ "" \in Blank
      /\ \A c \in Connection \ {tx[r].conn} : setting'[c] = setting[c]
  BY <1>2 DEF TenantInv, TypeOK, Released, Blank
<1>4. TypeOK'
  BY <1>3 DEF TenantInv, TypeOK, Released
<1>5. ConnectionsExclusive'
  BY <1>1 DEF TenantInv, ConnectionsExclusive
<1>6. SettingsRight'
  <2>1. ASSUME NEW s \in Request, tx'[s].pc \in Open
        PROVE  setting'[tx'[s].conn] = tx'[s].org
    <3>1. s # r /\ tx'[s] = tx[s]
      BY <1>1, <2>1 DEF Open, Connected
    <3>2. tx[s].conn # tx[r].conn /\ tx[s].conn \in Connection
      BY <2>1, <3>1, Fields DEF TenantInv, ConnectionsExclusive, Open, Connected
    <3> QED
      BY <1>3, <2>1, <3>1, <3>2 DEF TenantInv, SettingsRight
  <2>2. ASSUME NEW c \in Connection,
               ~(\E s \in Request : tx'[s].pc \in Open /\ tx'[s].conn = c)
        PROVE  setting'[c] \in Blank
    <3>1. CASE c = tx[r].conn
      BY <1>3, <3>1
    <3>2. CASE c # tx[r].conn
      <4>1. ~(\E s \in Request : tx[s].pc \in Open /\ tx[s].conn = c)
        BY <1>1, <2>2, <3>2
      <4> QED
        BY <1>3, <3>2, <4>1 DEF TenantInv, SettingsRight
    <3> QED
      BY <3>1, <3>2
  <2> QED
    BY <2>1, <2>2 DEF SettingsRight
<1> QED
  BY <1>4, <1>5, <1>6 DEF TenantInv

LEMMA EndsQuietly ==
    ASSUME TenantInv, NEW r \in Request, NEW state \in Transaction,
           tx[r].pc \in Connected, state.pc \notin Connected,
           tx' = [tx EXCEPT ![r] = state],
           setting' = Released(tx[r].conn), UNCHANGED expense
    PROVE  TenantInv'
<1>1. tx'[r] = state /\ \A s \in Request \ {r} : tx'[s] = tx[s]
  BY DEF TenantInv, TypeOK
<1>2. RowsOwned' /\ WritesSound' /\ expense' \in [Expense -> Row]
  BY <1>1 DEF TenantInv, TypeOK, RowsOwned, WritesSound, Connected
<1> QED
  BY <1>2, Ends

\* What is not in a transaction stays out of it.
LEMMA StaysOut ==
    ASSUME TenantInv, NEW r \in Request, NEW state \in Transaction,
           tx[r].pc \notin Connected, state.pc \notin Connected,
           tx' = [tx EXCEPT ![r] = state], UNCHANGED <<setting, expense>>
    PROVE  TenantInv'
<1>1. tx'[r] = state /\ \A s \in Request \ {r} : tx'[s] = tx[s]
  BY DEF TenantInv, TypeOK
<1>2. TypeOK'
  BY DEF TenantInv, TypeOK
<1>3. ConnectionsExclusive'
  BY <1>1 DEF TenantInv, ConnectionsExclusive
<1>4. SettingsRight'
  BY <1>1 DEF TenantInv, SettingsRight, Open, Connected
<1>5. RowsOwned' /\ WritesSound'
  BY <1>1 DEF TenantInv, RowsOwned, WritesSound, Connected
<1> QED
  BY <1>2, <1>3, <1>4, <1>5 DEF TenantInv

LEMMA BeginStep ==
    ASSUME TenantInv, NEW r \in Request, Begin(r)
    PROVE  TenantInv'
<1>1. PICK c \in Connection, org \in Org, work \in {"report", "write"} :
        /\ ~Busy(c)
        /\ tx' = [tx EXCEPT ![r] =
              [pc |-> "begun", conn |-> c, org |-> org, work |-> work]]
  BY DEF Begin
<1> DEFINE state == [pc |-> "begun", conn |-> c, org |-> org, work |-> work]
<1>2. state \in Transaction
  BY DEF Transaction
<1>3. state.pc = "begun" /\ state.conn = c
  OBVIOUS
<1>4. tx' = [tx EXCEPT ![r] = state]
  BY <1>1
<1> HIDE DEF state
<1>5. tx'[r] = state /\ \A s \in Request \ {r} : tx'[s] = tx[s]
  BY <1>4 DEF TenantInv, TypeOK
<1>6. UNCHANGED <<setting, expense>> /\ tx[r].pc = "idle"
  BY DEF Begin
<1>7. TypeOK'
  BY <1>2, <1>4, <1>6 DEF TenantInv, TypeOK
<1>8. ConnectionsExclusive'
  BY <1>1, <1>3, <1>5 DEF TenantInv, ConnectionsExclusive, Busy
<1>9. SettingsRight'
  BY <1>3, <1>5, <1>6 DEF TenantInv, SettingsRight, Open
<1>10. RowsOwned' /\ WritesSound'
  BY <1>3, <1>5, <1>6 DEF TenantInv, RowsOwned, WritesSound
<1> QED
  BY <1>7, <1>8, <1>9, <1>10 DEF TenantInv

LEMMA SetTenantStep ==
    ASSUME TenantInv, NEW r \in Request, SetTenant(r)
    PROVE  TenantInv'
<1> DEFINE q == tx[r]
           state == Opened(q)
<1>1. q.pc = "begun" /\ q.conn \in Connection /\ q.org \in Org
  BY Fields DEF SetTenant, TenantInv, Connected
<1>2. /\ state \in Transaction /\ state.pc \in {"report", "write"}
      /\ state.conn = q.conn /\ state.org = q.org
  BY <1>1, OpenedFacts DEF TenantInv
<1>3. /\ setting' = [setting EXCEPT ![q.conn] = q.org]
      /\ tx' = [tx EXCEPT ![r] = state]
      /\ UNCHANGED expense
  BY DEF SetTenant
<1> HIDE DEF state
<1>4. tx'[r] = state /\ \A s \in Request \ {r} : tx'[s] = tx[s]
  BY <1>3 DEF TenantInv, TypeOK
<1>5. TypeOK'
  BY <1>1, <1>2, <1>3 DEF TenantInv, TypeOK
<1>6. ConnectionsExclusive'
  BY <1>1, <1>2, <1>4 DEF TenantInv, ConnectionsExclusive, Connected
<1>7. SettingsRight'
  <2>1. \A s \in Request \ {r} : tx[s].pc \in Open => tx[s].conn # q.conn
    BY <1>1 DEF TenantInv, ConnectionsExclusive, Connected, Open
  <2>2. \A s \in Request : tx[s].pc \in Open => tx[s].conn \in Connection
    BY Fields DEF TenantInv, Connected, Open
  <2>3. \A c \in Connection :
           setting'[c] = IF c = q.conn THEN q.org ELSE setting[c]
    BY <1>3 DEF TenantInv, TypeOK
  <2>4. ASSUME NEW s \in Request, tx'[s].pc \in Open
        PROVE  setting'[tx'[s].conn] = tx'[s].org
    BY <1>1, <1>2, <1>4, <2>1, <2>2, <2>3, <2>4 DEF TenantInv, SettingsRight
  <2>5. ASSUME NEW c \in Connection,
               ~(\E s \in Request : tx'[s].pc \in Open /\ tx'[s].conn = c)
        PROVE  setting'[c] \in Blank
    <3>1. c # q.conn
      BY <1>2, <1>4, <2>5 DEF Open
    <3>2. ~(\E s \in Request : tx[s].pc \in Open /\ tx[s].conn = c)
      BY <1>1, <1>4, <2>5 DEF Open
    <3> QED
      BY <2>3, <3>1, <3>2 DEF TenantInv, SettingsRight
  <2> QED
    BY <2>4, <2>5 DEF SettingsRight
<1>8. RowsOwned' /\ WritesSound'
  BY <1>2, <1>3, <1>4 DEF TenantInv, RowsOwned, WritesSound
<1> QED
  BY <1>5, <1>6, <1>7, <1>8 DEF TenantInv

LEMMA WriteStep ==
    ASSUME TenantInv, NEW r \in Request, Write(r)
    PROVE  TenantInv'
<1> DEFINE q == tx[r]
<1>0. PICK e \in Expense : \E status \in Successors(expense[e].status) :
        /\ ~Locked(e)
        /\ \/ expense[e].status = "ABSENT"
           \/ e \in Visible(q.conn) /\ expense[e].org = q.org
        /\ tx' = [tx EXCEPT ![r] =
              [pc |-> "written", conn |-> q.conn, org |-> q.org,
               exp |-> e, status |-> status]]
  BY DEF Write
<1>1. PICK status \in Successors(expense[e].status) :
        /\ ~Locked(e)
        /\ \/ expense[e].status = "ABSENT"
           \/ e \in Visible(q.conn) /\ expense[e].org = q.org
        /\ tx' = [tx EXCEPT ![r] =
              [pc |-> "written", conn |-> q.conn, org |-> q.org,
               exp |-> e, status |-> status]]
  BY <1>0
<1> DEFINE state == [pc |-> "written", conn |-> q.conn, org |-> q.org,
                     exp |-> e, status |-> status]
<1>2. q.pc = "write" /\ q.conn \in Connection /\ q.org \in Org
  BY Fields DEF Write, TenantInv, Connected
<1>3. status \in Status
  <2>1. expense[e].status \in Status
    BY DEF TenantInv, TypeOK, Row
  <2> QED
    BY <1>1, <2>1 DEF Successors, Status
<1>4. state \in Transaction
  BY <1>2, <1>3 DEF Transaction
<1>5. /\ state.pc = "written" /\ state.conn = q.conn /\ state.org = q.org
      /\ state.exp = e /\ state.status = status
  OBVIOUS
<1>6. tx' = [tx EXCEPT ![r] = state] /\ UNCHANGED <<setting, expense>>
  BY <1>1 DEF Write
<1> HIDE DEF state
<1>7. tx'[r] = state /\ \A s \in Request \ {r} : tx'[s] = tx[s]
  BY <1>6 DEF TenantInv, TypeOK
<1>8. TypeOK'
  BY <1>4, <1>6 DEF TenantInv, TypeOK
<1>9. ConnectionsExclusive'
  BY <1>2, <1>5, <1>7 DEF TenantInv, ConnectionsExclusive, Connected
<1>10. SettingsRight'
  BY <1>2, <1>5, <1>6, <1>7 DEF TenantInv, SettingsRight, Open
<1>11. RowsOwned'
  BY <1>6 DEF TenantInv, RowsOwned
<1>12. WritesSound'
  <2>1. \A s \in Request \ {r} : tx[s].pc = "written" => tx[s].exp # e
    BY <1>1 DEF Locked
  <2> QED
    BY <1>1, <1>5, <1>6, <1>7, <2>1 DEF TenantInv, WritesSound
<1> QED
  BY <1>8, <1>9, <1>10, <1>11, <1>12 DEF TenantInv

\* The row that the commit of a write replaces.
LEMMA CommittedRow ==
    ASSUME TenantInv, NEW r \in Request, tx[r].pc = "written",
           expense' = [expense EXCEPT ![tx[r].exp] =
                         [status |-> tx[r].status, org |-> tx[r].org]]
    PROVE  /\ tx[r].exp \in Expense
           /\ \A e \in Expense \ {tx[r].exp} : expense'[e] = expense[e]
           /\ expense'[tx[r].exp].status = tx[r].status
           /\ expense'[tx[r].exp].org = tx[r].org
           /\ tx[r].org \in Org
           /\ tx[r].status \in Status \ {"ABSENT"}
           /\ expense' \in [Expense -> Row]
<1>1. tx[r].exp \in Expense /\ tx[r].status \in Status /\ tx[r].org \in Org
  BY Fields DEF TenantInv, Connected
<1>2. expense[tx[r].exp].status \in Status
  BY <1>1 DEF TenantInv, TypeOK, Row
<1>3. tx[r].status # "ABSENT"
  BY <1>2 DEF TenantInv, WritesSound, Successors, Status
<1> QED
  BY <1>1, <1>3 DEF TenantInv, TypeOK, Row

LEMMA CommitWriteStep ==
    ASSUME TenantInv, NEW r \in Request, tx[r].pc = "written", Commit(r)
    PROVE  TenantInv'
<1> DEFINE q == tx[r]
<1>1. /\ tx' = [tx EXCEPT ![r] = Idle]
      /\ expense' = [expense EXCEPT ![q.exp] = [status |-> q.status, org |-> q.org]]
      /\ setting' = Released(q.conn)
  BY DEF Commit
<1>2. tx'[r] = Idle /\ \A s \in Request \ {r} : tx'[s] = tx[s]
  BY <1>1 DEF TenantInv, TypeOK
<1>3. /\ expense' \in [Expense -> Row]
      /\ \A e \in Expense \ {q.exp} : expense'[e] = expense[e]
      /\ expense'[q.exp].status # "ABSENT" /\ expense'[q.exp].org \in Org
  BY <1>1, CommittedRow
<1>4. RowsOwned'
  BY <1>3 DEF TenantInv, RowsOwned
<1>5. WritesSound'
  <2>1. \A s \in Request : tx'[s].pc = "written" => s # r /\ tx'[s] = tx[s]
    BY <1>2 DEF Idle
  <2>2. \A s \in Request \ {r} : tx[s].pc = "written" =>
           tx[s].exp # q.exp /\ tx[s].exp \in Expense
    BY Fields DEF TenantInv, WritesSound
  <2> QED
    BY <1>3, <2>1, <2>2 DEF TenantInv, WritesSound
<1>6. Idle \in Transaction /\ Idle.pc \notin Connected /\ q.pc \in Connected
  BY DEF Transaction, Idle, Connected
<1> QED
  BY <1>1, <1>3, <1>4, <1>5, <1>6, Ends

LEMMA TenantInit == Init => TenantInv
<1> SUFFICES ASSUME Init PROVE TenantInv
  OBVIOUS
<1>1. TypeOK
  BY DEF Init, TypeOK, Blank, Row, Absent, Status, Transaction
<1>2. ConnectionsExclusive /\ SettingsRight /\ RowsOwned /\ WritesSound
  BY DEF Init, ConnectionsExclusive, SettingsRight, RowsOwned, WritesSound, Idle,
         Absent, Connected, Open, Blank
<1> QED
  BY <1>1, <1>2 DEF TenantInv

LEMMA TenantStep == TenantInv /\ [Next]_vars => TenantInv'
<1> SUFFICES ASSUME TenantInv, [Next]_vars PROVE TenantInv'
  OBVIOUS
<1>1. CASE UNCHANGED vars
  BY <1>1 DEF vars, TenantInv, TypeOK, ConnectionsExclusive, SettingsRight, RowsOwned,
              WritesSound
<1>2. Idle \in Transaction /\ Idle.pc \notin Connected
  BY DEF Transaction, Idle, Connected
<1>3. ASSUME NEW r \in Request, Begin(r) PROVE TenantInv'
  BY <1>3, BeginStep
<1>4. ASSUME NEW r \in Request, SetTenant(r) PROVE TenantInv'
  BY <1>4, SetTenantStep
<1>5. ASSUME NEW r \in Request, Query(r) PROVE TenantInv'
  <2>1. PICK s \in tx[r].left :
          /\ tx[r].pc = "report"
          /\ tx' = [tx EXCEPT ![r] =
               Report(tx[r], tx[r].left \ {s},
                      [tx[r].sums EXCEPT ![s] = Found(tx[r], s)], tx[r].began)]
          /\ UNCHANGED <<setting, expense>>
    BY <1>5 DEF Query
  <2> DEFINE state == Report(tx[r], tx[r].left \ {s},
                             [tx[r].sums EXCEPT ![s] = Found(tx[r], s)], tx[r].began)
  <2>2. state \in Transaction
    BY <2>1, QueryType DEF TenantInv
  <2>3. state.pc = "report" /\ state.conn = tx[r].conn /\ state.org = tx[r].org
    BY DEF Report
  <2>4. tx' = [tx EXCEPT ![r] = state]
    BY <2>1
  <2> HIDE DEF state
  <2> QED
    BY <2>1, <2>2, <2>3, <2>4, GoesOn DEF Open
<1>6. ASSUME NEW r \in Request, Write(r) PROVE TenantInv'
  BY <1>6, WriteStep
<1>7. ASSUME NEW r \in Request, Commit(r) PROVE TenantInv'
  <2>1. CASE tx[r].pc = "written"
    BY <1>7, <2>1, CommitWriteStep
  <2>2. CASE tx[r].pc # "written"
    <3> DEFINE state == [pc |-> "answer", org |-> tx[r].org, sums |-> tx[r].sums,
                         began |-> tx[r].began]
    <3>1. /\ tx[r].pc = "report"
          /\ tx' = [tx EXCEPT ![r] = state]
          /\ setting' = Released(tx[r].conn) /\ UNCHANGED expense
      BY <1>7, <2>2 DEF Commit
    <3>2. state \in Transaction
      BY <3>1, Fields DEF TenantInv, Transaction
    <3>3. state.pc \notin Connected /\ tx[r].pc \in Connected
      BY <3>1 DEF Connected
    <3> HIDE DEF state
    <3> QED
      BY <3>1, <3>2, <3>3, EndsQuietly
  <2> QED
    BY <2>1, <2>2
<1>8. ASSUME NEW r \in Request, Answer(r) PROVE TenantInv'
  BY <1>2, <1>8, StaysOut DEF Answer, Connected
<1>9. ASSUME NEW r \in Request, Rollback(r) PROVE TenantInv'
  BY <1>2, <1>9, EndsQuietly DEF Rollback
<1>10. ASSUME NEW r \in Request, TimeOut(r) PROVE TenantInv'
  <2>1. [pc |-> "closed"] \in Transaction /\ [pc |-> "closed"].pc \notin Connected
    BY DEF Transaction, Connected
  <2> QED
    BY <1>10, <2>1, EndsQuietly DEF TimeOut
<1>11. ASSUME NEW r \in Request, LateStatement(r) PROVE TenantInv'
  BY <1>2, <1>11, StaysOut DEF LateStatement, Connected
<1> QED
  BY <1>1, <1>3, <1>4, <1>5, <1>6, <1>7, <1>8, <1>9, <1>10, <1>11 DEF Next

LEMMA TenantInvariant == Spec => []TenantInv
  BY TenantInit, TenantStep, PTL DEF Spec

\* Every variable keeps its type.
THEOREM TypeCorrect == Spec => []TypeOK
<1>1. TenantInv => TypeOK
  BY DEF TenantInv
<1> QED
  BY <1>1, TenantInvariant, PTL

\* A pooled connection that serves no tenant shows the rows of none, however
\* the transaction it served last has ended.
THEOREM ConnectionsAreForgetful == Spec => []ConnectionsForget
<1>1. TenantInv => ConnectionsForget
  BY TenantAssumption DEF TenantInv, SettingsRight, ConnectionsForget, RowPolicy
<1> QED
  BY <1>1, TenantInvariant, PTL

\* A tenant's transaction sees its own rows, all of them and no others.
THEOREM TenantsSeeTheirOwn == Spec => []TenantSeesItsOwn
<1>1. TenantInv => TenantSeesItsOwn
  <2> SUFFICES ASSUME TenantInv, NEW r \in Request, tx[r].pc \in Open
               PROVE  Visible(tx[r].conn) = {e \in Expense : expense[e].org = tx[r].org}
    BY DEF TenantSeesItsOwn
  <2>1. setting[tx[r].conn] = tx[r].org /\ tx[r].org \in Org
    BY Fields DEF TenantInv, SettingsRight, Open, Connected
  <2> QED
    BY <2>1 DEF Visible, RowPolicy
<1> QED
  BY <1>1, TenantInvariant, PTL

----------------------------------------------------------------------------
(* The dashboard.  Its statements see different moments, and what each of  *)
(* them saw of an expense lies between the beginning and now.              *)

Rank(status) ==
    CASE status = "ABSENT" -> 0
      [] status = "DRAFT" -> 1
      [] status = "PENDING_MANAGER" -> 2
      [] status = "PENDING_FINANCE" -> 3
      [] status \in {"APPROVED", "REJECTED"} -> 4

\* An expense may go from one status to the other.
Later(a, b) == a = b \/ Rank(a) < Rank(b)

Left(q) == IF q.pc = "report" THEN q.left ELSE {}

\* What statement s has found of e is what held at some moment since.
FoundSound(q, e, s) ==
    \E seen \in Status :
        /\ Later(q.began[e], seen) /\ Later(seen, expense[e].status)
        /\ e \in q.sums[s] <=> /\ seen # "ABSENT" /\ expense[e].org = q.org
                               /\ Selects(s, seen)

ReportSound(q) ==
    q.pc \in {"report", "answer"} =>
      \A e \in Expense :
         /\ Later(q.began[e], expense[e].status)
         /\ \A s \in Sum \ Left(q) : FoundSound(q, e, s)

ReportsSound == \A r \in Request : ReportSound(tx[r])

LEMMA RankType == \A a \in Status : Rank(a) \in 0 .. 4
BY DEF Rank, Status

LEMMA LaterTransitive ==
    ASSUME NEW a \in Status, NEW b \in Status, NEW c \in Status,
           Later(a, b), Later(b, c)
    PROVE  Later(a, c)
BY RankType DEF Later

LEMMA SuccessorsLater ==
    ASSUME NEW a \in Status, NEW b \in Successors(a)
    PROVE  Later(a, b)
BY DEF Successors, Status, Later, Rank

LEMMA LaterThanAbsent ==
    ASSUME NEW a \in Status \ {"ABSENT"}, NEW b \in Status, Later(a, b)
    PROVE  b # "ABSENT"
BY DEF Later, Rank, Status

\* An expense that is counted the same way at both ends was counted that way
\* all along.
LEMMA CountedAlike ==
    ASSUME NEW a \in Status \ {"ABSENT"}, NEW b \in Status, NEW c \in Status,
           Later(a, b), Later(b, c), SumsOf(a) = SumsOf(c), NEW s \in Sum
    PROVE  Selects(s, b) <=> s \in SumsOf(a)
<1>1. SumsOf(a) = SumsOf(b)
  <2>1. CASE a = b \/ b = c
    BY <2>1
  <2>2. CASE Rank(a) < Rank(b) /\ Rank(b) < Rank(c)
    <3>1. CASE a = "DRAFT"
      <4>1. c \in {"PENDING_FINANCE", "APPROVED", "REJECTED"}
        BY <2>2, <3>1, RankType DEF Rank, Status
      <4>2. SumsOf(a) = {"all"}
        BY <3>1 DEF SumsOf
      <4>3. SumsOf(c) # {"all"}
        BY <4>1 DEF SumsOf
      <4> QED
        BY <4>2, <4>3
    <3>2. CASE a = "PENDING_MANAGER"
      <4>1. b = "PENDING_FINANCE"
        BY <2>2, <3>2 DEF Rank, Status
      <4> QED
        BY <3>2, <4>1 DEF SumsOf
    <3>3. CASE a \in {"PENDING_FINANCE", "APPROVED", "REJECTED"}
      BY <2>2, <3>3 DEF Rank, Status
    <3> QED
      BY <3>1, <3>2, <3>3 DEF Status
  <2> QED
    BY <2>1, <2>2 DEF Later
<1>2. b # "ABSENT"
  BY LaterThanAbsent
<1>3. Selects(s, b) <=> s \in SumsOf(b)
  BY <1>2 DEF Selects, SumsOf, Sum, Status
<1> QED
  BY <1>1, <1>3

\* A committed step moves an expense forwards and leaves it where it belongs.
LEMMA RowsMoveOn ==
    ASSUME TenantInv, [Next]_vars, NEW e \in Expense
    PROVE  /\ expense[e].status \in Status /\ expense'[e].status \in Status
           /\ Later(expense[e].status, expense'[e].status)
           /\ expense[e].status # "ABSENT" => expense'[e].org = expense[e].org
<1>1. expense[e].status \in Status
  BY DEF TenantInv, TypeOK, Row
<1>2. CASE UNCHANGED expense
  BY <1>1, <1>2 DEF Later
<1>3. CASE \E r \in Request : Commit(r) /\ tx[r].pc = "written"
  <2>1. PICK r \in Request : Commit(r) /\ tx[r].pc = "written"
    BY <1>3
  <2>2. expense' = [expense EXCEPT ![tx[r].exp] =
                      [status |-> tx[r].status, org |-> tx[r].org]]
    BY <2>1 DEF Commit
  <2>3. CASE tx[r].exp # e
    BY <1>1, <2>1, <2>2, <2>3, CommittedRow DEF Later
  <2>4. CASE tx[r].exp = e
    <3>1. expense'[e].status = tx[r].status /\ expense'[e].org = tx[r].org
      BY <2>1, <2>2, <2>4, CommittedRow
    <3>2. /\ tx[r].status \in Successors(expense[e].status)
          /\ expense[e].status = "ABSENT" \/ expense[e].org = tx[r].org
      BY <2>1, <2>4 DEF TenantInv, WritesSound
    <3>3. tx[r].status \in Status
      BY <2>1, <2>2, CommittedRow
    <3> QED
      BY <1>1, <3>1, <3>2, <3>3, SuccessorsLater
  <2> QED
    BY <2>3, <2>4
<1>4. UNCHANGED expense \/ \E r \in Request : Commit(r) /\ tx[r].pc = "written"
  BY DEF Next, vars, Begin, SetTenant, Query, Write, Commit, Answer, Rollback, TimeOut,
         LateStatement
<1> QED
  BY <1>2, <1>3, <1>4

\* What was found stays sound while expenses move on.
LEMMA SoundStays ==
    ASSUME TenantInv, [Next]_vars, NEW q, ReportSound(q),
           q.pc \in {"report", "answer"} => q.began \in [Expense -> Status]
    PROVE  ReportSound(q)'
<1> SUFFICES ASSUME q.pc \in {"report", "answer"}, NEW e \in Expense
             PROVE  /\ Later(q.began[e], expense'[e].status)
                    /\ \A s \in Sum \ Left(q) : FoundSound(q, e, s)'
  BY DEF ReportSound, Left
<1>1. /\ expense[e].status \in Status /\ expense'[e].status \in Status
      /\ Later(expense[e].status, expense'[e].status)
      /\ expense[e].status # "ABSENT" => expense'[e].org = expense[e].org
  BY RowsMoveOn
<1>2. q.began[e] \in Status /\ Later(q.began[e], expense[e].status)
  BY DEF ReportSound
<1>3. Later(q.began[e], expense'[e].status)
  BY <1>1, <1>2, LaterTransitive
<1>4. ASSUME NEW s \in Sum \ Left(q) PROVE FoundSound(q, e, s)'
  <2>1. PICK seen \in Status :
          /\ Later(q.began[e], seen) /\ Later(seen, expense[e].status)
          /\ e \in q.sums[s] <=> /\ seen # "ABSENT" /\ expense[e].org = q.org
                                 /\ Selects(s, seen)
    BY DEF ReportSound, FoundSound
  <2>2. Later(seen, expense'[e].status)
    BY <1>1, <2>1, LaterTransitive
  <2>3. seen # "ABSENT" => expense[e].status # "ABSENT"
    BY <1>1, <2>1, LaterThanAbsent
  <2>4. e \in q.sums[s] <=> /\ seen # "ABSENT" /\ expense'[e].org = q.org
                            /\ Selects(s, seen)
    BY <1>1, <2>1, <2>3
  <2> QED
    BY <2>1, <2>2, <2>4 DEF FoundSound
<1> QED
  BY <1>3, <1>4

\* A dashboard begins with nothing found.
LEMMA SoundAtFirst ==
    ASSUME TenantInv, NEW r \in Request, SetTenant(r)
    PROVE  ReportSound(tx[r])'
<1>1. tx[r].conn \in Connection /\ tx[r].org \in Org /\ TypeOK
  BY Fields DEF SetTenant, TenantInv, Connected
<1>2. PICK q : q = Opened(tx[r])
  OBVIOUS
<1>3. tx'[r] = q /\ UNCHANGED expense
  BY <1>2 DEF SetTenant, TenantInv, TypeOK
<1>4. CASE q.pc # "report"
  <2>1. q.pc = "write"
    BY <1>1, <1>2, <1>4, OpenedFacts
  <2> QED
    BY <1>3, <2>1 DEF ReportSound
<1>5. CASE q.pc = "report"
  <2>1. q = Report(tx[r], Sum, [s \in Sum |-> {}],
                   [e \in Expense |-> expense[e].status])
    BY <1>1, <1>2, <1>5, OpenedFacts
  <2>2. q.left = Sum /\ \A e \in Expense : q.began[e] = expense[e].status
    BY <2>1 DEF Report
  <2> QED
    BY <1>3, <1>5, <2>2 DEF ReportSound, Left, Later
<1> QED
  BY <1>4, <1>5

LEMMA SoundQuery ==
    ASSUME TenantInv, NEW r \in Request, ReportSound(tx[r]), Query(r)
    PROVE  ReportSound(tx[r])'
<1>1. PICK q : q = tx[r]
  OBVIOUS
<1>2. PICK s : /\ s \in q.left
               /\ tx' = [tx EXCEPT ![r] =
                     Report(q, q.left \ {s}, [q.sums EXCEPT ![s] = Found(q, s)], q.began)]
  BY <1>1 DEF Query
<1>3. q.pc = "report" /\ UNCHANGED <<setting, expense>>
  BY <1>1 DEF Query
<1>4. /\ q \in [pc : {"report"}, conn : Connection, org : Org, left : SUBSET Sum,
                sums : [Sum -> SUBSET Expense], began : [Expense -> Status]]
      /\ s \in Sum
  BY <1>1, <1>2, <1>3, Fields DEF TenantInv
<1>5. PICK found : found = Found(q, s)
  OBVIOUS
<1>6. PICK next : next = Report(q, q.left \ {s}, [q.sums EXCEPT ![s] = found], q.began)
  OBVIOUS
<1>7. /\ next.pc = "report" /\ next.left = q.left \ {s} /\ next.began = q.began
      /\ next.org = q.org /\ next.sums[s] = found
      /\ \A t \in Sum \ {s} : next.sums[t] = q.sums[t]
  BY <1>4, <1>6 DEF Report
<1>8. tx'[r] = next
  BY <1>2, <1>5, <1>6 DEF TenantInv, TypeOK
<1>9. ReportSound(q)
  BY <1>1
<1>10. ASSUME NEW e \in Expense PROVE FoundSound(next, e, s)
  <2>1. /\ expense[e].status \in Status
        /\ Later(q.began[e], expense[e].status)
        /\ expense[e].status = "ABSENT" => expense[e].org = NoOrg
    BY <1>3, <1>9 DEF ReportSound, TenantInv, RowsOwned, TypeOK, Row
  <2>2. setting[q.conn] = q.org /\ q.org \in Org
    BY <1>1, <1>3, <1>4 DEF TenantInv, SettingsRight, Open
  <2>3. e \in found <=> /\ expense[e].status # "ABSENT" /\ expense[e].org = q.org
                        /\ Selects(s, expense[e].status)
    BY <1>5, <2>1, <2>2, TenantAssumption DEF Found, Visible, RowPolicy
  <2>4. Later(expense[e].status, expense[e].status)
    BY DEF Later
  <2> QED
    BY <1>7, <2>1, <2>3, <2>4 DEF FoundSound
<1>11. ASSUME NEW e \in Expense, NEW t \in Sum \ Left(q) PROVE FoundSound(next, e, t)
  <2>1. t # s /\ FoundSound(q, e, t)
    BY <1>2, <1>3, <1>9 DEF Left, ReportSound
  <2> QED
    BY <1>7, <2>1 DEF FoundSound
<1>12. \A t \in Sum \ Left(next) : t = s \/ t \in Sum \ Left(q)
  BY <1>3, <1>7 DEF Left
<1>13. ReportSound(next)
  BY <1>3, <1>7, <1>9, <1>10, <1>11, <1>12 DEF ReportSound
<1> QED
  BY <1>3, <1>8, <1>13 DEF ReportSound, FoundSound, Left

\* The answer takes over what has been found.
LEMMA SoundAnswer ==
    ASSUME TenantInv, NEW r \in Request, ReportSound(tx[r]), Commit(r),
           tx[r].pc = "report"
    PROVE  ReportSound(tx[r])'
<1>1. PICK q : q = tx[r]
  OBVIOUS
<1>2. PICK next : next = [pc |-> "answer", org |-> q.org, sums |-> q.sums,
                          began |-> q.began]
  OBVIOUS
<1>3. q.pc = "report" /\ q.left = {} /\ UNCHANGED expense
  BY <1>1 DEF Commit
<1>4. tx'[r] = next
  BY <1>1, <1>2 DEF Commit, TenantInv, TypeOK
<1>5. ReportSound(q)
  BY <1>1
<1>6. /\ next.pc = "answer" /\ next.org = q.org /\ next.sums = q.sums
      /\ next.began = q.began
  BY <1>2
<1>7. ReportSound(next)
  BY <1>3, <1>5, <1>6 DEF ReportSound, FoundSound, Left
<1> QED
  BY <1>3, <1>4, <1>7 DEF ReportSound, FoundSound, Left

LEMMA ReportsStep == TenantInv /\ ReportsSound /\ [Next]_vars => ReportsSound'
<1> SUFFICES ASSUME TenantInv, ReportsSound, [Next]_vars, NEW r \in Request
             PROVE  ReportSound(tx[r])'
  BY DEF ReportsSound
<1>1. ReportSound(tx[r])
  BY DEF ReportsSound
<1>2. CASE UNCHANGED tx[r]
  <2>1. PICK q : q = tx[r]
    OBVIOUS
  <2>2. q.pc \in {"report", "answer"} => q.began \in [Expense -> Status]
    BY <2>1, Fields DEF TenantInv
  <2>3. ReportSound(q)
    BY <1>1, <2>1
  <2>4. ReportSound(q)'
    BY <2>2, <2>3, SoundStays
  <2> QED
    BY <1>2, <2>1, <2>4 DEF ReportSound, FoundSound, Left
<1>3. CASE SetTenant(r)
  BY <1>3, SoundAtFirst
<1>4. CASE Query(r)
  BY <1>1, <1>4, SoundQuery
<1>5. CASE tx'[r].pc \notin {"report", "answer"}
  BY <1>5 DEF ReportSound
<1>6. CASE Commit(r)
  <2>1. CASE tx[r].pc = "report"
    BY <1>1, <1>6, <2>1, SoundAnswer
  <2>2. CASE tx[r].pc # "report"
    BY <1>5, <1>6, <2>2 DEF Commit, TenantInv, TypeOK, Idle
  <2> QED
    BY <2>1, <2>2
<1>7. ASSUME NEW s \in Request, s # r,
             \/ Begin(s) \/ SetTenant(s) \/ Query(s) \/ Write(s) \/ Commit(s)
             \/ Answer(s) \/ Rollback(s) \/ TimeOut(s) \/ LateStatement(s)
      PROVE  UNCHANGED tx[r]
  BY <1>7 DEF TenantInv, TypeOK, Begin, SetTenant, Query, Write, Commit, Answer, Rollback,
              TimeOut, LateStatement
<1>8. CASE \/ Begin(r) \/ Write(r) \/ Answer(r) \/ Rollback(r) \/ TimeOut(r)
           \/ LateStatement(r)
  BY <1>5, <1>8 DEF TenantInv, TypeOK, Begin, Write, Answer, Rollback, TimeOut,
                    LateStatement, Idle
<1>9. CASE UNCHANGED vars
  BY <1>2, <1>9 DEF vars
<1>10. ASSUME NEW s \in Request,
              \/ Begin(s) \/ SetTenant(s) \/ Query(s) \/ Write(s) \/ Commit(s)
              \/ Answer(s) \/ Rollback(s) \/ TimeOut(s) \/ LateStatement(s)
       PROVE  ReportSound(tx[r])'
  <2>1. CASE s # r
    BY <1>2, <1>7, <1>10, <2>1
  <2>2. CASE s = r
    <3>1. \/ Begin(r) \/ SetTenant(r) \/ Query(r) \/ Write(r) \/ Commit(r)
          \/ Answer(r) \/ Rollback(r) \/ TimeOut(r) \/ LateStatement(r)
      BY <1>10, <2>2, Zenon
    <3> QED
      BY <1>3, <1>4, <1>6, <1>8, <3>1, Zenon
  <2> QED
    BY <2>1, <2>2
<1> QED
  BY <1>9, <1>10 DEF Next

\* The sums of a dashboard, read at different moments, are still honest: every
\* expense of the tenant is in the total, one whose sums are what they were is in
\* those and no others, and nobody else's is in any.
THEOREM DashboardsAreHonest == Spec => []DashboardHonest
<1>1. Init => ReportsSound
  BY DEF Init, ReportsSound, ReportSound, Idle
<1>2. TenantInv /\ ReportsSound => DashboardHonest
  <2> SUFFICES ASSUME TenantInv, NEW r \in Request, NEW e \in Expense,
                      tx[r].pc = "answer", ReportSound(tx[r])
               PROVE  LET before  == tx[r].began[e]
                          counted == {s \in Sum : e \in tx[r].sums[s]}
                      IN
                      /\ counted # {} => expense[e].org = tx[r].org
                      /\ expense[e].org = tx[r].org /\ before # "ABSENT" =>
                           /\ "all" \in counted
                           /\ SumsOf(before) = SumsOf(expense[e].status) =>
                                counted = SumsOf(before)
    BY DEF DashboardHonest, ReportsSound
  <2>1. /\ tx[r].began[e] \in Status /\ expense[e].status \in Status
        /\ \A s \in Sum : FoundSound(tx[r], e, s)
    BY Fields DEF TenantInv, TypeOK, Row, ReportSound, Left
  <2>2. \A s \in Sum : e \in tx[r].sums[s] => expense[e].org = tx[r].org
    BY <2>1 DEF FoundSound
  <2>3. ASSUME expense[e].org = tx[r].org, tx[r].began[e] # "ABSENT"
        PROVE  e \in tx[r].sums["all"]
    <3>1. PICK seen \in Status :
            /\ Later(tx[r].began[e], seen)
            /\ e \in tx[r].sums["all"] <=>
                 /\ seen # "ABSENT" /\ expense[e].org = tx[r].org
                 /\ Selects("all", seen)
      BY <2>1 DEF FoundSound, Sum
    <3>2. seen # "ABSENT"
      BY <2>1, <2>3, <3>1, LaterThanAbsent
    <3> QED
      BY <2>3, <3>1, <3>2 DEF Selects
  <2>4. ASSUME expense[e].org = tx[r].org, tx[r].began[e] # "ABSENT",
               SumsOf(tx[r].began[e]) = SumsOf(expense[e].status), NEW s \in Sum
        PROVE  e \in tx[r].sums[s] <=> s \in SumsOf(tx[r].began[e])
    <3>1. PICK seen \in Status :
            /\ Later(tx[r].began[e], seen) /\ Later(seen, expense[e].status)
            /\ e \in tx[r].sums[s] <=>
                 /\ seen # "ABSENT" /\ expense[e].org = tx[r].org /\ Selects(s, seen)
      BY <2>1 DEF FoundSound
    <3>2. seen # "ABSENT"
      BY <2>1, <2>4, <3>1, LaterThanAbsent
    <3>3. Selects(s, seen) <=> s \in SumsOf(tx[r].began[e])
      BY <2>1, <2>4, <3>1, CountedAlike
    <3> QED
      BY <2>4, <3>1, <3>2, <3>3
  <2>5. SumsOf(tx[r].began[e]) \subseteq Sum /\ "all" \in Sum
    BY DEF SumsOf, Sum
  <2> QED
    BY <2>2, <2>3, <2>4, <2>5
<1> QED
  BY <1>1, <1>2, TenantInit, TenantStep, ReportsStep, PTL DEF Spec

----------------------------------------------------------------------------
(* Connections, settings and row policies implement a table for each       *)
(* organization.                                                           *)

Clients == [r \in Request |-> Served(tx[r])]
TableAt == [org \in Org |-> TableOf(org)]

LEMMA ClientFacts ==
    ASSUME TypeOK, NEW r \in Request, NEW state, tx' = [tx EXCEPT ![r] = state]
    PROVE  /\ Clients[r] = Served(tx[r])
           /\ Clients' = [Clients EXCEPT ![r] = Served(state)]
<1>1. tx'[r] = state /\ \A s \in Request \ {r} : tx'[s] = tx[s]
  BY DEF TypeOK
<1>2. \A s \in Request : Served(tx[s])' = Served(tx'[s])
  BY DEF Served
<1>3. Clients' = [s \in Request |-> Served(tx'[s])]
  BY <1>2 DEF Clients
<1>4. Clients = [s \in Request |-> Served(tx[s])]
  BY DEF Clients
<1> QED
  BY <1>1, <1>3, <1>4

\* A step that the client does not see.
LEMMA Unseen ==
    ASSUME TypeOK, NEW r \in Request, NEW state, tx' = [tx EXCEPT ![r] = state],
           Served(state) = Served(tx[r]), UNCHANGED expense
    PROVE  UNCHANGED Tables!tables
<1>1. Clients' = Clients
  BY ClientFacts DEF Clients
<1> QED
  BY <1>1 DEF Tables!tables, Clients, TableOf

\* The end of whatever the client was about.
LEMMA Leaves ==
    ASSUME TypeOK, NEW r \in Request, NEW state, tx' = [tx EXCEPT ![r] = state],
           Served(state) = Tables!Away, UNCHANGED expense
    PROVE  Tables!Leave(r) \/ UNCHANGED Tables!tables
<1>1. CASE Served(tx[r]) = Tables!Away
  BY <1>1, Unseen
<1>2. CASE Served(tx[r]) # Tables!Away
  <2>1. /\ Clients[r] # Tables!Away
        /\ Clients' = [Clients EXCEPT ![r] = Tables!Away]
    BY <1>2, ClientFacts
  <2> QED
    BY <2>1 DEF Tables!Leave, Tables!Becomes, Clients, TableOf
<1> QED
  BY <1>1, <1>2

\* What set_config opens is the table of the organization.
LEMMA SetTenantOpens ==
    ASSUME TypeOK, NEW r \in Request, SetTenant(r)
    PROVE  Tables!Open(r)
<1>1. PICK q : q = tx[r]
  OBVIOUS
<1>2. PICK state : state = Opened(q)
  OBVIOUS
<1>3. q.pc = "begun" /\ q.conn \in Connection /\ q.org \in Org
  BY <1>1, Fields DEF SetTenant, Connected
<1>4. tx' = [tx EXCEPT ![r] = state] /\ UNCHANGED expense
  BY <1>1, <1>2 DEF SetTenant
<1>5. Served(q) = Tables!Away
  BY <1>3 DEF Served, Tables!Away
<1>6. \/ Served(state) = Tables!Reading(q.org, Sum, [s \in Sum |-> {}])
      \/ Served(state) = Tables!Writing(q.org)
  <2>1. CASE q.work = "report"
    <3>1. state = Report(q, Sum, [s \in Sum |-> {}],
                         [e \in Expense |-> expense[e].status])
      BY <1>2, <1>3, <2>1, OpenedFacts
    <3>2. /\ state.pc = "report" /\ state.org = q.org
          /\ state.left = Sum /\ state.sums = [s \in Sum |-> {}]
      BY <3>1 DEF Report
    <3> QED
      BY <3>2 DEF Served, Tables!Reading
  <2>2. CASE q.work # "report"
    <3>1. state.pc = "write" /\ state.org = q.org
      BY <1>2, <1>3, <2>2, OpenedFacts
    <3> QED
      BY <3>1 DEF Served, Tables!Writing
  <2> QED
    BY <2>1, <2>2
<1>7. Tables!Sum = Sum
  BY DEF Tables!Sum, Selected
<1>8. Clients[r] = Tables!Away /\ Clients' = [Clients EXCEPT ![r] = Served(state)]
  BY <1>1, <1>4, <1>5, ClientFacts
<1>9. UNCHANGED TableAt
  BY <1>4 DEF TableAt, TableOf
<1> QED
  BY <1>3, <1>6, <1>7, <1>8, <1>9
  DEF Tables!Open, Tables!Becomes, Clients, TableAt

\* Through the row policy and the filter a statement finds what it would find
\* in a table of the organization alone.
LEMMA FoundInTable ==
    ASSUME TenantInv, NEW r \in Request, tx[r].pc = "report", NEW s \in Sum
    PROVE  Found(tx[r], s) = {e \in Expense : TableAt[tx[r].org][e] \in Selected[s]}
<1>1. setting[tx[r].conn] = tx[r].org /\ tx[r].org \in Org
  BY Fields DEF TenantInv, SettingsRight, Open, Connected
<1>2. ASSUME NEW e \in Expense
      PROVE  e \in Found(tx[r], s) <=> TableAt[tx[r].org][e] \in Selected[s]
  <2>1. /\ expense[e].status \in Status
        /\ expense[e].status = "ABSENT" => expense[e].org # tx[r].org
    BY <1>1, TenantAssumption DEF TenantInv, RowsOwned, TypeOK, Row
  <2>2. TableAt[tx[r].org][e]
          = IF expense[e].org = tx[r].org THEN expense[e].status ELSE "ABSENT"
    BY <1>1 DEF TableAt, TableOf
  <2>3. \A status :
           status \in Selected[s]
             <=> /\ status \in Status /\ status # "ABSENT" /\ Selects(s, status)
    BY DEF Selected
  <2>4. e \in Found(tx[r], s)
          <=> expense[e].org = tx[r].org /\ Selects(s, expense[e].status)
    BY <1>1 DEF Found, Visible, RowPolicy
  <2> QED
    BY <2>1, <2>2, <2>3, <2>4
<1> QED
  BY <1>2 DEF Found, Visible

LEMMA QueryLooks ==
    ASSUME TenantInv, NEW r \in Request, Query(r)
    PROVE  Tables!Look(r)
<1>1. PICK q : q = tx[r]
  OBVIOUS
<1>2. PICK s : /\ s \in q.left
               /\ tx' = [tx EXCEPT ![r] =
                     Report(q, q.left \ {s}, [q.sums EXCEPT ![s] = Found(q, s)], q.began)]
  BY <1>1 DEF Query
<1>3. q.pc = "report" /\ UNCHANGED expense
  BY <1>1 DEF Query
<1>4. s \in Sum
  BY <1>1, <1>2, <1>3, Fields DEF TenantInv
<1>5. PICK found : found = Found(q, s)
  OBVIOUS
<1>6. PICK state : state = Report(q, q.left \ {s}, [q.sums EXCEPT ![s] = found], q.began)
  OBVIOUS
<1>7. /\ state.pc = "report" /\ state.org = q.org /\ state.left = q.left \ {s}
      /\ state.sums = [q.sums EXCEPT ![s] = found]
  BY <1>6 DEF Report
<1>8. PICK c : c = Served(q)
  OBVIOUS
<1>9. c.does = "read" /\ c.org = q.org /\ c.left = q.left /\ c.sums = q.sums
  BY <1>3, <1>8 DEF Served
<1>10. Served(state) = Tables!Reading(c.org, c.left \ {s}, [c.sums EXCEPT ![s] = found])
  BY <1>7, <1>9 DEF Served, Tables!Reading
<1>11. found = {e \in Expense : TableAt[c.org][e] \in Selected[s]}
  BY <1>1, <1>3, <1>4, <1>5, <1>9, FoundInTable
<1>12. Clients[r] = c /\ Clients' = [Clients EXCEPT ![r] = Served(state)]
  <2>1. tx' = [tx EXCEPT ![r] = state]
    BY <1>2, <1>5, <1>6
  <2> QED
    BY <1>1, <1>8, <2>1, ClientFacts DEF TenantInv
<1>13. UNCHANGED TableAt
  BY <1>3 DEF TableAt, TableOf
<1>14. /\ Clients[r].does = "read" /\ s \in Clients[r].left
       /\ Clients' = [Clients EXCEPT ![r] =
             Tables!Reading(Clients[r].org, Clients[r].left \ {s},
                [Clients[r].sums EXCEPT ![s] =
                   {e \in Expense : TableAt[Clients[r].org][e] \in Selected[s]}])]
  BY <1>2, <1>9, <1>10, <1>11, <1>12
<1> QED
  BY <1>13, <1>14 DEF Tables!Look, Tables!Becomes, Clients, TableAt

LEMMA CommitShows ==
    ASSUME TenantInv, NEW r \in Request, Commit(r), tx[r].pc = "report"
    PROVE  Tables!Show(r)
<1>1. PICK q : q = tx[r]
  OBVIOUS
<1>2. PICK state : state = [pc |-> "answer", org |-> q.org, sums |-> q.sums,
                            began |-> q.began]
  OBVIOUS
<1>3. /\ q.pc = "report" /\ q.left = {} /\ UNCHANGED expense
      /\ tx' = [tx EXCEPT ![r] = state]
  BY <1>1, <1>2 DEF Commit
<1>4. PICK c : c = Served(q)
  OBVIOUS
<1>5. c.does = "read" /\ c.org = q.org /\ c.left = {} /\ c.sums = q.sums
  BY <1>3, <1>4 DEF Served
<1>6. Served(state) = Tables!Told(c.org, c.sums)
  BY <1>2, <1>5 DEF Served, Tables!Told
<1>7. Clients[r] = c /\ Clients' = [Clients EXCEPT ![r] = Tables!Told(c.org, c.sums)]
  <2>1. Clients[r] = c /\ Clients' = [Clients EXCEPT ![r] = Served(state)]
    BY <1>1, <1>3, <1>4, ClientFacts DEF TenantInv
  <2> QED
    BY <1>6, <2>1
<1>8. UNCHANGED TableAt
  BY <1>3 DEF TableAt, TableOf
<1> QED
  BY <1>5, <1>7, <1>8 DEF Tables!Show, Tables!Becomes, Clients, TableAt

\* The row that a write replaces at its commit is absent, or the tenant's own;
\* in the table of another organization nothing moves.
LEMMA CommitChanges ==
    ASSUME TenantInv, NEW r \in Request, Commit(r), tx[r].pc = "written"
    PROVE  Tables!Change(r)
<1>1. PICK q : q = tx[r]
  OBVIOUS
<1>2. /\ q.pc = "written"
      /\ tx' = [tx EXCEPT ![r] = Idle]
      /\ expense' = [expense EXCEPT ![q.exp] = [status |-> q.status, org |-> q.org]]
  BY <1>1 DEF Commit
<1>3. PICK x \in Expense : x = q.exp
  BY <1>1, <1>2, Fields DEF TenantInv
<1>4. /\ q.org \in Org /\ q.status \in Status
      /\ expense'[x].status = q.status /\ expense'[x].org = q.org
      /\ \A e \in Expense \ {x} : expense'[e] = expense[e]
  BY <1>1, <1>2, <1>3, CommittedRow
<1>5. PICK old : old = TableAt[q.org][x]
  OBVIOUS
<1>6. /\ old = expense[x].status /\ old \in Status /\ q.status \in Successors(old)
      /\ \A org \in Org \ {q.org} : expense[x].org # org
  <2>1. /\ q.status \in Successors(expense[x].status)
        /\ expense[x].status = "ABSENT" \/ expense[x].org = q.org
    BY <1>1, <1>2, <1>3 DEF TenantInv, WritesSound
  <2>2. expense[x].status = "ABSENT" => expense[x].org = NoOrg
    BY <1>3 DEF TenantInv, RowsOwned
  <2>3. expense[x].status \in Status
    BY <1>3 DEF TenantInv, TypeOK, Row
  <2>4. old = expense[x].status
    BY <1>4, <1>5, <2>1, <2>2, TenantAssumption DEF TableAt, TableOf
  <2> QED
    BY <1>4, <2>1, <2>2, <2>3, <2>4, TenantAssumption
<1>7. PICK move : move = <<old, q.status>>
  OBVIOUS
<1>8. move \in Moves /\ move[1] = old /\ move[2] = q.status
  BY <1>4, <1>6, <1>7 DEF Moves
<1>9. TableAt' = [TableAt EXCEPT ![q.org] = [TableAt[q.org] EXCEPT ![x] = q.status]]
  <2>1. ASSUME NEW org \in Org, NEW e \in Expense
        PROVE  TableAt'[org][e]
                 = IF org = q.org /\ e = x THEN q.status ELSE TableAt[org][e]
    BY <1>4, <1>6, <2>1 DEF TableAt, TableOf
  <2>2. PICK row : row = [TableAt[q.org] EXCEPT ![x] = q.status]
    OBVIOUS
  <2>3. \A org \in Org : /\ TableAt[org] = [e \in Expense |-> TableAt[org][e]]
                         /\ TableAt'[org] = [e \in Expense |-> TableAt'[org][e]]
    BY DEF TableAt, TableOf
  <2>4. row = [e \in Expense |-> IF e = x THEN q.status ELSE TableAt[q.org][e]]
    BY <1>4, <2>2, <2>3
  <2>5. ASSUME NEW org \in Org
        PROVE  TableAt'[org] = IF org = q.org THEN row ELSE TableAt[org]
    <3>1. CASE org = q.org
      <4>1. \A e \in Expense :
               TableAt'[org][e] = IF e = x THEN q.status ELSE TableAt[q.org][e]
        BY <2>1, <3>1
      <4>2. TableAt'[org] = [e \in Expense |-> TableAt'[org][e]]
        BY <2>3
      <4>3. TableAt'[org] = row
        BY <2>4, <4>1, <4>2
      <4> QED
        BY <3>1, <4>3
    <3>2. CASE org # q.org
      <4>1. \A e \in Expense : TableAt'[org][e] = TableAt[org][e]
        BY <2>1, <3>2
      <4>2. TableAt'[org] = TableAt[org]
        BY <2>3, <4>1
      <4> QED
        BY <3>2, <4>2
    <3> QED
      BY <3>1, <3>2
  <2>6. /\ TableAt = [org \in Org |-> TableAt[org]]
        /\ TableAt' = [org \in Org |-> TableAt'[org]]
    BY DEF TableAt
  <2>7. TableAt' = [TableAt EXCEPT ![q.org] = row]
    BY <1>4, <2>5, <2>6
  <2> QED
    BY <2>2, <2>7
<1>10. PICK c : c = Served(q)
  OBVIOUS
<1>11. c.does = "write" /\ c.org = q.org
  BY <1>2, <1>10 DEF Served
<1>12. Served(Idle) = Tables!Away
  BY DEF Served, Idle, Tables!Away
<1>13. Clients[r] = c /\ Clients' = [Clients EXCEPT ![r] = Tables!Away]
  BY <1>1, <1>2, <1>10, <1>12, ClientFacts DEF TenantInv
<1>14. /\ Clients[r].does = "write"
       /\ TableAt[Clients[r].org][x] = move[1]
       /\ TableAt' = [TableAt EXCEPT ![Clients[r].org] =
                        [TableAt[Clients[r].org] EXCEPT ![x] = move[2]]]
  BY <1>5, <1>8, <1>9, <1>11, <1>13
<1> QED
  BY <1>8, <1>13, <1>14 DEF Tables!Change, Tables!Becomes, Clients, TableAt

LEMMA StepFollows ==
    ASSUME TenantInv, [Next]_vars
    PROVE  [Tables!Next]_(Tables!tables)
<1> USE DEF TenantInv
<1>1. CASE UNCHANGED vars
  BY <1>1 DEF vars, Tables!tables, TableOf, Served
<1>2. ASSUME NEW r \in Request, Begin(r) PROVE UNCHANGED Tables!tables
  <2>1. PICK c \in Connection, org \in Org, work \in {"report", "write"} :
          tx' = [tx EXCEPT ![r] =
                  [pc |-> "begun", conn |-> c, org |-> org, work |-> work]]
    BY <1>2 DEF Begin
  <2>2. tx[r].pc = "idle" /\ UNCHANGED expense
    BY <1>2 DEF Begin
  <2>3. Served([pc |-> "begun", conn |-> c, org |-> org, work |-> work]) = Served(tx[r])
    BY <2>2 DEF Served
  <2> QED
    BY <2>1, <2>2, <2>3, Unseen
<1>3. ASSUME NEW r \in Request, SetTenant(r) PROVE Tables!Next
  BY <1>3, SetTenantOpens DEF Tables!Next
<1>4. ASSUME NEW r \in Request, Query(r) PROVE Tables!Next
  BY <1>4, QueryLooks DEF Tables!Next
<1>5. ASSUME NEW r \in Request, Write(r) PROVE UNCHANGED Tables!tables
  <2>1. PICK e \in Expense : \E status \in Successors(expense[e].status) :
          tx' = [tx EXCEPT ![r] =
                  [pc |-> "written", conn |-> tx[r].conn, org |-> tx[r].org,
                   exp |-> e, status |-> status]]
    BY <1>5 DEF Write
  <2>2. PICK status :
          tx' = [tx EXCEPT ![r] =
                  [pc |-> "written", conn |-> tx[r].conn, org |-> tx[r].org,
                   exp |-> e, status |-> status]]
    BY <2>1
  <2>3. tx[r].pc = "write" /\ UNCHANGED expense
    BY <1>5 DEF Write
  <2>4. Served([pc |-> "written", conn |-> tx[r].conn, org |-> tx[r].org,
                exp |-> e, status |-> status]) = Served(tx[r])
    BY <2>3 DEF Served
  <2> QED
    BY <2>2, <2>3, <2>4, Unseen
<1>6. ASSUME NEW r \in Request, Commit(r) PROVE Tables!Next
  <2>1. tx[r].pc = "report" \/ tx[r].pc = "written"
    BY <1>6 DEF Commit
  <2> QED
    BY <1>6, <2>1, CommitShows, CommitChanges DEF Tables!Next
<1>7. Served(Idle) = Tables!Away /\ Served([pc |-> "closed"]) = Tables!Away
  BY DEF Served, Idle, Tables!Away
<1>8. ASSUME NEW r \in Request,
             Answer(r) \/ Rollback(r) \/ TimeOut(r) \/ LateStatement(r)
      PROVE  Tables!Next \/ UNCHANGED Tables!tables
  <2>1. /\ \/ tx' = [tx EXCEPT ![r] = Idle]
           \/ tx' = [tx EXCEPT ![r] = [pc |-> "closed"]]
        /\ UNCHANGED expense
    BY <1>8 DEF Answer, Rollback, TimeOut, LateStatement
  <2>2. Tables!Leave(r) \/ UNCHANGED Tables!tables
    BY <1>7, <2>1, Leaves
  <2> QED
    BY <2>2 DEF Tables!Next
<1> QED
  BY <1>1, <1>2, <1>3, <1>4, <1>5, <1>6, <1>8 DEF Next

\* To its clients the API is a table for each organization: pooled connections,
\* their settings, the policies of rows, rollbacks and time-outs do not show.
THEOREM ConnectionsImplementTables == Spec => ImplementsTables
<1>1. Init => Tables!Init
  <2> SUFFICES ASSUME Init PROVE Tables!Init
    OBVIOUS
  <2>1. \A org \in Org : TableOf(org) = [e \in Expense |-> "ABSENT"]
    BY TenantAssumption DEF Init, TableOf, Absent
  <2>2. \A r \in Request : Served(tx[r]) = Tables!Away
    BY DEF Init, Idle, Served, Tables!Away
  <2> QED
    BY <2>1, <2>2 DEF Tables!Init
<1> QED
  BY <1>1, TenantInvariant, StepFollows, PTL
  DEF Spec, Tables!Spec, ImplementsTables
=============================================================================
