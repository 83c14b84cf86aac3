--------------------------- MODULE BulkSenderProofs ---------------------------
(***************************************************************************)
(* The bulk sender implements ReportBook, for every number of clients,     *)
(* cargos, campaigns and presses, every owner of the cargos, and every     *)
(* number of retries.                                                      *)
(*                                                                         *)
(* The invariant IInv says what the sessions carry from one step to the    *)
(* next: a report is of one client, a campaign that is about to mark has   *)
(* told him, and a row of the ledger that was found stays there.  RowsInv  *)
(* adds why two sessions that find no row have a cargo in common, AllInv   *)
(* where each cargo of a campaign is, and BillsInv what a campaign that    *)
(* found no row knows of the bills of its cargos.                          *)
(***************************************************************************)
EXTENDS BulkSender, FiniteSetTheorems, TLAPS

OneClients == \A s \in Sessions : \A c \in work[s].batch : Owner[c] = work[s].client

Told == \A t \in Campaigns :
    pc[t] \in {"delivered", "read", "marking"} => work[t].batch \subseteq told

FoundOwes == \A s \in Sessions :
    pc[s] = "marking" /\ work[s].found => debts[work[s].client] > 0

IInv == TypeOK /\ OneClients /\ Told /\ FoundOwes
------------------------------------------------------------------------------
(* The invariant                                                            *)

\* The report that is nobody's.
LEMMA NoReportType == NoReport \in Reports /\ NoReport.batch = {} /\ ~NoReport.found
<1>1. (CHOOSE x \in Clients : TRUE) \in Clients
  BY SenderAssumption
<1>2. 0 \in 0..MaxRetries
  BY SenderAssumption
<1> QED BY <1>1, <1>2 DEF NoReport, NewReport, Reports

\* It holds at the start.
LEMMA InitOK == Init => IInv
<1> SUFFICES ASSUME Init PROVE IInv
  OBVIOUS
<1> USE NoReportType DEF Init
<1>1. TypeOK
  BY SenderAssumption DEF TypeOK, Sessions
<1>2. OneClients /\ Told /\ FoundOwes
  BY DEF OneClients, Told, FoundOwes, Sessions
<1> QED BY <1>1, <1>2 DEF IInv

\* A step of the table, of the dialogue or of the end of a campaign: no report
\* changes and no session comes to a place where it would matter.
LEMMA QuietOK ==
    ASSUME IInv, TypeOK', UNCHANGED <<work, debts, told>>,
           \A s \in Sessions : pc'[s] \in {"delivered", "read", "marking"} => pc'[s] = pc[s]
    PROVE  IInv'
BY DEF IInv, OneClients, Told, FoundOwes, Sessions

\* A session gives its report up.
LEMMA LeaveOK ==
    ASSUME IInv, TypeOK', NEW s \in Sessions, Leave(s), told \subseteq told',
           \A x \in Clients : debts'[x] >= debts[x]
    PROVE  OneClients' /\ Told' /\ FoundOwes'
<1>1. work' = [work EXCEPT ![s] = NoReport] /\ work \in [Sessions -> Reports]
  BY DEF Leave, IInv, TypeOK
<1>2. pc \in [Sessions -> {"idle", "selected", "launching", "loop", "dm", "group",
                           "delivered", "read", "marking", "done", "lost"}]
  BY DEF IInv, TypeOK
<1>3. pc'[s] \in {"done", "loop"} /\ \A r \in Sessions \ {s} : pc'[r] = pc[r]
  BY <1>2 DEF Leave, Goto
<1>4. \A r \in Sessions \ {s} : work'[r] = work[r]
  BY <1>1
<1>5. work'[s] = NoReport
  BY <1>1
<1>6. OneClients'
  BY <1>4, <1>5, NoReportType DEF OneClients, IInv
<1>7. Told'
  BY <1>3, <1>4 DEF Told, IInv, Sessions
<1>8. FoundOwes'
  <2> SUFFICES ASSUME NEW r \in Sessions, pc'[r] = "marking", work'[r].found
               PROVE  debts'[work'[r].client] > 0
    BY DEF FoundOwes
  <2>1. r # s
    BY <1>3
  <2>2. debts[work[r].client] > 0 /\ work[r].client \in Clients
    BY <2>1, <1>1, <1>3, <1>4 DEF IInv, FoundOwes, Reports
  <2>3. debts \in [Clients -> Nat] /\ debts' \in [Clients -> Nat]
    BY DEF IInv, TypeOK
  <2> QED BY <2>1, <2>2, <2>3, <1>4
<1> QED BY <1>6, <1>7, <1>8

------------------------------------------------------------------------------
(* Types                                                                    *)

\* What a campaign reports of a client are cargos.
LEMMA ReportIn == ASSUME TypeOK, NEW t \in Campaigns, NEW x \in Clients PROVE Report(t, x) \subseteq Cargos
BY DEF Report, Of, TypeOK

\* What a report's fields may become.
LEMMA FieldsType ==
    ASSUME NEW r \in Reports, NEW b \in BOOLEAN
    PROVE  /\ [r EXCEPT !.found = b] \in Reports
           /\ r.tries > 1 => [r EXCEPT !.tries = @ - 1] \in Reports
<1>1. [r EXCEPT !.found = b] \in Reports
  BY DEF Reports
<1>2. ASSUME r.tries > 1 PROVE [r EXCEPT !.tries = @ - 1] \in Reports
  <2>1. r.tries - 1 \in 0..MaxRetries
    BY <1>2, SenderAssumption DEF Reports
  <2>2. [r EXCEPT !.tries = r.tries - 1] \in Reports
    BY <2>1 DEF Reports
  <2> QED BY <2>2
<1> QED BY <1>1, <1>2

\* What a report is made of.
LEMMA NewReportType ==
    ASSUME NEW x \in Clients, NEW B \in SUBSET Cargos, NEW n \in 0..MaxRetries
    PROVE  NewReport(x, B, n) \in Reports
BY DEF NewReport, Reports

\* Every step keeps the types.
LEMMA TypeNext == ASSUME TypeOK, Next PROVE TypeOK'
<1> USE NoReportType, SenderAssumption DEF Sessions, Goto
<1>1. ASSUME NEW c \in Cargos, Import(c) \/ Delete(c) PROVE TypeOK'
  BY <1>1 DEF TypeOK, Import, Delete, control, outcome
<1>2. ASSUME NEW t \in Campaigns, Select(t) PROVE TypeOK'
  BY <1>2 DEF TypeOK, Select, Unsent, table, outcome
<1>3. ASSUME NEW t \in Campaigns, Confirm(t) PROVE TypeOK'
  BY <1>3 DEF TypeOK, Confirm, table, outcome
<1>4. ASSUME NEW t \in Campaigns, Cancel(t) PROVE TypeOK'
  BY <1>4 DEF TypeOK, Cancel, table, outcome
<1>5. ASSUME NEW t \in Campaigns, Launch(t) PROVE TypeOK'
  BY <1>5 DEF TypeOK, Launch, table, outcome
<1>6. ASSUME NEW t \in Campaigns, Attempt(t) PROVE TypeOK'
  <2>1. work[t] \in Reports /\ work[t].client \in Clients /\ work[t].batch \subseteq Cargos
    BY DEF TypeOK, Reports
  <2>2. told' \subseteq Cargos
    BY <1>6, <2>1 DEF Attempt, TypeOK
  <2>3. CASE UNCHANGED work
    BY <1>6, <2>1, <2>2, <2>3 DEF TypeOK, Attempt, table, GiveUp, Fails, Leave
  <2>4. CASE /\ work[t].tries > 1
             /\ work' = [work EXCEPT ![t].tries = TriesLeft(@)]
             /\ UNCHANGED <<pc, failed, buttons>>
    <3>1. [work[t] EXCEPT !.tries = @ - 1] \in Reports
      BY <2>1, <2>4, FieldsType
    <3>2. work' \in [Sessions -> Reports]
      BY <2>4, <3>1 DEF TypeOK, TriesLeft
    <3> QED BY <1>6, <2>2, <2>4, <3>2 DEF TypeOK, Attempt, table
  <2>5. CASE GiveUp(t)
    BY <1>6, <2>1, <2>2, <2>5 DEF TypeOK, Attempt, table, GiveUp, Fails, Leave
  <2> QED BY <1>6, <2>3, <2>4, <2>5 DEF Attempt
<1>7. ASSUME NEW s \in Sessions, Mark(s) PROVE TypeOK'
  <2>1. work[s] \in Reports /\ (debts[work[s].client] > 0) \in BOOLEAN
    BY DEF TypeOK
  <2>2. [work[s] EXCEPT !.found = debts[work[s].client] > 0] \in Reports
    BY <2>1, FieldsType
  <2> QED BY <1>7, <2>2 DEF TypeOK, Mark, table, outcome
<1>8. ASSUME NEW s \in Sessions, Commit(s) PROVE TypeOK'
  <2>1. work[s].client \in Clients /\ work[s].batch \subseteq Cargos
    BY DEF TypeOK, Reports
  <2>2. DebtsAfter(s) \in Nat
    BY <2>1 DEF DebtsAfter, TypeOK
  <2>3. debts' \in [Clients -> Nat]
    BY <1>8, <2>2 DEF Commit, TypeOK
  <2>4. billed' \in [Cargos -> SUBSET Sessions]
    BY <1>8 DEF Commit, TypeOK
  <2> QED BY <1>8, <2>1, <2>3, <2>4 DEF TypeOK, Commit, Leave
<1>9. ASSUME NEW s \in Sessions, Rollback(s) PROVE TypeOK'
  <2>1. work[s].client \in Clients
    BY DEF TypeOK, Reports
  <2> QED BY <1>9, <2>1 DEF TypeOK, Rollback, Fails, Leave, table
<1>10. ASSUME NEW t \in Campaigns, Finish(t) PROVE TypeOK'
  BY <1>10 DEF TypeOK, Finish, table, outcome
<1>11. ASSUME NEW t \in Campaigns, NEW x \in Clients, NoData(t, x) PROVE TypeOK'
  BY <1>11, ReportIn DEF TypeOK, NoData, Take, outcome
<1>12. ASSUME NEW t \in Campaigns, NEW x \in Clients, NoChat(t, x) PROVE TypeOK'
  BY <1>12 DEF TypeOK, NoChat, Take, Fails, table
<1>13. ASSUME NEW t \in Campaigns, NEW x \in Clients, Build(t, x) PROVE TypeOK'
  <2>1. NewReport(x, Report(t, x), MaxRetries) \in Reports
    <3>1. Report(t, x) \in SUBSET Cargos /\ MaxRetries \in 0..MaxRetries
      BY ReportIn
    <3> QED BY <3>1, NewReportType
  <2> QED BY <1>13, <2>1 DEF TypeOK, Build, Take, table, outcome
<1>14. ASSUME NEW h \in Hands, NEW x \in Clients, Press(h, x) PROVE TypeOK'
  <2>1. NewReport(x, Of(x, Unsent), 0) \in Reports
    <3>1. Of(x, Unsent) \in SUBSET Cargos /\ 0 \in 0..MaxRetries
      BY DEF Of, Unsent, TypeOK
    <3> QED BY <3>1, NewReportType
  <2> QED BY <1>14, <2>1 DEF TypeOK, Press, table, outcome
<1>15. CASE Crash
  BY <1>15 DEF TypeOK, Crash, table, outcome
<1> QED
  BY <1>1, <1>2, <1>3, <1>4, <1>5, <1>6, <1>7, <1>8, <1>9, <1>10, <1>11, <1>12, <1>13, <1>14,
     <1>15 DEF Next, Work
------------------------------------------------------------------------------
(* The steps keep the invariant                                             *)

\* Whatever happens, the reports are of one client, campaigns mark what was
\* told, and a row that was found is there.
LEMMA StepOK == ASSUME IInv, Next PROVE IInv'
<1> TypeOK /\ TypeOK'
  BY TypeNext DEF IInv
<1> USE DEF Sessions
<1>1. ASSUME NEW c \in Cargos, Import(c) \/ Delete(c) PROVE IInv'
  BY <1>1, QuietOK DEF Import, Delete, control, outcome
<1>2. ASSUME NEW t \in Campaigns, Select(t) \/ Confirm(t) \/ Cancel(t) \/ Launch(t) \/ Finish(t)
      PROVE  IInv'
  <2>1. UNCHANGED <<work, debts, told>>
    BY <1>2 DEF Select, Confirm, Cancel, Launch, Finish, table, outcome
  <2>2. \A s \in Sessions : pc'[s] \in {"delivered", "read", "marking"} => pc'[s] = pc[s]
    BY <1>2 DEF Select, Confirm, Cancel, Launch, Finish, Goto, TypeOK
  <2> QED BY <2>1, <2>2, QuietOK
<1>3. ASSUME NEW t \in Campaigns, Attempt(t) PROVE IInv'
  <2>1. told \subseteq told' /\ debts' = debts
    BY <1>3 DEF Attempt, table
  <2>2. CASE Leave(t)
    BY <2>1, <2>2, LeaveOK DEF IInv, TypeOK
  <2>3. CASE work' = work /\ told' = told \cup work[t].batch /\ Goto(t, "delivered")
    <3>1. \A s \in Sessions : pc'[s] = IF s = t THEN "delivered" ELSE pc[s]
      BY <2>3 DEF Goto, TypeOK
    <3>2. OneClients' /\ FoundOwes'
      BY <2>1, <2>3, <3>1 DEF IInv, OneClients, FoundOwes
    <3>3. Told'
      BY <2>3, <3>1 DEF IInv, Told
    <3> QED BY <3>2, <3>3 DEF IInv
  <2>4. CASE pc' = pc /\ pc[t] \in {"dm", "group"}
             /\ work' = [work EXCEPT ![t].tries = TriesLeft(@)]
    <3>1. \A s \in Sessions : work'[s].batch = work[s].batch /\ work'[s].client = work[s].client
                              /\ work'[s].found = work[s].found
      BY <2>4 DEF TypeOK, Reports
    <3>2. OneClients'
      BY <3>1 DEF IInv, OneClients
    <3>3. Told'
      BY <2>1, <2>4, <3>1 DEF IInv, Told
    <3>4. FoundOwes'
      BY <2>1, <2>4, <3>1 DEF IInv, FoundOwes
    <3> QED BY <3>2, <3>3, <3>4 DEF IInv
  <2> QED BY <1>3, <2>2, <2>3, <2>4 DEF Attempt, GiveUp
<1>4. ASSUME NEW s \in Sessions, Mark(s) PROVE IInv'
  <2>1. debts' = debts /\ told' = told
    BY <1>4 DEF Mark, table, outcome
  <2>2. \A r \in Sessions : /\ work'[r].batch = work[r].batch /\ work'[r].client = work[r].client
                            /\ r # s => work'[r] = work[r]
                            /\ r = s => work'[r].found = (debts[work[r].client] > 0)
    BY <1>4 DEF Mark, TypeOK, Reports
  <2>3. \A r \in Sessions : pc'[r] = IF r = s THEN "marking" ELSE pc[r]
    BY <1>4 DEF Mark, Goto, TypeOK
  <2>4. OneClients'
    BY <2>2 DEF IInv, OneClients
  <2>5. Told'
    BY <1>4, <2>1, <2>2, <2>3 DEF Mark, IInv, Told
  <2>6. FoundOwes'
    BY <2>1, <2>2, <2>3 DEF IInv, FoundOwes
  <2> QED BY <2>4, <2>5, <2>6 DEF IInv
<1>5. ASSUME NEW s \in Sessions, Commit(s) PROVE IInv'
  <2>1. work[s].client \in Clients
    BY DEF TypeOK, Reports
  <2>2. \A x \in Clients : debts'[x] >= debts[x]
    BY <1>5, <2>1 DEF Commit, DebtsAfter, TypeOK
  <2> QED BY <1>5, <2>2, LeaveOK DEF Commit, IInv
<1>6. ASSUME NEW s \in Sessions, Rollback(s) PROVE IInv'
  BY <1>6, LeaveOK DEF Rollback, table, IInv, TypeOK
<1>7. ASSUME NEW t \in Campaigns, NEW x \in Clients, NoData(t, x) \/ NoChat(t, x) PROVE IInv'
  BY <1>7, QuietOK DEF NoData, NoChat, table
<1>8. ASSUME NEW s \in Sessions, NEW x \in Clients, NEW B \in SUBSET Cargos, NEW n \in Nat,
             \A c \in B : Owner[c] = x,
             work' = [work EXCEPT ![s] = NewReport(x, B, n)], UNCHANGED <<debts, told>>,
             \/ Goto(s, "dm") \/ Goto(s, "group")
             \/ Goto(s, "read") /\ s \in Hands
      PROVE  IInv'
  <2>1. \A r \in Sessions \ {s} : work'[r] = work[r] /\ pc'[r] = pc[r]
    BY <1>8 DEF TypeOK, Goto
  <2>2. pc'[s] \in {"dm", "group", "read"} /\ (pc'[s] = "read" => s \in Hands)
    BY <1>8 DEF TypeOK, Goto
  <2>3. work'[s].batch = B /\ work'[s].client = x
    BY <1>8 DEF TypeOK, NewReport
  <2>4. OneClients'
    BY <1>8, <2>1, <2>3 DEF IInv, OneClients
  <2>5. Told'
    BY <1>8, <2>1, <2>2, SenderAssumption DEF IInv, Told
  <2>6. FoundOwes'
    BY <1>8, <2>1, <2>2 DEF IInv, FoundOwes
  <2> QED BY <2>4, <2>5, <2>6 DEF IInv
<1>9. ASSUME NEW t \in Campaigns, NEW x \in Clients, Build(t, x) PROVE IInv'
  <2>1. Report(t, x) \in SUBSET Cargos /\ \A c \in Report(t, x) : Owner[c] = x
    BY ReportIn DEF Report, Of
  <2> QED BY <1>8, <1>9, <2>1, SenderAssumption DEF Build, table, outcome
<1>10. ASSUME NEW h \in Hands, NEW x \in Clients, Press(h, x) PROVE IInv'
  <2>1. Of(x, Unsent) \in SUBSET Cargos /\ \A c \in Of(x, Unsent) : Owner[c] = x
    BY DEF Of, Unsent, TypeOK
  <2> QED BY <1>8, <1>10, <2>1 DEF Press, table, outcome
<1>11. ASSUME Crash PROVE IInv'
  <2>1. work' = [s \in Sessions |-> NoReport] /\ UNCHANGED <<debts, told>>
    BY <1>11 DEF Crash, table, outcome
  <2> QED BY <2>1, NoReportType DEF IInv, OneClients, Told, FoundOwes
<1> QED
  BY <1>1, <1>2, <1>3, <1>4, <1>5, <1>6, <1>7, <1>9, <1>10, <1>11 DEF Next, Work

\* So does a step of something else.
LEMMA StutterOK == ASSUME IInv, UNCHANGED vars PROVE IInv'
BY DEF IInv, TypeOK, OneClients, Told, FoundOwes, vars, table, control, outcome

\* In every state the reports are of one client each, a campaign marks only
\* what it has told, and a row it has found is still in the ledger.
THEOREM Inductive == Spec => []IInv
<1>1. Init => IInv
  BY InitOK
<1>2. IInv /\ [Next]_vars => IInv'
  BY StepOK, StutterOK
<1> QED BY <1>1, <1>2, PTL DEF Spec

\* Lists, reports and retries have their types: no attempt beyond the last.
THEOREM TypeCorrect == Spec => []TypeOK
<1>1. IInv => TypeOK
  BY DEF IInv
<1> QED BY <1>1, Inductive, PTL
------------------------------------------------------------------------------
(* The refinement                                                           *)

Owes == {x \in DOMAIN debts : debts[x] > 0}

\* A step that closes nothing and bills nobody tells something, or nothing.
LEMMA TellsOrStutters ==
    ASSUME NEW S \in SUBSET Cargos, UNCHANGED <<sent, debts, vouched>>,
           told' \in {told, told \cup S}
    PROVE  [Book!Next]_(Book!book)
<1>1. CASE told' = told
  BY <1>1 DEF Book!book
<1>2. CASE told' = told \cup S
  <2>1. Book!Tell(S)
    BY <1>2 DEF Book!Tell
  <2> QED BY <2>1 DEF Book!Next
<1> QED BY <1>1, <1>2

\* Every step of the sender is a step of the book, or none.
LEMMA BookStep == ASSUME IInv, Next PROVE [Book!Next]_(Book!book)
<1> TypeOK
  BY DEF IInv
<1> USE DEF Sessions
<1>1. ASSUME UNCHANGED <<sent, debts, told, vouched>> PROVE [Book!Next]_(Book!book)
  BY <1>1 DEF Book!book
<1>2. ASSUME NEW c \in Cargos, Import(c) \/ Delete(c) PROVE [Book!Next]_(Book!book)
  BY <1>1, <1>2 DEF Import, Delete, control, outcome
<1>3. ASSUME NEW t \in Campaigns, Select(t) \/ Confirm(t) \/ Cancel(t) \/ Launch(t) \/ Finish(t)
      PROVE  [Book!Next]_(Book!book)
  BY <1>1, <1>3 DEF Select, Confirm, Cancel, Launch, Finish, table, outcome
<1>4. ASSUME NEW t \in Campaigns, Attempt(t) PROVE [Book!Next]_(Book!book)
  <2>1. work[t].batch \in SUBSET Cargos
    BY DEF TypeOK, Reports
  <2>2. UNCHANGED <<sent, debts, vouched>> /\ told' \in {told, told \cup work[t].batch}
    BY <1>4 DEF Attempt, table
  <2> QED BY <2>1, <2>2, TellsOrStutters
<1>5. ASSUME NEW s \in Sessions, Mark(s) \/ Rollback(s) PROVE [Book!Next]_(Book!book)
  BY <1>1, <1>5 DEF Mark, Rollback, table, outcome
<1>6. ASSUME NEW s \in Sessions, Commit(s) PROVE [Book!Next]_(Book!book)
  <2> PICK x \in Clients, B \in SUBSET Cargos : x = work[s].client /\ B = work[s].batch
    BY DEF TypeOK, Reports
  <2>1. \A c \in B : Owner[c] = x
    BY DEF IInv, OneClients
  <2>2. B \subseteq told' \cup vouched' /\ told \cup vouched \subseteq told' \cup vouched'
    <3>1. CASE s \in Hands
      BY <1>6, <3>1 DEF Commit
    <3>2. CASE s \in Campaigns
      BY <1>6, <3>2, SenderAssumption DEF Commit, IInv, Told
    <3> QED BY <3>1, <3>2
  <2>3. debts[x] \in Nat /\ debts'[x] = DebtsAfter(s)
    BY <1>6, <2>1 DEF Commit, TypeOK
  <2>4. debts'[x] > 0
    BY <1>6, <2>3 DEF Commit, DebtsAfter, IInv, FoundOwes
  <2>5. DOMAIN debts' = DOMAIN debts /\ x \in DOMAIN debts
        /\ \A y \in DOMAIN debts : y # x => debts'[y] = debts[y]
    BY <1>6, <2>1 DEF Commit, TypeOK
  <2>6. Owes' = Owes \cup {x}
    BY <2>4, <2>5 DEF Owes
  <2>7. sent' = sent \cup B
    BY <1>6 DEF Commit
  <2>8. Book!Close(x, B)
    BY <2>1, <2>2, <2>6, <2>7 DEF Book!Close, Owes
  <2> QED BY <2>8 DEF Book!Next
<1>7. ASSUME NEW t \in Campaigns, NEW x \in Clients, NoData(t, x) PROVE [Book!Next]_(Book!book)
  <2>1. Report(t, x) \in SUBSET Cargos /\ \A c \in Report(t, x) : Owner[c] = x
    BY ReportIn DEF Report, Of
  <2>2. Book!NothingToTell(x, Report(t, x))
    BY <1>7, <2>1 DEF NoData, Book!NothingToTell
  <2> QED BY <2>1, <2>2 DEF Book!Next
<1>8. ASSUME NEW t \in Campaigns, NEW x \in Clients, NoChat(t, x) \/ Build(t, x)
      PROVE  [Book!Next]_(Book!book)
  BY <1>1, <1>8 DEF NoChat, Build, table, outcome
<1>9. ASSUME NEW h \in Hands, NEW x \in Clients, Press(h, x) PROVE [Book!Next]_(Book!book)
  BY <1>1, <1>9 DEF Press, table, outcome
<1>10. ASSUME Crash PROVE [Book!Next]_(Book!book)
  BY <1>1, <1>10 DEF Crash, table, outcome
<1> QED
  BY <1>2, <1>3, <1>4, <1>5, <1>6, <1>7, <1>8, <1>9, <1>10 DEF Next, Work

\* The bulk sender implements the report book: whatever campaigns, presses,
\* retries and crashes there are, a cargo is marked as sent in the step in which
\* its client comes to owe for the flight, and only after he has been told.
THEOREM ImplementsBook == Spec => IsReportBook
<1>1. Init => Book!Init
  BY DEF Init, Book!Init
<1>2. IInv /\ [Next]_vars => [Book!Next]_(Book!book)
  <2>1. ASSUME UNCHANGED vars PROVE UNCHANGED Book!book
    BY <2>1 DEF vars, table, outcome, Book!book
  <2> QED BY <2>1, BookStep
<1> QED BY <1>1, <1>2, Inductive, PTL DEF Spec, IsReportBook, Book!Spec
------------------------------------------------------------------------------
(* One row of debt.  As long as a client owes nothing and none of his cargos   *)
(* was deleted or excused, what sessions hold of his are snapshots of a list   *)
(* that only grows: any two of them have a cargo in common, whose row one of   *)
(* the two sessions locks first.                                               *)

Clean(x) == Of(x, deleted \cup excused) = {}
Busy(s) == pc[s] \in {"dm", "group", "delivered", "read", "marking"}
Holds(x, S) ==
    \/ \E t \in Campaigns : S = Of(x, plan[t])
    \/ \E s \in Sessions : Busy(s) /\ work[s].client = x /\ S = work[s].batch
Marks(s, x) == pc[s] = "marking" /\ work[s].client = x

Known ==
    /\ \A t \in Campaigns : plan[t] \subseteq stored \cup deleted
    /\ \A s \in Sessions : work[s].batch \subseteq stored \cup deleted
NonEmpty == \A s \in Sessions : Busy(s) => work[s].batch # {}
SentOwes == \A x \in Clients : Clean(x) /\ Of(x, sent) # {} => debts[x] > 0
Nested == \A x \in Clients : Clean(x) /\ debts[x] = 0 =>
    \A S, T \in SUBSET Cargos : Holds(x, S) /\ Holds(x, T) => S \subseteq T \/ T \subseteq S
Alone == \A x \in Clients : Clean(x) =>
    /\ debts[x] <= 1
    /\ \A s, r \in Sessions : Marks(s, x) /\ ~work[s].found /\ Marks(r, x) => debts[x] = 0 /\ r = s

RowsInv == IInv /\ Known /\ NonEmpty /\ SentOwes /\ Nested /\ Alone

\* Nothing is held at the start.
LEMMA RowsInit == Init => RowsInv
<1> SUFFICES ASSUME Init PROVE RowsInv
  OBVIOUS
<1> IInv
  BY InitOK
<1> USE NoReportType DEF Init
<1>1. Known /\ NonEmpty /\ SentOwes
  BY DEF Known, NonEmpty, SentOwes, Busy, Sessions, Of
<1>2. Nested
  BY DEF Nested, Holds, Busy, Sessions, Of
<1>3. Alone
  BY DEF Alone, Marks, Sessions
<1> QED BY <1>1, <1>2, <1>3 DEF RowsInv

\* What is held of a clean client is in the table.
LEMMA HeldIsStored ==
    ASSUME RowsInv, NEW x \in Clients, Clean(x), NEW S \in SUBSET Cargos, Holds(x, S)
    PROVE  S \subseteq Of(x, stored)
BY DEF RowsInv, IInv, TypeOK, OneClients, Known, Holds, Clean, Of

\* What is held stays a chain if only the list as it is comes to be held.
LEMMA NestedKept ==
    ASSUME RowsInv, NEW x \in Clients, Clean(x), debts[x] = 0,
           \A S \in SUBSET Cargos : Holds(x, S)' => Holds(x, S) \/ S = Of(x, stored)
    PROVE  \A S, T \in SUBSET Cargos :
               Holds(x, S)' /\ Holds(x, T)' => S \subseteq T \/ T \subseteq S
BY HeldIsStored DEF RowsInv, Nested

\* What is unsent of a client who owes nothing is all there is of his.
LEMMA UnsentIsStored ==
    ASSUME RowsInv, NEW x \in Clients, Clean(x), debts[x] = 0
    PROVE  Of(x, Unsent) = Of(x, stored)
BY DEF RowsInv, SentOwes, Of, Unsent

\* A step that changes neither the table nor a plan and takes no report up.
LEMMA KeepOK ==
    ASSUME RowsInv, IInv', UNCHANGED <<stored, deleted, sent, debts, excused, plan>>,
           \A s \in Sessions : /\ Busy(s)' => /\ Busy(s)
                                             /\ work'[s].batch = work[s].batch
                                             /\ work'[s].client = work[s].client
                                             /\ work'[s].found = work[s].found
                               /\ pc'[s] = "marking" => pc[s] = "marking"
                               /\ work'[s].batch \subseteq work[s].batch
    PROVE  RowsInv'
<1>1. Known' /\ NonEmpty' /\ SentOwes'
  BY DEF RowsInv, Known, NonEmpty, SentOwes, Clean
<1>2. \A x \in Clients, S \in SUBSET Cargos : Holds(x, S)' => Holds(x, S)
  BY DEF Holds
<1>3. Nested'
  BY <1>2 DEF RowsInv, Nested, Clean
<1>4. \A s \in Sessions, x \in Clients : Marks(s, x)' => Marks(s, x) /\ work'[s].found = work[s].found
  BY DEF Marks, Busy
<1>5. Alone'
  BY <1>4 DEF RowsInv, Alone, Clean
<1> QED BY <1>1, <1>3, <1>5 DEF RowsInv

\* A session gives its report up and nothing else of this happens.
LEMMA GivesUpOK ==
    ASSUME RowsInv, IInv', NEW s \in Sessions, Leave(s),
           UNCHANGED <<stored, deleted, sent, debts, excused, plan>>
    PROVE  RowsInv'
<1>1. \A r \in Sessions : IF r = s THEN work'[r] = NoReport ELSE work'[r] = work[r]
  BY DEF Leave, RowsInv, IInv, TypeOK
<1>2. \A r \in Sessions : IF r = s THEN pc'[r] \in {"done", "loop"} ELSE pc'[r] = pc[r]
  BY DEF Leave, Goto, RowsInv, IInv, TypeOK
<1> QED BY <1>1, <1>2, NoReportType, KeepOK DEF Busy

\* A report is taken up: the list as it is, or what the campaign holds of it.
LEMMA TakesOK ==
    ASSUME RowsInv, IInv', NEW s \in Sessions, NEW x \in Clients, NEW B \in SUBSET Cargos, B # {},
           NEW n \in Nat, work' = [work EXCEPT ![s] = NewReport(x, B, n)], ~Busy(s),
           Goto(s, "dm") \/ Goto(s, "group") \/ Goto(s, "read"),
           UNCHANGED <<stored, deleted, sent, debts, excused, plan>>, B \subseteq stored,
           Clean(x) /\ debts[x] = 0 => Holds(x, B) \/ B = Of(x, stored)
    PROVE  RowsInv'
<1>1. \A r \in Sessions : IF r = s THEN work'[r].batch = B /\ work'[r].client = x
                                   ELSE work'[r] = work[r]
  BY DEF RowsInv, IInv, TypeOK, NewReport
<1>2. \A r \in Sessions : IF r = s THEN pc'[r] \in {"dm", "group", "read"} ELSE pc'[r] = pc[r]
  BY DEF Goto, RowsInv, IInv, TypeOK
<1>3. Known' /\ NonEmpty' /\ SentOwes'
  BY <1>1, <1>2 DEF RowsInv, Known, NonEmpty, SentOwes, Clean, Busy
<1>4. \A y \in Clients, S \in SUBSET Cargos :
         Holds(y, S)' => Holds(y, S) \/ (y = x /\ S = B)
  BY <1>1, <1>2 DEF Holds, Busy
<1>5. Nested'
  <2> SUFFICES ASSUME NEW y \in Clients, Clean(y)', debts'[y] = 0
               PROVE  \A S, T \in SUBSET Cargos :
                          Holds(y, S)' /\ Holds(y, T)' => S \subseteq T \/ T \subseteq S
    BY DEF Nested
  <2>1. Clean(y) /\ debts[y] = 0
    BY DEF Clean
  <2> QED BY <1>4, <2>1, NestedKept
<1>6. \A r \in Sessions, y \in Clients :
         Marks(r, y)' => Marks(r, y) /\ work'[r].found = work[r].found
  BY <1>1, <1>2 DEF Marks
<1>7. Alone'
  BY <1>6 DEF RowsInv, Alone, Clean
<1> QED BY <1>3, <1>5, <1>7 DEF RowsInv

\* A session marks: while the client owes nothing nobody else marks for him.
LEMMA MarkRows == ASSUME RowsInv, IInv', NEW s \in Sessions, Mark(s) PROVE RowsInv'
<1>1. UNCHANGED <<stored, deleted, sent, debts, excused, plan>>
  BY DEF Mark, table, outcome
<1>2. \A r \in Sessions : /\ work'[r].batch = work[r].batch /\ work'[r].client = work[r].client
                          /\ r # s => work'[r] = work[r]
                          /\ r = s => work'[r].found = (debts[work[r].client] > 0)
  BY DEF Mark, RowsInv, IInv, TypeOK, Reports
<1>3. \A r \in Sessions : pc'[r] = IF r = s THEN "marking" ELSE pc[r]
  BY DEF Mark, Goto, RowsInv, IInv, TypeOK
<1>4. Busy(s) /\ work[s].batch \cap Locked = {}
  BY DEF Mark, Busy
<1> PICK c \in Clients : c = work[s].client
  BY DEF RowsInv, IInv, TypeOK, Reports
<1>9. ASSUME ~work'[s].found PROVE debts[c] = 0
  <2>1. work'[s].found = (debts[c] > 0)
    BY <1>2
  <2>2. ~(debts[c] > 0)
    BY <1>9, <2>1
  <2>3. debts[c] \in Nat
    BY DEF RowsInv, IInv, TypeOK
  <2> QED BY <2>2, <2>3
<1>5. Known' /\ NonEmpty' /\ SentOwes'
  BY <1>1, <1>2, <1>3, <1>4 DEF RowsInv, Known, NonEmpty, SentOwes, Clean, Busy
<1>6. \A x \in Clients, S \in SUBSET Cargos : Holds(x, S)' => Holds(x, S)
  BY <1>1, <1>2, <1>3, <1>4 DEF Holds, Busy
<1>7. Nested'
  BY <1>1, <1>6 DEF RowsInv, Nested, Clean
<1>8. Alone'
  <2> SUFFICES ASSUME NEW x \in Clients, Clean(x)', NEW r \in Sessions, NEW q \in Sessions,
                      Marks(r, x)', ~work'[r].found, Marks(q, x)'
               PROVE  debts[x] = 0 /\ q = r
    BY <1>1 DEF RowsInv, Alone, Clean
  <2>1. Clean(x) /\ debts[x] \in Nat
    BY <1>1 DEF Clean, RowsInv, IInv, TypeOK
  <2>2. CASE r # s /\ q # s
    BY <1>2, <1>3, <2>1, <2>2 DEF RowsInv, Alone, Marks
  <2>3. CASE r = s /\ q = s
    BY <1>2, <1>9, <2>3 DEF Marks
  <2>4. ASSUME NEW p \in Sessions, p # s, Marks(p, x), work[s].client = x, debts[x] = 0
        PROVE  FALSE
    <3>1. work[p].batch \subseteq Locked
      BY <2>4 DEF Locked, Marks
    <3>2. work[p].batch # {} /\ work[s].batch # {}
      BY <1>4, <2>4 DEF RowsInv, NonEmpty, Marks, Busy
    <3>3. Holds(x, work[p].batch) /\ Holds(x, work[s].batch)
      BY <1>4, <2>4 DEF Holds, Marks, Busy
    <3>4. work[p].batch \in SUBSET Cargos /\ work[s].batch \in SUBSET Cargos
      BY DEF RowsInv, IInv, TypeOK, Reports
    <3>5. work[p].batch \subseteq work[s].batch \/ work[s].batch \subseteq work[p].batch
      BY <2>1, <2>4, <3>3, <3>4 DEF RowsInv, Nested
    <3> QED BY <1>4, <3>1, <3>2, <3>5
  <2>5. CASE r = s /\ q # s
    <3>1. c = x /\ debts[x] = 0
      BY <1>2, <1>9, <2>5 DEF Marks
    <3>2. Marks(q, x)
      BY <1>2, <1>3, <2>5 DEF Marks
    <3> QED BY <2>4, <2>5, <3>1, <3>2
  <2>6. CASE r # s /\ q = s
    <3>1. Marks(r, x) /\ ~work[r].found /\ work[s].client = x
      BY <1>2, <1>3, <2>6 DEF Marks
    <3>2. debts[x] = 0
      BY <2>1, <3>1 DEF RowsInv, Alone
    <3> QED BY <2>4, <2>6, <3>1, <3>2
  <2> QED BY <2>2, <2>3, <2>5, <2>6
<1> QED BY <1>5, <1>7, <1>8 DEF RowsInv

\* A session commits: only one that found no row adds one.
LEMMA CommitRows == ASSUME RowsInv, IInv', NEW s \in Sessions, Commit(s) PROVE RowsInv'
<1> TypeOK /\ OneClients /\ FoundOwes
  BY DEF RowsInv, IInv
<1>1. UNCHANGED <<stored, deleted, excused, plan>> /\ sent' = sent \cup work[s].batch
  BY DEF Commit
<1>2. \A r \in Sessions : IF r = s THEN work'[r] = NoReport ELSE work'[r] = work[r]
  BY DEF Commit, Leave, TypeOK
<1>3. \A r \in Sessions : IF r = s THEN pc'[r] \in {"done", "loop"} ELSE pc'[r] = pc[r]
  BY DEF Commit, Leave, Goto, TypeOK
<1> PICK c \in Clients : c = work[s].client
  BY DEF TypeOK, Reports
<1>4. Marks(s, c) /\ debts[c] \in Nat
  BY DEF Commit, Marks, TypeOK
<1>5. /\ \A x \in Clients : x # c => debts'[x] = debts[x]
      /\ debts'[c] = IF work[s].found THEN debts[c] ELSE debts[c] + 1
      /\ debts'[c] > 0
  BY <1>4 DEF Commit, DebtsAfter, TypeOK, FoundOwes
<1>6. Known' /\ NonEmpty'
  BY <1>1, <1>2, <1>3, NoReportType DEF RowsInv, Known, NonEmpty, Busy
<1>7. SentOwes'
  BY <1>1, <1>5 DEF RowsInv, SentOwes, OneClients, Clean, Of
<1>8. \A x \in Clients, S \in SUBSET Cargos : Holds(x, S)' => Holds(x, S)
  BY <1>1, <1>2, <1>3 DEF Holds, Busy
<1>9. Nested'
  <2> SUFFICES ASSUME NEW x \in Clients, Clean(x)', debts'[x] = 0
               PROVE  \A S, T \in SUBSET Cargos :
                          Holds(x, S)' /\ Holds(x, T)' => S \subseteq T \/ T \subseteq S
    BY DEF Nested
  <2>1. x # c
    BY <1>5
  <2>2. Clean(x)
    BY <1>1 DEF Clean
  <2>3. debts[x] = 0
    BY <1>5, <2>1
  <2> QED BY <1>8, <2>2, <2>3, NestedKept
<1>10. \A r \in Sessions, x \in Clients :
          Marks(r, x)' => r # s /\ Marks(r, x) /\ work'[r].found = work[r].found
  BY <1>2, <1>3 DEF Marks
<1>11. Alone'
  <2> SUFFICES ASSUME NEW x \in Clients, Clean(x)
               PROVE  /\ debts'[x] <= 1
                      /\ \A r, q \in Sessions :
                            Marks(r, x)' /\ ~work'[r].found /\ Marks(q, x)' => debts'[x] = 0 /\ q = r
    BY <1>1 DEF Alone, Clean
  <2>1. CASE x # c
    BY <1>5, <1>10, <2>1 DEF RowsInv, Alone
  <2>2. CASE x = c
    BY <1>4, <1>5, <1>10, <2>2 DEF RowsInv, Alone
  <2> QED BY <2>1, <2>2
<1> QED BY <1>6, <1>7, <1>9, <1>11 DEF RowsInv

\* Rows are imported or deleted: a clean client's list only grows.
LEMMA TableRows ==
    ASSUME RowsInv, IInv', NEW c \in Cargos, Import(c) \/ Delete(c)
    PROVE  RowsInv'
<1>1. /\ UNCHANGED <<sent, debts, excused, plan, pc, work>>
      /\ deleted \subseteq deleted' /\ stored \cup deleted \subseteq stored' \cup deleted'
  BY DEF Import, Delete, control, outcome
<1>2. \A x \in Clients : Clean(x)' => Clean(x)
  BY <1>1 DEF Clean, Of
<1>3. \A x \in Clients, S \in SUBSET Cargos : Holds(x, S)' <=> Holds(x, S)
  BY <1>1 DEF Holds, Busy
<1>4. Known' /\ NonEmpty' /\ SentOwes'
  BY <1>1, <1>2 DEF RowsInv, Known, NonEmpty, SentOwes, Busy
<1>5. Nested'
  BY <1>1, <1>2, <1>3 DEF RowsInv, Nested
<1>6. Alone'
  BY <1>1, <1>2 DEF RowsInv, Alone, Marks
<1> QED BY <1>4, <1>5, <1>6 DEF RowsInv

\* A campaign is started with what is unsent now.
LEMMA SelectRows == ASSUME RowsInv, IInv', NEW t \in Campaigns, Select(t) PROVE RowsInv'
<1>1. UNCHANGED <<stored, deleted, sent, debts, excused, work>>
  BY DEF Select, table, outcome
<1>2. \A u \in Campaigns : plan'[u] = IF u = t THEN Unsent ELSE plan[u]
  BY DEF Select, RowsInv, IInv, TypeOK
<1>3. \A s \in Sessions : (Busy(s)' <=> Busy(s)) /\ (pc'[s] = "marking" <=> pc[s] = "marking")
  BY DEF Select, Goto, Busy, RowsInv, IInv, TypeOK
<1>4. Known' /\ NonEmpty' /\ SentOwes'
  BY <1>1, <1>2, <1>3 DEF RowsInv, Known, NonEmpty, SentOwes, Clean, Unsent
<1>5. Nested'
  <2> SUFFICES ASSUME NEW x \in Clients, Clean(x)', debts'[x] = 0
               PROVE  \A S, T \in SUBSET Cargos :
                          Holds(x, S)' /\ Holds(x, T)' => S \subseteq T \/ T \subseteq S
    BY DEF Nested
  <2>1. Clean(x) /\ debts[x] = 0
    BY <1>1 DEF Clean
  <2>2. \A S \in SUBSET Cargos : Holds(x, S)' => Holds(x, S) \/ S = Of(x, stored)
    BY <1>1, <1>2, <1>3, <2>1, UnsentIsStored DEF Holds
  <2> QED BY <2>1, <2>2, NestedKept
<1>6. Alone'
  BY <1>1, <1>3 DEF RowsInv, Alone, Clean, Marks
<1> QED BY <1>4, <1>5, <1>6 DEF RowsInv

\* Cargos are marked as sent with nothing to tell: their client is clean no more.
LEMMA NoDataRows ==
    ASSUME RowsInv, IInv', NEW t \in Campaigns, NEW x \in Clients, NoData(t, x)
    PROVE  RowsInv'
<1>1. /\ UNCHANGED <<stored, deleted, debts, plan, pc, work>>
      /\ sent' = sent \cup Report(t, x) /\ excused' = excused \cup Report(t, x)
  BY DEF NoData, Take
<1>2. \A y \in Clients : Clean(y)' => Clean(y) /\ Of(y, Report(t, x)) = {}
  BY <1>1 DEF Clean, Of
<1>3. \A y \in Clients, S \in SUBSET Cargos : Holds(y, S)' <=> Holds(y, S)
  BY <1>1 DEF Holds, Busy
<1>4. Known' /\ NonEmpty'
  BY <1>1 DEF RowsInv, Known, NonEmpty, Busy
<1>5. SentOwes'
  BY <1>1, <1>2 DEF RowsInv, SentOwes, Of
<1>6. Nested'
  BY <1>1, <1>2, <1>3 DEF RowsInv, Nested
<1>7. Alone'
  BY <1>1, <1>2 DEF RowsInv, Alone, Marks
<1> QED BY <1>4, <1>5, <1>6, <1>7 DEF RowsInv

\* Every step keeps the invariant.
LEMMA RowsStep == ASSUME RowsInv, Next PROVE RowsInv'
<1> IInv /\ IInv' /\ TypeOK
  BY StepOK DEF RowsInv, IInv
<1> USE DEF Sessions
<1>1. ASSUME NEW t \in Campaigns, Confirm(t) \/ Cancel(t) \/ Launch(t) \/ Finish(t)
      PROVE  RowsInv'
  <2>1. UNCHANGED <<table, plan, work, excused>>
    BY <1>1 DEF Confirm, Cancel, Launch, Finish, outcome
  <2>2. \A s \in Sessions : (Busy(s)' <=> Busy(s)) /\ (pc'[s] = "marking" => pc[s] = "marking")
    BY <1>1 DEF Confirm, Cancel, Launch, Finish, Goto, Busy, TypeOK
  <2> QED BY <2>1, <2>2, KeepOK DEF table
<1>2. ASSUME NEW t \in Campaigns, NEW x \in Clients, NoChat(t, x) PROVE RowsInv'
  BY <1>2, KeepOK DEF NoChat, Take, table, Busy
<1>3. ASSUME NEW t \in Campaigns, Attempt(t) PROVE RowsInv'
  <2>1. UNCHANGED <<stored, deleted, sent, debts, excused, plan>>
    BY <1>3 DEF Attempt, table
  <2>2. CASE Leave(t)
    BY <2>1, <2>2, GivesUpOK
  <2>3. CASE work' = work /\ Goto(t, "delivered")
    BY <1>3, <2>1, <2>3, KeepOK DEF Attempt, Goto, Busy, TypeOK
  <2>4. CASE pc' = pc /\ work' = [work EXCEPT ![t].tries = TriesLeft(@)]
    <3>1. \A s \in Sessions : work'[s].batch = work[s].batch /\ work'[s].client = work[s].client
                              /\ work'[s].found = work[s].found
      BY <2>4 DEF TypeOK, Reports
    <3> QED BY <2>1, <2>4, <3>1, KeepOK DEF Busy
  <2> QED BY <1>3, <2>2, <2>3, <2>4 DEF Attempt, GiveUp
<1>4. ASSUME NEW s \in Sessions, Rollback(s) PROVE RowsInv'
  BY <1>4, GivesUpOK DEF Rollback, table
<1>5. ASSUME NEW t \in Campaigns, NEW x \in Clients, Build(t, x) PROVE RowsInv'
  <2>1. /\ UNCHANGED <<stored, deleted, sent, debts, excused, plan>>
        /\ work' = [work EXCEPT ![t] = NewReport(x, Report(t, x), MaxRetries)]
        /\ Goto(t, "dm") \/ Goto(t, "group")
        /\ ~Busy(t) /\ Report(t, x) # {}
    BY <1>5 DEF Build, Take, table, outcome, Busy
  <2>2. Report(t, x) \in SUBSET Cargos /\ Report(t, x) \subseteq stored
    BY DEF Report, Of, TypeOK
  <2>3. Clean(x) => Holds(x, Report(t, x))
    <3>1. plan[t] \subseteq stored \cup deleted
      BY DEF RowsInv, Known
    <3>2. Clean(x) => Report(t, x) = Of(x, plan[t])
      BY <3>1 DEF Clean, Report, Of
    <3> QED BY <3>2 DEF Holds
  <2> QED BY <2>1, <2>2, <2>3, TakesOK, SenderAssumption
<1>6. ASSUME NEW h \in Hands, NEW x \in Clients, Press(h, x) PROVE RowsInv'
  <2>1. /\ UNCHANGED <<stored, deleted, sent, debts, excused, plan>>
        /\ work' = [work EXCEPT ![h] = NewReport(x, Of(x, Unsent), 0)]
        /\ Goto(h, "read") /\ ~Busy(h) /\ Of(x, Unsent) # {}
    BY <1>6 DEF Press, table, outcome, Busy
  <2>2. Of(x, Unsent) \in SUBSET Cargos /\ Of(x, Unsent) \subseteq stored
    BY DEF Of, Unsent, TypeOK
  <2> QED BY <2>1, <2>2, TakesOK, UnsentIsStored
<1>7. ASSUME Crash PROVE RowsInv'
  <2>1. /\ UNCHANGED <<stored, deleted, sent, debts, excused, plan>>
        /\ work' = [s \in Sessions |-> NoReport]
        /\ \A s \in Sessions : ~Busy(s)' /\ pc'[s] # "marking"
    BY <1>7 DEF Crash, table, outcome, Busy
  <2> QED BY <2>1, KeepOK, NoReportType
<1> QED
  BY <1>1, <1>2, <1>3, <1>4, <1>5, <1>6, <1>7, TableRows, SelectRows, MarkRows, CommitRows,
     NoDataRows DEF Next, Work

\* However many campaigns and presses there are and however they overlap, a client
\* has one row of debt for the flight, unless a cargo of his was deleted or marked
\* as sent with nothing to tell.
THEOREM OneRow == Spec => []OneDebtRow
<1>1. ASSUME RowsInv, UNCHANGED vars PROVE RowsInv'
  <2>1. IInv'
    BY <1>1, StutterOK DEF RowsInv
  <2>2. UNCHANGED <<stored, deleted, sent, debts, excused, plan, pc, work>>
    BY <1>1 DEF vars, table, control, outcome
  <2> QED BY <1>1, <2>1, <2>2, KeepOK DEF Busy
<1>2. RowsInv /\ [Next]_vars => RowsInv'
  BY <1>1, RowsStep
<1>3. RowsInv => OneDebtRow
  <2> SUFFICES ASSUME RowsInv, NEW x \in Clients, debts[x] > 1 PROVE ~Clean(x)
    BY DEF OneDebtRow, Clean, RowsInv, IInv, TypeOK
  <2>1. debts[x] \in Nat
    BY DEF RowsInv, IInv, TypeOK
  <2> QED BY <2>1 DEF RowsInv, Alone
<1> QED BY <1>2, <1>3, RowsInit, PTL DEF Spec
------------------------------------------------------------------------------
(* Nobody is forgotten                                                      *)

Settled(t, c) ==
    \/ c \in sent \cup deleted
    \/ Owner[c] \in failed[t] \cup todo[t]
    \/ Busy(t) /\ c \in work[t].batch

Accounted == \A t \in Campaigns : pc[t] # "lost" => \A c \in plan[t] : Settled(t, c)

AllInv == RowsInv /\ Accounted

\* Steps of anything else than a campaign's work leave its cargos accounted for.
LEMMA StaysAccounted ==
    ASSUME AllInv, NEW t \in Campaigns, plan'[t] = plan[t], todo'[t] = todo[t],
           failed[t] \subseteq failed'[t], sent \subseteq sent', deleted \subseteq deleted',
           pc'[t] # "lost" => pc[t] # "lost" /\ (Busy(t) => Busy(t)' /\ work'[t].batch = work[t].batch),
           pc'[t] # "lost"
    PROVE  \A c \in plan'[t] : Settled(t, c)'
BY DEF AllInv, Accounted, Settled

\* Of a client's cargos in the plan, the report has those that are not deleted.
LEMMA ReportHas ==
    ASSUME RowsInv, NEW t \in Campaigns, NEW c \in plan[t]
    PROVE  c \in Report(t, Owner[c]) \/ c \in deleted
BY DEF RowsInv, Known, Report, Of

\* Every cargo of a campaign that was not lost is sent, deleted, in its report, or
\* its client is among the failures or still to come.
LEMMA AccountedStep == ASSUME AllInv, Next PROVE Accounted'
<1> TypeOK /\ OneClients /\ RowsInv
  BY DEF AllInv, RowsInv, IInv
<1> USE DEF Sessions
<1>0. SUFFICES ASSUME NEW t \in Campaigns, pc'[t] # "lost" PROVE \A c \in plan'[t] : Settled(t, c)'
  BY DEF Accounted
<1>1. ASSUME UNCHANGED <<plan, todo>>, UNCHANGED <<pc, work>>, failed[t] \subseteq failed'[t],
             sent \subseteq sent', deleted \subseteq deleted'
      PROVE  \A c \in plan'[t] : Settled(t, c)'
  BY <1>0, <1>1, StaysAccounted DEF Busy
<1>2. ASSUME NEW c \in Cargos, Import(c) \/ Delete(c) PROVE \A d \in plan'[t] : Settled(t, d)'
  BY <1>1, <1>2 DEF Import, Delete, control, outcome
<1>3. ASSUME NEW u \in Campaigns, Select(u) PROVE \A d \in plan'[t] : Settled(t, d)'
  <2>1. CASE u = t
    BY <1>3, <2>1 DEF Select, Settled, TypeOK
  <2>2. CASE u # t
    BY <1>0, <1>3, <2>2, StaysAccounted DEF Select, Goto, Busy, TypeOK, table, outcome
  <2> QED BY <2>1, <2>2
<1>4. ASSUME NEW u \in Campaigns, Confirm(u) \/ Cancel(u) \/ Launch(u) \/ Finish(u)
      PROVE  \A d \in plan'[t] : Settled(t, d)'
  <2>1. UNCHANGED <<plan, todo, work, failed, sent, deleted>>
    BY <1>4 DEF Confirm, Cancel, Launch, Finish, table, outcome
  <2>2. (Busy(t)' <=> Busy(t)) /\ pc[t] # "lost"
    BY <1>0, <1>4 DEF Confirm, Cancel, Launch, Finish, Goto, Busy, TypeOK
  <2> QED BY <1>0, <2>1, <2>2, StaysAccounted
\* A session that is not this campaign's.
<1>5. ASSUME NEW s \in Sessions, s # t, sent \subseteq sent', deleted = deleted',
             plan' = plan, todo'[t] = todo[t], failed[t] \subseteq failed'[t], pc'[t] = pc[t],
             work'[t] = work[t]
      PROVE  \A d \in plan'[t] : Settled(t, d)'
  BY <1>0, <1>5, StaysAccounted DEF Busy
\* This campaign gives a report up: its client has failed, or it is sent.
<1>6. ASSUME plan' = plan, todo' = todo, deleted' = deleted, sent \subseteq sent',
             failed[t] \subseteq failed'[t], pc[t] # "lost",
             work[t].client \in failed'[t] \/ work[t].batch \subseteq sent'
      PROVE  \A d \in plan'[t] : Settled(t, d)'
  BY <1>6 DEF AllInv, Accounted, Settled, OneClients
<1>7. ASSUME NEW u \in Campaigns, Attempt(u) PROVE \A d \in plan'[t] : Settled(t, d)'
  <2>1. UNCHANGED <<plan, todo, sent, deleted>> /\ pc[u] \in {"dm", "group"}
    BY <1>7 DEF Attempt, table
  <2>2. CASE u # t
    <3>1. pc'[t] = pc[t] /\ work'[t] = work[t] /\ failed'[t] = failed[t]
      BY <1>7, <2>2 DEF Attempt, GiveUp, Fails, Leave, Goto, TypeOK
    <3> QED BY <1>5, <2>1, <2>2, <3>1
  <2>3. CASE u = t /\ GiveUp(t)
    <3>1. failed'[t] = failed[t] \cup {work[t].client}
      BY <2>3 DEF GiveUp, Fails, TypeOK
    <3> QED BY <1>6, <2>1, <2>3, <3>1
  <2>4. CASE u = t /\ work' = work /\ Goto(t, "delivered") /\ failed' = failed
    BY <1>0, <2>1, <2>4, StaysAccounted DEF Goto, Busy, TypeOK
  <2>5. CASE u = t /\ pc' = pc /\ work' = [work EXCEPT ![t].tries = TriesLeft(@)] /\ failed' = failed
    <3>1. work'[t].batch = work[t].batch
      BY <2>5 DEF TypeOK, Reports
    <3> QED BY <1>0, <2>1, <2>5, <3>1, StaysAccounted DEF Busy
  <2> QED BY <1>7, <2>2, <2>3, <2>4, <2>5 DEF Attempt
<1>8. ASSUME NEW s \in Sessions, Mark(s) PROVE \A d \in plan'[t] : Settled(t, d)'
  <2>1. UNCHANGED <<plan, todo, sent, deleted, failed>>
    BY <1>8 DEF Mark, table, outcome
  <2>2. work'[t].batch = work[t].batch
    BY <1>8 DEF Mark, TypeOK, Reports
  <2>3. (Busy(t) => Busy(t)') /\ pc[t] # "lost"
    BY <1>0, <1>8 DEF Mark, Goto, Busy, TypeOK
  <2> QED BY <1>0, <2>1, <2>2, <2>3, StaysAccounted
<1>9. ASSUME NEW s \in Sessions, Commit(s) PROVE \A d \in plan'[t] : Settled(t, d)'
  <2>1. UNCHANGED <<plan, todo, deleted, failed>> /\ sent' = sent \cup work[s].batch
        /\ pc[s] = "marking"
    BY <1>9 DEF Commit
  <2>2. CASE s # t
    <3>1. pc'[t] = pc[t] /\ work'[t] = work[t]
      BY <1>9, <2>2 DEF Commit, Leave, Goto, TypeOK
    <3> QED BY <1>5, <2>1, <2>2, <3>1
  <2>3. CASE s = t
    BY <1>6, <2>1, <2>3
  <2> QED BY <2>2, <2>3
<1>10. ASSUME NEW s \in Sessions, Rollback(s) PROVE \A d \in plan'[t] : Settled(t, d)'
  <2>1. UNCHANGED <<plan, todo, sent, deleted>> /\ pc[s] \in {"delivered", "read", "marking"}
    BY <1>10 DEF Rollback, table
  <2>2. CASE s # t
    <3>1. pc'[t] = pc[t] /\ work'[t] = work[t] /\ failed[t] \subseteq failed'[t]
      BY <1>10, <2>2 DEF Rollback, Fails, Leave, Goto, TypeOK
    <3> QED BY <1>5, <2>1, <2>2, <3>1
  <2>3. CASE s = t
    <3>1. failed'[t] = failed[t] \cup {work[t].client}
      BY <1>10, <2>3, SenderAssumption DEF Rollback, Fails, TypeOK
    <3> QED BY <1>6, <2>1, <2>3, <3>1
  <2> QED BY <2>2, <2>3
\* A campaign comes to a client.
<1>11. ASSUME NEW u \in Campaigns, NEW x \in Clients, Take(u, x),
              UNCHANGED deleted, sent \subseteq sent',
              IF u = t THEN \/ x \in failed'[t]
                            \/ Report(t, x) \subseteq sent'
                            \/ Busy(t)' /\ work'[t].batch = Report(t, x)
                       ELSE pc'[t] = pc[t] /\ work'[t] = work[t],
              failed[t] \subseteq failed'[t]
       PROVE  \A d \in plan'[t] : Settled(t, d)'
  <2>1. plan' = plan /\ todo' = [todo EXCEPT ![u] = @ \ {x}] /\ pc[u] = "loop"
    BY <1>11 DEF Take
  <2>2. CASE u # t
    BY <1>5, <1>11, <2>1, <2>2 DEF TypeOK
  <2>3. CASE u = t
    <3>1. ~Busy(t) /\ pc[t] # "lost"
      BY <2>1, <2>3 DEF Busy
    <3>2. \A d \in plan[t] : d \in sent \cup deleted \/ Owner[d] \in failed[t] \cup todo[t]
      BY <3>1 DEF AllInv, Accounted, Settled
    <3>3. todo'[t] = todo[t] \ {x}
      BY <2>1, <2>3 DEF TypeOK
    <3> QED BY <1>11, <2>1, <2>3, <3>2, <3>3, ReportHas DEF Settled
  <2> QED BY <2>2, <2>3
<1>12. ASSUME NEW u \in Campaigns, NEW x \in Clients, NoData(u, x) PROVE \A d \in plan'[t] : Settled(t, d)'
  BY <1>11, <1>12 DEF NoData
<1>13. ASSUME NEW u \in Campaigns, NEW x \in Clients, NoChat(u, x) PROVE \A d \in plan'[t] : Settled(t, d)'
  <2>1. failed' = [failed EXCEPT ![u] = @ \cup {x}] /\ UNCHANGED <<pc, work, sent, deleted>>
    BY <1>13 DEF NoChat, Fails, table
  <2> QED BY <1>11, <1>13, <2>1 DEF NoChat, TypeOK
<1>14. ASSUME NEW u \in Campaigns, NEW x \in Clients, Build(u, x) PROVE \A d \in plan'[t] : Settled(t, d)'
  <2>1. /\ UNCHANGED <<sent, deleted, failed>>
        /\ work' = [work EXCEPT ![u] = NewReport(x, Report(u, x), MaxRetries)]
        /\ Goto(u, "dm") \/ Goto(u, "group")
    BY <1>14 DEF Build, table, outcome
  <2>2. u = t => Busy(t)' /\ work'[t].batch = Report(t, x)
    BY <2>1 DEF Goto, Busy, TypeOK, NewReport
  <2>3. u # t => pc'[t] = pc[t] /\ work'[t] = work[t]
    BY <2>1 DEF Goto, TypeOK
  <2> QED BY <1>11, <1>14, <2>1, <2>2, <2>3 DEF Build
<1>15. ASSUME NEW h \in Hands, NEW x \in Clients, Press(h, x) PROVE \A d \in plan'[t] : Settled(t, d)'
  <2>1. UNCHANGED <<plan, todo, sent, deleted, failed>> /\ h # t
    BY <1>15, SenderAssumption DEF Press, table, outcome
  <2>2. pc'[t] = pc[t] /\ work'[t] = work[t]
    BY <1>15, <2>1 DEF Press, Goto, TypeOK
  <2> QED BY <1>5, <2>1, <2>2
<1>16. ASSUME Crash PROVE \A d \in plan'[t] : Settled(t, d)'
  <2>1. UNCHANGED <<plan, todo, sent, deleted, failed>>
    BY <1>16 DEF Crash, table, outcome
  <2>2. pc[t] # "lost" /\ ~Busy(t)
    BY <1>0, <1>16 DEF Crash, Busy, TypeOK
  <2> QED BY <1>0, <2>1, <2>2, StaysAccounted
<1> QED
  BY <1>2, <1>3, <1>4, <1>7, <1>8, <1>9, <1>10, <1>12, <1>13, <1>14, <1>15, <1>16 DEF Next, Work

\* A campaign that went through its list forgets nobody, whatever others do.
THEOREM NoneIsForgotten == Spec => []NobodyForgotten
<1>1. Init => AllInv
  BY RowsInit DEF Init, AllInv, Accounted
<1>2. ASSUME AllInv, UNCHANGED vars PROVE AllInv'
  <2>1. RowsInv'
    <3>1. IInv'
      BY <1>2, StutterOK DEF AllInv, RowsInv
    <3> QED BY <1>2, <3>1, KeepOK DEF AllInv, Busy, vars, table, control, outcome
  <2>2. Accounted'
    BY <1>2 DEF AllInv, Accounted, Settled, Busy, vars, table, control, outcome
  <2> QED BY <2>1, <2>2 DEF AllInv
<1>3. AllInv /\ [Next]_vars => AllInv'
  BY <1>2, RowsStep, AccountedStep DEF AllInv
<1>4. AllInv => NobodyForgotten
  BY DEF AllInv, RowsInv, IInv, TypeOK, Accounted, Settled, NobodyForgotten, Busy
<1> QED BY <1>1, <1>3, <1>4, PTL DEF Spec
------------------------------------------------------------------------------
(* The bills.  Whoever has billed a cargo has left its client a row, and the   *)
(* rows of a cargo are locked from the lookup to the commit: a campaign that   *)
(* found no row is the first to bill its cargos.                               *)

Apart == \A s, r \in Sessions : pc[s] = "marking" /\ pc[r] = "marking" /\ r # s =>
    work[s].batch \cap work[r].batch = {}
BilledOwes == \A c \in Cargos : billed[c] # {} => debts[Owner[c]] > 0
FirstToBill == \A s \in Sessions : pc[s] = "marking" /\ ~work[s].found =>
    \A c \in work[s].batch : billed[c] = {}
OneCampaign == ~ostatka => \A c \in Cargos :
    \A t, u \in billed[c] \cap Campaigns : t = u

BillsInv == IInv /\ Apart /\ BilledOwes /\ FirstToBill /\ OneCampaign

\* A step that bills nothing and in which no session comes to mark.
LEMMA BillsKept ==
    ASSUME BillsInv, IInv', UNCHANGED <<ostatka, billed, debts>>,
           \A s \in Sessions : pc'[s] = "marking" => pc[s] = "marking" /\ work'[s] = work[s]
    PROVE  BillsInv'
BY DEF BillsInv, Apart, BilledOwes, FirstToBill, OneCampaign

\* A session that marks waits for the others, and knows whether there is a row.
LEMMA MarkBills == ASSUME BillsInv, IInv', NEW s \in Sessions, Mark(s) PROVE BillsInv'
<1> TypeOK /\ OneClients
  BY DEF BillsInv, IInv
<1>1. UNCHANGED <<ostatka, billed, debts>> /\ work[s].batch \cap Locked = {}
  BY DEF Mark, table, outcome
<1>2. \A r \in Sessions : /\ work'[r].batch = work[r].batch /\ work'[r].client = work[r].client
                          /\ r # s => work'[r] = work[r]
                          /\ r = s => work'[r].found = (debts[work[r].client] > 0)
  BY DEF Mark, TypeOK, Reports
<1>3. \A r \in Sessions : pc'[r] = IF r = s THEN "marking" ELSE pc[r]
  BY DEF Mark, Goto, TypeOK
<1>4. \A r \in Sessions : pc[r] = "marking" => work[r].batch \cap work[s].batch = {}
  BY <1>1 DEF Locked
<1>5. Apart'
  BY <1>2, <1>3, <1>4 DEF BillsInv, Apart
<1>6. FirstToBill'
  <2> SUFFICES ASSUME NEW r \in Sessions, pc'[r] = "marking", ~work'[r].found, NEW c \in work[r].batch
               PROVE  billed[c] = {}
    BY <1>1, <1>2 DEF FirstToBill
  <2>1. CASE r # s
    BY <1>2, <1>3, <2>1 DEF BillsInv, FirstToBill
  <2>2. CASE r = s
    <3>1. ~(debts[work[s].client] > 0) /\ Owner[c] = work[s].client /\ c \in Cargos
      BY <1>2, <2>2 DEF OneClients, TypeOK, Reports
    <3> QED BY <3>1 DEF BillsInv, BilledOwes
  <2> QED BY <2>1, <2>2
<1>7. BilledOwes' /\ OneCampaign'
  BY <1>1 DEF BillsInv, BilledOwes, OneCampaign
<1> QED BY <1>5, <1>6, <1>7 DEF BillsInv

\* A session that commits: a campaign bills what nobody has billed, or nothing.
LEMMA CommitBills == ASSUME BillsInv, IInv', NEW s \in Sessions, Commit(s) PROVE BillsInv'
<1> TypeOK /\ OneClients /\ FoundOwes
  BY DEF BillsInv, IInv
<1>1. ostatka' = ostatka /\ pc[s] = "marking"
  BY DEF Commit
<1>2. \A c \in Cargos : billed'[c] = IF c \in work[s].batch /\ Bills(s) THEN billed[c] \cup {s} ELSE billed[c]
  BY DEF Commit
<1>3. \A r \in Sessions : IF r = s THEN pc'[r] # "marking" ELSE pc'[r] = pc[r] /\ work'[r] = work[r]
  BY DEF Commit, Leave, Goto, TypeOK
<1> PICK x \in Clients : x = work[s].client
  BY DEF TypeOK, Reports
<1>4. /\ debts[x] \in Nat /\ \A y \in Clients : y # x => debts'[y] = debts[y]
      /\ debts'[x] = IF work[s].found THEN debts[x] ELSE debts[x] + 1
  BY DEF Commit, DebtsAfter, TypeOK
<1>5. debts'[x] > 0
  BY <1>1, <1>4 DEF FoundOwes
<1>6. work[s].batch \subseteq Cargos /\ \A c \in work[s].batch : Owner[c] = x
  BY DEF OneClients, TypeOK, Reports
<1>7. BilledOwes'
  <2> SUFFICES ASSUME NEW c \in Cargos, billed'[c] # {} PROVE debts'[Owner[c]] > 0
    BY DEF BilledOwes
  <2>1. CASE Owner[c] = x
    BY <1>5, <2>1
  <2>2. CASE Owner[c] # x
    BY <1>2, <1>4, <1>6, <2>2, SenderAssumption DEF BillsInv, BilledOwes
  <2> QED BY <2>1, <2>2
<1>8. Apart'
  BY <1>3 DEF BillsInv, Apart
<1>9. FirstToBill'
  BY <1>1, <1>2, <1>3 DEF BillsInv, Apart, FirstToBill, TypeOK, Reports
<1>10. OneCampaign'
  <2> SUFFICES ASSUME ~ostatka, NEW c \in Cargos, NEW t \in Campaigns, NEW u \in Campaigns,
                      t \in billed'[c], u \in billed'[c]
               PROVE  t = u
    BY <1>1 DEF OneCampaign
  <2>0. t \in billed[c] /\ u \in billed[c] => t = u
    BY DEF BillsInv, OneCampaign
  <2>1. CASE s \in Hands
    <3>1. t # s /\ u # s
      BY <2>1, SenderAssumption
    <3> QED BY <1>2, <2>0, <3>1
  <2>2. CASE s \notin Hands /\ c \in work[s].batch /\ Bills(s)
    <3>1. billed[c] = {}
      BY <1>1, <2>2 DEF BillsInv, FirstToBill, Bills
    <3>2. billed'[c] = {s}
      BY <1>2, <2>2, <3>1
    <3> QED BY <3>2
  <2>3. CASE ~(c \in work[s].batch /\ Bills(s))
    BY <1>2, <2>0, <2>3
  <2> QED BY <2>1, <2>2, <2>3
<1> QED BY <1>7, <1>8, <1>9, <1>10 DEF BillsInv

\* Every step keeps the bills in order.
LEMMA BillsStep == ASSUME BillsInv, Next PROVE BillsInv'
<1> TypeOK /\ IInv'
  BY StepOK DEF BillsInv, IInv
<1> USE DEF Sessions
<1>1. ASSUME NEW c \in Cargos, Import(c) \/ Delete(c) PROVE BillsInv'
  BY <1>1, BillsKept DEF Import, Delete, control, outcome
<1>2. ASSUME NEW t \in Campaigns, Select(t) \/ Confirm(t) \/ Cancel(t) \/ Launch(t) \/ Finish(t)
      PROVE  BillsInv'
  <2>1. UNCHANGED <<ostatka, billed, debts, work>>
    BY <1>2 DEF Select, Confirm, Cancel, Launch, Finish, table, outcome
  <2>2. \A s \in Sessions : pc'[s] = "marking" => pc[s] = "marking"
    BY <1>2 DEF Select, Confirm, Cancel, Launch, Finish, Goto, TypeOK
  <2> QED BY <2>1, <2>2, BillsKept
<1>3. ASSUME NEW t \in Campaigns, Attempt(t) PROVE BillsInv'
  <2>1. UNCHANGED <<ostatka, billed, debts>> /\ pc[t] # "marking"
    BY <1>3 DEF Attempt, table
  <2>2. \A s \in Sessions : pc'[s] = "marking" => s # t /\ pc[s] = "marking"
    BY <1>3, <2>1 DEF Attempt, GiveUp, Leave, Goto, TypeOK
  <2>3. \A s \in Sessions \ {t} : work'[s] = work[s]
    BY <1>3 DEF Attempt, GiveUp, Leave, TypeOK
  <2> QED BY <2>1, <2>2, <2>3, BillsKept
<1>4. ASSUME NEW s \in Sessions, Rollback(s) PROVE BillsInv'
  <2>1. UNCHANGED <<ostatka, billed, debts>>
    BY <1>4 DEF Rollback, table
  <2>2. \A r \in Sessions : IF r = s THEN pc'[r] # "marking" ELSE pc'[r] = pc[r] /\ work'[r] = work[r]
    BY <1>4 DEF Rollback, Leave, Goto, TypeOK
  <2> QED BY <2>1, <2>2, BillsKept
<1>5. ASSUME NEW t \in Campaigns, NEW x \in Clients, NoData(t, x) \/ NoChat(t, x) PROVE BillsInv'
  BY <1>5, BillsKept DEF NoData, NoChat, table
<1>6. ASSUME NEW s \in Sessions, NEW r, work' = [work EXCEPT ![s] = r],
             UNCHANGED <<ostatka, billed, debts>>, Goto(s, "dm") \/ Goto(s, "group") \/ Goto(s, "read")
      PROVE  BillsInv'
  <2>1. \A q \in Sessions : IF q = s THEN pc'[q] # "marking" ELSE pc'[q] = pc[q] /\ work'[q] = work[q]
    BY <1>6 DEF Goto, TypeOK
  <2> QED BY <1>6, <2>1, BillsKept
<1>7. ASSUME NEW t \in Campaigns, NEW x \in Clients, Build(t, x) PROVE BillsInv'
  BY <1>6, <1>7 DEF Build, table
<1>8. ASSUME NEW h \in Hands, NEW x \in Clients, Press(h, x) PROVE BillsInv'
  BY <1>6, <1>8 DEF Press, table
<1>9. ASSUME Crash PROVE BillsInv'
  <2>1. UNCHANGED <<ostatka, billed, debts>> /\ \A s \in Sessions : pc'[s] # "marking"
    BY <1>9 DEF Crash, table
  <2> QED BY <2>1, BillsKept
<1> QED
  BY <1>1, <1>2, <1>3, <1>4, <1>5, <1>7, <1>8, <1>9, MarkBills, CommitBills DEF Next, Work

\* However campaigns on a regular flight overlap, at most one of them bills a cargo.
THEOREM BilledOnce == Spec => []BilledByOneCampaign
<1>1. Init => BillsInv
  <2> SUFFICES ASSUME Init PROVE BillsInv
    OBVIOUS
  <2>1. IInv
    BY InitOK
  <2>2. Apart /\ BilledOwes /\ FirstToBill /\ OneCampaign
    BY DEF Init, Apart, BilledOwes, FirstToBill, OneCampaign
  <2> QED BY <2>1, <2>2 DEF BillsInv
<1>2. ASSUME BillsInv, UNCHANGED vars PROVE BillsInv'
  <2>1. IInv'
    BY <1>2, StutterOK DEF BillsInv
  <2>2. UNCHANGED <<ostatka, billed, debts, pc, work>>
    BY <1>2 DEF vars, table, control
  <2> QED BY <1>2, <2>1, <2>2, BillsKept
<1>3. BillsInv /\ [Next]_vars => BillsInv'
  BY <1>2, BillsStep
<1>4. BillsInv => BilledByOneCampaign
  <2> SUFFICES ASSUME BillsInv, ~ostatka, NEW c \in Cargos
               PROVE  Cardinality(billed[c] \cap Campaigns) <= 1
    BY DEF BilledByOneCampaign, BillsInv, IInv, TypeOK
  <2>1. \A t, u \in billed[c] \cap Campaigns : t = u
    BY DEF BillsInv, OneCampaign
  <2>2. billed[c] \cap Campaigns = {} \/ \E t : billed[c] \cap Campaigns = {t}
    BY <2>1
  <2>3. Cardinality(billed[c] \cap Campaigns) \in {0, 1}
    BY <2>2, FS_EmptySet, FS_Singleton
  <2> QED BY <2>3
<1> QED BY <1>1, <1>3, <1>4, PTL DEF Spec
==============================================================================
