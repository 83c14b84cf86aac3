------------------------------ MODULE BulkSender ------------------------------
(***************************************************************************)
(* The campaigns that report one flight's cargo to its clients, and the    *)
(* "sent by hand" button of the failure channel.  A campaign's list of     *)
(* cargos is fixed when the flight is selected; nothing keeps a second     *)
(* admin from selecting the same flight, and a campaign does not look      *)
(* again whether a cargo has been sent.  Telegram may accept a message     *)
(* whose answer is lost; the bot may crash between any two steps.          *)
(*                                                                         *)
(* A session of the database is one campaign's work on one client, or one  *)
(* press of the button.  UPDATE locks the cargo rows until the commit; a   *)
(* query sees what other sessions have committed (READ COMMITTED).         *)
(***************************************************************************)
EXTENDS Naturals, FiniteSets

CONSTANTS
    Clients, Cargos,
    Owner,          \* the client of each cargo
    Imported,       \* the cargos in the table at the start; others come later
    Deletable,      \* cargos that may be deleted from the table
    Campaigns,      \* campaigns, each started at most once
    Hands,          \* presses of the hand button, at most one each
    MaxRetries      \* max_retries of safe_execute

Sessions == Campaigns \cup Hands

ASSUME SenderAssumption ==
    /\ Clients # {}
    /\ Owner \in [Cargos -> Clients]
    /\ Imported \subseteq Cargos /\ Deletable \subseteq Cargos
    /\ Campaigns \cap Hands = {}
    /\ MaxRetries \in Nat \ {0}

VARIABLES
    ostatka,    \* whether the flight is a leftover ("A-") flight
    stored,     \* cargos in flight_cargos
    deleted,    \* cargos that were in it
    sent,       \* cargos with is_sent
    debts,      \* rows of the ledger each client has for this flight
    billed,     \* history: the sessions that billed a cargo
    pc,         \* where a session is
    plan,       \* clients_data: the cargos a campaign was started with
    todo,       \* clients it has still to process
    work,       \* the report a session is busy with
    cancelled,  \* campaigns whose cancelled flag is set
    armed,      \* campaigns whose cancel button is in the chat
    failed,     \* clients a campaign reports as failed
    buttons,    \* clients with a hand button in the failure channel
    told,       \* history: cargos whose client got a report
    vouched,    \* history: cargos an admin says were sent by hand
    excused     \* history: cargos marked as sent with nothing to tell

table == <<ostatka, stored, deleted, sent, debts, billed>>
control == <<pc, plan, todo, work, cancelled, armed>>
outcome == <<failed, buttons, told, vouched, excused>>
vars == <<table, control, outcome>>

Of(x, S) == {c \in S : Owner[c] = x}
Unsent == stored \ sent

\* Whose report it is and the cargos in it, the attempts of safe_execute left,
\* and whether the session has seen a row of the client in the ledger.
Reports == [client : Clients, batch : SUBSET Cargos, tries : 0..MaxRetries, found : BOOLEAN]
NewReport(x, B, n) == [client |-> x, batch |-> B, tries |-> n, found |-> FALSE]
NoReport == NewReport(CHOOSE x \in Clients : TRUE, {}, 0)

TypeOK ==
    /\ ostatka \in BOOLEAN
    /\ stored \subseteq Cargos /\ deleted \subseteq Cargos /\ sent \subseteq Cargos
    /\ debts \in [Clients -> Nat] /\ billed \in [Cargos -> SUBSET Sessions]
    /\ pc \in [Sessions -> {"idle", "selected", "launching", "loop", "dm", "group",
                            "delivered", "read", "marking", "done", "lost"}]
    /\ plan \in [Campaigns -> SUBSET Cargos] /\ todo \in [Campaigns -> SUBSET Clients]
    /\ work \in [Sessions -> Reports]
    /\ cancelled \subseteq Campaigns /\ armed \subseteq Campaigns
    /\ failed \in [Campaigns -> SUBSET Clients] /\ buttons \subseteq Clients
    /\ told \subseteq Cargos /\ vouched \subseteq Cargos /\ excused \subseteq Cargos

Init ==
    /\ ostatka \in BOOLEAN
    /\ stored = Imported /\ deleted = {} /\ sent = {}
    /\ debts = [x \in Clients |-> 0] /\ billed = [c \in Cargos |-> {}]
    /\ pc = [s \in Sessions |-> "idle"]
    /\ plan = [t \in Campaigns |-> {}] /\ todo = [t \in Campaigns |-> {}]
    /\ work = [s \in Sessions |-> NoReport]
    /\ cancelled = {} /\ armed = {}
    /\ failed = [t \in Campaigns |-> {}] /\ buttons = {}
    /\ told = {} /\ vouched = {} /\ excused = {}

Goto(s, l) == pc' = [pc EXCEPT ![s] = l]

\* Back to the loop, or the end of a press: the report goes out of scope.
Leave(s) ==
    /\ Goto(s, IF s \in Hands THEN "done" ELSE "loop")
    /\ work' = [work EXCEPT ![s] = NoReport]

-----------------------------------------------------------------------------
(* The table: imports add cargos to a flight, staff delete them.            *)

\* The rows a session has updated and not committed.
Locked == UNION {work[s].batch : s \in {r \in Sessions : pc[r] = "marking"}}

Import(c) ==
    /\ c \notin stored \cup deleted
    /\ stored' = stored \cup {c}
    /\ UNCHANGED <<ostatka, deleted, sent, debts, billed, control, outcome>>

Delete(c) ==
    /\ c \in (stored \cap Deletable) \ Locked
    /\ stored' = stored \ {c} /\ deleted' = deleted \cup {c}
    /\ UNCHANGED <<ostatka, sent, debts, billed, control, outcome>>

-----------------------------------------------------------------------------
(* Starting and cancelling a campaign.                                      *)

\* select_flight: the cargos of the campaign are the unsent ones of now.
Select(t) ==
    /\ pc[t] = "idle" /\ Unsent # {}
    /\ plan' = [plan EXCEPT ![t] = Unsent]
    /\ todo' = [todo EXCEPT ![t] = {Owner[c] : c \in Unsent}]
    /\ Goto(t, "selected")
    /\ UNCHANGED <<table, work, cancelled, armed, outcome>>

\* confirm_send, up to the progress message with its cancel button.
Confirm(t) ==
    /\ pc[t] = "selected"
    /\ armed' = armed \cup {t}
    /\ Goto(t, "launching")
    /\ UNCHANGED <<table, plan, todo, work, cancelled, outcome>>

\* The rest of it: the task exists and is in _active_tasks.  run() reads the
\* static data first; without it the campaign ends (a leftover campaign goes
\* on without the extra charge).
Launch(t) ==
    /\ pc[t] = "launching"
    /\ \/ Goto(t, "loop")
       \/ ~ostatka /\ Goto(t, "done")
    /\ UNCHANGED <<table, plan, todo, work, cancelled, armed, outcome>>

Running(t) == pc[t] \in {"loop", "dm", "group", "delivered", "marking"}

\* cancel_task: the button goes; a task that is not registered is not told.
Cancel(t) ==
    /\ t \in armed
    /\ armed' = armed \ {t}
    /\ cancelled' = cancelled \cup {u \in {t} : Running(u)}
    /\ UNCHANGED <<table, pc, plan, todo, work, outcome>>

-----------------------------------------------------------------------------
(* The loop over clients.                                                   *)

\* A failure is counted, and posted to the failure channel, perhaps with a
\* button; posting it may fail.
Fails(t, x, button) ==
    /\ failed' = [failed EXCEPT ![t] = @ \cup {x}]
    /\ buttons' \in {buttons, IF button THEN buttons \cup {x} ELSE buttons}

\* The loop comes to client x; report is what the table still has of him.
Take(t, x) ==
    /\ pc[t] = "loop" /\ t \notin cancelled /\ x \in todo[t]
    /\ todo' = [todo EXCEPT ![t] = @ \ {x}]
    /\ UNCHANGED <<plan, cancelled, armed>>

Report(t, x) == Of(x, plan[t] \cap stored)

\* No rows, or (regular flights) no photo that can be shown: marked as sent,
\* without a report and without a bill.
NoData(t, x) ==
    /\ Take(t, x)
    /\ Report(t, x) = {} \/ ~ostatka
    /\ Report(t, x) \cap Locked = {}
    /\ sent' = sent \cup Report(t, x)
    /\ excused' = excused \cup Report(t, x)
    /\ UNCHANGED <<ostatka, stored, deleted, debts, billed, pc, work, failed, buttons, told, vouched>>

\* No partner or no group: nobody can be sent the report.  No telegram_id:
\* an admin may do it by hand.
NoChat(t, x) ==
    /\ Take(t, x) /\ ~ostatka /\ Report(t, x) # {}
    /\ \E button \in BOOLEAN : Fails(t, x, button)
    /\ UNCHANGED <<table, pc, work, told, vouched, excused>>

\* The report goes to the client, or to the group of his partner (or of the
\* leftovers, whose failures have a button as well).
Build(t, x) ==
    /\ Take(t, x) /\ Report(t, x) # {}
    /\ work' = [work EXCEPT ![t] = NewReport(x, Report(t, x), MaxRetries)]
    /\ Goto(t, "dm") \/ (~ostatka /\ Goto(t, "group"))
    /\ UNCHANGED <<table, outcome>>

GiveUp(t) ==
    /\ Fails(t, work[t].client, pc[t] = "dm")
    /\ Leave(t)

\* Mutant: an attempt counts upwards.
TriesLeftMore(n) == n + 1

TriesLeft(n) == n - 1

\* One attempt of safe_execute, on the message that carries the report.
Attempt(t) ==
    /\ pc[t] \in {"dm", "group"}
    /\ \/ /\ told' = told \cup work[t].batch              \* accepted
          /\ Goto(t, "delivered")
          /\ UNCHANGED <<work, failed, buttons>>
       \/ /\ told' \in {told, told \cup work[t].batch}     \* no answer: lost, or accepted
          /\ work[t].tries > 1
          /\ work' = [work EXCEPT ![t].tries = TriesLeft(@)]
          /\ UNCHANGED <<pc, failed, buttons>>
       \/ /\ told' \in {told, told \cup work[t].batch}     \* no answer to the last
          /\ work[t].tries = 1
          /\ GiveUp(t)
       \/ /\ told' = told                                 \* refused
          /\ GiveUp(t)
    /\ UNCHANGED <<table, plan, todo, cancelled, armed, vouched, excused>>

\* Mutant: a cancelled campaign goes on waiting for its clients.
FinishUncancelled(t) ==
    /\ pc[t] = "loop" /\ todo[t] = {}
    /\ armed' = armed \ {t}
    /\ Goto(t, "done")
    /\ UNCHANGED <<table, plan, todo, work, cancelled, outcome>>

Finish(t) ==
    /\ pc[t] = "loop" /\ (todo[t] = {} \/ t \in cancelled)
    /\ armed' = armed \ {t}
    /\ Goto(t, "done")
    /\ UNCHANGED <<table, plan, todo, work, cancelled, outcome>>

-----------------------------------------------------------------------------
(* Marking as sent and billing, one transaction.                            *)

\* Mutant: the UPDATE does not wait for the rows.
MarkUnlocked(s) ==
    /\ pc[s] \in {"delivered", "read"}
    /\ work' = [work EXCEPT ![s].found = debts[work[s].client] > 0]
    /\ Goto(s, "marking")
    /\ UNCHANGED <<table, plan, todo, cancelled, armed, outcome>>

\* The UPDATE, which waits for rows others have updated, and the lookup.
Mark(s) ==
    /\ pc[s] \in {"delivered", "read"} /\ work[s].batch \cap Locked = {}
    /\ work' = [work EXCEPT ![s].found = debts[work[s].client] > 0]
    /\ Goto(s, "marking")
    /\ UNCHANGED <<table, plan, todo, cancelled, armed, outcome>>

\* Mutant: a row that is there is added to.
BillsAlways(s) == work[s].found \in BOOLEAN

\* A campaign leaves a row it found alone; leftovers and hands add to it.
Bills(s) == ~work[s].found \/ ostatka \/ s \in Hands

\* Mutant: the cargos are marked, and no debt is written.
DebtsAfterUnbilled(s) == debts[work[s].client]

DebtsAfter(s) == debts[work[s].client] + IF work[s].found THEN 0 ELSE 1

Commit(s) ==
    /\ pc[s] = "marking"
    /\ sent' = sent \cup work[s].batch
    /\ debts' = [debts EXCEPT ![work[s].client] = DebtsAfter(s)]
    /\ billed' = [c \in Cargos |-> IF c \in work[s].batch /\ Bills(s)
                                   THEN billed[c] \cup {s} ELSE billed[c]]
    /\ vouched' = IF s \in Hands THEN vouched \cup work[s].batch ELSE vouched
    /\ Leave(s)
    /\ UNCHANGED <<ostatka, stored, deleted, plan, todo, cancelled, armed, failed, buttons, told,
                   excused>>

\* Mutant: the failure is not recorded.
RollbackUnreported(s) ==
    /\ pc[s] \in {"delivered", "read", "marking"}
    /\ UNCHANGED <<failed, buttons>>
    /\ Leave(s)
    /\ UNCHANGED <<table, plan, todo, cancelled, armed, told, vouched, excused>>

\* The database refuses: the transaction is rolled back; a campaign counts a
\* failure, offers the button and goes on with the next client.
Rollback(s) ==
    /\ pc[s] \in {"delivered", "read", "marking"}
    /\ IF s \in Hands THEN UNCHANGED <<failed, buttons>> ELSE Fails(s, work[s].client, TRUE)
    /\ Leave(s)
    /\ UNCHANGED <<table, plan, todo, cancelled, armed, told, vouched, excused>>

\* manual_sent_handler reads what is unsent now, not what the report held.
Press(h, x) ==
    /\ pc[h] = "idle" /\ x \in buttons /\ Of(x, Unsent) # {}
    /\ work' = [work EXCEPT ![h] = NewReport(x, Of(x, Unsent), 0)]
    /\ Goto(h, "read")
    /\ UNCHANGED <<table, plan, todo, cancelled, armed, outcome>>

-----------------------------------------------------------------------------
\* A restart loses _active_tasks and every transaction; FSM data is in Redis.
Crash ==
    LET busy == {s \in Sessions : pc[s] \notin {"idle", "selected", "done", "lost"}}
    IN  /\ busy # {}
        /\ pc' = [s \in Sessions |-> IF s \in busy THEN "lost" ELSE pc[s]]
        /\ work' = [s \in Sessions |-> NoReport]
        /\ UNCHANGED <<table, plan, todo, cancelled, armed, outcome>>

Work(t) ==
    \/ Launch(t) \/ Attempt(t) \/ Mark(t) \/ Commit(t) \/ Finish(t)
    \/ \E x \in Clients : NoData(t, x) \/ NoChat(t, x) \/ Build(t, x)

Next ==
    \/ \E c \in Cargos : Import(c) \/ Delete(c)
    \/ \E t \in Campaigns : Select(t) \/ Confirm(t) \/ Cancel(t) \/ Work(t)
    \/ \E h \in Hands : Mark(h) \/ Commit(h) \/ \E x \in Clients : Press(h, x)
    \/ \E s \in Sessions : Rollback(s)
    \/ Crash

Spec == Init /\ [][Next]_vars /\ \A t \in Campaigns : WF_vars(Work(t))
                              /\ \A h \in Hands : WF_vars(Commit(h))

-----------------------------------------------------------------------------
Book == INSTANCE ReportBook WITH
    told <- told \cup vouched, closed <- sent, owes <- {x \in DOMAIN debts : debts[x] > 0}

\* Every step of campaigns, hands, retries and crashes is one of ReportBook's:
\* a cargo is marked sent together with its client's debt, and after the report.
IsReportBook == Book!Spec

\* "One row per user and flight", however campaigns and hands overlap: what they
\* have in common locks them out, unless the cargo they share is deleted, or
\* another campaign marks it as sent with nothing to tell.
OneDebtRow == \A x \in DOMAIN debts : debts[x] > 1 => Of(x, deleted \cup excused) # {}

\* On a regular flight overlapping campaigns bill a cargo once.
BilledByOneCampaign ==
    ~ostatka => \A c \in DOMAIN billed : Cardinality(billed[c] \cap DOMAIN plan) <= 1

\* A campaign that went through its list has each cargo sent or its client
\* among the failures, or the cargo has been deleted.
NobodyForgotten ==
    \A t \in DOMAIN plan : pc[t] = "done" /\ todo[t] = {} =>
        \A c \in plan[t] : c \in sent \cup deleted \/ Owner[c] \in failed[t]

\* A campaign that was confirmed ends, or the bot's restart ends it.
CampaignEnds == \A t \in Campaigns : pc[t] = "launching" ~> pc[t] \in {"done", "lost"}
===============================================================================
