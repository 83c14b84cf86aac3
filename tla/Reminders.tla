------------------------------- MODULE Reminders -------------------------------
(***************************************************************************)
(* Reminders of partial payments: a task that looks at all of them, sends  *)
(* what is due, records what was sent, and sleeps for a day, so that it    *)
(* runs a little later every day.  It knows what it has reminded of only   *)
(* by the clock: a payment is due while 5, 2 or 0 whole days are left.     *)
(***************************************************************************)
EXTENDS Integers, FiniteSets

CONSTANTS
    Debts,          \* rows paid in part
    Debtor,         \* the client of each
    Deadline,       \* payment_deadline of each
    Day,            \* 24 hours
    Recheck,        \* the wait after an error
    Horizon         \* bound on the clock

ASSUME RemindersAssumption ==
    /\ Deadline \in [Debts -> Int] /\ Day \in Nat \ {0} /\ Recheck \in 1..Day /\ Horizon \in Nat

VARIABLES
    now,
    open,           \* rows still paid in part
    worker,         \* "start", "render", "send", "persist", "sleep"
    wake,           \* when it sleeps no longer
    due,            \* rows it has found: <<row, days left>>
    toSend,         \* clients whose reminder is rendered and not sent yet
    reached,        \* clients whose reminder was sent, and not recorded yet
    reminded,       \* history: how often this process reminded of <<row, days>>
    recorded        \* history: how often it recorded that

reminderVars == <<now, open, worker, wake, due, toSend, reached, reminded, recorded>>

Phases == {5, 2, 0}
Debtors == {Debtor[d] : d \in Debts}
DaysLeft(d) == (Deadline[d] - now) \div Day
Notices == Debts \X Phases

RemindersTypeOK ==
    /\ now \in 0..Horizon /\ open \subseteq Debts
    /\ worker \in {"start", "render", "send", "persist", "sleep"}
    /\ wake \in 0..(Horizon + Day) /\ due \subseteq Notices
    /\ toSend \subseteq Debtors /\ reached \subseteq Debtors
    /\ reminded \in [Notices -> Nat] /\ recorded \in [Notices -> Nat]

Never == [n \in Notices |-> 0]

RemindersInit ==
    /\ now = 0 /\ open = Debts /\ worker = "start" /\ wake = 0
    /\ due = {} /\ toSend = {} /\ reached = {}
    /\ reminded = Never /\ recorded = Never

\* What a client's message is about is what is known of him.
Counted(f, S) == [n \in Notices |-> IF n \in due /\ Debtor[n[1]] \in S THEN f[n] + 1 ELSE f[n]]

-----------------------------------------------------------------------------
\* A day has passed, or the bot has just been started.
Look ==
    /\ worker = "start" \/ (worker = "sleep" /\ now >= wake)
    /\ due' = {<<d, DaysLeft(d)>> : d \in {e \in open : DaysLeft(e) \in Phases}}
    /\ worker' = "render"
    /\ UNCHANGED <<now, open, wake, toSend, reached, reminded, recorded>>

\* The database cannot be reached: an hour later, or (a failed query) a day.
LookFails ==
    /\ worker = "start" \/ (worker = "sleep" /\ now >= wake)
    /\ worker' = "sleep" /\ wake' \in {now + Recheck, now + Day}
    /\ UNCHANGED <<now, open, due, toSend, reached, reminded, recorded>>

\* One message per client; rendering may fail for some.
Render ==
    /\ worker = "render"
    /\ toSend' \in SUBSET {Debtor[n[1]] : n \in due}
    /\ worker' = "send"
    /\ UNCHANGED <<now, open, wake, due, reached, reminded, recorded>>

\* Sent, perhaps after a flood wait; or an error, which may hide a delivery.
Send(c) ==
    /\ worker = "send" /\ c \in toSend
    /\ toSend' = toSend \ {c}
    /\ \/ reached' = reached \cup {c} /\ reminded' = Counted(reminded, {c})
       \/ UNCHANGED reached /\ reminded' \in {reminded, Counted(reminded, {c})}
    /\ UNCHANGED <<now, open, worker, wake, due, recorded>>

AllSent ==
    /\ worker = "send" /\ toSend = {}
    /\ worker' = "persist"
    /\ UNCHANGED <<now, open, wake, due, toSend, reached, reminded, recorded>>

Persist(c) ==
    /\ worker = "persist" /\ c \in reached
    /\ reached' = reached \ {c}
    /\ recorded' \in {recorded, Counted(recorded, {c})}
    /\ UNCHANGED <<now, open, worker, wake, due, toSend, reminded>>

\* Mutant: the error's wait after every run.
NapHour == Recheck

Nap == Day

Sleep ==
    /\ worker = "persist" /\ reached = {}
    /\ worker' = "sleep" /\ wake' = now + Nap
    /\ due' = {}
    /\ UNCHANGED <<now, open, toSend, reached, reminded, recorded>>

-----------------------------------------------------------------------------
\* Time passes, whatever the task is doing.
Tick ==
    /\ now < Horizon
    /\ now' = now + 1
    /\ UNCHANGED <<open, worker, wake, due, toSend, reached, reminded, recorded>>

\* The client pays the rest.
PayRest(d) ==
    /\ d \in open
    /\ open' = open \ {d}
    /\ UNCHANGED <<now, worker, wake, due, toSend, reached, reminded, recorded>>

\* A restart runs the task at once; what it had not recorded is lost.
Restart ==
    /\ worker' = "start" /\ wake' = now
    /\ due' = {} /\ toSend' = {} /\ reached' = {}
    /\ reminded' = Never /\ recorded' = Never
    /\ UNCHANGED <<now, open>>

RemindersNext ==
    \/ Look \/ LookFails \/ Render \/ AllSent \/ Sleep
    \/ \E c \in Debtors : Send(c) \/ Persist(c)
    \/ Tick \/ Restart
    \/ \E d \in Debts : PayRest(d)

RemindersSpec == RemindersInit /\ [][RemindersNext]_reminderVars

-----------------------------------------------------------------------------
\* One process never reminds of the same row twice with the same number of days
\* left, however late it runs and whatever fails; and it records no reminder
\* that was not sent.
RemindedOnce ==
    \A n \in Notices : recorded[n] <= reminded[n] /\ reminded[n] <= 1
===============================================================================
