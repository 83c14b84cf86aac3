# akb_fbot: a verification project

akb_fbot is the back office of a cargo forwarder: a Telegram bot (aiogram), an HTTP API (FastAPI)
and a PostgreSQL database they share, with Redis for dialogue state. Cargo arrives on *flights*
(`reys`); the bot reports it to the clients, the clients pay for it, admins approve the payments,
cashiers take money at a point of sale (POS), and the goods are handed out or delivered.

The project models what several of these parts do to shared state in an order nobody controls.
This file is the inventory of the system, the correspondence between modules and code, what each
run and each theorem shows, and the plan.

## 1. The system and its parts

| Part | State it keeps | Operations that change it | Who else touches the state |
|---|---|---|---|
| Payment ledger (`client_transaction_data`, `client_payment_events`) | one row per client and flight or cargo; immutable payment events | report, approval, cash, POS, verification, wallet, delivery | all of them |
| Payment submission (`make_payment`, bot and API) | Redis `wallet_used:*`, `payment_mode:*`; approval messages with buttons | wallet-only, cash and online submission | approval |
| Payment approval (`payment_approval.py`) | FSM data of each admin | approve, full pay, amount, reject, cash received, cash amount, cancel | ledger, Redis |
| POS (`payment_service.py`, `payment_pos_service.py`) | none of its own | process, process-bulk, process-existing, mark taken, taken flag, adjust balance | ledger |
| Client verification (`client_verification/*`) | FSM data | account, cash and unpaid-cargo payment, taken button | ledger |
| Wallet desk (`wallet_admin.py`, `payment_allocation.py`) | FSM data | refund, debt payment | ledger |
| Delivery (`delivery.py`, `delivery_request.py`, `user_delivery.py`) | `delivery_requests` | request, approve, reject | ledger (fee, taken flags) |
| Bulk cargo sender (`bulk_cargo_sender.py`, `ostatka_sender.py`) | FSM data, `_active_tasks`, `is_sent` flags | select, review masks, confirm, cancel, send loop, "sent by hand" | ledger, masks, Telegram |
| Flight masks (`flight_mask.py`, `flight_display.py`) | `partner_flight_aliases` | get-or-create, override, normalise | senders, POS, verification |
| Broadcast (`broadcast/*`) | FSM data, `active_broadcasts`, `broadcast_messages` | wizard, confirm, send loop, stop | Telegram |
| Notification scheduler (`notification_scheduler.py`) | two background tasks, `notifications` | daily reminders, leftover notifications | ledger (reads), Telegram |
| Log handler (`reliable_telegram_handler.py`) | bounded queue, rate-limit state | emit, worker, suppression report, shutdown | Telegram |
| Warehouse (`warehouse_router.py`) | `cargo_delivery_proofs`, photos in S3 | mark as taken, one row or several | ledger (taken flags), POS, delivery |
| Client codes (`code_generator.py`, `approval.py`, `auth.py`, `client_router.py`) | `clients.client_code`, `extra_code` | approve, log in, create, type a code, delete | everything that finds a client by code |
| Admin accounts and roles (`admin_identity_service.py`, `admin_rbac_service.py`, `admin_management.py`) | accounts, roles, their copies in Redis | look up, change, invalidate | every request of the panel |
| Expected cargo, imports, passports, carousel, statistics | their own tables | mostly single-row create/read/update/delete | -- |

What is hard here is rarely one function. It is that the same row is written by nine write paths
that were written at different times; that a dialogue reads when a button is pressed and writes
when an amount is typed; that Redis, the database and Telegram are updated one after the other;
and that a few in-memory tables (tasks, caches, queues) do not survive a restart. The hazards
are listed in `PROJECT.json`, each at its line, with the properties that cover it or the reason
why none does.

What makes each part correct:

* *ledger*: a row is always explained by its payments, its bill and its wallet cover; no debt of a row
  is dropped silently, and no row with a payment event is deleted; a paid row is not reopened by a
  late payment; reported cargo is billed.
* *approval, verification*: a dialogue that acts on something it read earlier does no harm.
* *POS*: a batch is the same as its items one after the other.
* *sender*: what is marked sent was delivered; a confirmation sends what it showed, once.
* *masks*: a name shown to a client leads back to the flight it stands for; minting never fails.
* *broadcast*: a stop stops; what is recorded as completed is complete; a task ends.
* *requests*: an approval books what the request it answers asked for.
* *scheduler, log handler*: a row is reminded of once on a day, what is recorded was sent; nothing is
  lost silently, shutdown ends.
* *warehouse*: what was handed out is proved once, and its photos are kept.
* *codes*: no two clients share one.
* *caches*: a change that has been announced is seen.

## 2. Modules

| Module | What it is |
|---|---|
| `LedgerRow` | one ledger row with the sums of its events, and what each write path does to it; the row invariants |
| `PaymentLedger` | the ledger of one client as a state machine: every committed database transaction, the dialogues, the Redis metadata |
| `PaymentClaims` | what docstrings and comments claim of the payment code and the code does not do |
| `MCPaymentLedger` | the instance TLC checks: two cargos of one flight, prices, symmetry |
| `LedgerRowProofs` | lemmas: each write path keeps the row invariants |
| `PaymentLedgerProofs` | the inductive invariant, the safety theorems, the refinement of `ReportBook` |
| `PaidStaysPaidProofs` | the action properties of the ledger: paid rows, payments, second rows, payments left out |
| `FlightMasks` | the names partners' clients know flights by: minting by concurrent sessions, overrides, lookup; with two claims of docstrings |
| `MCFlightMasks` | the instances TLC checks |
| `NameBook` | what the masks promise partners and clients: the abstract specification |
| `FlightMasksProofs` | the inductive invariants of the masks, the safety theorems and the refinement of `NameBook` |
| `ReportBook` | what a bulk send promises the database of one flight: the abstract specification |
| `BulkSender` | campaigns, retries, crashes and the hand button over one flight, which implement it |
| `BulkSenderProofs` | the refinement, that rows of the ledger and bills are not doubled, and that no cargo is forgotten, for every value of the constants |
| `BulkDialogue` | the dialogue in which an admin starts a campaign, with a claim of a comment |
| `Broadcast` | announcements: draft, confirmation, the sender's task, stop, restart |
| `PaymentRequests` | the way of a payment request to its approval through Redis and the group |
| `PaymentRequestsProofs` | a request that was alone is booked as it was made, for every number of requests and approvals |
| `CodeRegister` | what the codes of clients promise: the abstract specification |
| `ClientCodes` | generated and typed codes of clients, which implement it |
| `DeliveryProofs` | hand-overs with photos, proofs and flags |
| `Reminders` | the daily reminders of partial payments |
| `TelegramLog` | the log handler: queue, worker, shutdown |
| `AdminIdentity`, `RolePermissions` | the two caches a request to the panel is authorised from |
| `ServicesProofs` | the two caches, proofs of hand-over, announcements, reminders and the log handler, for every value of their constants |
| `ClientCodesProofs` | generated codes are distinct and stay free, and the refinement, for every number of clients and sessions |
| `MCServices` | the instances of the services TLC checks, side by side |

Where parts share state, one module has both sides: `PaymentLedger` every writer of the ledger but one
(the warehouse also inserts pending rows for single cargos, `warehouse_router.py:1464-1478`; it is
modelled in `DeliveryProofs`, for the photos, and those rows are not in the ledger's model),
`BulkSender` campaigns and the hand button, `DeliveryProofs` the warehouse, POS and the desks that
set the flag, `PaymentRequests` the submissions of bot and API and the approvals, `ClientCodes` all
writers of codes. Between these groups there is a single interface each time, a committed
transaction: `ReportSent` of `PaymentLedger` is `Mark` and `Commit` of `BulkSender` without the
steps between, `Submit` and `ApproveAmount` are `PaymentRequests` with the request's keys at hand. The
services in `MCServices` share nothing at all, so their interleaving is nothing to look at: a
behaviour of that module is a behaviour of one of them, and the others stay where they are.

### 2.1 LedgerRow

The columns of `client_transaction_data` that carry money or status are fields of a record under
short names (`summa`, which is 0 until a payment is booked on the row, `paid` is `paid_amount`, `total` `total_amount`, `remaining` `remaining_amount`, `pbd`
`payment_balance_difference`, `taken` `is_taken_away`, `item` `qator_raqami`, with `Whole` for 0).
`Ghost` is `_is_backfill_transaction`, the look of the rows a lookup may delete; `Gone` stands in the
place of a deleted row, so that ids, which PostgreSQL does not use again, stay positions in the table.
A row's events are kept as two sums, by `wallet` and by any other provider, and the set of account
providers among them: that is all the code asks of them.

Five *history* fields say what moved the columns without an event: `allocated` (FIFO debt
payments), `withdrawn` (refunds, delivery fees), `covered` (wallet credit counted as payment),
`waived` (debt dropped when a partial row is closed) and `lost` (events an overwrite left out of
`paid_amount`). No action reads them; they exist so that "explained" can be said.

Operators correspond to write paths, not to functions, so code shared by bot and API is written
once: `PendingDebt`/`Extended` (report, hand-sent report), `Booked` (any overwrite of a row by a
payment), `ToppedUp` (event, then `recalculate_transaction_balance`), `PartialTopUp` and `Settled`
(`create_payment_transaction`), `ExistingPaid` (`process_existing_transaction_payment`),
`ForceTaken` (`mark_transaction_taken`), `Allocated`/`Withdrawn` (`PaymentAllocationService`),
`Adjustment` (`create_system_adjustment`).

### 2.2 PaymentLedger

`rows` is the client's part of the table in id order, `sent` the cargo with `is_sent`, `walletKey`
and `modeKey` the Redis metadata of a payment request, `asked` the approval messages whose buttons
are live, `prompt` the FSM data of each admin. `purse` bounds the sum of all amounts people type
and has no counterpart in the code.

| Actions | Code |
|---|---|
| `ReportSent`, `ManuallySent` | `_handle_send_result` + `_mark_as_sent`; `manual_sent_handler` |
| `Submit`, `Reject` | the three submissions of bot and API; `_do_rejection` |
| `ApprovePrompt`, `ApproveAmount` | `approve_payment_callback`; amount or full-pay handler with `_process_approved_payment` |
| `CashPrompt`, `CashAmount`, `Cancel` | `cash_payment_confirmed_callback`, `cash_payment_amount_received`, the `/cancel` branches |
| `AccountPrompt/Amount`, `VerifyPrompt/Amount`, `UnpaidPrompt/Amount` | the three dialogues of client verification |
| `PosPay`, `PosBulk`, `PosExisting` | `process_unpaid_cargo_payment`, `process_bulk_payment`, `process_existing_transaction_payment` |
| `MarkTransactionTaken`, `UpdateTakenStatus`, `AdjustBalance` | `mark_transaction_taken`, `update_taken_status` (and the bot's taken button), `adjust_balance` |
| `ApplyPayment`, `Refund`, `Deliver` | the two amount handlers of the wallet desk; `create_admin_delivery_request` and the approvals of delivery requests |

Choices and abstractions:

* A handler is one action: its reads, its writes and its commit. Two *dialogue* steps of an admin
  are two actions, and anything may happen between them. What two requests do to each other
  inside a handler (there is no `FOR UPDATE`) is not in this module; see the plan.
* `ApproveAmount` has three outcomes: refused because the row is paid; booked and cleaned up;
  booked with the clean-up of Redis, dialogue and buttons lost to a failure after the commit.
* Where a query without `ORDER BY` may return any of several rows (`get_by_client_code_flight`),
  the choice is nondeterministic (`Found`); where it orders (`get_by_client_code_flight_row`),
  `BestRows` says how.
* `get_by_client_code_flight` is not a pure read. When a flight has several flight-level rows, it
  deletes those that look like a backfill's (`Ghost`: pending, `summa` 0, negative balance), unless all
  do. `Healed` is the table after it. A handler that commits afterwards commits the deletion:
  `ReportSent` and `ManuallySent`, `ApproveAmount` (which looks the flight up a second time after its
  commit and commits again; a failure in between loses that second deletion with the clean-up),
  `CashAmount` unless its row was remembered as partial, and `Deliver` when there is a fee.
  Where the handler ends without a commit, the deletion is rolled back: `Submit`, `ApprovePrompt`,
  `CashPrompt`, an approval refused because the row is paid. A handler that finds its remembered row
  deleted books nothing.
* The docstring calls such rows what is left of a backfill script's errors, but the sender's own
  debt rows look the same, and so does a debt that the wallet desk settled (FIFO payments have no
  events and leave `summa` at 0) once a recalculation has reopened it. With a second flight-level row
  beside it (`claim_second_row`), it is deleted, and its debt with it. `ledger_bot` reaches that:
  a report; a cash dialogue opened on the row; the wallet desk pays the debt; an approval without an
  amount opened on it; a hand-sent report makes the row partial; the cash amount inserts the second
  row; the approval recalculates the first one, which is pending again, and its last lookup deletes it.
  `PaymentsKept` says what is never lost that way.
* An admin has one dialogue: a second prompt overwrites the FSM data of the first, as aiogram's
  storage does. "Full pay" is typing the expected amount.
* Money is counted in units. Price, rate and weight are one function `Bill` of a set of cargos
  that includes the extra charge once per bill, as in the code; `BotPrice` is the price the bot's
  unpaid-cargo dialogue uses, which leaves the extra charge and the rate out.
* One client. Rows of different clients share nothing but the code.
* `ApplyPayment` writes what the code writes: money left over when there is no more debt is in the
  result that the desk shows and in no row and no event, although the docstring of
  `apply_payment` says that a credit transaction is created.
* Left out: the scripts that fill in debts once (`backfill_partner_debts.py`,
  `backfill_ostatka_debts.py`), whose rows are `PendingDebt` rows too; the warehouse's pending rows of
  single cargos; the sender's "no data" branch (marks cargo sent without a bill; `BulkSender` has it),
  texts, notifications, the audit log, rounding.

### 2.3 FlightMasks

`aliases` is the committed part of `partner_flight_aliases`. Everything else a session knows is
its own until it commits: `held` the rows it has inserted, `known` the names it is about to show.
There are three kinds of session, told apart by what they do when `ensure_mask` raises:

| Session | Code | Transaction | When a mint fails |
|---|---|---|---|
| `Displays` | `FlightDisplay.mask` with `mint_missing`, `_mint`, `_mint_once` | one of its own, `lock_timeout` | a collision begins again, `MintAttempts` times in all; anything else is raised |
| `Notifiers` | `FlightNotifySender.initialize` | one over all partners of the flight | the partner is skipped, the session goes on |
| `Reviews` | `build_review` of a bulk send | one over all partners of the flight | the review fails |

| Actions | Code |
|---|---|
| `Display`, `Mint` | `FlightDisplay.mask`, with a mask or own number at hand, or without |
| `StartBatch`, `NextPartner` | the loops over the clients' partners, with the first lines of `display_flight_name` |
| `Look`, `Insert`, `Collide` with `Raise` | `ensure_mask`: the lookup with `_next_auto_mask`; `create` going through; `create` violating a constraint, the rollback, the second lookup and what the caller does when that finds nothing |
| `Finish` | the commit, after which the names are shown |
| `LockTimeout`, `DeadlockVictim` | what PostgreSQL does to sessions that wait for each other's rows |
| `SetMask`, `DeleteAlias` | the partner screen and the review's override; `delete_alias` |

Choices and abstractions:

* A step is one SQL statement under READ COMMITTED. `Look` is two: a commit between `get_by_real`
  and `_next_auto_mask` only makes the INSERT fail on the other constraint, to the same effect.
* A name is `<<p, n>>`, "partner p's n-th number", or a model value. That the same string is both a
  mask and, in the China import, a real name is what `is_own_mask_name` is about, so both are
  drawn from one set. Case and white space are left out.
* `told` remembers what clients were shown, `edited` what staff changed since, `lost` what a
  rollback took, `outpaced` the rows committed by others during a mint. No action reads `told`,
  `lost` or `outpaced`; `edited` limits staff to one change of each pair in `Editable`.
* `MaxNumber` bounds the numbers; a mint beyond it is not taken up. In the runs no session gets
  there.
* The memo of `FlightDisplay` lives for one request and is left out; `Display` may be repeated.

`NameBook` is what remains of this when sessions are left out: a book of entries, what clients were
shown, and the pairs that are an exception. A flight enters under a name that is free, only staff change
an entry, a rollback takes back nothing that was in the book, and a name shown is in the book.
`IsNameBook` says that `FlightMasks` implements it, with `aliases` for the book and `told` for what was
shown; steps of sessions that commit and show nothing are stuttering steps of the book.

### 2.4 BulkSender and ReportBook

`stored`, `deleted` and `sent` are one flight's rows of `flight_cargos`, `debts` the number of rows
each client has for the flight in the ledger. A *session* of the database is a campaign's work on
one client, or one press of the hand button; `work` is the report it is busy with.

| Actions | Code |
|---|---|
| `Select`, `Confirm`, `Launch`, `Cancel` | `select_flight` (the campaign's list is fixed here), `confirm_send` before and after the task is registered, `cancel_task` |
| `NoData`, `NoChat`, `Build` | the branches of `_process_client`: nothing to show, nobody to send to, a report |
| `Attempt` | one attempt of `safe_execute` on the message that carries the report |
| `Mark`, `Commit`, `Rollback` | `_handle_send_result`: the UPDATE with the lookup of the debt; the INSERT with the commit; the database refusing any of it |
| `Press` | `manual_sent_handler`, which reads what is unsent *now* |
| `Import`, `Delete`, `Crash` | other writers of the table; a restart of the bot |

* Telegram's answer may be lost after it accepted the message: an attempt without an answer may or
  may not have told the client, and is repeated while attempts are left. Sending twice is
  therefore possible, and nothing here says otherwise; what is said is that `sent` implies told.
* READ COMMITTED is explicit: `Mark` waits for the rows that others have updated and not committed
  (`Locked`), and sees the ledger as it is committed by then.
* A leftover flight (`ostatka`) has another sender with the same loop and four differences, each a
  conjunct: it goes on without static data, sends to a group only, needs no photo, and adds to a
  debt that is there.
* `told`, `vouched`, `excused` and `billed` are history.

`ReportBook` is the promise: a cargo is closed for good, only after its client has been told (or an
admin vouches for it), in the very step in which the client comes to owe for the flight; or there
is nothing to tell. `Book == INSTANCE ReportBook` maps `told` to `told \cup vouched`, `closed` to
`sent`, and `owes` to the clients with a row; `IsReportBook` is `Book!Spec`.

The exceptions of `OneDebtRow` are needed. The lock that keeps two sessions apart is the lock of a
*cargo row*. If the cargo two lists share is deleted, or a third campaign marks it as sent with
nothing to tell, the two no longer wait for each other and each inserts a debt. The first was
found by TLC, the second by the proof, which needs more sessions than the instance has.

### 2.5 BulkDialogue

The dialogue before a campaign: FSM state and data are two keys of Redis that expire one by one,
screens with buttons stay in the chat. aiogram handles the updates of one chat concurrently here
(no isolation of events, `bot.py:128`; the webhook feeds updates to the dispatcher as they come,
`bot.py:445`), so a second press is handled while the first waits for Telegram. What keeps two
handlers apart between two such waits is the throttle of half a second; the model assumes that
it does, and makes the calls of Redis between two calls of Telegram one step. `underway` holds the
handlers that wait. The module has no passing run: its one property, `SendsWhatItShows`, is what
the comment above the binding of a confirmation screen says, and it is violated.

### 2.6 Broadcast

`draft` is the wizard's data, `status` and `saved` the row of `broadcast_messages`, `active` and
`flag` the process's table of tasks, `at`, `rest` and `got` a task's place. The confirm button sends
the draft *as it is then*, whatever the preview shows (`ConfirmDraft`); a task is known by admin and
second, so the later of two started in a second takes the entry (`LaunchTask`); a recipient whom
Telegram asks to wait for is not tried again (`SendOne`); a progress message that cannot be sent
leaves the row scheduled for ever (`NoMessage`), and a restart leaves it sending (`CrashBroadcasts`). The stop
button sets the flag and then the row, two steps (`PressStop`, `RecordStop`): a task that completes
in between ends as cancelled, or completes over the cancellation, which is why `StopIsHeard` is
about the flag and `CompletedCoversAll` about what a completed row stands for.

### 2.7 PaymentRequests

A request of a client is a script of writes (`Script`): keys of Redis, one at a time (`WriteKey`), and the
message to the admins, which may fail and ends the request there (`Post`); the handler itself may
stop anywhere (`AbortRequest`). Which keys it writes depends on how the client pays, online, in cash or
from the wallet alone, and on whether wallet money is used: `payment_receipt` (the message's
file), `payment_mode`, `wallet_used`, and from the bot `payment_card_id`. Bot and API write the keys
first, except that the API's online submission sends the message first. Whether an online payment
is full or partial is a value of `payment_mode`, and as a key stands for the request that wrote it, not
for its value, the model need not tell them apart.

An approval reads mode, wallet and card when its dialogue ends (`ReadMeta`), the receipt when it
books (`BookRequest`), and then deletes all keys (`Clean`), or some before it is stopped
(`CleanPart`). Three things leave the keys for the rest of their day: an approval of a cash payment,
which reads the wallet's and deletes none (`EndCash`); a rejection (`Reject`); and an approval that is
refused or given up (`Drop`). Keys are named by client and flight, not by request. A later
request that does not write a key itself is then booked with the older one's. No text in the
repository says that it is not, so this is not a finding; it is the hazard at `make_payment.py:195`
and the reason for the exception in `BookedAsAsked`: `overlapped` remembers which requests were
underway with another approval or request for the flight, the keys of earlier ones included, or
met an expiry, a failure of Redis or a restart.

### 2.8 ClientCodes

`main` and `extra` are the two unique columns; that a code is in one of them only is up to the
program. A generated code is picked under a lock of the table (`LockTable`, `Pick`, `Store`); a typed
one is looked up and then written (`TypeCode`, `Store`), with nothing in between to keep it. Hence
the exception in both properties. `NextCode` is what the query computes, the smallest free
number *that follows a taken one*; a gap at 1 is not filled, though the docstring speaks of the
smallest number from 1.

`CodeRegister` has no sessions and no lock: a client gets, in one step, the number that is next *then*,
or a typed number that nobody else has in that column. `IsCodeRegister` says that `ClientCodes`
implements it. It says more than that generated codes differ: the number picked must still be next when
it is written, so a deletion in between would break it although no two clients share a code.

### 2.9 DeliveryProofs

(A model of the proofs of hand-over; the theorems are in `ServicesProofs`.) A request of the
warehouse checks, uploads its photos and commits; the check and the flags it read are as old as the
upload took. `together` and `raced` say between whom that happened, and are the exceptions of
`ProofsSound`: two requests for one row leave two proofs, and a flag taken back during an upload
stays so although the row has a proof. A bulk request uploads once for all its rows, so when POS
takes back the flag of one and deletes its photos, the other rows lose theirs: the exception of
`EvidenceKept`. `StartFresh` is the cargo without a row, for which one is made.

### 2.10 Reminders and TelegramLog

Both have a clock, a bounded number that ticks whatever else happens. `Reminders`: the loop looks
at what is due (5, 2 or 0 whole days left), renders, sends, records and sleeps a day from then; an
error makes it wait for an hour. Nothing but the clock keeps it from reminding twice, and the record is
never read. The proof needs that a day is at least the wait after an error (`RemindersAssumption`; 24 hours
and one). `TelegramLog`: `emit` hands a record to the event loop, which puts it into a queue
that drops its oldest entry when full, the stop signal included; the worker suppresses repetitions
and what comes too soon, and counts them for a report.

### 2.11 AdminIdentity and RolePermissions

Both number the states of what is cached by its commits, so "stale" is "a smaller number".
`AdminIdentity`: a lookup remembers the counter it saw, stores its copy under it, and a copy whose stamp
is not the counter is not believed. `outlived` is the exception of `IdentityFresh`: when the
counter expires under a lookup and staff change the account again, numbers repeat, and a stale copy is
believed until its own expiry. The comment at the constant (`admin_identity_service.py:52`) says
that expiring it "merely costs one extra database read"; it takes a lookup that is underway when
the counter expires to refute it. `RolePermissions` has no stamps: a lookup underway at a clearing puts the
old permissions back (`crossed`), for as long as the copy lives, although the caller's comment
(`admin_management.py:444`) has them "take effect immediately". As SADD adds to a set, a copy may hold the
permissions of several states.

### 2.12 MCServices

The services above except the dialogue share no state, so one run holds them: `part` says which
instance a behaviour is of, and the variables of the others do not change. The sender, the announcements
and the hand-overs have two instances each, for which a different bound is interesting.

## 3. Runs

Every run explores the full state space of its instance. Deadlock is checked in all of them except
`services`, where a campaign is over when all its sessions are, and a log handler when it has been shut
down; in its place liveness says that what is started ends.

| Run | Instance | Shows |
|---|---|---|
| `ledger_pos` | one flight of two cargos, cash and click, desks sender + POS + wallet + delivery, 3 rows, purse 3 | `TypeOK`, the four row invariants, `PaidStaysPaid` and `LossIsInBatch` over the write paths of the API |
| `ledger_bot` | the same flight without extra charge, two admins (symmetric), click, desks sender + approval + verification + wallet, 2 rows, purse 3 | `StatusesExplained`, `SentIsBilled`, `PaidStaysPaid`, `PaymentsKept` and `SecondRowIsCash` over interleaved dialogues, with lookups that delete rows |
| `claim_wallet` | sender + POS + delivery | violated: credit that a payment has used is still in the wallet after it |
| `claim_cumulative` | sender + POS + delivery | violated: two items of a bulk payment on one pending row (the trace names one cargo twice) |
| `claim_second_row` | sender + approval, two admins | violated: two flight-level rows of a flight |
| `claim_settled` | sender + approval + POS + delivery, one cargo | violated: a settled flight is charged again |
| `mask_requests` | one partner, three flights and one under the partner's own number; two minting requests, three attempts each; staff override or delete one mask | `TypeOK`, `OneToOne`, `ShownLeadsBack` and `FailedWhenOutpaced`, over concurrent mints, retries and lock timeouts; every mint ends |
| `mask_batches` | two partners, two flights; one notification, one review | `ShownLeadsBack` and the refinement `IsNameBook` over sessions that insert for both partners in either order, with rollbacks and deadlocks; every batch ends |
| `claim_mask_guaranteed` | a notification and a request | violated: clients are told a mask that a rollback has taken |
| `claim_real_name` | one request, one partner | violated: a minted mask is another flight's name |
| `services` | twelve instances of nine services, see below | campaigns implement `ReportBook` and codes `CodeRegister`; the properties of the other services; campaigns, announcements and the shutdown end |
| `claim_bound_screen` | two flights, two confirmation screens | violated: the button of a screen sends another flight |

The bounds and why they are enough. In `ledger_pos` a bill is one unit per cargo plus one, so two
or three: a purse of 3 reaches partial, exact and over-payment, a second payment on each, and
the wallet credit an overpayment leaves. Three rows are a flight-level row, a cargo's row and one
more (an adjustment, a second booking). In `ledger_bot` a bill is one unit per cargo, so that a purse
of 3 pays a debt, reopens and pays it again, and still has a unit for the second flight-level row; two
rows are that one and the first, which is all that a lookup needs to delete one. One flight suffices
because no handler relates rows of two flights except the wallet sums and FIFO order, which see
adjustments as rows of another flight. `card` and `payme` follow the branches of `cash` and `click` that the instance covers.
The theorems below do not depend on any of these bounds.

The properties of the ledger, in `PaymentLedger` unless noted:

* `TypeOK` -- includes that no column that must not be negative ever is, and that a dialogue has the id
  of a row that is or was in the table.
* `BalancesExplained`, `DebtsExplained`, `PaidAmountsExplained`, `StatusesExplained` -- the four
  row invariants of `LedgerRow`, after any sequence of write paths.
* `SentIsBilled` -- cargo reported to the client has a row of its flight charging for it.
* `PaidStaysPaid` -- an action property: a paid row is reopened only by new cargo on its bill or
  by a recalculation that forgets what no event backs.
* `PaymentsKept` -- an action property: a row's events are kept, and a row that is no longer
  pending is never booked on another flight or cargo, though POS turns pending flight-level rows
  into rows of cargos and dialogues keep row ids. A row may be deleted, by a lookup; then it was a
  flight-level row without a payment event, and the flight has another flight-level row.
* `SecondRowIsCash` -- the way to a second flight-level row, and there is only one: the amount of a cash
  dialogue that was opened before the flight's row became partial. It bounds the finding of
  `claim_second_row`.
* `LossIsInBatch` -- what `claim_cumulative` finds, and no more: `paid_amount` leaves a payment out
  only when one bulk payment writes a row twice. What is lost was typed in that payment, unless the row
  was partial; then the payment named the row's cargo twice, and its first item had closed the row.

`BalancesExplained`, `DebtsExplained` and `PaidAmountsExplained` are checked in `ledger_pos` only, and
`SentIsBilled` and `PaymentsKept` in `ledger_bot` only, where a second flight-level row, and so a
deletion, is possible. All of them are theorems over all desks.

The properties of `FlightMasks`:

* `TypeOK` -- and that a session about to insert has computed a number.
* `OneToOne` -- of all rows, committed or about to be: a flight of a partner has one mask and a mask
  one flight, the model's docstring's "each direction is a true function".
* `ShownLeadsBack` -- a name a client was shown leads back to the flight when it is typed, unless
  staff changed that mask or a rollback took its row. The two exceptions are needed: the second
  is the finding of `claim_mask_guaranteed`.
* `IsNameBook` -- the refinement of 2.3: it fails if a rollback takes back a committed row, if an entry
  changes that staff did not touch, or if a client is shown a name that is in no row.
* `FailedWhenOutpaced` -- a mint fails once for each row of its partner that others commit
  meanwhile and no oftener, so that three attempts fail only against three such rows. (It is about
  requests, and checked in their run.)
* `SessionsEnd` -- liveness: a session that begins comes to an end.

`SessionsEnd` assumes weak fairness of each session's steps, that is, a running coroutine is
resumed and its statements are executed, and strong fairness of the INSERT itself: it can be
disabled over and over by rows of others, but PostgreSQL queues the waiters of a row lock, so one
that waits is not passed over for ever. Nothing is assumed of requests, notifications, reviews or
staff beginning anything, nor of lock timeouts. Deadlocks are resolved by fairness of the
victim's step (`DeadlockVictim`), which is what `deadlock_timeout` is.

The bounds of the mask runs. Two sessions are enough for every pair of statements to interleave,
and a collision needs two; three flights let one session lose to the other twice in a row and still
succeed or give up with its third attempt. Two partners give the two lock orders of a deadlock and
a first partner's row for the second's rollback to take. One override and one deletion suffice to
free a number that a session has already computed.

The properties of the services, all in the run `services`:

* `TypesOK` -- the type invariants of all nine.
* `IsReportBook` -- the refinement of 2.4: it fails if a cargo is marked without its debt, before its
  client is told, or if anything is unmarked.
* `IsCodeRegister` -- the refinement of 2.8: it fails if a generated code is not the next one when it is
  written.
* `OneDebtRow` -- a client has one row for the flight however campaigns and hands overlap, with the
  two exceptions of 2.4.
* `BilledByOneCampaign` -- on a regular flight overlapping campaigns bill a cargo once.
* `NobodyForgotten` -- a campaign that went through its list has every cargo sent or deleted, or its
  client among the failures it reports.
* `CompletedCoversAll`, `StopIsHeard` -- a completed announcement went through all recipients and its saved
  counters account for each; a stop reaches its own task, unless two started in one second.
* `BookedAsAsked` -- a request that was alone is booked with its own mode, wallet share, card and
  receipt: an approval that is not of cash leaves nothing behind that the next takes for its own.
* `GeneratedIsDistinct`, `GeneratedIsFree`, `ProofsSound`, `EvidenceKept`, `IdentityFresh`,
  `PermissionsFresh` -- see 2.8, 2.9 and 2.11.
* `RemindedOnce` -- no row is reminded of twice with the same days left by one process, and no reminder
  is recorded that was not sent.
* `LogAccounted` -- every record is queued, in the message being sent, shown, or counted for a
  report, unless the queue was full or the handler was stopped.
* `CampaignsEnd`, `BroadcastsEnd`, `ShutdownEnds` -- liveness: a confirmed campaign, a started
  announcement and a shutdown come to an end.

The bounds of `services`. `loop`: one campaign and one press of the hand button over two clients,
one of whom has a late cargo and one that may be deleted, with two attempts per message: a lost answer,
a retry, a failure, the button, and a crash at any point. `overlap`: two campaigns on a client with a late
cargo, the smallest instance in which lists differ and share. `twin` and `single`: two
announcements in one or two seconds; one over two recipients with counters saved at the second.
`requests`: two requests, each online from the web with wallet money, whose message comes first, or in
cash from the bot without, and one admin. `codes`: two
sessions, a client with an old code and one who may come, a number to be typed, and five numbers. `proofs`
and `bulk`: two requests for a row, one of which may be for a cargo without one; one request for
two rows. `reminders`: two rows of one client whose deadlines are half a day apart, a clock
in half days up to three days, which covers the reminder at two days, the one at none and the days
between; that phases five and two are three days apart makes them no different. `log`: a queue of
one, three records of two kinds, a clock that passes every limit. `identity`, `roles`: two requests and
two changes.

Fairness of the services. Weak fairness of a campaign's and an announcement's own steps: the task is a
coroutine, the event loop resumes it, and its calls end (Telegram's with an error if need be, by
the client's timeout). Weak fairness of a press's commit, because a campaign may wait for its
locks. Weak fairness of the shutdown's own steps, which are two waits with a limit
(`asyncio.wait_for`). Nothing is assumed of admins, clients, imports, crashes, failures or rollbacks, nor that time
passes. As a behaviour of `MCServices` is one part's, processes of different parts share a fairness
condition (`First`, `Second`), which is the same as one condition each.

The seven findings are in `PROJECT.json`; each claim is a definition of `PaymentClaims`, of
`PaymentLedger` (`OneFlightRow`), of `FlightMasks` (`MaskGuaranteed`, `RealNameKept`) or of
`BulkDialogue` (`SendsWhatItShows`).

No liveness is stated of the ledger: every step is somebody's decision, and nothing in the code
promises that one is taken.

## 4. Proofs

### The ledger

`Inductive` proves `Spec => []IInv` for every set of flights, cargos, admins and payment types,
every bill, every bound on rows and amounts, from `NamesAssumption` and `LedgerAssumption` (names
do not collide; a bill of some cargo is positive). The invariant is

    IInv == TypeOK /\ Ledger(rows) /\ PromptsPoint /\ SentIsBilled

* `Ledger(rows)` is `RowOK` of every row, the conjunction of the four row invariants. They need each
  other: that a top-up leaves debt explained uses the balance, that an overwrite loses nothing
  uses that a pending row has no payments, that `Recalculated` leaves the status right uses
  the bounds on `paid`.
* `PromptsPoint` says that the row a dialogue remembers is still a row of the flight it was opened
  for, or has been deleted, in which case the amount handler finds nothing and books nothing. It is
  what makes an amount handler safe long after its prompt, and it holds because no handler moves a row
  to another flight and nothing is written in the place of a deleted row (`Grows` in the proof).
* `SentIsBilled` is in it because reports without a debt of their own rely on an earlier row. The
  lookup that deletes keeps it: it deletes only beside a row that it does not delete (`HealedOK`).

`LedgerRowProofs` has one lemma per write path (`RowOK` is kept); `PaymentLedgerProofs` lifts them
to the table (`AppendOK`, `UpdateOK`, `PutOK`, `RewriteOK`), has one lemma per action and puts them
together in `NextOK`. `TypeCorrect`, `BalancesAlwaysExplained`, `DebtsAlwaysExplained`,
`PaidAmountsAlwaysExplained`, `StatusesAlwaysExplained` and `SentAlwaysBilled` follow.

`PaidStaysPaidProofs` has four action properties, each by a pass of its own over the actions, from the
same invariant.

* `PaidAlwaysStaysPaid`: an approval and a POS payment refuse a paid row, a top-up keeps it paid unless
  what was covered or allocated had no event.
* `PaymentsAlwaysKept`: every write path only adds to a row's events (`EventsKept`), and the two that
  write `item` (`Booked`, `PartialTopUp`) find a row of that cargo, or a flight-level row that is
  pending: what `TargetsOf` offers a cargo. A bulk payment is two such writes, and the second may find
  the row the first has just made, so its lemma is about the table before the payment
  (`PosBulkKeepsPayments`). What the lookup deletes carries no payment, because a pending row whose
  status is explained has none (`GhostFacts`, `LookupDeletes`); `Wrote` is the shape that report,
  approval, cash amount and delivery share: a lookup, one row written, perhaps a second lookup.
* `SecondRowIsAlwaysCash`: writes in place make no flight-level row of one that was not
  (`OldWholes`), so only an inserted row can be the second (`AddsWhole`). Each handler inserts at most
  one, and looks before: a report extends the row there is, an approval books on it. The cash amount
  books on the flight's row only while that is pending, and tops a partial row up only if its
  dialogue was opened on it; otherwise it inserts (`LateCash`).
* `LossIsAlwaysInBatch`: only `Booked` leaves payments out, and it starts from a pending row, which
  has none (`StatusExplained`: its cash is 0). Hence no handler loses anything (`NothingLost`) but the
  second item of a bulk payment. That finds a row as it was before the payment (`ItemLost`: nothing
  lost) or the row the first has just paid; then it loses that row's cash, at most what the row had
  and what was typed. If the row was partial before, both items were of its cargo -- nothing in
  the bulk endpoint refuses a cargo that is named twice -- and the first one closed it, for which
  it needed the whole debt, from the wallet or as cash.

So the findings about second rows and about amounts left out (`claim_second_row`, `claim_cumulative`)
have no other cause in this model.

Every action lemma also proves `Grows`: no handler moves a row to another flight; a row is deleted only
where another row goes on charging for its flight (`Superseded`), and its id never leads to anything
again. That is the action theorem `RowsAreKept`, which the program needs wherever it keeps a row's id:
what the id leads to is the row it was taken from, or nothing. The last
part of the module goes from rows to charges. `ChargedWasSent` says that a row of a flight exists only
when cargo of the flight has been reported. It is not inductive: a row may be inserted by an approval, a
cash receipt or an unpaid-cargo dialogue long after its button was made, so `ReportedInv` adds
`OpenWasSent`, that live buttons and open dialogues are about reported cargo (sent cargo stays sent).
Then only the rows an action adds matter (`AddsReported`, one lemma per action that can add one), and
`OnlyReportedCharged` follows. With `SentIsBilled` it makes the charged flights exactly the reported ones,
and `ImplementsBook` follows: the ledger of one client, with his flights for the book's clients,
is a `ReportBook` too, so the step that reports cargo charges for the flight, no other handler charges
one anew, and none leaves a charged flight without a row, although lookups may delete rows. (The ledger tells and closes in one step: that a sender may
fail in between is the subject of `BulkSender`.)

### The masks

`FlightMasksProofs` proves, from `MaskAssumption`, for any number of partners, flights and sessions
of each kind and any number of attempts, that

    IInv == TypeOK /\ OneToOne /\ KnownBacked /\ ToldBacked

is inductive (`Inductive`), and from it follow `TypeCorrect`, `AlwaysOneToOne` and
`ShownAlwaysLeadsBack`. "Backed" is what ties a name to the table: it is the partner's own number,
or staff or a rollback have touched the pair, or its row is stored or held by the session that
knows it. `KnownBacked` says so of the names sessions are about to show, `ToldBacked` of those shown
(whose rows are committed); the step from one to the other is `Finish`, where `held` becomes part
of the table in the same commit. That a name leads back then follows from `OneToOne`: the row found
by the mask is the row that backs it. `TypeOK` needs that the highest number in use exists, so
there is a lemma that a non-empty bounded set of numbers has a maximum. The proof uses what
`Collide` does with the row that won, what `Holders` makes an INSERT wait for, and that `SetMask`
and a commit touch only what they say; the mutants break each of them.

`ImplementsNames` is the refinement of `NameBook`. It needs one thing more, `HeldApart`: a row a session
has not committed is not in the table and in no other session's hands, because an INSERT waits for
whoever holds a row in its way and fails on one that is stored. So what a rollback gives up was never
in the book. A commit is `Enter`: by `OneToOne` over committed and held rows its entries are
free, and by `KnownBacked` the names it shows are in them or are exceptions. Staff's two actions are
`Change`, of one pair, and `edited` records it.

### The bulk sender

`BulkSenderProofs` assumes `SenderAssumption` only: any number of clients, cargos, campaigns, presses
and retries. It goes in three layers.

* `IInv == TypeOK /\ OneClients /\ Told /\ FoundOwes` (`Inductive`): a report is of one client, a
  campaign about to mark has told him, a row that was found is still there. That is enough for
  `ImplementsBook`: each action is a step of `ReportBook` or leaves its variables alone, `Commit` being
  the one that needs all three.
* `RowsInv` adds why there is one row. While a client is `Clean` (none of his cargos deleted or
  excused) and owes nothing, his list has only grown, so all that campaigns planned and sessions
  hold of him are snapshots of one growing list, a chain (`Nested`); two snapshots that are not
  empty share the first one's cargos, so the row lock lets one session of the two to the lookup at a
  time (`Alone`), and the second finds the row. `OneRow` follows. The exception `excused` came out of
  this proof: `NoData` takes a client's cargo off the list without a bill, and a press after it
  holds a snapshot that shares nothing.
* `AllInv` adds where each cargo of a campaign is (`Accounted`); `NoneIsForgotten` follows.

### Codes, proofs of hand-over, caches

* `ClientCodesProofs`, from `CodesAssumption`: `LockHeld` says that a code picked and not typed is picked
  by the one session that has the lock. That the number picked is free needs that there is one: a
  bounded set of numbers has a greatest, whose successor is free, so the set `NextCode` chooses from has a
  smallest element (`WFMin` over `NatLessThanWellFounded`). `ImplementsRegister` needs that the number
  also stays *next* until it is stored (`PickedIsNext`): while a session holds the lock with a number it
  picked, no other session writes a code and no client is deleted, since both wait for the lock. The
  mutant lets the deletion go ahead.
* `IdentityIsFresh`: `StampsOrdered` says that, while `outlived` is false, no lookup has a stamp above the
  counter, and that whoever has the counter's value has seen the account no earlier than the last
  clearing; `Invalidate` advances the one and sets the other in one step.
* `PermissionsAreFresh`: without a lookup at the clearing, a copy holds states since the clearing only.
* `ProofsAreSound`, `EvidenceIsKept`, from `ProofsAssumption`: `HandOver` ties each proof to the request
  that made it, each request underway to what it has seen, and each key being cleaned to a
  request one of whose proofs is gone.

### Attempts of a mint

`FailsOnlyWhenOutpaced` needs an invariant of its own, `Paced`: a minting request has failed no
oftener than rows of its partner were committed since it began, and strictly less often while the
number or the flight it is about to insert is already there. The point is the lookup: `Look` and
the second lookup of `Collide` see the table without the flight and without the number, so an
INSERT that fails failed on a row committed since, and that row has been counted in `outpaced` but not
yet in `tries`. Another session's commit can raise the first number alone; only the session's
own failure raises the second.

### Bills of campaigns

`BilledOnce` is about overlapping campaigns on a regular flight. `BillsInv` says that two sessions that
mark have no cargo in common (`Apart`, from the row locks), that the client of a billed cargo has a
row of debt (`BilledOwes`), and that a session which found no row is the first to bill its cargos
(`FirstToBill`). A campaign bills a regular flight's cargo only if it found no row, so the second
one does not (`OneCampaign`). Rows of debt stay here, so no exception is needed: the lookup deletes
a flight's debts only beside a row on which a payment was booked, and leaves that one.

### Payment requests

`PaymentRequestsProofs`, from `RequestsAssumption`, has `RequestsInv`:

* `MetaOwned`, `WritesOwned`: a key belongs to a request that is not settled, and only such a request
  has anything left to write;
* `Pairs`, `Served`: of two unsettled requests each has overlapped, and one that is being
  approved and has not is alone, has written everything and has a single approval;
* `Complete`: what a request that was alone tells is exactly what it has still to write and what lies
  in Redis under its name;
* `ReadAsAsked`: hence what its approval has read is what it tells.

`Complete` is the heart: it is why `Clean` may delete every key (all of them are the request's), and
`settled` may mean that nothing is left. The scripts are sequences, so the proof has lemmas of what
`Tail` and `\o` do to the set of a sequence's elements, and `ScriptTells` that a script writes what
`Tells` says.

### Announcements, reminders, log

* `CompletedCovers`, `StopIsAlwaysHeard`, from `BroadcastAssumption`: `Walking` ties a task's place to who
  is left, who got it and what the row says; `Registered` says that a task which runs is found under its
  second, or another task has the same second, which is the exception of `StopIsHeard`. `Listed` makes it
  inductive: leaving the table and taking an entry are the two steps that could lose a task.
* `OnlyRemindedOnce`, from `RemindersAssumption`: "p days left" is a window of one day of the clock
  (`DaysAreWindows`). A row that was reminded of has either its window behind it, or is one of those found
  now, or will have it behind when the task wakes up. A round that was completed sleeps a whole day, and
  a round that failed before it sent anything reminds of nothing; that is all the code has.
* `LogIsAccounted`, from `LogAssumption`: what was emitted is the sum of what is pending, queued, being
  sent, shown and suppressed, or more than that after an overflow or a shutdown. The lemmas say what
  appending and taking the first do to the number of records in a queue that may hold the stop
  signal.

### What is only model-checked

`TypesOK` of `MCServices`, as an invariant of that composition: it speaks of second instances
(`INSTANCE ... WITH`) and of parts that stay where they are. What it says of each service is a theorem
of that service (`TypeCorrect` of the sender, `RequestsTypeCorrect`, `CodesTypeCorrect`,
`ProofsTypeCorrect`, `BroadcastTypeCorrect`, `RemindersTypeCorrect`, `LogTypeCorrect`,
`IdentityTypeCorrect`, `PermissionsTypeCorrect`), for every value of its constants.

The seven violated claims. Liveness (`SessionsEnd`, `CampaignsEnd`, `BroadcastsEnd`,
`ShutdownEnds`), which is outside the prover, as are `ENABLED`, recursive operators and induction over
data. That the instances are not vacuous (every action fires in the passing runs). The folds over sets
of rows (`MapThenSumSet`) are not unfolded in the proofs: no theorem depends on what a sum is equal
to, only on the shares handed out.

The inductive invariants were checked by TLC as invariants of the instances before they were proved,
and so were `ChargedWasSent`, `RowsAreKept` and the refinement of `ReportBook` on the two ledger instances,
which no listed run states.

## 5. Plan

What comes next, in this order.

| Module | Of | Runs | Theorems |
|---|---|---|---|
| `PaymentRaces` | the handlers of `PaymentLedger` that read and write a row without a row lock, as two steps | in place of a claim run of the ledger | which row invariants survive |
| `DeliveryRequests` | the row of a delivery request and its approval by two admins | with `services` | a request takes its fee once, where the code makes it so |
| `BulkSender` (more) | the web's campaigns, which mark `is_sent_web` | in place of `loop` | the refinement for both marks |

An abstract specification still worth stating is that of a ledger row (a debt that payments and
cover reduce), which `PaymentLedger` would implement row by row with the history fields as the
mapping; `PaymentsKept`, `PaidStaysPaid` and `LossIsInBatch` say parts of it.

## 6. Not modelled, and why

* *Expected cargo, imports, passports, carousel*: single row operations guarded by the database's
  constraints. Their invariants are those constraints, and a model would restate them. That
  cargo comes and goes while a campaign runs is in `BulkSender`.
* *Parts of modelled components*: the row of a delivery request and its rate limit, the web's
  campaigns, the leftover notifications of the scheduler, the registration form, logins, PINs,
  passkeys and tokens, and the requests of the wallet desk that change no ledger row. `PROJECT.json`
  says so at each component.
* *Statistics, analytics, reports, exports*: pure reads.
* *Backups, Google Sheets, files, webhooks, request logging, rate limits of the API*: input and
  output of services that are not in this repository.
* *Telegram*: appears in the models only through what the code does with its answers.
* *Roundings and currencies*: amounts are units. The code computes in floats over columns of two
  decimals and compares amounts exactly; what a float does to a sum of many payments is not
  modelled.
* *Real time*: `Reminders`, `TelegramLog` and `Broadcast` have a bounded clock, because their
  behaviour depends on differences of times. Everywhere else timeouts and expiries are choices
  that may be made at any moment.

`PROJECT.json` lists every part with its status, and each hazard with the properties that cover it
or the reason why none does.
