------------------------------ MODULE LedgerRow ------------------------------
(***************************************************************************)
(* One row of the table client_transaction_data together with the sums of  *)
(* its rows in client_payment_events, and what each write path of the      *)
(* program does to it.  Every operator maps a row to the row a database    *)
(* transaction leaves behind, so the same operator serves the bot handler, *)
(* the HTTP endpoint and the bulk POS endpoint that share the code.        *)
(*                                                                         *)
(* Columns: flight (reys), item (qator_raqami: Whole stands for 0, the     *)
(* flight-level row), status (payment_status), summa (0 until a payment is *)
(* booked on the row), paid, total, remaining (paid_amount, total_amount,  *)
(* remaining_amount), pbd (payment_balance_difference), taken              *)
(* (is_taken_away).                                                        *)
(* Events: cash and wallet are the sums of the row's events by provider    *)
(* ("wallet" or any other), providers the account providers among them.    *)
(* History, read by no handler: what moved the balance outside the events  *)
(* since the row was last computed from its payments -- allocated (FIFO    *)
(* debt payments), withdrawn (refunds, delivery fees), covered (wallet     *)
(* credit counted as payment), waived (debt dropped by a forced closure),  *)
(* lost (events the last overwrite of the row left out of paid).           *)
(***************************************************************************)
EXTENDS Integers

CONSTANTS
    Flights,        \* flight names with cargo of the client
    Cargos,         \* FlightCargo ids of the client
    Whole,          \* qator_raqami = 0
    SysAdj,         \* reys "SYS_ADJ:<reason>" of a balance adjustment
    Types           \* payment types in use

ASSUME NamesAssumption ==
    /\ Whole \notin Cargos /\ SysAdj \notin Flights
    /\ Types \subseteq {"cash", "card", "click", "payme"}

Statuses == {"pending", "partial", "paid"}

\* The account providers, for which a row takes one bot confirmation each.
Providers == Types \cap {"click", "payme"}

Row == [flight : Flights \cup {SysAdj}, item : Cargos \cup {Whole},
        status : Statuses, summa : Nat, paid : Nat, total : Nat, remaining : Nat,
        pbd : Int, taken : BOOLEAN,
        cash : Nat, wallet : Int, providers : SUBSET Providers,
        allocated : Nat, withdrawn : Nat, covered : Nat, waived : Nat,
        lost : Nat]

PositivePart(x) == IF x > 0 THEN x ELSE 0
Lesser(a, b) == IF a < b THEN a ELSE b

\* The debt row written when cargo is reported to the client.
PendingDebt(f, bill) ==
    [flight |-> f, item |-> Whole, status |-> "pending", summa |-> 0, paid |-> 0,
     total |-> bill, remaining |-> bill, pbd |-> -bill, taken |-> FALSE,
     cash |-> 0, wallet |-> 0, providers |-> {},
     allocated |-> 0, withdrawn |-> 0, covered |-> 0, waived |-> 0, lost |-> 0]

\* What is left in the place of a deleted row: nothing of a flight, no balance.
Gone == [PendingDebt(SysAdj, 0) EXCEPT !.status = "paid", !.taken = TRUE]

\* The hidden row of a cashier's balance adjustment and its signed event.
Adjustment(a) ==
    [Gone EXCEPT !.pbd = a, !.wallet = a,
                 !.allocated = PositivePart(a), !.withdrawn = PositivePart(-a)]

\* Mutant: only the balance tells a ghost.
GhostByBalance(t) == t.item = Whole /\ t.pbd < 0

\* _is_backfill_transaction: a flight-level debt on which no payment was booked.
Ghost(t) == t.item = Whole /\ t.status = "pending" /\ t.summa = 0 /\ t.pbd < 0

\* Mutant: the bill grows, what is outstanding does not.
ExtendedTotalOnly(t, bill) ==
    [t EXCEPT !.total = @ + bill, !.pbd = @ - bill]

\* "Sent by hand": the bill of the newly sent cargo is added to the row.
Extended(t, bill) ==
    [t EXCEPT !.total = @ + bill, !.remaining = @ + bill, !.pbd = @ - bill,
              !.status = IF @ = "paid" THEN "partial" ELSE @]

\* Mutants: an overpayment not kept as credit, an overpaid row read as partial.
RecalculatedNoCredit(t) ==
    LET totalPaid == t.cash + t.wallet
        remaining == PositivePart(t.total - totalPaid)
    IN  [t EXCEPT !.paid = totalPaid, !.remaining = remaining, !.pbd = -remaining,
                  !.status = IF remaining = 0 THEN "paid"
                             ELSE IF totalPaid > 0 THEN "partial" ELSE "pending",
                  !.allocated = 0, !.withdrawn = 0, !.covered = 0, !.waived = 0, !.lost = 0]
RecalculatedExact(t) ==
    LET totalPaid == t.cash + t.wallet
    IN  [t EXCEPT !.paid = totalPaid, !.remaining = PositivePart(t.total - totalPaid),
                  !.pbd = totalPaid - t.total,
                  !.status = IF totalPaid = t.total THEN "paid"
                             ELSE IF totalPaid > 0 THEN "partial" ELSE "pending",
                  !.allocated = 0, !.withdrawn = 0, !.covered = 0, !.waived = 0, !.lost = 0]

\* recalculate_transaction_balance: the columns are derived from the events
\* alone, whatever was covered, allocated or withdrawn before.
Recalculated(t) ==
    LET totalPaid == t.cash + t.wallet
        remaining == PositivePart(t.total - totalPaid)
    IN  [t EXCEPT !.paid = totalPaid, !.remaining = remaining,
                  !.pbd = totalPaid - t.total,
                  !.status = IF remaining = 0 THEN "paid"
                             ELSE IF totalPaid > 0 THEN "partial" ELSE "pending",
                  !.allocated = 0, !.withdrawn = 0, !.covered = 0,
                  !.waived = 0, !.lost = 0]

\* ClientPaymentEventDAO.create: an immutable event of the row.
WithEvent(t, provider, a) ==
    IF provider = "wallet"
    THEN [t EXCEPT !.wallet = @ + a]
    ELSE [t EXCEPT !.cash = @ + a, !.providers = @ \cup ({provider} \cap Providers)]

\* Mutant: the row is computed before the event is written.
ToppedUpStale(t, provider, a) == WithEvent(Recalculated(t), provider, a)

ToppedUp(t, provider, a) == Recalculated(WithEvent(t, provider, a))

\* Mutant: an overpayment leaves a negative remaining_amount.
BookedUnclamped(t, f, c, bill, w, a, provider) ==
    [(IF a > 0 THEN WithEvent(t, provider, a) ELSE t) EXCEPT
        !.flight = f, !.item = c, !.summa = bill, !.paid = a, !.total = bill,
        !.remaining = bill - w - a, !.pbd = a - bill,
        !.status = IF bill - w - a <= 0 THEN "paid" ELSE "partial", !.covered = w]

\* The row written for a payment of a out of bill when w of it is taken from
\* the wallet: total, balance and paid_amount are overwritten, so what earlier
\* events of t said is left out of them.
Booked(t, f, c, bill, w, a, provider) ==
    [(IF a > 0 THEN WithEvent(t, provider, a) ELSE t) EXCEPT
        !.flight = f, !.item = c, !.summa = bill, !.paid = a, !.total = bill,
        !.remaining = PositivePart(bill - w - a), !.pbd = a - bill,
        !.status = IF bill - w - a <= 0 THEN "paid" ELSE "partial",
        !.allocated = 0, !.withdrawn = 0, !.covered = w, !.waived = 0,
        !.lost = t.cash]

\* What PaymentService.create_payment_transaction takes as the amount due.
Basis(t, bill) == IF t.status = "partial" /\ t.remaining > 0 THEN t.remaining ELSE bill

\* The partial row's own payment is kept and the new one added to it.
PartialTopUp(t, c, w, a, provider) ==
    [WithEvent(t, provider, a) EXCEPT
        !.item = c, !.summa = t.total, !.paid = @ + a, !.remaining = PositivePart(@ - w - a),
        !.pbd = t.paid + a - t.total,
        !.status = IF t.remaining - w - a <= 0 THEN "paid" ELSE "partial",
        !.allocated = 0, !.withdrawn = 0, !.covered = @ + w]

\* create_payment_transaction on the row t (a pending row, a partial one, one
\* an earlier item of the batch has just written, or a new one): w comes from
\* the wallet, a is what the cashier typed.  When the wallet covers the amount
\* due, a is not booked and the only event is the wallet's.
Settled(t, c, bill, w, a, type) ==
    LET need == Basis(t, bill) - w
        booked == IF t.status = "partial"
                  THEN PartialTopUp(t, c, w, IF need <= 0 THEN 0 ELSE a,
                                    IF need <= 0 THEN "wallet" ELSE type)
                  ELSE Booked(t, t.flight, c, bill, w,
                              IF need <= 0 THEN 0 ELSE a, type)
        closed == IF need <= 0 THEN WithEvent(booked, "wallet", w) ELSE booked
    IN  [closed EXCEPT !.taken = @ \/ (type = "cash" /\ closed.status = "paid")]

\* process_existing_transaction_payment: a cash event, a recalculation, and
\* the wallet share w counted on top of it for remaining_amount only.
ExistingPaid(t, w, a, type) ==
    LET r == ToppedUp(t, type, a)
        remaining == PositivePart(r.total - r.paid - w)
        status == IF remaining = 0 THEN "paid" ELSE "partial"
    IN  [r EXCEPT !.remaining = remaining, !.status = status, !.covered = w,
                  !.taken = @ \/ (type \in {"cash", "card"} /\ status = "paid")]

\* Mutant: the closed row keeps its remaining_amount.
ForceTakenDebtKept(t) ==
    IF t.status = "partial" THEN [t EXCEPT !.status = "paid", !.taken = TRUE]
    ELSE [t EXCEPT !.taken = TRUE]

\* mark_transaction_taken: a partial row is force-closed, its debt kept in pbd.
ForceTaken(t) ==
    IF t.status = "partial"
    THEN [t EXCEPT !.status = "paid", !.remaining = 0, !.taken = TRUE,
                   !.waived = @ + t.remaining]
    ELSE [t EXCEPT !.taken = TRUE]

Taken(t) == [t EXCEPT !.taken = TRUE]

\* FIFO debt payment of a on the row's balance.
Allocated(t, a) ==
    [t EXCEPT !.pbd = @ + a, !.allocated = @ + a,
              !.status = IF t.pbd < 0 /\ t.pbd + a >= 0 THEN "paid" ELSE @]

\* Refund, or delivery fee, of a from the row's balance.
Withdrawn(t, a) == [t EXCEPT !.pbd = @ - a, !.withdrawn = @ + a]
------------------------------------------------------------------------------
(***************************************************************************)
(* What holds of every row after every database transaction.               *)
(***************************************************************************)

\* pbd is what was paid less what is owed, moved only by FIFO allocations and
\* withdrawals since the columns were last written.
BalanceExplained(t) == t.pbd = t.paid + t.allocated - t.total - t.withdrawn

\* No write path drops debt silently: what is no longer outstanding was paid,
\* covered by the wallet or waived, and no more than the bill is outstanding.
DebtExplained(t) ==
    /\ t.remaining + t.paid + t.covered + t.waived >= t.total
    /\ t.remaining <= t.total

\* paid_amount stays between the cash events it summarises and all events.
PaidExplained(t) ==
    t.flight # SysAdj =>
        t.wallet >= 0 /\ t.cash <= t.paid + t.lost /\ t.paid <= t.cash + t.wallet

\* The status agrees with what is outstanding.  A pending row is a flight-level
\* row no event refers to, so the handlers that overwrite it lose nothing.
StatusExplained(t) ==
    /\ t.status = "paid" => t.remaining = 0 \/ t.allocated > 0
    /\ t.status = "partial" => t.remaining > 0
    /\ t.status = "pending" =>
         /\ t.item = Whole /\ t.paid = 0 /\ t.remaining = t.total
         /\ t.cash = 0 /\ t.wallet = 0

\* What no write path does to a row t that becomes r: take a payment event from
\* it, move it to another flight, or give it to another item once it is no longer
\* pending.
KeepsPayments(t, r) ==
    /\ r.flight = t.flight
    /\ t.cash <= r.cash /\ t.wallet <= r.wallet /\ t.providers \subseteq r.providers
    /\ t.status # "pending" => r.item = t.item

RowOK(t) == BalanceExplained(t) /\ DebtExplained(t) /\ PaidExplained(t) /\ StatusExplained(t)
==============================================================================
