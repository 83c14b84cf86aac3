--------------------------- MODULE LedgerRowProofs ---------------------------
(***************************************************************************)
(* Every row operator of LedgerRow keeps a well-explained row well         *)
(* explained.  These lemmas carry the invariants of PaymentLedger.         *)
(* Each proof names the new values of the columns, shows the row typed,    *)
(* reads the columns off the new row, and concludes by arithmetic.         *)
(***************************************************************************)
EXTENDS LedgerRow, TLAPS

\* A row a handler of a flight may write: not a balance adjustment.
FlightRow(t) == t \in Row /\ t.flight # SysAdj /\ RowOK(t)

\* What the two arithmetic helpers of LedgerRow return.
LEMMA PositivePartFacts ==
    ASSUME NEW x \in Int
    PROVE  /\ PositivePart(x) \in Nat
           /\ x <= 0 => PositivePart(x) = 0
           /\ x > 0 => PositivePart(x) = x
BY DEF PositivePart

\* A debt row written by the bulk cargo sender is explained.
LEMMA PendingDebtOK ==
    ASSUME NEW f \in Flights, NEW bill \in Nat
    PROVE  FlightRow(PendingDebt(f, bill)) /\ PendingDebt(f, bill).flight = f
BY NamesAssumption
   DEF PendingDebt, FlightRow, Row, RowOK, BalanceExplained, DebtExplained,
       PaidExplained, StatusExplained, Statuses

\* What stands for a deleted row: a settled row of no flight, which has been taken.
LEMMA GoneFacts ==
    /\ Gone \in Row /\ RowOK(Gone)
    /\ Gone.flight = SysAdj /\ Gone.flight \notin Flights
    /\ Gone.status = "paid" /\ Gone.taken /\ Gone.pbd = 0 /\ Gone.lost = 0
<1> DEFINE d == PendingDebt(SysAdj, 0)
<1>1. /\ d \in Row /\ d.flight = SysAdj /\ d.pbd = 0 /\ d.paid = 0 /\ d.total = 0
      /\ d.remaining = 0 /\ d.allocated = 0 /\ d.withdrawn = 0 /\ d.covered = 0
      /\ d.waived = 0 /\ d.lost = 0
  <2>1. ASSUME NEW bill \in Nat, bill <= 0
        PROVE  PendingDebt(SysAdj, bill) \in Row /\ PendingDebt(SysAdj, bill).pbd = 0
    <3>1. PendingDebt(SysAdj, bill) \in Row /\ PendingDebt(SysAdj, bill).pbd = -bill
      BY DEF PendingDebt, Row, Statuses
    <3>2. -bill = 0
      BY <2>1
    <3> QED BY <3>1, <3>2
  <2>2. d \in Row /\ d.pbd = 0
    BY <2>1
  <2>3. /\ d.flight = SysAdj /\ d.paid = 0 /\ d.total = 0
        /\ d.remaining = 0 /\ d.allocated = 0 /\ d.withdrawn = 0 /\ d.covered = 0
        /\ d.waived = 0 /\ d.lost = 0
    BY DEF PendingDebt
  <2> QED BY <2>1, <2>2, <2>3
<1>2. Gone = [d EXCEPT !.status = "paid", !.taken = TRUE]
  BY DEF Gone
<1> HIDE DEF d
<1>3. Gone \in Row
  BY <1>1, <1>2 DEF Row, Statuses
<1>4. /\ Gone.flight = SysAdj /\ Gone.status = "paid" /\ Gone.taken = TRUE /\ Gone.pbd = 0
      /\ Gone.paid = 0 /\ Gone.total = 0 /\ Gone.remaining = 0 /\ Gone.allocated = 0
      /\ Gone.withdrawn = 0 /\ Gone.covered = 0 /\ Gone.waived = 0
      /\ Gone.lost = 0
  BY <1>1, <1>2 DEF Row
<1>5. RowOK(Gone)
  BY <1>4 DEF RowOK, BalanceExplained, DebtExplained, PaidExplained, StatusExplained
<1> QED BY <1>3, <1>4, <1>5, NamesAssumption

\* A balance adjustment of either sign is explained.
LEMMA AdjustmentOK ==
    ASSUME NEW a \in Int
    PROVE  Adjustment(a) \in Row /\ RowOK(Adjustment(a))
<1>1. PositivePart(a) \in Nat /\ PositivePart(-a) \in Nat
      /\ a = PositivePart(a) - PositivePart(-a)
  BY DEF PositivePart
<1>2. Adjustment(a) \in Row
  BY <1>1, NamesAssumption DEF Adjustment, Gone, PendingDebt, Row, Statuses
<1>3. RowOK(Adjustment(a))
  BY <1>1 DEF Adjustment, Gone, PendingDebt, RowOK, BalanceExplained,
       DebtExplained, PaidExplained, StatusExplained
<1> QED BY <1>2, <1>3

\* Cargo sent by hand is added to a row's bill (manual_sent_handler).
LEMMA ExtendedOK ==
    ASSUME NEW t, FlightRow(t), NEW bill \in Nat, bill > 0
    PROVE  FlightRow(Extended(t, bill)) /\ Extended(t, bill).flight = t.flight
<1> DEFINE r == Extended(t, bill)
<1>1. /\ t \in Row /\ t.total + bill \in Nat /\ t.remaining + bill \in Nat /\ t.pbd - bill \in Int
      /\ (IF t.status = "paid" THEN "partial" ELSE t.status) \in Statuses
  BY DEF FlightRow, Row, Statuses
<1>2. r \in Row
  BY <1>1 DEF Extended, Row
<1>3. /\ r.flight = t.flight /\ r.item = t.item /\ r.paid = t.paid
      /\ r.total = t.total + bill /\ r.remaining = t.remaining + bill
      /\ r.pbd = t.pbd - bill /\ r.cash = t.cash /\ r.wallet = t.wallet
      /\ r.status = IF t.status = "paid" THEN "partial" ELSE t.status
      /\ r.allocated = t.allocated /\ r.withdrawn = t.withdrawn
      /\ r.covered = t.covered /\ r.waived = t.waived /\ r.lost = t.lost
  BY <1>1 DEF Extended, Row
<1>4. RowOK(r)
  BY <1>1, <1>3 DEF FlightRow, Row, RowOK, BalanceExplained, DebtExplained,
                    PaidExplained, StatusExplained
<1> QED BY <1>1, <1>2, <1>3, <1>4 DEF FlightRow

\* A payment event and the recalculation after it (approvals of a partial row,
\* account and cash confirmations), unless it would leave a cargo's row unpaid.
LEMMA ToppedUpOK ==
    ASSUME NEW t, FlightRow(t), NEW a \in Nat, NEW provider,
           a > 0 \/ t.item = Whole
    PROVE  /\ FlightRow(ToppedUp(t, provider, a))
           /\ ToppedUp(t, provider, a).flight = t.flight
           /\ a > 0 => ToppedUp(t, provider, a).paid > 0
<1> DEFINE e == WithEvent(t, provider, a)
           r == ToppedUp(t, provider, a)
           sum == e.cash + e.wallet
           due == PositivePart(e.total - sum)
           status == IF due = 0 THEN "paid" ELSE IF sum > 0 THEN "partial" ELSE "pending"
<1>1. /\ t \in Row /\ t.cash + a \in Nat /\ t.wallet + a \in Int
      /\ t.providers \cup ({provider} \cap Providers) \in SUBSET Providers
  BY DEF FlightRow, Row
<1>2. e \in Row
  BY <1>1 DEF WithEvent, Row
<1>3. /\ e.flight = t.flight /\ e.item = t.item /\ e.total = t.total
      /\ e.cash + e.wallet = t.cash + t.wallet + a
      /\ e.cash >= t.cash /\ e.wallet >= t.wallet /\ t.cash >= 0 /\ t.wallet >= 0
  BY <1>1 DEF WithEvent, FlightRow, Row, RowOK, PaidExplained
<1>4. sum \in Nat /\ sum - e.total \in Int /\ status \in Statuses
      /\ sum >= a /\ e.total \in Nat /\ e.cash \in Nat /\ e.wallet \in Nat
  BY <1>1, <1>2, <1>3 DEF Row, Statuses
<1>5. due \in Nat /\ (e.total <= sum => due = 0) /\ (e.total > sum => due = e.total - sum)
  BY <1>4 DEF PositivePart
<1> HIDE DEF e
<1>6. r = [e EXCEPT !.paid = sum, !.remaining = due, !.pbd = sum - e.total,
                    !.status = status, !.allocated = 0, !.withdrawn = 0,
                    !.covered = 0, !.waived = 0, !.lost = 0]
  BY DEF ToppedUp, Recalculated, e
<1> HIDE DEF r, sum, due, status
<1>7. r \in Row
  BY <1>2, <1>4, <1>5, <1>6 DEF Row
<1>8. /\ r.flight = t.flight /\ r.item = t.item /\ r.total = e.total
      /\ r.cash = e.cash /\ r.wallet = e.wallet
      /\ r.paid = sum /\ r.remaining = due /\ r.pbd = sum - e.total
      /\ r.allocated = 0 /\ r.withdrawn = 0 /\ r.covered = 0 /\ r.waived = 0
      /\ r.lost = 0 /\ r.status = status
  BY <1>2, <1>3, <1>6 DEF Row
<1>9. RowOK(r)
  <2>1. BalanceExplained(r) /\ DebtExplained(r)
    BY <1>4, <1>5, <1>8 DEF BalanceExplained, DebtExplained
  <2>2. PaidExplained(r)
    BY <1>4, <1>8 DEF PaidExplained, sum
  <2>3. StatusExplained(r)
    BY <1>1, <1>3, <1>4, <1>5, <1>8 DEF StatusExplained, status, sum
  <2> QED BY <2>1, <2>2, <2>3 DEF RowOK
<1> QED BY <1>3, <1>4, <1>7, <1>8, <1>9 DEF FlightRow, r

\* A row overwritten by a payment of a, w of the bill being covered by credit:
\* what its earlier events said is accounted for as lost.
LEMMA BookedOK ==
    ASSUME NEW t, FlightRow(t), NEW f \in Flights, NEW c \in Cargos \cup {Whole},
           NEW bill \in Nat, NEW w \in Nat, NEW a \in Nat, NEW provider, f # SysAdj
    PROVE  /\ FlightRow(Booked(t, f, c, bill, w, a, provider))
           /\ Booked(t, f, c, bill, w, a, provider).flight = f
           /\ Booked(t, f, c, bill, w, a, provider).item = c
           /\ Booked(t, f, c, bill, w, a, provider).status # "pending"
<1> DEFINE e == IF a > 0 THEN WithEvent(t, provider, a) ELSE t
           r == Booked(t, f, c, bill, w, a, provider)
           left == PositivePart(bill - w - a)
           status == IF bill - w - a <= 0 THEN "paid" ELSE "partial"
<1>1. /\ t \in Row /\ t.cash + a \in Nat /\ t.wallet + a \in Int
      /\ t.providers \cup ({provider} \cap Providers) \in SUBSET Providers
      /\ t.cash \in Nat /\ t.wallet \in Nat
  BY DEF FlightRow, Row, RowOK, PaidExplained
<1>2. e \in Row
  BY <1>1 DEF WithEvent, Row
<1>3. e.cash \in Nat /\ e.wallet \in Nat /\ e.cash + e.wallet = t.cash + t.wallet + a
      /\ e.cash <= t.cash + a /\ e.cash >= t.cash /\ e.wallet >= t.wallet
  BY <1>1 DEF WithEvent, Row
<1>4. /\ left \in Nat /\ (bill - w - a <= 0 => left = 0)
      /\ (bill - w - a > 0 => left = bill - w - a)
      /\ a - bill \in Int /\ status \in Statuses
  BY DEF PositivePart, Statuses
<1> HIDE DEF e
<1>5. r = [e EXCEPT !.flight = f, !.item = c, !.summa = bill, !.paid = a, !.total = bill,
                    !.remaining = left, !.pbd = a - bill, !.status = status,
                    !.allocated = 0, !.withdrawn = 0, !.covered = w,
                    !.waived = 0, !.lost = t.cash]
  BY DEF Booked, e
<1> HIDE DEF r, left, status
<1>6. r \in Row
  BY <1>1, <1>2, <1>4, <1>5 DEF Row
<1>7. /\ r.flight = f /\ r.item = c /\ r.paid = a /\ r.total = bill
      /\ r.remaining = left /\ r.pbd = a - bill /\ r.status = status
      /\ r.allocated = 0 /\ r.withdrawn = 0 /\ r.covered = w /\ r.waived = 0
      /\ r.lost = t.cash /\ r.cash = e.cash /\ r.wallet = e.wallet
  BY <1>2, <1>5 DEF Row
<1>8. RowOK(r)
  <2>1. BalanceExplained(r) /\ DebtExplained(r)
    BY <1>4, <1>7 DEF BalanceExplained, DebtExplained
  <2>2. PaidExplained(r)
    BY <1>1, <1>3, <1>7 DEF PaidExplained
  <2>3. StatusExplained(r)
    BY <1>4, <1>7 DEF StatusExplained, status
  <2> QED BY <2>1, <2>2, <2>3 DEF RowOK
<1> QED BY <1>6, <1>7, <1>8 DEF FlightRow, r, status

\* A further POS payment on a partial row keeps the earlier ones.
LEMMA PartialTopUpOK ==
    ASSUME NEW t, FlightRow(t), t.status = "partial", NEW c \in Cargos,
           NEW w \in Nat, NEW a \in Nat, NEW provider
    PROVE  /\ FlightRow(PartialTopUp(t, c, w, a, provider))
           /\ PartialTopUp(t, c, w, a, provider).flight = t.flight
           /\ PartialTopUp(t, c, w, a, provider).status # "pending"
<1> DEFINE e == WithEvent(t, provider, a)
           r == PartialTopUp(t, c, w, a, provider)
           left == PositivePart(t.remaining - w - a)
           status == IF t.remaining - w - a <= 0 THEN "paid" ELSE "partial"
<1>1. /\ t \in Row /\ t.cash + a \in Nat /\ t.wallet + a \in Int
      /\ t.providers \cup ({provider} \cap Providers) \in SUBSET Providers
      /\ t.cash \in Nat /\ t.wallet \in Nat /\ t.paid \in Nat /\ t.total \in Nat
      /\ t.remaining \in Nat /\ t.covered \in Nat /\ t.waived \in Nat /\ t.lost \in Nat
  BY DEF FlightRow, Row, RowOK, PaidExplained
<1>2. e \in Row
  BY <1>1 DEF WithEvent, Row
<1>3. /\ e.cash \in Nat /\ e.wallet \in Nat /\ e.cash + e.wallet = t.cash + t.wallet + a
      /\ e.cash <= t.cash + a
      /\ e.flight = t.flight /\ e.paid = t.paid /\ e.total = t.total
      /\ e.remaining = t.remaining /\ e.covered = t.covered
      /\ e.waived = t.waived /\ e.lost = t.lost
  BY <1>1 DEF WithEvent, Row
<1>4. /\ left \in Nat /\ (t.remaining - w - a <= 0 => left = 0)
      /\ (t.remaining - w - a > 0 => left = t.remaining - w - a)
      /\ t.paid + a \in Nat /\ t.paid + a - t.total \in Int /\ t.covered + w \in Nat
      /\ status \in Statuses
  BY <1>1 DEF PositivePart, Statuses
<1>5. r = [e EXCEPT !.item = c, !.summa = t.total, !.paid = t.paid + a, !.remaining = left,
                    !.pbd = t.paid + a - t.total, !.status = status,
                    !.allocated = 0, !.withdrawn = 0, !.covered = t.covered + w]
  BY <1>2, <1>3 DEF PartialTopUp, Row
<1> HIDE DEF e, r, left, status
<1>6. r \in Row
  BY <1>1, <1>2, <1>4, <1>5 DEF Row
<1>7. /\ r.flight = t.flight /\ r.item = c /\ r.paid = t.paid + a /\ r.total = t.total
      /\ r.remaining = left /\ r.pbd = t.paid + a - t.total /\ r.status = status
      /\ r.allocated = 0 /\ r.withdrawn = 0 /\ r.covered = t.covered + w
      /\ r.waived = t.waived /\ r.lost = t.lost
      /\ r.cash = e.cash /\ r.wallet = e.wallet
  BY <1>2, <1>3, <1>5 DEF Row
<1>8. RowOK(r)
  <2>1. BalanceExplained(r)
    BY <1>1, <1>4, <1>7 DEF BalanceExplained
  <2>2. DebtExplained(r)
    BY <1>1, <1>4, <1>7 DEF DebtExplained, FlightRow, RowOK
  <2>3. PaidExplained(r)
    BY <1>1, <1>3, <1>7 DEF PaidExplained, FlightRow, RowOK
  <2>4. StatusExplained(r)
    BY <1>1, <1>4, <1>7 DEF StatusExplained, status
  <2> QED BY <2>1, <2>2, <2>3, <2>4 DEF RowOK
<1> QED BY <1>6, <1>7, <1>8 DEF FlightRow, r, status

\* The flag is_taken_away is independent of the money columns.
LEMMA TakenFlagOK ==
    ASSUME NEW t \in Row, RowOK(t), NEW b \in BOOLEAN
    PROVE  LET r == [t EXCEPT !.taken = b]
           IN  r \in Row /\ RowOK(r) /\ r.flight = t.flight /\ r.status = t.status
<1> DEFINE r == [t EXCEPT !.taken = b]
<1>1. r \in Row
  BY DEF Row
<1>2. /\ r.flight = t.flight /\ r.item = t.item /\ r.status = t.status
      /\ r.paid = t.paid /\ r.total = t.total /\ r.remaining = t.remaining
      /\ r.pbd = t.pbd /\ r.cash = t.cash /\ r.wallet = t.wallet
      /\ r.allocated = t.allocated /\ r.withdrawn = t.withdrawn
      /\ r.covered = t.covered /\ r.waived = t.waived /\ r.lost = t.lost
  BY DEF Row
<1>3. RowOK(r)
  BY <1>2 DEF RowOK, BalanceExplained, DebtExplained, PaidExplained, StatusExplained
<1> QED BY <1>1, <1>2, <1>3

\* Taking cargo away, in the form most handlers write it.
LEMMA TakenOK ==
    ASSUME NEW t \in Row, RowOK(t)
    PROVE  /\ Taken(t) \in Row /\ RowOK(Taken(t))
           /\ Taken(t).flight = t.flight /\ Taken(t).status = t.status
BY TakenFlagOK DEF Taken

\* The wallet event written after a row was settled from the wallet.
LEMMA WalletEventOK ==
    ASSUME NEW t, FlightRow(t), t.status # "pending", NEW w \in Nat
    PROVE  /\ FlightRow(WithEvent(t, "wallet", w))
           /\ WithEvent(t, "wallet", w).flight = t.flight
           /\ WithEvent(t, "wallet", w).status = t.status
<1> DEFINE r == WithEvent(t, "wallet", w)
<1>1. t \in Row /\ t.wallet \in Nat /\ t.wallet + w \in Nat
  BY DEF FlightRow, Row, RowOK, PaidExplained
<1>2. r = [t EXCEPT !.wallet = t.wallet + w]
  BY <1>1 DEF WithEvent, Row
<1> HIDE DEF r
<1>3. r \in Row
  BY <1>1, <1>2 DEF Row
<1>4. /\ r.flight = t.flight /\ r.item = t.item /\ r.status = t.status
      /\ r.paid = t.paid /\ r.total = t.total /\ r.remaining = t.remaining
      /\ r.pbd = t.pbd /\ r.cash = t.cash /\ r.wallet = t.wallet + w
      /\ r.allocated = t.allocated /\ r.withdrawn = t.withdrawn
      /\ r.covered = t.covered /\ r.waived = t.waived /\ r.lost = t.lost
  BY <1>1, <1>2 DEF Row
<1>5. t.paid \in Nat /\ t.cash \in Nat /\ t.wallet \in Nat
  BY <1>1 DEF Row
<1>6. RowOK(r)
  BY <1>4, <1>5 DEF FlightRow, RowOK, BalanceExplained, DebtExplained,
                    PaidExplained, StatusExplained
<1> QED BY <1>3, <1>4, <1>6 DEF FlightRow, r

\* create_payment_transaction, on a partial row or on any other, with or
\* without the wallet covering the amount due.
LEMMA SettledOK ==
    ASSUME NEW t, FlightRow(t), NEW c \in Cargos, NEW bill \in Nat,
           NEW w \in Nat, NEW a \in Nat, NEW type
    PROVE  /\ FlightRow(Settled(t, c, bill, w, a, type))
           /\ Settled(t, c, bill, w, a, type).flight = t.flight
<1> DEFINE need == Basis(t, bill) - w
           amount == IF need <= 0 THEN 0 ELSE a
           provider == IF need <= 0 THEN "wallet" ELSE type
           booked == IF t.status = "partial"
                     THEN PartialTopUp(t, c, w, amount, provider)
                     ELSE Booked(t, t.flight, c, bill, w, amount, type)
           closed == IF need <= 0 THEN WithEvent(booked, "wallet", w) ELSE booked
           flag == closed.taken \/ (type = "cash" /\ closed.status = "paid")
<1>1. t.flight \in Flights /\ t.flight # SysAdj /\ amount \in Nat
  BY DEF FlightRow, Row
<1>2. FlightRow(booked) /\ booked.flight = t.flight /\ booked.status # "pending"
  <2> HIDE DEF amount, provider
  <2>1. CASE t.status = "partial"
    BY <1>1, <2>1, PartialTopUpOK
  <2>2. CASE t.status # "partial"
    BY <1>1, <2>2, BookedOK
  <2> QED BY <2>1, <2>2
<1>3. FlightRow(closed) /\ closed.flight = t.flight
  <2> HIDE DEF booked, need
  <2> QED BY <1>2, WalletEventOK
<1>4. Settled(t, c, bill, w, a, type) = [closed EXCEPT !.taken = flag]
  BY <1>3 DEF Settled, FlightRow, Row
<1> HIDE DEF closed
<1>5. flag \in BOOLEAN
  OBVIOUS
<1> HIDE DEF flag
<1> QED BY <1>1, <1>3, <1>4, <1>5, TakenFlagOK DEF FlightRow

\* A payment on an existing row, w of what is left being covered by credit.
LEMMA ExistingPaidOK ==
    ASSUME NEW t, FlightRow(t), NEW w \in Nat, NEW a \in Nat, a > 0, NEW type
    PROVE  /\ FlightRow(ExistingPaid(t, w, a, type))
           /\ ExistingPaid(t, w, a, type).flight = t.flight
<1> DEFINE e == ToppedUp(t, type, a)
           left == PositivePart(e.total - e.paid - w)
           status == IF left = 0 THEN "paid" ELSE "partial"
           flag == e.taken \/ (type \in {"cash", "card"} /\ status = "paid")
           r == ExistingPaid(t, w, a, type)
<1>1. FlightRow(e) /\ e.flight = t.flight
  BY ToppedUpOK
<1> HIDE DEF e
<1>2. e \in Row /\ RowOK(e) /\ e.total \in Nat /\ e.paid \in Nat
  BY <1>1 DEF FlightRow, Row
<1>3. /\ left \in Nat /\ (e.total - e.paid - w <= 0 => left = 0)
      /\ (e.total - e.paid - w > 0 => left = e.total - e.paid - w)
      /\ status \in Statuses /\ flag \in BOOLEAN
  BY <1>2 DEF PositivePart, Statuses
<1>4. r = [e EXCEPT !.remaining = left, !.status = status, !.covered = w, !.taken = flag]
  BY <1>2 DEF ExistingPaid, e, Row
<1> HIDE DEF r, left, status, flag
<1>5. r \in Row
  BY <1>2, <1>3, <1>4 DEF Row
<1>6. /\ r.flight = e.flight /\ r.item = e.item /\ r.status = status
      /\ r.paid = e.paid /\ r.total = e.total /\ r.remaining = left
      /\ r.pbd = e.pbd /\ r.cash = e.cash /\ r.wallet = e.wallet
      /\ r.allocated = e.allocated /\ r.withdrawn = e.withdrawn
      /\ r.covered = w /\ r.waived = e.waived /\ r.lost = e.lost
      /\ e.waived \in Nat
  BY <1>2, <1>4 DEF Row
<1>7. RowOK(r)
  <2>1. BalanceExplained(r) /\ PaidExplained(r)
    BY <1>2, <1>6 DEF RowOK, BalanceExplained, PaidExplained
  <2>2. DebtExplained(r)
    BY <1>2, <1>3, <1>6 DEF DebtExplained
  <2>3. StatusExplained(r)
    BY <1>3, <1>6 DEF StatusExplained, status
  <2> QED BY <2>1, <2>2, <2>3 DEF RowOK
<1> QED BY <1>1, <1>5, <1>6, <1>7 DEF FlightRow, r

\* The forced closure of mark_transaction_taken waives what is outstanding.
LEMMA ForceTakenOK ==
    ASSUME NEW t \in Row, RowOK(t)
    PROVE  /\ ForceTaken(t) \in Row /\ RowOK(ForceTaken(t))
           /\ ForceTaken(t).flight = t.flight
<1> DEFINE r == ForceTaken(t)
<1>1. CASE t.status # "partial"
  BY <1>1, TakenOK DEF ForceTaken, Taken
<1>2. CASE t.status = "partial"
  <2>1. t.remaining \in Nat /\ t.waived \in Nat /\ t.waived + t.remaining \in Nat
        /\ t.paid \in Nat /\ t.total \in Nat /\ t.covered \in Nat
    BY DEF Row
  <2>2. r = [t EXCEPT !.status = "paid", !.remaining = 0, !.taken = TRUE,
                      !.waived = t.waived + t.remaining]
    BY <1>2 DEF ForceTaken, Row
  <2> HIDE DEF r
  <2>3. r \in Row
    BY <2>1, <2>2 DEF Row, Statuses
  <2>4. /\ r.flight = t.flight /\ r.item = t.item /\ r.status = "paid"
        /\ r.paid = t.paid /\ r.total = t.total /\ r.remaining = 0
        /\ r.pbd = t.pbd /\ r.cash = t.cash /\ r.wallet = t.wallet
        /\ r.allocated = t.allocated /\ r.withdrawn = t.withdrawn
        /\ r.covered = t.covered /\ r.waived = t.waived + t.remaining /\ r.lost = t.lost
    BY <2>2 DEF Row
  <2>5. RowOK(r)
    BY <2>1, <2>4 DEF RowOK, BalanceExplained, DebtExplained, PaidExplained,
                      StatusExplained
  <2> QED BY <2>3, <2>4, <2>5 DEF r
<1> QED BY <1>1, <1>2

\* A debt payment on a row's balance: the row is paid once its balance is.
LEMMA AllocatedOK ==
    ASSUME NEW t \in Row, RowOK(t), NEW a \in Nat
    PROVE  /\ Allocated(t, a) \in Row /\ RowOK(Allocated(t, a))
           /\ Allocated(t, a).flight = t.flight
<1> DEFINE r == Allocated(t, a)
           status == IF t.pbd < 0 /\ t.pbd + a >= 0 THEN "paid" ELSE t.status
<1>1. /\ t.pbd \in Int /\ t.pbd + a \in Int /\ t.allocated \in Nat
      /\ t.allocated + a \in Nat /\ status \in Statuses
      /\ t.paid \in Nat /\ t.total \in Nat /\ t.withdrawn \in Nat
  BY DEF Row, Statuses
<1>2. r = [t EXCEPT !.pbd = t.pbd + a, !.allocated = t.allocated + a, !.status = status]
  BY DEF Allocated, Row
<1> HIDE DEF r, status
<1>3. r \in Row
  BY <1>1, <1>2 DEF Row
<1>4. /\ r.flight = t.flight /\ r.item = t.item /\ r.status = status
      /\ r.paid = t.paid /\ r.total = t.total /\ r.remaining = t.remaining
      /\ r.pbd = t.pbd + a /\ r.cash = t.cash /\ r.wallet = t.wallet
      /\ r.allocated = t.allocated + a /\ r.withdrawn = t.withdrawn
      /\ r.covered = t.covered /\ r.waived = t.waived /\ r.lost = t.lost
  BY <1>2 DEF Row
<1>5. RowOK(r)
  <2>1. BalanceExplained(r) /\ DebtExplained(r) /\ PaidExplained(r)
    BY <1>1, <1>4 DEF RowOK, BalanceExplained, DebtExplained, PaidExplained
  <2>2. StatusExplained(r)
    BY <1>1, <1>4 DEF RowOK, StatusExplained, status
  <2> QED BY <2>1, <2>2 DEF RowOK
<1> QED BY <1>3, <1>4, <1>5 DEF r

\* A refund or a delivery fee only lowers the balance.
LEMMA WithdrawnOK ==
    ASSUME NEW t \in Row, RowOK(t), NEW a \in Nat
    PROVE  /\ Withdrawn(t, a) \in Row /\ RowOK(Withdrawn(t, a))
           /\ Withdrawn(t, a).flight = t.flight /\ Withdrawn(t, a).status = t.status
<1> DEFINE r == Withdrawn(t, a)
<1>1. /\ t.pbd - a \in Int /\ t.withdrawn + a \in Nat /\ t.withdrawn \in Nat
      /\ t.paid \in Nat /\ t.total \in Nat /\ t.allocated \in Nat /\ t.pbd \in Int
  BY DEF Row
<1>2. r = [t EXCEPT !.pbd = t.pbd - a, !.withdrawn = t.withdrawn + a]
  BY DEF Withdrawn, Row
<1> HIDE DEF r
<1>3. r \in Row
  BY <1>1, <1>2 DEF Row
<1>4. /\ r.flight = t.flight /\ r.item = t.item /\ r.status = t.status
      /\ r.paid = t.paid /\ r.total = t.total /\ r.remaining = t.remaining
      /\ r.pbd = t.pbd - a /\ r.cash = t.cash /\ r.wallet = t.wallet
      /\ r.allocated = t.allocated /\ r.withdrawn = t.withdrawn + a
      /\ r.covered = t.covered /\ r.waived = t.waived /\ r.lost = t.lost
  BY <1>2 DEF Row
<1>5. RowOK(r)
  BY <1>1, <1>4 DEF RowOK, BalanceExplained, DebtExplained, PaidExplained, StatusExplained
<1> QED BY <1>3, <1>4, <1>5 DEF r
==============================================================================
