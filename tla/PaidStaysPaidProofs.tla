------------------------- MODULE PaidStaysPaidProofs -------------------------
(***************************************************************************)
(* What a step of the ledger may do to what another one wrote.             *)
(*                                                                         *)
(* A paid row is reopened only by a step that adds to its bill, or by one  *)
(* that recomputes the row from its events when something else had paid it:*)
(* by the invariant IInv a paid row that nothing else settled has nothing  *)
(* outstanding, so its events amount to its bill, and one more event cannot*)
(* make them less.                                                         *)
(*                                                                         *)
(* No payment is taken from a row, nor the row from its flight or cargo:   *)
(* every write adds events to the row it found, and the paths that book a  *)
(* row on another item do so while the row is pending.  The lookup of a    *)
(* flight deletes rows, but pending ones only, which no event refers to,   *)
(* and only beside a row that stays.                                       *)
(*                                                                         *)
(* A flight gets a second flight-level row from one step only, the amount  *)
(* of a cash dialogue that was opened before the flight's row became       *)
(* partial: every other handler looks for the row before it makes one.     *)
(*                                                                         *)
(* paid_amount stops counting a payment only where one POS transaction     *)
(* writes a row twice: an overwrite starts from a pending row, which has   *)
(* been paid nothing, unless the item before it has just paid that row.    *)
(***************************************************************************)
EXTENDS PaymentLedgerProofs

\* What PaidStaysPaid says of one row t that becomes r.
KeepsPaid(t, r) ==
    t.status = "paid" /\ r.status # "paid"
    => r.total > t.total \/ t.covered + t.allocated + t.waived > 0

PaidKept == \A i \in DOMAIN rows : KeepsPaid(rows[i], rows'[i])
------------------------------------------------------------------------------
(* Rows *)

\* A payment event is written to a row of any kind.
LEMMA WithEventIsRow ==
    ASSUME NEW t \in Row, NEW provider, NEW a \in Nat
    PROVE  WithEvent(t, provider, a) \in Row
<1>1. /\ t.cash + a \in Nat /\ t.wallet + a \in Int
      /\ t.providers \cup ({provider} \cap Providers) \in SUBSET Providers
  BY DEF Row
<1> QED BY <1>1 DEF WithEvent, Row

\* An event and a recalculation keep a row paid that its events had paid.
LEMMA ToppedUpKeepsPaid ==
    ASSUME NEW t, FlightRow(t), NEW a \in Nat, NEW provider
    PROVE  KeepsPaid(t, ToppedUp(t, provider, a))
<1> DEFINE e == WithEvent(t, provider, a)
           sum == e.cash + e.wallet
<1>1. SUFFICES ASSUME t.status = "paid", ~(t.covered + t.allocated + t.waived > 0)
               PROVE  ToppedUp(t, provider, a).status = "paid"
  BY DEF KeepsPaid
<1>2. /\ t \in Row /\ t.cash \in Nat /\ t.wallet \in Nat /\ t.paid \in Nat /\ t.total \in Nat
      /\ t.covered \in Nat /\ t.allocated \in Nat /\ t.waived \in Nat /\ t.remaining \in Nat
  BY DEF FlightRow, Row, RowOK, PaidExplained
<1>3. t.covered = 0 /\ t.allocated = 0 /\ t.waived = 0
  BY <1>1, <1>2
<1>4. t.cash + t.wallet >= t.total
  BY <1>1, <1>2, <1>3
     DEF FlightRow, RowOK, DebtExplained, PaidExplained, StatusExplained
<1>5. e.total = t.total /\ e.cash \in Nat /\ e.wallet \in Nat
      /\ e.cash + e.wallet = t.cash + t.wallet + a
  BY <1>2 DEF WithEvent, Row
<1>6. e \in Row
  BY <1>2, WithEventIsRow
<1>7. PositivePart(e.total - sum) = 0
  BY <1>2, <1>4, <1>5, PositivePartFacts
<1> HIDE DEF e
<1>8. Recalculated(e).status = "paid"
  BY <1>6, <1>7 DEF Recalculated, Row
<1> QED BY <1>8 DEF ToppedUp, e

\* A further POS payment keeps it paid too, whatever share the wallet had.
LEMMA ExistingPaidKeepsPaid ==
    ASSUME NEW t, FlightRow(t), NEW w \in Nat, NEW a \in Nat, a > 0, NEW type
    PROVE  KeepsPaid(t, ExistingPaid(t, w, a, type))
<1> DEFINE e == ToppedUp(t, type, a)
<1>1. FlightRow(e) /\ KeepsPaid(t, e)
  BY ToppedUpOK, ToppedUpKeepsPaid
<1>2. ASSUME e.status = "paid" PROVE ExistingPaid(t, w, a, type).status = "paid"
  <2> HIDE DEF e
  <2>1. e \in Row /\ e.total \in Nat /\ e.paid \in Nat /\ e.remaining \in Nat
    BY <1>1 DEF FlightRow, Row
  <2>2. e.covered = 0 /\ e.allocated = 0 /\ e.waived = 0
    <3>1. WithEvent(t, type, a) \in Row
      BY WithEventIsRow DEF FlightRow
    <3> QED BY <3>1 DEF e, ToppedUp, Recalculated, Row
  <2>3. e.paid >= e.total
    BY <1>1, <1>2, <2>1, <2>2 DEF FlightRow, RowOK, DebtExplained, StatusExplained
  <2>4. PositivePart(e.total - e.paid - w) = 0
    BY <2>1, <2>3, PositivePartFacts
  <2> QED BY <2>1, <2>4 DEF ExistingPaid, e, Row
<1>3. CASE t.covered + t.allocated + t.waived > 0
  BY <1>3 DEF KeepsPaid
<1>4. CASE ~(t.covered + t.allocated + t.waived > 0)
  <2>1. ASSUME t.status = "paid" PROVE e.status = "paid"
    <3>1. e.total = t.total
      <4>1. t \in Row
        BY DEF FlightRow
      <4> QED BY <4>1 DEF ToppedUp, Recalculated, WithEvent, Row
    <3>2. t.total \in Nat
      BY DEF FlightRow, Row
    <3> QED BY <1>1, <1>4, <2>1, <3>1, <3>2 DEF KeepsPaid
  <2> QED BY <1>2, <2>1 DEF KeepsPaid
<1> QED BY <1>3, <1>4

\* Cargo sent by hand reopens a row only by adding to its bill.
LEMMA ExtendedKeepsPaid ==
    ASSUME NEW t \in Row, NEW bill \in Nat, bill > 0
    PROVE  KeepsPaid(t, Extended(t, bill))
<1>1. t.total \in Nat /\ Extended(t, bill).total = t.total + bill
  BY DEF Extended, Row
<1> QED BY <1>1 DEF KeepsPaid

\* The other writes of a paid row leave its status alone.
LEMMA OthersKeepPaid ==
    ASSUME NEW t \in Row, NEW a \in Nat
    PROVE  /\ KeepsPaid(t, t) /\ KeepsPaid(t, Taken(t)) /\ KeepsPaid(t, ForceTaken(t))
           /\ KeepsPaid(t, Allocated(t, a)) /\ KeepsPaid(t, Withdrawn(t, a))
           /\ KeepsPaid(t, [t EXCEPT !.taken = ~t.taken])
<1>1. ForceTaken(t).status = "paid" \/ t.status # "paid"
  BY DEF ForceTaken, Row
<1>2. Allocated(t, a).status = "paid" \/ t.status # "paid"
  BY DEF Allocated, Row
<1>3. Withdrawn(t, a).status = t.status /\ Taken(t).status = t.status
      /\ [t EXCEPT !.taken = ~t.taken].status = t.status
  BY DEF Withdrawn, Taken, Row
<1> QED BY <1>1, <1>2, <1>3 DEF KeepsPaid
------------------------------------------------------------------------------
(* Payments stay with their rows *)

\* A row without a payment is deleted, and another one is left for its flight.
Deleted(i) ==
    /\ rows'[i] = Gone
    /\ rows[i].item = Whole /\ rows[i].cash = 0 /\ rows[i].wallet = 0
    /\ \E j \in DOMAIN rows' \ {i} :
         rows'[j].item = Whole /\ rows'[j].flight = rows[i].flight

PaymentsStay ==
    \A i \in DOMAIN rows : KeepsPayments(rows[i], rows'[i]) \/ Deleted(i)

\* The part of it that is about the events alone.
EventsKept(t, r) ==
    /\ r.flight = t.flight
    /\ t.cash <= r.cash /\ t.wallet <= r.wallet /\ t.providers \subseteq r.providers

\* A write that leaves the events, the flight and the item of a row alone.
SamePayments(t, r) ==
    /\ r.flight = t.flight /\ r.item = t.item
    /\ r.cash = t.cash /\ r.wallet = t.wallet /\ r.providers = t.providers

LEMMA SameKeeps ==
    ASSUME NEW t \in Row, NEW r, SamePayments(t, r)
    PROVE  EventsKept(t, r) /\ KeepsPayments(t, r)
<1>1. t.cash \in Int /\ t.wallet \in Int
  BY DEF Row
<1> QED BY <1>1 DEF SamePayments, KeepsPayments, EventsKept

LEMMA EventsKeptTransitive ==
    ASSUME NEW t \in Row, NEW r \in Row, NEW u \in Row, EventsKept(t, r), EventsKept(r, u)
    PROVE  EventsKept(t, u)
<1>1. /\ t.cash \in Int /\ t.wallet \in Int /\ r.cash \in Int /\ r.wallet \in Int
      /\ u.cash \in Int /\ u.wallet \in Int
  BY DEF Row
<1> QED BY <1>1 DEF EventsKept

\* The columns are written anew, the events are not.
LEMMA RecalculatedSame ==
    ASSUME NEW t \in Row
    PROVE  SamePayments(t, Recalculated(t))
BY DEF SamePayments, Recalculated, Row

LEMMA FlagsSame ==
    ASSUME NEW t \in Row
    PROVE  /\ SamePayments(t, t) /\ SamePayments(t, Taken(t)) /\ SamePayments(t, ForceTaken(t))
           /\ SamePayments(t, [t EXCEPT !.taken = ~t.taken])
<1>1. SamePayments(t, ForceTaken(t))
  BY DEF SamePayments, ForceTaken, Row
<1> QED BY <1>1 DEF SamePayments, Taken, Row

LEMMA MovedSame ==
    ASSUME NEW t \in Row, NEW a \in Int
    PROVE  /\ SamePayments(t, Allocated(t, a)) /\ SamePayments(t, Withdrawn(t, a))
           /\ SamePayments(t, Extended(t, a))
BY DEF SamePayments, Allocated, Withdrawn, Extended, Row

LEMMA WithEventKeeps ==
    ASSUME NEW t \in Row, NEW a \in Nat, NEW provider
    PROVE  LET e == WithEvent(t, provider, a)
           IN  e \in Row /\ EventsKept(t, e) /\ e.item = t.item
<1> DEFINE e == WithEvent(t, provider, a)
<1>1. t.cash \in Nat /\ t.wallet \in Int
  BY DEF Row
<1>2. e \in Row
  BY WithEventIsRow
<1>3. e.flight = t.flight /\ e.item = t.item
  BY DEF WithEvent, Row
<1>4. t.cash <= e.cash /\ t.wallet <= e.wallet /\ t.providers \subseteq e.providers
  <2>1. CASE provider = "wallet"
    BY <1>1, <2>1 DEF WithEvent, Row
  <2>2. CASE provider # "wallet"
    BY <1>1, <2>2 DEF WithEvent, Row
  <2> QED BY <2>1, <2>2
<1> QED BY <1>2, <1>3, <1>4 DEF EventsKept

LEMMA ToppedUpKeeps ==
    ASSUME NEW t \in Row, NEW a \in Nat, NEW provider
    PROVE  EventsKept(t, ToppedUp(t, provider, a)) /\ KeepsPayments(t, ToppedUp(t, provider, a))
<1> DEFINE e == WithEvent(t, provider, a)
<1>1. e \in Row /\ EventsKept(t, e) /\ e.item = t.item
  BY WithEventKeeps
<1> HIDE DEF e
<1>2. SamePayments(e, Recalculated(e))
  BY <1>1, RecalculatedSame
<1>3. EventsKept(t, Recalculated(e)) /\ Recalculated(e).item = t.item
  BY <1>1, <1>2 DEF SamePayments, EventsKept
<1> QED BY <1>3 DEF ToppedUp, e, KeepsPayments, EventsKept

LEMMA ExistingPaidKeeps ==
    ASSUME NEW t, FlightRow(t), NEW a \in Nat, a > 0, NEW w, NEW type
    PROVE  KeepsPayments(t, ExistingPaid(t, w, a, type))
<1> DEFINE r == ToppedUp(t, type, a)
<1>1. r \in Row /\ KeepsPayments(t, r)
  BY ToppedUpKeeps, ToppedUpOK DEF FlightRow
<1>2. SamePayments(r, ExistingPaid(t, w, a, type))
  <2> HIDE DEF r
  <2> QED BY <1>1 DEF ExistingPaid, SamePayments, Row, r
<1> HIDE DEF r
<1> QED BY <1>1, <1>2 DEF SamePayments, KeepsPayments

\* The overwritten row keeps its events and goes to the item it is booked for.
LEMMA BookedKeeps ==
    ASSUME NEW t \in Row, NEW c \in Cargos \cup {Whole}, NEW bill \in Nat, NEW w \in Nat,
           NEW a \in Nat, NEW provider
    PROVE  /\ EventsKept(t, Booked(t, t.flight, c, bill, w, a, provider))
           /\ Booked(t, t.flight, c, bill, w, a, provider).item = c
<1> DEFINE e == IF a > 0 THEN WithEvent(t, provider, a) ELSE t
           b == Booked(t, t.flight, c, bill, w, a, provider)
<1>1. e \in Row /\ EventsKept(t, e)
  <2>1. WithEvent(t, provider, a) \in Row /\ EventsKept(t, WithEvent(t, provider, a))
    BY WithEventKeeps
  <2>2. EventsKept(t, t)
    BY FlagsSame, SameKeeps
  <2> QED BY <2>1, <2>2
<1>2. b = [e EXCEPT
        !.flight = t.flight, !.item = c, !.summa = bill, !.paid = a, !.total = bill,
        !.remaining = PositivePart(bill - w - a), !.pbd = a - bill,
        !.status = IF bill - w - a <= 0 THEN "paid" ELSE "partial",
        !.allocated = 0, !.withdrawn = 0, !.covered = w, !.waived = 0,
        !.lost = t.cash]
  BY DEF Booked
<1> HIDE DEF e, b
<1>3. /\ b.flight = t.flight /\ b.item = c
      /\ b.cash = e.cash /\ b.wallet = e.wallet /\ b.providers = e.providers
  BY <1>1, <1>2 DEF Row
<1>4. EventsKept(t, b) /\ b.item = c
  BY <1>1, <1>3 DEF EventsKept
<1> QED BY <1>4 DEF b

LEMMA PartialTopUpKeeps ==
    ASSUME NEW t \in Row, NEW c, NEW w, NEW a \in Nat, NEW provider
    PROVE  LET b == PartialTopUp(t, c, w, a, provider)
           IN  EventsKept(t, b) /\ b.item = c
<1> DEFINE e == WithEvent(t, provider, a)
           b == PartialTopUp(t, c, w, a, provider)
<1>1. e \in Row /\ EventsKept(t, e)
  BY WithEventKeeps
<1>2. b = [e EXCEPT
        !.item = c, !.summa = t.total, !.paid = @ + a,
        !.remaining = PositivePart(@ - w - a),
        !.pbd = t.paid + a - t.total,
        !.status = IF t.remaining - w - a <= 0 THEN "paid" ELSE "partial",
        !.allocated = 0, !.withdrawn = 0, !.covered = @ + w]
  BY DEF PartialTopUp
<1> HIDE DEF e, b
<1>3. /\ b.flight = e.flight /\ b.item = c
      /\ b.cash = e.cash /\ b.wallet = e.wallet /\ b.providers = e.providers
  BY <1>1, <1>2 DEF Row
<1>4. EventsKept(t, b) /\ b.item = c
  BY <1>1, <1>3 DEF EventsKept
<1> QED BY <1>4 DEF b

\* What POS writes for a cargo keeps the row's events and is booked on that cargo.
LEMMA SettledKeeps ==
    ASSUME NEW t, FlightRow(t), NEW c \in Cargos, NEW bill \in Nat, NEW w \in Nat,
           NEW a \in Nat, NEW type
    PROVE  LET s == Settled(t, c, bill, w, a, type)
           IN  s \in Row /\ EventsKept(t, s) /\ s.item = c
<1> DEFINE need == Basis(t, bill) - w
           cash == IF need <= 0 THEN 0 ELSE a
           booked == IF t.status = "partial"
                     THEN PartialTopUp(t, c, w, cash, IF need <= 0 THEN "wallet" ELSE type)
                     ELSE Booked(t, t.flight, c, bill, w, cash, type)
           closed == IF need <= 0 THEN WithEvent(booked, "wallet", w) ELSE booked
           s == [closed EXCEPT !.taken = @ \/ (type = "cash" /\ closed.status = "paid")]
<1>1. /\ t \in Row /\ t.flight \in Flights /\ cash \in Nat /\ t.flight # SysAdj
      /\ c \in Cargos \cup {Whole}
  BY NamesAssumption DEF FlightRow, Row
<1> HIDE DEF cash, need
<1>2. booked \in Row /\ EventsKept(t, booked) /\ booked.item = c
  <2>1. CASE t.status = "partial"
    <3>1. PartialTopUp(t, c, w, cash, IF need <= 0 THEN "wallet" ELSE type) \in Row
      BY <1>1, <2>1, PartialTopUpOK DEF FlightRow
    <3> QED BY <1>1, <2>1, <3>1, PartialTopUpKeeps
  <2>2. CASE t.status # "partial"
    <3>1. Booked(t, t.flight, c, bill, w, cash, type) \in Row
      BY <1>1, <2>2, BookedOK DEF FlightRow
    <3>2. /\ EventsKept(t, Booked(t, t.flight, c, bill, w, cash, type))
          /\ Booked(t, t.flight, c, bill, w, cash, type).item = c
      BY <1>1, BookedKeeps, SMTT(40)
    <3> QED BY <2>2, <3>1, <3>2
  <2> QED BY <2>1, <2>2
<1> HIDE DEF booked
<1>3. closed \in Row /\ EventsKept(t, closed) /\ closed.item = c
  <2>1. LET e == WithEvent(booked, "wallet", w)
        IN  e \in Row /\ EventsKept(booked, e) /\ e.item = c
    BY <1>2, WithEventKeeps
  <2> QED BY <1>1, <1>2, <2>1, EventsKeptTransitive
<1> HIDE DEF closed
<1>4. s.cash = closed.cash /\ s.wallet = closed.wallet /\ s.providers = closed.providers
      /\ s.flight = closed.flight /\ s.item = closed.item
  BY <1>3 DEF Row
<1>5. Settled(t, c, bill, w, a, type) = s
  BY DEF Settled, s, closed, booked, cash, need
<1>6. s \in Row
  BY <1>5, SettledOK DEF FlightRow
<1> HIDE DEF s
<1>7. s \in Row /\ EventsKept(t, s) /\ s.item = c
  BY <1>3, <1>4, <1>6 DEF EventsKept
<1> QED BY <1>5, <1>7
------------------------------------------------------------------------------
(* What the handlers that look a flight up leave of the table *)

\* A row the lookup may delete has no payment.
LEMMA GhostFacts ==
    ASSUME NEW t, RowOK(t), Ghost(t)
    PROVE  /\ t.status = "pending" /\ t.item = Whole
           /\ t.cash = 0 /\ t.wallet = 0
BY DEF Ghost, RowOK, StatusExplained

\* It deletes a row only beside one that stays.
LEMMA LookupDeletes ==
    ASSUME NEW rs, NEW f, NEW i \in DOMAIN rs, Healed(rs, f)[i] # rs[i]
    PROVE  /\ Healed(rs, f)[i] = Gone /\ rs[i].flight = f /\ Ghost(rs[i])
           /\ \E j \in DOMAIN rs \ {i} :
                rs[j].item = Whole /\ rs[j].flight = f /\ Healed(rs, f)[j] = rs[j]
<1>1. Healed(rs, f)[i] = Gone /\ rs[i].flight = f /\ Ghost(rs[i]) /\ RealRows(rs, f) # {}
  BY HealedRows
<1>2. PICK j \in RealRows(rs, f) : TRUE
  BY <1>1
<1>3. j \in DOMAIN rs /\ rs[j].item = Whole /\ rs[j].flight = f /\ ~Ghost(rs[j])
  BY <1>2 DEF RealRows
<1>4. Healed(rs, f)[j] = rs[j]
  BY <1>3, HealedRows
<1> QED BY <1>1, <1>3, <1>4

\* The handler has written t as row k, or as a new row when k is 0; its lookups
\* of the flight f have deleted nothing but ghosts, and left a row of f.
Wrote(f, k, t) ==
    /\ DOMAIN rows \subseteq DOMAIN rows'
    /\ \A i \in DOMAIN rows' \ DOMAIN rows :
         k = 0 /\ i = Len(rows) + 1 /\ rows'[i] \in {t, Gone}
    /\ \A i \in DOMAIN rows :
         \/ i # k /\ rows'[i] = rows[i]
         \/ i = k /\ rows'[i] = t
         \/ /\ rows'[i] = Gone /\ rows[i].flight = f
            /\ Ghost(IF i = k THEN t ELSE rows[i])
    /\ \E j \in DOMAIN rows' : rows'[j].item = Whole /\ rows'[j].flight = f

\* A lookup, a write, and perhaps another lookup.
LEMMA LookedUpAndPut ==
    ASSUME Ledger(rows), NEW f \in Flights, NEW k,
           k # 0 => /\ k \in DOMAIN rows /\ rows[k].flight = f
                    /\ Healed(rows, f)[k] = rows[k],
           NEW t, FlightRow(t), t.flight = f, t.item = Whole,
           LET qs == Put(Healed(rows, f), k, t) IN rows' \in {qs, Healed(qs, f)}
    PROVE  Wrote(f, k, t)
<1> DEFINE kept == Healed(rows, f)
           qs == Put(kept, k, t)
           j == IF k = 0 THEN Len(rows) + 1 ELSE k
<1>1. /\ Ledger(kept) /\ DOMAIN kept = DOMAIN rows
      /\ Len(rows) \in Nat /\ DOMAIN rows = 1 .. Len(rows) /\ 0 \notin DOMAIN rows
  BY HealedOK, HealedRows, LedgerFacts
<1>2. \A i \in DOMAIN rows :
        kept[i] = rows[i] \/ (kept[i] = Gone /\ rows[i].flight = f /\ Ghost(rows[i]))
  BY LookupDeletes
<1>3. k # 0 => k \in DOMAIN kept
  BY <1>1
<1>4. rows' \in {qs, Healed(qs, f)}
  OBVIOUS
<1> HIDE DEF kept
<1>5. /\ DOMAIN qs = DOMAIN rows \cup {j} /\ qs[j] = t
      /\ \A i \in DOMAIN rows : i # k => qs[i] = kept[i]
  <2>1. kept \in Seq(Row) /\ Len(kept) = Len(rows)
    BY <1>1, LedgerFacts DEF Ledger
  <2>2. CASE k = 0
    <3>1. /\ DOMAIN Append(kept, t) = 1 .. Len(rows) + 1
          /\ Append(kept, t)[Len(rows) + 1] = t
          /\ \A i \in DOMAIN rows : Append(kept, t)[i] = kept[i]
      BY <1>1, <2>1
    <3>2. qs = Append(kept, t) /\ j = Len(rows) + 1
      BY <2>2 DEF Put
    <3>3. 1 .. Len(rows) + 1 = 1 .. Len(rows) \cup {Len(rows) + 1}
      BY <1>1
    <3> HIDE DEF qs
    <3> QED BY <1>1, <3>1, <3>2, <3>3
  <2>3. CASE k # 0
    BY <1>1, <1>3, <2>3 DEF Put
  <2> QED BY <2>2, <2>3
<1> HIDE DEF qs
<1>6. /\ DOMAIN rows' = DOMAIN qs
      /\ \A i \in DOMAIN qs :
           rows'[i] = qs[i] \/ (rows'[i] = Gone /\ qs[i].flight = f /\ Ghost(qs[i]))
      /\ \E i \in DOMAIN rows' : rows'[i].item = Whole /\ rows'[i].flight = f
  <2>1. CASE rows' = qs
    BY <1>5, <2>1
  <2>2. CASE rows' = Healed(qs, f)
    <3>1. DOMAIN rows' = DOMAIN qs
      BY <2>2, HealedRows
    <3>2. \A i \in DOMAIN qs :
            rows'[i] = qs[i] \/ (rows'[i] = Gone /\ qs[i].flight = f /\ Ghost(qs[i]))
      BY <2>2, LookupDeletes
    <3>3. \E i \in DOMAIN rows' : rows'[i].item = Whole /\ rows'[i].flight = f
      <4>1. CASE rows'[j] = qs[j]
        BY <1>5, <3>1, <4>1
      <4>2. CASE rows'[j] # qs[j]
        <5>1. PICK i \in DOMAIN qs \ {j} :
                qs[i].item = Whole /\ qs[i].flight = f /\ Healed(qs, f)[i] = qs[i]
          <6>1. j \in DOMAIN qs
            BY <1>5
          <6> QED BY <2>2, <4>2, <6>1, LookupDeletes
        <5> QED BY <2>2, <3>1, <5>1
      <4> QED BY <4>1, <4>2
    <3> QED BY <3>1, <3>2, <3>3
  <2> QED BY <1>4, <2>1, <2>2
<1>7. ASSUME NEW i \in DOMAIN rows
      PROVE  \/ i # k /\ rows'[i] = rows[i]
             \/ i = k /\ rows'[i] = t
             \/ /\ rows'[i] = Gone /\ rows[i].flight = f
                /\ Ghost(IF i = k THEN t ELSE rows[i])
  <2>1. CASE i = k
    <3>1. j = i /\ qs[i] = t /\ rows[i].flight = f
      BY <1>1, <1>5, <2>1
    <3> HIDE DEF j
    <3> QED BY <1>5, <1>6, <2>1, <3>1
  <2>2. CASE i # k
    <3>1. i \in DOMAIN qs /\ qs[i] = kept[i]
      BY <1>5, <2>2
    <3>2. rows'[i] = kept[i] \/ (rows'[i] = Gone /\ kept[i].flight = f /\ Ghost(kept[i]))
      BY <1>6, <3>1
    <3>3. ~Ghost(Gone)
      BY GoneFacts DEF Ghost
    <3> QED BY <1>2, <2>2, <3>2, <3>3
  <2> QED BY <2>1, <2>2
<1>8. ASSUME NEW i \in DOMAIN rows' \ DOMAIN rows
      PROVE  k = 0 /\ i = Len(rows) + 1 /\ rows'[i] \in {t, Gone}
  <2>1. i = j /\ i \in DOMAIN qs
    BY <1>5, <1>6
  <2>2. k = 0
    BY <2>1
  <2> QED BY <1>5, <1>6, <2>1, <2>2
<1>9. DOMAIN rows \subseteq DOMAIN rows'
  BY <1>5, <1>6
<1> HIDE DEF j
<1> QED BY <1>6, <1>7, <1>8, <1>9 DEF Wrote

\* A report and "sent by hand".
LEMMA SenderWrites ==
    ASSUME IInv, NEW f \in Flights, ReportSent(f) \/ ManuallySent(f)
    PROVE  \E k, t, bill :
             /\ bill \in Nat /\ Wrote(f, k, t) /\ FlightRow(t)
             /\ k = 0 => /\ t = PendingDebt(f, bill)
                         /\ FlightRows(f) = {} \/ DOMAIN rows' = DOMAIN rows
             /\ k # 0 => k \in DOMAIN rows /\ t = Extended(rows[k], bill) /\ bill > 0
<1>1. PICK batch \in SUBSET {c \in Cargos \ sent : FlightOf[c] = f} :
        /\ batch # {}
        /\ \/ FlightRows(f) = {} /\ rows' = Append(rows, PendingDebt(f, Bill[batch]))
           \/ FlightRows(f) # {} /\ rows' = Healed(rows, f)
           \/ \E i \in Found(f) \ {0} :
                rows' = [Healed(rows, f) EXCEPT ![i] = Extended(rows[i], Bill[batch])]
  <2>1. CASE ReportSent(f)
    BY <2>1 DEF ReportSent
  <2>2. CASE ManuallySent(f)
    BY <2>2 DEF ManuallySent
  <2> QED BY <2>1, <2>2
<1> DEFINE bill == Bill[batch]
<1>2. bill \in Nat /\ bill > 0 /\ Ledger(rows) /\ 0 \in Nat
  BY <1>1, BillFacts, StateFacts
<1> HIDE DEF bill
<1>3. CASE FlightRows(f) = {} /\ rows' = Append(rows, PendingDebt(f, bill))
  <2> DEFINE t == PendingDebt(f, bill)
  <2>1. FlightRow(t) /\ t.flight = f /\ t.item = Whole
    BY <1>2, PendingDebtOK DEF PendingDebt
  <2>2. rows' = Append(rows, t)
    BY <1>3
  <2> HIDE DEF t
  <2>3. rows' = Put(Healed(rows, f), 0, t)
    <3>1. RealRows(rows, f) = {}
      BY <1>3 DEF RealRows, FlightRows, RowsAt
    <3> QED BY <2>2, <3>1 DEF Healed, Put
  <2>4. Wrote(f, 0, t)
    BY <1>2, <2>1, <2>3, LookedUpAndPut
  <2> QED BY <1>2, <1>3, <2>1, <2>4 DEF t
<1>4. CASE FlightRows(f) # {} /\ rows' = Healed(rows, f)
  <2> DEFINE t == PendingDebt(f, 0)
  <2>1. FlightRow(t)
    BY <1>2, PendingDebtOK
  <2> HIDE DEF t
  <2>2. DOMAIN rows' = DOMAIN rows /\ 0 \notin DOMAIN rows
    BY <1>2, <1>4, HealedRows, LedgerFacts
  <2>3. \A i \in DOMAIN rows :
          rows'[i] = rows[i] \/ (rows'[i] = Gone /\ rows[i].flight = f /\ Ghost(rows[i]))
    BY <1>4, LookupDeletes
  <2>4. \E j \in DOMAIN rows' : rows'[j].item = Whole /\ rows'[j].flight = f
    <3>1. PICK i \in DOMAIN rows : rows[i].item = Whole /\ rows[i].flight = f
      BY <1>4 DEF FlightRows, RowsAt
    <3>2. CASE Healed(rows, f)[i] = rows[i]
      BY <1>4, <2>2, <3>1, <3>2
    <3>3. CASE Healed(rows, f)[i] # rows[i]
      BY <1>4, <2>2, <3>3, LookupDeletes
    <3> QED BY <3>2, <3>3
  <2>5. Wrote(f, 0, t)
    BY <2>2, <2>3, <2>4 DEF Wrote
  <2> QED BY <1>2, <2>1, <2>2, <2>5 DEF t
<1>5. ASSUME NEW i \in Found(f) \ {0},
             rows' = [Healed(rows, f) EXCEPT ![i] = Extended(rows[i], bill)]
      PROVE  /\ Wrote(f, i, Extended(rows[i], bill)) /\ FlightRow(Extended(rows[i], bill))
             /\ i \in DOMAIN rows
  <2>1. /\ i \in DOMAIN rows /\ rows[i].flight = f /\ rows[i].item = Whole
        /\ Healed(rows, f)[i] = rows[i] /\ FlightRow(rows[i])
    BY <1>2, FoundFacts, LedgerFacts
  <2> DEFINE t == Extended(rows[i], bill)
  <2>2. FlightRow(t) /\ t.flight = f
    BY <1>2, <2>1, ExtendedOK
  <2>3. t.item = Whole
    BY <1>2, <2>1, MovedSame DEF FlightRow, SamePayments
  <2> HIDE DEF t
  <2>4. rows' = Put(Healed(rows, f), i, t)
    BY <1>5 DEF Put, t
  <2>5. Wrote(f, i, t)
    BY <1>2, <2>1, <2>2, <2>3, <2>4, LookedUpAndPut
  <2> QED BY <2>1, <2>2, <2>5 DEF t
<1> QED BY <1>1, <1>2, <1>3, <1>4, <1>5 DEF bill

\* What an approval makes of the row it found, or of a new one.
Approved(f, k, t, a) ==
    LET found == RowFor(rows, k, f)
    IN  \E p : \/ found.status = "partial" /\ t = ToppedUp(found, p, a)
               \/ /\ found.status = "pending"
                  /\ t = Booked(found, f, Whole, Bill[SentOn(f)], walletKey[f], a, p)

LEMMA ApproveAmountWrites ==
    ASSUME IInv, NEW adm \in Admins, NEW a \in Nat, ApproveAmount(adm, a),
           NEW f, f = prompt[adm].flight
    PROVE  /\ f \in Flights
           /\ \/ UNCHANGED rows
              \/ \E k \in Found(f) : \E t :
                   Approved(f, k, t, a) /\ Wrote(f, k, t) /\ FlightRow(t)
<1> DEFINE d(k) == RowFor(rows, k, f)
           Record(k, p) ==
               IF d(k).status = "partial" THEN ToppedUp(d(k), p, a)
               ELSE Booked(d(k), f, Whole, Bill[SentOn(f)], walletKey[f], a,
                           IF p = "wallet" THEN "click" ELSE p)
<1>1. f \in Flights /\ Ledger(rows)
  BY StateFacts, DialogueFacts DEF ApproveAmount
<1>2. Bill[SentOn(f)] \in Nat /\ walletKey[f] \in Nat
  BY <1>1, StateFacts, BillFacts DEF SentOn, TypeOK
<1>3. PICK k \in Found(f) :
        \E p : \/ UNCHANGED rows
               \/ /\ d(k).status # "paid"
                  /\ LET qs == Put(Healed(rows, f), k, Record(k, p))
                     IN  rows' \in {qs, Healed(qs, f)}
  <2>1. PICK k \in Found(f),
             p \in CASE modeKey[f] = "wallet_only" -> {"wallet"}
                      [] modeKey[f] = "cash" -> {"cash"}
                      [] OTHER -> Types \ {"cash"} :
          \/ UNCHANGED rows
          \/ /\ d(k).status # "paid"
             /\ LET qs == Put(Healed(rows, f), k, Record(k, p))
                IN  rows' = qs \/ rows' = Healed(qs, f)
    BY DEF ApproveAmount
  <2> QED BY <2>1
<1>4. k # 0 => /\ k \in DOMAIN rows /\ rows[k].flight = f /\ rows[k].item = Whole
               /\ Healed(rows, f)[k] = rows[k]
  BY FoundFacts
<1>5. FlightRow(d(k)) /\ d(k).flight = f /\ d(k).item = Whole
  <2>1. FlightRow(d(k)) /\ d(k).flight = f
    BY <1>1, <1>4, RowForOK
  <2> QED BY <1>4, <2>1 DEF RowFor, PendingDebt
<1> HIDE DEF d
<1>6. ASSUME NEW p, d(k).status # "paid",
             LET qs == Put(Healed(rows, f), k, Record(k, p)) IN rows' \in {qs, Healed(qs, f)}
      PROVE  \E t : Approved(f, k, t, a) /\ Wrote(f, k, t) /\ FlightRow(t)
  <2>1. CASE d(k).status = "partial"
    <3> DEFINE t == ToppedUp(d(k), p, a)
    <3>1. Record(k, p) = t
      BY <2>1
    <3>2. FlightRow(t) /\ t.flight = f
      BY <1>5, ToppedUpOK
    <3>3. t.item = Whole
      BY <1>5, <2>1, ToppedUpKeeps DEF FlightRow, KeepsPayments
    <3>4. Approved(f, k, t, a)
      BY <2>1 DEF Approved, d
    <3> HIDE DEF t, Record
    <3>5. Wrote(f, k, t)
      BY <1>1, <1>4, <1>6, <3>1, <3>2, <3>3, LookedUpAndPut
    <3> QED BY <3>2, <3>4, <3>5
  <2>2. CASE d(k).status # "partial"
    <3> DEFINE provider == IF p = "wallet" THEN "click" ELSE p
               t == Booked(d(k), f, Whole, Bill[SentOn(f)], walletKey[f], a, provider)
    <3>1. Record(k, p) = t
      BY <2>2
    <3> HIDE DEF provider
    <3>2. FlightRow(t) /\ t.flight = f /\ t.item = Whole
      BY <1>1, <1>2, <1>5, WholeBookedOK
    <3>3. d(k).status = "pending"
      BY <1>5, <1>6, <2>2 DEF FlightRow, Row, Statuses
    <3>4. Approved(f, k, t, a)
      BY <3>3 DEF Approved, d
    <3> HIDE DEF t, Record
    <3>5. Wrote(f, k, t)
      BY <1>1, <1>4, <1>6, <3>1, <3>2, LookedUpAndPut
    <3> QED BY <3>2, <3>4, <3>5
  <2> QED BY <2>1, <2>2
<1> HIDE DEF Record
<1> QED BY <1>1, <1>3, <1>6

\* An open cash dialogue that does not know that the flight's row is partial.
LateCash(f) ==
    \E adm \in Admins :
      /\ prompt[adm].kind = "cash" /\ prompt[adm].flight = f /\ ~prompt[adm].partial
      /\ \E i \in FlightRows(f) : rows[i].status = "partial"

\* What the cash dialogue makes of a pending row of the flight, or of a new one.
Cashed(f, k, t, a) ==
    LET found == RowFor(rows, k, f)
    IN  /\ found.status = "pending"
        /\ t = Taken(Booked(found, f, Whole, Bill[SentOn(f)], walletKey[f], a, "cash"))

\* The row the cash dialogue was opened on, topped up.
CashedPartial(i, a) ==
    /\ i \in DOMAIN rows /\ rows[i].flight \in Flights
    /\ rows' = [rows EXCEPT ![i] = IF ToppedUp(rows[i], "cash", a).remaining = 0
                                   THEN Taken(ToppedUp(rows[i], "cash", a))
                                   ELSE ToppedUp(rows[i], "cash", a)]

LEMMA CashAmountWrites ==
    ASSUME IInv, NEW adm \in Admins, NEW a \in Nat, CashAmount(adm, a),
           NEW f, f = prompt[adm].flight
    PROVE  /\ f \in Flights /\ a > 0
           /\ \/ UNCHANGED rows
              \/ \E i : CashedPartial(i, a)
              \/ \E k, t :
                   /\ Cashed(f, k, t, a) /\ Wrote(f, k, t) /\ FlightRow(t)
                   /\ k # 0 => k \in DOMAIN rows /\ rows[k].flight = f
                   /\ k = 0 => FlightRows(f) = {} \/ LateCash(f)
<1> DEFINE p == prompt[adm]
           kept == Healed(rows, f)
           d(k) == RowFor(rows, k, f)
           Receipt(k) == Taken(Booked(d(k), f, Whole, Bill[SentOn(f)], walletKey[f], a, "cash"))
<1>1. /\ p.kind = "cash" /\ f \in Flights /\ a > 0
      /\ p.tx # 0 => p.tx \in DOMAIN rows /\ (rows[p.tx] = Gone \/ rows[p.tx].flight = f)
      /\ p.partial => p.tx # 0
      /\ Ledger(rows)
  BY StateFacts, DialogueFacts DEF CashAmount, IInv, TypeOK, PromptsPoint, Points
<1>2. CASE p.partial
  <2>1. \/ UNCHANGED rows
        \/ /\ rows[p.tx] # Gone
           /\ rows' = [rows EXCEPT ![p.tx] =
                         IF ToppedUp(rows[p.tx], "cash", a).remaining = 0
                         THEN Taken(ToppedUp(rows[p.tx], "cash", a))
                         ELSE ToppedUp(rows[p.tx], "cash", a)]
    BY <1>2 DEF CashAmount
  <2>2. p.tx \in DOMAIN rows /\ (rows[p.tx] # Gone => rows[p.tx].flight \in Flights)
    BY <1>1, <1>2
  <2> QED BY <1>1, <2>1, <2>2 DEF CashedPartial
<1>3. CASE ~p.partial
  <2> DEFINE target(i) == IF d(i).status = "pending" THEN i
                          ELSE IF p.tx # 0 /\ kept[p.tx].status = "pending" THEN p.tx ELSE 0
  <2>1. PICK i \in Found(f) :
          \/ UNCHANGED rows
          \/ d(i).status # "paid" /\ rows' = Put(kept, target(i), Receipt(target(i)))
    BY <1>3 DEF CashAmount
  <2>2. i # 0 => /\ i \in DOMAIN rows /\ rows[i].flight = f /\ rows[i].item = Whole
                 /\ kept[i] = rows[i] /\ d(i) = rows[i] /\ i \in FlightRows(f)
    BY FoundFacts DEF RowFor, FlightRows, RowsAt
  <2>3. i = 0 => FlightRows(f) = {}
    <3>1. 0 \notin DOMAIN rows
      BY <1>1, LedgerFacts
    <3> QED BY <3>1 DEF Found, FlightRows, RowsAt, RealRows
  <2>4. p.tx # 0 /\ kept[p.tx].status = "pending"
        => rows[p.tx].flight = f /\ kept[p.tx] = rows[p.tx]
    BY <1>1, HealedRows, GoneFacts
  <2>5. ASSUME d(i).status # "paid", rows' = Put(kept, target(i), Receipt(target(i)))
        PROVE  \E k, t :
                 /\ Cashed(f, k, t, a) /\ Wrote(f, k, t) /\ FlightRow(t)
                 /\ k # 0 => k \in DOMAIN rows /\ rows[k].flight = f
                 /\ k = 0 => FlightRows(f) = {} \/ LateCash(f)
    <3> DEFINE k == target(i)
    <3>1. k # 0 => /\ k \in DOMAIN rows /\ rows[k].flight = f /\ kept[k] = rows[k]
                   /\ d(k) = rows[k]
      BY <1>1, <2>2, <2>4 DEF RowFor
    <3>2. d(k).status = "pending"
      <4>1. d(0).status = "pending"
        BY DEF RowFor, PendingDebt
      <4>2. p.tx # 0 => d(p.tx) = rows[p.tx]
        BY DEF RowFor
      <4> HIDE DEF d, kept
      <4> QED BY <2>4, <4>1, <4>2
    <3>3. k = 0 => FlightRows(f) = {} \/ LateCash(f)
      <4>1. CASE i = 0
        BY <2>3, <4>1
      <4>2. CASE i # 0 /\ k = 0
        <5>1. rows[i].status = "partial"
          <6>1. rows[i].status \in Statuses
            BY <1>1, <2>2, <4>2, LedgerFacts DEF Row
          <6> QED BY <2>2, <2>5, <4>2, <6>1 DEF Statuses
        <5> QED BY <1>1, <1>3, <2>2, <4>2, <5>1 DEF LateCash
      <4> QED BY <4>1, <4>2
    <3>4. Bill[SentOn(f)] \in Nat /\ walletKey[f] \in Nat
      BY <1>1, StateFacts, BillFacts DEF SentOn, TypeOK
    <3>5. rows' = Put(kept, k, Receipt(k))
      BY <2>5
    <3> HIDE DEF k, target
    <3>6. FlightRow(d(k)) /\ d(k).flight = f
      BY <1>1, <3>1, RowForOK
    <3> HIDE DEF d
    <3> DEFINE b == Booked(d(k), f, Whole, Bill[SentOn(f)], walletKey[f], a, "cash")
               t == Taken(b)
    <3>7. FlightRow(b) /\ b.flight = f /\ b.item = Whole
      BY <1>1, <3>4, <3>6, WholeBookedOK
    <3>8. Cashed(f, k, t, a)
      BY <3>2 DEF Cashed, d
    <3> HIDE DEF b
    <3>9. FlightRow(t) /\ t.flight = f /\ t.item = Whole
      BY <3>7, TakenOK, FlagsSame DEF FlightRow, SamePayments
    <3>10. rows' = Put(kept, k, t)
      BY <3>5 DEF b
    <3> HIDE DEF t
    <3>11. Wrote(f, k, t)
      BY <1>1, <3>1, <3>9, <3>10, LookedUpAndPut
    <3> QED BY <3>1, <3>3, <3>8, <3>9, <3>11
  <2> QED BY <1>1, <2>1, <2>5
<1> QED BY <1>2, <1>3

\* A delivery request moves rows in place, and may delete some.
LEMMA DeliverWrites ==
    ASSUME IInv, NEW flights \in SUBSET Flights, NEW first \in Flights, NEW fee \in Nat,
           Deliver(first, flights, fee)
    PROVE  /\ DOMAIN rows' = DOMAIN rows
           /\ \A j \in DOMAIN rows :
                \/ Deleted(j)
                \/ \E r \in {rows[j], Withdrawn(rows[j], fee)} : rows'[j] \in {r, Taken(r)}
<1> DEFINE kept == IF fee > 0 THEN Healed(rows, first) ELSE rows
           charged(i, j) == IF j = i THEN Withdrawn(kept[j], fee) ELSE kept[j]
           after(i, j) == IF charged(i, j).flight \in flights
                          THEN Taken(charged(i, j)) ELSE charged(i, j)
<1>1. PICK i \in Found(first) : rows' = [j \in DOMAIN rows |-> after(i, j)]
  BY DEF Deliver
<1>2. DOMAIN rows' = DOMAIN rows /\ \A j \in DOMAIN rows : rows'[j] = after(i, j)
  BY <1>1
<1>3. i \in DOMAIN rows => kept[i] = rows[i]
  BY FoundFacts, LedgerFacts, StateFacts
<1>4. ASSUME NEW j \in DOMAIN rows, kept[j] = rows[j]
      PROVE  \E r \in {rows[j], Withdrawn(rows[j], fee)} : rows'[j] \in {r, Taken(r)}
  BY <1>2, <1>4
<1>5. ASSUME NEW j \in DOMAIN rows, kept[j] # rows[j]
      PROVE  Deleted(j)
  <2>1. /\ kept[j] = Gone /\ rows[j].flight = first /\ Ghost(rows[j])
        /\ \E k \in DOMAIN rows \ {j} :
             rows[k].item = Whole /\ rows[k].flight = first /\ kept[k] = rows[k]
    BY <1>5, LookupDeletes
  <2>2. PICK k \in DOMAIN rows \ {j} :
          rows[k].item = Whole /\ rows[k].flight = first /\ kept[k] = rows[k]
    BY <2>1
  <2>3. rows'[j] = Gone
    <3>1. j # i
      BY <1>3, <1>5
    <3> QED BY <1>2, <2>1, <3>1, GoneFacts
  <2>4. rows[j].item = Whole /\ rows[j].cash = 0 /\ rows[j].wallet = 0
    BY <2>1, GhostFacts, LedgerFacts, StateFacts
  <2>5. rows'[k].item = Whole /\ rows'[k].flight = first
    <3>1. PICK r \in {rows[k], Withdrawn(rows[k], fee)} : rows'[k] \in {r, Taken(r)}
      BY <1>4, <2>2
    <3>2. rows[k] \in Row /\ RowOK(rows[k]) /\ fee \in Int
      BY LedgerFacts, StateFacts
    <3>3. r \in Row /\ r.item = Whole /\ r.flight = first
      <4>1. Withdrawn(rows[k], fee) \in Row /\ SamePayments(rows[k], Withdrawn(rows[k], fee))
        BY <3>2, WithdrawnOK, MovedSame
      <4> QED BY <2>2, <3>1, <3>2, <4>1 DEF SamePayments
    <3> QED BY <3>1, <3>3, FlagsSame DEF SamePayments
  <2> QED BY <1>2, <2>1, <2>2, <2>3, <2>4, <2>5 DEF Deleted
<1> QED BY <1>2, <1>4, <1>5
------------------------------------------------------------------------------
(* Tables *)

\* Untouched rows stay as they are.
LEMMA UnchangedKept == UNCHANGED rows => PaidKept
BY DEF PaidKept, KeepsPaid

LEMMA AppendKept ==
    ASSUME Ledger(rows), NEW t, rows' = Append(rows, t)
    PROVE  PaidKept
<1>1. rows \in Seq(Row)
  BY DEF Ledger
<1>2. \A i \in DOMAIN rows : rows'[i] = rows[i]
  BY <1>1
<1> QED BY <1>2 DEF PaidKept, KeepsPaid

LEMMA UpdateKept ==
    ASSUME Ledger(rows), NEW k \in DOMAIN rows, NEW t, KeepsPaid(rows[k], t),
           rows' = [rows EXCEPT ![k] = t]
    PROVE  PaidKept
<1>1. \A i \in DOMAIN rows : rows'[i] = IF i = k THEN t ELSE rows[i]
  OBVIOUS
<1> QED BY <1>1 DEF PaidKept, KeepsPaid

\* Writing a row that was not paid, or a new one.
LEMMA PutKept ==
    ASSUME Ledger(rows), NEW k, k # 0 => k \in DOMAIN rows /\ rows[k].status # "paid",
           NEW t, rows' = Put(rows, k, t)
    PROVE  PaidKept
<1>1. CASE k = 0
  BY <1>1, AppendKept DEF Put
<1>2. CASE k # 0
  <2>1. KeepsPaid(rows[k], t)
    BY <1>2 DEF KeepsPaid
  <2> QED BY <1>2, <2>1, UpdateKept DEF Put
<1> QED BY <1>1, <1>2

\* Two bulk items write two rows that were not paid, or new ones.
LEMMA PutTwiceKept ==
    ASSUME Ledger(rows), NEW j, NEW k, NEW t, NEW u,
           j # 0 => j \in DOMAIN rows /\ rows[j].status # "paid",
           k # 0 => k \in DOMAIN rows /\ rows[k].status # "paid",
           t \in Row, rows' = Put(Put(rows, j, t), k, u)
    PROVE  PaidKept
<1> DEFINE qs == Put(rows, j, t)
<1>1. rows \in Seq(Row) /\ Len(rows) \in Nat /\ DOMAIN rows = 1 .. Len(rows)
  BY LedgerFacts DEF Ledger
<1>2. /\ qs \in Seq(Row) /\ DOMAIN rows \subseteq DOMAIN qs
      /\ \A i \in DOMAIN rows : i # j => qs[i] = rows[i]
  <2>1. CASE j = 0
    BY <1>1, <2>1 DEF Put
  <2>2. CASE j # 0
    BY <1>1, <2>2 DEF Put
  <2> QED BY <2>1, <2>2
<1> HIDE DEF qs
<1>3. \A i \in DOMAIN rows : i # j /\ i # k => rows'[i] = rows[i]
  <2>1. rows' = Put(qs, k, u)
    BY DEF qs
  <2>2. CASE k = 0
    <3>1. rows' = Append(qs, u)
      BY <2>1, <2>2 DEF Put
    <3>2. \A i \in DOMAIN qs : rows'[i] = qs[i]
      BY <1>2, <3>1
    <3> QED BY <1>2, <3>2
  <2>3. CASE k # 0
    BY <1>2, <2>1, <2>3 DEF Put
  <2> QED BY <2>2, <2>3
<1>4. \A i \in DOMAIN rows : i = j \/ i = k => rows[i].status # "paid"
  <2>1. 0 \notin DOMAIN rows
    BY LedgerFacts
  <2> QED BY <2>1
<1> QED BY <1>3, <1>4 DEF PaidKept, KeepsPaid

\* A lookup and a write: what is deleted was not paid.
LEMMA WroteKept ==
    ASSUME Ledger(rows), NEW f, NEW k, NEW t, Wrote(f, k, t), k # 0 => KeepsPaid(rows[k], t)
    PROVE  PaidKept
<1> SUFFICES ASSUME NEW i \in DOMAIN rows PROVE KeepsPaid(rows[i], rows'[i])
  BY DEF PaidKept
<1>1. i = k => k # 0
  BY LedgerFacts
<1>2. rows'[i] = rows[i] \/ (i = k /\ rows'[i] = t) \/ rows'[i] = Gone
  BY DEF Wrote
<1> QED BY <1>1, <1>2, GoneFacts DEF KeepsPaid

\* Rewriting all rows.
LEMMA RewriteKept ==
    ASSUME \A i \in DOMAIN rows : KeepsPaid(rows[i], rows'[i])
    PROVE  PaidKept
BY DEF PaidKept
------------------------------------------------------------------------------
(* Handlers *)

\* The rows a POS payment may be booked on are not paid.
LEMMA TargetsNotPaid ==
    ASSUME NEW c, NEW i \in TargetsOf(c),
           \A k \in OwnRow(c) : rows[k].status # "paid"
    PROVE  i # 0 => i \in DOMAIN rows /\ rows[i].status # "paid"
<1>1. i # 0 => i \in DOMAIN rows
  BY TargetsFacts
<1>2. i # 0 => rows[i].status # "paid"
  BY DEF TargetsOf, PendingRow
<1> QED BY <1>1, <1>2

LEMMA SenderKeepsPaid ==
    ASSUME IInv, NEW f \in Flights, ReportSent(f) \/ ManuallySent(f)
    PROVE  PaidKept
<1>1. PICK k, t, bill :
        /\ bill \in Nat /\ Wrote(f, k, t)
        /\ k # 0 => k \in DOMAIN rows /\ t = Extended(rows[k], bill) /\ bill > 0
  BY SenderWrites
<1>2. k # 0 => KeepsPaid(rows[k], t)
  BY <1>1, ExtendedKeepsPaid, LedgerFacts, StateFacts
<1> QED BY <1>1, <1>2, WroteKept, StateFacts

\* A late approval finds the row paid and refuses.
LEMMA ApproveAmountKeepsPaid ==
    ASSUME IInv, NEW adm \in Admins, NEW a \in Nat, ApproveAmount(adm, a)
    PROVE  PaidKept
<1> DEFINE f == prompt[adm].flight
<1>1. \/ UNCHANGED rows
      \/ \E k, t : Approved(f, k, t, a) /\ Wrote(f, k, t)
  BY ApproveAmountWrites
<1>2. CASE UNCHANGED rows
  BY <1>2, UnchangedKept
<1>3. ASSUME NEW k, NEW t, Approved(f, k, t, a), Wrote(f, k, t)
      PROVE  PaidKept
  <2>1. k # 0 => KeepsPaid(rows[k], t)
    BY <1>3 DEF Approved, RowFor, KeepsPaid
  <2> QED BY <1>3, <2>1, WroteKept, StateFacts
<1> QED BY <1>1, <1>2, <1>3

\* A top-up of a row, in the two forms the dialogues write it.
LEMMA TopUpWriteKeepsPaid ==
    ASSUME IInv, NEW i \in DOMAIN rows, rows[i].flight \in Flights,
           NEW a \in Nat, a > 0, NEW provider,
           NEW t, t = ToppedUp(rows[i], provider, a),
           \/ rows' = [rows EXCEPT ![i] = t]
           \/ rows' = [rows EXCEPT ![i] = IF t.remaining = 0 THEN Taken(t) ELSE t]
    PROVE  PaidKept
<1>1. FlightRow(rows[i]) /\ FlightRow(t)
  BY StateFacts, LedgerFacts, ToppedUpOK
<1>2. KeepsPaid(rows[i], t)
  BY <1>1, ToppedUpKeepsPaid
<1>3. Taken(t).status = t.status /\ Taken(t).total = t.total
  BY <1>1 DEF Taken, FlightRow, Row
<1>4. KeepsPaid(rows[i], Taken(t))
  BY <1>2, <1>3 DEF KeepsPaid
<1> QED BY <1>2, <1>4, UpdateKept, StateFacts

LEMMA CashAmountKeepsPaid ==
    ASSUME IInv, NEW adm \in Admins, NEW a \in Nat, CashAmount(adm, a)
    PROVE  PaidKept
<1> DEFINE f == prompt[adm].flight
<1>1. /\ a > 0
      /\ \/ UNCHANGED rows
         \/ \E i : CashedPartial(i, a)
         \/ \E k, t : Cashed(f, k, t, a) /\ Wrote(f, k, t)
  BY CashAmountWrites
<1>2. CASE UNCHANGED rows
  BY <1>2, UnchangedKept
<1>3. ASSUME NEW i, CashedPartial(i, a) PROVE PaidKept
  BY <1>1, <1>3, TopUpWriteKeepsPaid DEF CashedPartial
<1>4. ASSUME NEW k, NEW t, Cashed(f, k, t, a), Wrote(f, k, t)
      PROVE  PaidKept
  <2>1. k # 0 => KeepsPaid(rows[k], t)
    BY <1>4 DEF Cashed, RowFor, KeepsPaid
  <2> QED BY <1>4, <2>1, WroteKept, StateFacts
<1> QED BY <1>1, <1>2, <1>3, <1>4

LEMMA VerificationKeepsPaid ==
    ASSUME IInv, NEW adm \in Admins, NEW a \in Nat,
           AccountAmount(adm, a) \/ VerifyAmount(adm, a) \/ UnpaidAmount(adm, a)
    PROVE  PaidKept
<1>1. ASSUME AccountAmount(adm, a) PROVE PaidKept
  <2>1. /\ prompt[adm].tx \in DOMAIN rows /\ a > 0
        /\ rows[prompt[adm].tx] = Gone \/ rows[prompt[adm].tx].flight \in Flights
    BY <1>1 DEF AccountAmount, IInv, TypeOK, PromptsPoint, Points
  <2>2. CASE UNCHANGED rows
    BY <2>2, UnchangedKept
  <2>3. CASE rows' # rows
    BY <1>1, <2>1, <2>3, TopUpWriteKeepsPaid DEF AccountAmount
  <2> QED BY <2>2, <2>3
<1>2. ASSUME VerifyAmount(adm, a) PROVE PaidKept
  <2>1. /\ prompt[adm].tx \in DOMAIN rows /\ a > 0
        /\ rows[prompt[adm].tx] = Gone \/ rows[prompt[adm].tx].flight \in Flights
    BY <1>2 DEF VerifyAmount, IInv, TypeOK, PromptsPoint, Points
  <2>2. CASE UNCHANGED rows
    BY <2>2, UnchangedKept
  <2>3. CASE rows' # rows
    BY <1>2, <2>1, <2>3, TopUpWriteKeepsPaid DEF VerifyAmount
  <2> QED BY <2>2, <2>3
<1>3. ASSUME UnpaidAmount(adm, a) PROVE PaidKept
  <2>1. PICK t : rows' = Append(rows, t)
    BY <1>3 DEF UnpaidAmount
  <2> QED BY <2>1, AppendKept, StateFacts
<1> QED BY <1>1, <1>2, <1>3

LEMMA PosPayKeepsPaid ==
    ASSUME IInv, NEW c \in Cargos, NEW type \in Types, NEW a \in Nat, PosPay(c, type, a)
    PROVE  PaidKept
<1>1. PICK i \in TargetsOf(c) : \E t : rows' = Put(rows, i, t)
  BY DEF PosPay
<1>2. \A k \in OwnRow(c) : rows[k].status # "paid"
  BY DEF PosPay
<1>3. i # 0 => i \in DOMAIN rows /\ rows[i].status # "paid"
  BY <1>2, TargetsNotPaid
<1> QED BY <1>1, <1>3, PutKept, StateFacts

\* Both items of a batch were accepted on the rows before either was written.
LEMMA PosBulkKeepsPaid ==
    ASSUME IInv, NEW c1 \in Cargos, NEW type1 \in Types, NEW a1 \in Nat,
           PosBulk(c1, type1, a1)
    PROVE  PaidKept
<1>1. PICK i1 \in TargetsOf(c1) :
        \E rs \in BulkWrites(rows, i1, c1, type1, a1) :
          \/ rows' = rs
          \/ \E c2 \in Cargos, type2 \in Types, a2 \in 0..purse :
               /\ BulkAccepts(c2)
               /\ \E i2 \in TargetsOf(c2) : rows' \in BulkWrites(rs, i2, c2, type2, a2)
  BY DEF PosBulk
<1>2. PICK rs \in BulkWrites(rows, i1, c1, type1, a1) :
          \/ rows' = rs
          \/ \E c2 \in Cargos, type2 \in Types, a2 \in 0..purse :
               /\ BulkAccepts(c2)
               /\ \E i2 \in TargetsOf(c2) : rows' \in BulkWrites(rs, i2, c2, type2, a2)
  BY <1>1
<1>3. PICK w1 \in UsableCredit(rows, Basis(RowFor(rows, i1, FlightOf[c1]), Bill[{c1}])) :
        rs = Put(rows, i1, Settled(RowFor(rows, i1, FlightOf[c1]), c1, Bill[{c1}], w1, a1, type1))
  BY DEF BulkWrites
<1> DEFINE t1 == Settled(RowFor(rows, i1, FlightOf[c1]), c1, Bill[{c1}], w1, a1, type1)
<1>4. t1 \in Row
  <2>1. FlightOf[c1] \in Flights /\ Bill[{c1}] \in Nat
    BY BillFacts
  <2>2. FlightRow(RowFor(rows, i1, FlightOf[c1]))
    BY <2>1, RowForOK, TargetsFacts, StateFacts
  <2>3. w1 \in Nat
    BY <2>1, <2>2, BasisFacts, CreditFacts DEF FlightRow
  <2>4. FlightRow(t1)
    BY <2>1, <2>2, <2>3, SettledOK
  <2> QED BY <2>4 DEF FlightRow
<1>5. i1 # 0 => i1 \in DOMAIN rows /\ rows[i1].status # "paid"
  BY TargetsNotPaid DEF PosBulk, BulkAccepts
<1>6. rs = Put(rows, i1, t1)
  BY <1>3
<1> HIDE DEF t1
<1>7. CASE rows' = Put(rows, i1, t1)
  BY <1>5, <1>7, PutKept, StateFacts
<1>8. ASSUME NEW c2 \in Cargos, NEW type2 \in Types, NEW a2 \in 0..purse, BulkAccepts(c2),
             NEW i2 \in TargetsOf(c2),
             rows' \in BulkWrites(Put(rows, i1, t1), i2, c2, type2, a2)
      PROVE  PaidKept
  <2>1. i2 # 0 => i2 \in DOMAIN rows /\ rows[i2].status # "paid"
    BY <1>8, TargetsNotPaid DEF BulkAccepts
  <2>2. PICK u : rows' = Put(Put(rows, i1, t1), i2, u)
    BY <1>8 DEF BulkWrites
  <2> QED BY <1>4, <1>5, <2>1, <2>2, PutTwiceKept, StateFacts
<1> QED BY <1>2, <1>6, <1>7, <1>8

LEMMA PosExistingKeepsPaid ==
    ASSUME IInv, NEW i \in DOMAIN rows, NEW type \in Types, NEW a \in Nat,
           PosExisting(i, type, a)
    PROVE  PaidKept
<1> DEFINE due == IF rows[i].remaining > 0 THEN rows[i].remaining ELSE rows[i].total
<1>1. FlightRow(rows[i]) /\ due \in Nat /\ a > 0
  BY StateFacts, LedgerFacts DEF PosExisting, FlightRow, Row
<1>2. PICK w \in UsableCredit(rows, due) :
        rows' = [rows EXCEPT ![i] = ExistingPaid(rows[i], w, a, type)]
  BY DEF PosExisting
<1>3. w \in Nat
  BY <1>1, CreditFacts
<1>4. KeepsPaid(rows[i], ExistingPaid(rows[i], w, a, type))
  BY <1>1, <1>3, ExistingPaidKeepsPaid
<1> QED BY <1>2, <1>4, UpdateKept, StateFacts

LEMMA FlagsKeepPaid ==
    ASSUME IInv, NEW i \in DOMAIN rows, MarkTransactionTaken(i) \/ UpdateTakenStatus(i)
    PROVE  PaidKept
<1>1. rows[i] \in Row
  BY StateFacts, LedgerFacts
<1>2. KeepsPaid(rows[i], ForceTaken(rows[i]))
      /\ KeepsPaid(rows[i], [rows[i] EXCEPT !.taken = ~rows[i].taken])
  BY <1>1, OthersKeepPaid
<1>3. \/ rows' = [rows EXCEPT ![i] = ForceTaken(rows[i])]
      \/ rows' = [rows EXCEPT ![i] = [rows[i] EXCEPT !.taken = ~rows[i].taken]]
  BY DEF MarkTransactionTaken, UpdateTakenStatus
<1> QED BY <1>2, <1>3, UpdateKept, StateFacts

LEMMA WalletDeskKeepsPaid ==
    ASSUME IInv, NEW a \in Nat, ApplyPayment(a) \/ Refund(a)
    PROVE  PaidKept
<1>1. \A i \in DOMAIN rows : rows[i] \in Row
  BY StateFacts, LedgerFacts
<1>2. ASSUME ApplyPayment(a) PROVE PaidKept
  <2> DEFINE debt == [i \in DOMAIN rows |-> PositivePart(-rows[i].pbd)]
             isLast(i) == debt[i] > 0 /\ \A j \in DOMAIN rows : debt[j] > 0 => j <= i
             part(share, left, i) == share[i] + IF isLast(i) THEN left ELSE 0
  <2>1. PICK share \in Fifo(a, debt), left \in 0..a :
          rows' = [i \in DOMAIN rows |-> Allocated(rows[i], part(share, left, i))]
    BY <1>2 DEF ApplyPayment
  <2> HIDE DEF isLast
  <2>2. \A i \in DOMAIN rows : part(share, left, i) \in Nat
    BY DEF Fifo
  <2> HIDE DEF part
  <2>3. ASSUME NEW i \in DOMAIN rows PROVE KeepsPaid(rows[i], rows'[i])
    <3>1. rows'[i] = Allocated(rows[i], part(share, left, i))
      BY <2>1
    <3> QED BY <1>1, <2>2, <3>1, OthersKeepPaid
  <2> QED BY <2>3, RewriteKept
<1>3. ASSUME Refund(a) PROVE PaidKept
  <2>1. PICK share \in Fifo(a, [i \in DOMAIN rows |-> PositivePart(rows[i].pbd)]) :
          rows' = [i \in DOMAIN rows |-> Withdrawn(rows[i], share[i])]
    BY <1>3 DEF Refund
  <2>2. \A i \in DOMAIN rows : share[i] \in Nat /\ rows'[i] = Withdrawn(rows[i], share[i])
    BY <2>1 DEF Fifo
  <2>3. ASSUME NEW i \in DOMAIN rows PROVE KeepsPaid(rows[i], rows'[i])
    BY <1>1, <2>2, OthersKeepPaid
  <2> QED BY <2>3, RewriteKept
<1> QED BY <1>2, <1>3

LEMMA DeliverKeepsPaid ==
    ASSUME IInv, NEW flights \in SUBSET Flights, NEW first \in Flights, NEW fee \in Nat,
           Deliver(first, flights, fee)
    PROVE  PaidKept
<1>1. ASSUME NEW j \in DOMAIN rows PROVE KeepsPaid(rows[j], rows'[j])
  <2>1. rows[j] \in Row /\ RowOK(rows[j])
    BY StateFacts, LedgerFacts
  <2>2. CASE Deleted(j)
    BY <2>2, GoneFacts DEF Deleted, KeepsPaid
  <2>3. CASE ~Deleted(j)
    <3>1. PICK r \in {rows[j], Withdrawn(rows[j], fee)} : rows'[j] \in {r, Taken(r)}
      BY <2>3, DeliverWrites
    <3>2. r \in Row /\ RowOK(r) /\ r.status = rows[j].status
      BY <2>1, <3>1, WithdrawnOK
    <3>3. rows'[j].status = rows[j].status
      BY <3>1, <3>2, TakenOK
    <3> QED BY <3>3 DEF KeepsPaid
  <2> QED BY <2>2, <2>3
<1> QED BY <1>1, RewriteKept
------------------------------------------------------------------------------
(* The theorem *)

LEMMA NextKeepsPaid == IInv /\ [Next]_vars => PaidKept
<1> SUFFICES ASSUME IInv, [Next]_vars PROVE PaidKept
  OBVIOUS
<1>0. Amounts \subseteq Nat
  BY LedgerAssumption DEF Amounts
<1>1. CASE \/ UNCHANGED vars
           \/ \E f \in Flights, mode \in Modes, w \in Amounts : Submit(f, mode, w)
           \/ \E f \in Flights, k \in {"online", "cash"} : Reject(f, k)
           \/ \E adm \in Admins, f \in Flights : ApprovePrompt(adm, f) \/ CashPrompt(adm, f)
           \/ \E adm \in Admins, i \in DOMAIN rows, p \in Providers : AccountPrompt(adm, i, p)
           \/ \E adm \in Admins, i \in DOMAIN rows : VerifyPrompt(adm, i)
           \/ \E adm \in Admins, c \in Cargos, type \in Types : UnpaidPrompt(adm, c, type)
           \/ \E adm \in Admins : Cancel(adm)
  BY <1>1, UnchangedKept
     DEF vars, Submit, Reject, ApprovePrompt, CashPrompt, AccountPrompt, VerifyPrompt,
         UnpaidPrompt, Cancel
<1>2. CASE \E f \in Flights : ReportSent(f) \/ ManuallySent(f)
  BY <1>2, SenderKeepsPaid
<1>3. CASE \E adm \in Admins, a \in Amounts :
             \/ ApproveAmount(adm, a) \/ CashAmount(adm, a)
             \/ AccountAmount(adm, a) \/ VerifyAmount(adm, a) \/ UnpaidAmount(adm, a)
  BY <1>0, <1>3, ApproveAmountKeepsPaid, CashAmountKeepsPaid, VerificationKeepsPaid
<1>4. CASE \E c \in Cargos, type \in Types, a \in Amounts :
             PosPay(c, type, a) \/ PosBulk(c, type, a)
  BY <1>0, <1>4, PosPayKeepsPaid, PosBulkKeepsPaid
<1>5. CASE \/ \E i \in DOMAIN rows, type \in Types, a \in Amounts : PosExisting(i, type, a)
           \/ \E i \in DOMAIN rows : MarkTransactionTaken(i) \/ UpdateTakenStatus(i)
  BY <1>0, <1>5, PosExistingKeepsPaid, FlagsKeepPaid
<1>6. CASE \E a \in -Purse..Purse : AdjustBalance(a)
  <2>1. PICK t : rows' = Append(rows, t)
    BY <1>6 DEF AdjustBalance
  <2> QED BY <2>1, AppendKept, StateFacts
<1>7. CASE \/ \E a \in Amounts : ApplyPayment(a) \/ Refund(a)
           \/ \E flights \in SUBSET Flights, first \in Flights, fee \in Amounts :
                Deliver(first, flights, fee)
  BY <1>0, <1>7, WalletDeskKeepsPaid, DeliverKeepsPaid
<1> QED BY <1>1, <1>2, <1>3, <1>4, <1>5, <1>6, <1>7 DEF Next

\* A paid row stays paid, unless cargo is added to its bill or a recalculation
\* forgets cover, allocation or waiver that no event backs.
THEOREM PaidAlwaysStaysPaid == Spec => PaidStaysPaid
<1>1. IInv /\ [Next]_vars =>
        [\A i \in DOMAIN rows :
            rows[i].status = "paid" /\ rows'[i].status # "paid"
            => \/ rows'[i].total > rows[i].total
               \/ rows[i].covered + rows[i].allocated + rows[i].waived > 0]_vars
  BY NextKeepsPaid DEF PaidKept, KeepsPaid
<1> QED BY <1>1, Inductive, PTL DEF Spec, PaidStaysPaid
------------------------------------------------------------------------------
(* Tables *)

LEMMA UnchangedPayments == ASSUME Ledger(rows), UNCHANGED rows PROVE PaymentsStay
<1>1. \A i \in DOMAIN rows : rows[i] \in Row
  BY LedgerFacts
<1> QED BY <1>1, FlagsSame, SameKeeps DEF PaymentsStay

LEMMA AppendPayments ==
    ASSUME Ledger(rows), NEW t, rows' = Append(rows, t)
    PROVE  PaymentsStay
<1>1. rows \in Seq(Row) /\ \A i \in DOMAIN rows : rows[i] \in Row
  BY LedgerFacts DEF Ledger
<1>2. \A i \in DOMAIN rows : rows'[i] = rows[i]
  BY <1>1
<1> QED BY <1>1, <1>2, FlagsSame, SameKeeps DEF PaymentsStay

LEMMA UpdatePayments ==
    ASSUME Ledger(rows), NEW k \in DOMAIN rows, NEW t, KeepsPayments(rows[k], t),
           rows' = [rows EXCEPT ![k] = t]
    PROVE  PaymentsStay
<1>1. \A i \in DOMAIN rows : rows'[i] = IF i = k THEN t ELSE rows[i]
  OBVIOUS
<1>2. \A i \in DOMAIN rows : KeepsPayments(rows[i], rows[i])
  BY LedgerFacts, FlagsSame, SameKeeps
<1> QED BY <1>1, <1>2 DEF PaymentsStay

LEMMA PutPayments ==
    ASSUME Ledger(rows), NEW k, NEW t, rows' = Put(rows, k, t),
           k # 0 => k \in DOMAIN rows /\ KeepsPayments(rows[k], t)
    PROVE  PaymentsStay
<1>1. CASE k = 0
  BY <1>1, AppendPayments DEF Put
<1>2. CASE k # 0
  BY <1>2, UpdatePayments DEF Put
<1> QED BY <1>1, <1>2

\* The second of two writes may find the row as the first one left it.
LEMMA PutTwicePayments ==
    ASSUME Ledger(rows), NEW j, NEW k, NEW t \in Row, NEW u \in Row,
           j # 0 => j \in DOMAIN rows /\ KeepsPayments(rows[j], t),
           k # 0 => /\ k \in DOMAIN rows /\ EventsKept(Put(rows, j, t)[k], u)
                    /\ rows[k].status # "pending" => u.item = rows[k].item,
           rows' = Put(Put(rows, j, t), k, u)
    PROVE  PaymentsStay
<1> DEFINE qs == Put(rows, j, t)
<1>1. /\ rows \in Seq(Row) /\ 0 \notin DOMAIN rows /\ Len(rows) \in Nat
      /\ DOMAIN rows = 1 .. Len(rows)
      /\ \A i \in DOMAIN rows : rows[i] \in Row
  BY LedgerFacts DEF Ledger
<1>2. /\ qs \in Seq(Row) /\ DOMAIN rows \subseteq DOMAIN qs
      /\ \A i \in DOMAIN rows : qs[i] = IF i = j THEN t ELSE rows[i]
  <2>1. CASE j = 0
    BY <1>1, <2>1 DEF Put
  <2>2. CASE j # 0
    BY <1>1, <2>2 DEF Put
  <2> QED BY <2>1, <2>2
<1>3. rows' = Put(qs, k, u)
  OBVIOUS
<1>4. k # 0 => EventsKept(qs[k], u)
  OBVIOUS
<1> HIDE DEF qs
<1>5. \A i \in DOMAIN rows : rows'[i] = IF i = k THEN u ELSE qs[i]
  <2>1. CASE k = 0
    BY <1>1, <1>2, <1>3, <2>1 DEF Put
  <2>2. CASE k # 0
    BY <1>1, <1>2, <1>3, <2>2 DEF Put
  <2> QED BY <2>1, <2>2
<1>6. ASSUME NEW i \in DOMAIN rows PROVE KeepsPayments(rows[i], qs[i])
  <2>1. CASE i = j
    BY <1>1, <1>2, <2>1
  <2>2. CASE i # j
    BY <1>1, <1>2, <2>2, FlagsSame, SameKeeps
  <2> QED BY <2>1, <2>2
<1>7. ASSUME NEW i \in DOMAIN rows PROVE KeepsPayments(rows[i], rows'[i])
  <2>1. CASE i = k
    <3>1. rows[i] \in Row /\ qs[i] \in Row /\ rows'[i] = u /\ EventsKept(qs[i], u)
          /\ (rows[i].status # "pending" => u.item = rows[i].item)
      BY <1>1, <1>2, <1>4, <1>5, <2>1
    <3>2. EventsKept(rows[i], qs[i])
      BY <1>6 DEF KeepsPayments, EventsKept
    <3>3. EventsKept(rows[i], u)
      BY <3>1, <3>2, EventsKeptTransitive
    <3> QED BY <3>1, <3>3 DEF KeepsPayments, EventsKept
  <2>2. CASE i # k
    BY <1>5, <1>6, <2>2
  <2> QED BY <2>1, <2>2
<1> QED BY <1>7 DEF PaymentsStay

\* A lookup and a write: what is deleted has no payment, and the flight keeps a row.
LEMMA WrotePayments ==
    ASSUME Ledger(rows), NEW f \in Flights, NEW k, NEW t, FlightRow(t), Wrote(f, k, t),
           k # 0 => k \in DOMAIN rows /\ KeepsPayments(rows[k], t)
    PROVE  PaymentsStay
<1> SUFFICES ASSUME NEW i \in DOMAIN rows
             PROVE  KeepsPayments(rows[i], rows'[i]) \/ Deleted(i)
  BY DEF PaymentsStay
<1>1. rows[i] \in Row /\ RowOK(rows[i]) /\ (i = k => k # 0)
  BY LedgerFacts
<1>2. CASE i # k /\ rows'[i] = rows[i]
  BY <1>1, <1>2, FlagsSame, SameKeeps
<1>3. CASE i = k /\ rows'[i] = t
  BY <1>1, <1>3
<1>4. CASE rows'[i] = Gone /\ rows[i].flight = f /\ Ghost(IF i = k THEN t ELSE rows[i])
  <2>1. \E j \in DOMAIN rows' \ {i} : rows'[j].item = Whole /\ rows'[j].flight = f
    BY <1>4, GoneFacts DEF Wrote
  <2>2. CASE i = k
    <3>1. t.item = Whole /\ t.cash = 0 /\ t.wallet = 0 /\ KeepsPayments(rows[i], t)
      BY <1>1, <1>4, <2>2, GhostFacts DEF FlightRow
    <3>2. rows[i].item = Whole
      BY <1>1, <3>1 DEF KeepsPayments, RowOK, StatusExplained
    <3>3. /\ rows[i].cash \in Nat /\ rows[i].wallet \in Int /\ rows[i].wallet >= 0
          /\ rows[i].cash <= 0 /\ rows[i].wallet <= 0
      BY <1>1, <1>4, <3>1, NamesAssumption DEF KeepsPayments, RowOK, PaidExplained, Row
    <3>4. rows[i].cash = 0 /\ rows[i].wallet = 0
      BY <3>3
    <3> QED BY <1>4, <2>1, <3>2, <3>4 DEF Deleted
  <2>3. CASE i # k
    <3>1. rows[i].item = Whole /\ rows[i].cash = 0 /\ rows[i].wallet = 0
      BY <1>1, <1>4, <2>3, GhostFacts
    <3> QED BY <1>4, <2>1, <3>1 DEF Deleted
  <2> QED BY <2>2, <2>3
<1> QED BY <1>2, <1>3, <1>4 DEF Wrote
------------------------------------------------------------------------------
(* Handlers *)

\* POS books a cargo on its own row or on a pending one.
LEMMA TargetsItem ==
    ASSUME NEW c, NEW i \in TargetsOf(c), i # 0
    PROVE  i \in DOMAIN rows /\ (rows[i].status # "pending" => rows[i].item = c)
<1>1. i \in DOMAIN rows
  BY TargetsFacts
<1>2. CASE i \in OwnRow(c)
  BY <1>1, <1>2 DEF OwnRow, BestRows, RowsAt
<1>3. CASE i \notin OwnRow(c)
  BY <1>1, <1>3 DEF TargetsOf, PendingRow
<1> QED BY <1>2, <1>3

LEMMA SenderKeepsPayments ==
    ASSUME IInv, NEW f \in Flights, ReportSent(f) \/ ManuallySent(f)
    PROVE  PaymentsStay
<1>1. PICK k, t, bill :
        /\ bill \in Nat /\ Wrote(f, k, t) /\ FlightRow(t)
        /\ k # 0 => k \in DOMAIN rows /\ t = Extended(rows[k], bill) /\ bill > 0
  BY SenderWrites
<1>2. k # 0 => k \in DOMAIN rows /\ KeepsPayments(rows[k], t)
  <2>1. bill \in Int
    BY <1>1
  <2> QED BY <1>1, <2>1, MovedSame, SameKeeps, LedgerFacts, StateFacts
<1> QED BY <1>1, <1>2, WrotePayments, StateFacts

\* The bot overwrites a flight-level row as the flight-level row it was.
LEMMA WholeBookedKeeps ==
    ASSUME NEW t \in Row, NEW f, f = t.flight, t.status = "pending" \/ t.item = Whole,
           NEW bill \in Nat, NEW w \in Nat, NEW a \in Nat, NEW provider
    PROVE  KeepsPayments(t, Booked(t, f, Whole, bill, w, a, provider))
<1> DEFINE e == IF a > 0 THEN WithEvent(t, provider, a) ELSE t
           b == Booked(t, f, Whole, bill, w, a, provider)
<1>1. e \in Row /\ EventsKept(t, e)
  <2>1. WithEvent(t, provider, a) \in Row /\ EventsKept(t, WithEvent(t, provider, a))
    BY WithEventKeeps
  <2>2. EventsKept(t, t)
    BY FlagsSame, SameKeeps
  <2> QED BY <2>1, <2>2
<1>2. b = [e EXCEPT
        !.flight = f, !.item = Whole, !.summa = bill, !.paid = a, !.total = bill,
        !.remaining = PositivePart(bill - w - a), !.pbd = a - bill,
        !.status = IF bill - w - a <= 0 THEN "paid" ELSE "partial",
        !.allocated = 0, !.withdrawn = 0, !.covered = w, !.waived = 0,
        !.lost = t.cash]
  BY DEF Booked
<1> HIDE DEF e, b
<1>3. /\ b.flight = f /\ b.item = Whole
      /\ b.cash = e.cash /\ b.wallet = e.wallet /\ b.providers = e.providers
  BY <1>1, <1>2 DEF Row
<1>4. KeepsPayments(t, b)
  BY <1>1, <1>3 DEF EventsKept, KeepsPayments
<1> QED BY <1>4 DEF b

LEMMA ApproveAmountKeepsPayments ==
    ASSUME IInv, NEW adm \in Admins, NEW a \in Nat, ApproveAmount(adm, a)
    PROVE  PaymentsStay
<1> DEFINE f == prompt[adm].flight
<1>1. /\ f \in Flights
      /\ \/ UNCHANGED rows
         \/ \E k \in Found(f) : \E t : Approved(f, k, t, a) /\ Wrote(f, k, t) /\ FlightRow(t)
  BY ApproveAmountWrites
<1>2. CASE UNCHANGED rows
  BY <1>2, UnchangedPayments, StateFacts
<1>3. ASSUME NEW k \in Found(f), NEW t, Approved(f, k, t, a), Wrote(f, k, t), FlightRow(t)
      PROVE  PaymentsStay
  <2>1. k # 0 => /\ k \in DOMAIN rows /\ RowFor(rows, k, f) = rows[k] /\ rows[k] \in Row
                 /\ rows[k].flight = f /\ rows[k].item = Whole
    BY FoundFacts, LedgerFacts, StateFacts DEF RowFor
  <2>2. Bill[SentOn(f)] \in Nat /\ walletKey[f] \in Nat
    BY <1>1, BillFacts, StateFacts DEF SentOn, TypeOK
  <2>3. ASSUME k # 0 PROVE KeepsPayments(rows[k], t)
    <3>1. PICK p : \/ t = ToppedUp(rows[k], p, a)
                   \/ t = Booked(rows[k], f, Whole, Bill[SentOn(f)], walletKey[f], a, p)
      BY <1>3, <2>1, <2>3 DEF Approved
    <3> QED BY <2>1, <2>2, <2>3, <3>1, ToppedUpKeeps, WholeBookedKeeps
  <2> QED BY <1>1, <1>3, <2>1, <2>3, WrotePayments, StateFacts
<1> QED BY <1>1, <1>2, <1>3

\* A top-up of a row, in the two forms the dialogues write it.
LEMMA TopUpWriteKeepsPayments ==
    ASSUME IInv, NEW i \in DOMAIN rows, rows[i].flight \in Flights,
           NEW a \in Nat, a > 0, NEW provider,
           NEW t, t = ToppedUp(rows[i], provider, a),
           \/ rows' = [rows EXCEPT ![i] = t]
           \/ rows' = [rows EXCEPT ![i] = IF t.remaining = 0 THEN Taken(t) ELSE t]
    PROVE  PaymentsStay
<1>1. rows[i] \in Row /\ t \in Row
  BY StateFacts, LedgerFacts, ToppedUpOK DEF FlightRow
<1>2. KeepsPayments(rows[i], t)
  BY <1>1, ToppedUpKeeps
<1>3. KeepsPayments(rows[i], Taken(t))
  <2>1. SamePayments(t, Taken(t))
    BY <1>1, FlagsSame
  <2> QED BY <1>2, <2>1 DEF SamePayments, KeepsPayments
<1> QED BY <1>2, <1>3, UpdatePayments, StateFacts

\* A stale cash dialogue overwrites a row only while that row is pending.
LEMMA CashAmountKeepsPayments ==
    ASSUME IInv, NEW adm \in Admins, NEW a \in Nat, CashAmount(adm, a)
    PROVE  PaymentsStay
<1> DEFINE f == prompt[adm].flight
<1>1. /\ f \in Flights /\ a > 0
      /\ \/ UNCHANGED rows
         \/ \E i : CashedPartial(i, a)
         \/ \E k, t : /\ Cashed(f, k, t, a) /\ Wrote(f, k, t) /\ FlightRow(t)
                      /\ k # 0 => k \in DOMAIN rows /\ rows[k].flight = f
  BY CashAmountWrites
<1>2. CASE UNCHANGED rows
  BY <1>2, UnchangedPayments, StateFacts
<1>3. ASSUME NEW i, CashedPartial(i, a) PROVE PaymentsStay
  BY <1>1, <1>3, TopUpWriteKeepsPayments DEF CashedPartial
<1>4. ASSUME NEW k, NEW t, Cashed(f, k, t, a), Wrote(f, k, t), FlightRow(t),
             k # 0 => k \in DOMAIN rows /\ rows[k].flight = f
      PROVE  PaymentsStay
  <2>1. Bill[SentOn(f)] \in Nat /\ walletKey[f] \in Nat
    BY <1>1, BillFacts, StateFacts DEF SentOn, TypeOK
  <2>2. ASSUME k # 0 PROVE KeepsPayments(rows[k], t)
    <3> DEFINE b == Booked(rows[k], f, Whole, Bill[SentOn(f)], walletKey[f], a, "cash")
    <3>1. /\ rows[k] \in Row /\ FlightRow(rows[k]) /\ f = rows[k].flight
          /\ rows[k].status = "pending" /\ t = Taken(b)
      BY <1>1, <1>4, <2>2, LedgerFacts, StateFacts DEF Cashed, RowFor
    <3>2. KeepsPayments(rows[k], b)
      BY <1>1, <2>1, <3>1, WholeBookedKeeps
    <3>3. b \in Row
      BY <1>1, <2>1, <3>1, WholeBookedOK DEF FlightRow
    <3> HIDE DEF b
    <3>4. SamePayments(b, t)
      BY <3>1, <3>3, FlagsSame
    <3> QED BY <3>2, <3>4 DEF SamePayments, KeepsPayments
  <2> QED BY <1>1, <1>4, <2>2, WrotePayments, StateFacts
<1> QED BY <1>1, <1>2, <1>3, <1>4

LEMMA VerificationKeepsPayments ==
    ASSUME IInv, NEW adm \in Admins, NEW a \in Nat,
           AccountAmount(adm, a) \/ VerifyAmount(adm, a) \/ UnpaidAmount(adm, a)
    PROVE  PaymentsStay
<1>1. ASSUME AccountAmount(adm, a) PROVE PaymentsStay
  <2>1. /\ prompt[adm].tx \in DOMAIN rows /\ a > 0
        /\ rows[prompt[adm].tx] = Gone \/ rows[prompt[adm].tx].flight \in Flights
    BY <1>1 DEF AccountAmount, IInv, TypeOK, PromptsPoint, Points
  <2>2. CASE UNCHANGED rows
    BY <2>2, UnchangedPayments, StateFacts
  <2>3. CASE rows' # rows
    BY <1>1, <2>1, <2>3, TopUpWriteKeepsPayments DEF AccountAmount
  <2> QED BY <2>2, <2>3
<1>2. ASSUME VerifyAmount(adm, a) PROVE PaymentsStay
  <2>1. /\ prompt[adm].tx \in DOMAIN rows /\ a > 0
        /\ rows[prompt[adm].tx] = Gone \/ rows[prompt[adm].tx].flight \in Flights
    BY <1>2 DEF VerifyAmount, IInv, TypeOK, PromptsPoint, Points
  <2>2. CASE UNCHANGED rows
    BY <2>2, UnchangedPayments, StateFacts
  <2>3. CASE rows' # rows
    BY <1>2, <2>1, <2>3, TopUpWriteKeepsPayments DEF VerifyAmount
  <2> QED BY <2>2, <2>3
<1>3. ASSUME UnpaidAmount(adm, a) PROVE PaymentsStay
  <2>1. PICK t : rows' = Append(rows, t)
    BY <1>3 DEF UnpaidAmount
  <2> QED BY <2>1, AppendPayments, StateFacts
<1> QED BY <1>1, <1>2, <1>3

\* A POS write on the rows rs of an open transaction.
LEMMA SettlementKeeps ==
    ASSUME NEW rs, Ledger(rs), NEW c \in Cargos, NEW type, NEW a \in Nat, NEW i,
           i # 0 => i \in DOMAIN rs /\ rs[i].flight = FlightOf[c],
           NEW w \in UsableCredit(rs, Basis(RowFor(rs, i, FlightOf[c]), Bill[{c}]))
    PROVE  LET s == Settled(RowFor(rs, i, FlightOf[c]), c, Bill[{c}], w, a, type)
           IN  s \in Row /\ s.item = c /\ (i # 0 => EventsKept(rs[i], s))
<1> DEFINE t == RowFor(rs, i, FlightOf[c])
<1>1. FlightOf[c] \in Flights /\ Bill[{c}] \in Nat
  BY BillFacts
<1>2. FlightRow(t) /\ (i # 0 => t = rs[i])
  BY <1>1, RowForOK DEF RowFor
<1>3. w \in Nat
  BY <1>1, <1>2, BasisFacts, CreditFacts DEF FlightRow
<1> HIDE DEF t
<1>4. LET s == Settled(t, c, Bill[{c}], w, a, type)
      IN  s \in Row /\ EventsKept(t, s) /\ s.item = c
  BY <1>1, <1>2, <1>3, SettledKeeps
<1> QED BY <1>2, <1>4 DEF t

LEMMA PosPayKeepsPayments ==
    ASSUME IInv, NEW c \in Cargos, NEW type \in Types, NEW a \in Nat, PosPay(c, type, a)
    PROVE  PaymentsStay
<1>1. PICK i \in TargetsOf(c) :
        \E w \in UsableCredit(rows, Basis(RowFor(rows, i, FlightOf[c]), Bill[{c}])) :
          rows' = Put(rows, i, Settled(RowFor(rows, i, FlightOf[c]), c, Bill[{c}], w, a, type))
  BY DEF PosPay
<1>2. PICK w \in UsableCredit(rows, Basis(RowFor(rows, i, FlightOf[c]), Bill[{c}])) :
        rows' = Put(rows, i, Settled(RowFor(rows, i, FlightOf[c]), c, Bill[{c}], w, a, type))
  BY <1>1
<1> DEFINE s == Settled(RowFor(rows, i, FlightOf[c]), c, Bill[{c}], w, a, type)
<1>3. s \in Row /\ s.item = c /\ (i # 0 => EventsKept(rows[i], s))
  BY SettlementKeeps, TargetsFacts, StateFacts
<1>4. rows' = Put(rows, i, s)
  BY <1>2
<1> HIDE DEF s
<1>5. i # 0 => i \in DOMAIN rows /\ KeepsPayments(rows[i], s)
  BY <1>3, TargetsItem DEF EventsKept, KeepsPayments
<1> QED BY <1>4, <1>5, PutPayments, StateFacts

\* Two items may be booked on one pending row, the second over the first; what
\* the row held before the batch stays.
LEMMA PosBulkKeepsPayments ==
    ASSUME IInv, NEW c1 \in Cargos, NEW type1 \in Types, NEW a1 \in Nat,
           PosBulk(c1, type1, a1)
    PROVE  PaymentsStay
<1>1. PICK i1 \in TargetsOf(c1) :
        \E rs \in BulkWrites(rows, i1, c1, type1, a1) :
          \/ rows' = rs
          \/ \E c2 \in Cargos, type2 \in Types, a2 \in 0..purse :
               \E i2 \in TargetsOf(c2) : rows' \in BulkWrites(rs, i2, c2, type2, a2)
  BY DEF PosBulk
<1>2. PICK rs \in BulkWrites(rows, i1, c1, type1, a1) :
          \/ rows' = rs
          \/ \E c2 \in Cargos, type2 \in Types, a2 \in 0..purse :
               \E i2 \in TargetsOf(c2) : rows' \in BulkWrites(rs, i2, c2, type2, a2)
  BY <1>1
<1>3. PICK w1 \in UsableCredit(rows, Basis(RowFor(rows, i1, FlightOf[c1]), Bill[{c1}])) :
        rs = Put(rows, i1, Settled(RowFor(rows, i1, FlightOf[c1]), c1, Bill[{c1}], w1, a1, type1))
  BY DEF BulkWrites
<1> DEFINE t1 == Settled(RowFor(rows, i1, FlightOf[c1]), c1, Bill[{c1}], w1, a1, type1)
<1>4. t1 \in Row /\ t1.item = c1 /\ (i1 # 0 => EventsKept(rows[i1], t1))
  BY SettlementKeeps, TargetsFacts, StateFacts
<1>5. rs = Put(rows, i1, t1)
  BY <1>3
<1>6. Ledger(rs) /\ Grows(rows, rs) /\ SameFlights(rows, rs)
  BY SettlementOK, TargetsFacts, StateFacts, <1>3
<1> HIDE DEF t1
<1>7. i1 # 0 => i1 \in DOMAIN rows /\ KeepsPayments(rows[i1], t1)
  BY <1>4, TargetsItem DEF EventsKept, KeepsPayments
<1>8. CASE rows' = rs
  BY <1>5, <1>7, <1>8, PutPayments, StateFacts
<1>9. ASSUME NEW c2 \in Cargos, NEW type2 \in Types, NEW a2 \in 0..purse,
             NEW i2 \in TargetsOf(c2), rows' \in BulkWrites(rs, i2, c2, type2, a2)
      PROVE  PaymentsStay
  <2>1. PICK w2 \in UsableCredit(rs, Basis(RowFor(rs, i2, FlightOf[c2]), Bill[{c2}])) :
          rows' = Put(rs, i2, Settled(RowFor(rs, i2, FlightOf[c2]), c2, Bill[{c2}], w2, a2, type2))
    BY <1>9 DEF BulkWrites
  <2> DEFINE t2 == Settled(RowFor(rs, i2, FlightOf[c2]), c2, Bill[{c2}], w2, a2, type2)
  <2>2. i2 # 0 => i2 \in DOMAIN rs /\ rs[i2].flight = FlightOf[c2]
    BY <1>6, TargetsFacts DEF Grows, SameFlights
  <2>3. a2 \in Nat
    BY StateFacts
  <2>4. t2 \in Row /\ t2.item = c2 /\ (i2 # 0 => EventsKept(rs[i2], t2))
    BY <1>6, <2>2, <2>3, SettlementKeeps
  <2>5. rows' = Put(rs, i2, t2)
    BY <2>1
  <2> HIDE DEF t2
  <2>6. i2 # 0 => i2 \in DOMAIN rows /\ (rows[i2].status # "pending" => t2.item = rows[i2].item)
    BY <2>4, TargetsItem
  <2> QED BY <1>4, <1>5, <1>7, <2>4, <2>5, <2>6, PutTwicePayments, StateFacts
<1> QED BY <1>2, <1>8, <1>9

LEMMA PosExistingKeepsPayments ==
    ASSUME IInv, NEW i \in DOMAIN rows, NEW type \in Types, NEW a \in Nat,
           PosExisting(i, type, a)
    PROVE  PaymentsStay
<1>1. FlightRow(rows[i]) /\ a > 0
  BY StateFacts, LedgerFacts DEF PosExisting
<1>2. PICK w : rows' = [rows EXCEPT ![i] = ExistingPaid(rows[i], w, a, type)]
  BY DEF PosExisting
<1>3. KeepsPayments(rows[i], ExistingPaid(rows[i], w, a, type))
  BY <1>1, ExistingPaidKeeps
<1> QED BY <1>2, <1>3, UpdatePayments, StateFacts

LEMMA FlagsKeepPayments ==
    ASSUME IInv, NEW i \in DOMAIN rows, MarkTransactionTaken(i) \/ UpdateTakenStatus(i)
    PROVE  PaymentsStay
<1>1. rows[i] \in Row
  BY StateFacts, LedgerFacts
<1>2. KeepsPayments(rows[i], ForceTaken(rows[i]))
      /\ KeepsPayments(rows[i], [rows[i] EXCEPT !.taken = ~rows[i].taken])
  BY <1>1, FlagsSame, SameKeeps
<1>3. \/ rows' = [rows EXCEPT ![i] = ForceTaken(rows[i])]
      \/ rows' = [rows EXCEPT ![i] = [rows[i] EXCEPT !.taken = ~rows[i].taken]]
  BY DEF MarkTransactionTaken, UpdateTakenStatus
<1> QED BY <1>2, <1>3, UpdatePayments, StateFacts

LEMMA WalletDeskKeepsPayments ==
    ASSUME IInv, NEW a \in Nat, ApplyPayment(a) \/ Refund(a)
    PROVE  PaymentsStay
<1>1. \A i \in DOMAIN rows : rows[i] \in Row
  BY StateFacts, LedgerFacts
<1>2. ASSUME ApplyPayment(a) PROVE PaymentsStay
  <2> DEFINE debt == [i \in DOMAIN rows |-> PositivePart(-rows[i].pbd)]
             isLast(i) == debt[i] > 0 /\ \A j \in DOMAIN rows : debt[j] > 0 => j <= i
             part(share, left, i) == share[i] + IF isLast(i) THEN left ELSE 0
  <2>1. PICK share \in Fifo(a, debt), left \in 0..a :
          rows' = [i \in DOMAIN rows |-> Allocated(rows[i], part(share, left, i))]
    BY <1>2 DEF ApplyPayment
  <2> HIDE DEF isLast
  <2>2. \A i \in DOMAIN rows : part(share, left, i) \in Int
    BY DEF Fifo
  <2> HIDE DEF part
  <2>3. ASSUME NEW i \in DOMAIN rows PROVE KeepsPayments(rows[i], rows'[i])
    <3>1. rows'[i] = Allocated(rows[i], part(share, left, i))
      BY <2>1
    <3> QED BY <1>1, <2>2, <3>1, MovedSame, SameKeeps
  <2> QED BY <2>3 DEF PaymentsStay
<1>3. ASSUME Refund(a) PROVE PaymentsStay
  <2>1. PICK share \in Fifo(a, [i \in DOMAIN rows |-> PositivePart(rows[i].pbd)]) :
          rows' = [i \in DOMAIN rows |-> Withdrawn(rows[i], share[i])]
    BY <1>3 DEF Refund
  <2>2. \A i \in DOMAIN rows : share[i] \in Int /\ rows'[i] = Withdrawn(rows[i], share[i])
    BY <2>1 DEF Fifo
  <2>3. ASSUME NEW i \in DOMAIN rows PROVE KeepsPayments(rows[i], rows'[i])
    BY <1>1, <2>2, MovedSame, SameKeeps
  <2> QED BY <2>3 DEF PaymentsStay
<1> QED BY <1>2, <1>3

LEMMA DeliverKeepsPayments ==
    ASSUME IInv, NEW flights \in SUBSET Flights, NEW first \in Flights, NEW fee \in Nat,
           Deliver(first, flights, fee)
    PROVE  PaymentsStay
<1>1. ASSUME NEW j \in DOMAIN rows PROVE KeepsPayments(rows[j], rows'[j]) \/ Deleted(j)
  <2>1. rows[j] \in Row /\ RowOK(rows[j]) /\ fee \in Int
    BY StateFacts, LedgerFacts
  <2>2. ASSUME ~Deleted(j) PROVE KeepsPayments(rows[j], rows'[j])
    <3>1. PICK r \in {rows[j], Withdrawn(rows[j], fee)} : rows'[j] \in {r, Taken(r)}
      BY <2>2, DeliverWrites
    <3>2. r \in Row /\ SamePayments(rows[j], r)
      <4>1. /\ Withdrawn(rows[j], fee) \in Row
            /\ SamePayments(rows[j], Withdrawn(rows[j], fee)) /\ SamePayments(rows[j], rows[j])
        BY <2>1, WithdrawnOK, MovedSame, FlagsSame
      <4> QED BY <2>1, <3>1, <4>1
    <3>3. SamePayments(rows[j], rows'[j])
      BY <3>1, <3>2, FlagsSame DEF SamePayments
    <3> QED BY <2>1, <3>3, SameKeeps
  <2> QED BY <2>2
<1> QED BY <1>1 DEF PaymentsStay
------------------------------------------------------------------------------
(* The theorem *)

LEMMA NextKeepsPayments == IInv /\ [Next]_vars => PaymentsStay
<1> SUFFICES ASSUME IInv, [Next]_vars PROVE PaymentsStay
  OBVIOUS
<1>0. Amounts \subseteq Nat
  BY LedgerAssumption DEF Amounts
<1>1. CASE \/ UNCHANGED vars
           \/ \E f \in Flights, mode \in Modes, w \in Amounts : Submit(f, mode, w)
           \/ \E f \in Flights, k \in {"online", "cash"} : Reject(f, k)
           \/ \E adm \in Admins, f \in Flights : ApprovePrompt(adm, f) \/ CashPrompt(adm, f)
           \/ \E adm \in Admins, i \in DOMAIN rows, p \in Providers : AccountPrompt(adm, i, p)
           \/ \E adm \in Admins, i \in DOMAIN rows : VerifyPrompt(adm, i)
           \/ \E adm \in Admins, c \in Cargos, type \in Types : UnpaidPrompt(adm, c, type)
           \/ \E adm \in Admins : Cancel(adm)
  <2>1. UNCHANGED rows
    BY <1>1 DEF vars, Submit, Reject, ApprovePrompt, CashPrompt, AccountPrompt,
                VerifyPrompt, UnpaidPrompt, Cancel
  <2> QED BY <2>1, UnchangedPayments, StateFacts
<1>2. CASE \E f \in Flights : ReportSent(f) \/ ManuallySent(f)
  BY <1>2, SenderKeepsPayments
<1>3. CASE \E adm \in Admins, a \in Amounts :
             \/ ApproveAmount(adm, a) \/ CashAmount(adm, a)
             \/ AccountAmount(adm, a) \/ VerifyAmount(adm, a) \/ UnpaidAmount(adm, a)
  BY <1>0, <1>3, ApproveAmountKeepsPayments, CashAmountKeepsPayments,
     VerificationKeepsPayments
<1>4. CASE \E c \in Cargos, type \in Types, a \in Amounts :
             PosPay(c, type, a) \/ PosBulk(c, type, a)
  BY <1>0, <1>4, PosPayKeepsPayments, PosBulkKeepsPayments
<1>5. CASE \/ \E i \in DOMAIN rows, type \in Types, a \in Amounts : PosExisting(i, type, a)
           \/ \E i \in DOMAIN rows : MarkTransactionTaken(i) \/ UpdateTakenStatus(i)
  BY <1>0, <1>5, PosExistingKeepsPayments, FlagsKeepPayments
<1>6. CASE \E a \in -Purse..Purse : AdjustBalance(a)
  <2>1. PICK t : rows' = Append(rows, t)
    BY <1>6 DEF AdjustBalance
  <2> QED BY <2>1, AppendPayments, StateFacts
<1>7. CASE \/ \E a \in Amounts : ApplyPayment(a) \/ Refund(a)
           \/ \E flights \in SUBSET Flights, first \in Flights, fee \in Amounts :
                Deliver(first, flights, fee)
  BY <1>0, <1>7, WalletDeskKeepsPayments, DeliverKeepsPayments
<1> QED BY <1>1, <1>2, <1>3, <1>4, <1>5, <1>6, <1>7 DEF Next

\* No handler, in any order of dialogues and POS requests, removes a payment event
\* of a row, moves the row to another flight, or books another cargo on it once it
\* has left "pending"; and none deletes a row, but the lookup, which deletes only
\* flight-level rows no event refers to, beside another row of the flight.
THEOREM PaymentsAlwaysKept == Spec => PaymentsKept
<1>1. IInv /\ [Next]_vars =>
        [/\ DOMAIN rows \subseteq DOMAIN rows'
         /\ \A i \in DOMAIN rows :
              \/ KeepsPayments(rows[i], rows'[i])
              \/ /\ rows'[i] = Gone
                 /\ rows[i].item = Whole /\ rows[i].cash = 0 /\ rows[i].wallet = 0
                 /\ \E j \in DOMAIN rows' \ {i} :
                      rows'[j].item = Whole /\ rows'[j].flight = rows[i].flight]_vars
  BY NextKeepsPayments, NextOK DEF PaymentsStay, Deleted, Grows
<1> QED BY <1>1, Inductive, PTL DEF Spec, PaymentsKept
------------------------------------------------------------------------------
(* Flight-level rows *)

\* A handler inserts one flight-level row at most, for a flight that has none or
\* out of such a dialogue.
AddsWhole ==
    \A k \in DOMAIN rows' \ DOMAIN rows :
      rows'[k].item = Whole /\ rows'[k].flight \in Flights
      => k = Len(rows) + 1 /\ (FlightRows(rows'[k].flight) = {} \/ LateCash(rows'[k].flight))

\* No row becomes a flight-level row: what is rebooked was pending, and pending
\* rows are flight-level rows already.
LEMMA OldWholes ==
    ASSUME IInv, PaymentsStay, NEW f \in Flights, NEW i \in DOMAIN rows,
           rows'[i].flight = f, rows'[i].item = Whole
    PROVE  i \in FlightRows(f)
<1>1. KeepsPayments(rows[i], rows'[i]) /\ RowOK(rows[i])
  BY LedgerFacts, StateFacts, GoneFacts DEF PaymentsStay, Deleted
<1>2. rows[i].flight = f
  BY <1>1 DEF KeepsPayments
<1>3. rows[i].item = Whole
  BY <1>1 DEF KeepsPayments, RowOK, StatusExplained
<1> QED BY <1>2, <1>3 DEF FlightRows, RowsAt

LEMMA SecondRow ==
    ASSUME IInv, PaymentsStay, AddsWhole, NEW f \in Flights, OneRowOf(f), ~OneRowOf(f)'
    PROVE  LateCash(f)
<1>1. PICK i \in DOMAIN rows', j \in DOMAIN rows' :
        /\ i # j
        /\ rows'[i].flight = f /\ rows'[i].item = Whole
        /\ rows'[j].flight = f /\ rows'[j].item = Whole
  BY DEF OneRowOf, FlightRows, RowsAt
<1>2. CASE i \in DOMAIN rows /\ j \in DOMAIN rows
  <2>1. i \in FlightRows(f) /\ j \in FlightRows(f)
    BY <1>1, <1>2, OldWholes
  <2> QED BY <1>1, <2>1 DEF OneRowOf
<1>3. CASE i \in DOMAIN rows /\ j \notin DOMAIN rows
  <2>1. i \in FlightRows(f)
    BY <1>1, <1>3, OldWholes
  <2> QED BY <1>1, <1>3, <2>1 DEF AddsWhole
<1>4. CASE i \notin DOMAIN rows /\ j \in DOMAIN rows
  <2>1. j \in FlightRows(f)
    BY <1>1, <1>4, OldWholes
  <2> QED BY <1>1, <1>4, <2>1 DEF AddsWhole
<1>5. CASE i \notin DOMAIN rows /\ j \notin DOMAIN rows
  BY <1>1, <1>5 DEF AddsWhole
<1> QED BY <1>2, <1>3, <1>4, <1>5

\* A handler that rewrites rows in place inserts none.
LEMMA InPlaceWhole == ASSUME DOMAIN rows' = DOMAIN rows PROVE AddsWhole
BY DEF AddsWhole

LEMMA PutWhole ==
    ASSUME Ledger(rows), NEW k, k # 0 => k \in DOMAIN rows,
           NEW t, rows' = Put(rows, k, t),
           k = 0 /\ t.item = Whole /\ t.flight \in Flights
             => FlightRows(t.flight) = {} \/ LateCash(t.flight)
    PROVE  AddsWhole
<1>1. CASE k = 0
  <2>1. rows \in Seq(Row) /\ Len(rows) \in Nat /\ DOMAIN rows = 1 .. Len(rows)
    BY LedgerFacts DEF Ledger
  <2>2. rows' = Append(rows, t)
    BY <1>1 DEF Put
  <2>3. DOMAIN rows' = 1 .. Len(rows) + 1 /\ rows'[Len(rows) + 1] = t
    BY <2>1, <2>2
  <2>4. \A i \in DOMAIN rows' \ DOMAIN rows : i = Len(rows) + 1
    BY <2>1, <2>3
  <2> QED BY <1>1, <2>3, <2>4 DEF AddsWhole
<1>2. CASE k # 0
  <2>1. DOMAIN rows' = DOMAIN rows
    BY <1>2 DEF Put
  <2> QED BY <2>1, InPlaceWhole
<1> QED BY <1>1, <1>2

\* A lookup and a write.
LEMMA WroteWhole ==
    ASSUME NEW f, NEW k, NEW t, Wrote(f, k, t),
           k = 0 /\ t.item = Whole /\ t.flight \in Flights
             => FlightRows(t.flight) = {} \/ LateCash(t.flight)
    PROVE  AddsWhole
<1> SUFFICES ASSUME NEW i \in DOMAIN rows' \ DOMAIN rows,
                    rows'[i].item = Whole, rows'[i].flight \in Flights
             PROVE  /\ i = Len(rows) + 1
                    /\ FlightRows(rows'[i].flight) = {} \/ LateCash(rows'[i].flight)
  BY DEF AddsWhole
<1>1. k = 0 /\ i = Len(rows) + 1 /\ rows'[i] = t
  BY GoneFacts DEF Wrote
<1> QED BY <1>1

LEMMA AppendWhole ==
    ASSUME Ledger(rows), NEW t, rows' = Append(rows, t),
           t.item = Whole /\ t.flight \in Flights
             => FlightRows(t.flight) = {} \/ LateCash(t.flight)
    PROVE  AddsWhole
BY PutWhole DEF Put

LEMMA SenderAddsWhole ==
    ASSUME IInv, NEW f \in Flights, ReportSent(f) \/ ManuallySent(f)
    PROVE  AddsWhole
<1>1. PICK k, t, bill :
        /\ bill \in Nat /\ Wrote(f, k, t)
        /\ k = 0 => /\ t = PendingDebt(f, bill)
                    /\ FlightRows(f) = {} \/ DOMAIN rows' = DOMAIN rows
  BY SenderWrites
<1>2. CASE DOMAIN rows' = DOMAIN rows
  BY <1>2, InPlaceWhole
<1>3. CASE DOMAIN rows' # DOMAIN rows
  <2>1. k = 0 => FlightRows(f) = {} /\ t.flight = f
    BY <1>1, <1>3, PendingDebtOK
  <2> QED BY <1>1, <2>1, WroteWhole
<1> QED BY <1>2, <1>3

\* The approval inserts a row for a flight that has none.
LEMMA ApproveAmountAddsWhole ==
    ASSUME IInv, NEW adm \in Admins, NEW a \in Nat, ApproveAmount(adm, a)
    PROVE  AddsWhole
<1> DEFINE f == prompt[adm].flight
<1>1. /\ f \in Flights
      /\ \/ UNCHANGED rows
         \/ \E k \in Found(f) : \E t : Approved(f, k, t, a) /\ Wrote(f, k, t) /\ FlightRow(t)
  BY ApproveAmountWrites
<1>2. CASE UNCHANGED rows
  BY <1>2, InPlaceWhole
<1>3. ASSUME NEW k \in Found(f), NEW t, Approved(f, k, t, a), Wrote(f, k, t)
      PROVE  AddsWhole
  <2>1. ASSUME k = 0 PROVE FlightRows(f) = {} /\ t.flight = f
    <3>1. FlightRows(f) = {}
      <4>1. 0 \notin DOMAIN rows
        BY LedgerFacts, StateFacts
      <4> QED BY <2>1, <4>1 DEF Found, FlightRows, RowsAt, RealRows
    <3>2. FlightRow(PendingDebt(f, 0)) /\ PendingDebt(f, 0).status = "pending"
      BY <1>1, PendingDebtOK DEF PendingDebt
    <3>3. PICK p : t = Booked(PendingDebt(f, 0), f, Whole, Bill[SentOn(f)], walletKey[f], a, p)
      BY <1>3, <2>1, <3>2 DEF Approved, RowFor
    <3>4. Bill[SentOn(f)] \in Nat /\ walletKey[f] \in Nat
      BY <1>1, StateFacts, BillFacts DEF SentOn, TypeOK
    <3> QED BY <1>1, <3>1, <3>2, <3>3, <3>4, WholeBookedOK
  <2> QED BY <1>3, <2>1, WroteWhole
<1> QED BY <1>1, <1>2, <1>3

\* The cash dialogue inserts one when it finds none, or a partial one it does not
\* know as such.
LEMMA CashAmountAddsWhole ==
    ASSUME IInv, NEW adm \in Admins, NEW a \in Nat, CashAmount(adm, a)
    PROVE  AddsWhole
<1> DEFINE f == prompt[adm].flight
<1>1. /\ f \in Flights
      /\ \/ UNCHANGED rows
         \/ \E i : CashedPartial(i, a)
         \/ \E k, t : /\ Cashed(f, k, t, a) /\ Wrote(f, k, t)
                      /\ k = 0 => FlightRows(f) = {} \/ LateCash(f)
  BY CashAmountWrites
<1>2. CASE UNCHANGED rows \/ \E i : CashedPartial(i, a)
  <2>1. DOMAIN rows' = DOMAIN rows
    BY <1>2 DEF CashedPartial
  <2> QED BY <2>1, InPlaceWhole
<1>3. ASSUME NEW k, NEW t, Cashed(f, k, t, a), Wrote(f, k, t),
             k = 0 => FlightRows(f) = {} \/ LateCash(f)
      PROVE  AddsWhole
  <2>1. ASSUME k = 0 PROVE t.flight = f
    <3> DEFINE b == Booked(PendingDebt(f, 0), f, Whole, Bill[SentOn(f)], walletKey[f], a, "cash")
    <3>1. FlightRow(PendingDebt(f, 0))
      BY <1>1, PendingDebtOK
    <3>2. Bill[SentOn(f)] \in Nat /\ walletKey[f] \in Nat
      BY <1>1, StateFacts, BillFacts DEF SentOn, TypeOK
    <3>3. FlightRow(b) /\ b.flight = f
      BY <1>1, <3>1, <3>2, WholeBookedOK
    <3>4. t = Taken(b)
      BY <1>3, <2>1 DEF Cashed, RowFor
    <3> HIDE DEF b
    <3> QED BY <3>3, <3>4, TakenOK DEF FlightRow
  <2> QED BY <1>3, <2>1, WroteWhole
<1> QED BY <1>1, <1>2, <1>3

\* The unpaid-cargo dialogue inserts a row of the cargo.
LEMMA UnpaidAmountAddsWhole ==
    ASSUME IInv, NEW adm \in Admins, NEW a \in Nat, UnpaidAmount(adm, a)
    PROVE  AddsWhole
<1> DEFINE p == prompt[adm]
           f == FlightOf[p.cargo]
           d == PendingDebt(f, 0)
           t == Booked(d, f, p.cargo, BotPrice[p.cargo], 0, a, p.type)
<1>1. p.cargo \in Cargos /\ f \in Flights /\ BotPrice[p.cargo] \in Nat
  BY StateFacts, DialogueFacts, BillFacts DEF UnpaidAmount
<1>2. rows' = Append(rows, IF p.type = "cash" THEN Taken(t) ELSE t)
  BY DEF UnpaidAmount
<1>3. p.cargo # Whole
  BY <1>1, NamesAssumption
<1> HIDE DEF p, f
<1>4. d \in Row /\ d.flight = f
  BY <1>1, PendingDebtOK DEF FlightRow
<1> HIDE DEF d, t
<1>5. t.item = p.cargo
  <2>1. (IF a > 0 THEN WithEvent(d, p.type, a) ELSE d) \in Row
    BY <1>4, WithEventIsRow
  <2> QED BY <2>1 DEF t, Booked, Row
<1>6. Taken(t).item = t.item
  BY DEF Taken, Booked, t
<1>7. (IF p.type = "cash" THEN Taken(t) ELSE t).item # Whole
  BY <1>3, <1>5, <1>6
<1> QED BY <1>2, <1>7, AppendWhole, StateFacts

\* A POS write of a cargo, on the rows rs of an open transaction.
LEMMA BulkRow ==
    ASSUME NEW rs, Ledger(rs), NEW c \in Cargos, NEW type, NEW a \in Nat, NEW i,
           i # 0 => i \in DOMAIN rs /\ rs[i].flight = FlightOf[c],
           NEW qs \in BulkWrites(rs, i, c, type, a)
    PROVE  \E t \in Row : t.item # Whole /\ qs = Put(rs, i, t)
<1>1. PICK w \in UsableCredit(rs, Basis(RowFor(rs, i, FlightOf[c]), Bill[{c}])) :
        qs = Put(rs, i, Settled(RowFor(rs, i, FlightOf[c]), c, Bill[{c}], w, a, type))
  BY DEF BulkWrites
<1> DEFINE s == Settled(RowFor(rs, i, FlightOf[c]), c, Bill[{c}], w, a, type)
<1>2. s \in Row /\ s.item = c /\ (i # 0 => EventsKept(rs[i], s))
  BY SettlementKeeps
<1>3. qs = Put(rs, i, s)
  BY <1>1
<1> HIDE DEF s
<1> QED BY <1>2, <1>3, NamesAssumption

LEMMA PosPayAddsWhole ==
    ASSUME IInv, NEW c \in Cargos, NEW type \in Types, NEW a \in Nat, PosPay(c, type, a)
    PROVE  AddsWhole
<1>1. PICK i \in TargetsOf(c) :
        \E w \in UsableCredit(rows, Basis(RowFor(rows, i, FlightOf[c]), Bill[{c}])) :
          rows' = Put(rows, i, Settled(RowFor(rows, i, FlightOf[c]), c, Bill[{c}], w, a, type))
  BY DEF PosPay
<1>2. PICK w \in UsableCredit(rows, Basis(RowFor(rows, i, FlightOf[c]), Bill[{c}])) :
        rows' = Put(rows, i, Settled(RowFor(rows, i, FlightOf[c]), c, Bill[{c}], w, a, type))
  BY <1>1
<1> DEFINE s == Settled(RowFor(rows, i, FlightOf[c]), c, Bill[{c}], w, a, type)
<1>3. s \in Row /\ s.item = c /\ (i # 0 => EventsKept(rows[i], s))
  BY SettlementKeeps, TargetsFacts, StateFacts
<1>4. rows' = Put(rows, i, s) /\ (i # 0 => i \in DOMAIN rows)
  BY <1>2, TargetsFacts
<1> HIDE DEF s
<1>5. s.item # Whole
  BY <1>3, NamesAssumption
<1> QED BY <1>4, <1>5, PutWhole, StateFacts

\* The second item does not write to the row the first one inserted.
LEMMA PosBulkAddsWhole ==
    ASSUME IInv, NEW c1 \in Cargos, NEW type1 \in Types, NEW a1 \in Nat,
           PosBulk(c1, type1, a1)
    PROVE  AddsWhole
<1>1. PICK i1 \in TargetsOf(c1) :
        \E rs \in BulkWrites(rows, i1, c1, type1, a1) :
          \/ rows' = rs
          \/ \E c2 \in Cargos, type2 \in Types, a2 \in 0..purse :
               \E i2 \in TargetsOf(c2) : rows' \in BulkWrites(rs, i2, c2, type2, a2)
  BY DEF PosBulk
<1>2. PICK rs \in BulkWrites(rows, i1, c1, type1, a1) :
          \/ rows' = rs
          \/ \E c2 \in Cargos, type2 \in Types, a2 \in 0..purse :
               \E i2 \in TargetsOf(c2) : rows' \in BulkWrites(rs, i2, c2, type2, a2)
  BY <1>1
<1>3. Ledger(rs) /\ Grows(rows, rs) /\ SameFlights(rows, rs)
  BY TargetsFacts, BulkWritesOK, StateFacts
<1>4. PICK t \in Row : t.item # Whole /\ rs = Put(rows, i1, t)
  BY TargetsFacts, BulkRow, StateFacts
<1>5. /\ rows \in Seq(Row) /\ Len(rows) \in Nat /\ DOMAIN rows = 1 .. Len(rows)
      /\ rs \in Seq(Row) /\ Len(rs) \in Nat /\ DOMAIN rs = 1 .. Len(rs)
  BY <1>3, LedgerFacts, StateFacts DEF Ledger
<1>6. \A k \in DOMAIN rs \ DOMAIN rows : rs[k].item # Whole
  <2>1. CASE i1 = 0
    <3>1. DOMAIN rs = 1 .. Len(rows) + 1 /\ rs[Len(rows) + 1] = t
      BY <1>4, <1>5, <2>1 DEF Put
    <3> QED BY <1>4, <1>5, <3>1
  <2>2. CASE i1 # 0
    BY <1>4, <2>2 DEF Put
  <2> QED BY <2>1, <2>2
<1>7. CASE rows' = rs
  BY <1>6, <1>7 DEF AddsWhole
<1>8. ASSUME NEW c2 \in Cargos, NEW type2 \in Types, NEW a2 \in 0..purse,
             NEW i2 \in TargetsOf(c2), rows' \in BulkWrites(rs, i2, c2, type2, a2)
      PROVE  AddsWhole
  <2>1. /\ a2 \in Nat
        /\ i2 # 0 => /\ i2 \in DOMAIN rows /\ i2 \in DOMAIN rs
                     /\ rs[i2].flight = FlightOf[c2]
    BY <1>3, StateFacts, TargetsFacts DEF Grows, SameFlights
  <2>2. PICK u \in Row : u.item # Whole /\ rows' = Put(rs, i2, u)
    BY <1>3, <1>8, <2>1, BulkRow
  <2>3. \A k \in DOMAIN rows' \ DOMAIN rows : rows'[k].item # Whole
    <3>1. CASE i2 = 0
      <4>1. /\ DOMAIN rows' = 1 .. Len(rs) + 1 /\ rows'[Len(rs) + 1] = u
            /\ \A k \in 1 .. Len(rs) : rows'[k] = rs[k]
        BY <1>5, <2>2, <3>1 DEF Put
      <4> QED BY <1>5, <1>6, <2>2, <4>1
    <3>2. CASE i2 # 0
      BY <1>6, <2>1, <2>2, <3>2 DEF Put
    <3> QED BY <3>1, <3>2
  <2> QED BY <2>3 DEF AddsWhole
<1> QED BY <1>2, <1>7, <1>8

LEMMA NextAddsWhole == IInv /\ [Next]_vars => AddsWhole
<1> SUFFICES ASSUME IInv, [Next]_vars PROVE AddsWhole
  OBVIOUS
<1>0. Amounts \subseteq Nat
  BY LedgerAssumption DEF Amounts
<1>1. CASE \/ UNCHANGED vars
           \/ \E f \in Flights, mode \in Modes, w \in Amounts : Submit(f, mode, w)
           \/ \E f \in Flights, k \in {"online", "cash"} : Reject(f, k)
           \/ \E adm \in Admins, f \in Flights : ApprovePrompt(adm, f) \/ CashPrompt(adm, f)
           \/ \E adm \in Admins, i \in DOMAIN rows, p \in Providers : AccountPrompt(adm, i, p)
           \/ \E adm \in Admins, i \in DOMAIN rows : VerifyPrompt(adm, i)
           \/ \E adm \in Admins, c \in Cargos, type \in Types : UnpaidPrompt(adm, c, type)
           \/ \E adm \in Admins : Cancel(adm)
  <2>1. UNCHANGED rows
    BY <1>1 DEF vars, Submit, Reject, ApprovePrompt, CashPrompt, AccountPrompt,
                VerifyPrompt, UnpaidPrompt, Cancel
  <2> QED BY <2>1, InPlaceWhole
<1>2. CASE \E f \in Flights : ReportSent(f) \/ ManuallySent(f)
  BY <1>2, SenderAddsWhole
<1>3. CASE \E adm \in Admins, a \in Amounts :
             ApproveAmount(adm, a) \/ CashAmount(adm, a) \/ UnpaidAmount(adm, a)
  BY <1>0, <1>3, ApproveAmountAddsWhole, CashAmountAddsWhole, UnpaidAmountAddsWhole
<1>4. CASE \/ \E adm \in Admins, a \in Amounts : AccountAmount(adm, a) \/ VerifyAmount(adm, a)
           \/ \E i \in DOMAIN rows, type \in Types, a \in Amounts : PosExisting(i, type, a)
           \/ \E i \in DOMAIN rows : MarkTransactionTaken(i) \/ UpdateTakenStatus(i)
           \/ \E a \in Amounts : ApplyPayment(a) \/ Refund(a)
           \/ \E flights \in SUBSET Flights, first \in Flights, fee \in Amounts :
                Deliver(first, flights, fee)
  BY <1>4, DesksInPlace, InPlaceWhole
<1>5. CASE \E c \in Cargos, type \in Types, a \in Amounts :
             PosPay(c, type, a) \/ PosBulk(c, type, a)
  BY <1>0, <1>5, PosPayAddsWhole, PosBulkAddsWhole
<1>6. CASE \E a \in -Purse..Purse : AdjustBalance(a)
  <2>1. PICK a : rows' = Append(rows, Adjustment(a))
    BY <1>6 DEF AdjustBalance
  <2>2. Adjustment(a).flight \notin Flights
    BY GoneFacts DEF Adjustment, Row
  <2> QED BY <2>1, <2>2, AppendWhole, StateFacts
<1> QED BY <1>1, <1>2, <1>3, <1>4, <1>5, <1>6 DEF Next

\* Reports, approvals, verification, POS, wallet and delivery leave a flight with
\* the one flight-level row it has; a second one comes only from a cash dialogue
\* that was opened before the row became partial.
THEOREM SecondRowIsAlwaysCash == Spec => SecondRowIsCash
<1>1. IInv /\ [Next]_vars =>
        [\A f \in Flights :
          OneRowOf(f) /\ ~OneRowOf(f)' =>
            \E adm \in Admins :
              /\ prompt[adm].kind = "cash" /\ prompt[adm].flight = f /\ ~prompt[adm].partial
              /\ \E i \in FlightRows(f) : rows[i].status = "partial"]_vars
  BY NextKeepsPayments, NextAddsWhole, SecondRow DEF LateCash
<1> QED BY <1>1, Inductive, PTL DEF Spec, SecondRowIsCash
------------------------------------------------------------------------------
(* Payments left out of paid_amount *)

\* What a step may do to what a row leaves out.
NothingLost == \A i \in DOMAIN rows' : ~(rows'[i].lost > LostBefore(i))

LossExplained ==
    \A i \in DOMAIN rows' :
      rows'[i].lost > LostBefore(i) =>
        /\ i \in DOMAIN rows /\ rows[i].status # "paid"
        /\ rows'[i].lost <= rows[i].cash + (purse - purse')
        /\ rows[i].status = "partial" =>
             /\ rows'[i].item = rows[i].item
             /\ \E w \in UsableCredit(rows, rows[i].remaining) :
                  rows[i].remaining <= w + (purse - purse')

LEMMA NothingIsExplained ==
    ASSUME NothingLost
    PROVE  LossExplained
BY DEF NothingLost, LossExplained

\* A recalculation counts every event again.
LEMMA ToppedUpLost ==
    ASSUME NEW t \in Row, NEW a \in Nat, NEW provider
    PROVE  ToppedUp(t, provider, a).lost = 0
<1>1. WithEvent(t, provider, a) \in Row
  BY WithEventIsRow
<1> QED BY <1>1 DEF ToppedUp, Recalculated, Row

LEMMA ExistingPaidLost ==
    ASSUME NEW t, FlightRow(t), NEW a \in Nat, a > 0, NEW w, NEW type
    PROVE  ExistingPaid(t, w, a, type).lost = 0
<1> DEFINE r == ToppedUp(t, type, a)
<1>1. r \in Row /\ r.lost = 0
  BY ToppedUpLost, ToppedUpOK DEF FlightRow
<1>2. ExistingPaid(t, w, a, type).lost = r.lost
  <2> HIDE DEF r
  <2> QED BY <1>1 DEF ExistingPaid, Row, r
<1> QED BY <1>1, <1>2

\* An overwrite leaves out what the row had, which of a pending row is nothing.
LEMMA BookedLost ==
    ASSUME NEW t \in Row, NEW f, NEW c, NEW bill, NEW w, NEW a \in Nat, NEW provider
    PROVE  LET b == Booked(t, f, c, bill, w, a, provider)
           IN  b.lost = t.cash /\ b.cash <= t.cash + a
<1> DEFINE e == IF a > 0 THEN WithEvent(t, provider, a) ELSE t
           b == Booked(t, f, c, bill, w, a, provider)
<1>1. t.cash \in Nat
  BY DEF Row
<1>2. e \in Row /\ e.cash <= t.cash + a
  <2>1. WithEvent(t, provider, a) \in Row
    BY WithEventIsRow
  <2>2. WithEvent(t, provider, a).cash \in {t.cash, t.cash + a}
    BY DEF WithEvent, Row
  <2> QED BY <1>1, <2>1, <2>2
<1>3. b = [e EXCEPT
        !.flight = f, !.item = c, !.summa = bill, !.paid = a, !.total = bill,
        !.remaining = PositivePart(bill - w - a), !.pbd = a - bill,
        !.status = IF bill - w - a <= 0 THEN "paid" ELSE "partial",
        !.allocated = 0, !.withdrawn = 0, !.covered = w, !.waived = 0,
        !.lost = t.cash]
  BY DEF Booked
<1> HIDE DEF e, b
<1>4. b.lost = t.cash /\ b.cash = e.cash
  BY <1>2, <1>3 DEF Row
<1> QED BY <1>2, <1>4 DEF b

LEMMA PendingLost ==
    ASSUME NEW t \in Row, RowOK(t), t.status = "pending",
           NEW f, NEW c, NEW bill, NEW w, NEW a \in Nat, NEW provider
    PROVE  Booked(t, f, c, bill, w, a, provider).lost = 0
BY BookedLost DEF RowOK, StatusExplained

\* Writes that keep what is left out.
LEMMA FlagsLost ==
    ASSUME NEW t \in Row
    PROVE  /\ Taken(t).lost = t.lost /\ ForceTaken(t).lost = t.lost
           /\ [t EXCEPT !.taken = ~t.taken].lost = t.lost
BY DEF Taken, ForceTaken, Row

LEMMA MovedLost ==
    ASSUME NEW t \in Row, NEW a
    PROVE  /\ Allocated(t, a).lost = t.lost /\ Withdrawn(t, a).lost = t.lost
           /\ Extended(t, a).lost = t.lost
BY DEF Allocated, Withdrawn, Extended, Row

LEMMA PartialTopUpLost ==
    ASSUME NEW t \in Row, NEW c, NEW w \in Nat, NEW a \in Nat, NEW provider
    PROVE  LET b == PartialTopUp(t, c, w, a, provider)
           IN  /\ b.lost = t.lost /\ b.cash <= t.cash + a
               /\ b.status # "partial" => t.remaining <= w + a
<1> DEFINE e == WithEvent(t, provider, a)
           b == PartialTopUp(t, c, w, a, provider)
<1>1. t.cash \in Nat /\ t.remaining \in Nat
  BY DEF Row
<1>2. e \in Row
  BY WithEventIsRow
<1>3. e.cash \in {t.cash, t.cash + a} /\ e.lost = t.lost
  BY DEF WithEvent, Row
<1>4. b = [e EXCEPT
        !.item = c, !.summa = t.total, !.paid = @ + a,
        !.remaining = PositivePart(@ - w - a),
        !.pbd = t.paid + a - t.total,
        !.status = IF t.remaining - w - a <= 0 THEN "paid" ELSE "partial",
        !.allocated = 0, !.withdrawn = 0, !.covered = @ + w]
  BY DEF PartialTopUp
<1> HIDE DEF e, b
<1>5. /\ b.lost = e.lost /\ b.cash = e.cash
      /\ b.status = IF t.remaining - w - a <= 0 THEN "paid" ELSE "partial"
  BY <1>2, <1>4 DEF Row
<1>6. /\ b.lost = t.lost /\ b.cash <= t.cash + a
      /\ b.status # "partial" => t.remaining <= w + a
  BY <1>1, <1>3, <1>5
<1> QED BY <1>6 DEF b

\* A POS item on a pending row leaves nothing out, on a partial row no more than
\* before, on a paid row -- which only a row just written can be -- all of it.
LEMMA SettledLost ==
    ASSUME NEW t, FlightRow(t), NEW c \in Cargos, NEW bill \in Nat, NEW w \in Nat,
           NEW a \in Nat, NEW type
    PROVE  LET s == Settled(t, c, bill, w, a, type)
           IN  /\ s.cash <= t.cash + a
               /\ t.status = "pending" => s.lost = 0
               /\ t.status = "partial" =>
                    s.lost = t.lost /\ (s.status # "partial" => t.remaining <= w + a)
               /\ t.status = "paid" => s.lost = t.cash
<1> DEFINE need == Basis(t, bill) - w
           cash == IF need <= 0 THEN 0 ELSE a
           booked == IF t.status = "partial"
                     THEN PartialTopUp(t, c, w, cash, IF need <= 0 THEN "wallet" ELSE type)
                     ELSE Booked(t, t.flight, c, bill, w, cash, type)
           closed == IF need <= 0 THEN WithEvent(booked, "wallet", w) ELSE booked
           s == [closed EXCEPT !.taken = @ \/ (type = "cash" /\ closed.status = "paid")]
<1>1. /\ t \in Row /\ t.flight \in Flights /\ cash \in Nat /\ cash <= a /\ t.flight # SysAdj
      /\ c \in Cargos \cup {Whole} /\ t.cash \in Nat /\ t.remaining \in Nat
      /\ RowOK(t)
  BY NamesAssumption DEF FlightRow, Row
<1> HIDE DEF cash, need
<1>2. /\ booked \in Row /\ booked.cash <= t.cash + a
      /\ t.status = "pending" => booked.lost = 0
      /\ t.status = "partial" =>
           booked.lost = t.lost /\ (booked.status # "partial" => t.remaining <= w + a)
      /\ t.status = "paid" => booked.lost = t.cash
  <2>1. CASE t.status = "partial"
    <3> DEFINE b == PartialTopUp(t, c, w, cash, IF need <= 0 THEN "wallet" ELSE type)
    <3>1. b \in Row
      BY <1>1, <2>1, PartialTopUpOK DEF FlightRow
    <3>2. /\ b.lost = t.lost /\ b.cash <= t.cash + cash
          /\ b.status # "partial" => t.remaining <= w + cash
      BY <1>1, PartialTopUpLost
    <3>3. booked = b
      BY <2>1
    <3>4. b.cash \in Nat
      BY <3>1 DEF Row
    <3> HIDE DEF b, booked
    <3> QED BY <1>1, <2>1, <3>1, <3>2, <3>3, <3>4
  <2>2. CASE t.status # "partial"
    <3> DEFINE b == Booked(t, t.flight, c, bill, w, cash, type)
    <3>1. b \in Row
      BY <1>1, <2>2, BookedOK DEF FlightRow
    <3>2. b.lost = t.cash /\ b.cash <= t.cash + cash
      BY <1>1, BookedLost
    <3>3. booked = b
      BY <2>2
    <3>4. b.cash \in Nat /\ (t.status = "pending" => t.cash = 0)
      BY <1>1, <3>1 DEF Row, RowOK, StatusExplained
    <3> HIDE DEF b, booked
    <3> QED BY <1>1, <2>2, <3>1, <3>2, <3>3, <3>4
  <2> QED BY <2>1, <2>2
<1> HIDE DEF booked
<1>3. /\ closed \in Row /\ closed.cash = booked.cash /\ closed.lost = booked.lost
      /\ closed.status = booked.status
  <2>1. WithEvent(booked, "wallet", w) \in Row
    BY <1>2, WithEventIsRow
  <2>2. LET e == WithEvent(booked, "wallet", w)
        IN  e.cash = booked.cash /\ e.lost = booked.lost /\ e.status = booked.status
    BY <1>2 DEF WithEvent, Row
  <2> QED BY <1>2, <2>1, <2>2
<1> HIDE DEF closed
<1>4. s.cash = closed.cash /\ s.lost = closed.lost /\ s.status = closed.status
  BY <1>3 DEF Row
<1>5. Settled(t, c, bill, w, a, type) = s
  BY DEF Settled, s, closed, booked, cash, need
<1> HIDE DEF s
<1> QED BY <1>2, <1>3, <1>4, <1>5
------------------------------------------------------------------------------
(* Tables *)

LEMMA RewriteLost ==
    ASSUME Ledger(rows), DOMAIN rows' = DOMAIN rows,
           \A i \in DOMAIN rows : rows'[i].lost \in {0, rows[i].lost}
    PROVE  NothingLost
<1>1. \A i \in DOMAIN rows : rows[i].lost \in Nat
  BY LedgerFacts DEF Row
<1> QED BY <1>1 DEF NothingLost, LostBefore

LEMMA PutLost ==
    ASSUME Ledger(rows), NEW k, k # 0 => k \in DOMAIN rows, NEW t, rows' = Put(rows, k, t),
           t.lost = 0 \/ (k # 0 /\ t.lost = rows[k].lost)
    PROVE  NothingLost
<1>1. /\ rows \in Seq(Row) /\ Len(rows) \in Nat /\ DOMAIN rows = 1 .. Len(rows)
      /\ \A i \in DOMAIN rows : rows[i] \in Row /\ rows[i].lost \in Nat
  BY LedgerFacts DEF Ledger, Row
<1>2. CASE k = 0
  <2>1. rows' = Append(rows, t)
    BY <1>2 DEF Put
  <2>2. /\ DOMAIN rows' = 1 .. Len(rows) + 1 /\ rows'[Len(rows) + 1] = t
        /\ \A i \in DOMAIN rows : rows'[i] = rows[i]
    BY <1>1, <2>1
  <2>3. Len(rows) + 1 \notin DOMAIN rows
    BY <1>1
  <2>4. ASSUME NEW i \in DOMAIN rows' PROVE ~(rows'[i].lost > LostBefore(i))
    <3>1. CASE i \in DOMAIN rows
      BY <1>1, <2>2, <3>1 DEF LostBefore
    <3>2. CASE i = Len(rows) + 1
      BY <1>2, <2>2, <2>3, <3>2 DEF LostBefore
    <3> QED BY <1>1, <2>2, <3>1, <3>2
  <2> QED BY <2>4 DEF NothingLost
<1>3. CASE k # 0
  <2>1. rows' = [rows EXCEPT ![k] = t]
    BY <1>3 DEF Put
  <2>2. DOMAIN rows' = DOMAIN rows /\ \A i \in DOMAIN rows : rows'[i].lost \in {0, rows[i].lost}
    BY <1>3, <2>1
  <2> QED BY <2>2, RewriteLost
<1> QED BY <1>2, <1>3

\* A lookup and a write.
LEMMA WroteLost ==
    ASSUME Ledger(rows), NEW f, NEW k, NEW t, Wrote(f, k, t),
           t.lost = 0 \/ (k \in DOMAIN rows /\ t.lost = rows[k].lost)
    PROVE  NothingLost
<1> SUFFICES ASSUME NEW i \in DOMAIN rows' PROVE ~(rows'[i].lost > LostBefore(i))
  BY DEF NothingLost
<1>1. \A j \in DOMAIN rows : rows[j].lost \in Nat
  BY LedgerFacts DEF Row
<1>2. CASE i \in DOMAIN rows
  <2>1. rows'[i] = rows[i] \/ (i = k /\ rows'[i] = t) \/ rows'[i] = Gone
    BY <1>2 DEF Wrote
  <2>2. rows'[i].lost \in {0, rows[i].lost}
    BY <2>1, GoneFacts
  <2> QED BY <1>1, <1>2, <2>2 DEF LostBefore
<1>3. CASE i \notin DOMAIN rows
  <2>1. k = 0 /\ rows'[i] \in {t, Gone}
    BY <1>3 DEF Wrote
  <2>2. rows'[i].lost = 0
    BY <2>1, GoneFacts, LedgerFacts
  <2> QED BY <1>3, <2>2 DEF LostBefore
<1> QED BY <1>2, <1>3

LEMMA AppendLost ==
    ASSUME Ledger(rows), NEW t, rows' = Append(rows, t), t.lost = 0
    PROVE  NothingLost
BY PutLost DEF Put

\* An in-place write of one row.
LEMMA UpdateLost ==
    ASSUME Ledger(rows), NEW k \in DOMAIN rows, NEW t, rows' = [rows EXCEPT ![k] = t],
           t.lost \in {0, rows[k].lost}
    PROVE  NothingLost
<1>1. k # 0
  BY LedgerFacts
<1> QED BY <1>1, PutLost DEF Put
------------------------------------------------------------------------------
(* Handlers *)

LEMMA SenderLost ==
    ASSUME IInv, NEW f \in Flights, ReportSent(f) \/ ManuallySent(f)
    PROVE  NothingLost
<1>1. PICK k, t, bill :
        /\ bill \in Nat /\ Wrote(f, k, t)
        /\ k = 0 => t = PendingDebt(f, bill)
        /\ k # 0 => k \in DOMAIN rows /\ t = Extended(rows[k], bill)
  BY SenderWrites
<1>2. t.lost = 0 \/ (k \in DOMAIN rows /\ t.lost = rows[k].lost)
  <2>1. PendingDebt(f, bill).lost = 0
    BY DEF PendingDebt
  <2>2. k # 0 => rows[k] \in Row
    BY <1>1, LedgerFacts, StateFacts
  <2> QED BY <1>1, <2>1, <2>2, MovedLost
<1> QED BY <1>1, <1>2, WroteLost, StateFacts

\* The approval overwrites pending rows only.
LEMMA ApproveAmountLost ==
    ASSUME IInv, NEW adm \in Admins, NEW a \in Nat, ApproveAmount(adm, a)
    PROVE  NothingLost
<1> DEFINE f == prompt[adm].flight
<1>1. /\ f \in Flights
      /\ \/ UNCHANGED rows
         \/ \E k \in Found(f) : \E t : Approved(f, k, t, a) /\ Wrote(f, k, t) /\ FlightRow(t)
  BY ApproveAmountWrites
<1>2. CASE UNCHANGED rows
  BY <1>2, RewriteLost, StateFacts
<1>3. ASSUME NEW k \in Found(f), NEW t, Approved(f, k, t, a), Wrote(f, k, t)
      PROVE  NothingLost
  <2> DEFINE d == RowFor(rows, k, f)
  <2>1. d \in Row /\ RowOK(d)
    BY <1>1, FoundFacts, RowForOK, StateFacts DEF FlightRow
  <2>2. PICK p : \/ t = ToppedUp(d, p, a)
                 \/ /\ d.status = "pending"
                    /\ t = Booked(d, f, Whole, Bill[SentOn(f)], walletKey[f], a, p)
    BY <1>3 DEF Approved
  <2> HIDE DEF d
  <2>3. t.lost = 0
    BY <2>1, <2>2, ToppedUpLost, PendingLost
  <2> QED BY <1>3, <2>3, WroteLost, StateFacts
<1> QED BY <1>1, <1>2, <1>3

\* A top-up of a row, in the two forms the dialogues write it.
LEMMA TopUpWriteLost ==
    ASSUME IInv, NEW i \in DOMAIN rows, rows[i].flight \in Flights,
           NEW a \in Nat, a > 0, NEW provider,
           NEW t, t = ToppedUp(rows[i], provider, a),
           \/ rows' = [rows EXCEPT ![i] = t]
           \/ rows' = [rows EXCEPT ![i] = IF t.remaining = 0 THEN Taken(t) ELSE t]
    PROVE  NothingLost
<1>1. rows[i] \in Row /\ t \in Row
  BY StateFacts, LedgerFacts, ToppedUpOK DEF FlightRow
<1>2. t.lost = 0 /\ Taken(t).lost = 0
  BY <1>1, ToppedUpLost, FlagsLost
<1> QED BY <1>2, UpdateLost, StateFacts

\* So does the cash dialogue.
LEMMA CashAmountLost ==
    ASSUME IInv, NEW adm \in Admins, NEW a \in Nat, CashAmount(adm, a)
    PROVE  NothingLost
<1> DEFINE f == prompt[adm].flight
<1>1. /\ f \in Flights /\ a > 0
      /\ \/ UNCHANGED rows
         \/ \E i : CashedPartial(i, a)
         \/ \E k, t : /\ Cashed(f, k, t, a) /\ Wrote(f, k, t)
                      /\ k # 0 => k \in DOMAIN rows
  BY CashAmountWrites
<1>2. CASE UNCHANGED rows
  BY <1>2, RewriteLost, StateFacts
<1>3. ASSUME NEW i, CashedPartial(i, a) PROVE NothingLost
  BY <1>1, <1>3, TopUpWriteLost DEF CashedPartial
<1>4. ASSUME NEW k, NEW t, Cashed(f, k, t, a), Wrote(f, k, t), k # 0 => k \in DOMAIN rows
      PROVE  NothingLost
  <2> DEFINE d == RowFor(rows, k, f)
             b == Booked(d, f, Whole, Bill[SentOn(f)], walletKey[f], a, "cash")
  <2>1. d \in Row /\ RowOK(d) /\ d.status = "pending" /\ t = Taken(b)
    <3>1. \A i \in DOMAIN rows : rows[i] \in Row /\ RowOK(rows[i])
      BY LedgerFacts, StateFacts
    <3>2. PendingDebt(f, 0) \in Row /\ RowOK(PendingDebt(f, 0))
      BY <1>1, PendingDebtOK DEF FlightRow
    <3> QED BY <1>4, <3>1, <3>2 DEF Cashed, RowFor
  <2> HIDE DEF d
  <2>2. b.lost = 0
    BY <2>1, PendingLost
  <2>3. Taken(b).lost = b.lost
    BY DEF Taken, Booked
  <2> HIDE DEF b
  <2> QED BY <1>4, <2>1, <2>2, <2>3, WroteLost, StateFacts
<1> QED BY <1>1, <1>2, <1>3, <1>4

LEMMA VerificationLost ==
    ASSUME IInv, NEW adm \in Admins, NEW a \in Nat,
           AccountAmount(adm, a) \/ VerifyAmount(adm, a) \/ UnpaidAmount(adm, a)
    PROVE  NothingLost
<1>1. ASSUME AccountAmount(adm, a) PROVE NothingLost
  <2>1. /\ prompt[adm].tx \in DOMAIN rows /\ a > 0
        /\ rows[prompt[adm].tx] = Gone \/ rows[prompt[adm].tx].flight \in Flights
    BY <1>1 DEF AccountAmount, IInv, TypeOK, PromptsPoint, Points
  <2>2. CASE UNCHANGED rows
    BY <2>2, RewriteLost, StateFacts
  <2>3. CASE rows' # rows
    BY <1>1, <2>1, <2>3, TopUpWriteLost DEF AccountAmount
  <2> QED BY <2>2, <2>3
<1>2. ASSUME VerifyAmount(adm, a) PROVE NothingLost
  <2>1. /\ prompt[adm].tx \in DOMAIN rows /\ a > 0
        /\ rows[prompt[adm].tx] = Gone \/ rows[prompt[adm].tx].flight \in Flights
    BY <1>2 DEF VerifyAmount, IInv, TypeOK, PromptsPoint, Points
  <2>2. CASE UNCHANGED rows
    BY <2>2, RewriteLost, StateFacts
  <2>3. CASE rows' # rows
    BY <1>2, <2>1, <2>3, TopUpWriteLost DEF VerifyAmount
  <2> QED BY <2>2, <2>3
<1>3. ASSUME UnpaidAmount(adm, a) PROVE NothingLost
  <2> DEFINE p == prompt[adm]
             f == FlightOf[p.cargo]
             d == PendingDebt(f, 0)
             t == Booked(d, f, p.cargo, BotPrice[p.cargo], 0, a, p.type)
  <2>1. p.cargo \in Cargos /\ f \in Flights
    BY <1>3, StateFacts, DialogueFacts, BillFacts DEF UnpaidAmount
  <2>2. rows' = Append(rows, IF p.type = "cash" THEN Taken(t) ELSE t)
    BY <1>3 DEF UnpaidAmount
  <2>3. d \in Row /\ d.cash = 0
    BY <2>1, PendingDebtOK DEF FlightRow, PendingDebt
  <2> HIDE DEF d, f, p
  <2>4. t.lost = 0
    BY <2>3, BookedLost
  <2>5. Taken(t).lost = t.lost
    BY DEF Taken, Booked
  <2> HIDE DEF t
  <2> QED BY <2>2, <2>4, <2>5, AppendLost, StateFacts
<1> QED BY <1>1, <1>2, <1>3

\* A single POS payment is booked on a pending row or a new one.
LEMMA PosPayLost ==
    ASSUME IInv, NEW c \in Cargos, NEW type \in Types, NEW a \in Nat, PosPay(c, type, a)
    PROVE  NothingLost
<1>1. PICK i \in TargetsOf(c) :
        \E w \in UsableCredit(rows, Basis(RowFor(rows, i, FlightOf[c]), Bill[{c}])) :
          rows' = Put(rows, i, Settled(RowFor(rows, i, FlightOf[c]), c, Bill[{c}], w, a, type))
  BY DEF PosPay
<1>2. PICK w \in UsableCredit(rows, Basis(RowFor(rows, i, FlightOf[c]), Bill[{c}])) :
        rows' = Put(rows, i, Settled(RowFor(rows, i, FlightOf[c]), c, Bill[{c}], w, a, type))
  BY <1>1
<1> DEFINE t == RowFor(rows, i, FlightOf[c])
           s == Settled(t, c, Bill[{c}], w, a, type)
<1>3. i # 0 => i \in DOMAIN rows /\ rows[i].status = "pending" /\ rows[i].flight = FlightOf[c]
  <2>1. \A k \in OwnRow(c) : rows[k].status = "pending"
    BY DEF PosPay
  <2> QED BY <2>1, TargetsFacts DEF TargetsOf, PendingRow
<1>4. FlightRow(t) /\ t.status = "pending"
  BY <1>3, RowForOK, BillFacts, StateFacts DEF RowFor, PendingDebt
<1>5. Bill[{c}] \in Nat /\ w \in Nat
  BY <1>4, BillFacts, BasisFacts, CreditFacts DEF FlightRow
<1> HIDE DEF t
<1>6. s.lost = 0
  BY <1>4, <1>5, SettledLost
<1>7. rows' = Put(rows, i, s)
  BY <1>2 DEF t
<1> HIDE DEF s
<1> QED BY <1>3, <1>6, <1>7, PutLost, StateFacts

LEMMA PosExistingLost ==
    ASSUME IInv, NEW i \in DOMAIN rows, NEW type \in Types, NEW a \in Nat,
           PosExisting(i, type, a)
    PROVE  NothingLost
<1>1. FlightRow(rows[i]) /\ a > 0
  BY StateFacts, LedgerFacts DEF PosExisting
<1>2. PICK w : rows' = [rows EXCEPT ![i] = ExistingPaid(rows[i], w, a, type)]
  BY DEF PosExisting
<1>3. ExistingPaid(rows[i], w, a, type).lost = 0
  BY <1>1, ExistingPaidLost
<1> QED BY <1>2, <1>3, UpdateLost, StateFacts

LEMMA FlagsLoseNothing ==
    ASSUME IInv, NEW i \in DOMAIN rows, MarkTransactionTaken(i) \/ UpdateTakenStatus(i)
    PROVE  NothingLost
<1>1. rows[i] \in Row
  BY StateFacts, LedgerFacts
<1>2. \/ rows' = [rows EXCEPT ![i] = ForceTaken(rows[i])]
      \/ rows' = [rows EXCEPT ![i] = [rows[i] EXCEPT !.taken = ~rows[i].taken]]
  BY DEF MarkTransactionTaken, UpdateTakenStatus
<1> QED BY <1>1, <1>2, FlagsLost, UpdateLost, StateFacts

LEMMA WalletDeskLost ==
    ASSUME IInv, NEW a \in Nat, ApplyPayment(a) \/ Refund(a)
    PROVE  NothingLost
<1>1. \A i \in DOMAIN rows : rows[i] \in Row
  BY StateFacts, LedgerFacts
<1>2. \/ \E part : rows' = [i \in DOMAIN rows |-> Allocated(rows[i], part[i])]
      \/ \E part : rows' = [i \in DOMAIN rows |-> Withdrawn(rows[i], part[i])]
  <2>1. ASSUME ApplyPayment(a)
        PROVE  \E part : rows' = [i \in DOMAIN rows |-> Allocated(rows[i], part[i])]
    <3> DEFINE debt == [i \in DOMAIN rows |-> PositivePart(-rows[i].pbd)]
               isLast(i) == debt[i] > 0 /\ \A j \in DOMAIN rows : debt[j] > 0 => j <= i
    <3>1. PICK share \in Fifo(a, debt), left \in 0..a :
            rows' = [i \in DOMAIN rows |->
                       Allocated(rows[i], share[i] + IF isLast(i) THEN left ELSE 0)]
      BY <2>1 DEF ApplyPayment
    <3> HIDE DEF isLast, debt
    <3> DEFINE part == [i \in DOMAIN rows |-> share[i] + IF isLast(i) THEN left ELSE 0]
    <3>2. rows' = [i \in DOMAIN rows |-> Allocated(rows[i], part[i])]
      BY <3>1
    <3> HIDE DEF part
    <3> QED BY <3>2
  <2>2. ASSUME Refund(a)
        PROVE  \E part : rows' = [i \in DOMAIN rows |-> Withdrawn(rows[i], part[i])]
    BY <2>2 DEF Refund
  <2> QED BY <2>1, <2>2
<1>3. DOMAIN rows' = DOMAIN rows /\ \A i \in DOMAIN rows : rows'[i].lost = rows[i].lost
  BY <1>1, <1>2, MovedLost
<1> QED BY <1>3, RewriteLost, StateFacts

LEMMA DeliverLost ==
    ASSUME IInv, NEW flights \in SUBSET Flights, NEW first \in Flights, NEW fee \in Nat,
           Deliver(first, flights, fee)
    PROVE  NothingLost
<1>1. ASSUME NEW j \in DOMAIN rows PROVE rows'[j].lost \in {0, rows[j].lost}
  <2>1. rows[j] \in Row /\ RowOK(rows[j])
    BY StateFacts, LedgerFacts
  <2>2. CASE Deleted(j)
    BY <2>2, GoneFacts DEF Deleted
  <2>3. CASE ~Deleted(j)
    <3>1. PICK r \in {rows[j], Withdrawn(rows[j], fee)} : rows'[j] \in {r, Taken(r)}
      BY <2>3, DeliverWrites
    <3>2. r \in Row /\ r.lost = rows[j].lost
      BY <2>1, <3>1, WithdrawnOK, MovedLost
    <3> QED BY <3>1, <3>2, FlagsLost
  <2> QED BY <2>2, <2>3
<1> QED BY <1>1, DeliverWrites, RewriteLost, StateFacts

\* What a bulk item finds: a row that is not paid, or none.
LEMMA BulkFinds ==
    ASSUME NEW c, BulkAccepts(c), NEW i \in TargetsOf(c)
    PROVE  i # 0 => /\ i \in DOMAIN rows /\ rows[i].flight = FlightOf[c]
                    /\ rows[i].status # "paid"
<1>1. \A k \in OwnRow(c) : rows[k].status # "paid"
  BY DEF BulkAccepts
<1> QED BY <1>1, TargetsFacts, TargetsNotPaid

\* What an item starts from: the row it found, or a new pending one.
LEMMA ItemStarts ==
    ASSUME NEW rs, Ledger(rs), NEW c \in Cargos, NEW i,
           i # 0 => i \in DOMAIN rs /\ rs[i].flight = FlightOf[c],
           NEW w \in UsableCredit(rs, Basis(RowFor(rs, i, FlightOf[c]), Bill[{c}]))
    PROVE  /\ FlightRow(RowFor(rs, i, FlightOf[c])) /\ Bill[{c}] \in Nat /\ w \in Nat
           /\ i # 0 => RowFor(rs, i, FlightOf[c]) = rs[i]
           /\ i = 0 => RowFor(rs, i, FlightOf[c]).status = "pending"
<1>1. FlightOf[c] \in Flights /\ Bill[{c}] \in Nat
  BY BillFacts
<1>2. FlightRow(RowFor(rs, i, FlightOf[c]))
  BY <1>1, RowForOK
<1>3. w \in Nat
  BY <1>1, <1>2, BasisFacts, CreditFacts DEF FlightRow
<1>4. /\ i # 0 => RowFor(rs, i, FlightOf[c]) = rs[i]
      /\ i = 0 => RowFor(rs, i, FlightOf[c]).status = "pending"
  BY DEF RowFor, PendingDebt
<1> QED BY <1>1, <1>2, <1>3, <1>4

\* An item on a row that is not paid leaves out no more than the row did.
LEMMA ItemLost ==
    ASSUME NEW t, FlightRow(t), t.status # "paid", NEW c \in Cargos, NEW bill \in Nat,
           NEW w \in Nat, NEW a \in Nat, NEW type
    PROVE  LET s == Settled(t, c, bill, w, a, type)
           IN  /\ s \in Row /\ s.item = c /\ s.cash <= t.cash + a
               /\ s.lost = 0 \/ (t.status = "partial" /\ s.lost = t.lost)
               /\ t.status = "partial" /\ s.status # "partial" => t.remaining <= w + a
<1> DEFINE s == Settled(t, c, bill, w, a, type)
<1>1. t.status = "pending" \/ t.status = "partial"
  BY DEF FlightRow, Row, Statuses
<1>2. s \in Row /\ EventsKept(t, s) /\ s.item = c
  BY SettledKeeps
<1>3. /\ s.cash <= t.cash + a
      /\ t.status = "pending" => s.lost = 0
      /\ t.status = "partial" =>
           s.lost = t.lost /\ (s.status # "partial" => t.remaining <= w + a)
      /\ t.status = "paid" => s.lost = t.cash
  BY SettledLost
<1> HIDE DEF s
<1>4. /\ s \in Row /\ s.item = c /\ s.cash <= t.cash + a
      /\ s.lost = 0 \/ (t.status = "partial" /\ s.lost = t.lost)
      /\ t.status = "partial" /\ s.status # "partial" => t.remaining <= w + a
  BY <1>1, <1>2, <1>3
<1> QED BY <1>4 DEF s

\* The second item overwrites what the first one paid: at most what was typed for
\* it, and what the row had paid before if that item closed a partial row.
LEMMA PosBulkLost ==
    ASSUME IInv, NEW c1 \in Cargos, NEW type1 \in Types, NEW a1 \in Nat,
           PosBulk(c1, type1, a1)
    PROVE  LossExplained
<1>0. BulkAccepts(c1)
  BY DEF PosBulk
<1>1. PICK i1 \in TargetsOf(c1) :
        \E rs \in BulkWrites(rows, i1, c1, type1, a1) :
          \/ rows' = rs
          \/ \E c2 \in Cargos, type2 \in Types, a2 \in 0..purse :
               /\ BulkAccepts(c2) /\ Spend(a1 + a2)
               /\ \E i2 \in TargetsOf(c2) : rows' \in BulkWrites(rs, i2, c2, type2, a2)
  BY DEF PosBulk
<1>2. PICK rs \in BulkWrites(rows, i1, c1, type1, a1) :
          \/ rows' = rs
          \/ \E c2 \in Cargos, type2 \in Types, a2 \in 0..purse :
               /\ BulkAccepts(c2) /\ Spend(a1 + a2)
               /\ \E i2 \in TargetsOf(c2) : rows' \in BulkWrites(rs, i2, c2, type2, a2)
  BY <1>1
<1>3. PICK w1 \in UsableCredit(rows, Basis(RowFor(rows, i1, FlightOf[c1]), Bill[{c1}])) :
        rs = Put(rows, i1, Settled(RowFor(rows, i1, FlightOf[c1]), c1, Bill[{c1}], w1, a1, type1))
  BY DEF BulkWrites
<1> DEFINE o1 == RowFor(rows, i1, FlightOf[c1])
           t1 == Settled(o1, c1, Bill[{c1}], w1, a1, type1)
<1>4. /\ Ledger(rows)
      /\ i1 # 0 => i1 \in DOMAIN rows /\ rows[i1].flight = FlightOf[c1]
      /\ i1 # 0 => rows[i1].status # "paid"
  BY <1>0, BulkFinds, StateFacts
<1>5. rs = Put(rows, i1, t1)
  BY <1>3
<1>6. /\ FlightRow(o1) /\ Bill[{c1}] \in Nat /\ w1 \in Nat
      /\ i1 # 0 => o1 = rows[i1]
      /\ i1 = 0 => o1.status = "pending"
  BY <1>4, ItemStarts
<1> HIDE DEF o1
<1>7. /\ t1 \in Row /\ t1.item = c1 /\ t1.cash <= o1.cash + a1
      /\ t1.lost = 0 \/ (o1.status = "partial" /\ t1.lost = o1.lost)
      /\ o1.status = "partial" /\ t1.status # "partial" => o1.remaining <= w1 + a1
  <2>1. o1.status # "paid"
    BY <1>4, <1>6
  <2> QED BY <1>6, <2>1, ItemLost
<1> HIDE DEF t1
<1>7a. /\ t1.lost = 0 \/ (i1 # 0 /\ t1.lost = rows[i1].lost)
       /\ i1 # 0 => t1.cash <= rows[i1].cash + a1
       /\ i1 # 0 /\ rows[i1].status = "partial" /\ t1.status # "partial"
            => rows[i1].remaining <= w1 + a1
  BY <1>6, <1>7
<1>8. Ledger(rs) /\ Grows(rows, rs) /\ SameFlights(rows, rs)
  BY <1>4, BulkWritesOK
<1>9. CASE rows' = rs
  <2>1. NothingLost
    BY <1>4, <1>5, <1>7a, <1>9, PutLost
  <2> QED BY <2>1, NothingIsExplained
<1>10. ASSUME NEW c2 \in Cargos, NEW type2 \in Types, NEW a2 \in 0..purse,
              BulkAccepts(c2), Spend(a1 + a2),
              NEW i2 \in TargetsOf(c2), rows' \in BulkWrites(rs, i2, c2, type2, a2)
       PROVE  LossExplained
  <2>1. PICK w2 \in UsableCredit(rs, Basis(RowFor(rs, i2, FlightOf[c2]), Bill[{c2}])) :
          rows' = Put(rs, i2, Settled(RowFor(rs, i2, FlightOf[c2]), c2, Bill[{c2}], w2, a2, type2))
    BY <1>10 DEF BulkWrites
  <2> DEFINE o2 == RowFor(rs, i2, FlightOf[c2])
             t2 == Settled(o2, c2, Bill[{c2}], w2, a2, type2)
  <2>2. /\ i2 # 0 => i2 \in DOMAIN rs /\ rs[i2].flight = FlightOf[c2]
        /\ i2 # 0 => i2 \in DOMAIN rows /\ rows[i2].status # "paid"
        /\ a2 \in Nat /\ purse \in Nat
    BY <1>8, <1>10, BulkFinds, StateFacts DEF Grows, SameFlights
  <2>3. rows' = Put(rs, i2, t2)
    BY <2>1
  <2>4. /\ FlightRow(o2) /\ Bill[{c2}] \in Nat /\ w2 \in Nat
        /\ i2 # 0 => o2 = rs[i2]
        /\ i2 = 0 => o2.status = "pending"
    BY <1>8, <2>2, ItemStarts
  <2> HIDE DEF o2
  <2>4a. t2 \in Row /\ t2.item = c2
    BY <2>2, <2>4, SettledKeeps
  <2>5. /\ rows \in Seq(Row) /\ Len(rows) \in Nat /\ DOMAIN rows = 1 .. Len(rows)
        /\ rs \in Seq(Row) /\ Len(rs) \in Nat /\ DOMAIN rs = 1 .. Len(rs)
        /\ \A k \in DOMAIN rows : rows[k] \in Row /\ rows[k].lost \in Nat /\ rows[k].cash \in Nat
        /\ t1.lost \in Nat /\ t1.cash \in Nat
    BY <1>4, <1>7, <1>8, LedgerFacts DEF Ledger, Row
  <2>6. /\ i1 = 0 => DOMAIN rs = 1 .. Len(rows) + 1 /\ rs[Len(rows) + 1] = t1
        /\ i1 # 0 => DOMAIN rs = DOMAIN rows /\ rs[i1] = t1
        /\ \A k \in DOMAIN rows : k # i1 => rs[k] = rows[k]
    <3>1. CASE i1 = 0
      <4>1. rs = Append(rows, t1)
        BY <1>5, <3>1 DEF Put
      <4> QED BY <2>5, <3>1, <4>1
    <3>2. CASE i1 # 0
      <4>1. rs = [rows EXCEPT ![i1] = t1] /\ i1 \in DOMAIN rows
        BY <1>4, <1>5, <3>2 DEF Put
      <4> QED BY <3>2, <4>1
    <3> QED BY <3>1, <3>2
  <2>7. /\ i2 = 0 => DOMAIN rows' = 1 .. Len(rs) + 1 /\ rows'[Len(rs) + 1] = t2
        /\ i2 # 0 => DOMAIN rows' = DOMAIN rs /\ rows'[i2] = t2
        /\ \A k \in DOMAIN rs : k # i2 => rows'[k] = rs[k]
    <3> HIDE DEF t2
    <3>1. CASE i2 = 0
      <4>1. rows' = Append(rs, t2)
        BY <2>3, <3>1 DEF Put
      <4> QED BY <2>5, <3>1, <4>1
    <3>2. CASE i2 # 0
      <4>1. rows' = [rs EXCEPT ![i2] = t2] /\ i2 \in DOMAIN rs
        BY <2>2, <2>3, <3>2 DEF Put
      <4> QED BY <3>2, <4>1
    <3> QED BY <3>1, <3>2
  <2>8. \A k \in DOMAIN rs : ~(rs[k].lost > LostBefore(k))
    <3> SUFFICES ASSUME NEW k \in DOMAIN rs PROVE ~(rs[k].lost > LostBefore(k))
      OBVIOUS
    <3>1. CASE k \in DOMAIN rows /\ k # i1
      <4>1. rs[k] = rows[k] /\ rows[k].lost \in Nat
        BY <2>5, <2>6, <3>1
      <4> QED BY <3>1, <4>1 DEF LostBefore
    <3>2. CASE k \in DOMAIN rows /\ k = i1
      <4>1. i1 # 0
        BY <2>5, <3>2
      <4>2. rs[k] = t1 /\ t1.lost \in {0, rows[k].lost} /\ rows[k].lost \in Nat
        BY <1>7a, <2>5, <2>6, <3>2, <4>1
      <4> QED BY <3>2, <4>2 DEF LostBefore
    <3>3. CASE k \notin DOMAIN rows
      <4>1. i1 = 0
        BY <2>6, <3>3
      <4>2. k \in 1 .. Len(rows) + 1 /\ k \notin 1 .. Len(rows)
        BY <2>5, <2>6, <3>3, <4>1
      <4>3. k = Len(rows) + 1
        BY <2>5, <4>2
      <4> QED BY <1>7a, <2>6, <3>3, <4>1, <4>3 DEF LostBefore
    <3> QED BY <3>1, <3>2, <3>3
  <2>9. CASE i2 = 0 \/ i2 # i1
    <3>1. i2 # 0 => rs[i2] = rows[i2]
      BY <2>2, <2>6, <2>9
    <3>2. t2.lost = 0 \/ (i2 # 0 /\ t2.lost = rs[i2].lost)
      <4>1. o2.status # "paid"
        BY <2>2, <2>4, <3>1
      <4>2. t2.lost = 0 \/ (o2.status = "partial" /\ t2.lost = o2.lost)
        BY <2>2, <2>4, <4>1, ItemLost
      <4> HIDE DEF t2
      <4> QED BY <2>4, <4>2
    <3> HIDE DEF t2
    <3>3. ASSUME NEW k \in DOMAIN rows' PROVE ~(rows'[k].lost > LostBefore(k))
      <4>1. CASE k \in DOMAIN rs /\ k # i2
        BY <2>7, <2>8, <4>1
      <4>2. CASE i2 # 0 /\ k = i2
        <5>1. rows'[k] = t2 /\ t2.lost \in {0, rows[k].lost} /\ k \in DOMAIN rows
          BY <2>2, <2>7, <3>1, <3>2, <4>2
        <5> QED BY <2>5, <5>1 DEF LostBefore
      <4>3. CASE i2 = 0 /\ k = Len(rs) + 1
        <5>1. \A j \in DOMAIN rows : j \in DOMAIN rs
          BY <1>8 DEF Grows
        <5>2. Len(rs) + 1 \notin DOMAIN rs
          BY <2>5
        <5>3. k \notin DOMAIN rows
          BY <4>3, <5>1, <5>2
        <5> QED BY <2>7, <3>2, <4>3, <5>3 DEF LostBefore
      <4> QED BY <2>5, <2>7, <4>1, <4>2, <4>3
    <3> QED BY <3>3, NothingIsExplained DEF NothingLost
  <2>10. CASE i2 # 0 /\ i2 = i1
    <3>1. o2 = t1 /\ FlightRow(t1)
      BY <2>4, <2>6, <2>10
    <3>4. /\ t1.status = "pending" => t2.lost = 0
          /\ t1.status = "partial" => t2.lost = t1.lost
          /\ t1.status = "paid" => t2.lost = t1.cash
      BY <2>2, <2>4, <3>1, SettledLost
    <3> HIDE DEF t2
    <3>5. purse - purse' = a1 + a2
      BY <1>10, <2>2 DEF Spend
    <3>6. ASSUME NEW k \in DOMAIN rows', rows'[k].lost > LostBefore(k)
          PROVE  /\ k \in DOMAIN rows /\ rows[k].status # "paid"
                 /\ rows'[k].lost <= rows[k].cash + (purse - purse')
                 /\ rows[k].status = "partial" =>
                      /\ rows'[k].item = rows[k].item
                      /\ \E w \in UsableCredit(rows, rows[k].remaining) :
                           rows[k].remaining <= w + (purse - purse')
      <4>1. k = i1 /\ rows'[k] = t2
        <5>1. CASE k # i2
          <6>1. k \in DOMAIN rs /\ rows'[k] = rs[k]
            BY <2>7, <2>10, <5>1
          <6>2. ~(rs[k].lost > LostBefore(k)) /\ LostBefore(k) \in Nat /\ rs[k].lost \in Nat
            BY <1>8, <2>5, <2>8, <6>1, LedgerFacts DEF LostBefore, Row
          <6> QED BY <3>6, <6>1, <6>2
        <5> QED BY <2>7, <2>10, <5>1
      <4>2. k \in DOMAIN rows /\ rows[k].status # "paid"
        BY <2>2, <2>10, <4>1
      <4>3. t1.status = "paid" /\ t2.lost = t1.cash
        <5>1. t2.lost \in {0, t1.lost} => rows'[k].lost <= LostBefore(k)
          BY <1>7a, <2>5, <4>1, <4>2 DEF LostBefore
        <5>2. ~(rows'[k].lost <= LostBefore(k))
          <6>1. rows'[k].lost \in Nat /\ LostBefore(k) \in Nat
            BY <2>4a, <2>5, <4>1, <4>2 DEF LostBefore, Row
          <6> QED BY <3>6, <6>1
        <5> QED BY <3>1, <3>4, <5>1, <5>2 DEF FlightRow, Row, Statuses
      <4>4. rows'[k].lost <= rows[k].cash + (purse - purse')
        BY <1>7a, <2>2, <2>5, <2>10, <3>5, <4>1, <4>2, <4>3
      <4>5. ASSUME rows[k].status = "partial"
            PROVE  /\ rows'[k].item = rows[k].item
                   /\ \E w \in UsableCredit(rows, rows[k].remaining) :
                        rows[k].remaining <= w + (purse - purse')
        <5>1. rows[k].item = c1 /\ rows[k].item = c2
          BY <2>10, <4>1, <4>5, TargetsItem
        <5>2. rows'[k].item = rows[k].item
          BY <2>4a, <4>1, <5>1
        <5>3. rows[k].remaining \in Nat /\ rows[k].remaining > 0
          BY <2>5, <4>2, <4>5, LedgerFacts, <1>4 DEF Row, RowOK, StatusExplained
        <5>4. w1 \in UsableCredit(rows, rows[k].remaining)
          BY <2>10, <4>1, <4>5, <5>3 DEF RowFor, Basis
        <5>5. rows[k].remaining <= w1 + a1
          BY <1>7a, <2>10, <4>1, <4>3, <4>5
        <5>6. w1 \in Nat
          BY <5>3, <5>4, CreditFacts
        <5>7. rows[k].remaining <= w1 + (purse - purse')
          BY <2>2, <3>5, <5>3, <5>5, <5>6
        <5> QED BY <5>2, <5>4, <5>7
      <4> QED BY <4>2, <4>4, <4>5
    <3> QED BY <3>6 DEF LossExplained
  <2> QED BY <2>9, <2>10
<1> QED BY <1>2, <1>9, <1>10

LEMMA NextLoss == IInv /\ [Next]_vars => LossExplained
<1> SUFFICES ASSUME IInv, [Next]_vars PROVE LossExplained
  OBVIOUS
<1>0. Amounts \subseteq Nat
  BY LedgerAssumption DEF Amounts
<1>1. CASE \/ UNCHANGED vars
           \/ \E f \in Flights, mode \in Modes, w \in Amounts : Submit(f, mode, w)
           \/ \E f \in Flights, k \in {"online", "cash"} : Reject(f, k)
           \/ \E adm \in Admins, f \in Flights : ApprovePrompt(adm, f) \/ CashPrompt(adm, f)
           \/ \E adm \in Admins, i \in DOMAIN rows, p \in Providers : AccountPrompt(adm, i, p)
           \/ \E adm \in Admins, i \in DOMAIN rows : VerifyPrompt(adm, i)
           \/ \E adm \in Admins, c \in Cargos, type \in Types : UnpaidPrompt(adm, c, type)
           \/ \E adm \in Admins : Cancel(adm)
  <2>1. UNCHANGED rows
    BY <1>1 DEF vars, Submit, Reject, ApprovePrompt, CashPrompt, AccountPrompt,
                VerifyPrompt, UnpaidPrompt, Cancel
  <2> QED BY <2>1, RewriteLost, StateFacts, NothingIsExplained
<1>2. CASE \E f \in Flights : ReportSent(f) \/ ManuallySent(f)
  BY <1>2, SenderLost, NothingIsExplained
<1>3. CASE \E adm \in Admins, a \in Amounts :
             \/ ApproveAmount(adm, a) \/ CashAmount(adm, a)
             \/ AccountAmount(adm, a) \/ VerifyAmount(adm, a) \/ UnpaidAmount(adm, a)
  BY <1>0, <1>3, ApproveAmountLost, CashAmountLost, VerificationLost, NothingIsExplained
<1>4. CASE \E c \in Cargos, type \in Types, a \in Amounts : PosBulk(c, type, a)
  BY <1>0, <1>4, PosBulkLost
<1>5. CASE \/ \E c \in Cargos, type \in Types, a \in Amounts : PosPay(c, type, a)
           \/ \E i \in DOMAIN rows, type \in Types, a \in Amounts : PosExisting(i, type, a)
           \/ \E i \in DOMAIN rows : MarkTransactionTaken(i) \/ UpdateTakenStatus(i)
  BY <1>0, <1>5, PosPayLost, PosExistingLost, FlagsLoseNothing, NothingIsExplained
<1>6. CASE \E a \in -Purse..Purse : AdjustBalance(a)
  <2>1. PICK a : rows' = Append(rows, Adjustment(a))
    BY <1>6 DEF AdjustBalance
  <2>2. Adjustment(a).lost = 0
    BY GoneFacts DEF Adjustment, Row
  <2> QED BY <2>1, <2>2, AppendLost, StateFacts, NothingIsExplained
<1>7. CASE \/ \E a \in Amounts : ApplyPayment(a) \/ Refund(a)
           \/ \E flights \in SUBSET Flights, first \in Flights, fee \in Amounts :
                Deliver(first, flights, fee)
  BY <1>0, <1>7, WalletDeskLost, DeliverLost, NothingIsExplained
<1> QED BY <1>1, <1>2, <1>3, <1>4, <1>5, <1>6, <1>7 DEF Next

\* paid_amount goes on counting every payment it counted, whatever handlers and
\* dialogues write the row, except when one POS transaction writes it twice; then it
\* leaves out what that transaction typed, or the payments of a partial row which the
\* first of its items has closed.
THEOREM LossIsAlwaysInBatch == Spec => LossIsInBatch
<1>1. IInv /\ [Next]_vars =>
        [\A i \in DOMAIN rows' :
          rows'[i].lost > LostBefore(i) =>
            /\ i \in DOMAIN rows /\ rows[i].status # "paid"
            /\ rows'[i].lost <= rows[i].cash + (purse - purse')
            /\ rows[i].status = "partial" =>
                 /\ rows'[i].item = rows[i].item
                 /\ \E w \in UsableCredit(rows, rows[i].remaining) :
                      rows[i].remaining <= w + (purse - purse')]_vars
  BY NextLoss DEF LossExplained
<1> QED BY <1>1, Inductive, PTL DEF Spec, LossIsInBatch
==============================================================================
