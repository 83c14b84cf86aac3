------------------------- MODULE PaymentLedgerProofs -------------------------
(***************************************************************************)
(* Every reachable state of PaymentLedger is well typed and explains every *)
(* one of its rows, for any flights, cargos, prices, admins and bounds.    *)
(*                                                                         *)
(* The inductive invariant IInv adds to TypeOK and the row invariants what *)
(* the open dialogues point to: between its prompt and its amount message  *)
(* a dialogue keeps the id of a row, and when the amount arrives the row   *)
(* must still be one of the dialogue's flight, or have been deleted, which *)
(* the handler notices.  It is, because no handler moves a row to another  *)
(* flight, or writes in the place of a deleted one (Grows).                *)
(*                                                                         *)
(* The last part shows that rows and reported cargo go together, and with  *)
(* it that the ledger implements ReportBook.                               *)
(***************************************************************************)
EXTENDS PaymentLedger, LedgerRowProofs, SequenceTheorems

\* A table in which every row is explained.
Ledger(rs) == rs \in Seq(Row) /\ \A i \in DOMAIN rs : RowOK(rs[i])

\* Row i of rs is deleted in qs, where another row charges for its flight: the
\* other one, for Gone is of no flight.
Superseded(rs, qs, i) ==
    /\ qs[i] = Gone /\ rs[i].flight \in Flights
    /\ \E j \in DOMAIN qs : qs[j].flight = rs[i].flight

\* The table qs keeps the rows of rs and their flights, but for superseded rows,
\* and nothing is written in the place of a deleted row.
Grows(rs, qs) ==
    /\ DOMAIN rs \subseteq DOMAIN qs
    /\ \A i \in DOMAIN rs :
         /\ rs[i] = Gone => qs[i] = Gone
         /\ qs[i].flight = rs[i].flight \/ Superseded(rs, qs, i)

\* Nothing is deleted either.
SameFlights(rs, qs) == \A i \in DOMAIN rs : qs[i].flight = rs[i].flight

\* What the row id in a dialogue's data points to.
Points(p) ==
    /\ p.kind \in {"account", "verify"} => rows[p.tx] = Gone \/ rows[p.tx].flight \in Flights
    /\ p.kind = "cash" => /\ p.tx # 0 => rows[p.tx] = Gone \/ rows[p.tx].flight = p.flight
                          /\ p.partial => p.tx # 0

PromptsPoint == \A adm \in Admins : Points(prompt[adm])

IInv == TypeOK /\ Ledger(rows) /\ PromptsPoint /\ SentIsBilled
------------------------------------------------------------------------------
(* Tables *)

\* The domain of a table and the types of its rows.
LEMMA LedgerFacts ==
    ASSUME NEW rs, Ledger(rs)
    PROVE  /\ Len(rs) \in Nat /\ DOMAIN rs = 1 .. Len(rs) /\ 0 \notin DOMAIN rs
           /\ \A i \in DOMAIN rs : rs[i] \in Row /\ RowOK(rs[i])
           /\ \A i \in DOMAIN rs : rs[i].flight \in Flights => FlightRow(rs[i])
<1>1. rs \in Seq(Row)
  BY DEF Ledger
<1>2. Len(rs) \in Nat /\ DOMAIN rs = 1 .. Len(rs) /\ \A i \in DOMAIN rs : rs[i] \in Row
  BY <1>1
<1> QED BY <1>2, NamesAssumption DEF Ledger, FlightRow

\* An inserted row.
LEMMA AppendOK ==
    ASSUME NEW rs, Ledger(rs), NEW t \in Row, RowOK(t)
    PROVE  Ledger(Append(rs, t)) /\ Grows(rs, Append(rs, t)) /\ SameFlights(rs, Append(rs, t))
           /\ Append(rs, t)[Len(rs) + 1] = t /\ Len(rs) + 1 \in DOMAIN Append(rs, t)
<1>1. rs \in Seq(Row) /\ \A i \in DOMAIN rs : RowOK(rs[i])
  BY DEF Ledger
<1>2. /\ Append(rs, t) \in Seq(Row) /\ Len(rs) \in Nat
      /\ DOMAIN rs = 1 .. Len(rs) /\ DOMAIN Append(rs, t) = 1 .. Len(rs) + 1
      /\ \A i \in 1 .. Len(rs) : Append(rs, t)[i] = rs[i]
      /\ Append(rs, t)[Len(rs) + 1] = t
  BY <1>1
<1>3. \A i \in DOMAIN Append(rs, t) : RowOK(Append(rs, t)[i])
  <2> SUFFICES ASSUME NEW i \in 1 .. Len(rs) + 1 PROVE RowOK(Append(rs, t)[i])
    BY <1>2
  <2>1. CASE i \in 1 .. Len(rs)
    BY <1>1, <1>2, <2>1
  <2>2. CASE i = Len(rs) + 1
    BY <1>2, <2>2
  <2> QED BY <1>2, <2>1, <2>2
<1>4. Grows(rs, Append(rs, t)) /\ SameFlights(rs, Append(rs, t))
  BY <1>2 DEF Grows, SameFlights
<1> QED BY <1>2, <1>3, <1>4 DEF Ledger

\* Any rewriting of the rows in place.
LEMMA RewriteOK ==
    ASSUME NEW rs, Ledger(rs), NEW qs, qs = [i \in DOMAIN rs |-> qs[i]],
           \A i \in DOMAIN rs : /\ qs[i] \in Row /\ RowOK(qs[i])
                                /\ qs[i].flight = rs[i].flight
                                /\ rs[i] = Gone => qs[i] = Gone
    PROVE  Ledger(qs) /\ Grows(rs, qs)
<1>1. Len(rs) \in Nat /\ DOMAIN rs = 1 .. Len(rs)
  BY LedgerFacts
<1>2. qs \in [1 .. Len(rs) -> Row]
  BY <1>1
<1>3. qs \in Seq(Row)
  BY <1>1, <1>2, SeqDef
<1>4. DOMAIN qs = DOMAIN rs
  BY <1>1, <1>2
<1> QED BY <1>3, <1>4 DEF Ledger, Grows

\* One row updated.
LEMMA UpdateOK ==
    ASSUME NEW rs, Ledger(rs), NEW i \in DOMAIN rs, NEW t \in Row, RowOK(t),
           t.flight = rs[i].flight, rs[i] # Gone
    PROVE  /\ Ledger([rs EXCEPT ![i] = t]) /\ Grows(rs, [rs EXCEPT ![i] = t])
           /\ SameFlights(rs, [rs EXCEPT ![i] = t])
<1> DEFINE qs == [rs EXCEPT ![i] = t]
<1>1. rs \in Seq(Row) /\ \A k \in DOMAIN rs : RowOK(rs[k])
  BY DEF Ledger
<1>2. qs \in Seq(Row) /\ DOMAIN qs = DOMAIN rs
  BY <1>1
<1>3. \A k \in DOMAIN rs : qs[k] = IF k = i THEN t ELSE rs[k]
  BY <1>1
<1> HIDE DEF qs
<1>4. Ledger(qs) /\ Grows(rs, qs) /\ SameFlights(rs, qs)
  BY <1>1, <1>2, <1>3 DEF Ledger, Grows, SameFlights
<1> QED BY <1>4 DEF qs

\* The row a handler found, or is about to insert.
LEMMA RowForOK ==
    ASSUME NEW rs, Ledger(rs), NEW f \in Flights, NEW i,
           i # 0 => i \in DOMAIN rs /\ rs[i].flight = f
    PROVE  FlightRow(RowFor(rs, i, f)) /\ RowFor(rs, i, f).flight = f
<1>1. CASE i = 0
  BY <1>1, PendingDebtOK DEF RowFor
<1>2. CASE i # 0
  BY <1>2, LedgerFacts DEF RowFor
<1> QED BY <1>1, <1>2

\* The row a handler writes back, or inserts.
LEMMA PutOK ==
    ASSUME NEW rs, Ledger(rs), NEW i, NEW t, FlightRow(t),
           i # 0 => i \in DOMAIN rs /\ rs[i].flight = t.flight
    PROVE  Ledger(Put(rs, i, t)) /\ Grows(rs, Put(rs, i, t)) /\ SameFlights(rs, Put(rs, i, t))
<1>1. t \in Row /\ RowOK(t)
  BY DEF FlightRow
<1>2. CASE i = 0
  BY <1>1, <1>2, AppendOK DEF Put
<1>3. CASE i # 0
  <2>1. t.flight \in Flights
    BY <1>1 DEF FlightRow, Row
  <2> QED BY <1>1, <1>3, <2>1, UpdateOK, GoneFacts DEF Put
<1> QED BY <1>2, <1>3

\* A flight that is charged for stays charged for.
LEMMA FlightKept ==
    ASSUME NEW rs, NEW qs, Grows(rs, qs), NEW i \in DOMAIN rs
    PROVE  \E j \in DOMAIN qs : qs[j].flight = rs[i].flight
BY DEF Grows, Superseded

\* Two writes of one transaction.
LEMMA GrowsTransitive ==
    ASSUME NEW rs, NEW qs, NEW us, Grows(rs, qs), Grows(qs, us)
    PROVE  Grows(rs, us)
<1>1. DOMAIN rs \subseteq DOMAIN us
  BY DEF Grows
<1>2. ASSUME NEW i \in DOMAIN rs
      PROVE  /\ rs[i] = Gone => us[i] = Gone
             /\ us[i].flight = rs[i].flight \/ Superseded(rs, us, i)
  <2>1. i \in DOMAIN qs
    BY DEF Grows
  <2>2. CASE qs[i].flight = rs[i].flight
    BY <2>1, <2>2 DEF Grows, Superseded
  <2>3. CASE Superseded(rs, qs, i)
    <3>1. us[i] = Gone /\ rs[i].flight \in Flights
      BY <2>1, <2>3 DEF Grows, Superseded
    <3>2. PICK j \in DOMAIN qs : qs[j].flight = rs[i].flight
      BY <2>3 DEF Superseded
    <3>3. \E k \in DOMAIN us : us[k].flight = rs[i].flight
      BY <3>2, FlightKept
    <3> QED BY <3>1, <3>3 DEF Superseded
  <2> QED BY <2>2, <2>3 DEF Grows
<1> QED BY <1>1, <1>2 DEF Grows

LEMMA GrowsReflexive ==
    ASSUME NEW rs
    PROVE  Grows(rs, rs)
BY DEF Grows
------------------------------------------------------------------------------
(* Queries *)

\* A found row belongs to the flight and the item it was looked up by.
LEMMA RowsAtFacts ==
    ASSUME NEW f, NEW item
    PROVE  /\ \A i \in RowsAt(f, item) : i \in DOMAIN rows /\ rows[i].flight = f
           /\ \A i \in BestRows(RowsAt(f, item)) : i \in DOMAIN rows /\ rows[i].flight = f
BY DEF RowsAt, BestRows

\* The row of a flight the lookup returns, 0 when there is none, is none of those
\* it deletes.
LEMMA FoundFacts ==
    ASSUME NEW f, NEW i \in Found(f), i # 0
    PROVE  /\ i \in DOMAIN rows /\ rows[i].flight = f /\ rows[i].item = Whole
           /\ i \in DOMAIN Healed(rows, f) /\ Healed(rows, f)[i] = rows[i]
<1>1. /\ i \in FlightRows(f)
      /\ RealRows(rows, f) # {} => i \in RealRows(rows, f)
  BY DEF Found, FlightRows, RowsAt, RealRows
<1>2. i \in DOMAIN rows /\ rows[i].flight = f /\ rows[i].item = Whole
  BY <1>1 DEF FlightRows, RowsAt
<1>3. CASE RealRows(rows, f) = {}
  BY <1>2, <1>3 DEF Healed
<1>4. CASE RealRows(rows, f) # {}
  <2>1. ~Ghost(rows[i])
    BY <1>1, <1>4 DEF RealRows
  <2> QED BY <1>2, <1>4, <2>1 DEF Healed
<1> QED BY <1>2, <1>3, <1>4

\* What the lookup of a flight leaves of a table: each row as it was, or deleted.
LEMMA HealedRows ==
    ASSUME NEW rs, NEW f
    PROVE  /\ DOMAIN Healed(rs, f) = DOMAIN rs
           /\ \A i \in DOMAIN rs :
                \/ Healed(rs, f)[i] = rs[i]
                \/ /\ Healed(rs, f)[i] = Gone
                   /\ rs[i].flight = f /\ Ghost(rs[i]) /\ RealRows(rs, f) # {}
BY DEF Healed

\* It leaves a flight that was charged for another row that charges for it.
LEMMA HealedOK ==
    ASSUME NEW rs, Ledger(rs), NEW f \in Flights
    PROVE  Ledger(Healed(rs, f)) /\ Grows(rs, Healed(rs, f))
<1> DEFINE qs == Healed(rs, f)
<1>1. DOMAIN qs = DOMAIN rs /\ Len(rs) \in Nat /\ DOMAIN rs = 1 .. Len(rs)
  BY LedgerFacts, HealedRows
<1>2. \A i \in DOMAIN rs : qs[i] \in Row /\ RowOK(qs[i])
  BY HealedRows, LedgerFacts, GoneFacts
<1>3. qs = [i \in DOMAIN rs |-> qs[i]]
  <2>1. CASE RealRows(rs, f) = {}
    <3>1. rs \in [1 .. Len(rs) -> Row]
      BY <1>1, LedgerFacts DEF Ledger
    <3> QED BY <1>1, <2>1, <3>1 DEF Healed
  <2>2. CASE RealRows(rs, f) # {}
    BY <2>2 DEF Healed
  <2> QED BY <2>1, <2>2
<1>4. Ledger(qs)
  <2>1. qs \in [1 .. Len(rs) -> Row]
    BY <1>1, <1>2, <1>3
  <2>2. qs \in Seq(Row)
    BY <1>1, <2>1, SeqDef
  <2> QED BY <1>1, <1>2, <2>2 DEF Ledger
<1>5. ASSUME NEW i \in DOMAIN rs
      PROVE  /\ rs[i] = Gone => qs[i] = Gone
             /\ qs[i].flight = rs[i].flight \/ Superseded(rs, qs, i)
  <2>1. CASE qs[i] = rs[i]
    BY <2>1
  <2>2. CASE qs[i] # rs[i]
    <3>1. qs[i] = Gone /\ rs[i].flight = f /\ RealRows(rs, f) # {}
      BY <2>2, HealedRows
    <3>2. PICK j \in RealRows(rs, f) : TRUE
      BY <3>1
    <3>3. j \in DOMAIN rs /\ rs[j].flight = f /\ ~Ghost(rs[j])
      BY <3>2 DEF RealRows
    <3>4. qs[j] = rs[j]
      BY <3>3, HealedRows
    <3> QED BY <1>1, <3>1, <3>3, <3>4 DEF Superseded
  <2> QED BY <2>1, <2>2
<1> HIDE DEF qs
<1>6. Grows(rs, qs)
  BY <1>1, <1>5 DEF Grows
<1> QED BY <1>4, <1>6 DEF qs

\* The row a POS payment is booked on.
LEMMA TargetsFacts ==
    ASSUME NEW c, NEW i \in TargetsOf(c)
    PROVE  i # 0 => i \in DOMAIN rows /\ rows[i].flight = FlightOf[c]
BY RowsAtFacts DEF TargetsOf, OwnRow, PendingRow, FlightRows

\* Prices are natural numbers, and a newly sent batch costs something.
LEMMA BillFacts ==
    /\ \A S \in SUBSET Cargos : Bill[S] \in Nat
    /\ \A S \in SUBSET Cargos : S # {} => Bill[S] > 0
    /\ \A c \in Cargos : Bill[{c}] \in Nat /\ FlightOf[c] \in Flights /\ BotPrice[c] \in Nat
<1>1. \A c \in Cargos : {c} \in SUBSET Cargos
  OBVIOUS
<1> QED BY <1>1, LedgerAssumption

\* The amount due is a natural number, and so is what the wallet gives for it.
LEMMA BasisFacts ==
    ASSUME NEW t \in Row, NEW bill \in Nat
    PROVE  Basis(t, bill) \in Nat
BY DEF Basis, Row

LEMMA CreditFacts ==
    ASSUME NEW rs, NEW due \in Nat, NEW w \in UsableCredit(rs, due)
    PROVE  w \in Nat
BY DEF UsableCredit
------------------------------------------------------------------------------
(* Frames of the inductive step *)

\* The initial table is empty.
LEMMA InitOK == Init => IInv
<1> SUFFICES ASSUME Init PROVE IInv
  OBVIOUS
<1>1. rows = <<>> /\ rows \in Seq(Row) /\ DOMAIN rows = {}
  BY DEF Init
<1>2. TypeOK
  BY <1>1, LedgerAssumption DEF Init, TypeOK, Modes, Prompts, NoPrompt
<1>3. Ledger(rows) /\ SentIsBilled
  BY <1>1 DEF Init, Ledger, SentIsBilled
<1>4. PromptsPoint
  BY DEF Init, PromptsPoint, Points, NoPrompt
<1> QED BY <1>2, <1>3, <1>4 DEF IInv

\* What is left of the purse after an amount has been typed.
LEMMA SpendFacts ==
    ASSUME TypeOK, NEW a \in Nat, Spend(a)
    PROVE  purse' \in Nat
BY DEF TypeOK, Spend

\* A dialogue goes on pointing to a row of its flight, or to a deleted one.
LEMMA PointsKept ==
    ASSUME Grows(rows, rows'), NEW p, Points(p),
           p.kind \in {"account", "verify"} => p.tx \in DOMAIN rows,
           p.kind = "cash" => p.tx \in {0} \cup DOMAIN rows
    PROVE  Points(p)'
<1>1. \A i \in DOMAIN rows :
        rows'[i] = Gone \/ (rows[i] # Gone /\ rows'[i].flight = rows[i].flight)
  BY DEF Grows, Superseded
<1> QED BY <1>1 DEF Points

\* Reported flights go on being charged for.
LEMMA BilledKept ==
    ASSUME Grows(rows, rows'), NEW f, \E i \in DOMAIN rows : rows[i].flight = f
    PROVE  \E i \in DOMAIN rows' : rows'[i].flight = f
BY FlightKept

\* A handler that writes the table and closes dialogues, or leaves them.
LEMMA WriteOK ==
    ASSUME IInv, Ledger(rows'), Grows(rows, rows'), purse' \in Nat, sent' = sent,
           walletKey' \in [Flights -> Nat], modeKey' \in [Flights -> Modes],
           asked' \in [Flights -> SUBSET {"online", "cash"}],
           prompt' \in [Admins -> Prompts],
           \A adm \in Admins : prompt'[adm] = prompt[adm] \/ prompt'[adm] = NoPrompt
    PROVE  IInv' /\ Grows(rows, rows')
<1>1. Points(NoPrompt)' /\ NoPrompt.kind = "none"
  BY DEF Points, NoPrompt
<1>2. ASSUME NEW adm \in Admins PROVE Points(prompt[adm])'
  <2>1. CASE prompt'[adm] = NoPrompt
    BY <1>1, <2>1 DEF Points
  <2>2. CASE prompt'[adm] = prompt[adm]
    <3>1. /\ Points(prompt[adm]) /\ prompt[adm] \in Prompts
          /\ prompt[adm].kind \in {"account", "verify"} => prompt[adm].tx \in DOMAIN rows
          /\ prompt[adm].kind = "cash" => prompt[adm].tx \in {0} \cup DOMAIN rows
      BY DEF IInv, TypeOK, PromptsPoint
    <3> QED BY <2>2, <3>1, PointsKept
  <2> QED BY <2>1, <2>2
<1>3. TypeOK'
  <2>1. \A adm \in Admins :
          /\ prompt'[adm].kind \in {"account", "verify"} => prompt'[adm].tx \in DOMAIN rows'
          /\ prompt'[adm].kind = "cash" => prompt'[adm].tx \in {0} \cup DOMAIN rows'
    <3> SUFFICES ASSUME NEW adm \in Admins
                 PROVE  /\ prompt'[adm].kind \in {"account", "verify"} => prompt'[adm].tx \in DOMAIN rows'
                        /\ prompt'[adm].kind = "cash" => prompt'[adm].tx \in {0} \cup DOMAIN rows'
      OBVIOUS
    <3>1. CASE prompt'[adm] = NoPrompt
      BY <1>1, <3>1
    <3>2. CASE prompt'[adm] = prompt[adm]
      BY <3>2 DEF IInv, TypeOK, Grows
    <3> QED BY <3>1, <3>2
  <2>2. rows' \in Seq(Row) /\ sent' \subseteq Cargos
    BY DEF Ledger, IInv, TypeOK
  <2> QED BY <2>1, <2>2 DEF TypeOK
<1>4. SentIsBilled'
  BY BilledKept DEF IInv, SentIsBilled
<1> QED BY <1>2, <1>3, <1>4 DEF IInv, PromptsPoint

\* A handler that stores p in the dialogue of adm and writes nothing else.
LEMMA PromptOK ==
    ASSUME IInv, NEW adm \in Admins, NEW p \in Prompts, Points(p),
           p.kind \in {"account", "verify"} => p.tx \in DOMAIN rows,
           p.kind = "cash" => p.tx \in {0} \cup DOMAIN rows,
           prompt' = [prompt EXCEPT ![adm] = p],
           asked' \in [Flights -> SUBSET {"online", "cash"}],
           UNCHANGED <<rows, sent, redis, purse>>
    PROVE  IInv' /\ Grows(rows, rows')
<1>1. /\ prompt \in [Admins -> Prompts] /\ prompt' \in [Admins -> Prompts]
      /\ prompt'[adm] = p
      /\ \A other \in Admins : other # adm => prompt'[other] = prompt[other]
  BY DEF IInv, TypeOK
<1>2. rows' = rows /\ sent' = sent /\ walletKey' = walletKey /\ modeKey' = modeKey
      /\ purse' = purse
  BY DEF redis
<1>3. PromptsPoint'
  BY <1>1, <1>2 DEF IInv, PromptsPoint, Points
<1>4. TypeOK'
  BY <1>1, <1>2 DEF IInv, TypeOK
<1>5. Ledger(rows)' /\ SentIsBilled'
  BY <1>2 DEF IInv, SentIsBilled
<1>6. Grows(rows, rows')
  BY <1>2, GrowsReflexive
<1> QED BY <1>3, <1>4, <1>5, <1>6 DEF IInv
------------------------------------------------------------------------------
(* The bulk cargo sender *)

\* The table, the dialogues and Redis as a handler finds them.
LEMMA StateFacts ==
    ASSUME IInv
    PROVE  /\ Ledger(rows) /\ TypeOK /\ purse \in Nat
           /\ walletKey \in [Flights -> Nat] /\ modeKey \in [Flights -> Modes]
           /\ asked \in [Flights -> SUBSET {"online", "cash"}]
           /\ prompt \in [Admins -> Prompts]
BY DEF IInv, TypeOK

\* Newly sent cargo of a flight is billed on a row of the flight.
LEMMA SentOK ==
    ASSUME IInv, NEW f \in Flights, NEW batch \in SUBSET Cargos,
           \A c \in batch : FlightOf[c] = f,
           sent' = sent \cup batch, Ledger(rows'), Grows(rows, rows'),
           \E i \in DOMAIN rows' : rows'[i].flight = f,
           UNCHANGED <<redis, asked, prompt, purse>>
    PROVE  IInv' /\ Grows(rows, rows')
<1>1. /\ walletKey' = walletKey /\ modeKey' = modeKey /\ asked' = asked
      /\ prompt' = prompt /\ purse' = purse
  BY DEF redis
<1>2. TypeOK'
  BY <1>1 DEF IInv, TypeOK, Ledger, Grows
<1>3. PromptsPoint'
  <2> SUFFICES ASSUME NEW adm \in Admins PROVE Points(prompt[adm])'
    BY DEF PromptsPoint
  <2>1. /\ Points(prompt[adm])
        /\ prompt[adm].kind \in {"account", "verify"} => prompt[adm].tx \in DOMAIN rows
        /\ prompt[adm].kind = "cash" => prompt[adm].tx \in {0} \cup DOMAIN rows
    BY DEF IInv, TypeOK, PromptsPoint
  <2> QED BY <1>1, <2>1, PointsKept
<1>4. SentIsBilled'
  BY BilledKept DEF IInv, SentIsBilled
<1> QED BY <1>2, <1>3, <1>4 DEF IInv

\* A new debt row bills the batch.
LEMMA BilledOK ==
    ASSUME IInv, NEW f \in Flights, NEW bill \in Nat,
           rows' = Append(rows, PendingDebt(f, bill))
    PROVE  /\ Ledger(rows') /\ Grows(rows, rows')
           /\ \E i \in DOMAIN rows' : rows'[i].flight = f
<1>1. Ledger(rows)
  BY DEF IInv
<1>2. PendingDebt(f, bill) \in Row /\ RowOK(PendingDebt(f, bill))
      /\ PendingDebt(f, bill).flight = f
  BY PendingDebtOK DEF FlightRow
<1> HIDE DEF PendingDebt
<1> QED BY <1>1, <1>2, AppendOK

LEMMA ReportSentStep ==
    ASSUME IInv, NEW f \in Flights, ReportSent(f)
    PROVE  IInv' /\ Grows(rows, rows')
<1>1. PICK batch \in SUBSET {c \in Cargos \ sent : FlightOf[c] = f} :
        /\ sent' = sent \cup batch
        /\ IF FlightRows(f) = {}
           THEN rows' = Append(rows, PendingDebt(f, Bill[batch]))
           ELSE rows' = Healed(rows, f)
  BY DEF ReportSent
<1>2. batch \in SUBSET Cargos /\ Bill[batch] \in Nat /\ \A c \in batch : FlightOf[c] = f
  BY BillFacts
<1>3. /\ Ledger(rows') /\ Grows(rows, rows')
      /\ \E i \in DOMAIN rows' : rows'[i].flight = f
  <2>1. CASE FlightRows(f) = {}
    BY <1>1, <1>2, <2>1, BilledOK
  <2>2. CASE FlightRows(f) # {}
    <3>1. Ledger(rows') /\ Grows(rows, rows')
      BY <1>1, <2>2, HealedOK, StateFacts
    <3>2. PICK i \in DOMAIN rows : rows[i].flight = f
      BY <2>2, RowsAtFacts DEF FlightRows
    <3> QED BY <3>1, <3>2, FlightKept
  <2> QED BY <2>1, <2>2
<1> QED BY <1>1, <1>2, <1>3, SentOK DEF ReportSent

LEMMA ManuallySentStep ==
    ASSUME IInv, NEW f \in Flights, ManuallySent(f)
    PROVE  IInv' /\ Grows(rows, rows')
<1>1. PICK batch \in SUBSET {c \in Cargos \ sent : FlightOf[c] = f} :
        /\ batch # {} /\ sent' = sent \cup batch
        /\ \/ rows' = Append(rows, PendingDebt(f, Bill[batch]))
           \/ \E i \in Found(f) \ {0} :
                rows' = [Healed(rows, f) EXCEPT ![i] = Extended(rows[i], Bill[batch])]
  BY DEF ManuallySent
<1>2. /\ batch \in SUBSET Cargos /\ Bill[batch] \in Nat /\ Bill[batch] > 0
      /\ \A c \in batch : FlightOf[c] = f
  BY <1>1, BillFacts
<1>3. /\ Ledger(rows') /\ Grows(rows, rows')
      /\ \E i \in DOMAIN rows' : rows'[i].flight = f
  <2>1. CASE rows' = Append(rows, PendingDebt(f, Bill[batch]))
    BY <1>2, <2>1, BilledOK
  <2>2. CASE \E i \in Found(f) \ {0} :
               rows' = [Healed(rows, f) EXCEPT ![i] = Extended(rows[i], Bill[batch])]
    <3> DEFINE kept == Healed(rows, f)
    <3>1. PICK i \in Found(f) \ {0} :
            rows' = [kept EXCEPT ![i] = Extended(rows[i], Bill[batch])]
      BY <2>2
    <3>2. /\ i \in DOMAIN rows /\ rows[i].flight = f /\ FlightRow(rows[i])
          /\ i \in DOMAIN kept /\ kept[i] = rows[i]
      BY LedgerFacts, FoundFacts, StateFacts
    <3>3. Ledger(kept) /\ Grows(rows, kept)
      BY HealedOK, StateFacts
    <3> HIDE DEF kept
    <3>4. /\ Extended(rows[i], Bill[batch]) \in Row /\ RowOK(Extended(rows[i], Bill[batch]))
          /\ Extended(rows[i], Bill[batch]).flight = rows[i].flight
      BY <1>2, <3>2, ExtendedOK DEF FlightRow
    <3>5. kept[i] # Gone
      BY <3>2, GoneFacts
    <3>6. Ledger(rows') /\ Grows(kept, rows')
      BY <3>1, <3>2, <3>3, <3>4, <3>5, UpdateOK
    <3>7. Grows(rows, rows')
      BY <3>3, <3>6, GrowsTransitive
    <3> QED BY <3>2, <3>6, <3>7, FlightKept
  <2> QED BY <1>1, <2>1, <2>2
<1> QED BY <1>1, <1>2, <1>3, SentOK DEF ManuallySent
------------------------------------------------------------------------------
(* The bot's approval and cash dialogues *)

\* What each kind of dialogue keeps.
LEMMA DialogueFacts ==
    ASSUME NEW p \in Prompts
    PROVE  /\ p.kind \in {"online", "cash"} => p.flight \in Flights
           /\ p.kind \in {"cash", "account", "verify"} => p.tx \in Nat
           /\ p.kind = "unpaid" => p.cargo \in Cargos
BY DEF Prompts, NoPrompt

\* A handler that opens no dialogue keeps them typed when it closes its own.
LEMMA ClosedFacts ==
    ASSUME prompt \in [Admins -> Prompts], NEW adm \in Admins,
           prompt' = [prompt EXCEPT ![adm] = NoPrompt] \/ prompt' = prompt
    PROVE  /\ prompt' \in [Admins -> Prompts]
           /\ \A other \in Admins :
                prompt'[other] = prompt[other] \/ prompt'[other] = NoPrompt
BY DEF Prompts

LEMMA SubmitStep ==
    ASSUME IInv, NEW f \in Flights, NEW mode \in Modes, NEW w \in Nat, Submit(f, mode, w)
    PROVE  IInv' /\ Grows(rows, rows')
<1>1. /\ Ledger(rows') /\ Grows(rows, rows') /\ purse' \in Nat
      /\ prompt' \in [Admins -> Prompts] /\ prompt' = prompt
  BY StateFacts, GrowsReflexive DEF Submit
<1>2. /\ walletKey' \in [Flights -> Nat] /\ modeKey' \in [Flights -> Modes]
      /\ asked' \in [Flights -> SUBSET {"online", "cash"}]
  BY StateFacts DEF Submit
<1> QED BY <1>1, <1>2, WriteOK DEF Submit

LEMMA RejectStep ==
    ASSUME IInv, NEW f \in Flights, NEW k \in {"online", "cash"}, Reject(f, k)
    PROVE  IInv' /\ Grows(rows, rows')
<1>1. /\ Ledger(rows') /\ Grows(rows, rows') /\ purse' \in Nat
      /\ walletKey' \in [Flights -> Nat] /\ modeKey' \in [Flights -> Modes]
      /\ asked' \in [Flights -> SUBSET {"online", "cash"}]
      /\ prompt' \in [Admins -> Prompts] /\ prompt' = prompt
  BY StateFacts, GrowsReflexive DEF Reject, redis
<1> QED BY <1>1, WriteOK DEF Reject

LEMMA ApprovePromptStep ==
    ASSUME IInv, NEW adm \in Admins, NEW f \in Flights, ApprovePrompt(adm, f)
    PROVE  IInv' /\ Grows(rows, rows')
<1>1. PICK i : prompt' = [prompt EXCEPT ![adm] =
                  [kind |-> "online", flight |-> f,
                   walletOnly |-> LET e == Basis(RowFor(rows, i, f), Bill[SentOn(f)])
                                  IN  walletKey[f] >= e /\ e > 0]]
  BY DEF ApprovePrompt
<1> DEFINE e == Basis(RowFor(rows, i, f), Bill[SentOn(f)])
           b == walletKey[f] >= e /\ e > 0
           p == [kind |-> "online", flight |-> f, walletOnly |-> b]
<1>2. b \in BOOLEAN
  OBVIOUS
<1>3. prompt' = [prompt EXCEPT ![adm] = p]
  BY <1>1
<1> HIDE DEF b
<1>4. p \in Prompts /\ p.kind = "online"
  BY <1>2 DEF Prompts
<1>5. Points(p)
  BY DEF Points
<1>6. asked' \in [Flights -> SUBSET {"online", "cash"}]
      /\ UNCHANGED <<rows, sent, redis, purse>>
  BY StateFacts DEF ApprovePrompt
<1> HIDE DEF p
<1> QED BY <1>3, <1>4, <1>5, <1>6, PromptOK

LEMMA CashPromptStep ==
    ASSUME IInv, NEW adm \in Admins, NEW f \in Flights, CashPrompt(adm, f)
    PROVE  IInv' /\ Grows(rows, rows')
<1>1. PICK i \in Found(f) :
        prompt' = [prompt EXCEPT ![adm] =
           [kind |-> "cash", flight |-> f, tx |-> i,
            partial |-> i # 0 /\ rows[i].status = "partial"]]
  BY DEF CashPrompt
<1> DEFINE b == i # 0 /\ rows[i].status = "partial"
           p == [kind |-> "cash", flight |-> f, tx |-> i, partial |-> b]
<1>2. /\ b \in BOOLEAN /\ (b => i # 0) /\ prompt' = [prompt EXCEPT ![adm] = p]
  BY <1>1
<1>3. i # 0 => i \in DOMAIN rows /\ rows[i].flight = f
  BY FoundFacts
<1>4. i \in Nat
  BY <1>3, StateFacts, LedgerFacts
<1> HIDE DEF b
<1>5. p \in Prompts /\ p.kind = "cash" /\ p.tx = i
  BY <1>2, <1>4 DEF Prompts
<1>6. Points(p)
  BY <1>2, <1>3 DEF Points
<1>7. asked' \in [Flights -> SUBSET {"online", "cash"}]
      /\ UNCHANGED <<rows, sent, redis, purse>>
  BY StateFacts DEF CashPrompt
<1> HIDE DEF p
<1> QED BY <1>2, <1>3, <1>5, <1>6, <1>7, PromptOK

\* A flight-level row written by a payment of a.
LEMMA WholeBookedOK ==
    ASSUME NEW t, FlightRow(t), NEW f \in Flights, NEW bill \in Nat, NEW w \in Nat,
           NEW a \in Nat, NEW provider
    PROVE  /\ FlightRow(Booked(t, f, Whole, bill, w, a, provider))
           /\ Booked(t, f, Whole, bill, w, a, provider).flight = f
           /\ Booked(t, f, Whole, bill, w, a, provider).item = Whole
<1>1. Whole \in Cargos \cup {Whole} /\ f # SysAdj
  BY NamesAssumption
<1>2. /\ FlightRow(Booked(t, f, Whole, bill, w, a, provider))
      /\ Booked(t, f, Whole, bill, w, a, provider).flight = f
  BY <1>1, BookedOK
<1>3. Booked(t, f, Whole, bill, w, a, provider).item = Whole
  BY <1>1, BookedOK
<1> QED BY <1>2, <1>3

\* The flight-level row of an approval is overwritten or topped up, never moved.
LEMMA ApproveAmountStep ==
    ASSUME IInv, NEW adm \in Admins, NEW a \in Nat, ApproveAmount(adm, a)
    PROVE  IInv' /\ Grows(rows, rows')
<1> DEFINE f == prompt[adm].flight
           kept == Healed(rows, f)
           Record(t, p) ==
               IF t.status = "partial" THEN ToppedUp(t, p, a)
               ELSE Booked(t, f, Whole, Bill[SentOn(f)], walletKey[f], a,
                           IF p = "wallet" THEN "click" ELSE p)
           booked(i, p) == Put(kept, i, Record(RowFor(rows, i, f), p))
<1>1. f \in Flights
  BY StateFacts, DialogueFacts DEF ApproveAmount
<1>2. PICK i \in Found(f) :
        \E p :
          \/ UNCHANGED <<rows, purse>>
          \/ Spend(a) /\ (rows' = booked(i, p) \/ rows' = Healed(booked(i, p), f))
  <2>1. PICK i \in Found(f),
             p \in CASE modeKey[f] = "wallet_only" -> {"wallet"}
                      [] modeKey[f] = "cash" -> {"cash"}
                      [] OTHER -> Types \ {"cash"} :
          \/ UNCHANGED <<rows, purse>>
          \/ Spend(a) /\ (rows' = booked(i, p) \/ rows' = Healed(booked(i, p), f))
    BY DEF ApproveAmount
  <2> QED BY <2>1
<1>3. i # 0 => /\ i \in DOMAIN rows /\ rows[i].flight = f /\ rows[i].item = Whole
               /\ i \in DOMAIN kept /\ kept[i] = rows[i]
  BY FoundFacts
<1>4. Ledger(rows') /\ Grows(rows, rows') /\ purse' \in Nat
  <2>1. CASE UNCHANGED <<rows, purse>>
    BY <2>1, StateFacts, GrowsReflexive
  <2>2. ASSUME NEW p, Spend(a), rows' = booked(i, p) \/ rows' = Healed(booked(i, p), f)
        PROVE  Ledger(rows') /\ Grows(rows, rows') /\ purse' \in Nat
    <3> DEFINE t == RowFor(rows, i, f)
    <3>1. FlightRow(t) /\ t.flight = f
      BY <1>1, <1>3, RowForOK, StateFacts
    <3>2. f # SysAdj /\ Bill[SentOn(f)] \in Nat /\ walletKey[f] \in Nat
      BY <1>1, StateFacts, BillFacts, NamesAssumption DEF SentOn, TypeOK
    <3>3. t.item = Whole
      BY <1>3 DEF RowFor, PendingDebt
    <3>4. Ledger(kept) /\ Grows(rows, kept)
      BY <1>1, HealedOK, StateFacts
    <3> HIDE DEF t, f, kept
    <3>5. FlightRow(Record(t, p)) /\ Record(t, p).flight = f
      <4>1. CASE t.status = "partial"
        BY <3>1, <3>3, <4>1, ToppedUpOK
      <4>2. CASE t.status # "partial"
        BY <1>1, <3>1, <3>2, <4>2, WholeBookedOK
      <4> QED BY <4>1, <4>2
    <3> HIDE DEF Record
    <3>6. booked(i, p) = Put(kept, i, Record(t, p))
      BY DEF t
    <3> HIDE DEF booked
    <3>7. Ledger(booked(i, p)) /\ Grows(kept, booked(i, p))
      BY <1>3, <3>4, <3>5, <3>6, PutOK
    <3>8. Ledger(rows') /\ Grows(booked(i, p), rows')
      BY <1>1, <2>2, <3>7, HealedOK, GrowsReflexive
    <3>9. Grows(rows, rows')
      BY <3>4, <3>7, <3>8, GrowsTransitive
    <3> QED BY <2>2, <3>8, <3>9, SpendFacts, StateFacts
  <2> QED BY <1>2, <2>1, <2>2
<1>5. /\ walletKey' \in [Flights -> Nat] /\ modeKey' \in [Flights -> Modes]
      /\ asked' \in [Flights -> SUBSET {"online", "cash"}]
      /\ prompt' = [prompt EXCEPT ![adm] = NoPrompt] \/ prompt' = prompt
      /\ sent' = sent
  <2>1. /\ \/ UNCHANGED <<redis, asked, prompt>>
           \/ prompt' = [prompt EXCEPT ![adm] = NoPrompt] /\ UNCHANGED <<redis, asked>>
           \/ /\ walletKey' = [walletKey EXCEPT ![f] = 0]
              /\ modeKey' = [modeKey EXCEPT ![f] = "none"]
              /\ asked' = [asked EXCEPT ![f] = @ \ {"online"}]
              /\ prompt' = [prompt EXCEPT ![adm] = NoPrompt]
        /\ sent' = sent
    BY DEF ApproveAmount
  <2> QED BY <2>1, StateFacts DEF redis, Modes
<1> QED BY <1>4, <1>5, ClosedFacts, StateFacts, WriteOK

\* A handler that only writes the table, spends a, and closes its dialogue.
LEMMA DialogueWriteOK ==
    ASSUME IInv, NEW adm \in Admins, Ledger(rows'), Grows(rows, rows'),
           purse' \in Nat, prompt' = [prompt EXCEPT ![adm] = NoPrompt],
           UNCHANGED <<sent, redis, asked>>
    PROVE  IInv' /\ Grows(rows, rows')
<1>1. /\ walletKey' \in [Flights -> Nat] /\ modeKey' \in [Flights -> Modes]
      /\ asked' \in [Flights -> SUBSET {"online", "cash"}]
  BY StateFacts DEF redis
<1> QED BY <1>1, ClosedFacts, StateFacts, WriteOK

LEMMA CancelStep ==
    ASSUME IInv, NEW adm \in Admins, Cancel(adm)
    PROVE  IInv' /\ Grows(rows, rows')
<1>1. Ledger(rows') /\ Grows(rows, rows') /\ purse' \in Nat
  BY StateFacts, GrowsReflexive DEF Cancel
<1> QED BY <1>1, DialogueWriteOK DEF Cancel

\* A row of a flight topped up with cash or by account, taken away or not.
LEMMA TopUpWriteOK ==
    ASSUME IInv, NEW i \in DOMAIN rows, rows[i].flight \in Flights,
           NEW a \in Nat, a > 0, NEW provider,
           NEW t, t = ToppedUp(rows[i], provider, a),
           \/ rows' = [rows EXCEPT ![i] = t]
           \/ rows' = [rows EXCEPT ![i] = IF t.remaining = 0 THEN Taken(t) ELSE t]
    PROVE  Ledger(rows') /\ Grows(rows, rows')
<1>1. FlightRow(rows[i])
  BY StateFacts, LedgerFacts
<1>2. FlightRow(t) /\ t.flight = rows[i].flight
  BY <1>1, ToppedUpOK
<1>3. FlightRow(Taken(t)) /\ Taken(t).flight = rows[i].flight
  BY <1>2, TakenOK DEF FlightRow
<1>4. rows[i] # Gone
  BY GoneFacts
<1> QED BY <1>2, <1>3, <1>4, StateFacts, UpdateOK DEF FlightRow

\* The cash dialogue writes the row it was opened on, if it is still of its
\* flight, or one it looks up again.
LEMMA CashAmountStep ==
    ASSUME IInv, NEW adm \in Admins, NEW a \in Nat, CashAmount(adm, a)
    PROVE  IInv' /\ Grows(rows, rows')
<1> DEFINE p == prompt[adm]
           kept == Healed(rows, p.flight)
           Book(i) == Taken(Booked(RowFor(rows, i, p.flight), p.flight, Whole,
                                   Bill[SentOn(p.flight)], walletKey[p.flight], a, "cash"))
<1>1. /\ p.kind = "cash" /\ p \in Prompts /\ p.flight \in Flights /\ a > 0
      /\ p.tx # 0 => p.tx \in DOMAIN rows
      /\ p.tx # 0 => rows[p.tx] = Gone \/ rows[p.tx].flight = p.flight
      /\ p.partial => p.tx # 0
      /\ Ledger(rows) /\ purse \in Nat
  BY StateFacts, DialogueFacts DEF CashAmount, IInv, TypeOK, PromptsPoint, Points
<1>2. Ledger(kept) /\ Grows(rows, kept) /\ DOMAIN kept = DOMAIN rows
  BY <1>1, HealedOK, HealedRows
<1>3. ASSUME NEW i, rows' = Put(kept, i, Book(i)),
             i # 0 => /\ i \in DOMAIN rows /\ rows[i].flight = p.flight
                      /\ kept[i].flight = p.flight
      PROVE  Ledger(rows') /\ Grows(rows, rows')
  <2> DEFINE t == RowFor(rows, i, p.flight)
  <2>1. FlightRow(t) /\ p.flight # SysAdj /\ Bill[SentOn(p.flight)] \in Nat
        /\ walletKey[p.flight] \in Nat
    BY <1>1, <1>3, RowForOK, StateFacts, BillFacts, NamesAssumption DEF SentOn, TypeOK
  <2> HIDE DEF t
  <2>2. FlightRow(Book(i)) /\ Book(i).flight = p.flight
    <3> DEFINE b == Booked(t, p.flight, Whole, Bill[SentOn(p.flight)],
                           walletKey[p.flight], a, "cash")
    <3>1. FlightRow(b) /\ b.flight = p.flight
      BY <1>1, <2>1, WholeBookedOK
    <3>2. Book(i) = Taken(b)
      BY DEF t
    <3> HIDE DEF b, Book
    <3> QED BY <3>1, <3>2, TakenOK DEF FlightRow
  <2> HIDE DEF Book, kept
  <2>3. Ledger(rows') /\ Grows(kept, rows')
    BY <1>2, <1>3, <2>2, PutOK
  <2> QED BY <1>2, <2>3, GrowsTransitive
<1>4. Ledger(rows') /\ Grows(rows, rows') /\ purse' \in Nat
  <2>0. CASE UNCHANGED <<rows, purse>>
    BY <1>1, <2>0, GrowsReflexive
  <2>1. CASE p.partial /\ ~UNCHANGED <<rows, purse>>
    <3>1. /\ rows' = [rows EXCEPT ![p.tx] =
                        IF ToppedUp(rows[p.tx], "cash", a).remaining = 0
                        THEN Taken(ToppedUp(rows[p.tx], "cash", a))
                        ELSE ToppedUp(rows[p.tx], "cash", a)]
          /\ Spend(a) /\ rows[p.tx] # Gone
      BY <2>1 DEF CashAmount
    <3>2. p.tx \in DOMAIN rows /\ rows[p.tx].flight \in Flights
      BY <1>1, <2>1, <3>1
    <3>3. Ledger(rows') /\ Grows(rows, rows')
      BY <1>1, <3>1, <3>2, TopUpWriteOK
    <3> QED BY <3>1, <3>3, SpendFacts, StateFacts
  <2>2. CASE ~p.partial /\ ~UNCHANGED <<rows, purse>>
    <3>1. PICK i \in Found(p.flight) :
            \E j \in {i, p.tx, 0} :
              /\ Spend(a) /\ rows' = Put(kept, j, Book(j))
              /\ j \in {i, 0} \/ kept[j].status = "pending"
      BY <2>2 DEF CashAmount
    <3>2. PICK j \in {i, p.tx, 0} :
            /\ Spend(a) /\ rows' = Put(kept, j, Book(j))
            /\ j \in {i, 0} \/ kept[j].status = "pending"
      BY <3>1
    <3>3. j # 0 => /\ j \in DOMAIN rows /\ rows[j].flight = p.flight
                   /\ kept[j].flight = p.flight
      <4>1. CASE j = i
        BY <4>1, FoundFacts
      <4>2. CASE j = p.tx /\ j # i /\ j # 0
        <5>1. j \in DOMAIN rows /\ kept[j].status = "pending"
          BY <1>1, <3>2, <4>2
        <5>2. kept[j] # Gone /\ rows[j] # Gone
          BY <1>2, <5>1, GoneFacts DEF Grows
        <5>3. kept[j].flight = rows[j].flight
          BY <1>2, <5>1, <5>2 DEF Grows, Superseded
        <5> QED BY <1>1, <4>2, <5>1, <5>2, <5>3
      <4> QED BY <3>2, <4>1, <4>2
    <3> HIDE DEF p, kept, Book
    <3> QED BY <1>3, <3>2, <3>3, SpendFacts, StateFacts
  <2> QED BY <2>0, <2>1, <2>2
<1> QED BY <1>4, DialogueWriteOK DEF CashAmount
------------------------------------------------------------------------------
(* The verification dialogues *)

LEMMA AccountPromptStep ==
    ASSUME IInv, NEW adm \in Admins, NEW i \in DOMAIN rows, NEW p \in Providers,
           AccountPrompt(adm, i, p)
    PROVE  IInv' /\ Grows(rows, rows')
<1> DEFINE q == [kind |-> "account", tx |-> i, provider |-> p]
<1>1. rows[i].flight \in Flights /\ i \in Nat
  BY StateFacts, LedgerFacts DEF AccountPrompt
<1>2. q \in Prompts /\ q.kind = "account" /\ q.tx = i
  BY <1>1 DEF Prompts
<1>3. Points(q)
  BY <1>1 DEF Points
<1>4. prompt' = [prompt EXCEPT ![adm] = q] /\ UNCHANGED <<rows, sent, redis, purse>>
      /\ asked' \in [Flights -> SUBSET {"online", "cash"}]
  BY StateFacts DEF AccountPrompt
<1> HIDE DEF q
<1> QED BY <1>2, <1>3, <1>4, PromptOK

LEMMA AccountAmountStep ==
    ASSUME IInv, NEW adm \in Admins, NEW a \in Nat, AccountAmount(adm, a)
    PROVE  IInv' /\ Grows(rows, rows')
<1>1. /\ prompt[adm].tx \in DOMAIN rows
      /\ rows[prompt[adm].tx] = Gone \/ rows[prompt[adm].tx].flight \in Flights
      /\ a > 0 /\ purse' \in Nat
  BY StateFacts, SpendFacts DEF AccountAmount, IInv, TypeOK, PromptsPoint, Points
<1>2. Ledger(rows') /\ Grows(rows, rows')
  <2>1. CASE rows[prompt[adm].tx] = Gone
    BY <2>1, StateFacts, GrowsReflexive DEF AccountAmount
  <2>2. CASE rows[prompt[adm].tx] # Gone
    BY <1>1, <2>2, TopUpWriteOK DEF AccountAmount
  <2> QED BY <2>1, <2>2
<1> QED BY <1>1, <1>2, DialogueWriteOK DEF AccountAmount

LEMMA VerifyPromptStep ==
    ASSUME IInv, NEW adm \in Admins, NEW i \in DOMAIN rows, VerifyPrompt(adm, i)
    PROVE  IInv' /\ Grows(rows, rows')
<1> DEFINE q == [kind |-> "verify", tx |-> i]
<1>1. rows[i].flight \in Flights /\ i \in Nat
  BY StateFacts, LedgerFacts DEF VerifyPrompt
<1>2. q \in Prompts /\ q.kind = "verify" /\ q.tx = i
  BY <1>1 DEF Prompts
<1>3. Points(q)
  BY <1>1 DEF Points
<1>4. prompt' = [prompt EXCEPT ![adm] = q] /\ UNCHANGED <<rows, sent, redis, purse>>
      /\ asked' \in [Flights -> SUBSET {"online", "cash"}]
  BY StateFacts DEF VerifyPrompt
<1> HIDE DEF q
<1> QED BY <1>2, <1>3, <1>4, PromptOK

LEMMA VerifyAmountStep ==
    ASSUME IInv, NEW adm \in Admins, NEW a \in Nat, VerifyAmount(adm, a)
    PROVE  IInv' /\ Grows(rows, rows')
<1>1. /\ prompt[adm].tx \in DOMAIN rows
      /\ rows[prompt[adm].tx] = Gone \/ rows[prompt[adm].tx].flight \in Flights
      /\ a > 0 /\ purse' \in Nat
  BY StateFacts, SpendFacts DEF VerifyAmount, IInv, TypeOK, PromptsPoint, Points
<1>2. Ledger(rows') /\ Grows(rows, rows')
  <2>1. CASE rows[prompt[adm].tx] = Gone
    BY <2>1, StateFacts, GrowsReflexive DEF VerifyAmount
  <2>2. CASE rows[prompt[adm].tx] # Gone
    BY <1>1, <2>2, TopUpWriteOK DEF VerifyAmount
  <2> QED BY <2>1, <2>2
<1> QED BY <1>1, <1>2, DialogueWriteOK DEF VerifyAmount

LEMMA UnpaidPromptStep ==
    ASSUME IInv, NEW adm \in Admins, NEW c \in Cargos, NEW type \in Types,
           UnpaidPrompt(adm, c, type)
    PROVE  IInv' /\ Grows(rows, rows')
<1> DEFINE q == [kind |-> "unpaid", cargo |-> c, type |-> type]
<1>1. q \in Prompts /\ q.kind = "unpaid"
  BY DEF Prompts
<1>2. Points(q)
  BY DEF Points
<1>3. prompt' = [prompt EXCEPT ![adm] = q] /\ UNCHANGED <<rows, sent, redis, purse>>
      /\ asked' \in [Flights -> SUBSET {"online", "cash"}]
  BY StateFacts DEF UnpaidPrompt
<1> HIDE DEF q
<1> QED BY <1>1, <1>2, <1>3, PromptOK

LEMMA UnpaidAmountStep ==
    ASSUME IInv, NEW adm \in Admins, NEW a \in Nat, UnpaidAmount(adm, a)
    PROVE  IInv' /\ Grows(rows, rows')
<1> DEFINE p == prompt[adm]
           f == FlightOf[p.cargo]
           d == PendingDebt(f, 0)
           t == Booked(d, f, p.cargo, BotPrice[p.cargo], 0, a, p.type)
<1>1. p.cargo \in Cargos /\ f \in Flights /\ BotPrice[p.cargo] \in Nat /\ purse' \in Nat
  BY StateFacts, DialogueFacts, BillFacts, SpendFacts DEF UnpaidAmount
<1>2. rows' = Append(rows, IF p.type = "cash" THEN Taken(t) ELSE t)
  BY DEF UnpaidAmount
<1> HIDE DEF p, f
<1>3. FlightRow(d) /\ f # SysAdj
  BY <1>1, PendingDebtOK, NamesAssumption
<1> HIDE DEF d
<1>4. FlightRow(t)
  BY <1>1, <1>3, BookedOK
<1> HIDE DEF t
<1>5. t \in Row /\ RowOK(t) /\ Taken(t) \in Row /\ RowOK(Taken(t))
  BY <1>4, TakenOK DEF FlightRow
<1>6. Ledger(rows') /\ Grows(rows, rows')
  BY <1>2, <1>5, AppendOK, StateFacts
<1> QED BY <1>1, <1>6, DialogueWriteOK DEF UnpaidAmount
------------------------------------------------------------------------------
(* POS, wallet and delivery desks *)

\* A handler that only writes the table and spends.
LEMMA TableWriteOK ==
    ASSUME IInv, Ledger(rows'), Grows(rows, rows'), purse' \in Nat,
           UNCHANGED <<sent, redis, asked, prompt>>
    PROVE  IInv' /\ Grows(rows, rows')
<1>1. /\ walletKey' \in [Flights -> Nat] /\ modeKey' \in [Flights -> Modes]
      /\ asked' \in [Flights -> SUBSET {"online", "cash"}]
      /\ prompt' \in [Admins -> Prompts] /\ prompt' = prompt
  BY StateFacts DEF redis
<1> QED BY <1>1, WriteOK

\* One settlement, of a single payment or of a bulk item.
LEMMA SettlementOK ==
    ASSUME NEW rs, Ledger(rs), NEW c \in Cargos, NEW type, NEW a \in Nat, NEW i,
           i # 0 => i \in DOMAIN rs /\ rs[i].flight = FlightOf[c],
           NEW w \in UsableCredit(rs, Basis(RowFor(rs, i, FlightOf[c]), Bill[{c}]))
    PROVE  LET qs == Put(rs, i, Settled(RowFor(rs, i, FlightOf[c]), c, Bill[{c}], w, a, type))
           IN  Ledger(qs) /\ Grows(rs, qs) /\ SameFlights(rs, qs)
<1> DEFINE t == RowFor(rs, i, FlightOf[c])
           r == Settled(t, c, Bill[{c}], w, a, type)
<1>1. FlightOf[c] \in Flights /\ Bill[{c}] \in Nat
  BY BillFacts
<1>2. FlightRow(t) /\ t.flight = FlightOf[c]
  BY <1>1, RowForOK
<1>3. w \in Nat
  BY <1>1, <1>2, BasisFacts, CreditFacts DEF FlightRow
<1> HIDE DEF t
<1>4. FlightRow(r) /\ r.flight = FlightOf[c]
  BY <1>1, <1>2, <1>3, SettledOK
<1> HIDE DEF r
<1>5. Ledger(Put(rs, i, r)) /\ Grows(rs, Put(rs, i, r)) /\ SameFlights(rs, Put(rs, i, r))
  BY <1>4, PutOK
<1> QED BY <1>5 DEF r, t

LEMMA PosPayStep ==
    ASSUME IInv, NEW c \in Cargos, NEW type \in Types, NEW a \in Nat, PosPay(c, type, a)
    PROVE  IInv' /\ Grows(rows, rows')
<1>1. PICK i \in TargetsOf(c) :
        \E w \in UsableCredit(rows, Basis(RowFor(rows, i, FlightOf[c]), Bill[{c}])) :
          rows' = Put(rows, i, Settled(RowFor(rows, i, FlightOf[c]), c, Bill[{c}], w, a, type))
  BY DEF PosPay
<1>2. Ledger(rows') /\ Grows(rows, rows')
  <2>1. PICK w \in UsableCredit(rows, Basis(RowFor(rows, i, FlightOf[c]), Bill[{c}])) :
          rows' = Put(rows, i, Settled(RowFor(rows, i, FlightOf[c]), c, Bill[{c}], w, a, type))
    BY <1>1
  <2>2. Ledger(rows) /\ (i # 0 => i \in DOMAIN rows /\ rows[i].flight = FlightOf[c])
    BY TargetsFacts, StateFacts
  <2> QED BY <2>1, <2>2, SettlementOK
<1>3. purse' \in Nat
  BY SpendFacts, StateFacts DEF PosPay
<1> QED BY <1>2, <1>3, TableWriteOK DEF PosPay

LEMMA BulkWritesOK ==
    ASSUME NEW rs, Ledger(rs), NEW c \in Cargos, NEW type, NEW a \in Nat, NEW i,
           i # 0 => i \in DOMAIN rs /\ rs[i].flight = FlightOf[c],
           NEW qs \in BulkWrites(rs, i, c, type, a)
    PROVE  Ledger(qs) /\ Grows(rs, qs) /\ SameFlights(rs, qs)
<1>1. PICK w \in UsableCredit(rs, Basis(RowFor(rs, i, FlightOf[c]), Bill[{c}])) :
        qs = Put(rs, i, Settled(RowFor(rs, i, FlightOf[c]), c, Bill[{c}], w, a, type))
  BY DEF BulkWrites
<1> QED BY <1>1, SettlementOK

\* The second item writes the row found before the first one was written: it
\* is still a row of its cargo's flight.
LEMMA PosBulkStep ==
    ASSUME IInv, NEW c1 \in Cargos, NEW type1 \in Types, NEW a1 \in Nat,
           PosBulk(c1, type1, a1)
    PROVE  IInv' /\ Grows(rows, rows')
<1>1. PICK i1 \in TargetsOf(c1) :
        \E rs \in BulkWrites(rows, i1, c1, type1, a1) :
          \/ rows' = rs /\ Spend(a1)
          \/ \E c2 \in Cargos, type2 \in Types, a2 \in 0..purse :
               /\ Spend(a1 + a2)
               /\ \E i2 \in TargetsOf(c2) : rows' \in BulkWrites(rs, i2, c2, type2, a2)
  BY DEF PosBulk
<1>2. PICK rs \in BulkWrites(rows, i1, c1, type1, a1) :
          \/ rows' = rs /\ Spend(a1)
          \/ \E c2 \in Cargos, type2 \in Types, a2 \in 0..purse :
               /\ Spend(a1 + a2)
               /\ \E i2 \in TargetsOf(c2) : rows' \in BulkWrites(rs, i2, c2, type2, a2)
  BY <1>1
<1>3. Ledger(rs) /\ Grows(rows, rs) /\ SameFlights(rows, rs)
  BY TargetsFacts, BulkWritesOK, StateFacts
<1>4. Ledger(rows') /\ Grows(rows, rows') /\ purse' \in Nat
  <2>1. CASE rows' = rs /\ Spend(a1)
    BY <1>3, <2>1, SpendFacts, StateFacts
  <2>2. ASSUME NEW c2 \in Cargos, NEW type2 \in Types, NEW a2 \in 0..purse,
               Spend(a1 + a2), NEW i2 \in TargetsOf(c2),
               rows' \in BulkWrites(rs, i2, c2, type2, a2)
        PROVE  Ledger(rows') /\ Grows(rows, rows') /\ purse' \in Nat
    <3>1. a2 \in Nat /\ a1 + a2 \in Nat
      BY StateFacts
    <3>2. i2 # 0 => i2 \in DOMAIN rs /\ rs[i2].flight = FlightOf[c2]
      BY <1>3, TargetsFacts DEF Grows, SameFlights
    <3>3. Ledger(rows') /\ Grows(rs, rows')
      BY <1>3, <2>2, <3>1, <3>2, BulkWritesOK
    <3> QED BY <1>3, <2>2, <3>1, <3>3, GrowsTransitive, SpendFacts, StateFacts
  <2> QED BY <1>2, <2>1, <2>2
<1> QED BY <1>4, TableWriteOK DEF PosBulk

LEMMA PosExistingStep ==
    ASSUME IInv, NEW i \in DOMAIN rows, NEW type \in Types, NEW a \in Nat,
           PosExisting(i, type, a)
    PROVE  IInv' /\ Grows(rows, rows')
<1> DEFINE due == IF rows[i].remaining > 0 THEN rows[i].remaining ELSE rows[i].total
<1>1. FlightRow(rows[i]) /\ due \in Nat /\ a > 0
  BY StateFacts, LedgerFacts DEF PosExisting, FlightRow, Row
<1>2. PICK w \in UsableCredit(rows, due) :
        rows' = [rows EXCEPT ![i] = ExistingPaid(rows[i], w, a, type)]
  BY DEF PosExisting
<1>3. w \in Nat
  BY <1>1, CreditFacts
<1>4. /\ ExistingPaid(rows[i], w, a, type) \in Row /\ RowOK(ExistingPaid(rows[i], w, a, type))
      /\ ExistingPaid(rows[i], w, a, type).flight = rows[i].flight
  BY <1>1, <1>3, ExistingPaidOK DEF FlightRow
<1>5. Ledger(rows') /\ Grows(rows, rows')
  <2>1. rows[i] # Gone
    BY GoneFacts DEF PosExisting
  <2> QED BY <1>2, <1>4, <2>1, UpdateOK, StateFacts
<1>6. purse' \in Nat
  BY SpendFacts, StateFacts DEF PosExisting
<1> QED BY <1>5, <1>6, TableWriteOK DEF PosExisting

LEMMA MarkTransactionTakenStep ==
    ASSUME IInv, NEW i \in DOMAIN rows, MarkTransactionTaken(i)
    PROVE  IInv' /\ Grows(rows, rows')
<1>1. /\ ForceTaken(rows[i]) \in Row /\ RowOK(ForceTaken(rows[i]))
      /\ ForceTaken(rows[i]).flight = rows[i].flight
  BY StateFacts, LedgerFacts, ForceTakenOK
<1>2. rows[i] # Gone
  BY GoneFacts DEF MarkTransactionTaken
<1>3. Ledger(rows') /\ Grows(rows, rows')
  BY <1>1, <1>2, UpdateOK, StateFacts DEF MarkTransactionTaken
<1> QED BY <1>3, StateFacts, TableWriteOK DEF MarkTransactionTaken

LEMMA UpdateTakenStatusStep ==
    ASSUME IInv, NEW i \in DOMAIN rows, UpdateTakenStatus(i)
    PROVE  IInv' /\ Grows(rows, rows')
<1> DEFINE b == ~rows[i].taken
           t == [rows[i] EXCEPT !.taken = b]
<1>1. rows[i] \in Row /\ RowOK(rows[i]) /\ b \in BOOLEAN
  BY StateFacts, LedgerFacts
<1>2. rows' = [rows EXCEPT ![i] = t]
  BY DEF UpdateTakenStatus
<1> HIDE DEF b
<1>3. t \in Row /\ RowOK(t) /\ t.flight = rows[i].flight
  BY <1>1, TakenFlagOK
<1> HIDE DEF t
<1>4. Ledger(rows') /\ Grows(rows, rows')
  <2>1. rows[i] # Gone
    BY GoneFacts DEF UpdateTakenStatus
  <2> QED BY <1>2, <1>3, <2>1, UpdateOK, StateFacts
<1> QED BY <1>4, StateFacts, TableWriteOK DEF UpdateTakenStatus

LEMMA AdjustBalanceStep ==
    ASSUME IInv, NEW a \in Int, AdjustBalance(a)
    PROVE  IInv' /\ Grows(rows, rows')
<1>1. Ledger(rows') /\ Grows(rows, rows')
  BY AdjustmentOK, AppendOK, StateFacts DEF AdjustBalance
<1>2. purse' \in Nat
  <2>1. (IF a > 0 THEN a ELSE -a) \in Nat
    OBVIOUS
  <2> QED BY <2>1, SpendFacts, StateFacts DEF AdjustBalance
<1> QED BY <1>1, <1>2, TableWriteOK DEF AdjustBalance

\* A deleted row has no balance to pay or to take from.
LEMMA UnmovedFacts == Allocated(Gone, 0) = Gone /\ Withdrawn(Gone, 0) = Gone
<1>1. Gone \in Row /\ Gone.pbd = 0
  BY GoneFacts
<1>2. \A t \in Row : t.pbd \in Int /\ t.allocated \in Nat /\ t.withdrawn \in Nat
  BY DEF Row
<1>3. /\ Gone.pbd + 0 = Gone.pbd /\ Gone.pbd - 0 = Gone.pbd
      /\ Gone.allocated + 0 = Gone.allocated /\ Gone.withdrawn + 0 = Gone.withdrawn
  BY <1>1, <1>2
<1>4. ~(Gone.pbd < 0)
  BY <1>1
<1> QED BY <1>1, <1>3, <1>4 DEF Allocated, Withdrawn, Row

LEMMA ApplyPaymentStep ==
    ASSUME IInv, NEW a \in Nat, ApplyPayment(a)
    PROVE  IInv' /\ Grows(rows, rows')
<1> DEFINE debt == [i \in DOMAIN rows |-> PositivePart(-rows[i].pbd)]
           isLast(i) == debt[i] > 0 /\ \A j \in DOMAIN rows : debt[j] > 0 => j <= i
           part(share, left, i) == share[i] + IF isLast(i) THEN left ELSE 0
<1>1. PICK share \in Fifo(a, debt), left \in 0..a :
        rows' = [i \in DOMAIN rows |-> Allocated(rows[i], part(share, left, i))]
  BY DEF ApplyPayment
<1>2. ASSUME NEW i \in DOMAIN rows, rows[i] = Gone PROVE part(share, left, i) = 0
  <2>1. debt[i] = 0
    BY <1>2, GoneFacts DEF PositivePart
  <2>2. share[i] \in 0..a /\ share[i] <= debt[i]
    BY DEF Fifo
  <2>3. ~isLast(i) /\ share[i] = 0
    BY <2>1, <2>2
  <2> QED BY <2>3
<1> HIDE DEF isLast
<1>8. \A i \in DOMAIN rows : part(share, left, i) \in Nat
  BY DEF Fifo
<1> HIDE DEF part
<1>3. \A i \in DOMAIN rows : rows'[i] = Allocated(rows[i], part(share, left, i))
  BY <1>1
<1>4. \A i \in DOMAIN rows : /\ rows'[i] \in Row /\ RowOK(rows'[i])
                             /\ rows'[i].flight = rows[i].flight
                             /\ rows[i] = Gone => rows'[i] = Gone
  <2> SUFFICES ASSUME NEW i \in DOMAIN rows
               PROVE  /\ rows'[i] \in Row /\ RowOK(rows'[i])
                      /\ rows'[i].flight = rows[i].flight
                      /\ rows[i] = Gone => rows'[i] = Gone
    OBVIOUS
  <2>1. rows[i] \in Row /\ RowOK(rows[i])
    BY LedgerFacts, StateFacts
  <2>2. part(share, left, i) \in Nat /\ rows'[i] = Allocated(rows[i], part(share, left, i))
    BY <1>3, <1>8
  <2>3. LET r == Allocated(rows[i], part(share, left, i))
        IN  r \in Row /\ RowOK(r) /\ r.flight = rows[i].flight
    BY <2>1, <2>2, AllocatedOK
  <2>4. rows[i] = Gone => rows'[i] = Gone
    BY <1>2, <2>2, UnmovedFacts
  <2> QED BY <2>2, <2>3, <2>4
<1>5. rows' = [i \in DOMAIN rows |-> rows'[i]]
  BY <1>1
<1>6. Ledger(rows') /\ Grows(rows, rows')
  BY <1>4, <1>5, RewriteOK, StateFacts
<1>7. purse' \in Nat
  BY SpendFacts, StateFacts DEF ApplyPayment
<1> QED BY <1>6, <1>7, TableWriteOK DEF ApplyPayment

LEMMA RefundStep ==
    ASSUME IInv, NEW a \in Nat, Refund(a)
    PROVE  IInv' /\ Grows(rows, rows')
<1>1. PICK share \in Fifo(a, [i \in DOMAIN rows |-> PositivePart(rows[i].pbd)]) :
        rows' = [i \in DOMAIN rows |-> Withdrawn(rows[i], share[i])]
  BY DEF Refund
<1>2. \A i \in DOMAIN rows : /\ share[i] \in Nat /\ share[i] <= PositivePart(rows[i].pbd)
                             /\ rows'[i] = Withdrawn(rows[i], share[i])
  BY <1>1 DEF Fifo
<1>3. \A i \in DOMAIN rows : /\ rows'[i] \in Row /\ RowOK(rows'[i])
                             /\ rows'[i].flight = rows[i].flight
                             /\ rows[i] = Gone => rows'[i] = Gone
  <2> SUFFICES ASSUME NEW i \in DOMAIN rows
               PROVE  /\ rows'[i] \in Row /\ RowOK(rows'[i])
                      /\ rows'[i].flight = rows[i].flight
                      /\ rows[i] = Gone => rows'[i] = Gone
    OBVIOUS
  <2>1. rows[i] \in Row /\ RowOK(rows[i])
    BY LedgerFacts, StateFacts
  <2>2. share[i] \in Nat /\ rows'[i] = Withdrawn(rows[i], share[i])
    BY <1>2
  <2>3. LET r == Withdrawn(rows[i], share[i])
        IN  r \in Row /\ RowOK(r) /\ r.flight = rows[i].flight
    BY <2>1, <2>2, WithdrawnOK
  <2>4. ASSUME rows[i] = Gone PROVE rows'[i] = Gone
    <3>1. share[i] = 0
      BY <1>2, <2>4, GoneFacts DEF PositivePart
    <3> QED BY <2>2, <2>4, <3>1, UnmovedFacts
  <2> QED BY <2>2, <2>3, <2>4
<1>4. rows' = [i \in DOMAIN rows |-> rows'[i]]
  BY <1>1
<1>5. Ledger(rows') /\ Grows(rows, rows')
  BY <1>3, <1>4, RewriteOK, StateFacts
<1>6. purse' \in Nat
  BY SpendFacts, StateFacts DEF Refund
<1> QED BY <1>5, <1>6, TableWriteOK DEF Refund

LEMMA DeliverStep ==
    ASSUME IInv, NEW flights \in SUBSET Flights, NEW first \in Flights, NEW fee \in Nat,
           Deliver(first, flights, fee)
    PROVE  IInv' /\ Grows(rows, rows')
<1> DEFINE kept == IF fee > 0 THEN Healed(rows, first) ELSE rows
           charged(i, j) == IF j = i THEN Withdrawn(kept[j], fee) ELSE kept[j]
           after(i, j) == IF charged(i, j).flight \in flights
                          THEN Taken(charged(i, j)) ELSE charged(i, j)
<1>1. PICK i \in Found(first) : rows' = [j \in DOMAIN rows |-> after(i, j)]
  BY DEF Deliver
<1>2. /\ Ledger(kept) /\ Grows(rows, kept) /\ DOMAIN kept = DOMAIN rows
      /\ i \in DOMAIN rows => kept[i].flight = first
  <2>1. i \in DOMAIN rows => rows[i].flight = first /\ Healed(rows, first)[i] = rows[i]
    BY FoundFacts, LedgerFacts, StateFacts
  <2> QED BY <2>1, HealedOK, HealedRows, GrowsReflexive, StateFacts
<1> HIDE DEF kept
<1>3. \A j \in DOMAIN rows : /\ charged(i, j) \in Row /\ RowOK(charged(i, j))
                             /\ charged(i, j).flight = kept[j].flight
                             /\ kept[j] = Gone => charged(i, j) = Gone
  BY <1>2, WithdrawnOK, LedgerFacts, GoneFacts
<1> HIDE DEF charged
<1>4. \A j \in DOMAIN rows : /\ after(i, j) \in Row /\ RowOK(after(i, j))
                             /\ after(i, j).flight = kept[j].flight
                             /\ kept[j] = Gone => after(i, j) = Gone
  BY <1>3, TakenOK, GoneFacts
<1> HIDE DEF after
<1>5. \A j \in DOMAIN kept : rows'[j] = after(i, j)
  BY <1>1, <1>2
<1>8. rows' = [j \in DOMAIN kept |-> rows'[j]]
  BY <1>1, <1>2
<1>6. Ledger(rows') /\ Grows(rows, rows')
  <2>1. Ledger(rows') /\ Grows(kept, rows')
    BY <1>2, <1>4, <1>5, <1>8, RewriteOK
  <2> QED BY <1>2, <2>1, GrowsTransitive
<1>7. purse' \in Nat
  BY SpendFacts, StateFacts DEF Deliver
<1> QED BY <1>6, <1>7, TableWriteOK DEF Deliver
------------------------------------------------------------------------------
(* The theorems *)

\* Every handler, whatever the others did since it was prompted, keeps IInv.
LEMMA NextOK == IInv /\ [Next]_vars => IInv' /\ Grows(rows, rows')
<1> SUFFICES ASSUME IInv, [Next]_vars PROVE IInv' /\ Grows(rows, rows')
  OBVIOUS
<1>0. Amounts \subseteq Nat /\ -Purse..Purse \subseteq Int
  BY LedgerAssumption DEF Amounts
<1>1. CASE UNCHANGED vars
  <2>1. /\ rows' = rows /\ prompt' = prompt /\ purse' = purse
        /\ UNCHANGED <<sent, redis, asked, prompt>>
    BY <1>1 DEF vars, redis
  <2>2. Ledger(rows') /\ Grows(rows, rows') /\ purse' \in Nat
    BY <2>1, StateFacts, GrowsReflexive
  <2> QED BY <2>1, <2>2, TableWriteOK
<1>2. CASE \E f \in Flights : ReportSent(f) \/ ManuallySent(f)
  BY <1>2, ReportSentStep, ManuallySentStep
<1>3. CASE \/ \E f \in Flights, mode \in Modes, w \in Amounts : Submit(f, mode, w)
           \/ \E f \in Flights, k \in {"online", "cash"} : Reject(f, k)
  BY <1>0, <1>3, SubmitStep, RejectStep
<1>4. CASE \/ \E adm \in Admins, f \in Flights : ApprovePrompt(adm, f) \/ CashPrompt(adm, f)
           \/ \E adm \in Admins, i \in DOMAIN rows, p \in Providers : AccountPrompt(adm, i, p)
           \/ \E adm \in Admins, i \in DOMAIN rows : VerifyPrompt(adm, i)
           \/ \E adm \in Admins, c \in Cargos, type \in Types : UnpaidPrompt(adm, c, type)
  BY <1>4, ApprovePromptStep, CashPromptStep, AccountPromptStep, VerifyPromptStep,
     UnpaidPromptStep
<1>5. CASE \/ \E adm \in Admins : Cancel(adm)
           \/ \E adm \in Admins, a \in Amounts :
                \/ ApproveAmount(adm, a) \/ CashAmount(adm, a)
                \/ AccountAmount(adm, a) \/ VerifyAmount(adm, a) \/ UnpaidAmount(adm, a)
  BY <1>0, <1>5, CancelStep, ApproveAmountStep, CashAmountStep, AccountAmountStep,
     VerifyAmountStep, UnpaidAmountStep
<1>6. CASE \E c \in Cargos, type \in Types, a \in Amounts :
             PosPay(c, type, a) \/ PosBulk(c, type, a)
  BY <1>0, <1>6, PosPayStep, PosBulkStep
<1>7. CASE \/ \E i \in DOMAIN rows, type \in Types, a \in Amounts : PosExisting(i, type, a)
           \/ \E i \in DOMAIN rows : MarkTransactionTaken(i) \/ UpdateTakenStatus(i)
  BY <1>0, <1>7, PosExistingStep, MarkTransactionTakenStep, UpdateTakenStatusStep
<1>8. CASE \/ \E a \in -Purse..Purse : AdjustBalance(a)
           \/ \E a \in Amounts : ApplyPayment(a) \/ Refund(a)
           \/ \E flights \in SUBSET Flights, first \in Flights, fee \in Amounts :
                Deliver(first, flights, fee)
  BY <1>0, <1>8, AdjustBalanceStep, ApplyPaymentStep, RefundStep, DeliverStep
<1> QED BY <1>1, <1>2, <1>3, <1>4, <1>5, <1>6, <1>7, <1>8 DEF Next

\* IInv is an invariant: the table stays explained and open dialogues keep
\* pointing to a row of their flight.
THEOREM Inductive == Spec => []IInv
<1>1. Init => IInv
  BY InitOK
<1>2. IInv /\ [Next]_vars => IInv'
  BY NextOK
<1> QED BY <1>1, <1>2, PTL DEF Spec

\* Rows, Redis keys, approval messages and dialogues keep their types, and a
\* dialogue's row id stays in the table.
THEOREM TypeCorrect == Spec => []TypeOK
<1>1. IInv => TypeOK
  BY DEF IInv
<1> QED BY <1>1, Inductive, PTL

\* payment_balance_difference of every row is explained by what was paid,
\* allocated, owed and withdrawn.
THEOREM BalancesAlwaysExplained == Spec => []BalancesExplained
<1>1. IInv => BalancesExplained
  BY DEF IInv, Ledger, BalancesExplained, RowOK
<1> QED BY <1>1, Inductive, PTL

\* No outstanding debt of a row vanishes unaccounted for.
THEOREM DebtsAlwaysExplained == Spec => []DebtsExplained
<1>1. IInv => DebtsExplained
  BY DEF IInv, Ledger, DebtsExplained, RowOK
<1> QED BY <1>1, Inductive, PTL

\* paid_amount stays between the row's cash events and all its events.
THEOREM PaidAmountsAlwaysExplained == Spec => []PaidAmountsExplained
<1>1. IInv => PaidAmountsExplained
  BY DEF IInv, Ledger, PaidAmountsExplained, RowOK
<1> QED BY <1>1, Inductive, PTL

\* payment_status agrees with what is outstanding, and a row the handlers may
\* overwrite has no payment.
THEOREM StatusesAlwaysExplained == Spec => []StatusesExplained
<1>1. IInv => StatusesExplained
  BY DEF IInv, Ledger, StatusesExplained, RowOK
<1> QED BY <1>1, Inductive, PTL

\* Cargo reported to the client is charged for on some row of its flight.
THEOREM SentAlwaysBilled == Spec => []SentIsBilled
<1>1. IInv => SentIsBilled
  BY DEF IInv
<1> QED BY <1>1, Inductive, PTL
------------------------------------------------------------------------------
(* What the ledger promises the bulk sender *)

\* Cargo of the flight has been reported to the client.
Reported(f) == \E c \in sent : FlightOf[c] = f

\* No client is charged for a flight none of whose cargo was reported to them:
\* not even by an approval, a verification or a cashier's payment that arrives late.
ChargedWasSent == \A i \in DOMAIN rows : rows[i].flight \in Flights => Reported(rows[i].flight)

\* Live buttons and open dialogues that insert a row are about reported cargo.
OpenWasSent ==
    /\ \A f \in Flights : asked[f] # {} => Reported(f)
    /\ \A adm \in Admins :
         /\ prompt[adm].kind \in {"online", "cash"} => Reported(prompt[adm].flight)
         /\ prompt[adm].kind = "unpaid" => prompt[adm].cargo \in sent

ReportedInv == IInv /\ ChargedWasSent /\ OpenWasSent

\* The rows qs adds to rs are of reported flights.
AddsReported(rs, qs) ==
    \A k \in DOMAIN qs \ DOMAIN rs : qs[k].flight \in Flights => Reported(qs[k].flight)

\* The client's flights as the bulk sender's book sees them: one account each,
\* told and closed in the step that marks the cargo as sent.
Charged == {f \in Flights : \E i \in DOMAIN rows : rows[i].flight = f}

Book == INSTANCE ReportBook WITH
          Clients <- Flights, Owner <- FlightOf, told <- sent, closed <- sent, owes <- Charged

LEMMA ReportedStays ==
    ASSUME sent \subseteq sent', NEW f, Reported(f)
    PROVE  Reported(f)'
BY DEF Reported

LEMMA SentOnReported ==
    ASSUME NEW f
    PROVE  SentOn(f) # {} <=> Reported(f)
BY DEF SentOn, Reported

\* A write of one row adds at most a row of the written flight.
LEMMA PutAdds ==
    ASSUME NEW rs, Ledger(rs), NEW i, i # 0 => i \in DOMAIN rs, NEW t,
           t.flight \in Flights => Reported(t.flight)
    PROVE  AddsReported(rs, Put(rs, i, t))
<1>1. rs \in Seq(Row) /\ Len(rs) \in Nat /\ DOMAIN rs = 1 .. Len(rs)
  BY LedgerFacts DEF Ledger
<1>2. CASE i = 0
  <2>1. /\ DOMAIN Append(rs, t) = 1 .. Len(rs) + 1
        /\ Append(rs, t)[Len(rs) + 1] = t
    BY <1>1
  <2>2. \A k \in DOMAIN Append(rs, t) \ DOMAIN rs : k = Len(rs) + 1
    BY <1>1, <2>1
  <2> QED BY <1>2, <2>1, <2>2 DEF Put, AddsReported
<1>3. CASE i # 0
  BY <1>3 DEF Put, AddsReported
<1> QED BY <1>2, <1>3

LEMMA AppendAdds ==
    ASSUME NEW rs, Ledger(rs), NEW t, t.flight \in Flights => Reported(t.flight)
    PROVE  AddsReported(rs, Append(rs, t))
BY PutAdds DEF Put

\* A handler that rewrites rows in place adds none.
LEMMA InPlaceAdds ==
    ASSUME DOMAIN rows' = DOMAIN rows
    PROVE  AddsReported(rows, rows')
BY DEF AddsReported

\* Two writes of one transaction: a row the second deletes is of no flight.
LEMMA AddsTransitive ==
    ASSUME NEW rs, NEW qs, NEW us, AddsReported(rs, qs), AddsReported(qs, us), Grows(qs, us)
    PROVE  AddsReported(rs, us)
<1> SUFFICES ASSUME NEW k \in DOMAIN us \ DOMAIN rs, us[k].flight \in Flights
             PROVE  Reported(us[k].flight)
  BY DEF AddsReported
<1>1. CASE k \notin DOMAIN qs
  BY <1>1 DEF AddsReported
<1>2. CASE k \in DOMAIN qs
  <2>1. us[k].flight = qs[k].flight
    BY <1>2, GoneFacts DEF Grows, Superseded
  <2> QED BY <1>2, <2>1 DEF AddsReported
<1> QED BY <1>1, <1>2

\* The lookup of a flight adds no row.
LEMMA HealedAdds ==
    ASSUME NEW rs, NEW f
    PROVE  AddsReported(rs, Healed(rs, f))
BY HealedRows DEF AddsReported

\* A handler that looks a flight up and writes one row of it.
LEMMA HealedPutAdds ==
    ASSUME Ledger(rows), NEW f \in Flights, Reported(f), NEW i,
           i # 0 => i \in DOMAIN rows /\ Healed(rows, f)[i].flight = f,
           NEW t, FlightRow(t), t.flight = f
    PROVE  AddsReported(rows, Put(Healed(rows, f), i, t))
<1> DEFINE kept == Healed(rows, f)
<1>1. Ledger(kept) /\ Grows(rows, kept) /\ DOMAIN kept = DOMAIN rows
      /\ AddsReported(rows, kept)
  BY HealedOK, HealedRows, HealedAdds
<1>2. i # 0 => i \in DOMAIN kept /\ kept[i].flight = f
  BY <1>1
<1> HIDE DEF kept
<1>3. AddsReported(kept, Put(kept, i, t))
  BY <1>1, <1>2, PutAdds
<1>4. Grows(kept, Put(kept, i, t))
  BY <1>1, <1>2, PutOK
<1>5. AddsReported(rows, Put(kept, i, t))
  BY <1>1, <1>3, <1>4, AddsTransitive
<1> QED BY <1>5 DEF kept

LEMMA ApproveAmountAdds ==
    ASSUME ReportedInv, NEW adm \in Admins, NEW a \in Nat, ApproveAmount(adm, a)
    PROVE  AddsReported(rows, rows')
<1> DEFINE f == prompt[adm].flight
           t(i) == RowFor(rows, i, f)
           Record(i, p) ==
               IF t(i).status = "partial" THEN ToppedUp(t(i), p, a)
               ELSE Booked(t(i), f, Whole, Bill[SentOn(f)], walletKey[f], a,
                           IF p = "wallet" THEN "click" ELSE p)
<1>1. f \in Flights /\ Reported(f)
  BY StateFacts, DialogueFacts DEF ApproveAmount, ReportedInv, OpenWasSent
<1>2. PICK i \in Found(f) :
        \E p : \/ rows' = rows
               \/ rows' = Put(Healed(rows, f), i, Record(i, p))
               \/ rows' = Healed(Put(Healed(rows, f), i, Record(i, p)), f)
  <2>1. PICK i \in Found(f),
             p \in CASE modeKey[f] = "wallet_only" -> {"wallet"}
                      [] modeKey[f] = "cash" -> {"cash"}
                      [] OTHER -> Types \ {"cash"} :
          \/ rows' = rows
          \/ rows' = Put(Healed(rows, f), i, Record(i, p))
          \/ rows' = Healed(Put(Healed(rows, f), i, Record(i, p)), f)
    BY DEF ApproveAmount
  <2> QED BY <2>1
<1>3. PICK p : \/ rows' = rows
               \/ rows' = Put(Healed(rows, f), i, Record(i, p))
               \/ rows' = Healed(Put(Healed(rows, f), i, Record(i, p)), f)
  BY <1>2
<1>4. i # 0 => /\ i \in DOMAIN rows /\ rows[i].flight = f /\ rows[i].item = Whole
               /\ Healed(rows, f)[i] = rows[i]
  BY FoundFacts
<1>5. FlightRow(t(i)) /\ t(i).flight = f /\ t(i).item = Whole
  <2>1. FlightRow(t(i)) /\ t(i).flight = f
    BY <1>1, <1>4, RowForOK, StateFacts DEF ReportedInv
  <2> QED BY <1>4, <2>1 DEF RowFor, PendingDebt
<1>6. Bill[SentOn(f)] \in Nat /\ walletKey[f] \in Nat /\ Ledger(rows)
  BY <1>1, StateFacts, BillFacts DEF SentOn, TypeOK, ReportedInv
<1>7. FlightRow(Record(i, p)) /\ Record(i, p).flight = f
  <2> HIDE DEF t, f
  <2>1. CASE t(i).status = "partial"
    BY <1>5, <2>1, ToppedUpOK
  <2>2. CASE t(i).status # "partial"
    BY <1>1, <1>5, <1>6, <2>2, WholeBookedOK
  <2> QED BY <2>1, <2>2
<1> DEFINE booked == Put(Healed(rows, f), i, Record(i, p))
<1> HIDE DEF f, Record
<1>8. AddsReported(rows, booked) /\ Ledger(booked)
  <2>1. Ledger(Healed(rows, f)) /\ DOMAIN Healed(rows, f) = DOMAIN rows
    BY <1>1, <1>6, HealedOK, HealedRows
  <2>2. i # 0 => i \in DOMAIN Healed(rows, f) /\ Healed(rows, f)[i].flight = f
    BY <1>4, <2>1
  <2> QED BY <1>1, <1>4, <1>6, <1>7, <2>1, <2>2, HealedPutAdds, PutOK
<1>9. AddsReported(rows, Healed(booked, f))
  <2> HIDE DEF booked
  <2>1. Grows(booked, Healed(booked, f)) /\ AddsReported(booked, Healed(booked, f))
    BY <1>1, <1>8, HealedOK, HealedAdds
  <2> QED BY <1>8, <2>1, AddsTransitive
<1>10. rows' = rows => AddsReported(rows, rows')
  BY InPlaceAdds
<1> QED BY <1>3, <1>8, <1>9, <1>10

LEMMA CashAmountAdds ==
    ASSUME ReportedInv, NEW adm \in Admins, NEW a \in Nat, CashAmount(adm, a)
    PROVE  AddsReported(rows, rows')
<1> DEFINE p == prompt[adm]
           B(i) == Booked(RowFor(rows, i, p.flight), p.flight, Whole,
                          Bill[SentOn(p.flight)], walletKey[p.flight], a, "cash")
<1>1. /\ p.flight \in Flights /\ Reported(p.flight)
      /\ p.tx # 0 => /\ p.tx \in DOMAIN rows
                     /\ rows[p.tx] = Gone \/ rows[p.tx].flight = p.flight
      /\ p.partial => p.tx # 0
      /\ Ledger(rows)
  BY StateFacts, DialogueFacts
     DEF CashAmount, ReportedInv, OpenWasSent, IInv, TypeOK, PromptsPoint, Points
<1>2. CASE p.partial
  <2>1. rows' = rows \/ \E t : rows' = [rows EXCEPT ![p.tx] = t]
    BY <1>2 DEF CashAmount
  <2>2. DOMAIN rows' = DOMAIN rows
    BY <2>1
  <2> QED BY <2>2, InPlaceAdds
<1>3. CASE ~p.partial
  <2> DEFINE kept == Healed(rows, p.flight)
  <2>1. PICK i \in Found(p.flight) :
          \/ rows' = rows
          \/ \E j : /\ rows' = Put(kept, j, Taken(B(j)))
                    /\ \/ j = i
                       \/ j = 0
                       \/ j = p.tx /\ p.tx # 0 /\ kept[p.tx].status = "pending"
    BY <1>3 DEF CashAmount
  <2>2. CASE rows' = rows
    BY <2>2, InPlaceAdds
  <2>3. ASSUME NEW j, rows' = Put(kept, j, Taken(B(j))),
               j = i \/ j = 0 \/ (j = p.tx /\ p.tx # 0 /\ kept[p.tx].status = "pending")
        PROVE  AddsReported(rows, rows')
    <3>1. j # 0 => /\ j \in DOMAIN rows /\ rows[j].flight = p.flight
                   /\ kept[j].flight = p.flight
      <4>1. CASE j = i
        BY <4>1, FoundFacts
      <4>2. CASE j = p.tx /\ p.tx # 0 /\ kept[p.tx].status = "pending"
        <5>1. kept[j] = rows[j] /\ rows[j] # Gone
          BY <1>1, <4>2, HealedRows, GoneFacts
        <5> QED BY <1>1, <4>2, <5>1
      <4> QED BY <2>3, <4>1, <4>2
    <3>2. FlightRow(RowFor(rows, j, p.flight)) /\ RowFor(rows, j, p.flight).flight = p.flight
      BY <1>1, <3>1, RowForOK
    <3>3. Bill[SentOn(p.flight)] \in Nat /\ walletKey[p.flight] \in Nat
      BY <1>1, StateFacts, BillFacts DEF SentOn, TypeOK, ReportedInv
    <3>4. FlightRow(B(j)) /\ B(j).flight = p.flight
      BY <1>1, <3>2, <3>3, WholeBookedOK
    <3> HIDE DEF B
    <3>5. FlightRow(Taken(B(j))) /\ Taken(B(j)).flight = p.flight
      BY <3>4, TakenOK DEF FlightRow
    <3> QED BY <1>1, <2>3, <3>1, <3>5, HealedPutAdds
  <2> QED BY <2>1, <2>2, <2>3
<1> QED BY <1>2, <1>3

LEMMA UnpaidAmountAdds ==
    ASSUME ReportedInv, NEW adm \in Admins, NEW a \in Nat, UnpaidAmount(adm, a)
    PROVE  AddsReported(rows, rows')
<1> DEFINE p == prompt[adm]
           f == FlightOf[p.cargo]
           d == PendingDebt(f, 0)
           t == Booked(d, f, p.cargo, BotPrice[p.cargo], 0, a, p.type)
<1>1. p.cargo \in Cargos /\ f \in Flights /\ BotPrice[p.cargo] \in Nat /\ p.cargo \in sent
  BY StateFacts, DialogueFacts, BillFacts DEF UnpaidAmount, ReportedInv, OpenWasSent
<1>2. rows' = Append(rows, IF p.type = "cash" THEN Taken(t) ELSE t)
  BY DEF UnpaidAmount
<1>3. Reported(f)
  BY <1>1 DEF Reported
<1> HIDE DEF p, f
<1>4. FlightRow(d) /\ f # SysAdj
  BY <1>1, PendingDebtOK, NamesAssumption
<1> HIDE DEF d
<1>5. FlightRow(t) /\ t.flight = f
  BY <1>1, <1>4, BookedOK
<1> HIDE DEF t
<1>6. t.flight = f /\ Taken(t).flight = f
  BY <1>5, TakenOK DEF FlightRow
<1> QED BY <1>2, <1>3, <1>6, AppendAdds, StateFacts DEF ReportedInv

\* A settlement adds a row of its cargo's flight, or none.
LEMMA SettlementAdds ==
    ASSUME NEW rs, Ledger(rs), NEW c \in Cargos, c \in sent, NEW type, NEW a \in Nat, NEW i,
           i # 0 => i \in DOMAIN rs /\ rs[i].flight = FlightOf[c],
           NEW w \in UsableCredit(rs, Basis(RowFor(rs, i, FlightOf[c]), Bill[{c}]))
    PROVE  AddsReported(rs, Put(rs, i, Settled(RowFor(rs, i, FlightOf[c]), c, Bill[{c}],
                                               w, a, type)))
<1> DEFINE t == RowFor(rs, i, FlightOf[c])
           r == Settled(t, c, Bill[{c}], w, a, type)
<1>1. FlightOf[c] \in Flights /\ Bill[{c}] \in Nat /\ Reported(FlightOf[c])
  BY BillFacts DEF Reported
<1>2. FlightRow(t) /\ t.flight = FlightOf[c]
  BY <1>1, RowForOK
<1>3. w \in Nat
  BY <1>1, <1>2, BasisFacts, CreditFacts DEF FlightRow
<1> HIDE DEF t
<1>4. r.flight = FlightOf[c]
  BY <1>1, <1>2, <1>3, SettledOK
<1> HIDE DEF r
<1>5. AddsReported(rs, Put(rs, i, r))
  BY <1>1, <1>4, PutAdds
<1> QED BY <1>5 DEF r, t

LEMMA PosPayAdds ==
    ASSUME ReportedInv, NEW c \in Cargos, NEW type \in Types, NEW a \in Nat, PosPay(c, type, a)
    PROVE  AddsReported(rows, rows')
<1>1. PICK i \in TargetsOf(c) :
        \E w \in UsableCredit(rows, Basis(RowFor(rows, i, FlightOf[c]), Bill[{c}])) :
          rows' = Put(rows, i, Settled(RowFor(rows, i, FlightOf[c]), c, Bill[{c}], w, a, type))
  BY DEF PosPay
<1>2. c \in sent /\ Ledger(rows)
      /\ (i # 0 => i \in DOMAIN rows /\ rows[i].flight = FlightOf[c])
  BY TargetsFacts, StateFacts DEF PosPay, ReportedInv
<1> QED BY <1>1, <1>2, SettlementAdds

LEMMA BulkWritesAdd ==
    ASSUME NEW rs, Ledger(rs), NEW c \in Cargos, BulkAccepts(c), NEW type, NEW a \in Nat,
           NEW i, i # 0 => i \in DOMAIN rs /\ rs[i].flight = FlightOf[c],
           NEW qs \in BulkWrites(rs, i, c, type, a)
    PROVE  AddsReported(rs, qs)
<1>1. PICK w \in UsableCredit(rs, Basis(RowFor(rs, i, FlightOf[c]), Bill[{c}])) :
        qs = Put(rs, i, Settled(RowFor(rs, i, FlightOf[c]), c, Bill[{c}], w, a, type))
  BY DEF BulkWrites
<1>2. c \in sent
  BY DEF BulkAccepts
<1> QED BY <1>1, <1>2, SettlementAdds

LEMMA PosBulkAdds ==
    ASSUME ReportedInv, NEW c1 \in Cargos, NEW type1 \in Types, NEW a1 \in Nat,
           PosBulk(c1, type1, a1)
    PROVE  AddsReported(rows, rows')
<1>1. PICK i1 \in TargetsOf(c1) :
        \E rs \in BulkWrites(rows, i1, c1, type1, a1) :
          \/ rows' = rs
          \/ \E c2 \in Cargos, type2 \in Types, a2 \in 0..purse :
               /\ BulkAccepts(c2)
               /\ \E i2 \in TargetsOf(c2) : rows' \in BulkWrites(rs, i2, c2, type2, a2)
  BY DEF PosBulk
<1>2. PICK rs \in BulkWrites(rows, i1, c1, type1, a1) :
          \/ rows' = rs
          \/ \E c2 \in Cargos, type2 \in Types, a2 \in 0..purse :
               /\ BulkAccepts(c2)
               /\ \E i2 \in TargetsOf(c2) : rows' \in BulkWrites(rs, i2, c2, type2, a2)
  BY <1>1
<1>3. Ledger(rs) /\ Grows(rows, rs) /\ SameFlights(rows, rs) /\ AddsReported(rows, rs)
  <2>1. BulkAccepts(c1) /\ Ledger(rows)
    BY StateFacts DEF PosBulk, ReportedInv
  <2> QED BY <2>1, TargetsFacts, BulkWritesOK, BulkWritesAdd
<1>4. ASSUME NEW c2 \in Cargos, NEW type2 \in Types, NEW a2 \in 0..purse, BulkAccepts(c2),
             NEW i2 \in TargetsOf(c2), rows' \in BulkWrites(rs, i2, c2, type2, a2)
      PROVE  AddsReported(rows, rows')
  <2>1. a2 \in Nat
    BY StateFacts DEF ReportedInv
  <2>2. i2 # 0 => i2 \in DOMAIN rs /\ rs[i2].flight = FlightOf[c2]
    BY <1>3, TargetsFacts DEF Grows, SameFlights
  <2>3. AddsReported(rs, rows') /\ Grows(rs, rows')
    BY <1>3, <1>4, <2>1, <2>2, BulkWritesAdd, BulkWritesOK
  <2> QED BY <1>3, <2>3, AddsTransitive
<1> QED BY <1>2, <1>3, <1>4

\* The other desks rewrite rows in place.
LEMMA DesksInPlace ==
    ASSUME \/ \E adm \in Admins, a \in Amounts : AccountAmount(adm, a) \/ VerifyAmount(adm, a)
           \/ \E i \in DOMAIN rows, type \in Types, a \in Amounts : PosExisting(i, type, a)
           \/ \E i \in DOMAIN rows : MarkTransactionTaken(i) \/ UpdateTakenStatus(i)
           \/ \E a \in Amounts : ApplyPayment(a) \/ Refund(a)
           \/ \E flights \in SUBSET Flights, first \in Flights, fee \in Amounts :
                Deliver(first, flights, fee)
    PROVE  DOMAIN rows' = DOMAIN rows
<1>1. CASE \E adm \in Admins, a \in Amounts : AccountAmount(adm, a) \/ VerifyAmount(adm, a)
  BY <1>1 DEF AccountAmount, VerifyAmount
<1>2. CASE \/ \E i \in DOMAIN rows, type \in Types, a \in Amounts : PosExisting(i, type, a)
           \/ \E i \in DOMAIN rows : MarkTransactionTaken(i) \/ UpdateTakenStatus(i)
  BY <1>2 DEF PosExisting, MarkTransactionTaken, UpdateTakenStatus
<1>3. CASE \/ \E a \in Amounts : ApplyPayment(a) \/ Refund(a)
           \/ \E flights \in SUBSET Flights, first \in Flights, fee \in Amounts :
                Deliver(first, flights, fee)
  BY <1>3 DEF ApplyPayment, Refund, Deliver
<1> QED BY <1>1, <1>2, <1>3

\* An adjustment is of no flight.
LEMMA AdjustBalanceAdds ==
    ASSUME ReportedInv, NEW a \in Int, AdjustBalance(a)
    PROVE  AddsReported(rows, rows')
<1>1. Adjustment(a).flight = SysAdj
  BY GoneFacts DEF Adjustment, Row
<1>2. Adjustment(a).flight \notin Flights /\ rows' = Append(rows, Adjustment(a))
  BY <1>1, NamesAssumption DEF AdjustBalance
<1> QED BY <1>2, AppendAdds, StateFacts DEF ReportedInv

\* A handler other than the sender writes rows of reported flights only, and
\* leaves no button or dialogue but those that were open.
LEMMA ReportedStep ==
    ASSUME ReportedInv, IInv', Grows(rows, rows'), AddsReported(rows, rows'), sent' = sent,
           \A f \in Flights : asked'[f] \subseteq asked[f],
           \A adm \in Admins : prompt'[adm] = prompt[adm] \/ prompt'[adm] = NoPrompt
    PROVE  ReportedInv'
<1>1. \A f : Reported(f)' <=> Reported(f)
  BY DEF Reported
<1>2. ChargedWasSent'
  <2> SUFFICES ASSUME NEW k \in DOMAIN rows', rows'[k].flight \in Flights
               PROVE  Reported(rows'[k].flight)
    BY <1>1 DEF ChargedWasSent
  <2>1. CASE k \notin DOMAIN rows
    BY <2>1 DEF AddsReported
  <2>2. CASE k \in DOMAIN rows
    <3>1. rows'[k].flight = rows[k].flight
      BY <2>2, GoneFacts DEF Grows, Superseded
    <3> QED BY <2>2, <3>1 DEF ChargedWasSent, ReportedInv
  <2> QED BY <2>1, <2>2
<1>3. OpenWasSent'
  <2>1. \A f \in Flights : asked'[f] # {} => Reported(f)
    BY DEF ReportedInv, OpenWasSent
  <2>2. ASSUME NEW adm \in Admins
        PROVE  /\ prompt'[adm].kind \in {"online", "cash"} => Reported(prompt'[adm].flight)
               /\ prompt'[adm].kind = "unpaid" => prompt'[adm].cargo \in sent
    <3>1. CASE prompt'[adm] = NoPrompt
      BY <3>1 DEF NoPrompt
    <3>2. CASE prompt'[adm] = prompt[adm]
      BY <3>2 DEF ReportedInv, OpenWasSent
    <3> QED BY <3>1, <3>2
  <2> QED BY <2>1, <2>2 DEF OpenWasSent, Reported
<1> QED BY <1>2, <1>3 DEF ReportedInv

\* Newly reported cargo of a flight: its row, if new, is of that flight.
LEMMA SenderReported ==
    ASSUME ReportedInv, IInv', Grows(rows, rows'), NEW f \in Flights,
           ReportSent(f) \/ ManuallySent(f)
    PROVE  /\ ReportedInv'
           /\ \E batch \in SUBSET Cargos :
                /\ batch # {} /\ \A c \in batch : FlightOf[c] = f
                /\ sent' = sent \cup batch
<1>1. PICK batch \in SUBSET {c \in Cargos \ sent : FlightOf[c] = f} :
        /\ batch # {} /\ sent' = sent \cup batch
        /\ rows' = Append(rows, PendingDebt(f, Bill[batch])) \/ DOMAIN rows' = DOMAIN rows
  <2>0. DOMAIN Healed(rows, f) = DOMAIN rows
    BY HealedRows
  <2>1. CASE ReportSent(f)
    BY <2>0, <2>1 DEF ReportSent
  <2>2. CASE ManuallySent(f)
    <3>1. PICK batch \in SUBSET {c \in Cargos \ sent : FlightOf[c] = f} :
            /\ batch # {} /\ sent' = sent \cup batch
            /\ \/ rows' = Append(rows, PendingDebt(f, Bill[batch]))
               \/ \E i \in Found(f) \ {0} :
                    rows' = [Healed(rows, f) EXCEPT ![i] = Extended(rows[i], Bill[batch])]
      BY <2>2 DEF ManuallySent
    <3>2. rows' = Append(rows, PendingDebt(f, Bill[batch])) \/ DOMAIN rows' = DOMAIN rows
      BY <2>0, <3>1
    <3> QED BY <3>1, <3>2
  <2> QED BY <2>1, <2>2
<1>2. /\ batch \in SUBSET Cargos /\ \A c \in batch : FlightOf[c] = f
      /\ sent \subseteq sent' /\ Reported(f)'
  BY <1>1 DEF Reported
<1>3. UNCHANGED <<asked, prompt>>
  BY DEF ReportSent, ManuallySent
<1>4. \A k \in DOMAIN rows' \ DOMAIN rows : rows'[k].flight = f
  <2>1. CASE DOMAIN rows' = DOMAIN rows
    BY <2>1
  <2>2. CASE rows' = Append(rows, PendingDebt(f, Bill[batch]))
    <3>1. /\ rows \in Seq(Row) /\ Len(rows) \in Nat /\ DOMAIN rows = 1 .. Len(rows)
          /\ PendingDebt(f, Bill[batch]).flight = f
      BY LedgerFacts, StateFacts DEF ReportedInv, Ledger, PendingDebt
    <3>2. DOMAIN rows' = 1 .. Len(rows) + 1 /\ rows'[Len(rows) + 1].flight = f
      BY <2>2, <3>1
    <3>3. \A k \in DOMAIN rows' \ DOMAIN rows : k = Len(rows) + 1
      BY <3>1, <3>2
    <3> QED BY <3>2, <3>3
  <2> QED BY <1>1, <2>1, <2>2
<1>5. ChargedWasSent'
  <2> SUFFICES ASSUME NEW k \in DOMAIN rows', rows'[k].flight \in Flights
               PROVE  \E c \in sent' : FlightOf[c] = rows'[k].flight
    BY DEF ChargedWasSent, Reported
  <2>1. CASE k \notin DOMAIN rows
    BY <1>2, <1>4, <2>1 DEF Reported
  <2>2. CASE k \in DOMAIN rows
    <3>1. rows'[k].flight = rows[k].flight
      BY <2>2, GoneFacts DEF Grows, Superseded
    <3>2. Reported(rows[k].flight)
      BY <2>2, <3>1 DEF ChargedWasSent, ReportedInv
    <3> QED BY <1>2, <3>1, <3>2 DEF Reported
  <2> QED BY <2>1, <2>2
<1>6. OpenWasSent'
  BY <1>2, <1>3, ReportedStays DEF ReportedInv, OpenWasSent
<1> QED BY <1>1, <1>2, <1>5, <1>6 DEF ReportedInv

\* A payment is requested for, and a dialogue opened on, reported cargo.
LEMMA OpenReported ==
    ASSUME ReportedInv, IInv',
           \/ \E f \in Flights, mode \in Modes, w \in Amounts : Submit(f, mode, w)
           \/ \E adm \in Admins, f \in Flights : ApprovePrompt(adm, f) \/ CashPrompt(adm, f)
           \/ \E adm \in Admins, i \in DOMAIN rows, p \in Providers : AccountPrompt(adm, i, p)
           \/ \E adm \in Admins, i \in DOMAIN rows : VerifyPrompt(adm, i)
           \/ \E adm \in Admins, c \in Cargos, type \in Types : UnpaidPrompt(adm, c, type)
    PROVE  ReportedInv' /\ sent' = sent
<1>1. rows' = rows /\ sent' = sent
  BY DEF Submit, ApprovePrompt, CashPrompt, AccountPrompt, VerifyPrompt, UnpaidPrompt
<1>2. \A f : Reported(f)' <=> Reported(f)
  BY <1>1 DEF Reported
<1>3. ChargedWasSent'
  BY <1>1, <1>2 DEF ReportedInv, ChargedWasSent
<1>4. ASSUME NEW f \in Flights, asked'[f] # {} PROVE Reported(f)
  <2>1. asked[f] # {} \/ \E mode \in Modes, w \in Amounts : Submit(f, mode, w)
    BY <1>4, StateFacts
       DEF ReportedInv, Submit, ApprovePrompt, CashPrompt, AccountPrompt, VerifyPrompt,
           UnpaidPrompt
  <2>2. SentOn(f) # {} \/ asked[f] # {}
    BY <2>1 DEF Submit
  <2> QED BY <2>2, SentOnReported DEF ReportedInv, OpenWasSent
<1>5. ASSUME NEW adm \in Admins
      PROVE  /\ prompt'[adm].kind \in {"online", "cash"} => Reported(prompt'[adm].flight)
             /\ prompt'[adm].kind = "unpaid" => prompt'[adm].cargo \in sent
  <2> DEFINE Fit(p) == /\ p.kind \in {"online", "cash"} => Reported(p.flight)
                       /\ p.kind = "unpaid" => p.cargo \in sent
  <2>1. Fit(prompt[adm])
    BY DEF ReportedInv, OpenWasSent
  <2>2. ASSUME NEW by \in Admins, NEW p, Fit(p), prompt' = [prompt EXCEPT ![by] = p]
        PROVE  Fit(prompt'[adm])
    <3>1. prompt'[adm] = IF adm = by THEN p ELSE prompt[adm]
      BY <2>2, StateFacts DEF ReportedInv
    <3> HIDE DEF Fit
    <3> QED BY <2>1, <2>2, <3>1
  <2>3. ASSUME \E f \in Flights, mode \in Modes, w \in Amounts : Submit(f, mode, w)
        PROVE  Fit(prompt'[adm])
    BY <2>1, <2>3 DEF Submit
  <2>4. ASSUME NEW by \in Admins, NEW f \in Flights, ApprovePrompt(by, f) \/ CashPrompt(by, f)
        PROVE  Fit(prompt'[adm])
    <3>1. asked[f] # {}
      BY <2>4 DEF ApprovePrompt, CashPrompt
    <3>2. Reported(f)
      BY <3>1 DEF ReportedInv, OpenWasSent
    <3>3. PICK p : p.kind \in {"online", "cash"} /\ p.flight = f
                   /\ prompt' = [prompt EXCEPT ![by] = p]
      BY <2>4 DEF ApprovePrompt, CashPrompt
    <3>4. Fit(p)
      BY <3>2, <3>3
    <3> HIDE DEF Fit
    <3> QED BY <2>2, <3>3, <3>4
  <2>5. ASSUME NEW by \in Admins, NEW i \in DOMAIN rows,
               VerifyPrompt(by, i) \/ \E p \in Providers : AccountPrompt(by, i, p)
        PROVE  Fit(prompt'[adm])
    <3>1. CASE VerifyPrompt(by, i)
      <4> DEFINE q == [kind |-> "verify", tx |-> i]
      <4>1. Fit(q) /\ prompt' = [prompt EXCEPT ![by] = q]
        BY <3>1 DEF VerifyPrompt
      <4> HIDE DEF Fit, q
      <4> QED BY <2>2, <4>1
    <3>2. ASSUME NEW p \in Providers, AccountPrompt(by, i, p) PROVE Fit(prompt'[adm])
      <4> DEFINE q == [kind |-> "account", tx |-> i, provider |-> p]
      <4>1. Fit(q) /\ prompt' = [prompt EXCEPT ![by] = q]
        BY <3>2 DEF AccountPrompt
      <4> HIDE DEF Fit, q
      <4> QED BY <2>2, <4>1
    <3> HIDE DEF Fit
    <3> QED BY <2>5, <3>1, <3>2
  <2>6. ASSUME NEW by \in Admins, NEW c \in Cargos, NEW type \in Types, UnpaidPrompt(by, c, type)
        PROVE  Fit(prompt'[adm])
    <3>1. PICK p : p.kind = "unpaid" /\ p.cargo \in sent /\ prompt' = [prompt EXCEPT ![by] = p]
      BY <2>6 DEF UnpaidPrompt
    <3>2. Fit(p)
      BY <3>1
    <3> HIDE DEF Fit
    <3> QED BY <2>2, <3>1, <3>2
  <2>7. Fit(prompt'[adm])
    <3> HIDE DEF Fit
    <3>1. CASE \E by \in Admins, f \in Flights : ApprovePrompt(by, f) \/ CashPrompt(by, f)
      BY <2>4, <3>1
    <3>2. CASE \/ \E by \in Admins, i \in DOMAIN rows, p \in Providers : AccountPrompt(by, i, p)
               \/ \E by \in Admins, i \in DOMAIN rows : VerifyPrompt(by, i)
      BY <2>5, <3>2
    <3>3. CASE \E by \in Admins, c \in Cargos, type \in Types : UnpaidPrompt(by, c, type)
      BY <2>6, <3>3
    <3>4. \/ \E f \in Flights, mode \in Modes, w \in Amounts : Submit(f, mode, w)
          \/ \E by \in Admins, f \in Flights : ApprovePrompt(by, f) \/ CashPrompt(by, f)
          \/ \E by \in Admins, i \in DOMAIN rows, p \in Providers : AccountPrompt(by, i, p)
          \/ \E by \in Admins, i \in DOMAIN rows : VerifyPrompt(by, i)
          \/ \E by \in Admins, c \in Cargos, type \in Types : UnpaidPrompt(by, c, type)
      OBVIOUS
    <3> QED BY <2>3, <3>1, <3>2, <3>3, <3>4
  <2> QED BY <2>7
<1>6. OpenWasSent'
  BY <1>1, <1>2, <1>4, <1>5 DEF OpenWasSent
<1> QED BY <1>1, <1>3, <1>6 DEF ReportedInv

LEMMA OthersReported ==
    ASSUME ReportedInv, IInv', Grows(rows, rows'), [Next]_vars,
           ~\E f \in Flights : ReportSent(f) \/ ManuallySent(f)
    PROVE  ReportedInv' /\ sent' = sent
<1>0. Amounts \subseteq Nat /\ -Purse..Purse \subseteq Int
  BY LedgerAssumption DEF Amounts
<1> DEFINE Narrows ==
             /\ sent' = sent
             /\ \A f \in Flights : asked'[f] \subseteq asked[f]
             /\ \A adm \in Admins : prompt'[adm] = prompt[adm] \/ prompt'[adm] = NoPrompt
<1>1. ASSUME UNCHANGED sent, UNCHANGED asked,
             \/ UNCHANGED prompt
             \/ \E adm \in Admins : prompt' = [prompt EXCEPT ![adm] = NoPrompt]
      PROVE  Narrows
  BY <1>1, StateFacts DEF ReportedInv
<1>2. ASSUME AddsReported(rows, rows'), Narrows
      PROVE  ReportedInv' /\ sent' = sent
  BY <1>2, ReportedStep
<1>3. CASE \/ UNCHANGED vars
           \/ \E f \in Flights, k \in {"online", "cash"} : Reject(f, k)
           \/ \E adm \in Admins : Cancel(adm)
  <2>1. rows' = rows
    BY <1>3 DEF vars, Reject, Cancel
  <2>2. Narrows
    <3>1. CASE \E f \in Flights, k \in {"online", "cash"} : Reject(f, k)
      BY <3>1, StateFacts DEF Reject, ReportedInv
    <3>2. CASE UNCHANGED vars \/ \E adm \in Admins : Cancel(adm)
      <4>1. /\ UNCHANGED sent /\ UNCHANGED asked
            /\ \/ UNCHANGED prompt
               \/ \E adm \in Admins : prompt' = [prompt EXCEPT ![adm] = NoPrompt]
        BY <3>2 DEF vars, Cancel
      <4> QED BY <1>1, <4>1
    <3> QED BY <1>3, <3>1, <3>2
  <2> QED BY <1>2, <2>1, <2>2, InPlaceAdds
<1>4. CASE \/ \E f \in Flights, mode \in Modes, w \in Amounts : Submit(f, mode, w)
           \/ \E adm \in Admins, f \in Flights : ApprovePrompt(adm, f) \/ CashPrompt(adm, f)
           \/ \E adm \in Admins, i \in DOMAIN rows, p \in Providers : AccountPrompt(adm, i, p)
           \/ \E adm \in Admins, i \in DOMAIN rows : VerifyPrompt(adm, i)
           \/ \E adm \in Admins, c \in Cargos, type \in Types : UnpaidPrompt(adm, c, type)
  BY <1>4, OpenReported
<1>5. ASSUME NEW adm \in Admins, NEW a \in Amounts, ApproveAmount(adm, a)
      PROVE  ReportedInv' /\ sent' = sent
  <2> DEFINE f == prompt[adm].flight
  <2>1. /\ sent' = sent
        /\ UNCHANGED asked \/ asked' = [asked EXCEPT ![f] = @ \ {"online"}]
        /\ UNCHANGED prompt \/ prompt' = [prompt EXCEPT ![adm] = NoPrompt]
    BY <1>5 DEF ApproveAmount
  <2>2. Narrows
    BY <2>1, StateFacts DEF ReportedInv
  <2> QED BY <1>0, <1>2, <1>5, <2>2, ApproveAmountAdds
<1>6. ASSUME NEW adm \in Admins, NEW a \in Amounts,
             \/ CashAmount(adm, a) \/ AccountAmount(adm, a)
             \/ VerifyAmount(adm, a) \/ UnpaidAmount(adm, a)
      PROVE  ReportedInv' /\ sent' = sent
  <2>1. /\ UNCHANGED sent /\ UNCHANGED asked
        /\ prompt' = [prompt EXCEPT ![adm] = NoPrompt]
    BY <1>6 DEF CashAmount, AccountAmount, VerifyAmount, UnpaidAmount
  <2>2. AddsReported(rows, rows')
    BY <1>0, <1>6, CashAmountAdds, UnpaidAmountAdds, DesksInPlace, InPlaceAdds
  <2> QED BY <1>1, <1>2, <2>1, <2>2
<1>7. CASE \/ \E c \in Cargos, type \in Types, a \in Amounts :
                PosPay(c, type, a) \/ PosBulk(c, type, a)
           \/ \E a \in -Purse..Purse : AdjustBalance(a)
  <2>1. UNCHANGED sent /\ UNCHANGED asked /\ UNCHANGED prompt
    BY <1>7 DEF PosPay, PosBulk, AdjustBalance
  <2>2. AddsReported(rows, rows')
    BY <1>0, <1>7, PosPayAdds, PosBulkAdds, AdjustBalanceAdds
  <2> QED BY <1>1, <1>2, <2>1, <2>2
<1>8. CASE \/ \E i \in DOMAIN rows, type \in Types, a \in Amounts : PosExisting(i, type, a)
           \/ \E i \in DOMAIN rows : MarkTransactionTaken(i) \/ UpdateTakenStatus(i)
           \/ \E a \in Amounts : ApplyPayment(a) \/ Refund(a)
           \/ \E flights \in SUBSET Flights, first \in Flights, fee \in Amounts :
                Deliver(first, flights, fee)
  <2>1. UNCHANGED sent /\ UNCHANGED asked /\ UNCHANGED prompt
    BY <1>8 DEF PosExisting, MarkTransactionTaken, UpdateTakenStatus, ApplyPayment, Refund,
                Deliver
  <2>2. AddsReported(rows, rows')
    BY <1>8, DesksInPlace, InPlaceAdds
  <2> QED BY <1>1, <1>2, <2>1, <2>2
<1> HIDE DEF Narrows
<1> QED BY <1>3, <1>4, <1>5, <1>6, <1>7, <1>8 DEF Next

\* No handler moves a row to another flight.  A row may be deleted, by the lookup
\* that takes it for what a backfill left; it is gone for good, a dialogue that
\* kept its id finds nothing under it, and another row charges for the flight.
THEOREM RowsAreKept == Spec => [][Grows(rows, rows')]_vars
<1>1. IInv /\ [Next]_vars => [Grows(rows, rows')]_vars
  BY NextOK
<1> QED BY <1>1, Inductive, PTL DEF Spec

LEMMA ReportedInductive == Spec => []ReportedInv
<1>1. Init => ReportedInv
  <2>1. ASSUME Init PROVE ChargedWasSent /\ OpenWasSent
    BY <2>1 DEF Init, ChargedWasSent, OpenWasSent, NoPrompt
  <2> QED BY <2>1, InitOK DEF ReportedInv
<1>2. ReportedInv /\ [Next]_vars => ReportedInv'
  <2> SUFFICES ASSUME ReportedInv, [Next]_vars PROVE ReportedInv'
    OBVIOUS
  <2>1. IInv' /\ Grows(rows, rows')
    BY NextOK DEF ReportedInv
  <2> QED BY <2>1, SenderReported, OthersReported
<1> QED BY <1>1, <1>2, PTL DEF Spec

\* Whatever arrives late, a client is charged only for flights of which cargo
\* was reported to them.
THEOREM OnlyReportedCharged == Spec => []ChargedWasSent
<1>1. ReportedInv => ChargedWasSent
  BY DEF ReportedInv
<1> QED BY <1>1, ReportedInductive, PTL

\* The charged flights are those with reported cargo.
ChargedAsReported == Charged = {f \in Flights : Reported(f)}

LEMMA ChargedFacts == ReportedInv => ChargedAsReported
<1> SUFFICES ASSUME ReportedInv PROVE ChargedAsReported
  OBVIOUS
<1>1. ASSUME NEW f \in Flights, Reported(f)
      PROVE  \E i \in DOMAIN rows : rows[i].flight = f
  BY <1>1 DEF ReportedInv, IInv, SentIsBilled, Reported
<1>2. ASSUME NEW f \in Flights, NEW i \in DOMAIN rows, rows[i].flight = f
      PROVE  Reported(f)
  BY <1>2 DEF ReportedInv, ChargedWasSent
<1> QED BY <1>1, <1>2 DEF Charged, ChargedAsReported

\* A step of the ledger closes a batch of the bulk sender's book, or is invisible in it.
LEMMA BookStep ==
    ASSUME ReportedInv, ChargedAsReported, ChargedAsReported', [Next]_vars
    PROVE  [Book!Next]_(Book!book)
<1>1. IInv' /\ Grows(rows, rows')
  BY NextOK DEF ReportedInv
<1>2. ASSUME NEW f \in Flights, ReportSent(f) \/ ManuallySent(f)
      PROVE  Book!Next
  <2>1. PICK batch \in SUBSET Cargos :
          /\ batch # {} /\ \A c \in batch : FlightOf[c] = f
          /\ sent' = sent \cup batch
    BY <1>1, <1>2, SenderReported
  <2>2. Charged' = Charged \cup {f}
    BY <2>1 DEF ChargedAsReported, Reported
  <2>3. Book!Close(f, batch)
    BY <2>1, <2>2 DEF Book!Close
  <2> QED BY <2>3 DEF Book!Next
<1>3. CASE ~\E f \in Flights : ReportSent(f) \/ ManuallySent(f)
  <2>1. sent' = sent
    BY <1>1, <1>3, OthersReported
  <2>2. Charged' = Charged
    BY <2>1 DEF ChargedAsReported, Reported
  <2> QED BY <2>1, <2>2 DEF Book!book
<1> QED BY <1>2, <1>3

\* The ledger keeps the promise the bulk sender makes of a batch: the step that
\* reports cargo of a flight is the step that charges for the flight, nothing
\* else charges for a flight anew, and no charge is ever withdrawn.
THEOREM ImplementsBook == Spec => Book!Spec
<1>1. Init => Book!Init
  BY DEF Init, Book!Init, Charged
<1>2. ReportedInv => ChargedAsReported
  BY ChargedFacts
<1>3. ReportedInv /\ ChargedAsReported /\ ChargedAsReported' /\ [Next]_vars
        => [Book!Next]_(Book!book)
  BY BookStep
<1> QED BY <1>1, <1>2, <1>3, ReportedInductive, PTL DEF Spec, Book!Spec
==============================================================================
