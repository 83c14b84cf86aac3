---------------------------- MODULE PaymentLedger ----------------------------
(***************************************************************************)
(* The payment ledger of one client: every database transaction that       *)
(* writes client_transaction_data and client_payment_events, in whatever   *)
(* order the bulk cargo sender, the bot's approval and verification        *)
(* dialogues, the POS endpoints, the wallet desk and the delivery desk     *)
(* make them.  An admin's dialogue is two handlers, a prompt that stores   *)
(* what it read in the FSM data and an amount message that uses it later,  *)
(* so everything the others do may happen in between.                      *)
(*                                                                         *)
(* Each action is one committed database transaction.  Money is counted    *)
(* in units; purse bounds the sum of all amounts people type.              *)
(***************************************************************************)
EXTENDS LedgerRow, Sequences, FiniteSetsExt

CONSTANTS
    FlightOf,       \* the flight of each cargo
    Bill,           \* price of a set of cargos: weight * rate + extra charge
    BotPrice,       \* price of a cargo in the bot's unpaid dialogue
    Admins,         \* admins with a bot dialogue
    Desks,          \* which parts of the program are in use
    MaxRows,        \* bound on the rows of the table
    Purse           \* bound on the sum of the amounts typed

ASSUME LedgerAssumption ==
    /\ FlightOf \in [Cargos -> Flights]
    /\ Bill \in [SUBSET Cargos -> Nat]
    /\ \A S \in SUBSET Cargos : S # {} => Bill[S] > 0
    /\ BotPrice \in [Cargos -> Nat]
    /\ Desks \subseteq {"sender", "bot", "verify", "pos", "wallet", "delivery"}
    /\ MaxRows \in Nat /\ Purse \in Nat

VARIABLES
    rows,           \* the client's rows, oldest first
    sent,           \* cargos with is_sent
    walletKey,      \* Redis wallet_used:<client>:<flight>, 0 when absent
    modeKey,        \* Redis payment_mode:<client>:<flight>
    asked,          \* approval messages with live buttons, by flight
    prompt,         \* the admins' FSM data
    purse           \* what may still be typed

vars == <<rows, sent, walletKey, modeKey, asked, prompt, purse>>
redis == <<walletKey, modeKey>>

Modes == {"none", "full", "cash", "wallet_only"}
NoPrompt == [kind |-> "none"]

Prompts ==
    {NoPrompt}
    \cup [kind : {"online"}, flight : Flights, walletOnly : BOOLEAN]
    \cup [kind : {"cash"}, flight : Flights, partial : BOOLEAN, tx : Nat]
    \cup [kind : {"account"}, tx : Nat, provider : Providers]
    \cup [kind : {"verify"}, tx : Nat]
    \cup [kind : {"unpaid"}, cargo : Cargos, type : Types]

Init ==
    /\ rows = <<>>
    /\ sent = {}
    /\ walletKey = [f \in Flights |-> 0]
    /\ modeKey = [f \in Flights |-> "none"]
    /\ asked = [f \in Flights |-> {}]
    /\ prompt = [adm \in Admins |-> NoPrompt]
    /\ purse = Purse
------------------------------------------------------------------------------
(* Queries *)

SentOn(f) == {c \in sent : FlightOf[c] = f}
RowsAt(f, item) == {i \in DOMAIN rows : rows[i].flight = f /\ rows[i].item = item}
FlightRows(f) == RowsAt(f, Whole)

\* get_by_client_code_flight takes a flight's untouched debts for what a backfill
\* script left when there is another flight-level row: it returns one of the
\* others (0: there is no row) and deletes these.
RealRows(rs, f) == {i \in DOMAIN rs : rs[i].flight = f /\ rs[i].item = Whole /\ ~Ghost(rs[i])}

Found(f) ==
    IF FlightRows(f) = {} THEN {0}
    ELSE IF RealRows(rows, f) = {} THEN FlightRows(f) ELSE RealRows(rows, f)

\* Mutant: ghosts are deleted although nothing else is left of the flight.
HealedAlways(rs, f) ==
    [i \in DOMAIN rs |-> IF rs[i].flight = f /\ Ghost(rs[i]) THEN Gone ELSE rs[i]]

\* The table after the lookup.  Row ids are not used again.
Healed(rs, f) ==
    IF RealRows(rs, f) = {} THEN rs
    ELSE [i \in DOMAIN rs |-> IF rs[i].flight = f /\ Ghost(rs[i]) THEN Gone ELSE rs[i]]

\* get_wallet_balances: the positive balances, whatever is owed elsewhere.
Wallet(rs) == MapThenSumSet(LAMBDA i : PositivePart(rs[i].pbd), DOMAIN rs)

\* What a payment of due may take from the wallet, without and with use_balance.
UsableCredit(rs, due) == {w \in 0..due : w \in {0, Lesser(Wallet(rs), due)}}

\* get_by_client_code_flight_row: paid before partial before pending, newest first.
Priority(t) == CASE t.status = "paid" -> 0 [] t.status = "partial" -> 1 [] OTHER -> 2
BestRows(S) ==
    {i \in S : \A j \in S : \/ Priority(rows[i]) < Priority(rows[j])
                            \/ Priority(rows[i]) = Priority(rows[j]) /\ i >= j}

\* Row 0 is the row to be inserted.
RowFor(rs, i, f) == IF i = 0 THEN PendingDebt(f, 0) ELSE rs[i]
Put(rs, i, t) == IF i = 0 THEN Append(rs, t) ELSE [rs EXCEPT ![i] = t]
Room(i) == i = 0 => Len(rows) < MaxRows

Spend(a) == a <= purse /\ purse' = purse - a
------------------------------------------------------------------------------
(* Bulk cargo sender *)

\* Mutant: every batch is billed on a row of its own.
ReportSentAnew(f) ==
    /\ "sender" \in Desks
    /\ \E batch \in SUBSET {c \in Cargos \ sent : FlightOf[c] = f} :
         /\ batch # {}
         /\ sent' = sent \cup batch
         /\ Room(0) /\ rows' = Append(rows, PendingDebt(f, Bill[batch]))
    /\ UNCHANGED <<redis, asked, prompt, purse>>

\* A report reached the client: the batch is marked sent, and billed unless the
\* flight already has a flight-level row.
ReportSent(f) ==
    /\ "sender" \in Desks
    /\ \E batch \in SUBSET {c \in Cargos \ sent : FlightOf[c] = f} :
         /\ batch # {}
         /\ sent' = sent \cup batch
         /\ IF FlightRows(f) = {}
            THEN Room(0) /\ rows' = Append(rows, PendingDebt(f, Bill[batch]))
            ELSE rows' = Healed(rows, f)
    /\ UNCHANGED <<redis, asked, prompt, purse>>

\* The report failed and an admin pressed "sent by hand": the batch is added to
\* the flight-level row when there is one.
ManuallySent(f) ==
    /\ "sender" \in Desks
    /\ \E batch \in SUBSET {c \in Cargos \ sent : FlightOf[c] = f} :
         /\ batch # {}
         /\ sent' = sent \cup batch
         /\ \/ FlightRows(f) = {} /\ Room(0)
               /\ rows' = Append(rows, PendingDebt(f, Bill[batch]))
            \/ \E i \in Found(f) \ {0} :
                 rows' = [Healed(rows, f) EXCEPT ![i] = Extended(rows[i], Bill[batch])]
    /\ UNCHANGED <<redis, asked, prompt, purse>>
------------------------------------------------------------------------------
(* Payment requests and their approval in the bot *)

\* The client submits a payment; wallet_used is only written when positive.
Submit(f, mode, w) ==
    /\ "bot" \in Desks
    /\ SentOn(f) # {}
    /\ mode \in Modes \ {"none"}
    /\ mode = "wallet_only" => w > 0
    /\ w <= Wallet(rows)
    /\ modeKey' = [modeKey EXCEPT ![f] = mode]
    /\ walletKey' = IF w > 0 THEN [walletKey EXCEPT ![f] = w] ELSE walletKey
    /\ asked' = [asked EXCEPT ![f] = @ \cup {IF mode = "cash" THEN "cash" ELSE "online"}]
    /\ UNCHANGED <<rows, sent, prompt, purse>>

\* Rejecting removes the buttons and leaves Redis as it is.
Reject(f, k) ==
    /\ k \in asked[f]
    /\ asked' = [asked EXCEPT ![f] = @ \ {k}]
    /\ UNCHANGED <<rows, sent, redis, prompt, purse>>

\* The button "approve": the amount due decides whether 0 will be accepted.
ApprovePrompt(adm, f) ==
    /\ "online" \in asked[f]
    /\ \E i \in Found(f) :
         LET expected == Basis(RowFor(rows, i, f), Bill[SentOn(f)])
         IN  prompt' = [prompt EXCEPT ![adm] =
                 [kind |-> "online", flight |-> f,
                  walletOnly |-> walletKey[f] >= expected /\ expected > 0]]
    /\ UNCHANGED <<rows, sent, redis, asked, purse>>

\* The approved amount, typed or the full one.  A paid row refuses it, a partial
\* one is topped up, a pending one is overwritten.  The Redis keys, the dialogue
\* and the buttons go after the commit, and the flight is looked up once more: a
\* failure in between leaves them.
ApproveAmount(adm, a) ==
    /\ prompt[adm].kind = "online"
    /\ a = 0 => prompt[adm].walletOnly
    /\ LET f == prompt[adm].flight
           Provider == CASE modeKey[f] = "wallet_only" -> {"wallet"}
                         [] modeKey[f] = "cash" -> {"cash"}
                         [] OTHER -> Types \ {"cash"}
           Record(t, p) ==
               IF t.status = "partial" THEN ToppedUp(t, p, a)
               ELSE Booked(t, f, Whole, Bill[SentOn(f)], walletKey[f], a,
                           IF p = "wallet" THEN "click" ELSE p)
       IN  \E i \in Found(f), p \in Provider :
             LET t == RowFor(rows, i, f)
                 booked == Put(Healed(rows, f), i, Record(t, p))
             IN  \/ /\ t.status = "paid"
                    /\ prompt' = [prompt EXCEPT ![adm] = NoPrompt]
                    /\ UNCHANGED <<rows, redis, asked, purse>>
                 \/ /\ t.status # "paid"
                    /\ Room(i) /\ Spend(a)
                    /\ \/ /\ rows' = Healed(booked, f)
                          /\ walletKey' = [walletKey EXCEPT ![f] = 0]
                          /\ modeKey' = [modeKey EXCEPT ![f] = "none"]
                          /\ asked' = [asked EXCEPT ![f] = @ \ {"online"}]
                          /\ prompt' = [prompt EXCEPT ![adm] = NoPrompt]
                       \/ rows' = booked /\ UNCHANGED <<redis, asked, prompt>>
    /\ UNCHANGED sent

\* "/cancel" in place of the amount, in every dialogue.  A cash request whose
\* button is gone is gone with it.
Cancel(adm) ==
    /\ prompt[adm].kind # "none"
    /\ prompt' = [prompt EXCEPT ![adm] = NoPrompt]
    /\ UNCHANGED <<rows, sent, redis, asked, purse>>

\* The button "cash received" (it disappears at once): what the flight's row
\* looked like is kept in the dialogue.
CashPrompt(adm, f) ==
    /\ "cash" \in asked[f]
    /\ asked' = [asked EXCEPT ![f] = @ \ {"cash"}]
    /\ \E i \in Found(f) :
         prompt' = [prompt EXCEPT ![adm] =
             [kind |-> "cash", flight |-> f, tx |-> i,
              partial |-> i # 0 /\ rows[i].status = "partial"]]
    /\ UNCHANGED <<rows, sent, redis, purse>>

\* The cash amount.  A row that was partial when prompted is topped up, whatever
\* became of it, and nothing is booked if it was deleted; otherwise the flight is
\* looked up again.
CashAmount(adm, a) ==
    /\ prompt[adm].kind = "cash"
    /\ a > 0
    /\ LET p == prompt[adm]
           kept == Healed(rows, p.flight)
           Book(i) == Taken(Booked(RowFor(rows, i, p.flight), p.flight, Whole,
                                   Bill[SentOn(p.flight)], walletKey[p.flight], a, "cash"))
       IN  IF p.partial
           THEN LET t == ToppedUp(rows[p.tx], "cash", a)
                IN  \/ rows[p.tx] = Gone /\ UNCHANGED <<rows, purse>>
                    \/ /\ rows[p.tx] # Gone
                       /\ rows' = [rows EXCEPT ![p.tx] =
                                      IF t.remaining = 0 THEN Taken(t) ELSE t]
                       /\ Spend(a)
           ELSE \E i \in Found(p.flight) :
                  LET t == RowFor(rows, i, p.flight)
                      target == IF t.status = "pending" THEN i
                                ELSE IF p.tx # 0 /\ kept[p.tx].status = "pending"
                                     THEN p.tx ELSE 0
                  IN  \/ t.status = "paid" /\ UNCHANGED <<rows, purse>>
                      \/ /\ t.status # "paid"
                         /\ Room(target) /\ Spend(a)
                         /\ rows' = Put(kept, target, Book(target))
    /\ prompt' = [prompt EXCEPT ![adm] = NoPrompt]
    /\ UNCHANGED <<sent, redis, asked>>
------------------------------------------------------------------------------
(* The client verification dialogues of the bot *)

\* "Account payment": one confirmation per provider and row.
AccountPrompt(adm, i, p) ==
    /\ "verify" \in Desks
    /\ i \in DOMAIN rows /\ rows[i].flight \in Flights
    /\ p \in Providers \ rows[i].providers
    /\ prompt' = [prompt EXCEPT ![adm] = [kind |-> "account", tx |-> i, provider |-> p]]
    /\ UNCHANGED <<rows, sent, redis, asked, purse>>

AccountAmount(adm, a) ==
    /\ prompt[adm].kind = "account"
    /\ a > 0
    /\ LET p == prompt[adm]
       IN  \/ rows[p.tx] = Gone /\ UNCHANGED <<rows, purse>>
           \/ /\ rows[p.tx] # Gone /\ Spend(a)
              /\ rows' = [rows EXCEPT ![p.tx] = ToppedUp(rows[p.tx], p.provider, a)]
    /\ prompt' = [prompt EXCEPT ![adm] = NoPrompt]
    /\ UNCHANGED <<sent, redis, asked>>

\* "Cash" on a row not taken yet: taken when it ends with nothing outstanding.
VerifyPrompt(adm, i) ==
    /\ "verify" \in Desks
    /\ i \in DOMAIN rows /\ rows[i].flight \in Flights
    /\ ~rows[i].taken
    /\ SentOn(rows[i].flight) # {}
    /\ prompt' = [prompt EXCEPT ![adm] = [kind |-> "verify", tx |-> i]]
    /\ UNCHANGED <<rows, sent, redis, asked, purse>>

VerifyAmount(adm, a) ==
    /\ prompt[adm].kind = "verify"
    /\ a > 0
    /\ LET i == prompt[adm].tx
           t == ToppedUp(rows[i], "cash", a)
       IN  \/ rows[i] = Gone /\ UNCHANGED <<rows, purse>>
           \/ /\ rows[i] # Gone /\ Spend(a)
              /\ rows' = [rows EXCEPT ![i] = IF t.remaining = 0 THEN Taken(t) ELSE t]
    /\ prompt' = [prompt EXCEPT ![adm] = NoPrompt]
    /\ UNCHANGED <<sent, redis, asked>>

\* "Unpaid cargo": refused when the cargo has a row, but only when prompting.
UnpaidPrompt(adm, c, type) ==
    /\ "verify" \in Desks
    /\ c \in sent /\ BotPrice[c] > 0
    /\ RowsAt(FlightOf[c], c) = {}
    /\ type \in Types \ {"card"}
    /\ prompt' = [prompt EXCEPT ![adm] = [kind |-> "unpaid", cargo |-> c, type |-> type]]
    /\ UNCHANGED <<rows, sent, redis, asked, purse>>

UnpaidAmount(adm, a) ==
    /\ prompt[adm].kind = "unpaid"
    /\ a > 0 /\ Spend(a) /\ Room(0)
    /\ LET p == prompt[adm]
           f == FlightOf[p.cargo]
           t == Booked(PendingDebt(f, 0), f, p.cargo, BotPrice[p.cargo], 0, a, p.type)
       IN  rows' = Append(rows, IF p.type = "cash" THEN Taken(t) ELSE t)
    /\ prompt' = [prompt EXCEPT ![adm] = NoPrompt]
    /\ UNCHANGED <<sent, redis, asked>>
------------------------------------------------------------------------------
(* POS *)

\* A payment is at most twice what is due once the wallet has been used.
Payable(a, need) == need > 0 => a <= 2 * need

\* The row a cargo is booked on: its own row, else the flight's pending row,
\* else a new one; wholes are the flight-level rows that stand in the way.
OwnRow(c) == BestRows(RowsAt(FlightOf[c], c))
PendingRow(c) == {i \in BestRows(FlightRows(FlightOf[c])) : rows[i].status = "pending"}
SettledWhole(c) == BestRows(FlightRows(FlightOf[c])) \ PendingRow(c)

\* Mutant: the flight's row is taken over whatever its status.
TargetsOfAnyWhole(c) ==
    IF OwnRow(c) # {} THEN OwnRow(c)
    ELSE IF FlightRows(FlightOf[c]) # {} THEN BestRows(FlightRows(FlightOf[c])) ELSE {0}

TargetsOf(c) ==
    IF OwnRow(c) # {} THEN OwnRow(c)
    ELSE IF PendingRow(c) # {} THEN PendingRow(c) ELSE {0}

\* POST /payments/process: refused for a cargo whose own row is paid or partial.
PosPay(c, type, a) ==
    /\ "pos" \in Desks
    /\ c \in sent /\ a > 0 /\ Spend(a)
    /\ \A i \in OwnRow(c) : rows[i].status = "pending"
    /\ \E i \in TargetsOf(c) :
         LET t == RowFor(rows, i, FlightOf[c])
             due == Basis(t, Bill[{c}])
         IN  /\ Room(i)
             /\ \E w \in UsableCredit(rows, due) :
                  /\ Payable(a, due - w)
                  /\ rows' = Put(rows, i, Settled(t, c, Bill[{c}], w, a, type))
    /\ UNCHANGED <<sent, redis, asked, prompt>>

\* Mutant: a cargo that is already paid is accepted again.
BulkAcceptsAgain(c) ==
    /\ c \in sent
    /\ OwnRow(c) = {} => SettledWhole(c) = {}

\* Phase 1 of the bulk endpoint, on the rows before any item is written.
BulkAccepts(c) ==
    /\ c \in sent
    /\ \A i \in OwnRow(c) : rows[i].status # "paid"
    /\ OwnRow(c) = {} => SettledWhole(c) = {}

\* Phase 2 for one item: rs are the rows the earlier items left, i the row
\* found in phase 1; any amount is accepted unless cash is needed and missing.
BulkWrites(rs, i, c, type, a) ==
    LET t == RowFor(rs, i, FlightOf[c])
        due == Basis(t, Bill[{c}])
    IN  {Put(rs, i, Settled(t, c, Bill[{c}], w, a, type)) :
            w \in {v \in UsableCredit(rs, due) : due > v => a > 0}}

PosBulk(c1, type1, a1) ==
    /\ "pos" \in Desks
    /\ BulkAccepts(c1)
    /\ \E i1 \in TargetsOf(c1) :
         /\ Room(i1)
         /\ \E rs \in BulkWrites(rows, i1, c1, type1, a1) :
              \/ rows' = rs /\ Spend(a1)
              \/ \E c2 \in Cargos, type2 \in Types, a2 \in 0..purse :
                   /\ BulkAccepts(c2)
                   /\ Spend(a1 + a2)
                   /\ \E i2 \in TargetsOf(c2) :
                        /\ i2 = 0 => Len(rs) < MaxRows
                        /\ rows' \in BulkWrites(rs, i2, c2, type2, a2)
    /\ UNCHANGED <<sent, redis, asked, prompt>>

\* POST /payments/process-existing on a row not taken yet, whatever its status.
PosExisting(i, type, a) ==
    /\ "pos" \in Desks
    /\ i \in DOMAIN rows /\ rows[i].flight \in Flights
    /\ ~rows[i].taken
    /\ a > 0 /\ Spend(a)
    /\ LET due == IF rows[i].remaining > 0 THEN rows[i].remaining ELSE rows[i].total
       IN  \E w \in UsableCredit(rows, due) :
             /\ Payable(a, due - w)
             /\ rows' = [rows EXCEPT ![i] = ExistingPaid(rows[i], w, a, type)]
    /\ UNCHANGED <<sent, redis, asked, prompt>>

MarkTransactionTaken(i) ==
    /\ "pos" \in Desks
    /\ i \in DOMAIN rows /\ ~rows[i].taken
    /\ rows' = [rows EXCEPT ![i] = ForceTaken(rows[i])]
    /\ UNCHANGED <<sent, redis, asked, prompt, purse>>

\* PATCH of the flag, either way (the bot's "taken" button only sets it).
UpdateTakenStatus(i) ==
    /\ "pos" \in Desks
    /\ i \in DOMAIN rows /\ rows[i].flight \in Flights
    /\ rows' = [rows EXCEPT ![i].taken = ~@]
    /\ UNCHANGED <<sent, redis, asked, prompt, purse>>

AdjustBalance(a) ==
    /\ "pos" \in Desks
    /\ a # 0 /\ Room(0) /\ Spend(IF a > 0 THEN a ELSE -a)
    /\ rows' = Append(rows, Adjustment(a))
    /\ UNCHANGED <<sent, redis, asked, prompt>>
------------------------------------------------------------------------------
(* Wallet and delivery desks *)

\* The shares of the rows when amount is handed out oldest row first, each row
\* taking at most capacity[i].
Fifo(amount, capacity) ==
    {share \in [DOMAIN rows -> 0..amount] :
        /\ \A i \in DOMAIN rows : share[i] <= capacity[i]
        /\ \A i, j \in DOMAIN rows : i < j /\ share[j] > 0 => share[i] = capacity[i]
        /\ MapThenSumSet(LAMBDA i : share[i], DOMAIN rows)
             = Lesser(amount, MapThenSumSet(LAMBDA i : capacity[i], DOMAIN rows))}

\* apply_payment: debts are paid oldest first; what is left goes to the last
\* debt's balance, and nowhere when there was no debt.
ApplyPayment(amount) ==
    /\ "wallet" \in Desks
    /\ amount > 0 /\ Spend(amount)
    /\ LET debt == [i \in DOMAIN rows |-> PositivePart(-rows[i].pbd)]
           isLast(i) == debt[i] > 0 /\ \A j \in DOMAIN rows : debt[j] > 0 => j <= i
       IN  \E share \in Fifo(amount, debt), left \in 0..amount :
             /\ left = amount - MapThenSumSet(LAMBDA i : share[i], DOMAIN rows)
             /\ rows' = [i \in DOMAIN rows |->
                    Allocated(rows[i], share[i] + IF isLast(i) THEN left ELSE 0)]
    /\ UNCHANGED <<sent, redis, asked, prompt>>

\* The refund is checked against the wallet, then taken from the oldest credits.
Refund(amount) ==
    /\ "wallet" \in Desks
    /\ amount > 0 /\ amount <= Wallet(rows) /\ Spend(amount)
    /\ \E share \in Fifo(amount, [i \in DOMAIN rows |-> PositivePart(rows[i].pbd)]) :
         rows' = [i \in DOMAIN rows |-> Withdrawn(rows[i], share[i])]
    /\ UNCHANGED <<sent, redis, asked, prompt>>

\* A delivery request: the fee comes off the balance of the first flight's
\* flight-level row, when it has one, and all rows of the flights are taken.
Deliver(first, flights, fee) ==
    /\ "delivery" \in Desks
    /\ first \in flights /\ Spend(fee)
    /\ LET kept == IF fee > 0 THEN Healed(rows, first) ELSE rows
       IN  \E i \in Found(first) :
             rows' = [j \in DOMAIN rows |->
                 LET t == IF j = i THEN Withdrawn(kept[j], fee) ELSE kept[j]
                 IN  IF t.flight \in flights THEN Taken(t) ELSE t]
    /\ UNCHANGED <<sent, redis, asked, prompt>>
------------------------------------------------------------------------------
Amounts == 0..Purse

Next ==
    \/ \E f \in Flights : ReportSent(f) \/ ManuallySent(f)
    \/ \E f \in Flights, mode \in Modes, w \in Amounts : Submit(f, mode, w)
    \/ \E f \in Flights, k \in {"online", "cash"} : Reject(f, k)
    \/ \E adm \in Admins, f \in Flights : ApprovePrompt(adm, f) \/ CashPrompt(adm, f)
    \/ \E adm \in Admins, i \in DOMAIN rows, p \in Providers : AccountPrompt(adm, i, p)
    \/ \E adm \in Admins, i \in DOMAIN rows : VerifyPrompt(adm, i)
    \/ \E adm \in Admins, c \in Cargos, type \in Types : UnpaidPrompt(adm, c, type)
    \/ \E adm \in Admins : Cancel(adm)
    \/ \E adm \in Admins, a \in Amounts :
         \/ ApproveAmount(adm, a) \/ CashAmount(adm, a)
         \/ AccountAmount(adm, a) \/ VerifyAmount(adm, a) \/ UnpaidAmount(adm, a)
    \/ \E c \in Cargos, type \in Types, a \in Amounts : PosPay(c, type, a) \/ PosBulk(c, type, a)
    \/ \E i \in DOMAIN rows, type \in Types, a \in Amounts : PosExisting(i, type, a)
    \/ \E i \in DOMAIN rows : MarkTransactionTaken(i) \/ UpdateTakenStatus(i)
    \/ \E a \in -Purse..Purse : AdjustBalance(a)
    \/ \E a \in Amounts : ApplyPayment(a) \/ Refund(a)
    \/ \E flights \in SUBSET Flights, first \in Flights, fee \in Amounts :
         Deliver(first, flights, fee)

Spec == Init /\ [][Next]_vars
------------------------------------------------------------------------------
(* Properties *)

TypeOK ==
    /\ rows \in Seq(Row)
    /\ sent \subseteq Cargos
    /\ walletKey \in [Flights -> Nat]
    /\ modeKey \in [Flights -> Modes]
    /\ asked \in [Flights -> SUBSET {"online", "cash"}]
    /\ prompt \in [Admins -> Prompts]
    /\ \A adm \in Admins :
         /\ prompt[adm].kind \in {"account", "verify"} => prompt[adm].tx \in DOMAIN rows
         /\ prompt[adm].kind = "cash" => prompt[adm].tx \in {0} \cup DOMAIN rows
    /\ purse \in Nat

\* Nine write paths set payment_balance_difference; after any sequence of them
\* it is still what the row was paid less what it owes, moved only by debt
\* payments, refunds and delivery fees since the row was last computed.
BalancesExplained == \A i \in DOMAIN rows : BalanceExplained(rows[i])

\* No sequence of payments, recalculations and closures makes outstanding debt
\* of a row in the table vanish without a payment, wallet cover or waiver for it.
DebtsExplained == \A i \in DOMAIN rows : DebtExplained(rows[i])

\* paid_amount never exceeds the row's payment events and never misses one,
\* except those an overwrite of the row left out.
PaidAmountsExplained == \A i \in DOMAIN rows : PaidExplained(rows[i])

\* payment_status never contradicts what is outstanding, and a pending row, which
\* the approval and POS paths overwrite, never has a payment that would be lost.
StatusesExplained == \A i \in DOMAIN rows : StatusExplained(rows[i])

\* Every flight with cargo reported to the client has a row charging for it.
SentIsBilled == \A c \in sent : \E i \in DOMAIN rows : rows[i].flight = FlightOf[c]

\* A paid row is reopened only by cargo added to its bill, or by a recalculation
\* that forgets what no event backs (wallet cover, FIFO payment, waiver): never
\* by a late approval, a refund, a fee, a second payment or a closure.
PaidStaysPaid ==
    [][\A i \in DOMAIN rows :
          rows[i].status = "paid" /\ rows'[i].status # "paid"
          => \/ rows'[i].total > rows[i].total
             \/ rows[i].covered + rows[i].allocated + rows[i].waived > 0]_vars

\* Payments stay where they were made: a row that left "pending" is never taken
\* over for another cargo, though POS turns pending flight-level rows into rows of
\* cargos and dialogues keep row ids; and the lookup that deletes debts of a flight
\* deletes none that carries a payment, and leaves the flight a row to charge for it.
PaymentsKept ==
    [][/\ DOMAIN rows \subseteq DOMAIN rows'
       /\ \A i \in DOMAIN rows :
            \/ KeepsPayments(rows[i], rows'[i])
            \/ /\ rows'[i] = Gone
               /\ rows[i].item = Whole /\ rows[i].cash = 0 /\ rows[i].wallet = 0
               /\ \E j \in DOMAIN rows' \ {i} :
                    rows'[j].item = Whole /\ rows'[j].flight = rows[i].flight]_vars

\* What PaidIsCumulative misses, and no more: paid_amount leaves a payment out only
\* when one POS transaction writes a row twice.  The row was pending, so all that is
\* lost was typed in that transaction; or it was the partial row of a cargo named
\* twice, and the first item closed it with what was typed and the wallet's credit.
LostBefore(i) == IF i \in DOMAIN rows THEN rows[i].lost ELSE 0

LossIsInBatch ==
    [][\A i \in DOMAIN rows' :
          rows'[i].lost > LostBefore(i) =>
            /\ i \in DOMAIN rows /\ rows[i].status # "paid"
            /\ rows'[i].lost <= rows[i].cash + (purse - purse')
            /\ rows[i].status = "partial" =>
                 /\ rows'[i].item = rows[i].item
                 /\ \E w \in UsableCredit(rows, rows[i].remaining) :
                      rows[i].remaining <= w + (purse - purse')]_vars

\* At most one flight-level row per flight: what get_by_client_code_flight and
\* the approval handlers rely on, and what no database constraint enforces.
OneFlightRow ==
    \A i, j \in DOMAIN rows :
        rows[i].item = Whole /\ rows[j].item = Whole
        /\ rows[i].flight = rows[j].flight /\ rows[i].flight \in Flights => i = j

\* What breaks OneFlightRow, and nothing else: a cash dialogue opened before the
\* flight's row became partial, whose amount comes after.
OneRowOf(f) == \A i, j \in FlightRows(f) : i = j

SecondRowIsCash ==
    [][\A f \in Flights :
          OneRowOf(f) /\ ~OneRowOf(f)' =>
            \E adm \in Admins :
              /\ prompt[adm].kind = "cash" /\ prompt[adm].flight = f /\ ~prompt[adm].partial
              /\ \E i \in FlightRows(f) : rows[i].status = "partial"]_vars
==============================================================================
