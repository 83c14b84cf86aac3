---------------------------- MODULE PaymentClaims ----------------------------
(***************************************************************************)
(* What docstrings and comments of the payment code say of it and the code *)
(* does not do.  Each claim is checked against PaymentLedger on an         *)
(* instance in which TLC finds the sequence of calls that breaks it.       *)
(***************************************************************************)
EXTENDS PaymentLedger

CoveredBefore(i) == IF i \in DOMAIN rows THEN rows[i].covered ELSE 0

\* create_payment_transaction says the row's balance "absorbs the wallet
\* deduction": wallet credit counted as payment of a cargo is gone from the wallet
\* afterwards.  get_wallet_balances sums the positive balances alone, and the
\* settlement only writes a negative one, so one use leaves the credit as it was.
WalletUseSpendsCredit ==
    [][\A i \in DOMAIN rows' :
          LET used == rows'[i].covered - CoveredBefore(i)
          IN  used > 0 /\ rows'[i].pbd <= 0 => Wallet(rows') <= Wallet(rows) - used]_vars

\* create_payment_transaction says paid_amount is "cumulative across all events
\* for this transaction".  Two items of a bulk payment, which may name the same
\* cargo, find the same pending row, and the second one overwrites what the first
\* one paid.
PaidIsCumulative == \A i \in DOMAIN rows : rows[i].lost = 0

\* The cash dialogue says its fresh lookup catches that "another path (POS,
\* online approval) settled the flight".  It looks at flight-level rows only,
\* and POS turns that row into the cargo's.
PosSettled(f) ==
    SentOn(f) # {} /\ \A c \in SentOn(f) : \E i \in RowsAt(f, c) : rows[i].status = "paid"

SettledFlightNotCharged ==
    [][\A f \in Flights :
          PosSettled(f) => Cardinality(FlightRows(f)') <= Cardinality(FlightRows(f))]_vars
==============================================================================
