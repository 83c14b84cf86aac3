--------------------------- MODULE MCPaymentLedger ---------------------------
(* PaymentLedger and its claims on small instances: two cargos of one flight. *)
EXTENDS PaymentClaims, TLC

CONSTANTS f1

OneFlight == [c \in Cargos |-> f1]

\* A cargo costs one unit and every bill has an extra charge of one, so a POS
\* payment of one unit is partial; the bot's unpaid dialogue misses the charge.
\* Without the charge, CargoCount, debts are small enough to be paid twice over.
ExtraCharge == [S \in SUBSET Cargos |-> IF S = {} THEN 0 ELSE Cardinality(S) + 1]
CargoCount == [S \in SUBSET Cargos |-> Cardinality(S)]
UnitPrice == [c \in Cargos |-> 1]

\* One of the cargos has no weight, which the unpaid dialogue refuses.
OnePrice == [c \in Cargos |-> IF c = CHOOSE d \in Cargos : TRUE THEN 1 ELSE 0]

\* The admins of an instance are interchangeable.
AdminSymmetry == Permutations(Admins)
==============================================================================
