\* The bulk sender, the dialogues of two admins and the wallet desk on one flight,
\* with no extra charge and one account provider: three units cover a debt, its
\* overpayment and a second row, which is what the deletion of a debt row takes.
CONSTANTS
    f1 = f1
    Flights = {f1}
    Cargos = {c1, c2}
    Whole = whole
    SysAdj = sysadj
    Types = {"click"}
    Admins = {a1, a2}
    Desks = {"sender", "bot", "verify", "wallet"}
    MaxRows = 2
    Purse = 3
    FlightOf <- OneFlight
    Bill <- CargoCount
    BotPrice <- OnePrice
SYMMETRY AdminSymmetry
SPECIFICATION Spec
INVARIANTS
    StatusesExplained
    SentIsBilled
PROPERTIES
    PaidStaysPaid
    PaymentsKept
    SecondRowIsCash
