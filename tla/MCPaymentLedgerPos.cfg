\* The bulk sender, POS, wallet and delivery desks on one flight of two cargos.
CONSTANTS
    f1 = f1
    Flights = {f1}
    Cargos = {c1, c2}
    Whole = whole
    SysAdj = sysadj
    Types = {"cash", "click"}
    Admins = {a1}
    Desks = {"sender", "pos", "wallet", "delivery"}
    MaxRows = 3
    Purse = 3
    FlightOf <- OneFlight
    Bill <- ExtraCharge
    BotPrice <- UnitPrice
SPECIFICATION Spec
INVARIANTS
    TypeOK
    BalancesExplained
    DebtsExplained
    PaidAmountsExplained
    StatusesExplained
PROPERTIES
    PaidStaysPaid
    LossIsInBatch
