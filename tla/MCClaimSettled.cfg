\* A flight settled at the POS while its cash dialogue is open.
CONSTANTS
    f1 = f1
    Flights = {f1}
    Cargos = {c1}
    Whole = whole
    SysAdj = sysadj
    Types = {"cash", "click"}
    Admins = {a1}
    Desks = {"sender", "bot", "pos", "delivery"}
    MaxRows = 3
    Purse = 3
    FlightOf <- OneFlight
    Bill <- ExtraCharge
    BotPrice <- UnitPrice
SPECIFICATION Spec
PROPERTIES
    SettledFlightNotCharged
