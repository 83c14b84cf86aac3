\* Two admins approve the same flight.
CONSTANTS
    f1 = f1
    Flights = {f1}
    Cargos = {c1, c2}
    Whole = whole
    SysAdj = sysadj
    Types = {"cash", "click"}
    Admins = {a1, a2}
    Desks = {"sender", "bot"}
    MaxRows = 3
    Purse = 3
    FlightOf <- OneFlight
    Bill <- ExtraCharge
    BotPrice <- UnitPrice
SPECIFICATION Spec
INVARIANTS
    OneFlightRow
