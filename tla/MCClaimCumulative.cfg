\* Two bulk items on one pending row, which may be one cargo named twice.
CONSTANTS
    f1 = f1
    Flights = {f1}
    Cargos = {c1, c2}
    Whole = whole
    SysAdj = sysadj
    Types = {"cash", "click"}
    Admins = {a1}
    Desks = {"sender", "pos", "delivery"}
    MaxRows = 3
    Purse = 3
    FlightOf <- OneFlight
    Bill <- ExtraCharge
    BotPrice <- UnitPrice
SPECIFICATION Spec
INVARIANTS
    PaidIsCumulative
