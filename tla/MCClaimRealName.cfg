\* Requests of one partner.
CONSTANTS
    p1 = p1
    p2 = p2
    f1 = f1
    f2 = f2
    f3 = f3
    custom = custom
    Partners = {p1}
    Flights <- FlightsAndOwn
    PartnersOf <- ForEveryPartner
    Custom = {custom}
    Overrides <- Nothing
    Editable <- Nothing
    MaxNumber = 4
    MintAttempts = 3
    Displays = {d1}
    Notifiers = {}
    Reviews = {}
SPECIFICATION Spec
INVARIANTS
    RealNameKept
