\* A flight notification and the review of a bulk send visit two partners.
CONSTANTS
    p1 = p1
    p2 = p2
    f1 = f1
    f2 = f2
    f3 = f3
    custom = custom
    Partners = {p1, p2}
    Flights <- FirstAndOwn
    PartnersOf <- ForEveryPartner
    Custom = {custom}
    Overrides <- Nothing
    Editable <- Nothing
    MaxNumber = 3
    MintAttempts = 3
    Displays = {}
    Notifiers = {n1}
    Reviews = {r1}
SPECIFICATION FairSpec
INVARIANTS
    ShownLeadsBack
PROPERTIES
    IsNameBook
    SessionsEnd
