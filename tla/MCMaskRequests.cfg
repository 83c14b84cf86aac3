\* Two requests that mint masks of one partner, while staff change one of them.
CONSTANTS
    p1 = p1
    p2 = p2
    f1 = f1
    f2 = f2
    f3 = f3
    custom = custom
    Partners = {p1}
    Flights <- FlightsAndOwn
    PartnersOf <- ForEveryPartner
    Custom = {custom}
    Overrides <- CustomOrFirst
    Editable <- FirstEdited
    MaxNumber = 6
    MintAttempts = 3
    Displays = {d1, d2}
    Notifiers = {}
    Reviews = {}
SPECIFICATION FairSpec
INVARIANTS
    TypeOK
    OneToOne
    ShownLeadsBack
    FailedWhenOutpaced
PROPERTIES
    SessionsEnd
