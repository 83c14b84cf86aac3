\* An older confirmation screen and the flight that was selected last.
CONSTANTS
    Flights = {f1, f2}
    NoFlight = none
    MaxScreens = 2
SPECIFICATION Spec
INVARIANT SendsWhatItShows
