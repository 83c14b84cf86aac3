---------------------------- MODULE MCFlightMasks ----------------------------
(* FlightMasks on small instances.  The own flight bears p1's second number. *)
EXTENDS FlightMasks

CONSTANTS p1, p2, f1, f2, f3, custom

OwnFlight == <<p1, 2>>
FlightsAndOwn == {f1, f2, f3, OwnFlight}
FirstAndOwn == {f1, OwnFlight}
ForEveryPartner == [f \in Flights |-> Partners]
CustomOrFirst == {custom, <<p1, 1>>}
FirstEdited == {<<p1, f1>>}
Nothing == {}
==============================================================================
