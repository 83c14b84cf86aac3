----------------------------- MODULE BulkDialogue -----------------------------
(***************************************************************************)
(* The dialogue in which an admin starts a bulk send: select a flight,     *)
(* review the masks, confirm.  State and data of the dialogue are two keys *)
(* in Redis with lives of their own; buttons stay in the chat.             *)
(*                                                                         *)
(* A handler's calls of Redis between two of Telegram are one step: the    *)
(* throttle keeps the next update of the same admin away for half a        *)
(* second.  A call of Telegram, or the review of the masks, takes longer,  *)
(* and another update of the admin may be handled meanwhile.               *)
(***************************************************************************)
EXTENDS Naturals

CONSTANTS
    Flights,        \* with unsent cargo
    NoFlight,
    MaxScreens      \* bound on the confirmation screens

VARIABLES
    state,          \* FSM state
    data,           \* FSM data: flight_name (with its clients_data), confirm_message_id
    screens,        \* confirmation screens with buttons: number and flight shown
    last,           \* number of the last one
    underway,       \* handlers that wait for something
    started         \* campaigns: the flight shown and the flight sent

vars == <<state, data, screens, last, underway, started>>

Screens == [id : 1..MaxScreens, flight : Flights]
NoData == [flight |-> NoFlight, bound |-> 0]

TypeOK ==
    /\ state \in {"none", "selecting", "reviewing", "editing", "confirming", "sending"}
    /\ data \in [flight : Flights \cup {NoFlight}, bound : 0..MaxScreens]
    /\ screens \subseteq Screens /\ last \in 0..MaxScreens
    /\ underway \subseteq [does : {"select", "proceed"}, flight : Flights]
            \cup [does : {"bind"}, id : 1..MaxScreens]
            \cup [does : {"launch"}, shown : Flights, sent : Flights]
    /\ started \subseteq [shown : Flights, sent : Flights]

Init ==
    /\ state = "none" /\ data = NoData /\ screens = {} /\ last = 0
    /\ underway = {} /\ started = {}

Clear == state' = "none" /\ data' = NoData
Begins(h) == underway' = underway \cup {h}
Ends(h) == h \in underway /\ underway' = underway \ {h}

\* The list of flights.
StartBulkSend ==
    /\ state' = "selecting"
    /\ UNCHANGED <<data, screens, last, underway, started>>

\* A flight of any list still in the chat, in any state.  The number of the
\* confirmation screen stays in the data.
SelectFlight(f) ==
    /\ data' = [data EXCEPT !.flight = f]
    /\ Begins([does |-> "select", flight |-> f])
    /\ UNCHANGED <<state, screens, last, started>>

SelectNothing ==
    /\ Clear
    /\ UNCHANGED <<screens, last, underway, started>>

\* The masks are shown; or the review failed.
ShowReview(h) ==
    /\ h.does = "select" /\ Ends(h)
    /\ state' \in {"reviewing", state}
    /\ UNCHANGED <<data, screens, last, started>>

EditPrompt ==
    /\ state = "reviewing"
    /\ IF data.flight = NoFlight THEN Clear ELSE state' = "editing" /\ UNCHANGED data
    /\ UNCHANGED <<screens, last, underway, started>>

EditSave ==
    /\ state = "editing"
    /\ IF data.flight = NoFlight THEN Clear ELSE state' = "reviewing" /\ UNCHANGED data
    /\ UNCHANGED <<screens, last, underway, started>>

\* The data is read; what it held is shown.
Proceed ==
    /\ state = "reviewing"
    /\ IF data.flight = NoFlight
       THEN Clear /\ UNCHANGED underway
       ELSE Begins([does |-> "proceed", flight |-> data.flight]) /\ UNCHANGED <<state, data>>
    /\ UNCHANGED <<screens, last, started>>

ShowConfirmation(h) ==
    /\ h.does = "proceed" /\ h \in underway /\ last < MaxScreens
    /\ last' = last + 1
    /\ screens' = screens \cup {[id |-> last', flight |-> h.flight]}
    /\ state' = "confirming"
    /\ underway' = (underway \ {h}) \cup {[does |-> "bind", id |-> last']}
    /\ UNCHANGED <<data, started>>

Bind(h) ==
    /\ h.does = "bind" /\ Ends(h)
    /\ data' = [data EXCEPT !.bound = h.id]
    /\ UNCHANGED <<state, screens, last, started>>

\* A screen that is turned down, or used, loses its buttons, if Telegram does
\* as it is told.
Press(s) == s \in screens /\ screens' \in {screens, screens \ {s}}

\* stale_bulk_button, or the screen is not the one in the data.
RejectStale(s) ==
    /\ Press(s)
    /\ state = "confirming" => data.flight # NoFlight /\ data.bound # s.id
    /\ UNCHANGED <<state, data, last, underway, started>>

\* The state has outlived the data.
RejectLost(s) ==
    /\ Press(s) /\ state = "confirming" /\ data.flight = NoFlight
    /\ Clear
    /\ UNCHANGED <<last, underway, started>>

Confirm(s) ==
    /\ Press(s) /\ state = "confirming" /\ data.flight # NoFlight /\ data.bound = s.id
    /\ state' = "sending"
    /\ Begins([does |-> "launch", shown |-> s.flight, sent |-> data.flight])
    /\ UNCHANGED <<data, last, started>>

\* The progress message is there and the task starts; or the message failed.
Launch(h) ==
    /\ h.does = "launch" /\ Ends(h)
    /\ started' \in {started, started \cup {[shown |-> h.shown, sent |-> h.sent]}}
    /\ UNCHANGED <<state, data, screens, last>>

\* bulk_cancel, cancel_task, or another flow that clears the dialogue.
CancelSend ==
    /\ Clear
    /\ \E s \in SUBSET screens : screens' = s
    /\ UNCHANGED <<last, underway, started>>

Expire ==
    /\ \/ state' = "none" /\ UNCHANGED data
       \/ data' = NoData /\ UNCHANGED state
    /\ UNCHANGED <<screens, last, underway, started>>

Restart ==
    /\ underway' = {}
    /\ UNCHANGED <<state, data, screens, last, started>>

Next ==
    \/ \E f \in Flights : SelectFlight(f)
    \/ StartBulkSend \/ SelectNothing \/ EditPrompt \/ EditSave \/ Proceed
    \/ \E h \in underway : ShowReview(h) \/ ShowConfirmation(h) \/ Bind(h) \/ Launch(h)
    \/ \E s \in screens : RejectStale(s) \/ RejectLost(s) \/ Confirm(s)
    \/ CancelSend \/ Expire \/ Restart

Spec == Init /\ [][Next]_vars

-----------------------------------------------------------------------------
\* What the comment in alias_proceed claims: a confirmation screen never sends
\* a flight other than the one it shows.
SendsWhatItShows == \A s \in started : s.sent = s.shown
===============================================================================
