------------------------------ MODULE ReportBook ------------------------------
(***************************************************************************)
(* What a bulk send promises the database of one flight, whatever overlaps *)
(* or crashes: a cargo leaves the list of unsent cargos for good, and only *)
(* when its client has been told of it (or an admin vouches for that), in  *)
(* the very step in which the client comes to owe for the flight; or when  *)
(* there is nothing to tell.                                               *)
(***************************************************************************)
CONSTANTS Clients, Cargos, Owner

VARIABLES
    told,       \* cargos their client has been told of
    closed,     \* cargos no longer offered for sending
    owes        \* clients with a debt for the flight

book == <<told, closed, owes>>

Init == told = {} /\ closed = {} /\ owes = {}

Tell(S) ==
    /\ told' = told \cup S
    /\ UNCHANGED <<closed, owes>>

Close(x, S) ==
    /\ \A c \in S : Owner[c] = x
    /\ S \subseteq told'
    /\ told \subseteq told'
    /\ closed' = closed \cup S
    /\ owes' = owes \cup {x}

NothingToTell(x, S) ==
    /\ \A c \in S : Owner[c] = x
    /\ closed' = closed \cup S
    /\ UNCHANGED <<told, owes>>

Next ==
    \/ \E S \in SUBSET Cargos : Tell(S)
    \/ \E x \in Clients, S \in SUBSET Cargos : Close(x, S) \/ NothingToTell(x, S)

Spec == Init /\ [][Next]_book
===============================================================================
