------------------------------- MODULE NameBook -------------------------------
(***************************************************************************)
(* What the masks of flights promise, however many requests, notifications *)
(* and reviews mint them at once.  A flight enters a partner's book in one *)
(* step, under a name no other flight of the partner has; from then on     *)
(* only staff change or remove it.  Clients are shown names that are in    *)
(* the book when they are shown, or the partner's own numbers; the         *)
(* exceptions are the pairs of partner and flight that staff changed and   *)
(* those whose entry a failed statement took back.                         *)
(***************************************************************************)
CONSTANTS
    Partners, Flights,
    Own             \* <<partner, flight>> that need no entry

VARIABLES
    book,           \* entries: a partner, a flight, its mask
    shown,          \* what clients have seen: a partner, a flight, a name
    edited,         \* <<partner, flight>> that staff have changed
    lost            \* <<partner, flight>> whose entry was taken back

names == <<book, shown, edited, lost>>

Init == book = {} /\ shown = {} /\ edited = {} /\ lost = {}

\* No other entry of the new book has the flight or the mask of a.
EntersFresh(a) ==
    \A b \in book' \ {a} : a.partner = b.partner => a.real # b.real /\ a.mask # b.mask

MayShow(t) ==
    \/ <<t.partner, t.real>> \in Own \cup edited \cup lost
    \/ \E a \in book' : a.partner = t.partner /\ a.real = t.real /\ a.mask = t.name

\* Flights enter the book, and clients are shown names.
Enter ==
    /\ book \subseteq book'
    /\ \A a \in book' \ book : EntersFresh(a)
    /\ shown \subseteq shown'
    /\ \A t \in shown' \ shown : MayShow(t)
    /\ UNCHANGED <<edited, lost>>

\* Staff override or remove the entry of one flight, and of no other.
Change(p, f) ==
    /\ edited' = edited \cup {<<p, f>>}
    /\ \A a \in book \ book' : a.partner = p /\ a.real = f
    /\ \A a \in book' \ book : a.partner = p /\ a.real = f /\ EntersFresh(a)
    /\ UNCHANGED <<shown, lost>>

\* A failed statement takes back entries that were never in the book.
TakeBack ==
    /\ lost \subseteq lost'
    /\ \A pf \in lost' \ lost : \A a \in book : <<a.partner, a.real>> # pf
    /\ UNCHANGED <<book, shown, edited>>

Next ==
    \/ Enter
    \/ \E p \in Partners, f \in Flights : Change(p, f)
    \/ TakeBack

Spec == Init /\ [][Next]_names
===============================================================================
