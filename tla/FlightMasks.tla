----------------------------- MODULE FlightMasks -----------------------------
(***************************************************************************)
(* The names of flights.  Every partner's clients know a flight by a mask  *)
(* kept in partner_flight_aliases; what they type is translated back.      *)
(* Masks are minted by requests that render a flight (FlightDisplay, in a  *)
(* transaction of their own, retried), and by batches that visit every     *)
(* partner of a flight in one session: flight notifications, which then    *)
(* message the clients, and the review of a bulk send.  Staff override and *)
(* delete masks in between.                                                *)
(*                                                                         *)
(* A step of a session is one SQL statement: what other sessions have      *)
(* committed is visible to the next one (READ COMMITTED), and an INSERT    *)
(* waits for an uncommitted row with the same key.                         *)
(*                                                                         *)
(* The name <<p, n>> is partner p's n-th number, as in "AKB285"; it is at  *)
(* once a mask of p and, for a flight the China import named so, the       *)
(* flight's real name.                                                     *)
(***************************************************************************)
EXTENDS Naturals, FiniteSets, FiniteSetsExt

CONSTANTS
    Partners,
    Flights,        \* real names of flights
    PartnersOf,     \* the partners that have clients on a flight
    Custom,         \* masks that are no number
    Overrides,      \* masks that staff enter
    Editable,       \* <<partner, flight>> whose mask staff change, once each
    MintAttempts,   \* _MINT_ATTEMPTS
    MaxNumber,      \* bound on the numbers of masks
    Displays,       \* sessions of FlightDisplay._mint
    Notifiers,      \* sessions of FlightNotifySender.initialize
    Reviews         \* sessions of build_review


Numbers == Partners \X (1..MaxNumber)
Batches == Notifiers \cup Reviews
Sessions == Displays \cup Batches

ASSUME MaskAssumption ==
    /\ Partners # {} /\ Flights # {}
    /\ PartnersOf \in [Flights -> SUBSET Partners]
    /\ MaxNumber \in Nat /\ MintAttempts \in Nat \ {0}
    /\ Displays \cap Batches = {} /\ Notifiers \cap Reviews = {}
    /\ Custom \cap Numbers = {}
    /\ Overrides \subseteq Numbers \cup Custom
    /\ Editable \subseteq Partners \X Flights

VARIABLES
    aliases,        \* the committed rows of partner_flight_aliases
    pc,             \* where each session is
    flight,         \* the flight it is about
    todo,           \* partners a batch has still to visit
    partner,        \* the partner it is minting for
    pick,           \* the number it is about to insert
    tries,          \* attempts of _mint that failed
    held,           \* rows it has inserted and not committed
    known,          \* the names it is going to show, with partner and flight
    told,           \* the names clients have been shown
    edited,         \* <<partner, flight>> whose mask staff have changed
    lost,           \* <<partner, flight>> whose row was rolled back while a
                    \* batch went on with its mask
    outpaced        \* rows of its partner committed since a mint began

session == <<pc, flight, todo, partner, pick, tries, held, known, outpaced>>
history == <<told, edited, lost>>
vars == <<aliases, session, history>>

AnyFlight == CHOOSE f \in Flights : TRUE       \* of a session that is idle
AnyPartner == CHOOSE p \in Partners : TRUE

Masks == Numbers \cup Custom
Aliases == [partner : Partners, real : Flights, mask : Masks]
Shown == [partner : Partners, real : Flights, name : Masks \cup Flights]

Init ==
    /\ aliases = {}
    /\ pc = [s \in Sessions |-> "idle"]
    /\ flight = [s \in Sessions |-> AnyFlight]
    /\ todo = [s \in Sessions |-> {}]
    /\ partner = [s \in Sessions |-> AnyPartner]
    /\ pick = [s \in Sessions |-> 0]
    /\ tries = [s \in Sessions |-> 0]
    /\ held = [s \in Sessions |-> {}]
    /\ known = [s \in Sessions |-> {}]
    /\ told = {}
    /\ edited = {}
    /\ lost = {}
    /\ outpaced = [s \in Sessions |-> 0]
------------------------------------------------------------------------------
(* Reading the table *)

IsOwn(p, name) == name \in {p} \X (1..MaxNumber)    \* is_own_mask_name
ByReal(rows, p, f) == {a \in rows : a.partner = p /\ a.real = f}
ByMask(rows, p, m) == {a \in rows : a.partner = p /\ a.mask = m}
Visible(s) == aliases \cup held[s]
Entry(a) == [partner |-> a.partner, real |-> a.real, name |-> a.mask]

\* normalize_flight_input: a mask first, anything else is a real name.
Normalized(p, name) ==
    LET found == ByMask(aliases, p, name)
    IN  IF found # {} THEN (CHOOSE a \in found : TRUE).real ELSE name

\* _next_auto_mask
Suffixes(rows, p) == {n \in 1..MaxNumber : ByMask(rows, p, <<p, n>>) # {}}

\* Mutants: the rows are counted; the highest number is used again.
NextSuffixCounted(rows, p) == Cardinality({a \in rows : a.partner = p}) + 1
NextSuffixHighest(rows, p) == Max({0} \cup Suffixes(rows, p))

NextSuffix(rows, p) == Max({0} \cup Suffixes(rows, p)) + 1

\* Mutant: no constraint on the mask.
ClashReal(rows, p, f, m) == ByReal(rows, p, f)

\* The rows a unique constraint sets against <<p, f, m>>.
Clash(rows, p, f, m) == ByReal(rows, p, f) \cup ByMask(rows, p, m)

Picked(s) == <<partner[s], pick[s]>>

\* The sessions whose uncommitted row an INSERT of s has to wait for.
Holders(s) ==
    {t \in Sessions \ {s} : Clash(held[t], partner[s], flight[s], Picked(s)) # {}}

Waits(s) == pc[s] = "insert" /\ Holders(s) # {}
------------------------------------------------------------------------------
(* The steps of a session *)

Goto(s, label) == pc' = [pc EXCEPT ![s] = label]

\* A session ends: its data go, committed or not.
Ends(s) ==
    /\ Goto(s, "idle")
    /\ flight' = [flight EXCEPT ![s] = AnyFlight]
    /\ partner' = [partner EXCEPT ![s] = AnyPartner]
    /\ todo' = [todo EXCEPT ![s] = {}]
    /\ pick' = [pick EXCEPT ![s] = 0]
    /\ tries' = [tries EXCEPT ![s] = 0]
    /\ held' = [held EXCEPT ![s] = {}]
    /\ known' = [known EXCEPT ![s] = {}]

\* FlightDisplay.mask without minting: the partner's own number as it is,
\* otherwise the mask there is.
Display(p, f) ==
    /\ told' = told \cup (IF IsOwn(p, f) THEN {[partner |-> p, real |-> f, name |-> f]}
                          ELSE {Entry(a) : a \in ByReal(aliases, p, f)})
    /\ UNCHANGED <<aliases, session, edited, lost>>

\* FlightDisplay.mask finds no mask and calls _mint.
Mint(s, p, f) ==
    /\ s \in Displays /\ pc[s] = "idle"
    /\ ~IsOwn(p, f) /\ ByReal(aliases, p, f) = {}
    /\ Goto(s, "look")
    /\ flight' = [flight EXCEPT ![s] = f]
    /\ partner' = [partner EXCEPT ![s] = p]
    /\ outpaced' = [outpaced EXCEPT ![s] = 0]
    /\ UNCHANGED <<aliases, todo, pick, tries, held, known, history>>

\* A batch about one flight visits every partner that has clients on it.
StartBatch(s, f) ==
    /\ s \in Batches /\ pc[s] = "idle"
    /\ Goto(s, "next")
    /\ flight' = [flight EXCEPT ![s] = f]
    /\ todo' = [todo EXCEPT ![s] = PartnersOf[f]]
    /\ UNCHANGED <<aliases, partner, pick, tries, held, known, outpaced, history>>

\* display_flight_name for the next partner, in the order of the clients.
NextPartner(s, p) ==
    /\ pc[s] = "next" /\ p \in todo[s]
    /\ todo' = [todo EXCEPT ![s] = @ \ {p}]
    /\ IF IsOwn(p, flight[s])
       THEN /\ known' = [known EXCEPT ![s] = @ \cup {[partner |-> p, real |-> flight[s], name |-> flight[s]]}]
            /\ UNCHANGED <<pc, partner>>
       ELSE /\ Goto(s, "look")
            /\ partner' = [partner EXCEPT ![s] = p]
            /\ UNCHANGED known
    /\ UNCHANGED <<aliases, flight, pick, tries, held, outpaced, history>>

\* ensure_mask up to its INSERT: get_by_real and, without a row, _next_auto_mask.
Look(s) ==
    LET found == ByReal(Visible(s), partner[s], flight[s])
        n == NextSuffix(Visible(s), partner[s])
    IN  /\ pc[s] = "look"
        /\ \/ /\ found # {}
              /\ known' = [known EXCEPT ![s] = @ \cup {Entry(a) : a \in found}]
              /\ Goto(s, "next")
              /\ UNCHANGED pick
           \/ /\ found = {} /\ n <= MaxNumber
              /\ pick' = [pick EXCEPT ![s] = n]
              /\ Goto(s, "insert")
              /\ UNCHANGED known
        /\ UNCHANGED <<aliases, flight, todo, partner, tries, held, outpaced, history>>

\* PartnerFlightAliasDAO.create: the INSERT goes through.
Insert(s) ==
    LET row == [partner |-> partner[s], real |-> flight[s], mask |-> Picked(s)]
    IN  /\ pc[s] = "insert" /\ Holders(s) = {}
        /\ Clash(Visible(s), partner[s], flight[s], Picked(s)) = {}
        /\ held' = [held EXCEPT ![s] = @ \cup {row}]
        /\ known' = [known EXCEPT ![s] = @ \cup {Entry(row)}]
        /\ Goto(s, "next")
        /\ UNCHANGED <<aliases, flight, todo, partner, pick, tries, outpaced, history>>

\* Mutant: the same number is tried again and again.
RaiseSameNumber(s) ==
    /\ held' = [held EXCEPT ![s] = {}]
    /\ UNCHANGED <<pc, flight, todo, partner, pick, tries, known>>

\* ensure_mask raises IntegrityError: _mint begins again in a new transaction,
\* twice; a notification skips the partner; a review fails.
Raise(s) ==
    \/ /\ s \in Displays /\ tries[s] + 1 < MintAttempts
       /\ tries' = [tries EXCEPT ![s] = @ + 1]
       /\ held' = [held EXCEPT ![s] = {}]
       /\ Goto(s, "look")
       /\ UNCHANGED <<flight, todo, partner, pick, known>>
    \/ /\ s \in Displays /\ tries[s] + 1 = MintAttempts
       /\ Ends(s)
    \/ /\ s \in Notifiers
       /\ held' = [held EXCEPT ![s] = {}]
       /\ Goto(s, "next")
       /\ UNCHANGED <<flight, todo, partner, pick, tries, known>>
    \/ /\ s \in Reviews
       /\ Ends(s)

\* Mutant: the number it wanted is shown, not the row that won.
CollideKeepsPick(s) ==
    LET found == ByReal(aliases, partner[s], flight[s])
        wanted == [partner |-> partner[s], real |-> flight[s], name |-> Picked(s)]
    IN  /\ pc[s] = "insert" /\ Holders(s) = {}
        /\ Clash(Visible(s), partner[s], flight[s], Picked(s)) # {}
        /\ lost' = lost \cup {<<a.partner, a.real>> : a \in held[s]}
        /\ \/ /\ found # {}
              /\ held' = [held EXCEPT ![s] = {}]
              /\ known' = [known EXCEPT ![s] = @ \cup {wanted}]
              /\ Goto(s, "next")
              /\ UNCHANGED <<flight, todo, partner, pick, tries>>
           \/ found = {} /\ Raise(s)
        /\ outpaced' = [outpaced EXCEPT ![s] = IF pc'[s] = "idle" THEN 0 ELSE @]
        /\ UNCHANGED <<aliases, told, edited>>

\* The INSERT violates a unique constraint.  The rollback takes with it what the
\* session had inserted before; then the row is fetched again.
Collide(s) ==
    LET found == ByReal(aliases, partner[s], flight[s])
    IN  /\ pc[s] = "insert" /\ Holders(s) = {}
        /\ Clash(Visible(s), partner[s], flight[s], Picked(s)) # {}
        /\ lost' = lost \cup {<<a.partner, a.real>> : a \in held[s]}
        /\ \/ /\ found # {}
              /\ held' = [held EXCEPT ![s] = {}]
              /\ known' = [known EXCEPT ![s] = @ \cup {Entry(a) : a \in found}]
              /\ Goto(s, "next")
              /\ UNCHANGED <<flight, todo, partner, pick, tries>>
           \/ found = {} /\ Raise(s)
        /\ outpaced' = [outpaced EXCEPT ![s] = IF pc'[s] = "idle" THEN 0 ELSE @]
        /\ UNCHANGED <<aliases, told, edited>>

\* The sessions that are minting for one of the partners have been outpaced by
\* one more row; the count stops at MintAttempts.
Outpaced(ps) ==
    [t \in Sessions |-> IF pc[t] # "idle" /\ partner[t] \in ps
                        THEN Min({outpaced[t] + 1, MintAttempts}) ELSE outpaced[t]]

\* Mutant: the names are sent out and the session is closed without a commit.
FinishUncommitted(s) ==
    /\ pc[s] = "next" /\ todo[s] = {}
    /\ told' = told \cup (IF s \in Reviews THEN {} ELSE known[s])
    /\ outpaced' = [outpaced EXCEPT ![s] = 0]
    /\ Ends(s)
    /\ UNCHANGED <<aliases, edited, lost>>

\* The session commits, and the clients are shown the names: the one that asked,
\* or every client a notification goes to.  A review shows them to an admin.
Finish(s) ==
    /\ pc[s] = "next" /\ todo[s] = {}
    /\ aliases' = aliases \cup held[s]
    /\ told' = told \cup (IF s \in Reviews THEN {} ELSE known[s])
    /\ outpaced' = [Outpaced({a.partner : a \in held[s]}) EXCEPT ![s] = 0]
    /\ Ends(s)
    /\ UNCHANGED <<edited, lost>>

\* lock_timeout: the mint gives up, and it is no IntegrityError.
LockTimeout(s) ==
    /\ s \in Displays /\ Waits(s)
    /\ Ends(s)
    /\ outpaced' = [outpaced EXCEPT ![s] = 0]
    /\ UNCHANGED <<aliases, history>>

\* Sessions that wait for each other: the database fails one of them, which
\* leaves its SQLAlchemy session unusable and ends the batch.
DeadlockVictim(s) ==
    /\ s \in Batches
    /\ \E D \in SUBSET Sessions :
         /\ s \in D
         /\ \A t \in D : Waits(t) /\ Holders(t) \cap D # {} /\ \E u \in D : t \in Holders(u)
    /\ Ends(s)
    /\ outpaced' = [outpaced EXCEPT ![s] = 0]
    /\ UNCHANGED <<aliases, history>>
------------------------------------------------------------------------------
(* Staff *)

\* set_mask, from the partner screen or the review of a bulk send.
SetMask(p, f, m) ==
    /\ <<p, f>> \in Editable \ edited
    /\ ByMask(aliases, p, m) \subseteq ByReal(aliases, p, f)
    /\ \A t \in Sessions : Clash(held[t], p, f, m) = {}
    /\ aliases' = (aliases \ ByReal(aliases, p, f)) \cup {[partner |-> p, real |-> f, mask |-> m]}
    /\ edited' = edited \cup {<<p, f>>}
    /\ outpaced' = Outpaced({p})
    /\ UNCHANGED <<pc, flight, todo, partner, pick, tries, held, known, told, lost>>

DeleteAlias(a) ==
    /\ <<a.partner, a.real>> \in Editable \ edited
    /\ aliases' = aliases \ {a}
    /\ edited' = edited \cup {<<a.partner, a.real>>}
    /\ UNCHANGED <<session, told, lost>>

Step(s) ==
    \/ \E p \in Partners : NextPartner(s, p)
    \/ Look(s) \/ Insert(s) \/ Collide(s) \/ Finish(s)
    \/ LockTimeout(s) \/ DeadlockVictim(s)

Next ==
    \/ \E f \in Flights : \E p \in PartnersOf[f] : Display(p, f)
    \/ \E s \in Displays, f \in Flights : \E p \in PartnersOf[f] : Mint(s, p, f)
    \/ \E s \in Batches, f \in Flights : StartBatch(s, f)
    \/ \E s \in Sessions : Step(s)
    \/ \E p \in Partners, f \in Flights, m \in Overrides : SetMask(p, f, m)
    \/ \E a \in aliases : DeleteAlias(a)

Spec == Init /\ [][Next]_vars

\* A running session executes its next statement, and a lock that is released goes
\* to a session that waits for it sooner or later: the database queues them.
FairSpec ==
    /\ Spec
    /\ \A s \in Sessions : WF_vars(Step(s)) /\ SF_vars(Insert(s) \/ Collide(s))
------------------------------------------------------------------------------
(* Properties *)

TypeOK ==
    /\ aliases \subseteq Aliases
    /\ pc \in [Sessions -> {"idle", "next", "look", "insert"}]
    /\ flight \in [Sessions -> Flights]
    /\ todo \in [Sessions -> SUBSET Partners]
    /\ partner \in [Sessions -> Partners]
    /\ pick \in [Sessions -> 0..MaxNumber]
    /\ \A s \in Sessions : pc[s] = "insert" => pick[s] > 0
    /\ tries \in [Sessions -> 0..MintAttempts]
    /\ held \in [Sessions -> SUBSET Aliases]
    /\ known \in [Sessions -> SUBSET Shown]
    /\ told \subseteq Shown
    /\ edited \subseteq Editable
    /\ lost \subseteq Partners \X Flights
    /\ outpaced \in [Sessions -> 0..MintAttempts]

\* "Both columns are unique within a partner so each direction is a true
\* function": of everything committed or about to be.
Tabled == aliases \cup UNION {held[s] : s \in Sessions}
OneToOne ==
    \A a, b \in Tabled :
        a.partner = b.partner => (a.real = b.real <=> a.mask = b.mask)

Undisturbed(t) == <<t.partner, t.real>> \notin edited \cup lost

\* What a client was shown for a flight leads back to that flight when it is
\* typed, however many sessions minted masks at the time.
ShownLeadsBack ==
    \A t \in told : ~IsOwn(t.partner, t.real) /\ Undisturbed(t)
        => Normalized(t.partner, t.name) = t.real

\* An attempt to mint fails only because another mask of the partner was
\* committed meanwhile: it takes three of them to make a request fail.
FailedWhenOutpaced == \A s \in Displays : tries[s] <= outpaced[s]

Names == INSTANCE NameBook WITH
    Own <- {pf \in Partners \X Flights : IsOwn(pf[1], pf[2])},
    book <- aliases, shown <- told

\* The statements, locks, retries and rollbacks of all sessions come to the steps
\* of NameBook: a mask appears at once and unique, stays until staff change it,
\* and clients see no other name, except for a flight a rollback hit.
IsNameBook == Names!Spec

\* Every session comes to an end, whatever it has to wait for.
SessionsEnd == \A s \in Sessions : pc[s] # "idle" ~> pc[s] = "idle"

\* Claim of FlightNotifySender: "every resolved partner is guaranteed a mask by
\* initialize".
MaskGuaranteed ==
    \A t \in told : ~IsOwn(t.partner, t.real) /\ <<t.partner, t.real>> \notin edited
        => \E a \in aliases : Entry(a) = t

\* Claim of normalize_flight_input: staff "may type either the real flight name or
\* the partner-specific mask. This helper returns the real flight name in either
\* case".
RealNameKept ==
    \A t \in told : t.name = t.real => Normalized(t.partner, t.name) = t.real
==============================================================================
