-------------------------- MODULE FlightMasksProofs --------------------------
(***************************************************************************)
(* Masks are one-to-one, and what clients were shown leads back to its     *)
(* flight, for every number of sessions, partners and flights.             *)
(*                                                                         *)
(* The invariant follows a name from the session that is going to show it  *)
(* to the clients: it is an own number, or staff have changed it, or a     *)
(* rollback took its row, or the row is in the table or about to be.       *)
(***************************************************************************)
EXTENDS FlightMasks, WellFoundedInduction, TLAPS

Backed(t, rows) ==
    IsOwn(t.partner, t.real) \/ ~Undisturbed(t) \/ \E a \in rows : Entry(a) = t

KnownBacked == \A s \in Sessions : \A t \in known[s] : Backed(t, Visible(s))
ToldBacked == \A t \in told : Backed(t, aliases)

IInv == TypeOK /\ OneToOne /\ KnownBacked /\ ToldBacked
------------------------------------------------------------------------------
(* Numbers *)

\* A bounded set of numbers has a maximum.
LEMMA MaxOf ==
    ASSUME NEW N \in Nat, NEW S, S \subseteq 0..N, S # {}
    PROVE  Max(S) \in S /\ \A y \in S : Max(S) >= y
<1> DEFINE Above == {b \in Nat : \A y \in S : b >= y}
<1>1. Above \subseteq Nat /\ Above # {}
  <2>1. N \in Above
    OBVIOUS
  <2> QED BY <2>1
<1>2. PICK b \in Above : \A c \in Above : <<c, b>> \notin OpToRel(<, Nat)
  BY <1>1, WFMin, NatLessThanWellFounded
<1>3. \A c \in Above : ~(c < b)
  <2> SUFFICES ASSUME NEW c \in Above, c < b PROVE FALSE
    OBVIOUS
  <2>1. c \in Nat /\ b \in Nat
    OBVIOUS
  <2> QED BY <1>2, <2>1 DEF OpToRel
<1>4. b \in S
  <2> SUFFICES ASSUME b \notin S PROVE FALSE
    OBVIOUS
  <2>1. \A y \in S : b > y
    OBVIOUS
  <2>2. PICK y \in S : y \in 0..N
    OBVIOUS
  <2>3. b > y /\ b \in Nat
    BY <2>1
  <2>4. b - 1 \in Above
    BY <2>1, <2>2, <2>3
  <2> QED BY <1>3, <2>3, <2>4
<1>5. \E x \in S : \A y \in S : x >= y
  BY <1>4
<1> QED BY <1>5 DEF Max

\* The number ensure_mask picks is above every number in the table.
LEMMA NextSuffixFresh ==
    ASSUME NEW rows, NEW p
    PROVE  /\ NextSuffix(rows, p) \in Nat \ {0}
           /\ \A n \in 1..MaxNumber : ByMask(rows, p, <<p, n>>) # {} => n < NextSuffix(rows, p)
<1> DEFINE S == {0} \cup Suffixes(rows, p)
<1>1. S \subseteq 0..MaxNumber /\ S # {}
  BY MaskAssumption DEF Suffixes
<1>2. Max(S) \in S /\ \A y \in S : Max(S) >= y
  BY <1>1, MaxOf, MaskAssumption
<1>3. Max(S) \in Nat
  BY <1>1, <1>2
<1>4. \A n \in 1..MaxNumber : ByMask(rows, p, <<p, n>>) # {} => n \in S
  BY DEF Suffixes
<1> HIDE DEF S
<1>5. NextSuffix(rows, p) = Max(S) + 1
  BY DEF NextSuffix, S
<1> QED BY <1>2, <1>3, <1>4, <1>5

LEMMA OutpacedType ==
    ASSUME TypeOK, NEW ps
    PROVE  Outpaced(ps) \in [Sessions -> 0..MintAttempts]
<1>1. \A i \in 0..MintAttempts : Min({i + 1, MintAttempts}) \in 0..MintAttempts
  <2> SUFFICES ASSUME NEW i \in 0..MintAttempts
               PROVE  Min({i + 1, MintAttempts}) \in 0..MintAttempts
    OBVIOUS
  <2>1. \E x \in {i + 1, MintAttempts} : \A y \in {i + 1, MintAttempts} : x <= y
    BY MaskAssumption
  <2>2. /\ Min({i + 1, MintAttempts}) \in {i + 1, MintAttempts}
        /\ Min({i + 1, MintAttempts}) <= MintAttempts
    BY <2>1 DEF Min
  <2> QED BY <2>2, MaskAssumption
<1>2. outpaced \in [Sessions -> 0..MintAttempts]
  BY DEF TypeOK
<1> QED BY <1>1, <1>2 DEF Outpaced
------------------------------------------------------------------------------
(* Types *)

LEMMA Constants ==
    /\ AnyFlight \in Flights /\ AnyPartner \in Partners
    /\ MaxNumber \in Nat /\ MintAttempts \in Nat /\ 0 \in 0..MintAttempts /\ 0 \in 0..MaxNumber
BY MaskAssumption DEF AnyFlight, AnyPartner

LEMMA EntryShown == \A a \in Aliases : Entry(a) \in Shown
BY DEF Aliases, Shown, Entry

LEMMA EndsType ==
    ASSUME TypeOK, NEW s \in Sessions, Ends(s)
    PROVE  /\ pc' \in [Sessions -> {"idle", "next", "look", "insert"}]
           /\ flight' \in [Sessions -> Flights]
           /\ todo' \in [Sessions -> SUBSET Partners]
           /\ partner' \in [Sessions -> Partners]
           /\ pick' \in [Sessions -> 0..MaxNumber]
           /\ tries' \in [Sessions -> 0..MintAttempts]
           /\ held' \in [Sessions -> SUBSET Aliases]
           /\ known' \in [Sessions -> SUBSET Shown]
           /\ \A t \in Sessions : pc'[t] = "insert" => pick'[t] > 0
BY Constants DEF TypeOK, Ends, Goto

LEMMA TypeInit == Init => TypeOK
<1> SUFFICES ASSUME Init PROVE TypeOK
  OBVIOUS
<1> QED BY Constants DEF Init, TypeOK

LEMMA StaffType ==
    ASSUME TypeOK,
           \/ \E p \in Partners, f \in Flights, m \in Overrides : SetMask(p, f, m)
           \/ \E a \in aliases : DeleteAlias(a)
    PROVE  TypeOK'
<1>1. CASE \E p \in Partners, f \in Flights, m \in Overrides : SetMask(p, f, m)
  <2> PICK p \in Partners, f \in Flights, m \in Overrides : SetMask(p, f, m)
    BY <1>1
  <2>1. aliases' \subseteq Aliases
    <3>1. [partner |-> p, real |-> f, mask |-> m] \in Aliases
      BY MaskAssumption DEF Aliases, Masks
    <3> QED BY <3>1 DEF SetMask, TypeOK
  <2>2. outpaced' \in [Sessions -> 0..MintAttempts]
    BY OutpacedType DEF SetMask
  <2>3. edited' \subseteq Editable
    BY DEF SetMask, TypeOK
  <2> QED BY <2>1, <2>2, <2>3 DEF SetMask, TypeOK
<1>2. CASE \E a \in aliases : DeleteAlias(a)
  BY <1>2 DEF DeleteAlias, TypeOK, session
<1> QED BY <1>1, <1>2

LEMMA CollideType ==
    ASSUME TypeOK, NEW s \in Sessions, Collide(s)
    PROVE  TypeOK'
<1> DEFINE found == ByReal(aliases, partner[s], flight[s])
<1>1. lost' \subseteq Partners \X Flights
  BY DEF Collide, TypeOK, Aliases
<1>2. outpaced' \in [Sessions -> 0..MintAttempts]
  <2>1. outpaced \in [Sessions -> 0..MintAttempts] /\ 0 \in 0..MintAttempts
    BY Constants DEF TypeOK
  <2>2. outpaced' = [outpaced EXCEPT ![s] = IF pc'[s] = "idle" THEN 0 ELSE @]
    BY DEF Collide
  <2> QED BY <2>1, <2>2
<1>3. aliases' = aliases /\ told' = told /\ edited' = edited
  BY DEF Collide
<1>4. /\ pc' \in [Sessions -> {"idle", "next", "look", "insert"}]
      /\ flight' \in [Sessions -> Flights]
      /\ todo' \in [Sessions -> SUBSET Partners]
      /\ partner' \in [Sessions -> Partners]
      /\ pick' \in [Sessions -> 0..MaxNumber]
      /\ tries' \in [Sessions -> 0..MintAttempts]
      /\ held' \in [Sessions -> SUBSET Aliases]
      /\ known' \in [Sessions -> SUBSET Shown]
      /\ \A t \in Sessions : pc'[t] = "insert" => pick'[t] > 0
  <2>1. CASE found # {} /\ Goto(s, "next") /\ held' = [held EXCEPT ![s] = {}]
             /\ known' = [known EXCEPT ![s] = @ \cup {Entry(a) : a \in found}]
             /\ UNCHANGED <<flight, todo, partner, pick, tries>>
    <3>1. {Entry(a) : a \in found} \subseteq Shown
      BY EntryShown DEF ByReal, TypeOK
    <3> HIDE DEF found
    <3> QED BY <2>1, <3>1 DEF TypeOK, Goto
  <2>2. CASE Raise(s)
    <3>1. CASE Ends(s)
      BY <3>1, EndsType
    <3>2. CASE /\ \E i \in 0..MintAttempts : tries' = [tries EXCEPT ![s] = i]
               /\ held' = [held EXCEPT ![s] = {}]
               /\ Goto(s, "look") \/ Goto(s, "next")
               /\ UNCHANGED <<flight, todo, partner, pick, known>>
      BY <3>2 DEF TypeOK, Goto
    <3>3. tries[s] \in 0..MintAttempts /\ tries = [tries EXCEPT ![s] = tries[s]]
      BY DEF TypeOK
    <3>4. tries[s] + 1 < MintAttempts => tries[s] + 1 \in 0..MintAttempts
      BY <3>3, Constants
    <3> QED BY <2>2, <3>1, <3>2, <3>3, <3>4 DEF Raise
  <2> QED BY <2>1, <2>2 DEF Collide
<1> QED BY <1>1, <1>2, <1>3, <1>4 DEF TypeOK

LEMMA StepType ==
    ASSUME TypeOK, NEW s \in Sessions, Step(s)
    PROVE  TypeOK'
<1>1. ASSUME NEW p \in Partners, NextPartner(s, p) PROVE TypeOK'
  <2>1. CASE IsOwn(p, flight[s])
    <3>1. [partner |-> p, real |-> flight[s], name |-> flight[s]] \in Shown
      BY DEF Shown, TypeOK
    <3> QED BY <1>1, <2>1, <3>1 DEF NextPartner, TypeOK, history
  <2>2. CASE ~IsOwn(p, flight[s])
    BY <1>1, <2>2 DEF NextPartner, TypeOK, history, Goto
  <2> QED BY <2>1, <2>2
<1>2. ASSUME Look(s) PROVE TypeOK'
  <2> DEFINE found == ByReal(Visible(s), partner[s], flight[s])
             n == NextSuffix(Visible(s), partner[s])
  <2>1. {Entry(a) : a \in found} \subseteq Shown
    BY EntryShown DEF ByReal, TypeOK, Visible
  <2>2. n <= MaxNumber => n \in 0..MaxNumber /\ n > 0
    BY NextSuffixFresh, Constants
  <2>3. CASE found # {}
    BY <1>2, <2>1, <2>3 DEF Look, TypeOK, history, Goto
  <2>4. CASE found = {} /\ n <= MaxNumber
    <3>1. /\ pick' = [pick EXCEPT ![s] = n]
          /\ pc' = [pc EXCEPT ![s] = "insert"]
          /\ UNCHANGED <<aliases, flight, todo, partner, tries, held, known, outpaced, history>>
      BY <1>2, <2>4 DEF Look, Goto
    <3>2. n \in 0..MaxNumber /\ n > 0
      BY <2>2, <2>4
    <3> HIDE DEF n, found
    <3> QED BY <3>1, <3>2 DEF TypeOK, history
  <2> QED BY <1>2, <2>3, <2>4 DEF Look
<1>3. ASSUME Insert(s) PROVE TypeOK'
  <2> DEFINE row == [partner |-> partner[s], real |-> flight[s], mask |-> Picked(s)]
  <2>1. row \in Aliases /\ Entry(row) \in Shown
    <3>1. pick[s] \in 1..MaxNumber
      BY <1>3, Constants DEF Insert, TypeOK
    <3>2. Picked(s) \in Masks
      BY <3>1 DEF Picked, Masks, Numbers, TypeOK
    <3>3. row \in Aliases
      BY <3>2 DEF Aliases, TypeOK
    <3> QED BY <3>3, EntryShown
  <2>2. /\ held' = [held EXCEPT ![s] = @ \cup {row}]
        /\ known' = [known EXCEPT ![s] = @ \cup {Entry(row)}]
        /\ pc' = [pc EXCEPT ![s] = "next"]
        /\ UNCHANGED <<aliases, flight, todo, partner, pick, tries, outpaced, history>>
    BY <1>3 DEF Insert, Goto
  <2> HIDE DEF row
  <2> QED BY <2>1, <2>2 DEF TypeOK, history
<1>4. ASSUME Finish(s) PROVE TypeOK'
  <2>1. aliases' \subseteq Aliases /\ told' \subseteq Shown
    BY <1>4 DEF Finish, TypeOK
  <2>2. outpaced' \in [Sessions -> 0..MintAttempts]
    BY <1>4, OutpacedType, Constants DEF Finish
  <2> QED BY <1>4, <2>1, <2>2, EndsType DEF Finish, TypeOK
<1>5. ASSUME LockTimeout(s) \/ DeadlockVictim(s) PROVE TypeOK'
  <2>1. /\ Ends(s) /\ UNCHANGED <<aliases, history>>
        /\ outpaced' = [outpaced EXCEPT ![s] = 0]
    BY <1>5 DEF LockTimeout, DeadlockVictim
  <2> QED BY <2>1, EndsType, Constants DEF TypeOK, history
<1> QED BY <1>1, <1>2, <1>3, <1>4, <1>5, CollideType DEF Step

LEMMA TypeNext == TypeOK /\ [Next]_vars => TypeOK'
<1> SUFFICES ASSUME TypeOK, [Next]_vars PROVE TypeOK'
  OBVIOUS
<1>1. ASSUME NEW f \in Flights, NEW p \in PartnersOf[f], Display(p, f) PROVE TypeOK'
  <2>1. p \in Partners
    BY MaskAssumption
  <2>2. {[partner |-> p, real |-> f, name |-> f]} \cup {Entry(a) : a \in ByReal(aliases, p, f)}
          \subseteq Shown
    BY <2>1, EntryShown DEF TypeOK, ByReal, Shown
  <2> QED BY <1>1, <2>2 DEF Display, TypeOK, session
<1>2. ASSUME NEW s \in Displays, NEW f \in Flights, NEW p \in PartnersOf[f], Mint(s, p, f)
      PROVE  TypeOK'
  <2>1. p \in Partners /\ s \in Sessions
    BY MaskAssumption DEF Sessions
  <2> QED BY <1>2, <2>1, Constants DEF Mint, TypeOK, history, Goto
<1>3. ASSUME NEW s \in Batches, NEW f \in Flights, StartBatch(s, f) PROVE TypeOK'
  <2>1. PartnersOf[f] \subseteq Partners /\ s \in Sessions
    BY MaskAssumption DEF Sessions
  <2> QED BY <1>3, <2>1 DEF StartBatch, TypeOK, history, Goto
<1>4. CASE UNCHANGED vars
  BY <1>4 DEF vars, session, history, TypeOK
<1> QED BY <1>1, <1>2, <1>3, <1>4, StepType, StaffType DEF Next

\* Every state is well typed: a session that is about to insert has a number.
THEOREM TypeCorrect == Spec => []TypeOK
BY TypeInit, TypeNext, PTL DEF Spec
------------------------------------------------------------------------------
(* One-to-one *)

LEMMA NoMoreRows == ASSUME OneToOne, Tabled' \subseteq Tabled PROVE OneToOne'
BY DEF OneToOne

\* A session that ends, or loses what it holds, adds nothing.
LEMMA DropsRows ==
    ASSUME TypeOK, NEW s \in Sessions, held' = [held EXCEPT ![s] = {}],
           aliases' \subseteq aliases \cup held[s]
    PROVE  Tabled' \subseteq Tabled
<1> SUFFICES ASSUME NEW a \in Tabled' PROVE a \in Tabled
  OBVIOUS
<1>1. held \in [Sessions -> SUBSET Aliases]
  BY DEF TypeOK
<1>2. CASE a \in aliases'
  BY <1>2 DEF Tabled
<1>3. CASE \E t \in Sessions : a \in held'[t]
  BY <1>1, <1>3 DEF Tabled
<1> QED BY <1>2, <1>3 DEF Tabled

LEMMA InsertUnique ==
    ASSUME TypeOK, OneToOne, NEW s \in Sessions, Insert(s)
    PROVE  OneToOne'
<1> DEFINE row == [partner |-> partner[s], real |-> flight[s], mask |-> Picked(s)]
<1>1. held \in [Sessions -> SUBSET Aliases]
  BY DEF TypeOK
<1>2. held' = [held EXCEPT ![s] = @ \cup {row}] /\ aliases' = aliases
  BY DEF Insert
<1>3. \A a \in Tabled : a.partner = partner[s] => a.real # flight[s] /\ a.mask # Picked(s)
  <2>1. \A a \in Visible(s) : a.partner = partner[s] => a.real # flight[s] /\ a.mask # Picked(s)
    BY DEF Insert, Clash, ByReal, ByMask
  <2>2. ASSUME NEW t \in Sessions \ {s}, NEW a \in held[t], a.partner = partner[s]
        PROVE  a.real # flight[s] /\ a.mask # Picked(s)
    <3>1. Clash(held[t], partner[s], flight[s], Picked(s)) = {}
      BY DEF Insert, Holders
    <3> QED BY <2>2, <3>1 DEF Clash, ByReal, ByMask
  <2> QED BY <2>1, <2>2 DEF Tabled, Visible
<1>4. \A a \in Tabled' : a = row \/ a \in Tabled
  <2> HIDE DEF row
  <2> QED BY <1>1, <1>2 DEF Tabled
<1>5. \A a \in Tabled' :
        \/ a = row
        \/ a \in Tabled /\ (a.partner = partner[s] => a.real # flight[s] /\ a.mask # Picked(s))
  BY <1>3, <1>4
<1> QED BY <1>5 DEF OneToOne

LEMMA SetMaskUnique ==
    ASSUME TypeOK, OneToOne, NEW p, NEW f, NEW m, SetMask(p, f, m)
    PROVE  OneToOne'
<1> DEFINE row == [partner |-> p, real |-> f, mask |-> m]
<1>1. held' = held /\ aliases' = (aliases \ ByReal(aliases, p, f)) \cup {row}
  BY DEF SetMask
<1>2. ASSUME NEW a \in aliases \ ByReal(aliases, p, f), a.partner = p
      PROVE  a.real # f /\ a.mask # m
  BY <1>2 DEF SetMask, ByReal, ByMask
<1>3. ASSUME NEW t \in Sessions, NEW a \in held[t], a.partner = p
      PROVE  a.real # f /\ a.mask # m
  <2>1. Clash(held[t], p, f, m) = {}
    BY DEF SetMask
  <2> QED BY <1>3, <2>1 DEF Clash, ByReal, ByMask
<1>4. \A a \in Tabled' :
        \/ a = row
        \/ a \in Tabled /\ (a.partner = p => a.real # f /\ a.mask # m)
  <2> SUFFICES ASSUME NEW a \in Tabled', a # row
               PROVE  a \in Tabled /\ (a.partner = p => a.real # f /\ a.mask # m)
    OBVIOUS
  <2> HIDE DEF row
  <2>1. CASE a \in aliases'
    BY <1>1, <1>2, <2>1 DEF Tabled
  <2>2. CASE \E t \in Sessions : a \in held[t]
    BY <1>3, <2>2 DEF Tabled
  <2> QED BY <1>1, <2>1, <2>2 DEF Tabled
<1> QED BY <1>4 DEF OneToOne

LEMMA CollideDrops ==
    ASSUME TypeOK, NEW s \in Sessions, Collide(s)
    PROVE  /\ held' = [held EXCEPT ![s] = {}] /\ aliases' = aliases
           /\ known' \in {[known EXCEPT ![s] = {}], known,
                         [known EXCEPT ![s] = @ \cup {Entry(a) : a \in ByReal(aliases, partner[s], flight[s])}]}
           /\ lost' = lost \cup {<<a.partner, a.real>> : a \in held[s]}
           /\ edited' = edited /\ told' = told
BY DEF Collide, Raise, Ends

LEMMA NextUnique == TypeOK /\ OneToOne /\ [Next]_vars => OneToOne'
<1> SUFFICES ASSUME TypeOK, OneToOne, [Next]_vars PROVE OneToOne'
  OBVIOUS
<1>1. CASE UNCHANGED <<aliases, held>>
  BY <1>1 DEF OneToOne, Tabled
<1>2. ASSUME NEW s \in Sessions, held' = [held EXCEPT ![s] = {}], aliases' \subseteq aliases \cup held[s]
      PROVE  OneToOne'
  BY <1>2, DropsRows, NoMoreRows
<1>3. ASSUME NEW s \in Sessions, Step(s) PROVE OneToOne'
  <2>1. CASE (\E p \in Partners : NextPartner(s, p)) \/ Look(s)
    BY <1>1, <2>1 DEF NextPartner, Look
  <2>2. CASE Collide(s)
    BY <1>2, <2>2, CollideDrops
  <2>3. CASE Finish(s) \/ LockTimeout(s) \/ DeadlockVictim(s)
    BY <1>2, <2>3 DEF Finish, LockTimeout, DeadlockVictim, Ends
  <2> QED BY <1>3, <2>1, <2>2, <2>3, InsertUnique DEF Step
<1>4. ASSUME NEW a \in aliases, DeleteAlias(a) PROVE OneToOne'
  BY <1>4, NoMoreRows DEF DeleteAlias, session, Tabled
<1>5. CASE \/ \E f \in Flights : \E p \in PartnersOf[f] : Display(p, f)
           \/ \E s \in Displays, f \in Flights : \E p \in PartnersOf[f] : Mint(s, p, f)
           \/ \E s \in Batches, f \in Flights : StartBatch(s, f)
           \/ UNCHANGED vars
  BY <1>1, <1>5 DEF Display, Mint, StartBatch, vars, session
<1> QED BY <1>3, <1>4, <1>5, SetMaskUnique DEF Next

\* Both directions of the table are functions, whatever is inserted at once.
THEOREM AlwaysOneToOne == Spec => []OneToOne
<1>1. Init => OneToOne
  BY DEF Init, OneToOne, Tabled
<1> QED BY <1>1, TypeCorrect, NextUnique, PTL DEF Spec
------------------------------------------------------------------------------
(* What is shown *)

Marked(a) == <<a.partner, a.real>> \in edited \cup lost

\* A name stays backed while its row stays, or the row is marked.
LEMMA StaysBacked ==
    ASSUME edited \subseteq edited', lost \subseteq lost'
    PROVE  /\ (\A a \in aliases : a \in aliases' \/ Marked(a)')
              => \A t : Backed(t, aliases) => Backed(t, aliases)'
           /\ \A s : (\A a \in Visible(s) : a \in Visible(s)' \/ Marked(a)')
                   => \A t : Backed(t, Visible(s)) => Backed(t, Visible(s))'
BY DEF Backed, Undisturbed, Entry, Marked

\* A row backs its own entry, an own number needs none.
LEMMA EntryBacked ==
    /\ \A a \in aliases : Backed(Entry(a), aliases)
    /\ \A s : \A a \in Visible(s) : Backed(Entry(a), Visible(s))
    /\ \A p, f : IsOwn(p, f) =>
          /\ Backed([partner |-> p, real |-> f, name |-> f], aliases)
          /\ \A s : Backed([partner |-> p, real |-> f, name |-> f], Visible(s))
BY DEF Backed

\* What other sessions are going to show is not disturbed by a session's step.
LEMMA OthersBacked ==
    ASSUME TypeOK, KnownBacked, NEW s \in Sessions,
           \E H : held' = [held EXCEPT ![s] = H],
           \E K : known' = [known EXCEPT ![s] = K],
           aliases \subseteq aliases', edited \subseteq edited', lost \subseteq lost',
           \A t \in known[s]' : Backed(t, Visible(s))'
    PROVE  KnownBacked'
<1> SUFFICES ASSUME NEW r \in Sessions, NEW t \in known[r]' PROVE Backed(t, Visible(r))'
  BY DEF KnownBacked
<1>1. CASE r = s
  BY <1>1
<1>2. CASE r # s
  <2>1. held[r]' = held[r] /\ known[r]' = known[r]
    BY <1>2 DEF TypeOK
  <2>2. \A a \in Visible(r) : a \in Visible(r)'
    BY <2>1 DEF Visible
  <2>3. Backed(t, Visible(r))
    BY <2>1 DEF KnownBacked
  <2> QED BY <2>2, <2>3, StaysBacked
<1> QED BY <1>1, <1>2

LEMMA StepBacked ==
    ASSUME TypeOK, KnownBacked, ToldBacked, NEW s \in Sessions, Step(s)
    PROVE  KnownBacked' /\ ToldBacked'
<1>0. held \in [Sessions -> SUBSET Aliases] /\ known \in [Sessions -> SUBSET Shown]
  BY DEF TypeOK
<1>1. \A t \in known[s] : Backed(t, Visible(s))
  BY DEF KnownBacked
\* A step that shows nothing and stores nothing.
<1>2. ASSUME UNCHANGED <<aliases, history>>, \E H : held' = [held EXCEPT ![s] = H],
             \E K : known' = [known EXCEPT ![s] = K],
             held[s] \subseteq held[s]',
             \A t \in known[s]' : t \in known[s] \/ Backed(t, Visible(s))'
      PROVE  KnownBacked' /\ ToldBacked'
  <2>1. edited' = edited /\ lost' = lost /\ told' = told /\ aliases' = aliases
    BY <1>2 DEF history
  <2>2. \A a \in Visible(s) : a \in Visible(s)'
    BY <1>2, <2>1 DEF Visible
  <2>3. \A t \in known[s]' : Backed(t, Visible(s))'
    BY <1>1, <1>2, <2>1, <2>2, StaysBacked
  <2>4. ToldBacked'
    BY <2>1, StaysBacked DEF ToldBacked
  <2> QED BY <1>2, <2>1, <2>3, <2>4, OthersBacked
<1>3. ASSUME NEW p \in Partners, NextPartner(s, p) PROVE KnownBacked' /\ ToldBacked'
  <2> DEFINE own == [partner |-> p, real |-> flight[s], name |-> flight[s]]
  <2>1. UNCHANGED <<aliases, history>> /\ held' = held
    BY <1>3 DEF NextPartner
  <2>2. \/ known' = known
        \/ IsOwn(p, flight[s]) /\ known' = [known EXCEPT ![s] = @ \cup {own}]
    BY <1>3 DEF NextPartner
  <2>3. \A t : IsOwn(p, flight[s]) /\ t = own => Backed(t, Visible(s))'
    BY DEF Backed
  <2> HIDE DEF own
  <2>4. held' = [held EXCEPT ![s] = held[s]] /\ held[s]' = held[s]
    BY <1>0, <2>1
  <2>5. \E K : known' = [known EXCEPT ![s] = K]
    BY <1>0, <2>2
  <2>6. \A t \in known[s]' : t \in known[s] \/ Backed(t, Visible(s))'
    BY <1>0, <2>2, <2>3
  <2> QED BY <1>2, <2>1, <2>4, <2>5, <2>6
<1>4. ASSUME Look(s) PROVE KnownBacked' /\ ToldBacked'
  <2> DEFINE found == ByReal(Visible(s), partner[s], flight[s])
  <2>1. UNCHANGED <<aliases, history>> /\ held' = held
    BY <1>4 DEF Look
  <2>2. known' = known \/ known' = [known EXCEPT ![s] = @ \cup {Entry(a) : a \in found}]
    BY <1>4 DEF Look
  <2>3. \A a \in found : Backed(Entry(a), Visible(s))'
    BY <2>1 DEF Backed, ByReal, Visible
  <2> HIDE DEF found
  <2>4. held' = [held EXCEPT ![s] = held[s]] /\ held[s]' = held[s]
    BY <1>0, <2>1
  <2>5. \E K : known' = [known EXCEPT ![s] = K]
    BY <1>0, <2>2
  <2>6. \A t \in known[s]' : t \in known[s] \/ Backed(t, Visible(s))'
    BY <1>0, <2>2, <2>3
  <2> QED BY <1>2, <2>1, <2>4, <2>5, <2>6
<1>5. ASSUME Insert(s) PROVE KnownBacked' /\ ToldBacked'
  <2> DEFINE row == [partner |-> partner[s], real |-> flight[s], mask |-> Picked(s)]
  <2>1. /\ UNCHANGED <<aliases, history>>
        /\ held' = [held EXCEPT ![s] = @ \cup {row}]
        /\ known' = [known EXCEPT ![s] = @ \cup {Entry(row)}]
    BY <1>5 DEF Insert
  <2> HIDE DEF row
  <2>2. /\ held[s]' = held[s] \cup {row} /\ known[s]' = known[s] \cup {Entry(row)}
        /\ \E H : held' = [held EXCEPT ![s] = H]
        /\ \E K : known' = [known EXCEPT ![s] = K]
    BY <1>0, <2>1
  <2>3. \A t : t = Entry(row) => Backed(t, Visible(s))'
    BY <2>2 DEF Backed, Visible
  <2> QED BY <1>2, <2>1, <2>2, <2>3
<1>6. ASSUME Collide(s) PROVE KnownBacked' /\ ToldBacked'
  <2> DEFINE found == ByReal(aliases, partner[s], flight[s])
  <2>1. /\ held' = [held EXCEPT ![s] = {}] /\ aliases' = aliases /\ edited' = edited /\ told' = told
        /\ \/ known' = [known EXCEPT ![s] = {}]
           \/ known' = known
           \/ known' = [known EXCEPT ![s] = @ \cup {Entry(a) : a \in found}]
        /\ lost' = lost \cup {<<a.partner, a.real>> : a \in held[s]}
    BY <1>6, CollideDrops
  <2>2. \A a \in found : Backed(Entry(a), Visible(s))'
    BY <2>1 DEF Backed, ByReal, Visible
  <2> HIDE DEF found
  <2>3. \A a \in Visible(s) : a \in Visible(s)' \/ Marked(a)'
    BY <2>1 DEF Visible, Marked
  <2>4. \A t \in known[s]' : Backed(t, Visible(s))'
    BY <1>0, <1>1, <2>1, <2>2, <2>3, StaysBacked
  <2>5. \E K : known' = [known EXCEPT ![s] = K]
    BY <1>0, <2>1
  <2>6. ToldBacked'
    BY <2>1, StaysBacked DEF ToldBacked
  <2>7. aliases \subseteq aliases' /\ edited \subseteq edited' /\ lost \subseteq lost'
    BY <2>1
  <2>8. \E H : held' = [held EXCEPT ![s] = H]
    BY <2>1
  <2> QED BY <2>4, <2>5, <2>6, <2>7, <2>8, OthersBacked
<1>7. ASSUME Ends(s), UNCHANGED <<edited, lost>>, aliases \subseteq aliases',
             \A t \in told' : t \in told \/ Backed(t, aliases)'
      PROVE  KnownBacked' /\ ToldBacked'
  <2>1. known' = [known EXCEPT ![s] = {}] /\ held' = [held EXCEPT ![s] = {}] /\ known[s]' = {}
    BY <1>0, <1>7 DEF Ends
  <2>2. ToldBacked'
    BY <1>7, StaysBacked DEF ToldBacked
  <2> QED BY <1>7, <2>1, <2>2, OthersBacked
<1>8. ASSUME Finish(s) PROVE KnownBacked' /\ ToldBacked'
  <2>1. /\ Ends(s) /\ UNCHANGED <<edited, lost>> /\ aliases' = aliases \cup held[s]
        /\ \A t \in told' : t \in told \/ t \in known[s]
    BY <1>8 DEF Finish
  <2>2. \A t : Backed(t, Visible(s)) => Backed(t, aliases)'
    BY <2>1 DEF Backed, Visible, Undisturbed
  <2> QED BY <1>1, <1>7, <2>1, <2>2
<1>9. ASSUME LockTimeout(s) \/ DeadlockVictim(s) PROVE KnownBacked' /\ ToldBacked'
  BY <1>7, <1>9 DEF LockTimeout, DeadlockVictim, history
<1> QED BY <1>3, <1>4, <1>5, <1>6, <1>8, <1>9 DEF Step

LEMMA StaffBacked ==
    ASSUME TypeOK, KnownBacked, ToldBacked,
           \/ \E p \in Partners, f \in Flights, m \in Overrides : SetMask(p, f, m)
           \/ \E a \in aliases : DeleteAlias(a)
    PROVE  KnownBacked' /\ ToldBacked'
<1>1. /\ UNCHANGED <<held, known, told, lost>> /\ edited \subseteq edited'
      /\ \A a \in aliases : a \in aliases' \/ Marked(a)'
  <2>1. ASSUME NEW p \in Partners, NEW f \in Flights, NEW m \in Overrides, SetMask(p, f, m)
        PROVE  <1>1!1 /\ <1>1!2
    BY <2>1 DEF SetMask, ByReal, Marked
  <2>2. ASSUME NEW a \in aliases, DeleteAlias(a)
        PROVE  <1>1!1 /\ <1>1!2
    BY <2>2 DEF DeleteAlias, session, Marked
  <2> QED BY <2>1, <2>2
<1>2. ToldBacked'
  BY <1>1, StaysBacked DEF ToldBacked
<1>3. ASSUME NEW s \in Sessions, NEW t \in known[s]' PROVE Backed(t, Visible(s))'
  <2>1. \A a \in Visible(s) : a \in Visible(s)' \/ Marked(a)'
    BY <1>1 DEF Visible
  <2> QED BY <1>1, <2>1, StaysBacked DEF KnownBacked
<1> QED BY <1>2, <1>3 DEF KnownBacked

LEMMA NextBacked ==
    TypeOK /\ KnownBacked /\ ToldBacked /\ [Next]_vars => KnownBacked' /\ ToldBacked'
<1> SUFFICES ASSUME TypeOK, KnownBacked, ToldBacked, [Next]_vars
             PROVE  KnownBacked' /\ ToldBacked'
  OBVIOUS
<1>1. ASSUME UNCHANGED <<aliases, held, known, edited, lost>>,
             \A t \in told' : t \in told \/ Backed(t, aliases)'
      PROVE  KnownBacked' /\ ToldBacked'
  <2>1. \A a \in aliases : a \in aliases'
    BY <1>1
  <2>2. ToldBacked'
    BY <1>1, <2>1, StaysBacked DEF ToldBacked
  <2>3. \A s : Visible(s)' = Visible(s)
    BY <1>1 DEF Visible
  <2>4. KnownBacked'
    BY <1>1, <2>3, StaysBacked DEF KnownBacked
  <2> QED BY <2>2, <2>4
<1>2. ASSUME NEW f \in Flights, NEW p \in PartnersOf[f], Display(p, f)
      PROVE  KnownBacked' /\ ToldBacked'
  <2>1. \A t \in told' : t \in told \/ Backed(t, aliases)'
    BY <1>2 DEF Display, Backed, ByReal
  <2> QED BY <1>1, <1>2, <2>1 DEF Display, session
<1>3. CASE \/ \E s \in Displays, f \in Flights : \E p \in PartnersOf[f] : Mint(s, p, f)
           \/ \E s \in Batches, f \in Flights : StartBatch(s, f)
           \/ UNCHANGED vars
  BY <1>1, <1>3 DEF Mint, StartBatch, vars, session, history
<1> QED BY <1>2, <1>3, StepBacked, StaffBacked DEF Next

THEOREM Inductive == Spec => []IInv
<1>1. Init => KnownBacked /\ ToldBacked
  BY DEF Init, KnownBacked, ToldBacked
<1> QED BY <1>1, TypeCorrect, AlwaysOneToOne, NextBacked, PTL DEF Spec, IInv

\* A name a client was shown leads back to its flight, unless staff changed the
\* flight's mask or a rollback took it.
THEOREM ShownAlwaysLeadsBack == Spec => []ShownLeadsBack
<1>1. IInv => ShownLeadsBack
  <2> SUFFICES ASSUME IInv, NEW t \in told, ~IsOwn(t.partner, t.real), Undisturbed(t)
               PROVE  Normalized(t.partner, t.name) = t.real
    BY DEF ShownLeadsBack
  <2> DEFINE found == ByMask(aliases, t.partner, t.name)
  <2>1. PICK a \in aliases : Entry(a) = t
    BY DEF IInv, ToldBacked, Backed
  <2>2. a \in found /\ a.real = t.real
    BY <2>1 DEF ByMask, Entry
  <2>3. \A b \in found : b.real = t.real
    BY <2>1, <2>2 DEF ByMask, Entry, IInv, OneToOne, Tabled
  <2>4. (CHOOSE b \in found : TRUE) \in found
    BY <2>2
  <2> QED BY <2>2, <2>3, <2>4 DEF Normalized
<1> QED BY <1>1, Inductive, PTL
------------------------------------------------------------------------------
(* Attempts.  A mint that is about to insert has looked at a table without its *)
(* flight and without its number.  If one of them is there by now, a row of    *)
(* its partner was committed since, and counted.                               *)

Beaten(s) == pc[s] = "insert" /\ Clash(aliases, partner[s], flight[s], Picked(s)) # {}

PacedAt(s) ==
    /\ tries[s] < MintAttempts /\ tries[s] <= outpaced[s]
    /\ todo[s] = {}
    /\ pc[s] = "idle" => tries[s] = 0
    /\ pc[s] # "next" => held[s] = {}
    /\ Beaten(s) => tries[s] < outpaced[s]

Paced == \A s \in Displays : PacedAt(s)

\* What the count is after one more row of its partner.
LEMMA OutpacedMore ==
    ASSUME TypeOK, Paced, NEW ps, NEW s \in Displays
    PROVE  /\ Outpaced(ps)[s] \in Nat /\ Outpaced(ps)[s] >= outpaced[s]
           /\ pc[s] # "idle" /\ partner[s] \in ps => tries[s] < Outpaced(ps)[s]
<1>1. s \in Sessions /\ outpaced[s] \in 0..MintAttempts /\ tries[s] \in 0..MintAttempts
  BY DEF Sessions, TypeOK
<1>2. ASSUME NEW i \in 0..MintAttempts
      PROVE  Min({i + 1, MintAttempts}) = IF i < MintAttempts THEN i + 1 ELSE i
  <2> DEFINE m == IF i < MintAttempts THEN i + 1 ELSE i
  <2>1. m \in {i + 1, MintAttempts} /\ \A y \in {i + 1, MintAttempts} : m <= y
    BY MaskAssumption
  <2>2. \A n \in {i + 1, MintAttempts} : (\A y \in {i + 1, MintAttempts} : n <= y) => n = m
    BY <2>1, MaskAssumption
  <2> QED BY <2>1, <2>2 DEF Min
<1>3. Outpaced(ps)[s] = IF pc[s] # "idle" /\ partner[s] \in ps
                        THEN Min({outpaced[s] + 1, MintAttempts}) ELSE outpaced[s]
  BY <1>1 DEF Outpaced
<1>4. tries[s] < MintAttempts /\ tries[s] <= outpaced[s]
  BY DEF Paced, PacedAt
<1> QED BY <1>1, <1>2, <1>3, <1>4, MaskAssumption

\* A step that leaves a mint alone, except for new rows of its partner, which it counts.
LEMMA OthersPaced ==
    ASSUME TypeOK, Paced, NEW s \in Displays,
           pc'[s] = pc[s], partner'[s] = partner[s], flight'[s] = flight[s], pick'[s] = pick[s],
           tries'[s] = tries[s], held'[s] = held[s], todo'[s] = todo[s],
           \/ outpaced'[s] = outpaced[s] /\ aliases' \subseteq aliases
           \/ \E ps : /\ outpaced'[s] = Outpaced(ps)[s]
                      /\ \A a \in aliases' \ aliases : a.partner \in ps
    PROVE  PacedAt(s)'
<1>1. s \in Sessions /\ outpaced[s] \in Nat /\ tries[s] \in Nat
  BY MaskAssumption DEF Sessions, TypeOK
<1>2. PacedAt(s)
  BY DEF Paced
<1>3. (\A a \in aliases' \ aliases : a.partner # partner[s]) => (Beaten(s)' => Beaten(s))
  BY DEF Beaten, Clash, ByReal, ByMask, Picked
<1>4. CASE outpaced'[s] = outpaced[s] /\ aliases' \subseteq aliases
  BY <1>2, <1>3, <1>4 DEF PacedAt
<1>5. CASE \E ps : /\ outpaced'[s] = Outpaced(ps)[s]
                   /\ \A a \in aliases' \ aliases : a.partner \in ps
  <2> PICK ps : /\ outpaced'[s] = Outpaced(ps)[s]
                /\ \A a \in aliases' \ aliases : a.partner \in ps
    BY <1>5
  <2>1. /\ Outpaced(ps)[s] \in Nat /\ Outpaced(ps)[s] >= outpaced[s]
        /\ pc[s] # "idle" /\ partner[s] \in ps => tries[s] < Outpaced(ps)[s]
    BY OutpacedMore
  <2>2. Beaten(s)' => pc[s] # "idle"
    BY DEF Beaten
  <2>3. Beaten(s)' => tries[s] < Outpaced(ps)[s]
    <3>1. CASE partner[s] \in ps
      BY <2>1, <2>2, <3>1
    <3>2. CASE partner[s] \notin ps
      BY <1>1, <1>2, <1>3, <2>1, <3>2 DEF PacedAt
    <3> QED BY <3>1, <3>2
  <2> QED BY <1>1, <1>2, <2>1, <2>3 DEF PacedAt
<1> QED BY <1>4, <1>5

\* The end of a mint.
LEMMA EndsPaced ==
    ASSUME TypeOK, NEW s \in Displays, Ends(s), outpaced'[s] = 0
    PROVE  PacedAt(s)'
<1>1. /\ s \in Sessions /\ pc'[s] = "idle" /\ tries'[s] = 0 /\ todo'[s] = {} /\ held'[s] = {}
  BY DEF Sessions, TypeOK, Ends, Goto
<1> QED BY <1>1, MaskAssumption DEF PacedAt, Beaten

\* A collision: of the number or the flight with a row that was committed since.
LEMMA CollidePaced ==
    ASSUME TypeOK, Paced, NEW s \in Displays, Collide(s)
    PROVE  PacedAt(s)'
<1>1. s \in Sessions /\ s \notin Batches /\ outpaced[s] \in Nat /\ tries[s] \in Nat
  BY MaskAssumption DEF Sessions, TypeOK
<1>2. PacedAt(s)
  BY DEF Paced
<1>3. tries[s] < outpaced[s]
  <2>1. pc[s] = "insert" /\ Clash(Visible(s), partner[s], flight[s], Picked(s)) # {}
    BY DEF Collide
  <2>2. Visible(s) = aliases
    BY <1>2, <2>1 DEF PacedAt, Visible
  <2> QED BY <1>2, <2>1, <2>2 DEF PacedAt, Beaten
<1>4. outpaced'[s] = IF pc'[s] = "idle" THEN 0 ELSE outpaced[s]
  BY <1>1 DEF Collide, TypeOK
<1>5. CASE ByReal(aliases, partner[s], flight[s]) # {} /\ pc' = [pc EXCEPT ![s] = "next"]
           /\ UNCHANGED <<tries, todo>>
  <2>1. pc'[s] = "next"
    BY <1>1, <1>5 DEF TypeOK
  <2> QED BY <1>2, <1>4, <1>5, <2>1 DEF PacedAt, Beaten
<1>6. CASE Raise(s)
  <2>1. CASE Ends(s)
    <3>1. pc'[s] = "idle"
      BY <1>1, <2>1 DEF Ends, Goto, TypeOK
    <3> QED BY <1>4, <2>1, <3>1, EndsPaced
  <2>2. CASE /\ tries[s] + 1 < MintAttempts
             /\ tries' = [tries EXCEPT ![s] = @ + 1]
             /\ held' = [held EXCEPT ![s] = {}]
             /\ Goto(s, "look") /\ UNCHANGED todo
    <3>1. pc'[s] = "look" /\ tries'[s] = tries[s] + 1 /\ held'[s] = {}
      BY <1>1, <2>2 DEF Goto, TypeOK
    <3> QED BY <1>1, <1>2, <1>3, <1>4, <2>2, <3>1 DEF PacedAt, Beaten
  <2> QED BY <1>1, <1>6, <2>1, <2>2 DEF Raise, Batches
<1> QED BY <1>5, <1>6 DEF Collide, Goto

\* The steps of a mint itself.
LEMMA OwnPaced ==
    ASSUME TypeOK, Paced, NEW s \in Displays,
           Step(s) \/ \E f \in Flights : \E p \in PartnersOf[f] : Mint(s, p, f)
    PROVE  PacedAt(s)'
<1>1. s \in Sessions /\ s \notin Batches /\ outpaced[s] \in Nat /\ tries[s] \in Nat
  BY MaskAssumption DEF Sessions, TypeOK
<1>2. PacedAt(s)
  BY DEF Paced
<1>3. ASSUME NEW f \in Flights, NEW p \in PartnersOf[f], Mint(s, p, f) PROVE PacedAt(s)'
  <2>1. pc'[s] = "look" /\ outpaced'[s] = 0 /\ UNCHANGED <<tries, todo, held>> /\ pc[s] = "idle"
    BY <1>1, <1>3 DEF Mint, Goto, TypeOK
  <2> QED BY <1>1, <1>2, <2>1 DEF PacedAt, Beaten
<1>4. ASSUME NEW p \in Partners, NextPartner(s, p) PROVE PacedAt(s)'
  BY <1>2, <1>4 DEF NextPartner, PacedAt
<1>5. ASSUME Look(s) PROVE PacedAt(s)'
  <2>1. /\ UNCHANGED <<aliases, flight, todo, partner, tries, held, outpaced>> /\ held[s] = {}
        /\ Visible(s) = aliases /\ pc[s] = "look"
    BY <1>2, <1>5 DEF Look, PacedAt, Visible, history
  <2>2. CASE pc' = [pc EXCEPT ![s] = "next"]
    BY <1>1, <1>2, <2>1, <2>2 DEF PacedAt, Beaten, TypeOK
  <2>3. CASE /\ ByReal(Visible(s), partner[s], flight[s]) = {}
             /\ NextSuffix(Visible(s), partner[s]) <= MaxNumber
             /\ pick' = [pick EXCEPT ![s] = NextSuffix(Visible(s), partner[s])]
    <3> DEFINE n == NextSuffix(aliases, partner[s])
    <3>1. n \in 1..MaxNumber
      BY <2>1, <2>3, NextSuffixFresh, MaskAssumption
    <3>2. ByMask(aliases, partner[s], <<partner[s], n>>) = {}
      BY <3>1, NextSuffixFresh
    <3>3. pick'[s] = n /\ pc'[s] \in {"next", "insert"}
      BY <1>1, <1>5, <2>1, <2>3 DEF Look, Goto, TypeOK
    <3>4. Picked(s)' = <<partner[s], n>>
      BY <2>1, <3>3 DEF Picked
    <3>5. ~Beaten(s)'
      BY <2>1, <2>3, <3>2, <3>4 DEF Beaten, Clash, ByReal, ByMask
    <3> QED BY <1>2, <2>1, <3>3, <3>5 DEF PacedAt
  <2> QED BY <1>5, <2>2, <2>3 DEF Look, Goto
<1>6. ASSUME Insert(s) PROVE PacedAt(s)'
  <2>1. pc'[s] = "next" /\ UNCHANGED <<tries, todo, outpaced>>
    BY <1>1, <1>6 DEF Insert, Goto, TypeOK
  <2> QED BY <1>2, <2>1 DEF PacedAt, Beaten
<1>7. ASSUME Finish(s) PROVE PacedAt(s)'
  <2>1. outpaced'[s] = 0 /\ Ends(s)
    <3>1. Outpaced({a.partner : a \in held[s]}) \in [Sessions -> 0..MintAttempts]
      BY OutpacedType
    <3> QED BY <1>1, <1>7, <3>1 DEF Finish
  <2> QED BY <2>1, EndsPaced
<1>8. ASSUME LockTimeout(s) PROVE PacedAt(s)'
  BY <1>1, <1>8, EndsPaced DEF LockTimeout, TypeOK
<1>9. ~DeadlockVictim(s)
  BY <1>1 DEF DeadlockVictim
<1> QED BY <1>3, <1>4, <1>5, <1>6, <1>7, <1>8, <1>9, CollidePaced DEF Step

\* A step of one session is nothing of another's, but for the rows it commits.
LEMMA StepPaced ==
    ASSUME TypeOK, Paced, NEW t \in Sessions, NEW s \in Displays, s # t, Step(t)
    PROVE  PacedAt(s)'
<1>1. s \in Sessions
  BY DEF Sessions
<1> USE <1>1 DEF Goto, TypeOK, history
<1>2. ASSUME Ends(t), UNCHANGED aliases, outpaced' = [outpaced EXCEPT ![t] = 0] PROVE PacedAt(s)'
  BY <1>2, OthersPaced DEF Ends
<1>3. ASSUME NEW p \in Partners, NextPartner(t, p) PROVE PacedAt(s)'
  BY <1>3, OthersPaced DEF NextPartner
<1>4. ASSUME Look(t) PROVE PacedAt(s)'
  BY <1>4, OthersPaced DEF Look
<1>5. ASSUME Insert(t) PROVE PacedAt(s)'
  BY <1>5, OthersPaced DEF Insert
<1>6. ASSUME Collide(t) PROVE PacedAt(s)'
  <2>1. aliases' = aliases /\ outpaced'[s] = outpaced[s]
    BY <1>6 DEF Collide
  <2>2. /\ pc'[s] = pc[s] /\ partner'[s] = partner[s] /\ flight'[s] = flight[s]
        /\ pick'[s] = pick[s] /\ tries'[s] = tries[s] /\ held'[s] = held[s] /\ todo'[s] = todo[s]
    BY <1>6 DEF Collide, Raise, Ends
  <2> QED BY <2>1, <2>2, OthersPaced
<1>7. ASSUME Finish(t) PROVE PacedAt(s)'
  <2> DEFINE ps == {a.partner : a \in held[t]}
  <2>1. Outpaced(ps) \in [Sessions -> 0..MintAttempts]
    BY OutpacedType
  <2>2. outpaced'[s] = Outpaced(ps)[s]
    BY <1>7, <2>1 DEF Finish
  <2>3. \A a \in aliases' \ aliases : a.partner \in ps
    BY <1>7 DEF Finish
  <2>4. Ends(t)
    BY <1>7 DEF Finish
  <2> HIDE DEF ps
  <2> QED BY <2>2, <2>3, <2>4, OthersPaced DEF Ends
<1>8. ASSUME LockTimeout(t) \/ DeadlockVictim(t) PROVE PacedAt(s)'
  BY <1>2, <1>8 DEF LockTimeout, DeadlockVictim
<1> QED BY <1>3, <1>4, <1>5, <1>6, <1>7, <1>8 DEF Step

\* Every step keeps the count of attempts below the count of rows committed since.
LEMMA NextPaced == TypeOK /\ Paced /\ [Next]_vars => Paced'
<1> SUFFICES ASSUME TypeOK, Paced, [Next]_vars, NEW s \in Displays PROVE PacedAt(s)'
  BY DEF Paced
<1>1. s \in Sessions /\ s \notin Batches
  BY MaskAssumption DEF Sessions
<1>2. CASE UNCHANGED <<aliases, session>>
  BY <1>2, OthersPaced DEF session
<1>3. ASSUME NEW t \in Displays, NEW f \in Flights, NEW p \in PartnersOf[f], Mint(t, p, f), t # s
      PROVE  PacedAt(s)'
  BY <1>1, <1>3, OthersPaced DEF Mint, Goto, TypeOK
<1>4. ASSUME NEW t \in Batches, NEW f \in Flights, StartBatch(t, f) PROVE PacedAt(s)'
  BY <1>1, <1>4, OthersPaced DEF StartBatch, Goto, TypeOK
<1>5. ASSUME NEW p \in Partners, NEW f \in Flights, NEW m \in Overrides, SetMask(p, f, m)
      PROVE  PacedAt(s)'
  <2>1. \A a \in aliases' \ aliases : a.partner \in {p}
    BY <1>5 DEF SetMask
  <2> QED BY <1>5, <2>1, OthersPaced DEF SetMask
<1>6. ASSUME NEW a \in aliases, DeleteAlias(a) PROVE PacedAt(s)'
  BY <1>6, OthersPaced DEF DeleteAlias, session
<1> QED BY <1>1, <1>2, <1>3, <1>4, <1>5, <1>6, OwnPaced, StepPaced
        DEF Next, Display, vars

\* A request fails to mint only if as many rows of its partner as it has attempts
\* were committed by others meanwhile, however many sessions there are.
THEOREM FailsOnlyWhenOutpaced == Spec => []FailedWhenOutpaced
<1>1. Init => Paced
  BY MaskAssumption DEF Init, Paced, PacedAt, Beaten, Sessions
<1>2. Paced => FailedWhenOutpaced
  BY DEF Paced, PacedAt, FailedWhenOutpaced
<1> QED BY <1>1, <1>2, NextPaced, TypeCorrect, PTL DEF Spec
------------------------------------------------------------------------------
(* The book of names *)

\* An uncommitted row is in nobody else's hands, and not in the table.
HeldApart ==
    \A s \in Sessions : \A a \in held[s] :
        a \notin aliases /\ \A t \in Sessions \ {s} : a \notin held[t]

\* What NameBook needs of a state.
BookInv == IInv /\ HeldApart

\* A row is in the way of itself.
LEMMA ClashSelf ==
    ASSUME NEW rows, NEW a \in rows
    PROVE  a \in Clash(rows, a.partner, a.real, a.mask)
BY DEF Clash, ByReal, ByMask

LEMMA InsertApart ==
    ASSUME TypeOK, HeldApart, NEW s \in Sessions, Insert(s)
    PROVE  HeldApart'
<1> DEFINE row == [partner |-> partner[s], real |-> flight[s], mask |-> Picked(s)]
<1>1. held' = [held EXCEPT ![s] = @ \cup {row}] /\ aliases' = aliases
  BY DEF Insert
<1>2. row \notin aliases
  BY ClashSelf DEF Insert, Visible, Clash, ByReal, ByMask
<1>3. \A t \in Sessions \ {s} : row \notin held[t]
  BY DEF Insert, Holders, Clash, ByReal, ByMask
<1> HIDE DEF row
<1>4. held \in [Sessions -> SUBSET Aliases]
  BY DEF TypeOK
<1> QED BY <1>1, <1>2, <1>3, <1>4 DEF HeldApart

LEMMA ApartKept ==
    ASSUME TypeOK, HeldApart, NEW s \in Sessions,
           held' = [held EXCEPT ![s] = {}], aliases' \subseteq aliases \cup held[s]
    PROVE  HeldApart'
BY DEF HeldApart, TypeOK

LEMMA NextApart == TypeOK /\ HeldApart /\ [Next]_vars => HeldApart'
<1> SUFFICES ASSUME TypeOK, HeldApart, [Next]_vars PROVE HeldApart'
  OBVIOUS
<1>1. CASE held' = held /\ aliases' \subseteq aliases
  BY <1>1 DEF HeldApart
<1>2. ASSUME NEW s \in Sessions, Step(s) PROVE HeldApart'
  <2>1. CASE (\E p \in Partners : NextPartner(s, p)) \/ Look(s)
    BY <1>1, <2>1 DEF NextPartner, Look
  <2>2. CASE Collide(s)
    BY <2>2, CollideDrops, ApartKept
  <2>3. CASE Finish(s) \/ LockTimeout(s) \/ DeadlockVictim(s)
    BY <2>3, ApartKept DEF Finish, LockTimeout, DeadlockVictim, Ends
  <2> QED BY <1>2, <2>1, <2>2, <2>3, InsertApart DEF Step
<1>3. ASSUME NEW p \in Partners, NEW f \in Flights, NEW m \in Overrides, SetMask(p, f, m)
      PROVE  HeldApart'
  <2> DEFINE row == [partner |-> p, real |-> f, mask |-> m]
  <2>1. /\ aliases' = (aliases \ ByReal(aliases, p, f)) \cup {row} /\ held' = held
        /\ \A t \in Sessions : Clash(held[t], p, f, m) = {}
    BY <1>3 DEF SetMask
  <2>2. \A t \in Sessions : row \notin held[t]
    BY <2>1 DEF Clash, ByReal, ByMask
  <2> HIDE DEF row
  <2> QED BY <2>1, <2>2 DEF HeldApart
<1>4. CASE \E a \in aliases : DeleteAlias(a)
  BY <1>1, <1>4 DEF DeleteAlias, session
<1>5. CASE \/ \E f \in Flights : \E p \in PartnersOf[f] : Display(p, f)
           \/ \E s \in Displays, f \in Flights : \E p \in PartnersOf[f] : Mint(s, p, f)
           \/ \E s \in Batches, f \in Flights : StartBatch(s, f)
           \/ UNCHANGED vars
  BY <1>1, <1>5 DEF Display, Mint, StartBatch, vars, session
<1> QED BY <1>2, <1>3, <1>4, <1>5 DEF Next

LEMMA BookInvariant == Spec => []BookInv
<1>1. Init => HeldApart
  BY DEF Init, HeldApart
<1>2. BookInv <=> IInv /\ HeldApart
  BY DEF BookInv
<1> QED BY <1>1, <1>2, Inductive, TypeCorrect, NextApart, PTL DEF Spec

\* A name that is backed by the new table may be shown.
LEMMA BackedMayShow ==
    ASSUME NEW t \in Shown, Backed(t, aliases)', UNCHANGED <<edited, lost>>
    PROVE  Names!MayShow(t)
<1>1. CASE IsOwn(t.partner, t.real)
  <2>1. <<t.partner, t.real>> \in {pf \in Partners \X Flights : IsOwn(pf[1], pf[2])}
    BY <1>1 DEF Shown
  <2> QED BY <2>1 DEF Names!MayShow
<1>2. CASE ~Undisturbed(t)
  BY <1>2 DEF Names!MayShow, Undisturbed
<1>3. CASE \E a \in aliases' : Entry(a) = t
  BY <1>3 DEF Names!MayShow, Entry
<1> QED BY <1>1, <1>2, <1>3 DEF Backed, Undisturbed

\* Rows of a one-to-one table enter it fresh.
LEMMA UniqueEntersFresh ==
    ASSUME OneToOne', TypeOK', NEW a \in aliases'
    PROVE  Names!EntersFresh(a)
<1> SUFFICES ASSUME NEW b \in aliases' \ {a}, a.partner = b.partner
             PROVE  a.real # b.real /\ a.mask # b.mask
  BY DEF Names!EntersFresh
<1>1. a.real = b.real <=> a.mask = b.mask
  BY DEF OneToOne, Tabled
<1>2. a \in Aliases /\ b \in Aliases
  BY DEF TypeOK
<1> QED BY <1>1, <1>2 DEF Aliases

\* A commit, or a request that finds its mask, enters and shows names.
LEMMA EnterStep ==
    ASSUME IInv', aliases \subseteq aliases', told \subseteq told', UNCHANGED <<edited, lost>>
    PROVE  Names!Enter
<1>1. \A t \in told' : Names!MayShow(t)
  BY BackedMayShow DEF IInv, ToldBacked, TypeOK
<1>2. \A a \in aliases' : Names!EntersFresh(a)
  BY UniqueEntersFresh DEF IInv
<1> QED BY <1>1, <1>2 DEF Names!Enter

LEMMA StaffStep ==
    ASSUME IInv', NEW p \in Partners, NEW f \in Flights,
           (\E m \in Overrides : SetMask(p, f, m))
             \/ \E a \in aliases : a.partner = p /\ a.real = f /\ DeleteAlias(a)
    PROVE  Names!Change(p, f)
<1>1. /\ edited' = edited \cup {<<p, f>>} /\ UNCHANGED <<told, lost>>
      /\ \A a \in aliases \ aliases' : a.partner = p /\ a.real = f
      /\ \A a \in aliases' \ aliases : a.partner = p /\ a.real = f
  <2>1. ASSUME NEW m \in Overrides, SetMask(p, f, m) PROVE <1>1!:
    BY <2>1 DEF SetMask, ByReal
  <2>2. ASSUME NEW a \in aliases, a.partner = p, a.real = f, DeleteAlias(a) PROVE <1>1!:
    BY <2>2 DEF DeleteAlias
  <2> QED BY <2>1, <2>2
<1>2. \A a \in aliases' : Names!EntersFresh(a)
  BY UniqueEntersFresh DEF IInv
<1> QED BY <1>1, <1>2 DEF Names!Change

\* The rollback takes back rows whose flights are not in the table.
LEMMA CollideStep ==
    ASSUME BookInv, NEW s \in Sessions, Collide(s)
    PROVE  Names!TakeBack
<1>1. /\ lost' = lost \cup {<<a.partner, a.real>> : a \in held[s]}
      /\ UNCHANGED <<aliases, told, edited>>
  BY DEF Collide
<1>2. ASSUME NEW h \in held[s], NEW a \in aliases, <<a.partner, a.real>> = <<h.partner, h.real>>
      PROVE  FALSE
  <2>1. h \in Tabled /\ a \in Tabled
    BY DEF Tabled
  <2>2. a.mask = h.mask
    BY <1>2, <2>1 DEF OneToOne, BookInv, IInv
  <2>3. a \in Aliases /\ h \in Aliases
    BY DEF BookInv, IInv, TypeOK
  <2>4. a = h
    BY <1>2, <2>2, <2>3 DEF Aliases
  <2> QED BY <2>4 DEF BookInv, HeldApart
<1> QED BY <1>1, <1>2 DEF Names!TakeBack

LEMMA NameStep == BookInv /\ IInv' /\ [Next]_vars => [Names!Next]_(Names!names)
<1> SUFFICES ASSUME BookInv, IInv', [Next]_vars PROVE [Names!Next]_(Names!names)
  OBVIOUS
<1>1. CASE UNCHANGED <<aliases, told, edited, lost>>
  BY <1>1 DEF Names!names
<1>2. CASE Names!Enter
  BY <1>2 DEF Names!Next
<1>3. ASSUME NEW f \in Flights, NEW p \in PartnersOf[f], Display(p, f) PROVE Names!Enter
  BY <1>3, EnterStep DEF Display
<1>4. ASSUME NEW s \in Sessions, Step(s) PROVE [Names!Next]_(Names!names)
  <2>1. CASE (\E p \in Partners : NextPartner(s, p)) \/ Look(s) \/ Insert(s)
              \/ LockTimeout(s) \/ DeadlockVictim(s)
    BY <1>1, <2>1 DEF NextPartner, Look, Insert, LockTimeout, DeadlockVictim, history
  <2>2. CASE Finish(s)
    BY <1>2, <2>2, EnterStep DEF Finish
  <2>3. CASE Collide(s)
    BY <2>3, CollideStep DEF Names!Next
  <2> QED BY <1>4, <2>1, <2>2, <2>3 DEF Step
<1>5. ASSUME NEW p \in Partners, NEW f \in Flights, NEW m \in Overrides, SetMask(p, f, m)
      PROVE  Names!Next
  BY <1>5, StaffStep DEF Names!Next
<1>6. ASSUME NEW a \in aliases, DeleteAlias(a) PROVE Names!Next
  <2>1. a.partner \in Partners /\ a.real \in Flights
    BY DEF BookInv, IInv, TypeOK, Aliases
  <2> QED BY <1>6, <2>1, StaffStep DEF Names!Next
<1>7. CASE \/ \E s \in Displays, f \in Flights : \E p \in PartnersOf[f] : Mint(s, p, f)
           \/ \E s \in Batches, f \in Flights : StartBatch(s, f)
           \/ UNCHANGED vars
  BY <1>1, <1>7 DEF Mint, StartBatch, vars, history
<1> QED BY <1>2, <1>3, <1>4, <1>5, <1>6, <1>7 DEF Next

\* Requests and batches, however their statements interleave, wait, collide and
\* roll back, implement NameBook: a mask enters the book in one step and unique,
\* only staff change it, and a client is shown no name that is not in the book
\* except for a flight staff changed or a rollback hit.
THEOREM ImplementsNames == Spec => IsNameBook
<1>1. Init => Names!Init
  BY DEF Init, Names!Init
<1>2. BookInv => IInv
  BY DEF BookInv
<1> QED BY <1>1, <1>2, NameStep, BookInvariant, PTL DEF Spec, IsNameBook, Names!Spec
==============================================================================
