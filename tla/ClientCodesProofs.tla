--------------------------- MODULE ClientCodesProofs ---------------------------
(***************************************************************************)
(* A generated code is nobody else's, for every number of clients and of   *)
(* sessions that write codes, and whatever codes staff type: the generator *)
(* keeps the table locked from the moment it picks a number that nobody    *)
(* has until it has written it.  For the same reason its several steps are *)
(* one of the register's: what was next when it looked still is when it    *)
(* writes.                                                                 *)
(***************************************************************************)
EXTENDS ClientCodes, WellFoundedInduction, TLAPS

Places == [at : {"idle", "waiting", "locked", "picked", "done", "refused"},
           does : {"none", "approve", "login", "create", "type"},
           who : People, column : {"main", "extra"}, code : Codes]

\* One session at most has the lock, from the lock to its end, and every code
\* that is picked and not typed is picked under it.
LockHeld ==
    /\ \A d, e \in lock : d = e
    /\ \A d \in lock : desk[d].at \in {"locked", "picked"}
    /\ \A d \in Desks : desk[d].at = "locked" => d \in lock
    /\ \A d \in Desks : desk[d].at = "picked" /\ desk[d].code \notin typed => d \in lock

\* Who is not in the table has no code.
NoCodes == \A p \in People \ known : main[p] = 0 /\ extra[p] = 0

CodesInv == CodesTypeOK /\ NoCodes /\ LockHeld /\ GeneratedIsFree /\ GeneratedIsDistinct
------------------------------------------------------------------------------
(* The number picked                                                        *)

\* A set of numbers has a smallest.
LEMMA MinOf == ASSUME NEW S \in SUBSET Nat, S # {} PROVE \E n \in S : \A m \in S : n <= m
<1>1. PICK n \in S : \A m \in S : <<m, n>> \notin OpToRel(<, Nat)
  BY WFMin, NatLessThanWellFounded
<1>2. ASSUME NEW m \in S PROVE n <= m
  <2>1. m \in Nat /\ n \in Nat
    OBVIOUS
  <2>2. ~(m < n)
    BY <1>1, <2>1 DEF OpToRel
  <2> QED BY <2>1, <2>2
<1> QED BY <1>2

\* So a set of numbers with a bound has a greatest.
LEMMA GreatestOf ==
    ASSUME NEW N \in Nat, NEW S \in SUBSET (0..N), S # {}
    PROVE  \E n \in S : \A m \in S : m <= n
<1> DEFINE Below == {N - m : m \in S}
<1>1. Below \in SUBSET Nat /\ Below # {}
  <2>1. \A m \in S : N - m \in Nat
    OBVIOUS
  <2> QED BY <2>1
<1>2. PICK k \in Below : \A b \in Below : k <= b
  BY <1>1, MinOf
<1>3. PICK n \in S : k = N - n
  OBVIOUS
<1>4. \A m \in S : m <= n
  BY <1>2, <1>3
<1> QED BY <1>4

\* The next code is a number that nobody has.
LEMMA NextCodeFree == ASSUME CodesTypeOK PROVE NextCode \in Nat \ {0} /\ NextCode \notin Taken
<1> DEFINE free == {n + 1 : n \in Taken} \ Taken
<1>1. Taken \in SUBSET (0..MaxCode) /\ MaxCode \in Nat
  BY CodesAssumption DEF Taken, CodesOf, CodesTypeOK, Codes
<1>2. CASE Taken = {}
  BY <1>2 DEF NextCode
<1>3. CASE Taken # {}
  <2>1. PICK g \in Taken : \A m \in Taken : m <= g
    BY <1>1, <1>3, GreatestOf
  <2>2. g + 1 \in free
    BY <1>1, <2>1
  <2>3. free \in SUBSET (Nat \ {0})
    BY <1>1
  <2>4. \E n \in free : \A m \in free : n <= m
    BY <2>2, <2>3, MinOf
  <2>5. NextCode = CHOOSE n \in free : \A m \in free : n <= m
    BY <1>3 DEF NextCode
  <2>6. NextCode \in free
    BY <2>4, <2>5
  <2> QED BY <2>3, <2>6
<1> QED BY <1>2, <1>3
------------------------------------------------------------------------------
(* The steps                                                                *)

\* It holds at the start.
LEMMA CodesStart == CodesInit => CodesInv
<1> SUFFICES ASSUME CodesInit PROVE CodesInv
  OBVIOUS
<1>1. \A d \in Desks : desk[d].at = "idle"
  BY DEF CodesInit, NoDesk, Session
<1>2. NoDesk \in Places
  BY CodesAssumption DEF NoDesk, Session, Places, Codes
<1>3. desk \in [Desks -> Places]
  BY <1>2 DEF CodesInit
<1>4. main \in [People -> Codes] /\ extra \in [People -> Codes]
  BY CodesAssumption DEF CodesInit, Codes
<1>5. CodesTypeOK
  BY <1>3, <1>4 DEF CodesInit, CodesTypeOK, Places
<1>6. LockHeld /\ GeneratedIsFree
  BY <1>1 DEF CodesInit, LockHeld, GeneratedIsFree
<1>7. GeneratedIsDistinct
  BY CodesAssumption DEF CodesInit, GeneratedIsDistinct, CodesOf
<1>8. NoCodes
  BY DEF CodesInit, NoCodes
<1> QED BY <1>5, <1>6, <1>7, <1>8 DEF CodesInv

\* A session writes something other than a code.
LEMMA DeskStep ==
    ASSUME CodesInv, NEW d \in Desks, NEW r \in Places, UNCHANGED <<known, main, extra>>,
           desk' = [desk EXCEPT ![d] = r], r.at # "picked", typed' = typed,
           \/ lock' = lock /\ d \notin lock /\ r.at # "locked"
           \/ lock' = lock \ {d} /\ r.at # "locked"
           \/ lock' = {d} /\ lock \subseteq {d} /\ r.at = "locked"
    PROVE  CodesInv'
<1> USE DEF CodesInv
<1>1. \A e \in Desks : desk'[e] = IF e = d THEN r ELSE desk[e]
  BY DEF CodesTypeOK
<1>2. CodesTypeOK'
  BY DEF CodesTypeOK, Places
<1>3. LockHeld'
  BY <1>1 DEF LockHeld
<1>4. GeneratedIsFree' /\ GeneratedIsDistinct'
  BY <1>1 DEF GeneratedIsFree, GeneratedIsDistinct, CodesOf
<1> QED BY <1>2, <1>3, <1>4 DEF NoCodes

\* A code is picked by the generator, or typed.
LEMMA PickStep ==
    ASSUME CodesInv, NEW d \in Desks, NEW r \in Places, UNCHANGED <<known, main, extra, lock>>,
           desk' = [desk EXCEPT ![d] = r], r.at = "picked", typed \subseteq typed', typed' \subseteq Codes,
           \/ r.code \in typed'
           \/ d \in lock /\ r.code \notin Taken
    PROVE  CodesInv'
<1> USE DEF CodesInv
<1>1. \A e \in Desks : desk'[e] = IF e = d THEN r ELSE desk[e]
  BY DEF CodesTypeOK
<1>2. CodesTypeOK'
  BY DEF CodesTypeOK, Places
<1>3. LockHeld'
  BY <1>1 DEF LockHeld
<1>4. GeneratedIsFree'
  BY <1>1 DEF GeneratedIsFree, CodesOf, Taken
<1>5. GeneratedIsDistinct'
  BY DEF GeneratedIsDistinct, CodesOf
<1> QED BY <1>2, <1>3, <1>4, <1>5 DEF NoCodes

\* A code is written: if it is not typed nobody else has it.
LEMMA StoreStep == ASSUME CodesInv, NEW d \in Desks, Store(d) PROVE CodesInv'
<1> USE DEF CodesInv
<1> PICK p \in People, n \in Codes : p = desk[d].who /\ n = desk[d].code
  BY DEF CodesTypeOK
<1>1. p \in People /\ n \in Codes /\ desk[d].at = "picked" /\ desk \in [Desks -> Places]
  BY DEF Store, CodesTypeOK, Places
<1>2. /\ known' = known \cup {p} /\ typed' = typed /\ lock' = lock \ {d} /\ lock \subseteq {d}
      /\ \/ main' = [main EXCEPT ![p] = n] /\ extra' = extra
         \/ main' = main /\ extra' = [extra EXCEPT ![p] = n]
  <2>1. desk[d].column \in {"main", "extra"}
    BY <1>1 DEF Places
  <2> QED BY <2>1 DEF Store, End, Others
<1>3. desk' = [desk EXCEPT ![d] = [desk[d] EXCEPT !.at = "done"]]
  BY DEF Store, End
<1>4. desk' \in [Desks -> Places] /\ desk'[d].at = "done" /\ \A e \in Desks \ {d} : desk'[e] = desk[e]
  <2>1. desk[d] \in Places
    BY <1>1
  <2>2. [desk[d] EXCEPT !.at = "done"] \in Places /\ [desk[d] EXCEPT !.at = "done"].at = "done"
    BY <2>1 DEF Places
  <2> QED BY <1>1, <1>3, <2>2
<1>5. CodesTypeOK'
  BY <1>1, <1>2, <1>4 DEF CodesTypeOK, Places
<1>6. LockHeld'
  BY <1>2, <1>4 DEF LockHeld
<1>7. GeneratedIsFree'
  <2>1. \A e \in Desks \ {d} : desk[e].at = "picked" => desk[e].code \in typed
    BY <1>2 DEF LockHeld
  <2> QED BY <1>2, <1>4, <2>1 DEF GeneratedIsFree
<1>8. /\ \A q \in People \ {p} : CodesOf(q)' = CodesOf(q)
      /\ CodesOf(p)' \subseteq CodesOf(p) \cup {n}
  <2>1. main \in [People -> Codes] /\ extra \in [People -> Codes]
    BY DEF CodesTypeOK
  <2>2. CASE main' = [main EXCEPT ![p] = n] /\ extra' = extra
    BY <2>1, <2>2 DEF CodesOf
  <2>3. CASE main' = main /\ extra' = [extra EXCEPT ![p] = n]
    BY <2>1, <2>3 DEF CodesOf
  <2> QED BY <1>2, <2>2, <2>3
<1>9. \A q \in known \ {p} : n \in CodesOf(q) => n \in typed
  BY <1>1 DEF GeneratedIsFree
<1>10. GeneratedIsDistinct'
  <2> SUFFICES ASSUME NEW a \in known', NEW b \in known', a # b
               PROVE  CodesOf(a)' \cap CodesOf(b)' \subseteq typed
    BY <1>2 DEF GeneratedIsDistinct
  <2>0. a \in People /\ b \in People
    BY <1>5 DEF CodesTypeOK
  <2>1. CASE a # p /\ b # p
    BY <1>2, <1>8, <2>0, <2>1 DEF GeneratedIsDistinct
  <2>2. ASSUME NEW q \in known \ {p}, p \in known
        PROVE  CodesOf(p)' \cap CodesOf(q)' \subseteq typed
    <3>1. CodesOf(p) \cap CodesOf(q) \subseteq typed
      BY <2>2 DEF GeneratedIsDistinct
    <3>2. CodesOf(q)' = CodesOf(q)
      BY <1>8, <2>2 DEF CodesTypeOK
    <3> QED BY <1>8, <1>9, <3>1, <3>2
  <2>3. ASSUME NEW q \in known \ {p}, p \notin known
        PROVE  CodesOf(p)' \cap CodesOf(q)' \subseteq typed
    <3>1. CodesOf(p) = {}
      BY <1>1, <2>3 DEF NoCodes, CodesOf
    <3>2. CodesOf(q)' = CodesOf(q)
      BY <1>8, <2>3 DEF CodesTypeOK
    <3> QED BY <1>8, <1>9, <3>1, <3>2
  <2>4. CASE a = p
    BY <1>2, <2>2, <2>3, <2>4
  <2>5. CASE b = p
    BY <1>2, <2>2, <2>3, <2>5
  <2> QED BY <2>1, <2>4, <2>5
<1>11. NoCodes'
  BY <1>1, <1>2 DEF NoCodes, CodesTypeOK
<1> QED BY <1>5, <1>6, <1>7, <1>10, <1>11

\* A client is deleted, which waits for the lock: his codes are nobody's.
LEMMA DeleteStep == ASSUME CodesInv, NEW p \in People, DeleteClient(p) PROVE CodesInv'
<1> USE DEF CodesInv
<1>1. /\ known' = known \ {p} /\ lock = {} /\ UNCHANGED <<lock, desk, typed>>
      /\ main' = [main EXCEPT ![p] = 0] /\ extra' = [extra EXCEPT ![p] = 0]
  BY DEF DeleteClient
<1>2. \A q \in People \ {p} : CodesOf(q)' = CodesOf(q)
  BY <1>1 DEF CodesOf, CodesTypeOK
<1>3. main'[p] = 0 /\ extra'[p] = 0
  BY <1>1 DEF CodesTypeOK
<1>4. CodesTypeOK'
  BY <1>1, CodesAssumption DEF CodesTypeOK, Codes
<1>5. LockHeld'
  BY <1>1 DEF LockHeld
<1>6. NoCodes'
  BY <1>1, <1>2, <1>3 DEF NoCodes, CodesOf
<1>7. GeneratedIsFree' /\ GeneratedIsDistinct'
  BY <1>1, <1>2 DEF GeneratedIsFree, GeneratedIsDistinct, CodesTypeOK
<1> QED BY <1>4, <1>5, <1>6, <1>7

\* Every step keeps the invariant.
LEMMA CodesStep == ASSUME CodesInv, CodesNext PROVE CodesInv'
<1> USE DEF CodesInv
<1>0. desk \in [Desks -> Places]
  BY DEF CodesTypeOK, Places
<1>1. ASSUME NEW d \in Desks, NEW does \in {"approve", "login", "create"}, NEW p \in People,
             AskCode(d, does, p)
      PROVE  CodesInv'
  <2> DEFINE r == Session("waiting", does, p, "extra", 0)
  <2>1. r \in Places /\ r.at = "waiting"
    BY CodesAssumption DEF Session, Places, Codes
  <2>2. UNCHANGED <<known, main, extra, lock, typed>> /\ desk' = [desk EXCEPT ![d] = r]
        /\ desk[d].at = "idle"
    BY <1>1 DEF AskCode
  <2>3. d \notin lock
    BY <2>2 DEF LockHeld
  <2> HIDE DEF r
  <2> QED BY <2>1, <2>2, <2>3, DeskStep
<1>2. ASSUME NEW d \in Desks, LockTable(d) PROVE CodesInv'
  <2> DEFINE r == [desk[d] EXCEPT !.at = "locked"]
  <2>1. desk[d] \in Places
    BY <1>0
  <2>2. r \in Places /\ r.at = "locked"
    BY <2>1 DEF Places
  <2>3. UNCHANGED <<known, main, extra, typed>> /\ desk' = [desk EXCEPT ![d] = r]
        /\ lock' = lock \cup {d} /\ lock \subseteq {d}
    BY <1>2 DEF LockTable, Others
  <2>4. lock' = {d}
    BY <2>3
  <2> HIDE DEF r
  <2> QED BY <2>2, <2>3, <2>4, DeskStep
<1>3. ASSUME NEW d \in Desks, Pick(d) PROVE CodesInv'
  <2> DEFINE r == Session("picked", desk[d].does, desk[d].who, "extra", NextCode)
  <2>1. UNCHANGED <<known, main, extra, lock, typed>> /\ desk[d].at = "locked" /\ NextCode <= MaxCode
        /\ desk' = [desk EXCEPT ![d] = r]
    BY <1>3 DEF Pick
  <2>2. r \in Places /\ r.at = "picked" /\ r.code = NextCode
    BY <1>0, <2>1, NextCodeFree, CodesAssumption DEF Session, Places, Codes
  <2>3. d \in lock /\ NextCode \notin Taken
    BY <2>1, NextCodeFree DEF LockHeld
  <2> HIDE DEF r
  <2> QED BY <2>1, <2>2, <2>3, PickStep DEF CodesTypeOK
<1>4. ASSUME NEW d \in Desks, NEW p \in People, NEW n \in Typed, TypeCode(d, p, n) PROVE CodesInv'
  <2> DEFINE r == Session("picked", IF p \in known THEN "type" ELSE "create", p,
                          IF p \in known /\ extra[p] = 0 THEN "main" ELSE "extra", n)
  <2>1. UNCHANGED <<known, main, extra, lock>> /\ typed' = typed \cup {n}
        /\ desk' = [desk EXCEPT ![d] = r]
    BY <1>4 DEF TypeCode
  <2>2. n \in Codes
    BY CodesAssumption DEF Codes
  <2>3. r \in Places /\ r.at = "picked" /\ r.code = n
    BY <2>2 DEF Session, Places
  <2> HIDE DEF r
  <2> QED BY <2>1, <2>2, <2>3, PickStep DEF CodesTypeOK
<1>5. ASSUME NEW d \in Desks, NEW l \in {"done", "refused"}, End(d, l),
             UNCHANGED <<known, main, extra, typed>>
      PROVE  CodesInv'
  <2> DEFINE r == [desk[d] EXCEPT !.at = l]
  <2>1. desk[d] \in Places
    BY <1>0
  <2>2. r \in Places /\ r.at = l
    BY <2>1 DEF Places
  <2>3. desk' = [desk EXCEPT ![d] = r] /\ lock' = lock \ {d}
    BY <1>5 DEF End
  <2> HIDE DEF r
  <2> QED BY <1>5, <2>2, <2>3, DeskStep
<1>6. ASSUME NEW d \in Desks, Conflict(d) \/ Abort(d) PROVE CodesInv'
  BY <1>5, <1>6 DEF Conflict, Abort
<1> QED BY <1>1, <1>2, <1>3, <1>4, <1>6, StoreStep, DeleteStep DEF CodesNext

\* So does a step of something else.
LEMMA CodesStutter == ASSUME CodesInv, UNCHANGED codeVars PROVE CodesInv'
BY DEF CodesInv, codeVars, CodesTypeOK, NoCodes, LockHeld, GeneratedIsFree, GeneratedIsDistinct, CodesOf

\* What holds in every state.
THEOREM CodesInductive == CodesSpec => []CodesInv
<1>1. CodesInv /\ [CodesNext]_codeVars => CodesInv'
  BY CodesStep, CodesStutter
<1> QED BY <1>1, CodesStart, PTL DEF CodesSpec

\* Codes, lock and sessions have their types; a picked number is within the bound.
THEOREM CodesTypeCorrect == CodesSpec => []CodesTypeOK
<1>1. CodesInv => CodesTypeOK
  BY DEF CodesInv
<1> QED BY <1>1, CodesInductive, PTL

\* Two clients share a code only if somebody typed it.
THEOREM GeneratedAlwaysDistinct == CodesSpec => []GeneratedIsDistinct
<1>1. CodesInv => GeneratedIsDistinct
  BY DEF CodesInv
<1> QED BY <1>1, CodesInductive, PTL

\* Nobody else gets hold of a generated number before it is written.
THEOREM GeneratedAlwaysFree == CodesSpec => []GeneratedIsFree
<1>1. CodesInv => GeneratedIsFree
  BY DEF CodesInv
<1> QED BY <1>1, CodesInductive, PTL
------------------------------------------------------------------------------
(* The register                                                             *)

\* A code picked and not typed is the next one, for as long as it waits.
PickedIsNext ==
    \A d \in Desks : desk[d].at = "picked" /\ desk[d].code \notin typed =>
        Register!IsNext(desk[d].code) /\ desk[d].column = "extra"

\* The register and the generator look at the same codes.
LEMMA SameTaken == Register!Taken = Taken
BY DEF Taken, CodesOf, Register!Taken

\* What is next depends on the codes of the clients only.
LEMMA NextKept ==
    ASSUME UNCHANGED <<known, main, extra>>
    PROVE  \A n \in Codes : Register!IsNext(n) => Register!IsNext(n)'
BY DEF Register!IsNext, Register!Following, Register!Taken

\* The generator picks what is next.
LEMMA NextCodeIsNext == ASSUME CodesTypeOK PROVE Register!IsNext(NextCode)
<1> DEFINE free == {n + 1 : n \in Taken} \ Taken
<1>1. Taken \in SUBSET (0..MaxCode) /\ MaxCode \in Nat
  BY CodesAssumption DEF Taken, CodesOf, CodesTypeOK, Codes
<1>2. free = Register!Following
  BY SameTaken DEF Register!Following
<1>3. CASE Taken = {}
  BY <1>3, SameTaken DEF NextCode, Register!IsNext
<1>4. CASE Taken # {}
  <2>1. PICK g \in Taken : \A m \in Taken : m <= g
    BY <1>1, <1>4, GreatestOf
  <2>2. g + 1 \in free
    BY <1>1, <2>1
  <2>3. free \in SUBSET Nat
    BY <1>1
  <2>4. \E n \in free : \A m \in free : n <= m
    BY <2>2, <2>3, MinOf
  <2>5. NextCode = CHOOSE n \in free : \A m \in free : n <= m
    BY <1>4 DEF NextCode
  <2>6. NextCode \in free /\ \A m \in free : NextCode <= m
    BY <2>4, <2>5
  <2> QED BY <1>2, <1>4, <2>6, SameTaken DEF Register!IsNext
<1> QED BY <1>3, <1>4

\* Who is not in the table has no code, and no two have the same old one.
LEMMA RegisterStart == CodesInit => PickedIsNext /\ Register!Init
<1> SUFFICES ASSUME CodesInit PROVE PickedIsNext /\ Register!Init
  OBVIOUS
<1>1. \A d \in Desks : desk[d].at = "idle"
  BY DEF CodesInit, NoDesk, Session
<1>2. Register!Init
  BY CodesAssumption DEF CodesInit, Register!Init
<1> QED BY <1>1, <1>2 DEF PickedIsNext

\* A picked code stays next: whoever would change the codes waits.
LEMMA PickedStaysNext ==
    ASSUME CodesInv, PickedIsNext, CodesInv', [CodesNext]_codeVars PROVE PickedIsNext'
<1> USE DEF CodesInv
<1>0. desk \in [Desks -> Places]
  BY DEF CodesTypeOK, Places
<1>1. ASSUME UNCHANGED <<known, main, extra>>, typed \subseteq typed',
             \A e \in Desks : \/ desk'[e] = desk[e] \/ desk'[e].at # "picked"
                              \/ desk'[e].code \in typed'
                              \/ Register!IsNext(desk'[e].code) /\ desk'[e].column = "extra"
      PROVE  PickedIsNext'
  <2> SUFFICES ASSUME NEW e \in Desks, desk'[e].at = "picked", desk'[e].code \notin typed'
               PROVE  (Register!IsNext(desk[e].code) /\ desk[e].column = "extra")'
    BY DEF PickedIsNext
  <2>1. Register!IsNext(desk'[e].code) /\ desk'[e].column = "extra"
    BY <1>1 DEF PickedIsNext
  <2>2. PICK n \in Codes : n = desk'[e].code
    BY DEF CodesTypeOK
  <2>3. Register!IsNext(n)'
    BY <1>1, <2>1, <2>2, NextKept
  <2> QED BY <2>1, <2>2, <2>3
<1>2. ASSUME NEW d \in Desks, NEW r \in Places, desk' = [desk EXCEPT ![d] = r],
             UNCHANGED <<known, main, extra>>, typed \subseteq typed',
             \/ r.at # "picked" \/ r.code \in typed'
             \/ Register!IsNext(r.code) /\ r.column = "extra"
      PROVE  PickedIsNext'
  <2>1. \A e \in Desks : desk'[e] = IF e = d THEN r ELSE desk[e]
    BY <1>0, <1>2
  <2> QED BY <1>1, <1>2, <2>1
<1>3. ASSUME NEW d \in Desks, NEW does \in {"approve", "login", "create"}, NEW p \in People,
             AskCode(d, does, p)
      PROVE  PickedIsNext'
  <2>1. Session("waiting", does, p, "extra", 0) \in Places
    BY CodesAssumption DEF Session, Places, Codes
  <2> QED BY <1>2, <1>3, <2>1 DEF AskCode, Session
<1>4. ASSUME NEW d \in Desks, NEW l \in {"locked", "done", "refused"},
             desk' = [desk EXCEPT ![d].at = l], UNCHANGED <<known, main, extra, typed>>
      PROVE  PickedIsNext'
  <2> DEFINE r == [desk[d] EXCEPT !.at = l]
  <2>1. desk[d] \in Places
    BY <1>0
  <2>2. r \in Places /\ r.at # "picked"
    BY <2>1 DEF Places
  <2>3. desk' = [desk EXCEPT ![d] = r]
    BY <1>4
  <2> HIDE DEF r
  <2> QED BY <1>2, <1>4, <2>2, <2>3
<1>5. ASSUME NEW d \in Desks, Pick(d) PROVE PickedIsNext'
  <2> DEFINE r == Session("picked", desk[d].does, desk[d].who, "extra", NextCode)
  <2>1. UNCHANGED <<known, main, extra, typed>> /\ NextCode <= MaxCode
        /\ desk' = [desk EXCEPT ![d] = r]
    BY <1>5 DEF Pick
  <2>2. r \in Places /\ r.code = NextCode /\ r.column = "extra"
    BY <1>0, <2>1, NextCodeFree, CodesAssumption DEF Session, Places, Codes
  <2> HIDE DEF r
  <2> QED BY <1>2, <2>1, <2>2, NextCodeIsNext
<1>6. ASSUME NEW d \in Desks, NEW p \in People, NEW n \in Typed, TypeCode(d, p, n)
      PROVE  PickedIsNext'
  <2> DEFINE r == Session("picked", IF p \in known THEN "type" ELSE "create", p,
                          IF p \in known /\ extra[p] = 0 THEN "main" ELSE "extra", n)
  <2>1. UNCHANGED <<known, main, extra>> /\ typed' = typed \cup {n} /\ desk' = [desk EXCEPT ![d] = r]
    BY <1>6 DEF TypeCode
  <2>2. n \in Codes
    BY CodesAssumption DEF Codes
  <2>3. r \in Places /\ r.code = n
    BY <2>2 DEF Session, Places
  <2> HIDE DEF r
  <2> QED BY <1>2, <2>1, <2>3
<1>7. ASSUME NEW d \in Desks, Store(d) PROVE PickedIsNext'
  <2>1. lock \subseteq {d} /\ desk' = [desk EXCEPT ![d].at = "done"] /\ typed' = typed
    BY <1>7 DEF Store, End, Others
  <2>2. desk'[d].at # "picked" /\ \A e \in Desks \ {d} : desk'[e] = desk[e]
    <3>1. desk[d] \in Places
      BY <1>0
    <3> QED BY <1>0, <2>1, <3>1 DEF Places
  <2> QED BY <2>1, <2>2 DEF PickedIsNext, LockHeld
<1>8. ASSUME NEW p \in People, DeleteClient(p) PROVE PickedIsNext'
  BY <1>8 DEF DeleteClient, PickedIsNext, LockHeld
<1>9. ASSUME NEW d \in Desks, LockTable(d) \/ Conflict(d) \/ Abort(d) PROVE PickedIsNext'
  BY <1>4, <1>9 DEF LockTable, Conflict, Abort, End
<1>10. ASSUME UNCHANGED codeVars PROVE PickedIsNext'
  BY <1>1, <1>10 DEF codeVars
<1> QED BY <1>3, <1>5, <1>6, <1>7, <1>8, <1>9, <1>10 DEF CodesNext

\* A write of a session is a step of the register.
LEMMA StoreRegisters ==
    ASSUME CodesInv, PickedIsNext, NEW d \in Desks, Store(d) PROVE Register!Next
<1> DEFINE p == desk[d].who
           n == desk[d].code
<1>1. desk[d] \in Places /\ main \in [People -> Codes] /\ extra \in [People -> Codes]
  BY DEF CodesInv, CodesTypeOK, Places
<1>2. p \in People /\ n \in Codes /\ desk[d].column \in {"main", "extra"}
  BY <1>1 DEF Places
<1>3. /\ known' = known \cup {p} /\ typed' = typed
      /\ desk[d].at = "picked"
      /\ \A q \in known \ {p} : Column(desk[d].column)[q] # n
  BY DEF Store, Fits
<1>4. CASE n \in typed
  <2>1. CASE desk[d].column = "main"
    <3>1. Register!Gives(main, main', p, n) /\ extra' = extra
      BY <1>3, <2>1 DEF Store, Column, Register!Gives
    <3>2. Register!WriteTyped(p, n)
      BY <1>3, <3>1 DEF Register!WriteTyped
    <3> QED BY <1>2, <1>4, <3>2 DEF Register!Next
  <2>2. CASE desk[d].column = "extra"
    <3>1. Register!Gives(extra, extra', p, n) /\ main' = main
      BY <1>3, <2>2 DEF Store, Column, Register!Gives
    <3>2. Register!WriteTyped(p, n)
      BY <1>3, <3>1 DEF Register!WriteTyped
    <3> QED BY <1>2, <1>4, <3>2 DEF Register!Next
  <2> QED BY <1>2, <2>1, <2>2
<1>5. CASE n \notin typed
  <2>1. Register!IsNext(n) /\ desk[d].column = "extra"
    BY <1>3, <1>5 DEF PickedIsNext
  <2>2. extra' = [extra EXCEPT ![p] = n] /\ main' = main
    BY <2>1 DEF Store
  <2>3. extra'[p] = n
    BY <1>1, <1>2, <2>2
  <2>4. Register!Gives(extra, extra', p, n)
    BY <1>3, <2>1, <2>2 DEF Column, Register!Gives
  <2>5. Register!Generate(p)
    BY <1>3, <2>1, <2>2, <2>3, <2>4 DEF Register!Generate
  <2> QED BY <1>2, <2>5 DEF Register!Next
<1> QED BY <1>4, <1>5

\* Every step is a step of the register, or none.
LEMMA StepRegisters ==
    ASSUME CodesInv, PickedIsNext, [CodesNext]_codeVars PROVE [Register!Next]_(Register!register)
<1>1. ASSUME UNCHANGED <<known, main, extra, typed>> PROVE [Register!Next]_(Register!register)
  BY <1>1 DEF Register!register
<1>2. ASSUME NEW d \in Desks, NEW p \in People, NEW n \in Typed, TypeCode(d, p, n)
      PROVE  Register!Next
  BY <1>2 DEF TypeCode, Register!Next, Register!Type
<1>3. ASSUME NEW p \in People, DeleteClient(p) PROVE Register!Next
  <2>1. Register!Remove(p)
    BY <1>3 DEF DeleteClient, Register!Remove
  <2> QED BY <2>1 DEF Register!Next
<1>4. ASSUME NEW d \in Desks, LockTable(d) \/ Pick(d) \/ Conflict(d) \/ Abort(d)
      PROVE  UNCHANGED <<known, main, extra, typed>>
  BY <1>4 DEF LockTable, Pick, Conflict, Abort
<1>5. ASSUME NEW d \in Desks, NEW does \in {"approve", "login", "create"}, NEW p \in People,
             AskCode(d, does, p)
      PROVE  UNCHANGED <<known, main, extra, typed>>
  BY <1>5 DEF AskCode
<1>6. CASE UNCHANGED codeVars
  BY <1>1, <1>6 DEF codeVars
<1>7. CASE CodesNext
  BY <1>1, <1>2, <1>3, <1>4, <1>5, <1>7, StoreRegisters DEF CodesNext
<1> QED BY <1>6, <1>7

\* The sessions, which lock, look, pick and write one after the other, are the
\* register, whose clients get the number that is next in one step.
THEOREM ImplementsRegister == CodesSpec => IsCodeRegister
<1>1. CodesInv /\ PickedIsNext /\ CodesInv' /\ [CodesNext]_codeVars
        => PickedIsNext' /\ [Register!Next]_(Register!register)
  BY PickedStaysNext, StepRegisters
<1>2. CodesSpec => Register!Init /\ PickedIsNext
  BY RegisterStart DEF CodesSpec
<1>3. CodesSpec => [][CodesNext]_codeVars
  BY DEF CodesSpec
<1> QED BY <1>1, <1>2, <1>3, CodesInductive, PTL DEF IsCodeRegister, Register!Spec
===============================================================================
