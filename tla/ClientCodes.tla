------------------------------ MODULE ClientCodes ------------------------------
(***************************************************************************)
(* Codes of clients, one region's.  A client's cargo, debts and wallet are *)
(* found by his code, so two clients must not have the same.  The column   *)
(* client_code (old codes) and the column extra_code are each unique in    *)
(* the database, and the two together only by the care of the code: the    *)
(* generator locks the table, looks at both columns and picks a number     *)
(* that follows a taken one; codes typed by staff are looked up and then   *)
(* written.                                                                *)
(***************************************************************************)
EXTENDS Naturals, FiniteSets

CONSTANTS
    People,         \* clients there are or may be
    OldCodes,       \* what client_code holds of each at the start, 0 for none
    Typed,          \* codes that staff may type
    Desks,          \* sessions of the database that write codes, one each
    MaxCode         \* bound on the numbers

ASSUME CodesAssumption ==
    /\ People # {} /\ MaxCode \in Nat
    /\ OldCodes \in [People -> 0..MaxCode] /\ Typed \subseteq 1..MaxCode
    /\ \A p, q \in People : OldCodes[p] = OldCodes[q] /\ OldCodes[p] # 0 => p = q

VARIABLES
    known,          \* clients in the table
    main, extra,    \* client_code and extra_code, 0 for NULL
    lock,           \* desks that hold the lock of the table
    desk,           \* sessions: where, what for, for whom, and the code picked
    typed           \* history: numbers that staff typed

codeVars == <<known, main, extra, lock, desk, typed>>

Codes == 0..MaxCode
Session(l, does, p, c, n) == [at |-> l, does |-> does, who |-> p, column |-> c, code |-> n]
NoDesk == Session("idle", "none", CHOOSE p \in People : TRUE, "extra", 0)

CodesTypeOK ==
    /\ known \subseteq People /\ lock \subseteq Desks
    /\ main \in [People -> Codes] /\ extra \in [People -> Codes]
    /\ desk \in [Desks -> [at : {"idle", "waiting", "locked", "picked", "done", "refused"},
                           does : {"none", "approve", "login", "create", "type"},
                           who : People, column : {"main", "extra"}, code : Codes]]
    /\ typed \subseteq Codes

CodesInit ==
    /\ known \in SUBSET People /\ main = [p \in People |-> IF p \in known THEN OldCodes[p] ELSE 0]
    /\ {p \in People : OldCodes[p] # 0} \subseteq known
    /\ extra = [p \in People |-> 0]
    /\ lock = {} /\ desk = [d \in Desks |-> NoDesk] /\ typed = {}

-----------------------------------------------------------------------------
CodesOf(p) == {main[p], extra[p]} \ {0}
\* Mutant: only the extra codes are looked at.
TakenExtra == {extra[p] : p \in known} \ {0}

Taken == UNION {CodesOf(p) : p \in known}

\* The smallest number that follows a taken one and is free; 1 if none is
\* taken.
NextCode ==
    LET free == {n + 1 : n \in Taken} \ Taken
    IN  IF Taken = {} THEN 1 ELSE CHOOSE n \in free : \A m \in free : n <= m

Others(d) == lock \ {d} # {}

\* A code to be generated: approve_client (asked or not before), login of a
\* client without extra_code, create_client for a new one.
AskCode(d, does, p) ==
    /\ desk[d].at = "idle"
    /\ CASE does = "approve" -> p \in known
         [] does = "login" -> p \in known /\ extra[p] = 0
         [] does = "create" -> p \notin known
    /\ desk' = [desk EXCEPT ![d] = Session("waiting", does, p, "extra", 0)]
    /\ UNCHANGED <<known, main, extra, lock, typed>>

\* Mutant: the table is not locked.
LockTableOpen(d) ==
    /\ desk[d].at = "waiting"
    /\ lock' = lock
    /\ desk' = [desk EXCEPT ![d].at = "locked"]
    /\ UNCHANGED <<known, main, extra, typed>>

\* LOCK TABLE clients IN SHARE ROW EXCLUSIVE MODE, kept until the end.
LockTable(d) ==
    /\ desk[d].at = "waiting" /\ ~Others(d)
    /\ lock' = lock \cup {d}
    /\ desk' = [desk EXCEPT ![d].at = "locked"]
    /\ UNCHANGED <<known, main, extra, typed>>

Pick(d) ==
    /\ desk[d].at = "locked" /\ NextCode <= MaxCode
    /\ desk' = [desk EXCEPT ![d] = Session("picked", @.does, @.who, "extra", NextCode)]
    /\ UNCHANGED <<known, main, extra, lock, typed>>

\* get_by_client_code: holders of the extra code come before those of the
\* client code.
Found(n) ==
    LET byExtra == {p \in known : extra[p] = n}
    IN  IF byExtra # {} THEN byExtra ELSE {p \in known : main[p] = n}

\* A code typed for a client (extra_code if he had one then), or for a new
\* one: the lookup finds nobody else.
TypeCode(d, p, n) ==
    /\ desk[d].at = "idle" /\ n \in Typed
    /\ Found(n) \subseteq {p} \cap known
    /\ desk' = [desk EXCEPT ![d] = Session("picked", IF p \in known THEN "type" ELSE "create", p,
                                        IF p \in known /\ extra[p] = 0 THEN "main" ELSE "extra", n)]
    /\ typed' = typed \cup {n}
    /\ UNCHANGED <<known, main, extra, lock>>

-----------------------------------------------------------------------------
Column(c) == IF c = "main" THEN main ELSE extra

\* The unique index of the column, and whether the row is (still, not yet)
\* there.
Fits(e) ==
    /\ \A q \in known \ {e.who} : Column(e.column)[q] # e.code
    /\ (e.does = "create") <=> e.who \notin known

End(d, l) ==
    /\ lock' = lock \ {d}
    /\ desk' = [desk EXCEPT ![d].at = l]

\* Writes wait for the lock of another session.
Store(d) ==
    LET e == desk[d]
    IN  /\ e.at = "picked" /\ ~Others(d) /\ Fits(e)
        /\ known' = known \cup {e.who}
        /\ main' = IF e.column = "main" THEN [main EXCEPT ![e.who] = e.code] ELSE main
        /\ extra' = IF e.column = "extra" THEN [extra EXCEPT ![e.who] = e.code] ELSE extra
        /\ End(d, "done")
        /\ UNCHANGED typed

Conflict(d) ==
    /\ desk[d].at = "picked" /\ ~Others(d) /\ ~Fits(desk[d])
    /\ End(d, "refused")
    /\ UNCHANGED <<known, main, extra, typed>>

\* Anything else goes wrong: the upload of a passport, the connection.
Abort(d) ==
    /\ desk[d].at \in {"waiting", "locked", "picked"}
    /\ End(d, "done")
    /\ UNCHANGED <<known, main, extra, typed>>

\* Mutant: the deletion of a client does not wait for the lock.
DeleteClientOpen(p) ==
    /\ p \in known
    /\ known' = known \ {p}
    /\ main' = [main EXCEPT ![p] = 0] /\ extra' = [extra EXCEPT ![p] = 0]
    /\ UNCHANGED <<lock, desk, typed>>

\* A rejected registration, or a client deleted by staff: his codes are free.
DeleteClient(p) ==
    /\ p \in known /\ lock = {}
    /\ known' = known \ {p}
    /\ main' = [main EXCEPT ![p] = 0] /\ extra' = [extra EXCEPT ![p] = 0]
    /\ UNCHANGED <<lock, desk, typed>>

CodesNext ==
    \/ \E d \in Desks : \/ \E p \in People, does \in {"approve", "login", "create"} : AskCode(d, does, p)
                        \/ \E p \in People, n \in Typed : TypeCode(d, p, n)
                        \/ LockTable(d) \/ Pick(d) \/ Store(d) \/ Conflict(d) \/ Abort(d)
    \/ \E p \in People : DeleteClient(p)

CodesSpec == CodesInit /\ [][CodesNext]_codeVars

-----------------------------------------------------------------------------
\* Two clients share a code only if somebody typed it.
GeneratedIsDistinct ==
    \A p, q \in known : p # q => CodesOf(p) \cap CodesOf(q) \subseteq typed

\* Nobody else gets hold of a generated number between the moment it is picked
\* and the moment it is written, whatever other sessions write meanwhile.
GeneratedIsFree ==
    \A d \in Desks : desk[d].at = "picked" /\ desk[d].code \notin typed =>
        \A q \in known \ {desk[d].who} : desk[d].code \notin CodesOf(q)

\* A generated code is the next one when it is written, not only when it was
\* picked: lock, look, pick and store together are one step of the register,
\* whatever the other sessions do between them.
Register == INSTANCE CodeRegister
IsCodeRegister == Register!Spec
===============================================================================
