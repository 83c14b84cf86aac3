----------------------------- MODULE CodeRegister -----------------------------
(***************************************************************************)
(* What the codes of clients promise, however many sessions generate, type *)
(* and write them at once.  A client gets a code in one step: in the extra *)
(* column the number that is next when it is written, not when some        *)
(* session looked, or in either column a number that staff typed and that  *)
(* nobody else has in that column.                                         *)
(***************************************************************************)
EXTENDS Naturals

CONSTANTS People

VARIABLES
    known,          \* clients in the table
    main, extra,    \* their codes in the two columns, 0 for none
    typed           \* numbers that staff have typed so far

register == <<known, main, extra, typed>>

Taken == UNION {{main[p], extra[p]} \ {0} : p \in known}

\* Numbers that follow a taken one and are free.
Following == {n + 1 : n \in Taken} \ Taken

IsNext(n) ==
    IF Taken = {} THEN n = 1 ELSE n \in Following /\ \A m \in Following : n <= m

Init ==
    /\ known \subseteq People
    /\ \A p, q \in known : main[p] = main[q] /\ main[p] # 0 => p = q
    /\ \A p \in People : extra[p] = 0 /\ (p \notin known => main[p] = 0)
    /\ typed = {}

Type ==
    /\ typed \subseteq typed'
    /\ UNCHANGED <<known, main, extra>>

\* c becomes c2: p has the number n there, which nobody else has.
Gives(c, c2, p, n) ==
    /\ c2 = [c EXCEPT ![p] = n]
    /\ \A q \in known \ {p} : c[q] # n

Generate(p) ==
    /\ known' = known \cup {p}
    /\ IsNext(extra'[p]) /\ Gives(extra, extra', p, extra'[p])
    /\ UNCHANGED <<main, typed>>

WriteTyped(p, n) ==
    /\ known' = known \cup {p}
    /\ \/ Gives(main, main', p, n) /\ extra' = extra
       \/ Gives(extra, extra', p, n) /\ main' = main
    /\ UNCHANGED typed

Remove(p) ==
    /\ known' = known \ {p}
    /\ main' = [main EXCEPT ![p] = 0] /\ extra' = [extra EXCEPT ![p] = 0]
    /\ UNCHANGED typed

Next ==
    \/ Type
    \/ \E p \in People : \/ Generate(p)
                         \/ \E n \in typed : WriteTyped(p, n)
                         \/ Remove(p)

Spec == Init /\ [][Next]_register
===============================================================================
