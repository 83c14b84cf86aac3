----------------------------- MODULE DeliveryProofs -----------------------------
(***************************************************************************)
(* The warehouse hands cargo out: it photographs the hand-over, stores the *)
(* photos in S3 and then writes a proof for each row and the taken flag.   *)
(* What it writes rests on what it read before the photos went up.         *)
(* Meanwhile other desks set the flag without a proof, and POS takes it    *)
(* back, with the proofs and, after its commit, their photos.              *)
(***************************************************************************)
EXTENDS Naturals, FiniteSets

CONSTANTS
    Rows,           \* transactions of one client
    Marks,          \* requests of the warehouse
    Fresh           \* those that may be for a cargo, whose row they name

ASSUME ProofsAssumption ==
    /\ Fresh \subseteq Marks /\ Rows \cap Marks = {}
    /\ IsFiniteSet(Rows) /\ IsFiniteSet(Marks)

VARIABLES
    present,        \* rows there are
    taken,          \* is_taken_away
    proofs,         \* cargo_delivery_proofs: row, and the request it is from
    photos,         \* keys in S3
    cleaning,       \* keys that POS is about to delete
    mark,           \* requests: where, the rows, whether one is created, flags read
    together,       \* history: requests for a row underway at the same time
    raced,          \* history: <<row, request>>, the flag taken back meanwhile
    reverted        \* history: requests one of whose proofs POS has deleted

proofVars == <<present, taken, proofs, photos, cleaning, mark, together, raced, reverted>>

AllRows == Rows \cup Fresh
Without(l) == [at |-> l, rows |-> {}, fresh |-> FALSE, seen |-> {}]
NoMark == Without("idle")

ProofsTypeOK ==
    /\ present \subseteq AllRows /\ taken \subseteq present
    /\ proofs \subseteq [row : present, by : Marks]
    /\ photos \subseteq Marks /\ cleaning \subseteq Marks
    /\ mark \in [Marks -> [at : {"idle", "uploading", "done"}, rows : SUBSET AllRows,
                           fresh : BOOLEAN, seen : SUBSET AllRows]]
    /\ together \subseteq Marks \X Marks /\ raced \subseteq AllRows \X Marks
    /\ reverted \subseteq Marks

ProofsInit ==
    /\ present = Rows /\ taken = {} /\ proofs = {} /\ photos = {} /\ cleaning = {}
    /\ mark = [m \in Marks |-> NoMark]
    /\ together = {} /\ raced = {} /\ reverted = {}

-----------------------------------------------------------------------------
\* Mutant: the photos are stored under the row they show.
KeyOfRow(m) == CHOOSE r \in mark[m].rows : TRUE

\* Every upload gets a key of its own; a bulk request uploads once.
KeyOf(m) == m

\* exists_for_transaction, get_proven_transaction_ids
Proven(S) == {p \in proofs : p.row \in S}

Uploading(r) == {m \in Marks : mark[m].at = "uploading" /\ r \in mark[m].rows}

\* One row, or in bulk several: there, and none with a proof.
StartMark(m, S) ==
    /\ mark[m].at = "idle" /\ S # {} /\ S \subseteq present /\ Proven(S) = {}
    /\ mark' = [mark EXCEPT ![m] = [at |-> "uploading", rows |-> S, fresh |-> FALSE,
                                    seen |-> S \cap taken]]
    /\ together' = together \cup {<<m, o>> : o \in UNION {Uploading(r) : r \in S}}
    /\ UNCHANGED <<present, taken, proofs, photos, cleaning, raced, reverted>>

\* A cargo by its negative number: a row is made for it, in the transaction
\* that marks it.
StartFresh(m) ==
    /\ mark[m].at = "idle" /\ m \in Fresh
    /\ mark' = [mark EXCEPT ![m] = [at |-> "uploading", rows |-> {m}, fresh |-> TRUE, seen |-> {}]]
    /\ UNCHANGED <<present, taken, proofs, photos, cleaning, together, raced, reverted>>

\* Mutant: a flag that was set is not written again, a flag that was not neither.
FlaggedNone(m) == {}

\* The rows whose flag the commit sets: those it has read as not taken.
Flagged(m) == mark[m].rows \ mark[m].seen

CommitMark(m) ==
    /\ mark[m].at = "uploading"
    /\ photos' = photos \cup {KeyOf(m)}
    /\ present' = present \cup mark[m].rows
    /\ proofs' = proofs \cup {[row |-> r, by |-> m] : r \in mark[m].rows}
    /\ taken' = taken \cup Flagged(m)
    /\ mark' = [mark EXCEPT ![m].at = "done"]
    /\ UNCHANGED <<cleaning, together, raced, reverted>>

\* A bad photo, S3 or the database.  Photos that are up stay, with no proof.
AbortMark(m) ==
    /\ mark[m].at = "uploading"
    /\ mark' = [mark EXCEPT ![m] = Without("done")]
    /\ UNCHANGED <<present, taken, proofs, photos, cleaning, together, raced, reverted>>

-----------------------------------------------------------------------------
\* A delivery request is approved, the taken button is pressed, a payment at
\* POS releases the cargo, or POS sets the flag.
Release(r) ==
    /\ r \in present \ taken
    /\ taken' = taken \cup {r}
    /\ UNCHANGED <<present, proofs, photos, cleaning, mark, together, raced, reverted>>

\* POS takes the flag back.
Revert(r) ==
    LET gone == Proven({r})
    IN  /\ r \in taken
        /\ taken' = taken \ {r}
        /\ proofs' = proofs \ gone
        /\ cleaning' = cleaning \cup {KeyOf(p.by) : p \in gone}
        /\ raced' = raced \cup {<<r, m>> : m \in Uploading(r)}
        /\ reverted' = reverted \cup {p.by : p \in gone}
        /\ UNCHANGED <<present, photos, mark, together>>

\* After the commit; S3 may fail, and a crash in between is the same.
CleanUp(k) ==
    /\ k \in cleaning
    /\ cleaning' = cleaning \ {k}
    /\ photos' \in {photos, photos \ {k}}
    /\ UNCHANGED <<present, taken, proofs, mark, together, raced, reverted>>

ProofsNext ==
    \/ \E m \in Marks : \/ \E S \in SUBSET AllRows : StartMark(m, S)
                        \/ StartFresh(m) \/ CommitMark(m) \/ AbortMark(m)
    \/ \E r \in AllRows : Release(r) \/ Revert(r)
    \/ \E k \in cleaning : CleanUp(k)

ProofsSpec == ProofsInit /\ [][ProofsNext]_proofVars

-----------------------------------------------------------------------------
\* "One proof per transaction is enough": a row has two only from requests that
\* were underway at the same time; and a row with a proof is taken, unless the
\* flag was taken back while the photos went up.
ProofsSound ==
    /\ \A p, q \in proofs : p.row = q.row /\ p.by # q.by =>
           {<<p.by, q.by>>, <<q.by, p.by>>} \cap together # {}
    /\ \A p \in proofs : p.row \in taken \/ <<p.row, p.by>> \in raced

\* The photos of a proof are there, unless they have been those of another row
\* as well, whose flag POS has taken back.
EvidenceKept ==
    \A p \in proofs :
        \/ KeyOf(p.by) \in photos
        \/ p.by \in reverted /\ Cardinality(mark[p.by].rows) > 1
===============================================================================
