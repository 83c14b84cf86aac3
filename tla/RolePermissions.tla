---------------------------- MODULE RolePermissions ----------------------------
(***************************************************************************)
(* The permissions of a role, and their copy in Redis under the name of    *)
(* the role.  Whoever changes them clears the copy after the commit; the   *)
(* copy has no stamp, and SADD adds to what is there.                      *)
(*                                                                         *)
(* One name, under which there may be a role or none; what there is under  *)
(* it is numbered by the commits.                                          *)
(***************************************************************************)
EXTENDS Naturals, Sequences

CONSTANTS
    Askers,         \* requests that need a permission, again and again
    Changers        \* requests that change the role, one change each

VARIABLES
    grants,         \* in each state: whether there is a role with permissions
    set,            \* the states whose permissions are in the copy
    ask,            \* askers: where, and the states whose permissions they have
    change,         \* changers: "idle", "committed", "done"
    flushed,        \* history: state at the last clearing
    crossed         \* history: a clearing during a lookup

permissionVars == <<grants, set, ask, change, flushed, crossed>>

State == Len(grants)
NoAsk == [at |-> "idle", perms |-> {}, since |-> 0]

PermissionsTypeOK ==
    /\ grants \in Seq(BOOLEAN) /\ State > 0
    /\ set \subseteq 1..State /\ flushed \in 0..State /\ crossed \in BOOLEAN
    /\ ask \in [Askers -> [at : {"idle", "missed", "read", "known"}, perms : SUBSET (1..State),
                           since : 0..State]]
    /\ change \in [Changers -> {"idle", "committed", "done"}]

PermissionsInit ==
    /\ grants \in {<<TRUE>>, <<FALSE>>} /\ set = {}
    /\ ask = [q \in Askers |-> NoAsk]
    /\ change = [w \in Changers |-> "idle"]
    /\ flushed = 0 /\ crossed = FALSE

Asks(q, r) == ask' = [ask EXCEPT ![q] = r]
Asking == \E q \in Askers : ask[q].at # "idle"
Busy == \E q \in Askers : ask[q].at \in {"missed", "read"}

-----------------------------------------------------------------------------
\* SMEMBERS: an empty set is no copy.
GetSet(q) ==
    /\ ask[q].at = "idle"
    /\ Asks(q, [at |-> IF set = {} THEN "missed" ELSE "known", perms |-> set, since |-> flushed])
    /\ UNCHANGED <<grants, set, change, flushed, crossed>>

\* No role, or one without permissions, leaves no copy.
ReadRole(q) ==
    /\ ask[q].at = "missed"
    /\ Asks(q, [at |-> IF grants[State] THEN "read" ELSE "known", perms |-> {State},
                since |-> ask[q].since])
    /\ UNCHANGED <<grants, set, change, flushed, crossed>>

\* SADD and EXPIRE in one transaction.
AddToSet(q) ==
    /\ ask[q].at = "read"
    /\ set' = set \cup ask[q].perms
    /\ Asks(q, [ask[q] EXCEPT !.at = "known"])
    /\ UNCHANGED <<grants, change, flushed, crossed>>

EndAsk(q) ==
    /\ ask[q].at # "idle"
    /\ Asks(q, NoAsk)
    /\ UNCHANGED <<grants, set, change, flushed, crossed>>

-----------------------------------------------------------------------------
\* update_role_permissions, delete_role, update_role (this name or another):
\* the commit.
CommitRole(w, some) ==
    /\ change[w] = "idle"
    /\ grants' = Append(grants, some)
    /\ change' = [change EXCEPT ![w] = "committed"]
    /\ UNCHANGED <<set, ask, flushed, crossed>>

\* Mutant: the copy is left to expire.
LeftToExpire == set

Left == {}

\* RBACService.invalidate_role
InvalidateRole(w) ==
    /\ change[w] = "committed"
    /\ set' = Left
    /\ flushed' = State
    /\ change' = [change EXCEPT ![w] = "done"]
    /\ crossed' = (Busy \/ (crossed /\ Asking))
    /\ UNCHANGED <<grants, ask>>

\* Redis fails, which is logged; or the request ends before it is asked.
InvalidateRoleFails(w) ==
    /\ change[w] = "committed"
    /\ change' = [change EXCEPT ![w] = "done"]
    /\ UNCHANGED <<grants, set, ask, flushed, crossed>>

\* PERMISSIONS_TTL
ExpireSet ==
    /\ set # {} /\ set' = {}
    /\ crossed' = (crossed /\ Asking)
    /\ UNCHANGED <<grants, ask, change, flushed>>

PermissionsNext ==
    \/ \E q \in Askers : GetSet(q) \/ ReadRole(q) \/ AddToSet(q) \/ EndAsk(q)
    \/ \E w \in Changers : \/ \E some \in BOOLEAN : CommitRole(w, some)
                           \/ InvalidateRole(w) \/ InvalidateRoleFails(w)
    \/ ExpireSet

PermissionsSpec == PermissionsInit /\ [][PermissionsNext]_permissionVars

-----------------------------------------------------------------------------
\* A request that begins after a change has been cleared has the permissions of
\* no earlier state, unless a lookup was underway at the clearing: what it adds
\* lives until the set expires or is cleared again.
PermissionsFresh ==
    \A q \in Askers : ask[q].at = "known" =>
        crossed \/ \A s \in ask[q].perms : s >= ask[q].since
===============================================================================
