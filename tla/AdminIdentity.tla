----------------------------- MODULE AdminIdentity -----------------------------
(***************************************************************************)
(* What a request to the admin panel takes its admin for.  The account is  *)
(* in the database; Redis keeps a copy of its role and whether it is       *)
(* active, which whoever changes the account clears after the commit.  A   *)
(* request that has read the account before a change may store its copy    *)
(* after the clearing; so a copy is stamped with a counter as it was       *)
(* before the account was read, and the clearing advances the counter.     *)
(*                                                                         *)
(* One account, the states of which are numbered by their commits.         *)
(***************************************************************************)
EXTENDS Naturals

CONSTANTS
    Checks,         \* requests being authorised, again and again
    Editors         \* requests that change the account, one change each

VARIABLES
    account,        \* its state
    copy,           \* the state in Redis (0: no copy) and its stamp
    version,        \* the counter, 0 if there is none
    check,          \* checks: where, the state and the counter they know
    edit,           \* editors: "idle", "committed", "done"
    cleared,        \* history: state of the account at the last clearing
    outlived        \* history: the counter expired during a lookup

identityVars == <<account, copy, version, check, edit, cleared, outlived>>

NoCopy == [state |-> 0, stamp |-> 0]
Lookup(l, x, v, n) == [at |-> l, state |-> x, stamp |-> v, since |-> n]
NoCheck == Lookup("idle", 0, 0, 0)

IdentityTypeOK ==
    /\ account \in Nat \ {0} /\ version \in Nat
    /\ copy \in [state : 0..account, stamp : Nat]
    /\ check \in [Checks -> [at : {"idle", "missed", "read", "known"}, state : 0..account,
                             stamp : Nat, since : 0..account]]
    /\ edit \in [Editors -> {"idle", "committed", "done"}]
    /\ cleared \in 0..account /\ outlived \in BOOLEAN

IdentityInit ==
    /\ account = 1 /\ copy = NoCopy /\ version = 0
    /\ check = [c \in Checks |-> NoCheck]
    /\ edit = [e \in Editors |-> "idle"]
    /\ cleared = 0 /\ outlived = FALSE

Goes(c, r) == check' = [check EXCEPT ![c] = r]
LookingUp == {c \in Checks : check[c].at \in {"missed", "read"}}

-----------------------------------------------------------------------------
\* MGET of the copy and the counter: a copy with another stamp is none.
GetCopy(c) ==
    /\ check[c].at = "idle"
    /\ Goes(c, IF copy.state # 0 /\ copy.stamp = version
               THEN Lookup("known", copy.state, 0, cleared)
               ELSE Lookup("missed", 0, version, cleared))
    /\ UNCHANGED <<account, copy, version, edit, cleared, outlived>>

\* get_by_id_with_relations
ReadAccount(c) ==
    /\ check[c].at = "missed"
    /\ Goes(c, Lookup("read", account, check[c].stamp, check[c].since))
    /\ UNCHANGED <<account, copy, version, edit, cleared, outlived>>

\* Mutant: the stamp is what the counter says by now.
StampNow(c) == IF check[c].stamp = version THEN check[c].stamp ELSE version

Stamp(c) == check[c].stamp

StoreCopy(c) ==
    /\ check[c].at = "read"
    /\ copy' = [state |-> check[c].state, stamp |-> Stamp(c)]
    /\ Goes(c, Lookup("known", check[c].state, 0, check[c].since))
    /\ UNCHANGED <<account, version, edit, cleared, outlived>>

\* The request goes on with what it knows; or it has failed.
EndCheck(c) ==
    /\ check[c].at # "idle"
    /\ Goes(c, NoCheck)
    /\ UNCHANGED <<account, copy, version, edit, cleared, outlived>>

-----------------------------------------------------------------------------
\* update_admin_status, update_admin_account, delete_admin_account,
\* update_role (another name), fire_admin: the commit.
CommitChange(e) ==
    /\ edit[e] = "idle"
    /\ account' = account + 1
    /\ edit' = [edit EXCEPT ![e] = "committed"]
    /\ UNCHANGED <<copy, version, check, cleared, outlived>>

\* AdminIdentityService.invalidate: INCR and DEL in one transaction.
Invalidate(e) ==
    /\ edit[e] = "committed"
    /\ version' = version + 1 /\ copy' = NoCopy
    /\ cleared' = account
    /\ edit' = [edit EXCEPT ![e] = "done"]
    /\ UNCHANGED <<account, check, outlived>>

\* Redis fails, which is logged; or the request ends before it is asked.
InvalidateFails(e) ==
    /\ edit[e] = "committed"
    /\ edit' = [edit EXCEPT ![e] = "done"]
    /\ UNCHANGED <<account, copy, version, check, cleared, outlived>>

\* IDENTITY_TTL
ExpireCopy ==
    /\ copy # NoCopy /\ copy' = NoCopy
    /\ outlived' = (outlived /\ \E c \in Checks : check[c].at # "idle")
    /\ UNCHANGED <<account, version, check, edit, cleared>>

\* IDENTITY_VERSION_TTL after the last clearing: copies and lookups with an
\* earlier stamp are gone by then.
ExpireVersion ==
    /\ version # 0 /\ version' = 0
    /\ copy = NoCopy \/ copy.stamp = version
    /\ \A c \in LookingUp : check[c].stamp = version
    /\ outlived' = (outlived \/ LookingUp # {})
    /\ UNCHANGED <<account, copy, check, edit, cleared>>

IdentityNext ==
    \/ \E c \in Checks : GetCopy(c) \/ ReadAccount(c) \/ StoreCopy(c) \/ EndCheck(c)
    \/ \E e \in Editors : CommitChange(e) \/ Invalidate(e) \/ InvalidateFails(e)
    \/ ExpireCopy \/ ExpireVersion

IdentitySpec == IdentityInit /\ [][IdentityNext]_identityVars

-----------------------------------------------------------------------------
\* A request that begins after a change has been cleared takes the account for
\* what it is since that change, whatever older request stores its copy in
\* between; unless the counter has expired under a lookup.
IdentityFresh ==
    \A c \in Checks : check[c].at = "known" => check[c].state >= check[c].since \/ outlived
===============================================================================
