---------------------------- MODULE ServicesProofs ----------------------------
(***************************************************************************)
(* Proofs about the services that share no state: the copies of admin      *)
(* accounts and of role permissions in Redis, the proofs of hand-over of   *)
(* the warehouse, announcements, reminders and the log handler.  For every *)
(* number of requests, editors, rows, recipients and records.              *)
(***************************************************************************)
EXTENDS AdminIdentity, RolePermissions, DeliveryProofs, Broadcast, Reminders, TelegramLog,
    FiniteSetTheorems, FunctionTheorems, TLAPS

------------------------------------------------------------------------------
(* The copy of an admin account.  While no counter has expired under a lookup, *)
(* the stamp of a lookup is at most the counter, and whoever has the counter's *)
(* value has seen the account as it was at the last clearing or later.         *)

StampsOrdered ==
    ~outlived => /\ \A c \in LookingUp : check[c].stamp <= version
                 /\ \A c \in LookingUp : check[c].at = "read" /\ check[c].stamp = version =>
                                             check[c].state >= cleared
                 /\ copy.state # 0 /\ copy.stamp = version => copy.state >= cleared

SinceCleared == \A c \in Checks :
    /\ check[c].since <= cleared
    /\ check[c].at = "read" => check[c].state >= check[c].since

IdentityInv == IdentityTypeOK /\ StampsOrdered /\ SinceCleared /\ IdentityFresh

\* It holds at the start.
LEMMA IdentityStart == IdentityInit => IdentityInv
<1> SUFFICES ASSUME IdentityInit PROVE IdentityInv
  OBVIOUS
<1>1. \A c \in Checks : check[c] = NoCheck
  BY DEF IdentityInit
<1>2. IdentityTypeOK
  <2>1. NoCheck \in [at : {"idle", "missed", "read", "known"}, state : 0..account, stamp : Nat,
                     since : 0..account]
    BY DEF IdentityInit, NoCheck, Lookup
  <2>2. copy \in [state : 0..account, stamp : Nat]
    BY DEF IdentityInit, NoCopy
  <2>3. check \in [Checks -> [at : {"idle", "missed", "read", "known"}, state : 0..account,
                              stamp : Nat, since : 0..account]]
    BY <2>1 DEF IdentityInit
  <2>4. account \in Nat \ {0} /\ version \in Nat /\ cleared \in 0..account
    BY DEF IdentityInit
  <2>5. outlived \in BOOLEAN /\ edit \in [Editors -> {"idle", "committed", "done"}]
    BY DEF IdentityInit
  <2> QED BY <2>2, <2>3, <2>4, <2>5 DEF IdentityTypeOK
<1>3. StampsOrdered /\ SinceCleared /\ IdentityFresh
  BY <1>1 DEF IdentityInit, StampsOrdered, SinceCleared, IdentityFresh, NoCopy, NoCheck, Lookup, LookingUp
<1> QED BY <1>2, <1>3 DEF IdentityInv

\* What a step of one request leaves of the others.
LEMMA GoesOK ==
    ASSUME IdentityTypeOK, NEW c \in Checks, NEW r, Goes(c, r)
    PROVE  \A d \in Checks : check'[d] = IF d = c THEN r ELSE check[d]
BY DEF Goes, IdentityTypeOK

\* A step of a request keeps it.
LEMMA CheckStep ==
    ASSUME IdentityInv, NEW c \in Checks, GetCopy(c) \/ ReadAccount(c) \/ StoreCopy(c) \/ EndCheck(c)
    PROVE  IdentityInv'
<1> USE DEF IdentityInv
<1> DEFINE CheckType == [at : {"idle", "missed", "read", "known"}, state : 0..account,
                         stamp : Nat, since : 0..account]
<1>0. /\ account \in Nat \ {0} /\ version \in Nat /\ cleared \in 0..account
      /\ copy.state \in 0..account /\ copy.stamp \in Nat
      /\ \A d \in Checks : check[d] \in CheckType
  BY DEF IdentityTypeOK
<1>1. CASE GetCopy(c)
  <2>1. UNCHANGED <<account, copy, version, edit, cleared, outlived>> /\ check[c].at = "idle"
    BY <1>1 DEF GetCopy
  <2>2. CASE copy.state # 0 /\ copy.stamp = version
    <3> DEFINE r == [at |-> "known", state |-> copy.state, stamp |-> 0, since |-> cleared]
    <3>1. Goes(c, r)
      BY <1>1, <2>2 DEF GetCopy, Lookup
    <3>2. \A d \in Checks : check'[d] = IF d = c THEN r ELSE check[d]
      BY <3>1, GoesOK
    <3>3. IdentityTypeOK'
      BY <1>0, <2>1, <3>1 DEF IdentityTypeOK, Goes
    <3>4. StampsOrdered'
      BY <2>1, <3>2 DEF StampsOrdered, LookingUp
    <3>5. SinceCleared'
      BY <1>0, <2>1, <3>2 DEF SinceCleared
    <3>6. IdentityFresh'
      BY <2>1, <2>2, <3>2 DEF IdentityFresh, StampsOrdered
    <3> QED BY <3>3, <3>4, <3>5, <3>6
  <2>3. CASE ~(copy.state # 0 /\ copy.stamp = version)
    <3> DEFINE r == [at |-> "missed", state |-> 0, stamp |-> version, since |-> cleared]
    <3>1. Goes(c, r)
      BY <1>1, <2>3 DEF GetCopy, Lookup
    <3>2. \A d \in Checks : check'[d] = IF d = c THEN r ELSE check[d]
      BY <3>1, GoesOK
    <3>3. IdentityTypeOK'
      BY <1>0, <2>1, <3>1 DEF IdentityTypeOK, Goes
    <3>4. StampsOrdered'
      BY <1>0, <2>1, <3>2 DEF StampsOrdered, LookingUp
    <3>5. SinceCleared'
      BY <1>0, <2>1, <3>2 DEF SinceCleared
    <3>6. IdentityFresh'
      BY <2>1, <3>2 DEF IdentityFresh
    <3> QED BY <3>3, <3>4, <3>5, <3>6
  <2> QED BY <2>2, <2>3
<1>2. CASE ReadAccount(c)
  <2>1. UNCHANGED <<account, copy, version, edit, cleared, outlived>> /\ check[c].at = "missed"
    BY <1>2 DEF ReadAccount
  <2> DEFINE r == [at |-> "read", state |-> account, stamp |-> check[c].stamp, since |-> check[c].since]
  <2>2. Goes(c, r)
    BY <1>2 DEF ReadAccount, Lookup
  <2>3. \A d \in Checks : check'[d] = IF d = c THEN r ELSE check[d]
    BY <2>2, GoesOK
  <2>4. IdentityTypeOK'
    BY <1>0, <2>1, <2>2 DEF IdentityTypeOK, Goes
  <2>5. StampsOrdered'
    BY <1>0, <2>1, <2>3 DEF StampsOrdered, LookingUp
  <2>6. SinceCleared'
    BY <1>0, <2>1, <2>3 DEF SinceCleared
  <2>7. IdentityFresh'
    BY <2>1, <2>3 DEF IdentityFresh
  <2> QED BY <2>4, <2>5, <2>6, <2>7
<1>3. CASE StoreCopy(c)
  <2>1. UNCHANGED <<account, version, edit, cleared, outlived>> /\ check[c].at = "read"
        /\ copy' = [state |-> check[c].state, stamp |-> check[c].stamp]
    BY <1>3 DEF StoreCopy, Stamp
  <2> DEFINE r == [at |-> "known", state |-> check[c].state, stamp |-> 0, since |-> check[c].since]
  <2>2. Goes(c, r)
    BY <1>3 DEF StoreCopy, Lookup
  <2>3. \A d \in Checks : check'[d] = IF d = c THEN r ELSE check[d]
    BY <2>2, GoesOK
  <2>4. IdentityTypeOK'
    BY <1>0, <2>1, <2>2 DEF IdentityTypeOK, Goes
  <2>5. StampsOrdered'
    BY <1>0, <2>1, <2>3 DEF StampsOrdered, LookingUp
  <2>6. SinceCleared'
    BY <1>0, <2>1, <2>3 DEF SinceCleared
  <2>7. IdentityFresh'
    BY <2>1, <2>3 DEF IdentityFresh, SinceCleared
  <2> QED BY <2>4, <2>5, <2>6, <2>7
<1>4. CASE EndCheck(c)
  <2>1. UNCHANGED <<account, copy, version, edit, cleared, outlived>> /\ Goes(c, NoCheck)
    BY <1>4 DEF EndCheck
  <2>2. \A d \in Checks : check'[d] = IF d = c THEN NoCheck ELSE check[d]
    BY <2>1, GoesOK
  <2>3. IdentityTypeOK'
    BY <1>0, <2>1 DEF IdentityTypeOK, Goes, NoCheck, Lookup
  <2>4. StampsOrdered'
    BY <2>1, <2>2 DEF StampsOrdered, LookingUp, NoCheck, Lookup
  <2>5. SinceCleared' /\ IdentityFresh'
    BY <1>0, <2>1, <2>2 DEF SinceCleared, IdentityFresh, NoCheck, Lookup
  <2> QED BY <2>3, <2>4, <2>5
<1> QED BY <1>1, <1>2, <1>3, <1>4

\* So does a change of the account, a clearing, and what expires.
LEMMA AccountStep ==
    ASSUME IdentityInv, (\E e \in Editors : CommitChange(e) \/ Invalidate(e) \/ InvalidateFails(e))
                        \/ ExpireCopy \/ ExpireVersion
    PROVE  IdentityInv'
<1> USE DEF IdentityInv
<1>0. /\ account \in Nat \ {0} /\ version \in Nat /\ cleared \in 0..account
      /\ copy.state \in 0..account /\ copy.stamp \in Nat
      /\ \A d \in Checks : check[d].stamp \in Nat /\ check[d].since \in 0..account
  BY DEF IdentityTypeOK
<1>1. ASSUME NEW e \in Editors, CommitChange(e) PROVE IdentityInv'
  <2>1. account' = account + 1 /\ UNCHANGED <<copy, version, check, cleared, outlived>>
    BY <1>1 DEF CommitChange
  <2>2. 0..account \subseteq 0..account' /\ account' \in Nat \ {0}
    BY <1>0, <2>1
  <2>3. IdentityTypeOK'
    BY <1>1, <2>1, <2>2 DEF IdentityTypeOK, CommitChange
  <2> QED BY <2>1, <2>3 DEF StampsOrdered, SinceCleared, IdentityFresh, LookingUp
<1>2. ASSUME NEW e \in Editors, Invalidate(e) PROVE IdentityInv'
  <2>1. UNCHANGED <<account, check, outlived>> /\ version' = version + 1 /\ cleared' = account
        /\ copy' = NoCopy
    BY <1>2 DEF Invalidate
  <2>2. IdentityTypeOK'
    BY <1>0, <1>2, <2>1 DEF IdentityTypeOK, Invalidate, NoCopy
  <2>3. StampsOrdered'
    BY <1>0, <2>1 DEF StampsOrdered, LookingUp, NoCopy
  <2>4. SinceCleared' /\ IdentityFresh'
    BY <1>0, <2>1 DEF SinceCleared, IdentityFresh
  <2> QED BY <2>2, <2>3, <2>4
<1>3. ASSUME NEW e \in Editors, InvalidateFails(e) PROVE IdentityInv'
  BY <1>3 DEF InvalidateFails, IdentityTypeOK, StampsOrdered, SinceCleared, IdentityFresh, LookingUp
<1>4. CASE ExpireCopy
  <2>1. UNCHANGED <<account, version, check, edit, cleared>> /\ copy' = NoCopy
        /\ outlived' = (outlived /\ \E c \in Checks : check[c].at # "idle")
    BY <1>4 DEF ExpireCopy
  <2>2. IdentityTypeOK'
    BY <1>0, <2>1 DEF IdentityTypeOK, NoCopy
  <2>3. CASE outlived /\ ~(\E c \in Checks : check[c].at # "idle")
    BY <2>1, <2>2, <2>3 DEF StampsOrdered, SinceCleared, IdentityFresh, LookingUp, NoCopy
  <2>4. CASE outlived'
    BY <2>1, <2>2, <2>4 DEF StampsOrdered, SinceCleared, IdentityFresh
  <2>5. CASE ~outlived
    BY <2>1, <2>2, <2>5 DEF StampsOrdered, SinceCleared, IdentityFresh, LookingUp, NoCopy
  <2> QED BY <2>1, <2>3, <2>4, <2>5
<1>5. CASE ExpireVersion
  <2>1. UNCHANGED <<account, copy, check, edit, cleared>> /\ version' = 0 /\ version # 0
        /\ (copy = NoCopy \/ copy.stamp = version)
    BY <1>5 DEF ExpireVersion
  <2>2. IdentityTypeOK'
    BY <1>5, <2>1 DEF IdentityTypeOK, ExpireVersion
  <2>3. CASE outlived'
    BY <2>1, <2>2, <2>3 DEF StampsOrdered, SinceCleared, IdentityFresh
  <2>4. CASE LookingUp = {} /\ ~outlived
    BY <2>1, <2>2, <2>4 DEF StampsOrdered, SinceCleared, IdentityFresh, LookingUp, NoCopy
  <2> QED BY <1>5, <2>3, <2>4 DEF ExpireVersion
<1> QED BY <1>1, <1>2, <1>3, <1>4, <1>5

\* What holds in every state.
LEMMA IdentityAlways == IdentitySpec => []IdentityInv
<1>1. IdentityInv /\ UNCHANGED identityVars => IdentityInv'
  BY DEF identityVars, IdentityInv, IdentityTypeOK, StampsOrdered, SinceCleared, IdentityFresh,
         LookingUp
<1>2. IdentityInv /\ [IdentityNext]_identityVars => IdentityInv'
  BY <1>1, CheckStep, AccountStep DEF IdentityNext
<1> QED BY <1>2, IdentityStart, PTL DEF IdentitySpec

\* Counters, copies and what a request has read of them have their types.
THEOREM IdentityTypeCorrect == IdentitySpec => []IdentityTypeOK
<1>1. IdentityInv => IdentityTypeOK
  BY DEF IdentityInv
<1> QED BY <1>1, IdentityAlways, PTL

\* A request that begins after a change was cleared takes the account for what it
\* is since then, whatever is stored late, unless a counter expired under a lookup.
THEOREM IdentityIsFresh == IdentitySpec => []IdentityFresh
<1>1. IdentityInv => IdentityFresh
  BY DEF IdentityInv
<1> QED BY <1>1, IdentityAlways, PTL
------------------------------------------------------------------------------
(* The copy of a role's permissions.  While no lookup has been underway at a   *)
(* clearing, nothing in the copy or about to be added is older than that.      *)

SetIsFresh ==
    ~crossed => /\ \A s \in set : s >= flushed
                /\ \A q \in Askers : ask[q].at = "read" => \A s \in ask[q].perms : s >= flushed

SinceFlushed == \A q \in Askers : ask[q].since <= flushed

PermissionsInv == PermissionsTypeOK /\ SetIsFresh /\ SinceFlushed /\ PermissionsFresh

\* It holds at the start.
LEMMA PermissionsStart == PermissionsInit => PermissionsInv
<1> SUFFICES ASSUME PermissionsInit PROVE PermissionsInv
  OBVIOUS
<1>1. grants \in Seq(BOOLEAN) /\ State = 1
  <2>1. <<TRUE>> \in Seq(BOOLEAN) /\ <<FALSE>> \in Seq(BOOLEAN) /\ Len(<<TRUE>>) = 1 /\ Len(<<FALSE>>) = 1
    OBVIOUS
  <2> QED BY <2>1 DEF PermissionsInit, State
<1>2. ask \in [Askers -> [at : {"idle", "missed", "read", "known"}, perms : SUBSET (1..State),
                          since : 0..State]]
  BY <1>1 DEF PermissionsInit, NoAsk
<1>3. crossed \in BOOLEAN /\ change \in [Changers -> {"idle", "committed", "done"}]
  BY DEF PermissionsInit
<1>4. PermissionsTypeOK
  BY <1>1, <1>2, <1>3 DEF PermissionsInit, PermissionsTypeOK
<1>5. SetIsFresh /\ SinceFlushed /\ PermissionsFresh
  BY DEF PermissionsInit, SetIsFresh, SinceFlushed, PermissionsFresh, NoAsk
<1> QED BY <1>4, <1>5 DEF PermissionsInv

\* A step of a request keeps it.
LEMMA AskStep ==
    ASSUME PermissionsInv, NEW q \in Askers, GetSet(q) \/ ReadRole(q) \/ AddToSet(q) \/ EndAsk(q)
    PROVE  PermissionsInv'
<1> USE DEF PermissionsInv
<1> DEFINE Ask == [at : {"idle", "missed", "read", "known"}, perms : SUBSET (1..State),
                   since : 0..State]
<1>0. /\ State \in Nat \ {0} /\ flushed \in 0..State /\ set \subseteq 1..State
      /\ \A p \in Askers : ask[p] \in Ask
  BY DEF PermissionsTypeOK, State
<1>1. UNCHANGED <<grants, change, flushed, crossed>> /\ State' = State
  BY DEF GetSet, ReadRole, AddToSet, EndAsk, State
<1>2. ASSUME NEW r \in Ask, Asks(q, r), set' \subseteq 1..State,
             ~crossed => \A s \in set' : s >= flushed,
             ~crossed /\ r.at = "read" => \A s \in r.perms : s >= flushed,
             r.since <= flushed,
             ~crossed /\ r.at = "known" => \A s \in r.perms : s >= r.since
      PROVE  PermissionsInv'
  <2>1. \A p \in Askers : ask'[p] = IF p = q THEN r ELSE ask[p]
    BY <1>2 DEF Asks, PermissionsTypeOK
  <2>2. PermissionsTypeOK'
    BY <1>1, <1>2 DEF PermissionsTypeOK, Asks
  <2> QED BY <1>1, <1>2, <2>1, <2>2 DEF SetIsFresh, SinceFlushed, PermissionsFresh
<1>3. CASE GetSet(q)
  <2> DEFINE r == [at |-> IF set = {} THEN "missed" ELSE "known", perms |-> set, since |-> flushed]
  <2>1. Asks(q, r) /\ set' = set /\ r \in Ask
    BY <1>0, <1>3 DEF GetSet
  <2>2. r.perms = set /\ r.since = flushed /\ r.at # "read"
    OBVIOUS
  <2>3. ~crossed => \A s \in r.perms : s >= flushed
    BY <2>2 DEF SetIsFresh
  <2> HIDE DEF r
  <2> QED BY <1>0, <1>2, <2>1, <2>2, <2>3
<1>4. CASE ReadRole(q)
  <2> DEFINE r == [at |-> IF grants[State] THEN "read" ELSE "known", perms |-> {State},
                   since |-> ask[q].since]
  <2>1. Asks(q, r) /\ set' = set /\ r \in Ask
    BY <1>0, <1>4 DEF ReadRole
  <2>2. r.since <= flushed /\ r.perms = {State}
    BY DEF SinceFlushed
  <2> QED BY <1>0, <1>2, <2>1, <2>2 DEF SetIsFresh
<1>5. CASE AddToSet(q)
  <2> DEFINE r == [ask[q] EXCEPT !.at = "known"]
  <2>1. ask[q] \in Ask
    BY <1>0
  <2>2. r \in Ask /\ r.perms = ask[q].perms /\ r.since = ask[q].since /\ r.at = "known"
    BY <2>1
  <2>3. Asks(q, r) /\ set' = set \cup ask[q].perms /\ ask[q].at = "read"
    BY <1>5 DEF AddToSet
  <2>4. set' \subseteq 1..State /\ r.since <= flushed /\ \A s \in r.perms : s \in Nat
    BY <1>0, <2>1, <2>2, <2>3 DEF SinceFlushed
  <2>5. ~crossed => \A s \in r.perms : s >= flushed
    BY <2>2, <2>3 DEF SetIsFresh
  <2>6. ~crossed => \A s \in set' : s >= flushed
    BY <2>2, <2>3, <2>5 DEF SetIsFresh
  <2>7. ~crossed => \A s \in r.perms : s >= r.since
    BY <1>0, <2>1, <2>2, <2>4, <2>5
  <2> HIDE DEF r
  <2> QED BY <1>2, <2>2, <2>3, <2>4, <2>6, <2>7
<1>6. CASE EndAsk(q)
  <2>1. Asks(q, NoAsk) /\ set' = set /\ NoAsk \in Ask /\ NoAsk.at = "idle" /\ NoAsk.since = 0
    BY <1>0, <1>6 DEF EndAsk, NoAsk
  <2> QED BY <1>0, <1>2, <2>1 DEF SetIsFresh
<1> QED BY <1>3, <1>4, <1>5, <1>6

\* So does a change of the role, a clearing, and a copy that expires.
LEMMA RoleStep ==
    ASSUME PermissionsInv,
           (\E w \in Changers : (\E some \in BOOLEAN : CommitRole(w, some))
                                \/ InvalidateRole(w) \/ InvalidateRoleFails(w)) \/ ExpireSet
    PROVE  PermissionsInv'
<1> USE DEF PermissionsInv
<1>0. /\ State \in Nat \ {0} /\ flushed \in 0..State
      /\ \A p \in Askers : ask[p].since \in 0..State
  BY DEF PermissionsTypeOK, State
<1>1. ASSUME NEW w \in Changers, NEW some \in BOOLEAN, CommitRole(w, some) PROVE PermissionsInv'
  <2>1. UNCHANGED <<set, ask, flushed, crossed>> /\ grants' = Append(grants, some)
    BY <1>1 DEF CommitRole
  <2>2. grants' \in Seq(BOOLEAN) /\ State' = State + 1
    BY <2>1 DEF PermissionsTypeOK, State
  <2>3. 0..State \subseteq 0..State' /\ 1..State \subseteq 1..State'
    BY <1>0, <2>2
  <2>4. ask' \in [Askers -> [at : {"idle", "missed", "read", "known"}, perms : SUBSET (1..State'),
                            since : 0..State']]
    BY <2>1, <2>3 DEF PermissionsTypeOK
  <2>5. change' \in [Changers -> {"idle", "committed", "done"}] /\ crossed' \in BOOLEAN
    BY <1>1, <2>1 DEF CommitRole, PermissionsTypeOK
  <2>6. PermissionsTypeOK'
    BY <1>0, <2>1, <2>2, <2>3, <2>4, <2>5 DEF PermissionsTypeOK
  <2> QED BY <2>1, <2>6 DEF SetIsFresh, SinceFlushed, PermissionsFresh
<1>2. ASSUME NEW w \in Changers, InvalidateRole(w) PROVE PermissionsInv'
  <2>1. UNCHANGED <<grants, ask>> /\ set' = {} /\ flushed' = State /\ State' = State
        /\ crossed' = (Busy \/ (crossed /\ Asking))
    BY <1>2 DEF InvalidateRole, Left, State
  <2>2. PermissionsTypeOK'
    <3>1. crossed' \in BOOLEAN /\ change' \in [Changers -> {"idle", "committed", "done"}]
      BY <1>2 DEF InvalidateRole, PermissionsTypeOK
    <3> QED BY <1>0, <2>1, <3>1 DEF PermissionsTypeOK
  <2>3. SinceFlushed'
    BY <1>0, <2>1 DEF SinceFlushed
  <2>4. ~crossed' => \A q \in Askers : ask[q].at # "read"
    BY <2>1 DEF Busy
  <2>5. ~crossed' /\ crossed => \A q \in Askers : ask[q].at = "idle"
    BY <2>1 DEF Asking
  <2> QED BY <2>1, <2>2, <2>3, <2>4, <2>5 DEF SetIsFresh, PermissionsFresh
<1>3. ASSUME NEW w \in Changers, InvalidateRoleFails(w) PROVE PermissionsInv'
  BY <1>3 DEF InvalidateRoleFails, PermissionsTypeOK, SetIsFresh, SinceFlushed, PermissionsFresh, State
<1>4. CASE ExpireSet
  <2>1. UNCHANGED <<grants, ask, change, flushed>> /\ set' = {} /\ State' = State
        /\ crossed' = (crossed /\ Asking)
    BY <1>4 DEF ExpireSet, State
  <2>2. PermissionsTypeOK'
    BY <1>4, <2>1 DEF PermissionsTypeOK
  <2>3. ~crossed' /\ crossed => \A q \in Askers : ask[q].at = "idle"
    BY <2>1 DEF Asking
  <2> QED BY <2>1, <2>2, <2>3 DEF SetIsFresh, SinceFlushed, PermissionsFresh
<1> QED BY <1>1, <1>2, <1>3, <1>4

\* What holds in every state.
LEMMA PermissionsAlways == PermissionsSpec => []PermissionsInv
<1>1. PermissionsInv /\ UNCHANGED permissionVars => PermissionsInv'
  BY DEF permissionVars, PermissionsInv, PermissionsTypeOK, SetIsFresh, SinceFlushed,
         PermissionsFresh, State
<1>2. PermissionsInv /\ [PermissionsNext]_permissionVars => PermissionsInv'
  BY <1>1, AskStep, RoleStep DEF PermissionsNext
<1> QED BY <1>2, PermissionsStart, PTL DEF PermissionsSpec

\* A cached set names states of the role that there have been, and so does what a
\* request has read.
THEOREM PermissionsTypeCorrect == PermissionsSpec => []PermissionsTypeOK
<1>1. PermissionsInv => PermissionsTypeOK
  BY DEF PermissionsInv
<1> QED BY <1>1, PermissionsAlways, PTL

\* A request that begins after a change was cleared has permissions of no earlier
\* state, unless a lookup was underway at a clearing.
THEOREM PermissionsAreFresh == PermissionsSpec => []PermissionsFresh
<1>1. PermissionsInv => PermissionsFresh
  BY DEF PermissionsInv
<1> QED BY <1>1, PermissionsAlways, PTL
------------------------------------------------------------------------------
(* Proofs of hand-over.  A proof comes from a request that is done; requests   *)
(* that share a row, or a row with a proof, were underway together; what a     *)
(* request has read as taken still is, unless it was taken back meanwhile; and *)
(* the photos that were deleted had a proof that is gone.                      *)

Together(m, o) == {<<m, o>>, <<o, m>>} \cap together # {}
Underway(m) == mark[m].at = "uploading"

FreshLast ==
    /\ \A m \in Fresh : m \in present => mark[m].at = "done"
    /\ \A m \in Marks : \A r \in mark[m].rows : r \in present \/ r = m
    /\ \A m \in Marks : IsFiniteSet(mark[m].rows) /\ mark[m].seen \subseteq mark[m].rows
FromDone == \A p \in proofs : mark[p.by].at = "done" /\ p.row \in mark[p.by].rows
Sharing ==
    /\ \A m, o \in Marks : \A r \in mark[m].rows \cap mark[o].rows :
           Underway(m) /\ Underway(o) /\ m # o => Together(m, o)
    /\ \A p \in proofs, m \in Marks : Underway(m) /\ p.row \in mark[m].rows => Together(p.by, m)
    /\ \A p, q \in proofs : p.row = q.row /\ p.by # q.by => Together(p.by, q.by)
SeenTaken ==
    /\ \A m \in Marks : Underway(m) => \A r \in mark[m].seen : r \in taken \/ <<r, m>> \in raced
    /\ \A p \in proofs : p.row \in taken \/ <<p.row, p.by>> \in raced
Cleaned ==
    /\ cleaning \subseteq reverted
    /\ \A m \in reverted : /\ mark[m].at = "done"
                           /\ \E r \in mark[m].rows : \A p \in proofs : p.by = m => p.row # r
    /\ \A p \in proofs : p.by \in photos \/ p.by \in reverted

HandOver == ProofsTypeOK /\ FreshLast /\ FromDone /\ Sharing /\ SeenTaken /\ Cleaned

\* It holds at the start.
LEMMA HandOverStart == ProofsInit => HandOver
<1> SUFFICES ASSUME ProofsInit PROVE HandOver
  OBVIOUS
<1>1. NoMark \in [at : {"idle", "uploading", "done"}, rows : SUBSET AllRows,
                  fresh : BOOLEAN, seen : SUBSET AllRows]
  BY DEF NoMark, Without
<1>2. \A m \in Marks : mark[m] = NoMark
  BY DEF ProofsInit
<1>3. ProofsTypeOK
  BY <1>1 DEF ProofsInit, ProofsTypeOK, AllRows
<1>4. FreshLast
  BY <1>2, FS_EmptySet, ProofsAssumption DEF FreshLast, ProofsInit, NoMark, Without
<1>5. FromDone /\ Sharing /\ SeenTaken /\ Cleaned
  BY <1>2 DEF FromDone, Sharing, SeenTaken, Cleaned, ProofsInit, NoMark, Without, Underway
<1> QED BY <1>3, <1>4, <1>5 DEF HandOver

\* A request starts, for rows without a proof.
LEMMA StartStep ==
    ASSUME HandOver, NEW m \in Marks, NEW S \in SUBSET AllRows, NEW f \in BOOLEAN,
           NEW T \in SUBSET S, T \subseteq taken, IsFiniteSet(S),
           mark[m].at = "idle", Proven(S) = {},
           mark' = [mark EXCEPT ![m] = [at |-> "uploading", rows |-> S, fresh |-> f, seen |-> T]],
           UNCHANGED <<present, taken, proofs, photos, cleaning, raced, reverted>>,
           \A r \in S : r \in present \/ (r = m /\ f),
           together \subseteq together', together' \subseteq Marks \X Marks,
           \A o \in Marks : \A r \in S \cap mark[o].rows :
               o # m /\ Underway(o) => <<m, o>> \in together'
    PROVE  HandOver'
<1> USE DEF HandOver
<1>1. \A o \in Marks : mark'[o] = IF o = m THEN [at |-> "uploading", rows |-> S, fresh |-> f, seen |-> T]
                                           ELSE mark[o]
  BY DEF ProofsTypeOK
<1>2. ProofsTypeOK'
  BY DEF ProofsTypeOK
<1>3. FreshLast'
  <2>1. m \notin Fresh \/ m \notin present
    BY DEF FreshLast
  <2> QED BY <1>1, <2>1 DEF FreshLast
<1>4. FromDone'
  BY <1>1 DEF FromDone, ProofsTypeOK
<1>5. \A a, b \in Marks : Together(a, b) => Together(a, b)'
  BY DEF Together
<1>6. \A o \in Marks : o # m => (Underway(o)' <=> Underway(o)) /\ mark'[o].rows = mark[o].rows
  BY <1>1 DEF Underway
<1>7. Sharing'
  <2>1. ASSUME NEW a \in Marks, NEW b \in Marks, NEW r \in mark'[a].rows \cap mark'[b].rows,
               Underway(a)', Underway(b)', a # b
        PROVE  Together(a, b)'
    <3>1. CASE a # m /\ b # m
      BY <1>5, <1>6, <2>1, <3>1 DEF Sharing
    <3>2. CASE a = m
      <4>1. r \in S \cap mark[b].rows /\ Underway(b) /\ b # m
        BY <1>1, <1>6, <2>1, <3>2
      <4>2. <<m, b>> \in together'
        BY <4>1
      <4> QED BY <3>2, <4>2 DEF Together
    <3>3. CASE b = m
      <4>1. r \in S \cap mark[a].rows /\ Underway(a) /\ a # m
        BY <1>1, <1>6, <2>1, <3>3
      <4>2. <<m, a>> \in together'
        BY <4>1
      <4> QED BY <3>3, <4>2 DEF Together
    <3> QED BY <3>1, <3>2, <3>3
  <2>2. ASSUME NEW p \in proofs, NEW o \in Marks, Underway(o)', p.row \in mark'[o].rows
        PROVE  Together(p.by, o)'
    <3>1. o # m
      BY <1>1, <2>2 DEF Proven
    <3> QED BY <1>5, <1>6, <2>2, <3>1 DEF Sharing, ProofsTypeOK
  <2>3. \A p, q \in proofs : p.row = q.row /\ p.by # q.by => Together(p.by, q.by)'
    BY <1>5 DEF Sharing, ProofsTypeOK
  <2> QED BY <2>1, <2>2, <2>3 DEF Sharing
<1>8. SeenTaken'
  BY <1>1 DEF SeenTaken, Underway
<1>9. Cleaned'
  BY <1>1 DEF Cleaned, ProofsTypeOK
<1> QED BY <1>2, <1>3, <1>4, <1>7, <1>8, <1>9

\* A request commits its proofs.
LEMMA CommitMarkStep == ASSUME HandOver, NEW m \in Marks, CommitMark(m) PROVE HandOver'
<1> USE DEF HandOver
<1>1. /\ mark[m].at = "uploading"
      /\ UNCHANGED <<cleaning, together, raced, reverted>>
      /\ photos' = photos \cup {m} /\ present' = present \cup mark[m].rows
      /\ taken' = taken \cup (mark[m].rows \ mark[m].seen)
      /\ proofs' = proofs \cup {[row |-> r, by |-> m] : r \in mark[m].rows}
  BY DEF CommitMark, KeyOf, Flagged
<1>2. /\ \A o \in Marks : /\ mark'[o].rows = mark[o].rows /\ mark'[o].seen = mark[o].seen
                          /\ mark'[o].at = IF o = m THEN "done" ELSE mark[o].at
      /\ mark' \in [Marks -> [at : {"idle", "uploading", "done"}, rows : SUBSET AllRows,
                              fresh : BOOLEAN, seen : SUBSET AllRows]]
  BY DEF CommitMark, ProofsTypeOK
<1>3. mark[m].rows \subseteq AllRows
  BY DEF ProofsTypeOK
<1>4. \A p \in proofs' : p \in proofs \/ (p.by = m /\ p.row \in mark[m].rows)
  BY <1>1
<1>5. ProofsTypeOK'
  BY <1>1, <1>2, <1>3 DEF ProofsTypeOK
<1>6. FreshLast'
  <2>1. ASSUME NEW o \in Fresh, o \in present' PROVE mark'[o].at = "done"
    <3>1. o \in Marks
      BY ProofsAssumption
    <3>2. CASE o \in present
      BY <1>2, <3>1, <3>2 DEF FreshLast
    <3>3. CASE o \in mark[m].rows
      BY <1>2, <3>1, <3>3 DEF FreshLast
    <3> QED BY <1>1, <2>1, <3>2, <3>3
  <2> QED BY <1>1, <1>2, <2>1 DEF FreshLast
<1>7. FromDone'
  BY <1>2, <1>4 DEF FromDone, ProofsTypeOK
<1>8. \A o \in Marks : Underway(o)' => o # m /\ Underway(o)
  BY <1>2 DEF Underway
<1>9. Sharing'
  <2>1. \A a, b \in Marks : Together(a, b)' <=> Together(a, b)
    BY <1>1 DEF Together
  <2>2. \A a, b \in Marks : Together(a, b) <=> Together(b, a)
    BY DEF Together
  <2>3. \A p \in proofs' : p.by \in Marks
    BY <1>5 DEF ProofsTypeOK
  <2>4. \A a, b \in Marks : \A r \in mark'[a].rows \cap mark'[b].rows :
           Underway(a)' /\ Underway(b)' /\ a # b => Together(a, b)'
    BY <1>2, <1>8, <2>1 DEF Sharing
  <2>5. ASSUME NEW p \in proofs', NEW o \in Marks, Underway(o)', p.row \in mark'[o].rows
        PROVE  Together(p.by, o)'
    <3>1. CASE p \in proofs
      BY <1>2, <1>8, <2>1, <2>3, <2>5, <3>1 DEF Sharing
    <3>2. CASE p.by = m /\ p.row \in mark[m].rows
      BY <1>1, <1>2, <1>8, <2>1, <2>5, <3>2 DEF Sharing, Underway
    <3> QED BY <1>4, <3>1, <3>2
  <2>6. ASSUME NEW p \in proofs', NEW q \in proofs', p.row = q.row, p.by # q.by
        PROVE  Together(p.by, q.by)'
    <3>1. CASE p \in proofs /\ q \in proofs
      BY <2>1, <2>3, <2>6, <3>1 DEF Sharing
    <3>2. CASE p \in proofs /\ q.by = m /\ q.row \in mark[m].rows
      BY <1>1, <2>1, <2>3, <2>6, <3>2 DEF Sharing, Underway
    <3>3. CASE q \in proofs /\ p.by = m /\ p.row \in mark[m].rows
      BY <1>1, <2>1, <2>2, <2>3, <2>6, <3>3 DEF Sharing, Underway
    <3> QED BY <1>4, <2>6, <3>1, <3>2, <3>3
  <2> QED BY <2>4, <2>5, <2>6 DEF Sharing
<1>10. SeenTaken'
  <2>1. \A o \in Marks : Underway(o)' => \A r \in mark'[o].seen : r \in taken' \/ <<r, o>> \in raced'
    BY <1>1, <1>2, <1>8 DEF SeenTaken
  <2>2. \A p \in proofs' : p.row \in taken' \/ <<p.row, p.by>> \in raced'
    BY <1>1, <1>4 DEF SeenTaken, Underway
  <2> QED BY <2>1, <2>2 DEF SeenTaken
<1>11. Cleaned'
  <2>1. \A o \in reverted : o # m /\ o \in Marks
    BY <1>1 DEF Cleaned, ProofsTypeOK
  <2> QED BY <1>1, <1>2, <1>4, <2>1 DEF Cleaned
<1> QED BY <1>5, <1>6, <1>7, <1>9, <1>10, <1>11

\* A request gives up: what it leaves has no rows.
LEMMA AbortStep == ASSUME HandOver, NEW m \in Marks, AbortMark(m) PROVE HandOver'
<1> USE DEF HandOver
<1> DEFINE Gone == [at |-> "done", rows |-> {}, fresh |-> FALSE, seen |-> {}]
<1>1. UNCHANGED <<present, taken, proofs, photos, cleaning, together, raced, reverted>>
      /\ mark[m].at = "uploading"
  BY DEF AbortMark
<1>2. mark' = [mark EXCEPT ![m] = Gone]
  BY DEF AbortMark, Without
<1>3. \A o \in Marks : mark'[o] = IF o = m THEN Gone ELSE mark[o]
  BY <1>2 DEF ProofsTypeOK
<1>4. ProofsTypeOK'
  BY <1>1, <1>2 DEF ProofsTypeOK
<1>5. FreshLast'
  <2>1. \A o \in Fresh : o \in present' => mark'[o].at = "done"
    BY <1>1, <1>3, ProofsAssumption DEF FreshLast
  <2>2. \A o \in Marks : \A r \in mark'[o].rows : r \in present' \/ r = o
    BY <1>1, <1>3 DEF FreshLast
  <2>3. ASSUME NEW o \in Marks
        PROVE  IsFiniteSet(mark'[o].rows) /\ mark'[o].seen \subseteq mark'[o].rows
    <3>1. CASE o = m
      <4>1. mark'[o].rows = {} /\ mark'[o].seen = {}
        BY <1>3, <3>1
      <4> QED BY <4>1, FS_EmptySet
    <3>2. CASE o # m
      <4>1. mark'[o] = mark[o]
        BY <1>3, <3>2
      <4> QED BY <4>1 DEF FreshLast
    <3> QED BY <3>1, <3>2
  <2> QED BY <2>1, <2>2, <2>3 DEF FreshLast
<1>6. \A p \in proofs : p.by # m
  BY <1>1 DEF FromDone
<1>7. FromDone'
  BY <1>1, <1>3, <1>6 DEF FromDone, ProofsTypeOK
<1>8. Sharing'
  BY <1>1, <1>3 DEF Sharing, Underway, Together
<1>9. SeenTaken'
  BY <1>1, <1>3 DEF SeenTaken, Underway
<1>10. Cleaned'
  <2>1. \A o \in reverted : o # m /\ o \in Marks
    BY <1>1 DEF Cleaned, ProofsTypeOK
  <2> QED BY <1>1, <1>3, <2>1 DEF Cleaned
<1> QED BY <1>4, <1>5, <1>7, <1>8, <1>9, <1>10

\* Other desks release a row, or POS takes its flag back with its proofs.
LEMMA ReleaseStep == ASSUME HandOver, NEW r \in AllRows, Release(r) \/ Revert(r) PROVE HandOver'
<1> USE DEF HandOver
<1>1. CASE Release(r)
  <2>1. UNCHANGED <<present, proofs, photos, cleaning, mark, together, raced, reverted>>
        /\ taken' = taken \cup {r} /\ r \in present
    BY <1>1 DEF Release
  <2> QED BY <2>1 DEF ProofsTypeOK, FreshLast, FromDone, Sharing, SeenTaken, Cleaned, Together, Underway
<1>2. CASE Revert(r)
  <2>1. /\ UNCHANGED <<present, photos, mark, together>>
        /\ taken' = taken \ {r} /\ proofs' = proofs \ Proven({r})
        /\ cleaning' = cleaning \cup {p.by : p \in Proven({r})}
        /\ raced' = raced \cup {<<r, m>> : m \in Uploading(r)}
        /\ reverted' = reverted \cup {p.by : p \in Proven({r})}
    BY <1>2 DEF Revert, KeyOf
  <2>2. proofs' = {p \in proofs : p.row # r} /\ Proven({r}) = {p \in proofs : p.row = r}
    BY <2>1 DEF Proven
  <2>3. ProofsTypeOK'
    <3>1. \A p \in proofs : p \in [row : present, by : Marks] /\ p.by \in Marks
      BY DEF ProofsTypeOK
    <3>2. taken' \subseteq present /\ proofs' \subseteq [row : present, by : Marks]
      BY <2>1, <2>2, <3>1 DEF ProofsTypeOK
    <3>3. cleaning' \subseteq Marks /\ reverted' \subseteq Marks
      BY <2>1, <2>2, <3>1 DEF ProofsTypeOK
    <3>4. raced' \subseteq AllRows \X Marks
      BY <2>1 DEF ProofsTypeOK, Uploading
    <3> QED BY <2>1, <3>2, <3>3, <3>4 DEF ProofsTypeOK
  <2>4. FreshLast' /\ FromDone'
    BY <2>1, <2>2 DEF FreshLast, FromDone
  <2>5. Sharing'
    BY <2>1, <2>2 DEF Sharing, Together, Underway
  <2>6. SeenTaken'
    <3>1. ASSUME NEW m \in Marks, Underway(m)', NEW x \in mark'[m].seen
          PROVE  x \in taken' \/ <<x, m>> \in raced'
      <4>1. Underway(m) /\ x \in mark[m].rows /\ x \in mark[m].seen
        BY <2>1, <3>1 DEF Underway, FreshLast
      <4>2. x = r => m \in Uploading(r)
        BY <4>1 DEF Uploading, Underway
      <4> QED BY <2>1, <4>1, <4>2 DEF SeenTaken
    <3>2. \A p \in proofs' : p.row \in taken' \/ <<p.row, p.by>> \in raced'
      BY <2>1, <2>2 DEF SeenTaken
    <3> QED BY <3>1, <3>2 DEF SeenTaken
  <2>7. Cleaned'
    <3>1. cleaning' \subseteq reverted'
      BY <2>1 DEF Cleaned
    <3>2. ASSUME NEW m \in reverted'
          PROVE  /\ mark'[m].at = "done"
                 /\ \E x \in mark'[m].rows : \A p \in proofs' : p.by = m => p.row # x
      <4>1. CASE m \in reverted
        BY <2>1, <2>2, <4>1 DEF Cleaned
      <4>2. CASE m \notin reverted
        <5>1. PICK p \in proofs : p.row = r /\ p.by = m
          BY <2>1, <2>2, <3>2, <4>2
        <5>2. mark[m].at = "done" /\ r \in mark[m].rows
          BY <5>1 DEF FromDone
        <5> QED BY <2>1, <2>2, <5>2
      <4> QED BY <4>1, <4>2
    <3>3. \A p \in proofs' : p.by \in photos' \/ p.by \in reverted'
      BY <2>1, <2>2 DEF Cleaned
    <3> QED BY <3>1, <3>2, <3>3 DEF Cleaned
  <2> QED BY <2>3, <2>4, <2>5, <2>6, <2>7
<1> QED BY <1>1, <1>2

\* Every step keeps it.
LEMMA HandOverStep == ASSUME HandOver, ProofsNext PROVE HandOver'
<1> USE DEF HandOver
<1>0. IsFiniteSet(AllRows)
  BY ProofsAssumption, FS_Union, FS_Subset DEF AllRows
<1>1. ASSUME NEW m \in Marks, NEW S \in SUBSET AllRows, StartMark(m, S) PROVE HandOver'
  <2>1. IsFiniteSet(S)
    BY <1>0, FS_Subset
  <2>2. S \cap taken \in SUBSET S /\ S \cap taken \subseteq taken
    OBVIOUS
  <2>3. together' = together \cup {<<m, o>> : o \in UNION {Uploading(r) : r \in S}}
    BY <1>1 DEF StartMark
  <2>4. together' \subseteq Marks \X Marks
    BY <2>3 DEF Uploading, ProofsTypeOK
  <2>5. \A o \in Marks : \A r \in S \cap mark[o].rows : Underway(o) => <<m, o>> \in together'
    BY <2>3 DEF Uploading, Underway
  <2> QED BY <1>1, <2>1, <2>2, <2>3, <2>4, <2>5, StartStep DEF StartMark
<1>2. ASSUME NEW m \in Marks, StartFresh(m) PROVE HandOver'
  <2>1. /\ m \in Fresh /\ mark[m].at = "idle"
        /\ mark' = [mark EXCEPT ![m] = [at |-> "uploading", rows |-> {m}, fresh |-> TRUE, seen |-> {}]]
        /\ UNCHANGED <<present, taken, proofs, photos, cleaning, together, raced, reverted>>
    BY <1>2 DEF StartFresh
  <2>2. m \notin present
    BY <2>1 DEF FreshLast
  <2>3. {m} \in SUBSET AllRows /\ {} \in SUBSET {m} /\ IsFiniteSet({m})
    BY <2>1, FS_Singleton DEF AllRows
  <2>4. Proven({m}) = {}
    BY <2>2 DEF Proven, ProofsTypeOK
  <2>5. \A o \in Marks : \A r \in {m} \cap mark[o].rows : o = m
    BY <2>2 DEF FreshLast
  <2> QED BY <2>1, <2>3, <2>4, <2>5, StartStep DEF ProofsTypeOK
<1>3. ASSUME NEW k \in cleaning, CleanUp(k) PROVE HandOver'
  <2>1. /\ UNCHANGED <<present, taken, proofs, mark, together, raced, reverted>>
        /\ cleaning' = cleaning \ {k} /\ photos' \in {photos, photos \ {k}}
        /\ k \in reverted
    BY <1>3 DEF CleanUp, Cleaned
  <2> QED BY <2>1 DEF ProofsTypeOK, FreshLast, FromDone, Sharing, SeenTaken, Cleaned, Together, Underway
<1> QED
  BY <1>1, <1>2, <1>3, CommitMarkStep, AbortStep, ReleaseStep DEF ProofsNext

\* So does a step of something else.
LEMMA HandOverStutter == ASSUME HandOver, UNCHANGED proofVars PROVE HandOver'
BY DEF HandOver, proofVars, ProofsTypeOK, FreshLast, FromDone, Sharing, SeenTaken, Cleaned,
       Together, Underway

\* What holds in every state.
LEMMA HandOverAlways == ProofsSpec => []HandOver
<1>1. HandOver /\ [ProofsNext]_proofVars => HandOver'
  BY HandOverStep, HandOverStutter
<1> QED BY <1>1, HandOverStart, PTL DEF ProofsSpec

\* Proofs, photos and requests of the hand-over are of rows there are.
THEOREM ProofsTypeCorrect == ProofsSpec => []ProofsTypeOK
<1>1. HandOver => ProofsTypeOK
  BY DEF HandOver
<1> QED BY <1>1, HandOverAlways, PTL

\* A row has two proofs only from requests that were underway at the same time, and
\* a row with a proof is taken unless the flag was taken back meanwhile.
THEOREM ProofsAreSound == ProofsSpec => []ProofsSound
<1>1. HandOver => ProofsSound
  BY DEF HandOver, Sharing, SeenTaken, ProofsSound, Together
<1> QED BY <1>1, HandOverAlways, PTL

\* The photos of a proof are there, unless they were those of another row as well,
\* whose flag POS has taken back.
THEOREM EvidenceIsKept == ProofsSpec => []EvidenceKept
<1>1. HandOver /\ [ProofsNext]_proofVars => HandOver'
  BY HandOverStep, HandOverStutter
<1>2. HandOver => EvidenceKept
  <2> SUFFICES ASSUME HandOver, NEW p \in proofs, p.by \in reverted
               PROVE  Cardinality(mark[p.by].rows) > 1
    BY DEF HandOver, Cleaned, EvidenceKept, KeyOf
  <2>1. p.by \in Marks /\ p.row \in mark[p.by].rows
    BY DEF HandOver, ProofsTypeOK, FromDone
  <2>2. PICK r \in mark[p.by].rows : p.row # r
    BY DEF HandOver, Cleaned
  <2>3. IsFiniteSet(mark[p.by].rows)
    BY <2>1 DEF HandOver, FreshLast
  <2>4. Cardinality({p.row}) = 1 /\ IsFiniteSet({p.row}) /\ Cardinality({p.row, r}) = 2
    <3>1. Cardinality({p.row}) = 1 /\ IsFiniteSet({p.row})
      BY FS_Singleton
    <3>2. {p.row, r} = {p.row} \cup {r} /\ r \notin {p.row}
      BY <2>2
    <3>3. Cardinality({p.row} \cup {r}) = Cardinality({p.row}) + 1
      BY <3>1, <3>2, FS_AddElement
    <3> QED BY <3>1, <3>2, <3>3
  <2>5. {p.row, r} \subseteq mark[p.by].rows
    BY <2>1, <2>2
  <2>6. Cardinality({p.row, r}) <= Cardinality(mark[p.by].rows)
    BY <2>3, <2>5, FS_Subset
  <2>7. Cardinality(mark[p.by].rows) \in Nat
    BY <2>3, FS_CardinalityType
  <2> QED BY <2>4, <2>6, <2>7
<1> QED BY <1>1, <1>2, HandOverStart, PTL DEF ProofsSpec
------------------------------------------------------------------------------
(* Announcements.  Whoever was sent the message is a recipient that is        *)
(* through, a task that goes on to complete has nobody left, and a task that  *)
(* runs is found under its second unless another took its place there.        *)

Walking(b) ==
    /\ at[b] \in {"idle", "record", "start"} => rest[b] = {} /\ got[b] = {}
    /\ rest[b] \subseteq content[b].audience
    /\ got[b] \subseteq content[b].audience \ rest[b]
    /\ at[b] = "save" /\ b \notin flag => rest[b] = {}
    /\ at[b] = "complete" => rest[b] = {} /\ saved[b] = Counters(b)
    /\ status[b] = "completed" => at[b] = "done" /\ rest[b] = {} /\ saved[b] = Counters(b)

Listed(b) == b \in active[taskId[b]] \/ \E c \in Broadcasts \ {b} : taskId[c] = taskId[b]

Registered(b) ==
    /\ at[b] \in {"idle", "record"} => stops[b] = "no" /\ taskId[b] = 0
    /\ stops[b] # "no" => taskId[b] # 0
    /\ at[b] \in {"start", "loop", "save", "complete"} => taskId[b] # 0 /\ Listed(b)
    /\ stops[b] \in {"pressed", "done"} /\ at[b] \notin Over =>
           b \in flag \/ \E c \in Broadcasts \ {b} : taskId[c] = taskId[b]

BroadcastInv == BroadcastTypeOK /\ \A b \in Broadcasts : Walking(b) /\ Registered(b)

\* The counters of a task are numbers that a row can hold.
LEMMA CountersType ==
    ASSUME NEW A, IsFiniteSet(A), A \subseteq Recipients, NEW R, NEW G, G \subseteq A \ R
    PROVE  /\ Cardinality(G) \in 0..Cardinality(Recipients)
           /\ Cardinality(A \ R) - Cardinality(G) \in 0..Cardinality(Recipients)
<1>1. IsFiniteSet(A \ R) /\ IsFiniteSet(Recipients) /\ IsFiniteSet(G)
  BY FS_Subset, BroadcastAssumption
<1>2. /\ Cardinality(G) \in Nat /\ Cardinality(A \ R) \in Nat /\ Cardinality(Recipients) \in Nat
      /\ Cardinality(G) <= Cardinality(A \ R) /\ Cardinality(A \ R) <= Cardinality(Recipients)
  <2>1. A \ R \subseteq Recipients
    OBVIOUS
  <2> QED BY <1>1, <2>1, FS_CardinalityType, FS_Subset
<1> QED BY <1>2

\* The audience of any content is finite.
LEMMA AudienceFinite == ASSUME NEW d \in Contents
                        PROVE  d.audience \subseteq Recipients /\ IsFiniteSet(d.audience)
BY FS_Subset, BroadcastAssumption DEF Contents, Blank

\* The counters of a row in the invariant.
LEMMA CountersOfTask ==
    ASSUME BroadcastTypeOK, NEW b \in Broadcasts, got[b] \subseteq content[b].audience \ rest[b]
    PROVE Counters(b) \in [sent : 0..Cardinality(Recipients), bad : 0..Cardinality(Recipients)]
<1>1. content[b] \in Contents
  BY DEF BroadcastTypeOK
<1> QED BY <1>1, AudienceFinite, CountersType DEF Counters, Processed

\* It holds at the start.
LEMMA BroadcastStart == BroadcastInit => BroadcastInv
<1> SUFFICES ASSUME BroadcastInit PROVE BroadcastInv
  OBVIOUS
<1>1. BroadcastTypeOK
  <2>1. Cardinality(Recipients) \in Nat
    BY BroadcastAssumption, FS_CardinalityType
  <2>2. [sent |-> 0, bad |-> 0] \in [sent : 0..Cardinality(Recipients), bad : 0..Cardinality(Recipients)]
    BY <2>1
  <2> QED BY <2>2, BroadcastAssumption DEF BroadcastInit, BroadcastTypeOK, Contents, Blank, Statuses
<1>2. \A b \in Broadcasts : Walking(b) /\ Registered(b)
  BY DEF BroadcastInit, Walking, Registered, Over
<1> QED BY <1>1, <1>2 DEF BroadcastInv

\* What a task has done stays true where a step leaves it and its place alone,
\* or ends it.
LEMMA WalkingKept ==
    ASSUME NEW b, Walking(b), content'[b] = content[b], rest'[b] = rest[b], got'[b] = got[b],
           saved'[b] = saved[b],
           at'[b] = at[b] \/ (at[b] \notin Over /\ at'[b] \in Over),
           at'[b] \notin Over => (b \in flag => b \in flag'),
           status'[b] = "completed" => status[b] = "completed"
    PROVE  Walking(b)'
<1>1. Counters(b)' = Counters(b)
  BY DEF Counters, Processed
<1> QED BY <1>1 DEF Walking, Over

\* Every step keeps the types.
LEMMA BroadcastTypes == ASSUME BroadcastInv, BroadcastNext PROVE BroadcastTypeOK'
<1> BroadcastTypeOK /\ \A b \in Broadcasts : Walking(b)
  BY DEF BroadcastInv
<1> USE DEF GoOn, SetStatus, dialogue, records, registry, task
<1>1. CASE CrashBroadcasts
  <2>1. at' \in [Broadcasts -> {"idle", "record", "start", "loop", "save", "complete"} \cup Over]
    BY <1>1 DEF CrashBroadcasts, BroadcastTypeOK, Over
  <2>2. stops' \in [Broadcasts -> {"no", "shown", "pressed", "done"}]
    BY <1>1 DEF CrashBroadcasts, BroadcastTypeOK
  <2> QED BY <1>1, <2>1, <2>2 DEF CrashBroadcasts, BroadcastTypeOK
<1>2. ASSUME NEW d \in Contents, Edit(d) PROVE BroadcastTypeOK'
  BY <1>2 DEF Edit, BroadcastTypeOK
<1>3. ASSUME NEW b \in Broadcasts, ConfirmDraft(b) PROVE BroadcastTypeOK'
  BY <1>3 DEF ConfirmDraft, BroadcastTypeOK, Statuses
<1>4. ASSUME NEW b \in Broadcasts, LaunchTask(b) PROVE BroadcastTypeOK'
  BY <1>4 DEF LaunchTask, BroadcastTypeOK
<1>5. ASSUME NEW b \in Broadcasts, NoMessage(b) \/ NoticeCancel(b) \/ LeaveLoop(b) \/ Complete(b)
      PROVE BroadcastTypeOK'
  <2>1. status' \in [Broadcasts -> Statuses]
    BY <1>5 DEF NoMessage, NoticeCancel, LeaveLoop, Complete, BroadcastTypeOK, Statuses
  <2>2. at' \in [Broadcasts -> {"idle", "record", "start", "loop", "save", "complete"} \cup Over]
    BY <1>5 DEF NoMessage, NoticeCancel, LeaveLoop, Complete, BroadcastTypeOK, Over
  <2>3. UNCHANGED <<dialogue, saved, registry, content, rest, got>>
    BY <1>5 DEF NoMessage, NoticeCancel, LeaveLoop, Complete
  <2> QED BY <2>1, <2>2, <2>3 DEF BroadcastTypeOK
<1>6. ASSUME NEW b \in Broadcasts, Begin(b) PROVE BroadcastTypeOK'
  <2>1. content[b].audience \subseteq Recipients
    BY AudienceFinite DEF BroadcastTypeOK
  <2> QED BY <1>6, <2>1 DEF Begin, BroadcastTypeOK, Statuses
<1>7. ASSUME NEW b \in Broadcasts, NEW x \in Recipients, SendOne(b, x) PROVE BroadcastTypeOK'
  <2>1. rest' \in [Broadcasts -> SUBSET Recipients] /\ got' \in [Broadcasts -> SUBSET Recipients]
    <3>1. rest[b] \ {x} \in SUBSET Recipients /\ got[b] \cup {x} \in SUBSET Recipients
      BY DEF BroadcastTypeOK
    <3>2. rest' = [rest EXCEPT ![b] = rest[b] \ {x}] /\ got' \in {got, [got EXCEPT ![b] = got[b] \cup {x}]}
      BY <1>7 DEF SendOne
    <3> QED BY <3>1, <3>2 DEF BroadcastTypeOK
  <2>2. /\ rest'[b] = rest[b] \ {x} /\ got'[b] \subseteq got[b] \cup {x}
        /\ UNCHANGED <<dialogue, status, registry, content, at>>
    BY <1>7 DEF SendOne, BroadcastTypeOK
  <2>3. got'[b] \subseteq content'[b].audience \ rest'[b]
    BY <1>7, <2>2 DEF Walking, SendOne
  <2>4. Counters(b)' \in [sent : 0..Cardinality(Recipients), bad : 0..Cardinality(Recipients)]
    <3>1. content'[b] \in Contents
      BY <2>2 DEF BroadcastTypeOK
    <3> QED BY <2>3, <3>1, AudienceFinite, CountersType DEF Counters, Processed
  <2>5. saved' \in [Broadcasts -> [sent : 0..Cardinality(Recipients), bad : 0..Cardinality(Recipients)]]
    BY <1>7, <2>4 DEF SendOne, BroadcastTypeOK
  <2> QED BY <2>1, <2>2, <2>5 DEF BroadcastTypeOK
<1>8. ASSUME NEW b \in Broadcasts, SaveStats(b) PROVE BroadcastTypeOK'
  <2>1. Counters(b) \in [sent : 0..Cardinality(Recipients), bad : 0..Cardinality(Recipients)]
    BY CountersOfTask DEF Walking
  <2> QED BY <1>8, <2>1 DEF SaveStats, BroadcastTypeOK, Over
<1>9. ASSUME NEW b \in Broadcasts, Fail(b) PROVE BroadcastTypeOK'
  BY <1>9 DEF Fail, BroadcastTypeOK, Statuses, Over
<1>10. ASSUME NEW b \in Broadcasts, PressStop(b) \/ RecordStop(b) PROVE BroadcastTypeOK'
  <2>1. CASE PressStop(b)
    <3>1. active[taskId[b]] \subseteq Broadcasts
      BY <2>1 DEF BroadcastInv, Registered, BroadcastTypeOK, PressStop
    <3> QED BY <2>1, <3>1 DEF PressStop, BroadcastTypeOK
  <2>2. CASE RecordStop(b)
    BY <2>2 DEF RecordStop, BroadcastTypeOK, Statuses
  <2> QED BY <1>10, <2>1, <2>2
<1> QED BY <1>1, <1>2, <1>3, <1>4, <1>5, <1>6, <1>7, <1>8, <1>9, <1>10 DEF BroadcastNext, RunTask

\* Every step keeps the walk of every task.
LEMMA BroadcastWalks == ASSUME BroadcastInv, BroadcastNext, NEW e \in Broadcasts PROVE Walking(e)'
<1> BroadcastTypeOK /\ Walking(e)
  BY DEF BroadcastInv
<1> USE DEF GoOn, SetStatus, dialogue, records, registry, task
<1>1. CASE CrashBroadcasts
  <2>1. /\ UNCHANGED <<content, rest, got, saved, status>>
        /\ at'[e] = at[e] \/ (at[e] \notin Over /\ at'[e] \in Over)
        /\ at'[e] \notin Over => at'[e] = "idle"
    BY <1>1 DEF CrashBroadcasts, BroadcastTypeOK, Over
  <2>2. Counters(e)' = Counters(e)
    BY <2>1 DEF Counters, Processed
  <2> QED BY <2>1, <2>2 DEF Walking, Over
<1>2. ASSUME NEW d \in Contents, Edit(d) PROVE Walking(e)'
  BY <1>2, WalkingKept DEF Edit
<1>3. ASSUME NEW b \in Broadcasts, ConfirmDraft(b) PROVE Walking(e)'
  <2>1. CASE e = b
    BY <1>3, <2>1 DEF ConfirmDraft, BroadcastTypeOK, Walking
  <2>2. CASE e # b
    BY <1>3, <2>2, WalkingKept DEF ConfirmDraft, BroadcastTypeOK
  <2> QED BY <2>1, <2>2
<1>4. ASSUME NEW b \in Broadcasts, LaunchTask(b) PROVE Walking(e)'
  <2>1. CASE e = b
    BY <1>4, <2>1 DEF LaunchTask, BroadcastTypeOK, Walking
  <2>2. CASE e # b
    BY <1>4, <2>2, WalkingKept DEF LaunchTask, BroadcastTypeOK
  <2> QED BY <2>1, <2>2
<1>5. ASSUME NEW b \in Broadcasts, NoMessage(b) \/ Fail(b) PROVE Walking(e)'
  <2>1. /\ UNCHANGED <<content, rest, got, saved, flag>>
        /\ at'[e] = at[e] \/ (at[e] \notin Over /\ at'[e] \in Over)
    BY <1>5 DEF NoMessage, Fail, BroadcastTypeOK, Over
  <2>2. status'[e] = "completed" => status[e] = "completed"
    BY <1>5 DEF NoMessage, Fail, BroadcastTypeOK
  <2> QED BY <2>1, <2>2, WalkingKept
<1>6. ASSUME NEW b \in Broadcasts, NoticeCancel(b) \/ LeaveLoop(b) \/ Complete(b) PROVE Walking(e)'
  <2>1. CASE e = b
    <3>1. UNCHANGED <<content, rest, got, saved>>
      BY <1>6 DEF NoticeCancel, LeaveLoop, Complete
    <3>2. Counters(e)' = Counters(e)
      BY <3>1 DEF Counters, Processed
    <3> QED BY <1>6, <2>1, <3>1, <3>2 DEF NoticeCancel, LeaveLoop, Complete, BroadcastTypeOK, Walking
  <2>2. CASE e # b
    BY <1>6, <2>2, WalkingKept DEF NoticeCancel, LeaveLoop, Complete, BroadcastTypeOK
  <2> QED BY <2>1, <2>2
<1>7. ASSUME NEW b \in Broadcasts, Begin(b) PROVE Walking(e)'
  <2>1. CASE e = b
    BY <1>7, <2>1 DEF Begin, BroadcastTypeOK, Walking
  <2>2. CASE e # b
    BY <1>7, <2>2, WalkingKept DEF Begin, BroadcastTypeOK
  <2> QED BY <2>1, <2>2
<1>8. ASSUME NEW b \in Broadcasts, NEW x \in Recipients, SendOne(b, x) PROVE Walking(e)'
  <2>0. UNCHANGED <<status, content, at, flag>>
    BY <1>8 DEF SendOne
  <2>1. CASE e = b
    <3>1. /\ rest'[e] = rest[e] \ {x} /\ got'[e] \subseteq got[e] \cup {x}
          /\ at[e] = "loop" /\ x \in rest[e]
      BY <1>8, <2>1 DEF SendOne, BroadcastTypeOK
    <3> QED BY <2>0, <3>1 DEF Walking
  <2>2. CASE e # b
    <3>1. rest'[e] = rest[e] /\ got'[e] = got[e] /\ saved'[e] = saved[e]
      BY <1>8, <2>2 DEF SendOne, BroadcastTypeOK
    <3> QED BY <2>0, <3>1, WalkingKept
  <2> QED BY <2>1, <2>2
<1>9. ASSUME NEW b \in Broadcasts, SaveStats(b) PROVE Walking(e)'
  <2>1. CASE e = b
    <3>1. UNCHANGED <<content, rest, got, status, flag>> /\ saved'[e] = Counters(e)
          /\ at[e] = "save" /\ at'[e] = IF e \in flag THEN "done" ELSE "complete"
      BY <1>9, <2>1 DEF SaveStats, BroadcastTypeOK
    <3>2. Counters(e)' = Counters(e)
      BY <3>1 DEF Counters, Processed
    <3> QED BY <3>1, <3>2 DEF Walking
  <2>2. CASE e # b
    BY <1>9, <2>2, WalkingKept DEF SaveStats, BroadcastTypeOK
  <2> QED BY <2>1, <2>2
<1>10. ASSUME NEW b \in Broadcasts, PressStop(b) \/ RecordStop(b) PROVE Walking(e)'
  BY <1>10, WalkingKept DEF PressStop, RecordStop
<1> QED BY <1>1, <1>2, <1>3, <1>4, <1>5, <1>6, <1>7, <1>8, <1>9, <1>10 DEF BroadcastNext, RunTask

\* Every step keeps every task under its second, and its stop button heard.
LEMMA BroadcastRegistry == ASSUME BroadcastInv, BroadcastNext, NEW e \in Broadcasts PROVE Registered(e)'
<1> BroadcastTypeOK /\ \A b \in Broadcasts : Registered(b)
  BY DEF BroadcastInv
<1> USE DEF GoOn, SetStatus, dialogue, records, registry, task
<1>1. CASE CrashBroadcasts
  BY <1>1 DEF CrashBroadcasts, BroadcastTypeOK, Over, Registered, Listed
<1>2. ASSUME NEW b \in Broadcasts, LaunchTask(b) PROVE Registered(e)'
  <2>1. /\ taskId'[b] = clock' /\ active'[clock'] = {b} /\ stops'[b] = "shown" /\ at'[b] = "start"
        /\ at[b] = "record" /\ taskId[b] = 0 /\ clock' \in 1..Seconds /\ UNCHANGED flag
        /\ \A c \in Broadcasts \ {b} : taskId'[c] = taskId[c] /\ stops'[c] = stops[c] /\ at'[c] = at[c]
        /\ \A s \in 1..Seconds : s # clock' => active'[s] = active[s]
    BY <1>2 DEF LaunchTask, BroadcastTypeOK, Registered
  <2>2. CASE e = b
    BY <2>1, <2>2 DEF Registered, Listed, Over
  <2>3. CASE e # b
    <3>1. \A c \in Broadcasts : taskId[e] # 0 /\ taskId[c] = taskId[e] => taskId'[c] = taskId'[e]
      BY <2>1, <2>3
    <3>2. ASSUME at[e] \in {"start", "loop", "save", "complete"} PROVE taskId[e] # 0 /\ Listed(e)'
      <4>1. taskId[e] \in 1..Seconds /\ Listed(e)
        BY <3>2 DEF Registered, BroadcastTypeOK
      <4> QED BY <2>1, <2>3, <3>1, <4>1 DEF Listed
    <3>3. ASSUME stops[e] \in {"pressed", "done"}, at[e] \notin Over
          PROVE  e \in flag \/ \E c \in Broadcasts \ {e} : taskId'[c] = taskId'[e]
      BY <3>1, <3>3 DEF Registered
    <3> QED BY <2>1, <2>3, <3>2, <3>3 DEF Registered
  <2> QED BY <2>2, <2>3
<1>3. ASSUME NEW b \in Broadcasts, PressStop(b) PROVE Registered(e)'
  <2>1. /\ UNCHANGED <<taskId, active, at>> /\ flag' = flag \cup active[taskId[b]]
        /\ \A c \in Broadcasts : \/ stops'[c] = stops[c]
                                 \/ c = b /\ stops[b] = "shown" /\ stops'[b] \in {"pressed", "done"}
    BY <1>3 DEF PressStop, BroadcastTypeOK
  <2>2. Listed(e)' = Listed(e)
    BY <2>1 DEF Listed
  <2>3. at[e] \notin Over => at[e] \in {"idle", "record", "start", "loop", "save", "complete"}
    BY DEF BroadcastTypeOK
  <2> QED BY <2>1, <2>2, <2>3 DEF Registered, Listed
<1>4. ASSUME UNCHANGED <<taskId, active, flag>>,
             \A c \in Broadcasts : \/ at'[c] = at[c] \/ at'[c] \in Over
                                   \/ at[c] = "idle" /\ at'[c] = "record"
                                   \/ /\ at[c] \in {"start", "loop", "save", "complete"}
                                      /\ at'[c] \in {"start", "loop", "save", "complete"},
             \A c \in Broadcasts : stops'[c] = stops[c] \/ (stops[c] = "pressed" /\ stops'[c] = "done")
      PROVE Registered(e)'
  <2>1. Listed(e)' = Listed(e)
    BY <1>4 DEF Listed
  <2> QED BY <1>4, <2>1 DEF Registered, Over
<1>5. ASSUME NEW d \in Contents, Edit(d) PROVE Registered(e)'
  BY <1>4, <1>5 DEF Edit
<1>6. ASSUME NEW b \in Broadcasts, ConfirmDraft(b) \/ NoMessage(b) \/ RunTask(b) \/ Fail(b)
      PROVE  Registered(e)'
  BY <1>4, <1>6 DEF ConfirmDraft, NoMessage, RunTask, Fail, Begin, NoticeCancel, LeaveLoop, SaveStats,
                    Complete, SendOne, BroadcastTypeOK, Over
<1>7. ASSUME NEW b \in Broadcasts, RecordStop(b) PROVE Registered(e)'
  BY <1>4, <1>7 DEF RecordStop, BroadcastTypeOK
<1> QED BY <1>1, <1>2, <1>3, <1>5, <1>6, <1>7 DEF BroadcastNext

\* It holds in every state.
LEMMA BroadcastAlways == BroadcastSpec => []BroadcastInv
<1>1. BroadcastInv /\ [BroadcastNext]_broadcastVars => BroadcastInv'
  <2>1. ASSUME BroadcastInv, UNCHANGED broadcastVars PROVE BroadcastInv'
    <3>1. UNCHANGED <<draft, clock, status, saved, taskId, active, flag, stops, content, at, rest, got>>
      BY <2>1 DEF broadcastVars, dialogue, records, registry, task
    <3>2. BroadcastTypeOK'
      BY <2>1, <3>1 DEF BroadcastInv, BroadcastTypeOK
    <3>3. ASSUME NEW b \in Broadcasts PROVE Walking(b)' /\ Registered(b)'
      <4>1. Walking(b)'
        BY <2>1, <3>1 DEF BroadcastInv, Walking, Counters, Processed
      <4>2. Registered(b)'
        BY <2>1, <3>1 DEF BroadcastInv, Registered, Listed
      <4> QED BY <4>1, <4>2
    <3> QED BY <3>2, <3>3 DEF BroadcastInv
  <2> QED BY <2>1, BroadcastTypes, BroadcastWalks, BroadcastRegistry DEF BroadcastInv
<1> QED BY <1>1, BroadcastStart, PTL DEF BroadcastSpec

\* Lists of recipients, counters, tasks and flags have their types.
THEOREM BroadcastTypeCorrect == BroadcastSpec => []BroadcastTypeOK
<1>1. BroadcastInv => BroadcastTypeOK
  BY DEF BroadcastInv
<1> QED BY <1>1, BroadcastAlways, PTL

\* A row that says completed has been through all its recipients, each of whom is
\* in its counters: whatever was stopped, failed or lost meanwhile.
THEOREM CompletedCovers == BroadcastSpec => []CompletedCoversAll
<1>1. BroadcastInv => CompletedCoversAll
  BY DEF BroadcastInv, BroadcastTypeOK, Walking, CompletedCoversAll
<1> QED BY <1>1, BroadcastAlways, PTL

\* A stop button reaches its own task, unless another was started in the same
\* second.
THEOREM StopIsAlwaysHeard == BroadcastSpec => []StopIsHeard
<1>1. BroadcastInv => StopIsHeard
  BY DEF BroadcastInv, BroadcastTypeOK, Registered, StopIsHeard
<1> QED BY <1>1, BroadcastAlways, PTL
------------------------------------------------------------------------------
(* Reminders.  A row that was reminded of and is not due any more is past its *)
(* window, or will be when the task looks again; one that is due is within    *)
(* it, and has been counted as often as its client's message was sent.        *)

\* The end of the window in which n is due, as the days left count it.
Passed(n, t) == Deadline[n[1]] - t < Day * n[2]
NotBefore(n, t) == Deadline[n[1]] - t < Day * n[2] + Day

RemindingOf(n) ==
    /\ recorded[n] <= reminded[n] /\ reminded[n] <= 1
    /\ worker = "start" => reminded[n] = 0
    /\ worker = "sleep" /\ reminded[n] = 1 => Passed(n, wake)
    /\ n \notin due /\ reminded[n] = 1 /\ worker # "sleep" => Passed(n, now)
    /\ n \in due => NotBefore(n, now)
    /\ n \in due /\ (worker = "render" \/ Debtor[n[1]] \in toSend) => reminded[n] = 0
    /\ n \in due /\ Debtor[n[1]] \in reached => reminded[n] = 1 /\ recorded[n] = 0

RemindersInv ==
    /\ RemindersTypeOK
    /\ worker \in {"start", "sleep"} => due = {}
    /\ worker \in {"start", "sleep", "render", "persist"} => toSend = {}
    /\ worker \in {"start", "sleep", "render"} => reached = {}
    /\ \A n \in Notices : RemindingOf(n)

\* What it means that p days are left.
LEMMA DaysAreWindows ==
    ASSUME NEW left \in Int, NEW p \in Phases, left \div Day = p
    PROVE  Day * p <= left /\ left < Day * p + Day
BY RemindersAssumption DEF Phases

\* The end of a window is a number, and passes for good.
LEMMA WindowsPass ==
    ASSUME NEW n \in Notices, NEW t \in Int, NEW u \in Int, t <= u
    PROVE  /\ Passed(n, t) => Passed(n, u)
           /\ NotBefore(n, t) => NotBefore(n, u)
           /\ Passed(n, t) \/ NotBefore(n, t) => Passed(n, t + Day)
<1>1. Deadline[n[1]] \in Int /\ Day \in Nat /\ n[2] \in Phases
  BY RemindersAssumption DEF Notices
<1>2. Day * n[2] \in Int
  BY <1>1 DEF Phases
<1> QED BY <1>1, <1>2 DEF Passed, NotBefore

\* What a message counts.
LEMMA CountedCounts ==
    ASSUME NEW f \in [Notices -> Nat], NEW S
    PROVE  /\ Counted(f, S) \in [Notices -> Nat]
           /\ \A n \in Notices : Counted(f, S)[n] =
                  IF n \in due /\ Debtor[n[1]] \in S THEN f[n] + 1 ELSE f[n]
BY DEF Counted

\* It holds at the start.
LEMMA RemindersStart == RemindersInit => RemindersInv
BY RemindersAssumption DEF RemindersInit, RemindersInv, RemindersTypeOK, RemindingOf, Never

\* Every step keeps the types.
LEMMA RemindersTypes == ASSUME RemindersInv, RemindersNext PROVE RemindersTypeOK'
<1> RemindersTypeOK /\ Day \in Nat \ {0} /\ Recheck \in 1..Day /\ Horizon \in Nat
  BY RemindersAssumption DEF RemindersInv
<1>1. CASE Look
  <2>1. due' \subseteq Notices
    BY <1>1 DEF Look, Notices, RemindersTypeOK
  <2> QED BY <1>1, <2>1 DEF Look, RemindersTypeOK
<1>2. CASE LookFails
  BY <1>2 DEF LookFails, RemindersTypeOK
<1>3. CASE Render
  <2>1. toSend' \subseteq Debtors
    BY <1>3 DEF Render, Debtors, Notices, RemindersTypeOK
  <2> QED BY <1>3, <2>1 DEF Render, RemindersTypeOK
<1>4. CASE AllSent
  BY <1>4 DEF AllSent, RemindersTypeOK
<1>5. CASE Sleep
  BY <1>5 DEF Sleep, Nap, RemindersTypeOK
<1>6. ASSUME NEW c \in Debtors, Send(c) PROVE RemindersTypeOK'
  BY <1>6, CountedCounts DEF Send, RemindersTypeOK
<1>7. ASSUME NEW c \in Debtors, Persist(c) PROVE RemindersTypeOK'
  BY <1>7, CountedCounts DEF Persist, RemindersTypeOK
<1>8. CASE Tick
  BY <1>8 DEF Tick, RemindersTypeOK
<1>9. CASE Restart
  BY <1>9 DEF Restart, Never, RemindersTypeOK
<1>10. ASSUME NEW d \in Debts, PayRest(d) PROVE RemindersTypeOK'
  BY <1>10 DEF PayRest, RemindersTypeOK
<1> QED BY <1>1, <1>2, <1>3, <1>4, <1>5, <1>6, <1>7, <1>8, <1>9, <1>10 DEF RemindersNext

\* Every step keeps what is known of a row and the days it had left.
LEMMA RemindersOf == ASSUME RemindersInv, RemindersNext, NEW n \in Notices PROVE RemindingOf(n)'
<1> RemindersTypeOK /\ RemindingOf(n) /\ Day \in Nat \ {0} /\ Recheck \in 1..Day /\ Horizon \in Nat
  BY RemindersAssumption DEF RemindersInv
<1>0. /\ reminded[n] \in Nat /\ recorded[n] \in Nat /\ now \in Int /\ wake \in Int
      /\ Deadline[n[1]] \in Int /\ n[1] \in Debts /\ n[2] \in Phases /\ n = <<n[1], n[2]>>
  BY RemindersAssumption DEF RemindersTypeOK, Notices
<1>1. CASE Look
  <2>1. reminded[n] = 1 => Passed(n, now)
    BY <1>0, <1>1, WindowsPass DEF Look, RemindingOf
  <2>2. n \in due' => NotBefore(n, now) /\ ~Passed(n, now)
    <3> HAVE n \in due'
    <3>1. DaysLeft(n[1]) = n[2]
      BY <1>0, <1>1 DEF Look
    <3> QED BY <1>0, <3>1, DaysAreWindows DEF DaysLeft, Passed, NotBefore
  <2>3. reached = {} /\ UNCHANGED <<now, wake, toSend, reached, reminded,
                                    recorded>> /\ worker' = "render"
    BY <1>1 DEF Look, RemindersInv
  <2> QED BY <1>0, <2>1, <2>2, <2>3 DEF RemindingOf
<1>2. CASE LookFails
  <2>1. worker' = "sleep" /\ wake' \in {now + Recheck, now + Day} /\ wake' \in Int
        /\ UNCHANGED <<now, due, toSend, reached, reminded, recorded>> /\ due = {}
    BY <1>0, <1>2 DEF LookFails, RemindersInv
  <2>2. reminded[n] = 1 => wake <= wake' /\ Passed(n, wake)
    <3>1. worker = "start" \/ (worker = "sleep" /\ now >= wake)
      BY <1>2 DEF LookFails
    <3>2. now >= wake => wake <= wake'
      BY <1>0, <2>1
    <3> QED BY <3>1, <3>2 DEF RemindingOf
  <2>3. reminded[n] = 1 => Passed(n, wake')
    BY <1>0, <2>1, <2>2, WindowsPass
  <2> QED BY <2>1, <2>3 DEF RemindingOf
<1>3. CASE Render
  BY <1>3 DEF Render, RemindersInv, RemindingOf
<1>4. CASE AllSent
  BY <1>4 DEF AllSent, RemindersInv, RemindingOf
<1>5. CASE Sleep
  <2>1. worker = "persist" /\ worker' = "sleep" /\ wake' = now + Day /\ due' = {}
        /\ UNCHANGED <<now, toSend, reached, reminded, recorded>>
    BY <1>5 DEF Sleep, Nap
  <2>2. reminded[n] = 1 => Passed(n, wake')
    <3>1. reminded[n] = 1 => Passed(n, now) \/ NotBefore(n, now)
      BY <2>1 DEF RemindingOf
    <3>2. Passed(n, now) \/ NotBefore(n, now) => Passed(n, now + Day)
      BY <1>0, WindowsPass
    <3> QED BY <2>1, <3>1, <3>2
  <2> QED BY <2>1, <2>2 DEF RemindingOf
<1>6. ASSUME NEW c \in Debtors, Send(c) PROVE RemindingOf(n)'
  <2>1. /\ worker = "send" /\ c \in toSend /\ toSend' = toSend \ {c}
        /\ UNCHANGED <<now, worker, wake, due, recorded>>
        /\ \/ reached' = reached \cup {c} /\ reminded' = Counted(reminded, {c})
           \/ UNCHANGED reached /\ reminded' \in {reminded, Counted(reminded, {c})}
    BY <1>6 DEF Send
  <2>2. Counted(reminded, {c})[n] = IF n \in due /\ Debtor[n[1]] = c THEN reminded[n] + 1 ELSE reminded[n]
    BY CountedCounts DEF RemindersTypeOK
  <2>3. CASE n \in due /\ Debtor[n[1]] = c
    BY <1>0, <2>1, <2>2, <2>3 DEF RemindingOf
  <2>4. CASE ~(n \in due /\ Debtor[n[1]] = c)
    BY <1>0, <2>1, <2>2, <2>4 DEF RemindingOf
  <2> QED BY <2>3, <2>4
<1>7. ASSUME NEW c \in Debtors, Persist(c) PROVE RemindingOf(n)'
  <2>1. /\ worker = "persist" /\ c \in reached /\ reached' = reached \ {c}
        /\ UNCHANGED <<now, worker, wake, due, toSend, reminded>>
        /\ recorded' \in {recorded, Counted(recorded, {c})}
    BY <1>7 DEF Persist
  <2>2. Counted(recorded, {c})[n] = IF n \in due /\ Debtor[n[1]] = c THEN recorded[n] + 1 ELSE recorded[n]
    BY CountedCounts DEF RemindersTypeOK
  <2> QED BY <1>0, <2>1, <2>2 DEF RemindingOf
<1>8. CASE Tick
  <2>1. now' = now + 1 /\ UNCHANGED <<worker, wake, due, toSend, reached, reminded, recorded>>
    BY <1>8 DEF Tick
  <2>2. (Passed(n, now) => Passed(n, now')) /\ (NotBefore(n, now) => NotBefore(n, now'))
    BY <1>0, <2>1, WindowsPass
  <2> QED BY <2>1, <2>2 DEF RemindingOf
<1>9. CASE Restart
  BY <1>9 DEF Restart, Never, RemindingOf
<1>10. ASSUME NEW d \in Debts, PayRest(d) PROVE RemindingOf(n)'
  BY <1>10 DEF PayRest, RemindingOf
<1> QED BY <1>1, <1>2, <1>3, <1>4, <1>5, <1>6, <1>7, <1>8, <1>9, <1>10 DEF RemindersNext

\* What holds in every state.
LEMMA RemindersAlways == RemindersSpec => []RemindersInv
<1>1. RemindersInv /\ [RemindersNext]_reminderVars => RemindersInv'
  <2>1. ASSUME RemindersInv, UNCHANGED reminderVars PROVE RemindersInv'
    BY <2>1 DEF reminderVars, RemindersInv, RemindersTypeOK, RemindingOf
  <2>2. ASSUME RemindersInv, RemindersNext PROVE RemindersInv'
    <3>1. /\ worker' \in {"start", "sleep"} => due' = {}
          /\ worker' \in {"start", "sleep", "render", "persist"} => toSend' = {}
          /\ worker' \in {"start", "sleep", "render"} => reached' = {}
      BY <2>2 DEF RemindersInv, RemindersNext, Look, LookFails, Render, AllSent, Sleep, Send, Persist,
                  Tick, Restart, PayRest
    <3> QED BY <2>2, <3>1, RemindersTypes, RemindersOf DEF RemindersInv
  <2> QED BY <2>1, <2>2
<1> QED BY <1>1, RemindersStart, PTL DEF RemindersSpec

\* The loop is at one of its places, and its lists are of rows and clients there
\* are.
THEOREM RemindersTypeCorrect == RemindersSpec => []RemindersTypeOK
<1>1. RemindersInv => RemindersTypeOK
  BY DEF RemindersInv
<1> QED BY <1>1, RemindersAlways, PTL

\* One process never reminds of the same row twice with the same number of days
\* left, however late it runs and whatever fails; and it records no reminder that
\* was not sent.
THEOREM OnlyRemindedOnce == RemindersSpec => []RemindedOnce
<1>1. RemindersInv => RemindedOnce
  BY DEF RemindersInv, RemindingOf, RemindedOnce
<1> QED BY <1>1, RemindersAlways, PTL
------------------------------------------------------------------------------
(* The log handler.  What was emitted and is nowhere is at least nothing, and *)
(* something only once the queue was full or the worker is stopped.           *)

LogSum == Queued + Sending + shown + suppressed

Lossy == overflowed \/ stop = "done"

LogInv == LogCountsOK /\ LogSum \in Nat /\ LogSum <= emitted /\ (LogSum = emitted \/ Lossy)

\* Any set of places in a sequence is finite.
LEMMA IndicesFinite == ASSUME NEW n \in Nat, NEW I, I \subseteq 1..n
                       PROVE  IsFiniteSet(I) /\ Cardinality(I) \in Nat
<1>1. IsFiniteSet(1..n)
  BY FS_Interval
<1> QED BY <1>1, FS_Subset, FS_CardinalityType

\* An entry at the end of a sequence is counted unless it is the stop signal.
LEMMA RecordsAppend ==
    ASSUME NEW S, NEW q \in Seq(S), NEW e
    PROVE  /\ Records(q) \in Nat
           /\ Records(Append(q, e)) = Records(q) + IF e = Stop THEN 0 ELSE 1
<1> DEFINE I == {i \in DOMAIN q : q[i] # Stop}
           J == {i \in DOMAIN Append(q, e) : Append(q, e)[i] # Stop}
<1>1. DOMAIN q = 1..Len(q) /\ Len(q) \in Nat
  OBVIOUS
<1>2. /\ DOMAIN Append(q, e) = 1..Len(q) + 1 /\ Append(q, e)[Len(q) + 1] = e
      /\ \A i \in 1..Len(q) : Append(q, e)[i] = q[i]
  OBVIOUS
<1>3. IsFiniteSet(I) /\ Cardinality(I) \in Nat
  BY <1>1, IndicesFinite
<1>4. J = IF e = Stop THEN I ELSE I \cup {Len(q) + 1}
  BY <1>1, <1>2
<1>5. Len(q) + 1 \notin I
  BY <1>1
<1> HIDE DEF I, J
<1>6. Cardinality(J) = Cardinality(I) + IF e = Stop THEN 0 ELSE 1
  <2>1. Cardinality(I \cup {Len(q) + 1}) = Cardinality(I) + 1
    BY <1>3, <1>5, FS_AddElement
  <2> QED BY <1>3, <1>4, <2>1
<1> QED BY <1>3, <1>6 DEF Records, I, J

\* An entry is taken from the front, and the others move up.
LEMMA RecordsTail ==
    ASSUME NEW S, NEW q \in Seq(S), q # <<>>
    PROVE  /\ Records(q) \in Nat /\ Records(Tail(q)) \in Nat
           /\ Records(q) = Records(Tail(q)) + IF Head(q) = Stop THEN 0 ELSE 1
<1> DEFINE I == {i \in DOMAIN q : q[i] # Stop}
           J == {i \in DOMAIN Tail(q) : Tail(q)[i] # Stop}
           K == {i \in I : i # 1}
           up == [j \in J |-> j + 1]
<1>1. DOMAIN q = 1..Len(q) /\ Len(q) \in Nat \ {0} /\ Head(q) = q[1]
  OBVIOUS
<1>2. /\ DOMAIN Tail(q) = 1..Len(q) - 1
      /\ \A j \in 1..Len(q) - 1 : Tail(q)[j] = q[j + 1]
  OBVIOUS
<1>3. IsFiniteSet(I) /\ Cardinality(I) \in Nat /\ IsFiniteSet(J) /\ Cardinality(J) \in Nat
  <2>1. I \subseteq 1..Len(q) /\ J \subseteq 1..(Len(q) - 1) /\ Len(q) - 1 \in Nat
    BY <1>1, <1>2
  <2> HIDE DEF I, J
  <2> QED BY <1>1, <2>1, IndicesFinite
<1>4. I = IF Head(q) = Stop THEN K ELSE K \cup {1}
  BY <1>1
<1>5. \A i \in K : i - 1 \in J /\ up[i - 1] = i
  BY <1>1, <1>2
<1>6. up \in [J -> K] /\ \A j, k \in J : up[j] = up[k] => j = k
  BY <1>1, <1>2
<1>7. 1 \notin K /\ K \subseteq I
  OBVIOUS
<1> HIDE DEF I, J, K, up
<1>8. up \in Bijection(J, K)
  <2>1. \A i \in K : \E j \in J : up[j] = i
    BY <1>5
  <2> QED BY <1>6, <2>1, Fun_IsBij
<1>9. IsFiniteSet(K) /\ Cardinality(K) = Cardinality(J)
  BY <1>3, <1>8, FS_Bijection, Fun_ExistsBij
<1>10. Cardinality(I) = Cardinality(K) + IF Head(q) = Stop THEN 0 ELSE 1
  <2>1. CASE Head(q) = Stop
    BY <1>3, <1>4, <1>9, <2>1
  <2>2. CASE Head(q) # Stop
    <3>1. Cardinality(K \cup {1}) = Cardinality(K) + 1
      BY <1>7, <1>9, FS_AddElement
    <3> QED BY <1>4, <2>2, <3>1
  <2> QED BY <2>1, <2>2
<1> QED BY <1>3, <1>9, <1>10 DEF Records, I, J

\* It holds at the start.
LEMMA LogStart == LogInit => LogInv
<1> SUFFICES ASSUME LogInit PROVE LogInv
  OBVIOUS
<1>1. LogCountsOK
  <2>1. <<>> \in Seq(Fingerprints) /\ <<>> \in Seq(Fingerprints \cup {Stop}) /\ Len(<<>>) = 0
    OBVIOUS
  <2>2. cache \in [Fingerprints -> 0..LastTime] /\ sender \in 0..Off
    BY LogAssumption DEF LogInit, Off
  <2>3. time \in Window..LastTime
    BY LogAssumption DEF LogInit
  <2> QED BY <2>1, <2>2, <2>3, LogAssumption DEF LogInit, LogCountsOK
<1>2. Records(<<>>) = 0
  <2>1. {i \in DOMAIN <<>> : <<>>[i] # Stop} = {}
    OBVIOUS
  <2> QED BY <2>1, FS_EmptySet DEF Records
<1>3. LogSum = 0
  BY <1>2, LogAssumption DEF LogInit, LogSum, Queued, Sending, Off
<1> QED BY <1>1, <1>3 DEF LogInit, LogInv

\* A record that is not sent is counted, one that is sent is in the message.
LEMMA EntryGoes ==
    ASSUME LogCountsOK, sender = 0, NEW f \in Fingerprints, Suppress(f) \/ Pass(f)
    PROVE  /\ sender' \in Nat /\ suppressed' \in Nat /\ sender' + suppressed' = suppressed + 1
           /\ cache' \in [Fingerprints -> 0..LastTime]
           /\ lastSent' \in 0..LastTime /\ lastReport' \in 0..LastTime
<1>1. time \in 0..LastTime
  BY LogAssumption DEF LogCountsOK
<1>2. CASE Suppress(f)
  <2>1. suppressed \in Nat /\ sender = 0 /\ lastSent \in 0..LastTime /\ lastReport \in 0..LastTime
        /\ cache \in [Fingerprints -> 0..LastTime]
    BY DEF LogCountsOK
  <2>2. \/ /\ sender' = suppressed + 1 /\ suppressed' = 0 /\ cache' = cache
           /\ lastReport' = time /\ lastSent' = time
        \/ /\ suppressed' = suppressed + 1 /\ cache' = cache
           /\ UNCHANGED <<sender, lastReport, lastSent>>
    BY <1>2 DEF Suppress, OneMore
  <2> QED BY <1>1, <2>1, <2>2
<1>3. CASE Pass(f)
  <2> DEFINE V(g) == IF g = f THEN time ELSE IF time - cache[g] > Window THEN 0 ELSE cache[g]
  <2>1. cache' \in [Fingerprints -> 0..LastTime]
    <3>1. \A g \in Fingerprints : cache[g] \in 0..LastTime /\ 0 \in 0..LastTime
      BY LogAssumption DEF LogCountsOK
    <3>2. \A g \in Fingerprints : V(g) \in 0..LastTime
      BY <1>1, <3>1
    <3>3. cache' = [g \in Fingerprints |-> V(g)]
      BY <1>3 DEF Pass
    <3> HIDE DEF V
    <3> QED BY <3>2, <3>3
  <2>2. sender' = 1 /\ lastSent' = time /\ UNCHANGED <<suppressed, lastReport>>
    BY <1>3 DEF Pass
  <2> QED BY <1>1, <2>1, <2>2 DEF LogCountsOK
<1> QED BY <1>2, <1>3

\* Every step keeps the account.
LEMMA LogStep == ASSUME LogInv, LogNext PROVE LogInv'
<1> DEFINE E == Fingerprints \cup {Stop}
<1>0. /\ LogCountsOK /\ Records(queue) \in Nat /\ Len(pending) \in Nat /\ Len(queue) \in Nat
      /\ queue \in Seq(E) /\ pending \in Seq(Fingerprints)
      /\ LogSum = Len(pending) + Records(queue) + Sending + shown + suppressed
      /\ Sending \in 0..MaxEmits /\ Off \notin 0..MaxEmits /\ MaxEmits \in Nat
      /\ emitted \in 0..MaxEmits /\ shown \in Nat /\ suppressed \in Nat
      /\ LogSum <= emitted /\ LogSum \in Nat /\ (LogSum = emitted \/ Lossy)
  <2>1. Records(queue) \in Nat
    BY RecordsAppend DEF LogInv, LogCountsOK
  <2> QED BY <2>1, LogAssumption DEF LogInv, LogCountsOK, LogSum, Queued, Sending, Off
<1>9. Lossy => Lossy'
  BY DEF Lossy, LogNext, Emit, TryPut, ProcessEntry, SendRawMessage, TakeStop, Shutdown, ShutdownStep,
         PutStop, WorkerEnded, ShutdownTimeout, LogTick
<1>11. /\ Len(pending) \in Nat /\ Records(queue) \in Nat
       /\ Sending \in Nat /\ shown \in Nat /\ suppressed \in Nat
  BY <1>0
<1>12. /\ LogSum = Queued + Sending + shown + suppressed /\ Queued \in Nat
       /\ LogSum' = Queued' + Sending' + shown' + suppressed'
  BY <1>11 DEF LogSum, Queued
<1>13. emitted \in Nat /\ LogSum \in Nat /\ LogSum <= emitted /\ (LogSum = emitted \/ Lossy)
  BY <1>0
\* Whoever keeps the sum, or loses from it and says so, keeps the invariant.
<1>14. ASSUME LogCountsOK', LogSum' \in Nat, emitted' = emitted,
              LogSum' = LogSum \/ (LogSum' <= LogSum /\ Lossy')
       PROVE  LogInv'
  <2>1. LogSum' <= emitted /\ (LogSum' = emitted \/ Lossy')
    BY <1>9, <1>13, <1>14
  <2> QED BY <1>14, <2>1 DEF LogInv
<1>1. ASSUME NEW f \in Fingerprints, Emit(f) PROVE LogInv'
  <2>1. /\ emitted' = emitted + 1 /\ emitted < MaxEmits /\ pending' \in Seq(Fingerprints)
        /\ Len(pending') = Len(pending) + 1 /\ Queued' = Queued + 1
        /\ UNCHANGED <<time, queue, sender, cache, lastSent, lastReport, suppressed, shown, overflowed,
                       stop>>
    BY <1>0, <1>1 DEF Emit, Queued
  <2>2. LogCountsOK'
    BY <1>0, <2>1 DEF LogCountsOK
  <2>3. LogSum' = LogSum + 1 /\ LogSum \in Nat
    <3>1. Sending' = Sending
      BY <2>1 DEF Sending
    <3> QED BY <1>11, <1>12, <2>1, <3>1
  <2>4. LogSum' \in Nat /\ LogSum' <= emitted' /\ (LogSum' = emitted' \/ Lossy)
    <3>1. emitted \in Nat /\ emitted' = emitted + 1
      BY <1>0, <2>1
    <3>2. LogSum <= emitted /\ (LogSum = emitted \/ Lossy)
      BY <1>0
    <3> QED BY <2>3, <3>1, <3>2
  <2> QED BY <1>9, <2>2, <2>4 DEF LogInv
<1>2. CASE TryPut
  <2>1. /\ Len(pending') = Len(pending) - 1 /\ pending' \in Seq(Fingerprints)
        /\ Head(pending) \in Fingerprints
    BY <1>0, <1>2 DEF TryPut
  <2>5. UNCHANGED <<time, emitted, sender, cache, lastSent, lastReport, suppressed, shown, stop>>
        /\ Sending' = Sending
    BY <1>2 DEF TryPut, Sending
  <2>2. Head(pending) # Stop /\ QueueSize \in Nat \ {0}
    BY <2>1, LogAssumption
  <2>3. CASE Len(queue) < QueueSize
    <3>1. queue' = Append(queue, Head(pending)) /\ UNCHANGED overflowed
      BY <1>2, <2>3 DEF TryPut
    <3>2. queue' \in Seq(E) /\ Len(queue') = Len(queue) + 1
      BY <1>0, <2>1, <3>1
    <3>3. Records(queue') = Records(queue) + 1
      BY <1>0, <2>2, <3>1, RecordsAppend
    <3>4. LogSum' = LogSum
      BY <1>0, <2>1, <2>5, <3>3 DEF LogSum, Queued
    <3>5. Len(queue') <= QueueSize
      BY <1>0, <2>2, <2>3, <3>2
    <3>6. LogCountsOK'
      BY <1>0, <2>1, <2>5, <3>2, <3>5 DEF LogCountsOK
    <3> QED BY <1>13, <1>14, <2>5, <3>4, <3>6
  <2>4. CASE ~(Len(queue) < QueueSize)
    <3>1. queue' = Append(Tail(queue), Head(pending)) /\ overflowed' = TRUE
      BY <1>2, <2>4 DEF TryPut
    <3>2. /\ queue # <<>> /\ Tail(queue) \in Seq(E)
          /\ queue' \in Seq(E) /\ Len(queue') = Len(queue)
      BY <1>0, <2>1, <2>2, <2>4, <3>1
    <3>3. Records(queue') = Records(Tail(queue)) + 1 /\ Records(Tail(queue)) \in Nat
      BY <2>2, <3>1, <3>2, RecordsAppend
    <3>4. Records(queue) \in {Records(Tail(queue)), Records(Tail(queue)) + 1}
      BY <1>0, <3>2, <3>3, RecordsTail
    <3>5. LogSum' \in {LogSum, LogSum - 1} /\ LogSum' \in Nat
      <4>1. Len(pending') = Len(pending) - 1 /\ Len(pending') \in Nat
        BY <2>1
      <4>2. Sending' = Sending /\ shown' = shown /\ suppressed' = suppressed
        BY <2>5
      <4>3. Queued' = Len(pending') + Records(queue') /\ Queued = Len(pending) + Records(queue)
        BY DEF Queued
      <4>4. Queued' \in {Queued, Queued - 1} /\ Queued' \in Nat
        <5>1. CASE Records(queue) = Records(Tail(queue))
          BY <1>11, <3>3, <4>1, <4>3, <5>1
        <5>2. CASE Records(queue) = Records(Tail(queue)) + 1
          BY <1>11, <3>3, <4>1, <4>3, <5>2
        <5> QED BY <3>4, <5>1, <5>2
      <4>5. LogSum' = Queued' + Sending + shown + suppressed /\ LogSum = Queued + Sending + shown + suppressed
        BY <4>2 DEF LogSum
      <4>6. Queued \in Nat /\ Sending + shown + suppressed \in Nat
        BY <1>11, <4>3
      <4>7. CASE Queued' = Queued
        BY <1>11, <4>4, <4>5, <4>7
      <4>8. CASE Queued' = Queued - 1
        BY <1>11, <4>4, <4>5, <4>6, <4>8
      <4> QED BY <4>4, <4>7, <4>8
    <3>6. LogCountsOK'
      BY <1>0, <2>1, <2>5, <3>2 DEF LogCountsOK
    <3>7. Lossy'
      BY <3>1 DEF Lossy
    <3>8. LogSum' <= LogSum
      BY <1>13, <3>5
    <3> QED BY <1>14, <2>5, <3>5, <3>6, <3>7, <3>8
  <2> QED BY <2>3, <2>4
<1>3. CASE ProcessEntry
  <2>1. /\ sender = 0 /\ queue # <<>> /\ Head(queue) # Stop /\ queue' = Tail(queue)
        /\ Suppress(Head(queue)) \/ Pass(Head(queue))
    BY <1>3 DEF ProcessEntry
  <2>2. UNCHANGED <<time, emitted, pending, shown, overflowed, stop>>
    BY <1>3 DEF ProcessEntry
  <2>3. Head(queue) \in Fingerprints /\ queue' \in Seq(E) /\ Len(queue') <= Len(queue)
    BY <1>0, <2>1
  <2>4. Records(queue) = Records(queue') + 1 /\ Records(queue') \in Nat
    BY <1>0, <2>1, RecordsTail
  <2>5. /\ sender' \in Nat /\ suppressed' \in Nat /\ sender' + suppressed' = suppressed + 1
        /\ cache' \in [Fingerprints -> 0..LastTime]
        /\ lastSent' \in 0..LastTime /\ lastReport' \in 0..LastTime
    BY <1>0, <2>1, <2>3, EntryGoes
  <2>6. suppressed + 1 <= MaxEmits
    <3>1. suppressed + 1 <= LogSum
      <4>1. Queued \in Nat \ {0}
        BY <1>11, <2>4 DEF Queued
      <4> QED BY <1>11, <1>12, <4>1
    <3>2. LogSum <= MaxEmits
      BY <1>0
    <3> QED BY <1>0, <3>1, <3>2
  <2>7. sender' \in 0..MaxEmits /\ suppressed' \in 0..MaxEmits
    <3>1. \A a, b \in Nat : a + b = suppressed + 1 => a \in 0..MaxEmits /\ b \in 0..MaxEmits
      BY <1>0, <2>6
    <3> QED BY <2>5, <3>1
  <2>8. Sending = 0 /\ Sending' = sender'
    BY <1>0, <2>1, <2>7 DEF Sending
  <2>9. LogSum' = LogSum
    <3>1. pending' = pending /\ shown' = shown
      BY <2>2
    <3>2. Queued' = Len(pending) + Records(queue') /\ Queued = Len(pending) + Records(queue)
      BY <3>1 DEF Queued
    <3>3. Queued' \in Nat /\ Queued = Queued' + 1
      BY <1>11, <2>4, <3>2
    <3> DEFINE told == sender' + suppressed'
    <3>4. told = suppressed + 1 /\ told \in Nat
      <4>1. sender' + suppressed' = suppressed + 1
        BY <2>5
      <4> QED BY <1>11, <4>1
    <3>5. Queued' + told + shown = Queued + suppressed + shown
      <4> HIDE DEF told
      <4> QED BY <1>11, <3>3, <3>4
    <3>6. LogSum' = Queued' + sender' + shown + suppressed' /\ LogSum = Queued + 0 + shown + suppressed
      BY <2>8, <3>1 DEF LogSum
    <3>7. LogSum' = Queued' + told + shown
      <4>1. sender' \in Nat /\ suppressed' \in Nat /\ Queued' \in Nat /\ shown \in Nat
        BY <1>11, <2>5, <3>3
      <4> QED BY <3>6, <4>1
    <3>8. LogSum = Queued + suppressed + shown
      BY <1>11, <3>3, <3>6
    <3> QED BY <3>5, <3>7, <3>8
  <2>10. sender' \in 0..Off /\ Len(queue') <= QueueSize
    BY <1>0, <2>3, <2>7, LogAssumption DEF LogCountsOK, Off
  <2>11. LogCountsOK'
    BY <1>0, <2>2, <2>3, <2>5, <2>7, <2>10 DEF LogCountsOK
  <2> QED BY <1>13, <1>14, <2>2, <2>9, <2>11
<1>4. CASE SendRawMessage
  <2>1. /\ sender \in 1..MaxEmits /\ shown' = shown + sender /\ sender' = 0
        /\ UNCHANGED <<time, emitted, pending, queue, cache, lastSent, lastReport, suppressed,
                       overflowed, stop>>
    BY <1>4 DEF SendRawMessage
  <2>2. Sending = sender /\ Sending' = 0
    BY <1>0, <2>1 DEF Sending, Off
  <2>3. LogSum' = LogSum
    <3>1. Queued' = Queued
      BY <2>1 DEF Queued
    <3> QED BY <1>11, <1>12, <2>1, <2>2, <3>1
  <2>4. shown' \in 0..MaxEmits
    <3>1. shown' <= LogSum /\ shown' \in Nat
      BY <1>11, <1>12, <2>1, <2>2
    <3> QED BY <1>0, <3>1
  <2>5. LogCountsOK'
    BY <1>0, <2>1, <2>4 DEF LogCountsOK, Off
  <2> QED BY <1>13, <1>14, <2>1, <2>3, <2>5
<1>5. CASE TakeStop
  <2>1. sender = 0 /\ queue # <<>> /\ Head(queue) = Stop /\ queue' = Tail(queue) /\ sender' = Off
    BY <1>5 DEF TakeStop
  <2>2. UNCHANGED <<time, emitted, pending, cache, lastSent, lastReport, suppressed, shown, overflowed,
                    stop>>
    BY <1>5 DEF TakeStop
  <2>3. queue' \in Seq(E) /\ Len(queue') <= Len(queue)
    BY <1>0, <2>1
  <2>4. Records(queue) = Records(queue')
    <3>1. Records(Tail(queue)) \in Nat
          /\ Records(queue) = Records(Tail(queue)) + IF Head(queue) = Stop THEN 0 ELSE 1
      BY <1>0, <2>1, RecordsTail
    <3> QED BY <2>1, <3>1
  <2>5. Sending = 0 /\ Sending' = 0
    BY <1>0, <2>1 DEF Sending
  <2>6. LogSum' = LogSum
    <3>1. Queued' = Queued
      BY <2>2, <2>4 DEF Queued
    <3> QED BY <1>12, <2>2, <2>5, <3>1
  <2>7. sender' \in 0..Off /\ Len(queue') <= QueueSize
    BY <1>0, <2>1, <2>3, LogAssumption DEF LogCountsOK, Off
  <2>8. LogCountsOK'
    BY <1>0, <2>2, <2>3, <2>7 DEF LogCountsOK
  <2> QED BY <1>13, <1>14, <2>2, <2>6, <2>8
<1>6. CASE Shutdown \/ WorkerEnded \/ LogTick
  <2>1. UNCHANGED <<emitted, pending, queue, sender, cache, lastSent, lastReport, suppressed, shown,
                    overflowed>>
    BY <1>6 DEF Shutdown, WorkerEnded, LogTick
  <2>2. stop' \in {"no", "putting", "waiting", "done"}
    BY <1>0, <1>6 DEF Shutdown, WorkerEnded, LogTick, LogCountsOK
  <2>3. time' \in Window..LastTime
    <3>1. time' = time \/ (time < LastTime /\ time' = time + 1)
      BY <1>6 DEF Shutdown, WorkerEnded, LogTick
    <3>2. time \in Window..LastTime
      BY <1>0 DEF LogCountsOK
    <3> QED BY <3>1, <3>2, LogAssumption
  <2>4. LogCountsOK'
    BY <1>0, <2>1, <2>2, <2>3 DEF LogCountsOK
  <2>5. LogSum' = LogSum
    BY <2>1 DEF LogSum, Queued, Sending
  <2> QED BY <1>13, <1>14, <2>1, <2>4, <2>5
<1>7. CASE PutStop
  <2>1. /\ stop = "putting" /\ Len(queue) < QueueSize /\ queue' = Append(queue, Stop) /\ stop' = "waiting"
        /\ UNCHANGED <<time, emitted, pending, sender, cache, lastSent, lastReport, suppressed, shown,
                       overflowed>>
    BY <1>7 DEF PutStop
  <2>2. queue' \in Seq(E) /\ Len(queue') = Len(queue) + 1
    BY <1>0, <2>1
  <2>3. Records(queue') = Records(queue)
    BY <1>0, <2>1, RecordsAppend
  <2>4. LogSum' = LogSum
    BY <2>1, <2>3 DEF LogSum, Queued, Sending
  <2>5. LogCountsOK'
    <3>1. Len(queue') <= QueueSize /\ stop' \in {"no", "putting", "waiting", "done"}
      BY <1>0, <2>1, <2>2, LogAssumption
    <3> QED BY <1>0, <2>1, <2>2, <3>1 DEF LogCountsOK
  <2> QED BY <1>13, <1>14, <2>1, <2>4, <2>5
<1>8. CASE ShutdownTimeout
  <2>1. /\ stop' = "done" /\ sender' = Off
        /\ UNCHANGED <<time, emitted, pending, queue, cache, lastSent, lastReport, suppressed, shown,
                       overflowed>>
    BY <1>8 DEF ShutdownTimeout
  <2>2. Sending' = 0
    BY <2>1 DEF Sending
  <2>3. LogSum' \in Nat /\ LogSum' <= LogSum
    <3>1. Queued' = Queued
      BY <2>1 DEF Queued
    <3> QED BY <1>11, <1>12, <2>1, <2>2, <3>1
  <2>4. LogCountsOK'
    BY <1>0, <2>1 DEF LogCountsOK, Off
  <2>5. Lossy'
    BY <2>1 DEF Lossy
  <2> QED BY <1>14, <2>1, <2>3, <2>4, <2>5
<1> QED BY <1>1, <1>2, <1>3, <1>4, <1>5, <1>6, <1>7, <1>8 DEF LogNext, ShutdownStep

\* What holds in every state.
LEMMA LogAlways == LogSpec => []LogInv
<1>1. LogInv /\ [LogNext]_logVars => LogInv'
  <2>1. ASSUME LogInv, UNCHANGED logVars PROVE LogInv'
    BY <2>1 DEF logVars, LogInv, LogCountsOK, LogSum, Queued, Sending, Lossy
  <2> QED BY <2>1, LogStep
<1> QED BY <1>1, LogStart, PTL DEF LogSpec

\* The queue holds records and stop signals and never more than its size, and the
\* counters stay within what was emitted.
THEOREM LogTypeCorrect == LogSpec => []LogTypeOK
<1>1. LogInit => overflowed \in BOOLEAN
  BY DEF LogInit
<1>2. overflowed \in BOOLEAN /\ [LogNext]_logVars => (overflowed \in BOOLEAN)'
  BY DEF LogNext, logVars, Emit, TryPut, ProcessEntry, SendRawMessage, TakeStop, Shutdown,
         ShutdownStep, PutStop, WorkerEnded, ShutdownTimeout, LogTick
<1>3. LogInv => LogCountsOK
  BY DEF LogInv
<1> QED BY <1>1, <1>2, <1>3, LogAlways, PTL DEF LogSpec, LogTypeOK

\* A record is on its way, sent, or counted for a report; none is lost unless the
\* queue was full or the handler is stopped while it sends.
THEOREM LogIsAccounted == LogSpec => []LogAccounted
<1>1. LogInv => LogAccounted
  BY DEF LogInv, LogCountsOK, LogSum, LogAccounted, Lossy
<1> QED BY <1>1, LogAlways, PTL
==============================================================================
