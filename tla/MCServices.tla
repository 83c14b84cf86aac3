------------------------------ MODULE MCServices ------------------------------
(***************************************************************************)
(* The services that share no state with each other, each on an instance   *)
(* of its own: a behaviour is that of one part, the others stay as they    *)
(* are.  A service of which two instances are worth having has two parts.  *)
(***************************************************************************)
EXTENDS BulkSender, Broadcast, PaymentRequests, ClientCodes, DeliveryProofs, Reminders,
    TelegramLog, AdminIdentity, RolePermissions, TLC

CONSTANTS x, y, x1, x2, y1, t1, t2, h1, a1, d1, d2, r1, r2, m1, m2, e1, e2

VARIABLES part

otherVars == <<requestVars, codeVars, proofVars, reminderVars>>
cacheVars == <<identityVars, permissionVars>>
allVars == <<part, vars, broadcastVars, otherVars, logVars, cacheVars>>

\* "loop": a campaign through two clients, one of whom has a late cargo.
LoopOwner == (x1 :> x) @@ (x2 :> x) @@ (y1 :> y)
\* "overlap": two campaigns on a client with a cargo and a late one.
Overlap == INSTANCE BulkSender WITH
    Clients <- {x}, Cargos <- {x1, x2}, Owner <- (x1 :> x) @@ (x2 :> x),
    Imported <- {x1}, Deletable <- {}, Campaigns <- {t1, t2}, Hands <- {}, MaxRetries <- 1
\* "single": one announcement to two clients; "twin": two to one.
OneDraft == {[audience |-> {x}, blank |-> FALSE]}
Twin == INSTANCE Broadcast WITH
    Recipients <- {x}, Drafts <- {}, MaxBroadcasts <- 2, SaveEvery <- 1, Seconds <- 2
\* "requests": by card with wallet money from the web, in cash from the bot.
TwoKinds == {[mode |-> "online", wallet |-> TRUE, web |-> TRUE],
             [mode |-> "cash", wallet |-> FALSE, web |-> FALSE]}
\* "codes": a client with an old code, and one who may come.
OneOldCode == (x :> 2) @@ (y :> 0)
\* "proofs": two requests for one row, or one of them for a cargo; "bulk": one
\* request for two rows.
Bulk == INSTANCE DeliveryProofs WITH Rows <- {r1, r2}, Marks <- {m1}, Fresh <- {}
\* "reminders": two rows of one client, half a day apart.
OneDebtor == (e1 :> x) @@ (e2 :> x)
TwoDeadlines == (e1 :> 6) @@ (e2 :> 5)

ServicesInit ==
    /\ part \in {"loop", "overlap", "twin", "single", "requests", "codes",
                 "proofs", "bulk", "reminders", "log", "identity", "roles"}
    /\ IF part = "overlap" THEN Overlap!Init ELSE Init
    /\ part \notin {"overlap", "loop"} => ~ostatka
    /\ IF part = "twin" THEN Twin!BroadcastInit ELSE BroadcastInit
    /\ RequestsInit
    /\ CodesInit
    /\ part # "codes" => known = People
    /\ IF part = "bulk" THEN Bulk!ProofsInit ELSE ProofsInit
    /\ RemindersInit
    /\ LogInit
    /\ IdentityInit
    /\ PermissionsInit /\ (part # "roles" => grants = <<FALSE>>)

ServicesNext ==
    \/ part = "loop" /\ Next /\ UNCHANGED <<part, broadcastVars, otherVars, logVars, cacheVars>>
    \/ part = "overlap" /\ Overlap!Next /\ UNCHANGED <<part, broadcastVars, otherVars, logVars,
                                                       cacheVars>>
    \/ part = "twin" /\ Twin!BroadcastNext /\ UNCHANGED <<part, vars, otherVars, logVars, cacheVars>>
    \/ part = "single" /\ BroadcastNext /\ UNCHANGED <<part, vars, otherVars, logVars, cacheVars>>
    \/ /\ part = "requests" /\ RequestsNext
       /\ UNCHANGED <<part, vars, broadcastVars, codeVars, proofVars, reminderVars, logVars, cacheVars>>
    \/ /\ part = "codes" /\ CodesNext
       /\ UNCHANGED <<part, vars, broadcastVars, requestVars, proofVars, reminderVars, logVars,
                      cacheVars>>
    \/ /\ part = "proofs" /\ ProofsNext
       /\ UNCHANGED <<part, vars, broadcastVars, requestVars, codeVars, reminderVars, logVars,
                      cacheVars>>
    \/ /\ part = "bulk" /\ Bulk!ProofsNext
       /\ UNCHANGED <<part, vars, broadcastVars, requestVars, codeVars, reminderVars, logVars,
                      cacheVars>>
    \/ /\ part = "reminders" /\ RemindersNext
       /\ UNCHANGED <<part, vars, broadcastVars, requestVars, codeVars, proofVars, logVars, cacheVars>>
    \/ part = "log" /\ LogNext /\ UNCHANGED <<part, vars, broadcastVars, otherVars, cacheVars>>
    \/ /\ part = "identity" /\ IdentityNext
       /\ UNCHANGED <<part, vars, broadcastVars, otherVars, logVars, permissionVars>>
    \/ /\ part = "roles" /\ PermissionsNext
       /\ UNCHANGED <<part, vars, broadcastVars, otherVars, logVars, identityVars>>

\* The processes of different parts, of which a behaviour has only those of
\* its own part, share a fairness condition.
First ==
    \/ part = "loop" /\ Work(t1) /\ UNCHANGED <<part, broadcastVars, otherVars, logVars, cacheVars>>
    \/ part = "overlap" /\ Overlap!Work(t1) /\ UNCHANGED <<part, broadcastVars, otherVars, logVars,
                                                           cacheVars>>
    \/ part = "twin" /\ Twin!RunTask(1) /\ UNCHANGED <<part, vars, otherVars, logVars, cacheVars>>
    \/ part = "single" /\ RunTask(1) /\ UNCHANGED <<part, vars, otherVars, logVars, cacheVars>>
    \/ part = "log" /\ ShutdownStep /\ UNCHANGED <<part, vars, broadcastVars, otherVars, cacheVars>>
Second ==
    \/ part = "loop" /\ Commit(h1) /\ UNCHANGED <<part, broadcastVars, otherVars, logVars, cacheVars>>
    \/ part = "overlap" /\ Overlap!Work(t2) /\ UNCHANGED <<part, broadcastVars, otherVars, logVars,
                                                           cacheVars>>
    \/ part = "twin" /\ Twin!RunTask(2) /\ UNCHANGED <<part, vars, otherVars, logVars, cacheVars>>

ServicesSpec == ServicesInit /\ [][ServicesNext]_allVars /\ WF_allVars(First) /\ WF_allVars(Second)

-----------------------------------------------------------------------------
\* The types of every service.
TypesOK ==
    /\ IF part = "overlap" THEN Overlap!TypeOK ELSE TypeOK
    /\ IF part = "twin" THEN Twin!BroadcastTypeOK ELSE BroadcastTypeOK
    /\ RequestsTypeOK
    /\ CodesTypeOK
    /\ IF part = "bulk" THEN Bulk!ProofsTypeOK ELSE ProofsTypeOK
    /\ RemindersTypeOK
    /\ LogTypeOK
    /\ IdentityTypeOK
    /\ PermissionsTypeOK

\* CampaignEnds for every campaign of both instances.
CampaignsEnd == \A t \in {t1, t2} :
    (t \in DOMAIN pc /\ pc[t] = "launching") ~> (t \in DOMAIN pc => pc[t] \in {"done", "lost"})

\* BroadcastEnds for every announcement of both instances.
BroadcastsEnd == \A b \in {1, 2} :
    (b \in DOMAIN at /\ at[b] = "start") ~> (b \in DOMAIN at => at[b] \in {"done", "lost"})
===============================================================================
