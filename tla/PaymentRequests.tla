---------------------------- MODULE PaymentRequests ----------------------------
(***************************************************************************)
(* How a client's request to pay for one flight reaches the admin who      *)
(* approves it.  A message in the group carries the buttons; how it is to  *)
(* be paid lies beside it in Redis, under keys that name the client and    *)
(* the flight and not the request, for a day.  The bot writes the keys     *)
(* before the message; so does the API, but for a receipt it writes them   *)
(* after it.  An approval reads the keys, books, and deletes them; of a    *)
(* cash payment it reads some of them and leaves them all, and so does a   *)
(* rejection, or an approval that is refused.                              *)
(*                                                                         *)
(* Left out: payment_amount, which is written and never read, and          *)
(* payment_provider, which is read and never written.                      *)
(***************************************************************************)
EXTENDS Naturals, Sequences

CONSTANTS
    MaxRequests,    \* bound on the requests, made in this order
    Kinds,          \* the kinds of request that are made
    Approvals       \* dialogues of admins, one approval after another

Modes == {"online", "cash", "wallet_only"}
AllKinds == {q \in [mode : Modes, wallet : BOOLEAN, web : BOOLEAN] :
                q.mode = "wallet_only" => q.wallet}

ASSUME RequestsAssumption == MaxRequests \in Nat /\ Kinds \subseteq AllKinds

Requests == 1..MaxRequests
Keys == {"receipt", "mode", "wallet", "card"}

VARIABLES
    asked,          \* what each request says: mode, whether wallet is used, where
    step,           \* where a request is
    writes,         \* what it has still to write: keys, and the message
    meta,           \* the keys: the request that wrote each, 0 for none
    approval,       \* dialogues of admins: the request, and what they read
    overlapped      \* history: requests that were not alone, or lost a key

requestVars == <<asked, step, writes, meta, approval, overlapped>>

NoKeys == [k \in Keys |-> 0]
Dialogue(at, r, got) == [at |-> at, req |-> r, got |-> got]
NoApproval == Dialogue("none", 0, NoKeys)
NoKind == [mode |-> "online", wallet |-> FALSE, web |-> FALSE]

RequestsTypeOK ==
    /\ asked \in [Requests -> Kinds \cup {NoKind}]
    /\ step \in [Requests -> {"new", "writing", "posted", "kept", "unsent", "settled"}]
    /\ writes \in [Requests -> Seq(Keys \cup {"message"})]
    /\ meta \in [Keys -> {0} \cup Requests]
    /\ approval \in [Approvals -> [at : {"none", "open", "read", "booked"}, req : {0} \cup Requests,
                                   got : [Keys -> {0} \cup Requests]]]
    /\ overlapped \subseteq Requests

RequestsInit ==
    /\ asked = [r \in Requests |-> NoKind]
    /\ step = [r \in Requests |-> "new"]
    /\ writes = [r \in Requests |-> <<>>]
    /\ meta = NoKeys
    /\ approval = [a \in Approvals |-> NoApproval]
    /\ overlapped = {}

-----------------------------------------------------------------------------
Online(q) == q.mode = "online"

\* _cache_payment_meta and its like in the API: which keys, in which order.
Only(c, k) == IF c THEN <<k>> ELSE <<>>
KeysOf(q) ==
    IF Online(q) THEN <<"receipt", "mode">> \o Only(q.wallet, "wallet") \o Only(~q.web, "card")
    ELSE IF q.web THEN Only(q.wallet, "wallet") \o <<"mode">>
    ELSE <<"mode">> \o Only(q.wallet, "wallet")

Script(q) ==
    IF q.web /\ Online(q) THEN <<"message">> \o KeysOf(q) ELSE KeysOf(q) \o <<"message">>

\* What an approval of it reads: the cash button knows the mode.
Reads(q) == IF q.mode = "cash" THEN {"wallet", "receipt"} ELSE Keys

Unsettled == {r \in Requests : step[r] \notin {"new", "settled"}}
Approving == {a \in Approvals : approval[a].at # "none"}

\* Whatever else is underway for the flight from now on overlaps.
Overlaps(S) == overlapped' = overlapped \cup S

Submit(r, q) ==
    /\ step[r] = "new" /\ \A o \in Requests : o < r => step[o] # "new"
    /\ asked' = [asked EXCEPT ![r] = q]
    /\ step' = [step EXCEPT ![r] = "writing"]
    /\ writes' = [writes EXCEPT ![r] = Script(q)]
    /\ Overlaps(IF Unsettled = {} /\ Approving = {} THEN {} ELSE Unsettled \cup {r})
    /\ UNCHANGED <<meta, approval>>

\* The next key.  A message that is answered at once does not stop it.
WriteKey(r) ==
    /\ writes[r] # <<>> /\ Head(writes[r]) # "message"
    /\ writes' = [writes EXCEPT ![r] = Tail(@)]
    /\ meta' = [meta EXCEPT ![Head(writes[r])] = r]
    /\ UNCHANGED <<asked, step, approval, overlapped>>

\* The message, which may fail and ends the request there.
Post(r) ==
    /\ step[r] = "writing" /\ writes[r] # <<>> /\ Head(writes[r]) = "message"
    /\ \/ /\ step' = [step EXCEPT ![r] = "posted"]
          /\ writes' = [writes EXCEPT ![r] = Tail(@)]
       \/ /\ step' = [step EXCEPT ![r] = "unsent"]
          /\ writes' = [writes EXCEPT ![r] = <<>>]
    /\ UNCHANGED <<asked, meta, approval, overlapped>>

\* The handler stops: Redis fails it, or its process is restarted.
AbortRequest(r) ==
    /\ writes[r] # <<>>
    /\ step' = [step EXCEPT ![r] = IF @ = "writing" THEN "unsent" ELSE @]
    /\ writes' = [writes EXCEPT ![r] = <<>>]
    /\ Overlaps({r})
    /\ UNCHANGED <<asked, meta, approval>>

-----------------------------------------------------------------------------
\* A button of the message, while Telegram still shows it; the amount is typed.
Open(a, r) ==
    /\ approval[a].at = "none" /\ step[r] \in {"posted", "kept", "settled"}
    /\ approval' = [approval EXCEPT ![a] = Dialogue("open", r, NoKeys)]
    /\ Overlaps(IF Approving = {} /\ step[r] # "settled" /\ writes[r] = <<>> THEN {}
                ELSE Unsettled \cup {r})
    /\ UNCHANGED <<asked, step, writes, meta>>

\* The last step of the dialogue, the approval, reads the keys.
ReadMeta(a) ==
    /\ approval[a].at = "open"
    /\ LET r == approval[a].req
       IN  approval' = [approval EXCEPT ![a] = Dialogue("read", r,
               [k \in Keys |-> IF k \in Reads(asked[r]) \ {"receipt"} THEN meta[k] ELSE 0])]
    /\ UNCHANGED <<asked, step, writes, meta, overlapped>>

\* The booking, with the receipt it finds.
BookRequest(a) ==
    /\ approval[a].at = "read"
    /\ approval' = [approval EXCEPT ![a] = Dialogue("booked", approval[a].req,
                   [approval[a].got EXCEPT !["receipt"] = meta["receipt"]])]
    /\ UNCHANGED <<asked, step, writes, meta, overlapped>>

\* The flight is paid already, the admin gives up, or the handler fails or is
\* stopped by a restart.
Drop(a) ==
    /\ approval[a].at # "none"
    /\ approval' = [approval EXCEPT ![a] = NoApproval]
    /\ UNCHANGED <<asked, step, writes, meta, overlapped>>

Ends(a, s) ==
    /\ approval' = [approval EXCEPT ![a] = NoApproval]
    /\ step' = [step EXCEPT ![approval[a].req] = s]

\* Mutant: the wallet key is left.
CleanKeepsWallet(a) ==
    LET r == approval[a].req
    IN  /\ approval[a].at = "booked" /\ asked[r].mode # "cash"
        /\ meta' = [k \in Keys |-> IF k = "wallet" THEN meta[k] ELSE 0]
        /\ Ends(a, IF writes[r] = <<>> THEN "settled" ELSE "kept")
        /\ UNCHANGED <<asked, writes, overlapped>>

\* The keys are deleted.  What the request has not written yet will stay.
Clean(a) ==
    LET r == approval[a].req
    IN  /\ approval[a].at = "booked" /\ asked[r].mode # "cash"
        /\ meta' = NoKeys
        /\ Ends(a, IF writes[r] = <<>> THEN "settled" ELSE "kept")
        /\ UNCHANGED <<asked, writes, overlapped>>

\* Some of them: a restart, or Redis, stops it between two.
CleanPart(a) ==
    /\ approval[a].at = "booked" /\ asked[approval[a].req].mode # "cash"
    /\ \E K \in SUBSET Keys : meta' = [k \in Keys |-> IF k \in K THEN 0 ELSE meta[k]]
    /\ approval' = [approval EXCEPT ![a] = NoApproval]
    /\ Overlaps({approval[a].req})
    /\ UNCHANGED <<asked, step, writes>>

\* cash_payment_amount_received ends without touching the keys.
EndCash(a) ==
    /\ approval[a].at = "booked" /\ asked[approval[a].req].mode = "cash"
    /\ Ends(a, "kept")
    /\ UNCHANGED <<asked, writes, meta, overlapped>>

\* reject_payment: the message loses its buttons, and that is all.
Reject(r) ==
    /\ step[r] = "posted" /\ asked[r].mode # "cash"
    /\ step' = [step EXCEPT ![r] = "kept"]
    /\ UNCHANGED <<asked, writes, meta, approval, overlapped>>

\* A day later; the keys of one request are written within seconds.
ExpireMeta(r) ==
    /\ \E k \in Keys : meta[k] = r
    /\ meta' = [k \in Keys |-> IF meta[k] = r THEN 0 ELSE meta[k]]
    /\ Overlaps(Unsettled)
    /\ UNCHANGED <<asked, step, writes, approval>>

RequestsNext ==
    \/ \E r \in Requests : \/ \E q \in Kinds : Submit(r, q)
                           \/ WriteKey(r) \/ Post(r) \/ AbortRequest(r) \/ Reject(r) \/ ExpireMeta(r)
    \/ \E a \in Approvals : \/ \E r \in Requests : Open(a, r)
                            \/ ReadMeta(a) \/ BookRequest(a) \/ Drop(a)
                            \/ Clean(a) \/ CleanPart(a) \/ EndCash(a)

RequestsSpec == RequestsInit /\ [][RequestsNext]_requestVars

-----------------------------------------------------------------------------
\* What there is to say of a request: a card is shown by the bot only.
Tells(q, k) ==
    \/ k = "mode"
    \/ k = "wallet" /\ q.wallet
    \/ k = "receipt" /\ Online(q)
    \/ k = "card" /\ Online(q) /\ ~q.web

\* A request is booked as it was made, with its own mode, wallet share, card and
\* receipt, if every earlier one for the flight was approved, not in cash, before
\* it came: such an approval leaves nothing that could be taken for a later
\* request's.  (What others leave is: they and the next one overlap.)
BookedAsAsked ==
    \A a \in DOMAIN approval : approval[a].at = "booked" /\ approval[a].req \notin overlapped =>
        LET r == approval[a].req
            own == {k \in Keys : Tells(asked[r], k)}
        IN  \A k \in Reads(asked[r]) : approval[a].got[k] = IF k \in own THEN r ELSE 0
===============================================================================
