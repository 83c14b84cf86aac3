------------------------- MODULE PaymentRequestsProofs -------------------------
(***************************************************************************)
(* A request is booked as it was made, for every number of requests and of *)
(* admins who approve.                                                     *)
(*                                                                         *)
(* The keys in Redis name the flight and not the request, so the argument  *)
(* is about who may have written one.  Every key that is there, and every  *)
(* write that is still to come, is of a request that is not settled; two   *)
(* of them overlap.  A request that does not is alone with the admin who   *)
(* approves it, and what it has to tell is still to be written or there.   *)
(***************************************************************************)
EXTENDS PaymentRequests, TLAPS

Elems(s) == {s[i] : i \in 1..Len(s)}

MetaOwned == \A k \in Keys : meta[k] # 0 => meta[k] \in Unsettled

WritesOwned == \A r \in Requests : writes[r] # <<>> => step[r] \in {"writing", "posted", "kept"}

Pairs == \A r, s \in Unsettled : r # s => r \in overlapped

Served == \A a \in Approving : LET r == approval[a].req IN
    /\ r \in Requests /\ step[r] \in {"posted", "kept", "settled"}
    /\ \A s \in Unsettled \ {r} : s \in overlapped
    /\ r \notin overlapped => /\ step[r] # "settled" /\ writes[r] = <<>>
                              /\ \A b \in Approving : b = a

Complete == \A r \in Unsettled : r \notin overlapped /\ step[r] # "unsent" =>
    \A k \in Keys : Tells(asked[r], k) <=> (k \in Elems(writes[r]) \/ meta[k] = r)

ReadAsAsked == \A a \in Approving : LET r == approval[a].req IN
    approval[a].at # "open" /\ r \notin overlapped =>
        \A k \in Reads(asked[r]) : approval[a].at = "booked" \/ k # "receipt" =>
            approval[a].got[k] = IF Tells(asked[r], k) THEN r ELSE 0

RequestsInv ==
    RequestsTypeOK /\ MetaOwned /\ WritesOwned /\ Pairs /\ Served /\ Complete /\ ReadAsAsked
------------------------------------------------------------------------------
(* What a request writes                                                    *)

\* The first of a sequence, and the rest.
LEMMA TailElems ==
    ASSUME NEW S, NEW s \in Seq(S), s # <<>>
    PROVE  /\ Head(s) \in S /\ Tail(s) \in Seq(S)
           /\ Elems(s) = {Head(s)} \cup Elems(Tail(s))
<1>1. Len(s) \in Nat \ {0} /\ Head(s) = s[1] /\ Tail(s) \in Seq(S) /\ Len(Tail(s)) = Len(s) - 1
      /\ \A i \in 1..Len(s) - 1 : Tail(s)[i] = s[i + 1]
  OBVIOUS
<1>2. \A i \in 1..Len(s) : i = 1 \/ (i - 1 \in 1..Len(s) - 1 /\ s[i] = Tail(s)[i - 1])
  BY <1>1
<1>3. \A i \in 1..Len(s) - 1 : i + 1 \in 1..Len(s)
  BY <1>1
<1>4. ASSUME NEW x \in Elems(s) PROVE x \in {Head(s)} \cup Elems(Tail(s))
  <2> PICK i \in 1..Len(s) : x = s[i]
    BY DEF Elems
  <2> QED BY <1>1, <1>2 DEF Elems
<1>5. ASSUME NEW x \in Elems(Tail(s)) PROVE x \in Elems(s)
  <2> PICK i \in 1..Len(s) - 1 : x = Tail(s)[i]
    BY <1>1 DEF Elems
  <2> QED BY <1>1, <1>3 DEF Elems
<1>6. Head(s) \in Elems(s)
  BY <1>1 DEF Elems
<1>7. Head(s) \in S
  BY <1>1
<1> QED BY <1>1, <1>4, <1>5, <1>6, <1>7

\* Two sequences after each other.
LEMMA ConcatElems ==
    ASSUME NEW S, NEW s \in Seq(S), NEW t \in Seq(S)
    PROVE  s \o t \in Seq(S) /\ Elems(s \o t) = Elems(s) \cup Elems(t)
<1>1. /\ s \o t \in Seq(S) /\ Len(s) \in Nat /\ Len(t) \in Nat /\ Len(s \o t) = Len(s) + Len(t)
      /\ \A i \in 1..Len(s) + Len(t) : (s \o t)[i] = IF i <= Len(s) THEN s[i] ELSE t[i - Len(s)]
  OBVIOUS
<1>2. ASSUME NEW x \in Elems(s \o t) PROVE x \in Elems(s) \cup Elems(t)
  <2> PICK i \in 1..Len(s) + Len(t) : x = (s \o t)[i]
    BY <1>1 DEF Elems
  <2>1. CASE i <= Len(s)
    <3>1. i \in 1..Len(s) /\ x = s[i]
      BY <1>1, <2>1
    <3> QED BY <3>1 DEF Elems
  <2>2. CASE ~(i <= Len(s))
    <3>1. i - Len(s) \in 1..Len(t) /\ x = t[i - Len(s)]
      BY <1>1, <2>2
    <3> QED BY <3>1 DEF Elems
  <2> QED BY <2>1, <2>2
<1>3. ASSUME NEW x \in Elems(s) PROVE x \in Elems(s \o t)
  <2> PICK i \in 1..Len(s) : x = s[i]
    BY DEF Elems
  <2>1. i \in 1..Len(s) + Len(t) /\ x = (s \o t)[i]
    BY <1>1
  <2> QED BY <1>1, <2>1 DEF Elems
<1>4. ASSUME NEW x \in Elems(t) PROVE x \in Elems(s \o t)
  <2> PICK i \in 1..Len(t) : x = t[i]
    BY DEF Elems
  <2>1. Len(s) + i \in 1..Len(s) + Len(t) /\ x = (s \o t)[Len(s) + i]
    BY <1>1
  <2> QED BY <1>1, <2>1 DEF Elems
<1> QED BY <1>1, <1>2, <1>3, <1>4

\* Short ones.
LEMMA OnlyElems ==
    ASSUME NEW S, NEW k \in S, NEW c \in BOOLEAN
    PROVE  Only(c, k) \in Seq(S) /\ Elems(Only(c, k)) = IF c THEN {k} ELSE {}
<1>1. Elems(<<k>>) = {k}
  BY DEF Elems
<1>2. Elems(<<>>) = {}
  BY DEF Elems
<1>3. <<k>> \in Seq(S) /\ <<>> \in Seq(S)
  OBVIOUS
<1>4. CASE c
  BY <1>1, <1>3, <1>4 DEF Only
<1>5. CASE ~c
  BY <1>2, <1>3, <1>5 DEF Only
<1> QED BY <1>4, <1>5

\* A request writes its message, and a key for each thing it has to tell.
LEMMA ScriptTells ==
    ASSUME NEW q \in Kinds
    PROVE  /\ Script(q) \in Seq(Keys \cup {"message"}) /\ Script(q) # <<>>
           /\ \A k \in Keys : k \in Elems(Script(q)) <=> Tells(q, k)
<1> DEFINE S == Keys \cup {"message"}
<1>1. q.wallet \in BOOLEAN /\ q.web \in BOOLEAN
  BY RequestsAssumption DEF AllKinds
<1>2. "wallet" \in S /\ "card" \in S /\ (~q.web) \in BOOLEAN
  BY <1>1 DEF Keys
<1> DEFINE w == Only(q.wallet, "wallet")
           c == Only(~q.web, "card")
           o == <<"receipt", "mode">>
           m == <<"mode">>
           g == <<"message">>
<1>3. w \in Seq(S) /\ Elems(w) = IF q.wallet THEN {"wallet"} ELSE {}
  BY <1>1, <1>2, OnlyElems
<1>4. c \in Seq(S) /\ Elems(c) = IF ~q.web THEN {"card"} ELSE {}
  BY <1>2, OnlyElems
<1>5. o \in Seq(S) /\ Elems(o) = {"receipt", "mode"}
  BY DEF Elems, Keys
<1>6. m \in Seq(S) /\ Elems(m) = {"mode"}
  BY DEF Elems, Keys
<1>7. g \in Seq(S) /\ Elems(g) = {"message"}
  BY DEF Elems
<1> HIDE DEF w, c, o, m, g
<1>8. o \o w \in Seq(S) /\ Elems(o \o w) = Elems(o) \cup Elems(w)
  BY <1>3, <1>5, ConcatElems
<1>9. (o \o w) \o c \in Seq(S) /\ Elems((o \o w) \o c) = Elems(o) \cup Elems(w) \cup Elems(c)
  <2> DEFINE u == o \o w
  <2>1. u \in Seq(S) /\ Elems(u) = Elems(o) \cup Elems(w)
    BY <1>8
  <2> HIDE DEF u
  <2>2. u \o c \in Seq(S) /\ Elems(u \o c) = Elems(u) \cup Elems(c)
    BY <1>4, <2>1, ConcatElems
  <2> QED BY <2>1, <2>2 DEF u
<1>10. w \o m \in Seq(S) /\ Elems(w \o m) = Elems(w) \cup Elems(m)
  BY <1>3, <1>6, ConcatElems
<1>11. m \o w \in Seq(S) /\ Elems(m \o w) = Elems(m) \cup Elems(w)
  BY <1>3, <1>6, ConcatElems
<1>12. KeysOf(q) = IF Online(q) THEN (o \o w) \o c ELSE IF q.web THEN w \o m ELSE m \o w
  BY DEF KeysOf, w, c, o, m
<1>13. KeysOf(q) \in Seq(S) /\ \A k \in Keys : k \in Elems(KeysOf(q)) <=> Tells(q, k)
  <2>1. CASE Online(q)
    BY <1>3, <1>4, <1>5, <1>9, <1>12, <2>1 DEF Tells, Keys
  <2>2. CASE ~Online(q) /\ q.web
    BY <1>3, <1>6, <1>10, <1>12, <2>2 DEF Tells, Keys
  <2>3. CASE ~Online(q) /\ ~q.web
    BY <1>3, <1>6, <1>11, <1>12, <2>3 DEF Tells, Keys
  <2> QED BY <2>1, <2>2, <2>3
<1>14. \A s \in Seq(S) : /\ g \o s \in Seq(S) /\ Elems(g \o s) = Elems(g) \cup Elems(s)
                         /\ s \o g \in Seq(S) /\ Elems(s \o g) = Elems(s) \cup Elems(g)
  BY <1>7, ConcatElems
<1>15. Script(q) = g \o KeysOf(q) \/ Script(q) = KeysOf(q) \o g
  BY DEF Script, g
<1>16. Script(q) \in Seq(S) /\ Elems(Script(q)) = {"message"} \cup Elems(KeysOf(q))
  BY <1>7, <1>13, <1>14, <1>15
<1>17. "message" \notin Keys
  BY DEF Keys
<1>18. Elems(<<>>) = {}
  BY DEF Elems
<1> QED BY <1>13, <1>16, <1>17, <1>18
------------------------------------------------------------------------------
(* Types                                                                    *)

\* What a dialogue may be.
LEMMA DialogueType ==
    ASSUME NEW at \in {"none", "open", "read", "booked"}, NEW r \in {0} \cup Requests,
           NEW got \in [Keys -> {0} \cup Requests]
    PROVE  Dialogue(at, r, got) \in [at : {"none", "open", "read", "booked"}, req : {0} \cup Requests,
                                     got : [Keys -> {0} \cup Requests]]
BY DEF Dialogue

\* No key is a value of the keys.
LEMMA NoKeysType == NoKeys \in [Keys -> {0} \cup Requests]
BY DEF NoKeys

\* Every step keeps the types.
LEMMA RequestsTypes == ASSUME RequestsTypeOK, Served, RequestsNext PROVE RequestsTypeOK'
<1> DEFINE D == [at : {"none", "open", "read", "booked"}, req : {0} \cup Requests,
                 got : [Keys -> {0} \cup Requests]]
<1>0. NoApproval \in D
  BY DialogueType, NoKeysType DEF NoApproval
<1>1. ASSUME NEW r \in Requests, NEW q \in Kinds, Submit(r, q) PROVE RequestsTypeOK'
  <2>1. Script(q) \in Seq(Keys \cup {"message"})
    BY ScriptTells
  <2>2. overlapped' \subseteq Requests
    BY <1>1 DEF Submit, Overlaps, Unsettled, RequestsTypeOK
  <2> QED BY <1>1, <2>1, <2>2 DEF Submit, RequestsTypeOK
<1>2. ASSUME NEW r \in Requests, WriteKey(r) PROVE RequestsTypeOK'
  <2>1. /\ Tail(writes[r]) \in Seq(Keys \cup {"message"})
        /\ Head(writes[r]) \in Keys
    BY <1>2, TailElems DEF WriteKey, RequestsTypeOK
  <2>2. writes' \in [Requests -> Seq(Keys \cup {"message"})]
    BY <1>2, <2>1 DEF WriteKey, RequestsTypeOK
  <2>3. meta' \in [Keys -> {0} \cup Requests]
    BY <1>2, <2>1 DEF WriteKey, RequestsTypeOK
  <2>4. UNCHANGED <<asked, step, approval, overlapped>>
    BY <1>2 DEF WriteKey
  <2> QED BY <2>2, <2>3, <2>4 DEF RequestsTypeOK
<1>13. ASSUME NEW r \in Requests, Post(r) PROVE RequestsTypeOK'
  <2>1. Tail(writes[r]) \in Seq(Keys \cup {"message"}) /\ <<>> \in Seq(Keys \cup {"message"})
    BY <1>13, TailElems DEF Post, RequestsTypeOK
  <2>2. writes' \in [Requests -> Seq(Keys \cup {"message"})]
    BY <1>13, <2>1 DEF Post, RequestsTypeOK
  <2>3. step' \in [Requests -> {"new", "writing", "posted", "kept", "unsent", "settled"}]
    BY <1>13 DEF Post, RequestsTypeOK
  <2>4. UNCHANGED <<asked, meta, approval, overlapped>>
    BY <1>13 DEF Post
  <2> QED BY <2>2, <2>3, <2>4 DEF RequestsTypeOK
<1>3. ASSUME NEW r \in Requests, AbortRequest(r) \/ Reject(r) \/ ExpireMeta(r) PROVE RequestsTypeOK'
  <2>1. <<>> \in Seq(Keys \cup {"message"})
    OBVIOUS
  <2>2. overlapped' \subseteq Requests
    BY <1>3 DEF AbortRequest, Reject, ExpireMeta, Overlaps, Unsettled, RequestsTypeOK
  <2>3. step' \in [Requests -> {"new", "writing", "posted", "kept", "unsent", "settled"}]
    BY <1>3 DEF AbortRequest, Reject, ExpireMeta, RequestsTypeOK
  <2>4. writes' \in [Requests -> Seq(Keys \cup {"message"})]
    BY <1>3, <2>1 DEF AbortRequest, Reject, ExpireMeta, RequestsTypeOK
  <2>5. meta' \in [Keys -> {0} \cup Requests]
    BY <1>3 DEF AbortRequest, Reject, ExpireMeta, RequestsTypeOK
  <2>6. UNCHANGED <<asked, approval>>
    BY <1>3 DEF AbortRequest, Reject, ExpireMeta
  <2> QED BY <2>2, <2>3, <2>4, <2>5, <2>6 DEF RequestsTypeOK
<1>4. ASSUME NEW a \in Approvals, NEW r \in Requests, Open(a, r) PROVE RequestsTypeOK'
  <2>1. Dialogue("open", r, NoKeys) \in D
    BY DialogueType, NoKeysType
  <2>2. overlapped' \subseteq Requests
    BY <1>4 DEF Open, Overlaps, Unsettled, RequestsTypeOK
  <2> QED BY <1>4, <2>1, <2>2 DEF Open, RequestsTypeOK
<1>5. ASSUME NEW a \in Approvals, ReadMeta(a) PROVE RequestsTypeOK'
  <2> DEFINE r == approval[a].req
             got == [k \in Keys |-> IF k \in Reads(asked[r]) \ {"receipt"} THEN meta[k] ELSE 0]
  <2>1. r \in {0} \cup Requests /\ got \in [Keys -> {0} \cup Requests]
    BY DEF RequestsTypeOK
  <2>2. Dialogue("read", r, got) \in D
    BY <2>1, DialogueType
  <2> QED BY <1>5, <2>2 DEF ReadMeta, RequestsTypeOK
<1>6. ASSUME NEW a \in Approvals, BookRequest(a) PROVE RequestsTypeOK'
  <2> DEFINE r == approval[a].req
             got == [approval[a].got EXCEPT !["receipt"] = meta["receipt"]]
  <2>1. r \in {0} \cup Requests /\ got \in [Keys -> {0} \cup Requests]
    BY DEF RequestsTypeOK, Keys
  <2>2. Dialogue("booked", r, got) \in D
    BY <2>1, DialogueType
  <2> QED BY <1>6, <2>2 DEF BookRequest, RequestsTypeOK
<1>7. ASSUME NEW a \in Approvals, Drop(a) \/ Clean(a) \/ EndCash(a) PROVE RequestsTypeOK'
  <2>1. approval' = [approval EXCEPT ![a] = NoApproval] /\ UNCHANGED <<asked, writes, overlapped>>
    BY <1>7 DEF Drop, Clean, EndCash, Ends
  <2>2. step' \in [Requests -> {"new", "writing", "posted", "kept", "unsent", "settled"}]
    BY <1>7 DEF Drop, Clean, EndCash, Ends, RequestsTypeOK
  <2>3. meta' \in [Keys -> {0} \cup Requests]
    BY <1>7, NoKeysType DEF Drop, Clean, EndCash, RequestsTypeOK
  <2> QED BY <1>0, <2>1, <2>2, <2>3 DEF RequestsTypeOK
<1>8. ASSUME NEW a \in Approvals, CleanPart(a) PROVE RequestsTypeOK'
  <2>0. approval[a].req \in Requests
    BY <1>8 DEF CleanPart, Served, Approving
  <2>1. meta' \in [Keys -> {0} \cup Requests]
    BY <1>8 DEF CleanPart, RequestsTypeOK
  <2> QED BY <1>0, <1>8, <2>0, <2>1 DEF CleanPart, Overlaps, RequestsTypeOK
<1> QED
  BY <1>1, <1>2, <1>13, <1>3, <1>4, <1>5, <1>6, <1>7, <1>8 DEF RequestsNext
------------------------------------------------------------------------------
(* The steps keep the invariant                                             *)

\* It holds at the start.
LEMMA RequestsStart == RequestsInit => RequestsInv
<1> SUFFICES ASSUME RequestsInit PROVE RequestsInv
  OBVIOUS
<1>1. RequestsTypeOK
  <2>1. NoApproval \in [at : {"none", "open", "read", "booked"}, req : {0} \cup Requests,
                        got : [Keys -> {0} \cup Requests]]
    BY DialogueType, NoKeysType DEF NoApproval
  <2>2. <<>> \in Seq(Keys \cup {"message"})
    OBVIOUS
  <2> QED BY <2>1, <2>2, NoKeysType DEF RequestsInit, RequestsTypeOK
<1>2. Unsettled = {} /\ Approving = {}
  BY DEF RequestsInit, Unsettled, Approving, NoApproval, Dialogue
<1>3. MetaOwned /\ WritesOwned
  BY DEF RequestsInit, NoKeys, MetaOwned, WritesOwned
<1> QED BY <1>1, <1>2, <1>3 DEF RequestsInv, Pairs, Served, Complete, ReadAsAsked

\* A step of a request that is underway, or of its end: who is unsettled stays so,
\* nobody is approved who was not, and no approval reads anything.
LEMMA SubmitKeeps ==
    ASSUME RequestsInv, RequestsTypeOK', NEW r \in Requests, NEW q \in Kinds, Submit(r, q)
    PROVE  RequestsInv'
<1> RequestsTypeOK
  BY DEF RequestsInv
<1>1. /\ \A s \in Requests : step'[s] = IF s = r THEN "writing" ELSE step[s]
      /\ \A s \in Requests : writes'[s] = IF s = r THEN Script(q) ELSE writes[s]
      /\ \A s \in Requests : asked'[s] = IF s = r THEN q ELSE asked[s]
      /\ UNCHANGED <<meta, approval>> /\ step[r] = "new"
      /\ overlapped' = overlapped \cup IF Unsettled = {} /\ Approving = {} THEN {} ELSE Unsettled \cup {r}
  BY DEF Submit, Overlaps, RequestsTypeOK
<1>2. Unsettled' = Unsettled \cup {r} /\ Approving' = Approving /\ r \notin Unsettled
  BY <1>1 DEF Unsettled, Approving
<1>3. MetaOwned' /\ WritesOwned'
  BY <1>1, <1>2 DEF RequestsInv, MetaOwned, WritesOwned
<1>4. Pairs'
  BY <1>1, <1>2 DEF RequestsInv, Pairs
<1>5. Approving # {} => \A s \in Unsettled' : s \in overlapped'
  BY <1>1, <1>2
<1>6. \A a \in Approving : approval[a].req # r /\ approval[a].req \in Requests
  BY <1>1 DEF RequestsInv, Served
<1>7. Served'
  BY <1>1, <1>2, <1>5, <1>6 DEF RequestsInv, Served
<1>8. ReadAsAsked'
  BY <1>1, <1>2, <1>6 DEF RequestsInv, ReadAsAsked
<1>9. Complete'
  <2> SUFFICES ASSUME NEW s \in Unsettled', s \notin overlapped', step'[s] # "unsent", NEW k \in Keys
               PROVE  Tells(asked'[s], k) <=> (k \in Elems(writes'[s]) \/ meta[k] = s)
    BY <1>1 DEF Complete
  <2>1. CASE s = r
    <3>1. meta[k] # r
      BY <1>2 DEF RequestsInv, MetaOwned, Requests
    <3> QED BY <1>1, <2>1, <3>1, ScriptTells
  <2>2. CASE s # r
    <3>1. s \in Requests /\ s \in Unsettled /\ s \notin overlapped /\ step[s] # "unsent"
      BY <1>1, <1>2, <2>2 DEF Unsettled
    <3> QED BY <1>1, <2>2, <3>1 DEF RequestsInv, Complete
  <2> QED BY <2>1, <2>2
<1> QED BY <1>3, <1>4, <1>7, <1>8, <1>9 DEF RequestsInv

\* Writing a key.
LEMMA WriteKeeps ==
    ASSUME RequestsInv, RequestsTypeOK', NEW r \in Requests, WriteKey(r)
    PROVE  RequestsInv'
<1> RequestsTypeOK
  BY DEF RequestsInv
<1> DEFINE h == Head(writes[r])
<1>1. /\ \A s \in Requests : writes'[s] = IF s = r THEN Tail(writes[r]) ELSE writes[s]
      /\ \A k \in Keys : meta'[k] = IF k = h THEN r ELSE meta[k]
      /\ UNCHANGED <<asked, step, approval, overlapped>> /\ writes[r] # <<>>
  BY DEF WriteKey, RequestsTypeOK
<1>2. h \in Keys /\ Elems(writes[r]) = {h} \cup Elems(Tail(writes[r]))
  BY TailElems DEF WriteKey, RequestsTypeOK
<1>3. Unsettled' = Unsettled /\ Approving' = Approving
  BY <1>1 DEF Unsettled, Approving
<1>4. r \in Unsettled /\ step[r] \in {"writing", "posted", "kept"}
  BY <1>1 DEF RequestsInv, WritesOwned, Unsettled
<1> HIDE DEF h
<1>5. MetaOwned' /\ WritesOwned' /\ Pairs'
  BY <1>1, <1>3, <1>4 DEF RequestsInv, MetaOwned, WritesOwned, Pairs
<1>6. \A a \in Approving : approval[a].req # r \/ r \in overlapped
  BY <1>1 DEF RequestsInv, Served
<1>7. Served'
  BY <1>1, <1>3, <1>6 DEF RequestsInv, Served
<1>8. ReadAsAsked'
  BY <1>1, <1>3 DEF RequestsInv, ReadAsAsked
<1>9. Complete'
  <2> SUFFICES ASSUME NEW s \in Unsettled, s \notin overlapped, step[s] # "unsent", NEW k \in Keys
               PROVE  Tells(asked[s], k) <=> (k \in Elems(writes'[s]) \/ meta'[k] = s)
    BY <1>1, <1>3 DEF Complete
  <2>1. s = r
    BY <1>4 DEF RequestsInv, Pairs
  <2>2. Tells(asked[r], k) <=> (k \in Elems(writes[r]) \/ meta[k] = r)
    BY <2>1 DEF RequestsInv, Complete
  <2> QED BY <1>1, <1>2, <2>1, <2>2
<1> QED BY <1>5, <1>7, <1>8, <1>9 DEF RequestsInv

\* Another step of a request: its message, its end, or a rejection.
LEMMA GoesKeeps ==
    ASSUME RequestsInv, RequestsTypeOK', NEW r \in Requests, Post(r) \/ AbortRequest(r) \/ Reject(r)
    PROVE  RequestsInv'
<1> RequestsTypeOK
  BY DEF RequestsInv
<1>1. /\ \A s \in Requests : s # r => writes'[s] = writes[s] /\ step'[s] = step[s]
      /\ UNCHANGED <<asked, meta, approval>>
      /\ overlapped \subseteq overlapped'
  BY DEF Post, AbortRequest, Reject, Overlaps, RequestsTypeOK
<1>2. r \in Unsettled
  BY DEF Post, AbortRequest, Reject, RequestsInv, WritesOwned, Unsettled
<1>3. \/ step[r] = "writing" /\ step'[r] = "posted" /\ writes'[r] = Tail(writes[r])
         /\ Head(writes[r]) = "message" /\ writes[r] # <<>>
      \/ step[r] = "writing" /\ step'[r] = "unsent" /\ writes'[r] = <<>>
      \/ step'[r] = step[r] /\ step[r] # "writing" /\ writes'[r] = <<>> /\ r \in overlapped'
      \/ step[r] = "posted" /\ step'[r] = "kept" /\ writes'[r] = writes[r]
  BY <1>2 DEF Post, AbortRequest, Reject, Overlaps, RequestsTypeOK, Unsettled
<1>4. Unsettled' = Unsettled /\ Approving' = Approving
  BY <1>1, <1>2, <1>3 DEF Unsettled, Approving
<1>5. MetaOwned' /\ Pairs'
  BY <1>1, <1>4 DEF RequestsInv, MetaOwned, Pairs
<1>6. WritesOwned'
  BY <1>1, <1>3 DEF RequestsInv, WritesOwned
<1>7. Served'
  <2>1. \A a \in Approving : approval[a].req = r => step[r] # "writing"
    BY DEF RequestsInv, Served
  <2> QED BY <1>1, <1>3, <1>4, <2>1 DEF RequestsInv, Served
<1>8. ReadAsAsked'
  BY <1>1, <1>4 DEF RequestsInv, ReadAsAsked
<1>9. Complete'
  <2> SUFFICES ASSUME NEW s \in Unsettled, s \notin overlapped', step'[s] # "unsent", NEW k \in Keys
               PROVE  Tells(asked[s], k) <=> (k \in Elems(writes'[s]) \/ meta[k] = s)
    BY <1>1, <1>4 DEF Complete
  <2>1. s \in Requests /\ s \notin overlapped
    BY <1>1 DEF Unsettled
  <2>2. step[s] # "unsent" => (Tells(asked[s], k) <=> (k \in Elems(writes[s]) \/ meta[k] = s))
    BY <2>1 DEF RequestsInv, Complete
  <2>3. CASE s # r
    BY <1>1, <2>1, <2>2, <2>3
  <2>4. CASE s = r /\ writes'[r] = writes[r] /\ step[r] = "posted"
    BY <2>2, <2>4
  <2>5. CASE s = r /\ writes'[r] = Tail(writes[r]) /\ step[r] = "writing"
             /\ Head(writes[r]) = "message" /\ writes[r] # <<>>
    <3>1. Elems(writes[r]) = {"message"} \cup Elems(Tail(writes[r]))
      BY <2>5, TailElems DEF RequestsTypeOK
    <3>2. k # "message"
      BY DEF Keys
    <3> QED BY <2>2, <2>5, <3>1, <3>2
  <2> QED BY <1>3, <2>3, <2>4, <2>5
<1> QED BY <1>5, <1>6, <1>7, <1>8, <1>9 DEF RequestsInv

\* Keys are deleted, and whose they were overlaps.
LEMMA DeleteKeeps ==
    ASSUME RequestsInv, RequestsTypeOK', UNCHANGED <<asked, step, writes>>,
           \A k \in Keys : meta'[k] \in {0, meta[k]}, overlapped \subseteq overlapped',
           \A k \in Keys : meta'[k] = meta[k] \/ \A s \in Unsettled : s \in overlapped',
           \A a \in Approvals : approval'[a] \in {approval[a], NoApproval}
    PROVE  RequestsInv'
<1>1. Unsettled' = Unsettled /\ Approving' \subseteq Approving
      /\ \A a \in Approving' : approval'[a] = approval[a]
  BY DEF Unsettled, Approving, NoApproval, Dialogue
<1>2. MetaOwned' /\ WritesOwned' /\ Pairs'
  BY <1>1 DEF RequestsInv, MetaOwned, WritesOwned, Pairs
<1>3. Served'
  BY <1>1 DEF RequestsInv, Served
<1>4. Complete'
  BY <1>1 DEF RequestsInv, Complete
<1>5. ReadAsAsked'
  BY <1>1 DEF RequestsInv, ReadAsAsked
<1> QED BY <1>2, <1>3, <1>4, <1>5 DEF RequestsInv

\* A dialogue begins.
LEMMA OpenKeeps ==
    ASSUME RequestsInv, RequestsTypeOK', NEW a \in Approvals, NEW r \in Requests, Open(a, r)
    PROVE  RequestsInv'
<1> RequestsTypeOK
  BY DEF RequestsInv
<1>1. /\ \A b \in Approvals : IF b = a THEN approval'[b].at = "open" /\ approval'[b].req = r
                                       ELSE approval'[b] = approval[b]
      /\ UNCHANGED <<asked, step, writes, meta>> /\ step[r] \in {"posted", "kept", "settled"}
      /\ overlapped' = overlapped \cup
            IF Approving = {} /\ step[r] # "settled" /\ writes[r] = <<>> THEN {} ELSE Unsettled \cup {r}
      /\ approval[a].at = "none"
  BY DEF Open, Overlaps, Dialogue, RequestsTypeOK
<1>2. Unsettled' = Unsettled /\ Approving' = Approving \cup {a} /\ a \notin Approving
  BY <1>1 DEF Unsettled, Approving
<1>3. MetaOwned' /\ WritesOwned' /\ Pairs'
  BY <1>1, <1>2 DEF RequestsInv, MetaOwned, WritesOwned, Pairs
<1>4. Complete'
  BY <1>1, <1>2 DEF RequestsInv, Complete
<1>5. ReadAsAsked'
  BY <1>1, <1>2 DEF RequestsInv, ReadAsAsked, Approving
<1>6. Served'
  <2> SUFFICES ASSUME NEW b \in Approving', NEW o, o = approval'[b].req
               PROVE  /\ o \in Requests /\ step[o] \in {"posted", "kept", "settled"}
                      /\ \A s \in Unsettled \ {o} : s \in overlapped'
                      /\ o \notin overlapped' => /\ step[o] # "settled" /\ writes[o] = <<>>
                                                 /\ \A c \in Approving' : c = b
    BY <1>1, <1>2 DEF Served
  <2>1. b = a => o = r
    BY <1>1 DEF Approving
  <2>2. b # a => b \in Approving /\ o = approval[b].req
    BY <1>1, <1>2 DEF Approving
  <2>3. CASE Approving = {} /\ step[r] # "settled" /\ writes[r] = <<>>
    <3>1. b = a /\ r \in Unsettled
      BY <1>1, <1>2, <2>3 DEF Unsettled
    <3>2. \A s \in Unsettled \ {r} : s \in overlapped
      BY <3>1 DEF RequestsInv, Pairs
    <3> QED BY <1>1, <1>2, <2>1, <2>3, <3>1, <3>2
  <2>4. CASE ~(Approving = {} /\ step[r] # "settled" /\ writes[r] = <<>>)
    <3>1. Unsettled \cup {r} \subseteq overlapped'
      BY <1>1, <2>4
    <3>2. CASE b = a
      BY <1>1, <2>1, <3>1, <3>2
    <3>3. CASE b # a
      <4>1. o \in Requests /\ step[o] \in {"posted", "kept", "settled"}
        BY <2>2, <3>3 DEF RequestsInv, Served
      <4>2. o \in overlapped'
        <5>1. o \in Unsettled \/ o \in overlapped
          BY <2>2, <3>3, <4>1 DEF RequestsInv, Served, Unsettled
        <5> QED BY <1>1, <3>1, <5>1
      <4> QED BY <3>1, <4>1, <4>2
    <3> QED BY <3>2, <3>3
  <2> QED BY <2>3, <2>4
<1> QED BY <1>3, <1>4, <1>5, <1>6 DEF RequestsInv

\* What there is of a request that is being approved and did not overlap.
LEMMA KeysThere ==
    ASSUME RequestsInv, NEW a \in Approving, NEW r, r = approval[a].req, r \notin overlapped
    PROVE  \A k \in Keys : meta[k] = IF Tells(asked[r], k) THEN r ELSE 0
<1>1. r \in Unsettled /\ writes[r] = <<>> /\ step[r] # "unsent"
  BY DEF RequestsInv, Served, Unsettled
<1>2. \A k \in Keys : meta[k] \in {0, r}
  BY <1>1 DEF RequestsInv, MetaOwned, Pairs
<1>3. Elems(<<>>) = {}
  BY DEF Elems
<1>4. \A k \in Keys : Tells(asked[r], k) <=> meta[k] = r
  BY <1>1, <1>3 DEF RequestsInv, Complete
<1> QED BY <1>2, <1>4

\* An approval reads.
LEMMA ReadKeeps ==
    ASSUME RequestsInv, RequestsTypeOK', NEW a \in Approvals, ReadMeta(a) \/ BookRequest(a)
    PROVE  RequestsInv'
<1> RequestsTypeOK
  BY DEF RequestsInv
<1> DEFINE r == approval[a].req
<1>1. /\ \A b \in Approvals : b # a => approval'[b] = approval[b]
      /\ approval'[a].req = r /\ approval[a].at # "none" /\ approval'[a].at \in {"read", "booked"}
      /\ UNCHANGED <<asked, step, writes, meta, overlapped>>
  BY DEF ReadMeta, BookRequest, Dialogue, RequestsTypeOK
<1>2. Unsettled' = Unsettled /\ Approving' = Approving /\ a \in Approving
  BY <1>1 DEF Unsettled, Approving
<1>3. \A b \in Approvals : approval'[b].req = approval[b].req
  BY <1>1
<1>4. MetaOwned' /\ WritesOwned' /\ Pairs' /\ Complete'
  BY <1>1, <1>2 DEF RequestsInv, MetaOwned, WritesOwned, Pairs, Complete
<1>5. Served'
  BY <1>1, <1>2, <1>3 DEF RequestsInv, Served, Approving
<1>6. ReadAsAsked'
  <2> SUFFICES ASSUME NEW b \in Approving, approval'[b].req \notin overlapped,
                      NEW k \in Reads(asked[approval'[b].req]), approval'[b].at # "open",
                      approval'[b].at = "booked" \/ k # "receipt"
               PROVE  approval'[b].got[k] =
                          IF Tells(asked[approval'[b].req], k) THEN approval'[b].req ELSE 0
    BY <1>1, <1>2 DEF ReadAsAsked
  <2>1. k \in Keys
    BY DEF Reads, Keys
  <2>2. CASE b # a
    BY <1>1, <2>2 DEF RequestsInv, ReadAsAsked, Approving
  <2>3. CASE b = a
    <3>1. r \notin overlapped /\ k \in Reads(asked[r])
      BY <1>1, <2>3
    <3>2. meta[k] = IF Tells(asked[r], k) THEN r ELSE 0
      BY <1>2, <2>1, <3>1, KeysThere
    <3>3. CASE ReadMeta(a)
      <4>1. /\ approval'[a].at = "read"
            /\ approval'[a].got = [j \in Keys |-> IF j \in Reads(asked[r]) \ {"receipt"} THEN meta[j] ELSE 0]
        BY <3>3 DEF ReadMeta, Dialogue, RequestsTypeOK
      <4>2. approval'[a].got[k] = meta[k]
        BY <2>1, <2>3, <3>1, <4>1
      <4> QED BY <1>1, <2>3, <3>2, <4>2
    <3>4. CASE BookRequest(a)
      <4>1. /\ approval'[a].got = [approval[a].got EXCEPT !["receipt"] = meta["receipt"]]
            /\ approval[a].got \in [Keys -> {0} \cup Requests] /\ approval[a].at = "read"
        BY <3>4 DEF BookRequest, Dialogue, RequestsTypeOK
      <4>2. approval'[a].got[k] = IF k = "receipt" THEN meta[k] ELSE approval[a].got[k]
        BY <2>1, <4>1
      <4>3. k # "receipt" => approval[a].got[k] = IF Tells(asked[r], k) THEN r ELSE 0
        BY <1>2, <3>1, <4>1 DEF RequestsInv, ReadAsAsked
      <4> QED BY <1>1, <2>3, <3>2, <4>2, <4>3
    <3> QED BY <3>3, <3>4
  <2> QED BY <2>2, <2>3
<1> QED BY <1>4, <1>5, <1>6 DEF RequestsInv

\* An approval ends: in cash the keys stay, otherwise none is left.
LEMMA EndKeeps ==
    ASSUME RequestsInv, RequestsTypeOK', NEW a \in Approvals, Clean(a) \/ EndCash(a)
    PROVE  RequestsInv'
<1> RequestsTypeOK
  BY DEF RequestsInv
<1> PICK r \in Requests : r = approval[a].req /\ a \in Approving /\ step[r] \in {"posted", "kept", "settled"}
  BY DEF RequestsInv, Served, Approving, Clean, EndCash
<1>1. /\ \A b \in Approvals : approval'[b] = IF b = a THEN NoApproval ELSE approval[b]
      /\ \A s \in Requests : s # r => step'[s] = step[s]
      /\ UNCHANGED <<asked, writes, overlapped>>
  BY DEF Clean, EndCash, Ends, RequestsTypeOK
<1>2. Approving' = Approving \ {a} /\ \A b \in Approving' : approval'[b] = approval[b]
  BY <1>1 DEF Approving, NoApproval, Dialogue
<1>3. \A s \in Unsettled \ {r} : s \in overlapped
  BY DEF RequestsInv, Served
<1>4. r \notin overlapped => writes[r] = <<>> /\ step[r] # "settled" /\ \A b \in Approving : b = a
  BY DEF RequestsInv, Served
<1>5. WritesOwned' /\ r \in Unsettled' \cup {s \in Requests : step'[s] = "settled"}
      /\ step'[r] \in {"kept", "settled"} /\ (step'[r] = "settled" => Clean(a))
  <2>1. step'[r] = (IF Clean(a) /\ writes[r] = <<>> THEN "settled" ELSE "kept")
    BY DEF Clean, EndCash, Ends, RequestsTypeOK
  <2>2. WritesOwned'
    BY <1>1, <2>1 DEF RequestsInv, WritesOwned, Clean, EndCash
  <2>3. r \in Unsettled' \cup {s \in Requests : step'[s] = "settled"}
    BY <2>1 DEF Unsettled
  <2> QED BY <2>1, <2>2, <2>3
<1>6. Unsettled' \subseteq Unsettled \cup {r} /\ Unsettled \ {r} \subseteq Unsettled'
  BY <1>1 DEF Unsettled
<1>7. r \in Unsettled' => r \in Unsettled \/ r \in overlapped
  BY <1>4 DEF Unsettled
<1>8. Pairs'
  <2> SUFFICES ASSUME NEW o \in Unsettled', NEW s \in Unsettled', o # s PROVE o \in overlapped
    BY <1>1 DEF Pairs
  <2>1. CASE o # r
    BY <1>3, <1>6, <2>1
  <2>2. CASE o = r
    BY <1>6, <1>7, <2>2 DEF RequestsInv, Pairs
  <2> QED BY <2>1, <2>2
<1>9. Served'
  <2> SUFFICES ASSUME NEW b \in Approving, b # a, NEW o, o = approval[b].req
               PROVE  /\ o \in Requests /\ step'[o] \in {"posted", "kept", "settled"}
                      /\ \A s \in Unsettled' \ {o} : s \in overlapped
                      /\ o \notin overlapped => /\ step'[o] # "settled" /\ writes[o] = <<>>
                                                /\ \A c \in Approving' : c = b
    BY <1>1, <1>2 DEF Served
  <2>1. /\ o \in Requests /\ step[o] \in {"posted", "kept", "settled"}
        /\ \A s \in Unsettled \ {o} : s \in overlapped
        /\ o \notin overlapped => step[o] # "settled" /\ writes[o] = <<>> /\ \A c \in Approving : c = b
    BY DEF RequestsInv, Served
  <2>2. o \in overlapped /\ r \in overlapped
    BY <1>4, <2>1
  <2>3. step'[o] \in {"posted", "kept", "settled"}
    BY <1>1, <1>5, <2>1
  <2> QED BY <1>6, <2>1, <2>2, <2>3
<1>10. ReadAsAsked'
  BY <1>1, <1>2 DEF RequestsInv, ReadAsAsked
<1>11. CASE EndCash(a)
  <2>1. UNCHANGED meta /\ step'[r] = "kept" /\ step[r] # "unsent"
    BY <1>11 DEF EndCash, Ends, RequestsTypeOK
  <2>2. MetaOwned'
    BY <1>1, <2>1 DEF RequestsInv, MetaOwned, Unsettled
  <2>3. Complete'
    <3> SUFFICES ASSUME NEW s \in Unsettled', s \notin overlapped, step'[s] # "unsent", NEW k \in Keys
                 PROVE  Tells(asked[s], k) <=> (k \in Elems(writes[s]) \/ meta[k] = s)
      BY <1>1, <2>1 DEF Complete
    <3>1. s \in Unsettled /\ step[s] # "unsent"
      BY <1>1, <1>6, <1>7, <2>1 DEF Unsettled
    <3> QED BY <3>1 DEF RequestsInv, Complete
  <2> QED BY <1>5, <1>8, <1>9, <1>10, <2>2, <2>3 DEF RequestsInv
<1>12. CASE Clean(a)
  <2>1. meta' = NoKeys /\ step'[r] = IF writes[r] = <<>> THEN "settled" ELSE "kept"
    BY <1>12 DEF Clean, Ends, RequestsTypeOK
  <2>2. MetaOwned'
    BY <2>1 DEF MetaOwned, NoKeys
  <2>3. Complete'
    <3> SUFFICES ASSUME NEW s \in Unsettled', s \notin overlapped PROVE FALSE
      BY <1>1 DEF Complete
    <3>1. s = r
      BY <1>3, <1>6
    <3> QED BY <1>4, <2>1, <3>1 DEF Unsettled
  <2> QED BY <1>5, <1>8, <1>9, <1>10, <2>2, <2>3 DEF RequestsInv
<1> QED BY <1>11, <1>12

\* Every step keeps the invariant.
LEMMA RequestsStep == ASSUME RequestsInv, RequestsNext PROVE RequestsInv'
<1>0. RequestsTypeOK /\ RequestsTypeOK'
  BY RequestsTypes DEF RequestsInv
<1>1. ASSUME NEW r \in Requests, NEW q \in Kinds, Submit(r, q) PROVE RequestsInv'
  BY <1>0, <1>1, SubmitKeeps
<1>2. ASSUME NEW r \in Requests, WriteKey(r) PROVE RequestsInv'
  BY <1>0, <1>2, WriteKeeps
<1>3. ASSUME NEW r \in Requests, Post(r) \/ AbortRequest(r) \/ Reject(r) PROVE RequestsInv'
  BY <1>0, <1>3, GoesKeeps
<1>4. ASSUME NEW r \in Requests, ExpireMeta(r) PROVE RequestsInv'
  BY <1>0, <1>4, DeleteKeeps DEF ExpireMeta, Overlaps
<1>5. ASSUME NEW a \in Approvals, NEW r \in Requests, Open(a, r) PROVE RequestsInv'
  BY <1>0, <1>5, OpenKeeps
<1>6. ASSUME NEW a \in Approvals, ReadMeta(a) \/ BookRequest(a) PROVE RequestsInv'
  BY <1>0, <1>6, ReadKeeps
<1>7. ASSUME NEW a \in Approvals, Drop(a) PROVE RequestsInv'
  <2>1. \A b \in Approvals : approval'[b] \in {approval[b], NoApproval}
    BY <1>0, <1>7 DEF Drop, RequestsTypeOK
  <2> QED BY <1>0, <1>7, <2>1, DeleteKeeps DEF Drop
<1>8. ASSUME NEW a \in Approvals, CleanPart(a) PROVE RequestsInv'
  <2>1. \A b \in Approvals : approval'[b] \in {approval[b], NoApproval}
    BY <1>0, <1>8 DEF CleanPart, RequestsTypeOK
  <2>2. \A k \in Keys : meta'[k] \in {0, meta[k]}
    BY <1>0, <1>8 DEF CleanPart, RequestsTypeOK
  <2>3. \A s \in Unsettled : s \in overlapped'
    BY <1>8 DEF CleanPart, Overlaps, RequestsInv, Served, Approving
  <2> QED BY <1>0, <1>8, <2>1, <2>2, <2>3, DeleteKeeps DEF CleanPart, Overlaps
<1>9. ASSUME NEW a \in Approvals, Clean(a) \/ EndCash(a) PROVE RequestsInv'
  BY <1>0, <1>9, EndKeeps
<1> QED
  BY <1>1, <1>2, <1>3, <1>4, <1>5, <1>6, <1>7, <1>8, <1>9 DEF RequestsNext

\* What holds in every state.
LEMMA RequestsAlways == RequestsSpec => []RequestsInv
<1>1. ASSUME RequestsInv, UNCHANGED requestVars PROVE RequestsInv'
  BY <1>1 DEF requestVars, RequestsInv, RequestsTypeOK, MetaOwned, WritesOwned, Pairs, Served,
              Complete, ReadAsAsked, Unsettled, Approving
<1>2. RequestsInv /\ [RequestsNext]_requestVars => RequestsInv'
  BY <1>1, RequestsStep
<1> QED BY <1>2, RequestsStart, PTL DEF RequestsSpec

\* A key stands for a request that was made, and so does what an approval read.
THEOREM RequestsTypeCorrect == RequestsSpec => []RequestsTypeOK
<1>1. RequestsInv => RequestsTypeOK
  BY DEF RequestsInv
<1> QED BY <1>1, RequestsAlways, PTL

\* A request that was alone is booked with its own mode, wallet share, card and
\* receipt: whatever is approved before it, rejected meanwhile or lost in a restart.
THEOREM RequestsBookedAsAsked == RequestsSpec => []BookedAsAsked
<1>1. RequestsInv => BookedAsAsked
  <2> SUFFICES ASSUME RequestsInv, NEW a \in Approvals, approval[a].at = "booked",
                      approval[a].req \notin overlapped, NEW k \in Reads(asked[approval[a].req])
               PROVE  approval[a].got[k] = IF k \in {j \in Keys : Tells(asked[approval[a].req], j)}
                                           THEN approval[a].req ELSE 0
    BY DEF BookedAsAsked, RequestsInv, RequestsTypeOK
  <2>1. k \in Keys
    BY DEF Reads, Keys
  <2> QED BY <2>1 DEF RequestsInv, ReadAsAsked, Approving
<1> QED BY <1>1, RequestsAlways, PTL
==============================================================================
