-------------------------- MODULE ModbusTcp_proofs --------------------------
(***************************************************************************)
(* Proofs about ModbusTcp, for any width of the transaction id, any        *)
(* backlog that is smaller, and all hazards.                               *)
(***************************************************************************)
EXTENDS ModbusTcp, SequenceTheorems, TLAPS

-----------------------------------------------------------------------------
LEMMA Sizes == MaxTid \in Nat /\ Backlog \in Nat /\ 1 <= Backlog /\ Backlog <= MaxTid
               /\ Tids = 0 .. MaxTid
  BY ModbusTcpAssumption DEF Tids

LEMMA NextTidTyped == tid \in Tids => NextTid \in Tids
  BY Sizes DEF NextTid

\* The parts of the type that Return and Deliver leave open.
Typed ==
  /\ tid \in Tids
  /\ req \subseteq Requests
  /\ requests \in Seq(Sent)
  /\ replies \in Seq(Replies)
  /\ register \in Values
  /\ dest \in Values
  /\ effect \subseteq Values

LEMMA TypedInit == Init => Typed
  BY Sizes DEF Init, Typed

LEMMA TypedNext == Typed /\ [Next]_vars => Typed'
  <1> SUFFICES ASSUME Typed, [Next]_vars PROVE Typed'
    OBVIOUS
  <1>1. ASSUME NEW fn \in {"read", "write"}, NEW v \in Values, Call(fn, v) PROVE Typed'
    <2>1. PICK q \in req' : Deliver(q)
      BY <1>1 DEF Call
    <2>2. req' = {[tid |-> NextTid, fn |-> fn, value |-> v]} /\ tid' = NextTid
          /\ effect' = {} /\ UNCHANGED <<dest, replies, register>>
      BY <1>1 DEF Call, Request
    <2>3. q \in Requests /\ req' \subseteq Requests
      BY <2>1, <2>2, NextTidTyped DEF Requests, Typed
    <2>4. requests' \in Seq(Sent)
      <3>1. CASE up
        <4>1. PICK f \in Fates : requests' = Append(requests, [tid |-> q.tid, fn |-> q.fn,
                                                    value |-> q.value, fate |-> f])
          BY <2>1, <3>1 DEF Deliver
        <4>2. f \in {"serve", "refuse", "ignore"}
          BY DEF Fates
        <4>3. [tid |-> q.tid, fn |-> q.fn, value |-> q.value, fate |-> f] \in Sent
          BY <2>3, <4>2 DEF Requests, Sent
        <4> QED
          BY <4>1, <4>3 DEF Typed
      <3> QED
        BY <2>1, <3>1 DEF Deliver, Typed
    <2> QED
      BY <2>2, <2>3, <2>4, NextTidTyped DEF Typed
  <1>2. CASE SendFails
    BY <1>2, NextTidTyped DEF SendFails, Typed
  <1>3. ASSUME NEW q \in req, Receive(q) PROVE Typed'
    <2>1. replies # <<>> /\ req' = {} /\ replies' = Tail(replies)
          /\ UNCHANGED <<tid, requests, register, effect>>
      BY <1>3 DEF Receive, Return
    <2>2. Head(replies) \in Replies /\ replies' \in Seq(Replies)
      BY <2>1 DEF Typed
    <2>3. dest' \in Values
      BY <1>3, <2>2 DEF Receive, Typed, Replies
    <2> QED
      BY <2>1, <2>2, <2>3 DEF Typed
  <1>4. ASSUME NEW q \in req, TimeOut(q) \/ ConnectionReset(q) PROVE Typed'
    BY <1>4 DEF TimeOut, ConnectionReset, Return, Typed
  <1>5. CASE Serve
    <2> DEFINE q == Head(requests)
               r == [tid |-> q.tid, value |-> register',
                     fn |-> IF q.fate = "serve" THEN q.fn ELSE "exception"]
    <2>1. q \in Sent /\ Tail(requests) \in Seq(Sent)
      BY <1>5 DEF Serve, Typed
    <2>2. register' \in Values
      BY <1>5, <2>1 DEF Serve, Typed, Sent
    <2>3. r \in Replies
      BY <2>1, <2>2 DEF Sent, Replies
    <2>4. requests' = Tail(requests) /\ UNCHANGED <<tid, req, dest>>
      BY <1>5 DEF Serve, clientVars
    <2>5. replies' = replies \/ replies' = Append(replies, r)
      BY <1>5 DEF Serve
    <2>6. effect' = effect \/ effect' = {register'}
      BY <1>5 DEF Serve
    <2> HIDE DEF q, r
    <2>7. requests' \in Seq(Sent)
      BY <2>1, <2>4
    <2>8. replies' \in Seq(Replies)
      BY <2>3, <2>5 DEF Typed
    <2>9. effect' \subseteq Values
      BY <2>2, <2>6 DEF Typed
    <2> QED
      BY <2>2, <2>4, <2>7, <2>8, <2>9 DEF Typed
  <1>6. CASE Change
    BY <1>6 DEF Change, clientVars, Typed
  <1>7. CASE Break
    <2>1. PICK n \in 0 .. Len(replies) : replies' = SubSeq(replies, 1, n)
      BY <1>7 DEF Break
    <2>2. replies' \in Seq(Replies)
      BY <2>1 DEF Typed
    <2> QED
      BY <1>7, <2>2 DEF Break, clientVars, Typed
  <1>8. CASE UNCHANGED vars
    BY <1>8 DEF vars, clientVars, Typed
  <1> QED
    BY <1>1, <1>2, <1>3, <1>4, <1>5, <1>6, <1>7, <1>8 DEF Next, Ends

-----------------------------------------------------------------------------
\* How many requests after the one numbered x the number was t.
Lag(t, x) == IF x <= t THEN t - x ELSE t - x + MaxTid + 1

LEMMA LagNat == \A t, x \in Tids : Lag(t, x) \in Nat /\ (Lag(t, x) = 0 <=> x = t)
  BY Sizes DEF Lag

\* The next request puts every earlier one further back, unless the numbers
\* have come round to it.
LEMMA LagNext ==
  ASSUME tid \in Tids, NEW x \in Tids, Lag(tid, x) < MaxTid
  PROVE  Lag(NextTid, x) = Lag(tid, x) + 1
  BY Sizes DEF Lag, NextTid

\* One call at a time.
Single == \A q \in req : q.tid = tid /\ \A p \in req : p = q

Broken == ~up => requests = <<>>

Bounded == Len(requests) + Len(replies) <= Backlog

\* What waits at the palletizer was numbered one after the other, up to the
\* latest request; what comes back is older, and not as old as the numbers go.
Queued == \A i \in 1 .. Len(requests) : Lag(tid, requests[i].tid) = Len(requests) - i

Waiting ==
  \A j \in 1 .. Len(replies) :
    Lag(tid, replies[j].tid) <= Backlog - j + (IF req = {} THEN 0 ELSE 1)

\* During a call, a request that waits is that of the call, as the last of all.
Mine ==
  /\ mine = "queued" => req # {} /\ requests # <<>>
  /\ req # {} /\ requests # <<>> => mine = "queued"

\* A reply with the number of the call is the answer to it.
Answer ==
  \A j \in 1 .. Len(replies) :
    req # {} /\ Lag(tid, replies[j].tid) = 0 =>
      /\ mine = "served"
      /\ replies[j].fn # "exception" => effect = {replies[j].value}

Inv == Typed /\ Single /\ Broken /\ Bounded /\ Queued /\ Waiting /\ Mine /\ Answer

LEMMA InvInit == Init => Inv
  BY Sizes, TypedInit DEF Init, Inv, Single, Broken, Bounded, Queued, Waiting, Mine, Answer

\* What the sequences under way are made of.
LEMMA Elements ==
  ASSUME Typed
  PROVE  /\ Len(requests) \in Nat /\ Len(replies) \in Nat
         /\ \A i \in 1 .. Len(requests) : requests[i] \in Sent /\ requests[i].tid \in Tids
         /\ \A j \in 1 .. Len(replies) : replies[j] \in Replies /\ replies[j].tid \in Tids
  <1>1. requests \in Seq(Sent) /\ replies \in Seq(Replies)
    BY DEF Typed
  <1>2. Len(requests) \in Nat /\ Len(replies) \in Nat
    BY <1>1
  <1>3. ASSUME NEW i \in 1 .. Len(requests) PROVE requests[i] \in Sent /\ requests[i].tid \in Tids
    <2>1. requests[i] \in Sent
      BY <1>1
    <2> QED
      BY <2>1 DEF Sent
  <1>4. ASSUME NEW j \in 1 .. Len(replies) PROVE replies[j] \in Replies /\ replies[j].tid \in Tids
    <2>1. replies[j] \in Replies
      BY <1>1
    <2> QED
      BY <2>1 DEF Replies
  <1> QED
    BY <1>2, <1>3, <1>4

\* Numbering the next request moves all that is under way back by one.
LEMMA MovedBack ==
  ASSUME Inv, MayCall, tid' = NextTid
  PROVE  /\ \A i \in 1 .. Len(requests) : Lag(tid', requests[i].tid) = Len(requests) - i + 1
         /\ \A j \in 1 .. Len(replies) : /\ Lag(tid', replies[j].tid) <= Backlog - j + 1
                                         /\ Lag(tid', replies[j].tid) # 0
  <1>1. tid \in Tids
    BY DEF Inv, Typed
  <1>2. ASSUME NEW i \in 1 .. Len(requests)
        PROVE  Lag(tid', requests[i].tid) = Len(requests) - i + 1
    <2>1. requests[i].tid \in Tids /\ Len(requests) \in Nat /\ Len(replies) \in Nat
      BY Elements DEF Inv
    <2>2. Lag(tid, requests[i].tid) = Len(requests) - i
      BY DEF Inv, Queued
    <2>3. Len(requests) < Backlog
      BY <2>1, Sizes DEF MayCall
    <2>4. Lag(tid, requests[i].tid) < MaxTid
      BY <2>1, <2>2, <2>3, Sizes
    <2> QED
      BY <1>1, <2>1, <2>2, <2>4, LagNext
  <1>3. ASSUME NEW j \in 1 .. Len(replies)
        PROVE  /\ Lag(tid', replies[j].tid) <= Backlog - j + 1
               /\ Lag(tid', replies[j].tid) # 0
    <2>1. replies[j].tid \in Tids /\ Len(replies) \in Nat
      BY Elements DEF Inv
    <2>2. Lag(tid, replies[j].tid) <= Backlog - j
      BY <2>1, Sizes DEF Inv, Waiting, MayCall
    <2>3. Lag(tid, replies[j].tid) \in Nat
      BY <1>1, <2>1, LagNat
    <2>4. Lag(tid, replies[j].tid) < MaxTid
      BY <2>1, <2>2, <2>3, Sizes
    <2>5. Lag(tid', replies[j].tid) = Lag(tid, replies[j].tid) + 1
      BY <1>1, <2>1, <2>4, LagNext
    <2> QED
      BY <2>1, <2>2, <2>3, <2>5, Sizes
  <1> QED
    BY <1>2, <1>3

LEMMA InvCall ==
  ASSUME Inv, NEW fn \in {"read", "write"}, NEW v \in Values, Call(fn, v), Typed'
  PROVE  Inv'
  <1>1. PICK q \in req' : Deliver(q)
    BY DEF Call
  <1>2. /\ MayCall /\ tid' = NextTid
        /\ req' = {[tid |-> NextTid, fn |-> fn, value |-> v]}
        /\ UNCHANGED <<up, replies>>
    BY DEF Call, Request
  <1>3. q.tid = tid' /\ req' # {} /\ tid' \in Tids
    BY <1>1, <1>2 DEF Typed
  <1>4. Single'
    BY <1>2 DEF Single
  <1>5. Waiting' /\ Answer'
    BY <1>2, <1>3, MovedBack DEF Waiting, Answer
  <1>6. CASE up
    <2>1. PICK f \in Fates : requests' = Append(requests, [tid |-> q.tid, fn |-> q.fn,
                                                value |-> q.value, fate |-> f])
      BY <1>1, <1>6 DEF Deliver
    <2>2. mine' = "queued"
      BY <1>1, <1>6 DEF Deliver
    <2>3. /\ Len(requests) \in Nat /\ Len(replies) \in Nat /\ requests \in Seq(Sent)
          /\ Len(requests') = Len(requests) + 1
          /\ requests' # <<>>
          /\ \A i \in 1 .. Len(requests) : requests'[i] = requests[i]
          /\ requests'[Len(requests) + 1].tid = tid'
      BY <1>3, <2>1, Elements DEF Inv, Typed
    <2>4. Lag(tid', tid') = 0
      BY <1>3, LagNat
    <2>5. Queued'
      BY <1>2, <2>3, <2>4, MovedBack DEF Queued
    <2>6. Bounded'
      BY <1>2, <2>3, Sizes DEF Bounded, MayCall
    <2>7. Broken' /\ Mine'
      BY <1>2, <1>3, <1>6, <2>2, <2>3 DEF Broken, Mine
    <2> QED
      BY <1>4, <1>5, <2>5, <2>6, <2>7 DEF Inv
  <1>7. CASE ~up
    <2>1. requests' = <<>> /\ mine' = "gone" /\ requests = <<>>
      BY <1>1, <1>7 DEF Deliver, Inv, Broken
    <2>2. Queued' /\ Bounded' /\ Broken' /\ Mine'
      BY <1>2, <2>1 DEF Queued, Bounded, Broken, Mine, Inv
    <2> QED
      BY <1>4, <1>5, <2>2 DEF Inv
  <1> QED
    BY <1>6, <1>7

LEMMA InvSendFails ==
  ASSUME Inv, SendFails, Typed'
  PROVE  Inv'
  <1>1. /\ req' = {} /\ replies' = <<>> /\ requests' = <<>> /\ mine' = "gone" /\ up' = up
    BY DEF SendFails, MayCall, Inv, Broken
  <1> QED
    BY <1>1, Sizes DEF Inv, Single, Broken, Bounded, Queued, Waiting, Mine, Answer

\* A call that returns has taken one reply, or there is none.
LEMMA InvEnds ==
  ASSUME Inv, NEW q \in req, Ends(q), Typed'
  PROVE  Inv'
  <1>1. /\ UNCHANGED <<tid, up, requests>> /\ req' = {} /\ mine' = "gone"
        /\ \/ replies # <<>> /\ replies' = Tail(replies)
           \/ replies = <<>> /\ replies' = replies
    BY DEF Ends, Receive, TimeOut, ConnectionReset, Return
  <1>2. Single' /\ Broken' /\ Queued' /\ Mine' /\ Answer'
    BY <1>1 DEF Inv, Single, Broken, Queued, Mine, Answer
  <1>3. CASE replies # <<>> /\ replies' = Tail(replies)
    <2>1. /\ Len(requests) \in Nat /\ Len(replies) \in Nat /\ replies \in Seq(Replies)
          /\ Len(replies') = Len(replies) - 1
          /\ \A j \in 1 .. Len(replies') : replies'[j] = replies[j + 1]
      BY <1>3, Elements DEF Inv, Typed
    <2>2. Bounded'
      BY <1>1, <2>1, Sizes DEF Inv, Bounded
    <2>3. ASSUME NEW j \in 1 .. Len(replies')
          PROVE  Lag(tid', replies'[j].tid) <= Backlog - j
      <3>1. j + 1 \in 1 .. Len(replies)
        BY <2>1
      <3>2. Lag(tid, replies[j + 1].tid) <= Backlog - (j + 1) + 1
        BY <3>1 DEF Inv, Waiting
      <3> QED
        BY <1>1, <2>1, <3>2, Sizes
    <2> QED
      BY <1>1, <1>2, <2>2, <2>3, Sizes DEF Inv, Waiting
  <1>4. CASE replies = <<>> /\ replies' = replies
    BY <1>1, <1>2, <1>4 DEF Inv, Bounded, Waiting
  <1> QED
    BY <1>1, <1>3, <1>4

LEMMA InvServe ==
  ASSUME Inv, Serve, Typed'
  PROVE  Inv'
  <1> DEFINE q == Head(requests)
             own == mine = "queued" /\ Len(requests) = 1
             r == [tid |-> q.tid, value |-> register',
                   fn |-> IF q.fate = "serve" THEN q.fn ELSE "exception"]
  <1>1. requests # <<>> /\ requests' = Tail(requests) /\ UNCHANGED <<tid, req, up>>
    BY DEF Serve, clientVars
  <1>2. replies' = IF q.fate = "ignore" THEN replies ELSE Append(replies, r)
    BY DEF Serve
  <1>3. mine' = IF own THEN "served" ELSE mine
    BY DEF Serve
  <1>4. effect' = IF own /\ q.fate = "serve" THEN {register'} ELSE effect
    BY DEF Serve
  <1>5. /\ Len(requests) \in Nat /\ Len(replies) \in Nat /\ tid \in Tids
        /\ requests \in Seq(Sent) /\ replies \in Seq(Replies)
        /\ Len(requests') = Len(requests) - 1 /\ Len(requests) >= 1
        /\ \A i \in 1 .. Len(requests') : requests'[i] = requests[i + 1]
        /\ q = requests[1] /\ q.tid \in Tids
    BY <1>1, Elements DEF Inv, Typed
  <1>6. Lag(tid, q.tid) = Len(requests) - 1
    BY <1>5 DEF Inv, Queued
  <1>7. /\ r.tid = q.tid /\ r.value = register'
        /\ r.fn # "exception" => q.fate = "serve"
    OBVIOUS
  <1> HIDE DEF q, r
  <1>8. \/ replies' = replies
        \/ /\ Len(replies') = Len(replies) + 1
           /\ \A j \in 1 .. Len(replies) : replies'[j] = replies[j]
           /\ replies'[Len(replies) + 1] = r
    BY <1>2, <1>5
  <1>9. Single' /\ Broken'
    BY <1>1, <1>5 DEF Inv, Single, Broken
  <1>10. Queued'
    <2>1. ASSUME NEW i \in 1 .. Len(requests')
          PROVE  Lag(tid', requests'[i].tid) = Len(requests') - i
      <3>1. i + 1 \in 1 .. Len(requests)
        BY <1>5
      <3>2. Lag(tid, requests[i + 1].tid) = Len(requests) - (i + 1)
        BY <3>1 DEF Inv, Queued
      <3> QED
        BY <1>1, <1>5, <3>2
    <2> QED
      BY <2>1 DEF Queued
  <1>11. Bounded'
    BY <1>5, <1>8, Sizes DEF Inv, Bounded
  <1>12. Mine'
    <2>1. CASE own
      BY <1>1, <1>3, <1>5, <2>1 DEF Mine
    <2>2. CASE ~own
      <3>1. mine' = mine /\ req' = req
        BY <1>1, <1>3, <2>2
      <3>2. mine = "queued" => req # {} /\ Len(requests) # 1
        BY <2>2 DEF Inv, Mine
      <3>3. req # {} => mine = "queued"
        BY <1>1 DEF Inv, Mine
      <3>4. Len(requests) # 1 => requests' # <<>>
        <4>1. Len(requests) # 1 => Len(requests') # 0
          BY <1>5
        <4> QED
          BY <4>1
      <3> QED
        BY <3>1, <3>2, <3>3, <3>4 DEF Mine
    <2> QED
      BY <2>1, <2>2
  <1>13. ASSUME NEW j \in 1 .. Len(replies)
         PROVE  /\ Lag(tid', replies[j].tid) <= Backlog - j + (IF req' = {} THEN 0 ELSE 1)
                /\ req' # {} /\ Lag(tid', replies[j].tid) = 0 =>
                     /\ mine' = "served"
                     /\ replies[j].fn # "exception" => effect' = {replies[j].value}
    BY <1>1, <1>3, <1>4 DEF Inv, Waiting, Answer
  <1>14. /\ Lag(tid', r.tid) <= Backlog - (Len(replies) + 1) + (IF req' = {} THEN 0 ELSE 1)
         /\ req' # {} /\ Lag(tid', r.tid) = 0 =>
              /\ mine' = "served"
              /\ r.fn # "exception" => effect' = {r.value}
    <2>1. Lag(tid', r.tid) = Len(requests) - 1
      BY <1>1, <1>6, <1>7
    <2>2. Len(requests) + Len(replies) <= Backlog
      BY DEF Inv, Bounded
    <2>3. req' # {} /\ Lag(tid', r.tid) = 0 => own
      BY <1>1, <1>5, <2>1 DEF Inv, Mine
    <2> QED
      BY <1>3, <1>4, <1>5, <1>7, <2>1, <2>2, <2>3, Sizes
  <1>15. Waiting' /\ Answer'
    <2>1. CASE replies' = replies
      BY <1>13, <2>1 DEF Waiting, Answer
    <2>2. CASE /\ Len(replies') = Len(replies) + 1
               /\ \A j \in 1 .. Len(replies) : replies'[j] = replies[j]
               /\ replies'[Len(replies) + 1] = r
      <3>1. ASSUME NEW j \in 1 .. Len(replies')
            PROVE  \/ j \in 1 .. Len(replies) /\ replies'[j] = replies[j]
                   \/ j = Len(replies) + 1 /\ replies'[j] = r
        <4>1. j \in 1 .. Len(replies) \/ j = Len(replies) + 1
          BY <1>5, <2>2
        <4> QED
          BY <2>2, <4>1
      <3>2. Waiting'
        BY <1>13, <1>14, <3>1 DEF Waiting
      <3>3. Answer'
        <4>1. ASSUME NEW j \in 1 .. Len(replies'), req' # {}, Lag(tid', replies'[j].tid) = 0
              PROVE  /\ mine' = "served"
                     /\ replies'[j].fn # "exception" => effect' = {replies'[j].value}
          <5>1. CASE j \in 1 .. Len(replies) /\ replies'[j] = replies[j]
            BY <1>13, <4>1, <5>1
          <5>2. CASE replies'[j] = r
            BY <1>14, <4>1, <5>2
          <5> QED
            BY <3>1, <5>1, <5>2
        <4> QED
          BY <4>1 DEF Answer
      <3> QED
        BY <3>2, <3>3
    <2> QED
      BY <1>8, <2>1, <2>2
  <1> QED
    BY <1>9, <1>10, <1>11, <1>12, <1>15 DEF Inv

LEMMA InvBreak ==
  ASSUME Inv, Break, Typed'
  PROVE  Inv'
  <1>1. PICK n \in 0 .. Len(replies) : replies' = SubSeq(replies, 1, n)
    BY DEF Break
  <1>2. UNCHANGED <<tid, req, effect>> /\ requests' = <<>> /\ up' = FALSE
        /\ mine' = IF mine = "queued" THEN "gone" ELSE mine
    BY DEF Break, clientVars
  <1>3. /\ Len(replies) \in Nat /\ Len(requests) \in Nat
        /\ Len(replies') = n /\ n <= Len(replies)
        /\ \A j \in 1 .. n : replies'[j] = replies[j]
    BY <1>1, Elements DEF Inv, Typed
  <1>4. Single' /\ Broken' /\ Queued' /\ Mine'
    BY <1>2 DEF Inv, Single, Broken, Queued, Mine
  <1>5. Bounded'
    BY <1>2, <1>3, Sizes DEF Inv, Bounded
  <1>6. Waiting' /\ Answer'
    BY <1>2, <1>3 DEF Inv, Waiting, Answer
  <1> QED
    BY <1>4, <1>5, <1>6 DEF Inv

LEMMA InvNext == Inv /\ [Next]_vars => Inv'
  <1> SUFFICES ASSUME Inv, [Next]_vars PROVE Inv'
    OBVIOUS
  <1>1. Typed'
    BY TypedNext DEF Inv
  <1>2. CASE Change \/ UNCHANGED vars
    BY <1>1, <1>2 DEF Change, vars, clientVars, Inv, Single, Broken, Bounded, Queued,
                      Waiting, Mine, Answer
  <1> QED
    BY <1>1, <1>2, InvCall, InvSendFails, InvEnds, InvServe, InvBreak DEF Next

-----------------------------------------------------------------------------
\* The rest of the type, which no other part depends on.
Outer ==
  /\ up \in BOOLEAN
  /\ rc \in {"none", "ok", "error"}
  /\ mine \in {"queued", "served", "gone"}
  /\ link \in Links

LEMMA OuterNext == Outer /\ [Next]_vars => Outer'
  <1> SUFFICES ASSUME Outer, [Next]_vars PROVE Outer'
    OBVIOUS
  <1>1. ASSUME NEW fn \in {"read", "write"}, NEW v \in Values, Call(fn, v) PROVE Outer'
    BY <1>1 DEF Call, Request, Deliver, Outer
  <1>2. CASE SendFails
    BY <1>2 DEF SendFails, Outer, Links
  <1>3. ASSUME NEW q \in req, Ends(q) PROVE Outer'
    BY <1>3 DEF Ends, Receive, TimeOut, ConnectionReset, Return, LinkAfter, Outer, Links
  <1>4. CASE Serve
    BY <1>4 DEF Serve, clientVars, Outer, Links
  <1>5. CASE Change \/ UNCHANGED vars
    BY <1>5 DEF Change, vars, clientVars, Outer
  <1>6. CASE Break
    <2>1. up' \in BOOLEAN
      BY <1>6, Zenon DEF Break
    <2> QED
      BY <1>6, <2>1 DEF Break, clientVars, Outer
  <1> QED
    BY <1>1, <1>2, <1>3, <1>4, <1>5, <1>6 DEF Next

\* The types, whatever the palletizer and the network do.
THEOREM Types == Spec => []TypeOK
  <1>1. Init => Typed /\ Outer
    <2> SUFFICES ASSUME Init PROVE Typed /\ Outer
      OBVIOUS
    <2>1. up \in BOOLEAN
      BY Zenon DEF Init
    <2> QED
      BY <2>1, TypedInit DEF Init, Outer, Links
  <1>2. Typed /\ Outer /\ [Next]_vars => Typed' /\ Outer'
    BY TypedNext, OuterNext
  <1>3. Typed /\ Outer => TypeOK
    BY DEF Typed, Outer, TypeOK
  <1> QED
    BY <1>1, <1>2, <1>3, PTL DEF Spec

\* The step in which a call ends.
LEMMA OwnStep ==
  ASSUME Inv, Next, NEW p \in req, req' = {}, rc' = "ok"
  PROVE  effect # {} /\ (p.fn = "read" => dest' \in effect)
  <1>1. req # {}
    OBVIOUS
  <1>2. PICK q \in req : Receive(q) /\ Accepts(q, Head(replies))
    <2>1. ~ \E fn \in {"read", "write"}, v \in Values : Call(fn, v)
      BY <1>1 DEF Call, Request, MayCall
    <2>2. ~SendFails /\ ~Serve /\ ~Change /\ ~Break
      BY <1>1 DEF SendFails, MayCall, Serve, Change, Break, clientVars
    <2>3. PICK q \in req : Ends(q)
      BY <2>1, <2>2 DEF Next
    <2>4. Receive(q) /\ Accepts(q, Head(replies))
      BY <2>3 DEF Ends, Receive, TimeOut, ConnectionReset, Return
    <2> QED
      BY <2>4
  <1>3. p = q /\ q.tid = tid
    BY DEF Inv, Single
  <1>4. /\ replies # <<>> /\ Len(replies) \in Nat /\ 1 \in 1 .. Len(replies)
        /\ Head(replies) = replies[1] /\ replies[1].tid \in Tids
    BY <1>2, Elements DEF Receive, Inv, Typed
  <1>5. Lag(tid, replies[1].tid) = 0
    BY <1>2, <1>3, <1>4, LagNat DEF Accepts, Inv, Typed
  <1>6. q.fn # "exception"
    BY DEF Inv, Typed, Requests
  <1>7. effect = {replies[1].value}
    BY <1>1, <1>2, <1>4, <1>5, <1>6 DEF Inv, Answer, Accepts
  <1>8. q.fn = "read" => dest' = replies[1].value
    BY <1>2, <1>4 DEF Receive
  <1> QED
    BY <1>3, <1>7, <1>8

\* A call that succeeds was carried out while it lasted, and has read what the
\* register then held: for any width of the transaction id, as long as fewer
\* requests and replies are under way than it has values.
THEOREM AnswersAreOwn == Spec => OwnAnswer
  <1>1. Inv /\ [Next]_vars =>
          [\A q \in req :
             req' = {} /\ rc' = "ok" =>
               effect # {} /\ (q.fn = "read" => dest' \in effect)]_vars
    BY OwnStep
  <1> QED
    BY <1>1, InvInit, InvNext, PTL DEF Spec, OwnAnswer
-----------------------------------------------------------------------------
(***************************************************************************)
(* What the steps do to the two sequences, element by element.             *)
(***************************************************************************)
LEMMA AfterCall ==
  ASSUME Inv, NEW fn \in {"read", "write"}, NEW v \in Values, Call(fn, v)
  PROVE  /\ req = {} /\ mine # "queued" /\ tid' = NextTid
         /\ req' = {[tid |-> NextTid, fn |-> fn, value |-> v]}
         /\ rc' = "none" /\ effect' = {}
         /\ UNCHANGED <<dest, up, replies, register, link>>
         /\ \/ /\ up /\ mine' = "queued"
               /\ Len(requests') = Len(requests) + 1
               /\ \A i \in 1 .. Len(requests) : requests'[i] = requests[i]
               /\ requests'[Len(requests')].fn = fn
               /\ requests'[Len(requests')].value = v
               /\ requests'[Len(requests')].fate \in Fates
            \/ ~up /\ mine' = "gone" /\ requests = <<>> /\ requests' = <<>>
  <1>1. PICK q \in req' : Deliver(q)
    BY DEF Call
  <1>2. /\ req = {} /\ MayCall /\ tid' = NextTid
        /\ req' = {[tid |-> NextTid, fn |-> fn, value |-> v]}
        /\ rc' = "none" /\ effect' = {}
        /\ UNCHANGED <<dest, up, replies, register, link>>
    BY DEF Call, Request, MayCall
  <1>3. q.fn = fn /\ q.value = v
    BY <1>1, <1>2
  <1>4. CASE up
    <2>1. PICK f \in Fates : requests' = Append(requests, [tid |-> q.tid, fn |-> q.fn,
                                                value |-> q.value, fate |-> f])
      BY <1>1, <1>4 DEF Deliver
    <2>2. mine' = "queued"
      BY <1>1, <1>4 DEF Deliver
    <2>3. requests \in Seq(Sent) /\ Len(requests) \in Nat
      BY Elements DEF Inv, Typed
    <2>4. /\ Len(requests') = Len(requests) + 1
          /\ \A i \in 1 .. Len(requests) : requests'[i] = requests[i]
          /\ requests'[Len(requests) + 1] =
               [tid |-> q.tid, fn |-> q.fn, value |-> q.value, fate |-> f]
      BY <2>1, <2>3
    <2> QED
      BY <1>2, <1>3, <1>4, <2>2, <2>4 DEF Inv, Mine
  <1>5. CASE ~up
    BY <1>1, <1>2, <1>5 DEF Deliver, Inv, Broken, Mine
  <1> QED
    BY <1>4, <1>5

LEMMA AfterEnd ==
  ASSUME Inv, NEW q \in req, Ends(q)
  PROVE  /\ req = {q} /\ req' = {} /\ mine' = "gone"
         /\ UNCHANGED <<tid, up, requests, register, effect>>
         /\ \/ /\ replies # <<>> /\ Len(replies') = Len(replies) - 1
               /\ \A j \in 1 .. Len(replies') : replies'[j] = replies[j + 1]
            \/ replies = <<>> /\ replies' = <<>>
  <1>1. /\ UNCHANGED <<tid, up, requests, register, effect>> /\ req' = {} /\ mine' = "gone"
        /\ \/ replies # <<>> /\ replies' = Tail(replies)
           \/ replies = <<>> /\ replies' = replies
    BY DEF Ends, Receive, TimeOut, ConnectionReset, Return
  <1>2. req = {q}
    BY DEF Inv, Single
  <1>3. replies \in Seq(Replies)
    BY DEF Inv, Typed
  <1> QED
    BY <1>1, <1>2, <1>3

LEMMA AfterServe ==
  ASSUME Inv, Serve
  PROVE  /\ Len(requests) \in Nat /\ Len(requests) >= 1
         /\ Len(requests') = Len(requests) - 1
         /\ \A i \in 1 .. Len(requests') : requests'[i] = requests[i + 1]
         /\ requests[1] \in Sent
         /\ UNCHANGED <<tid, req, rc, dest, up>>
         /\ register' = IF requests[1].fate = "serve" /\ requests[1].fn = "write"
                        THEN requests[1].value ELSE register
         /\ IF requests[1].fate = "ignore" THEN replies' = replies
            ELSE /\ Len(replies') = Len(replies) + 1
                 /\ \A j \in 1 .. Len(replies) : replies'[j] = replies[j]
                 /\ replies'[Len(replies')].tid = requests[1].tid
                 /\ replies'[Len(replies')].value = register'
                 /\ replies'[Len(replies')].fn =
                      IF requests[1].fate = "serve" THEN requests[1].fn ELSE "exception"
         /\ IF mine = "queued" /\ Len(requests) = 1
            THEN /\ mine' = "served"
                 /\ effect' = IF requests[1].fate = "serve" THEN {register'} ELSE effect
            ELSE mine' = mine /\ effect' = effect
         /\ link' = IF /\ link = "late"
                       /\ ~(mine = "queued" /\ Len(requests) = 1)
                       /\ ~ \E i \in 2 .. Len(requests) :
                             /\ requests[i].fn = "write" /\ requests[i].fate = "serve"
                             /\ ~(mine = "queued" /\ i = Len(requests))
                    THEN "skewed" ELSE link
  <1> DEFINE r == [tid |-> requests[1].tid, value |-> register',
                   fn |-> IF requests[1].fate = "serve" THEN requests[1].fn ELSE "exception"]
  <1>1. /\ requests # <<>> /\ requests' = Tail(requests)
        /\ UNCHANGED <<tid, req, rc, dest, up>>
    BY DEF Serve, clientVars
  <1>2. /\ requests \in Seq(Sent) /\ replies \in Seq(Replies)
        /\ Len(requests) \in Nat /\ Len(replies) \in Nat
    BY Elements DEF Inv, Typed
  <1>3. /\ Len(requests') = Len(requests) - 1 /\ Len(requests) >= 1
        /\ \A i \in 1 .. Len(requests') : requests'[i] = requests[i + 1]
        /\ Head(requests) = requests[1] /\ requests[1] \in Sent
    BY <1>1, <1>2
  <1>4. replies' = IF requests[1].fate = "ignore" THEN replies ELSE Append(replies, r)
    BY <1>3 DEF Serve
  <1>5. register' = IF requests[1].fate = "serve" /\ requests[1].fn = "write"
                   THEN requests[1].value ELSE register
    BY <1>3 DEF Serve
  <1>6. mine' = IF mine = "queued" /\ Len(requests) = 1 THEN "served" ELSE mine
    BY DEF Serve
  <1>7. effect' = IF (mine = "queued" /\ Len(requests) = 1) /\ requests[1].fate = "serve"
                    THEN {register'} ELSE effect
    BY <1>3 DEF Serve
  <1>8. link' = IF /\ link = "late"
                   /\ ~(mine = "queued" /\ Len(requests) = 1)
                   /\ ~ \E i \in 2 .. Len(requests) :
                         /\ requests[i].fn = "write" /\ requests[i].fate = "serve"
                         /\ ~(mine = "queued" /\ i = Len(requests))
                THEN "skewed" ELSE link
    BY Zenon DEF Serve
  <1>9. /\ r.tid = requests[1].tid /\ r.value = register'
        /\ r.fn = IF requests[1].fate = "serve" THEN requests[1].fn ELSE "exception"
    OBVIOUS
  <1> HIDE DEF r
  <1>10. CASE requests[1].fate = "ignore"
    BY <1>1, <1>2, <1>3, <1>4, <1>5, <1>6, <1>7, <1>8, <1>10
  <1>11. CASE requests[1].fate # "ignore"
    <2>1. /\ Len(replies') = Len(replies) + 1
          /\ \A j \in 1 .. Len(replies) : replies'[j] = replies[j]
          /\ replies'[Len(replies')] = r
      BY <1>2, <1>4, <1>11
    <2> QED
      BY <1>1, <1>2, <1>3, <1>5, <1>6, <1>7, <1>8, <1>9, <1>11, <2>1
  <1> QED
    BY <1>10, <1>11

LEMMA AfterBreak ==
  ASSUME Inv, Break
  PROVE  /\ "down" \in Hazards /\ up /\ ~up'
         /\ requests' = <<>> /\ Len(requests') = 0
         /\ Len(replies') \in 0 .. Len(replies)
         /\ \A j \in 1 .. Len(replies') : replies'[j] = replies[j]
         /\ mine' = IF mine = "queued" THEN "gone" ELSE mine
         /\ UNCHANGED <<tid, req, rc, dest, register, effect, link>>
  <1>1. PICK n \in 0 .. Len(replies) : replies' = SubSeq(replies, 1, n)
    BY DEF Break
  <1>2. Len(replies) \in Nat /\ replies \in Seq(Replies)
    BY Elements DEF Inv, Typed
  <1>3. Len(replies') = n /\ \A j \in 1 .. n : replies'[j] = replies[j]
    BY <1>1, <1>2
  <1>4. /\ "down" \in Hazards /\ up' = FALSE /\ requests' = <<>>
        /\ mine' = IF mine = "queued" THEN "gone" ELSE mine
        /\ UNCHANGED <<tid, req, rc, dest, register, effect, link>>
    BY DEF Break, clientVars
  <1>5. up
    BY DEF Break
  <1> QED
    BY <1>3, <1>4, <1>5

-----------------------------------------------------------------------------
(***************************************************************************)
(* What the client may conclude about the request in progress from where   *)
(* it is and from what has come back.                                      *)
(***************************************************************************)
Own(j) == Lag(tid, replies[j].tid) = 0

\* Only a palletizer that is "silent" does anything but serve.
Fated == \A i \in 1 .. Len(requests) : requests[i].fate # "serve" => "silent" \in Hazards

\* A request that waits has done nothing yet, and says what the call says.
Pristine ==
  mine = "queued" =>
    /\ effect = {}
    /\ \A q \in req : /\ requests[Len(requests)].fn = q.fn
                      /\ requests[Len(requests)].value = q.value

\* One that is lost did nothing, and was lost with the connection; one that was
\* taken and did nothing met a silent palletizer; what one did is being
\* reported, unless the connection has broken.
Accounted ==
  req # {} =>
    /\ mine = "gone" => ~up /\ effect = {}
    /\ mine = "served" /\ effect = {} => "silent" \in Hazards
    /\ up /\ effect # {} => \E j \in 1 .. Len(replies) : Own(j)

\* The reply to it is of its function, or an exception, which means that it was
\* refused.
Truthful ==
  \A j \in 1 .. Len(replies), q \in req :
    Own(j) =>
      /\ replies[j].fn = q.fn \/ replies[j].fn = "exception"
      /\ replies[j].fn = "exception" => effect = {} /\ "silent" \in Hazards

Told == Fated /\ Pristine /\ Accounted /\ Truthful

LEMMA ToldInit == Init => Told
  BY DEF Init, Told, Fated, Pristine, Accounted, Truthful

LEMMA ToldCall ==
  ASSUME Inv, Told, NEW fn \in {"read", "write"}, NEW v \in Values, Call(fn, v)
  PROVE  Told'
  <1>1. /\ req' = {[tid |-> NextTid, fn |-> fn, value |-> v]} /\ tid' = NextTid
        /\ effect' = {} /\ replies' = replies /\ up' = up
    BY AfterCall
  <1>2. Len(requests) \in Nat
    BY Elements DEF Inv
  <1>3. Fated'
    <2>1. CASE up
      <3>1. /\ Len(requests') = Len(requests) + 1
            /\ \A i \in 1 .. Len(requests) : requests'[i] = requests[i]
            /\ requests'[Len(requests')].fate \in Fates
        BY <2>1, AfterCall
      <3>2. ASSUME NEW i \in 1 .. Len(requests'), requests'[i].fate # "serve"
            PROVE  "silent" \in Hazards
        <4>1. i \in 1 .. Len(requests) \/ i = Len(requests')
          BY <1>2, <3>1
        <4> QED
          BY <3>1, <3>2, <4>1 DEF Told, Fated, Fates
      <3> QED
        BY <3>2 DEF Fated
    <2>2. CASE ~up
      BY <2>2, AfterCall DEF Fated
    <2> QED
      BY <2>1, <2>2
  <1>4. Pristine'
    BY <1>1, AfterCall DEF Pristine
  <1>5. Accounted'
    BY <1>1, AfterCall DEF Accounted
  <1>6. Truthful'
    <2>1. MayCall
      BY DEF Call, Request
    <2>2. \A j \in 1 .. Len(replies) : Lag(tid', replies[j].tid) # 0
      BY <1>1, <2>1, MovedBack
    <2> QED
      BY <1>1, <2>2 DEF Truthful, Own
  <1> QED
    BY <1>3, <1>4, <1>5, <1>6 DEF Told

LEMMA ToldEnds ==
  ASSUME Inv, Told, NEW q \in req, Ends(q)
  PROVE  Told'
  <1>1. req' = {} /\ mine' = "gone" /\ requests' = requests
    BY AfterEnd
  <1> QED
    BY <1>1 DEF Told, Fated, Pristine, Accounted, Truthful

LEMMA ToldServe ==
  ASSUME Inv, Told, Serve
  PROVE  Told'
  <1> DEFINE r == requests[1]
             own == mine = "queued" /\ Len(requests) = 1
  <1>0. PICK last \in Nat : last = Len(replies) + 1
    BY Elements DEF Inv
  <1>1. /\ Len(requests) \in Nat /\ Len(requests) >= 1 /\ Len(replies) \in Nat
        /\ Len(requests') = Len(requests) - 1
        /\ \A i \in 1 .. Len(requests') : requests'[i] = requests[i + 1]
        /\ r \in Sent /\ tid \in Tids
        /\ UNCHANGED <<tid, req, up>>
    BY AfterServe, Elements DEF Inv, Typed
  <1>2. \/ r.fate = "ignore" /\ replies' = replies
        \/ /\ r.fate # "ignore" /\ Len(replies') = last
           /\ \A j \in 1 .. Len(replies) : replies'[j] = replies[j]
           /\ replies'[last].tid = r.tid
           /\ replies'[last].fn = IF r.fate = "serve" THEN r.fn ELSE "exception"
    BY <1>0, AfterServe
  <1>3. IF own THEN /\ mine' = "served"
                    /\ effect' = IF r.fate = "serve" THEN {register'} ELSE effect
        ELSE mine' = mine /\ effect' = effect
    BY AfterServe
  <1>4. Lag(tid, r.tid) = Len(requests) - 1
    BY <1>1 DEF Inv, Queued
  <1>5. r.fate # "serve" => "silent" \in Hazards
    BY <1>1 DEF Told, Fated
  <1>6. req # {} => mine = "queued"
    BY <1>1 DEF Inv, Mine
  <1>7. \A j \in 1 .. Len(replies) : req # {} => ~Own(j)
    BY <1>6 DEF Inv, Answer, Own
  <1> HIDE DEF r
  <1>8. Fated'
    <2> SUFFICES ASSUME NEW i \in 1 .. Len(requests'), requests'[i].fate # "serve"
                 PROVE  "silent" \in Hazards
      BY DEF Fated
    <2>1. i + 1 \in 1 .. Len(requests) /\ requests'[i] = requests[i + 1]
      BY <1>1
    <2> QED
      BY <2>1 DEF Told, Fated
  <1>9. Pristine'
    <2>1. CASE own
      BY <1>3, <2>1 DEF Pristine
    <2>2. CASE ~own /\ mine = "queued"
      <3>1. Len(requests') \in 1 .. Len(requests') /\ Len(requests') + 1 = Len(requests)
        BY <1>1, <2>2
      <3>2. requests'[Len(requests')] = requests[Len(requests)]
        BY <1>1, <3>1
      <3> QED
        BY <1>1, <1>3, <2>2, <3>2 DEF Told, Pristine
    <2>3. CASE mine # "queued"
      BY <1>3, <2>3 DEF Pristine
    <2> QED
      BY <2>1, <2>2, <2>3
  <1>10. CASE req = {}
    BY <1>1, <1>8, <1>9, <1>10 DEF Told, Accounted, Truthful
  <1>11. CASE req # {} /\ ~own
    <2>1. mine = "queued" /\ Len(requests) > 1 /\ effect = {} /\ mine' = "queued" /\ effect' = {}
      BY <1>1, <1>3, <1>6, <1>11 DEF Told, Pristine
    <2>2. Accounted'
      BY <2>1 DEF Accounted
    <2>3. Truthful'
      <3> SUFFICES ASSUME NEW j \in 1 .. Len(replies') PROVE ~Own(j)'
        BY DEF Truthful
      <3>1. CASE replies'[j].tid = r.tid
        BY <1>1, <1>4, <2>1, <3>1 DEF Own
      <3>2. CASE j \in 1 .. Len(replies) /\ replies'[j] = replies[j]
        BY <1>1, <1>7, <1>11, <3>2 DEF Own
      <3>3. j \in 1 .. Len(replies) \/ j = last
        BY <1>0, <1>1, <1>2
      <3> QED
        BY <1>2, <3>1, <3>2, <3>3
    <2> QED
      BY <1>8, <1>9, <2>2, <2>3 DEF Told
  <1>12. CASE req # {} /\ own
    <2>1. mine' = "served" /\ Lag(tid', r.tid) = 0 /\ effect = {}
      BY <1>1, <1>3, <1>4, <1>12 DEF Told, Pristine
    <2>2. \A q \in req' : r.fn = q.fn
      BY <1>1, <1>12 DEF r, Told, Pristine
    <2>3. r.fate = "serve" => effect' # {}
      BY <1>3, <1>12
    <2>4. r.fate # "serve" => effect' = {}
      BY <1>3, <1>12, <2>1
    <2>5. Accounted'
      <3>1. CASE r.fate = "serve"
        <4>1. last \in 1 .. Len(replies') /\ Own(last)'
          BY <1>0, <1>1, <1>2, <2>1, <3>1 DEF Own
        <4> QED
          BY <2>1, <2>3, <3>1, <4>1 DEF Accounted
      <3>2. CASE r.fate # "serve"
        BY <1>5, <2>1, <2>4, <3>2 DEF Accounted
      <3> QED
        BY <3>1, <3>2
    <2>6. Truthful'
      <3> SUFFICES ASSUME NEW j \in 1 .. Len(replies'), NEW q \in req', Own(j)'
                   PROVE  /\ replies'[j].fn = q.fn \/ replies'[j].fn = "exception"
                          /\ replies'[j].fn = "exception" => effect' = {} /\ "silent" \in Hazards
        BY DEF Truthful
      <3>1. ~(j \in 1 .. Len(replies) /\ replies'[j] = replies[j])
        BY <1>1, <1>7, <1>12 DEF Own
      <3>2. /\ r.fate # "ignore" /\ j = last
            /\ replies'[j].fn = IF r.fate = "serve" THEN r.fn ELSE "exception"
        BY <1>0, <1>1, <1>2, <3>1
      <3>3. r.fn # "exception"
        BY <1>1 DEF Sent
      <3> QED
        BY <1>5, <2>2, <2>4, <3>2, <3>3
    <2> QED
      BY <1>8, <1>9, <2>5, <2>6 DEF Told
  <1> QED
    BY <1>10, <1>11, <1>12

LEMMA ToldBreak ==
  ASSUME Inv, Told, Break
  PROVE  Told'
  <1>1. /\ ~up' /\ Len(requests') = 0 /\ Len(replies') \in 0 .. Len(replies)
        /\ \A j \in 1 .. Len(replies') : replies'[j] = replies[j]
        /\ mine' = IF mine = "queued" THEN "gone" ELSE mine
        /\ UNCHANGED <<tid, req, effect>>
    BY AfterBreak
  <1>2. Len(replies) \in Nat
    BY Elements DEF Inv
  <1>3. Fated' /\ Pristine'
    BY <1>1 DEF Fated, Pristine
  <1>4. Accounted'
    BY <1>1 DEF Told, Accounted, Pristine
  <1>5. Truthful'
    BY <1>1, <1>2 DEF Told, Truthful, Own
  <1> QED
    BY <1>3, <1>4, <1>5 DEF Told

LEMMA ToldNext == Inv /\ Told /\ [Next]_vars => Told'
  <1> SUFFICES ASSUME Inv, Told, [Next]_vars PROVE Told'
    OBVIOUS
  <1>1. CASE SendFails
    <2>1. req' = {} /\ mine' = "gone" /\ requests' = requests
      BY <1>1 DEF SendFails, MayCall
    <2> QED
      BY <2>1 DEF Told, Fated, Pristine, Accounted, Truthful
  <1>2. CASE Change \/ UNCHANGED vars
    BY <1>2 DEF Change, vars, clientVars, Told, Fated, Pristine, Accounted, Truthful, Own
  <1> QED
    BY <1>1, <1>2, ToldCall, ToldEnds, ToldServe, ToldBreak DEF Next

-----------------------------------------------------------------------------
(***************************************************************************)
(* ModbusTcp implements ModbusRegister.  What has gone astray is what      *)
(* waits at the palletizer before the request in progress.                 *)
(***************************************************************************)
Plain(q) == [fn |-> q.fn, value |-> q.value]
Called   == {Plain(q) : q \in req}
Ahead    == Len(requests) - (IF mine = "queued" THEN 1 ELSE 0)
Astray   == [i \in 1 .. Ahead |-> Plain(requests[i])]

AstrayOK ==
  /\ Len(requests) \in Nat /\ Ahead \in 0 .. Len(requests)
  /\ Astray \in Seq(Register!Calls) /\ Len(Astray) = Ahead
  /\ \A i \in 1 .. Ahead : Astray[i] = Plain(requests[i])

LEMMA AstrayIsSequence == Inv => AstrayOK
  <1> SUFFICES ASSUME Inv PROVE AstrayOK
    OBVIOUS
  <1>1. Len(requests) \in Nat /\ (mine = "queued" => Len(requests) > 0)
    BY Elements DEF Inv, Mine, Typed
  <1>2. Ahead \in 0 .. Len(requests)
    BY <1>1 DEF Ahead
  <1>3. ASSUME NEW i \in 1 .. Ahead PROVE Plain(requests[i]) \in Register!Calls
    <2>1. requests[i] \in Sent
      BY <1>1, <1>2, Elements DEF Inv
    <2> QED
      BY <2>1 DEF Sent, Plain, Register!Calls
  <1>4. Astray \in [1 .. Ahead -> Register!Calls]
    BY <1>3 DEF Astray
  <1> QED
    BY <1>1, <1>2, <1>4 DEF Astray, AstrayOK

LEMMA AstrayKept ==
  ASSUME AstrayOK, AstrayOK', Ahead' = Ahead,
         \A i \in 1 .. Ahead : Plain(requests[i])' = Plain(requests[i])
  PROVE  Astray' = Astray
  <1>1. Astray' \in Seq(Register!Calls) /\ Len(Astray') = Len(Astray)
        /\ \A i \in 1 .. Len(Astray') : Astray'[i] = Astray[i]
    BY DEF AstrayOK, Register!Calls
  <1> QED
    BY <1>1, SeqEqual DEF AstrayOK

\* The request in progress goes astray.
LEMMA AstrayGrows ==
  ASSUME AstrayOK, AstrayOK', Ahead' = Ahead + 1,
         \A i \in 1 .. Ahead : Plain(requests[i])' = Plain(requests[i]),
         NEW c \in Register!Calls, Plain(requests'[Ahead + 1]) = c
  PROVE  Astray' = Append(Astray, c)
  <1>1. /\ Append(Astray, c) \in Seq(Register!Calls)
        /\ Len(Append(Astray, c)) = Ahead + 1
        /\ \A i \in 1 .. Ahead : Append(Astray, c)[i] = Astray[i]
        /\ Append(Astray, c)[Ahead + 1] = c
    BY AppendProperties DEF AstrayOK
  <1>2. Astray' \in Seq(Register!Calls) /\ Len(Astray') = Ahead + 1
        /\ \A i \in 1 .. Ahead : Astray'[i] = Astray[i]
        /\ Astray'[Ahead + 1] = c
    BY DEF AstrayOK
  <1>3. \A i \in 1 .. Len(Astray') : Astray'[i] = Append(Astray, c)[i]
    BY <1>1, <1>2 DEF AstrayOK
  <1> QED
    BY <1>1, <1>2, <1>3, SeqEqual

\* The oldest that had gone astray is taken.
LEMMA AstrayShrinks ==
  ASSUME AstrayOK, AstrayOK', Ahead > 0, Ahead' = Ahead - 1,
         \A i \in 1 .. Ahead' : Plain(requests[i])' = Plain(requests[i + 1])
  PROVE  /\ Astray # <<>> /\ Head(Astray) = Plain(requests[1])
         /\ Astray' = Tail(Astray)
  <1>1. Astray # <<>> /\ Head(Astray) = Plain(requests[1])
    BY DEF AstrayOK
  <1>2. /\ Tail(Astray) \in Seq(Register!Calls)
        /\ Len(Tail(Astray)) = Ahead - 1
        /\ \A i \in 1 .. Ahead - 1 : Tail(Astray)[i] = Astray[i + 1]
    BY <1>1, HeadTailProperties DEF AstrayOK
  <1>3. Astray' \in Seq(Register!Calls) /\ Len(Astray') = Ahead - 1
        /\ \A i \in 1 .. Ahead - 1 : Astray'[i] = Astray[i + 1]
    BY DEF AstrayOK
  <1>4. \A i \in 1 .. Len(Astray') : Astray'[i] = Tail(Astray)[i]
    BY <1>2, <1>3
  <1> QED
    BY <1>1, <1>2, <1>3, <1>4, SeqEqual

\* The actions of ModbusRegister under the mapping.
LEMMA Mapped ==
  /\ \A c : Register!Begin(c) <=>
       /\ Called = {} /\ Called' = {c} /\ effect' = {} /\ rc' = "none"
       /\ UNCHANGED <<register, Astray, dest>>
  /\ \A c : Register!CarryOut(c) <=>
       /\ c \in Called /\ effect = {} /\ Astray = <<>>
       /\ register' = IF c.fn = "write" THEN c.value ELSE register
       /\ effect' = {register'}
       /\ UNCHANGED <<Called, Astray, rc, dest>>
  /\ \A c : Register!Succeed(c) <=>
       /\ c \in Called
       /\ \E v \in effect : dest' = IF c.fn = "read" THEN v ELSE dest
       /\ rc' = "ok" /\ Called' = {}
       /\ UNCHANGED <<register, effect, Astray>>
  /\ \A c : Register!Fail(c) <=>
       /\ c \in Called /\ rc' = "error" /\ Called' = {}
       /\ Astray' \in {Astray} \cup IF effect = {} THEN {Append(Astray, c)} ELSE {}
       /\ UNCHANGED <<register, effect, dest>>
  /\ Register!FailAtOnce <=>
       /\ Called = {} /\ rc' = "error" /\ effect' = {}
       /\ UNCHANGED <<register, Called, Astray, dest>>
  /\ Register!CarryOutStray <=>
       /\ Astray # <<>>
       /\ register' = IF Head(Astray).fn = "write" THEN Head(Astray).value ELSE register
       /\ Astray' = Tail(Astray)
       /\ UNCHANGED <<Called, effect, rc, dest>>
  /\ Register!LoseStrays <=>
       /\ Astray # <<>> /\ Astray' \in {<<>>, Tail(Astray)}
       /\ UNCHANGED <<register, Called, effect, rc, dest>>
  /\ Register!Change <=>
       /\ register' \in Values
       /\ UNCHANGED <<Called, effect, Astray, rc, dest>>
  /\ UNCHANGED Register!vars <=> UNCHANGED <<register, Called, effect, Astray, rc, dest>>
  BY DEF Register!Begin, Register!CarryOut, Register!Succeed, Register!Fail,
         Register!FailAtOnce, Register!CarryOutStray, Register!LoseStrays, Register!Change,
         Register!vars, Called, Astray, Ahead, Plain

LEMMA CalledIs ==
  /\ req = {} => Called = {}
  /\ \A q : req = {q} => Called = {Plain(q)}
  /\ \A q \in req : Plain(q) \in Called
  BY DEF Called

LEMMA CallBegins ==
  ASSUME Inv, Inv', NEW fn \in {"read", "write"}, NEW v \in Values, Call(fn, v)
  PROVE  Register!Next
  <1> DEFINE q == [tid |-> NextTid, fn |-> fn, value |-> v]
             c == [fn |-> fn, value |-> v]
  <1>1. /\ req = {} /\ req' = {q} /\ mine # "queued" /\ rc' = "none" /\ effect' = {}
        /\ UNCHANGED <<register, dest>>
    BY AfterCall
  <1>2. Plain(q) = c /\ c \in Register!Calls
    BY DEF Plain, Register!Calls
  <1> HIDE DEF q, c
  <1>3. Called = {} /\ Called' = {c}
    BY <1>1, <1>2 DEF Called
  <1>4. AstrayOK /\ AstrayOK'
    BY AstrayIsSequence, PTL
  <1>5. Ahead' = Ahead /\ \A i \in 1 .. Ahead : requests'[i] = requests[i]
    <2>1. CASE up
      <3>1. /\ mine' = "queued" /\ Len(requests') = Len(requests) + 1
            /\ \A i \in 1 .. Len(requests) : requests'[i] = requests[i]
        BY <2>1, AfterCall
      <3>2. Ahead = Len(requests) - 0 /\ Ahead' = Len(requests') - 1
        BY <1>1, <3>1 DEF Ahead
      <3>3. Ahead = Len(requests) /\ Ahead' = Len(requests)
        BY <1>4, <3>1, <3>2 DEF AstrayOK
      <3> QED
        BY <3>1, <3>3
    <2>2. CASE ~up
      <3>1. requests = <<>> /\ requests' = <<>> /\ mine' = "gone"
        BY <2>2, AfterCall
      <3> QED
        BY <1>1, <3>1 DEF Ahead
    <2> QED
      BY <2>1, <2>2
  <1>6. Astray' = Astray
    BY <1>4, <1>5, AstrayKept DEF Plain
  <1>7. Register!Begin(c)
    BY <1>1, <1>3, <1>6, Mapped
  <1> QED
    BY <1>2, <1>7 DEF Register!Next

LEMMA SendFailsAtOnce ==
  ASSUME Inv, Inv', SendFails
  PROVE  Register!Next
  <1>1. /\ req = {} /\ req' = req /\ mine' = "gone" /\ rc' = "error" /\ effect' = {}
        /\ UNCHANGED <<dest, requests, register>>
    BY DEF SendFails, MayCall
  <1>2. mine # "queued"
    BY <1>1 DEF Inv, Mine
  <1>3. Called = {} /\ Called' = Called
    BY <1>1 DEF Called
  <1>4. AstrayOK /\ AstrayOK'
    BY AstrayIsSequence, PTL
  <1>5. Astray' = Astray
    BY <1>1, <1>2, <1>4, AstrayKept DEF Ahead, Plain
  <1> QED
    BY <1>1, <1>3, <1>5, Mapped DEF Register!Next

LEMMA EndSucceedsOrFails ==
  ASSUME Inv, Inv', Told, NEW q \in req, Ends(q)
  PROVE  Register!Next
  <1>1. /\ req = {q} /\ req' = {} /\ mine' = "gone"
        /\ UNCHANGED <<requests, register, effect>>
    BY AfterEnd
  <1> DEFINE c == Plain(q)
  <1>2. Called = {c} /\ Called' = {} /\ c.fn = q.fn /\ c.value = q.value
    BY <1>1 DEF Called, Plain
  <1>3. c \in Register!Calls
    BY DEF Inv, Typed, Requests, Plain, Register!Calls
  <1>4. AstrayOK /\ AstrayOK'
    BY AstrayIsSequence, PTL
  <1>5. mine = "queued" => requests # <<>>
    BY DEF Inv, Mine
  <1>6. CASE rc' = "ok"
    <2>1. effect # {} /\ (q.fn = "read" => dest' \in effect)
      BY <1>1, <1>6, OwnStep DEF Next
    <2>2. q.fn # "read" => dest' = dest
      BY DEF Ends, Receive, TimeOut, ConnectionReset
    <2>3. mine # "queued"
      BY <2>1 DEF Told, Pristine
    <2>4. Astray' = Astray
      BY <1>1, <1>4, <2>3, AstrayKept DEF Ahead, Plain
    <2>5. \E v \in effect : dest' = IF c.fn = "read" THEN v ELSE dest
      BY <1>2, <2>1, <2>2
    <2> HIDE DEF c
    <2>6. Register!Succeed(c)
      BY <1>1, <1>2, <1>6, <2>4, <2>5, Mapped
    <2> QED
      BY <1>3, <2>6 DEF Register!Next
  <1>7. CASE rc' # "ok"
    <2>1. rc' = "error" /\ dest' = dest
      BY <1>7 DEF Ends, Receive, TimeOut, ConnectionReset, Return
    <2>2. CASE mine = "queued"
      <3>1. Ahead' = Ahead + 1 /\ Ahead + 1 = Len(requests)
        BY <1>1, <1>4, <2>2 DEF Ahead, AstrayOK
      <3>2. effect = {} /\ Plain(requests[Len(requests)]) = c
        BY <2>2 DEF Told, Pristine, Plain
      <3> HIDE DEF c
      <3>3. Astray' = Append(Astray, c)
        BY <1>1, <1>3, <1>4, <3>1, <3>2, AstrayGrows DEF Plain
      <3>4. Register!Fail(c)
        BY <1>1, <1>2, <2>1, <3>2, <3>3, Mapped
      <3> QED
        BY <1>3, <3>4 DEF Register!Next
    <2>3. CASE mine # "queued"
      <3>1. Astray' = Astray
        BY <1>1, <1>4, <2>3, AstrayKept DEF Ahead, Plain
      <3> HIDE DEF c
      <3>2. Register!Fail(c)
        BY <1>1, <1>2, <2>1, <3>1, Mapped
      <3> QED
        BY <1>3, <3>2 DEF Register!Next
    <2> QED
      BY <2>2, <2>3
  <1> QED
    BY <1>6, <1>7

LEMMA ServeCarriesOut ==
  ASSUME Inv, Inv', Told, Serve
  PROVE  Register!Next \/ UNCHANGED Register!vars
  <1> DEFINE r == requests[1]
             own == mine = "queued" /\ Len(requests) = 1
  <1>1. /\ Len(requests) \in Nat /\ Len(requests) >= 1
        /\ Len(requests') = Len(requests) - 1
        /\ \A i \in 1 .. Len(requests') : requests'[i] = requests[i + 1]
        /\ r \in Sent
        /\ UNCHANGED <<req, rc, dest>>
        /\ register' = IF r.fate = "serve" /\ r.fn = "write" THEN r.value ELSE register
        /\ IF own THEN /\ mine' = "served"
                       /\ effect' = IF r.fate = "serve" THEN {register'} ELSE effect
           ELSE mine' = mine /\ effect' = effect
    BY AfterServe
  <1>2. AstrayOK /\ AstrayOK'
    BY AstrayIsSequence, PTL
  <1>3. Called' = Called
    BY <1>1 DEF Called
  <1>4. Plain(r).fn = r.fn /\ Plain(r).value = r.value
    BY DEF Plain
  <1>5. CASE own
    <2>1. Ahead = 0 /\ Ahead' = 0
      <3>1. mine = "queued" /\ Len(requests) = 1 /\ mine' = "served" /\ Len(requests') = 0
        BY <1>1, <1>5
      <3> QED
        BY <3>1 DEF Ahead
    <2>2. Astray = <<>> /\ Astray' = Astray
      <3>1. Astray' = Astray
        BY <1>2, <2>1, AstrayKept
      <3> QED
        BY <1>2, <2>1, <3>1 DEF AstrayOK
    <2>3. PICK q \in req : TRUE
      BY <1>5 DEF Inv, Mine
    <2>4. r.fn = q.fn /\ r.value = q.value /\ effect = {}
      BY <1>5 DEF Told, Pristine
    <2>5. Plain(q) \in Called /\ Plain(q) \in Register!Calls
          /\ Plain(q).fn = q.fn /\ Plain(q).value = q.value
      BY DEF Called, Plain, Inv, Typed, Requests, Register!Calls
    <2>6. CASE r.fate = "serve"
      <3>1. /\ register' = IF Plain(q).fn = "write" THEN Plain(q).value ELSE register
            /\ effect' = {register'}
        BY <1>1, <1>5, <2>4, <2>5, <2>6
      <3>2. Register!CarryOut(Plain(q))
        BY <1>1, <1>3, <2>2, <2>4, <2>5, <3>1, Mapped
      <3> QED
        BY <2>5, <3>2 DEF Register!Next
    <2>7. CASE r.fate # "serve"
      BY <1>1, <1>3, <1>5, <2>2, <2>7, Mapped
    <2> QED
      BY <2>6, <2>7
  <1>6. CASE ~own
    <2>1. Ahead > 0 /\ Ahead' = Ahead - 1 /\ Ahead' <= Len(requests')
      BY <1>1, <1>6 DEF Ahead
    <2>2. \A i \in 1 .. Ahead' : Plain(requests[i])' = Plain(requests[i + 1])
      BY <1>1, <1>2, <2>1 DEF Plain, AstrayOK
    <2>3. Astray # <<>> /\ Head(Astray) = Plain(r) /\ Astray' = Tail(Astray)
      BY <1>2, <2>1, <2>2, AstrayShrinks
    <2> HIDE DEF r
    <2>4. CASE r.fate = "serve"
      <3>1. register' = IF Head(Astray).fn = "write" THEN Head(Astray).value ELSE register
        BY <1>1, <1>4, <2>3, <2>4
      <3>2. Register!CarryOutStray
        BY <1>1, <1>3, <1>6, <2>3, <3>1, Mapped
      <3> QED
        BY <3>2 DEF Register!Next
    <2>5. CASE r.fate # "serve"
      <3>1. Register!LoseStrays
        BY <1>1, <1>3, <1>6, <2>3, <2>5, Mapped
      <3> QED
        BY <3>1 DEF Register!Next
    <2> QED
      BY <2>4, <2>5
  <1> QED
    BY <1>5, <1>6

LEMMA BreakLosesStrays ==
  ASSUME Inv, Inv', Break
  PROVE  Register!Next \/ UNCHANGED Register!vars
  <1>1. /\ requests' = <<>> /\ Len(requests') = 0 /\ mine' # "queued"
        /\ UNCHANGED <<req, rc, dest, register, effect>>
    BY AfterBreak
  <1>2. AstrayOK /\ AstrayOK'
    BY AstrayIsSequence, PTL
  <1>3. Astray' = <<>> /\ Called' = Called
    BY <1>1, <1>2 DEF AstrayOK, Ahead, Called
  <1>4. CASE Astray = <<>>
    BY <1>1, <1>3, <1>4, Mapped
  <1>5. CASE Astray # <<>>
    <2>1. Register!LoseStrays
      BY <1>1, <1>3, <1>5, Mapped
    <2> QED
      BY <2>1 DEF Register!Next
  <1> QED
    BY <1>4, <1>5

LEMMA StepKeepsPromise ==
  ASSUME Inv, Inv', Told, [Next]_vars
  PROVE  [Register!Next]_(Register!vars)
  <1>1. CASE Change
    <2>1. register' \in Values /\ UNCHANGED <<tid, req, rc, dest, requests, mine, effect>>
      BY <1>1 DEF Change, clientVars
    <2>2. Called' = Called /\ Astray' = Astray
      BY <2>1 DEF Called, Astray, Ahead
    <2> QED
      BY <2>1, <2>2, Mapped DEF Register!Next
  <1>2. CASE UNCHANGED vars
    <2>1. UNCHANGED <<req, rc, dest, requests, mine, effect, register>>
      BY <1>2 DEF vars, clientVars
    <2>2. Called' = Called /\ Astray' = Astray
      BY <2>1 DEF Called, Astray, Ahead
    <2> QED
      BY <2>1, <2>2, Mapped
  <1> QED
    BY <1>1, <1>2, CallBegins, SendFailsAtOnce, EndSucceedsOrFails, ServeCarriesOut,
       BreakLosesStrays DEF Next

\* The client keeps the promise of ModbusRegister, for any width of the
\* transaction id, any backlog below it, and all hazards: whatever comes late, a
\* call is carried out at most once, in the order of the calls, and one that
\* reports success was carried out while it lasted.
THEOREM PromiseIsKept == Spec => KeepsPromise
  <1>1. Init => Register!Init
    <2> SUFFICES ASSUME Init PROVE Register!Init
      OBVIOUS
    <2>1. Called = {} /\ Ahead = 0
      BY DEF Init, Called, Ahead
    <2>2. Astray = <<>>
      BY <2>1 DEF Astray
    <2> QED
      BY <2>1, <2>2 DEF Init, Register!Init, Called, Astray, Ahead, Plain
  <1>2. Inv /\ Inv' /\ Told /\ [Next]_vars => [Register!Next]_(Register!vars)
    BY StepKeepsPromise
  <1> QED
    BY <1>1, <1>2, InvInit, InvNext, ToldInit, ToldNext, PTL
    DEF Spec, KeepsPromise, Register!Spec

-----------------------------------------------------------------------------
(***************************************************************************)
(* What the state of the connection, as the callers know it, says of what  *)
(* is under way.                                                           *)
(***************************************************************************)

\* What waits at the palletizer and nobody waits for.
Left(i) == i \in 1 .. Len(requests) /\ ~(mine = "queued" /\ i = Len(requests))

Written(i) == requests[i].fate = "serve" /\ requests[i].fn = "write"

Reasons ==
  /\ ~up => "down" \in Hazards
  /\ link \in {"skewed", "late"} => "slow" \in Hazards

\* No reply comes but the one to the request in progress.
Clear ==
  link = "up" =>
    /\ \A i \in 1 .. Len(requests) : Left(i) => requests[i].fate = "ignore"
    /\ Len(replies) # 0 => req # {} /\ mine = "served" /\ Len(replies) = 1 /\ Own(1)

\* A reply to an earlier request is there, or comes, before it.
Skewed ==
  link = "skewed" =>
    /\ \A i \in 1 .. Len(requests) : Left(i) => ~Written(i)
    /\ Len(replies) # 0 /\ req # {} => ~Own(1)
    /\ Len(replies) = 0 /\ up =>
         \E i \in 1 .. Len(requests) : Left(i) /\ requests[i].fate # "ignore"

\* An earlier write is still to be done.
Late ==
  link = "late" =>
    /\ up => \E i \in 1 .. Len(requests) : Left(i) /\ Written(i)
    /\ req # {} => effect = {}

Down == link = "down" => ~up /\ (req # {} => effect = {})

LinkInv == Reasons /\ Clear /\ Skewed /\ Late /\ Down

LEMMA LinkInit == Init => LinkInv
  BY DEF Init, LinkInv, Reasons, Clear, Skewed, Late, Down

LEMMA LinkCall ==
  ASSUME Inv, LinkInv, NEW fn \in {"read", "write"}, NEW v \in Values, Call(fn, v)
  PROVE  LinkInv'
  <1>1. /\ req = {} /\ mine # "queued" /\ effect' = {}
        /\ UNCHANGED <<up, replies, link>> /\ Len(requests) \in Nat /\ Len(replies) \in Nat
    BY AfterCall, Elements DEF Inv
  <1>2. MayCall /\ tid' = NextTid
    BY AfterCall DEF Call, Request
  <1>3. \A j \in 1 .. Len(replies) : ~Own(j)'
    BY <1>1, <1>2, MovedBack DEF Own
  <1>4. ASSUME NEW i \in 1 .. Len(requests), Left(i)
        PROVE  i \in 1 .. Len(requests') /\ Left(i)' /\ requests'[i] = requests[i]
    <2>1. CASE up
      <3>1. /\ mine' = "queued" /\ Len(requests') = Len(requests) + 1
            /\ requests'[i] = requests[i]
        BY <2>1, AfterCall
      <3> QED
        BY <1>1, <3>1 DEF Left
    <2>2. CASE ~up
      BY <1>4, <2>2, AfterCall
    <2> QED
      BY <2>1, <2>2
  <1>5. ASSUME NEW i \in 1 .. Len(requests'), Left(i)'
        PROVE  i \in 1 .. Len(requests) /\ Left(i) /\ requests'[i] = requests[i]
    <2>1. CASE up
      <3>1. /\ mine' = "queued" /\ Len(requests') = Len(requests) + 1
            /\ \A k \in 1 .. Len(requests) : requests'[k] = requests[k]
        BY <2>1, AfterCall
      <3>2. i \in 1 .. Len(requests)
        BY <1>1, <1>5, <3>1 DEF Left
      <3> QED
        BY <1>1, <3>1, <3>2 DEF Left
    <2>2. CASE ~up
      BY <1>5, <2>2, AfterCall
    <2> QED
      BY <2>1, <2>2
  <1>6. Reasons'
    BY <1>1 DEF LinkInv, Reasons
  <1>7. Clear'
    <2>1. link = "up" => Len(replies) = 0
      BY <1>1 DEF LinkInv, Clear
    <2> QED
      BY <1>1, <1>5, <2>1 DEF LinkInv, Clear
  <1>8. Skewed'
    <2>1. link = "skewed" => \A i \in 1 .. Len(requests') : Left(i)' => ~Written(i)'
      BY <1>5 DEF LinkInv, Skewed, Written
    <2>2. Len(replies) # 0 => ~Own(1)'
      BY <1>1, <1>3
    <2>3. link = "skewed" /\ Len(replies) = 0 /\ up =>
            \E i \in 1 .. Len(requests') : Left(i)' /\ requests'[i].fate # "ignore"
      BY <1>4 DEF LinkInv, Skewed
    <2> QED
      BY <1>1, <2>1, <2>2, <2>3 DEF Skewed
  <1>9. Late' /\ Down'
    BY <1>1, <1>4 DEF LinkInv, Late, Down, Written
  <1> QED
    BY <1>6, <1>7, <1>8, <1>9 DEF LinkInv

LEMMA LinkSendFails ==
  ASSUME Inv, LinkInv, SendFails
  PROVE  LinkInv'
  <1>1. ~up /\ ~up' /\ link' = "down" /\ req' = {}
    BY DEF SendFails, MayCall
  <1> QED
    BY <1>1 DEF LinkInv, Reasons, Clear, Skewed, Late, Down

LEMMA LinkServe ==
  ASSUME Inv, LinkInv, Serve
  PROVE  LinkInv'
  <1> DEFINE r == requests[1]
             own == mine = "queued" /\ Len(requests) = 1
  <1>1. /\ Len(requests) \in Nat /\ Len(requests) >= 1 /\ Len(replies) \in Nat
        /\ Len(requests') = Len(requests) - 1
        /\ \A i \in 1 .. Len(requests') : requests'[i] = requests[i + 1]
        /\ UNCHANGED <<tid, req, up>>
    BY AfterServe, Elements DEF Inv
  <1>2. \/ /\ r.fate = "ignore" /\ replies' = replies
        \/ /\ r.fate # "ignore" /\ Len(replies') = Len(replies) + 1
           /\ \A j \in 1 .. Len(replies) : replies'[j] = replies[j]
           /\ replies'[Len(replies')].tid = r.tid
    BY AfterServe
  <1>3. IF own THEN mine' = "served" ELSE mine' = mine /\ effect' = effect
    BY AfterServe
  <1>4. /\ link' = IF link = "late" /\ ~own /\ ~ \E i \in 2 .. Len(requests) :
                                                Written(i) /\ Left(i)
                   THEN "skewed" ELSE link
    <2>1. (\E i \in 2 .. Len(requests) :
             /\ requests[i].fn = "write" /\ requests[i].fate = "serve"
             /\ ~(mine = "queued" /\ i = Len(requests)))
          <=> \E i \in 2 .. Len(requests) : Written(i) /\ Left(i)
      BY <1>1 DEF Written, Left
    <2> QED
      BY <2>1, AfterServe
  <1>5. up /\ (req # {} => mine = "queued") /\ (mine = "queued" => req # {})
    BY <1>1 DEF Inv, Broken, Mine
  <1>6. Lag(tid, r.tid) = Len(requests) - 1
    BY <1>1 DEF Inv, Queued
  <1>7. \A i \in 1 .. Len(requests') :
          /\ i + 1 \in 2 .. Len(requests)
          /\ Left(i)' => Left(i + 1)
          /\ Written(i)' <=> Written(i + 1)
    BY <1>1, <1>3 DEF Left, Written
  <1>8. \A i \in 2 .. Len(requests) :
          /\ i - 1 \in 1 .. Len(requests')
          /\ Left(i) => Left(i - 1)'
          /\ Written(i - 1)' <=> Written(i)
          /\ requests'[i - 1] = requests[i]
    <2> SUFFICES ASSUME NEW i \in 2 .. Len(requests)
                 PROVE  /\ i - 1 \in 1 .. Len(requests')
                        /\ Left(i) => Left(i - 1)'
                        /\ Written(i - 1)' <=> Written(i)
                        /\ requests'[i - 1] = requests[i]
      OBVIOUS
    <2>1. i - 1 \in 1 .. Len(requests') /\ requests'[i - 1] = requests[i]
      BY <1>1
    <2> QED
      BY <1>1, <1>3, <2>1 DEF Left, Written
  <1>9. ~own => Left(1)
    BY <1>1 DEF Left
  <1>10. Written(1) => r.fate # "ignore"
    BY DEF Written
  <1> HIDE DEF r
  <1>11. Reasons'
    BY <1>1, <1>4 DEF LinkInv, Reasons
  <1>12. CASE link = "up"
    <2>1. link' = "up"
      BY <1>4, <1>12
    <2>2. \A i \in 1 .. Len(requests') : Left(i)' => requests'[i].fate = "ignore"
      BY <1>1, <1>7, <1>12 DEF LinkInv, Clear
    <2>3. Len(replies') # 0 => /\ req' # {} /\ mine' = "served" /\ Len(replies') = 1
                               /\ Own(1)'
      <3>1. CASE r.fate = "ignore"
        <4>1. Len(replies) # 0 => mine # "queued"
          BY <1>12 DEF LinkInv, Clear
        <4> QED
          BY <1>1, <1>2, <1>3, <1>12, <3>1, <4>1 DEF LinkInv, Clear, Own
      <3>2. CASE r.fate # "ignore"
        <4>1. own
          BY <1>1, <1>9, <1>12, <3>2 DEF LinkInv, Clear, r
        <4>2. Len(replies) = 0
          BY <1>12, <4>1 DEF LinkInv, Clear
        <4> QED
          BY <1>1, <1>2, <1>3, <1>5, <1>6, <3>2, <4>1, <4>2 DEF Own
      <3> QED
        BY <3>1, <3>2
    <2> QED
      BY <1>11, <2>1, <2>2, <2>3 DEF LinkInv, Clear, Skewed, Late, Down
  <1>13. CASE link = "skewed"
    <2>1. link' = "skewed"
      BY <1>4, <1>13
    <2>2. \A i \in 1 .. Len(requests') : Left(i)' => ~Written(i)'
      BY <1>1, <1>7, <1>13 DEF LinkInv, Skewed
    <2>3. ASSUME Len(replies') # 0, req' # {} PROVE ~Own(1)'
      <3>1. CASE Len(replies) # 0
        <4>1. replies'[1] = replies[1]
          BY <1>1, <1>2, <3>1
        <4> QED
          BY <1>1, <1>13, <2>3, <3>1, <4>1 DEF LinkInv, Skewed, Own
      <3>2. CASE Len(replies) = 0
        <4>1. replies'[1].tid = r.tid
          BY <1>1, <1>2, <2>3, <3>2
        <4>2. PICK i \in 1 .. Len(requests) : Left(i)
          BY <1>5, <1>13, <3>2 DEF LinkInv, Skewed
        <4>3. Len(requests) # 1
          BY <1>1, <1>5, <2>3, <4>2 DEF Left
        <4> QED
          BY <1>1, <1>6, <4>1, <4>3 DEF Own
      <3> QED
        BY <3>1, <3>2
    <2>4. ASSUME Len(replies') = 0
          PROVE  \E i \in 1 .. Len(requests') : Left(i)' /\ requests'[i].fate # "ignore"
      <3>1. r.fate = "ignore" /\ Len(replies) = 0
        BY <1>1, <1>2, <2>4
      <3>2. PICK i \in 1 .. Len(requests) : Left(i) /\ requests[i].fate # "ignore"
        BY <1>5, <1>13, <3>1 DEF LinkInv, Skewed
      <3>3. i # 1
        BY <3>1, <3>2 DEF r
      <3>4. i \in 2 .. Len(requests)
        BY <1>1, <3>3
      <3> QED
        BY <1>8, <3>2, <3>4
    <2> QED
      BY <1>11, <2>1, <2>2, <2>3, <2>4 DEF LinkInv, Clear, Skewed, Late, Down
  <1>14. CASE link = "late"
    <2>1. PICK i \in 1 .. Len(requests) : Left(i) /\ Written(i)
      BY <1>5, <1>14 DEF LinkInv, Late
    <2>2. ~own /\ mine' = mine /\ effect' = effect
      BY <1>1, <1>3, <2>1 DEF Left
    <2>3. CASE \E k \in 2 .. Len(requests) : Written(k) /\ Left(k)
      <3>1. link' = "late"
        BY <1>4, <1>14, <2>3
      <3>2. \E k \in 1 .. Len(requests') : Left(k)' /\ Written(k)'
        BY <1>8, <2>3
      <3>3. req' # {} => effect' = {}
        BY <1>1, <1>14, <2>2 DEF LinkInv, Late
      <3> QED
        BY <1>11, <3>1, <3>2, <3>3 DEF LinkInv, Clear, Skewed, Late, Down
    <2>4. CASE ~ \E k \in 2 .. Len(requests) : Written(k) /\ Left(k)
      <3>1. link' = "skewed"
        BY <1>4, <1>14, <2>2, <2>4
      <3>2. i = 1
        BY <1>1, <2>1, <2>4
      <3>3. /\ Len(replies') = Len(replies) + 1
            /\ \A j \in 1 .. Len(replies) : replies'[j] = replies[j]
            /\ replies'[Len(replies')].tid = r.tid
        BY <1>2, <1>10, <2>1, <3>2
      <3>4. \A k \in 1 .. Len(requests') : Left(k)' => ~Written(k)'
        BY <1>7, <2>4
      <3>5. ASSUME req' # {} PROVE ~Own(1)'
        <4>1. mine = "queued" /\ Len(requests) # 1
          BY <1>1, <1>5, <2>2, <3>5
        <4>2. CASE Len(replies) = 0
          BY <1>1, <1>6, <3>3, <4>1, <4>2 DEF Own
        <4>3. CASE Len(replies) # 0
          <5>1. 1 \in 1 .. Len(replies) /\ replies'[1] = replies[1]
            BY <1>1, <3>3, <4>3
          <5>2. ~Own(1)
            BY <1>1, <3>5, <4>1, <5>1 DEF Inv, Answer, Own
          <5> QED
            BY <1>1, <5>1, <5>2 DEF Own
        <4> QED
          BY <4>2, <4>3
      <3>6. Len(replies') # 0
        BY <1>1, <3>3
      <3> QED
        BY <1>11, <3>1, <3>4, <3>5, <3>6 DEF LinkInv, Clear, Skewed, Late, Down
    <2> QED
      BY <2>3, <2>4
  <1>15. CASE link \notin {"up", "skewed", "late"}
    <2>1. link # "down"
      BY <1>5 DEF LinkInv, Down
    <2>2. link' = link
      BY <1>4, <1>15
    <2> QED
      BY <1>11, <1>15, <2>1, <2>2 DEF LinkInv, Clear, Skewed, Late, Down
  <1> QED
    BY <1>12, <1>13, <1>14, <1>15

LEMMA LinkBreak ==
  ASSUME Inv, LinkInv, Break
  PROVE  LinkInv'
  <1>1. /\ "down" \in Hazards /\ up /\ ~up' /\ Len(requests') = 0
        /\ Len(replies') \in 0 .. Len(replies)
        /\ \A j \in 1 .. Len(replies') : replies'[j] = replies[j]
        /\ mine' = IF mine = "queued" THEN "gone" ELSE mine
        /\ UNCHANGED <<tid, req, effect, link>>
    BY AfterBreak
  <1>2. Len(replies) \in Nat
    BY Elements DEF Inv
  <1>3. Len(replies') # 0 => Len(replies) # 0 /\ replies'[1] = replies[1]
    BY <1>1, <1>2
  <1>4. Clear'
    <2> SUFFICES ASSUME link = "up", Len(replies') # 0
                 PROVE  /\ req' # {} /\ mine' = "served" /\ Len(replies') = 1 /\ Own(1)'
      BY <1>1 DEF Clear
    <2>1. req # {} /\ mine = "served" /\ Len(replies) = 1 /\ Own(1)
      BY <1>3 DEF LinkInv, Clear
    <2> QED
      BY <1>1, <1>3, <2>1 DEF Own
  <1>5. Skewed'
    BY <1>1, <1>3 DEF LinkInv, Skewed, Own
  <1>6. Reasons' /\ Late' /\ Down'
    BY <1>1 DEF LinkInv, Reasons, Late, Down
  <1> QED
    BY <1>4, <1>5, <1>6 DEF LinkInv

\* How a call that ends leaves the connection, read off what is under way.
LEMMA AfterEndLink ==
  ASSUME Inv, NEW q \in req, Ends(q)
  PROVE  /\ rc' \in {"ok", "error"}
         /\ ~up /\ rc' # "ok" => link' = "down"
         /\ up \/ rc' = "ok" =>
              /\ (\E i \in 1 .. Len(requests) : Written(i)) => link' = "late"
              /\ /\ \A i \in 1 .. Len(requests) : ~Written(i)
                 /\ \/ Len(replies') # 0
                    \/ \E i \in 1 .. Len(requests) : requests[i].fate # "ignore"
                 => link' = "skewed"
              /\ /\ \A i \in 1 .. Len(requests) : requests[i].fate = "ignore"
                 /\ Len(replies') = 0
                 => link' = "up"
  <1>1. PICK ok \in BOOLEAN : Return(ok, replies')
    <2>1. CASE Receive(q)
      <3>1. Return(Accepts(q, Head(replies)), Tail(replies)) /\ replies' = Tail(replies)
        BY <2>1 DEF Receive, Return
      <3>2. Accepts(q, Head(replies)) \in BOOLEAN
        BY Zenon DEF Accepts
      <3> QED
        BY <3>1, <3>2
    <2>2. CASE TimeOut(q) \/ ConnectionReset(q)
      <3>1. Return(FALSE, replies) /\ replies' = replies
        BY <2>2 DEF TimeOut, ConnectionReset, Return
      <3> QED
        BY <3>1
    <2> QED
      BY <2>1, <2>2 DEF Ends
  <1>2. rc' = (IF ok THEN "ok" ELSE "error") /\ link' = LinkAfter(ok, replies')
    BY <1>1 DEF Return
  <1>3. /\ DOMAIN requests = 1 .. Len(requests)
        /\ \A i \in 1 .. Len(requests) : /\ requests[i].fn \in {"read", "write"}
                                         /\ requests[i].fate \in {"serve", "refuse", "ignore"}
        /\ replies' = <<>> <=> Len(replies') = 0
    <2>1. DOMAIN requests = 1 .. Len(requests)
      BY DEF Inv, Typed
    <2>2. \A i \in 1 .. Len(requests) : /\ requests[i].fn \in {"read", "write"}
                                         /\ requests[i].fate \in {"serve", "refuse", "ignore"}
      BY Elements DEF Inv, Sent
    <2>3. replies' \in Seq(Replies)
      <3>1. \/ replies' = Tail(replies) /\ replies # <<>>
            \/ replies' = replies
        BY DEF Ends, Receive, TimeOut, ConnectionReset, Return
      <3> QED
        BY <3>1 DEF Inv, Typed
    <2> QED
      BY <2>1, <2>2, <2>3
  <1>4. Pending("serve", {"write"}) <=> \E i \in 1 .. Len(requests) : Written(i)
    BY <1>3 DEF Pending, Written
  <1>5. ~Pending("serve", {"write"}) =>
          ((Pending("serve", {"read"}) \/ Pending("refuse", {"read", "write"}))
             <=> \E i \in 1 .. Len(requests) : requests[i].fate # "ignore")
    BY <1>3 DEF Pending
  <1>6. (\A i \in 1 .. Len(requests) : requests[i].fate = "ignore") => ~Pending("serve", {"write"})
    BY <1>4 DEF Written
  <1> QED
    BY <1>2, <1>3, <1>4, <1>5, <1>6 DEF LinkAfter

\* The outcomes that callers reckon with.
LEMMA Reckoned ==
  ASSUME NEW l \in Links
  PROVE  /\ l = "up" => [arrives |-> TRUE, answered |-> TRUE, link |-> "up"] \in Outcomes(l)
         /\ l = "skewed" \/ (l = "up" /\ "slow" \in Hazards) =>
              [arrives |-> TRUE, answered |-> FALSE, link |-> "skewed"] \in Outcomes(l)
         /\ l \in {"up", "skewed"} /\ "silent" \in Hazards =>
              \A k \in {"up", l} :
                [arrives |-> FALSE, answered |-> FALSE, link |-> k] \in Outcomes(l)
         /\ l = "up" /\ "silent" \in Hazards /\ "slow" \in Hazards =>
              [arrives |-> FALSE, answered |-> FALSE, link |-> "skewed"] \in Outcomes(l)
         /\ l \in {"up", "skewed"} /\ "down" \in Hazards =>
              \A b \in BOOLEAN :
                [arrives |-> b, answered |-> FALSE, link |-> "down"] \in Outcomes(l)
         /\ l = "late" /\ "down" \in Hazards =>
              [arrives |-> FALSE, answered |-> FALSE, link |-> "down"] \in Outcomes(l)
         /\ l \in {"late", "down"} =>
              [arrives |-> FALSE, answered |-> FALSE, link |-> l] \in Outcomes(l)
         /\ l \in {"up", "skewed"} /\ "slow" \in Hazards =>
              [arrives |-> FALSE, answered |-> FALSE, link |-> "late"] \in WriteOutcomes(l)
         /\ Outcomes(l) \subseteq WriteOutcomes(l)
  BY DEF Outcomes, WriteOutcomes, Links

Expected(q) ==
  \E o \in IF q.fn = "write" THEN WriteOutcomes(link) ELSE Outcomes(link) :
    /\ q.fn = "write" => o.arrives = (effect # {})
    /\ o.answered = (rc' = "ok")
    /\ o.link = link'

LEMMA Fits ==
  ASSUME NEW q, NEW a \in BOOLEAN, NEW b \in BOOLEAN, NEW k,
         [arrives |-> a, answered |-> b, link |-> k] \in
           (IF q.fn = "write" THEN WriteOutcomes(link) ELSE Outcomes(link)),
         q.fn = "write" => (a <=> effect # {}),
         b <=> rc' = "ok",
         k = link'
  PROVE  Expected(q)
  <1> DEFINE o == [arrives |-> a, answered |-> b, link |-> k]
  <1>1. o.arrives = a /\ o.answered = b /\ o.link = k
    OBVIOUS
  <1>2. o \in IF q.fn = "write" THEN WriteOutcomes(link) ELSE Outcomes(link)
    OBVIOUS
  <1> HIDE DEF o
  <1>3. q.fn = "write" => o.arrives = (effect # {})
    BY <1>1
  <1>4. o.answered = (rc' = "ok")
    BY <1>1
  <1> QED
    BY <1>1, <1>2, <1>3, <1>4 DEF Expected

LEMMA FirstReply ==
  ASSUME Inv
  PROVE  /\ Len(replies) \in Nat
         /\ replies = <<>> <=> Len(replies) = 0
         /\ replies # <<>> => Head(replies) = replies[1]
  <1>1. replies \in Seq(Replies)
    BY DEF Inv, Typed
  <1> QED
    BY <1>1

LEMMA RepliesLeft ==
  ASSUME Inv, NEW q \in req, Ends(q)
  PROVE  Len(replies') = IF Len(replies) = 0 THEN 0 ELSE Len(replies) - 1
  <1>1. CASE replies = <<>>
    <2>1. replies' = <<>>
      BY <1>1, AfterEnd
    <2> QED
      BY <1>1, <2>1
  <1>2. CASE replies # <<>>
    BY <1>2, AfterEnd, FirstReply
  <1> QED
    BY <1>1, <1>2

\* The call has its answer: nothing was under way but itself.
LEMMA EndAnswered ==
  ASSUME Inv, Told, LinkInv, link \in Links, NEW q \in req, Ends(q), rc' = "ok"
  PROVE  Expected(q) /\ link' = "up"
  <1>1. req' = {} /\ req # {} /\ Len(replies) \in Nat /\ Len(requests) \in Nat
    BY AfterEnd, Elements DEF Inv
  <1>2. effect # {}
    BY <1>1, OwnStep DEF Next
  <1>3. Receive(q) /\ Accepts(q, Head(replies)) /\ replies # <<>>
    BY DEF Ends, Receive, TimeOut, ConnectionReset, Return
  <1>4. Len(replies) # 0 /\ Own(1)
    <2>1. Len(replies) # 0 /\ 1 \in 1 .. Len(replies) /\ Head(replies) = replies[1]
      BY <1>1, <1>3 DEF Inv, Typed
    <2>2. replies[1].tid = tid /\ tid \in Tids
      BY <1>3, <2>1 DEF Accepts, Inv, Single, Typed
    <2> QED
      BY <2>1, <2>2, LagNat DEF Own
  <1>5. link = "up"
    BY <1>1, <1>2, <1>4 DEF LinkInv, Skewed, Late, Down, Links
  <1>6. mine = "served" /\ Len(replies) = 1
    BY <1>4, <1>5 DEF LinkInv, Clear
  <1>7. Len(requests) = 0 /\ Len(replies') = 0
    <2>1. requests = <<>>
      BY <1>1, <1>6 DEF Inv, Mine
    <2> QED
      BY <1>6, <2>1, RepliesLeft
  <1>8. link' = "up"
    BY <1>7, AfterEndLink
  <1> QED
    BY <1>2, <1>5, <1>8, Reckoned, Fits

\* The connection is gone.
LEMMA EndBroken ==
  ASSUME Inv, Told, LinkInv, link \in Links, NEW q \in req, Ends(q), rc' # "ok", ~up
  PROVE  Expected(q) /\ link' = "down"
  <1>1. link' = "down" /\ "down" \in Hazards
    BY AfterEndLink DEF LinkInv, Reasons
  <1>2. CASE link \in {"up", "skewed"}
    <2>1. PICK a \in BOOLEAN : a <=> effect # {}
      OBVIOUS
    <2>2. [arrives |-> a, answered |-> FALSE, link |-> "down"] \in Outcomes(link)
      BY <1>1, <1>2, Reckoned
    <2> QED
      BY <1>1, <2>1, <2>2, Reckoned, Fits
  <1>3. CASE link \in {"late", "down"}
    <2>1. effect = {}
      BY <1>3 DEF LinkInv, Late, Down
    <2>2. [arrives |-> FALSE, answered |-> FALSE, link |-> "down"] \in Outcomes(link)
      BY <1>1, <1>3, Reckoned
    <2> QED
      BY <1>1, <2>1, <2>2, Reckoned, Fits
  <1> QED
    BY <1>2, <1>3 DEF Links

\* An earlier write is before it.
LEMMA EndLate ==
  ASSUME Inv, Told, LinkInv, NEW q \in req, Ends(q), rc' # "ok", up, link = "late"
  PROVE  Expected(q) /\ link' = "late"
  <1>1. effect = {} /\ \E i \in 1 .. Len(requests) : Written(i)
    BY DEF LinkInv, Late
  <1>2. link' = "late"
    BY <1>1, AfterEndLink
  <1>3. [arrives |-> FALSE, answered |-> FALSE, link |-> "late"] \in Outcomes(link)
    BY Reckoned DEF Links
  <1> QED
    BY <1>1, <1>2, <1>3, Reckoned, Fits DEF Links

\* It was carried out, but what came was for another.
LEMMA EndDone ==
  ASSUME Inv, Told, LinkInv, NEW q \in req, Ends(q), rc' # "ok", up,
         link \in {"up", "skewed"}, effect # {}
  PROVE  Expected(q) /\ link = "skewed" /\ link' = "skewed"
  <1>1. req # {} /\ Len(replies) \in Nat /\ Len(requests) \in Nat
    BY Elements DEF Inv
  <1>2. PICK j \in 1 .. Len(replies) : Own(j)
    BY <1>1 DEF Told, Accounted
  <1>3. mine = "served"
    BY <1>1, <1>2 DEF Inv, Answer, Own
  <1>4. requests = <<>> /\ Len(requests) = 0
    BY <1>1, <1>3 DEF Inv, Mine
  <1>5. link = "skewed"
    <2> SUFFICES ASSUME link = "up" PROVE FALSE
      OBVIOUS
    <2>1. Own(1) /\ Len(replies) = 1
      BY <1>1, <1>2 DEF LinkInv, Clear
    <2>2. /\ replies[1].fn = q.fn \/ replies[1].fn = "exception"
          /\ replies[1].fn # "exception"
      BY <2>1 DEF Told, Truthful
    <2>3. replies # <<>> /\ Head(replies) = replies[1]
      BY <2>1, FirstReply
    <2>4. replies[1].tid = q.tid
      <3>1. replies[1].tid \in Tids /\ tid \in Tids /\ q.tid = tid
        BY <2>1, Elements DEF Inv, Typed, Single
      <3> QED
        BY <2>1, <3>1, LagNat DEF Own
    <2>5. Receive(q)
      BY <2>3 DEF Ends, TimeOut, ConnectionReset
    <2> QED
      BY <2>2, <2>3, <2>4, <2>5 DEF Receive, Return, Accepts
  <1>6. ~Own(1)
    BY <1>1, <1>2, <1>5 DEF LinkInv, Skewed
  <1>7. Len(replies) >= 2
    BY <1>1, <1>2, <1>6
  <1>8. Len(replies') # 0
    BY <1>1, <1>7, RepliesLeft
  <1>9. link' = "skewed"
    BY <1>4, <1>8, AfterEndLink
  <1>10. [arrives |-> TRUE, answered |-> FALSE, link |-> "skewed"] \in Outcomes(link)
    BY <1>5, Reckoned DEF Links
  <1> QED
    BY <1>5, <1>9, <1>10, Reckoned, Fits DEF Links

\* The palletizer took it and did nothing.
LEMMA EndIgnored ==
  ASSUME Inv, Told, LinkInv, NEW q \in req, Ends(q), rc' # "ok", up,
         link \in {"up", "skewed"}, effect = {}, mine = "served"
  PROVE  Expected(q) /\ link' \in {"up", link}
  <1>1. req # {} /\ Len(replies) \in Nat /\ Len(requests) \in Nat
    BY Elements DEF Inv
  <1>2. requests = <<>> /\ Len(requests) = 0 /\ "silent" \in Hazards
    BY <1>1 DEF Inv, Mine, Told, Accounted
  <1>3. link' \in {"up", "skewed"}
    BY <1>2, AfterEndLink
  <1>4. link = "up" => link' = "up"
    <2> SUFFICES ASSUME link = "up" PROVE Len(replies') = 0
      BY <1>2, AfterEndLink
    <2>1. Len(replies) = 0 \/ Len(replies) = 1
      BY DEF LinkInv, Clear
    <2>2. Len(replies') = IF Len(replies) = 0 THEN 0 ELSE Len(replies) - 1
      BY RepliesLeft
    <2> QED
      BY <2>1, <2>2
  <1>5. [arrives |-> FALSE, answered |-> FALSE, link |-> link'] \in Outcomes(link)
    BY <1>2, <1>3, <1>4, Reckoned DEF Links
  <1> QED
    BY <1>3, <1>4, <1>5, Reckoned, Fits DEF Links

\* It still waits at the palletizer.
LEMMA EndWaiting ==
  ASSUME Inv, Told, LinkInv, NEW q \in req, Ends(q), rc' # "ok", up,
         link \in {"up", "skewed"}, mine = "queued"
  PROVE  Expected(q) /\ (link' \in {"skewed", "late"} => "slow" \in Hazards)
  <1>1. /\ req # {} /\ Len(replies) \in Nat /\ Len(requests) \in Nat
        /\ Len(requests) \in 1 .. Len(requests)
    BY Elements DEF Inv, Mine, Typed
  <1> DEFINE last == Len(requests)
             r == requests[last]
  <1>2. effect = {} /\ r.fn = q.fn
    BY DEF Told, Pristine
  <1>3. r.fn \in {"read", "write"} /\ r.fate \in {"serve", "refuse", "ignore"}
    BY <1>1, Elements DEF Inv, Sent
  <1>4. \A i \in 1 .. last : i # last => Left(i)
    BY <1>1 DEF Left
  <1>5. \A i \in 1 .. last : i # last => ~Written(i)
    BY <1>4 DEF LinkInv, Clear, Skewed, Written
  <1>6. link = "up" => \A i \in 1 .. last : i # last => requests[i].fate = "ignore"
    BY <1>4 DEF LinkInv, Clear
  <1>7. link = "up" => Len(replies) = 0 /\ Len(replies') = 0
    <2> SUFFICES ASSUME link = "up" PROVE Len(replies) = 0 /\ Len(replies') = 0
      OBVIOUS
    <2>1. Len(replies) = 0
      BY DEF LinkInv, Clear
    <2> QED
      BY <2>1, RepliesLeft
  \* Nothing ends a call on a clear connection but a time-out.
  <1>8. r.fate # "ignore" => "slow" \in Hazards
    <2>1. CASE link = "up"
      <3>1. TimeOut(q)
        BY <1>7, <2>1 DEF Ends, Receive, ConnectionReset, Inv, Typed
      <3>2. DOMAIN requests = 1 .. Len(requests)
        BY DEF Inv, Typed
      <3> QED
        BY <1>1, <3>1, <3>2 DEF TimeOut
    <2>2. CASE link = "skewed"
      BY <2>2 DEF LinkInv, Reasons
    <2> QED
      BY <2>1, <2>2
  <1>9. r.fate # "serve" => "silent" \in Hazards
    BY <1>1 DEF Told, Fated
  <1>10. Written(last) <=> r.fate = "serve" /\ q.fn = "write"
    BY <1>2 DEF Written
  <1> HIDE DEF r
  <1>11. CASE r.fate = "serve" /\ q.fn = "write"
    <2>1. link' = "late"
      BY <1>1, <1>10, <1>11, AfterEndLink
    <2>2. [arrives |-> FALSE, answered |-> FALSE, link |-> "late"] \in WriteOutcomes(link)
      BY <1>8, <1>11, Reckoned DEF Links
    <2> QED
      BY <1>2, <1>8, <1>11, <2>1, <2>2, Fits
  <1>12. CASE ~(r.fate = "serve" /\ q.fn = "write")
    <2>1. \A i \in 1 .. last : ~Written(i)
      BY <1>5, <1>10, <1>12
    <2>2. r.fate # "ignore" => link' = "skewed"
      <3>1. r.fate # "ignore" => \E i \in 1 .. Len(requests) : requests[i].fate # "ignore"
        BY <1>1 DEF r
      <3> QED
        BY <2>1, <3>1, AfterEndLink
    <2>3. link' \in {"up", "skewed"}
      <3>1. CASE Len(replies') # 0 \/ \E i \in 1 .. last : requests[i].fate # "ignore"
        BY <2>1, <3>1, AfterEndLink
      <3>2. CASE Len(replies') = 0 /\ \A i \in 1 .. last : requests[i].fate = "ignore"
        BY <3>2, AfterEndLink
      <3> QED
        BY <3>1, <3>2
    <2>4. link = "up" /\ r.fate = "ignore" => link' = "up"
      <3>1. link = "up" /\ r.fate = "ignore" =>
              \A i \in 1 .. last : requests[i].fate = "ignore"
        BY <1>6 DEF r
      <3> QED
        BY <1>7, <3>1, AfterEndLink
    <2>5. CASE r.fate = "serve"
      <3>1. q.fn # "write" /\ link' = "skewed" /\ "slow" \in Hazards
        BY <1>8, <1>12, <2>2, <2>5
      <3>2. [arrives |-> TRUE, answered |-> FALSE, link |-> "skewed"] \in Outcomes(link)
        BY <3>1, Reckoned DEF Links
      <3> QED
        BY <3>1, <3>2, Fits
    <2>6. CASE r.fate # "serve"
      <3>1. [arrives |-> FALSE, answered |-> FALSE, link |-> link'] \in Outcomes(link)
        BY <1>3, <1>8, <1>9, <2>2, <2>3, <2>4, <2>6, Reckoned DEF Links
      <3>2. link' \in {"skewed", "late"} => "slow" \in Hazards
        BY <1>8, <2>3, <2>4 DEF LinkInv, Reasons
      <3> QED
        BY <1>2, <3>1, <3>2, Reckoned, Fits DEF Links
    <2> QED
      BY <2>5, <2>6
  <1> QED
    BY <1>11, <1>12

\* Every call that ends is one of the outcomes, and a connection gets behind
\* only where the palletizer is "slow".
LEMMA EndExpected ==
  ASSUME Inv, Told, LinkInv, Outer, NEW q \in req, Ends(q)
  PROVE  Expected(q) /\ (link' \in {"skewed", "late"} => "slow" \in Hazards)
  <1>1. link \in Links /\ (link \in {"skewed", "late"} => "slow" \in Hazards)
    BY DEF Outer, LinkInv, Reasons
  <1>2. CASE rc' = "ok"
    BY <1>1, <1>2, EndAnswered
  <1>3. CASE rc' # "ok" /\ ~up
    BY <1>1, <1>3, EndBroken
  <1>4. CASE rc' # "ok" /\ up
    <2>1. link # "down"
      BY <1>4 DEF LinkInv, Down
    <2>2. CASE link = "late"
      BY <1>1, <1>4, <2>2, EndLate
    <2>3. CASE link \in {"up", "skewed"}
      <3>1. CASE effect # {}
        BY <1>1, <1>4, <2>3, <3>1, EndDone
      <3>2. CASE effect = {} /\ mine = "served"
        BY <1>1, <1>4, <2>3, <3>2, EndIgnored
      <3>3. CASE mine = "queued"
        BY <1>4, <2>3, <3>3, EndWaiting
      <3>4. mine # "gone"
        BY <1>4 DEF Told, Accounted
      <3> QED
        BY <3>1, <3>2, <3>3, <3>4 DEF Outer
    <2> QED
      BY <1>1, <2>1, <2>2, <2>3 DEF Links
  <1> QED
    BY <1>2, <1>3, <1>4

LEMMA LinkEnds ==
  ASSUME Inv, Told, LinkInv, Outer, NEW q \in req, Ends(q)
  PROVE  LinkInv'
  <1>1. /\ req' = {} /\ mine' = "gone" /\ UNCHANGED <<up, requests, effect>>
    BY AfterEnd
  <1>2. \A i \in 1 .. Len(requests) : Left(i)' /\ (Written(i)' <=> Written(i))
    BY <1>1 DEF Left, Written
  <1>3. Reasons'
    BY <1>1, EndExpected DEF LinkInv, Reasons
  <1>4. CASE ~up /\ rc' # "ok"
    <2>1. link' = "down"
      BY <1>4, AfterEndLink
    <2> QED
      BY <1>1, <1>3, <1>4, <2>1 DEF LinkInv, Clear, Skewed, Late, Down
  <1>5. CASE up \/ rc' = "ok"
    <2>1. CASE \E i \in 1 .. Len(requests) : Written(i)
      <3>1. link' = "late"
        BY <1>5, <2>1, AfterEndLink
      <3>2. \E i \in 1 .. Len(requests') : Left(i)' /\ Written(i)'
        BY <1>1, <1>2, <2>1
      <3> QED
        BY <1>1, <1>3, <3>1, <3>2 DEF LinkInv, Clear, Skewed, Late, Down
    <2>2. CASE /\ \A i \in 1 .. Len(requests) : ~Written(i)
               /\ \/ Len(replies') # 0
                  \/ \E i \in 1 .. Len(requests) : requests[i].fate # "ignore"
      <3>1. link' = "skewed"
        BY <1>5, <2>2, AfterEndLink
      <3>2. \A i \in 1 .. Len(requests') : ~Written(i)'
        BY <1>1, <1>2, <2>2
      <3>3. Len(replies') = 0 =>
              \E i \in 1 .. Len(requests') : Left(i)' /\ requests'[i].fate # "ignore"
        BY <1>1, <1>2, <2>2
      <3> QED
        BY <1>1, <1>3, <3>1, <3>2, <3>3 DEF LinkInv, Clear, Skewed, Late, Down
    <2>3. CASE /\ Len(replies') = 0
               /\ \A i \in 1 .. Len(requests) : requests[i].fate = "ignore"
      <3>1. link' = "up"
        BY <1>5, <2>3, AfterEndLink
      <3> QED
        BY <1>1, <1>3, <2>3, <3>1 DEF LinkInv, Clear, Skewed, Late, Down
    <2>4. (\A i \in 1 .. Len(requests) : requests[i].fate = "ignore") =>
            \A i \in 1 .. Len(requests) : ~Written(i)
      BY DEF Written
    <2> QED
      BY <2>1, <2>2, <2>3, <2>4
  <1> QED
    BY <1>4, <1>5

LEMMA LinkNext ==
  Inv /\ Told /\ LinkInv /\ Outer /\ [Next]_vars => LinkInv'
  <1> SUFFICES ASSUME Inv, Told, LinkInv, Outer, [Next]_vars PROVE LinkInv'
    OBVIOUS
  <1>1. CASE Change \/ UNCHANGED vars
    BY <1>1 DEF Change, vars, clientVars, LinkInv, Reasons, Clear, Skewed, Late, Down,
                Left, Written, Own
  <1> QED
    BY <1>1, LinkCall, LinkSendFails, LinkEnds, LinkServe, LinkBreak DEF Next

\* What Transport takes for granted of a Modbus call is so: each call ends, and
\* leaves the connection, as ModbusLink says, whatever the width of the
\* transaction id and whatever comes late, is refused, ignored or lost.
THEOREM OutcomesAreExpected == Spec => OutcomeExpected
  <1>1. ASSUME Inv, Told, LinkInv, Outer, Next
        PROVE  \A q \in req : req' = {} => Expected(q)
    <2> SUFFICES ASSUME NEW p \in req, req' = {}
                 PROVE  Expected(p)
      OBVIOUS
    <2>1. req # {}
      OBVIOUS
    <2>2. ~ \E fn \in {"read", "write"}, v \in Values : Call(fn, v)
      BY <2>1 DEF Call, Request, MayCall
    <2>3. ~SendFails /\ ~Serve /\ ~Change /\ ~Break
      BY <2>1 DEF SendFails, MayCall, Serve, Change, Break, clientVars
    <2>4. PICK q \in req : Ends(q)
      BY <1>1, <2>2, <2>3 DEF Next
    <2>5. p = q
      BY <1>1 DEF Inv, Single
    <2> QED
      BY <1>1, <2>4, <2>5, EndExpected
  <1>2. Init => Outer
    <2> SUFFICES ASSUME Init PROVE Outer
      OBVIOUS
    <2>1. up \in BOOLEAN
      BY Zenon DEF Init
    <2> QED
      BY <2>1 DEF Init, Outer, Links
  <1>3. Inv /\ Told /\ LinkInv /\ Outer /\ [Next]_vars =>
          [\A q \in req :
             req' = {} =>
               \E o \in IF q.fn = "write" THEN WriteOutcomes(link) ELSE Outcomes(link) :
                 /\ q.fn = "write" => o.arrives = (effect # {})
                 /\ o.answered = (rc' = "ok")
                 /\ o.link = link']_vars
    BY <1>1 DEF Expected
  <1> QED
    BY <1>2, <1>3, InvInit, InvNext, ToldInit, ToldNext, LinkInit, LinkNext, OuterNext, PTL
    DEF Spec, OutcomeExpected

=============================================================================
