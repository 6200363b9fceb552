----------------------------- MODULE ModbusTcp ------------------------------
(***************************************************************************)
(* libmodbus as Thread_Server_Palletizing uses it: a TCP client that reads *)
(* and writes one register of the palletizer, one call at a time, with     *)
(* error recovery off, the default of _modbus_init_common.  A call numbers *)
(* its request (_modbus_tcp_build_request_basis), sends it (send_msg),     *)
(* waits for a message for the length of response_timeout                  *)
(* (_modbus_receive_msg) and holds it against the request                  *)
(* (check_confirmation).                                                   *)
(*                                                                         *)
(* A reply arrives whole.  What the palletizer will make of a request is   *)
(* settled when the request is sent: serve it, refuse it with an exception *)
(* or ignore it.  When, is not.                                            *)
(***************************************************************************)
EXTENDS Integers, Sequences

CONSTANTS
  MaxTid,     \* UINT16_MAX, the last transaction id before 0
  Backlog,    \* bound: requests and replies under way at one time
  Values,     \* what the register may hold
  Hazards     \* "slow", "silent", "down": see ModbusLink

ASSUME ModbusTcpAssumption ==
  /\ MaxTid \in Nat
  /\ Backlog \in 1 .. MaxTid
  /\ Values # {}
  /\ Hazards \subseteq {"slow", "silent", "down"}

INSTANCE ModbusLink

Tids     == 0 .. MaxTid
Requests == [tid : Tids, fn : {"read", "write"}, value : Values]
Sent     == [tid : Tids, fn : {"read", "write"}, value : Values,
             fate : {"serve", "refuse", "ignore"}]
Replies  == [tid : Tids, fn : {"read", "write", "exception"}, value : Values]

VARIABLES
  tid,        \* ctx_tcp->t_id
  req,        \* the request of the call in progress, a set of at most one
  up,         \* the connection is established
  requests,   \* on their way to the palletizer, or waiting there
  replies,    \* on their way back, or waiting in the client's socket
  register,
  rc, dest,   \* what the latest call returned and what it read
  mine,       \* history: the request in progress is "queued", "served", "gone"
  effect,     \* history: what it did to or saw in the register, once it has
  link        \* history: the connection, for callers that know ModbusLink only

clientVars == <<tid, req, rc, dest>>
vars == <<clientVars, up, requests, replies, register, mine, effect, link>>

Init ==
  /\ tid = 0
  /\ req = {}
  /\ up = TRUE
  /\ requests = <<>>
  /\ replies = <<>>
  /\ register \in Values
  /\ rc = "none"
  /\ dest \in Values
  /\ mine = "gone"
  /\ effect = {}
  /\ link = "up"

-----------------------------------------------------------------------------
\* A slip: the number is not advanced.
SameTid == tid
\* A slip: one too many before the wrap.
NextTidLate == IF tid <= MaxTid THEN tid + 1 ELSE 0

NextTid == IF tid < MaxTid THEN tid + 1 ELSE 0

MayCall == req = {} /\ Len(requests) + Len(replies) < Backlog

Request(fn, v) ==
  /\ MayCall
  /\ tid' = NextTid
  /\ req' = {[tid |-> NextTid, fn |-> fn, value |-> v]}
  /\ rc' = "none"
  /\ effect' = {}
  /\ UNCHANGED <<dest, up, replies, register, link>>

\* What the palletizer will do with a request.
Fates == {"serve"} \cup IF "silent" \in Hazards THEN {"refuse", "ignore"} ELSE {}

\* On a broken connection the request goes nowhere.
Deliver(q) ==
  IF up
  THEN /\ \E f \in Fates :
            requests' = Append(requests, [tid |-> q.tid, fn |-> q.fn,
                                          value |-> q.value, fate |-> f])
       /\ mine' = "queued"
  ELSE /\ mine' = "gone"
       /\ UNCHANGED requests

Call(fn, v) == Request(fn, v) /\ \E q \in req' : Deliver(q)

\* send_msg fails on a connection known to be broken, and from then on.
SendFails ==
  /\ MayCall /\ ~up
  /\ tid' = NextTid
  /\ rc' = "error"
  /\ effect' = {}
  /\ mine' = "gone"
  /\ link' = "down"
  /\ replies' = <<>>
  /\ UNCHANGED <<req, dest, up, requests, register>>

\* How a call that ends leaves the connection.
Pending(fate, fns) == \E i \in DOMAIN requests : requests[i].fate = fate /\ requests[i].fn \in fns

LinkAfter(ok, rps) ==
  IF ~up /\ ~ok THEN "down"
  ELSE IF Pending("serve", {"write"}) THEN "late"
  ELSE IF Pending("serve", {"read"}) \/ Pending("refuse", {"read", "write"}) \/ rps # <<>>
       THEN "skewed" ELSE "up"

Return(ok, rps) ==
  /\ rc' = IF ok THEN "ok" ELSE "error"
  /\ req' = {}
  /\ replies' = rps
  /\ mine' = "gone"
  /\ link' = LinkAfter(ok, rps)
  /\ UNCHANGED <<tid, up, requests, register, effect>>

\* A slip: the transaction id is not compared.
AcceptsAnyTid(q, r) == r.fn = q.fn
\* A slip: any message with the right id is a success.
AcceptsException(q, r) == r.tid = q.tid

\* check_confirmation: the transaction id, no exception, the same function.
Accepts(q, r) == r.tid = q.tid /\ r.fn = q.fn

\* The first message in the socket, whosever it is, ends the call.
Receive(q) ==
  /\ q \in req /\ replies # <<>>
  /\ Return(Accepts(q, Head(replies)), Tail(replies))
  /\ dest' = IF Accepts(q, Head(replies)) /\ q.fn = "read"
             THEN Head(replies).value ELSE dest

\* A slip: select waits for ever.
NeverTimeOut(q) == FALSE /\ UNCHANGED vars

\* No message within response_timeout.  What was sent stays under way.
TimeOut(q) ==
  /\ q \in req /\ replies = <<>>
  /\ "slow" \in Hazards \/ ~up \/ \A i \in DOMAIN requests : requests[i].fate = "ignore"
  /\ Return(FALSE, replies)
  /\ UNCHANGED dest

\* recv finds the connection closed.
ConnectionReset(q) ==
  /\ q \in req /\ replies = <<>> /\ ~up
  /\ Return(FALSE, replies)
  /\ UNCHANGED dest

Ends(q) == Receive(q) \/ TimeOut(q) \/ ConnectionReset(q)

-----------------------------------------------------------------------------
\* The palletizer takes its oldest request.
Serve ==
  /\ requests # <<>>
  /\ LET q    == Head(requests)
         own  == mine = "queued" /\ Len(requests) = 1
         does == q.fate = "serve"
         left == \E i \in 2 .. Len(requests) :
                    requests[i].fn = "write" /\ requests[i].fate = "serve" /\
                    ~(mine = "queued" /\ i = Len(requests))
     IN /\ requests' = Tail(requests)
        /\ register' = IF does /\ q.fn = "write" THEN q.value ELSE register
        /\ replies' = IF q.fate = "ignore" THEN replies
                      ELSE Append(replies, [tid |-> q.tid, value |-> register',
                                            fn |-> IF does THEN q.fn ELSE "exception"])
        /\ mine' = IF own THEN "served" ELSE mine
        /\ effect' = IF own /\ does THEN {register'} ELSE effect
        /\ link' = IF link = "late" /\ ~own /\ ~left THEN "skewed" ELSE link
  /\ UNCHANGED <<clientVars, up>>

\* The palletizer changes the register itself.
Change ==
  /\ register' \in Values
  /\ UNCHANGED <<clientVars, up, requests, replies, mine, effect, link>>

\* Requests under way are lost, of the replies perhaps the latest.
Break ==
  /\ "down" \in Hazards
  /\ up
  /\ up' = FALSE
  /\ requests' = <<>>
  /\ \E n \in 0 .. Len(replies) : replies' = SubSeq(replies, 1, n)
  /\ mine' = IF mine = "queued" THEN "gone" ELSE mine
  /\ UNCHANGED <<clientVars, register, effect, link>>

Next ==
  \/ \E fn \in {"read", "write"}, v \in Values : Call(fn, v)
  \/ SendFails
  \/ \E q \in req : Ends(q)
  \/ Serve \/ Change \/ Break

Spec == Init /\ [][Next]_vars

\* The caller's thread runs, select honours its time-out, and a palletizer
\* that is not "slow" gets to its requests.
FairSpec == Spec /\ WF_vars(\E q \in req : Ends(q)) /\ WF_vars(Serve)

-----------------------------------------------------------------------------
TypeOK ==
  /\ tid \in Tids
  /\ req \subseteq Requests
  /\ up \in BOOLEAN
  /\ requests \in Seq(Sent)
  /\ replies \in Seq(Replies)
  /\ register \in Values
  /\ rc \in {"none", "ok", "error"}
  /\ dest \in Values
  /\ mine \in {"queued", "served", "gone"}
  /\ effect \subseteq Values
  /\ link \in Links

\* The calls keep the promise of ModbusRegister: a reply that came late is
\* never taken for the answer to another call, a value read was in the register
\* during the call, a write reported done was done during the call.  What waits
\* at the palletizer, but for the request in progress, is what has gone astray.
Register ==
  INSTANCE ModbusRegister WITH
    call  <- { [fn |-> q.fn, value |-> q.value] : q \in req },
    stray <- [i \in 1 .. Len(requests) - (IF mine = "queued" THEN 1 ELSE 0) |->
                [fn |-> requests[i].fn, value |-> requests[i].value]]

KeepsPromise == Register!Spec

\* A call that succeeds was carried out while it lasted, and what it has read is
\* what the register held when it was: the answer is its own, however many
\* earlier ones came too late and whatever the ids have wrapped around.
OwnAnswer ==
  [][\A q \in req :
       req' = {} /\ rc' = "ok" =>
         effect # {} /\ (q.fn = "read" => dest' \in effect)]_vars

\* What a call does to the connection is one of the outcomes that callers
\* reckon with: in particular no call ever succeeds on a skewed connection.
OutcomeExpected ==
  [][\A q \in req :
       req' = {} =>
         \E o \in IF q.fn = "write" THEN WriteOutcomes(link) ELSE Outcomes(link) :
           /\ q.fn = "write" => o.arrives = (effect # {})
           /\ o.answered = (rc' = "ok")
           /\ o.link = link']_vars

\* No call blocks its thread for ever, whatever the palletizer does.
Returns == req # {} ~> req = {}
=============================================================================
