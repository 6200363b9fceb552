--------------------------- MODULE ModbusRegister ---------------------------
(***************************************************************************)
(* What a modbus_read_registers or modbus_write_register of one register   *)
(* promises its caller: the call is carried out at most once, in the order *)
(* of the calls, and if it reports success it has been carried out between *)
(* its start and its end, with the result it reports.  A call that reports *)
(* an error promises nothing; a write may even be carried out after it.    *)
(***************************************************************************)
EXTENDS Sequences

CONSTANT Values     \* what the register may hold

VARIABLES
  register,         \* the device's register
  call,             \* the call in progress: a set of at most one
  effect,           \* what it did to or saw in the register, once it has
  stray,            \* calls reported failed that may yet be carried out
  rc, dest          \* the latest result: a return code and the value read

vars == <<register, call, effect, stray, rc, dest>>

Calls   == [fn : {"read", "write"}, value : Values]
Results == {"none", "ok", "error"}

Init ==
  /\ register \in Values
  /\ call = {}
  /\ effect = {}
  /\ stray = <<>>
  /\ rc = "none"
  /\ dest \in Values

Begin(c) ==
  /\ call = {}
  /\ call' = {c}
  /\ effect' = {}
  /\ rc' = "none"
  /\ UNCHANGED <<register, stray, dest>>

CarryOut(c) ==
  /\ c \in call /\ effect = {} /\ stray = <<>>
  /\ register' = IF c.fn = "write" THEN c.value ELSE register
  /\ effect' = {register'}
  /\ UNCHANGED <<call, stray, rc, dest>>

Succeed(c) ==
  /\ c \in call
  /\ \E v \in effect : dest' = IF c.fn = "read" THEN v ELSE dest
  /\ rc' = "ok"
  /\ call' = {}
  /\ UNCHANGED <<register, effect, stray>>

Fail(c) ==
  /\ c \in call
  /\ rc' = "error"
  /\ call' = {}
  /\ stray' \in {stray} \cup IF effect = {} THEN {Append(stray, c)} ELSE {}
  /\ UNCHANGED <<register, effect, dest>>

FailAtOnce ==
  /\ call = {}
  /\ rc' = "error"
  /\ effect' = {}
  /\ UNCHANGED <<register, call, stray, dest>>

CarryOutStray ==
  /\ stray # <<>>
  /\ register' = IF Head(stray).fn = "write" THEN Head(stray).value ELSE register
  /\ stray' = Tail(stray)
  /\ UNCHANGED <<call, effect, rc, dest>>

\* The oldest one comes to nothing, or all do.
LoseStrays ==
  /\ stray # <<>>
  /\ stray' \in {<<>>, Tail(stray)}
  /\ UNCHANGED <<register, call, effect, rc, dest>>

\* The device changes its register itself.
Change ==
  /\ register' \in Values
  /\ UNCHANGED <<call, effect, stray, rc, dest>>

Next ==
  \/ \E c \in Calls : Begin(c) \/ CarryOut(c) \/ Succeed(c) \/ Fail(c)
  \/ FailAtOnce \/ CarryOutStray \/ LoseStrays \/ Change

Spec == Init /\ [][Next]_vars
=============================================================================
