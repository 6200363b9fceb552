----------------------------- MODULE ModbusLink -----------------------------
(***************************************************************************)
(* What may become of a Modbus request on the one TCP connection a         *)
(* modbus_t has, as its caller sees it.  After a reply that came too late  *)
(* the connection is "skewed": libmodbus leaves the reply in the socket,   *)
(* each later request finds a predecessor's reply, and the transaction ids *)
(* do not match.  The connection is "late" as long as the other side still *)
(* has a write before it that nobody waits for any more.                   *)
(***************************************************************************)
CONSTANT Hazards    \* see Outcomes for the three that matter here

Links == {"up", "skewed", "late", "down"}

(***************************************************************************)
(* Whether a request is carried out before the call ends, whether the      *)
(* caller gets its answer, and the connection afterwards.                  *)
(* "slow"  : the other side may carry out, or answer, after the time-out   *)
(* "silent": it may ignore or refuse a request                             *)
(* "down"  : the connection may break                                      *)
(***************************************************************************)
Outcomes(l) ==
  { o \in [arrives : BOOLEAN, answered : BOOLEAN, link : Links] :
      \/ /\ l = "up"
         /\ o = [arrives |-> TRUE, answered |-> TRUE, link |-> "up"]
      \/ /\ l = "skewed" \/ (l = "up" /\ "slow" \in Hazards)
         /\ o = [arrives |-> TRUE, answered |-> FALSE, link |-> "skewed"]
      \/ /\ l \in {"up", "skewed"} /\ "silent" \in Hazards
         /\ ~o.arrives /\ ~o.answered /\ o.link \in {"up", l}
      \/ /\ l = "up" /\ {"silent", "slow"} \subseteq Hazards
         /\ o = [arrives |-> FALSE, answered |-> FALSE, link |-> "skewed"]
      \/ /\ l \in {"up", "skewed"} /\ "down" \in Hazards
         /\ ~o.answered /\ o.link = "down"
      \/ /\ l = "late" /\ "down" \in Hazards
         /\ o = [arrives |-> FALSE, answered |-> FALSE, link |-> "down"]
      \/ /\ l \in {"late", "down"}
         /\ o = [arrives |-> FALSE, answered |-> FALSE, link |-> l] }

\* A write may also be left for later.
WriteOutcomes(l) ==
  Outcomes(l) \cup
    IF l \in {"up", "skewed"} /\ "slow" \in Hazards
    THEN {[arrives |-> FALSE, answered |-> FALSE, link |-> "late"]} ELSE {}
=============================================================================
