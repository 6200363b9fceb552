----------------------------- MODULE MCSixAxis -----------------------------
(***************************************************************************)
(* Arms for SixAxis: one that reports its work done and gives the package  *)
(* back for the next measurement, and one that may set the flags anyhow.   *)
(***************************************************************************)
EXTENDS SixAxis

GoodAnswers == {[beProcessed |-> TRUE, workDone |-> TRUE]}
AnyAnswers  == [beProcessed : BOOLEAN, workDone : BOOLEAN]
=============================================================================
