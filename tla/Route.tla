-------------------------------- MODULE Route --------------------------------
(***************************************************************************)
(* What the cell promises of one car, without threads, cameras, messages   *)
(* or packages: it travels to station 1, stands there while the palletizer *)
(* does one job, travels to station 2, stands there until the arm, told    *)
(* where the workpiece is, is done with it, and leaves.                    *)
(***************************************************************************)
EXTENDS Integers

VARIABLES
  begun,    \* the automatic run has been started
  stage,    \* how far the car has come
  speed,    \* the speed it has been commanded
  job,      \* the palletizer's job: 0 none, 1 at work, 2 finished
  told      \* the arm has been given coordinates

vars == <<begun, stage, speed, job, told>>

Travelling == {"toOne", "toTwo", "leaving"}

Init ==
  /\ begun = FALSE
  /\ stage = "toOne"
  /\ speed = 0
  /\ job = 0
  /\ told = FALSE

Begin ==
  /\ ~begun
  /\ begun' = TRUE
  /\ UNCHANGED <<stage, speed, job, told>>

\* Before the run the operator drives as he likes; from then on the car only
\* goes forward, and only between the stations.
Drive ==
  /\ stage \in Travelling
  /\ speed' \in Int
  /\ begun => speed' >= 0
  /\ UNCHANGED <<begun, stage, job, told>>

\* At either station the car arrives standing.
ArriveAtOne ==
  /\ begun /\ stage = "toOne" /\ speed = 0
  /\ stage' = "atOne"
  /\ UNCHANGED <<begun, speed, job, told>>

StartJob ==
  /\ stage = "atOne" /\ job = 0
  /\ job' = 1
  /\ UNCHANGED <<begun, stage, speed, told>>

FinishJob ==
  /\ job = 1
  /\ job' = 2
  /\ UNCHANGED <<begun, stage, speed, told>>

LeaveOne ==
  /\ stage = "atOne" /\ job = 2
  /\ stage' = "toTwo"
  /\ UNCHANGED <<begun, speed, job, told>>

ArriveAtTwo ==
  /\ stage = "toTwo" /\ speed = 0
  /\ stage' = "atTwo"
  /\ UNCHANGED <<begun, speed, job, told>>

Tell ==
  /\ stage = "atTwo"
  /\ told' = TRUE
  /\ UNCHANGED <<begun, stage, speed, job>>

LeaveTwo ==
  /\ stage = "atTwo" /\ told
  /\ stage' = "leaving"
  /\ UNCHANGED <<begun, speed, job, told>>

Next ==
  \/ Begin \/ Drive
  \/ ArriveAtOne \/ StartJob \/ FinishJob \/ LeaveOne
  \/ ArriveAtTwo \/ Tell \/ LeaveTwo

\* A run that was begun gets the car past both stations and on its way.
Completes == begun ~> stage = "leaving" /\ speed > 0

\* What it never does wrong, and with that what it gets done.
Safe == Init /\ [][Next]_vars
Spec == Safe /\ Completes
=============================================================================
