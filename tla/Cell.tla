-------------------------------- MODULE Cell --------------------------------
(***************************************************************************)
(* The cell: the automatic run of Transport and the hand-off of SixAxis    *)
(* over the two flags they share, StationTwoStop and SixAxisDone.  Each of *)
(* the two modules has actions of its own for what it expects of the       *)
(* other.  Here those are left out, and the other's real steps take their  *)
(* place: what each expects becomes a property of the composition.         *)
(***************************************************************************)
EXTENDS Transport

CONSTANTS
  Stamps, Answers,    \* of SixAxis
  ArmHazards          \* what may go wrong on the arm's side

VARIABLES
  car, canny, vPc, vImage, stamp, pkg, sPc, conn, aPc, toArm, toCell,
  sent, seen, answered

A == INSTANCE SixAxis WITH Hazards <- ArmHazards

ASSUME CellAssumption ==
  /\ Stamps \in Nat \ {0}
  /\ Answers \subseteq [beProcessed : BOOLEAN, workDone : BOOLEAN]
  /\ ArmHazards \subseteq A!AllHazards

\* What belongs to one side only: all but the two flags.
carSide  == <<goVars, stationOneStop, palletizingDone, cameraVars, carVars, plcVars, car>>
armSide  == <<canny, vPc, vImage, stamp, pkg, sPc, conn, aPc, toArm, toCell,
              sent, seen, answered>>
cellVars == <<carSide, armSide, stationTwoStop, sixAxisDone>>

CellInit == Init /\ A!Init

-----------------------------------------------------------------------------
\* The car below the Kinect: it stands there from the stop at station 2, if that
\* found it in the Kinect's view, to the next command to move.
Watched ==
  car' = IF pos \in View["kinect"] /\ \E t \in GoThreads : StopTwo(t) THEN "standing"
         ELSE IF car = "standing" /\ vel' # 0 THEN "left"
         ELSE car

\* The half second between the stop and its flag is long enough, unless they
\* "lag", for the capture and the vision thread to see the car standing.
CaughtUp ==
  \/ "lag" \in ArmHazards
  \/ canny = "standing" /\ (vPc = "copy" \/ vImage = "standing")

\* What a step of the car's side does to the rest.
Beside ==
  /\ stationTwoStop' # stationTwoStop => CaughtUp
  /\ Watched
  /\ UNCHANGED armSide

\* Transport without ArmReply.
Transports ==
  /\ \/ \E t \in GoThreads : Drives(t) \/ Palletizes(t) \/ Hoist(t) \/ PlcLate(t)
     \/ CameraStep
     \/ Operates
     \/ CarMove
     \/ PlcFinish
  /\ Beside

\* SixAxis without the steps of the car.
Serves ==
  /\ A!Vision \/ A!RefreshCanny \/ A!Server \/ A!Arm
  /\ UNCHANGED carSide

CellNext == Transports \/ Serves

CellSpec == CellInit /\ [][CellNext]_cellVars

\* The fairness of the two modules, but for the steps left out.
Fairness ==
  /\ \A t \in GoThreads : WF_cellVars((Drives(t) \/ Palletizes(t)) /\ Beside)
  /\ WF_cellVars(RefreshRGB /\ Beside)
  /\ \A s \in Scanners : WF_cellVars(Scans(s) /\ Beside)
  /\ WF_cellVars(CarMove /\ Beside)
  /\ WF_cellVars(PlcFinish /\ Beside)
  /\ WF_cellVars(A!Vision /\ UNCHANGED carSide)
  /\ WF_cellVars(A!RefreshCanny /\ UNCHANGED carSide)
  /\ WF_cellVars(A!Server /\ UNCHANGED carSide)
  /\ WF_cellVars((A!AConnect \/ A!AHangUp) /\ UNCHANGED carSide)
  /\ SF_cellVars(A!AAnswer /\ UNCHANGED carSide)

FairSpec == CellSpec /\ Fairness

-----------------------------------------------------------------------------
\* The arm's side does to the car's what Transport expects of it: SixAxisDone
\* is raised only for a car stopped at station 2, and never taken back.
ArmKeepsWord == [][sixAxisDone' # sixAxisDone => ArmReply]_cellVars

\* The car's side does to the arm's what SixAxis expects of it: the car comes
\* once, stops, is flagged half a second later, and leaves only when the arm
\* has reported.
CarKeepsWord ==
  [][<<car, stationTwoStop>>' # <<car, stationTwoStop>> =>
       A!CarStops \/ A!CarFlagged \/ A!CarLeaves]_cellVars

\* What the arm gets before its first answer was measured on the standing car.
MeasuredStanding == A!MeasuredStanding

R == INSTANCE Route WITH
  begun <- HandsOff,
  stage <- IF ~stationOneStop THEN "toOne"
           ELSE IF ~palletizingDone THEN "atOne"
           ELSE IF ~stationTwoStop THEN "toTwo"
           ELSE IF ~sixAxisDone THEN "atTwo" ELSE "leaving",
  speed <- vel,
  job   <- plcReg,
  told  <- sent # {}

\* The cell keeps its promise: see Route.
KeepsRoute == R!Spec
=============================================================================
