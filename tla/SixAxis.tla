------------------------------ MODULE SixAxis ------------------------------
(***************************************************************************)
(* The work at station 2.  The vision thread (tab3Dlg's                    *)
(* Thread_Image_CannyROI) measures the workpiece on the standing car and   *)
(* leaves its place in the static axis6Package; the socket thread          *)
(* (Thread_Server_SixAxis) sends the package to the six axis arm, receives *)
(* the arm's package in its place, and takes SixAxisDone from it.  Nothing *)
(* but the package's own flag beProcessed keeps the two threads apart, and *)
(* the arm's answer overwrites that flag along with the rest.              *)
(*                                                                         *)
(* X, Y, Z and theta are represented by the number of the measurement they *)
(* come from, so that a package put together from two can be told; numbers *)
(* wrap around after Stamps measurements.  XY_ready is never read.         *)
(***************************************************************************)
EXTENDS Naturals

CONSTANTS
  Stamps,     \* measurements are numbered 1 .. Stamps, then 1 again
  Answers,    \* the flags an arm may answer with
  Hazards     \* what may go wrong in this instance

(***************************************************************************)
(* "eager"  : the arm connects before coordinates are offered to it        *)
(* "talker" : the arm sends its package without having received one        *)
(* "hangup" : the arm closes a connection it might still be served on      *)
(* "lag"    : half a second is too short for the threads to catch up       *)
(***************************************************************************)
AllHazards == {"eager", "talker", "hangup", "lag"}

ASSUME SixAxisAssumption ==
  /\ Stamps \in Nat \ {0}
  /\ Answers \subseteq [beProcessed : BOOLEAN, workDone : BOOLEAN]
  /\ Hazards \subseteq AllHazards

Pictures == {"moving", "standing", "left"}
Marks    == 0 .. Stamps           \* 0: zero, as the socket thread wrote it
Packages == [X : Marks, Y : Marks, Z : Marks, theta : Marks,
             beProcessed : BOOLEAN, workDone : BOOLEAN]
Nothing  == [X |-> 0, Y |-> 0, Z |-> 0, theta |-> 0,
             beProcessed |-> FALSE, workDone |-> FALSE]

VARIABLES
  car,              \* what there is to see below the Kinect
  stationTwoStop, sixAxisDone,
  canny,            \* what s_Img_Canny shows
  vPc, vImage,      \* the vision thread and its copy of s_Img_Canny
  stamp,            \* the number of its latest measurement
  pkg,              \* axis6Package
  sPc,              \* the socket thread
  conn,             \* the connection, as the socket thread has it
  aPc,              \* the arm
  toArm, toCell,    \* packages on the connection: a set of at most one
  sent,             \* history: the package sent last, a set of at most one
  seen,             \* history: the picture the latest measurement was made of
  answered          \* history: an answer of the arm has been received

carVars    == <<car, stationTwoStop>>
visionVars == <<canny, vPc, vImage, stamp, seen>>
netVars    == <<conn, aPc, toArm, toCell>>
serverVars == <<sPc, sent, answered, sixAxisDone>>
vars       == <<carVars, visionVars, netVars, serverVars, pkg>>

\* The program has been started, its Start button perhaps not yet pressed.
Init ==
  /\ car = "moving"
  /\ stationTwoStop = FALSE
  /\ sixAxisDone = FALSE
  /\ canny = "moving"
  /\ vPc = "copy"
  /\ vImage = "moving"
  /\ stamp = 0
  /\ seen = "moving"
  /\ pkg = Nothing
  /\ sPc = "zero"
  /\ conn = "none"
  /\ aPc = "away"
  /\ toArm = {}
  /\ toCell = {}
  /\ sent = {}
  /\ answered = FALSE

-----------------------------------------------------------------------------
(***************************************************************************)
(* The vision thread.                                                      *)
(***************************************************************************)
VStep(from, to) == vPc = from /\ vPc' = to

\* The picture is taken before the flags are looked at.
VCopy ==
  /\ VStep("copy", "test")
  /\ vImage' = canny
  /\ UNCHANGED <<carVars, netVars, serverVars, pkg, canny, stamp, seen>>

\* A slip: station 2 is not waited for.
VTestUnflagged ==
  /\ VStep("test", IF pkg.beProcessed THEN "theta" ELSE "copy")
  /\ UNCHANGED <<carVars, netVars, serverVars, pkg, canny, vImage, stamp, seen>>

VTest ==
  /\ VStep("test", IF stationTwoStop /\ pkg.beProcessed THEN "theta" ELSE "copy")
  /\ UNCHANGED <<carVars, netVars, serverVars, pkg, canny, vImage, stamp, seen>>

\* A slip: measurements are numbered from 0.
VThetaFromZero ==
  /\ VStep("theta", "X")
  /\ stamp' = stamp + 1
  /\ seen' = vImage
  /\ pkg' = [pkg EXCEPT !.theta = stamp']
  /\ UNCHANGED <<carVars, netVars, serverVars, canny, vImage>>

\* SetRoI, GetCenterPoint, ApproxPoly, CornerDetection and sequencePoint find
\* the workpiece in the copy; Img2SixAxis writes first theta, then X, Y, Z.
VTheta ==
  /\ VStep("theta", "X")
  /\ stamp' = IF stamp = Stamps THEN 1 ELSE stamp + 1
  /\ seen' = vImage
  /\ pkg' = [pkg EXCEPT !.theta = stamp']
  /\ UNCHANGED <<carVars, netVars, serverVars, canny, vImage>>

VX ==
  /\ VStep("X", "Y")
  /\ pkg' = [pkg EXCEPT !.X = stamp]
  /\ UNCHANGED <<carVars, netVars, serverVars, canny, vImage, stamp, seen>>

VY ==
  /\ VStep("Y", "Z")
  /\ pkg' = [pkg EXCEPT !.Y = stamp]
  /\ UNCHANGED <<carVars, netVars, serverVars, canny, vImage, stamp, seen>>

\* A slip: the package is offered before its last coordinate is written.
VZHasty ==
  /\ VStep("Z", "hand")
  /\ pkg' = [pkg EXCEPT !.beProcessed = FALSE]
  /\ UNCHANGED <<carVars, netVars, serverVars, canny, vImage, stamp, seen>>

VZ ==
  /\ VStep("Z", "hand")
  /\ pkg' = [pkg EXCEPT !.Z = stamp]
  /\ UNCHANGED <<carVars, netVars, serverVars, canny, vImage, stamp, seen>>

\* Sleep(500), the coordinates shown, and the package offered to the arm.  Half
\* a second lets the socket thread get from sending to Receive, unless it lags.
VHand ==
  /\ VStep("hand", "copy")
  /\ "lag" \in Hazards \/ sPc # "again"
  /\ pkg' = [pkg EXCEPT !.beProcessed = FALSE]
  /\ UNCHANGED <<carVars, netVars, serverVars, canny, vImage, stamp, seen>>

Vision == VCopy \/ VTest \/ VTheta \/ VX \/ VY \/ VZ \/ VHand

\* Thread_Image_Depth renews the shared picture.
RefreshCanny ==
  /\ canny' = car
  /\ UNCHANGED <<carVars, netVars, serverVars, pkg, vPc, vImage, stamp, seen>>

-----------------------------------------------------------------------------
(***************************************************************************)
(* The socket thread.                                                      *)
(***************************************************************************)
SStep(from, to) == sPc = from /\ sPc' = to

SZero ==
  /\ SStep("zero", "enable")
  /\ pkg' = [pkg EXCEPT !.X = 0, !.Y = 0, !.Z = 0, !.theta = 0, !.workDone = FALSE]
  /\ UNCHANGED <<carVars, visionVars, netVars, sent, answered, sixAxisDone>>

SEnable ==
  /\ SStep("enable", "accept")
  /\ pkg' = [pkg EXCEPT !.beProcessed = TRUE]
  /\ UNCHANGED <<carVars, visionVars, netVars, sent, answered, sixAxisDone>>

\* Accept blocks until the arm connects.
SAccept ==
  /\ conn = "queued"
  /\ SStep("accept", "offer")
  /\ conn' = "accepted"
  /\ UNCHANGED <<carVars, visionVars, aPc, toArm, toCell, pkg, sent, answered, sixAxisDone>>

\* The first look at beProcessed.
SOffer ==
  /\ SStep("offer", IF ~pkg.beProcessed THEN "send" ELSE "take")
  /\ UNCHANGED <<carVars, visionVars, netVars, pkg, sent, answered, sixAxisDone>>

SSend ==
  /\ SStep("send", "yield")
  /\ toArm' = IF aPc = "gone" THEN {} ELSE {pkg}
  /\ sent' = {pkg}
  /\ UNCHANGED <<carVars, visionVars, conn, aPc, toCell, pkg, answered, sixAxisDone>>

\* A slip: the flag stays as it is after sending.
SYieldKeeping ==
  /\ SStep("yield", "again")
  /\ UNCHANGED <<carVars, visionVars, netVars, pkg, sent, answered, sixAxisDone>>

SYield ==
  /\ SStep("yield", "again")
  /\ pkg' = [pkg EXCEPT !.beProcessed = TRUE]
  /\ UNCHANGED <<carVars, visionVars, netVars, sent, answered, sixAxisDone>>

\* The second look.  When the vision thread has cleared the flag in between,
\* the connection is neither served nor read, and the next one awaited.
STake ==
  /\ sPc \in {"take", "again"}
  /\ SStep(sPc, IF pkg.beProcessed THEN "receive" ELSE "accept")
  /\ conn' = IF pkg.beProcessed THEN conn ELSE "none"
  /\ aPc' = IF pkg.beProcessed THEN aPc
            ELSE IF aPc = "waiting" /\ toArm = {} THEN "forgotten" ELSE "away"
  /\ toArm' = IF pkg.beProcessed THEN toArm ELSE {}
  /\ toCell' = IF pkg.beProcessed THEN toCell ELSE {}
  /\ UNCHANGED <<carVars, visionVars, pkg, sent, answered, sixAxisDone>>

\* Receive blocks for the arm's package and puts it over the one that is
\* there, or returns with nothing when the arm has closed the connection.
SReceive ==
  /\ SStep("receive", "note")
  /\ \/ /\ pkg' \in toCell
        /\ answered' = TRUE
        /\ toCell' = {}
     \/ /\ aPc = "gone" /\ toCell = {}
        /\ UNCHANGED <<pkg, answered, toCell>>
  /\ UNCHANGED <<carVars, visionVars, conn, aPc, toArm, sent, sixAxisDone>>

SNote ==
  /\ SStep("note", "accept")
  /\ sixAxisDone' = pkg.workDone
  /\ conn' = "none"
  /\ aPc' = "away"
  /\ toArm' = {}
  /\ UNCHANGED <<carVars, visionVars, toCell, pkg, sent, answered>>

Server == \/ SZero \/ SEnable \/ SAccept \/ SOffer \/ SSend
          \/ SYield \/ STake \/ SReceive \/ SNote

-----------------------------------------------------------------------------
(***************************************************************************)
(* The arm, a socket client, one connection at a time.  It sends back the  *)
(* package it got with the flags set to one of the Answers.                *)
(***************************************************************************)
\* Unless it is "eager" it is started on coordinates the dialog shows.
AConnect ==
  /\ aPc = "away" /\ conn = "none"
  /\ sPc \notin {"zero", "enable"}
  /\ "eager" \in Hazards \/ ~pkg.beProcessed
  /\ aPc' = "waiting"
  /\ conn' = "queued"
  /\ UNCHANGED <<carVars, visionVars, serverVars, pkg, toArm, toCell>>

AAnswer ==
  /\ aPc = "waiting" /\ conn # "none" /\ toCell = {}
  /\ toArm # {} \/ "talker" \in Hazards
  /\ \E p \in IF toArm = {} THEN {Nothing} ELSE toArm, a \in Answers :
        toCell' = {[p EXCEPT !.beProcessed = a.beProcessed, !.workDone = a.workDone]}
  /\ aPc' = "answered"
  /\ toArm' = {}
  /\ UNCHANGED <<carVars, visionVars, serverVars, pkg, conn>>

\* It gives up where it will get nothing: the cell has dropped the connection
\* or waits for the arm in turn.
AHangUp ==
  /\ \/ aPc = "forgotten"
     \/ /\ aPc = "waiting" /\ toArm = {}
        /\ sPc = "receive" \/ "hangup" \in Hazards
  /\ aPc' = IF aPc = "waiting" THEN "gone" ELSE "away"
  /\ UNCHANGED <<carVars, visionVars, serverVars, pkg, conn, toArm, toCell>>

Arm == AConnect \/ AAnswer \/ AHangUp

-----------------------------------------------------------------------------
(***************************************************************************)
(* The car, as Thread_goRobot moves it: stopped, after half a second       *)
(* flagged at station 2, sent away when SixAxisDone is set.                *)
(***************************************************************************)
CarStops ==
  /\ car = "moving"
  /\ car' = "standing"
  /\ UNCHANGED <<stationTwoStop, visionVars, netVars, serverVars, pkg>>

\* Unless the threads "lag" their pictures are of the standing car by then.
CarFlagged ==
  /\ car = "standing"
  /\ \/ "lag" \in Hazards
     \/ canny = "standing" /\ (vPc = "copy" \/ vImage = "standing")
  /\ stationTwoStop' = TRUE
  /\ UNCHANGED <<car, visionVars, netVars, serverVars, pkg>>

CarLeaves ==
  /\ car = "standing" /\ stationTwoStop /\ sixAxisDone
  /\ car' = "left"
  /\ UNCHANGED <<stationTwoStop, visionVars, netVars, serverVars, pkg>>

Next ==
  \/ Vision \/ RefreshCanny
  \/ Server
  \/ Arm
  \/ CarStops \/ CarFlagged \/ CarLeaves

Spec == Init /\ [][Next]_vars

\* Threads are scheduled, the arm that has coordinates works on them and the
\* one that waits in vain gives up.  The car need not come.
Fairness ==
  /\ WF_vars(Vision) /\ WF_vars(RefreshCanny) /\ WF_vars(Server)
  /\ WF_vars(AConnect) /\ SF_vars(AAnswer) /\ WF_vars(AHangUp)

FairSpec == Spec /\ Fairness

-----------------------------------------------------------------------------
TypeOK ==
  /\ car \in Pictures
  /\ stationTwoStop \in BOOLEAN
  /\ sixAxisDone \in BOOLEAN
  /\ canny \in Pictures
  /\ vPc \in {"copy", "test", "theta", "X", "Y", "Z", "hand"}
  /\ vImage \in Pictures
  /\ stamp \in Marks
  /\ seen \in Pictures
  /\ pkg \in Packages
  /\ sPc \in {"zero", "enable", "accept", "offer", "send", "yield", "take",
              "again", "receive", "note"}
  /\ conn \in {"none", "queued", "accepted"}
  /\ aPc \in {"away", "waiting", "answered", "gone", "forgotten"}
  /\ toArm \subseteq Packages
  /\ toCell \subseteq Packages
  /\ sent \subseteq Packages
  /\ answered \in BOOLEAN

\* SixAxisDone, which sends the car away, follows the stop at station 2: the
\* arm can only answer a package, the package is only offered by a measurement,
\* and the measurement waits for the stop.
DoneAfterStop == sixAxisDone => stationTwoStop

Whole(p) == p.theta # 0 /\ p.X = p.theta /\ p.Y = p.theta /\ p.Z = p.theta

\* Until the arm has answered once, what is sent to it is one measurement, the
\* latest, no mixture of two and none of the initial zeros.
WholePackage == ~answered => \A p \in sent : Whole(p)

\* What the arm gets before its first answer was measured on the standing car.
MeasuredStanding == ~answered /\ sent # {} => seen = "standing"

\* A car that stops at station 2 is eventually reported done.
Serves == stationTwoStop ~> sixAxisDone
=============================================================================
