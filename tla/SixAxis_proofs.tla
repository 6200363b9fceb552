--------------------------- MODULE SixAxis_proofs ---------------------------
(***************************************************************************)
(* What holds of SixAxis for every arm and every choice of hazards.        *)
(***************************************************************************)
EXTENDS SixAxis, TLAPS

\* What typing needs to know of zero and of the empty package.
LEMMA ZeroFacts == 0 \in Marks /\ Nothing \in Packages
<1>1. 0 \in Marks
  BY SixAxisAssumption DEF Marks
<1> QED
  BY <1>1 DEF Nothing, Packages

\* Every variable keeps to its type.
THEOREM Typing == Spec => []TypeOK
<1>1. Init => TypeOK
  BY ZeroFacts DEF Init, TypeOK, Pictures
<1>2. TypeOK /\ [Next]_vars => TypeOK'
  <2> SUFFICES ASSUME TypeOK, [Next]_vars
               PROVE  TypeOK'
    OBVIOUS
  <2> USE SixAxisAssumption DEF TypeOK, carVars, visionVars, netVars, serverVars
  <2>1. CASE UNCHANGED vars
    BY <2>1 DEF vars
  <2>2. CASE Vision
    <3> USE DEF VStep, Packages, Marks
    <3>1. CASE VCopy
      BY <3>1 DEF VCopy
    <3>2. CASE VTest
      BY <3>2 DEF VTest
    <3>3. CASE VTheta
      BY <3>3 DEF VTheta
    <3>4. CASE VX
      BY <3>4 DEF VX
    <3>5. CASE VY
      BY <3>5 DEF VY
    <3>6. CASE VZ
      BY <3>6 DEF VZ
    <3>7. CASE VHand
      BY <3>7 DEF VHand
    <3> QED
      BY <2>2, <3>1, <3>2, <3>3, <3>4, <3>5, <3>6, <3>7 DEF Vision
  <2>3. CASE RefreshCanny
    BY <2>3 DEF RefreshCanny
  <2>4. CASE Server
    <3> USE DEF SStep
    <3>1. CASE SZero
      <4>1. pkg' \in Packages
        BY <3>1, ZeroFacts DEF SZero, Packages
      <4> QED
        BY <3>1, <4>1 DEF SZero
    <3>2. CASE SEnable
      BY <3>2 DEF SEnable, Packages
    <3>3. CASE SAccept
      BY <3>3 DEF SAccept
    <3>4. CASE SOffer
      BY <3>4 DEF SOffer
    <3>5. CASE SSend
      BY <3>5 DEF SSend
    <3>6. CASE SYield
      BY <3>6 DEF SYield, Packages
    <3>7. CASE STake
      BY <3>7 DEF STake
    <3>8. CASE SReceive
      BY <3>8 DEF SReceive
    <3>9. CASE SNote
      BY <3>9 DEF SNote, Packages
    <3> QED
      BY <2>4, <3>1, <3>2, <3>3, <3>4, <3>5, <3>6, <3>7, <3>8, <3>9 DEF Server
  <2>5. CASE Arm
    <3>1. CASE AConnect
      BY <3>1 DEF AConnect
    <3>2. CASE AAnswer
      <4>1. PICK p \in IF toArm = {} THEN {Nothing} ELSE toArm, a \in Answers :
               toCell' = {[p EXCEPT !.beProcessed = a.beProcessed,
                                    !.workDone = a.workDone]}
        BY <3>2 DEF AAnswer
      <4>2. p \in Packages
        BY <4>1, ZeroFacts
      <4>3. a.beProcessed \in BOOLEAN /\ a.workDone \in BOOLEAN
        BY <4>1
      <4>4. [p EXCEPT !.beProcessed = a.beProcessed, !.workDone = a.workDone]
               \in Packages
        BY <4>2, <4>3 DEF Packages
      <4>5. toCell' \subseteq Packages
        BY <4>1, <4>4
      <4> QED
        BY <3>2, <4>5 DEF AAnswer
    <3>3. CASE AHangUp
      BY <3>3 DEF AHangUp
    <3> QED
      BY <2>5, <3>1, <3>2, <3>3 DEF Arm
  <2>6. CASE CarStops
    BY <2>6 DEF CarStops, Pictures
  <2>7. CASE CarFlagged
    BY <2>7 DEF CarFlagged
  <2>8. CASE CarLeaves
    BY <2>8 DEF CarLeaves, Pictures
  <2> QED
    BY <2>1, <2>2, <2>3, <2>4, <2>5, <2>6, <2>7, <2>8 DEF Next
<1> QED
  BY <1>1, <1>2, PTL DEF Spec

-----------------------------------------------------------------------------
(***************************************************************************)
(* DoneAfterStop.  Each link of the chain from the stop to the done flag   *)
(* holds only when the one before it does: a measurement begun, a package  *)
(* offered, about to be sent, on its way to the arm or back, and workDone. *)
(* Before the socket thread has enabled the package, its flag means        *)
(* nothing.                                                                *)
(***************************************************************************)
Measuring == vPc \in {"theta", "X", "Y", "Z", "hand"}
Enabled   == sPc \notin {"zero", "enable"}

ChainInv ==
  /\ Measuring => stationTwoStop
  /\ Enabled /\ ~pkg.beProcessed => stationTwoStop
  /\ sPc = "send" => stationTwoStop
  /\ toArm # {} => stationTwoStop
  /\ toCell # {} => stationTwoStop
  /\ pkg.workDone => stationTwoStop
  /\ sixAxisDone => stationTwoStop

LEMMA ChainStep ==
  ASSUME "talker" \notin Hazards
  PROVE  TypeOK /\ ChainInv /\ [Next]_vars => ChainInv'
<1> SUFFICES ASSUME TypeOK, ChainInv, [Next]_vars
             PROVE  ChainInv'
  OBVIOUS
<1> USE DEF TypeOK, ChainInv, Measuring, Enabled, Packages,
           carVars, visionVars, netVars, serverVars
<1>1. CASE UNCHANGED vars
  BY <1>1 DEF vars
<1>2. CASE Vision
  <2> USE DEF VStep
  <2>1. CASE VCopy
    BY <2>1 DEF VCopy
  <2>2. CASE VTest
    BY <2>2 DEF VTest
  <2>3. CASE VTheta
    BY <2>3 DEF VTheta
  <2>4. CASE VX
    BY <2>4 DEF VX
  <2>5. CASE VY
    BY <2>5 DEF VY
  <2>6. CASE VZ
    BY <2>6 DEF VZ
  <2>7. CASE VHand
    BY <2>7 DEF VHand
  <2> QED
    BY <1>2, <2>1, <2>2, <2>3, <2>4, <2>5, <2>6, <2>7 DEF Vision
<1>3. CASE RefreshCanny
  BY <1>3 DEF RefreshCanny
<1>4. CASE Server
  <2> USE DEF SStep
  <2>1. CASE SZero
    BY <2>1 DEF SZero
  <2>2. CASE SEnable
    BY <2>2 DEF SEnable
  <2>3. CASE SAccept
    BY <2>3 DEF SAccept
  <2>4. CASE SOffer
    BY <2>4 DEF SOffer
  <2>5. CASE SSend
    BY <2>5 DEF SSend
  <2>6. CASE SYield
    BY <2>6 DEF SYield
  <2>7. CASE STake
    BY <2>7 DEF STake
  <2>8. CASE SReceive
    BY <2>8 DEF SReceive
  <2>9. CASE SNote
    BY <2>9 DEF SNote
  <2> QED
    BY <1>4, <2>1, <2>2, <2>3, <2>4, <2>5, <2>6, <2>7, <2>8, <2>9
       DEF Server
<1>5. CASE Arm
  <2>1. CASE AConnect
    BY <2>1 DEF AConnect
  <2>2. CASE AAnswer
    BY <2>2 DEF AAnswer, Nothing, Packages
  <2>3. CASE AHangUp
    BY <2>3 DEF AHangUp
  <2> QED
    BY <1>5, <2>1, <2>2, <2>3 DEF Arm
<1>6. CASE CarStops
  BY <1>6 DEF CarStops
<1>7. CASE CarFlagged
  BY <1>7 DEF CarFlagged
<1>8. CASE CarLeaves
  BY <1>8 DEF CarLeaves
<1> QED
  BY <1>1, <1>2, <1>3, <1>4, <1>5, <1>6, <1>7, <1>8 DEF Next

\* SixAxisDone follows the stop at station 2, whatever the arm answers, as long
\* as it does not send before it has received.
THEOREM DoneFollowsStop ==
  ASSUME "talker" \notin Hazards
  PROVE  Spec => []DoneAfterStop
<1>1. Init => ChainInv
  BY DEF Init, ChainInv, Measuring, Enabled, Nothing
<1>2. ChainInv => DoneAfterStop
  BY DEF ChainInv, DoneAfterStop
<1> QED
  BY <1>1, <1>2, ChainStep, Typing, PTL DEF Spec

-----------------------------------------------------------------------------
(***************************************************************************)
(* WholePackage.  Until the first answer beProcessed is an exact lock: it  *)
(* is set while the vision thread writes and clear from the offer until    *)
(* the package has been sent, with the initialization before either.       *)
(***************************************************************************)
LockInv ==
  ~answered =>
    /\ \A p \in sent : Whole(p)
    /\ Enabled \/ (~pkg.beProcessed /\ ~Measuring)
    /\ Measuring => pkg.beProcessed
    /\ sPc \in {"send", "yield"} => ~pkg.beProcessed
    /\ Enabled /\ ~pkg.beProcessed => Whole(pkg)
    /\ vPc \in {"X", "Y", "Z", "hand"} => stamp # 0 /\ pkg.theta = stamp
    /\ vPc \in {"Y", "Z", "hand"} => pkg.X = stamp
    /\ vPc \in {"Z", "hand"} => pkg.Y = stamp
    /\ vPc = "hand" => pkg.Z = stamp

LEMMA LockStep ==
  TypeOK /\ LockInv /\ [Next]_vars => LockInv'
<1> SUFFICES ASSUME TypeOK, LockInv, [Next]_vars
             PROVE  LockInv'
  OBVIOUS
<1> USE DEF TypeOK, LockInv, Measuring, Enabled, Whole, Packages,
           carVars, visionVars, netVars, serverVars
<1>1. CASE UNCHANGED vars
  BY <1>1 DEF vars
<1>2. CASE Vision
  <2> USE DEF VStep
  <2>1. CASE VCopy
    BY <2>1 DEF VCopy
  <2>2. CASE VTest
    BY <2>2 DEF VTest
  <2>3. CASE VTheta
    BY <2>3, SixAxisAssumption DEF VTheta, Marks
  <2>4. CASE VX
    BY <2>4 DEF VX
  <2>5. CASE VY
    BY <2>5 DEF VY
  <2>6. CASE VZ
    BY <2>6 DEF VZ
  <2>7. CASE VHand
    BY <2>7 DEF VHand
  <2> QED
    BY <1>2, <2>1, <2>2, <2>3, <2>4, <2>5, <2>6, <2>7 DEF Vision
<1>3. CASE RefreshCanny
  BY <1>3 DEF RefreshCanny
<1>4. CASE Server
  <2> USE DEF SStep
  <2>1. CASE SZero
    BY <2>1 DEF SZero
  <2>2. CASE SEnable
    BY <2>2 DEF SEnable
  <2>3. CASE SAccept
    BY <2>3 DEF SAccept
  <2>4. CASE SOffer
    BY <2>4 DEF SOffer
  <2>5. CASE SSend
    BY <2>5 DEF SSend
  <2>6. CASE SYield
    BY <2>6 DEF SYield
  <2>7. CASE STake
    BY <2>7 DEF STake
  <2>8. CASE SReceive
    BY <2>8 DEF SReceive
  <2>9. CASE SNote
    BY <2>9 DEF SNote
  <2> QED
    BY <1>4, <2>1, <2>2, <2>3, <2>4, <2>5, <2>6, <2>7, <2>8, <2>9
       DEF Server
<1>5. CASE Arm
  <2>1. CASE AConnect
    BY <2>1 DEF AConnect
  <2>2. CASE AAnswer
    BY <2>2 DEF AAnswer
  <2>3. CASE AHangUp
    BY <2>3 DEF AHangUp
  <2> QED
    BY <1>5, <2>1, <2>2, <2>3 DEF Arm
<1>6. CASE CarStops
  BY <1>6 DEF CarStops
<1>7. CASE CarFlagged
  BY <1>7 DEF CarFlagged
<1>8. CASE CarLeaves
  BY <1>8 DEF CarLeaves
<1> QED
  BY <1>1, <1>2, <1>3, <1>4, <1>5, <1>6, <1>7, <1>8 DEF Next

\* Until the arm's first answer every package sent to it is one measurement.
THEOREM PackagesAreWhole ==
  Spec => []WholePackage
<1>1. Init => LockInv
  BY DEF Init, LockInv, Measuring, Enabled, Nothing
<1>2. LockInv => WholePackage
  BY DEF LockInv, WholePackage
<1> QED
  BY <1>1, <1>2, LockStep, Typing, PTL DEF Spec

-----------------------------------------------------------------------------
(***************************************************************************)
(* MeasuredStanding.  Until the first answer nobody can send the car away, *)
(* so that from the flag on every picture stays the standing car's, and a  *)
(* measurement is begun on such a picture only.                            *)
(***************************************************************************)
StandInv ==
  ~answered =>
    /\ ~pkg.workDone /\ ~sixAxisDone
    /\ stationTwoStop => /\ car = "standing" /\ canny = "standing"
                         /\ vPc = "copy" \/ vImage = "standing"
    /\ Measuring => stationTwoStop
    /\ vPc \in {"X", "Y", "Z", "hand"} => seen = "standing"
    /\ Enabled /\ ~pkg.beProcessed => seen = "standing"
    /\ sPc = "send" => seen = "standing"
    /\ sent # {} => seen = "standing"

LEMMA StandStep ==
  ASSUME "lag" \notin Hazards
  PROVE  TypeOK /\ StandInv /\ [Next]_vars => StandInv'
<1> SUFFICES ASSUME TypeOK, StandInv, [Next]_vars
             PROVE  StandInv'
  OBVIOUS
<1> USE DEF TypeOK, StandInv, Measuring, Enabled, Packages,
           carVars, visionVars, netVars, serverVars
<1>1. CASE UNCHANGED vars
  BY <1>1 DEF vars
<1>2. CASE Vision
  <2> USE DEF VStep
  <2>1. CASE VCopy
    BY <2>1 DEF VCopy
  <2>2. CASE VTest
    BY <2>2 DEF VTest
  <2>3. CASE VTheta
    BY <2>3, SixAxisAssumption DEF VTheta, Marks
  <2>4. CASE VX
    BY <2>4 DEF VX
  <2>5. CASE VY
    BY <2>5 DEF VY
  <2>6. CASE VZ
    BY <2>6 DEF VZ
  <2>7. CASE VHand
    BY <2>7 DEF VHand
  <2> QED
    BY <1>2, <2>1, <2>2, <2>3, <2>4, <2>5, <2>6, <2>7 DEF Vision
<1>3. CASE RefreshCanny
  BY <1>3 DEF RefreshCanny
<1>4. CASE Server
  <2> USE DEF SStep
  <2>1. CASE SZero
    BY <2>1 DEF SZero
  <2>2. CASE SEnable
    BY <2>2 DEF SEnable
  <2>3. CASE SAccept
    BY <2>3 DEF SAccept
  <2>4. CASE SOffer
    BY <2>4 DEF SOffer
  <2>5. CASE SSend
    BY <2>5 DEF SSend
  <2>6. CASE SYield
    BY <2>6 DEF SYield
  <2>7. CASE STake
    BY <2>7 DEF STake
  <2>8. CASE SReceive
    BY <2>8 DEF SReceive
  <2>9. CASE SNote
    BY <2>9 DEF SNote
  <2> QED
    BY <1>4, <2>1, <2>2, <2>3, <2>4, <2>5, <2>6, <2>7, <2>8, <2>9
       DEF Server
<1>5. CASE Arm
  <2>1. CASE AConnect
    BY <2>1 DEF AConnect
  <2>2. CASE AAnswer
    BY <2>2 DEF AAnswer
  <2>3. CASE AHangUp
    BY <2>3 DEF AHangUp
  <2> QED
    BY <1>5, <2>1, <2>2, <2>3 DEF Arm
<1>6. CASE CarStops
  BY <1>6 DEF CarStops
<1>7. CASE CarFlagged
  BY <1>7 DEF CarFlagged
<1>8. CASE CarLeaves
  BY <1>8 DEF CarLeaves
<1> QED
  BY <1>1, <1>2, <1>3, <1>4, <1>5, <1>6, <1>7, <1>8 DEF Next

\* Until the arm's first answer whatever it is sent was measured on the standing
\* car, if half a second is enough for the threads to catch up, even with an arm
\* that speaks first or hangs up.
THEOREM StandingIsMeasured ==
  ASSUME "lag" \notin Hazards
  PROVE  Spec => []MeasuredStanding
<1>1. Init => StandInv
  BY DEF Init, StandInv, Measuring, Enabled, Nothing
<1>2. StandInv => MeasuredStanding
  BY DEF StandInv, MeasuredStanding
<1> QED
  BY <1>1, <1>2, StandStep, Typing, PTL DEF Spec
=============================================================================
