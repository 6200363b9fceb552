----------------------------- MODULE Cell_proofs -----------------------------
(***************************************************************************)
(* What holds of the cell for every track, every placing of the cameras    *)
(* and stations, and every arm that reports its work done.  A step of the  *)
(* car's side is one of Transport, so that the lemmas of Transport_proofs  *)
(* apply; a step of the arm's side is one of SixAxis, so that its          *)
(* invariants are carried over here.  What each side needs to know of the  *)
(* other is that it keeps its word: that is proved along with the rest,    *)
(* from the invariants of the state before the step.                       *)
(***************************************************************************)
EXTENDS Cell, Transport_proofs

(***************************************************************************)
(* The arm's side.                                                         *)
(***************************************************************************)
ArmStep == A!Vision \/ A!RefreshCanny \/ A!Server \/ A!Arm

LEMMA ArmConstants ==
  0 \in A!Marks /\ A!Nothing \in A!Packages /\ Stamps \in Nat \ {0}
<1>1. 0 \in A!Marks
  BY CellAssumption DEF A!Marks
<1> QED
  BY <1>1, CellAssumption DEF A!Nothing, A!Packages

LEMMA ArmTypingStep ==
  ASSUME A!TypeOK, ArmStep
  PROVE  A!TypeOK'
<1> USE ArmConstants DEF A!TypeOK, A!carVars, A!visionVars, A!netVars, A!serverVars
<1>1. CASE A!Vision
  <2> USE DEF A!VStep, A!Packages, A!Marks
  <2>1. CASE A!VCopy
    BY <2>1 DEF A!VCopy
  <2>2. CASE A!VTest
    BY <2>2 DEF A!VTest
  <2>3. CASE A!VTheta
    BY <2>3 DEF A!VTheta
  <2>4. CASE A!VX \/ A!VY \/ A!VZ
    BY <2>4 DEF A!VX, A!VY, A!VZ
  <2>5. CASE A!VHand
    BY <2>5 DEF A!VHand
  <2> QED
    BY <1>1, <2>1, <2>2, <2>3, <2>4, <2>5 DEF A!Vision
<1>2. CASE A!RefreshCanny
  BY <1>2 DEF A!RefreshCanny
<1>3. CASE A!Server
  <2> USE DEF A!SStep
  <2>1. CASE A!SZero \/ A!SEnable \/ A!SYield
    <3>1. pkg' \in A!Packages
      BY <2>1 DEF A!SZero, A!SEnable, A!SYield, A!Packages
    <3> QED
      BY <2>1, <3>1 DEF A!SZero, A!SEnable, A!SYield
  <2>2. CASE A!SAccept \/ A!SOffer \/ A!SSend
    BY <2>2 DEF A!SAccept, A!SOffer, A!SSend
  <2>3. CASE A!STake
    BY <2>3 DEF A!STake
  <2>4. CASE A!SReceive
    BY <2>4 DEF A!SReceive
  <2>5. CASE A!SNote
    BY <2>5 DEF A!SNote, A!Packages
  <2> QED
    BY <1>3, <2>1, <2>2, <2>3, <2>4, <2>5 DEF A!Server
<1>4. CASE A!Arm
  <2>1. CASE A!AConnect \/ A!AHangUp
    BY <2>1 DEF A!AConnect, A!AHangUp
  <2>2. CASE A!AAnswer
    <3>1. PICK p \in IF toArm = {} THEN {A!Nothing} ELSE toArm, a \in Answers :
             toCell' = {[p EXCEPT !.beProcessed = a.beProcessed,
                                  !.workDone = a.workDone]}
      BY <2>2 DEF A!AAnswer
    <3>2. p \in A!Packages
      BY <3>1
    <3>3. a.beProcessed \in BOOLEAN /\ a.workDone \in BOOLEAN
      BY <3>1, CellAssumption
    <3>4. [p EXCEPT !.beProcessed = a.beProcessed, !.workDone = a.workDone]
             \in A!Packages
      BY <3>2, <3>3 DEF A!Packages
    <3>5. toCell' \subseteq A!Packages
      BY <3>1, <3>4
    <3> QED
      BY <2>2, <3>5 DEF A!AAnswer
  <2> QED
    BY <1>4, <2>1, <2>2 DEF A!Arm
<1> QED
  BY <1>1, <1>2, <1>3, <1>4 DEF ArmStep

-----------------------------------------------------------------------------
(***************************************************************************)
(* The arm keeps its word.  The invariant is the chain of SixAxis_proofs   *)
(* from the stop at station 2 to the done flag, and with it: nothing is on *)
(* its way, and no work done, before something has been sent; and what is  *)
(* reported done stays so, because every answer says so and the socket     *)
(* thread zeroes the package only once, before it has heard from the arm.  *)
(***************************************************************************)
Measuring == vPc \in {"theta", "X", "Y", "Z", "hand"}
Enabled   == sPc \notin {"zero", "enable"}

ArmInv ==
  /\ Measuring => stationTwoStop
  /\ Enabled /\ ~pkg.beProcessed => stationTwoStop
  /\ sPc = "send" => stationTwoStop
  /\ toArm # {} => stationTwoStop /\ sent # {}
  /\ toCell # {} => stationTwoStop /\ sent # {}
  /\ \A p \in toCell : p.workDone
  /\ pkg.workDone => stationTwoStop /\ sent # {}
  /\ sixAxisDone => pkg.workDone /\ sPc # "zero"

\* The arm speaks when spoken to, and reports only work that is done.
DutifulArm == "talker" \notin ArmHazards /\ \A a \in Answers : a.workDone

LEMMA ArmInvStep ==
  ASSUME DutifulArm, A!TypeOK, ArmInv, ArmStep
  PROVE  ArmInv'
<1> USE DEF A!TypeOK, ArmInv, Measuring, Enabled, A!Packages,
           A!carVars, A!visionVars, A!netVars, A!serverVars
<1>1. CASE A!Vision
  <2> USE DEF A!VStep
  <2>1. CASE A!VCopy \/ A!VTest
    BY <2>1 DEF A!VCopy, A!VTest
  <2>2. CASE A!VTheta
    BY <2>2 DEF A!VTheta
  <2>3. CASE A!VX \/ A!VY \/ A!VZ
    BY <2>3 DEF A!VX, A!VY, A!VZ
  <2>4. CASE A!VHand
    BY <2>4 DEF A!VHand
  <2> QED
    BY <1>1, <2>1, <2>2, <2>3, <2>4 DEF A!Vision
<1>2. CASE A!RefreshCanny
  BY <1>2 DEF A!RefreshCanny
<1>3. CASE A!Server
  <2> USE DEF A!SStep
  <2>1. CASE A!SZero
    BY <2>1 DEF A!SZero
  <2>2. CASE A!SEnable
    BY <2>2 DEF A!SEnable
  <2>3. CASE A!SAccept \/ A!SOffer
    BY <2>3 DEF A!SAccept, A!SOffer
  <2>4. CASE A!SSend
    BY <2>4 DEF A!SSend
  <2>5. CASE A!SYield
    BY <2>5 DEF A!SYield
  <2>6. CASE A!STake
    BY <2>6 DEF A!STake
  <2>7. CASE A!SReceive
    BY <2>7 DEF A!SReceive
  <2>8. CASE A!SNote
    BY <2>8 DEF A!SNote
  <2> QED
    BY <1>3, <2>1, <2>2, <2>3, <2>4, <2>5, <2>6, <2>7, <2>8 DEF A!Server
<1>4. CASE A!Arm
  <2>1. CASE A!AConnect \/ A!AHangUp
    BY <2>1 DEF A!AConnect, A!AHangUp
  <2>2. CASE A!AAnswer
    <3>1. toArm # {}
      BY <2>2 DEF A!AAnswer, DutifulArm
    <3>2. PICK p \in toArm, a \in Answers :
             toCell' = {[p EXCEPT !.beProcessed = a.beProcessed,
                                  !.workDone = a.workDone]}
      BY <2>2, <3>1 DEF A!AAnswer
    <3>3. a.workDone /\ p \in A!Packages
      BY <3>2 DEF DutifulArm
    <3>4. \A q \in toCell' : q.workDone
      BY <3>2, <3>3
    <3> QED
      BY <2>2, <3>1, <3>4 DEF A!AAnswer
  <2> QED
    BY <1>4, <2>1, <2>2 DEF A!Arm
<1> QED
  BY <1>1, <1>2, <1>3, <1>4 DEF ArmStep

\* What the car's side does to the flags: it leaves the arm's alone, and raises
\* its own where the loop does, or the button.
LEMMA CarFlags ==
  ASSUME Transports
  PROVE  /\ [Next]_vars
         /\ UNCHANGED armSide /\ sixAxisDone' = sixAxisDone
         /\ \/ stationTwoStop' = stationTwoStop
            \/ stationTwoStop' = TRUE /\ (PressStation2 \/ \E t \in GoThreads : FlagTwo(t))
<1>1. [Next]_vars /\ UNCHANGED armSide
  BY DEF Transports, Beside, Next
<1> DEFINE Flags == /\ sixAxisDone' = sixAxisDone
                    /\ \/ stationTwoStop' = stationTwoStop
                       \/ /\ stationTwoStop' = TRUE
                          /\ PressStation2 \/ \E t \in GoThreads : FlagTwo(t)
<1> USE DEF flagVars
<1>2. ASSUME NEW t \in GoThreads, Drives(t) PROVE Flags
  BY <1>2 DEF Drives, TestCruise, TestOne, TestResume, TestTwo, TestLeave, Test,
     SetCruise, StopOne, SetCreep, StopTwo, SetLeave, SetVel, FlagOne, FlagTwo
<1>3. ASSUME NEW t \in GoThreads, Palletizes(t) PROVE Flags
  BY <1>3 DEF Palletizes, PalOpen, PalCheck, PalWrite, PalBox, PalRead, PalDone
<1>4. ASSUME NEW t \in GoThreads, Hoist(t) \/ PlcLate(t) PROVE Flags
  BY <1>4 DEF Hoist, PlcLate
<1>5. ASSUME CameraStep PROVE Flags
  BY <1>5 DEF CameraStep, RefreshRGB, Scans, WebCamGrab, KinectGrab, Grab, Scan,
     Calibrate
<1>6. ASSUME Operates PROVE Flags
  BY <1>6 DEF Operates, StartCamera, Connect, SetPos1, SetPos2, Go, Forward, Backward,
     Stop, Drive, PressStation1, PressPalletized, PressStation2, Carry
<1>7. ASSUME CarMove \/ PlcFinish PROVE Flags
  BY <1>7 DEF CarMove, PlcFinish
<1>8. Flags
  BY <1>2, <1>3, <1>4, <1>5, <1>6, <1>7 DEF Transports
<1> QED
  BY <1>1, <1>8

\* A step of the arm's side is one of Transport, too: what it does to the flag
\* SixAxisDone is what Transport expects of it.
LEMMA ArmReplies ==
  ASSUME DutifulArm, A!TypeOK, ArmInv, Serves
  PROVE  /\ ArmStep /\ UNCHANGED carSide /\ stationTwoStop' = stationTwoStop
         /\ ArmReply \/ UNCHANGED vars
<1> USE DEF A!carVars, A!visionVars, A!netVars, A!serverVars
<1>1. ArmStep /\ UNCHANGED carSide
  BY DEF Serves, ArmStep
<1>2. \/ UNCHANGED <<stationTwoStop, sixAxisDone>>
      \/ /\ stationTwoStop' = stationTwoStop
         /\ sPc = "note" /\ sixAxisDone' = pkg.workDone
  <2>1. CASE A!Vision
    BY <2>1 DEF A!Vision, A!VCopy, A!VTest, A!VTheta, A!VX, A!VY, A!VZ, A!VHand
  <2>2. CASE A!RefreshCanny
    BY <2>2 DEF A!RefreshCanny
  <2>3. CASE A!Server
    BY <2>3 DEF A!Server, A!SStep, A!SZero, A!SEnable, A!SAccept, A!SOffer, A!SSend,
       A!SYield, A!STake, A!SReceive, A!SNote
  <2>4. CASE A!Arm
    BY <2>4 DEF A!Arm, A!AConnect, A!AAnswer, A!AHangUp
  <2> QED
    BY <1>1, <2>1, <2>2, <2>3, <2>4 DEF ArmStep
<1>3. UNCHANGED <<goVars, cameraVars, carVars, plcVars, stationOneStop, palletizingDone>>
  BY <1>1 DEF carSide
<1>4. CASE sixAxisDone' = sixAxisDone
  BY <1>1, <1>2, <1>3, <1>4 DEF vars, flagVars
<1>5. CASE sixAxisDone' # sixAxisDone
  <2>1. sixAxisDone \in BOOLEAN /\ pkg.workDone \in BOOLEAN
    BY DEF A!TypeOK, A!Packages
  <2>2. sixAxisDone' = TRUE /\ stationTwoStop
    BY <1>2, <1>5, <2>1 DEF ArmInv
  <2> QED
    BY <1>1, <1>2, <1>3, <2>2 DEF ArmReply
<1> QED
  BY <1>1, <1>2, <1>4, <1>5

LEMMA ArmSideInit == CellInit => A!TypeOK /\ ArmInv
<1>1. CellInit => A!TypeOK
  BY ArmConstants DEF CellInit, A!Init, A!TypeOK, A!Pictures
<1>2. CellInit => ArmInv
  BY DEF CellInit, A!Init, ArmInv, Measuring, Enabled, A!Nothing
<1> QED
  BY <1>1, <1>2

LEMMA ArmSideStep ==
  ASSUME DutifulArm
  PROVE  A!TypeOK /\ ArmInv /\ [CellNext]_cellVars => (A!TypeOK /\ ArmInv)'
<1> SUFFICES ASSUME A!TypeOK, ArmInv, [CellNext]_cellVars
             PROVE  (A!TypeOK /\ ArmInv)'
  OBVIOUS
<1>1. CASE Transports
  <2>1. stationTwoStop' = stationTwoStop \/ stationTwoStop' = TRUE
    BY <1>1, CarFlags
  <2>2. UNCHANGED armSide /\ sixAxisDone' = sixAxisDone
    BY <1>1, CarFlags
  <2>3. car' \in A!Pictures
    BY <1>1 DEF Transports, Beside, Watched, A!TypeOK, A!Pictures
  <2>4. A!TypeOK'
    BY <2>1, <2>2, <2>3 DEF A!TypeOK, armSide
  <2>5. ArmInv'
    BY <2>1, <2>2 DEF ArmInv, Measuring, Enabled, armSide
  <2> QED
    BY <2>4, <2>5
<1>2. CASE Serves
  BY <1>2, ArmReplies, ArmTypingStep, ArmInvStep
<1>3. CASE UNCHANGED cellVars
  <2>1. UNCHANGED <<car, stationTwoStop, sixAxisDone>> /\ UNCHANGED armSide
    BY <1>3 DEF cellVars, carSide
  <2> QED
    BY <2>1 DEF armSide, A!TypeOK, ArmInv, Measuring, Enabled
<1> QED
  BY <1>1, <1>2, <1>3 DEF CellNext

\* SixAxisDone is raised only for a car stopped at station 2, and never taken
\* back, whatever goes wrong on the car's side: the arm only has to wait for a
\* package and to report work that is done.
THEOREM ArmKeepsItsWord ==
  ASSUME DutifulArm
  PROVE  CellSpec => ArmKeepsWord
<1>1. A!TypeOK /\ ArmInv /\ [CellNext]_cellVars
        => [sixAxisDone' # sixAxisDone => ArmReply]_cellVars
  <2> SUFFICES ASSUME A!TypeOK, ArmInv, CellNext, sixAxisDone' # sixAxisDone
               PROVE  ArmReply
    OBVIOUS
  <2>1. ~Transports
    BY CarFlags
  <2> QED
    BY <2>1, ArmReplies DEF CellNext, vars, flagVars
<1> QED
  BY <1>1, ArmSideInit, ArmSideStep, PTL DEF CellSpec, ArmKeepsWord

-----------------------------------------------------------------------------
(***************************************************************************)
(* The car keeps its word.  The operator presses Go once and then keeps    *)
(* his hands and his buttons off, the car is not lifted, no camera misses  *)
(* a place, the arm's done flag is not taken back, each camera sees the    *)
(* place before its station, and the Kinect sees the car wherever station  *)
(* 2 may stop it.  The Modbus messages may fare as badly as they like.     *)
(***************************************************************************)
Undisturbed ==
  /\ OneWorker
  /\ Hazards \cap {"freehand", "carry", "blink", "recant",
                   "button1", "button2", "button3"} = {}
  /\ \A c \in Cameras : Reaches(c)
  /\ \A p \in Positions : p >= Spot["kinect"] => p \in View["kinect"]

\* What Transport_proofs has of such a run.
CarInv ==
  /\ StopFlagged /\ InterlockInv /\ GenuineInv
  /\ RouteInv /\ HeldInv /\ OneJobInv /\ PlaceInv

\* Where the worker is, a flag has the value it was tested for.
OrderInv ==
  /\ HandsOff => connected
  /\ stationOneStop => HandsOff
  /\ palletizingDone => stationOneStop
  /\ plcReg # 0 => jobs # 0
  /\ \A t \in GoThreads :
       /\ pc[t] \in {"setCruise", "stopOne"} => ~stationOneStop
       /\ pc[t] = "setCreep" => stationOneStop /\ palletizingDone /\ ~stationTwoStop
       /\ pc[t] \in {"stopTwo", "flagTwo"} => ~stationTwoStop

\* What there is to see below the Kinect, and what the loop is doing.
BelowKinect ==
  /\ car = "moving" <=> ~stationTwoStop /\ \A t \in GoThreads : pc[t] # "flagTwo"
  /\ car = "standing" => vel = 0
  /\ car = "left" => sixAxisDone

LEMMA CarInvInit == CellInit => CarInv /\ OrderInv /\ BelowKinect
<1> SUFFICES ASSUME Init, A!Init
             PROVE  CarInv /\ OrderInv /\ BelowKinect
  BY DEF CellInit
<1>1. StopFlagged /\ InterlockInv /\ GenuineInv /\ RouteInv /\ HeldInv /\ OneJobInv
  BY DEF Init, CallLabels, StopFlagged, JobNeedsStop, InterlockInv, Palletizing,
     GenuineInv, DoneIsGenuine, RouteInv, RouteOrder, HeldInv, HeldAtTwo, OneJobInv, OneJob
<1>2. OrderInv /\ BelowKinect
  BY DEF Init, A!Init, OrderInv, BelowKinect, HandsOff
<1> QED
  BY <1>1, <1>2, PlaceInit DEF CarInv

LEMMA CarInvStep ==
  ASSUME Undisturbed, TypeOK, TypeOK', CarInv, [Next]_vars
  PROVE  CarInv'
<1>1. /\ OneWorker
      /\ "freehand" \notin Hazards /\ "carry" \notin Hazards /\ "blink" \notin Hazards
      /\ "recant" \notin Hazards
      /\ "button1" \notin Hazards /\ "button2" \notin Hazards /\ "button3" \notin Hazards
      /\ \A c \in Cameras : Reaches(c)
  BY DEF Undisturbed
<1>2. StopFlagged' /\ InterlockInv' /\ GenuineInv'
  BY <1>1, StopFlaggedStep, InterlockStep, GenuineStep DEF CarInv
<1>3. RouteInv' /\ HeldInv' /\ OneJobInv'
  BY <1>1, RouteStep, HeldStep, OneJobStep DEF CarInv
<1>4. PlaceInv'
  BY <1>1, PlaceStep DEF CarInv
<1> QED
  BY <1>2, <1>3, <1>4 DEF CarInv

LEMMA OrderInvStep ==
  ASSUME Undisturbed, TypeOK, CarInv, OrderInv, [Next]_vars
  PROVE  OrderInv'
<1>1. /\ \A s, t \in GoThreads : s = t
      /\ "freehand" \notin Hazards
      /\ "button1" \notin Hazards /\ "button2" \notin Hazards /\ "button3" \notin Hazards
  BY DEF Undisturbed, OneWorker
<1>2. /\ stationTwoStop => stationOneStop /\ palletizingDone
      /\ \A t \in GoThreads : pc[t] \in CallLabels => stationOneStop
      /\ jobs \in 0 .. 2 /\ pc \in [GoThreads -> Labels]
  BY DEF CarInv, RouteInv, RouteOrder, StopFlagged, TypeOK
<1> USE <1>1, <1>2 DEF OrderInv, HandsOff, Goto, CallLabels
<1>3. CASE UNCHANGED vars
  BY <1>3 DEF vars, goVars, flagVars, carVars, plcVars
<1>4. ASSUME NEW t \in GoThreads, Drives(t)
      PROVE  OrderInv'
  <2> USE DEF flagVars, carVars, plcVars
  <2>1. CASE TestCruise(t) \/ TestOne(t)
    BY <2>1 DEF TestCruise, TestOne, Test, NotBegun, SeenAtOne
  <2>2. CASE TestResume(t) \/ TestTwo(t) \/ TestLeave(t)
    BY <2>2 DEF TestResume, TestTwo, TestLeave, Test, Palletized, SeenAtTwo
  <2>3. CASE SetCruise(t) \/ StopOne(t) \/ SetCreep(t) \/ StopTwo(t) \/ SetLeave(t)
    BY <2>3 DEF SetCruise, StopOne, SetCreep, StopTwo, SetLeave, SetVel
  <2>4. CASE FlagOne(t)
    BY <2>4 DEF FlagOne
  <2>5. CASE FlagTwo(t)
    BY <2>5 DEF FlagTwo
  <2> QED
    BY <1>4, <2>1, <2>2, <2>3, <2>4, <2>5 DEF Drives
<1>5. ASSUME NEW t \in GoThreads, Palletizes(t)
      PROVE  OrderInv'
  <2> USE <1>5 DEF flagVars, carVars, plcVars
  <2>1. CASE PalOpen(t) \/ PalCheck(t) \/ PalBox(t) \/ PalDone(t)
    BY <2>1 DEF PalOpen, PalCheck, PalBox, PalDone
  <2>2. CASE PalWrite(t)
    BY <2>2 DEF PalWrite, Min2
  <2>3. CASE PalRead(t)
    BY <2>3 DEF PalRead
  <2> QED
    BY <2>1, <2>2, <2>3 DEF Palletizes
<1>6. ASSUME NEW t \in GoThreads, Hoist(t) \/ PlcLate(t)
      PROVE  OrderInv'
  BY <1>6 DEF Hoist, PlcLate, Min2, flagVars, carVars, plcVars
<1>7. CASE CameraStep
  BY <1>7 DEF CameraStep, RefreshRGB, Scans, WebCamGrab, KinectGrab, Grab, Scan,
     Calibrate,
     goVars, flagVars, carVars, plcVars
<1>8. CASE Operates
  <2> USE DEF goVars, flagVars, carVars, plcVars
  <2>1. ASSUME NEW t \in GoThreads, Go(t)
        PROVE  OrderInv'
    BY <2>1 DEF Go, MayGo, Free
  <2>2. CASE PressStation1 \/ PressPalletized \/ PressStation2
    BY <2>2 DEF PressStation1, PressPalletized, PressStation2
  <2>3. CASE \/ \E s \in Scanners : StartCamera(s)
             \/ Connect \/ SetPos1 \/ SetPos2 \/ Forward \/ Backward \/ Stop \/ Carry
    BY <2>3 DEF StartCamera, Connect, SetPos1, SetPos2, Forward, Backward, Stop,
       Drive, Carry
  <2> QED
    BY <1>8, <2>1, <2>2, <2>3 DEF Operates
<1>9. CASE CarMove
  BY <1>9 DEF CarMove, goVars, flagVars, plcVars
<1>10. CASE ArmReply
  BY <1>10 DEF ArmReply, goVars, carVars, plcVars
<1>11. CASE PlcFinish
  BY <1>11 DEF PlcFinish, goVars, flagVars, carVars
<1> QED
  BY <1>3, <1>4, <1>5, <1>6, <1>7, <1>8, <1>9, <1>10, <1>11 DEF Next

\* The steps of the car's side that matter below the Kinect are three; no other
\* sets the standing car in motion.
LEMMA CarCommands ==
  ASSUME Undisturbed, TypeOK, CarInv, OrderInv, Transports
  PROVE  \/ \E t \in GoThreads : StopTwo(t) \/ FlagTwo(t) \/ SetLeave(t)
         \/ /\ stationTwoStop' = stationTwoStop
            /\ \A t \in GoThreads : pc'[t] = "flagTwo" <=> pc[t] = "flagTwo"
            /\ \/ vel' \in {0, vel}
               \/ ~stationTwoStop /\ \A t \in GoThreads : pc[t] # "flagTwo"
<1> DEFINE Other ==
      /\ stationTwoStop' = stationTwoStop
      /\ \A t \in GoThreads : pc'[t] = "flagTwo" <=> pc[t] = "flagTwo"
      /\ \/ vel' \in {0, vel}
         \/ ~stationTwoStop /\ \A t \in GoThreads : pc[t] # "flagTwo"
<1>1. /\ \A s, t \in GoThreads : s = t
      /\ "freehand" \notin Hazards /\ "button3" \notin Hazards
  BY DEF Undisturbed, OneWorker
<1>2. /\ stationTwoStop => HandsOff
      /\ \A t \in GoThreads : pc[t] \in {"setCruise", "setCreep"} => ~stationTwoStop
      /\ \A t \in GoThreads : pc[t] \in {"stopOne"} => ~stationTwoStop
      /\ pc \in [GoThreads -> Labels]
  BY DEF CarInv, HeldInv, RouteInv, RouteOrder, OrderInv, HandsOff, TypeOK
<1> USE <1>1, <1>2 DEF Goto
<1>3. ASSUME NEW t \in GoThreads, Drives(t), ~StopTwo(t), ~FlagTwo(t), ~SetLeave(t)
      PROVE  Other
  <2> USE DEF flagVars, carVars
  <2>1. ASSUME TestCruise(t) \/ TestOne(t) PROVE Other
    BY <2>1 DEF TestCruise, TestOne, Test
  <2>2. ASSUME TestResume(t) \/ TestTwo(t) \/ TestLeave(t) PROVE Other
    BY <2>2 DEF TestResume, TestTwo, TestLeave, Test
  <2>3. ASSUME SetCruise(t) \/ StopOne(t) \/ SetCreep(t) PROVE Other
    BY <2>3 DEF SetCruise, StopOne, SetCreep, SetVel
  <2>4. ASSUME FlagOne(t) PROVE Other
    BY <2>4 DEF FlagOne
  <2> QED
    BY <1>3, <2>1, <2>2, <2>3, <2>4 DEF Drives
<1>4. ASSUME NEW t \in GoThreads, Palletizes(t) PROVE Other
  BY <1>4 DEF Palletizes, PalOpen, PalCheck, PalWrite, PalBox, PalRead, PalDone,
     flagVars, carVars
<1>5. ASSUME NEW t \in GoThreads, Hoist(t) \/ PlcLate(t) PROVE Other
  BY <1>5 DEF Hoist, PlcLate, flagVars, carVars
<1>6. ASSUME CameraStep PROVE Other
  BY <1>6 DEF CameraStep, RefreshRGB, Scans, WebCamGrab, KinectGrab, Grab, Scan,
     Calibrate,
     goVars, flagVars, carVars
<1>7. ASSUME Operates PROVE Other
  <2> USE DEF goVars, flagVars, carVars
  <2>1. ASSUME NEW t \in GoThreads, Go(t) PROVE Other
    BY <2>1 DEF Go
  <2>2. ASSUME NEW v \in Speeds, Drive(v) PROVE Other
    <3>1. ~HandsOff
      BY <2>2 DEF Drive, MayDrive, Free
    <3> QED
      BY <2>2, <3>1 DEF Drive, HandsOff
  <2>3. ASSUME Connect PROVE Other
    BY <2>3 DEF Connect
  <2>4. ASSUME \/ \E s \in Scanners : StartCamera(s)
               \/ SetPos1 \/ SetPos2 \/ PressStation1 \/ PressPalletized
               \/ PressStation2 \/ Carry
        PROVE  Other
    BY <2>4 DEF StartCamera, SetPos1, SetPos2, PressStation1, PressPalletized,
       PressStation2, Carry
  <2> QED
    BY <1>7, <2>1, <2>2, <2>3, <2>4 DEF Operates, Forward, Backward, Stop, Speeds
<1>8. ASSUME CarMove \/ PlcFinish PROVE Other
  BY <1>8 DEF CarMove, PlcFinish, goVars, flagVars, carVars
<1> QED
  BY <1>3, <1>4, <1>5, <1>6, <1>7, <1>8 DEF Transports

CarWord ==
  <<car, stationTwoStop>>' # <<car, stationTwoStop>> =>
    A!CarStops \/ A!CarFlagged \/ A!CarLeaves

LEMMA CarObeys ==
  ASSUME Undisturbed, TypeOK, A!TypeOK, ArmInv, CarInv, OrderInv, BelowKinect, Transports
  PROVE  BelowKinect' /\ CarWord
<1>1. \A s, t \in GoThreads : s = t
  BY DEF Undisturbed, OneWorker
<1>2. Watched /\ UNCHANGED armSide /\ sixAxisDone' = sixAxisDone
  BY CarFlags DEF Transports, Beside
<1>3. /\ pc \in [GoThreads -> Labels] /\ car \in {"moving", "standing", "left"}
      /\ stationTwoStop \in BOOLEAN
  BY DEF TypeOK, A!TypeOK, A!Pictures
<1> USE DEF BelowKinect, CarWord
<1>4. ASSUME NEW t \in GoThreads, StopTwo(t)
      PROVE  BelowKinect' /\ CarWord
  <2>1. /\ pc[t] = "stopTwo" /\ pc' = [pc EXCEPT ![t] = "flagTwo"] /\ vel' = 0
        /\ stationTwoStop' = stationTwoStop
    BY <1>4 DEF StopTwo, SetVel, Goto, flagVars
  <2>2. ~stationTwoStop /\ car = "moving"
    BY <1>1, <2>1 DEF OrderInv
  <2>3. pos >= Spot["kinect"] /\ pos \in Positions
    BY <2>1 DEF CarInv, PlaceInv, Beyond, TypeOK
  <2>4. car' = "standing"
    BY <1>2, <1>4, <2>3 DEF Watched, Undisturbed
  <2>5. A!CarStops
    BY <1>2, <2>1, <2>2, <2>4 DEF A!CarStops, A!visionVars, A!netVars, A!serverVars, armSide
  <2>6. pc'[t] = "flagTwo"
    BY <1>3, <2>1
  <2>7. BelowKinect'
    BY <2>1, <2>4, <2>6
  <2> QED
    BY <2>5, <2>7
<1>5. ASSUME NEW t \in GoThreads, FlagTwo(t)
      PROVE  BelowKinect' /\ CarWord
  <2>1. /\ pc[t] = "flagTwo" /\ pc' = [pc EXCEPT ![t] = "leave"] /\ vel' = vel
        /\ stationTwoStop' = TRUE
    BY <1>5 DEF FlagTwo, Goto, carVars
  <2>2. vel = 0 /\ ~stationTwoStop
    BY <2>1 DEF CarInv, HeldInv, OrderInv
  <2>3. car = "standing"
    BY <1>3, <2>1, <2>2 DEF ArmInv
  <2>4. ~\E s \in GoThreads : StopTwo(s)
    BY <1>1, <2>1 DEF StopTwo, SetVel, Goto
  <2>5. car' = "standing"
    BY <1>2, <2>1, <2>2, <2>3, <2>4 DEF Watched
  <2>6. CaughtUp
    BY <2>1, <2>2 DEF Transports, Beside
  <2>7. A!CarFlagged
    BY <1>2, <2>1, <2>3, <2>5, <2>6
       DEF A!CarFlagged, CaughtUp, A!visionVars, A!netVars, A!serverVars, armSide
  <2>8. BelowKinect'
    BY <2>1, <2>2, <2>5
  <2> QED
    BY <2>7, <2>8
<1>6. ASSUME NEW t \in GoThreads, SetLeave(t)
      PROVE  BelowKinect' /\ CarWord
  <2>1. /\ pc[t] = "setLeave" /\ pc' = [pc EXCEPT ![t] = "cruise"] /\ vel' = 50
        /\ stationTwoStop' = stationTwoStop
    BY <1>6 DEF SetLeave, SetVel, Goto, flagVars
  <2>2. sixAxisDone /\ stationTwoStop
    BY <2>1 DEF CarInv, HeldInv, ArmInv
  <2>3. ~\E s \in GoThreads : StopTwo(s)
    BY <1>1, <2>1 DEF StopTwo, SetVel, Goto
  <2>4. car \in {"standing", "left"} /\ car' = "left"
    BY <1>2, <1>3, <2>1, <2>2, <2>3 DEF Watched
  <2>5. car = "standing" => A!CarLeaves
    BY <1>2, <2>1, <2>2, <2>4 DEF A!CarLeaves, A!visionVars, A!netVars, A!serverVars, armSide
  <2>6. BelowKinect'
    BY <1>2, <2>1, <2>2, <2>4
  <2> QED
    BY <2>1, <2>4, <2>5, <2>6
<1>7. CASE ~\E t \in GoThreads : StopTwo(t) \/ FlagTwo(t) \/ SetLeave(t)
  <2>1. /\ stationTwoStop' = stationTwoStop
        /\ \A t \in GoThreads : pc'[t] = "flagTwo" <=> pc[t] = "flagTwo"
        /\ \/ vel' \in {0, vel}
           \/ ~stationTwoStop /\ \A t \in GoThreads : pc[t] # "flagTwo"
    BY <1>7, CarCommands
  <2>2. car' = car /\ (car = "standing" => vel' = 0)
    BY <1>2, <1>3, <1>7, <2>1 DEF Watched
  <2> QED
    BY <1>2, <2>1, <2>2
<1> QED
  BY <1>4, <1>5, <1>6, <1>7

\* Everything that keeps the two sides together.
CellInv == /\ TypeOK /\ CarInv /\ OrderInv
           /\ A!TypeOK /\ ArmInv
           /\ BelowKinect

LEMMA CellInvInit == CellInit => CellInv
BY ArmSideInit, CarInvInit, TypingInit DEF CellInit, CellInv

\* Every step of the cell is one that each of the two modules allows.
LEMMA CellInvStep ==
  ASSUME Undisturbed, DutifulArm, CellInv, [CellNext]_cellVars
  PROVE  CellInv' /\ [Next]_vars /\ CarWord
<1>1. A!TypeOK' /\ ArmInv'
  BY ArmSideStep DEF CellInv
<1>2. [Next]_vars
  BY ArmReplies, CarFlags DEF CellInv, CellNext, Next, cellVars, carSide, vars, flagVars
<1>3. TypeOK' /\ CarInv' /\ OrderInv'
  BY <1>2, TypingStep, CarInvStep, OrderInvStep DEF CellInv
<1>4. BelowKinect' /\ CarWord
  <2>1. CASE Transports
    BY <2>1, CarObeys DEF CellInv
  <2>2. CASE Serves \/ UNCHANGED cellVars
    <3>1. UNCHANGED <<pc, vel, car, stationTwoStop>>
      BY <2>2, ArmReplies DEF CellInv, cellVars, carSide, goVars, carVars
    <3>2. sixAxisDone => sixAxisDone'
      BY <2>2, ArmReplies DEF CellInv, ArmReply, cellVars, vars, flagVars, Undisturbed
    <3> QED
      BY <3>1, <3>2 DEF CellInv, BelowKinect, CarWord
  <2> QED
    BY <2>1, <2>2 DEF CellNext
<1> QED
  BY <1>1, <1>2, <1>3, <1>4 DEF CellInv

\* The car comes below the Kinect once, stops, is flagged half a second later,
\* and leaves only when the arm has reported.
THEOREM CarKeepsItsWord ==
  ASSUME Undisturbed, DutifulArm
  PROVE  CellSpec => CarKeepsWord
<1>1. CellInv /\ [CellNext]_cellVars =>
        CellInv' /\ [<<car, stationTwoStop>>' # <<car, stationTwoStop>> =>
                       A!CarStops \/ A!CarFlagged \/ A!CarLeaves]_cellVars
  BY CellInvStep DEF CarWord
<1> QED
  BY <1>1, CellInvInit, PTL DEF CellSpec, CarKeepsWord

\* The cell is a run of Transport, so that whatever Transport_proofs has of
\* Transport holds of the cell: the arm is only one of those Transport allows.
THEOREM CellIsTransport ==
  ASSUME DutifulArm
  PROVE  CellSpec => Spec
<1>1. A!TypeOK /\ ArmInv /\ [CellNext]_cellVars => [Next]_vars
  BY ArmReplies, CarFlags DEF CellNext, Next, cellVars, carSide, vars, flagVars
<1>2. CellInit => Init
  BY DEF CellInit
<1> QED
  BY <1>1, <1>2, ArmSideInit, ArmSideStep, PTL DEF CellSpec, Spec

\* And a run of SixAxis: the car is only one of those SixAxis allows.
THEOREM CellIsSixAxis ==
  ASSUME Undisturbed, DutifulArm
  PROVE  CellSpec => A!Spec
<1>1. CellInv /\ [CellNext]_cellVars => CellInv' /\ [A!Next]_A!vars
  <2> SUFFICES ASSUME CellInv, [CellNext]_cellVars
               PROVE  CellInv' /\ [A!Next]_A!vars
    OBVIOUS
  <2>1. CellInv' /\ CarWord
    BY CellInvStep
  <2>2. CASE Transports
    BY <2>1, <2>2, CarFlags DEF CarWord, armSide, A!Next, A!vars, A!carVars, A!visionVars,
       A!netVars, A!serverVars
  <2>3. CASE Serves
    BY <2>1, <2>3 DEF Serves, A!Next
  <2>4. CASE UNCHANGED cellVars
    BY <2>1, <2>4 DEF cellVars, carSide, armSide, A!vars, A!carVars, A!visionVars,
       A!netVars, A!serverVars
  <2> QED
    BY <2>2, <2>3, <2>4 DEF CellNext
<1>2. CellInit => A!Init
  BY DEF CellInit
<1> QED
  BY <1>1, <1>2, CellInvInit, PTL DEF CellSpec, A!Spec

-----------------------------------------------------------------------------
(***************************************************************************)
(* MeasuredStanding.  Until the first answer nobody sends the car away, so *)
(* that from the flag on every picture is the standing car's.              *)
(***************************************************************************)
StandInv ==
  ~answered =>
    /\ ~pkg.workDone /\ ~sixAxisDone
    /\ stationTwoStop => canny = "standing" /\ (vPc = "copy" \/ vImage = "standing")
    /\ vPc \in {"X", "Y", "Z", "hand"} => seen = "standing"
    /\ Enabled /\ ~pkg.beProcessed => seen = "standing"
    /\ sPc = "send" => seen = "standing"
    /\ sent # {} => seen = "standing"

LEMMA StandInvStep ==
  ASSUME "lag" \notin ArmHazards, CellInv, StandInv, [CellNext]_cellVars
  PROVE  StandInv'
<1>1. /\ stationTwoStop /\ ~sixAxisDone => car = "standing"
      /\ vPc \in {"theta", "X", "Y", "Z", "hand"} => stationTwoStop
      /\ A!TypeOK
  BY DEF CellInv, BelowKinect, ArmInv, Measuring, A!TypeOK, A!Pictures
<1> USE <1>1 DEF StandInv, Enabled, A!TypeOK, A!Packages,
           A!carVars, A!visionVars, A!netVars, A!serverVars
<1>2. CASE Transports
  <2>1. stationTwoStop' # stationTwoStop =>
          canny = "standing" /\ (vPc = "copy" \/ vImage = "standing")
    BY <1>2 DEF Transports, Beside, CaughtUp
  <2>2. UNCHANGED armSide /\ sixAxisDone' = sixAxisDone
    BY <1>2, CarFlags
  <2> QED
    BY <2>1, <2>2 DEF armSide
<1>3. CASE A!Vision
  <2> USE DEF A!VStep
  <2>1. CASE A!VCopy \/ A!VTest
    BY <2>1 DEF A!VCopy, A!VTest
  <2>2. CASE A!VTheta
    BY <2>2 DEF A!VTheta
  <2>3. CASE A!VX \/ A!VY \/ A!VZ
    BY <2>3 DEF A!VX, A!VY, A!VZ
  <2>4. CASE A!VHand
    BY <2>4 DEF A!VHand
  <2> QED
    BY <1>3, <2>1, <2>2, <2>3, <2>4 DEF A!Vision
<1>4. CASE A!RefreshCanny
  BY <1>4 DEF A!RefreshCanny
<1>5. CASE A!Server
  <2> USE DEF A!SStep
  <2>1. CASE A!SZero
    BY <2>1 DEF A!SZero
  <2>2. CASE A!SEnable
    BY <2>2 DEF A!SEnable
  <2>3. CASE A!SAccept \/ A!SOffer
    BY <2>3 DEF A!SAccept, A!SOffer
  <2>4. CASE A!SSend
    BY <2>4 DEF A!SSend
  <2>5. CASE A!SYield
    BY <2>5 DEF A!SYield
  <2>6. CASE A!STake
    BY <2>6 DEF A!STake
  <2>7. CASE A!SReceive
    BY <2>7 DEF A!SReceive
  <2>8. CASE A!SNote
    BY <2>8 DEF A!SNote
  <2> QED
    BY <1>5, <2>1, <2>2, <2>3, <2>4, <2>5, <2>6, <2>7, <2>8 DEF A!Server
<1>6. CASE A!Arm
  BY <1>6 DEF A!Arm, A!AConnect, A!AAnswer, A!AHangUp
<1>7. CASE UNCHANGED cellVars
  BY <1>7 DEF cellVars, armSide
<1> QED
  BY <1>2, <1>3, <1>4, <1>5, <1>6, <1>7 DEF CellNext, Serves

\* What the arm gets before its first answer was measured on the standing car,
\* if half a second is enough for the threads to catch up.
THEOREM StandingIsMeasured ==
  ASSUME Undisturbed, DutifulArm, "lag" \notin ArmHazards
  PROVE  CellSpec => []MeasuredStanding
<1>1. CellInit => StandInv
  BY DEF CellInit, A!Init, StandInv, Enabled, A!Nothing
<1>2. CellInv /\ StandInv /\ [CellNext]_cellVars => (CellInv /\ StandInv)'
  BY CellInvStep, StandInvStep
<1>3. StandInv => MeasuredStanding
  BY DEF StandInv, MeasuredStanding, A!MeasuredStanding
<1> QED
  BY <1>1, <1>2, <1>3, CellInvInit, PTL DEF CellSpec

-----------------------------------------------------------------------------
(***************************************************************************)
(* The cell on its Route.  The flags of the stations are raised in the     *)
(* order of the stages, so that each of them is one step of the Route, and *)
(* a command of the loop falls into the stage it was given for.            *)
(***************************************************************************)
LEMMA RouteFacts ==
  ASSUME CellInv
  PROVE  /\ stationTwoStop => stationOneStop /\ palletizingDone
         /\ palletizingDone => stationOneStop
         /\ sixAxisDone => stationTwoStop /\ sent # {}
         /\ stationOneStop => HandsOff
         /\ HandsOff => connected /\ vel >= 0
         /\ vel \in Int /\ plcReg \in 0 .. 2
         /\ stationOneStop \in BOOLEAN /\ stationTwoStop \in BOOLEAN
         /\ palletizingDone \in BOOLEAN /\ sixAxisDone \in BOOLEAN
<1>1. /\ stationTwoStop => stationOneStop /\ palletizingDone
      /\ palletizingDone => stationOneStop
  BY DEF CellInv, CarInv, RouteInv, RouteOrder, OrderInv
<1>2. sixAxisDone => stationTwoStop /\ sent # {}
  BY DEF CellInv, ArmInv
<1>3. /\ stationOneStop => HandsOff
      /\ HandsOff => connected /\ vel >= 0
  BY DEF CellInv, CarInv, OrderInv, PlaceInv
<1>4. vel \in Int /\ plcReg \in 0 .. 2
  BY DEF CellInv, TypeOK, Speeds
<1> QED
  BY <1>1, <1>2, <1>3, <1>4 DEF CellInv, TypeOK

RouteVars == <<stationOneStop, palletizingDone, stationTwoStop, sixAxisDone, vel, plcReg, sent>>

\* A worker under way stays under way.
LEMMA UnderWay ==
  ASSUME TypeOK, NEW t \in GoThreads, NEW from, NEW to, Goto(t, from, to),
         from # "idle", to # "idle"
  PROVE  HandsOff /\ HandsOff'
<1>1. pc[t] = from /\ pc'[t] = to
  BY DEF Goto, TypeOK
<1> QED
  BY <1>1 DEF HandsOff

LEMMA Stutters ==
  ASSUME UNCHANGED RouteVars, HandsOff' = HandsOff
  PROVE  UNCHANGED R!vars
BY DEF RouteVars, R!vars

\* A command of the loop is one of the Route's Drive.
LEMMA Commanded ==
  ASSUME CellInv, NEW t \in GoThreads, NEW from \in Labels, NEW v \in Int, NEW to \in Labels,
         SetVel(t, from, v, to), from # "idle", to # "idle", v >= 0,
         \/ ~stationOneStop
         \/ palletizingDone /\ ~stationTwoStop
         \/ sixAxisDone,
         UNCHANGED <<sixAxisDone, sent>>
  PROVE  R!Drive
<1>1. HandsOff /\ HandsOff'
  BY UnderWay DEF SetVel, CellInv
<1>2. vel' = v /\ UNCHANGED <<stationOneStop, palletizingDone, stationTwoStop, sixAxisDone,
                              plcReg, sent>>
  BY DEF SetVel, flagVars, plcVars
<1> QED
  BY <1>1, <1>2, RouteFacts DEF R!Drive, R!Travelling

LEMMA LoopOnRoute ==
  ASSUME Undisturbed, CellInv, amiss = {}, Transports, NEW t \in GoThreads, Drives(t)
  PROVE  [R!Next]_R!vars
<1>1. TypeOK /\ UNCHANGED <<sixAxisDone, sent>>
  BY CarFlags DEF CellInv, armSide
<1>2. CASE TestCruise(t) \/ TestOne(t) \/ TestResume(t) \/ TestTwo(t) \/ TestLeave(t)
  <2>1. HandsOff /\ HandsOff'
    BY <1>1, <1>2, UnderWay DEF TestCruise, TestOne, TestResume, TestTwo, TestLeave, Test
  <2>2. UNCHANGED RouteVars
    BY <1>1, <1>2 DEF RouteVars, TestCruise, TestOne, TestResume, TestTwo, TestLeave, Test,
       flagVars, carVars, plcVars
  <2> QED
    BY <2>1, <2>2, Stutters
<1>3. CASE SetCruise(t) \/ StopOne(t) \/ SetCreep(t) \/ StopTwo(t) \/ SetLeave(t)
  <2>1. /\ pc[t] \in {"setCruise", "stopOne"} => ~stationOneStop
        /\ pc[t] \in {"setCreep", "stopTwo"} => palletizingDone /\ ~stationTwoStop
        /\ pc[t] = "setLeave" => sixAxisDone
    BY DEF CellInv, OrderInv, CarInv, RouteInv, HeldInv, CallLabels
  <2>2. R!Drive
    BY <1>1, <1>3, <2>1, Commanded DEF SetCruise, StopOne, SetCreep, StopTwo, SetLeave,
       SetVel, Goto, Labels, LoopLabels
  <2> QED
    BY <2>2 DEF R!Next
<1>4. CASE FlagOne(t)
  <2>1. HandsOff /\ HandsOff'
    BY <1>1, <1>4, UnderWay DEF FlagOne
  <2>2. /\ stationOneStop' = TRUE /\ pc[t] = "flagOne"
        /\ UNCHANGED <<palletizingDone, stationTwoStop, sixAxisDone, vel, plcReg, sent>>
    BY <1>1, <1>4 DEF FlagOne, Goto, carVars, plcVars
  <2>3. vel = 0
    BY <2>2 DEF CellInv, CarInv, InterlockInv
  <2>4. CASE stationOneStop
    BY <2>1, <2>2, <2>4 DEF R!vars
  <2>5. CASE ~stationOneStop
    BY <2>1, <2>2, <2>3, <2>5, RouteFacts DEF R!Next, R!ArriveAtOne
  <2> QED
    BY <2>4, <2>5
<1>5. CASE FlagTwo(t)
  <2>1. HandsOff /\ HandsOff'
    BY <1>1, <1>5, UnderWay DEF FlagTwo
  <2>2. /\ stationTwoStop' = TRUE /\ pc[t] = "flagTwo"
        /\ UNCHANGED <<stationOneStop, palletizingDone, sixAxisDone, vel, plcReg, sent>>
    BY <1>1, <1>5 DEF FlagTwo, Goto, carVars, plcVars
  <2>3. /\ stationOneStop /\ palletizingDone /\ ~stationTwoStop
        /\ vel = 0
    BY <2>2 DEF CellInv, CarInv, OrderInv, RouteInv, HeldInv, CallLabels
  <2> QED
    BY <2>1, <2>2, <2>3, RouteFacts DEF R!Next, R!ArriveAtTwo
<1> QED
  BY <1>2, <1>3, <1>4, <1>5 DEF Drives

LEMMA DialogueOnRoute ==
  ASSUME Undisturbed, CellInv, amiss = {}, Transports, NEW t \in GoThreads, Palletizes(t)
  PROVE  [R!Next]_R!vars
<1>1. TypeOK /\ UNCHANGED <<sixAxisDone, sent>>
  BY CarFlags DEF CellInv, armSide
<1>2. CASE PalOpen(t) \/ PalCheck(t) \/ PalBox(t) \/ PalRead(t)
  <2>1. HandsOff /\ HandsOff'
    BY <1>1, <1>2, UnderWay DEF PalOpen, PalCheck, PalBox, PalRead
  <2>2. UNCHANGED RouteVars
    BY <1>1, <1>2 DEF RouteVars, PalOpen, PalCheck, PalBox, PalRead, flagVars, carVars, plcVars
  <2> QED
    BY <2>1, <2>2, Stutters
<1>3. CASE PalWrite(t)
  <2>1. PICK o \in WriteOutcomes(link[t]) :
          /\ Goto(t, "palWrite", IF o.answered THEN "palRead" ELSE "palBox")
          /\ plcReg' = IF o.arrives THEN 1 ELSE plcReg
          /\ UNCHANGED <<flagVars, carVars>>
    BY <1>3 DEF PalWrite
  <2>2. UNCHANGED <<stationOneStop, palletizingDone, stationTwoStop, sixAxisDone, vel, sent>>
    BY <1>1, <2>1 DEF flagVars, carVars
  <2>3. pc[t] = "palWrite"
    BY <2>1 DEF Goto
  <2>4. HandsOff /\ HandsOff'
    BY <1>1, <2>1, UnderWay
  <2>5. CASE ~o.arrives
    BY <2>1, <2>2, <2>4, <2>5, Stutters DEF RouteVars
  <2>6. CASE o.arrives
    <3>1. link[t] # "down"
      BY <2>1, <2>6 DEF WriteOutcomes, Outcomes
    <3>2. jobs = 0
      BY <2>3, <3>1 DEF CellInv, CarInv, OneJobInv
    <3>3. plcReg = 0 /\ stationOneStop /\ ~palletizingDone
      BY <2>3, <3>2 DEF CellInv, CarInv, OrderInv, StopFlagged, GenuineInv, CallLabels
    <3>4. plcReg' = 1
      BY <2>1, <2>6
    <3> QED
      BY <2>2, <2>4, <3>3, <3>4 DEF R!Next, R!StartJob
  <2> QED
    BY <2>5, <2>6
<1>4. CASE PalDone(t)
  <2>1. HandsOff /\ HandsOff'
    BY <1>1, <1>4, UnderWay DEF PalDone
  <2>2. /\ palletizingDone' = TRUE /\ pc[t] = "palDone"
        /\ UNCHANGED <<stationOneStop, stationTwoStop, sixAxisDone, vel, plcReg, sent>>
    BY <1>1, <1>4 DEF PalDone, Goto, carVars, plcVars
  <2>3. plcReg = 2 /\ stationOneStop
    BY <2>2 DEF CellInv, CarInv, GenuineInv, StopFlagged, CallLabels
  <2>4. CASE palletizingDone
    BY <2>1, <2>2, <2>4 DEF R!vars
  <2>5. CASE ~palletizingDone
    BY <2>1, <2>2, <2>3, <2>5, RouteFacts DEF R!Next, R!LeaveOne
  <2> QED
    BY <2>4, <2>5
<1> QED
  BY <1>2, <1>3, <1>4 DEF Palletizes

LEMMA RestOnRoute ==
  ASSUME Undisturbed, CellInv, amiss = {}, Transports,
         ~\E t \in GoThreads : Drives(t) \/ Palletizes(t)
  PROVE  [R!Next]_R!vars
<1>1. TypeOK /\ UNCHANGED <<sixAxisDone, sent>>
  BY CarFlags DEF CellInv, armSide
<1>2. ASSUME NEW t \in GoThreads, Hoist(t)
      PROVE  [R!Next]_R!vars
  <2>1. HandsOff /\ HandsOff'
    BY <1>1, <1>2, UnderWay DEF Hoist
  <2>2. UNCHANGED RouteVars
    BY <1>1, <1>2 DEF Hoist, RouteVars, flagVars, carVars, plcVars
  <2> QED
    BY <2>1, <2>2, Stutters
<1>3. ASSUME NEW t \in GoThreads
      PROVE  ~PlcLate(t)
  BY DEF PlcLate, CellInv, CarInv, OneJobInv
<1>4. ASSUME pc' = pc, UNCHANGED RouteVars
      PROVE  [R!Next]_R!vars
  BY <1>4, Stutters DEF HandsOff
<1>5. CASE CameraStep
  BY <1>1, <1>4, <1>5 DEF CameraStep, RefreshRGB, Scans, WebCamGrab, KinectGrab, Grab, Scan,
     Calibrate,
     RouteVars, goVars, flagVars, carVars, plcVars
<1>6. CASE Operates
  <2>0. "freehand" \notin Hazards /\ "button1" \notin Hazards
        /\ "button2" \notin Hazards /\ "button3" \notin Hazards
    BY DEF Undisturbed
  <2>1. ASSUME NEW t \in GoThreads, Go(t)
        PROVE  R!Begin
    <3>1. UNCHANGED RouteVars
      BY <1>1, <2>1 DEF Go, RouteVars, flagVars, plcVars
    <3>2. pc[t] = "idle" /\ pc'[t] # "idle"
      BY <1>1, <2>1 DEF Go, Goto, TypeOK
    <3>3. ~HandsOff /\ HandsOff'
      BY <3>2 DEF HandsOff, Undisturbed, OneWorker
    <3> QED
      BY <3>1, <3>3 DEF R!Begin, RouteVars
  <2>2. ASSUME NEW v \in Speeds, Drive(v)
        PROVE  R!Drive
    <3>1. ~HandsOff
      BY <2>0, <2>2 DEF Drive, MayDrive, Free
    <3>2. /\ pc' = pc /\ vel' = v
          /\ UNCHANGED <<stationOneStop, palletizingDone, stationTwoStop, sixAxisDone,
                         plcReg, sent>>
      BY <1>1, <2>2 DEF Drive, goVars, flagVars, plcVars
    <3>3. HandsOff' = HandsOff /\ v \in Int
      BY <3>2 DEF HandsOff, Speeds
    <3> QED
      BY <3>1, <3>2, <3>3, RouteFacts DEF R!Drive, R!Travelling
  <2>3. ASSUME Connect
        PROVE  R!Drive
    <3>1. ~HandsOff
      BY <2>3, RouteFacts DEF Connect
    <3>2. /\ pc' = pc /\ vel' \in {0, vel}
          /\ UNCHANGED <<stationOneStop, palletizingDone, stationTwoStop, sixAxisDone,
                         plcReg, sent>>
      BY <1>1, <2>3 DEF Connect, goVars, flagVars, plcVars
    <3>3. HandsOff' = HandsOff /\ vel' \in Int
      BY <3>2, RouteFacts DEF HandsOff
    <3> QED
      BY <3>1, <3>2, <3>3, RouteFacts DEF R!Drive, R!Travelling
  <2>4. CASE \/ \E s \in Scanners : StartCamera(s)
             \/ SetPos1 \/ SetPos2 \/ Carry
    BY <1>1, <1>4, <2>4 DEF StartCamera, SetPos1, SetPos2, Carry,
       RouteVars, goVars, flagVars, carVars, plcVars
  <2>5. ~(PressStation1 \/ PressPalletized \/ PressStation2)
    BY <2>0 DEF PressStation1, PressPalletized, PressStation2
  <2> QED
    BY <1>6, <2>1, <2>2, <2>3, <2>4, <2>5
       DEF Operates, Forward, Backward, Stop, Speeds, R!Next
<1>7. CASE CarMove
  BY <1>1, <1>4, <1>7 DEF CarMove, RouteVars, goVars, flagVars, plcVars
<1>8. CASE PlcFinish
  <2>1. /\ pc' = pc /\ plcReg = 1 /\ plcReg' = 2
        /\ UNCHANGED <<stationOneStop, palletizingDone, stationTwoStop, sixAxisDone, vel, sent>>
    BY <1>1, <1>8 DEF PlcFinish, goVars, flagVars, carVars
  <2>2. HandsOff' = HandsOff
    BY <2>1 DEF HandsOff
  <2> QED
    BY <2>1, <2>2 DEF R!Next, R!FinishJob
<1> QED
  BY <1>2, <1>3, <1>5, <1>6, <1>7, <1>8 DEF Transports

LEMMA ArmOnRoute ==
  ASSUME DutifulArm, CellInv, Serves
  PROVE  [R!Next]_R!vars
<1>1. /\ UNCHANGED <<pc, stationOneStop, palletizingDone, vel, plcReg>>
      /\ ArmStep /\ stationTwoStop' = stationTwoStop
  BY ArmReplies DEF CellInv, carSide, goVars, carVars, plcVars
<1>2. HandsOff' = HandsOff
  BY <1>1 DEF HandsOff
<1> USE DEF A!carVars, A!visionVars, A!netVars, A!serverVars
<1>3. CASE A!SSend
  <2>1. sent' # {} /\ sixAxisDone' = sixAxisDone /\ stationTwoStop
    BY <1>3 DEF A!SSend, A!SStep, CellInv, ArmInv
  <2>2. CASE sixAxisDone
    <3>1. (sent' # {}) = (sent # {})
      BY <2>1, <2>2, RouteFacts
    <3> QED
      BY <1>1, <1>2, <2>1, <3>1 DEF R!vars
  <2>3. CASE ~sixAxisDone
    BY <1>1, <1>2, <2>1, <2>3, RouteFacts DEF R!Next, R!Tell
  <2> QED
    BY <2>2, <2>3
<1>4. CASE A!SNote
  <2>1. sent' = sent /\ sixAxisDone' = pkg.workDone
    BY <1>4 DEF A!SNote
  <2>2. /\ sixAxisDone \in BOOLEAN /\ pkg.workDone \in BOOLEAN
        /\ sixAxisDone => pkg.workDone
        /\ pkg.workDone => stationTwoStop /\ sent # {}
    BY DEF CellInv, ArmInv, A!TypeOK, A!Packages
  <2>3. CASE sixAxisDone' = sixAxisDone
    BY <1>1, <1>2, <2>1, <2>3 DEF R!vars
  <2>4. CASE sixAxisDone' # sixAxisDone
    <3>1. ~sixAxisDone /\ sixAxisDone' /\ stationTwoStop /\ sent # {}
      BY <2>1, <2>2, <2>4
    <3> QED
      BY <1>1, <1>2, <2>1, <3>1, RouteFacts DEF R!Next, R!LeaveTwo
  <2> QED
    BY <2>3, <2>4
<1>5. CASE ~A!SSend /\ ~A!SNote
  <2>1. UNCHANGED <<sixAxisDone, sent>>
    BY <1>1, <1>5 DEF ArmStep, A!Vision, A!VCopy, A!VTest, A!VTheta, A!VX, A!VY, A!VZ, A!VHand,
       A!RefreshCanny, A!Server, A!SZero, A!SEnable, A!SAccept, A!SOffer, A!SYield, A!STake,
       A!SReceive, A!Arm, A!AConnect, A!AAnswer, A!AHangUp
  <2> QED
    BY <1>1, <1>2, <2>1 DEF R!vars
<1> QED
  BY <1>3, <1>4, <1>5

\* The cell keeps to its Route: from station to station in order, no command
\* while the car is at one of them, one job, and no leaving before the job or
\* the arm's work is done, of which the arm has been told.  It does so for any
\* Undisturbed run of the car and any arm that waits and reports only work that is
\* done, up to the first Modbus answer that comes late or is taken for a 2 unread.
\* (That a run begun gets there is left to TLC.)
THEOREM RouteIsKept ==
  ASSUME Undisturbed, DutifulArm
  PROVE  CellSpec => R!Init /\ [][amiss = {} => R!Next]_R!vars
<1>1. CellInit => R!Init
  BY DEF CellInit, Init, A!Init, R!Init, HandsOff
<1>2. CellInv /\ [CellNext]_cellVars => CellInv' /\ [amiss = {} => R!Next]_R!vars
  <2> SUFFICES ASSUME CellInv, [CellNext]_cellVars
               PROVE  CellInv' /\ (amiss = {} => [R!Next]_R!vars)
    OBVIOUS
  <2>1. CASE Transports
    BY <2>1, CellInvStep, LoopOnRoute, DialogueOnRoute, RestOnRoute
  <2>2. CASE Serves
    BY <2>2, CellInvStep, ArmOnRoute
  <2>3. CASE UNCHANGED cellVars
    <3>1. UNCHANGED <<pc, stationOneStop, palletizingDone, stationTwoStop, sixAxisDone,
                      vel, plcReg, sent>>
      BY <2>3 DEF cellVars, carSide, armSide, goVars, carVars, plcVars
    <3> QED
      BY <2>3, <3>1, CellInvStep DEF R!vars, HandsOff
  <2> QED
    BY <2>1, <2>2, <2>3 DEF CellNext
<1> QED
  BY <1>1, <1>2, CellInvInit, PTL DEF CellSpec
=============================================================================
